--------------------------- MODULE StationProofs ---------------------------
(***************************************************************************)
(* Proofs about Station, for any work modes, failures and losses of the     *)
(* link, and any length of the queue to the supplicant.  The invariant has  *)
(* a part for each thread (where in its program it is), for each pair of    *)
(* threads that wait for each other, for the order in which a link, its     *)
(* indication and its end reach the supplicant, and for each of the four    *)
(* properties.                                                             *)
(***************************************************************************)
EXTENDS Station, TLAPS

-----------------------------------------------------------------------------
(* The programs of the threads.                                            *)

Statuses == {"IDLE", "SCANNING", "SCAN_OVER", "CONNECTING", "BEACON_LOSE", "PASSWORD_WRONG",
             "NO_AP_FOUND", "ASSOC_FULL", "DISCONNECTED", "CONNECT_FAILED", "DHCP_FAILED",
             "CONNECTED", "GOT_IP"}
Commanded == {"DISCONNECT", "ENABLE", "CONNECT", "DISABLE"}
Messages == Commanded \cup {"assoc", "reject"}

\* Steps that follow from others (Then), and the rest.
Following == {"Status", "Report", "ReportNow", "NetDown", "NetUp", "CbNull", "CbSet",
              "DhcpStart", "DhcpStop"}
Ops == Following \cup {"SetStatusCb", "ReconnectOver", "AssocInd", "IpDown", "IpStart", "AddNetif",
                       "RemoveNetif", "Cmd", "Wait", "Ack", "Post", "Signal", "Deauth"}
Steps == {s \in [op : Ops, arg : Statuses \cup Messages \cup {"none"}] :
            s.op \in {"Status", "Report"} => s.arg \in Statuses}

D == Cmd("DISCONNECT")
E == Cmd("ENABLE")
C == Cmd("CONNECT")
X == Cmd("DISABLE")
S == Status("IDLE")

AppTodo == todo["app"]
WpasTodo == todo["wpas"]
RxTodo == todo["rx"]
TcpipTodo == todo["tcpip"]

\* What is left of bk_wlan_start_sta and bk_wlan_stop at each of their steps.
Lowering == <<Step("NetDown"), Step("CbNull"), Step("DhcpStop")>>

Free == {<<>>, <<S>>}
Stopping ==
  {<<S, S, Step("IpDown"), X>>, <<S, Step("IpDown"), X>>, <<Step("IpDown"), X>>,
   <<Step("NetDown"), Step("CbNull"), Step("DhcpStop"), X>>,
   <<Step("CbNull"), Step("DhcpStop"), X>>, <<Step("DhcpStop"), X>>, <<X>>}
Beginning == {<<Step("SetStatusCb"), Step("IpDown"), D, S, E, C>>}
Begun ==
  {<<Step("ReportNow"), Step("IpDown"), D, S, E, C>>, <<Step("IpDown"), D, S, E, C>>}
Lowered ==
  {<<Step("NetDown"), Step("CbNull"), Step("DhcpStop"), D, S, E, C>>,
   <<Step("CbNull"), Step("DhcpStop"), D, S, E, C>>, <<Step("DhcpStop"), D, S, E, C>>,
   <<D, S, E, C>>}
WaitD == {<<Step("Wait"), S, E, C>>}
Left == {<<S, E, C>>, <<E, C>>}
WaitE == {<<Step("Wait"), C>>}
Finishing == {<<C>>}
WaitC == {<<Step("Wait")>>}

Points == Free \cup Stopping \cup Beginning \cup Begun \cup Lowered \cup WaitD \cup Left
          \cup WaitE \cup Finishing \cup WaitC

Stage(s) ==
  CASE s \in Free -> "free"
    [] s \in Stopping -> "stopping"
    [] s \in Beginning -> "beginning"
    [] s \in Begun -> "begun"
    [] s \in Lowered -> "lowered"
    [] s \in WaitD -> "waitD"
    [] s \in Left -> "left"
    [] s \in WaitE -> "waitE"
    [] s \in Finishing -> "last"
    [] OTHER -> "waitC"

AppStage == Stage(AppTodo)

\* The supplicant's thread while it joins a network and sets up the interface.
OverPlan == <<Status("SCAN_OVER")>>
AckPlan == <<Step("Ack")>>
Quiet == {<<>>, AckPlan}
StartPlan == <<Step("IpStart")>>
Plan1 == <<Step("NetDown"), Step("CbNull"), Step("CbSet"), Step("NetUp"), Step("DhcpStart")>>
Plan2 == <<Step("CbNull"), Step("CbSet"), Step("NetUp"), Step("DhcpStart")>>
Plan3 == <<Step("CbSet"), Step("NetUp"), Step("DhcpStart")>>
Plan4 == <<Step("NetUp"), Step("DhcpStart")>>
Plan5 == <<Step("DhcpStart")>>

\* The receiver while the firmware has a link or is about to.
ConnectingPlan == <<Status("CONNECTING")>>
AssocPlans ==
  {<<>>, <<Step("AssocInd"), StepOf("Post", "assoc")>>,
   <<Status("CONNECTED"), StepOf("Post", "assoc")>>, <<StepOf("Post", "assoc")>>}

TellPlan == <<Status("GOT_IP")>>
ReportPlan == <<StepOf("Report", "GOT_IP")>>

Derived == {s \in Steps : s.op \in Following}
RxSteps == {s \in Steps : /\ s.op \in {"Status", "Report", "AssocInd", "Post", "Signal"}
                          /\ s.op = "Post" => s.arg \in {"assoc", "reject"}}

\* The commands that are in wpah_queue.
Sent == {c \in Commanded : \E i \in 1..Len(mail) : mail[i] = c}

\* A thread has such a step before it; has it at most as its last.
Has(s, op) == \E i \in 1..Len(s) : s[i].op = op
Ends(s, op) == \A i \in 1..Len(s) : s[i].op = op => i = Len(s)

Answers == Has(WpasTodo, "Ack")
Starts == Has(WpasTodo, "IpStart")
Lowers == Has(WpasTodo, "IpDown")
Leaves == Has(WpasTodo, "Deauth")
Posts == Has(RxTodo, "Post")
SignalDue == Has(RxTodo, "Signal")

\* Some message of a set is in wpah_queue; at most one is.
Queued(M) == \E i \in 1..Len(mail) : mail[i] \in M
One(M) == \A i, j \in 1..Len(mail) : mail[i] \in M /\ mail[j] \in M => i = j

Indications == {"assoc", "reject"}
Indicated == Queued(Indications)
Rejected == Queued({"reject"})

-----------------------------------------------------------------------------
(* The invariant.                                                          *)

Netifs == [up : BOOLEAN, cb : BOOLEAN, dhcp : {"off", "selecting", "bound"}]

WpaStates ==
  {"off", "disconnected", "scanning", "associating", "associated", "astray", "completed"}

Types ==
  /\ todo \in [Threads -> Seq(Steps)]
  /\ g_connect_transient_status \in Statuses /\ g_connect_abnormal_status \in Statuses
  /\ connect_status \in Statuses
  /\ station_status_cb \in BOOLEAN /\ sta_ip_start_flag \in BOOLEAN
  /\ netif \in Netifs
  /\ wpa \in WpaStates
  /\ disconnected \in BOOLEAN /\ scan \in BOOLEAN /\ signaled \in BOOLEAN /\ leaving \in BOOLEAN
  /\ mail \in Seq(Messages)
  /\ link \in {"none", "requested", "joining", "joined"}

OneSent == One(Commanded)
OneIndication == One(Indications)

\* The application is at one of the points of its programs; at most one command
\* is under way, the one it waits for, or its answer.
Program ==
  /\ AppTodo \in Points
  /\ OneSent
  /\ Sent # {} \/ Answers => AppStage \in {"waitD", "waitE", "waitC"}
  /\ AppStage = "waitD" => Sent \subseteq {"DISCONNECT"}
  /\ AppStage = "waitE" => Sent \subseteq {"ENABLE"}
  /\ AppStage = "waitC" => Sent \in {{}, {"CONNECT"}, {"DISABLE"}}
  /\ Answers => Sent = {}
  /\ Ends(WpasTodo, "Ack")

\* The flag is reset before, or right after, the connection is given up.
Flagged ==
  /\ sta_ip_start_flag => wpa \in {"completed", "off"} \/ Lowers
  /\ sta_ip_start_flag /\ wpa = "off" =>
       AppStage \notin {"lowered", "left", "waitD"} /\ Sent # {"ENABLE"}

\* A station that was started has registered its callback.
Registered ==
  \/ wpa # "off"
  \/ AppStage \in {"begun", "lowered", "waitD", "left", "waitE", "last"}
  => station_status_cb

\* A supplicant that has found a network does nothing but join it and set up
\* the interface, and answer; one that leaves its network has none.
Joining ==
  /\ Engaged \/ Leaves => ~scan
  /\ wpa = "associating" => WpasTodo \in Quiet \cup {OverPlan}
  /\ wpa = "associated" => WpasTodo \in Quiet
  /\ wpa = "completed" =>
       WpasTodo \in Quiet \cup {StartPlan, Plan1, Plan2, Plan3, Plan4, Plan5}
  /\ wpa # "completed" => ~Starts
  /\ wpa = "astray" => ~Leaves
  /\ WpasTodo = StartPlan => ~sta_ip_start_flag

\* The receiver says nothing else while there is a link.
Receiving ==
  /\ RxTodo \in Seq(RxSteps)
  /\ Ends(RxTodo, "Post")
  /\ link # "none" => ~leaving
  /\ link = "joining" => RxTodo \in {<<>>, ConnectingPlan}
  /\ link = "joined" => RxTodo \in AssocPlans

\* There is a link only for a supplicant that is engaged, or is about to leave it.
Linked ==
  /\ link # "none" => Engaged \/ Leaves
  /\ link \in {"requested", "joining"} => wpa = "associating" \/ Leaves

\* One indication at most is under way, to a supplicant that waits for it or
\* has given its network up.
Indicating ==
  /\ OneIndication
  /\ Posts => ~Indicated
  /\ Rejected => link = "none"
  /\ Posts \/ Indicated =>
       /\ wpa \in {"off", "disconnected", "scanning", "associating"} /\ ~scan
       /\ link \in {"none", "joined"}
  /\ Posts => wpa = "associating" \/ Leaves

\* The end of a link is told behind its indication and before the next one; the
\* loss of the link of a station that has an address is a signal that is pending
\* or about to be.
Signalling ==
  /\ signaled \/ SignalDue => link = "none" /\ ~Posts
  /\ wpa = "completed" /\ link # "joined" /\ WpasTodo \in Quiet /\ netif.dhcp = "bound" =>
       signaled \/ SignalDue

\* The application is on its way to disconnect or stop the station.
Doomed == \/ AppStage \in {"stopping", "beginning", "begun", "lowered"}
          \/ Sent \in {{"DISCONNECT"}, {"DISABLE"}}

Configured ==
  wpa = "completed" /\ ~Doomed /\ WpasTodo # StartPlan =>
    /\ sta_ip_start_flag
    /\ WpasTodo \in Quiet \cup {Plan5, Plan4} => netif.cb
    /\ WpasTodo \in Quiet \cup {Plan5} => netif.up
    /\ WpasTodo \in Quiet => netif.dhcp # "off"

Reporting == TcpipTodo \in {<<>>, TellPlan, ReportPlan}

\* GOT_IP is what was reported last when it is the status, from the report of
\* CONNECTING on, which drops what earlier connections left.
Told ==
  /\ Engaged /\ ~Doomed /\ link \in {"joining", "joined"}
  /\ RxTodo # ConnectingPlan /\ WpasTodo # OverPlan
  /\ g_connect_transient_status = "GOT_IP"
  => connect_status = "GOT_IP" \/ TcpipTodo = ReportPlan

\* An address is reported, or is about to be.
Reported ==
  wpa = "completed" /\ ~Doomed /\ link = "joined" /\ WpasTodo \in Quiet /\ netif.dhcp = "bound"
  => connect_status = "GOT_IP" \/ TcpipTodo \in {TellPlan, ReportPlan}

Wants == Program /\ Registered
Does == Flagged /\ Joining
Hears == Receiving /\ Linked /\ Indicating /\ Signalling
Says == Configured /\ Reporting /\ Told /\ Reported
IInv == Types /\ Wants /\ Does /\ Hears /\ Says
-----------------------------------------------------------------------------
(* Sequences of a few steps.                                               *)

\* What is left of a sequence that starts with given elements.
LEMMA Append2 ==
  ASSUME NEW a, NEW b
  PROVE  <<a>> \o <<b>> = <<a, b>>
<1> DEFINE s == <<a>> \o <<b>>
           t == <<a, b>>
<1>1. s \in Seq({a, b}) /\ t \in Seq({a, b})
  BY SMT
<1>2. Len(s) = 2 /\ Len(t) = 2
  BY SMT
<1>3. s[1] = a /\ s[2] = b
  BY SMT
<1>4. s = [i \in 1..Len(s) |-> s[i]] /\ t = [i \in 1..Len(t) |-> t[i]]
  BY <1>1
<1>5. \A i \in 1..2 : s[i] = t[i]
  BY <1>3, SMT
<1> QED
  BY <1>2, <1>4, <1>5

LEMMA Append3 ==
  ASSUME NEW a, NEW b, NEW c
  PROVE  /\ <<a>> \o <<b, c>> = <<a, b, c>>
         /\ <<a, b>> \o <<c>> = <<a, b, c>>
<1> DEFINE r == <<a>> \o <<b, c>>
           s == <<a, b>> \o <<c>>
           t == <<a, b, c>>
<1>1. r \in Seq({a, b, c}) /\ s \in Seq({a, b, c}) /\ t \in Seq({a, b, c})
  BY SMT
<1>2. Len(r) = 3 /\ Len(s) = 3 /\ Len(t) = 3
  BY SMT
<1>3. /\ r[1] = a /\ r[2] = b /\ r[3] = c
      /\ s[1] = a /\ s[2] = b /\ s[3] = c
  BY SMT
<1>4. /\ r = [i \in 1..Len(r) |-> r[i]]
      /\ s = [i \in 1..Len(s) |-> s[i]]
      /\ t = [i \in 1..Len(t) |-> t[i]]
  BY <1>1
<1>5. \A i \in 1..3 : r[i] = t[i] /\ s[i] = t[i]
  BY <1>3, SMT
<1> QED
  BY <1>2, <1>4, <1>5

LEMMA Append4 ==
  ASSUME NEW a, NEW b, NEW c, NEW d
  PROVE  /\ <<a>> \o <<b, c, d>> = <<a, b, c, d>>
         /\ <<a, b, c>> \o <<d>> = <<a, b, c, d>>
<1> DEFINE r == <<a>> \o <<b, c, d>>
           s == <<a, b, c>> \o <<d>>
           t == <<a, b, c, d>>
<1>1. r \in Seq({a, b, c, d}) /\ s \in Seq({a, b, c, d}) /\ t \in Seq({a, b, c, d})
  BY SMT
<1>2. Len(r) = 4 /\ Len(s) = 4 /\ Len(t) = 4
  BY SMT
<1>3. /\ r[1] = a /\ r[2] = b /\ r[3] = c /\ r[4] = d
      /\ s[1] = a /\ s[2] = b /\ s[3] = c /\ s[4] = d
  BY SMT
<1>4. /\ r = [i \in 1..Len(r) |-> r[i]]
      /\ s = [i \in 1..Len(s) |-> s[i]]
      /\ t = [i \in 1..Len(t) |-> t[i]]
  BY <1>1
<1>5. \A i \in 1..4 : r[i] = t[i] /\ s[i] = t[i]
  BY <1>3, SMT
<1> QED
  BY <1>2, <1>4, <1>5

LEMMA Append6 ==
  ASSUME NEW a, NEW b, NEW c, NEW d, NEW e, NEW f
  PROVE  <<a>> \o <<b, c, d, e, f>> = <<a, b, c, d, e, f>>
<1> DEFINE s == <<a>> \o <<b, c, d, e, f>>
           t == <<a, b, c, d, e, f>>
<1>1. s \in Seq({a, b, c, d, e, f}) /\ t \in Seq({a, b, c, d, e, f})
  BY SMT
<1>2. Len(s) = 6 /\ Len(t) = 6
  BY SMT
<1>3. s[1] = a /\ s[2] = b /\ s[3] = c /\ s[4] = d /\ s[5] = e /\ s[6] = f
  BY SMT
<1>4. s = [i \in 1..Len(s) |-> s[i]] /\ t = [i \in 1..Len(t) |-> t[i]]
  BY <1>1
<1>5. \A i \in 1..6 : s[i] = t[i]
  BY <1>3, SMT
<1> QED
  BY <1>2, <1>4, <1>5

LEMMA Append7 ==
  ASSUME NEW a, NEW b, NEW c, NEW d, NEW e, NEW f, NEW g
  PROVE  <<a, b, c>> \o <<d, e, f, g>> = <<a, b, c, d, e, f, g>>
<1> DEFINE s == <<a, b, c>> \o <<d, e, f, g>>
           t == <<a, b, c, d, e, f, g>>
<1>1. s \in Seq({a, b, c, d, e, f, g}) /\ t \in Seq({a, b, c, d, e, f, g})
  BY SMT
<1>2. Len(s) = 7 /\ Len(t) = 7
  BY SMT
<1>3. s[1] = a /\ s[2] = b /\ s[3] = c /\ s[4] = d /\ s[5] = e /\ s[6] = f /\ s[7] = g
  BY SMT
<1>4. s = [i \in 1..Len(s) |-> s[i]] /\ t = [i \in 1..Len(t) |-> t[i]]
  BY <1>1
<1>5. \A i \in 1..7 : s[i] = t[i]
  BY <1>3, SMT
<1> QED
  BY <1>2, <1>4, <1>5

\* Then, for a set of steps that both what is taken and what is added are in.
LEMMA SequenceLemma ==
  ASSUME NEW T, NEW s \in Seq(T), s # <<>>
  PROVE  /\ Head(s) \in T /\ Tail(s) \in Seq(T)
         /\ <<>> \o Tail(s) = Tail(s)
         /\ \A r \in Seq(T) : r \o Tail(s) \in Seq(T)
  BY SMT

\* What two programs have that are done one after the other.
LEMMA ConcatLemma ==
  ASSUME NEW r \in Seq(Steps), NEW t \in Seq(Steps), NEW o
  PROVE  Has(r \o t, o) <=> Has(r, o) \/ Has(t, o)
<1>1. PICK u : u = r \o t
  OBVIOUS
<1>2. /\ Len(r) \in Nat /\ Len(t) \in Nat /\ Len(u) = Len(r) + Len(t)
      /\ \A i \in 1..Len(r) : u[i] = r[i]
      /\ \A i \in 1..Len(t) : u[Len(r) + i] = t[i]
  BY <1>1
<1>3. ASSUME NEW i \in 1..Len(u), u[i].op = o
      PROVE  Has(r, o) \/ Has(t, o)
  <2>1. CASE i <= Len(r)
    <3>1. i \in 1..Len(r) /\ r[i].op = o
      BY <1>2, <1>3, <2>1
    <3> QED
      BY <3>1 DEF Has
  <2>2. CASE i > Len(r)
    <3>1. i - Len(r) \in 1..Len(t) /\ i = Len(r) + (i - Len(r))
      BY <1>2, <2>2
    <3>2. t[i - Len(r)].op = o
      BY <1>2, <1>3, <3>1
    <3> QED
      BY <3>1, <3>2 DEF Has
  <2> QED
    BY <1>2, <2>1, <2>2
<1>4. ASSUME NEW i \in 1..Len(r), r[i].op = o
      PROVE  Has(u, o)
  <2>1. i \in 1..Len(u)
    BY <1>2
  <2> QED
    BY <1>2, <1>4, <2>1 DEF Has
<1>5. ASSUME NEW i \in 1..Len(t), t[i].op = o
      PROVE  Has(u, o)
  <2>1. Len(r) + i \in 1..Len(u)
    BY <1>2
  <2> QED
    BY <1>2, <1>5, <2>1 DEF Has
<1>6. Has(u, o) => Has(r, o) \/ Has(t, o)
  BY <1>3 DEF Has
<1>7. Has(r, o) \/ Has(t, o) => Has(u, o)
  BY <1>4, <1>5 DEF Has
<1> QED
  BY <1>1, <1>6, <1>7

\* What is before a thread that takes its first step, and what it is given.
LEMMA HasLemma ==
  ASSUME NEW s \in Seq(Steps), s # <<>>, NEW r \in Seq(Steps), NEW o
  PROVE  /\ Has(s, o) <=> Head(s).op = o \/ Has(Tail(s), o)
         /\ Has(r \o Tail(s), o) <=> Has(r, o) \/ Has(Tail(s), o)
<1>1. PICK t : t = Tail(s)
  OBVIOUS
<1>2. /\ t \in Seq(Steps) /\ Len(s) = Len(t) + 1 /\ Len(t) \in Nat /\ s[1] = Head(s)
      /\ \A i \in 1..Len(t) : t[i] = s[i + 1]
  BY <1>1
<1>3. Has(s, o) <=> Head(s).op = o \/ Has(t, o)
  <2>1. ASSUME NEW i \in 1..Len(s), s[i].op = o, i # 1
        PROVE  \E k \in 1..Len(t) : t[k].op = o
    <3>1. i - 1 \in 1..Len(t) /\ t[i - 1] = s[i]
      BY <1>2, <2>1
    <3> QED
      BY <2>1, <3>1
  <2>2. ASSUME NEW k \in 1..Len(t), t[k].op = o
        PROVE  \E i \in 1..Len(s) : s[i].op = o
    <3>1. k + 1 \in 1..Len(s) /\ s[k + 1] = t[k]
      BY <1>2
    <3> QED
      BY <2>2, <3>1
  <2>3. 1 \in 1..Len(s)
    BY <1>2
  <2> QED
    BY <1>2, <2>1, <2>2, <2>3 DEF Has
<1>4. Has(r \o t, o) <=> Has(r, o) \/ Has(t, o)
  BY <1>2, ConcatLemma
<1> QED
  BY <1>1, <1>3, <1>4

\* What a program of a few steps has.
LEMMA FewLemma ==
  ASSUME NEW a, NEW b, NEW c, NEW d, NEW o
  PROVE  /\ ~Has(<<>>, o)
         /\ Has(<<a>>, o) <=> a.op = o
         /\ Has(<<a, b>>, o) <=> a.op = o \/ b.op = o
         /\ Has(<<a, b, c>>, o) <=> a.op = o \/ b.op = o \/ c.op = o
         /\ Has(<<a, b, c, d>>, o) <=> a.op = o \/ b.op = o \/ c.op = o \/ d.op = o
<1>1. ~Has(<<>>, o)
  BY DEF Has
<1>2. Has(<<a>>, o) <=> a.op = o
  BY DEF Has
<1>3. Has(<<a, b>>, o) <=> a.op = o \/ b.op = o
  <2>1. Len(<<a, b>>) = 2 /\ <<a, b>>[1] = a /\ <<a, b>>[2] = b
    OBVIOUS
  <2> QED
    BY <2>1 DEF Has
<1>4. Has(<<a, b, c>>, o) <=> a.op = o \/ b.op = o \/ c.op = o
  <2>1. Len(<<a, b, c>>) = 3 /\ <<a, b, c>>[1] = a /\ <<a, b, c>>[2] = b /\ <<a, b, c>>[3] = c
    OBVIOUS
  <2> QED
    BY <2>1 DEF Has
<1>5. Has(<<a, b, c, d>>, o) <=> a.op = o \/ b.op = o \/ c.op = o \/ d.op = o
  <2>1. /\ Len(<<a, b, c, d>>) = 4 /\ <<a, b, c, d>>[1] = a /\ <<a, b, c, d>>[2] = b
        /\ <<a, b, c, d>>[3] = c /\ <<a, b, c, d>>[4] = d
    OBVIOUS
  <2> QED
    BY <2>1 DEF Has
<1> QED
  BY <1>1, <1>2, <1>3, <1>4, <1>5

\* A step that comes last in a program stays last.
LEMMA EndsLemma ==
  ASSUME NEW s \in Seq(Steps), NEW o
  PROVE  /\ ~Has(s, o) => Ends(s, o) /\ \A a : Ends(s \o <<a>>, o)
         /\ s # <<>> /\ Ends(s, o) =>
              /\ Head(s).op = o => Tail(s) = <<>>
              /\ \A r \in Seq(Steps) : ~Has(r, o) => Ends(r \o Tail(s), o)
<1>1. ~Has(s, o) => Ends(s, o)
  BY DEF Has, Ends
<1>2. ASSUME ~Has(s, o), NEW a
      PROVE  Ends(s \o <<a>>, o)
  <2>1. /\ Len(s) \in Nat /\ Len(s \o <<a>>) = Len(s) + 1
        /\ \A i \in 1..Len(s) : (s \o <<a>>)[i] = s[i]
    OBVIOUS
  <2>2. \A i \in 1..Len(s) : (s \o <<a>>)[i].op # o
    BY <1>2, <2>1 DEF Has
  <2> QED
    BY <2>1, <2>2 DEF Ends
<1>3. ASSUME s # <<>>, Ends(s, o)
      PROVE  /\ Head(s).op = o => Tail(s) = <<>>
             /\ \A r \in Seq(Steps) : ~Has(r, o) => Ends(r \o Tail(s), o)
  <2>1. PICK t : t = Tail(s)
    OBVIOUS
  <2>2. /\ t \in Seq(Steps) /\ Len(s) = Len(t) + 1 /\ Len(t) \in Nat /\ s[1] = Head(s)
        /\ \A i \in 1..Len(t) : t[i] = s[i + 1] /\ i + 1 \in 1..Len(s)
        /\ 1 \in 1..Len(s)
    BY <1>3, <2>1
  <2>3. Head(s).op = o => t = <<>>
    <3>1. Head(s).op = o => Len(s) = 1
      BY <1>3, <2>2 DEF Ends
    <3>2. Len(t) = 0 => t = <<>>
      BY <2>2
    <3> QED
      BY <2>2, <3>1, <3>2
  <2>4. ASSUME NEW r \in Seq(Steps), ~Has(r, o)
        PROVE  Ends(r \o t, o)
    <3>1. /\ Len(r) \in Nat /\ Len(r \o t) = Len(r) + Len(t)
          /\ \A i \in 1..Len(r) : (r \o t)[i] = r[i]
          /\ \A i \in 1..Len(t) : (r \o t)[Len(r) + i] = t[i]
      BY <2>2
    <3>2. \A i \in 1..Len(r) : (r \o t)[i].op # o
      BY <2>4, <3>1 DEF Has
    <3>3. ASSUME NEW i \in 1..Len(t), t[i].op = o
          PROVE  i = Len(t)
      <4>1. i + 1 \in 1..Len(s) /\ s[i + 1].op = o
        BY <2>2, <3>3
      <4>2. i + 1 = Len(s)
        BY <1>3, <4>1 DEF Ends
      <4> QED
        BY <2>2, <4>2
    <3>4. ASSUME NEW i \in 1..Len(r \o t), (r \o t)[i].op = o
          PROVE  i = Len(r \o t)
      <4>1. i \notin 1..Len(r)
        BY <3>2, <3>4
      <4>2. i - Len(r) \in 1..Len(t) /\ i = Len(r) + (i - Len(r))
        BY <2>2, <3>1, <4>1
      <4>3. t[i - Len(r)].op = o
        BY <3>1, <3>4, <4>2
      <4>4. i - Len(r) = Len(t)
        BY <3>3, <4>2, <4>3
      <4> QED
        BY <2>2, <3>1, <4>2, <4>4
    <3> QED
      BY <3>4 DEF Ends
  <2> QED
    BY <2>1, <2>3, <2>4
<1> QED
  BY <1>1, <1>2, <1>3

\* Where the application goes from each of its points.
LEMMA FreeTable ==
  ASSUME NEW s \in Free
  PROVE  s # <<>> => Head(s) = S /\ Tail(s) = <<>>
<1>1. CASE s = <<S>>
  BY <1>1
<1> QED
  BY <1>1 DEF Free

LEMMA StoppingTable ==
  ASSUME NEW s \in Stopping
  PROVE  /\ s # <<>>
         /\ \/ Head(s) = S /\ Tail(s) \in Stopping
            \/ Head(s) = Step("IpDown") /\ Tail(s) \in Stopping /\ Lowering \o Tail(s) \in Stopping
            \/ Head(s) \in {Step("NetDown"), Step("CbNull"), Step("DhcpStop")} /\ Tail(s) \in Stopping
            \/ Head(s) = X /\ <<Step("Wait")>> \o Tail(s) \in WaitC
<1>1. CASE s = <<S, S, Step("IpDown"), X>>
  BY <1>1 DEF Stopping
<1>2. CASE s = <<S, Step("IpDown"), X>>
  BY <1>2 DEF Stopping
<1>3. CASE s = <<Step("IpDown"), X>>
  <2>1. Lowering \o <<X>> = <<Step("NetDown"), Step("CbNull"), Step("DhcpStop"), X>>
    BY Append4 DEF Lowering
  <2>2. Tail(s) = <<X>> /\ Head(s) = Step("IpDown") /\ s # <<>>
    BY <1>3
  <2> QED
    BY <2>1, <2>2 DEF Stopping
<1>4. CASE s = <<Step("NetDown"), Step("CbNull"), Step("DhcpStop"), X>>
  BY <1>4 DEF Stopping
<1>5. CASE s = <<Step("CbNull"), Step("DhcpStop"), X>>
  BY <1>5 DEF Stopping
<1>6. CASE s = <<Step("DhcpStop"), X>>
  BY <1>6 DEF Stopping
<1>7. CASE s = <<X>>
  BY <1>7 DEF WaitC
<1> QED
  BY <1>1, <1>2, <1>3, <1>4, <1>5, <1>6, <1>7 DEF Stopping

LEMMA BeginningTable ==
  ASSUME NEW s \in Beginning
  PROVE  /\ s # <<>> /\ Head(s) = Step("SetStatusCb")
         /\ Tail(s) \in Begun /\ <<Step("ReportNow")>> \o Tail(s) \in Begun
<1>0. s = <<Step("SetStatusCb"), Step("IpDown"), D, S, E, C>>
  BY DEF Beginning
<1>1. Tail(s) = <<Step("IpDown"), D, S, E, C>> /\ Head(s) = Step("SetStatusCb") /\ s # <<>>
  BY <1>0
<1>2. <<Step("ReportNow")>> \o <<Step("IpDown"), D, S, E, C>>
        = <<Step("ReportNow"), Step("IpDown"), D, S, E, C>>
  BY Append6
<1> QED
  BY <1>1, <1>2 DEF Begun

LEMMA BegunTable ==
  ASSUME NEW s \in Begun
  PROVE  /\ s # <<>>
         /\ \/ Head(s) = Step("ReportNow") /\ Tail(s) \in Begun
            \/ Head(s) = Step("IpDown") /\ Tail(s) \in Lowered /\ Lowering \o Tail(s) \in Lowered
<1>1. CASE s = <<Step("ReportNow"), Step("IpDown"), D, S, E, C>>
  BY <1>1 DEF Begun
<1>2. CASE s = <<Step("IpDown"), D, S, E, C>>
  <2>1. Tail(s) = <<D, S, E, C>> /\ Head(s) = Step("IpDown") /\ s # <<>>
    BY <1>2
  <2>2. Lowering \o <<D, S, E, C>>
          = <<Step("NetDown"), Step("CbNull"), Step("DhcpStop"), D, S, E, C>>
    BY Append7 DEF Lowering
  <2> QED
    BY <2>1, <2>2 DEF Lowered
<1> QED
  BY <1>1, <1>2 DEF Begun

LEMMA LoweredTable ==
  ASSUME NEW s \in Lowered
  PROVE  /\ s # <<>>
         /\ \/ Head(s) \in {Step("NetDown"), Step("CbNull"), Step("DhcpStop")} /\ Tail(s) \in Lowered
            \/ Head(s) = D /\ <<Step("Wait")>> \o Tail(s) \in WaitD
<1>1. CASE s = <<Step("NetDown"), Step("CbNull"), Step("DhcpStop"), D, S, E, C>>
  BY <1>1 DEF Lowered
<1>2. CASE s = <<Step("CbNull"), Step("DhcpStop"), D, S, E, C>>
  BY <1>2 DEF Lowered
<1>3. CASE s = <<Step("DhcpStop"), D, S, E, C>>
  BY <1>3 DEF Lowered
<1>4. CASE s = <<D, S, E, C>>
  <2>1. Tail(s) = <<S, E, C>> /\ Head(s) = D /\ s # <<>>
    BY <1>4
  <2> QED
    BY <2>1, Append4 DEF WaitD
<1> QED
  BY <1>1, <1>2, <1>3, <1>4 DEF Lowered

LEMMA LeftTable ==
  ASSUME NEW s \in Left
  PROVE  /\ s # <<>>
         /\ \/ Head(s) = S /\ Tail(s) \in Left
            \/ Head(s) = E /\ <<Step("Wait")>> \o Tail(s) \in WaitE
<1>1. CASE s = <<S, E, C>>
  BY <1>1 DEF Left
<1>2. CASE s = <<E, C>>
  BY <1>2, Append2 DEF WaitE
<1> QED
  BY <1>1, <1>2 DEF Left

LEMMA FinishingTable ==
  ASSUME NEW s \in Finishing
  PROVE  s # <<>> /\ Head(s) = C /\ <<Step("Wait")>> \o Tail(s) \in WaitC
<1>1. s = <<C>>
  BY DEF Finishing
<1>2. s # <<>> /\ Head(s) = C /\ Tail(s) = <<>>
  BY <1>1
<1>3. <<Step("Wait")>> \o <<>> = <<Step("Wait")>>
  BY SMT
<1> QED
  BY <1>2, <1>3 DEF WaitC

LEMMA WaitTable ==
  /\ \A s \in WaitD : s # <<>> /\ Head(s) = Step("Wait") /\ Tail(s) \in Left
  /\ \A s \in WaitE : s # <<>> /\ Head(s) = Step("Wait") /\ Tail(s) \in Finishing
  /\ \A s \in WaitC : s # <<>> /\ Head(s) = Step("Wait") /\ Tail(s) = <<>>
  BY DEF WaitD, WaitE, WaitC, Left, Finishing

\* The programs of the application start at points.
LEMMA CallTable ==
  /\ <<Step("SetStatusCb")>> \o bk_wlan_start_sta \in Beginning
  /\ bk_wlan_stop("SOFT_AP") \in Free
  /\ \A mode : wf_wk_mode_exit(mode) \in Free \cup Stopping
<1>1. <<Step("SetStatusCb")>> \o bk_wlan_start_sta \in Beginning
  BY Append6 DEF bk_wlan_start_sta, Beginning, D, S, E, C
<1>2. bk_wlan_stop("SOFT_AP") = <<S>>
  BY DEF bk_wlan_stop, S
<1>3. bk_wlan_stop("STATION") = <<S, Step("IpDown"), X>>
  BY Append3 DEF bk_wlan_stop, S, X
<1>4. <<S>> \o <<S, Step("IpDown"), X>> = <<S, S, Step("IpDown"), X>>
  BY Append4
<1>5. \A mode : wf_wk_mode_exit(mode) \in
        {<<>>, <<S>>, <<S, Step("IpDown"), X>>, <<S, S, Step("IpDown"), X>>}
  BY <1>2, <1>3, <1>4 DEF wf_wk_mode_exit
<1> QED
  BY <1>1, <1>2, <1>5 DEF Free, Stopping

\* What tells the regions apart.
LEMMA SignatureLemma ==
  ASSUME NEW s
  PROVE  /\ s \in Free => s = <<>> \/ (Len(s) = 1 /\ s[1].op = "Status" /\ s[1].arg = "IDLE")
         /\ s \in Stopping => Len(s) \in {1, 2, 3, 4} /\ s[Len(s)].arg = "DISABLE"
         /\ s \in Beginning => Len(s) = 6 /\ s[1].op = "SetStatusCb" /\ s[6].arg = "CONNECT"
         /\ s \in Begun => \/ Len(s) = 6 /\ s[1].op = "ReportNow"
                           \/ Len(s) = 5 /\ s[1].op = "IpDown"
         /\ s \in Lowered => \/ Len(s) = 7
                             \/ Len(s) = 6 /\ s[1].op = "CbNull"
                             \/ Len(s) = 5 /\ s[1].op = "DhcpStop"
                             \/ Len(s) = 4 /\ s[1].op = "Cmd" /\ s[4].arg = "CONNECT"
         /\ s \in WaitD => Len(s) = 4 /\ s[1].op = "Wait" /\ s[4].arg = "CONNECT"
         /\ s \in Left => \/ Len(s) = 3 /\ s[3].arg = "CONNECT"
                          \/ Len(s) = 2 /\ s[1].op = "Cmd" /\ s[2].arg = "CONNECT"
         /\ s \in WaitE => Len(s) = 2 /\ s[1].op = "Wait" /\ s[2].arg = "CONNECT"
         /\ s \in Finishing => Len(s) = 1 /\ s[1].op = "Cmd" /\ s[1].arg = "CONNECT"
         /\ s \in WaitC => Len(s) = 1 /\ s[1].op = "Wait" /\ s[1].arg = "none"
<1> USE DEF D, E, C, X, S, Cmd, Status, StepOf, Step
<1>1. s \in Free => s = <<>> \/ (Len(s) = 1 /\ s[1].op = "Status" /\ s[1].arg = "IDLE")
  BY DEF Free
<1>2. s \in Stopping => Len(s) \in {1, 2, 3, 4} /\ s[Len(s)].arg = "DISABLE"
  <2>1. /\ s = <<S, S, Step("IpDown"), X>> => Len(s) = 4 /\ s[4].arg = "DISABLE"
        /\ s = <<S, Step("IpDown"), X>> => Len(s) = 3 /\ s[3].arg = "DISABLE"
        /\ s = <<Step("IpDown"), X>> => Len(s) = 2 /\ s[2].arg = "DISABLE"
    OBVIOUS
  <2>2. /\ s = <<Step("NetDown"), Step("CbNull"), Step("DhcpStop"), X>> =>
             Len(s) = 4 /\ s[4].arg = "DISABLE"
        /\ s = <<Step("CbNull"), Step("DhcpStop"), X>> => Len(s) = 3 /\ s[3].arg = "DISABLE"
        /\ s = <<Step("DhcpStop"), X>> => Len(s) = 2 /\ s[2].arg = "DISABLE"
        /\ s = <<X>> => Len(s) = 1 /\ s[1].arg = "DISABLE"
    OBVIOUS
  <2> QED
    BY <2>1, <2>2 DEF Stopping
<1>3. s \in Beginning => Len(s) = 6 /\ s[1].op = "SetStatusCb" /\ s[6].arg = "CONNECT"
  BY DEF Beginning
<1>4. s \in Begun => \/ Len(s) = 6 /\ s[1].op = "ReportNow"
                     \/ Len(s) = 5 /\ s[1].op = "IpDown"
  BY DEF Begun
<1>5. s \in Lowered => \/ Len(s) = 7
                       \/ Len(s) = 6 /\ s[1].op = "CbNull"
                       \/ Len(s) = 5 /\ s[1].op = "DhcpStop"
                       \/ Len(s) = 4 /\ s[1].op = "Cmd" /\ s[4].arg = "CONNECT"
  BY DEF Lowered
<1>6. s \in WaitD => Len(s) = 4 /\ s[1].op = "Wait" /\ s[4].arg = "CONNECT"
  BY DEF WaitD
<1>7. s \in Left => \/ Len(s) = 3 /\ s[3].arg = "CONNECT"
                    \/ Len(s) = 2 /\ s[1].op = "Cmd" /\ s[2].arg = "CONNECT"
  BY DEF Left
<1>8. s \in WaitE => Len(s) = 2 /\ s[1].op = "Wait" /\ s[2].arg = "CONNECT"
  BY DEF WaitE
<1>9. s \in Finishing => Len(s) = 1 /\ s[1].op = "Cmd" /\ s[1].arg = "CONNECT"
  BY DEF Finishing
<1>10. s \in WaitC => Len(s) = 1 /\ s[1].op = "Wait" /\ s[1].arg = "none"
  BY DEF WaitC
<1> QED
  BY <1>1, <1>2, <1>3, <1>4, <1>5, <1>6, <1>7, <1>8, <1>9, <1>10

\* A point is in one region.
LEMMA StageLemma ==
  ASSUME NEW s
  PROVE  /\ s \in Free => Stage(s) = "free"
         /\ s \in Stopping => Stage(s) = "stopping"
         /\ s \in Beginning => Stage(s) = "beginning"
         /\ s \in Begun => Stage(s) = "begun"
         /\ s \in Lowered => Stage(s) = "lowered"
         /\ s \in WaitD => Stage(s) = "waitD"
         /\ s \in Left => Stage(s) = "left"
         /\ s \in WaitE => Stage(s) = "waitE"
         /\ s \in Finishing => Stage(s) = "last"
         /\ s \in WaitC => Stage(s) = "waitC"
<1>0. Len(<<>>) = 0
  BY SMT
<1>2. s \in Stopping => s \notin Free
  BY <1>0, SignatureLemma
<1>3. s \in Beginning => s \notin Free \cup Stopping
  BY <1>0, SignatureLemma
<1>4. s \in Begun => s \notin Free \cup Stopping \cup Beginning
  <2>1. s \in Begun => Len(s) \in {5, 6} /\ s[1].op # "SetStatusCb"
    BY SignatureLemma
  <2>2. s \in Free \cup Stopping => s = <<>> \/ Len(s) \in {1, 2, 3, 4}
    BY SignatureLemma
  <2> QED
    BY SMTT(30), <1>0, <2>1, <2>2, SignatureLemma
<1>5. s \in Lowered => s \notin Free \cup Stopping \cup Beginning \cup Begun
  <2> SUFFICES ASSUME s \in Lowered
               PROVE  s \notin Free \cup Stopping \cup Beginning \cup Begun
    OBVIOUS
  <2>1. CASE Len(s) = 4 /\ s[4].arg = "CONNECT"
    BY <1>0, <2>1, SignatureLemma
  <2>2. CASE Len(s) = 7
    BY SMTT(30), <1>0, <2>2, SignatureLemma
  <2>3. CASE Len(s) = 6 /\ s[1].op = "CbNull"
    BY <1>0, <2>3, SignatureLemma
  <2>4. CASE Len(s) = 5 /\ s[1].op = "DhcpStop"
    <3>1. s \notin Begun
      <4>1. "DhcpStop" # "IpDown"
        OBVIOUS
      <4> QED
        BY <2>4, <4>1, SignatureLemma
    <3>2. s \notin Stopping
      <4>1. s \in Stopping => Len(s) \in {1, 2, 3, 4}
        BY SignatureLemma
      <4> QED
        BY <2>4, <4>1
    <3>3. s \notin Beginning
      BY <2>4, SignatureLemma
    <3>4. s \notin Free
      BY <1>0, <2>4, SignatureLemma
    <3> QED
      BY <3>1, <3>2, <3>3, <3>4
  <2> QED
    BY <2>1, <2>2, <2>3, <2>4, SignatureLemma
<1>6. s \in WaitD => s \notin Free \cup Stopping \cup Beginning \cup Begun \cup Lowered
  BY <1>0, SignatureLemma
<1>7. s \in Left => s \notin Free \cup Stopping \cup Beginning \cup Begun \cup Lowered \cup WaitD
  BY <1>0, SignatureLemma
<1>8. s \in WaitE => s \notin Free \cup Stopping \cup Beginning \cup Begun \cup Lowered \cup WaitD
                             \cup Left
  BY SMTT(30), <1>0, SignatureLemma
<1>9. s \in Finishing => s \notin Free \cup Stopping \cup Beginning \cup Begun \cup Lowered
                                 \cup WaitD \cup Left \cup WaitE
  BY <1>0, SignatureLemma
<1>10. s \in WaitC => s \notin Free \cup Stopping \cup Beginning \cup Begun \cup Lowered
                              \cup WaitD \cup Left \cup WaitE \cup Finishing
  BY <1>0, SignatureLemma
<1> QED
  BY <1>2, <1>3, <1>4, <1>5, <1>6, <1>7, <1>8, <1>9, <1>10 DEF Stage
-----------------------------------------------------------------------------
(* The steps of the threads.                                               *)

\* Then changes the program of one thread.
LEMMA ThenLemma ==
  ASSUME Types, NEW p \in Threads, NEW r, Then(p, r)
  PROVE  /\ todo'[p] = r \o Tail(todo[p])
         /\ \A q \in Threads : q # p => todo'[q] = todo[q]
         /\ todo' = [q \in Threads |-> todo'[q]]
  BY DEF Then, Types

\* The first step of a thread says which action it is.
LEMMA Dispatch ==
  ASSUME NEW p, ThreadStep(p)
  PROVE  /\ todo[p] # <<>>
         /\ \/ Head(todo[p]).op = "Status" /\ SetStatus(p) /\ UNCHANGED netVars
            \/ Head(todo[p]).op = "Report" /\ Report(p) /\ UNCHANGED netVars
            \/ Head(todo[p]).op = "ReconnectOver" /\ ReconnectOver(p) /\ UNCHANGED netVars
            \/ Head(todo[p]).op = "ReportNow" /\ ReportNow(p) /\ UNCHANGED netVars
            \/ Head(todo[p]).op = "SetStatusCb" /\ SetStatusCb(p) /\ UNCHANGED netVars
            \/ Head(todo[p]).op = "AssocInd" /\ AssocInd(p) /\ UNCHANGED netVars
            \/ Head(todo[p]).op = "IpDown" /\ sta_ip_down(p)
            \/ Head(todo[p]).op = "IpStart" /\ sta_ip_start(p)
            \/ /\ Head(todo[p]).op \in {"CbNull", "CbSet", "NetDown", "NetUp", "DhcpStart",
                                        "DhcpStop", "AddNetif", "RemoveNetif"}
               /\ Interface(p)
         /\ UNCHANGED <<wf_mode, wpasVars, airVars>>
<1>1. CASE StatusStep(p) /\ UNCHANGED netVars
  BY <1>1 DEF ThreadStep, StatusStep, At, SetStatus, Report, ReconnectOver, ReportNow,
     SetStatusCb, AssocInd
<1>2. CASE NetStep(p)
  BY <1>2 DEF ThreadStep, NetStep, At, sta_ip_down, sta_ip_start, Interface, SetCallback, NetifApi
<1> QED
  BY <1>1, <1>2 DEF ThreadStep

\* The fields of an interface.
LEMMA NetifLemma ==
  ASSUME NEW n \in Netifs
  PROVE  /\ /\ [n EXCEPT !.up = TRUE] \in Netifs
            /\ [n EXCEPT !.up = TRUE].up = TRUE
            /\ [n EXCEPT !.up = TRUE].cb = n.cb /\ [n EXCEPT !.up = TRUE].dhcp = n.dhcp
         /\ /\ [n EXCEPT !.up = FALSE] \in Netifs
            /\ [n EXCEPT !.up = FALSE].up = FALSE
            /\ [n EXCEPT !.up = FALSE].cb = n.cb /\ [n EXCEPT !.up = FALSE].dhcp = n.dhcp
         /\ /\ [n EXCEPT !.cb = TRUE] \in Netifs
            /\ [n EXCEPT !.cb = TRUE].cb = TRUE
            /\ [n EXCEPT !.cb = TRUE].up = n.up /\ [n EXCEPT !.cb = TRUE].dhcp = n.dhcp
         /\ /\ [n EXCEPT !.cb = FALSE] \in Netifs
            /\ [n EXCEPT !.cb = FALSE].cb = FALSE
            /\ [n EXCEPT !.cb = FALSE].up = n.up /\ [n EXCEPT !.cb = FALSE].dhcp = n.dhcp
         /\ /\ [n EXCEPT !.dhcp = "off"] \in Netifs
            /\ [n EXCEPT !.dhcp = "off"].dhcp = "off"
            /\ [n EXCEPT !.dhcp = "off"].up = n.up /\ [n EXCEPT !.dhcp = "off"].cb = n.cb
         /\ /\ [n EXCEPT !.dhcp = "selecting"] \in Netifs
            /\ [n EXCEPT !.dhcp = "selecting"].dhcp = "selecting"
            /\ [n EXCEPT !.dhcp = "selecting"].up = n.up /\ [n EXCEPT !.dhcp = "selecting"].cb = n.cb
         /\ [up |-> FALSE, cb |-> FALSE, dhcp |-> "off"] \in Netifs
<1>1. /\ [n EXCEPT !.up = TRUE] \in Netifs
     /\ [n EXCEPT !.up = TRUE].up = TRUE
     /\ [n EXCEPT !.up = TRUE].cb = n.cb /\ [n EXCEPT !.up = TRUE].dhcp = n.dhcp
  <2>1. [n EXCEPT !.up = TRUE] \in Netifs
    BY Zenon DEF Netifs
  <2> QED
    BY <2>1 DEF Netifs
<1>2. /\ [n EXCEPT !.up = FALSE] \in Netifs
     /\ [n EXCEPT !.up = FALSE].up = FALSE
     /\ [n EXCEPT !.up = FALSE].cb = n.cb /\ [n EXCEPT !.up = FALSE].dhcp = n.dhcp
  <2>1. [n EXCEPT !.up = FALSE] \in Netifs
    BY Zenon DEF Netifs
  <2> QED
    BY <2>1 DEF Netifs
<1>3. /\ [n EXCEPT !.cb = TRUE] \in Netifs
     /\ [n EXCEPT !.cb = TRUE].cb = TRUE
     /\ [n EXCEPT !.cb = TRUE].up = n.up /\ [n EXCEPT !.cb = TRUE].dhcp = n.dhcp
  <2>1. [n EXCEPT !.cb = TRUE] \in Netifs
    BY Zenon DEF Netifs
  <2> QED
    BY <2>1 DEF Netifs
<1>4. /\ [n EXCEPT !.cb = FALSE] \in Netifs
     /\ [n EXCEPT !.cb = FALSE].cb = FALSE
     /\ [n EXCEPT !.cb = FALSE].up = n.up /\ [n EXCEPT !.cb = FALSE].dhcp = n.dhcp
  <2>1. [n EXCEPT !.cb = FALSE] \in Netifs
    BY Zenon DEF Netifs
  <2> QED
    BY <2>1 DEF Netifs
<1>5. /\ [n EXCEPT !.dhcp = "off"] \in Netifs
     /\ [n EXCEPT !.dhcp = "off"].dhcp = "off"
     /\ [n EXCEPT !.dhcp = "off"].up = n.up /\ [n EXCEPT !.dhcp = "off"].cb = n.cb
  <2>1. [n EXCEPT !.dhcp = "off"] \in Netifs
    BY Zenon DEF Netifs
  <2> QED
    BY <2>1 DEF Netifs
<1>6. /\ [n EXCEPT !.dhcp = "selecting"] \in Netifs
     /\ [n EXCEPT !.dhcp = "selecting"].dhcp = "selecting"
     /\ [n EXCEPT !.dhcp = "selecting"].up = n.up /\ [n EXCEPT !.dhcp = "selecting"].cb = n.cb
  <2>1. [n EXCEPT !.dhcp = "selecting"] \in Netifs
    BY Zenon DEF Netifs
  <2> QED
    BY <2>1 DEF Netifs
<1>7. [up |-> FALSE, cb |-> FALSE, dhcp |-> "off"] \in Netifs
  BY Zenon DEF Netifs
<1> QED
  BY <1>1, <1>2, <1>3, <1>4, <1>5, <1>6, <1>7

\* A call of netifapi may make tcpip report an address.
LEMMA InterfaceLemma ==
  ASSUME Types, NEW p \in Threads, Interface(p)
  PROVE  /\ todo'[p] = Tail(todo[p])
         /\ \A q \in Threads : q # p /\ q # "tcpip" => todo'[q] = todo[q]
         /\ p # "tcpip" => \/ todo'["tcpip"] = todo["tcpip"]
                           \/ todo["tcpip"] = <<>> /\ todo'["tcpip"] \in {<<>>, TellPlan}
         /\ todo' = [q \in Threads |-> todo'[q]]
         /\ netif' \in Netifs
         /\ UNCHANGED <<sta_ip_start_flag, statusVars>>
         /\ Head(todo[p]).op = "CbSet" => netif' = [netif EXCEPT !.cb = TRUE]
         /\ Head(todo[p]).op = "NetUp" => netif' = [netif EXCEPT !.up = TRUE]
         /\ Head(todo[p]).op = "DhcpStart" => netif' = [netif EXCEPT !.dhcp = "selecting"]
         /\ netif'.dhcp = "bound" => netif.dhcp = "bound"
<1>1. CASE SetCallback(p) /\ Then(p, <<>>)
  <2>1. todo[p] \in Seq(Steps) /\ todo[p] # <<>>
    BY <1>1 DEF Types, SetCallback, At
  <2>2. todo'[p] = Tail(todo[p])
    BY <1>1, <2>1, ThenLemma, SequenceLemma
  <2>3. /\ netif' \in Netifs
        /\ Head(todo[p]).op = "CbSet" => netif' = [netif EXCEPT !.cb = TRUE]
        /\ Head(todo[p]).op \in {"CbSet", "CbNull"}
        /\ netif'.dhcp = netif.dhcp
    <3>1. netif \in Netifs
      BY DEF Types
    <3>2. CASE At(p, "CbNull") /\ netif' = [netif EXCEPT !.cb = FALSE]
      BY <3>1, <3>2, NetifLemma DEF At
    <3>3. CASE At(p, "CbSet") /\ netif' = [netif EXCEPT !.cb = TRUE]
      BY <3>1, <3>3, NetifLemma DEF At
    <3> QED
      BY <1>1, <3>2, <3>3 DEF SetCallback
  <2>4. /\ \A q \in Threads : q # p => todo'[q] = todo[q]
        /\ todo' = [q \in Threads |-> todo'[q]]
    BY <1>1, ThenLemma
  <2> QED
    BY <2>2, <2>3, <2>4 DEF Interface, Threads
<1>2. CASE /\ todo["tcpip"] = <<>> /\ NetifApi(p)
           /\ todo' = [todo EXCEPT ![p] = Tail(@),
                                   !["tcpip"] = IF netif'.up /\ ~netif.up
                                                THEN wm_netif_status_callback(netif') ELSE <<>>]
  <2>1. p # "tcpip" /\ "tcpip" \in Threads
    BY <1>2 DEF NetifApi, At, Threads
  <2>2. /\ netif' \in Netifs
        /\ Head(todo[p]).op = "CbSet" => netif' = [netif EXCEPT !.cb = TRUE]
        /\ Head(todo[p]).op = "NetUp" => netif' = [netif EXCEPT !.up = TRUE]
        /\ Head(todo[p]).op = "DhcpStart" => netif' = [netif EXCEPT !.dhcp = "selecting"]
        /\ netif'.dhcp = "bound" => netif.dhcp = "bound"
    <3>1. netif \in Netifs
      BY DEF Types
    <3>2. CASE At(p, "NetDown") /\ netif' = [netif EXCEPT !.up = FALSE]
      BY <3>1, <3>2, NetifLemma DEF At
    <3>3. CASE At(p, "NetUp") /\ netif' = [netif EXCEPT !.up = TRUE]
      BY <3>1, <3>3, NetifLemma DEF At
    <3>4. CASE At(p, "DhcpStart") /\ netif' = [netif EXCEPT !.dhcp = "selecting"]
      BY <3>1, <3>4, NetifLemma DEF At
    <3>5. CASE At(p, "DhcpStop") /\ netif' = [netif EXCEPT !.dhcp = "off"]
      BY <3>1, <3>5, NetifLemma DEF At
    <3>6. CASE At(p, "AddNetif") /\ netif' = [up |-> FALSE, cb |-> FALSE, dhcp |-> "off"]
      BY <3>1, <3>6, NetifLemma DEF At
    <3>7. CASE At(p, "RemoveNetif") /\ netif' = [netif EXCEPT !.up = FALSE]
      BY <3>1, <3>7, NetifLemma DEF At
    <3> QED
      BY <1>2, <3>2, <3>3, <3>4, <3>5, <3>6, <3>7 DEF NetifApi
  <2>3. wm_netif_status_callback(netif') \in {<<>>, TellPlan}
    BY DEF wm_netif_status_callback, TellPlan
  <2>4. /\ todo'[p] = Tail(todo[p])
        /\ \A q \in Threads : q # p /\ q # "tcpip" => todo'[q] = todo[q]
        /\ todo'["tcpip"] \in {<<>>, TellPlan}
        /\ todo' = [q \in Threads |-> todo'[q]]
    BY <1>2, <2>1, <2>3 DEF Types
  <2> QED
    BY <1>2, <2>1, <2>2, <2>4 DEF Interface
<1> QED
  BY <1>1, <1>2 DEF Interface

\* Steps are records.
LEMMA StepsLemma ==
  /\ \A o \in Ops \ {"Status", "Report"} : Step(o) \in Steps /\ Step(o).op = o
  /\ \A v \in Statuses : Status(v) \in Steps /\ Status(v).op = "Status" /\ Status(v).arg = v
  /\ \A v \in Statuses : /\ StepOf("Report", v) \in Steps
                          /\ StepOf("Report", v).op = "Report" /\ StepOf("Report", v).arg = v
  /\ \A m \in Messages : /\ StepOf("Post", m) \in Steps
                          /\ StepOf("Post", m).op = "Post" /\ StepOf("Post", m).arg = m
                          /\ Cmd(m) \in Steps /\ Cmd(m).op = "Cmd" /\ Cmd(m).arg = m
  BY DEF Cmd, Step, StepOf, Status, Steps, Ops, Following

\* Steps that others lead to.
LEMMA DerivedLemma ==
  /\ <<>> \in Seq(Derived)
  /\ \A v \in Statuses : <<StepOf("Report", v)>> \in Seq(Derived)
  /\ <<Step("ReportNow")>> \in Seq(Derived)
  /\ \A v \in Statuses : <<Status(v)>> \in Seq(Derived)
  /\ Lowering \in Seq(Derived)
  /\ net_configure_address \in Seq(Derived)
<1>1. \A v \in Statuses : StepOf("Report", v) \in Derived /\ Status(v) \in Derived
  BY StepsLemma DEF Derived, Ops, Following
<1>2. /\ Step("ReportNow") \in Derived
      /\ Step("NetDown") \in Derived /\ Step("CbNull") \in Derived /\ Step("CbSet") \in Derived
      /\ Step("NetUp") \in Derived /\ Step("DhcpStart") \in Derived /\ Step("DhcpStop") \in Derived
  BY StepsLemma DEF Derived, Ops, Following
<1>3. \A d \in Derived : <<d>> \in Seq(Derived)
  OBVIOUS
<1>4. Lowering \in Seq(Derived)
  BY <1>2 DEF Lowering
<1>5. net_configure_address \in Seq(Derived)
  BY <1>2 DEF net_configure_address
<1>6. <<>> \in Seq(Derived)
  OBVIOUS
<1> QED
  BY <1>1, <1>2, <1>3, <1>4, <1>5, <1>6

\* A step of a thread takes the first step of its program and puts others in
\* its place; beyond that it can only make tcpip report an address.
LEMMA ThreadStepLemma ==
  ASSUME Types, NEW p \in Threads, ThreadStep(p)
  PROVE  /\ todo[p] # <<>>
         /\ \E r \in Seq(Derived) : todo'[p] = r \o Tail(todo[p])
         /\ \A q \in Threads : q # p /\ q # "tcpip" => todo'[q] = todo[q]
         /\ p # "tcpip" => \/ todo'["tcpip"] = todo["tcpip"]
                           \/ todo["tcpip"] = <<>> /\ todo'["tcpip"] \in {<<>>, TellPlan}
         /\ Types'
         /\ netif'.dhcp = "bound" => netif.dhcp = "bound"
         /\ UNCHANGED <<wf_mode, wpasVars, airVars>>
<1> DEFINE h == Head(todo[p])
           Goal == /\ \E r \in Seq(Derived) : todo'[p] = r \o Tail(todo[p])
                   /\ \A q \in Threads : q # p /\ q # "tcpip" => todo'[q] = todo[q]
                   /\ p # "tcpip" => \/ todo'["tcpip"] = todo["tcpip"]
                                     \/ todo["tcpip"] = <<>> /\ todo'["tcpip"] \in {<<>>, TellPlan}
                   /\ todo' = [q \in Threads |-> todo'[q]]
           Typed == /\ g_connect_transient_status' \in Statuses /\ g_connect_abnormal_status' \in Statuses
                    /\ station_status_cb' \in BOOLEAN /\ connect_status' \in Statuses
                    /\ sta_ip_start_flag' \in BOOLEAN
                    /\ netif' \in Netifs
                    /\ netif'.dhcp = "bound" => netif.dhcp = "bound"
<1>1. todo[p] # <<>> /\ UNCHANGED <<wf_mode, wpasVars, airVars>>
  BY Dispatch
<1>2. todo[p] \in Seq(Steps) /\ h \in Steps /\ h.arg \in Statuses \cup Messages \cup {"none"} /\ Tail(todo[p]) \in Seq(Steps)
  <2>1. todo[p] \in Seq(Steps)
    BY DEF Types
  <2> QED
    <3>1. h \in Steps /\ Tail(todo[p]) \in Seq(Steps)
      BY <2>1, <1>1, SequenceLemma
    <3> QED
      BY <2>1, <3>1 DEF Steps
<1>0. h.op \in {"Status", "Report"} => h.arg \in Statuses
  BY <1>2 DEF Steps
<1>3. \A r \in Seq(Derived) : Then(p, r) => Goal
  <2> TAKE r \in Seq(Derived)
  <2> HAVE Then(p, r)
  <2> QED
    BY ThenLemma DEF Threads
<1>4. ASSUME SetStatus(p), UNCHANGED netVars
      PROVE  Goal /\ Typed
  <2>1. \E r \in Seq(Derived) : Then(p, r)
    BY <1>4, <1>0, DerivedLemma DEF SetStatus, Arg, At
  <2>2. Typed
    BY <1>4, <1>0 DEF SetStatus, Arg, At, AbnormalAfter, Types, netVars
  <2> QED
    BY <2>1, <2>2, <1>3
<1>5. ASSUME Report(p), UNCHANGED netVars
      PROVE  Goal /\ Typed
  <2>1. \E r \in Seq(Derived) : Then(p, r)
    BY <1>5, DerivedLemma DEF Report
  <2>2. Typed
    BY <1>5, <1>0 DEF Report, wifi_station_status_cb, Arg, At, Types, netVars
  <2> QED
    BY <2>1, <2>2, <1>3
<1>6. ASSUME ReconnectOver(p), UNCHANGED netVars
      PROVE  Goal /\ Typed
  <2>1. \E r \in Seq(Derived) : Then(p, r)
    BY <1>6, DerivedLemma DEF ReconnectOver
  <2>2. Typed
    BY <1>6, <1>2 DEF ReconnectOver, Types, netVars
  <2> QED
    BY <2>1, <2>2, <1>3
<1>7. ASSUME ReportNow(p), UNCHANGED netVars
      PROVE  Goal /\ Typed
  <2>1. \E r \in Seq(Derived) : Then(p, r)
    BY <1>7, DerivedLemma DEF ReportNow
  <2>2. Typed
    BY <1>7, <1>2 DEF ReportNow, wifi_station_status_cb, Types, netVars
  <2> QED
    BY <2>1, <2>2, <1>3
<1>8. ASSUME SetStatusCb(p), UNCHANGED netVars
      PROVE  Goal /\ Typed
  <2>1. \E r \in Seq(Derived) : Then(p, r)
    BY <1>8, DerivedLemma DEF SetStatusCb
  <2>2. Typed
    BY <1>8, <1>2 DEF SetStatusCb, Types, netVars
  <2> QED
    BY <2>1, <2>2, <1>3
<1>9. ASSUME AssocInd(p), UNCHANGED netVars
      PROVE  Goal /\ Typed
  <2>1. \E r \in Seq(Derived) : Then(p, r)
    BY <1>9, DerivedLemma DEF AssocInd, Statuses
  <2>2. Typed
    BY <1>9, <1>2 DEF AssocInd, statusVars, Types, netVars
  <2> QED
    BY <2>1, <2>2, <1>3
<1>10. ASSUME sta_ip_down(p)
       PROVE  Goal /\ Typed
  <2>1. \E r \in Seq(Derived) : Then(p, r)
    BY <1>10, DerivedLemma DEF sta_ip_down, Lowering
  <2>2. Typed
    BY <1>10, <1>2 DEF sta_ip_down, statusVars, Types
  <2> QED
    BY <2>1, <2>2, <1>3
<1>11. ASSUME sta_ip_start(p)
       PROVE  Goal /\ Typed
  <2>1. \E r \in Seq(Derived) : Then(p, r)
    BY <1>11, DerivedLemma DEF sta_ip_start, Statuses
  <2>2. Typed
    BY <1>11, <1>2 DEF sta_ip_start, statusVars, Types
  <2> QED
    BY <2>1, <2>2, <1>3
<1>12. ASSUME Interface(p)
       PROVE  Goal /\ Typed
  <2>1. <<>> \o Tail(todo[p]) = Tail(todo[p])
    BY <1>1, <1>2, SequenceLemma
  <2>2. Goal
    BY <1>12, <2>1, InterfaceLemma, DerivedLemma
  <2>3. Typed
    BY <1>12, InterfaceLemma DEF statusVars, Types
  <2> QED
    BY <2>2, <2>3
<1>13. Goal /\ Typed
  BY <1>4, <1>5, <1>6, <1>7, <1>8, <1>9, <1>10, <1>11, <1>12, Dispatch
<1>14. \A r \in Seq(Derived) : r \o Tail(todo[p]) \in Seq(Steps)
  <2>1. \A r \in Seq(Derived) : r \in Seq(Steps)
    BY DEF Derived
  <2> QED
    BY <2>1, <1>1, <1>2, SequenceLemma
<1>15. todo'[p] \in Seq(Steps)
  BY <1>13, <1>14
<1>16. TellPlan \in Seq(Steps) /\ <<>> \in Seq(Steps)
  BY StepsLemma DEF TellPlan, Statuses
<1>17. todo' \in [Threads -> Seq(Steps)]
  <2>1. \A q \in Threads : todo'[q] \in Seq(Steps)
    BY <1>13, <1>15, <1>16 DEF Types, Threads
  <2> QED
    BY <2>1, <1>13
<1>18. Types'
  BY <1>13, <1>17, <1>1 DEF Types, wpasVars, airVars
<1> QED
  BY <1>1, <1>13, <1>18

\* Such a step takes away what it was, and adds what follows from it.
LEMMA HeldLemma ==
  ASSUME Types, NEW p \in Threads, ThreadStep(p), NEW o \in Ops \ Following
  PROVE  /\ Has(todo'[p], o) => Has(todo[p], o)
         /\ Has(todo[p], o) /\ Head(todo[p]).op # o => Has(todo'[p], o)
         /\ Ends(todo[p], o) => Ends(todo'[p], o)
<1>1. todo[p] \in Seq(Steps) /\ todo[p] # <<>>
  BY ThreadStepLemma DEF Types
<1>2. PICK r \in Seq(Derived) : todo'[p] = r \o Tail(todo[p])
  BY ThreadStepLemma
<1>3. r \in Seq(Steps) /\ ~Has(r, o)
  BY DEF Derived, Has
<1>4. /\ Has(todo[p], o) <=> Head(todo[p]).op = o \/ Has(Tail(todo[p]), o)
      /\ Has(r \o Tail(todo[p]), o) <=> Has(r, o) \/ Has(Tail(todo[p]), o)
  BY <1>1, <1>3, HasLemma
<1>5. Ends(todo[p], o) => Ends(r \o Tail(todo[p]), o)
  BY <1>1, <1>3, EndsLemma
<1> QED
  BY <1>2, <1>3, <1>4, <1>5
-----------------------------------------------------------------------------
(* The queue to the supplicant.                                            *)

\* Do, and the answers to commands, give a thread that has nothing to do a
\* program.
LEMMA DoLemma ==
  ASSUME Types, NEW p \in Threads, NEW r \in Seq(Steps), todo' = [todo EXCEPT ![p] = r]
  PROVE  /\ todo'[p] = r
         /\ \A q \in Threads : q # p => todo'[q] = todo[q]
         /\ todo' \in [Threads -> Seq(Steps)]
  BY DEF Types

\* Nothing else depends on the queue than the messages in it.
LEMMA MailLemma ==
  ASSUME mail' = mail
  PROVE  /\ Sent' = Sent /\ OneSent' = OneSent /\ OneIndication' = OneIndication
         /\ Indicated' = Indicated /\ Rejected' = Rejected
  BY DEF Sent, OneSent, OneIndication, Indicated, Rejected, One, Queued

\* One command is all that is sent.
LEMMA SentLemma ==
  /\ Sent = {} <=> ~Queued(Commanded)
  /\ \A c \in Commanded : Queued({c}) /\ OneSent => Sent = {c}
<1>1. Sent = {} <=> ~Queued(Commanded)
  BY DEF Sent, Queued
<1>2. ASSUME NEW c \in Commanded, Queued({c}), OneSent
      PROVE  Sent = {c}
  BY <1>2 DEF Sent, Queued, OneSent, One
<1> QED
  BY <1>1, <1>2

\* wpa_ctrl_request and wpa_ctrl_event_copy append to wpah_queue.
LEMMA AppendLemma ==
  ASSUME Types, NEW m \in Messages, mail' = Append(mail, m)
  PROVE  /\ mail' \in Seq(Messages)
         /\ \A M : Queued(M)' <=> Queued(M) \/ m \in M
         /\ \A M : One(M) /\ (m \in M => ~Queued(M)) => One(M)'
<1>1. /\ mail \in Seq(Messages) /\ mail' \in Seq(Messages) /\ Len(mail') = Len(mail) + 1
      /\ Len(mail) \in Nat /\ mail'[Len(mail) + 1] = m
      /\ \A i \in 1..Len(mail) : mail'[i] = mail[i]
  BY DEF Types
<1>2. ASSUME NEW M
      PROVE  Queued(M)' <=> Queued(M) \/ m \in M
  BY <1>1 DEF Queued
<1>3. ASSUME NEW M, One(M), m \in M => ~Queued(M)
      PROVE  One(M)'
  <2> SUFFICES ASSUME NEW i \in 1..Len(mail'), NEW j \in 1..Len(mail'), mail'[i] \in M, mail'[j] \in M
               PROVE  i = j
    BY DEF One
  <2>1. CASE i \in 1..Len(mail) /\ j \in 1..Len(mail)
    BY <1>1, <1>3, <2>1 DEF One
  <2>2. CASE m \in M
    <3>1. \A k \in 1..Len(mail) : mail[k] \notin M
      BY <1>3, <2>2 DEF Queued
    <3> QED
      BY <1>1, <3>1
  <2>3. CASE m \notin M
    <3>1. i # Len(mail) + 1 /\ j # Len(mail) + 1
      BY <1>1, <2>3
    <3>2. i \in 1..Len(mail) /\ j \in 1..Len(mail)
      BY <1>1, <3>1
    <3> QED
      BY <2>1, <3>2
  <2> QED
    BY <2>2, <2>3
<1> QED
  BY <1>1, <1>2, <1>3

\* The supplicant takes the first message.
LEMMA TakeLemma ==
  ASSUME Types, NEW m, Take(m)
  PROVE  /\ mail' \in Seq(Messages) /\ m \in Messages
         /\ \A M : Queued(M)' => Queued(M)
         /\ \A M : m \notin M => (Queued(M)' <=> Queued(M))
         /\ \A M : m \in M => Queued(M)
         /\ \A M : One(M) => One(M)'
         /\ \A M : One(M) /\ m \in M => ~Queued(M)'
<1>1. /\ mail \in Seq(Messages) /\ mail # <<>> /\ Head(mail) = m /\ mail' = Tail(mail)
  BY DEF Types, Take
<1>2. /\ mail' \in Seq(Messages) /\ Len(mail) \in Nat \ {0} /\ Len(mail') = Len(mail) - 1
      /\ mail[1] = m /\ m \in Messages /\ 1 \in 1..Len(mail)
      /\ \A i \in 1..Len(mail') : i + 1 \in 1..Len(mail) /\ mail'[i] = mail[i + 1] /\ i + 1 # 1
      /\ Len(mail') \in Nat
  BY <1>1
<1>3. ASSUME NEW M, m \notin M, Queued(M)
      PROVE  Queued(M)'
  <2>1. PICK i \in 1..Len(mail) : mail[i] \in M
    BY <1>3 DEF Queued
  <2>2. i # 1
    BY <1>2, <1>3, <2>1
  <2>3. i - 1 \in 1..Len(mail') /\ (i - 1) + 1 = i
    BY <1>2, <2>2
  <2>4. mail'[i - 1] \in M
    BY <1>2, <2>1, <2>3
  <2> QED
    BY <2>3, <2>4 DEF Queued
<1>4. ASSUME NEW M, Queued(M)'
      PROVE  Queued(M)
  BY <1>2, <1>4 DEF Queued
<1>5. ASSUME NEW M, m \in M
      PROVE  Queued(M)
  BY <1>2, <1>5 DEF Queued
<1>6. ASSUME NEW M, One(M)
      PROVE  One(M)'
  <2> SUFFICES ASSUME NEW i \in 1..Len(mail'), NEW j \in 1..Len(mail'), mail'[i] \in M, mail'[j] \in M
               PROVE  i = j
    BY DEF One
  <2>1. i + 1 = j + 1
    BY <1>2, <1>6 DEF One
  <2> QED
    BY <1>2, <2>1
<1>7. ASSUME NEW M, One(M), m \in M
      PROVE  ~Queued(M)'
  <2>1. \A i \in 1..Len(mail) : mail[i] \in M => i = 1
    BY <1>2, <1>7 DEF One
  <2>2. \A i \in 1..Len(mail') : mail'[i] \notin M
    BY <1>2, <2>1
  <2> QED
    BY <2>2 DEF Queued
<1> QED
  BY <1>2, <1>3, <1>4, <1>5, <1>6, <1>7
-----------------------------------------------------------------------------
(* The application's calls and what it asks of the supplicant.             *)

\* What is read off the programs of the supplicant's thread and the receiver.
LEMMA WpasLemma ==
  ASSUME WpasTodo' = WpasTodo
  PROVE  Answers' = Answers /\ Starts' = Starts /\ Lowers' = Lowers /\ Leaves' = Leaves
  BY DEF Answers, Starts, Lowers, Leaves

LEMMA RxLemma ==
  ASSUME RxTodo' = RxTodo
  PROVE  Posts' = Posts /\ SignalDue' = SignalDue
  BY DEF Posts, SignalDue

\* What stands in the invariant for the threads other than the application's.
AppOnly ==
  /\ WpasTodo' = WpasTodo /\ RxTodo' = RxTodo /\ TcpipTodo' = TcpipTodo

\* The points are sequences of steps.
LEMMA PointsLemma == Points \subseteq Seq(Steps)
<1>1. S \in Steps /\ D \in Steps /\ E \in Steps /\ C \in Steps /\ X \in Steps
  BY StepsLemma DEF S, D, E, C, X, Statuses, Messages, Commanded
<1>2. /\ Step("IpDown") \in Steps /\ Step("NetDown") \in Steps /\ Step("CbNull") \in Steps
      /\ Step("DhcpStop") \in Steps /\ Step("SetStatusCb") \in Steps
      /\ Step("ReportNow") \in Steps /\ Step("Wait") \in Steps
  BY StepsLemma DEF Ops, Following
<1>3. Free \subseteq Seq(Steps)
  BY <1>1 DEF Free
<1>4. Stopping \subseteq Seq(Steps)
  BY <1>1, <1>2 DEF Stopping
<1>5. Beginning \subseteq Seq(Steps) /\ Begun \subseteq Seq(Steps)
  BY <1>1, <1>2 DEF Beginning, Begun
<1>6. Lowered \subseteq Seq(Steps)
  BY <1>1, <1>2 DEF Lowered
<1>7. /\ WaitD \subseteq Seq(Steps) /\ Left \subseteq Seq(Steps) /\ WaitE \subseteq Seq(Steps)
      /\ Finishing \subseteq Seq(Steps) /\ WaitC \subseteq Seq(Steps)
  BY <1>1, <1>2 DEF WaitD, Left, WaitE, Finishing, WaitC
<1> QED
  BY <1>3, <1>4, <1>5, <1>6, <1>7 DEF Points

\* What the other threads and the firmware hold does not depend on the
\* application's thread.
LEMMA OthersLemma ==
  ASSUME IInv, AppOnly, UNCHANGED <<wpa, scan, signaled, airVars>>,
         netif'.dhcp = "bound" => netif.dhcp = "bound",
         OneIndication' <=> OneIndication, Indicated' <=> Indicated, Rejected' <=> Rejected
  PROVE  /\ Hears' /\ Engaged' = Engaged
         /\ Answers' = Answers /\ Starts' = Starts /\ Lowers' = Lowers /\ Leaves' = Leaves
<1>1. /\ Answers' = Answers /\ Starts' = Starts /\ Lowers' = Lowers /\ Leaves' = Leaves
      /\ Posts' = Posts /\ SignalDue' = SignalDue /\ Engaged' = Engaged
  BY WpasLemma, RxLemma DEF AppOnly, Engaged
<1>2. Receiving'
  BY DEF IInv, Hears, Receiving, AppOnly, airVars
<1>3. Linked'
  BY <1>1 DEF IInv, Hears, Linked, airVars
<1>4. Indicating'
  BY <1>1 DEF IInv, Hears, Indicating, airVars
<1>5. Signalling'
  BY <1>1 DEF IInv, Hears, Signalling, AppOnly, airVars
<1> QED
  BY <1>1, <1>2, <1>3, <1>4, <1>5 DEF Hears

\* tkl_wifi_station_connect, tkl_wifi_set_work_mode and tkl_wifi_stop_ap begin.
LEMMA CallKeeps ==
  ASSUME IInv, NEW r \in Free \cup Stopping \cup Beginning, Call(r)
  PROVE  IInv'
<1>1. /\ Types /\ OneSent /\ AppTodo = <<>> /\ todo' = [todo EXCEPT !["app"] = r]
      /\ UNCHANGED <<statusVars, netVars, wpasVars, airVars>>
  BY DEF IInv, Wants, Program, Call, Do, Idle, AppTodo
<1>2. r \in Points /\ r \in Seq(Steps)
  BY PointsLemma DEF Points
<1>3. /\ AppTodo' = r /\ AppOnly /\ todo' \in [Threads -> Seq(Steps)]
  BY <1>1, <1>2, DoLemma DEF AppTodo, AppOnly, WpasTodo, RxTodo, TcpipTodo, Threads
<1>4. AppStage = "free" /\ AppStage' \in {"free", "stopping", "beginning"}
  BY <1>1, <1>3, StageLemma DEF AppStage, Free
<1>5. Sent' = Sent /\ OneSent' = OneSent /\ OneIndication' = OneIndication
      /\ Indicated' = Indicated /\ Rejected' = Rejected
  BY <1>1, MailLemma DEF wpasVars
<1>6. Types'
  BY <1>1, <1>3 DEF Types, statusVars, netVars, wpasVars, airVars
<1>7. Sent = {} /\ ~Answers
  BY <1>4 DEF IInv, Wants, Program
<1>8. /\ Hears' /\ Engaged' = Engaged
      /\ Answers' = Answers /\ Starts' = Starts /\ Lowers' = Lowers /\ Leaves' = Leaves
  BY <1>1, <1>3, <1>5, OthersLemma DEF wpasVars, netVars
<1>9. Program'
  BY <1>1, <1>2, <1>3, <1>4, <1>5, <1>7, <1>8 DEF IInv, Wants, Program, AppOnly
<1>10. Registered'
  BY <1>1, <1>4 DEF IInv, Wants, Registered, wpasVars, statusVars
<1>11. Does'
  BY <1>1, <1>3, <1>4, <1>5, <1>7, <1>8
  DEF IInv, Does, Flagged, Joining, AppOnly, wpasVars, netVars
<1>12. ~Doomed
  BY <1>4, <1>7 DEF Doomed
<1>13. Says'
  BY <1>1, <1>3, <1>8, <1>12
  DEF IInv, Says, Configured, Reporting, Told, Reported, AppOnly, wpasVars, airVars,
      netVars, statusVars
<1> QED
  BY <1>6, <1>8, <1>9, <1>10, <1>11, <1>13 DEF IInv, Wants

LEMMA AppKeeps ==
  ASSUME IInv, App
  PROVE  IInv'
  BY CallKeeps, CallTable DEF App, StationConnect, StopAp, SetWorkMode

\* wpa_ctrl_request: the application goes on to wait.
LEMMA RequestKeeps ==
  ASSUME IInv, Request
  PROVE  IInv'
<1>1. /\ Types /\ OneSent /\ AppTodo # <<>> /\ Head(AppTodo).op = "Cmd"
      /\ mail' = Append(mail, Head(AppTodo).arg)
      /\ Then("app", <<Step("Wait")>>)
      /\ UNCHANGED <<statusVars, netVars, wpa, disconnected, scan, signaled, airVars>>
  BY DEF IInv, Wants, Program, Request, At, Arg, AppTodo
<1>2. /\ AppTodo' = <<Step("Wait")>> \o Tail(AppTodo) /\ AppOnly
      /\ todo' = [q \in Threads |-> todo'[q]]
  BY <1>1, ThenLemma DEF AppTodo, AppOnly, WpasTodo, RxTodo, TcpipTodo, Threads
<1>3. \/ AppTodo \in Stopping /\ Head(AppTodo) = X /\ AppTodo' \in WaitC
      \/ AppTodo \in Lowered /\ Head(AppTodo) = D /\ AppTodo' \in WaitD
      \/ AppTodo \in Left /\ Head(AppTodo) = E /\ AppTodo' \in WaitE
      \/ AppTodo \in Finishing /\ Head(AppTodo) = C /\ AppTodo' \in WaitC
  <2>1. AppTodo \in Points
    BY DEF IInv, Wants, Program
  <2>2. S.op = "Status" /\ \A o : Step(o).op = o
    BY DEF S, Status, StepOf, Step
  <2>3. AppTodo \notin Free \cup Beginning \cup Begun \cup WaitD \cup WaitE \cup WaitC
    BY <1>1, <2>2, FreeTable, BeginningTable, BegunTable, WaitTable
  <2>4. AppTodo \in Stopping => Head(AppTodo) = X /\ <<Step("Wait")>> \o Tail(AppTodo) \in WaitC
    BY <1>1, <2>2, StoppingTable
  <2>5. AppTodo \in Lowered => Head(AppTodo) = D /\ <<Step("Wait")>> \o Tail(AppTodo) \in WaitD
    BY <1>1, <2>2, LoweredTable
  <2>6. AppTodo \in Left => Head(AppTodo) = E /\ <<Step("Wait")>> \o Tail(AppTodo) \in WaitE
    BY <1>1, <2>2, LeftTable
  <2>7. AppTodo \in Finishing => Head(AppTodo) = C /\ <<Step("Wait")>> \o Tail(AppTodo) \in WaitC
    BY FinishingTable
  <2> QED
    BY <1>2, <2>1, <2>3, <2>4, <2>5, <2>6, <2>7 DEF Points
<1>4. X.arg = "DISABLE" /\ D.arg = "DISCONNECT" /\ E.arg = "ENABLE" /\ C.arg = "CONNECT"
  BY DEF X, D, E, C, Cmd, StepOf
<1>5. \/ AppStage = "stopping" /\ AppStage' = "waitC" /\ Head(AppTodo).arg = "DISABLE"
      \/ AppStage = "lowered" /\ AppStage' = "waitD" /\ Head(AppTodo).arg = "DISCONNECT"
      \/ AppStage = "left" /\ AppStage' = "waitE" /\ Head(AppTodo).arg = "ENABLE"
      \/ AppStage = "last" /\ AppStage' = "waitC" /\ Head(AppTodo).arg = "CONNECT"
  BY <1>3, <1>4, StageLemma DEF AppStage
<1>6. Sent = {} /\ ~Answers
  BY <1>5 DEF IInv, Wants, Program
<1>7. PICK m : m = Head(AppTodo).arg
  OBVIOUS
<1>8. m \in Commanded /\ m \in Messages /\ mail' = Append(mail, m)
  BY <1>1, <1>5, <1>7 DEF Commanded, Messages
<1>9. /\ mail' \in Seq(Messages)
      /\ \A M : Queued(M)' <=> Queued(M) \/ m \in M
      /\ \A M : One(M) /\ (m \in M => ~Queued(M)) => One(M)'
  BY <1>1, <1>8, AppendLemma
<1>10. /\ OneSent' /\ Sent' = {m}
       /\ (Indicated' <=> Indicated) /\ (Rejected' <=> Rejected) /\ OneIndication'
  <2>1. ~Queued(Commanded) /\ m \notin Indications /\ m \notin {"reject"}
    BY <1>6, <1>8, SentLemma DEF Commanded, Indications
  <2>2. OneSent'
    BY <1>1, <1>9, <2>1 DEF OneSent
  <2>3. Sent' = {m}
    <3>1. \A c : Queued({c})' <=> Queued({c}) \/ m = c
      BY <1>9
    <3>2. \A c \in Commanded : ~Queued({c})
      BY <2>1 DEF Queued
    <3>3. \A c : c \in Sent' <=> c \in Commanded /\ Queued({c})'
      BY DEF Sent, Queued
    <3>4. \A c : c \in Sent' <=> c = m
      BY <1>8, <3>1, <3>2, <3>3
    <3> QED
      BY <3>4, Zenon
  <2>4. (Indicated' <=> Indicated) /\ (Rejected' <=> Rejected)
    BY <1>9, <2>1 DEF Indicated, Rejected
  <2>5. OneIndication'
    BY <1>9, <2>1 DEF OneIndication, IInv, Hears, Indicating
  <2> QED
    BY <2>2, <2>3, <2>4, <2>5
<1>11. AppTodo' \in Points
  BY <1>3 DEF Points
<1>12. Types'
  <2>1. \A q \in Threads : todo'[q] \in Seq(Steps)
    BY <1>1, <1>2, <1>11, PointsLemma
       DEF Types, AppTodo, AppOnly, WpasTodo, RxTodo, TcpipTodo, Threads
  <2>2. todo' \in [Threads -> Seq(Steps)]
    BY <1>2, <2>1
  <2> QED
    BY <1>1, <1>9, <2>2 DEF Types, statusVars, netVars, airVars
<1>13. /\ Hears' /\ Engaged' = Engaged
       /\ Answers' = Answers /\ Starts' = Starts /\ Lowers' = Lowers /\ Leaves' = Leaves
  <2>1. OneIndication' <=> OneIndication
    BY <1>10 DEF IInv, Hears, Indicating
  <2> QED
    BY <1>1, <1>2, <1>10, <2>1, OthersLemma DEF netVars
<1>14. \/ AppStage = "stopping" /\ AppStage' = "waitC" /\ Sent' = {"DISABLE"}
       \/ AppStage = "lowered" /\ AppStage' = "waitD" /\ Sent' = {"DISCONNECT"}
       \/ AppStage = "left" /\ AppStage' = "waitE" /\ Sent' = {"ENABLE"}
       \/ AppStage = "last" /\ AppStage' = "waitC" /\ Sent' = {"CONNECT"}
  BY <1>5, <1>7, <1>10
<1>15. Program'
  BY <1>2, <1>6, <1>10, <1>11, <1>13, <1>14 DEF IInv, Wants, Program, AppOnly
<1>16. Registered'
  BY <1>1, <1>14 DEF IInv, Wants, Registered, statusVars
<1>17. Does'
  BY <1>1, <1>2, <1>6, <1>13, <1>14 DEF IInv, Does, Flagged, Joining, AppOnly, netVars
<1>18. Doomed' = Doomed
  BY <1>6, <1>14 DEF Doomed
<1>19. Says'
  BY <1>1, <1>2, <1>13, <1>18
  DEF IInv, Says, Configured, Reporting, Told, Reported, AppOnly, airVars,
      netVars, statusVars
<1> QED
  BY <1>12, <1>13, <1>15, <1>16, <1>17, <1>19 DEF IInv, Wants
-----------------------------------------------------------------------------
(* The supplicant's commands and events.                                   *)

\* The steps of net_configure_address and what is around them.
LEMMA PlanTable ==
  /\ OverPlan # <<>> /\ Head(OverPlan) = Status("SCAN_OVER") /\ Tail(OverPlan) = <<>>
  /\ AckPlan # <<>> /\ Head(AckPlan) = Step("Ack") /\ Tail(AckPlan) = <<>>
  /\ StartPlan # <<>> /\ Head(StartPlan) = Step("IpStart") /\ Tail(StartPlan) = <<>>
  /\ net_configure_address = Plan1
  /\ Plan1 # <<>> /\ Head(Plan1) = Step("NetDown") /\ Tail(Plan1) = Plan2
  /\ Plan2 # <<>> /\ Head(Plan2) = Step("CbNull") /\ Tail(Plan2) = Plan3
  /\ Plan3 # <<>> /\ Head(Plan3) = Step("CbSet") /\ Tail(Plan3) = Plan4
  /\ Plan4 # <<>> /\ Head(Plan4) = Step("NetUp") /\ Tail(Plan4) = Plan5
  /\ Plan5 # <<>> /\ Head(Plan5) = Step("DhcpStart") /\ Tail(Plan5) = <<>>
<1>1. OverPlan # <<>> /\ Head(OverPlan) = Status("SCAN_OVER") /\ Tail(OverPlan) = <<>>
  BY DEF OverPlan
<1>2. AckPlan # <<>> /\ Head(AckPlan) = Step("Ack") /\ Tail(AckPlan) = <<>>
  BY DEF AckPlan
<1>3. StartPlan # <<>> /\ Head(StartPlan) = Step("IpStart") /\ Tail(StartPlan) = <<>>
  BY DEF StartPlan
<1>4. net_configure_address = Plan1
  BY DEF net_configure_address, Plan1
<1>5. Plan1 # <<>> /\ Head(Plan1) = Step("NetDown") /\ Tail(Plan1) = Plan2
  BY DEF Plan1, Plan2
<1>6. Plan2 # <<>> /\ Head(Plan2) = Step("CbNull") /\ Tail(Plan2) = Plan3
  BY DEF Plan2, Plan3
<1>7. Plan3 # <<>> /\ Head(Plan3) = Step("CbSet") /\ Tail(Plan3) = Plan4
  BY DEF Plan3, Plan4
<1>8. Plan4 # <<>> /\ Head(Plan4) = Step("NetUp") /\ Tail(Plan4) = Plan5
  BY DEF Plan4, Plan5
<1>9. Plan5 # <<>> /\ Head(Plan5) = Step("DhcpStart") /\ Tail(Plan5) = <<>>
  BY DEF Plan5
<1> QED
  BY <1>1, <1>2, <1>3, <1>4, <1>5, <1>6, <1>7, <1>8, <1>9

\* No two of them are the same.
LEMMA PlansDiffer ==
  /\ <<>> \notin {OverPlan, AckPlan, StartPlan, Plan1, Plan2, Plan3, Plan4, Plan5}
  /\ OverPlan \notin {AckPlan, StartPlan, Plan1, Plan2, Plan3, Plan4, Plan5}
  /\ AckPlan \notin {StartPlan, Plan1, Plan2, Plan3, Plan4, Plan5}
  /\ StartPlan \notin {Plan1, Plan2, Plan3, Plan4, Plan5}
  /\ Plan1 \notin {Plan2, Plan3, Plan4, Plan5} /\ Plan2 \notin {Plan3, Plan4, Plan5}
  /\ Plan3 \notin {Plan4, Plan5} /\ Plan4 # Plan5
<1>1. /\ Head(OverPlan).op = "Status" /\ Head(AckPlan).op = "Ack" /\ Head(StartPlan).op = "IpStart"
      /\ Head(Plan1).op = "NetDown" /\ Head(Plan2).op = "CbNull" /\ Head(Plan3).op = "CbSet"
      /\ Head(Plan4).op = "NetUp" /\ Head(Plan5).op = "DhcpStart"
  BY PlanTable DEF Status, StepOf, Step
<1> QED
  BY <1>1, PlanTable

\* A program does not have a step that none of its steps is.
LEMMA LacksLemma ==
  ASSUME NEW T, NEW s \in Seq(T), NEW o, \A x \in T : x.op # o
  PROVE  ~Has(s, o)
<1>1. \A i \in 1..Len(s) : s[i] \in T
  OBVIOUS
<1> QED
  BY <1>1 DEF Has

\* What they have not: a network to leave, an interface to take down.
LEMMA PlansLemma ==
  /\ {<<>>, OverPlan, AckPlan, StartPlan, Plan1, Plan2, Plan3, Plan4, Plan5} \subseteq Seq(Steps)
  /\ \A s \in {<<>>, OverPlan, AckPlan, StartPlan, Plan1, Plan2, Plan3, Plan4, Plan5} :
       ~Has(s, "Deauth") /\ ~Has(s, "IpDown")
  /\ \A s \in {<<>>, OverPlan, StartPlan, Plan1, Plan2, Plan3, Plan4, Plan5} : ~Has(s, "Ack")
  /\ \A s \in {<<>>, OverPlan, AckPlan, Plan1, Plan2, Plan3, Plan4, Plan5} : ~Has(s, "IpStart")
  /\ Has(StartPlan, "IpStart") /\ Ends(AckPlan, "Ack")
<1> DEFINE T == {Step("IpStart"), Step("NetDown"), Step("CbNull"), Step("CbSet"), Step("NetUp"),
                 Step("DhcpStart"), Status("SCAN_OVER"), Step("Ack")}
<1>1. T \subseteq Steps
  BY StepsLemma DEF Ops, Following, Statuses
<1>2. (\A o : Step(o).op = o) /\ Status("SCAN_OVER").op = "Status"
  BY DEF Step, Status, StepOf
<1>3. /\ \A x \in T : x.op # "Deauth" /\ x.op # "IpDown"
      /\ \A x \in T \ {Step("Ack")} : x.op # "Ack"
      /\ \A x \in T \ {Step("IpStart")} : x.op # "IpStart"
  BY <1>2
<1>4. \A x : x \in T => <<x>> \in Seq(T)
  OBVIOUS
<1>5. /\ <<>> \in Seq(T \ {Step("Ack"), Step("IpStart")})
      /\ OverPlan \in Seq(T \ {Step("Ack"), Step("IpStart")})
  <2>1. Status("SCAN_OVER") \in T \ {Step("Ack"), Step("IpStart")}
    BY <1>2
  <2> QED
    BY <2>1 DEF OverPlan
<1>6. AckPlan \in Seq(T \ {Step("IpStart")}) /\ StartPlan \in Seq(T \ {Step("Ack")})
  <2>1. Step("Ack") \in T \ {Step("IpStart")} /\ Step("IpStart") \in T \ {Step("Ack")}
    BY <1>2
  <2> QED
    BY <2>1 DEF AckPlan, StartPlan
<1>7. {Plan1, Plan2, Plan3, Plan4, Plan5} \subseteq Seq(T \ {Step("Ack"), Step("IpStart")})
  <2>1. /\ Step("NetDown") \in T \ {Step("Ack"), Step("IpStart")}
        /\ Step("CbNull") \in T \ {Step("Ack"), Step("IpStart")}
        /\ Step("CbSet") \in T \ {Step("Ack"), Step("IpStart")}
        /\ Step("NetUp") \in T \ {Step("Ack"), Step("IpStart")}
        /\ Step("DhcpStart") \in T \ {Step("Ack"), Step("IpStart")}
    BY <1>2
  <2> HIDE DEF T
  <2> QED
    BY <2>1 DEF Plan1, Plan2, Plan3, Plan4, Plan5
<1> HIDE DEF T
<1>8. /\ \A s \in Seq(T \ {Step("Ack"), Step("IpStart")}) :
           s \in Seq(T \ {Step("Ack")}) /\ s \in Seq(T \ {Step("IpStart")})
      /\ \A s \in Seq(T \ {Step("Ack")}) : s \in Seq(T)
      /\ \A s \in Seq(T \ {Step("IpStart")}) : s \in Seq(T)
      /\ \A s \in Seq(T) : s \in Seq(Steps)
  BY <1>1
<1>9. /\ \A s \in Seq(T) : ~Has(s, "Deauth") /\ ~Has(s, "IpDown")
      /\ \A s \in Seq(T \ {Step("Ack")}) : ~Has(s, "Ack")
      /\ \A s \in Seq(T \ {Step("IpStart")}) : ~Has(s, "IpStart")
  BY <1>3, LacksLemma
<1>10. Has(StartPlan, "IpStart")
  BY <1>2, FewLemma DEF StartPlan
<1>11. Ends(AckPlan, "Ack")
  BY DEF AckPlan, Ends
<1> QED
  BY <1>5, <1>6, <1>7, <1>8, <1>9, <1>10, <1>11

\* A supplicant that is idle or engaged is not on its way to leave a network.
LEMMA StayingLemma ==
  ASSUME IInv, WpasTodo = <<>> \/ Engaged
  PROVE  ~Leaves /\ ~Lowers /\ (WpasTodo = <<>> => ~Answers /\ ~Starts)
<1>1. WpasTodo \in {<<>>, OverPlan, AckPlan, StartPlan, Plan1, Plan2, Plan3, Plan4, Plan5}
  BY DEF IInv, Does, Joining, Engaged, Quiet
<1> QED
  BY <1>1, PlansLemma DEF Leaves, Lowers, Answers, Starts

\* The answer to a command lets the application go on.
LEMMA AckKeeps ==
  ASSUME IInv, Ack
  PROVE  IInv'
<1>1. /\ Types /\ WpasTodo # <<>> /\ Head(WpasTodo).op = "Ack" /\ WpasTodo \in Seq(Steps)
      /\ todo' = [todo EXCEPT !["wpas"] = <<>>, !["app"] = Tail(@)]
      /\ UNCHANGED <<statusVars, netVars, wf_mode, wpasVars, airVars>>
  BY DEF IInv, Ack, At, WpasTodo, Types, Threads
<1>2. /\ WpasTodo' = <<>> /\ AppTodo' = Tail(AppTodo) /\ RxTodo' = RxTodo
      /\ TcpipTodo' = TcpipTodo /\ todo' = [q \in Threads |-> todo'[q]]
  BY <1>1 DEF Types, WpasTodo, AppTodo, RxTodo, TcpipTodo, Threads
<1>3. Tail(WpasTodo) = <<>>
  BY <1>1, EndsLemma DEF IInv, Wants, Program
<1>4. Answers /\ ~Starts /\ ~Leaves /\ ~Lowers
  <2>1. <<>> \in Seq(Steps) /\ \A o : ~Has(<<>>, o)
    BY DEF Has
  <2>2. \A o : Has(WpasTodo, o) <=> Head(WpasTodo).op = o \/ Has(Tail(WpasTodo), o)
    BY <1>1, <2>1, HasLemma
  <2>3. \A o : Has(WpasTodo, o) <=> o = "Ack"
    BY <1>1, <1>3, <2>1, <2>2
  <2> QED
    BY <2>3 DEF Answers, Starts, Leaves, Lowers
<1>5. ~Answers' /\ ~Starts' /\ ~Leaves' /\ ~Lowers' /\ Ends(WpasTodo', "Ack")
  BY <1>2, PlansLemma, EndsLemma DEF Answers, Starts, Leaves, Lowers
<1>6. Sent = {} /\ AppStage \in {"waitD", "waitE", "waitC"} /\ OneSent
  BY <1>4 DEF IInv, Wants, Program
<1>7. \/ AppTodo \in WaitD /\ AppTodo' \in Left
      \/ AppTodo \in WaitE /\ AppTodo' \in Finishing
      \/ AppTodo \in WaitC /\ AppTodo' = <<>>
  <2>1. AppTodo \in WaitD \cup WaitE \cup WaitC
    BY <1>6, StageLemma DEF IInv, Wants, Program, Points, AppStage
  <2> QED
    BY <1>2, <2>1, WaitTable
<1>8. \/ AppStage = "waitD" /\ AppStage' = "left"
      \/ AppStage = "waitE" /\ AppStage' = "last"
      \/ AppStage = "waitC" /\ AppStage' = "free"
  BY <1>7, StageLemma DEF AppStage, Free
<1>9. /\ Sent' = {} /\ OneSent' /\ AppTodo' \in Points
      /\ OneIndication' = OneIndication /\ Indicated' = Indicated /\ Rejected' = Rejected
      /\ Posts' = Posts /\ SignalDue' = SignalDue
  BY <1>1, <1>2, <1>6, <1>7, MailLemma, RxLemma DEF wpasVars, Points, Free
<1>10. Types'
  <2>1. \A q \in Threads : todo'[q] \in Seq(Steps)
    BY <1>1, <1>2, <1>9, PlansLemma, PointsLemma
       DEF Types, AppTodo, WpasTodo, RxTodo, TcpipTodo, Threads
  <2>2. todo' \in [Threads -> Seq(Steps)]
    BY <1>2, <2>1
  <2> QED
    BY <1>1, <2>2 DEF Types, statusVars, netVars, wpasVars, airVars
<1>11. wpa' = wpa /\ Engaged' = Engaged
  BY <1>1 DEF wpasVars, Engaged
<1>12. WpasTodo \notin {OverPlan, StartPlan, Plan1, Plan2, Plan3, Plan4, Plan5}
  BY <1>1, PlanTable DEF Status, StepOf, Step
<1>13. Program'
  BY <1>5, <1>8, <1>9 DEF Program
<1>14. Registered'
  BY <1>1, <1>8, <1>11 DEF IInv, Wants, Registered, statusVars
<1>15. Flagged'
  BY <1>1, <1>4, <1>5, <1>8, <1>9, <1>11 DEF IInv, Does, Flagged, netVars
<1>16. Joining'
  BY <1>1, <1>2, <1>4, <1>5, <1>11, PlansDiffer DEF IInv, Does, Joining, wpasVars, Quiet
<1>17. Receiving' /\ Linked' /\ Indicating'
  BY <1>1, <1>2, <1>4, <1>5, <1>9, <1>11
  DEF IInv, Hears, Receiving, Linked, Indicating, wpasVars, airVars
<1>18. wpa = "completed" => WpasTodo \in Quiet
  BY <1>12 DEF IInv, Does, Joining
<1>19. Signalling'
  BY <1>1, <1>2, <1>9, <1>11, <1>18 DEF IInv, Hears, Signalling, wpasVars, airVars, netVars
<1>20. ~Doomed
  BY <1>6 DEF Doomed
<1>21. Configured' /\ Reporting'
  BY <1>1, <1>2, <1>11, <1>12, <1>18, <1>20 DEF IInv, Says, Configured, Reporting, netVars
<1>22. Told' /\ Reported'
  BY <1>1, <1>2, <1>11, <1>12, <1>18, <1>20
  DEF IInv, Says, Told, Reported, netVars, statusVars, airVars
<1> QED
  BY <1>10, <1>13, <1>14, <1>15, <1>16, <1>17, <1>19, <1>21, <1>22
  DEF IInv, Wants, Does, Hears, Says

\* The supplicant's thread is given a program.
LEMMA GivenLemma ==
  ASSUME Types, NEW r \in Seq(Steps), todo' = [todo EXCEPT !["wpas"] = r]
  PROVE  /\ WpasTodo' = r /\ AppTodo' = AppTodo /\ RxTodo' = RxTodo /\ TcpipTodo' = TcpipTodo
         /\ todo' \in [Threads -> Seq(Steps)] /\ AppStage' = AppStage
         /\ Answers' <=> Has(r, "Ack")
         /\ Starts' <=> Has(r, "IpStart")
         /\ Lowers' <=> Has(r, "IpDown")
         /\ Leaves' <=> Has(r, "Deauth")
         /\ Posts' = Posts /\ SignalDue' = SignalDue
<1>1. /\ WpasTodo' = r /\ AppTodo' = AppTodo /\ RxTodo' = RxTodo /\ TcpipTodo' = TcpipTodo
      /\ todo' \in [Threads -> Seq(Steps)]
  BY DoLemma DEF WpasTodo, AppTodo, RxTodo, TcpipTodo, Threads
<1> QED
  BY <1>1, RxLemma DEF AppStage, Answers, Starts, Lowers, Leaves

\* The supplicant takes the one command that there is, and answers it.
LEMMA CommandLemma ==
  ASSUME IInv, NEW c \in Commanded, Take(c), NEW r \in Seq(Steps), ~Has(r, "Ack"), Answer(r)
  PROVE  /\ Types /\ Sent = {c} /\ Sent' = {} /\ mail' \in Seq(Messages)
         /\ OneIndication' /\ (Indicated' <=> Indicated) /\ (Rejected' <=> Rejected)
         /\ AppStage' = AppStage /\ WpasTodo = <<>> /\ ~Leaves /\ ~Lowers
         /\ RxTodo' = RxTodo /\ TcpipTodo' = TcpipTodo /\ Posts' = Posts /\ SignalDue' = SignalDue
         /\ WpasTodo' = r \o <<Step("Ack")>>
         /\ Starts' <=> Has(r, "IpStart")
         /\ Lowers' <=> Has(r, "IpDown")
         /\ Leaves' <=> Has(r, "Deauth")
         /\ todo' \in [Threads -> Seq(Steps)]
         /\ UNCHANGED <<statusVars, netVars, wf_mode, signaled>> /\ ~signaled
         /\ Program'
         /\ c = "DISCONNECT" => AppStage = "waitD"
         /\ c = "ENABLE" => AppStage = "waitE"
         /\ c \in {"CONNECT", "DISABLE"} => AppStage = "waitC"
<1>1. /\ Types /\ OneSent /\ OneIndication /\ WpasTodo = <<>> /\ ~signaled
      /\ UNCHANGED <<statusVars, netVars, wf_mode, signaled>>
  BY DEF IInv, Wants, Program, Take, Idle, WpasTodo, Hears, Indicating
<1>2. c \notin Indications /\ c \notin {"reject"}
  BY DEF Commanded, Indications
<1>3. /\ mail' \in Seq(Messages)
      /\ OneSent' /\ OneIndication' /\ (Indicated' <=> Indicated) /\ (Rejected' <=> Rejected)
      /\ Queued({c}) /\ ~Queued(Commanded)'
  BY <1>1, <1>2, TakeLemma DEF OneSent, OneIndication, Indicated, Rejected
<1>4. Sent = {c} /\ Sent' = {}
  <2>1. Sent' = {}
    BY <1>3 DEF Sent, Queued
  <2> QED
    BY <1>1, <1>3, <2>1, SentLemma
<1>5. Step("Ack") \in Steps /\ <<Step("Ack")>> \in Seq(Steps) /\ Step("Ack").op = "Ack"
  <2>1. Step("Ack") \in Steps /\ Step("Ack").op = "Ack"
    BY StepsLemma DEF Ops
  <2> QED
    BY <2>1
<1>6. r \o <<Step("Ack")>> \in Seq(Steps)
  BY <1>5
<1>7. \A o : Has(r \o <<Step("Ack")>>, o) <=> Has(r, o) \/ o = "Ack"
  <2> TAKE o
  <2>1. Has(r \o <<Step("Ack")>>, o) <=> Has(r, o) \/ Has(<<Step("Ack")>>, o)
    BY <1>5, ConcatLemma
  <2>2. Has(<<Step("Ack")>>, o) <=> o = "Ack"
    BY <1>5 DEF Has
  <2> QED
    BY <2>1, <2>2
<1>8. PICK s : s = r \o <<Step("Ack")>>
  OBVIOUS
<1>9. s \in Seq(Steps) /\ todo' = [todo EXCEPT !["wpas"] = s]
  BY <1>6, <1>8 DEF Answer
<1>10. /\ WpasTodo' = s /\ AppTodo' = AppTodo /\ RxTodo' = RxTodo /\ TcpipTodo' = TcpipTodo
       /\ todo' \in [Threads -> Seq(Steps)] /\ AppStage' = AppStage
       /\ Starts' <=> Has(s, "IpStart")
       /\ Lowers' <=> Has(s, "IpDown")
       /\ Leaves' <=> Has(s, "Deauth")
       /\ Posts' = Posts /\ SignalDue' = SignalDue
  BY <1>1, <1>9, GivenLemma
<1>11. /\ Starts' <=> Has(r, "IpStart")
       /\ Lowers' <=> Has(r, "IpDown")
       /\ Leaves' <=> Has(r, "Deauth")
  BY <1>7, <1>8, <1>10
<1>12. Ends(WpasTodo', "Ack")
  BY <1>8, <1>10, EndsLemma
<1>13. /\ c = "DISCONNECT" => AppStage = "waitD"
       /\ c = "ENABLE" => AppStage = "waitE"
       /\ c \in {"CONNECT", "DISABLE"} => AppStage = "waitC"
  BY <1>4 DEF IInv, Wants, Program
<1>14. Program'
  BY <1>3, <1>4, <1>10, <1>12, <1>13 DEF IInv, Wants, Program, Commanded
<1> QED
  BY <1>1, <1>3, <1>4, <1>8, <1>10, <1>11, <1>13, <1>14, StayingLemma

\* What the program of the application asks for does not depend on events.
LEMMA EventLemma ==
  ASSUME IInv, AppTodo' = AppTodo, WpasTodo' \in Seq(Steps), ~Answers',
         Sent' = Sent, OneSent'
  PROVE  Program'
<1>1. Ends(WpasTodo', "Ack")
  BY EndsLemma DEF Answers
<1>2. AppStage' = AppStage
  BY DEF AppStage
<1> QED
  BY <1>1, <1>2 DEF IInv, Wants, Program

\* An idle supplicant ends up without a network, and leaves the one it had.
LEMMA RetreatKeeps ==
  ASSUME IInv, WpasTodo = <<>>, Types', Program', Registered', Flagged',
         UNCHANGED <<statusVars, netVars, airVars>>, RxTodo' = RxTodo, TcpipTodo' = TcpipTodo,
         ~Engaged', ~Starts',
         Engaged => Leaves' \/ (link = "none" /\ ~Posts),
         Leaves' \/ Posts \/ Indicated' => ~scan',
         wpa' = "astray" => ~Leaves' /\ ~Posts /\ ~Indicated',
         OneIndication', Indicated' => Indicated, Rejected' => Rejected,
         signaled' => signaled
  PROVE  IInv'
<1>1. ~Leaves /\ Posts' = Posts /\ SignalDue' = SignalDue
  BY StayingLemma, RxLemma
<1>2. wpa' \in {"off", "disconnected", "scanning", "astray"}
  BY DEF Types, WpaStates, Engaged
<1>3. WpasTodo' # StartPlan
  BY PlansLemma DEF Starts
<1>4. Joining'
  BY <1>2, <1>3 DEF Joining, Engaged
<1>5. Receiving'
  BY DEF IInv, Hears, Receiving, airVars
<1>6. Linked'
  BY <1>1 DEF IInv, Hears, Linked, airVars, Engaged
<1>7. Indicating'
  BY <1>1, <1>2 DEF IInv, Hears, Indicating, airVars, Engaged
<1>8. Signalling'
  BY <1>1, <1>2 DEF IInv, Hears, Signalling, airVars
<1>9. Says'
  BY <1>2 DEF IInv, Says, Configured, Reporting, Told, Reported
<1> QED
  BY <1>4, <1>5, <1>6, <1>7, <1>8, <1>9 DEF IInv, Wants, Does, Hears

\* An idle supplicant answers a command that changes nothing for it.
LEMMA StayKeeps ==
  ASSUME IInv, WpasTodo = <<>>, WpasTodo' = AckPlan, wpa' = wpa, scan' = scan,
         signaled' = signaled, Types', Program',
         UNCHANGED <<statusVars, netVars, airVars>>, RxTodo' = RxTodo, TcpipTodo' = TcpipTodo,
         AppStage' = AppStage, AppStage \in {"waitE", "waitC"},
         Sent' = {}, Sent \notin {{"DISCONNECT"}, {"DISABLE"}},
         OneIndication', Indicated' <=> Indicated, Rejected' <=> Rejected
  PROVE  IInv'
<1>1. ~Leaves /\ ~Lowers /\ Posts' = Posts /\ SignalDue' = SignalDue /\ Engaged' = Engaged
  BY StayingLemma, RxLemma DEF Engaged
<1>2. ~Leaves' /\ ~Lowers' /\ ~Starts'
  BY PlansLemma DEF Leaves, Lowers, Starts
<1>3. ~Doomed
  BY DEF Doomed
<1>4. Registered'
  BY DEF IInv, Wants, Registered, statusVars
<1>5. Flagged'
  BY <1>1, <1>2 DEF IInv, Does, Flagged, netVars
<1>6. Joining'
  BY <1>1, <1>2, PlansDiffer DEF IInv, Does, Joining, Quiet
<1>7. Receiving' /\ Linked' /\ Indicating'
  BY <1>1, <1>2 DEF IInv, Hears, Receiving, Linked, Indicating, airVars
<1>8. Signalling'
  BY <1>1 DEF IInv, Hears, Signalling, airVars, netVars, Quiet
<1>9. Configured' /\ Reporting'
  BY <1>3, PlansDiffer DEF IInv, Says, Configured, Reporting, netVars, Quiet
<1>10. Told' /\ Reported'
  BY <1>1, <1>3, PlansDiffer DEF IInv, Says, Told, Reported, netVars, statusVars, airVars, Quiet
<1> QED
  BY <1>4, <1>5, <1>6, <1>7, <1>8, <1>9, <1>10 DEF IInv, Wants, Does, Hears, Says

\* An idle supplicant is associated, or has its keys.
LEMMA AdvanceKeeps ==
  ASSUME IInv, WpasTodo = <<>>, wpa # "off", signaled' = signaled, Types', Program',
         \/ wpa' = "associated" /\ WpasTodo' = <<>>
         \/ wpa' = "completed" /\ WpasTodo' = StartPlan,
         UNCHANGED <<statusVars, netVars, airVars>>, RxTodo' = RxTodo, TcpipTodo' = TcpipTodo,
         AppStage' = AppStage, Sent' = Sent,
         ~sta_ip_start_flag, ~scan', link \in {"none", "joined"}, ~Posts, ~Indicated',
         OneIndication', Rejected' => Rejected
  PROVE  IInv'
<1>1. ~Leaves /\ ~Lowers /\ Posts' = Posts /\ SignalDue' = SignalDue
  BY StayingLemma, RxLemma
<1>2. ~Leaves' /\ ~Lowers' /\ (wpa' # "completed" => ~Starts') /\ Engaged'
  BY PlansLemma DEF Leaves, Lowers, Starts, Engaged
<1>3. Doomed' = Doomed
  BY DEF Doomed
<1>4. Registered'
  BY DEF IInv, Wants, Registered, statusVars
<1>5. Flagged'
  BY DEF Flagged, netVars
<1>6. Joining'
  BY <1>2, PlansDiffer DEF Joining, netVars, Quiet
<1>7. Receiving' /\ Linked' /\ Indicating'
  BY <1>1, <1>2 DEF IInv, Hears, Receiving, Linked, Indicating, airVars
<1>8. StartPlan \notin Quiet
  BY PlansDiffer DEF Quiet
<1>9. Signalling'
  BY <1>1, <1>8 DEF IInv, Hears, Signalling, airVars
<1>10. Configured' /\ Reporting' /\ Reported'
  BY <1>8 DEF IInv, Says, Configured, Reporting, Reported
<1>11. Told'
  <2>1. link = "joined" => Engaged
    BY <1>1 DEF IInv, Hears, Linked
  <2>2. <<>> # OverPlan
    BY PlansDiffer
  <2> QED
    BY <1>3, <2>1, <2>2 DEF IInv, Says, Told, statusVars, airVars
<1> QED
  BY <1>4, <1>5, <1>6, <1>7, <1>9, <1>10, <1>11 DEF IInv, Wants, Does, Hears, Says

\* The programs with which the supplicant leaves a network.
LEMMA LeaveTable ==
  /\ \A s \in {<<>>, notify_disconnected, Over, notify_disconnected \o Over, deauthenticate} :
       s \in Seq(Steps) /\ ~Has(s, "Ack") /\ ~Has(s, "IpStart")
  /\ Has(deauthenticate, "Deauth") /\ Has(deauthenticate, "IpDown")
  /\ ~Has(notify_disconnected \o Over, "Deauth") /\ Has(notify_disconnected \o Over, "IpDown")
<1>1. /\ Step("IpDown") \in Steps /\ Step("ReconnectOver") \in Steps /\ Step("Deauth") \in Steps
      /\ Status("CONNECT_FAILED") \in Steps
      /\ Step("IpDown").op = "IpDown" /\ Step("ReconnectOver").op = "ReconnectOver"
      /\ Step("Deauth").op = "Deauth" /\ Status("CONNECT_FAILED").op = "Status"
  BY StepsLemma DEF Ops, Following, Statuses
<1>2. /\ notify_disconnected \in Seq(Steps) /\ \A o : Has(notify_disconnected, o) <=> o = "IpDown"
  <2>1. notify_disconnected \in Seq(Steps)
    BY <1>1 DEF notify_disconnected
  <2>2. \A o : Has(notify_disconnected, o) <=> o = "IpDown"
    BY <1>1 DEF notify_disconnected, Has
  <2> QED
    BY <2>1, <2>2
<1>3. Over \in Seq(Steps) /\ \A o : Has(Over, o) => o = "ReconnectOver"
  <2>1. Over \in Seq(Steps)
    BY <1>1 DEF Over
  <2>2. \A o : Has(Over, o) => o = "ReconnectOver"
    BY <1>1 DEF Over, Has
  <2> QED
    BY <2>1, <2>2
<1>4. PICK f : f = <<Status("CONNECT_FAILED"), Step("Deauth")>>
  OBVIOUS
<1>5. f \in Seq(Steps) /\ \A o : Has(f, o) <=> o \in {"Status", "Deauth"}
  <2>1. f \in Seq(Steps)
    BY <1>1, <1>4
  <2>2. ASSUME NEW o
        PROVE  Has(f, o) <=> o \in {"Status", "Deauth"}
    BY <1>1, <1>4, FewLemma
  <2> QED
    BY <2>1, <2>2
<1>6. PICK g : g = notify_disconnected
  OBVIOUS
<1>7. PICK h : h = Over
  OBVIOUS
<1>8. g \in Seq(Steps) /\ h \in Seq(Steps) /\ g \o h \in Seq(Steps) /\ f \o g \in Seq(Steps)
  BY <1>2, <1>3, <1>5, <1>6, <1>7
<1>9. (f \o g) \o h \in Seq(Steps)
  BY <1>8
<1>10. \A o : /\ Has(g \o h, o) <=> Has(g, o) \/ Has(h, o)
              /\ Has((f \o g) \o h, o) <=> Has(f, o) \/ Has(g, o) \/ Has(h, o)
  BY <1>5, <1>8, ConcatLemma
<1>11. deauthenticate = (f \o g) \o h
  BY <1>4, <1>6, <1>7 DEF deauthenticate
<1>12. <<>> \in Seq(Steps) /\ \A o : ~Has(<<>>, o)
  BY DEF Has
<1>13. PICK u : u = g \o h
  OBVIOUS
<1>14. PICK v : v = (f \o g) \o h
  OBVIOUS
<1>15. /\ \A o : Has(g, o) <=> o = "IpDown"
       /\ \A o : Has(h, o) => o = "ReconnectOver"
  BY <1>2, <1>3, <1>6, <1>7
<1>16. /\ u \in Seq(Steps) /\ v \in Seq(Steps)
       /\ \A o : Has(u, o) <=> Has(g, o) \/ Has(h, o)
       /\ \A o : Has(v, o) <=> Has(f, o) \/ Has(g, o) \/ Has(h, o)
  BY <1>8, <1>9, <1>10, <1>13, <1>14
<1>17. /\ \A s \in {<<>>, g, h, u, v} : s \in Seq(Steps) /\ ~Has(s, "Ack") /\ ~Has(s, "IpStart")
       /\ Has(v, "Deauth") /\ Has(v, "IpDown") /\ ~Has(u, "Deauth") /\ Has(u, "IpDown")
  <2>1. /\ ~Has(g, "Ack") /\ ~Has(g, "IpStart") /\ ~Has(g, "Deauth") /\ Has(g, "IpDown")
        /\ ~Has(h, "Ack") /\ ~Has(h, "IpStart") /\ ~Has(h, "Deauth")
    BY <1>15
  <2>2. ~Has(f, "Ack") /\ ~Has(f, "IpStart") /\ Has(f, "Deauth")
    BY <1>5
  <2>3. ~Has(u, "Ack") /\ ~Has(u, "IpStart") /\ ~Has(u, "Deauth") /\ Has(u, "IpDown")
    BY <1>16, <2>1
  <2>4. ~Has(v, "Ack") /\ ~Has(v, "IpStart") /\ Has(v, "Deauth") /\ Has(v, "IpDown")
    BY <1>16, <2>1, <2>2
  <2>5. ~Has(<<>>, "Ack") /\ ~Has(<<>>, "IpStart")
    BY <1>12
  <2> QED
    BY <1>8, <1>12, <1>16, <2>1, <2>3, <2>4, <2>5
<1>18. /\ notify_disconnected = g /\ Over = h /\ notify_disconnected \o Over = u
       /\ deauthenticate = v
  BY <1>6, <1>7, <1>11, <1>13, <1>14
<1> QED
  BY <1>17, <1>18

LEMMA DisconnectKeeps ==
  ASSUME IInv, Disconnect
  PROVE  IInv'
<1> DEFINE r == IF Engaged THEN <<Step("Deauth")>> \o notify_disconnected \o <<Step("ReconnectOver")>>
                ELSE <<>>
<1>1. /\ Take("DISCONNECT") /\ Answer(r) /\ UNCHANGED <<scan, airVars>>
      /\ wpa' = IF wpa = "off" THEN "off" ELSE "disconnected"
      /\ disconnected' = (wpa # "off")
  BY DEF Disconnect
<1>2. /\ r \in Seq(Steps) /\ ~Has(r, "Ack") /\ ~Has(r, "IpStart")
      /\ Has(r, "Deauth") <=> Engaged
      /\ Has(r, "IpDown") <=> Engaged
  <2>1. /\ Step("Deauth") \in Steps /\ Step("IpDown") \in Steps /\ Step("ReconnectOver") \in Steps
        /\ Step("Deauth").op = "Deauth" /\ Step("IpDown").op = "IpDown"
        /\ Step("ReconnectOver").op = "ReconnectOver"
    BY StepsLemma DEF Ops, Following
  <2>2. <<Step("Deauth")>> \o notify_disconnected \o <<Step("ReconnectOver")>>
          = <<Step("Deauth"), Step("IpDown"), Step("ReconnectOver")>>
    <3>1. <<Step("Deauth")>> \o <<Step("IpDown")>> = <<Step("Deauth"), Step("IpDown")>>
      BY Append2
    <3>2. <<Step("Deauth"), Step("IpDown")>> \o <<Step("ReconnectOver")>>
            = <<Step("Deauth"), Step("IpDown"), Step("ReconnectOver")>>
      BY Append3
    <3> QED
      BY <3>1, <3>2 DEF notify_disconnected
  <2>3. PICK s : s = <<Step("Deauth"), Step("IpDown"), Step("ReconnectOver")>>
    OBVIOUS
  <2>4. s \in Seq(Steps)
    BY <2>1, <2>3
  <2>5. \A o : Has(s, o) <=> o \in {"Deauth", "IpDown", "ReconnectOver"}
    <3> TAKE o
    <3>1. Has(s, o) <=> \/ Step("Deauth").op = o \/ Step("IpDown").op = o
                        \/ Step("ReconnectOver").op = o
      BY <2>3, FewLemma
    <3> QED
      BY <2>1, <3>1
  <2>6. <<>> \in Seq(Steps) /\ \A o : ~Has(<<>>, o)
    BY DEF Has
  <2>7. r = IF Engaged THEN s ELSE <<>>
    BY <2>2, <2>3
  <2> HIDE DEF r
  <2> QED
    BY <2>4, <2>5, <2>6, <2>7
<1> HIDE DEF r
<1>3. "DISCONNECT" \in Commanded
  BY DEF Commanded
<1>4. /\ Types /\ mail' \in Seq(Messages)
      /\ OneIndication' /\ (Indicated' <=> Indicated) /\ (Rejected' <=> Rejected)
      /\ AppStage' = AppStage /\ WpasTodo = <<>> /\ ~Lowers
      /\ RxTodo' = RxTodo /\ TcpipTodo' = TcpipTodo /\ todo' \in [Threads -> Seq(Steps)]
      /\ UNCHANGED <<statusVars, netVars, wf_mode, signaled>> /\ Program' /\ AppStage = "waitD"
      /\ (Lowers' <=> Engaged) /\ (Leaves' <=> Engaged) /\ ~Starts'
  BY <1>1, <1>2, <1>3, CommandLemma
<1>5. ~Engaged' /\ (wpa' = "off" <=> wpa = "off") /\ wpa' \in {"off", "disconnected"}
  BY <1>1 DEF Engaged
<1>6. Types'
  BY <1>1, <1>4, <1>5 DEF Types, statusVars, netVars, airVars, WpaStates
<1>7. Registered'
  BY <1>4, <1>5 DEF IInv, Wants, Registered, statusVars
<1>8. Flagged'
  BY <1>4, <1>5 DEF IInv, Does, Flagged, netVars, Engaged
<1>9. Leaves' \/ Posts \/ Indicated' => ~scan'
  BY <1>1, <1>4 DEF IInv, Does, Joining, Hears, Indicating
<1> QED
  BY <1>1, <1>4, <1>5, <1>6, <1>7, <1>8, <1>9, RetreatKeeps

LEMMA EnableKeeps ==
  ASSUME IInv, Enable
  PROVE  IInv'
<1> DEFINE r == IF wpa = "off" THEN <<Step("AddNetif")>> ELSE <<>>
<1>1. /\ Take("ENABLE") /\ Answer(r) /\ UNCHANGED <<disconnected, scan, airVars>>
      /\ wpa' = IF wpa = "off" THEN "disconnected" ELSE wpa
  BY DEF Enable
<1>2. /\ r \in Seq(Steps) /\ ~Has(r, "Ack") /\ ~Has(r, "IpStart") /\ ~Has(r, "Deauth")
      /\ wpa # "off" => r \o <<Step("Ack")>> = AckPlan
  <2>1. Step("AddNetif") \in Steps /\ Step("AddNetif").op = "AddNetif"
    BY StepsLemma DEF Ops
  <2>2. /\ <<Step("AddNetif")>> \in Seq(Steps)
        /\ \A o : Has(<<Step("AddNetif")>>, o) <=> o = "AddNetif"
    BY <2>1 DEF Has
  <2>3. <<>> \in Seq(Steps) /\ \A o : ~Has(<<>>, o)
    BY DEF Has
  <2>4. <<>> \o <<Step("Ack")>> = AckPlan
    BY DEF AckPlan
  <2> QED
    BY <2>2, <2>3, <2>4
<1> HIDE DEF r
<1>3. "ENABLE" \in Commanded
  BY DEF Commanded
<1>4. /\ Types /\ Sent = {"ENABLE"} /\ Sent' = {} /\ mail' \in Seq(Messages)
      /\ OneIndication' /\ (Indicated' <=> Indicated) /\ (Rejected' <=> Rejected)
      /\ AppStage' = AppStage /\ WpasTodo = <<>> /\ ~Lowers
      /\ RxTodo' = RxTodo /\ TcpipTodo' = TcpipTodo /\ todo' \in [Threads -> Seq(Steps)]
      /\ UNCHANGED <<statusVars, netVars, wf_mode, signaled>> /\ Program' /\ AppStage = "waitE"
      /\ WpasTodo' = r \o <<Step("Ack")>> /\ ~Leaves' /\ ~Starts'
  BY <1>1, <1>2, <1>3, CommandLemma
<1>5. wpa' \in WpaStates
  BY <1>1, <1>4 DEF Types, WpaStates
<1>6. Types'
  BY <1>1, <1>4, <1>5 DEF Types, statusVars, netVars, airVars
<1>7. CASE wpa = "off"
  <2>1. wpa' = "disconnected" /\ ~Engaged' /\ ~Engaged
    BY <1>1, <1>7 DEF Engaged
  <2>2. ~sta_ip_start_flag
    BY <1>4, <1>7 DEF IInv, Does, Flagged
  <2>3. station_status_cb
    BY <1>4 DEF IInv, Wants, Registered
  <2>4. Registered' /\ Flagged'
    BY <1>4, <2>2, <2>3 DEF Registered, Flagged, statusVars, netVars
  <2>5. Leaves' \/ Posts \/ Indicated' => ~scan'
    BY <1>1, <1>4 DEF IInv, Hears, Indicating
  <2> QED
    BY <1>1, <1>4, <1>6, <2>1, <2>4, <2>5, RetreatKeeps
<1>8. CASE wpa # "off"
  <2>1. /\ wpa' = wpa /\ WpasTodo' = AckPlan /\ AppStage \in {"waitE", "waitC"}
        /\ Sent \notin {{"DISCONNECT"}, {"DISABLE"}}
    BY <1>1, <1>2, <1>4, <1>8
  <2> QED
    BY <1>1, <1>4, <1>6, <2>1, StayKeeps
<1> QED
  BY <1>7, <1>8

LEMMA DisableKeeps ==
  ASSUME IInv, Disable
  PROVE  IInv'
<1> DEFINE q == IF wpa # "off" THEN <<Step("RemoveNetif")>> ELSE <<>>
           t == IF Engaged THEN <<Status("CONNECT_FAILED"), Step("Deauth"), Step("ReconnectOver")>>
                ELSE <<>>
<1>1. /\ Take("DISABLE") /\ Answer(q \o t) /\ UNCHANGED airVars
      /\ wpa' = "off" /\ disconnected' = FALSE /\ scan' = FALSE
  BY DEF Disable
<1>2. /\ q \in Seq(Steps) /\ t \in Seq(Steps)
      /\ ~Has(q, "Ack") /\ ~Has(q, "IpStart") /\ ~Has(q, "Deauth")
      /\ ~Has(t, "Ack") /\ ~Has(t, "IpStart") /\ (Has(t, "Deauth") <=> Engaged)
  <2>1. /\ Step("RemoveNetif") \in Steps /\ Step("Deauth") \in Steps /\ Step("ReconnectOver") \in Steps
        /\ Status("CONNECT_FAILED") \in Steps
        /\ Step("RemoveNetif").op = "RemoveNetif" /\ Step("Deauth").op = "Deauth"
        /\ Step("ReconnectOver").op = "ReconnectOver" /\ Status("CONNECT_FAILED").op = "Status"
    BY StepsLemma DEF Ops, Following, Statuses
  <2>2. /\ <<Step("RemoveNetif")>> \in Seq(Steps)
        /\ \A o : Has(<<Step("RemoveNetif")>>, o) <=> o = "RemoveNetif"
    BY <2>1 DEF Has
  <2>3. <<>> \in Seq(Steps) /\ \A o : ~Has(<<>>, o)
    BY DEF Has
  <2>4. PICK s : s = <<Status("CONNECT_FAILED"), Step("Deauth"), Step("ReconnectOver")>>
    OBVIOUS
  <2>5. s \in Seq(Steps)
    BY <2>1, <2>4
  <2>6. \A o : Has(s, o) <=> o \in {"Status", "Deauth", "ReconnectOver"}
    <3> TAKE o
    <3>1. Has(s, o) <=> \/ Status("CONNECT_FAILED").op = o \/ Step("Deauth").op = o
                        \/ Step("ReconnectOver").op = o
      BY <2>4, FewLemma
    <3> QED
      BY <2>1, <3>1
  <2>7. t = IF Engaged THEN s ELSE <<>>
    BY <2>4
  <2>8. q \in Seq(Steps) /\ ~Has(q, "Ack") /\ ~Has(q, "IpStart") /\ ~Has(q, "Deauth")
    BY <2>2, <2>3
  <2> HIDE DEF q, t
  <2>9. t \in Seq(Steps) /\ ~Has(t, "Ack") /\ ~Has(t, "IpStart") /\ (Has(t, "Deauth") <=> Engaged)
    BY <2>3, <2>5, <2>6, <2>7
  <2> QED
    BY <2>8, <2>9
<1> HIDE DEF q, t
<1>3. PICK r : r = q \o t
  OBVIOUS
<1>4. /\ r \in Seq(Steps) /\ ~Has(r, "Ack") /\ ~Has(r, "IpStart") /\ (Has(r, "Deauth") <=> Engaged)
      /\ Answer(r)
  <2>1. \A o : Has(r, o) <=> Has(q, o) \/ Has(t, o)
    BY <1>2, <1>3, ConcatLemma
  <2>2. r \in Seq(Steps)
    BY <1>2, <1>3
  <2>3. Answer(r)
    BY <1>1, <1>3
  <2> QED
    BY <1>2, <2>1, <2>2, <2>3
<1>5. "DISABLE" \in Commanded
  BY DEF Commanded
<1>6. /\ Types /\ mail' \in Seq(Messages)
      /\ OneIndication' /\ (Indicated' <=> Indicated) /\ (Rejected' <=> Rejected)
      /\ AppStage' = AppStage /\ WpasTodo = <<>>
      /\ RxTodo' = RxTodo /\ TcpipTodo' = TcpipTodo /\ todo' \in [Threads -> Seq(Steps)]
      /\ UNCHANGED <<statusVars, netVars, wf_mode, signaled>> /\ Program' /\ AppStage = "waitC"
      /\ Sent' = {} /\ (Leaves' <=> Engaged) /\ ~Starts'
  BY <1>1, <1>4, <1>5, CommandLemma
<1>7. ~Engaged' /\ wpa' = "off"
  BY <1>1 DEF Engaged
<1>8. Types'
  BY <1>1, <1>6 DEF Types, statusVars, netVars, airVars, WpaStates
<1>9. Registered' /\ Flagged'
  BY <1>6, <1>7 DEF Registered, Flagged
<1> QED
  BY <1>1, <1>6, <1>7, <1>8, <1>9, RetreatKeeps

LEMMA ConnectKeeps ==
  ASSUME IInv, Connect
  PROVE  IInv'
<1> DEFINE starts == wpa \in {"disconnected", "scanning"}
<1>1. /\ Take("CONNECT") /\ Answer(<<>>) /\ UNCHANGED <<scan, airVars>>
      /\ wpa' = IF starts THEN "scanning" ELSE wpa
      /\ disconnected' \in BOOLEAN
  BY DEF Connect
<1>2. "CONNECT" \in Commanded /\ <<>> \in Seq(Steps) /\ \A o : ~Has(<<>>, o)
  BY DEF Commanded, Has
<1>3. /\ Types /\ Sent = {"CONNECT"} /\ Sent' = {} /\ mail' \in Seq(Messages)
      /\ OneIndication' /\ (Indicated' <=> Indicated) /\ (Rejected' <=> Rejected)
      /\ AppStage' = AppStage /\ WpasTodo = <<>> /\ ~Lowers
      /\ RxTodo' = RxTodo /\ TcpipTodo' = TcpipTodo /\ todo' \in [Threads -> Seq(Steps)]
      /\ UNCHANGED <<statusVars, netVars, wf_mode, signaled>> /\ Program' /\ AppStage = "waitC"
      /\ WpasTodo' = <<>> \o <<Step("Ack")>> /\ ~Leaves' /\ ~Starts'
  BY <1>1, <1>2, CommandLemma
<1>4. wpa' \in WpaStates
  BY <1>1, <1>3 DEF Types, WpaStates
<1>5. Types'
  BY <1>1, <1>3, <1>4 DEF Types, statusVars, netVars, airVars
<1>6. CASE starts
  <2>1. wpa' = "scanning" /\ ~Engaged' /\ ~Engaged /\ wpa # "off" /\ wpa # "completed"
    BY <1>1, <1>6 DEF Engaged
  <2>2. Registered' /\ Flagged'
    BY <1>3, <2>1 DEF IInv, Wants, Does, Registered, Flagged, statusVars, netVars
  <2>3. Leaves' \/ Posts \/ Indicated' => ~scan'
    BY <1>1, <1>3 DEF IInv, Hears, Indicating
  <2> QED
    BY <1>1, <1>3, <1>5, <2>1, <2>2, <2>3, RetreatKeeps
<1>7. CASE ~starts
  <2>1. <<>> \o <<Step("Ack")>> = AckPlan
    BY DEF AckPlan
  <2>2. /\ wpa' = wpa /\ WpasTodo' = AckPlan /\ AppStage \in {"waitE", "waitC"}
        /\ Sent \notin {{"DISCONNECT"}, {"DISABLE"}}
    BY <1>1, <1>3, <1>7, <2>1
  <2> QED
    BY <1>1, <1>3, <1>5, <2>2, StayKeeps
<1> QED
  BY <1>6, <1>7

\* An event leaves an idle supplicant without a network.
LEMMA AwayKeeps ==
  ASSUME IInv, WpasTodo = <<>>, NEW r \in Seq(Steps), ~Has(r, "Ack"), ~Has(r, "IpStart"),
         todo' = [todo EXCEPT !["wpas"] = r],
         UNCHANGED <<statusVars, netVars, airVars>>,
         wpa' \in {"off", "disconnected", "scanning", "astray"}, wpa' = "off" <=> wpa = "off",
         wpa = "completed" => Has(r, "IpDown"),
         Engaged => Has(r, "Deauth") \/ (link = "none" /\ ~Posts),
         Has(r, "Deauth") \/ Posts \/ Indicated' => ~scan',
         wpa' = "astray" => ~Has(r, "Deauth") /\ ~Posts /\ ~Indicated',
         disconnected' \in BOOLEAN, scan' \in BOOLEAN, signaled' \in BOOLEAN, signaled' => signaled,
         mail' \in Seq(Messages), Sent' = Sent, OneSent',
         OneIndication', Indicated' => Indicated, Rejected' => Rejected
  PROVE  IInv'
<1>1. Types
  BY DEF IInv
<1>2. /\ WpasTodo' = r /\ AppTodo' = AppTodo /\ RxTodo' = RxTodo /\ TcpipTodo' = TcpipTodo
      /\ todo' \in [Threads -> Seq(Steps)] /\ AppStage' = AppStage
      /\ Answers' <=> Has(r, "Ack")
      /\ Starts' <=> Has(r, "IpStart")
      /\ Lowers' <=> Has(r, "IpDown")
      /\ Leaves' <=> Has(r, "Deauth")
  BY <1>1, GivenLemma
<1>3. ~Engaged' /\ ~Lowers /\ ~Answers' /\ ~Starts'
  BY <1>2, StayingLemma DEF Engaged
<1>4. Types'
  BY <1>1, <1>2 DEF Types, statusVars, netVars, airVars, WpaStates
<1>5. Program'
  BY <1>2, <1>3, EventLemma
<1>6. Registered'
  BY <1>2 DEF IInv, Wants, Registered, statusVars
<1>7. Flagged'
  BY <1>2, <1>3 DEF IInv, Does, Flagged, netVars
<1> QED
  BY <1>2, <1>3, <1>4, <1>5, <1>6, <1>7, RetreatKeeps

\* The supplicant takes the one indication that there is.
LEMMA IndicationLemma ==
  ASSUME IInv, NEW m \in Indications, Take(m)
  PROVE  /\ Types /\ WpasTodo = <<>> /\ ~signaled /\ ~Posts
         /\ UNCHANGED <<statusVars, netVars, wf_mode, signaled>>
         /\ mail' \in Seq(Messages) /\ OneIndication' /\ ~Indicated' /\ (Rejected' => Rejected)
         /\ Sent' = Sent /\ OneSent'
         /\ wpa \in {"off", "disconnected", "scanning", "associating"} /\ ~scan
         /\ link \in {"none", "joined"}
         /\ m = "reject" => link = "none"
<1>1. /\ Types /\ OneSent /\ OneIndication /\ WpasTodo = <<>> /\ ~signaled
      /\ UNCHANGED <<statusVars, netVars, wf_mode, signaled>>
  BY DEF IInv, Wants, Program, Take, Idle, WpasTodo, Hears, Indicating
<1>2. m \notin Commanded /\ \A c \in Commanded : m \notin {c}
  BY DEF Commanded, Indications
<1>3. /\ mail' \in Seq(Messages)
      /\ OneSent' /\ OneIndication' /\ (Rejected' => Rejected)
      /\ Indicated /\ ~Indicated' /\ (m = "reject" => Rejected)
      /\ \A c \in Commanded : Queued({c})' <=> Queued({c})
  BY <1>1, <1>2, TakeLemma DEF OneSent, OneIndication, Indicated, Rejected
<1>4. Sent' = Sent
  <2>1. \A c \in Commanded : c \in Sent' <=> Queued({c})'
    BY DEF Sent, Queued
  <2>2. \A c \in Commanded : c \in Sent <=> Queued({c})
    BY DEF Sent, Queued
  <2>3. Sent \subseteq Commanded /\ Sent' \subseteq Commanded
    BY DEF Sent
  <2>4. \A c : c \in Sent' <=> c \in Sent
    BY <1>3, <2>1, <2>2, <2>3
  <2> QED
    BY <2>4, Zenon
<1> QED
  BY <1>1, <1>3, <1>4 DEF IInv, Hears, Indicating

\* WPA_CTRL_EVENT_CONNECT_IND: the supplicant takes the firmware's word for the
\* network that it is associated with.
LEMMA ConnectIndKeeps ==
  ASSUME IInv, ConnectInd
  PROVE  IInv'
<1>0. Types /\ <<>> \in Seq(Steps) /\ \A o : ~Has(<<>>, o)
  BY DEF IInv, Has
<1>1. UNCHANGED <<disconnected, scan, airVars>>
  BY DEF ConnectInd
<1>2. disconnected' \in BOOLEAN /\ scan' \in BOOLEAN
  BY <1>0, <1>1 DEF Types
<1>3. Away \in {"disconnected", "scanning"}
  BY DEF Away
<1>4. ASSUME UNCHANGED todo, Idle("wpas")
      PROVE  todo' = [todo EXCEPT !["wpas"] = <<>>]
  BY <1>0, <1>4 DEF Types, Idle, Threads
<1>5. CASE Take("assoc")
  <2>1. "assoc" \in Indications
    BY DEF Indications
  <2>2. /\ WpasTodo = <<>> /\ ~signaled /\ ~Posts
        /\ UNCHANGED <<statusVars, netVars, wf_mode, signaled>>
        /\ mail' \in Seq(Messages) /\ OneIndication' /\ ~Indicated' /\ (Rejected' => Rejected)
        /\ Sent' = Sent /\ OneSent'
        /\ wpa \in {"off", "disconnected", "scanning", "associating"} /\ ~scan
        /\ link \in {"none", "joined"}
    BY <1>5, <2>1, IndicationLemma
  <2>3. Idle("wpas")
    BY <1>5 DEF Take
  <2>4. \/ wpa = "off" /\ UNCHANGED <<todo, wpa>>
        \/ wpa # "off" /\ wpa_supplicant_event_assoc
    <3>1. Take("reject") => FALSE
      BY <1>5 DEF Take
    <3> QED
      BY <3>1 DEF ConnectInd
  <2>5. signaled' \in BOOLEAN /\ (signaled' => signaled)
    BY <1>0, <2>2 DEF Types
  <2>6. CASE wpa = "off" /\ UNCHANGED <<todo, wpa>>
    <3>1. todo' = [todo EXCEPT !["wpas"] = <<>>]
      BY <1>4, <2>3, <2>6
    <3>2. ~Engaged
      BY <2>6 DEF Engaged
    <3> QED
      BY <1>0, <1>1, <1>2, <2>2, <2>5, <2>6, <3>1, <3>2, AwayKeeps
  <2>7. ASSUME wpa # "off", NEW r, todo' = [todo EXCEPT !["wpas"] = r],
               \/ wpa' = "associated" /\ r = <<>>
               \/ wpa' = "completed" /\ r = StartPlan
        PROVE  IInv'
    <3>1. r \in Seq(Steps) /\ ~Has(r, "Ack")
      BY <2>7, PlansLemma
    <3>2. /\ WpasTodo' = r /\ AppTodo' = AppTodo /\ RxTodo' = RxTodo /\ TcpipTodo' = TcpipTodo
          /\ todo' \in [Threads -> Seq(Steps)] /\ AppStage' = AppStage
          /\ Answers' <=> Has(r, "Ack")
      BY <1>0, <2>7, <3>1, GivenLemma
    <3>3. Types'
      BY <1>0, <1>1, <1>2, <2>2, <2>5, <2>7, <3>2
      DEF Types, statusVars, netVars, airVars, WpaStates
    <3>4. Program'
      BY <2>2, <3>1, <3>2, EventLemma
    <3>5. ~sta_ip_start_flag
      <4>1. ~Lowers
        BY <2>2, StayingLemma
      <4> QED
        BY <2>2, <2>7, <4>1 DEF IInv, Does, Flagged
    <3> QED
      BY <1>1, <2>2, <2>7, <3>2, <3>3, <3>4, <3>5, AdvanceKeeps
  <2>8. ASSUME wpa # "off", ~Engaged, wpa' = "astray", todo' = [todo EXCEPT !["wpas"] = <<>>]
        PROVE  IInv'
    <3>1. wpa # "completed"
      BY <2>2
    <3> QED
      BY <1>0, <1>1, <1>2, <2>2, <2>5, <2>8, <3>1, AwayKeeps
  <2>9. ASSUME wpa # "off", ~Engaged, wpa' = Away, todo' = [todo EXCEPT !["wpas"] = deauthenticate]
        PROVE  IInv'
    <3>1. /\ deauthenticate \in Seq(Steps) /\ ~Has(deauthenticate, "Ack")
          /\ ~Has(deauthenticate, "IpStart")
      BY LeaveTable
    <3>2. wpa # "completed" /\ wpa' \in {"off", "disconnected", "scanning", "astray"}
          /\ wpa' # "off" /\ wpa' # "astray"
      BY <1>3, <2>2, <2>9
    <3> QED
      BY <1>1, <1>2, <2>2, <2>5, <2>9, <3>1, <3>2, AwayKeeps
  <2> QED
    BY <2>4, <2>6, <2>7, <2>8, <2>9 DEF wpa_supplicant_event_assoc, StartPlan
<1>6. CASE Take("reject")
  <2>1. "reject" \in Indications
    BY DEF Indications
  <2>2. /\ WpasTodo = <<>> /\ ~signaled /\ ~Posts
        /\ UNCHANGED <<statusVars, netVars, wf_mode, signaled>>
        /\ mail' \in Seq(Messages) /\ OneIndication' /\ ~Indicated' /\ (Rejected' => Rejected)
        /\ Sent' = Sent /\ OneSent'
        /\ wpa \in {"off", "disconnected", "scanning", "associating"} /\ ~scan
        /\ link = "none"
    BY <1>6, <2>1, IndicationLemma
  <2>3. Idle("wpas")
    BY <1>6 DEF Take
  <2>4. UNCHANGED todo /\ wpa' = IF wpa = "off" THEN "off" ELSE Away
    <3>1. Take("assoc") => FALSE
      BY <1>6 DEF Take
    <3> QED
      BY <3>1 DEF ConnectInd
  <2>5. todo' = [todo EXCEPT !["wpas"] = <<>>]
    BY <1>4, <2>3, <2>4
  <2>6. wpa' \in {"off", "disconnected", "scanning"} /\ (wpa' = "off" <=> wpa = "off")
    BY <1>3, <2>4
  <2>7. signaled' \in BOOLEAN /\ (signaled' => signaled)
    BY <1>0, <2>2 DEF Types
  <2> QED
    BY <1>0, <1>1, <1>2, <2>2, <2>5, <2>6, <2>7, AwayKeeps
<1> QED
  BY <1>5, <1>6 DEF ConnectInd

\* WPA_COMPLETED.
LEMMA KeysAgreedKeeps ==
  ASSUME IInv, KeysAgreed
  PROVE  IInv'
<1>1. /\ Types /\ WpasTodo = <<>> /\ wpa = "associated" /\ link = "joined" /\ ~signaled
      /\ wpa' = "completed" /\ todo' = [todo EXCEPT !["wpas"] = StartPlan]
      /\ UNCHANGED <<statusVars, netVars, wf_mode, disconnected, scan, mail, signaled, airVars>>
  BY DEF IInv, KeysAgreed, Do, Idle, WpasTodo, StartPlan
<1>2. Sent' = Sent /\ OneSent' /\ OneIndication' /\ Indicated' = Indicated /\ Rejected' = Rejected
  BY <1>1, MailLemma DEF IInv, Wants, Program, Hears, Indicating
<1>3. ~Posts /\ ~Indicated' /\ ~scan
  BY <1>1, <1>2 DEF IInv, Does, Joining, Hears, Indicating, Engaged
<1>4. ~Lowers
  BY <1>1, StayingLemma
<1>5. ~sta_ip_start_flag
  BY <1>1, <1>4 DEF IInv, Does, Flagged
<1>6. StartPlan \in Seq(Steps) /\ ~Has(StartPlan, "Ack")
  BY PlansLemma
<1>7. /\ WpasTodo' = StartPlan /\ AppTodo' = AppTodo /\ RxTodo' = RxTodo /\ TcpipTodo' = TcpipTodo
      /\ todo' \in [Threads -> Seq(Steps)] /\ AppStage' = AppStage
      /\ Answers' <=> Has(StartPlan, "Ack")
  BY <1>1, <1>6, GivenLemma
<1>8. Types'
  BY <1>1, <1>7 DEF Types, statusVars, netVars, airVars, WpaStates
<1>9. Program'
  BY <1>2, <1>6, <1>7, EventLemma
<1> QED
  BY <1>1, <1>2, <1>3, <1>5, <1>7, <1>8, <1>9, AdvanceKeeps

\* wpa_supplicant_timeout.
LEMMA AuthTimeoutKeeps ==
  ASSUME IInv, AuthTimeout
  PROVE  IInv'
<1>1. /\ Types /\ WpasTodo = <<>> /\ wpa \in {"associating", "associated", "astray"} /\ ~signaled
      /\ wpa' = Away
      /\ todo' = [todo EXCEPT !["wpas"] = IF Engaged THEN deauthenticate ELSE <<>>]
      /\ UNCHANGED <<statusVars, netVars, wf_mode, disconnected, scan, mail, signaled, airVars>>
  BY DEF IInv, AuthTimeout, Do, Idle, WpasTodo
<1>2. Sent' = Sent /\ OneSent' /\ OneIndication' /\ Indicated' = Indicated /\ Rejected' = Rejected
  BY <1>1, MailLemma DEF IInv, Wants, Program, Hears, Indicating
<1>3. wpa' \in {"disconnected", "scanning"}
  BY <1>1 DEF Away
<1>4. PICK r : r = IF Engaged THEN deauthenticate ELSE <<>>
  OBVIOUS
<1>5. /\ r \in Seq(Steps) /\ ~Has(r, "Ack") /\ ~Has(r, "IpStart") /\ (Engaged => Has(r, "Deauth"))
      /\ Has(r, "Deauth") => Engaged
  <2>1. CASE Engaged
    BY <1>4, <2>1, LeaveTable
  <2>2. CASE ~Engaged
    <3>1. r = <<>>
      BY <1>4, <2>2
    <3>2. <<>> \in Seq(Steps) /\ \A o : ~Has(<<>>, o)
      BY DEF Has
    <3> QED
      BY <2>2, <3>1, <3>2
  <2> QED
    BY <2>1, <2>2
<1>6. Has(r, "Deauth") \/ Posts \/ Indicated' => ~scan'
  BY <1>1, <1>2, <1>5 DEF IInv, Does, Joining, Hears, Indicating
<1>7. /\ todo' = [todo EXCEPT !["wpas"] = r] /\ wpa # "completed" /\ wpa # "off"
      /\ mail' \in Seq(Messages) /\ disconnected' \in BOOLEAN /\ scan' \in BOOLEAN
      /\ signaled' \in BOOLEAN
  BY <1>1, <1>4 DEF Types
<1> QED
  BY <1>1, <1>2, <1>3, <1>5, <1>6, <1>7, AwayKeeps

\* EVENT_DISASSOC: the loss of a link is noticed.
LEMMA DisassocKeeps ==
  ASSUME IInv, Disassoc
  PROVE  IInv'
<1> DEFINE s == notify_disconnected \o Over
<1>1. /\ Types /\ WpasTodo = <<>> /\ signaled /\ signaled' = FALSE
      /\ wpa' = IF Noticed THEN Away ELSE wpa
      /\ todo' = [todo EXCEPT !["wpas"] = IF Noticed THEN s ELSE <<>>]
      /\ UNCHANGED <<statusVars, netVars, wf_mode, disconnected, scan, mail, airVars>>
  BY DEF IInv, Disassoc, Idle, WpasTodo
<1>2. Sent' = Sent /\ OneSent' /\ OneIndication' /\ Indicated' = Indicated /\ Rejected' = Rejected
  BY <1>1, MailLemma DEF IInv, Wants, Program, Hears, Indicating
<1>3. link = "none" /\ ~Posts
  BY <1>1 DEF IInv, Hears, Signalling
<1>4. /\ wpa' \in {"off", "disconnected", "scanning"} /\ (wpa' = "off" <=> wpa = "off")
      /\ wpa = "completed" => Noticed
  BY <1>1 DEF Away, Types, WpaStates, Noticed, Engaged
<1>5. /\ s \in Seq(Steps) /\ ~Has(s, "Ack") /\ ~Has(s, "IpStart") /\ ~Has(s, "Deauth")
      /\ Has(s, "IpDown")
  BY LeaveTable
<1> HIDE DEF s
<1>6. PICK r : r = IF Noticed THEN s ELSE <<>>
  OBVIOUS
<1>7. /\ r \in Seq(Steps) /\ ~Has(r, "Ack") /\ ~Has(r, "IpStart") /\ ~Has(r, "Deauth")
      /\ Noticed => Has(r, "IpDown")
  <2>1. <<>> \in Seq(Steps) /\ \A o : ~Has(<<>>, o)
    BY DEF Has
  <2> QED
    BY <1>5, <1>6, <2>1
<1>8. Has(r, "Deauth") \/ Posts \/ Indicated' => ~scan'
  BY <1>1, <1>2, <1>3, <1>7 DEF IInv, Hears, Indicating
<1>9. /\ todo' = [todo EXCEPT !["wpas"] = r] /\ mail' \in Seq(Messages)
      /\ disconnected' \in BOOLEAN /\ scan' \in BOOLEAN /\ signaled' \in BOOLEAN
  BY <1>1, <1>6 DEF Types
<1>10. wpa = "completed" => Has(r, "IpDown")
  BY <1>4, <1>7
<1> QED
  BY <1>1, <1>2, <1>3, <1>4, <1>7, <1>8, <1>9, <1>10, AwayKeeps

\* SM_DISCONNECT_REQ: the firmware leaves its link.
LEMMA DeauthKeeps ==
  ASSUME IInv, Deauth
  PROVE  IInv'
<1>1. /\ Types /\ WpasTodo # <<>> /\ Head(WpasTodo).op = "Deauth" /\ RxTodo = <<>>
      /\ link' = "none" /\ leaving' = (leaving \/ link # "none") /\ Then("wpas", <<>>)
      /\ UNCHANGED <<statusVars, netVars, wf_mode, wpa, disconnected, scan, mail, signaled>>
      /\ WpasTodo \in Seq(Steps)
  BY DEF IInv, Types, Deauth, At, Idle, WpasTodo, RxTodo, wpasVars, Threads
<1>2. /\ WpasTodo' = <<>> \o Tail(WpasTodo) /\ AppTodo' = AppTodo /\ RxTodo' = RxTodo
      /\ TcpipTodo' = TcpipTodo /\ todo' = [p \in Threads |-> todo'[p]]
  BY <1>1, ThenLemma DEF WpasTodo, AppTodo, RxTodo, TcpipTodo, Threads
<1>3. WpasTodo' = Tail(WpasTodo) /\ WpasTodo' \in Seq(Steps) /\ <<>> \in Seq(Steps)
  BY <1>1, <1>2, SequenceLemma
<1>4. todo' \in [Threads -> Seq(Steps)]
  <2>1. \A p \in Threads : todo'[p] \in Seq(Steps)
    BY <1>1, <1>2, <1>3 DEF Types, WpasTodo, AppTodo, RxTodo, TcpipTodo, Threads
  <2> QED
    BY <1>2, <2>1
<1>5. \A o : Has(WpasTodo, o) <=> o = "Deauth" \/ Has(WpasTodo', o)
  BY <1>1, <1>3, HasLemma
<1>6. Leaves /\ (Leaves' => Leaves) /\ Answers' = Answers /\ Starts' = Starts /\ Lowers' = Lowers
  <2>1. Leaves /\ (Leaves' => Leaves)
    BY <1>5 DEF Leaves
  <2>2. /\ Answers' <=> Answers
        /\ Starts' <=> Starts
        /\ Lowers' <=> Lowers
    BY <1>5 DEF Answers, Starts, Lowers
  <2> QED
    BY <2>1, <2>2 DEF Answers, Starts, Lowers, Has
<1>7. ~Engaged /\ ~Engaged' /\ wpa # "completed" /\ ~scan
  BY <1>1, <1>6, StayingLemma DEF IInv, Does, Joining, Engaged
<1>8. ~Posts /\ ~Posts' /\ SignalDue' = SignalDue
  <2>1. ~Posts
    BY <1>1 DEF Posts, Has
  <2> QED
    BY <1>2, <2>1, RxLemma
<1>9. Sent' = Sent /\ OneSent' /\ OneIndication' /\ Indicated' = Indicated /\ Rejected' = Rejected
  BY <1>1, MailLemma DEF IInv, Wants, Program, Hears, Indicating
<1>10. WpasTodo' # StartPlan
  BY <1>6, <1>7, PlansLemma DEF IInv, Does, Joining, Starts
<1>11. Types'
  BY <1>1, <1>4 DEF Types, statusVars, netVars
<1>12. Wants'
  <2>1. AppStage' = AppStage
    BY <1>2 DEF AppStage
  <2>2. Ends(WpasTodo', "Ack")
    <3>1. Ends(WpasTodo, "Ack") /\ ~Has(<<>>, "Ack")
      BY DEF IInv, Wants, Program, Has
    <3> QED
      BY <1>1, <1>2, <1>3, <3>1, EndsLemma
  <2> QED
    BY <1>1, <1>2, <1>6, <1>9, <2>1, <2>2 DEF IInv, Wants, Program, Registered, statusVars
<1>13. Flagged'
  BY <1>1, <1>2, <1>6, <1>9 DEF IInv, Does, Flagged, netVars, AppStage
<1>14. Joining'
  BY <1>1, <1>6, <1>7, <1>10 DEF IInv, Does, Joining, Engaged
<1>15. Hears'
  BY <1>1, <1>2, <1>7, <1>8, <1>9 DEF IInv, Hears, Receiving, Linked, Indicating, Signalling, Engaged
<1>16. Says'
  BY <1>1, <1>2, <1>7 DEF IInv, Says, Configured, Reporting, Told, Reported
<1> QED
  BY <1>11, <1>12, <1>13, <1>14, <1>15, <1>16 DEF IInv, Does

\* The supplicant scans, and joins a network that it has found.
LEMMA ScanKeeps ==
  ASSUME IInv, Scan
  PROVE  IInv'
<1> DEFINE none == <<Status("SCAN_OVER")>> \o <<Status("NO_AP_FOUND")>>
           start == <<Status("SCANNING")>>
<1>1. /\ Types /\ WpasTodo = <<>> /\ mail = <<>> /\ ~signaled
      /\ UNCHANGED <<statusVars, netVars, wf_mode, disconnected, mail, signaled, leaving>>
      /\ scan' \in BOOLEAN
  BY DEF IInv, Scan, ScanStart, ScanDone, Do, Idle, WpasTodo, airVars
<1>2. <<Status("SCAN_OVER")>> \o <<>> = OverPlan
  BY DEF OverPlan
<1>3. /\ \/ /\ wpa \in {"scanning", "astray"} /\ wpa' = wpa /\ link' = link
            /\ todo' = [todo EXCEPT !["wpas"] = start]
         \/ /\ scan /\ ~scan' /\ RxTodo = <<>> /\ wpa' = wpa /\ link' = link
            /\ \/ todo' = [todo EXCEPT !["wpas"] = OverPlan]
               \/ todo' = [todo EXCEPT !["wpas"] = none]
         \/ /\ ~scan' /\ RxTodo = <<>> /\ ~leaving
            /\ wpa = "scanning" /\ wpa' = "associating" /\ link' = "requested"
            /\ todo' = [todo EXCEPT !["wpas"] = OverPlan]
  BY <1>2 DEF Scan, ScanStart, ScanDone, Do, airVars, RxTodo, Idle
<1>4. /\ start \in Seq(Steps) /\ none \in Seq(Steps) /\ OverPlan \in Seq(Steps)
      /\ \A s \in {start, none, OverPlan} : \A o : Has(s, o) => o = "Status"
  <2>1. /\ Status("SCANNING") \in Steps /\ Status("SCAN_OVER") \in Steps
        /\ Status("NO_AP_FOUND") \in Steps
        /\ Status("SCANNING").op = "Status" /\ Status("SCAN_OVER").op = "Status"
        /\ Status("NO_AP_FOUND").op = "Status"
    BY StepsLemma DEF Ops, Following, Statuses
  <2>2. start \in Seq(Steps) /\ \A o : Has(start, o) => o = "Status"
    BY <2>1 DEF Has
  <2>3. OverPlan \in Seq(Steps) /\ \A o : Has(OverPlan, o) => o = "Status"
    BY <2>1 DEF Has, OverPlan
  <2>4. /\ <<Status("NO_AP_FOUND")>> \in Seq(Steps)
        /\ \A o : Has(<<Status("NO_AP_FOUND")>>, o) => o = "Status"
    BY <2>1 DEF Has
  <2>5. none \in Seq(Steps) /\ \A o : Has(none, o) => o = "Status"
    <3>1. PICK a : a = <<Status("SCAN_OVER")>>
      OBVIOUS
    <3>2. PICK b : b = <<Status("NO_AP_FOUND")>>
      OBVIOUS
    <3>3. a \in Seq(Steps) /\ \A o : Has(a, o) => o = "Status"
      BY <2>3, <3>1 DEF OverPlan
    <3>4. b \in Seq(Steps) /\ \A o : Has(b, o) => o = "Status"
      BY <2>4, <3>2
    <3>5. a \o b \in Seq(Steps) /\ \A o : Has(a \o b, o) <=> Has(a, o) \/ Has(b, o)
      BY <3>3, <3>4, ConcatLemma
    <3>6. none = a \o b
      BY <3>1, <3>2
    <3> QED
      BY <3>3, <3>4, <3>5, <3>6
  <2> HIDE DEF none, start
  <2> QED
    BY <2>2, <2>3, <2>5
<1> HIDE DEF none, start
<1>5. /\ Sent' = Sent /\ OneSent' /\ OneIndication' /\ Indicated' = Indicated /\ Rejected' = Rejected
      /\ ~Indicated' /\ ~Rejected'
  <2>1. ~Indicated /\ ~Rejected
    BY <1>1 DEF Indicated, Rejected, Queued
  <2> QED
    BY <1>1, <2>1, MailLemma DEF IInv, Wants, Program, Hears, Indicating
<1>6. ~Posts /\ ~Leaves /\ ~Lowers
  <2>1. ~Leaves /\ ~Lowers
    BY <1>1, StayingLemma
  <2>2. RxTodo = <<>> => ~Posts
    BY DEF Posts, Has
  <2> QED
    BY <1>3, <2>1, <2>2 DEF IInv, Hears, Indicating
<1>7. ASSUME NEW r \in {start, none, OverPlan}, todo' = [todo EXCEPT !["wpas"] = r],
             wpa' = wpa, link' = link, ~Engaged
      PROVE  IInv'
  <2>1. /\ r \in Seq(Steps) /\ ~Has(r, "Ack") /\ ~Has(r, "IpStart") /\ ~Has(r, "Deauth")
    BY <1>4, <1>7
  <2>2. /\ wpa' \in {"off", "disconnected", "scanning", "astray"} /\ (wpa' = "off" <=> wpa = "off")
        /\ wpa # "completed"
    BY <1>1, <1>7 DEF Types, WpaStates, Engaged
  <2>3. /\ disconnected' \in BOOLEAN /\ signaled' \in BOOLEAN /\ mail' \in Seq(Messages)
        /\ signaled' = signaled /\ UNCHANGED <<statusVars, netVars, airVars>>
    BY <1>1, <1>7 DEF Types, airVars
  <2>4. /\ Has(r, "Deauth") \/ Posts \/ Indicated' => ~scan'
        /\ wpa' = "astray" => ~Has(r, "Deauth") /\ ~Posts /\ ~Indicated'
        /\ Engaged => Has(r, "Deauth") \/ (link = "none" /\ ~Posts)
        /\ wpa = "completed" => Has(r, "IpDown")
        /\ signaled' => signaled
        /\ Indicated' => Indicated
        /\ Rejected' => Rejected
    BY <1>5, <1>6, <1>7, <2>1, <2>2, <2>3
  <2>5. WpasTodo = <<>> /\ scan' \in BOOLEAN /\ Sent' = Sent /\ OneSent' /\ OneIndication'
    BY <1>1, <1>5
  <2>6. todo' = [todo EXCEPT !["wpas"] = r]
    BY <1>7
  <2> QED
    BY <2>1, <2>2, <2>3, <2>4, <2>5, <2>6, AwayKeeps
<1>8. CASE /\ ~scan' /\ RxTodo = <<>> /\ ~leaving
           /\ wpa = "scanning" /\ wpa' = "associating" /\ link' = "requested"
           /\ todo' = [todo EXCEPT !["wpas"] = OverPlan]
  <2>1. ~Has(OverPlan, "Ack") /\ ~Has(OverPlan, "IpStart")
    BY <1>4
  <2>2. /\ WpasTodo' = OverPlan /\ AppTodo' = AppTodo /\ RxTodo' = RxTodo /\ TcpipTodo' = TcpipTodo
        /\ todo' \in [Threads -> Seq(Steps)] /\ AppStage' = AppStage
        /\ Answers' <=> Has(OverPlan, "Ack")
        /\ Starts' <=> Has(OverPlan, "IpStart")
        /\ Posts' = Posts
    BY <1>1, <1>4, <1>8, GivenLemma
  <2>3. RxTodo' = <<>> /\ ~SignalDue' /\ ~Posts' /\ Engaged' /\ ~sta_ip_start_flag
    <3>1. RxTodo' = <<>>
      BY <1>8, <2>2
    <3>2. ~Posts' /\ ~SignalDue'
      BY <3>1 DEF Posts, SignalDue, Has
    <3>3. ~sta_ip_start_flag
      BY <1>6, <1>8 DEF IInv, Does, Flagged
    <3> QED
      BY <1>8, <3>1, <3>2, <3>3 DEF Engaged
  <2>4. Types'
    BY <1>1, <1>8, <2>2 DEF Types, statusVars, netVars, WpaStates
  <2>5. Program'
    BY <1>4, <1>5, <2>1, <2>2, EventLemma
  <2>6. Registered' /\ Flagged'
    BY <1>1, <1>8, <2>2, <2>3 DEF IInv, Wants, Registered, Flagged, statusVars, netVars
  <2>7. Joining'
    BY <1>8, <2>1, <2>2, PlansDiffer DEF Joining
  <2>8. Receiving'
    BY <1>1, <1>8, <2>2 DEF IInv, Hears, Receiving
  <2>9. Linked' /\ Indicating' /\ Signalling'
    BY <1>1, <1>5, <1>8, <2>3 DEF Linked, Indicating, Signalling
  <2>10. Says'
    BY <1>8, <2>2 DEF IInv, Says, Configured, Reporting, Told, Reported
  <2> QED
    BY <2>4, <2>5, <2>6, <2>7, <2>8, <2>9, <2>10 DEF IInv, Wants, Does, Hears
<1>9. scan => ~Engaged
  BY DEF IInv, Does, Joining
<1>10. wpa \in {"scanning", "astray"} => ~Engaged
  BY DEF Engaged
<1> QED
  BY <1>3, <1>7, <1>8, <1>9, <1>10
-----------------------------------------------------------------------------
(* The messages of the firmware.                                           *)

\* What the receiver does for a message of the firmware.
LEMMA FirmwareTable ==
  /\ ConnectingPlan \in Seq(RxSteps) /\ ~Has(ConnectingPlan, "Post") /\ ~Has(ConnectingPlan, "Signal")
  /\ LET r == <<Step("AssocInd"), StepOf("Post", "assoc")>>
     IN  r \in Seq(RxSteps) /\ r \in AssocPlans /\ Ends(r, "Post") /\ ~Has(r, "Signal")
  /\ \A v \in Statuses :
       LET r == <<Status(v), StepOf("Post", "reject")>>
       IN  r \in Seq(RxSteps) /\ Ends(r, "Post") /\ ~Has(r, "Signal")
  /\ \A v \in Statuses :
       LET r == <<Status(v), Step("Signal")>>
       IN  r \in Seq(RxSteps) /\ ~Has(r, "Post") /\ Has(r, "Signal")
  /\ LET r == <<Step("Signal")>>
     IN  r \in Seq(RxSteps) /\ ~Has(r, "Post") /\ Has(r, "Signal")
<1>1. /\ Step("AssocInd") \in RxSteps /\ Step("Signal") \in RxSteps
      /\ StepOf("Post", "assoc") \in RxSteps /\ StepOf("Post", "reject") \in RxSteps
      /\ Step("AssocInd").op = "AssocInd" /\ Step("Signal").op = "Signal"
      /\ StepOf("Post", "assoc").op = "Post" /\ StepOf("Post", "reject").op = "Post"
  BY StepsLemma DEF RxSteps, Ops, Following, Messages
<1>2. \A v \in Statuses : Status(v) \in RxSteps /\ Status(v).op = "Status"
  BY StepsLemma DEF RxSteps
<1>3. ASSUME NEW a \in RxSteps
      PROVE  <<a>> \in Seq(RxSteps) /\ \A o : Has(<<a>>, o) <=> a.op = o
  BY DEF Has
<1>4. ASSUME NEW a \in RxSteps, NEW b \in RxSteps
      PROVE  /\ <<a, b>> \in Seq(RxSteps)
             /\ \A o : Has(<<a, b>>, o) <=> a.op = o \/ b.op = o
             /\ a.op # "Post" => Ends(<<a, b>>, "Post")
  <2>1. /\ <<a, b>> \in Seq(RxSteps) /\ Len(<<a, b>>) = 2
        /\ <<a, b>>[1] = a /\ <<a, b>>[2] = b
    OBVIOUS
  <2> QED
    BY <2>1 DEF Has, Ends
<1>5. /\ ConnectingPlan \in Seq(RxSteps) /\ ~Has(ConnectingPlan, "Post")
      /\ ~Has(ConnectingPlan, "Signal")
  <2>1. Status("CONNECTING") \in RxSteps /\ Status("CONNECTING").op = "Status"
    BY <1>2 DEF Statuses
  <2> QED
    BY <1>3, <2>1 DEF ConnectingPlan
<1>6. PICK r : r = <<Step("AssocInd"), StepOf("Post", "assoc")>>
  OBVIOUS
<1>7. r \in Seq(RxSteps) /\ r \in AssocPlans /\ Ends(r, "Post") /\ ~Has(r, "Signal")
  BY <1>1, <1>4, <1>6 DEF AssocPlans
<1>8. ASSUME NEW v \in Statuses
      PROVE  LET s == <<Status(v), StepOf("Post", "reject")>>
             IN  s \in Seq(RxSteps) /\ Ends(s, "Post") /\ ~Has(s, "Signal")
  <2>1. PICK s : s = <<Status(v), StepOf("Post", "reject")>>
    OBVIOUS
  <2>2. s \in Seq(RxSteps) /\ Ends(s, "Post") /\ ~Has(s, "Signal")
    BY <1>1, <1>2, <1>4, <2>1
  <2> QED
    BY <2>1, <2>2
<1>9. ASSUME NEW v \in Statuses
      PROVE  LET s == <<Status(v), Step("Signal")>>
             IN  s \in Seq(RxSteps) /\ ~Has(s, "Post") /\ Has(s, "Signal")
  <2>1. PICK s : s = <<Status(v), Step("Signal")>>
    OBVIOUS
  <2>2. s \in Seq(RxSteps) /\ ~Has(s, "Post") /\ Has(s, "Signal")
    BY <1>1, <1>2, <1>4, <2>1
  <2> QED
    BY <2>1, <2>2
<1>10. LET s == <<Step("Signal")>>
       IN  s \in Seq(RxSteps) /\ ~Has(s, "Post") /\ Has(s, "Signal")
  BY <1>1, <1>3
<1> QED
  BY <1>5, <1>6, <1>7, <1>8, <1>9, <1>10

\* What the receiver is given, and what becomes of the link.
Moves(r) ==
  \/ /\ ~leaving /\ leaving' = leaving /\ link = "requested" /\ link' = "joining"
     /\ r = ConnectingPlan /\ ~Has(r, "Post") /\ ~Has(r, "Signal")
  \/ /\ ~leaving /\ leaving' = leaving /\ link = "joining" /\ link' = "joined"
     /\ r \in AssocPlans /\ Ends(r, "Post") /\ ~Has(r, "Signal")
  \/ /\ ~leaving /\ leaving' = leaving /\ link = "joining" /\ link' = "none"
     /\ Ends(r, "Post") /\ ~Has(r, "Signal")
  \/ /\ ~leaving /\ leaving' = leaving /\ link = "joined" /\ link' = "none"
     /\ ~Has(r, "Post") /\ Has(r, "Signal")
  \/ /\ leaving /\ leaving' = FALSE /\ link' = link
     /\ ~Has(r, "Post") /\ Has(r, "Signal")

\* A message of the firmware changes the link and what the receiver has to do.
LEMMA FirmwareKeeps ==
  ASSUME IInv, Rx \/ RxLeft
  PROVE  IInv'
<1>1. /\ Types /\ RxTodo = <<>>
      /\ UNCHANGED <<statusVars, netVars, wf_mode, wpasVars>>
  BY DEF IInv, Rx, RxLeft, RxStart, RxAssoc, RxFail, RxLost, Firmware, Do, Idle, RxTodo
<1>2. \E r \in Seq(RxSteps) : todo' = [todo EXCEPT !["rx"] = r] /\ Moves(r)
  <2>1. CASE RxStart
    <3>1. PICK r : r = ConnectingPlan
      OBVIOUS
    <3>2. r \in Seq(RxSteps) /\ ~Has(r, "Post") /\ ~Has(r, "Signal")
      BY <3>1, FirmwareTable
    <3> QED
      BY <2>1, <3>1, <3>2 DEF RxStart, Firmware, Do, ConnectingPlan, Moves
  <2>2. CASE RxAssoc
    <3>1. PICK r : r = <<Step("AssocInd"), StepOf("Post", "assoc")>>
      OBVIOUS
    <3>2. r \in Seq(RxSteps) /\ r \in AssocPlans /\ Ends(r, "Post") /\ ~Has(r, "Signal")
      BY <3>1, FirmwareTable
    <3> QED
      BY <2>2, <3>1, <3>2 DEF RxAssoc, Firmware, Do, Moves
  <2>3. CASE \E v \in Failures : RxFail(v)
    <3>1. PICK v \in Failures : RxFail(v)
      BY <2>3
    <3>2. v \in Statuses
      BY StationAssumption DEF Statuses
    <3>3. PICK r : r = <<Status(v), StepOf("Post", "reject")>>
      OBVIOUS
    <3>4. r \in Seq(RxSteps) /\ Ends(r, "Post") /\ ~Has(r, "Signal")
      BY <3>2, <3>3, FirmwareTable
    <3> QED
      BY <3>1, <3>3, <3>4 DEF RxFail, Firmware, Do, Moves
  <2>4. CASE \E v \in Losses : RxLost(v)
    <3>1. PICK v \in Losses : RxLost(v)
      BY <2>4
    <3>2. v \in Statuses
      BY StationAssumption DEF Statuses
    <3>3. PICK r : r = <<Status(v), Step("Signal")>>
      OBVIOUS
    <3>4. r \in Seq(RxSteps) /\ ~Has(r, "Post") /\ Has(r, "Signal")
      BY <3>2, <3>3, FirmwareTable
    <3> QED
      BY <3>1, <3>3, <3>4 DEF RxLost, Firmware, Do, Moves
  <2>5. CASE RxLeft
    <3>1. PICK r : r = <<Step("Signal")>>
      OBVIOUS
    <3>2. r \in Seq(RxSteps) /\ ~Has(r, "Post") /\ Has(r, "Signal")
      BY <3>1, FirmwareTable
    <3> QED
      BY <2>5, <3>1, <3>2 DEF RxLeft, Do, Moves
  <2> QED
    BY <2>1, <2>2, <2>3, <2>4, <2>5 DEF Rx
<1>3. PICK r \in Seq(RxSteps) : todo' = [todo EXCEPT !["rx"] = r] /\ Moves(r)
  BY <1>2
<1>4. r \in Seq(Steps)
  BY DEF RxSteps
<1>5. /\ RxTodo' = r /\ AppTodo' = AppTodo /\ WpasTodo' = WpasTodo /\ TcpipTodo' = TcpipTodo
      /\ todo' \in [Threads -> Seq(Steps)]
  BY <1>1, <1>3, <1>4, DoLemma DEF WpasTodo, AppTodo, RxTodo, TcpipTodo, Threads
<1>6. /\ Sent' = Sent /\ OneSent' /\ OneIndication' /\ Indicated' = Indicated /\ Rejected' = Rejected
      /\ AppStage' = AppStage
  BY <1>1, <1>5, MailLemma DEF AppStage, wpasVars, IInv, Wants, Program, Hears, Indicating
<1>7. /\ Answers' = Answers /\ Starts' = Starts /\ Lowers' = Lowers /\ Leaves' = Leaves
      /\ Engaged' = Engaged
  BY <1>1, <1>5, WpasLemma DEF Engaged, wpasVars
<1>8. /\ ~Posts /\ ~SignalDue
      /\ Posts' <=> Has(r, "Post")
      /\ SignalDue' <=> Has(r, "Signal")
  <2>1. \A o : ~Has(<<>>, o)
    BY DEF Has
  <2> QED
    BY <1>1, <1>5, <2>1 DEF Posts, SignalDue
<1>9. Types'
  <2>1. link' \in {"none", "joining", "joined"} \/ link' = link
    BY <1>3 DEF Moves
  <2>2. leaving' \in BOOLEAN
    BY <1>1, <1>3 DEF Types, Moves
  <2> QED
    BY <1>1, <1>5, <2>1, <2>2 DEF Types, statusVars, netVars, wpasVars
<1>10. Wants'
  BY <1>1, <1>5, <1>6, <1>7 DEF IInv, Wants, Program, Registered, wpasVars, statusVars
<1>11. Does'
  BY <1>1, <1>5, <1>6, <1>7 DEF IInv, Does, Flagged, Joining, netVars, wpasVars
<1>12. Receiving'
  <2>1. ~Has(r, "Post") => Ends(r, "Post")
    BY DEF Has, Ends
  <2> QED
    BY <1>1, <1>3, <1>5, <2>1 DEF IInv, Hears, Receiving, Types, Moves
<1>13. Linked'
  BY <1>1, <1>3, <1>7 DEF IInv, Hears, Linked, Moves, wpasVars
<1>14. Indicating'
  <2>1. Posts' => link = "joining" /\ link' \in {"none", "joined"}
    BY <1>3, <1>8, FirmwareTable DEF Moves
  <2>2. Indicated' => link \in {"none", "joined"} /\ link' \in {"none", "joined"}
    BY <1>3, <1>6 DEF IInv, Hears, Indicating, Moves
  <2>3. Rejected' => link = "none" /\ link' = "none"
    BY <1>3, <1>6 DEF IInv, Hears, Indicating, Moves
  <2>4. link = "joining" => wpa = "associating" \/ Leaves
    BY DEF IInv, Hears, Linked
  <2>5. /\ wpa = "associating" \/ Leaves => ~scan
        /\ Leaves => wpa \in {"off", "disconnected", "scanning"}
    <3>1. Leaves => ~Engaged
      BY StayingLemma
    <3> QED
      BY <1>1, <3>1 DEF IInv, Does, Joining, Engaged, Types, WpaStates
  <2> QED
    BY <1>1, <1>6, <1>7, <2>1, <2>2, <2>3, <2>4, <2>5 DEF IInv, Hears, Indicating, wpasVars
<1>15. Signalling'
  <2>1. leaving => link = "none"
    BY <1>1 DEF IInv, Hears, Receiving, Types
  <2>2. SignalDue' => link' = "none" /\ ~Posts'
    BY <1>3, <1>8, <2>1 DEF Moves
  <2>3. signaled => link = "none"
    BY DEF IInv, Hears, Signalling
  <2>4. signaled => link' = "none" /\ ~Posts'
    BY <1>3, <1>8, <2>3 DEF Moves
  <2>5. link' # "joined" => link # "joined" \/ SignalDue'
    BY <1>3, <1>8 DEF Moves
  <2> QED
    BY <1>1, <1>5, <1>8, <2>2, <2>4, <2>5 DEF IInv, Hears, Signalling, wpasVars, netVars
<1>16. Doomed' = Doomed /\ <<>> # ConnectingPlan
  BY <1>6 DEF Doomed, ConnectingPlan
<1>17. link' = "joined" => link = "joined" \/ wpa # "completed"
  <2>1. wpa = "completed" => ~Leaves
    BY StayingLemma DEF Engaged
  <2> QED
    BY <1>3, <2>1 DEF IInv, Hears, Linked, Moves
<1>18. link' \in {"joining", "joined"} /\ RxTodo' # ConnectingPlan => link \in {"joining", "joined"}
  BY <1>3, <1>5 DEF Moves
<1>19. Says'
  BY <1>1, <1>5, <1>7, <1>16, <1>17, <1>18
  DEF IInv, Says, Configured, Reporting, Told, Reported, wpasVars, netVars, statusVars
<1> QED
  BY <1>9, <1>10, <1>11, <1>12, <1>13, <1>14, <1>15, <1>19 DEF IInv, Hears

\* The programs of the receiver.
LEMMA RxTable ==
  /\ ConnectingPlan # <<>> /\ Head(ConnectingPlan) = Status("CONNECTING") /\ Tail(ConnectingPlan) = <<>>
  /\ \A s \in AssocPlans : s # <<>> =>
       \/ /\ Head(s) = Step("AssocInd") /\ Tail(s) \in AssocPlans
          /\ <<Status("CONNECTED")>> \o Tail(s) \in AssocPlans
       \/ Head(s) = Status("CONNECTED") /\ Tail(s) \in AssocPlans
       \/ Head(s) = StepOf("Post", "assoc") /\ Tail(s) \in AssocPlans
  /\ ConnectingPlan \notin AssocPlans
<1>1. ConnectingPlan # <<>> /\ Head(ConnectingPlan) = Status("CONNECTING") /\ Tail(ConnectingPlan) = <<>>
  BY DEF ConnectingPlan
<1>2. ASSUME NEW s \in AssocPlans, s # <<>>
      PROVE  \/ /\ Head(s) = Step("AssocInd") /\ Tail(s) \in AssocPlans
                /\ <<Status("CONNECTED")>> \o Tail(s) \in AssocPlans
             \/ Head(s) = Status("CONNECTED") /\ Tail(s) \in AssocPlans
             \/ Head(s) = StepOf("Post", "assoc") /\ Tail(s) \in AssocPlans
  <2>1. CASE s = <<Step("AssocInd"), StepOf("Post", "assoc")>>
    <3>1. Head(s) = Step("AssocInd") /\ Tail(s) = <<StepOf("Post", "assoc")>>
      BY <2>1
    <3> QED
      BY <3>1, Append2 DEF AssocPlans
  <2>2. CASE s = <<Status("CONNECTED"), StepOf("Post", "assoc")>>
    BY <2>2 DEF AssocPlans
  <2>3. CASE s = <<StepOf("Post", "assoc")>>
    BY <2>3 DEF AssocPlans
  <2> QED
    BY <1>2, <2>1, <2>2, <2>3 DEF AssocPlans
<1>3. ConnectingPlan \notin AssocPlans
  BY <1>1, <1>2 DEF Status, StepOf, Step
<1> QED
  BY <1>1, <1>2, <1>3

\* The receiver takes a step that leads to no other.
LEMMA ReceiveLemma ==
  ASSUME IInv, RxTodo # <<>>, Head(RxTodo).op \in {"Post", "Signal"}, Then("rx", <<>>)
  PROVE  /\ Types /\ RxTodo \in Seq(RxSteps)
         /\ RxTodo' = Tail(RxTodo) /\ RxTodo' \in Seq(RxSteps)
         /\ AppTodo' = AppTodo /\ WpasTodo' = WpasTodo /\ TcpipTodo' = TcpipTodo
         /\ AppStage' = AppStage
         /\ todo' \in [Threads -> Seq(Steps)]
         /\ link # "joining" /\ RxTodo # ConnectingPlan
         /\ link = "joined" => Head(RxTodo) = StepOf("Post", "assoc") /\ RxTodo' \in AssocPlans
         /\ Posts <=> Head(RxTodo).op = "Post" \/ Posts'
         /\ SignalDue <=> Head(RxTodo).op = "Signal" \/ SignalDue'
         /\ Head(RxTodo).op = "Post" => RxTodo' = <<>> /\ ~Posts' /\ ~SignalDue'
         /\ Answers' = Answers /\ Starts' = Starts /\ Lowers' = Lowers /\ Leaves' = Leaves
<1>1. Types /\ RxTodo \in Seq(RxSteps) /\ RxTodo \in Seq(Steps) /\ Ends(RxTodo, "Post")
  BY DEF IInv, Hears, Receiving, RxSteps
<1>2. Tail(RxTodo) \in Seq(RxSteps) /\ Tail(RxTodo) \in Seq(Steps)
  BY <1>1, SequenceLemma
<1>3. <<>> \o Tail(RxTodo) = Tail(RxTodo) /\ <<>> \in Seq(Steps)
  BY <1>1, SequenceLemma
<1>4. /\ RxTodo' = <<>> \o Tail(RxTodo) /\ AppTodo' = AppTodo /\ WpasTodo' = WpasTodo
      /\ TcpipTodo' = TcpipTodo /\ todo' = [q \in Threads |-> todo'[q]]
  BY <1>1, ThenLemma DEF WpasTodo, AppTodo, RxTodo, TcpipTodo, Threads
<1>5. todo' \in [Threads -> Seq(Steps)]
  <2>1. \A q \in Threads : todo'[q] \in Seq(Steps)
    BY <1>1, <1>2, <1>3, <1>4 DEF Types, AppTodo, WpasTodo, RxTodo, TcpipTodo, Threads
  <2> QED
    BY <1>4, <2>1
<1>6. /\ Head(ConnectingPlan).op = "Status" /\ Step("AssocInd").op = "AssocInd"
      /\ Status("CONNECTED").op = "Status" /\ StepOf("Post", "assoc").op = "Post"
  BY RxTable DEF Status, StepOf, Step
<1>7. link # "joining" /\ RxTodo # ConnectingPlan
  BY <1>6 DEF IInv, Hears, Receiving
<1>8. link = "joined" => Head(RxTodo) = StepOf("Post", "assoc") /\ Tail(RxTodo) \in AssocPlans
  BY <1>6, RxTable DEF IInv, Hears, Receiving
<1>9. RxTodo' = Tail(RxTodo)
  BY <1>3, <1>4
<1>10. \A o : Has(RxTodo, o) <=> Head(RxTodo).op = o \/ Has(RxTodo', o)
  BY <1>1, <1>3, <1>9, HasLemma
<1>11. /\ Posts <=> Head(RxTodo).op = "Post" \/ Posts'
       /\ SignalDue <=> Head(RxTodo).op = "Signal" \/ SignalDue'
  BY <1>10 DEF Posts, SignalDue
<1>12. Head(RxTodo).op = "Post" => RxTodo' = <<>> /\ ~Posts' /\ ~SignalDue'
  <2>1. Head(RxTodo).op = "Post" => RxTodo' = <<>>
    BY <1>1, <1>9, EndsLemma
  <2>2. RxTodo' = <<>> => ~Posts' /\ ~SignalDue'
    BY DEF Posts, SignalDue, Has
  <2> QED
    BY <2>1, <2>2
<1>13. Answers' = Answers /\ Starts' = Starts /\ Lowers' = Lowers /\ Leaves' = Leaves
  BY <1>4, WpasLemma
<1>14. AppStage' = AppStage
  BY <1>4 DEF AppStage
<1> QED
  BY <1>1, <1>2, <1>4, <1>5, <1>7, <1>8, <1>9, <1>11, <1>12, <1>13, <1>14

\* wpa_ctrl_event_copy: the supplicant gets an indication by it.
LEMMA PostKeeps ==
  ASSUME IInv, Post
  PROVE  IInv'
<1>1. /\ RxTodo # <<>> /\ Head(RxTodo).op = "Post" /\ Then("rx", <<>>)
      /\ mail' = Append(mail, Head(RxTodo).arg)
      /\ UNCHANGED <<statusVars, netVars, wf_mode, wpa, disconnected, scan, signaled, airVars>>
  BY DEF Post, At, Arg, RxTodo
<1>2. /\ Types /\ RxTodo \in Seq(RxSteps) /\ RxTodo' \in Seq(RxSteps)
      /\ AppTodo' = AppTodo /\ WpasTodo' = WpasTodo /\ TcpipTodo' = TcpipTodo
      /\ AppStage' = AppStage
      /\ todo' \in [Threads -> Seq(Steps)]
      /\ link # "joining" /\ RxTodo # ConnectingPlan
      /\ link = "joined" => Head(RxTodo) = StepOf("Post", "assoc") /\ RxTodo' \in AssocPlans
      /\ Posts /\ ~Posts' /\ ~SignalDue' /\ RxTodo' = <<>>
      /\ Answers' = Answers /\ Starts' = Starts /\ Lowers' = Lowers /\ Leaves' = Leaves
  BY <1>1, ReceiveLemma
<1>3. Head(RxTodo).arg \in Indications
  <2>1. Head(RxTodo) \in RxSteps
    BY <1>1, <1>2, SequenceLemma
  <2> QED
    BY <1>1, <2>1 DEF RxSteps, Indications
<1>4. PICK m : m = Head(RxTodo).arg
  OBVIOUS
<1>5. /\ m \in Messages /\ m \in Indications /\ m \notin Commanded /\ \A c \in Commanded : m \notin {c}
      /\ mail' = Append(mail, m)
  BY <1>1, <1>3, <1>4 DEF Messages, Commanded, Indications
<1>6. /\ OneSent /\ OneIndication /\ ~Indicated /\ ~signaled
      /\ wpa \in {"off", "disconnected", "scanning", "associating"} /\ ~scan
      /\ link \in {"none", "joined"}
  BY <1>2 DEF IInv, Wants, Program, Hears, Indicating, Signalling
<1>7. /\ mail' \in Seq(Messages) /\ OneSent' /\ OneIndication'
      /\ \A c \in Commanded : Queued({c})' <=> Queued({c})
      /\ Rejected' => Rejected \/ m = "reject"
  BY <1>2, <1>5, <1>6, AppendLemma DEF OneSent, OneIndication, Indicated, Rejected
<1>8. Sent' = Sent
  <2>1. \A c \in Commanded : c \in Sent' <=> Queued({c})'
    BY DEF Sent, Queued
  <2>2. \A c \in Commanded : c \in Sent <=> Queued({c})
    BY DEF Sent, Queued
  <2>3. Sent \subseteq Commanded /\ Sent' \subseteq Commanded
    BY DEF Sent
  <2>4. \A c : c \in Sent' <=> c \in Sent
    BY <1>7, <2>1, <2>2, <2>3
  <2> QED
    BY <2>4, Zenon
<1>9. Rejected' => link = "none"
  <2>1. link = "joined" => m = "assoc"
    BY <1>2, <1>4 DEF StepOf
  <2> QED
    BY <1>6, <1>7, <2>1 DEF IInv, Hears, Indicating
<1>10. Doomed' = Doomed /\ Engaged' = Engaged
  BY <1>1, <1>2, <1>8 DEF Doomed, Engaged
<1>11. Types'
  BY <1>1, <1>2, <1>7 DEF Types, statusVars, netVars, airVars
<1>12. Wants'
  BY <1>1, <1>2, <1>7, <1>8 DEF IInv, Wants, Program, Registered, statusVars
<1>13. Does'
  BY <1>1, <1>2, <1>8, <1>10 DEF IInv, Does, Flagged, Joining, netVars
<1>14. Receiving' /\ Linked'
  <2>1. Ends(RxTodo', "Post")
    BY <1>2 DEF Ends
  <2> QED
    BY <1>1, <1>2, <1>10, <2>1 DEF IInv, Hears, Receiving, Linked, airVars
<1>15. Indicating' /\ Signalling'
  BY <1>1, <1>2, <1>6, <1>7, <1>9 DEF Indicating, Signalling, airVars
<1>16. Says'
  BY <1>1, <1>2, <1>10
  DEF IInv, Says, Configured, Reporting, Told, Reported, airVars, netVars, statusVars
<1> QED
  BY <1>11, <1>12, <1>13, <1>14, <1>15, <1>16 DEF IInv, Hears

\* wpa_handler_signal: the end of a link becomes a signal that is pending.
LEMMA SignalKeeps ==
  ASSUME IInv, Signal
  PROVE  IInv'
<1>1. /\ RxTodo # <<>> /\ Head(RxTodo).op = "Signal" /\ Then("rx", <<>>)
      /\ signaled' = (wpa # "off")
      /\ UNCHANGED <<statusVars, netVars, wf_mode, wpa, disconnected, scan, mail, airVars>>
  BY DEF Signal, At, RxTodo
<1>2. /\ Types /\ RxTodo \in Seq(RxSteps) /\ RxTodo' \in Seq(RxSteps)
      /\ AppTodo' = AppTodo /\ WpasTodo' = WpasTodo /\ TcpipTodo' = TcpipTodo
      /\ AppStage' = AppStage
      /\ todo' \in [Threads -> Seq(Steps)]
      /\ SignalDue
      /\ Posts <=> Head(RxTodo).op = "Post" \/ Posts'
      /\ Answers' = Answers /\ Starts' = Starts /\ Lowers' = Lowers /\ Leaves' = Leaves
  BY <1>1, ReceiveLemma
<1>3. link = "none" /\ ~Posts /\ ~Posts'
  BY <1>2 DEF IInv, Hears, Signalling
<1>4. Sent' = Sent /\ OneSent' /\ OneIndication' /\ Indicated' = Indicated /\ Rejected' = Rejected
  BY <1>1, MailLemma DEF IInv, Wants, Program, Hears, Indicating
<1>5. Doomed' = Doomed /\ Engaged' = Engaged
  BY <1>1, <1>2, <1>4 DEF Doomed, Engaged
<1>6. Types'
  BY <1>1, <1>2 DEF Types, statusVars, netVars, airVars
<1>7. Wants'
  BY <1>1, <1>2, <1>4 DEF IInv, Wants, Program, Registered, statusVars
<1>8. Does'
  BY <1>1, <1>2, <1>4, <1>5 DEF IInv, Does, Flagged, Joining, netVars
<1>9. Receiving' /\ Linked'
  <2>1. Ends(RxTodo', "Post")
    BY <1>3 DEF Posts, Has, Ends
  <2> QED
    BY <1>1, <1>2, <1>3, <2>1 DEF Receiving, Linked, airVars
<1>10. Indicating'
  BY <1>1, <1>2, <1>3, <1>4 DEF IInv, Hears, Indicating, airVars
<1>11. Signalling'
  BY <1>1, <1>3 DEF Signalling, airVars
<1>12. Says'
  BY <1>1, <1>2, <1>3, <1>5
  DEF IInv, Says, Configured, Reporting, Told, Reported, airVars, netVars, statusVars
<1> QED
  BY <1>6, <1>7, <1>8, <1>9, <1>10, <1>11, <1>12 DEF IInv, Hears
-----------------------------------------------------------------------------
(* The steps of the threads keep the invariant.                            *)

\* The tcpip thread reports the address.
LEMMA TcpipKeeps ==
  ASSUME IInv, ThreadStep("tcpip")
  PROVE  IInv'
<1>1. /\ TellPlan # <<>> /\ Head(TellPlan).op = "Status" /\ Head(TellPlan).arg = "GOT_IP"
      /\ Tail(TellPlan) = <<>>
      /\ ReportPlan # <<>> /\ Head(ReportPlan).op = "Report" /\ Head(ReportPlan).arg = "GOT_IP"
      /\ Tail(ReportPlan) = <<>> /\ ReportPlan # TellPlan
  BY DEF TellPlan, ReportPlan, Status, StepOf
<1>2. Types /\ "tcpip" \in Threads
  BY DEF IInv, Threads
<1>3. /\ TcpipTodo # <<>> /\ AppTodo' = AppTodo /\ WpasTodo' = WpasTodo /\ RxTodo' = RxTodo
      /\ Types' /\ UNCHANGED <<wf_mode, wpasVars, airVars>>
  BY <1>2, ThreadStepLemma DEF WpasTodo, AppTodo, RxTodo, TcpipTodo, Threads
<1>4. /\ Sent' = Sent /\ OneSent' /\ OneIndication' /\ Indicated' = Indicated /\ Rejected' = Rejected
      /\ AppStage' = AppStage /\ Doomed' = Doomed /\ Engaged' = Engaged
      /\ Answers' = Answers /\ Starts' = Starts /\ Lowers' = Lowers /\ Leaves' = Leaves
      /\ Posts' = Posts /\ SignalDue' = SignalDue
  <2>1. Sent' = Sent /\ OneSent' /\ OneIndication' /\ Indicated' = Indicated /\ Rejected' = Rejected
    BY <1>3, MailLemma DEF IInv, Wants, Program, Hears, Indicating, wpasVars
  <2>2. /\ Answers' = Answers /\ Starts' = Starts /\ Lowers' = Lowers /\ Leaves' = Leaves
        /\ Posts' = Posts /\ SignalDue' = SignalDue
    BY <1>3, WpasLemma, RxLemma
  <2> QED
    BY <1>3, <2>1, <2>2 DEF AppStage, Doomed, Engaged, wpasVars
<1>5. /\ ReportPlan \o <<>> = ReportPlan /\ <<>> \o <<>> = <<>>
  BY DEF ReportPlan
<1>6. \/ /\ TcpipTodo = TellPlan /\ g_connect_transient_status' = "GOT_IP"
         /\ TcpipTodo' = IF g_connect_transient_status # "GOT_IP" THEN ReportPlan ELSE <<>>
         /\ connect_status' = connect_status
      \/ /\ TcpipTodo = ReportPlan /\ TcpipTodo' = <<>>
         /\ g_connect_transient_status' = g_connect_transient_status
         /\ connect_status' = IF station_status_cb THEN "GOT_IP" ELSE connect_status
  <2>1. CASE TcpipTodo = TellPlan
    <3>1. SetStatus("tcpip")
      BY <1>1, <2>1, Dispatch DEF TcpipTodo
    <3>2. Then("tcpip", IF g_connect_transient_status # "GOT_IP" THEN ReportPlan ELSE <<>>)
      BY <1>1, <2>1, <3>1 DEF SetStatus, Arg, Kept, TcpipTodo, ReportPlan
    <3> QED
      BY <1>1, <1>2, <1>5, <2>1, <3>1, <3>2, ThenLemma DEF SetStatus, Arg, TcpipTodo
  <2>2. CASE TcpipTodo = ReportPlan
    <3>1. Report("tcpip")
      BY <1>1, <2>2, Dispatch DEF TcpipTodo
    <3>2. Then("tcpip", <<>>)
      BY <3>1 DEF Report
    <3> QED
      BY <1>1, <1>2, <1>5, <2>2, <3>1, <3>2, ThenLemma
      DEF Report, Arg, wifi_station_status_cb, Kept, TcpipTodo
  <2> QED
    BY <1>3, <2>1, <2>2 DEF IInv, Says, Reporting
<1>7. UNCHANGED netVars /\ station_status_cb' = station_status_cb
  <2>1. Head(TcpipTodo).op \in {"Status", "Report"}
    BY <1>1, <1>6
  <2> QED
    BY <2>1, Dispatch DEF SetStatus, Report, TcpipTodo
<1>8. Wants'
  BY <1>3, <1>4, <1>7 DEF IInv, Wants, Program, Registered, wpasVars
<1>9. Does'
  BY <1>3, <1>4, <1>7 DEF IInv, Does, Flagged, Joining, wpasVars, netVars
<1>10. Hears'
  <2>1. Receiving' /\ Linked'
    BY <1>3, <1>4 DEF IInv, Hears, Receiving, Linked, wpasVars, airVars
  <2>2. Indicating' /\ Signalling'
    BY <1>3, <1>4, <1>7 DEF IInv, Hears, Indicating, Signalling, wpasVars, airVars, netVars
  <2> QED
    BY <2>1, <2>2 DEF Hears
<1>11. wpa # "off" => station_status_cb
  BY DEF IInv, Wants, Registered
<1>12. Configured' /\ Reporting'
  BY <1>3, <1>4, <1>6, <1>7 DEF IInv, Says, Configured, Reporting, wpasVars, netVars
<1>13. Told'
  BY <1>1, <1>3, <1>4, <1>6, <1>11
  DEF IInv, Says, Told, Engaged, wpasVars, airVars
<1>14. link = "joined" => RxTodo # ConnectingPlan
  BY RxTable DEF IInv, Hears, Receiving
<1>15. Reported'
  <2>1. OverPlan \notin Quiet
    BY PlansDiffer DEF Quiet
  <2> QED
    BY <1>1, <1>3, <1>4, <1>6, <1>7, <1>11, <1>14, <2>1
    DEF IInv, Says, Told, Reported, Engaged, wpasVars, airVars, netVars
<1> QED
  BY <1>3, <1>8, <1>9, <1>10, <1>12, <1>13, <1>15 DEF IInv, Says

\* The receiver sets the status that the firmware's messages mean, and has it
\* reported.
LEMMA RxKeeps ==
  ASSUME IInv, ThreadStep("rx")
  PROVE  IInv'
<1>1. Types /\ "rx" \in Threads /\ RxTodo \in Seq(RxSteps)
  BY DEF IInv, Hears, Receiving, Threads
<1>2. /\ RxTodo # <<>> /\ AppTodo' = AppTodo /\ WpasTodo' = WpasTodo
      /\ Types' /\ UNCHANGED <<wf_mode, wpasVars, airVars>>
  BY <1>1, ThreadStepLemma DEF WpasTodo, AppTodo, RxTodo, TcpipTodo, Threads
<1>3. /\ Sent' = Sent /\ OneSent' /\ OneIndication' /\ Indicated' = Indicated /\ Rejected' = Rejected
      /\ AppStage' = AppStage /\ Doomed' = Doomed /\ Engaged' = Engaged
      /\ Answers' = Answers /\ Starts' = Starts /\ Lowers' = Lowers /\ Leaves' = Leaves
  <2>1. Sent' = Sent /\ OneSent' /\ OneIndication' /\ Indicated' = Indicated /\ Rejected' = Rejected
    BY <1>2, MailLemma DEF IInv, Wants, Program, Hears, Indicating, wpasVars
  <2>2. Answers' = Answers /\ Starts' = Starts /\ Lowers' = Lowers /\ Leaves' = Leaves
    BY <1>2, WpasLemma
  <2> QED
    BY <1>2, <2>1, <2>2 DEF AppStage, Doomed, Engaged, wpasVars
<1>4. Head(RxTodo) \in RxSteps /\ Tail(RxTodo) \in Seq(RxSteps) /\ <<>> \o Tail(RxTodo) = Tail(RxTodo)
  BY <1>1, <1>2, SequenceLemma
<1>5. \/ Head(RxTodo).op = "Status" /\ SetStatus("rx")
      \/ Head(RxTodo).op = "Report" /\ Report("rx")
      \/ Head(RxTodo).op = "AssocInd" /\ AssocInd("rx")
  BY <1>4, Dispatch DEF RxSteps, RxTodo
<1>6. UNCHANGED netVars /\ station_status_cb' = station_status_cb
  BY <1>4, Dispatch DEF RxSteps, RxTodo, SetStatus, Report, AssocInd, statusVars
<1>7. Head(RxTodo).op \in {"Status", "Report"} => Head(RxTodo).arg \in Statuses
  BY <1>4 DEF RxSteps, Steps
<1>8. \E r \in Seq(RxSteps) :
        /\ Then("rx", r)
        /\ \/ /\ Head(RxTodo).op = "Status" /\ g_connect_transient_status' = Head(RxTodo).arg
              /\ connect_status' = connect_status
              /\ Head(RxTodo).arg \notin Kept => r = <<>>
           \/ Head(RxTodo).op = "Report"
           \/ /\ Head(RxTodo).op = "AssocInd" /\ r \in {<<>>, <<Status("CONNECTED")>>}
              /\ UNCHANGED <<g_connect_transient_status, connect_status>>
  <2>1. \A v \in Statuses : <<StepOf("Report", v)>> \in Seq(RxSteps)
    <3>1. \A v \in Statuses : StepOf("Report", v) \in RxSteps
      BY StepsLemma DEF RxSteps
    <3> QED
      BY <3>1
  <2>2. <<Status("CONNECTED")>> \in Seq(RxSteps) /\ <<>> \in Seq(RxSteps)
    <3>1. Status("CONNECTED") \in RxSteps
      BY StepsLemma DEF RxSteps, Statuses
    <3> QED
      BY <3>1
  <2>3. CASE Head(RxTodo).op = "Status" /\ SetStatus("rx")
    BY <1>7, <2>1, <2>2, <2>3 DEF SetStatus, Arg, RxTodo
  <2>4. CASE Head(RxTodo).op = "Report" /\ Report("rx")
    BY <2>2, <2>4 DEF Report
  <2>5. CASE Head(RxTodo).op = "AssocInd" /\ AssocInd("rx")
    BY <2>2, <2>5 DEF AssocInd, statusVars
  <2> QED
    BY <1>5, <2>3, <2>4, <2>5
<1>9. PICK r \in Seq(RxSteps) :
        /\ Then("rx", r)
        /\ \/ /\ Head(RxTodo).op = "Status" /\ g_connect_transient_status' = Head(RxTodo).arg
              /\ connect_status' = connect_status
              /\ Head(RxTodo).arg \notin Kept => r = <<>>
           \/ Head(RxTodo).op = "Report"
           \/ /\ Head(RxTodo).op = "AssocInd" /\ r \in {<<>>, <<Status("CONNECTED")>>}
              /\ UNCHANGED <<g_connect_transient_status, connect_status>>
  BY <1>8
<1>10. RxTodo' = r \o Tail(RxTodo) /\ TcpipTodo' = TcpipTodo
  BY <1>1, <1>9, ThenLemma DEF RxTodo, TcpipTodo, Threads
<1>11. RxTodo' \in Seq(RxSteps)
  BY <1>4, <1>10
<1>12. link = "joining" => RxTodo' = <<>> /\ g_connect_transient_status' = "CONNECTING"
  <2>1. /\ Head(ConnectingPlan).op = "Status" /\ Head(ConnectingPlan).arg = "CONNECTING"
        /\ "CONNECTING" \notin Kept /\ Tail(ConnectingPlan) = <<>>
    BY RxTable DEF Status, StepOf, Kept
  <2>2. link = "joining" => RxTodo = ConnectingPlan
    BY <1>2 DEF IInv, Hears, Receiving
  <2> QED
    BY <1>4, <1>9, <1>10, <2>1, <2>2
<1>13. link = "joined" =>
         /\ RxTodo' \in AssocPlans /\ RxTodo # ConnectingPlan
         /\ connect_status' = connect_status
         /\ \/ g_connect_transient_status' = "CONNECTED"
            \/ g_connect_transient_status' = g_connect_transient_status
  <2> SUFFICES ASSUME link = "joined"
               PROVE  /\ RxTodo' \in AssocPlans /\ RxTodo # ConnectingPlan
                      /\ connect_status' = connect_status
                      /\ \/ g_connect_transient_status' = "CONNECTED"
                         \/ g_connect_transient_status' = g_connect_transient_status
    OBVIOUS
  <2>1. RxTodo \in AssocPlans
    BY DEF IInv, Hears, Receiving
  <2>2. /\ Step("AssocInd").op = "AssocInd" /\ StepOf("Post", "assoc").op = "Post"
        /\ Status("CONNECTED").op = "Status" /\ Status("CONNECTED").arg = "CONNECTED"
        /\ "CONNECTED" \notin Kept
    BY DEF Status, StepOf, Step, Kept
  <2>3. \/ /\ Head(RxTodo).op = "AssocInd" /\ Tail(RxTodo) \in AssocPlans
           /\ <<Status("CONNECTED")>> \o Tail(RxTodo) \in AssocPlans
        \/ /\ Head(RxTodo).op = "Status" /\ Head(RxTodo).arg = "CONNECTED"
           /\ Tail(RxTodo) \in AssocPlans
    BY <1>2, <1>5, <2>1, <2>2, RxTable
  <2>4. RxTodo # ConnectingPlan
    BY <2>1, RxTable
  <2>5. CASE /\ Head(RxTodo).op = "AssocInd" /\ Tail(RxTodo) \in AssocPlans
             /\ <<Status("CONNECTED")>> \o Tail(RxTodo) \in AssocPlans
    BY <1>4, <1>9, <1>10, <2>4, <2>5
  <2>6. CASE /\ Head(RxTodo).op = "Status" /\ Head(RxTodo).arg = "CONNECTED"
             /\ Tail(RxTodo) \in AssocPlans
    BY <1>4, <1>9, <1>10, <2>2, <2>4, <2>6
  <2> QED
    BY <2>3, <2>5, <2>6
<1>14. /\ Posts' <=> Posts
       /\ SignalDue' <=> SignalDue
       /\ Ends(RxTodo', "Post")
  <2>1. "Post" \in Ops \ Following /\ "Signal" \in Ops \ Following
    BY DEF Ops, Following
  <2>2. Head(todo["rx"]).op # "Post" /\ Head(todo["rx"]).op # "Signal"
    BY <1>5 DEF RxTodo
  <2>3. Ends(todo["rx"], "Post")
    BY DEF IInv, Hears, Receiving, RxTodo
  <2>4. /\ Has(todo'["rx"], "Post") <=> Has(todo["rx"], "Post")
        /\ Has(todo'["rx"], "Signal") <=> Has(todo["rx"], "Signal")
        /\ Ends(todo'["rx"], "Post")
    BY <1>1, <2>1, <2>2, <2>3, HeldLemma
  <2> QED
    BY <2>4 DEF Posts, SignalDue, RxTodo
<1>15. Wants'
  BY <1>2, <1>3, <1>6 DEF IInv, Wants, Program, Registered, wpasVars
<1>16. Does'
  BY <1>2, <1>3, <1>6 DEF IInv, Does, Flagged, Joining, wpasVars, netVars
<1>17. Hears'
  <2>1. Receiving' /\ Linked'
    BY <1>2, <1>3, <1>11, <1>12, <1>13, <1>14
    DEF IInv, Hears, Receiving, Linked, wpasVars, airVars
  <2>2. Indicating' /\ Signalling'
    BY <1>2, <1>3, <1>6, <1>14 DEF IInv, Hears, Indicating, Signalling, wpasVars, airVars, netVars
  <2> QED
    BY <2>1, <2>2 DEF Hears
<1>18. Configured' /\ Reporting'
  BY <1>2, <1>3, <1>6, <1>10 DEF IInv, Says, Configured, Reporting, wpasVars, netVars
<1>19. Told'
  BY <1>2, <1>3, <1>10, <1>12, <1>13 DEF IInv, Says, Told, wpasVars, airVars
<1>20. Reported'
  BY <1>2, <1>3, <1>6, <1>10, <1>13 DEF IInv, Says, Reported, wpasVars, airVars, netVars
<1> QED
  BY <1>2, <1>15, <1>16, <1>17, <1>18, <1>19, <1>20 DEF IInv, Says


\* A step that it takes by itself is no answer, and tells the firmware nothing.
LEMMA BusyLemma ==
  ASSUME ThreadStep("wpas")
  PROVE  Head(WpasTodo).op \notin {"Ack", "Deauth"} /\ WpasTodo # <<>> /\ WpasTodo # AckPlan
<1>1. Head(WpasTodo).op \notin {"Ack", "Deauth"} /\ WpasTodo # <<>>
  BY Dispatch DEF WpasTodo
<1>2. Head(AckPlan).op = "Ack"
  BY PlanTable DEF Step
<1> QED
  BY <1>1, <1>2

\* What a step of the supplicant's thread that is setting up the interface does.
LEMMA PlanStep ==
  ASSUME IInv, ThreadStep("wpas"), wpa = "completed"
  PROVE  \/ /\ WpasTodo = StartPlan /\ WpasTodo' = Plan1 /\ sta_ip_start_flag' = TRUE
            /\ UNCHANGED <<netif, statusVars>> /\ TcpipTodo' = TcpipTodo
         \/ /\ sta_ip_start_flag' = sta_ip_start_flag /\ UNCHANGED statusVars
            /\ TcpipTodo' = TcpipTodo \/ TcpipTodo = <<>>
            /\ \/ WpasTodo = Plan1 /\ WpasTodo' = Plan2
               \/ WpasTodo = Plan2 /\ WpasTodo' = Plan3
               \/ WpasTodo = Plan3 /\ WpasTodo' = Plan4 /\ netif'.cb = TRUE
               \/ WpasTodo = Plan4 /\ WpasTodo' = Plan5 /\ netif'.cb = netif.cb /\ netif'.up = TRUE
               \/ /\ WpasTodo = Plan5 /\ WpasTodo' = <<>>
                  /\ netif'.cb = netif.cb /\ netif'.up = netif.up /\ netif'.dhcp = "selecting"
<1>1. Types /\ "wpas" \in Threads /\ "wpas" # "tcpip" /\ WpasTodo # <<>>
  BY Dispatch DEF IInv, Threads, WpasTodo
<1>2. WpasTodo \in {StartPlan, Plan1, Plan2, Plan3, Plan4, Plan5}
  <2>1. WpasTodo # AckPlan
    BY BusyLemma
  <2> QED
    BY <1>1, <2>1 DEF IInv, Does, Joining, Quiet
<1>3. CASE WpasTodo = StartPlan
  <2>1. Head(WpasTodo).op = "IpStart" /\ Tail(WpasTodo) = <<>>
    BY <1>3, PlanTable DEF Step
  <2>2. sta_ip_start("wpas")
    BY <2>1, Dispatch DEF WpasTodo
  <2>3. ~sta_ip_start_flag
    BY <1>3 DEF IInv, Does, Joining
  <2>4. Then("wpas", Plan1) /\ sta_ip_start_flag' = TRUE /\ UNCHANGED <<netif, statusVars>>
    BY <2>2, <2>3, PlanTable DEF sta_ip_start
  <2>5. Plan1 \o <<>> = Plan1
    BY DEF Plan1
  <2>6. WpasTodo' = Plan1 /\ TcpipTodo' = TcpipTodo
    BY <1>1, <2>1, <2>4, <2>5, ThenLemma DEF WpasTodo, TcpipTodo, Threads
  <2> QED
    BY <1>3, <2>4, <2>6
<1>4. CASE WpasTodo \in {Plan1, Plan2, Plan3, Plan4, Plan5}
  <2>1. \/ WpasTodo = Plan1 /\ Head(WpasTodo).op = "NetDown" /\ Tail(WpasTodo) = Plan2
        \/ WpasTodo = Plan2 /\ Head(WpasTodo).op = "CbNull" /\ Tail(WpasTodo) = Plan3
        \/ WpasTodo = Plan3 /\ Head(WpasTodo).op = "CbSet" /\ Tail(WpasTodo) = Plan4
        \/ WpasTodo = Plan4 /\ Head(WpasTodo).op = "NetUp" /\ Tail(WpasTodo) = Plan5
        \/ WpasTodo = Plan5 /\ Head(WpasTodo).op = "DhcpStart" /\ Tail(WpasTodo) = <<>>
    <3>1. \A o : Step(o).op = o
      BY DEF Step
    <3> QED
      BY <1>4, <3>1, PlanTable
  <2>2. Head(WpasTodo).op \in {"NetDown", "CbNull", "CbSet", "NetUp", "DhcpStart"}
    BY <2>1
  <2>3. Interface("wpas")
    BY <2>2, Dispatch DEF WpasTodo
  <2>4. /\ WpasTodo' = Tail(WpasTodo)
        /\ TcpipTodo' = TcpipTodo \/ TcpipTodo = <<>>
        /\ UNCHANGED <<sta_ip_start_flag, statusVars>>
        /\ Head(WpasTodo).op = "CbSet" => netif' = [netif EXCEPT !.cb = TRUE]
        /\ Head(WpasTodo).op = "NetUp" => netif' = [netif EXCEPT !.up = TRUE]
        /\ Head(WpasTodo).op = "DhcpStart" => netif' = [netif EXCEPT !.dhcp = "selecting"]
    BY <1>1, <2>3, InterfaceLemma DEF WpasTodo, TcpipTodo
  <2>5. /\ [netif EXCEPT !.cb = TRUE].cb = TRUE
        /\ [netif EXCEPT !.up = TRUE].up = TRUE /\ [netif EXCEPT !.up = TRUE].cb = netif.cb
        /\ [netif EXCEPT !.dhcp = "selecting"].dhcp = "selecting"
        /\ [netif EXCEPT !.dhcp = "selecting"].up = netif.up
        /\ [netif EXCEPT !.dhcp = "selecting"].cb = netif.cb
    BY <1>1, NetifLemma DEF Types
  <2> QED
    BY <2>1, <2>4, <2>5
<1> QED
  BY <1>2, <1>3, <1>4

\* The supplicant's thread scans, joins, sets up the interface and takes it down.
LEMMA WpasKeeps ==
  ASSUME IInv, ThreadStep("wpas")
  PROVE  IInv'
<1>1. Types /\ "wpas" \in Threads /\ "wpas" # "tcpip"
  BY DEF IInv, Threads
<1>2. /\ WpasTodo # <<>> /\ AppTodo' = AppTodo /\ RxTodo' = RxTodo
      /\ Types' /\ UNCHANGED <<wf_mode, wpasVars, airVars>>
      /\ \/ TcpipTodo' = TcpipTodo
         \/ TcpipTodo = <<>> /\ TcpipTodo' \in {<<>>, TellPlan}
  BY <1>1, ThreadStepLemma DEF WpasTodo, AppTodo, RxTodo, TcpipTodo, Threads
<1>3. /\ Sent' = Sent /\ OneSent' /\ OneIndication' /\ Indicated' = Indicated /\ Rejected' = Rejected
      /\ AppStage' = AppStage /\ Doomed' = Doomed /\ Engaged' = Engaged
      /\ Posts' = Posts /\ SignalDue' = SignalDue
  <2>1. Sent' = Sent /\ OneSent' /\ OneIndication' /\ Indicated' = Indicated /\ Rejected' = Rejected
    BY <1>2, MailLemma DEF IInv, Wants, Program, Hears, Indicating, wpasVars
  <2> QED
    BY <1>2, <2>1, RxLemma DEF AppStage, Doomed, Engaged, wpasVars
<1>4. station_status_cb => station_status_cb'
  BY Dispatch DEF SetStatus, Report, ReconnectOver, ReportNow, SetStatusCb, AssocInd, sta_ip_down,
     sta_ip_start, Interface, statusVars
<1>5. /\ Answers' <=> Answers
      /\ Leaves' <=> Leaves
      /\ Starts' => Starts
      /\ Head(WpasTodo).op = "IpStart" => Starts
      /\ Head(WpasTodo).op # "IpDown" /\ Lowers => Lowers'
      /\ Ends(WpasTodo', "Ack")
  <2>1. \A o \in {"Ack", "Deauth", "IpStart", "IpDown"} : o \in Ops \ Following
    BY DEF Ops, Following
  <2>2. Head(todo["wpas"]).op \notin {"Ack", "Deauth"}
    BY BusyLemma DEF WpasTodo
  <2>3. Ends(todo["wpas"], "Ack")
    BY DEF IInv, Wants, Program, WpasTodo
  <2>4. /\ Has(todo'["wpas"], "Ack") <=> Has(todo["wpas"], "Ack")
        /\ Has(todo'["wpas"], "Deauth") <=> Has(todo["wpas"], "Deauth")
        /\ Has(todo'["wpas"], "IpStart") => Has(todo["wpas"], "IpStart")
        /\ Head(todo["wpas"]).op # "IpDown" /\ Has(todo["wpas"], "IpDown") =>
             Has(todo'["wpas"], "IpDown")
        /\ Ends(todo'["wpas"], "Ack")
    BY <1>1, <2>1, <2>2, <2>3, HeldLemma
  <2>5. Head(WpasTodo).op = "IpStart" => Has(WpasTodo, "IpStart")
    <3>1. WpasTodo \in Seq(Steps) /\ <<>> \in Seq(Steps)
      BY <1>1 DEF Types, WpasTodo
    <3> QED
      BY <1>2, <3>1, HasLemma
  <2> QED
    BY <2>4, <2>5 DEF Answers, Leaves, Starts, Lowers, WpasTodo
<1>6. Wants'
  BY <1>2, <1>3, <1>4, <1>5 DEF IInv, Wants, Program, Registered, wpasVars
<1>7. WpasTodo' \in Quiet /\ wpa = "completed" => WpasTodo' = <<>> /\ netif'.dhcp = "selecting"
  BY PlanStep, PlansDiffer DEF Quiet
<1>8. Hears'
  <2>1. Receiving' /\ Linked'
    BY <1>2, <1>3, <1>5 DEF IInv, Hears, Receiving, Linked, wpasVars, airVars
  <2>2. Indicating' /\ Signalling'
    BY <1>2, <1>3, <1>5, <1>7 DEF IInv, Hears, Indicating, Signalling, wpasVars, airVars
  <2> QED
    BY <2>1, <2>2 DEF Hears
<1>9. wpa # "completed" /\ sta_ip_start_flag' => sta_ip_start_flag /\ Head(WpasTodo).op # "IpDown"
  <2>1. wpa # "completed" => Head(WpasTodo).op # "IpStart"
    BY <1>5 DEF IInv, Does, Joining
  <2> QED
    BY <2>1, Dispatch DEF WpasTodo, sta_ip_down, Interface, netVars
<1>10. Flagged'
  BY <1>2, <1>3, <1>5, <1>9 DEF IInv, Does, Flagged, wpasVars
<1>11. /\ wpa = "associating" => WpasTodo' = <<>> /\ g_connect_transient_status' = "SCAN_OVER"
       /\ wpa # "associated"
  <2>1. WpasTodo \notin Quiet
    BY BusyLemma DEF Quiet
  <2>2. wpa # "associated"
    BY <2>1 DEF IInv, Does, Joining
  <2>3. ASSUME wpa = "associating"
        PROVE  WpasTodo' = <<>> /\ g_connect_transient_status' = "SCAN_OVER"
    <3>1. WpasTodo = OverPlan
      BY <2>1, <2>3 DEF IInv, Does, Joining
    <3>2. /\ Head(WpasTodo).op = "Status" /\ Head(WpasTodo).arg = "SCAN_OVER"
          /\ Tail(WpasTodo) = <<>> /\ "SCAN_OVER" \notin Kept
      BY <3>1, PlanTable DEF Status, StepOf, Kept
    <3>3. SetStatus("wpas")
      BY <3>2, Dispatch DEF WpasTodo
    <3>4. Then("wpas", <<>>) /\ g_connect_transient_status' = "SCAN_OVER"
      BY <3>2, <3>3 DEF SetStatus, Arg, WpasTodo
    <3>5. <<>> \o <<>> = <<>>
      OBVIOUS
    <3> QED
      BY <1>1, <3>2, <3>4, <3>5, ThenLemma DEF WpasTodo
  <2> QED
    BY <2>2, <2>3
<1>12. WpasTodo' # StartPlan
  <2>1. wpa = "completed" => WpasTodo' # StartPlan
    BY PlanStep, PlansDiffer
  <2>2. wpa # "completed" => ~Starts'
    BY <1>5 DEF IInv, Does, Joining
  <2> QED
    BY <2>1, <2>2, PlansLemma DEF Starts
<1>13. Joining'
  <2>1. wpa = "completed" => WpasTodo' \in {<<>>, Plan1, Plan2, Plan3, Plan4, Plan5}
    BY PlanStep
  <2> QED
    BY <1>2, <1>3, <1>5, <1>11, <1>12, <2>1 DEF IInv, Does, Joining, Quiet, wpasVars
<1>14. ASSUME wpa = "completed", ~Doomed
       PROVE  /\ sta_ip_start_flag'
              /\ WpasTodo' \in {<<>>, Plan5, Plan4} => netif'.cb
              /\ WpasTodo' \in {<<>>, Plan5} => netif'.up
              /\ WpasTodo' = <<>> => netif'.dhcp = "selecting"
  <2>1. WpasTodo # StartPlan =>
          /\ sta_ip_start_flag
          /\ WpasTodo \in {Plan5, Plan4} => netif.cb
          /\ WpasTodo = Plan5 => netif.up
    BY <1>14 DEF IInv, Says, Configured
  <2>2. CASE WpasTodo = StartPlan /\ WpasTodo' = Plan1 /\ sta_ip_start_flag' = TRUE
    BY <2>2, PlansDiffer
  <2>3. CASE sta_ip_start_flag' = sta_ip_start_flag /\ WpasTodo = Plan1 /\ WpasTodo' = Plan2
    BY <2>1, <2>3, PlansDiffer
  <2>4. CASE sta_ip_start_flag' = sta_ip_start_flag /\ WpasTodo = Plan2 /\ WpasTodo' = Plan3
    BY <2>1, <2>4, PlansDiffer
  <2>5. CASE /\ sta_ip_start_flag' = sta_ip_start_flag /\ WpasTodo = Plan3 /\ WpasTodo' = Plan4
             /\ netif'.cb = TRUE
    BY <2>1, <2>5, PlansDiffer
  <2>6. CASE /\ sta_ip_start_flag' = sta_ip_start_flag /\ WpasTodo = Plan4 /\ WpasTodo' = Plan5
             /\ netif'.cb = netif.cb /\ netif'.up = TRUE
    BY <2>1, <2>6, PlansDiffer
  <2>7. CASE /\ sta_ip_start_flag' = sta_ip_start_flag /\ WpasTodo = Plan5 /\ WpasTodo' = <<>>
             /\ netif'.cb = netif.cb /\ netif'.up = netif.up /\ netif'.dhcp = "selecting"
    BY <2>1, <2>7, PlansDiffer
  <2> QED
    BY <1>14, <2>2, <2>3, <2>4, <2>5, <2>6, <2>7, PlanStep
<1>15. Configured'
  <2>1. wpa = "completed" => WpasTodo' # AckPlan
    BY PlanStep, PlansDiffer
  <2> QED
    BY <1>2, <1>3, <1>14, <2>1 DEF Configured, wpasVars, Quiet
<1>16. Told'
  <2>1. TcpipTodo = ReportPlan => TcpipTodo' = ReportPlan
    BY <1>2 DEF ReportPlan
  <2>2. wpa = "completed" => WpasTodo # OverPlan /\ UNCHANGED statusVars
    BY PlanStep, PlansDiffer
  <2>3. "SCAN_OVER" # "GOT_IP"
    OBVIOUS
  <2> QED
    BY <1>2, <1>3, <1>11, <2>1, <2>2, <2>3
    DEF IInv, Says, Told, Engaged, wpasVars, airVars, statusVars
<1>17. Reported'
  BY <1>2, <1>3, <1>7 DEF Reported, wpasVars
<1>18. Reporting'
  BY <1>2 DEF IInv, Says, Reporting
<1> QED
  BY <1>2, <1>6, <1>8, <1>10, <1>13, <1>15, <1>16, <1>17, <1>18 DEF IInv, Does, Says
\* What a step of the application's thread does, which is not a request.
LEMMA AppStep ==
  ASSUME IInv, ThreadStep("app")
  PROVE  \/ /\ AppTodo' \in Points
            /\ AppStage \in {"free", "left"} /\ AppStage' = AppStage
            /\ UNCHANGED netVars /\ UNCHANGED <<station_status_cb, connect_status>>
            /\ TcpipTodo' = TcpipTodo /\ g_connect_transient_status' = "IDLE"
         \/ /\ AppTodo' \in Points
            /\ AppStage \in {"stopping", "beginning", "begun", "lowered"}
            /\ AppStage' \in {"stopping", "begun", "lowered"}
            /\ sta_ip_start_flag' => sta_ip_start_flag
            /\ AppStage' = "lowered" => AppStage = "lowered" \/ ~sta_ip_start_flag'
            /\ station_status_cb => station_status_cb'
            /\ AppStage' \in {"begun", "lowered"} =>
                 AppStage \in {"begun", "lowered"} \/ station_status_cb'
<1>1. Types /\ "app" \in Threads /\ "app" # "tcpip" /\ AppTodo # <<>> /\ AppTodo \in Points
  BY Dispatch DEF IInv, Wants, Program, Threads, AppTodo
<1>2. /\ S.op = "Status" /\ S.arg = "IDLE" /\ D.op = "Cmd" /\ E.op = "Cmd" /\ C.op = "Cmd"
      /\ X.op = "Cmd" /\ \A o : Step(o).op = o
  BY DEF S, D, E, C, X, Cmd, Status, StepOf, Step
<1>3. Head(AppTodo).op \notin {"Cmd", "Wait"}
  BY Dispatch DEF AppTodo
<1>4. <<>> \o Tail(AppTodo) = Tail(AppTodo)
  BY <1>1, SequenceLemma DEF Types, AppTodo
<1>5. \A r : Then("app", r) => AppTodo' = r \o Tail(AppTodo) /\ TcpipTodo' = TcpipTodo
  BY <1>1, ThenLemma DEF AppTodo, TcpipTodo, Threads
<1>6. ASSUME Head(AppTodo) = S
      PROVE  /\ AppTodo' = Tail(AppTodo) /\ TcpipTodo' = TcpipTodo
             /\ UNCHANGED netVars /\ UNCHANGED <<station_status_cb, connect_status>>
             /\ g_connect_transient_status' = "IDLE"
  <2>1. SetStatus("app") /\ UNCHANGED netVars
    BY <1>2, <1>6, Dispatch DEF AppTodo
  <2>2. Then("app", <<>>) /\ g_connect_transient_status' = "IDLE"
    BY <1>2, <1>6, <2>1 DEF SetStatus, Arg, AppTodo, Kept
  <2> QED
    BY <1>4, <1>5, <2>1, <2>2 DEF SetStatus
<1>7. ASSUME Head(AppTodo) = Step("IpDown")
      PROVE  /\ AppTodo' \in {Tail(AppTodo), Lowering \o Tail(AppTodo)}
             /\ sta_ip_start_flag' = FALSE /\ station_status_cb' = station_status_cb
  <2>1. sta_ip_down("app")
    BY <1>2, <1>7, Dispatch DEF AppTodo
  <2>2. Then("app", IF sta_ip_start_flag THEN Lowering ELSE <<>>)
    BY <2>1 DEF sta_ip_down, Lowering
  <2> QED
    BY <1>4, <1>5, <2>1, <2>2 DEF sta_ip_down, statusVars
<1>8. ASSUME Head(AppTodo) \in {Step("NetDown"), Step("CbNull"), Step("DhcpStop")}
      PROVE  /\ AppTodo' = Tail(AppTodo)
             /\ sta_ip_start_flag' = sta_ip_start_flag /\ station_status_cb' = station_status_cb
  <2>1. Interface("app")
    BY <1>2, <1>8, Dispatch DEF AppTodo
  <2> QED
    BY <1>1, <2>1, InterfaceLemma DEF AppTodo, statusVars
<1>9. CASE AppTodo \in Free
  BY <1>1, <1>6, <1>9, FreeTable, StageLemma DEF AppStage, Free, Points
<1>10. CASE AppTodo \in Stopping
  <2>1. AppTodo' \in Stopping /\ sta_ip_start_flag' \in {FALSE, sta_ip_start_flag}
        /\ station_status_cb' = station_status_cb
    <3>1. CASE Head(AppTodo) = S /\ Tail(AppTodo) \in Stopping
      BY <1>6, <3>1 DEF netVars
    <3>2. CASE /\ Head(AppTodo) = Step("IpDown")
               /\ Tail(AppTodo) \in Stopping /\ Lowering \o Tail(AppTodo) \in Stopping
      BY <1>7, <3>2
    <3>3. CASE /\ Head(AppTodo) \in {Step("NetDown"), Step("CbNull"), Step("DhcpStop")}
               /\ Tail(AppTodo) \in Stopping
      BY <1>8, <3>3
    <3>4. Head(AppTodo) # X
      BY <1>2, <1>3
    <3> QED
      BY <1>10, <3>1, <3>2, <3>3, <3>4, StoppingTable
  <2> QED
    BY <1>10, <2>1, StageLemma DEF AppStage, Points
<1>11. CASE AppTodo \in Beginning
  <2>1. Head(AppTodo).op = "SetStatusCb"
    BY <1>2, <1>11, BeginningTable
  <2>2. SetStatusCb("app") /\ UNCHANGED netVars
    BY <2>1, Dispatch DEF AppTodo
  <2>3. AppTodo' \in Begun
    <3>1. Then("app", <<>>) \/ Then("app", <<Step("ReportNow")>>)
      BY <2>2 DEF SetStatusCb
    <3>2. AppTodo' \in {Tail(AppTodo), <<Step("ReportNow")>> \o Tail(AppTodo)}
      BY <1>4, <1>5, <3>1
    <3> QED
      BY <1>11, <3>2, BeginningTable
  <2> QED
    BY <1>11, <2>2, <2>3, StageLemma DEF AppStage, Points, SetStatusCb, netVars
<1>12. CASE AppTodo \in Begun
  <2>1. CASE Head(AppTodo) = Step("ReportNow") /\ Tail(AppTodo) \in Begun
    <3>1. ReportNow("app") /\ UNCHANGED netVars
      BY <1>2, <2>1, Dispatch DEF AppTodo
    <3>2. AppTodo' \in Begun
      BY <1>4, <1>5, <2>1, <3>1 DEF ReportNow
    <3> QED
      BY <1>12, <3>1, <3>2, StageLemma DEF AppStage, Points, ReportNow, netVars
  <2>2. CASE /\ Head(AppTodo) = Step("IpDown")
             /\ Tail(AppTodo) \in Lowered /\ Lowering \o Tail(AppTodo) \in Lowered
    BY <1>7, <1>12, <2>2, StageLemma DEF AppStage, Points
  <2> QED
    BY <1>12, <2>1, <2>2, BegunTable
<1>13. CASE AppTodo \in Lowered
  <2>1. /\ Head(AppTodo) \in {Step("NetDown"), Step("CbNull"), Step("DhcpStop")}
        /\ Tail(AppTodo) \in Lowered
    BY <1>2, <1>3, <1>13, LoweredTable
  <2> QED
    BY <1>8, <1>13, <2>1, StageLemma DEF AppStage, Points
<1>14. CASE AppTodo \in Left
  <2>1. Head(AppTodo) = S /\ Tail(AppTodo) \in Left
    BY <1>2, <1>3, <1>14, LeftTable
  <2> QED
    BY <1>6, <1>14, <2>1, StageLemma DEF AppStage, Points
<1>15. AppTodo \notin WaitD \cup WaitE \cup WaitC \cup Finishing
  BY <1>2, <1>3, WaitTable, FinishingTable
<1> QED
  BY <1>1, <1>9, <1>10, <1>11, <1>12, <1>13, <1>14, <1>15 DEF Points

\* The application's thread takes the station down, or begins to connect it.
LEMMA AppThreadKeeps ==
  ASSUME IInv, ThreadStep("app")
  PROVE  IInv'
<1>1. Types /\ "app" \in Threads /\ "app" # "tcpip"
  BY DEF IInv, Threads
<1>2. /\ WpasTodo' = WpasTodo /\ RxTodo' = RxTodo
      /\ Types' /\ UNCHANGED <<wf_mode, wpasVars, airVars>>
      /\ \/ TcpipTodo' = TcpipTodo
         \/ TcpipTodo = <<>> /\ TcpipTodo' \in {<<>>, TellPlan}
      /\ netif'.dhcp = "bound" => netif.dhcp = "bound"
  BY <1>1, ThreadStepLemma DEF WpasTodo, AppTodo, RxTodo, TcpipTodo, Threads
<1>3. /\ Sent' = Sent /\ OneSent' /\ OneIndication' /\ Indicated' = Indicated /\ Rejected' = Rejected
      /\ Answers' = Answers /\ Starts' = Starts /\ Lowers' = Lowers /\ Leaves' = Leaves
      /\ Posts' = Posts /\ SignalDue' = SignalDue /\ Engaged' = Engaged
  <2>1. /\ Sent' = Sent /\ OneSent' /\ OneIndication'
        /\ Indicated' = Indicated /\ Rejected' = Rejected
    BY <1>2, MailLemma DEF IInv, Wants, Program, Hears, Indicating, wpasVars
  <2>2. /\ Answers' = Answers /\ Starts' = Starts /\ Lowers' = Lowers /\ Leaves' = Leaves
        /\ Posts' = Posts /\ SignalDue' = SignalDue
    BY <1>2, WpasLemma, RxLemma
  <2> QED
    BY <1>2, <2>1, <2>2 DEF Engaged, wpasVars
<1>4. Sent = {} /\ ~Answers
  <2>1. AppStage \notin {"waitD", "waitE", "waitC"}
    BY AppStep
  <2> QED
    BY <2>1 DEF IInv, Wants, Program
<1>5. (sta_ip_start_flag' => sta_ip_start_flag) /\ (station_status_cb => station_status_cb')
  BY AppStep DEF netVars
<1>6. Wants'
  <2>1. AppTodo' \in Points /\ AppStage' \notin {"waitD", "waitE", "waitC"}
    BY AppStep
  <2>2. Program'
    BY <1>2, <1>3, <1>4, <2>1 DEF IInv, Wants, Program
  <2>3. Registered'
    BY <1>2, <1>5, AppStep DEF IInv, Wants, Registered, wpasVars
  <2> QED
    BY <2>2, <2>3 DEF Wants
<1>7. Does'
  <2>1. Flagged'
    BY <1>2, <1>3, <1>4, <1>5, AppStep DEF IInv, Does, Flagged, wpasVars
  <2>2. Joining'
    BY <1>2, <1>3, <1>5 DEF IInv, Does, Joining, wpasVars
  <2> QED
    BY <2>1, <2>2 DEF Does
<1>8. Hears'
  <2>1. Receiving' /\ Linked'
    BY <1>2, <1>3 DEF IInv, Hears, Receiving, Linked, wpasVars, airVars
  <2>2. Indicating' /\ Signalling'
    BY <1>2, <1>3 DEF IInv, Hears, Indicating, Signalling, wpasVars, airVars
  <2> QED
    BY <2>1, <2>2 DEF Hears
<1>9. Reporting'
  BY <1>2 DEF IInv, Says, Reporting
<1>10. CASE Doomed'
  BY <1>9, <1>2, <1>6, <1>7, <1>8, <1>10 DEF IInv, Says, Configured, Told, Reported
<1>11. CASE ~Doomed'
  <2>1. /\ AppStage' = AppStage /\ UNCHANGED netVars /\ UNCHANGED <<station_status_cb, connect_status>>
        /\ TcpipTodo' = TcpipTodo /\ g_connect_transient_status' = "IDLE"
    BY <1>11, AppStep DEF Doomed
  <2>2. ~Doomed /\ "IDLE" # "GOT_IP"
    BY <1>3, <1>11, <2>1 DEF Doomed
  <2>3. Configured' /\ Told' /\ Reported'
    BY <1>2, <2>1, <2>2 DEF IInv, Says, Configured, Told, Reported, wpasVars, airVars, netVars
  <2> QED
    BY <1>2, <1>6, <1>7, <1>8, <1>9, <2>3 DEF IInv, Says
<1> QED
  BY <1>10, <1>11

\* DHCP gets an address, or loses it.
LEMMA DhcpKeeps ==
  ASSUME IInv, Dhcp, UNCHANGED <<wf_mode, wpasVars, airVars>>
  PROVE  IInv'
<1>1. /\ Types /\ "tcpip" \in Threads /\ netif \in Netifs /\ TcpipTodo = <<>>
      /\ UNCHANGED <<sta_ip_start_flag, statusVars>>
  BY DEF IInv, Types, Threads, Dhcp, DhcpBind, DhcpLost, TcpipTodo
<1>2. /\ netif' \in Netifs /\ netif'.up = netif.up /\ netif'.cb = netif.cb
      /\ \/ /\ netif'.dhcp = "bound" /\ netif.up /\ link = "joined"
            /\ todo' = [todo EXCEPT !["tcpip"] = IF netif.cb THEN TellPlan ELSE <<>>]
         \/ netif'.dhcp = "selecting" /\ todo' = todo
  <2>1. CASE DhcpBind /\ link = "joined" /\ wpa = "completed"
    <3>1. netif' = [netif EXCEPT !.dhcp = "bound"] /\ netif.up
      BY <2>1 DEF DhcpBind
    <3>2. netif' \in Netifs
      BY <1>1, <3>1, Zenon DEF Netifs
    <3>3. netif'.dhcp = "bound" /\ netif'.up = netif.up /\ netif'.cb = netif.cb
      BY <1>1, <3>1 DEF Netifs
    <3> QED
      BY <2>1, <3>1, <3>2, <3>3 DEF DhcpBind, wm_netif_status_callback, TellPlan
  <2>2. CASE DhcpLost
    BY <1>1, <2>2, NetifLemma DEF DhcpLost
  <2> QED
    BY <2>1, <2>2 DEF Dhcp
<1>3. TellPlan \in Seq(Steps) /\ <<>> \in Seq(Steps)
  BY StepsLemma DEF TellPlan, Statuses
<1>4. /\ AppTodo' = AppTodo /\ WpasTodo' = WpasTodo /\ RxTodo' = RxTodo
      /\ \/ /\ netif'.dhcp = "bound" /\ netif.up /\ link = "joined"
            /\ TcpipTodo' = IF netif.cb THEN TellPlan ELSE <<>>
         \/ netif'.dhcp = "selecting" /\ TcpipTodo' = TcpipTodo
      /\ todo' \in [Threads -> Seq(Steps)]
  <2>1. CASE /\ netif'.dhcp = "bound" /\ netif.up /\ link = "joined"
             /\ todo' = [todo EXCEPT !["tcpip"] = IF netif.cb THEN TellPlan ELSE <<>>]
    BY <1>1, <1>3, <2>1, DoLemma DEF WpasTodo, AppTodo, RxTodo, TcpipTodo, Threads
  <2>2. CASE netif'.dhcp = "selecting" /\ todo' = todo
    BY <1>1, <2>2 DEF Types, WpasTodo, AppTodo, RxTodo, TcpipTodo
  <2> QED
    BY <1>2, <2>1, <2>2
<1>5. /\ Sent' = Sent /\ OneSent' /\ OneIndication' /\ Indicated' = Indicated /\ Rejected' = Rejected
      /\ AppStage' = AppStage /\ Doomed' = Doomed /\ Engaged' = Engaged
      /\ Answers' = Answers /\ Starts' = Starts /\ Lowers' = Lowers /\ Leaves' = Leaves
      /\ Posts' = Posts /\ SignalDue' = SignalDue
  <2>1. /\ Sent' = Sent /\ OneSent' /\ OneIndication'
        /\ Indicated' = Indicated /\ Rejected' = Rejected
    BY MailLemma DEF IInv, Wants, Program, Hears, Indicating, wpasVars
  <2>2. /\ Answers' = Answers /\ Starts' = Starts /\ Lowers' = Lowers /\ Leaves' = Leaves
        /\ Posts' = Posts /\ SignalDue' = SignalDue
    BY <1>4, WpasLemma, RxLemma
  <2> QED
    BY <1>4, <2>1, <2>2 DEF AppStage, Doomed, Engaged, wpasVars
<1>6. Types'
  BY <1>1, <1>2, <1>4 DEF Types, statusVars, wpasVars, airVars
<1>7. Wants'
  BY <1>1, <1>4, <1>5 DEF IInv, Wants, Program, Registered, wpasVars, statusVars
<1>8. Does'
  BY <1>1, <1>4, <1>5 DEF IInv, Does, Flagged, Joining, wpasVars
<1>9. Hears'
  <2>1. Receiving' /\ Linked'
    BY <1>4, <1>5 DEF IInv, Hears, Receiving, Linked, wpasVars, airVars
  <2>2. Indicating'
    BY <1>4, <1>5 DEF IInv, Hears, Indicating, wpasVars, airVars
  <2>3. Signalling'
    BY <1>4, <1>5 DEF IInv, Hears, Signalling, wpasVars, airVars
  <2> QED
    BY <2>1, <2>2, <2>3 DEF Hears
<1>10. Configured'
  BY <1>1, <1>2, <1>4, <1>5 DEF IInv, Says, Configured, wpasVars
<1>11. Reporting'
  BY <1>1, <1>4 DEF Reporting
<1>12. Told'
  BY <1>1, <1>4, <1>5 DEF IInv, Says, Told, wpasVars, airVars, statusVars, ReportPlan
<1>13. Reported'
  <2>1. StartPlan \notin Quiet
    BY PlansDiffer DEF Quiet
  <2>2. wpa = "completed" /\ ~Doomed /\ WpasTodo \in Quiet => netif.cb
    BY <2>1 DEF IInv, Says, Configured
  <2> QED
    BY <1>1, <1>4, <1>5, <2>2 DEF Reported, wpasVars, airVars, statusVars
<1> QED
  BY <1>6, <1>7, <1>8, <1>9, <1>10, <1>11, <1>12, <1>13 DEF IInv, Says
-----------------------------------------------------------------------------
(* The invariant, and the properties.                                      *)

LEMMA InitIInv == Init => IInv
<1> SUFFICES ASSUME Init
             PROVE  IInv
  OBVIOUS
<1>1. /\ todo = [p \in Threads |-> <<>>] /\ wpa = "off" /\ mail = <<>> /\ link = "none"
      /\ disconnected = FALSE /\ scan = FALSE /\ signaled = FALSE /\ leaving = FALSE
      /\ sta_ip_start_flag = FALSE /\ station_status_cb = FALSE
      /\ g_connect_transient_status = "IDLE" /\ g_connect_abnormal_status = "IDLE"
      /\ connect_status = "IDLE" /\ netif = [up |-> FALSE, cb |-> FALSE, dhcp |-> "off"]
  BY DEF Init, StatusInit, NetInit
<1>2. AppTodo = <<>> /\ WpasTodo = <<>> /\ RxTodo = <<>> /\ TcpipTodo = <<>>
  BY <1>1 DEF AppTodo, WpasTodo, RxTodo, TcpipTodo, Threads
<1>3. /\ <<>> \in Seq(Steps) /\ <<>> \in Seq(RxSteps)
      /\ <<>> \in Seq(Messages) /\ <<>> \in AssocPlans /\ <<>> \in Points /\ <<>> \in Free
  BY DEF AssocPlans, Points, Free
<1>4. /\ Sent = {} /\ OneSent /\ OneIndication /\ ~Indicated /\ ~Rejected
  BY <1>1 DEF Sent, OneSent, OneIndication, One, Indicated, Rejected, Queued
<1>5. \A o : ~Has(<<>>, o) /\ Ends(<<>>, o)
  BY DEF Has, Ends
<1>6. ~Answers /\ ~Starts /\ ~Lowers /\ ~Leaves /\ ~Posts /\ ~SignalDue
  BY <1>2, <1>5 DEF Answers, Starts, Lowers, Leaves, Posts, SignalDue
<1>7. AppStage = "free" /\ ~Doomed
  BY <1>2, <1>3, <1>4, StageLemma DEF AppStage, Doomed
<1>8. netif \in Netifs
  BY <1>1 DEF Netifs
<1>9. Types
  BY <1>1, <1>3, <1>8 DEF Types, Statuses, WpaStates
<1>10. Wants
  BY <1>1, <1>2, <1>3, <1>4, <1>7, <1>5, <1>6 DEF Wants, Program, Registered
<1>11. Does
  BY <1>1, <1>2, <1>6, PlansDiffer DEF Does, Flagged, Joining
<1>12. Hears
  BY <1>1, <1>2, <1>3, <1>4, <1>5, <1>6
  DEF Hears, Receiving, Linked, Indicating, Signalling
<1>13. Says
  BY <1>1, <1>2 DEF Says, Configured, Reporting, Told, Reported, Engaged
<1> QED
  BY <1>9, <1>10, <1>11, <1>12, <1>13 DEF IInv

LEMMA StepIInv == IInv /\ [Next]_vars => IInv'
<1> SUFFICES ASSUME IInv, [Next]_vars
             PROVE  IInv'
  OBVIOUS
<1>1. CASE App
  BY <1>1, AppKeeps
<1>2. CASE Request
  BY <1>2, RequestKeeps
<1>3. CASE Ack
  BY <1>3, AckKeeps
<1>4. CASE Eloop
  BY <1>4, DisconnectKeeps, EnableKeeps, DisableKeeps, ConnectKeeps, ConnectIndKeeps, DisassocKeeps,
     DeauthKeeps, KeysAgreedKeeps, AuthTimeoutKeeps
  DEF Eloop, Commands
<1>5. CASE Scan
  BY <1>5, ScanKeeps
<1>6. CASE Rx \/ RxLeft
  BY <1>6, FirmwareKeeps
<1>7. CASE Post
  BY <1>7, PostKeeps
<1>8. CASE Signal
  BY <1>8, SignalKeeps
<1>9. CASE \E p \in Threads : ThreadStep(p)
  BY <1>9, AppThreadKeeps, WpasKeeps, RxKeeps, TcpipKeeps DEF Threads
<1>10. CASE Dhcp /\ UNCHANGED <<wf_mode, wpasVars, airVars>>
  BY <1>10, DhcpKeeps
<1>11. CASE UNCHANGED vars
  <2>1. /\ Types /\ AppTodo' = AppTodo /\ WpasTodo' = WpasTodo /\ RxTodo' = RxTodo
        /\ TcpipTodo' = TcpipTodo /\ todo' = todo
        /\ UNCHANGED <<statusVars, netVars, wf_mode, wpasVars, airVars>>
    BY <1>11 DEF IInv, vars, AppTodo, WpasTodo, RxTodo, TcpipTodo
  <2>2. /\ Sent' = Sent /\ OneSent' /\ OneIndication'
        /\ Indicated' = Indicated /\ Rejected' = Rejected
    BY <2>1, MailLemma DEF IInv, Wants, Program, Hears, Indicating, wpasVars
  <2>3. /\ Answers' = Answers /\ Starts' = Starts /\ Lowers' = Lowers /\ Leaves' = Leaves
        /\ Posts' = Posts /\ SignalDue' = SignalDue
    BY <2>1, WpasLemma, RxLemma
  <2>4. AppStage' = AppStage /\ Doomed' = Doomed /\ Engaged' = Engaged
    BY <2>1, <2>2 DEF AppStage, Doomed, Engaged, wpasVars
  <2>5. Types'
    BY <2>1 DEF Types, statusVars, netVars, wpasVars, airVars
  <2>6. Wants'
    BY <2>1, <2>2, <2>3, <2>4 DEF IInv, Wants, Program, Registered, wpasVars, statusVars
  <2>7. Does'
    BY <2>1, <2>2, <2>3, <2>4 DEF IInv, Does, Flagged, Joining, wpasVars, netVars
  <2>8. Hears'
    <3>1. Receiving' /\ Linked'
      BY <2>1, <2>3, <2>4 DEF IInv, Hears, Receiving, Linked, wpasVars, airVars
    <3>2. Indicating' /\ Signalling'
      BY <2>1, <2>2, <2>3 DEF IInv, Hears, Indicating, Signalling, wpasVars, airVars, netVars
    <3> QED
      BY <3>1, <3>2 DEF Hears
  <2>9. Says'
    BY <2>1, <2>4 DEF IInv, Says, Configured, Reporting, Told, Reported, wpasVars, airVars,
       netVars, statusVars
  <2> QED
    BY <2>5, <2>6, <2>7, <2>8, <2>9 DEF IInv
<1> QED
  BY <1>1, <1>2, <1>3, <1>4, <1>5, <1>6, <1>7, <1>8, <1>9, <1>10, <1>11 DEF Next

\* The inductive invariant: where the four threads are in their programs, what
\* they wait for, and what the flag, the interface and the statuses are then.
THEOREM StationInvariant == Spec => []IInv
<1> QED
  BY InitIInv, StepIInv, PTL DEF Spec

\* A station at rest: nobody is on the way to take it down.
LEMMA SettledLemma ==
  ASSUME IInv, Settled
  PROVE  /\ AppTodo = <<>> /\ WpasTodo = <<>> /\ RxTodo = <<>> /\ TcpipTodo = <<>>
         /\ ~signaled /\ ~Doomed /\ ~SignalDue /\ ~Lowers
         /\ WpasTodo \in Quiet /\ WpasTodo # StartPlan
<1>1. /\ AppTodo = <<>> /\ WpasTodo = <<>> /\ RxTodo = <<>> /\ TcpipTodo = <<>>
      /\ ~signaled /\ mail = <<>>
  BY DEF Settled, Idle, Threads, AppTodo, WpasTodo, RxTodo, TcpipTodo
<1>2. Sent = {}
  BY <1>1 DEF Sent
<1>3. AppStage = "free"
  BY <1>1, StageLemma DEF AppStage, Free
<1>4. \A o : ~Has(<<>>, o)
  BY DEF Has
<1> QED
  BY <1>1, <1>2, <1>3, <1>4, PlansDiffer DEF Doomed, SignalDue, Lowers, Quiet

\* A connected station with an address has a link: the loss of the link over
\* which it got the address is a signal that is pending (wpa_handler_signal,
\* wpa_driver_disassoc_sig_handler) or a step of the receiver, and no indication
\* of an earlier link (wpa_supplicant_event_assoc) makes up for it.
THEOREM LossesAreNoticed == Spec => []LossNoticed
<1>1. ASSUME IInv, Settled, wpa = "completed", netif.dhcp = "bound"
      PROVE  link = "joined"
  BY <1>1, SettledLemma DEF IInv, Hears, Signalling
<1>2. IInv => LossNoticed
  BY <1>1 DEF LossNoticed
<1> QED
  BY <1>2, StationInvariant, PTL

\* sta_ip_start_flag is set only for a station that is connected, or that was
\* stopped while it connected (supplicant_main_exit does not call sta_ip_down).
THEOREM FlagsMeanConnected == Spec => []FlagMeansConnected
<1>1. IInv => FlagMeansConnected
  BY SettledLemma DEF FlagMeansConnected, IInv, Does, Flagged
<1> QED
  BY <1>1, StationInvariant, PTL

\* The interface of a connected station is up, has its callback and asks for an
\* address, whichever threads called sta_ip_start and sta_ip_down before.
THEOREM ConnectedIsConfigured == Spec => []ConnectedMeansConfigured
<1>1. IInv => ConnectedMeansConfigured
  BY SettledLemma DEF ConnectedMeansConfigured, IInv, Says, Configured
<1> QED
  BY <1>1, StationInvariant, PTL

\* The application of a connected station with an address was told GOT_IP last
\* (mhdr_set_station_status, wifi_station_status_cb).
THEOREM AddressesAreReported == Spec => []AddressIsReported
<1>1. ASSUME IInv, Settled, wpa = "completed", netif.dhcp = "bound"
      PROVE  connect_status = "GOT_IP"
  <2>1. link = "joined"
    BY <1>1, SettledLemma DEF IInv, Hears, Signalling
  <2>2. <<>> # TellPlan /\ <<>> # ReportPlan
    BY DEF TellPlan, ReportPlan
  <2> QED
    BY <1>1, <2>1, <2>2, SettledLemma DEF IInv, Says, Reported
<1>2. IInv => AddressIsReported
  BY <1>1 DEF AddressIsReported
<1> QED
  BY <1>2, StationInvariant, PTL
=============================================================================
