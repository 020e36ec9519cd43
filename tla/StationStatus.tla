--------------------------- MODULE StationStatus ---------------------------
(***************************************************************************)
(* The status of the wifi station (rw_msg_rx.c) and the copy of it that the *)
(* adapter reports to the application (tkl_wifi.c).  The status is stored   *)
(* without interrupts, the callback is called after them: the threads that  *)
(* set it (the application's, the supplicant's, the one that receives the   *)
(* messages of the firmware, and tcpip) interleave between the two.         *)
(*                                                                         *)
(* A thread is the sequence of steps it still has to take, todo[p].  Each   *)
(* action takes the first step of one thread; a test in the code is made    *)
(* when its step is taken, and puts the steps it leads to in its place.     *)
(***************************************************************************)
EXTENDS Naturals, Sequences, SequencesExt

VARIABLES
  todo,
  g_connect_transient_status,
  g_connect_abnormal_status,
  station_status_cb,   \* whether the adapter has registered its callback
  connect_status       \* what tkl_wifi_station_get_status maps to its result

statusVars == <<g_connect_transient_status, g_connect_abnormal_status, station_status_cb,
                connect_status>>

Threads == {"app", "wpas", "rx", "tcpip"}

\* rw_evt_type, in the order of the enumeration.
RwEvt == <<"IDLE", "SCANNING", "SCAN_OVER", "CONNECTING", "BEACON_LOSE", "PASSWORD_WRONG",
           "NO_AP_FOUND", "ASSOC_FULL", "DISCONNECTED", "CONNECT_FAILED", "DHCP_FAILED",
           "CONNECTED", "GOT_IP">>
Before(v, w) == \E i, j \in DOMAIN RwEvt : i < j /\ RwEvt[i] = v /\ RwEvt[j] = w

Step(op) == [op |-> op, arg |-> "none"]
StepOf(op, arg) == [op |-> op, arg |-> arg]
Status(v) == StepOf("Status", v)

At(p, op) == todo[p] # <<>> /\ Head(todo[p]).op = op
Arg(p) == Head(todo[p]).arg
\* Thread p has taken its first step, which leads to the given ones.
Then(p, steps) == todo' = [todo EXCEPT ![p] = steps \o Tail(@)]

\* mhdr_is_station_abnormal_status
Abnormal(v) == v \in {"PASSWORD_WRONG", "NO_AP_FOUND", "BEACON_LOSE", "ASSOC_FULL",
                      "DISCONNECTED", "CONNECT_FAILED"}

\* mhdr_set_abnormal_status: the first of two kinds of failure stays for ever.
AbnormalAfter(v) ==
  IF Abnormal(v) /\ g_connect_abnormal_status \notin {"PASSWORD_WRONG", "NO_AP_FOUND"}
  THEN v ELSE g_connect_abnormal_status

\* The cases of _wifi_station_status_cb that keep the status; it ignores the others.
Kept == {"GOT_IP", "CONNECT_FAILED", "NO_AP_FOUND", "ASSOC_FULL", "PASSWORD_WRONG",
         "DHCP_FAILED", "DISCONNECTED", "BEACON_LOSE", "SCANNING"}

wifi_station_status_cb(v) ==
  connect_status' = IF station_status_cb /\ v \in Kept THEN v ELSE connect_status

StatusInit ==
  /\ todo = [p \in Threads |-> <<>>]
  /\ g_connect_transient_status = "IDLE" /\ g_connect_abnormal_status = "IDLE"
  /\ station_status_cb = FALSE /\ connect_status = "IDLE"

\* mhdr_set_station_status; a report that the callback ignores is left out.
SetStatus(p) ==
  LET v == Arg(p)
  IN  /\ At(p, "Status")
      /\ g_connect_transient_status' = v
      /\ g_connect_abnormal_status' = AbnormalAfter(v)
      /\ Then(p, IF g_connect_transient_status # v /\ v \in Kept THEN <<StepOf("Report", v)>> ELSE <<>>)
      /\ UNCHANGED <<station_status_cb, connect_status>>

Report(p) ==
  /\ At(p, "Report")
  /\ wifi_station_status_cb(Arg(p))
  /\ Then(p, <<>>)
  /\ UNCHANGED <<g_connect_transient_status, g_connect_abnormal_status, station_status_cb>>

\* mhdr_set_station_status_when_reconnect_over; the status that its callback
\* gets is read again.
ReconnectOver(p) ==
  LET over == g_connect_transient_status \notin {"CONNECTED", g_connect_abnormal_status}
  IN  /\ At(p, "ReconnectOver")
      /\ g_connect_transient_status' =
           IF over THEN g_connect_abnormal_status ELSE g_connect_transient_status
      /\ Then(p, IF over THEN <<Step("ReportNow")>> ELSE <<>>)
      /\ UNCHANGED <<g_connect_abnormal_status, station_status_cb, connect_status>>

ReportNow(p) ==
  /\ At(p, "ReportNow")
  /\ wifi_station_status_cb(g_connect_transient_status)
  /\ Then(p, <<>>)
  /\ UNCHANGED <<g_connect_transient_status, g_connect_abnormal_status, station_status_cb>>

\* mhdr_set_station_status_cb, by the first tkl_wifi_station_connect
\* (set_station_flag).
SetStatusCb(p) ==
  /\ At(p, "SetStatusCb")
  /\ station_status_cb' = TRUE
  /\ Then(p, IF station_status_cb THEN <<>> ELSE <<Step("ReportNow")>>)
  /\ UNCHANGED <<g_connect_transient_status, g_connect_abnormal_status, connect_status>>

\* SM_ASSOC_IND
AssocInd(p) ==
  /\ At(p, "AssocInd")
  /\ Then(p, IF Before(g_connect_transient_status, "CONNECTED")
             THEN <<Status("CONNECTED")>> ELSE <<>>)
  /\ UNCHANGED statusVars

StatusStep(p) ==
  SetStatus(p) \/ Report(p) \/ ReconnectOver(p) \/ ReportNow(p) \/ SetStatusCb(p) \/ AssocInd(p)
=============================================================================
