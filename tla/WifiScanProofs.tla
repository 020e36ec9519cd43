--------------------------- MODULE WifiScanProofs ---------------------------
(***************************************************************************)
(* Proofs about WifiScan, for any number of threads and semaphores, and    *)
(* whether scans are slow or not.                                          *)
(***************************************************************************)
EXTENDS WifiScan, TLAPS

\* Where a call owns a semaphore.
Owning == {"start", "wait", "blocked", "release"}

\* While no two calls have overlapped: what OneScanOneSemaphore says, and that
\* scanHandle is NULL when no call is busy, which is what lets the next one in.
Serial ==
  /\ \A t, u \in Threads : Busy(t) /\ Busy(u) => t = u
  /\ \A t \in Threads :
       /\ pc[t] \in Owning => Live = {scanHandle}
       /\ pc[t] = "blocked" => waits[t] = scanHandle
       /\ pc[t] = "create" => scanHandle = NULL
       /\ pc[t] = "clear" => scanHandle # NULL
  /\ (\A t \in Threads : pc[t] \notin Owning) => Live = {}
  /\ (\A t \in Threads : ~Busy(t)) => scanHandle = NULL

\* A thread that is blocked is blocked on a semaphore.
Blocked == \A t \in Threads : pc[t] = "blocked" => waits[t] \in Handles

IInv == TypeOK /\ Blocked /\ (~overlapped => Serial)

USE WifiScanAssumption

LEMMA InitIInv == Init => IInv
<1> SUFFICES ASSUME Init PROVE IInv
  OBVIOUS
<1>1. TypeOK
  BY DEF Init, TypeOK
<1>2. Live = {} /\ \A t \in Threads : pc[t] = "idle"
  BY DEF Init, Live
<1>3. Serial /\ Blocked
  BY <1>2 DEF Serial, Blocked, Owning, Busy, Init
<1> QED
  BY <1>1, <1>3 DEF IInv

\* Every step keeps the types, and who is blocked is so on a semaphore.
LEMMA StepTypes == TypeOK /\ Blocked /\ [Next]_vars => TypeOK' /\ Blocked'
<1> SUFFICES ASSUME TypeOK, Blocked, [Next]_vars PROVE TypeOK' /\ Blocked'
  OBVIOUS
<1> USE DEF TypeOK, Blocked, Goto, Answers
<1>1. ASSUME NEW t \in Threads, Enter(t) PROVE TypeOK' /\ Blocked'
  BY <1>1 DEF Enter
<1>2. ASSUME NEW t \in Threads, Create(t) PROVE TypeOK' /\ Blocked'
  BY <1>2 DEF Create, Fresh
<1>3. ASSUME NEW t \in Threads, Start(t) PROVE TypeOK' /\ Blocked'
  BY <1>3 DEF Start
<1>4. ASSUME NEW t \in Threads, Wait(t) PROVE TypeOK' /\ Blocked'
  BY <1>4 DEF Wait
<1>5. ASSUME NEW t \in Threads, Take(t) PROVE TypeOK' /\ Blocked'
  BY <1>5 DEF Take
<1>6. ASSUME NEW t \in Threads, TimeOut(t) PROVE TypeOK' /\ Blocked'
  BY <1>6 DEF TimeOut
<1>7. ASSUME NEW t \in Threads, Release(t) PROVE TypeOK' /\ Blocked'
  BY <1>7 DEF Release
<1>8. ASSUME NEW t \in Threads, Clear(t) PROVE TypeOK' /\ Blocked'
  BY <1>8 DEF Clear
<1>9. ASSUME NEW t \in Threads, Results(t) PROVE TypeOK' /\ Blocked'
  BY <1>9 DEF Results
<1>10. CASE Complete
  BY <1>10 DEF Complete
<1>11. CASE Post
  BY <1>11 DEF Post
<1>12. CASE Abort
  BY <1>12 DEF Abort
<1>13. CASE UNCHANGED vars
  BY <1>13 DEF vars
<1> QED
  BY <1>1, <1>2, <1>3, <1>4, <1>5, <1>6, <1>7, <1>8, <1>9, <1>10, <1>11, <1>12, <1>13
  DEF Next, Step

\* An overlap is never forgotten.
LEMMA OverlapStays ==
  ASSUME TypeOK, [Next]_vars, ~overlapped'
  PROVE  ~overlapped
<1>1. ASSUME NEW t \in Threads, Enter(t) PROVE ~overlapped
  BY <1>1 DEF Enter, TypeOK
<1>2. ASSUME NEW t \in Threads, Step(t) PROVE overlapped' = overlapped
  BY <1>2 DEF Step, Create, Start, Wait, Take, TimeOut, Release, Clear, Results
<1>3. CASE Complete \/ Abort \/ Post \/ UNCHANGED vars
  BY <1>3 DEF Complete, Post, Abort, vars
<1> QED
  BY <1>1, <1>2, <1>3 DEF Next

LEMMA StepIInv == IInv /\ [Next]_vars => IInv'
<1> SUFFICES ASSUME IInv, [Next]_vars, ~overlapped' PROVE Serial'
  BY StepTypes DEF IInv
<1>0. TypeOK /\ TypeOK' /\ Blocked
  BY StepTypes DEF IInv
<1>a. ~overlapped
  BY <1>0, OverlapStays
<1>b. Serial
  BY <1>a DEF IInv
<1> USE <1>0, <1>b DEF TypeOK, Serial, Busy, Owning, Live, Goto, Answers
<1>1. ASSUME NEW t \in Threads, Enter(t) PROVE Serial'
  <2>1. UNCHANGED <<scanHandle, sem, waits>> /\ Live' = Live
    BY <1>1 DEF Enter
  <2>2. CASE ~MayEnter(t)
    <3>1. pc' = pc
      BY <1>1, <2>2 DEF Enter
    <3> QED
      BY <2>1, <3>1
  <2>3. CASE MayEnter(t)
    <3>1. \A u \in Threads : ~Busy(u)
      BY <1>1, <2>3, <1>0 DEF Enter
    <3>2. pc[t] = "idle" /\ pc' = [pc EXCEPT ![t] = "create"] /\ scanHandle = NULL
      BY <1>1, <2>3 DEF Enter, MayEnter
    <3>3. Live = {}
      BY <3>1
    <3> QED
      BY <2>1, <3>1, <3>2, <3>3
  <2> QED
    BY <2>2, <2>3
<1>2. ASSUME NEW t \in Threads, Create(t) PROVE Serial'
  BY <1>2 DEF Create, Fresh
<1>3. ASSUME NEW t \in Threads, Start(t) PROVE Serial'
  BY <1>3 DEF Start
<1>4. ASSUME NEW t \in Threads, Wait(t) PROVE Serial'
  BY <1>4 DEF Wait
<1>5. ASSUME NEW t \in Threads, Take(t) PROVE Serial'
  BY <1>5 DEF Take
<1>6. ASSUME NEW t \in Threads, TimeOut(t) PROVE Serial'
  BY <1>6 DEF TimeOut
<1>7. ASSUME NEW t \in Threads, Release(t) PROVE Serial'
  BY <1>7 DEF Release
<1>8. ASSUME NEW t \in Threads, Clear(t) PROVE Serial'
  BY <1>8 DEF Clear
<1>9. ASSUME NEW t \in Threads, Results(t) PROVE Serial'
  BY <1>9 DEF Results
<1>10. CASE Complete
  BY <1>10 DEF Complete
<1>11. CASE Post
  <2>1. Live' = Live
    BY <1>11 DEF Post
  <2> QED
    BY <1>11, <2>1 DEF Post
<1>12. CASE Abort
  BY <1>12 DEF Abort
<1>13. CASE UNCHANGED vars
  BY <1>13 DEF vars
<1> QED
  BY <1>1, <1>2, <1>3, <1>4, <1>5, <1>6, <1>7, <1>8, <1>9, <1>10, <1>11, <1>12, <1>13
  DEF Next, Step

\* The invariant holds in every reachable state of tkl_wifi_scan_ap, scan_cb
\* and the supplicant.
THEOREM ScanInvariant == Spec => []IInv
  BY InitIInv, StepIInv, PTL DEF Spec

\* Until two calls of tkl_wifi_scan_ap have been past its test at once, scans
\* exclude each other, scanHandle is the semaphore of the one under way, and
\* none is left behind.
THEOREM ScansOwnOneSemaphore == Spec => []OneScanOneSemaphore
<1>1. IInv => OneScanOneSemaphore
  BY DEF IInv, Serial, Owning, OneScanOneSemaphore
<1> QED
  BY <1>1, ScanInvariant, PTL

\* A second call of tkl_wifi_scan_ap gets past the test only while the first
\* is between the test and the semaphore it creates.
THEOREM ScansOverlapOnlyBeforeCreate == Spec => OverlapOnlyBeforeCreate
<1>1. IInv /\ [Next]_vars
      => [overlapped' /\ ~overlapped => \E t \in Threads : pc[t] = "create"]_vars
  <2> SUFFICES ASSUME IInv, Next, overlapped', ~overlapped
               PROVE  \E t \in Threads : pc[t] = "create"
    OBVIOUS
  <2>1. PICK t \in Threads : Enter(t)
    BY DEF Next, Step, Create, Start, Wait, Take, TimeOut, Release, Clear, Results,
           Complete, Post, Abort
  <2>2. PICK u \in Threads : Busy(u) /\ scanHandle = NULL
    BY <2>1 DEF Enter, MayEnter
  <2>3. pc[u] \notin Owning
    BY <2>2 DEF IInv, Serial, Live
  <2>4. pc[u] # "clear"
    BY <2>2 DEF IInv, Serial
  <2> QED
    BY <2>2, <2>3, <2>4 DEF Busy, Owning, IInv, TypeOK
<1> QED
  BY <1>1, ScanInvariant, PTL DEF Spec, OverlapOnlyBeforeCreate
-----------------------------------------------------------------------------
(* What a call answers, when scans are not slow.                           *)

\* While no two calls have overlapped and scans take no longer than the wait:
\* the supplicant serves a call only while the call waits, and serves it once;
\* the semaphore of a call is posted on the word of its own scan; and a call
\* that goes on without an error has heard of it.
Honest ==
  /\ ret = [t \in Threads |-> ret[t]]
  /\ scan \cup ending \subseteq {t \in Threads : pc[t] \in {"wait", "blocked"}}
  /\ scan \cap ending = {}
  /\ \A t \in Threads :
       /\ pc[t] = "start" => sem[scanHandle] = "empty"
       /\ pc[t] \in {"wait", "blocked"} /\ sem[scanHandle] = "posted"
            => heard[t] /\ t \notin scan \cup ending
       /\ pc[t] \in {"release", "clear", "results"} /\ ret[t] = "OPRT_OK" => heard[t]

LEMMA InitHonest == Init => Honest
  BY DEF Init, Honest

LEMMA StepHonest ==
  ASSUME IInv, Honest, ~SlowScans, [Next]_vars, ~overlapped'
  PROVE  Honest'
<1>0. TypeOK /\ TypeOK' /\ Blocked /\ Serial
  BY OverlapStays, StepTypes DEF IInv
<1>a. \A t \in Threads : pc[t] \in Owning => scanHandle \in Handles /\ Live = {scanHandle}
  BY <1>0 DEF Serial, Live
<1>b. \A t, u \in Threads : Busy(t) /\ Busy(u) => t = u
  BY <1>0 DEF Serial
<1>c. ret = [t \in Threads |-> ret[t]]
  BY DEF Honest
<1> USE DEF TypeOK, Goto, Answers
<1>1. ASSUME NEW t \in Threads, Enter(t) PROVE Honest'
  <2>1. UNCHANGED <<scanHandle, sem, scan, ending, heard>>
    BY <1>1 DEF Enter
  <2>2. /\ pc[t] = "idle" /\ pc'[t] \in {"idle", "create"}
        /\ \A u \in Threads : u # t => pc'[u] = pc[u] /\ ret'[u] = ret[u]
        /\ ret' = [u \in Threads |-> ret'[u]]
    BY <1>0, <1>1, <1>c DEF Enter
  <2> QED
    BY <2>1, <2>2 DEF Honest
<1>2. ASSUME NEW t \in Threads, Create(t) PROVE Honest'
  <2>1. pc[t] = "create" /\ UNCHANGED <<scan, ending, heard>>
        /\ ret' = [u \in Threads |-> ret'[u]]
    BY <1>2, <1>c DEF Create
  <2>2. \A u \in Threads : u # t => pc'[u] = pc[u] /\ ret'[u] = ret[u] /\ ~Busy(u)
    BY <1>0, <1>2, <1>b, <1>c, <2>1 DEF Create, Busy
  <2>3. pc'[t] \in {"idle", "start"} /\ (pc'[t] = "start" => sem'[scanHandle'] = "empty")
    BY <1>0, <1>2 DEF Create, Fresh
  <2> QED
    BY <1>0, <2>1, <2>2, <2>3 DEF Honest, Busy
<1>3. ASSUME NEW t \in Threads, Start(t) PROVE Honest'
  <2>1. pc[t] = "start" /\ UNCHANGED <<scanHandle, sem, ending, heard>>
        /\ ret' = [u \in Threads |-> ret'[u]]
    BY <1>3, <1>c DEF Start
  <2>2. \A u \in Threads : u # t => pc'[u] = pc[u] /\ ret'[u] = ret[u] /\ ~Busy(u)
    BY <1>0, <1>3, <1>b, <1>c, <2>1 DEF Start, Busy
  <2>3. sem[scanHandle] = "empty" /\ t \notin scan /\ t \notin ending
    BY <2>1 DEF Honest
  <2>4. \/ pc'[t] = "wait" /\ scan' \in {scan, scan \cup {t}}
        \/ pc'[t] = "release" /\ ret'[t] # "OPRT_OK" /\ scan' = scan
    BY <1>0, <1>3, <1>c DEF Start
  <2> QED
    BY <1>0, <2>1, <2>2, <2>3, <2>4 DEF Honest, Busy
<1>4. ASSUME NEW t \in Threads, Wait(t) PROVE Honest'
  <2>1. pc[t] = "wait" /\ scanHandle # NULL /\ UNCHANGED <<scanHandle, sem, scan, ending, heard>>
    BY <1>4, <1>a, WifiScanAssumption DEF Wait, Owning
  <2>2. pc' = [pc EXCEPT ![t] = "blocked"] /\ ret' = ret
    BY <1>4, <2>1 DEF Wait
  <2> QED
    BY <1>0, <2>1, <2>2 DEF Honest
<1>5. ASSUME NEW t \in Threads, Take(t) PROVE Honest'
  <2>1. /\ pc[t] = "blocked" /\ pc' = [pc EXCEPT ![t] = "release"]
        /\ waits[t] = scanHandle /\ sem[scanHandle] = "posted"
        /\ UNCHANGED <<scanHandle, ret, scan, ending, heard>>
    BY <1>0, <1>5 DEF Take, Serial
  <2>2. heard[t] /\ t \notin scan \cup ending
    BY <2>1 DEF Honest
  <2>3. \A u \in Threads : u # t => pc'[u] = pc[u] /\ ~Busy(u)
    BY <1>0, <1>b, <2>1 DEF Busy
  <2> QED
    BY <1>0, <2>1, <2>2, <2>3 DEF Honest, Busy
<1>6. ASSUME NEW t \in Threads, TimeOut(t) PROVE Honest'
  <2>1. /\ pc[t] = "blocked" /\ pc' = [pc EXCEPT ![t] = "release"]
        /\ t \notin scan \cup ending
        /\ UNCHANGED <<scanHandle, sem, scan, ending, heard>>
    BY <1>6 DEF TimeOut
  <2>2. ret' = [ret EXCEPT ![t] = "OPRT_OS_ADAPTER_SEM_WAIT_FAILED"]
    BY <1>6 DEF TimeOut
  <2>3. /\ ret'[t] # "OPRT_OK" /\ ret' = [u \in Threads |-> ret'[u]] /\ pc'[t] = "release"
        /\ \A u \in Threads : u # t => ret'[u] = ret[u] /\ pc'[u] = pc[u] /\ ~Busy(u)
    BY <1>0, <1>b, <1>c, <2>1, <2>2 DEF Busy
  <2>4. (scan \cup ending)' \subseteq {u \in Threads : pc'[u] \in {"wait", "blocked"}}
    BY <2>1, <2>3 DEF Honest, Busy
  <2> QED
    BY <2>1, <2>3, <2>4 DEF Honest, Busy
<1>7. ASSUME NEW t \in Threads, Release(t) PROVE Honest'
  <2>1. /\ pc[t] = "release" /\ pc' = [pc EXCEPT ![t] = "clear"]
        /\ UNCHANGED <<scanHandle, ret, scan, ending, heard>>
    BY <1>7 DEF Release
  <2>2. \A u \in Threads : u # t => pc'[u] = pc[u] /\ ~Busy(u)
    BY <1>0, <1>b, <2>1 DEF Busy
  <2> QED
    BY <1>0, <2>1, <2>2 DEF Honest, Busy
<1>8. ASSUME NEW t \in Threads, Clear(t) PROVE Honest'
  <2>1. /\ pc[t] = "clear" /\ pc' = [pc EXCEPT ![t] = "results"]
        /\ UNCHANGED <<sem, ret, scan, ending, heard>>
    BY <1>8 DEF Clear
  <2>2. \A u \in Threads : u # t => pc'[u] = pc[u] /\ ~Busy(u)
    BY <1>0, <1>b, <2>1 DEF Busy
  <2> QED
    BY <1>0, <2>1, <2>2 DEF Honest, Busy
<1>9. ASSUME NEW t \in Threads, Results(t) PROVE Honest'
  <2>1. /\ pc[t] = "results" /\ pc' = [pc EXCEPT ![t] = "idle"]
        /\ UNCHANGED <<scanHandle, sem, scan, ending>>
        /\ heard' = [heard EXCEPT ![t] = FALSE]
    BY <1>9 DEF Results
  <2>2. /\ ret' = [u \in Threads |-> ret'[u]]
        /\ \A u \in Threads : u # t => ret'[u] = ret[u]
    BY <1>9, <1>c DEF Results
  <2> QED
    BY ZenonT(30), <1>0, <2>1, <2>2 DEF Honest
<1>10. CASE Complete
  BY <1>10 DEF Complete, Honest
<1>11. CASE Post
  <2>1. /\ ending # {} /\ ending' = {} /\ UNCHANGED <<scanHandle, pc, ret, scan>>
        /\ \A t \in Threads : heard'[t] = (heard[t] \/ (t \in ending /\ Busy(t)))
    BY <1>11 DEF Post
  <2>2. PICK u \in Threads : u \in ending /\ pc[u] \in {"wait", "blocked"}
    BY <2>1 DEF Honest
  <2>3. heard'[u] /\ u \notin scan
    BY <2>1, <2>2 DEF Honest, Busy
  <2>4. \A t \in Threads : t # u => ~Busy(t)
    BY <1>b, <2>2 DEF Busy
  <2> QED
    BY <1>0, <2>1, <2>2, <2>3, <2>4 DEF Honest, Busy
<1>12. CASE Abort
  BY <1>12 DEF Abort, Honest
<1>13. CASE UNCHANGED vars
  BY <1>13 DEF vars, Honest
<1> QED
  BY <1>1, <1>2, <1>3, <1>4, <1>5, <1>6, <1>7, <1>8, <1>9, <1>10, <1>11, <1>12, <1>13
  DEF Next, Step

\* When scans end within the wait of 5000 ms and no two calls have overlapped,
\* a call of tkl_wifi_scan_ap that goes on to the results without an error has
\* waited for the scan that it requested, not for a late one.
THEOREM OkMeansOwnScan ==
  ASSUME ~SlowScans
  PROVE  Spec => []OkMeansScanned
<1> DEFINE Inv == ~overlapped => Honest
<1>1. Init => Inv
  BY InitHonest
<1>2. IInv /\ Inv /\ [Next]_vars => Inv'
  BY StepHonest, OverlapStays DEF IInv
<1>3. Inv => OkMeansScanned
  BY DEF Honest, OkMeansScanned
<1> QED
  BY <1>1, <1>2, <1>3, ScanInvariant, PTL DEF Spec
=============================================================================
