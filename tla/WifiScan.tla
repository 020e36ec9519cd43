------------------------------ MODULE WifiScan ------------------------------
(***************************************************************************)
(* The scans of tkl_wifi.c: threads that call tkl_wifi_scan_ap, the        *)
(* supplicant that scans for them, and its task that runs scan_cb when a   *)
(* scan is complete. A thread and the callback meet at scanHandle, a       *)
(* static that every step reads anew and no lock protects; that it is NULL *)
(* is also what lets a scan begin.                                         *)
(***************************************************************************)
EXTENDS Naturals, FiniteSets

CONSTANTS
  Threads,
  Handles,     \* the addresses the heap has for semaphores
  NULL,
  SlowScans    \* TRUE when a scan may take longer than the wait of 5000 ms

ASSUME WifiScanAssumption == NULL \notin Handles /\ SlowScans \in BOOLEAN

VARIABLES
  scanHandle,  \* the semaphore the callback posts
  sem,         \* the semaphore at each address: "released", "empty", "posted"
  pc,          \* where each thread is
  waits,       \* the semaphore each thread is blocked on
  ret,         \* what its call answers
  scan,        \* the requests the supplicant's scan under way serves
  cb,          \* scan_cb between its test and its post: the handle it read
  ending,      \* the requests served by the scan scan_cb runs for
  heard,       \* (history) the scan this call started has been announced
  overlapped   \* (history) two calls have been past the test at once

vars == <<scanHandle, sem, pc, waits, ret, scan, cb, ending, heard, overlapped>>

\* A call is busy from the test of scanHandle until it sets it to NULL.
Busy(t) == pc[t] \notin {"idle", "results"}
Live == {h \in Handles : sem[h] # "released"}

Init ==
  /\ scanHandle = NULL
  /\ sem = [h \in Handles |-> "released"]
  /\ pc = [t \in Threads |-> "idle"]
  /\ waits = [t \in Threads |-> NULL]
  /\ ret = [t \in Threads |-> "OPRT_OK"]
  /\ scan = {} /\ cb = NULL /\ ending = {}
  /\ heard = [t \in Threads |-> FALSE]
  /\ overlapped = FALSE

Goto(t, from, to) == pc[t] = from /\ pc' = [pc EXCEPT ![t] = to]
Answers(t, r) == ret' = [ret EXCEPT ![t] = r]

(***************************************************************************)
(* tkl_wifi_scan_ap for one ssid, and tkl_wifi_all_ap_scan: the same steps *)
(* but for the call that starts the scan.                                  *)
(***************************************************************************)

\* A slip: a scan under way is not looked for.
MayEnterAlways(t) == TRUE
MayEnter(t) == scanHandle = NULL

Enter(t) ==
  /\ Goto(t, "idle", IF MayEnter(t) THEN "create" ELSE "idle")
  /\ Answers(t, IF MayEnter(t) THEN "OPRT_OK" ELSE "OPRT_OS_ADAPTER_INVALID_PARM")
  /\ overlapped' = (overlapped \/ (MayEnter(t) /\ \E u \in Threads : Busy(u)))
  /\ UNCHANGED <<scanHandle, sem, waits, scan, cb, ending, heard>>

\* A slip: the semaphore is created with a count of one.
FreshPosted == "posted"
Fresh == "empty"

\* tkl_semaphore_create_init writes the handle, NULL when it has no memory.
Create(t) ==
  /\ \/ \E h \in Handles \ Live :
          /\ Goto(t, "create", "start")
          /\ scanHandle' = h
          /\ sem' = [sem EXCEPT ![h] = Fresh]
          /\ UNCHANGED ret
     \/ /\ Goto(t, "create", "idle")
        /\ scanHandle' = NULL
        /\ Answers(t, "OPRT_OS_ADAPTER_SEM_CREAT_FAILED")
        /\ UNCHANGED sem
  /\ UNCHANGED <<waits, scan, cb, ending, heard, overlapped>>

\* The callback is registered and the scan requested. Asked to scan for all
\* while it monitors, the driver says that it does and does nothing.
Start(t) ==
  /\ \/ Goto(t, "start", "wait") /\ scan' = scan \cup {t} /\ UNCHANGED ret
     \/ Goto(t, "start", "wait") /\ UNCHANGED <<scan, ret>>
     \/ Goto(t, "start", "release") /\ Answers(t, "OPRT_COM_ERROR") /\ UNCHANGED scan
  /\ UNCHANGED <<scanHandle, sem, waits, cb, ending, heard, overlapped>>

\* tkl_semaphore_wait.
Wait(t) ==
  /\ \/ /\ scanHandle # NULL
        /\ Goto(t, "wait", "blocked")
        /\ UNCHANGED ret
     \/ /\ scanHandle = NULL
        /\ Goto(t, "wait", "release")
        /\ Answers(t, "OPRT_INVALID_PARM")
  /\ waits' = [waits EXCEPT ![t] = scanHandle]
  /\ UNCHANGED <<scanHandle, sem, scan, cb, ending, heard, overlapped>>

Take(t) ==
  /\ Goto(t, "blocked", "release")
  /\ sem[waits[t]] = "posted"
  /\ sem' = [sem EXCEPT ![waits[t]] = "empty"]
  /\ waits' = [waits EXCEPT ![t] = NULL]
  /\ UNCHANGED <<scanHandle, ret, scan, cb, ending, heard, overlapped>>

\* A slip: the wait is repeated until the scan has been heard of.
TimeOutRetries(t) ==
  /\ Goto(t, "blocked", "wait")
  /\ sem[waits[t]] # "posted"
  /\ SlowScans \/ t \notin scan \cup ending
  /\ waits' = [waits EXCEPT ![t] = NULL]
  /\ UNCHANGED <<scanHandle, sem, ret, scan, cb, ending, heard, overlapped>>

\* The 5000 ms have passed. Unless scans are slow, that is so only when no
\* scan will be announced: it was never begun, or it failed.
TimeOut(t) ==
  /\ Goto(t, "blocked", "release")
  /\ sem[waits[t]] # "posted"
  /\ SlowScans \/ t \notin scan \cup ending
  /\ Answers(t, "OPRT_OS_ADAPTER_SEM_WAIT_FAILED")
  /\ waits' = [waits EXCEPT ![t] = NULL]
  /\ UNCHANGED <<scanHandle, sem, scan, cb, ending, heard, overlapped>>

\* A slip: the semaphore is released only when the scan was heard of.
ReleaseWhenHeard(t) ==
  /\ Goto(t, "release", "clear")
  /\ sem' = [h \in Handles |-> IF h = scanHandle /\ ret[t] = "OPRT_OK" THEN "released" ELSE sem[h]]
  /\ UNCHANGED <<scanHandle, waits, ret, scan, cb, ending, heard, overlapped>>

\* tkl_semaphore_release(scanHandle), which ignores NULL.
Release(t) ==
  /\ Goto(t, "release", "clear")
  /\ sem' = [h \in Handles |-> IF h = scanHandle THEN "released" ELSE sem[h]]
  /\ UNCHANGED <<scanHandle, waits, ret, scan, cb, ending, heard, overlapped>>

Clear(t) ==
  /\ Goto(t, "clear", "results")
  /\ scanHandle' = NULL
  /\ UNCHANGED <<sem, waits, ret, scan, cb, ending, heard, overlapped>>

\* The access points of the scan: none, none of the ssid, or no memory for
\* them is OPRT_OS_ADAPTER_COM_ERROR.
Results(t) ==
  /\ Goto(t, "results", "idle")
  /\ \/ UNCHANGED ret
     \/ ret[t] = "OPRT_OK" /\ Answers(t, "OPRT_OS_ADAPTER_COM_ERROR")
  /\ heard' = [heard EXCEPT ![t] = FALSE]
  /\ UNCHANGED <<scanHandle, sem, waits, scan, cb, ending, overlapped>>

(***************************************************************************)
(* The supplicant.                                                         *)
(***************************************************************************)

\* The scan is complete: scan_cb runs and finds scanHandle set, or not.
Complete ==
  /\ scan # {} /\ ending = {}
  /\ cb' = scanHandle
  /\ ending' = scan
  /\ scan' = {}
  /\ UNCHANGED <<scanHandle, sem, pc, waits, ret, heard, overlapped>>

\* scan_cb posts what it read or, when the compiler reads the static again,
\* what it is by now; a released semaphore has nobody to wake.
Post ==
  /\ ending # {}
  /\ \E h \in {cb, IF cb = NULL THEN NULL ELSE scanHandle} :
       sem' = [x \in Handles |-> IF x = h /\ x \in Live THEN "posted" ELSE sem[x]]
  /\ cb' = NULL
  /\ ending' = {}
  /\ heard' = [t \in Threads |-> heard[t] \/ (t \in ending /\ Busy(t))]
  /\ UNCHANGED <<scanHandle, pc, waits, ret, scan, overlapped>>

\* The scan fails: nobody is told.
Abort ==
  /\ scan # {}
  /\ scan' = {}
  /\ UNCHANGED <<scanHandle, sem, pc, waits, ret, cb, ending, heard, overlapped>>

Step(t) ==
  \/ Create(t) \/ Start(t) \/ Wait(t) \/ Take(t) \/ TimeOut(t)
  \/ Release(t) \/ Clear(t) \/ Results(t)

Next == Complete \/ Abort \/ Post \/ \E t \in Threads : Enter(t) \/ Step(t)

Spec == Init /\ [][Next]_vars

\* The scheduler runs every thread that can run; a scan ends, well or not.
FairSpec ==
  /\ Spec
  /\ WF_vars(Complete \/ Abort)
  /\ WF_vars(Post)
  /\ \A t \in Threads : WF_vars(Step(t))

(***************************************************************************)
(* Properties.                                                             *)
(***************************************************************************)
TypeOK ==
  /\ scanHandle \in Handles \cup {NULL}
  /\ sem \in [Handles -> {"released", "empty", "posted"}]
  /\ pc \in [Threads -> {"idle", "create", "start", "wait", "blocked", "release", "clear",
                         "results"}]
  /\ waits \in [Threads -> Handles \cup {NULL}]
  /\ scan \in SUBSET Threads /\ ending \in SUBSET Threads
  /\ cb \in Handles \cup {NULL}
  /\ heard \in [Threads -> BOOLEAN]
  /\ overlapped \in BOOLEAN

\* As long as no two calls have been past the test at once, one call at most
\* is busy, scanHandle is its semaphore from its creation on, every other
\* semaphore has been released, and between calls there is none.
OneScanOneSemaphore ==
  ~overlapped =>
    /\ \A t, u \in Threads : Busy(t) /\ Busy(u) => t = u
    /\ \A t \in Threads :
         /\ pc[t] \in {"start", "wait", "blocked", "release"} => Live = {scanHandle}
         /\ pc[t] = "blocked" => waits[t] = scanHandle
         /\ pc[t] = "create" => scanHandle = NULL
    /\ (\A t \in Threads : pc[t] \notin {"start", "wait", "blocked", "release"}) => Live = {}

\* The test of scanHandle keeps a second call out, but while the first is
\* between the test and the semaphore it creates.
OverlapOnlyBeforeCreate ==
  [][overlapped' /\ ~overlapped => \E t \in Threads : pc[t] = "create"]_vars

\* Scans that are not slow: a call answers OPRT_OK only when the scan it
\* started has been announced, never on the word of another one.
OkMeansScanned ==
  ~overlapped =>
    \A t \in Threads : pc[t] = "results" /\ ret[t] = "OPRT_OK" => heard[t]

\* Every call returns.
EveryCallReturns == \A t \in Threads : Busy(t) ~> ~Busy(t)
=============================================================================
