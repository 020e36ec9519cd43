------------------------------- MODULE TklFlash -----------------------------
(***************************************************************************)
(* tkl_flash.c: threads that write and erase, beside the upgrade (tkl_ota) *)
(* that also switches the write protection of the chip with                *)
(* tkl_flash_set_protect.  Writing and erasing hold the flash mutex;       *)
(* tkl_flash_set_protect does not.  The chip ignores a command on a        *)
(* protected address without saying so.                                    *)
(***************************************************************************)
EXTENDS Integers

CONSTANTS Apps,     \* threads that use tkl_flash_write and tkl_flash_erase
          Ota,      \* the thread of the upgrade
          Free,     \* nobody: no holder of the mutex
          MaxSize   \* bound: commands a call issues (sectors, program units)

Threads == Apps \cup {Ota}

ASSUME FlashThreadsAssumption == Ota \notin Apps /\ Free \notin Apps \cup {Ota}
ASSUME MaxSizeAssumption == MaxSize \in Nat \ {0}

VARIABLES prot,     \* protection of the chip: "all" or "half"
          lock,     \* holder of the mutex of hal_flash_lock
          pc,       \* where each thread is
          kind,     \* the call under way: "write" or "erase"
          flag,     \* protect_flag, as each thread last read it
          left,     \* commands the call has yet to issue
          ignored,  \* a command of the call was ignored by the chip
          raced     \* history: the upgrade protected the chip during the call

flashVars == <<prot, lock, pc, kind, flag, left, ignored, raced>>

FlashInit ==
  /\ prot = "all" /\ lock = Free
  /\ pc = [t \in Threads |-> "idle"] /\ kind = [t \in Threads |-> "write"]
  /\ flag = [t \in Threads |-> FALSE] /\ left = [t \in Threads |-> 0]
  /\ ignored = [t \in Threads |-> FALSE] /\ raced = [t \in Threads |-> FALSE]

\* Where a thread is when it has the mutex, and when it has not.
Inside == {"test", "unprotect", "command", "test again", "reprotect", "unlock"}
Outside == {"idle", "ready", "lock", "returned"}

Goto(t, from, to) == pc[t] = from /\ pc' = [pc EXCEPT ![t] = to]

-----------------------------------------------------------------------------
(* tkl_flash_set_protect, called by the upgrade before and after each of   *)
(* its writes and erases.                                                  *)

ProtectOff ==
  /\ Goto(Ota, "idle", "ready") /\ prot' = "half"
  /\ UNCHANGED <<lock, kind, flag, left, ignored, raced>>

ProtectOn ==
  /\ Goto(Ota, "returned", "idle") /\ prot' = "all"
  /\ raced' = [t \in Threads |-> raced[t] \/ pc[t] \in Inside]
  /\ UNCHANGED <<lock, kind, flag, left, ignored>>

-----------------------------------------------------------------------------
(* tkl_flash_write and tkl_flash_erase.                                    *)

Call(t, k, n) ==
  /\ Goto(t, IF t = Ota THEN "ready" ELSE "idle", "lock")
  /\ kind' = [kind EXCEPT ![t] = k] /\ left' = [left EXCEPT ![t] = n]
  /\ ignored' = [ignored EXCEPT ![t] = FALSE] /\ raced' = [raced EXCEPT ![t] = FALSE]
  /\ UNCHANGED <<prot, lock, flag>>

Lock(t) ==
  /\ lock = Free /\ Goto(t, "lock", "test") /\ lock' = t
  /\ UNCHANGED <<prot, kind, flag, left, ignored, raced>>

\* __uni_flash_is_protect_all
ReadProtection(t, from, to) ==
  /\ Goto(t, from, to) /\ flag' = [flag EXCEPT ![t] = (prot = "all")]
  /\ UNCHANGED <<prot, lock, kind, left, ignored, raced>>

\* Slip: the call relies on its caller to unprotect the chip.
UnprotectNever(t) ==
  /\ Goto(t, "unprotect", "command")
  /\ UNCHANGED <<prot, lock, kind, flag, left, ignored, raced>>

Unprotect(t) ==
  /\ Goto(t, "unprotect", "command") /\ prot' = IF flag[t] THEN "half" ELSE prot
  /\ UNCHANGED <<lock, kind, flag, left, ignored, raced>>

\* One sector erased, or one unit programmed, with interrupts off.
Command(t) ==
  /\ left[t] > 0
  /\ Goto(t, "command", IF left[t] > 1 THEN "command"
                        ELSE IF kind[t] = "erase" THEN "test again" ELSE "unlock")
  /\ left' = [left EXCEPT ![t] = @ - 1]
  /\ ignored' = [ignored EXCEPT ![t] = @ \/ prot = "all"]
  /\ UNCHANGED <<prot, lock, kind, flag, raced>>

\* The end of an erase: protect the chip if it is protected.
Reprotect(t) ==
  /\ Goto(t, "reprotect", "unlock") /\ prot' = IF flag[t] THEN "all" ELSE prot
  /\ UNCHANGED <<lock, kind, flag, left, ignored, raced>>

Unlock(t) ==
  /\ Goto(t, "unlock", "returned") /\ lock' = Free
  /\ UNCHANGED <<prot, kind, flag, left, ignored, raced>>

\* OPRT_OK, whatever happened.
Return(t) ==
  /\ t \in Apps /\ Goto(t, "returned", "idle")
  /\ UNCHANGED <<prot, lock, kind, flag, left, ignored, raced>>

Step(t) ==
  \/ Lock(t)
  \/ ReadProtection(t, "test", "unprotect")
  \/ Unprotect(t)
  \/ Command(t)
  \/ ReadProtection(t, "test again", "reprotect")
  \/ Reprotect(t)
  \/ Unlock(t)
  \/ Return(t)

FlashNext ==
  \/ ProtectOff
  \/ ProtectOn
  \/ \E t \in Threads :
       \/ \E k \in {"write", "erase"}, n \in 1..MaxSize : Call(t, k, n)
       \/ Step(t)

FlashSpec == FlashInit /\ [][FlashNext]_flashVars

-----------------------------------------------------------------------------
\* Type invariant; a thread has the mutex while it is inside a call.
TypeOK ==
  /\ prot \in {"all", "half"}
  /\ pc \in [Threads -> Inside \cup Outside]
  /\ kind \in [Threads -> {"write", "erase"}]
  /\ left \in [Threads -> 0..MaxSize]
  /\ flag \in [Threads -> BOOLEAN]
  /\ ignored \in [Threads -> BOOLEAN]
  /\ raced \in [Threads -> BOOLEAN]
  /\ \A t \in Threads : (lock = t) <=> (pc[t] \in Inside)

\* No command of the upgrade is ignored: whatever the other threads do to
\* the protection, its own calls find the chip writable.
UpgradeNeverIgnored == ~ignored[Ota]

\* A command of another thread is ignored only when the upgrade protected
\* the chip in the middle of the call.
IgnoredOnlyInRace == \A t \in Threads : ignored[t] => raced[t]
=============================================================================
