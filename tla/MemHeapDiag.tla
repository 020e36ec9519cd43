----------------------------- MODULE MemHeapDiag ----------------------------
(***************************************************************************)
(* tuya_mem_heap_diagnose beside the other operations of MemHeap: a thread *)
(* walks the blocks of a heap (MEM_HeapStatus) and compares them with the  *)
(* free list.  The walk holds the critical section, but leaves it to log   *)
(* each block in use that carries a leak record, and goes on from the      *)
(* pointers it had.                                                        *)
(***************************************************************************)
EXTENDS MemHeap

VARIABLES walk,    \* "off", "locked" (in the critical section), "logging"
                   \* (outside it) or how the walk ended
          slot,    \* the heap walked
          at,      \* addr and thisBlockp
          next,    \* freeBlockp, 0 for NULL
          header,  \* what thisBlockp->size holds while the walk logs
          changed  \* history: a block changed hands since the walk began

walkVars == <<walk, slot, at, next, header, changed>>
diagVars == <<vars, walkVars>>

\* The next free block of heap h after address a, 0 for none.

\* Slip: freeBlockp is not moved on.
NextFreeStuck(h, a) == IF a \in DOMAIN list[h] THEN a ELSE Lowest(DOMAIN list[h] \cup {0})

NextFree(h, a) ==
  LET later == {b \in DOMAIN list[h] : b > a} IN IF later = {} THEN 0 ELSE Lowest(later)

DiagInit ==
  Init /\ walk = "off" /\ slot = 1 /\ at = 0 /\ next = 0 /\ header = 0 /\ changed = FALSE

\* A step of any other thread; no one deletes a heap that is diagnosed.  A
\* block that is freed and merged into the one before it leaves its header
\* word behind; a later owner of those bytes who writes over it leads the walk
\* astray all the same.  What the walk found is local to its thread: the
\* others take no step between its end and its return.
Others ==
  /\ walk \in {"off", "logging"}
  /\ Next
  /\ UNCHANGED <<walk, slot, at, next>>
  /\ walk = "logging" => size'[slot] > 0
  /\ header' = IF walk # "logging" THEN header
               ELSE IF at \in DOMAIN used' THEN used'[at]
               ELSE IF at \in DOMAIN list'[slot] THEN list'[slot][at] ELSE header
  /\ changed' = (changed \/ (walk = "logging" /\ <<list, used>>' # <<list, used>>))

DiagStart(h) ==
  /\ walk = "off" /\ size[h] > 0
  /\ walk' = "locked" /\ slot' = h
  /\ at' = First(h) /\ next' = NextFree(h, 0)
  /\ changed' = FALSE
  /\ UNCHANGED <<vars, header>>

\* A block whose tag says free must be the next one of the free list.
VisitFree ==
  /\ walk = "locked" /\ at < Limit(slot) /\ at \in Blocks(slot)
  /\ TagIs(at + Len(slot, at) - 1, "free")
  /\ \/ at # next /\ walk' = "damaged" /\ UNCHANGED <<at, next>>
     \/ /\ at = next /\ next' = NextFree(slot, at)
        /\ at' = at + Len(slot, at) /\ UNCHANGED walk
  /\ UNCHANGED <<vars, slot, header, changed>>

\* A block in use must not be; one with a leak record is logged.
VisitUsed ==
  /\ walk = "locked" /\ at < Limit(slot) /\ at \in Blocks(slot)
  /\ TagIs(at + Len(slot, at) - 1, "use")
  /\ \/ at = next /\ walk' = "damaged" /\ UNCHANGED <<at, header>>
     \/ at # next /\ ~want[at].leak /\ at' = at + Len(slot, at) /\ UNCHANGED <<walk, header>>
     \/ /\ at # next /\ want[at].leak
        /\ walk' = "logging" /\ header' = Len(slot, at) /\ UNCHANGED at
  /\ UNCHANGED <<vars, slot, next, changed>>

\* Back from the log: the walk steps over thisBlockp by its size as it is now.
Resume ==
  /\ walk = "logging"
  /\ walk' = "locked" /\ at' = at + header /\ header' = 0
  /\ UNCHANGED <<vars, slot, next, changed>>

\* The walk is off the blocks of the heap: the tags it reads are mere data.
Stray ==
  /\ walk = "locked" /\ at < Limit(slot) /\ at \notin Blocks(slot)
  /\ walk' = "damaged"
  /\ UNCHANGED <<vars, slot, at, next, header, changed>>

Finish ==
  /\ walk = "locked" /\ at >= Limit(slot)
  /\ walk' = IF at = Limit(slot) /\ next = 0 THEN "valid" ELSE "damaged"
  /\ UNCHANGED <<vars, slot, at, next, header, changed>>

DiagReturn ==
  /\ walk \in {"valid", "damaged"}
  /\ walk' = "off" /\ slot' = 1 /\ at' = 0 /\ next' = 0 /\ changed' = FALSE
  /\ UNCHANGED <<vars, header>>

DiagNext == Others \/ (\E h \in Slots : DiagStart(h)) \/ VisitFree \/ VisitUsed
            \/ Resume \/ Stray \/ Finish \/ DiagReturn

DiagSpec == DiagInit /\ [][DiagNext]_diagVars

\* The heap is never damaged here: a walk during which no block was taken or
\* given back reaches the top of the heap with the free list used up.
QuietWalkSound == walk = "damaged" => changed
=============================================================================
