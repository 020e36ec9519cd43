------------------------------- MODULE MemHeap ------------------------------
(***************************************************************************)
(* tuya_mem_heap.c: up to MEM_HEAP_LIST_NUM heaps, each an address-ordered *)
(* free list of blocks.  A block starts with a header of HeadSize bytes    *)
(* (its size) and its last byte is a tag, the "dog", that tells a block in *)
(* use from a free one.  Every change to a heap is made between            *)
(* enter_critical and exit_critical, so an action is one critical section. *)
(*                                                                         *)
(* Addresses and sizes are bytes in an unsigned word of WordMod values.    *)
(***************************************************************************)
EXTENDS Integers, FiniteSets, FiniteSetsExt

CONSTANTS Slots,      \* 1..MEM_HEAP_LIST_NUM: indexes of mem_heap_list
          Areas,      \* the <<ptr, size>> memory areas given to heap_create
          Sizes,      \* the lengths the callers ask for
          DebugSizes, \* the lengths the callers of the debug calls ask for
          Align, HeadSize, BlockMin, FitDepth, LeakSize,
                      \* MEM_ALIGN_NUM, MEM_BLOCK_HEAD_SIZE,
                      \* MEM_BLOCK_MIN_SIZE, FIT_FIND_DEPTH and
                      \* sizeof(MEM_DbgLeak_t)
          WordMod,    \* the number of values of an unsigned long
          MaxCounted, \* bound: s_heap_free_size beyond which no heap is added
          MaxMoving   \* bound: how many reallocations are under way at once

ASSUME SlotsAssumption == IsFiniteSet(Slots) /\ Slots = 1..Cardinality(Slots)
\* Areas are memory: they do not reach the last word of the address space, and
\* the first aligned address is in them.
ASSUME AreasAssumption ==
  \A r \in Areas : /\ r[1] \in Nat \ {0} /\ r[2] \in Nat /\ Align <= r[2]
                   /\ r[1] + r[2] + Align <= WordMod
ASSUME SizesAssumption == Sizes \cup DebugSizes \subseteq 1..(WordMod - 1)
ASSUME LayoutAssumption ==
  /\ Align \in Nat \ {0} /\ HeadSize \in Nat \ {0} /\ BlockMin \in Nat \ {0}
  /\ FitDepth \in Nat /\ LeakSize \in Nat
  /\ WordMod \in Nat /\ 2 * (Align + HeadSize + 4) <= WordMod
  /\ MaxCounted \in Nat /\ MaxMoving \in Nat

VARIABLES base, size,     \* heap->base and heap->size; size 0: slot not in use
          list,           \* heap->free_list: block address -> block size
          free, watermark,    \* heap->free and heap->free_watermark
          used,           \* headers of the blocks in use: address -> size
          dog,            \* the tag byte at the end of a block: "use" or
                          \* "free"; inside a block the byte is mere data
          freeSize, freeWatermark,  \* s_heap_free_size and its watermark
          want,           \* of each block in use: what its owner asked for,
                          \* and whether it carries a leak record
          moving,         \* <<block, handle>> of the blocks realloc has
                          \* copied and not freed yet; handle 0 is "any heap"
          lost            \* blocks in use that their owner freed in vain

heapVars == <<base, size, list, free, watermark>>
ownerVars == <<moving, lost>>
vars == <<heapVars, used, dog, freeSize, freeWatermark, want, ownerVars>>

-----------------------------------------------------------------------------
(* Word arithmetic of the code.                                            *)

AlignDown(x) == x - (x % Align)                     \* ALIGN_DOWN
AlignUp(x) == AlignDown((x + Align - 1) % WordMod)  \* ALIGN_UP

HeapMin == BlockMin + HeadSize                      \* MEM_HEAP_MIN_SIZE

AtLeast4(n) == IF n < 4 THEN 4 ELSE n

\* Slip: no byte is reserved for the tag.
BlockSizeWithoutTag(n) == (AlignUp(AtLeast4(n) % WordMod) + HeadSize) % WordMod

\* The size of the block that holds n bytes, the header and the tag.
BlockSize(n) == (AlignUp((AtLeast4(n) + 1) % WordMod) + HeadSize) % WordMod

Overflows(n) == BlockSize(n) < AtLeast4(n)

\* Functions on addresses.
Empty == [a \in {} |-> 0]
With(f, a, v) == [x \in DOMAIN f \cup {a} |-> IF x = a THEN v ELSE f[x]]
Without(f, S) == [x \in DOMAIN f \ S |-> f[x]]
Only(f, S) == [x \in DOMAIN f \cap S |-> f[x]]

End(f, a) == a + f[a]

\* The area of heap h that holds blocks.
First(h) == AlignUp(base[h])
Limit(h) == First(h) + AlignDown(size[h] - (First(h) - base[h]))
InHeap(h, a) == size[h] > 0 /\ base[h] < a /\ a < base[h] + size[h]
BlocksOf(h, f) == {a \in DOMAIN f : First(h) <= a /\ a < Limit(h) /\ size[h] > 0}

\* The addresses of the tags of the blocks in the free lists l and in u.
TagsOf(l, u) ==
  {End(u, a) - 1 : a \in DOMAIN u} \cup
  UNION {{End(l[h], a) - 1 : a \in DOMAIN l[h]} : h \in Slots}

Init ==
  /\ base = [h \in Slots |-> 0] /\ size = [h \in Slots |-> 0]
  /\ list = [h \in Slots |-> Empty]
  /\ free = [h \in Slots |-> 0] /\ watermark = [h \in Slots |-> 0]
  /\ used = Empty /\ want = Empty /\ moving = {} /\ lost = {}
  /\ dog = Empty
  /\ freeSize = 0 /\ freeWatermark = 0

-----------------------------------------------------------------------------
(* heap_create and heap_delete.                                            *)

FreeSlots == {h \in Slots : size[h] = 0}

\* Areas given to the allocator belong to no heap yet (the caller's duty).
Unowned(p, n) ==
  \A h \in Slots : size[h] = 0 \/ p + n <= base[h] \/ base[h] + size[h] <= p

\* MEM_HeapCreate: the first slot not in use; an area that cannot hold one
\* block is refused after base is set.
Create(p, n) ==
  /\ FreeSlots # {} /\ Unowned(p, n) /\ freeSize + n <= MaxCounted
  /\ LET h == CHOOSE i \in FreeSlots : \A j \in FreeSlots : i <= j
         first == AlignUp(p)
         room == AlignDown((n - (first - p)) % WordMod)
     IN  /\ base' = [base EXCEPT ![h] = p]
         /\ \/ /\ room < HeapMin
               /\ UNCHANGED <<size, list, free, watermark, dog, freeSize, freeWatermark>>
            \/ /\ room >= HeapMin
               /\ size' = [size EXCEPT ![h] = n]
               /\ list' = [list EXCEPT ![h] = With(Empty, first, room)]
               /\ free' = [free EXCEPT ![h] = room]
               /\ watermark' = [watermark EXCEPT ![h] = room]
               /\ dog' = With(dog, first + room - 1, "free")
               /\ freeSize' = freeSize + room
               /\ freeWatermark' = freeSize'
  /\ UNCHANGED <<used, want, ownerVars>>

\* MEM_HeapDelete clears the slot; whatever was allocated from it is gone
\* with the area.  The global counters keep the heap's bytes.
Delete(h) ==
  /\ size[h] > 0
  /\ LET gone == BlocksOf(h, used)
     IN  /\ used' = Without(used, gone)
         /\ want' = Without(want, gone)
         /\ moving' = {m \in moving : m[1] \notin gone}
         /\ lost' = lost \ gone
  /\ base' = [base EXCEPT ![h] = 0] /\ size' = [size EXCEPT ![h] = 0]
  /\ list' = [list EXCEPT ![h] = Empty]
  /\ free' = [free EXCEPT ![h] = 0] /\ watermark' = [watermark EXCEPT ![h] = 0]
  /\ dog' = Only(dog, TagsOf(list', used'))
  /\ UNCHANGED <<freeSize, freeWatermark>>

-----------------------------------------------------------------------------
(* MEM_Allocate and mem_chunk_get.                                         *)

Fitting(h, n) == {a \in DOMAIN list[h] : list[h][a] >= n}

\* The walk takes the first block that fits, then moves to each later one
\* that is no larger than its choice, at most FitDepth times.
Candidates(h, n) ==
  {a \in Fitting(h, n) : \A b \in Fitting(h, n) : b < a => list[h][b] >= list[h][a]}

Chosen(h, n) ==
  CHOOSE a \in Candidates(h, n) :
     LET before == Cardinality({b \in Candidates(h, n) : b < a})
     IN  \/ before = FitDepth
         \/ before < FitDepth /\ \A b \in Candidates(h, n) : b <= a

Splits(h, a, n) == list[h][a] - n >= HeapMin

CanAllocate(h, n) == size[h] > 0 /\ n > 0 /\ ~Overflows(n) /\ Fitting(h, BlockSize(n)) # {}

\* Slip: the chosen block is handed out from its front, and the free list
\* keeps the address the block had.
CarveFront(h, n, a) ==
  IF Splits(h, a, n) THEN [at |-> a, len |-> n] ELSE [at |-> a, len |-> list[h][a]]

\* Slip: a block taken whole is counted with the size asked for.
CarveRequested(h, n, a) ==
  [at |-> IF Splits(h, a, n) THEN a + list[h][a] - n ELSE a, len |-> n]

\* The block taken from the free block at a: its tail, or all of it when the
\* rest could not be a block.
Carve(h, n, a) ==
  IF Splits(h, a, n) THEN [at |-> a + list[h][a] - n, len |-> n]
                     ELSE [at |-> a, len |-> list[h][a]]

TagIs(x, t) == x \in DOMAIN dog /\ dog[x] = t

\* Slip: the tag of what is left of a split block is not written.
TagsOneSided(h, n, a) == With(dog, End(list[h], a) - 1, "use")

\* The tags after a block of n bytes is taken from the free block at a.
Tags(h, n, a) ==
  LET d == With(dog, End(list[h], a) - 1, "use")
  IN  IF Splits(h, a, n) THEN With(d, End(list[h], a) - n - 1, "free") ELSE d

\* Take a block for a request of n bytes from heap h; rec is what its owner
\* expects of it.
Allocate(h, n, rec) ==
  /\ CanAllocate(h, n)
  /\ LET len == BlockSize(n)
         a == Chosen(h, len)
         b == Carve(h, len, a)
     IN  /\ list' = [list EXCEPT ![h] = IF Splits(h, a, len)
                                         THEN With(list[h], a, list[h][a] - len)
                                         ELSE Without(list[h], {a})]
         /\ dog' = Tags(h, len, a)
         /\ used' = With(used, b.at, b.len)
         /\ want' = With(want, b.at, rec)
         /\ free' = [free EXCEPT ![h] = @ - b.len]
         /\ watermark' = [watermark EXCEPT ![h] = IF @ > free'[h] THEN free'[h] ELSE @]
         /\ freeSize' = freeSize - b.len
         /\ freeWatermark' = IF freeWatermark > freeSize' THEN freeSize' ELSE freeWatermark
  /\ UNCHANGED <<base, size>>

\* The heap a call without a handle uses: slots are tried in order up to the
\* first one not in use, and one is tried when its free count exceeds n + 24.
Tried(h, n, r) ==
  /\ \A i \in 1..h : size[i] > 0
  /\ free[h] > (n + BlockMin) % WordMod
  /\ CanAllocate(h, r)

AnyHeap(h, n, r) == Tried(h, n, r) /\ \A i \in 1..(h - 1) : ~Tried(i, n, r)

Request(n) == [n |-> n, leak |-> FALSE]
DebugRequest(n) == [n |-> n, leak |-> TRUE]
DebugLen(n) == (AlignUp(n) + LeakSize) % WordMod

\* tuya_mem_heap_malloc and calloc, with and without a handle.
Malloc(h, n) == Allocate(h, n, Request(n)) /\ UNCHANGED ownerVars
MallocAny(n) == \E h \in Slots : AnyHeap(h, n, n) /\ Malloc(h, n)

\* tuya_mem_heap_debug_malloc and debug_calloc.
DebugMalloc(h, n) == Allocate(h, DebugLen(n), DebugRequest(n)) /\ UNCHANGED ownerVars
DebugMallocAny(n) == \E h \in Slots : AnyHeap(h, n, DebugLen(n)) /\ DebugMalloc(h, n)

-----------------------------------------------------------------------------
(* MEM_Deallocate: the block joins the free list at its place and merges   *)
(* with the free block before it and the one after it when they touch.     *)

Neighbours(h, p) ==
  {a \in DOMAIN list[h] : End(list[h], a) = p \/ a = End(used, p)}

Lowest(S) == CHOOSE a \in S : \A b \in S : a <= b

\* Slip: the block is not merged with the free block before it.
ListWithForwardMerge(h, p) ==
  LET after == {a \in DOMAIN list[h] : a = End(used, p)}
      stop == IF after = {} THEN End(used, p) ELSE End(list[h], Lowest(after))
  IN  With(Without(list[h], after), p, stop - p)

ListWith(h, p) ==
  LET merged == Neighbours(h, p)
      start == Lowest(merged \cup {p})
      stop == IF End(used, p) \in merged THEN End(list[h], End(used, p)) ELSE End(used, p)
  IN  With(Without(list[h], merged), start, stop - start)

\* Nothing happens to a block whose tag does not say it is in use.
Deallocate(h, p) ==
  /\ TagIs(End(used, p) - 1, "use")
  /\ free' = [free EXCEPT ![h] = @ + used[p]]
  /\ freeSize' = freeSize + used[p]
  /\ list' = [list EXCEPT ![h] = ListWith(h, p)]
  /\ used' = Without(used, {p})
  /\ want' = Without(want, {p})
  /\ dog' = Only(With(dog, End(used, p) - 1, "free"), TagsOf(list', used'))
  /\ UNCHANGED <<base, size, watermark, freeWatermark>>

\* The pointer handed to the caller points past the header.
Pointer(p) == p + HeadSize

\* Slip: the search ends at the first heap that does not hold p.
SearchedFirstOnly(f, p) ==
  IF f \in Slots THEN {f} ELSE {h \in Slots : h = 1 /\ InHeap(h, Pointer(p))}

\* The heap in which a free with handle f looks for p: the one of the
\* handle, or with handle 0 the first match before the first empty slot.
Searched(f, p) ==
  IF f \in Slots THEN {f}
  ELSE {h \in Slots : InHeap(h, Pointer(p)) /\ \A i \in 1..(h - 1) : size[i] > 0}

\* The part of a free that touches the heap; a block that no searched heap
\* holds stays in use although its owner has given it up.
Release(f, p) ==
  IF Searched(f, p) = {}
  THEN lost' = lost \cup {p} /\ UNCHANGED <<heapVars, used, dog, freeSize, freeWatermark, want>>
  ELSE Deallocate(Lowest(Searched(f, p)), p) /\ UNCHANGED lost

\* Blocks an owner may still pass to the allocator, and the handles with
\* which it may: the heap it came from, or 0.
Owned == DOMAIN used \ ({m[1] : m \in moving} \cup lost)
Handles(p) == {h \in Slots : p \in BlocksOf(h, used)} \cup {0}

Free(f, p) == Release(f, p) /\ UNCHANGED moving

-----------------------------------------------------------------------------
(* realloc allocates, copies and only then frees: between the two critical *)
(* sections other threads use the heap.                                    *)

\* The block already holds n bytes: nothing moves.
ReallocKeep(p, n) ==
  /\ TagIs(End(used, p) - 1, "use")
  /\ BlockSize(n) <= used[p]
  /\ want' = [want EXCEPT ![p] = Request(n)]
  /\ UNCHANGED <<heapVars, used, dog, freeSize, freeWatermark, ownerVars>>

ReallocMove(f, p, n) ==
  /\ TagIs(End(used, p) - 1, "use")
  /\ BlockSize(n) > used[p] /\ Cardinality(moving) < MaxMoving
  /\ \E h \in Slots : /\ f = h \/ (f = 0 /\ AnyHeap(h, n, n))
                      /\ Allocate(h, n, Request(n))
  /\ moving' = moving \cup {<<p, f>>}
  /\ UNCHANGED lost

\* tuya_mem_heap_debug_realloc always moves.
DebugReallocMove(f, p, n) ==
  /\ Cardinality(moving) < MaxMoving
  /\ \E h \in Slots : /\ f = h \/ (f = 0 /\ AnyHeap(h, n, DebugLen(n)))
                      /\ Allocate(h, DebugLen(n), DebugRequest(n))
  /\ moving' = moving \cup {<<p, f>>}
  /\ UNCHANGED lost

ReallocFree(m) == Release(m[2], m[1]) /\ moving' = moving \ {m}

Next ==
  \/ \E r \in Areas : Create(r[1], r[2])
  \/ \E h \in Slots : Delete(h)
  \/ \E n \in Sizes : MallocAny(n) \/ \E h \in Slots : Malloc(h, n)
  \/ \E n \in DebugSizes : DebugMallocAny(n) \/ \E h \in Slots : DebugMalloc(h, n)
  \/ \E p \in Owned : \E f \in Handles(p) :
       \/ Free(f, p)
       \/ \E n \in Sizes : ReallocMove(f, p, n)
       \/ \E n \in DebugSizes : DebugReallocMove(f, p, n)
  \/ \E p \in Owned, n \in Sizes : ReallocKeep(p, n)
  \/ \E m \in moving : ReallocFree(m)

Spec == Init /\ [][Next]_vars

-----------------------------------------------------------------------------
Blocks(h) == DOMAIN list[h] \cup BlocksOf(h, used)
Len(h, a) == IF a \in DOMAIN list[h] THEN list[h][a] ELSE used[a]

\* The blocks of a heap, free and in use, cover its aligned area exactly
\* once: no byte is in two blocks and none is lost, whatever the order of
\* allocations, frees and reallocations.
Tiling ==
  \A h \in Slots : size[h] > 0 =>
    /\ First(h) \in Blocks(h)
    /\ DOMAIN list[h] \cap DOMAIN used = {}
    /\ \A a \in Blocks(h) :
         LET end == a + Len(h, a)
         IN  /\ end = Limit(h) \/ end \in Blocks(h)
             /\ \A b \in Blocks(h) : a < b => end <= b

\* Two free blocks never touch: every free merges in both directions.
FullyCoalesced ==
  \A h \in Slots : \A a, b \in DOMAIN list[h] : End(list[h], a) # b

\* The last byte of a block tells a free block from one in use, which is all
\* that free and realloc look at.
TagsAgree ==
  /\ \A h \in Slots : \A a \in DOMAIN list[h] : TagIs(End(list[h], a) - 1, "free")
  /\ \A a \in DOMAIN used : TagIs(End(used, a) - 1, "use")

\* heap->free is what the free list holds; the watermark never exceeds it.
CountsAgree ==
  \A h \in Slots : /\ free[h] = MapThenSumSet(LAMBDA a : list[h][a], DOMAIN list[h])
                   /\ watermark[h] <= free[h]

\* A block holds what was asked for beside its header, its tag and, for a
\* debug allocation, the leak record in front of the tag ("old buffer is big
\* enough" in realloc), and once freed its two header words and its tag.
GrantFits ==
  \A p \in DOMAIN used :
     /\ HeadSize + want[p].n <= used[p] - (IF want[p].leak THEN LeakSize + Align ELSE 1)
     /\ 2 * HeadSize + 1 <= used[p]

\* A free without a handle loses a block only when a slot before the
\* block's heap is empty, which stops the search.
LostBehindGap ==
  [][\A p \in lost' \ lost : \E h, i \in Slots :
       i < h /\ p \in BlocksOf(h, used) /\ size[i] = 0]_vars

\* The blocks in use are those of an allocator that never hands out a byte
\* twice.
Abstract == INSTANCE Allocator WITH live <- used
ImplementsAllocator == Abstract!AllocSpec
=============================================================================
