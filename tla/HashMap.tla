------------------------------- MODULE HashMap ------------------------------
(***************************************************************************)
(* The hash map of the utilities (tuya_hashmap.c) down to the pointers of  *)
(* its bucket lists (tuya_hlist.h). Several elements may have one key; a   *)
(* caller sees them one at a time through an iterator, and puts and        *)
(* removes other elements while it does.                                   *)
(*                                                                         *)
(* The map has no lock: its calls do not overlap. A caller never removes   *)
(* the element its iterator is at, whose memory the next step reads.       *)
(***************************************************************************)
EXTENDS Integers, Sequences, FiniteSets

CONSTANTS
  Keys, Datas,
  Elements,          \* what the heap can hold: cells of one HASHMAP_ELEMENT_T
  TableSizes,        \* the sizes the map is created with
  HashValues,        \* what hashing a key gives before the last "%"
  NULL,
  RemovesAnything    \* TRUE when callers also remove what is not in the map

ASSUME HashMapAssumption ==
  /\ IsFiniteSet(Elements) /\ Elements \cap Nat = {}
  /\ NULL \notin Elements \cup Datas \cup [key : Keys, data : Datas]
  /\ NULL \notin [size : Nat, table_size : Nat]
  /\ TableSizes \subseteq Nat
  /\ HashValues \subseteq Nat
  /\ RemovesAnything \in BOOLEAN

VARIABLES
  hash,    \* the hash of each key
  map,     \* NULL, or m->size and m->table_size
  first,   \* m->list: the first element of each bucket
  next,    \* node.next of each element
  pprev,   \* node.pprev: the bucket or the element whose pointer points here
  elem,    \* NULL for a free cell, else its key and data
  iter,    \* NULL, or the element a traversal is at
  due,     \* (history) the elements the traversal still has to show
  answer   \* the last call on an element, and what it answered

vars == <<hash, map, first, next, pprev, elem, iter, due, answer>>

OK == "MAP_OK"
Missing == "MAP_MISSING"
NoMemory == "MAP_OMEM"

Live == {e \in Elements : elem[e] # NULL}
Buckets == IF map = NULL THEN {} ELSE 0 .. map.table_size - 1
Bucket(k) == hash[k] % map.table_size

(***************************************************************************)
(* Walking a list from a pointer: the elements HLIST_FOR_EACH_ENTRY meets. *)
(* No list of this heap is longer than the heap.                           *)
(***************************************************************************)
From(p) ==
  LET nth[i \in 0 .. Cardinality(Elements)] ==
        IF i = 0 THEN p ELSE IF nth[i - 1] = NULL THEN NULL ELSE next[nth[i - 1]]
      len == Cardinality({i \in DOMAIN nth : nth[i] # NULL})
  IN [i \in 1 .. len |-> nth[i - 1]]

Asked(k, d) == {e \in Live : elem[e].key = k /\ (d = NULL \/ elem[e].data = d)}

\* The first element of a walk that is wanted, or NULL.
FirstOf(walk, wanted) ==
  LET places == {i \in DOMAIN walk : walk[i] \in wanted}
  IN IF places = {} THEN NULL
     ELSE walk[CHOOSE i \in places : \A j \in places : i <= j]

Find(k) == FirstOf(From(first[Bucket(k)]), Asked(k, NULL))
Found(e) == IF e = NULL THEN <<Missing>> ELSE <<OK, elem[e].data>>
\* A slip: a traversal ends at the first element of another key.
FindNextStopsShort(e) ==
  IF next[e] # NULL /\ elem[next[e]].key = elem[e].key THEN next[e] ELSE NULL
FindNext(e) == FirstOf(From(next[e]), Asked(elem[e].key, NULL))

\* A slip: the data is not compared.
RemoveStopsAtKey(k, d) ==
  LET walk == From(first[Bucket(k)])
      e == FirstOf(walk, Asked(k, NULL))
  IN IF e # NULL THEN e ELSE walk[Len(walk)]

\* The element the loop of tuya_hashmap_remove stops at: the first that is
\* asked for or, when none is, the last of the bucket.
RemoveStopsAt(k, d) ==
  LET walk == From(first[Bucket(k)])
      e == FirstOf(walk, Asked(k, d))
  IN IF e # NULL THEN e ELSE walk[Len(walk)]

(***************************************************************************)
(* tuya_hlist_add_head and __tuya_hlist_del.                               *)
(***************************************************************************)
AddHead(e, b) ==
  /\ next' = [next EXCEPT ![e] = first[b]]
  /\ pprev' = [x \in Elements |-> CASE x = e -> b
                                    [] x # e /\ x = first[b] -> e
                                    [] OTHER -> pprev[x]]
  /\ first' = [first EXCEPT ![b] = e]

\* A slip: the element behind keeps its pprev.
UnlinkOneWay(e) ==
  /\ first' = IF pprev[e] \in Elements THEN first ELSE [first EXCEPT ![pprev[e]] = next[e]]
  /\ next' = [x \in Elements |-> CASE x = e -> NULL
                                   [] x # e /\ x = pprev[e] -> next[e]
                                   [] OTHER -> next[x]]
  /\ pprev' = [pprev EXCEPT ![e] = NULL]

\* What the freed element holds is forgotten: nobody reads it again.
Unlink(e) ==
  /\ first' = IF pprev[e] \in Elements THEN first ELSE [first EXCEPT ![pprev[e]] = next[e]]
  /\ next' = [x \in Elements |-> CASE x = e -> NULL
                                   [] x # e /\ x = pprev[e] -> next[e]
                                   [] OTHER -> next[x]]
  /\ pprev' = [x \in Elements |-> CASE x = e -> NULL
                                    [] x # e /\ x = next[e] -> pprev[e]
                                    [] OTHER -> pprev[x]]

CountSize(n) == map' = [map EXCEPT !.size = @ + n]

(***************************************************************************)
(* The calls.                                                              *)
(***************************************************************************)
Init ==
  /\ hash \in [Keys -> HashValues]
  /\ map = NULL
  /\ first = <<>>
  /\ next = [e \in Elements |-> NULL]
  /\ pprev = [e \in Elements |-> NULL]
  /\ elem = [e \in Elements |-> NULL]
  /\ iter = NULL
  /\ due = {}
  /\ answer = <<>>

\* tuya_hashmap_new: no map for no buckets, nor when either malloc fails.
New(table_size) ==
  /\ map = NULL
  /\ \/ /\ table_size > 0
        /\ map' = [size |-> 0, table_size |-> table_size]
        /\ first' = [b \in 0 .. table_size - 1 |-> NULL]
     \/ UNCHANGED <<map, first>>
  /\ UNCHANGED <<hash, next, pprev, elem, iter, due, answer>>

Put(k, d) ==
  /\ map # NULL
  /\ \E e \in Elements \ Live :
       /\ elem' = [elem EXCEPT ![e] = [key |-> k, data |-> d]]
       /\ AddHead(e, Bucket(k))
  /\ CountSize(1)
  /\ answer' = <<"put", k, d, OK>>
  /\ UNCHANGED <<hash, iter, due>>

\* The malloc of a put fails.
PutFails(k, d) ==
  /\ map # NULL
  /\ answer' = <<"put", k, d, NoMemory>>
  /\ UNCHANGED <<hash, map, first, next, pprev, elem, iter, due>>

Get(k) ==
  /\ map # NULL
  /\ answer' = <<"get", k>> \o Found(Find(k))
  /\ UNCHANGED <<hash, map, first, next, pprev, elem, iter, due>>

\* tuya_hashmap_data_traversal with no iterator: the first of the key. A
\* traversal that was under way is abandoned.
TraverseFirst(k) ==
  /\ map # NULL
  /\ iter' = Find(k)
  /\ due' = {e \in Live : elem[e].key = k} \ {Find(k)}
  /\ answer' = <<"traverse", k>> \o Found(Find(k))
  /\ UNCHANGED <<hash, map, first, next, pprev, elem>>

\* ... and with one: the next of the key the iterator is at.
TraverseNext ==
  /\ map # NULL
  /\ iter # NULL
  /\ iter' = FindNext(iter)
  /\ due' = due \ {FindNext(iter)}
  /\ answer' = <<"traverse", elem[iter].key>> \o Found(FindNext(iter))
  /\ UNCHANGED <<hash, map, first, next, pprev, elem>>

\* data is NULL for any element of the key.
Remove(k, d) ==
  /\ map # NULL
  /\ RemovesAnything \/ Asked(k, d) # {} \/ first[Bucket(k)] = NULL
  /\ IF first[Bucket(k)] = NULL
       THEN /\ answer' = <<"remove", k, d, Missing>>
            /\ UNCHANGED <<map, first, next, pprev, elem, due>>
       ELSE LET e == RemoveStopsAt(k, d)
            IN /\ e # iter
               /\ Unlink(e)
               /\ elem' = [elem EXCEPT ![e] = NULL]
               /\ CountSize(-1)
               /\ due' = due \ {e}
               /\ answer' = <<"remove", k, d, OK>>
  /\ UNCHANGED <<hash, iter>>

\* tuya_hashmap_length: what a caller goes by before it frees the map.
Length == IF map # NULL THEN map.size ELSE 0

\* Its callers free the map once it says that it is empty.
Free ==
  /\ map # NULL
  /\ Length = 0
  /\ map' = NULL
  /\ first' = <<>>
  /\ iter' = NULL
  /\ due' = {}
  /\ UNCHANGED <<hash, next, pprev, elem, answer>>

Next ==
  \/ \E n \in TableSizes : New(n)
  \/ \E k \in Keys :
       \/ Get(k) \/ TraverseFirst(k)
       \/ \E d \in Datas : Put(k, d) \/ PutFails(k, d)
       \/ \E d \in Datas \cup {NULL} : Remove(k, d)
  \/ TraverseNext \/ Free

Spec == Init /\ [][Next]_vars

(***************************************************************************)
(* Properties.                                                             *)
(***************************************************************************)

\* Every live element is reached from exactly the bucket its key hashes to,
\* exactly once, and its pprev names the pointer that points to it: what
\* tuya_hlist_add_head and __tuya_hlist_del have to keep for __hash_find to
\* find it again.  m->size counts them, so that a map that is freed because
\* tuya_hashmap_length calls it empty leaks none.
WellLinked ==
  /\ Length = Cardinality(Live)
  /\ map = NULL => Live = {}
  /\ \A b \in Buckets :
       LET walk == From(first[b])
       IN /\ {walk[i] : i \in DOMAIN walk} = {e \in Live : Bucket(elem[e].key) = b}
          /\ \A i \in DOMAIN walk :
               pprev[walk[i]] = IF i = 1 THEN b ELSE walk[i - 1]

\* A traversal shows every element that was under its key when it began and
\* has not been removed, each one once, whatever is put and removed between its
\* steps: what is still due is what lies behind the iterator in its bucket.
TraversalExact ==
  due = IF iter = NULL THEN {}
        ELSE LET behind == From(next[iter])
             IN {behind[i] : i \in DOMAIN behind} \cap Asked(elem[iter].key, NULL)

\* The map is a MultiMap: each call answers and does what that one would, with
\* the data of a key's elements in the order of its bucket.
ContentOf(k) ==
  IF map = NULL THEN <<>>
  ELSE LET walk == From(first[Bucket(k)])
           kept[i \in 0 .. Len(walk)] ==
             IF i = 0 THEN <<>>
             ELSE IF elem[walk[i]].key = k THEN Append(kept[i - 1], elem[walk[i]].data)
             ELSE kept[i - 1]
       IN kept[Len(walk)]

Abstract == INSTANCE MultiMap WITH
  content <- [k \in Keys |-> ContentOf(k)],
  Any <- NULL

ImplementsMultiMap == Abstract!MultiMapSpec

\* "If data is not null, then delete the node match key and data", and when it
\* is, the first node of the key: what a remove takes was asked for.
RemovesWhatIsAsked ==
  [][\A e \in Live : elem'[e] = NULL =>
       elem[e].key = answer'[2] /\ answer'[3] \in {NULL, elem[e].data}]_vars
=============================================================================
