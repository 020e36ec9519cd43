------------------------------ MODULE MultiMap ------------------------------
(***************************************************************************)
(* What a hash map that keeps every value put under a key promises: the    *)
(* values of each key, the newest first, and nothing a call on one key     *)
(* does is seen under another.                                             *)
(***************************************************************************)
EXTENDS Naturals, Sequences

CONSTANTS Keys, Datas, Any, OK, Missing, NoMemory

VARIABLES
  content,  \* for each key, the values put under it and not removed
  answer    \* the last call, and what it answered

MultiMapInit == content = [k \in Keys |-> <<>>] /\ answer = <<>>

Put(k, d) ==
  \/ content' = [content EXCEPT ![k] = <<d>> \o @] /\ answer' = <<"put", k, d, OK>>
  \/ answer' = <<"put", k, d, NoMemory>> /\ UNCHANGED content

Get(k) ==
  /\ answer' = <<"get", k>> \o IF content[k] = <<>> THEN <<Missing>> ELSE <<OK, Head(content[k])>>
  /\ UNCHANGED content

\* One step of a traversal: a value of the key, or the end.
Traverse(k) ==
  /\ \/ answer' = <<"traverse", k, Missing>>
     \/ \E i \in DOMAIN content[k] : answer' = <<"traverse", k, OK, content[k][i]>>
  /\ UNCHANGED content

Wanted(k, d) == {i \in DOMAIN content[k] : d = Any \/ content[k][i] = d}

\* The newest value that is asked for, or nothing when there is none.
Remove(k, d) ==
  \/ /\ Wanted(k, d) = {}
     /\ answer' = <<"remove", k, d, Missing>>
     /\ UNCHANGED content
  \/ \E i \in Wanted(k, d) :
       /\ \A j \in Wanted(k, d) : i <= j
       /\ content' = [content EXCEPT ![k] = SubSeq(@, 1, i - 1) \o SubSeq(@, i + 1, Len(@))]
       /\ answer' = <<"remove", k, d, OK>>

MultiMapNext ==
  \E k \in Keys :
    \/ Get(k) \/ Traverse(k)
    \/ \E d \in Datas : Put(k, d)
    \/ \E d \in Datas \cup {Any} : Remove(k, d)

MultiMapSpec == MultiMapInit /\ [][MultiMapNext]_<<content, answer>>
=============================================================================
