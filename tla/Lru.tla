--------------------------------- MODULE Lru ---------------------------------
(***************************************************************************)
(* What a cache of bounded size promises: the entries in order of use, the *)
(* most recent first, one for each key; the least recent make room for a   *)
(* new one; each entry lives for a time from when it was written, however  *)
(* often it is used, and one that has outlived it is as good as absent,    *)
(* and is dropped when it is asked for.                                    *)
(***************************************************************************)
EXTENDS Naturals, Sequences, SequencesExt

CONSTANTS Keys, Values, Capacity, Lifetime   \* a Lifetime of zero is unbounded

VARIABLE recent   \* entries [key, value, age]

Held       == {recent[i].key : i \in DOMAIN recent}
Most(s, n) == SubSeq(s, 1, IF Len(s) < n THEN Len(s) ELSE n)
Stale(e)   == Lifetime # 0 /\ e.age >= Lifetime

Init == recent = <<>>

\* The entry at i is asked for.
Get(i) == recent' = (IF Stale(recent[i]) THEN <<>> ELSE <<recent[i]>>) \o RemoveAt(recent, i)

\* A new entry always fits, be the capacity zero.
Put ==
  /\ recent' # <<>> /\ Head(recent') \in [key : Keys, value : Values, age : {0}]
  /\ \/ \E i \in DOMAIN recent :
          recent[i].key = Head(recent').key /\ Tail(recent') = RemoveAt(recent, i)
     \/ /\ Head(recent').key \notin Held
        /\ Tail(recent') = Most(recent, IF Capacity = 0 THEN 0 ELSE Capacity - 1)

Age ==
  recent' = [i \in DOMAIN recent |->
               [recent[i] EXCEPT !.age = IF @ < Lifetime THEN @ + 1 ELSE @]]

Clear == recent' = <<>>

Next ==
  \/ \E i \in DOMAIN recent : Get(i)
  \/ Put \/ Age \/ Clear

Spec == Init /\ [][Next]_recent

=============================================================================
