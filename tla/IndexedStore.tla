---------------------------- MODULE IndexedStore ----------------------------
(***************************************************************************)
(* What a list with registered entries promises: a map from keys to         *)
(* contents that a reader finds the same in the data tree and in the index  *)
(* XPath expressions are resolved with, after every call.                   *)
(***************************************************************************)
CONSTANTS Names, Contents(_), Absent

VARIABLES tree, index

Init ==
  /\ tree = [n \in Names |-> Absent]
  /\ index = tree

Put(n) == \E c \in Contents(n) : tree' = [tree EXCEPT ![n] = c]

Remove(n) == tree' = [tree EXCEPT ![n] = Absent]

Next ==
  /\ \E n \in Names : Put(n) \/ Remove(n)
  /\ index' = tree'

Spec == Init /\ [][Next]_<<tree, index>>
=============================================================================
