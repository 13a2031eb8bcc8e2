----------------------------- MODULE ConfigTree -----------------------------
(***************************************************************************)
(* What the generated containers promise about configuration data, without  *)
(* objects, flags or call chains: the value of every leaf a program can     *)
(* reach from the root, and the operation that gave the tree its present    *)
(* value.  Two leaves are rivals when they lie in different cases of a       *)
(* choice ("two `case` elements of a choice cannot co-exist",               *)
(* docs/generic_methods.md:71).                                             *)
(***************************************************************************)
CONSTANTS
  Nodes, Leaves, Values, Unset,
  Under,     \* Under[n]: the leaves at or below node n
  Rivals     \* Rivals[n]: the leaves in another case than node n

VARIABLES
  data,      \* data[l]: the value of leaf l, or Unset
  last       \* the last operation

TypeOK == data \in [Leaves -> Values \cup {Unset}]

Erased(S) == [l \in Leaves |-> IF l \in S THEN Unset ELSE data[l]]

Init == data = [l \in Leaves |-> Unset] /\ last = <<"none">>

\* A write stores its value and erases its rivals, nothing else.
Write(l, v) ==
  /\ data' = [Erased(Rivals[l]) EXCEPT ![l] = v]
  /\ last' = <<"write", l, v>>

\* A container assignment replaces all that is below it.
Replace(n, f) ==
  /\ data' = [l \in Leaves |-> IF l \in Under[n] THEN f[l] ELSE Erased(Rivals[n])[l]]
  /\ last' = <<"replace", n, f>>

\* A write that is rejected late, a write through a stale handle and a
\* presence mark store nothing, but may erase rivals.
Touch(n) ==
  /\ \E S \in SUBSET Rivals[n] : data' = Erased(S)
  /\ last' = <<"touch", n>>

Reset(n) ==
  /\ data' = Erased(Under[n])
  /\ last' = <<"unset", n>>

\* An operation that leaves the reachable data alone.
Skip == data' = data /\ last' = <<"none">>

Next ==
  \/ \E l \in Leaves, v \in Values : Write(l, v)
  \/ \E n \in Nodes : \/ Touch(n)
                      \/ Reset(n)
                      \/ \E f \in [Under[n] -> Values \cup {Unset}] : Replace(n, f)
  \/ Skip

Spec == Init /\ [][Next]_<<data, last>>
=============================================================================
