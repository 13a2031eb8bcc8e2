------------------------- MODULE ContainerTreeImpl -------------------------
(***************************************************************************)
(* ContainerTree implements ConfigTree.  Three history variables carry the  *)
(* abstract state: `seen`, the data reachable from the root when the last   *)
(* setter returned, `doing`, the operation under way, and `last`, the last  *)
(* one that returned.  They never constrain the steps of ContainerTree.     *)
(***************************************************************************)
EXTENDS ContainerTree

VARIABLES seen, doing, last

ivars == <<vars, seen, doing, last>>

LeavesUnder(n) == {l \in Leaves : l = n \/ (n \in Containers /\ Parent[l] \in Sub[n])}

Path(n) == {c \in Nodes : c = n \/ (c \in Containers /\ Parent[n] \in Sub[c])}

RivalsOf(n) ==
  {l \in Leaves : \E d \in Path(n), e \in Path(l) :
      /\ Parent[d] = Parent[e] /\ Parent[d] # Root
      /\ ChoiceOf[d] # NoChoice /\ ChoiceOf[e] # NoChoice
      /\ ChoiceOf[d][1] = ChoiceOf[e][1] /\ ChoiceOf[d][2] # ChoiceOf[e][2]}

\* The data below object o, as attribute access from o finds it.
DataBelow(o) ==
  LET gen[c \in Sub[o[1]]] ==
        IF c = o[1] THEN o[2] ELSE kid[<<Parent[c], gen[Parent[c]]>>][c]
  IN [l \in LeavesUnder(o[1]) |-> leaf[<<Parent[l], gen[Parent[l]]>>][l]]

LiveData == DataBelow(RootObj)

IsLive(o) == o[2] = Live[o[1]]

UnderTable == [n \in Nodes |-> LeavesUnder(n)]
RivalTable == [n \in Nodes |-> RivalsOf(n)]

Abstract == INSTANCE ConfigTree
  WITH data <- seen, Under <- UnderTable, Rivals <- RivalTable

IInit ==
  /\ Init
  /\ seen = [l \in Leaves |-> Unset]
  /\ doing = <<"none">>
  /\ last = <<"none">>

Finish ==
  /\ seen' = IF setter' = Idle THEN LiveData' ELSE seen
  /\ last' = IF setter' = Idle THEN doing' ELSE last

Start ==
  /\ setter = Idle
  /\ \E o \in Usable :
    \/ Keep(o) /\ UNCHANGED doing
    \/ Drop(o) /\ UNCHANGED doing
    \/ \E l \in Leaves, v \in Values, ok \in BOOLEAN :
         /\ SetLeaf(o, l, v, ok)
         /\ doing' = IF ok /\ IsLive(o) THEN <<"write", l, v>> ELSE <<"touch", l>>
    \/ \E c \in Copyable, src \in Usable :
         /\ SetContainer(o, c, src)
         /\ doing' = IF IsLive(o) THEN <<"replace", c, DataBelow(src)>> ELSE <<"touch", c>>
    \/ \E n \in Nodes :
         /\ UnsetElement(o, n)
         /\ doing' = IF IsLive(o) THEN <<"unset", n>> ELSE <<"none">>
    \/ SetPresent(o) /\ doing' = <<"touch", o[1]>>
    \/ ClearPresent(o) /\ doing' = <<"none">>

Continue == SetStep \/ StoreLeaf \/ RejectLeaf \/ CopyContainer

INext ==
  /\ \/ Collect /\ UNCHANGED doing
     \/ Garbage = {} /\ Start
     \/ Garbage = {} /\ Continue /\ UNCHANGED doing
  /\ Finish

ISpec == IInit /\ [][INext]_ivars

\* Setters, copies and resets, through live and stale handles, do to the
\* reachable data what ConfigTree says: a write stores its value and erases
\* its rivals only, a copy carries over all of its source.
ImplementsConfigTree == Abstract!Spec

\* No two leaves that lie in different cases of a choice hold values at once,
\* anywhere in the tree a program can reach ("two `case` elements of a choice
\* cannot co-exist", docs/generic_methods.md:71).
CasesDoNotCoexist ==
  setter = Idle =>
    \A l \in Leaves : LiveData[l] # Unset =>
      \A k \in RivalTable[l] : LiveData[k] = Unset

\* A write makes no leaf lose its value but those in another case ("used to
\* call `_unset_X` ... when a member of another `case` is set",
\* docs/generic_methods.md:71).
WritesEraseOnlyOtherCases ==
  [][\A k \in Leaves :
       seen[k] # Unset /\ seen'[k] = Unset /\ last'[1] = "write"
         => k \in RivalTable[last'[2]]]_ivars
=============================================================================
