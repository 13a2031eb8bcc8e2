---------------------------- MODULE ListPrograms ----------------------------
(***************************************************************************)
(* The programs that use a list (ListRegistry): one makes any of the calls, *)
(* one only those that keep tree and registry together, one only those that *)
(* mark the list.  What is promised to each is stated here, for all lists.  *)
(***************************************************************************)
EXTENDS ListRegistry

VARIABLE program

TreeCalls ==
  \/ \E k \in Natives : Add(k) \/ Delete(k)
  \/ \E src \in Sources : src.key \in Natives /\ AppendItem(src)
  \/ \E src \in Sources : \E k \in Natives : SetItem(k, src)
  \/ \E e \in Reached : SetV(e, Null, FALSE) \/ \E v \in Values : SetV(e, v, TRUE)

MarkingCalls ==
  \/ \E k \in Keys : Delete(k) \/ DelItem(k)
  \/ \E src \in Sources : AppendItem(src) \/ \E k \in Keys : SetItem(k, src)
  \/ UnsetList
  \/ \E v \in Values : SetZ(v)
  \/ \E e \in Reached : SetV(e, Null, FALSE) \/ \E v \in Values : SetV(e, v, TRUE)
  \/ \E e \in {members[k] : k \in Keys} \ {None} : Keep(e)
  \/ \E e \in held : Drop(e)

ProgramInit == Init /\ program \in {"any", "tree", "marking"}

ProgramNext ==
  /\ program' = program
  /\ \/ program = "any" /\ Next
     \/ program = "tree" /\ TreeCalls
     \/ program = "marking" /\ MarkingCalls

ProgramSpec == ProgramInit /\ [][ProgramNext]_<<vars, program>>

-----------------------------------------------------------------------------
(* The properties, of the programs they are claimed for (README, Runs)       *)

\* What is registered is in the list, with the calls that unregister.
TreeNothingRemovedResolves == program = "tree" => NothingRemovedResolves

\* With these calls, tree and registry are one map, as IndexedStore has it.
TreeImplementsStore ==
  /\ program = "tree" => Store!Init
  /\ [][program = "tree" => [Store!Next]_<<InTree, ByPath>>]_<<vars, program>>

\* Of the calls that mark the list none brings both cases together.
MarkedCasesExclusive == program = "marking" => CasesExclusive

\* With these calls, no write of another entry loses an entry.
MarkedWritesKeepEntries ==
  [][ program = "marking" =>
        \A k \in Keys :
          members[k] # None /\ members'[k] = None =>
            members' = [members EXCEPT ![k] = None] \/ ~listChanged' ]_<<vars, program>>
=============================================================================
