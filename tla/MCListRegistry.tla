--------------------------- MODULE MCListRegistry ---------------------------
(* A list with an int key and two entries, next to a leaf in another case.    *)
(* "n0" and "n1" stand for the numbers, "bad" for a string that is no number. *)
EXTENDS ListPrograms

MCText   == [k \in Keys |-> CASE k = "n0" -> "0" [] k = "n1" -> "1" [] OTHER -> k]
MCNative == [k \in Keys |-> IF k \in Natives THEN k ELSE Invalid]
AllCalls == {"add", "append", "set", "delete", "del", "unset", "assign"}

\* Bounds: one value suffices where handles are kept; three entries let a
\* removed one be registered, or kept, next to those in the list.  Keys the
\* leaf refuses are left to the first program.
Few(n) == DOMAIN entry' \subseteq 1..n
OneValue ==
  /\ z'.val # "b"
  /\ \A e \in DOMAIN entry' : entry'[e].val # "b"

NoneRefused == \A k \in Keys \ Natives : reg'[EntryPath(Text[k])] = None

MCNext ==
  /\ ProgramNext
  /\ program # "tree" => OneValue
  /\ program = "any" => Few(3)
  /\ program = "marking" => Few(4) /\ NoneRefused
MCSpec == ProgramInit /\ [][MCNext]_<<vars, program>>
=============================================================================
