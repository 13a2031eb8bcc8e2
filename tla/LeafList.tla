------------------------------ MODULE LeafList ------------------------------
(***************************************************************************)
(* A leaf-list of a container, as a program uses it: assigned as a whole,    *)
(* or changed by the methods of a Python list (the wrapper YANGBaseClass of  *)
(* YANGDynClass over TypedListType, lib/yangtypes.py).                       *)
(*                                                                         *)
(* The leaf-list and a leaf z are the two cases of a choice.  The wrapper    *)
(* tells the container of a change, which drops the other case, before the   *)
(* method of the list has looked at the value.  The two loops that can end   *)
(* in the middle, over the values of an assignment and of extend(), are      *)
(* steps of their own; nothing else runs meanwhile.                          *)
(***************************************************************************)
EXTENDS TypedList

CONSTANTS
  Others,    \* the values of z
  Null,      \* z is not set
  Given,     \* the sequences of values a program assigns or extends by
  MaxItems   \* bound: the length of the list

ASSUME LeafListAssumption ==
  /\ Null \notin Others
  /\ Given \subseteq Seq(Passed)
  /\ MaxItems \in Nat

VARIABLES
  items,    \* the members
  changed,  \* the leaf-list's `_changed()`
  z,        \* the leaf of the other case
  loop      \* the loop that runs: what it is for, what is left, what it made

vars == <<items, changed, z, loop>>

NoLoop == [for |-> "none", left |-> <<>>, made |-> <<>>]
Idle   == loop = NoLoop

TypeOK ==
  /\ items \in Seq(Natives)
  /\ changed \in BOOLEAN
  /\ z \in Others \cup {Null}
  /\ loop \in [for : {"none", "assign", "extend"}, left : Seq(Passed), made : Seq(Natives)]

Init == items = <<>> /\ changed = FALSE /\ z = Null /\ loop = NoLoop

-----------------------------------------------------------------------------
\* Mutant: the container is not told, and keeps the other case.
AnnounceNever == changed' = TRUE /\ z' = z

\* The wrapper's `_set()`: the leaf-list is changed, the other case dropped.
Announce == changed' = TRUE /\ z' = Null

\* The new object tells the container before it has looked at a value.
AssignBegin(vs) ==
  /\ Idle
  /\ loop' = [for |-> "assign", left |-> vs, made |-> <<>>]
  /\ z' = Null
  /\ UNCHANGED <<items, changed>>

AssignNext ==
  LET p == Head(loop.left)
  IN /\ loop.for = "assign" /\ loop.left # <<>>
     /\ Has(loop.made, p) \/ Accepts(p)
     /\ loop' = [loop EXCEPT !.left = Tail(@), !.made = Collected(@, p)]
     /\ UNCHANGED <<items, changed, z>>

AssignRefused ==
  /\ loop.for = "assign" /\ loop.left # <<>>
  /\ ~Has(loop.made, Head(loop.left)) /\ ~Accepts(Head(loop.left))
  /\ loop' = NoLoop
  /\ UNCHANGED <<items, changed, z>>

AssignEnd ==
  /\ loop.for = "assign" /\ loop.left = <<>>
  /\ items' = loop.made
  /\ changed' = TRUE
  /\ loop' = NoLoop
  /\ UNCHANGED z

-----------------------------------------------------------------------------
Room == Len(items) < MaxItems

AppendItem(p) ==
  /\ Idle /\ Room
  /\ items' = IF AppendRefused(items, p) THEN items ELSE Appended(items, p)
  /\ Announce /\ UNCHANGED loop

\* insert(i, p), and l[i] = p.
Insert(i, p) ==
  /\ Idle /\ Room
  /\ items' = IF InsertRefused(items, p) THEN items ELSE Inserted(items, i, p)
  /\ Announce /\ UNCHANGED loop

\* Without `_set()`: the wrapper has no method of its own for `del l[i]`.
DelItem(i) ==
  /\ Idle
  /\ items' = Deleted(items, i)
  /\ UNCHANGED <<changed, z, loop>>

\* pop(), of the last member; an empty list raises.
Pop ==
  /\ Idle
  /\ items' = IF items = <<>> THEN items ELSE Deleted(items, Len(items))
  /\ Announce /\ UNCHANGED loop

\* remove(p); a value that is not there raises.
RemoveItem(p) ==
  /\ Idle
  /\ items' = IF Has(items, p) THEN Removed(items, p) ELSE items
  /\ Announce /\ UNCHANGED loop

ExtendBegin(vs) ==
  /\ Idle /\ Len(items) + Len(vs) <= MaxItems
  /\ loop' = [for |-> "extend", left |-> vs, made |-> items]
  /\ Announce /\ UNCHANGED items

ExtendNext ==
  LET p == Head(loop.left)
  IN /\ loop.for = "extend" /\ loop.left # <<>>
     /\ ~AppendRefused(items, p)
     /\ items' = Appended(items, p)
     /\ loop' = [loop EXCEPT !.left = Tail(@)]
     /\ Announce

\* The loop ends, with its last value or at one that is refused.
ExtendEnd ==
  /\ loop.for = "extend"
  /\ loop.left # <<>> => AppendRefused(items, Head(loop.left))
  /\ loop' = NoLoop
  /\ UNCHANGED <<items, changed, z>>

UnsetList ==
  /\ Idle
  /\ items' = <<>> /\ changed' = FALSE
  /\ UNCHANGED <<z, loop>>

\* The leaf of the other case is set, or refuses its value: in any case the
\* leaf-list is made anew before.
SetZ(v) ==
  /\ Idle
  /\ z' \in {v, z} /\ items' = <<>> /\ changed' = FALSE
  /\ UNCHANGED loop

LoopStep == AssignNext \/ AssignRefused \/ AssignEnd \/ ExtendNext \/ ExtendEnd

Next ==
  \/ \E vs \in Given : AssignBegin(vs) \/ ExtendBegin(vs)
  \/ LoopStep
  \/ \E p \in Passed : AppendItem(p) \/ RemoveItem(p)
  \/ \E p \in Passed, i \in 1..(Len(items) + 1) : Insert(i, p)
  \/ \E i \in DOMAIN items : DelItem(i)
  \/ Pop \/ UnsetList
  \/ \E v \in Others : SetZ(v)

Spec == Init /\ [][Next]_vars

-----------------------------------------------------------------------------
(* Properties                                                              *)

\* Nothing but n itself is converted to n.
Exact(n) == \A p \in Passed : Native[p] = n => p = n

\* A value is in the list twice only if it may come in another form: append(),
\* insert() and the constructor each test for it in a way of their own, in
\* whatever order they and extend() are called.
MembersDistinct ==
  \A s \in {items, loop.made} : \A i, j \in DOMAIN s : s[i] = s[j] /\ Exact(s[i]) => i = j

\* "Values in this list must be unique."  Nothing is in the list twice.
ValuesUnique == Distinct(items)

\* The two cases are never set together: each method announces the change, and
\* `del`, which does not, cannot bring a member.
OneCase == z # Null => items = <<>> /\ ~changed
=============================================================================
