----------------------------- MODULE References -----------------------------
(***************************************************************************)
(* A leafref of the generated classes with a path helper (ReferenceType,     *)
(* lib/yangtypes.py), and the data its path leads to: the key leaves of a     *)
(* list, a leaf of the entries of a list, or a leaf-list.                     *)
(*                                                                         *)
(* What an assignment does depends on how many objects are registered at the  *)
(* path at that moment.  A single leaf that is no key makes the reference a   *)
(* pointer: the leaf is set to the value, and each read looks the path up     *)
(* anew.  Otherwise the value is looked for among the objects and the one     *)
(* found is kept, or, without require-instance, the value itself.             *)
(***************************************************************************)
EXTENDS Naturals, Sequences, SequencesExt

CONSTANTS
  Keys,
  Values,     \* what a program assigns, Keys among them
  Bad,        \* a value the leaves of the list refuse
  Null,       \* what a leaf nobody has set reads as; it may be in Values
  MaxTargets  \* bound: the objects at the path

VARIABLES
  shape,      \* "keys", "leaf" or "leaf-list"
  require,    \* require-instance
  members,    \* the keys in the list
  targets,    \* what is registered at the path, in its order
  ref,        \* the reference: unset, a pointer, an object found or a value
  changed,    \* the `_changed()` of the container it is in
  assigned,   \* the last value it took
  since       \* whether the program has changed the targets since then

vars == <<shape, require, members, targets, ref, changed, assigned, since>>

Target(k, v, s) == [key |-> k, val |-> v, set |-> s]
UnsetRef == [mode |-> "unset", val |-> Null]

TypeOK ==
  /\ shape \in {"keys", "leaf", "leaf-list"} /\ require \in BOOLEAN
  /\ members \subseteq Keys
  /\ \A i \in DOMAIN targets : targets[i].val \in Values \cup {Null}
  /\ ref.mode \in {"unset", "pointer", "object", "plain"}
  /\ ref.val \in Values \cup {Null, Bad}
  /\ changed \in BOOLEAN /\ since \in BOOLEAN
  /\ shape # "leaf-list" =>
       /\ members \subseteq {targets[i].key : i \in DOMAIN targets}
       /\ \A i, j \in DOMAIN targets : targets[i].key = targets[j].key => i = j

InitWith(s, r) ==
  /\ shape = s /\ require = r
  /\ members = {} /\ targets = <<>>
  /\ ref = UnsetRef /\ changed = FALSE /\ assigned = Null /\ since = FALSE

-----------------------------------------------------------------------------
(* The targets                                                             *)

Found(v) == \E i \in DOMAIN targets : targets[i].val = v
Registered(k) == {i \in DOMAIN targets : targets[i].key = k}
Announced(k)  == IF shape = "keys" THEN Target(k, k, TRUE) ELSE Target(k, Null, FALSE)

\* A registered leaf stays if the new one has the same value.
Replaced(old, new) == IF old.val = new.val THEN old ELSE new
AllReplaced(k, new) ==
  [i \in DOMAIN targets |-> IF i \in Registered(k) THEN Replaced(targets[i], new) ELSE targets[i]]

TargetsBecome(ts) ==
  /\ targets' = ts
  /\ since' = TRUE
  /\ UNCHANGED <<shape, require, ref, changed, assigned>>

\* add(k): what was registered for k is replaced in its place.
AddEntry(k) ==
  /\ shape # "leaf-list" /\ k \notin members
  /\ IF Registered(k) # {}
     THEN TargetsBecome(AllReplaced(k, Announced(k)))
     ELSE Len(targets) < MaxTargets /\ TargetsBecome(Append(targets, Announced(k)))
  /\ members' = members \cup {k}

\* delete(k)
DeleteEntry(k) ==
  /\ shape # "leaf-list" /\ k \in members
  /\ members' = members \ {k}
  /\ \E i \in Registered(k) : TargetsBecome(RemoveAt(targets, i))

\* del lst[k]: the path stays registered.
DelEntry(k) ==
  /\ shape # "leaf-list" /\ k \in members
  /\ members' = members \ {k}
  /\ TargetsBecome(targets)

\* The leaf of an entry in the list.
SetTarget(k, v) ==
  /\ shape = "leaf" /\ k \in members
  /\ TargetsBecome(AllReplaced(k, Target(k, v, TRUE)))
  /\ UNCHANGED members

\* A value that is in the leaf-list is passed over.
AppendItem(v) ==
  /\ shape = "leaf-list" /\ Len(targets) < MaxTargets /\ ~Found(v)
  /\ TargetsBecome(Append(targets, Target(v, v, TRUE)))
  /\ UNCHANGED members

RemoveItem(i) ==
  /\ shape = "leaf-list"
  /\ TargetsBecome(RemoveAt(targets, i))
  /\ UNCHANGED members

-----------------------------------------------------------------------------
(* The reference                                                           *)

Points == shape = "leaf" /\ Len(targets) = 1

\* `_set()` comes first: the containers above are marked whatever follows.
Takes(mode, v) ==
  /\ ref' = [mode |-> mode, val |-> v]
  /\ assigned' = v /\ since' = FALSE /\ changed' = TRUE
  /\ UNCHANGED <<shape, require, members>>

\* Mutant: the leaf is not set.
PointOnly(v) ==
  /\ Points /\ v # Bad
  /\ UNCHANGED targets
  /\ Takes("pointer", v)

\* The one leaf at the path is set, be it that of an entry no longer in the list.
Point(v) ==
  /\ Points /\ v # Bad
  /\ targets' = AllReplaced(targets[1].key, Target(targets[1].key, v, TRUE))
  /\ Takes("pointer", v)

Find(v) ==
  /\ ~Points /\ require /\ Found(v)
  /\ UNCHANGED targets
  /\ Takes("object", v)

TakeAsIs(v) ==
  /\ ~Points /\ ~require
  /\ UNCHANGED targets
  /\ Takes("plain", v)

Refuse(v) ==
  /\ IF Points THEN v = Bad ELSE require /\ ~Found(v)
  /\ changed' = TRUE
  /\ UNCHANGED <<shape, require, members, targets, ref, assigned, since>>

SetRef(v) == Point(v) \/ Find(v) \/ TakeAsIs(v) \/ Refuse(v)

UnsetTheRef ==
  /\ ref' = UnsetRef
  /\ UNCHANGED <<shape, require, members, targets, changed, assigned, since>>

Next ==
  \/ \E k \in Keys : AddEntry(k) \/ DeleteEntry(k) \/ DelEntry(k)
  \/ \E k \in Keys, v \in Values : SetTarget(k, v)
  \/ \E v \in Values : AppendItem(v)
  \/ \E i \in DOMAIN targets : RemoveItem(i)
  \/ \E v \in Values \cup {Bad} : SetRef(v)
  \/ UnsetTheRef

-----------------------------------------------------------------------------
(* Properties                                                              *)

\* _get(): a pointer raises unless its path leads to one object.
Reads(v) ==
  CASE ref.mode = "pointer" -> Len(targets) = 1 /\ targets[1].val = v
    [] OTHER                -> ref.val = v

\* Until the targets change, a reference reads as the value it took, in a
\* container that reports the change, and with require-instance that value is
\* registered, set by somebody unless it is what unset leaves read as; and what
\* is not a pointer reads so whatever becomes of the targets.  ("When the value
\* of a leafref is set then there is a requirement to check the value it is set
\* to against the path that it refers to", docs/xpathhelper.md:26.)
ReferencesHold ==
  ref.mode # "unset" =>
    /\ changed
    /\ ~since \/ ref.mode # "pointer" => Reads(assigned)
    /\ ~since /\ require => \E i \in DOMAIN targets :
         targets[i].val = assigned /\ (targets[i].set \/ assigned = Null)

\* "allows pointer leafref items" (docs/yang.md:31): they can be read at any time.
PointersReadable == ref.mode = "pointer" => \E v \in Values \cup {Null} : Reads(v)
=============================================================================
