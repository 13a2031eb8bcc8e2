--------------------------- MODULE ContainerTree ---------------------------
(***************************************************************************)
(* The tree of generated container classes: the setters and `_unset_`      *)
(* methods that plugin/pybind.py writes for every element, and the          *)
(* bookkeeping YANGDynClass (lib/yangtypes.py) wraps around them -- the     *)
(* `_changed` and `_present` flags, and `_set`, the call that climbs from   *)
(* a written node to the root and clears the other cases of a choice.       *)
(*                                                                         *)
(* Objects have identity.  `_unset_x` replaces the object in slot x by a    *)
(* new one, so a program that kept the old one holds a stale handle: its    *)
(* `_parent` still points into the tree.  An object is <<node, generation>>.*)
(*                                                                         *)
(* A setter is a few nested calls.  `at` and `choice` are the running       *)
(* `_set` call, `setter` what is left to do when it returns.  The program   *)
(* is single-threaded: nothing starts before the setter has returned.       *)
(***************************************************************************)
EXTENDS Naturals, FiniteSets

CONSTANTS
  Containers,   \* container schema nodes, Root among them
  Leaves,       \* leaf and leaf-list schema nodes
  Root,         \* the generated class of the module: it has no `_set`
  Parent,       \* Parent[n]: the container node n is an element of
  Sub,          \* Sub[c]: the containers at or below container c
  ChoiceOf,     \* ChoiceOf[n]: <<choice, case>> of node n, or NoChoice
  NoChoice,
  Presence,     \* containers with a presence statement
  LateLeaves,   \* leaves whose type rejects a value only in its __init__
  Values,       \* values a leaf's type accepts
  Unset,        \* a leaf nobody has set: not `_changed()`
  Clearable,    \* containers a program calls _set_present(False) on
  Copyable,     \* containers a program assigns a container object to
  Keepable,     \* containers a program keeps handles to
  Resettable,   \* nodes a program calls `_unset_` on
  NoObj, Idle,
  MaxGen,       \* bound: objects of one container node alive at a time
  MaxHeld       \* bound: handles a program keeps in variables of its own

Nodes == (Containers \ {Root}) \cup Leaves

ASSUME SchemaAssumption ==
  /\ Root \in Containers
  /\ Containers \cap Leaves = {}
  /\ Parent \in [Nodes -> Containers]
  /\ Sub \in [Containers -> SUBSET Containers]
  /\ \A c \in Containers : c \in Sub[c]
  /\ \A c \in Containers, d \in Containers \ {Root} :
        d \in Sub[c] <=> d = c \/ Parent[d] \in Sub[c]
  /\ \A c \in Containers \ {Root} : Root \notin Sub[c] /\ Parent[c] \notin Sub[c]
  /\ \A c \in Containers : \A d \in Sub[c] : Sub[d] \subseteq Sub[c]

ASSUME ChoiceAssumption ==
  /\ DOMAIN ChoiceOf = Nodes
  /\ \A n \in Nodes : ChoiceOf[n] = NoChoice
                      \/ ChoiceOf[n] = <<ChoiceOf[n][1], ChoiceOf[n][2]>>

\* What a container is copied from has no choice inside (see CopyContainer).
ASSUME RoleAssumption ==
  /\ Presence \subseteq Containers \ {Root}
  /\ Clearable \subseteq Containers \ {Root}
  /\ LateLeaves \subseteq Leaves
  /\ Copyable \subseteq Containers \ {Root}
  /\ Keepable \subseteq Containers
  /\ Resettable \subseteq Nodes
  /\ \A c \in Copyable, n \in Nodes :
        Parent[n] \in Sub[c] => ChoiceOf[n] = NoChoice

ASSUME ValueAssumption ==
  /\ Unset \notin Values
  /\ MaxGen \in Nat \ {0}
  /\ MaxHeld \in Nat

Gens == 1..MaxGen
Obj  == Containers \X Gens

VARIABLES
  heap,      \* the container objects that exist
  kid,       \* kid[o][c]: generation of the object in slot c of object o
  up,        \* up[o]: generation of the object o's `_parent` points to
  leaf,      \* leaf[o][l]: the value in slot l of object o
  changed,   \* changed[o]: `_mchanged`
  present,   \* present[o]: `_cpresent`
  at,        \* the object whose `_set` is running, or NoObj
  choice,    \* the argument of that call
  setter,    \* the setter that is running, or Idle
  held       \* the handles the program keeps

tree == <<heap, kid, up, leaf, changed, present>>
call == <<at, choice, setter>>
vars == <<heap, kid, up, leaf, changed, present, at, choice, setter, held>>

Elements(c) == {n \in Nodes : Parent[n] = c}
Kids(c)     == Elements(c) \cap Containers
Holder(o)   == <<Parent[o[1]], up[o]>>
RootObj     == <<Root, 1>>

\* "mark": only the last `_set` of the setter is still running.
Setters ==
  [kind : {"leaf"}, obj : Obj, elem : Leaves, val : Values, ok : BOOLEAN]
    \cup [kind : {"container"}, obj : Obj, elem : Containers, src : Obj]
    \cup [kind : {"mark"}, obj : Obj]

ASSUME NullAssumption == NoObj \notin Obj /\ Idle \notin Setters

TypeOK ==
  /\ heap \subseteq Obj
  /\ kid \in [Obj -> [Containers -> 0..MaxGen]]
  /\ up \in [Obj -> Gens]
  /\ leaf \in [Obj -> [Leaves -> Values \cup {Unset}]]
  /\ changed \in [Obj -> BOOLEAN]
  /\ present \in [Obj -> BOOLEAN]
  /\ at \in Obj \cup {NoObj}
  /\ choice \in {ChoiceOf[n] : n \in Nodes} \cup {NoChoice}
  /\ setter \in Setters \cup {Idle}
  /\ held \subseteq Obj

-----------------------------------------------------------------------------
(* Building objects                                                        *)

\* The generation a new object of container c gets: one that is not in use.
Fresh(c) == CHOOSE g \in Gens : <<c, g>> \notin heap

\* `_unset_<e>` for every e in es, on object o: a leaf gets a new object with
\* no value, a container a new object with new objects below it.
Rebuilt(es) == UNION {Sub[c] : c \in es \cap Containers}

NewObjects(es) == {<<c, Fresh(c)>> : c \in Rebuilt(es)}

\* Bound: there is a generation left for each of them.
Room(es) == \A c \in Rebuilt(es) : \E g \in Gens : <<c, g>> \notin heap

UnsetKid(o, es) ==
  LET new == NewObjects(es)
  IN [q \in Obj |->
       IF q = o
       THEN [c \in Containers |-> IF c \in es THEN Fresh(c) ELSE kid[o][c]]
       ELSE IF q \in new
       THEN [c \in Containers |-> IF c \in Kids(q[1]) THEN Fresh(c) ELSE 0]
       ELSE kid[q]]

\* Mutant: everything below gets the same parent.
UnsetUpFlat(o, es) ==
  LET new == NewObjects(es)
  IN [q \in Obj |-> IF q \in new THEN o[2] ELSE up[q]]

UnsetUp(o, es) ==
  LET new == NewObjects(es)
  IN [q \in Obj |->
       IF q \notin new THEN up[q]
       ELSE IF q[1] \in es THEN o[2] ELSE Fresh(Parent[q[1]])]

UnsetLeaf(o, es) ==
  [leaf EXCEPT ![o] = [l \in Leaves |-> IF l \in es THEN Unset ELSE @[l]]]

Unset_(o, es) ==
  /\ Room(es)
  /\ heap' = heap \cup NewObjects(es)
  /\ kid' = UnsetKid(o, es)
  /\ up' = UnsetUp(o, es)
  /\ leaf' = UnsetLeaf(o, es)

-----------------------------------------------------------------------------
Init ==
  /\ heap = {<<c, 1>> : c \in Containers}
  /\ kid = [o \in Obj |-> [c \in Containers |->
              IF o[2] = 1 /\ c \in Kids(o[1]) THEN 1 ELSE 0]]
  /\ up = [o \in Obj |-> 1]
  /\ leaf = [o \in Obj |-> [l \in Leaves |-> Unset]]
  /\ changed = [o \in Obj |-> FALSE]
  /\ present = [o \in Obj |-> FALSE]
  /\ at = NoObj
  /\ choice = NoChoice
  /\ setter = Idle
  /\ held = {}

-----------------------------------------------------------------------------
(* Which objects exist                                                     *)

\* The objects reached from the root by attribute access: Live[c] is the
\* generation of container c's object.
Live ==
  LET gen[c \in Containers] ==
        IF c = Root THEN 1 ELSE kid[<<Parent[c], gen[Parent[c]]>>][c]
  IN gen

Usable == {o \in heap : o \in held \/ o[2] = Live[o[1]]}

\* Slots and `_parent` pointers.
Refs(S) == {Holder(o) : o \in {q \in S : q[1] # Root}}
             \cup UNION {{<<c, kid[o][c]>> : c \in Kids(o[1])} : o \in S}

InCall ==
  IF setter = Idle THEN {}
  ELSE {setter.obj} \cup (IF at = NoObj THEN {} ELSE {at})
                   \cup (IF setter.kind = "container" THEN {setter.src} ELSE {})

\* What the program can still reach: breadth first, <<reached, frontier>>.
Reachable ==
  LET roots == {RootObj} \cup held \cup InCall
      walk[i \in 0..2 * Cardinality(Containers)] ==
        IF i = 0 THEN <<roots, roots>>
        ELSE LET before == walk[i - 1]
                 more == Refs(before[2]) \ before[1]
             IN <<before[1] \cup more, more>>
  IN walk[2 * Cardinality(Containers)][1]

\* Python frees the other objects at once: no other step sees garbage.  (That
\* Reachable is closed under references follows from its definition.)
Garbage == heap \ Reachable

Collect ==
  /\ Garbage # {}
  /\ Refs(Reachable) \cup held \cup InCall \cup {RootObj} \subseteq Reachable
  /\ heap' = heap \cap Reachable
  /\ kid' = [o \in Obj |-> IF o \in Reachable THEN kid[o] ELSE [c \in Containers |-> 0]]
  /\ up' = [o \in Obj |-> IF o \in Reachable THEN up[o] ELSE 1]
  /\ leaf' = [o \in Obj |-> IF o \in Reachable THEN leaf[o] ELSE [l \in Leaves |-> Unset]]
  /\ changed' = [o \in Obj |-> o \in Reachable /\ changed[o]]
  /\ present' = [o \in Obj |-> o \in Reachable /\ present[o]]
  /\ UNCHANGED <<call, held>>

-----------------------------------------------------------------------------
(* `_set`: mark the object, clear the other cases, call the parent          *)

\* Mutants: only leaf members are unset; only containers are; the written case
\* is not spared; an object that is no longer in the tree keeps all cases.
OtherCasesLeaves(c, ch) ==
  {n \in Elements(c) : /\ ch # NoChoice /\ ChoiceOf[n] # NoChoice
                       /\ ChoiceOf[n][1] = ch[1] /\ ChoiceOf[n][2] # ch[2]
                       /\ n \in Leaves}
OtherCasesKids(c, ch) ==
  {n \in Kids(c) : /\ ch # NoChoice /\ ChoiceOf[n] # NoChoice
                   /\ ChoiceOf[n][1] = ch[1] /\ ChoiceOf[n][2] # ch[2]}
OtherCasesAll(c, ch) ==
  {n \in Elements(c) : /\ ch # NoChoice /\ ChoiceOf[n] # NoChoice
                       /\ ChoiceOf[n][1] = ch[1]}
OtherCasesLive(c, ch) ==
  {n \in Elements(c) : /\ at[2] = Live[c]
                       /\ ch # NoChoice /\ ChoiceOf[n] # NoChoice
                       /\ ChoiceOf[n][1] = ch[1] /\ ChoiceOf[n][2] # ch[2]}

\* The elements of container c that a call with choice ch makes it unset.
OtherCases(c, ch) ==
  {n \in Elements(c) : /\ ch # NoChoice
                       /\ ChoiceOf[n] # NoChoice
                       /\ ChoiceOf[n][1] = ch[1]
                       /\ ChoiceOf[n][2] # ch[2]}

\* Mutant: only the name of the object's own choice is passed.
PassedOnName(c, ch) ==
  IF ch # NoChoice THEN ch
  ELSE IF ChoiceOf[c] = NoChoice THEN NoChoice ELSE ChoiceOf[c][1]

\* The argument with which container c calls its parent's `_set`.
PassedOn(c, ch) == IF ch = NoChoice THEN ChoiceOf[c] ELSE ch

\* Mutant: the parent is called only if there is a choice to enforce.
CallForChoice(o, ch, s) ==
  IF o[1] = Root \/ ch = NoChoice
  THEN /\ at' = NoObj
       /\ choice' = NoChoice
       /\ setter' = IF s.kind = "mark" THEN Idle ELSE s
  ELSE /\ at' = o
       /\ choice' = ch
       /\ setter' = s

\* `hasattr(self, "_set")`: the root object has none, the call is skipped.
Call(o, ch, s) ==
  IF o[1] = Root
  THEN /\ at' = NoObj
       /\ choice' = NoChoice
       /\ setter' = IF s.kind = "mark" THEN Idle ELSE s
  ELSE /\ at' = o
       /\ choice' = ch
       /\ setter' = s

SetStep ==
  /\ at # NoObj
  /\ Unset_(at, OtherCases(at[1], choice))
  /\ changed' = [changed EXCEPT ![at] = TRUE]
  /\ present' = [present EXCEPT ![at] = @ \/ at[1] \in Presence]
  /\ Call(Holder(at), PassedOn(at[1], choice), setter)
  /\ UNCHANGED held

-----------------------------------------------------------------------------
(* What a program does                                                     *)

\* The program keeps the object it reached in a variable.
Keep(o) ==
  /\ o[1] \in Keepable
  /\ o[2] = Live[o[1]]
  /\ Cardinality(held) < MaxHeld
  /\ held' = held \cup {o}
  /\ UNCHANGED <<tree, call>>

\* The program lets a handle go.
Drop(o) ==
  /\ o \in held
  /\ held' = held \ {o}
  /\ UNCHANGED <<tree, call>>

\* _set_<l>(v), first half: `t = YANGDynClass(v, ...)`, whose __init__ calls
\* t._set() before the base type's __init__ has looked at v.  A value that the
\* base type's __new__ rejects raises before that, with no effect; one that a
\* late type rejects (ok = FALSE) raises afterwards.
SetLeaf(o, l, v, ok) ==
  /\ Parent[l] = o[1]
  /\ ok \/ l \in LateLeaves
  /\ Call(o, ChoiceOf[l], [kind |-> "leaf", obj |-> o, elem |-> l, val |-> v, ok |-> ok])
  /\ UNCHANGED <<tree, held>>

\* Second half: `self.__l = t` and `self._set()`.
StoreLeaf ==
  /\ at = NoObj
  /\ setter # Idle
  /\ setter.kind = "leaf"
  /\ setter.ok
  /\ leaf' = [leaf EXCEPT ![setter.obj][setter.elem] = setter.val]
  /\ Call(setter.obj, NoChoice, [kind |-> "mark", obj |-> setter.obj])
  /\ UNCHANGED <<heap, kid, up, changed, present, held>>

\* The late type raises: the setter ends, slot l keeps its old object.
RejectLeaf ==
  /\ at = NoObj
  /\ setter # Idle
  /\ setter.kind = "leaf"
  /\ ~setter.ok
  /\ setter' = Idle
  /\ UNCHANGED <<tree, at, choice, held>>

\* _set_<c>(src) with a container object: the new object marks itself and its
\* future parent before anything is copied.
SetContainer(o, c, src) ==
  /\ c \in Copyable
  /\ Parent[c] = o[1]
  /\ src[1] = c
  /\ Call(o, ChoiceOf[c], [kind |-> "container", obj |-> o, elem |-> c, src |-> src])
  /\ UNCHANGED <<tree, held>>

\* Mutant: containers inside are not copied.
CopiedTop(c, from) == {c}

\* The container's __init__ copies the elements that are `_changed()` and then
\* the setter stores it.  from[d] is the object of the source at node d; the
\* setters of the copy call its parent's `_set` again with the same choice,
\* there being no choice below a Copyable container.
Copied(c, from) ==
  {d \in Sub[c] : \A m \in Sub[c] \ {c} : d \in Sub[m] => changed[<<m, from[m]>>]}

CopyContainer ==
  /\ at = NoObj
  /\ setter # Idle
  /\ setter.kind = "container"
  /\ LET o == setter.obj
         c == setter.elem
     IN \E from \in [Sub[c] -> Gens] :
          /\ from[c] = setter.src[2]
          /\ \A d \in Sub[c] \ {c} : from[d] = kid[<<Parent[d], from[Parent[d]]>>][d]
          /\ Room({c})
          /\ heap' = heap \cup NewObjects({c})
          /\ kid' = UnsetKid(o, {c})
          /\ up' = UnsetUp(o, {c})
          /\ leaf' = [q \in Obj |-> IF q \in NewObjects({c}) /\ q[1] \in Copied(c, from)
                                    THEN leaf[<<q[1], from[q[1]]>>] ELSE leaf[q]]
          /\ changed' = [q \in Obj |-> \/ changed[q]
                                       \/ q \in NewObjects({c}) /\ q[1] \in Copied(c, from)]
          /\ present' = [q \in Obj |-> \/ present[q]
                                       \/ q \in NewObjects({c}) /\ q[1] \in Copied(c, from) \cap Presence]
          /\ Call(o, NoChoice, [kind |-> "mark", obj |-> o])
  /\ UNCHANGED held

\* _unset_<n>() called by the program: no flag of the parents is touched.
UnsetElement(o, n) ==
  /\ n \in Resettable
  /\ Parent[n] = o[1]
  /\ Unset_(o, {n})
  /\ UNCHANGED <<changed, present, call, held>>

\* _set_present(True)
SetPresent(o) ==
  /\ o[1] # Root
  /\ present' = [present EXCEPT ![o] = TRUE]
  /\ Call(o, NoChoice, [kind |-> "mark", obj |-> o])
  /\ UNCHANGED <<heap, kid, up, leaf, changed, held>>

\* Mutant: the changed flag stays.
ClearPresentOnly(o) ==
  /\ o[1] \in Clearable
  /\ present' = [present EXCEPT ![o] = FALSE]
  /\ UNCHANGED <<heap, kid, up, leaf, changed, call, held>>

\* _set_present(False): the elements below keep their values and flags.
ClearPresent(o) ==
  /\ o[1] \in Clearable
  /\ present' = [present EXCEPT ![o] = FALSE]
  /\ changed' = [changed EXCEPT ![o] = FALSE]
  /\ UNCHANGED <<heap, kid, up, leaf, call, held>>

Operation ==
  /\ setter = Idle
  /\ \E o \in Usable :
       \/ Keep(o)
       \/ Drop(o)
       \/ \E l \in Leaves, v \in Values, ok \in BOOLEAN : SetLeaf(o, l, v, ok)
       \/ \E c \in Copyable, src \in Usable : SetContainer(o, c, src)
       \/ \E n \in Nodes : UnsetElement(o, n)
       \/ SetPresent(o)
       \/ ClearPresent(o)

Next ==
  \/ Collect
  \/ /\ Garbage = {}
     /\ SetStep \/ StoreLeaf \/ RejectLeaf \/ CopyContainer \/ Operation

Spec == Init /\ [][Next]_vars

-----------------------------------------------------------------------------
(* Properties                                                              *)

\* Element n of object o is in use: a leaf with a value, a container that
\* reports `_changed()`.
Used(o, n) ==
  IF n \in Leaves THEN leaf[o][n] # Unset ELSE changed[<<n, kid[o][n]>>]

\* Whatever is set below a container is reported by the container's own
\* `_changed()`, on which copying and serialising rely, except where the
\* program took the flag back with _set_present(False).
\* (YANGDynClass._set climbs every time, yangtypes.py:1127-1133.)
ChangedUpward ==
  setter = Idle =>
    \A o \in Obj : \A n \in Elements(o[1]) :
      o \in heap /\ o[1] \notin Clearable \cup {Root} /\ Used(o, n) => changed[o]

\* A presence container is present exactly when it reports `_changed()`,
\* whichever of the setters, copies and _set_present calls touched it.
PresenceMatchesChanged ==
  setter = Idle =>
    \A o \in Obj : o \in heap /\ o[1] \in Presence => (present[o] <=> changed[o])

\* Element n is a case member with no choice below it: the call that reaches
\* its parent carries n's own choice.
Enforced(n) ==
  n \in Containers => \A m \in Nodes : Parent[m] \in Sub[n] => ChoiceOf[m] = NoChoice

\* Two cases of one choice are never in use side by side, in any object, live
\* or stale, once the setter has returned.
ChoiceExclusive ==
  setter = Idle =>
    \A o \in Obj : \A m, n \in Elements(o[1]) :
      (/\ o \in heap /\ o[1] # Root
       /\ ChoiceOf[m] # NoChoice /\ ChoiceOf[n] # NoChoice
       /\ ChoiceOf[m][1] = ChoiceOf[n][1]
       /\ Enforced(m) /\ Enforced(n)
       /\ Used(o, m) /\ Used(o, n)) => ChoiceOf[m][2] = ChoiceOf[n][2]

\* An object sits in at most one slot, the one its `_parent` names: a handle,
\* however stale, reports to the object it was built for.
SlotsMatchParents ==
  \A o \in Obj : \A c \in Kids(o[1]) :
    o \in heap => /\ <<c, kid[o][c]>> \in heap
                  /\ up[<<c, kid[o][c]>>] = o[2]
=============================================================================
