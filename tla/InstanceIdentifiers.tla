------------------------ MODULE InstanceIdentifiers ------------------------
(***************************************************************************)
(* How validate_tree of the dataclass bindings judges the value of an        *)
(* instance-identifier leaf (resolve_instance_identifier): it goes down the  *)
(* classes of the schema and the objects of the tree at once, a step of the  *)
(* identifier at a time.                                                    *)
(*                                                                         *)
(* A field is [cls, attr, module, name, kind, sub]: in class cls, under the  *)
(* Python name attr, the node module:name, whose own class is sub.  A leaf    *)
(* of type bits has a class, too, with a field of kind "bit" for each bit.     *)
(* An object, a number in the heap, is [cls, marked, of], `of` its values by    *)
(* Python name: an object, a sequence of objects (a list) or of values, or a  *)
(* value.  A step is [module, name, predicates], a predicate [key, want]: key  *)
(* "." for the value itself and Nothing for a position.  A value is the text   *)
(* _ii_value_text makes of it, which str() does: not always that of YANG.     *)
(***************************************************************************)
EXTENDS Naturals, Sequences, FiniteSets, SequencesExt

CONSTANTS
  SchemaFields,
  Presence,  \* the classes of presence containers
  Nothing,   \* None: no module, no value, no class
  NoBits     \* the value of a bits leaf with no bit set

VARIABLES
  heap, roots, \* all objects; the trees that are validated
  identifier,  \* [steps, require]: the value, and the require-instance of its type
  done,        \* steps gone down
  module,      \* the module a name without one belongs to
  classes,
  objects,     \* those found so far, whose order does not matter
  found,       \* the last step was a leaf or leaf-list that has the value
  verdict

ivars == <<heap, roots, identifier, done, module, classes, objects, found, verdict>>

Objects == DOMAIN heap
Roots(h, rs) == [i \in DOMAIN rs |-> h[rs[i]].cls]
RootClasses == Roots(heap, roots)
Steps == identifier.steps

InitWith(h, rs, id) ==
  /\ heap = h /\ roots = rs /\ identifier = id
  /\ done = 0 /\ module = Nothing
  /\ classes = Roots(h, rs) /\ objects = Range(rs)
  /\ found = FALSE
  /\ verdict = "none"

Verdicts == {"none", "outside", "unqualified", "no node", "no key", "missing", "right"}
TypeOK ==
  /\ done \in 0..Len(Steps)
  /\ objects \subseteq Objects
  /\ verdict \in Verdicts

FieldsOf(cls) == {f \in SchemaFields : f.cls = cls}
RootModules == {f.module : f \in {f \in SchemaFields : f.cls \in Range(RootClasses)}}

\* The first step has a module, one of those validated.
Start ==
  LET first == Steps[1].module
  IN CASE first = Nothing -> "unqualified"
       [] first # Nothing /\ first \notin RootModules -> "outside"
       [] OTHER -> "none"

Settle(v) ==
  verdict' = v /\ UNCHANGED <<heap, roots, identifier, done, module, classes, objects, found>>

Reject == verdict = "none" /\ done = 0 /\ Start # "none" /\ Settle(Start)

-----------------------------------------------------------------------------
(* A step                                                                  *)

Attr(o, attr) == IF attr \in DOMAIN heap[o].of THEN heap[o].of[attr] ELSE Nothing
Elements(v) == IF v = Nothing THEN <<>> ELSE v

\* A bits leaf has a value always, and may have no bit set.
Unset(f, v) == f.kind = "leaf" /\ f.sub # Nothing /\ v = NoBits

\* _xnode_has_data
HasData[o \in Objects] ==
  \E f \in FieldsOf(heap[o].cls) :
    LET v == Attr(o, f.attr)
    IN /\ v # Nothing
       /\ CASE f.kind = "container" -> HasData[v] \/ (f.sub \in Presence /\ heap[v].marked)
            [] f.kind \in {"list", "leaf-list"} -> v # <<>>
            [] f.kind = "leaf" -> ~Unset(f, v)

\* The fields of that name in the i-th class, and in the first class that has one.
Matching(i, name, mod) == {f \in FieldsOf(classes[i]) : f.name = name /\ f.module = mod}
Matches(name, mod) ==
  LET having == {i \in DOMAIN classes : Matching(i, name, mod) # {}}
  IN IF having = {} THEN {}
     ELSE Matching(CHOOSE i \in having : \A j \in having : i <= j, name, mod)

\* What of element e the key of a predicate compares.
Keyed(f, e, k) ==
  IF f.kind = "list" THEN Attr(e, (CHOOSE g \in FieldsOf(f.sub) : g.name = k).attr)
  ELSE IF k = "." THEN e ELSE Nothing

\* The positions in vs that the predicates leave, one after the other.
Left(f, vs, preds) ==
  LET left[n \in 0..Len(preds)] ==
        IF n = 0 THEN DOMAIN vs
        ELSE IF preds[n].key = Nothing
        THEN {j \in left[n - 1] : Cardinality({h \in left[n - 1] : h <= j}) = preds[n].want}
        ELSE {j \in left[n - 1] : /\ Keyed(f, vs[j], preds[n].key) # Nothing
                                  /\ Keyed(f, vs[j], preds[n].key) = preds[n].want}
  IN left[Len(preds)]

\* Mutant: a container is there whenever its object is.
BelowAny(o, f, preds) ==
  LET v == Attr(o, f.attr)
  IN CASE f.kind = "container" -> {v} \ {Nothing}
       [] f.kind = "list" -> {Elements(v)[j] : j \in Left(f, Elements(v), preds)}
       [] OTHER -> {}

\* The objects a step finds in an object.
Below(o, f, preds) ==
  LET v == Attr(o, f.attr)
  IN CASE f.kind = "container" -> IF v # Nothing /\ HasData[v] THEN {v} ELSE {}
       [] f.kind = "list" -> {Elements(v)[j] : j \in Left(f, Elements(v), preds)}
       [] OTHER -> {}

FoundIn(o, f, preds) ==
  LET v == Attr(o, f.attr)
  IN CASE f.kind = "leaf-list" -> Left(f, Elements(v), preds) # {}
       [] f.kind = "leaf" -> /\ v # Nothing  \* also when unset
                             /\ \A i \in DOMAIN preds : preds[i].key = "." /\ preds[i].want = v
       [] OTHER -> FALSE

\* A key that is no node of the list's entries.
NoKey(f, preds) ==
  /\ f.kind = "list"
  /\ \E i \in DOMAIN preds :
       preds[i].key # Nothing /\ preds[i].key \notin {g.name : g \in FieldsOf(f.sub)}

\* The first of the fields found gives the Python name that is asked of every
\* object.
Step ==
  /\ verdict = "none" /\ Start = "none" /\ done < Len(Steps)
  /\ LET step == Steps[done + 1]
         mod  == IF step.module = Nothing THEN module ELSE step.module
         ms   == Matches(step.name, mod)
         f    == CHOOSE f \in ms : TRUE
     IN IF ms = {} THEN Settle("no node")
        ELSE IF NoKey(f, step.predicates) THEN Settle("no key")
        ELSE /\ module' = mod
             /\ classes' = IF f.sub = Nothing THEN <<>> ELSE <<f.sub>>
             /\ objects' = UNION {Below(o, f, step.predicates) : o \in objects}
             /\ found' = \E o \in objects : FoundIn(o, f, step.predicates)
             /\ done' = done + 1
             /\ UNCHANGED <<heap, roots, identifier, verdict>>

Conclude ==
  /\ verdict = "none" /\ done > 0 /\ done = Len(Steps)
  /\ Settle(IF identifier.require /\ objects = {} /\ ~found THEN "missing" ELSE "right")

Next == Reject \/ Step \/ Conclude

-----------------------------------------------------------------------------
(* What is assumed                                                         *)

\* Nodes of one name are in different modules, also the top-level ones; a class
\* has a Python name once; what has nodes below it has a class, and a bit none.
SchemaOK ==
  /\ \A f \in SchemaFields :
       /\ f.kind \in {"container", "list", "leaf-list", "leaf", "bit"}
       /\ f.cls # Nothing
       /\ f.kind \in {"container", "list"} => f.sub # Nothing
       /\ f.kind = "bit" => f.sub = Nothing
  /\ \A f, g \in SchemaFields :
       /\ f.cls = g.cls \/ {f.cls, g.cls} \subseteq Range(RootClasses) =>
            (f.name = g.name /\ f.module = g.module => f = g)
       /\ f.cls = g.cls /\ f.attr = g.attr => f = g

\* An object has what its class says, and comes before the objects in it. The bits
\* of a leaf are a value here.
ObjectOK(o) ==
  /\ heap[o].cls # Nothing
  /\ DOMAIN heap[o].of \subseteq {f.attr : f \in FieldsOf(heap[o].cls)}
  /\ \A f \in FieldsOf(heap[o].cls) :
       LET v == Attr(o, f.attr)
           Is(p) == p \in Objects /\ p > o /\ heap[p].cls = f.sub
       IN /\ f.kind # "bit"
          /\ v # Nothing => /\ f.kind = "container" => Is(v)
                            /\ f.kind = "list" => \A j \in DOMAIN v : Is(v[j])
                            /\ f.kind \in {"list", "leaf-list"} => v = [j \in 1..Len(v) |-> v[j]] /\ Len(v) \in Nat

\* A position is the only predicate of its step, and a key has a value.
StepOK(step) ==
  \A i \in DOMAIN step.predicates :
    IF step.predicates[i].key = Nothing THEN Len(step.predicates) = 1
    ELSE step.predicates[i].want # Nothing

WellFormed ==
  /\ heap \in Seq(Range(heap)) /\ roots \in Seq(Objects)
  /\ SchemaOK
  /\ \A o \in Objects : ObjectOK(o)
  /\ Steps \in Seq(Range(Steps)) /\ Steps # <<>>
  /\ \A i \in DOMAIN Steps :
       Steps[i].predicates \in Seq(Range(Steps[i].predicates)) /\ StepOK(Steps[i])

-----------------------------------------------------------------------------
(* Properties                                                              *)

StepModule[i \in 0..Len(Steps)] ==
  IF i = 0 THEN Nothing
  ELSE IF Steps[i].module = Nothing THEN StepModule[i - 1]
  ELSE Steps[i].module

\* The schema nodes the first i steps may mean; a bit is among them after its leaf.
SchemaNodes[i \in 0..Len(Steps)] ==
  LET from == IF i = 0 THEN {} ELSE IF i = 1 THEN Range(RootClasses)
              ELSE {f.sub : f \in SchemaNodes[i - 1]}
  IN {f \in SchemaFields : /\ f.cls \in from
                     /\ f.name = Steps[i].name /\ f.module = StepModule[i]
                     /\ ~NoKey(f, Steps[i].predicates)}

IsSchemaPath == \E f \in SchemaNodes[Len(Steps)] : f.kind # "bit"
IsBit        == \E f \in SchemaNodes[Len(Steps)] : f.kind = "bit"

\* What meets the predicates at position j of vs.
MeetsAll(f, vs, j, preds) ==
  \A i \in DOMAIN preds :
    IF preds[i].key = Nothing THEN j = preds[i].want
    ELSE Keyed(f, vs[j], preds[i].key) = preds[i].want

\* A presence container exists if it is marked, too.
Exists(p) == HasData[p] \/ (heap[p].cls \in Presence /\ heap[p].marked)

\* The class an instance of field f is an object of: a value is of none.
ClassOf(f) == IF f.kind \in {"container", "list"} THEN f.sub ELSE Nothing

\* The instances of field f in an object, each with its class.
Instances(o, f, preds) ==
  LET v == Attr(o, f.attr)
      instance(e) == [cls |-> ClassOf(f), v |-> e]
  IN IF v = Nothing THEN {}
     ELSE CASE f.kind = "container" -> {instance(p) : p \in {p \in {v} : Exists(p)}}
            [] f.kind \in {"list", "leaf-list"} ->
                 {instance(v[j]) : j \in {j \in DOMAIN v : MeetsAll(f, v, j, preds)}}
            [] f.kind = "leaf" ->
                 {instance(e) : e \in {e \in {v} : /\ ~Unset(f, e)
                                                  /\ \A i \in DOMAIN preds :
                                                       preds[i].key = "." /\ preds[i].want = e}}
            [] OTHER -> {}

\* The instances the first i steps denote, each step looked up in the class of
\* the object it is taken from.
Denoted[i \in 0..Len(Steps)] ==
  IF i = 0 THEN {[cls |-> RootClasses[r], v |-> roots[r]] : r \in DOMAIN roots}
  ELSE UNION {UNION {Instances(n.v, f, Steps[i].predicates) :
                     f \in {f \in FieldsOf(n.cls) : f.name = Steps[i].name
                                                       /\ f.module = StepModule[i]}} :
              n \in {n \in Denoted[i - 1] : n.cls # Nothing}}

Denotes == Denoted[Len(Steps)] # {}

\* The i-th step means a bits leaf with no bit set.
UnsetAt(i) ==
  \E n \in Denoted[i - 1] :
    /\ n.cls # Nothing
    /\ \E f \in FieldsOf(n.cls) : /\ f.name = Steps[i].name /\ f.module = StepModule[i]
                                  /\ Unset(f, Attr(n.v, f.attr))

\* An instance that is a presence container with nothing in it.
Empty(n) == n.cls \in Presence /\ ~HasData[n.v]

\* Two of the trees use one Python name for nodes of different modules.
NamesShared ==
  \E f, g \in SchemaFields : f.cls # g.cls /\ {f.cls, g.cls} \subseteq Range(RootClasses) /\ f.attr = g.attr

\* An identifier is reported only where the schema has no such node or the trees
\* no such instance but empty presence containers; and it is reported then, but
\* for a bit of a bits leaf, which is taken for a node, for a bits leaf with no bit
\* set, which is taken for an instance, and for the instances it finds in a tree
\* whose root has a node of another module under the same Python name.
JudgedRight ==
  /\ verdict \in {"no node", "no key"} => ~IsSchemaPath
  /\ verdict \in {"right", "missing"} => IsSchemaPath \/ IsBit
  /\ verdict = "missing" => \A n \in Denoted[Len(Steps)] : Empty(n)
  /\ (verdict = "right" /\ identifier.require /\ ~NamesShared) => Denotes \/ UnsetAt(Len(Steps))

\* "bits: exists iff any bit is set" (pybind_dataclass.py:606): what an identifier
\* that requires an instance is right about exists.
OnlyThere == verdict = "right" /\ identifier.require /\ ~NamesShared => Denotes

\* "a container exists once it holds data -- or, for presence containers, when
\* mark_present() flagged the instance" (pybind_dataclass.py:590): what exists is
\* not reported as missing.
NoneMissing == verdict = "missing" => ~Denotes
=============================================================================
