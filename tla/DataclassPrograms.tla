------------------------- MODULE DataclassPrograms -------------------------
(***************************************************************************)
(* Programs that use the dataclass bindings: one changes a tree and has it   *)
(* written as JSON and read back (DataclassTree), one has a tree validated,   *)
(* node by node (DataclassValidation), a list of it (ListValidation) or an     *)
(* instance-identifier in it (InstanceIdentifiers), one has an expression       *)
(* evaluated (XPathEval), one has values made of identities                    *)
(* (IdentitySpellings).  What is promised to each is stated here, for all      *)
(* types, schemas, trees, expressions, entries and identities.                *)
(***************************************************************************)
EXTENDS DataclassTree

CONSTANTS
  RequiredChoices,          \* of the validated schema
  MinElements, MaxElements, \* of the validated list
  Bare, LeafModule,         \* of the values of an identityref
  SchemaFields, Presence, Nothing, NoBits, \* of the schema of an instance-identifier
  Up, Name, Text, NoText, ByName, Local, \* of the nodes an expression is about
  Number, NaN

VARIABLES
  program,
  fields, at, nodes, deferred, queued, reported, stage,
  shape, entries, refs, pos, seenKeys, seenUnique, noted, errors, ended,
  identities, order, stack, seen, canon,
  heap, roots, identifier, done, module, classes, objects, found, verdict,
  expr, context, objs, position, list, queue, merged, operands, result

V == INSTANCE DataclassValidation WITH Required <- RequiredChoices
G == INSTANCE ListValidation
Id == INSTANCE IdentitySpellings
I == INSTANCE InstanceIdentifiers
XP == INSTANCE XPathEval WITH at <- position, values <- operands

\* A type that is no union is one member type.
ASSUME TypesAssumption ==
  \A t \in Types : t.members \in Seq(MemberTypes) /\ (~t.union => Len(t.members) = 1)

\* A value is a class and a text, in JSON as well; Refused and None are neither.
ASSUME ValuesAssumption ==
  /\ \A v \in Values : v = [py |-> v.py, text |-> v.text]
  /\ \A m \in MemberTypes : \A text \in Reads[m] :
       /\ \A c \in Classes(m) : Refused # [py |-> c, text |-> text]
       /\ \A js \in {"string", "number", "fraction", "boolean", "none"} :
            None # [js |-> js, text |-> text]

\* Nodes are numbered in document order.
ASSUME UpAssumption == Up \in Seq(Nat) /\ \A n \in DOMAIN Up : Up[n] < n

validation == <<fields, at, nodes, deferred, queued, reported, stage>>
listing == <<shape, entries, refs, pos, seenKeys, seenUnique, noted, errors, ended>>
spelling == <<identities, order, stack, seen, canon>>
identification == <<heap, roots, identifier, done, module, classes, objects, found, verdict>>
evaluation == <<expr, context, objs, position, list, queue, merged, operands, result>>
pvars == <<vars, program, validation, listing, spelling, identification, evaluation>>

ProgramInit ==
  /\ Init
  /\ program = "validate" => V!WellFormed /\ V!InitWith(fields)
  /\ program = "list" => G!WellFormed /\ G!InitWith(shape, entries, refs)
  /\ program = "spell" => Id!WellFormed /\ Id!InitWith(identities, order)
  /\ program = "identify" => I!WellFormed /\ I!InitWith(heap, roots, identifier)
  /\ program = "evaluate" => XP!WellFormed /\ XP!InitWith(expr, objs)

ProgramNext ==
  /\ UNCHANGED program
  /\ \/ /\ program \in {"values", "nodes"} /\ Next
        /\ UNCHANGED <<validation, listing, spelling, identification, evaluation>>
     \/ /\ program = "validate" /\ V!VNext
        /\ UNCHANGED <<vars, listing, spelling, identification, evaluation>>
     \/ /\ program = "list" /\ G!Next
        /\ UNCHANGED <<vars, validation, spelling, identification, evaluation>>
     \/ /\ program = "spell" /\ Id!Pop
        /\ UNCHANGED <<vars, validation, listing, identification, evaluation>>
     \/ /\ program = "identify" /\ I!Next
        /\ UNCHANGED <<vars, validation, listing, spelling, evaluation>>
     \/ /\ program = "evaluate" /\ XP!Next
        /\ UNCHANGED <<vars, validation, listing, spelling, identification>>

ProgramSpec == ProgramInit /\ [][ProgramNext]_pvars

-----------------------------------------------------------------------------
(* Properties                                                              *)

\* What validate_tree reports is what the schema requires and the tree lacks.
ReportedExactly == program = "validate" => V!ReportedExactly

\* validate_tree reports nothing the schema does not require.
NothingMisjudged == program = "validate" => V!NothingMisjudged

\* Duplicates and dangling leafrefs are reported, and what is none is not.
ListsJudgedRight == program = "list" => G!ListsJudgedRight

\* The values of an identityref are the derived identities and mean them, also
\* to derived-from().
IdentitiesMeant == program = "spell" => Id!IdentitiesMeant /\ Id!DerivedMeant

\* An instance-identifier is reported where there is no such instance, but for bits.
JudgedRight == program = "identify" => I!JudgedRight

\* A path, a union or a comparison evaluates to what XPath makes of it, where an
\* identity is equal to the texts with its local name.
EvaluatesRight == program = "evaluate" => XP!EvaluatesRight

\* A path has each of its nodes once.
NodesOnce == program = "evaluate" => XP!NodesOnce
=============================================================================
