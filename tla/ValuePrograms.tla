--------------------------- MODULE ValuePrograms ---------------------------
(***************************************************************************)
(* Programs that give values to generated objects: one changes a leaf-list   *)
(* (LeafList), one makes an object of a restricted type (RestrictedTypes),   *)
(* one loads documents into a tree (Loaders), and one sets a leafref while   *)
(* what it refers to changes (References).  What is promised to each is       *)
(* stated here, for all types, documents and targets.                        *)
(***************************************************************************)
EXTENDS LeafList

CONSTANTS
  Inputs, Chains,                        \* of restricted types
  Keys, Number, Values, Bad,             \* of the tree documents are loaded into
  Documents, Ordered, NoOrder, MaxLoads,
  TargetKeys, Assigned, Unread,          \* of references: what unset leaves read as
  MaxTargets

VARIABLES
  program,
  type, input, attr, making, level, verdict,
  tree, load, spent, loads,
  shape, require, members, targets, ref, marked, assigned, since

R == INSTANCE RestrictedTypes
L == INSTANCE Loaders
F == INSTANCE References WITH
       Keys <- TargetKeys, Values <- Assigned, Null <- Unread, changed <- marked

\* The plugin makes chains of one class at least, each with its tests.
ASSUME ChainsAssumption ==
  \A t \in DOMAIN Chains : Chains[t] \in Seq(Seq(SUBSET Inputs)) /\ Chains[t] # <<>>

\* No two keys of a list have the same number, and a number is no text.
ASSUME NumbersAssumption ==
  /\ Invalid \notin Keys
  /\ \A k \in Keys : Number[k] \notin Keys
  /\ \A k, l \in Keys : Number[k] = Number[l] => k = l \/ Number[k] = Invalid

\* A document has no name twice, and a list in it no key.
ListEntries == [key : Keys, v : Values \cup {Null, Bad}, order : Nat \cup {NoOrder}]
IsMember(m) ==
  /\ m.n \in L!Names
  /\ m.n = "leaf"     => m.v \in Values \cup {Bad}
  /\ m.n = "leaflist" => m.v \in Seq(Passed)
  /\ m.n = "box"      => m.v = <<>> \/ \E v \in Values \cup {Bad} : m.v = <<v>>
  /\ m.n = "list"     => m.v \in Seq(ListEntries)
  /\ m.n = "unknown"  => m.v \in {"value", "array", "empty"}
ASSUME DocumentsAssumption ==
  /\ 1 \in DOMAIN Documents
  /\ \A d \in DOMAIN Documents :
       /\ Len(Documents[d]) \in Nat /\ DOMAIN Documents[d] = 1..Len(Documents[d])
       /\ \A i \in DOMAIN Documents[d] : IsMember(Documents[d][i])
       /\ \A i, j \in DOMAIN Documents[d] :
            Documents[d][i].n = Documents[d][j].n => i = j \/ Documents[d][i].n = "unknown"
       /\ \A i \in DOMAIN Documents[d] : Documents[d][i].n = "list" =>
            \A a, b \in DOMAIN Documents[d][i].v :
              Documents[d][i].v[a].key = Documents[d][i].v[b].key => a = b
  /\ NoOrder \notin Nat /\ MaxLoads \in Nat

\* The key of an entry is a value a reference to it can take.
ASSUME KeysAssumption == TargetKeys \subseteq Assigned

rvars == <<type, input, attr, making, level, verdict>>
lvars == <<tree, load, spent, loads>>
fvars == <<shape, require, members, targets, ref, marked, assigned, since>>

NoType == type = <<>> /\ input = <<>> /\ attr = <<>> /\ making = <<>> /\ level = 0 /\ verdict = "none"
NoLoad == tree = <<>> /\ load = <<>> /\ spent = {} /\ loads = 0
NoReference == F!InitWith("keys", FALSE)

ProgramInit ==
  /\ Init
  /\ \/ program = "list" /\ NoType /\ NoLoad /\ NoReference
     \/ program = "type" /\ R!Init /\ NoLoad /\ NoReference
     \/ program = "load" /\ NoType /\ L!Init /\ NoReference
     \/ /\ program = "refer" /\ NoType /\ NoLoad
        /\ \E s \in {"keys", "leaf", "leaf-list"}, r \in BOOLEAN : F!InitWith(s, r)

ProgramNext ==
  /\ UNCHANGED program
  /\ \/ program = "list" /\ Next /\ UNCHANGED <<rvars, lvars, fvars>>
     \/ program = "type" /\ R!Next /\ UNCHANGED <<vars, lvars, fvars>>
     \/ program = "load" /\ L!Next /\ UNCHANGED <<vars, rvars, fvars>>
     \/ program = "refer" /\ F!Next /\ UNCHANGED <<vars, rvars, lvars>>

ProgramSpec == ProgramInit /\ [][ProgramNext]_<<vars, rvars, lvars, fvars, program>>

-----------------------------------------------------------------------------
(* Properties                                                              *)

\* The leaf-list, the object, the tree and the reference are of their types.
ValuesTypeOK ==
  /\ TypeOK
  /\ program = "type" => R!TypeOK
  /\ program = "load" => L!TypeOK
  /\ program = "refer" => F!TypeOK

\* What a restricted type accepts passes one test of each of its classes.
AcceptedPasses == program = "type" => R!AcceptedPasses

\* What a restricted type accepts passes all tests of its classes.
AcceptedMeets == program = "type" => R!AcceptedMeets

\* A load that ends has loaded what load_json and load_ietf_json do not lose.
MostLoaded == program = "load" => L!MostLoaded

\* A load that ends has loaded its document.
DocumentLoaded == program = "load" => L!DocumentLoaded

\* What the document does not name, and what the load has not come to, is kept.
RestKept == program = "load" => L!RestKept

\* A document of names and values the bindings take loads without an error.
GoodDocumentsLoad == program = "load" => L!GoodDocumentsLoad

\* A document loaded again changes nothing.
ReloadChangesNothing == program = "load" => L!ReloadChangesNothing

\* A list loaded by load_json has the order it was dumped in.
OrderRestored == program = "load" => L!OrderRestored

\* A reference reads as what it was set to, which is there if it has to be.
ReferencesHold == program = "refer" => F!ReferencesHold
=============================================================================
