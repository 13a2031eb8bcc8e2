------------------------- MODULE DataclassValidation -------------------------
(***************************************************************************)
(* validate_tree() of the dataclass bindings (plugin/pybind_dataclass.py):   *)
(* which of the requirements of a schema a tree of data has to meet.         *)
(*                                                                         *)
(* The fields of the schema are numbered, each after the container it is in; *)
(* 0 is the root.  Choices are flattened away: a field has the chain of its  *)
(* <<choice, case>> pairs, the outermost first.  The walk goes up the tree,  *)
(* node by node, and hands to the node above what an empty container leaves  *)
(* pending; what depends on a `when` is looked at after the walk.            *)
(*                                                                         *)
(* A field is [kind, up, case, when, mandatory, set]:                        *)
(*   "leaf"      set, or not; a list or leaf-list with min-elements is the   *)
(*               same to the walk                                           *)
(*   "bits"      a leaf whose object is always there; set if a bit is       *)
(*   "container" without presence                                           *)
(*   "presence"  set if it is marked as present                             *)
(*   "entry"     an entry of a list                                         *)
(* `when` is "none", "true", "false" or, outside the subset of XPath that is *)
(* evaluated, "unknown"; `mandatory` is that of a leaf, and of a container   *)
(* that it has a `must` that does not hold.                                  *)
(***************************************************************************)
EXTENDS Naturals, Sequences, FiniteSets

CONSTANTS
  Required   \* the mandatory choices

VARIABLES
  fields,    \* the schema with its data
  at,        \* the node the walk comes to next, N + 1 above the last
  nodes,     \* of the nodes walked: [exists, hoisted]
  deferred,  \* pending requirements below a `when`
  queued,    \* constraints to evaluate: "must" and "when" of fields
  reported,  \* the violations
  stage      \* "walk", "resolve", "evaluate", "done"

vvars == <<fields, at, nodes, deferred, queued, reported, stage>>

Fields == DOMAIN fields
FieldsOf(n) == {i \in Fields : fields[i].up = n}
IsNode(i) == fields[i].kind \in {"container", "presence", "entry"}
Pairs(chain) == {chain[k] : k \in DOMAIN chain}

\* A pending requirement: [case, kind, what, items].  `what` names the field or
\* node and the requirement, `items` are those below a container with a `when`.
Pending(case, kind, what, items) == [case |-> case, kind |-> kind, what |-> what, items |-> items]

TypeOK ==
  /\ stage \in {"walk", "resolve", "evaluate", "done"}
  /\ \A i \in DOMAIN nodes : nodes[i].exists \in BOOLEAN /\ \A p \in nodes[i].hoisted : p.case = <<>>
  /\ \A c \in queued : c[1] \in Fields /\ c[2] \in {"must", "when"}
  /\ \A e \in reported : e[1] \in Fields \cup {0}

\* A schema: a field comes after the node it is in.
WellFormed ==
  /\ fields \in Seq({fields[i] : i \in Fields})
  /\ \A i \in Fields :
       /\ fields[i].kind \in {"leaf", "bits", "container", "presence", "entry"}
       /\ fields[i].up \in 0..(i - 1) /\ (fields[i].up # 0 => IsNode(fields[i].up))
       /\ fields[i].case \in Seq(Pairs(fields[i].case))
       /\ fields[i].mandatory \in BOOLEAN /\ fields[i].set \in BOOLEAN

InitWith(schema) ==
  /\ fields = schema
  /\ at = Len(schema)
  /\ nodes = <<>> /\ deferred = {} /\ queued = {} /\ reported = {}
  /\ stage = "walk"

-----------------------------------------------------------------------------
(* The walk                                                                *)

\* Whether field i is set, as its node's walk sees it.
FieldSet(i) ==
  IF IsNode(i) THEN nodes[i].exists ELSE fields[i].set

\* `active_cases`: a set field selects every case on its chain.
Active(n) == UNION {Pairs(fields[i].case) : i \in {i \in FieldsOf(n) : FieldSet(i)}}

\* What an empty container without presence leaves pending: its own `must` and
\* what it hoists, in its case; or all of it together if it has a `when`.
HoistedHere(i) ==
  IF fields[i].when # "none"
  THEN {Pending(fields[i].case, "guarded", <<i, "must">>, nodes[i].hoisted)}
  ELSE {Pending(fields[i].case, p.kind, p.what, p.items) : p \in nodes[i].hoisted}
         \cup (IF fields[i].mandatory
               THEN {Pending(fields[i].case, "must", <<i, "must">>, {})} ELSE {})

\* A mandatory leaf is missing if its value is None, whatever its `when`; the
\* object of bits is never None.
PendingField(i) ==
  CASE fields[i].kind = "container" /\ ~FieldSet(i) -> HoistedHere(i)
    [] fields[i].kind = "leaf" /\ fields[i].mandatory /\ ~fields[i].set ->
         {Pending(fields[i].case, "error", <<i, "leaf">>, {})}
    [] OTHER -> {}

\* The choices of node n, with the chains they are in.
Choices(n) ==
  UNION {{<<fields[i].case[k][1], SubSeq(fields[i].case, 1, k - 1)>> : k \in DOMAIN fields[i].case} :
           i \in FieldsOf(n)}

PendingChoices(n) ==
  {Pending(c[2], "error", <<n, c[1]>>, {}) :
     c \in {c \in Choices(n) : c[1] \in Required /\ ~\E pair \in Active(n) : pair[1] = c[1]}}

PendingOf(n) == (UNION {PendingField(i) : i \in FieldsOf(n)}) \cup PendingChoices(n)

\* A requirement of a case applies if every case on its chain is selected.
Applies(n, p) == Pairs(p.case) \subseteq Active(n)

\* Fields of two cases of one choice.
Clashes(n) ==
  {<<n, pair[1], "cases">> :
     pair \in {p \in Active(n) : \E q \in Active(n) : p[1] = q[1] /\ p[2] # q[2]}}

\* The `must` and `when` of the fields that are set.
Constraints(n) ==
  {<<i, "must">> : i \in {i \in FieldsOf(n) : FieldSet(i) /\ IsNode(i) /\ fields[i].mandatory}}
    \cup {<<i, "when">> : i \in {i \in FieldsOf(n) : FieldSet(i) /\ fields[i].when # "none"}}

Forced(n) == n = 0 \/ fields[n].kind = "entry" \/ (fields[n].kind = "presence" /\ fields[n].set)

\* Mutant: a requirement in a case goes up with the others.
HoistAll(pending) == {Pending(<<>>, p.kind, p.what, p.items) : p \in pending}

\* Only what is in no case goes up: an empty node selects none.
Hoist(pending) == {p \in pending : p.case = <<>>}

Kind(ps, kind) == {p \in ps : p.kind = kind}
What(ps) == {p.what : p \in ps}

\* walk() of node n, whose nodes below have been walked.
WalkNode(n) ==
  LET exists  == Forced(n) \/ \E i \in FieldsOf(n) : FieldSet(i)
      pending == PendingOf(n)
      due     == IF exists THEN {p \in pending : Applies(n, p)} ELSE {}
  IN /\ nodes' = [i \in DOMAIN nodes \cup {n} |->
                    IF i = n THEN [exists |-> exists,
                                   hoisted |-> IF exists THEN {} ELSE Hoist(pending)]
                    ELSE nodes[i]]
     /\ reported' = reported \cup What(Kind(due, "error")) \cup Clashes(n)
     /\ queued'   = queued \cup Constraints(n) \cup What(Kind(due, "must"))
     /\ deferred' = deferred \cup Kind(due, "guarded")

Walk ==
  /\ stage = "walk"
  /\ IF at > 0 /\ ~IsNode(at)
     THEN UNCHANGED <<nodes, deferred, queued, reported>>
     ELSE WalkNode(at)
  /\ IF at = 0 THEN stage' = "resolve" /\ at' = at ELSE at' = at - 1 /\ stage' = stage
  /\ UNCHANGED fields

\* resolve_guarded(): if the `when` of the container holds, what is below it is
\* required; if it is not evaluated, nothing is.
Resolve(p) ==
  /\ stage = "resolve" /\ p \in deferred
  /\ LET i == p.what[1]
     IN IF fields[i].when = "true"
        THEN /\ reported' = reported \cup What(Kind(p.items, "error"))
             /\ deferred' = (deferred \ {p}) \cup Kind(p.items, "guarded")
             /\ queued'   = queued \cup What(Kind(p.items, "must"))
                              \cup (IF fields[i].mandatory THEN {<<i, "must">>} ELSE {})
        ELSE deferred' = deferred \ {p} /\ UNCHANGED <<reported, queued>>
  /\ UNCHANGED <<fields, at, nodes, stage>>

Resolved ==
  /\ stage = "resolve" /\ deferred = {}
  /\ stage' = "evaluate"
  /\ UNCHANGED <<fields, at, nodes, deferred, queued, reported>>

\* The constraints, against the tree: a `must` does not hold, a `when` may.
Fails(c) == c[2] = "must" \/ fields[c[1]].when = "false"

Evaluate ==
  /\ stage = "evaluate"
  /\ reported' = reported \cup {c \in queued : Fails(c)}
  /\ stage' = "done"
  /\ UNCHANGED <<fields, at, nodes, deferred, queued>>

VNext == Walk \/ (\E p \in deferred : Resolve(p)) \/ Resolved \/ Evaluate

-----------------------------------------------------------------------------
(* Properties                                                              *)

\* What RFC 7950 requires, from the root down.

HasData[i \in 0..Len(fields)] ==
  CASE i = 0 -> TRUE
    [] i > 0 /\ fields[i].kind \in {"leaf", "bits"} -> fields[i].set
    [] i > 0 /\ fields[i].kind = "entry" -> TRUE
    [] OTHER -> (fields[i].kind = "presence" /\ fields[i].set)
                  \/ \E j \in FieldsOf(i) : j > i /\ HasData[j]

\* The cases the data selects.
Selects(n, pair) == \E i \in FieldsOf(n) : HasData[i] /\ pair \in Pairs(fields[i].case)
Selected(n, chain) == \A pair \in Pairs(chain) : Selects(n, pair)
MayBe(i) == fields[i].when \in {"none", "true"}

\* A node exists: by its data, or where an empty container exists of itself.
Live[i \in 0..Len(fields)] ==
  IF i = 0 THEN TRUE
  ELSE HasData[i] \/ /\ fields[i].kind = "container"
                     /\ MayBe(i)
                     /\ fields[i].up < i /\ Live[fields[i].up]
                     /\ Selected(fields[i].up, fields[i].case)

Expected ==
  LET nodeSet == {0} \cup {i \in Fields : IsNode(i)}
      pairs   == UNION {Pairs(fields[i].case) : i \in Fields}
  IN {<<i, "leaf">> : i \in {i \in Fields :
          /\ fields[i].kind \in {"leaf", "bits"} /\ fields[i].mandatory /\ ~fields[i].set
          /\ MayBe(i) /\ Live[fields[i].up] /\ Selected(fields[i].up, fields[i].case)}}
     \cup {<<i, "must">> : i \in {i \in Fields : IsNode(i) /\ fields[i].mandatory /\ Live[i]}}
     \cup {<<i, "when">> : i \in {i \in Fields : HasData[i] /\ fields[i].when = "false"}}
     \cup (UNION {{<<n, c[1]>> : c \in {c \in Choices(n) :
            /\ c[1] \in Required /\ Live[n] /\ Selected(n, c[2])
            /\ ~\E p \in pairs : p[1] = c[1] /\ Selects(n, p)}} : n \in nodeSet})
     \cup (UNION {{<<n, p[1], "cases">> : p \in {p \in pairs :
            Selects(n, p) /\ \E q \in pairs : p[1] = q[1] /\ p[2] # q[2] /\ Selects(n, q)}} : n \in nodeSet})

\* A mandatory leaf with a `when`, and one of bits.
Odd == {<<i, "leaf">> : i \in {i \in Fields : fields[i].kind = "bits" \/ fields[i].when # "none"}}

\* What is reported is what the schema requires and the tree lacks, no more and
\* no less, however deep in empty containers, in cases of cases or below `when`s
\* the requirement is; but for the odd leaves.
ReportedExactly == stage = "done" => reported \ Odd = Expected \ Odd

\* "never misjudged": what is reported is required.
NothingMisjudged == stage = "done" => reported \subseteq Expected

\* "Checks ... mandatory leaves": what is required is reported.
NothingMissed == stage = "done" => Expected \subseteq reported
=============================================================================
