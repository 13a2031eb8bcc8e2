------------------------- MODULE TypedefResolution -------------------------
(***************************************************************************)
(* build_typedefs (plugin/pybind.py): typedefs are put in an order in which *)
(* each comes after the types it uses, with a queue and a limit on the      *)
(* tries for each; then their classes are built in that order and entered   *)
(* in class_map, under the prefixed name and, for what is in the same       *)
(* module, under the name alone.                                           *)
(*                                                                         *)
(* A type is used by a prefixed name if it is of another module and by its  *)
(* plain name if it is of the same one or a type of YANG.  A typedef that is *)
(* entered under several prefixes is one typedef here: its entries are alike. *)
(***************************************************************************)
EXTENDS Naturals, Sequences, Functions, FiniteSets

CONSTANTS
  Typedefs,
  Builtins,        \* the types of YANG
  Schemas,         \* for each schema, the types every typedef uses
  Orders,          \* the orders in which the typedefs are found
  Name,            \* Name[t]: the identifier of typedef t
  Module,          \* Module[t]: the module t is defined in
  Identities,      \* the identities, <<module, identifier>>, in class_map already
  MaxTries,        \* the tries after which a typedef is given up
  None

Names         == {Name[t] : t \in Typedefs}
IdentityNames == {i[2] : i \in Identities}

ASSUME SchemaAssumption ==
  /\ DOMAIN Name = Typedefs /\ DOMAIN Module = Typedefs
  /\ Typedefs \cap Builtins = {}
  /\ \A u \in Schemas : DOMAIN u = Typedefs
  /\ \A o \in Orders : o \in Seq(Typedefs) /\ Range(o) = Typedefs /\ IsInjective(o)
  /\ MaxTries \in Nat
  /\ None \notin Typedefs \cup Builtins

VARIABLES
  uses,      \* the schema: uses[t], a set of typedefs, builtins and others
  queue,     \* unresolved_t
  tries,     \* unresolved_tc
  ordered,   \* process_typedefs_ordered
  givenUp,   \* error_ids
  plain,     \* plain[n]: what class_map holds under the plain name n
  made,      \* made[t]: the types the class of t was generated from, or None
  at         \* how many of `ordered` have been generated

vars == <<uses, queue, tries, ordered, givenUp, plain, made, at>>

\* What class_map holds under the name of an identity.
Identity == "identity"

\* An identity has the prefixed name of t.
Homonym(t) == <<Module[t], Name[t]>> \in Identities

Init ==
  /\ uses \in Schemas
  /\ queue \in Orders
  /\ tries = [t \in Typedefs |-> 0]
  /\ ordered = <<>>
  /\ givenUp = {}
  /\ plain = [n \in Names |-> IF n \in IdentityNames THEN Identity ELSE None]
  /\ made = [t \in Typedefs |-> None]
  /\ at = 0

Plain(t, u) == Module[t] = Module[u]

\* Is type u, as typedef t names it, known?  The names of identities are.
Known(t, u) ==
  \/ u \in Builtins
  \/ u \in Range(ordered)
  \/ u \in Typedefs /\ Homonym(u)
  \/ u \in Typedefs /\ Plain(t, u) /\ Name[u] \in IdentityNames

\* Mutant: a union is known when one of its types is.
ResolvableAny(t) == uses[t] = {} \/ \E u \in uses[t] : Known(t, u)

Resolvable(t) == \A u \in uses[t] : Known(t, u)

\* Mutant: the order is reversed.
OrderFront ==
  /\ queue # <<>>
  /\ Resolvable(Head(queue))
  /\ queue' = Tail(queue)
  /\ ordered' = <<Head(queue)>> \o ordered
  /\ UNCHANGED <<uses, tries, givenUp, plain, made, at>>

Order ==
  /\ queue # <<>>
  /\ Resolvable(Head(queue))
  /\ queue' = Tail(queue)
  /\ ordered' = Append(ordered, Head(queue))
  /\ UNCHANGED <<uses, tries, givenUp, plain, made, at>>

\* Mutant: the limit is never reached.
PutBackAlways ==
  /\ queue # <<>>
  /\ ~Resolvable(Head(queue))
  /\ queue' = Append(Tail(queue), Head(queue))
  /\ UNCHANGED <<uses, tries, ordered, givenUp, plain, made, at>>

PutBack ==
  /\ queue # <<>>
  /\ ~Resolvable(Head(queue))
  /\ tries[Head(queue)] < MaxTries
  /\ tries' = [tries EXCEPT ![Head(queue)] = @ + 1]
  /\ queue' = Append(Tail(queue), Head(queue))
  /\ UNCHANGED <<uses, ordered, givenUp, plain, made, at>>

\* Mutant: one try short.
GiveUpSoon ==
  /\ queue # <<>>
  /\ ~Resolvable(Head(queue))
  /\ tries[Head(queue)] + 1 >= MaxTries
  /\ tries' = [tries EXCEPT ![Head(queue)] = @ + 1]
  /\ queue' = Tail(queue)
  /\ givenUp' = givenUp \cup {Head(queue)}
  /\ UNCHANGED <<uses, ordered, plain, made, at>>

GiveUp ==
  /\ queue # <<>>
  /\ ~Resolvable(Head(queue))
  /\ tries[Head(queue)] >= MaxTries
  /\ tries' = [tries EXCEPT ![Head(queue)] = @ + 1]
  /\ queue' = Tail(queue)
  /\ givenUp' = givenUp \cup {Head(queue)}
  /\ UNCHANGED <<uses, ordered, plain, made, at>>

\* What class_map gives for type u as typedef t names it.
Meant(t, u) ==
  CASE u \in Typedefs /\ Plain(t, u) -> plain[Name[u]]
    [] u \in Typedefs /\ ~Plain(t, u) /\ Homonym(u) -> Identity
    [] OTHER -> u

\* TypeError if a typedef was given up, or if the next has the prefixed name of
\* an identity.  If not, its class is generated and its plain name stands for it.
Generate ==
  /\ queue = <<>>
  /\ givenUp = {}
  /\ at < Len(ordered)
  /\ LET t == ordered[at + 1]
     IN /\ ~Homonym(t)
        /\ made' = [made EXCEPT ![t] = {Meant(t, u) : u \in uses[t]}]
        /\ plain' = [plain EXCEPT ![Name[t]] = t]
  /\ at' = at + 1
  /\ UNCHANGED <<uses, queue, tries, ordered, givenUp>>

Failed ==
  /\ queue = <<>>
  /\ givenUp # {} \/ (at < Len(ordered) /\ Homonym(ordered[at + 1]))
Done   == queue = <<>> /\ givenUp = {} /\ at = Len(ordered)

Next == Order \/ PutBack \/ GiveUp \/ Generate

\* The plugin runs in one thread until it is done.
Spec == Init /\ [][Next]_vars /\ WF_vars(Next)

-----------------------------------------------------------------------------
(* Properties                                                              *)

\* A typedef comes once, after everything it uses, so that build_elemtype finds
\* each type it looks up in class_map; only the name of an identity may stand
\* in for what is not there yet.
UsesFirst ==
  \A m \in 1..Len(ordered) :
    /\ \A u \in uses[ordered[m]] :
         \/ u \in Builtins
         \/ u \in {ordered[j] : j \in 1..(m - 1)}
         \/ u \in Typedefs /\ Name[u] \in IdentityNames
    /\ \A j \in 1..(m - 1) : ordered[j] # ordered[m]

\* A class is generated from the types its typedef names: "resolve it to the
\* module it belongs to" (pybind.py:537-538).
MadeFromItsTypes == \A t \in Typedefs : made[t] # None => made[t] = uses[t]

\* Typedef t can be resolved: whatever it uses is defined, and so on down,
\* without coming back to t.
AllUses(t) ==
  LET down[n \in Nat] ==
        IF n = 0 THEN uses[t]
        ELSE down[n - 1] \cup UNION {uses[u] : u \in down[n - 1] \cap Typedefs}
  IN down[Cardinality(Typedefs)]

Sound(t) ==
  /\ AllUses(t) \subseteq Typedefs \cup Builtins
  /\ \A u \in (AllUses(t) \cup {t}) \cap Typedefs : u \notin AllUses(u)

\* Only typedefs that cannot be resolved are given up.
OnlyUnsoundGivenUp == \A t \in givenUp : ~Sound(t)

\* The plugin ends, with classes for all typedefs or an error: "we should bail"
\* (pybind.py:552-554).
Ends == <>(Done \/ Failed)
=============================================================================
