------------------------- MODULE IdentityResolution -------------------------
(***************************************************************************)
(* IdentityStore (helpers/identity.py): identities are stored in an order   *)
(* in which bases come before what is derived from them, found with a       *)
(* queue; then the list of children of each is extended in place to all     *)
(* that is derived from it, and build_identities (plugin/pybind.py) makes   *)
(* the tables from which the types of identityref leaves are generated.     *)
(*                                                                         *)
(* An identity is defined once for each prefix its module is known by, so   *)
(* it can be in the queue several times.                                    *)
(***************************************************************************)
EXTENDS Naturals, Sequences, Functions

CONSTANTS
  Identities,    \* the identities defined in the modules
  Schemas,       \* for each schema, the bases of every identity
  Definitions,   \* the orders in which the definitions are found
  Name           \* Name[i]: the identifier of i, without a prefix

Names == {Name[i] : i \in Identities}

\* A base may be one that no module given to pyangbind defines.
ASSUME SchemaAssumption ==
  /\ DOMAIN Name = Identities
  /\ \A b \in Schemas : DOMAIN b = Identities
  /\ \A d \in Definitions : d \in Seq(Identities) /\ Range(d) = Identities

VARIABLES
  bases,      \* the schema: bases[i], a set
  queue,      \* unresolved_identities
  store,      \* IdentityStore._store
  children,   \* children[i]: Identity.children of i, a set
  extended,   \* how many in the store have had their children extended
  tables,     \* identity_dict, by unprefixed name: what an identityref takes
  tabled      \* how many in the store have their table

vars == <<bases, queue, store, children, extended, tables, tabled>>

Stored == Range(store)

Init ==
  /\ bases \in Schemas
  /\ queue \in Definitions
  /\ store = <<>>
  /\ children = [i \in Identities |-> {}]
  /\ extended = 0
  /\ tables = [n \in Names |-> {}]
  /\ tabled = 0

\* Mutant: it goes back to the queue.
SkipBack ==
  /\ queue # <<>>
  /\ Head(queue) \in Stored
  /\ queue' = Append(Tail(queue), Head(queue))
  /\ UNCHANGED <<bases, store, children, extended, tables, tabled>>

\* Another definition of an identity that is in the store.
Skip ==
  /\ queue # <<>>
  /\ Head(queue) \in Stored
  /\ queue' = Tail(queue)
  /\ UNCHANGED <<bases, store, children, extended, tables, tabled>>

\* Mutant: the identity is given up.
GiveUp ==
  /\ queue # <<>>
  /\ Head(queue) \notin Stored
  /\ ~(bases[Head(queue)] \subseteq Stored)
  /\ queue' = Tail(queue)
  /\ UNCHANGED <<bases, store, children, extended, tables, tabled>>

\* A base is not in the store: back to the end of the queue.
Requeue ==
  /\ queue # <<>>
  /\ Head(queue) \notin Stored
  /\ ~(bases[Head(queue)] \subseteq Stored)
  /\ queue' = Append(Tail(queue), Head(queue))
  /\ UNCHANGED <<bases, store, children, extended, tables, tabled>>

\* Mutant: one base in the store is enough.
ResolveAny ==
  /\ queue # <<>>
  /\ Head(queue) \notin Stored
  /\ bases[Head(queue)] = {} \/ bases[Head(queue)] \cap Stored # {}
  /\ queue' = Tail(queue)
  /\ store' = Append(store, Head(queue))
  /\ children' = [i \in Identities |->
       IF i \in bases[Head(queue)] THEN children[i] \cup {Head(queue)} ELSE children[i]]
  /\ UNCHANGED <<bases, extended, tables, tabled>>

\* All bases are in the store: the identity becomes a child of each.
Resolve ==
  /\ queue # <<>>
  /\ Head(queue) \notin Stored
  /\ bases[Head(queue)] \subseteq Stored
  /\ queue' = Tail(queue)
  /\ store' = Append(store, Head(queue))
  /\ children' = [i \in Identities |->
       IF i \in bases[Head(queue)] THEN children[i] \cup {Head(queue)} ELSE children[i]]
  /\ UNCHANGED <<bases, extended, tables, tabled>>

\* Mutant: children and their children only.
BelowTwice(child, i) == child[i] \cup UNION {child[j] : j \in child[i]}

\* Everything reached from i through child[j], j \in S.
Below(child, i) ==
  LET reach[n \in Nat] ==
        IF n = 0 THEN child[i]
        ELSE reach[n - 1] \cup UNION {child[j] : j \in reach[n - 1]}
  IN reach[Len(store)]

\* _build_inheritance, one identity: the lists of those before it in the
\* store are extended already.
Extend ==
  /\ queue = <<>>
  /\ extended < Len(store)
  /\ children' = [children EXCEPT ![store[extended + 1]] = Below(children, store[extended + 1])]
  /\ extended' = extended + 1
  /\ UNCHANGED <<bases, queue, store, tables, tabled>>

\* build_identities, one identity: its table is made anew.
MakeTable ==
  /\ queue = <<>>
  /\ extended = Len(store)
  /\ tabled < Len(store)
  /\ tables' = [tables EXCEPT ![Name[store[tabled + 1]]] = children[store[tabled + 1]]]
  /\ tabled' = tabled + 1
  /\ UNCHANGED <<bases, queue, store, children, extended>>

Built == queue = <<>> /\ tabled = Len(store)

Next == Skip \/ Requeue \/ Resolve \/ Extend \/ MakeTable

\* The plugin runs in one thread until it is done.
Spec == Init /\ [][Next]_vars /\ WF_vars(Next)

-----------------------------------------------------------------------------
(* Properties                                                              *)

\* An identity is stored once, after all its bases: _build_inheritance relies
\* on that order when it extends the lists of children in place.
BasesFirst ==
  \A m \in 1..Len(store) :
    /\ bases[store[m]] \subseteq {store[j] : j \in 1..(m - 1)}
    /\ \A j \in 1..(m - 1) : store[j] # store[m]

\* No definition is lost between the queue and the store.
NothingLost == Range(queue) \cup Stored = Identities

\* What is derived from identity i, directly or not (RFC 7950, 9.10.2: a valid
\* value is an identity derived from the base).
AllBases(i) ==
  LET up[n \in Nat] ==
        IF n = 0 THEN bases[i]
        ELSE up[n - 1] \cup UNION {bases[j] : j \in up[n - 1]}
  IN up[Len(store)]
Derived(i) == {j \in Identities : i \in AllBases(j)}

\* The type of an identityref takes exactly what is derived from its base,
\* however deep and by however many ways, if identifiers are unique.
TablesComplete == Built => \A i \in Identities : tables[Name[i]] = Derived(i)

\* The plugin gets through the identities.  "In the case that a definition
\* cannot be resolved, PyangBind will not generate bindings and will return a
\* list of the known definitions at the time of the error"
\* (docs/usage.md:113).
Terminates == <>Built
=============================================================================
