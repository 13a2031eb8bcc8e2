---------------------- MODULE IdentityResolutionProofs ----------------------
(***************************************************************************)
(* The order in which IdentityStore stores the identities, for all schemas. *)
(***************************************************************************)
EXTENDS IdentityResolution, DataLemmas

(* The queue and the store hold identities.                                *)
QueueStore ==
  /\ queue \in Seq(Identities)
  /\ store \in Seq(Identities)

IInv == QueueStore /\ BasesFirst /\ NothingLost

(* Init establishes the invariant.                                         *)
LEMMA InitIInv == Init => IInv
<1> SUFFICES ASSUME Init PROVE IInv
  OBVIOUS
<1>1. QueueStore
  BY SchemaAssumption DEF Init, QueueStore
<1>2. BasesFirst
  BY DEF Init, BasesFirst
<1>3. NothingLost
  <2>1. Range(store) = {}
    BY DEF Init, Range
  <2> QED BY <2>1, SchemaAssumption DEF Init, NothingLost, Stored
<1> QED BY <1>1, <1>2, <1>3 DEF IInv

(* Resolve stores an identity that is not there, after its bases.          *)
LEMMA ResolveKeeps == IInv /\ Resolve => IInv'
<1> SUFFICES ASSUME IInv, Resolve PROVE IInv'
  OBVIOUS
<1> DEFINE i == Head(queue)
<1>1. /\ queue \in Seq(Identities) /\ store \in Seq(Identities)
      /\ queue # <<>> /\ bases' = bases
      /\ i \notin Range(store) /\ bases[i] \subseteq Range(store)
      /\ queue' = Tail(queue) /\ store' = Append(store, i)
  BY DEF IInv, QueueStore, Resolve, Stored
<1>2. i \in Identities /\ Tail(queue) \in Seq(Identities)
      /\ Range(queue) = {i} \cup Range(Tail(queue))
  BY <1>1, RangeOfTail
<1>3. /\ store' \in Seq(Identities)
      /\ Len(store') = Len(store) + 1
      /\ store'[Len(store) + 1] = i
      /\ \A m \in 1..Len(store) : store'[m] = store[m]
      /\ Range(store') = Range(store) \cup {i}
  BY <1>1, <1>2, RangeOfAppend
<1>4. /\ Len(store) \in Nat
      /\ \A m \in 1..Len(store) : store[m] \in Range(store)
      /\ \A x \in Range(store) : \E m \in 1..Len(store) : x = store[m]
  BY <1>1, ElementsOfSeq
<1> HIDE DEF i
<1>5. QueueStore'
  BY <1>1, <1>2, <1>3 DEF QueueStore
<1>6. BasesFirst'
  <2> SUFFICES ASSUME NEW m \in 1..Len(store')
               PROVE  /\ bases'[store'[m]] \subseteq {store'[j] : j \in 1..(m - 1)}
                      /\ \A j \in 1..(m - 1) : store'[j] # store'[m]
    BY DEF BasesFirst
  <2>1. {store'[j] : j \in 1..(m - 1)} = {store[j] : j \in 1..(m - 1)}
    BY <1>3, <1>4
  <2>2. CASE m = Len(store) + 1
    BY <2>1, <2>2, <1>1, <1>3, <1>4
  <2>3. CASE m \in 1..Len(store)
    <3>1. /\ bases[store[m]] \subseteq {store[j] : j \in 1..(m - 1)}
          /\ \A j \in 1..(m - 1) : store[j] # store[m]
      BY <2>3 DEF IInv, BasesFirst
    <3>2. \A j \in 1..(m - 1) : store'[j] = store[j]
      BY <2>3, <1>3, <1>4
    <3> QED BY <3>1, <3>2, <2>1, <2>3, <1>1, <1>3
  <2> QED BY <2>2, <2>3, <1>3, <1>4
<1>7. NothingLost'
  BY <1>1, <1>2, <1>3 DEF IInv, NothingLost, Stored
<1> QED BY <1>5, <1>6, <1>7 DEF IInv

(* The order stands while the store does.                                  *)
LEMMA OrderKept == BasesFirst /\ UNCHANGED <<bases, store>> => BasesFirst'
BY DEF BasesFirst

(* Every step keeps the invariant.                                         *)
LEMMA NextKeeps == IInv /\ [Next]_vars => IInv'
<1> SUFFICES ASSUME IInv, [Next]_vars PROVE IInv'
  OBVIOUS
<1>1. CASE Resolve
  BY <1>1, ResolveKeeps
<1>2. CASE Skip
  <2>1. /\ queue \in Seq(Identities) /\ queue # <<>> /\ queue' = Tail(queue)
        /\ Head(queue) \in Range(store) /\ store' = store /\ bases' = bases
    BY <1>2 DEF IInv, QueueStore, Skip, Stored
  <2>2. Tail(queue) \in Seq(Identities) /\ Range(queue) = {Head(queue)} \cup Range(Tail(queue))
    BY <2>1, RangeOfTail
  <2>3. QueueStore' /\ BasesFirst'
    <3>1. QueueStore'
      BY <2>1, <2>2 DEF IInv, QueueStore
    <3>2. BasesFirst'
      BY <2>1, OrderKept DEF IInv
    <3> QED BY <3>1, <3>2
  <2>4. NothingLost'
    BY <2>1, <2>2 DEF IInv, NothingLost, Stored
  <2> QED BY <2>3, <2>4 DEF IInv
<1>3. CASE Requeue
  <2>1. /\ queue \in Seq(Identities) /\ queue # <<>>
        /\ queue' = Append(Tail(queue), Head(queue))
        /\ store' = store /\ bases' = bases
    BY <1>3 DEF IInv, QueueStore, Requeue
  <2>2. /\ Head(queue) \in Identities /\ Tail(queue) \in Seq(Identities)
        /\ Range(queue) = {Head(queue)} \cup Range(Tail(queue))
    BY <2>1, RangeOfTail
  <2> DEFINE h == Head(queue)
             t == Tail(queue)
  <2>3. queue' \in Seq(Identities) /\ Range(queue') = Range(t) \cup {h}
    <3>1. h \in Identities /\ t \in Seq(Identities) /\ queue' = Append(t, h)
      BY <2>1, <2>2
    <3> HIDE DEF h, t
    <3> QED BY <3>1, RangeOfAppend
  <2>4. QueueStore' /\ BasesFirst'
    <3>1. QueueStore'
      BY <2>1, <2>3 DEF IInv, QueueStore
    <3>2. BasesFirst'
      BY <2>1, OrderKept DEF IInv
    <3> QED BY <3>1, <3>2
  <2>5. NothingLost'
    BY <2>1, <2>2, <2>3 DEF IInv, NothingLost, Stored
  <2> QED BY <2>4, <2>5 DEF IInv
<1>4. CASE UNCHANGED <<bases, queue, store>>
  BY <1>4 DEF IInv, QueueStore, BasesFirst, NothingLost, Stored
<1>5. Extend \/ MakeTable \/ UNCHANGED vars => UNCHANGED <<bases, queue, store>>
  BY DEF Extend, MakeTable, vars
<1> QED BY <1>1, <1>2, <1>3, <1>4, <1>5 DEF Next

(* Bases come first in the store and nothing is stored twice, so that       *)
(* _build_inheritance may extend the lists of children in place.            *)
THEOREM BasesComeFirst == Spec => []BasesFirst
<1>1. IInv => BasesFirst
  BY DEF IInv
<1> QED BY InitIInv, NextKeeps, <1>1, PTL DEF Spec

(* No definition is lost: what leaves the queue is in the store.            *)
THEOREM DefinitionsKept == Spec => []NothingLost
<1>1. IInv => NothingLost
  BY DEF IInv
<1> QED BY InitIInv, NextKeeps, <1>1, PTL DEF Spec
-----------------------------------------------------------------------------
(* What the tables hold                                                    *)

(* Everything is found and all bases are stored: there are no more steps to *)
(* take than identities in the store.                                      *)
Complete ==
  /\ store \in Seq(Identities) /\ Range(store) = Identities
  /\ \A i \in Identities : bases[i] \subseteq Identities

(* When the queue is empty, all is in the store.                            *)
LEMMA CompleteOnceRead == IInv /\ queue = <<>> => Complete
<1> SUFFICES ASSUME IInv, queue = <<>> PROVE Complete
  OBVIOUS
<1>1. store \in Seq(Identities)
  BY DEF IInv, QueueStore
<1>2. Range(queue) = {}
  BY DEF Range
<1>3. Range(store) = Identities
  BY <1>2 DEF IInv, NothingLost, Stored
<1>4. ASSUME NEW i \in Identities PROVE bases[i] \subseteq Identities
  <2>1. PICK m \in 1..Len(store) : i = store[m]
    BY <1>1, <1>3, ElementsOfSeq
  <2>2. bases[i] \subseteq {store[j] : j \in 1..(m - 1)}
    BY <2>1 DEF IInv, BasesFirst
  <2>3. \A j \in 1..(m - 1) : store[j] \in Identities
    BY <1>1, <2>1
  <2> QED BY <2>2, <2>3
<1> QED BY <1>1, <1>3, <1>4 DEF Complete

LEMMA StoreCounts ==
  ASSUME Complete
  PROVE  IsFiniteSet(Identities) /\ Len(store) \in Nat /\ Cardinality(Identities) <= Len(store)
<1>1. DOMAIN store = 1..Len(store) /\ Len(store) \in Nat /\ store \in [1..Len(store) -> Identities]
  BY DEF Complete
<1>2. IsFiniteSet(1..Len(store)) /\ Cardinality(1..Len(store)) = Len(store)
  BY <1>1, FS_Interval
<1>3. store \in Surjection(1..Len(store), Identities)
  BY <1>1 DEF Complete, Surjection, Range
<1> QED BY <1>1, <1>2, <1>3, FS_Surjection

(* The bases of an identity, direct or not, are the least set that has the  *)
(* direct ones and the bases of all in it.                                  *)
LEMMA AllBasesIsLeast ==
  ASSUME Complete, NEW i \in Identities
  PROVE  /\ AllBases(i) \subseteq Identities
         /\ bases[i] \subseteq AllBases(i)
         /\ \A j \in AllBases(i) : bases[j] \subseteq AllBases(i)
         /\ \A Y : bases[i] \subseteq Y /\ (\A j \in Y \cap Identities : bases[j] \subseteq Y)
                     => AllBases(i) \subseteq Y
<1> DEFINE N == Len(store)
<1>1. AllBases(i) = Reached(bases[i], bases, N)
  BY DEF AllBases, Reached, GrowsIn, OneFrom
<1>2. IsFiniteSet(Identities) /\ N \in Nat /\ Cardinality(Identities) <= N
  BY StoreCounts
<1>3. bases[i] \in SUBSET Identities /\ \A j \in Identities : bases[j] \subseteq Identities
  BY DEF Complete
<1> HIDE DEF N
<1>4. /\ AllBases(i) \subseteq Identities
      /\ bases[i] \subseteq AllBases(i)
      /\ Closed(AllBases(i), bases, Identities)
      /\ \A Y : bases[i] \subseteq Y /\ Closed(Y, bases, Identities) => AllBases(i) \subseteq Y
  BY <1>1, <1>2, <1>3, GrowthWithin
<1> QED BY <1>4 DEF Closed

(* The identities of which i is a base itself.                             *)
Direct(i) == {j \in Stored : i \in bases[j]}

(* What is derived from what is derived from i is derived from i.           *)
LEMMA DerivedFurther ==
  ASSUME Complete, NEW i \in Identities
  PROVE  /\ Direct(i) \subseteq Derived(i)
         /\ \A j \in Derived(i) : Derived(j) \subseteq Derived(i)
<1>1. Direct(i) \subseteq Derived(i)
  BY AllBasesIsLeast DEF Direct, Derived, Complete, Stored
<1>2. ASSUME NEW j \in Derived(i), NEW k \in Derived(j)
      PROVE  k \in Derived(i)
  <2>1. j \in Identities /\ k \in Identities /\ i \in AllBases(j) /\ j \in AllBases(k)
    BY <1>2 DEF Derived
  <2>2. AllBases(j) \subseteq AllBases(k)
    <3>1. bases[j] \subseteq AllBases(k) /\ \A l \in AllBases(k) : bases[l] \subseteq AllBases(k)
      BY <2>1, AllBasesIsLeast
    <3> QED BY <2>1, <3>1, AllBasesIsLeast
  <2> QED BY <2>1, <2>2 DEF Derived
<1> QED BY <1>1, <1>2

(* A set that has what is derived from i directly, and what is derived      *)
(* directly from all in it, has all that is derived from i.                 *)
LEMMA DerivedIsLeast ==
  ASSUME Complete, NEW i \in Identities, NEW X,
         Direct(i) \subseteq X, \A j \in X \cap Identities : Direct(j) \subseteq X
  PROVE  Derived(i) \subseteq X
<1> SUFFICES ASSUME NEW k \in Derived(i), k \notin X PROVE FALSE
  OBVIOUS
<1> DEFINE W == {b \in Identities : b # i /\ b \notin X}
<1>1. k \in Identities /\ i \in AllBases(k)
  BY DEF Derived
<1>2. ASSUME NEW j \in Identities, j \notin X PROVE bases[j] \subseteq W
  <2> SUFFICES ASSUME NEW b \in bases[j] PROVE b \in W
    OBVIOUS
  <2>1. b \in Identities /\ j \in Direct(b)
    BY <1>2 DEF Complete, Direct, Stored
  <2> QED BY <1>2, <2>1
<1>3. AllBases(k) \subseteq W
  <2>1. bases[k] \subseteq W /\ \A j \in W \cap Identities : bases[j] \subseteq W
    BY <1>1, <1>2
  <2> HIDE DEF W
  <2> QED BY <1>1, <2>1, AllBasesIsLeast
<1> QED BY <1>1, <1>3

(* The list of children is extended to all that is derived, whichever of    *)
(* the lists it is put together from are extended already.                  *)
LEMMA BelowIsDerived ==
  ASSUME Complete, NEW i \in Identities,
         \A j \in Identities : Direct(j) \subseteq children[j] /\ children[j] \subseteq Derived(j)
  PROVE  Below(children, i) = Derived(i)
<1> DEFINE N == Len(store)
           X == Below(children, i)
<1>1. X = Reached(children[i], children, N)
  BY DEF Below, Reached, GrowsIn, OneFrom
<1>2. IsFiniteSet(Identities) /\ N \in Nat /\ Cardinality(Identities) <= N
  BY StoreCounts
<1>3. children[i] \in SUBSET Identities /\ \A j \in Identities : children[j] \subseteq Identities
  BY DEF Derived
<1> HIDE DEF N, X
<1>4. /\ X \subseteq Identities
      /\ children[i] \subseteq X
      /\ Closed(X, children, Identities)
      /\ \A Y : children[i] \subseteq Y /\ Closed(Y, children, Identities) => X \subseteq Y
  BY <1>1, <1>2, <1>3, GrowthWithin
<1>5. Derived(i) \subseteq X
  <2>1. Direct(i) \subseteq X /\ \A j \in X \cap Identities : Direct(j) \subseteq X
    BY <1>4 DEF Closed
  <2> QED BY <2>1, DerivedIsLeast
<1>6. X \subseteq Derived(i)
  <2>1. Closed(Derived(i), children, Identities)
    BY DerivedFurther DEF Closed
  <2> QED BY <1>4, <2>1
<1> QED BY <1>5, <1>6 DEF X

(* The children of an identity are those it is a base of, and then all that *)
(* are derived from it; its table is made from the latter.                  *)
Progress ==
  /\ extended \in Nat /\ extended <= Len(store)
  /\ tabled \in Nat /\ tabled <= Len(store)
  /\ queue # <<>> => extended = 0 /\ tabled = 0
  /\ tabled > 0 => extended = Len(store)
  /\ children = [i \in Identities |-> children[i]]
  /\ tables = [n \in Names |-> tables[n]]

Collected ==
  /\ \A i \in Identities : (\A m \in 1..extended : store[m] # i) => children[i] = Direct(i)
  /\ \A m \in 1..extended : children[store[m]] = Derived(store[m])
  /\ \A m \in 1..tabled : tables[Name[store[m]]] = Derived(store[m])

CInv == Progress /\ Collected

LEMMA InitCInv == Init => CInv
<1> SUFFICES ASSUME Init PROVE CInv
  OBVIOUS
<1>1. /\ store = <<>> /\ extended = 0 /\ tabled = 0
      /\ children = [i \in Identities |-> {}] /\ tables = [n \in Names |-> {}]
  BY DEF Init
<1>2. Range(store) = {}
  BY <1>1 DEF Range
<1>3. Progress
  BY <1>1 DEF Progress
<1>4. Collected
  BY <1>1, <1>2 DEF Collected, Direct, Stored
<1> QED BY <1>3, <1>4 DEF CInv

(* While definitions are read, a stored identity is a child of its bases.   *)
LEMMA ResolveKeepsC == IInv /\ CInv /\ Resolve => CInv'
<1> SUFFICES ASSUME IInv, CInv, Resolve PROVE CInv'
  OBVIOUS
<1> DEFINE h == Head(queue)
<1>1. /\ queue # <<>> /\ store' = Append(store, h)
      /\ children' = [i \in Identities |-> IF i \in bases[h] THEN children[i] \cup {h} ELSE children[i]]
      /\ UNCHANGED <<bases, extended, tables, tabled>>
  BY DEF Resolve
<1>2. queue \in Seq(Identities) /\ store \in Seq(Identities)
  BY DEF IInv, QueueStore
<1>3. h \in Identities
  BY <1>1, <1>2, RangeOfTail
<1> HIDE DEF h
<1>4. Len(store') = Len(store) + 1 /\ Len(store) \in Nat /\ Range(store') = Range(store) \cup {h}
  BY <1>1, <1>2, <1>3, RangeOfAppend
<1>5. extended = 0 /\ tabled = 0
  BY <1>1 DEF CInv, Progress
<1>6. Progress'
  BY <1>1, <1>4, <1>5 DEF CInv, Progress
<1>7. ASSUME NEW i \in Identities PROVE children'[i] = Direct(i)'
  <2>1. children[i] = Direct(i)
    BY <1>5 DEF CInv, Collected
  <2>2. Direct(i)' = IF i \in bases[h] THEN Direct(i) \cup {h} ELSE Direct(i)
    BY <1>1, <1>4 DEF Direct, Stored
  <2> QED BY <1>1, <2>1, <2>2
<1>8. Collected'
  BY <1>1, <1>5, <1>7 DEF Collected
<1> QED BY <1>6, <1>8 DEF CInv

(* What is derived stays while schema and store do.                        *)
LEMMA DerivedKept ==
  ASSUME UNCHANGED <<bases, store>>, NEW i
  PROVE  Derived(i)' = Derived(i) /\ Direct(i)' = Direct(i)
<1>1. \A j : AllBases(j)' = AllBases(j)
  BY DEF AllBases
<1> QED BY <1>1 DEF Derived, Direct, Stored

(* Extending one more list.                                                *)
LEMMA ExtendKeepsC == IInv /\ CInv /\ Extend => CInv'
<1> SUFFICES ASSUME IInv, CInv, Extend PROVE CInv'
  OBVIOUS
<1> DEFINE i == store[extended + 1]
<1>1. /\ queue = <<>> /\ extended < Len(store)
      /\ children' = [children EXCEPT ![i] = Below(children, i)]
      /\ extended' = extended + 1
      /\ UNCHANGED <<bases, queue, store, tables, tabled>>
  BY DEF Extend
<1>2. Complete
  BY <1>1, CompleteOnceRead
<1>3. extended \in Nat /\ Len(store) \in Nat /\ extended + 1 \in 1..Len(store)
  BY <1>1, <1>2 DEF CInv, Progress, Complete
<1>4. i \in Identities
  BY <1>2, <1>3 DEF Complete
<1>5. tabled = 0
  BY <1>1, <1>3 DEF CInv, Progress
<1> HIDE DEF i
<1>6. ASSUME NEW j \in Identities
      PROVE  Direct(j) \subseteq children[j] /\ children[j] \subseteq Derived(j)
  <2>1. Direct(j) \subseteq Derived(j)
    BY <1>2, DerivedFurther
  <2>2. children[j] = Direct(j) \/ children[j] = Derived(j)
    BY DEF CInv, Collected
  <2> QED BY <2>1, <2>2
<1>7. Below(children, i) = Derived(i)
  BY <1>2, <1>4, <1>6, BelowIsDerived
<1>8. \A j : Derived(j)' = Derived(j) /\ Direct(j)' = Direct(j)
  BY <1>1, DerivedKept
<1>9. children = [j \in Identities |-> children[j]]
  BY DEF CInv, Progress
<1>10. Progress'
  BY <1>1, <1>3, <1>4, <1>5, <1>9 DEF CInv, Progress
<1>11. /\ children'[i] = Derived(i)
       /\ \A j \in Identities : j # i => children'[j] = children[j]
  BY <1>1, <1>4, <1>7, <1>9
<1>12. \A m \in 1..extended' : m \in 1..extended \/ m = extended + 1
  BY <1>1, <1>3
<1>13. \A m \in 1..extended' : store[m] \in Identities
  BY <1>1, <1>2, <1>3 DEF Complete
<1>14. \A m \in 1..extended' : children'[store[m]] = Derived(store[m])
  BY <1>11, <1>12, <1>13 DEF CInv, Collected, i
<1>15. \A j \in Identities :
         (\A m \in 1..extended' : store[m] # j) => children'[j] = Direct(j)
  <2>1. extended + 1 \in 1..extended' /\ 1..extended \subseteq 1..extended'
    BY <1>1, <1>3
  <2> QED BY <1>11, <2>1 DEF CInv, Collected, i
<1>16. Collected'
  BY <1>1, <1>5, <1>8, <1>14, <1>15 DEF Collected
<1> QED BY <1>10, <1>16 DEF CInv

(* Making one more table: no other identity has that name.                  *)
LEMMA MakeTableKeepsC ==
  ASSUME \A i, j \in Identities : Name[i] = Name[j] => i = j,
         IInv, CInv, MakeTable
  PROVE  CInv'
<1> DEFINE i == store[tabled + 1]
<1>1. /\ queue = <<>> /\ extended = Len(store) /\ tabled < Len(store)
      /\ tables' = [tables EXCEPT ![Name[i]] = children[i]]
      /\ tabled' = tabled + 1
      /\ UNCHANGED <<bases, queue, store, children, extended>>
  BY DEF MakeTable
<1>2. Complete
  BY <1>1, CompleteOnceRead
<1>3. tabled \in Nat /\ Len(store) \in Nat /\ tabled + 1 \in 1..extended
  BY <1>1, <1>2 DEF CInv, Progress, Complete
<1>4. \A m \in 1..Len(store) : store[m] \in Identities /\ Name[store[m]] \in Names
  BY <1>2 DEF Complete, Names
<1>5. children[i] = Derived(i)
  BY <1>3 DEF CInv, Collected
<1>6. \A j : Derived(j)' = Derived(j) /\ Direct(j)' = Direct(j)
  BY <1>1, DerivedKept
<1>7. tables = [n \in Names |-> tables[n]]
  BY DEF CInv, Progress
<1>8. i \in Identities /\ Name[i] \in Names
  BY <1>1, <1>3, <1>4
<1> HIDE DEF i
<1>9. Progress'
  <2>1. tables' = [n \in Names |-> tables'[n]]
    BY <1>1, <1>7, <1>8
  <2>2. children' = [j \in Identities |-> children'[j]]
    BY <1>1 DEF CInv, Progress
  <2>3. tabled' \in Nat /\ tabled' <= Len(store) /\ extended \in Nat /\ extended <= Len(store)
    BY <1>1, <1>3
  <2> QED BY <1>1, <2>1, <2>2, <2>3 DEF Progress
<1>10. ASSUME NEW m \in 1..tabled' PROVE tables'[Name[store[m]]] = Derived(store[m])
  <2>1. CASE store[m] = i
    BY <1>1, <1>5, <1>7, <1>8, <2>1
  <2>2. CASE store[m] # i
    <3>1. m \in 1..tabled /\ m \in 1..Len(store)
      BY <1>1, <1>3, <2>2 DEF i
    <3>2. Name[store[m]] # Name[i] /\ Name[store[m]] \in Names
      BY <1>4, <1>8, <2>2, <3>1
    <3> QED BY <1>1, <1>7, <1>8, <3>1, <3>2 DEF CInv, Collected
  <2> QED BY <2>1, <2>2
<1>11. Collected'
  BY <1>1, <1>6, <1>10 DEF CInv, Collected
<1> QED BY <1>9, <1>11 DEF CInv

(* Where identifiers are unique, the table of an identity has exactly what  *)
(* is derived from it, however deep and by however many ways.               *)
THEOREM TablesHaveAllDerived ==
  ASSUME \A i, j \in Identities : Name[i] = Name[j] => i = j
  PROVE  Spec => []TablesComplete
<1>1. IInv /\ CInv /\ [Next]_vars => CInv'
  <2> SUFFICES ASSUME IInv, CInv, [Next]_vars PROVE CInv'
    OBVIOUS
  <2>1. CASE Resolve
    BY <2>1, ResolveKeepsC
  <2>2. CASE Extend
    BY <2>2, ExtendKeepsC
  <2>3. CASE MakeTable
    BY <2>3, MakeTableKeepsC
  <2>4. CASE /\ UNCHANGED <<bases, store, children, extended, tables, tabled>>
             /\ queue' # <<>> => queue # <<>>
    <3>1. \A j : Derived(j)' = Derived(j) /\ Direct(j)' = Direct(j)
      BY <2>4, DerivedKept
    <3>2. Progress'
      BY <2>4 DEF CInv, Progress
    <3>3. Collected'
      BY <2>4, <3>1 DEF CInv, Collected
    <3> QED BY <3>2, <3>3 DEF CInv
  <2>5. Skip \/ Requeue \/ UNCHANGED vars =>
          /\ UNCHANGED <<bases, store, children, extended, tables, tabled>>
          /\ queue' # <<>> => queue # <<>>
    BY DEF Skip, Requeue, vars
  <2> QED BY <2>1, <2>2, <2>3, <2>4, <2>5 DEF Next
<1>2. IInv /\ CInv => TablesComplete
  <2> SUFFICES ASSUME IInv, CInv, queue = <<>>, tabled = Len(store), NEW i \in Identities
               PROVE  tables[Name[i]] = Derived(i)
    BY DEF TablesComplete, Built
  <2>1. Complete
    BY CompleteOnceRead
  <2>2. PICK m \in 1..Len(store) : i = store[m]
    BY <2>1, ElementsOfSeq DEF Complete
  <2> QED BY <2>2 DEF CInv, Collected
<1> QED BY InitIInv, InitCInv, NextKeeps, <1>1, <1>2, PTL DEF Spec
=============================================================================
