----------------------- MODULE TypedefResolutionProofs -----------------------
(***************************************************************************)
(* The order in which build_typedefs generates classes, for all schemas,    *)
(* all limits on the tries and all clashes of names with identities.        *)
(***************************************************************************)
EXTENDS TypedefResolution, DataLemmas

(* A typedef is in the queue once, or is ordered, or is given up.           *)
Waiting ==
  /\ queue \in Seq(Typedefs)
  /\ ordered \in Seq(Typedefs)
  /\ NoTwice(queue)
  /\ Range(queue) \cap Range(ordered) = {}

IInv == Waiting /\ UsesFirst

(* The order stands while nothing is added to it.                          *)
LEMMA OrderKept == UsesFirst /\ UNCHANGED <<uses, ordered>> => UsesFirst'
BY DEF UsesFirst

(* Init establishes the invariant.                                         *)
LEMMA InitIInv == Init => IInv
<1> SUFFICES ASSUME Init PROVE IInv
  OBVIOUS
<1>1. queue \in Seq(Typedefs) /\ IsInjective(queue) /\ ordered = <<>>
  BY SchemaAssumption DEF Init
<1>2. NoTwice(queue)
  <2>1. DOMAIN queue = 1..Len(queue)
    BY <1>1
  <2> QED BY <1>1, <2>1 DEF IsInjective, NoTwice
<1>3. Range(ordered) = {}
  BY <1>1 DEF Range
<1>4. Waiting
  BY <1>1, <1>2, <1>3 DEF Waiting
<1>5. UsesFirst
  BY <1>1 DEF UsesFirst
<1> QED BY <1>4, <1>5 DEF IInv

(* Order adds, at the end, a typedef whose types are known.                 *)
LEMMA OrderKeeps == IInv /\ Order => IInv'
<1> SUFFICES ASSUME IInv, Order PROVE IInv'
  OBVIOUS
<1> DEFINE t == Head(queue)
           q == Tail(queue)
<1>1. queue \in Seq(Typedefs) /\ ordered \in Seq(Typedefs) /\ queue # <<>> /\ NoTwice(queue)
  BY DEF IInv, Waiting, Order
<1>2. t \in Typedefs /\ q \in Seq(Typedefs) /\ Range(queue) = {t} \cup Range(q)
  BY <1>1, RangeOfTail
<1>3. NoTwice(q) /\ t \notin Range(q)
  BY <1>1, TailOnce
<1>4. queue' = q /\ ordered' = Append(ordered, t) /\ uses' = uses /\ Resolvable(t)
  BY DEF Order
<1>5. t \notin Range(ordered) /\ Range(q) \cap Range(ordered) = {}
  BY <1>2 DEF IInv, Waiting
<1> HIDE DEF t, q
<1>6. /\ ordered' \in Seq(Typedefs)
      /\ Len(ordered) \in Nat
      /\ Len(ordered') = Len(ordered) + 1
      /\ ordered'[Len(ordered) + 1] = t
      /\ \A m \in 1..Len(ordered) : ordered'[m] = ordered[m]
      /\ Range(ordered') = Range(ordered) \cup {t}
  BY <1>1, <1>2, <1>4, RangeOfAppend
<1>7. /\ \A m \in 1..Len(ordered) : ordered[m] \in Range(ordered)
      /\ \A x \in Range(ordered) : \E m \in 1..Len(ordered) : x = ordered[m]
  BY <1>1, ElementsOfSeq
<1>8. Waiting'
  BY <1>2, <1>3, <1>4, <1>5, <1>6 DEF Waiting
<1>9. UsesFirst'
  <2> SUFFICES ASSUME NEW m \in 1..Len(ordered')
               PROVE  /\ \A u \in uses[ordered'[m]] :
                           \/ u \in Builtins
                           \/ u \in {ordered'[j] : j \in 1..(m - 1)}
                           \/ u \in Typedefs /\ Name[u] \in IdentityNames
                      /\ \A j \in 1..(m - 1) : ordered'[j] # ordered'[m]
    BY <1>4 DEF UsesFirst
  <2>1. \A j \in 1..(m - 1) : ordered'[j] = ordered[j]
    BY <1>6
  <2>2. CASE m = Len(ordered) + 1
    <3>1. ASSUME NEW u \in uses[t]
          PROVE  \/ u \in Builtins
                 \/ u \in {ordered'[j] : j \in 1..(m - 1)}
                 \/ u \in Typedefs /\ Name[u] \in IdentityNames
      <4>1. CASE u \in Range(ordered)
        BY <4>1, <2>1, <2>2, <1>6, <1>7
      <4>2. CASE u \in Typedefs /\ Homonym(u)
        BY <4>2 DEF Homonym, IdentityNames
      <4> QED BY <3>1, <4>1, <4>2, <1>4 DEF Resolvable, Known
    <3>2. \A j \in 1..(m - 1) : ordered'[j] # t
      BY <2>1, <2>2, <1>5, <1>6, <1>7
    <3> QED BY <3>1, <3>2, <2>2, <1>6
  <2>3. CASE m \in 1..Len(ordered)
    <3>1. /\ \A u \in uses[ordered[m]] :
               \/ u \in Builtins
               \/ u \in {ordered[j] : j \in 1..(m - 1)}
               \/ u \in Typedefs /\ Name[u] \in IdentityNames
          /\ \A j \in 1..(m - 1) : ordered[j] # ordered[m]
      BY <2>3 DEF IInv, UsesFirst
    <3>2. {ordered'[j] : j \in 1..(m - 1)} = {ordered[j] : j \in 1..(m - 1)}
      BY <2>1
    <3> QED BY <3>1, <3>2, <2>1, <2>3, <1>6
  <2> QED BY <2>2, <2>3, <1>6
<1> QED BY <1>8, <1>9 DEF IInv

(* Every step keeps the invariant.                                         *)
LEMMA NextKeeps == IInv /\ [Next]_vars => IInv'
<1> SUFFICES ASSUME IInv, [Next]_vars PROVE IInv'
  OBVIOUS
<1>1. CASE Order
  BY <1>1, OrderKeeps
<1>2. CASE PutBack
  <2> DEFINE t == Head(queue)
             q == Tail(queue)
  <2>1. queue \in Seq(Typedefs) /\ queue # <<>> /\ NoTwice(queue)
    BY <1>2 DEF IInv, Waiting, PutBack
  <2>2. queue' = Append(q, t) /\ UNCHANGED <<uses, ordered>>
    BY <1>2 DEF PutBack
  <2>3. t \in Typedefs /\ q \in Seq(Typedefs) /\ Range(queue) = {t} \cup Range(q)
    BY <2>1, RangeOfTail
  <2>4. NoTwice(q) /\ t \notin Range(q)
    BY <2>1, TailOnce
  <2> HIDE DEF t, q
  <2>5. queue' \in Seq(Typedefs) /\ Range(queue') = Range(queue)
    BY <2>2, <2>3, RangeOfAppend
  <2>6. NoTwice(queue')
    BY <2>2, <2>3, <2>4, AppendOnce
  <2>7. Waiting'
    BY <2>2, <2>5, <2>6 DEF IInv, Waiting, NoTwice
  <2>8. UsesFirst'
    BY <2>2, OrderKept DEF IInv
  <2> QED BY <2>7, <2>8 DEF IInv
<1>3. CASE GiveUp
  <2>1. queue \in Seq(Typedefs) /\ queue # <<>> /\ NoTwice(queue)
    BY <1>3 DEF IInv, Waiting, GiveUp
  <2>2. queue' = Tail(queue) /\ UNCHANGED <<uses, ordered>>
    BY <1>3 DEF GiveUp
  <2>3. Tail(queue) \in Seq(Typedefs) /\ Range(Tail(queue)) \subseteq Range(queue)
    BY <2>1, RangeOfTail
  <2>4. NoTwice(Tail(queue))
    BY <2>1, TailOnce
  <2>5. Waiting'
    BY <2>2, <2>3, <2>4 DEF IInv, Waiting, NoTwice
  <2>6. UsesFirst'
    BY <2>2, OrderKept DEF IInv
  <2> QED BY <2>5, <2>6 DEF IInv
<1>4. CASE UNCHANGED <<uses, queue, ordered>>
  <2>1. UsesFirst'
    BY <1>4, OrderKept DEF IInv
  <2>2. Waiting'
    BY <1>4 DEF IInv, Waiting, NoTwice
  <2> QED BY <2>1, <2>2 DEF IInv
<1>5. Generate \/ UNCHANGED vars => UNCHANGED <<uses, queue, ordered>>
  BY DEF Generate, vars
<1> QED BY <1>1, <1>2, <1>3, <1>4, <1>5 DEF Next

(* When the class of a typedef is generated, the types it uses have theirs, *)
(* or an identity has the name; and no typedef is generated twice, so that  *)
(* build_typedefs never raises its error of a duplicate against itself.     *)
THEOREM UsesComeFirst == Spec => []UsesFirst
<1>1. IInv => UsesFirst
  BY DEF IInv
<1> QED BY InitIInv, NextKeeps, <1>1, PTL DEF Spec

-----------------------------------------------------------------------------
(* Which typedefs are given up                                             *)

(* What a typedef uses, directly or not, is the least set that has what it  *)
(* uses directly and all that the typedefs in it use.                       *)
LEMMA AllUsesIsLeast ==
  ASSUME IsFiniteSet(Typedefs), NEW t \in Typedefs
  PROVE  /\ uses[t] \subseteq AllUses(t)
         /\ Closed(AllUses(t), uses, Typedefs)
         /\ \A X : uses[t] \subseteq X /\ Closed(X, uses, Typedefs) => AllUses(t) \subseteq X
<1> DEFINE V == UNION {uses[u] : u \in Typedefs}
           N == Cardinality(Typedefs)
           f == CHOOSE g : Grows(g, uses[t], uses, Typedefs)
<1>1. AllUses(t) = f[N]
  BY DEF AllUses, Grows, OneOn
<1>2. \A u \in Typedefs : uses[u] \in SUBSET V
  OBVIOUS
<1> HIDE DEF V
<1>3. \E g : Grows(g, uses[t], uses, Typedefs)
  <2>1. uses[t] \in SUBSET V
    BY <1>2
  <2> QED BY <1>2, <2>1, GrowthExists
<1>4. Grows(f, uses[t], uses, Typedefs)
  BY <1>3
<1>5. N \in Nat /\ N <= N
  BY FS_CardinalityType
<1> HIDE DEF f
<1> QED BY <1>1, <1>4, <1>5, GrowthCloses

(* The tries a typedef may need: one less than the typedefs below and it.   *)
Height(t) == Cardinality(AllUses(t) \cap Typedefs)

LEMMA SameUses ==
  ASSUME UNCHANGED uses, NEW t
  PROVE  AllUses(t)' = AllUses(t) /\ Height(t)' = Height(t) /\ (Sound(t)' <=> Sound(t))
<1>1. \A u : AllUses(u)' = AllUses(u)
  BY DEF AllUses
<1> QED BY <1>1 DEF Height, Sound

(* What a sound typedef uses is sound, and nearer to the types of YANG.     *)
LEMMA SoundDown ==
  ASSUME IsFiniteSet(Typedefs), NEW t \in Typedefs, Sound(t)
  PROVE  /\ Height(t) \in Nat
         /\ Height(t) < Cardinality(Typedefs)
         /\ \A u \in uses[t] : \/ u \in Builtins
                               \/ u \in Typedefs /\ Sound(u) /\ Height(u) < Height(t)
<1> DEFINE Below(u) == AllUses(u) \cap Typedefs
<1>1. \A u \in Typedefs : IsFiniteSet(Below(u)) /\ Height(u) \in Nat
  BY FS_Intersection, FS_CardinalityType DEF Height
<1>2. \A k, l \in Nat : k <= l /\ k # l => k < l
  OBVIOUS
<1>3. Height(t) < Cardinality(Typedefs)
  <2>1. Below(t) \subseteq Typedefs /\ Below(t) # Typedefs
    BY DEF Sound
  <2>2. /\ Cardinality(Below(t)) <= Cardinality(Typedefs)
        /\ Cardinality(Below(t)) # Cardinality(Typedefs)
    BY <2>1, FS_Subset
  <2> QED BY <1>1, <1>2, <2>2, FS_CardinalityType DEF Height
<1>4. ASSUME NEW u \in uses[t], u \notin Builtins
      PROVE  u \in Typedefs /\ Sound(u) /\ Height(u) < Height(t)
  <2>1. u \in AllUses(t) /\ u \in Typedefs
    BY <1>4, AllUsesIsLeast DEF Sound
  <2>2. uses[u] \subseteq AllUses(t)
    BY <2>1, AllUsesIsLeast DEF Closed
  <2>3. AllUses(u) \subseteq AllUses(t)
    BY <2>1, <2>2, AllUsesIsLeast
  <2>4. Sound(u)
    BY <2>1, <2>3 DEF Sound
  <2>5. Below(u) \subseteq Below(t) /\ Below(u) # Below(t)
    BY <2>1, <2>3, <2>4 DEF Sound
  <2>6. /\ Cardinality(Below(u)) <= Cardinality(Below(t))
        /\ Cardinality(Below(u)) # Cardinality(Below(t))
    BY <1>1, <2>5, FS_Subset
  <2> QED BY <1>1, <1>2, <2>1, <2>4, <2>6 DEF Height
<1> QED BY <1>1, <1>3, <1>4

(* The queue is gone through in rounds: the tries do not decrease along it, *)
(* and no two typedefs in it are more than one try apart.                   *)
Level ==
  \A i \in 1..Len(queue) : \A j \in i..Len(queue) :
    tries[queue[i]] <= tries[queue[j]] /\ tries[queue[j]] <= tries[queue[i]] + 1

(* A sound typedef that waits has been tried no more often than it must.    *)
InTime ==
  \A t \in Typedefs : Sound(t) =>
    /\ t \in Range(queue) \cup Range(ordered)
    /\ t \in Range(queue) => tries[t] <= Height(t)

TInv ==
  /\ IsFiniteSet(Typedefs)
  /\ tries \in [Typedefs -> Nat]
  /\ Level
  /\ InTime
  /\ OnlyUnsoundGivenUp

LEMMA InitTInv == Init => TInv
<1> SUFFICES ASSUME Init PROVE TInv
  OBVIOUS
<1>1. queue \in Seq(Typedefs) /\ IsInjective(queue) /\ Range(queue) = Typedefs
  BY SchemaAssumption DEF Init
<1>2. tries = [t \in Typedefs |-> 0]
  BY DEF Init
<1>3. IsFiniteSet(Typedefs)
  <2>1. DOMAIN queue = 1..Len(queue) /\ Len(queue) \in Nat
    BY <1>1
  <2>2. IsFiniteSet(1..Len(queue))
    BY <2>1, FS_Interval
  <2>3. queue \in Surjection(1..Len(queue), Typedefs)
    BY <1>1, <2>1 DEF Surjection, Range
  <2> QED BY <2>2, <2>3, FS_Surjection
<1>4. Level
  <2>1. \A i \in 1..Len(queue) : queue[i] \in Typedefs
    BY <1>1
  <2>2. \A t \in Typedefs : tries[t] = 0
    BY <1>2
  <2>3. Len(queue) \in Nat
    BY <1>1
  <2>4. \A i \in 1..Len(queue) : tries[queue[i]] = 0
    BY <2>1, <2>2
  <2>5. \A i \in 1..Len(queue) : \A j \in i..Len(queue) : j \in 1..Len(queue)
    BY <2>3
  <2> QED BY <2>4, <2>5 DEF Level
<1>5. InTime
  <2>1. \A t \in Typedefs : Sound(t) => Height(t) \in Nat
    BY <1>3, SoundDown
  <2> QED BY <1>1, <1>2, <2>1 DEF InTime
<1>6. OnlyUnsoundGivenUp
  BY DEF Init, OnlyUnsoundGivenUp
<1> QED BY <1>2, <1>3, <1>4, <1>5, <1>6 DEF TInv

(* The head of the queue, when it is sound and cannot be resolved, has been *)
(* tried less often than its height: what it lacks is behind it.            *)
LEMMA TriesLeft ==
  ASSUME IInv, TInv, queue # <<>>, Sound(Head(queue)), ~Resolvable(Head(queue))
  PROVE  tries[Head(queue)] + 1 <= Height(Head(queue))
<1> DEFINE t == Head(queue)
<1>1. queue \in Seq(Typedefs) /\ Len(queue) \in Nat \ {0} /\ t = queue[1] /\ t \in Typedefs
  <2>1. queue \in Seq(Typedefs)
    BY DEF IInv, Waiting
  <2> QED BY <2>1, RangeOfTail
<1>2. IsFiniteSet(Typedefs) /\ tries \in [Typedefs -> Nat]
  BY DEF TInv
<1>3. PICK u \in uses[t] : ~Known(t, u)
  BY DEF Resolvable
<1>4. Sound(t)
  OBVIOUS
<1> HIDE DEF t
<1>5. u \notin Builtins /\ u \notin Range(ordered)
  BY <1>3 DEF Known
<1>6. /\ Height(t) \in Nat
      /\ u \in Typedefs /\ Sound(u) /\ Height(u) < Height(t)
  BY <1>1, <1>2, <1>3, <1>4, <1>5, SoundDown
<1>7. Height(u) \in Nat
  BY <1>2, <1>6, SoundDown
<1>8. u \in Range(queue) /\ tries[u] <= Height(u)
  BY <1>5, <1>6 DEF TInv, InTime
<1>9. PICK j \in 1..Len(queue) : u = queue[j]
  BY <1>1, <1>8, ElementsOfSeq
<1>10. tries[t] <= tries[u]
  <2>1. 1 \in 1..Len(queue) /\ j \in 1..Len(queue)
    BY <1>1
  <2> QED BY <1>1, <1>9, <2>1 DEF TInv, Level
<1>11. tries[t] \in Nat /\ tries[u] \in Nat
  BY <1>1, <1>2, <1>6
<1> QED BY <1>6, <1>7, <1>8, <1>10, <1>11 DEF t

(* The front leaves the queue: the rest of it stays level.                  *)
LEMMA FrontLeaves ==
  ASSUME IInv, TInv, queue # <<>>, queue' = Tail(queue),
         tries' \in [Typedefs -> Nat],
         \A u \in Typedefs : u # Head(queue) => tries'[u] = tries[u]
  PROVE  /\ Level'
         /\ \A u \in Range(queue') : u \in Range(queue) /\ u # Head(queue)
         /\ Range(queue) = {Head(queue)} \cup Range(queue')
<1> DEFINE q == Tail(queue)
<1>1. queue \in Seq(Typedefs) /\ NoTwice(queue)
  BY DEF IInv, Waiting
<1>2. /\ Len(queue) \in Nat \ {0}
      /\ q \in Seq(Typedefs)
      /\ Len(q) = Len(queue) - 1
      /\ \A m \in 1..(Len(queue) - 1) : q[m] = queue[m + 1]
      /\ Range(queue) = {Head(queue)} \cup Range(q)
  BY <1>1, RangeOfTail
<1>3. Head(queue) \notin Range(q)
  BY <1>1, TailOnce
<1> HIDE DEF q
<1>4. queue' = q
  BY DEF q
<1>5. ASSUME NEW m \in 1..Len(q)
      PROVE  /\ m + 1 \in 1..Len(queue)
             /\ q[m] = queue[m + 1]
             /\ tries'[q[m]] = tries[queue[m + 1]]
  <2>1. q[m] \in Range(q) /\ q[m] \in Typedefs
    BY <1>2, ElementsOfSeq
  <2> QED BY <1>2, <1>3, <2>1
<1>6. Level'
  <2> SUFFICES ASSUME NEW i \in 1..Len(q), NEW j \in i..Len(q)
               PROVE  /\ tries'[q[i]] <= tries'[q[j]]
                      /\ tries'[q[j]] <= tries'[q[i]] + 1
    BY <1>4 DEF Level
  <2>1. j \in 1..Len(q) /\ j + 1 \in (i + 1)..Len(queue)
    BY <1>2
  <2> QED BY <1>5, <2>1 DEF TInv, Level
<1> QED BY <1>2, <1>3, <1>4, <1>6

LEMMA OrderKeepsT == IInv /\ TInv /\ Order => TInv'
<1> SUFFICES ASSUME IInv, TInv, Order PROVE TInv'
  OBVIOUS
<1> DEFINE t == Head(queue)
<1>1. /\ queue # <<>> /\ queue' = Tail(queue)
      /\ ordered' = Append(ordered, t)
      /\ UNCHANGED <<uses, tries, givenUp>>
  BY DEF Order
<1>2. queue \in Seq(Typedefs) /\ ordered \in Seq(Typedefs)
  BY DEF IInv, Waiting
<1>3. t \in Typedefs
  BY <1>1, <1>2, RangeOfTail
<1>4. Range(ordered') = Range(ordered) \cup {t}
  BY <1>1, <1>2, <1>3, RangeOfAppend
<1>5. /\ Level'
      /\ \A u \in Range(queue') : u \in Range(queue) /\ u # t
      /\ Range(queue) = {t} \cup Range(queue')
  BY <1>1, FrontLeaves DEF TInv
<1> HIDE DEF t
<1>6. \A u : Height(u)' = Height(u) /\ (Sound(u)' <=> Sound(u))
  BY <1>1, SameUses
<1>7. InTime'
  BY <1>1, <1>4, <1>5, <1>6 DEF TInv, InTime
<1>8. OnlyUnsoundGivenUp'
  BY <1>1, <1>6 DEF TInv, OnlyUnsoundGivenUp
<1> QED BY <1>1, <1>5, <1>7, <1>8 DEF TInv

LEMMA PutBackKeepsT == IInv /\ TInv /\ PutBack => TInv'
<1> SUFFICES ASSUME IInv, TInv, PutBack PROVE TInv'
  OBVIOUS
<1> DEFINE t == Head(queue)
           q == Tail(queue)
           n == Len(q)
<1>1. /\ queue # <<>> /\ queue' = Append(q, t)
      /\ tries' = [tries EXCEPT ![t] = @ + 1]
      /\ ~Resolvable(t)
      /\ UNCHANGED <<uses, ordered, givenUp>>
  BY DEF PutBack
<1>2. queue \in Seq(Typedefs) /\ NoTwice(queue)
  BY DEF IInv, Waiting
<1>3. /\ Len(queue) \in Nat \ {0} /\ t = queue[1] /\ t \in Typedefs
      /\ q \in Seq(Typedefs)
      /\ n = Len(queue) - 1
      /\ \A m \in 1..(Len(queue) - 1) : q[m] = queue[m + 1]
      /\ Range(queue) = {t} \cup Range(q)
  BY <1>1, <1>2, RangeOfTail
<1>4. t \notin Range(q)
  BY <1>1, <1>2, TailOnce
<1>5. tries \in [Typedefs -> Nat]
  BY DEF TInv
<1>6. /\ tries' \in [Typedefs -> Nat]
      /\ tries'[t] = tries[t] + 1
      /\ \A u \in Typedefs : u # t => tries'[u] = tries[u]
  BY <1>1, <1>3, <1>5
<1>7. Sound(t) => tries[t] + 1 <= Height(t)
  BY <1>1, TriesLeft
<1> HIDE DEF t, q
<1>8. /\ Len(queue') = n + 1 /\ n \in Nat
      /\ queue'[n + 1] = t
      /\ \A m \in 1..n : queue'[m] = q[m]
      /\ Range(queue') = Range(queue)
  BY <1>1, <1>3, RangeOfAppend
<1>9. ASSUME NEW m \in 1..n
      PROVE  /\ m + 1 \in 1..Len(queue) /\ 1 \in 1..Len(queue)
             /\ queue[m + 1] \in Typedefs
             /\ tries'[queue'[m]] = tries[queue[m + 1]]
             /\ tries[t] <= tries[queue[m + 1]]
             /\ tries[queue[m + 1]] <= tries[t] + 1
  <2>1. q[m] \in Range(q) /\ q[m] \in Typedefs
    BY <1>3, ElementsOfSeq
  <2>2. m + 1 \in 1..Len(queue) /\ 1 \in 1..Len(queue)
    BY <1>3
  <2>3. q[m] = queue[m + 1] /\ tries'[queue'[m]] = tries[queue[m + 1]]
    BY <1>3, <1>4, <1>6, <1>8, <2>1
  <2>4. tries[queue[1]] <= tries[queue[m + 1]] /\ tries[queue[m + 1]] <= tries[queue[1]] + 1
    BY <2>2 DEF TInv, Level
  <2> QED BY <1>3, <2>1, <2>2, <2>3, <2>4
<1>10. Level'
  <2> SUFFICES ASSUME NEW i \in 1..(n + 1), NEW j \in i..(n + 1)
               PROVE  /\ tries'[queue'[i]] <= tries'[queue'[j]]
                      /\ tries'[queue'[j]] <= tries'[queue'[i]] + 1
    BY <1>8 DEF Level
  <2>1. tries[t] \in Nat /\ tries'[queue'[n + 1]] = tries[t] + 1
    BY <1>3, <1>5, <1>6, <1>8
  <2>2. CASE j \in 1..n
    <3>1. i \in 1..n /\ j + 1 \in (i + 1)..Len(queue)
      BY <1>3, <2>2
    <3>2. /\ tries[queue[i + 1]] <= tries[queue[j + 1]]
          /\ tries[queue[j + 1]] <= tries[queue[i + 1]] + 1
      BY <1>9, <3>1 DEF TInv, Level
    <3> QED BY <1>9, <2>2, <3>1, <3>2
  <2>3. CASE i \in 1..n /\ j = n + 1
    <3>1. /\ tries[queue[i + 1]] <= tries[t] + 1 /\ tries[t] <= tries[queue[i + 1]]
          /\ tries[queue[i + 1]] \in Nat
          /\ tries'[queue'[i]] = tries[queue[i + 1]]
      BY <1>5, <1>9, <2>3
    <3> QED BY <2>1, <2>3, <3>1
  <2>4. CASE i = n + 1 /\ j = n + 1
    BY <2>1, <2>4
  <2> QED BY <1>8, <2>2, <2>3, <2>4
<1>11. \A u : Height(u)' = Height(u) /\ (Sound(u)' <=> Sound(u))
  BY <1>1, SameUses
<1>12. InTime'
  <2> SUFFICES ASSUME NEW u \in Typedefs, Sound(u)
               PROVE  /\ u \in Range(queue) \cup Range(ordered)
                      /\ u \in Range(queue) => tries'[u] <= Height(u)
    BY <1>1, <1>8, <1>11 DEF InTime
  <2>1. /\ u \in Range(queue) \cup Range(ordered)
        /\ u \in Range(queue) => tries[u] <= Height(u)
    BY DEF TInv, InTime
  <2> QED BY <1>6, <1>7, <2>1
<1>13. OnlyUnsoundGivenUp'
  BY <1>1, <1>11 DEF TInv, OnlyUnsoundGivenUp
<1> QED BY <1>6, <1>10, <1>12, <1>13 DEF TInv

LEMMA GiveUpKeepsT ==
  Cardinality(Typedefs) <= MaxTries + 1 /\ IInv /\ TInv /\ GiveUp => TInv'
<1> SUFFICES ASSUME Cardinality(Typedefs) <= MaxTries + 1, IInv, TInv, GiveUp
             PROVE  TInv'
  OBVIOUS
<1> DEFINE t == Head(queue)
<1>1. /\ queue # <<>> /\ queue' = Tail(queue)
      /\ tries' = [tries EXCEPT ![t] = @ + 1]
      /\ ~Resolvable(t) /\ tries[t] >= MaxTries
      /\ givenUp' = givenUp \cup {t}
      /\ UNCHANGED <<uses, ordered>>
  BY DEF GiveUp
<1>2. queue \in Seq(Typedefs)
  BY DEF IInv, Waiting
<1>3. t \in Typedefs
  BY <1>1, <1>2, RangeOfTail
<1>4. tries \in [Typedefs -> Nat] /\ IsFiniteSet(Typedefs)
  BY DEF TInv
<1>5. /\ tries' \in [Typedefs -> Nat]
      /\ \A u \in Typedefs : u # t => tries'[u] = tries[u]
  BY <1>1, <1>3, <1>4
<1>6. /\ Level'
      /\ \A u \in Range(queue') : u \in Range(queue) /\ u # t
      /\ Range(queue) = {t} \cup Range(queue')
  BY <1>1, <1>5, FrontLeaves
<1>7. Sound(t) => tries[t] + 1 <= Height(t)
  BY <1>1, TriesLeft
<1> HIDE DEF t
<1>8. ~Sound(t)
  <2> SUFFICES ASSUME Sound(t) PROVE FALSE
    OBVIOUS
  <2>1. Height(t) \in Nat /\ Height(t) < Cardinality(Typedefs)
    BY <1>3, <1>4, SoundDown
  <2>2. Cardinality(Typedefs) \in Nat
    BY <1>4, FS_CardinalityType
  <2>3. tries[t] \in Nat /\ MaxTries \in Nat
    BY <1>3, <1>4, SchemaAssumption
  <2> QED BY <1>1, <1>7, <2>1, <2>2, <2>3
<1>9. \A u : Height(u)' = Height(u) /\ (Sound(u)' <=> Sound(u))
  BY <1>1, SameUses
<1>10. InTime'
  <2> SUFFICES ASSUME NEW u \in Typedefs, Sound(u)
               PROVE  /\ u \in Range(queue') \cup Range(ordered)
                      /\ u \in Range(queue') => tries'[u] <= Height(u)
    BY <1>1, <1>9 DEF InTime
  <2>1. /\ u \in Range(queue) \cup Range(ordered)
        /\ u \in Range(queue) => tries[u] <= Height(u)
    BY DEF TInv, InTime
  <2> QED BY <1>5, <1>6, <1>8, <2>1
<1>11. OnlyUnsoundGivenUp'
  BY <1>1, <1>8, <1>9 DEF TInv, OnlyUnsoundGivenUp
<1> QED BY <1>4, <1>5, <1>6, <1>10, <1>11 DEF TInv

(* Where the limit on the tries is as high as the number of typedefs less   *)
(* one, in whatever order they are found, only typedefs are given up that   *)
(* use something that is not defined, or come back to themselves.           *)
THEOREM SoundOnesKept ==
  ASSUME Cardinality(Typedefs) <= MaxTries + 1
  PROVE  Spec => []OnlyUnsoundGivenUp
<1>1. IInv /\ TInv /\ [Next]_vars => TInv'
  <2>1. Generate \/ UNCHANGED vars => UNCHANGED <<uses, queue, tries, ordered, givenUp>>
    BY DEF Generate, vars
  <2>2. ASSUME TInv, UNCHANGED <<uses, queue, tries, ordered, givenUp>> PROVE TInv'
    <3>1. \A u : Height(u)' = Height(u) /\ (Sound(u)' <=> Sound(u))
      BY <2>2, SameUses
    <3>2. InTime'
      BY <2>2, <3>1 DEF TInv, InTime
    <3>3. Level'
      BY <2>2 DEF TInv, Level
    <3>4. OnlyUnsoundGivenUp'
      BY <2>2, <3>1 DEF TInv, OnlyUnsoundGivenUp
    <3> QED BY <2>2, <3>2, <3>3, <3>4 DEF TInv
  <2> QED BY <2>1, <2>2, OrderKeepsT, PutBackKeepsT, GiveUpKeepsT DEF Next
<1>2. TInv => OnlyUnsoundGivenUp
  BY DEF TInv
<1> QED BY InitIInv, InitTInv, NextKeeps, <1>1, <1>2, PTL DEF Spec
-----------------------------------------------------------------------------
(* What classes are made from                                              *)

(* What has been generated stands under its own name.                       *)
MInv ==
  /\ at \in Nat /\ at <= Len(ordered)
  /\ plain = [n \in Names |-> plain[n]]
  /\ made = [t \in Typedefs |-> made[t]]
  /\ \A i \in 1..at : plain[Name[ordered[i]]] = ordered[i]
  /\ MadeFromItsTypes

LEMMA InitMInv == Init => MInv
<1> SUFFICES ASSUME Init PROVE MInv
  OBVIOUS
<1>1. at = 0 /\ ordered = <<>>
  BY DEF Init
<1>2. plain = [n \in Names |-> plain[n]]
  BY DEF Init
<1>3. made = [t \in Typedefs |-> None]
  BY DEF Init
<1>4. made = [t \in Typedefs |-> made[t]] /\ MadeFromItsTypes
  BY <1>3 DEF MadeFromItsTypes
<1> QED BY <1>1, <1>2, <1>4 DEF MInv

(* Generating the next class: the types it uses are behind it.              *)
LEMMA GenerateKeepsM ==
  ASSUME \A t, u \in Typedefs : Name[t] = Name[u] => t = u,
         Names \cap IdentityNames = {},
         IInv, MInv, Generate
  PROVE  MInv'
<1> DEFINE t == ordered[at + 1]
<1>1. /\ at < Len(ordered)
      /\ made' = [made EXCEPT ![t] = {Meant(t, u) : u \in uses[t]}]
      /\ plain' = [plain EXCEPT ![Name[t]] = t]
      /\ at' = at + 1 /\ UNCHANGED <<uses, ordered>>
  BY DEF Generate
<1>2. ordered \in Seq(Typedefs) /\ Len(ordered) \in Nat /\ at \in Nat
  <2>1. ordered \in Seq(Typedefs)
    BY DEF IInv, Waiting
  <2> QED BY <2>1, ElementsOfSeq DEF MInv
<1>3. /\ at + 1 \in 1..Len(ordered)
      /\ t \in Typedefs /\ Name[t] \in Names
      /\ \A i \in 1..at : i \in 1..((at + 1) - 1) /\ i \in 1..Len(ordered)
      /\ \A i \in 1..((at + 1) - 1) : i \in 1..at
  BY <1>1, <1>2 DEF Names
<1>4. \A u \in uses[t] : \/ u \in Builtins
                         \/ \E j \in 1..at : u = ordered[j]
  <2>1. \A u \in uses[t] :
           \/ u \in Builtins
           \/ u \in {ordered[j] : j \in 1..((at + 1) - 1)}
           \/ u \in Typedefs /\ Name[u] \in IdentityNames
    BY <1>3 DEF IInv, UsesFirst
  <2> QED BY <1>3, <2>1 DEF Names
<1>5. \A j \in 1..at : ordered[j] # t /\ ordered[j] \in Typedefs
  BY <1>2, <1>3 DEF IInv, UsesFirst
<1>6. \A i \in 1..at : plain[Name[ordered[i]]] = ordered[i]
  BY DEF MInv
<1>7. plain = [n \in Names |-> plain[n]] /\ made = [u \in Typedefs |-> made[u]]
  BY DEF MInv
<1> HIDE DEF t
<1>8. ASSUME NEW u \in uses[t] PROVE Meant(t, u) = u
  <2>1. CASE u \in Builtins
    <3>1. u \notin Typedefs
      BY <2>1, SchemaAssumption
    <3> QED BY <3>1 DEF Meant
  <2>2. CASE \E j \in 1..at : u = ordered[j]
    <3>1. u \in Typedefs /\ plain[Name[u]] = u
      BY <2>2, <1>5, <1>6
    <3>2. ~Homonym(u)
      BY <3>1 DEF Homonym, IdentityNames, Names
    <3> QED BY <3>1, <3>2 DEF Meant
  <2> QED BY <1>4, <2>1, <2>2
<1>9. {Meant(t, u) : u \in uses[t]} = uses[t]
  BY <1>8
<1>10. made' = [made EXCEPT ![t] = uses[t]]
  BY <1>1, <1>9
<1>11. made' = [u \in Typedefs |-> made'[u]] /\ MadeFromItsTypes'
  BY <1>1, <1>3, <1>7, <1>10 DEF MInv, MadeFromItsTypes
<1>12. plain' = [n \in Names |-> plain'[n]] /\ plain'[Name[t]] = t
  BY <1>1, <1>3, <1>7
<1>13. ASSUME NEW i \in 1..(at + 1) PROVE plain'[Name[ordered[i]]] = ordered[i]
  <2>1. CASE i = at + 1
    BY <1>12, <2>1 DEF t
  <2>2. CASE i \in 1..at
    <3>1. ordered[i] \in Typedefs /\ ordered[i] # t
      BY <1>5, <2>2
    <3>2. Name[ordered[i]] \in Names /\ Name[ordered[i]] # Name[t]
      BY <1>3, <3>1 DEF Names
    <3> QED BY <1>1, <1>6, <1>7, <2>2, <3>2
  <2> QED BY <1>2, <2>1, <2>2
<1>14. at' \in Nat /\ at' <= Len(ordered')
  BY <1>1, <1>2
<1> QED BY <1>1, <1>11, <1>12, <1>13, <1>14 DEF MInv

(* Where no two typedefs, and no typedef and identity, have the same name,  *)
(* the class of a typedef is made from the types the typedef names, and not *)
(* from what was entered in class_map for another.                          *)
THEOREM MadeAsNamed ==
  ASSUME \A t, u \in Typedefs : Name[t] = Name[u] => t = u,
         Names \cap IdentityNames = {}
  PROVE  Spec => []MadeFromItsTypes
<1>1. IInv /\ MInv /\ [Next]_vars => MInv'
  <2> SUFFICES ASSUME IInv, MInv, [Next]_vars PROVE MInv'
    OBVIOUS
  <2>1. CASE Generate
    BY <2>1, GenerateKeepsM
  <2>2. CASE Order
    <3>1. ordered' = Append(ordered, Head(queue)) /\ UNCHANGED <<uses, plain, made, at>>
      BY <2>2 DEF Order
    <3>2. queue \in Seq(Typedefs) /\ queue # <<>> /\ ordered \in Seq(Typedefs)
      BY <2>2 DEF Order, IInv, Waiting
    <3>3. /\ Len(ordered) \in Nat /\ Len(ordered') = Len(ordered) + 1
          /\ \A m \in 1..Len(ordered) : ordered'[m] = ordered[m]
      BY <3>1, <3>2, RangeOfTail, RangeOfAppend
    <3>4. at' \in Nat /\ at' <= Len(ordered') /\ \A i \in 1..at' : ordered'[i] = ordered[i]
      BY <3>1, <3>3 DEF MInv
    <3>5. MadeFromItsTypes'
      BY <3>1 DEF MInv, MadeFromItsTypes
    <3> QED BY <3>1, <3>4, <3>5 DEF MInv
  <2>3. CASE UNCHANGED <<uses, ordered, plain, made, at>>
    BY <2>3 DEF MInv, MadeFromItsTypes
  <2>4. PutBack \/ GiveUp \/ UNCHANGED vars => UNCHANGED <<uses, ordered, plain, made, at>>
    BY DEF PutBack, GiveUp, vars
  <2> QED BY <2>1, <2>2, <2>3, <2>4 DEF Next
<1>2. MInv => MadeFromItsTypes
  BY DEF MInv
<1> QED BY InitIInv, InitMInv, NextKeeps, <1>1, <1>2, PTL DEF Spec
=============================================================================
