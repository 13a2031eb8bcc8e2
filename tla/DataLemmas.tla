----------------------------- MODULE DataLemmas -----------------------------
(***************************************************************************)
(* What the steps of a work queue do to the sequences they pop from and     *)
(* append to; induction over numbers, stated of sets; and what a recursive  *)
(* function over numbers computes that follows a relation step by step.     *)
(***************************************************************************)
EXTENDS Naturals, Sequences, Functions, FiniteSets, FiniteSetTheorems,
        WellFoundedInduction, TLAPS

-----------------------------------------------------------------------------
(* Queues                                                                  *)

(* What a sequence holds is what stands at its places.                     *)
LEMMA ElementsOfSeq ==
  ASSUME NEW S, NEW s \in Seq(S)
  PROVE  /\ Len(s) \in Nat
         /\ \A m \in 1..Len(s) : s[m] \in Range(s) /\ s[m] \in S
         /\ \A x \in Range(s) : x \in S /\ \E m \in 1..Len(s) : x = s[m]
<1>1. Len(s) \in Nat /\ DOMAIN s = 1..Len(s)
  OBVIOUS
<1>2. \A m \in 1..Len(s) : s[m] \in S
  OBVIOUS
<1>3. Range(s) = {s[m] : m \in 1..Len(s)}
  BY <1>1 DEF Range
<1> QED BY <1>1, <1>2, <1>3

(* What a queue holds is its head and what its tail holds.                 *)
LEMMA RangeOfTail ==
  ASSUME NEW S, NEW s \in Seq(S), s # <<>>
  PROVE  /\ Len(s) \in Nat \ {0}
         /\ Head(s) = s[1]
         /\ Head(s) \in S
         /\ Tail(s) \in Seq(S)
         /\ Len(Tail(s)) = Len(s) - 1
         /\ \A m \in 1..(Len(s) - 1) : Tail(s)[m] = s[m + 1]
         /\ Range(s) = {Head(s)} \cup Range(Tail(s))
<1>1. Head(s) \in S /\ Tail(s) \in Seq(S) /\ Len(s) \in Nat \ {0} /\ Head(s) = s[1]
  OBVIOUS
<1>2. Len(Tail(s)) = Len(s) - 1 /\ \A m \in 1..(Len(s) - 1) : Tail(s)[m] = s[m + 1]
  OBVIOUS
<1>3. ASSUME NEW x \in Range(s), x # Head(s) PROVE x \in Range(Tail(s))
  <2>1. PICK m \in 1..Len(s) : x = s[m]
    BY ElementsOfSeq
  <2>2. m # 1
    BY <2>1, <1>1, <1>3
  <2>3. m - 1 \in 1..(Len(s) - 1) /\ (m - 1) + 1 = m
    BY <2>2, <1>1
  <2>4. Tail(s)[m - 1] = s[m]
    BY <2>3, <1>2
  <2>5. Tail(s)[m - 1] \in Range(Tail(s))
    BY <2>3, <1>1, <1>2, ElementsOfSeq
  <2> QED BY <2>1, <2>4, <2>5
<1>4. ASSUME NEW x \in Range(Tail(s)) PROVE x \in Range(s)
  <2> DEFINE t == Tail(s)
  <2>0. t \in Seq(S) /\ x \in Range(t)
    BY <1>1
  <2> HIDE DEF t
  <2>1. PICK m \in 1..Len(t) : x = t[m]
    BY <2>0, ElementsOfSeq
  <2> USE DEF t
  <2>2. m \in 1..(Len(s) - 1) /\ m + 1 \in 1..Len(s)
    BY <1>1, <1>2
  <2>3. x = s[m + 1]
    BY <2>1, <2>2, <1>2
  <2> QED BY <2>2, <2>3, ElementsOfSeq
<1>5. Head(s) \in Range(s)
  <2>1. 1 \in 1..Len(s)
    BY <1>1
  <2> QED BY <2>1, <1>1, ElementsOfSeq
<1>6. \A x : x \in Range(s) <=> x \in {Head(s)} \cup Range(Tail(s))
  BY <1>3, <1>4, <1>5
<1> QED BY <1>1, <1>2, <1>6

(* Appending adds the one element at the end.                              *)
LEMMA RangeOfAppend ==
  ASSUME NEW S, NEW s \in Seq(S), NEW e \in S
  PROVE  /\ Append(s, e) \in Seq(S)
         /\ Len(s) \in Nat
         /\ Len(Append(s, e)) = Len(s) + 1
         /\ Append(s, e)[Len(s) + 1] = e
         /\ \A m \in 1..Len(s) : Append(s, e)[m] = s[m]
         /\ Range(Append(s, e)) = Range(s) \cup {e}
<1> DEFINE a == Append(s, e)
<1>1. /\ a \in Seq(S)
      /\ Len(s) \in Nat
      /\ Len(a) = Len(s) + 1
      /\ a[Len(s) + 1] = e
      /\ \A m \in 1..Len(s) : a[m] = s[m]
  OBVIOUS
<1> HIDE DEF a
<1>2. ASSUME NEW x \in Range(a) PROVE x = e \/ x \in Range(s)
  <2>1. PICK m \in 1..Len(a) : x = a[m]
    BY <1>1, ElementsOfSeq
  <2>2. m = Len(s) + 1 \/ m \in 1..Len(s)
    BY <1>1
  <2>3. \A j \in 1..Len(s) : s[j] \in Range(s)
    BY ElementsOfSeq
  <2> QED BY <2>1, <2>2, <2>3, <1>1
<1>3. ASSUME NEW x \in Range(s) PROVE x \in Range(a)
  <2>1. PICK m \in 1..Len(s) : x = s[m]
    BY ElementsOfSeq
  <2>2. m \in 1..Len(a)
    BY <1>1
  <2> QED BY <2>1, <2>2, <1>1, ElementsOfSeq
<1>4. e \in Range(a)
  <2>1. Len(s) + 1 \in 1..Len(a)
    BY <1>1
  <2> QED BY <2>1, <1>1, ElementsOfSeq
<1>5. \A x : x \in Range(a) <=> x \in Range(s) \cup {e}
  BY <1>2, <1>3, <1>4
<1> QED BY <1>1, <1>5 DEF a

(* No element stands at two places of s.                                   *)
NoTwice(s) == \A j, m \in 1..Len(s) : s[j] = s[m] => j = m

(* A queue without repetition has its head once.                           *)
LEMMA TailOnce ==
  ASSUME NEW S, NEW s \in Seq(S), s # <<>>, NoTwice(s)
  PROVE  NoTwice(Tail(s)) /\ Head(s) \notin Range(Tail(s))
<1> DEFINE t == Tail(s)
<1>1. /\ Len(s) \in Nat \ {0} /\ Head(s) = s[1] /\ t \in Seq(S)
      /\ Len(t) = Len(s) - 1
      /\ \A m \in 1..(Len(s) - 1) : t[m] = s[m + 1]
  BY RangeOfTail
<1> HIDE DEF t
<1>2. \A x \in Range(t) : \E m \in 1..Len(t) : x = t[m]
  BY <1>1, ElementsOfSeq
<1>3. \A j, m \in 1..Len(t) : t[j] = t[m] => j = m
  <2> SUFFICES ASSUME NEW j \in 1..Len(t), NEW m \in 1..Len(t), t[j] = t[m]
               PROVE  j = m
    OBVIOUS
  <2>1. j + 1 \in 1..Len(s) /\ m + 1 \in 1..Len(s) /\ s[j + 1] = s[m + 1]
    BY <1>1
  <2>2. j + 1 = m + 1
    BY <2>1 DEF NoTwice
  <2> QED BY <2>2, <1>1
<1>4. ASSUME NEW m \in 1..Len(t), t[m] = s[1] PROVE FALSE
  <2>1. m + 1 \in 1..Len(s) /\ s[m + 1] = s[1] /\ 1 \in 1..Len(s) /\ m + 1 # 1
    BY <1>1, <1>4
  <2> QED BY <2>1 DEF NoTwice
<1>5. Head(s) \notin Range(t)
  BY <1>1, <1>2, <1>4
<1> QED BY <1>3, <1>5 DEF NoTwice, t

(* Appending what is not there yet makes no repetition.                    *)
LEMMA AppendOnce ==
  ASSUME NEW S, NEW s \in Seq(S), NEW e \in S, NoTwice(s), e \notin Range(s)
  PROVE  NoTwice(Append(s, e))
<1> DEFINE a == Append(s, e)
<1>1. /\ Len(s) \in Nat
      /\ Len(a) = Len(s) + 1
      /\ a[Len(s) + 1] = e
      /\ \A m \in 1..Len(s) : a[m] = s[m]
  BY RangeOfAppend
<1> HIDE DEF a
<1>2. \A m \in 1..Len(s) : s[m] # e
  BY ElementsOfSeq
<1>3. ASSUME NEW j \in 1..Len(a), NEW m \in 1..Len(a), a[j] = a[m]
      PROVE  j = m
  <2>1. (j = Len(s) + 1 \/ j \in 1..Len(s)) /\ (m = Len(s) + 1 \/ m \in 1..Len(s))
    BY <1>1
  <2>2. CASE j \in 1..Len(s) /\ m \in 1..Len(s)
    BY <2>2, <1>1, <1>3 DEF NoTwice
  <2>3. CASE j = Len(s) + 1 /\ m \in 1..Len(s)
    BY <2>3, <1>1, <1>2, <1>3
  <2>4. CASE j \in 1..Len(s) /\ m = Len(s) + 1
    BY <2>4, <1>1, <1>2, <1>3
  <2> QED BY <2>1, <2>2, <2>3, <2>4
<1> QED BY <1>3 DEF NoTwice, a


-----------------------------------------------------------------------------
(* Numbers                                                                 *)

(* A set of numbers has a smallest.                                         *)
LEMMA SmallestNumber ==
  ASSUME NEW S, S \subseteq Nat, S # {}
  PROVE  \E x \in S : \A h \in S : x <= h
<1> DEFINE R == OpToRel(<, Nat)
<1>1. IsWellFoundedOn(R, Nat)
  BY NatLessThanWellFounded
<1>2. PICK n \in S : \A m \in S : <<m, n>> \notin R
  <2> HIDE DEF R
  <2>1. \E n \in S : \A m \in S : <<m, n>> \notin R
    BY <1>1, WFMin
  <2> QED BY <2>1
<1>3. \A m \in S : ~(m < n)
  BY <1>2 DEF OpToRel
<1> QED BY <1>3

(* Induction: what holds of 0 and, with n, of n + 1 holds of every number.  *)
LEMMA NumbersInduction ==
  ASSUME NEW S, 0 \in S, \A n \in Nat : n \in S => n + 1 \in S
  PROVE  Nat \subseteq S
<1> DEFINE T == Nat \ S
<1> SUFFICES ASSUME T # {} PROVE FALSE
  OBVIOUS
<1>1. T \subseteq Nat
  OBVIOUS
<1> HIDE DEF T
<1>2. PICK n \in T : \A m \in T : n <= m
  BY <1>1, SmallestNumber
<1>3. n \in Nat /\ n # 0 /\ \A m \in T : ~(m < n)
  BY <1>1, <1>2 DEF T
<1>4. n - 1 \in Nat /\ n - 1 < n /\ (n - 1) + 1 = n
  BY <1>3
<1>5. n - 1 \in S
  BY <1>3, <1>4 DEF T
<1> QED BY <1>2, <1>4, <1>5 DEF T

(* f starts with a and goes on with G.                                      *)
Iterates(f, a, G) == f = [n \in Nat |-> IF n = 0 THEN a ELSE G[f[n - 1]]]

(* There is such a function.                                               *)
LEMMA RecursionOnNumbers ==
  ASSUME NEW S, NEW a \in S, NEW G \in [S -> S]
  PROVE  \E f \in [Nat -> S] : Iterates(f, a, G)
<1> DEFINE Upto(n, g) == /\ g \in [0..n -> S]
                         /\ g[0] = a
                         /\ \A m \in 1..n : g[m] = G[g[m - 1]]
           A == {n \in Nat : \E g : Upto(n, g)}
           B == {n \in Nat : \A g, h : \A k, l \in Nat :
                   Upto(k, g) /\ Upto(l, h) /\ n <= k /\ n <= l => g[n] = h[n]}
           F == [n \in Nat |-> CHOOSE g : Upto(n, g)]
           f == [n \in Nat |-> F[n][n]]
<1>1. Nat \subseteq A
  <2>1. 0 \in A
    <3>1. Upto(0, [m \in 0..0 |-> a])
      OBVIOUS
    <3> QED BY <3>1
  <2>2. ASSUME NEW n \in Nat, n \in A PROVE n + 1 \in A
    <3>1. PICK g : Upto(n, g)
      BY <2>2
    <3> DEFINE h == [m \in 0..(n + 1) |-> IF m = n + 1 THEN G[g[n]] ELSE g[m]]
    <3>2. h \in [0..(n + 1) -> S]
      BY <3>1
    <3>3. h[0] = a
      BY <3>1
    <3>4. ASSUME NEW m \in 1..(n + 1) PROVE h[m] = G[h[m - 1]]
      <4>1. CASE m = n + 1
        BY <3>1, <4>1
      <4>2. CASE m \in 1..n
        BY <3>1, <4>2
      <4> QED BY <4>1, <4>2
    <3>5. Upto(n + 1, h)
      BY <3>2, <3>3, <3>4
    <3> HIDE DEF Upto, h
    <3> QED BY <3>5
  <2> HIDE DEF A
  <2> QED BY <2>1, <2>2, NumbersInduction
<1>2. Nat \subseteq B
  <2>1. 0 \in B
    OBVIOUS
  <2>2. ASSUME NEW n \in Nat, n \in B PROVE n + 1 \in B
    <3>1. ASSUME NEW g, NEW h, NEW k \in Nat, NEW l \in Nat,
                 Upto(k, g), Upto(l, h), n + 1 <= k, n + 1 <= l
          PROVE  g[n + 1] = h[n + 1]
      <4>1. g[n] = h[n]
        <5>1. n <= k /\ n <= l
          BY <3>1
        <5> HIDE DEF Upto
        <5> QED BY <2>2, <3>1, <5>1
      <4>2. n + 1 \in 1..k /\ n + 1 \in 1..l /\ (n + 1) - 1 = n
        BY <3>1
      <4>3. g[n + 1] = G[g[n]] /\ h[n + 1] = G[h[n]]
        BY <3>1, <4>2
      <4> QED BY <4>1, <4>3
    <3> HIDE DEF Upto
    <3> QED BY <3>1
  <2> HIDE DEF B
  <2> QED BY <2>1, <2>2, NumbersInduction
<1>3. \A n \in Nat : Upto(n, F[n])
  <2> SUFFICES ASSUME NEW n \in Nat PROVE Upto(n, F[n])
    OBVIOUS
  <2>1. \E g : Upto(n, g)
    BY <1>1
  <2>2. F[n] = CHOOSE g : Upto(n, g)
    OBVIOUS
  <2> HIDE DEF Upto, F
  <2> QED BY <2>1, <2>2
<1>4. f \in [Nat -> S]
  <2>1. \A n \in Nat : F[n] \in [0..n -> S]
    BY <1>3
  <2> HIDE DEF F
  <2> QED BY <2>1
<1>5. \A n \in Nat : f[n] = IF n = 0 THEN a ELSE G[f[n - 1]]
  <2> SUFFICES ASSUME NEW n \in Nat PROVE f[n] = IF n = 0 THEN a ELSE G[f[n - 1]]
    OBVIOUS
  <2> HIDE DEF F
  <2>1. CASE n = 0
    <3>1. F[0][0] = a
      BY <1>3
    <3> QED BY <2>1, <3>1
  <2>2. CASE n # 0
    <3>1. n - 1 \in Nat /\ n - 1 <= n /\ n \in 1..n
      BY <2>2
    <3>2. Upto(n, F[n]) /\ Upto(n - 1, F[n - 1])
      BY <1>3, <3>1
    <3>3. F[n][n] = G[F[n][n - 1]]
      BY <3>1, <3>2
    <3>4. F[n][n - 1] = F[n - 1][n - 1]
      <4>1. n - 1 \in B
        BY <1>2, <3>1
      <4> HIDE DEF Upto, F
      <4> QED BY <3>1, <3>2, <4>1
    <3> QED BY <2>2, <3>1, <3>3, <3>4
  <2> QED BY <2>1, <2>2
<1>6. f = [n \in Nat |-> IF n = 0 THEN a ELSE G[f[n - 1]]]
  <2>1. f = [n \in Nat |-> f[n]]
    OBVIOUS
  <2> HIDE DEF f
  <2> QED BY <1>5, <2>1
<1> QED BY <1>4, <1>6 DEF Iterates
-----------------------------------------------------------------------------
(* Recursion by rank                                                       *)

(* A set is determined element by element, from the lower ranks up, if       *)
(* whether an element is in it depends on those of lower rank only: the      *)
(* pairs <<i, T>> of R are those where T says that i is in it.               *)
Ranked(D, r, N, R) ==
  /\ N \in Nat /\ r \in [D -> Nat] /\ \A i \in D : r[i] < N
  /\ \A i \in D : \A T, U \in SUBSET D :
       (\A j \in D : r[j] < r[i] => (j \in T <=> j \in U)) => (<<i, T>> \in R <=> <<i, U>> \in R)

LEMMA RecursionByRank ==
  ASSUME NEW D, NEW r, NEW N, NEW R, Ranked(D, r, N, R)
  PROVE  \E T \in SUBSET D : \A i \in D : i \in T <=> <<i, T>> \in R
<1> USE DEF Ranked
<1> DEFINE Upto(n, T) == \A i \in D : r[i] < n => (i \in T <=> <<i, T>> \in R)
           S == {n \in Nat : \E T \in SUBSET D : Upto(n, T)}
<1>1. 0 \in S
  <2>1. {} \in SUBSET D /\ Upto(0, {})
    OBVIOUS
  <2> QED BY <2>1
<1>2. ASSUME NEW n \in Nat, n \in S PROVE n + 1 \in S
  <2>1. PICK T \in SUBSET D : Upto(n, T)
    BY <1>2
  <2> DEFINE U == {i \in T : r[i] < n} \cup {i \in D : r[i] = n /\ <<i, T>> \in R}
  <2>2. U \in SUBSET D
    OBVIOUS
  <2>3. \A j \in D : r[j] < n => (j \in T <=> j \in U)
    OBVIOUS
  <2>4. ASSUME NEW i \in D, r[i] < n + 1 PROVE i \in U <=> <<i, U>> \in R
    <3>1. \A j \in D : r[j] < r[i] => (j \in T <=> j \in U)
      BY <2>3, <2>4
    <3>2. <<i, T>> \in R <=> <<i, U>> \in R
      <4> HIDE DEF U
      <4> QED BY <2>2, <3>1
    <3>3. i \in U <=> <<i, T>> \in R
      <4>1. CASE r[i] < n
        BY <2>1, <4>1
      <4>2. CASE r[i] = n
        BY <4>2
      <4> QED BY <2>4, <4>1, <4>2
    <3> QED BY <3>2, <3>3
  <2>5. Upto(n + 1, U)
    <3> HIDE DEF U
    <3> QED BY <2>4
  <2> HIDE DEF Upto, U
  <2> QED BY <2>2, <2>5
<1>3. Nat \subseteq S
  <2> HIDE DEF S
  <2> QED BY <1>1, <1>2, NumbersInduction
<1>4. PICK T \in SUBSET D : Upto(N, T)
  BY <1>3
<1> QED BY <1>4
-----------------------------------------------------------------------------
(* What is reached from a through c                                        *)

(* f[n] is what is reached from a in n steps through c, whose domain is D.  *)
OneOn(X, c, D) == X \cup UNION {c[u] : u \in X \cap D}
Grows(f, a, c, D) == f = [n \in Nat |-> IF n = 0 THEN a ELSE OneOn(f[n - 1], c, D)]

Closed(X, c, D) == \A u \in X \cap D : c[u] \subseteq X

LEMMA GrowthExists ==
  ASSUME NEW V, NEW D, NEW c, \A u \in D : c[u] \in SUBSET V, NEW a \in SUBSET V
  PROVE  \E f \in [Nat -> SUBSET V] : Grows(f, a, c, D)
<1>1. ASSUME NEW X \in SUBSET V PROVE OneOn(X, c, D) \in SUBSET V
  BY DEF OneOn
<1>2. ASSUME NEW T, a \in T, \A X \in T : OneOn(X, c, D) \in T
      PROVE  \E f \in [Nat -> T] : Grows(f, a, c, D)
  <2>1. PICK G : G = [X \in T |-> OneOn(X, c, D)]
    OBVIOUS
  <2>2. G \in [T -> T] /\ \A X \in T : G[X] = OneOn(X, c, D)
    BY <1>2, <2>1
  <2>3. PICK f \in [Nat -> T] : Iterates(f, a, G)
    BY <1>2, <2>2, RecursionOnNumbers
  <2>4. ASSUME NEW n \in Nat
        PROVE  (IF n = 0 THEN a ELSE G[f[n - 1]]) = IF n = 0 THEN a ELSE OneOn(f[n - 1], c, D)
    <3>1. n # 0 => n - 1 \in Nat
      OBVIOUS
    <3> QED BY <2>2, <3>1
  <2>5. f = [n \in Nat |-> IF n = 0 THEN a ELSE OneOn(f[n - 1], c, D)]
    BY <2>3, <2>4 DEF Iterates
  <2> QED BY <2>5 DEF Grows
<1> QED BY <1>1, <1>2

LEMMA GrowthStep ==
  ASSUME NEW a, NEW c, NEW D, NEW f, Grows(f, a, c, D)
  PROVE  f[0] = a /\ \A n \in Nat : f[n + 1] = OneOn(f[n], c, D)
<1>1. \A n \in Nat : f[n] = IF n = 0 THEN a ELSE OneOn(f[n - 1], c, D)
  BY DEF Grows
<1>2. f[0] = a
  BY <1>1
<1>3. ASSUME NEW n \in Nat PROVE f[n + 1] = OneOn(f[n], c, D)
  <2>1. n + 1 \in Nat /\ n + 1 # 0 /\ (n + 1) - 1 = n
    OBVIOUS
  <2>2. f[n + 1] = OneOn(f[(n + 1) - 1], c, D)
    BY <1>1, <2>1
  <2> QED BY <2>1, <2>2
<1> QED BY <1>2, <1>3

(* As many steps as there are things to go through reach all there is: what *)
(* is reached is the least set that has a and is closed under c.            *)
LEMMA GrowthCloses ==
  ASSUME NEW D, IsFiniteSet(D), NEW c, NEW a, NEW f, Grows(f, a, c, D),
         NEW N \in Nat, Cardinality(D) <= N
  PROVE  /\ a \subseteq f[N]
         /\ Closed(f[N], c, D)
         /\ \A X : a \subseteq X /\ Closed(X, c, D) => f[N] \subseteq X
<1>1. f[0] = a /\ \A n \in Nat : f[n + 1] = OneOn(f[n], c, D)
  BY GrowthStep
<1>a. \A n \in Nat : f[n] \subseteq f[n + 1]
  BY <1>1 DEF OneOn
<1>2. a \subseteq f[N]
  <2> DEFINE S == {n \in Nat : a \subseteq f[n]}
  <2>1. 0 \in S
    BY <1>1
  <2>2. \A n \in Nat : n \in S => n + 1 \in S
    BY <1>a
  <2>3. Nat \subseteq S
    <3> HIDE DEF S
    <3> QED BY <2>1, <2>2, NumbersInduction
  <2> QED BY <2>3
<1>3. ASSUME NEW X, a \subseteq X, Closed(X, c, D) PROVE f[N] \subseteq X
  <2> DEFINE S == {n \in Nat : f[n] \subseteq X}
  <2>1. 0 \in S
    BY <1>1, <1>3
  <2>2. ASSUME NEW n \in Nat, n \in S PROVE n + 1 \in S
    <3>1. UNION {c[u] : u \in f[n] \cap D} \subseteq X
      BY <1>3, <2>2 DEF Closed
    <3> QED BY <1>1, <2>2, <3>1 DEF OneOn
  <2>3. Nat \subseteq S
    <3> HIDE DEF S
    <3> QED BY <2>1, <2>2, NumbersInduction
  <2> QED BY <2>3
<1>4. ASSUME NEW n \in Nat, Closed(f[n], c, D)
      PROVE  f[n + 1] = f[n]
  <2>1. UNION {c[u] : u \in f[n] \cap D} \subseteq f[n]
    BY <1>4 DEF Closed
  <2> QED BY <1>1, <2>1 DEF OneOn
<1>5. \A n \in Nat : IsFiniteSet(f[n] \cap D) /\ Cardinality(f[n] \cap D) \in Nat
  BY FS_Intersection, FS_CardinalityType
<1>6. Closed(f[N], c, D)
  <2> DEFINE S == {n \in Nat : Closed(f[n], c, D) \/ Cardinality(f[n] \cap D) > n}
  <2>1. 0 \in S
    <3> SUFFICES ASSUME ~Closed(f[0], c, D) PROVE Cardinality(f[0] \cap D) > 0
      OBVIOUS
    <3>1. f[0] \cap D # {}
      BY DEF Closed
    <3>2. Cardinality(f[0] \cap D) # 0
      BY <1>5, <3>1, FS_EmptySet
    <3>3. \A k \in Nat : k # 0 => k > 0
      OBVIOUS
    <3> QED BY <1>5, <3>2, <3>3
  <2>2. ASSUME NEW n \in Nat, n \in S PROVE n + 1 \in S
    <3> SUFFICES ASSUME ~Closed(f[n + 1], c, D) PROVE Cardinality(f[n + 1] \cap D) > n + 1
      OBVIOUS
    <3>1. ~Closed(f[n], c, D)
      BY <1>4
    <3>2. Cardinality(f[n] \cap D) > n
      BY <2>2, <3>1
    <3>3. PICK u \in f[n + 1] \cap D : ~(c[u] \subseteq f[n + 1])
      BY DEF Closed
    <3>4. u \notin f[n]
      BY <1>1, <3>3 DEF OneOn
    <3>5. f[n] \cap D \subseteq f[n + 1] \cap D
      BY <1>a
    <3>6. /\ Cardinality(f[n] \cap D) <= Cardinality(f[n + 1] \cap D)
          /\ Cardinality(f[n] \cap D) # Cardinality(f[n + 1] \cap D)
      BY <1>5, <3>3, <3>4, <3>5, FS_Subset
    <3>7. \A k, l \in Nat : k > n /\ k <= l /\ k # l => l > n + 1
      OBVIOUS
    <3>8. n + 1 \in Nat
      OBVIOUS
    <3> QED BY <1>5, <3>2, <3>6, <3>7, <3>8
  <2>3. Nat \subseteq S
    <3> HIDE DEF S
    <3> QED BY <2>1, <2>2, NumbersInduction
  <2>4. Cardinality(f[N] \cap D) <= Cardinality(D) /\ Cardinality(D) \in Nat
    BY FS_Subset, FS_CardinalityType
  <2> QED BY <1>5, <2>3, <2>4
<1> QED BY <1>2, <1>3, <1>6

(* The same where nothing outside D is reached.                            *)
OneFrom(X, c) == X \cup UNION {c[u] : u \in X}
GrowsIn(f, a, c) == f = [n \in Nat |-> IF n = 0 THEN a ELSE OneFrom(f[n - 1], c)]
Reached(a, c, N) == (CHOOSE f : GrowsIn(f, a, c))[N]

LEMMA GrowthWithin ==
  ASSUME NEW D, IsFiniteSet(D), NEW c, \A u \in D : c[u] \subseteq D, NEW a \in SUBSET D,
         NEW N \in Nat, Cardinality(D) <= N
  PROVE  /\ Reached(a, c, N) \subseteq D
         /\ a \subseteq Reached(a, c, N)
         /\ Closed(Reached(a, c, N), c, D)
         /\ \A Y : a \subseteq Y /\ Closed(Y, c, D) => Reached(a, c, N) \subseteq Y
<1>1. ASSUME NEW X \in SUBSET D PROVE OneOn(X, c, D) = OneFrom(X, c)
  <2>1. X \cap D = X
    OBVIOUS
  <2> QED BY <2>1 DEF OneOn, OneFrom
<1>2. \E f : GrowsIn(f, a, c)
  <2>1. PICK f \in [Nat -> SUBSET D] : Grows(f, a, c, D)
    <3>1. \A u \in D : c[u] \in SUBSET D
      OBVIOUS
    <3> QED BY <3>1, GrowthExists
  <2>2. ASSUME NEW n \in Nat
        PROVE  (IF n = 0 THEN a ELSE OneOn(f[n - 1], c, D)) = IF n = 0 THEN a ELSE OneFrom(f[n - 1], c)
    <3>1. n # 0 => f[n - 1] \in SUBSET D
      OBVIOUS
    <3> QED BY <1>1, <3>1
  <2>3. f = [n \in Nat |-> IF n = 0 THEN a ELSE OneFrom(f[n - 1], c)]
    BY <2>1, <2>2 DEF Grows
  <2> QED BY <2>3 DEF GrowsIn
<1> DEFINE f == CHOOSE g : GrowsIn(g, a, c)
<1>3. GrowsIn(f, a, c)
  BY <1>2
<1> HIDE DEF f
<1>4. \A n \in Nat : f[n] = IF n = 0 THEN a ELSE OneFrom(f[n - 1], c)
  BY <1>3 DEF GrowsIn
<1>5. \A n \in Nat : f[n] \subseteq D
  <2> DEFINE S == {n \in Nat : f[n] \subseteq D}
  <2>1. 0 \in S
    BY <1>4
  <2>2. ASSUME NEW n \in Nat, n \in S PROVE n + 1 \in S
    <3>1. n + 1 \in Nat /\ n + 1 # 0 /\ (n + 1) - 1 = n
      OBVIOUS
    <3>2. f[n + 1] = OneFrom(f[n], c)
      BY <1>4, <3>1
    <3>3. UNION {c[u] : u \in f[n]} \subseteq D
      BY <2>2
    <3> QED BY <2>2, <3>1, <3>2, <3>3 DEF OneFrom
  <2>3. Nat \subseteq S
    <3> HIDE DEF S
    <3> QED BY <2>1, <2>2, NumbersInduction
  <2> QED BY <2>3
<1>6. Grows(f, a, c, D)
  <2>1. ASSUME NEW n \in Nat
        PROVE  (IF n = 0 THEN a ELSE OneFrom(f[n - 1], c)) = IF n = 0 THEN a ELSE OneOn(f[n - 1], c, D)
    <3>1. n # 0 => f[n - 1] \in SUBSET D
      BY <1>5
    <3> QED BY <1>1, <3>1
  <2>2. f = [n \in Nat |-> IF n = 0 THEN a ELSE OneOn(f[n - 1], c, D)]
    BY <1>3, <2>1 DEF GrowsIn
  <2> QED BY <2>2 DEF Grows
<1>7. /\ a \subseteq f[N]
      /\ Closed(f[N], c, D)
      /\ \A Y : a \subseteq Y /\ Closed(Y, c, D) => f[N] \subseteq Y
  BY <1>6, GrowthCloses
<1>8. Reached(a, c, N) = f[N]
  BY DEF Reached, f
<1> QED BY <1>5, <1>7, <1>8

-----------------------------------------------------------------------------
(* Folds                                                                   *)

(* f goes through 1..n from a, with G[i] at i.                              *)
Goes(f, n, a, G) == f = [i \in 0..n |-> IF i = 0 THEN a ELSE G[i][f[i - 1]]]

(* There is such a function.                                               *)
LEMMA FoldExists ==
  ASSUME NEW S, NEW a \in S, NEW n \in Nat, NEW G \in [1..n -> [S -> S]]
  PROVE  \E f \in [0..n -> S] : Goes(f, n, a, G)
<1> DEFINE Upto(m, g) == /\ g \in [0..m -> S]
                         /\ g[0] = a
                         /\ \A i \in 1..m : g[i] = G[i][g[i - 1]]
           A == {m \in Nat : m <= n => \E g : Upto(m, g)}
<1>1. Nat \subseteq A
  <2>1. 0 \in A
    <3>1. Upto(0, [i \in 0..0 |-> a])
      OBVIOUS
    <3> QED BY <3>1
  <2>2. ASSUME NEW m \in Nat, m \in A PROVE m + 1 \in A
    <3> SUFFICES ASSUME m + 1 <= n PROVE \E g : Upto(m + 1, g)
      OBVIOUS
    <3>1. PICK g : Upto(m, g)
      BY <2>2
    <3> DEFINE h == [i \in 0..(m + 1) |-> IF i = m + 1 THEN G[m + 1][g[m]] ELSE g[i]]
    <3>2. G[m + 1] \in [S -> S] /\ g[m] \in S
      BY <3>1
    <3>3. h \in [0..(m + 1) -> S]
      BY <3>1, <3>2
    <3>4. h[0] = a
      BY <3>1
    <3>5. ASSUME NEW i \in 1..(m + 1) PROVE h[i] = G[i][h[i - 1]]
      <4>1. CASE i = m + 1
        BY <3>1, <4>1
      <4>2. CASE i \in 1..m
        BY <3>1, <4>2
      <4> QED BY <4>1, <4>2
    <3>6. Upto(m + 1, h)
      BY <3>3, <3>4, <3>5
    <3> HIDE DEF Upto, h
    <3> QED BY <3>6
  <2> HIDE DEF A
  <2> QED BY <2>1, <2>2, NumbersInduction
<1>2. PICK f : Upto(n, f)
  <2> HIDE DEF Upto
  <2> QED BY <1>1
<1>3. f = [i \in 0..n |-> f[i]]
  BY <1>2
<1>4. \A i \in 0..n : f[i] = IF i = 0 THEN a ELSE G[i][f[i - 1]]
  BY <1>2
<1>5. f = [i \in 0..n |-> IF i = 0 THEN a ELSE G[i][f[i - 1]]]
  BY <1>3, <1>4
<1> QED BY <1>2, <1>5 DEF Goes

(* f[i] is what of the first i elements of s is in P.                        *)
Sifts(f, s, P) ==
  f = [i \in 0..Len(s) |->
        IF i = 0 THEN <<>> ELSE IF s[i] \in P THEN Append(f[i - 1], s[i]) ELSE f[i - 1]]
Sifted(s, P) == (CHOOSE f : Sifts(f, s, P))[Len(s)]

LEMMA SiftExists ==
  ASSUME NEW S, NEW s \in Seq(S), NEW P
  PROVE  \E f : Sifts(f, s, P)
<1> DEFINE N == Len(s)
<1>1. N \in Nat /\ DOMAIN s = 1..N /\ \A i \in 1..N : s[i] \in S
  OBVIOUS
<1> HIDE DEF N
<1>2. PICK G : G = [i \in 1..N |-> [t \in Seq(S) |-> IF s[i] \in P THEN Append(t, s[i]) ELSE t]]
  OBVIOUS
<1>3. ASSUME NEW i \in 1..N, NEW t \in Seq(S) PROVE Append(t, s[i]) \in Seq(S)
  BY <1>1
<1>4. G \in [1..N -> [Seq(S) -> Seq(S)]]
  BY <1>2, <1>3
<1>5. <<>> \in Seq(S)
  OBVIOUS
<1>6. PICK f \in [0..N -> Seq(S)] : Goes(f, N, <<>>, G)
  BY <1>1, <1>4, <1>5, FoldExists
<1>7. ASSUME NEW i \in 0..N
      PROVE  (IF i = 0 THEN <<>> ELSE G[i][f[i - 1]])
               = IF i = 0 THEN <<>> ELSE IF s[i] \in P THEN Append(f[i - 1], s[i]) ELSE f[i - 1]
  <2>1. i # 0 => i \in 1..N /\ i - 1 \in 0..N
    BY <1>1
  <2>2. i # 0 => f[i - 1] \in Seq(S)
    BY <2>1
  <2>3. i # 0 => G[i][f[i - 1]] = IF s[i] \in P THEN Append(f[i - 1], s[i]) ELSE f[i - 1]
    BY <1>2, <2>1, <2>2
  <2> QED BY <2>3
<1>8. f = [i \in 0..N |->
            IF i = 0 THEN <<>> ELSE IF s[i] \in P THEN Append(f[i - 1], s[i]) ELSE f[i - 1]]
  BY <1>6, <1>7 DEF Goes
<1> QED BY <1>8 DEF Sifts, N

(* What is left has exactly the elements that are in P.                      *)
LEMMA SiftedFacts ==
  ASSUME NEW S, NEW s \in Seq(S), NEW P
  PROVE  /\ Sifted(s, P) \in Seq(S)
         /\ \A x : (\E i \in 1..Len(Sifted(s, P)) : Sifted(s, P)[i] = x)
                     <=> x \in P /\ \E i \in 1..Len(s) : s[i] = x
<1> DEFINE N == Len(s)
           Has(t, x) == \E i \in 1..Len(t) : t[i] = x
<1>1. N \in Nat /\ DOMAIN s = 1..N /\ \A i \in 1..N : s[i] \in S
  OBVIOUS
<1>2. PICK f : Sifts(f, s, P) /\ Sifted(s, P) = f[N]
  <2>1. \E f : Sifts(f, s, P)
    BY SiftExists
  <2> HIDE DEF N
  <2> QED BY <2>1 DEF Sifted, N
<1> HIDE DEF N
<1>3. f[0] = <<>> /\ \A i \in 1..N : f[i] = IF s[i] \in P THEN Append(f[i - 1], s[i]) ELSE f[i - 1]
  <2>1. f = [i \in 0..N |->
              IF i = 0 THEN <<>> ELSE IF s[i] \in P THEN Append(f[i - 1], s[i]) ELSE f[i - 1]]
    BY <1>2 DEF Sifts, N
  <2>2. 0 \in 0..N /\ \A i \in 1..N : i \in 0..N /\ i # 0
    BY <1>1
  <2> QED BY <2>1, <2>2
<1>4. ASSUME NEW t \in Seq(S), NEW e \in S
      PROVE  Append(t, e) \in Seq(S) /\ \A x : Has(Append(t, e), x) <=> Has(t, x) \/ x = e
  <2> DEFINE a == Append(t, e)
  <2>1. /\ Len(t) \in Nat /\ a \in Seq(S) /\ Len(a) = Len(t) + 1 /\ a[Len(t) + 1] = e
        /\ \A i \in 1..Len(t) : a[i] = t[i]
    OBVIOUS
  <2> HIDE DEF a
  <2>2. \A i : i \in 1..Len(a) <=> i \in 1..Len(t) \/ i = Len(t) + 1
    BY <2>1
  <2>3. \A x : Has(a, x) <=> Has(t, x) \/ x = e
    BY <2>1, <2>2
  <2> QED BY <2>1, <2>3 DEF a
<1> DEFINE A == {n \in Nat : n <= N =>
                  /\ f[n] \in Seq(S)
                  /\ \A x : Has(f[n], x) <=> x \in P /\ \E i \in 1..n : s[i] = x}
<1>5. 0 \in A
  <2>1. <<>> \in Seq(S) /\ (\A x : ~Has(<<>>, x)) /\ 1..0 = {}
    OBVIOUS
  <2> HIDE DEF Has
  <2> QED BY <1>3, <2>1
<1>6. ASSUME NEW n \in Nat, n \in A PROVE n + 1 \in A
  <2> SUFFICES ASSUME n + 1 <= N
               PROVE  /\ f[n + 1] \in Seq(S)
                      /\ \A x : Has(f[n + 1], x) <=> x \in P /\ \E i \in 1..(n + 1) : s[i] = x
    OBVIOUS
  <2>1. f[n] \in Seq(S) /\ \A x : Has(f[n], x) <=> x \in P /\ \E i \in 1..n : s[i] = x
    BY <1>1, <1>6
  <2>2. n + 1 \in 1..N /\ (n + 1) - 1 = n /\ s[n + 1] \in S
    BY <1>1
  <2>3. f[n + 1] = IF s[n + 1] \in P THEN Append(f[n], s[n + 1]) ELSE f[n]
    BY <1>3, <2>2
  <2>4. \A i : i \in 1..(n + 1) <=> i \in 1..n \/ i = n + 1
    OBVIOUS
  <2> HIDE DEF Has
  <2>5. \A x : (\E i \in 1..(n + 1) : s[i] = x) <=> (\E i \in 1..n : s[i] = x) \/ x = s[n + 1]
    BY <2>4
  <2>6. CASE s[n + 1] \in P
    BY <1>4, <2>1, <2>2, <2>3, <2>5, <2>6
  <2>7. CASE s[n + 1] \notin P
    BY <2>1, <2>3, <2>5, <2>7
  <2> QED BY <2>6, <2>7
<1>7. N \in A
  <2> HIDE DEF A
  <2>1. Nat \subseteq A
    BY <1>5, <1>6, NumbersInduction
  <2> QED BY <1>1, <2>1
<1>8. f[N] \in Seq(S) /\ \A x : Has(f[N], x) <=> x \in P /\ \E i \in 1..N : s[i] = x
  <2> HIDE DEF Has
  <2> QED BY <1>1, <1>7
<1> QED BY <1>2, <1>8 DEF N

-----------------------------------------------------------------------------
(* Ranks                                                                   *)

(* How many elements of S come before i.                                   *)
Earlier(S, R, i) == {j \in S : <<j, i>> \in R}
Rank(S, R, i) == Cardinality(Earlier(S, R, i))

StrictOrder(S, R) ==
  /\ \A i \in S : <<i, i>> \notin R
  /\ \A i, j, k \in S : <<i, j>> \in R /\ <<j, k>> \in R => <<i, k>> \in R
  /\ \A i, j \in S : i # j => <<i, j>> \in R \/ <<j, i>> \in R

(* The ranks of a finite set in a strict order are the numbers below its    *)
(* size, one each, and rise with the order.                                 *)
LEMMA Ranking ==
  ASSUME NEW S, IsFiniteSet(S), NEW R, StrictOrder(S, R)
  PROVE  /\ Cardinality(S) \in Nat
         /\ \A i \in S : Rank(S, R, i) \in 0..(Cardinality(S) - 1)
         /\ \A i, j \in S : <<i, j>> \in R => Rank(S, R, i) < Rank(S, R, j)
         /\ \A i, j \in S : Rank(S, R, i) = Rank(S, R, j) => i = j
         /\ \A n \in 0..(Cardinality(S) - 1) : \E i \in S : Rank(S, R, i) = n
<1> DEFINE N == Cardinality(S)
<1>1. N \in Nat
  BY FS_CardinalityType
<1>2. ASSUME NEW T, NEW U, U \in SUBSET S, T \subseteq U, T # U
      PROVE  /\ Cardinality(T) \in Nat /\ Cardinality(U) \in Nat
             /\ Cardinality(T) < Cardinality(U)
  <2>1. IsFiniteSet(U)
    BY <1>2, FS_Subset
  <2>2. IsFiniteSet(T) /\ Cardinality(T) <= Cardinality(U) /\ Cardinality(T) # Cardinality(U)
    BY <1>2, <2>1, FS_Subset
  <2>3. Cardinality(T) \in Nat /\ Cardinality(U) \in Nat
    BY <2>1, <2>2, FS_CardinalityType
  <2> QED BY <2>2, <2>3
<1>3. ASSUME NEW i \in S PROVE Rank(S, R, i) \in 0..(N - 1)
  <2>1. Earlier(S, R, i) \subseteq S /\ i \notin Earlier(S, R, i)
    BY DEF Earlier, StrictOrder
  <2>2. Rank(S, R, i) \in Nat /\ Rank(S, R, i) < N
    BY <1>2, <2>1 DEF Rank
  <2> QED BY <1>1, <2>2
<1>4. ASSUME NEW i \in S, NEW j \in S, <<i, j>> \in R
      PROVE  Rank(S, R, i) < Rank(S, R, j)
  <2>1. Earlier(S, R, i) \subseteq Earlier(S, R, j)
    BY <1>4 DEF Earlier, StrictOrder
  <2>2. i \in Earlier(S, R, j) /\ i \notin Earlier(S, R, i) /\ Earlier(S, R, j) \in SUBSET S
    BY <1>4 DEF Earlier, StrictOrder
  <2> QED BY <1>2, <2>1, <2>2 DEF Rank
<1>5. ASSUME NEW i \in S, NEW j \in S, Rank(S, R, i) = Rank(S, R, j) PROVE i = j
  <2> SUFFICES ASSUME i # j PROVE FALSE
    OBVIOUS
  <2>1. <<i, j>> \in R \/ <<j, i>> \in R
    BY DEF StrictOrder
  <2>2. Rank(S, R, i) \in Nat /\ Rank(S, R, j) \in Nat
    BY <1>1, <1>3
  <2>3. Rank(S, R, i) < Rank(S, R, j) \/ Rank(S, R, j) < Rank(S, R, i)
    BY <1>4, <2>1
  <2> QED BY <1>5, <2>2, <2>3
<1>6. \A n \in 0..(N - 1) : \E i \in S : Rank(S, R, i) = n
  <2> DEFINE T == 0..(N - 1)
             f == [i \in S |-> Rank(S, R, i)]
  <2>1. IsFiniteSet(T) /\ Cardinality(T) = N
    <3>1. 0 \in Int /\ N - 1 \in Int
      BY <1>1
    <3>2. IsFiniteSet(T) /\ Cardinality(T) = IF 0 > N - 1 THEN 0 ELSE N - 1 - 0 + 1
      BY <3>1, FS_Interval
    <3> HIDE DEF N, T
    <3> QED BY <1>1, <3>2
  <2>2. f \in Injection(S, T)
    <3>1. f \in [S -> T]
      BY <1>3
    <3>2. \A i, j \in S : f[i] = f[j] => i = j
      BY <1>5
    <3> HIDE DEF f, T
    <3> QED BY <3>1, <3>2 DEF Injection, IsInjective
  <2>3. f \in Surjection(S, T)
    <3> HIDE DEF f, T
    <3> QED BY <2>1, <2>2, FS_Injection
  <2>4. \A n \in T : \E i \in S : f[i] = n
    <3> HIDE DEF f, T
    <3> QED BY <2>3 DEF Surjection
  <2> QED BY <2>4
<1> QED BY <1>1, <1>3, <1>4, <1>5, <1>6
=============================================================================
