-------------------------- MODULE ExpressionProofs --------------------------
(***************************************************************************)
(* What the evaluator of must and when expressions gives, for every tree of    *)
(* data, expression and context: the nodes of a path or a union, each once,    *)
(* and the truth of a comparison.                                            *)
(***************************************************************************)
EXTENDS DataclassPrograms, DataLemmas, SequenceTheorems, TLAPS

-----------------------------------------------------------------------------
(* Lists of nodes                                                          *)

(* The elements of S by rank.                                               *)
ByRank(S, R) == [i \in 1..Cardinality(S) |-> CHOOSE n \in S : Rank(S, R, n) = i - 1]

(* They are all there, in their order.                                      *)
LEMMA RankedSequence ==
  ASSUME NEW S, IsFiniteSet(S), NEW R, StrictOrder(S, R)
  PROVE  /\ Cardinality(S) \in Nat
         /\ ByRank(S, R) \in [1..Cardinality(S) -> S]
         /\ \A i, j \in 1..Cardinality(S) : i < j => <<ByRank(S, R)[i], ByRank(S, R)[j]>> \in R
         /\ \A n \in S : \E i \in 1..Cardinality(S) : ByRank(S, R)[i] = n
<1> DEFINE c == Cardinality(S)
           w == ByRank(S, R)
<1>1. /\ c \in Nat
      /\ \A n \in S : Rank(S, R, n) \in 0..(c - 1)
      /\ \A i, j \in S : <<i, j>> \in R => Rank(S, R, i) < Rank(S, R, j)
      /\ \A i, j \in S : Rank(S, R, i) = Rank(S, R, j) => i = j
  BY Ranking
<1>2. \A n \in 0..(c - 1) : \E i \in S : Rank(S, R, i) = n
  BY Ranking
<1> HIDE DEF c
<1>3. w = [i \in 1..c |-> CHOOSE n \in S : Rank(S, R, n) = i - 1]
  BY DEF ByRank, c
<1> HIDE DEF w
<1>4. ASSUME NEW i \in 1..c PROVE w[i] \in S /\ Rank(S, R, w[i]) = i - 1
  <2>1. i - 1 \in 0..(c - 1)
    BY <1>1
  <2>2. \E n \in S : Rank(S, R, n) = i - 1
    BY <1>2, <2>1
  <2> QED BY <1>3, <2>2
<1>5. w \in [1..c -> S]
  BY <1>3, <1>4
<1>6. ASSUME NEW i \in 1..c, NEW j \in 1..c, i < j PROVE <<w[i], w[j]>> \in R
  <2>1. w[i] \in S /\ w[j] \in S /\ Rank(S, R, w[i]) = i - 1 /\ Rank(S, R, w[j]) = j - 1
    BY <1>4
  <2>2. w[i] # w[j] /\ i - 1 < j - 1 /\ ~(j - 1 < i - 1)
    BY <1>1, <1>6, <2>1
  <2>3. <<w[j], w[i]>> \notin R
    BY <1>1, <2>1, <2>2
  <2> QED BY <2>1, <2>2, <2>3 DEF StrictOrder
<1>7. ASSUME NEW n \in S PROVE \E i \in 1..c : w[i] = n
  <2>1. PICK i : i = Rank(S, R, n) + 1
    OBVIOUS
  <2>2. i \in 1..c /\ i - 1 = Rank(S, R, n)
    BY <1>1, <2>1
  <2>3. w[i] \in S /\ Rank(S, R, w[i]) = Rank(S, R, n)
    BY <1>4, <2>2
  <2>4. w[i] = n
    BY <1>1, <2>3
  <2> QED BY <2>2, <2>4
<1> QED BY <1>1, <1>5, <1>6, <1>7 DEF w, c

-----------------------------------------------------------------------------
(* Expressions: the order of nodes                                         *)

(* Cardinality is the same in the module that is instantiated.              *)
LEMMA SizesAgree == \A S : XP!Cardinality(S) = Cardinality(S)
  BY DEF XP!Cardinality, Cardinality

(* The numbers up to N in S are each once in their order.                   *)
LEMMA InOrderIs ==
  ASSUME NEW N \in Nat, NEW S \in SUBSET (0..N)
  PROVE  /\ IsFiniteSet(S) /\ Cardinality(S) \in Nat
         /\ XP!InOrder(S) \in [1..Cardinality(S) -> S]
         /\ \A i, j \in 1..Cardinality(S) : i < j => XP!InOrder(S)[i] < XP!InOrder(S)[j]
         /\ \A n \in S : \E i \in 1..Cardinality(S) : XP!InOrder(S)[i] = n
<1>1. IsFiniteSet(S)
  <2>1. IsFiniteSet(0..N)
    BY FS_Interval
  <2> QED BY <2>1, FS_Subset
<1>2. PICK R : /\ StrictOrder(S, R)
               /\ \A i, j \in S : <<i, j>> \in R <=> i < j
  <2> DEFINE R == {p \in S \X S : p[1] < p[2]}
  <2>1. StrictOrder(S, R)
    BY DEF StrictOrder
  <2>2. \A i, j \in S : <<i, j>> \in R <=> i < j
    OBVIOUS
  <2> QED BY <2>1, <2>2
<1>3. XP!InOrder(S) = ByRank(S, R)
  <2>1. \A n \in S : Earlier(S, R, n) = {m \in S : m < n}
    BY <1>2 DEF Earlier
  <2>2. \A n \in S : Cardinality({m \in S : m < n}) = Rank(S, R, n)
    BY <2>1 DEF Rank
  <2> DEFINE a(i) == CHOOSE n \in S : Cardinality({m \in S : m < n}) = i - 1
             b(i) == CHOOSE n \in S : Rank(S, R, n) = i - 1
  <2>3. ASSUME NEW i PROVE a(i) = b(i)
    <3>1. \A n : n \in S /\ Cardinality({m \in S : m < n}) = i - 1 <=> n \in S /\ Rank(S, R, n) = i - 1
      BY <2>2
    <3> QED BY <3>1
  <2>4. XP!InOrder(S) = [i \in 1..Cardinality(S) |-> a(i)]
    BY SizesAgree DEF XP!InOrder
  <2>5. ByRank(S, R) = [i \in 1..Cardinality(S) |-> b(i)]
    BY DEF ByRank
  <2> HIDE DEF a, b
  <2> QED BY <2>3, <2>4, <2>5
<1>4. PICK c, w : c = Cardinality(S) /\ w = ByRank(S, R)
  OBVIOUS
<1>5. /\ c \in Nat /\ w \in [1..c -> S]
      /\ \A i, j \in 1..c : i < j => <<w[i], w[j]>> \in R
      /\ \A n \in S : \E i \in 1..c : w[i] = n
  BY <1>1, <1>2, <1>4, RankedSequence
<1>6. \A i, j \in 1..c : i < j => w[i] < w[j]
  BY <1>2, <1>5
<1> QED BY <1>1, <1>3, <1>4, <1>5, <1>6

(* p is what stands in s at the places in K, in their order.                *)
PickedBy(p, w, s, K) ==
  /\ w \in [DOMAIN p -> K]
  /\ \A i \in DOMAIN p : p[i] = s[w[i]]
  /\ \A i, j \in DOMAIN p : i < j => w[i] < w[j]
  /\ \A n \in K : \E i \in DOMAIN p : w[i] = n

LEMMA PickedIs ==
  ASSUME NEW T, NEW s \in Seq(T), NEW K, K \subseteq 1..Len(s)
  PROVE  XP!Picked(s, K) \in Seq(T) /\ \E w : PickedBy(XP!Picked(s, K), w, s, K)
<1> DEFINE c == Cardinality(K)
           w == XP!InOrder(K)
           p == XP!Picked(s, K)
<1>1. Len(s) \in Nat /\ K \in SUBSET (0..Len(s)) /\ \A i \in 1..Len(s) : s[i] \in T
  OBVIOUS
<1>2. /\ c \in Nat /\ w \in [1..c -> K]
      /\ \A i, j \in 1..c : i < j => w[i] < w[j]
      /\ \A n \in K : \E i \in 1..c : w[i] = n
  BY <1>1, InOrderIs
<1>3. p = [i \in DOMAIN w |-> s[w[i]]]
  BY DEF XP!Picked
<1> HIDE DEF c, w, p
<1>4. p \in [1..c -> T] /\ \A i \in 1..c : p[i] = s[w[i]]
  BY <1>1, <1>2, <1>3
<1>5. p \in Seq(T) /\ DOMAIN p = 1..c
  BY <1>2, <1>4
<1>6. PickedBy(p, w, s, K)
  BY <1>2, <1>4, <1>5 DEF PickedBy
<1> QED BY <1>5, <1>6 DEF p

(* Of values that rise, i are up to the i-th.                               *)
LEMMA RisingCounted ==
  ASSUME NEW n \in Nat, NEW f \in [1..n -> Nat], \A i, j \in 1..n : i < j => f[i] < f[j],
         NEW i \in 1..n, NEW S, S = {f[j] : j \in 1..n}
  PROVE  XP!Cardinality({m \in S : m <= f[i]}) = i
<1> DEFINE T == {m \in S : m <= f[i]}
<1>1. \A j, k \in 1..n : f[j] <= f[k] <=> j <= k
  <2> SUFFICES ASSUME NEW j \in 1..n, NEW k \in 1..n PROVE f[j] <= f[k] <=> j <= k
    OBVIOUS
  <2>1. f[j] \in Nat /\ f[k] \in Nat
    OBVIOUS
  <2>2. j < k => f[j] < f[k]
    OBVIOUS
  <2>3. k < j => f[k] < f[j]
    OBVIOUS
  <2>4. j < k \/ k < j \/ j = k
    OBVIOUS
  <2> QED BY <2>1, <2>2, <2>3, <2>4
<1>2. T = {f[j] : j \in 1..i}
  <2>1. \A j \in 1..n : j <= i <=> j \in 1..i
    OBVIOUS
  <2>2. \A j \in 1..n : f[j] \in T <=> j \in 1..i
    BY <1>1, <2>1
  <2> QED BY <2>2
<1>3. PICK g : g = [j \in 1..i |-> f[j]]
  OBVIOUS
<1>4. g \in Bijection(1..i, T)
  <2>1. g \in [1..i -> T]
    BY <1>2, <1>3
  <2>2. \A t \in T : \E j \in 1..i : g[j] = t
    BY <1>2, <1>3
  <2>3. \A j, k \in 1..i : g[j] = g[k] => j = k
    <3> SUFFICES ASSUME NEW j \in 1..i, NEW k \in 1..i, f[j] = f[k] PROVE j = k
      BY <1>3
    <3>1. j \in 1..n /\ k \in 1..n /\ f[j] \in Nat
      OBVIOUS
    <3>2. f[j] <= f[k] /\ f[k] <= f[j]
      BY <3>1
    <3> QED BY <1>1, <3>1, <3>2
  <2> HIDE DEF T
  <2> QED BY <2>1, <2>2, <2>3 DEF Bijection, Injection, Surjection, IsInjective
<1>5. IsFiniteSet(1..i) /\ Cardinality(1..i) = i
  BY FS_Interval
<1>6. ExistsBijection(1..i, T)
  BY <1>4 DEF ExistsBijection
<1>7. Cardinality(T) = i
  <2> HIDE DEF T
  <2> QED BY <1>5, <1>6, FS_Bijection
<1> QED BY <1>7, SizesAgree

-----------------------------------------------------------------------------
(* The tree                                                                *)

Kids(n) == {m \in DOMAIN Up : Up[m] = n}

LEMMA NodesAre ==
  /\ Len(Up) \in Nat /\ DOMAIN Up = 1..Len(Up) /\ XP!Nodes = 0..Len(Up)
  /\ \A n \in DOMAIN Up : n \in XP!Nodes /\ Up[n] \in XP!Nodes /\ Up[n] < n
  /\ \A n \in XP!Nodes : \A m \in Kids(n) : m \in XP!Nodes /\ n < m
<1>1. Len(Up) \in Nat /\ DOMAIN Up = 1..Len(Up) /\ \A n \in DOMAIN Up : Up[n] \in Nat /\ Up[n] < n
  BY UpAssumption
<1>2. XP!Nodes = 0..Len(Up)
  BY <1>1 DEF XP!Nodes
<1> QED BY <1>1, <1>2 DEF Kids

(* What holds of a node if it holds of the nodes below it holds of all.     *)
LEMMA UpwardInduction ==
  ASSUME NEW S, \A n \in XP!Nodes : (\A m \in Kids(n) : m \in S) => n \in S
  PROVE  XP!Nodes \subseteq S
<1> DEFINE N == Len(Up)
           D == {N - n : n \in XP!Nodes \ S}
<1> SUFFICES ASSUME XP!Nodes \ S # {} PROVE FALSE
  OBVIOUS
<1>1. D \subseteq Nat /\ D # {}
  BY NodesAre
<1>2. PICK d \in D : \A e \in D : d <= e
  <2> HIDE DEF D
  <2> QED BY <1>1, SmallestNumber
<1>3. PICK n \in XP!Nodes \ S : d = N - n
  OBVIOUS
<1>4. \A m \in XP!Nodes : n < m => m \in S
  <2> SUFFICES ASSUME NEW m \in XP!Nodes, n < m, m \notin S PROVE FALSE
    OBVIOUS
  <2>1. N - m \in D
    OBVIOUS
  <2>2. N - n <= N - m
    BY <1>2, <1>3, <2>1
  <2> QED BY <2>2, <1>3, NodesAre
<1>5. \A m \in Kids(n) : m \in S
  BY <1>4, NodesAre
<1> QED BY <1>3, <1>5

(* The descendants of a node are itself and those of its children.          *)
LEMMA DescendantsAre ==
  \A n \in XP!Nodes :
    /\ XP!Descendants[n] = {n} \cup UNION {XP!Descendants[m] : m \in Kids(n)}
    /\ XP!Descendants[n] \subseteq XP!Nodes
<1> DEFINE N == Len(Up)
           D == XP!Nodes \X XP!Nodes
           R == {p \in D \X SUBSET D :
                   p[1][2] = p[1][1] \/ \E k \in Kids(p[1][1]) : <<k, p[1][2]>> \in p[2]}
           r == [p \in D |-> N - p[1]]
<1>1. r \in [D -> Nat] /\ \A p \in D : r[p] < N + 1
  BY NodesAre
<1>2. ASSUME NEW p \in D, NEW T \in SUBSET D, NEW U \in SUBSET D,
             \A q \in D : r[q] < r[p] => (q \in T <=> q \in U)
      PROVE  <<p, T>> \in R <=> <<p, U>> \in R
  <2>1. \A k \in Kids(p[1]) : <<k, p[2]>> \in D /\ r[<<k, p[2]>>] < r[p]
    BY NodesAre
  <2>2. \A k \in Kids(p[1]) : <<k, p[2]>> \in T <=> <<k, p[2]>> \in U
    <3> HIDE DEF D, r
    <3> QED BY <1>2, <2>1
  <2> QED BY <2>2
<1>3. PICK T \in SUBSET D : \A p \in D : p \in T <=> <<p, T>> \in R
  <2> HIDE DEF R, r, D
  <2>1. N + 1 \in Nat
    BY NodesAre
  <2>2. Ranked(D, r, N + 1, R)
    BY <1>1, <1>2, <2>1 DEF Ranked
  <2> QED BY <2>2, RecursionByRank
<1>4. ASSUME NEW n \in XP!Nodes, NEW m \in XP!Nodes
      PROVE  <<n, m>> \in T <=> m = n \/ \E k \in Kids(n) : <<k, m>> \in T
  <2>1. PICK p : p = <<n, m>>
    OBVIOUS
  <2>2. p \in D /\ p[1] = n /\ p[2] = m
    BY <2>1
  <2>3. <<p, T>> \in R <=> p[2] = p[1] \/ \E k \in Kids(p[1]) : <<k, p[2]>> \in T
    <3> HIDE DEF D
    <3> QED BY <2>2
  <2>4. p \in T <=> <<p, T>> \in R
    <3> HIDE DEF D, R
    <3> QED BY <1>3, <2>2
  <2> QED BY <2>1, <2>2, <2>3, <2>4
<1> DEFINE f == [n \in XP!Nodes |-> {m \in XP!Nodes : <<n, m>> \in T}]
           below(n, h) == {n} \cup UNION {h[m] : m \in {m \in DOMAIN Up : Up[m] = n}}
<1>5. f = [n \in XP!Nodes |-> below(n, f)]
  <2>1. ASSUME NEW n \in XP!Nodes PROVE f[n] = below(n, f)
    <3>1. \A k \in Kids(n) : k \in XP!Nodes
      BY NodesAre
    <3>2. \A m \in XP!Nodes : m \in f[n] <=> m = n \/ \E k \in Kids(n) : m \in f[k]
      BY <1>4, <3>1
    <3>3. f[n] \subseteq XP!Nodes /\ \A k \in Kids(n) : f[k] \subseteq XP!Nodes
      BY <3>1
    <3> HIDE DEF f
    <3> QED BY <3>2, <3>3 DEF Kids
  <2> HIDE DEF below
  <2> QED BY <2>1
<1>6. XP!Descendants = [n \in XP!Nodes |-> below(n, XP!Descendants)]
  <2>1. XP!Descendants = CHOOSE h : h = [n \in XP!Nodes |-> below(n, h)]
    BY DEF XP!Descendants
  <2> HIDE DEF below, f
  <2> QED BY <1>5, <2>1
<1>7. \A n \in XP!Nodes : XP!Descendants[n] = {n} \cup UNION {XP!Descendants[m] : m \in Kids(n)}
  <2>1. \A n \in XP!Nodes : XP!Descendants[n] = below(n, XP!Descendants)
    <3> HIDE DEF below
    <3> QED BY <1>6
  <2> QED BY <2>1 DEF Kids
<1> DEFINE S == {n \in XP!Nodes : XP!Descendants[n] \subseteq XP!Nodes}
<1>8. ASSUME NEW n \in XP!Nodes, \A m \in Kids(n) : m \in S PROVE n \in S
  BY <1>7, <1>8
<1>9. XP!Nodes \subseteq S
  <2> HIDE DEF S
  <2> QED BY <1>8, UpwardInduction
<1> QED BY <1>7, <1>9

-----------------------------------------------------------------------------
(* Where the steps of a path lead                                          *)

LEMMA ReachedAreNodes ==
  ASSUME NEW axis, NEW test, NEW n \in XP!Nodes
  PROVE  XP!Reached(axis, test, n) \subseteq XP!Nodes
<1>1. CASE axis = "child"
  BY <1>1, NodesAre DEF XP!Reached
<1>2. CASE axis = "parent"
  <2>1. n # 0 => n \in DOMAIN Up
    BY NodesAre
  <2> QED BY <1>2, <2>1, NodesAre DEF XP!Reached
<1>3. CASE axis = "self"
  BY <1>3 DEF XP!Reached
<1>4. CASE axis \notin {"child", "parent", "self"}
  <2>1. XP!Reached(axis, test, n) = XP!Descendants[n]
    BY <1>4 DEF XP!Reached
  <2> QED BY <2>1, DescendantsAre
<1> QED BY <1>1, <1>2, <1>3, <1>4

(* What the predicates leave, one by one.                                   *)
LEMMA LeftsAre ==
  ASSUME NEW step, XP!StepOK(step), NEW n \in XP!Nodes
  PROVE  /\ Len(step.preds) \in Nat /\ DOMAIN step.preds = 1..Len(step.preds)
         /\ XP!Lefts(step, n)[0] = XP!Reached(step.axis, step.test, n)
         /\ \A i \in 1..Len(step.preds) :
              XP!Lefts(step, n)[i] =
                {m \in XP!Lefts(step, n)[i - 1] : XP!Meets(step.preds[i], m, XP!Lefts(step, n)[i - 1])}
         /\ \A i \in 0..Len(step.preds) : XP!Lefts(step, n)[i] \subseteq XP!Nodes
<1> DEFINE N == Len(step.preds)
           D == XP!Nodes
           a == XP!Reached(step.axis, step.test, n)
           after(i, T) == {m \in T : XP!Meets(step.preds[i], m, T)}
           H == [i \in 1..N |-> [T \in SUBSET D |-> after(i, T)]]
           IsLeft(g) == g = [i \in 0..N |-> IF i = 0 THEN a ELSE after(i, g[i - 1])]
           left == XP!Lefts(step, n)
<1>1. N \in Nat /\ DOMAIN step.preds = 1..N
  BY DEF XP!StepOK
<1>2. a \in SUBSET D
  BY ReachedAreNodes
<1> HIDE DEF D, a, N
<1>3. H \in [1..N -> [SUBSET D -> SUBSET D]]
  OBVIOUS
<1>4. PICK g \in [0..N -> SUBSET D] : Goes(g, N, a, H)
  <2> HIDE DEF H
  <2> QED BY <1>1, <1>2, <1>3, FoldExists
<1>5. IsLeft(g)
  <2>1. g = [i \in 0..N |-> IF i = 0 THEN a ELSE H[i][g[i - 1]]]
    BY <1>4 DEF Goes
  <2>2. ASSUME NEW i \in 0..N
        PROVE  (IF i = 0 THEN a ELSE H[i][g[i - 1]]) = IF i = 0 THEN a ELSE after(i, g[i - 1])
    <3>1. i # 0 => i \in 1..N /\ g[i - 1] \in SUBSET D
      <4> HIDE DEF H, after
      <4> QED BY <1>1, <1>4
    <3> HIDE DEF after
    <3> QED BY <3>1
  <2> HIDE DEF H, after
  <2> QED BY <2>1, <2>2
<1>6. IsLeft(left)
  <2>1. left = CHOOSE h : IsLeft(h)
    BY DEF XP!Lefts, N, a
  <2> HIDE DEF left, IsLeft
  <2> QED BY <1>5, <2>1
<1> HIDE DEF left
<1>7. left[0] = a /\ \A i \in 1..N : left[i] = after(i, left[i - 1])
  <2> HIDE DEF after
  <2>1. \A i \in 0..N : left[i] = IF i = 0 THEN a ELSE after(i, left[i - 1])
    BY <1>6
  <2> QED BY <1>1, <2>1
<1> DEFINE A == {i \in Nat : i <= N => left[i] \subseteq D}
<1>8. 0 \in A
  BY <1>2, <1>7
<1>9. ASSUME NEW i \in Nat, i \in A PROVE i + 1 \in A
  <2> SUFFICES ASSUME i + 1 <= N PROVE left[i + 1] \subseteq D
    OBVIOUS
  <2>1. i + 1 \in 1..N /\ (i + 1) - 1 = i /\ i <= N
    BY <1>1
  <2>2. left[i] \subseteq D
    BY <1>9, <2>1
  <2>3. left[i + 1] = after(i + 1, left[i])
    BY <1>7, <2>1
  <2> QED BY <2>2, <2>3
<1>10. Nat \subseteq A
  <2> HIDE DEF A
  <2> QED BY <1>8, <1>9, NumbersInduction
<1>11. \A i \in 0..N : left[i] \subseteq D
  BY <1>1, <1>10
<1> QED BY <1>1, <1>7, <1>11 DEF left, N, D, a

(* Where the steps lead, one by one.                                        *)
LEMMA SetsAre ==
  ASSUME NEW T, NEW steps \in Seq(T), \A i \in DOMAIN steps : XP!StepOK(steps[i]),
         NEW from \in XP!Nodes
  PROVE  /\ XP!Sets(steps, from)[0] = {from}
         /\ \A i \in 1..Len(steps) :
              XP!Sets(steps, from)[i] = UNION {XP!FromOne(steps[i], n) : n \in XP!Sets(steps, from)[i - 1]}
         /\ \A i \in 0..Len(steps) : XP!Sets(steps, from)[i] \subseteq XP!Nodes
<1> DEFINE N == Len(steps)
           D == XP!Nodes
           after(i, U) == UNION {XP!FromOne(steps[i], n) : n \in U}
           H == [i \in 1..N |-> [U \in SUBSET D |-> after(i, U)]]
           IsSet(g) == g = [i \in 0..N |-> IF i = 0 THEN {from} ELSE after(i, g[i - 1])]
           set == XP!Sets(steps, from)
<1>1. N \in Nat /\ DOMAIN steps = 1..N
  OBVIOUS
<1>2. ASSUME NEW i \in 1..N, NEW n \in D PROVE XP!FromOne(steps[i], n) \subseteq D
  <2>1. XP!StepOK(steps[i])
    BY <1>1
  <2> QED BY <2>1, LeftsAre DEF XP!FromOne
<1>3. ASSUME NEW i \in 1..N, NEW U \in SUBSET D PROVE after(i, U) \in SUBSET D
  BY <1>2
<1> HIDE DEF D, N
<1>4. H \in [1..N -> [SUBSET D -> SUBSET D]]
  <2> HIDE DEF after
  <2> QED BY <1>3
<1>5. PICK g \in [0..N -> SUBSET D] : Goes(g, N, {from}, H)
  <2> HIDE DEF H
  <2>1. {from} \in SUBSET D
    BY DEF D
  <2> QED BY <1>1, <1>4, <2>1, FoldExists
<1>6. IsSet(g)
  <2>1. g = [i \in 0..N |-> IF i = 0 THEN {from} ELSE H[i][g[i - 1]]]
    BY <1>5 DEF Goes
  <2>2. ASSUME NEW i \in 0..N
        PROVE  (IF i = 0 THEN {from} ELSE H[i][g[i - 1]]) = IF i = 0 THEN {from} ELSE after(i, g[i - 1])
    <3>1. i # 0 => i \in 1..N /\ g[i - 1] \in SUBSET D
      <4> HIDE DEF H, after
      <4> QED BY <1>1, <1>5
    <3> HIDE DEF after
    <3> QED BY <3>1
  <2> HIDE DEF H, after
  <2> QED BY <2>1, <2>2
<1>7. IsSet(set)
  <2>1. set = CHOOSE h : IsSet(h)
    BY DEF XP!Sets, N
  <2> HIDE DEF set, IsSet
  <2> QED BY <1>6, <2>1
<1> HIDE DEF set
<1>8. set[0] = {from} /\ \A i \in 1..N : set[i] = after(i, set[i - 1])
  <2> HIDE DEF after
  <2>1. \A i \in 0..N : set[i] = IF i = 0 THEN {from} ELSE after(i, set[i - 1])
    BY <1>7
  <2> QED BY <1>1, <2>1
<1> DEFINE A == {i \in Nat : i <= N => set[i] \subseteq D}
<1>9. 0 \in A
  BY <1>8 DEF D
<1>10. ASSUME NEW i \in Nat, i \in A PROVE i + 1 \in A
  <2> SUFFICES ASSUME i + 1 <= N PROVE set[i + 1] \subseteq D
    OBVIOUS
  <2>1. i + 1 \in 1..N /\ (i + 1) - 1 = i /\ i <= N
    BY <1>1
  <2>2. set[i] \subseteq D
    BY <1>10, <2>1
  <2>3. set[i + 1] = after(i + 1, set[i])
    BY <1>8, <2>1
  <2> HIDE DEF after
  <2> QED BY <1>3, <2>1, <2>2, <2>3
<1>11. Nat \subseteq A
  <2> HIDE DEF A
  <2> QED BY <1>9, <1>10, NumbersInduction
<1>12. \A i \in 0..N : set[i] \subseteq D
  BY <1>1, <1>11
<1> QED BY <1>8, <1>12 DEF set, N, D

(* s has what the first n of ss have, once if all they have is different.   *)
Flattens(s, ss, n, T) ==
  /\ s \in Seq(T)
  /\ \A k \in DOMAIN s : \E i \in 1..n : \E j \in DOMAIN ss[i] : s[k] = ss[i][j]
  /\ \A i \in 1..n : \A j \in DOMAIN ss[i] : \E k \in DOMAIN s : s[k] = ss[i][j]
  /\ (\A h, i \in DOMAIN ss : \A j \in DOMAIN ss[h] : \A k \in DOMAIN ss[i] :
        ss[h][j] = ss[i][k] => h = i /\ j = k)
       => \A j, k \in DOMAIN s : s[j] = s[k] => j = k

LEMMA FlattensParts ==
  ASSUME NEW s, NEW ss, NEW n, NEW T, Flattens(s, ss, n, T), NEW k \in DOMAIN s
  PROVE  \E i \in 1..n : \E j \in DOMAIN ss[i] : s[k] = ss[i][j]
BY DEF Flattens

LEMMA FlattensOnce ==
  ASSUME NEW s, NEW ss, NEW n, NEW T, Flattens(s, ss, n, T),
         \A h, i \in DOMAIN ss : \A j \in DOMAIN ss[h] : \A k \in DOMAIN ss[i] :
           ss[h][j] = ss[i][k] => h = i /\ j = k
  PROVE  \A j, k \in DOMAIN s : s[j] = s[k] => j = k
BY DEF Flattens

LEMMA FlattenIs ==
  ASSUME NEW T, NEW ss \in Seq(Seq(T))
  PROVE  /\ Flattens(XP!FlattenSeq(ss), ss, Len(ss), T)
         /\ Len(ss) = 1 => XP!FlattenSeq(ss) = ss[1]
         /\ Len(ss) = 0 => XP!FlattenSeq(ss) = <<>>
<1> DEFINE N == Len(ss)
           H == [i \in 1..N |-> [t \in Seq(T) |-> t \o ss[i]]]
           IsFlat(g) == g = [i \in 1..N |-> IF i = 1 THEN ss[i] ELSE g[i - 1] \o ss[i]]
           flat == CHOOSE g : IsFlat(g)
<1>1. N \in Nat /\ DOMAIN ss = 1..N /\ \A i \in 1..N : ss[i] \in Seq(T)
  OBVIOUS
<1>2. ASSUME N = 0 PROVE ss = <<>> /\ XP!FlattenSeq(ss) = <<>>
  BY <1>2 DEF XP!FlattenSeq
<1>3. CASE N = 0
  <2>1. <<>> \in Seq(T) /\ DOMAIN <<>> = {} /\ 1..0 = {}
    OBVIOUS
  <2>2. Flattens(<<>>, ss, 0, T)
    BY <2>1 DEF Flattens
  <2> QED BY <1>2, <1>3, <2>2
<1>4. CASE N # 0
  <2> HIDE DEF N
  <2>1. \A t \in Seq(T) : \A i \in 1..N : t \o ss[i] \in Seq(T)
    BY <1>1
  <2>2. PICK f \in [0..N -> Seq(T)] : Goes(f, N, <<>>, H)
    <3>1. H \in [1..N -> [Seq(T) -> Seq(T)]] /\ <<>> \in Seq(T)
      BY <2>1
    <3> HIDE DEF H
    <3> QED BY <1>1, <3>1, FoldExists
  <2>3. \A i \in 0..N : f[i] = IF i = 0 THEN <<>> ELSE H[i][f[i - 1]]
    <3> HIDE DEF H
    <3> QED BY <2>2 DEF Goes
  <2>4. PICK g : g = [i \in 1..N |-> f[i]]
    OBVIOUS
  <2>5. ASSUME NEW i \in 1..N PROVE g[i] = IF i = 1 THEN ss[i] ELSE g[i - 1] \o ss[i]
    <3>1. i - 1 \in 0..N /\ f[i - 1] \in Seq(T) /\ i \in 0..N /\ i # 0
      BY <1>1, <2>2
    <3>2. f[i] = f[i - 1] \o ss[i]
      BY <2>3, <3>1
    <3>3. i = 1 => f[i - 1] = <<>>
      <4>1. 0 \in 0..N
        BY <1>1
      <4>2. f[0] = <<>>
        BY <2>3, <4>1
      <4> QED BY <4>2
    <3>4. <<>> \o ss[i] = ss[i]
      BY <1>1
    <3>5. i # 1 => i - 1 \in 1..N
      BY <1>1
    <3> QED BY <2>4, <3>2, <3>3, <3>4, <3>5
  <2>6. IsFlat(g)
    BY <2>4, <2>5
  <2>7. IsFlat(flat)
    <3> HIDE DEF IsFlat
    <3> QED BY <2>6
  <2> HIDE DEF flat
  <2>8. \A i \in 1..N : flat[i] = IF i = 1 THEN ss[i] ELSE flat[i - 1] \o ss[i]
    BY <2>7
  <2>9. XP!FlattenSeq(ss) = flat[N]
    BY <1>4 DEF XP!FlattenSeq, flat, N
  <2> HIDE DEF IsFlat
  <2> DEFINE Differ == \A h, i \in DOMAIN ss : \A j \in DOMAIN ss[h] : \A k \in DOMAIN ss[i] :
                         ss[h][j] = ss[i][k] => h = i /\ j = k
             Has(n, s) == Flattens(s, ss, n, T)
             A == {n \in Nat : n + 1 <= N => Has(n + 1, flat[n + 1])}
  <2>10. 0 \in A
    <3>1. flat[1] = ss[1] /\ 1 \in 1..N
      BY <1>1, <1>4, <2>8
    <3>2. ss[1] \in Seq(T) /\ 1..1 = {1} /\ 1 \in DOMAIN ss
      BY <1>1, <3>1
    <3>3. Has(1, ss[1])
      BY <3>2 DEF Flattens
    <3> HIDE DEF Has
    <3> QED BY <3>1, <3>3
  <2>11. ASSUME NEW n \in Nat, n \in A PROVE n + 1 \in A
    <3> DEFINE m == n + 1
               s == flat[m]
               t == ss[m + 1]
               u == s \o t
    <3> SUFFICES ASSUME m + 1 <= N PROVE Has(m + 1, flat[m + 1])
      OBVIOUS
    <3>1. m \in 1..N /\ m + 1 \in 1..N /\ m + 1 # 1 /\ (m + 1) - 1 = m
      BY <1>1
    <3>2. Has(m, s)
      <4> HIDE DEF Has
      <4> QED BY <2>11, <3>1
    <3>3. flat[m + 1] = u
      BY <2>8, <3>1
    <3> HIDE DEF m, s
    <3>4. s \in Seq(T) /\ t \in Seq(T) /\ m + 1 \in DOMAIN ss
      BY <1>1, <3>1, <3>2 DEF Flattens
    <3> HIDE DEF t
    <3>5. /\ u \in Seq(T) /\ Len(s) \in Nat /\ Len(t) \in Nat
          /\ DOMAIN s = 1..Len(s) /\ DOMAIN t = 1..Len(t) /\ DOMAIN u = 1..(Len(s) + Len(t))
          /\ \A k \in DOMAIN s : k \in DOMAIN u /\ u[k] = s[k]
          /\ \A k \in DOMAIN t : Len(s) + k \in DOMAIN u /\ u[Len(s) + k] = t[k]
      BY <3>4
    <3>6. \A k \in DOMAIN u : k \in DOMAIN s \/ \E j \in DOMAIN t : k = Len(s) + j
      <4> SUFFICES ASSUME NEW k \in DOMAIN u, k \notin DOMAIN s PROVE \E j \in DOMAIN t : k = Len(s) + j
        OBVIOUS
      <4>1. k - Len(s) \in DOMAIN t /\ k = Len(s) + (k - Len(s))
        BY <3>5
      <4> QED BY <4>1
    <3> HIDE DEF u
    <3>7. \A i \in 1..(m + 1) : i \in 1..m \/ i = m + 1
      BY <3>1
    <3>8. \A i \in 1..m : i \in 1..(m + 1) /\ i \in DOMAIN ss /\ i # m + 1
      BY <1>1, <3>1
    <3>9. m + 1 \in 1..(m + 1)
      BY <3>1
    <3>10. \A k \in DOMAIN u : \E i \in 1..(m + 1) : \E j \in DOMAIN ss[i] : u[k] = ss[i][j]
      <4> SUFFICES ASSUME NEW k \in DOMAIN u
                   PROVE  \E i \in 1..(m + 1) : \E j \in DOMAIN ss[i] : u[k] = ss[i][j]
        OBVIOUS
      <4>1. CASE k \in DOMAIN s
        BY <3>2, <3>5, <3>8, <4>1 DEF Flattens
      <4>2. ASSUME NEW j \in DOMAIN t, k = Len(s) + j
            PROVE  \E i \in 1..(m + 1) : \E h \in DOMAIN ss[i] : u[k] = ss[i][h]
        BY <3>5, <3>9, <4>2 DEF t
      <4> QED BY <3>6, <4>1, <4>2
    <3>11. \A i \in 1..(m + 1) : \A j \in DOMAIN ss[i] : \E k \in DOMAIN u : u[k] = ss[i][j]
      <4>1. \A i \in 1..m : \A j \in DOMAIN ss[i] : \E k \in DOMAIN u : u[k] = ss[i][j]
        <5> SUFFICES ASSUME NEW i \in 1..m, NEW j \in DOMAIN ss[i] PROVE \E k \in DOMAIN u : u[k] = ss[i][j]
          OBVIOUS
        <5>1. PICK k \in DOMAIN s : s[k] = ss[i][j]
          BY <3>2 DEF Flattens
        <5> QED BY <3>5, <5>1
      <4>2. \A j \in DOMAIN ss[m + 1] : \E k \in DOMAIN u : u[k] = ss[m + 1][j]
        BY <3>5 DEF t
      <4> QED BY <3>7, <4>1, <4>2
    <3>12. ASSUME Differ, NEW j \in DOMAIN u, NEW k \in DOMAIN u, u[j] = u[k] PROVE j = k
      <4>1. \A h, i \in DOMAIN s : s[h] = s[i] => h = i
        BY <3>2, <3>12 DEF Flattens
      <4>2. \A h, i \in DOMAIN t : t[h] = t[i] => h = i
        BY <3>4, <3>12 DEF t
      <4>3. ASSUME NEW h \in DOMAIN s, NEW i \in DOMAIN t PROVE s[h] # t[i]
        <5>1. PICK g1 \in 1..m : \E l \in DOMAIN ss[g1] : s[h] = ss[g1][l]
          BY <3>2 DEF Flattens
        <5>2. PICK l \in DOMAIN ss[g1] : s[h] = ss[g1][l]
          BY <5>1
        <5>3. g1 \in DOMAIN ss /\ g1 # m + 1
          BY <3>8
        <5>4. ss[g1][l] # ss[m + 1][i]
          BY <3>4, <3>12, <5>3 DEF t
        <5> QED BY <5>2, <5>4 DEF t
      <4>4. CASE j \in DOMAIN s /\ k \in DOMAIN s
        BY <3>5, <3>12, <4>1, <4>4
      <4>5. CASE j \in DOMAIN s /\ k \notin DOMAIN s
        BY <3>5, <3>6, <3>12, <4>3, <4>5
      <4>6. CASE j \notin DOMAIN s /\ k \in DOMAIN s
        BY <3>5, <3>6, <3>12, <4>3, <4>6
      <4>7. CASE j \notin DOMAIN s /\ k \notin DOMAIN s
        <5>1. PICK h \in DOMAIN t : j = Len(s) + h
          BY <3>6, <4>7
        <5>2. PICK i \in DOMAIN t : k = Len(s) + i
          BY <3>6, <4>7
        <5>3. t[h] = t[i]
          BY <3>5, <3>12, <5>1, <5>2
        <5> QED BY <4>2, <5>1, <5>2, <5>3
      <4> QED BY <4>4, <4>5, <4>6, <4>7
    <3>13. Has(m + 1, u)
      BY <3>5, <3>10, <3>11, <3>12 DEF Flattens
    <3> HIDE DEF Has
    <3> QED BY <3>3, <3>13
  <2>12. Has(N, flat[N])
    <3>1. Nat \subseteq A
      <4> HIDE DEF A
      <4> QED BY <2>10, <2>11, NumbersInduction
    <3>2. N - 1 \in Nat /\ (N - 1) + 1 = N
      BY <1>1, <1>4
    <3> HIDE DEF Has
    <3>3. N - 1 \in A
      BY <3>1, <3>2
    <3>4. (N - 1) + 1 <= N => Has((N - 1) + 1, flat[(N - 1) + 1])
      BY <3>3
    <3> QED BY <3>2, <3>4
  <2>13. N = 1 => flat[N] = ss[1]
    BY <2>8
  <2> QED BY <1>1, <1>4, <2>9, <2>12, <2>13 DEF N
<1> QED BY <1>3, <1>4

-----------------------------------------------------------------------------
(* The _XNodes                                                             *)

XNodes == [node : XP!Nodes, parent : Nat]

(* Each but that of the document is below the one made for its parent.      *)
ObjsOK(obs) ==
  /\ obs \in Seq(XNodes) /\ 1 \in DOMAIN obs /\ obs[1].node = 0
  /\ \A o \in DOMAIN obs :
       IF obs[o].node = 0 THEN obs[o].parent = 0
       ELSE /\ obs[o].parent \in DOMAIN obs
            /\ Up[obs[o].node] = obs[obs[o].parent].node

NodesOf(obs, os) == {obs[os[i]].node : i \in DOMAIN os}
Ascending(obs, os) == \A i, j \in DOMAIN os : i < j => obs[os[i]].node < obs[os[j]].node
Distinct(obs, os) == \A i, j \in DOMAIN os : obs[os[i]].node = obs[os[j]].node => i = j

(* The _XNodes a child step makes of those in l.                            *)
NodesNamed(n, test) == XP!InOrder({m \in DOMAIN Up : Up[m] = n /\ XP!NamedAs(test, m)})
MadeBelow(obs, l, test) ==
  XP!FlattenSeq([i \in DOMAIN l |-> XP!Made(l[i], NodesNamed(obs[l[i]].node, test))])

IsMade(new, obs, l, test) ==
  /\ new \in Seq(XNodes)
  /\ \A k \in DOMAIN new : \E i \in DOMAIN l :
       /\ new[k].parent = l[i]
       /\ new[k].node \in Kids(obs[l[i]].node) /\ XP!NamedAs(test, new[k].node)
  /\ \A i \in DOMAIN l : \A m \in Kids(obs[l[i]].node) :
       XP!NamedAs(test, m) => \E k \in DOMAIN new : new[k].node = m /\ new[k].parent = l[i]
  /\ Distinct(obs, l) => \A j, k \in DOMAIN new : new[j].node = new[k].node => j = k
  /\ Len(l) <= 1 => \A j, k \in DOMAIN new : j < k => new[j].node < new[k].node

LEMMA NamedAre ==
  ASSUME NEW n, NEW test
  PROVE  LET s == NodesNamed(n, test)
         IN /\ s \in Seq(XP!Nodes)
            /\ \A i \in DOMAIN s : s[i] \in Kids(n) /\ XP!NamedAs(test, s[i])
            /\ \A m \in Kids(n) : XP!NamedAs(test, m) => \E i \in DOMAIN s : s[i] = m
            /\ \A i, j \in DOMAIN s : i < j => s[i] < s[j]
            /\ \A i, j \in DOMAIN s : s[i] = s[j] => i = j
<1> DEFINE S == {m \in DOMAIN Up : Up[m] = n /\ XP!NamedAs(test, m)}
           s == NodesNamed(n, test)
<1>1. Len(Up) \in Nat /\ S \in SUBSET (0..Len(Up)) /\ S \subseteq XP!Nodes
  BY NodesAre
<1>2. \A m : m \in S <=> m \in Kids(n) /\ XP!NamedAs(test, m)
  BY DEF Kids
<1>3. s = XP!InOrder(S)
  BY DEF NodesNamed
<1> HIDE DEF s, S
<1>4. PICK c \in Nat : /\ s \in [1..c -> S]
                       /\ \A i, j \in 1..c : i < j => s[i] < s[j]
                       /\ \A m \in S : \E i \in 1..c : s[i] = m
  BY <1>1, <1>3, InOrderIs
<1>5. s \in Seq(XP!Nodes) /\ DOMAIN s = 1..c
  <2>1. s \in [1..c -> XP!Nodes]
    BY <1>1, <1>4
  <2> QED BY <1>4, <2>1
<1>6. \A i, j \in DOMAIN s : s[i] = s[j] => i = j
  <2> SUFFICES ASSUME NEW i \in 1..c, NEW j \in 1..c, s[i] = s[j] PROVE i = j
    BY <1>5
  <2>1. s[i] \in 0..Len(Up) /\ s[j] \in 0..Len(Up)
    BY <1>1, <1>4
  <2>2. ~(i < j) /\ ~(j < i)
    BY <1>4, <2>1
  <2> QED BY <2>2
<1> QED BY <1>2, <1>4, <1>5, <1>6 DEF s

LEMMA MadeAre ==
  ASSUME NEW obs, ObjsOK(obs), NEW l \in Seq(DOMAIN obs), NEW test
  PROVE  IsMade(MadeBelow(obs, l, test), obs, l, test)
<1> DEFINE names(i) == NodesNamed(obs[l[i]].node, test)
           made(i) == XP!Made(l[i], names(i))
           ss == [i \in DOMAIN l |-> made(i)]
           new == MadeBelow(obs, l, test)
<1>1. /\ Len(l) \in Nat /\ DOMAIN l = 1..Len(l)
      /\ \A i \in DOMAIN l : l[i] \in DOMAIN obs /\ l[i] \in Nat
  BY DEF ObjsOK
<1>2. ASSUME NEW i
      PROVE  /\ names(i) \in Seq(XP!Nodes)
             /\ \A j \in DOMAIN names(i) : names(i)[j] \in Kids(obs[l[i]].node) /\ XP!NamedAs(test, names(i)[j])
             /\ \A m \in Kids(obs[l[i]].node) : XP!NamedAs(test, m) => \E j \in DOMAIN names(i) : names(i)[j] = m
             /\ \A j, k \in DOMAIN names(i) : j < k => names(i)[j] < names(i)[k]
             /\ \A j, k \in DOMAIN names(i) : names(i)[j] = names(i)[k] => j = k
  BY NamedAre
<1> HIDE DEF names
<1>3. ASSUME NEW i \in DOMAIN l
      PROVE  /\ made(i) \in Seq(XNodes)
             /\ DOMAIN made(i) = DOMAIN names(i)
             /\ \A j \in DOMAIN names(i) : made(i)[j].node = names(i)[j] /\ made(i)[j].parent = l[i]
  <2>1. made(i) = [j \in DOMAIN names(i) |-> [node |-> names(i)[j], parent |-> l[i]]]
    BY DEF XP!Made
  <2>2. \A j \in DOMAIN names(i) : [node |-> names(i)[j], parent |-> l[i]] \in XNodes
    BY <1>1, <1>2 DEF XNodes
  <2>3. PICK n \in Nat : DOMAIN names(i) = 1..n
    BY <1>2
  <2> HIDE DEF made
  <2>4. made(i) \in [1..n -> XNodes]
    BY <2>1, <2>2, <2>3
  <2> QED BY <2>1, <2>3, <2>4
<1> HIDE DEF made
<1>4. ss \in Seq(Seq(XNodes)) /\ DOMAIN ss = DOMAIN l /\ Len(ss) = Len(l)
  <2>1. ss \in [1..Len(l) -> Seq(XNodes)]
    BY <1>1, <1>3
  <2> HIDE DEF ss
  <2> QED BY <1>1, <2>1
<1>5. \A i \in DOMAIN l : ss[i] = made(i)
  OBVIOUS
<1>6. new = XP!FlattenSeq(ss)
  BY DEF MadeBelow, made, names
<1> HIDE DEF ss, new
<1>7. /\ Flattens(new, ss, Len(ss), XNodes)
      /\ Len(ss) = 1 => new = ss[1]
      /\ Len(ss) = 0 => new = <<>>
  BY <1>4, <1>6, FlattenIs
<1>8. \A k \in DOMAIN new : \E i \in DOMAIN l : \E j \in DOMAIN names(i) :
        new[k].node = names(i)[j] /\ new[k].parent = l[i]
  <2> SUFFICES ASSUME NEW k \in DOMAIN new
               PROVE  \E i \in DOMAIN l : \E j \in DOMAIN names(i) :
                        new[k].node = names(i)[j] /\ new[k].parent = l[i]
    OBVIOUS
  <2>1. PICK i \in 1..Len(ss) : \E j \in DOMAIN ss[i] : new[k] = ss[i][j]
    BY <1>7, FlattensParts
  <2>2. i \in DOMAIN l
    BY <1>1, <1>4, <2>1
  <2>3. PICK j \in DOMAIN names(i) : new[k] = made(i)[j]
    BY <1>3, <1>5, <2>1, <2>2
  <2> QED BY <1>3, <2>2, <2>3
<1>9. \A i \in DOMAIN l : \A m \in Kids(obs[l[i]].node) :
        XP!NamedAs(test, m) => \E k \in DOMAIN new : new[k].node = m /\ new[k].parent = l[i]
  <2> SUFFICES ASSUME NEW i \in DOMAIN l, NEW m \in Kids(obs[l[i]].node), XP!NamedAs(test, m)
               PROVE  \E k \in DOMAIN new : new[k].node = m /\ new[k].parent = l[i]
    OBVIOUS
  <2>1. PICK j \in DOMAIN names(i) : names(i)[j] = m
    BY <1>2
  <2>2. i \in 1..Len(ss) /\ j \in DOMAIN ss[i]
    BY <1>1, <1>3, <1>4, <1>5
  <2>3. PICK k \in DOMAIN new : new[k] = ss[i][j]
    BY <1>7, <2>2 DEF Flattens
  <2> QED BY <1>3, <1>5, <2>1, <2>3
<1>10. ASSUME Distinct(obs, l), NEW j \in DOMAIN new, NEW k \in DOMAIN new, new[j].node = new[k].node
       PROVE  j = k
  <2>1. ASSUME NEW h \in DOMAIN ss, NEW i \in DOMAIN ss, NEW p \in DOMAIN ss[h], NEW q \in DOMAIN ss[i],
               ss[h][p].node = ss[i][q].node
        PROVE  h = i /\ p = q
    <3>1. /\ h \in DOMAIN l /\ i \in DOMAIN l
          /\ p \in DOMAIN names(h) /\ q \in DOMAIN names(i) /\ names(h)[p] = names(i)[q]
      BY <1>3, <1>4, <1>5, <2>1
    <3>2. names(h)[p] \in Kids(obs[l[h]].node) /\ names(h)[p] \in Kids(obs[l[i]].node)
      BY <1>2, <3>1
    <3>3. obs[l[h]].node = obs[l[i]].node
      BY <3>2 DEF Kids
    <3>4. h = i
      BY <1>10, <3>1, <3>3 DEF Distinct
    <3> QED BY <1>2, <3>1, <3>4
  <2>10. DOMAIN ss = 1..Len(ss)
    BY <1>1, <1>4
  <2>11. \A h, i \in 1..Len(ss) : \A p \in DOMAIN ss[h] : \A q \in DOMAIN ss[i] :
           ss[h][p] = ss[i][q] => h = i /\ p = q
    BY <2>1, <2>10
  <2>12. \A h, i \in DOMAIN ss : \A p \in DOMAIN ss[h] : \A q \in DOMAIN ss[i] :
           ss[h][p] = ss[i][q] => h = i /\ p = q
    BY <2>10, <2>11
  <2>2. \A h, i \in DOMAIN new : new[h] = new[i] => h = i
    BY <1>7, <2>12, FlattensOnce
  <2>3. PICK h \in 1..Len(ss) : \E p \in DOMAIN ss[h] : new[j] = ss[h][p]
    BY <1>7, <1>10, FlattensParts
  <2>4. PICK i \in 1..Len(ss) : \E q \in DOMAIN ss[i] : new[k] = ss[i][q]
    BY <1>7, <1>10, FlattensParts
  <2>5. new[j] = new[k]
    BY <1>10, <2>1, <2>3, <2>4, <2>10
  <2> QED BY <2>2, <2>5
<1>11. ASSUME Len(l) <= 1, NEW j \in DOMAIN new, NEW k \in DOMAIN new, j < k
       PROVE  new[j].node < new[k].node
  <2>1. CASE Len(l) = 0
    BY <1>4, <1>7, <2>1
  <2>2. CASE Len(l) = 1
    <3>1. new = made(1) /\ 1 \in DOMAIN l
      BY <1>1, <1>4, <1>5, <1>7, <2>2
    <3> QED BY <1>2, <1>3, <1>11, <3>1
  <2> QED BY <1>1, <1>11, <2>1, <2>2
<1>12. new \in Seq(XNodes)
  BY <1>7 DEF Flattens
<1>13. \A k \in DOMAIN new : \E i \in DOMAIN l :
         /\ new[k].parent = l[i]
         /\ new[k].node \in Kids(obs[l[i]].node) /\ XP!NamedAs(test, new[k].node)
  <2> SUFFICES ASSUME NEW k \in DOMAIN new
               PROVE  \E i \in DOMAIN l :
                        /\ new[k].parent = l[i]
                        /\ new[k].node \in Kids(obs[l[i]].node) /\ XP!NamedAs(test, new[k].node)
    OBVIOUS
  <2>1. PICK i \in DOMAIN l : \E j \in DOMAIN names(i) : new[k].node = names(i)[j] /\ new[k].parent = l[i]
    BY <1>8
  <2> QED BY <1>2, <2>1
<1> QED BY <1>9, <1>10, <1>11, <1>12, <1>13 DEF IsMade, new

(* The children _xnode_children makes of one.                               *)
LEMMA MadeOfOne ==
  ASSUME NEW obs, ObjsOK(obs), NEW o \in DOMAIN obs
  PROVE  XP!Made(o, XP!ChildrenOf(obs[o].node)) = MadeBelow(obs, <<o>>, "*")
<1> DEFINE m == XP!Made(o, XP!ChildrenOf(obs[o].node))
<1>1. XP!ChildrenOf(obs[o].node) = NodesNamed(obs[o].node, "*")
  BY DEF XP!ChildrenOf, NodesNamed, XP!NamedAs
<1>2. PICK l : l = <<o>>
  OBVIOUS
<1>3. l \in Seq(DOMAIN obs) /\ DOMAIN l = {1} /\ l[1] = o
  BY <1>2
<1>4. m \in Seq(XNodes)
  <2>1. PICK n \in Nat : /\ DOMAIN NodesNamed(obs[o].node, "*") = 1..n
                         /\ \A i \in 1..n : NodesNamed(obs[o].node, "*")[i] \in XP!Nodes
    BY NamedAre
  <2>2. m = [i \in 1..n |-> [node |-> NodesNamed(obs[o].node, "*")[i], parent |-> o]]
    BY <1>1, <2>1 DEF XP!Made
  <2>3. o \in Nat
    BY DEF ObjsOK
  <2>4. \A i \in 1..n : [node |-> NodesNamed(obs[o].node, "*")[i], parent |-> o] \in XNodes
    BY <2>1, <2>3 DEF XNodes
  <2> HIDE DEF m
  <2>5. m \in [1..n -> XNodes]
    BY <2>2, <2>4
  <2> QED BY <2>5
<1> HIDE DEF m
<1>5. PICK ss : ss = <<m>>
  OBVIOUS
<1>6. ss \in Seq(Seq(XNodes)) /\ Len(ss) = 1 /\ ss[1] = m
  BY <1>4, <1>5
<1>7. XP!FlattenSeq(ss) = m
  BY <1>6, FlattenIs
<1>8. ss = [i \in DOMAIN l |-> XP!Made(l[i], NodesNamed(obs[l[i]].node, "*"))]
  BY <1>1, <1>3, <1>5 DEF m
<1> QED BY <1>2, <1>7, <1>8 DEF MadeBelow, m

(* What is made is added at the end.                                        *)
GrownBy(grown, added, obs, new) ==
  /\ ObjsOK(grown)
  /\ \A o \in DOMAIN obs : o \in DOMAIN grown /\ grown[o] = obs[o]
  /\ added \in Seq(DOMAIN grown) /\ DOMAIN added = DOMAIN new
  /\ \A i \in DOMAIN added : grown[added[i]] = new[i] /\ added[i] \notin DOMAIN obs
  /\ \A i, j \in DOMAIN added : added[i] = added[j] => i = j

LEMMA GrownIs ==
  ASSUME NEW obs, ObjsOK(obs), NEW l \in Seq(DOMAIN obs), NEW test, NEW new, IsMade(new, obs, l, test)
  PROVE  GrownBy(obs \o new, XP!Numbers(Len(obs), Len(new)), obs, new)
<1> DEFINE n == Len(obs)
           k == Len(new)
           grown == obs \o new
           added == XP!Numbers(n, k)
<1>1. /\ n \in Nat /\ DOMAIN obs = 1..n /\ k \in Nat /\ DOMAIN new = 1..k
      /\ obs \in Seq(XNodes) /\ new \in Seq(XNodes)
  BY DEF ObjsOK, IsMade
<1>2. /\ grown \in Seq(XNodes) /\ DOMAIN grown = 1..(n + k)
      /\ \A o \in 1..n : grown[o] = obs[o]
      /\ \A i \in 1..k : grown[n + i] = new[i]
  BY <1>1
<1>3. added = [i \in 1..k |-> n + i]
  BY DEF XP!Numbers
<1> HIDE DEF n, k, grown, added
<1>4. \A o \in DOMAIN obs : o \in DOMAIN grown /\ grown[o] = obs[o]
  BY <1>1, <1>2
<1>5. added \in Seq(DOMAIN grown) /\ DOMAIN added = DOMAIN new
  <2>1. \A i \in 1..k : n + i \in DOMAIN grown
    BY <1>1, <1>2
  <2>2. added \in [1..k -> DOMAIN grown]
    BY <1>3, <2>1
  <2> QED BY <1>1, <2>2
<1>6. \A i \in DOMAIN added : grown[added[i]] = new[i] /\ added[i] \notin DOMAIN obs
  BY <1>1, <1>2, <1>3
<1>7. \A i, j \in DOMAIN added : added[i] = added[j] => i = j
  BY <1>1, <1>3
<1>8. ASSUME NEW o \in DOMAIN grown
      PROVE  IF grown[o].node = 0 THEN grown[o].parent = 0
             ELSE /\ grown[o].parent \in DOMAIN grown
                  /\ Up[grown[o].node] = grown[grown[o].parent].node
  <2>1. CASE o \in DOMAIN obs
    BY <1>4, <2>1 DEF ObjsOK
  <2>2. CASE o \notin DOMAIN obs
    <3>1. PICK i \in 1..k : o = n + i
      <4>1. o - n \in 1..k /\ o = n + (o - n)
        BY <1>1, <1>2, <2>2
      <4> QED BY <4>1
    <3>2. grown[o] = new[i] /\ i \in DOMAIN new
      BY <1>1, <1>2, <3>1
    <3>3. PICK j \in DOMAIN l : new[i].parent = l[j] /\ new[i].node \in Kids(obs[l[j]].node)
      BY <3>2 DEF IsMade
    <3>4. l[j] \in DOMAIN obs
      OBVIOUS
    <3>5. new[i].node \in DOMAIN Up /\ Up[new[i].node] = obs[l[j]].node
      BY <3>3 DEF Kids
    <3>6. new[i].node # 0
      BY <3>5, NodesAre
    <3> QED BY <1>4, <3>2, <3>3, <3>4, <3>5, <3>6
  <2> QED BY <2>1, <2>2
<1>9. 1 \in DOMAIN grown /\ grown[1].node = 0
  BY <1>4 DEF ObjsOK
<1>10. ObjsOK(grown)
  BY <1>2, <1>8, <1>9 DEF ObjsOK
<1> QED BY <1>4, <1>5, <1>6, <1>7, <1>10 DEF GrownBy, grown, added, n, k

-----------------------------------------------------------------------------
(***************************************************************************)
(* Where a path leads                                                      *)
(***************************************************************************)
HasPositions(step) == \E i \in DOMAIN step.preds : step.preds[i].k # "child"
IsDeepStep(step) == step.axis = "descendant-or-self"
Under(S) == UNION {XP!Descendants[n] : n \in S}

(* Gone down from S: L are passed, Q are still to be.                       *)
Covers(L, Q, S) ==
  /\ L \cup Under(Q) = Under(S)
  /\ \A n \in L : Kids(n) \subseteq L \cup Q

LEMMA CoverPassed ==
  ASSUME NEW L, NEW Q, NEW R, NEW S, NEW n \in L, Q = R \cup {n}, Covers(L, Q, S),
         L \subseteq XP!Nodes
  PROVE  Covers(L, R, S)
<1> DEFINE T == {m \in XP!Nodes : m \in L => XP!Descendants[m] \subseteq L \cup Under(R)}
<1>1. ASSUME NEW m \in XP!Nodes, \A k \in Kids(m) : k \in T PROVE m \in T
  <2> SUFFICES ASSUME m \in L PROVE XP!Descendants[m] \subseteq L \cup Under(R)
    OBVIOUS
  <2>1. XP!Descendants[m] = {m} \cup UNION {XP!Descendants[k] : k \in Kids(m)}
    BY DescendantsAre
  <2>2. ASSUME NEW k \in Kids(m) PROVE XP!Descendants[k] \subseteq L \cup Under(R)
    <3>1. k \in L \/ k \in R
      BY DEF Covers
    <3>2. k \in L => XP!Descendants[k] \subseteq L \cup Under(R)
      BY <1>1
    <3>3. k \in R => XP!Descendants[k] \subseteq L \cup Under(R)
      BY DEF Under
    <3> QED BY <3>1, <3>2, <3>3
  <2> QED BY <2>1, <2>2
<1>2. XP!Nodes \subseteq T
  <2> HIDE DEF T
  <2> QED BY <1>1, UpwardInduction
<1>3. XP!Descendants[n] \subseteq L \cup Under(R)
  BY <1>2
<1>4. Under(Q) = Under(R) \cup XP!Descendants[n]
  BY DEF Under
<1> QED BY <1>3, <1>4 DEF Covers

LEMMA CoverMore ==
  ASSUME NEW L, NEW Q, NEW R, NEW S, NEW n \in XP!Nodes, Q = R \cup {n}, Covers(L, Q, S)
  PROVE  Covers(L \cup {n}, R \cup Kids(n), S)
<1>1. Under({n}) = {n} \cup Under(Kids(n))
  BY DescendantsAre DEF Under
<1>2. Under(Q) = Under(R) \cup Under({n}) /\ Under(R \cup Kids(n)) = Under(R) \cup Under(Kids(n))
  BY DEF Under
<1> QED BY <1>1, <1>2 DEF Covers

(* What the list holds before step s, at predicate d (0: before the axis).   *)
Led(obs, l, q, path, from, s, d) ==
  LET set  == XP!Sets(path.steps, from)[s - 1]
      step == path.steps[s]
  IN CASE d = 0 -> q = <<>> /\ NodesOf(obs, l) = set
       [] d # 0 /\ IsDeepStep(step) -> Covers(NodesOf(obs, l), NodesOf(obs, q), set)
       [] OTHER -> /\ q = <<>>
                   /\ NodesOf(obs, l) = UNION {XP!Lefts(step, n)[d - 1] : n \in set}
                   /\ HasPositions(step) => /\ \A m, n \in set : m = n
                                            /\ Ascending(obs, l)

IsPath(path) == XP!ArgOK(path) /\ path.t = "path"

LEMMA PathIs ==
  ASSUME NEW path, IsPath(path)
  PROVE  /\ path.steps \in Seq(Range(path.steps)) /\ Len(path.steps) \in Nat
         /\ DOMAIN path.steps = 1..Len(path.steps)
         /\ \A i \in DOMAIN path.steps : XP!StepOK(path.steps[i])
<1>1. path.steps \in Seq(XP!Range(path.steps)) /\ \A i \in DOMAIN path.steps : XP!StepOK(path.steps[i])
  BY DEF IsPath, XP!ArgOK
<1>2. XP!Range(path.steps) = Range(path.steps)
  BY DEF XP!Range, Range
<1> QED BY <1>1, <1>2

(* The nodes stay when _XNodes are added.                                   *)
LEMMA NodesKept ==
  ASSUME NEW obs, NEW grown, NEW os \in Seq(DOMAIN obs),
         \A o \in DOMAIN obs : o \in DOMAIN grown /\ grown[o] = obs[o]
  PROVE  os \in Seq(DOMAIN grown) /\ NodesOf(grown, os) = NodesOf(obs, os)
<1>1. \A i \in DOMAIN os : os[i] \in DOMAIN obs
  OBVIOUS
<1>2. Len(os) \in Nat /\ os \in [1..Len(os) -> DOMAIN grown]
  OBVIOUS
<1> QED BY <1>1, <1>2 DEF NodesOf

LEMMA NodesIn ==
  ASSUME NEW obs, ObjsOK(obs), NEW os \in Seq(DOMAIN obs)
  PROVE  NodesOf(obs, os) \subseteq XP!Nodes
<1>1. \A i \in DOMAIN os : os[i] \in DOMAIN obs
  OBVIOUS
<1>2. \A o \in DOMAIN obs : obs[o] \in XNodes
  BY DEF ObjsOK
<1>3. \A o \in DOMAIN obs : obs[o].node \in XP!Nodes
  BY <1>2 DEF XNodes
<1> QED BY <1>1, <1>3 DEF NodesOf

(* A list of at most one has at most one node.                              *)
LEMMA OfOne ==
  ASSUME NEW obs, NEW l \in Seq(DOMAIN obs), ~(Len(l) > 1)
  PROVE  /\ \A m, n \in NodesOf(obs, l) : m = n
         /\ Ascending(obs, l)
<1>1. Len(l) \in Nat /\ DOMAIN l = 1..Len(l)
  OBVIOUS
<1>2. \A i, j \in DOMAIN l : i = j
  BY <1>1
<1> QED BY <1>1, <1>2 DEF NodesOf, Ascending


LEMMA ChildLeads ==
  ASSUME NEW path, IsPath(path), NEW from \in XP!Nodes, NEW s \in DOMAIN path.steps,
         path.steps[s].axis = "child",
         NEW obs, ObjsOK(obs), NEW l \in Seq(DOMAIN obs), NEW q, Led(obs, l, q, path, from, s, 0),
         NEW new, IsMade(new, obs, l, path.steps[s].test),
         NEW grown, NEW added, DOMAIN added = DOMAIN new,
         \A i \in DOMAIN added : grown[added[i]] = new[i],
         HasPositions(path.steps[s]) => ~(Len(l) > 1)
  PROVE  Led(grown, added, q, path, from, s, 1)
<1> DEFINE step == path.steps[s]
           set == XP!Sets(path.steps, from)[s - 1]
           want == UNION {XP!Lefts(step, n)[0] : n \in set}
<1>1. IsMade(new, obs, l, step.test)
  OBVIOUS
<1>2. DOMAIN added = DOMAIN new /\ \A i \in DOMAIN added : grown[added[i]] = new[i]
  OBVIOUS
<1>3. q = <<>> /\ NodesOf(obs, l) = set
  BY DEF Led
<1>4. XP!StepOK(step) /\ ~IsDeepStep(step)
  BY PathIs DEF IsDeepStep
<1>5. set \subseteq XP!Nodes
  BY <1>3, NodesIn
<1>6. \A n \in set : XP!Lefts(step, n)[0] = {m \in Kids(n) : XP!NamedAs(step.test, m)}
  <2> SUFFICES ASSUME NEW n \in set PROVE XP!Lefts(step, n)[0] = {m \in Kids(n) : XP!NamedAs(step.test, m)}
    OBVIOUS
  <2>1. n \in XP!Nodes
    BY <1>5
  <2>2. XP!Lefts(step, n)[0] = XP!Reached(step.axis, step.test, n)
    <3> HIDE DEF step
    <3> QED BY <1>4, <2>1, LeftsAre
  <2> QED BY <2>2 DEF XP!Reached, Kids
<1> HIDE DEF set
<1>7. NodesOf(grown, added) = {new[i].node : i \in DOMAIN new}
  <2>1. \A i \in DOMAIN new : grown[added[i]].node = new[i].node
    BY <1>2
  <2>2. DOMAIN added = DOMAIN new
    BY <1>2
  <2> HIDE DEF step
  <2>3. ASSUME NEW m PROVE m \in NodesOf(grown, added) <=> m \in {new[i].node : i \in DOMAIN new}
    BY <2>1, <2>2, Zenon DEF NodesOf
  <2> QED BY <2>3
<1>8. {new[i].node : i \in DOMAIN new} \subseteq want
  <2> SUFFICES ASSUME NEW i \in DOMAIN new PROVE new[i].node \in want
    OBVIOUS
  <2>1. PICK j \in DOMAIN l : new[i].node \in Kids(obs[l[j]].node) /\ XP!NamedAs(step.test, new[i].node)
    BY <1>1 DEF IsMade
  <2>2. obs[l[j]].node \in set
    BY <1>3 DEF NodesOf
  <2>3. new[i].node \in XP!Lefts(step, obs[l[j]].node)[0]
    BY <1>6, <2>1, <2>2
  <2> HIDE DEF step
  <2> QED BY <2>2, <2>3
<1>9. want \subseteq {new[i].node : i \in DOMAIN new}
  <2> SUFFICES ASSUME NEW n \in set, NEW m \in XP!Lefts(step, n)[0] PROVE \E i \in DOMAIN new : new[i].node = m
    OBVIOUS
  <2>1. m \in Kids(n) /\ XP!NamedAs(step.test, m)
    BY <1>6
  <2>2. PICK j \in DOMAIN l : obs[l[j]].node = n
    BY <1>3 DEF NodesOf
  <2> QED BY <1>1, <2>1, <2>2 DEF IsMade
<1>10. NodesOf(grown, added) = want
  BY <1>7, <1>8, <1>9
<1>11. HasPositions(step) => (\A m, n \in set : m = n) /\ Ascending(grown, added)
  <2> SUFFICES ASSUME HasPositions(step) PROVE (\A m, n \in set : m = n) /\ Ascending(grown, added)
    OBVIOUS
  <2>1. ~(Len(l) > 1) /\ Len(l) \in Nat
    OBVIOUS
  <2>2. \A m, n \in set : m = n
    BY <1>3, <2>1, OfOne
  <2>3. \A j, k \in DOMAIN new : j < k => new[j].node < new[k].node
    BY <1>1, <2>1 DEF IsMade
  <2>4. ASSUME NEW j \in DOMAIN added, NEW k \in DOMAIN added, j < k
        PROVE  grown[added[j]].node < grown[added[k]].node
    <3>1. j \in DOMAIN new /\ k \in DOMAIN new
      BY <1>2
    <3>2. grown[added[j]] = new[j] /\ grown[added[k]] = new[k]
      BY <1>2
    <3>3. new[j].node < new[k].node
      BY <2>3, <2>4, <3>1, Zenon
    <3> QED BY <3>2, <3>3
  <2>5. Ascending(grown, added)
    BY <2>4 DEF Ascending
  <2> QED BY <2>2, <2>5
<1>12. 1 # 0 /\ 1 - 1 = 0
  OBVIOUS
<1> HIDE DEF step
<1> QED BY <1>3, <1>4, <1>10, <1>11, <1>12 DEF Led, set, step

(* The parents of the _XNodes, each once.                                   *)
ParentsOf(obs, os) ==
  LET parent == [i \in DOMAIN os |-> obs[os[i]].parent]
  IN XP!Picked(parent, {i \in DOMAIN os : parent[i] > 0 /\ \A j \in 1..(i - 1) : parent[j] # parent[i]})

AreParents(ps, obs, os) ==
  /\ ps \in Seq(DOMAIN obs)
  /\ \A i \in DOMAIN ps : \E j \in DOMAIN os : obs[os[j]].node # 0 /\ ps[i] = obs[os[j]].parent
  /\ \A j \in DOMAIN os : obs[os[j]].node # 0 => \E i \in DOMAIN ps : ps[i] = obs[os[j]].parent
  /\ \A i, j \in DOMAIN ps : ps[i] = ps[j] => i = j
  /\ Len(os) <= 1 => Len(ps) <= 1

LEMMA ParentsAre ==
  ASSUME NEW obs, ObjsOK(obs), NEW os \in Seq(DOMAIN obs), NEW ps, ps = ParentsOf(obs, os)
  PROVE  AreParents(ps, obs, os)
<1> DEFINE parent == [i \in DOMAIN os |-> obs[os[i]].parent]
           K == {i \in DOMAIN os : parent[i] > 0 /\ \A j \in 1..(i - 1) : parent[j] # parent[i]}
<1>1. Len(os) \in Nat /\ DOMAIN os = 1..Len(os) /\ \A i \in DOMAIN os : os[i] \in DOMAIN obs
  OBVIOUS
<1>2. \A o \in DOMAIN obs : obs[o] \in XNodes /\ o \in Nat \ {0}
  BY DEF ObjsOK
<1>3. \A o \in DOMAIN obs : obs[o].parent \in Nat /\ (obs[o].node = 0 => obs[o].parent = 0)
  BY <1>2 DEF ObjsOK, XNodes
<1>4. \A o \in DOMAIN obs : obs[o].node # 0 => obs[o].parent \in DOMAIN obs
  BY DEF ObjsOK
<1>5. parent \in Seq(Nat) /\ Len(parent) = Len(os) /\ DOMAIN parent = DOMAIN os
  <2>1. parent \in [1..Len(os) -> Nat]
    BY <1>1, <1>3
  <2> HIDE DEF parent
  <2> QED BY <1>1, <2>1
<1>6. \A i \in DOMAIN os : parent[i] = obs[os[i]].parent
  OBVIOUS
<1>7. ps = XP!Picked(parent, K)
  BY DEF ParentsOf
<1>8. K \subseteq DOMAIN os /\ \A i \in K : parent[i] > 0 /\ \A j \in 1..(i - 1) : parent[j] # parent[i]
  OBVIOUS
<1>9. \A i \in DOMAIN os : parent[i] > 0 /\ (\A j \in 1..(i - 1) : parent[j] # parent[i]) => i \in K
  OBVIOUS
<1> HIDE DEF parent, K
<1>10. PICK w : PickedBy(ps, w, parent, K)
  BY <1>1, <1>5, <1>7, <1>8, PickedIs
<1>20. ps \in Seq(Nat)
  BY <1>1, <1>5, <1>7, <1>8, PickedIs
<1>11. Len(ps) \in Nat /\ DOMAIN ps = 1..Len(ps)
  BY <1>20
<1>12. \A i \in DOMAIN ps : w[i] \in DOMAIN os /\ obs[os[w[i]]].node # 0 /\ ps[i] = obs[os[w[i]]].parent
  <2> SUFFICES ASSUME NEW i \in DOMAIN ps
               PROVE  w[i] \in DOMAIN os /\ obs[os[w[i]]].node # 0 /\ ps[i] = obs[os[w[i]]].parent
    OBVIOUS
  <2>1. w[i] \in K /\ ps[i] = parent[w[i]]
    BY <1>10 DEF PickedBy
  <2>2. w[i] \in DOMAIN os /\ parent[w[i]] > 0
    BY <1>8, <2>1
  <2> QED BY <1>1, <1>3, <1>6, <2>1, <2>2
<1>13. ps \in Seq(DOMAIN obs)
  <2>1. ps \in [1..Len(ps) -> DOMAIN obs]
    <3>1. \A i \in DOMAIN ps : ps[i] \in DOMAIN obs
      BY <1>1, <1>4, <1>12
    <3> QED BY <1>11, <1>20, <3>1
  <2> QED BY <1>11, <2>1
<1>14. ASSUME NEW j \in DOMAIN os, obs[os[j]].node # 0
       PROVE  \E i \in DOMAIN ps : ps[i] = obs[os[j]].parent
  <2> DEFINE S == {k \in DOMAIN os : parent[k] = parent[j]}
  <2>1. S \subseteq Nat /\ S # {}
    BY <1>1
  <2>2. PICK k \in S : \A h \in S : k <= h
    BY <2>1, SmallestNumber
  <2>3. \A h \in 1..(k - 1) : parent[h] # parent[k]
    <3> SUFFICES ASSUME NEW h \in 1..(k - 1), parent[h] = parent[k] PROVE FALSE
      OBVIOUS
    <3>1. k \in 1..Len(os) /\ h \in 1..Len(os) /\ h < k
      BY <1>1
    <3> QED BY <1>1, <2>2, <3>1
  <2>4. parent[k] > 0
    <3>1. parent[k] \in DOMAIN obs
      BY <1>1, <1>4, <1>6, <1>14
    <3> QED BY <1>2, <3>1
  <2>5. k \in K
    BY <1>9, <2>3, <2>4
  <2>6. PICK i \in DOMAIN ps : w[i] = k
    BY <1>10, <2>5 DEF PickedBy
  <2> QED BY <1>6, <1>10, <2>6 DEF PickedBy
<1>15. ASSUME NEW i \in DOMAIN ps, NEW j \in DOMAIN ps, ps[i] = ps[j] PROVE i = j
  <2>1. /\ w[i] \in K /\ w[j] \in K /\ parent[w[i]] = parent[w[j]]
        /\ w[i] \in 1..Len(os) /\ w[j] \in 1..Len(os)
    BY <1>1, <1>8, <1>10, <1>15 DEF PickedBy
  <2>2. ~(w[i] < w[j]) /\ ~(w[j] < w[i])
    <3>1. w[i] < w[j] => w[i] \in 1..(w[j] - 1)
      BY <1>1, <2>1
    <3>2. w[j] < w[i] => w[j] \in 1..(w[i] - 1)
      BY <1>1, <2>1
    <3> QED BY <1>8, <2>1, <3>1, <3>2
  <2>3. ~(i < j) /\ ~(j < i)
    BY <1>10, <2>2 DEF PickedBy
  <2> QED BY <1>11, <2>3
<1>16. ASSUME Len(os) <= 1 PROVE Len(ps) <= 1
  <2> SUFFICES ASSUME Len(ps) > 1 PROVE FALSE
    BY <1>11
  <2>1. 1 \in 1..Len(ps) /\ 2 \in 1..Len(ps) /\ 1 < 2
    BY <1>11
  <2>2. w[1] \in 1..Len(os) /\ w[2] \in 1..Len(os) /\ w[1] < w[2]
    BY <1>1, <1>8, <1>10, <1>11, <2>1 DEF PickedBy
  <2> QED BY <1>1, <1>16, <2>2
<1> QED BY <1>12, <1>13, <1>14, <1>15, <1>16 DEF AreParents


LEMMA ParentLeads ==
  ASSUME NEW path, IsPath(path), NEW from \in XP!Nodes, NEW s \in DOMAIN path.steps,
         path.steps[s].axis = "parent",
         NEW obs, ObjsOK(obs), NEW l \in Seq(DOMAIN obs), NEW q, Led(obs, l, q, path, from, s, 0),
         NEW ps, AreParents(ps, obs, l),
         HasPositions(path.steps[s]) => ~(Len(l) > 1)
  PROVE  Led(obs, ps, q, path, from, s, 1)
<1> DEFINE step == path.steps[s]
           set == XP!Sets(path.steps, from)[s - 1]
           want == UNION {XP!Lefts(step, n)[0] : n \in set}
<1>1. /\ ps \in Seq(DOMAIN obs)
      /\ \A i \in DOMAIN ps : \E j \in DOMAIN l : obs[l[j]].node # 0 /\ ps[i] = obs[l[j]].parent
      /\ \A j \in DOMAIN l : obs[l[j]].node # 0 => \E i \in DOMAIN ps : ps[i] = obs[l[j]].parent
      /\ Len(l) <= 1 => Len(ps) <= 1
  BY DEF AreParents
<1>2. q = <<>> /\ NodesOf(obs, l) = set
  BY DEF Led
<1>3. XP!StepOK(step) /\ ~IsDeepStep(step) /\ step.axis = "parent"
  BY PathIs DEF IsDeepStep
<1>4. set \subseteq XP!Nodes
  BY <1>2, NodesIn
<1>5. \A n \in set : XP!Lefts(step, n)[0] = IF n = 0 THEN {} ELSE {Up[n]}
  <2> SUFFICES ASSUME NEW n \in set PROVE XP!Lefts(step, n)[0] = IF n = 0 THEN {} ELSE {Up[n]}
    OBVIOUS
  <2>1. n \in XP!Nodes
    BY <1>4
  <2> HIDE DEF step
  <2>2. XP!Lefts(step, n)[0] = XP!Reached(step.axis, step.test, n)
    BY <1>3, <2>1, LeftsAre
  <2> QED BY <1>3, <2>2 DEF XP!Reached
<1> HIDE DEF set, step
<1>6. \A i \in DOMAIN l : l[i] \in DOMAIN obs /\ obs[l[i]].node \in set
  BY <1>2 DEF NodesOf
<1>7. \A o \in DOMAIN obs : obs[o].node # 0 => Up[obs[o].node] = obs[obs[o].parent].node
  BY DEF ObjsOK
<1>8. ASSUME NEW i \in DOMAIN ps PROVE obs[ps[i]].node \in want
  <2>1. PICK j \in DOMAIN l : obs[l[j]].node # 0 /\ ps[i] = obs[l[j]].parent
    BY <1>1
  <2>2. obs[ps[i]].node = Up[obs[l[j]].node]
    BY <1>6, <1>7, <2>1
  <2>3. obs[ps[i]].node \in XP!Lefts(step, obs[l[j]].node)[0] /\ obs[l[j]].node \in set
    BY <1>5, <1>6, <2>1, <2>2
  <2> QED BY <2>3
<1>9. ASSUME NEW m \in want PROVE \E i \in DOMAIN ps : obs[ps[i]].node = m
  <2>1. PICK n \in set : m \in XP!Lefts(step, n)[0]
    OBVIOUS
  <2>2. n # 0 /\ m = Up[n]
    BY <1>5, <2>1
  <2>3. PICK j \in DOMAIN l : obs[l[j]].node = n
    BY <1>2 DEF NodesOf
  <2>4. PICK i \in DOMAIN ps : ps[i] = obs[l[j]].parent
    BY <1>1, <2>2, <2>3
  <2> QED BY <1>6, <1>7, <2>2, <2>3, <2>4
<1>10. NodesOf(obs, ps) = want
  <2> HIDE DEF want
  <2> QED BY <1>8, <1>9 DEF NodesOf
<1>11. HasPositions(step) => (\A m, n \in set : m = n) /\ Ascending(obs, ps)
  <2> SUFFICES ASSUME HasPositions(step) PROVE (\A m, n \in set : m = n) /\ Ascending(obs, ps)
    OBVIOUS
  <2>1. ~(Len(l) > 1) /\ Len(l) \in Nat /\ Len(ps) \in Nat
    BY <1>1 DEF step
  <2>2. ~(Len(ps) > 1)
    BY <1>1, <2>1
  <2>3. Ascending(obs, ps)
    BY <1>1, <2>2, OfOne
  <2>4. \A m, n \in set : m = n
    BY <1>2, <2>1, OfOne
  <2> QED BY <2>3, <2>4
<1>12. 1 # 0 /\ 1 - 1 = 0
  OBVIOUS
<1> QED BY <1>1, <1>2, <1>3, <1>10, <1>11, <1>12 DEF Led, set, step

LEMMA SelfLeads ==
  ASSUME NEW path, IsPath(path), NEW from \in XP!Nodes, NEW s \in DOMAIN path.steps,
         path.steps[s].axis = "self",
         NEW obs, ObjsOK(obs), NEW l \in Seq(DOMAIN obs), NEW q, Led(obs, l, q, path, from, s, 0),
         HasPositions(path.steps[s]) => ~(Len(l) > 1)
  PROVE  Led(obs, l, q, path, from, s, 1)
<1> DEFINE step == path.steps[s]
           set == XP!Sets(path.steps, from)[s - 1]
           want == UNION {XP!Lefts(step, n)[0] : n \in set}
<1>1. q = <<>> /\ NodesOf(obs, l) = set
  BY DEF Led
<1>2. XP!StepOK(step) /\ ~IsDeepStep(step) /\ step.axis = "self"
  BY PathIs DEF IsDeepStep
<1>3. set \subseteq XP!Nodes
  BY <1>1, NodesIn
<1>4. \A n \in set : XP!Lefts(step, n)[0] = {n}
  <2> SUFFICES ASSUME NEW n \in set PROVE XP!Lefts(step, n)[0] = {n}
    OBVIOUS
  <2>1. n \in XP!Nodes
    BY <1>3
  <2> HIDE DEF step
  <2>2. XP!Lefts(step, n)[0] = XP!Reached(step.axis, step.test, n)
    BY <1>2, <2>1, LeftsAre
  <2> QED BY <1>2, <2>2 DEF XP!Reached
<1>5. want = set
  <2> HIDE DEF step, set
  <2> QED BY <1>4
<1>6. HasPositions(step) => (\A m, n \in set : m = n) /\ Ascending(obs, l)
  <2> HIDE DEF set
  <2> QED BY <1>1, OfOne
<1>7. 1 # 0 /\ 1 - 1 = 0
  OBVIOUS
<1> HIDE DEF set, step
<1> QED BY <1>1, <1>2, <1>5, <1>6, <1>7 DEF Led, set, step

(* Before the first is taken from the queue.                                *)
LEMMA DeepLeads ==
  ASSUME NEW path, NEW from, NEW s, IsDeepStep(path.steps[s]),
         NEW obs, NEW l, NEW q, Led(obs, l, q, path, from, s, 0)
  PROVE  Led(obs, <<>>, l, path, from, s, 1)
<1>1. NodesOf(obs, <<>>) = {}
  BY DEF NodesOf
<1>2. NodesOf(obs, l) = XP!Sets(path.steps, from)[s - 1]
  BY DEF Led
<1>3. Covers({}, NodesOf(obs, l), XP!Sets(path.steps, from)[s - 1])
  BY <1>2 DEF Covers
<1>4. 1 # 0
  OBVIOUS
<1> QED BY <1>1, <1>3, <1>4 DEF Led

LEMMA NodesOfTail ==
  ASSUME NEW obs, NEW q \in Seq(DOMAIN obs), q # <<>>
  PROVE  /\ Tail(q) \in Seq(DOMAIN obs) /\ Head(q) \in DOMAIN obs
         /\ NodesOf(obs, q) = NodesOf(obs, Tail(q)) \cup {obs[Head(q)].node}
<1> DEFINE n == obs[Head(q)].node
<1>1. /\ Len(q) \in Nat \ {0} /\ DOMAIN q = 1..Len(q) /\ Head(q) = q[1] /\ Tail(q) \in Seq(DOMAIN obs)
      /\ DOMAIN Tail(q) = 1..(Len(q) - 1)
      /\ \A i \in 1..(Len(q) - 1) : Tail(q)[i] = q[i + 1]
  OBVIOUS
<1>2. ASSUME NEW i \in DOMAIN q PROVE i = 1 \/ \E j \in DOMAIN Tail(q) : q[i] = Tail(q)[j]
  <2>1. i # 1 => i - 1 \in 1..(Len(q) - 1) /\ (i - 1) + 1 = i
    BY <1>1
  <2> QED BY <1>1, <2>1
<1>3. ASSUME NEW j \in DOMAIN Tail(q) PROVE \E i \in DOMAIN q : q[i] = Tail(q)[j]
  <2>1. j + 1 \in DOMAIN q
    BY <1>1
  <2> QED BY <1>1, <2>1
<1>4. 1 \in DOMAIN q
  BY <1>1
<1>5. NodesOf(obs, q) \subseteq NodesOf(obs, Tail(q)) \cup {n}
  BY <1>1, <1>2 DEF NodesOf
<1>6. NodesOf(obs, Tail(q)) \subseteq NodesOf(obs, q)
  BY <1>3 DEF NodesOf
<1>7. n \in NodesOf(obs, q)
  BY <1>1, <1>4 DEF NodesOf
<1> QED BY <1>1, <1>4, <1>5, <1>6, <1>7

LEMMA NodesOfJoined ==
  ASSUME NEW obs, NEW s \in Seq(DOMAIN obs), NEW t \in Seq(DOMAIN obs)
  PROVE  /\ s \o t \in Seq(DOMAIN obs)
         /\ NodesOf(obs, s \o t) = NodesOf(obs, s) \cup NodesOf(obs, t)
<1> DEFINE u == s \o t
<1>1. /\ u \in Seq(DOMAIN obs) /\ Len(s) \in Nat /\ Len(t) \in Nat
      /\ DOMAIN s = 1..Len(s) /\ DOMAIN t = 1..Len(t) /\ DOMAIN u = 1..(Len(s) + Len(t))
      /\ \A k \in DOMAIN s : k \in DOMAIN u /\ u[k] = s[k]
      /\ \A k \in DOMAIN t : Len(s) + k \in DOMAIN u /\ u[Len(s) + k] = t[k]
  OBVIOUS
<1> HIDE DEF u
<1>2. \A k \in DOMAIN u : k \in DOMAIN s \/ \E j \in DOMAIN t : k = Len(s) + j
  <2> SUFFICES ASSUME NEW k \in DOMAIN u, k \notin DOMAIN s PROVE \E j \in DOMAIN t : k = Len(s) + j
    OBVIOUS
  <2>1. k - Len(s) \in DOMAIN t /\ k = Len(s) + (k - Len(s))
    BY <1>1
  <2> QED BY <2>1
<1>3. NodesOf(obs, u) \subseteq NodesOf(obs, s) \cup NodesOf(obs, t)
  <2> SUFFICES ASSUME NEW k \in DOMAIN u PROVE obs[u[k]].node \in NodesOf(obs, s) \cup NodesOf(obs, t)
    BY DEF NodesOf
  <2>1. CASE k \in DOMAIN s
    BY <1>1, <2>1 DEF NodesOf
  <2>2. ASSUME NEW j \in DOMAIN t, k = Len(s) + j PROVE obs[u[k]].node \in NodesOf(obs, t)
    BY <1>1, <2>2 DEF NodesOf
  <2> QED BY <1>2, <2>1, <2>2
<1>4. NodesOf(obs, s) \subseteq NodesOf(obs, u)
  <2> SUFFICES ASSUME NEW k \in DOMAIN s PROVE obs[s[k]].node \in NodesOf(obs, u)
    BY DEF NodesOf
  <2> QED BY <1>1 DEF NodesOf
<1>5. NodesOf(obs, t) \subseteq NodesOf(obs, u)
  <2> SUFFICES ASSUME NEW k \in DOMAIN t PROVE obs[t[k]].node \in NodesOf(obs, u)
    BY DEF NodesOf
  <2> QED BY <1>1 DEF NodesOf
<1> QED BY <1>1, <1>3, <1>4, <1>5 DEF u

(* One that is there already is passed over, ...                            *)
LEMMA PassLeads ==
  ASSUME NEW path, NEW from, NEW s, NEW d, d # 0, IsDeepStep(path.steps[s]),
         NEW obs, ObjsOK(obs), NEW l \in Seq(DOMAIN obs), NEW q \in Seq(DOMAIN obs), q # <<>>,
         Led(obs, l, q, path, from, s, d), \E i \in DOMAIN l : l[i] = Head(q)
  PROVE  Tail(q) \in Seq(DOMAIN obs) /\ Led(obs, l, Tail(q), path, from, s, d)
<1> DEFINE set == XP!Sets(path.steps, from)[s - 1]
           n == obs[Head(q)].node
<1>1. Tail(q) \in Seq(DOMAIN obs) /\ NodesOf(obs, q) = NodesOf(obs, Tail(q)) \cup {n}
  BY NodesOfTail
<1>2. n \in NodesOf(obs, l)
  BY DEF NodesOf
<1>3. Covers(NodesOf(obs, l), NodesOf(obs, q), set)
  BY DEF Led
<1>4. NodesOf(obs, l) \subseteq XP!Nodes
  BY NodesIn
<1> HIDE DEF n, set
<1>5. Covers(NodesOf(obs, l), NodesOf(obs, Tail(q)), set)
  BY <1>1, <1>2, <1>3, <1>4, CoverPassed
<1> QED BY <1>1, <1>5 DEF Led, set

(* ... and of another the children are added.                               *)
LEMMA MoreLeads ==
  ASSUME NEW path, NEW from, NEW s, NEW d, d # 0, IsDeepStep(path.steps[s]),
         NEW obs, ObjsOK(obs), NEW l \in Seq(DOMAIN obs), NEW q \in Seq(DOMAIN obs), q # <<>>,
         Led(obs, l, q, path, from, s, d),
         NEW new, IsMade(new, obs, <<Head(q)>>, "*"),
         NEW grown, \A o \in DOMAIN obs : o \in DOMAIN grown /\ grown[o] = obs[o],
         NEW added \in Seq(DOMAIN grown), DOMAIN added = DOMAIN new,
         \A i \in DOMAIN added : grown[added[i]] = new[i]
  PROVE  /\ Append(l, Head(q)) \in Seq(DOMAIN grown) /\ Tail(q) \o added \in Seq(DOMAIN grown)
         /\ Led(grown, Append(l, Head(q)), Tail(q) \o added, path, from, s, d)
<1> DEFINE set == XP!Sets(path.steps, from)[s - 1]
           n == obs[Head(q)].node
           one == <<Head(q)>>
<1>1. /\ Tail(q) \in Seq(DOMAIN obs) /\ Head(q) \in DOMAIN obs
      /\ NodesOf(obs, q) = NodesOf(obs, Tail(q)) \cup {n}
  BY NodesOfTail
<1>2. Covers(NodesOf(obs, l), NodesOf(obs, q), set)
  BY DEF Led
<1>3. n \in XP!Nodes
  <2>1. obs[Head(q)] \in XNodes
    BY <1>1 DEF ObjsOK
  <2> QED BY <2>1 DEF XNodes
<1>4. DOMAIN one = {1} /\ one[1] = Head(q) /\ one \in Seq(DOMAIN obs)
  BY <1>1
<1>5. IsMade(new, obs, one, "*")
  OBVIOUS
<1>6. Append(l, Head(q)) = l \o one
  BY <1>1
<1> HIDE DEF one, n, set
<1>7. NodesOf(grown, added) = Kids(n)
  <2>1. ASSUME NEW i \in DOMAIN added PROVE grown[added[i]].node \in Kids(n)
    <3>1. new[i].node \in Kids(obs[one[1]].node)
      BY <1>4, <1>5 DEF IsMade
    <3> QED BY <1>4, <3>1 DEF n
  <2>2. ASSUME NEW m \in Kids(n) PROVE \E i \in DOMAIN added : grown[added[i]].node = m
    <3>1. XP!NamedAs("*", m) /\ m \in Kids(obs[one[1]].node) /\ 1 \in DOMAIN one
      BY <1>4 DEF XP!NamedAs, n
    <3>2. \E k \in DOMAIN new : new[k].node = m
      BY <1>5, <3>1 DEF IsMade
    <3> QED BY <3>2
  <2> QED BY <2>1, <2>2 DEF NodesOf
<1>8. NodesOf(obs, one) = {n}
  BY <1>4 DEF NodesOf, n
<1>9. /\ l \in Seq(DOMAIN grown) /\ NodesOf(grown, l) = NodesOf(obs, l)
      /\ Tail(q) \in Seq(DOMAIN grown) /\ NodesOf(grown, Tail(q)) = NodesOf(obs, Tail(q))
      /\ one \in Seq(DOMAIN grown) /\ NodesOf(grown, one) = {n}
  BY <1>1, <1>4, <1>8, NodesKept
<1>10. l \o one \in Seq(DOMAIN grown) /\ NodesOf(grown, l \o one) = NodesOf(obs, l) \cup {n}
  BY <1>9, NodesOfJoined
<1>11. /\ Tail(q) \o added \in Seq(DOMAIN grown)
       /\ NodesOf(grown, Tail(q) \o added) = NodesOf(obs, Tail(q)) \cup Kids(n)
  <2>1. PICK t : t = Tail(q)
    OBVIOUS
  <2>2. t \in Seq(DOMAIN grown) /\ NodesOf(grown, t) = NodesOf(obs, Tail(q))
    BY <1>9, <2>1
  <2>3. t \o added \in Seq(DOMAIN grown) /\ NodesOf(grown, t \o added) = NodesOf(obs, Tail(q)) \cup Kids(n)
    BY <1>7, <2>2, NodesOfJoined
  <2> QED BY <2>1, <2>3
<1>12. Covers(NodesOf(obs, l) \cup {n}, NodesOf(obs, Tail(q)) \cup Kids(n), set)
  BY <1>1, <1>2, <1>3, CoverMore
<1> QED BY <1>6, <1>10, <1>11, <1>12 DEF Led, set

(***************************************************************************)
(* Predicates                                                              *)
(***************************************************************************)
(* A position counted in the list is the one in document order.             *)
LEMMA CountedRight ==
  ASSUME NEW obs, ObjsOK(obs), NEW l \in Seq(DOMAIN obs), Ascending(obs, l), NEW i \in DOMAIN l
  PROVE  /\ XP!Cardinality({m \in NodesOf(obs, l) : m <= obs[l[i]].node}) = i
         /\ (\A m \in NodesOf(obs, l) : m <= obs[l[i]].node) <=> i = Len(l)
<1> DEFINE n == Len(l)
           f == [j \in 1..n |-> obs[l[j]].node]
           S == NodesOf(obs, l)
<1>1. n \in Nat /\ DOMAIN l = 1..n /\ i \in 1..n /\ \A j \in 1..n : l[j] \in DOMAIN obs
  OBVIOUS
<1>2. \A j \in 1..n : obs[l[j]].node \in Nat
  <2>1. S \subseteq XP!Nodes
    BY NodesIn
  <2>2. XP!Nodes \subseteq Nat
    BY NodesAre
  <2> QED BY <1>1, <2>1, <2>2 DEF NodesOf
<1>3. S = {obs[l[j]].node : j \in 1..n}
  BY <1>1 DEF NodesOf
<1>4. \A j, k \in 1..n : j < k => obs[l[j]].node < obs[l[k]].node
  BY <1>1 DEF Ascending
<1> HIDE DEF n, S
<1>5. f \in [1..n -> Nat] /\ \A j \in 1..n : f[j] = obs[l[j]].node
  BY <1>2
<1> HIDE DEF f
<1>6. \A j, k \in 1..n : j < k => f[j] < f[k]
  BY <1>4, <1>5
<1>7. S = {f[j] : j \in 1..n}
  BY <1>3, <1>5
<1>8. XP!Cardinality({m \in S : m <= f[i]}) = i
  <2>1. n \in Nat /\ i \in 1..n
    BY <1>1
  <2>2. f \in [1..n -> Nat]
    BY <1>5
  <2> QED BY <2>1, <2>2, <1>6, <1>7, RisingCounted, ZenonT(60)
<1>9. ASSUME i = n PROVE \A m \in S : m <= f[i]
  <2> SUFFICES ASSUME NEW j \in 1..n PROVE f[j] <= f[i]
    BY <1>7
  <2>1. j = n \/ j < n
    BY <1>1
  <2>2. f[j] \in Nat /\ f[i] \in Nat
    BY <1>1, <1>5
  <2>3. j < n => f[j] < f[i]
    BY <1>1, <1>6, <1>9
  <2> QED BY <1>9, <2>1, <2>2, <2>3
<1>10. ASSUME \A m \in S : m <= f[i] PROVE i = n
  <2>1. n \in 1..n
    BY <1>1
  <2>2. f[n] <= f[i] /\ f[n] \in Nat /\ f[i] \in Nat
    BY <1>1, <1>5, <1>7, <1>10, <2>1
  <2>3. ~(i < n)
    BY <1>1, <1>6, <2>1, <2>2
  <2> QED BY <1>1, <2>3
<1> QED BY <1>1, <1>5, <1>8, <1>9, <1>10 DEF n, S


(***************************************************************************)
(* Comparisons                                                             *)
(***************************************************************************)
Verdicts == {"true", "false", "unsupported"}

(* Unsupported says nothing.                                                *)
Agrees(given, truth) ==
  given \in Verdicts /\ (given = "true" => truth) /\ (given = "false" => ~truth)

LEMMA DecisiveIs ==
  ASSUME NEW n \in Nat, NEW f, DOMAIN f = 1..n, \A i \in 1..n : f[i] \in Verdicts
  PROVE  /\ Agrees(XP!FirstDecisive(f), \E i \in 1..n : f[i] = "true")
         /\ XP!FirstDecisive(f) = "false" => \A i \in 1..n : f[i] = "false"
<1> DEFINE S == {i \in 1..n : f[i] # "false"}
<1>1. XP!FirstDecisive(f) = IF S = {} THEN "false" ELSE f[CHOOSE i \in S : \A j \in S : i <= j]
  BY DEF XP!FirstDecisive
<1>2. CASE S = {}
  BY <1>1, <1>2 DEF Agrees, Verdicts
<1>3. CASE S # {}
  <2>1. S \subseteq Nat
    OBVIOUS
  <2> HIDE DEF S
  <2>2. PICK i \in S : f[i] = XP!FirstDecisive(f)
    BY <1>1, <1>3, <2>1, SmallestNumber
  <2>3. i \in 1..n /\ f[i] # "false"
    BY <2>2 DEF S
  <2> QED BY <2>2, <2>3 DEF Agrees, Verdicts
<1> QED BY <1>2, <1>3

(* The string-values of nodes.                                              *)
Strings(S) == {[t |-> "str", v |-> Text[n]] : n \in {n \in S : Text[n] # NoText}}

(* That nodes in some order compare with a value is that one of them does.    *)
OneCompares(op, flip, S, other) == \E n \in S : Text[n] # NoText /\ XP!CompareNode(op, flip, n, other)

LEMMA NodesWithValueIs ==
  ASSUME NEW k \in Nat, NEW ns, DOMAIN ns = 1..k, NEW S, S = {ns[i] : i \in 1..k},
         NEW op, NEW flip, NEW other, other.t # "bool"
  PROVE  Agrees(XP!NodesWith(op, flip, ns, other), OneCompares(op, flip, S, other))
<1> DEFINE one(i) == IF Text[ns[i]] = NoText THEN "unsupported"
                     ELSE XP!Says(XP!CompareNode(op, flip, ns[i], other))
           ones == [i \in DOMAIN ns |-> one(i)]
           given == XP!NodesWith(op, flip, ns, other)
<1>1. given = XP!FirstDecisive(ones)
  BY DEF XP!NodesWith
<1>2. \A i : /\ one(i) \in Verdicts
             /\ one(i) = "true" => Text[ns[i]] # NoText /\ XP!CompareNode(op, flip, ns[i], other)
             /\ one(i) = "false" => ~XP!CompareNode(op, flip, ns[i], other)
  BY DEF XP!Says, Verdicts
<1> HIDE DEF one
<1>3. DOMAIN ones = 1..k /\ \A i \in 1..k : ones[i] = one(i) /\ ones[i] \in Verdicts
  BY <1>2
<1> HIDE DEF ones
<1>4. /\ given \in Verdicts
      /\ given = "true" => \E i \in 1..k : one(i) = "true"
      /\ given = "false" => \A i \in 1..k : one(i) = "false"
  BY <1>1, <1>3, DecisiveIs DEF Agrees
<1> HIDE DEF given
<1>5. given = "true" => OneCompares(op, flip, S, other)
  BY <1>2, <1>4 DEF OneCompares
<1>6. given = "false" => ~OneCompares(op, flip, S, other)
  BY <1>2, <1>4 DEF OneCompares
<1> QED BY <1>4, <1>5, <1>6 DEF Agrees, given

(* With a Boolean it is that there are any.                                  *)
LEMMA NodesWithBoolIs ==
  ASSUME NEW S, NEW k \in Nat, NEW ns \in [1..k -> S], S = {ns[i] : i \in 1..k},
         NEW op, NEW flip, NEW other, other.t = "bool"
  PROVE  Agrees(XP!NodesWith(op, flip, ns, other),
                XP!Ordered(op, flip, [t |-> "bool", v |-> S # {}], other))
<1>1. (ns # <<>>) = (S # {})
  <2>1. ns \in Seq(S) /\ Len(ns) = k
    OBVIOUS
  <2>2. ns = <<>> <=> k = 0
    BY <2>1
  <2>3. k = 0 => S = {}
    OBVIOUS
  <2>4. k # 0 => ns[1] \in S
    OBVIOUS
  <2> QED BY <2>2, <2>3, <2>4
<1> QED BY <1>1 DEF XP!NodesWith, XP!Says, Agrees, Verdicts

(* One of some nodes compares with a text by its text, or by its local name,   *)
(* and with another value as its string-value.                               *)
LEMMA OneComparesIs ==
  ASSUME NEW op, NEW flip, NEW S, NEW other
  PROVE  OneCompares(op, flip, S, other) <=>
           IF XP!IsText(op, other) THEN XP!TextMeant(op, S, other.v)
           ELSE \E a \in Strings(S) : XP!Ordered(op, flip, a, other)
<1>1. CASE XP!IsText(op, other)
  <2>1. ASSUME NEW n
        PROVE  XP!CompareNode(op, flip, n, other) <=> (XP!SameText(n, other.v) <=> op = "=")
    BY <1>1 DEF XP!IsText, XP!CompareNode, XP!EqualsText, XP!SameText
  <2> QED BY <1>1, <2>1 DEF OneCompares, XP!TextMeant
<1>2. CASE ~XP!IsText(op, other)
  <2>1. ASSUME NEW n
        PROVE  XP!CompareNode(op, flip, n, other) <=> XP!Ordered(op, flip, [t |-> "str", v |-> Text[n]], other)
    BY <1>2 DEF XP!IsText, XP!CompareNode, XP!String
  <2>2. (\E a \in Strings(S) : XP!Ordered(op, flip, a, other)) <=>
          \E n \in S : Text[n] # NoText /\ XP!Ordered(op, flip, [t |-> "str", v |-> Text[n]], other)
    BY DEF Strings
  <2> QED BY <1>2, <2>1, <2>2 DEF OneCompares
<1> QED BY <1>1, <1>2

(* What comes of the children a predicate compares is what it means.          *)
LEMMA ChildrenMeant ==
  ASSUME NEW pr, pr.k = "child", NEW n, NEW among
  PROVE  Agrees(XP!OfChildren(pr, n), XP!Meets(pr, n, among))
<1> DEFINE S == XP!Compared(pr, n)
           ns == XP!InOrder(S)
           k == Cardinality(S)
<1>1. Len(Up) \in Nat /\ S \in SUBSET (0..Len(Up))
  BY NodesAre DEF XP!Compared
<1> HIDE DEF S
<1>2. /\ k \in Nat /\ ns \in [1..k -> S]
      /\ \A m \in S : \E i \in 1..k : ns[i] = m
  BY <1>1, InOrderIs
<1>3. XP!OfChildren(pr, n) = XP!NodesWith(pr.op, FALSE, ns, pr.v)
  BY DEF XP!OfChildren, S
<1> HIDE DEF ns, k
<1>4. DOMAIN ns = 1..k /\ S = {ns[i] : i \in 1..k}
  BY <1>2
<1>5. XP!Meets(pr, n, among) <=>
        IF XP!IsText(pr.op, pr.v) THEN XP!TextMeant(pr.op, S, pr.v.v)
        ELSE \E a \in XP!AsValues(S, pr.v) : XP!Atoms(pr.op, a, pr.v)
  BY DEF XP!Meets, S
<1>6. CASE pr.v.t = "bool"
  <2>1. Agrees(XP!NodesWith(pr.op, FALSE, ns, pr.v), XP!Atoms(pr.op, [t |-> "bool", v |-> S # {}], pr.v))
    BY <1>2, <1>4, <1>6, NodesWithBoolIs DEF XP!Ordered
  <2>2. ~XP!IsText(pr.op, pr.v) /\ XP!AsValues(S, pr.v) = {[t |-> "bool", v |-> S # {}]}
    BY <1>6 DEF XP!IsText, XP!AsValues
  <2> QED BY <1>3, <1>5, <2>1, <2>2 DEF Agrees
<1>7. CASE pr.v.t # "bool"
  <2>1. Agrees(XP!NodesWith(pr.op, FALSE, ns, pr.v), OneCompares(pr.op, FALSE, S, pr.v))
    BY <1>2, <1>4, <1>7, NodesWithValueIs
  <2>2. XP!AsValues(S, pr.v) = Strings(S)
    BY <1>7 DEF XP!AsValues, Strings
  <2>3. OneCompares(pr.op, FALSE, S, pr.v) <=> XP!Meets(pr, n, among)
    BY <1>5, <2>2, OneComparesIs DEF XP!Ordered
  <2> QED BY <1>3, <2>1, <2>3 DEF Agrees
<1> QED BY <1>6, <1>7

(* What the predicate keeps is what meets it.                               *)
KeepsWhatMeets(pr, obs, l, among) ==
  \A i \in DOMAIN l : XP!Keeps(pr, i, obs[l[i]].node, Len(l)) <=> XP!Meets(pr, obs[l[i]].node, among)

LEMMA KeepsMeets ==
  ASSUME NEW obs, ObjsOK(obs), NEW l \in Seq(DOMAIN obs), NEW pr, pr.k \in {"pos", "last", "child"},
         pr.k # "child" => Ascending(obs, l), NEW among, pr.k # "child" => among = NodesOf(obs, l),
         \A i \in DOMAIN l : ~XP!NotEvaluated(pr, obs[l[i]].node)
  PROVE  KeepsWhatMeets(pr, obs, l, among)
<1> SUFFICES ASSUME NEW i \in DOMAIN l
             PROVE  XP!Keeps(pr, i, obs[l[i]].node, Len(l)) <=> XP!Meets(pr, obs[l[i]].node, among)
  BY DEF KeepsWhatMeets
<1>1. CASE pr.k = "child"
  <2>1. PICK n : n = obs[l[i]].node
    OBVIOUS
  <2>2. Agrees(XP!OfChildren(pr, n), XP!Meets(pr, n, among)) /\ XP!OfChildren(pr, n) # "unsupported"
    BY <1>1, <2>1, ChildrenMeant DEF XP!NotEvaluated
  <2>3. XP!OfChildren(pr, n) = "true" <=> XP!Meets(pr, n, among)
    BY <2>2 DEF Agrees, Verdicts
  <2> QED BY <1>1, <2>1, <2>3 DEF XP!Keeps
<1>2. CASE pr.k = "pos"
  <2>1. XP!Cardinality({m \in among : m <= obs[l[i]].node}) = i
    BY <1>2, CountedRight
  <2> QED BY <1>2, <2>1 DEF XP!Keeps, XP!Meets
<1>3. CASE pr.k = "last"
  <2>1. (\A m \in among : m <= obs[l[i]].node) <=> i = Len(l)
    BY <1>3, CountedRight
  <2> QED BY <1>3, <2>1 DEF XP!Keeps, XP!Meets
<1> QED BY <1>1, <1>2, <1>3

(* What is picked of a rising list rises.                                   *)
LEMMA RisingPicked ==
  ASSUME NEW obs, NEW l, Ascending(obs, l), NEW kept, NEW w, NEW K, K \subseteq DOMAIN l,
         PickedBy(kept, w, l, K)
  PROVE  Ascending(obs, kept)
<1> SUFFICES ASSUME NEW i \in DOMAIN kept, NEW j \in DOMAIN kept, i < j
             PROVE  obs[kept[i]].node < obs[kept[j]].node
  BY DEF Ascending
<1>1. w[i] \in K /\ w[j] \in K /\ w[i] < w[j] /\ kept[i] = l[w[i]] /\ kept[j] = l[w[j]]
  BY DEF PickedBy
<1> QED BY <1>1 DEF Ascending

LEMMA FilterLeads ==
  ASSUME NEW path, IsPath(path), NEW from \in XP!Nodes, NEW s \in DOMAIN path.steps,
         NEW d \in DOMAIN path.steps[s].preds, NEW pr, pr = path.steps[s].preds[d],
         NEW obs, ObjsOK(obs), NEW l \in Seq(DOMAIN obs), NEW q, Led(obs, l, q, path, from, s, d),
         NEW K, K = {i \in DOMAIN l : XP!Keeps(pr, i, obs[l[i]].node, Len(l))},
         \A i \in DOMAIN l : ~XP!NotEvaluated(pr, obs[l[i]].node),
         NEW kept, NEW w, PickedBy(kept, w, l, K)
  PROVE  Led(obs, kept, q, path, from, s, d + 1)
<1> DEFINE step == path.steps[s]
           set == XP!Sets(path.steps, from)[s - 1]
           before == UNION {XP!Lefts(step, n)[d - 1] : n \in set}
           after == UNION {XP!Lefts(step, n)[d] : n \in set}
<1>1. XP!StepOK(step)
  BY PathIs
<1>2. /\ DOMAIN step.preds = 1..Len(step.preds) /\ Len(step.preds) \in Nat
      /\ d \in 1..Len(step.preds) /\ d # 0 /\ d + 1 # 0 /\ (d + 1) - 1 = d
      /\ step.preds # <<>>
  <2>1. step.preds \in Seq(XP!Range(step.preds))
    BY <1>1 DEF XP!StepOK
  <2> HIDE DEF step
  <2>2. DOMAIN step.preds = 1..Len(step.preds) /\ Len(step.preds) \in Nat
    BY <2>1
  <2>3. d \in DOMAIN step.preds
    BY DEF step
  <2> QED BY <2>2, <2>3
<1>3. ~IsDeepStep(step) /\ pr.k \in {"pos", "last", "child"}
  BY <1>1, <1>2 DEF XP!StepOK, IsDeepStep
<1>4. /\ q = <<>> /\ NodesOf(obs, l) = before
      /\ HasPositions(step) => (\A m, n \in set : m = n) /\ Ascending(obs, l)
  BY <1>2, <1>3 DEF Led
<1>5. set \subseteq XP!Nodes
  <2>1. s - 1 \in 0..Len(path.steps) /\ path.steps \in Seq(Range(path.steps))
    BY PathIs
  <2> QED BY <2>1, PathIs, SetsAre
<1>6. \A n \in set : XP!Lefts(step, n)[d] = {m \in XP!Lefts(step, n)[d - 1] : XP!Meets(pr, m, XP!Lefts(step, n)[d - 1])}
  <2> SUFFICES ASSUME NEW n \in set
               PROVE  XP!Lefts(step, n)[d] = {m \in XP!Lefts(step, n)[d - 1] : XP!Meets(pr, m, XP!Lefts(step, n)[d - 1])}
    OBVIOUS
  <2>1. n \in XP!Nodes /\ pr = step.preds[d]
    BY <1>5
  <2> HIDE DEF step, set
  <2> QED BY <1>1, <1>2, <2>1, LeftsAre
<1>7. pr.k # "child" => HasPositions(step)
  BY DEF HasPositions
<1> HIDE DEF set, step
<1>8. ASSUME NEW i \in DOMAIN l, NEW n \in set, obs[l[i]].node \in XP!Lefts(step, n)[d - 1]
      PROVE  i \in K <=> XP!Meets(pr, obs[l[i]].node, XP!Lefts(step, n)[d - 1])
  <2>1. pr.k # "child" => XP!Lefts(step, n)[d - 1] = NodesOf(obs, l)
    BY <1>4, <1>7
  <2>2. pr.k # "child" => Ascending(obs, l)
    BY <1>4, <1>7
  <2>3. PICK A : A = XP!Lefts(step, n)[d - 1]
    OBVIOUS
  <2>4. pr.k # "child" => A = NodesOf(obs, l)
    BY <2>1, <2>3
  <2>5. KeepsWhatMeets(pr, obs, l, A)
    BY <1>3, <2>2, <2>4, KeepsMeets
  <2>6. i \in K <=> XP!Keeps(pr, i, obs[l[i]].node, Len(l))
    OBVIOUS
  <2> QED BY <2>3, <2>5, <2>6 DEF KeepsWhatMeets
<1>9. ASSUME NEW j \in DOMAIN kept PROVE obs[kept[j]].node \in after
  <2>1. w[j] \in K /\ w[j] \in DOMAIN l /\ kept[j] = l[w[j]]
    BY DEF PickedBy
  <2>2. obs[l[w[j]]].node \in before
    BY <1>4, <2>1 DEF NodesOf
  <2>3. PICK n \in set : obs[l[w[j]]].node \in XP!Lefts(step, n)[d - 1]
    BY <2>2
  <2>4. obs[l[w[j]]].node \in XP!Lefts(step, n)[d]
    BY <1>6, <1>8, <2>1, <2>3
  <2> QED BY <2>1, <2>4
<1>10. ASSUME NEW m \in after PROVE \E j \in DOMAIN kept : obs[kept[j]].node = m
  <2>1. PICK n \in set : m \in XP!Lefts(step, n)[d]
    OBVIOUS
  <2>2. m \in XP!Lefts(step, n)[d - 1] /\ XP!Meets(pr, m, XP!Lefts(step, n)[d - 1])
    BY <1>6, <2>1
  <2>3. m \in NodesOf(obs, l)
    BY <1>4, <2>2
  <2>4. PICK i \in DOMAIN l : obs[l[i]].node = m
    BY <2>3 DEF NodesOf
  <2>5. i \in K
    BY <1>8, <2>2, <2>4
  <2>6. PICK j \in DOMAIN kept : w[j] = i
    BY <2>5 DEF PickedBy
  <2>7. kept[j] = l[i]
    BY <2>6 DEF PickedBy
  <2> QED BY <2>4, <2>7
<1>11. NodesOf(obs, kept) = after
  <2> HIDE DEF after
  <2> QED BY <1>9, <1>10 DEF NodesOf
<1>12. HasPositions(step) => Ascending(obs, kept)
  <2>1. K \subseteq DOMAIN l
    OBVIOUS
  <2> QED BY <1>4, <2>1, RisingPicked
<1> QED BY <1>2, <1>3, <1>4, <1>11, <1>12 DEF Led, set, step

(* After the last predicate the list is where the step leads.               *)
LEMMA NextLeads ==
  ASSUME NEW path, IsPath(path), NEW from \in XP!Nodes, NEW s \in DOMAIN path.steps,
         NEW d \in Nat, d = Len(path.steps[s].preds) + 1,
         NEW obs, NEW l, Led(obs, l, <<>>, path, from, s, d)
  PROVE  Led(obs, l, <<>>, path, from, s + 1, 0)
<1> DEFINE step == path.steps[s]
           set == XP!Sets(path.steps, from)[s - 1]
<1>1. XP!StepOK(step) /\ s \in 1..Len(path.steps) /\ Len(path.steps) \in Nat
  BY PathIs
<1>2. Len(step.preds) \in Nat /\ d # 0 /\ d - 1 = Len(step.preds) /\ (s + 1) - 1 = s
  <2>1. step.preds \in Seq(XP!Range(step.preds))
    BY <1>1 DEF XP!StepOK
  <2> HIDE DEF step
  <2>2. Len(step.preds) \in Nat
    BY <2>1
  <2> QED BY <1>1, <2>2 DEF step
<1>3. /\ XP!Sets(path.steps, from)[s] = UNION {XP!FromOne(step, n) : n \in set}
      /\ set \subseteq XP!Nodes
  <2>1. path.steps \in Seq(Range(path.steps)) /\ s - 1 \in 0..Len(path.steps)
    BY <1>1, PathIs
  <2> QED BY <1>1, <2>1, PathIs, SetsAre
<1> HIDE DEF set
<1>4. CASE IsDeepStep(step)
  <2>1. NodesOf(obs, l) = Under(set)
    <3>1. Covers(NodesOf(obs, l), NodesOf(obs, <<>>), set)
      BY <1>2, <1>4 DEF Led, set
    <3>2. NodesOf(obs, <<>>) = {} /\ Under({}) = {}
      BY DEF NodesOf, Under
    <3> QED BY <3>1, <3>2 DEF Covers
  <2>2. step.preds = <<>> /\ Len(step.preds) = 0
    BY <1>1, <1>4 DEF XP!StepOK, IsDeepStep
  <2>3. \A n \in set : XP!FromOne(step, n) = XP!Descendants[n]
    <3> SUFFICES ASSUME NEW n \in set PROVE XP!FromOne(step, n) = XP!Descendants[n]
      OBVIOUS
    <3>1. n \in XP!Nodes
      BY <1>3
    <3> HIDE DEF step
    <3>2. XP!Lefts(step, n)[0] = XP!Reached(step.axis, step.test, n)
      BY <1>1, <3>1, LeftsAre
    <3> QED BY <1>4, <2>2, <3>2 DEF XP!FromOne, XP!Reached, IsDeepStep
  <2>4. NodesOf(obs, l) = XP!Sets(path.steps, from)[s]
    BY <1>3, <2>1, <2>3 DEF Under
  <2> QED BY <1>2, <2>4 DEF Led
<1>5. CASE ~IsDeepStep(step)
  <2>1. NodesOf(obs, l) = UNION {XP!Lefts(step, n)[d - 1] : n \in set}
    BY <1>2, <1>5 DEF Led, set
  <2>2. \A n \in set : XP!FromOne(step, n) = XP!Lefts(step, n)[d - 1]
    BY <1>2 DEF XP!FromOne
  <2>3. NodesOf(obs, l) = XP!Sets(path.steps, from)[s]
    <3> HIDE DEF step
    <3> QED BY <1>3, <2>1, <2>2
  <2> QED BY <1>2, <2>3 DEF Led
<1> QED BY <1>4, <1>5


(***************************************************************************)
(* The invariant of an evaluation                                          *)
(***************************************************************************)
ArgsOf(e) == IF e.op = "nodes" THEN 1 ELSE 2
Extends(obs, grown) == \A o \in DOMAIN obs : o \in DOMAIN grown /\ grown[o] = obs[o]

StartOf(path, c, obs) == IF path.root THEN 0 ELSE obs[c].node
PathSet(path, c, obs) == XP!Sets(path.steps, StartOf(path, c, obs))[Len(path.steps)]

(* The value v of an argument.                                              *)
ValueOf(arg, v, c, obs, m) ==
  IF arg.t = "path" THEN /\ v.t = "nodes" /\ v.v \in Seq(DOMAIN obs)
                         /\ ~m => NodesOf(obs, v.v) = PathSet(arg, c, obs)
  ELSE v = arg

Evaluated(e, c, obs, m, n, vals) ==
  /\ \E T : vals \in Seq(T)
  /\ Len(vals) = n - 1
  /\ \A i \in 1..(n - 1) : ValueOf(e.args[i], vals[i], c, obs, m)

InPath(path, from, obs, l, q, m, s, d) ==
  /\ s \in 1..(Len(path.steps) + 1) /\ d \in Nat
  /\ d # 0 => s \in DOMAIN path.steps /\ d <= Len(path.steps[s].preds) + 1
  /\ q # <<>> => d # 0 /\ IsDeepStep(path.steps[s])
  /\ ~m => Led(obs, l, q, path, from, s, d)

Going(e, c, obs, l, q, m, p, vals) ==
  /\ l \in Seq(DOMAIN obs) /\ q \in Seq(DOMAIN obs)
  /\ p \in [arg : Nat, step : Nat, pred : Nat] /\ p.arg \in 1..(ArgsOf(e) + 1)
  /\ Evaluated(e, c, obs, m, p.arg, vals)
  /\ IF p.step = 0 THEN q = <<>>
     ELSE /\ p.arg \in DOMAIN e.args /\ IsPath(e.args[p.arg])
          /\ InPath(e.args[p.arg], StartOf(e.args[p.arg], c, obs), obs, l, q, m, p.step, p.pred)

EvalInv ==
  /\ XP!ExprOK /\ ObjsOK(objs) /\ context \in DOMAIN objs /\ merged \in BOOLEAN
  /\ result = "none" => Going(expr, context, objs, list, queue, merged, position, operands)
  /\ XP!EvaluatesRight

LEMMA StartKept ==
  ASSUME NEW obs, NEW grown, Extends(obs, grown), NEW c \in DOMAIN obs, NEW path
  PROVE  StartOf(path, c, grown) = StartOf(path, c, obs)
BY DEF StartOf, Extends

LEMMA ValueKept ==
  ASSUME NEW obs, NEW grown, Extends(obs, grown), NEW c \in DOMAIN obs, NEW arg, NEW v, NEW m, NEW mm,
         ~mm => ~m, ValueOf(arg, v, c, obs, m)
  PROVE  ValueOf(arg, v, c, grown, mm)
<1>1. CASE arg.t = "path"
  <2>1. v.t = "nodes" /\ v.v \in Seq(DOMAIN obs) /\ (~m => NodesOf(obs, v.v) = PathSet(arg, c, obs))
    BY <1>1 DEF ValueOf
  <2>2. PathSet(arg, c, grown) = PathSet(arg, c, obs)
    BY StartKept DEF PathSet
  <2>3. v.v \in Seq(DOMAIN grown) /\ NodesOf(grown, v.v) = NodesOf(obs, v.v)
    BY <2>1, NodesKept DEF Extends
  <2> QED BY <1>1, <2>1, <2>2, <2>3 DEF ValueOf
<1>2. CASE arg.t # "path"
  BY <1>2 DEF ValueOf
<1> QED BY <1>1, <1>2

LEMMA EvaluatedKept ==
  ASSUME NEW obs, NEW grown, Extends(obs, grown), NEW c \in DOMAIN obs, NEW e, NEW m, NEW mm,
         ~mm => ~m, NEW n, NEW vals, Evaluated(e, c, obs, m, n, vals)
  PROVE  Evaluated(e, c, grown, mm, n, vals)
BY ValueKept DEF Evaluated

LEMMA EvaluatedMore ==
  ASSUME NEW e, NEW c, NEW obs, NEW m, NEW n \in Nat \ {0}, NEW vals, Evaluated(e, c, obs, m, n, vals),
         NEW v, ValueOf(e.args[n], v, c, obs, m)
  PROVE  Evaluated(e, c, obs, m, n + 1, Append(vals, v))
<1>1. PICK T : vals \in Seq(T)
  BY DEF Evaluated
<1>2. vals \in Seq(T \cup {v}) /\ v \in T \cup {v}
  BY <1>1
<1>3. /\ Append(vals, v) \in Seq(T \cup {v}) /\ Len(vals) = n - 1 /\ Len(Append(vals, v)) = Len(vals) + 1
      /\ Append(vals, v)[Len(vals) + 1] = v /\ \A i \in 1..Len(vals) : Append(vals, v)[i] = vals[i]
  BY <1>2, RangeOfAppend DEF Evaluated
<1>4. (n - 1) + 1 = n /\ (n + 1) - 1 = n /\ \A i \in 1..n : i \in 1..(n - 1) \/ i = n
  OBVIOUS
<1>5. \A i \in 1..n : ValueOf(e.args[i], Append(vals, v)[i], c, obs, m)
  <2> SUFFICES ASSUME NEW i \in 1..n PROVE ValueOf(e.args[i], Append(vals, v)[i], c, obs, m)
    OBVIOUS
  <2>1. CASE i = n
    BY <1>3, <1>4, <2>1
  <2>2. CASE i \in 1..(n - 1)
    <3>1. Append(vals, v)[i] = vals[i]
      BY <1>3, <2>2
    <3>2. ValueOf(e.args[i], vals[i], c, obs, m)
      BY <2>2 DEF Evaluated
    <3> QED BY <3>1, <3>2
  <2> QED BY <1>4, <2>1, <2>2
<1> QED BY <1>3, <1>4, <1>5 DEF Evaluated

LEMMA ArgumentsAre ==
  ASSUME XP!ExprOK
  PROVE  /\ DOMAIN expr.args = 1..ArgsOf(expr) /\ ArgsOf(expr) \in {1, 2} /\ Len(expr.args) = ArgsOf(expr)
         /\ \A i \in DOMAIN expr.args : XP!ArgOK(expr.args[i])
<1>1. expr.args \in Seq(XP!Range(expr.args)) /\ Len(expr.args) = ArgsOf(expr) /\ ArgsOf(expr) \in {1, 2}
  BY DEF XP!ExprOK, ArgsOf
<1>2. DOMAIN expr.args = 1..ArgsOf(expr)
  BY <1>1
<1> QED BY <1>1, <1>2 DEF XP!ExprOK

LEMMA ExprKept == ASSUME XP!ExprOK, UNCHANGED expr PROVE XP!ExprOK'
BY DEF XP!ExprOK

(* While there is no result nothing is claimed of it.                       *)
LEMMA NoResult == ASSUME result = "none" PROVE XP!EvaluatesRight
BY DEF XP!EvaluatesRight


(* In a path, for arguments that are rigid.                                 *)
InPathNow == /\ IsPath(XP!Arg) /\ position.arg \in DOMAIN expr.args
             /\ StartOf(XP!Arg, context, objs) \in XP!Nodes
             /\ position \in [arg : Nat, step : Nat, pred : Nat]
             /\ list \in Seq(DOMAIN objs) /\ queue \in Seq(DOMAIN objs)
             /\ InPath(XP!Arg, StartOf(XP!Arg, context, objs), objs, list, queue, merged,
                       position.step, position.pred)

LEMMA PathNow == ASSUME EvalInv, result = "none", position.step # 0 PROVE InPathNow
<1>1. Going(expr, context, objs, list, queue, merged, position, operands)
  BY DEF EvalInv
<1>2. /\ IsPath(XP!Arg) /\ position.arg \in DOMAIN expr.args
      /\ position \in [arg : Nat, step : Nat, pred : Nat]
      /\ list \in Seq(DOMAIN objs) /\ queue \in Seq(DOMAIN objs)
      /\ InPath(XP!Arg, StartOf(XP!Arg, context, objs), objs, list, queue, merged,
                position.step, position.pred)
  BY <1>1 DEF Going, XP!Arg
<1>3. objs[context] \in XNodes /\ 0 \in XP!Nodes
  BY NodesAre DEF EvalInv, ObjsOK
<1>4. StartOf(XP!Arg, context, objs) \in XP!Nodes
  BY <1>3 DEF StartOf, XNodes
<1> QED BY <1>2, <1>4 DEF InPathNow

(* The path goes on: what a step has to show for it.                        *)
LEMMA PathGoesOn ==
  ASSUME EvalInv, result = "none", position.step # 0,
         UNCHANGED <<expr, context, operands>>, ObjsOK(objs'), Extends(objs, objs'),
         merged' \in BOOLEAN, ~merged' => ~merged,
         list' \in Seq(DOMAIN objs'), queue' \in Seq(DOMAIN objs'),
         result' = "none",
         position' \in [arg : Nat, step : Nat, pred : Nat], position'.arg = position.arg,
         position'.step # 0,
         InPath(XP!Arg, StartOf(XP!Arg, context, objs), objs', list', queue', merged',
                position'.step, position'.pred)
  PROVE  EvalInv'
<1>1. Going(expr, context, objs, list, queue, merged, position, operands)
  BY DEF EvalInv
<1>2. context \in DOMAIN objs
  BY DEF EvalInv
<1>3. StartOf(XP!Arg, context, objs') = StartOf(XP!Arg, context, objs)
  BY <1>2, StartKept
<1>4. Evaluated(expr, context, objs, merged, position.arg, operands)
  BY <1>1 DEF Going
<1>5. Evaluated(expr, context, objs', merged', position.arg, operands)
  BY <1>2, <1>4, EvaluatedKept
<1>6. Going(expr, context, objs', list', queue', merged', position', operands)
  BY <1>1, <1>3, <1>5 DEF Going, XP!Arg
<1>7. XP!ExprOK' /\ context' \in DOMAIN objs'
  BY <1>2, ExprKept DEF EvalInv, Extends
<1>8. XP!EvaluatesRight'
  BY DEF XP!EvaluatesRight
<1> QED BY <1>6, <1>7, <1>8 DEF EvalInv

(* What every step on an axis finds.                                        *)
LEMMA OnAxisFinds ==
  ASSUME EvalInv, NEW axis, XP!OnAxis(axis)
  PROVE  /\ InPathNow /\ result = "none" /\ position.step # 0
         /\ position.step \in DOMAIN XP!Arg.steps /\ XP!Arg.steps[position.step].axis = axis
         /\ queue = <<>>
         /\ merged' \in BOOLEAN /\ (~merged' => ~merged)
         /\ ~merged' => /\ Led(objs, list, queue, XP!Arg, StartOf(XP!Arg, context, objs), position.step, 0)
                        /\ HasPositions(XP!Arg.steps[position.step]) => ~(Len(list) > 1)
         /\ position' = [position EXCEPT !.pred = 1]
<1>1. result = "none" /\ position.step # 0 /\ position.pred = 0 /\ position.step \in DOMAIN XP!Arg.steps
  <2>1. result = "none" /\ position.step > 0 /\ position.pred = 0 /\ position.step \in DOMAIN XP!Arg.steps
    BY DEF XP!OnAxis
  <2>2. position.step \in Nat
    BY <2>1 DEF EvalInv, Going
  <2> QED BY <2>1, <2>2
<1>2. InPathNow
  BY <1>1, PathNow
<1>3. XP!Arg.steps[position.step].axis = axis /\ position' = [position EXCEPT !.pred = 1]
  BY DEF XP!OnAxis, XP!Step
<1>4. merged' = (merged \/ (Len(list) > 1 /\ HasPositions(XP!Arg.steps[position.step])))
  BY DEF XP!OnAxis, XP!Step, HasPositions
<1>5. merged \in BOOLEAN
  BY DEF EvalInv
<1>6. queue = <<>> /\ (~merged => Led(objs, list, queue, XP!Arg, StartOf(XP!Arg, context, objs), position.step, 0))
  BY <1>1, <1>2 DEF InPathNow, InPath
<1> QED BY <1>1, <1>2, <1>3, <1>4, <1>5, <1>6

LEMMA OnAxisKeeps ==
  ASSUME EvalInv, NEW axis, XP!OnAxis(axis), ObjsOK(objs'), Extends(objs, objs'),
         list' \in Seq(DOMAIN objs'), queue' \in Seq(DOMAIN objs'),
         queue' # <<>> => axis = "descendant-or-self",
         ~merged' => Led(objs', list', queue', XP!Arg, StartOf(XP!Arg, context, objs), position.step, 1)
  PROVE  EvalInv'
<1>1. /\ InPathNow /\ result = "none" /\ position.step # 0
      /\ position.step \in DOMAIN XP!Arg.steps /\ XP!Arg.steps[position.step].axis = axis
      /\ merged' \in BOOLEAN /\ (~merged' => ~merged)
      /\ position' = [position EXCEPT !.pred = 1]
  BY OnAxisFinds
<1>2. UNCHANGED <<expr, context, operands, result>>
  BY DEF XP!OnAxis
<1>3. /\ position' \in [arg : Nat, step : Nat, pred : Nat]
      /\ position'.arg = position.arg /\ position'.step = position.step /\ position'.pred = 1
  BY <1>1 DEF InPathNow
<1>4. InPath(XP!Arg, StartOf(XP!Arg, context, objs), objs', list', queue', merged', position.step, 1)
  <2>1. position.step \in 1..(Len(XP!Arg.steps) + 1)
    BY <1>1 DEF InPathNow, InPath
  <2>2. 1 <= Len(XP!Arg.steps[position.step].preds) + 1
    <3>1. XP!StepOK(XP!Arg.steps[position.step])
      BY <1>1, PathIs DEF InPathNow
    <3>2. PICK preds : preds = XP!Arg.steps[position.step].preds
      OBVIOUS
    <3>3. preds \in Seq(XP!Range(preds))
      BY <3>1, <3>2 DEF XP!StepOK
    <3>4. Len(preds) \in Nat
      BY <3>3
    <3> QED BY <3>2, <3>4
  <2> QED BY <1>1, <2>1, <2>2 DEF InPath, IsDeepStep
<1> QED BY <1>1, <1>2, <1>3, <1>4, PathGoesOn

LEMMA ChildKeeps == ASSUME EvalInv, XP!Child PROVE EvalInv'
<1> DEFINE new == MadeBelow(objs, list, XP!Arg.steps[position.step].test)
<1>1. /\ XP!OnAxis("child") /\ objs' = objs \o new /\ list' = XP!Numbers(Len(objs), Len(new))
      /\ queue' = queue
  BY DEF XP!Child, MadeBelow, NodesNamed, XP!Step, XP!Node
<1>2. /\ InPathNow /\ result = "none" /\ position.step # 0
      /\ position.step \in DOMAIN XP!Arg.steps /\ XP!Arg.steps[position.step].axis = "child"
      /\ queue = <<>>
      /\ ~merged' => /\ Led(objs, list, queue, XP!Arg, StartOf(XP!Arg, context, objs), position.step, 0)
                     /\ HasPositions(XP!Arg.steps[position.step]) => ~(Len(list) > 1)
  BY <1>1, OnAxisFinds
<1>3. ObjsOK(objs) /\ list \in Seq(DOMAIN objs)
  BY <1>2 DEF EvalInv, InPathNow
<1>4. IsMade(new, objs, list, XP!Arg.steps[position.step].test)
  BY <1>3, MadeAre
<1> HIDE DEF new
<1>5. GrownBy(objs', list', objs, new)
  BY <1>1, <1>3, <1>4, GrownIs
<1>6. PICK obs, l, obj, at1, q, made, path, from, s : /\ obs = objs /\ l = list /\ obj = objs' /\ at1 = list' /\ q = queue
        /\ made = new /\ path = XP!Arg /\ from = StartOf(XP!Arg, context, objs) /\ s = position.step
  OBVIOUS
<1>7. ASSUME ~merged' PROVE Led(objs', list', queue', XP!Arg, StartOf(XP!Arg, context, objs), position.step, 1)
  <2>1. /\ IsPath(path) /\ from \in XP!Nodes /\ s \in DOMAIN path.steps /\ path.steps[s].axis = "child"
        /\ Led(obs, l, q, path, from, s, 0)
        /\ HasPositions(path.steps[s]) => ~(Len(l) > 1)
    BY <1>2, <1>6, <1>7 DEF InPathNow
  <2>2. ObjsOK(obs) /\ l \in Seq(DOMAIN obs) /\ IsMade(made, obs, l, path.steps[s].test)
    BY <1>3, <1>4, <1>6
  <2>3. GrownBy(obj, at1, obs, made)
    BY <1>5, <1>6
  <2>4. Led(obj, at1, q, path, from, s, 1)
    BY <2>1, <2>2, <2>3, ChildLeads DEF GrownBy
  <2> QED BY <1>1, <1>6, <2>4
<1>8. /\ Extends(objs, objs') /\ queue' \in Seq(DOMAIN objs') /\ ObjsOK(objs')
      /\ list' \in Seq(DOMAIN objs') /\ queue' = <<>>
  BY <1>1, <1>2, <1>5 DEF Extends, GrownBy
<1> QED BY <1>1, <1>7, <1>8, OnAxisKeeps

(* One _XNode for each child.                                               *)
LEMMA ChildrenMade ==
  ASSUME NEW o, NEW n
  PROVE  Len(XP!Made(o, XP!ChildrenOf(n))) = Len(XP!ChildrenOf(n))
<1>1. XP!ChildrenOf(n) = NodesNamed(n, "*")
  BY DEF XP!ChildrenOf, NodesNamed, XP!NamedAs
<1>2. PICK c : c = XP!ChildrenOf(n)
  OBVIOUS
<1>3. c \in Seq(XP!Nodes)
  BY <1>1, <1>2, NamedAre
<1>4. PICK k \in Nat : DOMAIN c = 1..k /\ Len(c) = k
  BY <1>3
<1>5. XP!Made(o, c) = [i \in 1..k |-> [node |-> c[i], parent |-> o]]
  BY <1>4 DEF XP!Made
<1>6. Len(XP!Made(o, c)) = k
  BY <1>4, <1>5
<1> QED BY <1>2, <1>4, <1>6

LEMMA ExtendsItself == \A obs : Extends(obs, obs)
BY DEF Extends

LEMMA ParentKeeps == ASSUME EvalInv, XP!Parent PROVE EvalInv'
<1>1. XP!OnAxis("parent") /\ list' = ParentsOf(objs, list) /\ objs' = objs /\ queue' = queue
  BY DEF XP!Parent, XP!Parents, ParentsOf
<1>2. /\ InPathNow /\ result = "none" /\ position.step # 0
      /\ position.step \in DOMAIN XP!Arg.steps /\ XP!Arg.steps[position.step].axis = "parent"
      /\ queue = <<>>
      /\ ~merged' => /\ Led(objs, list, queue, XP!Arg, StartOf(XP!Arg, context, objs), position.step, 0)
                     /\ HasPositions(XP!Arg.steps[position.step]) => ~(Len(list) > 1)
  BY <1>1, OnAxisFinds
<1>3. ObjsOK(objs) /\ list \in Seq(DOMAIN objs)
  BY <1>2 DEF EvalInv, InPathNow
<1>4. AreParents(list', objs, list)
  BY <1>1, <1>3, ParentsAre
<1>5. PICK obs, l, ps, q, path, from, s :
        /\ obs = objs /\ l = list /\ ps = list' /\ q = queue
        /\ path = XP!Arg /\ from = StartOf(XP!Arg, context, objs) /\ s = position.step
  OBVIOUS
<1>6. ASSUME ~merged' PROVE Led(objs', list', queue', XP!Arg, StartOf(XP!Arg, context, objs), position.step, 1)
  <2>1. /\ IsPath(path) /\ from \in XP!Nodes /\ s \in DOMAIN path.steps /\ path.steps[s].axis = "parent"
        /\ Led(obs, l, q, path, from, s, 0)
        /\ HasPositions(path.steps[s]) => ~(Len(l) > 1)
    BY <1>2, <1>5, <1>6 DEF InPathNow
  <2>2. ObjsOK(obs) /\ l \in Seq(DOMAIN obs) /\ AreParents(ps, obs, l)
    BY <1>3, <1>4, <1>5
  <2>3. Led(obs, ps, q, path, from, s, 1)
    BY <2>1, <2>2, ParentLeads
  <2> QED BY <1>1, <1>5, <2>3
<1>7. /\ Extends(objs, objs') /\ queue' \in Seq(DOMAIN objs') /\ ObjsOK(objs')
      /\ list' \in Seq(DOMAIN objs') /\ queue' = <<>>
  BY <1>1, <1>2, <1>3, <1>4, ExtendsItself DEF AreParents
<1> QED BY <1>1, <1>6, <1>7, OnAxisKeeps

LEMMA SelfKeeps == ASSUME EvalInv, XP!Self PROVE EvalInv'
<1>1. XP!OnAxis("self") /\ list' = list /\ objs' = objs /\ queue' = queue
  BY DEF XP!Self
<1>2. /\ InPathNow /\ position.step \in DOMAIN XP!Arg.steps /\ XP!Arg.steps[position.step].axis = "self"
      /\ queue = <<>>
      /\ ~merged' => /\ Led(objs, list, queue, XP!Arg, StartOf(XP!Arg, context, objs), position.step, 0)
                     /\ HasPositions(XP!Arg.steps[position.step]) => ~(Len(list) > 1)
  BY <1>1, OnAxisFinds
<1>3. ObjsOK(objs) /\ list \in Seq(DOMAIN objs) /\ queue \in Seq(DOMAIN objs)
  BY <1>2 DEF EvalInv, InPathNow
<1>4. ~merged' => Led(objs', list', queue', XP!Arg, StartOf(XP!Arg, context, objs), position.step, 1)
  BY <1>1, <1>2, <1>3, SelfLeads DEF InPathNow
<1> QED BY <1>1, <1>2, <1>3, <1>4, ExtendsItself, OnAxisKeeps

LEMMA DescendantOrSelfKeeps == ASSUME EvalInv, XP!DescendantOrSelf PROVE EvalInv'
<1>1. XP!OnAxis("descendant-or-self") /\ list' = <<>> /\ objs' = objs /\ queue' = list
  BY DEF XP!DescendantOrSelf
<1>2. /\ InPathNow /\ IsDeepStep(XP!Arg.steps[position.step])
      /\ ~merged' => Led(objs, list, queue, XP!Arg, StartOf(XP!Arg, context, objs), position.step, 0)
  BY <1>1, OnAxisFinds DEF IsDeepStep
<1>3. ObjsOK(objs) /\ list \in Seq(DOMAIN objs) /\ <<>> \in Seq(DOMAIN objs)
  BY <1>2 DEF EvalInv, InPathNow
<1>4. ~merged' => Led(objs', list', queue', XP!Arg, StartOf(XP!Arg, context, objs), position.step, 1)
  BY <1>1, <1>2, DeepLeads
<1> QED BY <1>1, <1>3, <1>4, ExtendsItself, OnAxisKeeps

LEMMA PopBelowKeeps == ASSUME EvalInv, XP!PopBelow PROVE EvalInv'
<1>1. result = "none" /\ queue # <<>> /\ UNCHANGED <<expr, context, position, merged, operands, result>>
  BY DEF XP!PopBelow
<1>2. position.step # 0
  BY <1>1 DEF EvalInv, Going
<1>3. InPathNow
  BY <1>1, <1>2, PathNow
<1>4. PICK obs, l, q, path, from, s, d, m :
        /\ obs = objs /\ l = list /\ q = queue /\ m = merged
        /\ path = XP!Arg /\ from = StartOf(XP!Arg, context, objs) /\ s = position.step /\ d = position.pred
  OBVIOUS
<1>5. /\ l \in Seq(DOMAIN obs) /\ q \in Seq(DOMAIN obs) /\ q # <<>> /\ ObjsOK(obs)
      /\ InPath(path, from, obs, l, q, m, s, d)
  BY <1>1, <1>3, <1>4 DEF InPathNow, EvalInv
<1>6. d # 0 /\ IsDeepStep(path.steps[s]) /\ (~m => Led(obs, l, q, path, from, s, d))
  BY <1>5 DEF InPath
<1>7. /\ ObjsOK(objs') /\ Extends(objs, objs')
      /\ list' \in Seq(DOMAIN objs') /\ queue' \in Seq(DOMAIN objs')
      /\ ~m => Led(objs', list', queue', path, from, s, d)
  <2>1. CASE Head(q) \in XP!Range(l)
    <3>1. list' = l /\ objs' = obs /\ queue' = Tail(q)
      BY <1>4, <2>1 DEF XP!PopBelow
    <3>2. \E i \in DOMAIN l : l[i] = Head(q)
      BY <2>1 DEF XP!Range
    <3>3. Tail(q) \in Seq(DOMAIN obs) /\ (~m => Led(obs, l, Tail(q), path, from, s, d))
      BY <1>5, <1>6, <3>2, PassLeads, NodesOfTail
    <3> QED BY <1>4, <1>5, <3>1, <3>3, ExtendsItself
  <2>2. CASE Head(q) \notin XP!Range(l)
    <3>1. PICK made : made = XP!Made(Head(q), XP!ChildrenOf(obs[Head(q)].node))
      OBVIOUS
    <3>2. /\ list' = Append(l, Head(q))
          /\ queue' = Tail(q) \o XP!Numbers(Len(obs), Len(made))
          /\ objs' = obs \o made
      <4>1. Len(made) = Len(XP!ChildrenOf(obs[Head(q)].node))
        BY <3>1, ChildrenMade, <1>5, NodesOfTail
      <4> QED BY <1>4, <2>2, <3>1, <4>1 DEF XP!PopBelow, XP!Node
    <3>3. Head(q) \in DOMAIN obs
      BY <1>5, NodesOfTail
    <3>4. made = MadeBelow(obs, <<Head(q)>>, "*")
      BY <1>5, <3>1, <3>3, MadeOfOne
    <3>5. PICK one : one = <<Head(q)>>
      OBVIOUS
    <3>6. one \in Seq(DOMAIN obs)
      BY <3>3, <3>5
    <3>7. IsMade(made, obs, one, "*")
      BY <1>5, <3>4, <3>5, <3>6, MadeAre
    <3>8. PICK grown, added : grown = obs \o made /\ added = XP!Numbers(Len(obs), Len(made))
      OBVIOUS
    <3>9. GrownBy(grown, added, obs, made)
      BY <1>5, <3>6, <3>7, <3>8, GrownIs
    <3>10. /\ Append(l, Head(q)) \in Seq(DOMAIN grown) /\ Tail(q) \o added \in Seq(DOMAIN grown)
           /\ ~m => Led(grown, Append(l, Head(q)), Tail(q) \o added, path, from, s, d)
      BY <1>5, <1>6, <3>5, <3>7, <3>9, MoreLeads DEF GrownBy
    <3> QED BY <1>4, <3>2, <3>8, <3>9, <3>10 DEF GrownBy, Extends
  <2> QED BY <2>1, <2>2
<1>8. InPath(path, from, objs', list', queue', m, s, d)
  BY <1>5, <1>6, <1>7 DEF InPath
<1> QED BY <1>1, <1>2, <1>3, <1>4, <1>7, <1>8, PathGoesOn DEF InPathNow, EvalInv

LEMMA FilterKeeps == ASSUME EvalInv, XP!Filter PROVE EvalInv'
<1>1. /\ result = "none" /\ queue = <<>> /\ position.step > 0
      /\ UNCHANGED <<expr, context, objs, queue, merged, operands>>
  BY DEF XP!Filter
<1>2. position.step # 0
  <2>1. position.step \in Nat
    BY <1>1 DEF EvalInv, Going
  <2> QED BY <1>1, <2>1
<1>3. InPathNow
  BY <1>1, <1>2, PathNow
<1>4. PICK obs, l, path, from, s, d, m, pr :
        /\ obs = objs /\ l = list /\ m = merged
        /\ path = XP!Arg /\ from = StartOf(XP!Arg, context, objs) /\ s = position.step /\ d = position.pred
        /\ pr = path.steps[s].preds[d]
  OBVIOUS
<1>5. /\ l \in Seq(DOMAIN obs) /\ ObjsOK(obs) /\ IsPath(path) /\ from \in XP!Nodes
      /\ s \in DOMAIN path.steps /\ d \in DOMAIN path.steps[s].preds
      /\ InPath(path, from, obs, l, <<>>, m, s, d)
  BY <1>1, <1>3, <1>4 DEF InPathNow, EvalInv, XP!Filter, XP!Step
<1>6. CASE \E i \in DOMAIN list : XP!NotEvaluated(pr, XP!Node(list[i]))
  <2>1. result' = "unsupported" /\ UNCHANGED <<list, position>>
    BY <1>4, <1>6 DEF XP!Filter, XP!Step
  <2>2. XP!EvaluatesRight'
    BY <2>1 DEF XP!EvaluatesRight
  <2> QED BY <1>1, <2>1, <2>2, ExprKept DEF EvalInv
<1>7. CASE ~\E i \in DOMAIN list : XP!NotEvaluated(pr, XP!Node(list[i]))
  <2>1. PICK K : K = {i \in DOMAIN l : XP!Keeps(pr, i, obs[l[i]].node, Len(l))}
    OBVIOUS
  <2>2. /\ list' = XP!Picked(l, K) /\ position' = [position EXCEPT !.pred = @ + 1] /\ result' = "none"
    BY <1>1, <1>4, <1>7, <2>1 DEF XP!Filter, XP!Step, XP!Node
  <2>3. K \subseteq 1..Len(l)
    BY <1>5, <2>1
  <2>4. PICK kept : kept = XP!Picked(l, K)
    OBVIOUS
  <2>5. kept \in Seq(DOMAIN obs) /\ \E w : PickedBy(kept, w, l, K)
    BY <1>5, <2>3, <2>4, PickedIs
  <2>6. PICK w : PickedBy(kept, w, l, K)
    BY <2>5
  <2>7. ~m => Led(obs, kept, <<>>, path, from, s, d + 1)
    <3> SUFFICES ASSUME ~m PROVE Led(obs, kept, <<>>, path, from, s, d + 1)
      OBVIOUS
    <3>1. Led(obs, l, <<>>, path, from, s, d)
      BY <1>5 DEF InPath
    <3>2. \A i \in DOMAIN l : ~XP!NotEvaluated(pr, obs[l[i]].node)
      BY <1>4, <1>7 DEF XP!Node
    <3> QED BY <1>4, <1>5, <2>1, <2>6, <3>1, <3>2, FilterLeads
  <2>8. d \in Nat /\ d + 1 \in Nat /\ d + 1 # 0 /\ d + 1 <= Len(path.steps[s].preds) + 1
    <3>1. XP!StepOK(path.steps[s])
      BY <1>5, PathIs
    <3>2. PICK preds : preds = path.steps[s].preds
      OBVIOUS
    <3>3. preds \in Seq(XP!Range(preds))
      BY <3>1, <3>2 DEF XP!StepOK
    <3>4. Len(preds) \in Nat /\ d \in 1..Len(preds)
      BY <1>5, <3>2, <3>3
    <3> QED BY <3>2, <3>4
  <2>9. InPath(path, from, obs, kept, <<>>, m, s, d + 1)
    BY <1>5, <2>7, <2>8 DEF InPath
  <2>10. /\ position' \in [arg : Nat, step : Nat, pred : Nat] /\ position'.arg = position.arg
         /\ position'.step = s /\ position'.pred = d + 1
    BY <1>3, <1>4, <2>2, <2>8 DEF InPathNow
  <2>11. merged' \in BOOLEAN /\ objs' = obs /\ ObjsOK(objs') /\ Extends(objs, objs') /\ merged' = m
    BY <1>1, <1>4, <1>5, ExtendsItself DEF EvalInv
  <2>12. list' \in Seq(DOMAIN objs') /\ queue' \in Seq(DOMAIN objs') /\ list' = kept /\ queue' = <<>>
    BY <1>1, <2>2, <2>4, <2>5, <2>11
  <2> QED BY <1>1, <1>2, <1>4, <2>2, <2>9, <2>10, <2>11, <2>12, PathGoesOn
<1> QED BY <1>6, <1>7

LEMMA NextStepKeeps == ASSUME EvalInv, XP!NextStep PROVE EvalInv'
<1>1. /\ result = "none" /\ queue = <<>> /\ position.step > 0
      /\ UNCHANGED <<expr, context, objs, list, queue, merged, operands, result>>
      /\ position' = [position EXCEPT !.step = @ + 1, !.pred = 0]
  BY DEF XP!NextStep
<1>2. position.step # 0
  <2>1. position.step \in Nat
    BY <1>1 DEF EvalInv, Going
  <2> QED BY <1>1, <2>1
<1>3. InPathNow
  BY <1>1, <1>2, PathNow
<1>4. PICK obs, l, path, from, s, d, m :
        /\ obs = objs /\ l = list /\ m = merged
        /\ path = XP!Arg /\ from = StartOf(XP!Arg, context, objs) /\ s = position.step /\ d = position.pred
  OBVIOUS
<1>5. /\ l \in Seq(DOMAIN obs) /\ ObjsOK(obs) /\ IsPath(path) /\ from \in XP!Nodes
      /\ s \in DOMAIN path.steps /\ d > Len(path.steps[s].preds)
      /\ InPath(path, from, obs, l, <<>>, m, s, d)
  BY <1>1, <1>3, <1>4 DEF InPathNow, EvalInv, XP!NextStep, XP!Step
<1>6. d \in Nat /\ d = Len(path.steps[s].preds) + 1
  <2>1. XP!StepOK(path.steps[s])
    BY <1>5, PathIs
  <2>2. PICK preds : preds = path.steps[s].preds
    OBVIOUS
  <2>3. preds \in Seq(XP!Range(preds))
    BY <2>1, <2>2 DEF XP!StepOK
  <2>4. Len(preds) \in Nat
    BY <2>3
  <2>5. d \in Nat /\ d <= Len(preds) + 1 /\ d > Len(preds)
    <3>1. d # 0 => d <= Len(preds) + 1
      BY <1>5, <2>2 DEF InPath
    <3>2. d \in Nat /\ d > Len(preds)
      BY <1>5, <2>2 DEF InPath
    <3> QED BY <2>4, <3>1, <3>2
  <2> QED BY <2>2, <2>4, <2>5
<1>7. ~m => Led(obs, l, <<>>, path, from, s + 1, 0)
  BY <1>5, <1>6, NextLeads DEF InPath
<1>8. InPath(path, from, obs, l, <<>>, m, s + 1, 0)
  <2>1. s \in 1..Len(path.steps) /\ Len(path.steps) \in Nat
    BY <1>5, PathIs
  <2>2. s + 1 \in 1..(Len(path.steps) + 1)
    BY <2>1
  <2> QED BY <1>7, <2>2 DEF InPath
<1>9. /\ position' \in [arg : Nat, step : Nat, pred : Nat] /\ position'.arg = position.arg
      /\ position'.step = s + 1 /\ position'.pred = 0 /\ position'.step # 0
  <2>1. s \in Nat /\ s + 1 # 0 /\ s + 1 \in Nat
    BY <1>3, <1>4 DEF InPathNow
  <2> QED BY <1>1, <1>3, <1>4, <2>1 DEF InPathNow
<1>10. merged' \in BOOLEAN /\ objs' = obs /\ ObjsOK(objs') /\ Extends(objs, objs') /\ merged' = m
  BY <1>1, <1>4, <1>5, ExtendsItself DEF EvalInv
<1>11. list' \in Seq(DOMAIN objs') /\ queue' \in Seq(DOMAIN objs') /\ list' = l /\ queue' = <<>>
  BY <1>1, <1>4, <1>5, <1>10
<1> QED BY <1>1, <1>2, <1>4, <1>8, <1>9, <1>10, <1>11, PathGoesOn

(* An argument has its value.                                               *)
LEMMA NextArgument ==
  ASSUME EvalInv, result = "none", position.arg \in DOMAIN expr.args,
         UNCHANGED <<expr, context, objs, queue, merged, result>>, queue = <<>>,
         list' \in Seq(DOMAIN objs),
         NEW v, operands' = Append(operands, v),
         ValueOf(expr.args[position.arg], v, context, objs, merged),
         position'.arg = position.arg + 1, position'.step = 0,
         position' \in [arg : Nat, step : Nat, pred : Nat]
  PROVE  EvalInv'
<1>1. Going(expr, context, objs, list, queue, merged, position, operands)
  BY DEF EvalInv
<1>2. position.arg \in 1..ArgsOf(expr) /\ ArgsOf(expr) \in Nat
  BY ArgumentsAre DEF EvalInv
<1>3. PICK n : n = position.arg
  OBVIOUS
<1>4. n \in Nat \ {0} /\ n + 1 \in 1..(ArgsOf(expr) + 1)
  BY <1>2, <1>3
<1>5. Evaluated(expr, context, objs, merged, n, operands)
  BY <1>1, <1>3 DEF Going
<1>6. Evaluated(expr, context, objs, merged, n + 1, operands')
  BY <1>3, <1>4, <1>5, EvaluatedMore
<1>7. Going(expr, context, objs, list', queue, merged, position', operands')
  BY <1>1, <1>3, <1>4, <1>6 DEF Going
<1>8. XP!EvaluatesRight'
  BY DEF XP!EvaluatesRight
<1> QED BY <1>7, <1>8, ExprKept DEF EvalInv

LEMMA EndPathKeeps == ASSUME EvalInv, XP!EndPath PROVE EvalInv'
<1>1. /\ result = "none" /\ position.step > 0 /\ position.step > Len(XP!Arg.steps)
      /\ operands' = Append(operands, [t |-> "nodes", v |-> list])
      /\ position' = [arg |-> position.arg + 1, step |-> 0, pred |-> 0]
      /\ UNCHANGED <<expr, context, objs, list, queue, merged, result>>
  BY DEF XP!EndPath
<1>2. position.step # 0
  <2>1. position.step \in Nat
    BY <1>1 DEF EvalInv, Going
  <2> QED BY <1>1, <2>1
<1>3. InPathNow
  BY <1>1, <1>2, PathNow
<1>4. /\ IsPath(XP!Arg) /\ position.arg \in DOMAIN expr.args /\ list \in Seq(DOMAIN objs)
      /\ position \in [arg : Nat, step : Nat, pred : Nat]
      /\ InPath(XP!Arg, StartOf(XP!Arg, context, objs), objs, list, queue, merged,
                position.step, position.pred)
  BY <1>3 DEF InPathNow
<1>5. /\ position.step = Len(XP!Arg.steps) + 1 /\ position.step \notin DOMAIN XP!Arg.steps
      /\ position.step - 1 = Len(XP!Arg.steps)
  <2>1. Len(XP!Arg.steps) \in Nat /\ DOMAIN XP!Arg.steps = 1..Len(XP!Arg.steps)
    BY <1>4, PathIs
  <2>2. position.step \in 1..(Len(XP!Arg.steps) + 1)
    BY <1>4 DEF InPath
  <2> QED BY <1>1, <2>1, <2>2
<1>6. position.pred = 0 /\ queue = <<>>
  BY <1>4, <1>5 DEF InPath
<1>7. ~merged => NodesOf(objs, list) = PathSet(XP!Arg, context, objs)
  BY <1>4, <1>5, <1>6 DEF InPath, Led, PathSet
<1>8. PICK v : v = [t |-> "nodes", v |-> list]
  OBVIOUS
<1>9. ValueOf(expr.args[position.arg], v, context, objs, merged)
  BY <1>4, <1>7, <1>8 DEF ValueOf, IsPath, XP!Arg
<1>10. position' \in [arg : Nat, step : Nat, pred : Nat]
  BY <1>1, <1>4
<1> QED BY <1>1, <1>4, <1>6, <1>8, <1>9, <1>10, NextArgument

LEMMA BeginKeeps == ASSUME EvalInv, XP!Begin PROVE EvalInv'
<1>1. /\ result = "none" /\ position.arg \in DOMAIN expr.args /\ position.step = 0
      /\ UNCHANGED <<expr, context, objs, queue, merged, result>>
  BY DEF XP!Begin
<1>2. Going(expr, context, objs, list, queue, merged, position, operands)
  BY <1>1 DEF EvalInv
<1>3. /\ queue = <<>> /\ list \in Seq(DOMAIN objs) /\ ObjsOK(objs) /\ context \in DOMAIN objs
      /\ position \in [arg : Nat, step : Nat, pred : Nat] /\ XP!ArgOK(XP!Arg)
  BY <1>1, <1>2, ArgumentsAre DEF Going, EvalInv, XP!Arg
<1>4. CASE XP!Arg.t # "path"
  <2>1. operands' = Append(operands, XP!Arg) /\ position' = [position EXCEPT !.arg = @ + 1] /\ list' = list
    BY <1>4 DEF XP!Begin
  <2>2. /\ position' \in [arg : Nat, step : Nat, pred : Nat]
        /\ position'.arg = position.arg + 1 /\ position'.step = 0
    BY <1>1, <1>3, <2>1
  <2>3. ValueOf(expr.args[position.arg], XP!Arg, context, objs, merged)
    BY <1>4 DEF ValueOf, XP!Arg
  <2> QED BY <1>1, <1>3, <2>1, <2>2, <2>3, NextArgument
<1>5. CASE XP!Arg.t = "path"
  <2>1. PICK o : o = IF XP!Arg.root THEN 1 ELSE context
    OBVIOUS
  <2>2. /\ list' = <<o>> /\ position' = [position EXCEPT !.step = 1, !.pred = 0]
        /\ UNCHANGED operands
    BY <1>5, <2>1 DEF XP!Begin
  <2>3. o \in DOMAIN objs /\ objs[o].node = StartOf(XP!Arg, context, objs)
    BY <1>3, <2>1 DEF StartOf, ObjsOK
  <2>4. PICK l : l = <<o>>
    OBVIOUS
  <2>5. l \in Seq(DOMAIN objs) /\ DOMAIN l = {1} /\ l[1] = o
    BY <2>3, <2>4
  <2>6. NodesOf(objs, l) = {StartOf(XP!Arg, context, objs)}
    BY <2>3, <2>5 DEF NodesOf
  <2>7. IsPath(XP!Arg)
    BY <1>3, <1>5 DEF IsPath
  <2>8. PICK from, path : from = StartOf(XP!Arg, context, objs) /\ path = XP!Arg
    OBVIOUS
  <2>9. from \in XP!Nodes
    <3>1. objs[o] \in XNodes
      BY <1>3, <2>3 DEF ObjsOK
    <3> QED BY <2>3, <2>8, <3>1 DEF XNodes
  <2>10. XP!Sets(path.steps, from)[0] = {from}
    BY <2>7, <2>8, <2>9, PathIs, SetsAre
  <2>11. Led(objs, l, <<>>, path, from, 1, 0)
    BY <2>6, <2>8, <2>10 DEF Led
  <2>12. 1 \in 1..(Len(path.steps) + 1)
    <3>1. Len(path.steps) \in Nat
      BY <2>7, <2>8, PathIs
    <3> QED BY <3>1
  <2>13. InPath(path, from, objs, l, <<>>, merged, 1, 0)
    BY <2>11, <2>12 DEF InPath
  <2>14. /\ position' \in [arg : Nat, step : Nat, pred : Nat]
         /\ position'.arg = position.arg /\ position'.step = 1 /\ position'.pred = 0
    BY <1>3, <2>2
  <2>15. Going(expr, context, objs, list', queue, merged, position', operands)
    BY <1>1, <1>2, <1>3, <2>2, <2>4, <2>5, <2>7, <2>8, <2>13, <2>14 DEF Going, XP!Arg
  <2>16. XP!EvaluatesRight'
    BY <1>1 DEF XP!EvaluatesRight
  <2> QED BY <1>1, <2>2, <2>15, <2>16, ExprKept DEF EvalInv
<1> QED BY <1>4, <1>5

(***************************************************************************)
(* Comparisons of arguments                                                *)
(***************************************************************************)
LEMMA NodesWithNodesIs ==
  ASSUME NEW m \in Nat, NEW ns, DOMAIN ns = 1..m, NEW S, S = {ns[i] : i \in 1..m},
         NEW k \in Nat, NEW ps, DOMAIN ps = 1..k, NEW T, T = {ps[j] : j \in 1..k}, NEW op
  PROVE  Agrees(XP!NodesWithNodes(op, ns, ps),
                \E a \in Strings(S) : \E b \in Strings(T) : XP!Atoms(op, a, b))
<1> DEFINE pair(i, j) == IF NoText \in {Text[ns[i]], Text[ps[j]]} THEN "unsupported"
                         ELSE XP!Says(XP!Atoms(op, XP!String(ns[i]), XP!String(ps[j])))
           row(i) == [j \in DOMAIN ps |-> pair(i, j)]
           rows == [i \in DOMAIN ns |-> XP!FirstDecisive(row(i))]
           given == XP!NodesWithNodes(op, ns, ps)
           Truth == \E a \in Strings(S) : \E b \in Strings(T) : XP!Atoms(op, a, b)
<1>1. given = XP!FirstDecisive(rows)
  BY DEF XP!NodesWithNodes
<1>2. \A i, j : /\ pair(i, j) \in Verdicts
                /\ pair(i, j) = "true" => /\ Text[ns[i]] # NoText /\ Text[ps[j]] # NoText
                                           /\ XP!Atoms(op, XP!String(ns[i]), XP!String(ps[j]))
                /\ pair(i, j) = "false" => ~XP!Atoms(op, XP!String(ns[i]), XP!String(ps[j]))
  BY DEF XP!Says, Verdicts
<1> HIDE DEF pair
<1>3. ASSUME NEW i \in 1..m
      PROVE  /\ rows[i] \in Verdicts
             /\ rows[i] = "true" => \E j \in 1..k : pair(i, j) = "true"
             /\ rows[i] = "false" => \A j \in 1..k : pair(i, j) = "false"
  <2>1. rows[i] = XP!FirstDecisive(row(i))
    OBVIOUS
  <2>2. DOMAIN row(i) = 1..k /\ \A j \in 1..k : row(i)[j] = pair(i, j)
    OBVIOUS
  <2> HIDE DEF row, rows
  <2>3. \A j \in 1..k : row(i)[j] \in Verdicts
    BY <1>2, <2>2
  <2> QED BY <2>1, <2>2, <2>3, DecisiveIs DEF Agrees
<1>4. DOMAIN rows = 1..m
  OBVIOUS
<1> HIDE DEF row, rows
<1>5. /\ given \in Verdicts
      /\ given = "true" => \E i \in 1..m : rows[i] = "true"
      /\ given = "false" => \A i \in 1..m : rows[i] = "false"
  BY <1>1, <1>3, <1>4, DecisiveIs DEF Agrees
<1> HIDE DEF given
<1>6. /\ \A i \in 1..m : Text[ns[i]] # NoText => XP!String(ns[i]) \in Strings(S)
      /\ \A j \in 1..k : Text[ps[j]] # NoText => XP!String(ps[j]) \in Strings(T)
      /\ \A a \in Strings(S) : \E i \in 1..m : a = XP!String(ns[i])
      /\ \A b \in Strings(T) : \E j \in 1..k : b = XP!String(ps[j])
  BY DEF Strings, XP!String
<1>7. ASSUME given = "true" PROVE Truth
  <2>1. PICK i \in 1..m : rows[i] = "true"
    BY <1>5, <1>7
  <2>2. PICK j \in 1..k : pair(i, j) = "true"
    BY <1>3, <2>1
  <2>3. /\ XP!String(ns[i]) \in Strings(S) /\ XP!String(ps[j]) \in Strings(T)
        /\ XP!Atoms(op, XP!String(ns[i]), XP!String(ps[j]))
    BY <1>2, <1>6, <2>2
  <2> QED BY <2>3
<1>8. ASSUME given = "false" PROVE ~Truth
  <2> SUFFICES ASSUME NEW a \in Strings(S), NEW b \in Strings(T), XP!Atoms(op, a, b)
               PROVE  FALSE
    OBVIOUS
  <2>1. PICK i \in 1..m : a = XP!String(ns[i])
    BY <1>6
  <2>2. PICK j \in 1..k : b = XP!String(ps[j])
    BY <1>6
  <2>3. pair(i, j) = "false"
    BY <1>3, <1>5, <1>8
  <2> QED BY <1>2, <2>1, <2>2, <2>3
<1> QED BY <1>5, <1>7, <1>8 DEF Agrees, given

(* The nodes of a list of _XNodes.                                          *)
LEMMA NodesAtAre ==
  ASSUME NEW os \in Seq(DOMAIN objs)
  PROVE  \E k \in Nat : /\ XP!NodesAt(os) \in [1..k -> NodesOf(objs, os)]
                        /\ NodesOf(objs, os) = {XP!NodesAt(os)[i] : i \in 1..k}
<1>1. Len(os) \in Nat /\ DOMAIN os = 1..Len(os)
  OBVIOUS
<1> QED BY <1>1 DEF XP!NodesAt, XP!Node, NodesOf

(* What an argument compares as, of its value v.                            *)
LEMMA ComparedAs ==
  ASSUME NEW arg, NEW other, NEW v, ~merged, ValueOf(arg, v, context, objs, merged)
  PROVE  IF arg.t # "path" THEN XP!CompareAs(arg, other) = {arg} /\ v = arg
         ELSE /\ v.t = "nodes" /\ v.v \in Seq(DOMAIN objs)
              /\ XP!NodeSet(arg) = NodesOf(objs, v.v)
              /\ XP!CompareAs(arg, other) =
                   IF other.t = "bool" THEN {[t |-> "bool", v |-> NodesOf(objs, v.v) # {}]}
                   ELSE Strings(NodesOf(objs, v.v))
<1>1. CASE arg.t # "path"
  BY <1>1 DEF ValueOf, XP!CompareAs
<1>2. CASE arg.t = "path"
  <2>1. v.t = "nodes" /\ v.v \in Seq(DOMAIN objs) /\ NodesOf(objs, v.v) = PathSet(arg, context, objs)
    BY <1>2 DEF ValueOf
  <2>2. XP!NodeSet(arg) = NodesOf(objs, v.v)
    BY <2>1 DEF XP!NodeSet, PathSet, StartOf, XP!Node
  <2> QED BY <1>2, <2>1, <2>2 DEF XP!CompareAs, XP!AsValues, Strings
<1> QED BY <1>1, <1>2

(* What two arguments mean, compared.                                        *)
MeantOf(op, l, r) ==
  CASE l.t = "path" /\ XP!IsText(op, r) -> XP!TextMeant(op, XP!NodeSet(l), r.v)
    [] r.t = "path" /\ XP!IsText(op, l) -> XP!TextMeant(op, XP!NodeSet(r), l.v)
    [] OTHER -> \E a \in XP!CompareAs(l, r) : \E b \in XP!CompareAs(r, l) : XP!Atoms(op, a, b)

(* A path compared with a value, on either side.                             *)
LEMMA PathComparedIs ==
  ASSUME NEW op, NEW flip \in BOOLEAN, NEW os \in Seq(DOMAIN objs), NEW other, NEW S, S = NodesOf(objs, os)
  PROVE  Agrees(XP!NodesWith(op, flip, XP!NodesAt(os), other),
                IF XP!IsText(op, other) THEN XP!TextMeant(op, S, other.v)
                ELSE \E a \in IF other.t = "bool" THEN {[t |-> "bool", v |-> S # {}]} ELSE Strings(S) :
                       XP!Ordered(op, flip, a, other))
<1> DEFINE ns == XP!NodesAt(os)
<1>1. PICK k \in Nat : ns \in [1..k -> S] /\ S = {ns[i] : i \in 1..k}
  BY NodesAtAre
<1> HIDE DEF ns
<1>2. CASE other.t = "bool"
  <2>1. ~XP!IsText(op, other)
    BY <1>2 DEF XP!IsText
  <2>2. Agrees(XP!NodesWith(op, flip, ns, other), XP!Ordered(op, flip, [t |-> "bool", v |-> S # {}], other))
    BY <1>1, <1>2, NodesWithBoolIs
  <2> QED BY <1>2, <2>1, <2>2 DEF Agrees, ns
<1>3. CASE other.t # "bool"
  <2>1. Agrees(XP!NodesWith(op, flip, ns, other), OneCompares(op, flip, S, other))
    BY <1>1, <1>3, NodesWithValueIs
  <2>2. OneCompares(op, flip, S, other) <=>
          IF XP!IsText(op, other) THEN XP!TextMeant(op, S, other.v)
          ELSE \E a \in Strings(S) : XP!Ordered(op, flip, a, other)
    BY OneComparesIs
  <2> QED BY <1>3, <2>1, <2>2 DEF Agrees, ns
<1> QED BY <1>2, <1>3

LEMMA CompareIs ==
  ASSUME NEW op, NEW l, NEW r, XP!ArgOK(l), XP!ArgOK(r), ~merged, NEW a, NEW b,
         ValueOf(l, a, context, objs, merged), ValueOf(r, b, context, objs, merged)
  PROVE  Agrees(XP!Compare(op, a, b), MeantOf(op, l, r))
<1> DEFINE given == XP!Compare(op, a, b)
           left == NodesOf(objs, a.v)
           right == NodesOf(objs, b.v)
           Truth == \E m \in XP!CompareAs(l, r) : \E n \in XP!CompareAs(r, l) : XP!Atoms(op, m, n)
<1>1. /\ l.t # "path" => XP!CompareAs(l, r) = {l} /\ a = l
      /\ l.t = "path" => /\ a.t = "nodes" /\ a.v \in Seq(DOMAIN objs) /\ XP!NodeSet(l) = left
                         /\ XP!CompareAs(l, r) = IF r.t = "bool" THEN {[t |-> "bool", v |-> left # {}]}
                                                 ELSE Strings(left)
  BY ComparedAs
<1>2. /\ r.t # "path" => XP!CompareAs(r, l) = {r} /\ b = r
      /\ r.t = "path" => /\ b.t = "nodes" /\ b.v \in Seq(DOMAIN objs) /\ XP!NodeSet(r) = right
                         /\ XP!CompareAs(r, l) = IF l.t = "bool" THEN {[t |-> "bool", v |-> right # {}]}
                                                 ELSE Strings(right)
  BY ComparedAs
<1>3. /\ l.t # "nodes" /\ r.t # "nodes"
      /\ l.t = "path" => ~XP!IsText(op, l)
      /\ r.t = "path" => ~XP!IsText(op, r)
  BY DEF XP!ArgOK, XP!ValueOK, XP!IsText
<1> HIDE DEF left, right, given, Truth
<1>4. CASE l.t = "path" /\ r.t = "path"
  <2>1. given = XP!NodesWithNodes(op, XP!NodesAt(a.v), XP!NodesAt(b.v))
    BY <1>1, <1>2, <1>4 DEF XP!Compare, given
  <2>2. PICK m \in Nat : /\ DOMAIN XP!NodesAt(a.v) = 1..m
                        /\ left = {XP!NodesAt(a.v)[i] : i \in 1..m}
    BY <1>1, <1>4, NodesAtAre DEF left
  <2>3. PICK k \in Nat : /\ DOMAIN XP!NodesAt(b.v) = 1..k
                        /\ right = {XP!NodesAt(b.v)[i] : i \in 1..k}
    BY <1>2, <1>4, NodesAtAre DEF right
  <2>4. Agrees(given, \E m_1 \in Strings(left) : \E n_1 \in Strings(right) : XP!Atoms(op, m_1, n_1))
    BY <2>1, <2>2, <2>3, NodesWithNodesIs DEF Agrees
  <2>5. Agrees(given, Truth)
    BY <1>1, <1>2, <1>4, <2>4 DEF Truth
  <2>6. MeantOf(op, l, r) <=> Truth
    BY <1>3, <1>4 DEF MeantOf, Truth
  <2> QED BY <2>5, <2>6 DEF Agrees, given
<1>5. CASE l.t = "path" /\ r.t # "path"
  <2>1. given = XP!NodesWith(op, FALSE, XP!NodesAt(a.v), r)
    BY <1>1, <1>2, <1>3, <1>5 DEF XP!Compare, given
  <2>2. Agrees(given, IF XP!IsText(op, r) THEN XP!TextMeant(op, left, r.v)
                      ELSE \E m \in XP!CompareAs(l, r) : XP!Ordered(op, FALSE, m, r))
    BY <1>1, <1>5, <2>1, PathComparedIs DEF left
  <2>3. (\E m \in XP!CompareAs(l, r) : XP!Ordered(op, FALSE, m, r)) <=> Truth
    BY <1>2, <1>5 DEF XP!Ordered, Truth
  <2>4. MeantOf(op, l, r) <=> IF XP!IsText(op, r) THEN XP!TextMeant(op, left, r.v) ELSE Truth
    BY <1>1, <1>5 DEF MeantOf, Truth
  <2> QED BY <2>2, <2>3, <2>4 DEF Agrees, given
<1>6. CASE l.t # "path" /\ r.t = "path"
  <2>1. given = XP!NodesWith(op, TRUE, XP!NodesAt(b.v), l)
    BY <1>1, <1>2, <1>3, <1>6 DEF XP!Compare, given
  <2>2. Agrees(given, IF XP!IsText(op, l) THEN XP!TextMeant(op, right, l.v)
                      ELSE \E m \in XP!CompareAs(r, l) : XP!Ordered(op, TRUE, m, l))
    BY <1>2, <1>6, <2>1, PathComparedIs DEF right
  <2>3. (\E m \in XP!CompareAs(r, l) : XP!Ordered(op, TRUE, m, l)) <=> Truth
    BY <1>1, <1>6 DEF XP!Ordered, Truth
  <2>4. MeantOf(op, l, r) <=> IF XP!IsText(op, l) THEN XP!TextMeant(op, right, l.v) ELSE Truth
    BY <1>2, <1>6 DEF MeantOf, Truth
  <2> QED BY <2>2, <2>3, <2>4 DEF Agrees, given
<1>7. CASE l.t # "path" /\ r.t # "path"
  <2>1. given = XP!Says(XP!Atoms(op, l, r)) /\ XP!CompareAs(l, r) = {l} /\ XP!CompareAs(r, l) = {r}
    BY <1>1, <1>2, <1>3, <1>7 DEF XP!Compare, given
  <2>2. MeantOf(op, l, r) <=> XP!Atoms(op, l, r)
    BY <1>7, <2>1 DEF MeantOf
  <2> QED BY <2>1, <2>2 DEF XP!Says, Agrees, Verdicts, given
<1> QED BY <1>4, <1>5, <1>6, <1>7

LEMMA ComparesToVerdict ==
  ASSUME NEW op, NEW l, NEW r, XP!ArgOK(l), XP!ArgOK(r), NEW a, NEW b,
         ValueOf(l, a, context, objs, merged), ValueOf(r, b, context, objs, merged)
  PROVE  XP!Compare(op, a, b) \in Verdicts
<1>1. /\ a.t = "nodes" => a.v \in Seq(DOMAIN objs)
      /\ b.t = "nodes" => b.v \in Seq(DOMAIN objs)
  BY DEF ValueOf, XP!ArgOK, XP!ValueOK
<1>2. CASE a.t = "nodes" /\ b.t = "nodes"
  <2>1. PICK m \in Nat : DOMAIN XP!NodesAt(a.v) = 1..m
    BY <1>1, <1>2, NodesAtAre
  <2>2. PICK k \in Nat : DOMAIN XP!NodesAt(b.v) = 1..k
    BY <1>1, <1>2, NodesAtAre
  <2>3. XP!NodesWithNodes(op, XP!NodesAt(a.v), XP!NodesAt(b.v)) \in Verdicts
    BY <2>1, <2>2, NodesWithNodesIs DEF Agrees
  <2> QED BY <1>2, <2>3 DEF XP!Compare
<1>3. ASSUME NEW os \in Seq(DOMAIN objs), NEW flip \in BOOLEAN, NEW other
      PROVE  XP!NodesWith(op, flip, XP!NodesAt(os), other) \in Verdicts
  BY PathComparedIs DEF Agrees
<1>4. CASE ~(a.t = "nodes" /\ b.t = "nodes")
  <2>1. XP!Says(XP!Atoms(op, a, b)) \in Verdicts
    BY DEF XP!Says, Verdicts
  <2> QED BY <1>1, <1>3, <1>4, <2>1 DEF XP!Compare
<1> QED BY <1>2, <1>4

(* The union has the nodes of the two.                                      *)
LEMMA UnionIs ==
  ASSUME NEW os \in Seq(DOMAIN objs), NEW ps \in Seq(DOMAIN objs)
  PROVE  NodesOf(objs, XP!UnionOf(os, ps)) = NodesOf(objs, os) \cup NodesOf(objs, ps)
<1> DEFINE K == {i \in DOMAIN ps : ps[i] \notin XP!Range(os)}
           new == XP!Picked(ps, K)
<1>1. K \subseteq 1..Len(ps)
  OBVIOUS
<1>2. XP!UnionOf(os, ps) = os \o new
  BY DEF XP!UnionOf
<1> HIDE DEF new
<1>3. new \in Seq(DOMAIN objs) /\ \E w : PickedBy(new, w, ps, K)
  <2> HIDE DEF K
  <2> QED BY <1>1, PickedIs DEF new
<1>4. PICK w : PickedBy(new, w, ps, K)
  BY <1>3
<1>5. NodesOf(objs, os \o new) = NodesOf(objs, os) \cup NodesOf(objs, new)
  BY <1>3, NodesOfJoined
<1>6. NodesOf(objs, new) \subseteq NodesOf(objs, ps)
  <2>1. ASSUME NEW i \in DOMAIN new PROVE w[i] \in DOMAIN ps /\ new[i] = ps[w[i]]
    BY <1>4 DEF PickedBy
  <2> QED BY <2>1 DEF NodesOf
<1>7. ASSUME NEW i \in DOMAIN ps PROVE objs[ps[i]].node \in NodesOf(objs, os) \cup NodesOf(objs, new)
  <2>1. CASE i \in K
    <3>1. PICK j \in DOMAIN new : w[j] = i
      BY <1>4, <2>1 DEF PickedBy
    <3>2. new[j] = ps[i]
      BY <1>4, <3>1 DEF PickedBy
    <3> QED BY <3>2 DEF NodesOf
  <2>2. CASE i \notin K
    <3>1. PICK j \in DOMAIN os : os[j] = ps[i]
      BY <2>2 DEF XP!Range
    <3> QED BY <3>1 DEF NodesOf
  <2> QED BY <2>1, <2>2
<1>8. NodesOf(objs, ps) \subseteq NodesOf(objs, os) \cup NodesOf(objs, new)
  BY <1>7 DEF NodesOf
<1> QED BY <1>2, <1>5, <1>6, <1>8

LEMMA NodesResult ==
  ASSUME UNCHANGED <<expr, context, objs, merged>>, result' = "nodes",
         ~merged => NodesOf(objs, list') = UNION {XP!NodeSet(expr.args[i]) : i \in DOMAIN expr.args}
  PROVE  XP!EvaluatesRight'
<1> DEFINE meant == UNION {XP!NodeSet(expr.args[i]) : i \in DOMAIN expr.args}
<1>1. XP!ResultSet' = NodesOf(objs, list')
  BY DEF XP!ResultSet, NodesOf, XP!Node
<1>2. meant' = meant
  BY DEF XP!NodeSet, XP!Node
<1>3. ~merged' => XP!ResultSet' = meant'
  BY <1>1, <1>2
<1>4. result' \notin {"true", "false"}
  OBVIOUS
<1> QED BY <1>3, <1>4 DEF XP!EvaluatesRight

LEMMA ConcludeKeeps == ASSUME EvalInv, XP!Conclude PROVE EvalInv'
<1>1. /\ result = "none" /\ position.arg > Len(expr.args)
      /\ UNCHANGED <<expr, context, objs, position, queue, merged, operands>>
  BY DEF XP!Conclude
<1>2. Going(expr, context, objs, list, queue, merged, position, operands)
  BY <1>1 DEF EvalInv
<1>3. PICK n \in {1, 2} : n = ArgsOf(expr)
  BY ArgumentsAre DEF EvalInv
<1>4. /\ expr.op \in {"nodes", "union"} \cup XP!Comparisons /\ (n = 1 <=> expr.op = "nodes")
      /\ DOMAIN expr.args = 1..n /\ \A i \in 1..n : XP!ArgOK(expr.args[i])
      /\ expr.op \in {"nodes", "union"} => \A i \in 1..n : expr.args[i].t = "path"
  BY <1>3, ArgumentsAre DEF EvalInv, XP!ExprOK, ArgsOf
<1>5. \A i \in 1..n : ValueOf(expr.args[i], operands[i], context, objs, merged)
  <2>1. position.arg \in 1..(n + 1) /\ position.arg > n /\ Evaluated(expr, context, objs, merged, position.arg, operands)
    BY <1>1, <1>2, <1>3, ArgumentsAre DEF Going, EvalInv
  <2>2. position.arg - 1 = n
    BY <2>1
  <2> QED BY <2>1, <2>2 DEF Evaluated
<1>6. \A i \in 1..n : expr.args[i].t = "path" =>
         /\ operands[i].v \in Seq(DOMAIN objs)
         /\ ~merged => NodesOf(objs, operands[i].v) = XP!NodeSet(expr.args[i])
  BY <1>5 DEF ValueOf, XP!NodeSet, PathSet, StartOf, XP!Node
<1>7. /\ 1 \in 1..n /\ (n = 2 => 2 \in 1..n) /\ (n = 1 => 1..n = {1}) /\ (n = 2 => 1..n = {1, 2})
  OBVIOUS
<1>8. CASE expr.op = "nodes"
  <2>1. list' = operands[1].v /\ result' = "nodes"
    BY <1>8 DEF XP!Conclude, XP!Comparisons, XP!Equality
  <2>2. ~merged => NodesOf(objs, list') = UNION {XP!NodeSet(expr.args[i]) : i \in 1..n}
    BY <1>4, <1>6, <1>7, <1>8, <2>1
  <2>3. XP!EvaluatesRight'
    BY <1>1, <1>4, <2>1, <2>2, NodesResult
  <2> QED BY <1>1, <2>1, <2>3, ExprKept DEF EvalInv
<1>9. CASE expr.op = "union"
  <2>1. list' = XP!UnionOf(operands[1].v, operands[2].v) /\ result' = "nodes"
    BY <1>9 DEF XP!Conclude, XP!Comparisons, XP!Equality
  <2>2. ~merged => NodesOf(objs, list') = UNION {XP!NodeSet(expr.args[i]) : i \in 1..n}
    <3> SUFFICES ASSUME ~merged PROVE NodesOf(objs, list') = UNION {XP!NodeSet(expr.args[i]) : i \in 1..n}
      OBVIOUS
    <3>1. n = 2 /\ expr.args[1].t = "path" /\ expr.args[2].t = "path"
      BY <1>3, <1>4, <1>7, <1>9
    <3>2. /\ operands[1].v \in Seq(DOMAIN objs) /\ NodesOf(objs, operands[1].v) = XP!NodeSet(expr.args[1])
          /\ operands[2].v \in Seq(DOMAIN objs) /\ NodesOf(objs, operands[2].v) = XP!NodeSet(expr.args[2])
      BY <1>6, <1>7, <3>1
    <3>3. NodesOf(objs, list') = XP!NodeSet(expr.args[1]) \cup XP!NodeSet(expr.args[2])
      BY <2>1, <3>2, UnionIs
    <3> QED BY <1>7, <3>1, <3>3
  <2>3. XP!EvaluatesRight'
    BY <1>1, <1>4, <2>1, <2>2, NodesResult
  <2> QED BY <1>1, <2>1, <2>3, ExprKept DEF EvalInv
<1>10. CASE expr.op \in XP!Comparisons
  <2>1. result' = XP!Compare(expr.op, operands[1], operands[2]) /\ list' = list
    BY <1>10 DEF XP!Conclude, XP!Comparisons, XP!Equality
  <2>2. n = 2
    BY <1>3, <1>4, <1>10 DEF XP!Comparisons, XP!Equality
  <2>3. ~merged => Agrees(result', XP!Meant)
    <3> SUFFICES ASSUME ~merged PROVE Agrees(result', XP!Meant)
      OBVIOUS
    <3>1. /\ XP!ArgOK(expr.args[1]) /\ ValueOf(expr.args[1], operands[1], context, objs, merged)
          /\ XP!ArgOK(expr.args[2]) /\ ValueOf(expr.args[2], operands[2], context, objs, merged)
      BY <1>4, <1>5, <1>7, <2>2
    <3>2. XP!Meant = MeantOf(expr.op, expr.args[1], expr.args[2])
      BY DEF XP!Meant, MeantOf
    <3> QED BY <2>1, <3>1, <3>2, CompareIs
  <2>4. XP!Meant' = XP!Meant
    BY <1>1 DEF XP!Meant, XP!CompareAs, XP!AsValues, XP!NodeSet, XP!Node
  <2>5. result' \notin {"none", "nodes"}
    <3>1. /\ XP!ArgOK(expr.args[1]) /\ ValueOf(expr.args[1], operands[1], context, objs, merged)
          /\ XP!ArgOK(expr.args[2]) /\ ValueOf(expr.args[2], operands[2], context, objs, merged)
      BY <1>4, <1>5, <1>7, <2>2
    <3> QED BY <2>1, <3>1, ComparesToVerdict DEF Verdicts
  <2>6. XP!EvaluatesRight'
    BY <1>1, <2>3, <2>4, <2>5 DEF XP!EvaluatesRight, Agrees, XP!Says
  <2> QED BY <1>1, <2>5, <2>6, ExprKept DEF EvalInv
<1> QED BY <1>4, <1>8, <1>9, <1>10


LEMMA EvalInit == ASSUME XP!WellFormed, XP!InitWith(expr, objs) PROVE EvalInv
<1>1. /\ context = Len(objs) /\ position = [arg |-> 1, step |-> 0, pred |-> 0]
      /\ list = <<>> /\ queue = <<>> /\ merged = FALSE /\ operands = <<>> /\ result = "none"
  BY DEF XP!InitWith
<1>2. /\ objs \in Seq(XNodes) /\ objs # <<>> /\ objs[1] = [node |-> 0, parent |-> 0]
      /\ \A o \in DOMAIN objs \ {1} :
           objs[o].parent = o - 1 /\ objs[o].node # 0 /\ Up[objs[o].node] = objs[o - 1].node
  BY DEF XP!WellFormed, XP!LineOK, XNodes
<1>3. Len(objs) \in Nat \ {0} /\ DOMAIN objs = 1..Len(objs)
  BY <1>2
<1>4. ObjsOK(objs)
  <2>1. ASSUME NEW o \in DOMAIN objs
        PROVE  IF objs[o].node = 0 THEN objs[o].parent = 0
               ELSE /\ objs[o].parent \in DOMAIN objs
                    /\ Up[objs[o].node] = objs[objs[o].parent].node
    <3>1. CASE o = 1
      BY <1>2, <3>1
    <3>2. CASE o # 1
      <4>1. o - 1 \in DOMAIN objs
        BY <1>3, <3>2
      <4> QED BY <1>2, <3>2, <4>1
    <3> QED BY <3>1, <3>2
  <2> QED BY <1>2, <1>3, <2>1 DEF ObjsOK
<1>5. context \in DOMAIN objs
  BY <1>1, <1>3
<1>6. XP!ExprOK /\ ArgsOf(expr) \in {1, 2}
  BY ArgumentsAre DEF XP!WellFormed
<1>7. Evaluated(expr, context, objs, FALSE, 1, <<>>)
  <2>1. <<>> \in Seq({}) /\ Len(<<>>) = 1 - 1 /\ 1..(1 - 1) = {}
    OBVIOUS
  <2> QED BY <2>1 DEF Evaluated
<1>8. Going(expr, context, objs, <<>>, <<>>, FALSE, [arg |-> 1, step |-> 0, pred |-> 0], <<>>)
  <2>1. 1 \in 1..(ArgsOf(expr) + 1) /\ <<>> \in Seq(DOMAIN objs)
    BY <1>6
  <2> QED BY <1>7, <2>1 DEF Going
<1>9. XP!EvaluatesRight
  BY <1>1 DEF XP!EvaluatesRight
<1> QED BY <1>1, <1>4, <1>5, <1>6, <1>8, <1>9 DEF EvalInv

LEMMA EvalNext == ASSUME EvalInv, XP!Next \/ UNCHANGED evaluation PROVE EvalInv'
<1>1. CASE XP!Next
  BY <1>1, BeginKeeps, ChildKeeps, ParentKeeps, SelfKeeps, DescendantOrSelfKeeps, PopBelowKeeps,
     FilterKeeps, NextStepKeeps, EndPathKeeps, ConcludeKeeps DEF XP!Next
<1>2. CASE UNCHANGED evaluation
  <2>1. UNCHANGED <<expr, context, objs, position, list, queue, merged, operands, result>>
    BY <1>2 DEF evaluation
  <2>2. XP!ResultSet' = XP!ResultSet
    BY <2>1 DEF XP!ResultSet, XP!Node
  <2>3. (UNION {XP!NodeSet(expr.args[i]) : i \in DOMAIN expr.args})' = UNION {XP!NodeSet(expr.args[i]) : i \in DOMAIN expr.args}
    BY <2>1 DEF XP!NodeSet, XP!Node
  <2>4. XP!Meant' = XP!Meant
    BY <2>1 DEF XP!Meant, XP!CompareAs, XP!AsValues, XP!NodeSet, XP!Node
  <2>5. XP!EvaluatesRight'
    BY <2>1, <2>2, <2>3, <2>4 DEF XP!EvaluatesRight, EvalInv
  <2>6. Going(expr, context, objs, list, queue, merged, position, operands)
        => Going(expr', context', objs', list', queue', merged', position', operands')
    BY <2>1
  <2> QED BY <2>1, <2>5, <2>6, ExprKept DEF EvalInv
<1> QED BY <1>1, <1>2

(* A path or a union gives the nodes XPath gives it, and a comparison its      *)
(* truth, or it is skipped, whatever the data, the expression and the _XNodes *)
(* made; but for positions counted over the children of several nodes, and    *)
(* with identities equal to a text by their local names.                      *)
THEOREM ExpressionsEvaluateRight == ProgramSpec => []EvaluatesRight
<1> DEFINE Inv == program = "evaluate" => EvalInv
<1>1. ProgramInit => Inv
  BY EvalInit DEF ProgramInit
<1>2. Inv /\ [ProgramNext]_pvars => Inv'
  <2> SUFFICES ASSUME Inv, [ProgramNext]_pvars, program' = "evaluate"
               PROVE  EvalInv'
    OBVIOUS
  <2>1. program = "evaluate" /\ (XP!Next \/ UNCHANGED evaluation)
    BY DEF ProgramNext, pvars
  <2> QED BY <2>1, EvalNext
<1>3. Inv => EvaluatesRight
  BY DEF EvaluatesRight, EvalInv
<1> QED BY <1>1, <1>2, <1>3, PTL DEF ProgramSpec

-----------------------------------------------------------------------------
(***************************************************************************)
(* No node twice                                                           *)
(***************************************************************************)
IsDepth(f, N) == /\ f \in [0..N -> Nat] /\ f[0] = 0
                 /\ \A n \in 1..N : f[n] = f[Up[n]] + 1
Depth == CHOOSE f : IsDepth(f, Len(Up))

LEMMA DepthIs ==
  /\ \A n \in XP!Nodes : Depth[n] \in Nat
  /\ \A n \in DOMAIN Up : Depth[n] = Depth[Up[n]] + 1
<1> DEFINE A == {n \in Nat : n <= Len(Up) => \E f : IsDepth(f, n)}
<1>1. /\ Len(Up) \in Nat /\ DOMAIN Up = 1..Len(Up) /\ XP!Nodes = 0..Len(Up)
      /\ \A n \in DOMAIN Up : n \in XP!Nodes /\ Up[n] \in XP!Nodes /\ Up[n] < n
  BY NodesAre
<1>2. 0 \in A
  <2>1. IsDepth([i \in 0..0 |-> 0], 0)
    BY DEF IsDepth
  <2> QED BY <2>1
<1>3. ASSUME NEW n \in Nat, n \in A PROVE n + 1 \in A
  <2> SUFFICES ASSUME n + 1 <= Len(Up) PROVE \E f : IsDepth(f, n + 1)
    OBVIOUS
  <2>1. PICK f : IsDepth(f, n)
    BY <1>1, <1>3
  <2> DEFINE g == [i \in 0..(n + 1) |-> IF i <= n THEN f[i] ELSE f[Up[n + 1]] + 1]
  <2>2. \A i \in 1..(n + 1) : i \in DOMAIN Up /\ Up[i] \in 0..n /\ i \in 0..(n + 1)
    BY <1>1
  <2>3. f \in [0..n -> Nat] /\ f[0] = 0 /\ \A i \in 1..n : f[i] = f[Up[i]] + 1
    BY <2>1 DEF IsDepth
  <2>4. /\ \A i \in 0..n : g[i] = f[i]
        /\ g[n + 1] = f[Up[n + 1]] + 1
        /\ DOMAIN g = 0..(n + 1)
    OBVIOUS
  <2>5. g \in [0..(n + 1) -> Nat]
    <3>1. \A i \in 0..(n + 1) : g[i] \in Nat
      BY <2>2, <2>3
    <3> QED BY <3>1
  <2> HIDE DEF g
  <2>6. \A i \in 1..(n + 1) : g[i] = g[Up[i]] + 1
    <3> SUFFICES ASSUME NEW i \in 1..(n + 1) PROVE g[i] = g[Up[i]] + 1
      OBVIOUS
    <3>1. g[Up[i]] = f[Up[i]]
      BY <2>2, <2>4
    <3>2. i \in 1..n \/ i = n + 1
      OBVIOUS
    <3> QED BY <2>3, <2>4, <3>1, <3>2
  <2>7. IsDepth(g, n + 1)
    BY <2>3, <2>4, <2>5, <2>6 DEF IsDepth
  <2> QED BY <2>7
<1>4. Nat \subseteq A
  <2> HIDE DEF A
  <2> QED BY <1>2, <1>3, NumbersInduction
<1>5. \E f : IsDepth(f, Len(Up))
  BY <1>1, <1>4
<1>6. IsDepth(Depth, Len(Up))
  BY <1>5 DEF Depth
<1> QED BY <1>1, <1>6 DEF IsDepth

Parented(F, obs) == \A k \in Nat : \A o \in F[k] : obs[o].node # 0 => obs[o].parent \in F[k + 1]
OnceEach(F, obs) == \A k \in Nat : \A o, p \in F[k] : obs[o].node = obs[p].node => o = p

(* The list is on level 0, the parents of level k on level k + 1, and no     *)
(* level has two _XNodes of one node.                                       *)
Levels(F, obs, l) ==
  /\ F \in [Nat -> SUBSET DOMAIN obs]
  /\ \A i \in DOMAIN l : l[i] \in F[0]
  /\ \A i, j \in DOMAIN l : l[i] = l[j] => i = j
  /\ Parented(F, obs) /\ OnceEach(F, obs)

(* Before a path goes down to all descendants, levels are depths.           *)
Even(F, obs, D) == \A k \in Nat : \A o \in F[k] : Depth[obs[o].node] + k = D

LEMMA LevelsDistinct ==
  ASSUME NEW F, NEW obs, NEW l, Levels(F, obs, l) PROVE Distinct(obs, l)
BY DEF Levels, OnceEach, Distinct

LEMMA DepthOfParent ==
  ASSUME NEW obs, ObjsOK(obs), NEW o \in DOMAIN obs
  PROVE  /\ obs[o].node \in XP!Nodes /\ Depth[obs[o].node] \in Nat
         /\ obs[o].node # 0 => /\ obs[o].parent \in DOMAIN obs
                               /\ Depth[obs[o].node] = Depth[obs[obs[o].parent].node] + 1
<1>1. obs[o] \in XNodes
  BY DEF ObjsOK
<1>2. obs[o].node \in XP!Nodes
  BY <1>1 DEF XNodes
<1>3. obs[o].node # 0 => obs[o].node \in DOMAIN Up
  BY <1>2, NodesAre
<1>4. obs[o].node # 0 => /\ obs[o].parent \in DOMAIN obs
                         /\ Up[obs[o].node] = obs[obs[o].parent].node
  BY DEF ObjsOK
<1> QED BY <1>2, <1>3, <1>4, DepthIs

(* Above one _XNode.                                                        *)
LEMMA LevelsAbove ==
  ASSUME NEW obs, ObjsOK(obs), NEW o \in DOMAIN obs, NEW l, DOMAIN l = {1}, l[1] = o
  PROVE  \E F : Levels(F, obs, l) /\ \E D \in Int : Even(F, obs, D)
<1> DEFINE S == SUBSET DOMAIN obs
           up(T) == {obs[p].parent : p \in {p \in T : obs[p].node # 0}}
           M == [T \in S |-> up(T)]
           D == Depth[obs[o].node]
<1>1. \A p \in DOMAIN obs : /\ Depth[obs[p].node] \in Nat
                            /\ obs[p].node # 0 => /\ obs[p].parent \in DOMAIN obs
                                                  /\ Depth[obs[p].node] = Depth[obs[obs[p].parent].node] + 1
  BY DepthOfParent
<1>2. {o} \in S /\ M \in [S -> S]
  BY <1>1
<1>3. PICK F \in [Nat -> S] : Iterates(F, {o}, M)
  <2> HIDE DEF S, M
  <2> QED BY <1>2, RecursionOnNumbers
<1>4. F[0] = {o} /\ \A k \in Nat : F[k + 1] = up(F[k])
  <2>1. \A T \in S : M[T] = up(T)
    OBVIOUS
  <2> HIDE DEF up, S, M
  <2>2. \A k \in Nat : F[k] = IF k = 0 THEN {o} ELSE M[F[k - 1]]
    BY <1>3 DEF Iterates
  <2>3. \A k \in Nat : k + 1 \in Nat /\ k + 1 # 0 /\ (k + 1) - 1 = k
    OBVIOUS
  <2>4. \A k \in Nat : F[k + 1] = M[F[k]]
    BY <2>2, <2>3
  <2>5. F[0] = {o}
    BY <2>2
  <2> QED BY <2>1, <2>4, <2>5
<1> HIDE DEF up, S, M
<1>5. \A k \in Nat : F[k] \subseteq DOMAIN obs /\ k + 1 \in Nat
  BY <1>3 DEF S
<1> DEFINE A == {k \in Nat : \A p \in F[k] : /\ Depth[obs[p].node] + k = D
                                              /\ \A h \in F[k] : h = p}
<1>6. 0 \in A
  BY <1>1, <1>4
<1>7. ASSUME NEW k \in Nat, k \in A PROVE k + 1 \in A
  <2>1. F[k + 1] = {obs[p].parent : p \in {p \in F[k] : obs[p].node # 0}}
    BY <1>4 DEF up
  <2>2. ASSUME NEW p \in F[k], obs[p].node # 0 PROVE Depth[obs[obs[p].parent].node] + (k + 1) = D
    <3>1. p \in DOMAIN obs /\ obs[p].parent \in DOMAIN obs
      BY <1>1, <1>5, <2>2
    <3>2. /\ Depth[obs[p].node] = Depth[obs[obs[p].parent].node] + 1 /\ Depth[obs[p].node] + k = D
          /\ Depth[obs[obs[p].parent].node] \in Nat
      BY <1>1, <1>7, <2>2, <3>1
    <3> QED BY <3>2
  <2> QED BY <1>7, <2>1, <2>2
<1>8. Nat \subseteq A
  <2> HIDE DEF A
  <2> QED BY <1>6, <1>7, NumbersInduction
<1>9. Even(F, obs, D) /\ D \in Int
  BY <1>1, <1>8 DEF Even
<1>10. OnceEach(F, obs)
  BY <1>8 DEF OnceEach
<1>11. Parented(F, obs)
  BY <1>4 DEF Parented, up
<1>12. Levels(F, obs, l)
  BY <1>3, <1>4, <1>10, <1>11 DEF Levels, S
<1> QED BY <1>9, <1>12

LEMMA ChildOnce ==
  ASSUME NEW obs, ObjsOK(obs), NEW l \in Seq(DOMAIN obs), NEW test, NEW new, IsMade(new, obs, l, test),
         NEW grown, NEW added, GrownBy(grown, added, obs, new),
         NEW F, Levels(F, obs, l)
  PROVE  \E H : Levels(H, grown, added) /\ \A D \in Int : Even(F, obs, D) => Even(H, grown, D + 1)
<1> DEFINE top == {added[i] : i \in DOMAIN added}
           H == [k \in Nat |-> IF k = 0 THEN top ELSE F[k - 1]]
<1>1. /\ ObjsOK(grown)
      /\ \A o \in DOMAIN obs : o \in DOMAIN grown /\ grown[o] = obs[o]
      /\ added \in Seq(DOMAIN grown) /\ DOMAIN added = DOMAIN new
      /\ \A i \in DOMAIN added : grown[added[i]] = new[i] /\ added[i] \notin DOMAIN obs
      /\ \A i, j \in DOMAIN added : added[i] = added[j] => i = j
  BY DEF GrownBy
<1>2. /\ \A k \in Nat : F[k] \subseteq DOMAIN obs
      /\ \A i \in DOMAIN l : l[i] \in F[0]
      /\ Parented(F, obs) /\ OnceEach(F, obs)
  BY DEF Levels
<1>3. \A j, k \in DOMAIN new : new[j].node = new[k].node => j = k
  BY LevelsDistinct DEF IsMade
<1>4. \A i \in DOMAIN added : grown[added[i]].parent \in F[0]
  BY <1>1, <1>2 DEF IsMade
<1>5. top \subseteq DOMAIN grown
  BY <1>1
<1>6. /\ H[0] = top
      /\ \A k \in Nat : k # 0 => k - 1 \in Nat /\ H[k] = F[k - 1]
      /\ \A k \in Nat : H[k + 1] = F[k]
  OBVIOUS
<1>7. H \in [Nat -> SUBSET DOMAIN grown]
  <2>1. \A k \in Nat : H[k] \subseteq DOMAIN grown
    BY <1>1, <1>2, <1>5, <1>6
  <2> QED BY <2>1
<1> HIDE DEF H
<1>8. Parented(H, grown)
  <2> SUFFICES ASSUME NEW k \in Nat, NEW o \in H[k], grown[o].node # 0 PROVE grown[o].parent \in H[k + 1]
    BY DEF Parented
  <2>1. CASE k = 0
    BY <1>4, <1>6, <2>1
  <2>2. CASE k # 0
    <3>1. o \in F[k - 1] /\ k - 1 \in Nat /\ (k - 1) + 1 = k
      <4>1. k - 1 \in Nat /\ (k - 1) + 1 = k
        BY <2>2
      <4> QED BY <1>6, <2>2, <4>1
    <3>2. obs[o].parent \in F[(k - 1) + 1] /\ grown[o] = obs[o]
      BY <1>1, <1>2, <3>1 DEF Parented
    <3> QED BY <1>6, <3>1, <3>2
  <2> QED BY <2>1, <2>2
<1>9. OnceEach(H, grown)
  <2> SUFFICES ASSUME NEW k \in Nat, NEW o \in H[k], NEW p \in H[k], grown[o].node = grown[p].node PROVE o = p
    BY DEF OnceEach
  <2>1. CASE k = 0
    <3>1. PICK i \in DOMAIN added, j \in DOMAIN added : o = added[i] /\ p = added[j]
      BY <1>6, <2>1
    <3>2. new[i].node = new[j].node
      BY <1>1, <3>1
    <3> QED BY <1>1, <1>3, <3>1, <3>2
  <2>2. CASE k # 0
    <3>1. o \in F[k - 1] /\ p \in F[k - 1] /\ k - 1 \in Nat
      BY <1>6, <2>2
    <3>2. grown[o] = obs[o] /\ grown[p] = obs[p]
      BY <1>1, <1>2, <3>1
    <3> QED BY <1>2, <3>1, <3>2 DEF OnceEach
  <2> QED BY <2>1, <2>2
<1>10. Levels(H, grown, added)
  BY <1>1, <1>6, <1>7, <1>8, <1>9 DEF Levels
<1>11. ASSUME NEW D \in Int, Even(F, obs, D) PROVE Even(H, grown, D + 1)
  <2> SUFFICES ASSUME NEW k \in Nat, NEW o \in H[k] PROVE Depth[grown[o].node] + k = D + 1
    BY DEF Even
  <2>1. CASE k = 0
    <3>1. PICK i \in DOMAIN added : o = added[i]
      BY <1>6, <2>1
    <3>2. PICK j \in DOMAIN l : new[i].parent = l[j] /\ new[i].node \in Kids(obs[l[j]].node)
      BY <1>1, <3>1 DEF IsMade
    <3>3. /\ l[j] \in DOMAIN obs /\ l[j] \in F[0] /\ new[i].node \in DOMAIN Up
          /\ Up[new[i].node] = obs[l[j]].node /\ grown[o] = new[i]
      BY <1>1, <1>2, <3>1, <3>2 DEF Kids
    <3>4. Depth[obs[l[j]].node] + 0 = D /\ Depth[obs[l[j]].node] \in Nat
      BY <1>11, <3>3, DepthOfParent DEF Even
    <3>5. Depth[new[i].node] = Depth[obs[l[j]].node] + 1
      BY <3>3, DepthIs
    <3> QED BY <2>1, <3>3, <3>4, <3>5
  <2>2. CASE k # 0
    <3>1. o \in F[k - 1] /\ k - 1 \in Nat
      BY <1>6, <2>2
    <3>2. grown[o] = obs[o] /\ o \in DOMAIN obs
      BY <1>1, <1>2, <3>1
    <3>3. Depth[obs[o].node] + (k - 1) = D /\ Depth[obs[o].node] \in Nat
      BY <1>11, <3>1, <3>2, DepthOfParent DEF Even
    <3>4. PICK n : n = Depth[obs[o].node]
      OBVIOUS
    <3>5. n + (k - 1) = D /\ n \in Nat
      BY <3>3, <3>4
    <3>6. n + k = D + 1
      BY <3>5
    <3> QED BY <3>2, <3>4, <3>6
  <2> QED BY <2>1, <2>2
<1> QED BY <1>10, <1>11

LEMMA ParentOnce ==
  ASSUME NEW obs, ObjsOK(obs), NEW l \in Seq(DOMAIN obs), NEW ps, AreParents(ps, obs, l),
         NEW F, Levels(F, obs, l)
  PROVE  \E H : Levels(H, obs, ps) /\ \A D \in Int : Even(F, obs, D) => Even(H, obs, D - 1)
<1> DEFINE H == [k \in Nat |-> F[k + 1]]
<1>1. /\ \A k \in Nat : F[k] \subseteq DOMAIN obs
      /\ \A i \in DOMAIN l : l[i] \in F[0]
      /\ Parented(F, obs) /\ OnceEach(F, obs)
  BY DEF Levels
<1>2. \A k \in Nat : H[k] = F[k + 1] /\ k + 1 \in Nat
  OBVIOUS
<1>3. H \in [Nat -> SUBSET DOMAIN obs]
  BY <1>1
<1> HIDE DEF H
<1>4. Parented(H, obs)
  BY <1>1, <1>2 DEF Parented
<1>5. OnceEach(H, obs)
  BY <1>1, <1>2 DEF OnceEach
<1>6. \A i \in DOMAIN ps : ps[i] \in H[0]
  <2> SUFFICES ASSUME NEW i \in DOMAIN ps PROVE ps[i] \in H[0]
    OBVIOUS
  <2>1. PICK j \in DOMAIN l : obs[l[j]].node # 0 /\ ps[i] = obs[l[j]].parent
    BY DEF AreParents
  <2>2. ps[i] \in F[0 + 1]
    BY <1>1, <2>1 DEF Parented
  <2> QED BY <1>2, <2>2
<1>7. Levels(H, obs, ps)
  BY <1>3, <1>4, <1>5, <1>6 DEF Levels, AreParents
<1>8. ASSUME NEW D \in Int, Even(F, obs, D) PROVE Even(H, obs, D - 1)
  <2> SUFFICES ASSUME NEW k \in Nat, NEW o \in H[k] PROVE Depth[obs[o].node] + k = D - 1
    BY DEF Even
  <2>1. o \in F[k + 1] /\ o \in DOMAIN obs /\ k + 1 \in Nat
    BY <1>1, <1>2
  <2>2. Depth[obs[o].node] + (k + 1) = D /\ Depth[obs[o].node] \in Nat
    BY <1>8, <2>1, DepthOfParent DEF Even
  <2> QED BY <2>2
<1> QED BY <1>7, <1>8

LEMMA FilterOnce ==
  ASSUME NEW obs, NEW l, NEW F, Levels(F, obs, l),
         NEW kept, NEW w, NEW K, K \subseteq DOMAIN l, DOMAIN l \subseteq Nat, DOMAIN kept \subseteq Nat,
         PickedBy(kept, w, l, K)
  PROVE  Levels(F, obs, kept)
<1>1. /\ F \in [Nat -> SUBSET DOMAIN obs] /\ Parented(F, obs) /\ OnceEach(F, obs)
      /\ \A i \in DOMAIN l : l[i] \in F[0]
      /\ \A i, j \in DOMAIN l : l[i] = l[j] => i = j
  BY DEF Levels
<1>2. \A i \in DOMAIN kept : w[i] \in DOMAIN l /\ kept[i] = l[w[i]]
  BY DEF PickedBy
<1>3. ASSUME NEW i \in DOMAIN kept, NEW j \in DOMAIN kept, kept[i] = kept[j] PROVE i = j
  <2>1. w[i] = w[j] /\ w[i] \in Nat /\ w[j] \in Nat
    BY <1>1, <1>2, <1>3
  <2>2. ~(i < j) /\ ~(j < i)
    BY <2>1 DEF PickedBy
  <2> QED BY <2>2
<1>4. \A i \in DOMAIN kept : kept[i] \in F[0]
  BY <1>1, <1>2
<1> QED BY <1>1, <1>3, <1>4 DEF Levels

(***************************************************************************)
(* Down to all descendants                                                 *)
(***************************************************************************)
(* What is passed and what is queued: the list it began with and children   *)
(* of what is passed.                                                       *)
Falling(F, D, obs, l, all) ==
  /\ F \in [Nat -> SUBSET DOMAIN obs] /\ Parented(F, obs) /\ OnceEach(F, obs) /\ Even(F, obs, D)
  /\ Distinct(obs, all)
  /\ \A i \in DOMAIN all : /\ Depth[obs[all[i]].node] >= D
                           /\ all[i] \in F[0] \/ \E j \in DOMAIN l : obs[all[i]].parent = l[j]

LEMMA FallBegins ==
  ASSUME NEW F, NEW D \in Int, NEW obs, ObjsOK(obs), NEW l, Levels(F, obs, l), Even(F, obs, D)
  PROVE  Falling(F, D, obs, <<>>, l)
<1>1. \A i \in DOMAIN l : l[i] \in F[0] /\ l[i] \in DOMAIN obs
  BY DEF Levels
<1>2. \A i \in DOMAIN l : Depth[obs[l[i]].node] + 0 = D /\ Depth[obs[l[i]].node] \in Nat
  BY <1>1, DepthOfParent DEF Even
<1>3. \A i \in DOMAIN l : Depth[obs[l[i]].node] >= D
  <2> SUFFICES ASSUME NEW i \in DOMAIN l PROVE Depth[obs[l[i]].node] >= D
    OBVIOUS
  <2>1. PICK n : n = Depth[obs[l[i]].node]
    OBVIOUS
  <2>2. n + 0 = D /\ n \in Nat
    BY <1>2, <2>1
  <2> QED BY <2>1, <2>2
<1> QED BY <1>1, <1>3, LevelsDistinct DEF Falling, Levels

(* u and t, one after the other, of lengths a and b.                        *)
JoinedAs(u, t, whole, a, b) ==
  /\ a \in Nat /\ b \in Nat
  /\ DOMAIN u = 1..a /\ DOMAIN t = 1..b /\ DOMAIN whole = 1..(a + b)
  /\ \A i \in 1..a : whole[i] = u[i]
  /\ \A i \in 1..b : whole[a + i] = t[i]

LEMMA Joined ==
  ASSUME NEW S, NEW u \in Seq(S), NEW t \in Seq(S)
  PROVE  JoinedAs(u, t, u \o t, Len(u), Len(t)) /\ u \o t \in Seq(S)
<1>1. u \o t \in Seq(S) /\ Len(u \o t) = Len(u) + Len(t)
  OBVIOUS
<1>2. Len(u) \in Nat /\ Len(t) \in Nat /\ DOMAIN u = 1..Len(u) /\ DOMAIN t = 1..Len(t)
  OBVIOUS
<1>3. \A i \in 1..Len(u) : (u \o t)[i] = u[i]
  OBVIOUS
<1>4. \A i \in 1..Len(t) : (u \o t)[Len(u) + i] = t[i]
  OBVIOUS
<1>5. DOMAIN (u \o t) = 1..(Len(u) + Len(t))
  BY <1>1
<1> QED BY <1>1, <1>2, <1>3, <1>4, <1>5 DEF JoinedAs

(* One is taken from the queue and its children are added.                  *)
LEMMA FallGoesOn ==
  ASSUME NEW F, NEW D \in Int, NEW obs, ObjsOK(obs), NEW l, NEW q,
         NEW all, NEW a, NEW b, JoinedAs(l, q, all, a, b), b > 0, Falling(F, D, obs, l, all),
         \A i \in DOMAIN all : all[i] \in DOMAIN obs,
         NEW one, DOMAIN one = {1}, one[1] = q[1], NEW new, IsMade(new, obs, one, "*"),
         NEW grown, NEW added, GrownBy(grown, added, obs, new),
         NEW more, NEW t, JoinedAs(l, t, more, a, 1), t[1] = q[1],
         NEW every, NEW c, JoinedAs(all, added, every, a + b, c)
  PROVE  Falling(F, D, grown, more, every)
<1> DEFINE o == q[1]
           n == obs[o].node
<1>1. /\ ObjsOK(grown)
      /\ \A p \in DOMAIN obs : p \in DOMAIN grown /\ grown[p] = obs[p]
      /\ added \in Seq(DOMAIN grown) /\ DOMAIN added = DOMAIN new
      /\ \A i \in DOMAIN added : grown[added[i]] = new[i] /\ added[i] \notin DOMAIN obs
      /\ \A i, j \in DOMAIN added : added[i] = added[j] => i = j
  BY DEF GrownBy
<1>2. /\ F \in [Nat -> SUBSET DOMAIN obs] /\ Parented(F, obs) /\ OnceEach(F, obs) /\ Even(F, obs, D)
      /\ Distinct(obs, all)
      /\ \A i \in DOMAIN all : /\ Depth[obs[all[i]].node] >= D
                               /\ all[i] \in F[0] \/ \E j \in DOMAIN l : obs[all[i]].parent = l[j]
  BY DEF Falling
<1>3. \A k \in Nat : \A p \in F[k] : p \in DOMAIN obs /\ grown[p] = obs[p]
  BY <1>1, <1>2
<1>4. F \in [Nat -> SUBSET DOMAIN grown] /\ Parented(F, grown) /\ OnceEach(F, grown) /\ Even(F, grown, D)
  <2>1. F \in [Nat -> SUBSET DOMAIN grown]
    BY <1>1, <1>2
  <2>2. Parented(F, grown)
    BY <1>2, <1>3 DEF Parented
  <2>3. OnceEach(F, grown)
    BY <1>2, <1>3 DEF OnceEach
  <2>4. Even(F, grown, D)
    BY <1>2, <1>3 DEF Even
  <2> QED BY <2>1, <2>2, <2>3, <2>4
<1>5. /\ a \in Nat /\ b \in Nat /\ c \in Nat /\ b > 0
      /\ DOMAIN l = 1..a /\ DOMAIN q = 1..b /\ DOMAIN added = 1..c
  BY DEF JoinedAs
<1>6. /\ DOMAIN all = 1..(a + b)
      /\ \A i \in 1..a : all[i] = l[i]
      /\ all[a + 1] = o /\ a + 1 \in 1..(a + b)
      /\ o \in DOMAIN obs
  <2>1. 1 \in 1..b /\ a + 1 \in 1..(a + b)
    BY <1>5
  <2>2. /\ DOMAIN all = 1..(a + b)
        /\ \A i \in 1..a : all[i] = l[i]
        /\ \A i \in 1..b : all[a + i] = q[i]
    BY DEF JoinedAs
  <2>3. all[a + 1] \in DOMAIN obs
    BY <2>1, <2>2
  <2> QED BY <2>1, <2>2, <2>3
<1>7. /\ DOMAIN more = 1..(a + 1) /\ more[a + 1] = o
      /\ \A i \in 1..a : more[i] = l[i]
  BY DEF JoinedAs
<1>8. /\ DOMAIN every = 1..(a + b + c)
      /\ \A i \in 1..(a + b) : every[i] = all[i]
      /\ \A i \in 1..c : every[a + b + i] = added[i]
  BY DEF JoinedAs
<1> HIDE DEF o, n
<1>9. \A i \in 1..(a + b) : all[i] \in DOMAIN obs /\ grown[all[i]] = obs[all[i]]
  BY <1>1, <1>6
<1>10. \A i \in 1..c : /\ new[i].parent = o /\ new[i].node \in DOMAIN Up /\ Up[new[i].node] = n
                        /\ grown[added[i]] = new[i]
  <2> SUFFICES ASSUME NEW i \in 1..c
               PROVE  /\ new[i].parent = o /\ new[i].node \in DOMAIN Up /\ Up[new[i].node] = n
                      /\ grown[added[i]] = new[i]
    OBVIOUS
  <2>1. i \in DOMAIN new /\ grown[added[i]] = new[i]
    BY <1>1, <1>5
  <2>2. PICK j \in DOMAIN one : new[i].parent = one[j] /\ new[i].node \in Kids(obs[one[j]].node)
    BY <2>1 DEF IsMade
  <2>3. one[j] = o
    BY <2>2 DEF o
  <2> QED BY <2>1, <2>2, <2>3 DEF Kids, n
<1>11. Depth[n] \in Nat /\ Depth[n] >= D
  BY <1>2, <1>6, DepthOfParent DEF n
<1>12. \A i \in 1..c : Depth[new[i].node] = Depth[n] + 1 /\ new[i].node # 0
  BY <1>10, DepthIs, NodesAre
<1>13. \A i, j \in 1..(a + b) : obs[all[i]].node = obs[all[j]].node => i = j
  BY <1>2, <1>6 DEF Distinct
<1>14. ASSUME NEW i \in 1..c, NEW h \in 1..(a + b) PROVE obs[all[h]].node # new[i].node
  <2> SUFFICES ASSUME obs[all[h]].node = new[i].node PROVE FALSE
    OBVIOUS
  <2>1. CASE all[h] \in F[0]
    <3>1. Depth[obs[all[h]].node] + 0 = D
      BY <1>2, <2>1 DEF Even
    <3>2. PICK m : m = Depth[n]
      OBVIOUS
    <3>3. (m + 1) + 0 = D /\ m \in Nat /\ m >= D
      BY <1>11, <1>12, <3>1, <3>2
    <3> QED BY <3>3
  <2>2. ASSUME NEW j \in DOMAIN l, obs[all[h]].parent = l[j] PROVE FALSE
    <3>1. obs[all[h]].node # 0 /\ all[h] \in DOMAIN obs
      BY <1>9, <1>12
    <3>2. Up[obs[all[h]].node] = obs[obs[all[h]].parent].node
      BY <3>1 DEF ObjsOK
    <3>3. obs[l[j]].node = n
      BY <1>10, <2>2, <3>2
    <3>4. j \in 1..(a + b) /\ a + 1 \in 1..(a + b) /\ all[j] = l[j] /\ all[a + 1] = o /\ j # a + 1
      BY <1>5, <1>6
    <3>5. obs[all[j]].node = obs[all[a + 1]].node
      BY <3>3, <3>4 DEF n
    <3>6. j = a + 1
      BY <1>13, <3>4, <3>5
    <3> QED BY <3>4, <3>6
  <2>3. all[h] \in F[0] \/ \E j \in DOMAIN l : obs[all[h]].parent = l[j]
    BY <1>2, <1>6
  <2> QED BY <2>1, <2>2, <2>3
<1>15. \A i, j \in 1..c : new[i].node = new[j].node => i = j
  <2>1. Distinct(obs, one)
    BY DEF Distinct
  <2>2. DOMAIN new = 1..c
    BY <1>1, <1>5
  <2> QED BY <2>1, <2>2 DEF IsMade
<1>16. \A i \in 1..(a + b + c) : i \in 1..(a + b) \/ \E j \in 1..c : i = a + b + j
  <2> SUFFICES ASSUME NEW i \in 1..(a + b + c), i \notin 1..(a + b) PROVE \E j \in 1..c : i = a + b + j
    OBVIOUS
  <2>1. i - (a + b) \in 1..c /\ i = a + b + (i - (a + b))
    BY <1>5
  <2> QED BY <2>1
<1>17. Distinct(grown, every)
  <2> SUFFICES ASSUME NEW i \in 1..(a + b + c), NEW j \in 1..(a + b + c),
                      grown[every[i]].node = grown[every[j]].node
               PROVE  i = j
    BY <1>8 DEF Distinct
  <2>1. CASE i \in 1..(a + b) /\ j \in 1..(a + b)
    <3>1. every[i] = all[i] /\ every[j] = all[j]
      BY <1>8, <2>1
    <3>2. grown[all[i]] = obs[all[i]] /\ grown[all[j]] = obs[all[j]]
      BY <1>9, <2>1
    <3> QED BY <1>13, <2>1, <3>1, <3>2
  <2>2. ASSUME NEW f \in 1..(a + b), NEW h \in 1..c, grown[every[f]].node = grown[every[a + b + h]].node PROVE FALSE
    <3>1. every[f] = all[f] /\ grown[all[f]] = obs[all[f]]
      BY <1>8, <1>9
    <3>2. every[a + b + h] = added[h] /\ grown[added[h]] = new[h]
      BY <1>8, <1>10
    <3> QED BY <1>14, <2>2, <3>1, <3>2
  <2>3. ASSUME i \in 1..(a + b), NEW h \in 1..c, j = a + b + h PROVE FALSE
    BY <2>3, <2>2
  <2>4. ASSUME j \in 1..(a + b), NEW h \in 1..c, i = a + b + h PROVE FALSE
    BY <2>4, <2>2
  <2>5. ASSUME NEW g \in 1..c, i = a + b + g, NEW h \in 1..c, j = a + b + h PROVE i = j
    <3>1. every[a + b + g] = added[g] /\ every[a + b + h] = added[h]
      BY <1>8
    <3>2. grown[added[g]] = new[g] /\ grown[added[h]] = new[h]
      BY <1>10
    <3>3. g = h
      BY <1>15, <2>5, <3>1, <3>2
    <3> QED BY <2>5, <3>3
  <2> QED BY <1>16, <2>1, <2>3, <2>4, <2>5
<1>18. ASSUME NEW i \in 1..(a + b + c)
       PROVE  /\ Depth[grown[every[i]].node] >= D
              /\ every[i] \in F[0] \/ \E j \in DOMAIN more : grown[every[i]].parent = more[j]
  <2>1. CASE i \in 1..(a + b)
    <3>1. every[i] = all[i] /\ grown[every[i]] = obs[all[i]] /\ i \in DOMAIN all
      BY <1>6, <1>8, <1>9, <2>1
    <3>2. ASSUME NEW j \in DOMAIN l, obs[all[i]].parent = l[j]
          PROVE  \E k \in DOMAIN more : grown[every[i]].parent = more[k]
      BY <1>5, <1>7, <3>1, <3>2
    <3> QED BY <1>2, <3>1, <3>2
  <2>2. ASSUME NEW h \in 1..c, i = a + b + h
        PROVE  /\ Depth[grown[every[i]].node] >= D
               /\ \E j \in DOMAIN more : grown[every[i]].parent = more[j]
    <3>1. grown[every[i]] = new[h] /\ new[h].parent = o /\ Depth[new[h].node] = Depth[n] + 1
      BY <1>8, <1>10, <1>12, <2>2
    <3>2. PICK m : m = Depth[n]
      OBVIOUS
    <3>3. m + 1 >= D
      BY <1>11, <3>2
    <3>4. a + 1 \in DOMAIN more /\ more[a + 1] = o
      BY <1>5, <1>7
    <3> QED BY <3>1, <3>2, <3>3, <3>4
  <2> QED BY <1>16, <2>1, <2>2
<1> QED BY <1>4, <1>8, <1>17, <1>18 DEF Falling

(* All are passed: what is in the list or above where it began is one level. *)
LEMMA FallEnds ==
  ASSUME NEW F, NEW D \in Int, NEW obs, ObjsOK(obs), NEW l \in Seq(DOMAIN obs), Falling(F, D, obs, l, l)
  PROVE  \E H : Levels(H, obs, l)
<1> DEFINE top == {l[i] : i \in DOMAIN l}
           W == top \cup UNION {F[k + 1] : k \in Nat}
           H == [k \in Nat |-> W]
<1>1. /\ F \in [Nat -> SUBSET DOMAIN obs] /\ Parented(F, obs) /\ OnceEach(F, obs) /\ Even(F, obs, D)
      /\ Distinct(obs, l)
      /\ \A i \in DOMAIN l : /\ Depth[obs[l[i]].node] >= D
                             /\ l[i] \in F[0] \/ \E j \in DOMAIN l : obs[l[i]].parent = l[j]
  BY DEF Falling
<1>2. \A k \in Nat : k + 1 \in Nat /\ F[k + 1] \subseteq W /\ F[k] \subseteq DOMAIN obs
  BY <1>1
<1>3. top \subseteq DOMAIN obs /\ top \subseteq W /\ W \subseteq DOMAIN obs
  BY <1>1
<1>4. \A w \in W : w \in top \/ \E k \in Nat : w \in F[k + 1]
  OBVIOUS
<1>5. \A w \in top : \E i \in DOMAIN l : w = l[i]
  OBVIOUS
<1>6. \A i \in DOMAIN l : l[i] \in top
  OBVIOUS
<1> HIDE DEF W, top
<1>7. ASSUME NEW w \in W, obs[w].node # 0 PROVE obs[w].parent \in W
  <2>1. ASSUME NEW k \in Nat, w \in F[k] PROVE obs[w].parent \in W
    BY <1>1, <1>2, <1>7, <2>1 DEF Parented
  <2>2. CASE w \in top
    <3>1. PICK i \in DOMAIN l : w = l[i]
      BY <1>5, <2>2
    <3>2. CASE w \in F[0]
      BY <2>1, <3>2
    <3>3. ASSUME NEW j \in DOMAIN l, obs[w].parent = l[j] PROVE obs[w].parent \in W
      BY <1>3, <1>6, <3>3
    <3> QED BY <1>1, <3>1, <3>2, <3>3
  <2> QED BY <1>2, <1>4, <2>1, <2>2
<1>8. ASSUME NEW v \in top, NEW k \in Nat, NEW w \in F[k + 1], obs[v].node = obs[w].node PROVE FALSE
  <2>1. PICK i \in DOMAIN l : v = l[i]
    BY <1>5
  <2>2. Depth[obs[w].node] >= D /\ Depth[obs[w].node] + (k + 1) = D
    BY <1>1, <1>2, <1>8, <2>1 DEF Even
  <2>3. Depth[obs[w].node] \in Nat
    BY <1>2, DepthOfParent
  <2>4. PICK m : m = Depth[obs[w].node]
    OBVIOUS
  <2>5. m >= D /\ m + (k + 1) = D /\ m \in Nat
    BY <2>2, <2>3, <2>4
  <2> QED BY <2>5
<1>9. ASSUME NEW j \in Nat, NEW v \in F[j + 1], NEW k \in Nat, NEW w \in F[k + 1], obs[v].node = obs[w].node PROVE v = w
  <2>1. Depth[obs[w].node] + (k + 1) = D /\ Depth[obs[w].node] + (j + 1) = D /\ Depth[obs[w].node] \in Nat
    BY <1>1, <1>2, <1>9, DepthOfParent DEF Even
  <2>2. PICK m : m = Depth[obs[w].node]
    OBVIOUS
  <2>3. m + (k + 1) = D /\ m + (j + 1) = D /\ m \in Nat
    BY <2>1, <2>2
  <2>4. j = k
    BY <2>3
  <2> QED BY <1>1, <1>2, <1>9, <2>4 DEF OnceEach
<1>10. ASSUME NEW v \in W, NEW w \in W, obs[v].node = obs[w].node PROVE v = w
  <2>1. CASE v \in top /\ w \in top
    <3>1. PICK i \in DOMAIN l, j \in DOMAIN l : v = l[i] /\ w = l[j]
      BY <1>5, <2>1
    <3> QED BY <1>1, <1>10, <3>1 DEF Distinct
  <2>2. CASE v \in top /\ w \notin top
    BY <1>4, <1>8, <1>10, <2>2
  <2>3. CASE v \notin top /\ w \in top
    BY <1>4, <1>8, <1>10, <2>3
  <2>4. CASE v \notin top /\ w \notin top
    BY <1>4, <1>9, <1>10, <2>4
  <2> QED BY <2>1, <2>2, <2>3, <2>4
<1>11. \A k \in Nat : H[k] = W /\ k + 1 \in Nat
  OBVIOUS
<1>12. H \in [Nat -> SUBSET DOMAIN obs]
  BY <1>3
<1> HIDE DEF H
<1>13. Parented(H, obs) /\ OnceEach(H, obs)
  BY <1>7, <1>10, <1>11 DEF Parented, OnceEach
<1>14. \A i, j \in DOMAIN l : l[i] = l[j] => i = j
  BY <1>1 DEF Distinct
<1>15. \A i \in DOMAIN l : l[i] \in H[0]
  BY <1>3, <1>6, <1>11
<1>16. Levels(H, obs, l)
  BY <1>12, <1>13, <1>14, <1>15 DEF Levels
<1> QED BY <1>16

(***************************************************************************)
(* The invariant                                                           *)
(***************************************************************************)
OnceDeep(path) == \A i, j \in DOMAIN path.steps : IsDeepStep(path.steps[i]) /\ IsDeepStep(path.steps[j]) => i = j
NoneDeep(path, n) == \A i \in 1..n : ~IsDeepStep(path.steps[i])

(* Before step s, at predicate d.  Levels are depths until a step goes down   *)
(* to all descendants; it is only one, which is why this is enough.          *)
OnceSoFar(obs, l, q, path, s, d) ==
  IF d # 0 /\ IsDeepStep(path.steps[s])
  THEN \E F : \E D \in Int : Falling(F, D, obs, l, l \o q)
  ELSE \E F : Levels(F, obs, l) /\ (NoneDeep(path, s - 1) => \E D \in Int : Even(F, obs, D))

OnceApplies == expr.op = "nodes" /\ OnceDeep(expr.args[1])

(* No node twice in the list, nor on any level above it, and in the middle of *)
(* // neither in what is passed nor in what is queued.                      *)
OnceInv ==
  OnceApplies =>
    /\ result = "none" =>
         IF position.step # 0
         THEN OnceSoFar(objs, list, queue, expr.args[1], position.step, position.pred)
         ELSE position.arg > 1 => Distinct(objs, operands[1].v)
    /\ result = "nodes" => Distinct(objs, list)

LEMMA OnceChild ==
  ASSUME NEW obs, ObjsOK(obs), NEW l \in Seq(DOMAIN obs), NEW q, NEW path, NEW s,
         OnceSoFar(obs, l, q, path, s, 0), ~IsDeepStep(path.steps[s]),
         NEW test, NEW new, IsMade(new, obs, l, test),
         NEW grown, NEW added, GrownBy(grown, added, obs, new), NEW r
  PROVE  OnceSoFar(grown, added, r, path, s, 1)
<1>1. PICK F : Levels(F, obs, l) /\ (NoneDeep(path, s - 1) => \E D \in Int : Even(F, obs, D))
  BY DEF OnceSoFar
<1>2. PICK H : Levels(H, grown, added) /\ \A D \in Int : Even(F, obs, D) => Even(H, grown, D + 1)
  BY <1>1, ChildOnce
<1>3. \A D \in Int : D + 1 \in Int
  OBVIOUS
<1>4. NoneDeep(path, s - 1) => \E D \in Int : Even(H, grown, D)
  BY <1>1, <1>2, <1>3
<1> QED BY <1>2, <1>4 DEF OnceSoFar

LEMMA OnceParent ==
  ASSUME NEW obs, ObjsOK(obs), NEW l \in Seq(DOMAIN obs), NEW q, NEW path, NEW s,
         OnceSoFar(obs, l, q, path, s, 0), ~IsDeepStep(path.steps[s]),
         NEW ps, AreParents(ps, obs, l), NEW r
  PROVE  OnceSoFar(obs, ps, r, path, s, 1)
<1>1. PICK F : Levels(F, obs, l) /\ (NoneDeep(path, s - 1) => \E D \in Int : Even(F, obs, D))
  BY DEF OnceSoFar
<1>2. PICK H : Levels(H, obs, ps) /\ \A D \in Int : Even(F, obs, D) => Even(H, obs, D - 1)
  BY <1>1, ParentOnce
<1>3. \A D \in Int : D - 1 \in Int
  OBVIOUS
<1>4. NoneDeep(path, s - 1) => \E D \in Int : Even(H, obs, D)
  BY <1>1, <1>2, <1>3
<1> QED BY <1>2, <1>4 DEF OnceSoFar

LEMMA OnceSelf ==
  ASSUME NEW obs, NEW l, NEW q, NEW path, NEW s,
         OnceSoFar(obs, l, q, path, s, 0), ~IsDeepStep(path.steps[s]), NEW r
  PROVE  OnceSoFar(obs, l, r, path, s, 1)
BY DEF OnceSoFar

LEMMA OnceDown ==
  ASSUME NEW obs, ObjsOK(obs), NEW l \in Seq(DOMAIN obs), NEW q, NEW path, NEW s \in DOMAIN path.steps,
         IsPath(path), OnceDeep(path), OnceSoFar(obs, l, q, path, s, 0), IsDeepStep(path.steps[s])
  PROVE  OnceSoFar(obs, <<>>, l, path, s, 1)
<1>1. PICK F : Levels(F, obs, l) /\ (NoneDeep(path, s - 1) => \E D \in Int : Even(F, obs, D))
  BY DEF OnceSoFar
<1>2. NoneDeep(path, s - 1)
  <2>1. DOMAIN path.steps = 1..Len(path.steps) /\ Len(path.steps) \in Nat
    BY PathIs
  <2>2. \A i \in 1..(s - 1) : i \in DOMAIN path.steps /\ i # s
    BY <2>1
  <2> QED BY <2>2 DEF NoneDeep, OnceDeep
<1>3. PICK D \in Int : Even(F, obs, D)
  BY <1>1, <1>2
<1>4. Falling(F, D, obs, <<>>, l)
  BY <1>1, <1>3, FallBegins
<1>5. <<>> \o l = l
  OBVIOUS
<1> QED BY <1>4, <1>5 DEF OnceSoFar

LEMMA OnceFilter ==
  ASSUME NEW obs, NEW l, NEW q, NEW path, NEW s, NEW d,
         OnceSoFar(obs, l, q, path, s, d), ~IsDeepStep(path.steps[s]),
         NEW kept, NEW w, NEW K, K \subseteq DOMAIN l, DOMAIN l \subseteq Nat, DOMAIN kept \subseteq Nat,
         PickedBy(kept, w, l, K), NEW r, NEW e
  PROVE  OnceSoFar(obs, kept, r, path, s, e)
<1>1. PICK F : Levels(F, obs, l) /\ (NoneDeep(path, s - 1) => \E D \in Int : Even(F, obs, D))
  BY DEF OnceSoFar
<1>2. Levels(F, obs, kept)
  BY <1>1, FilterOnce
<1> QED BY <1>1, <1>2 DEF OnceSoFar

LEMMA OnceNextStep ==
  ASSUME NEW obs, ObjsOK(obs), NEW l \in Seq(DOMAIN obs), NEW path, NEW s \in Nat \ {0}, NEW d, d # 0,
         OnceSoFar(obs, l, <<>>, path, s, d), NEW r
  PROVE  OnceSoFar(obs, l, r, path, s + 1, 0)
<1>1. s \in 1..s /\ (s + 1) - 1 = s
  OBVIOUS
<1>2. CASE IsDeepStep(path.steps[s])
  <2>1. PICK F : \E D \in Int : Falling(F, D, obs, l, l \o <<>>)
    BY <1>2 DEF OnceSoFar
  <2>2. PICK D \in Int : Falling(F, D, obs, l, l \o <<>>)
    BY <2>1
  <2>3. l \o <<>> = l
    OBVIOUS
  <2>4. PICK H : Levels(H, obs, l)
    BY <2>2, <2>3, FallEnds
  <2>5. ~NoneDeep(path, s)
    BY <1>1, <1>2 DEF NoneDeep
  <2> QED BY <1>1, <2>4, <2>5 DEF OnceSoFar
<1>3. CASE ~IsDeepStep(path.steps[s])
  <2>1. PICK F : Levels(F, obs, l) /\ (NoneDeep(path, s - 1) => \E D \in Int : Even(F, obs, D))
    BY <1>3 DEF OnceSoFar
  <2>2. NoneDeep(path, s) => NoneDeep(path, s - 1)
    <3>1. \A i \in 1..(s - 1) : i \in 1..s
      OBVIOUS
    <3> QED BY <3>1 DEF NoneDeep
  <2> QED BY <1>1, <2>1, <2>2 DEF OnceSoFar
<1> QED BY <1>2, <1>3

(* Nothing is passed over.                                                  *)
LEMMA OnceFresh ==
  ASSUME NEW obs, NEW l \in Seq(DOMAIN obs), NEW q \in Seq(DOMAIN obs), q # <<>>,
         NEW path, NEW s, NEW d, d # 0, IsDeepStep(path.steps[s]), OnceSoFar(obs, l, q, path, s, d),
         NEW i \in DOMAIN l
  PROVE  l[i] # Head(q)
<1>1. PICK F : \E D \in Int : Falling(F, D, obs, l, l \o q)
  BY DEF OnceSoFar
<1>2. PICK all : all = l \o q
  OBVIOUS
<1>3. Distinct(obs, all)
  BY <1>1, <1>2 DEF Falling
<1>4. JoinedAs(l, q, all, Len(l), Len(q))
  BY <1>2, Joined
<1>5. PICK a, b : a = Len(l) /\ b = Len(q)
  OBVIOUS
<1>6. /\ a \in Nat /\ b \in Nat /\ b > 0 /\ i \in 1..a /\ 1 \in 1..b /\ Head(q) = q[1]
  BY <1>5
<1>7. /\ DOMAIN all = 1..(a + b) /\ \A h \in 1..a : all[h] = l[h]
      /\ \A h \in 1..b : all[a + h] = q[h]
  BY <1>4, <1>5 DEF JoinedAs
<1>8. all[i] = l[i] /\ all[a + 1] = Head(q) /\ i \in DOMAIN all /\ a + 1 \in DOMAIN all /\ i # a + 1
  BY <1>6, <1>7
<1> QED BY <1>3, <1>8 DEF Distinct

LEMMA OnceMore ==
  ASSUME NEW obs, ObjsOK(obs), NEW l \in Seq(DOMAIN obs), NEW q \in Seq(DOMAIN obs), q # <<>>,
         NEW path, NEW s, NEW d, d # 0, IsDeepStep(path.steps[s]), OnceSoFar(obs, l, q, path, s, d),
         NEW one, DOMAIN one = {1}, one[1] = Head(q), NEW new, IsMade(new, obs, one, "*"),
         NEW grown, NEW added, GrownBy(grown, added, obs, new)
  PROVE  OnceSoFar(grown, Append(l, Head(q)), Tail(q) \o added, path, s, d)
<1>1. PICK F : \E D \in Int : Falling(F, D, obs, l, l \o q)
  BY DEF OnceSoFar
<1>2. PICK D \in Int : Falling(F, D, obs, l, l \o q)
  BY <1>1
<1>3. PICK all : all = l \o q
  OBVIOUS
<1>4. PICK a, b : a = Len(l) /\ b = Len(q)
  OBVIOUS
<1>5. JoinedAs(l, q, all, a, b) /\ all \in Seq(DOMAIN obs)
  BY <1>3, <1>4, Joined
<1>6. a \in Nat /\ b \in Nat /\ b > 0 /\ Head(q) = q[1] /\ Head(q) \in DOMAIN obs
  BY <1>4
<1>7. PICK t : t = <<Head(q)>>
  OBVIOUS
<1>8. t \in Seq(DOMAIN obs) /\ Len(t) = 1 /\ t[1] = q[1]
  BY <1>6, <1>7
<1>9. PICK more : more = l \o t
  OBVIOUS
<1>10. JoinedAs(l, t, more, a, 1)
  BY <1>4, <1>8, <1>9, Joined
<1>11. added \in Seq(DOMAIN grown) /\ \A o \in DOMAIN obs : o \in DOMAIN grown
  BY DEF GrownBy
<1>12. /\ l \in Seq(DOMAIN grown) /\ q \in Seq(DOMAIN grown) /\ all \in Seq(DOMAIN grown)
       /\ t \in Seq(DOMAIN grown)
  <2>1. \A u \in Seq(DOMAIN obs) : u \in Seq(DOMAIN grown)
    BY <1>11
  <2> QED BY <1>5, <1>8, <2>1
<1>13. PICK every : every = all \o added
  OBVIOUS
<1>14. Len(all) = a + b
  BY <1>3, <1>4
<1>15. JoinedAs(all, added, every, a + b, Len(added))
  BY <1>11, <1>12, <1>13, <1>14, Joined
<1>16. \A i \in DOMAIN all : all[i] \in DOMAIN obs
  BY <1>5
<1>17. Falling(F, D, obs, l, all)
  BY <1>2, <1>3
<1>18. one[1] = q[1]
  BY <1>6
<1>19. Falling(F, D, grown, more, every)
  BY <1>5, <1>6, <1>8, <1>10, <1>15, <1>16, <1>17, <1>18, FallGoesOn
<1>20. more = Append(l, Head(q))
  BY <1>7, <1>9
<1>21. every = Append(l, Head(q)) \o (Tail(q) \o added)
  <2>1. q = t \o Tail(q) /\ Tail(q) \in Seq(DOMAIN grown)
    BY <1>7, <1>12
  <2>2. all = (l \o t) \o Tail(q)
    <3>1. PICK rest \in Seq(DOMAIN grown) : rest = Tail(q)
      BY <2>1
    <3>2. l \o (t \o rest) = (l \o t) \o rest
      BY <1>12
    <3> QED BY <1>3, <2>1, <3>1, <3>2
  <2>3. more \in Seq(DOMAIN grown)
    BY <1>9, <1>12
  <2>4. (more \o Tail(q)) \o added = more \o (Tail(q) \o added)
    BY <1>11, <2>1, <2>3
  <2> QED BY <1>9, <1>13, <1>20, <2>2, <2>4
<1>22. Falling(F, D, grown, Append(l, Head(q)), Append(l, Head(q)) \o (Tail(q) \o added))
  BY <1>19, <1>20, <1>21
<1> QED BY <1>22 DEF OnceSoFar


(* On a path the invariant is about.                                        *)
OncePathNow ==
  /\ ObjsOK(objs) /\ InPathNow /\ OnceDeep(XP!Arg) /\ position.arg = 1 /\ XP!Arg = expr.args[1]
  /\ OnceSoFar(objs, list, queue, XP!Arg, position.step, position.pred)

LEMMA OnlyArgument ==
  ASSUME XP!ExprOK, OnceApplies, position.arg \in DOMAIN expr.args
  PROVE  position.arg = 1 /\ XP!Arg = expr.args[1]
<1>1. DOMAIN expr.args = 1..ArgsOf(expr)
  BY ArgumentsAre
<1>2. ArgsOf(expr) = 1
  BY DEF OnceApplies, ArgsOf
<1>3. position.arg = 1
  BY <1>1, <1>2
<1> QED BY <1>3 DEF XP!Arg

LEMMA OnPath ==
  ASSUME EvalInv, OnceInv, OnceApplies, result = "none", position.step # 0
  PROVE  OncePathNow
<1>1. InPathNow
  BY PathNow
<1>2. position.arg = 1 /\ XP!Arg = expr.args[1]
  BY <1>1, OnlyArgument DEF EvalInv, InPathNow
<1>3. OnceSoFar(objs, list, queue, XP!Arg, position.step, position.pred)
  BY <1>2 DEF OnceInv
<1> QED BY <1>1, <1>2, <1>3 DEF OncePathNow, OnceApplies, EvalInv

(* The path goes on.                                                        *)
LEMMA OnceGoesOn ==
  ASSUME OnceApplies => /\ result = "none" /\ result' \in {"none", "unsupported"} /\ position'.step # 0
                        /\ XP!Arg = expr.args[1]
                        /\ result' = "none" =>
                             OnceSoFar(objs', list', queue', XP!Arg, position'.step, position'.pred),
         UNCHANGED expr
  PROVE  OnceInv'
<1>1. OnceApplies' <=> OnceApplies
  BY DEF OnceApplies
<1>2. ASSUME OnceApplies
      PROVE  /\ result' # "nodes" /\ position'.step # 0
             /\ result' = "none" => OnceSoFar(objs', list', queue', expr'.args[1], position'.step, position'.pred)
  BY <1>2
<1> QED BY <1>1, <1>2 DEF OnceInv

(* What a step on an axis finds.                                            *)
LEMMA OnAxisOnce ==
  ASSUME EvalInv, OnceInv, OnceApplies, NEW axis, XP!OnAxis(axis)
  PROVE  /\ OncePathNow /\ result = "none" /\ result' = "none" /\ UNCHANGED expr
         /\ OnceSoFar(objs, list, queue, XP!Arg, position.step, 0)
         /\ list \in Seq(DOMAIN objs) /\ position.step \in DOMAIN XP!Arg.steps /\ IsPath(XP!Arg)
         /\ IsDeepStep(XP!Arg.steps[position.step]) <=> axis = "descendant-or-self"
         /\ position'.step = position.step /\ position'.pred = 1 /\ position'.step # 0
<1>1. /\ InPathNow /\ result = "none" /\ position.step # 0
      /\ position.step \in DOMAIN XP!Arg.steps /\ XP!Arg.steps[position.step].axis = axis
      /\ position' = [position EXCEPT !.pred = 1]
  BY OnAxisFinds
<1>2. OncePathNow
  BY <1>1, OnPath
<1>3. position.pred = 0 /\ UNCHANGED <<expr, result>>
  BY DEF XP!OnAxis
<1>4. position'.step = position.step /\ position'.pred = 1
  BY <1>1 DEF InPathNow
<1>5. OnceSoFar(objs, list, queue, XP!Arg, position.step, 0)
  BY <1>2, <1>3 DEF OncePathNow
<1> QED BY <1>1, <1>2, <1>3, <1>4, <1>5 DEF InPathNow, IsDeepStep

LEMMA ChildStaysOnce == ASSUME EvalInv, OnceInv, XP!Child PROVE OnceInv'
<1> DEFINE new == MadeBelow(objs, list, XP!Arg.steps[position.step].test)
<1>1. /\ XP!OnAxis("child") /\ objs' = objs \o new /\ list' = XP!Numbers(Len(objs), Len(new))
  BY DEF XP!Child, MadeBelow, NodesNamed, XP!Step, XP!Node
<1> HIDE DEF new
<1>2. ASSUME OnceApplies
      PROVE  /\ result = "none" /\ result' = "none" /\ XP!Arg = expr.args[1] /\ position'.step # 0
             /\ OnceSoFar(objs', list', queue', XP!Arg, position'.step, position'.pred)
  <2>1. /\ OncePathNow /\ result = "none" /\ result' = "none"
        /\ OnceSoFar(objs, list, queue, XP!Arg, position.step, 0)
        /\ list \in Seq(DOMAIN objs) /\ position.step \in DOMAIN XP!Arg.steps
        /\ ~IsDeepStep(XP!Arg.steps[position.step])
        /\ position'.step = position.step /\ position'.pred = 1 /\ position'.step # 0
    BY <1>1, <1>2, OnAxisOnce
  <2>2. ObjsOK(objs) /\ XP!Arg = expr.args[1]
    BY <2>1 DEF OncePathNow
  <2>3. IsMade(new, objs, list, XP!Arg.steps[position.step].test)
    BY <2>1, <2>2, MadeAre DEF new
  <2>4. GrownBy(objs', list', objs, new)
    BY <1>1, <2>1, <2>2, <2>3, GrownIs
  <2>5. PICK obs, l, q, path, s, made, grown, added, r :
          /\ obs = objs /\ l = list /\ q = queue /\ path = XP!Arg /\ s = position.step
          /\ made = new /\ grown = objs' /\ added = list' /\ r = queue'
    OBVIOUS
  <2>6. /\ ObjsOK(obs) /\ l \in Seq(DOMAIN obs) /\ OnceSoFar(obs, l, q, path, s, 0)
        /\ ~IsDeepStep(path.steps[s])
    BY <2>1, <2>2, <2>5
  <2>7. IsMade(made, obs, l, path.steps[s].test)
    BY <2>3, <2>5
  <2>8. GrownBy(grown, added, obs, made)
    BY <2>4, <2>5
  <2>9. OnceSoFar(grown, added, r, path, s, 1)
    BY <2>6, <2>7, <2>8, OnceChild
  <2> QED BY <2>1, <2>2, <2>5, <2>9
<1>3. UNCHANGED expr
  BY <1>1 DEF XP!OnAxis
<1> QED BY <1>2, <1>3, OnceGoesOn

LEMMA ParentStaysOnce == ASSUME EvalInv, OnceInv, XP!Parent PROVE OnceInv'
<1>1. XP!OnAxis("parent") /\ list' = ParentsOf(objs, list) /\ objs' = objs
  BY DEF XP!Parent, XP!Parents, ParentsOf
<1>2. ASSUME OnceApplies
      PROVE  /\ result = "none" /\ result' = "none" /\ XP!Arg = expr.args[1] /\ position'.step # 0
             /\ OnceSoFar(objs', list', queue', XP!Arg, position'.step, position'.pred)
  <2>1. /\ OncePathNow /\ result = "none" /\ result' = "none"
        /\ OnceSoFar(objs, list, queue, XP!Arg, position.step, 0)
        /\ list \in Seq(DOMAIN objs) /\ position.step \in DOMAIN XP!Arg.steps
        /\ ~IsDeepStep(XP!Arg.steps[position.step])
        /\ position'.step = position.step /\ position'.pred = 1 /\ position'.step # 0
    BY <1>1, <1>2, OnAxisOnce
  <2>2. ObjsOK(objs) /\ XP!Arg = expr.args[1]
    BY <2>1 DEF OncePathNow
  <2>3. AreParents(list', objs, list)
    BY <1>1, <2>1, <2>2, ParentsAre
  <2>4. PICK obs, l, q, path, s, ps, r :
          /\ obs = objs /\ l = list /\ q = queue /\ path = XP!Arg /\ s = position.step
          /\ ps = list' /\ r = queue'
    OBVIOUS
  <2>5. /\ ObjsOK(obs) /\ l \in Seq(DOMAIN obs) /\ OnceSoFar(obs, l, q, path, s, 0)
        /\ ~IsDeepStep(path.steps[s]) /\ AreParents(ps, obs, l)
    BY <2>1, <2>2, <2>3, <2>4
  <2>6. OnceSoFar(obs, ps, r, path, s, 1)
    BY <2>5, OnceParent
  <2> QED BY <1>1, <2>1, <2>2, <2>4, <2>6
<1>3. UNCHANGED expr
  BY <1>1 DEF XP!OnAxis
<1> QED BY <1>2, <1>3, OnceGoesOn

LEMMA SelfStaysOnce == ASSUME EvalInv, OnceInv, XP!Self PROVE OnceInv'
<1>1. XP!OnAxis("self") /\ list' = list /\ objs' = objs /\ queue' = queue
  BY DEF XP!Self
<1>2. ASSUME OnceApplies
      PROVE  /\ result = "none" /\ result' = "none" /\ XP!Arg = expr.args[1] /\ position'.step # 0
             /\ OnceSoFar(objs', list', queue', XP!Arg, position'.step, position'.pred)
  <2>1. /\ OncePathNow /\ result = "none" /\ result' = "none"
        /\ OnceSoFar(objs, list, queue, XP!Arg, position.step, 0)
        /\ ~IsDeepStep(XP!Arg.steps[position.step])
        /\ position'.step = position.step /\ position'.pred = 1 /\ position'.step # 0
    BY <1>1, <1>2, OnAxisOnce
  <2>2. OnceSoFar(objs, list, queue, XP!Arg, position.step, 1)
    BY <2>1, OnceSelf
  <2> QED BY <1>1, <2>1, <2>2 DEF OncePathNow
<1>3. UNCHANGED expr
  BY <1>1 DEF XP!OnAxis
<1> QED BY <1>2, <1>3, OnceGoesOn

LEMMA DownStaysOnce == ASSUME EvalInv, OnceInv, XP!DescendantOrSelf PROVE OnceInv'
<1>1. XP!OnAxis("descendant-or-self") /\ list' = <<>> /\ objs' = objs /\ queue' = list
  BY DEF XP!DescendantOrSelf
<1>2. ASSUME OnceApplies
      PROVE  /\ result = "none" /\ result' = "none" /\ XP!Arg = expr.args[1] /\ position'.step # 0
             /\ OnceSoFar(objs', list', queue', XP!Arg, position'.step, position'.pred)
  <2>1. /\ OncePathNow /\ result = "none" /\ result' = "none"
        /\ OnceSoFar(objs, list, queue, XP!Arg, position.step, 0)
        /\ list \in Seq(DOMAIN objs) /\ position.step \in DOMAIN XP!Arg.steps /\ IsPath(XP!Arg)
        /\ IsDeepStep(XP!Arg.steps[position.step])
        /\ position'.step = position.step /\ position'.pred = 1 /\ position'.step # 0
    BY <1>1, <1>2, OnAxisOnce
  <2>2. ObjsOK(objs) /\ OnceDeep(XP!Arg) /\ XP!Arg = expr.args[1]
    BY <2>1 DEF OncePathNow
  <2>3. OnceSoFar(objs, <<>>, list, XP!Arg, position.step, 1)
    BY <2>1, <2>2, OnceDown
  <2> QED BY <1>1, <2>1, <2>2, <2>3
<1>3. UNCHANGED expr
  BY <1>1 DEF XP!OnAxis
<1> QED BY <1>2, <1>3, OnceGoesOn

LEMMA PopBelowStaysOnce == ASSUME EvalInv, OnceInv, XP!PopBelow PROVE OnceInv'
<1>1. result = "none" /\ queue # <<>> /\ UNCHANGED <<expr, context, position, merged, operands, result>>
  BY DEF XP!PopBelow
<1>2. position.step # 0
  BY <1>1 DEF EvalInv, Going
<1>3. ASSUME OnceApplies
      PROVE  /\ XP!Arg = expr.args[1]
             /\ OnceSoFar(objs', list', queue', XP!Arg, position.step, position.pred)
  <2>1. OncePathNow
    BY <1>1, <1>2, <1>3, OnPath
  <2>2. PICK obs, l, q, path, s, d :
          /\ obs = objs /\ l = list /\ q = queue /\ path = XP!Arg
          /\ s = position.step /\ d = position.pred
    OBVIOUS
  <2>3. /\ ObjsOK(obs) /\ l \in Seq(DOMAIN obs) /\ q \in Seq(DOMAIN obs) /\ q # <<>>
        /\ OnceSoFar(obs, l, q, path, s, d)
    BY <1>1, <2>1, <2>2 DEF OncePathNow, InPathNow
  <2>4. d # 0 /\ IsDeepStep(path.steps[s])
    BY <1>1, <2>1, <2>2 DEF OncePathNow, InPathNow, InPath
  <2>5. Head(q) \notin XP!Range(l)
    <3>1. \A i \in DOMAIN l : l[i] # Head(q)
      BY <2>3, <2>4, OnceFresh
    <3> QED BY <3>1 DEF XP!Range
  <2>6. PICK made : made = XP!Made(Head(q), XP!ChildrenOf(obs[Head(q)].node))
    OBVIOUS
  <2>7. Head(q) \in DOMAIN obs
    BY <2>3, NodesOfTail
  <2>8. /\ list' = Append(l, Head(q))
        /\ queue' = Tail(q) \o XP!Numbers(Len(obs), Len(made))
        /\ objs' = obs \o made
    <3>1. Len(made) = Len(XP!ChildrenOf(obs[Head(q)].node))
      BY <2>3, <2>6, ChildrenMade
    <3> QED BY <2>2, <2>5, <2>6, <3>1 DEF XP!PopBelow, XP!Node
  <2>9. made = MadeBelow(obs, <<Head(q)>>, "*")
    BY <2>3, <2>6, <2>7, MadeOfOne
  <2>10. PICK one : one = <<Head(q)>>
    OBVIOUS
  <2>11. one \in Seq(DOMAIN obs) /\ DOMAIN one = {1} /\ one[1] = Head(q)
    BY <2>7, <2>10
  <2>12. IsMade(made, obs, one, "*")
    BY <2>3, <2>9, <2>10, <2>11, MadeAre
  <2>13. PICK grown, added : grown = obs \o made /\ added = XP!Numbers(Len(obs), Len(made))
    OBVIOUS
  <2>14. GrownBy(grown, added, obs, made)
    BY <2>3, <2>11, <2>12, <2>13, GrownIs
  <2>15. OnceSoFar(grown, Append(l, Head(q)), Tail(q) \o added, path, s, d)
    BY <2>3, <2>4, <2>11, <2>12, <2>14, OnceMore
  <2>16. OnceSoFar(objs', list', queue', path, s, d)
    BY <2>8, <2>13, <2>15
  <2> QED BY <2>1, <2>2, <2>16 DEF OncePathNow
<1> QED BY <1>1, <1>2, <1>3, OnceGoesOn

LEMMA FilterStaysOnce == ASSUME EvalInv, OnceInv, XP!Filter PROVE OnceInv'
<1>1. /\ result = "none" /\ queue = <<>> /\ position.step > 0
      /\ UNCHANGED <<expr, context, objs, queue, merged, operands>>
  BY DEF XP!Filter
<1>2. position.step # 0
  <2>1. position.step \in Nat
    BY <1>1 DEF EvalInv, Going
  <2> QED BY <1>1, <2>1
<1>3. ASSUME OnceApplies
      PROVE  /\ result' \in {"none", "unsupported"} /\ XP!Arg = expr.args[1] /\ position'.step # 0
             /\ result' = "none" => OnceSoFar(objs', list', queue', XP!Arg, position'.step, position'.pred)
  <2>1. OncePathNow
    BY <1>1, <1>2, <1>3, OnPath
  <2>2. PICK obs, l, q, path, s, d, pr :
          /\ obs = objs /\ l = list /\ q = queue /\ path = XP!Arg
          /\ s = position.step /\ d = position.pred /\ pr = path.steps[s].preds[d]
    OBVIOUS
  <2>3. /\ l \in Seq(DOMAIN obs) /\ OnceSoFar(obs, l, q, path, s, d) /\ IsPath(path)
        /\ position \in [arg : Nat, step : Nat, pred : Nat]
    BY <2>1, <2>2 DEF OncePathNow, InPathNow
  <2>4. s \in DOMAIN path.steps /\ d \in DOMAIN path.steps[s].preds
    BY <2>2 DEF XP!Filter, XP!Step
  <2>5. ~IsDeepStep(path.steps[s])
    <3>1. XP!StepOK(path.steps[s])
      BY <2>3, <2>4, PathIs
    <3>2. IsDeepStep(path.steps[s]) => path.steps[s].preds = <<>>
      BY <3>1 DEF XP!StepOK, IsDeepStep
    <3> QED BY <2>4, <3>2
  <2>6. CASE \E i \in DOMAIN list : XP!NotEvaluated(pr, XP!Node(list[i]))
    <3>1. result' = "unsupported" /\ UNCHANGED position
      BY <2>2, <2>6 DEF XP!Filter, XP!Step
    <3> QED BY <1>2, <2>1, <3>1 DEF OncePathNow
  <2>7. CASE ~\E i \in DOMAIN list : XP!NotEvaluated(pr, XP!Node(list[i]))
    <3>1. PICK K : K = {i \in DOMAIN l : XP!Keeps(pr, i, obs[l[i]].node, Len(l))}
      OBVIOUS
    <3>2. /\ list' = XP!Picked(l, K) /\ position' = [position EXCEPT !.pred = @ + 1] /\ result' = "none"
      BY <1>1, <2>2, <2>7, <3>1 DEF XP!Filter, XP!Step, XP!Node
    <3>3. K \subseteq 1..Len(l) /\ K \subseteq DOMAIN l /\ DOMAIN l \subseteq Nat
      BY <2>3, <3>1
    <3>4. PICK kept : kept = XP!Picked(l, K)
      OBVIOUS
    <3>5. kept \in Seq(DOMAIN obs) /\ \E w : PickedBy(kept, w, l, K)
      BY <2>3, <3>3, <3>4, PickedIs
    <3>6. PICK w : PickedBy(kept, w, l, K)
      BY <3>5
    <3>7. DOMAIN kept \subseteq Nat
      BY <3>5
    <3>8. PICK e : e = position'.pred
      OBVIOUS
    <3>9. OnceSoFar(obs, kept, q, path, s, e)
      BY <2>3, <2>5, <3>3, <3>6, <3>7, OnceFilter
    <3>10. position'.step = s
      BY <2>2, <2>3, <3>2
    <3> QED BY <1>1, <1>2, <2>1, <2>2, <3>2, <3>4, <3>8, <3>9, <3>10 DEF OncePathNow
  <2> QED BY <2>6, <2>7
<1> QED BY <1>1, <1>3, OnceGoesOn

LEMMA NextStepStaysOnce == ASSUME EvalInv, OnceInv, XP!NextStep PROVE OnceInv'
<1>1. /\ result = "none" /\ queue = <<>> /\ position.step > 0
      /\ position.step \in DOMAIN XP!Arg.steps /\ position.pred > Len(XP!Arg.steps[position.step].preds)
      /\ UNCHANGED <<expr, context, objs, list, queue, merged, operands, result>>
      /\ position' = [position EXCEPT !.step = @ + 1, !.pred = 0]
  BY DEF XP!NextStep, XP!Step
<1>2. position.step # 0
  <2>1. position.step \in Nat
    BY <1>1 DEF EvalInv, Going
  <2> QED BY <1>1, <2>1
<1>3. ASSUME OnceApplies
      PROVE  /\ XP!Arg = expr.args[1] /\ position'.step # 0
             /\ OnceSoFar(objs', list', queue', XP!Arg, position'.step, position'.pred)
  <2>1. OncePathNow
    BY <1>1, <1>2, <1>3, OnPath
  <2>2. PICK obs, l, path, s, d :
          /\ obs = objs /\ l = list /\ path = XP!Arg /\ s = position.step /\ d = position.pred
    OBVIOUS
  <2>3. /\ ObjsOK(obs) /\ l \in Seq(DOMAIN obs) /\ OnceSoFar(obs, l, <<>>, path, s, d) /\ IsPath(path)
        /\ position \in [arg : Nat, step : Nat, pred : Nat]
    BY <1>1, <2>1, <2>2 DEF OncePathNow, InPathNow
  <2>4. d # 0
    <3>1. XP!StepOK(path.steps[s])
      BY <1>1, <2>2, <2>3, PathIs
    <3>2. PICK preds : preds = path.steps[s].preds
      OBVIOUS
    <3>3. preds \in Seq(XP!Range(preds))
      BY <3>1, <3>2 DEF XP!StepOK
    <3>4. Len(preds) \in Nat /\ d \in Nat /\ d > Len(preds)
      BY <1>1, <2>2, <2>3, <3>2, <3>3
    <3> QED BY <3>4
  <2>5. s \in Nat \ {0}
    BY <1>2, <2>2, <2>3
  <2>6. OnceSoFar(obs, l, <<>>, path, s + 1, 0)
    BY <2>3, <2>4, <2>5, OnceNextStep
  <2>7. position'.step = s + 1 /\ position'.pred = 0 /\ position'.step # 0
    <3>1. position'.step = s + 1 /\ position'.pred = 0
      BY <1>1, <2>2, <2>3
    <3> QED BY <2>5, <3>1
  <2> QED BY <1>1, <2>1, <2>2, <2>6, <2>7 DEF OncePathNow
<1> QED BY <1>1, <1>3, OnceGoesOn

LEMMA EndPathStaysOnce == ASSUME EvalInv, OnceInv, XP!EndPath PROVE OnceInv'
<1>1. /\ result = "none" /\ position.step > 0 /\ position.step > Len(XP!Arg.steps)
      /\ operands' = Append(operands, [t |-> "nodes", v |-> list])
      /\ position' = [arg |-> position.arg + 1, step |-> 0, pred |-> 0]
      /\ UNCHANGED <<expr, context, objs, list, queue, merged, result>>
  BY DEF XP!EndPath
<1>2. position.step # 0
  <2>1. position.step \in Nat
    BY <1>1 DEF EvalInv, Going
  <2> QED BY <1>1, <2>1
<1>3. ASSUME OnceApplies PROVE Distinct(objs', operands'[1].v)
  <2>1. OncePathNow
    BY <1>1, <1>2, <1>3, OnPath
  <2>2. position.pred = 0
    <3>1. Len(XP!Arg.steps) \in Nat /\ DOMAIN XP!Arg.steps = 1..Len(XP!Arg.steps)
      BY <2>1, PathIs DEF OncePathNow, InPathNow
    <3>2. position.step \notin DOMAIN XP!Arg.steps
      BY <1>1, <3>1
    <3> QED BY <2>1, <3>2 DEF OncePathNow, InPathNow, InPath
  <2>3. Distinct(objs, list)
    <3>1. PICK F : Levels(F, objs, list)
      BY <2>1, <2>2 DEF OncePathNow, OnceSoFar
    <3> QED BY <3>1, LevelsDistinct
  <2>4. Evaluated(expr, context, objs, merged, position.arg, operands)
    BY <1>1 DEF EvalInv, Going
  <2>5. PICK T : operands \in Seq(T) /\ Len(operands) = 0
    BY <2>1, <2>4 DEF Evaluated, OncePathNow
  <2>6. operands' = <<[t |-> "nodes", v |-> list]>>
    BY <1>1, <2>5
  <2>7. operands'[1].v = list
    BY <2>6
  <2> QED BY <1>1, <2>3, <2>7
<1>4. result' = "none" /\ position'.step = 0
  BY <1>1
<1>5. OnceApplies' <=> OnceApplies
  BY <1>1 DEF OnceApplies
<1> QED BY <1>3, <1>4, <1>5 DEF OnceInv

LEMMA BeginStaysOnce == ASSUME EvalInv, OnceInv, XP!Begin PROVE OnceInv'
<1>1. /\ result = "none" /\ position.arg \in DOMAIN expr.args /\ position.step = 0
      /\ UNCHANGED <<expr, context, objs, queue, merged, result>>
  BY DEF XP!Begin
<1>2. ASSUME OnceApplies
      PROVE  /\ XP!Arg = expr.args[1] /\ position'.step # 0
             /\ OnceSoFar(objs', list', queue', XP!Arg, position'.step, position'.pred)
  <2>1. position.arg = 1 /\ XP!Arg = expr.args[1]
    BY <1>1, <1>2, OnlyArgument DEF EvalInv
  <2>2. XP!Arg.t = "path"
    BY <1>1, <1>2, <2>1 DEF EvalInv, XP!ExprOK, OnceApplies
  <2>3. PICK o : o = IF XP!Arg.root THEN 1 ELSE context
    OBVIOUS
  <2>4. /\ list' = <<o>> /\ position' = [position EXCEPT !.step = 1, !.pred = 0]
    BY <2>2, <2>3 DEF XP!Begin
  <2>5. o \in DOMAIN objs /\ ObjsOK(objs)
    BY <2>3 DEF EvalInv, ObjsOK
  <2>6. position \in [arg : Nat, step : Nat, pred : Nat]
    BY <1>1 DEF EvalInv, Going
  <2>7. position'.step = 1 /\ position'.pred = 0
    BY <2>4, <2>6
  <2>8. PICK obs, l : obs = objs /\ l = <<o>>
    OBVIOUS
  <2>9. DOMAIN l = {1} /\ l[1] = o
    BY <2>8
  <2>10. PICK F : Levels(F, obs, l) /\ \E D \in Int : Even(F, obs, D)
    BY <2>5, <2>8, <2>9, LevelsAbove
  <2>11. OnceSoFar(objs', list', queue', XP!Arg, position'.step, position'.pred)
    BY <1>1, <2>4, <2>7, <2>8, <2>10 DEF OnceSoFar
  <2> QED BY <2>1, <2>7, <2>11
<1> QED BY <1>1, <1>2, OnceGoesOn

LEMMA ConcludeStaysOnce == ASSUME EvalInv, OnceInv, XP!Conclude PROVE OnceInv'
<1>1. /\ result = "none" /\ position.arg > Len(expr.args)
      /\ UNCHANGED <<expr, context, objs, position, queue, merged, operands>>
      /\ expr.op = "nodes" => list' = operands[1].v /\ result' = "nodes"
  BY DEF XP!Conclude, XP!Comparisons, XP!Equality
<1>2. ASSUME OnceApplies PROVE Distinct(objs', list') /\ result' = "nodes"
  <2>1. Len(expr.args) = 1 /\ DOMAIN expr.args = 1..1
    BY <1>2, ArgumentsAre DEF EvalInv, OnceApplies, ArgsOf
  <2>2. position.arg > 1 /\ position.arg \notin DOMAIN expr.args
    BY <1>1, <2>1
  <2>3. position.step = 0
    BY <1>1, <2>2 DEF EvalInv, Going
  <2>4. Distinct(objs, operands[1].v)
    BY <1>1, <1>2, <2>2, <2>3 DEF OnceInv
  <2> QED BY <1>1, <1>2, <2>4 DEF OnceApplies
<1>3. OnceApplies' <=> OnceApplies
  BY <1>1 DEF OnceApplies
<1> QED BY <1>2, <1>3 DEF OnceInv

LEMMA OnceInit == ASSUME XP!WellFormed, XP!InitWith(expr, objs) PROVE OnceInv
BY DEF XP!InitWith, OnceInv

LEMMA OnceNext ==
  ASSUME EvalInv, OnceInv, XP!Next \/ UNCHANGED evaluation PROVE OnceInv'
<1>1. CASE UNCHANGED evaluation
  BY <1>1 DEF evaluation, OnceInv, OnceApplies
<1>2. CASE XP!Next
  BY <1>2, BeginStaysOnce, ChildStaysOnce, ParentStaysOnce, SelfStaysOnce, DownStaysOnce,
     PopBelowStaysOnce, FilterStaysOnce, NextStepStaysOnce, EndPathStaysOnce, ConcludeStaysOnce
  DEF XP!Next
<1> QED BY <1>1, <1>2

LEMMA OnceFollows == ASSUME OnceInv PROVE XP!NodesOnce
<1>1. ASSUME result = "nodes", expr.op = "nodes",
             \A i, j \in DOMAIN expr.args[1].steps :
               XP!IsDeep(expr.args[1], i) /\ XP!IsDeep(expr.args[1], j) => i = j
      PROVE  Distinct(objs, list)
  BY <1>1 DEF OnceInv, OnceApplies, OnceDeep, IsDeepStep, XP!IsDeep
<1> QED BY <1>1 DEF XP!NodesOnce, Distinct, XP!Node

(* A path that goes down to all descendants once at most has each node once,  *)
(* whatever the data, its steps and predicates and the _XNodes made, so that *)
(* counts of nodes are right.                                               *)
THEOREM PathsHaveNodesOnce == ProgramSpec => []NodesOnce
<1> DEFINE Inv == program = "evaluate" => EvalInv /\ OnceInv
<1>1. ProgramInit => Inv
  BY EvalInit, OnceInit DEF ProgramInit
<1>2. Inv /\ [ProgramNext]_pvars => Inv'
  <2> SUFFICES ASSUME Inv, [ProgramNext]_pvars, program' = "evaluate"
               PROVE  EvalInv' /\ OnceInv'
    OBVIOUS
  <2>1. program = "evaluate" /\ (XP!Next \/ UNCHANGED evaluation)
    BY DEF ProgramNext, pvars
  <2> QED BY <2>1, EvalNext, OnceNext
<1>3. Inv => NodesOnce
  BY OnceFollows DEF NodesOnce
<1> QED BY <1>1, <1>2, <1>3, PTL DEF ProgramSpec
=============================================================================
