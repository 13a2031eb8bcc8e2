---------------------------- MODULE ValueProofs ----------------------------
(***************************************************************************)
(* What holds of the values of generated objects for every type, document    *)
(* and program: of a leaf-list, whatever its length and the calls on it, of  *)
(* an object of a restricted type, for chains of classes of any length, of a *)
(* leafref, whatever becomes of what it refers to, and of a tree that         *)
(* documents of any length are loaded into.                                  *)
(***************************************************************************)
EXTENDS ValuePrograms, DataLemmas, SequenceTheorems, WellFoundedInduction, TLAPS

-----------------------------------------------------------------------------
(* Leaf-lists                                                              *)

(* A sequence of members in which no exact value is twice.                  *)
Once(s) ==
  /\ s \in Seq(Natives)
  /\ \A i, j \in DOMAIN s : s[i] = s[j] /\ Exact(s[i]) => i = j

(* While a loop runs, the other case has been dropped.                      *)
CaseInv ==
  /\ z # Null => items = <<>> /\ ~changed
  /\ loop.for # "none" => z = Null

IInv == TypeOK /\ Once(items) /\ Once(loop.made) /\ CaseInv

-----------------------------------------------------------------------------
(* Operators on the members                                                *)

(* The empty list has no value twice.                                       *)
LEMMA OnceEmpty == Once(<<>>)
BY DEF Once

(* A value that is not found as it is passed is appended once it is         *)
(* converted: a member that is equal to it has another form.                *)
LEMMA OnceAppend ==
  ASSUME NEW s, Once(s), NEW p \in Passed, ~Has(s, p), Accepts(p)
  PROVE  Once(Append(s, Native[p]))
<1> DEFINE t == Append(s, Native[p])
<1>1. s \in Seq(Natives) /\ Native[p] \in Natives
  BY PassedAssumption DEF Once, Accepts
<1>2. /\ t \in Seq(Natives)
      /\ DOMAIN s = 1..Len(s) /\ Len(s) \in Nat
      /\ DOMAIN t = 1..(Len(s) + 1)
      /\ t[Len(s) + 1] = Native[p]
      /\ \A i \in 1..Len(s) : t[i] = s[i]
  BY <1>1
<1>3. ASSUME Exact(Native[p]), NEW i \in 1..Len(s) PROVE s[i] # Native[p]
  BY <1>1, <1>2, <1>3, PassedAssumption DEF Has, Exact
<1> HIDE DEF t
<1>4. ASSUME NEW i \in DOMAIN t, NEW j \in DOMAIN t, t[i] = t[j], Exact(t[i])
      PROVE  i = j
  <2>1. CASE i \in 1..Len(s) /\ j \in 1..Len(s)
    BY <1>2, <1>4, <2>1 DEF Once
  <2>2. CASE i = Len(s) + 1 /\ j \in 1..Len(s)
    BY <1>2, <1>3, <1>4, <2>2
  <2>3. CASE i \in 1..Len(s) /\ j = Len(s) + 1
    BY <1>2, <1>3, <1>4, <2>3
  <2>4. CASE i = Len(s) + 1 /\ j = Len(s) + 1
    BY <2>4
  <2> QED BY <1>2, <2>1, <2>2, <2>3, <2>4
<1> QED BY <1>2, <1>4 DEF Once, t

(* So is one that is inserted.                                              *)
LEMMA OnceInserted ==
  ASSUME NEW s, Once(s), NEW p \in Passed, ~Has(s, p), Accepts(p),
         NEW k \in 1..(Len(s) + 1)
  PROVE  Once(Inserted(s, k, p)) 
<1> DEFINE a == SubSeq(s, 1, k - 1)
           b == SubSeq(s, k, Len(s))
           t == Inserted(s, k, p)
<1>1. s \in Seq(Natives) /\ Native[p] \in Natives /\ Len(s) \in Nat /\ k \in Nat
      /\ DOMAIN s = 1..Len(s)
  BY PassedAssumption DEF Once, Accepts
<1>2. a \in Seq(Natives) /\ Len(a) = k - 1 /\ \A i \in 1..(k - 1) : a[i] = s[i]
  BY <1>1, SubSeqProperties
<1>3. b \in Seq(Natives) /\ Len(b) = Len(s) - k + 1
      /\ \A i \in 1..(Len(s) - k + 1) : b[i] = s[k + i - 1]
  BY <1>1, SubSeqProperties
<1> HIDE DEF a, b
<1>4. /\ t \in Seq(Natives)
      /\ DOMAIN t = 1..(Len(s) + 1)
      /\ \A i \in 1..(k - 1) : t[i] = s[i]
      /\ t[k] = Native[p]
      /\ \A i \in (k + 1)..(Len(s) + 1) : t[i] = s[i - 1]
  <2> DEFINE c == a \o <<Native[p]>>
  <2>1. c \in Seq(Natives) /\ Len(c) = k /\ c[k] = Native[p]
        /\ \A i \in 1..(k - 1) : c[i] = s[i]
    BY <1>1, <1>2
  <2>2. t = c \o b
    BY DEF Inserted, a, b
  <2> HIDE DEF c, t
  <2>3. /\ t \in Seq(Natives) /\ Len(t) = Len(s) + 1
        /\ \A i \in 1..k : t[i] = c[i]
        /\ \A i \in (k + 1)..(Len(s) + 1) : t[i] = b[i - k]
    <3>1. /\ t \in Seq(Natives) /\ Len(t) = Len(c) + Len(b)
          /\ \A i \in 1..(Len(c) + Len(b)) : t[i] = IF i <= Len(c) THEN c[i] ELSE b[i - Len(c)]
      BY <1>3, <2>1, <2>2, ConcatProperties
    <3> QED BY <1>1, <1>3, <2>1, <3>1
  <2>4. ASSUME NEW i \in (k + 1)..(Len(s) + 1) PROVE t[i] = s[i - 1]
    <3>1. i - k \in 1..(Len(s) - k + 1) /\ k + (i - k) - 1 = i - 1
      BY <1>1
    <3>2. b[i - k] = s[k + (i - k) - 1]
      BY <1>3, <3>1
    <3> QED BY <2>3, <3>1, <3>2
  <2> QED BY <1>1, <2>1, <2>3, <2>4
<1>5. ASSUME Exact(Native[p]), NEW i \in 1..Len(s) PROVE s[i] # Native[p]
  BY <1>1, <1>5, PassedAssumption DEF Has, Exact
<1> DEFINE from(i) == IF i < k THEN i ELSE i - 1
<1> HIDE DEF t
<1>6. ASSUME NEW i \in DOMAIN t, NEW j \in DOMAIN t, t[i] = t[j], Exact(t[i])
      PROVE  i = j
  <2>1. \A m \in DOMAIN t : m # k => from(m) \in 1..Len(s) /\ t[m] = s[from(m)]
    BY <1>1, <1>4
  <2>2. CASE i = k \/ j = k
    BY <1>1, <1>4, <1>5, <1>6, <2>1, <2>2
  <2>3. CASE i # k /\ j # k
    <3>1. from(i) = from(j)
      BY <1>1, <1>6, <2>1, <2>3 DEF Once
    <3> QED BY <1>1, <1>4, <2>3, <3>1
  <2> QED BY <2>2, <2>3
<1> QED BY <1>4, <1>6 DEF Once, t

(* A sequence without its element at k.                                     *)
LEMMA DeletedAt ==
  ASSUME NEW S, NEW s \in Seq(S), NEW k \in 1..Len(s)
  PROVE  /\ Deleted(s, k) \in Seq(S) /\ Len(Deleted(s, k)) = Len(s) - 1
         /\ \A i \in 1..(k - 1) : Deleted(s, k)[i] = s[i]
         /\ \A i \in k..(Len(s) - 1) : Deleted(s, k)[i] = s[i + 1]
<1> DEFINE a == SubSeq(s, 1, k - 1)
           b == SubSeq(s, k + 1, Len(s))
           t == Deleted(s, k)
<1>1. Len(s) \in Nat /\ DOMAIN s = 1..Len(s) /\ k \in 1..Len(s) /\ k \in Nat
  OBVIOUS
<1>2. a \in Seq(S) /\ Len(a) = k - 1 /\ \A i \in 1..(k - 1) : a[i] = s[i]
  BY <1>1, SubSeqProperties
<1>3. b \in Seq(S) /\ Len(b) = Len(s) - k
      /\ \A i \in 1..(Len(s) - k) : b[i] = s[k + i]
  <2>1. k + 1 \in Int /\ Len(s) \in Int /\ \A i \in (k + 1)..Len(s) : s[i] \in S
    BY <1>1
  <2>2. /\ b \in Seq(S)
        /\ Len(b) = IF k + 1 <= Len(s) THEN Len(s) - (k + 1) + 1 ELSE 0
        /\ \A i \in 1..(Len(s) - (k + 1) + 1) : b[i] = s[k + 1 + i - 1]
    BY <2>1, SubSeqProperties
  <2> HIDE DEF b
  <2>3. Len(s) - (k + 1) + 1 = Len(s) - k /\ \A i \in 1..(Len(s) - k) : k + 1 + i - 1 = k + i
    BY <1>1
  <2>4. Len(b) = Len(s) - k
    <3>1. Len(b) = IF k + 1 <= Len(s) THEN Len(s) - (k + 1) + 1 ELSE 0
      BY <2>2
    <3>2. \A n \in Nat : \A i \in 1..n : i + 1 <= n \/ n - i = 0
      OBVIOUS
    <3> QED BY <2>3, <3>1, <3>2, <1>1
  <2>5. ASSUME NEW i \in 1..(Len(s) - k) PROVE b[i] = s[k + i]
    BY <2>2, <2>3
  <2> QED BY <2>2, <2>4, <2>5
<1>4. t = a \o b
  BY DEF Deleted
<1> HIDE DEF a, b, t
<1>5. /\ t \in Seq(S) /\ Len(t) = Len(a) + Len(b)
      /\ \A i \in 1..(Len(a) + Len(b)) : t[i] = IF i <= Len(a) THEN a[i] ELSE b[i - Len(a)]
  BY <1>2, <1>3, <1>4, ConcatProperties
<1>6. ASSUME NEW i \in k..(Len(s) - 1) PROVE t[i] = s[i + 1]
  <2>1. i \in 1..(Len(a) + Len(b)) /\ ~(i <= Len(a)) /\ i - Len(a) = i - k + 1
    BY <1>1, <1>2, <1>3
  <2>2. i - k + 1 \in 1..(Len(s) - k) /\ k + (i - k + 1) = i + 1
    BY <1>1
  <2>3. b[i - k + 1] = s[k + (i - k + 1)]
    BY <1>3, <2>2
  <2> QED BY <1>5, <2>1, <2>2, <2>3
<1>7. t \in Seq(S) /\ Len(t) = Len(s) - 1
  BY <1>1, <1>2, <1>3, <1>5
<1>8. ASSUME NEW i \in 1..(k - 1) PROVE t[i] = s[i]
  BY <1>1, <1>2, <1>3, <1>5
<1> QED BY <1>6, <1>7, <1>8 DEF t

(* A member that is deleted leaves no value twice.                          *)
LEMMA OnceDeleted ==
  ASSUME NEW s, Once(s), NEW k \in DOMAIN s
  PROVE  Once(Deleted(s, k))
<1> DEFINE t == Deleted(s, k)
           from(i) == IF i < k THEN i ELSE i + 1
<1>1. s \in Seq(Natives) /\ Len(s) \in Nat /\ DOMAIN s = 1..Len(s) /\ k \in 1..Len(s)
  BY DEF Once
<1> HIDE DEF t
<1>3. /\ t \in Seq(Natives) /\ Len(t) = Len(s) - 1
      /\ \A i \in 1..(k - 1) : t[i] = s[i]
      /\ \A i \in k..(Len(s) - 1) : t[i] = s[i + 1]
  BY <1>1, DeletedAt DEF t
<1>4. DOMAIN t = 1..(Len(s) - 1)
  BY <1>1, <1>3
<1>5. \A i \in DOMAIN t : from(i) \in 1..Len(s) /\ t[i] = s[from(i)]
  BY <1>1, <1>3, <1>4
<1>6. ASSUME NEW i \in DOMAIN t, NEW j \in DOMAIN t, t[i] = t[j], Exact(t[i])
      PROVE  i = j
  <2>1. from(i) = from(j)
    BY <1>1, <1>5, <1>6 DEF Once
  <2> QED BY <1>1, <1>4, <2>1
<1> QED BY <1>3, <1>6 DEF Once, t

(* The first position of a member that is there is one of the list.         *)
LEMMA FirstIsThere ==
  ASSUME NEW s \in Seq(Natives), NEW p, Has(s, p)
  PROVE  FirstAt(s, p) \in DOMAIN s
<1> DEFINE T == {n \in DOMAIN s : s[n] = p}
<1>1. DOMAIN s = 1..Len(s) /\ Len(s) \in Nat
  OBVIOUS
<1>2. T \subseteq Nat /\ T # {}
  BY <1>1 DEF Has
<1>3. PICK n \in T : \A m \in T : n <= m
  <2> HIDE DEF T
  <2> QED BY <1>2, SmallestNumber
<1>4. \E i \in DOMAIN s : s[i] = p /\ \A j \in 1..(i - 1) : s[j] # p
  BY <1>1, <1>3
<1> QED BY <1>4 DEF FirstAt

-----------------------------------------------------------------------------
(* The steps                                                               *)

(* What a step has to show.                                                 *)
LEMMA Established ==
  ASSUME Once(items'), Once(loop'.made), changed' \in BOOLEAN, z' \in Others \cup {Null},
         loop' \in [for : {"none", "assign", "extend"}, left : Seq(Passed), made : Seq(Natives)],
         z' # Null => items' = <<>> /\ ~changed',
         loop'.for # "none" => z' = Null
  PROVE  IInv'
<1>1. Once(items)' /\ Once(loop.made)'
  BY DEF Once, Exact
<1>2. TypeOK'
  BY DEF TypeOK, Once
<1>3. CaseInv'
  BY DEF CaseInv
<1> QED BY <1>1, <1>2, <1>3 DEF IInv

(* No loop runs any more.                                                   *)
LEMMA NoLoopOK ==
  /\ NoLoop \in [for : {"none", "assign", "extend"}, left : Seq(Passed), made : Seq(Natives)]
  /\ Once(NoLoop.made) /\ NoLoop.for = "none"
BY OnceEmpty DEF NoLoop

(* Init establishes the invariant.                                         *)
LEMMA InitIInv == Init => IInv
<1> SUFFICES ASSUME Init PROVE IInv
  OBVIOUS
<1>1. Once(items) /\ Once(loop.made)
  BY OnceEmpty DEF Init, NoLoop
<1>2. TypeOK
  BY <1>1, NoLoopOK DEF Init, TypeOK, Once
<1>3. CaseInv
  BY DEF Init, CaseInv, NoLoop
<1> QED BY <1>1, <1>2, <1>3 DEF IInv

(* What is left of a loop's values are values of the program.               *)
LEMMA LoopLeft ==
  ASSUME IInv, loop.left # <<>>
  PROVE  Head(loop.left) \in Passed /\ Tail(loop.left) \in Seq(Passed)
BY HeadTailProperties DEF IInv, TypeOK

(* The loop over the values of an assignment.                               *)
LEMMA AssignKeeps ==
  ASSUME IInv, AssignNext \/ AssignRefused \/ AssignEnd
  PROVE  IInv'
<1>1. CASE AssignNext
  <2> DEFINE p == Head(loop.left)
  <2>1. /\ loop.for = "assign" /\ loop.left # <<>>
        /\ Has(loop.made, p) \/ Accepts(p)
        /\ loop' = [loop EXCEPT !.left = Tail(@), !.made = Collected(@, p)]
        /\ UNCHANGED <<items, changed, z>>
    BY <1>1 DEF AssignNext
  <2>2. p \in Passed /\ Tail(loop.left) \in Seq(Passed)
    BY <2>1, LoopLeft
  <2>3. Once(Collected(loop.made, p))
    BY <2>1, <2>2, OnceAppend DEF Collected, IInv
  <2>4. Collected(loop.made, p) \in Seq(Natives)
    BY <2>3 DEF Once
  <2> HIDE DEF p
  <2>5. loop' = [for |-> "assign", left |-> Tail(loop.left), made |-> Collected(loop.made, p)]
    BY <2>1 DEF IInv, TypeOK
  <2>6. Once(loop'.made)
    BY <2>3, <2>5
  <2> QED BY <2>1, <2>2, <2>4, <2>5, <2>6, Established DEF IInv, TypeOK, CaseInv
<1>2. CASE AssignRefused
  <2>1. loop' = NoLoop /\ UNCHANGED <<items, changed, z>>
    BY <1>2 DEF AssignRefused
  <2> QED BY <2>1, NoLoopOK, Established DEF IInv, TypeOK, CaseInv
<1>3. CASE AssignEnd
  <2>1. /\ loop.for = "assign" /\ items' = loop.made /\ changed' = TRUE
        /\ loop' = NoLoop /\ z' = z
    BY <1>3 DEF AssignEnd
  <2> QED BY <2>1, NoLoopOK, Established DEF IInv, TypeOK, CaseInv
<1> QED BY <1>1, <1>2, <1>3

(* The loop of extend().                                                    *)
LEMMA ExtendKeeps ==
  ASSUME IInv, ExtendNext \/ ExtendEnd
  PROVE  IInv'
<1>1. CASE ExtendNext
  <2> DEFINE p == Head(loop.left)
  <2>1. /\ loop.for = "extend" /\ loop.left # <<>>
        /\ ~AppendRefused(items, p)
        /\ items' = Appended(items, p)
        /\ loop' = [loop EXCEPT !.left = Tail(@)]
        /\ changed' = TRUE /\ z' = Null
    BY <1>1 DEF ExtendNext, Announce
  <2>2. p \in Passed /\ Tail(loop.left) \in Seq(Passed)
    BY <2>1, LoopLeft
  <2>3. Once(items')
    BY <2>1, <2>2, OnceAppend DEF Appended, AppendRefused, IInv
  <2> HIDE DEF p
  <2>4. loop' = [for |-> "extend", left |-> Tail(loop.left), made |-> loop.made]
    BY <2>1 DEF IInv, TypeOK
  <2> QED BY <2>1, <2>2, <2>3, <2>4, Established DEF IInv, TypeOK, CaseInv
<1>2. CASE ExtendEnd
  <2>1. loop' = NoLoop /\ UNCHANGED <<items, changed, z>>
    BY <1>2 DEF ExtendEnd
  <2> QED BY <2>1, NoLoopOK, Established DEF IInv, TypeOK, CaseInv
<1> QED BY <1>1, <1>2

(* A method that announces the change and leaves distinct members.          *)
LEMMA AnnouncedKeeps ==
  ASSUME IInv, Announce, UNCHANGED loop, Once(items')
  PROVE  IInv'
BY Established DEF IInv, Announce, TypeOK

(* The methods that add a member.                                           *)
LEMMA AddKeeps ==
  ASSUME IInv, NEW p \in Passed,
         AppendItem(p) \/ \E k \in 1..(Len(items) + 1) : Insert(k, p)
  PROVE  IInv'
<1>1. CASE AppendItem(p)
  <2>1. /\ items' = IF AppendRefused(items, p) THEN items ELSE Appended(items, p)
        /\ Announce /\ UNCHANGED loop
    BY <1>1 DEF AppendItem
  <2>2. Once(items')
    BY <2>1, OnceAppend DEF Appended, AppendRefused, IInv
  <2> QED BY <2>1, <2>2, AnnouncedKeeps
<1>2. CASE \E k \in 1..(Len(items) + 1) : Insert(k, p)
  <2>1. PICK k \in 1..(Len(items) + 1) : Insert(k, p)
    BY <1>2
  <2>2. /\ items' = IF InsertRefused(items, p) THEN items ELSE Inserted(items, k, p)
        /\ Announce /\ UNCHANGED loop
    BY <2>1 DEF Insert
  <2>3. Once(items')
    BY <2>2, OnceInserted DEF InsertRefused, IInv
  <2> QED BY <2>2, <2>3, AnnouncedKeeps
<1> QED BY <1>1, <1>2

(* The methods that take one away.                                          *)
LEMMA TakeKeeps ==
  ASSUME IInv, Pop \/ (\E p \in Passed : RemoveItem(p)) \/ \E k \in DOMAIN items : DelItem(k)
  PROVE  IInv'
<1>0. Once(items) /\ items \in Seq(Natives)
  BY DEF IInv, Once
<1>1. CASE Pop
  <2>1. /\ items' = IF items = <<>> THEN items ELSE Deleted(items, Len(items))
        /\ Announce /\ UNCHANGED loop
    BY <1>1 DEF Pop
  <2>2. items # <<>> => Len(items) \in DOMAIN items
    BY <1>0, EmptySeq, LenProperties
  <2>3. Once(items')
    BY <1>0, <2>1, <2>2, OnceDeleted
  <2> QED BY <2>1, <2>3, AnnouncedKeeps
<1>2. CASE \E p \in Passed : RemoveItem(p)
  <2>1. PICK p \in Passed : RemoveItem(p)
    BY <1>2
  <2>2. /\ items' = IF Has(items, p) THEN Removed(items, p) ELSE items
        /\ Announce /\ UNCHANGED loop
    BY <2>1 DEF RemoveItem
  <2>3. Has(items, p) => FirstAt(items, p) \in DOMAIN items
    BY <1>0, FirstIsThere
  <2>4. Once(items')
    BY <1>0, <2>2, <2>3, OnceDeleted DEF Removed
  <2> QED BY <2>2, <2>4, AnnouncedKeeps
<1>3. CASE \E k \in DOMAIN items : DelItem(k)
  <2>1. PICK k \in DOMAIN items : DelItem(k)
    BY <1>3
  <2>2. items' = Deleted(items, k) /\ UNCHANGED <<changed, z, loop>>
    BY <2>1 DEF DelItem
  <2>3. Once(items')
    BY <1>0, <2>2, OnceDeleted
  <2>4. z = Null
    BY <1>0, <2>1 DEF IInv, CaseInv
  <2> QED BY <2>2, <2>3, <2>4, Established DEF IInv, TypeOK
<1> QED BY <1>1, <1>2, <1>3

(* The calls that begin a loop, and those that empty the list.              *)
LEMMA WholeKeeps ==
  ASSUME IInv,
         \/ \E vs \in Given : AssignBegin(vs) \/ ExtendBegin(vs)
         \/ UnsetList
         \/ \E v \in Others : SetZ(v)
  PROVE  IInv'
<1>1. CASE \E vs \in Given : AssignBegin(vs)
  <2>1. PICK vs \in Given : AssignBegin(vs)
    BY <1>1
  <2>2. loop' = [for |-> "assign", left |-> vs, made |-> <<>>] /\ vs \in Seq(Passed)
        /\ z' = Null /\ UNCHANGED <<items, changed>>
    BY <2>1, LeafListAssumption DEF AssignBegin
  <2> QED BY <2>2, OnceEmpty, Established DEF IInv, TypeOK
<1>2. CASE \E vs \in Given : ExtendBegin(vs)
  <2>1. PICK vs \in Given : ExtendBegin(vs)
    BY <1>2
  <2>2. loop' = [for |-> "extend", left |-> vs, made |-> items] /\ vs \in Seq(Passed)
        /\ changed' = TRUE /\ z' = Null /\ items' = items
    BY <2>1, LeafListAssumption DEF ExtendBegin, Announce
  <2> QED BY <2>2, Established DEF IInv, TypeOK
<1>3. CASE UnsetList
  BY <1>3, OnceEmpty, Established DEF UnsetList, IInv, TypeOK, CaseInv
<1>4. CASE \E v \in Others : SetZ(v)
  BY <1>4, OnceEmpty, NoLoopOK, Established DEF SetZ, Idle, IInv, TypeOK
<1> QED BY <1>1, <1>2, <1>3, <1>4

(* Every step keeps the invariant.                                          *)
LEMMA NextKeeps == IInv /\ [Next]_vars => IInv'
<1> SUFFICES ASSUME IInv, [Next]_vars PROVE IInv'
  OBVIOUS
<1>1. CASE UNCHANGED vars
  BY <1>1, Established DEF vars, IInv, TypeOK, CaseInv
<1>2. CASE Next
  BY <1>2, AssignKeeps, ExtendKeeps, AddKeeps, TakeKeeps, WholeKeeps DEF Next, LoopStep
<1> QED BY <1>1, <1>2

-----------------------------------------------------------------------------
(* The invariant holds in every reachable state.                            *)
THEOREM Invariant == Spec => []IInv
BY InitIInv, NextKeeps, PTL DEF Spec

(* The members are values of the members' type, whatever is passed.         *)
THEOREM TypeCorrect == Spec => []TypeOK
<1>1. IInv => TypeOK
  BY DEF IInv
<1> QED BY Invariant, <1>1, PTL

(* append(), insert(), an assignment and extend(), in any order, leave no    *)
(* value in the list twice but one that came in another form.               *)
THEOREM NothingTwice == Spec => []MembersDistinct
<1>1. IInv => MembersDistinct
  BY DEF IInv, Once, MembersDistinct
<1> QED BY Invariant, <1>1, PTL

(* The leaf-list and the other case of its choice never hold data together. *)
THEOREM CasesApart == Spec => []OneCase
<1>1. IInv => OneCase
  BY DEF IInv, CaseInv, OneCase
<1> QED BY Invariant, <1>1, PTL

-----------------------------------------------------------------------------
(* Restricted types                                                        *)

(* Objects are made of the last class and then of each base in turn.         *)
Bases ==
  /\ type \in DOMAIN Chains /\ input \in Inputs
  /\ making \in Seq(R!Classes) /\ making # <<>>
  /\ level \in 0..R!Class
  /\ making[Len(making)] = R!Class
  /\ \A i \in DOMAIN making : making[i] = Len(R!Chain) + 1 - i

(* The attribute of a class has the tests of the class whose `__new__` was   *)
(* the last: those of the innermost, once an object of the class is made.    *)
Attributes ==
  /\ attr \in [R!Classes -> Seq(SUBSET Inputs)]
  /\ \A i \in DOMAIN making : i < Len(making) => attr[making[i]] = R!Chain[1]
  /\ level < R!Class => attr[R!Class] = R!Chain[level + 1]

(* `__new__` of each class has found a test that the input passes: in the    *)
(* first object down to the class that is next, then in all.                 *)
Tested ==
  \A i \in R!Classes : (Len(making) > 1 \/ i > level) => R!PassesOne(i)

RestrictedInv ==
  /\ Bases
  /\ verdict \in {"open", "accepted", "refused"}
  /\ verdict # "refused" => Attributes /\ Tested
  /\ verdict = "accepted" => level = 0 /\ Len(making) = Len(R!Chain) /\ R!PassesAll(1)

-----------------------------------------------------------------------------
(* A test of a class's own is one that its `__new__` tries.                  *)
LEMMA OneIsOne ==
  ASSUME Bases, NEW i \in R!Classes
  PROVE  /\ R!OnePasses(R!Chain[i]) <=> R!PassesOne(i)
         /\ R!AllPass(R!Chain[i]) <=> R!PassesAll(i)
BY DEF R!OnePasses, R!AllPass, R!Passes, R!PassesOne, R!PassesAll

(* A chain of classes is not empty.                                         *)
LEMMA ChainType ==
  ASSUME type \in DOMAIN Chains
  PROVE  /\ R!Chain \in Seq(Seq(SUBSET Inputs))
         /\ Len(R!Chain) \in Nat \ {0} /\ R!Classes = 1..Len(R!Chain)
BY EmptySeq, LenProperties, ChainsAssumption DEF R!Chain, R!Classes

(* Before the first `__new__`,                                              *)
LEMMA RestrictedInit == R!Init => RestrictedInv
<1> SUFFICES ASSUME R!Init PROVE RestrictedInv
  OBVIOUS
<1>1. /\ R!Chain \in Seq(Seq(SUBSET Inputs))
      /\ Len(R!Chain) \in Nat \ {0} /\ R!Classes = 1..Len(R!Chain)
  BY ChainType DEF R!Init
<1>2. making = <<Len(R!Chain)>> /\ level = Len(R!Chain) /\ R!Class = Len(R!Chain) /\ Len(making) = 1
  BY DEF R!Init, R!Class
<1>3. making \in Seq(R!Classes) /\ DOMAIN making = {1} /\ making[1] = Len(R!Chain)
  BY <1>1, <1>2
<1>4. Bases
  BY <1>1, <1>2, <1>3 DEF Bases, R!Init
<1>5. Attributes
  BY <1>1, <1>2, <1>3 DEF Attributes, R!Init
<1>6. Tested
  BY <1>1, <1>2 DEF Tested
<1> QED BY <1>4, <1>5, <1>6 DEF RestrictedInv, R!Init

(* after each of them,                                                      *)
LEMMA NewKeeps == ASSUME RestrictedInv, R!New PROVE RestrictedInv'
<1>1. /\ R!Chain \in Seq(Seq(SUBSET Inputs))
      /\ Len(R!Chain) \in Nat \ {0} /\ R!Classes = 1..Len(R!Chain)
  BY ChainType DEF RestrictedInv, Bases
<1>2. /\ verdict = "open" /\ level > 0
      /\ attr' = [attr EXCEPT ![R!Class] = R!Chain[level]]
      /\ UNCHANGED <<type, input, making>>
  BY DEF R!New
<1>3. R!Chain' = R!Chain /\ R!Classes' = R!Classes /\ R!Class' = R!Class
  BY <1>2 DEF R!Chain, R!Classes, R!Class
<1>4. /\ Len(making) \in Nat \ {0} /\ DOMAIN making = 1..Len(making)
      /\ R!Class \in 1..Len(R!Chain) /\ level \in 1..R!Class
      /\ \A i \in DOMAIN making : making[i] = Len(R!Chain) + 1 - i /\ making[i] \in R!Classes
  BY <1>1, <1>2, EmptySeq, LenProperties DEF RestrictedInv, Bases, R!Class
<1>5. Tested /\ Attributes
  BY <1>2 DEF RestrictedInv
<1>6. \A i \in DOMAIN making : i < Len(making) => making[i] # R!Class
  <2>1. R!Class = Len(R!Chain) + 1 - Len(making)
    BY <1>4 DEF R!Class
  <2> HIDE DEF R!Class, R!Chain, R!Classes
  <2> QED BY <1>1, <1>4, <2>1
<1>7. \A i : R!PassesOne(i)' <=> R!PassesOne(i)
  BY <1>2, <1>3 DEF R!PassesOne
<1>8. Bases'
  <2>1. level' \in 0..R!Class
    BY <1>4, <1>2 DEF R!New
  <2> QED BY <1>2, <1>3, <2>1 DEF RestrictedInv, Bases
<1>9. CASE R!OnePasses(R!Chain[level])
  <2>1. level' = level - 1 /\ verdict' = "open"
    BY <1>2, <1>9 DEF R!New
  <2>2. Attributes'
    BY <1>1, <1>2, <1>3, <1>4, <1>5, <1>6, <2>1 DEF Attributes
  <2>3. R!PassesOne(level)
    BY <1>1, <1>4, <1>9, OneIsOne DEF RestrictedInv
  <2>4. Tested'
    <3> HIDE DEF R!Classes, R!Class, R!Chain, R!PassesOne
    <3> QED BY <1>1, <1>2, <1>3, <1>4, <1>5, <1>7, <2>1, <2>3 DEF Tested
  <2> QED BY <1>8, <2>1, <2>2, <2>4 DEF RestrictedInv
<1>10. CASE ~R!OnePasses(R!Chain[level])
  <2>1. verdict' = "refused"
    BY <1>2, <1>10 DEF R!New
  <2> QED BY <1>8, <2>1 DEF RestrictedInv
<1> QED BY <1>9, <1>10

(* The object of the base class starts with its own `__new__`.               *)
LEMMA InitBaseKeeps == ASSUME RestrictedInv, R!InitBase PROVE RestrictedInv'
<1>1. /\ R!Chain \in Seq(Seq(SUBSET Inputs))
      /\ Len(R!Chain) \in Nat \ {0} /\ R!Classes = 1..Len(R!Chain)
  BY ChainType DEF RestrictedInv, Bases
<1>2. /\ verdict = "open" /\ level = 0 /\ R!Class > 1
      /\ making' = Append(making, R!Class - 1)
      /\ level' = R!Class - 1
      /\ UNCHANGED <<type, input, attr, verdict>>
  BY DEF R!InitBase
<1>3. R!Chain' = R!Chain /\ R!Classes' = R!Classes
  BY <1>2 DEF R!Chain, R!Classes
<1>4. /\ making \in Seq(R!Classes) /\ Len(making) \in Nat \ {0}
      /\ DOMAIN making = 1..Len(making)
      /\ R!Class = making[Len(making)] /\ R!Class \in 1..Len(R!Chain)
      /\ \A i \in DOMAIN making : making[i] = Len(R!Chain) + 1 - i
  BY <1>1, EmptySeq, LenProperties DEF RestrictedInv, Bases, R!Class
<1>5. Tested /\ Attributes
  BY <1>2 DEF RestrictedInv
<1> HIDE DEF R!Class, R!Chain, R!Classes
<1>6. /\ making' \in Seq(R!Classes)
      /\ Len(making') = Len(making) + 1
      /\ DOMAIN making' = 1..(Len(making) + 1)
      /\ making'[Len(making) + 1] = R!Class - 1
      /\ \A i \in 1..Len(making) : making'[i] = making[i]
  BY <1>1, <1>2, <1>4
<1>7. R!Class' = R!Class - 1
  BY <1>6 DEF R!Class
<1>8. making' # <<>>
  BY <1>4, <1>6
<1>9. \A i \in DOMAIN making' : making'[i] = Len(R!Chain) + 1 - i
  <2>1. R!Class = Len(R!Chain) + 1 - Len(making)
    BY <1>4
  <2>2. making'[Len(making) + 1] = Len(R!Chain) + 1 - (Len(making) + 1)
    BY <1>1, <1>4, <1>6, <2>1
  <2>3. ASSUME NEW i \in 1..Len(making) PROVE making'[i] = Len(R!Chain) + 1 - i
    BY <1>4, <1>6
  <2>4. \A i \in DOMAIN making' : i \in 1..Len(making) \/ i = Len(making) + 1
    BY <1>4, <1>6
  <2> QED BY <2>2, <2>3, <2>4
<1>10. Bases'
  <2>1. type' \in DOMAIN Chains /\ input' \in Inputs
    BY <1>2 DEF RestrictedInv, Bases
  <2>2. level' \in 0..R!Class'
    BY <1>2, <1>4, <1>7
  <2>3. making'[Len(making')] = R!Class'
    BY <1>6, <1>7
  <2> QED BY <1>3, <1>6, <1>8, <1>9, <2>1, <2>2, <2>3 DEF Bases
<1>11. \A i \in DOMAIN making' : i < Len(making') => attr'[making'[i]] = R!Chain[1]
  <2>1. \A i \in 1..Len(making) : attr[making[i]] = R!Chain[1]
    <3>1. attr[making[Len(making)]] = R!Chain[1]
      BY <1>2, <1>4, <1>5 DEF Attributes
    <3>2. \A n \in Nat : \A i \in 1..n : i < n \/ i = n
      OBVIOUS
    <3> QED BY <1>4, <1>5, <3>1, <3>2 DEF Attributes
  <2>2. \A i \in DOMAIN making' : i < Len(making') => i \in 1..Len(making)
    BY <1>4, <1>6
  <2> QED BY <1>2, <1>6, <2>1, <2>2
<1>12. Attributes'
  BY <1>1, <1>2, <1>3, <1>5, <1>7, <1>4, <1>11 DEF Attributes
<1>13. \A i : R!PassesOne(i)' <=> R!PassesOne(i)
  BY <1>2, <1>3 DEF R!PassesOne
<1>14. Tested'
  BY <1>1, <1>2, <1>3, <1>4, <1>5, <1>13 DEF Tested
<1> QED BY <1>2, <1>10, <1>12, <1>14 DEF RestrictedInv

(* The tests of the innermost class are run on the input.                   *)
LEMMA CheckKeeps == ASSUME RestrictedInv, R!Check PROVE RestrictedInv'
<1>1. /\ R!Chain \in Seq(Seq(SUBSET Inputs))
      /\ Len(R!Chain) \in Nat \ {0} /\ R!Classes = 1..Len(R!Chain)
  BY ChainType DEF RestrictedInv, Bases
<1>2. /\ verdict = "open" /\ level = 0 /\ R!Class = 1
      /\ verdict' = IF \A i \in DOMAIN making : R!AllPass(attr[making[i]])
                    THEN "accepted" ELSE "refused"
      /\ UNCHANGED <<type, input, attr, making, level>>
  BY DEF R!Check
<1>3. R!Chain' = R!Chain /\ R!Classes' = R!Classes /\ R!Class' = R!Class
  BY <1>2 DEF R!Chain, R!Classes, R!Class
<1>4. /\ Len(making) \in Nat \ {0} /\ DOMAIN making = 1..Len(making)
      /\ making[Len(making)] = 1
      /\ \A i \in DOMAIN making : making[i] = Len(R!Chain) + 1 - i
  BY <1>1, <1>2, EmptySeq, LenProperties DEF RestrictedInv, Bases
<1>5. Tested /\ Attributes
  BY <1>2 DEF RestrictedInv
<1>6. \A i : (R!PassesOne(i)' <=> R!PassesOne(i)) /\ (R!PassesAll(i)' <=> R!PassesAll(i))
  BY <1>2, <1>3 DEF R!PassesOne, R!PassesAll
<1>7. R!AllPass(R!Chain[1]) <=> R!PassesAll(1)
  BY <1>1, OneIsOne DEF RestrictedInv
<1> HIDE DEF R!Class, R!Chain, R!Classes, R!PassesOne, R!PassesAll
<1>8. Bases'
  BY <1>2, <1>3 DEF RestrictedInv, Bases
<1>9. Attributes' /\ Tested'
  BY <1>2, <1>3, <1>5, <1>6 DEF Attributes, Tested
<1>10. Len(making) = Len(R!Chain)
  <2>1. Len(making) \in DOMAIN making
    BY <1>4
  <2>2. Len(R!Chain) + 1 - Len(making) = 1
    BY <1>4, <2>1
  <2> QED BY <1>1, <1>4, <2>2
<1>11. attr[making[Len(making)]] = R!Chain[1]
  BY <1>1, <1>2, <1>4, <1>5 DEF Attributes
<1>12. verdict' = "accepted" => R!PassesAll(1)'
  BY <1>2, <1>4, <1>6, <1>7, <1>11
<1>13. verdict' \in {"accepted", "refused"}
  BY <1>2
<1> QED BY <1>2, <1>3, <1>8, <1>9, <1>10, <1>12, <1>13 DEF RestrictedInv

(* While another program runs nothing of it changes.                        *)
LEMMA RestrictedStutter == ASSUME RestrictedInv, UNCHANGED rvars PROVE RestrictedInv'
BY DEF rvars, RestrictedInv, Bases, Attributes, Tested, R!PassesOne, R!PassesAll, R!Class, R!Classes, R!Chain

(* What is accepted has been tested by each class.                          *)
LEMMA AcceptedFollows == RestrictedInv => R!AcceptedPasses
<1> SUFFICES ASSUME RestrictedInv, verdict = "accepted" PROVE R!PassesAll(1) /\ \A i \in R!Classes : R!PassesOne(i)
  BY DEF R!AcceptedPasses
<1>1. R!PassesAll(1) /\ level = 0 /\ Tested
  BY DEF RestrictedInv
<1>2. \A i \in R!Classes : i \in 1..Len(R!Chain)
  BY DEF R!Classes, RestrictedInv, Bases
<1> QED BY <1>1, <1>2 DEF Tested

(* Whatever the attribute holds at each moment, an object that is made has   *)
(* passed a test of every class of its chain, and every test of the innermost *)
(* one: no restriction of the chain is passed over as a whole.              *)
THEOREM NoClassPassedOver == ProgramSpec => []AcceptedPasses
<1> DEFINE I == program = "type" => RestrictedInv
<1>1. ProgramInit => I
  BY RestrictedInit DEF ProgramInit
<1>2. I /\ [ProgramNext]_<<vars, rvars, lvars, fvars, program>> => I'
  <2> SUFFICES ASSUME I, [ProgramNext]_<<vars, rvars, lvars, fvars, program>>, program' = "type"
               PROVE  RestrictedInv'
    OBVIOUS
  <2>1. program = "type" /\ RestrictedInv
    BY DEF ProgramNext
  <2>2. R!Next \/ UNCHANGED rvars
    BY <2>1 DEF ProgramNext
  <2> QED BY <2>1, <2>2, NewKeeps, InitBaseKeeps, CheckKeeps, RestrictedStutter DEF R!Next
<1>3. I => AcceptedPasses
  BY AcceptedFollows DEF AcceptedPasses
<1> QED BY <1>1, <1>2, <1>3, PTL DEF ProgramSpec

-----------------------------------------------------------------------------
(* References                                                              *)

TargetRecords == [key : TargetKeys \cup Assigned, val : Assigned \cup {Unread}, set : BOOLEAN]

(* What stands at a path is set, or reads as what nobody has set.            *)
TargetsOK ==
  /\ targets \in Seq(TargetRecords)
  /\ \A i \in DOMAIN targets : targets[i].set \/ targets[i].val = Unread

(* Each entry in the list is registered, and nothing is twice.               *)
EntriesOK ==
  shape # "leaf-list" =>
    /\ members \subseteq {targets[i].key : i \in DOMAIN targets}
    /\ \A i, j \in DOMAIN targets : targets[i].key = targets[j].key => i = j

RefOK ==
  /\ shape \in {"keys", "leaf", "leaf-list"} /\ require \in BOOLEAN
  /\ members \subseteq TargetKeys
  /\ ref \in [mode : {"unset", "pointer", "object", "plain"}, val : Assigned \cup {Unread, Bad}]
  /\ marked \in BOOLEAN /\ since \in BOOLEAN

ReferenceInv == TargetsOK /\ EntriesOK /\ RefOK /\ F!ReferencesHold

(* A reference and what it refers to.                                       *)
LEMMA ReferenceTypes == ReferenceInv => F!TypeOK
<1> SUFFICES ASSUME ReferenceInv PROVE F!TypeOK
  OBVIOUS
<1>1. \A i \in DOMAIN targets : targets[i].val \in Assigned \cup {Unread}
  <2>1. \A i \in DOMAIN targets : targets[i] \in TargetRecords
    BY DEF ReferenceInv, TargetsOK
  <2> QED BY <2>1 DEF TargetRecords
<1>2. ref.mode \in {"unset", "pointer", "object", "plain"} /\ ref.val \in Assigned \cup {Unread, Bad}
  BY DEF ReferenceInv, RefOK
<1>3. members \subseteq TargetKeys
  BY DEF ReferenceInv, RefOK
<1> QED BY <1>1, <1>2, <1>3 DEF ReferenceInv, EntriesOK, RefOK, F!TypeOK

(* No reference is set at first.                                            *)
LEMMA ReferenceInit ==
  ASSUME NEW s \in {"keys", "leaf", "leaf-list"}, NEW r \in BOOLEAN, F!InitWith(s, r)
  PROVE  ReferenceInv
<1>1. targets = <<>> /\ members = {} /\ ref = [mode |-> "unset", val |-> Unread]
  BY DEF F!InitWith, F!UnsetRef
<1>2. targets \in Seq(TargetRecords) /\ DOMAIN targets = {}
  BY <1>1
<1>3. RefOK
  <2>1. shape = s /\ require = r /\ marked = FALSE /\ since = FALSE
    BY DEF F!InitWith
  <2>2. ref \in [mode : {"unset", "pointer", "object", "plain"}, val : Assigned \cup {Unread, Bad}]
    BY <1>1
  <2>3. members \subseteq TargetKeys
    BY <1>1
  <2> QED BY <2>1, <2>2, <2>3 DEF RefOK
<1>4. TargetsOK /\ EntriesOK
  BY <1>1, <1>2 DEF TargetsOK, EntriesOK
<1>5. F!ReferencesHold
  BY <1>1 DEF F!ReferencesHold
<1> QED BY <1>3, <1>4, <1>5 DEF ReferenceInv

(* What the targets become, when they are what may stand at a path, leaves   *)
(* the reference as it was: a pointer has to be looked up anew.              *)
LEMMA BecomeKeeps ==
  ASSUME ReferenceInv, NEW ts, F!TargetsBecome(ts), TargetsOK', EntriesOK',
         members' \subseteq TargetKeys
  PROVE  ReferenceInv'
<1>1. /\ targets' = ts /\ since' = TRUE
      /\ UNCHANGED <<shape, require, ref, marked, assigned>>
  BY DEF F!TargetsBecome
<1>2. RefOK'
  BY <1>1 DEF ReferenceInv, RefOK
<1>3. F!ReferencesHold'
  BY <1>1 DEF ReferenceInv, F!ReferencesHold, F!Reads
<1> QED BY <1>2, <1>3 DEF ReferenceInv

(* Appending one that is set, or reads as unset.                            *)
LEMMA AppendedTarget ==
  ASSUME ReferenceInv, NEW t \in TargetRecords, t.set \/ t.val = Unread,
         targets' = Append(targets, t)
  PROVE  /\ TargetsOK'
         /\ DOMAIN targets = 1..Len(targets) /\ Len(targets) \in Nat
         /\ DOMAIN targets' = 1..(Len(targets) + 1)
         /\ targets'[Len(targets) + 1] = t
         /\ \A i \in DOMAIN targets : targets'[i] = targets[i]
<1>1. targets \in Seq(TargetRecords) /\ \A i \in DOMAIN targets : targets[i].set \/ targets[i].val = Unread
  BY DEF ReferenceInv, TargetsOK
<1>2. /\ targets' \in Seq(TargetRecords)
      /\ DOMAIN targets = 1..Len(targets) /\ Len(targets) \in Nat
      /\ DOMAIN targets' = 1..(Len(targets) + 1)
      /\ targets'[Len(targets) + 1] = t
      /\ \A i \in 1..Len(targets) : targets'[i] = targets[i]
  BY <1>1
<1>3. ASSUME NEW i \in DOMAIN targets' PROVE targets'[i].set \/ targets'[i].val = Unread
  <2>1. i \in 1..Len(targets) \/ i = Len(targets) + 1
    BY <1>2
  <2> QED BY <1>1, <1>2, <2>1
<1> QED BY <1>2, <1>3 DEF TargetsOK

(* Replacing what stands for k keeps the places and their keys.              *)
LEMMA ReplacedTargets ==
  ASSUME ReferenceInv, NEW k, NEW t \in TargetRecords, t.key = k, t.set \/ t.val = Unread,
         targets' = F!AllReplaced(k, t)
  PROVE  /\ TargetsOK'
         /\ DOMAIN targets' = DOMAIN targets
         /\ Len(targets') = Len(targets)
         /\ \A i \in DOMAIN targets :
              /\ targets'[i].key = targets[i].key
              /\ targets[i].key = k => targets'[i].val = t.val
<1>1. /\ targets \in Seq(TargetRecords)
      /\ DOMAIN targets = 1..Len(targets) /\ Len(targets) \in Nat
      /\ \A i \in DOMAIN targets :
           targets[i] \in TargetRecords /\ (targets[i].set \/ targets[i].val = Unread)
  BY DEF ReferenceInv, TargetsOK
<1>2. /\ DOMAIN targets' = DOMAIN targets
      /\ \A i \in DOMAIN targets :
           targets'[i] = IF targets[i].key # k \/ targets[i].val = t.val THEN targets[i] ELSE t
  BY DEF F!AllReplaced, F!Replaced, F!Registered
<1>3. targets' \in [1..Len(targets) -> TargetRecords]
  BY <1>1 DEF F!AllReplaced, F!Replaced
<1>4. targets' \in Seq(TargetRecords)
  BY <1>1, <1>3
<1>5. Len(targets') = Len(targets)
  BY <1>1, <1>2, <1>4
<1>6. \A i \in DOMAIN targets' : targets'[i].set \/ targets'[i].val = Unread
  BY <1>1, <1>2
<1>7. \A i \in DOMAIN targets :
        targets'[i].key = targets[i].key /\ (targets[i].key = k => targets'[i].val = t.val)
  BY <1>1, <1>2
<1> QED BY <1>2, <1>4, <1>5, <1>6, <1>7 DEF TargetsOK

(* One is taken away: the others keep their keys, in their order.            *)
LEMMA RemovedTarget ==
  ASSUME ReferenceInv, NEW k \in DOMAIN targets, targets' = F!RemoveAt(targets, k)
  PROVE  /\ TargetsOK'
         /\ shape # "leaf-list" =>
              /\ \A i, j \in DOMAIN targets' : targets'[i].key = targets'[j].key => i = j
              /\ members \ {targets[k].key} \subseteq {targets'[i].key : i \in DOMAIN targets'}
<1> DEFINE s == targets
           t == targets'
           from(i) == IF i < k THEN i ELSE i + 1
<1>1. /\ s \in Seq(TargetRecords)
      /\ DOMAIN s = 1..Len(s) /\ Len(s) \in Nat /\ k \in 1..Len(s)
      /\ \A i \in DOMAIN s : s[i].set \/ s[i].val = Unread
  BY DEF ReferenceInv, TargetsOK
<1>2. t = Deleted(s, k)
  BY DEF F!RemoveAt, Deleted
<1>3. /\ t \in Seq(TargetRecords) /\ Len(t) = Len(s) - 1
      /\ \A i \in 1..(k - 1) : t[i] = s[i]
      /\ \A i \in k..(Len(s) - 1) : t[i] = s[i + 1]
  <2> HIDE DEF s, t
  <2> QED BY <1>1, <1>2, DeletedAt
<1>4. DOMAIN t = 1..(Len(s) - 1)
  <2> HIDE DEF s, t
  <2> QED BY <1>1, <1>3
<1>5. \A i \in DOMAIN t : from(i) \in DOMAIN s /\ t[i] = s[from(i)]
  <2> HIDE DEF s, t
  <2> QED BY <1>1, <1>3, <1>4
<1>6. \A j \in DOMAIN s : j # k => \E i \in DOMAIN t : from(i) = j
  <2> HIDE DEF s, t
  <2> SUFFICES ASSUME NEW j \in DOMAIN s, j # k PROVE \E i \in DOMAIN t : from(i) = j
    OBVIOUS
  <2>1. j < k => j \in DOMAIN t /\ from(j) = j
    BY <1>1, <1>4
  <2>2. j > k => j - 1 \in DOMAIN t /\ from(j - 1) = j
    BY <1>1, <1>4
  <2>3. j < k \/ j > k
    BY <1>1
  <2> HIDE DEF from
  <2> QED BY <2>1, <2>2, <2>3
<1>7. \A i, j \in DOMAIN t : from(i) = from(j) => i = j
  <2> HIDE DEF s, t
  <2> QED BY <1>1, <1>4
<1> HIDE DEF from
<1>8. TargetsOK'
  BY <1>1, <1>3, <1>5 DEF TargetsOK
<1>9. ASSUME shape # "leaf-list"
      PROVE  /\ \A i, j \in DOMAIN t : t[i].key = t[j].key => i = j
             /\ members \ {s[k].key} \subseteq {t[i].key : i \in DOMAIN t}
  <2>1. /\ members \subseteq {s[i].key : i \in DOMAIN s}
        /\ \A i, j \in DOMAIN s : s[i].key = s[j].key => i = j
    BY <1>9 DEF ReferenceInv, EntriesOK
  <2> HIDE DEF s, t
  <2>2. \A i, j \in DOMAIN t : t[i].key = t[j].key => i = j
    BY <1>5, <1>7, <2>1
  <2>3. ASSUME NEW m \in members, m # s[k].key PROVE \E i \in DOMAIN t : m = t[i].key
    <3>1. PICK j \in DOMAIN s : m = s[j].key
      BY <2>1
    <3>2. j # k
      BY <2>3, <3>1
    <3>3. PICK i \in DOMAIN t : from(i) = j
      BY <1>6, <3>2
    <3> QED BY <1>5, <3>1, <3>3
  <2> QED BY <2>2, <2>3
<1> QED BY <1>8, <1>9

(* The calls on the list and the leaf-list a reference leads to.             *)
LEMMA AddEntryKeeps ==
  ASSUME ReferenceInv, NEW k \in TargetKeys, F!AddEntry(k)
  PROVE  ReferenceInv'
<1> DEFINE t == F!Announced(k)
<1>1. /\ shape # "leaf-list" /\ members' = members \cup {k} /\ shape' = shape
  BY DEF F!AddEntry, F!TargetsBecome
<1>2. t \in TargetRecords /\ t.key = k /\ (t.set \/ t.val = Unread)
  BY KeysAssumption DEF F!Announced, F!Target, TargetRecords
<1> HIDE DEF t
<1>3. members \subseteq TargetKeys
  BY DEF ReferenceInv, RefOK
<1>4. /\ members \subseteq {targets[i].key : i \in DOMAIN targets}
      /\ \A i, j \in DOMAIN targets : targets[i].key = targets[j].key => i = j
  BY <1>1 DEF ReferenceInv, EntriesOK
<1>5. CASE F!Registered(k) # {}
  <2>1. F!TargetsBecome(F!AllReplaced(k, t))
    BY <1>5 DEF F!AddEntry, t
  <2>2. targets' = F!AllReplaced(k, t)
    BY <2>1 DEF F!TargetsBecome
  <2>3. /\ TargetsOK' /\ DOMAIN targets' = DOMAIN targets
        /\ \A i \in DOMAIN targets : targets'[i].key = targets[i].key
    BY <1>2, <2>2, ReplacedTargets
  <2>4. \E i \in DOMAIN targets : targets[i].key = k
    BY <1>5 DEF F!Registered
  <2>5. EntriesOK'
    BY <1>1, <1>4, <2>3, <2>4 DEF EntriesOK
  <2> QED BY <1>1, <1>3, <2>1, <2>3, <2>5, BecomeKeeps
<1>6. CASE F!Registered(k) = {}
  <2>1. F!TargetsBecome(Append(targets, t))
    BY <1>6 DEF F!AddEntry, t
  <2>2. targets' = Append(targets, t)
    BY <2>1 DEF F!TargetsBecome
  <2>3. /\ TargetsOK'
        /\ DOMAIN targets = 1..Len(targets) /\ Len(targets) \in Nat
        /\ DOMAIN targets' = 1..(Len(targets) + 1)
        /\ targets'[Len(targets) + 1] = t
        /\ \A i \in DOMAIN targets : targets'[i] = targets[i]
    BY <1>2, <2>2, AppendedTarget
  <2>4. \A i \in DOMAIN targets : targets[i].key # k
    BY <1>6 DEF F!Registered
  <2>5. \A i \in DOMAIN targets' : i \in DOMAIN targets \/ i = Len(targets) + 1
    BY <2>3
  <2>6. \A i, j \in DOMAIN targets' : targets'[i].key = targets'[j].key => i = j
    BY <1>2, <1>4, <2>3, <2>4, <2>5
  <2>7. members' \subseteq {targets'[i].key : i \in DOMAIN targets'}
    <3>1. ASSUME NEW m \in members PROVE \E i \in DOMAIN targets' : m = targets'[i].key
      <4>1. PICK i \in DOMAIN targets : m = targets[i].key
        BY <1>4
      <4>2. i \in DOMAIN targets'
        BY <2>3
      <4> QED BY <2>3, <4>1, <4>2
    <3>2. Len(targets) + 1 \in DOMAIN targets'
      BY <2>3
    <3> QED BY <1>1, <1>2, <2>3, <3>1, <3>2
  <2> QED BY <1>1, <1>3, <2>1, <2>3, <2>6, <2>7, BecomeKeeps DEF EntriesOK
<1> QED BY <1>5, <1>6

(* An entry is deleted.                                                     *)
LEMMA TakeEntryKeeps ==
  ASSUME ReferenceInv, NEW k \in TargetKeys, F!DeleteEntry(k) \/ F!DelEntry(k)
  PROVE  ReferenceInv'
<1>1. members \subseteq TargetKeys
  BY DEF ReferenceInv, RefOK
<1>2. CASE F!DeleteEntry(k)
  <2>1. PICK i \in F!Registered(k) : F!TargetsBecome(F!RemoveAt(targets, i))
    BY <1>2 DEF F!DeleteEntry
  <2>2. /\ targets' = F!RemoveAt(targets, i) /\ shape' = shape
        /\ members' = members \ {k}
    BY <1>2, <2>1 DEF F!TargetsBecome, F!DeleteEntry
  <2>3. i \in DOMAIN targets /\ targets[i].key = k
    BY DEF F!Registered
  <2>4. TargetsOK' /\ EntriesOK'
    BY <2>2, <2>3, RemovedTarget DEF EntriesOK
  <2> QED BY <1>1, <2>1, <2>2, <2>4, BecomeKeeps
<1>3. CASE F!DelEntry(k)
  <2>1. F!TargetsBecome(targets) /\ members' = members \ {k}
    BY <1>3 DEF F!DelEntry
  <2>2. targets' = targets /\ shape' = shape
    BY <2>1 DEF F!TargetsBecome
  <2>3. TargetsOK'
    BY <2>2 DEF ReferenceInv, TargetsOK
  <2>4. EntriesOK'
    BY <2>1, <2>2 DEF ReferenceInv, EntriesOK
  <2> QED BY <1>1, <2>1, <2>3, <2>4, BecomeKeeps
<1> QED BY <1>2, <1>3

(* A member of a leaf-list, or the leaf, is set or goes.                    *)
LEMMA ItemKeeps ==
  ASSUME ReferenceInv,
         \/ \E k \in TargetKeys, v \in Assigned : F!SetTarget(k, v)
         \/ \E v \in Assigned : F!AppendItem(v)
         \/ \E i \in DOMAIN targets : F!RemoveItem(i)
  PROVE  ReferenceInv'
<1>1. members \subseteq TargetKeys
  BY DEF ReferenceInv, RefOK
<1>2. ASSUME NEW k \in TargetKeys, NEW v \in Assigned, F!SetTarget(k, v) PROVE ReferenceInv'
  <2> DEFINE t == F!Target(k, v, TRUE)
  <2>1. F!TargetsBecome(F!AllReplaced(k, t)) /\ members' = members
    BY <1>2 DEF F!SetTarget
  <2>2. t \in TargetRecords /\ t.key = k /\ t.set
    BY DEF F!Target, TargetRecords
  <2> HIDE DEF t
  <2>3. targets' = F!AllReplaced(k, t) /\ shape' = shape
    BY <2>1 DEF F!TargetsBecome
  <2>4. /\ TargetsOK' /\ DOMAIN targets' = DOMAIN targets
        /\ \A i \in DOMAIN targets : targets'[i].key = targets[i].key
    BY <2>2, <2>3, ReplacedTargets
  <2>5. EntriesOK'
    BY <2>1, <2>3, <2>4 DEF ReferenceInv, EntriesOK
  <2> QED BY <1>1, <2>1, <2>4, <2>5, BecomeKeeps
<1>3. ASSUME NEW v \in Assigned, F!AppendItem(v) PROVE ReferenceInv'
  <2> DEFINE t == F!Target(v, v, TRUE)
  <2>1. F!TargetsBecome(Append(targets, t)) /\ members' = members /\ shape = "leaf-list"
    BY <1>3 DEF F!AppendItem
  <2>2. t \in TargetRecords /\ t.set
    BY DEF F!Target, TargetRecords
  <2> HIDE DEF t
  <2>3. targets' = Append(targets, t) /\ shape' = shape
    BY <2>1 DEF F!TargetsBecome
  <2>4. TargetsOK'
    BY <2>2, <2>3, AppendedTarget
  <2> QED BY <1>1, <2>1, <2>3, <2>4, BecomeKeeps DEF EntriesOK
<1>4. ASSUME NEW i \in DOMAIN targets, F!RemoveItem(i) PROVE ReferenceInv'
  <2>1. F!TargetsBecome(F!RemoveAt(targets, i)) /\ members' = members /\ shape = "leaf-list"
    BY <1>4 DEF F!RemoveItem
  <2>2. targets' = F!RemoveAt(targets, i) /\ shape' = shape
    BY <2>1 DEF F!TargetsBecome
  <2>3. TargetsOK'
    BY <2>2, RemovedTarget
  <2> QED BY <1>1, <2>1, <2>2, <2>3, BecomeKeeps DEF EntriesOK
<1> QED BY <1>2, <1>3, <1>4

(* What an assignment takes it reads as, and finds or sets.                  *)
LEMMA SetRefKeeps ==
  ASSUME ReferenceInv, NEW v \in Assigned \cup {Bad}, F!SetRef(v)
  PROVE  ReferenceInv'
<1>0. TargetsOK /\ EntriesOK /\ RefOK /\ F!ReferencesHold
  BY DEF ReferenceInv
<1>1. ASSUME NEW mode \in {"pointer", "object", "plain"}, F!Takes(mode, v)
      PROVE  /\ RefOK' /\ ref'.mode = mode /\ ref'.val = v
             /\ assigned' = v /\ marked' = TRUE
             /\ UNCHANGED <<shape, require, members>>
  <2>1. /\ ref' = [mode |-> mode, val |-> v] /\ assigned' = v /\ since' = FALSE /\ marked' = TRUE
        /\ UNCHANGED <<shape, require, members>>
    BY <1>1 DEF F!Takes
  <2> QED BY <1>0, <2>1 DEF RefOK
<1>2. CASE F!Point(v)
  <2> DEFINE t == F!Target(targets[1].key, v, TRUE)
  <2>1. /\ Len(targets) = 1 /\ v # Bad /\ F!Takes("pointer", v)
        /\ targets' = F!AllReplaced(targets[1].key, t)
    BY <1>2 DEF F!Point, F!Points
  <2>2. 1 \in DOMAIN targets /\ targets[1] \in TargetRecords
    BY <1>0, <2>1 DEF TargetsOK
  <2>3. t \in TargetRecords /\ t.key = targets[1].key /\ t.set /\ t.val = v
    BY <2>1, <2>2 DEF F!Target, TargetRecords
  <2> HIDE DEF t
  <2>4. /\ TargetsOK' /\ DOMAIN targets' = DOMAIN targets /\ Len(targets') = Len(targets)
        /\ \A i \in DOMAIN targets :
             /\ targets'[i].key = targets[i].key
             /\ targets[i].key = targets[1].key => targets'[i].val = t.val
    BY <2>1, <2>3, ReplacedTargets
  <2>5. Len(targets') = 1 /\ 1 \in DOMAIN targets' /\ targets'[1].val = v
    BY <2>1, <2>2, <2>3, <2>4
  <2>6. /\ RefOK' /\ ref'.mode = "pointer" /\ assigned' = v /\ marked' = TRUE
        /\ UNCHANGED <<shape, require, members>>
    BY <1>1, <2>1
  <2>7. EntriesOK'
    BY <1>0, <2>4, <2>6 DEF EntriesOK
  <2>8. F!Reads(assigned)'
    BY <2>5, <2>6 DEF F!Reads
  <2>9. targets'[1].set \/ targets'[1].val = Unread
    BY <2>4, <2>5 DEF TargetsOK
  <2>10. F!ReferencesHold'
    BY <2>5, <2>6, <2>8, <2>9 DEF F!ReferencesHold
  <2> QED BY <2>4, <2>6, <2>7, <2>10 DEF ReferenceInv
<1>3. CASE F!Find(v)
  <2>1. F!Takes("object", v) /\ targets' = targets /\ \E i \in DOMAIN targets : targets[i].val = v
    BY <1>3 DEF F!Find, F!Found
  <2>2. /\ RefOK' /\ ref'.mode = "object" /\ ref'.val = v /\ assigned' = v /\ marked' = TRUE
        /\ UNCHANGED <<shape, require, members>>
    BY <1>1, <2>1
  <2>3. F!Reads(assigned)'
    BY <2>2 DEF F!Reads
  <2>4. TargetsOK' /\ EntriesOK'
    BY <1>0, <2>1, <2>2 DEF TargetsOK, EntriesOK
  <2>5. F!ReferencesHold'
    BY <1>0, <2>1, <2>2, <2>3 DEF F!ReferencesHold, TargetsOK
  <2> QED BY <2>2, <2>4, <2>5 DEF ReferenceInv
<1>4. CASE F!TakeAsIs(v)
  <2>1. F!Takes("plain", v) /\ targets' = targets /\ ~require
    BY <1>4 DEF F!TakeAsIs
  <2>2. /\ RefOK' /\ ref'.mode = "plain" /\ ref'.val = v /\ assigned' = v /\ marked' = TRUE
        /\ UNCHANGED <<shape, require, members>>
    BY <1>1, <2>1
  <2>3. F!Reads(assigned)'
    BY <2>2 DEF F!Reads
  <2>4. TargetsOK' /\ EntriesOK'
    BY <1>0, <2>1, <2>2 DEF TargetsOK, EntriesOK
  <2>5. F!ReferencesHold'
    BY <2>1, <2>2, <2>3 DEF F!ReferencesHold
  <2> QED BY <2>2, <2>4, <2>5 DEF ReferenceInv
<1>5. CASE F!Refuse(v)
  <2>1. marked' = TRUE /\ UNCHANGED <<shape, require, members, targets, ref, assigned, since>>
    BY <1>5 DEF F!Refuse
  <2> QED BY <2>1 DEF ReferenceInv, TargetsOK, EntriesOK, RefOK, F!ReferencesHold, F!Reads
<1> QED BY <1>2, <1>3, <1>4, <1>5 DEF F!SetRef

(* The reference is unset.                                                  *)
LEMMA UnsetRefKeeps == ASSUME ReferenceInv, F!UnsetTheRef PROVE ReferenceInv'
<1>1. /\ ref' = [mode |-> "unset", val |-> Unread]
      /\ UNCHANGED <<shape, require, members, targets, marked, assigned, since>>
  BY DEF F!UnsetTheRef, F!UnsetRef
<1> QED BY <1>1 DEF ReferenceInv, TargetsOK, EntriesOK, RefOK, F!ReferencesHold

(* The invariant is kept by all programs.                                   *)
LEMMA ReferenceSteps ==
  ASSUME program = "refer" => ReferenceInv, [ProgramNext]_<<vars, rvars, lvars, fvars, program>>
  PROVE  program' = "refer" => ReferenceInv'
<1>1. CASE UNCHANGED fvars /\ program' = program
  BY <1>1 DEF fvars, ReferenceInv, TargetsOK, EntriesOK, RefOK, F!ReferencesHold, F!Reads
<1>2. CASE program = "refer" /\ F!Next /\ program' = program
  BY <1>2, AddEntryKeeps, TakeEntryKeeps, ItemKeeps, SetRefKeeps, UnsetRefKeeps DEF F!Next
<1> QED BY <1>1, <1>2 DEF ProgramNext

(* A leafref reads as the value it was set to for as long as nobody changes   *)
(* what it refers to, one that is no pointer for ever; the container it is    *)
(* in reports the change, and with require-instance the value is there to be  *)
(* referred to (ReferenceType._set), whatever keys, values and targets there  *)
(* are and whatever becomes of them.                                        *)
THEOREM ReadAsSet == ProgramSpec => []ReferencesHold
<1>1. ProgramInit => (program = "refer" => ReferenceInv)
  BY ReferenceInit DEF ProgramInit
<1>2. (program = "refer" => ReferenceInv) /\ [ProgramNext]_<<vars, rvars, lvars, fvars, program>>
        => (program = "refer" => ReferenceInv)'
  BY ReferenceSteps
<1>3. (program = "refer" => ReferenceInv) => ReferencesHold
  BY DEF ReferenceInv, ReferencesHold
<1> QED BY <1>1, <1>2, <1>3, PTL DEF ProgramSpec

-----------------------------------------------------------------------------
(* What the loaders make of leaf-lists                                     *)

Collects(f, vs) ==
  f = [i \in 0..Len(vs) |-> IF i = 0 THEN <<>> ELSE L!Collected(f[i - 1], vs[i])]

(* One value of the document.                                               *)
LEMMA CollectedOne ==
  ASSUME NEW s \in Seq(Natives), NEW p \in Passed, Accepts(p)
  PROVE  /\ L!Collected(s, p) \in Seq(Natives)
         /\ L!Has(L!Collected(s, p), Native[p])
         /\ \A q : L!Has(s, q) => L!Has(L!Collected(s, p), q)
<1>1. Native[p] \in Natives
  BY PassedAssumption DEF Accepts
<1>2. CASE L!Has(s, p)
  <2>1. p \in Natives /\ Native[p] = p
    BY <1>2, PassedAssumption DEF L!Has
  <2> QED BY <1>2, <2>1 DEF L!Collected
<1>3. CASE ~L!Has(s, p)
  <2> DEFINE t == Append(s, Native[p])
  <2>1. /\ t \in Seq(Natives) /\ Len(s) \in Nat /\ DOMAIN s = 1..Len(s)
        /\ DOMAIN t = 1..(Len(s) + 1)
        /\ t[Len(s) + 1] = Native[p]
        /\ \A i \in 1..Len(s) : t[i] = s[i]
    BY <1>1
  <2>2. L!Collected(s, p) = t
    BY <1>3 DEF L!Collected
  <2> HIDE DEF t
  <2>3. Len(s) + 1 \in DOMAIN t /\ \A i \in DOMAIN s : i \in DOMAIN t
    BY <2>1
  <2> QED BY <2>1, <2>2, <2>3 DEF L!Has
<1> QED BY <1>2, <1>3

(* The constructor of a leaf-list takes what its type accepts, all of it.    *)
LEMMA CollectedAllFacts ==
  ASSUME NEW vs \in Seq(Passed), \A i \in DOMAIN vs : Accepts(vs[i])
  PROVE  /\ L!CollectedAll(vs) \in Seq(Natives)
         /\ \A i \in DOMAIN vs : L!Has(L!CollectedAll(vs), Native[vs[i]])
<1> DEFINE N == Len(vs)
<1>1. N \in Nat /\ DOMAIN vs = 1..N /\ \A i \in 1..N : vs[i] \in Passed
  OBVIOUS
<1>2. \E f : Collects(f, vs)
  <2> HIDE DEF N
  <2>1. PICK G : G = [i \in 1..N |-> [s \in Seq(Natives) |-> L!Collected(s, vs[i])]]
    OBVIOUS
  <2>2. ASSUME NEW i \in 1..N, NEW s \in Seq(Natives) PROVE L!Collected(s, vs[i]) \in Seq(Natives)
    BY <1>1, CollectedOne
  <2>3. G \in [1..N -> [Seq(Natives) -> Seq(Natives)]]
    BY <2>1, <2>2
  <2>4. <<>> \in Seq(Natives)
    OBVIOUS
  <2>5. PICK f \in [0..N -> Seq(Natives)] : Goes(f, N, <<>>, G)
    BY <1>1, <2>3, <2>4, FoldExists
  <2>6. ASSUME NEW i \in 0..N
        PROVE  (IF i = 0 THEN <<>> ELSE G[i][f[i - 1]]) = IF i = 0 THEN <<>> ELSE L!Collected(f[i - 1], vs[i])
    <3>1. i # 0 => i \in 1..N /\ i - 1 \in 0..N
      BY <1>1
    <3>2. i # 0 => f[i - 1] \in Seq(Natives)
      BY <3>1
    <3>3. i # 0 => G[i][f[i - 1]] = L!Collected(f[i - 1], vs[i])
      BY <2>1, <3>1, <3>2
    <3> QED BY <3>3
  <2>7. f = [i \in 0..N |-> IF i = 0 THEN <<>> ELSE L!Collected(f[i - 1], vs[i])]
    BY <2>5, <2>6 DEF Goes
  <2> QED BY <2>7 DEF Collects, N
<1>3. PICK f : Collects(f, vs) /\ L!CollectedAll(vs) = f[N]
  <2>1. L!CollectedAll(vs) = (CHOOSE f : Collects(f, vs))[N]
    BY DEF L!CollectedAll, Collects
  <2> HIDE DEF N
  <2> QED BY <1>2, <2>1
<1> HIDE DEF N
<1>4. f[0] = <<>> /\ \A i \in 1..N : f[i] = L!Collected(f[i - 1], vs[i])
  <2>1. f = [i \in 0..N |-> IF i = 0 THEN <<>> ELSE L!Collected(f[i - 1], vs[i])]
    BY <1>3 DEF Collects, N
  <2>2. 0 \in 0..N /\ \A i \in 1..N : i \in 0..N /\ i # 0
    BY <1>1
  <2> QED BY <2>1, <2>2
<1> DEFINE A == {n \in Nat : n <= N =>
                  /\ f[n] \in Seq(Natives)
                  /\ \A i \in 1..n : L!Has(f[n], Native[vs[i]])}
<1>5. Nat \subseteq A
  <2>1. 0 \in A
    <3>1. <<>> \in Seq(Natives) /\ 1..0 = {}
      OBVIOUS
    <3> QED BY <1>4, <3>1
  <2>2. ASSUME NEW n \in Nat, n \in A PROVE n + 1 \in A
    <3> SUFFICES ASSUME n + 1 <= N
                 PROVE  /\ f[n + 1] \in Seq(Natives)
                        /\ \A i \in 1..(n + 1) : L!Has(f[n + 1], Native[vs[i]])
      OBVIOUS
    <3>1. f[n] \in Seq(Natives) /\ \A i \in 1..n : L!Has(f[n], Native[vs[i]])
      BY <1>1, <2>2
    <3>2. n + 1 \in 1..N /\ (n + 1) - 1 = n
      BY <1>1
    <3>3. f[n + 1] = L!Collected(f[n], vs[n + 1])
      BY <1>4, <3>2
    <3>4. vs[n + 1] \in Passed /\ Accepts(vs[n + 1])
      BY <1>1, <3>2
    <3>5. /\ f[n + 1] \in Seq(Natives)
          /\ L!Has(f[n + 1], Native[vs[n + 1]])
          /\ \A q : L!Has(f[n], q) => L!Has(f[n + 1], q)
      BY <3>1, <3>3, <3>4, CollectedOne
    <3>6. \A i \in 1..(n + 1) : i \in 1..n \/ i = n + 1
      OBVIOUS
    <3> QED BY <3>1, <3>5, <3>6
  <2> HIDE DEF A
  <2> QED BY <2>1, <2>2, NumbersInduction
<1> QED BY <1>1, <1>3, <1>5

(* What is left when all that is not in P is removed; nothing is if it is    *)
(* all in P.                                                                *)
LEMMA OnlyFacts ==
  ASSUME NEW S, NEW s \in Seq(S), NEW P
  PROVE  /\ L!Only(s, P) \in Seq(S)
         /\ \A x : L!Has(s, x) /\ x \in P => L!Has(L!Only(s, P), x)
         /\ \A i \in DOMAIN L!Only(s, P) : L!Only(s, P)[i] \in P
         /\ (\A i \in DOMAIN s : s[i] \in P) => L!Only(s, P) = s
<1> DEFINE N == Len(s)
<1>1. N \in Nat /\ DOMAIN s = 1..N /\ \A i \in 1..N : s[i] \in S
  OBVIOUS
<1>2. \E f : Sifts(f, s, P)
  BY SiftExists
<1>3. PICK f : Sifts(f, s, P) /\ L!Only(s, P) = f[N]
  <2>1. L!Only(s, P) = (CHOOSE f : Sifts(f, s, P))[N]
    BY DEF L!Only, Sifts
  <2> HIDE DEF N
  <2> QED BY <1>2, <2>1
<1> HIDE DEF N
<1>4. f[0] = <<>> /\ \A i \in 1..N : f[i] = IF s[i] \in P THEN Append(f[i - 1], s[i]) ELSE f[i - 1]
  <2>1. f = [i \in 0..N |->
              IF i = 0 THEN <<>> ELSE IF s[i] \in P THEN Append(f[i - 1], s[i]) ELSE f[i - 1]]
    BY <1>3 DEF Sifts, N
  <2>2. 0 \in 0..N /\ \A i \in 1..N : i \in 0..N /\ i # 0
    BY <1>1
  <2> QED BY <2>1, <2>2
<1> DEFINE A == {n \in Nat : n <= N =>
                  /\ f[n] \in Seq(S)
                  /\ \A i \in 1..n : s[i] \in P => L!Has(f[n], s[i])
                  /\ \A i \in DOMAIN f[n] : f[n][i] \in P
                  /\ (\A i \in DOMAIN s : s[i] \in P) => Len(f[n]) = n /\ \A i \in 1..n : f[n][i] = s[i]}
<1>5. Nat \subseteq A
  <2>1. 0 \in A
    <3>1. <<>> \in Seq(S) /\ 1..0 = {} /\ DOMAIN <<>> = {} /\ Len(<<>>) = 0
      OBVIOUS
    <3> QED BY <1>4, <3>1
  <2>2. ASSUME NEW n \in Nat, n \in A PROVE n + 1 \in A
    <3> SUFFICES ASSUME n + 1 <= N
                 PROVE  /\ f[n + 1] \in Seq(S)
                        /\ \A i \in 1..(n + 1) : s[i] \in P => L!Has(f[n + 1], s[i])
                        /\ \A i \in DOMAIN f[n + 1] : f[n + 1][i] \in P
                        /\ (\A i \in DOMAIN s : s[i] \in P) =>
                             Len(f[n + 1]) = n + 1 /\ \A i \in 1..(n + 1) : f[n + 1][i] = s[i]
      OBVIOUS
    <3>1. /\ f[n] \in Seq(S) /\ \A i \in 1..n : s[i] \in P => L!Has(f[n], s[i])
          /\ \A i \in DOMAIN f[n] : f[n][i] \in P
          /\ (\A i \in DOMAIN s : s[i] \in P) => Len(f[n]) = n /\ \A i \in 1..n : f[n][i] = s[i]
      BY <1>1, <2>2
    <3>2. n + 1 \in 1..N /\ (n + 1) - 1 = n /\ s[n + 1] \in S /\ n + 1 \in DOMAIN s
      BY <1>1
    <3>3. f[n + 1] = IF s[n + 1] \in P THEN Append(f[n], s[n + 1]) ELSE f[n]
      BY <1>4, <3>2
    <3>4. \A i \in 1..(n + 1) : i \in 1..n \/ i = n + 1
      OBVIOUS
    <3>5. CASE s[n + 1] \in P
      <4> DEFINE t == Append(f[n], s[n + 1])
                 M == Len(f[n])
      <4>1. /\ t \in Seq(S) /\ M \in Nat /\ DOMAIN f[n] = 1..M
            /\ DOMAIN t = 1..(M + 1) /\ Len(t) = M + 1
            /\ t[M + 1] = s[n + 1]
            /\ \A i \in 1..M : t[i] = f[n][i]
        BY <3>1, <3>2
      <4>2. f[n + 1] = t
        BY <3>3, <3>5
      <4> HIDE DEF t, M
      <4>3. \A i \in DOMAIN t : i \in DOMAIN f[n] \/ i = M + 1
        BY <4>1
      <4>4. M + 1 \in DOMAIN t /\ \A i \in DOMAIN f[n] : i \in DOMAIN t
        BY <4>1
      <4>5. \A q : L!Has(f[n], q) => L!Has(t, q)
        BY <4>1, <4>4 DEF L!Has
      <4>6. L!Has(t, s[n + 1])
        BY <4>1, <4>4 DEF L!Has
      <4>7. \A i \in DOMAIN t : t[i] \in P
        BY <3>1, <3>5, <4>1, <4>3
      <4>8. ASSUME \A i \in DOMAIN s : s[i] \in P
            PROVE  Len(t) = n + 1 /\ \A i \in 1..(n + 1) : t[i] = s[i]
        <5>1. M = n /\ \A i \in 1..n : f[n][i] = s[i]
          BY <3>1, <4>8 DEF M
        <5> QED BY <3>4, <4>1, <5>1
      <4> QED BY <3>1, <3>4, <4>1, <4>2, <4>5, <4>6, <4>7, <4>8
    <3>6. CASE s[n + 1] \notin P
      BY <3>1, <3>2, <3>3, <3>4, <3>6
    <3> QED BY <3>5, <3>6
  <2> HIDE DEF A
  <2> QED BY <2>1, <2>2, NumbersInduction
<1>6. /\ f[N] \in Seq(S)
      /\ \A i \in 1..N : s[i] \in P => L!Has(f[N], s[i])
      /\ \A i \in DOMAIN f[N] : f[N][i] \in P
      /\ (\A i \in DOMAIN s : s[i] \in P) => Len(f[N]) = N /\ \A i \in 1..N : f[N][i] = s[i]
  BY <1>1, <1>5
<1> HIDE DEF A
<1>7. ASSUME \A i \in DOMAIN s : s[i] \in P PROVE f[N] = s
  <2>1. Len(f[N]) = Len(s) /\ \A i \in 1..Len(s) : f[N][i] = s[i]
    BY <1>6, <1>7 DEF N
  <2> QED BY <1>6, <2>1, SeqEqual
<1>8. \A x : L!Has(s, x) /\ x \in P => L!Has(f[N], x)
  BY <1>1, <1>6 DEF L!Has
<1> QED BY <1>3, <1>6, <1>7, <1>8

-----------------------------------------------------------------------------
(* What the loaders make of lists                                          *)

(* The entries of st are those of es at the places of T, each once.          *)
Arranges(p, es, T, st) ==
  /\ p \in [1..Len(st) -> T]
  /\ \A n \in 1..Len(st) : st[n] = es[p[n]]
  /\ \A n, m \in 1..Len(st) : p[n] = p[m] => n = m
  /\ \A i \in T : \E n \in 1..Len(st) : p[n] = i

(* The number of elements is the same under both names.                     *)
LEMMA SameCardinality == \A S : L!Cardinality(S) = Cardinality(S)
BY DEF L!Cardinality, Cardinality

(* Numbered entries come by their numbers, then the others from the last.    *)
LEMMA BeforeOrders ==
  ASSUME NEW es \in Seq(ListEntries), NEW fresh \in BOOLEAN, NEW T, T = L!Taken(es, fresh)
  PROVE  StrictOrder(T, {q \in T \X T : L!Before(es, fresh, q[1], q[2])})
<1> DEFINE order == {q \in T \X T : L!Before(es, fresh, q[1], q[2])}
           has(i) == L!HasNumber(es[i], fresh)
<1>1. /\ DOMAIN es = 1..Len(es) /\ Len(es) \in Nat
      /\ \A i \in DOMAIN es : es[i] \in ListEntries
  OBVIOUS
<1>2. /\ T \subseteq DOMAIN es
      /\ \A i \in T : has(i) => \A j \in DOMAIN es : es[j].order = es[i].order => j <= i
  BY DEF L!Taken
<1>3. \A i \in T : i \in Nat /\ (has(i) => es[i].order \in Nat)
  BY <1>1, <1>2 DEF L!HasNumber, ListEntries
<1>4. \A i, j \in T : <<i, j>> \in order <=>
        \/ has(i) /\ has(j) /\ es[i].order < es[j].order
        \/ has(i) /\ ~has(j)
        \/ ~has(i) /\ ~has(j) /\ j < i
  BY DEF L!Before
<1> HIDE DEF order, has
<1>5. \A i \in T : <<i, i>> \notin order
  BY <1>3, <1>4
<1>6. ASSUME NEW i \in T, NEW j \in T, NEW k \in T, <<i, j>> \in order, <<j, k>> \in order
      PROVE  <<i, k>> \in order
  <2>1. has(i) /\ has(k) => has(j)
    BY <1>4, <1>6
  <2>2. CASE has(i) /\ has(k)
    <3>1. es[i].order < es[j].order /\ es[j].order < es[k].order
      BY <1>4, <1>6, <2>1, <2>2
    <3>2. es[i].order < es[k].order
      BY <1>3, <2>1, <2>2, <3>1
    <3> QED BY <1>4, <2>2, <3>2
  <2>3. CASE has(i) /\ ~has(k)
    BY <1>4, <2>3
  <2>4. CASE ~has(i)
    <3>1. ~has(j) /\ j < i /\ ~has(k) /\ k < j
      BY <1>4, <1>6, <2>4
    <3>2. k < i
      BY <1>3, <3>1
    <3> QED BY <1>4, <2>4, <3>1, <3>2
  <2> QED BY <2>2, <2>3, <2>4
<1>7. ASSUME NEW i \in T, NEW j \in T, i # j PROVE <<i, j>> \in order \/ <<j, i>> \in order
  <2>1. CASE has(i) /\ has(j)
    <3>1. es[i].order # es[j].order
      <4> SUFFICES ASSUME es[i].order = es[j].order PROVE FALSE
        OBVIOUS
      <4>1. j <= i /\ i <= j
        BY <1>2, <2>1
      <4> QED BY <1>3, <1>7, <4>1
    <3>2. es[i].order < es[j].order \/ es[j].order < es[i].order
      BY <1>3, <2>1, <3>1
    <3> QED BY <1>4, <2>1, <3>2
  <2>2. CASE ~(has(i) <=> has(j))
    BY <1>4, <2>2
  <2>3. CASE ~has(i) /\ ~has(j)
    <3>1. i < j \/ j < i
      BY <1>3, <1>7
    <3> QED BY <1>4, <2>3, <3>1
  <2> QED BY <2>1, <2>2, <2>3
<1>8. StrictOrder(T, order)
  BY <1>5, <1>6, <1>7 DEF StrictOrder
<1> QED BY <1>8 DEF order

(* load_json goes through all entries that are taken, in that order.         *)
LEMMA SortedFacts ==
  ASSUME NEW es \in Seq(ListEntries), NEW fresh \in BOOLEAN
  PROVE  /\ Len(L!Sorted(es, fresh)) \in Nat
         /\ L!Sorted(es, fresh) \in Seq(ListEntries)
         /\ \E p : /\ Arranges(p, es, L!Taken(es, fresh), L!Sorted(es, fresh))
                   /\ \A n, m \in 1..Len(L!Sorted(es, fresh)) :
                        L!Before(es, fresh, p[n], p[m]) => n < m
<1> DEFINE T == L!Taken(es, fresh)
           order == {q \in T \X T : L!Before(es, fresh, q[1], q[2])}
           N == L!Cardinality(T)
           st == L!Sorted(es, fresh)
<1>1. /\ DOMAIN es = 1..Len(es) /\ Len(es) \in Nat
      /\ \A i \in DOMAIN es : es[i] \in ListEntries
  OBVIOUS
<1>2. T \subseteq DOMAIN es
  BY DEF L!Taken
<1>3. IsFiniteSet(T)
  <2>1. IsFiniteSet(1..Len(es))
    BY <1>1, FS_Interval
  <2> HIDE DEF T
  <2> QED BY <1>1, <1>2, <2>1, FS_Subset
<1>4. StrictOrder(T, order)
  BY BeforeOrders
<1>5. /\ N \in Nat
      /\ \A i, j \in T : <<i, j>> \in order => Rank(T, order, i) < Rank(T, order, j)
      /\ \A i \in T : Rank(T, order, i) \in 0..(N - 1)
      /\ \A i, j \in T : Rank(T, order, i) = Rank(T, order, j) => i = j
      /\ \A n \in 0..(N - 1) : \E i \in T : Rank(T, order, i) = n
  <2>1. N = Cardinality(T)
    BY SameCardinality
  <2> HIDE DEF T, order, N
  <2> QED BY <1>3, <1>4, <2>1, Ranking
<1>6. \A i \in T : {j \in T : L!Before(es, fresh, j, i)} = Earlier(T, order, i)
  <2> SUFFICES ASSUME NEW i \in T PROVE {j \in T : L!Before(es, fresh, j, i)} = Earlier(T, order, i)
    OBVIOUS
  <2>1. \A j \in T : <<j, i>> \in order <=> L!Before(es, fresh, j, i)
    <3> HIDE DEF T
    <3> QED OBVIOUS
  <2> HIDE DEF T, order
  <2> QED BY <2>1 DEF Earlier
<1> DEFINE C(n) == CHOOSE i \in T : L!Cardinality({j \in T : L!Before(es, fresh, j, i)}) = n - 1
           p == [n \in 1..N |-> C(n)]
<1>7. ASSUME NEW n \in 1..N PROVE p[n] \in T /\ Rank(T, order, p[n]) = n - 1
  <2> DEFINE Q(i) == L!Cardinality({j \in T : L!Before(es, fresh, j, i)}) = n - 1
  <2>1. n - 1 \in 0..(N - 1)
    BY <1>5
  <2>2. PICK i \in T : Rank(T, order, i) = n - 1
    BY <1>5, <2>1
  <2>3. \A k \in T : Q(k) <=> Rank(T, order, k) = n - 1
    BY <1>6, SameCardinality DEF Rank
  <2>4. p[n] = CHOOSE k \in T : Q(k)
    <3> HIDE DEF T, N, Q
    <3>1. p[n] = C(n)
      <4> HIDE DEF C
      <4> QED OBVIOUS
    <3> QED BY <3>1 DEF Q
  <2> HIDE DEF Q, p, T, order, N
  <2> QED BY <2>2, <2>3, <2>4
<1>8. st = [n \in 1..N |-> es[C(n)]]
  BY DEF L!Sorted
<1> HIDE DEF C, st, T, order, N
<1>0. p = [n \in 1..N |-> p[n]] /\ \A n \in 1..N : p[n] = C(n)
  OBVIOUS
<1> HIDE DEF p
<1>9. /\ DOMAIN st = 1..N /\ \A n \in 1..N : st[n] = es[p[n]]
      /\ st \in [1..N -> ListEntries]
  BY <1>0, <1>1, <1>2, <1>7, <1>8
<1>10. st \in Seq(ListEntries) /\ Len(st) = N
  <2>1. st \in Seq(ListEntries)
    BY <1>5, <1>9
  <2> QED BY <1>5, <1>9, <2>1
<1>11. p \in [1..N -> T]
  BY <1>0, <1>7
<1>12. \A n, m \in 1..N : p[n] = p[m] => n = m
  <2> SUFFICES ASSUME NEW n \in 1..N, NEW m \in 1..N, p[n] = p[m] PROVE n = m
    OBVIOUS
  <2>1. n - 1 = m - 1
    BY <1>7
  <2> QED BY <1>5, <2>1
<1>13. ASSUME NEW i \in T PROVE \E n \in 1..N : p[n] = i
  <2>1. Rank(T, order, i) \in 0..(N - 1)
    BY <1>5
  <2>2. Rank(T, order, i) + 1 \in 1..N /\ (Rank(T, order, i) + 1) - 1 = Rank(T, order, i)
    BY <1>5, <2>1
  <2>3. p[Rank(T, order, i) + 1] \in T /\ Rank(T, order, p[Rank(T, order, i) + 1]) = Rank(T, order, i)
    BY <1>7, <2>2
  <2>4. p[Rank(T, order, i) + 1] = i
    BY <1>5, <2>3
  <2> QED BY <2>2, <2>4
<1>14. ASSUME NEW n \in 1..N, NEW m \in 1..N, L!Before(es, fresh, p[n], p[m]) PROVE n < m
  <2>1. <<p[n], p[m]>> \in order
    BY <1>7, <1>14 DEF order
  <2>2. Rank(T, order, p[n]) < Rank(T, order, p[m])
    BY <1>5, <1>7, <2>1
  <2>3. n - 1 < m - 1
    BY <1>7, <2>2
  <2> QED BY <1>5, <2>3
<1>15. Arranges(p, es, T, st)
  BY <1>9, <1>10, <1>11, <1>12, <1>13 DEF Arranges
<1> QED BY <1>5, <1>10, <1>14, <1>15 DEF st, T

(* What is put in a list is there, and all else in it stays.                 *)
PutsOn(l, e, k, new) ==
  /\ \A i \in DOMAIN l :
       /\ i \in DOMAIN new /\ new[i].at = l[i].at /\ new[i].key = l[i].key
       /\ new[i].v = IF l[i].at = k /\ e.v \in Values THEN e.v ELSE l[i].v
  /\ IF \E i \in DOMAIN l : l[i].at = k
     THEN Len(new) = Len(l)
     ELSE /\ Len(new) = Len(l) + 1
          /\ new[Len(l) + 1].at = k /\ new[Len(l) + 1].key = e.key
          /\ e.v \in Values => new[Len(l) + 1].v = e.v

(* Put does just that.                                                      *)
LEMMA PutFacts ==
  ASSUME NEW l \in Seq(L!Entries), NEW e \in ListEntries,
         NEW k \in L!DictKeys, k = L!DictKey(e.key)
  PROVE  /\ L!Put(l, e) \in Seq(L!Entries)
         /\ PutsOn(l, e, k, L!Put(l, e))
<1> DEFINE one == [at |-> k, key |-> e.key, v |-> Null]
           add == IF L!IsIn(l, e.key) THEN l ELSE Append(l, one)
           new == L!Put(l, e)
           to(i) == IF add[i].at = k /\ e.v \in Values THEN [add[i] EXCEPT !.v = e.v] ELSE add[i]
<1>1. one \in L!Entries /\ e.key \in Keys
  BY DEF L!Entries, ListEntries
<1>2. L!IsIn(l, e.key) <=> \E i \in DOMAIN l : l[i].at = k
  BY DEF L!IsIn
<1>3. new = [i \in DOMAIN add |-> to(i)]
  BY DEF L!Put
<1>4. /\ DOMAIN l = 1..Len(l) /\ Len(l) \in Nat
      /\ add \in Seq(L!Entries) /\ DOMAIN add = 1..Len(add) /\ Len(add) \in Nat
      /\ \A i \in DOMAIN l : i \in DOMAIN add /\ add[i] = l[i]
      /\ Len(add) = IF L!IsIn(l, e.key) THEN Len(l) ELSE Len(l) + 1
      /\ ~L!IsIn(l, e.key) => add[Len(l) + 1] = one
  <2> HIDE DEF one
  <2>1. CASE L!IsIn(l, e.key)
    <3>1. add = l
      BY <2>1
    <3> HIDE DEF add
    <3> QED BY <2>1, <3>1
  <2>2. CASE ~L!IsIn(l, e.key)
    <3> DEFINE a == Append(l, one)
    <3>1. add = a
      BY <2>2
    <3>2. /\ a \in Seq(L!Entries) /\ DOMAIN l = 1..Len(l) /\ Len(l) \in Nat
          /\ Len(a) = Len(l) + 1 /\ DOMAIN a = 1..(Len(l) + 1)
          /\ a[Len(l) + 1] = one /\ \A i \in 1..Len(l) : a[i] = l[i]
      BY <1>1
    <3> HIDE DEF add, a
    <3>3. \A i \in DOMAIN l : i \in DOMAIN a
      BY <3>2
    <3> QED BY <2>2, <3>1, <3>2, <3>3
  <2> QED BY <2>1, <2>2
<1>5. \A i \in DOMAIN add : add[i] \in L!Entries
  <2> HIDE DEF add
  <2> QED BY <1>4
<1>6. ASSUME NEW i \in DOMAIN add
      PROVE  /\ to(i) \in L!Entries
             /\ to(i).at = add[i].at /\ to(i).key = add[i].key
             /\ to(i).v = IF add[i].at = k /\ e.v \in Values THEN e.v ELSE add[i].v
  <2> HIDE DEF add
  <2>1. add[i] \in [at : L!DictKeys, key : Keys, v : Values \cup {Null}]
    BY <1>5 DEF L!Entries
  <2>2. CASE add[i].at = k /\ e.v \in Values
    <3>1. to(i) = [add[i] EXCEPT !.v = e.v]
      BY <2>2
    <3> HIDE DEF to
    <3> QED BY <2>1, <2>2, <3>1 DEF L!Entries
  <2>3. CASE ~(add[i].at = k /\ e.v \in Values)
    <3>1. to(i) = add[i]
      BY <2>3
    <3> HIDE DEF to
    <3> QED BY <2>1, <2>3, <3>1 DEF L!Entries
  <2> QED BY <2>2, <2>3
<1> HIDE DEF add, to, new
<1>7. /\ new \in [1..Len(add) -> L!Entries] /\ DOMAIN new = DOMAIN add
      /\ \A i \in DOMAIN add : new[i] = to(i)
  BY <1>3, <1>4, <1>6
<1>8. new \in Seq(L!Entries) /\ Len(new) = Len(add)
  <2>1. new \in Seq(L!Entries)
    BY <1>4, <1>7
  <2> QED BY <1>4, <1>7, <2>1
<1>9. \A i \in DOMAIN l :
        /\ i \in DOMAIN new /\ new[i].at = l[i].at /\ new[i].key = l[i].key
        /\ new[i].v = IF l[i].at = k /\ e.v \in Values THEN e.v ELSE l[i].v
  BY <1>4, <1>6, <1>7
<1>10. ASSUME ~L!IsIn(l, e.key)
       PROVE  /\ Len(new) = Len(l) + 1
              /\ new[Len(l) + 1].at = k /\ new[Len(l) + 1].key = e.key
              /\ e.v \in Values => new[Len(l) + 1].v = e.v
  <2>1. Len(l) + 1 \in DOMAIN add /\ add[Len(l) + 1] = one /\ Len(add) = Len(l) + 1
    BY <1>4, <1>10
  <2>2. one.at = k /\ one.key = e.key
    OBVIOUS
  <2> HIDE DEF one
  <2> QED BY <1>6, <1>7, <1>8, <2>1, <2>2
<1>11. PutsOn(l, e, k, new)
  BY <1>2, <1>4, <1>8, <1>9, <1>10 DEF PutsOn
<1> QED BY <1>8, <1>11 DEF new

-----------------------------------------------------------------------------
(* Loads                                                                   *)

Trees ==
  [leaf : Values \cup {Null}, leaflist : Seq(Natives), list : Seq(L!Entries),
   box : [present : BOOLEAN, in : Values \cup {Null}]]
Loads ==
  [flags : L!Flags, doc : DOMAIN Documents, member : Nat, part : Nat, before : Trees,
   fresh : BOOLEAN, again : BOOLEAN, out : {"none", "running", "done", "raised"}]

LoadTypes ==
  /\ tree \in Trees /\ load \in Loads /\ loads \in 0..MaxLoads
  /\ load.member \in 1..(Len(L!Doc) + 1)

(* A document is a sequence of members, each of its kind.                   *)
LEMMA DocFacts ==
  ASSUME NEW d \in DOMAIN Documents
  PROVE  /\ Len(Documents[d]) \in Nat /\ DOMAIN Documents[d] = 1..Len(Documents[d])
         /\ \A i \in DOMAIN Documents[d] : IsMember(Documents[d][i])
         /\ \A i, j \in DOMAIN Documents[d] :
              Documents[d][i].n = Documents[d][j].n => i = j \/ Documents[d][i].n = "unknown"
         /\ \A i \in DOMAIN Documents[d] : Documents[d][i].n = "list" =>
              \A a, b \in DOMAIN Documents[d][i].v :
                Documents[d][i].v[a].key = Documents[d][i].v[b].key => a = b
BY DocumentsAssumption

(* The member a running load is at.                                         *)
LEMMA AtFacts ==
  ASSUME LoadTypes, NEW n, L!At(n)
  PROVE  /\ load.out = "running" /\ load.member \in 1..Len(L!Doc) /\ load.member \in DOMAIN L!Doc
         /\ L!Member = L!Doc[load.member] /\ L!Member.n = n
         /\ IsMember(L!Member) /\ L!Member \in L!Members
<1>1. load.doc \in DOMAIN Documents /\ load.member \in 1..(Len(L!Doc) + 1) /\ L!Doc = Documents[load.doc]
  BY DEF LoadTypes, Loads, L!Doc
<1>2. load.out = "running" /\ load.member <= Len(L!Doc) /\ L!Member.n = n /\ L!Member = L!Doc[load.member]
  BY DEF L!At, L!Member
<1>3. Len(L!Doc) \in Nat /\ DOMAIN L!Doc = 1..Len(L!Doc) /\ \A i \in DOMAIN L!Doc : IsMember(L!Doc[i])
  BY <1>1, DocFacts
<1>4. load.member \in 1..Len(L!Doc)
  BY <1>1, <1>2, <1>3
<1> QED BY <1>2, <1>3, <1>4 DEF L!Members

(* The steps of a load: to the next member, to its next part, the end.      *)
SameLoad ==
  /\ load'.flags = load.flags /\ load'.doc = load.doc /\ load'.before = load.before
  /\ load'.fresh = load.fresh /\ load'.again = load.again
  /\ load' \in Loads /\ loads' = loads
Moves  == SameLoad /\ load'.member = load.member + 1 /\ load'.part = 0 /\ load'.out = load.out
Parts  == SameLoad /\ load'.member = load.member /\ load'.part = load.part + 1 /\ load'.out = load.out
Raises == SameLoad /\ load'.member = load.member /\ load'.part = load.part /\ load'.out = "raised"
Ends   == SameLoad /\ load'.member = load.member /\ load'.part = load.part /\ load'.out = "done"

(* What NextMember, NextPart, Raise and the end make of a load.             *)
LEMMA LoadSteps ==
  ASSUME load \in Loads, loads' = loads
  PROVE  /\ L!NextMember => Moves
         /\ L!NextPart => Parts
         /\ L!Raise => Raises
         /\ load' = [load EXCEPT !.out = "done"] => Ends
<1>1. /\ load.flags \in L!Flags /\ load.doc \in DOMAIN Documents /\ load.before \in Trees
      /\ load.fresh \in BOOLEAN /\ load.again \in BOOLEAN
      /\ load.out \in {"none", "running", "done", "raised"}
      /\ load.member \in Nat /\ load.part \in Nat
  BY DEF Loads
<1>2. load.member + 1 \in Nat /\ load.part + 1 \in Nat
  BY <1>1
<1>3. ASSUME L!NextMember PROVE Moves
  <2>1. load' = [load EXCEPT !.member = load.member + 1, !.part = 0]
    BY <1>3 DEF L!NextMember
  <2> QED BY <1>1, <1>2, <2>1 DEF Moves, SameLoad, Loads
<1>4. ASSUME L!NextPart PROVE Parts
  <2>1. load' = [load EXCEPT !.part = load.part + 1]
    BY <1>4 DEF L!NextPart
  <2> QED BY <1>1, <1>2, <2>1 DEF Parts, SameLoad, Loads
<1>5. ASSUME L!Raise PROVE Raises
  BY <1>1, <1>5 DEF L!Raise, Raises, SameLoad, Loads
<1>6. ASSUME load' = [load EXCEPT !.out = "done"] PROVE Ends
  BY <1>1, <1>6 DEF Ends, SameLoad, Loads
<1> QED BY <1>3, <1>4, <1>5, <1>6

(* What depends on the document and the flags alone stays.                  *)
LEMMA SameDocument ==
  ASSUME SameLoad
  PROVE  /\ L!Fmt' = L!Fmt /\ L!Overwrite' = L!Overwrite /\ L!Doc' = L!Doc /\ L!Members' = L!Members
         /\ L!SetsWhole' = L!SetsWhole /\ L!Purge' = L!Purge
         /\ \A k : L!DictKey(k)' = L!DictKey(k)
         /\ \A es : L!ByOrder(es)' = L!ByOrder(es)
         /\ L!OfTheType' = L!OfTheType /\ L!NumbersOnce' = L!NumbersOnce
<1>1. L!Fmt' = L!Fmt /\ L!Overwrite' = L!Overwrite /\ L!Doc' = L!Doc
  BY DEF SameLoad, L!Fmt, L!Overwrite, L!Doc
<1>2. L!Members' = L!Members
  BY <1>1 DEF L!Members
<1>3. L!SetsWhole' = L!SetsWhole /\ L!Purge' = L!Purge
  BY <1>1 DEF L!SetsWhole, L!Purge
<1>4. ASSUME NEW k PROVE L!DictKey(k)' = L!DictKey(k)
  BY <1>1 DEF L!DictKey
<1>5. ASSUME NEW es PROVE L!ByOrder(es)' = L!ByOrder(es)
  BY <1>1 DEF L!ByOrder, SameLoad
<1>6. L!OfTheType' = L!OfTheType /\ L!NumbersOnce' = L!NumbersOnce
  BY <1>2 DEF L!OfTheType, L!NumbersOnce
<1> QED BY <1>1, <1>2, <1>3, <1>4, <1>5, <1>6

(* A step changes the child n of the tree at most.                          *)
Children == {"leaf", "leaflist", "list", "box"}
Changes(n) ==
  /\ tree' \in Trees
  /\ \A o \in Children : o # n => tree'[o] = tree[o]

(* An assignment to one child of the tree.                                  *)
LEMMA TreeSteps ==
  ASSUME tree \in Trees, NEW x
  PROVE  /\ tree' = tree => \A n : Changes(n)
         /\ x \in Values \cup {Null} /\ tree' = [tree EXCEPT !.leaf = x] =>
              Changes("leaf") /\ tree'.leaf = x /\ (tree.leaf = x => tree' = tree)
         /\ x \in Seq(Natives) /\ tree' = [tree EXCEPT !.leaflist = x] =>
              Changes("leaflist") /\ tree'.leaflist = x /\ (tree.leaflist = x => tree' = tree)
         /\ x \in Seq(L!Entries) /\ tree' = [tree EXCEPT !.list = x] =>
              Changes("list") /\ tree'.list = x /\ (tree.list = x => tree' = tree)
         /\ x \in [present : BOOLEAN, in : Values \cup {Null}] /\ tree' = [tree EXCEPT !.box = x] =>
              Changes("box") /\ tree'.box = x /\ (tree.box = x => tree' = tree)
<1> DEFINE Lists == Seq(L!Entries)
           Leaflists == Seq(Natives)
           Leaves == Values \cup {Null}
           Boxes == [present : BOOLEAN, in : Values \cup {Null}]
<1>1. Trees = [leaf : Leaves, leaflist : Leaflists, list : Lists, box : Boxes]
  BY DEF Trees
<1>2. tree \in [leaf : Leaves, leaflist : Leaflists, list : Lists, box : Boxes]
  BY <1>1
<1> HIDE DEF Lists, Leaflists, Leaves, Boxes
<1>3. ASSUME tree' = tree, NEW n PROVE Changes(n)
  BY <1>3 DEF Changes
<1>4. ASSUME x \in Leaves, tree' = [tree EXCEPT !.leaf = x]
      PROVE  Changes("leaf") /\ tree'.leaf = x /\ (tree.leaf = x => tree' = tree)
  BY <1>1, <1>2, <1>4 DEF Changes, Children
<1>5. ASSUME x \in Leaflists, tree' = [tree EXCEPT !.leaflist = x]
      PROVE  Changes("leaflist") /\ tree'.leaflist = x /\ (tree.leaflist = x => tree' = tree)
  BY <1>1, <1>2, <1>5 DEF Changes, Children
<1>6. ASSUME x \in Lists, tree' = [tree EXCEPT !.list = x]
      PROVE  Changes("list") /\ tree'.list = x /\ (tree.list = x => tree' = tree)
  BY <1>1, <1>2, <1>6 DEF Changes, Children
<1>7. ASSUME x \in Boxes, tree' = [tree EXCEPT !.box = x]
      PROVE  Changes("box") /\ tree'.box = x /\ (tree.box = x => tree' = tree)
  BY <1>1, <1>2, <1>7 DEF Changes, Children
<1> QED BY <1>3, <1>4, <1>5, <1>6, <1>7 DEF Lists, Leaflists, Leaves, Boxes

(* What a step does with a member that is not of the bindings, and with the  *)
(* end of the document.                                                     *)
LEMMA UnknownStep ==
  ASSUME LoadTypes, L!LoadUnknown
  PROVE  L!At("unknown") /\ tree' = tree /\ (Moves \/ Raises)
BY LoadSteps DEF LoadTypes, L!LoadUnknown, L!TreeBecomes

(* The end of the document.                                                 *)
LEMMA FinishStep ==
  ASSUME LoadTypes, L!Finish
  PROVE  /\ load.out = "running" /\ load.member = Len(L!Doc) + 1
         /\ tree' = tree /\ Ends
<1>1. load.doc \in DOMAIN Documents /\ load.member \in 1..(Len(L!Doc) + 1) /\ L!Doc = Documents[load.doc]
  BY DEF LoadTypes, Loads, L!Doc
<1>2. Len(L!Doc) \in Nat
  BY <1>1, DocFacts
<1>3. load.member > Len(L!Doc)
  BY DEF L!Finish
<1> QED BY <1>1, <1>2, <1>3, LoadSteps DEF LoadTypes, L!Finish, L!TreeBecomes

(* A leaf is set, or refused.                                               *)
LEMMA LeafStep ==
  ASSUME LoadTypes, L!LoadLeaf
  PROVE  /\ L!At("leaf") /\ Changes("leaf")
         /\ \/ Raises /\ ~L!Takes(L!Member) /\ tree' = tree
            \/ Moves /\ tree'.leaf = L!Member.v /\ (tree.leaf = L!Member.v => tree' = tree)
<1>1. L!At("leaf") /\ L!Member.n = "leaf" /\ IsMember(L!Member)
  BY AtFacts DEF L!LoadLeaf
<1>2. L!Member.v \in Values \cup {Bad}
  BY <1>1 DEF IsMember
<1>3. CASE L!Member.v = Bad
  BY <1>1, <1>3, LoadSteps, TreeSteps DEF LoadTypes, L!LoadLeaf, L!TreeBecomes, L!Takes
<1>4. CASE L!Member.v # Bad
  <2>1. Moves /\ tree' = [tree EXCEPT !.leaf = L!Member.v]
    BY <1>4, LoadSteps DEF LoadTypes, L!LoadLeaf, L!TreeBecomes
  <2>2. L!Member.v \in Values \cup {Null}
    BY <1>2, <1>4
  <2> QED BY <1>1, <2>1, <2>2, TreeSteps DEF LoadTypes
<1> QED BY <1>3, <1>4

(* The container is there before its leaf is looked at.                     *)
LEMMA BoxStep ==
  ASSUME LoadTypes, L!LoadContainer
  PROVE  /\ L!At("box") /\ Changes("box")
         /\ \/ Raises /\ ~L!Takes(L!Member)
            \/ /\ Moves /\ tree'.box.present /\ (L!Member.v # <<>> => tree'.box.in = L!Member.v[1])
               /\ ~L!Overwrite /\ tree.box.present
                  /\ (L!Member.v # <<>> => tree.box.in = L!Member.v[1]) => tree' = tree
<1>1. L!At("box") /\ L!Member.n = "box" /\ IsMember(L!Member)
  BY AtFacts DEF L!LoadContainer
<1>2. L!Member.v = <<>> \/ \E v \in Values \cup {Bad} : L!Member.v = <<v>>
  BY <1>1 DEF IsMember
<1> DEFINE box == L!Present(tree.box)
           Boxes == [present : BOOLEAN, in : Values \cup {Null}]
<1>3. tree.box \in Boxes
  BY DEF LoadTypes, Trees
<1>4. box \in Boxes /\ box.present /\ (~L!Overwrite /\ tree.box.present => box = tree.box)
  <2>1. CASE L!Fmt = "json" /\ L!Overwrite
    BY <2>1 DEF L!Present
  <2>2. CASE ~(L!Fmt = "json" /\ L!Overwrite)
    <3>1. box = [tree.box EXCEPT !.present = TRUE]
      BY <2>2 DEF L!Present
    <3> HIDE DEF box
    <3>2. box \in Boxes /\ box.present
      BY <1>3, <3>1
    <3>3. ASSUME tree.box.present PROVE box = tree.box
      BY <1>3, <3>1, <3>2, <3>3
    <3> QED BY <3>2, <3>3
  <2> QED BY <2>1, <2>2
<1> HIDE DEF box
<1>5. CASE L!Member.v = <<Bad>>
  <2>1. Raises /\ tree' = [tree EXCEPT !.box = box]
    BY <1>5, LoadSteps DEF LoadTypes, L!LoadContainer, L!TreeBecomes, box
  <2>2. ~L!Takes(L!Member)
    BY <1>1, <1>5 DEF L!Takes
  <2> QED BY <1>1, <1>4, <2>1, <2>2, TreeSteps DEF LoadTypes
<1>6. CASE L!Member.v # <<Bad>> /\ L!Member.v = <<>>
  <2>1. Moves /\ tree' = [tree EXCEPT !.box = box]
    BY <1>6, LoadSteps DEF LoadTypes, L!LoadContainer, L!TreeBecomes, box
  <2>2. Changes("box") /\ tree'.box = box /\ (tree.box = box => tree' = tree)
    BY <1>4, <2>1, TreeSteps DEF LoadTypes
  <2> QED BY <1>1, <1>4, <1>6, <2>1, <2>2
<1>7. CASE L!Member.v # <<Bad>> /\ L!Member.v # <<>>
  <2>1. PICK v \in Values \cup {Null} : L!Member.v = <<v>>
    BY <1>2, <1>7
  <2> DEFINE new == [box EXCEPT !.in = v]
  <2>2. /\ new \in Boxes /\ new.present = box.present /\ new.in = v
        /\ box.in = v => new = box
    BY <1>4
  <2>3. L!Member.v[1] = v
    BY <2>1
  <2>4. Moves /\ tree' = [tree EXCEPT !.box = new]
    BY <1>7, <2>3, LoadSteps DEF LoadTypes, L!LoadContainer, L!TreeBecomes, box
  <2> HIDE DEF new
  <2>5. Changes("box") /\ tree'.box = new /\ (tree.box = new => tree' = tree)
    BY <2>2, <2>4, TreeSteps DEF LoadTypes
  <2> QED BY <1>1, <1>4, <1>7, <2>2, <2>3, <2>4, <2>5
<1> QED BY <1>5, <1>6, <1>7

(* The leaf-list is set whole.                                              *)
LEMMA WholeStep ==
  ASSUME LoadTypes, L!SetLeafList
  PROVE  /\ L!At("leaflist") /\ L!SetsWhole /\ Changes("leaflist")
         /\ \/ Raises /\ ~L!Takes(L!Member) /\ tree' = tree
            \/ Moves /\ L!Fmt = "ietf" /\ L!Member.v = <<>> /\ tree' = tree
            \/ /\ Moves /\ tree'.leaflist = L!CollectedAll(L!Member.v)
               /\ \A i \in DOMAIN L!Member.v : L!Has(tree'.leaflist, Native[L!Member.v[i]])
               /\ tree.leaflist = L!CollectedAll(L!Member.v) => tree' = tree
<1>1. L!At("leaflist") /\ L!Member.n = "leaflist" /\ IsMember(L!Member) /\ L!SetsWhole
  BY AtFacts DEF L!SetLeafList
<1>2. L!Member.v \in Seq(Passed)
  BY <1>1 DEF IsMember
<1>3. CASE L!Fmt = "ietf" /\ L!Member.v = <<>>
  BY <1>1, <1>3, LoadSteps, TreeSteps DEF LoadTypes, L!SetLeafList, L!TreeBecomes
<1> DEFINE refused == \E i \in DOMAIN L!Member.v : ~L!Accepts(L!Member.v[i])
<1>4. CASE ~(L!Fmt = "ietf" /\ L!Member.v = <<>>) /\ refused
  <2>1. Raises /\ tree' = tree
    BY <1>4, LoadSteps DEF LoadTypes, L!SetLeafList, L!TreeBecomes
  <2>2. ~L!Takes(L!Member)
    BY <1>1, <1>4 DEF L!Takes
  <2> QED BY <1>1, <2>1, <2>2, TreeSteps DEF LoadTypes
<1>5. CASE ~(L!Fmt = "ietf" /\ L!Member.v = <<>>) /\ ~refused
  <2>1. Moves /\ tree' = [tree EXCEPT !.leaflist = L!CollectedAll(L!Member.v)]
    BY <1>5, LoadSteps DEF LoadTypes, L!SetLeafList, L!TreeBecomes
  <2>2. \A i \in DOMAIN L!Member.v : Accepts(L!Member.v[i])
    BY <1>5 DEF L!Accepts, Accepts
  <2>3. /\ L!CollectedAll(L!Member.v) \in Seq(Natives)
        /\ \A i \in DOMAIN L!Member.v : L!Has(L!CollectedAll(L!Member.v), Native[L!Member.v[i]])
    BY <1>2, <2>2, CollectedAllFacts
  <2>4. /\ Changes("leaflist") /\ tree'.leaflist = L!CollectedAll(L!Member.v)
        /\ tree.leaflist = L!CollectedAll(L!Member.v) => tree' = tree
    BY <2>1, <2>3, TreeSteps DEF LoadTypes
  <2> QED BY <1>1, <2>1, <2>3, <2>4
<1> QED BY <1>3, <1>4, <1>5

(* Or one value is appended.                                                *)
LEMMA ItemStep ==
  ASSUME LoadTypes, L!LoadItem
  PROVE  /\ L!At("leaflist") /\ ~L!SetsWhole /\ Changes("leaflist")
         /\ load.part + 1 \in 1..Len(L!Member.v) /\ DOMAIN L!Member.v = 1..Len(L!Member.v)
         /\ \/ Raises /\ ~L!Takes(L!Member) /\ tree' = tree
            \/ /\ Parts /\ L!Has(tree'.leaflist, Native[L!Member.v[load.part + 1]])
               /\ \A q : L!Has(tree.leaflist, q) => L!Has(tree'.leaflist, q)
               /\ L!Has(tree.leaflist, L!Member.v[load.part + 1]) => tree' = tree
<1> DEFINE p == L!Member.v[load.part + 1]
           s == tree.leaflist
<1>1. L!At("leaflist") /\ L!Member.n = "leaflist" /\ IsMember(L!Member) /\ ~L!SetsWhole
      /\ load.part < Len(L!Member.v)
  BY AtFacts DEF L!LoadItem
<1>2. /\ DOMAIN L!Member.v = 1..Len(L!Member.v) /\ Len(L!Member.v) \in Nat /\ load.part \in Nat
      /\ \A i \in DOMAIN L!Member.v : L!Member.v[i] \in Passed
  BY <1>1 DEF IsMember, LoadTypes, Loads
<1>3. load.part + 1 \in 1..Len(L!Member.v) /\ p \in Passed
  BY <1>1, <1>2
<1>4. s \in Seq(Natives)
  BY DEF LoadTypes, Trees
<1> HIDE DEF s
<1>5. CASE L!AppendRefused(s, p)
  <2>1. Raises /\ tree' = tree
    BY <1>5, LoadSteps DEF LoadTypes, L!LoadItem, L!TreeBecomes, s
  <2>2. ~L!Takes(L!Member)
    BY <1>1, <1>2, <1>3, <1>5 DEF L!Takes, L!AppendRefused
  <2> QED BY <1>1, <1>2, <1>3, <2>1, <2>2, TreeSteps DEF LoadTypes
<1>6. CASE ~L!AppendRefused(s, p)
  <2>1. Parts /\ tree' = [tree EXCEPT !.leaflist = L!Appended(s, p)]
    BY <1>6, LoadSteps DEF LoadTypes, L!LoadItem, L!TreeBecomes, s
  <2>2. /\ L!Appended(s, p) \in Seq(Natives)
        /\ L!Has(L!Appended(s, p), Native[p])
        /\ \A q : L!Has(s, q) => L!Has(L!Appended(s, p), q)
        /\ L!Has(s, p) => L!Appended(s, p) = s
    <3>1. CASE L!Has(s, p)
      <4>1. p \in Natives
        BY <1>4, <3>1 DEF L!Has
      <4>2. Native[p] = p
        BY <4>1, PassedAssumption
      <4> QED BY <1>4, <3>1, <4>2 DEF L!Appended
    <3>2. CASE ~L!Has(s, p)
      <4>1. Accepts(p)
        BY <1>6, <3>2 DEF L!AppendRefused, L!Accepts, Accepts
      <4>2. L!Appended(s, p) = L!Collected(s, p)
        BY DEF L!Appended, L!Collected
      <4> QED BY <1>3, <1>4, <3>2, <4>1, <4>2, CollectedOne
    <3> QED BY <3>1, <3>2
  <2>3. /\ Changes("leaflist") /\ tree'.leaflist = L!Appended(s, p)
        /\ tree.leaflist = L!Appended(s, p) => tree' = tree
    BY <2>1, <2>2, TreeSteps DEF LoadTypes
  <2>4. /\ L!Has(tree'.leaflist, Native[p])
        /\ \A q : L!Has(tree.leaflist, q) => L!Has(tree'.leaflist, q)
        /\ L!Has(tree.leaflist, p) => tree' = tree
    BY <2>2, <2>3 DEF s
  <2> QED BY <1>1, <1>2, <1>3, <2>1, <2>3, <2>4
<1> QED BY <1>5, <1>6

(* And load_json removes what the document does not have.                   *)
LEMMA EndItemsStep ==
  ASSUME LoadTypes, L!EndLeafList
  PROVE  /\ L!At("leaflist") /\ ~L!SetsWhole /\ Changes("leaflist") /\ Moves
         /\ load.part = Len(L!Member.v) /\ DOMAIN L!Member.v = 1..Len(L!Member.v)
         /\ IF L!Fmt = "json"
            THEN /\ \A x : L!Has(tree.leaflist, x) /\ x \in L!ToSet(L!Member.v) => L!Has(tree'.leaflist, x)
                 /\ \A i \in DOMAIN tree'.leaflist : tree'.leaflist[i] \in L!ToSet(L!Member.v)
                 /\ (\A i \in DOMAIN tree.leaflist : tree.leaflist[i] \in L!ToSet(L!Member.v)) => tree' = tree
            ELSE tree' = tree
<1> DEFINE s == tree.leaflist
           P == L!ToSet(L!Member.v)
           t == L!Stays(s, L!Member.v)
<1>1. L!At("leaflist") /\ L!Member.n = "leaflist" /\ IsMember(L!Member) /\ ~L!SetsWhole
      /\ load.part = Len(L!Member.v)
  BY AtFacts DEF L!EndLeafList
<1>2. DOMAIN L!Member.v = 1..Len(L!Member.v)
  BY <1>1 DEF IsMember
<1>3. s \in Seq(Natives)
  BY DEF LoadTypes, Trees
<1>4. Moves /\ tree' = [tree EXCEPT !.leaflist = t]
  BY LoadSteps DEF LoadTypes, L!EndLeafList, L!TreeBecomes
<1>5. IF L!Fmt = "json" THEN t = L!Only(s, P) ELSE t = s
  BY DEF L!Stays
<1> HIDE DEF t, s, P
<1>6. /\ L!Only(s, P) \in Seq(Natives)
      /\ \A x : L!Has(s, x) /\ x \in P => L!Has(L!Only(s, P), x)
      /\ \A i \in DOMAIN L!Only(s, P) : L!Only(s, P)[i] \in P
      /\ (\A i \in DOMAIN s : s[i] \in P) => L!Only(s, P) = s
  BY <1>3, OnlyFacts
<1>7. Changes("leaflist") /\ tree'.leaflist = t /\ (tree.leaflist = t => tree' = tree)
  BY <1>3, <1>4, <1>5, <1>6, TreeSteps DEF LoadTypes
<1>8. IF L!Fmt = "json"
      THEN /\ \A x : L!Has(s, x) /\ x \in P => L!Has(tree'.leaflist, x)
           /\ \A i \in DOMAIN tree'.leaflist : tree'.leaflist[i] \in P
           /\ (\A i \in DOMAIN s : s[i] \in P) => tree' = tree
      ELSE tree' = tree
  BY <1>5, <1>6, <1>7 DEF s
<1> QED BY <1>1, <1>2, <1>4, <1>7, <1>8 DEF s, P

(* The entries of a document in the order they are gone through.            *)
LEMMA ByOrderFacts ==
  ASSUME load \in Loads, NEW es \in Seq(ListEntries)
  PROVE  /\ L!ByOrder(es) \in Seq(ListEntries)
         /\ Len(L!ByOrder(es)) \in Nat /\ DOMAIN L!ByOrder(es) = 1..Len(L!ByOrder(es))
         /\ \A n \in 1..Len(L!ByOrder(es)) : \E i \in DOMAIN es : L!ByOrder(es)[n] = es[i]
         /\ (\A a, b \in DOMAIN es : es[a].key = es[b].key => a = b) =>
              \A n, m \in 1..Len(L!ByOrder(es)) :
                L!ByOrder(es)[n].key = L!ByOrder(es)[m].key => n = m
         /\ (L!Fmt = "json" /\ Ordered => L!Taken(es, load.fresh) = DOMAIN es) =>
              \A i \in DOMAIN es : \E n \in 1..Len(L!ByOrder(es)) : L!ByOrder(es)[n] = es[i]
<1>1. CASE L!Fmt = "json" /\ Ordered
  <2> DEFINE st == L!Sorted(es, load.fresh)
             T == L!Taken(es, load.fresh)
  <2>1. L!ByOrder(es) = st /\ load.fresh \in BOOLEAN
    BY <1>1 DEF L!ByOrder, Loads
  <2>2. Len(st) \in Nat /\ st \in Seq(ListEntries) /\ \E p : Arranges(p, es, T, st)
    BY <2>1, SortedFacts
  <2>3. T \subseteq DOMAIN es
    BY DEF L!Taken
  <2> HIDE DEF st, T
  <2>4. PICK p : Arranges(p, es, T, st)
    BY <2>2
  <2>5. /\ p \in [1..Len(st) -> T]
        /\ \A n \in 1..Len(st) : st[n] = es[p[n]]
        /\ \A n, m \in 1..Len(st) : p[n] = p[m] => n = m
        /\ \A i \in T : \E n \in 1..Len(st) : p[n] = i
    BY <2>4 DEF Arranges
  <2>6. \A n \in 1..Len(st) : p[n] \in DOMAIN es /\ st[n] = es[p[n]]
    BY <2>3, <2>5
  <2>7. ASSUME \A a, b \in DOMAIN es : es[a].key = es[b].key => a = b,
               NEW n \in 1..Len(st), NEW m \in 1..Len(st), st[n].key = st[m].key
        PROVE  n = m
    BY <2>5, <2>6, <2>7
  <2>8. ASSUME T = DOMAIN es, NEW i \in DOMAIN es PROVE \E n \in 1..Len(st) : st[n] = es[i]
    BY <2>5, <2>6, <2>8
  <2>9. DOMAIN st = 1..Len(st)
    BY <2>2
  <2> QED BY <1>1, <2>1, <2>2, <2>6, <2>7, <2>8, <2>9 DEF T
<1>2. CASE ~(L!Fmt = "json" /\ Ordered)
  <2>1. L!ByOrder(es) = es
    BY <1>2 DEF L!ByOrder
  <2> QED BY <2>1
<1> QED BY <1>1, <1>2

(* One entry of the document is put in the list.                            *)
Put1(l, e) ==
  /\ l \in Seq(L!Entries) /\ (l = tree.list \/ (l = <<>> /\ L!Purge))
  /\ Number[e.key] # Invalid /\ L!DictKey(e.key) \in L!DictKeys
  /\ PutsOn(l, e, L!DictKey(e.key), tree'.list)

(* One entry: refused, or put in the list, which may be refused after.      *)
LEMMA EntryStep ==
  ASSUME LoadTypes, L!LoadEntry, NEW e, e = L!ByOrder(L!Member.v)[load.part + 1]
  PROVE  /\ L!At("list") /\ Changes("list") /\ L!Member.v \in Seq(ListEntries)
         /\ load.part + 1 \in 1..Len(L!ByOrder(L!Member.v)) /\ e \in ListEntries
         /\ \E i \in DOMAIN L!Member.v : e = L!Member.v[i]
         /\ \/ /\ Raises /\ (~L!Takes(L!Member) \/ L!Overwrite)
               /\ \/ tree' = tree
                  \/ L!Overwrite /\ tree.list # <<>> /\ tree'.list = Tail(tree.list)
            \/ Raises /\ ~L!Takes(L!Member) /\ \E l : Put1(l, e)
            \/ Parts /\ e.v # Bad /\ \E l : Put1(l, e)
<1> DEFINE es == L!ByOrder(L!Member.v)
           l == L!Purged(tree.list)
           k == L!DictKey(e.key)
<1>1. L!At("list") /\ L!Member.n = "list" /\ IsMember(L!Member) /\ load.part < Len(es)
  BY AtFacts DEF L!LoadEntry
<1>2. /\ L!Member.v \in Seq(ListEntries) /\ load \in Loads /\ load.part \in Nat
      /\ tree.list \in Seq(L!Entries)
  BY <1>1 DEF IsMember, LoadTypes, Loads, Trees
<1>3. /\ es \in Seq(ListEntries) /\ Len(es) \in Nat /\ DOMAIN es = 1..Len(es)
      /\ \A n \in 1..Len(es) : \E i \in DOMAIN L!Member.v : es[n] = L!Member.v[i]
  BY <1>2, ByOrderFacts
<1>4. load.part + 1 \in 1..Len(es) /\ e \in ListEntries /\ \E i \in DOMAIN L!Member.v : e = L!Member.v[i]
  BY <1>1, <1>2, <1>3
<1>5. /\ l \in Seq(L!Entries)
      /\ l = tree.list \/ (L!Overwrite /\ tree.list # <<>> /\ l = Tail(tree.list) /\ L!Purge)
  BY <1>2 DEF L!Purged, L!Purge
<1>6. loads' = loads
  BY DEF L!LoadEntry
<1> HIDE DEF l, es
<1>7. CASE (L!Purge /\ l # <<>>) \/ Number[e.key] = Invalid
  <2>1. Raises /\ tree' = [tree EXCEPT !.list = l]
    BY <1>2, <1>6, <1>7, LoadSteps DEF L!LoadEntry, es, l
  <2>2. ~L!Takes(L!Member) \/ L!Overwrite
    BY <1>1, <1>4, <1>7 DEF L!Takes, L!Purge
  <2>3. Changes("list") /\ tree'.list = l /\ (tree.list = l => tree' = tree)
    BY <1>5, <2>1, TreeSteps DEF LoadTypes
  <2> QED BY <1>1, <1>2, <1>4, <1>5, <2>1, <2>2, <2>3 DEF es
<1>8. CASE ~((L!Purge /\ l # <<>>) \/ Number[e.key] = Invalid)
  <2>1. /\ tree' = [tree EXCEPT !.list = L!Put(l, e)]
        /\ IF e.v = Bad THEN Raises ELSE Parts
    BY <1>2, <1>6, <1>8, LoadSteps DEF L!LoadEntry, es, l
  <2>2. k \in L!DictKeys
    BY <1>4, <1>8 DEF L!DictKeys, L!DictKey, ListEntries
  <2>3. L!Put(l, e) \in Seq(L!Entries) /\ PutsOn(l, e, k, L!Put(l, e))
    BY <1>4, <1>5, <2>2, PutFacts
  <2>4. Changes("list") /\ tree'.list = L!Put(l, e)
    BY <2>1, <2>3, TreeSteps DEF LoadTypes
  <2>5. l = tree.list \/ (l = <<>> /\ L!Purge)
    BY <1>5, <1>8
  <2>6. Put1(l, e)
    BY <1>5, <1>8, <2>2, <2>3, <2>4, <2>5 DEF Put1
  <2>7. e.v = Bad => ~L!Takes(L!Member)
    BY <1>1, <1>4 DEF L!Takes
  <2> QED BY <1>1, <1>2, <1>4, <2>1, <2>4, <2>6, <2>7 DEF es
<1> QED BY <1>7, <1>8

(* load_json removes one entry the document does not have, or all if the    *)
(* document has none.                                                       *)
LEMMA EndEntriesStep ==
  ASSUME LoadTypes, L!EndList
  PROVE  /\ L!At("list") /\ Changes("list") /\ load.part = Len(L!ByOrder(L!Member.v))
         /\ L!Member.v \in Seq(ListEntries)
         /\ tree'.list = tree.list => tree' = tree
         /\ \/ Moves /\ tree'.list = IF L!Emptied THEN <<>> ELSE tree.list
            \/ /\ L!Fmt = "json" /\ L!Overwrite
               /\ \E i \in L!Strange(L!Member.v) :
                    /\ tree'.list = L!Deleted(tree.list, i)
                    /\ Raises \/ (Moves /\ i = Len(tree.list))
<1> DEFINE strange == L!Strange(L!Member.v)
           i == CHOOSE j \in strange : \A h \in strange : j <= h
<1>1. L!At("list") /\ L!Member.n = "list" /\ IsMember(L!Member) /\ load.part = Len(L!ByOrder(L!Member.v))
  BY AtFacts DEF L!EndList
<1>2. /\ L!Member.v \in Seq(ListEntries) /\ load \in Loads /\ loads' = loads
      /\ tree.list \in Seq(L!Entries) /\ DOMAIN tree.list = 1..Len(tree.list)
  BY <1>1 DEF IsMember, LoadTypes, Trees, L!EndList
<1>3. CASE L!Fmt = "json" /\ L!Overwrite /\ strange # {}
  <2>1. strange \subseteq 1..Len(tree.list) /\ Len(tree.list) \in Nat
    BY <1>2 DEF L!Strange
  <2>2. i \in strange
    <3> HIDE DEF strange
    <3>1. PICK x \in strange : \A h \in strange : x <= h
      <4>1. strange \subseteq Nat
        BY <2>1
      <4> QED BY <1>3, <4>1, SmallestNumber
    <3> QED BY <3>1
  <2>3. /\ tree' = [tree EXCEPT !.list = L!Deleted(tree.list, i)]
        /\ IF i = Len(tree.list) THEN Moves ELSE Raises
    BY <1>2, <1>3, LoadSteps DEF L!EndList
  <2> HIDE DEF i, strange
  <2>4. L!Deleted(tree.list, i) \in Seq(L!Entries)
    <3>1. i \in 1..Len(tree.list)
      BY <2>1, <2>2
    <3>2. Deleted(tree.list, i) = L!Deleted(tree.list, i)
      BY DEF Deleted, L!Deleted
    <3> QED BY <1>2, <3>1, <3>2, DeletedAt
  <2>5. /\ Changes("list") /\ tree'.list = L!Deleted(tree.list, i)
        /\ tree'.list = tree.list => tree' = tree
    BY <2>3, <2>4, TreeSteps DEF LoadTypes
  <2> QED BY <1>1, <1>2, <1>3, <2>2, <2>3, <2>5 DEF strange
<1>4. CASE ~(L!Fmt = "json" /\ L!Overwrite /\ strange # {})
  <2> DEFINE left == IF L!Emptied THEN <<>> ELSE tree.list
  <2>1. tree' = [tree EXCEPT !.list = left] /\ Moves
    BY <1>2, <1>4, LoadSteps DEF L!EndList
  <2>2. left \in Seq(L!Entries)
    BY <1>2
  <2> HIDE DEF left
  <2>3. /\ Changes("list") /\ tree'.list = left
        /\ tree'.list = tree.list => tree' = tree
    BY <2>1, <2>2, TreeSteps DEF LoadTypes
  <2> QED BY <1>1, <1>2, <2>1, <2>3 DEF left
<1> QED BY <1>3, <1>4

-----------------------------------------------------------------------------
(* What the steps keep                                                     *)

(* A step is the end of the load, or at a member, whose child it changes.   *)
LEMMA StepAt ==
  ASSUME LoadTypes, L!Step
  PROVE  \/ Ends /\ tree' = tree /\ load.out = "running" /\ load.member = Len(L!Doc) + 1
         \/ \E n : L!At(n) /\ Changes(n) /\ (Moves \/ Parts \/ Raises)
<1>1. CASE L!LoadUnknown
  BY <1>1, UnknownStep, TreeSteps DEF LoadTypes
<1>2. CASE L!LoadLeaf
  BY <1>2, LeafStep
<1>3. CASE L!LoadContainer
  BY <1>3, BoxStep
<1>4. CASE L!SetLeafList
  BY <1>4, WholeStep
<1>5. CASE L!LoadItem
  BY <1>5, ItemStep
<1>6. CASE L!EndLeafList
  BY <1>6, EndItemsStep
<1>7. CASE L!LoadEntry
  BY <1>7, EntryStep
<1>8. CASE L!EndList
  BY <1>8, EndEntriesStep
<1>9. CASE L!Finish
  BY <1>9, FinishStep
<1> QED BY <1>1, <1>2, <1>3, <1>4, <1>5, <1>6, <1>7, <1>8, <1>9 DEF L!Step

(* Tree and load stay of their types.                                       *)
LEMMA TypesStep ==
  ASSUME LoadTypes, L!Step
  PROVE  LoadTypes'
<1>1. load.doc \in DOMAIN Documents /\ load.member \in 1..(Len(L!Doc) + 1) /\ L!Doc = Documents[load.doc]
      /\ tree \in Trees /\ loads \in 0..MaxLoads
  BY DEF LoadTypes, Loads, L!Doc
<1>2. Len(L!Doc) \in Nat
  BY <1>1, DocFacts
<1>3. CASE Ends /\ tree' = tree
  <2>1. L!Doc' = L!Doc
    BY <1>3, SameDocument DEF Ends
  <2> QED BY <1>1, <1>3, <2>1 DEF LoadTypes, Ends, SameLoad
<1>4. CASE \E n : L!At(n) /\ Changes(n) /\ (Moves \/ Parts \/ Raises)
  <2>1. PICK n : L!At(n) /\ Changes(n) /\ (Moves \/ Parts \/ Raises)
    BY <1>4
  <2>2. load.member \in 1..Len(L!Doc)
    BY <2>1, AtFacts
  <2>3. SameLoad /\ (load'.member = load.member \/ load'.member = load.member + 1)
    BY <2>1 DEF Moves, Parts, Raises
  <2>4. L!Doc' = L!Doc
    BY <2>3, SameDocument
  <2>5. load'.member \in 1..(Len(L!Doc) + 1)
    BY <1>2, <2>2, <2>3
  <2> QED BY <1>1, <2>1, <2>3, <2>4, <2>5 DEF LoadTypes, Changes, SameLoad
<1> QED BY <1>3, <1>4, StepAt

(* They are when a load begins,                                             *)
LEMMA TypesBegin ==
  ASSUME LoadTypes, NEW d \in DOMAIN Documents, NEW flags \in L!Flags, L!Begin(d, flags)
  PROVE  LoadTypes'
<1>1. Len(Documents[d]) \in Nat
  BY DocFacts
<1>2. /\ load'.doc = d /\ load'.member = 1 /\ load' \in Loads /\ loads' = loads + 1 /\ tree' = tree
      /\ loads < MaxLoads
  <2>1. tree \in Trees
    BY DEF LoadTypes
  <2> DEFINE f == d \notin spent
             a == load.out = "done" /\ load.doc = d /\ load.flags = flags
  <2>2. load' = [flags |-> flags, doc |-> d, member |-> 1, part |-> 0,
                 before |-> tree, fresh |-> f, again |-> a, out |-> "running"]
    BY DEF L!Begin
  <2>3. f \in BOOLEAN /\ a \in BOOLEAN
    OBVIOUS
  <2> HIDE DEF f, a
  <2>4. load' \in Loads
    BY <2>1, <2>2, <2>3 DEF Loads
  <2>5. load'.doc = d /\ load'.member = 1
    BY <2>2
  <2> QED BY <2>4, <2>5 DEF L!Begin
<1>3. L!Doc' = Documents[d]
  BY <1>2 DEF L!Doc
<1>4. loads' \in 0..MaxLoads
  BY <1>2, DocumentsAssumption DEF LoadTypes
<1>5. 1 \in 1..(Len(Documents[d]) + 1)
  BY <1>1
<1> QED BY <1>2, <1>3, <1>4, <1>5 DEF LoadTypes

(* and before the first.                                                    *)
LEMMA TypesInit ==
  ASSUME L!Init
  PROVE  LoadTypes
<1>1. 1 \in DOMAIN Documents /\ Len(Documents[1]) \in Nat
  BY DocumentsAssumption
<1>2. L!Empty \in Trees
  BY DEF L!Empty, Trees
<1>3. Len(Documents[1]) + 1 \in Nat /\ Len(Documents[1]) + 1 \in 1..(Len(Documents[1]) + 1)
  BY <1>1
<1>4. load \in Loads /\ load.member = Len(Documents[1]) + 1 /\ load.doc = 1
  BY <1>1, <1>2, <1>3 DEF L!Init, Loads, L!Flags
<1>5. L!Doc = Documents[1]
  BY <1>4 DEF L!Doc
<1>6. loads \in 0..MaxLoads
  BY DocumentsAssumption DEF L!Init
<1> QED BY <1>2, <1>3, <1>4, <1>5, <1>6 DEF LoadTypes, L!Init

(* An entry stands under its key or the number of it, and alone.            *)
Apart(l) ==
  /\ \A i \in DOMAIN l :
       /\ Number[l[i].key] # Invalid
       /\ l[i].at \in {l[i].key, Number[l[i].key]}
  /\ \A i, j \in DOMAIN l : l[i].at = l[j].at => i = j

(* A put entry stands under its key, or updates the one that does.          *)
LEMMA ApartPut ==
  ASSUME NEW l \in Seq(L!Entries), NEW e, NEW k, NEW new \in Seq(L!Entries), Apart(l),
         PutsOn(l, e, k, new), Number[e.key] # Invalid, k \in {e.key, Number[e.key]}
  PROVE  Apart(new)
<1>1. DOMAIN l = 1..Len(l) /\ Len(l) \in Nat /\ DOMAIN new = 1..Len(new) /\ Len(new) \in Nat
  OBVIOUS
<1>2. \A i \in DOMAIN l : i \in DOMAIN new /\ new[i].at = l[i].at /\ new[i].key = l[i].key
  BY DEF PutsOn
<1>3. CASE \E i \in DOMAIN l : l[i].at = k
  <2>1. DOMAIN new = DOMAIN l
    BY <1>1, <1>3 DEF PutsOn
  <2> QED BY <1>2, <2>1 DEF Apart
<1>4. CASE ~\E i \in DOMAIN l : l[i].at = k
  <2>1. Len(new) = Len(l) + 1 /\ new[Len(l) + 1].at = k /\ new[Len(l) + 1].key = e.key
    BY <1>4 DEF PutsOn
  <2>2. \A i \in DOMAIN new : i \in DOMAIN l \/ i = Len(l) + 1
    BY <1>1, <2>1
  <2>3. ASSUME NEW i \in DOMAIN new
        PROVE  Number[new[i].key] # Invalid /\ new[i].at \in {new[i].key, Number[new[i].key]}
    BY <1>2, <2>1, <2>2 DEF Apart
  <2>4. ASSUME NEW i \in DOMAIN new, NEW j \in DOMAIN new, new[i].at = new[j].at
        PROVE  i = j
    BY <1>2, <1>4, <2>1, <2>2, <2>4 DEF Apart
  <2> QED BY <2>3, <2>4 DEF Apart
<1> QED BY <1>3, <1>4

(* Fewer entries are as far apart.                                          *)
LEMMA ApartLess ==
  ASSUME NEW l \in Seq(L!Entries), Apart(l), NEW i \in 1..Len(l)
  PROVE  Apart(L!Deleted(l, i)) /\ (l # <<>> => Apart(Tail(l)))
<1>1. DOMAIN l = 1..Len(l) /\ Len(l) \in Nat
  OBVIOUS
<1> DEFINE t == L!Deleted(l, i)
           u == Tail(l)
<1>2. /\ t \in Seq(L!Entries) /\ Len(t) = Len(l) - 1
      /\ \A n \in 1..(i - 1) : t[n] = l[n]
      /\ \A n \in i..(Len(l) - 1) : t[n] = l[n + 1]
  <2>1. Deleted(l, i) = t
    BY DEF Deleted, L!Deleted
  <2> QED BY <2>1, DeletedAt
<1> HIDE DEF t
<1>3. DOMAIN t = 1..(Len(l) - 1)
  BY <1>2
<1> DEFINE to(n) == IF n < i THEN n ELSE n + 1
<1>4. \A n \in DOMAIN t : to(n) \in DOMAIN l /\ t[n] = l[to(n)]
  BY <1>1, <1>2, <1>3
<1>5. \A n, m \in DOMAIN t : to(n) = to(m) => n = m
  BY <1>1, <1>3
<1> HIDE DEF to
<1>6. Apart(t)
  <2>1. \A n, m \in DOMAIN t : t[n].at = t[m].at => n = m
    BY <1>4, <1>5 DEF Apart
  <2> QED BY <1>4, <2>1 DEF Apart
<1>7. ASSUME l # <<>> PROVE Apart(u)
  <2>1. DOMAIN u = 1..(Len(l) - 1) /\ \A n \in 1..(Len(l) - 1) : u[n] = l[n + 1]
    BY <1>1, <1>7
  <2> HIDE DEF u
  <2>2. \A n \in DOMAIN u : n + 1 \in DOMAIN l /\ u[n] = l[n + 1]
    BY <1>1, <2>1
  <2>3. \A n, m \in DOMAIN u : u[n].at = u[m].at => n = m
    BY <1>1, <2>1, <2>2 DEF Apart
  <2> QED BY <2>2, <2>3 DEF Apart
<1> QED BY <1>6, <1>7 DEF t, u

(* The key of the dictionary is the text of the key, or its number.         *)
LEMMA DictKeyIs == ASSUME NEW k PROVE L!DictKey(k) \in {k, Number[k]}
BY DEF L!DictKey

(* No step puts two entries under one key of the dictionary.                *)
LEMMA ApartStep ==
  ASSUME LoadTypes, Apart(tree.list), L!Step
  PROVE  Apart(tree'.list)
<1>1. tree.list \in Seq(L!Entries)
  BY DEF LoadTypes, Trees
<1>2. CASE tree'.list = tree.list
  BY <1>2
<1>3. ASSUME NEW n, Changes(n) PROVE tree'.list \in Seq(L!Entries) /\ (n # "list" => tree'.list = tree.list)
  BY <1>3 DEF Changes, Children, Trees
<1>4. CASE L!LoadEntry
  <2> SUFFICES ASSUME NEW e, e = L!ByOrder(L!Member.v)[load.part + 1] PROVE Apart(tree'.list)
    OBVIOUS
  <2>1. /\ Changes("list")
        /\ \/ tree' = tree
           \/ tree.list # <<>> /\ tree'.list = Tail(tree.list)
           \/ \E l : Put1(l, e)
    BY <1>4, EntryStep
  <2>2. CASE tree.list # <<>> /\ tree'.list = Tail(tree.list)
    <3>1. 1 \in 1..Len(tree.list)
      BY <1>1, <2>2
    <3> QED BY <1>1, <2>2, <3>1, ApartLess
  <2>3. ASSUME NEW l, Put1(l, e) PROVE Apart(tree'.list)
    <3> DEFINE new == tree'.list
               k == L!DictKey(e.key)
    <3>1. l \in Seq(L!Entries) /\ new \in Seq(L!Entries) /\ Number[e.key] # Invalid /\ PutsOn(l, e, k, new)
      BY <1>3, <2>1, <2>3 DEF Put1
    <3>2. Apart(l)
      BY <2>3 DEF Put1, Apart
    <3>3. k \in {e.key, Number[e.key]}
      BY DictKeyIs
    <3> HIDE DEF new, k
    <3>4. Apart(new)
      BY <3>1, <3>2, <3>3, ApartPut
    <3> QED BY <3>4 DEF new
  <2> QED BY <1>2, <2>1, <2>2, <2>3
<1>5. CASE L!EndList
  <2>1. \/ tree'.list \in {tree.list, <<>>}
        \/ \E i \in L!Strange(L!Member.v) : tree'.list = L!Deleted(tree.list, i)
    BY <1>5, EndEntriesStep
  <2>2. \A i \in L!Strange(L!Member.v) : i \in 1..Len(tree.list)
    BY <1>1 DEF L!Strange
  <2>3. Apart(<<>>)
    BY DEF Apart
  <2> QED BY <1>1, <1>2, <2>1, <2>2, <2>3, ApartLess
<1>6. CASE ~L!LoadEntry /\ ~L!EndList
  <2>1. tree' = tree \/ Changes("leaf") \/ Changes("box") \/ Changes("leaflist")
    BY <1>6, UnknownStep, LeafStep, BoxStep, WholeStep, ItemStep, EndItemsStep, FinishStep DEF L!Step
  <2> QED BY <1>2, <1>3, <2>1
<1> QED BY <1>4, <1>5, <1>6

(* An entry that stands where an entry of the document goes has its key.    *)
LEMMA SameKey ==
  ASSUME NEW l \in Seq(L!Entries), Apart(l), NEW i \in DOMAIN l, NEW k \in Keys, l[i].at = L!DictKey(k)
  PROVE  l[i].key = k
<1>1. l[i] \in L!Entries
  OBVIOUS
<1>2. l[i].key \in Keys
  BY <1>1 DEF L!Entries
<1>3. Number[l[i].key] # Invalid /\ l[i].at \in {l[i].key, Number[l[i].key]}
  BY DEF Apart
<1> QED BY <1>2, <1>3, DictKeyIs, NumbersAssumption

(* RestKept, part by part, and the keys of the entries as well.             *)
KeptAll(l, old, ms) ==
  \A i \in DOMAIN old :
    /\ i \in DOMAIN l /\ l[i].at = old[i].at
    /\ \/ l[i].v = old[i].v
       \/ \E m \in ms : m.n = "list" /\ \E a \in DOMAIN m.v : m.v[a].key = old[i].key /\ m.v[a].v = l[i].v
KeysAll(l, old) == \A i \in DOMAIN old : i \in DOMAIN l /\ l[i].key = old[i].key
GoneAll == L!GivenEmpty /\ tree.list = <<>>
KeysKept == ~L!Overwrite => KeysAll(tree.list, load.before.list) \/ GoneAll

(* EntriesKept as a formula of its parts.                                   *)
LEMMA KeptMeans ==
  /\ L!EntriesKept <=> KeptAll(tree.list, load.before.list, L!Members)
  /\ L!EntriesKept' <=> KeptAll(tree'.list, load'.before.list, L!Members')
BY DEF L!EntriesKept, KeptAll, L!SomeIn

(* What the load has not come to.                                          *)
LEMMA UnreachedStep ==
  ASSUME LoadTypes, NEW n, L!At(n), Moves \/ Parts \/ Raises
  PROVE  L!Unreached' \subseteq L!Unreached \ {n}
<1>1. load.member \in DOMAIN L!Doc /\ L!Doc[load.member].n = n /\ load.member \in Nat
  BY AtFacts DEF LoadTypes, Loads
<1>2. L!Doc' = L!Doc /\ (load'.member = load.member \/ load'.member = load.member + 1)
  BY SameDocument DEF Moves, Parts, Raises
<1>3. DOMAIN L!Doc \subseteq Nat
  BY DocFacts DEF LoadTypes, Loads, L!Doc
<1>4. \A i \in DOMAIN L!Doc : i <= load.member => i <= load'.member
  BY <1>1, <1>2, <1>3
<1>5. load.member <= load'.member
  BY <1>1, <1>2
<1> QED BY <1>1, <1>2, <1>4, <1>5 DEF L!Unreached

(* A document that gives the list no entries does so where the list is.     *)
LEMMA EmptyHere ==
  ASSUME LoadTypes, L!At("list")
  PROVE  L!GivenEmpty <=> L!Emptied
<1>1. /\ load.member \in DOMAIN L!Doc /\ L!Member = L!Doc[load.member] /\ L!Member.n = "list"
      /\ L!Member \in L!Members
  BY AtFacts
<1>2. ASSUME NEW m \in L!Members, m.n = "list" PROVE m = L!Member
  <2>1. PICK i \in DOMAIN L!Doc : m = L!Doc[i]
    BY DEF L!Members
  <2> QED BY <1>1, <1>2, <2>1, DocFacts DEF LoadTypes, Loads, L!Doc
<1> QED BY <1>1, <1>2 DEF L!GivenEmpty, L!Emptied

(* No step touches what the load has not come to, or an entry of before.    *)
LEMMA RestStep ==
  ASSUME LoadTypes, Apart(tree.list), L!RestKept, KeysKept, L!Step
  PROVE  L!RestKept' /\ KeysKept'
<1>1. /\ \A o \in L!Unreached : tree[o] = load.before[o]
      /\ ~L!Overwrite => KeptAll(tree.list, load.before.list, L!Members) \/ GoneAll
  BY KeptMeans DEF L!RestKept, GoneAll
<1>2. CASE Ends /\ tree' = tree
  <2>1. SameLoad /\ load'.member = load.member
    BY <1>2 DEF Ends
  <2>2. L!Doc' = L!Doc /\ L!Overwrite' = L!Overwrite /\ L!Members' = L!Members /\ load'.before = load.before
        /\ L!GivenEmpty' = L!GivenEmpty
    BY <2>1, SameDocument DEF SameLoad, L!GivenEmpty
  <2>3. L!Unreached' = L!Unreached
    BY <2>1, <2>2 DEF L!Unreached
  <2>4. \A o \in L!Unreached' : tree'[o] = load'.before[o]
    BY <1>1, <1>2, <2>2, <2>3
  <2>5. ~L!Overwrite' => L!EntriesKept' \/ GoneAll'
    BY <1>1, <1>2, <2>2, KeptMeans DEF GoneAll
  <2>6. KeysKept'
    BY <1>2, <2>2 DEF KeysKept, GoneAll
  <2> QED BY <2>4, <2>5, <2>6 DEF L!RestKept, GoneAll
<1>3. ASSUME NEW n, L!At(n), Changes(n), Moves \/ Parts \/ Raises
      PROVE  L!RestKept' /\ KeysKept'
  <2>1. SameLoad
    BY <1>3 DEF Moves, Parts, Raises
  <2>2. L!Doc' = L!Doc /\ L!Overwrite' = L!Overwrite /\ L!Members' = L!Members /\ load'.before = load.before
        /\ L!GivenEmpty' = L!GivenEmpty
    BY <2>1, SameDocument DEF SameLoad, L!GivenEmpty
  <2>3. \A o \in L!Unreached' : tree'[o] = load'.before[o]
    <3>1. L!Unreached' \subseteq L!Unreached \ {n}
      BY <1>3, UnreachedStep
    <3>2. L!Unreached \subseteq Children
      BY DEF L!Unreached, L!Names, Children
    <3> QED BY <1>1, <1>3, <2>2, <3>1, <3>2 DEF Changes
  <2>4. tree.list \in Seq(L!Entries) /\ tree'.list \in Seq(L!Entries)
    BY <1>3 DEF LoadTypes, Changes, Trees
  <2>5. ASSUME ~L!Overwrite
        PROVE  \/ /\ KeptAll(tree'.list, load.before.list, L!Members)
                  /\ KeysAll(tree'.list, load.before.list)
               \/ L!GivenEmpty /\ tree'.list = <<>>
    <3> DEFINE old == load.before.list
               l == tree.list
               new == tree'.list
               goal == \/ KeptAll(new, old, L!Members) /\ KeysAll(new, old)
                       \/ L!GivenEmpty /\ new = <<>>
    <3>1. (KeptAll(l, old, L!Members) /\ KeysAll(l, old)) \/ (L!GivenEmpty /\ l = <<>>)
      BY <1>1, <2>5 DEF KeysKept, GoneAll
    <3>2. CASE new = l
      BY <3>1, <3>2
    <3>3. CASE new # l
      <4>1. n = "list"
        BY <1>3, <3>3 DEF Changes, Children
      <4>2. L!LoadEntry \/ L!EndList
        <5>1. ~L!At("leaf") /\ ~L!At("box") /\ ~L!At("leaflist") /\ ~L!At("unknown")
          BY <1>3, <4>1 DEF L!At
        <5>2. ~L!Finish
          BY <3>3 DEF L!Finish, L!TreeBecomes
        <5> QED BY <5>1, <5>2 DEF L!Step, L!LoadLeaf, L!LoadContainer, L!SetLeafList, L!LoadItem, L!EndLeafList, L!LoadUnknown
      <4>3. L!EndList => goal
        <5>1. L!EndList => L!Emptied /\ new = <<>>
          BY <2>5, <3>3, EndEntriesStep
        <5> QED BY <1>3, <4>1, <5>1, EmptyHere
      <4>4. ASSUME L!LoadEntry PROVE KeptAll(l, old, L!Members) /\ KeysAll(l, old)
        <5>1. /\ L!Member.v \in Seq(ListEntries) /\ load \in Loads
              /\ load.part + 1 \in 1..Len(L!ByOrder(L!Member.v))
          <6> SUFFICES ASSUME NEW x, x = L!ByOrder(L!Member.v)[load.part + 1]
                       PROVE  /\ L!Member.v \in Seq(ListEntries)
                              /\ load.part + 1 \in 1..Len(L!ByOrder(L!Member.v))
            BY DEF LoadTypes
          <6> QED BY <4>4, EntryStep
        <5>2. L!Member.v # <<>>
          BY <5>1, ByOrderFacts
        <5>3. ~L!GivenEmpty
          BY <1>3, <4>1, <5>2, EmptyHere DEF L!Emptied
        <5> QED BY <3>1, <5>3
      <4> SUFFICES ASSUME L!LoadEntry PROVE KeptAll(new, old, L!Members) /\ KeysAll(new, old)
        BY <4>2, <4>3
      <4> DEFINE e == L!ByOrder(L!Member.v)[load.part + 1]
                 k == L!DictKey(e.key)
      <4>5. /\ L!Member.n = "list" /\ L!Member \in L!Members
            /\ e \in ListEntries /\ \E a \in DOMAIN L!Member.v : e = L!Member.v[a]
            /\ \E x : Put1(x, e)
        <5>1. /\ L!At("list") /\ e \in ListEntries /\ \E a \in DOMAIN L!Member.v : e = L!Member.v[a]
              /\ (tree' = tree \/ L!Overwrite \/ \E x : Put1(x, e))
          BY EntryStep
        <5> HIDE DEF e
        <5> QED BY <2>5, <3>3, <5>1, AtFacts
      <4> HIDE DEF e
      <4>6. PutsOn(l, e, k, new)
        BY <2>5, <4>5 DEF Put1, L!Purge
      <4>7. \A i \in DOMAIN l :
              /\ i \in DOMAIN new /\ new[i].at = l[i].at /\ new[i].key = l[i].key
              /\ new[i].v = IF l[i].at = k /\ e.v \in Values THEN e.v ELSE l[i].v
        BY <4>6 DEF PutsOn
      <4>8. \A i \in DOMAIN l : l[i].at = k => l[i].key = e.key
        BY <2>4, <4>5, SameKey DEF ListEntries
      <4>9. KeptAll(new, old, L!Members)
        <5> SUFFICES ASSUME NEW i \in DOMAIN old
                     PROVE  /\ i \in DOMAIN new /\ new[i].at = old[i].at
                            /\ \/ new[i].v = old[i].v
                               \/ \E m \in L!Members : m.n = "list" /\ \E a \in DOMAIN m.v :
                                    m.v[a].key = old[i].key /\ m.v[a].v = new[i].v
          BY DEF KeptAll
        <5>1. i \in DOMAIN l /\ l[i].key = old[i].key /\ l[i].at = old[i].at
          BY <4>4 DEF KeptAll, KeysAll
        <5>2. CASE l[i].at = k /\ e.v \in Values
          <6>1. new[i].v = e.v /\ e.key = old[i].key
            BY <4>7, <4>8, <5>1, <5>2
          <6> QED BY <4>5, <4>7, <5>1, <6>1
        <5>3. CASE ~(l[i].at = k /\ e.v \in Values)
          <6>1. new[i].v = l[i].v
            BY <4>7, <5>1, <5>3
          <6> HIDE DEF old, l, new
          <6> QED BY <4>4, <4>7, <5>1, <6>1 DEF KeptAll
        <5> QED BY <5>2, <5>3
      <4>10. KeysAll(new, old)
        BY <4>4, <4>7 DEF KeysAll
      <4> QED BY <4>9, <4>10
    <3> QED BY <3>2, <3>3
  <2>6. ~L!Overwrite' => L!EntriesKept' \/ GoneAll'
    BY <2>2, <2>5, KeptMeans DEF GoneAll
  <2>7. KeysKept'
    BY <2>2, <2>5 DEF KeysKept, GoneAll
  <2> QED BY <2>3, <2>6, <2>7 DEF L!RestKept, GoneAll
<1> QED BY <1>2, <1>3, StepAt

(* A step raises for what the bindings do not take, or with `overwrite`.    *)
LEMMA GoodStep ==
  ASSUME LoadTypes, L!GoodDocumentsLoad, L!Step
  PROVE  L!GoodDocumentsLoad'
<1> SUFFICES ASSUME load'.out = "raised"
             PROVE  \E m \in L!Members' : ~L!Takes(m) \/ (L!Overwrite' /\ m.n = "list")
  BY DEF L!GoodDocumentsLoad
<1>1. CASE Ends
  BY <1>1 DEF Ends
<1>2. ASSUME NEW n, L!At(n),
             \/ Moves \/ Parts
             \/ Raises /\ (~L!Takes(L!Member) \/ (L!Overwrite /\ n = "list"))
      PROVE  \E m \in L!Members' : ~L!Takes(m) \/ (L!Overwrite' /\ m.n = "list")
  <2>1. load.out = "running" /\ L!Member.n = n /\ L!Member \in L!Members
    BY <1>2, AtFacts
  <2>2. Raises /\ SameLoad
    BY <1>2, <2>1 DEF Moves, Parts, Raises
  <2>3. L!Members' = L!Members /\ L!Overwrite' = L!Overwrite
    BY <2>2, SameDocument
  <2>4. ~L!Takes(L!Member) \/ (L!Overwrite /\ n = "list")
    BY <1>2, <2>1 DEF Moves, Parts
  <2> QED BY <2>1, <2>3, <2>4
<1>3. CASE L!LoadUnknown
  <2>1. L!At("unknown") /\ (Moves \/ Raises)
    BY <1>3, UnknownStep
  <2>2. L!Member.n = "unknown"
    BY <2>1, AtFacts
  <2>3. \A m : m.n = "unknown" => ~L!Takes(m)
    BY DEF L!Takes
  <2> QED BY <1>2, <2>1, <2>2, <2>3
<1>4. CASE L!LoadLeaf
  <2>1. L!At("leaf") /\ ((Raises /\ ~L!Takes(L!Member)) \/ Moves)
    BY <1>4, LeafStep
  <2> QED BY <1>2, <2>1
<1>5. CASE L!LoadContainer
  <2>1. L!At("box") /\ ((Raises /\ ~L!Takes(L!Member)) \/ Moves)
    BY <1>5, BoxStep
  <2> QED BY <1>2, <2>1
<1>6. CASE L!SetLeafList
  <2>1. L!At("leaflist") /\ ((Raises /\ ~L!Takes(L!Member)) \/ Moves)
    BY <1>6, WholeStep
  <2> QED BY <1>2, <2>1
<1>7. CASE L!LoadItem
  <2>1. L!At("leaflist") /\ ((Raises /\ ~L!Takes(L!Member)) \/ Parts)
    BY <1>7, ItemStep
  <2> QED BY <1>2, <2>1
<1>8. CASE L!EndLeafList
  <2>1. L!At("leaflist") /\ Moves
    BY <1>8, EndItemsStep
  <2> QED BY <1>2, <2>1
<1>9. CASE L!LoadEntry
  <2>1. L!At("list") /\ ((Raises /\ (~L!Takes(L!Member) \/ L!Overwrite)) \/ Parts)
    <3> SUFFICES ASSUME NEW e, e = L!ByOrder(L!Member.v)[load.part + 1]
                 PROVE  L!At("list") /\ ((Raises /\ (~L!Takes(L!Member) \/ L!Overwrite)) \/ Parts)
      OBVIOUS
    <3> QED BY <1>9, EntryStep
  <2> QED BY <1>2, <2>1
<1>10. CASE L!EndList
  <2>1. L!At("list") /\ ((Raises /\ L!Overwrite) \/ Moves)
    BY <1>10, EndEntriesStep
  <2> QED BY <1>2, <2>1
<1>11. CASE L!Finish
  BY <1>1, <1>11, FinishStep
<1> QED BY <1>3, <1>4, <1>5, <1>6, <1>7, <1>8, <1>9, <1>10, <1>11 DEF L!Step

-----------------------------------------------------------------------------
(* What a load has loaded                                                  *)

(* What entry e says is in the list.                                        *)
EntryIn(l, e) ==
  /\ e.v # Bad /\ \E i \in DOMAIN l : l[i].at = L!DictKey(e.key)
  /\ \A i \in DOMAIN l : l[i].at = L!DictKey(e.key) /\ e.v \in Values => l[i].v = e.v

(* What member m says is in the tree, and to load it again changes nothing.  *)
Full(m) ==
  /\ m.n = "leaf" => tree.leaf = m.v
  /\ m.n = "box" => tree.box.present /\ (m.v # <<>> => tree.box.in = m.v[1])
  /\ m.n = "leaflist" =>
       /\ \A i \in DOMAIN m.v : L!Has(tree.leaflist, Native[m.v[i]])
       /\ L!Fmt = "ietf" /\ m.v # <<>> => tree.leaflist = L!CollectedAll(m.v)
       /\ L!Fmt = "json" /\ ~L!Overwrite =>
            \A i \in DOMAIN tree.leaflist : tree.leaflist[i] \in L!ToSet(m.v)
  /\ m.n = "list" =>
       /\ \A i \in DOMAIN m.v : EntryIn(tree.list, m.v[i])
       /\ L!Fmt = "json" /\ ~L!Overwrite /\ m.v = <<>> => tree.list = <<>>

Losing(m) == L!LosesValues(m) \/ L!LosesEntries(m)

(* What the part of m that has been gone through says is in the tree.       *)
Partly(m) ==
  /\ m.n = "leaflist" /\ ~L!SetsWhole =>
       \A i \in DOMAIN m.v : i <= load.part => L!Has(tree.leaflist, Native[m.v[i]])
  /\ m.n = "list" =>
       \A i \in 1..Len(L!ByOrder(m.v)) : i <= load.part => EntryIn(tree.list, L!ByOrder(m.v)[i])

(* What has been gone through is there, or among what is lost.              *)
Progress ==
  /\ load.out \in {"running", "done"} =>
       \A i \in 1..(load.member - 1) : Losing(L!Doc[i]) \/ Full(L!Doc[i])
  /\ load.out = "running" /\ load.member <= Len(L!Doc) =>
       Losing(L!Member) \/ Partly(L!Member)
  /\ load.out = "done" => load.member = Len(L!Doc) + 1

(* What is lost of a member is the same all through a load.                 *)
LEMMA LosingSame ==
  ASSUME SameLoad, NEW m
  PROVE  Losing(m)' <=> Losing(m)
<1>1. L!Fmt' = L!Fmt /\ L!Overwrite' = L!Overwrite /\ L!Purge' = L!Purge /\ load'.fresh = load.fresh
  BY SameDocument DEF SameLoad
<1>2. L!LosesValues(m)' <=> L!LosesValues(m)
  BY <1>1 DEF L!LosesValues
<1>3. L!LosesEntries(m)' <=> L!LosesEntries(m)
  BY <1>1 DEF L!LosesEntries
<1> QED BY <1>2, <1>3 DEF Losing

(* The member a step is not at stays full.                                  *)
LEMMA FullKept ==
  ASSUME SameLoad, NEW m, Full(m), tree' = tree \/ \E n : Changes(n) /\ m.n # n
  PROVE  Full(m)'
<1>1. L!Fmt' = L!Fmt /\ L!Overwrite' = L!Overwrite /\ \A k : L!DictKey(k)' = L!DictKey(k)
  BY SameDocument
<1>2. /\ m.n = "leaf" => tree'.leaf = tree.leaf
      /\ m.n = "box" => tree'.box = tree.box
      /\ m.n = "leaflist" => tree'.leaflist = tree.leaflist
      /\ m.n = "list" => tree'.list = tree.list
  BY DEF Changes, Children
<1>3. m.n = "list" => \A i \in DOMAIN m.v : EntryIn(tree.list, m.v[i])'
  BY <1>1, <1>2 DEF Full, EntryIn
<1> QED BY <1>1, <1>2, <1>3 DEF Full

(* It is enough to look at the member a step is at.                         *)
LEMMA ProgressKept ==
  ASSUME LoadTypes, Progress, NEW n, L!At(n), Changes(n), NEW m, m = L!Member,
         \/ Raises
         \/ Moves /\ (Losing(m) \/ Full(m)')
         \/ Parts /\ (Losing(m) \/ Partly(m)')
  PROVE  Progress'
<1>1. /\ load.out = "running" /\ load.member \in 1..Len(L!Doc) /\ m = L!Doc[load.member] /\ m.n = n
      /\ Len(L!Doc) \in Nat
  BY AtFacts, DocFacts DEF LoadTypes, Loads, L!Doc
<1>2. SameLoad
  BY DEF Moves, Parts, Raises
<1>3. L!Doc' = L!Doc
  BY <1>2, SameDocument
<1>4. ASSUME NEW i \in 1..(load.member - 1)
      PROVE  Losing(L!Doc[i])' \/ Full(L!Doc[i])'
  <2>1. Losing(L!Doc[i]) \/ Full(L!Doc[i])
    BY <1>1 DEF Progress
  <2> SUFFICES ASSUME NEW o, o = L!Doc[i] PROVE Losing(o)' \/ Full(o)'
    BY <1>3
  <2>2. i \in DOMAIN L!Doc /\ load.member \in DOMAIN L!Doc /\ i # load.member
    BY <1>1, DocFacts DEF LoadTypes, Loads, L!Doc
  <2>3. o.n # n \/ o.n = "unknown"
    BY <1>1, <2>2, DocFacts DEF LoadTypes, Loads, L!Doc
  <2>4. CASE o.n # n
    BY <1>2, <2>1, <2>4, LosingSame, FullKept
  <2>5. CASE o.n = "unknown"
    BY <2>5 DEF Full
  <2> QED BY <2>3, <2>4, <2>5
<1>5. CASE Raises
  BY <1>5 DEF Raises, Progress
<1>6. CASE Moves /\ (Losing(m) \/ Full(m)')
  <2>1. load'.member = load.member + 1 /\ load'.part = 0 /\ load'.out = "running"
    BY <1>1, <1>6 DEF Moves
  <2>2. ASSUME NEW i \in 1..(load'.member - 1)
        PROVE  Losing(L!Doc[i])' \/ Full(L!Doc[i])'
    <3>1. CASE i = load.member
      <4>1. m = L!Doc[i] /\ m = L!Doc'[i]
        BY <1>1, <1>3, <3>1
      <4>2. Losing(m)' \/ Full(m)'
        BY <1>2, <1>6, LosingSame
      <4> QED BY <4>1, <4>2 DEF Losing, Full
    <3>2. CASE i # load.member
      <4>1. i \in 1..(load.member - 1)
        BY <1>1, <2>1, <3>2
      <4> QED BY <1>4, <4>1
    <3> QED BY <3>1, <3>2
  <2>3. ASSUME load'.member <= Len(L!Doc) PROVE Partly(L!Member)'
    <3>1. load'.member \in DOMAIN L!Doc
      BY <1>1, <2>1, <2>3, DocFacts DEF LoadTypes, Loads, L!Doc
    <3>2. IsMember(L!Doc[load'.member]) /\ L!Member' = L!Doc[load'.member]
      BY <1>3, <3>1, DocFacts DEF LoadTypes, Loads, L!Doc, L!Member
    <3> SUFFICES ASSUME NEW o, o = L!Member' PROVE Partly(o)'
      BY DEF Partly
    <3>3. o.n = "leaflist" => DOMAIN o.v = 1..Len(o.v) /\ Len(o.v) \in Nat
      BY <3>2 DEF IsMember
    <3>4. o.n = "list" => Len(L!ByOrder(o.v)) \in Nat /\ L!ByOrder(o.v)' = L!ByOrder(o.v)
      BY <1>2, <3>2, SameDocument, ByOrderFacts DEF IsMember, LoadTypes
    <3>5. o.n = "leaflist" => \A i \in DOMAIN o.v : ~(i <= load'.part)
      BY <2>1, <3>3
    <3>6. o.n = "list" => \A i \in 1..Len(L!ByOrder(o.v)') : ~(i <= load'.part)
      BY <2>1, <3>4
    <3> QED BY <3>5, <3>6 DEF Partly
  <2> QED BY <1>3, <2>1, <2>2, <2>3 DEF Progress
<1>7. CASE Parts /\ (Losing(m) \/ Partly(m)')
  <2>1. load'.member = load.member /\ load'.out = "running"
    BY <1>1, <1>7 DEF Parts
  <2>2. m = L!Member'
    BY <1>1, <1>3, <2>1 DEF L!Member
  <2>3. Losing(L!Member)' \/ Partly(L!Member)'
    <3>1. Losing(m)' \/ Partly(m)'
      BY <1>2, <1>7, LosingSame
    <3> QED BY <2>2, <3>1 DEF Losing, Partly
  <2> QED BY <1>4, <2>1, <2>3 DEF Progress
<1> QED BY <1>5, <1>6, <1>7

(* What has been put in the list is in it, and what was is still.           *)
LEMMA EntryPut ==
  ASSUME NEW l \in Seq(L!Entries), NEW new \in Seq(L!Entries), NEW e \in ListEntries, e.v # Bad,
         PutsOn(l, e, L!DictKey(e.key), new), Number[e.key] # Invalid
  PROVE  /\ EntryIn(new, e)
         /\ \A o \in ListEntries : o.key # e.key /\ EntryIn(l, o) => EntryIn(new, o)
<1> DEFINE k == L!DictKey(e.key)
<1>1. DOMAIN l = 1..Len(l) /\ Len(l) \in Nat /\ DOMAIN new = 1..Len(new) /\ Len(new) \in Nat
  OBVIOUS
<1>2. \A i \in DOMAIN l :
        /\ i \in DOMAIN new /\ new[i].at = l[i].at
        /\ new[i].v = IF l[i].at = k /\ e.v \in Values THEN e.v ELSE l[i].v
  BY DEF PutsOn
<1>3. ASSUME NEW o \in ListEntries, o.key # e.key PROVE L!DictKey(o.key) # k
  BY <1>3, NumbersAssumption DEF L!DictKey, ListEntries
<1> HIDE DEF k
<1>4. CASE \E i \in DOMAIN l : l[i].at = k
  <2>1. DOMAIN new = DOMAIN l
    BY <1>1, <1>4 DEF PutsOn, k
  <2>2. EntryIn(new, e)
    BY <1>2, <1>4, <2>1 DEF EntryIn, k
  <2>3. ASSUME NEW o \in ListEntries, o.key # e.key, EntryIn(l, o) PROVE EntryIn(new, o)
    BY <1>2, <1>3, <2>1, <2>3 DEF EntryIn
  <2> QED BY <2>2, <2>3
<1>5. CASE ~\E i \in DOMAIN l : l[i].at = k
  <2>1. /\ Len(new) = Len(l) + 1 /\ new[Len(l) + 1].at = k
        /\ e.v \in Values => new[Len(l) + 1].v = e.v
    BY <1>5 DEF PutsOn, k
  <2>2. /\ \A i \in DOMAIN new : i \in DOMAIN l \/ i = Len(l) + 1
        /\ Len(l) + 1 \in DOMAIN new
    BY <1>1, <2>1
  <2>3. EntryIn(new, e)
    BY <1>2, <1>5, <2>1, <2>2 DEF EntryIn, k
  <2>4. ASSUME NEW o \in ListEntries, o.key # e.key, EntryIn(l, o) PROVE EntryIn(new, o)
    BY <1>2, <1>3, <2>1, <2>2, <2>4 DEF EntryIn
  <2> QED BY <2>3, <2>4
<1> QED BY <1>4, <1>5

(* The steps of a leaf-list that is appended to.                            *)
LEMMA ItemProgress ==
  ASSUME LoadTypes, Progress, L!LoadItem \/ L!EndLeafList
  PROVE  Progress'
<1> SUFFICES ASSUME NEW m, m = L!Member PROVE Progress'
  OBVIOUS
<1>1. /\ L!At("leaflist") /\ ~L!SetsWhole /\ Changes("leaflist") /\ load.part \in Nat
      /\ DOMAIN m.v = 1..Len(m.v)
  BY ItemStep, EndItemsStep DEF LoadTypes, Loads
<1>2. /\ m.n = "leaflist" /\ load.out = "running" /\ load.member <= Len(L!Doc)
      /\ m.v \in Seq(Passed)
  <2>1. IsMember(m) /\ m.n = "leaflist" /\ load.out = "running" /\ load.member \in 1..Len(L!Doc)
    BY <1>1, AtFacts
  <2>2. Len(L!Doc) \in Nat
    BY DocFacts DEF LoadTypes, Loads, L!Doc
  <2> QED BY <2>1, <2>2 DEF IsMember
<1>3. Losing(m) \/ \A i \in DOMAIN m.v : i <= load.part => L!Has(tree.leaflist, Native[m.v[i]])
  BY <1>1, <1>2 DEF Progress, Partly
<1>4. CASE L!LoadItem
  <2>1. \/ Raises
        \/ /\ Parts /\ L!Has(tree'.leaflist, Native[m.v[load.part + 1]])
           /\ \A q : L!Has(tree.leaflist, q) => L!Has(tree'.leaflist, q)
    BY <1>4, ItemStep
  <2>2. ASSUME Parts, ~Losing(m) PROVE Partly(m)'
    <3>1. L!SetsWhole' = L!SetsWhole /\ load'.part = load.part + 1
      BY <2>2, SameDocument DEF Parts
    <3>2. load.out = "running"
      BY <1>2
    <3>3. /\ L!Has(tree'.leaflist, Native[m.v[load.part + 1]])
          /\ \A q : L!Has(tree.leaflist, q) => L!Has(tree'.leaflist, q)
      BY <2>1, <2>2, <3>2 DEF Parts, Raises
    <3>4. ASSUME NEW i \in DOMAIN m.v, i <= load.part + 1 PROVE L!Has(tree'.leaflist, Native[m.v[i]])
      <4>1. i <= load.part \/ i = load.part + 1
        BY <1>1, <3>4
      <4> QED BY <1>3, <2>2, <3>3, <4>1
    <3> QED BY <1>2, <3>1, <3>4 DEF Partly
  <2> QED BY <1>1, <2>1, <2>2, ProgressKept
<1>5. CASE L!EndLeafList
  <2>1. /\ Moves /\ load.part = Len(m.v)
        /\ IF L!Fmt = "json"
           THEN /\ \A x : L!Has(tree.leaflist, x) /\ x \in L!ToSet(m.v) => L!Has(tree'.leaflist, x)
                /\ \A i \in DOMAIN tree'.leaflist : tree'.leaflist[i] \in L!ToSet(m.v)
           ELSE tree' = tree
    BY <1>5, EndItemsStep
  <2>2. L!Fmt' = L!Fmt /\ L!Overwrite' = L!Overwrite
    BY <2>1, SameDocument DEF Moves
  <2>3. L!Fmt # "ietf" /\ (L!Fmt = "json" => ~L!Overwrite)
    BY <1>1 DEF L!SetsWhole
  <2>4. ASSUME ~Losing(m) PROVE Full(m)'
    <3>1. \A i \in DOMAIN m.v : i <= load.part
      BY <1>1, <2>1
    <3>2. \A i \in DOMAIN m.v : L!Has(tree.leaflist, Native[m.v[i]])
      BY <1>3, <2>4, <3>1
    <3>3. L!Fmt = "json" => L!ToSet(m.v) \subseteq Natives
      BY <1>2, <2>3, <2>4 DEF Losing, L!LosesValues
    <3>4. ASSUME NEW i \in DOMAIN m.v PROVE L!Has(tree'.leaflist, Native[m.v[i]])
      <4>1. CASE L!Fmt = "json"
        <5>1. m.v[i] \in L!ToSet(m.v)
          BY DEF L!ToSet
        <5>2. m.v[i] \in Natives /\ Native[m.v[i]] = m.v[i]
          BY <3>3, <4>1, <5>1, PassedAssumption
        <5> QED BY <2>1, <3>2, <4>1, <5>1, <5>2
      <4>2. CASE L!Fmt # "json"
        BY <2>1, <3>2, <4>2
      <4> QED BY <4>1, <4>2
    <3> QED BY <1>2, <2>1, <2>2, <2>3, <3>4 DEF Full
  <2> QED BY <1>1, <2>1, <2>4, ProgressKept
<1> QED BY <1>4, <1>5

(* The steps that take a member at once.                                    *)
LEMMA MemberProgress ==
  ASSUME LoadTypes, Progress, L!LoadUnknown \/ L!LoadLeaf \/ L!LoadContainer \/ L!SetLeafList
  PROVE  Progress'
<1> SUFFICES ASSUME NEW m, m = L!Member PROVE Progress'
  OBVIOUS
<1>1. CASE L!LoadUnknown
  <2>1. L!At("unknown") /\ tree' = tree /\ (Moves \/ Raises) /\ m.n = "unknown"
    BY <1>1, UnknownStep, AtFacts
  <2>2. Full(m)'
    BY <2>1 DEF Full
  <2> QED BY <2>1, <2>2, ProgressKept, TreeSteps DEF LoadTypes
<1>2. CASE L!LoadLeaf
  <2>1. /\ L!At("leaf") /\ Changes("leaf") /\ m.n = "leaf"
        /\ Raises \/ (Moves /\ tree'.leaf = m.v)
    BY <1>2, LeafStep, AtFacts
  <2>2. tree'.leaf = m.v => Full(m)'
    BY <2>1 DEF Full
  <2> QED BY <2>1, <2>2, ProgressKept
<1>3. CASE L!LoadContainer
  <2>1. /\ L!At("box") /\ Changes("box") /\ m.n = "box"
        /\ Raises \/ (Moves /\ tree'.box.present /\ (m.v # <<>> => tree'.box.in = m.v[1]))
    BY <1>3, BoxStep, AtFacts
  <2>2. tree'.box.present /\ (m.v # <<>> => tree'.box.in = m.v[1]) => Full(m)'
    BY <2>1 DEF Full
  <2> QED BY <2>1, <2>2, ProgressKept
<1>4. CASE L!SetLeafList
  <2>1. /\ L!At("leaflist") /\ Changes("leaflist") /\ m.n = "leaflist" /\ L!SetsWhole
        /\ \/ Raises
           \/ Moves /\ L!Fmt = "ietf" /\ m.v = <<>>
           \/ /\ Moves /\ tree'.leaflist = L!CollectedAll(m.v)
              /\ \A i \in DOMAIN m.v : L!Has(tree'.leaflist, Native[m.v[i]])
    BY <1>4, WholeStep, AtFacts
  <2>2. ASSUME Moves PROVE Full(m)'
    <3>1. L!Fmt' = L!Fmt /\ L!Overwrite' = L!Overwrite /\ L!SetsWhole' = L!SetsWhole
      BY <2>2, SameDocument DEF Moves
    <3>2. ~(L!Fmt = "json" /\ ~L!Overwrite)
      BY <2>1 DEF L!SetsWhole
    <3>3. load.out = "running"
      BY <2>1, AtFacts
    <3>4. \/ L!Fmt = "ietf" /\ m.v = <<>>
          \/ /\ tree'.leaflist = L!CollectedAll(m.v)
             /\ \A i \in DOMAIN m.v : L!Has(tree'.leaflist, Native[m.v[i]])
      BY <2>1, <2>2, <3>3 DEF Moves, Raises
    <3>5. m.v = <<>> => DOMAIN m.v = {}
      OBVIOUS
    <3> QED BY <2>1, <3>1, <3>2, <3>4, <3>5 DEF Full
  <2> QED BY <2>1, <2>2, ProgressKept
<1> QED BY <1>1, <1>2, <1>3, <1>4

(* An entry of a list: those before it, of other keys, stay.                *)
LEMMA EntryProgress ==
  ASSUME LoadTypes, Progress, L!LoadEntry
  PROVE  Progress'
<1> SUFFICES ASSUME NEW m, m = L!Member PROVE Progress'
  OBVIOUS
<1> SUFFICES ASSUME NEW es, es = L!ByOrder(m.v) PROVE Progress'
  OBVIOUS
<1> SUFFICES ASSUME NEW e, e = es[load.part + 1] PROVE Progress'
  OBVIOUS
<1>1. /\ L!At("list") /\ Changes("list") /\ m.v \in Seq(ListEntries)
      /\ load.part + 1 \in 1..Len(es) /\ e \in ListEntries
      /\ Raises \/ (Parts /\ e.v # Bad /\ \E l : Put1(l, e))
  BY EntryStep
<1>2. m.n = "list" /\ load.out = "running" /\ load.member \in 1..Len(L!Doc)
  BY <1>1, AtFacts
<1>3. /\ es \in Seq(ListEntries) /\ Len(es) \in Nat /\ DOMAIN es = 1..Len(es) /\ load.part \in Nat
  BY <1>1, ByOrderFacts DEF LoadTypes, Loads
<1>4. \A i, j \in 1..Len(es) : es[i].key = es[j].key => i = j
  <2>1. load.member \in DOMAIN L!Doc /\ m = L!Doc[load.member] /\ load.doc \in DOMAIN Documents
    BY <1>1, AtFacts DEF LoadTypes, Loads
  <2>2. \A a, b \in DOMAIN m.v : m.v[a].key = m.v[b].key => a = b
    BY <1>2, <2>1, DocFacts DEF L!Doc
  <2> QED BY <1>1, <2>2, ByOrderFacts DEF LoadTypes
<1>5. Losing(m) \/ \A i \in 1..Len(es) : i <= load.part => EntryIn(tree.list, es[i])
  <2>1. load.member <= Len(L!Doc)
    BY <1>2, DocFacts DEF LoadTypes, Loads, L!Doc
  <2> QED BY <1>2, <2>1 DEF Progress, Partly
<1>6. ASSUME Parts, ~Losing(m) PROVE Partly(m)'
  <2>1. /\ load'.part = load.part + 1 /\ L!ByOrder(m.v)' = es
        /\ \A k : L!DictKey(k)' = L!DictKey(k)
    BY <1>6, SameDocument DEF Parts
  <2>2. PICK l : Put1(l, e)
    BY <1>1, <1>2, <1>6 DEF Parts, Raises
  <2>3. e.v # Bad
    BY <1>1, <1>2, <1>6 DEF Parts, Raises
  <2>4. /\ l \in Seq(L!Entries) /\ tree'.list \in Seq(L!Entries)
        /\ l = tree.list \/ L!Purge
        /\ Number[e.key] # Invalid /\ PutsOn(l, e, L!DictKey(e.key), tree'.list)
    BY <1>1, <2>2 DEF Put1, Changes, Trees
  <2>5. /\ EntryIn(tree'.list, e)
        /\ \A o \in ListEntries : o.key # e.key /\ EntryIn(l, o) => EntryIn(tree'.list, o)
    BY <1>1, <2>3, <2>4, EntryPut
  <2>6. ASSUME NEW i \in 1..Len(es), i <= load.part + 1 PROVE EntryIn(tree'.list, es[i])
    <3>1. CASE i = load.part + 1
      BY <2>5, <3>1
    <3>2. CASE i # load.part + 1
      <4>1. i <= load.part /\ es[i] \in ListEntries
        BY <1>3, <2>6, <3>2
      <4>2. es[i].key # e.key
        BY <1>1, <1>4, <3>2
      <4>3. l = tree.list
        <5>1. CASE L!Purge
          <6>1. Len(m.v) <= 1
            BY <1>1, <1>2, <1>6, <5>1 DEF Losing, L!LosesEntries
          <6>2. es = m.v
            BY <5>1 DEF L!Purge, L!ByOrder
          <6>3. load.part = 0
            BY <1>1, <1>3, <6>1, <6>2
          <6> QED BY <4>1, <6>3
        <5> QED BY <2>4, <5>1
      <4> QED BY <1>5, <1>6, <2>5, <4>1, <4>2, <4>3
    <3> QED BY <3>1, <3>2
  <2>7. ASSUME NEW i \in 1..Len(es), i <= load.part + 1 PROVE EntryIn(tree.list, es[i])'
    BY <2>1, <2>6, <2>7 DEF EntryIn
  <2> QED BY <1>2, <2>1, <2>7 DEF Partly
<1> QED BY <1>1, <1>6, ProgressKept

(* What load_json deletes is no entry of the document.                      *)
LEMMA EndEntriesProgress ==
  ASSUME LoadTypes, Progress, L!EndList
  PROVE  Progress'
<1> SUFFICES ASSUME NEW m, m = L!Member PROVE Progress'
  OBVIOUS
<1> SUFFICES ASSUME NEW es, es = L!ByOrder(m.v) PROVE Progress'
  OBVIOUS
<1>1. /\ L!At("list") /\ Changes("list") /\ m.v \in Seq(ListEntries) /\ load.part = Len(es)
      /\ \/ Raises
         \/ Moves /\ tree'.list = IF L!Emptied THEN <<>> ELSE tree.list
         \/ /\ Moves /\ L!Fmt = "json" /\ L!Overwrite
            /\ \E i \in L!Strange(m.v) : tree'.list = L!Deleted(tree.list, i) /\ i = Len(tree.list)
  BY EndEntriesStep
<1>2. m.n = "list" /\ load.out = "running" /\ load.member \in 1..Len(L!Doc)
  BY <1>1, AtFacts
<1>3. Losing(m) \/ \A i \in 1..Len(es) : i <= load.part => EntryIn(tree.list, es[i])
  <2>1. load.member <= Len(L!Doc)
    BY <1>2, DocFacts DEF LoadTypes, Loads, L!Doc
  <2> QED BY <1>2, <2>1 DEF Progress, Partly
<1>4. ASSUME Moves, ~Losing(m) PROVE Full(m)'
  <2>1. \A k : L!DictKey(k)' = L!DictKey(k)
    BY <1>4, SameDocument DEF Moves
  <2>2. Len(es) \in Nat
    BY <1>1, ByOrderFacts DEF LoadTypes
  <2>3. \A i \in DOMAIN m.v : EntryIn(tree.list, m.v[i])
    <3>1. L!Fmt = "json" /\ Ordered => L!Taken(m.v, load.fresh) = DOMAIN m.v
      BY <1>2, <1>4 DEF Losing, L!LosesEntries, L!Purge
    <3>2. \A i \in DOMAIN m.v : \E n \in 1..Len(es) : es[n] = m.v[i]
      <4>1. load \in Loads /\ m.v \in Seq(ListEntries)
        BY <1>1 DEF LoadTypes
      <4> DEFINE onto(o) == \A i \in DOMAIN o : \E n \in 1..Len(L!ByOrder(o)) : L!ByOrder(o)[n] = o[i]
      <4>2. onto(m.v)
        <5> SUFFICES ASSUME NEW o, o = m.v PROVE onto(o)
          OBVIOUS
        <5> QED BY <3>1, <4>1, ByOrderFacts
      <4> QED BY <4>2
    <3>3. \A n \in 1..Len(es) : EntryIn(tree.list, es[n])
      BY <1>1, <1>3, <1>4, <2>2
    <3> QED BY <3>2, <3>3
  <2>4. \A i \in DOMAIN m.v : EntryIn(tree'.list, m.v[i])
    <3>1. CASE tree'.list = tree.list \/ m.v = <<>>
      BY <2>3, <3>1
    <3>2. CASE ~(tree'.list = tree.list \/ m.v = <<>>)
      <4>1. /\ L!Fmt = "json"
            /\ \E i \in L!Strange(m.v) : tree'.list = L!Deleted(tree.list, i) /\ i = Len(tree.list)
        BY <1>1, <1>2, <1>4, <3>2 DEF Moves, Raises, L!Emptied
      <4> DEFINE l == tree.list
                 new == tree'.list
                 N == Len(l)
      <4>2. l \in Seq(L!Entries) /\ N \in Nat /\ DOMAIN l = 1..N
        BY DEF LoadTypes, Trees
      <4>3. N \in L!Strange(m.v) /\ new = L!Deleted(l, N)
        BY <4>1
      <4>4. N \in DOMAIN l /\ \A j \in DOMAIN m.v : l[N].at # m.v[j].key
        BY <4>3 DEF L!Strange
      <4>5. /\ new \in Seq(L!Entries) /\ Len(new) = N - 1 /\ \A i \in 1..(N - 1) : new[i] = l[i]
        <5>1. Deleted(l, N) = L!Deleted(l, N)
          BY DEF Deleted, L!Deleted
        <5>2. N \in 1..Len(l)
          BY <4>2, <4>4
        <5> HIDE DEF l, new
        <5> QED BY <4>2, <4>3, <5>1, <5>2, DeletedAt
      <4>6. DOMAIN new = 1..(N - 1) /\ \A i \in DOMAIN l : i \in DOMAIN new \/ i = N
        BY <4>2, <4>5
      <4>7. DOMAIN new \subseteq DOMAIN l /\ \A i \in DOMAIN new : new[i] = l[i]
        BY <4>2, <4>5, <4>6
      <4> HIDE DEF l, new, N
      <4>8. ASSUME NEW a \in DOMAIN m.v PROVE EntryIn(new, m.v[a])
        <5>1. EntryIn(l, m.v[a])
          BY <2>3 DEF l
        <5>2. L!DictKey(m.v[a].key) = m.v[a].key
          BY <4>1 DEF L!DictKey
        <5> QED BY <4>4, <4>6, <4>7, <5>1, <5>2 DEF EntryIn
      <4> QED BY <4>8 DEF new
    <3> QED BY <3>1, <3>2
  <2>5. \A i \in DOMAIN m.v : EntryIn(tree.list, m.v[i])'
    BY <2>1, <2>4 DEF EntryIn
  <2>6. L!Fmt' = "json" /\ ~L!Overwrite' /\ m.v = <<>> => tree'.list = <<>>
    <3>1. L!Fmt' = L!Fmt /\ L!Overwrite' = L!Overwrite
      BY <1>4, SameDocument DEF Moves
    <3>2. L!Overwrite \/ tree'.list = IF L!Emptied THEN <<>> ELSE tree.list
      BY <1>1, <1>2, <1>4 DEF Moves, Raises
    <3> QED BY <3>1, <3>2 DEF L!Emptied
  <2> QED BY <1>2, <2>5, <2>6 DEF Full
<1> QED BY <1>1, <1>4, ProgressKept

(* The end.                                                                 *)
LEMMA EndProgress ==
  ASSUME LoadTypes, Progress, L!Finish
  PROVE  Progress'
<1>1. load.out = "running" /\ load.member = Len(L!Doc) + 1 /\ tree' = tree /\ Ends
  BY FinishStep
<1>2. SameLoad /\ load'.member = load.member /\ load'.out = "done"
  BY <1>1 DEF Ends
<1>3. L!Doc' = L!Doc
  BY <1>2, SameDocument
<1>4. ASSUME NEW i \in 1..(load.member - 1)
      PROVE  Losing(L!Doc[i])' \/ Full(L!Doc[i])'
  <2>1. Losing(L!Doc[i]) \/ Full(L!Doc[i])
    BY <1>1 DEF Progress
  <2> SUFFICES ASSUME NEW o, o = L!Doc[i] PROVE Losing(o)' \/ Full(o)'
    BY <1>3
  <2> QED BY <1>1, <1>2, <2>1, LosingSame, FullKept
<1> QED BY <1>1, <1>2, <1>3, <1>4 DEF Progress

(* A load that begins has gone through nothing.                             *)
LEMMA BeginsAtOnce ==
  ASSUME NEW d \in DOMAIN Documents, NEW flags \in L!Flags, L!Begin(d, flags)
  PROVE  /\ load.out # "running" /\ load'.out = "running" /\ load'.member = 1 /\ load'.part = 0
         /\ load'.before = tree /\ tree' = tree /\ load'.doc = d /\ load'.flags = flags
         /\ load'.again => load.out = "done" /\ load.doc = d /\ load.flags = flags
BY DEF L!Begin

(* Nothing has been gone through.                                           *)
LEMMA BeginProgress ==
  ASSUME LoadTypes, NEW d \in DOMAIN Documents, NEW flags \in L!Flags, L!Begin(d, flags)
  PROVE  Progress'
<1>1. load'.out = "running" /\ load'.member = 1 /\ load'.part = 0 /\ load'.doc = d /\ LoadTypes'
  BY BeginsAtOnce, TypesBegin
<1>2. L!Doc' = Documents[d] /\ L!Member' = Documents[d][1]
  BY <1>1 DEF L!Doc, L!Member
<1>3. ASSUME 1 <= Len(Documents[d]) PROVE Partly(L!Member)'
  <2>1. IsMember(Documents[d][1])
    BY <1>3, DocFacts
  <2> SUFFICES ASSUME NEW o, o = L!Member' PROVE Partly(o)'
    BY DEF Partly
  <2>2. o.n = "leaflist" => \A i \in DOMAIN o.v : ~(i <= 0)
    BY <1>2, <2>1 DEF IsMember
  <2>3. ASSUME o.n = "list" PROVE Len(L!ByOrder(o.v)') \in Nat
    <3>1. o.v \in Seq(ListEntries) /\ load'.fresh \in BOOLEAN
      BY <1>1, <1>2, <2>1, <2>3 DEF IsMember, LoadTypes, Loads
    <3>2. CASE L!ByOrder(o.v)' = o.v
      BY <3>1, <3>2
    <3>3. CASE L!ByOrder(o.v)' = L!Sorted(o.v, load'.fresh)
      BY <3>1, <3>3, SortedFacts
    <3> QED BY <3>2, <3>3 DEF L!ByOrder
  <2>4. o.n = "list" => \A i \in 1..Len(L!ByOrder(o.v)') : ~(i <= 0)
    BY <2>3
  <2> QED BY <1>1, <2>2, <2>4 DEF Partly
<1> QED BY <1>1, <1>2, <1>3 DEF Progress

(* What a load that ends has loaded.                                        *)
LEMMA ProgressLoads ==
  ASSUME LoadTypes, Apart(tree.list), Progress
  PROVE  L!MostLoaded
<1> SUFFICES ASSUME load.out = "done", NEW m \in L!Members, ~Losing(m)
             PROVE  L!IsLoaded(m)
  BY DEF L!MostLoaded, L!Done, Losing
<1>1. PICK i \in DOMAIN L!Doc : m = L!Doc[i]
  BY DEF L!Members
<1>2. i \in 1..Len(L!Doc) /\ Len(L!Doc) \in Nat /\ IsMember(m)
  BY <1>1, DocFacts DEF LoadTypes, Loads, L!Doc
<1>3. i \in 1..(load.member - 1)
  BY <1>2 DEF Progress
<1>4. Full(m)
  BY <1>1, <1>3 DEF Progress
<1>5. m.n \in {"leaf", "leaflist", "list", "box", "unknown"}
  BY <1>2 DEF IsMember, L!Names
<1>6. CASE m.n \in {"leaf", "leaflist", "box", "unknown"}
  BY <1>4, <1>6 DEF Full, L!IsLoaded
<1>7. CASE m.n = "list"
  <2>1. m.v \in Seq(ListEntries) /\ tree.list \in Seq(L!Entries)
    BY <1>2, <1>7 DEF IsMember, LoadTypes, Trees
  <2>2. ASSUME NEW a \in DOMAIN m.v
        PROVE  \E j \in DOMAIN tree.list :
                 tree.list[j].key = m.v[a].key /\ m.v[a].v \in {Null, tree.list[j].v}
    <3>1. EntryIn(tree.list, m.v[a]) /\ m.v[a] \in ListEntries
      BY <1>4, <1>7, <2>1 DEF Full
    <3>2. PICK j \in DOMAIN tree.list : tree.list[j].at = L!DictKey(m.v[a].key)
      BY <3>1 DEF EntryIn
    <3>3. m.v[a].key \in Keys /\ m.v[a].v \in Values \cup {Null, Bad}
      BY <3>1 DEF ListEntries
    <3>4. tree.list[j].key = m.v[a].key
      BY <2>1, <3>2, <3>3, SameKey
    <3>5. m.v[a].v \in Values => m.v[a].v = tree.list[j].v
      BY <3>1, <3>2 DEF EntryIn
    <3> QED BY <3>1, <3>3, <3>4, <3>5 DEF EntryIn
  <2> QED BY <1>7, <2>2 DEF L!IsLoaded, L!SomeIn
<1> QED BY <1>5, <1>6, <1>7

-----------------------------------------------------------------------------
(* Loading a document again                                                *)

Again == load.again /\ ~L!Overwrite /\ L!OfTheType /\ L!NumbersOnce
AgainFull ==
  Again /\ load.out \in {"running", "done"} =>
    tree = load.before /\ \A i \in DOMAIN L!Doc : Full(L!Doc[i])

(* It is enough that the step changes nothing.                              *)
LEMMA AgainKept ==
  ASSUME LoadTypes, AgainFull, SameLoad, load.out = "running",
         load'.out \in {"running", "done"} /\ Again /\ (\A i \in DOMAIN L!Doc : Full(L!Doc[i]))
           => tree' = tree
  PROVE  AgainFull'
<1> SUFFICES ASSUME Again', load'.out \in {"running", "done"}
             PROVE  tree' = load'.before /\ \A i \in DOMAIN L!Doc' : Full(L!Doc[i])'
  BY DEF AgainFull
<1>1. L!Doc' = L!Doc /\ load'.before = load.before /\ (Again' <=> Again)
  <2>1. L!Doc' = L!Doc /\ L!Overwrite' = L!Overwrite /\ L!OfTheType' = L!OfTheType /\ L!NumbersOnce' = L!NumbersOnce
    BY SameDocument
  <2>2. load'.again = load.again /\ load'.before = load.before
    BY DEF SameLoad
  <2> QED BY <2>1, <2>2 DEF Again
<1>2. tree = load.before /\ \A i \in DOMAIN L!Doc : Full(L!Doc[i])
  BY <1>1 DEF AgainFull
<1>3. tree' = tree
  BY <1>1, <1>2
<1>4. ASSUME NEW i \in DOMAIN L!Doc PROVE Full(L!Doc[i])'
  <2> SUFFICES ASSUME NEW o, o = L!Doc[i] PROVE Full(o)'
    BY <1>1
  <2> QED BY <1>2, <1>3, FullKept
<1> QED BY <1>1, <1>2, <1>3, <1>4

(* To put an entry that is in the list changes nothing.                     *)
LEMMA PutAgain ==
  ASSUME NEW l \in Seq(L!Entries), NEW new \in Seq(L!Entries), NEW e \in ListEntries,
         PutsOn(l, e, L!DictKey(e.key), new), EntryIn(l, e)
  PROVE  new = l
<1> DEFINE k == L!DictKey(e.key)
<1>1. /\ \E i \in DOMAIN l : l[i].at = k
      /\ \A i \in DOMAIN l : l[i].at = k /\ e.v \in Values => l[i].v = e.v
  BY DEF EntryIn
<1> HIDE DEF k
<1>2. /\ Len(new) = Len(l)
      /\ \A i \in DOMAIN l : new[i].at = l[i].at /\ new[i].key = l[i].key /\ new[i].v = l[i].v
  BY <1>1 DEF PutsOn, k
<1>3. DOMAIN l = 1..Len(l) /\ DOMAIN new = 1..Len(new)
  OBVIOUS
<1>4. \A i \in DOMAIN l : l[i] \in L!Entries /\ new[i] \in L!Entries
  BY <1>2, <1>3
<1>5. \A i \in DOMAIN l : new[i] = l[i]
  BY <1>2, <1>4 DEF L!Entries
<1> QED BY <1>2, <1>5, SeqEqual

(* No step changes a tree that has the document.                            *)
LEMMA AgainStep ==
  ASSUME LoadTypes, AgainFull, L!Step
  PROVE  AgainFull'
<1> SUFFICES ASSUME NEW m, m = L!Member PROVE AgainFull'
  OBVIOUS
<1> DEFINE AllFull == Again /\ \A i \in DOMAIN L!Doc : Full(L!Doc[i])
<1>1. ASSUME NEW n, L!At(n), AllFull PROVE Full(m) /\ m.n = n /\ ~L!Overwrite /\ m \in L!Members
  BY <1>1, AtFacts DEF Again
<1>2. ASSUME NEW n, L!At(n), Moves \/ Parts \/ Raises, AllFull => tree' = tree \/ Raises
      PROVE  AgainFull'
  <2>1. SameLoad /\ load.out = "running"
    BY <1>2, AtFacts DEF Moves, Parts, Raises
  <2>2. Raises => load'.out = "raised"
    BY DEF Raises
  <2> QED BY <1>2, <2>1, <2>2, AgainKept
<1> HIDE DEF AllFull
<1>3. CASE L!LoadUnknown
  BY <1>2, <1>3, UnknownStep
<1>4. CASE L!LoadLeaf
  <2>1. /\ L!At("leaf") /\ (Raises \/ Moves)
        /\ Raises \/ (tree.leaf = m.v => tree' = tree)
    BY <1>4, LeafStep
  <2>2. AllFull => tree.leaf = m.v
    BY <1>1, <2>1 DEF Full
  <2> QED BY <1>2, <2>1, <2>2
<1>5. CASE L!LoadContainer
  <2>1. /\ L!At("box") /\ (Raises \/ Moves)
        /\ \/ Raises
           \/ ~L!Overwrite /\ tree.box.present /\ (m.v # <<>> => tree.box.in = m.v[1]) => tree' = tree
    BY <1>5, BoxStep
  <2>2. AllFull => ~L!Overwrite /\ tree.box.present /\ (m.v # <<>> => tree.box.in = m.v[1])
    BY <1>1, <2>1 DEF Full
  <2> QED BY <1>2, <2>1, <2>2
<1>6. CASE L!SetLeafList
  <2>1. /\ L!At("leaflist") /\ (Raises \/ Moves) /\ L!SetsWhole
        /\ \/ Raises
           \/ L!Fmt = "ietf" /\ m.v = <<>> /\ tree' = tree
           \/ tree.leaflist = L!CollectedAll(m.v) => tree' = tree
    BY <1>6, WholeStep
  <2>2. AllFull => tree.leaflist = L!CollectedAll(m.v) \/ m.v = <<>>
    BY <1>1, <2>1 DEF Full, L!SetsWhole
  <2>3. ASSUME AllFull, m.v = <<>>, ~Raises PROVE tree' = tree
    <3>1. ~L!Overwrite
      BY <1>1, <2>1, <2>3
    <3>2. L!Fmt = "ietf"
      BY <2>1, <3>1 DEF L!SetsWhole
    <3> QED BY <1>6, <2>3, <3>2 DEF L!SetLeafList, L!TreeBecomes
  <2> QED BY <1>2, <2>1, <2>2, <2>3
<1>7. CASE L!LoadItem
  <2>1. /\ L!At("leaflist") /\ (Raises \/ Parts)
        /\ load.part + 1 \in DOMAIN m.v
        /\ Raises \/ (L!Has(tree.leaflist, m.v[load.part + 1]) => tree' = tree)
    BY <1>7, ItemStep
  <2>2. ASSUME AllFull PROVE L!Has(tree.leaflist, m.v[load.part + 1])
    <3>1. m.n = "leaflist" /\ Full(m) /\ m \in L!Members
      BY <1>1, <2>1, <2>2
    <3>2. L!ToSet(m.v) \subseteq Natives
      BY <2>2, <3>1 DEF AllFull, Again, L!OfTheType
    <3>3. m.v[load.part + 1] \in Natives
      BY <2>1, <3>2 DEF L!ToSet
    <3>4. Native[m.v[load.part + 1]] = m.v[load.part + 1]
      BY <3>3, PassedAssumption
    <3> QED BY <2>1, <3>1, <3>4 DEF Full
  <2> QED BY <1>2, <2>1, <2>2
<1>8. CASE L!EndLeafList
  <2>1. /\ L!At("leaflist") /\ Moves
        /\ IF L!Fmt = "json"
           THEN (\A i \in DOMAIN tree.leaflist : tree.leaflist[i] \in L!ToSet(m.v)) => tree' = tree
           ELSE tree' = tree
    BY <1>8, EndItemsStep
  <2>2. AllFull /\ L!Fmt = "json" => \A i \in DOMAIN tree.leaflist : tree.leaflist[i] \in L!ToSet(m.v)
    BY <1>1, <2>1 DEF Full
  <2> QED BY <1>2, <2>1, <2>2
<1>9. CASE L!LoadEntry
  <2> SUFFICES ASSUME NEW e, e = L!ByOrder(m.v)[load.part + 1] PROVE AgainFull'
    OBVIOUS
  <2>1. /\ L!At("list") /\ Changes("list") /\ e \in ListEntries /\ \E i \in DOMAIN m.v : e = m.v[i]
        /\ Raises \/ (Parts /\ \E l : Put1(l, e))
    BY <1>9, EntryStep
  <2>2. ASSUME AllFull, ~Raises PROVE tree' = tree
    <3>1. EntryIn(tree.list, e) /\ ~L!Overwrite
      BY <1>1, <2>1, <2>2 DEF Full
    <3>2. /\ tree.list \in Seq(L!Entries) /\ tree'.list \in Seq(L!Entries)
          /\ PutsOn(tree.list, e, L!DictKey(e.key), tree'.list)
      BY <2>1, <2>2, <3>1 DEF Put1, L!Purge, Changes, Trees
    <3>3. tree'.list = tree.list
      BY <2>1, <3>1, <3>2, PutAgain
    <3>4. tree \in Trees /\ tree' \in Trees
      BY <2>1 DEF LoadTypes, Changes
    <3> QED BY <2>1, <3>3, <3>4 DEF Changes, Children, Trees
  <2> QED BY <1>2, <2>1, <2>2
<1>10. CASE L!EndList
  <2>1. /\ L!At("list") /\ (Raises \/ Moves)
        /\ L!Overwrite \/ (L!Emptied /\ tree'.list = <<>>) \/ tree'.list = tree.list
        /\ tree'.list = tree.list => tree' = tree
    BY <1>10, EndEntriesStep
  <2>2. AllFull /\ L!Emptied => tree.list = <<>>
    BY <1>1, <2>1 DEF Full, L!Emptied
  <2>3. AllFull => ~L!Overwrite
    BY <1>1, <2>1
  <2> QED BY <1>2, <2>1, <2>2, <2>3
<1>11. CASE L!Finish
  BY <1>11, FinishStep, AgainKept DEF Ends
<1> QED BY <1>3, <1>4, <1>5, <1>6, <1>7, <1>8, <1>9, <1>10, <1>11 DEF L!Step

(* A load that ended has left such a tree, if it loses nothing.             *)
LEMMA AgainBegin ==
  ASSUME LoadTypes, Progress, NEW d \in DOMAIN Documents, NEW flags \in L!Flags, L!Begin(d, flags)
  PROVE  AgainFull'
<1> SUFFICES ASSUME Again'
             PROVE  tree' = load'.before /\ \A i \in DOMAIN L!Doc' : Full(L!Doc[i])'
  BY DEF AgainFull
<1>1. /\ load.out = "done" /\ load'.doc = load.doc /\ load'.flags = load.flags
      /\ tree' = tree /\ load'.before = tree
  BY BeginsAtOnce DEF Again
<1>2. /\ L!Doc' = L!Doc /\ L!Members' = L!Members /\ L!Fmt' = L!Fmt /\ L!Overwrite' = L!Overwrite
  BY <1>1 DEF L!Doc, L!Members, L!Fmt, L!Overwrite
<1>3. \A k : L!DictKey(k)' = L!DictKey(k)
  BY <1>2 DEF L!DictKey
<1>4. ~L!Overwrite /\ L!OfTheType /\ L!NumbersOnce
  BY <1>2 DEF Again, L!OfTheType, L!NumbersOnce
<1>5. ASSUME NEW i \in DOMAIN L!Doc PROVE Full(L!Doc[i])'
  <2> SUFFICES ASSUME NEW o, o = L!Doc[i] PROVE Full(o)'
    BY <1>2
  <2>1. Losing(o) \/ Full(o)
    <3>1. i \in 1..(load.member - 1)
      <4>1. DOMAIN L!Doc = 1..Len(L!Doc) /\ Len(L!Doc) \in Nat
        BY DocFacts DEF LoadTypes, Loads, L!Doc
      <4> QED BY <1>1, <4>1 DEF Progress
    <3> QED BY <1>1, <3>1 DEF Progress
  <2>2. ~Losing(o)
    <3>1. o \in L!Members
      BY DEF L!Members
    <3>2. ~L!LosesValues(o)
      BY <1>4, <3>1 DEF L!LosesValues, L!OfTheType
    <3>3. ~L!LosesEntries(o)
      <4>1. o.n = "list" => L!Taken(o.v, load.fresh) = DOMAIN o.v
        <5> SUFFICES ASSUME o.n = "list", NEW a \in DOMAIN o.v, L!HasNumber(o.v[a], load.fresh),
                            NEW b \in DOMAIN o.v, o.v[b].order = o.v[a].order
                     PROVE  b <= a
          BY DEF L!Taken
        <5>1. b = a
          BY <1>4, <3>1 DEF L!NumbersOnce, L!HasNumber
        <5>2. a \in Nat
          BY DocFacts DEF LoadTypes, Loads, L!Doc, IsMember
        <5> QED BY <5>1, <5>2
      <4> QED BY <1>4, <4>1 DEF L!LosesEntries, L!Purge
    <3> QED BY <3>2, <3>3 DEF Losing
  <2>3. Full(o)
    BY <2>1, <2>2
  <2>4. o.n = "list" => \A a \in DOMAIN o.v : EntryIn(tree.list, o.v[a])'
    BY <1>1, <1>3, <2>3 DEF Full, EntryIn
  <2> QED BY <1>1, <1>2, <2>3, <2>4 DEF Full
<1> QED BY <1>1, <1>2, <1>5

-----------------------------------------------------------------------------
(* The order of a loaded list                                              *)

(* The list has the first n of the entries es.                              *)
Filled(l, es, n) ==
  /\ Len(l) = n /\ n <= Len(es)
  /\ \A k \in 1..n : l[k].key = es[k].key /\ l[k].at = es[k].key

(* The entries of a list that was empty are those gone through.             *)
InOrder ==
  L!Fmt = "json" /\ load.before.list = <<>> /\ load.out \in {"running", "done"} =>
    \A i \in DOMAIN L!Doc : L!Doc[i].n = "list" /\ i <= load.member =>
      Filled(tree.list, L!ByOrder(L!Doc[i].v),
             IF i = load.member THEN load.part ELSE Len(L!ByOrder(L!Doc[i].v)))

(* Before the list is come to, and between its entries.                     *)
LEMMA FilledPut ==
  ASSUME NEW l \in Seq(L!Entries), NEW es \in Seq(ListEntries), NEW n \in Nat, n + 1 <= Len(es),
         Filled(l, es, n), NEW new \in Seq(L!Entries), L!Fmt = "json",
         \A i, j \in 1..Len(es) : es[i].key = es[j].key => i = j,
         PutsOn(l, es[n + 1], L!DictKey(es[n + 1].key), new)
  PROVE  Filled(new, es, n + 1)
<1> DEFINE e == es[n + 1]
           k == L!DictKey(e.key)
<1>1. k = e.key
  BY DEF L!DictKey
<1>2. /\ DOMAIN l = 1..n /\ Len(l) = n /\ Len(es) \in Nat /\ n + 1 \in 1..Len(es)
      /\ \A i \in 1..n : i \in 1..Len(es) /\ i # n + 1
  BY DEF Filled
<1>3. \A i \in DOMAIN l : l[i].at # k
  BY <1>1, <1>2 DEF Filled
<1> HIDE DEF k, e
<1>4. Len(new) = n + 1 /\ new[n + 1].at = e.key /\ new[n + 1].key = e.key
  BY <1>1, <1>2, <1>3 DEF PutsOn, k, e
<1>5. \A i \in 1..n : new[i].at = l[i].at /\ new[i].key = l[i].key
  BY <1>2 DEF PutsOn
<1>6. \A i \in 1..(n + 1) : i \in 1..n \/ i = n + 1
  OBVIOUS
<1> QED BY <1>4, <1>5, <1>6 DEF Filled, e

(* A list that was empty is filled entry by entry.                          *)
LEMMA OrderStep ==
  ASSUME LoadTypes, L!RestKept, InOrder, L!Step
  PROVE  InOrder'
<1> SUFFICES ASSUME L!Fmt' = "json", load'.before.list = <<>>, load'.out \in {"running", "done"},
                    NEW i \in DOMAIN L!Doc', L!Doc'[i].n = "list", i <= load'.member,
                    NEW es, es = L!ByOrder(L!Doc[i].v)'
             PROVE  Filled(tree'.list, es, IF i = load'.member THEN load'.part ELSE Len(es))
  BY DEF InOrder
<1>1. SameLoad
  BY StepAt DEF Ends, Moves, Parts, Raises
<1>2. L!Fmt = "json" /\ L!Doc' = L!Doc /\ load.before = load'.before
  BY <1>1, SameDocument DEF SameLoad
<1> SUFFICES ASSUME NEW m, m = L!Doc[i]
             PROVE  Filled(tree'.list, es, IF i = load'.member THEN load'.part ELSE Len(es))
  OBVIOUS
<1>3. /\ es = L!ByOrder(m.v) /\ m.n = "list" /\ IsMember(m)
      /\ i \in Nat /\ Len(L!Doc) \in Nat /\ DOMAIN L!Doc = 1..Len(L!Doc)
  BY <1>1, <1>2, SameDocument, DocFacts DEF LoadTypes, Loads, L!Doc
<1>4. /\ es \in Seq(ListEntries) /\ Len(es) \in Nat
      /\ \A a, b \in 1..Len(es) : es[a].key = es[b].key => a = b
      /\ \A n \in 1..Len(es) : \E a \in DOMAIN m.v : es[n] = m.v[a]
  <2>1. m.v \in Seq(ListEntries) /\ load \in Loads
    BY <1>3 DEF IsMember, LoadTypes
  <2>2. \A a, b \in DOMAIN m.v : m.v[a].key = m.v[b].key => a = b
    BY <1>2, <1>3, DocFacts DEF LoadTypes, Loads, L!Doc
  <2> QED BY <1>3, <2>1, <2>2, ByOrderFacts
<1>5. load.out = "running" \/ load'.out = load.out
  BY StepAt, AtFacts
<1>6. ASSUME i <= load.member, load.out = "running"
      PROVE  Filled(tree.list, es, IF i = load.member THEN load.part ELSE Len(es))
  BY <1>2, <1>3, <1>6 DEF InOrder
<1>7. CASE Ends /\ tree' = tree /\ load.out = "running"
  BY <1>6, <1>7 DEF Ends
<1>8. ASSUME NEW n, L!At(n), Changes(n), Moves \/ Parts
      PROVE  Filled(tree'.list, es, IF i = load'.member THEN load'.part ELSE Len(es))
  <2>1. /\ load.out = "running" /\ load.member \in DOMAIN L!Doc /\ L!Doc[load.member].n = n
        /\ load.member \in Nat /\ load.part \in Nat
    BY <1>8, AtFacts DEF LoadTypes, Loads
  <2>2. CASE n # "list"
    <3>1. i # load.member /\ tree'.list = tree.list
      BY <1>3, <1>8, <2>1, <2>2 DEF Changes, Children
    <3>2. CASE i < load.member
      <4>1. i # load'.member
        BY <1>3, <1>8, <2>1, <3>2 DEF Moves, Parts
      <4>2. Filled(tree.list, es, Len(es))
        BY <1>3, <1>6, <2>1, <3>1, <3>2
      <4> QED BY <3>1, <4>1, <4>2
    <3>3. CASE ~(i < load.member)
      <4>1. Moves /\ i = load.member + 1
        BY <1>3, <1>8, <2>1, <3>1, <3>3 DEF Moves, Parts
      <4>2. "list" \in L!Unreached
        <5> SUFFICES ASSUME NEW j \in DOMAIN L!Doc, j <= load.member, L!Doc[j].n = "list"
                     PROVE  FALSE
          BY DEF L!Unreached, L!Names
        <5>1. j = i
          BY <1>2, <1>3, DocFacts DEF LoadTypes, Loads, L!Doc
        <5> QED BY <2>1, <4>1, <5>1
      <4>3. tree.list = <<>>
        BY <1>2, <4>2 DEF L!RestKept
      <4>4. load'.member = i /\ load'.part = 0
        BY <4>1 DEF Moves
      <4>5. Len(<<>>) = 0 /\ 1..0 = {}
        OBVIOUS
      <4> QED BY <1>4, <3>1, <4>3, <4>4, <4>5 DEF Filled
    <3> QED BY <3>2, <3>3
  <2>3. CASE n = "list"
    <3>1. i = load.member
      BY <1>2, <1>3, <2>1, <2>3, DocFacts DEF LoadTypes, Loads, L!Doc
    <3>2. m = L!Member /\ Filled(tree.list, es, load.part)
      BY <1>3, <1>6, <2>1, <3>1, AtFacts, <1>8
    <3>3. tree.list \in Seq(L!Entries) /\ tree'.list \in Seq(L!Entries)
      BY <1>8 DEF LoadTypes, Changes, Trees
    <3>4. L!LoadEntry \/ L!EndList
      <4>1. ~L!At("leaf") /\ ~L!At("box") /\ ~L!At("leaflist") /\ ~L!At("unknown")
        BY <1>8, <2>3 DEF L!At
      <4>2. ~L!Finish
        BY <1>8, <2>1 DEF L!Finish, L!At, Moves, Parts, L!Doc
      <4> QED BY <4>1, <4>2 DEF L!Step, L!LoadLeaf, L!LoadContainer, L!SetLeafList, L!LoadItem, L!EndLeafList, L!LoadUnknown
    <3>5. CASE L!LoadEntry
      <4> SUFFICES ASSUME NEW e, e = es[load.part + 1]
                   PROVE  Filled(tree'.list, es, IF i = load'.member THEN load'.part ELSE Len(es))
        OBVIOUS
      <4>1. load.part + 1 \in 1..Len(es) /\ (Raises \/ (Parts /\ \E l : Put1(l, e)))
        BY <1>3, <3>2, <3>5, EntryStep
      <4>2. Parts /\ \E l : Put1(l, e)
        BY <1>8, <2>1, <4>1 DEF Moves, Parts, Raises
      <4>3. PutsOn(tree.list, e, L!DictKey(e.key), tree'.list)
        BY <1>2, <4>2 DEF Put1, L!Purge
      <4>4. load.part + 1 <= Len(es)
        BY <1>4, <2>1, <4>1
      <4>5. Filled(tree'.list, es, load.part + 1)
        <5> SUFFICES ASSUME NEW l, l = tree.list, NEW new, new = tree'.list, NEW p, p = load.part
                     PROVE  Filled(new, es, p + 1)
          OBVIOUS
        <5> QED BY <1>2, <1>4, <2>1, <3>2, <3>3, <4>3, <4>4, FilledPut
      <4> QED BY <3>1, <4>2, <4>5 DEF Parts
    <3>6. CASE L!EndList
      <4>1. /\ load.part = Len(es)
            /\ \/ Raises
               \/ Moves /\ tree'.list = IF L!Emptied THEN <<>> ELSE tree.list
               \/ Moves /\ \E a \in L!Strange(m.v) : TRUE
        BY <1>3, <3>2, <3>6, EndEntriesStep
      <4>2. L!Strange(m.v) = {}
        <5> SUFFICES ASSUME NEW a \in DOMAIN tree.list,
                            tree.list[a].at \notin {m.v[j].key : j \in DOMAIN m.v}
                     PROVE  FALSE
          BY DEF L!Strange
        <5>1. a \in 1..Len(es)
          BY <3>2, <3>3, <4>1 DEF Filled
        <5>2. tree.list[a].at = es[a].key
          BY <3>2, <4>1, <5>1 DEF Filled
        <5> QED BY <1>4, <5>1, <5>2
      <4>3. Moves /\ tree'.list = tree.list
        <5>1. Moves /\ tree'.list = IF L!Emptied THEN <<>> ELSE tree.list
          BY <1>8, <2>1, <4>1, <4>2 DEF Moves, Parts, Raises
        <5>2. L!Emptied => Len(tree.list) = 0
          BY <1>4, <3>2, <4>1 DEF L!Emptied, Filled
        <5> QED BY <3>3, <5>1, <5>2
      <4>4. i # load'.member
        BY <1>3, <3>1, <4>3 DEF Moves
      <4> QED BY <3>2, <4>1, <4>3, <4>4
    <3> QED BY <3>4, <3>5, <3>6
  <2> QED BY <2>2, <2>3
<1> QED BY <1>7, <1>8, StepAt DEF Raises

(* It has none when the load begins.                                        *)
LEMMA OrderBegin ==
  ASSUME LoadTypes, NEW d \in DOMAIN Documents, NEW flags \in L!Flags, L!Begin(d, flags)
  PROVE  InOrder'
<1> SUFFICES ASSUME load'.before.list = <<>>, NEW i \in DOMAIN L!Doc', i <= load'.member,
                    L!Doc'[i].n = "list", NEW es, es = L!ByOrder(L!Doc[i].v)'
             PROVE  Filled(tree'.list, es, IF i = load'.member THEN load'.part ELSE Len(es))
  BY DEF InOrder
<1>1. load'.member = 1 /\ load'.part = 0 /\ tree'.list = <<>> /\ load'.doc = d /\ LoadTypes'
  BY BeginsAtOnce, TypesBegin
<1>2. L!Doc' = Documents[d] /\ i = 1
  <2>1. L!Doc' = Documents[d]
    BY <1>1 DEF L!Doc
  <2> QED BY <1>1, <2>1, DocFacts
<1> SUFFICES ASSUME NEW v, v = Documents[d][i].v, es = L!ByOrder(v)'
             PROVE  Filled(<<>>, es, 0)
  BY <1>1, <1>2
<1>3. Len(es) \in Nat
  <2>1. v \in Seq(ListEntries) /\ load'.fresh \in BOOLEAN
    BY <1>1, <1>2, DocFacts DEF IsMember, LoadTypes, Loads
  <2>2. CASE L!ByOrder(v)' = v
    BY <2>1, <2>2
  <2>3. CASE L!ByOrder(v)' = L!Sorted(v, load'.fresh)
    BY <2>1, <2>3, SortedFacts
  <2> QED BY <2>2, <2>3 DEF L!ByOrder
<1>4. Len(<<>>) = 0 /\ 1..0 = {}
  OBVIOUS
<1> QED BY <1>3, <1>4 DEF Filled

(* The order of the entries gone through is that of their numbers.          *)
LEMMA OrderFollows ==
  ASSUME LoadTypes, Progress, InOrder
  PROVE  L!OrderRestored
<1> SUFFICES ASSUME load.out = "done", L!Fmt = "json", Ordered, load.fresh, load.before.list = <<>>,
                    NEW m \in L!Members, m.n = "list",
                    NEW a \in L!Taken(m.v, TRUE), NEW b \in L!Taken(m.v, TRUE),
                    L!HasNumber(m.v[a], TRUE), L!HasNumber(m.v[b], TRUE), m.v[a].order < m.v[b].order
             PROVE  \E i, j \in DOMAIN tree.list :
                      i < j /\ tree.list[i].key = m.v[a].key /\ tree.list[j].key = m.v[b].key
  BY DEF L!OrderRestored, L!Done
<1>1. PICK i \in DOMAIN L!Doc : m = L!Doc[i]
  BY DEF L!Members
<1>2. /\ i <= load.member /\ i # load.member /\ m.v \in Seq(ListEntries)
  <2>1. IsMember(m) /\ DOMAIN L!Doc = 1..Len(L!Doc) /\ Len(L!Doc) \in Nat
    BY <1>1, DocFacts DEF LoadTypes, Loads, L!Doc
  <2> QED BY <2>1 DEF Progress, IsMember
<1> DEFINE st == L!Sorted(m.v, TRUE)
           T == L!Taken(m.v, TRUE)
<1>3. load.fresh = TRUE
  BY DEF LoadTypes, Loads
<1>4. L!ByOrder(m.v) = st
  BY <1>3 DEF L!ByOrder
<1>5. Filled(tree.list, st, Len(st))
  BY <1>1, <1>2, <1>4 DEF InOrder
<1>6. /\ Len(st) \in Nat
      /\ \E p : /\ Arranges(p, m.v, T, st)
                /\ \A x, y \in 1..Len(st) : L!Before(m.v, TRUE, p[x], p[y]) => x < y
  BY <1>2, SortedFacts
<1>7. L!Before(m.v, TRUE, a, b)
  BY DEF L!Before
<1>8. tree.list \in Seq(L!Entries)
  BY DEF LoadTypes, Trees
<1> HIDE DEF st, T
<1>9. PICK p : /\ Arranges(p, m.v, T, st)
               /\ \A x, y \in 1..Len(st) : L!Before(m.v, TRUE, p[x], p[y]) => x < y
  BY <1>6
<1>10. PICK x \in 1..Len(st) : p[x] = a
  BY <1>9 DEF Arranges, T
<1>11. PICK y \in 1..Len(st) : p[y] = b
  BY <1>9 DEF Arranges, T
<1>12. x < y
  BY <1>7, <1>9, <1>10, <1>11
<1>13. st[x] = m.v[a] /\ st[y] = m.v[b]
  BY <1>9, <1>10, <1>11 DEF Arranges
<1>14. /\ x \in DOMAIN tree.list /\ y \in DOMAIN tree.list
       /\ tree.list[x].key = st[x].key /\ tree.list[y].key = st[y].key
  BY <1>5, <1>8 DEF Filled
<1> QED BY <1>12, <1>13, <1>14

-----------------------------------------------------------------------------
(* The loaders' invariant                                                  *)

LoadInv ==
  /\ LoadTypes
  /\ Apart(tree.list)
  /\ L!RestKept /\ KeysKept
  /\ L!GoodDocumentsLoad
  /\ Progress
  /\ AgainFull
  /\ InOrder

(* Before the first load,                                                   *)
LEMMA LoadInit == ASSUME L!Init PROVE LoadInv
<1>1. /\ tree = L!Empty /\ load.before = L!Empty /\ load.out = "none"
      /\ ~load.again /\ load.flags.overwrite = FALSE
  BY DEF L!Init
<1>2. tree.list = <<>> /\ DOMAIN <<>> = {}
  BY <1>1 DEF L!Empty
<1>3. Apart(tree.list)
  BY <1>2 DEF Apart
<1>4. L!RestKept /\ KeysKept
  BY <1>1, <1>2 DEF L!RestKept, KeysKept, KeysAll, L!EntriesKept
<1>5. L!GoodDocumentsLoad /\ Progress /\ AgainFull /\ InOrder
  BY <1>1 DEF L!GoodDocumentsLoad, Progress, AgainFull, Again, InOrder
<1> QED BY <1>3, <1>4, <1>5, TypesInit DEF LoadInv

(* and with each step,                                                      *)
LEMMA LoadKept ==
  ASSUME LoadInv, L!Next
  PROVE  LoadInv'
<1>1. CASE L!Step
  <2>1. Progress'
    BY <1>1, ItemProgress, MemberProgress, EntryProgress, EndEntriesProgress, EndProgress
       DEF LoadInv, L!Step
  <2>2. Apart(tree.list)'
    BY <1>1, ApartStep DEF LoadInv
  <2> QED BY <1>1, <2>1, <2>2, TypesStep, RestStep, GoodStep, AgainStep, OrderStep DEF LoadInv
<1>2. ASSUME NEW d \in DOMAIN Documents, NEW flags \in L!Flags, L!Begin(d, flags)
      PROVE  LoadInv'
  <2>1. tree' = tree /\ load'.before = tree /\ load'.out = "running"
    BY <1>2, BeginsAtOnce
  <2>2. Apart(tree.list)'
    BY <2>1 DEF LoadInv
  <2>3. L!RestKept' /\ KeysKept'
    BY <2>1 DEF L!RestKept, KeysKept, KeysAll, L!EntriesKept
  <2>4. L!GoodDocumentsLoad'
    BY <2>1 DEF L!GoodDocumentsLoad
  <2> QED BY <1>2, <2>2, <2>3, <2>4, TypesBegin, BeginProgress, AgainBegin, OrderBegin DEF LoadInv
<1> QED BY <1>1, <1>2 DEF L!Next

(* and while another program runs,                                          *)
LEMMA LoadStutter ==
  ASSUME LoadInv, UNCHANGED lvars
  PROVE  LoadInv'
<1>1. tree' = tree /\ load' = load /\ loads' = loads
  BY DEF lvars
<1>2. /\ L!Doc' = L!Doc /\ L!Members' = L!Members /\ L!Fmt' = L!Fmt /\ L!Overwrite' = L!Overwrite
      /\ L!Member' = L!Member /\ L!SetsWhole' = L!SetsWhole /\ L!Purge' = L!Purge
  BY <1>1 DEF L!Doc, L!Members, L!Fmt, L!Overwrite, L!Member, L!SetsWhole, L!Purge
<1>3. \A es : L!ByOrder(es)' = L!ByOrder(es)
  BY <1>1, <1>2 DEF L!ByOrder
<1>4. \A k : L!DictKey(k)' = L!DictKey(k)
  BY <1>2 DEF L!DictKey
<1>5. LoadTypes' /\ Apart(tree.list)'
  BY <1>1, <1>2 DEF LoadInv, LoadTypes
<1>6. L!RestKept' /\ KeysKept'
  <2>1. L!EntriesKept' <=> L!EntriesKept
    BY <1>1, <1>2, KeptMeans
  <2>2. L!Unreached' = L!Unreached
    BY <1>1, <1>2 DEF L!Unreached
  <2>3. L!GivenEmpty' = L!GivenEmpty
    BY <1>2 DEF L!GivenEmpty
  <2> QED BY <1>1, <1>2, <2>1, <2>2, <2>3 DEF LoadInv, L!RestKept, KeysKept, GoneAll
<1>7. L!GoodDocumentsLoad'
  BY <1>1, <1>2 DEF LoadInv, L!GoodDocumentsLoad
<1>8. ASSUME NEW m PROVE (Full(m)' <=> Full(m)) /\ (Losing(m)' <=> Losing(m)) /\ (Partly(m)' <=> Partly(m))
  <2>1. \A e : EntryIn(tree.list, e)' <=> EntryIn(tree.list, e)
    BY <1>1, <1>4 DEF EntryIn
  <2>2. Full(m)' <=> Full(m)
    BY <1>1, <1>2, <2>1 DEF Full
  <2>3. Partly(m)' <=> Partly(m)
    BY <1>1, <1>2, <1>3, <2>1 DEF Partly
  <2>4. Losing(m)' <=> Losing(m)
    BY <1>1, <1>2 DEF Losing, L!LosesValues, L!LosesEntries
  <2> QED BY <2>2, <2>3, <2>4
<1>9. Progress'
  <2>1. ASSUME NEW i PROVE /\ Full(L!Doc[i])' <=> Full(L!Doc[i])
                           /\ Losing(L!Doc[i])' <=> Losing(L!Doc[i])
    <3> SUFFICES ASSUME NEW m, m = L!Doc[i]
                 PROVE (Full(m)' <=> Full(m)) /\ (Losing(m)' <=> Losing(m))
      BY <1>2
    <3> QED BY <1>8
  <2>2. (Losing(L!Member)' <=> Losing(L!Member)) /\ (Partly(L!Member)' <=> Partly(L!Member))
    <3> SUFFICES ASSUME NEW m, m = L!Member
                 PROVE (Partly(m)' <=> Partly(m)) /\ (Losing(m)' <=> Losing(m))
      BY <1>2
    <3> QED BY <1>8
  <2> QED BY <1>1, <1>2, <2>1, <2>2 DEF LoadInv, Progress
<1>10. AgainFull'
  <2>1. ASSUME NEW i PROVE Full(L!Doc[i])' <=> Full(L!Doc[i])
    <3> SUFFICES ASSUME NEW m, m = L!Doc[i] PROVE Full(m)' <=> Full(m)
      BY <1>2
    <3> QED BY <1>8
  <2>2. Again' <=> Again
    BY <1>1, <1>2 DEF Again, L!OfTheType, L!NumbersOnce
  <2> QED BY <1>1, <1>2, <2>1, <2>2 DEF LoadInv, AgainFull
<1>11. InOrder'
  <2>1. \A i : L!ByOrder(L!Doc[i].v)' = L!ByOrder(L!Doc[i].v)
    BY <1>2, <1>3
  <2> QED BY <1>1, <1>2, <2>1 DEF LoadInv, InOrder
<1> QED BY <1>5, <1>6, <1>7, <1>9, <1>10, <1>11 DEF LoadInv

(* so that it holds of all programs.                                        *)
LEMMA ProgramLoads ==
  ASSUME program = "load" => LoadInv, [ProgramNext]_<<vars, rvars, lvars, fvars, program>>
  PROVE  program' = "load" => LoadInv'
<1>1. CASE UNCHANGED lvars /\ program' = program
  BY <1>1, LoadStutter
<1>2. CASE program = "load" /\ L!Next
  BY <1>2, LoadKept
<1> QED BY <1>1, <1>2 DEF ProgramNext

(* The loaders' invariant holds in every reachable state.                   *)
THEOREM LoadsKeep == ProgramSpec => [](program = "load" => LoadInv)
<1>1. ProgramInit => (program = "load" => LoadInv)
  BY LoadInit DEF ProgramInit
<1>2. (program = "load" => LoadInv) /\ [ProgramNext]_<<vars, rvars, lvars, fvars, program>>
        => (program = "load" => LoadInv)'
  BY ProgramLoads
<1> QED BY <1>1, <1>2, PTL DEF ProgramSpec

(* A load that ends has loaded each member of the document, in whatever      *)
(* order they are and whatever the tree held, but for the values load_json    *)
(* removes again, the entries load_ietf_json has deleted, and the entries     *)
(* whose number another has (lib/serialise.py).                             *)
THEOREM LoadedAsGiven == ProgramSpec => []MostLoaded
<1>1. (program = "load" => LoadInv) => MostLoaded
  BY ProgressLoads DEF LoadInv, MostLoaded
<1> QED BY LoadsKeep, <1>1, PTL

(* At each step of a load, also one that raises half way, what the document   *)
(* does not name, and what has not been come to, is as it was; without        *)
(* `overwrite` every entry is still there, with its key's position.           *)
THEOREM RestSpared == ProgramSpec => []RestKept
<1>1. (program = "load" => LoadInv) => RestKept
  BY DEF LoadInv, RestKept
<1> QED BY LoadsKeep, <1>1, PTL

(* A load raises only for a name or a value the bindings do not take, or a    *)
(* list with `overwrite`.                                                    *)
THEOREM GoodOnesLoad == ProgramSpec => []GoodDocumentsLoad
<1>1. (program = "load" => LoadInv) => GoodDocumentsLoad
  BY DEF LoadInv, GoodDocumentsLoad
<1> QED BY LoadsKeep, <1>1, PTL

(* A document loaded twice in a row leaves what the first load made, for      *)
(* every document whose values are of their types and numbers given once.     *)
THEOREM LoadedOnceOrTwice == ProgramSpec => []ReloadChangesNothing
<1>1. LoadInv => L!ReloadChangesNothing
  BY DEF LoadInv, AgainFull, Again, L!ReloadChangesNothing, L!Done
<1>2. (program = "load" => LoadInv) => ReloadChangesNothing
  BY <1>1 DEF ReloadChangesNothing
<1> QED BY LoadsKeep, <1>2, PTL

(* What load_json makes of an empty list stands in the order of the numbers.  *)
THEOREM OrderKept == ProgramSpec => []OrderRestored
<1>1. (program = "load" => LoadInv) => OrderRestored
  BY OrderFollows DEF LoadInv, OrderRestored
<1> QED BY LoadsKeep, <1>1, PTL

-----------------------------------------------------------------------------
(* Types                                                                   *)

(* An object of a restricted type.                                          *)
LEMMA RestrictedTypes ==
  ASSUME RestrictedInv, DOMAIN attr = R!Classes
  PROVE  R!TypeOK
<1>1. /\ Len(R!Chain) \in Nat \ {0} /\ R!Classes = 1..Len(R!Chain)
  BY ChainType DEF RestrictedInv, Bases
<1>2. /\ type \in DOMAIN Chains /\ input \in Inputs /\ making \in Seq(R!Classes) /\ making # <<>>
      /\ level \in 0..R!Class /\ making[Len(making)] = R!Class
      /\ verdict \in {"open", "accepted", "refused"}
  BY DEF RestrictedInv, Bases
<1>3. R!Class \in R!Classes
  <2>1. Len(making) \in DOMAIN making
    BY <1>2, EmptySeq, LenProperties
  <2> QED BY <1>2, <2>1
<1>4. level \in 0..Len(R!Chain)
  BY <1>1, <1>2, <1>3
<1> QED BY <1>2, <1>4 DEF R!TypeOK

(* Each class keeps its attribute.                                          *)
LEMMA AttributeKept ==
  ASSUME RestrictedInv, DOMAIN attr = R!Classes, R!Next
  PROVE  DOMAIN attr' = R!Classes'
BY DEF R!Next, R!New, R!InitBase, R!Check, R!Classes, R!Chain

(* A tree and its load.                                                     *)
LEMMA LoadTypesHold == ASSUME LoadTypes PROVE L!TypeOK
BY DEF LoadTypes, Trees, Loads, L!TypeOK, L!Doc

(* The leaf-list, the object, the tree and the reference hold values of their *)
(* types, and the programs' positions are in range, whatever is called.      *)
THEOREM ValuesOfTheirTypes == ProgramSpec => []ValuesTypeOK
<1> DEFINE I == /\ IInv
                /\ program = "type" => RestrictedInv /\ DOMAIN attr = R!Classes
                /\ program = "load" => LoadInv
                /\ program = "refer" => ReferenceInv
<1>1. ProgramInit => I
  BY InitIInv, RestrictedInit, LoadInit, ReferenceInit DEF ProgramInit, R!Init
<1>2. I /\ [ProgramNext]_<<vars, rvars, lvars, fvars, program>> => I'
  <2> SUFFICES ASSUME I, [ProgramNext]_<<vars, rvars, lvars, fvars, program>> PROVE I'
    OBVIOUS
  <2>1. IInv'
    BY NextKeeps DEF ProgramNext
  <2>2. program' = "type" => RestrictedInv' /\ DOMAIN attr' = R!Classes'
    <3>1. CASE UNCHANGED rvars /\ program' = program
      BY <3>1, RestrictedStutter DEF rvars, R!Classes, R!Chain
    <3>2. CASE program = "type" /\ R!Next
      BY <3>2, NewKeeps, InitBaseKeeps, CheckKeeps, AttributeKept DEF R!Next
    <3> QED BY <3>1, <3>2 DEF ProgramNext
  <2> QED BY <2>1, <2>2, ProgramLoads, ReferenceSteps
<1>3. I => ValuesTypeOK
  BY RestrictedTypes, LoadTypesHold, ReferenceTypes DEF IInv, LoadInv, ValuesTypeOK
<1> QED BY <1>1, <1>2, <1>3, PTL DEF ProgramSpec
=============================================================================
