------------------------ MODULE ContainerTreeProofs ------------------------
(***************************************************************************)
(* What holds of the generated containers for every schema; and that            *)
(* ContainerTree implements ConfigTree for every schema that nests no choice   *)
(* of containers in another: what setters, copies and resets do to the data a  *)
(* program can reach is what ConfigTree says.                                *)
(***************************************************************************)
EXTENDS ContainerTreeImpl, DataLemmas, TLAPS

-----------------------------------------------------------------------------
(* The objects `_unset_` makes                                             *)

LEMMA ObjPair ==
  ASSUME NEW o \in Obj
  PROVE  /\ o[1] \in Containers
         /\ o[2] \in Gens
         /\ o = <<o[1], o[2]>>
BY DEF Obj

LEMMA GensNat == Gens \subseteq 0..MaxGen /\ 1 \in Gens
BY ValueAssumption DEF Gens

\* The subtrees of the nodes of es, which are elements of one container p.
LEMMA RebuiltClosed ==
  ASSUME NEW p \in Containers, NEW es \in SUBSET Elements(p)
  PROVE  /\ Rebuilt(es) \subseteq Containers \ {Root}
         /\ es \cap Containers \subseteq Rebuilt(es)
         /\ p \notin Rebuilt(es)
         /\ \A c \in Rebuilt(es) : \A k \in Kids(c) : k \in Rebuilt(es) \ es
         /\ \A c \in Rebuilt(es) \ es : Parent[c] \in Rebuilt(es)
<1>1. es \cap Containers \subseteq Containers \ {Root}
  BY SchemaAssumption DEF Elements, Nodes
<1>2. \A e \in es \cap Containers : Parent[e] = p
  BY DEF Elements
<1>3. Rebuilt(es) \subseteq Containers \ {Root}
  BY <1>1, SchemaAssumption DEF Rebuilt
<1>4. es \cap Containers \subseteq Rebuilt(es)
  BY SchemaAssumption DEF Rebuilt
<1>5. p \notin Rebuilt(es)
  BY <1>1, <1>2, SchemaAssumption DEF Rebuilt
<1>6. ASSUME NEW c \in Rebuilt(es), NEW k \in Kids(c)
      PROVE  k \in Rebuilt(es) \ es
  <2>1. PICK e \in es \cap Containers : c \in Sub[e]
    BY DEF Rebuilt
  <2>2. k \in Containers \ {Root} /\ Parent[k] = c
    BY SchemaAssumption DEF Kids, Elements, Nodes
  <2>3. k \in Sub[e]
    BY <2>1, <2>2, SchemaAssumption
  <2>4. k \notin es
    BY <1>5, <2>2 DEF Elements
  <2> QED BY <2>1, <2>3, <2>4 DEF Rebuilt
<1>7. ASSUME NEW c \in Rebuilt(es) \ es
      PROVE  Parent[c] \in Rebuilt(es)
  <2>1. PICK e \in es \cap Containers : c \in Sub[e]
    BY DEF Rebuilt
  <2>2. Parent[c] \in Sub[e]
    BY <2>1, <1>3, SchemaAssumption
  <2> QED BY <2>1, <2>2 DEF Rebuilt
<1> QED BY <1>3, <1>4, <1>5, <1>6, <1>7

LEMMA FreshUnused ==
  ASSUME NEW es, Room(es), NEW c \in Rebuilt(es)
  PROVE  Fresh(c) \in Gens /\ <<c, Fresh(c)>> \notin heap
BY DEF Room, Fresh

LEMMA NewObjectsFresh ==
  ASSUME NEW p \in Containers, NEW es \in SUBSET Elements(p), Room(es)
  PROVE  /\ NewObjects(es) \subseteq Obj
         /\ NewObjects(es) \cap heap = {}
         /\ \A q \in NewObjects(es) : q[1] \in Rebuilt(es) /\ q[2] = Fresh(q[1])
         /\ \A c \in Rebuilt(es) : <<c, Fresh(c)>> \in NewObjects(es)
BY RebuiltClosed, FreshUnused DEF NewObjects, Obj

LEMMA UnsetTypes ==
  ASSUME TypeOK, NEW o \in Obj, NEW es \in SUBSET Elements(o[1]), Room(es)
  PROVE  /\ UnsetKid(o, es) \in [Obj -> [Containers -> 0..MaxGen]]
         /\ UnsetUp(o, es) \in [Obj -> Gens]
         /\ UnsetLeaf(o, es) \in [Obj -> [Leaves -> Values \cup {Unset}]]
<1> USE ObjPair
<1>1. \A c \in Rebuilt(es) : Fresh(c) \in Gens
  BY FreshUnused
<1>2. ASSUME NEW q \in Obj, NEW c \in Containers
      PROVE  UnsetKid(o, es)[q] \in [Containers -> 0..MaxGen]
  <2>1. CASE q = o
    BY <2>1, <1>1, RebuiltClosed, GensNat DEF TypeOK, UnsetKid
  <2>2. CASE q # o /\ q \in NewObjects(es)
    <3>1. \A k \in Kids(q[1]) : Fresh(k) \in 0..MaxGen
      BY <2>2, <1>1, RebuiltClosed, NewObjectsFresh, GensNat
    <3>2. 0 \in 0..MaxGen
      BY ValueAssumption
    <3> QED BY <2>2, <3>1, <3>2 DEF UnsetKid
  <2>3. CASE q # o /\ q \notin NewObjects(es)
    BY <2>3 DEF TypeOK, UnsetKid
  <2> QED BY <2>1, <2>2, <2>3
<1>3. ASSUME NEW q \in Obj
      PROVE  UnsetUp(o, es)[q] \in Gens
  <2>1. CASE q \notin NewObjects(es)
    BY <2>1 DEF TypeOK, UnsetUp
  <2>2. CASE q \in NewObjects(es) /\ q[1] \in es
    BY <2>2 DEF UnsetUp
  <2>3. CASE q \in NewObjects(es) /\ q[1] \notin es
    BY <2>3, <1>1, RebuiltClosed, NewObjectsFresh DEF UnsetUp
  <2> QED BY <2>1, <2>2, <2>3
<1>4. UnsetLeaf(o, es) \in [Obj -> [Leaves -> Values \cup {Unset}]]
  BY DEF TypeOK, UnsetLeaf
<1>5. UnsetKid(o, es) \in [Obj -> [Containers -> 0..MaxGen]]
  BY <1>2, SchemaAssumption DEF UnsetKid
<1>6. UnsetUp(o, es) \in [Obj -> Gens]
  BY <1>3 DEF UnsetUp
<1> QED BY <1>4, <1>5, <1>6

-----------------------------------------------------------------------------
(* The inductive invariant, part one: objects, slots and the running call  *)

\* The running call is that of an existing object at or above the one the
\* setter was called on.
CallOK ==
  /\ at # NoObj => setter # Idle /\ at \in heap /\ at[1] # Root
  /\ setter # Idle =>
       /\ setter.obj \in heap
       /\ at # NoObj => setter.obj[1] \in Sub[at[1]]
       /\ setter.kind # "mark" => /\ setter.elem \in Nodes
                                  /\ Parent[setter.elem] = setter.obj[1]
       /\ setter.kind = "container" => setter.elem \in Copyable

\* Objects that do not exist are as the constructor leaves them.
Pristine ==
  \A o \in Obj : o \notin heap =>
    ~changed[o] /\ ~present[o] /\ \A l \in Leaves : leaf[o][l] = Unset

HoldersExist == \A o \in heap : o[1] # Root => Holder(o) \in heap

Shape == TypeOK /\ CallOK /\ Pristine /\ HoldersExist /\ SlotsMatchParents

LEMMA SetterFields ==
  ASSUME NEW s \in Setters
  PROVE  /\ s.obj \in Obj
         /\ s.kind \in {"leaf", "container", "mark"}
         /\ s.kind = "leaf" => s.elem \in Leaves /\ s.val \in Values
         /\ s.kind = "container" => s.elem \in Containers /\ s.src \in Obj
BY DEF Setters

LEMMA MarkSetter ==
  ASSUME NEW o \in Obj
  PROVE  /\ [kind |-> "mark", obj |-> o] \in Setters
         /\ [kind |-> "mark", obj |-> o].kind = "mark"
         /\ [kind |-> "mark", obj |-> o].obj = o
BY DEF Setters

LEMMA ElementsOf ==
  ASSUME NEW p \in Containers, NEW c, NEW ch
  PROVE  OtherCases(p, ch) \in SUBSET Elements(p)
BY DEF OtherCases

\* `_unset_` keeps the parents and the slots in step.
LEMMA UnsetHeap ==
  ASSUME Shape, NEW o \in heap, NEW es \in SUBSET Elements(o[1]),
         Room(es), heap' = heap \cup NewObjects(es),
         kid' = UnsetKid(o, es), up' = UnsetUp(o, es)
  PROVE  HoldersExist' /\ SlotsMatchParents'
<1> USE ObjPair
<1>1. o \in Obj /\ heap \subseteq Obj
  BY DEF Shape, TypeOK
<1>2. /\ NewObjects(es) \subseteq Obj
      /\ NewObjects(es) \cap heap = {}
      /\ \A q \in NewObjects(es) : q[1] \in Rebuilt(es) /\ q[2] = Fresh(q[1])
      /\ \A c \in Rebuilt(es) : <<c, Fresh(c)>> \in NewObjects(es)
  BY <1>1, NewObjectsFresh
<1>3. /\ Rebuilt(es) \subseteq Containers \ {Root}
      /\ es \cap Containers \subseteq Rebuilt(es)
      /\ \A c \in Rebuilt(es) : \A k \in Kids(c) : k \in Rebuilt(es) \ es
      /\ \A c \in Rebuilt(es) \ es : Parent[c] \in Rebuilt(es)
  BY <1>1, RebuiltClosed
<1>4. \A q \in heap : up'[q] = up[q]
  BY <1>1, <1>2 DEF UnsetUp
<1>5. \A q \in NewObjects(es) :
        up'[q] = IF q[1] \in es THEN o[2] ELSE Fresh(Parent[q[1]])
  BY <1>2 DEF UnsetUp
<1>6. ASSUME NEW q \in heap', q[1] # Root
      PROVE  Holder(q)' \in heap'
  <2>1. CASE q \in heap
    BY <2>1, <1>4, <1>6 DEF Shape, HoldersExist, Holder
  <2>2. CASE q \in NewObjects(es) /\ q[1] \in es
    <3>1. Holder(q)' = o
      BY <2>2, <1>1, <1>5 DEF Holder, Elements
    <3> QED BY <3>1
  <2>3. CASE q \in NewObjects(es) /\ q[1] \notin es
    <3>1. Holder(q)' = <<Parent[q[1]], Fresh(Parent[q[1]])>>
      BY <2>3, <1>5 DEF Holder
    <3> QED BY <2>3, <3>1, <1>2, <1>3
  <2> QED BY <2>1, <2>2, <2>3
<1>7. ASSUME NEW q \in Obj, NEW c \in Kids(q[1]), q \in heap'
      PROVE  /\ <<c, kid'[q][c]>> \in heap'
             /\ up'[<<c, kid'[q][c]>>] = q[2]
  <2>0. c \in Containers
    BY DEF Kids
  <2>1. CASE q = o /\ c \in es
    <3>1. kid'[q][c] = Fresh(c)
      BY <2>0, <2>1 DEF UnsetKid
    <3>2. <<c, Fresh(c)>> \in NewObjects(es)
      BY <2>0, <2>1, <1>2, <1>3
    <3>3. up'[<<c, Fresh(c)>>] = o[2]
      BY <2>1, <3>2, <1>5
    <3> QED BY <2>1, <3>1, <3>2, <3>3
  <2>2. CASE q \in heap /\ ~(q = o /\ c \in es)
    <3>1. kid'[q][c] = kid[q][c]
      BY <2>0, <2>2, <1>1, <1>2 DEF UnsetKid
    <3>2. <<c, kid[q][c]>> \in heap /\ up[<<c, kid[q][c]>>] = q[2]
      BY <2>2, <1>7 DEF Shape, SlotsMatchParents
    <3> QED BY <3>1, <3>2, <1>4
  <2>3. CASE q \in NewObjects(es)
    <3>1. q[1] \in Rebuilt(es) /\ q[2] = Fresh(q[1]) /\ q # o
      BY <2>3, <1>2
    <3>2. kid'[q][c] = Fresh(c)
      BY <2>0, <2>3, <3>1, <1>7 DEF UnsetKid
    <3>3. c \in Rebuilt(es) \ es
      BY <3>1, <1>3, <1>7
    <3>4. <<c, Fresh(c)>> \in NewObjects(es)
      BY <3>3, <1>2
    <3>5. Parent[c] = q[1]
      BY <1>7 DEF Kids, Elements
    <3>6. up'[<<c, Fresh(c)>>] = Fresh(q[1])
      BY <3>3, <3>4, <3>5, <1>5
    <3> QED BY <3>1, <3>2, <3>4, <3>6
  <2> QED BY <2>1, <2>2, <2>3, <1>7
<1> QED BY <1>6, <1>7 DEF HoldersExist, SlotsMatchParents, Kids, Elements

\* A call to o's `_set` with the setter s under way.
LEMMA CallEffect ==
  ASSUME NEW o \in Obj, NEW ch, NEW s \in Setters, Call(o, ch, s)
  PROVE  /\ at' # NoObj => at' = o /\ o[1] # Root /\ choice' = ch /\ setter' = s
         /\ at' = NoObj => o[1] = Root /\ choice' = NoChoice
         /\ setter' = s \/ (setter' = Idle /\ at' = NoObj)
BY NullAssumption DEF Call

LEMMA CallShape ==
  ASSUME NEW o \in Obj, NEW ch \in {ChoiceOf[n] : n \in Nodes} \cup {NoChoice},
         NEW s \in Setters, Call(o, ch, s), o \in heap',
         s.obj \in heap', s.obj[1] \in Sub[o[1]],
         s.kind # "mark" => s.elem \in Nodes /\ Parent[s.elem] = s.obj[1],
         s.kind = "container" => s.elem \in Copyable
  PROVE  /\ CallOK'
         /\ at' \in Obj \cup {NoObj}
         /\ choice' \in {ChoiceOf[n] : n \in Nodes} \cup {NoChoice}
         /\ setter' \in Setters \cup {Idle}
BY CallEffect, NullAssumption DEF CallOK

LEMMA SelfBelow == \A c \in Containers : c \in Sub[c]
BY SchemaAssumption

LEMMA HeapUnchanged ==
  ASSUME Shape, UNCHANGED <<heap, kid, up>>
  PROVE  HoldersExist' /\ SlotsMatchParents'
BY DEF Shape, HoldersExist, SlotsMatchParents, Holder, Kids, Elements

LEMMA ShapeInit == Init => Shape
<1> SUFFICES ASSUME Init PROVE Shape
  OBVIOUS
<1>1. TypeOK
  BY GensNat, SchemaAssumption, ValueAssumption DEF Init, TypeOK, Obj
<1>2. CallOK
  BY DEF Init, CallOK
<1>3. Pristine
  BY DEF Init, Pristine
<1>4. HoldersExist
  <2> SUFFICES ASSUME NEW o \in heap, o[1] # Root
               PROVE  Holder(o) \in heap
    BY DEF HoldersExist
  <2>1. o \in Obj /\ o[1] \in Nodes
    BY GensNat, ObjPair DEF Init, Obj, Nodes
  <2>2. Holder(o) = <<Parent[o[1]], 1>> /\ Parent[o[1]] \in Containers
    BY <2>1, SchemaAssumption DEF Init, Holder
  <2> QED BY <2>2 DEF Init
<1>5. SlotsMatchParents
  BY ObjPair, GensNat DEF Init, SlotsMatchParents, Kids, Obj
<1> QED BY <1>1, <1>2, <1>3, <1>4, <1>5 DEF Shape

LEMMA ShapeCollect == Shape /\ Collect => Shape'
<1> SUFFICES ASSUME Shape, Collect PROVE Shape'
  OBVIOUS
<1>1. heap' \subseteq heap /\ heap' = heap \cap Reachable
  BY DEF Collect
<1>2. \A o \in Obj : o \in Reachable => kid'[o] = kid[o] /\ up'[o] = up[o]
  BY DEF Collect
<1>3. TypeOK'
  BY GensNat, ValueAssumption DEF Shape, TypeOK, Collect, call
<1>4. CallOK'
  <2>1. InCall \subseteq Reachable
    BY DEF Collect
  <2>2. setter # Idle => setter.obj \in heap'
    BY <1>1, <2>1 DEF Shape, CallOK, InCall
  <2>3. at # NoObj => at \in heap'
    BY <1>1, <2>1 DEF Shape, CallOK, InCall
  <2> QED BY <2>2, <2>3 DEF Shape, CallOK, Collect, call
<1>5. Pristine'
  BY DEF Shape, Pristine, Collect
<1>6. HoldersExist'
  <2> SUFFICES ASSUME NEW o \in heap', o[1] # Root
               PROVE  Holder(o)' \in heap'
    BY DEF HoldersExist
  <2>1. o \in Obj /\ Holder(o)' = Holder(o)
    BY <1>1, <1>2 DEF Shape, TypeOK, Holder
  <2>2. Holder(o) \in Refs(Reachable)
    BY <1>1 DEF Refs
  <2> QED BY <1>1, <2>1, <2>2 DEF Shape, HoldersExist, Collect
<1>7. SlotsMatchParents'
  <2> SUFFICES ASSUME NEW o \in Obj, NEW c \in Kids(o[1]), o \in heap'
               PROVE  /\ <<c, kid'[o][c]>> \in heap'
                      /\ up'[<<c, kid'[o][c]>>] = o[2]
    BY DEF SlotsMatchParents, Kids, Elements
  <2>1. <<c, kid[o][c]>> \in heap /\ up[<<c, kid[o][c]>>] = o[2]
    BY <1>1 DEF Shape, SlotsMatchParents
  <2>2. <<c, kid[o][c]>> \in Refs(Reachable)
    BY <1>1 DEF Refs
  <2>3. <<c, kid[o][c]>> \in Obj /\ kid'[o] = kid[o]
    BY <1>1, <1>2, <2>1 DEF Shape, TypeOK
  <2> QED BY <1>1, <1>2, <2>1, <2>2, <2>3 DEF Collect
<1> QED BY <1>3, <1>4, <1>5, <1>6, <1>7 DEF Shape

LEMMA ShapeSetStep == Shape /\ SetStep => Shape'
<1> SUFFICES ASSUME Shape, SetStep PROVE Shape'
  OBVIOUS
<1> DEFINE es == OtherCases(at[1], choice)
<1>1. /\ at \in heap /\ at \in Obj /\ at[1] \in Containers \ {Root}
      /\ setter \in Setters /\ heap \subseteq Obj
  BY ObjPair DEF Shape, TypeOK, CallOK, SetStep
<1>2. es \in SUBSET Elements(at[1])
  BY DEF OtherCases
<1>3. /\ Room(es)
      /\ heap' = heap \cup NewObjects(es)
      /\ kid' = UnsetKid(at, es)
      /\ up' = UnsetUp(at, es)
      /\ leaf' = UnsetLeaf(at, es)
  BY DEF SetStep, Unset_
<1>4. NewObjects(es) \subseteq Obj
  BY <1>1, <1>2, <1>3, NewObjectsFresh
<1>5. HoldersExist' /\ SlotsMatchParents'
  BY <1>1, <1>2, <1>3, UnsetHeap
<1>6. /\ kid' \in [Obj -> [Containers -> 0..MaxGen]]
      /\ up' \in [Obj -> Gens]
      /\ leaf' \in [Obj -> [Leaves -> Values \cup {Unset}]]
  BY <1>1, <1>2, <1>3, UnsetTypes DEF Shape
<1>7. /\ CallOK'
      /\ at' \in Obj \cup {NoObj}
      /\ choice' \in {ChoiceOf[n] : n \in Nodes} \cup {NoChoice}
      /\ setter' \in Setters \cup {Idle}
  <2>1. Holder(at) \in heap /\ Holder(at) \in Obj
    BY <1>1 DEF Shape, HoldersExist
  <2>2. PassedOn(at[1], choice) \in {ChoiceOf[n] : n \in Nodes} \cup {NoChoice}
    BY <1>1 DEF PassedOn, Shape, TypeOK, Nodes
  <2>3. setter.obj[1] \in Sub[Holder(at)[1]]
    <3>1. setter.obj[1] \in Sub[at[1]] /\ setter.obj[1] \in Containers
      BY <1>1, ObjPair, SetterFields DEF Shape, CallOK, SetStep
    <3>2. Holder(at)[1] = Parent[at[1]] /\ Parent[at[1]] \in Containers
      BY <1>1, SchemaAssumption DEF Holder, Nodes
    <3>3. at[1] \in Sub[Parent[at[1]]]
      BY <1>1, <3>2, SchemaAssumption
    <3> QED BY <3>1, <3>2, <3>3, SchemaAssumption
  <2>4. Holder(at) \in heap' /\ setter.obj \in heap'
    BY <1>1, <1>3, <2>1, NullAssumption DEF Shape, CallOK
  <2>5. Call(Holder(at), PassedOn(at[1], choice), setter)
    BY DEF SetStep
  <2>6. /\ setter.kind # "mark" => /\ setter.elem \in Nodes
                                   /\ Parent[setter.elem] = setter.obj[1]
        /\ setter.kind = "container" => setter.elem \in Copyable
    BY <1>1, NullAssumption DEF Shape, CallOK
  <2> QED BY <1>1, <2>1, <2>2, <2>3, <2>4, <2>5, <2>6, CallShape
<1>8. TypeOK'
  BY <1>1, <1>3, <1>4, <1>6, <1>7 DEF Shape, TypeOK, SetStep
<1>9. Pristine'
  <2>1. \A o \in Obj : o # at => leaf'[o] = leaf[o]
    BY <1>1, <1>3 DEF UnsetLeaf, Shape, TypeOK
  <2> QED BY <1>1, <1>3, <2>1 DEF Shape, Pristine, SetStep, TypeOK
<1> QED BY <1>5, <1>7, <1>8, <1>9 DEF Shape

LEMMA ShapeStoreLeaf == Shape /\ StoreLeaf => Shape'
<1> SUFFICES ASSUME Shape, StoreLeaf PROVE Shape'
  OBVIOUS
<1> DEFINE s == [kind |-> "mark", obj |-> setter.obj]
<1>1. /\ setter.obj \in heap /\ setter.obj \in Obj /\ setter.obj[1] \in Containers
      /\ setter.elem \in Leaves /\ setter.val \in Values
  BY ObjPair, SetterFields DEF Shape, TypeOK, CallOK, StoreLeaf
<1>2. /\ CallOK'
      /\ at' \in Obj \cup {NoObj}
      /\ choice' \in {ChoiceOf[n] : n \in Nodes} \cup {NoChoice}
      /\ setter' \in Setters \cup {Idle}
  <2>1. s \in Setters /\ s.kind = "mark" /\ s.obj = setter.obj
    BY <1>1, MarkSetter
  <2>2. Call(setter.obj, NoChoice, s) /\ heap' = heap
    BY DEF StoreLeaf
  <2>3. s.obj[1] \in Sub[setter.obj[1]]
    BY <1>1, <2>1, SelfBelow
  <2> QED BY <1>1, <2>1, <2>2, <2>3, CallShape
<1>3. TypeOK'
  BY <1>1, <1>2 DEF Shape, TypeOK, StoreLeaf
<1>4. Pristine'
  BY <1>1 DEF Shape, Pristine, StoreLeaf, TypeOK
<1> QED BY <1>2, <1>3, <1>4, HeapUnchanged DEF Shape, StoreLeaf

LEMMA ShapeRejectLeaf == Shape /\ RejectLeaf => Shape'
<1> SUFFICES ASSUME Shape, RejectLeaf PROVE Shape'
  OBVIOUS
<1>1. UNCHANGED tree /\ UNCHANGED <<at, choice, held>> /\ setter' = Idle /\ at = NoObj
  BY DEF RejectLeaf
<1>2. TypeOK'
  BY <1>1 DEF Shape, TypeOK, tree
<1>3. CallOK'
  BY <1>1 DEF CallOK
<1>4. Pristine'
  BY <1>1 DEF Shape, Pristine, tree
<1> QED BY <1>1, <1>2, <1>3, <1>4, HeapUnchanged DEF Shape, tree

LEMMA ShapeCopyContainer == Shape /\ CopyContainer => Shape'
<1> SUFFICES ASSUME Shape, CopyContainer PROVE Shape'
  OBVIOUS
<1> DEFINE o == setter.obj
           c == setter.elem
           s == [kind |-> "mark", obj |-> o]
<1>1. PICK from \in [Sub[c] -> Gens] :
        /\ Room({c})
        /\ heap' = heap \cup NewObjects({c})
        /\ kid' = UnsetKid(o, {c})
        /\ up' = UnsetUp(o, {c})
        /\ leaf' = [q \in Obj |-> IF q \in NewObjects({c}) /\ q[1] \in Copied(c, from)
                                  THEN leaf[<<q[1], from[q[1]]>>] ELSE leaf[q]]
        /\ changed' = [q \in Obj |-> \/ changed[q]
                                     \/ q \in NewObjects({c}) /\ q[1] \in Copied(c, from)]
        /\ present' = [q \in Obj |-> \/ present[q]
                                     \/ q \in NewObjects({c}) /\ q[1] \in Copied(c, from) \cap Presence]
        /\ Call(o, NoChoice, s)
  BY DEF CopyContainer
<1>2. /\ setter \in Setters /\ o \in heap /\ o \in Obj /\ o[1] \in Containers
      /\ c \in Containers \ {Root} /\ c \in Nodes /\ Parent[c] = o[1]
  BY ObjPair, SetterFields, SchemaAssumption DEF Shape, TypeOK, CallOK, CopyContainer, Nodes
<1>3. {c} \in SUBSET Elements(o[1])
  BY <1>2 DEF Elements
<1>4. /\ NewObjects({c}) \subseteq Obj
      /\ \A q \in NewObjects({c}) : q[1] \in Sub[c]
  <2>1. Rebuilt({c}) \subseteq Sub[c]
    BY DEF Rebuilt
  <2> QED BY <1>1, <1>2, <1>3, <2>1, NewObjectsFresh
<1>5. HoldersExist' /\ SlotsMatchParents'
  BY <1>1, <1>2, <1>3, UnsetHeap
<1>6. /\ kid' \in [Obj -> [Containers -> 0..MaxGen]]
      /\ up' \in [Obj -> Gens]
  BY <1>1, <1>2, <1>3, UnsetTypes DEF Shape
<1>7. /\ CallOK'
      /\ at' \in Obj \cup {NoObj}
      /\ choice' \in {ChoiceOf[n] : n \in Nodes} \cup {NoChoice}
      /\ setter' \in Setters \cup {Idle}
  <2>1. s \in Setters /\ s.kind = "mark" /\ s.obj = o
    BY <1>2, MarkSetter
  <2>2. o \in heap' /\ s.obj[1] \in Sub[o[1]]
    BY <1>1, <1>2, <2>1, SelfBelow
  <2> QED BY <1>1, <1>2, <2>1, <2>2, CallShape
<1>8. leaf' \in [Obj -> [Leaves -> Values \cup {Unset}]]
  <2> SUFFICES ASSUME NEW q \in Obj
               PROVE  leaf'[q] \in [Leaves -> Values \cup {Unset}]
    BY <1>1
  <2>1. CASE q \in NewObjects({c})
    <3>1. <<q[1], from[q[1]]>> \in Obj
      BY <1>4, <2>1, ObjPair DEF Obj
    <3> QED BY <1>1, <3>1 DEF Shape, TypeOK
  <2>2. CASE q \notin NewObjects({c})
    BY <1>1, <2>2 DEF Shape, TypeOK
  <2> QED BY <2>1, <2>2
<1>9. TypeOK'
  BY <1>1, <1>4, <1>6, <1>7, <1>8 DEF Shape, TypeOK, CopyContainer
<1>10. Pristine'
  BY <1>1 DEF Shape, Pristine
<1> QED BY <1>5, <1>7, <1>9, <1>10 DEF Shape

\* Setters the program starts.
LEMMA ShapeSetLeaf ==
  ASSUME Shape, NEW o \in heap, NEW l \in Leaves, NEW v \in Values,
         NEW ok \in BOOLEAN, SetLeaf(o, l, v, ok)
  PROVE  Shape'
<1> DEFINE s == [kind |-> "leaf", obj |-> o, elem |-> l, val |-> v, ok |-> ok]
<1>1. o \in Obj /\ o[1] \in Containers /\ l \in Nodes /\ Parent[l] = o[1]
  BY ObjPair DEF Shape, TypeOK, SetLeaf, Nodes
<1>2. s \in Setters /\ s.kind = "leaf" /\ s.obj = o /\ s.elem = l
  BY <1>1 DEF Setters
<1>3. UNCHANGED tree /\ UNCHANGED held /\ Call(o, ChoiceOf[l], s)
  BY DEF SetLeaf
<1>4. /\ CallOK'
      /\ at' \in Obj \cup {NoObj}
      /\ choice' \in {ChoiceOf[n] : n \in Nodes} \cup {NoChoice}
      /\ setter' \in Setters \cup {Idle}
  <2>1. ChoiceOf[l] \in {ChoiceOf[n] : n \in Nodes} \cup {NoChoice}
    BY <1>1
  <2>2. o \in heap' /\ s.obj \in heap' /\ s.obj[1] \in Sub[o[1]]
    BY <1>1, <1>2, <1>3, SelfBelow DEF tree
  <2> QED BY <1>1, <1>2, <1>3, <2>1, <2>2, CallShape
<1>5. TypeOK'
  BY <1>3, <1>4 DEF Shape, TypeOK, tree
<1>6. Pristine'
  BY <1>3 DEF Shape, Pristine, tree
<1> QED BY <1>3, <1>4, <1>5, <1>6, HeapUnchanged DEF Shape, tree

LEMMA ShapeSetContainer ==
  ASSUME Shape, NEW o \in heap, NEW c \in Copyable, NEW src \in heap,
         SetContainer(o, c, src)
  PROVE  Shape'
<1> DEFINE s == [kind |-> "container", obj |-> o, elem |-> c, src |-> src]
<1>1. /\ o \in Obj /\ src \in Obj /\ o[1] \in Containers
      /\ c \in Containers /\ c \in Nodes /\ Parent[c] = o[1]
  BY ObjPair, RoleAssumption DEF Shape, TypeOK, SetContainer, Nodes
<1>2. s \in Setters /\ s.kind = "container" /\ s.obj = o /\ s.elem = c
  BY <1>1 DEF Setters
<1>3. UNCHANGED tree /\ UNCHANGED held /\ Call(o, ChoiceOf[c], s)
  BY DEF SetContainer
<1>4. /\ CallOK'
      /\ at' \in Obj \cup {NoObj}
      /\ choice' \in {ChoiceOf[n] : n \in Nodes} \cup {NoChoice}
      /\ setter' \in Setters \cup {Idle}
  <2>1. ChoiceOf[c] \in {ChoiceOf[n] : n \in Nodes} \cup {NoChoice}
    BY <1>1
  <2>2. o \in heap' /\ s.obj \in heap' /\ s.obj[1] \in Sub[o[1]]
    BY <1>1, <1>2, <1>3, SelfBelow DEF tree
  <2> QED BY <1>1, <1>2, <1>3, <2>1, <2>2, CallShape
<1>5. TypeOK'
  BY <1>3, <1>4 DEF Shape, TypeOK, tree
<1>6. Pristine'
  BY <1>3 DEF Shape, Pristine, tree
<1> QED BY <1>3, <1>4, <1>5, <1>6, HeapUnchanged DEF Shape, tree

LEMMA ShapeUnsetElement ==
  ASSUME Shape, NEW o \in heap, NEW n \in Nodes, UnsetElement(o, n)
  PROVE  Shape'
<1>1. o \in Obj /\ o[1] \in Containers /\ {n} \in SUBSET Elements(o[1])
  BY ObjPair DEF Shape, TypeOK, UnsetElement, Elements
<1>2. /\ Room({n})
      /\ heap' = heap \cup NewObjects({n})
      /\ kid' = UnsetKid(o, {n})
      /\ up' = UnsetUp(o, {n})
      /\ leaf' = UnsetLeaf(o, {n})
      /\ UNCHANGED <<changed, present, at, choice, setter, held>>
  BY DEF UnsetElement, Unset_, call
<1>3. NewObjects({n}) \subseteq Obj
  BY <1>1, <1>2, NewObjectsFresh
<1>4. TypeOK'
  BY <1>1, <1>2, <1>3, UnsetTypes DEF Shape, TypeOK
<1>5. CallOK'
  BY <1>2 DEF Shape, CallOK
<1>6. Pristine'
  <2>1. \A q \in Obj : q # o => leaf'[q] = leaf[q]
    BY <1>1, <1>2 DEF UnsetLeaf, Shape, TypeOK
  <2> QED BY <1>1, <1>2, <2>1 DEF Shape, Pristine
<1> QED BY <1>1, <1>2, <1>4, <1>5, <1>6, UnsetHeap DEF Shape

LEMMA ShapeSetPresent ==
  ASSUME Shape, NEW o \in heap, SetPresent(o)
  PROVE  Shape'
<1> DEFINE s == [kind |-> "mark", obj |-> o]
<1>1. o \in Obj /\ o[1] \in Containers
  BY ObjPair DEF Shape, TypeOK
<1>2. s \in Setters /\ s.kind = "mark" /\ s.obj = o
  BY <1>1, MarkSetter
<1>3. UNCHANGED <<heap, kid, up, leaf, changed, held>> /\ Call(o, NoChoice, s)
  BY DEF SetPresent
<1>4. /\ CallOK'
      /\ at' \in Obj \cup {NoObj}
      /\ choice' \in {ChoiceOf[n] : n \in Nodes} \cup {NoChoice}
      /\ setter' \in Setters \cup {Idle}
  <2>1. o \in heap' /\ s.obj \in heap' /\ s.obj[1] \in Sub[o[1]]
    BY <1>1, <1>2, <1>3, SelfBelow
  <2> QED BY <1>1, <1>2, <1>3, <2>1, CallShape
<1>5. TypeOK'
  BY <1>3, <1>4 DEF Shape, TypeOK, SetPresent
<1>6. Pristine'
  BY <1>1, <1>3 DEF Shape, Pristine, SetPresent, TypeOK
<1> QED BY <1>3, <1>4, <1>5, <1>6, HeapUnchanged DEF Shape

LEMMA ShapeClearPresent ==
  ASSUME Shape, NEW o \in heap, ClearPresent(o)
  PROVE  Shape'
<1>1. /\ UNCHANGED <<heap, kid, up, leaf, at, choice, setter, held>>
      /\ present' = [present EXCEPT ![o] = FALSE]
      /\ changed' = [changed EXCEPT ![o] = FALSE]
  BY DEF ClearPresent, call
<1>2. TypeOK'
  BY <1>1 DEF Shape, TypeOK
<1>3. CallOK'
  BY <1>1 DEF Shape, CallOK
<1>4. Pristine'
  BY <1>1 DEF Shape, Pristine, TypeOK
<1> QED BY <1>1, <1>2, <1>3, <1>4, HeapUnchanged DEF Shape

LEMMA ShapeHandles ==
  ASSUME Shape, NEW o \in heap, Keep(o) \/ Drop(o)
  PROVE  Shape'
<1>1. UNCHANGED tree /\ UNCHANGED call /\ held' \subseteq Obj
  BY DEF Keep, Drop, Shape, TypeOK
<1>2. TypeOK'
  BY <1>1 DEF Shape, TypeOK, tree, call
<1>3. CallOK'
  BY <1>1 DEF Shape, CallOK, tree, call
<1>4. Pristine'
  BY <1>1 DEF Shape, Pristine, tree
<1> QED BY <1>1, <1>2, <1>3, <1>4, HeapUnchanged DEF Shape, tree

LEMMA ShapeOperation == Shape /\ Operation => Shape'
<1> SUFFICES ASSUME Shape, Operation PROVE Shape'
  OBVIOUS
<1>1. PICK o \in heap :
        \/ Keep(o)
        \/ Drop(o)
        \/ \E l \in Leaves, v \in Values, ok \in BOOLEAN : SetLeaf(o, l, v, ok)
        \/ \E c \in Copyable, src \in heap : SetContainer(o, c, src)
        \/ \E n \in Nodes : UnsetElement(o, n)
        \/ SetPresent(o)
        \/ ClearPresent(o)
  BY DEF Operation, Usable
<1> QED BY <1>1, ShapeHandles, ShapeSetLeaf, ShapeSetContainer,
           ShapeUnsetElement, ShapeSetPresent, ShapeClearPresent

LEMMA ShapeStutter == Shape /\ UNCHANGED vars => Shape'
BY DEF Shape, TypeOK, CallOK, Pristine, HoldersExist, SlotsMatchParents,
       vars, Holder, Kids, Elements

LEMMA ShapeNext == Shape /\ [Next]_vars => Shape'
<1> SUFFICES ASSUME Shape, [Next]_vars PROVE Shape'
  OBVIOUS
<1>1. CASE Collect
  BY <1>1, ShapeCollect
<1>2. CASE SetStep \/ StoreLeaf \/ RejectLeaf \/ CopyContainer
  BY <1>2, ShapeSetStep, ShapeStoreLeaf, ShapeRejectLeaf, ShapeCopyContainer
<1>3. CASE Operation
  BY <1>3, ShapeOperation
<1>4. CASE UNCHANGED vars
  BY <1>4, ShapeStutter
<1> QED BY <1>1, <1>2, <1>3, <1>4 DEF Next

THEOREM ShapeAlways == Spec => []Shape
BY ShapeInit, ShapeNext, PTL DEF Spec

\* The variables keep their types whatever the schema: objects that `_unset_`
\* makes are built of fresh generations, and `_set` climbs along parents.
THEOREM TypeCorrect == Spec => []TypeOK
<1>1. Shape => TypeOK
  BY DEF Shape
<1> QED BY <1>1, ShapeAlways, PTL

\* A handle, however stale, reports to the object it was built for, and every
\* slot holds an object that names its holder as `_parent`.
THEOREM ParentsMatch == Spec => []SlotsMatchParents
<1>1. Shape => SlotsMatchParents
  BY DEF Shape
<1> QED BY <1>1, ShapeAlways, PTL

-----------------------------------------------------------------------------
(* Part two: the presence flag.  Only the object whose `_set` is still to   *)
(* run may have one flag without the other.                                 *)

PresenceFlags ==
  \A o \in Obj : o[1] \in Presence /\ o # at => (present[o] <=> changed[o])

LEMMA CallWaits ==
  ASSUME NEW o \in Obj, o[1] # Root, NEW ch, NEW s \in Setters, Call(o, ch, s)
  PROVE  at' = o
BY DEF Call

LEMMA PresenceSetStep == Shape /\ PresenceFlags /\ SetStep => PresenceFlags'
<1> SUFFICES ASSUME Shape, PresenceFlags, SetStep,
                    NEW o \in Obj, o[1] \in Presence, o # at'
             PROVE  present'[o] <=> changed'[o]
  BY DEF PresenceFlags
<1>1. at \in Obj /\ at # NoObj
  BY DEF Shape, TypeOK, CallOK, SetStep
<1>2. /\ changed' = [changed EXCEPT ![at] = TRUE]
      /\ present' = [present EXCEPT ![at] = @ \/ at[1] \in Presence]
  BY DEF SetStep
<1>3. CASE o = at
  BY <1>1, <1>2, <1>3 DEF Shape, TypeOK
<1>4. CASE o # at
  <2>1. present[o] <=> changed[o]
    BY <1>4 DEF PresenceFlags
  <2> QED BY <1>2, <1>4, <2>1 DEF Shape, TypeOK
<1> QED BY <1>3, <1>4

LEMMA PresenceCopyContainer ==
  Shape /\ PresenceFlags /\ CopyContainer => PresenceFlags'
<1> SUFFICES ASSUME Shape, PresenceFlags, CopyContainer,
                    NEW o \in Obj, o[1] \in Presence
             PROVE  present'[o] <=> changed'[o]
  BY DEF PresenceFlags
<1> DEFINE c == setter.elem
<1>1. PICK from \in [Sub[c] -> Gens] :
        /\ changed' = [q \in Obj |-> \/ changed[q]
                                     \/ q \in NewObjects({c}) /\ q[1] \in Copied(c, from)]
        /\ present' = [q \in Obj |-> \/ present[q]
                                     \/ q \in NewObjects({c}) /\ q[1] \in Copied(c, from) \cap Presence]
  BY DEF CopyContainer
<1>2. present[o] <=> changed[o]
  BY NullAssumption DEF PresenceFlags, CopyContainer
<1> QED BY <1>1, <1>2

LEMMA PresenceOperation == Shape /\ PresenceFlags /\ Operation => PresenceFlags'
<1> SUFFICES ASSUME Shape, PresenceFlags, Operation
             PROVE  PresenceFlags'
  OBVIOUS
<1>1. at = NoObj
  BY DEF Shape, CallOK, Operation
<1>2. \A o \in Obj : o[1] \in Presence => (present[o] <=> changed[o])
  BY <1>1, NullAssumption DEF PresenceFlags
<1>3. ASSUME NEW o \in heap, SetPresent(o)
      PROVE  PresenceFlags'
  <2>1. o \in Obj /\ [kind |-> "mark", obj |-> o] \in Setters
    BY MarkSetter DEF Shape, TypeOK
  <2>2. at' = o
    BY <1>3, <2>1, CallWaits DEF SetPresent
  <2> QED BY <1>2, <1>3, <2>2 DEF PresenceFlags, SetPresent, Shape, TypeOK
<1>4. ASSUME NEW o \in heap, ClearPresent(o)
      PROVE  PresenceFlags'
  BY <1>2, <1>4 DEF PresenceFlags, ClearPresent, Shape, TypeOK
<1>5. \/ UNCHANGED <<changed, present>>
      \/ \E o \in heap : SetPresent(o) \/ ClearPresent(o)
  BY DEF Operation, Usable, Keep, Drop, SetLeaf, SetContainer, UnsetElement, tree
<1> QED BY <1>2, <1>3, <1>4, <1>5 DEF PresenceFlags

LEMMA PresenceNext == Shape /\ PresenceFlags /\ [Next]_vars => PresenceFlags'
<1> SUFFICES ASSUME Shape, PresenceFlags, [Next]_vars
             PROVE  PresenceFlags'
  OBVIOUS
<1>1. CASE Collect
  BY <1>1 DEF Collect, PresenceFlags, call
<1>2. CASE SetStep
  BY <1>2, PresenceSetStep
<1>3. CASE StoreLeaf \/ RejectLeaf
  BY <1>3, NullAssumption DEF StoreLeaf, RejectLeaf, PresenceFlags, tree
<1>4. CASE CopyContainer
  BY <1>4, PresenceCopyContainer
<1>5. CASE Operation
  BY <1>5, PresenceOperation
<1>6. CASE UNCHANGED vars
  BY <1>6 DEF vars, PresenceFlags
<1> QED BY <1>1, <1>2, <1>3, <1>4, <1>5, <1>6 DEF Next

\* Whatever setters, copies, resets and _set_present calls a program makes, a
\* presence container reports `_present()` exactly when it reports `_changed()`.
THEOREM PresenceCorrect == Spec => []PresenceMatchesChanged
<1>1. Init => PresenceFlags
  BY DEF Init, PresenceFlags
<1>2. Shape /\ PresenceFlags => PresenceMatchesChanged
  BY NullAssumption DEF Shape, CallOK, PresenceFlags, PresenceMatchesChanged
<1>3. Spec => []PresenceFlags
  BY <1>1, ShapeAlways, PresenceNext, PTL DEF Spec
<1> QED BY <1>2, <1>3, ShapeAlways, PTL

-----------------------------------------------------------------------------
(* Part three: the changed flag.  An element in use is reported by its      *)
(* holder, or the holder's `_set` is the one about to run.                  *)

FlagsUpward ==
  \A o \in heap : \A n \in Elements(o[1]) :
    o[1] \notin Clearable \cup {Root} /\ o # at /\ Used(o, n) => changed[o]

\* The container elements of o other than x keep their state when x's changes.
LEMMA SlotOwner ==
  ASSUME Shape, NEW o \in heap, NEW c \in Kids(o[1])
  PROVE  /\ <<c, kid[o][c]>> \in heap
         /\ <<c, kid[o][c]>>[1] # Root
         /\ Holder(<<c, kid[o][c]>>) = o
<1>1. o \in Obj /\ c \in Containers \ {Root} /\ Parent[c] = o[1]
  BY SchemaAssumption DEF Shape, TypeOK, Kids, Elements, Nodes
<1>2. <<c, kid[o][c]>> \in heap /\ up[<<c, kid[o][c]>>] = o[2]
  BY <1>1 DEF Shape, SlotsMatchParents
<1> QED BY <1>1, <1>2, ObjPair DEF Holder

LEMMA ElementCases ==
  ASSUME NEW p, NEW n \in Elements(p)
  PROVE  n \in Leaves \/ (n \notin Leaves /\ n \in Kids(p))
BY DEF Elements, Kids, Nodes

\* What `_unset_` leaves in use was in use before.
LEMMA UnsetUses ==
  ASSUME Shape, NEW o \in heap, NEW es \in SUBSET Elements(o[1]), Unset_(o, es),
         NEW q \in heap', NEW n \in Elements(q[1]),
         IF n \in Leaves THEN leaf'[q][n] # Unset ELSE changed[<<n, kid'[q][n]>>]
  PROVE  q \in heap /\ Used(q, n) /\ ~(q = o /\ n \in es)
<1>1. o \in Obj /\ o[1] \in Containers /\ heap \subseteq Obj
  BY ObjPair DEF Shape, TypeOK
<1>2. /\ NewObjects(es) \subseteq Obj
      /\ NewObjects(es) \cap heap = {}
      /\ \A x \in NewObjects(es) : x[1] \in Rebuilt(es) /\ x[2] = Fresh(x[1])
      /\ \A c \in Rebuilt(es) : <<c, Fresh(c)>> \in NewObjects(es)
  BY <1>1, NewObjectsFresh DEF Unset_
<1>3. /\ es \cap Containers \subseteq Rebuilt(es)
      /\ \A c \in Rebuilt(es) : \A k \in Kids(c) : k \in Rebuilt(es)
  BY <1>1, RebuiltClosed
<1>4. \A c \in Rebuilt(es) : ~changed[<<c, Fresh(c)>>]
  BY <1>2 DEF Shape, Pristine
<1>5. q \in Obj /\ (q \in heap \/ q \in NewObjects(es))
  BY <1>1, <1>2 DEF Unset_
<1>6. CASE n \in Leaves
  <2>1. leaf' = UnsetLeaf(o, es)
    BY DEF Unset_
  <2>2. leaf[q][n] # Unset /\ ~(q = o /\ n \in es)
    BY <1>5, <1>6, <2>1 DEF UnsetLeaf, Shape, TypeOK
  <2>3. q \in heap
    BY <1>5, <1>6, <2>2 DEF Shape, Pristine
  <2> QED BY <1>6, <2>2, <2>3 DEF Used
<1>7. CASE n \notin Leaves /\ n \in Kids(q[1])
  <2>0. kid' = UnsetKid(o, es) /\ n \in Containers /\ changed[<<n, kid'[q][n]>>]
    BY <1>7 DEF Unset_, Kids
  <2>1. ~(q = o /\ n \in es)
    <3>1. SUFFICES ASSUME q = o, n \in es PROVE FALSE
      OBVIOUS
    <3>2. kid'[q][n] = Fresh(n) /\ n \in Rebuilt(es)
      BY <1>3, <1>5, <2>0, <3>1 DEF UnsetKid
    <3> QED BY <1>4, <2>0, <3>2
  <2>2. q \in heap
    <3>1. SUFFICES ASSUME q \in NewObjects(es), q \notin heap PROVE FALSE
      BY <1>5
    <3>2. n \in Rebuilt(es)
      BY <1>2, <1>3, <1>7, <3>1
    <3>3. kid'[q][n] = Fresh(n)
      BY <1>5, <1>7, <2>0, <3>1 DEF UnsetKid
    <3> QED BY <1>4, <2>0, <3>2, <3>3
  <2>3. kid'[q][n] = kid[q][n]
    BY <1>2, <1>5, <2>0, <2>1, <2>2 DEF UnsetKid
  <2> QED BY <1>7, <2>0, <2>1, <2>2, <2>3 DEF Used
<1> QED BY <1>6, <1>7, ElementCases

\* What is in use after one `_set` call: what was, less what it unset, and the
\* object itself in its holder's slot.
LEMMA SetStepUses ==
  ASSUME Shape, SetStep, NEW q \in heap', NEW n \in Elements(q[1]), Used(q, n)'
  PROVE  /\ q \in heap
         /\ \/ Used(q, n) /\ ~(q = at /\ n \in OtherCases(at[1], choice))
            \/ q = Holder(at) /\ n = at[1] /\ n \in Containers
<1> DEFINE es == OtherCases(at[1], choice)
<1>1. /\ at \in heap /\ at \in Obj /\ at[1] \in Containers \ {Root}
      /\ es \in SUBSET Elements(at[1]) /\ Unset_(at, es)
      /\ changed' = [changed EXCEPT ![at] = TRUE]
  BY ObjPair DEF Shape, TypeOK, CallOK, SetStep, OtherCases
<1>2. IF n \in Leaves THEN leaf'[q][n] # Unset ELSE changed'[<<n, kid'[q][n]>>]
  BY DEF Used
<1>3. CASE IF n \in Leaves THEN leaf'[q][n] # Unset ELSE changed[<<n, kid'[q][n]>>]
  BY <1>1, <1>3, UnsetUses
<1>4. CASE n \notin Leaves /\ ~changed[<<n, kid'[q][n]>>]
  <2>1. Shape' /\ q \in Obj
    BY ShapeSetStep DEF Shape, TypeOK
  <2>2. n \in Kids(q[1]) /\ n \in Containers /\ Parent[n] = q[1]
    BY <1>4, ElementCases DEF Kids, Elements
  <2>3. <<n, kid'[q][n]>> \in heap' /\ up'[<<n, kid'[q][n]>>] = q[2]
    BY <2>1, <2>2 DEF Shape, SlotsMatchParents, Kids, Elements
  <2>4. <<n, kid'[q][n]>> \in Obj
    BY <2>1, <2>3 DEF Shape, TypeOK
  <2>5. <<n, kid'[q][n]>> = at
    BY <1>1, <1>2, <1>4, <2>4 DEF Shape, TypeOK
  <2>6. up'[at] = up[at]
    BY <1>1, NewObjectsFresh DEF Unset_, UnsetUp
  <2>7. n = at[1] /\ q = Holder(at)
    BY <1>1, <2>1, <2>2, <2>3, <2>5, <2>6, ObjPair DEF Holder
  <2>8. q \in heap
    BY <1>1, <2>7 DEF Shape, HoldersExist
  <2> QED BY <2>2, <2>7, <2>8
<1> QED BY <1>2, <1>3, <1>4

\* What is in use after a container was copied into a slot.
LEMMA CopyUses ==
  ASSUME Shape, CopyContainer, NEW q \in heap', NEW n \in Elements(q[1]), Used(q, n)'
  PROVE  \/ q \in heap /\ Used(q, n)
         \/ q = setter.obj /\ n = setter.elem
         \/ q[1] \in Sub[setter.elem] /\ changed'[q]
<1> DEFINE o == setter.obj
           c == setter.elem
           new == NewObjects({c})
<1>1. PICK from \in [Sub[c] -> Gens] :
        /\ Room({c})
        /\ heap' = heap \cup new
        /\ kid' = UnsetKid(o, {c})
        /\ leaf' = [x \in Obj |-> IF x \in new /\ x[1] \in Copied(c, from)
                                  THEN leaf[<<x[1], from[x[1]]>>] ELSE leaf[x]]
        /\ changed' = [x \in Obj |-> \/ changed[x]
                                     \/ x \in new /\ x[1] \in Copied(c, from)]
  BY DEF CopyContainer
<1>2. /\ setter \in Setters /\ o \in heap /\ o \in Obj /\ o[1] \in Containers
      /\ c \in Containers \ {Root} /\ c \in Nodes /\ Parent[c] = o[1]
      /\ heap \subseteq Obj
  BY ObjPair, SetterFields, SchemaAssumption DEF Shape, TypeOK, CallOK, CopyContainer, Nodes
<1>3. {c} \in SUBSET Elements(o[1]) /\ Rebuilt({c}) = Sub[c]
  BY <1>2 DEF Elements, Rebuilt
<1>4. /\ new \subseteq Obj
      /\ new \cap heap = {}
      /\ \A x \in new : x[1] \in Sub[c] /\ x[2] = Fresh(x[1])
      /\ \A d \in Sub[c] : <<d, Fresh(d)>> \in new
  <2>1. /\ new \subseteq Obj
        /\ new \cap heap = {}
        /\ \A x \in new : x[1] \in Rebuilt({c}) /\ x[2] = Fresh(x[1])
        /\ \A d \in Rebuilt({c}) : <<d, Fresh(d)>> \in new
    BY <1>1, <1>2, <1>3, NewObjectsFresh
  <2> QED BY <1>3, <2>1
<1>5. \A d \in Sub[c] : \A k \in Kids(d) : k \in Sub[c]
  BY <1>2, <1>3, RebuiltClosed
<1>6. q \in Obj
  BY <1>1, <1>2, <1>4
<1>7. CASE q \in heap
  <2>1. q \notin new /\ leaf'[q] = leaf[q]
    BY <1>1, <1>4, <1>6, <1>7
  <2>2. CASE n \in Leaves
    BY <1>7, <2>1, <2>2 DEF Used
  <2>3. CASE n \notin Leaves /\ n \in Kids(q[1]) /\ ~(q = o /\ n = c)
    <3>1. kid'[q][n] = kid[q][n]
      BY <1>1, <1>6, <2>1, <2>3 DEF UnsetKid, Kids
    <3>2. <<n, kid[q][n]>> \in heap
      BY <1>7, <2>3, SlotOwner
    <3>3. changed'[<<n, kid[q][n]>>] => changed[<<n, kid[q][n]>>]
      BY <1>1, <1>2, <1>4, <3>2
    <3> QED BY <1>7, <2>3, <3>1, <3>3 DEF Used
  <2> QED BY <2>2, <2>3, ElementCases
<1>8. CASE q \in new
  <2>1. q[1] \in Sub[c] /\ q \notin heap
    BY <1>4, <1>8
  <2>2. q[1] \in Copied(c, from)
    <3>1. CASE n \in Leaves
      BY <1>1, <1>6, <2>1, <3>1 DEF Used, Shape, Pristine
    <3>2. CASE n \notin Leaves /\ n \in Kids(q[1])
      <4>1. kid'[q][n] = Fresh(n)
        BY <1>1, <1>2, <1>4, <1>6, <1>8, <3>2 DEF UnsetKid, Kids
      <4>2. n \in Sub[c] /\ <<n, Fresh(n)>> \in new
        BY <1>4, <1>5, <2>1, <3>2
      <4>3. ~changed[<<n, Fresh(n)>>]
        BY <1>4, <4>2 DEF Shape, Pristine
      <4>4. n \in Copied(c, from)
        BY <1>1, <1>4, <3>2, <4>1, <4>2, <4>3 DEF Used
      <4>5. n \in Containers \ {Root} /\ Parent[n] = q[1]
        BY <1>2, <1>3, <3>2, <4>2, RebuiltClosed DEF Kids, Elements
      <4>6. \A m \in Sub[c] \ {c} : q[1] \in Sub[m] => n \in Sub[m]
        BY <1>2, <4>5, SchemaAssumption
      <4> QED BY <2>1, <4>4, <4>6 DEF Copied
    <3> QED BY <3>1, <3>2, ElementCases
  <2> QED BY <1>1, <1>6, <1>8, <2>1, <2>2
<1> QED BY <1>1, <1>7, <1>8

LEMMA CollectUses ==
  ASSUME Shape, Collect, NEW q \in heap', NEW n \in Elements(q[1]), Used(q, n)'
  PROVE  q \in heap /\ Used(q, n) /\ (changed[q] => changed'[q])
<1>1. q \in heap /\ q \in Reachable /\ q \in Obj
  BY DEF Collect, Shape, TypeOK
<1>2. leaf'[q] = leaf[q] /\ kid'[q] = kid[q] /\ (changed[q] => changed'[q])
  BY <1>1 DEF Collect
<1>3. \A x \in Obj : changed'[x] => changed[x]
  BY DEF Collect
<1>4. CASE n \in Leaves
  BY <1>1, <1>2, <1>4 DEF Used
<1>5. CASE n \notin Leaves /\ n \in Kids(q[1])
  <2>1. <<n, kid[q][n]>> \in Obj
    BY <1>1, <1>5, SlotOwner DEF Shape, TypeOK
  <2> QED BY <1>1, <1>2, <1>3, <1>5, <2>1 DEF Used
<1> QED BY <1>4, <1>5, ElementCases

LEMMA StoreUses ==
  ASSUME Shape, StoreLeaf, NEW q \in heap, NEW n \in Elements(q[1]), Used(q, n)'
  PROVE  Used(q, n) \/ (q = setter.obj /\ n = setter.elem)
<1>1. /\ q \in Obj
      /\ leaf' = [leaf EXCEPT ![setter.obj][setter.elem] = setter.val]
      /\ UNCHANGED <<kid, changed>>
  BY DEF StoreLeaf, Shape, TypeOK
<1>2. n \in Leaves /\ ~(q = setter.obj /\ n = setter.elem) => leaf'[q][n] = leaf[q][n]
  BY <1>1 DEF Shape, TypeOK
<1> QED BY <1>1, <1>2 DEF Used

\* What an operation of the program leaves in use was in use, and it changes no
\* flag of an object that may not be cleared.
LEMMA OperationUses ==
  ASSUME Shape, Operation, NEW q \in heap', NEW n \in Elements(q[1]), Used(q, n)'
  PROVE  /\ q \in heap
         /\ Used(q, n)
         /\ q[1] \notin Clearable /\ changed[q] => changed'[q]
<1>1. q \in Obj
  BY ShapeOperation DEF Shape, TypeOK
<1>2. CASE UNCHANGED <<heap, kid, leaf, changed>>
  BY <1>2 DEF Used
<1>3. ASSUME NEW o \in heap, NEW m \in Nodes, UnsetElement(o, m)
      PROVE  q \in heap /\ Used(q, n) /\ changed' = changed
  <2>1. {m} \in SUBSET Elements(o[1]) /\ Unset_(o, {m}) /\ changed' = changed
    BY <1>3 DEF UnsetElement, Elements
  <2>2. IF n \in Leaves THEN leaf'[q][n] # Unset ELSE changed[<<n, kid'[q][n]>>]
    BY <2>1 DEF Used
  <2> QED BY <2>1, <2>2, UnsetUses
<1>4. ASSUME NEW o \in heap, ClearPresent(o)
      PROVE  /\ q \in heap /\ Used(q, n)
             /\ q[1] \notin Clearable /\ changed[q] => changed'[q]
  <2>1. /\ o[1] \in Clearable /\ UNCHANGED <<heap, kid, leaf>>
        /\ changed' = [changed EXCEPT ![o] = FALSE]
    BY <1>4 DEF ClearPresent
  <2>2. q \in heap /\ (q[1] \notin Clearable /\ changed[q] => changed'[q])
    BY <2>1 DEF Shape, TypeOK
  <2>3. CASE n \in Leaves
    BY <2>1, <2>3 DEF Used
  <2>4. CASE n \notin Leaves /\ n \in Kids(q[1])
    <3>1. <<n, kid[q][n]>> \in Obj
      BY <2>2, <2>4, SlotOwner DEF Shape, TypeOK
    <3>2. changed'[<<n, kid[q][n]>>] => changed[<<n, kid[q][n]>>]
      BY <2>1, <3>1 DEF Shape, TypeOK
    <3> QED BY <2>1, <2>4, <3>2 DEF Used
  <2> QED BY <2>2, <2>3, <2>4, ElementCases
<1>5. \/ UNCHANGED <<heap, kid, leaf, changed>>
      \/ \E o \in heap : ClearPresent(o) \/ \E m \in Nodes : UnsetElement(o, m)
  BY DEF Operation, Usable, Keep, Drop, SetLeaf, SetContainer, SetPresent, tree
<1> QED BY <1>2, <1>3, <1>4, <1>5

LEMMA FlagsNext == Shape /\ FlagsUpward /\ [Next]_vars => FlagsUpward'
<1> SUFFICES ASSUME Shape, FlagsUpward, [Next]_vars,
                    NEW o \in heap', NEW n \in Elements(o[1]),
                    o[1] \notin Clearable \cup {Root}, o # at', Used(o, n)'
             PROVE  changed'[o]
  BY DEF FlagsUpward, Elements
<1>0. heap \subseteq Obj
  BY DEF Shape, TypeOK
<1>1. CASE Collect
  <2>1. o \in heap /\ Used(o, n) /\ (changed[o] => changed'[o]) /\ at' = at
    BY <1>1, CollectUses DEF Collect, call
  <2> QED BY <2>1 DEF FlagsUpward
<1>2. CASE SetStep
  <2>1. /\ at \in Obj /\ setter \in Setters
        /\ changed' = [changed EXCEPT ![at] = TRUE]
        /\ Call(Holder(at), PassedOn(at[1], choice), setter)
    BY <1>2 DEF Shape, TypeOK, CallOK, SetStep
  <2>2. CASE Used(o, n) /\ o \in heap
    BY <2>1, <2>2, <1>0 DEF FlagsUpward, Shape, TypeOK
  <2>3. CASE o = Holder(at) /\ o \in heap
    BY <2>1, <2>3, <1>0, CallWaits
  <2> QED BY <1>2, <2>2, <2>3, SetStepUses
<1>3. CASE StoreLeaf
  <2>1. /\ at = NoObj /\ heap' = heap /\ changed' = changed /\ setter.obj \in heap
        /\ Call(setter.obj, NoChoice, [kind |-> "mark", obj |-> setter.obj])
    BY <1>3 DEF Shape, CallOK, StoreLeaf
  <2>2. o # setter.obj
    BY <1>0, <2>1, CallWaits, MarkSetter
  <2>3. Used(o, n)
    BY <1>3, <2>1, <2>2, StoreUses
  <2> QED BY <1>0, <2>1, <2>3, NullAssumption DEF FlagsUpward
<1>4. CASE RejectLeaf
  BY <1>4, <1>0, NullAssumption DEF RejectLeaf, tree, FlagsUpward, Used
<1>5. CASE CopyContainer
  <2>1. /\ at = NoObj /\ setter.obj \in heap
        /\ Call(setter.obj, NoChoice, [kind |-> "mark", obj |-> setter.obj])
        /\ \A q \in Obj : changed[q] => changed'[q]
    BY <1>5 DEF Shape, CallOK, CopyContainer
  <2>2. o # setter.obj
    BY <1>0, <2>1, CallWaits, MarkSetter
  <2>3. (o \in heap /\ Used(o, n)) \/ changed'[o]
    BY <1>5, <2>2, CopyUses
  <2> QED BY <1>0, <2>1, <2>3, NullAssumption DEF FlagsUpward
<1>6. CASE Operation
  <2>1. o \in heap /\ Used(o, n) /\ (changed[o] => changed'[o]) /\ at = NoObj
    BY <1>6, OperationUses DEF Shape, CallOK, Operation
  <2> QED BY <1>0, <2>1, NullAssumption DEF FlagsUpward
<1>7. CASE UNCHANGED vars
  BY <1>7 DEF vars, FlagsUpward, Used
<1> QED BY <1>1, <1>2, <1>3, <1>4, <1>5, <1>6, <1>7 DEF Next

LEMMA FlagsInit == Init => FlagsUpward
BY GensNat, ValueAssumption, ElementCases DEF Init, FlagsUpward, Used, Obj, Kids

\* Whatever is set below a container, however deep, is reported by the
\* container's own `_changed()`, which copying and serialising rely on.
THEOREM ChangedCorrect == Spec => []ChangedUpward
<1>1. Shape /\ FlagsUpward => ChangedUpward
  BY NullAssumption DEF Shape, CallOK, FlagsUpward, ChangedUpward
<1>2. Spec => []FlagsUpward
  BY FlagsInit, ShapeAlways, FlagsNext, PTL DEF Spec
<1> QED BY <1>1, <1>2, ShapeAlways, PTL

-----------------------------------------------------------------------------
(* Part four: choices.  Two enforced cases are in use together only while   *)
(* the `_set` that is about to run carries the case that was just written.  *)

Rival(m, n) ==
  /\ ChoiceOf[m] # NoChoice /\ ChoiceOf[n] # NoChoice
  /\ ChoiceOf[m][1] = ChoiceOf[n][1] /\ ChoiceOf[m][2] # ChoiceOf[n][2]

CasesApart ==
  \A o \in heap : \A m, n \in Elements(o[1]) :
    (/\ o[1] # Root /\ Rival(m, n)
     /\ Enforced(m) /\ Enforced(n)
     /\ Used(o, m) /\ Used(o, n))
    => at = o /\ choice \in {ChoiceOf[m], ChoiceOf[n]}

\* The choice that climbs is that of a node below the object it has reached.
ClimbOK ==
  at # NoObj /\ choice # NoChoice =>
    \E n \in Nodes : Parent[n] \in Sub[at[1]] /\ choice = ChoiceOf[n]

\* Once the first half of a setter has passed its object, no rival of the
\* element it is going to store is in use there.
SetterClears ==
  setter # Idle /\ setter.kind # "mark" /\ setter.obj[1] # Root =>
    \/ at = setter.obj /\ choice = ChoiceOf[setter.elem]
    \/ \A n \in Elements(setter.obj[1]) :
         Rival(setter.elem, n) => ~Used(setter.obj, n)

Choices == CasesApart /\ ClimbOK /\ SetterClears

\* A container's own node is not at or below any of its elements.
LEMMA ParentAbove ==
  ASSUME NEW c \in Containers \ {Root}
  PROVE  Parent[c] \in Containers /\ Parent[c] \notin Sub[c] /\ Parent[c] # c
BY SchemaAssumption DEF Nodes

LEMMA ChoicesSetStep == Shape /\ Choices /\ SetStep => Choices'
<1> SUFFICES ASSUME Shape, Choices, SetStep PROVE Choices'
  OBVIOUS
<1> DEFINE h == Holder(at)
           es == OtherCases(at[1], choice)
<1>1. /\ at \in heap /\ at \in Obj /\ at[1] \in Containers \ {Root} /\ at # NoObj
      /\ setter \in Setters /\ setter # Idle /\ setter.obj \in heap
      /\ Call(h, PassedOn(at[1], choice), setter) /\ heap \subseteq Obj
  BY ObjPair DEF Shape, TypeOK, CallOK, SetStep
<1>2. h \in heap /\ h \in Obj /\ h[1] = Parent[at[1]] /\ h[1] \in Containers /\ h # at
  BY <1>1, ParentAbove DEF Shape, HoldersExist, Holder
<1>3. /\ at' # NoObj => at' = h /\ h[1] # Root /\ choice' = PassedOn(at[1], choice)
      /\ h[1] # Root => at' = h
      /\ setter' = setter \/ setter' = Idle
  BY <1>1, <1>2, CallEffect, CallWaits
<1>4. at[1] \in Nodes /\ Parent[at[1]] \in Sub[h[1]]
  BY <1>1, <1>2, SelfBelow DEF Nodes
<1>5. CasesApart'
  <2> SUFFICES ASSUME NEW o \in heap', NEW m \in Elements(o[1]), NEW n \in Elements(o[1]),
                      o[1] # Root, Rival(m, n), Enforced(m), Enforced(n),
                      Used(o, m)', Used(o, n)'
               PROVE  at' = o /\ choice' \in {ChoiceOf[m], ChoiceOf[n]}
    BY DEF CasesApart, Elements, Rival, Enforced
  <2>1. ASSUME NEW k \in {m, n}, Enforced(k), o = h, k = at[1], k \in Containers
        PROVE  at' = o /\ choice' = ChoiceOf[k]
    <3>1. choice = NoChoice
      BY <1>1, <2>1 DEF Choices, ClimbOK, Enforced
    <3> QED BY <1>2, <1>3, <2>1, <3>1, NullAssumption DEF PassedOn
  <2>2. ASSUME o \in heap, Used(o, m), Used(o, n),
               ~(o = at /\ m \in es), ~(o = at /\ n \in es)
        PROVE  FALSE
    <3>1. at = o /\ choice \in {ChoiceOf[m], ChoiceOf[n]}
      BY <2>2 DEF Choices, CasesApart
    <3> QED BY <2>2, <3>1 DEF OtherCases, Rival
  <2> QED BY <2>1, <2>2, SetStepUses
<1>6. ClimbOK'
  <2> SUFFICES ASSUME at' # NoObj, choice' # NoChoice
               PROVE  \E n \in Nodes : Parent[n] \in Sub[at'[1]] /\ choice' = ChoiceOf[n]
    BY DEF ClimbOK
  <2>1. at' = h /\ choice' = PassedOn(at[1], choice)
    BY <1>3
  <2>2. CASE choice = NoChoice
    BY <1>4, <2>1, <2>2 DEF PassedOn
  <2>3. CASE choice # NoChoice
    <3>1. PICK n \in Nodes : Parent[n] \in Sub[at[1]] /\ choice = ChoiceOf[n]
      BY <1>1, <2>3 DEF Choices, ClimbOK
    <3>2. Parent[n] \in Sub[h[1]]
      BY <1>1, <1>2, <1>4, <3>1, SchemaAssumption
    <3> QED BY <2>1, <2>3, <3>1, <3>2 DEF PassedOn
  <2> QED BY <2>2, <2>3
<1>7. SetterClears'
  <2> SUFFICES ASSUME setter' = setter, setter.kind # "mark", setter.obj[1] # Root,
                      NEW n \in Elements(setter.obj[1]), Rival(setter.elem, n),
                      Used(setter.obj, n)'
               PROVE  FALSE
    BY <1>1, <1>3 DEF SetterClears, Elements, Rival
  <2>1. setter.obj \in heap'
    BY <1>1 DEF SetStep, Unset_
  <2>2. ~(setter.obj = h /\ n = at[1] /\ n \in Containers)
    <3>1. setter.obj[1] \in Sub[at[1]]
      BY <1>1 DEF Shape, CallOK
    <3> QED BY <1>1, <1>2, <3>1, ParentAbove
  <2>3. Used(setter.obj, n) /\ ~(setter.obj = at /\ n \in es)
    BY <2>1, <2>2, SetStepUses
  <2>4. at = setter.obj /\ choice = ChoiceOf[setter.elem]
    BY <1>1, <2>3 DEF Choices, SetterClears
  <2>5. n \in es
    BY <2>4 DEF OtherCases, Rival
  <2> QED BY <2>3, <2>4, <2>5
<1> QED BY <1>5, <1>6, <1>7 DEF Choices

LEMMA ChoicesStart ==
  ASSUME Shape, Choices, Operation
  PROVE  Choices'
<1>0. at = NoObj /\ heap \subseteq Obj
  BY DEF Shape, TypeOK, CallOK, Operation
<1>1. ASSUME NEW o \in heap', NEW m \in Elements(o[1]), NEW n \in Elements(o[1]),
             o[1] # Root, Rival(m, n), Enforced(m), Enforced(n),
             Used(o, m)', Used(o, n)'
      PROVE  FALSE
  <2>1. o \in heap /\ Used(o, m) /\ Used(o, n)
    BY <1>1, OperationUses
  <2> QED BY <1>0, <1>1, <2>1, NullAssumption DEF Choices, CasesApart
<1>2. CasesApart'
  BY <1>1 DEF CasesApart, Elements, Rival, Enforced
<1>3. ASSUME NEW o \in heap, NEW e \in Nodes, NEW s \in Setters, Parent[e] = o[1],
             s.obj = o, s.elem = e, Call(o, ChoiceOf[e], s)
      PROVE  ClimbOK' /\ SetterClears'
  <2>1. o \in Obj /\ o[1] \in Containers
    BY <1>0, ObjPair
  <2>2. ClimbOK'
    BY <1>3, <2>1, CallEffect, SelfBelow DEF ClimbOK
  <2>3. SetterClears'
    <3>1. CASE o[1] = Root
      BY <1>3, <2>1, <3>1, CallEffect DEF SetterClears
    <3>2. CASE o[1] # Root
      BY <1>3, <2>1, <3>2, CallEffect, CallWaits, NullAssumption DEF SetterClears
    <3> QED BY <3>1, <3>2
  <2> QED BY <2>2, <2>3
<1>4. ASSUME NEW o \in heap, NEW l \in Leaves, NEW v \in Values, NEW ok \in BOOLEAN,
             SetLeaf(o, l, v, ok)
      PROVE  ClimbOK' /\ SetterClears'
  <2> DEFINE s == [kind |-> "leaf", obj |-> o, elem |-> l, val |-> v, ok |-> ok]
  <2>1. s \in Setters /\ s.obj = o /\ s.elem = l
    BY <1>0 DEF Setters
  <2>2. l \in Nodes /\ Parent[l] = o[1] /\ Call(o, ChoiceOf[l], s)
    BY <1>4 DEF SetLeaf, Nodes
  <2> QED BY <1>3, <2>1, <2>2
<1>5. ASSUME NEW o \in heap, NEW c \in Copyable, NEW src \in heap, SetContainer(o, c, src)
      PROVE  ClimbOK' /\ SetterClears'
  <2> DEFINE s == [kind |-> "container", obj |-> o, elem |-> c, src |-> src]
  <2>1. c \in Nodes /\ c \in Containers
    BY RoleAssumption DEF Nodes
  <2>2. s \in Setters /\ s.obj = o /\ s.elem = c
    BY <1>0, <2>1 DEF Setters
  <2>3. Parent[c] = o[1] /\ Call(o, ChoiceOf[c], s)
    BY <1>5 DEF SetContainer
  <2> QED BY <1>3, <2>1, <2>2, <2>3
<1>6. ASSUME NEW o \in heap, SetPresent(o)
      PROVE  ClimbOK' /\ SetterClears'
  <2> DEFINE s == [kind |-> "mark", obj |-> o]
  <2>1. o \in Obj /\ s \in Setters /\ s.kind = "mark" /\ Call(o, NoChoice, s)
    BY <1>0, <1>6, MarkSetter DEF SetPresent
  <2>2. choice' = NoChoice /\ (setter' = Idle \/ setter'.kind = "mark")
    BY <2>1, CallEffect
  <2> QED BY <2>2 DEF ClimbOK, SetterClears
<1>7. ASSUME UNCHANGED call
      PROVE  ClimbOK' /\ SetterClears'
  BY <1>0, <1>7, NullAssumption DEF ClimbOK, SetterClears, call, Operation
<1> QED BY <1>2, <1>4, <1>5, <1>6, <1>7
        DEF Choices, Operation, Usable, Keep, Drop, UnsetElement, ClearPresent

\* The second half of a setter: its element comes into use, its rivals are not.
LEMMA ChoicesStore == Shape /\ Choices /\ (StoreLeaf \/ CopyContainer) => Choices'
<1> SUFFICES ASSUME Shape, Choices, StoreLeaf \/ CopyContainer PROVE Choices'
  OBVIOUS
<1> DEFINE s == [kind |-> "mark", obj |-> setter.obj]
<1>1. /\ at = NoObj /\ heap \subseteq Obj /\ setter # Idle /\ setter.kind # "mark"
      /\ setter.obj \in heap /\ setter.obj \in Obj /\ setter.obj[1] \in Containers
      /\ s \in Setters /\ s.kind = "mark" /\ Call(setter.obj, NoChoice, s)
  BY ObjPair, MarkSetter DEF Shape, TypeOK, CallOK, StoreLeaf, CopyContainer
<1>2. choice' = NoChoice /\ (setter' = Idle \/ setter'.kind = "mark")
  BY <1>1, CallEffect
<1>3. ClimbOK' /\ SetterClears'
  BY <1>2 DEF ClimbOK, SetterClears
<1>4. ASSUME NEW o \in heap', NEW m \in Elements(o[1]), NEW n \in Elements(o[1]),
             o[1] # Root, Rival(m, n), Enforced(m), Enforced(n),
             Used(o, m)', Used(o, n)'
      PROVE  FALSE
  <2>1. \A k \in {m, n} :
          \/ o \in heap /\ Used(o, k)
          \/ o = setter.obj /\ k = setter.elem
          \/ CopyContainer /\ o[1] \in Sub[setter.elem]
    BY <1>4, CopyUses, StoreUses DEF StoreLeaf
  <2>2. ~(o \in heap /\ Used(o, m) /\ Used(o, n))
    BY <1>1, <1>4, NullAssumption DEF Choices, CasesApart
  <2>3. ASSUME CopyContainer, o[1] \in Sub[setter.elem] PROVE FALSE
    <3>1. setter.elem \in Copyable /\ m \in Nodes /\ Parent[m] = o[1]
      BY <1>1, <2>3 DEF Shape, CallOK, CopyContainer, Elements
    <3> QED BY <1>4, <2>3, <3>1, RoleAssumption DEF Rival
  <2>4. o = setter.obj
    BY <2>1, <2>2, <2>3
  <2>5. \A k \in Elements(o[1]) : Rival(setter.elem, k) => ~Used(o, k)
    BY <1>1, <1>4, <2>4, NullAssumption DEF Choices, SetterClears
  <2>6. Rival(n, m)
    BY <1>4 DEF Rival
  <2>7. ~Rival(setter.elem, setter.elem)
    BY DEF Rival
  <2> QED BY <1>4, <2>1, <2>2, <2>3, <2>4, <2>5, <2>6, <2>7
<1>5. CasesApart'
  BY <1>4 DEF CasesApart, Elements, Rival, Enforced
<1> QED BY <1>3, <1>5 DEF Choices

LEMMA ChoicesCollect == Shape /\ Choices /\ Collect => Choices'
<1> SUFFICES ASSUME Shape, Choices, Collect PROVE Choices'
  OBVIOUS
<1>1. UNCHANGED <<at, choice, setter>>
  BY DEF Collect, call
<1>2. CasesApart'
  <2> SUFFICES ASSUME NEW o \in heap', NEW m \in Elements(o[1]), NEW n \in Elements(o[1]),
                      o[1] # Root, Rival(m, n), Enforced(m), Enforced(n),
                      Used(o, m)', Used(o, n)'
               PROVE  at' = o /\ choice' \in {ChoiceOf[m], ChoiceOf[n]}
    BY DEF CasesApart, Elements, Rival, Enforced
  <2>1. o \in heap /\ Used(o, m) /\ Used(o, n)
    BY CollectUses
  <2> QED BY <1>1, <2>1 DEF Choices, CasesApart
<1>3. ClimbOK'
  BY <1>1 DEF Choices, ClimbOK
<1>4. SetterClears'
  <2> SUFFICES ASSUME setter # Idle, NEW n \in Elements(setter.obj[1]),
                      Used(setter.obj, n)'
               PROVE  Used(setter.obj, n)
    BY <1>1 DEF Choices, SetterClears, Elements, Rival
  <2>1. setter.obj \in heap'
    BY <1>1, ShapeCollect DEF Shape, CallOK
  <2> QED BY <1>1, <2>1, CollectUses
<1> QED BY <1>2, <1>3, <1>4 DEF Choices

LEMMA ChoicesNext == Shape /\ Choices /\ [Next]_vars => Choices'
<1> SUFFICES ASSUME Shape, Choices, [Next]_vars PROVE Choices'
  OBVIOUS
<1>1. CASE Collect
  BY <1>1, ChoicesCollect
<1>2. CASE SetStep
  BY <1>2, ChoicesSetStep
<1>3. CASE StoreLeaf \/ CopyContainer
  BY <1>3, ChoicesStore
<1>4. CASE RejectLeaf
  <2>1. UNCHANGED tree /\ UNCHANGED <<at, choice>> /\ setter' = Idle
    BY <1>4 DEF RejectLeaf
  <2> QED BY <2>1 DEF Choices, CasesApart, ClimbOK, SetterClears, tree, Used, Rival
<1>5. CASE Operation
  BY <1>5, ChoicesStart
<1>6. CASE UNCHANGED vars
  BY <1>6 DEF vars, Choices, CasesApart, ClimbOK, SetterClears, Used, Rival
<1> QED BY <1>1, <1>2, <1>3, <1>4, <1>5, <1>6 DEF Next

\* Two cases of one choice are never in use side by side once a setter has
\* returned, in any object, live or stale, provided neither holds a choice.
THEOREM ChoicesCorrect == Spec => []ChoiceExclusive
<1>1. Init => Choices
  BY GensNat, ValueAssumption, ElementCases
     DEF Init, Choices, CasesApart, ClimbOK, SetterClears, Used, Obj, Kids
<1>2. Shape /\ Choices => ChoiceExclusive
  BY NullAssumption DEF Shape, CallOK, Choices, CasesApart, ChoiceExclusive, Rival
<1>3. Spec => []Choices
  BY <1>1, ShapeAlways, ChoicesNext, PTL DEF Spec
<1> QED BY <1>2, <1>3, ShapeAlways, PTL

-----------------------------------------------------------------------------
(* The schema is a tree                                                    *)

LEMMA BelowItsParent ==
  ASSUME NEW c \in Containers \ {Root}
  PROVE  c \in Nodes /\ Parent[c] \in Containers /\ c \in Sub[Parent[c]]
BY SchemaAssumption DEF Nodes

\* What holds of the root and, with a container, of the containers in it,
\* holds of all: above a container there are only finitely many.
LEMMA TreeInduction ==
  ASSUME IsFiniteSet(Containers), NEW S, Root \in S,
         \A c \in Containers \ {Root} : Parent[c] \in S => c \in S
  PROVE  Containers \subseteq S
<1> DEFINE T == Containers \ S
           Big == {n \in Nat : \E c \in T : Cardinality(Sub[c]) > n}
<1> SUFFICES ASSUME NEW x \in Containers, x \notin S PROVE FALSE
  OBVIOUS
<1>1. \A c \in Containers : Sub[c] \subseteq Containers /\ c \in Sub[c]
  BY SchemaAssumption
<1>2. \A c \in Containers : /\ IsFiniteSet(Sub[c])
                            /\ Cardinality(Sub[c]) \in Nat
                            /\ Cardinality(Sub[c]) <= Cardinality(Containers)
  BY <1>1, FS_Subset, FS_CardinalityType
<1>3. 0 \in Big
  <2>1. Cardinality(Sub[x]) # 0
    BY <1>1, <1>2, FS_EmptySet
  <2>2. \A k \in Nat : k # 0 => k > 0
    OBVIOUS
  <2>3. Cardinality(Sub[x]) > 0
    BY <1>2, <2>1, <2>2
  <2> QED BY <2>3
<1>4. ASSUME NEW n \in Nat, n \in Big PROVE n + 1 \in Big
  <2>1. PICK c \in T : Cardinality(Sub[c]) > n
    BY <1>4
  <2>2. c \in Containers \ {Root} /\ Parent[c] \in T
    BY <2>1, BelowItsParent
  <2>3. Sub[c] \subseteq Sub[Parent[c]] /\ Parent[c] \in Sub[Parent[c]] /\ Parent[c] \notin Sub[c]
    BY <2>2, BelowItsParent, SchemaAssumption
  <2>4. /\ Cardinality(Sub[c]) <= Cardinality(Sub[Parent[c]])
        /\ Cardinality(Sub[c]) # Cardinality(Sub[Parent[c]])
    BY <1>2, <2>2, <2>3, FS_Subset
  <2>5. \A k, l \in Nat : k > n /\ k <= l /\ k # l => l > n + 1
    OBVIOUS
  <2>6. Cardinality(Sub[Parent[c]]) > n + 1
    BY <1>2, <2>1, <2>2, <2>4, <2>5
  <2> QED BY <2>2, <2>6
<1>5. Nat \subseteq Big
  <2> HIDE DEF Big
  <2> QED BY <1>3, <1>4, NumbersInduction
<1>6. Cardinality(Containers) \in Nat
  BY FS_CardinalityType
<1>7. PICK c \in T : Cardinality(Sub[c]) > Cardinality(Containers)
  BY <1>5, <1>6
<1>8. \A k, l \in Nat : k > l /\ k <= l => FALSE
  OBVIOUS
<1> QED BY <1>2, <1>6, <1>7, <1>8

LEMMA AllBelowRoot ==
  ASSUME IsFiniteSet(Containers)
  PROVE  Sub[Root] = Containers
<1>1. Root \in Sub[Root] /\ \A c \in Containers \ {Root} : Parent[c] \in Sub[Root] => c \in Sub[Root]
  BY SchemaAssumption
<1>2. Containers \subseteq Sub[Root]
  BY <1>1, TreeInduction
<1> QED BY <1>2, SchemaAssumption

LEMMA OnlyRootAboveRoot ==
  ASSUME NEW c \in Containers, Root \in Sub[c]
  PROVE  c = Root
BY SchemaAssumption

\* The containers above one are a chain.
LEMMA AboveInLine ==
  ASSUME IsFiniteSet(Containers), NEW c \in Containers, NEW d \in Containers,
         NEW x \in Containers, x \in Sub[c], x \in Sub[d]
  PROVE  c \in Sub[d] \/ d \in Sub[c]
<1> DEFINE S == {y \in Containers : y \in Sub[c] /\ y \in Sub[d] => c \in Sub[d] \/ d \in Sub[c]}
<1>1. Root \in S
  BY OnlyRootAboveRoot, SchemaAssumption
<1>2. ASSUME NEW y \in Containers \ {Root}, Parent[y] \in S PROVE y \in S
  <2>1. \A e \in Containers : y \in Sub[e] => y = e \/ Parent[y] \in Sub[e]
    BY SchemaAssumption
  <2> QED BY <1>2, <2>1
<1>3. Containers \subseteq S
  <2> HIDE DEF S
  <2> QED BY <1>1, <1>2, TreeInduction
<1> QED BY <1>3

LEMMA InBoth ==
  ASSUME NEW c \in Containers, NEW d \in Containers, c \in Sub[d], d \in Sub[c]
  PROVE  c = d
<1> SUFFICES ASSUME c # d PROVE FALSE
  OBVIOUS
<1>1. c # Root
  BY OnlyRootAboveRoot
<1>2. Parent[c] \in Sub[d]
  BY <1>1, SchemaAssumption
<1>3. Parent[c] \in Sub[c]
  BY <1>2, SchemaAssumption
<1> QED BY <1>1, <1>3, ParentAbove

-----------------------------------------------------------------------------
(* Paths                                                                   *)

LEMMA NodeFacts ==
  ASSUME NEW n \in Nodes
  PROVE  /\ Parent[n] \in Containers
         /\ n \in Containers => n # Root /\ n \in Sub[Parent[n]] /\ Parent[n] \notin Sub[n]
         /\ n \notin Containers => n \in Leaves
         /\ n \in Leaves => n \notin Containers
         /\ n \in Path(n)
BY SchemaAssumption DEF Nodes, Path

LEMMA UnderIsPath ==
  ASSUME NEW n \in Nodes, NEW l \in Leaves
  PROVE  l \in Nodes /\ (l \in LeavesUnder(n) <=> n \in Path(l))
BY DEF LeavesUnder, Path, Nodes

LEMMA PathUp ==
  ASSUME NEW n \in Nodes, NEW d \in Path(n), Parent[d] # Root
  PROVE  Parent[d] \in Path(n)
<1>1. d \in Nodes /\ Parent[d] \in Containers \ {Root} /\ Parent[d] \in Sub[Parent[d]]
  BY NodeFacts, SchemaAssumption DEF Path
<1>2. CASE d = n
  BY <1>1, <1>2 DEF Path, Nodes
<1>3. CASE d \in Containers /\ Parent[n] \in Sub[d]
  <2>1. Sub[d] \subseteq Sub[Parent[d]]
    BY <1>1, <1>3, NodeFacts, SchemaAssumption
  <2> QED BY <1>1, <1>3, <2>1 DEF Path, Nodes
<1> QED BY <1>2, <1>3 DEF Path

LEMMA PathOfPath ==
  ASSUME NEW n \in Nodes, NEW d \in Path(n), NEW e \in Path(d)
  PROVE  e \in Path(n)
<1>1. d \in Nodes /\ e \in Nodes
  BY DEF Path
<1>2. CASE d = n \/ e = d
  BY <1>2
<1>3. CASE d # n /\ e # d
  <2>1. d \in Containers /\ Parent[n] \in Sub[d] /\ e \in Containers /\ Parent[d] \in Sub[e]
    BY <1>3 DEF Path
  <2>2. d \in Sub[e]
    BY <1>1, <2>1, NodeFacts, SchemaAssumption
  <2> QED BY <1>1, <2>1, <2>2, SchemaAssumption DEF Path
<1> QED BY <1>2, <1>3

\* Of the elements of one container at most one is on the path to a node.
LEMMA OneOnPath ==
  ASSUME IsFiniteSet(Containers), NEW n \in Nodes, NEW d \in Path(n), NEW e \in Path(n),
         Parent[d] = Parent[e]
  PROVE  d = e
<1> SUFFICES ASSUME d # e PROVE FALSE
  OBVIOUS
<1>1. d \in Nodes /\ e \in Nodes
  BY DEF Path
<1>2. d # n
  <2> SUFFICES ASSUME d = n PROVE FALSE
    OBVIOUS
  <2>1. e \in Containers /\ Parent[n] \in Sub[e]
    BY DEF Path
  <2> QED BY <1>1, <2>1, NodeFacts
<1>3. e # n
  <2> SUFFICES ASSUME e = n PROVE FALSE
    OBVIOUS
  <2>1. d \in Containers /\ Parent[n] \in Sub[d]
    BY DEF Path
  <2> QED BY <1>1, <2>1, NodeFacts
<1>4. d \in Containers \ {Root} /\ e \in Containers \ {Root} /\ Parent[n] \in Sub[d] /\ Parent[n] \in Sub[e]
  BY <1>1, <1>2, <1>3, NodeFacts DEF Path
<1>5. d \in Sub[e] \/ e \in Sub[d]
  BY <1>4, NodeFacts, AboveInLine
<1>6. Parent[d] \in Sub[e] \/ Parent[e] \in Sub[d]
  BY <1>4, <1>5, SchemaAssumption
<1> QED BY <1>4, <1>6, ParentAbove

\* Two nodes on the path to a third: one is on the path to the other.
LEMMA PathInLine ==
  ASSUME IsFiniteSet(Containers), NEW n \in Nodes, NEW d \in Path(n), NEW e \in Path(n)
  PROVE  d \in Path(e) \/ e \in Path(d)
<1>1. d \in Nodes /\ e \in Nodes
  BY DEF Path
<1>2. CASE d = n \/ e = n \/ d = e
  BY <1>1, <1>2, NodeFacts
<1>3. CASE d # n /\ e # n /\ d # e
  <2>1. d \in Containers \ {Root} /\ e \in Containers \ {Root} /\ Parent[n] \in Sub[d] /\ Parent[n] \in Sub[e]
    BY <1>1, <1>3, NodeFacts DEF Path
  <2>2. d \in Sub[e] \/ e \in Sub[d]
    BY <2>1, NodeFacts, AboveInLine
  <2>3. Parent[d] \in Sub[e] \/ Parent[e] \in Sub[d]
    BY <1>3, <2>1, <2>2, SchemaAssumption
  <2> QED BY <1>1, <2>1, <2>3 DEF Path
<1> QED BY <1>2, <1>3

-----------------------------------------------------------------------------
(* Rivals                                                                  *)

\* Leaf k is in another case than d, in a choice among the elements of one
\* container.
RivalAt(d, k) ==
  \E e \in Path(k) : Parent[d] = Parent[e] /\ Parent[d] # Root /\ Rival(d, e)

LEMMA RivalsOnPath ==
  ASSUME NEW n, NEW k
  PROVE  k \in RivalsOf(n) <=> k \in Leaves /\ \E d \in Path(n) : RivalAt(d, k)
BY DEF RivalsOf, RivalAt, Rival

LEMMA RivalsBothWays ==
  ASSUME NEW l \in Leaves, NEW k \in Leaves, k \in RivalsOf(l)
  PROVE  l \in RivalsOf(k)
<1>1. PICK d \in Path(l), e \in Path(k) : Parent[d] = Parent[e] /\ Parent[d] # Root /\ Rival(d, e)
  BY RivalsOnPath DEF RivalAt
<1>2. Rival(e, d)
  BY <1>1 DEF Rival
<1> QED BY <1>1, <1>2, RivalsOnPath DEF RivalAt

\* What lies below a node is in no other case than the node.
LEMMA RivalsOutside ==
  ASSUME IsFiniteSet(Containers), NEW n \in Nodes, NEW k \in RivalsOf(n)
  PROVE  k \in Leaves /\ k \notin LeavesUnder(n)
<1>1. k \in Leaves /\ k \in Nodes
  BY RivalsOnPath DEF Nodes
<1> SUFFICES ASSUME k \in LeavesUnder(n) PROVE FALSE
  BY <1>1
<1>2. n \in Path(k)
  BY <1>1, UnderIsPath
<1>3. PICK d \in Path(n), e \in Path(k) : Parent[d] = Parent[e] /\ Rival(d, e)
  BY RivalsOnPath DEF RivalAt
<1>4. d \in Path(k)
  BY <1>1, <1>2, PathOfPath
<1>5. d = e
  BY <1>1, <1>3, <1>4, OneOnPath
<1> QED BY <1>3, <1>5 DEF Rival

LEMMA RivalsBelow ==
  ASSUME NEW n \in Nodes, NEW c \in Path(n)
  PROVE  RivalsOf(c) \subseteq RivalsOf(n)
BY PathOfPath, RivalsOnPath

\* Below what is copied there is no choice: the leaves have its rivals only.
LEMMA RivalsOfCopied ==
  ASSUME IsFiniteSet(Containers), NEW c \in Copyable, NEW l \in LeavesUnder(c)
  PROVE  RivalsOf(l) \subseteq RivalsOf(c)
<1>1. c \in Nodes /\ c \in Containers /\ l \in Leaves /\ l \in Nodes
  BY RoleAssumption DEF Nodes, LeavesUnder
<1>2. c \in Path(l)
  BY <1>1, UnderIsPath
<1> SUFFICES ASSUME NEW k \in RivalsOf(l) PROVE k \in RivalsOf(c)
  OBVIOUS
<1>3. PICK d \in Path(l) : k \in Leaves /\ RivalAt(d, k)
  BY RivalsOnPath
<1>4. ChoiceOf[d] # NoChoice /\ d \in Nodes
  BY <1>3 DEF RivalAt, Rival, Path
<1>5. d \in Path(c)
  <2>1. CASE c \in Path(d)
    <3>1. d = c \/ Parent[d] \in Sub[c]
      BY <2>1 DEF Path
    <3> QED BY <1>1, <1>4, <3>1, RoleAssumption, NodeFacts
  <2> QED BY <1>1, <1>2, <1>3, <2>1, PathInLine
<1> QED BY <1>3, <1>5, RivalsOnPath

-----------------------------------------------------------------------------
(* Following the slots from an object                                      *)

\* g has the generations of the objects below o, as attribute access finds
\* them where the slots hold what K says.
Traces(K, o, g) ==
  g = [c \in Sub[o[1]] |-> IF c = o[1] THEN o[2] ELSE K[<<Parent[c], g[Parent[c]]>>][c]]

Trace(K, o) == CHOOSE g : Traces(K, o, g)

DataIn(K, F, o) ==
  [l \in LeavesUnder(o[1]) |-> F[<<Parent[l], Trace(K, o)[Parent[l]]>>][l]]

\* Every slot of an object of X holds an object of X.
Whole(K, X) == X \subseteq Obj /\ \A o \in X : \A c \in Kids(o[1]) : <<c, K[o][c]>> \in X

LEMMA DataIsTraced ==
  ASSUME NEW o PROVE DataBelow(o) = DataIn(kid, leaf, o)
BY DEF DataBelow, DataIn, Trace, Traces

LEMMA LiveIsTraced ==
  ASSUME IsFiniteSet(Containers) PROVE Live = Trace(kid, RootObj)
BY AllBelowRoot DEF Live, Trace, Traces, RootObj

LEMMA TraceStep ==
  ASSUME NEW K, NEW o \in Obj, NEW g, Traces(K, o, g)
  PROVE  /\ g[o[1]] = o[2]
         /\ \A c \in Sub[o[1]] : c # o[1] => /\ c \in Containers \ {Root}
                                             /\ Parent[c] \in Sub[o[1]]
                                             /\ g[c] = K[<<Parent[c], g[Parent[c]]>>][c]
<1>1. o[1] \in Containers /\ o[1] \in Sub[o[1]]
  BY ObjPair, SelfBelow
<1>2. \A c \in Sub[o[1]] : g[c] = IF c = o[1] THEN o[2] ELSE K[<<Parent[c], g[Parent[c]]>>][c]
  BY DEF Traces
<1>3. g[o[1]] = o[2]
  BY <1>1, <1>2
<1>4. ASSUME NEW c \in Sub[o[1]], c # o[1]
      PROVE  /\ c \in Containers \ {Root}
             /\ Parent[c] \in Sub[o[1]]
             /\ g[c] = K[<<Parent[c], g[Parent[c]]>>][c]
  <2>1. c \in Containers \ {Root}
    BY <1>1, <1>4, OnlyRootAboveRoot, SchemaAssumption
  <2>2. Parent[c] \in Sub[o[1]]
    BY <1>1, <1>4, <2>1, SchemaAssumption
  <2> QED BY <1>2, <1>4, <2>1, <2>2
<1> QED BY <1>3, <1>4

LEMMA TraceOnce ==
  ASSUME IsFiniteSet(Containers), NEW K, NEW o \in Obj, NEW g, NEW h,
         Traces(K, o, g), Traces(K, o, h)
  PROVE  g = h
<1> DEFINE T == Sub[o[1]]
           S == {c \in Containers : c \in T => g[c] = h[c]}
<1>1. o[1] \in Containers
  BY ObjPair
<1>2. \A f \in {g, h} : /\ f[o[1]] = o[2]
                        /\ \A c \in T : c # o[1] =>
                             /\ Parent[c] \in T
                             /\ f[c] = K[<<Parent[c], f[Parent[c]]>>][c]
  BY TraceStep
<1>3. Root \in S
  <2>1. Root \in T => Root = o[1]
    BY <1>1, OnlyRootAboveRoot
  <2>2. g[o[1]] = h[o[1]]
    BY <1>2
  <2> QED BY <2>1, <2>2, SchemaAssumption
<1>4. ASSUME NEW c \in Containers \ {Root}, Parent[c] \in S PROVE c \in S
  <2> SUFFICES ASSUME c \in T PROVE g[c] = h[c]
    OBVIOUS
  <2>1. CASE c = o[1]
    BY <1>2, <2>1
  <2>2. CASE c # o[1]
    <3>1. Parent[c] \in T
      BY <1>2, <2>2
    <3>2. g[Parent[c]] = h[Parent[c]]
      BY <1>4, <3>1
    <3>3. /\ g[c] = K[<<Parent[c], g[Parent[c]]>>][c]
          /\ h[c] = K[<<Parent[c], h[Parent[c]]>>][c]
      BY <1>2, <2>2
    <3> QED BY <3>2, <3>3
  <2> QED BY <2>1, <2>2
<1>5. Containers \subseteq S
  <2> HIDE DEF S
  <2> QED BY <1>3, <1>4, TreeInduction
<1>6. \A c \in T : g[c] = h[c]
  BY <1>1, <1>5, SchemaAssumption
<1>7. DOMAIN g = T /\ DOMAIN h = T /\ g = [c \in T |-> g[c]] /\ h = [c \in T |-> h[c]]
  BY DEF Traces
<1> HIDE DEF T
<1> QED BY <1>6, <1>7

LEMMA TraceExists ==
  ASSUME IsFiniteSet(Containers), NEW K, NEW X, Whole(K, X), NEW o \in X
  PROVE  \E g : Traces(K, o, g) /\ \A c \in Sub[o[1]] : <<c, g[c]>> \in X
<1> DEFINE top == o[1]
           T == Sub[top]
           Step(g, d) == /\ <<Parent[d], g[Parent[d]]>> \in X
                         /\ g[d] = K[<<Parent[d], g[Parent[d]]>>][d]
           Chain(g, c) == /\ g \in [Containers -> Gens]
                          /\ g[top] = o[2]
                          /\ <<c, g[c]>> \in X
                          /\ \A d \in T \ {top} : c \in Sub[d] => Step(g, d)
           A == {c \in Containers : c \in T => \E g : Chain(g, c)}
           B == {c \in Containers : c \in T => \A g, h : Chain(g, c) /\ Chain(h, c) => g[c] = h[c]}
<1>0. o \in Obj /\ top \in Containers /\ o = <<top, o[2]>> /\ o[2] \in Gens
  BY ObjPair DEF Whole
<1>1. \A d \in T \ {top} : d \in Containers \ {Root} /\ Parent[d] \in T /\ d \in Kids(Parent[d]) /\ Parent[d] # d
  <2> SUFFICES ASSUME NEW d \in T \ {top}
               PROVE  d \in Containers \ {Root} /\ Parent[d] \in T /\ d \in Kids(Parent[d]) /\ Parent[d] # d
    OBVIOUS
  <2>1. d \in Containers \ {Root}
    BY <1>0, OnlyRootAboveRoot, SchemaAssumption
  <2>2. Parent[d] \in T
    BY <1>0, <2>1, SchemaAssumption
  <2> QED BY <2>1, <2>2, ParentAbove DEF Kids, Elements, Nodes
<1>2. \A d \in T \ {top} : top \notin Sub[d]
  BY <1>0, <1>1, InBoth
<1>3. ASSUME top \in T PROVE \E g : Chain(g, top)
  <2> DEFINE g == [c \in Containers |-> o[2]]
  <2>1. Chain(g, top)
    BY <1>0, <1>2
  <2> HIDE DEF Chain, g
  <2> QED BY <2>1
<1>4. Containers \subseteq A
  <2>1. Root \in A
    <3>1. Root \in T => Root = top
      BY <1>0, OnlyRootAboveRoot
    <3> HIDE DEF Chain
    <3> QED BY <1>3, <3>1, SchemaAssumption
  <2>2. ASSUME NEW c \in Containers \ {Root}, Parent[c] \in A PROVE c \in A
    <3> SUFFICES ASSUME c \in T, c # top PROVE \E g : Chain(g, c)
      <4> HIDE DEF Chain
      <4> QED BY <1>3
    <3>1. Parent[c] \in T /\ c \in Kids(Parent[c])
      BY <1>1
    <3>2. PICK g : Chain(g, Parent[c])
      <4> HIDE DEF Chain
      <4> QED BY <2>2, <3>1
    <3> DEFINE v == K[<<Parent[c], g[Parent[c]]>>][c]
               h == [g EXCEPT ![c] = v]
    <3>3. <<c, v>> \in X /\ <<c, v>> \in Obj /\ v \in Gens
      <4>1. <<c, v>> \in X
        BY <3>1, <3>2 DEF Whole
      <4> QED BY <4>1, ObjPair DEF Whole, Obj
    <3>4. h \in [Containers -> Gens] /\ h[c] = v /\ \A d \in Containers : d # c => h[d] = g[d]
      BY <3>2, <3>3
    <3>5. ASSUME NEW d \in T \ {top}, c \in Sub[d] PROVE Step(h, d)
      <4>1. CASE d = c
        <5>1. h[Parent[c]] = g[Parent[c]] /\ <<Parent[c], g[Parent[c]]>> \in X
          BY <1>1, <3>2, <3>4, <4>1, <3>5, BelowItsParent
        <5> QED BY <4>1, <5>1, <3>4
      <4>2. CASE d # c
        <5>1. d \in Containers \ {Root} /\ Parent[c] \in Sub[d] /\ Parent[d] \in Containers
          BY <1>1, <3>5, <4>2, SchemaAssumption, BelowItsParent
        <5>2. Parent[d] # c
          BY <5>1, <3>5, ParentAbove
        <5>3. Step(g, d)
          BY <3>2, <3>5, <5>1
        <5> QED BY <5>1, <5>2, <5>3, <3>4, <4>2
      <4> QED BY <4>1, <4>2
    <3>6. h[top] = o[2]
      BY <1>0, <3>2, <3>4
    <3>7. Chain(h, c)
      BY <3>3, <3>4, <3>5, <3>6
    <3> HIDE DEF Chain
    <3> QED BY <3>7
  <2> HIDE DEF A
  <2> QED BY <2>1, <2>2, TreeInduction
<1>5. \A c \in T \ {top} : \A g : Chain(g, c) => Chain(g, Parent[c])
  <2> SUFFICES ASSUME NEW c \in T \ {top}, NEW g, Chain(g, c) PROVE Chain(g, Parent[c])
    OBVIOUS
  <2>1. c \in Containers \ {Root} /\ Parent[c] \in Containers
    BY <1>1, BelowItsParent
  <2>2. Step(g, c)
    BY <2>1, SelfBelow
  <2>3. \A d \in T \ {top} : Parent[c] \in Sub[d] => c \in Sub[d]
    BY <1>1, <2>1, SchemaAssumption
  <2> QED BY <2>2, <2>3
<1>6. Containers \subseteq B
  <2>1. ASSUME NEW c \in Containers, c = top PROVE c \in B
    BY <2>1
  <2>2. Root \in B
    <3>1. Root \in T => Root = top
      BY <1>0, OnlyRootAboveRoot
    <3> HIDE DEF Chain
    <3> QED BY <2>1, <3>1, SchemaAssumption
  <2>3. ASSUME NEW c \in Containers \ {Root}, Parent[c] \in B PROVE c \in B
    <3> SUFFICES ASSUME c \in T, c # top, NEW g, NEW h, Chain(g, c), Chain(h, c)
                 PROVE  g[c] = h[c]
      <4> HIDE DEF Chain
      <4> QED BY <2>1
    <3>1. Parent[c] \in T
      BY <1>1
    <3>2. Chain(g, Parent[c]) /\ Chain(h, Parent[c])
      <4> HIDE DEF Chain
      <4> QED BY <1>5
    <3>3. g[Parent[c]] = h[Parent[c]]
      <4> HIDE DEF Chain
      <4> QED BY <2>3, <3>1, <3>2
    <3>4. Step(g, c) /\ Step(h, c)
      BY SelfBelow
    <3> QED BY <3>3, <3>4
  <2> HIDE DEF B
  <2> QED BY <2>2, <2>3, TreeInduction
<1> DEFINE G == [c \in T |-> CHOOSE g : Chain(g, c)]
           f == [c \in T |-> G[c][c]]
<1>7. \A c \in T : Chain(G[c], c)
  <2> SUFFICES ASSUME NEW c \in T PROVE Chain(G[c], c)
    OBVIOUS
  <2>1. \E g : Chain(g, c)
    <3>1. c \in Containers
      BY <1>0, SchemaAssumption
    <3> HIDE DEF Chain
    <3> QED BY <1>4, <3>1
  <2>2. G[c] = CHOOSE g : Chain(g, c)
    OBVIOUS
  <2> HIDE DEF Chain, G
  <2> QED BY <2>1, <2>2
<1>8. \A c \in T : <<c, f[c]>> \in X
  <2> HIDE DEF G
  <2> QED BY <1>7
<1>9. ASSUME NEW c \in T
      PROVE  f[c] = IF c = top THEN o[2] ELSE K[<<Parent[c], f[Parent[c]]>>][c]
  <2>1. CASE c = top
    <3> HIDE DEF G
    <3> QED BY <1>7, <2>1
  <2>2. CASE c # top
    <3>1. Parent[c] \in T /\ c \in Containers /\ Parent[c] \in Containers
      BY <1>1, <2>2, BelowItsParent
    <3>2. Step(G[c], c)
      <4> HIDE DEF G
      <4> QED BY <1>7, <2>2, <3>1, SelfBelow
    <3>3. G[c][Parent[c]] = G[Parent[c]][Parent[c]]
      <4> HIDE DEF Chain, G
      <4> QED BY <1>5, <1>6, <1>7, <2>2, <3>1
    <3> HIDE DEF G
    <3> QED BY <2>2, <3>1, <3>2, <3>3
  <2> QED BY <2>1, <2>2
<1>10. Traces(K, o, f)
  <2>1. f = [c \in T |-> f[c]]
    OBVIOUS
  <2> HIDE DEF f
  <2> QED BY <1>9, <2>1 DEF Traces
<1> QED BY <1>8, <1>10

LEMMA TraceIs ==
  ASSUME IsFiniteSet(Containers), NEW K, NEW X, Whole(K, X), NEW o \in X
  PROVE  /\ Traces(K, o, Trace(K, o))
         /\ \A g : Traces(K, o, g) => g = Trace(K, o)
         /\ \A c \in Sub[o[1]] : <<c, Trace(K, o)[c]>> \in X
<1>1. PICK g : Traces(K, o, g) /\ \A c \in Sub[o[1]] : <<c, g[c]>> \in X
  BY TraceExists
<1>2. Traces(K, o, Trace(K, o))
  BY <1>1 DEF Trace
<1>3. o \in Obj
  BY DEF Whole
<1>4. \A h : Traces(K, o, h) => h = Trace(K, o)
  BY <1>2, <1>3, TraceOnce
<1>5. g = Trace(K, o)
  BY <1>1, <1>4
<1> QED BY <1>1, <1>2, <1>4, <1>5

\* What lies below an object stays as long as the slots on the way do.
LEMMA TraceStays ==
  ASSUME IsFiniteSet(Containers), NEW K, NEW X, Whole(K, X), NEW o \in X, NEW L,
         \A q \in X : q[1] \in Sub[o[1]] => \A c \in Kids(q[1]) : L[q][c] = K[q][c]
  PROVE  Trace(L, o) = Trace(K, o)
<1> DEFINE g == Trace(K, o)
           T == Sub[o[1]]
<1>1. /\ Traces(K, o, g)
      /\ \A c \in T : <<c, g[c]>> \in X
      /\ o \in Obj
  BY TraceIs DEF Whole
<1> HIDE DEF g
<1>2. /\ g[o[1]] = o[2]
      /\ \A c \in T : c # o[1] => /\ c \in Containers \ {Root}
                                  /\ Parent[c] \in T
                                  /\ g[c] = K[<<Parent[c], g[Parent[c]]>>][c]
  BY <1>1, TraceStep
<1>3. ASSUME NEW c \in T
      PROVE  g[c] = IF c = o[1] THEN o[2] ELSE L[<<Parent[c], g[Parent[c]]>>][c]
  <2>1. CASE c = o[1]
    BY <1>2, <2>1
  <2>2. CASE c # o[1]
    <3>1. c \in Kids(Parent[c]) /\ <<Parent[c], g[Parent[c]]>> \in X /\ Parent[c] \in T
      BY <1>1, <1>2, <2>2 DEF Kids, Elements, Nodes
    <3>2. L[<<Parent[c], g[Parent[c]]>>][c] = K[<<Parent[c], g[Parent[c]]>>][c]
      BY <3>1
    <3> QED BY <1>2, <2>2, <3>2
  <2> QED BY <2>1, <2>2
<1>4. Traces(L, o, g)
  <2>1. g = [c \in T |-> g[c]]
    BY <1>1 DEF Traces
  <2> QED BY <1>3, <2>1 DEF Traces
<1>5. Traces(L, o, Trace(L, o))
  BY <1>4 DEF Trace
<1> QED BY <1>1, <1>4, <1>5, TraceOnce DEF g

LEMMA DataStays ==
  ASSUME IsFiniteSet(Containers), NEW K, NEW X, Whole(K, X), NEW o \in X, NEW L, NEW F, NEW E,
         \A q \in X : q[1] \in Sub[o[1]] => /\ \A c \in Kids(q[1]) : L[q][c] = K[q][c]
                                            /\ E[q] = F[q]
  PROVE  DataIn(L, E, o) = DataIn(K, F, o)
<1>1. Trace(L, o) = Trace(K, o)
  BY TraceStays
<1>2. ASSUME NEW l \in LeavesUnder(o[1])
      PROVE  E[<<Parent[l], Trace(K, o)[Parent[l]]>>][l] = F[<<Parent[l], Trace(K, o)[Parent[l]]>>][l]
  <2>1. Parent[l] \in Sub[o[1]]
    BY ObjPair, SchemaAssumption DEF LeavesUnder, Whole
  <2>2. <<Parent[l], Trace(K, o)[Parent[l]]>> \in X
    BY <2>1, TraceIs
  <2> QED BY <2>1, <2>2
<1> QED BY <1>1, <1>2 DEF DataIn

-----------------------------------------------------------------------------
(* The objects a program reaches                                           *)

LEMMA HeapWhole ==
  ASSUME Shape PROVE Whole(kid, heap)
BY DEF Shape, TypeOK, SlotsMatchParents, Whole

LiveObj(c) == <<c, Live[c]>>

LEMMA LiveObjects ==
  ASSUME IsFiniteSet(Containers), Shape, RootObj \in heap
  PROVE  /\ Live[Root] = 1
         /\ DOMAIN Live = Containers
         /\ \A c \in Containers : LiveObj(c) \in heap
         /\ \A c \in Containers \ {Root} : Live[c] = kid[LiveObj(Parent[c])][c]
<1>1. /\ Traces(kid, RootObj, Live)
      /\ \A c \in Sub[Root] : LiveObj(c) \in heap
  BY HeapWhole, LiveIsTraced, TraceIs DEF RootObj, LiveObj
<1>2. /\ Live[Root] = 1
      /\ \A c \in Sub[Root] : c # Root => Live[c] = kid[<<Parent[c], Live[Parent[c]]>>][c]
  BY <1>1, TraceStep DEF RootObj, Shape, TypeOK
<1>3. DOMAIN Live = Sub[Root]
  BY <1>1 DEF Traces, RootObj
<1> QED BY <1>1, <1>2, <1>3, AllBelowRoot DEF LiveObj

LEMMA LiveDataIs ==
  ASSUME IsFiniteSet(Containers), Shape, RootObj \in heap
  PROVE  LiveData = [l \in Leaves |-> leaf[LiveObj(Parent[l])][l]]
<1>1. LeavesUnder(Root) = Leaves
  BY AllBelowRoot, NodeFacts, SchemaAssumption DEF LeavesUnder, Nodes
<1>2. LiveData = DataIn(kid, leaf, RootObj)
  BY DataIsTraced DEF LiveData
<1> QED BY <1>1, <1>2, LiveIsTraced DEF DataIn, RootObj, LiveObj

LEMMA LiveDataType ==
  ASSUME IsFiniteSet(Containers), Shape, RootObj \in heap
  PROVE  LiveData \in [Leaves -> Values \cup {Unset}]
<1>1. ASSUME NEW l \in Leaves PROVE leaf[LiveObj(Parent[l])][l] \in Values \cup {Unset}
  <2>1. LiveObj(Parent[l]) \in Obj
    BY LiveObjects, NodeFacts DEF Shape, TypeOK, Nodes
  <2> QED BY <2>1 DEF Shape, TypeOK
<1> QED BY <1>1, LiveDataIs

LEMMA DataBelowType ==
  ASSUME IsFiniteSet(Containers), Shape, NEW o \in heap
  PROVE  DataBelow(o) \in [LeavesUnder(o[1]) -> Values \cup {Unset}]
<1>1. ASSUME NEW l \in LeavesUnder(o[1])
      PROVE  leaf[<<Parent[l], Trace(kid, o)[Parent[l]]>>][l] \in Values \cup {Unset}
  <2>0. o \in Obj /\ l \in Leaves /\ o[1] \in Containers
    BY ObjPair DEF Shape, TypeOK, LeavesUnder
  <2>1. Parent[l] \in Sub[o[1]]
    BY <2>0, SchemaAssumption DEF LeavesUnder
  <2>2. <<Parent[l], Trace(kid, o)[Parent[l]]>> \in Obj
    BY <2>1, HeapWhole, TraceIs DEF Shape, TypeOK
  <2> QED BY <2>0, <2>2 DEF Shape, TypeOK
<1> QED BY <1>1, DataIsTraced DEF DataIn

\* The holder of an object that is reached is reached.
LEMMA HolderOfLive ==
  ASSUME IsFiniteSet(Containers), Shape, RootObj \in heap, NEW o \in heap, o[1] # Root, IsLive(o)
  PROVE  Holder(o) = LiveObj(Parent[o[1]])
<1>1. o \in Obj /\ o[1] \in Containers \ {Root} /\ o = LiveObj(o[1])
  BY ObjPair DEF Shape, TypeOK, IsLive, LiveObj
<1> DEFINE q == LiveObj(Parent[o[1]])
<1>2. q \in heap /\ q \in Obj /\ q[1] = Parent[o[1]] /\ Live[o[1]] = kid[q][o[1]]
  BY <1>1, LiveObjects, BelowItsParent DEF Shape, TypeOK, LiveObj
<1>3. o[1] \in Kids(q[1])
  BY <1>1, <1>2 DEF Kids, Elements, Nodes
<1>4. Holder(<<o[1], kid[q][o[1]]>>) = q
  BY <1>2, <1>3, SlotOwner
<1> QED BY <1>1, <1>2, <1>4 DEF LiveObj

-----------------------------------------------------------------------------
(* What the steps do to the data a program reaches                         *)

LEMMA LiveNext ==
  ASSUME IsFiniteSet(Containers)
  PROVE  /\ Live' = Trace(kid', RootObj)
         /\ LiveData' = [l \in Leaves |-> leaf'[<<Parent[l], Live'[Parent[l]]>>][l]]
<1>1. Live' = Trace(kid', RootObj)
  BY AllBelowRoot DEF Live, Trace, Traces, RootObj
<1>2. LiveData' = DataIn(kid', leaf', RootObj)
  BY DEF LiveData, DataBelow, DataIn, Trace, Traces, RootObj
<1>3. LeavesUnder(Root) = Leaves
  BY AllBelowRoot, NodeFacts, SchemaAssumption DEF LeavesUnder, Nodes
<1> QED BY <1>1, <1>2, <1>3 DEF DataIn, RootObj

\* `_unset_` gives new objects to what it rebuilds, if it is reached at all.
LEMMA UnsetLive ==
  ASSUME IsFiniteSet(Containers), Shape, RootObj \in heap, NEW o \in heap,
         NEW es \in SUBSET Elements(o[1]), Room(es), kid' = UnsetKid(o, es)
  PROVE  /\ \A c \in Containers :
              Live'[c] = IF IsLive(o) /\ c \in Rebuilt(es) THEN Fresh(c) ELSE Live[c]
         /\ \A c \in Containers : LiveObj(c) \notin NewObjects(es)
<1> DEFINE M == [c \in Containers |->
                   IF IsLive(o) /\ c \in Rebuilt(es) THEN Fresh(c) ELSE Live[c]]
           new == NewObjects(es)
<1>1. /\ o \in Obj /\ o[1] \in Containers /\ o = <<o[1], o[2]>> /\ RootObj \in Obj
      /\ heap \subseteq Obj
  BY ObjPair DEF Shape, TypeOK
<1>2. /\ Rebuilt(es) \subseteq Containers \ {Root}
      /\ es \cap Containers \subseteq Rebuilt(es)
      /\ o[1] \notin Rebuilt(es)
      /\ \A c \in Rebuilt(es) : \A k \in Kids(c) : k \in Rebuilt(es) \ es
      /\ \A c \in Rebuilt(es) \ es : Parent[c] \in Rebuilt(es)
  BY <1>1, RebuiltClosed
<1>3. /\ new \subseteq Obj /\ new \cap heap = {}
      /\ \A c \in Rebuilt(es) : <<c, Fresh(c)>> \in new
  BY <1>1, NewObjectsFresh
<1>4. /\ Live[Root] = 1
      /\ DOMAIN Live = Containers
      /\ \A c \in Containers : LiveObj(c) \in heap
      /\ \A c \in Containers \ {Root} : Live[c] = kid[LiveObj(Parent[c])][c]
  BY LiveObjects
<1>5. ASSUME NEW c \in Containers \ {Root}
      PROVE  M[c] = kid'[<<Parent[c], M[Parent[c]]>>][c]
  <2>1. Parent[c] \in Containers /\ c \in Kids(Parent[c]) /\ c \in Nodes
    BY BelowItsParent DEF Kids, Elements
  <2>2. CASE IsLive(o) /\ c \in Rebuilt(es) /\ c \in es
    <3>1. Parent[c] = o[1]
      BY <2>2 DEF Elements
    <3>2. M[Parent[c]] = o[2]
      BY <1>2, <2>1, <2>2, <3>1 DEF IsLive
    <3>3. kid'[o][c] = Fresh(c)
      BY <1>1, <2>2 DEF UnsetKid
    <3> QED BY <1>1, <2>2, <3>1, <3>2, <3>3
  <2>3. CASE IsLive(o) /\ c \in Rebuilt(es) /\ c \notin es
    <3>1. Parent[c] \in Rebuilt(es)
      BY <1>2, <2>3
    <3> DEFINE q == <<Parent[c], Fresh(Parent[c])>>
    <3>2. M[Parent[c]] = Fresh(Parent[c]) /\ q \in new
      BY <1>3, <2>1, <2>3, <3>1
    <3>3. q \in Obj /\ q # o /\ q[1] = Parent[c]
      BY <1>3, <3>2
    <3>4. kid'[q][c] = Fresh(c)
      BY <2>1, <3>2, <3>3 DEF UnsetKid
    <3> QED BY <2>3, <3>2, <3>4
  <2>4. CASE ~IsLive(o) \/ c \notin Rebuilt(es)
    <3>1. ~IsLive(o) \/ Parent[c] \notin Rebuilt(es)
      BY <1>2, <2>1, <2>4
    <3> DEFINE q == LiveObj(Parent[c])
    <3>2. M[Parent[c]] = Live[Parent[c]] /\ M[c] = Live[c]
      BY <2>1, <2>4, <3>1
    <3>3. q \in heap /\ q \in Obj /\ q \notin new /\ Live[c] = kid[q][c]
      BY <1>1, <1>3, <1>4, <2>1
    <3>4. ~(q = o /\ c \in es)
      BY <1>2, <2>4 DEF IsLive, LiveObj
    <3>5. kid'[q][c] = kid[q][c]
      BY <3>3, <3>4 DEF UnsetKid
    <3> QED BY <3>2, <3>3, <3>5 DEF LiveObj
  <2> QED BY <2>2, <2>3, <2>4
<1>6. M[Root] = 1
  BY <1>2, <1>4, SchemaAssumption
<1>7. Traces(kid', RootObj, M)
  <2>1. \A c \in Containers : M[c] = IF c = Root THEN 1 ELSE kid'[<<Parent[c], M[Parent[c]]>>][c]
    BY <1>5, <1>6
  <2>2. M = [c \in Containers |-> M[c]]
    OBVIOUS
  <2> HIDE DEF M
  <2> QED BY <2>1, <2>2, AllBelowRoot DEF Traces, RootObj
<1>8. Traces(kid', RootObj, Trace(kid', RootObj))
  <2> HIDE DEF M
  <2> QED BY <1>7 DEF Trace
<1>9. Live' = M
  <2> HIDE DEF M
  <2> QED BY <1>1, <1>7, <1>8, TraceOnce, LiveNext
<1> QED BY <1>3, <1>4, <1>9

ErasedBelow(es) ==
  [l \in Leaves |-> IF \E e \in es : l \in LeavesUnder(e) THEN Unset ELSE LiveData[l]]

LEMMA UnsetData ==
  ASSUME IsFiniteSet(Containers), Shape, RootObj \in heap, NEW o \in heap,
         NEW es \in SUBSET Elements(o[1]), Unset_(o, es)
  PROVE  /\ IsLive(o) => LiveData' = ErasedBelow(es)
         /\ ~IsLive(o) => LiveData' = LiveData
<1>1. Room(es) /\ kid' = UnsetKid(o, es) /\ leaf' = UnsetLeaf(o, es)
  BY DEF Unset_
<1>2. /\ \A c \in Containers :
           Live'[c] = IF IsLive(o) /\ c \in Rebuilt(es) THEN Fresh(c) ELSE Live[c]
  BY <1>1, UnsetLive
<1>3. /\ o \in Obj /\ o[1] \in Containers /\ o = <<o[1], o[2]>>
      /\ heap \subseteq Obj /\ leaf \in [Obj -> [Leaves -> Values \cup {Unset}]]
  BY ObjPair DEF Shape, TypeOK
<1>4. /\ \A q \in Obj : q # o => leaf'[q] = leaf[q]
      /\ \A l \in Leaves : leaf'[o][l] = IF l \in es THEN Unset ELSE leaf[o][l]
  BY <1>1, <1>3 DEF UnsetLeaf
<1>5. o[1] \notin Rebuilt(es)
  BY <1>3, RebuiltClosed
<1>6. LiveData = [l \in Leaves |-> leaf[LiveObj(Parent[l])][l]]
  BY LiveDataIs
<1>7. ASSUME NEW l \in Leaves
      PROVE  leaf'[<<Parent[l], Live'[Parent[l]]>>][l] =
               IF IsLive(o) /\ \E e \in es : l \in LeavesUnder(e) THEN Unset ELSE LiveData[l]
  <2> DEFINE p == Parent[l]
  <2>1. p \in Containers /\ LiveObj(p) \in heap
    BY NodeFacts, LiveObjects DEF Nodes
  <2>2. (\E e \in es : l \in LeavesUnder(e)) <=> (l \in es \/ p \in Rebuilt(es))
    BY DEF LeavesUnder, Rebuilt
  <2>3. l \in es => p = o[1]
    BY DEF Elements
  <2>4. CASE IsLive(o) /\ p \in Rebuilt(es)
    <3> DEFINE q == <<p, Fresh(p)>>
    <3>1. q \in Obj /\ q \notin heap
      BY <1>1, <1>3, <2>4, NewObjectsFresh
    <3>2. leaf[q][l] = Unset
      BY <3>1 DEF Shape, Pristine
    <3>3. leaf'[q][l] = Unset
      BY <1>4, <3>1, <3>2
    <3> QED BY <1>2, <2>1, <2>2, <2>4, <3>3
  <2>5. CASE ~(IsLive(o) /\ p \in Rebuilt(es))
    <3>1. Live'[p] = Live[p]
      BY <1>2, <2>1, <2>5
    <3>2. LiveObj(p) \in Obj /\ LiveData[l] = leaf[LiveObj(p)][l]
      BY <1>3, <1>6, <2>1
    <3>3. CASE LiveObj(p) = o
      <4>1. IsLive(o) /\ p = o[1]
        BY <3>3 DEF LiveObj, IsLive
      <4>2. leaf'[o][l] = IF l \in es THEN Unset ELSE leaf[o][l]
        BY <1>4
      <4>3. p \notin Rebuilt(es)
        BY <1>5, <4>1
      <4> QED BY <2>2, <3>1, <3>2, <3>3, <4>1, <4>2, <4>3 DEF LiveObj
    <3>4. CASE LiveObj(p) # o
      <4>1. leaf'[LiveObj(p)] = leaf[LiveObj(p)]
        BY <1>4, <3>2, <3>4
      <4>2. ~(IsLive(o) /\ l \in es)
        BY <1>3, <2>3, <3>4 DEF LiveObj, IsLive
      <4> QED BY <2>2, <2>5, <3>1, <3>2, <4>1, <4>2 DEF LiveObj
    <3> QED BY <3>3, <3>4
  <2> QED BY <2>4, <2>5
<1>8. LiveData' = [l \in Leaves |-> leaf'[<<Parent[l], Live'[Parent[l]]>>][l]]
  BY LiveNext
<1>9. LiveData = [l \in Leaves |-> LiveData[l]]
  BY <1>6
<1> QED BY <1>7, <1>8, <1>9 DEF ErasedBelow

\* Of the objects there are, `_unset_` cuts off what it rebuilds, and brings
\* none back.
LEMMA UnsetCutsOff ==
  ASSUME IsFiniteSet(Containers), Shape, RootObj \in heap, NEW o \in heap,
         NEW es \in SUBSET Elements(o[1]), Unset_(o, es), NEW q \in heap
  PROVE  q[2] = Live'[q[1]] <=> IsLive(q) /\ ~(IsLive(o) /\ q[1] \in Rebuilt(es))
<1>1. Room(es) /\ kid' = UnsetKid(o, es)
  BY DEF Unset_
<1>2. q \in Obj /\ q[1] \in Containers /\ q = <<q[1], q[2]>>
  BY ObjPair DEF Shape, TypeOK
<1>3. Live'[q[1]] = IF IsLive(o) /\ q[1] \in Rebuilt(es) THEN Fresh(q[1]) ELSE Live[q[1]]
  BY <1>1, <1>2, UnsetLive
<1>4. q[1] \in Rebuilt(es) => q[2] # Fresh(q[1])
  BY <1>1, <1>2, FreshUnused
<1> QED BY <1>3, <1>4 DEF IsLive

LEMMA SlotsStay ==
  ASSUME IsFiniteSet(Containers), kid' = kid
  PROVE  /\ Live' = Live
         /\ leaf' = leaf => LiveData' = LiveData
BY DEF Live, LiveData, DataBelow

LEMMA StoreData ==
  ASSUME IsFiniteSet(Containers), Shape, RootObj \in heap, NEW o \in heap,
         NEW l \in Elements(o[1]), l \in Leaves, NEW v, kid' = kid,
         \A q \in Obj : q # o => leaf'[q] = leaf[q],
         \A k \in Leaves : leaf'[o][k] = IF k = l THEN v ELSE leaf[o][k]
  PROVE  \A k \in Leaves : LiveData'[k] = IF IsLive(o) /\ k = l THEN v ELSE LiveData[k]
<1>1. o \in Obj /\ o[1] \in Containers /\ o = <<o[1], o[2]>> /\ heap \subseteq Obj
      /\ leaf \in [Obj -> [Leaves -> Values \cup {Unset}]]
  BY ObjPair DEF Shape, TypeOK
<1>2. Live' = Live
  BY SlotsStay
<1>3. LiveData = [k \in Leaves |-> leaf[LiveObj(Parent[k])][k]]
  BY LiveDataIs
<1>4. LiveData' = [k \in Leaves |-> leaf'[LiveObj(Parent[k])][k]]
  BY <1>2, LiveNext DEF LiveObj
<1>5. ASSUME NEW k \in Leaves
      PROVE  leaf'[LiveObj(Parent[k])][k] = IF IsLive(o) /\ k = l THEN v ELSE LiveData[k]
  <2>1. LiveObj(Parent[k]) \in Obj
    BY <1>1, NodeFacts, LiveObjects DEF Nodes
  <2>2. IsLive(o) /\ k = l <=> LiveObj(Parent[k]) = o /\ k = l
    BY <1>1 DEF LiveObj, IsLive, Elements
  <2> QED BY <1>1, <1>3, <2>1, <2>2
<1> QED BY <1>4, <1>5

\* A container that is not `_changed()` has nothing set below it.
LEMMA UnchangedIsEmpty ==
  ASSUME IsFiniteSet(Containers), Shape, FlagsUpward, at = NoObj, NEW o \in heap,
         NEW m \in Sub[o[1]], Sub[m] \cap (Clearable \cup {Root}) = {},
         ~changed[<<m, Trace(kid, o)[m]>>]
  PROVE  \A l \in Leaves : Parent[l] \in Sub[m] => DataBelow(o)[l] = Unset
<1> DEFINE g == Trace(kid, o)
           S == {d \in Containers : d \in Sub[m] => ~changed[<<d, g[d]>>]}
<1>0. o \in Obj /\ o[1] \in Containers /\ m \in Containers /\ Sub[m] \subseteq Sub[o[1]]
      /\ heap \subseteq Obj
  BY ObjPair, SchemaAssumption DEF Shape, TypeOK
<1>1. Traces(kid, o, g) /\ \A c \in Sub[o[1]] : <<c, g[c]>> \in heap
  BY HeapWhole, TraceIs
<1>a. ~changed[<<m, g[m]>>]
  OBVIOUS
<1> HIDE DEF g
<1>2. \A c \in Sub[o[1]] : c # o[1] => g[c] = kid[<<Parent[c], g[Parent[c]]>>][c]
  BY <1>0, <1>1, TraceStep
<1>3. Root \in S
  BY SchemaAssumption
<1>4. ASSUME NEW d \in Containers \ {Root}, Parent[d] \in S PROVE d \in S
  <2> SUFFICES ASSUME d \in Sub[m], d # m PROVE ~changed[<<d, g[d]>>]
    BY <1>a
  <2> DEFINE q == <<Parent[d], g[Parent[d]]>>
  <2>1. Parent[d] \in Sub[m]
    BY <1>0, SchemaAssumption
  <2>2. ~changed[q] /\ q \in heap /\ q[1] \notin Clearable \cup {Root}
    BY <1>0, <1>1, <1>4, <2>1
  <2>3. q # at
    BY <1>0, <2>2, NullAssumption
  <2>4. d \in Elements(q[1]) /\ d \notin Leaves
    BY SchemaAssumption DEF Elements, Nodes
  <2>5. ~Used(q, d)
    BY <2>2, <2>3, <2>4 DEF FlagsUpward
  <2>6. d # o[1]
    BY <1>0, InBoth
  <2>7. g[d] = kid[q][d]
    BY <1>0, <1>2, <2>6
  <2> QED BY <2>4, <2>5, <2>7 DEF Used
<1>5. Containers \subseteq S
  <2> HIDE DEF S
  <2> QED BY <1>3, <1>4, TreeInduction
<1>6. ASSUME NEW l \in Leaves, Parent[l] \in Sub[m] PROVE leaf[<<Parent[l], g[Parent[l]]>>][l] = Unset
  <2> DEFINE q == <<Parent[l], g[Parent[l]]>>
  <2>1. ~changed[q] /\ q \in heap /\ q[1] \notin Clearable \cup {Root}
    BY <1>0, <1>1, <1>5, <1>6, SchemaAssumption
  <2>2. q # at
    BY <1>0, <2>1, NullAssumption
  <2>3. l \in Elements(q[1])
    BY DEF Elements, Nodes
  <2> QED BY <2>1, <2>2, <2>3 DEF FlagsUpward, Used
<1>7. DataBelow(o) = [l \in LeavesUnder(o[1]) |-> leaf[<<Parent[l], g[Parent[l]]>>][l]]
  BY DataIsTraced DEF DataIn, g
<1>8. \A l \in Leaves : Parent[l] \in Sub[m] => l \in LeavesUnder(o[1])
  BY <1>0 DEF LeavesUnder
<1> QED BY <1>6, <1>7, <1>8

\* A program takes presence back from no container inside one it copies: what
\* is copied is what reports `_changed()`.
CopiesUncleared == \A c \in Copyable : Sub[c] \cap Clearable \subseteq {c}

SourceThere ==
  setter # Idle /\ setter.kind = "container" =>
    setter.src \in heap /\ setter.src[1] = setter.elem

\* An assigned container has all the data of its source.
LEMMA CopyData ==
  ASSUME IsFiniteSet(Containers), CopiesUncleared, Shape, FlagsUpward,
         RootObj \in heap, SourceThere, CopyContainer
  PROVE  /\ IsLive(setter.obj) =>
              LiveData' = [l \in Leaves |->
                 IF l \in LeavesUnder(setter.elem) THEN DataBelow(setter.src)[l] ELSE LiveData[l]]
         /\ ~IsLive(setter.obj) => LiveData' = LiveData
<1> SUFFICES ASSUME NEW o, NEW c, NEW src,
                    o = setter.obj, c = setter.elem, src = setter.src
             PROVE  /\ IsLive(o) =>
                         LiveData' = [l \in Leaves |->
                            IF l \in LeavesUnder(c) THEN DataBelow(src)[l] ELSE LiveData[l]]
                    /\ ~IsLive(o) => LiveData' = LiveData
  OBVIOUS
<1> DEFINE es == {c}
           new == NewObjects(es)
<1>0. at = NoObj /\ setter \in Setters /\ setter # Idle /\ setter.kind = "container"
  BY DEF CopyContainer, Shape, TypeOK
<1>1. /\ o \in heap /\ o \in Obj /\ c \in Copyable /\ c \in Containers \ {Root}
      /\ c \in Elements(o[1]) /\ src \in heap /\ src \in Obj /\ src[1] = c /\ heap \subseteq Obj
      /\ o = <<o[1], o[2]>> /\ o[1] \in Containers
  BY <1>0, RoleAssumption, ObjPair DEF Shape, TypeOK, CallOK, SourceThere, Elements
<1>2. PICK from \in [Sub[c] -> Gens] :
        /\ from[c] = src[2]
        /\ \A d \in Sub[c] \ {c} : from[d] = kid[<<Parent[d], from[Parent[d]]>>][d]
        /\ Room(es)
        /\ kid' = UnsetKid(o, es)
        /\ leaf' = [q \in Obj |-> IF q \in new /\ q[1] \in Copied(c, from)
                                  THEN leaf[<<q[1], from[q[1]]>>] ELSE leaf[q]]
  BY DEF CopyContainer
<1>5. Rebuilt(es) = Sub[c] /\ es \in SUBSET Elements(o[1])
  BY <1>1 DEF Rebuilt
<1> HIDE DEF es
<1>a. /\ new \subseteq Obj /\ new \cap heap = {}
      /\ \A d \in Sub[c] : <<d, Fresh(d)>> \in new
  BY <1>1, <1>2, <1>5, NewObjectsFresh
<1>3. from = Trace(kid, src)
  <2>1. \A d \in Sub[c] : from[d] = IF d = c THEN src[2] ELSE kid[<<Parent[d], from[Parent[d]]>>][d]
    BY <1>2
  <2>2. from = [d \in Sub[c] |-> from[d]]
    BY <1>2
  <2>3. Traces(kid, src, from)
    BY <1>1, <2>1, <2>2 DEF Traces
  <2> QED BY <1>1, <2>3, HeapWhole, TraceIs
<1>4. DataBelow(src) = [l \in LeavesUnder(c) |-> leaf[<<Parent[l], from[Parent[l]]>>][l]]
  BY <1>1, <1>3, DataIsTraced DEF DataIn
<1>6. /\ \A d \in Containers : Live'[d] = IF IsLive(o) /\ d \in Sub[c] THEN Fresh(d) ELSE Live[d]
      /\ \A d \in Containers : LiveObj(d) \notin new
  BY <1>1, <1>2, <1>5, UnsetLive
<1> HIDE DEF new
<1>7. LiveData = [l \in Leaves |-> leaf[LiveObj(Parent[l])][l]]
  BY LiveDataIs
<1>8. LiveData' = [l \in Leaves |-> leaf'[<<Parent[l], Live'[Parent[l]]>>][l]]
  BY LiveNext
<1>9. ASSUME NEW l \in Leaves, ~(IsLive(o) /\ l \in LeavesUnder(c))
      PROVE  leaf'[<<Parent[l], Live'[Parent[l]]>>][l] = LiveData[l]
  <2>1. Parent[l] \in Containers /\ LiveObj(Parent[l]) \in heap
    BY NodeFacts, LiveObjects DEF Nodes
  <2>2. ~(IsLive(o) /\ Parent[l] \in Sub[c])
    BY <1>1, <1>9 DEF LeavesUnder
  <2>3. Live'[Parent[l]] = Live[Parent[l]]
    BY <1>6, <2>1, <2>2
  <2>4. leaf'[LiveObj(Parent[l])] = leaf[LiveObj(Parent[l])]
    BY <1>1, <1>2, <1>6, <2>1
  <2> QED BY <1>7, <2>3, <2>4 DEF LiveObj
<1>10. ASSUME NEW l \in LeavesUnder(c), IsLive(o)
       PROVE  leaf'[<<Parent[l], Live'[Parent[l]]>>][l] = DataBelow(src)[l]
  <2> DEFINE p == Parent[l]
             q == <<p, Fresh(p)>>
  <2>1. l \in Leaves /\ p \in Sub[c] /\ p \in Containers
    BY <1>1, SchemaAssumption DEF LeavesUnder
  <2>2. q \in new /\ q \in Obj /\ q \notin heap
    BY <1>a, <2>1
  <2>3. Live'[p] = Fresh(p)
    BY <1>6, <1>10, <2>1
  <2>4. DataBelow(src)[l] = leaf[<<p, from[p]>>][l]
    BY <1>4
  <2>5. CASE p \in Copied(c, from)
    BY <1>2, <2>2, <2>3, <2>4, <2>5
  <2>6. CASE p \notin Copied(c, from)
    <3>1. PICK m \in Sub[c] \ {c} : p \in Sub[m] /\ ~changed[<<m, from[m]>>]
      BY <2>1, <2>6 DEF Copied
    <3>2. m \in Containers \ {Root}
      BY <1>1, <3>1, SchemaAssumption
    <3>3. Sub[m] \cap (Clearable \cup {Root}) = {}
      <4>1. Sub[m] \subseteq Sub[c]
        BY <1>1, <3>1, SchemaAssumption
      <4>2. c \notin Sub[m]
        BY <1>1, <3>1, <3>2, InBoth
      <4>3. Root \notin Sub[m]
        BY <3>2, SchemaAssumption
      <4> QED BY <1>1, <4>1, <4>2, <4>3 DEF CopiesUncleared
    <3>4. DataBelow(src)[l] = Unset
      BY <1>0, <1>1, <1>3, <2>1, <3>1, <3>3, UnchangedIsEmpty
    <3>5. leaf'[q] = leaf[q] /\ leaf[q][l] = Unset
      BY <1>2, <2>1, <2>2, <2>6 DEF Shape, Pristine
    <3> QED BY <2>3, <3>4, <3>5
  <2> QED BY <2>5, <2>6
<1>11. LiveData = [l \in Leaves |-> LiveData[l]]
  BY <1>7
<1> QED BY <1>8, <1>9, <1>10, <1>11

\* Freeing what nothing refers to changes nothing that is reached.
LEMMA CollectData ==
  ASSUME IsFiniteSet(Containers), Shape, RootObj \in heap, Collect
  PROVE  /\ RootObj \in heap'
         /\ LiveData' = LiveData /\ Live' = Live
         /\ \A o \in heap' : DataBelow(o)' = DataBelow(o)
<1>1. /\ heap' = heap \cap Reachable
      /\ Refs(Reachable) \cup {RootObj} \subseteq Reachable
      /\ \A q \in Obj : q \in Reachable => kid'[q] = kid[q] /\ leaf'[q] = leaf[q]
      /\ heap \subseteq Obj
  BY DEF Collect, Shape, TypeOK
<1>2. Whole(kid, heap')
  <2> SUFFICES ASSUME NEW o \in heap', NEW c \in Kids(o[1]) PROVE <<c, kid[o][c]>> \in heap'
    BY <1>1 DEF Whole
  <2>1. <<c, kid[o][c]>> \in heap
    BY <1>1, HeapWhole DEF Whole
  <2>2. <<c, kid[o][c]>> \in Refs(Reachable)
    BY <1>1 DEF Refs
  <2> QED BY <1>1, <2>1, <2>2
<1>3. \A q \in heap' : kid'[q] = kid[q] /\ leaf'[q] = leaf[q]
  BY <1>1
<1>4. \A o \in heap' : DataIn(kid', leaf', o) = DataIn(kid, leaf, o)
  BY <1>2, <1>3, DataStays
<1>5. \A o \in heap' : Trace(kid', o) = Trace(kid, o)
  BY <1>2, <1>3, TraceStays
<1>6. \A o : DataBelow(o)' = DataIn(kid', leaf', o)
  BY DEF DataBelow, DataIn, Trace, Traces
<1>7. RootObj \in heap'
  BY <1>1
<1>8. \A o \in heap' : DataBelow(o)' = DataBelow(o)
  BY <1>4, <1>6, DataIsTraced
<1>9. LiveData' = LiveData
  BY <1>7, <1>8 DEF LiveData
<1> QED BY <1>5, <1>7, <1>8, <1>9, LiveIsTraced, LiveNext

\* An object that `_unset_` is not called on or above keeps its data.
LEMMA UnsetSpares ==
  ASSUME IsFiniteSet(Containers), Shape, NEW o \in heap, NEW es \in SUBSET Elements(o[1]),
         Unset_(o, es), NEW src \in heap, o[1] \notin Sub[src[1]]
  PROVE  DataBelow(src)' = DataBelow(src)
<1>1. o \in Obj /\ o[1] \in Containers /\ heap \subseteq Obj
  BY ObjPair DEF Shape, TypeOK
<1>2. Room(es) /\ kid' = UnsetKid(o, es) /\ leaf' = UnsetLeaf(o, es)
  BY DEF Unset_
<1>3. NewObjects(es) \cap heap = {}
  BY <1>1, <1>2, NewObjectsFresh
<1>4. ASSUME NEW q \in heap, q[1] \in Sub[src[1]] PROVE kid'[q] = kid[q] /\ leaf'[q] = leaf[q]
  <2>1. q # o /\ q \notin NewObjects(es) /\ q \in Obj
    BY <1>1, <1>3, <1>4
  <2> QED BY <1>2, <2>1 DEF UnsetKid, UnsetLeaf, Shape, TypeOK
<1>5. DataIn(kid', leaf', src) = DataIn(kid, leaf, src)
  BY <1>4, HeapWhole, DataStays
<1>6. DataBelow(src)' = DataIn(kid', leaf', src)
  BY DEF DataBelow, DataIn, Trace, Traces
<1> QED BY <1>5, <1>6, DataIsTraced

-----------------------------------------------------------------------------
(* The schemas the theorem is about                                        *)

\* No container that is a case member has another case member inside.
OneChoiceUp ==
  \A d \in Containers \ {Root}, e \in Containers \ {Root} :
    e \in Sub[d] /\ e # d /\ Parent[d] # Root
      => ChoiceOf[d] = NoChoice \/ ChoiceOf[e] = NoChoice

\* A choice has another name than those among the elements of the containers
\* above.
NamesApart ==
  \A n \in Nodes, m \in Nodes :
    /\ Parent[n] \in Sub[Parent[m]] /\ Parent[n] # Parent[m] /\ Parent[m] # Root
    /\ ChoiceOf[n] # NoChoice /\ ChoiceOf[m] # NoChoice
    => ChoiceOf[n][1] # ChoiceOf[m][1]

Plain == IsFiniteSet(Containers) /\ OneChoiceUp /\ NamesApart /\ CopiesUncleared

-----------------------------------------------------------------------------
(* The inductive invariant of the refinement.  A setter s that works on     *)
(* node n has reached the object a with the choice ch.                      *)

\* It climbs the path to n, and carries the choice of a node it came by.
Aligned(s, a, ch, n) ==
  /\ n \in Nodes
  /\ s.kind # "mark" => n = s.elem
  /\ s.obj[1] = n \/ Parent[n] = s.obj[1]
  /\ a # NoObj =>
       /\ a[1] \in Path(n)
       /\ ch = NoChoice \/ \E d \in Path(n) : ch = ChoiceOf[d] /\ Parent[d] \in Sub[a[1]]

\* What leaf k had when the setter began, or has been given by it.
Target(s, dn, se, k) ==
  IF s.kind = "mark" /\ dn[1] = "write" /\ k = dn[2] THEN dn[3]
  ELSE IF s.kind = "mark" /\ dn[1] = "replace" /\ k \in LeavesUnder(dn[2]) THEN dn[3][k]
  ELSE se[k]

\* It has erased rivals of the node, and nothing else.
Kept(s, dn, se, D) ==
  \A k \in Leaves : \/ D[k] = Target(s, dn, se, k)
                    \/ D[k] = Unset /\ k \in RivalsOf(dn[2])

\* It has still to come to the holder of d with d's choice.
Owes(s, a, ch, n, d) ==
  IF d = n THEN s.kind # "mark" /\ a = s.obj /\ ch = ChoiceOf[n]
  ELSE \/ s.kind # "mark"
       \/ /\ a # NoObj
          /\ \/ a[1] \in Sub[d] /\ ch = NoChoice
             \/ a[1] = Parent[d] /\ ch = ChoiceOf[d]

\* Where it does not owe it, the rivals are erased.
Cleared(s, a, ch, dn, D) ==
  dn[1] \in {"write", "replace"} =>
    \A d \in Path(dn[2]), k \in Leaves :
      RivalAt(d, k) => D[k] = Unset \/ Owes(s, a, ch, dn[2], d)

\* The operation is the one the setter carries out; live: on a reached object;
\* B: the data of the container it copies.
Meant(s, dn, live, B) ==
  /\ s.kind = "leaf" =>
       dn = IF s.ok /\ live THEN <<"write", s.elem, s.val>> ELSE <<"touch", s.elem>>
  /\ s.kind = "container" =>
       dn = IF live THEN <<"replace", s.elem, B>> ELSE <<"touch", s.elem>>
  /\ s.kind = "mark" =>
       \/ dn = <<"touch", dn[2]>>
       \/ live /\ \E l \in Leaves, v \in Values : dn = <<"write", l, v>>
       \/ live /\ \E c \in Copyable : \E f \in [LeavesUnder(c) -> Values \cup {Unset}] :
                    dn = <<"replace", c, f>>

Underway ==
  setter # Idle =>
    /\ Aligned(setter, at, choice, doing[2])
    /\ Kept(setter, doing, seen, LiveData)
    /\ Cleared(setter, at, choice, doing, LiveData)
    /\ Meant(setter, doing, IsLive(setter.obj), DataBelow(setter.src))
    /\ at # NoObj /\ IsLive(setter.obj) => IsLive(at)

Settled == setter = Idle => seen = LiveData /\ last = doing

Refined == RootObj \in heap /\ SourceThere /\ Underway /\ Settled

-----------------------------------------------------------------------------
(* What a `_set` call erases                                               *)

LEMMA ErasedAreRivals ==
  ASSUME Plain, NEW n \in Nodes, NEW c \in Containers, c \in Path(n), NEW ch,
         ch = NoChoice \/ \E d \in Path(n) : ch = ChoiceOf[d] /\ Parent[d] \in Sub[c],
         NEW e \in OtherCases(c, ch)
  PROVE  /\ \E d \in Path(n) : Parent[d] = c /\ Rival(d, e)
         /\ LeavesUnder(e) \subseteq RivalsOf(n)
<1>1. /\ e \in Nodes /\ Parent[e] = c /\ ch # NoChoice /\ ChoiceOf[e] # NoChoice
      /\ ChoiceOf[e][1] = ch[1] /\ ChoiceOf[e][2] # ch[2]
  BY DEF OtherCases, Elements
<1>2. PICK d \in Path(n) : ch = ChoiceOf[d] /\ Parent[d] \in Sub[c]
  BY <1>1
<1>3. d \in Nodes /\ c # Root
  BY NodeFacts DEF Path
<1>4. Parent[d] = c
  BY <1>1, <1>2, <1>3 DEF Plain, NamesApart
<1>5. Rival(d, e)
  BY <1>1, <1>2 DEF Rival
<1>6. ASSUME NEW l \in LeavesUnder(e) PROVE l \in RivalsOf(n)
  <2>1. l \in Leaves
    BY DEF LeavesUnder
  <2>2. e \in Path(l)
    BY <1>1, <2>1, UnderIsPath
  <2>3. RivalAt(d, l)
    BY <1>1, <1>3, <1>4, <1>5, <2>2 DEF RivalAt
  <2> QED BY <2>1, <2>3, RivalsOnPath
<1> QED BY <1>4, <1>5, <1>6

LEMMA SetStepData ==
  ASSUME Plain, Shape, RootObj \in heap, SourceThere, SetStep,
         Aligned(setter, at, choice, doing[2]), IsLive(setter.obj) => IsLive(at),
         NEW s, s = setter
  PROVE  /\ \A k \in Leaves : \/ LiveData'[k] = LiveData[k]
                              \/ LiveData'[k] = Unset /\ k \in RivalsOf(doing[2])
         /\ IsLive(at) => \A e \in OtherCases(at[1], choice) : \A k \in LeavesUnder(e) :
              LiveData'[k] = Unset
         /\ s.obj[2] = Live'[s.obj[1]] <=> IsLive(s.obj)
         /\ IsLive(s.obj) => Holder(at)[2] = Live'[Holder(at)[1]]
         /\ s.kind = "container" => DataBelow(s.src)' = DataBelow(s.src)
<1> SUFFICES ASSUME NEW o, o = at, NEW es, es = OtherCases(at[1], choice),
                    NEW n, n = doing[2], NEW h, h = Holder(at)
             PROVE  /\ \A k \in Leaves : \/ LiveData'[k] = LiveData[k]
                                         \/ LiveData'[k] = Unset /\ k \in RivalsOf(n)
                    /\ IsLive(o) => \A e \in es : \A k \in LeavesUnder(e) : LiveData'[k] = Unset
                    /\ s.obj[2] = Live'[s.obj[1]] <=> IsLive(s.obj)
                    /\ IsLive(s.obj) => h[2] = Live'[h[1]]
                    /\ s.kind = "container" => DataBelow(s.src)' = DataBelow(s.src)
  OBVIOUS
<1>0. IsFiniteSet(Containers)
  BY DEF Plain
<1>1. /\ o \in heap /\ o \in Obj /\ o[1] \in Containers \ {Root} /\ heap \subseteq Obj
      /\ s \in Setters /\ s.obj \in heap /\ s.obj \in Obj /\ s.obj[1] \in Containers
      /\ s.obj[1] \in Sub[o[1]] /\ es \in SUBSET Elements(o[1]) /\ Unset_(o, es)
  BY ObjPair, ElementsOf DEF Shape, TypeOK, CallOK, SetStep
<1>2. /\ n \in Nodes
      /\ s.kind # "mark" => n = s.elem
      /\ s.obj[1] = n \/ Parent[n] = s.obj[1]
      /\ o[1] \in Path(n)
      /\ choice = NoChoice \/ \E d \in Path(n) : choice = ChoiceOf[d] /\ Parent[d] \in Sub[o[1]]
  BY DEF Aligned, SetStep
<1>3. \A e \in es : /\ \E d \in Path(n) : Parent[d] = o[1] /\ Rival(d, e)
                    /\ LeavesUnder(e) \subseteq RivalsOf(n)
                    /\ e \in Nodes /\ Parent[e] = o[1]
  BY <1>1, <1>2, ErasedAreRivals DEF Elements
<1>4. /\ IsLive(o) => LiveData' = ErasedBelow(es)
      /\ ~IsLive(o) => LiveData' = LiveData
  BY <1>0, <1>1, UnsetData
<1>5. \A k \in Leaves : \/ LiveData'[k] = LiveData[k]
                        \/ LiveData'[k] = Unset /\ k \in RivalsOf(n)
  <2> SUFFICES ASSUME NEW k \in Leaves, IsLive(o)
               PROVE  \/ LiveData'[k] = LiveData[k]
                      \/ LiveData'[k] = Unset /\ k \in RivalsOf(n)
    BY <1>4
  <2>1. LiveData'[k] = IF \E e \in es : k \in LeavesUnder(e) THEN Unset ELSE LiveData[k]
    BY <1>4 DEF ErasedBelow
  <2> QED BY <1>3, <2>1
<1>6. IsLive(o) => \A e \in es : \A k \in LeavesUnder(e) : LiveData'[k] = Unset
  BY <1>4 DEF ErasedBelow, LeavesUnder
<1>7. \A c \in Path(n) : c \notin Rebuilt(es)
  <2> SUFFICES ASSUME NEW c \in Path(n), NEW e \in es \cap Containers, c \in Sub[e] PROVE FALSE
    BY DEF Rebuilt
  <2>1. e \in Nodes /\ e # Root /\ c \in Nodes
    BY <1>3, NodeFacts DEF Path
  <2>2. e \in Path(c)
    <3>1. c \in Containers
      BY <2>1, NodeFacts, SchemaAssumption
    <3>2. c = e \/ Parent[c] \in Sub[e]
      BY <2>1, <3>1, NodeFacts, SchemaAssumption
    <3> QED BY <2>1, <3>2 DEF Path
  <2>3. e \in Path(n)
    BY <1>2, <2>2, PathOfPath
  <2>4. PICK d \in Path(n) : Parent[d] = o[1] /\ Rival(d, e)
    BY <1>3
  <2>5. d = e
    BY <1>0, <1>2, <1>3, <2>3, <2>4, OneOnPath
  <2> QED BY <2>4, <2>5 DEF Rival
<1>8. s.obj[1] \notin Rebuilt(es)
  <2>1. CASE s.obj[1] = n
    BY <1>2, <1>7, <2>1, NodeFacts
  <2>2. CASE Parent[n] = s.obj[1] /\ s.obj[1] # Root
    BY <1>2, <1>7, <2>2, NodeFacts, PathUp
  <2>3. CASE s.obj[1] = Root
    BY <1>1, <2>3, RebuiltClosed
  <2> QED BY <1>2, <2>1, <2>2, <2>3
<1>9. s.obj[2] = Live'[s.obj[1]] <=> IsLive(s.obj)
  BY <1>0, <1>1, <1>8, UnsetCutsOff
<1>10. ASSUME IsLive(s.obj) PROVE h[2] = Live'[h[1]]
  <2>1. h = LiveObj(Parent[o[1]]) /\ h \in heap
    BY <1>0, <1>1, <1>10, HolderOfLive DEF Shape, HoldersExist
  <2>2. IsLive(h) /\ h[1] = Parent[o[1]]
    BY <2>1 DEF IsLive, LiveObj
  <2>3. h[1] \notin Rebuilt(es)
    <3>1. o[1] \in Nodes
      BY <1>1 DEF Nodes
    <3>2. CASE Parent[o[1]] = Root
      BY <1>1, <2>2, <3>2, RebuiltClosed
    <3>3. CASE Parent[o[1]] # Root
      BY <1>2, <1>7, <2>2, <3>3, PathUp
    <3> QED BY <3>2, <3>3
  <2> QED BY <1>0, <1>1, <2>1, <2>2, <2>3, UnsetCutsOff
<1>11. ASSUME s.kind = "container" PROVE DataBelow(s.src)' = DataBelow(s.src)
  <2>1. s.src \in heap /\ s.src[1] = s.elem /\ s.elem \in Copyable /\ Parent[s.elem] = s.obj[1]
    BY <1>1, <1>11, NullAssumption DEF SourceThere, Shape, CallOK
  <2>2. s.elem \in Containers \ {Root}
    BY <2>1, RoleAssumption
  <2>3. o[1] \notin Sub[s.elem]
    <3> SUFFICES ASSUME o[1] \in Sub[s.elem] PROVE FALSE
      OBVIOUS
    <3>1. s.obj[1] \in Sub[s.elem]
      BY <1>1, <2>2, SchemaAssumption
    <3> QED BY <2>1, <2>2, <3>1, ParentAbove
  <2> QED BY <1>0, <1>1, <2>1, <2>3, UnsetSpares
<1> QED BY <1>5, <1>6, <1>9, <1>10, <1>11

-----------------------------------------------------------------------------
(* The steps of a setter                                                   *)

LEMMA SetStepAligned ==
  ASSUME Plain, Shape, SetStep, NEW s, s = setter, NEW n, Aligned(s, at, choice, n)
  PROVE  Aligned(s, at', choice', n)
<1>1. /\ at \in heap /\ at \in Obj /\ at[1] \in Containers \ {Root} /\ at # NoObj
      /\ s \in Setters /\ heap \subseteq Obj
      /\ Call(Holder(at), PassedOn(at[1], choice), s)
  BY ObjPair DEF Shape, TypeOK, CallOK, SetStep
<1>2. Holder(at) \in Obj /\ Holder(at)[1] = Parent[at[1]]
  BY <1>1 DEF Shape, HoldersExist, Holder
<1> SUFFICES ASSUME at' # NoObj
             PROVE  /\ at'[1] \in Path(n)
                    /\ \/ choice' = NoChoice
                       \/ \E d \in Path(n) : choice' = ChoiceOf[d] /\ Parent[d] \in Sub[at'[1]]
  BY DEF Aligned
<1>3. at' = Holder(at) /\ Parent[at[1]] # Root /\ choice' = PassedOn(at[1], choice)
  BY <1>1, <1>2, CallEffect
<1>4. /\ at[1] \in Path(n) /\ n \in Nodes
      /\ choice = NoChoice \/ \E d \in Path(n) : choice = ChoiceOf[d] /\ Parent[d] \in Sub[at[1]]
  BY <1>1 DEF Aligned
<1>5. at'[1] = Parent[at[1]] /\ Parent[at[1]] \in Path(n)
  BY <1>2, <1>3, <1>4, PathUp
<1>6. Parent[at[1]] \in Containers /\ Sub[at[1]] \subseteq Sub[Parent[at[1]]]
      /\ Parent[at[1]] \in Sub[Parent[at[1]]]
  BY <1>1, BelowItsParent, SchemaAssumption
<1>7. CASE choice = NoChoice
  BY <1>3, <1>4, <1>5, <1>6, <1>7 DEF PassedOn
<1>8. CASE choice # NoChoice
  BY <1>3, <1>4, <1>5, <1>6, <1>8 DEF PassedOn
<1> QED BY <1>5, <1>7, <1>8

LEMMA SetStepCleared ==
  ASSUME Plain, Shape, RootObj \in heap, SourceThere, SetStep,
         NEW s, s = setter, NEW dn, dn = doing,
         Aligned(s, at, choice, dn[2]), IsLive(s.obj) => IsLive(at),
         Cleared(s, at, choice, dn, LiveData), dn[1] \in {"write", "replace"} => IsLive(s.obj)
  PROVE  Cleared(s, at', choice', dn, LiveData')
<1> SUFFICES ASSUME dn[1] \in {"write", "replace"}, NEW d \in Path(dn[2]), NEW k \in Leaves,
                    RivalAt(d, k), LiveData'[k] # Unset
             PROVE  Owes(s, at', choice', dn[2], d)
  BY DEF Cleared
<1> DEFINE n == dn[2]
<1>1. /\ at \in heap /\ at \in Obj /\ at[1] \in Containers \ {Root} /\ at # NoObj
      /\ s \in Setters /\ s # Idle /\ heap \subseteq Obj
      /\ Call(Holder(at), PassedOn(at[1], choice), s)
      /\ s.kind # "mark" => Parent[s.elem] = s.obj[1]
  BY ObjPair DEF Shape, TypeOK, CallOK, SetStep
<1>2. Holder(at) \in Obj /\ Holder(at)[1] = Parent[at[1]]
  BY <1>1 DEF Shape, HoldersExist, Holder
<1>3. /\ \A j \in Leaves : LiveData'[j] = LiveData[j] \/ LiveData'[j] = Unset
      /\ IsLive(at) => \A e \in OtherCases(at[1], choice) : \A j \in LeavesUnder(e) :
           LiveData'[j] = Unset
  BY SetStepData
<1>4. n \in Nodes /\ d \in Nodes /\ (s.kind # "mark" => n = s.elem)
  BY DEF Aligned, Path
<1>5. Owes(s, at, choice, n, d)
  BY <1>3 DEF Cleared
<1>6. PICK e \in Path(k) : Parent[d] = Parent[e] /\ Parent[d] # Root /\ Rival(d, e)
  BY DEF RivalAt
<1>7. ASSUME at[1] = Parent[d], choice = ChoiceOf[d] PROVE FALSE
  <2>1. e \in OtherCases(at[1], choice)
    BY <1>6, <1>7 DEF OtherCases, Elements, Path, Rival
  <2>2. k \in LeavesUnder(e)
    BY <1>6, UnderIsPath DEF Path
  <2> QED BY <1>3, <2>1, <2>2
<1>8. CASE d = n
  BY <1>1, <1>4, <1>5, <1>7, <1>8 DEF Owes
<1>9. CASE d # n /\ s.kind # "mark"
  BY <1>9 DEF Owes
<1>10. CASE d # n /\ s.kind = "mark"
  <2>1. at[1] \in Sub[d] /\ choice = NoChoice
    BY <1>5, <1>7, <1>10 DEF Owes
  <2>2. d \in Containers \ {Root}
    BY <1>4, <1>10, NodeFacts DEF Path
  <2>3. Parent[at[1]] # Root /\ at' = Holder(at) /\ choice' = ChoiceOf[at[1]]
    <3>1. Parent[at[1]] # Root
      <4>1. at[1] = d \/ Parent[at[1]] \in Sub[d]
        BY <1>1, <2>1, <2>2, SchemaAssumption
      <4> QED BY <1>6, <2>2, <4>1, SchemaAssumption
    <3>2. at' = Holder(at)
      BY <1>1, <1>2, <3>1, CallWaits
    <3> QED BY <1>1, <1>2, <2>1, <3>1, <3>2, CallEffect, NullAssumption DEF PassedOn
  <2>4. CASE at[1] = d
    BY <1>1, <1>2, <1>10, <2>3, <2>4, NullAssumption DEF Owes
  <2>5. CASE at[1] # d
    <3>1. ChoiceOf[at[1]] = NoChoice
      BY <1>1, <1>6, <2>1, <2>2, <2>5 DEF Plain, OneChoiceUp, Rival
    <3>2. Parent[at[1]] \in Sub[d]
      BY <1>1, <2>1, <2>2, <2>5, SchemaAssumption
    <3> QED BY <1>1, <1>2, <1>10, <2>3, <3>1, <3>2, NullAssumption DEF Owes
  <2> QED BY <2>4, <2>5
<1> QED BY <1>8, <1>9, <1>10

LEMMA MeansLive ==
  ASSUME NEW s \in Setters, NEW dn, NEW live \in BOOLEAN, NEW B, Meant(s, dn, live, B),
         dn[1] \in {"write", "replace"}
  PROVE  live
BY SetterFields DEF Meant

LEMMA SetStepUnderway ==
  ASSUME Plain, Shape, Refined, SetStep, NEW s, s = setter, NEW dn, dn = doing
  PROVE  /\ Aligned(s, at', choice', dn[2])
         /\ Kept(s, dn, seen, LiveData')
         /\ Cleared(s, at', choice', dn, LiveData')
         /\ Meant(s, dn, s.obj[2] = Live'[s.obj[1]], DataBelow(s.src)')
         /\ at' # NoObj /\ s.obj[2] = Live'[s.obj[1]] => at'[2] = Live'[at'[1]]
<1>1. /\ at \in heap /\ at \in Obj /\ at # NoObj /\ s \in Setters /\ s # Idle /\ heap \subseteq Obj
      /\ Call(Holder(at), PassedOn(at[1], choice), s) /\ at[1] # Root
  BY DEF Shape, TypeOK, CallOK, SetStep
<1>2. /\ RootObj \in heap /\ SourceThere
      /\ Aligned(s, at, choice, dn[2])
      /\ Kept(s, dn, seen, LiveData)
      /\ Cleared(s, at, choice, dn, LiveData)
      /\ Meant(s, dn, IsLive(s.obj), DataBelow(s.src))
      /\ IsLive(s.obj) => IsLive(at)
  BY <1>1 DEF Refined, Underway
<1>3. /\ \A k \in Leaves : \/ LiveData'[k] = LiveData[k]
                           \/ LiveData'[k] = Unset /\ k \in RivalsOf(dn[2])
      /\ s.obj[2] = Live'[s.obj[1]] <=> IsLive(s.obj)
      /\ IsLive(s.obj) => Holder(at)[2] = Live'[Holder(at)[1]]
      /\ s.kind = "container" => DataBelow(s.src)' = DataBelow(s.src)
  BY <1>2, SetStepData
<1>4. Aligned(s, at', choice', dn[2])
  BY <1>2, SetStepAligned
<1>5. dn[1] \in {"write", "replace"} => IsLive(s.obj)
  <2>1. IsLive(s.obj) \in BOOLEAN
    BY DEF IsLive
  <2> QED BY <1>1, <1>2, <2>1, MeansLive
<1>6. Cleared(s, at', choice', dn, LiveData')
  BY <1>2, <1>5, SetStepCleared
<1>7. Kept(s, dn, seen, LiveData')
  BY <1>2, <1>3 DEF Kept
<1>8. Meant(s, dn, s.obj[2] = Live'[s.obj[1]], DataBelow(s.src)')
  BY <1>2, <1>3 DEF Meant
<1>9. at' # NoObj /\ s.obj[2] = Live'[s.obj[1]] => at'[2] = Live'[at'[1]]
  <2>1. Holder(at) \in Obj
    BY <1>1 DEF Shape, HoldersExist
  <2> QED BY <1>1, <1>3, <2>1, CallEffect
<1> QED BY <1>4, <1>6, <1>7, <1>8, <1>9

\* The second half of a setter begins: the rivals of its node are erased.
LEMMA SecondHalf ==
  ASSUME Plain, Shape, Refined, setter # Idle, setter.kind # "mark", at = NoObj,
         NEW s, s = [kind |-> "mark", obj |-> setter.obj], Call(setter.obj, NoChoice, s),
         NEW dn, dn = doing, \A k \in RivalsOf(dn[2]) : LiveData'[k] = LiveData[k]
  PROVE  /\ s \in Setters /\ s.kind = "mark" /\ s.obj = setter.obj /\ dn[2] = setter.elem
         /\ Aligned(s, at', choice', dn[2])
         /\ Cleared(s, at', choice', dn, LiveData')
         /\ at' # NoObj => at' = setter.obj
<1> DEFINE o == setter.obj
           n == dn[2]
<1>0. s \in Setters /\ s.kind = "mark" /\ s.obj = o /\ o \in Obj /\ o[1] \in Containers
  BY MarkSetter, SetterFields, ObjPair DEF Shape, TypeOK
<1>1. /\ Aligned(setter, at, choice, n)
      /\ Cleared(setter, at, choice, dn, LiveData)
      /\ Parent[setter.elem] = o[1]
  BY DEF Refined, Underway, Shape, CallOK
<1>2. n = setter.elem /\ n \in Nodes /\ Parent[n] = o[1]
  BY <1>1 DEF Aligned
<1>3. /\ at' # NoObj => at' = o /\ o[1] # Root /\ choice' = NoChoice
      /\ at' = NoObj => o[1] = Root
  BY <1>0, CallEffect
<1>4. Aligned(s, at', choice', n)
  <2>1. o[1] # Root => o[1] \in Path(n)
    BY <1>2, NodeFacts, PathUp
  <2> QED BY <1>0, <1>2, <1>3, <2>1 DEF Aligned
<1>5. Cleared(s, at', choice', dn, LiveData')
  <2> SUFFICES ASSUME dn[1] \in {"write", "replace"}, NEW d \in Path(n), NEW k \in Leaves,
                      RivalAt(d, k), LiveData'[k] # Unset
               PROVE  Owes(s, at', choice', n, d)
    BY DEF Cleared
  <2>1. k \in RivalsOf(n)
    BY RivalsOnPath
  <2>2. Owes(setter, at, choice, n, d)
    BY <1>1, <2>1 DEF Cleared
  <2>3. d # n
    BY <1>0, <2>2, NullAssumption DEF Owes
  <2>4. d \in Containers /\ d \in Nodes /\ Parent[n] \in Sub[d]
    BY <2>3 DEF Path
  <2>5. o[1] # Root
    BY <1>2, <2>4, NodeFacts, OnlyRootAboveRoot
  <2> QED BY <1>2, <1>3, <2>3, <2>4, <2>5 DEF Owes
<1> QED BY <1>0, <1>2, <1>3, <1>4, <1>5

LEMMA StoreLeafUnderway ==
  ASSUME Plain, Shape, Refined, StoreLeaf,
         NEW s, s = [kind |-> "mark", obj |-> setter.obj], NEW dn, dn = doing
  PROVE  /\ Aligned(s, at', choice', dn[2])
         /\ Kept(s, dn, seen, LiveData')
         /\ Cleared(s, at', choice', dn, LiveData')
         /\ Meant(s, dn, s.obj[2] = Live'[s.obj[1]], DataBelow(s.src)')
         /\ at' # NoObj /\ s.obj[2] = Live'[s.obj[1]] => at'[2] = Live'[at'[1]]
<1> SUFFICES ASSUME NEW o, o = setter.obj, NEW l, l = setter.elem, NEW v, v = setter.val
             PROVE  /\ Aligned(s, at', choice', dn[2])
                    /\ Kept(s, dn, seen, LiveData')
                    /\ Cleared(s, at', choice', dn, LiveData')
                    /\ Meant(s, dn, s.obj[2] = Live'[s.obj[1]], DataBelow(s.src)')
                    /\ at' # NoObj /\ s.obj[2] = Live'[s.obj[1]] => at'[2] = Live'[at'[1]]
  OBVIOUS
<1>0. IsFiniteSet(Containers) /\ RootObj \in heap
  BY DEF Plain, Refined
<1>1. /\ setter \in Setters /\ setter # Idle /\ setter.kind = "leaf" /\ setter.ok /\ at = NoObj
      /\ leaf' = [leaf EXCEPT ![o][l] = v] /\ kid' = kid
      /\ Call(o, NoChoice, s)
      /\ o \in heap /\ Parent[l] = o[1] /\ l \in Nodes
  BY DEF StoreLeaf, Shape, TypeOK, CallOK
<1>2. l \in Leaves /\ v \in Values /\ l \in Elements(o[1])
  BY <1>1, SetterFields DEF Elements
<1>3. /\ Aligned(setter, at, choice, dn[2])
      /\ Kept(setter, dn, seen, LiveData)
      /\ dn = IF IsLive(o) THEN <<"write", l, v>> ELSE <<"touch", l>>
  BY <1>1 DEF Refined, Underway, Meant
<1>4. dn[2] = l
  BY <1>3
<1>a. Live' = Live
  BY <1>0, <1>1, SlotsStay
<1>7. l \notin RivalsOf(l)
  BY <1>0, <1>1, <1>2, RivalsOutside DEF LeavesUnder
<1>8. \A k \in Leaves : LiveData'[k] = IF IsLive(o) /\ k = l THEN v ELSE LiveData[k]
  <2>1. /\ \A q \in Obj : q # o => leaf'[q] = leaf[q]
        /\ \A k \in Leaves : leaf'[o][k] = IF k = l THEN v ELSE leaf[o][k]
    BY <1>1 DEF Shape, TypeOK
  <2> QED BY <1>0, <1>1, <1>2, <2>1, StoreData
<1>9. \A k \in RivalsOf(dn[2]) : LiveData'[k] = LiveData[k]
  BY <1>4, <1>7, <1>8, RivalsOnPath
<1>10. /\ s \in Setters /\ s.kind = "mark" /\ s.obj = o
       /\ Aligned(s, at', choice', dn[2])
       /\ Cleared(s, at', choice', dn, LiveData')
       /\ at' # NoObj => at' = o
  BY <1>1, <1>9, SecondHalf
<1>11. Kept(s, dn, seen, LiveData')
  <2> SUFFICES ASSUME NEW k \in Leaves
               PROVE  \/ LiveData'[k] = Target(s, dn, seen, k)
                      \/ LiveData'[k] = Unset /\ k \in RivalsOf(dn[2])
    BY DEF Kept
  <2>1. LiveData[k] = seen[k] \/ (LiveData[k] = Unset /\ k \in RivalsOf(dn[2]))
    BY <1>1, <1>3 DEF Kept, Target
  <2>2. CASE IsLive(o)
    <3>1. dn[1] = "write" /\ dn[3] = v
      BY <1>3, <2>2
    <3>2. CASE k = l
      BY <1>4, <1>8, <1>10, <2>2, <3>1, <3>2 DEF Target
    <3>3. CASE k # l
      BY <1>4, <1>8, <2>1, <3>1, <3>3 DEF Target
    <3> QED BY <3>2, <3>3
  <2>3. CASE ~IsLive(o)
    <3>1. dn[1] = "touch"
      BY <1>3, <2>3
    <3> QED BY <1>8, <2>1, <2>3, <3>1 DEF Target
  <2> QED BY <2>2, <2>3
<1>12. Meant(s, dn, s.obj[2] = Live'[s.obj[1]], DataBelow(s.src)')
  <2>1. s.obj[2] = Live'[s.obj[1]] <=> IsLive(o)
    BY <1>a, <1>10 DEF IsLive
  <2>2. CASE IsLive(o)
    BY <1>2, <1>3, <1>10, <2>1, <2>2 DEF Meant
  <2>3. CASE ~IsLive(o)
    <3>1. dn = <<"touch", dn[2]>>
      BY <1>3, <2>3
    <3> QED BY <1>10, <3>1 DEF Meant
  <2> QED BY <2>2, <2>3
<1>13. at' # NoObj /\ s.obj[2] = Live'[s.obj[1]] => at'[2] = Live'[at'[1]]
  BY <1>10
<1> QED BY <1>10, <1>11, <1>12, <1>13

LEMMA CopyUnderway ==
  ASSUME Plain, Shape, FlagsUpward, Refined, CopyContainer,
         NEW s, s = [kind |-> "mark", obj |-> setter.obj], NEW dn, dn = doing
  PROVE  /\ Aligned(s, at', choice', dn[2])
         /\ Kept(s, dn, seen, LiveData')
         /\ Cleared(s, at', choice', dn, LiveData')
         /\ Meant(s, dn, s.obj[2] = Live'[s.obj[1]], DataBelow(s.src)')
         /\ at' # NoObj /\ s.obj[2] = Live'[s.obj[1]] => at'[2] = Live'[at'[1]]
<1> SUFFICES ASSUME NEW o, o = setter.obj, NEW c, c = setter.elem, NEW src, src = setter.src
             PROVE  /\ Aligned(s, at', choice', dn[2])
                    /\ Kept(s, dn, seen, LiveData')
                    /\ Cleared(s, at', choice', dn, LiveData')
                    /\ Meant(s, dn, s.obj[2] = Live'[s.obj[1]], DataBelow(s.src)')
                    /\ at' # NoObj /\ s.obj[2] = Live'[s.obj[1]] => at'[2] = Live'[at'[1]]
  OBVIOUS
<1>0. IsFiniteSet(Containers) /\ CopiesUncleared /\ RootObj \in heap /\ SourceThere
  BY DEF Plain, Refined
<1>1. /\ setter \in Setters /\ setter # Idle /\ setter.kind = "container" /\ at = NoObj
      /\ Call(o, NoChoice, s)
      /\ o \in heap /\ Parent[c] = o[1] /\ c \in Nodes /\ c \in Copyable
      /\ src \in heap /\ src[1] = c
  BY <1>0 DEF CopyContainer, Shape, TypeOK, CallOK, SourceThere
<1>2. c \in Containers \ {Root} /\ c \in Elements(o[1]) /\ o \in Obj /\ o[1] \in Containers
  BY <1>1, RoleAssumption, ObjPair DEF Elements, Shape, TypeOK
<1>a. PICK es \in SUBSET Elements(o[1]) :
        es = {c} /\ Rebuilt(es) = Sub[c] /\ Room(es) /\ kid' = UnsetKid(o, es)
  <2>1. {c} \in SUBSET Elements(o[1]) /\ Rebuilt({c}) = Sub[c]
    BY <1>2 DEF Rebuilt
  <2> QED BY <2>1 DEF CopyContainer
<1>3. /\ Aligned(setter, at, choice, dn[2])
      /\ Kept(setter, dn, seen, LiveData)
      /\ dn = IF IsLive(o) THEN <<"replace", c, DataBelow(src)>> ELSE <<"touch", c>>
  BY <1>1 DEF Refined, Underway, Meant
<1>4. dn[2] = c
  BY <1>3
<1>5. /\ IsLive(o) =>
           LiveData' = [l \in Leaves |->
              IF l \in LeavesUnder(c) THEN DataBelow(src)[l] ELSE LiveData[l]]
      /\ ~IsLive(o) => LiveData' = LiveData
  BY <1>0, CopyData
<1>6. \A d \in Containers : d \notin Sub[c] => Live'[d] = Live[d]
  <2>1. o \in heap /\ Room(es) /\ kid' = UnsetKid(o, es)
    BY <1>1, <1>a
  <2>2. \A d \in Containers :
          Live'[d] = IF IsLive(o) /\ d \in Rebuilt(es) THEN Fresh(d) ELSE Live[d]
    BY <1>0, <2>1, UnsetLive
  <2> QED BY <1>a, <2>2
<1>7. \A k \in RivalsOf(c) : k \in Leaves /\ k \notin LeavesUnder(c)
  BY <1>0, <1>1, RivalsOutside
<1>8. \A k \in Leaves : LiveData'[k] = IF IsLive(o) /\ k \in LeavesUnder(c) THEN DataBelow(src)[k]
                                       ELSE LiveData[k]
  BY <1>5
<1>9. \A k \in RivalsOf(dn[2]) : LiveData'[k] = LiveData[k]
  BY <1>4, <1>7, <1>8
<1>10. /\ s \in Setters /\ s.kind = "mark" /\ s.obj = o
       /\ Aligned(s, at', choice', dn[2])
       /\ Cleared(s, at', choice', dn, LiveData')
       /\ at' # NoObj => at' = o
  BY <1>1, <1>9, SecondHalf
<1>11. Kept(s, dn, seen, LiveData')
  <2> SUFFICES ASSUME NEW k \in Leaves
               PROVE  \/ LiveData'[k] = Target(s, dn, seen, k)
                      \/ LiveData'[k] = Unset /\ k \in RivalsOf(dn[2])
    BY DEF Kept
  <2>1. LiveData[k] = seen[k] \/ (LiveData[k] = Unset /\ k \in RivalsOf(dn[2]))
    BY <1>1, <1>3 DEF Kept, Target
  <2>2. CASE IsLive(o)
    <3>1. dn[1] = "replace" /\ dn[3] = DataBelow(src)
      BY <1>3, <2>2
    <3>2. CASE k \in LeavesUnder(c)
      BY <1>4, <1>8, <1>10, <2>2, <3>1, <3>2 DEF Target
    <3>3. CASE k \notin LeavesUnder(c)
      BY <1>4, <1>8, <2>1, <3>1, <3>3 DEF Target
    <3> QED BY <3>2, <3>3
  <2>3. CASE ~IsLive(o)
    <3>1. dn[1] = "touch"
      BY <1>3, <2>3
    <3> QED BY <1>8, <2>1, <2>3, <3>1 DEF Target
  <2> QED BY <2>2, <2>3
<1>b. s.obj[2] = Live'[s.obj[1]] <=> IsLive(o)
  <2>1. o[1] \notin Sub[c]
    BY <1>1, <1>2, ParentAbove
  <2> QED BY <1>2, <1>6, <1>10, <2>1 DEF IsLive
<1>12. Meant(s, dn, s.obj[2] = Live'[s.obj[1]], DataBelow(s.src)')
  <2>2. CASE IsLive(o)
    <3>1. DataBelow(src) \in [LeavesUnder(c) -> Values \cup {Unset}]
      BY <1>0, <1>1, DataBelowType
    <3>2. \E d \in Copyable : \E f \in [LeavesUnder(d) -> Values \cup {Unset}] :
             dn = <<"replace", d, f>>
      BY <1>1, <1>3, <2>2, <3>1
    <3> QED BY <1>10, <1>b, <2>2, <3>2 DEF Meant
  <2>3. CASE ~IsLive(o)
    <3>1. dn = <<"touch", dn[2]>>
      BY <1>3, <2>3
    <3> QED BY <1>10, <3>1 DEF Meant
  <2> QED BY <2>2, <2>3
<1>13. at' # NoObj /\ s.obj[2] = Live'[s.obj[1]] => at'[2] = Live'[at'[1]]
  BY <1>10
<1> QED BY <1>10, <1>11, <1>12, <1>13

-----------------------------------------------------------------------------
(* What has been done when a setter returns                                *)

\* Operation dn turns the data se into D, as ConfigTree has it.
Does(dn, se, D) ==
  \/ \E l \in Leaves, v \in Values :
       /\ dn = <<"write", l, v>>
       /\ D = [k \in Leaves |-> IF k = l THEN v ELSE IF k \in RivalsOf(l) THEN Unset ELSE se[k]]
  \/ \E c \in Copyable : \E f \in [LeavesUnder(c) -> Values \cup {Unset}] :
       /\ dn = <<"replace", c, f>>
       /\ D = [k \in Leaves |-> IF k \in LeavesUnder(c) THEN f[k]
                                ELSE IF k \in RivalsOf(c) THEN Unset ELSE se[k]]
  \/ \E n \in Nodes :
       /\ dn = <<"touch", n>>
       /\ \E S \in SUBSET RivalsOf(n) : D = [k \in Leaves |-> IF k \in S THEN Unset ELSE se[k]]
  \/ \E n \in Nodes :
       /\ dn = <<"unset", n>>
       /\ D = [k \in Leaves |-> IF k \in LeavesUnder(n) THEN Unset ELSE se[k]]
  \/ dn = <<"none">> /\ D = se

LEMMA DoesIsNext ==
  ASSUME NEW dn, Does(dn, seen, seen'), last' = dn
  PROVE  Abstract!Next
<1>0. /\ \A n \in Nodes : UnderTable[n] = LeavesUnder(n) /\ RivalTable[n] = RivalsOf(n)
      /\ Leaves \subseteq Nodes /\ Copyable \subseteq Nodes
  BY RoleAssumption DEF UnderTable, RivalTable, Nodes
<1>1. ASSUME NEW l \in Leaves, NEW v \in Values, dn = <<"write", l, v>>,
             seen' = [k \in Leaves |-> IF k = l THEN v ELSE IF k \in RivalsOf(l) THEN Unset ELSE seen[k]]
      PROVE  Abstract!Write(l, v)
  <2>1. seen' = [Abstract!Erased(RivalTable[l]) EXCEPT ![l] = v]
    BY <1>0, <1>1 DEF Abstract!Erased
  <2> QED BY <1>1, <2>1 DEF Abstract!Write
<1>2. ASSUME NEW c \in Copyable, NEW f \in [LeavesUnder(c) -> Values \cup {Unset}],
             dn = <<"replace", c, f>>,
             seen' = [k \in Leaves |-> IF k \in LeavesUnder(c) THEN f[k]
                                       ELSE IF k \in RivalsOf(c) THEN Unset ELSE seen[k]]
      PROVE  \E n \in Nodes : \E g \in [UnderTable[n] -> Values \cup {Unset}] : Abstract!Replace(n, g)
  <2>1. c \in Nodes /\ f \in [UnderTable[c] -> Values \cup {Unset}]
    BY <1>0
  <2>2. seen' = [l \in Leaves |-> IF l \in UnderTable[c] THEN f[l] ELSE Abstract!Erased(RivalTable[c])[l]]
    BY <1>0, <1>2 DEF Abstract!Erased
  <2>3. Abstract!Replace(c, f)
    BY <1>2, <2>2 DEF Abstract!Replace
  <2> QED BY <2>1, <2>3
<1>3. ASSUME NEW n \in Nodes, dn = <<"touch", n>>, NEW S \in SUBSET RivalsOf(n),
             seen' = [k \in Leaves |-> IF k \in S THEN Unset ELSE seen[k]]
      PROVE  Abstract!Touch(n)
  <2>1. S \in SUBSET RivalTable[n] /\ seen' = Abstract!Erased(S)
    BY <1>0, <1>3 DEF Abstract!Erased
  <2> QED BY <1>3, <2>1 DEF Abstract!Touch
<1>4. ASSUME NEW n \in Nodes, dn = <<"unset", n>>,
             seen' = [k \in Leaves |-> IF k \in LeavesUnder(n) THEN Unset ELSE seen[k]]
      PROVE  Abstract!Reset(n)
  <2>1. seen' = Abstract!Erased(UnderTable[n])
    BY <1>0, <1>4 DEF Abstract!Erased
  <2> QED BY <1>4, <2>1 DEF Abstract!Reset
<1>5. ASSUME dn = <<"none">>, seen' = seen PROVE Abstract!Skip
  BY <1>5 DEF Abstract!Skip
<1> QED BY <1>1, <1>2, <1>3, <1>4, <1>5 DEF Does, Abstract!Next

\* A setter that stores nothing has touched its node.
LEMMA TouchDone ==
  ASSUME NEW s, NEW dn, NEW se, NEW D, D = [k \in Leaves |-> D[k]],
         dn = <<"touch", dn[2]>>, dn[2] \in Nodes, Kept(s, dn, se, D)
  PROVE  Does(dn, se, D)
<1> DEFINE S == {k \in RivalsOf(dn[2]) : D[k] = Unset}
<1>1. dn[1] = "touch"
  OBVIOUS
<1>2. \A k \in Leaves : D[k] = se[k] \/ (D[k] = Unset /\ k \in RivalsOf(dn[2]))
  BY <1>1 DEF Kept, Target
<1>3. D = [k \in Leaves |-> IF k \in S THEN Unset ELSE se[k]]
  BY <1>2
<1>4. S \in SUBSET RivalsOf(dn[2])
  OBVIOUS
<1> HIDE DEF S
<1> QED BY <1>3, <1>4 DEF Does

LEMMA SetterDone ==
  ASSUME Plain, NEW s, s.kind = "mark", NEW dn, NEW se, NEW D, D = [k \in Leaves |-> D[k]],
         NEW live, NEW B, NEW ch, Aligned(s, NoObj, ch, dn[2]), Kept(s, dn, se, D),
         Cleared(s, NoObj, ch, dn, D), Meant(s, dn, live, B)
  PROVE  Does(dn, se, D)
<1>0. dn[2] \in Nodes /\ IsFiniteSet(Containers)
  BY DEF Aligned, Plain
<1>1. CASE dn = <<"touch", dn[2]>>
  BY <1>0, <1>1, TouchDone
<1>2. dn[1] \in {"write", "replace"} => \A k \in RivalsOf(dn[2]) : D[k] = Unset
  BY RivalsOnPath DEF Cleared, Owes
<1>3. ASSUME NEW l \in Leaves, NEW v \in Values, dn = <<"write", l, v>> PROVE Does(dn, se, D)
  <2>1. dn[1] = "write" /\ dn[2] = l /\ dn[3] = v
    BY <1>3
  <2>2. l \notin RivalsOf(l)
    BY <1>0, <2>1, RivalsOutside DEF LeavesUnder
  <2>3. ASSUME NEW k \in Leaves
        PROVE  D[k] = IF k = l THEN v ELSE IF k \in RivalsOf(l) THEN Unset ELSE se[k]
    <3>1. D[k] = Target(s, dn, se, k) \/ (D[k] = Unset /\ k \in RivalsOf(l))
      BY <2>1 DEF Kept
    <3>2. CASE k = l
      BY <2>1, <2>2, <3>1, <3>2 DEF Target
    <3>3. CASE k # l
      BY <1>2, <2>1, <3>1, <3>3 DEF Target
    <3> QED BY <3>2, <3>3
  <2>4. D = [k \in Leaves |-> IF k = l THEN v ELSE IF k \in RivalsOf(l) THEN Unset ELSE se[k]]
    BY <2>3
  <2> QED BY <1>3, <2>4 DEF Does
<1>4. ASSUME NEW c \in Copyable, NEW f \in [LeavesUnder(c) -> Values \cup {Unset}],
             dn = <<"replace", c, f>>
      PROVE  Does(dn, se, D)
  <2>1. dn[1] = "replace" /\ dn[2] = c /\ dn[3] = f
    BY <1>4
  <2>2. \A k \in RivalsOf(c) : k \notin LeavesUnder(c)
    BY <1>0, <2>1, RivalsOutside
  <2>3. ASSUME NEW k \in Leaves
        PROVE  D[k] = IF k \in LeavesUnder(c) THEN f[k] ELSE IF k \in RivalsOf(c) THEN Unset ELSE se[k]
    <3>1. D[k] = Target(s, dn, se, k) \/ (D[k] = Unset /\ k \in RivalsOf(c))
      BY <2>1 DEF Kept
    <3>2. CASE k \in LeavesUnder(c)
      BY <2>1, <2>2, <3>1, <3>2 DEF Target
    <3>3. CASE k \notin LeavesUnder(c)
      BY <1>2, <2>1, <3>1, <3>3 DEF Target
    <3> QED BY <3>2, <3>3
  <2>4. D = [k \in Leaves |-> IF k \in LeavesUnder(c) THEN f[k]
                              ELSE IF k \in RivalsOf(c) THEN Unset ELSE se[k]]
    BY <2>3
  <2> QED BY <1>4, <2>4 DEF Does
<1> QED BY <1>1, <1>3, <1>4 DEF Meant
-----------------------------------------------------------------------------
(* Every step does its part                                                *)

\* A step keeps the invariant, and the data as last seen either changes as the
\* operation that has returned is to change it, or not at all.
Advances ==
  /\ Refined'
  /\ Does(last', seen, seen') \/ UNCHANGED <<seen, last>>

LEMMA CallReturns ==
  ASSUME NEW o, NEW ch, NEW s, Call(o, ch, s)
  PROVE  setter' = s \/ (setter' = Idle /\ at' = NoObj /\ s.kind = "mark")
BY DEF Call

LEMMA SourceDataNext ==
  ASSUME NEW s, setter' = s
  PROVE  DataBelow(setter.src)' = DataBelow(s.src)'
<1>1. DataBelow(setter.src)' = DataIn(kid', leaf', setter'.src)
  BY DEF DataBelow, DataIn, Trace, Traces
<1>2. DataBelow(s.src)' = DataIn(kid', leaf', s.src)
  BY DEF DataBelow, DataIn, Trace, Traces
<1> QED BY <1>1, <1>2

LEMMA SetterAdvances ==
  ASSUME Plain, NEW s \in Setters, NEW dn, doing' = dn, Finish,
         setter' = s \/ (setter' = Idle /\ at' = NoObj /\ s.kind = "mark"),
         RootObj \in heap', SourceThere',
         Aligned(s, at', choice', dn[2]), Kept(s, dn, seen, LiveData'),
         Cleared(s, at', choice', dn, LiveData'),
         Meant(s, dn, s.obj[2] = Live'[s.obj[1]], DataBelow(s.src)'),
         at' # NoObj /\ s.obj[2] = Live'[s.obj[1]] => at'[2] = Live'[at'[1]]
  PROVE  Advances
<1>1. CASE setter' = s
  <2>1. setter' # Idle
    BY <1>1, NullAssumption
  <2>2. UNCHANGED <<seen, last>>
    BY <2>1 DEF Finish
  <2>3. IsLive(setter.obj)' <=> s.obj[2] = Live'[s.obj[1]]
    BY <1>1 DEF IsLive
  <2>4. DataBelow(setter.src)' = DataBelow(s.src)'
    BY <1>1, SourceDataNext
  <2>5. Underway'
    <3>1. Aligned(s, at', choice', dn[2]) /\ Kept(s, dn, seen', LiveData')
      BY <2>2
    <3>2. Meant(s, dn, IsLive(setter.obj)', DataBelow(setter.src)')
      BY <2>3, <2>4 DEF Meant, IsLive
    <3>3. at' # NoObj /\ IsLive(setter.obj)' => IsLive(at)'
      BY <2>3 DEF IsLive
    <3> QED BY <1>1, <3>1, <3>2, <3>3 DEF Underway
  <2> QED BY <2>1, <2>2, <2>5 DEF Advances, Refined, Settled
<1>2. CASE setter' = Idle /\ at' = NoObj /\ s.kind = "mark"
  <2>1. seen' = LiveData' /\ last' = dn
    BY <1>2 DEF Finish
  <2>2. LiveData' = [k \in Leaves |-> LiveData'[k]]
    BY LiveNext DEF Plain
  <2>3. Does(dn, seen, LiveData')
    BY <1>2, <2>2, SetterDone
  <2>4. Does(last', seen, seen')
    BY <2>1, <2>3
  <2>5. Underway' /\ Settled'
    BY <1>2, <2>1 DEF Underway, Settled
  <2> QED BY <2>4, <2>5 DEF Advances, Refined
<1> QED BY <1>1, <1>2

LEMMA SetStepAdvances ==
  ASSUME Plain, Shape, Refined, SetStep, Finish, doing' = doing
  PROVE  Advances
<1> SUFFICES ASSUME NEW s, s = setter, NEW dn, dn = doing PROVE Advances
  OBVIOUS
<1>1. /\ at # NoObj /\ s \in Setters /\ s # Idle /\ heap \subseteq heap' /\ RootObj \in heap /\ SourceThere
      /\ Call(Holder(at), PassedOn(at[1], choice), s)
  BY DEF Shape, TypeOK, CallOK, SetStep, Unset_, Refined
<1>2. setter' = s \/ (setter' = Idle /\ at' = NoObj /\ s.kind = "mark")
  BY <1>1, CallReturns
<1>3. SourceThere'
  BY <1>1, <1>2 DEF SourceThere
<1> QED BY <1>1, <1>2, <1>3, SetStepUnderway, SetterAdvances

LEMMA SecondHalfAdvances ==
  ASSUME Plain, Shape, FlagsUpward, Refined, StoreLeaf \/ CopyContainer, Finish, doing' = doing
  PROVE  Advances
<1> SUFFICES ASSUME NEW s, s = [kind |-> "mark", obj |-> setter.obj], NEW dn, dn = doing
             PROVE Advances
  OBVIOUS
<1>1. /\ setter.obj \in Obj /\ heap \subseteq heap' /\ RootObj \in heap
      /\ Call(setter.obj, NoChoice, s)
  BY DEF Shape, TypeOK, CallOK, StoreLeaf, CopyContainer, Refined
<1>2. s \in Setters /\ s.kind = "mark"
  BY <1>1, MarkSetter
<1>3. setter' = s \/ (setter' = Idle /\ at' = NoObj /\ s.kind = "mark")
  BY <1>1, CallReturns
<1>4. SourceThere'
  BY <1>2, <1>3 DEF SourceThere
<1> QED BY <1>1, <1>2, <1>3, <1>4, StoreLeafUnderway, CopyUnderway, SetterAdvances

\* A rejected value leaves the tree as the first half of the setter made it.
LEMMA RejectAdvances ==
  ASSUME Plain, Shape, Refined, RejectLeaf, Finish, doing' = doing
  PROVE  Advances
<1>1. /\ setter # Idle /\ setter' = Idle /\ kid' = kid /\ leaf' = leaf /\ heap' = heap
      /\ setter.kind = "leaf" /\ ~setter.ok
  BY DEF RejectLeaf, tree
<1>2. LiveData' = LiveData /\ IsFiniteSet(Containers)
  BY <1>1, SlotsStay DEF Plain
<1>3. /\ Aligned(setter, at, choice, doing[2]) /\ Kept(setter, doing, seen, LiveData)
      /\ doing = <<"touch", doing[2]>> /\ RootObj \in heap
  BY <1>1 DEF Refined, Underway, Meant
<1>4. seen' = LiveData /\ last' = doing
  BY <1>1, <1>2 DEF Finish
<1>5. LiveData = [k \in Leaves |-> LiveData[k]]
  BY <1>2, <1>3, LiveDataIs
<1>6. Does(doing, seen, LiveData)
  BY <1>3, <1>5, TouchDone DEF Aligned
<1>7. Underway' /\ Settled' /\ SourceThere'
  BY <1>1, <1>2, <1>4 DEF Underway, Settled, SourceThere
<1> QED BY <1>1, <1>3, <1>4, <1>6, <1>7 DEF Advances, Refined

LEMMA CollectAdvances ==
  ASSUME Plain, Shape, Refined, Collect, Finish, doing' = doing
  PROVE  Advances
<1>1. /\ RootObj \in heap' /\ LiveData' = LiveData /\ Live' = Live
      /\ \A o \in heap' : DataBelow(o)' = DataBelow(o)
  BY CollectData DEF Plain, Refined
<1>2. /\ at' = at /\ choice' = choice /\ setter' = setter
      /\ InCall \subseteq Reachable /\ heap' = heap \cap Reachable
  BY DEF Collect, call
<1>3. seen' = seen /\ last' = last
  BY <1>1, <1>2 DEF Finish, Refined, Settled
<1>4. setter # Idle /\ setter.kind = "container" => setter.src \in heap' /\ setter.src[1] = setter.elem
  BY <1>2 DEF InCall, Refined, SourceThere
<1>5. setter # Idle /\ setter.kind = "container" => DataBelow(setter.src)' = DataBelow(setter.src)
  BY <1>1, <1>2, <1>4, SourceDataNext
<1>6. SourceThere'
  BY <1>2, <1>4 DEF SourceThere
<1>7. Settled'
  BY <1>1, <1>2, <1>3 DEF Refined, Settled
<1>8. IsLive(setter.obj)' = IsLive(setter.obj) /\ IsLive(at)' = IsLive(at)
  BY <1>1, <1>2 DEF IsLive
<1>9. Underway'
  <2> SUFFICES ASSUME setter # Idle
               PROVE  /\ Aligned(setter, at, choice, doing[2])
                      /\ Kept(setter, doing, seen, LiveData)
                      /\ Cleared(setter, at, choice, doing, LiveData)
                      /\ Meant(setter, doing, IsLive(setter.obj), DataBelow(setter.src)')
                      /\ at # NoObj /\ IsLive(setter.obj) => IsLive(at)
    BY <1>1, <1>2, <1>3, <1>8 DEF Underway
  <2>1. Underway
    BY DEF Refined
  <2>2. Meant(setter, doing, IsLive(setter.obj), DataBelow(setter.src)')
    BY <1>5, <2>1 DEF Underway, Meant
  <2> QED BY <2>1, <2>2 DEF Underway
<1> QED BY <1>1, <1>3, <1>6, <1>7, <1>9 DEF Advances, Refined
-----------------------------------------------------------------------------
(* What a program starts                                                   *)

\* The first half of a setter has everything before it.
LEMMA FirstHalfAdvances ==
  ASSUME Plain, Shape, Refined, setter = Idle, Finish, UNCHANGED <<heap, kid, leaf>>,
         NEW o \in heap, NEW e \in Nodes, Parent[e] = o[1],
         NEW s \in Setters, s.kind # "mark", s.obj = o, s.elem = e,
         Call(o, ChoiceOf[e], s), NEW dn, doing' = dn, dn[2] = e,
         Meant(s, dn, IsLive(o), DataBelow(s.src)),
         s.kind = "container" => s.src \in heap /\ s.src[1] = e
  PROVE  Advances
<1>1. /\ o \in Obj /\ o[1] \in Containers /\ setter' = s
      /\ at' # NoObj => at' = o /\ o[1] # Root /\ choice' = ChoiceOf[e]
      /\ at' = NoObj => o[1] = Root
  BY ObjPair, CallEffect, CallReturns DEF Shape, TypeOK
<1>2. /\ LiveData' = LiveData /\ Live' = Live /\ seen = LiveData
      /\ RootObj \in heap' /\ DataBelow(s.src)' = DataBelow(s.src)
  <2>1. kid' = kid /\ leaf' = leaf /\ heap' = heap
    OBVIOUS
  <2>2. DataBelow(s.src)' = DataBelow(s.src)
    <3>1. DataBelow(s.src)' = DataIn(kid', leaf', s.src)
      BY DEF DataBelow, DataIn, Trace, Traces
    <3> QED BY <2>1, <3>1, DataIsTraced
  <2> QED BY <2>1, <2>2, SlotsStay DEF Plain, Refined, Settled
<1>3. Aligned(s, at', choice', e)
  <2>1. o[1] # Root => o[1] \in Path(e) /\ e \in Path(e) /\ Parent[e] \in Sub[o[1]]
    BY <1>1, NodeFacts, PathUp, SelfBelow
  <2> QED BY <1>1, <2>1 DEF Aligned
<1>4. Kept(s, dn, seen, LiveData')
  BY <1>2 DEF Kept, Target
<1>5. Cleared(s, at', choice', dn, LiveData')
  <2> SUFFICES ASSUME NEW d \in Path(e), NEW k \in Leaves, RivalAt(d, k)
               PROVE  Owes(s, at', choice', e, d)
    BY DEF Cleared
  <2>1. Parent[d] # Root
    BY DEF RivalAt
  <2> QED BY <1>1, <2>1 DEF Owes
<1>6. Meant(s, dn, s.obj[2] = Live'[s.obj[1]], DataBelow(s.src)')
  BY <1>2 DEF IsLive
<1>7. at' # NoObj /\ s.obj[2] = Live'[s.obj[1]] => at'[2] = Live'[at'[1]]
  BY <1>1
<1>8. SourceThere'
  BY <1>1 DEF SourceThere
<1> QED BY <1>1, <1>2, <1>3, <1>4, <1>5, <1>6, <1>7, <1>8, SetterAdvances

LEMMA AtOnceAdvances ==
  ASSUME Refined, setter = Idle, setter' = Idle, Finish, RootObj \in heap',
         Does(doing', seen, LiveData') \/ (LiveData' = LiveData /\ doing' = doing)
  PROVE  Advances
<1>1. seen' = LiveData' /\ last' = doing'
  BY DEF Finish
<1>2. seen = LiveData /\ last = doing
  BY DEF Refined, Settled
<1>3. Does(last', seen, seen') \/ UNCHANGED <<seen, last>>
  BY <1>1, <1>2
<1>4. Settled' /\ Underway' /\ SourceThere'
  BY <1>1 DEF Settled, Underway, SourceThere
<1> QED BY <1>3, <1>4 DEF Advances, Refined

LEMMA UnsetElementAdvances ==
  ASSUME Plain, Shape, Refined, setter = Idle, Finish, NEW o \in heap, NEW n \in Nodes,
         UnsetElement(o, n), doing' = IF IsLive(o) THEN <<"unset", n>> ELSE <<"none">>
  PROVE  Advances
<1>1. /\ {n} \in SUBSET Elements(o[1]) /\ Unset_(o, {n}) /\ setter' = Idle
      /\ RootObj \in heap /\ heap \subseteq heap' /\ seen = LiveData /\ IsFiniteSet(Containers)
  BY DEF UnsetElement, Unset_, Elements, call, Refined, Settled, Plain
<1>2. CASE IsLive(o)
  <2>1. LiveData' = ErasedBelow({n})
    BY <1>1, <1>2, UnsetData
  <2>2. LiveData' = [k \in Leaves |-> IF k \in LeavesUnder(n) THEN Unset ELSE seen[k]]
    BY <1>1, <2>1 DEF ErasedBelow
  <2>3. doing' = <<"unset", n>>
    BY <1>2
  <2>4. Does(doing', seen, LiveData')
    BY <2>2, <2>3 DEF Does
  <2> QED BY <1>1, <2>4, AtOnceAdvances
<1>3. CASE ~IsLive(o)
  <2>1. LiveData' = seen /\ doing' = <<"none">>
    BY <1>1, <1>3, UnsetData
  <2>2. Does(doing', seen, LiveData')
    BY <2>1 DEF Does
  <2> QED BY <1>1, <2>2, AtOnceAdvances
<1> QED BY <1>2, <1>3

LEMMA SetPresentAdvances ==
  ASSUME Plain, Shape, Refined, setter = Idle, Finish, NEW o \in heap,
         SetPresent(o), doing' = <<"touch", o[1]>>
  PROVE  Advances
<1> SUFFICES ASSUME NEW s, s = [kind |-> "mark", obj |-> o], NEW dn, dn = <<"touch", o[1]>>
             PROVE  Advances
  OBVIOUS
<1>1. /\ o \in Obj /\ o[1] \in Containers \ {Root} /\ Call(o, NoChoice, s)
      /\ kid' = kid /\ leaf' = leaf /\ heap' = heap
  BY ObjPair DEF SetPresent, Shape, TypeOK
<1>2. s \in Setters /\ s.kind = "mark" /\ s.obj = o
  BY <1>1, MarkSetter
<1>3. at' = o /\ choice' = NoChoice /\ setter' = s
  BY <1>1, <1>2, CallEffect
<1>4. LiveData' = LiveData /\ Live' = Live /\ seen = LiveData /\ RootObj \in heap'
  BY <1>1, SlotsStay DEF Plain, Refined, Settled
<1>5. dn[1] = "touch" /\ dn[2] = o[1] /\ dn = <<"touch", dn[2]>>
  OBVIOUS
<1>6. Aligned(s, at', choice', dn[2])
  <2>1. o[1] \in Nodes /\ o[1] \in Path(o[1])
    BY <1>1, NodeFacts DEF Nodes
  <2> QED BY <1>2, <1>3, <1>5, <2>1 DEF Aligned
<1>7. Kept(s, dn, seen, LiveData')
  BY <1>4, <1>5 DEF Kept, Target
<1>8. Cleared(s, at', choice', dn, LiveData')
  BY <1>5 DEF Cleared
<1>9. Meant(s, dn, s.obj[2] = Live'[s.obj[1]], DataBelow(s.src)')
  BY <1>2, <1>5 DEF Meant
<1>10. SourceThere'
  BY <1>2, <1>3 DEF SourceThere
<1>11. doing' = dn
  OBVIOUS
<1> QED BY <1>2, <1>3, <1>4, <1>6, <1>7, <1>8, <1>9, <1>10, <1>11, SetterAdvances

LEMMA StartAdvances ==
  ASSUME Plain, Shape, Refined, Start, Finish
  PROVE  Advances
<1>0. setter = Idle /\ RootObj \in heap /\ Usable \subseteq heap
  BY DEF Start, Refined, Usable
<1> SUFFICES ASSUME NEW o \in heap,
                    \/ Keep(o) /\ UNCHANGED doing
                    \/ Drop(o) /\ UNCHANGED doing
                    \/ \E l \in Leaves, v \in Values, ok \in BOOLEAN :
                         /\ SetLeaf(o, l, v, ok)
                         /\ doing' = IF ok /\ IsLive(o) THEN <<"write", l, v>> ELSE <<"touch", l>>
                    \/ \E c \in Copyable, src \in heap :
                         /\ SetContainer(o, c, src)
                         /\ doing' = IF IsLive(o) THEN <<"replace", c, DataBelow(src)>> ELSE <<"touch", c>>
                    \/ \E n \in Nodes :
                         /\ UnsetElement(o, n)
                         /\ doing' = IF IsLive(o) THEN <<"unset", n>> ELSE <<"none">>
                    \/ SetPresent(o) /\ doing' = <<"touch", o[1]>>
                    \/ ClearPresent(o) /\ doing' = <<"none">>
             PROVE  Advances
  BY <1>0 DEF Start
<1>1. CASE (Keep(o) \/ Drop(o)) /\ UNCHANGED doing
  <2>1. kid' = kid /\ leaf' = leaf /\ heap' = heap /\ setter' = Idle
    BY <1>0, <1>1 DEF Keep, Drop, tree, call
  <2>2. LiveData' = LiveData
    BY <2>1, SlotsStay DEF Plain
  <2> QED BY <1>0, <1>1, <2>1, <2>2, AtOnceAdvances
<1>2. ASSUME NEW l \in Leaves, NEW v \in Values, NEW ok \in BOOLEAN, SetLeaf(o, l, v, ok),
             doing' = IF ok /\ IsLive(o) THEN <<"write", l, v>> ELSE <<"touch", l>>
      PROVE  Advances
  <2> SUFFICES ASSUME NEW s, s = [kind |-> "leaf", obj |-> o, elem |-> l, val |-> v, ok |-> ok],
                      NEW dn, dn = doing'
               PROVE  Advances
    OBVIOUS
  <2>1. /\ l \in Nodes /\ Parent[l] = o[1] /\ Call(o, ChoiceOf[l], s)
        /\ kid' = kid /\ leaf' = leaf /\ heap' = heap
    BY <1>2 DEF SetLeaf, tree, Nodes
  <2>2. s \in Setters /\ s.kind = "leaf" /\ s.obj = o /\ s.elem = l /\ s.val = v /\ s.ok = ok
    BY DEF Setters, Shape, TypeOK
  <2>3. dn[2] = l
    BY <1>2
  <2>4. Meant(s, dn, IsLive(o), DataBelow(s.src))
    BY <1>2, <2>2 DEF Meant
  <2> QED BY <1>0, <2>1, <2>2, <2>3, <2>4, FirstHalfAdvances
<1>3. ASSUME NEW c \in Copyable, NEW src \in heap, SetContainer(o, c, src),
             doing' = IF IsLive(o) THEN <<"replace", c, DataBelow(src)>> ELSE <<"touch", c>>
      PROVE  Advances
  <2> SUFFICES ASSUME NEW s, s = [kind |-> "container", obj |-> o, elem |-> c, src |-> src],
                      NEW dn, dn = doing'
               PROVE  Advances
    OBVIOUS
  <2>1. /\ c \in Nodes /\ c \in Containers /\ Parent[c] = o[1] /\ Call(o, ChoiceOf[c], s)
        /\ kid' = kid /\ leaf' = leaf /\ heap' = heap /\ src[1] = c
    BY <1>3, RoleAssumption DEF SetContainer, tree, Nodes
  <2>2. s \in Setters /\ s.kind = "container" /\ s.obj = o /\ s.elem = c /\ s.src = src
    BY <2>1 DEF Setters, Shape, TypeOK
  <2>3. dn[2] = c
    BY <1>3
  <2>4. Meant(s, dn, IsLive(o), DataBelow(s.src))
    BY <1>3, <2>2 DEF Meant
  <2> QED BY <1>0, <2>1, <2>2, <2>3, <2>4, FirstHalfAdvances
<1>4. ASSUME NEW n \in Nodes, UnsetElement(o, n),
             doing' = IF IsLive(o) THEN <<"unset", n>> ELSE <<"none">>
      PROVE  Advances
  BY <1>0, <1>4, UnsetElementAdvances
<1>5. CASE SetPresent(o) /\ doing' = <<"touch", o[1]>>
  BY <1>0, <1>5, SetPresentAdvances
<1>6. CASE ClearPresent(o) /\ doing' = <<"none">>
  <2>1. kid' = kid /\ leaf' = leaf /\ heap' = heap /\ setter' = Idle
    BY <1>0, <1>6 DEF ClearPresent, call
  <2>2. LiveData' = LiveData
    BY <2>1, SlotsStay DEF Plain
  <2>3. Does(doing', seen, LiveData')
    BY <1>0, <1>6, <2>2 DEF Does, Refined, Settled
  <2> QED BY <1>0, <2>1, <2>3, AtOnceAdvances
<1> QED BY <1>1, <1>2, <1>3, <1>4, <1>5, <1>6
-----------------------------------------------------------------------------
(* The theorems                                                            *)

Inductive == Shape /\ FlagsUpward /\ Refined

LEMMA InductiveInit ==
  ASSUME Plain, IInit
  PROVE  Inductive /\ seen = [l \in Leaves |-> Unset] /\ LiveData = seen
<1>1. Init /\ Shape
  BY ShapeInit DEF IInit
<1>2. FlagsUpward
  BY <1>1, FlagsInit
<1>3. /\ RootObj \in heap /\ setter = Idle /\ doing = <<"none">> /\ last = <<"none">>
      /\ seen = [l \in Leaves |-> Unset] /\ leaf = [o \in Obj |-> [l \in Leaves |-> Unset]]
  BY SchemaAssumption DEF IInit, Init, RootObj
<1>4. LiveData = [l \in Leaves |-> leaf[LiveObj(Parent[l])][l]]
  BY <1>1, <1>3, LiveDataIs DEF Plain
<1>5. ASSUME NEW l \in Leaves PROVE LiveObj(Parent[l]) \in Obj
  BY <1>1, <1>3, LiveObjects, NodeFacts DEF Shape, TypeOK, Nodes, Plain
<1>6. LiveData = seen
  BY <1>3, <1>4, <1>5
<1>7. Refined
  BY <1>3, <1>6 DEF Refined, SourceThere, Underway, Settled
<1> QED BY <1>1, <1>2, <1>3, <1>6, <1>7 DEF Inductive

LEMMA InextIsNext == [INext]_ivars => [Next]_vars
<1>1. Start => Operation
  BY DEF Start, Operation
<1> QED BY <1>1 DEF INext, Continue, Next, ivars, vars

LEMMA InductiveNext ==
  ASSUME Plain, Inductive, [INext]_ivars
  PROVE  /\ Inductive'
         /\ Does(last', seen, seen') \/ UNCHANGED <<seen, last>>
<1>1. Shape' /\ FlagsUpward'
  BY InextIsNext, ShapeNext, FlagsNext DEF Inductive
<1>2. CASE INext
  <2>1. Collect /\ UNCHANGED doing => Advances
    BY <1>2, CollectAdvances DEF INext, Inductive
  <2>2. Start => Advances
    BY <1>2, StartAdvances DEF INext, Inductive
  <2>3. Continue /\ UNCHANGED doing => Advances
    BY <1>2, SetStepAdvances, SecondHalfAdvances, RejectAdvances
       DEF INext, Inductive, Continue
  <2>4. Advances
    BY <1>2, <2>1, <2>2, <2>3 DEF INext
  <2> QED BY <1>1, <2>4 DEF Advances, Inductive
<1>3. CASE UNCHANGED ivars
  <2>1. /\ heap' = heap /\ kid' = kid /\ leaf' = leaf /\ at' = at /\ choice' = choice
        /\ setter' = setter /\ seen' = seen /\ doing' = doing /\ last' = last
    BY <1>3 DEF ivars, vars
  <2>2. LiveData' = LiveData /\ Live' = Live
    BY <2>1, SlotsStay DEF Plain
  <2>3. DataBelow(setter.src)' = DataBelow(setter.src)
    <3>1. DataBelow(setter.src)' = DataIn(kid', leaf', setter'.src)
      BY DEF DataBelow, DataIn, Trace, Traces
    <3> QED BY <2>1, <3>1, DataIsTraced
  <2>4. IsLive(setter.obj)' = IsLive(setter.obj) /\ IsLive(at)' = IsLive(at)
    BY <2>1, <2>2 DEF IsLive
  <2>5. Refined'
    BY <2>1, <2>2, <2>3, <2>4 DEF Inductive, Refined, SourceThere, Underway, Settled
  <2> QED BY <1>1, <2>1, <2>5 DEF Inductive
<1> QED BY <1>2, <1>3

\* Setters, copies and resets, through live and stale handles, do to the
\* reachable data what ConfigTree says, in every schema without nested choices:
\* a write stores its value and erases its rivals only, a copy carries over all
\* of its source, and what is done through a stale handle erases at most rivals.
THEOREM TreeImplementsConfig ==
  ASSUME Plain
  PROVE  ISpec => ImplementsConfigTree
<1>1. IInit => Inductive /\ Abstract!Init
  BY InductiveInit DEF Abstract!Init, IInit
<1>2. Inductive /\ [INext]_ivars => Inductive' /\ [Abstract!Next]_<<seen, last>>
  BY InductiveNext, DoesIsNext
<1> QED BY <1>1, <1>2, PTL DEF ISpec, ImplementsConfigTree, Abstract!Spec

\* A write makes no leaf lose its value but those in another case of a choice
\* that the written leaf is in, where no case holds another choice.
THEOREM WritesSpareTheRest ==
  ASSUME Plain
  PROVE  ISpec => WritesEraseOnlyOtherCases
<1>1. IInit => Inductive
  BY InductiveInit
<1>2. Inductive /\ [INext]_ivars => Inductive'
  BY InductiveNext
<1>3. ASSUME Inductive, [INext]_ivars, NEW k \in Leaves,
             seen[k] # Unset, seen'[k] = Unset, last'[1] = "write"
      PROVE  k \in RivalTable[last'[2]]
  <2>1. Does(last', seen, seen')
    BY <1>3, InductiveNext
  <2>2. PICK l \in Leaves, v \in Values :
          /\ last' = <<"write", l, v>>
          /\ seen' = [m \in Leaves |-> IF m = l THEN v ELSE IF m \in RivalsOf(l) THEN Unset ELSE seen[m]]
    BY <1>3, <2>1 DEF Does
  <2>3. k \in RivalsOf(l)
    BY <1>3, <2>2, ValueAssumption
  <2> QED BY <2>2, <2>3 DEF RivalTable, Nodes
<1>4. Inductive /\ [INext]_ivars =>
        [\A k \in Leaves : seen[k] # Unset /\ seen'[k] = Unset /\ last'[1] = "write"
                             => k \in RivalTable[last'[2]]]_ivars
  BY <1>3
<1> QED BY <1>1, <1>2, <1>4, PTL DEF ISpec, WritesEraseOnlyOtherCases

-----------------------------------------------------------------------------
(* Cases do not coexist                                                    *)

Apart(D) == \A l \in Leaves : D[l] # Unset => \A k \in RivalsOf(l) : D[k] = Unset

LEMMA DoingKeepsApart ==
  ASSUME Plain, NEW dn, NEW se, NEW D, Apart(se), Does(dn, se, D)
  PROVE  Apart(D)
<1>0. /\ IsFiniteSet(Containers) /\ Leaves \subseteq Nodes /\ Copyable \subseteq Nodes
      /\ \A l \in Leaves : RivalsOf(l) \subseteq Leaves
  BY RivalsOnPath, RoleAssumption DEF Plain, Nodes
<1> SUFFICES ASSUME NEW a \in Leaves, D[a] # Unset, NEW b \in RivalsOf(a) PROVE D[b] = Unset
  BY DEF Apart
<1>1. b \in Leaves /\ a \in RivalsOf(b)
  BY <1>0, RivalsBothWays
<1>2. se[a] # Unset => se[b] = Unset
  BY DEF Apart
<1>3. ASSUME NEW l \in Leaves, NEW v \in Values,
             D = [k \in Leaves |-> IF k = l THEN v ELSE IF k \in RivalsOf(l) THEN Unset ELSE se[k]]
      PROVE  D[b] = Unset
  <2>1. a = l => b # l
    BY <1>0, RivalsOutside DEF LeavesUnder
  <2> QED BY <1>1, <1>2, <1>3, <2>1
<1>4. ASSUME NEW c \in Copyable, NEW f \in [LeavesUnder(c) -> Values \cup {Unset}],
             D = [k \in Leaves |-> IF k \in LeavesUnder(c) THEN f[k]
                                   ELSE IF k \in RivalsOf(c) THEN Unset ELSE se[k]]
      PROVE  D[b] = Unset
  <2>1. a \in LeavesUnder(c) => b \in RivalsOf(c) /\ b \notin LeavesUnder(c)
    BY <1>0, RivalsOfCopied, RivalsOutside
  <2>2. b \in LeavesUnder(c) => a \in RivalsOf(c) /\ a \notin LeavesUnder(c)
    BY <1>0, <1>1, RivalsOfCopied, RivalsOutside
  <2> QED BY <1>1, <1>2, <1>4, <2>1, <2>2
<1>5. ASSUME NEW S, D = [k \in Leaves |-> IF k \in S THEN Unset ELSE se[k]]
      PROVE  D[b] = Unset
  BY <1>1, <1>2, <1>5
<1>6. CASE D = se
  BY <1>2, <1>6
<1> QED BY <1>3, <1>4, <1>5, <1>6 DEF Does

\* No two leaves that lie in different cases of a choice hold values at once in
\* the tree a program can reach, whichever setters, copies and resets made it.
THEOREM CasesNeverCoexist ==
  ASSUME Plain
  PROVE  ISpec => []CasesDoNotCoexist
<1>1. IInit => Inductive /\ Apart(seen)
  BY InductiveInit, RivalsOnPath DEF Apart
<1>2. Inductive /\ Apart(seen) /\ [INext]_ivars => Inductive' /\ Apart(seen)'
  <2> SUFFICES ASSUME Inductive, Apart(seen), [INext]_ivars PROVE Inductive' /\ Apart(seen)'
    OBVIOUS
  <2>1. Inductive' /\ (Does(last', seen, seen') \/ seen' = seen)
    BY InductiveNext
  <2>2. Apart(seen')
    BY <2>1, DoingKeepsApart
  <2>3. Apart(seen)'
    BY <2>2 DEF Apart
  <2> QED BY <2>1, <2>3
<1>3. Inductive /\ Apart(seen) => CasesDoNotCoexist
  BY DEF Inductive, Refined, Settled, Apart, CasesDoNotCoexist, RivalTable, Nodes
<1> QED BY <1>1, <1>2, <1>3, PTL DEF ISpec
=============================================================================
