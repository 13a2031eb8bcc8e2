------------------------- MODULE ListRegistryProofs -------------------------
(***************************************************************************)
(* ListRegistry: for any list, any keys and any number of handles, types    *)
(* are kept and the path of an entry in the list resolves to that entry.    *)
(* ListPrograms: with the calls that keep the registry, list and registry   *)
(* are one map (IndexedStore); with those that mark the list, it excludes   *)
(* the other case and no write loses another entry.                         *)
(***************************************************************************)
EXTENDS ListPrograms, SequenceTheorems, TLAPS

-----------------------------------------------------------------------------
(* Paths                                                                   *)

\* Different entries have different paths, and no entry has the path of a leaf.
LEMMA PathsApart ==
  ASSUME NEW t \in Texts, NEW u \in Texts
  PROVE  /\ EntryPath(t) = EntryPath(u) => t = u
         /\ EntryPath(t) # KeyPath(u)
         /\ EntryPath(t) # ValPath(u)
         /\ EntryPath(t) # ZPath
         /\ Registry!IsPrefix(EntryPath(t), EntryPath(u)) => t = u
<1>1. EntryPath(t) = EntryPath(u) => t = u
  <2>1. EntryPath(t)[1] = t /\ EntryPath(u)[1] = u
    BY DEF EntryPath
  <2> QED BY <2>1
<1>2. EntryPath(t) # KeyPath(u) /\ EntryPath(t) # ValPath(u)
  <2>1. Len(EntryPath(t)) = 1 /\ Len(KeyPath(u)) = 2 /\ Len(ValPath(u)) = 2
    BY DEF EntryPath, KeyPath, ValPath
  <2> QED BY <2>1
<1>3. EntryPath(t) # ZPath
  <2>1. EntryPath(t)[1] = t /\ ZPath[1] = "z"
    BY DEF EntryPath, ZPath
  <2> QED BY <2>1, PathAssumption
<1>4. Registry!IsPrefix(EntryPath(t), EntryPath(u)) => t = u
  BY DEF Registry!IsPrefix, EntryPath
<1> QED BY <1>1, <1>2, <1>3, <1>4

-----------------------------------------------------------------------------
(* The registry                                                            *)

Registries == [Paths -> Objects \cup {None}]
Holders(r) == {r[p].of : p \in {q \in Paths : r[q] # None}}

LEMMA RegisterEffect ==
  ASSUME NEW r \in Registries, NEW p \in Paths, NEW obj \in Objects
  PROVE  /\ Registry!Register(r, p, obj) \in Registries
         /\ \A q \in Paths : q # p => Registry!Register(r, p, obj)[q] = r[q]
         /\ Registry!Register(r, p, obj)[p] \in {r[p], obj}
         /\ obj.is = "entry" => Registry!Register(r, p, obj)[p] = obj
         /\ Holders(Registry!Register(r, p, obj)) \subseteq Holders(r) \cup {obj.of}
<1> DEFINE s == Registry!Register(r, p, obj)
<1>1. s \in Registries /\ (\A q \in Paths : q # p => s[q] = r[q]) /\ s[p] \in {r[p], obj}
  BY DEF Registry!Register, Registries
<1>2. obj.is = "entry" => s[p] = obj
  BY DEF Registry!Register, Registries, SameObject, Objects
<1>3. Holders(s) \subseteq Holders(r) \cup {obj.of}
  <2> SUFFICES ASSUME NEW q \in Paths, s[q] # None
               PROVE  s[q].of \in Holders(r) \cup {obj.of}
    BY DEF Holders
  <2>1. s[q] = r[q] \/ s[q] = obj
    BY <1>1
  <2> QED BY <2>1 DEF Holders
<1> QED BY <1>1, <1>2, <1>3

AnySources == [key : Natives \cup {NullKey}, keySet : BOOLEAN, val : Values \cup {Null}, set : BOOLEAN]

LEMMA SourceType == Sources \subseteq AnySources /\ NoSource \in AnySources
<1>1. NoSource \in AnySources
  BY DEF NoSource, AnySources
<1>2. ASSUME NEW s \in [key : Natives, keySet : {TRUE}, val : Values, set : {TRUE}]
      PROVE  s \in AnySources
  BY DEF AnySources
<1> QED BY <1>1, <1>2 DEF Sources

LEMMA EntryType ==
  ASSUME NEW e \in Ids
  PROVE  Entry(e) \in Objects
BY DEF Entry, Objects

LEMMA LeafType ==
  ASSUME NEW e \in Ids \cup {Holder}, NEW v \in Values \cup Natives \cup {Null, NullKey},
         NEW s \in BOOLEAN
  PROVE  Leaf(e, v, s) \in Objects
BY DEF Leaf, Objects

LEMMA PathType ==
  ASSUME NEW t \in Texts
  PROVE  /\ EntryPath(t) \in Paths /\ KeyPath(t) \in Paths /\ ValPath(t) \in Paths
         /\ ZPath \in Paths
BY DEF Paths

\* Announcing an entry sets its path, leaves the paths of the other entries
\* alone and registers nothing that is not the entry's.
LEMMA AnnouncedEffect ==
  ASSUME NEW r \in Registries, NEW e \in Ids, NEW k \in Keys, NEW src \in AnySources
  PROVE  /\ Announced(r, e, k, src) \in Registries
         /\ Announced(r, e, k, src)[EntryPath(Text[k])] = Entry(e)
         /\ \A t \in Texts : t # Text[k] =>
              Announced(r, e, k, src)[EntryPath(t)] = r[EntryPath(t)]
         /\ Holders(Announced(r, e, k, src)) \subseteq Holders(r) \cup {e}
<1> DEFINE t0 == Text[k]
           r1 == Registry!Register(r, EntryPath(t0), Entry(e))
           r2 == Registry!Register(r1, KeyPath(t0), Leaf(e, NullKey, FALSE))
           r3 == Registry!Register(r2, ValPath(t0), Leaf(e, Null, FALSE))
           r4 == IF src.keySet
                 THEN Registry!Register(r3, KeyPath(t0), Leaf(e, src.key, TRUE)) ELSE r3
           r5 == IF src.set
                 THEN Registry!Register(r4, ValPath(t0), Leaf(e, src.val, TRUE)) ELSE r4
           Good(s) == /\ s \in Registries
                      /\ s[EntryPath(t0)] = Entry(e)
                      /\ \A t \in Texts : t # t0 => s[EntryPath(t)] = r[EntryPath(t)]
                      /\ Holders(s) \subseteq Holders(r) \cup {e}
<1>1. t0 \in Texts
  BY DEF Texts
<1>2. Good(r1)
  <2>1. Entry(e).is = "entry" /\ Entry(e).of = e
    BY DEF Entry
  <2>2. \A t \in Texts : t # t0 => EntryPath(t) # EntryPath(t0) /\ EntryPath(t) \in Paths
    BY <1>1, PathsApart, PathType
  <2> HIDE DEF t0
  <2> QED BY <1>1, <2>1, <2>2, EntryType, PathType, RegisterEffect
<1>3. ASSUME NEW s, Good(s), NEW p \in {KeyPath(t0), ValPath(t0)},
             NEW v \in Values \cup Natives \cup {Null, NullKey}, NEW b \in BOOLEAN
      PROVE  Good(Registry!Register(s, p, Leaf(e, v, b)))
  <2>1. Leaf(e, v, b) \in Objects /\ Leaf(e, v, b).of = e
    BY LeafType DEF Leaf
  <2>2. \A t \in Texts : EntryPath(t) # p /\ EntryPath(t) \in Paths
    BY <1>1, PathsApart, PathType
  <2>3. p \in Paths
    BY <1>1, PathType
  <2> DEFINE obj == Leaf(e, v, b)
             u == Registry!Register(s, p, obj)
  <2>4. /\ u \in Registries
        /\ \A q \in Paths : q # p => u[q] = s[q]
        /\ Holders(u) \subseteq Holders(s) \cup {e}
    BY <1>3, <2>1, <2>3, RegisterEffect
  <2> HIDE DEF t0, u
  <2>5. Good(u)
    BY <1>1, <1>3, <2>2, <2>4
  <2> QED BY <2>5 DEF u
<1>4. src.keySet \in BOOLEAN /\ src.set \in BOOLEAN
      /\ src.key \in Natives \cup {NullKey} /\ src.val \in Values \cup {Null}
  BY DEF AnySources
<1> HIDE DEF Good, t0
<1>5. Good(r2)
  BY <1>2, <1>3
<1>6. Good(r3)
  BY <1>3, <1>5
<1> HIDE DEF r3
<1>7. Good(r4)
  BY <1>3, <1>4, <1>6
<1> HIDE DEF r4
<1>8. Good(r5)
  BY <1>3, <1>4, <1>7
<1>9. r5 = Announced(r, e, k, src)
  BY DEF Announced, r3, r4, t0
<1> QED BY <1>8, <1>9 DEF Good, t0

-----------------------------------------------------------------------------
(* Types                                                                   *)

Records == [text : Texts, key : Natives \cup {NullKey}, val : Values \cup {Null}, set : BOOLEAN]

\* What keeps the types: whatever is referred to exists.
TypeInv == TypeOK /\ Referenced \subseteq DOMAIN entry

\* A step that refers to what was referred to before, and perhaps to a new
\* entry e, and gives the entries proper contents, keeps the invariant.
LEMMA EntriesStep ==
  ASSUME TypeInv, NEW S \in SUBSET Ids,
         members' \in [Keys -> Ids \cup {None}],
         \A k \in Keys : members'[k] \in Referenced \cup S \cup {None},
         held' \subseteq Referenced \cup S,
         reg' \in Registries,
         Holders(reg') \subseteq Holders(reg) \cup S \cup {Holder},
         DOMAIN entry' = Referenced',
         entry' = [i \in DOMAIN entry' |-> entry'[i]],
         \A i \in DOMAIN entry' : entry'[i] \in Records \/ (i \in Referenced /\ entry'[i] = entry[i])
  PROVE  /\ DOMAIN entry' \subseteq Ids
         /\ entry' \in [DOMAIN entry' -> Records]
         /\ held' \subseteq DOMAIN entry'
         /\ Referenced' \subseteq DOMAIN entry'
<1>1. Referenced' \subseteq Referenced \cup S
  <2>1. Referenced' = ({members'[k] : k \in Keys} \ {None}) \cup held' \cup (Holders(reg') \ {Holder})
    BY DEF Referenced, Registered, Holders
  <2>2. Holders(reg) \ {Holder} \subseteq Referenced
    BY DEF Referenced, Registered, Holders
  <2> QED BY <2>1, <2>2
<1>2. Referenced \subseteq DOMAIN entry /\ DOMAIN entry \subseteq Ids
  BY DEF TypeInv, TypeOK
<1>3. \A i \in Referenced : entry[i] \in Records
  BY <1>2 DEF TypeInv, TypeOK, Records
<1>4. held' \subseteq Referenced'
  BY DEF Referenced
<1> QED BY <1>1, <1>2, <1>3, <1>4

\* The kinds of step that make no new entry.
LEMMA KeptStep ==
  ASSUME TypeInv,
         members' \in [Keys -> Ids \cup {None}],
         \A k \in Keys : members'[k] \in {members[k], None},
         held' \subseteq Referenced,
         reg' \in Registries, Holders(reg') \subseteq Holders(reg) \cup {Holder},
         listChanged' \in BOOLEAN,
         z' = z \/ \E v \in Values \cup {Null}, b \in BOOLEAN : z' = Leaf(Holder, v, b),
         EntriesKept
  PROVE  TypeInv'
<1>1. DOMAIN entry' = Referenced' /\ entry' = [i \in DOMAIN entry' |-> entry'[i]]
  BY DEF EntriesKept
<1>2. \A k \in Keys : members[k] \in Referenced \cup {None}
  BY DEF Referenced
<1>3. \A k \in Keys : members'[k] \in Referenced \cup {} \cup {None}
  BY <1>2
<1>4. Referenced' \subseteq Referenced
  <2>1. Referenced' = ({members'[k] : k \in Keys} \ {None}) \cup held' \cup (Holders(reg') \ {Holder})
    BY DEF Referenced, Registered, Holders
  <2>2. Holders(reg) \ {Holder} \subseteq Referenced
    BY DEF Referenced, Registered, Holders
  <2> QED BY <1>2, <2>1, <2>2
<1>5. \A i \in DOMAIN entry' : i \in Referenced /\ entry'[i] = entry[i]
  BY <1>1, <1>4 DEF EntriesKept
<1>6. /\ DOMAIN entry' \subseteq Ids
      /\ entry' \in [DOMAIN entry' -> Records]
      /\ held' \subseteq DOMAIN entry'
      /\ Referenced' \subseteq DOMAIN entry'
  BY <1>1, <1>3, <1>5, EntriesStep
<1>7. z' \in [is : {"leaf"}, of : {Holder}, val : Values \cup {Null}, set : BOOLEAN]
  BY DEF Leaf, TypeInv, TypeOK
<1> QED BY <1>6, <1>7 DEF TypeInv, TypeOK, Registries, Records

LEMMA MarkedEffect ==
  ASSUME TypeInv
  PROVE  /\ Marked(reg) \in Registries
         /\ Holders(Marked(reg)) \subseteq Holders(reg) \cup {Holder}
         /\ \A t \in Texts : Marked(reg)[EntryPath(t)] = reg[EntryPath(t)]
<1>1. UnsetZLeaf \in Objects /\ UnsetZLeaf.of = Holder /\ reg \in Registries
  BY LeafType DEF UnsetZLeaf, Leaf, TypeInv, TypeOK, Registries
<1>2. ZPath \in Paths /\ \A t \in Texts : EntryPath(t) # ZPath /\ EntryPath(t) \in Paths
  BY PathsApart, PathType DEF Paths
<1> QED BY <1>1, <1>2, RegisterEffect DEF Marked

\* A new entry is one nothing refers to.
LEMMA BuildEffect ==
  ASSUME TypeInv, NEW k \in Keys, NEW src \in AnySources,
         NEW r \in Registries, Holders(r) \subseteq Holders(reg) \cup {Holder},
         listChanged' \in BOOLEAN,
         z' \in [is : {"leaf"}, of : {Holder}, val : Values \cup {Null}, set : BOOLEAN],
         Build(k, src, r)
  PROVE  /\ TypeInv'
         /\ \E e \in Ids :
              /\ e \notin DOMAIN entry
              /\ reg'[EntryPath(Text[k])] = Entry(e)
              /\ \A t \in Texts : t # Text[k] => reg'[EntryPath(t)] = r[EntryPath(t)]
              /\ \/ members' = members /\ Native[k] = Invalid
                 \/ members' = [members EXCEPT ![k] = e] /\ Native[k] # Invalid
<1> DEFINE e == CHOOSE i \in Ids : i \notin DOMAIN entry
           a == Announced(r, e, k, src)
           new == [text |-> Text[k], key |-> Native[k], val |-> src.val, set |-> src.set]
           s == Registry!Register(a, KeyPath(Text[k]), Leaf(e, Native[k], TRUE))
           x == IF Native[k] = Invalid THEN [new EXCEPT !.key = src.key] ELSE new
<1>1. e \in Ids /\ e \notin DOMAIN entry
  BY DEF Build
<1>2. Text[k] \in Texts /\ Native[k] \in Natives \cup {Invalid}
  BY KeyAssumption DEF Texts
<1>3. /\ a \in Registries
      /\ a[EntryPath(Text[k])] = Entry(e)
      /\ \A t \in Texts : t # Text[k] => a[EntryPath(t)] = r[EntryPath(t)]
      /\ Holders(a) \subseteq Holders(r) \cup {e}
  BY <1>1, AnnouncedEffect
<1>4. /\ held' = held
      /\ Native[k] = Invalid => reg' = a /\ members' = members
      /\ Native[k] # Invalid => reg' = s /\ members' = [members EXCEPT ![k] = e]
      /\ EntriesBecome(e, x)
  BY DEF Build
<1> HIDE DEF e, a
<1>5. Native[k] # Invalid =>
        /\ s \in Registries
        /\ s[EntryPath(Text[k])] = Entry(e)
        /\ \A t \in Texts : t # Text[k] => s[EntryPath(t)] = r[EntryPath(t)]
        /\ Holders(s) \subseteq Holders(r) \cup {e}
  <2> SUFFICES ASSUME Native[k] # Invalid
               PROVE  /\ s \in Registries
                      /\ s[EntryPath(Text[k])] = Entry(e)
                      /\ \A t \in Texts : t # Text[k] => s[EntryPath(t)] = r[EntryPath(t)]
                      /\ Holders(s) \subseteq Holders(r) \cup {e}
    OBVIOUS
  <2>1. Leaf(e, Native[k], TRUE) \in Objects /\ Leaf(e, Native[k], TRUE).of = e
    BY <1>1, <1>2, LeafType DEF Leaf
  <2>2. \A t \in Texts : EntryPath(t) # KeyPath(Text[k]) /\ EntryPath(t) \in Paths
    BY <1>2, PathsApart, PathType
  <2>3. KeyPath(Text[k]) \in Paths
    BY <1>2, PathType
  <2> DEFINE p == KeyPath(Text[k])
             obj == Leaf(e, Native[k], TRUE)
  <2>4. /\ s \in Registries
        /\ \A q \in Paths : q # p => s[q] = a[q]
        /\ Holders(s) \subseteq Holders(a) \cup {e}
    <3>1. s = Registry!Register(a, p, obj) /\ p \in Paths /\ obj \in Objects /\ obj.of = e
      BY <2>1, <2>3
    <3> HIDE DEF s, p, obj
    <3> QED BY <1>3, <3>1, RegisterEffect
  <2> HIDE DEF s
  <2> QED BY <1>2, <1>3, <2>2, <2>4
<1> HIDE DEF s
<1>6. /\ reg' \in Registries
      /\ reg'[EntryPath(Text[k])] = Entry(e)
      /\ \A t \in Texts : t # Text[k] => reg'[EntryPath(t)] = r[EntryPath(t)]
      /\ Holders(reg') \subseteq Holders(r) \cup {e}
  BY <1>3, <1>4, <1>5
<1>7. x \in Records
  BY <1>2 DEF AnySources, Records
<1> HIDE DEF x
<1>8. members \in [Keys -> Ids \cup {None}] /\ held \subseteq Referenced
      /\ \A j \in Keys : members[j] \in Referenced \cup {None}
  BY DEF TypeInv, TypeOK, Referenced
<1>9. /\ members' \in [Keys -> Ids \cup {None}]
      /\ \A j \in Keys : members'[j] \in Referenced \cup {e} \cup {None}
      /\ held' \subseteq Referenced \cup {e}
      /\ Holders(reg') \subseteq Holders(reg) \cup {e} \cup {Holder}
  BY <1>1, <1>4, <1>6, <1>8
<1>10. /\ DOMAIN entry' = Referenced'
       /\ entry' = [i \in DOMAIN entry' |-> entry'[i]]
       /\ \A i \in DOMAIN entry' : entry'[i] = IF i = e THEN x ELSE entry[i]
  BY <1>4 DEF EntriesBecome
<1>11. Referenced' \subseteq Referenced \cup {e}
  <2>1. Referenced' = ({members'[j] : j \in Keys} \ {None}) \cup held' \cup (Holders(reg') \ {Holder})
    BY DEF Referenced, Registered, Holders
  <2>2. Holders(reg) \ {Holder} \subseteq Referenced
    BY DEF Referenced, Registered, Holders
  <2> QED BY <1>9, <2>1, <2>2
<1>12. \A i \in DOMAIN entry' : entry'[i] \in Records \/ (i \in Referenced /\ entry'[i] = entry[i])
  BY <1>7, <1>10, <1>11
<1>13. /\ DOMAIN entry' \subseteq Ids
       /\ entry' \in [DOMAIN entry' -> Records]
       /\ held' \subseteq DOMAIN entry'
       /\ Referenced' \subseteq DOMAIN entry'
  BY <1>1, <1>6, <1>9, <1>10, <1>12, EntriesStep
<1>14. TypeInv'
  BY <1>6, <1>9, <1>13 DEF TypeInv, TypeOK, Registries, Records
<1> QED BY <1>1, <1>4, <1>6, <1>14

LEMMA UnregisterEffect ==
  ASSUME TypeInv, NEW t \in Texts
  PROVE  /\ Registry!Unregister(reg, EntryPath(t)) \in Registries
         /\ Holders(Registry!Unregister(reg, EntryPath(t))) \subseteq Holders(reg)
         /\ \A u \in Texts : u # t =>
              Registry!Unregister(reg, EntryPath(t))[EntryPath(u)] = reg[EntryPath(u)]
<1> DEFINE s == Registry!Unregister(reg, EntryPath(t))
<1>1. reg \in Registries
  BY DEF TypeInv, TypeOK, Registries
<1>2. s \in Registries /\ \A q \in Paths : s[q] = None \/ s[q] = reg[q]
  BY <1>1 DEF Registry!Unregister, Registries
<1>3. Holders(s) \subseteq Holders(reg)
  BY <1>2 DEF Holders
<1>4. \A u \in Texts : u # t => s[EntryPath(u)] = reg[EntryPath(u)]
  BY PathsApart, PathType DEF Registry!Unregister
<1> QED BY <1>2, <1>3, <1>4

\* Writing leaf v of an entry: no path of an entry changes.
LEMMA SetVEffect ==
  ASSUME TypeInv, NEW e \in Reached, NEW v \in Values \cup {Null}, NEW b \in BOOLEAN,
         SetV(e, v, b)
  PROVE  /\ TypeInv'
         /\ members' = members
         /\ \A t \in Texts : reg'[EntryPath(t)] = reg[EntryPath(t)]
<1> DEFINE p == ValPath(entry[e].text)
           obj == Leaf(e, v, b)
<1>1. e \in Referenced /\ e \in DOMAIN entry /\ e \in Ids
  BY DEF Reached, Referenced, TypeInv, TypeOK
<1>2. entry[e] \in Records
  BY <1>1 DEF TypeInv, TypeOK, Records
<1>3. entry[e].text \in Texts
  BY <1>2 DEF Records
<1>4. p \in Paths /\ obj \in Objects /\ obj.of = e /\ reg \in Registries
  BY <1>1, <1>3, PathType, LeafType DEF Leaf, TypeInv, TypeOK, Registries
<1>5. \A t \in Texts : EntryPath(t) # p /\ EntryPath(t) \in Paths
  BY <1>3, PathsApart, PathType
<1>6. reg' = Registry!Register(reg, p, obj) /\ members' = members /\ held' = held
      /\ listChanged' = listChanged /\ z' = z
      /\ EntriesBecome(e, [entry[e] EXCEPT !.val = v, !.set = b])
  BY DEF SetV
<1> HIDE DEF p, obj
<1>7. /\ reg' \in Registries
      /\ \A t \in Texts : reg'[EntryPath(t)] = reg[EntryPath(t)]
      /\ Holders(reg') \subseteq Holders(reg) \cup {e}
  BY <1>4, <1>5, <1>6, RegisterEffect
<1>8. members \in [Keys -> Ids \cup {None}] /\ held \subseteq Referenced
      /\ \A j \in Keys : members[j] \in Referenced \cup {None}
  BY DEF TypeInv, TypeOK, Referenced
<1> DEFINE x == [entry[e] EXCEPT !.val = v, !.set = b]
<1>9. x \in Records
  BY <1>2 DEF Records
<1> HIDE DEF x
<1>10. /\ DOMAIN entry' = Referenced'
       /\ entry' = [i \in DOMAIN entry' |-> entry'[i]]
       /\ \A i \in DOMAIN entry' : entry'[i] = IF i = e THEN x ELSE entry[i]
  BY <1>6 DEF EntriesBecome, x
<1>11. Referenced' \subseteq Referenced
  <2>1. Referenced' = ({members'[j] : j \in Keys} \ {None}) \cup held' \cup (Holders(reg') \ {Holder})
    BY DEF Referenced, Registered, Holders
  <2>2. Holders(reg) \ {Holder} \subseteq Referenced
    BY DEF Referenced, Registered, Holders
  <2> QED BY <1>1, <1>6, <1>7, <1>8, <2>1, <2>2
<1>12. \A i \in DOMAIN entry' : entry'[i] \in Records \/ (i \in Referenced /\ entry'[i] = entry[i])
  BY <1>9, <1>10, <1>11
<1>13. /\ members' \in [Keys -> Ids \cup {None}]
       /\ \A j \in Keys : members'[j] \in Referenced \cup {e} \cup {None}
       /\ held' \subseteq Referenced \cup {e}
       /\ Holders(reg') \subseteq Holders(reg) \cup {e} \cup {Holder}
  BY <1>6, <1>7, <1>8
<1>14. /\ DOMAIN entry' \subseteq Ids
       /\ entry' \in [DOMAIN entry' -> Records]
       /\ held' \subseteq DOMAIN entry'
       /\ Referenced' \subseteq DOMAIN entry'
  BY <1>1, <1>7, <1>10, <1>12, <1>13, EntriesStep
<1>15. TypeInv'
  BY <1>6, <1>7, <1>13, <1>14 DEF TypeInv, TypeOK, Registries, Records
<1> QED BY <1>6, <1>7, <1>15

-----------------------------------------------------------------------------
(* The invariants                                                          *)

\* What keeps EntriesResolve: only keys the leaf accepts are in the list.
Resolving ==
  /\ TypeInv
  /\ \A k \in Keys : members[k] # None => Native[k] # Invalid
  /\ EntriesResolve

\* Every key has a text of its own.  Without it, two keys share a path.
OneTextPerKey == \A j, k \in Keys : Text[j] = Text[k] => j = k

LEMMA InitOK == Init => Resolving
<1> SUFFICES ASSUME Init PROVE Resolving
  OBVIOUS
<1>1. UnsetZLeaf \in Objects /\ UnsetZLeaf.of = Holder
      /\ UnsetZLeaf \in [is : {"leaf"}, of : {Holder}, val : Values \cup {Null}, set : BOOLEAN]
  BY LeafType DEF UnsetZLeaf, Leaf
<1>2. reg \in Registries /\ members \in [Keys -> Ids \cup {None}]
      /\ \A k \in Keys : members[k] = None
  BY <1>1 DEF Init, Registries, Nothing
<1>3. Referenced = {}
  <2>1. \A p \in Paths : reg[p] # None => reg[p].of = Holder
    BY <1>1 DEF Init
  <2> QED BY <1>2, <2>1 DEF Init, Referenced, Registered
<1>4. DOMAIN entry = {} /\ entry \in [DOMAIN entry -> Records]
  BY DEF Init
<1>5. TypeInv
  BY <1>1, <1>2, <1>3, <1>4 DEF Init, TypeInv, TypeOK, Registries, Records
<1> QED BY <1>2, <1>5 DEF Resolving, EntriesResolve

\* What a step does to the members and to the paths of the entries.  A step
\* builds an entry, or loses members and keeps the paths of the others.
Building(k) ==
  \E e \in Ids :
    /\ reg'[EntryPath(Text[k])] = Entry(e)
    /\ \A t \in Texts : t # Text[k] => reg'[EntryPath(t)] = reg[EntryPath(t)]
    /\ \/ members' = members /\ Native[k] = Invalid
       \/ members' = [members EXCEPT ![k] = e] /\ Native[k] # Invalid
Keeping ==
  \A k \in Keys :
    \/ members'[k] = None
    \/ members'[k] = members[k] /\ reg'[EntryPath(Text[k])] = reg[EntryPath(Text[k])]

\* An entry the program passes is built; the empty key only marks the list.
LEMMA SetEntryEffect ==
  ASSUME TypeInv, NEW k \in Keys, NEW src \in Sources, SetEntry(k, src)
  PROVE  TypeInv' /\ (Building(k) \/ Keeping)
<1>1. /\ listChanged' \in BOOLEAN
      /\ z' = z \/ \E v \in Values \cup {Null}, b \in BOOLEAN : z' = Leaf(Holder, v, b)
      /\ z' \in [is : {"leaf"}, of : {Holder}, val : Values \cup {Null}, set : BOOLEAN]
  BY DEF SetEntry, Mark, UnsetZLeaf, Leaf, TypeInv, TypeOK
<1>2. src \in AnySources
  BY SourceType
<1>3. CASE k = ""
  <2>1. reg' = Marked(reg) /\ EntriesKept /\ members' = members /\ held' = held
    BY <1>3 DEF SetEntry
  <2>2. members' \in [Keys -> Ids \cup {None}] /\ held' \subseteq Referenced
    BY <2>1 DEF TypeInv, TypeOK, Referenced
  <2>3. TypeInv'
    BY <1>1, <2>1, <2>2, MarkedEffect, KeptStep
  <2>4. Keeping
    BY <2>1, MarkedEffect DEF Keeping, Texts
  <2> QED BY <2>3, <2>4
<1>4. CASE k # ""
  <2>1. Build(k, src, Marked(reg))
    BY <1>4 DEF SetEntry
  <2>2. /\ TypeInv'
        /\ \E e \in Ids :
              /\ e \notin DOMAIN entry
              /\ reg'[EntryPath(Text[k])] = Entry(e)
              /\ \A t \in Texts : t # Text[k] => reg'[EntryPath(t)] = Marked(reg)[EntryPath(t)]
              /\ \/ members' = members /\ Native[k] = Invalid
                 \/ members' = [members EXCEPT ![k] = e] /\ Native[k] # Invalid
    BY <1>1, <1>2, <2>1, MarkedEffect, BuildEffect
  <2> QED BY <2>2, MarkedEffect DEF Building
<1> QED BY <1>3, <1>4

LEMMA NextEffect ==
  ASSUME TypeInv, Next
  PROVE  TypeInv' /\ (OneTextPerKey => Keeping \/ \E k \in Keys : Building(k))
<1> DEFINE Goal == TypeInv' /\ (OneTextPerKey => Keeping \/ \E k \in Keys : Building(k))
<1>a. /\ members \in [Keys -> Ids \cup {None}]
      /\ held \subseteq Referenced
      /\ listChanged \in BOOLEAN
      /\ z \in [is : {"leaf"}, of : {Holder}, val : Values \cup {Null}, set : BOOLEAN]
      /\ reg \in Registries
      /\ \A k \in Keys : Text[k] \in Texts
  BY DEF TypeInv, TypeOK, Referenced, Registries, Texts
<1>1. ASSUME NEW k \in Keys, Add(k) PROVE Goal
  <2>1. Build(k, NoSource, reg) /\ listChanged' = listChanged /\ z' = z
    BY <1>1 DEF Add
  <2>2. /\ TypeInv'
        /\ \E e \in Ids :
              /\ e \notin DOMAIN entry
              /\ reg'[EntryPath(Text[k])] = Entry(e)
              /\ \A t \in Texts : t # Text[k] => reg'[EntryPath(t)] = reg[EntryPath(t)]
              /\ \/ members' = members /\ Native[k] = Invalid
                 \/ members' = [members EXCEPT ![k] = e] /\ Native[k] # Invalid
    BY <1>a, <2>1, SourceType, BuildEffect
  <2> QED BY <2>2 DEF Building
<1>2. ASSUME NEW k \in Keys, Delete(k) PROVE Goal
  <2>1. /\ members' = [members EXCEPT ![k] = None]
        /\ reg' = Registry!Unregister(reg, EntryPath(Text[k]))
        /\ listChanged' = listChanged /\ z' = z /\ held' = held
        /\ EntriesKept
    BY <1>2 DEF Delete
  <2>2. TypeInv'
    BY <1>a, <2>1, UnregisterEffect, KeptStep
  <2>3. ASSUME OneTextPerKey, NEW j \in Keys, j # k
        PROVE  members'[j] = members[j] /\ reg'[EntryPath(Text[j])] = reg[EntryPath(Text[j])]
    <3>1. Text[j] # Text[k]
      BY <2>3 DEF OneTextPerKey
    <3> QED BY <1>a, <2>1, <2>3, <3>1, UnregisterEffect
  <2>4. members'[k] = None
    BY <1>a, <2>1
  <2> QED BY <2>2, <2>3, <2>4 DEF Keeping
<1>3. ASSUME NEW k \in Keys, DelItem(k) PROVE Goal
  <2>1. /\ members' = [members EXCEPT ![k] = None]
        /\ reg' = reg /\ listChanged' = listChanged /\ z' = z /\ held' = held
        /\ EntriesKept
    BY <1>3 DEF DelItem
  <2>2. TypeInv'
    BY <1>a, <2>1, KeptStep
  <2> QED BY <1>a, <2>1, <2>2 DEF Keeping
<1>4. ASSUME NEW src \in Sources, AppendItem(src) PROVE Goal
  BY <1>4, SetEntryEffect DEF AppendItem
<1>5. ASSUME NEW src \in Sources, NEW k \in Keys, SetItem(k, src) PROVE Goal
  BY <1>5, SetEntryEffect DEF SetItem
<1>6. ASSUME SetList PROVE Goal
  <2>1. /\ members' = Nothing /\ held' = held /\ reg' = Marked(reg) /\ EntriesKept
        /\ listChanged' \in BOOLEAN
        /\ z' = z \/ \E v \in Values \cup {Null}, b \in BOOLEAN : z' = Leaf(Holder, v, b)
    BY <1>6 DEF SetList, Mark, UnsetZLeaf
  <2>2. TypeInv'
    BY <1>a, <2>1, MarkedEffect, KeptStep DEF Nothing
  <2> QED BY <2>1, <2>2 DEF Keeping, Nothing
<1>7. ASSUME UnsetList PROVE Goal
  <2>1. /\ members' = Nothing /\ held' = held /\ reg' = reg /\ EntriesKept
        /\ listChanged' \in BOOLEAN /\ z' = z
    BY <1>7 DEF UnsetList
  <2>2. TypeInv'
    BY <1>a, <2>1, KeptStep DEF Nothing
  <2> QED BY <2>1, <2>2 DEF Keeping, Nothing
<1>8. ASSUME NEW v \in Values, SetZ(v) PROVE Goal
  <2>1. /\ members' \in {members, Nothing} /\ held' = held /\ EntriesKept
        /\ listChanged' \in BOOLEAN
        /\ z' = Leaf(Holder, v, TRUE)
        /\ reg' = Registry!Register(reg, ZPath, z')
    BY <1>8 DEF SetZ
  <2>2. z' \in Objects /\ z'.of = Holder /\ ZPath \in Paths
        /\ \A t \in Texts : EntryPath(t) # ZPath /\ EntryPath(t) \in Paths
    BY <2>1, LeafType, PathType, PathsApart DEF Leaf, Paths
  <2>3. /\ reg' \in Registries /\ Holders(reg') \subseteq Holders(reg) \cup {Holder}
        /\ \A t \in Texts : reg'[EntryPath(t)] = reg[EntryPath(t)]
    <3> DEFINE p == ZPath
               obj == z'
    <3>1. reg' = Registry!Register(reg, p, obj) /\ p \in Paths /\ obj \in Objects /\ obj.of = Holder
      BY <2>1, <2>2
    <3>2. \A q \in Texts : EntryPath(q) # p /\ EntryPath(q) \in Paths
      BY <2>2
    <3> HIDE DEF p, obj
    <3> QED BY <1>a, <3>1, <3>2, RegisterEffect
  <2>4. /\ members' \in [Keys -> Ids \cup {None}]
        /\ \A k \in Keys : members'[k] \in {members[k], None}
    BY <1>a, <2>1 DEF Nothing
  <2>5. TypeInv'
    BY <1>a, <2>1, <2>3, <2>4, KeptStep
  <2> QED BY <1>a, <2>3, <2>4, <2>5 DEF Keeping
<1>9. ASSUME NEW e \in Reached, NEW v \in Values \cup {Null}, NEW b \in BOOLEAN, SetV(e, v, b)
      PROVE  Goal
  BY <1>a, <1>9, SetVEffect DEF Keeping
<1>10. ASSUME NEW e \in {members[k] : k \in Keys} \ {None}, Keep(e) PROVE Goal
  <2>1. members' = members /\ reg' = reg /\ listChanged' = listChanged /\ z' = z
        /\ held' = held \cup {e} /\ EntriesKept /\ e \in Referenced
    BY <1>10 DEF Keep, Referenced
  <2>2. TypeInv'
    BY <1>a, <2>1, KeptStep
  <2> QED BY <2>1, <2>2 DEF Keeping
<1>11. ASSUME NEW e \in held, Drop(e) PROVE Goal
  <2>1. members' = members /\ reg' = reg /\ listChanged' = listChanged /\ z' = z
        /\ held' = held \ {e} /\ EntriesKept
    BY <1>11 DEF Drop
  <2>2. TypeInv'
    BY <1>a, <2>1, KeptStep
  <2> QED BY <2>1, <2>2 DEF Keeping
<1> HIDE DEF Goal
<1>12. Goal
  BY <1>1, <1>2, <1>3, <1>4, <1>5, <1>6, <1>7, <1>8, <1>9, <1>10, <1>11 DEF Next
<1> QED BY <1>12 DEF Goal

\* What `Keeping` and `Building` leave of the invariant.
LEMMA NextKeepsResolving ==
  ASSUME OneTextPerKey, Resolving, Next
  PROVE  Resolving'
<1>1. TypeInv' /\ (Keeping \/ \E k \in Keys : Building(k))
  BY NextEffect DEF Resolving
<1>2. members \in [Keys -> Ids \cup {None}] /\ \A k \in Keys : Text[k] \in Texts
  BY DEF Resolving, TypeInv, TypeOK, Texts
<1>3. CASE Keeping
  BY <1>1, <1>3 DEF Keeping, Resolving, EntriesResolve
<1>4. ASSUME NEW k \in Keys, Building(k) PROVE Resolving'
  <2>1. PICK e \in Ids :
          /\ reg'[EntryPath(Text[k])] = Entry(e)
          /\ \A t \in Texts : t # Text[k] => reg'[EntryPath(t)] = reg[EntryPath(t)]
          /\ \/ members' = members /\ Native[k] = Invalid
             \/ members' = [members EXCEPT ![k] = e] /\ Native[k] # Invalid
    BY <1>4 DEF Building
  <2>2. ASSUME NEW j \in Keys, members'[j] # None
        PROVE  Native[j] # Invalid /\ reg'[EntryPath(Text[j])] = Entry(members'[j])
    <3>1. CASE j = k
      BY <1>2, <2>1, <2>2, <3>1 DEF Resolving
    <3>2. CASE j # k
      <4>1. Text[j] # Text[k] /\ Text[j] \in Texts
        BY <1>2, <3>2 DEF OneTextPerKey
      <4>2. members'[j] = members[j] /\ reg'[EntryPath(Text[j])] = reg[EntryPath(Text[j])]
        BY <1>2, <2>1, <3>2, <4>1
      <4> QED BY <2>2, <4>2 DEF Resolving, EntriesResolve
    <3> QED BY <3>1, <3>2
  <2> QED BY <1>1, <2>2 DEF Resolving, EntriesResolve
<1> QED BY <1>1, <1>3, <1>4

LEMMA StutterKeepsResolving ==
  /\ TypeInv /\ UNCHANGED vars => TypeInv'
  /\ Resolving /\ UNCHANGED vars => Resolving'
<1>1. TypeInv /\ UNCHANGED vars => TypeInv'
  BY DEF vars, TypeInv, TypeOK, Referenced, Registered
<1> QED BY <1>1 DEF vars, Resolving, EntriesResolve

\* Every variable keeps its type: a step refers only to entries that exist or
\* that it makes, so no handle and no registered object dangles.
THEOREM TypeCorrect == Spec => []TypeOK
<1>1. Init => TypeInv
  BY InitOK DEF Resolving
<1>2. TypeInv /\ [Next]_vars => TypeInv'
  BY NextEffect, StutterKeepsResolving
<1>3. TypeInv => TypeOK
  BY DEF TypeInv
<1> QED BY <1>1, <1>2, <1>3, PTL DEF Spec

\* The path of an entry in the list always resolves to it, whichever of the
\* list's methods were called in whichever order, if no two keys have the
\* same text.
THEOREM EntriesFound ==
  ASSUME OneTextPerKey
  PROVE  Spec => []EntriesResolve
<1>1. Init => Resolving
  BY InitOK
<1>2. Resolving /\ [Next]_vars => Resolving'
  BY NextKeepsResolving, StutterKeepsResolving
<1>3. Resolving => EntriesResolve
  BY DEF Resolving
<1> QED BY <1>1, <1>2, <1>3, PTL DEF Spec

-----------------------------------------------------------------------------
(* The programs                                                            *)

allVars == <<vars, program>>

\* What a program calls are methods of the list.
LEMMA ProgramsCall == ProgramNext => Next
<1>1. TreeCalls => Next
  BY KeyAssumption DEF TreeCalls, Next
<1>2. MarkingCalls => Next
  BY DEF MarkingCalls, Next
<1> QED BY <1>1, <1>2 DEF ProgramNext

LEMMA ProgramsKeepResolving ==
  /\ ProgramInit => Resolving
  /\ TypeInv /\ [ProgramNext]_allVars => TypeInv'
  /\ OneTextPerKey => (Resolving /\ [ProgramNext]_allVars => Resolving')
<1>1. [ProgramNext]_allVars => [Next]_vars
  BY ProgramsCall DEF allVars
<1> QED BY <1>1, InitOK, NextEffect, NextKeepsResolving, StutterKeepsResolving DEF ProgramInit

-----------------------------------------------------------------------------
(* The program that marks the list                                         *)

\* A marking call unsets z, or leaves z alone and brings no entry in.
LEMMA MarkingKeepsExclusive ==
  ASSUME TypeInv, CasesExclusive, MarkingCalls
  PROVE  CasesExclusive'
<1> SUFFICES ASSUME InChoice PROVE ~(z'.set /\ members' # Nothing)
  BY DEF CasesExclusive, Nothing
<1>a. members \in [Keys -> Ids \cup {None}] /\ UnsetZLeaf.set = FALSE
      /\ ~(z.set /\ members # Nothing)
  BY DEF TypeInv, TypeOK, UnsetZLeaf, Leaf, CasesExclusive
<1>1. ASSUME NEW k \in Keys, Delete(k) \/ DelItem(k) PROVE ~(z'.set /\ members' # Nothing)
  <2>1. members # Nothing /\ z' = z
    BY <1>1 DEF Delete, DelItem, Nothing
  <2> QED BY <1>a, <2>1
<1>2. ASSUME NEW src \in Sources, NEW k \in Keys, SetEntry(k, src)
      PROVE  ~(z'.set /\ members' # Nothing)
  BY <1>a, <1>2 DEF SetEntry, Mark
<1>3. CASE UnsetList
  BY <1>3 DEF UnsetList
<1>4. ASSUME NEW v \in Values, SetZ(v) PROVE ~(z'.set /\ members' # Nothing)
  BY <1>4 DEF SetZ
<1>5. CASE members' = members /\ z' = z
  BY <1>a, <1>5
<1> QED
  BY <1>1, <1>2, <1>3, <1>4, <1>5
  DEF MarkingCalls, AppendItem, SetItem, SetV, Keep, Drop

\* One member changes, or the list is unset as a whole.
LEMMA MarkingKeepsEntries ==
  ASSUME TypeInv, MarkingCalls, NEW k \in Keys, members[k] # None, members'[k] = None
  PROVE  members' = [members EXCEPT ![k] = None] \/ ~listChanged'
<1> DEFINE Goal == members' = [members EXCEPT ![k] = None] \/ ~listChanged'
<1>a. members \in [Keys -> Ids \cup {None}]
  BY DEF TypeInv, TypeOK
<1>1. ASSUME NEW j \in Keys, Delete(j) \/ DelItem(j) PROVE Goal
  <2>1. members' = [members EXCEPT ![j] = None]
    BY <1>1 DEF Delete, DelItem
  <2> QED BY <1>a, <2>1
<1>2. ASSUME NEW src \in Sources, NEW j \in Keys, SetEntry(j, src) PROVE Goal
  <2>1. members' = members \/ \E e \in Ids : members' = [members EXCEPT ![j] = e]
    BY <1>2 DEF SetEntry, Build
  <2> QED BY <1>a, <2>1, BoundAssumption
<1>3. CASE UnsetList
  BY <1>3 DEF UnsetList
<1>4. ASSUME NEW v \in Values, SetZ(v) PROVE Goal
  BY <1>4, BoundAssumption DEF SetZ
<1>5. CASE members' = members
  BY <1>5
<1> QED
  BY <1>1, <1>2, <1>3, <1>4, <1>5
  DEF MarkingCalls, AppendItem, SetItem, SetV, Keep, Drop

\* z and the entries of the list, two cases of a choice, are never there
\* together as long as the list is filled with calls that mark it, whatever is
\* removed, kept and written in between, for all lists and keys.
THEOREM CasesApart == ProgramSpec => []MarkedCasesExclusive
<1> DEFINE Inv == TypeInv /\ MarkedCasesExclusive
<1>1. ProgramInit => Inv
  BY InitOK DEF ProgramInit, Init, MarkedCasesExclusive, CasesExclusive, Resolving
<1>2. Inv /\ [ProgramNext]_<<vars, program>> => Inv'
  <2> SUFFICES ASSUME Inv, [ProgramNext]_<<vars, program>>, program' = "marking"
               PROVE  CasesExclusive'
    BY ProgramsKeepResolving DEF allVars, MarkedCasesExclusive
  <2>1. CASE ProgramNext
    BY <2>1, MarkingKeepsExclusive DEF ProgramNext, MarkedCasesExclusive
  <2>2. CASE UNCHANGED <<vars, program>>
    BY <2>2 DEF vars, MarkedCasesExclusive, CasesExclusive, Nothing
  <2> QED BY <2>1, <2>2
<1>3. Inv => MarkedCasesExclusive
  OBVIOUS
<1> QED BY <1>1, <1>2, <1>3, PTL DEF ProgramSpec

\* With these calls an entry leaves the list alone or with the whole list being
\* unset: no assignment of another entry, whether it succeeds or raises, and no
\* write to an entry loses it.
THEOREM EntriesKeptByWrites == ProgramSpec => MarkedWritesKeepEntries
<1> DEFINE Step ==
      program = "marking" =>
        \A k \in Keys :
          members[k] # None /\ members'[k] = None =>
            members' = [members EXCEPT ![k] = None] \/ ~listChanged'
<1>1. ProgramInit => TypeInv
  BY ProgramsKeepResolving DEF Resolving
<1>2. TypeInv /\ [ProgramNext]_<<vars, program>> => TypeInv'
  BY ProgramsKeepResolving DEF allVars
<1>3. TypeInv /\ [ProgramNext]_<<vars, program>> => [Step]_<<vars, program>>
  <2> SUFFICES ASSUME TypeInv, ProgramNext, program = "marking",
                      NEW k \in Keys, members[k] # None, members'[k] = None
               PROVE  members' = [members EXCEPT ![k] = None] \/ ~listChanged'
    OBVIOUS
  <2> QED BY MarkingKeepsEntries DEF ProgramNext
<1> QED BY <1>1, <1>2, <1>3, PTL DEF ProgramSpec, MarkedWritesKeepEntries

-----------------------------------------------------------------------------
(* The program that keeps tree and registry together                       *)

\* What is registered of an entry: itself, its key leaf and its leaf v.
PathsOf(t) == {EntryPath(t), KeyPath(t), ValPath(t)}

LEMMA PathsOfApart ==
  ASSUME NEW t \in Texts, NEW u \in Texts
  PROVE  /\ PathsOf(t) \subseteq Paths
         /\ t # u => PathsOf(t) \cap PathsOf(u) = {}
         /\ ZPath \notin PathsOf(t)
         /\ KeyPath(t) # ValPath(t)
<1>1. KeyPath(t) # ValPath(u)
  <2>1. KeyPath(t)[2] = "key" /\ ValPath(u)[2] = "val"
    BY DEF KeyPath, ValPath
  <2> QED BY <2>1
<1>2. (KeyPath(t) = KeyPath(u) \/ ValPath(t) = ValPath(u)) => t = u
  <2>1. KeyPath(t)[1] = t /\ KeyPath(u)[1] = u /\ ValPath(t)[1] = t /\ ValPath(u)[1] = u
    BY DEF KeyPath, ValPath
  <2> QED BY <2>1
<1>3. KeyPath(t) # ZPath /\ ValPath(t) # ZPath
  <2>1. Len(ZPath) = 1 /\ Len(KeyPath(t)) = 2 /\ Len(ValPath(t)) = 2
    BY DEF ZPath, KeyPath, ValPath
  <2> QED BY <2>1
<1>4. KeyPath(u) # ValPath(t) /\ KeyPath(t) # ValPath(t)
  <2>1. KeyPath(u)[2] = "key" /\ KeyPath(t)[2] = "key" /\ ValPath(t)[2] = "val"
    BY DEF KeyPath, ValPath
  <2> QED BY <2>1
<1> QED BY <1>1, <1>2, <1>3, <1>4, PathsApart, PathType DEF PathsOf

\* The registry may have the leaf of an entry that is gone for an equal one;
\* what it says of `_changed()` is then true if no value is the unset one.
Telling(val, set) == Null \notin Values => set = (val # Null)
HasLeaf(r, p, val) == r[p] # None /\ r[p].is = "leaf" /\ r[p].val = val
MayHoldLeaf(r, p) == r[p] # None => r[p].is = "leaf"

LEMMA LeafRegistered ==
  ASSUME NEW r \in Registries, NEW p \in Paths, MayHoldLeaf(r, p),
         NEW e \in Ids \cup {Holder}, NEW v \in Values \cup Natives \cup {Null, NullKey},
         NEW b \in BOOLEAN
  PROVE  LET s == Registry!Register(r, p, Leaf(e, v, b)) IN
         /\ s \in Registries
         /\ \A q \in Paths : q # p => s[q] = r[q]
         /\ HasLeaf(s, p, v)
         /\ /\ r[p] # None => Telling(r[p].val, r[p].set)
            /\ Telling(v, b)
            => Telling(v, s[p].set)
<1> DEFINE obj == Leaf(e, v, b)
           s == Registry!Register(r, p, obj)
<1>1. obj \in Objects /\ obj.is = "leaf" /\ obj.val = v /\ obj.set = b
  BY LeafType DEF Leaf
<1>2. /\ s \in Registries
      /\ \A q \in Paths : q # p => s[q] = r[q]
  BY <1>1, RegisterEffect
<1>3. \/ r[p] # None /\ r[p].val = v /\ s[p] = r[p]
      \/ s[p] = obj
  BY <1>1 DEF Registry!Register, Registries, SameObject, MayHoldLeaf
<1>4. obj # None
  BY <1>1, PathAssumption
<1> HIDE DEF obj, s
<1>5. HasLeaf(s, p, v)
  BY <1>1, <1>3, <1>4 DEF HasLeaf, MayHoldLeaf
<1>6. (r[p] # None => Telling(r[p].val, r[p].set)) /\ Telling(v, b) => Telling(v, s[p].set)
  BY <1>1, <1>3
<1> QED BY <1>2, <1>5, <1>6 DEF s, obj

\* The entry under k is registered as it is in the tree.
Shown(r, k, e, key, val) ==
  /\ r[EntryPath(Text[k])] = Entry(e)
  /\ HasLeaf(r, KeyPath(Text[k]), key)
  /\ HasLeaf(r, ValPath(Text[k]), val)
  /\ Telling(val, r[ValPath(Text[k])].set)

\* Room for an entry under k: nothing, or what an entry before has left.
RoomFor(r, k) ==
  /\ MayHoldLeaf(r, KeyPath(Text[k]))
  /\ MayHoldLeaf(r, ValPath(Text[k]))
  /\ r[ValPath(Text[k])] # None =>
       Telling(r[ValPath(Text[k])].val, r[ValPath(Text[k])].set)

LEMMA SourceContent ==
  ASSUME NEW src \in Sources
  PROVE  /\ src.key \in Natives \cup {NullKey} /\ src.val \in Values \cup {Null}
         /\ src.keySet \in BOOLEAN /\ src.set \in BOOLEAN
         /\ ~src.set => src.val = Null
         /\ Telling(src.val, src.set)
<1>1. CASE src = NoSource
  BY <1>1 DEF NoSource, Telling
<1>2. CASE src \in [key : Natives, keySet : {TRUE}, val : Values, set : {TRUE}]
  BY <1>2 DEF Telling
<1> QED BY <1>1, <1>2 DEF Sources

\* Announcing an entry and setting its key shows it, and only it.
LEMMA AnnouncedShows ==
  ASSUME NEW r \in Registries, NEW e \in Ids, NEW k \in Keys, RoomFor(r, k),
         NEW src \in Sources, NEW key \in Natives
  PROVE  LET s == Registry!Register(Announced(r, e, k, src), KeyPath(Text[k]), Leaf(e, key, TRUE))
         IN /\ s \in Registries
            /\ Shown(s, k, e, key, src.val)
            /\ \A p \in Paths \ PathsOf(Text[k]) : s[p] = r[p]
<1> DEFINE t0 == Text[k]
           r1 == Registry!Register(r, EntryPath(t0), Entry(e))
           r2 == Registry!Register(r1, KeyPath(t0), Leaf(e, NullKey, FALSE))
           r3 == Registry!Register(r2, ValPath(t0), Leaf(e, Null, FALSE))
           r4 == IF src.keySet
                 THEN Registry!Register(r3, KeyPath(t0), Leaf(e, src.key, TRUE)) ELSE r3
           r5 == IF src.set
                 THEN Registry!Register(r4, ValPath(t0), Leaf(e, src.val, TRUE)) ELSE r4
           r6 == Registry!Register(r5, KeyPath(t0), Leaf(e, key, TRUE))
           \* between the registrations
           Midway(s) == /\ s \in Registries
                        /\ s[EntryPath(t0)] = Entry(e)
                        /\ RoomFor(s, k)
                        /\ \A p \in Paths \ PathsOf(t0) : s[p] = r[p]
           Valued(s, v) == HasLeaf(s, ValPath(t0), v) /\ Telling(v, s[ValPath(t0)].set)
<1>1. t0 \in Texts
  BY DEF Texts
<1>a. /\ EntryPath(t0) \in Paths /\ KeyPath(t0) \in Paths /\ ValPath(t0) \in Paths
      /\ EntryPath(t0) # KeyPath(t0) /\ EntryPath(t0) # ValPath(t0) /\ KeyPath(t0) # ValPath(t0)
  BY <1>1, PathsApart, PathType, PathsOfApart
<1>b. /\ src.key \in Natives \cup {NullKey} /\ src.val \in Values \cup {Null}
      /\ src.keySet \in BOOLEAN /\ src.set \in BOOLEAN
      /\ ~src.set => src.val = Null
      /\ Telling(src.val, src.set)
  BY SourceContent
<1> HIDE DEF t0
<1>2. Midway(r1)
  <2>1. Entry(e).is = "entry" /\ Entry(e) \in Objects
    BY EntryType DEF Entry
  <2>2. /\ r1 \in Registries /\ r1[EntryPath(t0)] = Entry(e)
        /\ \A q \in Paths : q # EntryPath(t0) => r1[q] = r[q]
    BY <1>a, <2>1, RegisterEffect
  <2> HIDE DEF r1
  <2>3. RoomFor(r1, k)
    BY <1>a, <2>2 DEF RoomFor, MayHoldLeaf, t0
  <2> QED BY <2>2, <2>3 DEF PathsOf
<1>3. ASSUME NEW s, Midway(s), NEW v \in Natives \cup {NullKey}, NEW b \in BOOLEAN
      PROVE  LET u == Registry!Register(s, KeyPath(t0), Leaf(e, v, b)) IN
             /\ Midway(u) /\ HasLeaf(u, KeyPath(t0), v)
             /\ \A w : Valued(s, w) => Valued(u, w)
  <2> DEFINE p == KeyPath(t0)
             u == Registry!Register(s, p, Leaf(e, v, b))
  <2>1. MayHoldLeaf(s, p)
    BY <1>3 DEF RoomFor, t0
  <2>2. /\ u \in Registries
        /\ \A q \in Paths : q # p => u[q] = s[q]
        /\ HasLeaf(u, p, v)
    <3>1. p \in Paths /\ s \in Registries
      BY <1>3, <1>a
    <3> HIDE DEF p
    <3> QED BY <2>1, <3>1, LeafRegistered
  <2> HIDE DEF u
  <2>3. RoomFor(u, k)
    BY <1>3, <1>a, <2>2 DEF RoomFor, MayHoldLeaf, HasLeaf, t0
  <2>4. Midway(u)
    BY <1>3, <1>a, <2>2, <2>3 DEF PathsOf
  <2>5. \A w : Valued(s, w) => Valued(u, w)
    BY <1>a, <2>2 DEF HasLeaf
  <2> QED BY <2>2, <2>4, <2>5 DEF u
<1>4. ASSUME NEW s, Midway(s), NEW v \in Values \cup {Null}, NEW b \in BOOLEAN, Telling(v, b)
      PROVE  LET u == Registry!Register(s, ValPath(t0), Leaf(e, v, b)) IN
             Midway(u) /\ Valued(u, v)
  <2> DEFINE p == ValPath(t0)
             u == Registry!Register(s, p, Leaf(e, v, b))
  <2>1. MayHoldLeaf(s, p) /\ (s[p] # None => Telling(s[p].val, s[p].set))
    BY <1>4 DEF RoomFor, t0
  <2>2. /\ u \in Registries
        /\ \A q \in Paths : q # p => u[q] = s[q]
        /\ HasLeaf(u, p, v)
        /\ Telling(v, u[p].set)
    <3>1. p \in Paths /\ s \in Registries
      BY <1>4, <1>a
    <3> HIDE DEF p
    <3> QED BY <1>4, <2>1, <3>1, LeafRegistered
  <2> HIDE DEF u
  <2>3. RoomFor(u, k)
    BY <1>4, <1>a, <2>2 DEF RoomFor, MayHoldLeaf, HasLeaf, t0
  <2>4. Midway(u)
    BY <1>4, <1>a, <2>2, <2>3 DEF PathsOf
  <2> QED BY <2>2, <2>4 DEF u
<1> HIDE DEF Midway, Valued, r1
<1>5. Midway(r2)
  BY <1>2, <1>3
<1> HIDE DEF r2
<1>6. Midway(r3) /\ Valued(r3, Null)
  BY <1>4, <1>5 DEF Telling
<1> HIDE DEF r3
<1>7. Midway(r4) /\ Valued(r4, Null)
  BY <1>3, <1>6, <1>b
<1> HIDE DEF r4
<1>8. Midway(r5) /\ Valued(r5, src.val)
  <2>1. CASE src.set
    BY <1>4, <1>7, <1>b, <2>1
  <2>2. CASE ~src.set
    BY <1>7, <1>b, <2>2
  <2> QED BY <2>1, <2>2
<1> HIDE DEF r5
<1>9. Midway(r6) /\ Valued(r6, src.val) /\ HasLeaf(r6, KeyPath(t0), key)
  BY <1>3, <1>8
<1>10. r6 = Registry!Register(Announced(r, e, k, src), KeyPath(Text[k]), Leaf(e, key, TRUE))
  BY DEF Announced, r1, r2, r3, r4, r5, t0
<1> HIDE DEF r6
<1>11. Shown(r6, k, e, key, src.val)
  BY <1>9 DEF Midway, Valued, Shown, t0
<1> QED BY <1>9, <1>10, <1>11 DEF Midway, t0

\* What is registered under k is the entry in the list, or nothing.
Consistent(k) ==
  IF members[k] = None THEN \A p \in PathsOf(Text[k]) : reg[p] = None
  ELSE /\ Native[k] # Invalid
       /\ entry[members[k]].text = Text[k]
       /\ entry[members[k]].key = Native[k]
       /\ Telling(entry[members[k]].val, entry[members[k]].set)
       /\ Shown(reg, k, members[k], Native[k], entry[members[k]].val)

TreeInv == held = {} /\ \A k \in Keys : Consistent(k)

\* The other keys have the entries they had, in the list and in the registry.
OthersKept(k) ==
  \A j \in Keys \ {k} :
    /\ members'[j] = members[j]
    /\ members[j] # None => entry'[members[j]] = entry[members[j]]
    /\ \A p \in PathsOf(Text[j]) : reg'[p] = reg[p]

LEMMA TreeBuild ==
  ASSUME OneTextPerKey, TypeInv, TreeInv, NEW k \in Keys, Native[k] # Invalid,
         NEW src \in Sources, NEW r \in Registries,
         \A t \in Texts : \A p \in PathsOf(t) : r[p] = reg[p],
         Build(k, src, r)
  PROVE  OthersKept(k) /\ Consistent(k)'
<1> DEFINE e == CHOOSE i \in Ids : i \notin DOMAIN entry
           new == [text |-> Text[k], key |-> Native[k], val |-> src.val, set |-> src.set]
           s == Registry!Register(Announced(r, e, k, src), KeyPath(Text[k]), Leaf(e, Native[k], TRUE))
<1>1. e \in Ids /\ e \notin DOMAIN entry
  BY DEF Build
<1>2. reg' = s /\ members' = [members EXCEPT ![k] = e] /\ EntriesBecome(e, new)
  BY DEF Build
<1> HIDE DEF e
<1>3. Native[k] \in Natives /\ \A j \in Keys : Text[j] \in Texts
  BY KeyAssumption DEF Texts
<1>4. RoomFor(r, k)
  <2>1. RoomFor(reg, k)
    BY DEF TreeInv, Consistent, Shown, HasLeaf, RoomFor, MayHoldLeaf, PathsOf
  <2> QED BY <1>3, <2>1 DEF RoomFor, MayHoldLeaf, PathsOf
<1>5. /\ Shown(s, k, e, Native[k], src.val)
      /\ \A p \in Paths \ PathsOf(Text[k]) : s[p] = r[p]
  BY <1>1, <1>3, <1>4, AnnouncedShows
<1> HIDE DEF s
<1>6. members \in [Keys -> Ids \cup {None}]
      /\ \A j \in Keys : members[j] # None => members[j] \in DOMAIN entry
  BY DEF TypeInv, TypeOK, Referenced
<1>7. \A j \in Keys : members'[j] # None => members'[j] \in Referenced'
  BY DEF Referenced
<1>8. ASSUME NEW j \in Keys \ {k}
      PROVE  /\ members'[j] = members[j]
             /\ members[j] # None => entry'[members[j]] = entry[members[j]]
             /\ \A p \in PathsOf(Text[j]) : reg'[p] = reg[p]
  <2>1. members'[j] = members[j]
    BY <1>2, <1>6
  <2>2. members[j] # None => entry'[members[j]] = entry[members[j]]
    BY <1>1, <1>2, <1>6, <1>7, <2>1 DEF EntriesBecome
  <2>3. Text[j] # Text[k]
    BY DEF OneTextPerKey
  <2>4. \A p \in PathsOf(Text[j]) : p \in Paths \ PathsOf(Text[k])
    BY <1>3, <2>3, PathsOfApart
  <2> QED BY <1>2, <1>3, <1>5, <2>1, <2>2, <2>4
<1>9. members'[k] = e /\ e # None
  BY <1>1, <1>2, <1>6, BoundAssumption
<1>10. entry'[e] = new
  BY <1>2, <1>7, <1>9 DEF EntriesBecome
<1>11. Telling(src.val, src.set)
  BY SourceContent
<1> QED BY <1>2, <1>5, <1>8, <1>9, <1>10, <1>11 DEF OthersKept, Consistent

\* What unregistering an entry does to its paths and those of the others.
LEMMA UnregisterHides ==
  ASSUME NEW r \in Registries, NEW t \in Texts
  PROVE  /\ \A p \in PathsOf(t) : Registry!Unregister(r, EntryPath(t))[p] = None
         /\ \A u \in Texts \ {t} : \A p \in PathsOf(u) :
              Registry!Unregister(r, EntryPath(t))[p] = r[p]
<1>1. \A p \in PathsOf(t) : Registry!IsPrefix(EntryPath(t), p)
  BY DEF PathsOf, EntryPath, KeyPath, ValPath, Registry!IsPrefix
<1>2. ASSUME NEW u \in Texts, u # t, NEW p \in PathsOf(u)
      PROVE  ~Registry!IsPrefix(EntryPath(t), p)
  <2>1. Len(EntryPath(t)) = 1 /\ EntryPath(t)[1] = t
    BY DEF EntryPath
  <2>2. p[1] = u /\ Len(p) \in {1, 2}
    BY <1>2 DEF PathsOf, EntryPath, KeyPath, ValPath
  <2>3. SubSeq(EntryPath(t), 1, 1)[1] = t /\ SubSeq(p, 1, 1)[1] = u
    BY <1>2 DEF PathsOf, EntryPath, KeyPath, ValPath
  <2> QED BY <1>2, <2>1, <2>3 DEF Registry!IsPrefix
<1> QED BY <1>1, <1>2, PathsOfApart DEF Registry!Unregister

LEMMA TreeSetV ==
  ASSUME OneTextPerKey, TypeInv, TreeInv,
         NEW e \in Reached, NEW v \in Values \cup {Null}, NEW b \in BOOLEAN,
         Telling(v, b), SetV(e, v, b)
  PROVE  \E k \in Keys : OthersKept(k) /\ Consistent(k)'
<1>1. PICK k \in Keys : members[k] = e /\ e # None
  BY DEF Reached, TreeInv
<1> DEFINE p == ValPath(Text[k])
           s == Registry!Register(reg, p, Leaf(e, v, b))
           x == [entry[e] EXCEPT !.val = v, !.set = b]
<1>2. /\ entry[e].text = Text[k] /\ entry[e].key = Native[k] /\ Native[k] # Invalid
      /\ Telling(entry[e].val, entry[e].set)
      /\ Shown(reg, k, e, Native[k], entry[e].val)
  BY <1>1 DEF TreeInv, Consistent
<1>3. /\ members \in [Keys -> Ids \cup {None}] /\ reg \in Registries
      /\ \A j \in Keys : members[j] # None => members[j] \in DOMAIN entry
      /\ \A j \in Keys : Text[j] \in Texts
  BY DEF TypeInv, TypeOK, Referenced, Registries, Texts
<1>4. /\ reg' = s /\ members' = members /\ EntriesBecome(e, x)
  BY <1>2 DEF SetV
<1>5. entry[e] \in Records /\ e \in Ids
  BY <1>1, <1>3 DEF TypeInv, TypeOK, Records
<1>6. /\ \A q \in Paths : q # p => s[q] = reg[q]
      /\ HasLeaf(s, p, v)
      /\ Telling(v, s[p].set)
  <2>1. p \in Paths
    BY <1>3, PathType
  <2>2. MayHoldLeaf(reg, p) /\ Telling(reg[p].val, reg[p].set)
    BY <1>2 DEF Shown, HasLeaf, MayHoldLeaf
  <2> HIDE DEF p
  <2> QED BY <1>3, <1>5, <2>1, <2>2, LeafRegistered
<1> HIDE DEF s
<1>7. \A j \in Keys : members[j] # None => members[j] \in Referenced'
  BY <1>4 DEF Referenced
<1>8. ASSUME NEW j \in Keys \ {k}
      PROVE  /\ members'[j] = members[j]
             /\ members[j] # None => entry'[members[j]] = entry[members[j]]
             /\ \A q \in PathsOf(Text[j]) : reg'[q] = reg[q]
  <2>1. Text[j] # Text[k]
    BY DEF OneTextPerKey
  <2>2. members[j] # None => members[j] # e
    BY <1>2, <2>1 DEF TreeInv, Consistent
  <2>3. \A q \in PathsOf(Text[j]) : q \in Paths /\ q # p
    BY <1>3, <2>1, PathsOfApart DEF PathsOf
  <2> QED BY <1>4, <1>6, <1>7, <2>2, <2>3 DEF EntriesBecome
<1>9. entry'[e] = x
  BY <1>1, <1>4, <1>7 DEF EntriesBecome
<1>10. x.text = Text[k] /\ x.key = Native[k] /\ x.val = v /\ x.set = b
  BY <1>2, <1>5 DEF Records
<1>11. Shown(reg', k, e, Native[k], v)
  <2>1. /\ EntryPath(Text[k]) \in Paths /\ EntryPath(Text[k]) # p
        /\ KeyPath(Text[k]) \in Paths /\ KeyPath(Text[k]) # p
    BY <1>3, PathsApart, PathType, PathsOfApart
  <2> QED BY <1>2, <1>4, <1>6, <2>1 DEF Shown, HasLeaf
<1>12. OthersKept(k)
  BY <1>8 DEF OthersKept
<1>13. Consistent(k)'
  BY <1>1, <1>2, <1>4, <1>9, <1>10, <1>11 DEF Consistent
<1> QED BY <1>12, <1>13

\* A step of the program concerns one key; what is registered under it is
\* again the entry in the list, or nothing.
LEMMA TreeStep ==
  ASSUME OneTextPerKey, TypeInv, TreeInv, TreeCalls
  PROVE  held' = {} /\ \E k \in Keys : OthersKept(k) /\ Consistent(k)'
<1>a. /\ members \in [Keys -> Ids \cup {None}] /\ reg \in Registries
      /\ \A t \in Texts : PathsOf(t) \subseteq Paths
      /\ \A j \in Keys : Text[j] \in Texts
      /\ Natives \subseteq Keys /\ \A k \in Natives : Native[k] # Invalid
  BY PathsOfApart, KeyAssumption DEF TypeInv, TypeOK, Registries, Texts
<1>1. ASSUME NEW k \in Natives, Add(k)
      PROVE  held' = {} /\ OthersKept(k) /\ Consistent(k)'
  <2>1. Build(k, NoSource, reg) /\ NoSource \in Sources
    BY <1>1 DEF Add, Sources
  <2>2. held' = {}
    BY <2>1 DEF Build, TreeInv
  <2> QED BY <1>a, <2>1, <2>2, TreeBuild
<1>2. ASSUME NEW k \in Natives, NEW src \in Sources, SetEntry(k, src)
      PROVE  held' = {} /\ OthersKept(k) /\ Consistent(k)'
  <2>1. \A t \in Texts : \A p \in PathsOf(t) : Marked(reg)[p] = reg[p]
    <3>1. UnsetZLeaf \in Objects /\ ZPath \in Paths
      BY LeafType DEF UnsetZLeaf, Paths
    <3>2. \A p \in Paths : p # ZPath => Marked(reg)[p] = reg[p]
      BY <1>a, <3>1, RegisterEffect DEF Marked
    <3> QED BY <1>a, <3>2, PathsOfApart
  <2>2. CASE k = ""
    <3>1. reg' = Marked(reg) /\ members' = members /\ held' = held /\ EntriesKept
      BY <1>2, <2>2 DEF SetEntry
    <3>2. \A j \in Keys : members[j] # None => entry'[members[j]] = entry[members[j]]
      BY <3>1 DEF EntriesKept, Referenced
    <3>3. OthersKept(k)
      BY <1>a, <2>1, <3>1, <3>2 DEF OthersKept
    <3>4. \A p \in PathsOf(Text[k]) : reg'[p] = reg[p]
      BY <1>a, <2>1, <3>1
    <3>5. Consistent(k)'
      BY <1>a, <3>1, <3>2, <3>4 DEF TreeInv, Consistent, Shown, HasLeaf, PathsOf
    <3> QED BY <3>1, <3>3, <3>5 DEF TreeInv
  <2>3. CASE k # ""
    <3>1. Build(k, src, Marked(reg))
      BY <1>2, <2>3 DEF SetEntry
    <3>2. held' = {}
      BY <3>1 DEF Build, TreeInv
    <3> QED BY <1>a, <2>1, <3>1, <3>2, MarkedEffect, TreeBuild
  <2> QED BY <2>2, <2>3
<1>3. ASSUME NEW k \in Natives, Delete(k)
      PROVE  held' = {} /\ OthersKept(k) /\ Consistent(k)'
  <2>1. /\ members' = [members EXCEPT ![k] = None]
        /\ reg' = Registry!Unregister(reg, EntryPath(Text[k]))
        /\ held' = held /\ EntriesKept
    BY <1>3 DEF Delete
  <2>2. Text[k] \in Texts /\ k \in Keys
    BY <1>a
  <2>3. ASSUME NEW j \in Keys \ {k}
        PROVE  /\ members'[j] = members[j]
               /\ members[j] # None => entry'[members[j]] = entry[members[j]]
               /\ \A p \in PathsOf(Text[j]) : reg'[p] = reg[p]
    <3>1. members'[j] = members[j]
      BY <1>a, <2>1
    <3>2. members[j] # None => members[j] \in Referenced'
      BY <3>1 DEF Referenced
    <3>3. Text[j] \in Texts \ {Text[k]}
      BY <1>a, <2>2 DEF OneTextPerKey
    <3>4. \A p \in PathsOf(Text[j]) : reg'[p] = reg[p]
      BY <1>a, <2>1, <2>2, <3>3, UnregisterHides
    <3> QED BY <2>1, <3>1, <3>2, <3>4 DEF EntriesKept
  <2>4. members'[k] = None /\ \A p \in PathsOf(Text[k]) : reg'[p] = None
    BY <1>a, <2>1, <2>2, UnregisterHides
  <2> QED BY <2>1, <2>3, <2>4 DEF OthersKept, Consistent, TreeInv
<1>4. ASSUME NEW e \in Reached, NEW v \in Values \cup {Null}, NEW b \in BOOLEAN,
             Telling(v, b), SetV(e, v, b)
      PROVE  held' = {} /\ \E k \in Keys : OthersKept(k) /\ Consistent(k)'
  BY <1>4, TreeSetV DEF SetV, TreeInv
<1>5. ASSUME NEW e \in Reached, SetV(e, Null, FALSE)
      PROVE  held' = {} /\ \E k \in Keys : OthersKept(k) /\ Consistent(k)'
  BY <1>4, <1>5 DEF Telling
<1>6. ASSUME NEW e \in Reached, NEW v \in Values, SetV(e, v, TRUE)
      PROVE  held' = {} /\ \E k \in Keys : OthersKept(k) /\ Consistent(k)'
  BY <1>4, <1>6 DEF Telling
<1> QED
  BY <1>a, <1>1, <1>2, <1>3, <1>5, <1>6 DEF TreeCalls, AppendItem, SetItem

LEMMA TreeKept ==
  ASSUME TypeInv, TreeInv, held' = {}, NEW k \in Keys, OthersKept(k), Consistent(k)'
  PROVE  TreeInv'
<1> SUFFICES ASSUME NEW j \in Keys \ {k} PROVE Consistent(j)'
  BY DEF TreeInv
<1>1. /\ members'[j] = members[j]
      /\ members[j] # None => entry'[members[j]] = entry[members[j]]
      /\ \A p \in PathsOf(Text[j]) : reg'[p] = reg[p]
  BY DEF OthersKept
<1> QED BY <1>1 DEF TreeInv, Consistent, Shown, HasLeaf, PathsOf

LEMMA TreeStutters ==
  ASSUME TreeInv, UNCHANGED <<vars, program>>
  PROVE  TreeInv' /\ UNCHANGED <<InTree, ByPath>>
BY DEF vars, TreeInv, Consistent, Shown, HasLeaf, PathsOf, InTree, ByPath

\* The inductive invariant of the program.
TreeProgramInv == TypeInv /\ (program = "tree" => TreeInv)

LEMMA TreeProgramInvariant ==
  ASSUME OneTextPerKey
  PROVE  /\ ProgramInit => TreeProgramInv
         /\ TreeProgramInv /\ [ProgramNext]_<<vars, program>> => TreeProgramInv'
<1>1. ProgramInit => TreeProgramInv
  <2> SUFFICES ASSUME ProgramInit PROVE TreeInv
    BY ProgramsKeepResolving DEF Resolving, TreeProgramInv
  <2>1. held = {} /\ \A k \in Keys : members[k] = None
    BY DEF ProgramInit, Init, Nothing
  <2>2. ASSUME NEW k \in Keys, NEW p \in PathsOf(Text[k]) PROVE reg[p] = None
    <3>1. p \in Paths /\ p # ZPath
      BY PathsOfApart DEF Texts
    <3> QED BY <3>1 DEF ProgramInit, Init
  <2> QED BY <2>1, <2>2 DEF TreeInv, Consistent
<1>2. TreeProgramInv /\ [ProgramNext]_<<vars, program>> => TreeProgramInv'
  <2> SUFFICES ASSUME TreeProgramInv, [ProgramNext]_<<vars, program>>, program' = "tree"
               PROVE  TreeInv'
    BY ProgramsKeepResolving DEF TreeProgramInv, allVars
  <2>1. program = "tree" /\ TreeInv
    BY DEF ProgramNext, TreeProgramInv
  <2>2. CASE ProgramNext
    BY <2>1, <2>2, TreeStep, TreeKept DEF ProgramNext, TreeProgramInv
  <2>3. CASE UNCHANGED <<vars, program>>
    BY <2>1, <2>3, TreeStutters
  <2> QED BY <2>2, <2>3
<1> QED BY <1>1, <1>2

\* As long as a list is used with calls that keep the registry, and no two keys
\* have one text, whatever resolves below the list is an entry in it or a leaf
\* of one: replaced and deleted entries are gone with all their paths.
THEOREM NothingRemovedIsFound ==
  ASSUME OneTextPerKey
  PROVE  ProgramSpec => []TreeNothingRemovedResolves
<1>1. TreeProgramInv => TreeNothingRemovedResolves
  <2> SUFFICES ASSUME TreeInv, NEW p \in Paths \ {ZPath}, reg[p] # None
               PROVE  \E k \in Keys :
                        /\ members[k] # None
                        /\ p[1] = Text[k]
                        /\ p = EntryPath(Text[k]) => reg[p] = Entry(members[k])
    BY DEF TreeProgramInv, TreeNothingRemovedResolves, NothingRemovedResolves
  <2>1. PICK k \in Keys : p \in PathsOf(Text[k])
    BY DEF Paths, PathsOf, Texts
  <2>2. p[1] = Text[k]
    BY <2>1 DEF PathsOf, EntryPath, KeyPath, ValPath
  <2> QED BY <2>1, <2>2 DEF TreeInv, Consistent, Shown
<1> QED BY <1>1, TreeProgramInvariant, PTL DEF ProgramSpec

-----------------------------------------------------------------------------
(* The list and the registry as one map                                    *)

\* Tree and registry show the same under every key.
LEMMA TreeIsIndex ==
  ASSUME TypeInv, TreeInv, Null \notin Values
  PROVE  InTree = ByPath
<1> SUFFICES ASSUME NEW k \in Keys PROVE InTree[k] = ByPath[k]
  BY DEF InTree, ByPath
<1>1. CASE members[k] = None
  BY <1>1 DEF TreeInv, Consistent, PathsOf, InTree, ByPath
<1>2. CASE members[k] # None
  <2> DEFINE e == members[k]
             o == reg[ValPath(Text[k])]
  <2>1. /\ Shown(reg, k, e, Native[k], entry[e].val)
        /\ entry[e].key = Native[k]
        /\ entry[e].set = (entry[e].val # Null)
    <3>1. entry[e].set \in BOOLEAN
      BY <1>2 DEF TypeInv, TypeOK, Referenced
    <3> QED BY <1>2, <3>1 DEF TreeInv, Consistent, Telling
  <2>2. o.val = entry[e].val /\ o.set = entry[e].set /\ reg[KeyPath(Text[k])].val = entry[e].key
    BY <2>1 DEF Shown, HasLeaf, Telling
  <2>3. reg[EntryPath(Text[k])] # None
    <3>1. e \in Ids
      BY <1>2 DEF TypeInv, TypeOK
    <3> QED BY <2>1, <3>1, EntryType, PathAssumption DEF Shown
  <2> QED BY <1>2, <2>2, <2>3 DEF InTree, ByPath
<1> QED BY <1>1, <1>2

\* A step that concerns one key puts its contents there, or removes them.
LEMMA OneKeyStep ==
  ASSUME TypeInv', TreeInv', NEW k \in Keys, OthersKept(k), InTree' = ByPath'
  PROVE  Store!Next
<1>1. InTree' = [InTree EXCEPT ![k] = InTree'[k]]
  <2>1. ASSUME NEW j \in Keys \ {k} PROVE InTree'[j] = InTree[j]
    BY DEF OthersKept, InTree
  <2> QED BY <2>1 DEF InTree
<1>2. CASE members'[k] = None
  <2>1. InTree'[k] = None
    BY <1>2 DEF InTree
  <2>2. Store!Remove(k)
    BY <1>1, <2>1 DEF Store!Remove
  <2> QED BY <2>2 DEF Store!Next
<1>3. CASE members'[k] # None
  <2>1. /\ entry'[members'[k]].key = Native[k]
        /\ entry'[members'[k]].val \in Values \cup {Null}
        /\ entry'[members'[k]].set \in BOOLEAN
    BY <1>3 DEF TypeInv, TypeOK, Referenced, TreeInv, Consistent
  <2>2. InTree'[k] \in ContentsOf(k)
    BY <1>3, <2>1 DEF InTree, ContentsOf
  <2>3. Store!Put(k)
    BY <1>1, <2>2 DEF Store!Put
  <2> QED BY <2>3 DEF Store!Next
<1> QED BY <1>2, <1>3

\* The list and the registry implement IndexedStore: with the calls that keep
\* the registry, every entry is found with the same key, value and `_changed()`
\* in the list and by its path after each call, for all lists, keys and values.
\* The registry keeps an old leaf that equals the new one, `_changed()` and all
\* (YANGPathHelper.register, xpathhelper.py:247), so that the unset leaf must not
\* be equal to one that is set.
THEOREM TreeRefinesStore ==
  ASSUME OneTextPerKey, Null \notin Values
  PROVE  ProgramSpec => TreeImplementsStore
<1> DEFINE Step == program = "tree" => [Store!Next]_<<InTree, ByPath>>
           Mapped == program = "tree" => InTree = ByPath
<1>a. TreeProgramInv => Mapped
  BY TreeIsIndex DEF TreeProgramInv
<1>1. ProgramInit => (program = "tree" => Store!Init)
  <2> SUFFICES ASSUME ProgramInit, program = "tree" PROVE Store!Init
    OBVIOUS
  <2>1. TypeInv /\ TreeInv
    BY TreeProgramInvariant DEF TreeProgramInv
  <2>2. InTree = [k \in Keys |-> None]
    BY DEF ProgramInit, Init, Nothing, InTree
  <2> QED BY <2>1, <2>2, TreeIsIndex DEF Store!Init
<1>2. TreeProgramInv /\ TreeProgramInv' /\ Mapped' /\ [ProgramNext]_<<vars, program>>
        => [Step]_<<vars, program>>
  <2> SUFFICES ASSUME TreeProgramInv, TreeProgramInv', Mapped', ProgramNext, program = "tree"
               PROVE  Store!Next
    OBVIOUS
  <2>1. TypeInv /\ TreeInv /\ TreeCalls /\ TypeInv' /\ TreeInv'
    BY DEF TreeProgramInv, ProgramNext
  <2>2. PICK k \in Keys : OthersKept(k)
    BY <2>1, TreeStep
  <2>3. InTree' = ByPath'
    BY DEF ProgramNext
  <2> QED BY <2>1, <2>2, <2>3, OneKeyStep
<1> QED BY <1>a, <1>1, <1>2, TreeProgramInvariant, PTL DEF ProgramSpec, TreeImplementsStore

\* Put as a refinement: a program of these calls behaves as IndexedStore does.
THEOREM TreeProgramsImplementStore ==
  ASSUME OneTextPerKey, Null \notin Values
  PROVE  ProgramSpec /\ program = "tree" => ImplementsStore
<1> DEFINE Step == program = "tree" => [Store!Next]_<<InTree, ByPath>>
<1>1. program = "tree" /\ [ProgramNext]_<<vars, program>> => (program = "tree")'
  BY DEF ProgramNext
<1>2. TreeProgramInv /\ program = "tree" /\ [Step]_<<vars, program>>
        => [Store!Next]_<<InTree, ByPath>>
  BY TreeStutters DEF TreeProgramInv
<1> QED
  BY <1>1, <1>2, TreeRefinesStore, TreeProgramInvariant, PTL
  DEF ProgramSpec, TreeImplementsStore, ImplementsStore, Store!Spec
=============================================================================
