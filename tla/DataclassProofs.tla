-------------------------- MODULE DataclassProofs --------------------------
(***************************************************************************)
(* What holds of the dataclass bindings for every type, schema, tree and list: *)
(* what validate_tree reports of a list or leaf-list with any number of        *)
(* entries, of the nodes of a tree and of instance-identifiers, what the        *)
(* spellings of identities mean, and that a tree comes back from the JSON it is  *)
(* written as.                                                              *)
(***************************************************************************)
EXTENDS DataclassPrograms, DataLemmas, SequenceTheorems, TLAPS

-----------------------------------------------------------------------------
(* Validation of lists                                                     *)

ListStart == G!WellFormed /\ G!InitWith(shape, entries, refs)

(* The entries whose keys, or uniques, go into a set.                       *)
KeyCounts(i) ==
  IF shape = "list" THEN G!AllSet(entries[i].key) ELSE G!AllHashable(entries[i].key)
UniqueCounts(i) == shape = "list" /\ G!AllSet(entries[i].unique)

(* The sets are those of the entries gone over.                             *)
Seen ==
  /\ \A h : h \in seenKeys <=> \E j \in 1..pos : KeyCounts(j) /\ h = G!Hashed(entries[j].key)
  /\ \A h : h \in seenUnique <=>
              \E j \in 1..pos : UniqueCounts(j) /\ h = G!Hashed(entries[j].unique)
  /\ \A v : G!IsTuple(<<v>>) /\ v # None /\ G!Hashable(v) =>
              (G!Hashed(<<v>>) \in noted <=>
                 \E j \in 1..pos : /\ entries[j].key # <<>> /\ entries[j].key[1] # None
                                   /\ G!Hashable(entries[j].key[1])
                                   /\ G!Hashed(<<v>>) = G!Hashed(<<entries[j].key[1]>>))

(* An entry is reported for what one before it has in the set.              *)
Reported ==
  /\ \A i : <<"key", i>> \in errors <=>
       /\ i \in 1..pos /\ KeyCounts(i)
       /\ \E j \in 1..(i - 1) : KeyCounts(j) /\ G!Hashed(entries[i].key) = G!Hashed(entries[j].key)
  /\ \A i : <<"unique", i>> \in errors <=>
       /\ i \in 1..pos /\ UniqueCounts(i)
       /\ \E j \in 1..(i - 1) : /\ UniqueCounts(j)
                                /\ G!Hashed(entries[i].unique) = G!Hashed(entries[j].unique)

(* Leafrefs are reported at the end.                                        *)
Resolved ==
  \A r : <<"leafref", r>> \in errors <=>
           ended = "yes" /\ r \in DOMAIN refs /\ G!Hashed(<<refs[r]>>) \notin noted

(* Keys not set are reported at their entry, the number of entries at the end. *)
Incomplete(i) == \E k \in DOMAIN entries[i].key : entries[i].key[k] = None
Counted ==
  /\ \A i : <<"no key", i>> \in errors <=> i \in 1..pos /\ Incomplete(i)
  /\ <<"max", 0>> \in errors <=> ended = "yes" /\ Len(entries) > MaxElements
  /\ <<"min", 0>> \in errors <=> ended = "yes" /\ Len(entries) < MinElements

ListInv ==
  /\ G!WellFormed
  /\ pos \in 0..Len(entries)
  /\ ended \in {"no", "yes", "raised"}
  /\ ended = "yes" => pos = Len(entries)
  /\ ended # "raised" => Seen /\ Reported /\ Resolved /\ Counted
  /\ ended = "raised" =>
       shape = "list" /\ \E i \in 1..pos : \E vs \in G!TuplesOf(i) : G!AllSet(vs) /\ ~G!AllHashable(vs)

-----------------------------------------------------------------------------
(* Tuples that are one to a set of Python are equal, or a Boolean stands     *)
(* where the other has the number it equals.                                *)
LEMMA OneToPython ==
  ASSUME NEW a, NEW b, G!IsTuple(a), G!IsTuple(b), G!AllSet(a), G!AllSet(b), G!Hashed(a) = G!Hashed(b)
  PROVE  a = b \/ G!NumberAndBool(a, b)
<1>1. DOMAIN a = DOMAIN b
  BY DEF G!Hashed
<1>2. ASSUME NEW i \in DOMAIN a
      PROVE  a[i].v = b[i].v /\ (a[i].py = b[i].py \/ {a[i].py, b[i].py} = {"int", "bool"})
  <2> DEFINE class(e) == IF e.py \in {"int", "bool"} THEN "number" ELSE e.py
  <2>1. G!Hashed(a)[i] = [class |-> class(a[i]), v |-> a[i].v]
    BY DEF G!Hashed
  <2>2. G!Hashed(b)[i] = [class |-> class(b[i]), v |-> b[i].v]
    BY <1>1 DEF G!Hashed
  <2>3. class(a[i]) = class(b[i]) /\ a[i].v = b[i].v
    <3> HIDE DEF class
    <3>1. [class |-> class(a[i]), v |-> a[i].v] = [class |-> class(b[i]), v |-> b[i].v]
      BY <2>1, <2>2
    <3> QED BY <3>1
  <2>4. a[i].py # "number" /\ b[i].py # "number"
    BY <1>1 DEF G!IsTuple, G!AllSet
  <2> QED BY <2>3, <2>4
<1>3. CASE \E i \in DOMAIN a : a[i].py # b[i].py
  BY <1>1, <1>2, <1>3 DEF G!NumberAndBool, G!AllSet
<1>4. CASE \A i \in DOMAIN a : a[i].py = b[i].py
  <2>1. \A i \in DOMAIN a : a[i] = b[i]
    <3>1. \A i \in DOMAIN a : a[i] = [py |-> a[i].py, v |-> a[i].v]
                              /\ b[i] = [py |-> b[i].py, v |-> b[i].v]
      BY <1>1 DEF G!IsTuple, G!AllSet
    <3> QED BY <1>2, <1>4, <3>1
  <2> QED BY <1>1, <2>1 DEF G!IsTuple
<1> QED BY <1>3, <1>4

(* Before the first entry,                                                 *)
LEMMA ListInit == ListStart => ListInv
<1> SUFFICES ASSUME ListStart PROVE ListInv
  OBVIOUS
<1>1. /\ G!WellFormed /\ pos = 0 /\ seenKeys = {} /\ seenUnique = {} /\ noted = {}
      /\ errors = {} /\ ended = "no"
  BY DEF ListStart, G!InitWith
<1>2. pos \in 0..Len(entries)
  BY <1>1 DEF G!WellFormed
<1>3. Seen /\ Reported /\ Resolved /\ Counted
  BY <1>1 DEF Seen, Reported, Resolved, Counted
<1> QED BY <1>1, <1>2, <1>3 DEF ListInv

(* What is said of entries does not change.                                 *)
LEMMA DataKept ==
  ASSUME UNCHANGED <<shape, entries, refs>>
  PROVE  /\ G!WellFormed' <=> G!WellFormed
         /\ \A i : /\ KeyCounts(i)' <=> KeyCounts(i)
                   /\ UniqueCounts(i)' <=> UniqueCounts(i)
                   /\ Incomplete(i)' <=> Incomplete(i)
                   /\ G!TuplesOf(i)' = G!TuplesOf(i)
BY DEF G!WellFormed, KeyCounts, UniqueCounts, Incomplete, G!TuplesOf

(* An entry of a list.                                                      *)
LEMMA EntryKeeps == ASSUME ListInv, G!Entry PROVE ListInv'
<1> DEFINE n == pos + 1
           entry == entries[n]
<1>1. /\ ended = "no" /\ shape = "list" /\ pos < Len(entries)
      /\ pos' = n /\ UNCHANGED <<shape, entries, refs>>
  BY DEF G!Entry, G!GoOn
<1>2. Seen /\ Reported /\ Resolved /\ Counted /\ G!WellFormed /\ pos \in Nat /\ n \in 1..Len(entries)
  BY <1>1 DEF ListInv, G!WellFormed
<1>3. G!WellFormed' /\ pos' \in 0..Len(entries)' 
  BY <1>1, <1>2, DataKept DEF G!WellFormed
<1>4. \A j : j \in 1..pos' <=> j \in 1..pos \/ j = n
  BY <1>1, <1>2
<1>5. CASE G!Raises(entry)
  <2>1. ended' = "raised"
    BY <1>5 DEF G!Entry
  <2>2. \E vs \in G!TuplesOf(n) : G!AllSet(vs) /\ ~G!AllHashable(vs)
    BY <1>5 DEF G!Raises, G!TuplesOf
  <2> HIDE DEF n
  <2> QED BY <1>1, <1>3, <1>4, <2>1, <2>2, DataKept DEF ListInv
<1>6. CASE ~G!Raises(entry)
  <2>1. /\ errors' = errors \cup G!Complaints(entry, n)
        /\ seenKeys' = IF G!AllSet(entry.key) THEN seenKeys \cup {G!Hashed(entry.key)} ELSE seenKeys
        /\ seenUnique' = IF G!AllSet(entry.unique)
                         THEN seenUnique \cup {G!Hashed(entry.unique)} ELSE seenUnique
        /\ noted' = noted \cup {G!Noted(entry)}
        /\ ended' = "no"
    BY <1>1, <1>6 DEF G!Entry
  <2>2. (KeyCounts(n) <=> G!AllSet(entry.key)) /\ (UniqueCounts(n) <=> G!AllSet(entry.unique))
    BY <1>1 DEF KeyCounts, UniqueCounts
  <2>3. \A i : /\ <<"key", i>> \in G!Complaints(entry, n) <=>
                    i = n /\ G!AllSet(entry.key) /\ G!Hashed(entry.key) \in seenKeys
               /\ <<"unique", i>> \in G!Complaints(entry, n) <=>
                    i = n /\ G!AllSet(entry.unique) /\ G!Hashed(entry.unique) \in seenUnique
               /\ <<"leafref", i>> \notin G!Complaints(entry, n)
    BY DEF G!Complaints
  <2>8. \A i : /\ <<"no key", i>> \in G!Complaints(entry, n) <=> i = n /\ Incomplete(n)
               /\ <<"max", i>> \notin G!Complaints(entry, n)
               /\ <<"min", i>> \notin G!Complaints(entry, n)
    BY DEF G!Complaints, Incomplete
  <2>4. n = pos + 1 /\ entry = entries[n]
    OBVIOUS
  <2> HIDE DEF n, entry
  <2>5. Reported'
    <3>1. \A j : j \in 1..(n - 1) <=> j \in 1..pos
      BY <1>2, <2>4
    <3> QED
      BY <1>1, <1>2, <1>4, <2>1, <2>2, <2>3, <2>4, <3>1, DataKept DEF Reported, Seen
  <2>6. Resolved'
    BY <1>1, <1>2, <2>1, <2>3 DEF Resolved
  <2>9. Counted'
    BY <1>1, <1>2, <1>4, <2>1, <2>8, DataKept DEF Counted
  <2>7. Seen'
    <3>1. \A h : h \in seenKeys' <=>
                   \E j \in 1..pos' : KeyCounts(j)' /\ h = G!Hashed(entries[j].key)'
      BY <1>1, <1>2, <1>4, <2>1, <2>2, <2>4, DataKept DEF Seen, G!Hashed
    <3>2. \A h : h \in seenUnique' <=>
                   \E j \in 1..pos' : UniqueCounts(j)' /\ h = G!Hashed(entries[j].unique)'
      BY <1>1, <1>2, <1>4, <2>1, <2>2, <2>4, DataKept DEF Seen, G!Hashed
    <3>3. ASSUME NEW v, G!IsTuple(<<v>>), v # None, G!Hashable(v)
          PROVE  G!Hashed(<<v>>) \in noted' <=>
                   \E j \in 1..pos' : /\ entries[j].key # <<>> /\ entries[j].key[1] # None
                                      /\ G!Hashable(entries[j].key[1])
                                      /\ G!Hashed(<<v>>) = G!Hashed(<<entries[j].key[1]>>)
      <4>1. G!Hashed(<<v>>) # <<>>
        BY DEF G!Hashed
      <4>2. G!Hashed(<<v>>) = G!Noted(entry) <=>
              /\ entry.key # <<>> /\ entry.key[1] # None /\ G!Hashable(entry.key[1])
              /\ G!Hashed(<<v>>) = G!Hashed(<<entry.key[1]>>)
        BY <4>1 DEF G!Noted
      <4> QED BY <1>2, <1>4, <2>1, <2>4, <3>3, <4>2 DEF Seen
    <3> QED BY <1>1, <3>1, <3>2, <3>3 DEF Seen
  <2> QED BY <1>3, <2>1, <2>5, <2>6, <2>7, <2>9 DEF ListInv
<1> QED BY <1>5, <1>6

(* An element of a leaf-list; one without a hash goes into no set.           *)
LEMMA ElementKeeps == ASSUME ListInv, G!Element PROVE ListInv'
<1> DEFINE n == pos + 1
           value == entries[n].key
<1>1. /\ ended = "no" /\ shape = "leaf-list" /\ pos < Len(entries)
      /\ pos' = n /\ UNCHANGED <<shape, entries, refs, seenUnique, ended>>
  BY DEF G!Element, G!GoOn
<1>2. Seen /\ Reported /\ Resolved /\ Counted /\ G!WellFormed /\ pos \in Nat /\ n \in 1..Len(entries)
  BY <1>1 DEF ListInv, G!WellFormed
<1>3. G!WellFormed' /\ pos' \in 0..Len(entries)'
  BY <1>1, <1>2, DataKept DEF G!WellFormed
<1>4. \A j : j \in 1..pos' <=> j \in 1..pos \/ j = n
  BY <1>1, <1>2
<1>5. /\ errors' = IF KeyCounts(n) THEN errors \cup {<<"key", n>> : k \in {G!Hashed(value)} \cap seenKeys}
                   ELSE errors
      /\ seenKeys' = IF KeyCounts(n) THEN seenKeys \cup {G!Hashed(value)} ELSE seenKeys
      /\ noted' = IF KeyCounts(n) THEN noted \cup {G!Hashed(value)} ELSE noted
  BY <1>1 DEF G!Element, KeyCounts
<1>6. n = pos + 1 /\ value = entries[n].key
  OBVIOUS
<1>7. \A j : ~UniqueCounts(j)
  BY <1>1 DEF UniqueCounts
<1>8. \A j : j \in 1..(n - 1) <=> j \in 1..pos
  BY <1>2
<1>9. /\ value # <<>> /\ DOMAIN value = {1} /\ value[1] # None /\ G!IsTuple(value)
      /\ KeyCounts(n) <=> G!Hashable(value[1])
  BY <1>1, <1>2 DEF G!WellFormed, KeyCounts, G!AllHashable
<1>10. G!Hashed(value) = G!Hashed(<<value[1]>>)
  BY <1>9 DEF G!Hashed
<1> HIDE DEF n, value
<1>11. \A i : /\ <<"key", i>> \in errors' <=>
                   \/ <<"key", i>> \in errors
                   \/ i = n /\ KeyCounts(n) /\ G!Hashed(value) \in seenKeys
              /\ <<"unique", i>> \in errors' <=> <<"unique", i>> \in errors
              /\ \A what \in {"leafref", "no key", "max", "min"} :
                   <<what, i>> \in errors' <=> <<what, i>> \in errors
  BY <1>5
<1>12. Reported'
  <2>1. \A i : <<"unique", i>> \notin errors
    BY <1>2, <1>7 DEF Reported
  <2>2. \A j : ~UniqueCounts(j)'
    BY <1>1, <1>7, DataKept
  <2>3. \A i : <<"key", i>> \in errors' <=>
          /\ i \in 1..pos' /\ KeyCounts(i)'
          /\ \E j \in 1..(i - 1) :
               KeyCounts(j)' /\ G!Hashed(entries[i].key)' = G!Hashed(entries[j].key)'
    BY <1>1, <1>2, <1>4, <1>6, <1>8, <1>11, DataKept DEF Reported, Seen
  <2> QED BY <1>11, <2>1, <2>2, <2>3 DEF Reported
<1>13. Resolved' /\ Counted'
  <2>1. ~Incomplete(n)
    BY <1>6, <1>9 DEF Incomplete
  <2> QED BY <1>1, <1>2, <1>4, <1>11, <2>1, DataKept DEF Resolved, Counted
<1>14. Seen'
  <2>1. \A h : h \in seenKeys' <=>
                 \E j \in 1..pos' : KeyCounts(j)' /\ h = G!Hashed(entries[j].key)'
    BY <1>1, <1>2, <1>4, <1>5, <1>6, DataKept DEF Seen
  <2>2. \A h : h \in seenUnique' <=>
                 \E j \in 1..pos' : UniqueCounts(j)' /\ h = G!Hashed(entries[j].unique)'
    BY <1>1, <1>2, <1>7, DataKept DEF Seen
  <2>3. ASSUME NEW v, G!IsTuple(<<v>>), v # None, G!Hashable(v)
        PROVE  G!Hashed(<<v>>) \in noted' <=>
                 \E j \in 1..pos' : /\ entries[j].key # <<>> /\ entries[j].key[1] # None
                                    /\ G!Hashable(entries[j].key[1])
                                    /\ G!Hashed(<<v>>) = G!Hashed(<<entries[j].key[1]>>)
    BY <1>2, <1>4, <1>5, <1>6, <1>9, <1>10, <2>3 DEF Seen
  <2> QED BY <1>1, <2>1, <2>2, <2>3 DEF Seen
<1> QED BY <1>1, <1>3, <1>12, <1>13, <1>14 DEF ListInv

(* The end: the number of entries, and the leafrefs.                        *)
LEMMA CloseKeeps == ASSUME ListInv, G!Close PROVE ListInv'
<1>1. /\ ended = "no" /\ pos = Len(entries)
      /\ errors' = errors \cup G!Count \cup G!Dangling
      /\ ended' = "yes"
      /\ UNCHANGED <<shape, entries, refs, pos, seenKeys, seenUnique, noted>>
  BY DEF G!Close
<1>2. Seen /\ Reported /\ Resolved /\ Counted /\ G!WellFormed
  BY <1>1 DEF ListInv
<1>3. \A i : /\ <<"key", i>> \in errors' <=> <<"key", i>> \in errors
             /\ <<"unique", i>> \in errors' <=> <<"unique", i>> \in errors
             /\ <<"leafref", i>> \in errors' <=>
                  <<"leafref", i>> \in errors \/ (i \in DOMAIN refs /\ G!Hashed(<<refs[i]>>) \notin noted)
             /\ <<"no key", i>> \in errors' <=> <<"no key", i>> \in errors
  BY <1>1 DEF G!Count, G!Dangling
<1>4. Seen'
  BY <1>1, <1>2, DataKept DEF Seen
<1>5. Reported'
  BY <1>1, <1>2, <1>3, DataKept DEF Reported
<1>6. Resolved'
  BY <1>1, <1>2, <1>3 DEF Resolved
<1>7. Counted'
  <2>1. /\ <<"max", 0>> \in errors' <=> Len(entries) > MaxElements
        /\ <<"min", 0>> \in errors' <=> Len(entries) < MinElements
    BY <1>1, <1>2 DEF Counted, G!Count, G!Dangling
  <2> QED BY <1>1, <1>2, <1>3, <2>1, DataKept DEF Counted
<1> QED BY <1>1, <1>2, <1>4, <1>5, <1>6, <1>7, DataKept DEF ListInv

(* and while something else is done.                                       *)
LEMMA StutterKeeps == ASSUME ListInv, UNCHANGED G!lvars PROVE ListInv'
<1>1. UNCHANGED <<shape, entries, refs, pos, seenKeys, seenUnique, noted, errors, ended>>
  BY DEF G!lvars
<1>2. Seen => Seen'
  BY <1>1, DataKept DEF Seen
<1>3. Reported => Reported'
  BY <1>1, DataKept DEF Reported
<1>4. Resolved => Resolved'
  BY <1>1 DEF Resolved
<1>5. Counted => Counted'
  BY <1>1, DataKept DEF Counted
<1> QED BY <1>1, <1>2, <1>3, <1>4, <1>5, DataKept DEF ListInv

-----------------------------------------------------------------------------
(* The property follows                                                    *)

(* The keys of a list and the elements of a leaf-list,                      *)
LEMMA KeysJudged ==
  ASSUME G!WellFormed, Reported, pos \in 0..Len(entries)
  PROVE  G!JudgedBy(G!KeyOf, "key")
<1> SUFFICES ASSUME NEW i \in 1..pos
             PROVE  /\ <<"key", i>> \in errors =>
                         G!Complete(G!KeyOf, i) /\ (G!Repeats(G!KeyOf, i) \/ G!Confused(G!KeyOf, i))
                    /\ (G!Complete(G!KeyOf, i) /\ G!Repeats(G!KeyOf, i) /\ G!AllHashable(G!KeyOf(entries[i])))
                         => <<"key", i>> \in errors
  BY DEF G!JudgedBy
<1>1. \A j \in 1..i : j \in DOMAIN entries /\ G!IsTuple(entries[j].key)
  BY DEF G!WellFormed
<1>2. \A j \in 1..i : KeyCounts(j) => G!AllSet(entries[j].key)
  BY <1>1 DEF KeyCounts, G!WellFormed, G!AllSet
<1>3. ASSUME <<"key", i>> \in errors
      PROVE  G!Complete(G!KeyOf, i) /\ (G!Repeats(G!KeyOf, i) \/ G!Confused(G!KeyOf, i))
  <2>1. PICK j \in 1..(i - 1) : KeyCounts(j) /\ G!Hashed(entries[i].key) = G!Hashed(entries[j].key)
    BY <1>3 DEF Reported
  <2>2. G!AllSet(entries[i].key) /\ G!AllSet(entries[j].key)
    BY <1>2, <1>3, <2>1 DEF Reported
  <2>3. entries[i].key = entries[j].key \/ G!NumberAndBool(entries[i].key, entries[j].key)
    BY <1>1, <2>1, <2>2, OneToPython
  <2> QED BY <2>2, <2>3 DEF G!Complete, G!Repeats, G!Confused, G!KeyOf
<1>4. ASSUME G!Complete(G!KeyOf, i), G!Repeats(G!KeyOf, i), G!AllHashable(G!KeyOf(entries[i]))
      PROVE  <<"key", i>> \in errors
  <2>1. PICK j \in 1..(i - 1) : entries[i].key = entries[j].key
    BY <1>4 DEF G!Repeats, G!KeyOf
  <2>2. KeyCounts(i) /\ KeyCounts(j)
    BY <1>4, <2>1 DEF G!Complete, G!KeyOf, KeyCounts
  <2> QED BY <2>1, <2>2 DEF Reported
<1> QED BY <1>3, <1>4

(* and the leaves of a `unique`.                                           *)
LEMMA UniquesJudged ==
  ASSUME G!WellFormed, Reported, pos \in 0..Len(entries)
  PROVE  G!JudgedBy(G!UniqueOf, "unique")
<1> SUFFICES ASSUME NEW i \in 1..pos
             PROVE  /\ <<"unique", i>> \in errors =>
                         G!Complete(G!UniqueOf, i) /\ (G!Repeats(G!UniqueOf, i) \/ G!Confused(G!UniqueOf, i))
                    /\ (G!Complete(G!UniqueOf, i) /\ G!Repeats(G!UniqueOf, i)
                           /\ G!AllHashable(G!UniqueOf(entries[i])))
                         => <<"unique", i>> \in errors
  BY DEF G!JudgedBy
<1>1. \A j \in 1..i : j \in DOMAIN entries /\ G!IsTuple(entries[j].unique)
  BY DEF G!WellFormed
<1>2. ASSUME <<"unique", i>> \in errors
      PROVE  G!Complete(G!UniqueOf, i) /\ (G!Repeats(G!UniqueOf, i) \/ G!Confused(G!UniqueOf, i))
  <2>1. PICK j \in 1..(i - 1) :
          UniqueCounts(j) /\ G!Hashed(entries[i].unique) = G!Hashed(entries[j].unique)
    BY <1>2 DEF Reported
  <2>2. G!AllSet(entries[i].unique) /\ G!AllSet(entries[j].unique)
    BY <1>2, <2>1 DEF Reported, UniqueCounts
  <2>3. entries[i].unique = entries[j].unique \/ G!NumberAndBool(entries[i].unique, entries[j].unique)
    BY <1>1, <2>1, <2>2, OneToPython
  <2> QED BY <2>2, <2>3 DEF G!Complete, G!Repeats, G!Confused, G!UniqueOf
<1>3. ASSUME G!Complete(G!UniqueOf, i), G!Repeats(G!UniqueOf, i), G!AllHashable(G!UniqueOf(entries[i]))
      PROVE  <<"unique", i>> \in errors
  <2>1. PICK j \in 1..(i - 1) : entries[i].unique = entries[j].unique
    BY <1>3 DEF G!Repeats, G!UniqueOf
  <2>2. shape = "list"
    BY <1>1, <1>3 DEF G!WellFormed, G!Complete, G!UniqueOf, G!AllSet
  <2>3. UniqueCounts(i) /\ UniqueCounts(j)
    BY <1>3, <2>1, <2>2 DEF G!Complete, G!UniqueOf, UniqueCounts
  <2> QED BY <2>1, <2>3 DEF Reported
<1> QED BY <1>2, <1>3

(* A leafref to a value an entry has is not reported, one to none is.        *)
LEMMA LeafrefsJudged ==
  ASSUME G!WellFormed, Seen, Resolved, ended = "yes", pos = Len(entries), NEW r \in DOMAIN refs
  PROVE  LET same == {i \in DOMAIN entries :
                        entries[i].key # <<>> /\ entries[i].key[1] = refs[r]}
             other == {i \in DOMAIN entries :
                         entries[i].key # <<>> /\ G!NumberAndBool(<<entries[i].key[1]>>, <<refs[r]>>)}
         IN /\ same # {} => <<"leafref", r>> \notin errors
            /\ same \cup other = {} => <<"leafref", r>> \in errors
<1> DEFINE same == {i \in DOMAIN entries : entries[i].key # <<>> /\ entries[i].key[1] = refs[r]}
           other == {i \in DOMAIN entries :
                       entries[i].key # <<>> /\ G!NumberAndBool(<<entries[i].key[1]>>, <<refs[r]>>)}
<1>1. /\ refs[r] # None /\ G!Hashable(refs[r]) /\ G!IsTuple(<<refs[r]>>)
      /\ DOMAIN entries = 1..pos
  BY DEF G!WellFormed, G!IsTuple, G!Hashable
<1>2. G!Hashed(<<refs[r]>>) \in noted <=>
        \E j \in 1..pos : /\ entries[j].key # <<>> /\ entries[j].key[1] # None
                          /\ G!Hashable(entries[j].key[1])
                          /\ G!Hashed(<<refs[r]>>) = G!Hashed(<<entries[j].key[1]>>)
  BY <1>1 DEF Seen
<1>3. ASSUME same # {} PROVE <<"leafref", r>> \notin errors
  BY <1>1, <1>2, <1>3 DEF Resolved
<1>4. ASSUME same \cup other = {} PROVE <<"leafref", r>> \in errors
  <2>1. SUFFICES ASSUME NEW j \in 1..pos, entries[j].key # <<>>, entries[j].key[1] # None,
                        G!Hashed(<<refs[r]>>) = G!Hashed(<<entries[j].key[1]>>)
                 PROVE  FALSE
    BY <1>2 DEF Resolved
  <2>2. G!IsTuple(<<entries[j].key[1]>>)
    <3>1. G!IsTuple(entries[j].key) /\ 1 \in DOMAIN entries[j].key
      BY <1>1, <2>1 DEF G!WellFormed
    <3> DEFINE value == entries[j].key[1]
    <3>2. value.py # "number" /\ value = [py |-> value.py, v |-> value.v]
      BY <2>1, <3>1 DEF G!IsTuple
    <3> HIDE DEF value
    <3>3. G!IsTuple(<<value>>)
      BY <3>2 DEF G!IsTuple
    <3> QED BY <3>3 DEF value
  <2>3. G!AllSet(<<refs[r]>>) /\ G!AllSet(<<entries[j].key[1]>>)
    BY <1>1, <2>1 DEF G!AllSet
  <2>4. <<entries[j].key[1]>> = <<refs[r]>> \/ G!NumberAndBool(<<entries[j].key[1]>>, <<refs[r]>>)
    BY <1>1, <2>1, <2>2, <2>3, OneToPython
  <2> QED BY <1>1, <1>4, <2>1, <2>4
<1> QED BY <1>3, <1>4

(* All that is reported.                                                   *)
LEMMA JudgedFollows == ListInv => G!ListsJudgedRight
<1> SUFFICES ASSUME ListInv PROVE G!ListsJudgedRight
  OBVIOUS
<1>1. CASE ended = "raised"
  BY <1>1 DEF ListInv, G!ListsJudgedRight
<1>2. CASE ended # "raised"
  <2>1. G!JudgedBy(G!KeyOf, "key") /\ G!JudgedBy(G!UniqueOf, "unique")
    BY <1>2, KeysJudged, UniquesJudged DEF ListInv
  <2>2. /\ \A i \in 1..pos : <<"no key", i>> \in errors <=> Incomplete(i)
        /\ ended = "yes" => /\ <<"max", 0>> \in errors <=> Len(entries) > MaxElements
                            /\ <<"min", 0>> \in errors <=> Len(entries) < MinElements
    BY <1>2 DEF ListInv, Counted
  <2> QED BY <1>2, <2>1, <2>2, LeafrefsJudged DEF ListInv, G!ListsJudgedRight, Incomplete
<1> QED BY <1>1, <1>2

-----------------------------------------------------------------------------
(* Of lists of any length, validate_tree reports the keys that are not set,  *)
(* the keys and uniques that repeat, more entries than max-elements and      *)
(* fewer than min-elements, and the leafrefs that dangle, and nothing else   *)
(* but a Boolean after the number it equals.                                *)
THEOREM ListsAreJudged == ProgramSpec => []ListsJudgedRight
<1>1. ProgramInit => (program = "list" => ListInv)
  BY ListInit DEF ProgramInit, ListStart
<1>2. (program = "list" => ListInv) /\ [ProgramNext]_pvars
        => (program = "list" => ListInv)'
  <2> SUFFICES ASSUME program = "list" => ListInv, [ProgramNext]_pvars,
                      program' = "list"
               PROVE  ListInv'
    OBVIOUS
  <2>1. program = "list" /\ ListInv
    BY DEF ProgramNext, pvars
  <2>2. G!Next \/ UNCHANGED G!lvars
    BY <2>1 DEF ProgramNext, pvars, listing, G!lvars
  <2> QED BY <2>1, <2>2, EntryKeeps, ElementKeeps, CloseKeeps, StutterKeeps DEF G!Next
<1>3. (program = "list" => ListInv) => ListsJudgedRight
  BY JudgedFollows DEF ListsJudgedRight
<1> QED BY <1>1, <1>2, <1>3, PTL DEF ProgramSpec

-----------------------------------------------------------------------------
(* Validation of the nodes of a tree                                       *)

ValidStart == V!WellFormed /\ V!InitWith(fields)
Size == Len(fields)

LEMMA FieldsAre ==
  ASSUME V!WellFormed
  PROVE  /\ Size \in Nat
         /\ V!Fields = 1..Size
         /\ \A i \in 1..Size :
              /\ fields[i].kind \in {"leaf", "bits", "container", "presence", "entry"}
              /\ fields[i].up \in 0..(i - 1)
              /\ fields[i].up # 0 => V!IsNode(fields[i].up)
              /\ fields[i].mandatory \in BOOLEAN /\ fields[i].set \in BOOLEAN
         /\ \A n, i : i \in V!FieldsOf(n) <=> i \in 1..Size /\ fields[i].up = n
BY DEF V!WellFormed, V!Fields, V!FieldsOf, Size

(* Whether a node has data: the recursive definition says what it seems to. *)
LEMMA HasDataIs ==
  ASSUME V!WellFormed
  PROVE  /\ V!HasData[0] = TRUE
         /\ \A i \in 1..Size : V!HasData[i] =
              CASE fields[i].kind \in {"leaf", "bits"} -> fields[i].set
                [] fields[i].kind = "entry" -> TRUE
                [] OTHER -> (fields[i].kind = "presence" /\ fields[i].set)
                              \/ \E j \in V!FieldsOf(i) : V!HasData[j]
<1> DEFINE N == Len(fields)
           D == 0..N
           body(i, h) ==
             CASE i = 0 -> TRUE
               [] i > 0 /\ fields[i].kind \in {"leaf", "bits"} -> fields[i].set
               [] i > 0 /\ fields[i].kind = "entry" -> TRUE
               [] OTHER -> (fields[i].kind = "presence" /\ fields[i].set)
                             \/ \E j \in V!FieldsOf(i) : j > i /\ h[j]
           within(T) == [i \in D |-> IF i \in T THEN TRUE ELSE FALSE]
           R == {p \in D \X SUBSET D : body(p[1], within(p[2]))}
           r == [i \in D |-> N - i]
<1>1. N \in Nat /\ Size = N /\ \A i \in D : \A j \in V!FieldsOf(i) : j \in 1..N /\ j > i
  BY FieldsAre DEF Size
<1>2. r \in [D -> Nat] /\ \A i \in D : r[i] < N + 1
  BY <1>1
<1>3. ASSUME NEW i \in D, NEW T \in SUBSET D, NEW U \in SUBSET D,
             \A j \in D : r[j] < r[i] => (j \in T <=> j \in U)
      PROVE  <<i, T>> \in R <=> <<i, U>> \in R
  <2>1. \A j \in D : j > i => (within(T)[j] <=> within(U)[j])
    BY <1>1, <1>3
  <2>2. \A j \in V!FieldsOf(i) : j > i => (within(T)[j] <=> within(U)[j])
    BY <1>1, <2>1
  <2> HIDE DEF within
  <2>3. body(i, within(T)) <=> body(i, within(U))
    BY <2>2
  <2> QED BY <2>3
<1>4. \E T \in SUBSET D : \A i \in D : i \in T <=> <<i, T>> \in R
  <2> HIDE DEF R, r, D
  <2>1. N + 1 \in Nat
    BY <1>1
  <2>2. Ranked(D, r, N + 1, R)
    BY <1>2, <1>3, <2>1 DEF Ranked
  <2> QED BY <2>2, RecursionByRank
<1>5. PICK T \in SUBSET D : \A i \in D : i \in T <=> <<i, T>> \in R
  BY <1>4
<1>6. \A i \in D : body(i, within(T)) \in BOOLEAN
  <2> HIDE DEF within
  <2>1. \A i \in D : i = 0 \/ i \in 1..N
    BY <1>1
  <2>2. \A i \in 1..N : fields[i].set \in BOOLEAN
    BY <1>1, FieldsAre
  <2>3. ASSUME NEW i \in 1..N PROVE body(i, within(T)) \in BOOLEAN
    BY <2>2, <2>3
  <2>4. body(0, within(T)) \in BOOLEAN
    OBVIOUS
  <2> HIDE DEF body
  <2> QED BY <2>1, <2>3, <2>4
<1>7. within(T) = [i \in D |-> body(i, within(T))]
  <2>1. ASSUME NEW i \in D PROVE within(T)[i] = body(i, within(T))
    <3>1. within(T)[i] \in BOOLEAN /\ (within(T)[i] <=> i \in T)
      OBVIOUS
    <3>2. i \in T <=> body(i, within(T))
      <4> HIDE DEF within, body
      <4> QED BY <1>5
    <3> HIDE DEF within, body
    <3> QED BY <1>6, <3>1, <3>2
  <2>2. within(T) = [i \in D |-> within(T)[i]]
    OBVIOUS
  <2> HIDE DEF within, body
  <2> QED BY <2>1, <2>2
<1>8. V!HasData = [i \in D |-> body(i, V!HasData)]
  <2> HIDE DEF within
  <2>1. \E h : h = [i \in D |-> body(i, h)]
    BY <1>7
  <2>2. V!HasData = CHOOSE h : h = [i \in D |-> body(i, h)]
    BY DEF V!HasData
  <2> HIDE DEF body
  <2> QED BY <2>1, <2>2
<1>9. \A i \in D : V!HasData[i] = body(i, V!HasData)
  <2> HIDE DEF body
  <2> QED BY <1>8
<1>10. V!HasData[0] = TRUE
  <2>1. 0 \in D /\ body(0, V!HasData) = TRUE
    BY <1>1
  <2> HIDE DEF body, D
  <2> QED BY <1>9, <2>1
<1>11. ASSUME NEW i \in 1..Size
       PROVE V!HasData[i] =
              CASE fields[i].kind \in {"leaf", "bits"} -> fields[i].set
                [] fields[i].kind = "entry" -> TRUE
                [] OTHER -> (fields[i].kind = "presence" /\ fields[i].set)
                              \/ \E j \in V!FieldsOf(i) : V!HasData[j]
  <2> DEFINE now == CASE fields[i].kind \in {"leaf", "bits"} -> fields[i].set
                      [] fields[i].kind = "entry" -> TRUE
                      [] OTHER -> (fields[i].kind = "presence" /\ fields[i].set)
                                    \/ \E j \in V!FieldsOf(i) : V!HasData[j]
  <2>1. V!HasData[i] = body(i, V!HasData)
    <3> HIDE DEF body
    <3> QED BY <1>1, <1>9
  <2>2. i > 0 /\ i # 0 /\ (\A j \in V!FieldsOf(i) : j > i) /\ fields[i].set \in BOOLEAN
    BY <1>1, FieldsAre
  <2>3. body(i, V!HasData) = now
    <3>1. (\E j \in V!FieldsOf(i) : j > i /\ V!HasData[j]) <=> \E j \in V!FieldsOf(i) : V!HasData[j]
      BY <2>2
    <3>2. CASE fields[i].kind \in {"leaf", "bits"}
      BY <2>2, <3>2
    <3>3. CASE fields[i].kind = "entry"
      BY <2>2, <3>3
    <3>4. CASE fields[i].kind \notin {"leaf", "bits", "entry"}
      BY <2>2, <3>1, <3>4
    <3> QED BY <3>2, <3>3, <3>4
  <2> HIDE DEF body
  <2> QED BY <2>1, <2>3
<1> QED BY <1>10, <1>11

(* What the reference counts as there, be it that it has no data.           *)
LiveWith(i, up) ==
  V!HasData[i] \/ /\ fields[i].kind = "container"
                  /\ V!MayBe(i)
                  /\ up
                  /\ V!Selected(fields[i].up, fields[i].case)

LEMMA LiveIs ==
  ASSUME V!WellFormed
  PROVE  V!Live[0] = TRUE /\ \A i \in 1..Size : V!Live[i] = LiveWith(i, V!Live[fields[i].up])
<1> DEFINE N == Len(fields)
           D == 0..N
           body(i, h) ==
             IF i = 0 THEN TRUE
             ELSE V!HasData[i] \/ /\ fields[i].kind = "container"
                                  /\ V!MayBe(i)
                                  /\ fields[i].up < i /\ h[fields[i].up]
                                  /\ V!Selected(fields[i].up, fields[i].case)
           within(T) == [i \in D |-> IF i \in T THEN TRUE ELSE FALSE]
           R == {p \in D \X SUBSET D : body(p[1], within(p[2]))}
           r == [i \in D |-> i]
<1>1. N \in Nat /\ Size = N /\ \A i \in 1..N : fields[i].up \in 0..(i - 1) /\ fields[i].up \in D /\ fields[i].up < i
  BY FieldsAre DEF Size
<1>2. r \in [D -> Nat] /\ \A i \in D : r[i] < N + 1
  BY <1>1
<1>3. ASSUME NEW i \in D, NEW T \in SUBSET D, NEW U \in SUBSET D,
             \A j \in D : r[j] < r[i] => (j \in T <=> j \in U)
      PROVE  <<i, T>> \in R <=> <<i, U>> \in R
  <2>1. i # 0 => (within(T)[fields[i].up] <=> within(U)[fields[i].up])
    <3> SUFFICES ASSUME i # 0 PROVE within(T)[fields[i].up] <=> within(U)[fields[i].up]
      OBVIOUS
    <3>1. i \in 1..N
      BY <1>1
    <3>2. fields[i].up \in D /\ r[fields[i].up] < r[i]
      BY <1>1, <3>1
    <3> QED BY <1>3, <3>2
  <2> HIDE DEF within
  <2>2. body(i, within(T)) <=> body(i, within(U))
    BY <2>1
  <2> QED BY <2>2
<1>4. \E T \in SUBSET D : \A i \in D : i \in T <=> <<i, T>> \in R
  <2> HIDE DEF R, r, D
  <2>1. N + 1 \in Nat
    BY <1>1
  <2>2. Ranked(D, r, N + 1, R)
    BY <1>2, <1>3, <2>1 DEF Ranked
  <2> QED BY <2>2, RecursionByRank
<1>5. PICK T \in SUBSET D : \A i \in D : i \in T <=> <<i, T>> \in R
  BY <1>4
<1>6. \A i \in D : body(i, within(T)) \in BOOLEAN
  <2>1. ASSUME NEW i \in 1..N PROVE V!HasData[i] \in BOOLEAN
    BY <1>1, FieldsAre, HasDataIs
  <2> HIDE DEF within
  <2>2. \A i \in D : i = 0 \/ i \in 1..N
    BY <1>1
  <2> QED BY <2>1, <2>2
<1>7. within(T) = [i \in D |-> body(i, within(T))]
  <2>1. ASSUME NEW i \in D PROVE within(T)[i] = body(i, within(T))
    <3>1. within(T)[i] \in BOOLEAN /\ (within(T)[i] <=> i \in T)
      OBVIOUS
    <3>2. i \in T <=> body(i, within(T))
      <4> HIDE DEF within, body
      <4> QED BY <1>5
    <3> HIDE DEF within, body
    <3> QED BY <1>6, <3>1, <3>2
  <2>2. within(T) = [i \in D |-> within(T)[i]]
    OBVIOUS
  <2> HIDE DEF within, body
  <2> QED BY <2>1, <2>2
<1>8. V!Live = [i \in D |-> body(i, V!Live)]
  <2> HIDE DEF within
  <2>1. \E h : h = [i \in D |-> body(i, h)]
    BY <1>7
  <2>2. V!Live = CHOOSE h : h = [i \in D |-> body(i, h)]
    BY DEF V!Live
  <2> HIDE DEF body
  <2> QED BY <2>1, <2>2
<1>9. \A i \in D : V!Live[i] = body(i, V!Live)
  <2> HIDE DEF body
  <2> QED BY <1>8
<1>10. V!Live[0] = TRUE
  <2>1. 0 \in D /\ body(0, V!Live) = TRUE
    BY <1>1
  <2> HIDE DEF body, D
  <2> QED BY <1>9, <2>1
<1>11. ASSUME NEW i \in 1..Size PROVE V!Live[i] = LiveWith(i, V!Live[fields[i].up])
  <2>1. V!Live[i] = body(i, V!Live)
    <3> HIDE DEF body
    <3> QED BY <1>1, <1>9
  <2>2. i # 0 /\ fields[i].up < i
    BY <1>1
  <2>3. body(i, V!Live) = LiveWith(i, V!Live[fields[i].up])
    BY <2>2 DEF LiveWith
  <2> HIDE DEF body
  <2> QED BY <2>1, <2>3
<1> QED BY <1>10, <1>11

LEMMA HasDataIsBoolean ==
  ASSUME V!WellFormed
  PROVE  \A i \in 0..Size : V!HasData[i] \in BOOLEAN /\ V!Live[i] \in BOOLEAN /\ (V!HasData[i] => V!Live[i])
<1>1. Size \in Nat /\ \A i \in 1..Size : fields[i].set \in BOOLEAN
  BY FieldsAre
<1>2. ASSUME NEW i \in 1..Size PROVE V!HasData[i] \in BOOLEAN
  BY <1>1, <1>2, HasDataIs
<1>3. ASSUME NEW i \in 1..Size PROVE V!Live[i] \in BOOLEAN /\ (V!HasData[i] => V!Live[i])
  BY <1>2, <1>3, LiveIs DEF LiveWith
<1>4. V!HasData[0] = TRUE /\ V!Live[0] = TRUE
  BY HasDataIs, LiveIs
<1>5. \A i \in 0..Size : i = 0 \/ i \in 1..Size
  BY <1>1
<1> QED BY <1>2, <1>3, <1>4, <1>5

(* What the schema requires and the tree lacks, requirement by requirement.  *)
IsANode(n) == n = 0 \/ (n \in 1..Size /\ V!IsNode(n))

LeafLacks(i) ==
  /\ i \in 1..Size
  /\ fields[i].kind \in {"leaf", "bits"} /\ fields[i].mandatory /\ ~fields[i].set
  /\ V!MayBe(i) /\ V!Live[fields[i].up] /\ V!Selected(fields[i].up, fields[i].case)
MustFails(i) == i \in 1..Size /\ V!IsNode(i) /\ fields[i].mandatory /\ V!Live[i]
WhenFails(i) == i \in 1..Size /\ V!HasData[i] /\ fields[i].when = "false"
ChoiceLacks(n, c) ==
  /\ IsANode(n) /\ c \in V!Choices(n) /\ c[1] \in RequiredChoices
  /\ V!Live[n] /\ V!Selected(n, c[2])
  /\ \A p : p[1] = c[1] => ~V!Selects(n, p)
CasesClash(n, p) ==
  IsANode(n) /\ V!Selects(n, p) /\ \E q : p[1] = q[1] /\ p[2] # q[2] /\ V!Selects(n, q)

LEMMA ExpectedIs ==
  ASSUME V!WellFormed
  PROVE  \A e : e \in V!Expected <=>
           \/ \E i : e = <<i, "leaf">> /\ LeafLacks(i)
           \/ \E i : e = <<i, "must">> /\ MustFails(i)
           \/ \E i : e = <<i, "when">> /\ WhenFails(i)
           \/ \E n, c : e = <<n, c[1]>> /\ ChoiceLacks(n, c)
           \/ \E n, p : e = <<n, p[1], "cases">> /\ CasesClash(n, p)
<1> DEFINE nodeSet == {0} \cup {i \in V!Fields : V!IsNode(i)}
           pairs == UNION {V!Pairs(fields[i].case) : i \in V!Fields}
           Lf == {<<i, "leaf">> : i \in {i \in V!Fields :
                    /\ fields[i].kind \in {"leaf", "bits"} /\ fields[i].mandatory /\ ~fields[i].set
                    /\ V!MayBe(i) /\ V!Live[fields[i].up] /\ V!Selected(fields[i].up, fields[i].case)}}
           Mu == {<<i, "must">> : i \in {i \in V!Fields : V!IsNode(i) /\ fields[i].mandatory /\ V!Live[i]}}
           Wh == {<<i, "when">> : i \in {i \in V!Fields : V!HasData[i] /\ fields[i].when = "false"}}
           ch(n) == {<<n, c[1]>> : c \in {c \in V!Choices(n) :
                      /\ c[1] \in RequiredChoices /\ V!Live[n] /\ V!Selected(n, c[2])
                      /\ ~\E p \in pairs : p[1] = c[1] /\ V!Selects(n, p)}}
           cl(n) == {<<n, p[1], "cases">> : p \in {p \in pairs :
                      V!Selects(n, p) /\ \E q \in pairs : p[1] = q[1] /\ p[2] # q[2] /\ V!Selects(n, q)}}
           Cs == UNION {ch(n) : n \in nodeSet}
           Cl == UNION {cl(n) : n \in nodeSet}
<1>1. V!Expected = Lf \cup Mu \cup Wh \cup Cs \cup Cl
  <2>1. \A e : e \in V!Expected <=> e \in Lf \/ e \in Mu \/ e \in Wh \/ e \in Cs \/ e \in Cl
    BY SMTT(60) DEF V!Expected
  <2> QED BY <2>1
<1>2. V!Fields = 1..Size /\ \A n : n \in nodeSet <=> IsANode(n)
  BY FieldsAre DEF IsANode
<1>3. \A n, p : V!Selects(n, p) => p \in pairs
  BY FieldsAre DEF V!Selects
<1>4. \A e : e \in Lf <=> \E i : e = <<i, "leaf">> /\ LeafLacks(i)
  BY <1>2 DEF LeafLacks
<1>5. \A e : e \in Mu <=> \E i : e = <<i, "must">> /\ MustFails(i)
  BY <1>2 DEF MustFails
<1>6. \A e : e \in Wh <=> \E i : e = <<i, "when">> /\ WhenFails(i)
  BY <1>2 DEF WhenFails
<1>7. \A e : e \in Cs <=> \E n, c : e = <<n, c[1]>> /\ ChoiceLacks(n, c)
  <2>1. ASSUME NEW n, n \in nodeSet, NEW c
        PROVE  (/\ c \in V!Choices(n)
                /\ c[1] \in RequiredChoices /\ V!Live[n] /\ V!Selected(n, c[2])
                /\ ~\E p \in pairs : p[1] = c[1] /\ V!Selects(n, p)) <=> ChoiceLacks(n, c)
    <3> HIDE DEF pairs, nodeSet
    <3> QED BY <1>2, <1>3, <2>1 DEF ChoiceLacks
  <2>2. \A e, n : n \in nodeSet => (e \in ch(n) <=> \E c : e = <<n, c[1]>> /\ ChoiceLacks(n, c))
    <3> HIDE DEF pairs, nodeSet
    <3> QED BY <2>1
  <2>3. \A n, c : ChoiceLacks(n, c) => n \in nodeSet
    BY <1>2 DEF ChoiceLacks
  <2> HIDE DEF nodeSet, ch
  <2> QED BY <2>2, <2>3
<1>8. \A e : e \in Cl <=> \E n, p : e = <<n, p[1], "cases">> /\ CasesClash(n, p)
  <2>1. ASSUME NEW n, n \in nodeSet, NEW p
        PROVE  (/\ p \in pairs
                /\ V!Selects(n, p)
                /\ \E q \in pairs : p[1] = q[1] /\ p[2] # q[2] /\ V!Selects(n, q)) <=> CasesClash(n, p)
    <3> HIDE DEF pairs, nodeSet
    <3> QED BY <1>2, <1>3, <2>1 DEF CasesClash
  <2>2. \A e, n : n \in nodeSet => (e \in cl(n) <=> \E p : e = <<n, p[1], "cases">> /\ CasesClash(n, p))
    <3> HIDE DEF pairs, nodeSet
    <3> QED BY <2>1
  <2>3. \A n, p : CasesClash(n, p) => n \in nodeSet
    BY <1>2 DEF CasesClash
  <2> HIDE DEF nodeSet, cl
  <2> QED BY <2>2, <2>3
<1> HIDE DEF Lf, Mu, Wh, Cs, Cl
<1> QED BY <1>1, <1>4, <1>5, <1>6, <1>7, <1>8

-----------------------------------------------------------------------------

(* The nodes the walk has been at.                                         *)
Walked == {i \in 0..Size : IsANode(i) /\ IF i = 0 THEN stage # "walk" ELSE i > at}

Right(e) == e \in V!Expected \/ e \in V!Odd

(* What is pending of an empty node is what is right if the node has to be   *)
(* there; what it guards is all that is below the guarding container.        *)
IsGuard(p) ==
  /\ p.what = <<p.what[1], "must">>
  /\ p.what[1] \in Walked \ {0} /\ fields[p.what[1]].kind = "container"
  /\ ~V!HasData[p.what[1]] /\ fields[p.what[1]].when # "none"
  /\ p.items = nodes[p.what[1]].hoisted
GuardRight(p) == fields[p.what[1]].when = "true" => V!Live[p.what[1]]

PendingRight(p) ==
  /\ p.kind = "error" => Right(p.what)
  /\ p.kind = "must" => \E i : p.what = <<i, "must">> /\ MustFails(i)
  /\ p.kind = "guarded" => GuardRight(p)

QueuedRight(c) ==
  \/ \E i : c = <<i, "must">> /\ MustFails(i)
  \/ \E i : c = <<i, "when">> /\ i \in 1..Size /\ V!HasData[i]

Sound ==
  /\ \A n \in Walked :
       /\ nodes[n].exists = V!HasData[n]
       /\ V!HasData[n] => nodes[n].hoisted = {}
       /\ \A p \in nodes[n].hoisted :
            /\ p.case = <<>>
            /\ p.kind = "guarded" => IsGuard(p)
            /\ V!Live[n] => PendingRight(p)
  /\ \A p \in deferred : p.kind = "guarded" /\ IsGuard(p) /\ GuardRight(p)
  /\ \A e \in reported : Right(e)
  /\ \A c \in queued : QueuedRight(c)

(* A guarded requirement has been looked into or is still to be.             *)
Opened(i, W) == i \in W \/ \E q \in deferred : q.what[1] = i

Handled(p, W) ==
  /\ p.kind = "error" => p.what \in reported
  /\ p.kind = "must" => p.what \in queued
  /\ p.kind = "guarded" /\ fields[p.what[1]].when = "true" => Opened(p.what[1], W)

Delivered(i, W) ==
  /\ fields[i].mandatory => <<i, "must">> \in queued
  /\ \A p \in nodes[i].hoisted : Handled(p, W)

(* All that is required in a node that exists has been seen to.              *)
EmptyIn(n, i) == i \in V!FieldsOf(n) /\ fields[i].kind = "container" /\ ~V!HasData[i]

SeenTo(n, W) ==
  /\ \A i \in V!FieldsOf(n) :
       /\ fields[i].kind = "leaf" /\ fields[i].mandatory /\ ~fields[i].set
            /\ V!Selected(n, fields[i].case) => <<i, "leaf">> \in reported
       /\ V!HasData[i] /\ V!IsNode(i) /\ fields[i].mandatory => <<i, "must">> \in queued
       /\ V!HasData[i] /\ fields[i].when # "none" => <<i, "when">> \in queued
       /\ EmptyIn(n, i) /\ V!Selected(n, fields[i].case) =>
            /\ fields[i].when = "none" => Delivered(i, W)
            /\ fields[i].when = "true" => Opened(i, W)
  /\ \A c : ChoiceLacks(n, c) => <<n, c[1]>> \in reported
  /\ \A p : CasesClash(n, p) => <<n, p[1], "cases">> \in reported

(* All that an empty node would have to have goes up, but what is in cases.   *)
HoistsAll(n) ==
  /\ \A i \in V!FieldsOf(n) : fields[i].case = <<>> =>
       /\ fields[i].kind = "leaf" /\ fields[i].mandatory /\ ~fields[i].set =>
            V!Pending(<<>>, "error", <<i, "leaf">>, {}) \in nodes[n].hoisted
       /\ EmptyIn(n, i) /\ fields[i].when = "none" =>
            /\ fields[i].mandatory => V!Pending(<<>>, "must", <<i, "must">>, {}) \in nodes[n].hoisted
            /\ \A p \in nodes[i].hoisted :
                 V!Pending(<<>>, p.kind, p.what, p.items) \in nodes[n].hoisted
       /\ EmptyIn(n, i) /\ fields[i].when # "none" =>
            V!Pending(<<>>, "guarded", <<i, "must">>, nodes[i].hoisted) \in nodes[n].hoisted
  /\ \A c : ChoiceLacks(n, c) => V!Pending(<<>>, "error", <<n, c[1]>>, {}) \in nodes[n].hoisted

Complete(W) ==
  /\ \A n \in Walked : IF V!HasData[n] THEN SeenTo(n, W) ELSE HoistsAll(n)
  /\ \A i \in W : i \in Walked \ {0} /\ Delivered(i, W)

ValidInv ==
  /\ V!WellFormed
  /\ stage \in {"walk", "resolve", "evaluate", "done"}
  /\ at \in 0..Size /\ (stage # "walk" => at = 0)
  /\ DOMAIN nodes = Walked
  /\ Sound
  /\ \E W \in SUBSET (1..Size) : Complete(W)
  /\ stage \in {"evaluate", "done"} => deferred = {}
  /\ stage = "done" => \A c \in queued : V!Fails(c) => c \in reported

(* The recursive definitions as functions of the schema.                   *)
HasDataOf(fs) ==
  CHOOSE h : h = [i \in 0..Len(fs) |->
    CASE i = 0 -> TRUE
      [] i > 0 /\ fs[i].kind \in {"leaf", "bits"} -> fs[i].set
      [] i > 0 /\ fs[i].kind = "entry" -> TRUE
      [] OTHER -> (fs[i].kind = "presence" /\ fs[i].set)
                    \/ \E j \in {j \in DOMAIN fs : fs[j].up = i} : j > i /\ h[j]]

LiveOf(fs, has) ==
  CHOOSE live : live = [i \in 0..Len(fs) |->
    IF i = 0 THEN TRUE
    ELSE has[i] \/ /\ fs[i].kind = "container"
                   /\ fs[i].when \in {"none", "true"}
                   /\ fs[i].up < i /\ live[fs[i].up]
                   /\ \A pair \in {fs[i].case[k] : k \in DOMAIN fs[i].case} :
                        \E j \in {j \in DOMAIN fs : fs[j].up = fs[i].up} :
                          has[j] /\ pair \in {fs[j].case[k] : k \in DOMAIN fs[j].case}]

(* What a step that keeps the schema keeps.                                *)
LEMMA SchemaKept ==
  ASSUME fields' = fields
  PROVE  /\ V!WellFormed' = V!WellFormed /\ Size' = Size
         /\ V!HasData' = V!HasData /\ V!Live' = V!Live
         /\ \A n : V!FieldsOf(n)' = V!FieldsOf(n) /\ V!IsNode(n)' = V!IsNode(n) /\ IsANode(n)' = IsANode(n)
         /\ \A n, c : V!Selected(n, c)' = V!Selected(n, c) /\ V!Selects(n, c)' = V!Selects(n, c)
         /\ \A n, i : EmptyIn(n, i)' = EmptyIn(n, i)
         /\ \A i : MustFails(i)' = MustFails(i)
         /\ \A n, c : ChoiceLacks(n, c)' = ChoiceLacks(n, c) /\ CasesClash(n, c)' = CasesClash(n, c)
         /\ V!Expected' = V!Expected /\ V!Odd' = V!Odd /\ \A e : Right(e)' = Right(e)
         /\ \A c : V!Fails(c)' = V!Fails(c)
<1>1. V!WellFormed' = V!WellFormed /\ Size' = Size /\ V!Fields' = V!Fields
  BY DEF V!WellFormed, V!Fields, V!IsNode, V!Pairs, Size
<1>2. /\ \A n : V!FieldsOf(n)' = V!FieldsOf(n) /\ V!IsNode(n)' = V!IsNode(n) /\ V!MayBe(n)' = V!MayBe(n)
      /\ \A n : V!Choices(n)' = V!Choices(n)
      /\ \A c : V!Pairs(c)' = V!Pairs(c)
  BY <1>1 DEF V!FieldsOf, V!Fields, V!IsNode, V!MayBe, V!Choices, V!Pairs
<1>3. V!HasData' = V!HasData
  <2>1. V!HasData = HasDataOf(fields)
    BY Zenon DEF V!HasData, V!FieldsOf, V!Fields, HasDataOf
  <2>2. V!HasData' = HasDataOf(fields')
    BY Zenon DEF V!HasData, V!FieldsOf, V!Fields, HasDataOf
  <2> QED BY <2>1, <2>2
<1>4. \A n, p : V!Selects(n, p)' = V!Selects(n, p)
  BY <1>2, <1>3 DEF V!Selects
<1>5. \A n, c : V!Selected(n, c)' = V!Selected(n, c)
  BY <1>2, <1>4 DEF V!Selected
<1>6. V!Live' = V!Live
  <2>1. V!Live = LiveOf(fields, V!HasData)
    BY Zenon DEF V!Live, V!FieldsOf, V!Fields, V!MayBe, V!Selected, V!Selects, V!Pairs, LiveOf
  <2>2. V!Live' = LiveOf(fields', V!HasData')
    BY Zenon DEF V!Live, V!FieldsOf, V!Fields, V!MayBe, V!Selected, V!Selects, V!Pairs, LiveOf
  <2> QED BY <1>3, <2>1, <2>2
<1>7. \A n : IsANode(n)' = IsANode(n)
  BY <1>1, <1>2 DEF IsANode
<1>8. \A n, i : EmptyIn(n, i)' = EmptyIn(n, i)
  BY <1>2, <1>3 DEF EmptyIn
<1>9. \A i : MustFails(i)' = MustFails(i)
  BY <1>1, <1>2, <1>6 DEF MustFails
<1>10. \A n, c : ChoiceLacks(n, c)' = ChoiceLacks(n, c) /\ CasesClash(n, c)' = CasesClash(n, c)
  BY <1>2, <1>4, <1>5, <1>6, <1>7 DEF ChoiceLacks, CasesClash
<1>11. V!Expected' = V!Expected
  BY <1>1, <1>2, <1>3, <1>4, <1>5, <1>6 DEF V!Expected
<1>12. V!Odd' = V!Odd
  BY <1>1 DEF V!Odd
<1>13. \A e : Right(e)' = Right(e)
  BY <1>11, <1>12 DEF Right
<1>14. \A c : V!Fails(c)' = V!Fails(c)
  BY DEF V!Fails
<1> QED BY <1>1, <1>2, <1>3, <1>4, <1>5, <1>6, <1>7, <1>8, <1>9, <1>10, <1>11, <1>12, <1>13, <1>14

LEMMA ValidInit == ASSUME ValidStart PROVE ValidInv
<1>1. Size \in Nat /\ at = Size /\ stage = "walk" /\ nodes = <<>> /\ deferred = {} /\ queued = {} /\ reported = {}
  BY FieldsAre DEF ValidStart, V!InitWith, Size
<1>2. Walked = {}
  BY <1>1 DEF Walked
<1>3. DOMAIN nodes = {}
  BY <1>1
<1>4. Complete({})
  BY <1>2 DEF Complete
<1>5. Sound
  BY <1>1, <1>2 DEF Sound
<1>6. {} \in SUBSET (1..Size) /\ V!WellFormed
  BY DEF ValidStart
<1> QED BY <1>1, <1>2, <1>3, <1>4, <1>5, <1>6 DEF ValidInv

-----------------------------------------------------------------------------
(* The walk of a node, from what is known of those below                   *)

AtNode == ValidInv /\ stage = "walk" /\ IsANode(at)

LEMMA BelowAt ==
  ASSUME AtNode
  PROVE  /\ at \in 0..Size /\ Size \in Nat /\ at \notin Walked
         /\ \A i \in V!FieldsOf(at) :
              /\ i \in 1..Size /\ fields[i].up = at
              /\ V!IsNode(i) => i \in Walked \ {0}
              /\ V!FieldSet(i) = V!HasData[i]
         /\ \A pair : pair \in V!Active(at) <=> V!Selects(at, pair)
         /\ \A c : V!Pairs(c) \subseteq V!Active(at) <=> V!Selected(at, c)
         /\ (V!Forced(at) \/ \E i \in V!FieldsOf(at) : V!FieldSet(i)) = V!HasData[at]
<1>1. V!WellFormed /\ at \in 0..Size /\ stage = "walk" /\ IsANode(at) /\ DOMAIN nodes = Walked /\ Sound
  BY DEF AtNode, ValidInv
<1>2. Size \in Nat /\ at \notin Walked
  BY <1>1, FieldsAre DEF Walked
<1>3. ASSUME NEW i \in V!FieldsOf(at)
      PROVE  /\ i \in 1..Size /\ fields[i].up = at
             /\ V!IsNode(i) => i \in Walked \ {0}
             /\ V!FieldSet(i) = V!HasData[i]
  <2>1. i \in 1..Size /\ fields[i].up = at /\ i > at
    BY <1>1, FieldsAre
  <2>2. V!IsNode(i) => i \in Walked \ {0}
    BY <1>1, <2>1 DEF Walked, IsANode
  <2>3. CASE V!IsNode(i)
    <3>1. V!FieldSet(i) = nodes[i].exists
      BY <2>3 DEF V!FieldSet
    <3>2. nodes[i].exists = V!HasData[i]
      BY <1>1, <2>2, <2>3 DEF Sound
    <3> QED BY <2>1, <2>2, <3>1, <3>2
  <2>4. CASE ~V!IsNode(i)
    <3>1. fields[i].kind \in {"leaf", "bits"}
      BY <1>1, <2>1, <2>4, FieldsAre DEF V!IsNode
    <3>2. V!HasData[i] = fields[i].set
      BY <1>1, <2>1, <3>1, HasDataIs
    <3> QED BY <2>1, <2>2, <2>4, <3>2 DEF V!FieldSet
  <2> QED BY <2>1, <2>2, <2>3, <2>4
<1>4. \A pair : pair \in V!Active(at) <=> V!Selects(at, pair)
  BY <1>3 DEF V!Active, V!Selects
<1>5. \A c : V!Pairs(c) \subseteq V!Active(at) <=> V!Selected(at, c)
  BY <1>4 DEF V!Selected
<1>6. (V!Forced(at) \/ \E i \in V!FieldsOf(at) : V!FieldSet(i)) = V!HasData[at]
  <2>1. (\E i \in V!FieldsOf(at) : V!FieldSet(i)) = (\E i \in V!FieldsOf(at) : V!HasData[i])
    BY <1>3
  <2>2. CASE at = 0
    BY <1>1, <2>2, HasDataIs DEF V!Forced
  <2>3. CASE at # 0
    <3>1. at \in 1..Size /\ fields[at].kind \in {"container", "presence", "entry"} /\ fields[at].set \in BOOLEAN
      BY <1>1, <2>3, FieldsAre DEF IsANode, V!IsNode
    <3>2. V!HasData[at] =
              CASE fields[at].kind \in {"leaf", "bits"} -> fields[at].set
                [] fields[at].kind = "entry" -> TRUE
                [] OTHER -> (fields[at].kind = "presence" /\ fields[at].set)
                              \/ \E j \in V!FieldsOf(at) : V!HasData[j]
      BY <1>1, <3>1, HasDataIs
    <3>3. CASE fields[at].kind = "entry"
      BY <3>2, <3>3 DEF V!Forced
    <3>4. CASE fields[at].kind \in {"container", "presence"}
      <4>1. V!HasData[at] = ((fields[at].kind = "presence" /\ fields[at].set)
                              \/ \E j \in V!FieldsOf(at) : V!HasData[j])
        BY <3>2, <3>4
      <4>2. V!Forced(at) <=> fields[at].kind = "presence" /\ fields[at].set
        BY <2>3, <3>4 DEF V!Forced
      <4> QED BY <2>1, <4>1, <4>2
    <3> QED BY <3>1, <3>3, <3>4
  <2> QED BY <2>2, <2>3
<1> QED BY <1>1, <1>2, <1>3, <1>4, <1>5, <1>6

(* What is pending there.                                                  *)
PendingLeaf(n, p) ==
  \E i \in V!FieldsOf(n) :
    /\ fields[i].kind = "leaf" /\ fields[i].mandatory /\ ~fields[i].set
    /\ p = V!Pending(fields[i].case, "error", <<i, "leaf">>, {})
PendingBelow(n, p) ==
  \E i \in V!FieldsOf(n) :
    /\ EmptyIn(n, i)
    /\ IF fields[i].when # "none"
       THEN p = V!Pending(fields[i].case, "guarded", <<i, "must">>, nodes[i].hoisted)
       ELSE \/ \E q \in nodes[i].hoisted : p = V!Pending(fields[i].case, q.kind, q.what, q.items)
            \/ fields[i].mandatory /\ p = V!Pending(fields[i].case, "must", <<i, "must">>, {})
PendingChoice(n, p) ==
  \E c \in V!Choices(n) :
    /\ c[1] \in RequiredChoices /\ \A pair : pair[1] = c[1] => ~V!Selects(n, pair)
    /\ p = V!Pending(c[2], "error", <<n, c[1]>>, {})

LEMMA PendingAre ==
  ASSUME AtNode
  PROVE  \A p : p \in V!PendingOf(at) <=> PendingLeaf(at, p) \/ PendingBelow(at, p) \/ PendingChoice(at, p)
<1>1. V!WellFormed
  BY DEF AtNode, ValidInv
<1>2. \A i \in V!FieldsOf(at) : /\ fields[i].mandatory \in BOOLEAN /\ fields[i].set \in BOOLEAN
                                /\ V!FieldSet(i) = V!HasData[i]
  BY <1>1, FieldsAre, BelowAt
<1>3. ASSUME NEW p, NEW i \in V!FieldsOf(at)
      PROVE  p \in V!PendingField(i) <=>
               \/ /\ fields[i].kind = "leaf" /\ fields[i].mandatory /\ ~fields[i].set
                  /\ p = V!Pending(fields[i].case, "error", <<i, "leaf">>, {})
               \/ /\ EmptyIn(at, i)
                  /\ p \in V!HoistedHere(i)
  <2>1. CASE fields[i].kind = "container"
    BY <1>2, <2>1 DEF V!PendingField, EmptyIn
  <2>2. CASE fields[i].kind # "container"
    BY <1>2, <2>2 DEF V!PendingField, EmptyIn
  <2> QED BY <2>1, <2>2
<1>4. ASSUME NEW p, NEW i
      PROVE  p \in V!HoistedHere(i) <=>
               IF fields[i].when # "none"
               THEN p = V!Pending(fields[i].case, "guarded", <<i, "must">>, nodes[i].hoisted)
               ELSE \/ \E q \in nodes[i].hoisted : p = V!Pending(fields[i].case, q.kind, q.what, q.items)
                    \/ fields[i].mandatory /\ p = V!Pending(fields[i].case, "must", <<i, "must">>, {})
  BY DEF V!HoistedHere
<1>5. \A p : p \in V!PendingChoices(at) <=> PendingChoice(at, p)
  <2>1. \A c : (\E pair \in V!Active(at) : pair[1] = c[1]) <=> ~\A pair : pair[1] = c[1] => ~V!Selects(at, pair)
    BY BelowAt
  <2> QED BY <2>1 DEF V!PendingChoices, PendingChoice
<1>6. \A p : p \in V!PendingOf(at) <=> (\E i \in V!FieldsOf(at) : p \in V!PendingField(i)) \/ p \in V!PendingChoices(at)
  BY DEF V!PendingOf
<1>7. \A p : (\E i \in V!FieldsOf(at) : p \in V!PendingField(i)) <=> PendingLeaf(at, p) \/ PendingBelow(at, p)
  BY <1>3, <1>4 DEF PendingLeaf, PendingBelow
<1> QED BY <1>5, <1>6, <1>7

(* If the node has to be there, what applies of that is right.              *)
LEMMA PendingIsRight ==
  ASSUME AtNode, NEW p, p \in V!PendingOf(at)
  PROVE  /\ p.kind = "guarded" => IsGuard(p)
         /\ V!Live[at] /\ V!Selected(at, p.case) => PendingRight(p)
<1>1. V!WellFormed /\ Sound
  BY DEF AtNode, ValidInv
<1>2. \A i \in V!FieldsOf(at) : i \in 1..Size /\ fields[i].up = at /\ (V!IsNode(i) => i \in Walked \ {0})
  BY BelowAt
<1>3. CASE PendingLeaf(at, p)
  <2>1. PICK i \in V!FieldsOf(at) :
          /\ fields[i].kind = "leaf" /\ fields[i].mandatory /\ ~fields[i].set
          /\ p = V!Pending(fields[i].case, "error", <<i, "leaf">>, {})
    BY <1>3 DEF PendingLeaf
  <2>2. p.kind = "error" /\ p.what = <<i, "leaf">> /\ p.case = fields[i].case
    BY <2>1 DEF V!Pending
  <2>3. ASSUME V!Live[at], V!Selected(at, p.case) PROVE Right(p.what)
    <3>1. CASE fields[i].when = "none"
      <4>1. LeafLacks(i)
        BY <1>2, <2>1, <2>2, <2>3, <3>1 DEF LeafLacks, V!MayBe
      <4> QED BY <1>1, <2>2, <4>1, ExpectedIs DEF Right
    <3>2. CASE fields[i].when # "none"
      <4>1. <<i, "leaf">> \in V!Odd
        BY <1>1, <1>2, <3>2, FieldsAre DEF V!Odd
      <4> QED BY <2>2, <4>1 DEF Right
    <3> QED BY <3>1, <3>2
  <2> QED BY <2>2, <2>3 DEF PendingRight
<1>4. CASE PendingBelow(at, p)
  <2>1. PICK i \in V!FieldsOf(at) :
          /\ EmptyIn(at, i)
          /\ IF fields[i].when # "none"
             THEN p = V!Pending(fields[i].case, "guarded", <<i, "must">>, nodes[i].hoisted)
             ELSE \/ \E q \in nodes[i].hoisted : p = V!Pending(fields[i].case, q.kind, q.what, q.items)
                  \/ fields[i].mandatory /\ p = V!Pending(fields[i].case, "must", <<i, "must">>, {})
    BY <1>4 DEF PendingBelow
  <2>2. i \in Walked \ {0} /\ i \in 1..Size /\ fields[i].up = at /\ fields[i].kind = "container" /\ ~V!HasData[i]
          /\ V!IsNode(i)
    BY <1>2, <2>1 DEF EmptyIn, V!IsNode
  <2>3. V!Live[at] /\ V!Selected(at, fields[i].case) /\ V!MayBe(i) => V!Live[i]
    BY <1>1, <2>2, LiveIs DEF LiveWith
  <2>4. CASE fields[i].when # "none"
    <3>1. p.kind = "guarded" /\ p.what = <<i, "must">> /\ p.what[1] = i /\ p.items = nodes[i].hoisted
            /\ p.case = fields[i].case
      BY <2>1, <2>4 DEF V!Pending
    <3>2. IsGuard(p)
      BY <2>2, <2>4, <3>1 DEF IsGuard
    <3>3. V!Live[at] /\ V!Selected(at, p.case) => GuardRight(p)
      BY <2>3, <3>1 DEF GuardRight, V!MayBe
    <3> QED BY <3>1, <3>2, <3>3 DEF PendingRight
  <2>5. CASE fields[i].when = "none" /\ \E q \in nodes[i].hoisted :
               p = V!Pending(fields[i].case, q.kind, q.what, q.items)
    <3>1. PICK q \in nodes[i].hoisted : p = V!Pending(fields[i].case, q.kind, q.what, q.items)
      BY <2>5
    <3>2. p.kind = q.kind /\ p.what = q.what /\ p.items = q.items /\ p.case = fields[i].case
      BY <3>1 DEF V!Pending
    <3>3. (q.kind = "guarded" => IsGuard(q)) /\ (V!Live[i] => PendingRight(q))
      BY <1>1, <2>2 DEF Sound
    <3>4. IsGuard(q) => IsGuard(p)
      BY <3>2 DEF IsGuard
    <3>5. PendingRight(q) => PendingRight(p)
      BY <3>2 DEF PendingRight, GuardRight
    <3>6. V!MayBe(i)
      BY <2>5 DEF V!MayBe
    <3> QED BY <2>3, <3>2, <3>3, <3>4, <3>5, <3>6
  <2>6. CASE fields[i].when = "none" /\ fields[i].mandatory
               /\ p = V!Pending(fields[i].case, "must", <<i, "must">>, {})
    <3>1. p.kind = "must" /\ p.what = <<i, "must">> /\ p.case = fields[i].case
      BY <2>6 DEF V!Pending
    <3>2. V!Live[at] /\ V!Selected(at, p.case) => MustFails(i)
      BY <2>2, <2>3, <2>6, <3>1 DEF MustFails, V!MayBe
    <3> QED BY <3>1, <3>2 DEF PendingRight
  <2> QED BY <2>1, <2>4, <2>5, <2>6
<1>5. CASE PendingChoice(at, p)
  <2>1. PICK c \in V!Choices(at) :
          /\ c[1] \in RequiredChoices /\ \A pair : pair[1] = c[1] => ~V!Selects(at, pair)
          /\ p = V!Pending(c[2], "error", <<at, c[1]>>, {})
    BY <1>5 DEF PendingChoice
  <2>2. p.kind = "error" /\ p.what = <<at, c[1]>> /\ p.case = c[2]
    BY <2>1 DEF V!Pending
  <2>3. V!Live[at] /\ V!Selected(at, p.case) => ChoiceLacks(at, c)
    BY <2>1, <2>2 DEF ChoiceLacks, AtNode
  <2>4. V!Live[at] /\ V!Selected(at, p.case) => p.what \in V!Expected
    BY <1>1, <2>2, <2>3, ExpectedIs
  <2> QED BY <2>2, <2>4 DEF PendingRight, Right
<1> QED BY <1>3, <1>4, <1>5, PendingAre

-----------------------------------------------------------------------------
(* What is kept as the walk, and what comes after it, adds to the report    *)

(* The nodes walked are walked from the last to the root.                    *)
LEMMA BelowWalked ==
  ASSUME ValidInv, NEW n \in Walked, NEW i \in V!FieldsOf(n), V!IsNode(i)
  PROVE  i \in Walked \ {0}
<1>1. V!WellFormed /\ at \in 0..Size /\ (stage # "walk" => at = 0)
  BY DEF ValidInv
<1>2. n \in 0..Size /\ i \in 1..Size /\ fields[i].up = n /\ fields[i].up < i /\ Size \in Nat
  BY <1>1, FieldsAre DEF Walked
<1>3. i > at
  BY <1>1, <1>2 DEF Walked
<1> QED BY <1>2, <1>3 DEF Walked, IsANode

Grown ==
  /\ fields' = fields
  /\ Walked \subseteq Walked' /\ \A n \in Walked : nodes'[n] = nodes[n]
  /\ reported \subseteq reported' /\ queued \subseteq queued'

StillOpened(W, U) == \A i : fields[i].when = "true" /\ Opened(i, W) => Opened(i, U)'

LEMMA GuardsKept == ASSUME Grown, NEW p, IsGuard(p) PROVE IsGuard(p)'
<1>1. V!HasData' = V!HasData /\ fields' = fields
  BY SchemaKept DEF Grown
<1> QED BY <1>1 DEF IsGuard, Grown

LEMMA RightKept ==
  ASSUME Grown
  PROVE  /\ \A p : PendingRight(p)' = PendingRight(p) /\ GuardRight(p)' = GuardRight(p)
         /\ \A c : QueuedRight(c)' = QueuedRight(c)
<1>1. /\ V!HasData' = V!HasData /\ V!Live' = V!Live /\ fields' = fields /\ Size' = Size
      /\ \A e : Right(e)' = Right(e)
      /\ \A i : MustFails(i)' = MustFails(i)
  BY SchemaKept DEF Grown
<1>2. \A p : GuardRight(p)' = GuardRight(p)
  BY <1>1 DEF GuardRight
<1>3. \A p : PendingRight(p)' = PendingRight(p)
  BY <1>1, <1>2 DEF PendingRight
<1>4. \A c : QueuedRight(c)' = QueuedRight(c)
  BY <1>1 DEF QueuedRight
<1> QED BY <1>2, <1>3, <1>4

LEMMA DeliveredKept ==
  ASSUME Grown, NEW W, NEW U, StillOpened(W, U)
  PROVE  \A i \in Walked : Delivered(i, W) => Delivered(i, U)'
<1>1. ASSUME NEW p, Handled(p, W) PROVE Handled(p, U)'
  BY <1>1 DEF Grown, StillOpened, Handled
<1> QED BY <1>1 DEF Grown, Delivered

LEMMA SeenToKept ==
  ASSUME ValidInv, Grown, NEW W, NEW U, StillOpened(W, U), NEW n \in Walked
  PROVE  SeenTo(n, W) => SeenTo(n, U)'
<1>1. /\ fields' = fields /\ V!HasData' = V!HasData
      /\ V!FieldsOf(n)' = V!FieldsOf(n)
      /\ \A i : V!IsNode(i)' = V!IsNode(i) /\ EmptyIn(n, i)' = EmptyIn(n, i)
      /\ \A c : V!Selected(n, c)' = V!Selected(n, c)
      /\ \A c : ChoiceLacks(n, c)' = ChoiceLacks(n, c) /\ CasesClash(n, c)' = CasesClash(n, c)
  BY SchemaKept DEF Grown
<1>2. \A i : EmptyIn(n, i) => i \in Walked /\ i \in V!FieldsOf(n)
  BY BelowWalked DEF EmptyIn, V!IsNode
<1>3. reported \subseteq reported' /\ queued \subseteq queued'
  BY DEF Grown
<1> SUFFICES ASSUME SeenTo(n, W) PROVE SeenTo(n, U)'
  OBVIOUS
<1>4. ASSUME NEW i \in V!FieldsOf(n)'
      PROVE  /\ (fields[i].kind = "leaf" /\ fields[i].mandatory /\ ~fields[i].set
                   /\ V!Selected(n, fields[i].case) => <<i, "leaf">> \in reported)'
             /\ (V!HasData[i] /\ V!IsNode(i) /\ fields[i].mandatory => <<i, "must">> \in queued)'
             /\ (V!HasData[i] /\ fields[i].when # "none" => <<i, "when">> \in queued)'
  BY <1>1, <1>3, <1>4 DEF SeenTo
<1>5. ASSUME NEW i \in V!FieldsOf(n)', EmptyIn(n, i)', V!Selected(n, fields[i].case)'
      PROVE  /\ (fields[i].when = "none" => Delivered(i, U))'
             /\ (fields[i].when = "true" => Opened(i, U))'
  <2>1. EmptyIn(n, i) /\ V!Selected(n, fields[i].case) /\ i \in V!FieldsOf(n)
    BY <1>1, <1>5
  <2>2. (fields[i].when = "none" => Delivered(i, W)) /\ (fields[i].when = "true" => Opened(i, W))
    BY <2>1 DEF SeenTo
  <2> QED BY <1>1, <1>2, <2>1, <2>2, DeliveredKept DEF StillOpened
<1>6. \A c : ChoiceLacks(n, c)' => <<n, c[1]>> \in reported'
  BY <1>1, <1>3 DEF SeenTo
<1>7. \A p : CasesClash(n, p)' => <<n, p[1], "cases">> \in reported'
  BY <1>1, <1>3 DEF SeenTo
<1> QED BY <1>4, <1>5, <1>6, <1>7 DEF SeenTo

LEMMA HoistsAllKept ==
  ASSUME ValidInv, Grown, NEW n \in Walked
  PROVE  HoistsAll(n) => HoistsAll(n)'
<1>1. /\ fields' = fields /\ nodes'[n] = nodes[n]
      /\ V!FieldsOf(n)' = V!FieldsOf(n)
      /\ \A i : EmptyIn(n, i)' = EmptyIn(n, i)
      /\ \A c : ChoiceLacks(n, c)' = ChoiceLacks(n, c)
  BY SchemaKept DEF Grown
<1>2. \A i : EmptyIn(n, i) => nodes'[i] = nodes[i]
  BY BelowWalked DEF EmptyIn, V!IsNode, Grown
<1> QED BY <1>1, <1>2 DEF HoistsAll, V!Pending

LEMMA CompleteKept ==
  ASSUME ValidInv, Grown, NEW W, NEW U, StillOpened(W, U), Complete(W), W \subseteq U,
         \A n \in Walked' \ Walked : (IF V!HasData[n] THEN SeenTo(n, U) ELSE HoistsAll(n))',
         \A i \in U \ W : i \in Walked \ {0} /\ Delivered(i, U)'
  PROVE  Complete(U)'
<1>1. V!HasData' = V!HasData /\ Walked \subseteq Walked'
  BY SchemaKept DEF Grown
<1>2. ASSUME NEW n \in Walked PROVE (IF V!HasData[n] THEN SeenTo(n, U) ELSE HoistsAll(n))'
  <2>1. IF V!HasData[n] THEN SeenTo(n, W) ELSE HoistsAll(n)
    BY DEF Complete
  <2>2. CASE V!HasData[n]
    <3>1. SeenTo(n, U)'
      BY <2>1, <2>2, SeenToKept
    <3> QED BY <1>1, <2>2, <3>1
  <2>3. CASE ~V!HasData[n]
    <3>1. HoistsAll(n)'
      BY <2>1, <2>3, HoistsAllKept
    <3> QED BY <1>1, <2>3, <3>1
  <2> QED BY <2>2, <2>3
<1>3. ASSUME NEW i \in U PROVE i \in Walked \ {0} /\ Delivered(i, U)'
  <2>1. CASE i \in W
    BY <2>1, DeliveredKept DEF Complete
  <2> QED BY <1>3, <2>1
<1> QED BY <1>1, <1>2, <1>3 DEF Complete

-----------------------------------------------------------------------------
(* The walk of a node                                                      *)

AtStep ==
  /\ AtNode /\ V!WalkNode(at)
  /\ IF at = 0 THEN stage' = "resolve" /\ at' = at ELSE at' = at - 1 /\ stage' = stage
  /\ fields' = fields

(* What of the pending requirements is due.                                *)
Due(p) == p \in V!PendingOf(at) /\ V!HasData[at] /\ V!Selected(at, p.case)

LEMMA WalkNodeDoes ==
  ASSUME AtStep
  PROVE  /\ Walked' = Walked \cup {at}
         /\ DOMAIN nodes' = Walked' /\ \A n \in Walked : nodes'[n] = nodes[n]
         /\ nodes'[at].exists = V!HasData[at]
         /\ V!HasData[at] => nodes'[at].hoisted = {}
         /\ ~V!HasData[at] => \A p : p \in nodes'[at].hoisted <=> p \in V!PendingOf(at) /\ p.case = <<>>
         /\ \A e : e \in reported' <=>
              \/ e \in reported
              \/ \E p : Due(p) /\ p.kind = "error" /\ e = p.what
              \/ e \in V!Clashes(at)
         /\ \A c : c \in queued' <=>
              \/ c \in queued
              \/ c \in V!Constraints(at)
              \/ \E p : Due(p) /\ p.kind = "must" /\ c = p.what
         /\ \A p : p \in deferred' <=> p \in deferred \/ (Due(p) /\ p.kind = "guarded")
<1>1. /\ V!WellFormed /\ at \in 0..Size /\ Size \in Nat /\ stage = "walk" /\ IsANode(at) /\ DOMAIN nodes = Walked
      /\ at \notin Walked
  BY BelowAt DEF AtStep, AtNode, ValidInv
<1>2. /\ Size' = Size
      /\ \A n : IsANode(n)' = IsANode(n)
  BY SchemaKept DEF AtStep
<1>3. Walked' = Walked \cup {at}
  <2>1. \A i \in 0..Size : (i \in Walked) <=> IsANode(i) /\ i # 0 /\ i > at
    BY <1>1 DEF Walked
  <2>2. \A i \in 0..Size : (i \in Walked') <=> IsANode(i) /\ (i > at \/ i = at)
    BY <1>1, <1>2 DEF Walked, AtStep
  <2>3. Walked \subseteq 0..Size /\ Walked' \subseteq 0..Size
    BY <1>2 DEF Walked
  <2>4. \A i \in 0..Size : IsANode(i) /\ i > at => i # 0
    BY <1>1
  <2>5. \A i \in 0..Size : i \in Walked' <=> i \in Walked \cup {at}
    BY <1>1, <2>1, <2>2, <2>4
  <2> HIDE DEF Walked
  <2> QED BY <1>1, <2>3, <2>5
<1> DEFINE exists == V!Forced(at) \/ \E i \in V!FieldsOf(at) : V!FieldSet(i)
           due == IF exists THEN {p \in V!PendingOf(at) : V!Applies(at, p)} ELSE {}
<1>4. exists = V!HasData[at] /\ V!HasData[at] \in BOOLEAN
  BY <1>1, BelowAt, HasDataIsBoolean DEF AtStep
<1>5. /\ nodes' = [i \in DOMAIN nodes \cup {at} |->
                    IF i = at THEN [exists |-> exists,
                                    hoisted |-> IF exists THEN {} ELSE V!Hoist(V!PendingOf(at))]
                    ELSE nodes[i]]
      /\ reported' = reported \cup V!What(V!Kind(due, "error")) \cup V!Clashes(at)
      /\ queued'   = queued \cup V!Constraints(at) \cup V!What(V!Kind(due, "must"))
      /\ deferred' = deferred \cup V!Kind(due, "guarded")
  BY DEF AtStep, V!WalkNode
<1>6. \A p : p \in due <=> Due(p)
  BY <1>4, BelowAt DEF Due, V!Applies, AtStep
<1> HIDE DEF exists, due
<1>7. DOMAIN nodes' = Walked' /\ \A n \in Walked : nodes'[n] = nodes[n]
  BY <1>1, <1>3, <1>5
<1>8. nodes'[at] = [exists |-> exists, hoisted |-> IF exists THEN {} ELSE V!Hoist(V!PendingOf(at))]
  BY <1>5
<1>9. \A p : p \in V!Hoist(V!PendingOf(at)) <=> p \in V!PendingOf(at) /\ p.case = <<>>
  BY DEF V!Hoist
<1>10. \A k, e : e \in V!What(V!Kind(due, k)) <=> \E p : Due(p) /\ p.kind = k /\ e = p.what
  BY <1>6 DEF V!What, V!Kind
<1>11. \A p : p \in V!Kind(due, "guarded") <=> Due(p) /\ p.kind = "guarded"
  BY <1>6 DEF V!Kind
<1>12. nodes'[at].exists = V!HasData[at] /\ (V!HasData[at] => nodes'[at].hoisted = {})
         /\ (~V!HasData[at] => \A p : p \in nodes'[at].hoisted <=> p \in V!PendingOf(at) /\ p.case = <<>>)
  BY <1>4, <1>8, <1>9
<1>13. \A e : e \in reported' <=>
              \/ e \in reported
              \/ \E p : Due(p) /\ p.kind = "error" /\ e = p.what
              \/ e \in V!Clashes(at)
  BY <1>5, <1>10
<1>14. \A c : c \in queued' <=>
              \/ c \in queued
              \/ c \in V!Constraints(at)
              \/ \E p : Due(p) /\ p.kind = "must" /\ c = p.what
  BY <1>5, <1>10
<1>15. \A p : p \in deferred' <=> p \in deferred \/ (Due(p) /\ p.kind = "guarded")
  BY <1>5, <1>11
<1> QED BY <1>3, <1>7, <1>12, <1>13, <1>14, <1>15

(* The fields of a node that has no data have none.                          *)
LEMMA EmptyBelow ==
  ASSUME V!WellFormed, NEW n, IsANode(n), ~V!HasData[n]
  PROVE  /\ \A i \in V!FieldsOf(n) : ~V!HasData[i]
         /\ \A p : ~V!Selects(n, p)
         /\ \A c : V!Selected(n, c) => V!Pairs(c) = {}
<1>1. n \in 1..Size /\ fields[n].kind \in {"container", "presence", "entry"} /\ fields[n].set \in BOOLEAN
  BY FieldsAre, HasDataIs DEF IsANode, V!IsNode
<1>2. V!HasData[n] =
              CASE fields[n].kind \in {"leaf", "bits"} -> fields[n].set
                [] fields[n].kind = "entry" -> TRUE
                [] OTHER -> (fields[n].kind = "presence" /\ fields[n].set)
                              \/ \E j \in V!FieldsOf(n) : V!HasData[j]
  BY <1>1, HasDataIs
<1>3. ~\E j \in V!FieldsOf(n) : V!HasData[j]
  BY <1>1, <1>2
<1>4. \A p : ~V!Selects(n, p)
  BY <1>3 DEF V!Selects
<1> QED BY <1>3, <1>4 DEF V!Selected

(* A chain of no pairs is the empty one.                                    *)
LEMMA EmptyChain ==
  ASSUME NEW S, NEW chain \in Seq(S), V!Pairs(chain) = {}
  PROVE  chain = <<>>
<1>1. Len(chain) \in Nat /\ DOMAIN chain = 1..Len(chain)
  OBVIOUS
<1>2. DOMAIN chain = {}
  BY DEF V!Pairs
<1>3. Len(chain) = 0
  BY <1>1, <1>2
<1> QED BY <1>3, EmptySeq

LEMMA ChainsAre ==
  ASSUME V!WellFormed, NEW n
  PROVE  /\ \A i \in V!FieldsOf(n) : V!Pairs(fields[i].case) = {} => fields[i].case = <<>>
         /\ \A c \in V!Choices(n) : V!Pairs(c[2]) = {} => c[2] = <<>>
<1>1. \A i \in V!FieldsOf(n) : fields[i].case \in Seq(V!Pairs(fields[i].case))
  BY DEF V!WellFormed, V!FieldsOf, V!Fields
<1>2. ASSUME NEW i \in V!FieldsOf(n), V!Pairs(fields[i].case) = {} PROVE fields[i].case = <<>>
  BY <1>1, <1>2, EmptyChain
<1>3. ASSUME NEW c \in V!Choices(n), V!Pairs(c[2]) = {} PROVE c[2] = <<>>
  <2>1. PICK i \in V!FieldsOf(n) :
          \E k \in DOMAIN fields[i].case : c = <<fields[i].case[k][1], SubSeq(fields[i].case, 1, k - 1)>>
    BY <1>3 DEF V!Choices
  <2>2. PICK k \in DOMAIN fields[i].case : c = <<fields[i].case[k][1], SubSeq(fields[i].case, 1, k - 1)>>
    BY <2>1
  <2> DEFINE S == V!Pairs(fields[i].case)
  <2>3. fields[i].case \in Seq(S)
    BY <1>1
  <2> HIDE DEF S
  <2>4. k \in 1..Len(fields[i].case) /\ Len(fields[i].case) \in Nat
    BY <2>2, <2>3
  <2>5. \A j \in 1..(k - 1) : fields[i].case[j] \in S
    BY <2>3, <2>4
  <2>6. c[2] \in Seq(S)
    BY <2>2, <2>3, <2>4, <2>5, SubSeqProperties
  <2> QED BY <1>3, <2>6, EmptyChain
<1> QED BY <1>2, <1>3

LEMMA WalkGrows == ASSUME AtStep PROVE Grown
BY WalkNodeDoes DEF Grown, AtStep

LEMMA WalkStaysSound == ASSUME AtStep PROVE Sound'
<1>1. V!WellFormed /\ Sound /\ AtNode /\ at \in 0..Size /\ IsANode(at)
  BY DEF AtStep, AtNode, ValidInv
<1>2. /\ V!HasData' = V!HasData /\ V!Live' = V!Live
      /\ \A e : Right(e)' = Right(e)
  BY SchemaKept DEF AtStep
<1>3. /\ \A p : IsGuard(p) => IsGuard(p)'
      /\ \A p : PendingRight(p)' = PendingRight(p) /\ GuardRight(p)' = GuardRight(p)
      /\ \A c : QueuedRight(c)' = QueuedRight(c)
  BY WalkGrows, GuardsKept, RightKept
<1>4. V!HasData[at] \in BOOLEAN /\ (V!HasData[at] => V!Live[at])
  BY <1>1, HasDataIsBoolean
<1>5. ASSUME NEW p, Due(p)
      PROVE  PendingRight(p) /\ (p.kind = "guarded" => IsGuard(p))
  BY <1>1, <1>4, <1>5, PendingIsRight DEF Due
<1>6. ASSUME NEW n \in Walked'
      PROVE  /\ nodes'[n].exists = V!HasData'[n]
             /\ V!HasData'[n] => nodes'[n].hoisted = {}
             /\ \A p \in nodes'[n].hoisted :
                  /\ p.case = <<>>
                  /\ p.kind = "guarded" => IsGuard(p)'
                  /\ V!Live'[n] => PendingRight(p)'
  <2>1. CASE n \in Walked
    <3>1. nodes'[n] = nodes[n]
      BY <2>1, WalkNodeDoes
    <3>2. /\ nodes[n].exists = V!HasData[n]
          /\ V!HasData[n] => nodes[n].hoisted = {}
          /\ \A p \in nodes[n].hoisted :
               /\ p.case = <<>>
               /\ p.kind = "guarded" => IsGuard(p)
               /\ V!Live[n] => PendingRight(p)
      BY <1>1, <2>1 DEF Sound
    <3> QED BY <1>2, <1>3, <3>1, <3>2
  <2>2. CASE n = at
    <3>1. nodes'[at].exists = V!HasData[at] /\ (V!HasData[at] => nodes'[at].hoisted = {})
      BY WalkNodeDoes
    <3>2. ASSUME NEW p \in nodes'[at].hoisted
          PROVE  /\ p.case = <<>>
                 /\ p.kind = "guarded" => IsGuard(p)
                 /\ V!Live[at] => PendingRight(p)
      <4>1. p \in V!PendingOf(at) /\ p.case = <<>>
        BY <1>4, <3>2, WalkNodeDoes
      <4>2. V!Selected(at, <<>>)
        BY DEF V!Selected, V!Pairs
      <4> QED BY <1>1, <4>1, <4>2, PendingIsRight
    <3> QED BY <1>2, <1>3, <2>2, <3>1, <3>2
  <2> QED BY <2>1, <2>2, WalkNodeDoes
<1>7. ASSUME NEW p \in deferred' PROVE p.kind = "guarded" /\ IsGuard(p)' /\ GuardRight(p)'
  <2>1. CASE p \in deferred
    BY <1>1, <1>3, <2>1 DEF Sound
  <2>2. CASE Due(p) /\ p.kind = "guarded"
    BY <1>3, <1>5, <2>2 DEF PendingRight
  <2> QED BY <2>1, <2>2, <1>7, WalkNodeDoes
<1>8. ASSUME NEW e \in reported' PROVE Right(e)'
  <2>1. CASE e \in reported
    BY <1>1, <1>2, <2>1 DEF Sound
  <2>2. CASE \E p : Due(p) /\ p.kind = "error" /\ e = p.what
    BY <1>2, <1>5, <2>2 DEF PendingRight
  <2>3. CASE e \in V!Clashes(at)
    <3>1. PICK p : /\ e = <<at, p[1], "cases">> /\ p \in V!Active(at)
                   /\ \E q \in V!Active(at) : p[1] = q[1] /\ p[2] # q[2]
      BY <2>3 DEF V!Clashes
    <3>2. CasesClash(at, p)
      BY <1>1, <3>1, BelowAt DEF CasesClash
    <3>3. e \in V!Expected
      BY <1>1, <3>1, <3>2, ExpectedIs
    <3> QED BY <1>2, <3>3 DEF Right
  <2> QED BY <2>1, <2>2, <2>3, <1>8, WalkNodeDoes
<1>9. ASSUME NEW c \in queued' PROVE QueuedRight(c)'
  <2>1. CASE c \in queued
    BY <1>1, <1>3, <2>1 DEF Sound
  <2>2. CASE \E p : Due(p) /\ p.kind = "must" /\ c = p.what
    BY <1>3, <1>5, <2>2 DEF PendingRight, QueuedRight
  <2>3. CASE c \in V!Constraints(at)
    <3>1. PICK i \in V!FieldsOf(at) :
            /\ V!FieldSet(i)
            /\ \/ c = <<i, "must">> /\ V!IsNode(i) /\ fields[i].mandatory
               \/ c = <<i, "when">>
      BY <2>3 DEF V!Constraints
    <3>2. i \in 1..Size /\ V!HasData[i] /\ V!Live[i]
      BY <1>1, <3>1, BelowAt, HasDataIsBoolean
    <3>3. QueuedRight(c)
      BY <3>1, <3>2 DEF QueuedRight, MustFails
    <3> QED BY <1>3, <3>3
  <2> QED BY <2>1, <2>2, <2>3, <1>9, WalkNodeDoes
<1> QED BY <1>6, <1>7, <1>8, <1>9 DEF Sound

LEMMA WalkSeesTo ==
  ASSUME AtStep, NEW n, n = at, NEW W, V!HasData[n]
  PROVE  SeenTo(n, W)'
<1>1. V!WellFormed /\ AtNode
  BY DEF AtStep, AtNode, ValidInv
<1>2. /\ V!FieldsOf(n)' = V!FieldsOf(n)
      /\ \A i : V!IsNode(i)' = V!IsNode(i) /\ EmptyIn(n, i)' = EmptyIn(n, i)
      /\ V!HasData' = V!HasData /\ fields' = fields
      /\ \A c : V!Selected(n, c)' = V!Selected(n, c)
      /\ \A c : ChoiceLacks(n, c)' = ChoiceLacks(n, c) /\ CasesClash(n, c)' = CasesClash(n, c)
  BY SchemaKept DEF AtStep
<1>3. \A i \in V!FieldsOf(n) : V!FieldSet(i) = V!HasData[i] /\ (V!IsNode(i) => i \in Walked)
  BY <1>1, BelowAt
<1>4. \A p : Due(p) =>
        /\ p.kind = "error" => p.what \in reported'
        /\ p.kind = "must" => p.what \in queued'
        /\ p.kind = "guarded" => p \in deferred'
  BY WalkNodeDoes
<1>5. \A p : (PendingLeaf(n, p) \/ PendingBelow(n, p) \/ PendingChoice(n, p)) /\ V!Selected(n, p.case) => Due(p)
  BY <1>1, PendingAre DEF Due
<1>6. ASSUME NEW i \in V!FieldsOf(n), fields[i].kind = "leaf" /\ fields[i].mandatory /\ ~fields[i].set,
             V!Selected(n, fields[i].case)
      PROVE  <<i, "leaf">> \in reported'
  <2> DEFINE p == V!Pending(fields[i].case, "error", <<i, "leaf">>, {})
  <2>1. p.case = fields[i].case /\ p.kind = "error" /\ p.what = <<i, "leaf">>
    BY DEF V!Pending
  <2>2. PendingLeaf(n, p)
    BY <1>6 DEF PendingLeaf
  <2> HIDE DEF p
  <2> QED BY <1>4, <1>5, <1>6, <2>1, <2>2
<1>7. ASSUME NEW i \in V!FieldsOf(n), V!HasData[i]
      PROVE  /\ V!IsNode(i) /\ fields[i].mandatory => <<i, "must">> \in queued'
             /\ fields[i].when # "none" => <<i, "when">> \in queued'
  <2>1. \A c : c \in V!Constraints(n) => c \in queued'
    BY WalkNodeDoes
  <2>2. V!IsNode(i) /\ fields[i].mandatory => <<i, "must">> \in V!Constraints(n)
    BY <1>3, <1>7 DEF V!Constraints
  <2>3. fields[i].when # "none" => <<i, "when">> \in V!Constraints(n)
    BY <1>3, <1>7 DEF V!Constraints
  <2> QED BY <2>1, <2>2, <2>3
<1>8. ASSUME NEW i, EmptyIn(n, i), V!Selected(n, fields[i].case)
      PROVE  /\ fields[i].when = "none" => Delivered(i, W)'
             /\ fields[i].when = "true" => Opened(i, W)'
  <2>1. i \in V!FieldsOf(n) /\ V!IsNode(i) /\ nodes'[i] = nodes[i]
    BY <1>3, <1>8, WalkNodeDoes DEF EmptyIn, V!IsNode
  <2>2. ASSUME fields[i].when = "none", NEW q \in nodes[i].hoisted PROVE Handled(q, W)'
    <3> DEFINE p == V!Pending(fields[i].case, q.kind, q.what, q.items)
    <3>1. p.case = fields[i].case /\ p.kind = q.kind /\ p.what = q.what
      BY DEF V!Pending
    <3>2. PendingBelow(n, p)
      BY <1>8, <2>1, <2>2 DEF PendingBelow
    <3> HIDE DEF p
    <3>3. Due(p)
      BY <1>5, <1>8, <3>1, <3>2
    <3>4. /\ q.kind = "error" => q.what \in reported'
          /\ q.kind = "must" => q.what \in queued'
          /\ q.kind = "guarded" => p \in deferred'
      BY <1>4, <3>1, <3>3
    <3> QED BY <3>1, <3>4 DEF Handled, Opened
  <2>3. ASSUME fields[i].when = "none", fields[i].mandatory PROVE <<i, "must">> \in queued'
    <3> DEFINE p == V!Pending(fields[i].case, "must", <<i, "must">>, {})
    <3>1. p.case = fields[i].case /\ p.kind = "must" /\ p.what = <<i, "must">>
      BY DEF V!Pending
    <3>2. PendingBelow(n, p)
      BY <1>8, <2>1, <2>3 DEF PendingBelow
    <3> HIDE DEF p
    <3> QED BY <1>4, <1>5, <1>8, <3>1, <3>2
  <2>4. ASSUME fields[i].when = "true" PROVE Opened(i, W)'
    <3> DEFINE p == V!Pending(fields[i].case, "guarded", <<i, "must">>, nodes[i].hoisted)
    <3>1. p.case = fields[i].case /\ p.kind = "guarded" /\ p.what[1] = i
      BY DEF V!Pending
    <3>2. PendingBelow(n, p)
      BY <1>8, <2>1, <2>4 DEF PendingBelow
    <3> HIDE DEF p
    <3>3. p \in deferred'
      BY <1>4, <1>5, <1>8, <3>1, <3>2
    <3> QED BY <3>1, <3>3 DEF Opened
  <2> QED BY <1>2, <2>1, <2>2, <2>3, <2>4 DEF Delivered
<1>9. ASSUME NEW c, ChoiceLacks(n, c) PROVE <<n, c[1]>> \in reported'
  <2> DEFINE p == V!Pending(c[2], "error", <<n, c[1]>>, {})
  <2>1. p.case = c[2] /\ p.kind = "error" /\ p.what = <<n, c[1]>>
    BY DEF V!Pending
  <2>2. PendingChoice(n, p) /\ V!Selected(n, c[2])
    BY <1>9 DEF PendingChoice, ChoiceLacks
  <2> HIDE DEF p
  <2> QED BY <1>4, <1>5, <2>1, <2>2
<1>10. ASSUME NEW p, CasesClash(n, p) PROVE <<n, p[1], "cases">> \in reported'
  <2>1. \A e : e \in V!Clashes(n) => e \in reported'
    BY WalkNodeDoes
  <2>2. p \in V!Active(n) /\ \E q \in V!Active(n) : p[1] = q[1] /\ p[2] # q[2]
    BY <1>1, <1>10, BelowAt DEF CasesClash
  <2>3. <<n, p[1], "cases">> \in V!Clashes(n)
    BY <2>2 DEF V!Clashes
  <2> QED BY <2>1, <2>3
<1>11. ASSUME NEW i \in V!FieldsOf(n)
       PROVE  /\ (fields[i].kind = "leaf" /\ fields[i].mandatory /\ ~fields[i].set
                    /\ V!Selected(n, fields[i].case) => <<i, "leaf">> \in reported)'
              /\ (V!HasData[i] /\ V!IsNode(i) /\ fields[i].mandatory => <<i, "must">> \in queued)'
              /\ (V!HasData[i] /\ fields[i].when # "none" => <<i, "when">> \in queued)'
              /\ (EmptyIn(n, i) /\ V!Selected(n, fields[i].case) =>
                    /\ fields[i].when = "none" => Delivered(i, W)
                    /\ fields[i].when = "true" => Opened(i, W))'
  BY <1>2, <1>6, <1>7, <1>8
<1> QED BY <1>2, <1>9, <1>10, <1>11 DEF SeenTo

LEMMA WalkHoists ==
  ASSUME AtStep, NEW n, n = at, ~V!HasData[n]
  PROVE  HoistsAll(n)'
<1>1. V!WellFormed /\ AtNode /\ IsANode(n)
  BY DEF AtStep, AtNode, ValidInv
<1>2. /\ V!FieldsOf(n)' = V!FieldsOf(n) /\ fields' = fields
      /\ \A i : EmptyIn(n, i)' = EmptyIn(n, i)
      /\ \A c : ChoiceLacks(n, c)' = ChoiceLacks(n, c)
  BY SchemaKept DEF AtStep
<1>3. \A p : (PendingLeaf(n, p) \/ PendingBelow(n, p) \/ PendingChoice(n, p)) /\ p.case = <<>>
               => p \in nodes'[n].hoisted
  BY <1>1, PendingAre, WalkNodeDoes
<1>4. \A i : EmptyIn(n, i) => nodes'[i] = nodes[i]
  BY BelowAt, WalkNodeDoes DEF EmptyIn, V!IsNode, AtStep
<1>5. \A kind, what, items : V!Pending(<<>>, kind, what, items).case = <<>>
  BY DEF V!Pending
<1>6. ASSUME NEW i \in V!FieldsOf(n), fields[i].case = <<>>
      PROVE  /\ fields[i].kind = "leaf" /\ fields[i].mandatory /\ ~fields[i].set =>
                  V!Pending(<<>>, "error", <<i, "leaf">>, {}) \in nodes'[n].hoisted
             /\ EmptyIn(n, i) /\ fields[i].when = "none" =>
                  /\ fields[i].mandatory => V!Pending(<<>>, "must", <<i, "must">>, {}) \in nodes'[n].hoisted
                  /\ \A p \in nodes[i].hoisted :
                       V!Pending(<<>>, p.kind, p.what, p.items) \in nodes'[n].hoisted
             /\ EmptyIn(n, i) /\ fields[i].when # "none" =>
                  V!Pending(<<>>, "guarded", <<i, "must">>, nodes[i].hoisted) \in nodes'[n].hoisted
  <2>1. fields[i].kind = "leaf" /\ fields[i].mandatory /\ ~fields[i].set =>
          PendingLeaf(n, V!Pending(<<>>, "error", <<i, "leaf">>, {}))
    BY <1>6 DEF PendingLeaf
  <2>2. EmptyIn(n, i) /\ fields[i].when = "none" /\ fields[i].mandatory =>
          PendingBelow(n, V!Pending(<<>>, "must", <<i, "must">>, {}))
    BY <1>6 DEF PendingBelow
  <2>3. ASSUME EmptyIn(n, i), fields[i].when = "none", NEW p \in nodes[i].hoisted
        PROVE  PendingBelow(n, V!Pending(<<>>, p.kind, p.what, p.items))
    BY <1>6, <2>3 DEF PendingBelow
  <2>4. EmptyIn(n, i) /\ fields[i].when # "none" =>
          PendingBelow(n, V!Pending(<<>>, "guarded", <<i, "must">>, nodes[i].hoisted))
    BY <1>6 DEF PendingBelow
  <2> QED BY <1>3, <1>5, <2>1, <2>2, <2>3, <2>4
<1>7. ASSUME NEW c, ChoiceLacks(n, c)
      PROVE  V!Pending(<<>>, "error", <<n, c[1]>>, {}) \in nodes'[n].hoisted
  <2>1. c \in V!Choices(n) /\ V!Pairs(c[2]) = {}
    BY <1>1, <1>7, EmptyBelow DEF ChoiceLacks
  <2>2. c[2] = <<>>
    BY <1>1, <2>1, ChainsAre
  <2>3. PendingChoice(n, V!Pending(<<>>, "error", <<n, c[1]>>, {}))
    BY <1>7, <2>2 DEF PendingChoice, ChoiceLacks
  <2> QED BY <1>3, <1>5, <2>3
<1>8. ASSUME NEW i \in V!FieldsOf(n), fields[i].case = <<>>
      PROVE  /\ (fields[i].kind = "leaf" /\ fields[i].mandatory /\ ~fields[i].set =>
                  V!Pending(<<>>, "error", <<i, "leaf">>, {}) \in nodes[n].hoisted)'
             /\ (EmptyIn(n, i) /\ fields[i].when = "none" =>
                  /\ fields[i].mandatory => V!Pending(<<>>, "must", <<i, "must">>, {}) \in nodes[n].hoisted
                  /\ \A p \in nodes[i].hoisted :
                       V!Pending(<<>>, p.kind, p.what, p.items) \in nodes[n].hoisted)'
             /\ (EmptyIn(n, i) /\ fields[i].when # "none" =>
                  V!Pending(<<>>, "guarded", <<i, "must">>, nodes[i].hoisted) \in nodes[n].hoisted)'
  BY <1>2, <1>4, <1>6, <1>8 DEF V!Pending
<1>9. \A c : (ChoiceLacks(n, c) => V!Pending(<<>>, "error", <<n, c[1]>>, {}) \in nodes[n].hoisted)'
  BY <1>2, <1>7 DEF V!Pending
<1> QED BY <1>2, <1>8, <1>9 DEF HoistsAll, V!Pending

LEMMA WalkNodeKeeps == ASSUME AtStep PROVE ValidInv'
<1>1. ValidInv /\ V!WellFormed /\ at \in 0..Size /\ stage = "walk" /\ IsANode(at) /\ Size \in Nat
  BY FieldsAre DEF AtStep, AtNode, ValidInv
<1>2. V!WellFormed' /\ Size' = Size /\ V!HasData' = V!HasData
  BY <1>1, SchemaKept DEF AtStep
<1>3. PICK W \in SUBSET (1..Size) : Complete(W)
  BY <1>1 DEF ValidInv
<1>4. StillOpened(W, W)
  BY WalkNodeDoes DEF StillOpened, Opened
<1>5. ASSUME NEW n \in Walked' \ Walked
      PROVE  (IF V!HasData[n] THEN SeenTo(n, W) ELSE HoistsAll(n))'
  <2>1. n = at
    BY <1>5, WalkNodeDoes
  <2>2. CASE V!HasData[n]
    <3>1. SeenTo(n, W)'
      BY <2>1, <2>2, WalkSeesTo
    <3> QED BY <1>2, <2>2, <3>1
  <2>3. CASE ~V!HasData[n]
    <3>1. HoistsAll(n)'
      BY <2>1, <2>3, WalkHoists
    <3> QED BY <1>2, <2>3, <3>1
  <2> QED BY <2>2, <2>3
<1>6. Complete(W)'
  BY <1>1, <1>3, <1>4, <1>5, CompleteKept, WalkGrows
<1>7. \E U \in SUBSET (1..Size)' : Complete(U)'
  BY <1>2, <1>6
<1>8. DOMAIN nodes' = Walked' /\ Sound'
  BY WalkNodeDoes, WalkStaysSound
<1>9. /\ stage' \in {"walk", "resolve", "evaluate", "done"}
      /\ at' \in 0..Size' /\ (stage' # "walk" => at' = 0)
      /\ ~(stage' \in {"evaluate", "done"}) /\ stage' # "done"
  BY <1>1, <1>2 DEF AtStep
<1> QED BY <1>2, <1>7, <1>8, <1>9 DEF ValidInv

(* What comes to no node leaves the nodes as they are.                       *)
SameNodes ==
  /\ fields' = fields /\ nodes' = nodes /\ Walked' = Walked
  /\ reported \subseteq reported' /\ queued \subseteq queued'

LEMMA SoundKept ==
  ASSUME ValidInv, SameNodes,
         \A p \in deferred' : p \in deferred \/ (p.kind = "guarded" /\ IsGuard(p) /\ GuardRight(p)),
         \A e \in reported' : e \in reported \/ Right(e),
         \A c \in queued' : c \in queued \/ QueuedRight(c)
  PROVE  Sound'
<1>1. Sound
  BY DEF ValidInv
<1>2. Grown
  BY DEF Grown, SameNodes
<1>3. V!HasData' = V!HasData /\ V!Live' = V!Live /\ \A e : Right(e)' = Right(e)
  BY SchemaKept DEF SameNodes
<1>4. /\ \A p : IsGuard(p) => IsGuard(p)'
      /\ \A p : PendingRight(p)' = PendingRight(p) /\ GuardRight(p)' = GuardRight(p)
      /\ \A c : QueuedRight(c)' = QueuedRight(c)
  BY <1>2, GuardsKept, RightKept
<1>5. ASSUME NEW n \in Walked'
      PROVE  /\ nodes'[n].exists = V!HasData'[n]
             /\ V!HasData'[n] => nodes'[n].hoisted = {}
             /\ \A p \in nodes'[n].hoisted :
                  /\ p.case = <<>>
                  /\ p.kind = "guarded" => IsGuard(p)'
                  /\ V!Live'[n] => PendingRight(p)'
  <2>1. nodes'[n] = nodes[n] /\ n \in Walked
    BY <1>5 DEF SameNodes
  <2>2. /\ nodes[n].exists = V!HasData[n]
        /\ V!HasData[n] => nodes[n].hoisted = {}
        /\ \A p \in nodes[n].hoisted :
             /\ p.case = <<>>
             /\ p.kind = "guarded" => IsGuard(p)
             /\ V!Live[n] => PendingRight(p)
    BY <1>1, <2>1 DEF Sound
  <2> QED BY <1>3, <1>4, <2>1, <2>2
<1>6. \A p \in deferred' : p.kind = "guarded" /\ IsGuard(p)' /\ GuardRight(p)'
  BY <1>1, <1>4 DEF Sound
<1>7. \A e \in reported' : Right(e)'
  BY <1>1, <1>3 DEF Sound
<1>8. \A c \in queued' : QueuedRight(c)'
  BY <1>1, <1>4 DEF Sound
<1> QED BY <1>5, <1>6, <1>7, <1>8 DEF Sound

LEMMA InvKept ==
  ASSUME ValidInv, SameNodes, Sound',
         NEW W, NEW U \in SUBSET (1..Size), Complete(W), W \subseteq U, StillOpened(W, U),
         \A i \in U \ W : i \in Walked \ {0} /\ Delivered(i, U)',
         stage' \in {"walk", "resolve", "evaluate", "done"},
         at' \in 0..Size, stage' # "walk" => at' = 0,
         stage' \in {"evaluate", "done"} => deferred' = {},
         stage' = "done" => \A c \in queued' : V!Fails(c) => c \in reported'
  PROVE  ValidInv'
<1>1. Grown /\ Walked' \ Walked = {}
  BY DEF Grown, SameNodes
<1>2. Complete(U)'
  BY <1>1, CompleteKept
<1>3. V!WellFormed' /\ Size' = Size /\ \A c : V!Fails(c)' = V!Fails(c)
  BY SchemaKept DEF SameNodes, ValidInv
<1>4. DOMAIN nodes' = Walked'
  BY DEF SameNodes, ValidInv
<1> QED BY <1>2, <1>3, <1>4 DEF ValidInv

LEMMA WalkKeeps == ASSUME ValidInv, V!Walk PROVE ValidInv'
<1>1. V!WellFormed /\ at \in 0..Size /\ stage = "walk" /\ Size \in Nat /\ fields' = fields
      /\ IF at = 0 THEN stage' = "resolve" /\ at' = at ELSE at' = at - 1 /\ stage' = stage
  BY FieldsAre DEF ValidInv, V!Walk
<1>2. CASE at > 0 /\ ~V!IsNode(at)
  <2>1. UNCHANGED <<nodes, deferred, queued, reported>>
    BY <1>2 DEF V!Walk
  <2>2. Size' = Size /\ \A n : IsANode(n)' = IsANode(n)
    BY <1>1, SchemaKept
  <2>3. at' = at - 1 /\ stage' = stage /\ at \in 1..Size /\ ~IsANode(at)
    BY <1>1, <1>2 DEF IsANode
  <2>4. Walked' = Walked
    <3>1. \A i \in 0..Size : i \in Walked' <=> i \in Walked
      BY <1>1, <2>2, <2>3 DEF Walked
    <3>2. Walked \subseteq 0..Size /\ Walked' \subseteq 0..Size
      BY <2>2 DEF Walked
    <3> HIDE DEF Walked
    <3> QED BY <3>1, <3>2
  <2>5. SameNodes
    BY <1>1, <2>1, <2>4 DEF SameNodes
  <2>6. Sound'
    BY <2>1, <2>5, SoundKept
  <2>7. PICK W \in SUBSET (1..Size) : Complete(W)
    BY DEF ValidInv
  <2>8. StillOpened(W, W)
    BY <2>1 DEF StillOpened, Opened
  <2>9. at' \in 0..Size /\ stage' = "walk"
    BY <1>1, <2>3
  <2> QED BY <2>5, <2>6, <2>7, <2>8, <2>9, InvKept
<1>3. CASE ~(at > 0 /\ ~V!IsNode(at))
  <2>1. IsANode(at)
    BY <1>1, <1>3 DEF IsANode
  <2>2. V!WalkNode(at)
    BY <1>3 DEF V!Walk
  <2>3. AtStep
    BY <1>1, <2>1, <2>2 DEF AtStep, AtNode
  <2> QED BY <2>3, WalkNodeKeeps
<1> QED BY <1>2, <1>3

LEMMA ResolveKeeps == ASSUME ValidInv, NEW p, V!Resolve(p) PROVE ValidInv'
<1>1. /\ V!WellFormed /\ Sound /\ at \in 0..Size /\ stage = "resolve" /\ p \in deferred
      /\ UNCHANGED <<fields, at, nodes, stage>> /\ at = 0
  BY DEF ValidInv, V!Resolve
<1>2. PICK W \in SUBSET (1..Size) : Complete(W)
  BY DEF ValidInv
<1>3. Walked' = Walked
  <2>1. Size' = Size /\ \A n : IsANode(n)' = IsANode(n)
    BY <1>1, SchemaKept
  <2> QED BY <1>1, <2>1 DEF Walked
<1> DEFINE i == p.what[1]
<1>4. p.kind = "guarded" /\ IsGuard(p) /\ GuardRight(p)
  BY <1>1 DEF Sound
<1>5. /\ i \in Walked \ {0} /\ i \in 1..Size /\ V!IsNode(i) /\ p.items = nodes[i].hoisted
  BY <1>4, FieldsAre, <1>1 DEF IsGuard, Walked, IsANode, V!IsNode
<1> HIDE DEF i
<1>6. CASE fields[i].when = "true"
  <2>1. /\ reported' = reported \cup V!What(V!Kind(p.items, "error"))
        /\ deferred' = (deferred \ {p}) \cup V!Kind(p.items, "guarded")
        /\ queued'   = queued \cup V!What(V!Kind(p.items, "must"))
                              \cup (IF fields[i].mandatory THEN {<<i, "must">>} ELSE {})
    BY <1>6 DEF V!Resolve, i
  <2>2. V!Live[i]
    BY <1>4, <1>6 DEF GuardRight, i
  <2>3. \A q \in nodes[i].hoisted : PendingRight(q) /\ (q.kind = "guarded" => IsGuard(q))
    BY <1>1, <1>5, <2>2 DEF Sound
  <2>4. SameNodes
    BY <1>1, <1>3, <2>1 DEF SameNodes
  <2>5. \A q \in deferred' : q \in deferred \/ (q.kind = "guarded" /\ IsGuard(q) /\ GuardRight(q))
    BY <1>5, <2>1, <2>3 DEF V!Kind, PendingRight
  <2>6. \A e \in reported' : e \in reported \/ Right(e)
    BY <1>5, <2>1, <2>3 DEF V!Kind, V!What, PendingRight
  <2>7. \A c \in queued' : c \in queued \/ QueuedRight(c)
    <3>1. fields[i].mandatory => QueuedRight(<<i, "must">>)
      BY <1>5, <2>2 DEF QueuedRight, MustFails
    <3>2. \A c \in V!What(V!Kind(p.items, "must")) : QueuedRight(c)
      BY <1>5, <2>3 DEF V!Kind, V!What, PendingRight, QueuedRight
    <3> QED BY <2>1, <3>1, <3>2
  <2>8. Sound'
    BY <2>4, <2>5, <2>6, <2>7, SoundKept
  <2> DEFINE U == W \cup {i}
  <2>9. StillOpened(W, U)
    <3> SUFFICES ASSUME NEW j, Opened(j, W) PROVE Opened(j, U)'
      BY DEF StillOpened
    <3>1. CASE j \in U
      BY <3>1 DEF Opened
    <3>2. CASE j \notin U
      <4>1. PICK q \in deferred : q.what[1] = j
        BY <3>2 DEF Opened
      <4>2. q # p
        BY <3>2, <4>1 DEF i
      <4> QED BY <2>1, <4>1, <4>2 DEF Opened
    <3> QED BY <3>1, <3>2
  <2>10. Delivered(i, U)'
    <3>1. ASSUME NEW q \in nodes[i].hoisted PROVE Handled(q, U)'
      <4>1. q.kind = "error" => q.what \in reported'
        BY <1>5, <2>1, <3>1 DEF V!Kind, V!What
      <4>2. q.kind = "must" => q.what \in queued'
        BY <1>5, <2>1, <3>1 DEF V!Kind, V!What
      <4>3. q.kind = "guarded" => q \in deferred'
        BY <1>5, <2>1, <3>1 DEF V!Kind
      <4> QED BY <4>1, <4>2, <4>3 DEF Handled, Opened
    <3>2. fields[i].mandatory => <<i, "must">> \in queued'
      BY <2>1
    <3> QED BY <1>1, <3>1, <3>2 DEF Delivered
  <2> QED BY <1>1, <1>2, <1>5, <2>4, <2>8, <2>9, <2>10, InvKept
<1>7. CASE fields[i].when # "true"
  <2>1. deferred' = deferred \ {p} /\ reported' = reported /\ queued' = queued
    BY <1>7 DEF V!Resolve, i
  <2>2. SameNodes
    BY <1>1, <1>3, <2>1 DEF SameNodes
  <2>3. Sound'
    BY <2>1, <2>2, SoundKept
  <2>4. StillOpened(W, W)
    <3> SUFFICES ASSUME NEW j, fields[j].when = "true", Opened(j, W) PROVE Opened(j, W)'
      BY DEF StillOpened
    <3>1. CASE j \in W
      BY <3>1 DEF Opened
    <3>2. CASE j \notin W
      <4>1. PICK q \in deferred : q.what[1] = j
        BY <3>2 DEF Opened
      <4>2. q # p
        BY <1>7, <4>1 DEF i
      <4> QED BY <2>1, <4>1, <4>2 DEF Opened
    <3> QED BY <3>1, <3>2
  <2> QED BY <1>1, <1>2, <2>2, <2>3, <2>4, InvKept
<1> QED BY <1>6, <1>7

LEMMA EndKeeps == ASSUME ValidInv, V!Resolved \/ V!Evaluate PROVE ValidInv'
<1>1. /\ V!WellFormed /\ Sound /\ at \in 0..Size /\ stage \in {"resolve", "evaluate"} /\ at = 0
      /\ UNCHANGED <<fields, at, nodes, deferred, queued>> /\ deferred = {}
  BY DEF ValidInv, V!Resolved, V!Evaluate
<1>2. stage' \in {"evaluate", "done"}
  BY DEF V!Resolved, V!Evaluate
<1>3. PICK W \in SUBSET (1..Size) : Complete(W)
  BY DEF ValidInv
<1>4. Walked' = Walked
  <2>1. Size' = Size /\ \A n : IsANode(n)' = IsANode(n)
    BY <1>1, SchemaKept
  <2> QED BY <1>1, <1>2, <2>1 DEF Walked
<1>5. reported \subseteq reported' /\ \A e \in reported' : e \in reported \/ (e \in queued /\ V!Fails(e))
  BY DEF V!Resolved, V!Evaluate
<1>6. SameNodes
  BY <1>1, <1>4, <1>5 DEF SameNodes
<1>7. \A e : e \in queued /\ V!Fails(e) => Right(e)
  <2> SUFFICES ASSUME NEW e \in queued, V!Fails(e) PROVE e \in V!Expected
    BY DEF Right
  <2>1. QueuedRight(e)
    BY <1>1 DEF Sound
  <2>2. CASE \E i : e = <<i, "must">> /\ MustFails(i)
    BY <1>1, <2>2, ExpectedIs
  <2>3. CASE \E i : e = <<i, "when">> /\ i \in 1..Size /\ V!HasData[i]
    <3>1. PICK i : e = <<i, "when">> /\ i \in 1..Size /\ V!HasData[i]
      BY <2>3
    <3>2. WhenFails(i)
      BY <3>1 DEF V!Fails, WhenFails
    <3> QED BY <1>1, <3>1, <3>2, ExpectedIs
  <2> QED BY <2>1, <2>2, <2>3 DEF QueuedRight
<1>8. Sound'
  BY <1>1, <1>5, <1>6, <1>7, SoundKept
<1>9. StillOpened(W, W)
  BY <1>1 DEF StillOpened, Opened
<1>10. stage' = "done" => \A c \in queued' : V!Fails(c) => c \in reported'
  BY <1>1 DEF V!Resolved, V!Evaluate
<1> QED BY <1>1, <1>2, <1>3, <1>6, <1>8, <1>9, <1>10, InvKept

LEMMA ValidNext == ASSUME ValidInv, V!VNext \/ UNCHANGED validation PROVE ValidInv'
<1>1. CASE V!VNext
  BY <1>1, WalkKeeps, ResolveKeeps, EndKeeps DEF V!VNext
<1>2. CASE UNCHANGED validation
  <2>1. /\ UNCHANGED <<fields, at, nodes, deferred, queued, reported, stage>>
    BY <1>2 DEF validation
  <2>2. Size' = Size /\ \A n : IsANode(n)' = IsANode(n)
    BY <2>1, SchemaKept
  <2>3. Walked' = Walked
    BY <2>1, <2>2 DEF Walked
  <2>4. SameNodes
    BY <2>1, <2>3 DEF SameNodes
  <2>5. Sound'
    BY <2>1, <2>4, SoundKept
  <2>6. PICK W \in SUBSET (1..Size) : Complete(W)
    BY DEF ValidInv
  <2>7. StillOpened(W, W)
    BY <2>1 DEF StillOpened, Opened
  <2>8. /\ stage' \in {"walk", "resolve", "evaluate", "done"}
        /\ at' \in 0..Size /\ (stage' # "walk" => at' = 0)
        /\ stage' \in {"evaluate", "done"} => deferred' = {}
        /\ stage' = "done" => \A c \in queued' : V!Fails(c) => c \in reported'
    BY <2>1 DEF ValidInv
  <2> QED BY <2>4, <2>5, <2>6, <2>7, <2>8, InvKept
<1> QED BY <1>1, <1>2

-----------------------------------------------------------------------------
(* What the walk has found in the end                                      *)

EmptyLive(m) == m \in 1..Size /\ fields[m].kind = "container" /\ ~V!HasData[m] /\ V!Live[m]

AtEnd(W) == ValidInv /\ stage = "done" /\ Complete(W)

LEMMA EndIs ==
  ASSUME NEW W, AtEnd(W)
  PROVE  /\ V!WellFormed /\ Size \in Nat
         /\ \A i \in 1..Size : fields[i].up \in 0..(i - 1) /\ IsANode(fields[i].up)
         /\ \A i : Opened(i, W) => i \in W
         /\ \A i \in W : Delivered(i, W)
         /\ \A n : IsANode(n) => IF V!HasData[n] THEN SeenTo(n, W) ELSE HoistsAll(n)
         /\ \A n : IsANode(n) /\ V!Live[n] /\ ~V!HasData[n] => EmptyLive(n)
         /\ \A i \in 1..Size : V!HasData[i] => V!HasData[fields[i].up]
         /\ \A c \in queued : V!Fails(c) => c \in reported
<1>1. V!WellFormed /\ Size \in Nat /\ deferred = {} /\ at = 0 /\ stage = "done"
  BY FieldsAre DEF AtEnd, ValidInv
<1>2. \A i \in 1..Size : fields[i].up \in 0..(i - 1) /\ fields[i].up \in 0..Size /\ IsANode(fields[i].up)
  BY <1>1, FieldsAre DEF IsANode
<1>3. \A n : IsANode(n) => n \in Walked
  BY <1>1 DEF Walked, IsANode
<1>4. ASSUME NEW n, IsANode(n), V!Live[n], ~V!HasData[n] PROVE EmptyLive(n)
  <2>1. n \in 1..Size
    BY <1>1, <1>4, HasDataIs DEF IsANode
  <2> QED BY <1>1, <1>4, <2>1, LiveIs DEF LiveWith, EmptyLive
<1>5. ASSUME NEW i \in 1..Size, V!HasData[i] PROVE V!HasData[fields[i].up]
  <2>1. i \in V!FieldsOf(fields[i].up)
    BY <1>1, FieldsAre
  <2> QED BY <1>1, <1>2, <1>5, <2>1, EmptyBelow
<1>6. \A i : Opened(i, W) => i \in W
  BY <1>1 DEF Opened
<1>7. \A i \in W : Delivered(i, W)
  BY DEF AtEnd, Complete
<1>8. \A n : IsANode(n) => IF V!HasData[n] THEN SeenTo(n, W) ELSE HoistsAll(n)
  BY <1>3 DEF AtEnd, Complete
<1>9. \A c \in queued : V!Fails(c) => c \in reported
  BY DEF AtEnd, ValidInv
<1> QED BY <1>1, <1>2, <1>4, <1>5, <1>6, <1>7, <1>8, <1>9

(* What an empty container leaves pending arrives, however deep it is.       *)
LEMMA EmptyDelivered ==
  ASSUME NEW W, AtEnd(W)
  PROVE  \A m : EmptyLive(m) => Delivered(m, W)
<1> DEFINE Bad == {m \in 1..Size : EmptyLive(m) /\ ~Delivered(m, W)}
<1>1. ASSUME NEW m \in Bad, \A k \in Bad : m <= k PROVE FALSE
  <2> DEFINE n == fields[m].up
  <2>1. V!WellFormed /\ Size \in Nat /\ m \in 1..Size /\ EmptyLive(m) /\ ~Delivered(m, W)
    BY <1>1, EndIs
  <2>2. n \in 0..(m - 1) /\ IsANode(n)
    BY <2>1, EndIs
  <2>3. V!MayBe(m) /\ V!Live[n] /\ V!Selected(n, fields[m].case)
    BY <2>1, LiveIs DEF LiveWith, EmptyLive
  <2>4. EmptyIn(n, m) /\ m \in V!FieldsOf(n)
    BY <2>1, FieldsAre DEF EmptyIn, EmptyLive
  <2>5. fields[m].when = "none" \/ fields[m].when = "true"
    BY <2>3 DEF V!MayBe
  <2>6. ~Opened(m, W)
    BY <2>1, EndIs
  <2> HIDE DEF n, Bad
  <2>7. CASE V!HasData[n]
    <3>1. SeenTo(n, W)
      BY <2>2, <2>7, EndIs
    <3>2. (fields[m].when = "none" => Delivered(m, W)) /\ (fields[m].when = "true" => Opened(m, W))
      BY <2>3, <2>4, <3>1 DEF SeenTo
    <3> QED BY <2>1, <2>5, <2>6, <3>2
  <2>8. CASE ~V!HasData[n]
    <3>1. EmptyLive(n) /\ HoistsAll(n)
      BY <2>2, <2>3, <2>8, EndIs
    <3>2. n \in 1..Size /\ ~(m <= n)
      BY <2>1, <2>2, <3>1 DEF EmptyLive
    <3>3. Delivered(n, W)
      BY <1>1, <3>1, <3>2 DEF Bad
    <3>4. fields[m].case = <<>>
      BY <2>1, <2>2, <2>3, <2>4, <2>8, EmptyBelow, ChainsAre
    <3>5. CASE fields[m].when = "none"
      <4>1. ASSUME fields[m].mandatory PROVE <<m, "must">> \in queued
        <5>1. V!Pending(<<>>, "must", <<m, "must">>, {}) \in nodes[n].hoisted
          BY <2>4, <3>1, <3>4, <3>5, <4>1 DEF HoistsAll
        <5>2. Handled(V!Pending(<<>>, "must", <<m, "must">>, {}), W)
          BY <3>3, <5>1 DEF Delivered
        <5> QED BY <5>2 DEF Handled, V!Pending
      <4>2. ASSUME NEW p \in nodes[m].hoisted PROVE Handled(p, W)
        <5>1. V!Pending(<<>>, p.kind, p.what, p.items) \in nodes[n].hoisted
          BY <2>4, <3>1, <3>4, <3>5 DEF HoistsAll
        <5>2. Handled(V!Pending(<<>>, p.kind, p.what, p.items), W)
          BY <3>3, <5>1 DEF Delivered
        <5> QED BY <5>2 DEF Handled, V!Pending
      <4> QED BY <2>1, <4>1, <4>2 DEF Delivered
    <3>6. CASE fields[m].when = "true"
      <4> DEFINE p == V!Pending(<<>>, "guarded", <<m, "must">>, nodes[m].hoisted)
      <4>1. p \in nodes[n].hoisted
        BY <2>4, <3>1, <3>4, <3>6 DEF HoistsAll
      <4>2. p.kind = "guarded" /\ p.what[1] = m
        BY DEF V!Pending
      <4> HIDE DEF p
      <4>3. Handled(p, W)
        BY <3>3, <4>1 DEF Delivered
      <4> QED BY <2>6, <3>6, <4>2, <4>3 DEF Handled
    <3> QED BY <2>5, <3>5, <3>6
  <2> QED BY <2>7, <2>8
<1>2. Bad = {}
  <2>1. Bad \subseteq Nat
    BY EndIs
  <2> HIDE DEF Bad
  <2> QED BY <1>1, <2>1, SmallestNumber
<1> QED BY <1>2 DEF EmptyLive

LEMMA AllIsReported ==
  ASSUME NEW W, AtEnd(W), NEW e \in V!Expected, e \notin V!Odd
  PROVE  e \in reported
<1>1. V!WellFormed /\ Size \in Nat
  BY EndIs
<1>2. ASSUME NEW n, IsANode(n), V!Live[n], ~V!HasData[n], NEW p \in nodes[n].hoisted, p.kind = "error"
      PROVE  p.what \in reported
  BY <1>2, EndIs, EmptyDelivered DEF Delivered, Handled
<1>3. ASSUME NEW i, e = <<i, "leaf">>, LeafLacks(i) PROVE e \in reported
  <2> DEFINE n == fields[i].up
  <2>1. i \in V!FieldsOf(n) /\ IsANode(n) /\ V!Live[n] /\ V!Selected(n, fields[i].case)
    BY <1>1, <1>3, EndIs, FieldsAre DEF LeafLacks
  <2>2. fields[i].kind = "leaf" /\ fields[i].mandatory /\ ~fields[i].set
    BY <1>1, <1>3, FieldsAre DEF LeafLacks, V!Odd
  <2> HIDE DEF n
  <2>3. CASE V!HasData[n]
    BY <1>3, <2>1, <2>2, <2>3, EndIs DEF SeenTo
  <2>4. CASE ~V!HasData[n]
    <3> DEFINE p == V!Pending(<<>>, "error", <<i, "leaf">>, {})
    <3>1. fields[i].case = <<>>
      BY <1>1, <2>1, <2>4, EmptyBelow, ChainsAre
    <3>2. p \in nodes[n].hoisted
      BY <2>1, <2>2, <2>4, <3>1, EndIs DEF HoistsAll
    <3>3. p.kind = "error" /\ p.what = <<i, "leaf">>
      BY DEF V!Pending
    <3> HIDE DEF p
    <3> QED BY <1>2, <1>3, <2>1, <2>4, <3>2, <3>3
  <2> QED BY <2>3, <2>4
<1>4. ASSUME NEW c \in queued, V!Fails(c) PROVE c \in reported
  BY <1>4, EndIs
<1>5. ASSUME NEW i, e = <<i, "must">>, MustFails(i) PROVE e \in reported
  <2>1. i \in 1..Size /\ IsANode(i) /\ V!IsNode(i) /\ fields[i].mandatory /\ V!Live[i]
    BY <1>5 DEF MustFails, IsANode
  <2>2. CASE V!HasData[i]
    <3> DEFINE n == fields[i].up
    <3>1. i \in V!FieldsOf(n) /\ IsANode(n) /\ V!HasData[n]
      BY <1>1, <2>1, <2>2, EndIs, FieldsAre
    <3> HIDE DEF n
    <3>2. <<i, "must">> \in queued
      BY <2>1, <2>2, <3>1, EndIs DEF SeenTo
    <3> QED BY <1>4, <1>5, <3>2 DEF V!Fails
  <2>3. CASE ~V!HasData[i]
    <3>1. <<i, "must">> \in queued
      BY <2>1, <2>3, EndIs, EmptyDelivered DEF Delivered
    <3> QED BY <1>4, <1>5, <3>1 DEF V!Fails
  <2> QED BY <2>2, <2>3
<1>6. ASSUME NEW i, e = <<i, "when">>, WhenFails(i) PROVE e \in reported
  <2> DEFINE n == fields[i].up
  <2>1. i \in V!FieldsOf(n) /\ IsANode(n) /\ V!HasData[n] /\ V!HasData[i] /\ fields[i].when = "false"
    BY <1>1, <1>6, EndIs, FieldsAre DEF WhenFails
  <2> HIDE DEF n
  <2>2. <<i, "when">> \in queued
    BY <2>1, EndIs DEF SeenTo
  <2> QED BY <1>4, <1>6, <2>1, <2>2 DEF V!Fails
<1>7. ASSUME NEW n, NEW c, e = <<n, c[1]>>, ChoiceLacks(n, c) PROVE e \in reported
  <2>1. IsANode(n) /\ V!Live[n]
    BY <1>7 DEF ChoiceLacks
  <2>2. CASE V!HasData[n]
    BY <1>7, <2>1, <2>2, EndIs DEF SeenTo
  <2>3. CASE ~V!HasData[n]
    <3> DEFINE p == V!Pending(<<>>, "error", <<n, c[1]>>, {})
    <3>1. p \in nodes[n].hoisted
      BY <1>7, <2>1, <2>3, EndIs DEF HoistsAll
    <3>2. p.kind = "error" /\ p.what = <<n, c[1]>>
      BY DEF V!Pending
    <3> HIDE DEF p
    <3> QED BY <1>2, <1>7, <2>1, <2>3, <3>1, <3>2
  <2> QED BY <2>2, <2>3
<1>8. ASSUME NEW n, NEW p, e = <<n, p[1], "cases">>, CasesClash(n, p) PROVE e \in reported
  <2>1. IsANode(n) /\ V!HasData[n]
    BY <1>1, <1>8, EmptyBelow DEF CasesClash
  <2> QED BY <1>8, <2>1, EndIs DEF SeenTo
<1> QED BY <1>1, <1>3, <1>5, <1>6, <1>7, <1>8, ExpectedIs

LEMMA JudgedInTheEnd == ValidInv => V!ReportedExactly
<1> SUFFICES ASSUME ValidInv, stage = "done"
             PROVE  V!ReportedExactly
  BY DEF V!ReportedExactly
<1>1. PICK W \in SUBSET (1..Size) : Complete(W)
  BY DEF ValidInv
<1>2. \A e \in V!Expected : e \in V!Odd \/ e \in reported
  BY <1>1, AllIsReported DEF AtEnd
<1>3. \A e \in reported : e \in V!Expected \/ e \in V!Odd
  BY DEF ValidInv, Sound, Right
<1> QED BY <1>2, <1>3 DEF V!ReportedExactly

(* What the validation of a tree reports is what its schema requires and the  *)
(* tree lacks, for every schema: whatever is in empty containers, in cases of   *)
(* cases or below a `when`, to any depth; but for the odd leaves.            *)
THEOREM TreesAreJudged == ProgramSpec => []ReportedExactly
<1> DEFINE Inv == program = "validate" => ValidInv
<1>1. ProgramInit => Inv
  BY ValidInit DEF ProgramInit, ValidStart
<1>2. Inv /\ [ProgramNext]_pvars => Inv'
  <2> SUFFICES ASSUME Inv, [ProgramNext]_pvars, program' = "validate"
               PROVE  ValidInv'
    OBVIOUS
  <2>1. program = "validate" /\ (V!VNext \/ UNCHANGED validation)
    BY DEF ProgramNext, pvars
  <2> QED BY <2>1, ValidNext
<1>3. Inv => ReportedExactly
  BY JudgedInTheEnd DEF ReportedExactly
<1> QED BY <1>1, <1>2, <1>3, PTL DEF ProgramSpec

-----------------------------------------------------------------------------
(* Values made of identities                                               *)

Count == Len(identities)

(* What is assumed of identities, and what the base is.                     *)
LEMMA IdentitiesAre ==
  ASSUME Id!WellFormed
  PROVE  /\ Count \in Nat
         /\ Id!Numbers = 1..Count
         /\ IsFiniteSet(Id!Numbers) /\ Cardinality(Id!Numbers) = Count
         /\ order \in Seq(Id!Numbers)
         /\ \A i \in Id!Numbers : \E m \in 1..Len(order) : order[m] = i
         /\ \A i \in Id!Numbers : /\ identities[i].bases \subseteq 0..(i - 1)
                                   /\ Id!Canonical(i).by # Bare
         /\ \A i, j \in {0} \cup Id!Numbers : Id!CanonicalOf(i) = Id!CanonicalOf(j) => i = j
<1>1. Count \in Nat /\ Id!Numbers = 1..Count
  BY DEF Id!WellFormed, Id!Numbers, Count
<1>2. IsFiniteSet(Id!Numbers) /\ Cardinality(Id!Numbers) = Count
  <2>1. 1 \in Int /\ Count \in Int
    BY <1>1
  <2>2. /\ IsFiniteSet(1..Count)
        /\ Cardinality(1..Count) = IF 1 > Count THEN 0 ELSE Count - 1 + 1
    BY <2>1, FS_Interval
  <2> QED BY <1>1, <2>2
<1>3. order \in Seq(Id!Numbers)
  BY DEF Id!WellFormed
<1>4. \A i \in Id!Numbers : \E m \in 1..Len(order) : order[m] = i
  <2>1. \A i \in Id!Numbers : i \in Id!Range(order)
    BY DEF Id!WellFormed
  <2>2. DOMAIN order = 1..Len(order)
    BY <1>3
  <2> QED BY <2>1, <2>2 DEF Id!Range
<1>5. \A i \in Id!Numbers : identities[i].bases \subseteq 0..(i - 1)
  BY DEF Id!WellFormed
<1>6. \A i \in Id!Numbers : Id!Canonical(i).by # Bare
  BY DEF Id!WellFormed, Id!Canonical, Id!Spelling
<1>7. ASSUME NEW i \in {0} \cup Id!Numbers, NEW j \in {0} \cup Id!Numbers,
             Id!CanonicalOf(i) = Id!CanonicalOf(j)
      PROVE  i = j
  <2>1. \A k \in Id!Numbers : k # 0 /\ Id!Canonical(k) # Id!Spelling(LeafModule, "base")
    BY <1>1 DEF Id!WellFormed
  <2>2. \A k, l \in Id!Numbers : Id!Canonical(k) = Id!Canonical(l) => k = l
    BY DEF Id!WellFormed
  <2> QED BY <1>7, <2>1, <2>2 DEF Id!CanonicalOf
<1> QED BY <1>1, <1>2, <1>3, <1>4, <1>5, <1>6, <1>7

(* The identities with base b, in some order.                               *)
LEMMA DirectlyDerivedAre ==
  ASSUME Id!WellFormed, NEW b
  PROVE  /\ Id!DirectlyDerived(identities, order, b) \in Seq(Id!Numbers)
         /\ \A i : i \in Range(Id!DirectlyDerived(identities, order, b))
                     <=> i \in Id!Numbers /\ b \in identities[i].bases
<1> DEFINE P == {i \in DOMAIN identities : b \in identities[i].bases}
           t == Id!DirectlyDerived(identities, order, b)
<1>1. t = Sifted(order, P)
  BY DEF Id!DirectlyDerived, Sifted, Sifts
<1>2. order \in Seq(Id!Numbers)
  BY IdentitiesAre
<1>3. /\ t \in Seq(Id!Numbers)
      /\ \A e : (\E i \in 1..Len(t) : t[i] = e) <=> e \in P /\ \E i \in 1..Len(order) : order[i] = e
  <2> HIDE DEF P, t
  <2> QED BY <1>1, <1>2, SiftedFacts
<1>4. \A e : e \in P <=> e \in Id!Numbers /\ b \in identities[e].bases
  BY DEF Id!Numbers
<1> HIDE DEF P, t
<1>5. \A e : e \in Range(t) <=> \E i \in 1..Len(t) : t[i] = e
  BY <1>3, ElementsOfSeq
<1>6. \A e \in P : \E i \in 1..Len(order) : order[i] = e
  BY <1>4, IdentitiesAre
<1> QED BY <1>3, <1>4, <1>5, <1>6 DEF t

(* All derived identities are the least set with those that have the base     *)
(* and those that have one of the set as a base.                            *)
ClosedDown(X) == \A b \in X, i \in Id!Numbers : b \in identities[i].bases => i \in X

LEMMA DerivedAre ==
  ASSUME Id!WellFormed
  PROVE  /\ Id!AllDerived \subseteq Id!Numbers
         /\ Id!Based[0] \subseteq Id!AllDerived
         /\ ClosedDown(Id!AllDerived)
         /\ \A Y \in SUBSET Id!Numbers : Id!Based[0] \subseteq Y /\ ClosedDown(Y) => Id!AllDerived \subseteq Y
<1> DEFINE D == Id!Numbers
           c == Id!Based
<1>1. Id!AllDerived = Reached(c[0], c, Count)
  BY DEF Id!AllDerived, Reached, GrowsIn, OneFrom, Count
<1>2. IsFiniteSet(D) /\ Count \in Nat /\ Cardinality(D) <= Count
  BY IdentitiesAre
<1>3. \A u \in {0} \cup D : c[u] = {i \in D : u \in identities[i].bases}
  BY DEF Id!Based
<1>4. (\A u \in D : c[u] \subseteq D) /\ c[0] \in SUBSET D
  BY <1>3
<1> HIDE DEF c
<1>5. ASSUME NEW X \in SUBSET D PROVE Closed(X, c, D) <=> ClosedDown(X)
  BY <1>3 DEF Closed, ClosedDown
<1> HIDE DEF D
<1>6. /\ Reached(c[0], c, Count) \subseteq D
      /\ c[0] \subseteq Reached(c[0], c, Count)
      /\ Closed(Reached(c[0], c, Count), c, D)
      /\ \A Y : c[0] \subseteq Y /\ Closed(Y, c, D) => Reached(c[0], c, Count) \subseteq Y
  BY <1>2, <1>4, GrowthWithin
<1>7. /\ Id!AllDerived \subseteq D /\ c[0] \subseteq Id!AllDerived
      /\ Closed(Id!AllDerived, c, D)
      /\ \A Y : c[0] \subseteq Y /\ Closed(Y, c, D) => Id!AllDerived \subseteq Y
  BY <1>1, <1>6
<1> QED BY <1>5, <1>7 DEF c, D

(* The ancestors of an identity are the least set with it and the bases of     *)
(* those in it; all of them come before it.                                 *)
ClosedUp(X) == \A i \in X \cap Id!Numbers : identities[i].bases \subseteq X

LEMMA AncestorsAre ==
  ASSUME Id!WellFormed, NEW i \in Id!Numbers
  PROVE  /\ Id!Ancestors(i) \subseteq 0..i
         /\ i \in Id!Ancestors(i)
         /\ ClosedUp(Id!Ancestors(i))
         /\ \A Y : i \in Y /\ ClosedUp(Y) => Id!Ancestors(i) \subseteq Y
<1> DEFINE D == {0} \cup Id!Numbers
           c == Id!Bases
           n == Count + 1
<1>1. Id!Ancestors(i) = Reached({i}, c, n)
  BY DEF Id!Ancestors, Reached, GrowsIn, OneFrom, Count
<1>2. /\ Count \in Nat /\ Id!Numbers = 1..Count /\ D = 0..Count
      /\ \A k \in Id!Numbers : identities[k].bases \subseteq 0..(k - 1)
  BY IdentitiesAre
<1>3. IsFiniteSet(D) /\ Cardinality(D) <= n /\ n \in Nat
  <2>1. 0 \in Int /\ Count \in Int
    BY <1>2
  <2>2. /\ IsFiniteSet(0..Count)
        /\ Cardinality(0..Count) = IF 0 > Count THEN 0 ELSE Count - 0 + 1
    BY <2>1, FS_Interval
  <2>3. D = 0..Count /\ Cardinality(0..Count) = n
    BY <1>2, <2>2
  <2> HIDE DEF D
  <2> QED BY <1>2, <2>2, <2>3
<1>4. \A u \in D : c[u] = IF u = 0 THEN {} ELSE identities[u].bases
  BY DEF Id!Bases
<1>5. (\A u \in D : c[u] \subseteq D) /\ {i} \in SUBSET D
  BY <1>2, <1>4
<1> HIDE DEF c
<1>6. ASSUME NEW X PROVE Closed(X, c, D) <=> ClosedUp(X)
  BY <1>2, <1>4 DEF Closed, ClosedUp
<1> HIDE DEF D, n
<1>7. /\ Reached({i}, c, n) \subseteq D
      /\ {i} \subseteq Reached({i}, c, n)
      /\ Closed(Reached({i}, c, n), c, D)
      /\ \A Y : {i} \subseteq Y /\ Closed(Y, c, D) => Reached({i}, c, n) \subseteq Y
  BY <1>3, <1>5, GrowthWithin
<1>8. /\ i \in Id!Ancestors(i)
      /\ ClosedUp(Id!Ancestors(i))
      /\ \A Y : i \in Y /\ ClosedUp(Y) => Id!Ancestors(i) \subseteq Y
  BY <1>1, <1>6, <1>7
<1>9. i \in 0..i /\ ClosedUp(0..i)
  BY <1>2 DEF ClosedUp
<1> QED BY <1>8, <1>9

(* What climbing from some identities reaches, one base after the other, until *)
(* there is none left: what is closed under bases, and no more.              *)
Missing(from, X) == (from \cup UNION {Id!BasesOf(c) : c \in X}) \ X
Climbed(from, X) ==
  IF Missing(from, X) = {} THEN X ELSE X \cup {CHOOSE c \in Missing(from, X) : TRUE}
Passes(f, from) == f = [k \in Nat |-> IF k = 0 THEN {} ELSE Climbed(from, f[k - 1])]
Passed(from) == (CHOOSE f : Passes(f, from))[Count + 1]

Canonicals == {Id!CanonicalOf(i) : i \in {0} \cup Id!Numbers}

LEMMA CanonicalsAre ==
  ASSUME Id!WellFormed
  PROVE  /\ IsFiniteSet(Canonicals) /\ Cardinality(Canonicals) <= Count + 1
         /\ Cardinality(Canonicals) \in Nat
         /\ \A i \in Id!Numbers :
              Id!BasesOf(Id!CanonicalOf(i)) = {Id!CanonicalOf(b) : b \in identities[i].bases}
         /\ Id!BasesOf(Id!CanonicalOf(0)) = {}
         /\ \A c \in Canonicals : Id!BasesOf(c) \subseteq Canonicals
<1> DEFINE D == {0} \cup Id!Numbers
<1>1. /\ Count \in Nat /\ Id!Numbers = 1..Count /\ D = 0..Count
      /\ \A k \in Id!Numbers : identities[k].bases \subseteq 0..(k - 1)
      /\ \A i, j \in D : Id!CanonicalOf(i) = Id!CanonicalOf(j) => i = j
  BY IdentitiesAre
<1>2. IsFiniteSet(D) /\ Cardinality(D) = Count + 1
  <2>1. 0 \in Int /\ Count \in Int
    BY <1>1
  <2>2. /\ IsFiniteSet(0..Count)
        /\ Cardinality(0..Count) = IF 0 > Count THEN 0 ELSE Count - 0 + 1
    BY <2>1, FS_Interval
  <2>3. D = 0..Count /\ Cardinality(0..Count) = Count + 1
    BY <1>1, <2>2
  <2> HIDE DEF D
  <2> QED BY <2>2, <2>3
<1>3. /\ IsFiniteSet(Canonicals) /\ Cardinality(Canonicals) <= Count + 1
      /\ Cardinality(Canonicals) \in Nat
  <2> DEFINE f == [i \in D |-> Id!CanonicalOf(i)]
  <2>1. f \in Surjection(D, Canonicals)
    BY DEF Surjection, Canonicals
  <2> HIDE DEF D, f
  <2>2. IsFiniteSet(Canonicals) /\ Cardinality(Canonicals) <= Cardinality(D)
    BY <1>2, <2>1, FS_Surjection
  <2> QED BY <1>2, <2>2, FS_CardinalityType
<1>4. \A i \in Id!Numbers : i # 0 /\ Id!CanonicalOf(i) = Id!Canonical(i)
  BY <1>1 DEF Id!CanonicalOf
<1>5. ASSUME NEW i \in Id!Numbers
      PROVE  Id!BasesOf(Id!CanonicalOf(i)) = {Id!CanonicalOf(b) : b \in identities[i].bases}
  <2>1. {k \in Id!Numbers : Id!Canonical(k) = Id!CanonicalOf(i)} = {i}
    BY <1>1, <1>4
  <2> QED BY <2>1 DEF Id!BasesOf
<1>6. Id!BasesOf(Id!CanonicalOf(0)) = {}
  <2>1. {k \in Id!Numbers : Id!Canonical(k) = Id!CanonicalOf(0)} = {}
    BY <1>1, <1>4
  <2> QED BY <2>1 DEF Id!BasesOf
<1>7. ASSUME NEW c \in Canonicals PROVE Id!BasesOf(c) \subseteq Canonicals
  <2>1. PICK i \in D : c = Id!CanonicalOf(i)
    BY DEF Canonicals
  <2>2. CASE i = 0
    BY <1>6, <2>1, <2>2
  <2>3. CASE i \in Id!Numbers
    <3>1. identities[i].bases \subseteq D
      BY <1>1, <2>3
    <3> QED BY <1>5, <2>1, <2>3, <3>1 DEF Canonicals
  <2> QED BY <2>2, <2>3
<1> QED BY <1>3, <1>5, <1>6, <1>7

Rising(X) == \A c \in X : Id!BasesOf(c) \subseteq X

LEMMA PassedIs ==
  ASSUME Id!WellFormed, NEW from \in SUBSET Canonicals
  PROVE  /\ from \subseteq Passed(from)
         /\ Rising(Passed(from))
         /\ \A Y : from \subseteq Y /\ Rising(Y) => Passed(from) \subseteq Y
<1> DEFINE C == Canonicals
           M(X) == Missing(from, X)
<1>1. /\ IsFiniteSet(C) /\ Cardinality(C) \in Nat /\ Cardinality(C) <= Count + 1
      /\ \A c \in C : Id!BasesOf(c) \subseteq C
      /\ Count \in Nat
  BY CanonicalsAre, IdentitiesAre
<1>2. ASSUME NEW X \in SUBSET C PROVE M(X) \subseteq C
  BY <1>1 DEF Missing
<1>3. ASSUME NEW X \in SUBSET C
      PROVE  /\ Climbed(from, X) \in SUBSET C
             /\ M(X) = {} => Climbed(from, X) = X
             /\ M(X) # {} => \E c \in M(X) : c \notin X /\ Climbed(from, X) = X \cup {c}
  <2>1. M(X) # {} => (CHOOSE c \in M(X) : TRUE) \in M(X)
    OBVIOUS
  <2>2. \A c \in M(X) : c \notin X
    BY DEF Missing
  <2> HIDE DEF M
  <2>3. Climbed(from, X) = IF M(X) = {} THEN X ELSE X \cup {CHOOSE c \in M(X) : TRUE}
    BY DEF Climbed, M
  <2> QED BY <1>2, <2>1, <2>2, <2>3
<1> HIDE DEF C, M
<1>4. \E f : Passes(f, from)
  <2>1. PICK H : H = [X \in SUBSET C |-> Climbed(from, X)]
    OBVIOUS
  <2>2. H \in [SUBSET C -> SUBSET C] /\ {} \in SUBSET C
    BY <1>3, <2>1
  <2>3. PICK f \in [Nat -> SUBSET C] : Iterates(f, {}, H)
    BY <2>2, RecursionOnNumbers
  <2>4. ASSUME NEW n \in Nat
        PROVE  (IF n = 0 THEN {} ELSE H[f[n - 1]]) = IF n = 0 THEN {} ELSE Climbed(from, f[n - 1])
    <3>1. n # 0 => f[n - 1] \in SUBSET C
      BY <2>3
    <3> QED BY <2>1, <3>1
  <2>5. f = [n \in Nat |-> IF n = 0 THEN {} ELSE Climbed(from, f[n - 1])]
    BY <2>3, <2>4 DEF Iterates
  <2> QED BY <2>5 DEF Passes
<1> DEFINE f == CHOOSE g : Passes(g, from)
<1>5. Passes(f, from) /\ Passed(from) = f[Count + 1]
  BY <1>4 DEF Passed
<1> HIDE DEF f
<1>6. f[0] = {} /\ \A n \in Nat : f[n + 1] = Climbed(from, f[n])
  <2>1. \A n \in Nat : f[n] = IF n = 0 THEN {} ELSE Climbed(from, f[n - 1])
    BY <1>5 DEF Passes
  <2>2. ASSUME NEW n \in Nat PROVE f[n + 1] = Climbed(from, f[n])
    <3>1. n + 1 \in Nat /\ n + 1 # 0 /\ (n + 1) - 1 = n
      OBVIOUS
    <3>2. f[n + 1] = Climbed(from, f[(n + 1) - 1])
      BY <2>1, <3>1
    <3> QED BY <3>1, <3>2
  <2>3. f[0] = {}
    BY <2>1
  <2> QED BY <2>2, <2>3
<1> DEFINE A == {n \in Nat : /\ f[n] \in SUBSET C
                             /\ M(f[n]) = {} \/ Cardinality(f[n]) = n
                             /\ \A Y : from \subseteq Y /\ Rising(Y) => f[n] \subseteq Y}
<1>7. 0 \in A
  BY <1>6, FS_EmptySet
<1>8. ASSUME NEW n \in Nat, n \in A PROVE n + 1 \in A
  <2>1. f[n] \in SUBSET C /\ f[n + 1] = Climbed(from, f[n]) /\ IsFiniteSet(f[n])
    BY <1>1, <1>6, <1>8, FS_Subset
  <2>2. CASE M(f[n]) = {}
    <3>1. f[n + 1] = f[n]
      BY <1>3, <2>1, <2>2
    <3> QED BY <1>8, <2>2, <3>1
  <2>3. CASE M(f[n]) # {}
    <3>1. PICK c \in M(f[n]) : c \notin f[n] /\ f[n + 1] = f[n] \cup {c}
      BY <1>3, <2>1, <2>3
    <3>2. Cardinality(f[n]) = n
      BY <1>8, <2>3
    <3>3. Cardinality(f[n + 1]) = n + 1
      BY <2>1, <3>1, <3>2, FS_AddElement
    <3>4. ASSUME NEW Y, from \subseteq Y, Rising(Y) PROVE f[n + 1] \subseteq Y
      <4>1. f[n] \subseteq Y
        BY <1>8, <3>4
      <4>2. c \in Y
        BY <3>1, <3>4, <4>1 DEF M, Missing, Rising
      <4> QED BY <3>1, <4>1, <4>2
    <3>5. f[n + 1] \in SUBSET C
      BY <1>3, <2>1
    <3> QED BY <3>3, <3>4, <3>5
  <2> QED BY <2>2, <2>3
<1>9. Count + 1 \in A
  <2> HIDE DEF A
  <2>1. Nat \subseteq A
    BY <1>7, <1>8, NumbersInduction
  <2> QED BY <1>1, <2>1
<1> DEFINE X == f[Count + 1]
<1>10. /\ X \in SUBSET C
       /\ M(X) = {} \/ Cardinality(X) = Count + 1
       /\ \A Y : from \subseteq Y /\ Rising(Y) => X \subseteq Y
  BY <1>9
<1> HIDE DEF A, X
<1>11. M(X) = {}
  <2> SUFFICES ASSUME Cardinality(X) = Count + 1 PROVE M(X) = {}
    BY <1>10
  <2>1. Cardinality(X) <= Cardinality(C)
    BY <1>1, <1>10, FS_Subset
  <2>2. Cardinality(X) = Cardinality(C)
    BY <1>1, <2>1
  <2>3. X = C
    BY <1>1, <1>10, <2>2, FS_Subset
  <2> QED BY <1>2, <1>3, <1>10, <2>3 DEF M, Missing
<1>12. from \subseteq X /\ Rising(X)
  BY <1>11 DEF M, Missing, Rising
<1> QED BY <1>5, <1>10, <1>12 DEF X

SpellStart == Id!WellFormed /\ Id!InitWith(identities, order)

(* What is to be gone into.                                                *)
Ahead == seen \cup Range(stack)

(* What was gone into is derived, what is derived from it is or will be gone    *)
(* into, and the spellings so far are those of what was gone into.           *)
SpellInv ==
  /\ Id!WellFormed
  /\ stack \in Seq(Id!AllDerived)
  /\ seen \subseteq Id!AllDerived
  /\ Id!Based[0] \subseteq Ahead
  /\ \A b \in seen, i \in Id!Numbers : b \in identities[i].bases => i \in Ahead
  /\ DOMAIN canon = UNION {Id!Spellings(i) : i \in seen}
  /\ \A s \in DOMAIN canon : \E i \in seen : s \in Id!Spellings(i) /\ canon[s] = Id!Canonical(i)

LEMMA SpellInit == ASSUME SpellStart PROVE SpellInv
<1>1. /\ Id!WellFormed /\ stack = Id!DirectlyDerived(identities, order, 0)
      /\ seen = {} /\ canon = <<>>
  BY DEF SpellStart, Id!InitWith
<1>2. /\ stack \in Seq(Id!Numbers)
      /\ \A i : i \in Range(stack) <=> i \in Id!Numbers /\ 0 \in identities[i].bases
  BY <1>1, DirectlyDerivedAre
<1>3. \A i : i \in Id!Based[0] <=> i \in Id!Numbers /\ 0 \in identities[i].bases
  BY DEF Id!Based
<1>4. Id!Based[0] \subseteq Id!AllDerived
  BY <1>1, DerivedAre
<1>5. stack \in Seq(Id!AllDerived)
  <2>1. \A m \in 1..Len(stack) : stack[m] \in Id!AllDerived
    BY <1>2, <1>3, <1>4, ElementsOfSeq
  <2> QED BY <1>2, <2>1
<1>6. DOMAIN canon = {}
  BY <1>1
<1> QED BY <1>1, <1>2, <1>3, <1>5, <1>6 DEF SpellInv, Ahead

(* What stands on the stack after a pop: what was below the top, and more.    *)
LEMMA StackAfter ==
  ASSUME NEW S, NEW s \in Seq(S), s # <<>>, NEW t \in Seq(S)
  PROVE  /\ Id!Front(s) \o t \in Seq(S)
         /\ s[Len(s)] \in S
         /\ \A e : e \in Range(s) \cup Range(t) <=> e = s[Len(s)] \/ e \in Range(Id!Front(s) \o t)
         /\ s[Len(s)] \in Range(s)
<1> DEFINE f == Id!Front(s)
           r == f \o t
           n == Len(s)
<1>1. n \in Nat \ {0} /\ s[n] \in S
  OBVIOUS
<1>2. f \in Seq(S) /\ Len(f) = n - 1 /\ \A m \in 1..(n - 1) : f[m] = s[m]
  BY DEF Id!Front
<1> HIDE DEF f, n
<1>3. /\ r \in Seq(S) /\ Len(t) \in Nat /\ Len(r) = (n - 1) + Len(t)
      /\ \A m \in 1..(n - 1) : r[m] = s[m]
      /\ \A m \in 1..Len(t) : r[(n - 1) + m] = t[m]
  <2>1. r \in Seq(S) /\ Len(r) = Len(f) + Len(t) /\ Len(t) \in Nat
    BY <1>2
  <2>2. \A m \in 1..Len(f) : r[m] = f[m]
    BY <1>2
  <2>3. \A m \in 1..Len(t) : r[Len(f) + m] = t[m]
    BY <1>2
  <2> HIDE DEF r
  <2> QED BY <1>1, <1>2, <2>1, <2>2, <2>3
<1> HIDE DEF r
<1>4. ASSUME NEW e \in Range(s) PROVE e = s[n] \/ e \in Range(r)
  <2>1. PICK m \in 1..n : e = s[m]
    BY ElementsOfSeq DEF n
  <2>2. m = n \/ (m \in 1..(n - 1) /\ m \in 1..Len(r))
    BY <1>1, <1>3
  <2> QED BY <1>3, <2>1, <2>2, ElementsOfSeq
<1>5. ASSUME NEW e \in Range(t) PROVE e \in Range(r)
  <2>1. PICK m \in 1..Len(t) : e = t[m]
    BY ElementsOfSeq
  <2>2. (n - 1) + m \in 1..Len(r)
    BY <1>1, <1>3
  <2> QED BY <1>3, <2>1, <2>2, ElementsOfSeq
<1>6. s[n] \in Range(s)
  <2>1. n \in 1..Len(s)
    BY <1>1 DEF n
  <2> QED BY <2>1, ElementsOfSeq
<1>7. ASSUME NEW e \in Range(r) PROVE e \in Range(s) \cup Range(t)
  <2>1. PICK m \in 1..Len(r) : e = r[m]
    BY <1>3, ElementsOfSeq
  <2>2. CASE m \in 1..(n - 1)
    <3>1. m \in 1..Len(s)
      BY <1>1, <2>2 DEF n
    <3> QED BY <1>3, <2>1, <2>2, <3>1, ElementsOfSeq
  <2>3. CASE m \notin 1..(n - 1)
    <3>1. m - (n - 1) \in 1..Len(t) /\ (n - 1) + (m - (n - 1)) = m
      <4>1. n \in Nat /\ n > 0 /\ Len(t) \in Nat /\ Len(r) = (n - 1) + Len(t)
        BY <1>1, <1>3
      <4> QED BY <2>3, <4>1
    <3> QED BY <1>3, <2>1, <3>1, ElementsOfSeq
  <2> QED BY <2>2, <2>3
<1>8. \A e : e \in Range(s) \cup Range(t) <=> e = s[n] \/ e \in Range(r)
  BY <1>4, <1>5, <1>6, <1>7
<1> QED BY <1>1, <1>3, <1>6, <1>8 DEF n, r, f

LEMMA FollowedAre ==
  ASSUME Id!WellFormed, NEW i \in Id!AllDerived
  PROVE  /\ Id!Followed(i) \in Seq(Id!AllDerived)
         /\ i \notin seen => \A k \in Id!Numbers : i \in identities[k].bases => k \in Range(Id!Followed(i))
<1>1. CASE i \in seen
  BY <1>1 DEF Id!Followed
<1>2. CASE i \notin seen
  <2> DEFINE t == Id!DirectlyDerived(identities, order, i)
  <2>1. Id!Followed(i) = t
    BY <1>2 DEF Id!Followed
  <2>2. /\ t \in Seq(Id!Numbers)
        /\ \A k : k \in Range(t) <=> k \in Id!Numbers /\ i \in identities[k].bases
    BY DirectlyDerivedAre
  <2> HIDE DEF t
  <2>3. \A k \in Range(t) : k \in Id!AllDerived
    BY <2>2, DerivedAre DEF ClosedDown
  <2>4. \A m \in 1..Len(t) : t[m] \in Id!AllDerived
    BY <2>2, <2>3, ElementsOfSeq
  <2>5. t \in Seq(Id!AllDerived)
    BY <2>2, <2>4
  <2> QED BY <2>1, <2>2, <2>5
<1> QED BY <1>1, <1>2

LEMMA FixedKept ==
  ASSUME UNCHANGED <<identities, order>>
  PROVE  /\ Id!WellFormed' = Id!WellFormed /\ Id!AllDerived' = Id!AllDerived
         /\ Id!Numbers' = Id!Numbers /\ (Id!Based[0])' = Id!Based[0]
         /\ \A i : /\ Id!Spellings(i)' = Id!Spellings(i) /\ Id!Canonical(i)' = Id!Canonical(i)
                   /\ identities'[i] = identities[i]
BY DEF Id!WellFormed, Id!AllDerived, Id!Numbers, Id!Based, Id!Spellings, Id!Canonical, Id!Spelling, Id!Range

LEMMA PopKeeps == ASSUME SpellInv, Id!Pop PROVE SpellInv'
<1> DEFINE i == stack[Len(stack)]
           t == Id!Followed(i)
           r == Id!Front(stack) \o t
           All == Id!AllDerived
<1>1. /\ Id!WellFormed /\ stack \in Seq(All) /\ stack # <<>> /\ seen \subseteq All
      /\ stack' = r /\ seen' = seen \cup {i}
      /\ identities' = identities /\ order' = order
      /\ canon' = IF i \in seen THEN canon
                  ELSE [s \in DOMAIN canon \cup Id!Spellings(i) |->
                          IF s \in Id!Spellings(i) THEN Id!Meaning(i)[s] ELSE canon[s]]
  BY DEF SpellInv, Id!Pop
<1>2. i \in All
  BY <1>1, StackAfter
<1>3. /\ t \in Seq(All)
      /\ i \notin seen => \A k \in Id!Numbers : i \in identities[k].bases => k \in Range(t)
  BY <1>1, <1>2, FollowedAre
<1>4. /\ r \in Seq(All)
      /\ \A e : e \in Range(stack) \cup Range(t) <=> e = i \/ e \in Range(r)
  <2> HIDE DEF t, All
  <2> QED BY <1>1, <1>3, StackAfter
<1> HIDE DEF i, t, r, All
<1>5. Ahead' = seen \cup {i} \cup Range(r)
  BY <1>1 DEF Ahead
<1>6. \A e : e \in Ahead' <=> e \in Ahead \cup Range(t)
  BY <1>4, <1>5 DEF Ahead
<1>7. stack' \in Seq(All) /\ seen' \subseteq All
  BY <1>1, <1>2, <1>4
<1>8. Id!Based[0] \subseteq Ahead'
  BY <1>6 DEF SpellInv
<1>9. \A b \in seen', k \in Id!Numbers : b \in identities[k].bases => k \in Ahead'
  BY <1>1, <1>3, <1>6 DEF SpellInv
<1>10. /\ DOMAIN canon = UNION {Id!Spellings(k) : k \in seen}
       /\ \A s \in DOMAIN canon : \E k \in seen : s \in Id!Spellings(k) /\ canon[s] = Id!Canonical(k)
  BY DEF SpellInv
<1>11. /\ DOMAIN canon' = UNION {Id!Spellings(k) : k \in seen'}
       /\ \A s \in DOMAIN canon' : \E k \in seen' : s \in Id!Spellings(k) /\ canon'[s] = Id!Canonical(k)
  <2>1. CASE i \in seen
    <3>1. seen' = seen /\ canon' = canon
      BY <1>1, <2>1
    <3> QED BY <1>10, <3>1
  <2>2. CASE i \notin seen
    <3>1. canon' = [s \in DOMAIN canon \cup Id!Spellings(i) |->
                      IF s \in Id!Spellings(i) THEN Id!Meaning(i)[s] ELSE canon[s]]
      BY <1>1, <2>2
    <3>2. DOMAIN canon' = DOMAIN canon \cup Id!Spellings(i)
      BY <3>1
    <3>3. \A s \in Id!Spellings(i) : canon'[s] = Id!Canonical(i)
      BY <3>1 DEF Id!Meaning
    <3>4. \A s \in DOMAIN canon \ Id!Spellings(i) : canon'[s] = canon[s]
      BY <3>1
    <3>5. DOMAIN canon' = UNION {Id!Spellings(k) : k \in seen'}
      BY <1>1, <1>10, <3>2
    <3>6. ASSUME NEW s \in DOMAIN canon'
          PROVE  \E k \in seen' : s \in Id!Spellings(k) /\ canon'[s] = Id!Canonical(k)
      <4>1. CASE s \in Id!Spellings(i)
        BY <1>1, <3>3, <4>1
      <4>2. CASE s \notin Id!Spellings(i)
        BY <1>1, <1>10, <3>2, <3>4, <4>2
      <4> QED BY <4>1, <4>2
    <3> QED BY <3>5, <3>6
  <2> QED BY <2>1, <2>2
<1>12. /\ Id!WellFormed' = Id!WellFormed /\ Id!AllDerived' = All
       /\ Id!Numbers' = Id!Numbers /\ (Id!Based[0])' = Id!Based[0]
       /\ \A k : /\ Id!Spellings(k)' = Id!Spellings(k) /\ Id!Canonical(k)' = Id!Canonical(k)
                 /\ identities'[k] = identities[k]
  BY <1>1, FixedKept DEF All
<1>13. /\ Id!WellFormed'
       /\ stack' \in Seq(Id!AllDerived')
       /\ seen' \subseteq Id!AllDerived'
       /\ (Id!Based[0])' \subseteq Ahead'
  BY <1>1, <1>7, <1>8, <1>12
<1>14. \A b \in seen', k \in Id!Numbers' : b \in identities'[k].bases => k \in Ahead'
  BY <1>9, <1>12
<1>15. DOMAIN canon' = UNION {Id!Spellings(k)' : k \in seen'}
  BY <1>11, <1>12
<1>16. \A s \in DOMAIN canon' : \E k \in seen' : s \in Id!Spellings(k)' /\ canon'[s] = Id!Canonical(k)'
  BY <1>11, <1>12
<1> QED BY <1>13, <1>14, <1>15, <1>16 DEF SpellInv

LEMMA SpellNext ==
  ASSUME SpellInv, Id!Pop \/ UNCHANGED spelling
  PROVE  SpellInv'
<1>1. CASE Id!Pop
  BY <1>1, PopKeeps
<1>2. CASE UNCHANGED spelling
  <2>1. identities' = identities /\ order' = order /\ stack' = stack /\ seen' = seen /\ canon' = canon
    BY <1>2 DEF spelling
  <2>2. /\ Id!WellFormed' = Id!WellFormed /\ Id!AllDerived' = Id!AllDerived
        /\ Id!Numbers' = Id!Numbers /\ (Id!Based[0])' = Id!Based[0]
        /\ \A k : /\ Id!Spellings(k)' = Id!Spellings(k) /\ Id!Canonical(k)' = Id!Canonical(k)
    BY <2>1, FixedKept
  <2>3. Ahead' = Ahead
    BY <2>1 DEF Ahead
  <2> QED BY <2>1, <2>2, <2>3 DEF SpellInv
<1> QED BY <1>1, <1>2

(* When the stack is empty all derived identities were gone into.           *)
LEMMA AllSeen == ASSUME SpellInv, stack = <<>> PROVE seen = Id!AllDerived
<1>1. Range(stack) = {}
  BY DEF Range
<1>2. seen \subseteq Id!Numbers /\ Id!Based[0] \subseteq seen /\ ClosedDown(seen)
  BY <1>1, DerivedAre DEF SpellInv, Ahead, ClosedDown
<1> QED BY <1>2, DerivedAre DEF SpellInv

(* The spelling by module name, but for homonyms, means its identity.         *)
LEMMA CanonicalMeant ==
  ASSUME SpellInv, stack = <<>>, NEW i \in Id!AllDerived, ~Id!Homonyms(Id!Canonical(i))
  PROVE  Id!Canonical(i) \in DOMAIN canon /\ canon[Id!Canonical(i)] = Id!Canonical(i)
<1> DEFINE c == Id!Canonical(i)
<1>1. c \in Id!Spellings(i)
  BY DEF Id!Spellings
<1>2. seen = Id!AllDerived
  BY AllSeen
<1>3. c \in DOMAIN canon
  BY <1>1, <1>2 DEF SpellInv
<1>4. PICK k \in seen : c \in Id!Spellings(k) /\ canon[c] = Id!Canonical(k)
  BY <1>3 DEF SpellInv
<1>5. i \in Id!Who(c) /\ k \in Id!Who(c)
  BY <1>1, <1>2, <1>4 DEF Id!Who
<1>6. Id!Canonical(k) = c
  BY <1>5 DEF Id!Homonyms
<1> QED BY <1>3, <1>4, <1>6

LEMMA SpellingsMeant == SpellInv => Id!IdentitiesMeant
<1> SUFFICES ASSUME SpellInv, stack = <<>>
             PROVE  /\ DOMAIN canon = UNION {Id!Spellings(i) : i \in Id!AllDerived}
                    /\ \A s \in DOMAIN canon : Id!Encode(s) \in Id!Meant(s)
                    /\ \A i \in Id!AllDerived :
                         LET c == Id!Canonical(i)
                         IN ~Id!Homonyms(c) => /\ Id!Encode(c) = c /\ ~Id!DecodeRaises(c)
                                               /\ \A v \in Id!Decode(c) \cup Id!Default(c) : Id!Encode(v) = c
  BY DEF Id!IdentitiesMeant
<1>1. seen = Id!AllDerived
  BY AllSeen
<1>2. DOMAIN canon = UNION {Id!Spellings(i) : i \in Id!AllDerived}
  BY <1>1 DEF SpellInv
<1>3. ASSUME NEW s \in DOMAIN canon PROVE Id!Encode(s) \in Id!Meant(s)
  BY <1>1 DEF SpellInv, Id!Encode, Id!Meant, Id!Who
<1>4. ASSUME NEW i \in Id!AllDerived, NEW c, c = Id!Canonical(i), ~Id!Homonyms(c)
      PROVE  /\ Id!Encode(c) = c /\ ~Id!DecodeRaises(c)
             /\ \A v \in Id!Decode(c) \cup Id!Default(c) : Id!Encode(v) = c
  <2>1. c \in DOMAIN canon /\ canon[c] = c
    BY <1>4, CanonicalMeant
  <2>2. c.by # Bare
    BY <1>4, DerivedAre, IdentitiesAre DEF SpellInv
  <2>3. Id!Encode(c) = c /\ ~Id!DecodeRaises(c)
    BY <2>1, <2>2 DEF Id!Encode, Id!DecodeRaises
  <2>4. Id!Decode(c) = Id!Preferred(c) /\ Id!Default(c) = Id!Preferred(c)
    BY <2>1 DEF Id!Decode, Id!Default
  <2>5. \A v \in Id!Preferred(c) : v \in DOMAIN canon /\ canon[v] = c
    BY DEF Id!Preferred
  <2>6. \A v \in Id!Preferred(c) : Id!Encode(v) = c
    BY <2>5 DEF Id!Encode
  <2> QED BY <2>3, <2>4, <2>6
<1> QED BY <1>2, <1>3, <1>4

(* Climbing from an identity reaches all it is derived from.                 *)
LEMMA ReachedAre ==
  ASSUME Id!WellFormed, NEW i \in Id!Numbers
  PROVE  Passed(Id!BasesOf(Id!Canonical(i))) = {Id!CanonicalOf(a) : a \in Id!Ancestors(i) \ {i}}
<1> DEFINE from == Id!BasesOf(Id!Canonical(i))
           R == {Id!CanonicalOf(a) : a \in Id!Ancestors(i) \ {i}}
           P == Passed(from)
<1>1. /\ Count \in Nat /\ Id!Numbers = 1..Count
      /\ \A k \in Id!Numbers : identities[k].bases \subseteq 0..(k - 1)
  BY IdentitiesAre
<1>2. Id!Canonical(i) = Id!CanonicalOf(i)
  BY <1>1 DEF Id!CanonicalOf
<1>3. from = {Id!CanonicalOf(b) : b \in identities[i].bases}
  BY <1>2, CanonicalsAre
<1>4. from \in SUBSET Canonicals
  BY <1>1, <1>3 DEF Canonicals
<1> HIDE DEF from
<1>5. /\ from \subseteq P /\ Rising(P)
      /\ \A Y : from \subseteq Y /\ Rising(Y) => P \subseteq Y
  BY <1>4, PassedIs
<1>6. /\ Id!Ancestors(i) \subseteq 0..i /\ i \in Id!Ancestors(i)
      /\ ClosedUp(Id!Ancestors(i))
      /\ \A Y : i \in Y /\ ClosedUp(Y) => Id!Ancestors(i) \subseteq Y
  BY AncestorsAre
<1> HIDE DEF P
<1>7. from \subseteq R
  <2>1. \A b \in identities[i].bases : b \in Id!Ancestors(i) \ {i}
    BY <1>1, <1>6 DEF ClosedUp
  <2> QED BY <1>3, <2>1
<1>8. Rising(R)
  <2> SUFFICES ASSUME NEW a \in Id!Ancestors(i) \ {i} PROVE Id!BasesOf(Id!CanonicalOf(a)) \subseteq R
    BY DEF Rising
  <2>1. CASE a = 0
    BY <2>1, CanonicalsAre
  <2>2. CASE a # 0
    <3>1. a \in Id!Numbers /\ a < i
      BY <1>1, <1>6, <2>2
    <3>2. \A b \in identities[a].bases : b \in Id!Ancestors(i) \ {i}
      BY <1>1, <1>6, <3>1 DEF ClosedUp
    <3>3. Id!BasesOf(Id!CanonicalOf(a)) = {Id!CanonicalOf(b) : b \in identities[a].bases}
      BY <3>1, CanonicalsAre
    <3> QED BY <3>2, <3>3
  <2> QED BY <2>1, <2>2
<1>9. R \subseteq P
  <2> DEFINE Y == {i} \cup {a \in {0} \cup Id!Numbers : Id!CanonicalOf(a) \in P}
  <2>1. ASSUME NEW k \in Y \cap Id!Numbers PROVE identities[k].bases \subseteq Y
    <3>1. {Id!CanonicalOf(b) : b \in identities[k].bases} \subseteq P
      <4>1. CASE k = i
        BY <1>3, <1>5, <4>1
      <4>2. CASE k # i
        <5>1. Id!BasesOf(Id!CanonicalOf(k)) \subseteq P
          BY <1>5, <2>1, <4>2 DEF Rising
        <5> QED BY <2>1, <5>1, CanonicalsAre
      <4> QED BY <4>1, <4>2
    <3>2. \A b \in identities[k].bases : b \in {0} \cup Id!Numbers
      BY <1>1, <2>1
    <3> QED BY <3>1, <3>2
  <2>2. i \in Y /\ ClosedUp(Y)
    BY <2>1 DEF ClosedUp
  <2>3. Id!Ancestors(i) \subseteq Y
    BY <1>6, <2>2
  <2> QED BY <2>3
<1>10. P \subseteq R
  BY <1>5, <1>7, <1>8
<1>11. P = R
  BY <1>9, <1>10
<1> QED BY <1>11 DEF P, R, from

LEMMA ClimbsIs ==
  ASSUME NEW from, NEW target
  PROVE  Id!Climbs(from, target) <=> \E c \in Passed(from) : Id!Denotes(target, c)
BY DEF Id!Climbs, Passed, Passes, Climbed, Missing, Count

(* What one node decides.                                                  *)
Wanted(i, j, orSelf) ==
  j \in IF orSelf THEN Id!Ancestors(i) ELSE Id!Ancestors(i) \ {i}

LEMMA OneDecides ==
  ASSUME SpellInv, stack = <<>>, NEW i \in Id!AllDerived, ~Id!Homonyms(Id!Canonical(i)),
         NEW j \in {0} \cup Id!Numbers, NEW target, ~Id!Taken(target, j), NEW orSelf \in BOOLEAN
  PROVE  Id!OneDerived(Id!Canonical(i), target, orSelf)
           = IF Id!Denotes(target, Id!CanonicalOf(j)) /\ Wanted(i, j, orSelf) THEN "true" ELSE "false"
<1> DEFINE c == Id!Canonical(i)
           A == Id!Ancestors(i)
<1>1. c \in DOMAIN canon /\ canon[c] = c
  BY CanonicalMeant
<1>2. /\ Id!WellFormed /\ i \in Id!Numbers
      /\ \A k, l \in {0} \cup Id!Numbers : Id!CanonicalOf(k) = Id!CanonicalOf(l) => k = l
      /\ Count \in Nat /\ Id!Numbers = 1..Count
  BY DerivedAre, IdentitiesAre DEF SpellInv
<1>3. c = Id!CanonicalOf(i)
  BY <1>2 DEF Id!CanonicalOf
<1>4. ASSUME NEW k \in {0} \cup Id!Numbers, Id!Denotes(target, Id!CanonicalOf(k))
      PROVE  k = j
  <2>1. Id!CanonicalOf(k) = Id!CanonicalOf(j)
    BY <1>4 DEF Id!Taken
  <2> QED BY <1>2, <2>1
<1>5. A \subseteq {0} \cup Id!Numbers /\ i \in A
  BY <1>2, AncestorsAre
<1>6. Passed(Id!BasesOf(c)) = {Id!CanonicalOf(a) : a \in A \ {i}}
  BY <1>2, ReachedAre
<1> HIDE DEF c, A
<1>7. Id!Climbs(Id!BasesOf(c), target) <=> Id!Denotes(target, Id!CanonicalOf(j)) /\ j \in A \ {i}
  <2>1. Id!Climbs(Id!BasesOf(c), target) <=> \E e \in Passed(Id!BasesOf(c)) : Id!Denotes(target, e)
    BY ClimbsIs
  <2>2. (\E e \in Passed(Id!BasesOf(c)) : Id!Denotes(target, e))
          <=> \E a \in A \ {i} : Id!Denotes(target, Id!CanonicalOf(a))
    BY <1>6
  <2>3. (\E a \in A \ {i} : Id!Denotes(target, Id!CanonicalOf(a)))
          <=> Id!Denotes(target, Id!CanonicalOf(j)) /\ j \in A \ {i}
    BY <1>4, <1>5
  <2> QED BY <2>1, <2>2, <2>3
<1>8. Id!Denotes(target, c) <=> Id!Denotes(target, Id!CanonicalOf(j)) /\ j = i
  BY <1>2, <1>3, <1>4
<1>9. Wanted(i, j, orSelf) <=> IF orSelf THEN j \in A ELSE j \in A \ {i}
  BY DEF Wanted, A
<1>10. (orSelf /\ Id!Denotes(target, c)) \/ Id!Climbs(Id!BasesOf(c), target)
         <=> Id!Denotes(target, Id!CanonicalOf(j)) /\ Wanted(i, j, orSelf)
  BY <1>5, <1>7, <1>8, <1>9
<1>11. Id!OneDerived(c, target, orSelf)
         = IF (orSelf /\ Id!Denotes(target, c)) \/ Id!Climbs(Id!BasesOf(c), target)
           THEN "true" ELSE "false"
  BY <1>1 DEF Id!OneDerived
<1> QED BY <1>10, <1>11 DEF c

(* The first node that decides does; none may.                              *)
LEMMA TwoDecide ==
  ASSUME NEW a, NEW b, NEW target, NEW orSelf, NEW p \in BOOLEAN, NEW q \in BOOLEAN,
         Id!OneDerived(a, target, orSelf) = IF p THEN "true" ELSE "false",
         Id!OneDerived(b, target, orSelf) = IF q THEN "true" ELSE "false"
  PROVE  Id!DerivedFrom(<<a, b>>, target, orSelf) = IF p \/ q THEN "true" ELSE "false"
<1> DEFINE pair == <<a, b>>
           outcomes == [i \in DOMAIN pair |-> Id!OneDerived(pair[i], target, orSelf)]
           decides == {i \in DOMAIN pair : outcomes[i] # "false"}
           first == CHOOSE i \in decides : \A j \in decides : i <= j
<1>1. DOMAIN pair = {1, 2} /\ pair[1] = a /\ pair[2] = b
  OBVIOUS
<1>2. Id!DerivedFrom(pair, target, orSelf) = IF decides = {} THEN "false" ELSE outcomes[first]
  BY DEF Id!DerivedFrom
<1> HIDE DEF pair
<1>3. outcomes[1] = (IF p THEN "true" ELSE "false") /\ outcomes[2] = IF q THEN "true" ELSE "false"
  BY <1>1
<1> HIDE DEF outcomes
<1>4. decides \subseteq {1, 2} /\ (1 \in decides <=> p) /\ (2 \in decides <=> q)
  BY <1>1, <1>3
<1> HIDE DEF decides
<1>5. CASE ~p /\ ~q
  BY <1>2, <1>4, <1>5 DEF pair
<1>6. CASE p \/ q
  <2>1. decides \subseteq Nat /\ decides # {}
    BY <1>4, <1>6
  <2>2. \E i \in decides : \A j \in decides : i <= j
    BY <2>1, SmallestNumber
  <2>3. first \in decides
    BY <2>2
  <2> HIDE DEF first
  <2>4. outcomes[first] = "true"
    BY <1>3, <1>4, <2>3
  <2> QED BY <1>2, <1>6, <2>1, <2>4 DEF pair
<1> QED BY <1>5, <1>6

LEMMA DerivationsMeant == SpellInv => Id!DerivedMeant
<1> SUFFICES ASSUME SpellInv, stack = <<>>,
                    NEW i \in Id!AllDerived, NEW k \in Id!AllDerived, NEW j \in {0} \cup Id!Numbers,
                    NEW target \in Id!Written(j), ~Id!Taken(target, j)
             PROVE  LET nodesOf == <<Id!Canonical(i), Id!Canonical(k)>>
                        knows == Id!Denotes(target, Id!CanonicalOf(j))
                    IN ~Id!Homonyms(Id!Canonical(i)) /\ ~Id!Homonyms(Id!Canonical(k)) =>
                         /\ Id!DerivedFrom(nodesOf, target, FALSE) =
                              IF knows /\ j \in (Id!Ancestors(i) \ {i}) \cup (Id!Ancestors(k) \ {k})
                              THEN "true" ELSE "false"
                         /\ Id!DerivedFrom(nodesOf, target, TRUE) =
                              IF knows /\ j \in Id!Ancestors(i) \cup Id!Ancestors(k)
                              THEN "true" ELSE "false"
  BY DEF Id!DerivedMeant
<1> DEFINE pair == <<Id!Canonical(i), Id!Canonical(k)>>
           known == Id!Denotes(target, Id!CanonicalOf(j))
<1> SUFFICES ASSUME ~Id!Homonyms(Id!Canonical(i)), ~Id!Homonyms(Id!Canonical(k))
             PROVE  /\ Id!DerivedFrom(pair, target, FALSE) =
                         IF known /\ j \in (Id!Ancestors(i) \ {i}) \cup (Id!Ancestors(k) \ {k})
                         THEN "true" ELSE "false"
                    /\ Id!DerivedFrom(pair, target, TRUE) =
                         IF known /\ j \in Id!Ancestors(i) \cup Id!Ancestors(k) THEN "true" ELSE "false"
  OBVIOUS
<1> DEFINE Says(e, orSelf) == IF known /\ Wanted(e, j, orSelf) THEN TRUE ELSE FALSE
<1>1. ASSUME NEW orSelf \in BOOLEAN
      PROVE  Id!DerivedFrom(pair, target, orSelf) =
               IF Says(i, orSelf) \/ Says(k, orSelf) THEN "true" ELSE "false"
  <2>1. Id!OneDerived(Id!Canonical(i), target, orSelf) = IF Says(i, orSelf) THEN "true" ELSE "false"
    BY OneDecides
  <2>2. Id!OneDerived(Id!Canonical(k), target, orSelf) = IF Says(k, orSelf) THEN "true" ELSE "false"
    BY OneDecides
  <2>3. Says(i, orSelf) \in BOOLEAN /\ Says(k, orSelf) \in BOOLEAN
    OBVIOUS
  <2> HIDE DEF Says
  <2> QED BY <2>1, <2>2, <2>3, TwoDecide
<1>2. Says(i, FALSE) \/ Says(k, FALSE)
        <=> known /\ j \in (Id!Ancestors(i) \ {i}) \cup (Id!Ancestors(k) \ {k})
  BY DEF Wanted
<1>3. Says(i, TRUE) \/ Says(k, TRUE) <=> known /\ j \in Id!Ancestors(i) \cup Id!Ancestors(k)
  BY DEF Wanted
<1> HIDE DEF Says
<1>4. /\ Id!DerivedFrom(pair, target, FALSE) =
           IF Says(i, FALSE) \/ Says(k, FALSE) THEN "true" ELSE "false"
      /\ Id!DerivedFrom(pair, target, TRUE) =
           IF Says(i, TRUE) \/ Says(k, TRUE) THEN "true" ELSE "false"
  BY <1>1
<1> QED BY <1>2, <1>3, <1>4

(* The values of an identityref are the spellings of the identities derived      *)
(* from its base, and mean them, also to derived-from(): whatever modules,      *)
(* prefixes and bases there are, however far the bases, and in any order.       *)
THEOREM IdentitiesAreMeant == ProgramSpec => []IdentitiesMeant
<1> DEFINE Inv == program = "spell" => SpellInv
<1>1. ProgramInit => Inv
  BY SpellInit DEF ProgramInit, SpellStart
<1>2. Inv /\ [ProgramNext]_pvars => Inv'
  <2> SUFFICES ASSUME Inv, [ProgramNext]_pvars, program' = "spell"
               PROVE  SpellInv'
    OBVIOUS
  <2>1. program = "spell" /\ (Id!Pop \/ UNCHANGED spelling)
    BY DEF ProgramNext, pvars
  <2> QED BY <2>1, SpellNext
<1>3. Inv => IdentitiesMeant
  BY SpellingsMeant, DerivationsMeant DEF IdentitiesMeant
<1> QED BY <1>1, <1>2, <1>3, PTL DEF ProgramSpec

-----------------------------------------------------------------------------
(* Instance identifiers                                                    *)

Way == Len(I!Steps)

(* What of an object its field f holds is of the kind of f.                 *)
LEMMA ObjectsAre ==
  ASSUME I!WellFormed
  PROVE  /\ Len(heap) \in Nat /\ I!Objects = 1..Len(heap)
         /\ Way \in Nat \ {0}
         /\ \A o \in I!Objects : I!ObjectOK(o)
         /\ \A i \in 1..Way : I!Steps[i].predicates \in Seq(I!Range(I!Steps[i].predicates))
                                /\ I!StepOK(I!Steps[i])
         /\ \A f \in SchemaFields : f.kind \in {"container", "list", "leaf-list", "leaf", "bit"}
         /\ I!SchemaOK
BY DEF I!WellFormed, I!SchemaOK, I!Objects, Way

(* An object has no field that is a bit.                                     *)
LEMMA KindsAre ==
  ASSUME I!WellFormed, NEW o \in I!Objects, NEW f \in I!FieldsOf(heap[o].cls)
  PROVE  /\ f \in SchemaFields /\ f.cls = heap[o].cls
         /\ f.kind \in {"container", "list", "leaf-list", "leaf"}
         /\ f.kind \in {"container", "list"} => f.sub # Nothing /\ I!ClassOf(f) = f.sub
         /\ f.kind \in {"leaf-list", "leaf"} => I!ClassOf(f) = Nothing
<1>1. I!ObjectOK(o) /\ f \in SchemaFields /\ f.cls = heap[o].cls
  BY ObjectsAre DEF I!FieldsOf
<1>2. f.kind # "bit"
  BY <1>1 DEF I!ObjectOK
<1> QED BY <1>1, <1>2, ObjectsAre DEF I!SchemaOK, I!ClassOf

LEMMA AttrIs ==
  ASSUME I!WellFormed, NEW o \in I!Objects, NEW f \in I!FieldsOf(heap[o].cls),
         I!Attr(o, f.attr) # Nothing
  PROVE  /\ f.kind = "container" =>
              /\ I!Attr(o, f.attr) \in I!Objects /\ I!Attr(o, f.attr) > o
              /\ heap[I!Attr(o, f.attr)].cls = f.sub
         /\ f.kind = "list" => \A j \in DOMAIN I!Attr(o, f.attr) :
              /\ I!Attr(o, f.attr)[j] \in I!Objects /\ I!Attr(o, f.attr)[j] > o
              /\ heap[I!Attr(o, f.attr)[j]].cls = f.sub
         /\ f.kind \in {"list", "leaf-list"} =>
              /\ Len(I!Attr(o, f.attr)) \in Nat
              /\ DOMAIN I!Attr(o, f.attr) = 1..Len(I!Attr(o, f.attr))
              /\ I!Attr(o, f.attr) = [j \in 1..Len(I!Attr(o, f.attr)) |-> I!Attr(o, f.attr)[j]]
<1>1. I!ObjectOK(o)
  BY ObjectsAre
<1> DEFINE v == I!Attr(o, f.attr)
<1>2. /\ f.kind = "container" => v \in I!Objects /\ v > o /\ heap[v].cls = f.sub
      /\ f.kind = "list" => \A j \in DOMAIN v : v[j] \in I!Objects /\ v[j] > o /\ heap[v[j]].cls = f.sub
      /\ f.kind \in {"list", "leaf-list"} => v = [j \in 1..Len(v) |-> v[j]] /\ Len(v) \in Nat
  BY <1>1 DEF I!ObjectOK
<1> HIDE DEF v
<1>3. f.kind \in {"list", "leaf-list"} => DOMAIN v = 1..Len(v)
  BY <1>2
<1> QED BY <1>2, <1>3 DEF v

(* Whether an object has data: the recursive definition says what it seems to. *)
Holds(o, f) ==
  LET v == I!Attr(o, f.attr)
  IN /\ v # Nothing
     /\ CASE f.kind = "container" -> I!HasData[v] \/ (f.sub \in Presence /\ heap[v].marked)
          [] f.kind \in {"list", "leaf-list"} -> v # <<>>
          [] f.kind = "leaf" -> ~I!Unset(f, v)

LEMMA ObjectHasData ==
  ASSUME I!WellFormed, NEW o \in I!Objects
  PROVE  I!HasData[o] = \E f \in I!FieldsOf(heap[o].cls) : Holds(o, f)
<1> DEFINE D == I!Objects
           N == Len(heap)
           holds(p, f, h) ==
             LET v == I!Attr(p, f.attr)
             IN /\ v # Nothing
                /\ CASE f.kind = "container" -> h[v] \/ (f.sub \in Presence /\ heap[v].marked)
                     [] f.kind \in {"list", "leaf-list"} -> v # <<>>
                     [] f.kind = "leaf" -> ~I!Unset(f, v)
           body(p, h) == \E f \in I!FieldsOf(heap[p].cls) : holds(p, f, h)
           within(T) == [p \in D |-> IF p \in T THEN TRUE ELSE FALSE]
           R == {q \in D \X SUBSET D : body(q[1], within(q[2]))}
           r == [p \in D |-> N - p]
<1>1. N \in Nat /\ D = 1..N
  BY ObjectsAre
<1>2. r \in [D -> Nat] /\ \A p \in D : r[p] < N + 1
  BY <1>1
<1>3. ASSUME NEW p \in D, NEW T \in SUBSET D, NEW U \in SUBSET D,
             \A q \in D : r[q] < r[p] => (q \in T <=> q \in U)
      PROVE  <<p, T>> \in R <=> <<p, U>> \in R
  <2>1. \A q \in D : q > p => (within(T)[q] <=> within(U)[q])
    BY <1>1, <1>3
  <2>2. ASSUME NEW f \in I!FieldsOf(heap[p].cls)
        PROVE  holds(p, f, within(T)) <=> holds(p, f, within(U))
    <3> DEFINE v == I!Attr(p, f.attr)
    <3>1. v # Nothing /\ f.kind = "container" => v \in D /\ v > p
      BY AttrIs
    <3>2. ASSUME v # Nothing, f.kind = "container"
          PROVE  within(T)[v] = within(U)[v]
      <4>1. within(T)[v] \in BOOLEAN /\ within(U)[v] \in BOOLEAN
        BY <3>1, <3>2
      <4> HIDE DEF v, within
      <4> QED BY <2>1, <3>1, <3>2, <4>1
    <3> HIDE DEF v, within
    <3>3. CASE v = Nothing
      BY <3>3 DEF v
    <3>4. CASE v # Nothing /\ f.kind = "container"
      <4>1. holds(p, f, within(T)) <=> (within(T)[v] \/ (f.sub \in Presence /\ heap[v].marked))
        BY <3>4 DEF v
      <4>2. holds(p, f, within(U)) <=> (within(U)[v] \/ (f.sub \in Presence /\ heap[v].marked))
        BY <3>4 DEF v
      <4> HIDE DEF holds
      <4> QED BY <3>2, <3>4, <4>1, <4>2
    <3>5. CASE v # Nothing /\ f.kind # "container"
      <4>1. f.kind \in {"list", "leaf-list", "leaf"}
        BY <3>5, KindsAre
      <4> QED BY <3>5, <4>1 DEF v
    <3> HIDE DEF holds
    <3> QED BY <3>3, <3>4, <3>5
  <2> HIDE DEF within, holds
  <2>3. body(p, within(T)) <=> body(p, within(U))
    BY <2>2
  <2> QED BY <2>3
<1>4. \E T \in SUBSET D : \A p \in D : p \in T <=> <<p, T>> \in R
  <2>1. N + 1 \in Nat
    BY <1>1
  <2> HIDE DEF R, r, D, N, within, body
  <2>2. Ranked(D, r, N + 1, R)
    BY <1>2, <1>3, <2>1 DEF Ranked
  <2> QED BY <2>2, RecursionByRank
<1>5. PICK T \in SUBSET D : \A p \in D : p \in T <=> <<p, T>> \in R
  BY <1>4
<1>6. \A p \in D : \A h : body(p, h) \in BOOLEAN
  OBVIOUS
<1>7. within(T) = [p \in D |-> body(p, within(T))]
  <2>1. ASSUME NEW p \in D PROVE within(T)[p] = body(p, within(T))
    <3>1. within(T)[p] \in BOOLEAN /\ (within(T)[p] <=> p \in T)
      OBVIOUS
    <3>2. p \in T <=> body(p, within(T))
      <4> HIDE DEF within, body
      <4> QED BY <1>5
    <3> HIDE DEF within, body
    <3> QED BY <1>6, <3>1, <3>2
  <2>2. within(T) = [p \in D |-> within(T)[p]]
    OBVIOUS
  <2> HIDE DEF within, body
  <2> QED BY <2>1, <2>2
<1>8. I!HasData = [p \in D |-> body(p, I!HasData)]
  <2> HIDE DEF within
  <2>1. \E h : h = [p \in D |-> body(p, h)]
    BY <1>7
  <2>2. I!HasData = CHOOSE h : h = [p \in D |-> body(p, h)]
    BY DEF I!HasData
  <2> HIDE DEF body
  <2> QED BY <2>1, <2>2
<1>9. I!HasData[o] = body(o, I!HasData)
  <2> HIDE DEF body
  <2> QED BY <1>8
<1> QED BY <1>9 DEF Holds

(* The first j of L positions are j.                                        *)
LEMMA CountUpTo ==
  ASSUME NEW L \in Nat, NEW j \in 1..L
  PROVE  I!Cardinality({h \in 1..L : h <= j}) = j
<1>1. {h \in 1..L : h <= j} = 1..j
  OBVIOUS
<1>2. Cardinality(1..j) = j
  BY FS_Interval
<1>3. I!Cardinality(1..j) = Cardinality(1..j)
  BY DEF I!Cardinality, Cardinality
<1> QED BY <1>1, <1>2, <1>3

(* What is left by all predicates meets each of them.                        *)
LEMMA LeftIs ==
  ASSUME NEW f, NEW vs, NEW L \in Nat, DOMAIN vs = 1..L,
         NEW preds, NEW N \in Nat, DOMAIN preds = 1..N, Len(preds) = N,
         \A i \in 1..N : IF preds[i].key = Nothing THEN N = 1 ELSE preds[i].want # Nothing
  PROVE  I!Left(f, vs, preds) = {j \in 1..L : I!MeetsAll(f, vs, j, preds)}
<1> DEFINE D == 1..L
           counted(n, T) == {j \in T : I!Cardinality({h \in T : h <= j}) = preds[n].want}
           keyed(n, T) == {j \in T : /\ I!Keyed(f, vs[j], preds[n].key) # Nothing
                                     /\ I!Keyed(f, vs[j], preds[n].key) = preds[n].want}
           after(n, T) == IF preds[n].key = Nothing THEN counted(n, T) ELSE keyed(n, T)
           H == [n \in 1..N |-> [T \in SUBSET D |-> after(n, T)]]
           Lefts(g) == g = [n \in 0..N |-> IF n = 0 THEN DOMAIN vs
                              ELSE IF preds[n].key = Nothing
                              THEN {j \in g[n - 1] :
                                      I!Cardinality({h \in g[n - 1] : h <= j}) = preds[n].want}
                              ELSE {j \in g[n - 1] :
                                      /\ I!Keyed(f, vs[j], preds[n].key) # Nothing
                                      /\ I!Keyed(f, vs[j], preds[n].key) = preds[n].want}]
           left == CHOOSE g : Lefts(g)
           meets(i, j) == IF preds[i].key = Nothing THEN j = preds[i].want
                          ELSE I!Keyed(f, vs[j], preds[i].key) = preds[i].want
           Met(n) == {j \in D : \A i \in 1..n : meets(i, j)}
<1>1. \A n \in 1..N, T \in SUBSET D : after(n, T) \in SUBSET D
  OBVIOUS
<1>2. H \in [1..N -> [SUBSET D -> SUBSET D]]
  <2> HIDE DEF after, D
  <2> QED BY <1>1
<1>3. \E g : Lefts(g)
  <2>1. PICK g \in [0..N -> SUBSET D] : Goes(g, N, D, H)
    <3> HIDE DEF H, D
    <3>1. D \in SUBSET D
      OBVIOUS
    <3> QED BY <1>2, <3>1, FoldExists
  <2>2. g = [n \in 0..N |-> IF n = 0 THEN D ELSE H[n][g[n - 1]]]
    BY <2>1 DEF Goes
  <2>3. ASSUME NEW n \in 0..N
        PROVE  (IF n = 0 THEN D ELSE H[n][g[n - 1]]) = IF n = 0 THEN D ELSE after(n, g[n - 1])
    <3>1. n # 0 => n \in 1..N /\ g[n - 1] \in SUBSET D
      <4> HIDE DEF H, D, after
      <4> QED BY <2>1
    <3> HIDE DEF D, after
    <3> QED BY <3>1
  <2>4. g = [n \in 0..N |-> IF n = 0 THEN D ELSE after(n, g[n - 1])]
    <3> HIDE DEF H, D, after
    <3> QED BY <2>2, <2>3
  <2>5. D = DOMAIN vs
    OBVIOUS
  <2> HIDE DEF D
  <2>6. Lefts(g)
    BY <2>4, <2>5
  <2> QED BY <2>6
<1>4. Lefts(left)
  <2> HIDE DEF Lefts
  <2> QED BY <1>3
<1>5. left = [n \in 0..N |-> IF n = 0 THEN D ELSE after(n, left[n - 1])]
  <2> HIDE DEF left
  <2> QED BY <1>4
<1>6. I!Left(f, vs, preds) = left[N]
  BY DEF I!Left
<1> HIDE DEF Lefts, left
<1>7. left[0] = D /\ \A n \in 1..N : left[n] = after(n, left[n - 1])
  <2> HIDE DEF after, D
  <2>1. \A n \in 0..N : left[n] = IF n = 0 THEN D ELSE after(n, left[n - 1])
    BY <1>5
  <2> QED BY <2>1
<1>8. \A n \in 1..N, T \in SUBSET D : preds[n].key # Nothing => after(n, T) = {j \in T : meets(n, j)}
  OBVIOUS
<1>9. \A n \in 1..N : preds[n].key = Nothing => N = 1 /\ n = 1 /\ after(n, D) = {j \in D : meets(n, j)}
  <2> SUFFICES ASSUME NEW n \in 1..N, preds[n].key = Nothing
               PROVE  N = 1 /\ n = 1 /\ after(n, D) = {j \in D : meets(n, j)}
    OBVIOUS
  <2>1. N = 1 /\ n = 1
    OBVIOUS
  <2>2. \A j \in D : I!Cardinality({h \in D : h <= j}) = j
    BY CountUpTo
  <2>3. after(n, D) = {j \in D : I!Cardinality({h \in D : h <= j}) = preds[n].want}
    OBVIOUS
  <2>4. \A j \in D : meets(n, j) <=> j = preds[n].want
    OBVIOUS
  <2> HIDE DEF after, meets, D
  <2> QED BY <2>1, <2>2, <2>3, <2>4
<1> DEFINE A == {n \in Nat : n <= N => left[n] = Met(n)}
<1>10. 0 \in A
  BY <1>7
<1>11. \A n \in Nat : n \in A => n + 1 \in A
  <2> SUFFICES ASSUME NEW n \in Nat, n + 1 <= N, n <= N => left[n] = Met(n)
               PROVE  left[n + 1] = Met(n + 1)
    <3> HIDE DEF Met
    <3> QED OBVIOUS
  <2>1. n + 1 \in 1..N /\ (n + 1) - 1 = n
    OBVIOUS
  <2>2. left[n + 1] = after(n + 1, Met(n)) /\ Met(n) \in SUBSET D
    <3>1. Met(n) \in SUBSET D
      OBVIOUS
    <3>2. left[n] = Met(n)
      OBVIOUS
    <3> HIDE DEF after, Met
    <3> QED BY <1>7, <2>1, <3>1, <3>2
  <2>3. Met(n + 1) = {j \in Met(n) : meets(n + 1, j)}
    <3> HIDE DEF meets
    <3> QED OBVIOUS
  <2>4. CASE preds[n + 1].key # Nothing
    <3> HIDE DEF after, meets, Met
    <3> QED BY <1>8, <2>1, <2>2, <2>3, <2>4
  <2>5. CASE preds[n + 1].key = Nothing
    <3>1. n = 0
      BY <1>9, <2>1, <2>5
    <3>2. Met(0) = D
      OBVIOUS
    <3> HIDE DEF after, meets, Met
    <3> QED BY <1>9, <2>1, <2>2, <2>3, <2>5, <3>1, <3>2
  <2> QED BY <2>4, <2>5
<1>12. left[N] = Met(N)
  <2> HIDE DEF A
  <2>1. Nat \subseteq A
    BY <1>10, <1>11, NumbersInduction
  <2> QED BY <2>1 DEF A
<1>13. Met(N) = {j \in 1..L : I!MeetsAll(f, vs, j, preds)}
  BY DEF I!MeetsAll
<1> QED BY <1>6, <1>12, <1>13

(* What a step is looked up in: its module, and all schema nodes it may mean.  *)
LEMMA StepModuleIs ==
  ASSUME I!WellFormed
  PROVE  /\ I!StepModule[0] = Nothing
         /\ \A i \in 1..Way : I!StepModule[i] = IF I!Steps[i].module = Nothing THEN I!StepModule[i - 1]
                                                ELSE I!Steps[i].module
<1> DEFINE n == Way
           S == {Nothing} \cup {I!Steps[i].module : i \in 1..n}
           after(i, m) == IF I!Steps[i].module = Nothing THEN m ELSE I!Steps[i].module
           H == [i \in 1..n |-> [m \in S |-> after(i, m)]]
           Modules(g) == g = [i \in 0..n |-> IF i = 0 THEN Nothing
                                             ELSE IF I!Steps[i].module = Nothing THEN g[i - 1]
                                             ELSE I!Steps[i].module]
<1>1. n \in Nat
  BY ObjectsAre
<1>2. \A i \in 1..n, m \in S : after(i, m) \in S
  OBVIOUS
<1>3. H \in [1..n -> [S -> S]] /\ Nothing \in S
  <2> HIDE DEF after, n
  <2>1. Nothing \in S
    OBVIOUS
  <2> HIDE DEF S
  <2> QED BY <1>2, <2>1
<1>4. \E g : Modules(g)
  <2>1. PICK g \in [0..n -> S] : Goes(g, n, Nothing, H)
    <3> HIDE DEF H, S, n
    <3> QED BY <1>1, <1>3, FoldExists
  <2>2. g = [i \in 0..n |-> IF i = 0 THEN Nothing ELSE H[i][g[i - 1]]]
    BY <2>1 DEF Goes
  <2>3. ASSUME NEW i \in 0..n
        PROVE  (IF i = 0 THEN Nothing ELSE H[i][g[i - 1]]) = IF i = 0 THEN Nothing ELSE after(i, g[i - 1])
    <3>1. i # 0 => i \in 1..n /\ g[i - 1] \in S
      <4> HIDE DEF H, S, after, n
      <4> QED BY <1>1, <2>1
    <3> HIDE DEF S, after, n
    <3> QED BY <3>1
  <2>4. g = [i \in 0..n |-> IF i = 0 THEN Nothing ELSE after(i, g[i - 1])]
    <3> HIDE DEF H, S, after, n
    <3> QED BY <2>2, <2>3
  <2> HIDE DEF n
  <2>5. Modules(g)
    BY <2>4
  <2> QED BY <2>5
<1>5. Modules(I!StepModule)
  <2>1. I!StepModule = CHOOSE g : Modules(g)
    BY DEF I!StepModule, Way
  <2> HIDE DEF Modules
  <2> QED BY <1>4, <2>1
<1>6. I!StepModule = [i \in 0..n |-> IF i = 0 THEN Nothing ELSE after(i, I!StepModule[i - 1])]
  BY <1>5
<1> HIDE DEF Modules, n
<1>7. \A i \in 0..n : I!StepModule[i] = IF i = 0 THEN Nothing ELSE after(i, I!StepModule[i - 1])
  <2> HIDE DEF after
  <2> QED BY <1>6
<1> QED BY <1>1, <1>7 DEF n

Means(g, i) ==
  /\ g.name = I!Steps[i].name /\ g.module = I!StepModule[i]
  /\ ~I!NoKey(g, I!Steps[i].predicates)

LEMMA SchemaNodesAre ==
  ASSUME I!WellFormed
  PROVE  \A i \in 1..Way :
           LET from == IF i = 1 THEN I!Range(I!RootClasses) ELSE {f.sub : f \in I!SchemaNodes[i - 1]}
           IN I!SchemaNodes[i] = {f \in SchemaFields : f.cls \in from /\ Means(f, i)}
<1> DEFINE n == Way
           S == SUBSET SchemaFields
           from(i, T) == IF i = 0 THEN {} ELSE IF i = 1 THEN I!Range(I!RootClasses) ELSE {f.sub : f \in T}
           after(i, T) == {f \in SchemaFields : /\ f.cls \in from(i, T)
                                          /\ f.name = I!Steps[i].name /\ f.module = I!StepModule[i]
                                          /\ ~I!NoKey(f, I!Steps[i].predicates)}
           H == [i \in 1..n |-> [T \in S |-> after(i, T)]]
           Found(g) == g = [i \in 0..n |-> after(i, g[i - 1])]
<1>1. n \in Nat
  BY ObjectsAre
<1>2. \A i \in 1..n, T \in S : after(i, T) \in S
  <2> HIDE DEF from
  <2> QED OBVIOUS
<1>3. H \in [1..n -> [S -> S]] /\ {} \in S
  <2>1. {} \in S
    OBVIOUS
  <2> HIDE DEF after, n, S
  <2> QED BY <1>2, <2>1
<1>4. \A T : after(0, T) = {}
  OBVIOUS
<1>5. \E g : Found(g)
  <2>1. PICK g \in [0..n -> S] : Goes(g, n, {}, H)
    <3> HIDE DEF H, S, n
    <3> QED BY <1>1, <1>3, FoldExists
  <2>2. g = [i \in 0..n |-> IF i = 0 THEN {} ELSE H[i][g[i - 1]]]
    BY <2>1 DEF Goes
  <2>3. ASSUME NEW i \in 0..n
        PROVE  (IF i = 0 THEN {} ELSE H[i][g[i - 1]]) = after(i, g[i - 1])
    <3>1. i # 0 => i \in 1..n /\ g[i - 1] \in S
      <4> HIDE DEF H, S, after, n
      <4> QED BY <1>1, <2>1
    <3>2. i = 0 => after(i, g[i - 1]) = {}
      BY <1>4
    <3> HIDE DEF S, after, n
    <3> QED BY <3>1, <3>2
  <2>4. g = [i \in 0..n |-> after(i, g[i - 1])]
    <3> HIDE DEF H, S, after, n
    <3> QED BY <2>2, <2>3
  <2> HIDE DEF n, after
  <2>5. Found(g)
    BY <2>4
  <2> QED BY <2>5
<1>6. Found(I!SchemaNodes)
  <2>1. I!SchemaNodes = CHOOSE g : Found(g)
    BY DEF I!SchemaNodes, Way
  <2> HIDE DEF Found
  <2> QED BY <1>5, <2>1
<1>7. \A i \in 0..n : I!SchemaNodes[i] = after(i, I!SchemaNodes[i - 1])
  <2> HIDE DEF after, n
  <2> QED BY <1>6
<1> DEFINE goal(i, T) == {f \in SchemaFields :
             f.cls \in (IF i = 1 THEN I!Range(I!RootClasses) ELSE {h.sub : h \in T}) /\ Means(f, i)}
<1>8. \A i \in 1..n : \A T : after(i, T) = goal(i, T)
  BY DEF Means
<1> HIDE DEF Found, after, goal
<1>9. ASSUME NEW i \in 1..Way
      PROVE  I!SchemaNodes[i] = goal(i, I!SchemaNodes[i - 1])
  BY <1>1, <1>7, <1>8
<1> QED BY <1>9 DEF goal

(* Where no node is meant none is meant further down.                        *)
LEMMA NoneFurther ==
  ASSUME I!WellFormed, NEW i \in 1..Way, I!SchemaNodes[i] = {}
  PROVE  I!SchemaNodes[Way] = {}
<1> DEFINE A == {k \in Nat : i + k <= Way => I!SchemaNodes[i + k] = {}}
<1>1. Way \in Nat /\ 0 \in A
  BY ObjectsAre
<1>2. \A k \in Nat : k \in A => k + 1 \in A
  <2> SUFFICES ASSUME NEW k \in Nat, i + (k + 1) <= Way, I!SchemaNodes[i + k] = {}
               PROVE  I!SchemaNodes[i + (k + 1)] = {}
    BY <1>1
  <2> DEFINE m == i + (k + 1)
  <2>1. m \in 1..Way /\ m # 1 /\ m - 1 = i + k
    BY <1>1
  <2>2. I!SchemaNodes[m] = {f \in SchemaFields : f.cls \in {g.sub : g \in I!SchemaNodes[m - 1]} /\ Means(f, m)}
    <3> HIDE DEF m
    <3> QED BY <2>1, SchemaNodesAre
  <2> QED BY <2>1, <2>2
<1>3. Nat \subseteq A
  <2> HIDE DEF A
  <2> QED BY <1>1, <1>2, NumbersInduction
<1>4. Way - i \in Nat /\ i + (Way - i) = Way
  BY <1>1
<1> QED BY <1>1, <1>3, <1>4

(* An instance of a class is an object of it.                                *)
Placed(n) == n.cls # Nothing => n.v \in I!Objects /\ heap[n.v].cls = n.cls

LEMMA InstancesPlaced ==
  ASSUME I!WellFormed, NEW o \in I!Objects, NEW f \in I!FieldsOf(heap[o].cls), NEW preds,
         NEW m \in I!Instances(o, f, preds)
  PROVE  m.cls = I!ClassOf(f) /\ Placed(m)
<1> DEFINE v == I!Attr(o, f.attr)
<1>1. v # Nothing
  BY DEF I!Instances
<1>2. /\ f.kind = "container" => v \in I!Objects /\ heap[v].cls = f.sub
      /\ f.kind = "list" => \A j \in DOMAIN v : v[j] \in I!Objects /\ heap[v[j]].cls = f.sub
  BY <1>1, AttrIs
<1>3. /\ f.kind \in {"container", "list", "leaf-list", "leaf"}
      /\ f.kind \in {"container", "list"} => I!ClassOf(f) = f.sub
      /\ f.kind \in {"leaf-list", "leaf"} => I!ClassOf(f) = Nothing
  BY KindsAre
<1> HIDE DEF v
<1>4. CASE f.kind = "container"
  BY <1>1, <1>2, <1>3, <1>4 DEF I!Instances, v, Placed
<1>5. CASE f.kind \in {"list", "leaf-list"}
  <2>1. PICK j \in DOMAIN v : m = [cls |-> I!ClassOf(f), v |-> v[j]]
    BY <1>1, <1>5 DEF I!Instances, v
  <2> QED BY <1>2, <1>3, <1>5, <2>1 DEF Placed
<1>6. CASE f.kind = "leaf"
  BY <1>1, <1>3, <1>6 DEF I!Instances, v, Placed
<1> QED BY <1>3, <1>4, <1>5, <1>6

Named(i) == {f \in SchemaFields : f.name = I!Steps[i].name /\ f.module = I!StepModule[i]}
InstancesAt(n, i) == UNION {I!Instances(n.v, f, I!Steps[i].predicates) : f \in I!FieldsOf(n.cls) \cap Named(i)}
FirstInstances == {[cls |-> I!RootClasses[r], v |-> roots[r]] : r \in DOMAIN roots}

LEMMA RootsAre ==
  ASSUME I!WellFormed
  PROVE  /\ \A r \in DOMAIN roots : roots[r] \in I!Objects
         /\ I!RootClasses = [r \in DOMAIN roots |-> heap[roots[r]].cls]
         /\ \A r \in DOMAIN roots : I!RootClasses[r] # Nothing
<1>1. roots \in Seq(I!Objects) /\ \A o \in I!Objects : heap[o].cls # Nothing
  BY ObjectsAre DEF I!WellFormed, I!ObjectOK
<1>2. \A r \in DOMAIN roots : roots[r] \in I!Objects
  BY <1>1
<1> QED BY <1>1, <1>2 DEF I!RootClasses, I!Roots

LEMMA DenotedAre ==
  ASSUME I!WellFormed
  PROVE  /\ I!Denoted[0] = FirstInstances
         /\ \A i \in 1..Way :
              I!Denoted[i] = UNION {InstancesAt(n, i) : n \in {n \in I!Denoted[i - 1] : n.cls # Nothing}}
         /\ \A i \in 0..Way : \A n \in I!Denoted[i] : Placed(n)
<1> DEFINE w == Way
           of(o, i) == UNION {I!Instances(o, f, I!Steps[i].predicates) : f \in I!FieldsOf(heap[o].cls)}
           U0 == FirstInstances \cup UNION {UNION {of(o, i) : o \in I!Objects} : i \in 1..w}
           U == {n \in U0 : Placed(n)}
           S == SUBSET U
           after(i, T) == UNION {InstancesAt(n, i) : n \in {n \in T : n.cls # Nothing}}
           H == [i \in 1..w |-> [T \in S |-> after(i, T)]]
           Found(g) == g = [i \in 0..w |->
             IF i = 0 THEN {[cls |-> I!RootClasses[r], v |-> roots[r]] : r \in DOMAIN roots}
             ELSE UNION {UNION {I!Instances(n.v, f, I!Steps[i].predicates) :
                                f \in {f \in I!FieldsOf(n.cls) : f.name = I!Steps[i].name
                                                                  /\ f.module = I!StepModule[i]}} :
                         n \in {n \in g[i - 1] : n.cls # Nothing}}]
<1>1. w \in Nat
  BY ObjectsAre
<1>2. FirstInstances \in S
  <2>1. ASSUME NEW n \in FirstInstances PROVE n \in U
    <3>1. PICK r \in DOMAIN roots : n = [cls |-> I!RootClasses[r], v |-> roots[r]]
      BY DEF FirstInstances
    <3>2. Placed(n)
      BY <3>1, RootsAre DEF Placed
    <3> QED BY <3>2
  <2> HIDE DEF U
  <2> QED BY <2>1
<1>3. ASSUME NEW i \in 1..w, NEW n \in U, n.cls # Nothing
      PROVE  InstancesAt(n, i) \subseteq U
  <2> SUFFICES ASSUME NEW m \in InstancesAt(n, i) PROVE m \in U
    OBVIOUS
  <2>1. PICK f \in I!FieldsOf(n.cls) : m \in I!Instances(n.v, f, I!Steps[i].predicates)
    BY DEF InstancesAt
  <2>2. n.v \in I!Objects /\ heap[n.v].cls = n.cls
    BY <1>3 DEF Placed
  <2>3. Placed(m)
    BY <2>1, <2>2, InstancesPlaced
  <2>4. m \in of(n.v, i)
    BY <2>1, <2>2
  <2>5. m \in U0
    <3> HIDE DEF of, w
    <3> QED BY <2>2, <2>4
  <2> QED BY <2>3, <2>5
<1>4. \A i \in 1..w, T \in S : after(i, T) \in S
  <2> HIDE DEF U, w
  <2> QED BY <1>3
<1>5. H \in [1..w -> [S -> S]]
  <2> HIDE DEF after, w, S
  <2> QED BY <1>4
<1>6. \A i, T : after(i, T) =
          UNION {UNION {I!Instances(n.v, f, I!Steps[i].predicates) :
                        f \in {f \in I!FieldsOf(n.cls) : f.name = I!Steps[i].name
                                                          /\ f.module = I!StepModule[i]}} :
                 n \in {n \in T : n.cls # Nothing}}
  <2>1. \A n, i : I!FieldsOf(n.cls) \cap Named(i)
                    = {f \in I!FieldsOf(n.cls) : f.name = I!Steps[i].name /\ f.module = I!StepModule[i]}
    BY DEF I!FieldsOf, Named
  <2> QED BY <2>1 DEF InstancesAt
<1>7. \E g : Found(g)
  <2>1. PICK g \in [0..w -> S] : Goes(g, w, FirstInstances, H)
    <3> HIDE DEF H, S, w
    <3> QED BY <1>1, <1>2, <1>5, FoldExists
  <2>2. g = [i \in 0..w |-> IF i = 0 THEN FirstInstances ELSE H[i][g[i - 1]]]
    BY <2>1 DEF Goes
  <2>3. ASSUME NEW i \in 0..w
        PROVE  (IF i = 0 THEN FirstInstances ELSE H[i][g[i - 1]])
                 = IF i = 0 THEN FirstInstances ELSE after(i, g[i - 1])
    <3>1. i # 0 => i \in 1..w /\ g[i - 1] \in S
      <4> HIDE DEF H, S, after, w
      <4> QED BY <1>1, <2>1
    <3> HIDE DEF S, after, w
    <3> QED BY <3>1
  <2>4. g = [i \in 0..w |-> IF i = 0 THEN FirstInstances ELSE after(i, g[i - 1])]
    <3> HIDE DEF H, S, after, w
    <3> QED BY <2>2, <2>3
  <2> HIDE DEF w, after, S
  <2>5. Found(g)
    BY <1>6, <2>4 DEF FirstInstances
  <2> QED BY <2>5
<1>8. Found(I!Denoted)
  <2>1. I!Denoted = CHOOSE g : Found(g)
    BY DEF I!Denoted, Way
  <2> HIDE DEF Found
  <2> QED BY <1>7, <2>1
<1>9. \A i \in 0..w : I!Denoted[i] = IF i = 0 THEN FirstInstances ELSE after(i, I!Denoted[i - 1])
  <2> HIDE DEF w, after
  <2>1. I!Denoted = [i \in 0..w |-> IF i = 0 THEN FirstInstances ELSE after(i, I!Denoted[i - 1])]
    BY <1>6, <1>8 DEF FirstInstances
  <2> QED BY <2>1
<1> DEFINE A == {k \in Nat : k <= w => I!Denoted[k] \in S}
<1> HIDE DEF Found, after, S, H, w
<1>10. 0 \in A
  BY <1>1, <1>2, <1>9
<1>11. \A k \in Nat : k \in A => k + 1 \in A
  <2> SUFFICES ASSUME NEW k \in Nat, k <= w => I!Denoted[k] \in S, k + 1 <= w
               PROVE  I!Denoted[k + 1] \in S
    OBVIOUS
  <2>1. k + 1 \in 1..w /\ k + 1 \in 0..w /\ k + 1 # 0 /\ (k + 1) - 1 = k /\ k <= w
    BY <1>1
  <2>2. I!Denoted[k + 1] = after(k + 1, I!Denoted[k])
    BY <1>9, <2>1
  <2> QED BY <1>4, <2>1, <2>2
<1>12. Nat \subseteq A
  <2> HIDE DEF A
  <2> QED BY <1>10, <1>11, NumbersInduction
<1>13. \A i \in 0..w : I!Denoted[i] \in S
  BY <1>12
<1>14. \A i \in 0..w : \A n \in I!Denoted[i] : Placed(n)
  BY <1>13 DEF S
<1>15. \A i \in 1..w : I!Denoted[i] = after(i, I!Denoted[i - 1])
  BY <1>1, <1>9
<1>16. I!Denoted[0] = FirstInstances
  BY <1>1, <1>9
<1> QED BY <1>14, <1>15, <1>16 DEF after, w

(* What the predicates of a step leave meets them.                           *)
LEMMA LeftMeets ==
  ASSUME I!WellFormed, NEW o \in I!Objects, NEW f \in SchemaFields, NEW i \in 1..Way,
         I!Attr(o, f.attr) # Nothing => f \in I!FieldsOf(heap[o].cls) /\ f.kind \in {"list", "leaf-list"}
  PROVE  LET v == I!Elements(I!Attr(o, f.attr))
             preds == I!Steps[i].predicates
         IN I!Left(f, v, preds) = {j \in DOMAIN v : I!MeetsAll(f, v, j, preds)}
<1> DEFINE v == I!Elements(I!Attr(o, f.attr))
           preds == I!Steps[i].predicates
           N == Len(preds)
<1>1. Len(v) \in Nat /\ DOMAIN v = 1..Len(v)
  <2>1. CASE I!Attr(o, f.attr) = Nothing
    <3>1. v = <<>>
      BY <2>1 DEF I!Elements
    <3> HIDE DEF v
    <3> QED BY <3>1
  <2>2. CASE I!Attr(o, f.attr) # Nothing
    BY <2>2, AttrIs DEF I!Elements
  <2> QED BY <2>1, <2>2
<1>2. preds \in Seq(I!Range(preds)) /\ I!StepOK(I!Steps[i])
  BY ObjectsAre
<1>3. N \in Nat /\ DOMAIN preds = 1..N
  BY <1>2
<1>4. \A k \in 1..N : IF preds[k].key = Nothing THEN N = 1 ELSE preds[k].want # Nothing
  BY <1>2, <1>3 DEF I!StepOK
<1> HIDE DEF v, preds
<1>5. I!Left(f, v, preds) = {j \in 1..Len(v) : I!MeetsAll(f, v, j, preds)}
  BY <1>1, <1>3, <1>4, LeftIs
<1> QED BY <1>1, <1>5 DEF v, preds

(* Each instance of a field is found, unless it is empty.                    *)
LEMMA InstancesFound ==
  ASSUME I!WellFormed, NEW o \in I!Objects, NEW f \in I!FieldsOf(heap[o].cls), NEW i \in 1..Way,
         NEW m \in I!Instances(o, f, I!Steps[i].predicates), ~I!Empty(m)
  PROVE  IF I!ClassOf(f) = Nothing THEN I!FoundIn(o, f, I!Steps[i].predicates)
         ELSE m.v \in I!Below(o, f, I!Steps[i].predicates)
<1> DEFINE v == I!Attr(o, f.attr)
           preds == I!Steps[i].predicates
<1>1. v # Nothing /\ f \in SchemaFields
  BY DEF I!Instances, I!FieldsOf
<1>2. I!Elements(v) = v
  BY <1>1 DEF I!Elements
<1>3. /\ f.kind \in {"container", "list", "leaf-list", "leaf"}
      /\ f.kind \in {"container", "list"} => f.sub # Nothing /\ I!ClassOf(f) = f.sub
      /\ f.kind \in {"leaf-list", "leaf"} => I!ClassOf(f) = Nothing
  BY KindsAre
<1>4. f.kind = "container" => heap[v].cls = f.sub
  BY <1>1, AttrIs
<1>5. f.kind \in {"list", "leaf-list"} => I!Left(f, v, preds) = {j \in DOMAIN v : I!MeetsAll(f, v, j, preds)}
  BY <1>1, <1>2, LeftMeets
<1>6. CASE f.kind = "container"
  <2>1. m = [cls |-> f.sub, v |-> v] /\ I!Exists(v)
    BY <1>1, <1>3, <1>6 DEF I!Instances
  <2>2. I!HasData[v]
    BY <1>4, <1>6, <2>1 DEF I!Exists, I!Empty
  <2> HIDE DEF v
  <2> QED BY <1>1, <1>3, <1>6, <2>1, <2>2 DEF I!Below, v
<1>7. CASE f.kind \in {"list", "leaf-list"}
  <2>1. PICK j \in DOMAIN v : I!MeetsAll(f, v, j, preds) /\ m = [cls |-> I!ClassOf(f), v |-> v[j]]
    BY <1>1, <1>7 DEF I!Instances
  <2>2. j \in I!Left(f, v, preds)
    BY <1>5, <1>7, <2>1
  <2> QED BY <1>2, <1>3, <1>7, <2>1, <2>2 DEF I!Below, I!FoundIn
<1>8. CASE f.kind = "leaf"
  BY <1>1, <1>3, <1>8 DEF I!Instances, I!FoundIn
<1> QED BY <1>3, <1>6, <1>7, <1>8

(* What is found in an object is an instance.                                *)
LEMMA FoundDenoted ==
  ASSUME I!WellFormed, NEW o \in I!Objects, NEW f \in I!FieldsOf(heap[o].cls), NEW i \in 1..Way
  PROVE  LET preds == I!Steps[i].predicates
         IN /\ \A p \in I!Below(o, f, preds) :
                 I!ClassOf(f) # Nothing /\ \E m \in I!Instances(o, f, preds) : m.v = p
            /\ I!FoundIn(o, f, preds) => \/ I!Instances(o, f, preds) # {}
                                         \/ I!Unset(f, I!Attr(o, f.attr))
<1> DEFINE v == I!Attr(o, f.attr)
           preds == I!Steps[i].predicates
<1>1. /\ f \in SchemaFields
      /\ f.kind \in {"container", "list", "leaf-list", "leaf"}
      /\ f.kind \in {"container", "list"} => I!ClassOf(f) # Nothing
  BY KindsAre
<1>2. v # Nothing => I!Elements(v) = v
  BY DEF I!Elements
<1>3. f.kind \in {"list", "leaf-list"} =>
        LET u == I!Elements(v) IN I!Left(f, u, preds) = {j \in DOMAIN u : I!MeetsAll(f, u, j, preds)}
  BY <1>1, LeftMeets
<1>4. v = Nothing => I!Elements(v) = <<>> /\ DOMAIN I!Elements(v) = {}
  BY DEF I!Elements
<1>5. CASE f.kind = "container"
  <2>1. ~I!FoundIn(o, f, preds)
    BY <1>5 DEF I!FoundIn
  <2>2. ASSUME NEW p \in I!Below(o, f, preds)
        PROVE  [cls |-> I!ClassOf(f), v |-> p] \in I!Instances(o, f, preds)
    <3>1. v # Nothing /\ I!HasData[v] /\ p = v
      BY <1>5 DEF I!Below
    <3>2. p \in {q \in {v} : I!Exists(q)}
      BY <3>1 DEF I!Exists
    <3> QED BY <1>5, <3>1, <3>2 DEF I!Instances
  <2>3. ASSUME NEW p \in I!Below(o, f, preds)
        PROVE  I!ClassOf(f) # Nothing /\ \E m \in I!Instances(o, f, preds) : m.v = p
    <3> HIDE DEF preds
    <3> QED BY <1>1, <1>5, <2>2
  <2> QED BY <2>1, <2>3
<1>6. CASE f.kind \in {"list", "leaf-list"}
  <2>1. v = Nothing => I!Left(f, I!Elements(v), preds) = {}
    BY <1>3, <1>4, <1>6
  <2>2. v # Nothing => I!Left(f, I!Elements(v), preds) = {j \in DOMAIN v : I!MeetsAll(f, v, j, preds)}
    BY <1>2, <1>3, <1>6
  <2>3. \A j \in I!Left(f, I!Elements(v), preds) :
          v # Nothing /\ I!Elements(v)[j] = v[j]
            /\ [cls |-> I!ClassOf(f), v |-> v[j]] \in I!Instances(o, f, preds)
    BY <1>2, <1>6, <2>1, <2>2 DEF I!Instances
  <2> HIDE DEF v, preds
  <2>4. CASE f.kind = "list"
    <3>1. \A p \in I!Below(o, f, preds) : \E j \in I!Left(f, I!Elements(v), preds) : p = I!Elements(v)[j]
      BY <2>4 DEF I!Below, v
    <3>2. ~I!FoundIn(o, f, preds)
      BY <2>4 DEF I!FoundIn
    <3>3. ASSUME NEW p \in I!Below(o, f, preds)
          PROVE  \E m \in I!Instances(o, f, preds) : m.v = p
      <4>1. PICK j \in I!Left(f, I!Elements(v), preds) : p = I!Elements(v)[j]
        BY <3>1
      <4>2. [cls |-> I!ClassOf(f), v |-> v[j]] \in I!Instances(o, f, preds) /\ p = v[j]
        BY <2>3, <4>1
      <4> QED BY <4>2
    <3> QED BY <1>1, <2>4, <3>2, <3>3 DEF preds
  <2>5. CASE f.kind = "leaf-list"
    BY <2>3, <2>5 DEF I!Below, I!FoundIn, v, preds
  <2> QED BY <1>6, <2>4, <2>5
<1>7. CASE f.kind = "leaf"
  BY <1>7 DEF I!Below, I!FoundIn, I!Instances
<1> QED BY <1>1, <1>5, <1>6, <1>7

(* An object that has nothing under a Python name: nothing is found there.    *)
LEMMA NoneFound ==
  ASSUME I!WellFormed, NEW o \in I!Objects, NEW f \in SchemaFields, NEW i \in 1..Way,
         I!Attr(o, f.attr) = Nothing
  PROVE  I!Below(o, f, I!Steps[i].predicates) = {} /\ ~I!FoundIn(o, f, I!Steps[i].predicates)
<1> DEFINE preds == I!Steps[i].predicates
<1>1. f.kind \in {"container", "list", "leaf-list", "leaf", "bit"}
  BY ObjectsAre
<1>2. I!Elements(I!Attr(o, f.attr)) = <<>> /\ DOMAIN <<>> = {}
  BY DEF I!Elements
<1>3. I!Left(f, I!Elements(I!Attr(o, f.attr)), preds) = {}
  BY <1>2, LeftMeets
<1> QED BY <1>1, <1>3 DEF I!Below, I!FoundIn

(* An object without data holds no instance.                                 *)
LEMMA EmptyHolds ==
  ASSUME I!WellFormed, NEW o \in I!Objects, ~I!HasData[o], NEW f \in I!FieldsOf(heap[o].cls), NEW preds
  PROVE  I!Instances(o, f, preds) = {}
<1> DEFINE v == I!Attr(o, f.attr)
<1>1. ~Holds(o, f)
  BY ObjectHasData
<1>2. CASE v = Nothing
  BY <1>2 DEF I!Instances
<1>3. CASE v # Nothing
  <2>1. f.kind \in {"container", "list", "leaf-list", "leaf"}
    BY KindsAre
  <2>2. f.kind = "container" => heap[v].cls = f.sub
    BY <1>3, AttrIs
  <2>3. CASE f.kind = "container"
    BY <1>1, <1>3, <2>2, <2>3 DEF Holds, I!Instances, I!Exists
  <2>4. CASE f.kind \in {"list", "leaf-list"}
    <3>1. v = <<>>
      BY <1>1, <1>3, <2>4 DEF Holds
    <3>2. DOMAIN v = {}
      BY <3>1
    <3> HIDE DEF v
    <3> QED BY <1>3, <2>4, <3>2 DEF I!Instances, v
  <2>5. CASE f.kind = "leaf"
    BY <1>1, <1>3, <2>5 DEF Holds, I!Instances
  <2> QED BY <2>1, <2>3, <2>4, <2>5
<1> QED BY <1>2, <1>3

IdentifierStart == I!WellFormed /\ I!InitWith(heap, roots, identifier)

(* The node that the steps gone down mean is the one they are in.             *)
InNode(g) ==
  /\ I!SchemaNodes[done] = {g}
  /\ classes = IF g.sub = Nothing THEN <<>> ELSE <<g.sub>>
  /\ \A n \in I!Denoted[done] : n.cls = I!ClassOf(g)

Known(n) == IF n.cls = Nothing THEN found ELSE n.v \in objects

Tracked ==
  /\ done = 0 => classes = I!RootClasses /\ objects = I!Range(roots) /\ ~found
  /\ done > 0 => \E g \in SchemaFields : InNode(g)
  /\ \A n \in I!Denoted[done] : I!Empty(n) \/ Known(n)
  /\ ~I!NamesShared => /\ \A o \in objects : \E n \in I!Denoted[done] : n.cls # Nothing /\ n.v = o
                       /\ found => I!Denoted[done] # {} \/ I!UnsetAt(done)

IdentifierInv ==
  /\ I!WellFormed
  /\ done \in 0..Way
  /\ verdict \in I!Verdicts
  /\ module = I!StepModule[done]
  /\ Tracked
  /\ verdict \in {"no node", "no key"} => I!SchemaNodes[Way] = {}
  /\ verdict \in {"right", "missing"} => done = Way
  /\ verdict = "missing" => objects = {} /\ ~found
  /\ verdict = "right" /\ identifier.require => objects # {} \/ found

LEMMA IdentifierInit == ASSUME IdentifierStart PROVE IdentifierInv
<1>1. I!WellFormed /\ I!InitWith(heap, roots, identifier)
  BY DEF IdentifierStart
<1>2. done = 0 /\ module = Nothing /\ verdict = "none" /\ found = FALSE
      /\ classes = I!RootClasses /\ objects = I!Range(roots)
  BY <1>1 DEF I!InitWith, I!RootClasses
<1>3. Way \in Nat
  BY <1>1, ObjectsAre
<1>4. module = I!StepModule[done]
  BY <1>1, <1>2, StepModuleIs
<1>5. I!Denoted[done] = FirstInstances
  BY <1>1, <1>2, DenotedAre
<1>6. \A r \in DOMAIN roots :
        /\ [cls |-> I!RootClasses[r], v |-> roots[r]] \in I!Denoted[done]
        /\ I!RootClasses[r] # Nothing /\ roots[r] \in objects
  BY <1>1, <1>2, <1>5, RootsAre DEF FirstInstances, I!Range
<1>7. \A n \in I!Denoted[done] : Known(n)
  <2> SUFFICES ASSUME NEW n \in I!Denoted[done] PROVE Known(n)
    OBVIOUS
  <2>1. PICK r \in DOMAIN roots : n = [cls |-> I!RootClasses[r], v |-> roots[r]]
    BY <1>5 DEF FirstInstances
  <2> QED BY <1>6, <2>1 DEF Known
<1>8. \A o \in objects : \E n \in I!Denoted[done] : n.cls # Nothing /\ n.v = o
  <2> SUFFICES ASSUME NEW o \in objects
               PROVE  \E n \in I!Denoted[done] : n.cls # Nothing /\ n.v = o
    OBVIOUS
  <2>1. PICK r \in DOMAIN roots : o = roots[r]
    BY <1>2 DEF I!Range
  <2> QED BY <1>6, <2>1
<1>9. Tracked
  BY <1>2, <1>7, <1>8 DEF Tracked
<1> QED BY <1>1, <1>2, <1>3, <1>4, <1>9 DEF IdentifierInv, I!Verdicts

(* The recursive definitions as functions of what is judged.                 *)
StepModuleOf(way) ==
  CHOOSE g : g = [i \in 0..Len(way) |->
    IF i = 0 THEN Nothing ELSE IF way[i].module = Nothing THEN g[i - 1] ELSE way[i].module]

SchemaNodesOf(way, cs, mods) ==
  CHOOSE g : g = [i \in 0..Len(way) |->
    LET from == IF i = 0 THEN {} ELSE IF i = 1 THEN I!Range(cs) ELSE {f.sub : f \in g[i - 1]}
    IN {f \in SchemaFields : /\ f.cls \in from
                       /\ f.name = way[i].name /\ f.module = mods[i]
                       /\ ~I!NoKey(f, way[i].predicates)}]

AttrOf(h, o, attr) == IF attr \in DOMAIN h[o].of THEN h[o].of[attr] ELSE Nothing

HasDataIn(h) ==
  CHOOSE has : has = [o \in DOMAIN h |->
    \E f \in I!FieldsOf(h[o].cls) :
      LET v == AttrOf(h, o, f.attr)
      IN /\ v # Nothing
         /\ CASE f.kind = "container" -> has[v] \/ (f.sub \in Presence /\ h[v].marked)
              [] f.kind \in {"list", "leaf-list"} -> v # <<>>
              [] f.kind = "leaf" -> ~I!Unset(f, v)]

KeyedIn(h, f, e, k) ==
  IF f.kind = "list" THEN AttrOf(h, e, (CHOOSE g \in I!FieldsOf(f.sub) : g.name = k).attr)
  ELSE IF k = "." THEN e ELSE Nothing

InstancesIn(h, has, o, f, preds) ==
  LET v == AttrOf(h, o, f.attr)
      instance(e) == [cls |-> I!ClassOf(f), v |-> e]
      exists(p) == has[p] \/ (h[p].cls \in Presence /\ h[p].marked)
      meets(j) == \A i \in DOMAIN preds : IF preds[i].key = Nothing THEN j = preds[i].want
                                          ELSE KeyedIn(h, f, v[j], preds[i].key) = preds[i].want
  IN IF v = Nothing THEN {}
     ELSE CASE f.kind = "container" -> {instance(p) : p \in {p \in {v} : exists(p)}}
            [] f.kind \in {"list", "leaf-list"} -> {instance(v[j]) : j \in {j \in DOMAIN v : meets(j)}}
            [] f.kind = "leaf" ->
                 {instance(e) : e \in {e \in {v} : /\ ~I!Unset(f, e)
                                                  /\ \A i \in DOMAIN preds :
                                                       preds[i].key = "." /\ preds[i].want = e}}
            [] OTHER -> {}

DenotedIn(h, has, rs, cs, way, mods) ==
  CHOOSE g : g = [i \in 0..Len(way) |->
    IF i = 0 THEN {[cls |-> cs[r], v |-> rs[r]] : r \in DOMAIN rs}
    ELSE UNION {UNION {InstancesIn(h, has, n.v, f, way[i].predicates) :
                       f \in {f \in I!FieldsOf(n.cls) : f.name = way[i].name /\ f.module = mods[i]}} :
                n \in {n \in g[i - 1] : n.cls # Nothing}}]

LEMMA IdentifierKept ==
  ASSUME UNCHANGED <<heap, roots, identifier>>
  PROVE  /\ I!WellFormed' = I!WellFormed /\ Way' = Way /\ I!Steps' = I!Steps
         /\ I!StepModule' = I!StepModule /\ I!SchemaNodes' = I!SchemaNodes
         /\ I!Denoted' = I!Denoted /\ I!RootClasses' = I!RootClasses
         /\ I!NamesShared' = I!NamesShared /\ I!Range(roots)' = I!Range(roots)
         /\ \A n : I!Empty(n)' = I!Empty(n)
         /\ \A i : I!UnsetAt(i)' = I!UnsetAt(i)
<1>1. I!Steps' = I!Steps /\ I!RootClasses' = I!RootClasses /\ I!Objects' = I!Objects /\ Way' = Way
  BY DEF I!Steps, I!RootClasses, I!Roots, I!Objects, Way
<1>2. I!WellFormed' = I!WellFormed
  BY <1>1 DEF I!WellFormed, I!SchemaOK, I!ObjectOK, I!Attr, I!StepOK
<1>3. I!StepModule' = I!StepModule
  <2>1. I!StepModule = StepModuleOf(I!Steps)
    BY Zenon DEF I!StepModule, StepModuleOf
  <2>2. I!StepModule' = StepModuleOf(I!Steps')
    BY Zenon DEF I!StepModule, StepModuleOf
  <2> QED BY <1>1, <2>1, <2>2
<1>4. I!SchemaNodes' = I!SchemaNodes
  <2>1. I!SchemaNodes = SchemaNodesOf(I!Steps, I!RootClasses, I!StepModule)
    BY Zenon DEF I!SchemaNodes, SchemaNodesOf
  <2>2. I!SchemaNodes' = SchemaNodesOf(I!Steps', I!RootClasses', I!StepModule')
    BY Zenon DEF I!SchemaNodes, SchemaNodesOf
  <2> QED BY <1>1, <1>3, <2>1, <2>2
<1>5. I!NamesShared' = I!NamesShared /\ I!Range(roots)' = I!Range(roots)
  BY <1>1 DEF I!NamesShared, I!Range
<1>6. I!HasData' = I!HasData
  <2>1. I!HasData = HasDataIn(heap)
    BY Zenon DEF I!HasData, I!Objects, I!Attr, HasDataIn, AttrOf
  <2>2. I!HasData' = HasDataIn(heap')
    BY Zenon DEF I!HasData, I!Objects, I!Attr, HasDataIn, AttrOf
  <2> QED BY <2>1, <2>2
<1>7. I!Denoted' = I!Denoted
  <2>1. I!Denoted = DenotedIn(heap, I!HasData, roots, I!RootClasses, I!Steps, I!StepModule)
    BY Zenon DEF I!Denoted, I!Instances, I!Exists, I!MeetsAll, I!Keyed, I!Attr,
                 DenotedIn, InstancesIn, KeyedIn, AttrOf
  <2>2. I!Denoted' = DenotedIn(heap', I!HasData', roots', I!RootClasses', I!Steps', I!StepModule')
    BY Zenon DEF I!Denoted, I!Instances, I!Exists, I!MeetsAll, I!Keyed, I!Attr,
                 DenotedIn, InstancesIn, KeyedIn, AttrOf
  <2> QED BY <1>1, <1>3, <1>6, <2>1, <2>2
<1>8. \A n : I!Empty(n)' = I!Empty(n)
  BY <1>6 DEF I!Empty
<1>9. \A i : I!UnsetAt(i)' = I!UnsetAt(i)
  BY <1>1, <1>3, <1>7 DEF I!UnsetAt, I!Attr
<1> QED BY <1>1, <1>2, <1>3, <1>4, <1>5, <1>7, <1>8, <1>9

(* The fields a step may be of are those of the classes it is looked up in,    *)
(* and of one name there is one.                                             *)
LEMMA LookedUpIn ==
  ASSUME IdentifierInv, done < Way
  PROVE  /\ DOMAIN classes \subseteq Nat
         /\ I!SchemaNodes[done + 1] = {g \in SchemaFields : g.cls \in I!Range(classes) /\ Means(g, done + 1)}
         /\ \A g, h \in SchemaFields :
           (/\ g.cls \in I!Range(classes) /\ h.cls \in I!Range(classes)
            /\ g.name = h.name /\ g.module = h.module) => g = h
         /\ \A n \in I!Denoted[done] : n.cls # Nothing => n.cls \in I!Range(classes)
<1>1. I!WellFormed /\ done \in 0..Way /\ Tracked /\ Way \in Nat
  BY ObjectsAre DEF IdentifierInv
<1>2. \A f \in SchemaFields : f.cls # Nothing
  BY <1>1, ObjectsAre DEF I!SchemaOK
<1>3. \A g, h \in SchemaFields :
        (/\ g.cls = h.cls \/ {g.cls, h.cls} \subseteq I!Range(I!RootClasses)
         /\ g.name = h.name /\ g.module = h.module) => g = h
  <2>1. I!SchemaOK
    BY <1>1, ObjectsAre
  <2> SUFFICES ASSUME NEW g \in SchemaFields, NEW h \in SchemaFields,
                      g.cls = h.cls \/ {g.cls, h.cls} \subseteq I!Range(I!RootClasses),
                      g.name = h.name, g.module = h.module
               PROVE  g = h
    OBVIOUS
  <2> QED BY <2>1 DEF I!SchemaOK
<1>4. CASE done = 0
  <2>1. classes = I!RootClasses
    BY <1>1, <1>4 DEF Tracked
  <2>2. DOMAIN classes \subseteq Nat
    <3>1. roots \in Seq(I!Objects)
      BY <1>1 DEF I!WellFormed
    <3> QED BY <1>1, <2>1, <3>1, RootsAre
  <2>3. I!SchemaNodes[1] = {g \in SchemaFields : g.cls \in I!Range(I!RootClasses) /\ Means(g, 1)}
    <3>1. 1 \in 1..Way
      BY <1>1, <1>4
    <3> QED BY <1>1, <3>1, SchemaNodesAre
  <2>4. \A n \in I!Denoted[done] : n.cls \in I!Range(classes)
    <3>1. I!Denoted[done] = FirstInstances /\ I!RootClasses = [r \in DOMAIN roots |-> heap[roots[r]].cls]
      BY <1>1, <1>4, DenotedAre, RootsAre
    <3> QED BY <2>1, <3>1 DEF FirstInstances, I!Range
  <2>5. \A g, h \in SchemaFields :
       (/\ g.cls \in I!Range(classes) /\ h.cls \in I!Range(classes)
        /\ g.name = h.name /\ g.module = h.module) => g = h
    BY <1>3, <2>1
  <2>6. I!SchemaNodes[done + 1] = {g \in SchemaFields : g.cls \in I!Range(classes) /\ Means(g, done + 1)}
    <3>1. done + 1 = 1
      BY <1>4
    <3> QED BY <2>1, <2>3, <3>1
  <2> QED BY <2>2, <2>4, <2>5, <2>6
<1>5. CASE done > 0
  <2>1. PICK g \in SchemaFields : InNode(g)
    BY <1>1, <1>5 DEF Tracked
  <2>2. I!SchemaNodes[done] = {g} /\ classes = IF g.sub = Nothing THEN <<>> ELSE <<g.sub>>
    BY <2>1 DEF InNode
  <2>3. DOMAIN classes \subseteq Nat /\ I!Range(classes) = {g.sub} \ {Nothing}
    <3>1. CASE g.sub = Nothing
      <4>1. classes = <<>>
        BY <2>2, <3>1
      <4> QED BY <3>1, <4>1 DEF I!Range
    <3>2. CASE g.sub # Nothing
      <4>1. classes = <<g.sub>>
        BY <2>2, <3>2
      <4> QED BY <3>2, <4>1 DEF I!Range
    <3> QED BY <3>1, <3>2
  <2>4. I!SchemaNodes[done + 1] = {f \in SchemaFields : f.cls \in {g.sub} /\ Means(f, done + 1)}
    <3> DEFINE m == done + 1
    <3>1. m \in 1..Way /\ m # 1 /\ m - 1 = done
      BY <1>1, <1>5
    <3>2. {f.sub : f \in {g}} = {g.sub}
      OBVIOUS
    <3> HIDE DEF m
    <3>3. I!SchemaNodes[m] = {f \in SchemaFields : f.cls \in {h.sub : h \in I!SchemaNodes[done]} /\ Means(f, m)}
      BY <1>1, <3>1, SchemaNodesAre
    <3>4. I!SchemaNodes[m] = {f \in SchemaFields : f.cls \in {g.sub} /\ Means(f, m)}
      BY <2>2, <3>2, <3>3
    <3> QED BY <3>4 DEF m
  <2>5. \A n \in I!Denoted[done] : n.cls # Nothing => n.cls \in I!Range(classes)
    BY <2>1, <2>3 DEF InNode, I!ClassOf
  <2>6. \A f \in SchemaFields : f.cls \in {g.sub} <=> f.cls \in I!Range(classes)
    BY <1>2, <2>3
  <2>7. \A f, h \in SchemaFields :
       (/\ f.cls \in I!Range(classes) /\ h.cls \in I!Range(classes)
        /\ f.name = h.name /\ f.module = h.module) => f = h
    BY <1>3, <2>3
  <2>8. I!SchemaNodes[done + 1] = {f \in SchemaFields : f.cls \in I!Range(classes) /\ Means(f, done + 1)}
    BY <2>4, <2>6
  <2> QED BY <2>3, <2>5, <2>7, <2>8
<1> QED BY <1>1, <1>4, <1>5

(* The field a step takes.                                                   *)
StepMod == IF I!Steps[done + 1].module = Nothing THEN module ELSE I!Steps[done + 1].module
Matched == I!Matches(I!Steps[done + 1].name, StepMod)
Taken == CHOOSE f \in Matched : TRUE
TakenPreds == I!Steps[done + 1].predicates

LEMMA TakenIs ==
  ASSUME IdentifierInv, done < Way
  PROVE  /\ StepMod = I!StepModule[done + 1]
         /\ \A g \in SchemaFields : g \in Named(done + 1) /\ g.cls \in I!Range(classes)
              => Matched # {} /\ g = Taken
         /\ Matched # {} => Taken \in Named(done + 1) /\ Taken.cls \in I!Range(classes)
         /\ Matched = {} \/ I!NoKey(Taken, TakenPreds) => I!SchemaNodes[done + 1] = {}
         /\ Matched # {} /\ ~I!NoKey(Taken, TakenPreds) => I!SchemaNodes[done + 1] = {Taken}
<1> DEFINE i == done + 1
           name == I!Steps[i].name
           having == {k \in DOMAIN classes : I!Matching(k, name, StepMod) # {}}
<1>1. I!WellFormed /\ done \in 0..Way /\ module = I!StepModule[done] /\ Way \in Nat
  BY ObjectsAre DEF IdentifierInv
<1>2. i \in 1..Way /\ i - 1 = done
  BY <1>1
<1>3. StepMod = I!StepModule[i]
  <2>1. I!StepModule[i] = IF I!Steps[i].module = Nothing THEN I!StepModule[i - 1] ELSE I!Steps[i].module
    <3> HIDE DEF i
    <3> QED BY <1>1, <1>2, StepModuleIs
  <2> QED BY <1>1, <1>2, <2>1 DEF StepMod
<1>4. \A k, g : g \in I!Matching(k, name, StepMod) <=> g \in Named(i) /\ g.cls = classes[k]
  BY <1>3 DEF I!Matching, I!FieldsOf, Named
<1>5. Matched = IF having = {} THEN {} ELSE I!Matching(CHOOSE k \in having : \A j \in having : k <= j, name, StepMod)
  BY DEF Matched, I!Matches
<1>6. DOMAIN classes \subseteq Nat
  BY LookedUpIn
<1>7. having # {} => (CHOOSE k \in having : \A j \in having : k <= j) \in having
  <2>1. having # {} => \E k \in having : \A j \in having : k <= j
    <3>1. having \subseteq Nat
      BY <1>6
    <3> HIDE DEF having
    <3> QED BY <3>1, SmallestNumber
  <2> HIDE DEF having
  <2> QED BY <2>1
<1>8. \A g : g \in Named(i) /\ g.cls \in I!Range(classes) => having # {}
  <2> SUFFICES ASSUME NEW g, g \in Named(i), NEW k \in DOMAIN classes, g.cls = classes[k]
               PROVE  having # {}
    BY DEF I!Range
  <2>1. g \in I!Matching(k, name, StepMod)
    BY <1>4
  <2> QED BY <2>1
<1>9. having # {} => Matched # {}
  <2> HIDE DEF name
  <2> QED BY <1>5, <1>7
<1>10. \A g \in Matched : g \in Named(i) /\ g.cls \in I!Range(classes)
  <2> HIDE DEF name, i
  <2> QED BY <1>4, <1>5, <1>7 DEF I!Range
<1>11. Matched # {} => Taken \in Matched
  BY DEF Taken
<1>12. Matched # {} => Taken \in Named(i) /\ Taken.cls \in I!Range(classes)
  <2> HIDE DEF i
  <2> QED BY <1>10, <1>11
<1>13. \A g \in SchemaFields : g \in Named(i) /\ g.cls \in I!Range(classes) => Matched # {} /\ g = Taken
  <2> HIDE DEF i, having, name
  <2> SUFFICES ASSUME NEW g \in SchemaFields, g \in Named(i), g.cls \in I!Range(classes)
               PROVE  Matched # {} /\ g = Taken
    OBVIOUS
  <2>1. Taken \in Named(i) /\ Taken.cls \in I!Range(classes) /\ Matched # {}
    BY <1>8, <1>9, <1>12
  <2>2. Taken \in SchemaFields /\ Taken.name = g.name /\ Taken.module = g.module
    BY <2>1 DEF Named
  <2> QED BY <2>1, <2>2, LookedUpIn
<1>14. I!SchemaNodes[i] = {g \in SchemaFields : g.cls \in I!Range(classes) /\ Means(g, i)}
  BY LookedUpIn
<1>15. \A g \in SchemaFields : Means(g, i) <=> g \in Named(i) /\ ~I!NoKey(g, TakenPreds)
  BY DEF Means, Named, TakenPreds
<1>16. \A g \in I!SchemaNodes[i] : Matched # {} /\ g = Taken /\ ~I!NoKey(Taken, TakenPreds)
  <2> HIDE DEF i
  <2> QED BY <1>13, <1>14, <1>15
<1>17. Matched # {} /\ ~I!NoKey(Taken, TakenPreds) => Taken \in I!SchemaNodes[i]
  <2>1. Matched # {} => Taken \in SchemaFields
    BY <1>12 DEF Named
  <2> HIDE DEF i
  <2> QED BY <1>12, <1>14, <1>15, <2>1
<1> HIDE DEF i, having, name
<1>18. (Matched = {} \/ I!NoKey(Taken, TakenPreds)) => I!SchemaNodes[i] = {}
  BY <1>16
<1>19. Matched # {} /\ ~I!NoKey(Taken, TakenPreds) => I!SchemaNodes[i] = {Taken}
  BY <1>16, <1>17
<1> QED BY <1>3, <1>12, <1>13, <1>18, <1>19 DEF i

(* What a step denotes is in the field taken, of the objects denoted before.   *)
LEMMA DenotedNext ==
  ASSUME IdentifierInv, done < Way
  PROVE  /\ \A n \in I!Denoted[done] : Placed(n)
         /\ \A m \in I!Denoted[done + 1] : \E n \in I!Denoted[done] :
              /\ n.cls = Taken.cls /\ n.cls # Nothing
              /\ m \in I!Instances(n.v, Taken, TakenPreds)
         /\ Matched # {} => \A n \in I!Denoted[done] :
              n.cls = Taken.cls => I!Instances(n.v, Taken, TakenPreds) \subseteq I!Denoted[done + 1]
<1> DEFINE i == done + 1
<1>1. I!WellFormed /\ done \in 0..Way /\ i \in 1..Way /\ i - 1 = done
  <2>1. I!WellFormed /\ done \in 0..Way
    BY DEF IdentifierInv
  <2>2. Way \in Nat
    BY <2>1, ObjectsAre
  <2> QED BY <2>1, <2>2
<1>2. I!Denoted[i] = UNION {InstancesAt(n, i) : n \in {n \in I!Denoted[done] : n.cls # Nothing}}
  <2> HIDE DEF i
  <2> QED BY <1>1, DenotedAre
<1>3. \A n : InstancesAt(n, i) = UNION {I!Instances(n.v, f, TakenPreds) : f \in I!FieldsOf(n.cls) \cap Named(i)}
  BY DEF InstancesAt, TakenPreds
<1>4. ASSUME NEW m \in I!Denoted[i]
      PROVE  \E n \in I!Denoted[done] : /\ n.cls = Taken.cls /\ n.cls # Nothing
                                        /\ m \in I!Instances(n.v, Taken, TakenPreds)
  <2>1. PICK n \in I!Denoted[done] : n.cls # Nothing /\ m \in InstancesAt(n, i)
    <3> HIDE DEF i
    <3> QED BY <1>2
  <2>2. PICK f \in I!FieldsOf(n.cls) \cap Named(i) : m \in I!Instances(n.v, f, TakenPreds)
    <3> HIDE DEF i
    <3> QED BY <1>3, <2>1
  <2>3. f \in SchemaFields /\ f.cls = n.cls
    BY <2>2 DEF I!FieldsOf
  <2>4. f.cls \in I!Range(classes)
    BY <2>1, <2>3, LookedUpIn
  <2>5. f = Taken
    BY <2>2, <2>3, <2>4, TakenIs
  <2> QED BY <2>1, <2>2, <2>3, <2>5
<1>5. ASSUME Matched # {}, NEW n \in I!Denoted[done], n.cls = Taken.cls
      PROVE  I!Instances(n.v, Taken, TakenPreds) \subseteq I!Denoted[i]
  <2>1. Taken \in Named(i)
    BY <1>5, TakenIs
  <2>2. Taken \in I!FieldsOf(n.cls) /\ n.cls # Nothing
    BY <1>1, <1>5, <2>1, ObjectsAre DEF Named, I!FieldsOf, I!SchemaOK
  <2> HIDE DEF i
  <2>3. I!Instances(n.v, Taken, TakenPreds) \subseteq InstancesAt(n, i)
    BY <1>3, <2>1, <2>2
  <2> QED BY <1>2, <2>2, <2>3
<1>6. \A n \in I!Denoted[done] : Placed(n)
  BY <1>1, DenotedAre
<1> QED BY <1>4, <1>5, <1>6

(* A step into a node.                                                       *)
Enters ==
  /\ verdict = "none" /\ done < Way
  /\ Matched # {} /\ ~I!NoKey(Taken, TakenPreds)
  /\ module' = StepMod
  /\ classes' = IF Taken.sub = Nothing THEN <<>> ELSE <<Taken.sub>>
  /\ objects' = UNION {I!Below(o, Taken, TakenPreds) : o \in objects}
  /\ found' = \E o \in objects : I!FoundIn(o, Taken, TakenPreds)
  /\ done' = done + 1
  /\ UNCHANGED <<heap, roots, identifier, verdict>>

LEMMA StepDoes ==
  ASSUME I!Step
  PROVE  /\ verdict = "none" /\ done < Way
         /\ \/ Enters
            \/ /\ Matched = {} \/ I!NoKey(Taken, TakenPreds)
               /\ verdict' \in {"no node", "no key"}
               /\ UNCHANGED <<heap, roots, identifier, done, module, classes, objects, found>>
BY DEF I!Step, I!Settle, Enters, Way, Matched, Taken, TakenPreds, StepMod

LEMMA EntersTracked == ASSUME IdentifierInv, Enters PROVE Tracked'
<1> DEFINE i == done + 1
           f == Taken
           preds == TakenPreds
<1>1. /\ I!WellFormed /\ done \in 0..Way /\ i \in 1..Way /\ Tracked /\ done < Way /\ Matched # {}
      /\ f \in Named(i) /\ f \in SchemaFields /\ preds = I!Steps[i].predicates /\ f.cls \in I!Range(classes)
  BY ObjectsAre, TakenIs DEF IdentifierInv, Enters, Named, TakenPreds
<1>2. /\ done' = i /\ classes' = IF f.sub = Nothing THEN <<>> ELSE <<f.sub>>
      /\ objects' = UNION {I!Below(o, f, preds) : o \in objects}
      /\ found' = \E o \in objects : I!FoundIn(o, f, preds)
      /\ UNCHANGED <<heap, roots, identifier>>
  BY DEF Enters
<1>3. /\ I!SchemaNodes' = I!SchemaNodes /\ I!Denoted' = I!Denoted
      /\ I!NamesShared' = I!NamesShared /\ \A n : I!Empty(n)' = I!Empty(n)
      /\ \A k : I!UnsetAt(k)' = I!UnsetAt(k)
  BY <1>2, IdentifierKept
<1>4. \A n \in I!Denoted[done] : n.cls = f.cls =>
        n.v \in I!Objects /\ f \in I!FieldsOf(heap[n.v].cls)
  <2>1. f.cls # Nothing
    BY <1>1, ObjectsAre DEF I!SchemaOK
  <2> QED BY <1>1, <2>1, DenotedNext DEF Placed, I!FieldsOf
<1>5. ASSUME NEW m \in I!Denoted[i]
      PROVE  m.cls = I!ClassOf(f) /\ (I!Empty(m) \/ IF m.cls = Nothing THEN found' ELSE m.v \in objects')
  <2>1. PICK n \in I!Denoted[done] : /\ n.cls = f.cls /\ n.cls # Nothing
                                     /\ m \in I!Instances(n.v, f, preds)
    BY <1>1, DenotedNext
  <2>2. n.v \in I!Objects /\ f \in I!FieldsOf(heap[n.v].cls)
    BY <1>4, <2>1
  <2>3. m.cls = I!ClassOf(f)
    BY <1>1, <2>1, <2>2, InstancesPlaced
  <2>4. I!HasData[n.v]
    BY <1>1, <2>1, <2>2, EmptyHolds
  <2>5. n.v \in objects
    BY <1>1, <2>1, <2>4 DEF Tracked, Known, I!Empty
  <2>6. I!Empty(m) \/ IF I!ClassOf(f) = Nothing THEN I!FoundIn(n.v, f, preds) ELSE m.v \in I!Below(n.v, f, preds)
    <3> HIDE DEF i, f, preds
    <3> QED BY <1>1, <2>1, <2>2, InstancesFound
  <2> HIDE DEF f, preds
  <2> QED BY <1>2, <2>3, <2>5, <2>6
<1>6. ASSUME ~I!NamesShared, NEW o \in objects,
             I!Below(o, f, preds) # {} \/ I!FoundIn(o, f, preds)
      PROVE  \E n \in I!Denoted[done] : n.cls = f.cls /\ n.v = o
  <2>1. PICK n \in I!Denoted[done] : n.cls # Nothing /\ n.v = o
    BY <1>1, <1>6 DEF Tracked
  <2>2. o \in I!Objects /\ heap[o].cls = n.cls /\ n.cls \in I!Range(classes)
    BY <1>1, <2>1, DenotedNext, LookedUpIn DEF Placed
  <2>3. I!Attr(o, f.attr) # Nothing
    <3> HIDE DEF i, f
    <3> QED BY <1>1, <1>6, <2>2, NoneFound
  <2>4. PICK h \in SchemaFields : h.cls = n.cls /\ h.attr = f.attr
    <3>1. f.attr \in DOMAIN heap[o].of
      BY <2>3 DEF I!Attr
    <3>2. DOMAIN heap[o].of \subseteq {h.attr : h \in I!FieldsOf(heap[o].cls)}
      BY <1>1, <2>2, ObjectsAre DEF I!ObjectOK
    <3> QED BY <2>2, <3>1, <3>2 DEF I!FieldsOf
  <2>5. n.cls = f.cls
    <3>1. CASE done = 0
      <4>1. classes = I!RootClasses
        BY <1>1, <3>1 DEF Tracked
      <4> QED BY <1>1, <1>6, <2>2, <2>4, <4>1 DEF I!NamesShared
    <3>2. CASE done > 0
      <4>1. PICK g \in SchemaFields : InNode(g)
        BY <1>1, <3>2 DEF Tracked
      <4>2. I!Range(classes) \subseteq {g.sub}
        <5>1. CASE g.sub = Nothing
          <6>1. classes = <<>>
            BY <4>1, <5>1 DEF InNode
          <6> QED BY <6>1 DEF I!Range
        <5>2. CASE g.sub # Nothing
          <6>1. classes = <<g.sub>>
            BY <4>1, <5>2 DEF InNode
          <6> QED BY <6>1 DEF I!Range
        <5> QED BY <5>1, <5>2
      <4> QED BY <1>1, <2>2, <4>2
    <3> QED BY <1>1, <3>1, <3>2
  <2> QED BY <2>1, <2>5
<1>7. ASSUME ~I!NamesShared, NEW p \in objects'
      PROVE  \E m \in I!Denoted[i] : m.cls # Nothing /\ m.v = p
  <2>1. PICK o \in objects : p \in I!Below(o, f, preds)
    BY <1>2
  <2>2. PICK n \in I!Denoted[done] : n.cls = f.cls /\ n.v = o
    BY <1>6, <1>7, <2>1
  <2>3. o \in I!Objects /\ f \in I!FieldsOf(heap[o].cls)
    BY <1>4, <2>2
  <2>4. PICK m \in I!Instances(o, f, preds) : m.v = p /\ I!ClassOf(f) # Nothing
    <3> HIDE DEF i, f, preds
    <3> QED BY <1>1, <2>1, <2>3, FoundDenoted
  <2>5. m \in I!Denoted[i]
    BY <1>1, <2>2, <2>4, DenotedNext
  <2> QED BY <1>5, <2>4, <2>5
<1>8. ASSUME ~I!NamesShared, found'
      PROVE  I!Denoted[i] # {} \/ I!UnsetAt(i)
  <2>1. PICK o \in objects : I!FoundIn(o, f, preds)
    BY <1>2, <1>8
  <2>2. PICK n \in I!Denoted[done] : n.cls = f.cls /\ n.v = o
    BY <1>6, <1>8, <2>1
  <2>3. o \in I!Objects /\ f \in I!FieldsOf(heap[o].cls)
    BY <1>4, <2>2
  <2>4. I!Instances(o, f, preds) # {} \/ I!Unset(f, I!Attr(o, f.attr))
    <3> HIDE DEF i, f, preds
    <3> QED BY <1>1, <2>1, <2>3, FoundDenoted
  <2>5. CASE I!Instances(o, f, preds) # {}
    BY <1>1, <2>2, <2>5, DenotedNext
  <2>6. CASE I!Unset(f, I!Attr(o, f.attr))
    <3>1. n \in I!Denoted[i - 1] /\ n.cls # Nothing /\ f \in I!FieldsOf(n.cls)
      BY <1>1, <2>2, ObjectsAre DEF I!FieldsOf, I!SchemaOK
    <3>2. f.name = I!Steps[i].name /\ f.module = I!StepModule[i]
      BY <1>1 DEF Named
    <3> HIDE DEF i, f, preds
    <3> QED BY <2>2, <2>6, <3>1, <3>2 DEF I!UnsetAt
  <2> QED BY <2>4, <2>5, <2>6
<1>9. I!SchemaNodes[i] = {f}
  BY <1>1, TakenIs DEF Enters
<1>10. \E g \in SchemaFields : InNode(g)'
  <2>1. PICK g \in SchemaFields : g = f
    BY <1>1
  <2>2. InNode(g)'
    BY <1>2, <1>3, <1>5, <1>9, <2>1 DEF InNode
  <2> QED BY <2>2
<1>11. \A n \in I!Denoted[i] : I!Empty(n) \/ Known(n)'
  BY <1>5 DEF Known
<1>12. done' # 0
  BY <1>1, <1>2
<1> QED BY <1>1, <1>2, <1>3, <1>7, <1>8, <1>10, <1>11, <1>12 DEF Tracked

(* Where the steps gone down have not changed, what is tracked has not.        *)
LEMMA TrackedKept ==
  ASSUME IdentifierInv, UNCHANGED <<heap, roots, identifier, done, module, classes, objects, found>>
  PROVE  /\ I!WellFormed' /\ (done \in 0..Way)' /\ (module = I!StepModule[done])' /\ Tracked'
         /\ I!SchemaNodes' = I!SchemaNodes /\ Way' = Way
<1>1. /\ I!WellFormed' = I!WellFormed /\ Way' = Way /\ I!StepModule' = I!StepModule
      /\ I!SchemaNodes' = I!SchemaNodes /\ I!Denoted' = I!Denoted
      /\ I!RootClasses' = I!RootClasses /\ I!NamesShared' = I!NamesShared
      /\ I!Range(roots)' = I!Range(roots) /\ \A n : I!Empty(n)' = I!Empty(n)
      /\ \A i : I!UnsetAt(i)' = I!UnsetAt(i)
  BY IdentifierKept
<1>2. I!WellFormed /\ done \in 0..Way /\ module = I!StepModule[done] /\ Tracked
  BY DEF IdentifierInv
<1>3. \A n : Known(n)' = Known(n)
  BY DEF Known
<1>4. \A g : InNode(g)' = InNode(g)
  BY <1>1 DEF InNode
<1>5. Tracked'
  BY <1>1, <1>2, <1>3, <1>4 DEF Tracked
<1> QED BY <1>1, <1>2, <1>5

LEMMA IdentifierNext == ASSUME IdentifierInv, I!Next \/ UNCHANGED identification PROVE IdentifierInv'
<1>1. ASSUME UNCHANGED identification PROVE IdentifierInv'
  BY <1>1, TrackedKept DEF IdentifierInv, identification, I!Verdicts
<1>2. ASSUME I!Reject PROVE IdentifierInv'
  <2>1. /\ verdict' \in {"outside", "unqualified"}
        /\ UNCHANGED <<heap, roots, identifier, done, module, classes, objects, found>>
    BY <1>2 DEF I!Reject, I!Settle, I!Start
  <2> QED BY <2>1, TrackedKept DEF IdentifierInv, I!Verdicts
<1>3. ASSUME I!Conclude PROVE IdentifierInv'
  <2>1. /\ verdict' = (IF identifier.require /\ objects = {} /\ ~found THEN "missing" ELSE "right")
        /\ UNCHANGED <<heap, roots, identifier, done, module, classes, objects, found>>
        /\ done = Way
    BY <1>3 DEF I!Conclude, I!Settle, Way
  <2> QED BY <2>1, TrackedKept DEF IdentifierInv, I!Verdicts
<1>4. ASSUME I!Step PROVE IdentifierInv'
  <2>1. I!WellFormed /\ done \in 0..Way /\ verdict = "none" /\ done < Way
    BY <1>4, StepDoes DEF IdentifierInv
  <2>2. Way \in Nat
    BY <2>1, ObjectsAre
  <2>3. CASE Enters
    <3>1. /\ I!WellFormed' /\ Way' = Way /\ I!StepModule' = I!StepModule
      BY <2>1, <2>3, IdentifierKept DEF Enters
    <3>2. done' = done + 1 /\ module' = I!StepModule[done + 1] /\ verdict' = "none"
      BY <2>1, <2>3, TakenIs DEF Enters
    <3>3. Tracked'
      BY <2>3, EntersTracked
    <3>4. (done \in 0..Way)' /\ (module = I!StepModule[done])'
      BY <2>1, <2>2, <3>1, <3>2
    <3> QED BY <3>1, <3>2, <3>3, <3>4 DEF IdentifierInv, I!Verdicts
  <2>4. CASE ~Enters
    <3>1. /\ Matched = {} \/ I!NoKey(Taken, TakenPreds)
          /\ verdict' \in {"no node", "no key"}
          /\ UNCHANGED <<heap, roots, identifier, done, module, classes, objects, found>>
      BY <1>4, <2>4, StepDoes
    <3>2. I!SchemaNodes[done + 1] = {}
      BY <2>1, <3>1, TakenIs
    <3>3. I!SchemaNodes[Way] = {}
      <4>1. done + 1 \in 1..Way
        BY <2>1, <2>2
      <4> QED BY <2>1, <3>2, <4>1, NoneFurther
    <3> QED BY <3>1, <3>3, TrackedKept DEF IdentifierInv, I!Verdicts
  <2> QED BY <2>3, <2>4
<1> QED BY <1>1, <1>2, <1>3, <1>4 DEF I!Next

LEMMA IdentifierJudged == IdentifierInv => I!JudgedRight
<1> SUFFICES ASSUME IdentifierInv PROVE I!JudgedRight
  OBVIOUS
<1>1. I!WellFormed /\ Tracked /\ Len(I!Steps) = Way
  BY DEF IdentifierInv, Way
<1>2. Way > 0 /\ Way \in Nat
  BY <1>1, ObjectsAre
<1>3. verdict \in {"no node", "no key"} => ~I!IsSchemaPath
  BY <1>1 DEF IdentifierInv, I!IsSchemaPath
<1>4. verdict \in {"right", "missing"} => I!IsSchemaPath \/ I!IsBit
  <2> SUFFICES ASSUME verdict \in {"right", "missing"} PROVE I!IsSchemaPath \/ I!IsBit
    OBVIOUS
  <2>1. done = Way
    BY DEF IdentifierInv
  <2>2. \E g \in SchemaFields : InNode(g)
    BY <1>1, <1>2, <2>1 DEF Tracked
  <2> QED BY <1>1, <2>1, <2>2 DEF InNode, I!IsSchemaPath, I!IsBit
<1>5. verdict = "missing" => \A n \in I!Denoted[Way] : I!Empty(n)
  BY <1>1 DEF IdentifierInv, Tracked, Known
<1>6. verdict = "right" /\ identifier.require /\ ~I!NamesShared => I!Denotes \/ I!UnsetAt(Way)
  BY <1>1 DEF IdentifierInv, Tracked, I!Denotes
<1> QED BY <1>1, <1>3, <1>4, <1>5, <1>6 DEF I!JudgedRight

(* An instance-identifier is reported as no node of the schema exactly when    *)
(* it is none and no bit of a leaf, and as without instance only when it has     *)
(* none but an empty container, and then unless it is of a bits leaf with no    *)
(* bit set or roots share a name, whatever the schema, the trees and the        *)
(* identifier.                                                              *)
THEOREM IdentifiersAreJudged == ProgramSpec => []JudgedRight
<1> DEFINE Inv == program = "identify" => IdentifierInv
<1>1. ProgramInit => Inv
  BY IdentifierInit DEF ProgramInit, IdentifierStart
<1>2. Inv /\ [ProgramNext]_pvars => Inv'
  <2> SUFFICES ASSUME Inv, [ProgramNext]_pvars, program' = "identify"
               PROVE  IdentifierInv'
    OBVIOUS
  <2>1. program = "identify" /\ (I!Next \/ UNCHANGED identification)
    BY DEF ProgramNext, pvars
  <2> QED BY <2>1, IdentifierNext
<1>3. Inv => JudgedRight
  BY IdentifierJudged DEF JudgedRight
<1> QED BY <1>1, <1>2, <1>3, PTL DEF ProgramSpec

-----------------------------------------------------------------------------
(* Trees                                                                   *)

(* With a member taken out, a list is one of values still, and shorter.     *)
LEMMA WithoutMember ==
  ASSUME NEW s \in Seq(Values), NEW i \in DOMAIN s
  PROVE  LET r == SubSeq(s, 1, i - 1) \o SubSeq(s, i + 1, Len(s))
         IN r \in Seq(Values) /\ Len(r) = Len(s) - 1
<1>1. i \in 1..Len(s) /\ Len(s) \in Nat
  OBVIOUS
<1>2. SubSeq(s, 1, i - 1) \in Seq(Values) /\ Len(SubSeq(s, 1, i - 1)) = i - 1
  BY <1>1
<1>3. SubSeq(s, i + 1, Len(s)) \in Seq(Values) /\ Len(SubSeq(s, i + 1, Len(s))) = Len(s) - i
  BY <1>1
<1> DEFINE a == SubSeq(s, 1, i - 1)
           b == SubSeq(s, i + 1, Len(s))
<1> HIDE DEF a, b
<1>4. a \in Seq(Values) /\ b \in Seq(Values) /\ Len(a) = i - 1 /\ Len(b) = Len(s) - i
  BY <1>2, <1>3 DEF a, b
<1>5. a \o b \in Seq(Values) /\ Len(a \o b) = Len(a) + Len(b)
  BY <1>4, ConcatProperties
<1>6. Len(a \o b) = Len(s) - 1
  BY <1>1, <1>4, <1>5
<1> QED BY <1>5, <1>6 DEF a, b

(* A tree keeps its types.                                                 *)
LEMMA TreeInit == Init => TypeOK
<1> SUFFICES ASSUME Init PROVE TypeOK
  OBVIOUS
<1>1. Len(<<>>) <= MaxItems
  BY TreeAssumption
<1> QED BY <1>1 DEF Init, TypeOK, NoBox, NoNotes

(* Whatever a program does with it.                                        *)
LEMMA TreeNext == TypeOK /\ [Next]_vars => TypeOK'
<1> SUFFICES ASSUME TypeOK, [Next]_vars PROVE TypeOK'
  OBVIOUS
<1> USE DEF TypeOK
<1>1. ASSUME NEW v \in Values \cup {None}, SetLeaf(v) PROVE TypeOK'
  BY <1>1, TreeAssumption DEF SetLeaf, Assigned, Assignable
<1>2. ASSUME NEW n \in 0..MaxItems, NEW s \in [1..n -> Values], SetLeafList(s) PROVE TypeOK'
  <2>1. s \in Seq(Values) /\ Len(s) = n
    BY TreeAssumption
  <2> QED BY <1>2, <2>1, TreeAssumption DEF SetLeafList
<1>3. ASSUME NEW v \in Values, AppendInPlace(v) PROVE TypeOK'
  <2>1. Append(ll, v) \in Seq(Values) /\ Len(Append(ll, v)) = Len(ll) + 1 /\ Len(ll) \in Nat
    OBVIOUS
  <2> QED BY <1>3, <2>1, TreeAssumption DEF AppendInPlace
<1>4. ASSUME NEW i \in DOMAIN ll, DeleteInPlace(i) PROVE TypeOK'
  <2>1. ll' \in Seq(Values) /\ Len(ll') = Len(ll) - 1
    BY <1>4, WithoutMember DEF DeleteInPlace
  <2>2. Len(ll) \in Nat
    OBVIOUS
  <2> QED BY <1>4, <2>1, <2>2, TreeAssumption DEF DeleteInPlace
<1>5. CASE NodeStep
  <2>1. ASSUME NEW b \in Boxes, NEW box \in [leaf : {None, "v"}, marked : BOOLEAN, notes : SUBSET Names],
               boxes' = [boxes EXCEPT ![b] = box], UNCHANGED <<type, x, ll, notes>>
        PROVE  TypeOK'
    BY <2>1
  <2>2. ASSUME NEW b \in Boxes, NEW v \in {None, "v"}, SetBoxLeaf(b, v) PROVE TypeOK'
    <3>1. boxes' = [boxes EXCEPT ![b] = [boxes[b] EXCEPT !.leaf = v]]
      BY <2>2 DEF SetBoxLeaf
    <3> QED BY <2>1, <2>2, <3>1 DEF SetBoxLeaf
  <2>3. ASSUME NEW b \in Boxes, NEW present \in BOOLEAN, MarkPresent(b, present) PROVE TypeOK'
    <3>1. boxes' = [boxes EXCEPT ![b] = [boxes[b] EXCEPT !.marked = present]]
      BY <2>3 DEF MarkPresent
    <3> QED BY <2>1, <2>3, <3>1 DEF MarkPresent
  <2>4. ASSUME NEW b \in Boxes, NEW added \in SUBSET Names, AnnotateBox(b, added) PROVE TypeOK'
    <3>1. boxes' = [boxes EXCEPT ![b] = [boxes[b] EXCEPT !.notes = boxes[b].notes \cup added]]
      BY <2>4 DEF AnnotateBox
    <3> QED BY <2>1, <2>4, <3>1 DEF AnnotateBox
  <2>5. ASSUME NEW b \in Boxes, NEW name \in Names, UnannotateBox(b, name) PROVE TypeOK'
    <3>1. boxes' = [boxes EXCEPT ![b] = [boxes[b] EXCEPT !.notes = boxes[b].notes \ {name}]]
      BY <2>5 DEF UnannotateBox
    <3> QED BY <2>1, <2>5, <3>1 DEF UnannotateBox
  <2>6. ASSUME NEW t \in Targets, NEW added \in SUBSET Names, Annotate(t, added) PROVE TypeOK'
    BY <2>6 DEF Annotate
  <2>7. ASSUME NEW t \in Targets, NEW name \in Names, Unannotate(t, name) PROVE TypeOK'
    BY <2>7 DEF Unannotate
  <2> QED BY <1>5, <2>2, <2>3, <2>4, <2>5, <2>6, <2>7 DEF NodeStep
<1>6. CASE UNCHANGED vars
  BY <1>6 DEF vars
<1> QED BY <1>1, <1>2, <1>3, <1>4, <1>5, <1>6 DEF Next, ValueStep

-----------------------------------------------------------------------------
(* Values in JSON                                                          *)

(* A value that is decoded and taken again.                                 *)
LEMMA TakenAgain ==
  ASSUME NEW t \in Types, NEW j, NEW i \in DOMAIN t.members, NEW c \in Classes(t.members[i]),
         NEW text \in Reads[t.members[i]],
         (IF t.union THEN DecodeUnion(t, j) ELSE DecodeSingle(t.members[1], j))
            = [py |-> c, text |-> text]
  PROVE  DecodeValue(t, j) = [py |-> c, text |-> text] /\ DecodeValue(t, j) # Refused
<1> DEFINE w == [py |-> c, text |-> text]
<1>1. t.members[i] \in MemberTypes
  BY TypesAssumption
<1>2. w # Refused
  BY <1>1, ValuesAssumption
<1>3. Valid(t, w)
  BY DEF Valid, MemberValid
<1> QED BY <1>2, <1>3 DEF DecodeValue

(* A value of a type that is no union.                                      *)
LEMMA SingleComesBack ==
  ASSUME NEW t \in Types, NEW v \in Values, Valid(t, v), ~t.union
  PROVE  LET back == DecodeValue(t, EncodeValue(t, v)) IN back # Refused /\ Same(back, v)
<1> DEFINE m == t.members[1]
           j == EncodeValue(t, v)
<1>1. m \in MemberTypes /\ DOMAIN t.members = {1}
  BY TypesAssumption
<1>2. v.py \in Classes(m) /\ v.text \in Reads[m]
  BY <1>1 DEF Valid, MemberValid
<1>3. /\ j.text = v.text
      /\ j.js = IF m \in {"int64", "decimal", "binary", "bits"} THEN "string" ELSE EncodedByClass(v)
  BY DEF EncodeValue
<1> HIDE DEF j
<1> SUFFICES \E c \in Classes(m) : /\ DecodeSingle(m, j) = [py |-> c, text |-> v.text]
                                   /\ Same([py |-> c, text |-> v.text], v)
  BY <1>1, <1>2, TakenAgain DEF j
<1> HIDE DEF m
<1>4. CASE m \in {"str", "int", "bool"}
  BY <1>2, <1>3, <1>4 DEF Classes, DecodeSingle, AsIs, EncodedByClass, Same, Family
<1>5. CASE m \in {"int64", "decimal"}
  BY <1>2, <1>3, <1>5 DEF Classes, DecodeSingle, Converted, Same, Family
<1>6. CASE m \in {"bits", "binary"}
  BY <1>2, <1>3, <1>6 DEF Classes, DecodeSingle, Converted, Same, Family
<1> QED BY <1>1, <1>4, <1>5, <1>6 DEF MemberTypes

(* A string of a union is what the first member makes of it that takes it.   *)
LEMMA UnionString ==
  ASSUME NEW t \in Types, NEW v \in Values, Valid(t, v), Unambiguous(t, v),
         v.py \in {"str", "Decimal", "frozenset"}
  PROVE  \E i \in DOMAIN t.members : \E c \in Classes(t.members[i]) :
           /\ v.text \in Reads[t.members[i]]
           /\ DecodeString(t, v.text) = [py |-> c, text |-> v.text]
           /\ Same([py |-> c, text |-> v.text], v)
<1> DEFINE is == Reading(t, v.text)
<1>1. \A i \in DOMAIN t.members : t.members[i] \in MemberTypes
  BY TypesAssumption
<1>2. PICK k \in DOMAIN t.members : v.py \in Classes(t.members[k]) /\ v.text \in Reads[t.members[k]]
  BY DEF Valid, MemberValid
<1>3. t.members[k] \in StringTypes
  BY <1>1, <1>2 DEF Classes, MemberTypes, StringTypes
<1>4. k \in is /\ is \subseteq Nat
  BY <1>2, <1>3, TypesAssumption DEF Reading
<1>5. \E i \in is : \A j \in is : i <= j
  <2> HIDE DEF is
  <2> QED BY <1>4, SmallestNumber
<1> DEFINE i == CHOOSE i \in is : \A j \in is : i <= j
<1>6. i \in is
  BY <1>5
<1>7. DecodeString(t, v.text) = Converted(t.members[i], v.text)
  BY <1>4 DEF DecodeString
<1> HIDE DEF i
<1>8. i \in DOMAIN t.members /\ t.members[i] \in StringTypes /\ v.text \in Reads[t.members[i]]
  BY <1>6 DEF Reading
<1> DEFINE m == t.members[i]
<1>9. m \notin {"int", "bool"} /\ m \in StringTypes
  BY <1>8 DEF StringTypes
<1>10. Same(Converted(m, v.text), v)
  BY <1>8, <1>9 DEF Unambiguous
<1>11. \E c \in Classes(m) : Converted(m, v.text) = [py |-> c, text |-> v.text]
  <2> HIDE DEF m
  <2> QED BY <1>9 DEF Converted, Classes, StringTypes
<1> QED BY <1>7, <1>8, <1>10, <1>11

(* A value of a union that is not one of those it loses.                    *)
LEMMA UnionComesBack ==
  ASSUME NEW t \in Types, NEW v \in Values, Valid(t, v), t.union, Narrow(t, v), Unambiguous(t, v)
  PROVE  LET back == DecodeValue(t, EncodeValue(t, v)) IN back # Refused /\ Same(back, v)
<1> DEFINE j == EncodeValue(t, v)
<1>1. \A i \in DOMAIN t.members : t.members[i] \in MemberTypes
  BY TypesAssumption
<1>2. PICK k \in DOMAIN t.members : v.py \in Classes(t.members[k]) /\ v.text \in Reads[t.members[k]]
  BY DEF Valid, MemberValid
<1>3. j = [js |-> EncodedByClass(v), text |-> v.text]
  BY DEF EncodeValue
<1> HIDE DEF j
<1> SUFFICES \E i \in DOMAIN t.members : \E c \in Classes(t.members[i]) :
               /\ v.text \in Reads[t.members[i]]
               /\ DecodeUnion(t, j) = [py |-> c, text |-> v.text]
               /\ Same([py |-> c, text |-> v.text], v)
  BY TakenAgain DEF j
<1>4. v.py \in {"str", "int", "float", "Decimal", "frozenset", "bytes", "bool"}
  BY <1>1, <1>2 DEF MemberTypes, Classes
<1>5. CASE v.py \in {"str", "Decimal", "frozenset"}
  <2>1. DecodeUnion(t, j) = DecodeString(t, v.text)
    BY <1>3, <1>5 DEF EncodedByClass, DecodeUnion
  <2> QED BY <1>5, <2>1, UnionString
<1>6. CASE v.py \in {"int", "float"}
  <2>1. PICK i \in DOMAIN t.members : v.py = "int" /\ v.text \in Reads["int"] /\ t.members[i] = "int"
    BY <1>6 DEF Narrow
  <2>2. DecodeUnion(t, j) = [py |-> "int", text |-> v.text]
    BY <1>3, <2>1 DEF EncodedByClass, DecodeUnion, AsIs
  <2>3. "int" \in Classes(t.members[i])
    BY <2>1 DEF Classes
  <2> QED BY <2>1, <2>2, <2>3 DEF Same, Family
<1>7. CASE v.py = "bool"
  <2>1. t.members[k] = "bool"
    BY <1>1, <1>2, <1>7 DEF MemberTypes, Classes
  <2>2. DecodeUnion(t, j) = [py |-> "bool", text |-> v.text]
    BY <1>3, <1>7, <2>1 DEF EncodedByClass, DecodeUnion, AsIs
  <2> QED BY <1>2, <1>7, <2>2 DEF Same, Family
<1>8. CASE v.py = "bytes"
  <2>1. DecodeUnion(t, j) = [py |-> "bytes", text |-> v.text]
    BY <1>3, <1>8 DEF EncodedByClass, DecodeUnion, AsIs
  <2> QED BY <1>2, <1>8, <2>1 DEF Same, Family
<1> QED BY <1>4, <1>5, <1>6, <1>7, <1>8

-----------------------------------------------------------------------------
(* Containers and annotations in JSON                                      *)

(* A container without annotations, or that exists, is the same again.       *)
LEMMA BoxComesBack ==
  ASSUME TypeOK, NEW b \in Boxes, boxes[b].notes = {} \/ Exists(b, boxes[b])
  PROVE  LET back == Decoded(Encoded).boxes[b]
         IN /\ Exists(b, back) = Exists(b, boxes[b])
            /\ back.leaf = boxes[b].leaf
            /\ back.notes = boxes[b].notes
<1> DEFINE box == boxes[b]
           o == EncodeBox(box)
           d == Encoded
<1>1. /\ box \in [leaf : {None, "v"}, marked : BOOLEAN, notes : SUBSET Names]
      /\ b \in {"c", "p"}
  BY DEF TypeOK, Boxes
<1>2. d[b] = o /\ (b \in d.objects <=> BoxEncoded(b, box))
  BY <1>1 DEF Encoded, Boxes
<1>3. Decoded(d).boxes[b] = DecodeBox(b, d)
  BY DEF Decoded
<1> HIDE DEF d, box
<1>4. /\ DOMAIN o = {m \in {"leaf", "@"} : IF m = "leaf" THEN box.leaf # None ELSE box.notes # {}}
      /\ "leaf" \in DOMAIN o => o["leaf"] = box.leaf
      /\ "@" \in DOMAIN o => o["@"] = box.notes
  BY DEF EncodeBox
<1>5. CASE b \in d.objects
  <2>1. DecodeBox(b, d) = [leaf |-> box.leaf, marked |-> b = "p", notes |-> box.notes]
    <3>1. DecodeBox(b, d) = [leaf   |-> IF "leaf" \in DOMAIN o THEN o["leaf"] ELSE None,
                             marked |-> b = "p",
                             notes  |-> IF "@" \in DOMAIN o THEN o["@"] ELSE {}]
      BY <1>2, <1>5 DEF DecodeBox
    <3> QED BY <1>4, <3>1
  <2>2. Exists(b, box)
    <3>1. CASE box.notes = {} /\ box.leaf = None
      <4>1. DOMAIN o = {}
        BY <1>4, <3>1
      <4>2. o = [m \in DOMAIN o |-> o[m]]
        BY DEF EncodeBox
      <4>3. o = <<>>
        BY <4>1, <4>2
      <4> QED BY <1>2, <1>5, <4>3 DEF BoxEncoded, Exists
    <3>2. CASE box.notes # {} \/ box.leaf # None
      BY <3>2 DEF Exists, box
    <3> QED BY <3>1, <3>2
  <2>3. Exists(b, DecodeBox(b, d))
    BY <1>1, <2>1, <2>2 DEF Exists
  <2> QED BY <1>3, <2>1, <2>2, <2>3 DEF d, box
<1>6. CASE b \notin d.objects
  <2>1. DecodeBox(b, d) = NoBox
    BY <1>6 DEF DecodeBox
  <2>2. o = <<>> /\ ~(b = "p" /\ box.marked)
    BY <1>2, <1>6 DEF BoxEncoded
  <2>3. DOMAIN o = {}
    BY <2>2
  <2>4. box.leaf = None /\ box.notes = {}
    BY <1>4, <2>3
  <2> QED BY <1>3, <2>1, <2>2, <2>4 DEF NoBox, Exists, d, box
<1> QED BY <1>5, <1>6

(* The annotations come back to what they were at.                          *)
LEMMA NotesComeBack ==
  ASSUME TypeOK
  PROVE  LET back == Decoded(Encoded).notes
         IN /\ back[Self] = notes[Self]
            /\ x # None => back[OfX] = notes[OfX]
            /\ \A i \in DOMAIN ll : back[Of(i)] = notes[Of(i)]
<1> DEFINE d == Encoded
           last == CHOOSE i \in NotedEntries : \A j \in NotedEntries : j <= i
<1>1. Decoded(d).notes = DecodeNotes(d)
  BY DEF Decoded
<1>2. d.self = notes[Self] /\ (x # None => d.atX = notes[OfX]) /\ d.atLL = NotesOfList
  BY DEF Encoded
<1> HIDE DEF d
<1>3. /\ DecodeNotes(d)[Self] = d.self
      /\ DecodeNotes(d)[OfX] = d.atX
  BY DEF DecodeNotes, Targets, Self, OfX
<1>4. ASSUME NEW i \in DOMAIN ll PROVE DecodeNotes(d)[Of(i)] = notes[Of(i)]
  <2>1. Len(ll) \in Nat /\ DOMAIN ll = 1..Len(ll) /\ i \in 1..MaxItems
    BY TreeAssumption DEF TypeOK
  <2>2. DecodeNotes(d)[Of(i)] = IF i \in DOMAIN NotesOfList THEN NotesOfList[i] ELSE {}
    <3>1. Of(i) \in Targets /\ Of(i) # Self /\ Of(i) # OfX /\ Of(i)[2] = i
      BY <2>1 DEF Targets, Of, Self, OfX
    <3> HIDE DEF Of
    <3> QED BY <1>2, <3>1 DEF DecodeNotes
  <2>3. CASE NotedEntries = {}
    <3>1. notes[Of(i)] = {}
      BY <2>3 DEF NotedEntries
    <3>2. DOMAIN NotesOfList = {}
      BY <2>3 DEF NotesOfList
    <3> QED BY <2>2, <3>1, <3>2
  <2>4. CASE NotedEntries # {}
    <3> DEFINE S == {Len(ll) - k : k \in NotedEntries}
    <3>1. NotedEntries \subseteq 1..Len(ll)
      BY <2>1 DEF NotedEntries
    <3>2. S \subseteq Nat /\ S # {}
      <4>1. Len(ll) \in Nat
        BY <2>1
      <4>2. \A k \in 1..Len(ll) : Len(ll) - k \in Nat
        BY <4>1
      <4> QED BY <2>4, <3>1, <4>2
    <3>3. PICK n \in S : \A h \in S : n <= h
      <4> HIDE DEF S
      <4> QED BY <3>2, SmallestNumber
    <3>4. \E k \in NotedEntries : \A j \in NotedEntries : j <= k
      <4>1. PICK k \in NotedEntries : n = Len(ll) - k
        BY <3>3
      <4>2. \A j \in NotedEntries : Len(ll) - k <= Len(ll) - j
        BY <3>3, <4>1
      <4> QED BY <2>1, <3>1, <4>2
    <3>5. last \in NotedEntries /\ \A j \in NotedEntries : j <= last
      BY <3>4
    <3>6. NotesOfList = [k \in 1..last |-> notes[Of(k)]]
      BY <2>4 DEF NotesOfList
    <3> HIDE DEF last
    <3>7. CASE i <= last
      BY <2>1, <2>2, <3>1, <3>5, <3>6, <3>7
    <3>8. CASE ~(i <= last)
      <4>1. notes[Of(i)] = {}
        BY <3>5, <3>8 DEF NotedEntries
      <4> QED BY <2>2, <3>6, <3>8, <4>1
    <3> QED BY <3>7, <3>8
  <2> QED BY <2>3, <2>4
<1> QED BY <1>1, <1>2, <1>3, <1>4 DEF d

(* The tree as a whole.                                                    *)
LEMMA TreeComesBack == TypeOK => RoundTrip
<1> SUFFICES ASSUME TypeOK,
                    \A v \in Held : /\ Valid(type, v)
                                    /\ type.union => Narrow(type, v) /\ Unambiguous(type, v)
             PROVE  LET d == Encoded
                        back == Decoded(d)
                    IN /\ ~Raises(d)
                       /\ x = None => back.x = None
                       /\ x # None => Same(back.x, x)
                       /\ Len(back.ll) = Len(ll) /\ \A i \in DOMAIN ll : Same(back.ll[i], ll[i])
                       /\ \A b \in Boxes :
                            boxes[b].notes = {} \/ Exists(b, boxes[b]) =>
                              /\ Exists(b, back.boxes[b]) = Exists(b, boxes[b])
                              /\ back.boxes[b].leaf = boxes[b].leaf
                              /\ back.boxes[b].notes = boxes[b].notes
                       /\ back.notes[Self] = notes[Self]
                       /\ x # None => back.notes[OfX] = notes[OfX]
                       /\ \A i \in DOMAIN ll : back.notes[Of(i)] = notes[Of(i)]
  BY DEF RoundTrip
<1> DEFINE d == Encoded
           back == Decoded(d)
           Again(v) == DecodeValue(type, EncodeValue(type, v))
<1>1. ASSUME NEW v \in Held PROVE Again(v) # Refused /\ Same(Again(v), v)
  <2>1. type \in Types /\ v \in Values
    BY DEF TypeOK, Held
  <2> QED BY <1>1, <2>1, SingleComesBack, UnionComesBack
<1>2. /\ d.x = IF x = None THEN None ELSE EncodeValue(type, x)
      /\ d.ll = [i \in DOMAIN ll |-> EncodeValue(type, ll[i])]
  BY DEF Encoded
<1>3. /\ back.x = IF d.x = None THEN None ELSE DecodeValue(type, d.x)
      /\ back.ll = [i \in DOMAIN d.ll |-> DecodeValue(type, d.ll[i])]
  BY DEF Decoded
<1> HIDE DEF d, back
<1>4. /\ DOMAIN d.ll = DOMAIN ll
      /\ \A i \in DOMAIN ll : /\ d.ll[i] = EncodeValue(type, ll[i]) /\ back.ll[i] = Again(ll[i])
                               /\ ll[i] \in Held
  BY <1>2, <1>3 DEF Held
<1>5. Len(back.ll) = Len(ll)
  BY <1>3, <1>4 DEF TypeOK
<1>6. ASSUME x # None PROVE x \in Held /\ EncodeValue(type, x) # None
  <2>1. x \in Held /\ type \in Types
    BY <1>6 DEF Held, TypeOK
  <2>2. PICK i \in DOMAIN type.members : MemberValid(type.members[i], x)
    BY <2>1 DEF Valid
  <2>3. type.members[i] \in MemberTypes
    BY <2>1, TypesAssumption
  <2>4. EncodedByClass(x) \in {"string", "number", "fraction", "boolean", "none"}
    BY <2>2, <2>3 DEF MemberValid, MemberTypes, Classes, EncodedByClass
  <2> DEFINE js == IF ~type.union /\ type.members[1] \in {"int64", "decimal", "binary", "bits"}
                   THEN "string" ELSE EncodedByClass(x)
  <2>5. EncodeValue(type, x) = [js |-> js, text |-> x.text]
    BY DEF EncodeValue
  <2>6. js \in {"string", "number", "fraction", "boolean", "none"}
    BY <2>4
  <2> HIDE DEF js
  <2> QED BY <2>1, <2>2, <2>3, <2>5, <2>6, ValuesAssumption DEF MemberValid
<1>7. ~Raises(d)
  BY <1>1, <1>2, <1>4, <1>6 DEF Raises
<1>8. (x = None => back.x = None) /\ (x # None => Same(back.x, x))
  BY <1>1, <1>2, <1>3, <1>6
<1> QED BY <1>1, <1>4, <1>5, <1>7, <1>8, BoxComesBack, NotesComeBack DEF d, back

(* What a program puts into a tree has the types the tree has it under.      *)
THEOREM TypeCorrect == Spec => []TypeOK
BY TreeInit, TreeNext, PTL DEF Spec

(* A tree of valid values, none of a kind the union loses, comes back from    *)
(* the JSON it is written as: values, containers and annotations.            *)
THEOREM TreesComeBack == Spec => []RoundTrip
BY TypeCorrect, TreeComesBack, PTL
=============================================================================
