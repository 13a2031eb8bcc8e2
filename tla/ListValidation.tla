--------------------------- MODULE ListValidation ---------------------------
(***************************************************************************)
(* How validate_tree of the dataclass bindings goes over one list or         *)
(* leaf-list (walk): keys, `unique`, duplicates and the number of entries,   *)
(* and the leafrefs that refer to its values once the tree is gone over.     *)
(*                                                                         *)
(* An entry is [key, unique]: the values of the key leaves and of the leaves *)
(* of a `unique`; an element of a leaf-list has itself for its key.  A value *)
(* is [py, v], with py its Python class.  Sets of Python tell values apart by *)
(* hash and ==: a bool is the number it equals, and an object of the class   *)
(* of a bits type has no hash.                                              *)
(***************************************************************************)
EXTENDS Naturals, Sequences

CONSTANTS
  None,         \* not set
  MinElements, MaxElements   \* min-elements and max-elements

VARIABLES
  shape,        \* "list" or "leaf-list"
  entries,
  refs,         \* the values of leafrefs to the (first) key, or the elements
  pos,          \* entries gone over
  seenKeys, seenUnique,
  noted,        \* the values a leafref may have
  errors,       \* <<what, entry>>
  ended         \* "no", "yes" or "raised"

lvars == <<shape, entries, refs, pos, seenKeys, seenUnique, noted, errors, ended>>

InitWith(k, es, rs) ==
  /\ shape = k /\ entries = es /\ refs = rs
  /\ pos = 0 /\ seenKeys = {} /\ seenUnique = {} /\ noted = {} /\ errors = {}
  /\ ended = "no"

\* What the bindings hand to validate_tree: keys and uniques are tuples of
\* values, an element of a leaf-list is set, and no leafref is to a bits type.
IsTuple(values) ==
  /\ values = [i \in DOMAIN values |-> values[i]]
  /\ \A i \in DOMAIN values : values[i] # None => values[i].py # "number"
                              /\ values[i] = [py |-> values[i].py, v |-> values[i].v]
WellFormed ==
  /\ shape \in {"list", "leaf-list"}
  /\ Len(entries) \in Nat /\ DOMAIN entries = 1..Len(entries)
  /\ \A i \in DOMAIN entries :
       /\ IsTuple(entries[i].key) /\ IsTuple(entries[i].unique)
       /\ entries[i].key # <<>> => 1 \in DOMAIN entries[i].key
       /\ shape = "leaf-list" =>
            /\ DOMAIN entries[i].key = {1} /\ entries[i].key[1] # None
            /\ entries[i].unique = <<>>
  /\ IsTuple(refs)
  /\ \A r \in DOMAIN refs : refs[r] # None /\ refs[r].py # "bits"

TypeOK ==
  /\ WellFormed
  /\ pos \in 0..Len(entries)
  /\ ended \in {"no", "yes", "raised"}
  /\ \A e \in errors : e[1] \in {"no key", "key", "unique", "max", "min", "leafref"}

Hashable(value) == value = None \/ value.py # "bits"
AllHashable(values) == \A i \in DOMAIN values : Hashable(values[i])
AllSet(values) == values # <<>> /\ \A i \in DOMAIN values : values[i] # None

\* Mutant: values are told apart by their texts.
HashedAsText(values) == [i \in DOMAIN values |-> values[i].v]

\* What a set of Python has of a tuple of values.
Hashed(values) ==
  [i \in DOMAIN values |->
     [class |-> IF values[i].py \in {"int", "bool"} THEN "number" ELSE values[i].py,
      v |-> values[i].v]]

\* The leaf of an entry is noted unless it is of a bits class.
Noted(entry) ==
  IF entry.key # <<>> /\ entry.key[1] # None /\ Hashable(entry.key[1])
  THEN Hashed(<<entry.key[1]>>) ELSE <<>>

\* The keys of an entry raise in the set of keys, the values of a `unique` in
\* theirs.
Raises(entry) ==
  \/ AllSet(entry.key) /\ ~AllHashable(entry.key)
  \/ AllSet(entry.unique) /\ ~AllHashable(entry.unique)

Complaints(entry, i) ==
  {<<"no key", i>> : k \in {k \in DOMAIN entry.key : entry.key[k] = None}}
    \cup {<<"key", i>> : k \in {k \in {1} : AllSet(entry.key) /\ Hashed(entry.key) \in seenKeys}}
    \cup {<<"unique", i>> : k \in {k \in {1} : AllSet(entry.unique) /\ Hashed(entry.unique) \in seenUnique}}

GoOn == pos' = pos + 1 /\ UNCHANGED <<shape, entries, refs>>

\* An entry of a list.
Entry ==
  /\ ended = "no" /\ shape = "list" /\ pos < Len(entries)
  /\ LET entry == entries[pos + 1]
     IN IF Raises(entry)
        THEN ended' = "raised" /\ UNCHANGED <<seenKeys, seenUnique, noted, errors>>
        ELSE /\ errors' = errors \cup Complaints(entry, pos + 1)
             /\ seenKeys' = IF AllSet(entry.key) THEN seenKeys \cup {Hashed(entry.key)} ELSE seenKeys
             /\ seenUnique' = IF AllSet(entry.unique)
                              THEN seenUnique \cup {Hashed(entry.unique)} ELSE seenUnique
             /\ noted' = noted \cup {Noted(entry)}
             /\ UNCHANGED ended
  /\ GoOn

\* An element of a leaf-list: one without hash is passed over.
Element ==
  /\ ended = "no" /\ shape = "leaf-list" /\ pos < Len(entries)
  /\ LET value == entries[pos + 1].key
     IN IF AllHashable(value)
        THEN /\ errors' = errors \cup {<<"key", pos + 1>> : k \in {Hashed(value)} \cap seenKeys}
             /\ seenKeys' = seenKeys \cup {Hashed(value)}
             /\ noted' = noted \cup {Hashed(value)}
        ELSE UNCHANGED <<errors, seenKeys, noted>>
  /\ UNCHANGED <<seenUnique, ended>>
  /\ GoOn

\* The number of the entries, and, at the end of the tree, the leafrefs.
Count ==
  {<<"max", 0>> : n \in {n \in {Len(entries)} : n > MaxElements}}
    \cup {<<"min", 0>> : n \in {n \in {Len(entries)} : n < MinElements}}

Dangling == {<<"leafref", r>> : r \in {r \in DOMAIN refs : Hashed(<<refs[r]>>) \notin noted}}

Close ==
  /\ ended = "no" /\ pos = Len(entries)
  /\ errors' = errors \cup Count \cup Dangling
  /\ ended' = "yes"
  /\ UNCHANGED <<shape, entries, refs, pos, seenKeys, seenUnique, noted>>

Next == Entry \/ Element \/ Close

-----------------------------------------------------------------------------
(* Properties                                                              *)

TuplesOf(i) == {entries[i].key, entries[i].unique}

\* Two tuples of values are told apart by YANG, but not by Python.
NumberAndBool(a, b) ==
  \E i \in DOMAIN a \cap DOMAIN b : None \notin {a[i], b[i]} /\ {a[i].py, b[i].py} = {"int", "bool"}

Repeats(field(_), i) ==
  \E j \in 1..(i - 1) : field(entries[i]) = field(entries[j])
Confused(field(_), i) ==
  \E j \in 1..(i - 1) : NumberAndBool(field(entries[i]), field(entries[j]))
Complete(field(_), i) == AllSet(field(entries[i]))

JudgedBy(field(_), what) ==
  \A i \in 1..pos :
    /\ <<what, i>> \in errors => Complete(field, i) /\ (Repeats(field, i) \/ Confused(field, i))
    /\ (Complete(field, i) /\ Repeats(field, i) /\ AllHashable(field(entries[i])))
         => <<what, i>> \in errors

KeyOf(entry) == entry.key
UniqueOf(entry) == entry.unique

\* Keys that are not set, keys and uniques that repeat, and too many or too few
\* entries are reported, and nothing else is but a Boolean after the number it
\* equals; validation raises only on a bits value, and in a list; a leafref is
\* reported exactly when no entry, wherever it is, has a value that equals it.
ListsJudgedRight ==
  IF ended = "raised"
  THEN shape = "list" /\ \E i \in 1..pos : \E vs \in TuplesOf(i) : AllSet(vs) /\ ~AllHashable(vs)
  ELSE /\ JudgedBy(KeyOf, "key")
       /\ JudgedBy(UniqueOf, "unique")
       /\ \A i \in 1..pos :
            <<"no key", i>> \in errors <=> \E k \in DOMAIN entries[i].key : entries[i].key[k] = None
       /\ ended = "yes" =>
            /\ <<"max", 0>> \in errors <=> Len(entries) > MaxElements
            /\ <<"min", 0>> \in errors <=> Len(entries) < MinElements
       /\ ended = "yes" => \A r \in DOMAIN refs :
            LET same == {i \in DOMAIN entries :
                           entries[i].key # <<>> /\ entries[i].key[1] = refs[r]}
                other == {i \in DOMAIN entries :
                            entries[i].key # <<>> /\ NumberAndBool(<<entries[i].key[1]>>, <<refs[r]>>)}
            IN /\ same # {} => <<"leafref", r>> \notin errors
               /\ same \cup other = {} => <<"leafref", r>> \in errors
=============================================================================
