------------------------------ MODULE Loaders ------------------------------
(***************************************************************************)
(* The loaders of lib/serialise.py: load_json (the format of pyangbind),     *)
(* load_ietf_json (RFC 7951) and load_xml, into a tree that exists.          *)
(*                                                                         *)
(* The tree is a container with one child of each kind a loader tells apart: *)
(* a leaf, a leaf-list, a keyed list whose entries have a leaf v, and a      *)
(* presence container with a leaf in.  A loader goes through the members of  *)
(* the document in their order, and a value that is refused ends it where it *)
(* is.  One value of a leaf-list and one entry of a list is a step.          *)
(***************************************************************************)
EXTENDS TypedList, SequencesExt

CONSTANTS
  Keys,      \* the keys of list entries, as text
  Number,    \* Number[k]: the key as the number in an IETF document, or Invalid
  Values,    \* the values of leaves
  Bad,       \* a value no leaf takes
  Null,      \* the value of a leaf nobody has set
  Documents, \* Documents[d]: the members of document d, in their order
  Ordered,   \* the list is `ordered-by user`
  NoOrder,   \* an entry of a document without __yang_order
  MaxLoads   \* bound: loads in a behaviour

Names == {"leaf", "leaflist", "list", "box", "unknown"}

\* A member is [n, v]: v is a value for the leaf, a sequence of values for the
\* leaf-list and for the container (with one value or none), a sequence of
\* entries [key, v, order] for the list, and for a name the bindings do not
\* have "value", "array" or "empty", the array without elements.
VARIABLES
  tree,   \* the data: leaf, leaflist, list, and box with its presence
  load,   \* the load that runs, or the last one
  spent,  \* the documents whose __yang_order a load has removed
  loads   \* the number of loads begun

vars == <<tree, load, spent, loads>>

DictKeys == Keys \cup ({Number[k] : k \in Keys} \ {Invalid})
Entries  == [at : DictKeys, key : Keys, v : Values \cup {Null}]

Flags == [fmt : {"json", "ietf", "xml"}, overwrite : BOOLEAN, skip : BOOLEAN]

TypeOK ==
  /\ tree.leaf \in Values \cup {Null}
  /\ tree.leaflist \in Seq(Natives)
  /\ tree.list \in Seq(Entries)
  /\ tree.box \in [present : BOOLEAN, in : Values \cup {Null}]
  /\ load.out \in {"none", "running", "done", "raised"}
  /\ load.doc \in DOMAIN Documents
  /\ load.member \in 1..(Len(Documents[load.doc]) + 1)
  /\ load.part \in Nat
  /\ loads \in 0..MaxLoads

Empty ==
  [leaf |-> Null, leaflist |-> <<>>, list |-> <<>>,
   box |-> [present |-> FALSE, in |-> Null]]

Init ==
  /\ tree = Empty /\ spent = {} /\ loads = 0
  /\ load = [flags |-> [fmt |-> "json", overwrite |-> FALSE, skip |-> FALSE],
             doc |-> 1, member |-> Len(Documents[1]) + 1, part |-> 0,
             before |-> Empty, fresh |-> FALSE, again |-> FALSE, out |-> "none"]

-----------------------------------------------------------------------------
(* A load                                                                  *)

\* load_xml has neither of the flags.
Begin(d, flags) ==
  /\ load.out # "running" /\ loads < MaxLoads
  /\ flags.fmt = "xml" => ~flags.overwrite /\ ~flags.skip
  /\ load' = [flags |-> flags, doc |-> d, member |-> 1, part |-> 0,
              before |-> tree, fresh |-> d \notin spent,
              again |-> load.out = "done" /\ load.doc = d /\ load.flags = flags,
              out |-> "running"]
  /\ loads' = loads + 1
  /\ UNCHANGED <<tree, spent>>

Fmt       == load.flags.fmt
Overwrite == load.flags.overwrite
Doc       == Documents[load.doc]
Member    == Doc[load.member]

At(name) == load.out = "running" /\ load.member <= Len(Doc) /\ Member.n = name

NextMember   == load' = [load EXCEPT !.member = @ + 1, !.part = 0]
NextPart     == load' = [load EXCEPT !.part = @ + 1]
Raise        == load' = [load EXCEPT !.out = "raised"]
TreeBecomes(t) == tree' = t /\ UNCHANGED <<spent, loads>>

Finish ==
  /\ load.out = "running" /\ load.member > Len(Doc)
  /\ load' = [load EXCEPT !.out = "done"]
  /\ TreeBecomes(tree)

\* A name the bindings do not have: load_ietf_json raises for an array whatever
\* the flag, but passes over an empty one.
Tolerated ==
  CASE Member.v = "value" -> load.flags.skip
    [] Member.v = "array" -> load.flags.skip /\ Fmt # "ietf"
    [] Member.v = "empty" -> load.flags.skip \/ Fmt # "json"

LoadUnknown ==
  /\ At("unknown")
  /\ TreeBecomes(tree)
  /\ IF Tolerated THEN NextMember ELSE Raise

LoadLeaf ==
  /\ At("leaf")
  /\ IF Member.v = Bad
     THEN Raise /\ TreeBecomes(tree)
     ELSE NextMember /\ TreeBecomes([tree EXCEPT !.leaf = Member.v])

\* The container is present as soon as it is in the document.  load_json with
\* overwrite unsets what it has; load_ietf_json with overwrite does not.
Present(box) ==
  IF Fmt = "json" /\ Overwrite THEN [present |-> TRUE, in |-> Null]
  ELSE [box EXCEPT !.present = TRUE]

LoadContainer ==
  /\ At("box")
  /\ LET box == Present(tree.box)
     IN IF Member.v = <<Bad>>
        THEN Raise /\ TreeBecomes([tree EXCEPT !.box = box])
        ELSE /\ NextMember
             /\ TreeBecomes([tree EXCEPT !.box = IF Member.v = <<>> THEN box
                                                 ELSE [box EXCEPT !.in = Member.v[1]]])

-----------------------------------------------------------------------------
(* Leaf-lists                                                              *)

\* The whole leaf-list is set: by load_json with overwrite, and by
\* load_ietf_json unless the array is empty.
SetsWhole == Fmt = "ietf" \/ (Fmt = "json" /\ Overwrite)

SetLeafList ==
  /\ At("leaflist") /\ SetsWhole
  /\ IF Fmt = "ietf" /\ Member.v = <<>>
     THEN NextMember /\ TreeBecomes(tree)
     ELSE IF \E i \in DOMAIN Member.v : ~Accepts(Member.v[i])
     THEN Raise /\ TreeBecomes(tree)
     ELSE /\ NextMember
          /\ TreeBecomes([tree EXCEPT !.leaflist = CollectedAll(Member.v)])

\* The others append what is missing, value by value.
LoadItem ==
  /\ At("leaflist") /\ ~SetsWhole /\ load.part < Len(Member.v)
  /\ LET p == Member.v[load.part + 1]
     IN IF AppendRefused(tree.leaflist, p)
        THEN Raise /\ TreeBecomes(tree)
        ELSE NextPart /\ TreeBecomes([tree EXCEPT !.leaflist = Appended(@, p)])

\* load_json then removes the members that are not in the document: a value the
\* type has converted is not found there, and is removed again.
Stays(s, given) == IF Fmt = "json" THEN Only(s, ToSet(given)) ELSE s

EndLeafList ==
  /\ At("leaflist") /\ ~SetsWhole /\ load.part = Len(Member.v)
  /\ NextMember
  /\ TreeBecomes([tree EXCEPT !.leaflist = Stays(@, Member.v)])

-----------------------------------------------------------------------------
(* Lists                                                                   *)

\* load_json goes through the entries of a list `ordered-by user` in the order
\* of their __yang_order, and after them the others, the last of the document
\* first.  Of entries with the same number only the last is taken.  The numbers
\* are removed from the document it was handed: a fresh one has them.
HasNumber(e, fresh) == fresh /\ e.order # NoOrder
Taken(es, fresh) ==
  {i \in DOMAIN es : HasNumber(es[i], fresh) =>
                       \A j \in DOMAIN es : es[j].order = es[i].order => j <= i}
Before(es, fresh, i, j) ==
  LET has(n) == HasNumber(es[n], fresh)
  IN \/ has(i) /\ has(j) /\ es[i].order < es[j].order
     \/ has(i) /\ ~has(j)
     \/ ~has(i) /\ ~has(j) /\ j < i
Sorted(es, fresh) ==
  [n \in 1..Cardinality(Taken(es, fresh)) |->
     es[CHOOSE i \in Taken(es, fresh) :
          Cardinality({j \in Taken(es, fresh) : Before(es, fresh, j, i)}) = n - 1]]

ByOrderAsIs(es) == es   \* mutant: in the order of the document
ByOrder(es) == IF Fmt = "json" /\ Ordered THEN Sorted(es, load.fresh) ELSE es

\* What the key of the dictionary is: the text, or in an IETF document the number.
DictKey(k) == IF Fmt = "ietf" THEN Number[k] ELSE k

IsIn(l, k) == \E i \in DOMAIN l : l[i].at = DictKey(k)

\* Mutant: a member that is there stays as it is.
PutNew(l, e) ==
  IF IsIn(l, e.key) THEN l
  ELSE Append(l, [at |-> DictKey(e.key), key |-> e.key,
                  v |-> IF e.v \in Values THEN e.v ELSE Null])

Put(l, e) ==
  LET add == IF IsIn(l, e.key) THEN l
             ELSE Append(l, [at |-> DictKey(e.key), key |-> e.key, v |-> Null])
  IN [i \in DOMAIN add |->
        IF add[i].at = DictKey(e.key) /\ e.v \in Values THEN [add[i] EXCEPT !.v = e.v]
        ELSE add[i]]

\* load_ietf_json with overwrite deletes, for each entry of the document, the
\* entries there are while it goes through them: it survives only if it has
\* deleted the last one.
PurgeAny  == Fmt = "ietf"   \* mutant
Purge     == Fmt = "ietf" /\ Overwrite
Purged(l) == IF Purge /\ l # <<>> THEN Tail(l) ELSE l

LoadEntry ==
  /\ At("list") /\ load.part < Len(ByOrder(Member.v))
  /\ LET e == ByOrder(Member.v)[load.part + 1]
         l == Purged(tree.list)
     IN IF (Purge /\ l # <<>>) \/ Number[e.key] = Invalid
        THEN Raise /\ tree' = [tree EXCEPT !.list = l]
        ELSE /\ tree' = [tree EXCEPT !.list = Put(l, e)]
             /\ IF e.v = Bad THEN Raise ELSE NextPart
  /\ spent' = IF Fmt = "json" /\ Ordered THEN spent \cup {load.doc} ELSE spent
  /\ loads' = loads

\* load_json with overwrite deletes the entries that are not in the document
\* while it goes through the list: the first of them, and there it survives
\* only if that is the last one of the list.
Strange(es) ==
  {i \in DOMAIN tree.list : tree.list[i].at \notin {es[j].key : j \in DOMAIN es}}

\* A list the document gives no entries is set to nothing by load_json, which
\* sets every member it has not come to load another way.
Emptied == Fmt = "json" /\ Member.v = <<>>

EndList ==
  /\ At("list") /\ load.part = Len(ByOrder(Member.v))
  /\ UNCHANGED <<spent, loads>>
  /\ LET strange == Strange(Member.v)
         i == CHOOSE j \in strange : \A h \in strange : j <= h
     IN IF Fmt = "json" /\ Overwrite /\ strange # {}
        THEN /\ tree' = [tree EXCEPT !.list = Deleted(@, i)]
             /\ IF i = Len(tree.list) THEN NextMember ELSE Raise
        ELSE /\ tree' = [tree EXCEPT !.list = IF Emptied THEN <<>> ELSE @]
             /\ NextMember

-----------------------------------------------------------------------------
Step ==
  \/ LoadUnknown \/ LoadLeaf \/ LoadContainer
  \/ SetLeafList \/ LoadItem \/ EndLeafList
  \/ LoadEntry \/ EndList
  \/ Finish

Next == Step \/ \E d \in DOMAIN Documents, flags \in Flags : Begin(d, flags)

Spec == Init /\ [][Next]_vars

-----------------------------------------------------------------------------
(* Properties                                                              *)

Done == load.out = "done"
Members == {Doc[i] : i \in DOMAIN Doc}
SomeIn(l, P(_)) == \E i \in DOMAIN l : P(l[i])

\* What member m says is in the tree.
IsLoaded(m) ==
  CASE m.n = "leaf"     -> tree.leaf = m.v
    [] m.n = "box"      -> tree.box.present /\ (m.v # <<>> => tree.box.in = m.v[1])
    [] m.n = "leaflist" -> \A i \in DOMAIN m.v : Has(tree.leaflist, Native[m.v[i]])
    [] m.n = "list"     ->
         \A i \in DOMAIN m.v :
           SomeIn(tree.list, LAMBDA e : e.key = m.v[i].key /\ m.v[i].v \in {Null, e.v})
    [] m.n = "unknown"  -> TRUE

\* A load that ends without an error has loaded the document.
DocumentLoaded == Done => \A m \in Members : IsLoaded(m)

\* So it is but for three things load_json and load_ietf_json lose: the values
\* of a leaf-list that are not of its type yet, with `overwrite` the entries of
\* a list before the last, and of entries with the same number all but the last.
LosesValues(m)  == m.n = "leaflist" /\ Fmt = "json" /\ ~Overwrite /\ ~(ToSet(m.v) \subseteq Natives)
LosesEntries(m) ==
  m.n = "list" /\ IF Purge THEN Len(m.v) > 1
                  ELSE Fmt = "json" /\ Ordered /\ Taken(m.v, load.fresh) # DOMAIN m.v
MostLoaded ==
  Done => \A m \in Members : LosesValues(m) \/ LosesEntries(m) \/ IsLoaded(m)

\* A load touches nothing but what the document names, and of that nothing it
\* has not come to: at each step, when it ends and when it raises.  Without
\* `overwrite` no entry of a list is lost either, nor the leaf of an entry but
\* for a value of the document; except that load_json empties the list when the
\* document gives it no entries.
Unreached == {n \in Names \ {"unknown"} :
                \A i \in DOMAIN Doc : i <= load.member => Doc[i].n # n}
EntriesKept ==
  \A i \in DOMAIN load.before.list :
    LET old == load.before.list[i]
        new == tree.list[i]
    IN /\ i \in DOMAIN tree.list /\ new.at = old.at
       /\ new.v = old.v
          \/ \E m \in Members : m.n = "list" /\ SomeIn(m.v, LAMBDA e : e.key = old.key /\ e.v = new.v)
GivenEmpty == Fmt = "json" /\ \E m \in Members : m.n = "list" /\ m.v = <<>>
RestKept ==
  /\ \A n \in Unreached : tree[n] = load.before[n]
  /\ ~Overwrite => EntriesKept \/ (GivenEmpty /\ tree.list = <<>>)

\* Without `overwrite` a load loses no entry of a list, nor the leaf of one but
\* for a value of the document.
EntriesSpared == ~Overwrite => EntriesKept

\* A document whose names and values the bindings take is loaded without an
\* error, unless with `overwrite` it has a list.
Takes(m) ==
  CASE m.n = "leaf"     -> m.v # Bad
    [] m.n = "box"      -> m.v # <<Bad>>
    [] m.n = "leaflist" -> \A i \in DOMAIN m.v : Accepts(m.v[i])
    [] m.n = "list"     -> \A i \in DOMAIN m.v : Number[m.v[i].key] # Invalid /\ m.v[i].v # Bad
    [] m.n = "unknown"  -> FALSE
GoodDocumentsLoad ==
  load.out = "raised" => \E m \in Members : ~Takes(m) \/ (Overwrite /\ m.n = "list")

\* The same document loaded a second time in a row changes nothing, if the
\* values of its leaf-lists are of their type and no number is given twice.
OfTheType == \A m \in Members : m.n = "leaflist" => ToSet(m.v) \subseteq Natives
NumbersOnce ==
  \A m \in Members : m.n = "list" =>
    \A i, j \in DOMAIN m.v : m.v[i].order = m.v[j].order /\ i # j => m.v[i].order = NoOrder
ReloadChangesNothing ==
  load.again /\ ~Overwrite /\ OfTheType /\ NumbersOnce /\ Done => tree = load.before

\* What load_json makes of a list that was empty has the order of the numbers.
OrderRestored ==
  Done /\ Fmt = "json" /\ Ordered /\ load.fresh /\ load.before.list = <<>> =>
    \A m \in Members : m.n = "list" =>
      \A a, b \in Taken(m.v, TRUE) :
        HasNumber(m.v[a], TRUE) /\ HasNumber(m.v[b], TRUE) /\ m.v[a].order < m.v[b].order =>
          \E i, j \in DOMAIN tree.list :
            i < j /\ tree.list[i].key = m.v[a].key /\ tree.list[j].key = m.v[b].key
=============================================================================
