---------------------------- MODULE DataclassTree ----------------------------
(***************************************************************************)
(* A tree of the dataclass bindings: assignment, presence, annotations and   *)
(* the round trip through JSON (plugin/pybind_dataclass.py).                 *)
(*                                                                         *)
(* The root has a leaf x, a leaf-list ll of the same type, a container c and *)
(* a presence container p with a leaf each.  Container objects are always    *)
(* there; whether a container exists is a matter of its data and of a flag.  *)
(* Annotations are kept beside the data: by member name, and for entries of  *)
(* a leaf-list by index.                                                     *)
(***************************************************************************)
EXTENDS DataclassCodec, FiniteSets

CONSTANTS
  Types,      \* the types x and ll may have
  Values,     \* the values a program assigns, valid or not
  Names,      \* the annotations of the schema
  None,       \* an unset leaf
  MaxItems    \* bound: the length of ll

ASSUME TreeAssumption == None \notin Values /\ Refused \notin Values /\ MaxItems \in Nat

VARIABLES
  type,    \* the type of x and ll
  x, ll,   \* the leaf and the leaf-list
  boxes,   \* c and p: the leaf, the flag, the annotations of the container
  notes    \* the root's annotations: of itself, of x, and of entries of ll

vars == <<type, x, ll, boxes, notes>>

Boxes == {"c", "p"}
Self    == <<"self", 0>>
OfX     == <<"x", 0>>
Of(i)   == <<"ll", i>>
Targets == {Self, OfX} \cup {Of(i) : i \in 1..MaxItems}

NoNotes == [t \in Targets |-> {}]
NoBox   == [leaf |-> None, marked |-> FALSE, notes |-> {}]

\* A leaf holds a valid value.  A list may hold any: `append` is not looked at.
TypeOK ==
  /\ type \in Types
  /\ x = None \/ (x \in Values /\ Valid(type, x))
  /\ ll \in Seq(Values) /\ Len(ll) <= MaxItems
  /\ boxes \in [Boxes -> [leaf : {None, "v"}, marked : BOOLEAN, notes : SUBSET Names]]
  /\ notes \in [Targets -> SUBSET Names]

Init ==
  /\ type \in Types
  /\ x = None /\ ll = <<>>
  /\ boxes = [b \in Boxes |-> NoBox] /\ notes = NoNotes

-----------------------------------------------------------------------------
(* What a program does                                                     *)

\* `__setattr__`: a value the type does not take is an error, None is not.
AssignableAny(v) == TRUE   \* mutant
Assignable(v)    == v = None \/ Valid(type, v)
Assigned(v, old) == IF Assignable(v) THEN v ELSE old

SetLeaf(v) ==
  /\ x' = Assigned(v, x)
  /\ UNCHANGED <<type, ll, boxes, notes>>

\* A list is checked element by element, and then kept as it is.
SetLeafList(s) ==
  /\ \A i \in DOMAIN s : Valid(type, s[i])
  /\ ll' = s
  /\ UNCHANGED <<type, x, boxes, notes>>

\* The list itself is changed: no assignment, so no check.
AppendInPlace(v) ==
  /\ Len(ll) < MaxItems
  /\ ll' = Append(ll, v)
  /\ UNCHANGED <<type, x, boxes, notes>>

DeleteInPlace(i) ==
  /\ ll' = SubSeq(ll, 1, i - 1) \o SubSeq(ll, i + 1, Len(ll))
  /\ UNCHANGED <<type, x, boxes, notes>>

SetBoxLeaf(b, v) ==
  /\ boxes' = [boxes EXCEPT ![b].leaf = v]
  /\ UNCHANGED <<type, x, ll, notes>>

\* mark_present(): on any container, for what it is worth.
MarkPresent(b, present) ==
  /\ boxes' = [boxes EXCEPT ![b].marked = present]
  /\ UNCHANGED <<type, x, ll, notes>>

\* annotate(): the values in their order; one that is refused ends the call
\* where it is, so that any part of the names may have been entered.
Annotate(t, added) ==
  /\ notes' = [notes EXCEPT ![t] = @ \cup added]
  /\ UNCHANGED <<type, x, ll, boxes>>

AnnotateBox(b, added) ==
  /\ boxes' = [boxes EXCEPT ![b].notes = @ \cup added]
  /\ UNCHANGED <<type, x, ll, notes>>

\* annotate() with None removes a name.
Unannotate(t, name) ==
  /\ notes' = [notes EXCEPT ![t] = @ \ {name}]
  /\ UNCHANGED <<type, x, ll, boxes>>

UnannotateBox(b, name) ==
  /\ boxes' = [boxes EXCEPT ![b].notes = @ \ {name}]
  /\ UNCHANGED <<type, x, ll, notes>>

\* The values are set; what there is about them is.
ValueStep(values) ==
  \/ \E v \in values \cup {None} : SetLeaf(v)
  \/ \E n \in 0..MaxItems : \E s \in [1..n -> values] : SetLeafList(s)
  \/ \E v \in values : AppendInPlace(v)
  \/ \E i \in DOMAIN ll : DeleteInPlace(i)

NodeStep ==
  \/ \E b \in Boxes : \E v \in {None, "v"} : SetBoxLeaf(b, v)
  \/ \E b \in Boxes, present \in BOOLEAN : MarkPresent(b, present)
  \/ \E t \in Targets, added \in SUBSET Names : Annotate(t, added)
  \/ \E b \in Boxes, added \in SUBSET Names : AnnotateBox(b, added)
  \/ \E t \in Targets, name \in Names : Unannotate(t, name)
  \/ \E b \in Boxes, name \in Names : UnannotateBox(b, name)

Next == ValueStep(Values) \/ NodeStep

Spec == Init /\ [][Next]_vars

-----------------------------------------------------------------------------
(* Existence                                                               *)

\* `_xnode_has_data`, and the flag, which counts for a presence container only.
Exists(b, box) == box.leaf # None \/ (b = "p" /\ box.marked)

-----------------------------------------------------------------------------
(* to_ietf_json: the members of the object and what they hold              *)

EncodeBox(box) ==
  [m \in {m \in {"leaf", "@"} : IF m = "leaf" THEN box.leaf # None ELSE box.notes # {}} |->
     IF m = "leaf" THEN box.leaf ELSE box.notes]

\* A container is in the document if its object is not empty, annotations and
\* all, or if it is marked.
BoxEncoded(b, box) == EncodeBox(box) # <<>> \/ (b = "p" /\ box.marked)

\* The annotated entries of ll that are there; those before them are padded.
NotedEntries == {i \in DOMAIN ll : notes[Of(i)] # {}}
NotesOfList  == [i \in 1..(IF NotedEntries = {} THEN 0
                           ELSE CHOOSE i \in NotedEntries : \A j \in NotedEntries : j <= i) |->
                   notes[Of(i)]]

Encoded ==
  [x    |-> IF x = None THEN None ELSE EncodeValue(type, x),
   ll   |-> [i \in DOMAIN ll |-> EncodeValue(type, ll[i])],
   objects |-> {b \in Boxes : BoxEncoded(b, boxes[b])},
   c    |-> EncodeBox(boxes["c"]),
   p    |-> EncodeBox(boxes["p"]),
   self |-> notes[Self],
   atX  |-> IF x = None THEN {} ELSE notes[OfX],
   atLL |-> NotesOfList]

-----------------------------------------------------------------------------
(* from_ietf_json: a new tree, or an error                                 *)

DecodeBox(b, d) ==
  LET o == d[b]
  IN IF b \notin d.objects THEN NoBox
     ELSE [leaf   |-> IF "leaf" \in DOMAIN o THEN o["leaf"] ELSE None,
           marked |-> b = "p",
           notes  |-> IF "@" \in DOMAIN o THEN o["@"] ELSE {}]

Raises(d) ==
  \/ d.x # None /\ DecodeValue(type, d.x) = Refused
  \/ \E i \in DOMAIN d.ll : DecodeValue(type, d.ll[i]) = Refused

DecodeNotesFromZero(d) ==   \* mutant: an index off by one
  [t \in Targets |->
     CASE t = Self -> d.self
       [] t = OfX  -> d.atX
       [] OTHER    -> IF t[2] - 1 \in DOMAIN d.atLL THEN d.atLL[t[2] - 1] ELSE {}]

\* The annotations of entries come back to the index they were at.
DecodeNotes(d) ==
  [t \in Targets |->
     CASE t = Self -> d.self
       [] t = OfX  -> d.atX
       [] OTHER    -> IF t[2] \in DOMAIN d.atLL THEN d.atLL[t[2]] ELSE {}]

Decoded(d) ==
  [x     |-> IF d.x = None THEN None ELSE DecodeValue(type, d.x),
   ll    |-> [i \in DOMAIN d.ll |-> DecodeValue(type, d.ll[i])],
   boxes |-> [b \in Boxes |-> DecodeBox(b, d)],
   notes |-> DecodeNotes(d)]

-----------------------------------------------------------------------------
(* Properties                                                              *)

Held == {ll[i] : i \in DOMAIN ll} \cup ({x} \ {None})

\* A tree of valid values, none of them of a kind the union loses, is encoded
\* and decoded without an error, and is the same again: the values, which
\* containers exist, and the annotations of all that exists.
RoundTrip ==
  (\A v \in Held : Valid(type, v) /\ (type.union => Narrow(type, v) /\ Unambiguous(type, v))) =>
    LET d == Encoded
        back == Decoded(d)
    IN /\ ~Raises(d)
       /\ x = None => back.x = None
       /\ x # None => Same(back.x, x)
       /\ Len(back.ll) = Len(ll) /\ \A i \in DOMAIN ll : Same(back.ll[i], ll[i])
       /\ \A b \in Boxes :
            boxes[b].notes = {} \/ Exists(b, boxes[b]) =>
              /\ Exists(b, back.boxes[b]) = Exists(b, boxes[b])
              /\ back.boxes[b].leaf = boxes[b].leaf
              /\ back.boxes[b].notes = boxes[b].notes
       /\ back.notes[Self] = notes[Self]
       /\ x # None => back.notes[OfX] = notes[OfX]
       /\ \A i \in DOMAIN ll : back.notes[Of(i)] = notes[Of(i)]

\* "Unset leaves and empty non-presence containers are omitted": what is in the
\* document is what exists.
EncodedExists == \A b \in Boxes : b \in Encoded.objects => Exists(b, boxes[b])

\* "a plain dict ready for json.dumps()": every valid value becomes a JSON value.
EncodedIsJson ==
  (\A v \in Held : Valid(type, v)) =>
    /\ x # None => Encoded.x.js # "none"
    /\ \A i \in DOMAIN ll : Encoded.ll[i].js # "none"

\* "annotations attach to individual leaf-list entries": with the entry before
\* it deleted, an entry keeps its annotations.
NotesFollowEntries ==
  [][ \A i \in DOMAIN ll :
        Len(ll') = Len(ll) - 1 /\ (\A j \in DOMAIN ll' : ll'[j] = ll[IF j < i THEN j ELSE j + 1])
          => \A j \in i..Len(ll') : notes'[Of(j)] = notes[Of(j + 1)] ]_vars
=============================================================================
