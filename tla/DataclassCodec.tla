--------------------------- MODULE DataclassCodec ---------------------------
(***************************************************************************)
(* The values of the dataclass bindings (plugin/pybind_dataclass.py, the     *)
(* runtimes it embeds) and their JSON form.                                  *)
(*                                                                         *)
(* A Python value is [py, text]: its class, and the text it is written as.   *)
(* A JSON value is [js, text].  A type is [union, members]; what a member    *)
(* type takes is a set of texts, and what its converter reads is the same.   *)
(***************************************************************************)
EXTENDS Naturals, Sequences

CONSTANTS
  Reads,     \* Reads[m]: the texts of the values of member type m
  Refused    \* no value

MemberTypes == {"str", "int", "int64", "decimal", "bits", "binary", "bool"}

ASSUME CodecAssumption == DOMAIN Reads = MemberTypes

-----------------------------------------------------------------------------
(* Checks on assignment                                                    *)

Classes(m) ==
  CASE m = "str"     -> {"str"}
    [] m = "int"     -> {"int"}
    [] m = "int64"   -> {"int"}
    [] m = "decimal" -> {"int", "float", "Decimal"}
    [] m = "bits"    -> {"frozenset"}
    [] m = "binary"  -> {"bytes"}
    [] m = "bool"    -> {"bool"}

\* `_Check.validate` of a member: the class of the value, then its restrictions.
MemberValid(m, v) == v.py \in Classes(m) /\ v.text \in Reads[m]

\* A union takes what one of its members takes.
Valid(type, v) == \E i \in DOMAIN type.members : MemberValid(type.members[i], v)

-----------------------------------------------------------------------------
(* to_ietf_json                                                            *)

\* A union has no encoding of its own: its value goes by its Python class, and
\* bytes are left as they are, which is no JSON value.
EncodedByClass(v) ==
  CASE v.py \in {"str", "Decimal", "frozenset"} -> "string"
    [] v.py = "int"   -> "number"
    [] v.py = "float" -> "fraction"
    [] v.py = "bool"  -> "boolean"
    [] v.py = "bytes" -> "none"

EncodeValue(type, v) ==
  [js |-> IF ~type.union /\ type.members[1] \in {"int64", "decimal", "binary", "bits"}
          THEN "string" ELSE EncodedByClass(v),
   text |-> v.text]

-----------------------------------------------------------------------------
(* from_ietf_json                                                          *)

AsIs(j) ==
  [py |-> CASE j.js = "string"   -> "str"
            [] j.js = "number"   -> "int"
            [] j.js = "fraction" -> "float"
            [] j.js = "boolean"  -> "bool"
            [] j.js = "none"     -> "bytes",
   text |-> j.text]

\* What a converter makes of a string.
Converted(m, text) ==
  [py |-> CASE m = "str" -> "str" [] m = "int" -> "int" [] m = "int64" -> "int"
            [] m = "decimal" -> "Decimal" [] m = "bits" -> "frozenset"
            [] m = "binary" -> "bytes" [] m = "bool" -> "bool",
   text |-> text]

\* A member of a union whose values are JSON strings, with a value of this text.
StringTypesAll == MemberTypes \ {"bool"}   \* mutant: narrow integers among them
StringTypes == {"str", "decimal", "bits", "binary", "int64"}
Reading(type, text) ==
  {i \in DOMAIN type.members : type.members[i] \in StringTypes /\ text \in Reads[type.members[i]]}

\* `_decode_union_member`: the first member, in the order of the union.
DecodeString(type, text) ==
  LET is == Reading(type, text)
  IN IF is = {} THEN [py |-> "str", text |-> text]
     ELSE Converted(type.members[CHOOSE i \in is : \A j \in is : i <= j], text)

DecodeUnion(type, j) ==
  CASE j.js = "string"   -> DecodeString(type, j.text)
    [] j.js = "number"   ->
         IF \E i \in DOMAIN type.members : type.members[i] = "int" /\ j.text \in Reads["int"]
         THEN AsIs(j) ELSE Refused
    [] j.js = "fraction" -> Refused
    [] j.js = "boolean"  ->
         IF \E i \in DOMAIN type.members : type.members[i] = "bool" THEN AsIs(j) ELSE Refused
    [] j.js = "none"     -> AsIs(j)

DecodeSingle(m, j) ==
  CASE m \in {"int64", "decimal"} ->
         IF j.js = "string" /\ j.text \in Reads[m] THEN Converted(m, j.text) ELSE Refused
    [] m \in {"bits", "binary"} ->
         IF j.js # "string" THEN AsIs(j)
         ELSE IF j.text \in Reads[m] THEN Converted(m, j.text) ELSE Refused
    [] OTHER -> AsIs(j)

\* Decoded, and then assigned: the value is checked once more.
DecodeValue(type, j) ==
  LET v == IF type.union THEN DecodeUnion(type, j) ELSE DecodeSingle(type.members[1], j)
  IN IF v # Refused /\ Valid(type, v) THEN v ELSE Refused

-----------------------------------------------------------------------------
\* The YANG value: 5, 5.0 and Decimal("5") are one.
Family(v) == IF v.py \in {"int", "float", "Decimal"} THEN "numeric" ELSE v.py
Same(v, w) == Family(v) = Family(w) /\ v.text = w.text

\* No two members of the union whose values are JSON strings differ on the text.
Unambiguous(type, v) ==
  \A m \in {type.members[i] : i \in DOMAIN type.members} \ {"int", "bool"} :
    v.text \in Reads[m] => Same(Converted(m, v.text), v)

\* Limitations: a number is decoded only if a member narrower than 64 bits takes
\* it, although those and decimals of a union are encoded as numbers.
Narrow(type, v) ==
  v.py \in {"int", "float"} =>
    v.py = "int" /\ v.text \in Reads["int"] /\ \E i \in DOMAIN type.members : type.members[i] = "int"
=============================================================================
