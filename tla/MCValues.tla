------------------------------ MODULE MCValues ------------------------------
(* Small types, documents and references for the programs of ValuePrograms.   *)
(* Members of leaf-lists are numbers: "a", "b" are numbers, "a_" is a text     *)
(* that is converted to "a", and "x" one that is refused.                      *)
EXTENDS ValuePrograms

-----------------------------------------------------------------------------
(* Restricted types                                                        *)

\* Tests as sets of the values that pass: classes with one test, with two that
\* share a value, and with two that share none, alone and in chains.
Tests == {<<{1, 2}>>, <<{2, 3}>>, <<{1, 2}, {2, 3}>>, <<{1}, {3}>>, <<{2}, {1, 2, 3}>>}
MCChains == [chain \in UNION {[1..n -> Tests] : n \in 1..3} |-> chain]

MCNative == [p \in Passed |-> CASE p \in Natives -> p [] p = "a_" -> "a" [] OTHER -> Invalid]
MCGiven  == UNION {[1..n -> Passed] : n \in 0..3}

-----------------------------------------------------------------------------
(* Documents: each kind of member in each of its cases, alone, and before and  *)
(* after others.  The list has the keys "1" and "2"; "w" is no number.          *)

MCNumber == [k \in Keys |-> CASE k = "1" -> "n1" [] k = "2" -> "n2" [] k = "w" -> Invalid]

Leaf(x)  == [n |-> "leaf", v |-> x]
LL(s)    == [n |-> "leaflist", v |-> s]
Box(s)   == [n |-> "box", v |-> s]
List(s)  == [n |-> "list", v |-> s]
Other(x) == [n |-> "unknown", v |-> x]
E(k, x, o) == [key |-> k, v |-> x, order |-> o]

MCDocuments == <<
  <<Leaf("v1"), LL(<<"a", "b">>), List(<<E("1", "v1", NoOrder), E("2", Null, NoOrder)>>), Box(<<"v1">>)>>,
  <<LL(<<"b", "a_">>), List(<<E("1", "v2", 2), E("2", "v1", 1)>>)>>,
  <<List(<<E("2", "v2", NoOrder)>>), Leaf("v2")>>,
  <<LL(<<"a", "x">>), Leaf("v1")>>,
  <<Box(<<>>), LL(<<"b", "b">>), Other("value"), Leaf("v1")>>,
  <<Box(<<Bad>>), Leaf("v2")>>,
  <<List(<<E("2", "v1", NoOrder), E("1", Bad, NoOrder)>>), LL(<<>>)>>,
  <<List(<<E("1", Null, 1), E("w", "v1", 0)>>), Box(<<"v2">>)>>,
  <<Other("array"), Leaf("v1"), List(<<>>)>>,
  <<Other("empty"), LL(<<"a">>)>>,
  <<Leaf(Bad), Box(<<>>)>>,
  <<List(<<E("1", "v1", 1), E("2", "v2", 1)>>), Leaf("v1")>> >>

\* One document that load_json and load_xml load whole.
MCWhole == <<MCDocuments[1]>>
=============================================================================
