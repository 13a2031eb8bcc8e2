----------------------------- MODULE XPathCalls -----------------------------
(***************************************************************************)
(* The functions and the arithmetic of `must` and `when` expressions         *)
(* (_xpath_call and _xpath_eval of plugin/pybind_dataclass.py), called with  *)
(* arguments that are evaluated already.                                     *)
(*                                                                         *)
(* A value is [t |-> "num", v], "str", "bool" or "nodes".  Numbers count      *)
(* halves, so that 3 is 1.5; texts are sequences of characters; nodes are     *)
(* numbers, a node-set their sequence.  The text of a bits leaf is the         *)
(* sequence of its bits.                                                     *)
(***************************************************************************)
EXTENDS Integers, Sequences, FiniteSets, SequencesExt, FiniteSetsExt

CONSTANTS
  Text,       \* Text[n]: the text of a leaf, NoText for a container
  NoText,
  Number,     \* Number[s]: the numbers among the texts
  NaN,
  Enum,       \* Enum[n]: the values of the enumeration of leaf n, or NoText
  Leads       \* Leads[n]: the nodes the path of leafref n leads to, or NoText

VARIABLES
  call,       \* [f, args]
  outcome

cvars == <<call, outcome>>

Num(v)  == [t |-> "num", v |-> v]
Str(v)  == [t |-> "str", v |-> v]
Bool(v) == [t |-> "bool", v |-> v]
Nodes(v) == [t |-> "nodes", v |-> v]
NotCalled   == [t |-> "none"]
Unsupported == [t |-> "unsupported"]   \* the constraint is skipped
Raised      == [t |-> "raised"]        \* validate_tree ends with a ValueError

InitWith(c) == call = c /\ outcome = NotCalled

Arg(i) == call.args[i]
Is(f)  == outcome = NotCalled /\ call.f = f

-----------------------------------------------------------------------------
(* Conversions                                                             *)

ToBool(x) ==
  CASE x.t = "bool"  -> x.v
    [] x.t = "num"   -> x.v # NaN /\ x.v # 0
    [] OTHER         -> x.v # <<>>

\* Nodes whose first one has no text are not converted.
ToText(x) == IF x.t = "nodes" THEN IF x.v = <<>> THEN <<>> ELSE Text[Head(x.v)] ELSE x.v
Parsed(s) == IF s \in DOMAIN Number THEN Number[s] ELSE NaN
ToNumber(x) ==
  CASE x.t = "num"  -> x.v
    [] x.t = "bool" -> IF x.v THEN 2 ELSE 0
    [] OTHER        -> Parsed(ToText(x))

Textless(x) == x.t = "nodes" /\ x.v # <<>> /\ Text[Head(x.v)] = NoText

\* The outcome of a function of the texts, or of the numbers, of its arguments.
Of(value) ==
  /\ outcome' = IF \E i \in DOMAIN call.args : Textless(Arg(i)) THEN Unsupported ELSE value
  /\ UNCHANGED call

OfNodes(value) ==
  /\ outcome' = IF Arg(1).t = "nodes" THEN value ELSE Unsupported
  /\ UNCHANGED call

T(i) == ToText(Arg(i))
N(i) == ToNumber(Arg(i))

Not     == Is("not") /\ outcome' = Bool(~ToBool(Arg(1))) /\ UNCHANGED call
Boolean == Is("boolean") /\ outcome' = Bool(ToBool(Arg(1))) /\ UNCHANGED call
ToNum   == Is("number") /\ Of(Num(N(1)))

-----------------------------------------------------------------------------
(* Texts                                                                   *)

\* Where sep begins in text.
Begins(text, sep) ==
  {i \in 1..(Len(text) - Len(sep) + 1) : SubSeq(text, i, i + Len(sep) - 1) = sep}

HasText    == Is("contains") /\ Of(Bool(Begins(T(1), T(2)) # {}))
StartsWith == Is("starts-with") /\ Of(Bool(IsPrefix(T(2), T(1))))
Concat     == Is("concat") /\ Of(Str(T(1) \o T(2)))
TextLength == Is("string-length") /\ Of(Num(2 * Len(T(1))))

\* An empty separator is not in the text here.
Splits(text, sep) == sep # <<>> /\ Begins(text, sep) # {}
Before(text, sep) == IF Splits(text, sep) THEN SubSeq(text, 1, Min(Begins(text, sep)) - 1) ELSE <<>>
After(text, sep) ==
  IF Splits(text, sep) THEN SubSeq(text, Min(Begins(text, sep)) + Len(sep), Len(text)) ELSE <<>>

SubstringBefore == Is("substring-before") /\ Of(Str(Before(T(1), T(2))))
SubstringAfter  == Is("substring-after") /\ Of(Str(After(T(1), T(2))))

\* The characters of s at the positions in P.
Chosen(s, P) == FlattenSeq([i \in DOMAIN s |-> IF i \in P THEN <<s[i]>> ELSE <<>>])

Round(v) == IF v = NaN THEN NaN ELSE 2 * ((v + 1) \div 2)

Sliced(text, start, length) ==
  Chosen(text, {i \in DOMAIN text :
                  /\ start # NaN /\ length # NaN
                  /\ 2 * i >= Round(start) /\ 2 * i < Round(start) + Round(length)})
SlicedFrom(text, start) ==
  Chosen(text, {i \in DOMAIN text : start # NaN /\ 2 * i >= Round(start)})

Substring ==
  /\ Is("substring")
  /\ Of(Str(IF Len(call.args) = 3 THEN Sliced(T(1), N(2), N(3)) ELSE SlicedFrom(T(1), N(2))))

\* The table has the first of equal characters; what has no counterpart goes.
Translated(text, from, to) ==
  LET at(c) == {i \in DOMAIN from : from[i] = c}
  IN FlattenSeq([i \in DOMAIN text |->
       IF at(text[i]) = {} THEN <<text[i]>>
       ELSE IF Min(at(text[i])) \in DOMAIN to THEN <<to[Min(at(text[i]))]>> ELSE <<>>])

Translate == Is("translate") /\ Of(Str(Translated(T(1), T(2), T(3))))

-----------------------------------------------------------------------------
(* Numbers                                                                 *)

\* math.floor and math.ceil raise for NaN.
OrRaise(v, x) == IF v = NaN THEN Raised ELSE Num(x)
Floor   == Is("floor") /\ Of(OrRaise(N(1), 2 * (N(1) \div 2)))
Ceiling == Is("ceiling") /\ Of(OrRaise(N(1), -2 * ((-N(1)) \div 2)))
Rounded == Is("round") /\ Of(Num(Round(N(1))))

Abs(v) == IF v < 0 THEN -v ELSE v
\* int(a / b): towards zero.
Quotient(a, b) == IF (a < 0) = (b < 0) THEN Abs(a) \div Abs(b) ELSE -(Abs(a) \div Abs(b))

Mod(a, b) == a - b * Quotient(a, b)

Arithmetic(op, a, b) ==
  CASE NaN \in {a, b}                      -> NaN
    [] NaN \notin {a, b} /\ op = "+"       -> a + b
    [] NaN \notin {a, b} /\ op = "-"       -> a - b
    [] NaN \notin {a, b} /\ op = "*"       -> (a * b) \div 2   \* a number of halves
    [] NaN \notin {a, b} /\ b = 0 /\ op \in {"div", "mod"} -> NaN
    [] NaN \notin {a, b} /\ b # 0 /\ op = "div" -> Quotient(2 * a, b)
    [] NaN \notin {a, b} /\ b # 0 /\ op = "mod" -> Mod(a, b)

Operators == {"+", "-", "*", "div", "mod"}
Calculate == \E op \in Operators : Is(op) /\ Of(Num(Arithmetic(op, N(1), N(2))))
Negate    == Is("neg") /\ Of(Num(IF N(1) = NaN THEN NaN ELSE -N(1)))

-----------------------------------------------------------------------------
(* Node-sets                                                               *)

Count == Is("count") /\ OfNodes(Num(2 * Len(Arg(1).v)))

Texts(x) == {Text[n] : n \in ToSet(x.v)}

Total(ns) ==
  FoldSeq(LAMBDA n, sum : IF NaN \in {sum, Parsed(Text[n])} THEN NaN ELSE sum + Parsed(Text[n]), 0, ns)

\* The sum of no nodes is the int 0, where every other number is a float: it
\* converts to a Boolean, but is no number to the rest.
NoNumber == [t |-> "int", v |-> 0]
Sum ==
  /\ Is("sum")
  /\ OfNodes(IF NoText \in Texts(Arg(1)) THEN Unsupported
             ELSE IF Arg(1).v = <<>> THEN NoNumber ELSE Num(Total(Arg(1).v)))

\* Of the first node.
BitIsSet ==
  /\ Is("bit-is-set")
  /\ OfNodes(IF Textless(Arg(1)) THEN Unsupported
             ELSE Bool(Arg(1).v # <<>> /\ Len(T(2)) = 1 /\ T(2)[1] \in ToSet(T(1))))

EnumValue ==
  /\ Is("enum-value")
  /\ OfNodes(IF Arg(1).v = <<>> THEN Num(NaN)
             ELSE IF Enum[Head(Arg(1).v)] = NoText THEN Unsupported
             ELSE LET table == Enum[Head(Arg(1).v)]
                  IN Num(IF T(1) \in DOMAIN table THEN table[T(1)] ELSE NaN))

\* The leaves the leafref leads to that have its text.
Deref ==
  /\ Is("deref")
  /\ OfNodes(IF Arg(1).v = <<>> THEN Nodes(<<>>)
             ELSE IF Leads[Head(Arg(1).v)] = NoText THEN Unsupported
             ELSE Nodes(SelectSeq(Leads[Head(Arg(1).v)], LAMBDA n : Text[n] = T(1))))

Next ==
  \/ Not \/ Boolean \/ ToNum
  \/ HasText \/ StartsWith \/ Concat \/ TextLength
  \/ SubstringBefore \/ SubstringAfter \/ Substring \/ Translate
  \/ Floor \/ Ceiling \/ Rounded \/ Calculate \/ Negate
  \/ Count \/ Sum \/ BitIsSet \/ EnumValue \/ Deref

-----------------------------------------------------------------------------
(* What XPath 1.0 and RFC 7950 define                                      *)

\* Whether text is before, then sep for the first time, then after.
FirstSplit(text, before, sep, after) ==
  /\ text = before \o sep \o after
  /\ \A i \in 1..Len(before) : ~IsPrefix(sep, SubSeq(text, i, Len(text)))

InText(sep, text) == \E i \in 0..Len(text) : IsPrefix(sep, SubSeq(text, i + 1, Len(text)))

\* The whole number nearest to v, the greater one of two.
Nearest(r, v) == r % 2 = 0 /\ r - 1 <= v /\ v < r + 1

\* The characters from the one numbered start up to, but not with, the one
\* numbered end, of which both may be outside of the text.
IsSlice(r, text, start, end) ==
  \E a, b \in 0..Len(text) :
    /\ r = SubSeq(text, a + 1, b)
    /\ a = Max({0, Min({Len(text), start - 1})})
    /\ b = Max({a, Min({Len(text), end - 1})})

\* Division with the sign of the dividend.
IsRest(r, a, b) ==
  /\ Abs(r) < Abs(b) /\ (a - r) % Abs(b) = 0
  /\ r = 0 \/ (r < 0) = (a < 0)

\* What a character of the text becomes.
Image(c, from, to) ==
  LET first == CHOOSE i \in 1..Len(from) + 1 :
                 /\ i = Len(from) + 1 \/ from[i] = c
                 /\ \A j \in 1..(i - 1) : from[j] # c
  IN IF first = Len(from) + 1 THEN <<c>>
     ELSE IF first \in DOMAIN to THEN <<to[first]>> ELSE <<>>

\* The numbers of the arguments from the i-th on.
Numbers(i) == {N(k) : k \in i..Len(call.args)}

TextMeant(r) ==
  CASE call.f = "contains"      -> r.v = InText(T(2), T(1))
    [] call.f = "starts-with"   -> r.v = \E k \in 0..Len(T(1)) : T(2) = SubSeq(T(1), 1, k)
    [] call.f = "concat"        ->
         Len(r.v) = Len(T(1)) + Len(T(2)) /\ IsPrefix(T(1), r.v) /\ IsSuffix(T(2), r.v)
    [] call.f = "string-length" -> \E k \in 0..9 : r.v = 2 * k /\ DOMAIN T(1) = 1..k
    [] call.f = "substring-before" ->
         IF InText(T(2), T(1))
         THEN FirstSplit(T(1), r.v, T(2), SubSeq(T(1), Len(r.v) + Len(T(2)) + 1, Len(T(1))))
         ELSE r.v = <<>>
    [] call.f = "substring-after" ->
         IF InText(T(2), T(1))
         THEN T(2) = <<>> \/
              FirstSplit(T(1), SubSeq(T(1), 1, Len(T(1)) - Len(r.v) - Len(T(2))), T(2), r.v)
         ELSE r.v = <<>>
    [] call.f = "substring"     ->
         IF NaN \in Numbers(2) THEN r.v = <<>>
         ELSE \E p \in -9..9 : Nearest(2 * p, N(2)) /\
                IF Len(call.args) = 2 THEN IsSlice(r.v, T(1), p, Len(T(1)) + 1)
                ELSE \E q \in -9..9 : Nearest(2 * q, N(3)) /\ IsSlice(r.v, T(1), p, p + q)
    [] call.f = "translate"     ->
         LET kept == SelectSeq(T(1), LAMBDA c : Image(c, T(2), T(3)) # <<>>)
         IN Len(r.v) = Len(kept) /\ \A k \in DOMAIN kept : <<r.v[k]>> = Image(kept[k], T(2), T(3))
    [] OTHER -> TRUE

\* But for a quotient by zero, which is no number where XPath has infinity.
NumberMeant(r) ==
  CASE NaN \in Numbers(1)     -> r.v = NaN
    [] NaN \notin Numbers(1) /\ call.f = "number"  -> r.v = N(1)
    [] NaN \notin Numbers(1) /\ call.f = "floor"   -> r.v % 2 = 0 /\ r.v <= N(1) /\ N(1) < r.v + 2
    [] NaN \notin Numbers(1) /\ call.f = "ceiling" -> r.v % 2 = 0 /\ N(1) <= r.v /\ r.v < N(1) + 2
    [] NaN \notin Numbers(1) /\ call.f = "round"   -> Nearest(r.v, N(1))
    [] NaN \notin Numbers(1) /\ call.f = "neg"     -> r.v + N(1) = 0
    [] NaN \notin Numbers(1) /\ call.f = "+"       -> r.v - N(2) = N(1)
    [] NaN \notin Numbers(1) /\ call.f = "-"       -> r.v + N(2) = N(1)
    [] NaN \notin Numbers(1) /\ call.f = "*"       -> 2 * r.v = N(1) * N(2)
    [] NaN \notin Numbers(1) /\ call.f = "div"     ->
         IF N(2) = 0 THEN r.v = NaN ELSE r.v * N(2) = 2 * N(1)
    [] NaN \notin Numbers(1) /\ call.f = "mod"     ->
         IF N(2) = 0 THEN r.v = NaN ELSE IsRest(r.v, N(1), N(2))

NodesOf == ToSet(Arg(1).v)
FirstText == Text[Head(Arg(1).v)]

\* A sum of no nodes is left out: XPath has the number 0.
NodesMeant(r) ==
  CASE call.f = "count"      -> r.v = 2 * Cardinality(NodesOf)
    [] call.f = "sum"        -> NodesOf # {} =>
         r.v = IF NaN \in {Parsed(Text[n]) : n \in NodesOf} THEN NaN
               ELSE MapThenSumSet(LAMBDA n : Number[Text[n]], NodesOf)
    [] call.f = "bit-is-set" -> r.v <=> NodesOf # {} /\ \E i \in DOMAIN FirstText : <<FirstText[i]>> = T(2)
    [] call.f = "enum-value" ->
         r.v = IF NodesOf = {} \/ FirstText \notin DOMAIN Enum[Head(Arg(1).v)] THEN NaN
               ELSE Enum[Head(Arg(1).v)][FirstText]
    [] call.f = "deref"      ->
         IF NodesOf = {} THEN r.v = <<>>
         ELSE /\ ToSet(r.v) = {n \in ToSet(Leads[Head(Arg(1).v)]) : Text[n] = FirstText}
              /\ Len(r.v) = Cardinality(ToSet(r.v))

\* Zero, NaN and what is empty is false.
BooleanMeant(r) ==
  LET x == Arg(1)
      false == \/ x.t = "bool" /\ ~x.v
               \/ x.t = "num" /\ (x.v = NaN \/ x.v = 0)
               \/ x.t \in {"str", "nodes"} /\ Len(x.v) = 0
  IN r.v = IF call.f = "not" THEN false ELSE ~false

Textual   == {"contains", "starts-with", "concat", "string-length", "substring-before",
              "substring-after", "substring", "translate"}
Numeric   == {"number", "floor", "ceiling", "round", "neg"} \cup Operators
OnNodes   == {"count", "sum", "bit-is-set", "enum-value", "deref"}

\* A call has the value XPath 1.0 and RFC 7950 give it, if it has one, and is
\* given up only for what is not of its kind: a node without text or without
\* the type that the function is about, or what is no set of nodes.
CallsRight ==
  CASE outcome = NotCalled   -> TRUE
    [] outcome = Raised      -> call.f \in {"floor", "ceiling"} /\ N(1) = NaN
    [] outcome = Unsupported ->
         \/ \E i \in DOMAIN call.args : Arg(i).t = "nodes" /\ NoText \in Texts(Arg(i))
         \/ call.f \in OnNodes /\ Arg(1).t # "nodes"
         \/ call.f = "enum-value" /\ \E n \in NodesOf : Enum[n] = NoText
         \/ call.f = "deref" /\ \E n \in NodesOf : Leads[n] = NoText
    [] outcome \notin {NotCalled, Raised, Unsupported} ->
         /\ call.f \in {"not", "boolean"} => BooleanMeant(outcome)
         /\ call.f \in Textual => TextMeant(outcome)
         /\ call.f \in Numeric => NumberMeant(outcome)
         /\ call.f \in OnNodes => NodesMeant(outcome)
=============================================================================
