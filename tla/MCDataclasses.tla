--------------------------- MODULE MCDataclasses ---------------------------
(* Small types, schemas and lists for the programs of DataclassPrograms, and   *)
(* further programs: an expression is parsed or evaluated, or a call.            *)
(* Texts: "5" is any number, "big" one of more than 32 bits, "9.5" a fraction, *)
(* "abcd" is a set of bits as well as base64, "AA==" base64 only.              *)
EXTENDS DataclassPrograms, Integers, TLC

VARIABLES
  meant, parsed,
  call, outcome

-----------------------------------------------------------------------------
(* Values                                                                  *)

MCReads ==
  [m \in MemberTypes |->
     CASE m = "str"     -> {"5", "big", "9.5", "abcd", "AA=="}
       [] m = "int"     -> {"5"}
       [] m = "int64"   -> {"5", "big"}
       [] m = "decimal" -> {"5", "9.5"}
       [] m = "bits"    -> {"abcd"}
       [] m = "binary"  -> {"abcd", "AA=="}
       [] m = "bool"    -> {"true"}]

MCTypes ==
  {[union |-> FALSE, members |-> <<m>>] : m \in MemberTypes}
    \cup {[union |-> TRUE, members |-> <<m, n>>] : m, n \in MemberTypes}

MCValues ==
  {[py |-> "str", text |-> "5"], [py |-> "str", text |-> "abcd"],
   [py |-> "int", text |-> "5"], [py |-> "int", text |-> "big"],
   [py |-> "float", text |-> "9.5"], [py |-> "Decimal", text |-> "5"],
   [py |-> "frozenset", text |-> "abcd"], [py |-> "bytes", text |-> "AA=="],
   [py |-> "bool", text |-> "true"]}

-----------------------------------------------------------------------------
(* Validation: three fields, each below the root or a node before it; the cases *)
(* of a mandatory choice "o", one with a mandatory choice "i" in it.            *)

Chains == {<<>>, <<<<"o", "a">>>>, <<<<"o", "b">>>>, <<<<"o", "a">>, <<"i", "x">>>>}
Whens  == {"none", "true", "false", "unknown"}

Field(kind, case, when, mandatory, set) ==
  [kind |-> kind, up |-> 0, case |-> case, when |-> when, mandatory |-> mandatory, set |-> set]
Below(f, up) == [f EXCEPT !.up = up]

Leaves ==
  {Field("leaf", c, "none", m, s) : c \in Chains, m, s \in BOOLEAN}
    \cup {Field("leaf", <<>>, "false", TRUE, FALSE), Field("bits", <<>>, "none", TRUE, FALSE)}

Containers ==
  {Field("container", c, w, FALSE, FALSE) : c \in Chains, w \in Whens}
    \cup {Field("container", <<>>, w, TRUE, FALSE) : w \in {"none", "true"}}
    \cup {Field("presence", <<>>, "none", TRUE, s) : s \in BOOLEAN}
    \cup {Field("entry", <<>>, "none", TRUE, TRUE)}

SchemaInit ==
  \E a \in Containers, b \in Containers \cup Leaves, c \in Leaves, up \in 0..1, over \in 0..2 :
    /\ over = 2 => b \in Containers
    /\ V!InitWith(<<a, Below(b, up), Below(c, over)>>)

-----------------------------------------------------------------------------
(* Expressions, at three nodes of /c[l[k x] l[k l[x]] x], two of whose leaves   *)
(* are identities of one name.                                              *)

MCUp   == <<0, 1, 2, 2, 1, 5, 5, 7, 1>>
MCName == <<"c", "l", "k", "x", "l", "k", "l", "x", "x">>
MCText == [n \in 0..9 |-> CASE n \in {3, 8} -> "1" [] n = 6 -> "2" [] n = 4 -> "p:w"
                            [] n = 9 -> "q:w" [] OTHER -> NoText]
Texts == {"1", "2", "p:w", "q:w"}
MCLocal == [t \in Texts |-> IF t \in {"p:w", "q:w"} THEN "w" ELSE t]
MCNumber == [t \in Texts |-> CASE t = "1" -> 1 [] t = "2" -> 2 [] OTHER -> NaN]

First    == [k |-> "pos", n |-> 1]
Second   == [k |-> "pos", n |-> 2]
LastOne  == [k |-> "last"]
StrOf(t) == [t |-> "str", v |-> t]
OfChild(test, op, v) == [k |-> "child", test |-> test, op |-> op, v |-> v]
WithK == OfChild("k", "=", StrOf("2"))
Preds == {<<>>, <<First>>, <<Second>>, <<WithK>>, <<WithK, First>>, <<Second, LastOne>>}
Others ==
  {<<OfChild("k", o, v)>> : o \in XP!Comparisons, v \in {StrOf("1"), [t |-> "num", v |-> 2],
                                                      [t |-> "bool", v |-> FALSE]}}
    \cup {<<OfChild(n, o, StrOf("q:w"))>> : n \in {"x", "l"}, o \in XP!Equality}

StepOn(axis, test, preds) == [axis |-> axis, test |-> test, preds |-> preds]
Plain ==
  {StepOn("child", t, <<>>) : t \in {"l", "x", "k", "*"}}
    \cup {StepOn(a, "*", <<>>) : a \in {"parent", "self", "descendant-or-self"}}
Steps == Plain \cup {StepOn("child", t, p) : t \in {"l", "x"}, p \in Preds}

SeqsUpTo(S, n) == UNION {[1..i -> S] : i \in 1..n}
Path(root, steps) == [t |-> "path", root |-> root, steps |-> steps]
Short == {Path(FALSE, s) : s \in SeqsUpTo(Plain, 2)}
Single == {Path(FALSE, <<s>>) : s \in Plain}
Constants ==
  {StrOf("2"), StrOf("q:w")} \cup {[t |-> "num", v |-> n] : n \in 1..2}
    \cup {[t |-> "bool", v |-> b] : b \in BOOLEAN}

MCExprs ==
  {[op |-> "nodes", args |-> <<Path(r, s)>>] : r \in BOOLEAN, s \in SeqsUpTo(Steps, 3)}
    \cup {[op |-> "nodes", args |-> <<Path(FALSE, <<s, StepOn("child", "l", p)>>)>>] : s \in Plain, p \in Others}
    \cup {[op |-> "union", args |-> <<p, q>>] : p \in Short, q \in Single}
    \cup {[op |-> o, args |-> <<p, q>>] : o \in XP!Comparisons, p \in Short, q \in Single}
    \cup {[op |-> o, args |-> <<p, v>>] : o \in XP!Comparisons, p \in Short, v \in Constants}
    \cup {[op |-> o, args |-> <<v, p>>] : o \in XP!Comparisons, p \in Short, v \in Constants}

\* The _XNodes from the document to node n.
Line[n \in 0..Len(MCUp)] ==
  IF n = 0 THEN <<[node |-> 0, parent |-> 0]>>
  ELSE Append(Line[MCUp[n]], [node |-> n, parent |-> Len(Line[MCUp[n]])])

ExpressionInit == \E e \in MCExprs, n \in {2, 5, 9} : XP!InitWith(e, Line[n])

-----------------------------------------------------------------------------
(* Calls: texts of "a" and "b", numbers from -2 to 4 with their halves, and six   *)
(* nodes: two numbers, a set of bits, a container, an enumeration, and a leafref. *)

FText == [n \in 1..6 |->
  CASE n = 1 -> <<"1">> [] n = 2 -> <<"2">> [] n = 3 -> <<"a", "b">>
    [] n = 4 -> NoText [] n \in {5, 6} -> <<"1">>]
FNumber == (<<"1">> :> 2) @@ (<<"2">> :> 4) @@ (<<"1", ".", "5">> :> 3)
FEnum == [n \in 1..6 |-> IF n = 5 THEN <<"1">> :> 14 ELSE IF n = 3 THEN <<"1">> :> 2 ELSE NoText]
FLeads == [n \in 1..6 |-> IF n = 6 THEN <<4, 2, 1, 5>> ELSE NoText]

F == INSTANCE XPathCalls WITH Text <- FText, Number <- FNumber, Enum <- FEnum, Leads <- FLeads

LettersUpTo(n) == {<<>>} \cup UNION {[1..i -> {"a", "b"}] : i \in 1..n}
Strings  == {F!Str(s) : s \in LettersUpTo(3)}
Parts    == {F!Str(s) : s \in LettersUpTo(2)}
Halves   == {F!Num(v) : v \in {NaN} \cup -4..8}
NodeSets == {F!Nodes(<<>>)} \cup {F!Nodes(<<n>>) : n \in 1..6}
              \cup {F!Nodes(p) : p \in {p \in (1..6) \X (1..6) : p[1] # p[2]}}

On(f, args) == F!InitWith([f |-> f, args |-> args])
Unknown == ({F!Num(NaN)} \X Halves) \cup (Halves \X {F!Num(NaN)})
OperandsOf(f) ==
  Unknown \cup
    {p \in (Halves \ {F!Num(NaN)}) \X (Halves \ {F!Num(NaN)}) :
       /\ f = "*" => (p[1].v * p[2].v) % 2 = 0
       /\ f = "div" /\ p[2].v # 0 => (2 * p[1].v) % F!Abs(p[2].v) = 0}

CallInit ==
  \/ \E f \in {"contains", "starts-with", "concat", "substring-before", "substring-after"}, sep \in Parts :
       (\E s \in Strings : On(f, <<s, sep>>)) \/ (\E s \in NodeSets : On(f, <<s, sep>>))
  \/ \E s \in Strings, from, to \in Parts : On("translate", <<s, from, to>>)
  \/ \E s \in Strings, v, w \in Halves : On("substring", <<s, v>>) \/ On("substring", <<s, v, w>>)
  \/ \E f \in {"not", "boolean", "number"} :
       \/ \E s \in Strings : On(f, <<s>>)
       \/ \E b \in BOOLEAN : On(f, <<F!Bool(b)>>)
  \/ \E s \in Strings : On("string-length", <<s>>)
  \/ \E s \in NodeSets : On("string-length", <<s>>)
  \/ \E f \in {"not", "boolean"} : (\E s \in NodeSets : On(f, <<s>>)) \/ (\E v \in Halves : On(f, <<v>>))
  \/ \E f \in {"number", "floor", "ceiling", "round", "neg"} :
       (\E s \in NodeSets : On(f, <<s>>)) \/ (\E v \in Halves : On(f, <<v>>))
  \/ \E f \in F!Operators : \E p \in OperandsOf(f) : On(f, p)
  \/ \E f \in F!OnNodes, sep \in Parts :
       (\E s \in NodeSets : On(f, <<s, sep>>)) \/ (\E v \in Halves : On(f, <<v, sep>>))

-----------------------------------------------------------------------------
(* Parsing: operators over operators over operands, elements called as         *)
(* operators among them.                                                    *)

P == INSTANCE XPathParser WITH Trees <- {}

Element(name, preds) == [axis |-> "child", test |-> name, predicates |-> preds]
Up1 == [axis |-> "parent", test |-> "", predicates |-> <<>>]
One == [t |-> "num", text |-> "1"]
OfName(name) == P!PathFrom(P!Ctx, <<Element(name, <<>>)>>)
Current == [t |-> "call", text |-> "current", args |-> <<>>]
Filtered(primary, preds) == [t |-> "filter", args |-> <<primary>>, predicates |-> preds]
Paren(e) == [t |-> "expr", args |-> <<e>>]

Operands == {OfName("or"), OfName("*"), P!PathFrom(P!Root, <<>>), One}

Binary(o, l, r) == [t |-> "binary", text |-> o, args |-> <<l, r>>]
Neg(e) == [t |-> "neg", args |-> <<e>>]
BinaryOps == {"or", "and", "=", "<", "-", "*", "div", "|"}

Once == {Neg(a) : a \in Operands} \cup {Binary(o, a, b) : o \in BinaryOps, a, b \in Operands}
InPaths(e) ==
  { P!PathFrom(P!Ctx, <<Element("or", <<e, One>>), Up1>>),
    P!PathFrom(P!Ctx, <<Element("*", <<e>>), P!AnyDescendant, Element("div", <<>>)>>),
    P!PathFrom(P!Root, <<P!AnyDescendant, Element("and", <<e>>), Element("*", <<>>)>>),
    P!PathFrom(P!Root, <<Element("mod", <<>>), Element("a", <<e>>)>>),
    P!PathFrom(Filtered(Current, <<>>), <<Up1, Element("a", <<e>>)>>),
    P!PathFrom(Filtered(Paren(e), <<One>>), <<>>),
    P!PathFrom(Filtered(Paren(e), <<>>), <<P!AnyDescendant, Element("or", <<>>)>>),
    [t |-> "call", text |-> "div", args |-> <<e>>],
    [t |-> "call", text |-> "concat", args |-> <<e, One>>] }

TreeInit ==
  /\ parsed = P!Unparsed
  /\ \/ meant \in Operands \cup {Current} \cup Once
     \/ \E a \in Once : meant = Neg(a)
     \/ \E o \in BinaryOps, a \in Once, b \in Operands :
          meant \in {Binary(o, a, b), Binary(o, b, a)}
     \/ \E a \in Once : meant \in InPaths(a)
     \/ \E o \in BinaryOps, a \in Operands, b \in Operands :
          \E c \in InPaths(a) : meant \in {Binary(o, c, b), Binary(o, b, c)}

-----------------------------------------------------------------------------
(* Instance identifiers: /a:c with a list, a leaf-list, a leaf, one of module b, *)
(* a set of bits and a presence container; module b has a /b:c, as "c" or as     *)
(* another name.                                                            *)

At(cls, attr, mod, name, kind, sub) ==
  [cls |-> cls, attr |-> attr, module |-> mod, name |-> name, kind |-> kind, sub |-> sub]

MCFields ==
  { At("A", "c", "a", "c", "container", "C"),
    At("C", "l", "a", "l", "list", "E"), At("C", "ll", "a", "ll", "leaf-list", Nothing),
    At("C", "x", "a", "x", "leaf", Nothing), At("C", "b_x", "b", "x", "leaf", Nothing),
    At("C", "p", "a", "p", "container", "P"), At("P", "x", "a", "x", "leaf", Nothing),
    At("C", "fl", "a", "fl", "leaf", "F"), At("P", "fl", "a", "fl", "leaf", "F"),
    At("F", "up", "a", "up", "bit", Nothing), At("F", "x", "a", "x", "bit", Nothing),
    At("E", "k", "a", "k", "leaf", Nothing), At("E", "x", "a", "x", "leaf", Nothing),
    At("B", "c", "b", "c", "container", "D"), At("B2", "d", "b", "c", "container", "D"),
    At("D", "x", "b", "x", "leaf", Nothing), At("D", "fl", "b", "fl", "leaf", "F") }

Object(cls, of) == [cls |-> cls, marked |-> FALSE, of |-> of]
Entry(key, v) == Object("E", [k |-> key, x |-> v])
Lists == {<<>>, <<Entry("1", Nothing)>>, <<Entry("2", "1"), Entry("1", "2")>>}
LeafLists == {<<>>, <<"2">>, <<"2", "1">>}

\* The tree of module a, and after it that of module b.
HeapOf(es, vs, v, w, p, other) ==
  LET bits == IF v = w THEN NoBits ELSE IF w = Nothing THEN Nothing ELSE "2"
      c == Object("C", [l |-> [i \in DOMAIN es |-> 3 + i], ll |-> vs, x |-> v, b_x |-> w,
                        fl |-> bits, p |-> 3])
      d(u) == Object("D", [x |-> u, fl |-> NoBits])
      below == Len(es) + 5
  IN <<Object("A", [c |-> 2]), c, p>> \o es \o
       CASE other = "none" -> <<>>
         [] other = "same" -> <<Object("B", [c |-> below]), d("1")>>
         [] other = "own"  -> <<Object("B2", [d |-> below]), d("1")>>
         [] other = "bare" -> <<Object("B", [c |-> below]), d(Nothing)>>

RootsOf(es, other) ==
  CASE other = "none" -> <<1>>
    [] other \in {"same", "bare"} -> <<1, Len(es) + 4>>
    [] other = "own" -> <<Len(es) + 4, 1>>

TheStep(mod, name, preds) == [module |-> mod, name |-> name, predicates |-> preds]
By(key, want) == <<[key |-> key, want |-> want]>>
PredsOf == {<<>>, By(Nothing, 1), By(Nothing, 2), By("k", "1"), By("x", "1"), By("y", "1"), By(".", "2"),
            By("k", "1") \o By("x", "2")}
Firsts == {TheStep(m, "c", <<>>) : m \in {Nothing, "a", "b", "z"}}
Seconds == {TheStep(Nothing, n, p) : n \in {"l", "ll", "x"}, p \in PredsOf}
             \cup {TheStep("b", "x", <<>>), TheStep(Nothing, "p", <<>>), TheStep("b", "l", <<>>),
                  TheStep(Nothing, "fl", <<>>), TheStep(Nothing, "fl", By(".", "2"))}
Thirds == {TheStep(m, n, <<>>) : m \in {Nothing, "b"}, n \in {"k", "x", "fl", "up"}}

IdentifierInit ==
  \E es \in Lists, vs \in LeafLists, v, w, z \in {Nothing, "2"}, m \in BOOLEAN, req \in BOOLEAN,
     other \in {"none", "same", "own", "bare"}, one \in Firsts :
    LET p == [cls |-> "P", marked |-> m, of |-> [x |-> z, fl |-> NoBits]]
        With(steps) == I!InitWith(HeapOf(es, vs, v, w, p, other), RootsOf(es, other),
                                  [steps |-> steps, require |-> req])
    IN \/ With(<<one>>)
       \/ one.module = "a" /\ \E two \in Seconds : With(<<one, two>>)
       \/ one.module = "a" /\ other = "same" /\ \E two \in Seconds, three \in Thirds : With(<<one, two, three>>)
       \/ one.module = "b" /\ \E name \in {"x", "fl"} : With(<<one, TheStep(Nothing, name, <<>>)>>)

-----------------------------------------------------------------------------
(* Identities: three, derived from a base and from each other, in modules one  *)
(* of which has the name of another as its prefix.                           *)

Modules == {<<"m", "m">>, <<"n", "o">>, <<"o", "p">>}
Identity(m, name, bases) == [module |-> m[1], prefix |-> m[2], name |-> name, bases |-> bases]

SpellingsInit ==
  \E m1, m2, m3 \in Modules, n1, n2, n3 \in {"i", "j"}, in \in {<<1, 2, 3>>, <<3, 2, 1>>},
     B1 \in SUBSET {0}, B2 \in SUBSET (0..1), B3 \in SUBSET (0..2) :
    /\ Cardinality({<<m1, n1>>, <<m2, n2>>, <<m3, n3>>}) = 3
    /\ Id!InitWith(<<Identity(m1, n1, B1), Identity(m2, n2, B2), Identity(m3, n3, B3)>>, in)

-----------------------------------------------------------------------------
(* Lists and leaf-lists: of a type that has numbers, Booleans, texts and bits.  *)

Int1 == [py |-> "int", v |-> "1"]
Bits == [py |-> "bits", v |-> "b"]
Vs   == {Int1, [py |-> "bool", v |-> "1"], [py |-> "str", v |-> "1"], Bits, None}

ListEntry(key, unique) == [key |-> key, unique |-> unique]
Pairs == {ListEntry(<<v, w>>, <<u>>) : v \in Vs, w \in {Int1, None}, u \in {None, Int1, Bits}}
Keyless == {ListEntry(<<>>, <<u>>) : u \in {None, Int1}}
ElementsOf == {ListEntry(<<v>>, <<>>) : v \in Vs \ {None}}

ListInit ==
  \E r \in Vs \ {Bits, None} :
    \/ \E a, b \in Pairs : \E es \in {<<>>, <<a>>, <<a, b>>} : G!InitWith("list", es, <<r>>)
    \/ \E a, b, c \in {e \in Pairs : e.key[2] = Int1 /\ e.unique = <<None>>} :
         G!InitWith("list", <<a, b, c>>, <<r>>)
    \/ \E a, b \in Keyless : G!InitWith("list", <<a, b>>, <<>>)
    \/ \E a, b, c \in ElementsOf : \E es \in {<<a, b>>, <<a, b, c>>} : G!InitWith("leaf-list", es, <<r>>)

-----------------------------------------------------------------------------

parsing == <<meant, parsed>>
calling == <<call, outcome>>

NoValidation ==
  fields = <<>> /\ at = 0 /\ nodes = <<>> /\ deferred = {} /\ queued = {}
    /\ reported = {} /\ stage = "walk"
NoEvaluation ==
  XP!InitWith([op |-> "none", args |-> <<>>], <<>>)
NoParsing == meant = One /\ parsed = P!Unparsed
NoListing == G!InitWith("list", <<>>, <<>>)
NoCall == F!InitWith([f |-> "none", args |-> <<>>])
NoSpelling == Id!InitWith(<<>>, <<>>)
NoIdentification == I!InitWith(<<>>, <<>>, [steps |-> <<>>, require |-> FALSE])

Fixed == type = [union |-> TRUE, members |-> <<"int", "str">>]

MCInit ==
  /\ program \in {"values", "nodes", "validate", "evaluate", "parse", "identify", "spell",
                  "list", "call"}
  /\ type \in Types /\ (program # "values" => Fixed)
  /\ IF program = "validate" THEN SchemaInit ELSE NoValidation
  /\ IF program = "evaluate" THEN ExpressionInit ELSE NoEvaluation
  /\ IF program = "parse" THEN TreeInit ELSE NoParsing
  /\ IF program = "identify" THEN IdentifierInit ELSE NoIdentification
  /\ IF program = "spell" THEN SpellingsInit ELSE NoSpelling
  /\ IF program = "list" THEN ListInit ELSE NoListing
  /\ IF program = "call" THEN CallInit ELSE NoCall
  /\ ProgramInit

Some == {[py |-> "int", text |-> "5"], [py |-> "str", text |-> "abcd"]}

OfValues     == program = "values" /\ ValueStep(Values)
OfNodes      == program = "nodes" /\ (NodeStep \/ ValueStep(Some))
OfValidation == program = "validate" /\ V!VNext
OfEvaluation == program = "evaluate" /\ XP!Next
OfParsing    == program = "parse" /\ P!ParseIt
OfIdentifier == program = "identify" /\ I!Next
OfList       == program = "list" /\ G!Next
OfSpelling   == program = "spell" /\ Id!Pop
OfCall       == program = "call" /\ F!Next

MCNext ==
  /\ UNCHANGED program
  /\ \/ /\ OfValues \/ OfNodes
        /\ UNCHANGED <<validation, evaluation, parsing, identification, spelling, listing, calling>>
     \/ OfValidation /\ UNCHANGED <<vars, evaluation, parsing, identification, spelling, listing, calling>>
     \/ OfEvaluation /\ UNCHANGED <<vars, validation, parsing, identification, spelling, listing, calling>>
     \/ OfParsing    /\ UNCHANGED <<vars, validation, evaluation, identification, spelling, listing, calling>>
     \/ OfIdentifier /\ UNCHANGED <<vars, validation, evaluation, parsing, spelling, listing, calling>>
     \/ OfSpelling   /\ UNCHANGED <<vars, validation, evaluation, parsing, identification, listing, calling>>
     \/ OfList       /\ UNCHANGED <<vars, validation, evaluation, parsing, identification, spelling, calling>>
     \/ OfCall       /\ UNCHANGED <<vars, validation, evaluation, parsing, identification, spelling, listing>>

MCSpec ==
  MCInit /\ [][MCNext]_<<vars, program, validation, evaluation, parsing, identification, spelling, listing, calling>>

-----------------------------------------------------------------------------
(* Properties                                                              *)

\* The tree holds values of its types, and validation and evaluation what they
\* compute.
MCTypeOK ==
  /\ TypeOK
  /\ program = "validate" => V!TypeOK
  /\ program = "evaluate" => XP!TypeOK
  /\ program = "identify" => I!TypeOK
  /\ program = "spell" => Id!TypeOK
  /\ program = "list" => G!TypeOK

\* An expression is parsed as it was meant, and a call of a function or an operator
\* evaluates to what XPath makes of it.
ExpressionsMeant ==
  /\ program = "parse" => P!ParsedAsMeant
  /\ program = "call" => F!CallsRight

=============================================================================
