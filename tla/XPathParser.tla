---------------------------- MODULE XPathParser ----------------------------
(***************************************************************************)
(* The parser of `must` and `when` expressions embedded in the dataclass     *)
(* bindings (_XPathParser of plugin/pybind_dataclass.py): recursive descent  *)
(* over tokens [kind, text], one level of precedence below the other.        *)
(*                                                                         *)
(* A tree is [t |-> "num" or "lit", text], [t |-> "call", text, args],       *)
(* [t |-> "neg", args], [t |-> "binary", text, args], or a path [t |->        *)
(* "path", start, steps] with steps [axis, test, predicates].  A path starts *)
(* at the context, the root or a filter [t |-> "filter", args, predicates].  *)
(***************************************************************************)
EXTENDS Naturals, Sequences, SequencesExt

CONSTANT Trees    \* the expressions

VARIABLES
  meant,    \* the expression somebody wrote
  parsed    \* what the parser makes of it

pvars == <<meant, parsed>>

Op(text)   == [kind |-> "op", text |-> text]
NameOf(text) == [kind |-> "name", text |-> text]
End        == [kind |-> "end", text |-> ""]

Peek(tokens, pos) == IF pos \in DOMAIN tokens THEN tokens[pos] ELSE End

\* What a production returns: a tree (or a sequence) and the position after it.
Got(tree, pos) == [ok |-> TRUE, tree |-> tree, pos |-> pos]
Unsupported    == [ok |-> FALSE]
Unparsed       == [ok |-> FALSE, pos |-> 1]

Ctx  == [t |-> "ctx"]
Root == [t |-> "root"]
PathFrom(start, steps) == [t |-> "path", start |-> start, steps |-> steps]
AnyDescendant == [axis |-> "descendant-or-self", test |-> "", predicates |-> <<>>]

-----------------------------------------------------------------------------
(* The productions                                                         *)

\* Mutant: relations bind like equalities.
OperatorsFlat ==
  << {NameOf("or")}, {NameOf("and")},
     {Op("="), Op("!="), Op("<"), Op("<="), Op(">"), Op(">=")}, {},
     {Op("+"), Op("-")}, {Op("*"), NameOf("div"), NameOf("mod")}, {}, {Op("|")} >>

\* The binary operators of each level; the seventh is the unary minus.  After an
\* operand, `*` multiplies and a name is an operator.
Operators ==
  << {NameOf("or")}, {NameOf("and")},
     {Op("="), Op("!=")}, {Op("<"), Op("<="), Op(">"), Op(">=")},
     {Op("+"), Op("-")}, {Op("*"), NameOf("div"), NameOf("mod")}, {}, {Op("|")} >>

Unary == 7

RECURSIVE Parse(_, _, _), ParseMore(_, _, _), ParsePath(_, _), ParseArgs(_, _, _),
          ParsePredicates(_, _, _), ParseSteps(_, _, _), ParseStep(_, _)

\* What starts at pos and binds at least as tightly as the level.
Parse(tokens, level, pos) ==
  CASE level = Unary /\ Peek(tokens, pos) = Op("-") ->
         LET arg == Parse(tokens, Unary, pos + 1)
         IN IF ~arg.ok THEN arg ELSE Got([t |-> "neg", args |-> <<arg.tree>>], arg.pos)
    [] level > Len(Operators) -> ParsePath(tokens, pos)
    [] OTHER -> ParseMore(tokens, level, Parse(tokens, level + 1, pos))

\* Further operands, to the left-associative operators of the level.
ParseMore(tokens, level, left) ==
  IF ~left.ok THEN left
  ELSE IF Peek(tokens, left.pos) \notin Operators[level] THEN left
  ELSE LET right == Parse(tokens, level + 1, left.pos + 1)
       IN IF ~right.ok THEN right
          ELSE ParseMore(tokens, level,
                 Got([t |-> "binary", text |-> tokens[left.pos].text,
                      args |-> <<left.tree, right.tree>>], right.pos))

\* The predicates from pos on.
ParsePredicates(tokens, pos, preds) ==
  IF Peek(tokens, pos) # Op("[") THEN Got(preds, pos)
  ELSE LET inner == Parse(tokens, 1, pos + 1)
       IN IF ~inner.ok THEN inner
          ELSE IF Peek(tokens, inner.pos) # Op("]") THEN Unsupported
          ELSE ParsePredicates(tokens, inner.pos + 1, Append(preds, inner.tree))

ParseStep(tokens, pos) ==
  LET token == Peek(tokens, pos)
      preds == ParsePredicates(tokens, pos + 1, <<>>)
      On(axis, test) ==
        IF ~preds.ok THEN preds
        ELSE Got([axis |-> axis, test |-> test, predicates |-> preds.tree], preds.pos)
  IN CASE token.kind = "dots" -> On(IF token.text = ".." THEN "parent" ELSE "self", "")
       [] token = Op("*") -> On("child", "*")
       [] token.kind = "name" /\ Peek(tokens, pos + 1) # Op("(") -> On("child", token.text)
       [] OTHER -> Unsupported

\* The steps that follow with a slash.
ParseSteps(tokens, pos, steps) ==
  IF Peek(tokens, pos) \notin {Op("/"), Op("//")} THEN Got(steps, pos)
  ELSE LET step == ParseStep(tokens, pos + 1)
           to   == IF tokens[pos] = Op("//") THEN Append(steps, AnyDescendant) ELSE steps
       IN IF ~step.ok THEN step ELSE ParseSteps(tokens, step.pos, Append(to, step.tree))

\* The arguments of a call after the first, to the parenthesis.
ParseArgs(tokens, args, arg) ==
  IF ~arg.ok THEN arg
  ELSE CASE Peek(tokens, arg.pos) = Op(",") ->
              ParseArgs(tokens, Append(args, arg.tree), Parse(tokens, 1, arg.pos + 1))
         [] Peek(tokens, arg.pos) = Op(")") -> Got(Append(args, arg.tree), arg.pos + 1)
         [] OTHER -> Unsupported

\* Predicates and steps after a parenthesis or a call.
StepsAfter(tokens, primary, bare, pos) ==
  LET preds == ParsePredicates(tokens, pos, <<>>)
      steps == ParseSteps(tokens, preds.pos, <<>>)
  IN IF ~preds.ok THEN preds
     ELSE IF ~steps.ok THEN steps
     ELSE IF preds.tree = <<>> /\ steps.tree = <<>> THEN Got(bare, pos)
     ELSE Got(PathFrom([t |-> "filter", args |-> <<primary>>, predicates |-> preds.tree],
                       steps.tree), steps.pos)

AtStep(token) == token.kind \in {"name", "dots"} \/ token = Op("*")

LocationPath(tokens, pos) ==
  LET token == Peek(tokens, pos)
      first == ParseStep(tokens, pos)
      rest  == ParseSteps(tokens, first.pos, <<first.tree>>)
      absolute == ParseSteps(tokens, pos, <<>>)
  IN CASE token = Op("/") /\ ~AtStep(Peek(tokens, pos + 1)) ->
            Got(PathFrom(Root, <<>>), pos + 1)
       [] token = Op("//") \/ (token = Op("/") /\ AtStep(Peek(tokens, pos + 1))) ->
            IF absolute.ok THEN Got(PathFrom(Root, absolute.tree), absolute.pos) ELSE absolute
       [] token \notin {Op("/"), Op("//")} ->
            IF ~first.ok THEN first
            ELSE IF ~rest.ok THEN rest ELSE Got(PathFrom(Ctx, rest.tree), rest.pos)

ParsePath(tokens, pos) ==
  LET token == Peek(tokens, pos)
      inner == Parse(tokens, 1, pos + 1)
      args  == IF Peek(tokens, pos + 2) = Op(")") THEN Got(<<>>, pos + 3)
               ELSE ParseArgs(tokens, <<>>, Parse(tokens, 1, pos + 2))
      call  == [t |-> "call", text |-> token.text, args |-> args.tree]
  IN CASE token = Op("(") ->
            IF ~inner.ok THEN inner
            ELSE IF Peek(tokens, inner.pos) # Op(")") THEN Unsupported
            ELSE StepsAfter(tokens, [t |-> "expr", args |-> <<inner.tree>>], inner.tree, inner.pos + 1)
       [] token.kind \in {"num", "lit"} -> Got([t |-> token.kind, text |-> token.text], pos + 1)
       [] token.kind = "name" /\ Peek(tokens, pos + 1) = Op("(") ->
            IF ~args.ok THEN args ELSE StepsAfter(tokens, call, call, args.pos)
       [] OTHER -> LocationPath(tokens, pos)

\* The whole expression.
ParseAll(tokens) ==
  LET ast == Parse(tokens, 1, 1)
  IN IF ast.ok THEN (IF ast.pos = Len(tokens) + 1 THEN ast ELSE Unsupported) ELSE ast

Init == meant \in Trees /\ parsed = Unparsed

-----------------------------------------------------------------------------
(* What is written: an expression with no more parentheses than XPath's      *)
(* precedence asks for.                                                     *)

Binds(text) ==
  CASE text = "or" -> 1
    [] text = "and" -> 2
    [] text \in {"=", "!="} -> 3
    [] text \in {"<", "<=", ">", ">="} -> 4
    [] text \in {"+", "-"} -> 5
    [] text \in {"*", "div", "mod"} -> 6
    [] text = "|" -> 8

\* A root alone would take what follows for its step.
Tightness(tree) ==
  CASE tree.t = "binary" -> Binds(tree.text)
    [] tree.t = "neg"    -> 7
    [] tree.t = "path"   -> IF tree = PathFrom(Root, <<>>) THEN 0 ELSE 9
    [] OTHER             -> 9

Spelled(text) == IF text \in {"or", "and", "div", "mod"} THEN NameOf(text) ELSE Op(text)

RECURSIVE Written(_), WrittenStep(_, _, _)

In(tree, level) ==
  IF Tightness(tree) < level THEN <<Op("(")>> \o Written(tree) \o <<Op(")")>> ELSE Written(tree)

InBrackets(trees) ==
  FlattenSeq([i \in DOMAIN trees |-> <<Op("[")>> \o Written(trees[i]) \o <<Op("]")>>])

WrittenTest(step) ==
  CASE step.axis = "parent" -> <<[kind |-> "dots", text |-> ".."]>>
    [] step.axis = "self"   -> <<[kind |-> "dots", text |-> "."]>>
    [] step.axis = "child"  -> <<IF step.test = "*" THEN Op("*") ELSE NameOf(step.test)>>

WrittenStep(steps, i, relative) ==
  IF steps[i] = AnyDescendant THEN <<>>
  ELSE (CASE i = 1 -> IF relative THEN <<>> ELSE <<Op("/")>>
          [] i > 1 -> <<IF steps[i - 1] = AnyDescendant THEN Op("//") ELSE Op("/")>>)
       \o WrittenTest(steps[i]) \o InBrackets(steps[i].predicates)

WrittenStart(start) ==
  CASE start \in {Ctx, Root} -> <<>>
    [] OTHER ->
         LET primary == start.args[1]
         IN (IF primary.t = "expr" THEN <<Op("(")>> \o Written(primary.args[1]) \o <<Op(")")>>
             ELSE Written(primary))
            \o InBrackets(start.predicates)

Written(tree) ==
  CASE tree.t \in {"num", "lit"} -> <<[kind |-> tree.t, text |-> tree.text]>>
    [] tree.t = "neg"    -> <<Op("-")>> \o In(tree.args[1], 7)
    [] tree.t = "binary" -> In(tree.args[1], Binds(tree.text)) \o <<Spelled(tree.text)>>
                              \o In(tree.args[2], Binds(tree.text) + 1)
    [] tree.t = "call"   -> <<NameOf(tree.text), Op("(")>>
                              \o FlattenSeq([i \in DOMAIN tree.args |->
                                   (IF i > 1 THEN <<Op(",")>> ELSE <<>>) \o Written(tree.args[i])])
                              \o <<Op(")")>>
    [] tree.t = "path"   ->
         IF tree = PathFrom(Root, <<>>) THEN <<Op("/")>>
         ELSE WrittenStart(tree.start)
                \o FlattenSeq([i \in DOMAIN tree.steps |->
                     WrittenStep(tree.steps, i, tree.start = Ctx)])

-----------------------------------------------------------------------------

ParseIt == parsed = Unparsed /\ parsed' = ParseAll(Written(meant)) /\ UNCHANGED meant

\* An expression is parsed as it was meant, by precedence and from the left, be
\* elements called as operators are and `*` both a name and one; none of them is
\* refused, which would skip its constraint without a word.
ParsedAsMeant == parsed # Unparsed => parsed.ok /\ parsed.tree = meant
=============================================================================
