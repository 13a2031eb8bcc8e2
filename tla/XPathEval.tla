----------------------------- MODULE XPathEval -----------------------------
(***************************************************************************)
(* The evaluation of `must` and `when` expressions embedded in the dataclass *)
(* bindings (_XPATH_EVAL_RUNTIME of plugin/pybind_dataclass.py): paths with  *)
(* predicates, the union of two, and comparisons.                            *)
(*                                                                         *)
(* The data is a tree of nodes, numbered in document order, 0 the document.  *)
(* The evaluator makes an _XNode of a node whenever it comes down to it, and *)
(* tells _XNodes apart by identity, not by their nodes: `objs` are those it  *)
(* has made, and the lists it computes hold numbers in `objs`.               *)
(*                                                                         *)
(* An expression is [op, args].  An argument is [t |-> "path", root, steps]  *)
(* with steps [axis, test, preds], or a value [t |-> "str", "num" or "bool", *)
(* v].  A predicate is a position [k |-> "pos", n], [k |-> "last"], or the   *)
(* comparison of a child with a value, [k |-> "child", test, op, v].         *)
(***************************************************************************)
EXTENDS Naturals, Sequences, FiniteSets, SequencesExt

CONSTANTS
  Up,       \* Up[n]: the parent of node n
  Name,     \* Name[n]
  Text,     \* Text[n]: the value of a leaf, NoText for containers and entries
  NoText,
  ByName,   \* the leaves of type identityref
  Local,    \* Local[text]: what comes after the last colon of a text
  Number,   \* Number[text]: the text as a number, or NaN
  NaN

VARIABLES
  expr,
  context,  \* the _XNode it is evaluated at
  objs,     \* of each _XNode made: [node, parent], parent 0 above the document
  at,       \* the argument, step and predicate to be evaluated next
  list,     \* the nodes of the path so far
  queue,    \* those whose descendants are still to be gone through
  merged,   \* a position was counted over the children of more than one node
  values,   \* the arguments evaluated
  result

xvars == <<expr, context, objs, at, list, queue, merged, values, result>>

Nodes == DOMAIN Up \cup {0}
\* The numbers of S, in their order.
InOrder(S) == [i \in 1..Cardinality(S) |-> CHOOSE n \in S : Cardinality({m \in S : m < n}) = i - 1]

\* The elements of s at the places in I.
Picked(s, I) == [i \in DOMAIN InOrder(I) |-> s[InOrder(I)[i]]]

ChildrenOf(n) == InOrder({m \in DOMAIN Up : Up[m] = n})
NamedAs(test, n) == test = "*" \/ Name[n] = test

Outcomes == {"none", "true", "false", "unsupported", "nodes"}

TypeOK ==
  /\ \A o \in DOMAIN objs : objs[o].node \in Nodes /\ objs[o].parent < o
  /\ list \in Seq(DOMAIN objs) /\ queue \in Seq(DOMAIN objs)
  /\ result \in Outcomes

\* The context is the last of the _XNodes that validate_tree has made.
InitWith(e, made) ==
  /\ expr = e /\ objs = made /\ context = Len(made)
  /\ at = [arg |-> 1, step |-> 0, pred |-> 0]
  /\ list = <<>> /\ queue = <<>> /\ merged = FALSE /\ values = <<>>
  /\ result = "none"

-----------------------------------------------------------------------------
(* Comparisons                                                             *)

Equality    == {"=", "!="}
Comparisons == Equality \cup {"<", "<=", ">", ">="}

ToBool(x) ==
  CASE x.t = "bool" -> x.v
    [] x.t = "num"  -> x.v # NaN /\ x.v # 0
    [] x.t = "str"  -> x.v # ""

ToNumber(x) ==
  CASE x.t = "bool" -> IF x.v THEN 1 ELSE 0
    [] x.t = "num"  -> x.v
    [] x.t = "str"  -> Number[x.v]

Equal(a, b) ==
  CASE "bool" \in {a.t, b.t} -> ToBool(a) = ToBool(b)
    [] "bool" \notin {a.t, b.t} /\ "num" \in {a.t, b.t} ->
         ToNumber(a) = ToNumber(b) /\ ToNumber(a) # NaN
    [] a.t = "str" /\ b.t = "str" -> a.v = b.v

Atoms(op, a, b) ==
  CASE op = "="  -> Equal(a, b)
    [] op = "!=" -> ~Equal(a, b)
    [] op \notin Equality ->
         /\ ToNumber(a) # NaN /\ ToNumber(b) # NaN
         /\ CASE op = "<"  -> ToNumber(a) < ToNumber(b)
              [] op = "<=" -> ToNumber(a) <= ToNumber(b)
              [] op = ">"  -> ToNumber(a) > ToNumber(b)
              [] op = ">=" -> ToNumber(a) >= ToNumber(b)

\* any(): what comes first, a pair that compares or one without string-value.
FirstDecisive(outcomes) ==
  LET decides == {i \in DOMAIN outcomes : outcomes[i] # "false"}
  IN IF decides = {} THEN "false"
     ELSE outcomes[CHOOSE i \in decides : \A j \in decides : i <= j]

Says(b) == IF b THEN "true" ELSE "false"
String(n) == [t |-> "str", v |-> Text[n]]

\* Mutant: the node-set is always the left of the two.
OrderedAsIs(op, flip, a, b) == Atoms(op, a, b)

Ordered(op, flip, a, b) == IF flip THEN Atoms(op, b, a) ELSE Atoms(op, a, b)

\* Identities are compared by their local names, whatever their modules.
EqualsText(n, text) == IF n \in ByName THEN Local[Text[n]] = Local[text] ELSE Text[n] = text

CompareNode(op, flip, n, other) ==
  IF op \in Equality /\ other.t = "str" THEN EqualsText(n, other.v) <=> op = "="
  ELSE Ordered(op, flip, String(n), other)

\* The nodes ns, in their order, compared with a value.  A container or an entry
\* has no string-value.
NodesWith(op, flip, ns, other) ==
  IF other.t = "bool"
  THEN Says(Ordered(op, flip, [t |-> "bool", v |-> ns # <<>>], other))
  ELSE FirstDecisive([i \in DOMAIN ns |->
              IF Text[ns[i]] = NoText THEN "unsupported"
              ELSE Says(CompareNode(op, flip, ns[i], other))])

-----------------------------------------------------------------------------
(* Paths                                                                   *)

Arg  == expr.args[at.arg]
Step == Arg.steps[at.step]
Node(o) == objs[o].node

\* A value, or the start of a path.
Begin ==
  /\ result = "none" /\ at.arg \in DOMAIN expr.args /\ at.step = 0
  /\ IF Arg.t = "path"
     THEN /\ list' = <<IF Arg.root THEN 1 ELSE context>>
          /\ at' = [at EXCEPT !.step = 1, !.pred = 0]
          /\ UNCHANGED values
     ELSE /\ values' = Append(values, Arg)
          /\ at' = [at EXCEPT !.arg = @ + 1]
          /\ UNCHANGED list
  /\ UNCHANGED <<expr, context, objs, queue, merged, result>>

OnAxis(axis) ==
  /\ result = "none" /\ at.step > 0 /\ at.pred = 0
  /\ at.step \in DOMAIN Arg.steps /\ Step.axis = axis
  /\ at' = [at EXCEPT !.pred = 1]
  /\ merged' = (merged \/ (Len(list) > 1 /\ \E i \in DOMAIN Step.preds : Step.preds[i].k # "child"))
  /\ UNCHANGED <<expr, context, values, result>>

Numbers(from, n) == [i \in 1..n |-> from + i]

\* _XNodes of the nodes ns below o.
Made(o, ns) == [i \in DOMAIN ns |-> [node |-> ns[i], parent |-> o]]

Child ==
  /\ OnAxis("child")
  /\ LET named(n) == InOrder({m \in DOMAIN Up : Up[m] = n /\ NamedAs(Step.test, m)})
         new == FlattenSeq([i \in DOMAIN list |-> Made(list[i], named(Node(list[i])))])
     IN objs' = objs \o new /\ list' = Numbers(Len(objs), Len(new))
  /\ UNCHANGED queue

\* Mutant: the parent of each node.
ParentsEach(os) == Picked([i \in DOMAIN os |-> objs[os[i]].parent],
                          {i \in DOMAIN os : objs[os[i]].parent > 0})

\* The parents of the _XNodes, each once, but for that of the document.
Parents(os) ==
  LET parent == [i \in DOMAIN os |-> objs[os[i]].parent]
  IN Picked(parent, {i \in DOMAIN os : parent[i] > 0 /\ \A j \in 1..(i - 1) : parent[j] # parent[i]})

Parent == OnAxis("parent") /\ list' = Parents(list) /\ UNCHANGED <<objs, queue>>

Self == OnAxis("self") /\ UNCHANGED <<list, objs, queue>>

\* The nodes below are taken from a queue that starts as the list; what is
\* there already is passed over.
DescendantOrSelf ==
  /\ OnAxis("descendant-or-self")
  /\ queue' = list /\ list' = <<>>
  /\ UNCHANGED objs

PopBelow ==
  /\ result = "none" /\ queue # <<>>
  /\ LET o    == Head(queue)
         kids == ChildrenOf(Node(o))
     IN IF o \in Range(list) THEN queue' = Tail(queue) /\ UNCHANGED <<list, objs>>
        ELSE /\ list' = Append(list, o)
             /\ queue' = Tail(queue) \o Numbers(Len(objs), Len(kids))
             /\ objs' = objs \o Made(o, kids)
  /\ UNCHANGED <<expr, context, at, merged, values, result>>

\* The children of node n a predicate compares, and what comes of it.
Compared(pr, n) == {m \in DOMAIN Up : Up[m] = n /\ Name[m] = pr.test}
OfChildren(pr, n) == NodesWith(pr.op, FALSE, InOrder(Compared(pr, n)), pr.v)

Keeps(pr, i, n, size) ==
  CASE pr.k = "pos"   -> i = pr.n
    [] pr.k = "last"  -> i = size
    [] pr.k = "child" -> OfChildren(pr, n) = "true"

NotEvaluated(pr, n) == pr.k = "child" /\ OfChildren(pr, n) = "unsupported"

Filter ==
  /\ result = "none" /\ queue = <<>> /\ at.step > 0 /\ at.step \in DOMAIN Arg.steps
  /\ at.pred \in DOMAIN Step.preds
  /\ LET pr == Step.preds[at.pred]
     IN IF \E i \in DOMAIN list : NotEvaluated(pr, Node(list[i]))
        THEN result' = "unsupported" /\ UNCHANGED <<list, at>>
        ELSE /\ list' = Picked(list, {i \in DOMAIN list : Keeps(pr, i, Node(list[i]), Len(list))})
             /\ at' = [at EXCEPT !.pred = @ + 1]
             /\ UNCHANGED result
  /\ UNCHANGED <<expr, context, objs, queue, merged, values>>

NextStep ==
  /\ result = "none" /\ queue = <<>> /\ at.step > 0 /\ at.step \in DOMAIN Arg.steps
  /\ at.pred > Len(Step.preds)
  /\ at' = [at EXCEPT !.step = @ + 1, !.pred = 0]
  /\ UNCHANGED <<expr, context, objs, list, queue, merged, values, result>>

EndPath ==
  /\ result = "none" /\ at.step > 0 /\ at.step > Len(Arg.steps)
  /\ values' = Append(values, [t |-> "nodes", v |-> list])
  /\ at' = [arg |-> at.arg + 1, step |-> 0, pred |-> 0]
  /\ UNCHANGED <<expr, context, objs, list, queue, merged, result>>

-----------------------------------------------------------------------------
(* The expression                                                          *)

NodesAt(os) == [i \in DOMAIN os |-> Node(os[i])]

NodesWithNodes(op, left, right) ==
  FirstDecisive([i \in DOMAIN left |-> FirstDecisive([j \in DOMAIN right |->
    IF NoText \in {Text[left[i]], Text[right[j]]} THEN "unsupported"
    ELSE Says(Atoms(op, String(left[i]), String(right[j])))])])

Compare(op, left, right) ==
  CASE left.t = "nodes" /\ right.t = "nodes" -> NodesWithNodes(op, NodesAt(left.v), NodesAt(right.v))
    [] left.t = "nodes" /\ right.t # "nodes" -> NodesWith(op, FALSE, NodesAt(left.v), right)
    [] left.t # "nodes" /\ right.t = "nodes" -> NodesWith(op, TRUE, NodesAt(right.v), left)
    [] left.t # "nodes" /\ right.t # "nodes" -> Says(Atoms(op, left, right))

\* The union keeps what is another _XNode, be it of the same node.
UnionOf(left, right) == left \o Picked(right, {i \in DOMAIN right : right[i] \notin Range(left)})

Conclude ==
  /\ result = "none" /\ at.arg > Len(expr.args)
  /\ CASE expr.op = "nodes" -> list' = values[1].v /\ result' = "nodes"
       [] expr.op = "union" -> list' = UnionOf(values[1].v, values[2].v) /\ result' = "nodes"
       [] expr.op \in Comparisons ->
            result' = Compare(expr.op, values[1], values[2]) /\ UNCHANGED list
  /\ UNCHANGED <<expr, context, objs, at, queue, merged, values>>

Next == \/ Begin \/ Child \/ Parent \/ Self \/ DescendantOrSelf \/ PopBelow
        \/ Filter \/ NextStep \/ EndPath \/ Conclude

-----------------------------------------------------------------------------
(* What is assumed                                                         *)

ValueOK(v) == v.t \in {"str", "num", "bool"}

\* A step is the name of children, *, .., . or what // stands for, which has no
\* predicates.
StepOK(step) ==
  /\ step.axis \in {"child", "parent", "self", "descendant-or-self"}
  /\ step.axis # "child" => step.test = "*"
  /\ step.axis = "descendant-or-self" => step.preds = <<>>
  /\ step.preds \in Seq(Range(step.preds))
  /\ \A i \in DOMAIN step.preds :
       LET pr == step.preds[i]
       IN /\ pr.k \in {"pos", "last", "child"}
          /\ pr.k = "child" => pr.op \in Comparisons /\ ValueOK(pr.v)

ArgOK(arg) ==
  /\ arg.t = "path" \/ ValueOK(arg)
  /\ arg.t = "path" => /\ arg.root \in BOOLEAN
                       /\ arg.steps \in Seq(Range(arg.steps))
                       /\ \A i \in DOMAIN arg.steps : StepOK(arg.steps[i])

ExprOK ==
  /\ expr.op \in {"nodes", "union"} \cup Comparisons
  /\ expr.args \in Seq(Range(expr.args)) /\ Len(expr.args) = IF expr.op = "nodes" THEN 1 ELSE 2
  /\ \A i \in DOMAIN expr.args :
       /\ ArgOK(expr.args[i])
       /\ expr.op \in {"nodes", "union"} => expr.args[i].t = "path"

\* The _XNodes from the document to the context.
LineOK ==
  /\ objs \in Seq([node : Nodes, parent : Nat]) /\ objs # <<>>
  /\ objs[1] = [node |-> 0, parent |-> 0]
  /\ \A o \in DOMAIN objs \ {1} :
       /\ objs[o].parent = o - 1
       /\ objs[o].node # 0 /\ Up[objs[o].node] = objs[o - 1].node

WellFormed == ExprOK /\ LineOK

-----------------------------------------------------------------------------
(* Properties                                                              *)

\* XPath 1.0, on sets of nodes: a predicate counts the positions among the
\* nodes reached from one node, in document order.

Descendants[n \in Nodes] ==
  {n} \cup UNION {Descendants[m] : m \in {m \in DOMAIN Up : Up[m] = n}}

Reached(axis, test, n) ==
  CASE axis = "child"  -> {m \in DOMAIN Up : Up[m] = n /\ NamedAs(test, m)}
    [] axis = "parent" -> IF n = 0 THEN {} ELSE {Up[n]}
    [] axis = "self"   -> {n}
    [] OTHER           -> Descendants[n]

\* What a set of nodes compares as: whether there are nodes, against a Boolean,
\* and otherwise any of its string-values.
AsValues(ns, other) ==
  IF other.t = "bool" THEN {[t |-> "bool", v |-> ns # {}]}
  ELSE {[t |-> "str", v |-> Text[n]] : n \in {n \in ns : Text[n] # NoText}}

\* A leaf and a text are equal if they are the same text; or, where XPath would
\* not have it so, if the leaf is an identity and its name the same.
SameText(n, text) == Text[n] = text \/ (n \in ByName /\ Local[Text[n]] = Local[text])
IsText(op, v) == op \in Equality /\ v.t = "str"
TextMeant(op, ns, text) == \E n \in ns : Text[n] # NoText /\ (SameText(n, text) <=> op = "=")

Meets(pr, n, among) ==
  CASE pr.k = "pos"   -> Cardinality({m \in among : m <= n}) = pr.n
    [] pr.k = "last"  -> \A m \in among : m <= n
    [] pr.k = "child" -> IF IsText(pr.op, pr.v) THEN TextMeant(pr.op, Compared(pr, n), pr.v.v)
                         ELSE \E a \in AsValues(Compared(pr, n), pr.v) : Atoms(pr.op, a, pr.v)

\* What each of the predicates leaves of the nodes reached from n.
Lefts(step, n) ==
  LET left[i \in 0..Len(step.preds)] ==
        IF i = 0 THEN Reached(step.axis, step.test, n)
        ELSE {m \in left[i - 1] : Meets(step.preds[i], m, left[i - 1])}
  IN left

FromOne(step, n) == Lefts(step, n)[Len(step.preds)]

\* Where each of the steps leads.
Sets(steps, from) ==
  LET set[i \in 0..Len(steps)] ==
        IF i = 0 THEN {from} ELSE UNION {FromOne(steps[i], n) : n \in set[i - 1]}
  IN set

NodeSet(path) == Sets(path.steps, IF path.root THEN 0 ELSE Node(context))[Len(path.steps)]

CompareAs(arg, other) == IF arg.t = "path" THEN AsValues(NodeSet(arg), other) ELSE {arg}

Meant ==
  LET l == expr.args[1]
      r == expr.args[2]
  IN CASE l.t = "path" /\ IsText(expr.op, r) -> TextMeant(expr.op, NodeSet(l), r.v)
       [] r.t = "path" /\ IsText(expr.op, l) -> TextMeant(expr.op, NodeSet(r), l.v)
       [] OTHER -> \E a \in CompareAs(l, r) : \E b \in CompareAs(r, l) : Atoms(expr.op, a, b)

ResultSet == {Node(list[i]) : i \in DOMAIN list}

\* A path or a union has the nodes XPath gives it and a comparison its truth, or
\* it is skipped as unsupported, however the _XNodes were made; but for the
\* positions counted over the children of several nodes, and with identities that
\* are equal to a text by their local names.
EvaluatesRight ==
  ~merged =>
    /\ result = "nodes" => ResultSet = UNION {NodeSet(expr.args[i]) : i \in DOMAIN expr.args}
    /\ result \in {"true", "false"} => result = Says(Meant)

IsDeep(path, i) == path.steps[i].axis = "descendant-or-self"

\* A path that goes down to all descendants at most once has each node once, so
\* that counts are right.
NodesOnce ==
  LET path == expr.args[1]
      onceDeep == \A i, j \in DOMAIN path.steps : IsDeep(path, i) /\ IsDeep(path, j) => i = j
  IN (result = "nodes" /\ expr.op = "nodes" /\ onceDeep) =>
       \A i, j \in DOMAIN list : Node(list[i]) = Node(list[j]) => i = j

\* "never misjudged": with positions as well.
PositionsRight ==
  (result = "nodes" /\ expr.op = "nodes") => ResultSet = NodeSet(expr.args[1])

\* Every node once, whatever the expression.
UnionOnce ==
  result = "nodes" => \A i, j \in DOMAIN list : Node(list[i]) = Node(list[j]) => i = j
=============================================================================
