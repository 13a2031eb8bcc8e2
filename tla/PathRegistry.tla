---------------------------- MODULE PathRegistry ----------------------------
(***************************************************************************)
(* YANGPathHelper (lib/xpathhelper.py): the registry every generated object *)
(* announces itself to, so that XPath expressions can be resolved.  It is a *)
(* tree of paths, each with a pointer to an object; a path is a sequence of *)
(* steps, the predicate of a list entry being part of its step.             *)
(***************************************************************************)
EXTENDS Sequences, SequencesExt

CONSTANTS
  Paths,         \* the paths of the schema, their parents among them
  None,          \* no node at a path
  Equal(_, _)    \* Python's == on registered objects

Above(p) == SubSeq(p, 1, Len(p) - 1)

\* A new node needs a node above it; register() raises XPathError otherwise.
CanRegister(reg, p) == reg[p] # None \/ Len(p) = 1 \/ reg[Above(p)] # None

\* Mutant: a node that is there already is left alone.
RegisterOnce(reg, p, obj) == IF reg[p] # None THEN reg ELSE [reg EXCEPT ![p] = obj]

\* A node that is there keeps its pointer if the old object equals the new one.
Register(reg, p, obj) ==
  IF reg[p] # None /\ Equal(reg[p], obj) THEN reg ELSE [reg EXCEPT ![p] = obj]

\* Mutant: the nodes below stay.
UnregisterNode(reg, p) == [reg EXCEPT ![p] = None]

\* The node goes with all that is below it.
Unregister(reg, p) == [q \in Paths |-> IF IsPrefix(p, q) THEN None ELSE reg[q]]
=============================================================================
