------------------------ MODULE MCContainerTreeImpl ------------------------
(* A choice in p between a presence container a, which has a container m     *)
(* with a choice of two leaves inside, and a presence container b, which     *)
(* has a container n inside and is assigned as a whole.                      *)
EXTENDS ContainerTreeImpl

\* A program that reaches every object from the root and takes presence back,
\* one that keeps a handle to b, copies it and goes on writing to it, or one
\* that keeps a handle to m, with a choice inside, when a is unset above it.
VARIABLE program

MCContainers == {"root", "p", "a", "m", "b", "n"}
MCLeaves     == {"l", "x", "y", "z"}
MCParent ==
  [e \in {"p", "a", "m", "b", "n", "l", "x", "y", "z"} |->
     CASE e = "p" -> "root"
       [] e \in {"a", "b"} -> "p"
       [] e \in {"l", "m"} -> "a"
       [] e \in {"x", "y"} -> "m"
       [] e = "n" -> "b"
       [] e = "z" -> "n"]
MCSub ==
  [c \in MCContainers |->
     CASE c = "root" -> MCContainers
       [] c = "p" -> {"p", "a", "m", "b", "n"}
       [] c = "a" -> {"a", "m"}
       [] c = "b" -> {"b", "n"}
       [] OTHER -> {c}]

\* Leaves x and y are the cases of a choice of their own.
MCChoiceOf ==
  [e \in DOMAIN MCParent |->
     CASE e \in {"a", "b"} -> <<"c1", e>>
       [] e \in {"x", "y"} -> <<"c2", e>>
       [] OTHER -> NoChoice]

\* Container m is itself a case member, of a choice inside a.
MCNestedChoiceOf ==
  [e \in DOMAIN MCParent |->
     CASE e \in {"a", "b"} -> <<"c1", e>>
       [] e \in {"m", "l"} -> <<"c2", e>>
       [] OTHER -> NoChoice]

MCPresence   == {"a", "b"}
MCA          == {"a"}
MCB          == {"b"}
MCKept       == {"b", "m"}
MCLate       == {"x", "z"}
MCNone       == {}
MCResettable == {"l", "b"}

Direct ==
  /\ held' = {}
  /\ setter' # Idle => setter'.kind # "container"

Holds(c) == \A o \in held' : o[1] = c

\* Only `direct` takes presence back.
Handles ==
  /\ Holds("b")
  /\ setter' # Idle /\ setter'.kind = "leaf" => setter'.ok /\ setter'.elem \in {"l", "z"}
  /\ \A o \in heap \cap heap' : present[o] => present'[o]

Inner ==
  /\ Holds("m")
  /\ setter = Idle /\ setter' # Idle => setter'.kind = "leaf" /\ setter'.elem \in {"x", "y", "z"}
  /\ \A o \in heap \cap heap' : present[o] => present'[o]

MCInit == IInit /\ program \in {"direct", "handles", "inner"}
MCNext ==
  /\ INext
  /\ program = "direct" => Direct
  /\ program = "handles" => Handles
  /\ program = "inner" => Inner
  /\ UNCHANGED program
MCSpec == MCInit /\ [][MCNext]_<<ivars, program>>
=============================================================================
