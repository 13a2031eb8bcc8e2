-------------------------- MODULE RestrictedTypes --------------------------
(***************************************************************************)
(* The classes RestrictedClassType makes (lib/yangtypes.py): a class whose   *)
(* values pass tests, on top of a base class that may be another such class. *)
(* The plugin nests them this way for a type that restricts a typedef that   *)
(* is restricted itself.                                                     *)
(*                                                                         *)
(* The tests are no part of the class where they were given.  They are an    *)
(* attribute of the class an object is made of, `_restriction_tests`, which  *)
(* `__new__` of each class of the chain sets anew.                           *)
(***************************************************************************)
EXTENDS Naturals, Sequences

CONSTANTS
  Inputs,   \* the values an object is made of
  Chains    \* chains of classes: Chains[t][i] is the sequence of the tests of
            \* class i, the first the base of the others; a test is the set of
            \* the inputs that pass it

VARIABLES
  type,      \* the chain
  input,     \* the value
  attr,      \* attr[c]: the `_restriction_tests` of class c
  making,    \* the classes objects are made of: each to check the one before
  level,     \* the class of the chain whose `__new__` is next; 0: `__init__`
  verdict    \* what came of it

vars == <<type, input, attr, making, level, verdict>>

Chain   == Chains[type]
Classes == DOMAIN Chain
Class   == making[Len(making)]

TypeOK ==
  /\ type \in DOMAIN Chains /\ input \in Inputs
  /\ DOMAIN attr = Classes
  /\ making \in Seq(Classes)
  /\ level \in 0..Len(Chain)
  /\ verdict \in {"open", "accepted", "refused"}

Init ==
  /\ type \in DOMAIN Chains /\ input \in Inputs
  /\ attr = [c \in Classes |-> <<>>]
  /\ making = <<Len(Chain)>>
  /\ level = Len(Chain)
  /\ verdict = "open"

Passes(test) == input \in test

AllPass(tests) == \A j \in DOMAIN tests : Passes(tests[j])
NonePasses(tests) == TRUE   \* mutant: `__new__` leaves the tests to `__check`

\* `__new__` stops at the first test that passes.
OnePasses(tests) == \E j \in DOMAIN tests : Passes(tests[j])

\* `__new__` of class `level` of the chain: the tests of the object's class are
\* those of this one from now on.
New ==
  /\ verdict = "open" /\ level > 0
  /\ attr' = [attr EXCEPT ![Class] = Chain[level]]
  /\ IF OnePasses(Chain[level])
     THEN level' = level - 1 /\ verdict' = verdict
     ELSE level' = level /\ verdict' = "refused"
  /\ UNCHANGED <<type, input, making>>

\* `__init__`: `__check` makes an object of the base class of the same value,
\* which checks it in turn.
InitBase ==
  /\ verdict = "open" /\ level = 0 /\ Class > 1
  /\ making' = Append(making, Class - 1)
  /\ level' = Class - 1
  /\ UNCHANGED <<type, input, attr, verdict>>

\* `__check`, of the innermost class and then back: the tests of the attribute.
\* The base classes' `__init__` runs the same method with the same tests.
Check ==
  /\ verdict = "open" /\ level = 0 /\ Class = 1
  /\ verdict' = IF \A i \in DOMAIN making : AllPass(attr[making[i]])
                THEN "accepted" ELSE "refused"
  /\ UNCHANGED <<type, input, attr, making, level>>

Next == New \/ InitBase \/ Check

Spec == Init /\ [][Next]_vars

-----------------------------------------------------------------------------
(* Properties                                                              *)

\* The value passes the tests of class i; one of them.
PassesAll(i) == \A test \in {Chain[i][j] : j \in DOMAIN Chain[i]} : input \in test
PassesOne(i) == \E test \in {Chain[i][j] : j \in DOMAIN Chain[i]} : input \in test

\* What is accepted passes one test of each class, and all of the innermost: no
\* class of the chain is passed over, whichever tests the attribute holds.
AcceptedPasses ==
  verdict = "accepted" => PassesAll(1) /\ \A i \in Classes : PassesOne(i)

\* What is accepted meets the type: it passes every test of every class.
AcceptedMeets == verdict = "accepted" => \A i \in Classes : PassesAll(i)
=============================================================================
