----------------------------- MODULE TypedList -----------------------------
(***************************************************************************)
(* The members of a leaf-list: the Python class TypedListType makes          *)
(* (lib/yangtypes.py), always with unique=True (plugin/pybind.py:888).       *)
(*                                                                         *)
(* A value comes as it is passed and is stored as the member's type converts *)
(* it.  A passed value is equal to a member only if it is a value of that    *)
(* type already: the text "1" is not the number 1, and the float 0.1 is not  *)
(* the Decimal made of it.                                                  *)
(***************************************************************************)
EXTENDS Naturals, Sequences

CONSTANTS
  Passed,   \* what is passed as a member
  Natives,  \* the values of the members' type
  Native,   \* Native[p]: p converted, or Invalid
  Invalid

ASSUME PassedAssumption ==
  /\ Natives \subseteq Passed
  /\ Native \in [Passed -> Natives \cup {Invalid}]
  /\ \A n \in Natives : Native[n] = n
  /\ Invalid \notin Passed

Has(s, p)   == \E i \in DOMAIN s : s[i] = p
Accepts(p)  == Native[p] # Invalid
Distinct(s) == \A i, j \in DOMAIN s : s[i] = s[j] => i = j

\* Mutants: append() raises for a value that is there; it does not look for it.
AppendRefusedTwice(s, p) == Has(s, p) \/ ~Accepts(p)
AppendedAny(s, p)        == Append(s, Native[p])

\* append(): a value that is there already is dropped without a word.
AppendRefused(s, p) == ~Has(s, p) /\ ~Accepts(p)
Appended(s, p)      == IF Has(s, p) THEN s ELSE Append(s, Native[p])

\* insert(), and the assignment to an index: insert() is what it calls, so
\* that the member at the index moves on.  A value that is there is an error.
InsertRefusedTwice(s, p) == Has(s, p)   \* mutant: the value is not converted
InsertRefused(s, p) == Has(s, p) \/ ~Accepts(p)
Inserted(s, i, p)   == SubSeq(s, 1, i - 1) \o <<Native[p]>> \o SubSeq(s, i, Len(s))

Deleted(s, i)  == SubSeq(s, 1, i - 1) \o SubSeq(s, i + 1, Len(s))
FirstAt(s, p)  == CHOOSE i \in DOMAIN s : s[i] = p /\ \A j \in 1..(i - 1) : s[j] # p
Removed(s, p)  == Deleted(s, FirstAt(s, p))

\* The members left when every one that is not in P has been removed.
Only(s, P) ==
  LET left[i \in 0..Len(s)] ==
        IF i = 0 THEN <<>> ELSE IF s[i] \in P THEN Append(left[i - 1], s[i]) ELSE left[i - 1]
  IN left[Len(s)]

\* The member the constructor makes of p, after those in tmp.
CollectedAny(tmp, p) == Append(tmp, Native[p])   \* mutant: whatever is there
Collected(tmp, p) == IF Has(tmp, p) THEN tmp ELSE Append(tmp, Native[p])
CollectedAll(vs) ==
  LET made[i \in 0..Len(vs)] == IF i = 0 THEN <<>> ELSE Collected(made[i - 1], vs[i])
  IN made[Len(vs)]
=============================================================================
