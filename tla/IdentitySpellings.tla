------------------------- MODULE IdentitySpellings -------------------------
(***************************************************************************)
(* The values of an identityref in the dataclass bindings                   *)
(* (_build_identity_values of plugin/pybind_dataclass.py): for a base, the   *)
(* spellings of all identities derived from it, and what each of them means. *)
(*                                                                         *)
(* An identity is [module, prefix, name, bases]: the name of its module, the *)
(* prefix that module has for itself, and the numbers of its bases.  A       *)
(* spelling is [by, name], by a module name or a prefix, or Bare.  What it   *)
(* means, `canon`, is a spelling by module name (RFC 7951).  The expressions  *)
(* derived-from() and derived-from-or-self() climb from there to the bases.    *)
(***************************************************************************)
EXTENDS Naturals, Sequences, SequencesExt

CONSTANTS
  Bare,
  LeafModule   \* the module of the leaf that holds the value

VARIABLES
  identities,  \* by number; 0 is the base
  order,       \* the order in which the modules give them
  stack, seen,
  canon        \* of each spelling so far, the identity it means

svars == <<identities, order, stack, seen, canon>>

Numbers == DOMAIN identities
Spelling(by, name) == [by |-> by, name |-> name]
Canonical(i) == Spelling(identities[i].module, identities[i].name)

Spellings(i) ==
  {Canonical(i), Spelling(identities[i].prefix, identities[i].name),
   Spelling(Bare, identities[i].name)}

\* The identities with base b, in the order of the modules.
DirectlyDerived(ids, in, b) ==
  LET derived == {i \in DOMAIN ids : b \in ids[i].bases}
      those[k \in 0..Len(in)] ==
        IF k = 0 THEN <<>>
        ELSE IF in[k] \in derived THEN Append(those[k - 1], in[k]) ELSE those[k - 1]
  IN those[Len(in)]

\* An identity comes after its bases, and no two have one name in one module.
WellFormed ==
  /\ identities \in Seq({identities[i] : i \in Numbers})
  /\ order \in Seq(Numbers) /\ Range(order) = Numbers
  /\ \A i \in Numbers : /\ identities[i].bases \subseteq 0..(i - 1)
                         /\ Bare \notin {identities[i].module, identities[i].prefix}
                         /\ Canonical(i) # Spelling(LeafModule, "base")
  /\ \A i, j \in Numbers : Canonical(i) = Canonical(j) => i = j

InitWith(ids, in) ==
  /\ identities = ids /\ order = in
  /\ stack = DirectlyDerived(ids, in, 0)
  /\ seen = {} /\ canon = <<>>

\* Mutant: an identity that has a base passed before is not gone into.
FollowedOnce(i) ==
  IF i \in seen \/ identities[i].bases \cap seen # {} THEN <<>>
  ELSE DirectlyDerived(identities, order, i)

\* What a popped identity adds to the stack.
Followed(i) == IF i \in seen THEN <<>> ELSE DirectlyDerived(identities, order, i)

Meaning(i) == [s \in Spellings(i) |-> Canonical(i)]

\* One identity: what it spells, it takes over from those before.
Pop ==
  /\ stack # <<>>
  /\ LET i == stack[Len(stack)]
     IN /\ stack' = Front(stack) \o Followed(i)
        /\ seen' = seen \cup {i}
        /\ canon' = IF i \in seen THEN canon
                    ELSE [s \in DOMAIN canon \cup Spellings(i) |->
                            IF s \in Spellings(i) THEN Meaning(i)[s] ELSE canon[s]]
  /\ UNCHANGED <<identities, order>>

-----------------------------------------------------------------------------
(* Values in IETF JSON                                                     *)

\* _encode_value
Encode(value) == IF value \in DOMAIN canon THEN canon[value] ELSE value

\* The spelling a decoded value or a default gets: bare if that means it.
Preferred(c) ==
  LET accepted == {s \in DOMAIN canon : canon[s] = c}
      bare     == {s \in accepted : s.by = Bare}
  IN IF bare # {} THEN bare ELSE accepted

\* _decode_value: by the name of the module, or bare in the leaf's own.
DecodeRaises(value) ==
  /\ value \in DOMAIN canon
  /\ IF value.by # Bare THEN value # canon[value] ELSE canon[value].by # LeafModule

Decode(value) == IF value \in DOMAIN canon THEN Preferred(canon[value]) ELSE {value}

\* The spelling of a default, whose prefix may be that of an import.
Default(text) ==
  IF text \in DOMAIN canon THEN Preferred(canon[text])
  ELSE IF Spelling(Bare, text.name) \in DOMAIN canon
       THEN Preferred(canon[Spelling(Bare, text.name)])
  ELSE {text}

-----------------------------------------------------------------------------
(* derived-from() and derived-from-or-self() (_xpath_call)                   *)

\* The base is an identity of the leaf's module.
CanonicalOf(i) == IF i = 0 THEN Spelling(LeafModule, "base") ELSE Canonical(i)

BasesOf(c) ==
  UNION {{CanonicalOf(b) : b \in identities[i].bases} : i \in {i \in Numbers : Canonical(i) = c}}

\* What the expression names, a literal, is kept as it is written.
Denotes(target, c) == IF target.by = Bare THEN c.name = target.name ELSE c = target

\* One base after the other, each gone into once.
Climbs(from, target) ==
  LET passed[k \in Nat] ==
        IF k = 0 THEN {}
        ELSE LET left == (from \cup UNION {BasesOf(c) : c \in passed[k - 1]}) \ passed[k - 1]
             IN IF left = {} THEN passed[k - 1] ELSE passed[k - 1] \cup {CHOOSE c \in left : TRUE}
  IN \E c \in passed[Len(identities) + 1] : Denotes(target, c)

\* What one value decides; one that is no value of the leaf is not judged, but
\* for its name.
OneDerived(value, target, orSelf) ==
  IF value \notin DOMAIN canon
  THEN IF orSelf /\ value.name = target.name THEN "true" ELSE "unsupported"
  ELSE IF \/ orSelf /\ Denotes(target, canon[value])
          \/ Climbs(BasesOf(canon[value]), target)
       THEN "true" ELSE "false"

\* The nodes are gone over until one of them decides.
DerivedFrom(nodes, target, orSelf) ==
  LET outcomes == [i \in DOMAIN nodes |-> OneDerived(nodes[i], target, orSelf)]
      decides  == {i \in DOMAIN nodes : outcomes[i] # "false"}
  IN IF decides = {} THEN "false"
     ELSE outcomes[CHOOSE i \in decides : \A j \in decides : i <= j]

-----------------------------------------------------------------------------
(* Properties                                                              *)

TypeOK ==
  /\ Range(stack) \subseteq Numbers /\ seen \subseteq Numbers
  /\ \A s \in DOMAIN canon : \E i \in seen : canon[s].name = identities[i].name

Based == [b \in {0} \cup Numbers |-> {i \in Numbers : b \in identities[i].bases}]
Bases == [i \in {0} \cup Numbers |-> IF i = 0 THEN {} ELSE identities[i].bases]

\* All identities derived from the base.
AllDerived ==
  LET derived[n \in Nat] ==
        IF n = 0 THEN Based[0] ELSE derived[n - 1] \cup UNION {Based[b] : b \in derived[n - 1]}
  IN derived[Len(identities)]

Who(s) == {i \in AllDerived : s \in Spellings(i)}

\* The prefix of a module is the name of another one, with an identity of the
\* same name.
Homonyms(s) == \E i, j \in Who(s) : Canonical(i) = s /\ Canonical(j) # s

Meant(s) == {Canonical(i) : i \in Who(s)}

\* Exactly the identities derived from the base, through however many others,
\* are values; a spelling only one of them has means that one, an RFC 7951 form
\* is read back as the identity it was written for, and a default means what its
\* text means; but for what a module's prefix that is another's name spells.
IdentitiesMeant ==
  stack = <<>> =>
    /\ DOMAIN canon = UNION {Spellings(i) : i \in AllDerived}
    /\ \A s \in DOMAIN canon : Encode(s) \in Meant(s)
    /\ \A i \in AllDerived :
         LET c == Canonical(i)
         IN ~Homonyms(c) => /\ Encode(c) = c /\ ~DecodeRaises(c)
                            /\ \A v \in Decode(c) \cup Default(c) : Encode(v) = c

\* RFC 7951 6.8: the name of an identity of the leaf's own module may be bare.
OwnBareDecodes ==
  stack = <<>> =>
    \A i \in AllDerived :
      identities[i].module = LeafModule => ~DecodeRaises(Spelling(Bare, identities[i].name))

\* The identities i is derived from, and itself.
Ancestors(i) ==
  LET above[n \in Nat] ==
        IF n = 0 THEN {i} ELSE above[n - 1] \cup UNION {Bases[a] : a \in above[n - 1]}
  IN above[Len(identities) + 1]

\* How an expression in the leaf's module names identity j.
Written(j) ==
  IF j = 0 THEN {Spelling(Bare, "base")}
  ELSE {Spelling(identities[j].prefix, identities[j].name)}
         \cup IF identities[j].module = LeafModule THEN {Spelling(Bare, identities[j].name)} ELSE {}

\* Another identity the text could name: a bare name is taken from any module,
\* and a prefix for the name of a module.
Taken(target, j) == \E c \in {CanonicalOf(k) : k \in {0} \cup Numbers} \ {CanonicalOf(j)} : Denotes(target, c)

\* Whether an identity is derived from another one is decided right, for any
\* way through the bases and one or two nodes, unless the text could name
\* another identity, or its prefix is not the name of its module, when none is.
DerivedMeant ==
  stack = <<>> =>
    \A i, k \in AllDerived, j \in {0} \cup Numbers :
      \A target \in Written(j) : ~Taken(target, j) =>
        LET nodes == <<Canonical(i), Canonical(k)>>
            known == Denotes(target, CanonicalOf(j))
        IN ~Homonyms(Canonical(i)) /\ ~Homonyms(Canonical(k)) =>
             /\ DerivedFrom(nodes, target, FALSE) =
                  IF known /\ j \in (Ancestors(i) \ {i}) \cup (Ancestors(k) \ {k})
                  THEN "true" ELSE "false"
             /\ DerivedFrom(nodes, target, TRUE) =
                  IF known /\ j \in Ancestors(i) \cup Ancestors(k) THEN "true" ELSE "false"

\* "prefixes were normalized to module names at codegen"
\* (pybind_dataclass.py:1266): the text names its identity, whatever its prefix.
PrefixesNormalized ==
  \A j \in Numbers : \A target \in Written(j) : Denotes(target, Canonical(j))
=============================================================================
