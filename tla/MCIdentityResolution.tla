------------------------ MODULE MCIdentityResolution ------------------------
(* Every acyclic schema of four identities, found in one order, once with b   *)
(* found under a second prefix: the names being interchangeable, that stands  *)
(* for every order.                                                          *)
EXTENDS IdentityResolution, FiniteSets

MCIdentities == {"a", "b", "c", "d"}
MCName == [i \in MCIdentities |-> i]

Acyclic(s) ==
  LET up[n \in 0..4] == [i \in MCIdentities |->
        IF n = 0 THEN s[i] ELSE s[i] \cup UNION {up[n - 1][j] : j \in s[i]}]
  IN \A i \in MCIdentities : i \notin up[4][i]

MCSchemas     == {s \in [MCIdentities -> SUBSET MCIdentities] : Acyclic(s)}
MCDefinitions == {<<"a", "b", "c", "d">>, <<"a", "b", "c", "b", "d">>}

\* The base of a is not in any module; b is derived from a.
MCMissing == {[i \in MCIdentities |->
                 CASE i = "a" -> {"elsewhere"} [] i = "b" -> {"a"} [] OTHER -> {}]}
=============================================================================
