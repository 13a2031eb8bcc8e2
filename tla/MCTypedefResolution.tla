------------------------ MODULE MCTypedefResolution ------------------------
(* Every schema of three typedefs, with types that are defined nowhere and    *)
(* cycles; found in one order, which stands for every order.                 *)
EXTENDS TypedefResolution

MCTypedefs == {"a:t", "a:u", "b:t"}
MCModule   == [t \in MCTypedefs |-> IF t = "b:t" THEN "b" ELSE "a"]
MCOrders   == {<<"a:t", "b:t", "a:u">>}

MCName    == [t \in MCTypedefs |-> t]
MCSchemas == [MCTypedefs -> SUBSET (MCTypedefs \cup {"string", "elsewhere"})]
=============================================================================
