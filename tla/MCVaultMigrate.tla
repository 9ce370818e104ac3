--------------------------- MODULE MCVaultMigrate ---------------------------
(* VaultMigrate on a path that holds two keys and a path below it.         *)
EXTENDS VaultMigrate, TLC

CONSTANTS v1, v2, own

A == <<"a">>
AB == <<"a", "b">>
MCPaths == {<< >>, A, AB}
MCKeys == {"k", "l"}

Holding(f) == [s \in MCPaths \X MCKeys |-> IF s \in DOMAIN f THEN f[s] ELSE None]

(* Two keys on one path and one below it. *)
MCFirstInc == {Holding(<<A, "k">> :> v1 @@ <<A, "l">> :> v2 @@ <<AB, "k">> :> v1)}

(* The production vault is new, or holds a key of its own next to one that *)
(* an earlier migration left.                                              *)
MCFirstProd == {Holding(<<A, "k">> :> None), Holding(<<A, "k">> :> v2 @@ <<AB, "l">> :> own)}

(* Two environments in the tiers of their kits, and one in another tier.   *)
MCEnvs == {[kit |-> "bosh", tier |-> "mgmt"], [kit |-> "bosh", tier |-> "ocf"],
           [kit |-> "cf", tier |-> "ocf"]}
=============================================================================
