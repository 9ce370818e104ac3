---------------------------- MODULE MCBastionInit ----------------------------
(***************************************************************************)
(* An instance of BastionInit: the keys that only the parallel lists name, *)
(* one phase before the batch, a batch of two, and after it the vault, the *)
(* marker's phase and the verification that comes after it.                *)
(***************************************************************************)
EXTENDS BastionInit

CONSTANTS bastion_keys, packages, binary_tools, cpan_modules, vault_inception, custom_scripts, verification

KeyList == <<bastion_keys>>
PreList == <<packages>>
BatchList == <<cpan_modules, binary_tools>>
PostList == <<vault_inception, custom_scripts, verification>>
=============================================================================
