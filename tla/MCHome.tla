------------------------------- MODULE MCHome -------------------------------
(* Home with two commands: a machine in between, with its state file still *)
(* in ~/.ocfp; one with files at both places, among them state.yml and the *)
(* keys; one with the keys and an old config.yml; one that has only what a *)
(* bloc leaves there; and an empty one.                                    *)
EXTENDS Home

CONSTANTS c1, c2, elder
MCCommands == {c1, c2}

MCLayouts == {
    [legacy |-> {"state", "lock"}, new |-> {"lock"}, dirs |-> {"logs"}],
    [legacy |-> {"state", "key", "note"}, new |-> {"state", "key"}, dirs |-> {"keys"}],
    [legacy |-> {"config", "key"}, new |-> {}, dirs |-> {}],
    [legacy |-> {"log", "vault"}, new |-> {}, dirs |-> {"logs"}],
    [legacy |-> {}, new |-> {}, dirs |-> {}]}
=============================================================================
