---------------------------- MODULE MCStateStore ----------------------------
(***************************************************************************)
(* An instance of StateStore: who shares the state file, and what each     *)
(* does: a bootstrap that records two resources, two syncs, and two        *)
(* teardowns, which may run at once.                                       *)
(***************************************************************************)
EXTENDS StateStore, TLC

CONSTANTS p1, p2, p3, p4, p5, k0, k1, k2, k3

Commands == {p1, p2, p3, p4, p5}
Teardowns == {p4, p5}
Forced == {p5}
Keys == {k0, k1, k2, k3}
First == {k0}

CommandsRole == p1 :> "recorder" @@ p2 :> "syncer" @@ p3 :> "syncer"
                  @@ p4 :> "remover" @@ p5 :> "remover"
CommandsJob == p1 :> {k1, k2} @@ p2 :> {k3} @@ p3 :> {} @@ p4 :> {k0} @@ p5 :> {k3}
=============================================================================
