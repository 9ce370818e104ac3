----------------------------- MODULE MCTeardown -----------------------------
(***************************************************************************)
(* An instance of Teardown: the bastion, whose entry a sync may have left  *)
(* under its ID, the artifacts guest and its preserved disk, a security    *)
(* group whose ID holds "404" and a bucket, neither of them recorded; a    *)
(* guest of another bloc, whose entry may be in the file; and, of a bloc   *)
(* whose name begins with this one's, a guest and an address.              *)
(***************************************************************************)
EXTENDS Teardown, TLC

CONSTANTS vm, art, disk, bkt, grp, fvm, xvm, xip

Resources == {vm, art, disk, bkt, grp, fvm, xvm, xip}
KindTable ==
  vm :> "instance" @@ art :> "artifacts" @@ disk :> "volume" @@ bkt :> "bucket"
  @@ grp :> "security_group" @@ fvm :> "instance"
  @@ xvm :> "instance" @@ xip :> "address"
HostTable == disk :> art
Others == {fvm, xvm, xip}
Names == {vm, art, bkt, grp, xvm}
Addresses == {xip}
Entries == {vm, art, disk, fvm}
Disks == {disk}
Odd == {grp}
Synced == {vm}

Plain == [force |-> FALSE, nuke |-> FALSE, dry |-> FALSE, empty |-> FALSE, only |-> {}, skip |-> {}]
Forced == [Plain EXCEPT !.force = TRUE, !.empty = TRUE]
CommandLines ==
  {Plain, Forced,
   [Plain EXCEPT !.dry = TRUE],
   [Plain EXCEPT !.force = TRUE, !.nuke = TRUE],
   [Plain EXCEPT !.force = TRUE, !.skip = {"artifacts", "volume"}],
   [Plain EXCEPT !.force = TRUE, !.only = {"instance"}]}
=============================================================================
