---------------------------- MODULE MCReconcile ----------------------------
(***************************************************************************)
(* An instance of Reconcile: an instance, listed by the first of the two   *)
(* calls of its category, and a bucket, which may have the same ID.        *)
(***************************************************************************)
EXTENDS Reconcile, TLC

CONSTANTS i1, i2, vm, bucket

Ids2 == {i1, i2}
Names == {vm, bucket}
Kinds == {"instance", "volume", "bucket"}
Categories == {"compute", "storage"}
KindTable == vm :> "instance" @@ bucket :> "bucket"
CallTable == "compute" :> <<"instance", "volume">> @@ "storage" :> <<"bucket">>
=============================================================================
