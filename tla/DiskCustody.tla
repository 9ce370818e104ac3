----------------------------- MODULE DiskCustody -----------------------------
(***************************************************************************)
(* What a recycle promises about the data disk, said without journals,     *)
(* processes or names: the package comment of internal/recycle/phase.go.   *)
(* "The handover moves the disk straight from one live VM config to        *)
(* another and it never belongs to nothing."                               *)
(***************************************************************************)
VARIABLES original,      \* is there an original?
          replacement,   \* is there a replacement?
          holder         \* who holds the data disk

vars == <<original, replacement, holder>>

TypeOK ==
  /\ original \in BOOLEAN /\ replacement \in BOOLEAN
  /\ holder \in {"original", "replacement"}

\* Somebody who exists holds the disk.
Held ==
  /\ holder = "original" => original
  /\ holder = "replacement" => replacement

Init == original = TRUE /\ replacement = FALSE /\ holder = "original"

Build ==
  /\ original /\ ~replacement
  /\ replacement' = TRUE
  /\ UNCHANGED <<original, holder>>

HandOver ==
  /\ original /\ replacement /\ holder = "original"
  /\ holder' = "replacement"
  /\ UNCHANGED <<original, replacement>>

Return ==
  /\ original /\ replacement /\ holder = "replacement"
  /\ holder' = "original"
  /\ UNCHANGED <<original, replacement>>

Discard ==
  /\ replacement /\ holder = "original"
  /\ replacement' = FALSE
  /\ UNCHANGED <<original, holder>>

Retire ==
  /\ original /\ holder = "replacement"
  /\ original' = FALSE
  /\ UNCHANGED <<replacement, holder>>

\* The replacement takes the original's place.
Adopt ==
  /\ ~original /\ replacement
  /\ original' = TRUE /\ replacement' = FALSE /\ holder' = "original"

Next == Build \/ HandOver \/ Return \/ Discard \/ Retire \/ Adopt

Spec == Init /\ [][Next]_vars
=============================================================================
