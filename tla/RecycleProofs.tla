---------------------------- MODULE RecycleProofs ----------------------------
(***************************************************************************)
(* What is proved about Recycle, for every set of guest ids and any number *)
(* of interruptions, re-runs and aborts: its types, and, with a single     *)
(* operator, a state file that is not lost in a save, listings that are    *)
(* answered and a disk that moves by reassignment, that the disk survives, *)
(* that the original goes only after the handover, that two guests never   *)
(* share the bastion's name, that the journal and the reports are true,    *)
(* and that Recycle implements DiskCustody.  With any one of the four      *)
(* conditions dropped TLC finds the disk destroyed.                        *)
(*                                                                         *)
(* The properties alone are not inductive. The invariant adds what the     *)
(* journal promises of the cluster (PhaseReady) and what the program point *)
(* of the process does (PointOK); there is one lemma per action.           *)
(***************************************************************************)
EXTENDS Recycle, TLAPS

-----------------------------------------------------------------------------
(* Types.  TypeOK alone is not inductive: NextPhase has no value past the  *)
(* last phase, so the proof carries InPhase along, that a process running  *)
(* a phase is in one.                                                      *)

\* Every program point and outcome the actions go to is a declared one.
LEMMA Labels ==
  /\ {"idle", "resolve", "journal", "act", "hand-over", "destroy", "restore",
      "attach", "record", "adopt", "start", "undo", "clear"} \subseteq Points
  /\ {"none", "finished", "paused", "aborted", "refused", "failed"} \subseteq Outcomes
  BY DEF Points, Outcomes

\* The phase tables of phase.go stay within the phases.
LEMMA PhaseTypes ==
  /\ \A p \in Phases : NextPhase(p) \in Phases \cup {"none"}
  /\ \A p : PrevPhase(p) \in Phases \cup {"none"}
  /\ \A obs : ReconstructPhase(obs) \in Phases
  /\ \A p : CanAbort(p) => p \in Phases
  /\ {"planned", "secured", "provisioned", "built", "quiesced", "handed-over",
      "retired", "adopted", "verified"} \subseteq Phases
  BY DEF Phases, NextPhase, PrevPhase, ReconstructPhase, CanAbort

\* Building and changing states, volume ids and moves keeps them of their type.
LEMMA RecordTypes ==
  /\ NoVolume \in VolumeIds /\ NoMove \in Moves
  /\ \A v \in VM \cup {Nobody}, d \in BOOLEAN : [vm |-> v, data |-> d] \in VolumeIds
  /\ \A st \in States :
       /\ \A p \in Phases \cup {"none"} : [st EXCEPT !.journal = p] \in States
       /\ \A id \in VolumeIds : [st EXCEPT !.vol = id] \in States
       /\ \A v \in VM \cup {Nobody} : [st EXCEPT !.bastion = v] \in States
       /\ st.journal \in Phases \cup {"none"} /\ st.vol \in VolumeIds
       /\ st.bastion \in VM \cup {Nobody}
  /\ \A mv \in Moves : /\ mv.from \in VM \cup {Nobody} /\ mv.to \in VM \cup {Nobody}
                       /\ mv.vol \in VolumeIds /\ mv.serial \in BOOLEAN
  /\ \A f, t \in VM \cup {Nobody}, id \in VolumeIds, s \in BOOLEAN :
       [from |-> f, to |-> t, serial |-> s, vol |-> id] \in Moves
  /\ \A t \in VM \cup {Nobody}, id \in VolumeIds :
       Arrived(t, id) \in Moves
  /\ EmptyState \in States
  BY DEF NoVolume, VolumeIds, NoMove, Moves, States, EmptyState, Arrived

\* A lookup by name returns guests of the hypervisor, or nobody.
LEMMA FindTypes ==
  ASSUME NEW n, NEW blind
  PROVE  /\ FindByName(n, blind) \subseteq VM \cup {Nobody}
         /\ Named(n) \subseteq VM
  BY DEF FindByName, Named

\* resolveStartPhase always yields a phase to run: never the end of the order.
LEMMA StartPhaseTypes ==
  ASSUME NEW obs, NEW j \in Phases \cup {"none"}
  PROVE  StartPhase(j, obs) \in Phases
  <1>1. NextPhase(ReconstructPhase(obs)) \in Phases
    BY DEF NextPhase, ReconstructPhase, Phases
  <1>2. QED
    BY <1>1, PhaseTypes DEF StartPhase

\* What the control operators write is of its type.
LEMMA ControlTypes ==
  ASSUME TypeOK, NEW o \in Operator
  PROVE  /\ \A l \in Points : Goto(o, l) => pc' \in [Operator -> Points]
         /\ \A how \in Outcomes : End(o, how) =>
              pc' \in [Operator -> Points] /\ outcome' \in [Operator -> Outcomes]
         /\ \A st \in States : Save(o, st) =>
              mem' \in [Operator -> States] /\ file' \in States
         /\ \A blind : Blink(blind) => blinks' \in Nat
         /\ Retreat(o) => /\ pc' \in [Operator -> Points]
                          /\ phase' \in [Operator -> Phases \cup {"none"}]
         /\ Advance(o) /\ phase[o] \in Phases =>
              /\ pc' \in [Operator -> Points]
              /\ phase' \in [Operator -> Phases \cup {"none"}]
  <1>1. \A l \in Points : Goto(o, l) => pc' \in [Operator -> Points]
    BY DEF TypeOK, Goto
  <1>2. \A how \in Outcomes : End(o, how) =>
           pc' \in [Operator -> Points] /\ outcome' \in [Operator -> Outcomes]
    BY Labels DEF TypeOK, Goto, End
  <1>3. \A st \in States : Save(o, st) =>
           mem' \in [Operator -> States] /\ file' \in States
    BY DEF TypeOK, Save
  <1>4. \A blind : Blink(blind) => blinks' \in Nat
    BY DEF TypeOK, Blink
  <1>5. Retreat(o) => /\ pc' \in [Operator -> Points]
                      /\ phase' \in [Operator -> Phases \cup {"none"}]
    BY Labels, PhaseTypes DEF TypeOK, Retreat, Goto
  <1>6. Advance(o) /\ phase[o] \in Phases =>
          /\ pc' \in [Operator -> Points]
          /\ phase' \in [Operator -> Phases \cup {"none"}]
    BY Labels, PhaseTypes DEF TypeOK, Advance, Goto
  <1>7. QED
    BY <1>1, <1>2, <1>3, <1>4, <1>5, <1>6

\* Program points at which a phase is being run.
Working == {"journal", "act", "hand-over", "destroy", "restore", "attach",
            "record", "adopt", "start"}
\* ... where the process is in a phase: with the types, inductive.
InPhase == \A o \in Operator : pc[o] \in Working => phase[o] \in Phases

\* Deleting a guest leaves a well-typed cluster.
LEMMA DeleteTypes ==
  ASSUME TypeOK, NEW v, DeleteInstance(v)
  PROVE  /\ name' \in [VM -> {Absent, Final, Transient}]
         /\ running' \in [VM -> BOOLEAN]
         /\ diskOn' \in VM \cup {Nobody} /\ diskId' \in VolumeIds
         /\ diskSerial' \in BOOLEAN /\ diskLost' \in BOOLEAN
  BY DEF TypeOK, DeleteInstance

\* moveDisk leaves a well-typed cluster and process, however it ends.
LEMMA TransferTypes ==
  ASSUME TypeOK, NEW o \in Operator, NEW f, NEW t, Transfer(o, f, t)
  PROVE  /\ diskOn' \in VM \cup {Nobody} /\ diskId' \in VolumeIds
         /\ diskSerial' \in BOOLEAN
         /\ pc' \in [Operator -> Points]
         /\ move' \in [Operator -> Moves]
         /\ outcome' \in [Operator -> Outcomes]
         /\ blinks' \in Nat /\ refusals' \in Nat
  <1>1. PICK blind, from, to, mv :
          /\ from \in VM \cup {Nobody} /\ to \in VM \cup {Nobody}
          /\ mv = [from |-> from, to |-> to, serial |-> diskSerial,
                   vol |-> VolumeToMove(mem[o], from, blind)]
          /\ Blink(blind)
          /\ \/ /\ MoveDisk(mv) /\ Goto(o, "restore")
                /\ move' = [move EXCEPT ![o] = mv]
                /\ UNCHANGED <<outcome, refusals>>
             \/ /\ (UNCHANGED refusals \/ refusals' = refusals + 1)
                /\ DetachDisk(mv) /\ Goto(o, "attach")
                /\ move' = [move EXCEPT ![o] = mv]
                /\ UNCHANGED outcome
             \/ /\ End(o, "failed")
                /\ UNCHANGED <<diskOn, diskId, diskSerial, move, refusals>>
    BY FindTypes DEF Transfer
  <1>2. mv \in Moves /\ mv.to = to
    BY <1>1, RecordTypes DEF TypeOK, VolumeToMove
  <1>3. blinks' \in Nat
    BY <1>1, ControlTypes
  <1>4. CASE MoveDisk(mv) /\ Goto(o, "restore")
             /\ move' = [move EXCEPT ![o] = mv] /\ UNCHANGED <<outcome, refusals>>
    BY <1>2, <1>3, <1>4, Labels, ControlTypes, RecordTypes DEF TypeOK, MoveDisk
  <1>5. CASE (UNCHANGED refusals \/ refusals' = refusals + 1)
             /\ DetachDisk(mv) /\ Goto(o, "attach")
             /\ move' = [move EXCEPT ![o] = mv] /\ UNCHANGED outcome
    BY <1>2, <1>3, <1>5, Labels, ControlTypes DEF TypeOK, DetachDisk
  <1>6. CASE End(o, "failed") /\ UNCHANGED <<diskOn, diskId, diskSerial, move,
  refusals>>
    BY <1>3, <1>6, Labels, ControlTypes DEF TypeOK
  <1>7. QED
    BY <1>1, <1>4, <1>5, <1>6

\* HandOverDisk preserves the types.
LEMMA HandOverDiskTypes ==
  ASSUME TypeOK, NEW o \in Operator, HandOverDisk(o)
  PROVE TypeOK'
  BY TransferTypes DEF TypeOK, HandOverDisk

\* Returning the disk preserves the types.
LEMMA ReturnDiskTypes ==
  ASSUME TypeOK, NEW o \in Operator, ReturnDisk(o)
  PROVE TypeOK'
  BY TransferTypes DEF TypeOK, ReturnDisk

\* Deleting the replacement preserves the types.
LEMMA DeleteReplacementTypes ==
  ASSUME TypeOK, NEW o \in Operator, DeleteReplacement(o)
  PROVE TypeOK'
  <1>1. PICK blind, v : Blink(blind) /\ (UNCHANGED cluster \/ DeleteInstance(v))
    BY DEF DeleteReplacement
  <1>2. CASE UNCHANGED cluster
    BY <1>1, <1>2, ControlTypes DEF TypeOK, cluster, DeleteReplacement
  <1>3. CASE DeleteInstance(v)
    BY <1>1, <1>3, DeleteTypes, ControlTypes DEF TypeOK, DeleteReplacement
  <1>4. QED
    BY <1>1, <1>2, <1>3

\* Retiring the original preserves the types.
LEMMA RetireOriginalTypes ==
  ASSUME TypeOK, InPhase, NEW o \in Operator, RetireOriginal(o)
  PROVE TypeOK'
  <1>1. PICK blind, v : Blink(blind) /\ (UNCHANGED cluster \/ DeleteInstance(v))
    BY DEF RetireOriginal
  <1> phase[o] \in Phases
    BY DEF InPhase, Working, RetireOriginal, At
  <1>2. CASE UNCHANGED cluster
    BY <1>1, <1>2, ControlTypes DEF TypeOK, cluster, RetireOriginal
  <1>3. CASE DeleteInstance(v)
    BY <1>1, <1>3, DeleteTypes, ControlTypes DEF TypeOK, RetireOriginal
  <1>4. QED
    BY <1>1, <1>2, <1>3

\* Placing a run preserves the types.
LEMMA ResolveTypes ==
  ASSUME TypeOK, NEW o \in Operator, Resolve(o)
  PROVE TypeOK'
  <1>1. PICK blind, obs : 
       /\ Blink(blind)
       /\ IF NothingToRecycle(obs)
          THEN End(o, "failed") /\ UNCHANGED phase
          ELSE /\ phase' = [phase EXCEPT ![o] = StartPhase(mem[o].journal, obs)]
               /\ Goto(o, "journal") /\ UNCHANGED outcome
    BY DEF Resolve
  <1>2. mem[o].journal \in Phases \cup {"none"}
    BY RecordTypes DEF TypeOK
  <1>3. StartPhase(mem[o].journal, obs) \in Phases
    BY <1>2, StartPhaseTypes
  <1>4. QED
    BY <1>1, <1>3, Labels, ControlTypes DEF TypeOK, Resolve, cluster

\* Building the replacement preserves the types.
LEMMA BuildReplacementTypes ==
  ASSUME TypeOK, InPhase, NEW o \in Operator, BuildReplacement(o)
  PROVE TypeOK'
  <1> phase[o] \in Phases
    BY DEF InPhase, Working, BuildReplacement, At
  <1>1. PICK blind : 
       /\ Blink(blind)
       /\ \/ Advance(o) /\ UNCHANGED <<name, running, outcome>>
          \/ (\E v \in VM : CreateStopped(v)) /\ Advance(o) /\ UNCHANGED outcome
          \/ End(o, "failed") /\ UNCHANGED <<name, running, phase>>
    BY FindTypes DEF BuildReplacement
  <1>2. name' \in [VM -> {Absent, Final, Transient}] /\ running' \in [VM -> BOOLEAN]
    BY <1>1 DEF TypeOK, CreateStopped
  <1>4. QED
    BY <1>1, <1>2, Labels, ControlTypes DEF TypeOK, BuildReplacement

\* The look before the handover preserves the types.
LEMMA CheckHandoverTypes ==
  ASSUME TypeOK, NEW o \in Operator, CheckHandover(o)
  PROVE TypeOK'
  <1>0. PICK blind : \E to \in FindByName(Transient, blind) :
       /\ Blink(blind)
       /\ \/ /\ Goto(o, "record")
             /\ move' = [move EXCEPT ![o] = Arrived(to, diskId)]
          \/ Goto(o, "hand-over") /\ UNCHANGED move
    BY DEF CheckHandover
  <1>1. PICK to \in FindByName(Transient, blind) :
       /\ Blink(blind)
       /\ \/ /\ Goto(o, "record")
             /\ move' = [move EXCEPT ![o] = Arrived(to, diskId)]
          \/ Goto(o, "hand-over") /\ UNCHANGED move
    BY <1>0
  <1>2. Arrived(to, diskId) \in Moves
    BY FindTypes, RecordTypes DEF TypeOK
  <1>3. move' \in [Operator -> Moves]
    BY <1>1, <1>2 DEF TypeOK
  <1>4. QED
    BY <1>1, <1>3, Labels, ControlTypes DEF TypeOK, CheckHandover, cluster

\* Renaming the replacement preserves the types.
LEMMA RenameReplacementTypes ==
  ASSUME TypeOK, InPhase, NEW o \in Operator, RenameReplacement(o)
  PROVE TypeOK'
  <1> phase[o] \in Phases
    BY DEF InPhase, Working, RenameReplacement, At
  <1>0. PICK blind : \E v \in FindByName(Transient, blind) :
       /\ Blink(blind)
       /\ \/ Advance(o) /\ UNCHANGED <<name, move>>
          \/ /\ name' = [name EXCEPT ![v] = Final]
             /\ move' = [move EXCEPT ![o] = Arrived(v, NoVolume)]
             /\ Goto(o, "adopt") /\ UNCHANGED phase
    BY DEF RenameReplacement
  <1>1. PICK v \in FindByName(Transient, blind) :
       /\ Blink(blind)
       /\ \/ Advance(o) /\ UNCHANGED <<name, move>>
          \/ /\ name' = [name EXCEPT ![v] = Final]
             /\ move' = [move EXCEPT ![o] = Arrived(v, NoVolume)]
             /\ Goto(o, "adopt") /\ UNCHANGED phase
    BY <1>0
  <1>2. Arrived(v, NoVolume) \in Moves
    BY FindTypes, RecordTypes DEF TypeOK
  <1>3. move' \in [Operator -> Moves] /\ name' \in [VM -> {Absent, Final, Transient}]
    BY <1>1, <1>2 DEF TypeOK
  <1>4. QED
    BY <1>1, <1>3, Labels, ControlTypes DEF TypeOK, RenameReplacement

\* Recording the volume preserves the types.
LEMMA RecordVolumeOwnerTypes ==
  ASSUME TypeOK, InPhase, NEW o \in Operator, RecordVolumeOwner(o)
  PROVE TypeOK'
  <1> phase[o] \in Phases
    BY DEF InPhase, Working, RecordVolumeOwner, At
  <1>1. PICK blind, id : 
       /\ id = IF OwnsDisk(mem[o], move[o].to, blind) THEN diskId ELSE move[o].vol
       /\ Blink(blind)
       /\ \/ UNCHANGED <<mem, file>>
          \/ Save(o, [mem[o] EXCEPT !.vol = id])
    BY DEF RecordVolumeOwner
  <1>2. [mem[o] EXCEPT !.vol = id] \in States
    BY <1>1, RecordTypes DEF TypeOK
  <1>3. mem' \in [Operator -> States] /\ file' \in States
    BY <1>1, <1>2, ControlTypes DEF TypeOK
  <1>4. /\ pc' \in [Operator -> Points]
        /\ phase' \in [Operator -> Phases \cup {"none"}]
    BY ControlTypes DEF RecordVolumeOwner, Continue
  <1>5. QED
    BY <1>1, <1>3, <1>4, ControlTypes DEF TypeOK, RecordVolumeOwner, cluster

\* No step of a command breaks the types.
LEMMA StepTypes ==
  ASSUME TypeOK, InPhase, NEW o \in Operator, Step(o)
  PROVE  TypeOK'
  <1> USE Labels, RecordTypes, FindTypes, PhaseTypes, ControlTypes
      DEF Working, cluster, bounds, At
  <1>1. CASE Resolve(o)
    BY <1>1, ResolveTypes
  <1>2. CASE PlanAbort(o)
    BY <1>2 DEF TypeOK, InPhase, PlanAbort
  <1>3. CASE Pause(o)
    BY <1>3 DEF TypeOK, InPhase, Pause
  <1>4. CASE Journal(o)
    BY <1>4 DEF TypeOK, InPhase, Journal
  <1>5. CASE PassThrough(o)
    BY <1>5 DEF TypeOK, InPhase, PassThrough
  <1>6. CASE Secure(o)
    BY <1>6 DEF TypeOK, InPhase, Secure
  <1>7. CASE StopOriginal(o)
    BY <1>7 DEF TypeOK, InPhase, StopOriginal
  <1>8. CASE BuildReplacement(o)
    BY <1>8, BuildReplacementTypes
  <1>9. CASE CheckHandover(o)
    BY <1>9, CheckHandoverTypes
  <1>10. CASE HandOverDisk(o)
    BY <1>10, HandOverDiskTypes
  <1>11. CASE RestoreDiskOptions(o)
    BY <1>11 DEF TypeOK, InPhase, RestoreDiskOptions
  <1>12. CASE AttachDisk(o)
    BY <1>12 DEF TypeOK, InPhase, AttachDisk
  <1>13. CASE RecordVolumeOwner(o)
    BY <1>13, RecordVolumeOwnerTypes
  <1>14. CASE GuardRetire(o)
    BY <1>14 DEF TypeOK, InPhase, GuardRetire
  <1>15. CASE RetireOriginal(o)
    BY <1>15, RetireOriginalTypes
  <1>16. CASE RenameReplacement(o)
    BY <1>16, RenameReplacementTypes
  <1>17. CASE RecordReplacement(o)
    BY <1>17 DEF TypeOK, InPhase, RecordReplacement
  <1>18. CASE StartReplacement(o)
    BY <1>18 DEF TypeOK, InPhase, StartReplacement
  <1>19. CASE Verify(o)
    BY <1>19 DEF TypeOK, InPhase, Verify
  <1>20. CASE NothingToUndo(o)
    BY <1>20 DEF TypeOK, InPhase, NothingToUndo
  <1>21. CASE ReturnDisk(o)
    BY <1>21, ReturnDiskTypes
  <1>22. CASE DeleteReplacement(o)
    BY <1>22, DeleteReplacementTypes
  <1>23. CASE StartOriginal(o)
    BY <1>23 DEF TypeOK, InPhase, StartOriginal
  <1>24. CASE ClearJournal(o)
    BY <1>24 DEF TypeOK, InPhase, ClearJournal
  <1>25. QED
    BY <1>1, <1>2, <1>3, <1>4, <1>5, <1>6, <1>7, <1>8, <1>9, <1>10, <1>11,
       <1>12, <1>13, <1>14, <1>15, <1>16, <1>17, <1>18, <1>19, <1>20, <1>21,
       <1>22, <1>23, <1>24 DEF Step

\* Nor does any other step of the system.
LEMMA NextTypes ==
  ASSUME TypeOK, InPhase, [Next]_vars
  PROVE  TypeOK'
  <1>1. ASSUME NEW o \in Operator, NEW c \in Commands, Start(o, c)
        PROVE  TypeOK'
    BY <1>1, Labels, ControlTypes DEF TypeOK, Start, cluster, bounds
  <1>2. ASSUME NEW o \in Operator, Step(o)
        PROVE  TypeOK'
    BY <1>2, StepTypes
  <1>3. ASSUME NEW o \in Operator, Interrupt(o)
        PROVE  TypeOK'
    BY <1>3, Labels, ControlTypes DEF TypeOK, Interrupt, cluster
  <1>4. ASSUME NEW o \in Operator, CrashInSave(o)
        PROVE  TypeOK'
    BY <1>4, Labels, RecordTypes, ControlTypes DEF TypeOK, CrashInSave, cluster
  <1>5. CASE UNCHANGED vars
    BY <1>5 DEF TypeOK, vars, cluster, bounds
  <1>6. QED
    BY <1>1, <1>2, <1>3, <1>4, <1>5 DEF Next

\* Going on to the next phase lands on a phase, or on the clearing of the journal.
LEMMA AdvanceInPhase ==
  ASSUME TypeOK, InPhase, NEW o \in Operator, phase[o] \in Phases, Advance(o)
  PROVE  InPhase'
  BY DEF TypeOK, InPhase, Advance, Goto, NextPhase, Phases, Working

\* Walking back leaves the phases only for the clearing of the journal.
LEMMA RetreatInPhase ==
  ASSUME TypeOK, InPhase, NEW o \in Operator, Retreat(o)
  PROVE  InPhase'
  BY DEF TypeOK, InPhase, Retreat, Goto, Working

\* Moving within a phase stays in it.
LEMMA GotoInPhase ==
  ASSUME TypeOK, InPhase, NEW o \in Operator, NEW l, Goto(o, l), UNCHANGED phase,
         l \in Working => phase[o] \in Phases
  PROVE  InPhase'
  BY DEF TypeOK, InPhase, Goto

\* A command that ends is in no phase.
LEMMA EndInPhase ==
  ASSUME TypeOK, InPhase, NEW o \in Operator, NEW how, End(o, how), UNCHANGED phase
  PROVE  InPhase'
  BY DEF TypeOK, InPhase, End, Goto, Working

\* Entering a phase of the order puts the process in it.
LEMMA EnterInPhase ==
  ASSUME TypeOK, InPhase, NEW o \in Operator, NEW l, NEW p \in Phases,
         Goto(o, l), phase' = [phase EXCEPT ![o] = p]
  PROVE  InPhase'
  BY DEF TypeOK, InPhase, Goto

\* moveDisk stays in the phase that called it.
LEMMA TransferInPhase ==
  ASSUME TypeOK, InPhase, NEW o \in Operator, NEW f, NEW t, Transfer(o, f, t), 
         phase[o] \in Phases, UNCHANGED phase
  PROVE  InPhase'
  BY GotoInPhase, EndInPhase DEF Transfer

\* Run and Abort start in a phase, or end at once.
LEMMA ResolveInPhase ==
  ASSUME TypeOK, InPhase, NEW o \in Operator, Resolve(o) \/ PlanAbort(o)
  PROVE  InPhase'
  <1>1. mem[o].journal \in Phases \cup {"none"}
    BY RecordTypes DEF TypeOK
  <1>2. CASE Resolve(o)
    <2>1. PICK obs :
         \/ End(o, "failed") /\ UNCHANGED phase
         \/ /\ phase' = [phase EXCEPT ![o] = StartPhase(mem[o].journal, obs)]
            /\ Goto(o, "journal")
      BY <1>2 DEF Resolve
    <2>2. QED
      BY <1>1, <2>1, StartPhaseTypes, EnterInPhase, EndInPhase
  <1>3. CASE PlanAbort(o)
    <2>1. PICK p :
         \/ (End(o, "failed") \/ End(o, "refused")) /\ UNCHANGED phase
         \/ CanAbort(p) /\ phase' = [phase EXCEPT ![o] = p] /\ Goto(o, "undo")
      BY <1>3 DEF PlanAbort
    <2>2. QED
      BY <2>1, PhaseTypes, EnterInPhase, EndInPhase
  <1>4. QED
    BY <1>2, <1>3

\* No step of a command runs a phase that does not exist.
LEMMA StepInPhase ==
  ASSUME TypeOK, InPhase, NEW o \in Operator, Step(o)
  PROVE  InPhase'
  <1> USE AdvanceInPhase, RetreatInPhase, GotoInPhase, EndInPhase DEF Working, At
  <1>1. CASE Resolve(o)
    BY <1>1, ResolveInPhase
  <1>2. CASE PlanAbort(o)
    BY <1>2, ResolveInPhase
  <1>3. CASE Pause(o)
    BY <1>3 DEF InPhase, Pause
  <1>4. CASE Journal(o)
    BY <1>4 DEF InPhase, Journal
  <1>5. CASE PassThrough(o)
    BY <1>5 DEF InPhase, PassThrough
  <1>6. CASE Secure(o)
    BY <1>6 DEF InPhase, Secure
  <1>7. CASE StopOriginal(o)
    BY <1>7 DEF InPhase, StopOriginal
  <1>8. CASE BuildReplacement(o)
    BY <1>8 DEF InPhase, BuildReplacement
  <1>9. CASE CheckHandover(o)
    BY <1>9 DEF InPhase, CheckHandover
  <1>10. CASE HandOverDisk(o)
    BY <1>10, TransferInPhase DEF InPhase, CompensationFor, Phases, HandOverDisk
  <1>11. CASE RestoreDiskOptions(o)
    BY <1>11 DEF InPhase, RestoreDiskOptions
  <1>12. CASE AttachDisk(o)
    BY <1>12 DEF InPhase, AttachDisk
  <1>13. CASE RecordVolumeOwner(o)
    BY <1>13 DEF InPhase, RecordVolumeOwner, Continue
  <1>14. CASE GuardRetire(o)
    BY <1>14 DEF InPhase, GuardRetire
  <1>15. CASE RetireOriginal(o)
    BY <1>15 DEF InPhase, RetireOriginal
  <1>16. CASE RenameReplacement(o)
    BY <1>16 DEF InPhase, RenameReplacement
  <1>17. CASE RecordReplacement(o)
    BY <1>17 DEF InPhase, RecordReplacement
  <1>18. CASE StartReplacement(o)
    BY <1>18 DEF InPhase, StartReplacement
  <1>19. CASE Verify(o)
    BY <1>19 DEF InPhase, Verify
  <1>20. CASE NothingToUndo(o)
    BY <1>20 DEF InPhase, NothingToUndo
  <1>21. CASE ReturnDisk(o)
    BY <1>21, TransferInPhase DEF InPhase, CompensationFor, Phases, ReturnDisk
  <1>22. CASE DeleteReplacement(o)
    BY <1>22 DEF InPhase, DeleteReplacement
  <1>23. CASE StartOriginal(o)
    BY <1>23 DEF InPhase, StartOriginal
  <1>24. CASE ClearJournal(o)
    BY <1>24 DEF InPhase, ClearJournal
  <1>25. QED
    BY <1>1, <1>2, <1>3, <1>4, <1>5, <1>6, <1>7, <1>8, <1>9, <1>10, <1>11,
       <1>12, <1>13, <1>14, <1>15, <1>16, <1>17, <1>18, <1>19, <1>20, <1>21,
       <1>22, <1>23, <1>24 DEF Step

\* Nor does any other step of the system.
LEMMA NextInPhase ==
  ASSUME TypeOK, InPhase, [Next]_vars
  PROVE  InPhase'
  <1>1. ASSUME NEW o \in Operator, NEW c \in Commands, Start(o, c)
        PROVE  InPhase'
    BY <1>1, GotoInPhase DEF Start, Working
  <1>2. ASSUME NEW o \in Operator, Step(o)
        PROVE  InPhase'
    BY <1>2, StepInPhase
  <1>3. ASSUME NEW o \in Operator, Interrupt(o)
        PROVE  InPhase'
    BY <1>3, EndInPhase DEF Interrupt
  <1>4. ASSUME NEW o \in Operator, CrashInSave(o)
        PROVE  InPhase'
    BY <1>4, EndInPhase DEF CrashInSave
  <1>5. CASE UNCHANGED vars
    BY <1>5 DEF InPhase, vars
  <1>6. QED
    BY <1>1, <1>2, <1>3, <1>4, <1>5 DEF Next

\* The bloc before the first recycle is well typed.
LEMMA InitTypes == Init => TypeOK
  <1> SUFFICES ASSUME Init PROVE TypeOK OBVIOUS
  <1> USE RecycleAssumption DEF Init
  <1>1. name \in [VM -> {Absent, Final, Transient}] OBVIOUS
  <1>2. running \in [VM -> BOOLEAN] OBVIOUS
  <1>3. diskOn \in VM \cup {Nobody} /\ diskId \in VolumeIds BY DEF VolumeIds
  <1>4. diskSerial \in BOOLEAN /\ diskLost \in BOOLEAN OBVIOUS
  <1>5. file \in States BY <1>3 DEF States
  <1>6. pc \in [Operator -> Points] BY DEF Points
  <1>7. cmd \in [Operator -> Commands] BY DEF Commands
  <1>8. phase \in [Operator -> Phases \cup {"none"}] OBVIOUS
  <1>9. mem \in [Operator -> States] BY <1>5
  <1>10. move \in [Operator -> Moves] BY DEF Moves, NoMove, VolumeIds, NoVolume
  <1>11. outcome \in [Operator -> Outcomes] BY DEF Outcomes
  <1>12. interrupts \in Nat /\ refusals \in Nat /\ blinks \in Nat /\ losses \in Nat OBVIOUS
  <1>13. QED BY <1>1, <1>2, <1>3, <1>4, <1>5, <1>6, <1>7, <1>8, <1>9, <1>10,
     <1>11, <1>12 DEF TypeOK

\* Every value the recycle engine reaches is of its type, with any number of
\* operators, guests, failed listings, lost saves and both ways of moving a disk:
\* in particular the engine never runs a phase beyond the end of its order.
THEOREM Typing == Spec => []TypeOK
  <1>1. Init => TypeOK /\ InPhase
    BY InitTypes DEF Init, InPhase, Working
  <1>2. TypeOK /\ InPhase /\ [Next]_vars => TypeOK' /\ InPhase'
    BY NextTypes, NextInPhase
  <1>3. QED
    BY <1>1, <1>2, PTL DEF Spec

-----------------------------------------------------------------------------
(* The disk and the names. *)

\* Which guest holds the disk, by its name.
HeldByOriginal    == name[diskOn] = Final
HeldByReplacement == name[diskOn] = Transient

\* AdoptReplacement renames once the name is free; BuildReplacement keeps a
\* replacement it finds.
OneOriginal    == \A v, w \in Originals : v = w
OneReplacement == \A v, w \in Replacements : v = w

\* The disk exists, on a guest that exists, and is named after that guest.
ClusterOK ==
  /\ ~diskLost
  /\ diskOn \in VM /\ name[diskOn] # Absent /\ diskId.vm = diskOn
  /\ OneOriginal /\ OneReplacement

\* What holds of the cluster whenever phase p is about to be run, or is the
\* one the journal names.
PhaseReady(p) ==
  /\ p \in {"none", "planned", "quiesced", "secured", "provisioned", "verified"} =>
       HeldByOriginal /\ Replacements = {}
  /\ p = "built" => HeldByOriginal
  /\ p = "handed-over" => Originals # {}
  /\ p = "retired" => HeldByReplacement
  /\ p = "adopted" => \/ HeldByReplacement /\ Originals = {}
                      \/ HeldByOriginal /\ Replacements = {}

\* What the program point of a process says of the cluster and the journal.
PointOK(o) ==
  /\ pc[o] = "journal" => PhaseReady(phase[o]) /\ cmd[o] # "abort"
  /\ pc[o] \in {"act", "hand-over", "destroy", "adopt", "start"} =>
       phase[o] = file.journal /\ cmd[o] # "abort"
  /\ pc[o] = "hand-over" => phase[o] = "handed-over"
  /\ pc[o] = "destroy" => phase[o] = "retired"
  /\ pc[o] \in {"adopt", "start"} =>
       phase[o] = "adopted" /\ HeldByOriginal /\ Replacements = {}
  /\ pc[o] \in {"restore", "record"} =>
       /\ phase[o] = "handed-over" /\ file.journal = "handed-over"
       /\ cmd[o] = "abort" => HeldByOriginal
       /\ cmd[o] # "abort" => HeldByReplacement
  /\ pc[o] # "attach"
  /\ pc[o] = "undo" =>
       /\ CanAbort(phase[o]) /\ cmd[o] = "abort"
       /\ phase[o] = "handed-over" => file.journal = "handed-over"
       /\ phase[o] # "handed-over" => HeldByOriginal
       /\ phase[o] \notin {"built", "handed-over"} => Replacements = {}
  /\ pc[o] = "clear" => HeldByOriginal /\ Replacements = {}

\* Everything is where the program point and the journal say.
Tracked(o) ==
  /\ ClusterOK
  /\ mem[o] = file
  /\ PhaseReady(file.journal)
  /\ PointOK(o)

\* The inductive invariant.
IInv(o) == TypeOK /\ InPhase /\ Tracked(o)

\* The conditions of the theorems, but for the single operator.
Calm == MaxBlinks = 0 /\ MaxLosses = 0 /\ "detach" \notin Mechanisms

\* When listings are answered no step is blind.
LEMMA NoBlink ==
  ASSUME Calm, TypeOK, NEW blind, Blink(blind)
  PROVE  blind = "nothing"
  BY DEF Calm, TypeOK, Blink

\* A lookup that is answered finds a guest of the name, or there is none.
LEMMA Found ==
  ASSUME NEW n \in {Final, Transient}, NEW v \in FindByName(n, "nothing")
  PROVE  IF v = Nobody THEN Named(n) = {} ELSE v \in Named(n) /\ v \in VM
  BY RecycleAssumption DEF FindByName, Named, Final, Transient

\* A step that leaves names and disk alone leaves their facts alone.
LEMMA SameGuests ==
  ASSUME UNCHANGED <<name, diskOn, diskId, diskLost>>
  PROVE  /\ ClusterOK' <=> ClusterOK
         /\ HeldByOriginal' <=> HeldByOriginal
         /\ HeldByReplacement' <=> HeldByReplacement
         /\ Originals' = Originals /\ Replacements' = Replacements
  BY DEF ClusterOK, HeldByOriginal, HeldByReplacement, Originals, Replacements,
     Named, OneOriginal, OneReplacement

\* ... and what the journal promises of them.
LEMMA SameGuestsReady ==
  ASSUME UNCHANGED <<name, diskOn, diskId, diskLost>>, NEW p, PhaseReady(p)
  PROVE  PhaseReady(p)'
  BY SameGuests DEF PhaseReady

\* A command that has ended owes nothing.
LEMMA EndPoint ==
  ASSUME TypeOK, NEW op \in Operator, NEW how, End(op, how)
  PROVE  PointOK(op)'
  BY DEF TypeOK, End, Goto, PointOK

\* The next phase may be entered when the cluster is ready for it.
LEMMA AdvancePoint ==
  ASSUME TypeOK, NEW op \in Operator, Advance(op), UNCHANGED cmd, cmd[op] # "abort",
         phase[op] = "verified" => (HeldByOriginal /\ Replacements = {})',
         NEW p, p = NextPhase(phase[op]), phase[op] # "verified" => PhaseReady(p)'
  PROVE  PointOK(op)'
  <1>1. CASE phase[op] = "verified"
    BY <1>1 DEF TypeOK, Advance, Goto, PointOK
  <1>2. CASE phase[op] # "verified"
    <2>1. phase'[op] = p /\ pc'[op] = "journal"
      BY <1>2 DEF TypeOK, Advance, Goto
    <2>2. PhaseReady(phase[op])'
      BY <1>2, <2>1
    <2>3. cmd'[op] # "abort"
      OBVIOUS
    <2>4. QED
      BY <2>1, <2>2, <2>3 DEF PointOK
  <1>3. QED
    BY <1>1, <1>2

\* The compensation before may be entered once the disk is back.
LEMMA RetreatPoint ==
  ASSUME TypeOK, NEW op \in Operator, Retreat(op),
         UNCHANGED cmd, cmd[op] = "abort", CanAbort(phase[op]), HeldByOriginal',
         phase[op] # "handed-over" => Replacements' = {}
  PROVE  PointOK(op)'
  BY DEF TypeOK, Retreat, Goto, PointOK, PrevPhase, CanAbort

\* After a save the file and the process agree.
LEMMA SaveFile ==
  ASSUME TypeOK, NEW op \in Operator, NEW st, Save(op, st)
  PROVE  file' = st /\ mem'[op] = file'
  BY DEF TypeOK, Save

\* A save of the journal writes the phase given.
LEMMA SaveJournal ==
  ASSUME TypeOK, NEW op \in Operator, NEW p, Save(op, [mem[op] EXCEPT !.journal = p])
  PROVE  file'.journal = p /\ mem'[op] = file'
  <1>1. mem[op] \in States
    BY DEF TypeOK
  <1>2. QED
    BY <1>1, SaveFile DEF States

\* A save of the volume record leaves the journal.
LEMMA SaveVolume ==
  ASSUME TypeOK, NEW op \in Operator, NEW id, Save(op, [mem[op] EXCEPT !.vol = id])
  PROVE  file'.journal = mem[op].journal /\ mem'[op] = file'
  <1>1. mem[op] \in States
    BY DEF TypeOK
  <1>2. QED
    BY <1>1, SaveFile DEF States

\* A save of the bastion record leaves the journal.
LEMMA SaveBastion ==
  ASSUME TypeOK, NEW op \in Operator, NEW v, Save(op, [mem[op] EXCEPT !.bastion = v])
  PROVE  file'.journal = mem[op].journal /\ mem'[op] = file'
  <1>1. mem[op] \in States
    BY DEF TypeOK
  <1>2. QED
    BY <1>1, SaveFile DEF States

\* A cluster without a replacement is never observed with one.
LEMMA NoReplacementSeen ==
  ASSUME Replacements = {}, NEW st, NEW obs \in Observe(st, "nothing")
  PROVE  ~obs.replacement
  <1>1. PICK o \in FindByName(Final, "nothing"), r \in FindByName(Transient,
  "nothing") :
          obs = ObservationOf(st, o, r, "nothing")
    BY DEF Observe
  <1>2. r = Nobody
    BY DEF FindByName, Replacements
  <1>3. QED
    BY <1>1, <1>2 DEF ObservationOf

\* A step that leaves the guests and the file alone only has to answer for its
\* program point.
LEMMA QuietTracked ==
  ASSUME NEW op, Tracked(op), PointOK(op)', UNCHANGED <<file, mem>>,
         UNCHANGED <<name, diskOn, diskId, diskLost>>
  PROVE  Tracked(op)'
  <1>1. ClusterOK' /\ PhaseReady(file.journal)'
    BY SameGuests, SameGuestsReady DEF Tracked
  <1>2. QED
    BY <1>1 DEF Tracked

\* Pause keeps the disk, the journal and the program point in step.
LEMMA PauseTracked ==
  ASSUME Calm, NEW op, Operator = {op}, IInv(op), Pause(op)
  PROVE  Tracked(op)'
  <1>1. PointOK(op)'
    BY EndPoint DEF IInv, Pause
  <1>2. QED
    BY <1>1, QuietTracked DEF IInv, Pause, cluster

\* PassThrough keeps the disk, the journal and the program point in step.
LEMMA PassThroughTracked ==
  ASSUME Calm, NEW op, Operator = {op}, IInv(op), PassThrough(op)
  PROVE  Tracked(op)'
  <1> USE DEF IInv, PassThrough, cluster, At
  <1>1. UNCHANGED <<name, diskOn, diskId, diskLost>>
    OBVIOUS
  <1>2. PointOK(op)'
    BY <1>1, SameGuests, SameGuestsReady, AdvancePoint
    DEF Tracked, PointOK, PhaseReady, NextPhase
  <1>3. QED
    BY <1>1, <1>2, QuietTracked

\* Secure keeps the disk, the journal and the program point in step.
LEMMA SecureTracked ==
  ASSUME Calm, NEW op, Operator = {op}, IInv(op), Secure(op)
  PROVE  Tracked(op)'
  <1> USE DEF IInv, Secure, cluster, At
  <1>1. UNCHANGED <<name, diskOn, diskId, diskLost>>
    OBVIOUS
  <1>2. PointOK(op)'
    BY <1>1, SameGuests, SameGuestsReady, EndPoint, AdvancePoint
    DEF Tracked, PointOK, PhaseReady, NextPhase
  <1>3. QED
    BY <1>1, <1>2, QuietTracked

\* StopOriginal keeps the disk, the journal and the program point in step.
LEMMA StopOriginalTracked ==
  ASSUME Calm, NEW op, Operator = {op}, IInv(op), StopOriginal(op)
  PROVE  Tracked(op)'
  <1> USE DEF IInv, StopOriginal, cluster, At
  <1>1. UNCHANGED <<name, diskOn, diskId, diskLost>>
    OBVIOUS
  <1>2. PointOK(op)'
    BY <1>1, SameGuests, SameGuestsReady, EndPoint, AdvancePoint
    DEF Tracked, PointOK, PhaseReady, NextPhase
  <1>3. QED
    BY <1>1, <1>2, QuietTracked

\* StartReplacement keeps the disk, the journal and the program point in step.
LEMMA StartReplacementTracked ==
  ASSUME Calm, NEW op, Operator = {op}, IInv(op), StartReplacement(op)
  PROVE  Tracked(op)'
  <1> USE DEF IInv, StartReplacement, cluster, At
  <1>1. UNCHANGED <<name, diskOn, diskId, diskLost>>
    OBVIOUS
  <1>2. PointOK(op)'
    BY <1>1, SameGuests, SameGuestsReady, EndPoint, AdvancePoint
    DEF Tracked, PointOK, PhaseReady, NextPhase
  <1>3. QED
    BY <1>1, <1>2, QuietTracked

\* Verify keeps the disk, the journal and the program point in step.
LEMMA VerifyTracked ==
  ASSUME Calm, NEW op, Operator = {op}, IInv(op), Verify(op)
  PROVE  Tracked(op)'
  <1> USE DEF IInv, Verify, cluster, At
  <1>1. UNCHANGED <<name, diskOn, diskId, diskLost>>
    OBVIOUS
  <1>2. PointOK(op)'
    BY <1>1, SameGuests, SameGuestsReady, EndPoint, AdvancePoint
    DEF Tracked, PointOK, PhaseReady, NextPhase
  <1>3. QED
    BY <1>1, <1>2, QuietTracked

\* RestoreDiskOptions keeps the disk, the journal and the program point in step.
LEMMA RestoreDiskOptionsTracked ==
  ASSUME Calm, NEW op, Operator = {op}, IInv(op), RestoreDiskOptions(op)
  PROVE  Tracked(op)'
  <1> USE DEF IInv, RestoreDiskOptions, cluster, At
  <1>1. UNCHANGED <<name, diskOn, diskId, diskLost>>
    OBVIOUS
  <1>2. PointOK(op)'
    BY <1>1, SameGuests, EndPoint DEF Tracked, TypeOK, PointOK, Goto
  <1>3. QED
    BY <1>1, <1>2, QuietTracked

\* GuardRetire keeps the disk, the journal and the program point in step.
LEMMA GuardRetireTracked ==
  ASSUME Calm, NEW op, Operator = {op}, IInv(op), GuardRetire(op)
  PROVE  Tracked(op)'
  <1> USE DEF IInv, GuardRetire, cluster, At
  <1>1. UNCHANGED <<name, diskOn, diskId, diskLost>>
    OBVIOUS
  <1>2. PointOK(op)'
    BY <1>1, SameGuests, EndPoint DEF Tracked, TypeOK, PointOK, Goto
  <1>3. QED
    BY <1>1, <1>2, QuietTracked

\* NothingToUndo keeps the disk, the journal and the program point in step.
LEMMA NothingToUndoTracked ==
  ASSUME Calm, NEW op, Operator = {op}, IInv(op), NothingToUndo(op)
  PROVE  Tracked(op)'
  <1> USE DEF IInv, NothingToUndo, cluster, At
  <1>1. UNCHANGED <<name, diskOn, diskId, diskLost>>
    OBVIOUS
  <1>2. PointOK(op)'
    BY <1>1, SameGuests, RetreatPoint DEF Tracked, PointOK, CompensationFor
  <1>3. QED
    BY <1>1, <1>2, QuietTracked

\* StartOriginal keeps the disk, the journal and the program point in step.
LEMMA StartOriginalTracked ==
  ASSUME Calm, NEW op, Operator = {op}, IInv(op), StartOriginal(op)
  PROVE  Tracked(op)'
  <1> USE DEF IInv, StartOriginal, cluster, At
  <1>1. UNCHANGED <<name, diskOn, diskId, diskLost>>
    OBVIOUS
  <1>2. PointOK(op)'
    BY <1>1, SameGuests, EndPoint, RetreatPoint DEF Tracked, PointOK, CompensationFor
  <1>3. QED
    BY <1>1, <1>2, QuietTracked

\* Journal keeps the disk, the journal and the program point in step.
LEMMA JournalTracked ==
  ASSUME Calm, NEW op, Operator = {op}, IInv(op), Journal(op)
  PROVE  Tracked(op)'
  <1> USE DEF Journal, cluster, At
  <1>1. file'.journal = phase[op] /\ mem'[op] = file'
    BY SaveJournal DEF IInv
  <1>2. ClusterOK' /\ PhaseReady(file.journal)'
    BY <1>1, SameGuests, SameGuestsReady DEF IInv, Tracked, PointOK
  <1>3. PointOK(op)'
    BY <1>1 DEF IInv, Tracked, TypeOK, PointOK, Goto
  <1>4. QED
    BY <1>1, <1>2, <1>3 DEF Tracked

\* RecordReplacement keeps the disk, the journal and the program point in step.
LEMMA RecordReplacementTracked ==
  ASSUME Calm, NEW op, Operator = {op}, IInv(op), RecordReplacement(op)
  PROVE  Tracked(op)'
  <1> USE DEF RecordReplacement, cluster, At
  <1>1. file'.journal = file.journal /\ mem'[op] = file'
    BY SaveBastion DEF IInv, Tracked
  <1>2. ClusterOK' /\ PhaseReady(file.journal)'
    BY <1>1, SameGuests, SameGuestsReady DEF IInv, Tracked
  <1>3. PointOK(op)'
    BY <1>1, SameGuests DEF IInv, Tracked, TypeOK, PointOK, Goto
  <1>4. QED
    BY <1>1, <1>2, <1>3 DEF Tracked

\* ClearJournal keeps the disk, the journal and the program point in step.
LEMMA ClearJournalTracked ==
  ASSUME Calm, NEW op, Operator = {op}, IInv(op), ClearJournal(op)
  PROVE  Tracked(op)'
  <1> USE DEF ClearJournal, cluster, At
  <1>1. mem'[op] = file' /\ file'.journal \in {file.journal, "none"}
    BY SaveJournal DEF IInv, Tracked
  <1>2. ClusterOK' /\ PhaseReady(file.journal)'
    BY <1>1, SameGuests, SameGuestsReady DEF IInv, Tracked, PointOK, PhaseReady
  <1>3. PointOK(op)'
    BY EndPoint DEF IInv
  <1>4. QED
    BY <1>1, <1>2, <1>3 DEF Tracked

\* RecordVolumeOwner keeps the disk, the journal and the program point in step.
LEMMA RecordVolumeOwnerTracked ==
  ASSUME Calm, NEW op, Operator = {op}, IInv(op), RecordVolumeOwner(op)
  PROVE  Tracked(op)'
  <1> USE DEF RecordVolumeOwner, cluster, At
  <1>1. PICK id : IF mem[op].vol = NoVolume THEN UNCHANGED <<mem, file>>
                  ELSE Save(op, [mem[op] EXCEPT !.vol = id])
    OBVIOUS
  <1>2. file'.journal = file.journal /\ mem'[op] = file'
    BY <1>1, SaveVolume DEF IInv, Tracked
  <1>3. ClusterOK' /\ PhaseReady(file.journal)'
    BY <1>2, SameGuests, SameGuestsReady DEF IInv, Tracked
  <1>4. PointOK(op)'
    BY SameGuests, SameGuestsReady, AdvancePoint, RetreatPoint
    DEF IInv, Tracked, PointOK, PhaseReady, CanAbort, NextPhase, Continue
  <1>5. QED
    BY <1>2, <1>3, <1>4 DEF Tracked

\* Resolve keeps the disk, the journal and the program point in step.
LEMMA ResolveTracked ==
  ASSUME Calm, NEW op, Operator = {op}, IInv(op), Resolve(op)
  PROVE  Tracked(op)'
  <1> USE DEF Resolve, cluster, At
  <1>1. UNCHANGED <<name, diskOn, diskId, diskLost>> /\ UNCHANGED <<file, mem>>
    OBVIOUS
  <1>2. PointOK(op)' => Tracked(op)'
    BY <1>1, QuietTracked DEF IInv
  <1>3. PICK obs \in Observe(mem[op], "nothing") :
          \/ End(op, "failed")
          \/ /\ phase' = [phase EXCEPT ![op] = StartPhase(mem[op].journal, obs)]
             /\ Goto(op, "journal")
    BY NoBlink DEF IInv
  <1>4. CASE End(op, "failed")
    BY <1>2, <1>4, EndPoint DEF IInv, Tracked
  <1>5. CASE phase' = [phase EXCEPT ![op] = StartPhase(mem[op].journal,
  obs)] /\ Goto(op, "journal")
    <2>1. Replacements = {} => ~obs.replacement
      BY NoReplacementSeen
    <2>2. PhaseReady(StartPhase(mem[op].journal, obs))
      BY <2>1 DEF IInv, Tracked, PhaseReady, StartPhase
    <2>3. pc'[op] = "journal" /\ phase'[op] = StartPhase(mem[op].journal, obs)
      BY <1>5 DEF IInv, TypeOK, Goto
    <2>4. PhaseReady(phase[op])'
      BY <1>1, <2>2, <2>3, SameGuestsReady
    <2>5. PointOK(op)'
      BY <2>3, <2>4 DEF PointOK
    <2>6. QED
      BY <1>2, <2>5
  <1>6. QED
    BY <1>3, <1>4, <1>5

\* PlanAbort keeps the disk, the journal and the program point in step.
LEMMA PlanAbortTracked ==
  ASSUME Calm, NEW op, Operator = {op}, IInv(op), PlanAbort(op)
  PROVE  Tracked(op)'
  <1> USE DEF PlanAbort, cluster, At
  <1>1. UNCHANGED <<name, diskOn, diskId, diskLost>> /\ UNCHANGED <<file, mem>>
    OBVIOUS
  <1>2. PointOK(op)' => Tracked(op)'
    BY <1>1, QuietTracked DEF IInv
  <1>3. PICK obs, p :
          /\ obs \in Observe(mem[op], "nothing")
          /\ p = IF mem[op].journal # "none" THEN mem[op].journal ELSE ReconstructPhase(obs)
          /\ \/ End(op, "failed") \/ End(op, "refused")
             \/ CanAbort(p) /\ phase' = [phase EXCEPT ![op] = p] /\ Goto(op, "undo")
    BY NoBlink DEF IInv
  <1>4. CASE End(op, "failed") \/ End(op, "refused")
    BY <1>2, <1>4, EndPoint DEF IInv, Tracked
  <1>5. CASE CanAbort(p) /\ phase' = [phase EXCEPT ![op] = p] /\ Goto(op, "undo")
    <2>1. Replacements = {} => ~obs.replacement
      BY <1>3, NoReplacementSeen
    <2>2. \/ p = file.journal
          \/ p = "secured" /\ HeldByOriginal /\ Replacements = {}
      BY <1>3, <1>5, <2>1 DEF IInv, Tracked, PhaseReady, ReconstructPhase, CanAbort
    <2>3. pc'[op] = "undo" /\ phase'[op] = p /\ cmd'[op] = "abort"
      BY <1>5 DEF IInv, TypeOK, Goto
    <2>4. /\ p = "handed-over" => file.journal = "handed-over"
          /\ p # "handed-over" => HeldByOriginal
          /\ p \notin {"built", "handed-over"} => Replacements = {}
      BY <1>5, <2>2 DEF IInv, Tracked, PhaseReady, CanAbort
    <2>5. PointOK(op)'
      BY <1>1, <1>5, <2>3, <2>4, SameGuests DEF PointOK, CanAbort
    <2>6. QED
      BY <1>2, <2>5
  <1>6. QED
    BY <1>3, <1>4, <1>5

\* CheckHandover keeps the disk, the journal and the program point in step.
LEMMA CheckHandoverTracked ==
  ASSUME Calm, NEW op, Operator = {op}, IInv(op), CheckHandover(op)
  PROVE  Tracked(op)'
  <1> USE DEF CheckHandover, cluster, At
  <1>1. UNCHANGED <<name, diskOn, diskId, diskLost>> /\ UNCHANGED <<file, mem>>
    OBVIOUS
  <1>2. PointOK(op)' => Tracked(op)'
    BY <1>1, QuietTracked DEF IInv
  <1>3. PICK to \in FindByName(Transient, "nothing") :
          \/ OwnsDisk(mem[op], to, "nothing") /\ Goto(op, "record")
          \/ Goto(op, "hand-over")
    BY NoBlink DEF IInv
  <1>4. CASE OwnsDisk(mem[op], to, "nothing") /\ Goto(op, "record")
    <2>1. HeldByReplacement
      BY <1>4 DEF IInv, Tracked, ClusterOK, OwnsDisk, FindByName, Named,
         HeldByReplacement, Transient
    <2>2. pc'[op] = "record"
      BY <1>4 DEF IInv, TypeOK, Goto
    <2>3. PointOK(op)'
      BY <1>1, <2>1, <2>2, SameGuests DEF IInv, Tracked, PointOK
    <2>4. QED
      BY <1>2, <2>3
  <1>5. CASE Goto(op, "hand-over")
    <2>1. pc'[op] = "hand-over"
      BY <1>5 DEF IInv, TypeOK, Goto
    <2>2. PointOK(op)'
      BY <1>1, <2>1 DEF IInv, Tracked, PointOK
    <2>3. QED
      BY <1>2, <2>2
  <1>6. QED
    BY <1>3, <1>4, <1>5

\* BuildReplacement keeps the disk, the journal and the program point in step.
LEMMA BuildReplacementTracked ==
  ASSUME Calm, NEW op, Operator = {op}, IInv(op), BuildReplacement(op)
  PROVE  Tracked(op)'
  <1> USE DEF BuildReplacement, At
  <1>1. /\ phase[op] = "built" /\ file.journal = "built" /\ cmd[op] # "abort"
        /\ HeldByOriginal /\ UNCHANGED <<file, mem, cmd>> /\ mem[op] = file
    BY DEF IInv, Tracked, PointOK, PhaseReady
  <1>2. \/ UNCHANGED name /\ (Advance(op) \/ End(op, "failed"))
        \/ Replacements = {} /\ (\E v \in Named(Absent) : CreateStopped(v)) /\ Advance(op)
    <2>1. PICK blind :
            \/ UNCHANGED name /\ (Advance(op) \/ End(op, "failed"))
            \/ /\ blind = "nothing" /\ FindByName(Transient, blind) = {Nobody}
               /\ \E v \in Named(Absent) : CreateStopped(v)
               /\ Advance(op)
      BY NoBlink DEF IInv
    <2>2. FindByName(Transient, "nothing") = {Nobody} => Replacements = {}
      BY Found DEF Replacements
    <2>3. QED
      BY <2>1, <2>2
  <1>3. ClusterOK' /\ HeldByOriginal'
    <2>1. CASE UNCHANGED name
      BY <1>1, <2>1, SameGuests DEF IInv, Tracked
    <2>2. CASE Replacements = {} /\ \E v \in Named(Absent) : CreateStopped(v)
      <3>1. PICK v \in Named(Absent) : CreateStopped(v)
        BY <2>2
      <3>2. v # diskOn /\ Originals' = Originals /\ Replacements' = {v}
        BY <1>1, <2>2, <3>1 DEF IInv, TypeOK, HeldByOriginal, Originals,
           Replacements, Named, CreateStopped, Absent, Final, Transient
      <3>3. QED
        BY <1>1, <3>1, <3>2 DEF IInv, TypeOK, Tracked, ClusterOK,
           HeldByOriginal, OneOriginal, OneReplacement, CreateStopped,
           Absent, Final, Transient
    <2>3. QED
      BY <1>2, <2>1, <2>2
  <1>4. mem'[op] = file' /\ PhaseReady(file.journal)'
    BY <1>1, <1>3 DEF PhaseReady
  <1>5. Originals' # {}
    BY <1>3 DEF ClusterOK, HeldByOriginal, Originals, Named
  <1>6. PointOK(op)'
    BY <1>1, <1>2, <1>5, AdvancePoint, EndPoint DEF IInv, NextPhase, PhaseReady
  <1>7. QED
    BY <1>3, <1>4, <1>6 DEF Tracked

\* A guest that does not hold the disk is deleted: the disk stays where it is.
LEMMA DeleteOther ==
  ASSUME TypeOK, ClusterOK, NEW v \in VM, v # diskOn, DeleteInstance(v)
  PROVE  /\ ClusterOK'
         /\ HeldByOriginal' <=> HeldByOriginal
         /\ HeldByReplacement' <=> HeldByReplacement
         /\ Originals' = Originals \ {v}
         /\ Replacements' = Replacements \ {v}
  <1> USE DEF DeleteInstance, TypeOK
  <1>1. Originals' = Originals \ {v} /\ Replacements' = Replacements \ {v}
    BY DEF Originals, Replacements, Named, Absent, Final, Transient
  <1>2. name'[diskOn'] = name[diskOn] /\ diskOn' = diskOn /\ ~diskLost' /\ diskId' = diskId
    BY DEF ClusterOK
  <1>3. QED
    BY <1>1, <1>2 DEF ClusterOK, HeldByOriginal, HeldByReplacement,
       OneOriginal, OneReplacement

\* RetireOriginal keeps the disk, the journal and the program point in step.
LEMMA RetireOriginalTracked ==
  ASSUME Calm, NEW op, Operator = {op}, IInv(op), RetireOriginal(op)
  PROVE  Tracked(op)'
  <1> USE DEF RetireOriginal, At
  <1>1. /\ phase[op] = "retired" /\ file.journal = "retired" /\ cmd[op] # "abort"
        /\ HeldByReplacement /\ UNCHANGED <<file, mem, cmd>> /\ mem[op] = file
    BY DEF IInv, Tracked, PointOK, PhaseReady
  <1>2. PICK v \in FindByName(Final, "nothing") :
          IF v = Nobody THEN UNCHANGED cluster ELSE DeleteInstance(v)
    BY NoBlink DEF IInv
  <1>3. ClusterOK' /\ HeldByReplacement' /\ Originals' = {}
    <2>1. CASE v = Nobody
      BY <1>1, <1>2, <2>1, SameGuests, Found DEF IInv, Tracked, Originals, cluster
    <2>2. CASE v # Nobody
      <3>1. v \in Originals /\ v # diskOn /\ v \in VM
        BY <1>1, <2>2 DEF FindByName, Originals, Named, HeldByReplacement,
           Final, Transient
      <3>2. QED
        BY <1>1, <1>2, <2>2, <3>1, DeleteOther DEF IInv, Tracked, ClusterOK,
           OneOriginal
    <2>3. QED
      BY <2>1, <2>2
  <1>4. mem'[op] = file' /\ PhaseReady(file.journal)'
    BY <1>1, <1>3 DEF PhaseReady
  <1>5. PointOK(op)'
    BY <1>1, <1>3, AdvancePoint DEF IInv, NextPhase, PhaseReady
  <1>6. QED
    BY <1>3, <1>4, <1>5 DEF Tracked

\* DeleteReplacement keeps the disk, the journal and the program point in step.
LEMMA DeleteReplacementTracked ==
  ASSUME Calm, NEW op, Operator = {op}, IInv(op), DeleteReplacement(op)
  PROVE  Tracked(op)'
  <1> USE DEF DeleteReplacement, At
  <1>1. /\ phase[op] = "built" /\ cmd[op] = "abort"
        /\ HeldByOriginal /\ UNCHANGED <<file, mem, cmd>> /\ mem[op] = file
    BY DEF IInv, Tracked, PointOK, CompensationFor
  <1>2. PICK v \in FindByName(Transient, "nothing") :
          IF v = Nobody THEN UNCHANGED cluster ELSE DeleteInstance(v)
    BY NoBlink DEF IInv
  <1>3. ClusterOK' /\ HeldByOriginal' /\ Replacements' = {}
    <2>1. CASE v = Nobody
      BY <1>1, <1>2, <2>1, SameGuests, Found DEF IInv, Tracked, Replacements, cluster
    <2>2. CASE v # Nobody
      <3>1. v \in Replacements /\ v # diskOn /\ v \in VM
        BY <1>1, <2>2 DEF FindByName, Replacements, Named, HeldByOriginal,
           Final, Transient
      <3>2. QED
        BY <1>1, <1>2, <2>2, <3>1, DeleteOther DEF IInv, Tracked, ClusterOK,
           OneReplacement
    <2>3. QED
      BY <2>1, <2>2
  <1>4. file.journal # "retired"
    BY <1>1 DEF IInv, Tracked, PhaseReady, HeldByOriginal, HeldByReplacement,
       Final, Transient
  <1>5. Originals' # {}
    BY <1>3 DEF ClusterOK, HeldByOriginal, Originals, Named
  <1>6. mem'[op] = file' /\ PhaseReady(file.journal)'
    BY <1>1, <1>3, <1>4, <1>5 DEF PhaseReady
  <1>7. PointOK(op)'
    BY <1>1, <1>3, RetreatPoint DEF IInv, CanAbort
  <1>8. QED
    BY <1>3, <1>6, <1>7 DEF Tracked

\* RenameReplacement keeps the disk, the journal and the program point in step.
LEMMA RenameReplacementTracked ==
  ASSUME Calm, NEW op, Operator = {op}, IInv(op), RenameReplacement(op)
  PROVE  Tracked(op)'
  <1> USE DEF RenameReplacement, At
  <1>1. /\ phase[op] = "adopted" /\ file.journal = "adopted" /\ cmd[op] # "abort"
        /\ UNCHANGED <<file, mem, cmd>> /\ mem[op] = file
        /\ \/ HeldByReplacement /\ Originals = {}
           \/ HeldByOriginal /\ Replacements = {}
    BY DEF IInv, Tracked, PointOK, PhaseReady
  <1>2. PICK v \in FindByName(Transient, "nothing") :
          IF v = Nobody THEN Advance(op) /\ UNCHANGED name
          ELSE /\ name' = [name EXCEPT ![v] = Final]
               /\ Goto(op, "adopt") /\ UNCHANGED phase
    BY NoBlink DEF IInv
  <1>3. CASE v = Nobody
    <2>1. Replacements = {}
      BY <1>3, Found DEF Replacements
    <2>2. HeldByOriginal
      BY <1>1, <2>1 DEF IInv, Tracked, ClusterOK, HeldByReplacement,
         Replacements, Named
    <2>3. ClusterOK' /\ HeldByOriginal' /\ Replacements' = {}
      BY <1>2, <1>3, <2>1, <2>2, SameGuests DEF IInv, Tracked
    <2>4. PointOK(op)'
      BY <1>1, <1>2, <1>3, <2>3, AdvancePoint DEF IInv, NextPhase, PhaseReady
    <2>5. QED
      BY <1>1, <2>3, <2>4 DEF Tracked, PhaseReady
  <1>4. CASE v # Nobody
    <2>1. v \in Replacements /\ v \in VM /\ HeldByReplacement /\ Originals = {}
      BY <1>1, <1>4 DEF FindByName, Replacements, Named
    <2>2. diskOn = v
      BY <2>1 DEF IInv, Tracked, ClusterOK, OneReplacement, HeldByReplacement,
         Replacements, Named
    <2>3. Originals' = {v} /\ Replacements' = {} /\ HeldByOriginal' /\ diskOn' = diskOn
      BY <1>2, <1>4, <2>1, <2>2 DEF IInv, TypeOK, Tracked, ClusterOK,
         OneReplacement, HeldByOriginal, Originals, Replacements, Named, Final,
         Transient
    <2>4. ClusterOK'
      BY <2>2, <2>3 DEF IInv, Tracked, ClusterOK, OneOriginal,
         OneReplacement, HeldByOriginal, Absent, Final
    <2>5. PointOK(op)'
      BY <1>1, <1>2, <1>4, <2>3 DEF IInv, TypeOK, Goto, PointOK
    <2>6. QED
      BY <1>1, <2>3, <2>4, <2>5 DEF Tracked, PhaseReady
  <1>5. QED
    BY <1>3, <1>4

\* With reassignment only, a transfer either fails with nothing changed, or
\* carries the disk from a guest of the one name to a guest of the other.
LEMMA TransferMoves ==
  ASSUME Calm, NEW op \in Operator, TypeOK, ClusterOK,
         NEW f \in {Final, Transient}, NEW t \in {Final, Transient},
         Transfer(op, f, t), UNCHANGED <<name, diskLost>>
  PROVE  \/ End(op, "failed") /\ UNCHANGED <<diskOn, diskId>>
         \/ /\ Goto(op, "restore")
            /\ name[diskOn] = f /\ name[diskOn'] = t
            /\ diskOn' \in VM /\ diskId'.vm = diskOn'
  <1>1. PICK from, to, mv :
          /\ from \in FindByName(f, "nothing") /\ to \in FindByName(t, "nothing")
          /\ mv.from = from /\ mv.to = to
          /\ \/ /\ from # Nobody /\ to # Nobody /\ Reassignable(mv)
                /\ MoveDisk(mv) /\ Goto(op, "restore")
             \/ End(op, "failed") /\ UNCHANGED <<diskOn, diskId>>
    <2>1. PICK blind : \E from \in FindByName(f, blind), to \in FindByName(t, blind) :
             LET mv == [from |-> from, to |-> to, serial |-> diskSerial,
                        vol |-> VolumeToMove(mem[op], from, blind)]
             IN  /\ Blink(blind)
                 /\ \/ /\ from # Nobody /\ to # Nobody /\ Reassignable(mv)
                       /\ MoveDisk(mv) /\ Goto(op, "restore")
                    \/ End(op, "failed") /\ UNCHANGED <<diskOn, diskId>>
      BY DEF Calm, Transfer
    <2>2. blind = "nothing"
      BY <2>1, NoBlink
    <2>3. QED
      BY <2>1, <2>2
  <1>2. CASE from # Nobody /\ to # Nobody /\ Reassignable(mv)
             /\ MoveDisk(mv) /\ Goto(op, "restore")
    <2>1. from \in Named(f) /\ to \in Named(t) /\ to \in VM
      BY <1>1, <1>2, Found
    <2>2. diskOn = from /\ diskOn' = to /\ diskId'.vm = to
      BY <1>1, <1>2 DEF Reassignable, MoveDisk
    <2>3. QED
      BY <1>2, <2>1, <2>2 DEF Named
  <1>3. QED
    BY <1>1, <1>2

\* HandOverDisk keeps the disk, the journal and the program point in step.
LEMMA HandOverDiskTracked ==
  ASSUME Calm, NEW op, Operator = {op}, IInv(op), HandOverDisk(op)
  PROVE  Tracked(op)'
  <1> USE DEF HandOverDisk, At
  <1>1. /\ phase[op] = "handed-over" /\ file.journal = "handed-over" /\ cmd[op] # "abort"
        /\ UNCHANGED <<name, diskLost, file, mem, cmd, phase>> /\ mem[op] = file
    BY DEF IInv, Tracked, PointOK
  <1>2. CASE End(op, "failed") /\ UNCHANGED <<diskOn, diskId>>
    BY <1>1, <1>2, SameGuests, SameGuestsReady, EndPoint DEF IInv, Tracked
  <1>3. CASE /\ Goto(op, "restore")
             /\ name[diskOn] = Final /\ name[diskOn'] = Transient
             /\ diskOn' \in VM /\ diskId'.vm = diskOn'
    <2>1. ClusterOK' /\ HeldByReplacement'
      BY <1>1, <1>3 DEF IInv, Tracked, ClusterOK, HeldByReplacement, OneOriginal,
         OneReplacement, Originals, Replacements, Named, Absent, Transient
    <2>2. PointOK(op)'
      BY <1>1, <1>3, <2>1 DEF IInv, TypeOK, Goto, PointOK
    <2>3. Originals' # {}
      BY <1>1, <1>3 DEF IInv, Tracked, ClusterOK, Originals, Named
    <2>4. QED
      BY <1>1, <2>1, <2>2, <2>3 DEF Tracked, PhaseReady
  <1>4. QED
    BY <1>1, <1>2, <1>3, TransferMoves DEF IInv, Tracked

\* ReturnDisk keeps the disk, the journal and the program point in step.
LEMMA ReturnDiskTracked ==
  ASSUME Calm, NEW op, Operator = {op}, IInv(op), ReturnDisk(op)
  PROVE  Tracked(op)'
  <1> USE DEF ReturnDisk, At
  <1>1. /\ phase[op] = "handed-over" /\ file.journal = "handed-over" /\ cmd[op] = "abort"
        /\ UNCHANGED <<name, diskLost, file, mem, cmd, phase>> /\ mem[op] = file
    BY DEF IInv, Tracked, PointOK, CompensationFor
  <1>2. CASE End(op, "failed") /\ UNCHANGED <<diskOn, diskId>>
    BY <1>1, <1>2, SameGuests, SameGuestsReady, EndPoint DEF IInv, Tracked
  <1>3. CASE /\ Goto(op, "restore")
             /\ name[diskOn] = Transient /\ name[diskOn'] = Final
             /\ diskOn' \in VM /\ diskId'.vm = diskOn'
    <2>1. ClusterOK' /\ HeldByOriginal'
      BY <1>1, <1>3 DEF IInv, Tracked, ClusterOK, HeldByOriginal, OneOriginal,
         OneReplacement, Originals, Replacements, Named, Absent, Final
    <2>2. PointOK(op)'
      BY <1>1, <1>3, <2>1 DEF IInv, TypeOK, Goto, PointOK
    <2>3. Originals' # {}
      BY <2>1 DEF ClusterOK, HeldByOriginal, Originals, Named
    <2>4. QED
      BY <1>1, <2>1, <2>2, <2>3 DEF Tracked, PhaseReady
  <1>4. QED
    BY <1>1, <1>2, <1>3, TransferMoves DEF IInv, Tracked

\* Every step of a command keeps everything tracked.
LEMMA StepTracked ==
  ASSUME Calm, NEW op, Operator = {op}, IInv(op), Step(op)
  PROVE  Tracked(op)'
  <1>1. CASE Resolve(op)
    BY <1>1, ResolveTracked
  <1>2. CASE PlanAbort(op)
    BY <1>2, PlanAbortTracked
  <1>3. CASE Pause(op)
    BY <1>3, PauseTracked
  <1>4. CASE Journal(op)
    BY <1>4, JournalTracked
  <1>5. CASE PassThrough(op)
    BY <1>5, PassThroughTracked
  <1>6. CASE Secure(op)
    BY <1>6, SecureTracked
  <1>7. CASE StopOriginal(op)
    BY <1>7, StopOriginalTracked
  <1>8. CASE BuildReplacement(op)
    BY <1>8, BuildReplacementTracked
  <1>9. CASE CheckHandover(op)
    BY <1>9, CheckHandoverTracked
  <1>10. CASE HandOverDisk(op)
    BY <1>10, HandOverDiskTracked
  <1>11. CASE RestoreDiskOptions(op)
    BY <1>11, RestoreDiskOptionsTracked
  <1>12. CASE AttachDisk(op)
    BY <1>12 DEF AttachDisk, At, IInv, Tracked, PointOK
  <1>13. CASE RecordVolumeOwner(op)
    BY <1>13, RecordVolumeOwnerTracked
  <1>14. CASE GuardRetire(op)
    BY <1>14, GuardRetireTracked
  <1>15. CASE RetireOriginal(op)
    BY <1>15, RetireOriginalTracked
  <1>16. CASE RenameReplacement(op)
    BY <1>16, RenameReplacementTracked
  <1>17. CASE RecordReplacement(op)
    BY <1>17, RecordReplacementTracked
  <1>18. CASE StartReplacement(op)
    BY <1>18, StartReplacementTracked
  <1>19. CASE Verify(op)
    BY <1>19, VerifyTracked
  <1>20. CASE NothingToUndo(op)
    BY <1>20, NothingToUndoTracked
  <1>21. CASE ReturnDisk(op)
    BY <1>21, ReturnDiskTracked
  <1>22. CASE DeleteReplacement(op)
    BY <1>22, DeleteReplacementTracked
  <1>23. CASE StartOriginal(op)
    BY <1>23, StartOriginalTracked
  <1>24. CASE ClearJournal(op)
    BY <1>24, ClearJournalTracked
  <1>25. QED
    BY <1>1, <1>2, <1>3, <1>4, <1>5, <1>6, <1>7, <1>8, <1>9, <1>10, <1>11,
       <1>12, <1>13, <1>14, <1>15, <1>16, <1>17, <1>18, <1>19, <1>20, <1>21,
       <1>22, <1>23, <1>24 DEF Step

\* The invariant is inductive, across interruptions and re-runs too.
LEMMA NextTracked ==
  ASSUME Calm, NEW op, Operator = {op}, IInv(op), [Next]_vars
  PROVE  IInv(op)'
  <1>1. CASE Step(op)
    BY <1>1, StepTracked, NextTypes, NextInPhase DEF IInv
  <1>2. ASSUME NEW c \in Commands, Start(op, c)
        PROVE  Tracked(op)'
    <2>1. /\ UNCHANGED <<name, diskOn, diskId, diskLost>> /\ UNCHANGED file
          /\ mem'[op] = file /\ pc'[op] = "resolve"
      BY <1>2 DEF IInv, TypeOK, Start, cluster, Goto
    <2>2. ClusterOK' /\ PhaseReady(file.journal)'
      BY <2>1, SameGuests, SameGuestsReady DEF IInv, Tracked
    <2>3. QED
      BY <2>1, <2>2 DEF Tracked, PointOK
  <1>3. ASSUME Interrupt(op)
        PROVE  Tracked(op)'
    BY <1>3, EndPoint, QuietTracked DEF IInv, Interrupt, cluster
  <1>4. ~CrashInSave(op)
    BY DEF CrashInSave, Calm, IInv, TypeOK
  <1>5. CASE UNCHANGED vars
    <2>1. /\ UNCHANGED <<name, diskOn, diskId, diskLost>>
          /\ UNCHANGED <<file, mem, pc, phase, cmd>>
      BY <1>5 DEF vars, cluster
    <2>2. ClusterOK' /\ mem'[op] = file' /\ PhaseReady(file.journal)'
      BY <2>1, SameGuests, SameGuestsReady DEF IInv, Tracked
    <2>3. PointOK(op)'
      BY <2>1, SameGuests, SameGuestsReady DEF IInv, Tracked, PointOK, PhaseReady
    <2>4. QED
      BY <2>2, <2>3, NextTypes, NextInPhase DEF IInv, Tracked
  <1>6. QED
    BY <1>1, <1>2, <1>3, <1>4, <1>5, NextTypes, NextInPhase DEF Next, IInv

\* The bloc before the first recycle satisfies the invariant.
LEMMA InitTracked ==
  ASSUME NEW op, Operator = {op}, Init
  PROVE  IInv(op)
  <1>1. TypeOK /\ InPhase
    BY InitTypes DEF Init, InPhase, Working
  <1>2. ClusterOK /\ HeldByOriginal /\ Replacements = {}
    BY RecycleAssumption DEF Init, ClusterOK, HeldByOriginal, Originals, Replacements,
       Named, OneOriginal, OneReplacement, Absent, Final, Transient
  <1>3. QED
    BY <1>1, <1>2 DEF Init, IInv, Tracked, PhaseReady, PointOK

\* The data disk survives every recycle and abort, however often they are
\* interrupted and re-run, for any number of guest ids: RetireOriginal and
\* DeleteReplacement, which purge a guest with its disks, never purge the holder.
THEOREM DiskSafe ==
  ASSUME Calm, NEW op, Operator = {op}
  PROVE  Spec => []DataDiskSurvives
  <1>1. Init => IInv(op)
    BY InitTracked
  <1>2. IInv(op) /\ [Next]_vars => IInv(op)'
    BY NextTracked
  <1>3. IInv(op) => DataDiskSurvives
    BY DEF IInv, Tracked, ClusterOK, DataDiskSurvives
  <1>4. QED
    BY <1>1, <1>2, <1>3, PTL DEF Spec

\* No two guests ever carry the bastion's final name: AdoptReplacement renames
\* only once RetireOriginal has freed it, whatever was interrupted in between.
THEOREM OneName ==
  ASSUME Calm, NEW op, Operator = {op}
  PROVE  Spec => []OneBastionName
  <1>1. Init => IInv(op)
    BY InitTracked
  <1>2. IInv(op) /\ [Next]_vars => IInv(op)'
    BY NextTracked
  <1>3. IInv(op) => OneBastionName
    BY DEF IInv, Tracked, ClusterOK, OneOriginal, OneBastionName
  <1>4. QED
    BY <1>1, <1>2, <1>3, PTL DEF Spec

\* A step that makes a guest of the final name go away leaves the disk on another.
LEMMA DeletesNoHolder ==
  ASSUME Calm, NEW op, Operator = {op}, IInv(op), [Next]_vars,
         NEW v \in VM, name[v] = Final, name'[v] = Absent
  PROVE  diskOn \in VM \ {v}
  <1>1. CASE RetireOriginal(op)
    <2>1. HeldByReplacement
      BY <1>1 DEF RetireOriginal, At, IInv, Tracked, PointOK, PhaseReady
    <2>2. QED
      BY <2>1 DEF IInv, Tracked, ClusterOK, HeldByReplacement, Final, Transient
  <1>2. ~DeleteReplacement(op)
    <2>1. SUFFICES ASSUME DeleteReplacement(op) PROVE FALSE
      OBVIOUS
    <2>2. PICK u \in FindByName(Transient, "nothing") :
            IF u = Nobody THEN UNCHANGED cluster ELSE DeleteInstance(u)
      BY <2>1, NoBlink DEF DeleteReplacement, IInv
    <2>3. name'[v] = name[v]
      BY <2>2, Found DEF cluster, DeleteInstance, Named, IInv, TypeOK, Final,
         Transient
    <2>4. QED
      BY <2>3 DEF Absent, Final
  <1>3. ~BuildReplacement(op) /\ ~RenameReplacement(op)
    BY DEF BuildReplacement, RenameReplacement, CreateStopped, Named, IInv,
       TypeOK, Absent, Final, Transient
  <1>4. CASE UNCHANGED name
    BY <1>4 DEF Absent, Final
  <1>5. UNCHANGED name \/ RetireOriginal(op) \/ DeleteReplacement(op)
          \/ BuildReplacement(op) \/ RenameReplacement(op)
    BY DEF Next, Step, Start, Interrupt, CrashInSave, vars, cluster, Resolve,
       PlanAbort, Pause, Journal, PassThrough, Secure, StopOriginal,
       CheckHandover, HandOverDisk, RestoreDiskOptions, AttachDisk,
       RecordVolumeOwner, GuardRetire, RecordReplacement, StartReplacement,
       Verify, NothingToUndo, ReturnDisk, StartOriginal, ClearJournal
  <1>6. QED
    BY <1>1, <1>2, <1>3, <1>4, <1>5

\* RetireOriginal deletes the original only once HandOverDisk has put the disk on
\* another guest, also when the two ran in different invocations of the command.
THEOREM RetireSafe ==
  ASSUME Calm, NEW op, Operator = {op}
  PROVE  Spec => RetiredAfterHandover
  <1>1. Init => IInv(op)
    BY InitTracked
  <1>2. IInv(op) /\ [Next]_vars => IInv(op)'
    BY NextTracked
  <1>3. IInv(op) /\ [Next]_vars =>
          [diskId.vm = diskOn => \A v \in VM :
             name[v] = Final /\ name'[v] = Absent => diskOn \in VM \ {v}]_vars
    BY DeletesNoHolder
  <1>4. QED
    BY <1>1, <1>2, <1>3, PTL DEF Spec, RetiredAfterHandover

\* A guest that holds the disk exists under the name it is held by.
LEMMA Holder ==
  ASSUME TypeOK, ClusterOK
  PROVE  /\ HeldByOriginal => diskOn \in Originals /\ Originals = {diskOn}
         /\ HeldByReplacement => diskOn \in Replacements /\ Replacements = {diskOn}
         /\ HeldByOriginal \/ HeldByReplacement
         /\ Originals \cap Replacements = {}
  BY DEF TypeOK, ClusterOK, HeldByOriginal, HeldByReplacement, OneOriginal, OneReplacement,
     Originals, Replacements, Named, Absent, Final, Transient

\* A command that says it has succeeded is over, and has left one guest with
\* the disk.
Reported(o) == outcome[o] \in {"finished", "aborted"} =>
                 pc[o] = "idle" /\ HeldByOriginal /\ Replacements = {}

\* Only ClearJournal reports success, and nothing happens after it but a start.
LEMMA NextReported ==
  ASSUME Calm, NEW op, Operator = {op}, IInv(op), Reported(op), [Next]_vars
  PROVE  Reported(op)'
  <1>1. ASSUME NEW c \in Commands, Start(op, c)
        PROVE  Reported(op)'
    BY <1>1 DEF Start, Reported, IInv, TypeOK
  <1>2. CASE Interrupt(op) \/ CrashInSave(op)
    BY <1>2 DEF Interrupt, CrashInSave, End, Reported, IInv, TypeOK
  <1>3. CASE ClearJournal(op)
    <2>1. HeldByOriginal /\ Replacements = {} /\ UNCHANGED cluster
      BY <1>3 DEF ClearJournal, At, IInv, Tracked, PointOK
    <2>2. HeldByOriginal' /\ Replacements' = {}
      BY <2>1 DEF cluster, HeldByOriginal, Replacements, Named
    <2>3. pc'[op] = "idle"
      BY <1>3 DEF ClearJournal, End, Goto, IInv, TypeOK
    <2>4. QED
      BY <2>2, <2>3 DEF Reported
  <1>4. CASE Step(op) /\ ~ClearJournal(op)
    <2>1. pc[op] # "idle"
      BY <1>4 DEF Step, Resolve, PlanAbort, Pause, Journal, PassThrough, Secure, StopOriginal,
         BuildReplacement, CheckHandover, HandOverDisk, RestoreDiskOptions, AttachDisk,
         RecordVolumeOwner, GuardRetire, RetireOriginal, RenameReplacement, RecordReplacement,
         StartReplacement, Verify, NothingToUndo, ReturnDisk, DeleteReplacement, StartOriginal, At
    <2> DEFINE Quiet == UNCHANGED outcome \/ End(op, "failed") \/ End(op, "paused")
                          \/ End(op, "refused")
    <2>2. Quiet
      <3>1. CASE Resolve(op) \/ PlanAbort(op)
        BY <3>1 DEF Resolve, PlanAbort
      <3>2. CASE Pause(op) \/ Journal(op) \/ PassThrough(op) \/ Secure(op) \/ StopOriginal(op)
                 \/ BuildReplacement(op) \/ CheckHandover(op)
        BY <3>2 DEF Pause, Journal, PassThrough, Secure, StopOriginal, BuildReplacement,
           CheckHandover
      <3>3. CASE HandOverDisk(op) \/ ReturnDisk(op)
        <4>1. ASSUME NEW f, NEW t, Transfer(op, f, t)
              PROVE  UNCHANGED outcome \/ End(op, "failed")
          <5>1. PICK blind \in Blindness : \E from \in FindByName(f, blind), to \in FindByName(t, blind) :
                  LET mv == [from |-> from, to |-> to, serial |-> diskSerial,
                             vol |-> VolumeToMove(mem[op], from, blind)]
                      known == from # Nobody /\ to # Nobody /\ mv.vol # NoVolume
                      there == mv.vol = diskId /\ ~diskLost /\ diskOn = from
                  IN  \/ known /\ UNCHANGED <<outcome, refusals>>
                      \/ known /\ there /\ "detach" \in Mechanisms /\ UNCHANGED outcome
                      \/ End(op, "failed")
            BY <4>1 DEF Transfer
          <5>2. QED
            BY <5>1
        <4>2. QED
          BY <3>3, <4>1 DEF HandOverDisk, ReturnDisk
      <3>4. CASE RestoreDiskOptions(op) \/ AttachDisk(op) \/ RecordVolumeOwner(op)
                 \/ GuardRetire(op) \/ RetireOriginal(op) \/ RenameReplacement(op)
        BY <3>4 DEF RestoreDiskOptions, AttachDisk, RecordVolumeOwner, GuardRetire,
           RetireOriginal, RenameReplacement
      <3>5. CASE RecordReplacement(op) \/ StartReplacement(op) \/ Verify(op) \/ NothingToUndo(op)
                 \/ DeleteReplacement(op) \/ StartOriginal(op)
        BY <3>5 DEF RecordReplacement, StartReplacement, Verify, NothingToUndo,
           DeleteReplacement, StartOriginal
      <3>6. QED
        BY <1>4, <3>1, <3>2, <3>3, <3>4, <3>5 DEF Step
    <2>3. outcome'[op] \notin {"finished", "aborted"}
      BY <2>1, <2>2 DEF Reported, End, IInv, TypeOK
    <2>4. QED
      BY <2>3 DEF Reported
  <1>5. CASE UNCHANGED vars
    BY <1>5 DEF vars, cluster, Reported, HeldByOriginal, Replacements, Named
  <1>6. QED
    BY <1>1, <1>2, <1>3, <1>4, <1>5 DEF Next

\* The journal covers what has been done to the cluster, and a report of success
\* is true, through every interruption, resume and abort (engine.go, Run, Abort
\* and record).
THEOREM TrueRecord ==
  ASSUME Calm, NEW op, Operator = {op}
  PROVE  Spec => []RecordIsTrue
  <1> DEFINE Inv == IInv(op) /\ Reported(op)
  <1>1. Init => Inv
    BY InitTracked DEF Init, Reported
  <1>2. Inv /\ [Next]_vars => Inv'
    BY NextTracked, NextReported
  <1>3. Inv => RecordIsTrue
    <2> SUFFICES ASSUME Inv PROVE RecordIsTrue
      OBVIOUS
    <2>1. TypeOK /\ ClusterOK /\ PhaseReady(file.journal) /\ file.journal \in Phases \cup {"none"}
      BY DEF IInv, Tracked, TypeOK, States
    <2>2. JournalCovers
      BY <2>1, Holder DEF PhaseReady, JournalCovers, Phases
    <2>3. OutcomesAreTrue
      BY <2>1, Holder DEF Reported, OutcomesAreTrue
    <2>4. QED
      BY <2>2, <2>3 DEF RecordIsTrue
  <1> HIDE DEF Inv
  <1>4. QED
    BY <1>1, <1>2, <1>3, PTL DEF Spec

-----------------------------------------------------------------------------
(* The refinement: every step of the command is one of DiskCustody or      *)
(* leaves the custody of the disk as it is.                                *)

\* What DiskCustody sees of the cluster.
HolderOf == IF diskOn \in Originals THEN "original"
            ELSE IF diskOn \in Replacements THEN "replacement"
            ELSE "nobody"

\* Whoever holds the disk by name holds it in DiskCustody.
LEMMA HolderSeen ==
  ASSUME TypeOK, ClusterOK
  PROVE  /\ HeldByOriginal => HolderOf = "original" /\ Originals # {}
         /\ HeldByReplacement => HolderOf = "replacement" /\ Replacements # {}
         /\ HeldByOriginal \/ HeldByReplacement
  BY Holder DEF HolderOf

\* ... also after a step.
LEMMA HolderThen ==
  ASSUME TypeOK', ClusterOK'
  PROVE  /\ HeldByOriginal' => HolderOf' = "original" /\ Originals' # {}
         /\ HeldByReplacement' => HolderOf' = "replacement" /\ Replacements' # {}
  BY DEF TypeOK, ClusterOK, HeldByOriginal, HeldByReplacement, Originals, Replacements, Named,
     HolderOf, Absent, Final, Transient

\* Without a new name or another holder nothing changes in DiskCustody.
LEMMA SameCustody ==
  ASSUME UNCHANGED <<name, diskOn>>
  PROVE  UNCHANGED Custody!vars
  BY DEF Custody!vars, Originals, Replacements, Named

\* BuildReplacement makes the one replacement there may be.
LEMMA BuildCustody ==
  ASSUME Calm, NEW op, Operator = {op}, IInv(op), IInv(op)', BuildReplacement(op)
  PROVE  [Custody!Next]_Custody!vars
  <1>1. HeldByOriginal /\ TypeOK /\ ClusterOK /\ TypeOK' /\ ClusterOK' /\ diskOn' = diskOn
    BY DEF BuildReplacement, At, IInv, Tracked, PointOK, PhaseReady
  <1>2. UNCHANGED name \/ (Replacements = {} /\ \E v \in Named(Absent) : CreateStopped(v))
    <2>1. PICK blind : \/ UNCHANGED name
                       \/ /\ blind = "nothing" /\ FindByName(Transient, blind) = {Nobody}
                          /\ \E v \in Named(Absent) : CreateStopped(v)
      BY NoBlink DEF BuildReplacement, IInv
    <2>2. FindByName(Transient, "nothing") = {Nobody} => Replacements = {}
      BY Found DEF Replacements
    <2>3. QED
      BY <2>1, <2>2
  <1>3. CASE UNCHANGED name
    BY <1>1, <1>3, SameCustody
  <1>4. CASE Replacements = {} /\ \E v \in Named(Absent) : CreateStopped(v)
    <2>1. PICK v \in Named(Absent) : CreateStopped(v)
      BY <1>4
    <2>2. Originals' = Originals /\ Replacements' = {v} /\ HeldByOriginal'
      BY <1>1, <1>4, <2>1 DEF TypeOK, HeldByOriginal, Originals, Replacements, Named,
         CreateStopped, Absent, Final, Transient
    <2>3. HolderOf = "original" /\ HolderOf' = "original" /\ Originals # {}
      BY <1>1, <2>2, HolderSeen, HolderThen
    <2>4. Custody!Build
      BY <1>4, <2>2, <2>3 DEF Custody!Build, HolderOf
    <2>5. QED
      BY <2>4 DEF Custody!Next
  <1>5. QED
    BY <1>2, <1>3, <1>4

\* RetireOriginal takes the original away after the handover only.
LEMMA RetireCustody ==
  ASSUME Calm, NEW op, Operator = {op}, IInv(op), IInv(op)', RetireOriginal(op)
  PROVE  [Custody!Next]_Custody!vars
  <1>1. HeldByReplacement /\ TypeOK /\ ClusterOK /\ TypeOK' /\ ClusterOK'
    BY DEF RetireOriginal, At, IInv, Tracked, PointOK, PhaseReady
  <1>2. PICK v \in FindByName(Final, "nothing") :
          IF v = Nobody THEN UNCHANGED cluster ELSE DeleteInstance(v)
    BY NoBlink DEF RetireOriginal, IInv
  <1>3. CASE v = Nobody
    BY <1>2, <1>3, SameCustody DEF cluster
  <1>4. CASE v # Nobody
    <2>1. v \in Originals /\ v \in VM /\ v # diskOn
      BY <1>1, <1>2, <1>4 DEF FindByName, Originals, Named, HeldByReplacement, Final, Transient
    <2>2. Originals' = {} /\ Replacements' = Replacements /\ HeldByReplacement'
      BY <1>1, <1>2, <1>4, <2>1, DeleteOther DEF ClusterOK, OneOriginal, Originals,
         Replacements, Named, Final, Transient
    <2>3. HolderOf = "replacement" /\ HolderOf' = "replacement"
      BY <1>1, <2>2, HolderSeen, HolderThen
    <2>4. Custody!Retire
      BY <2>1, <2>2, <2>3 DEF Custody!Retire, HolderOf
    <2>5. QED
      BY <2>4 DEF Custody!Next
  <1>5. QED
    BY <1>3, <1>4

\* DeleteReplacement takes a replacement away that does not hold the disk.
LEMMA DiscardCustody ==
  ASSUME Calm, NEW op, Operator = {op}, IInv(op), IInv(op)', DeleteReplacement(op)
  PROVE  [Custody!Next]_Custody!vars
  <1>1. HeldByOriginal /\ TypeOK /\ ClusterOK /\ TypeOK' /\ ClusterOK'
    BY DEF DeleteReplacement, At, IInv, Tracked, PointOK, CompensationFor
  <1>2. PICK v \in FindByName(Transient, "nothing") :
          IF v = Nobody THEN UNCHANGED cluster ELSE DeleteInstance(v)
    BY NoBlink DEF DeleteReplacement, IInv
  <1>3. CASE v = Nobody
    BY <1>2, <1>3, SameCustody DEF cluster
  <1>4. CASE v # Nobody
    <2>1. v \in Replacements /\ v \in VM /\ v # diskOn
      BY <1>1, <1>2, <1>4 DEF FindByName, Replacements, Named, HeldByOriginal, Final, Transient
    <2>2. Replacements' = {} /\ Originals' = Originals /\ HeldByOriginal'
      BY <1>1, <1>2, <1>4, <2>1, DeleteOther DEF ClusterOK, OneReplacement, Originals,
         Replacements, Named, Final, Transient
    <2>3. HolderOf = "original" /\ HolderOf' = "original"
      BY <1>1, <2>2, HolderSeen, HolderThen
    <2>4. Custody!Discard
      BY <2>1, <2>2, <2>3 DEF Custody!Discard, HolderOf
    <2>5. QED
      BY <2>4 DEF Custody!Next
  <1>5. QED
    BY <1>3, <1>4

\* RenameReplacement puts the replacement, with the disk, in the original's place.
LEMMA AdoptCustody ==
  ASSUME Calm, NEW op, Operator = {op}, IInv(op), IInv(op)', RenameReplacement(op)
  PROVE  [Custody!Next]_Custody!vars
  <1>1. /\ (HeldByReplacement /\ Originals = {}) \/ (HeldByOriginal /\ Replacements = {})
        /\ TypeOK /\ ClusterOK /\ TypeOK' /\ ClusterOK' /\ diskOn' = diskOn
    BY DEF RenameReplacement, At, IInv, Tracked, PointOK, PhaseReady
  <1>2. PICK v \in FindByName(Transient, "nothing") :
          IF v = Nobody THEN UNCHANGED name ELSE name' = [name EXCEPT ![v] = Final]
    BY NoBlink DEF RenameReplacement, IInv
  <1>3. CASE v = Nobody
    BY <1>1, <1>2, <1>3, SameCustody
  <1>4. CASE v # Nobody
    <2>1. v \in Replacements /\ v \in VM /\ HeldByReplacement /\ Originals = {}
      BY <1>1, <1>4 DEF FindByName, Replacements, Named
    <2>2. v = diskOn
      BY <1>1, <2>1, Holder
    <2>3. Originals' # {} /\ Replacements' = {} /\ HeldByOriginal'
      <3>1. \A u \in VM : name'[u] = IF u = v THEN Final ELSE name[u]
        BY <1>1, <1>2, <1>4, <2>1 DEF TypeOK
      <3>2. Replacements = {v}
        BY <1>1, <2>1, <2>2, Holder
      <3>3. QED
        BY <1>1, <2>1, <2>2, <3>1, <3>2 DEF HeldByOriginal, Originals, Replacements, Named,
           Final, Transient
    <2>4. HolderOf' = "original"
      BY <1>1, <2>3, HolderSeen, HolderThen
    <2>5. Custody!Adopt
      BY <2>1, <2>3, <2>4 DEF Custody!Adopt, HolderOf
    <2>6. QED
      BY <2>5 DEF Custody!Next
  <1>5. QED
    BY <1>3, <1>4

\* A transfer moves the disk straight from one guest to the other.
LEMMA TransferCustody ==
  ASSUME Calm, NEW op, Operator = {op}, IInv(op), IInv(op)', HandOverDisk(op) \/ ReturnDisk(op)
  PROVE  [Custody!Next]_Custody!vars
  <1>1. /\ UNCHANGED <<name, diskLost>> /\ TypeOK /\ ClusterOK /\ TypeOK' /\ ClusterOK'
        /\ op \in Operator
        /\ Transfer(op, Final, Transient) \/ Transfer(op, Transient, Final)
    BY DEF HandOverDisk, ReturnDisk, IInv, Tracked
  <1>2. \/ UNCHANGED diskOn
        \/ HeldByOriginal /\ HeldByReplacement'
        \/ HeldByReplacement /\ HeldByOriginal'
    BY <1>1, TransferMoves DEF HeldByOriginal, HeldByReplacement
  <1>3. Originals' = Originals /\ Replacements' = Replacements
    BY <1>1 DEF Originals, Replacements, Named
  <1>4. CASE UNCHANGED diskOn
    BY <1>1, <1>4, SameCustody
  <1>5. CASE HeldByOriginal /\ HeldByReplacement'
    <2>1. HolderOf = "original" /\ HolderOf' = "replacement" /\ Originals # {} /\ Replacements # {}
      BY <1>1, <1>3, <1>5, HolderSeen, HolderThen
    <2>2. Custody!HandOver
      BY <1>3, <2>1 DEF Custody!HandOver, HolderOf
    <2>3. QED
      BY <2>2 DEF Custody!Next
  <1>6. CASE HeldByReplacement /\ HeldByOriginal'
    <2>1. HolderOf = "replacement" /\ HolderOf' = "original" /\ Originals # {} /\ Replacements # {}
      BY <1>1, <1>3, <1>6, HolderSeen, HolderThen
    <2>2. Custody!Return
      BY <1>3, <2>1 DEF Custody!Return, HolderOf
    <2>3. QED
      BY <2>2 DEF Custody!Next
  <1>7. QED
    BY <1>2, <1>4, <1>5, <1>6

\* Every step, whatever it is, is one of DiskCustody or none.
LEMMA NextCustody ==
  ASSUME Calm, NEW op, Operator = {op}, IInv(op), [Next]_vars
  PROVE  [Custody!Next]_Custody!vars
  <1>1. IInv(op)'
    BY NextTracked
  <1>2. UNCHANGED <<name, diskOn>> \/ BuildReplacement(op) \/ RetireOriginal(op)
          \/ DeleteReplacement(op) \/ RenameReplacement(op) \/ HandOverDisk(op)
          \/ ReturnDisk(op) \/ AttachDisk(op)
    BY DEF Next, Step, Start, Interrupt, CrashInSave, vars, cluster, Resolve,
       PlanAbort, Pause, Journal, PassThrough, Secure, StopOriginal,
       CheckHandover, RestoreDiskOptions, RecordVolumeOwner, GuardRetire, RecordReplacement,
       StartReplacement, Verify, NothingToUndo, StartOriginal, ClearJournal
  <1>3. ~AttachDisk(op)
    BY DEF AttachDisk, At, IInv, Tracked, PointOK
  <1>4. QED
    BY <1>1, <1>2, <1>3, SameCustody, BuildCustody, RetireCustody, DiscardCustody,
       AdoptCustody, TransferCustody

\* The recycle implements DiskCustody: from the first state on, every step of
\* every run and abort, interrupted or not, is a step the custody of the disk
\* allows or none, so the disk passes from live guest to live guest (phase.go).
THEOREM CustodyKept ==
  ASSUME Calm, NEW op, Operator = {op}
  PROVE  Spec => KeepsCustody
  <1>1. Init => IInv(op)
    BY InitTracked
  <1>2. IInv(op) /\ [Next]_vars => IInv(op)'
    BY NextTracked
  <1>3. Init => Custody!Init
    <2> SUFFICES ASSUME Init PROVE Custody!Init
      OBVIOUS
    <2>1. TypeOK /\ ClusterOK /\ HeldByOriginal /\ Replacements = {}
      BY InitTracked DEF Init, IInv, Tracked, PhaseReady
    <2>2. HolderOf = "original" /\ Originals # {}
      BY <2>1, HolderSeen
    <2>3. QED
      BY <2>1, <2>2 DEF Custody!Init, HolderOf
  <1>4. IInv(op) /\ [Next]_vars => [Custody!Next]_Custody!vars
    BY NextCustody
  <1>5. QED
    BY <1>1, <1>2, <1>3, <1>4, PTL DEF Spec, KeepsCustody, Custody!Spec
=============================================================================
