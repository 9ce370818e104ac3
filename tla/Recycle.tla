------------------------------- MODULE Recycle -------------------------------
(***************************************************************************)
(* `ocfp bastion recycle`: replace the bastion's guest while carrying its  *)
(* data disk across to the replacement (internal/recycle, adapted to the   *)
(* hypervisor by internal/bootstrap/recycle_cluster.go over the Proxmox    *)
(* managers of internal/cpi/pve).                                          *)
(*                                                                         *)
(* An operator process loads the bloc's state file once, works out where a *)
(* previous run stopped, and then walks the phases, journalling each phase *)
(* in the state file before acting on it. Every step below is one call     *)
(* that changes the hypervisor or the state file, with the reads that lead *)
(* to it; between two steps the process may die, or give up on an API      *)
(* error, which leaves the cluster and the file as they are.               *)
(***************************************************************************)
EXTENDS Naturals

CONSTANTS VM,              \* the guest ids the hypervisor can hand out
          Nobody,          \* no guest
          First,           \* the guest that is the bastion when we start
          Operator,        \* processes running the recycle command
          Mechanisms,      \* how the hypervisor lets a disk move
          MaxInterrupts,   \* bound: processes that die or give up
          MaxRefusals,     \* bound: reassignments that fail for no reason of ours
          MaxBlinks,       \* bound: listings that fail and are read as empty
          MaxLosses        \* bound: crashes inside the state file's save

ASSUME RecycleAssumption ==
  /\ First \in VM
  /\ Nobody \notin VM
  /\ Mechanisms \subseteq {"reassign", "detach"}
  /\ MaxInterrupts \in Nat /\ MaxRefusals \in Nat
  /\ MaxBlinks \in Nat /\ MaxLosses \in Nat

VARIABLES
  name,        \* guest id -> its name, Absent when there is no such guest
  running,     \* guest id -> is it powered on
  diskOn,      \* the guest whose configuration references the data disk
  diskId,      \* the volume's id, renamed by a reassignment
  diskSerial,  \* does the configuration entry carry serial=ocfpdata
  diskLost,    \* has the volume been destroyed
  file,        \* the bloc state file: journal, volume record, bastion record
  pc,          \* operator -> the next step of its command
  cmd,         \* operator -> the command it runs
  phase,       \* operator -> the phase being run, or being compensated
  mem,         \* operator -> the state as that process loaded and changed it
  move,        \* operator -> the arguments of the disk move in hand
  outcome,     \* operator -> how its last command ended
  interrupts, refusals, blinks, losses    \* how much of each bound is spent

cluster == <<name, running, diskOn, diskId, diskSerial, diskLost>>
bounds  == <<interrupts, refusals, blinks, losses>>
vars    == <<cluster, file, pc, cmd, phase, mem, move, outcome, bounds>>

-----------------------------------------------------------------------------
(* Phases and compensations (internal/recycle/phase.go)                    *)

Phases == {"planned", "quiesced", "secured", "built", "handed-over",
           "retired", "adopted", "provisioned", "verified"}

NextPhase(p) ==
  CASE p = "planned"     -> "quiesced"
    [] p = "quiesced"    -> "secured"
    [] p = "secured"     -> "built"
    [] p = "built"       -> "handed-over"
    [] p = "handed-over" -> "retired"
    [] p = "retired"     -> "adopted"
    [] p = "adopted"     -> "provisioned"
    [] p = "provisioned" -> "verified"
    [] p = "verified"    -> "none"

\* AbortPlan walks the order backwards, from the phase reached to the first.
PrevPhase(p) ==
  CASE p = "handed-over" -> "built"
    [] p = "built"       -> "secured"
    [] p = "secured"     -> "quiesced"
    [] p = "quiesced"    -> "planned"
    [] OTHER             -> "none"

CanAbort(p) == p \in {"planned", "quiesced", "secured", "built", "handed-over"}

\* Mutants: the handover, or the build, has nothing to undo.
CompensationFor_KeepDisk(p) ==
  CASE p = "quiesced" -> "start-original"
    [] p = "built"    -> "delete-replacement"
    [] OTHER          -> "none"

CompensationFor(p) ==
  CASE p = "quiesced"    -> "start-original"
    [] p = "built"       -> "delete-replacement"
    [] p = "handed-over" -> "return-disk"
    [] OTHER             -> "none"

ReconstructPhase(obs) ==
  CASE obs.original /\ ~obs.replacement -> "secured"
    [] obs.original /\ obs.replacement /\ obs.owner = "replacement" -> "handed-over"
    [] obs.original /\ obs.replacement /\ obs.owner # "replacement" -> "built"
    [] OTHER -> "retired"

-----------------------------------------------------------------------------
(* What a process can see of the cluster                                   *)

Absent    == "absent"
Final     == "final"       \* <bloc>-bastion
Transient == "transient"   \* <bloc>-bastion-next

VolumeIds == [vm : VM \cup {Nobody}, data : BOOLEAN]
NoVolume  == [vm |-> Nobody, data |-> FALSE]
States    == [journal : Phases \cup {"none"}, vol : VolumeIds,
              bastion : VM \cup {Nobody}]
EmptyState == [journal |-> "none", vol |-> NoVolume, bastion |-> Nobody]

Named(n) == {v \in VM : name[v] = n}

\* A listing that fails is logged and taken for "no such guest" or "no such
\* volume". One listing per step may fail: blind names it.
Blindness == {"nothing", Final, Transient, "volumes"}

Blink(blind) ==
  \/ blind = "nothing" /\ UNCHANGED blinks
  \/ blind # "nothing" /\ blinks < MaxBlinks /\ blinks' = blinks + 1

\* The guests findByName may return, Nobody when it finds none. The listing
\* has no order, so with two guests of a name either is "the first".
FindByName(n, blind) ==
  IF blind = n \/ Named(n) = {} THEN {Nobody} ELSE Named(n)

\* The mutant takes any volume of the guest, its OS disk too, for the data disk.
OwnsDisk_AnyVolume(st, v, blind) == v # Nobody /\ blind # "volumes"

\* dataVolumeOwnedBy: by serial in the guest's configuration, else by the
\* owner the volume is named after and the recorded id (or the -data suffix).
OwnsDisk(st, v, blind) ==
  /\ v # Nobody /\ blind # "volumes" /\ ~diskLost
  /\ \/ diskOn = v /\ diskSerial
     \/ /\ diskId.vm = v
        /\ IF st.vol = NoVolume THEN diskId.data ELSE st.vol = diskId

ObservationOf(st, original, replacement, blind) ==
  [original    |-> original # Nobody,
   replacement |-> replacement # Nobody,
   owner       |-> IF OwnsDisk(st, replacement, blind) THEN "replacement"
                   ELSE IF OwnsDisk(st, original, blind) THEN "original"
                   ELSE "orphaned"]

Observe(st, blind) ==
  {ObservationOf(st, o, r, blind) : o \in FindByName(Final, blind),
                                    r \in FindByName(Transient, blind)}

NothingToRecycle(obs) == ~obs.original /\ ~obs.replacement

\* The mutant resumes after the journalled phase, as the engine once did.
StartPhase_After(journal, obs) ==
  IF journal # "none" THEN NextPhase(journal)
  ELSE IF ~obs.replacement THEN "planned"
  ELSE NextPhase(ReconstructPhase(obs))

\* resolveStartPhase: AT the journalled phase, or after the phase implied.
StartPhase(journal, obs) ==
  IF journal # "none" THEN journal
  ELSE IF ~obs.replacement THEN "planned"
  ELSE NextPhase(ReconstructPhase(obs))

-----------------------------------------------------------------------------
(* Control of one process                                                  *)

Commands == {"run", "run-and-pause", "abort"}
Outcomes == {"none", "finished", "paused", "aborted", "refused", "failed"}
Points   == {"idle", "resolve", "journal", "act", "hand-over", "destroy",
             "restore", "attach", "record", "adopt", "start", "undo", "clear"}

NoMove == [from |-> Nobody, to |-> Nobody, vol |-> NoVolume, serial |-> FALSE]
Moves  == [from : VM \cup {Nobody}, to : VM \cup {Nobody}, vol : VolumeIds,
           serial : BOOLEAN]

\* Nothing to move: the guest in hand, and the volume known to be on it.
Arrived(to, vol) == [NoMove EXCEPT !.to = to, !.vol = vol]

At(o, point)   == pc[o] = point
Goto(o, point) == pc' = [pc EXCEPT ![o] = point]

End(o, how) ==
  /\ Goto(o, "idle")
  /\ outcome' = [outcome EXCEPT ![o] = how]

\* Write the whole in-memory state over the file.
Save(o, st) ==
  /\ mem' = [mem EXCEPT ![o] = st]
  /\ file' = st

\* The phase is done: go on with the next one.
Advance(o) ==
  /\ phase' = [phase EXCEPT ![o] = NextPhase(phase[o])]
  /\ IF phase[o] = "verified" THEN Goto(o, "clear") ELSE Goto(o, "journal")

\* The compensation is done: go on with the one of the phase before.
Retreat(o) ==
  /\ phase' = [phase EXCEPT ![o] = PrevPhase(phase[o])]
  /\ IF phase[o] = "planned" THEN Goto(o, "clear") ELSE Goto(o, "undo")

Continue(o) == IF cmd[o] = "abort" THEN Retreat(o) ELSE Advance(o)

\* DeleteInstance stops the guest and purges it with every disk it references.
DeleteInstance(v) ==
  /\ name' = [name EXCEPT ![v] = Absent]
  /\ running' = [running EXCEPT ![v] = FALSE]
  /\ diskLost' = (diskLost \/ diskOn = v)
  /\ diskOn' = IF diskOn = v THEN Nobody ELSE diskOn
  /\ UNCHANGED <<diskId, diskSerial>>

-----------------------------------------------------------------------------
(* Starting a command                                                      *)

\* buildBootstrapManager: the process reads the state file once, here.
Start(o, c) ==
  /\ At(o, "idle")
  /\ cmd' = [cmd EXCEPT ![o] = c]
  /\ mem' = [mem EXCEPT ![o] = file]
  /\ outcome' = [outcome EXCEPT ![o] = "none"]
  /\ Goto(o, "resolve")
  /\ UNCHANGED <<cluster, file, phase, move, bounds>>

\* Run: place the run from the journal, or from the cluster alone.
Resolve(o) ==
  /\ At(o, "resolve") /\ cmd[o] # "abort"
  /\ \E blind \in Blindness : \E obs \in Observe(mem[o], blind) :
       /\ Blink(blind)
       /\ IF NothingToRecycle(obs)
          THEN End(o, "failed") /\ UNCHANGED phase
          ELSE /\ phase' = [phase EXCEPT ![o] = StartPhase(mem[o].journal, obs)]
               /\ Goto(o, "journal") /\ UNCHANGED outcome
  /\ UNCHANGED <<cluster, file, cmd, mem, move, interrupts, refusals, losses>>

\* Abort: the phase reached decides whether there is a plan at all.
PlanAbort(o) ==
  /\ At(o, "resolve") /\ cmd[o] = "abort"
  /\ \E blind \in Blindness : \E obs \in Observe(mem[o], blind) :
       LET reached == IF mem[o].journal # "none" THEN mem[o].journal
                      ELSE ReconstructPhase(obs)
       IN  /\ Blink(blind)
           /\ IF mem[o].journal = "none" /\ NothingToRecycle(obs)
              THEN End(o, "failed") /\ UNCHANGED phase
              ELSE IF ~CanAbort(reached)
              THEN End(o, "refused") /\ UNCHANGED phase
              ELSE /\ phase' = [phase EXCEPT ![o] = reached]
                   /\ Goto(o, "undo") /\ UNCHANGED outcome
  /\ UNCHANGED <<cluster, file, cmd, mem, move, interrupts, refusals, losses>>

\* Pause before the point of no return, when asked.
Pause(o) ==
  /\ At(o, "journal") /\ cmd[o] = "run-and-pause" /\ phase[o] = "retired"
  /\ End(o, "paused")
  /\ UNCHANGED <<cluster, file, cmd, phase, mem, move, bounds>>

\* The mutant journals in memory only.
Journal_Unflushed(o) ==
  /\ At(o, "journal")
  /\ ~(cmd[o] = "run-and-pause" /\ phase[o] = "retired")
  /\ mem' = [mem EXCEPT ![o].journal = phase[o]]
  /\ Goto(o, "act")
  /\ UNCHANGED <<cluster, file, cmd, phase, move, outcome, bounds>>

\* Journal the phase before acting on it.
Journal(o) ==
  /\ At(o, "journal")
  /\ ~(cmd[o] = "run-and-pause" /\ phase[o] = "retired")
  /\ Save(o, [mem[o] EXCEPT !.journal = phase[o]])
  /\ Goto(o, "act")
  /\ UNCHANGED <<cluster, cmd, phase, move, outcome, bounds>>

-----------------------------------------------------------------------------
(* The phases                                                              *)

\* Planned and provisioned change nothing on the cluster.
PassThrough(o) ==
  /\ At(o, "act") /\ phase[o] \in {"planned", "provisioned"}
  /\ Advance(o)
  /\ UNCHANGED <<cluster, file, cmd, mem, move, outcome, bounds>>

\* Snapshot, the secured phase: the operator vouches for a copy, or an archive
\* of the original is taken, or there is neither and the run stops here.
Secure(o) ==
  /\ At(o, "act") /\ phase[o] = "secured"
  /\ \/ Advance(o) /\ UNCHANGED <<outcome, blinks>>
     \/ End(o, "failed") /\ UNCHANGED <<phase, blinks>>
     \/ \E blind \in Blindness :
          /\ Blink(blind)
          /\ IF FindByName(Final, blind) = {Nobody}
             THEN End(o, "failed") /\ UNCHANGED phase
             ELSE Advance(o) /\ UNCHANGED outcome
  /\ UNCHANGED <<cluster, file, cmd, mem, move, interrupts, refusals, losses>>

StopOriginal(o) ==
  /\ At(o, "act") /\ phase[o] = "quiesced"
  /\ \E blind \in Blindness : \E v \in FindByName(Final, blind) :
       /\ Blink(blind)
       /\ IF v = Nobody
          THEN End(o, "failed") /\ UNCHANGED <<running, phase>>
          ELSE /\ running' = [running EXCEPT ![v] = FALSE]
               /\ Advance(o) /\ UNCHANGED outcome
  /\ UNCHANGED <<name, diskOn, diskId, diskSerial, diskLost, file, cmd, mem,
                 move, interrupts, refusals, losses>>

\* createBastionInstanceStopped: the hypervisor picks a free id, one that a
\* deleted guest had included.
CreateStopped(v) ==
  /\ name' = [name EXCEPT ![v] = Transient]
  /\ UNCHANGED running

\* A replacement that exists is kept; otherwise one is created, stopped.
BuildReplacement(o) ==
  /\ At(o, "act") /\ phase[o] = "built"
  /\ \E blind \in Blindness :
       /\ Blink(blind)
       /\ \/ /\ FindByName(Transient, blind) # {Nobody}
             /\ Advance(o) /\ UNCHANGED <<name, running, outcome>>
          \/ /\ FindByName(Transient, blind) = {Nobody}
             /\ \E v \in Named(Absent) : CreateStopped(v)
             /\ Advance(o) /\ UNCHANGED outcome
          \/ /\ FindByName(Transient, blind) = {Nobody} /\ Named(Absent) = {}
             /\ End(o, "failed") /\ UNCHANGED <<name, running, phase>>
  /\ UNCHANGED <<diskOn, diskId, diskSerial, diskLost, file, cmd, mem,
                 move, interrupts, refusals, losses>>

\* HandOverDisk first asks whether the replacement holds the disk already, in
\* which case it only records it.
CheckHandover(o) ==
  /\ At(o, "act") /\ phase[o] = "handed-over"
  /\ \E blind \in Blindness : \E to \in FindByName(Transient, blind) :
       /\ Blink(blind)
       /\ IF OwnsDisk(mem[o], to, blind)
          THEN /\ Goto(o, "record")
               /\ move' = [move EXCEPT ![o] = Arrived(to, diskId)]
          ELSE Goto(o, "hand-over") /\ UNCHANGED move
  /\ UNCHANGED <<cluster, file, cmd, phase, mem, outcome, interrupts, refusals, losses>>

\* The disk moveDisk acts on: the one the source owns, else the recorded one.
VolumeToMove(st, from, blind) ==
  IF OwnsDisk(st, from, blind) THEN diskId ELSE st.vol

\* ReassignVolume succeeds for a disk in the configuration of a stopped guest.
Reassignable(mv) ==
  /\ "reassign" \in Mechanisms
  /\ mv.vol = diskId /\ ~diskLost
  /\ diskOn = mv.from /\ ~running[mv.from]

\* The mutant notes the new owner where the volume's new id belongs.
MoveDisk_Misnamed(mv) ==
  /\ diskOn' = mv.to
  /\ diskId' = mv.to
  /\ diskSerial' = FALSE

\* move_disk renames the volume after its new owner and drops the options.
MoveDisk(mv) ==
  /\ diskOn' = mv.to
  /\ diskId' = [vm |-> mv.to, data |-> FALSE]
  /\ diskSerial' = FALSE

\* Without a reassignment the disk is detached, if it is where we think it is.
DetachDisk(mv) ==
  /\ mv.vol = diskId /\ ~diskLost /\ diskOn = mv.from
  /\ diskOn' = Nobody
  /\ UNCHANGED <<diskId, diskSerial>>

\* moveDisk between two named guests, up to the first change it makes. An API
\* error on the reassignment has the same consequence as a refusal.
Transfer(o, fromName, toName) ==
  \E blind \in Blindness : \E from \in FindByName(fromName, blind),
                             to \in FindByName(toName, blind) :
    LET mv == [from |-> from, to |-> to, serial |-> diskSerial,
               vol |-> VolumeToMove(mem[o], from, blind)]
        known == from # Nobody /\ to # Nobody /\ mv.vol # NoVolume
        there == mv.vol = diskId /\ ~diskLost /\ diskOn = from
    IN  /\ Blink(blind)
        /\ \/ /\ known /\ Reassignable(mv)
              /\ MoveDisk(mv) /\ Goto(o, "restore")
              /\ move' = [move EXCEPT ![o] = mv]
              /\ UNCHANGED <<outcome, refusals>>
           \/ /\ known /\ there /\ "detach" \in Mechanisms
              /\ \/ ~Reassignable(mv) /\ UNCHANGED refusals
                 \/ refusals < MaxRefusals /\ refusals' = refusals + 1
              /\ DetachDisk(mv) /\ Goto(o, "attach")
              /\ move' = [move EXCEPT ![o] = mv]
              /\ UNCHANGED outcome
           \/ /\ ~(known /\ there /\ (Reassignable(mv) \/ "detach" \in Mechanisms))
              /\ End(o, "failed")
              /\ UNCHANGED <<diskOn, diskId, diskSerial, move, refusals>>

HandOverDisk(o) ==
  /\ At(o, "hand-over")
  /\ Transfer(o, Final, Transient)
  /\ UNCHANGED <<name, running, diskLost, file, cmd, phase, mem, interrupts,
                 losses>>

ReturnDisk(o) ==
  /\ At(o, "undo") /\ CompensationFor(phase[o]) = "return-disk"
  /\ Transfer(o, Transient, Final)
  /\ UNCHANGED <<name, running, diskLost, file, cmd, phase, mem, interrupts,
                 losses>>

\* restoreDiskOptions puts the serial back on the entry the move wrote. When
\* the entry is not there the reassignment counts as failed, and so does the
\* fallback, which looks for the volume under its former id on the source.
RestoreDiskOptions(o) ==
  /\ At(o, "restore")
  /\ IF move[o].serial /\ diskOn # move[o].to
     THEN End(o, "failed") /\ UNCHANGED diskSerial
     ELSE /\ diskSerial' = (diskSerial \/ move[o].serial)
          /\ Goto(o, "record") /\ UNCHANGED outcome
  /\ UNCHANGED <<name, running, diskOn, diskId, diskLost, file, cmd, phase, mem,
                 move, bounds>>

\* The second half of the fallback. The attachment always carries the serial.
AttachDisk(o) ==
  /\ At(o, "attach")
  /\ IF diskLost \/ diskOn # Nobody \/ name[move[o].to] = Absent
     THEN End(o, "failed") /\ UNCHANGED <<diskOn, diskSerial>>
     ELSE /\ diskOn' = move[o].to /\ diskSerial' = TRUE
          /\ Goto(o, "record") /\ UNCHANGED outcome
  /\ UNCHANGED <<name, running, diskId, diskLost, file, cmd, phase, mem, move,
                 bounds>>

\* recordVolumeOwner, with the id read back from the new owner. A bloc with no
\* volume record gets none.
RecordVolumeOwner(o) ==
  /\ At(o, "record")
  /\ \E blind \in Blindness :
       LET id == IF OwnsDisk(mem[o], move[o].to, blind) THEN diskId
                 ELSE move[o].vol
       IN  /\ Blink(blind)
           /\ IF mem[o].vol = NoVolume THEN UNCHANGED <<mem, file>>
              ELSE Save(o, [mem[o] EXCEPT !.vol = id])
  /\ Continue(o)
  /\ UNCHANGED <<cluster, cmd, move, outcome, interrupts, refusals, losses>>

\* The guard in front of the point of no return.
MayRetire(obs) == ~obs.original \/ obs.owner = "replacement"

GuardRetire(o) ==
  /\ At(o, "act") /\ phase[o] = "retired"
  /\ \E blind \in Blindness : \E obs \in Observe(mem[o], blind) :
       /\ Blink(blind)
       /\ IF MayRetire(obs) THEN Goto(o, "destroy") /\ UNCHANGED outcome
          ELSE End(o, "failed")
  /\ UNCHANGED <<cluster, file, cmd, phase, mem, move, interrupts, refusals, losses>>

RetireOriginal(o) ==
  /\ At(o, "destroy")
  /\ \E blind \in Blindness : \E v \in FindByName(Final, blind) :
       /\ Blink(blind)
       /\ IF v = Nobody THEN UNCHANGED cluster ELSE DeleteInstance(v)
  /\ Advance(o)
  /\ UNCHANGED <<file, cmd, mem, move, outcome, interrupts, refusals, losses>>

\* The mutant fails when there is nothing left to rename.
RenameReplacement_Strict(o) ==
  /\ At(o, "act") /\ phase[o] = "adopted"
  /\ \E blind \in Blindness : \E v \in FindByName(Transient, blind) :
       /\ Blink(blind)
       /\ IF v = Nobody THEN End(o, "failed") /\ UNCHANGED <<name, move>>
          ELSE /\ name' = [name EXCEPT ![v] = Final]
               /\ move' = [move EXCEPT ![o] = Arrived(v, NoVolume)]
               /\ Goto(o, "adopt") /\ UNCHANGED outcome
  /\ UNCHANGED <<running, diskOn, diskId, diskSerial, diskLost, file, cmd, mem,
                 phase, interrupts, refusals, losses>>

\* AdoptReplacement: rename, record, start. No guest under the transient name
\* is taken to mean that all three were done before.
RenameReplacement(o) ==
  /\ At(o, "act") /\ phase[o] = "adopted"
  /\ \E blind \in Blindness : \E v \in FindByName(Transient, blind) :
       /\ Blink(blind)
       /\ IF v = Nobody THEN Advance(o) /\ UNCHANGED <<name, move>>
          ELSE /\ name' = [name EXCEPT ![v] = Final]
               /\ move' = [move EXCEPT ![o] = Arrived(v, NoVolume)]
               /\ Goto(o, "adopt") /\ UNCHANGED phase
  /\ UNCHANGED <<running, diskOn, diskId, diskSerial, diskLost, file, cmd, mem,
                 outcome, interrupts, refusals, losses>>

RecordReplacement(o) ==
  /\ At(o, "adopt")
  /\ Save(o, [mem[o] EXCEPT !.bastion = move[o].to])
  /\ Goto(o, "start")
  /\ UNCHANGED <<cluster, cmd, phase, move, outcome, bounds>>

StartReplacement(o) ==
  /\ At(o, "start")
  /\ IF name[move[o].to] = Absent
     THEN End(o, "failed") /\ UNCHANGED <<running, phase>>
     ELSE /\ running' = [running EXCEPT ![move[o].to] = TRUE]
          /\ Advance(o) /\ UNCHANGED outcome
  /\ UNCHANGED <<name, diskOn, diskId, diskSerial, diskLost, file, cmd, mem,
                 move, bounds>>

Verify(o) ==
  /\ At(o, "act") /\ phase[o] = "verified"
  /\ \E blind \in Blindness :
       /\ Blink(blind)
       /\ IF FindByName(Final, blind) = {Nobody}
          THEN End(o, "failed") /\ UNCHANGED phase
          ELSE Advance(o) /\ UNCHANGED outcome
  /\ UNCHANGED <<cluster, file, cmd, mem, move, interrupts, refusals, losses>>

-----------------------------------------------------------------------------
(* The compensations                                                       *)

NothingToUndo(o) ==
  /\ At(o, "undo") /\ CompensationFor(phase[o]) = "none"
  /\ Retreat(o)
  /\ UNCHANGED <<cluster, file, cmd, mem, move, outcome, bounds>>

DeleteReplacement(o) ==
  /\ At(o, "undo") /\ CompensationFor(phase[o]) = "delete-replacement"
  /\ \E blind \in Blindness : \E v \in FindByName(Transient, blind) :
       /\ Blink(blind)
       /\ IF v = Nobody THEN UNCHANGED cluster ELSE DeleteInstance(v)
  /\ Retreat(o)
  /\ UNCHANGED <<file, cmd, mem, move, outcome, interrupts, refusals, losses>>

\* Asking a running guest to start is an error of the hypervisor.
StartOriginal(o) ==
  /\ At(o, "undo") /\ CompensationFor(phase[o]) = "start-original"
  /\ \E blind \in Blindness : \E v \in FindByName(Final, blind) :
       /\ Blink(blind)
       /\ IF v = Nobody THEN Retreat(o) /\ UNCHANGED <<running, outcome>>
          ELSE IF running[v] THEN End(o, "failed") /\ UNCHANGED <<running, phase>>
          ELSE /\ running' = [running EXCEPT ![v] = TRUE]
               /\ Retreat(o) /\ UNCHANGED outcome
  /\ UNCHANGED <<name, diskOn, diskId, diskSerial, diskLost, file, cmd, mem,
                 move, interrupts, refusals, losses>>

-----------------------------------------------------------------------------
(* The end of a command, and what can go wrong in the middle               *)

\* RemoveResource refuses to remove a journal that is not there.
ClearJournal(o) ==
  /\ At(o, "clear")
  /\ IF mem[o].journal = "none"
     THEN End(o, "failed") /\ UNCHANGED <<mem, file>>
     ELSE /\ Save(o, [mem[o] EXCEPT !.journal = "none"])
          /\ End(o, IF cmd[o] = "abort" THEN "aborted" ELSE "finished")
  /\ UNCHANGED <<cluster, cmd, phase, move, bounds>>

\* The process dies, or an API call fails and the command returns the error.
Interrupt(o) ==
  /\ ~At(o, "idle")
  /\ interrupts < MaxInterrupts /\ interrupts' = interrupts + 1
  /\ End(o, "failed")
  /\ UNCHANGED <<cluster, file, cmd, phase, mem, move, refusals, blinks,
                 losses>>

\* The process dies inside Save, after the old file was moved aside and before
\* the new one is written: the next Load finds no file and starts afresh.
CrashInSave(o) ==
  /\ \/ At(o, "journal") /\ ~(cmd[o] = "run-and-pause" /\ phase[o] = "retired")
     \/ At(o, "record") /\ mem[o].vol # NoVolume
     \/ At(o, "clear") /\ mem[o].journal # "none"
     \/ At(o, "adopt")
  /\ losses < MaxLosses /\ losses' = losses + 1
  /\ file' = EmptyState
  /\ End(o, "failed")
  /\ UNCHANGED <<cluster, cmd, phase, mem, move, interrupts, refusals,
                 blinks>>

Step(o) ==
  \/ Resolve(o) \/ PlanAbort(o) \/ Pause(o) \/ Journal(o)
  \/ PassThrough(o) \/ Secure(o) \/ StopOriginal(o)
  \/ BuildReplacement(o) \/ CheckHandover(o) \/ HandOverDisk(o)
  \/ RestoreDiskOptions(o) \/ AttachDisk(o) \/ RecordVolumeOwner(o)
  \/ GuardRetire(o) \/ RetireOriginal(o) \/ RenameReplacement(o)
  \/ RecordReplacement(o) \/ StartReplacement(o) \/ Verify(o)
  \/ NothingToUndo(o) \/ ReturnDisk(o) \/ DeleteReplacement(o)
  \/ StartOriginal(o) \/ ClearJournal(o)

Init ==
  /\ name = [v \in VM |-> IF v = First THEN Final ELSE Absent]
  /\ running = [v \in VM |-> v = First]
  /\ diskOn = First /\ diskId = [vm |-> First, data |-> TRUE]
  /\ diskSerial = TRUE /\ diskLost = FALSE
  /\ file = [journal |-> "none", vol |-> diskId, bastion |-> First]
  /\ pc = [o \in Operator |-> "idle"]
  /\ cmd = [o \in Operator |-> "run"]
  /\ phase = [o \in Operator |-> "none"]
  /\ mem = [o \in Operator |-> file]
  /\ move = [o \in Operator |-> NoMove]
  /\ outcome = [o \in Operator |-> "none"]
  /\ interrupts = 0 /\ refusals = 0 /\ blinks = 0 /\ losses = 0

Next == \E o \in Operator :
  \/ \E c \in Commands : Start(o, c)
  \/ Step(o)
  \/ Interrupt(o)
  \/ CrashInSave(o)

Spec == Init /\ [][Next]_vars

-----------------------------------------------------------------------------
(* Properties                                                              *)

TypeOK ==
  /\ name \in [VM -> {Absent, Final, Transient}]
  /\ running \in [VM -> BOOLEAN]
  /\ diskOn \in VM \cup {Nobody} /\ diskId \in VolumeIds
  /\ diskSerial \in BOOLEAN /\ diskLost \in BOOLEAN
  /\ file \in States
  /\ pc \in [Operator -> Points]
  /\ cmd \in [Operator -> Commands]
  /\ phase \in [Operator -> Phases \cup {"none"}]
  /\ mem \in [Operator -> States]
  /\ move \in [Operator -> Moves]
  /\ outcome \in [Operator -> Outcomes]
  /\ interrupts \in Nat /\ refusals \in Nat /\ blinks \in Nat /\ losses \in Nat

Originals    == Named(Final)
Replacements == Named(Transient)

\* The data disk, which the whole command exists to carry across, is never
\* destroyed, whatever is interrupted and however often it is resumed or
\* aborted.
DataDiskSurvives == ~diskLost

\* No two guests ever carry the bastion's final name, as long as no listing was
\* misread: discovery and teardown match on it (phase.go, PhaseBuilt).
OneBastionName == blinks = 0 => \A v, w \in Originals : v = w

\* Write-ahead: what has been done to the cluster never runs ahead of the
\* journal in the file, so that a resume never re-does or skips a change.
JournalCovers ==
  /\ Replacements # {} =>
       file.journal \in {"built", "handed-over", "retired", "adopted"}
  /\ diskOn \in Replacements =>
       file.journal \in {"handed-over", "retired", "adopted"}
  /\ Originals = {} => file.journal \in {"retired", "adopted"}

\* What a run or an abort reports is true: when a recycle says it is finished,
\* or an abort that everything is walked back, one guest is left, under the
\* final name, and it holds the data disk (engine.go, Run and Abort).
OutcomesAreTrue == \A o \in Operator : outcome[o] \in {"finished", "aborted"} =>
  /\ \E v \in Originals : diskOn = v /\ Originals = {v}
  /\ Replacements = {}

\* What was done to the disk and to the guests, the journal covers; and a report
\* of success is true.
RecordIsTrue == JournalCovers /\ OutcomesAreTrue

\* A process that keeps being re-run: whatever was interrupted, the operator
\* runs the command again, and aborts it again, and each process gets on.
FairSpec ==
  /\ Spec
  /\ \A o \in Operator : /\ WF_vars(Step(o))
                         /\ SF_vars(Start(o, "run"))
                         /\ SF_vars(Start(o, "abort"))

\* Past the point of no return the only way is forward, and re-running the
\* command gets there: a run that destroyed the original is finished.
NoReturnFinishes ==
  Originals = {} ~> \E o \in Operator : outcome[o] = "finished"

\* What the disk's custody promises; see DiskCustody.
Custody == INSTANCE DiskCustody WITH
  original    <- Originals # {},
  replacement <- Replacements # {},
  holder      <- IF diskOn \in Originals THEN "original"
                 ELSE IF diskOn \in Replacements THEN "replacement"
                 ELSE "nobody"

\* The recycle implements the custody promise, so the disk passes straight
\* from one live guest to the other and is never destroyed with either.
KeepsCustody == Custody!Spec

\* The original goes only once the disk is on another guest, whatever listing is
\* misread and even when the journal is lost, as long as the storage names the
\* volume after the guest that holds it: the guard in front of the destroy goes
\* by that name.
RetiredAfterHandover == [][diskId.vm = diskOn => \A v \in VM :
  name[v] = Final /\ name'[v] = Absent => diskOn \in VM \ {v}]_vars
=============================================================================
