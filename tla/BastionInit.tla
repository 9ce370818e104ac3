----------------------------- MODULE BastionInit -----------------------------
(***************************************************************************)
(* ocfp init bastion: the phases that provision a bastion, run one by one  *)
(* or with a batch of them on concurrent workers, the checkpoint on the    *)
(* workstation that --resume reads, and the marker on the bastion that     *)
(* makes the command skip everything.  Phases and saves fail, the command  *)
(* is killed and repeated with other flags, and the bastion is rebuilt     *)
(* between two runs, its home directory kept.                              *)
(***************************************************************************)
EXTENDS Naturals, Sequences, FiniteSets

CONSTANTS
  Keys,         \* phases that only the parallel lists name
  Pre,          \* the phases before the batch, in order
  Batch,        \* the batch, in the order the sequential list has it
  Post,         \* the phases after it, in order
  MarkerPhase,  \* custom_scripts, the phase that writes the marker
  Workers,      \* MaxWorkers
  MaxFaults,    \* bound on failures and kills
  MaxRebuilds   \* bound on replacements of the machine

Elements(s) == {s[i] : i \in DOMAIN s}
Phase == Elements(Keys \o Pre \o Batch \o Post)
TotalSteps == Len(Pre \o Batch \o Post)
Flags == [parallel : BOOLEAN, resume : BOOLEAN, dry : BOOLEAN]

ASSUME PhaseAssumption ==
  /\ {Keys, Pre, Batch, Post} \subseteq Seq(Phase)
  /\ \A i, j \in DOMAIN (Keys \o Pre \o Batch \o Post) :
       i # j => (Keys \o Pre \o Batch \o Post)[i] # (Keys \o Pre \o Batch \o Post)[j]
  /\ MarkerPhase \in Elements(Post)
  /\ Workers \in Nat \ {0} /\ MaxFaults \in Nat /\ MaxRebuilds \in Nat

VARIABLES
  done,      \* phases that have succeeded on this machine
  marker,    \* where the provisioned marker is, and whether the home directory is a mount
  file,      \* the checkpoint file: absent, empty, mixed from two writes, or whole
  flags, pc, \* the running command, "idle" between runs
  stage,     \* how far it is in its plan
  progress,  \* the phases it believes completed, and CompletedSteps
  at,        \* where each phase of the current stage is
  snapshot,  \* what each save under way has marshalled
  failed,    \* some phase of this stage failed
  report,    \* how the last run ended
  faults, rebuilds,
  hollow     \* history: phases a checkpoint claims that this machine never had

machine == <<done, marker, rebuilds>>
command == <<flags, pc, stage, progress, at, snapshot, failed, report>>
vars == <<machine, file, command, faults, hollow>>

Progress == [claims : SUBSET Phase, steps : Nat]
Fresh == [claims |-> {}, steps |-> 0]
File == [kind : {"absent", "empty", "mixed", "whole"}, saved : Progress]
Absent == [kind |-> "absent", saved |-> Fresh]
Nothing == [p \in Phase |-> Fresh]
AllAt(where) == [p \in Phase |-> where]
Fault == faults < MaxFaults /\ faults' = faults + 1
NoFault == UNCHANGED faults

\* The phases as stages: a stage of one is run by the command itself, the
\* batch of the parallel lists by the workers.
Singles(s) == [i \in DOMAIN s |-> {s[i]}]
Plan(parallel) ==
  IF parallel THEN Singles(Keys \o Pre) \o <<Elements(Batch)>> \o Singles(Post)
  ELSE Singles(Pre \o Batch \o Post)
Tasks == {p \in Phase : pc = "work" /\ p \in Plan(flags.parallel)[stage]}
Pooled == flags.parallel /\ stage = Len(Keys \o Pre) + 1
Before(p) == {q \in Phase \ {p} : \E i \in 1..(stage - 1) : q \in Plan(flags.parallel)[i]}

Init ==
  /\ \/ done = {} /\ marker = [os |-> FALSE, home |-> FALSE, mounted |-> FALSE]
     \/ done = Phase /\ marker = [os |-> FALSE, home |-> TRUE, mounted |-> FALSE]
  /\ file = Absent
  /\ flags = [parallel |-> FALSE, resume |-> FALSE, dry |-> FALSE] /\ pc = "idle" /\ stage = 1
  /\ progress = Fresh /\ at = AllAt("todo") /\ snapshot = Nothing
  /\ failed = FALSE /\ report = "none"
  /\ faults = 0 /\ rebuilds = 0 /\ hollow = {}

-----------------------------------------------------------------------------
(* The command starts: NewManager, Load, the connection and the gate. *)

Loadable == file.kind = "whole" /\ file.saved.steps <= TotalSteps

Start(f) ==
  /\ pc = "idle"
  /\ flags' = f /\ pc' = "connect" /\ stage' = 1 /\ failed' = FALSE /\ report' = "none"
  /\ \/ f.resume /\ Loadable /\ progress' = file.saved
     \/ progress' = Fresh        \* not resuming, nothing readable, or older than a day
  /\ UNCHANGED <<machine, file, at, snapshot, hollow>> /\ NoFault

Exit(how) ==
  /\ pc' = "idle" /\ report' = how /\ stage' = 1 /\ failed' = FALSE
  /\ progress' = Fresh /\ at' = AllAt("todo") /\ snapshot' = Nothing
  /\ UNCHANGED flags

\* setupInfrastructure and the sync of the authorized keys, made on every run.
\* A dry run has no connection, and ends here when keys are configured.
Connect ==
  /\ pc = "connect"
  /\ \/ /\ pc' = "gate" /\ NoFault
        /\ done' = IF flags.dry THEN done ELSE done \cup Elements(Keys)
        /\ hollow' = hollow \ done'
        /\ UNCHANGED <<flags, stage, progress, at, snapshot, failed, report>>
     \/ /\ (flags.dry /\ NoFault) \/ (~flags.dry /\ Fault)
        /\ Exit("failure") /\ UNCHANGED <<done, hollow>>
  /\ UNCHANGED <<marker, rebuilds, file>>

MutProvisioned == marker.os \/ marker.home
Provisioned == marker.os \/ (marker.home /\ ~marker.mounted)

\* checkAndSkipIfProvisioned: a check that fails counts as not provisioned.
Gate ==
  /\ pc = "gate"
  /\ \/ ~flags.dry /\ Provisioned /\ Exit("success") /\ NoFault
     \/ /\ \/ (flags.dry \/ ~Provisioned) /\ NoFault
           \/ ~flags.dry /\ Provisioned /\ Fault
        /\ pc' = "work"
        /\ UNCHANGED <<flags, stage, progress, at, snapshot, failed, report>>
  /\ UNCHANGED <<machine, file, hollow>>

-----------------------------------------------------------------------------
(* One phase: skip it, or run it, mark it and save the checkpoint. *)

Busy == {p \in Phase : at[p] \in {"running", "ran", "broke", "writing"}}

MutShouldSkipPhase(p) == flags.resume /\ stage <= progress.steps
ShouldSkipPhase(p) == flags.resume /\ p \in progress.claims

Skip(p) ==
  /\ at[p] = "todo" /\ Cardinality(Busy) < Workers /\ ShouldSkipPhase(p)
  /\ at' = [at EXCEPT ![p] = "finished"]
  /\ UNCHANGED <<machine, file, flags, pc, stage, progress, snapshot, failed, report, hollow>> /\ NoFault

\* The sequential list counts by position, the sequential parts of the
\* parallel lists by adding one, the workers not at all.
Steps ==
  IF Pooled THEN progress.steps ELSE IF flags.parallel THEN progress.steps + 1 ELSE stage - 1

Begin(p) ==
  /\ at[p] = "todo" /\ Cardinality(Busy) < Workers /\ ~ShouldSkipPhase(p)
  /\ progress' = [progress EXCEPT !.steps = Steps]
  /\ at' = [at EXCEPT ![p] = IF ~flags.dry THEN "running" ELSE IF Pooled THEN "ran" ELSE "finished"]
  /\ UNCHANGED <<machine, file, flags, pc, stage, snapshot, failed, report, hollow>> /\ NoFault

\* The phase's work on the machine, its retries included.
Succeed(p) ==
  /\ at[p] = "running"
  /\ at' = [at EXCEPT ![p] = "ran"]
  /\ done' = done \cup {p} /\ hollow' = hollow \ {p}
  /\ marker' = [marker EXCEPT !.os = @ \/ p = MarkerPhase]
  /\ UNCHANGED <<rebuilds, file, flags, pc, stage, progress, snapshot, failed, report>> /\ NoFault

\* The last attempt failed, or only its answer was lost.
Break(p) ==
  /\ at[p] = "running" /\ Fault
  /\ at' = [at EXCEPT ![p] = "broke"]
  /\ failed' = TRUE
  /\ \E effect \in BOOLEAN : marker' = [marker EXCEPT !.os = @ \/ (p = MarkerPhase /\ effect)]
  /\ UNCHANGED <<done, rebuilds, file, flags, pc, stage, progress, snapshot, report, hollow>>

MutMarkPhaseCompleted(p) == progress.claims \cup {p}
MarkPhaseCompleted(p) == IF at[p] = "ran" THEN progress.claims \cup {p} ELSE progress.claims

\* MarkPhaseCompleted and the first half of Save: marshal, then truncate the
\* file.  A worker that failed saves too, without a mark.
Save(p) ==
  /\ at[p] \in {"ran", "broke"}
  /\ progress' = [progress EXCEPT !.claims = MarkPhaseCompleted(p)]
  /\ hollow' = IF flags.dry THEN hollow \cup ({p} \ done) ELSE hollow
  /\ \/ /\ at' = [at EXCEPT ![p] = "writing"] /\ NoFault
        /\ snapshot' = [snapshot EXCEPT ![p] = progress']
        /\ file' = [kind |-> "empty", saved |-> Fresh]
     \/ /\ at' = [at EXCEPT ![p] = "finished"] /\ Fault   \* the failure is only logged
        /\ UNCHANGED <<snapshot, file>>
  /\ UNCHANGED <<machine, flags, pc, stage, failed, report>>

\* The second half of Save.  Over what another worker wrote since, the
\* shorter document leaves the tail of the longer one.
Write(p) ==
  /\ at[p] = "writing"
  /\ at' = [at EXCEPT ![p] = "finished"]
  /\ snapshot' = [snapshot EXCEPT ![p] = Fresh]
  /\ \/ file' = [kind |-> "whole", saved |-> snapshot[p]] /\ NoFault
     \/ file.kind # "empty" /\ file' = [kind |-> "mixed", saved |-> Fresh] /\ NoFault
     \/ UNCHANGED file /\ Fault
  /\ UNCHANGED <<machine, flags, pc, stage, progress, failed, report, hollow>>

-----------------------------------------------------------------------------
(* From stage to stage, the end, and what happens between and during runs. *)

\* collectWorkerResults: every task of the batch answers, then the command
\* stops if one of them failed.
MutProceed == TRUE
Proceed == ~failed

MutNextStage ==
  /\ pc = "work" /\ \A p \in Tasks : at[p] = "finished"
  /\ \/ /\ ~Proceed /\ Exit("failure")
     \/ /\ Proceed
        /\ IF stage <= Len(Plan(flags.parallel)) THEN stage' = stage + 1 /\ UNCHANGED pc
           ELSE pc' = "finalize" /\ UNCHANGED stage
        /\ at' = AllAt("todo") /\ failed' = FALSE
        /\ UNCHANGED <<flags, progress, snapshot, report>>
  /\ UNCHANGED <<machine, file, hollow>> /\ NoFault
NextStage ==
  /\ pc = "work" /\ \A p \in Tasks : at[p] = "finished"
  /\ \/ /\ ~Proceed /\ Exit("failure")
     \/ /\ Proceed
        /\ IF stage < Len(Plan(flags.parallel)) THEN stage' = stage + 1 /\ UNCHANGED pc
           ELSE pc' = "finalize" /\ UNCHANGED stage
        /\ at' = AllAt("todo") /\ failed' = FALSE
        /\ UNCHANGED <<flags, progress, snapshot, report>>
  /\ UNCHANGED <<machine, file, hollow>> /\ NoFault

\* finalizeInitialization clears the checkpoint, after a dry run too.
Finalize ==
  /\ pc = "finalize"
  /\ \/ file' = Absent /\ NoFault
     \/ UNCHANGED file /\ Fault
  /\ Exit(IF flags.dry THEN "dry" ELSE "success")
  /\ UNCHANGED <<machine, hollow>>

\* Killed, or brought down by the runtime: workers write the same map and
\* marshal it without a lock.
Kill ==
  /\ pc # "idle" /\ Fault /\ Exit("none")
  /\ UNCHANGED <<machine, file, hollow>>

\* A recycle, or a teardown and a bootstrap: a new OS disk, with the home
\* directory mounted from the data disk where there is one.
Rebuild ==
  /\ pc = "idle" /\ rebuilds < MaxRebuilds /\ rebuilds' = rebuilds + 1
  /\ done' = {} /\ report' = "none"
  /\ \/ marker' = [os |-> FALSE, home |-> FALSE, mounted |-> FALSE]
     \/ marker' = [os |-> FALSE, home |-> marker.home, mounted |-> TRUE]
  /\ hollow' = IF file.kind = "whole" THEN file.saved.claims ELSE {}
  /\ UNCHANGED <<file, flags, pc, stage, progress, at, snapshot, failed>> /\ NoFault

Work(p) == Skip(p) \/ Begin(p) \/ Succeed(p) \/ Break(p) \/ Save(p) \/ Write(p)
Step == Connect \/ Gate \/ (\E p \in Tasks : Work(p)) \/ NextStage \/ Finalize
Next == (\E f \in Flags : Start(f)) \/ Step \/ Kill \/ Rebuild

Spec == Init /\ [][Next]_vars

\* A run that was started goes on, and the operator keeps asking for real runs.
Asked == \E f \in Flags : ~f.dry /\ Start(f)
FairSpec == Spec /\ WF_vars(Step) /\ SF_vars(Asked)

-----------------------------------------------------------------------------
TypeOK ==
  /\ done \subseteq Phase /\ hollow \subseteq Phase
  /\ marker \in [os : BOOLEAN, home : BOOLEAN, mounted : BOOLEAN]
  /\ file \in File /\ progress \in Progress
  /\ flags \in Flags /\ pc \in {"idle", "connect", "gate", "work", "finalize"}
  /\ stage \in 1..Len(Plan(flags.parallel))
  /\ at \in [Phase -> {"todo", "running", "ran", "broke", "writing", "finished"}]
  /\ snapshot \in [Phase -> Progress]
  /\ failed \in BOOLEAN /\ report \in {"none", "success", "failure", "dry"}
  /\ faults \in 0..MaxFaults /\ rebuilds \in 0..MaxRebuilds

\* A checkpoint tells the truth: whatever the workers' saves do to each other
\* and wherever the command is killed, a phase that a readable checkpoint (or
\* the running command) takes for completed has succeeded on this machine,
\* but for the two ways a claim is hollow: it was made by a dry run, or about
\* the machine before this one (CheckpointManager.Save, Load, phaseWorker).
ClaimsAreTrue ==
  /\ file.kind = "whole" => file.saved.claims \subseteq done \cup hollow
  /\ progress.claims \subseteq done \cup hollow

\* A run that reports success, by running the phases or by finding the marker,
\* leaves a machine on which every phase before the marker's has succeeded: a
\* marker kept on a persisted home directory does not count
\* (provisionedMarkerCheckCommand, runCustomScripts).
SuccessMeansProvisioned ==
  report = "success" =>
    \A i \in DOMAIN (Pre \o Batch \o Post), j \in DOMAIN (Pre \o Batch \o Post) :
      i < j /\ (Pre \o Batch \o Post)[j] = MarkerPhase => (Pre \o Batch \o Post)[i] \in done \cup hollow

\* A phase runs on the machine only after every phase listed before it has
\* succeeded there, in either mode and however the runs before this one
\* ended: the packages before the tools, the vault before its teardown (the
\* MUST comments of getInitializationPhases).
OrderKept ==
  [][\A p \in Phase : at[p] = "running" /\ at'[p] = "ran" => Before(p) \subseteq done \cup hollow]_vars

\* A dry run, on whichever executor, changes nothing on the machine
\* (executePhase, runPhasesSequential, phaseWorker).
DryRunChangesNothing == [][pc # "idle" /\ flags.dry => UNCHANGED machine]_vars

\* Once the faults and the rebuilds are over, repeating the command leaves a
\* bastion that is provisioned and stays so.
Converges == <>[](marker.os \/ (marker.home /\ ~marker.mounted))
=============================================================================
