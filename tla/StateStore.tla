----------------------------- MODULE StateStore -----------------------------
(***************************************************************************)
(* The state file of one bloc and the commands that share it               *)
(* (internal/state/state.go and backup.go).  Every command builds its own  *)
(* Manager, loads the document into memory, changes it there and writes    *)
(* the whole document back:                                                *)
(*   recorder  bootstrap, recycle, the bastion IP cache: Load, AddResource *)
(*             or SetOutput, Save;                                         *)
(*   syncer    state sync: Load, merge, SaveWithBackup;                    *)
(*   remover   teardown: Load, Lock, RemoveResource and Save for each      *)
(*             resource, Unlock.                                           *)
(* Only the remover takes the lock, and it loads before it does.  A file   *)
(* is absent, empty (truncated, nothing written yet), torn (cut in the     *)
(* middle) or whole; the document of a whole file is its set of keys.      *)
(***************************************************************************)
EXTENDS Integers, FiniteSets

CONSTANTS Nobody,       \* no process
          Process,      \* the commands
          Resource,     \* the keys a document may hold
          Initial,      \* what the document holds at the start
          Role,         \* Role[p] in Roles
          Job,          \* Job[p]: the keys p adds (recorder, syncer) or removes
          Forcing,      \* the removers run with --force
          Together,     \* the commands that may run at once; the others run alone
          Faults,       \* the faults that may happen, among FaultKinds
          MaxFaults,    \* how many of them (a bound)
          MaxClock,     \* the seconds that pass (a bound)
          MaxBackups    \* how many timestamped backups are kept (5 in the code)

Roles == {"recorder", "syncer", "remover"}
FaultKinds == {"crash", "rename", "write", "backup", "replace", "clock"}

ASSUME StoreAssumption ==
    /\ Nobody \notin Process
    /\ Role \in [Process -> Roles]
    /\ Initial \subseteq Resource
    /\ Job \in [Process -> SUBSET Resource]
    /\ Forcing \subseteq Process
    /\ Together \subseteq Process
    /\ Faults \subseteq FaultKinds
    /\ MaxFaults \in Nat /\ MaxClock \in Nat /\ MaxBackups \in Nat \ {0}

NoStamp == -1

Absent == [is |-> "absent", keys |-> {}]
Empty  == [is |-> "empty",  keys |-> {}]
Torn   == [is |-> "torn",   keys |-> {}]
Whole(keys) == [is |-> "whole", keys |-> keys]
File == {Absent, Empty, Torn} \cup {Whole(k) : k \in SUBSET Resource}

(***************************************************************************)
(* What a process holds in memory.  Parsing an empty file as YAML succeeds *)
(* and gives a document without a bloc name and with nil maps: such a      *)
(* document is anonymous, and saving it writes another file than ours.     *)
(***************************************************************************)
Document == [named : BOOLEAN, keys : SUBSET Resource]
Blank == [named |-> FALSE, keys |-> {}]

VARIABLES file,      \* <bloc>.json
          plain,     \* <bloc>.json.backup, which Save renames the file to
          fd,        \* which of the two a process has open for writing
          stamped,   \* the timestamped backups: [at, doc]
          lock,      \* who wrote <bloc>.lock, or Nobody
          clock,     \* the local time, in seconds
          faults,    \* how many faults so far
          happened,  \* and of which kinds
          pc,        \* where each process is
          mem,       \* m.current of each process
          todo,      \* the keys of its job it has still to handle
          made,      \* the stamp createBackup returned, or NoStamp
          fate,      \* for each key, what the last save that changed it said
          astray,    \* who loaded no or an anonymous document, or one lacking saved keys
          seized,    \* who has removed a lock with --force
          overlap    \* whether a command has started while another was at work
vars == <<file, plain, fd, stamped, lock, clock, faults, happened, pc, mem,
          todo, made, fate, astray, seized, overlap>>
disk == <<file, plain, fd, stamped>>
ghosts == <<fate, astray, seized, overlap>>
hazards == <<faults, happened>>

Points == {"start", "unlocked", "forced", "loaded", "changed", "renamed",
           "opened", "backed", "written", "failed", "reopened", "gone"}

TypeOK ==
    /\ file \in File /\ plain \in File
    /\ fd \in [Process -> {"file", "plain", "none"}]
    /\ stamped \subseteq [at : 0..MaxClock, doc : File]
    /\ lock \in Process \cup {Nobody}
    /\ clock \in 0..MaxClock /\ faults \in 0..MaxFaults /\ happened \subseteq FaultKinds
    /\ pc \in [Process -> Points]
    /\ mem \in [Process -> Document]
    /\ todo \in [Process -> SUBSET Resource]
    /\ made \in [Process -> (0..MaxClock) \cup {NoStamp}]
    /\ fate \in [Resource -> BOOLEAN]
    /\ astray \subseteq Process /\ seized \subseteq Process /\ overlap \in BOOLEAN

Init ==
    /\ file = IF Initial = {} THEN Absent ELSE Whole(Initial)
    /\ plain = Absent /\ stamped = {}
    /\ fd = [p \in Process |-> "none"]
    /\ lock = Nobody
    /\ clock = 0 /\ faults = 0 /\ happened = {}
    /\ pc = [p \in Process |-> "start"]
    /\ mem = [p \in Process |-> Blank]
    /\ todo = Job
    /\ made = [p \in Process |-> NoStamp]
    /\ fate = [k \in Resource |-> k \in Initial]
    /\ astray = {} /\ seized = {} /\ overlap = FALSE

Goto(p, point) == pc' = [pc EXCEPT ![p] = point]

\* A fault of this kind happens now.
Fails(kind) ==
    /\ kind \in Faults /\ faults < MaxFaults
    /\ faults' = faults + 1 /\ happened' = happened \cup {kind}

(***************************************************************************)
(* Load.                                                                   *)
(***************************************************************************)
AfterLoad(p) == IF Role[p] = "remover" THEN "unlocked" ELSE "loaded"

\* The directory has no state file: a fresh document, kept in memory only.
LoadFresh(p) ==
    /\ file = Absent
    /\ mem' = [mem EXCEPT ![p] = [named |-> TRUE, keys |-> {}]]
    /\ Goto(p, AfterLoad(p))

LoadWhole(p) ==
    /\ file.is = "whole"
    /\ mem' = [mem EXCEPT ![p] = [named |-> TRUE, keys |-> file.keys]]
    /\ Goto(p, AfterLoad(p))

LoadEmpty(p) ==
    /\ file = Empty
    /\ mem' = [mem EXCEPT ![p] = Blank]
    /\ Goto(p, AfterLoad(p))

\* Slip: the parse error is dropped and what was parsed is used.
MutLoadRefused(p) ==
    /\ file = Torn
    /\ mem' = [mem EXCEPT ![p] = file]
    /\ Goto(p, AfterLoad(p))

\* A torn file: an error, which teardown only logs; it goes on with no document,
\* and nothing it saves reaches the file.
LoadRefused(p) ==
    /\ file = Torn
    /\ Goto(p, IF Role[p] = "remover" THEN "unlocked" ELSE "gone")
    /\ UNCHANGED mem

AtWork(p) == pc[p] \notin {"start", "gone"}

Load(p) ==
    /\ pc[p] = "start"
    /\ \A q \in Process : AtWork(q) => {p, q} \subseteq Together
    /\ overlap' = (overlap \/ \E q \in Process : AtWork(q))
    /\ LoadFresh(p) \/ LoadWhole(p) \/ LoadEmpty(p) \/ LoadRefused(p)
    /\ astray' = IF file.is \in {"absent", "whole"} /\ {k \in Resource : fate[k]} \subseteq file.keys
                 THEN astray ELSE astray \cup {p}
    /\ UNCHANGED <<disk, lock, clock, hazards, todo, made, fate, seized>>

(***************************************************************************)
(* Changes in memory.                                                      *)
(***************************************************************************)
\* AddResource.  In an anonymous document the map is nil: the write panics.
AddResource(p, k) ==
    /\ Role[p] = "recorder" /\ pc[p] = "loaded" /\ k \in todo[p]
    /\ IF mem[p].named
         THEN /\ mem' = [mem EXCEPT ![p].keys = @ \cup {k}]
              /\ Goto(p, "changed")
         ELSE /\ Goto(p, "gone")
              /\ UNCHANGED mem
    /\ todo' = [todo EXCEPT ![p] = @ \ {k}]
    /\ UNCHANGED <<disk, lock, clock, hazards, made, ghosts>>

\* RemoveResource.  A key the document does not hold is an error that teardown
\* only logs before it saves all the same.
RemoveResource(p, k) ==
    /\ Role[p] = "remover" /\ pc[p] = "loaded" /\ k \in todo[p]
    /\ mem' = [mem EXCEPT ![p].keys = @ \ {k}]
    /\ todo' = [todo EXCEPT ![p] = @ \ {k}]
    /\ Goto(p, "changed")
    /\ UNCHANGED <<disk, lock, clock, hazards, made, ghosts>>

\* The reconciler's merge; it makes the map of an anonymous document first.
MergeResources(p) ==
    /\ Role[p] = "syncer" /\ pc[p] = "loaded"
    /\ mem' = [mem EXCEPT ![p].keys = @ \cup todo[p]]
    /\ todo' = [todo EXCEPT ![p] = {}]
    /\ Goto(p, "changed")
    /\ UNCHANGED <<disk, lock, clock, hazards, made, ghosts>>

(***************************************************************************)
(* Files under writers: a rename moves a file away from, or removes it     *)
(* from under, whoever has it open, and two writers of one file both write *)
(* from its start, so that the longer document sticks out at the end.      *)
(***************************************************************************)
FileMoved == [q \in Process |-> CASE fd[q] = "file" -> "plain" [] OTHER -> "none"]
FileReplaced == [q \in Process |-> IF fd[q] = "file" THEN "none" ELSE fd[q]]

Over(old, new) ==
    IF old.is = "whole" /\ Cardinality(old.keys) > Cardinality(new.keys)
    THEN Torn ELSE new

\* A write through fd[p]: what it leaves in the file and in the backup, should
\* p have that one open.
WriteThrough(p, infile, inplain) ==
    /\ file'  = IF fd[p] = "file"  THEN infile  ELSE file
    /\ plain' = IF fd[p] = "plain" THEN inplain ELSE plain
    /\ fd' = [fd EXCEPT ![p] = "none"]

Write(p, doc) == WriteThrough(p, Over(file, doc), Over(plain, doc))
CutThrough(p) == \E half \in {Empty, Torn} : WriteThrough(p, half, half)

(***************************************************************************)
(* Save: the old file becomes the backup, then the new one is written in   *)
(* place.  A rename that fails is only logged.                             *)
(***************************************************************************)
\* Slip: the old file is dropped, not kept as .backup.
MutSaveRename(p) ==
    /\ Role[p] # "syncer" /\ pc[p] = "changed"
    /\ file' = IF mem[p].named THEN Absent ELSE file
    /\ Goto(p, "renamed")
    /\ UNCHANGED <<plain, fd, hazards, stamped, lock, clock, mem, todo, made, ghosts>>

SaveRename(p) ==
    /\ Role[p] # "syncer" /\ pc[p] = "changed"
    /\ \/ /\ ~mem[p].named \/ file = Absent
          /\ UNCHANGED <<file, plain, fd, hazards>>
       \/ /\ mem[p].named /\ file # Absent
          /\ plain' = file /\ file' = Absent /\ fd' = FileMoved
          /\ UNCHANGED hazards
       \/ /\ mem[p].named /\ file # Absent
          /\ Fails("rename")
          /\ UNCHANGED <<file, plain, fd>>
    /\ Goto(p, "renamed")
    /\ UNCHANGED <<stamped, lock, clock, mem, todo, made, ghosts>>

\* os.WriteFile truncates or creates the file, then writes it.
SaveOpen(p) ==
    /\ pc[p] = "renamed"
    /\ \/ /\ IF mem[p].named
               THEN file' = Empty /\ fd' = [fd EXCEPT ![p] = "file"]
               ELSE UNCHANGED <<file, fd>>
          /\ Goto(p, "opened")
          /\ UNCHANGED hazards
       \/ /\ Fails("write")
          /\ Goto(p, "loaded")
          /\ UNCHANGED <<file, fd>>
    /\ UNCHANGED <<plain, stamped, lock, clock, mem, todo, made, ghosts>>

SaveWrite(p) ==
    /\ pc[p] = "opened"
    /\ \/ /\ Write(p, Whole(mem[p].keys))
          /\ fate' = [k \in Resource |-> IF k \in Job[p] \ todo[p]
                                        THEN k \in mem[p].keys ELSE fate[k]]
          /\ UNCHANGED hazards
       \/ /\ Fails("write")
          /\ CutThrough(p)
          /\ UNCHANGED fate
    /\ Goto(p, "loaded")
    /\ UNCHANGED <<stamped, lock, clock, mem, todo, made, astray, seized, overlap>>

(***************************************************************************)
(* SaveWithBackup: a timestamped copy, an atomic replacement, the old      *)
(* backups removed; when the replacement fails, the latest backup is       *)
(* written back in place.                                                  *)
(***************************************************************************)
Stamps == {b.at : b \in stamped}
Backups(at, doc) == {b \in stamped : b.at # at} \cup {[at |-> at, doc |-> doc]}

\* createBackup: nothing to copy, a copy, or a failed copy that is only logged.
CreateBackup(p) ==
    /\ Role[p] = "syncer" /\ pc[p] = "changed"
    /\ \/ /\ ~mem[p].named \/ file = Absent
          /\ UNCHANGED <<stamped, made, hazards>>
       \/ /\ mem[p].named /\ file # Absent
          /\ stamped' = Backups(clock, file)
          /\ made' = [made EXCEPT ![p] = clock]
          /\ UNCHANGED hazards
       \/ /\ mem[p].named /\ file # Absent
          /\ Fails("backup")
          /\ stamped' \in {stamped} \cup {Backups(clock, d) : d \in {Empty, Torn}}
          /\ UNCHANGED made
    /\ Goto(p, "backed")
    /\ UNCHANGED <<file, plain, fd, lock, clock, mem, todo, ghosts>>

\* atomicWrite: a temporary file renamed over the state file.
AtomicWrite(p) ==
    /\ pc[p] = "backed"
    /\ \/ /\ IF mem[p].named
               THEN file' = Whole(mem[p].keys) /\ fd' = FileReplaced
               ELSE UNCHANGED <<file, fd>>
          /\ fate' = [k \in Resource |-> k \in Job[p] \/ fate[k]]
          /\ Goto(p, "written")
          /\ UNCHANGED hazards
       \/ /\ Fails("replace")
          /\ Goto(p, IF made[p] = NoStamp THEN "gone" ELSE "failed")
          /\ UNCHANGED <<file, fd, fate>>
    /\ UNCHANGED <<plain, stamped, lock, clock, mem, todo, made, astray, seized, overlap>>

\* Slip: sorted the other way round.
MutLatestBackup == CHOOSE b \in stamped : \A c \in stamped : c.at >= b.at

\* getLatestBackup goes by the timestamp in the name.
LatestBackup == CHOOSE b \in stamped : \A c \in stamped : c.at <= b.at

\* restoreFromBackupLocked: another in-place write, which may fail as well.
RollbackOpen(p) ==
    /\ pc[p] = "failed"
    /\ \/ /\ file' = Empty /\ fd' = [fd EXCEPT ![p] = "file"]
          /\ Goto(p, "reopened")
          /\ UNCHANGED hazards
       \/ /\ Fails("write")
          /\ Goto(p, "gone")
          /\ UNCHANGED <<file, fd>>
    /\ UNCHANGED <<plain, stamped, lock, clock, mem, todo, made, ghosts>>

RollbackWrite(p) ==
    /\ pc[p] = "reopened"
    /\ \/ /\ Write(p, LatestBackup.doc)
          /\ UNCHANGED hazards
       \/ /\ Fails("write")
          /\ CutThrough(p)
    /\ Goto(p, "gone")
    /\ UNCHANGED <<stamped, lock, clock, mem, todo, made, ghosts>>

\* cleanupOldBackups keeps the newest.
Newest == {b \in stamped :
             Cardinality({c \in stamped : c.at > b.at}) < MaxBackups}
CleanupOldBackups(p) ==
    /\ pc[p] = "written"
    /\ stamped' = Newest
    /\ Goto(p, "gone")
    /\ UNCHANGED <<file, plain, fd, lock, clock, hazards, mem, todo, made, ghosts>>

(***************************************************************************)
(* The lock file.                                                          *)
(***************************************************************************)
\* Slip: the stat-then-create lock: the check is not part of the step.
MutLock(p) ==
    /\ pc[p] \in {"unlocked", "forced"}
    /\ lock' = p
    /\ Goto(p, "loaded")
    /\ UNCHANGED <<disk, clock, hazards, mem, todo, made, ghosts>>

\* O_CREATE|O_EXCL: the file is created or found, in one step.
Lock(p) ==
    /\ pc[p] \in {"unlocked", "forced"} /\ lock = Nobody
    /\ lock' = p
    /\ Goto(p, "loaded")
    /\ UNCHANGED <<disk, clock, hazards, mem, todo, made, ghosts>>

LockRefused(p) ==
    /\ lock # Nobody
    /\ \/ pc[p] = "unlocked" /\ p \notin Forcing
       \/ pc[p] = "forced"
    /\ Goto(p, "gone")
    /\ UNCHANGED <<disk, lock, clock, hazards, mem, todo, made, ghosts>>

\* --force removes whatever lock is there, then tries to take it once more.
BreakLock(p) ==
    /\ pc[p] = "unlocked" /\ lock # Nobody /\ p \in Forcing
    /\ lock' = Nobody
    /\ seized' = seized \cup {p}
    /\ Goto(p, "forced")
    /\ UNCHANGED <<disk, clock, hazards, mem, todo, made, fate, astray, overlap>>

\* The deferred Unlock removes the lock file, whoever wrote it.
Unlock(p) ==
    /\ Role[p] = "remover" /\ pc[p] = "loaded"
    /\ lock' = Nobody
    /\ Goto(p, "gone")
    /\ UNCHANGED <<disk, clock, hazards, mem, todo, made, ghosts>>

(***************************************************************************)
(* A recorder ends; any process may be killed; time passes.                *)
(***************************************************************************)
Finish(p) ==
    /\ Role[p] = "recorder" /\ pc[p] = "loaded" /\ todo[p] # Job[p]
    /\ Goto(p, "gone")
    /\ UNCHANGED <<disk, lock, clock, hazards, mem, todo, made, ghosts>>

\* Killed while it writes, a process leaves the file half written; atomicWrite
\* leaves only a temporary file.
Crash(p) ==
    /\ pc[p] \notin {"start", "gone"}
    /\ Fails("crash")
    /\ CutThrough(p)
    /\ Goto(p, "gone")
    /\ UNCHANGED <<stamped, lock, clock, mem, todo, made, ghosts>>

Tick ==
    /\ clock < MaxClock
    /\ clock' = clock + 1
    /\ UNCHANGED <<disk, lock, hazards, pc, mem, todo, made, ghosts>>

\* The names carry local time, which steps back when summer time ends.
ClockBack ==
    /\ Fails("clock")
    /\ clock' \in 0..(clock - 1)
    /\ UNCHANGED <<disk, lock, pc, mem, todo, made, ghosts>>

AllGone == /\ \A p \in Process : pc[p] = "gone"
           /\ UNCHANGED vars

Step(p) ==
    \/ Load(p) \/ MergeResources(p)
    \/ \E k \in Resource : AddResource(p, k) \/ RemoveResource(p, k)
    \/ SaveRename(p) \/ SaveOpen(p) \/ SaveWrite(p)
    \/ CreateBackup(p) \/ AtomicWrite(p) \/ CleanupOldBackups(p)
    \/ RollbackOpen(p) \/ RollbackWrite(p)
    \/ Lock(p) \/ LockRefused(p) \/ BreakLock(p) \/ Unlock(p)
    \/ Finish(p) \/ Crash(p)

Next == (\E p \in Process : Step(p)) \/ Tick \/ ClockBack \/ AllGone
Spec == Init /\ [][Next]_vars

(***************************************************************************)
(* Properties.                                                             *)
(***************************************************************************)
None(kinds) == happened \cap kinds = {}

\* The processes that are deleting resources under the lock.
Critical(p) == /\ Role[p] = "remover"
               /\ pc[p] \in {"loaded", "changed", "renamed", "opened"}

\* What a command saved stays saved: between writes the state file holds
\* exactly the keys the last save that touched them said it should hold, also
\* after renames, backups and replacements that failed. (Save and
\* SaveWithBackup write the whole document a process loaded, so a stale
\* document would take back what another command recorded.)
NothingForgotten ==
    None({"crash", "write", "clock"}) /\ ~overlap
      /\ (\A p \in Process : pc[p] \notin {"renamed", "opened", "reopened"})
        => \A k \in Resource : fate[k] <=> k \in file.keys

\* One fault of any kind, wherever it cuts a save or a sync short, leaves every
\* saved key in some readable copy - the state file, .backup, a timestamped
\* backup, or the memory of the command that is still running - until some
\* command starts from a document that lacks it; but for the key a teardown is
\* just removing.
Live(p) == AtWork(p) /\ mem[p].named
Removed(p) == IF Role[p] = "remover" THEN Job[p] \ todo[p] ELSE {}
CopyKept ==
    faults <= 1 /\ astray = {} /\ ~overlap =>
      \A k \in Resource : fate[k] =>
        \/ k \in file.keys \cup plain.keys
        \/ \E b \in stamped : k \in b.doc.keys
        \/ \E p \in Process : Live(p) /\ k \in mem[p].keys
        \/ \E p \in Process : k \in Removed(p)

\* At most one teardown works on the state at a time until one is run with
\* --force over another's lock.
Exclusive ==
    seized = {} => \A p, q \in Process : Critical(p) /\ Critical(q) => p = q

=============================================================================
