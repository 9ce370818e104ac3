-------------------------------- MODULE Home --------------------------------
(***************************************************************************)
(* The program's own directories on the operator's machine: state.yml,     *)
(* which holds the SSH keys of every bloc and is shared by all commands    *)
(* (src/internal/config/state.go, statelock*.go); the locks that tell      *)
(* which commands are running (cli/root.go, commands/logs_tracker.go); and *)
(* `config migrate`, which moves ~/.ocfp to the XDG directories            *)
(* (commands/migrate.go) while every lookup reads whichever of the two     *)
(* places has the file (config/xdg.go).                                    *)
(*                                                                         *)
(* A command saves the keys of its own bloc, or sets the current bloc, by  *)
(* loading the whole document, changing it and writing it back in place,   *)
(* under the state lock.  Before that it has read the document without the *)
(* lock, which converts an old config.yml when there is no document yet.   *)
(*                                                                         *)
(* The document is the set of blocs whose keys it holds; a truncated one   *)
(* reads as empty.  One file or two stand for each way a legacy entry is   *)
(* classified.  A save resolves the path of the document and opens it in   *)
(* two steps.  Locks, reads and the conversion do both in one: in between  *)
(* only a migration can move the file, and the properties except what a    *)
(* command does to the document beside the moves.  The lock files of       *)
(* .active are not moved: the guard in front of a migration removes those  *)
(* nobody holds and refuses otherwise.                                     *)
(* A process id in use again is told from the holder (proc_start.go).      *)
(***************************************************************************)
EXTENDS Integers, FiniteSets, Sequences

CONSTANTS
    Commands,    \* processes, each for a bloc of its own
    Elder,       \* the bloc whose keys are there from the start
    Layouts,     \* records [legacy, new: sets of files, dirs: set of entries]
    Nobody, Dead, None,
    MaxFaults    \* bound: kills and failed writes or copies

Sides == {"legacy", "new"}
Roots == Sides \cup {"stray"}    \* stray: under XDG, where no lookup goes

\* The entries of ~/.ocfp in the order they move: by class, then by name.
MutEntries == <<"config", "bloc", "logs", "state", "lock", "keys">>
Entries == <<"config", "logs", "state", "lock", "keys", "bloc">>
Directories == {"logs", "keys", "bloc"}
Under == [config |-> {"config"}, logs |-> {"log"}, state |-> {"state"},
          lock |-> {"lock"}, keys |-> {"key"}, bloc |-> {"log", "vault"}]

Files == (UNION {Under[e] : e \in DOMAIN Under}) \cup {"note"}
Blocs == Commands \cup {Elder}

\* Where a file lands when entry e is moved: a bloc's logs have an entry of
\* their own, and go astray when they are moved with the bloc.
Landing(e, f) == IF e = "bloc" /\ f = "log" THEN "stray" ELSE "new"

ASSUME ElderAssumption == Elder \notin Commands
ASSUME NamesAssumption ==
    /\ Nobody \notin Commands /\ Dead \notin Commands
    /\ None \notin {"part", "whole", "other"} \cup Sides
    /\ \A S \in SUBSET Blocs : S # None
\* A file that is in a directory of the new place has it there.
ASSUME LayoutsAssumption ==
    /\ Layouts \subseteq [legacy : SUBSET Files, new : SUBSET Files,
                          dirs : SUBSET Directories]
    /\ \A l \in Layouts, e \in Directories : e \notin l.dirs =>
         \A f \in Under[e] : Landing(e, f) = "new" => f \notin l.new
ASSUME FaultsAssumption == MaxFaults \in Nat

VARIABLES
    machine,   \* [unix, xdev, oldKeys, layout]: what the run starts from
    at,        \* the files under each root: None where there is none; a set of
               \* blocs for state.yml; "part", "whole" or "other" for the rest
    dirs,      \* the entries whose destination directory exists
    holder,    \* who holds the state lock of either side
    pc, mem,   \* per command: where it is, and the document it loaded
    lockSide, fileSide,    \* where it opened the lock, and the document
    track,     \* where its lock in .active is
    mig,       \* the migration
    faults,
    \* what the properties need to know and the code does not
    spoilt,    \* one of the three accidents that KeysKept excepts has happened
    saved,     \* until then: the blocs whose SaveBlocKeys reported success
    cut,       \* a migration was killed while it copied or removed
    revived    \* a save has made state.yml anew at a place it had left

diskVars == <<at, dirs>>
cmdVars == <<pc, mem, lockSide, fileSide, track, holder>>
vars == <<machine, diskVars, cmdVars, mig, faults, saved, spoilt, cut, revived>>

\* seen: the running commands that had a lock when the guard looked.
NoMigration == [pc |-> "idle", i |-> 0, plan |-> {}, todo |-> {},
                mode |-> "merge", leaf |-> "note", seen |-> {}]

Has(r, f) == at[r][f] # None

Init ==
    \E l \in Layouts, u, x, o \in BOOLEAN :
        /\ o => "config" \in l.legacy \cup l.new /\ "state" \notin l.legacy
        /\ machine = [unix |-> u, xdev |-> x, oldKeys |-> o, layout |-> l]
        /\ at = [r \in Roots |-> [f \in Files |->
                   IF r = "legacy" /\ f \in l.legacy
                   THEN IF f = "state" THEN {Elder} ELSE "whole"
                   ELSE IF r = "new" /\ f \in l.new
                   THEN IF f = "state" THEN {Elder} ELSE "other" ELSE None]]
        /\ dirs = l.dirs
        /\ saved = IF "state" \in l.legacy \cup l.new THEN {Elder} ELSE {}
        /\ holder = [s \in Sides |-> IF ~u /\ at[s]["lock"] # None THEN Dead
                                     ELSE Nobody]    \* the file is the lock
        /\ pc = [c \in Commands |-> "off"] /\ mem = [c \in Commands |-> {}]
        /\ lockSide = [c \in Commands |-> "new"]
        /\ fileSide = [c \in Commands |-> "new"]
        /\ track = [c \in Commands |-> None]
        /\ mig = NoMigration /\ faults = 0 /\ spoilt = FALSE /\ cut = FALSE
        /\ revived = FALSE
-----------------------------------------------------------------------------
(* Commands                                                                *)

\* The new place if the file is there, else the old one if it is there.
Resolved == IF ~Has("new", "state") /\ Has("legacy", "state") THEN "legacy" ELSE "new"

Document == IF Has(Resolved, "state") THEN at[Resolved]["state"] ELSE {}

\* LoadState with no document: config.yml may still hold the old keys.
Converting ==
    /\ ~Has(Resolved, "state") /\ machine.oldKeys
    /\ \/ at["new"]["config"] \in {"whole", "other"}
       \/ ~Has("new", "config") /\ at["legacy"]["config"] = "whole"

Forget(c) ==
    /\ mem' = [mem EXCEPT ![c] = {}]
    /\ lockSide' = [lockSide EXCEPT ![c] = "new"]
    /\ fileSide' = [fileSide EXCEPT ![c] = "new"]
Goto(c, l) == pc' = [pc EXCEPT ![c] = l]
CmdKeep == UNCHANGED <<machine, mig, faults, cut>>

\* The flag --bloc and OCFP_BLOC spare the command the first look.
Peek(c) ==
    /\ pc[c] = "off"
    /\ \/ Goto(c, "track")
       \/ Converting /\ Goto(c, "convert")
    /\ CmdKeep
    /\ UNCHANGED <<diskVars, mem, lockSide, fileSide, track, holder>>

\* The save of the conversion: no lock is taken for it here.
Convert(c) ==
    /\ pc[c] = "convert" /\ Goto(c, "track")
    /\ at' = [at EXCEPT ![Resolved]["state"] = {}]
    /\ CmdKeep
    /\ UNCHANGED <<dirs, mem, lockSide, fileSide, track, holder>>

\* The XDG state directory if it is there, else ~/.ocfp if that is there.
BaseDir ==
    IF \/ "logs" \in dirs \/ \E f \in {"state", "lock"} : Has("new", f)
       \/ \E c \in Commands : track[c] = "new"
    THEN "new" ELSE IF \E f \in Files : Has("legacy", f) THEN "legacy" ELSE "new"

\* --no-log, the commands that are not tracked and a failed write leave no lock.
SetupCommandTracking(c) ==
    /\ pc[c] = "track" /\ Goto(c, "acquire")
    /\ \E s \in {BaseDir, None} : track' = [track EXCEPT ![c] = s]
    /\ CmdKeep
    /\ UNCHANGED <<diskVars, mem, lockSide, fileSide, holder>>

\* flock on a file that stays; on Windows the file itself is the lock.
AcquireStateLock(c) ==
    /\ pc[c] = "acquire" /\ holder[Resolved] = Nobody
    /\ machine.unix \/ ~Has(Resolved, "lock")
    /\ Goto(c, "load")
    /\ lockSide' = [lockSide EXCEPT ![c] = Resolved]
    /\ holder' = [holder EXCEPT ![Resolved] = c]
    /\ at' = [at EXCEPT ![Resolved]["lock"] = IF @ = None THEN "whole" ELSE @]
    /\ CmdKeep
    /\ UNCHANGED <<dirs, mem, fileSide, track>>

\* After ten seconds the command reports that it could not save.
GiveUp(c) ==
    /\ pc[c] = "acquire" /\ holder[Resolved] # Nobody
    /\ Goto(c, "end")
    /\ CmdKeep
    /\ UNCHANGED <<diskVars, mem, lockSide, fileSide, track, holder>>

\* Windows: a lock nobody touched for two minutes is looked at, then removed,
\* by its path: by then it may be somebody else's, whose open file the system
\* does not let anybody remove.
FindStale(c) ==
    /\ pc[c] = "acquire" /\ ~machine.unix /\ holder[Resolved] = Dead
    /\ Goto(c, "reclaim")
    /\ lockSide' = [lockSide EXCEPT ![c] = Resolved]
    /\ CmdKeep
    /\ UNCHANGED <<diskVars, mem, fileSide, track, holder>>

RemoveLock(c) ==
    /\ at' = [at EXCEPT ![lockSide[c]]["lock"] = None]
    /\ holder' = [holder EXCEPT ![lockSide[c]] = Nobody]

ReclaimStaleLock(c) ==
    /\ pc[c] = "reclaim" /\ Goto(c, "acquire")
    /\ IF holder[lockSide[c]] \in Commands THEN UNCHANGED <<at, holder>>
       ELSE RemoveLock(c)
    /\ CmdKeep
    /\ UNCHANGED <<dirs, mem, lockSide, fileSide, track>>

\* LoadState under the lock, then the change: the keys of its bloc
\* (SaveBlocKeys) or the current bloc (SetCurrentBloc).
LoadState(c) ==
    /\ pc[c] = "load" /\ Goto(c, "resolve")
    /\ \E own \in {{}, {c}} : mem' = [mem EXCEPT ![c] = Document \cup own]
    /\ at' = IF Converting THEN [at EXCEPT ![Resolved]["state"] = {}] ELSE at
    /\ CmdKeep
    /\ UNCHANGED <<dirs, lockSide, fileSide, track, holder>>

\* SaveState looks the path up once, before it marshals the document.
SaveState(c) ==
    /\ pc[c] = "resolve" /\ Goto(c, "truncate")
    /\ fileSide' = [fileSide EXCEPT ![c] = Resolved]
    /\ CmdKeep
    /\ UNCHANGED <<diskVars, mem, lockSide, track, holder>>

\* It writes in place: os.WriteFile truncates the file, or makes it where it
\* is gone, and fills it.  It fails if ~/.ocfp has been removed meanwhile.
Truncate(c) ==
    /\ pc[c] = "truncate"
    /\ \/ Goto(c, "write") /\ at' = [at EXCEPT ![fileSide[c]]["state"] = {}]
       \/ /\ fileSide[c] = "legacy" /\ \A f \in Files : ~Has("legacy", f)
          /\ Goto(c, "unlock") /\ UNCHANGED at
    /\ CmdKeep
    /\ UNCHANGED <<dirs, mem, lockSide, fileSide, track, holder>>

\* The open file follows a rename, but not a copy.
Written(c) ==
    IF Has(fileSide[c], "state") THEN [at EXCEPT ![fileSide[c]]["state"] = mem[c]]
    ELSE IF machine.xdev THEN at ELSE [at EXCEPT !["new"]["state"] = mem[c]]

Write(c) ==
    /\ pc[c] = "write" /\ Goto(c, "unlock")
    /\ \/ at' = Written(c) /\ UNCHANGED faults
       \/ faults < MaxFaults /\ faults' = faults + 1
          /\ UNCHANGED at
    /\ mem' = [mem EXCEPT ![c] = {}] /\ fileSide' = [fileSide EXCEPT ![c] = "new"]
    /\ UNCHANGED <<machine, mig, cut, dirs, lockSide, track, holder>>

MutDropped(c, to) == IF to = Nobody /\ pc[c] = "unlock" THEN holder
                     ELSE [s \in Sides |-> IF holder[s] = c THEN to ELSE holder[s]]
Dropped(c, to) == [s \in Sides |-> IF holder[s] = c THEN to ELSE holder[s]]

\* The kernel drops the lock of this descriptor; Windows removes the file.
Unlock(c) ==
    /\ pc[c] = "unlock" /\ Goto(c, "end")
    /\ IF machine.unix
       THEN holder' = Dropped(c, Nobody) /\ UNCHANGED at
       ELSE RemoveLock(c)
    /\ CmdKeep
    /\ UNCHANGED <<dirs, mem, lockSide, fileSide, track>>

ReleaseCommandLock(c) ==
    /\ pc[c] = "end" /\ Goto(c, "done") /\ Forget(c)
    /\ track' = [track EXCEPT ![c] = None]
    /\ CmdKeep
    /\ UNCHANGED <<diskVars, holder>>

Running(c) == pc[c] \notin {"off", "done"}

\* The lock in .active stays, and on Windows the state lock; flock does not.
Kill(c) ==
    /\ Running(c) /\ faults < MaxFaults /\ faults' = faults + 1
    /\ Goto(c, "done") /\ Forget(c)
    /\ holder' = Dropped(c, IF machine.unix THEN Nobody ELSE Dead)
    /\ UNCHANGED <<machine, diskVars, track, mig, cut>>
-----------------------------------------------------------------------------
(* Migration                                                               *)

MigKeep == UNCHANGED <<machine, pc, mem, lockSide, fileSide>>
Step(m) == mig' = m
Refuse == Step(NoMigration)

\* What is there when the plan is made; an unknown file is left in place.
BuildMigratePlan ==
    /\ mig.pc = "idle" /\ \E f \in Files : Has("legacy", f)
    /\ Step([NoMigration EXCEPT !.pc = "guard",
             !.plan = {e \in DOMAIN Under : \E f \in Under[e] : Has("legacy", f)}])
    /\ MigKeep /\ UNCHANGED <<diskVars, holder, track, faults, cut>>

\* Signal 0 tells whether a process is there, but not on Windows, where every
\* holder looks gone.
LockHolderRunning(c) == machine.unix /\ Running(c)

MutGuarded == {"legacy"}
Guarded == Sides

\* The scan removes the locks nobody holds, and a held one refuses the move.
RefuseIfLive ==
    /\ mig.pc = "guard"
    /\ LET seen == {c \in Commands : track[c] # None /\ LockHolderRunning(c)}
           found == {c \in Commands : track[c] \in Guarded}
           live  == {c \in found : LockHolderRunning(c)}
       IN /\ track' = [c \in Commands |-> IF c \in found \ live THEN None ELSE track[c]]
          /\ IF live # {} THEN Refuse ELSE Step([mig EXCEPT !.pc = "check", !.seen = seen])
    /\ MigKeep /\ UNCHANGED <<diskVars, holder, faults, cut>>

\* The lock file carries nothing and may be dropped where there is one already.
Discardable(f) == f = "lock" /\ Has("new", f)

Conflicts == {f \in Files : \E e \in mig.plan :
    /\ f \in Under[e] /\ Has("legacy", f) /\ Has(Landing(e, f), f)
    /\ ~Discardable(f)}

Entry == Entries[mig.i]
At(e) == {f \in Under[e] : Has("legacy", f)}
After(i) ==
    LET later == {j \in i + 1..Len(Entries) : Entries[j] \in mig.plan} IN
    IF later = {} THEN Len(Entries) + 1
    ELSE CHOOSE j \in later : \A k \in later : j <= k
Onward == [mig EXCEPT !.pc = "move", !.i = After(@)]

RefuseConflicts ==
    /\ mig.pc = "check"
    /\ IF Conflicts # {} THEN Refuse ELSE Step(Onward)
    /\ MigKeep /\ UNCHANGED <<diskVars, holder, track, faults, cut>>

Erased(d, r, F) == [d EXCEPT ![r] = [f \in Files |-> IF f \in F THEN None ELSE @[f]]]
Placed(F, full) == [r \in Roots |-> [f \in Files |->
    IF f \in F /\ r = Landing(Entry, f)
    THEN IF full THEN at["legacy"][f] ELSE IF f = "state" THEN {} ELSE "part"
    ELSE at[r][f]]]

\* On Windows a file that is open can be neither renamed nor removed; the lock
\* of a dead holder still is one where it lands.
InUse(f) ==
    /\ ~machine.unix
    /\ \/ f = "lock" /\ holder["legacy"] \in Commands
       \/ f = "state" /\ \E c \in Commands : pc[c] = "write" /\ fileSide[c] = "legacy"
LockMoves(F, to) ==
    holder' = IF machine.unix \/ "lock" \notin F THEN holder
              ELSE [s \in Sides |-> IF s = "legacy" THEN Nobody
                                    ELSE IF to = s THEN holder["legacy"] ELSE holder[s]]

MoveKeep == MigKeep /\ UNCHANGED track

\* On Windows the error of a rename between volumes is not recognised.
Unrenamable == machine.xdev /\ ~machine.unix

\* A directory that is there already is merged, file by file; otherwise the
\* entry is renamed as a whole, or copied and removed across devices.
MoveEntry ==
    /\ mig.pc = "move" /\ mig.i <= Len(Entries)
    /\ LET F == At(Entry) IN
       IF Entry \notin Directories \/ Entry \in dirs
       THEN /\ Step([mig EXCEPT !.pc = "pick", !.mode = "merge", !.todo = F])
            /\ UNCHANGED <<diskVars, holder>>
       ELSE IF Unrenamable THEN Refuse /\ UNCHANGED <<diskVars, holder>>
       ELSE IF machine.xdev
       THEN /\ Step([mig EXCEPT !.pc = "pick", !.mode = "whole", !.todo = F])
            /\ dirs' = dirs \cup {Entry} /\ UNCHANGED <<at, holder>>
       ELSE /\ Step(Onward) /\ dirs' = dirs \cup {Entry}
            /\ at' = Erased(Placed(F, TRUE), "legacy", F)
            /\ UNCHANGED holder
    /\ MoveKeep /\ UNCHANGED <<faults, cut>>

\* The next file: dropped, renamed or, across devices, created at its place.
MoveFile ==
    /\ mig.pc = "pick" /\ mig.todo # {}
    /\ \E f \in mig.todo :
         LET rest == [mig EXCEPT !.todo = @ \ {f}] IN
         IF ~Has("legacy", f) \/ InUse(f) THEN Refuse /\ UNCHANGED <<at, holder>>
         ELSE IF mig.mode = "merge" /\ Discardable(f)
         THEN Step(rest) /\ at' = Erased(at, "legacy", {f}) /\ LockMoves({f}, None)
         ELSE IF Unrenamable THEN Refuse /\ UNCHANGED <<at, holder>>
         ELSE IF ~machine.xdev
         THEN /\ Step(rest) /\ at' = Erased(Placed({f}, TRUE), "legacy", {f})
              /\ LockMoves({f}, "new")
         ELSE /\ Step([rest EXCEPT !.pc = "fill", !.leaf = f])
              /\ at' = Placed({f}, FALSE) /\ UNCHANGED holder
    /\ MoveKeep /\ UNCHANGED <<dirs, faults, cut>>

\* A merged file is removed when its copy is complete, a whole entry when all
\* of its files are copied.
AfterFill == IF mig.mode = "merge" THEN "drop" ELSE "pick"

CopyFile ==
    /\ mig.pc = "fill"
    /\ at' = Placed({mig.leaf}, TRUE)
    /\ Step([mig EXCEPT !.pc = AfterFill])
    /\ MoveKeep /\ UNCHANGED <<dirs, holder, faults, cut>>

\* A copy that fails takes what it had copied away again, and the run ends.
MutCleanup == {}
Cleanup == IF mig.mode = "merge" THEN {mig.leaf} ELSE Under[Entry]

CopyFails ==
    /\ mig.pc = "fill" /\ faults < MaxFaults /\ faults' = faults + 1
    /\ at' = [r \in Roots |-> [f \in Files |->
                IF f \in Cleanup /\ r = Landing(Entry, f) THEN None ELSE at[r][f]]]
    /\ dirs' = IF mig.mode = "merge" THEN dirs ELSE dirs \ {Entry}
    /\ Refuse
    /\ MoveKeep /\ UNCHANGED <<holder, cut>>

RemoveSource ==
    /\ mig.pc = "drop"
    /\ \E f \in IF mig.mode = "merge" THEN {mig.leaf} ELSE At(Entry) :
         /\ at' = Erased(at, "legacy", {f})
         /\ Step(IF mig.mode = "merge" THEN [mig EXCEPT !.pc = "pick"]
                 ELSE IF At(Entry) = {f} THEN Onward ELSE mig)
    /\ MoveKeep /\ UNCHANGED <<dirs, holder, faults, cut>>

\* With nothing left to place: on to the next entry, or to the removal.
EntryPlaced ==
    /\ mig.pc = "pick" /\ mig.todo = {}
    /\ Step(IF mig.mode = "whole" /\ At(Entry) # {} THEN [mig EXCEPT !.pc = "drop"]
            ELSE Onward)
    /\ MoveKeep /\ UNCHANGED <<diskVars, holder, faults, cut>>

\* ~/.ocfp goes if it is empty and stays with its unknown files otherwise.
FinalizeLegacyDir ==
    /\ mig.pc = "move" /\ mig.i > Len(Entries)
    /\ Refuse
    /\ MoveKeep /\ UNCHANGED <<diskVars, holder, faults, cut>>

KillMigration ==
    /\ mig.pc # "idle" /\ faults < MaxFaults /\ faults' = faults + 1
    /\ Refuse
    /\ cut' = (cut \/ mig.pc \in {"fill", "drop"} \/ mig.mode = "whole")
    /\ MoveKeep /\ UNCHANGED <<diskVars, holder>>
-----------------------------------------------------------------------------
Moving == {"check", "move", "pick", "fill", "drop"}

\* A write is cut short after it has truncated the document.
Tears == \E c \in Commands : pc[c] = "write" /\ pc'[c] # "write" /\ faults' # faults
\* A conversion, which takes no lock, writes over a document.
Clobbers == \E c \in Commands :
    pc[c] = "convert" /\ pc'[c] = "track" /\ Has(Resolved, "state")
\* A command of which the guard saw no lock runs beside the moves.
Overtakes == /\ mig'.pc \in Moving
             /\ \E c \in Commands \ mig'.seen : pc'[c] \notin {"off", "end", "done"}
\* A save opens state.yml where it no longer is: by then it is at the other
\* place, moved there or left there by a copy that failed.
Revives == \E c \in Commands :
    /\ pc[c] = "truncate" /\ pc'[c] = "write"
    /\ ~Has(fileSide[c], "state") /\ \E s \in Sides : Has(s, "state")
Notice ==
    /\ revived' = (revived \/ Revives)
    /\ spoilt' = (spoilt \/ Tears \/ Clobbers \/ Overtakes)
    /\ saved' = IF spoilt' THEN {}
                ELSE saved \cup {c \in Commands : /\ pc[c] = "write" /\ c \in mem[c]
                                                  /\ pc'[c] = "unlock"}

Command(c) ==
    \/ Peek(c) \/ Convert(c) \/ SetupCommandTracking(c)
    \/ AcquireStateLock(c) \/ GiveUp(c) \/ FindStale(c) \/ ReclaimStaleLock(c)
    \/ LoadState(c) \/ SaveState(c) \/ Truncate(c) \/ Write(c) \/ Unlock(c)
    \/ ReleaseCommandLock(c)

RunMigrate ==
    \/ RefuseIfLive \/ RefuseConflicts \/ MoveEntry \/ MoveFile \/ CopyFile
    \/ RemoveSource \/ EntryPlaced \/ FinalizeLegacyDir

Next ==
    /\ \/ \E c \in Commands : Command(c) \/ Kill(c)
       \/ BuildMigratePlan \/ RunMigrate \/ CopyFails \/ KillMigration
    /\ Notice

Spec == Init /\ [][Next]_vars

\* Every command goes on, and the migration is started again until it is done.
FairSpec ==
    /\ Spec
    /\ \A c \in Commands : WF_vars(Command(c) /\ Notice)
    /\ WF_vars((BuildMigratePlan \/ RunMigrate) /\ Notice)
-----------------------------------------------------------------------------
(* Properties                                                              *)

Points == {"off", "convert", "track", "acquire", "reclaim", "load",
           "resolve", "truncate", "write", "unlock", "end", "done"}

TypeOK ==
    /\ \A r \in Roots : /\ at[r]["state"] = None \/ at[r]["state"] \subseteq Blocs
                        /\ \A f \in Files \ {"state"} :
                             at[r][f] \in {None, "part", "whole", "other"}
    /\ dirs \subseteq Directories /\ {saved, mig.seen} \subseteq SUBSET Blocs
    /\ holder \in [Sides -> Commands \cup {Nobody, Dead}]
    /\ \A s \in Sides : holder[s] \in Commands => Running(holder[s])
    /\ pc \in [Commands -> Points] /\ mem \in [Commands -> SUBSET Blocs]
    /\ {lockSide, fileSide} \subseteq [Commands -> Sides]
    /\ track \in [Commands -> Sides \cup {None}]
    /\ mig.pc \in Moving \cup {"idle", "guard"} /\ mig.i \in 0..Len(Entries) + 1
    /\ mig.plan \subseteq DOMAIN Under /\ mig.todo \subseteq Files
    /\ mig.leaf \in Files /\ faults \in 0..MaxFaults
    /\ {spoilt, cut, revived} \subseteq BOOLEAN

\* A bloc whose keys were reported saved is in the document that the next
\* command reads (config/state.go, SaveBlocKeys: "one bloc's keys are silently
\* dropped").  Four things drop them all the same, and nothing else: a write
\* cut short, the conversion that takes no lock, a command that the guard of a
\* migration could not see, and a migration killed while it copied.
Between == \/ \E c \in Commands : pc[c] = "write"
           \/ mig.pc = "fill" /\ mig.leaf = "state"
KeysKept == ~spoilt /\ ~cut /\ ~Between => saved \subseteq Document

\* However often the migration is refused, fails or is killed: every file of
\* ~/.ocfp is whole, there or where lookups find it, and no file of the XDG
\* directories is overwritten (migrate.go, runMigrate).  A command that saves
\* one of these files in place while it is copied is not among those here.
NothingLost == \A f \in Files \ {"state", "lock"} :
    /\ f \in machine.layout.legacy => \E s \in Sides : at[s][f] = "whole"
    /\ f \in machine.layout.new => at["new"][f] = "other"

\* Started again until it is done, the migration leaves only unknown files.
\* Four things stop it, and nothing else: a conflict from the start, a kill as
\* it copied, a save (or the one of a conversion) that had looked up state.yml
\* where the migration has it no longer and makes it anew there, and Windows
\* with the directories on two volumes.
Blocked == \/ cut \/ revived \/ Unrenamable
           \/ (machine.layout.legacy \cap machine.layout.new) \ {"lock"} # {}
Converges == <>[](Blocked \/ \A f \in Files \ {"note"} : ~Has("legacy", f))
=============================================================================
