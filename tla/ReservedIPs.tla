----------------------------- MODULE ReservedIPs -----------------------------
(***************************************************************************)
(* The reserved addresses of a bloc in vault, and the guard in front of    *)
(* them (src/internal/vault/reserved_ip_guard.go, pve_provider.go,         *)
(* manager.go).  Every build of the program derives an address for every   *)
(* role from a table; vault records where the roles live.  `vault          *)
(* populate` writes only what vault does not hold; `reserved-ips migrate`  *)
(* and --force-reallocate apply the table over it; `status` and dry runs   *)
(* write into a recorder.                                                  *)
(*                                                                         *)
(* A record is the set of addresses of one subnet and tier, with a stamp   *)
(* that names the scheme they were derived under.  Under the guard is      *)
(* Safe (safe.go): SetMultiple merges into what it reads, and takes a      *)
(* failed read for an empty record; Delete of one key writes the other     *)
(* keys back with SetMultiple; and as long as a run has not detected the   *)
(* engine of the mount, a detection that fails is taken for KV v1, under   *)
(* which a KV v2 record, as these are, is not found and not written.       *)
(*                                                                         *)
(* A table stands for a build with a configuration and a state file: the   *)
(* same build derives other addresses when the state file cannot be read.  *)
(* Left out: the sub-paths of single roles, and how a table is computed.   *)
(***************************************************************************)
EXTENDS Integers, FiniteSets

CONSTANTS
    Records,     \* the reserved-ips records of the bloc
    Complete,    \* those written as complete records; the others key by key
    Keys,        \* roles
    Addrs,       \* addresses
    Schemes,     \* scheme versions
    Tables,      \* records [scheme, at]: at[r][k] is an address or None
    None,
    MaxFaults    \* bound: failed calls and kills

Cells == [Keys -> Addrs \cup {None}]
Contents == [ip : Cells, scheme : Schemes \cup {None}]

ASSUME CompleteAssumption == Complete \subseteq Records
ASSUME NoneAssumption == None \notin Addrs \cup Schemes
ASSUME TablesAssumption == /\ Tables # {}
                           /\ Tables \subseteq [scheme : Schemes, at : [Records -> Cells]]
ASSUME FaultsAssumption == MaxFaults \in Nat

VARIABLES
    vault,     \* the records
    run,       \* the running command
    done,      \* the last command that ended well
    faults,
    live,      \* where the machine of a role lives: the address it was deployed at
    \* what the properties need to know and the code does not
    moved,     \* cells changed, since their machine was deployed, by a forced run or by
               \* one that took their record for an empty one
    dropped,   \* cells a write whose read failed has lost at some time
    forecast   \* what the last dry run said the same command would leave

vars == <<vault, run, done, faults, live, moved, dropped, forecast>>

Nothing == [ip |-> [k \in Keys |-> None], scheme |-> None]
Cell == Records \X Keys

SomeTable == CHOOSE t \in Tables : TRUE
NoRun == [pc |-> "idle", table |-> SomeTable, force |-> FALSE, dry |-> FALSE,
          todo |-> {}, record |-> None, held |-> Nothing, purge |-> {},
          pending |-> [r \in Records |-> Nothing], engine |-> FALSE, misread |-> {}]
NoneDone == [ok |-> FALSE, table |-> SomeTable, force |-> FALSE]
NoForecast == [valid |-> FALSE, table |-> SomeTable, force |-> FALSE,
               vault |-> [r \in Records |-> Nothing]]

Runs == [pc : {"idle", "read", "purge", "write"}, table : Tables,
         force : BOOLEAN, dry : BOOLEAN, todo : SUBSET Records,
         record : Records \cup {None}, held : Contents, purge : SUBSET Keys,
         pending : [Records -> Contents],
         engine : BOOLEAN,            \* the engine of the mount is known
         misread : SUBSET Records]    \* the records taken for empty
Forecasts == [valid : BOOLEAN, table : Tables, force : BOOLEAN,
              vault : [Records -> Contents]]

TypeOK ==
    /\ vault \in [Records -> Contents]
    /\ run \in Runs
    /\ done \in [ok : BOOLEAN, table : Tables, force : BOOLEAN]
    /\ faults \in 0 .. MaxFaults
    /\ live \in [Records -> Cells]
    /\ moved \subseteq Cell /\ dropped \subseteq Cell
    /\ forecast \in Forecasts

-----------------------------------------------------------------------------
(* Safe and the recorder *)

(* new over old. *)
Over(new, old) ==
    [ip |-> [k \in Keys |-> IF new.ip[k] # None THEN new.ip[k] ELSE old.ip[k]],
     scheme |-> IF new.scheme # None THEN new.scheme ELSE old.scheme]

(* Mutant: the recorder shows what is recorded instead of both. *)
MutVisible(r) == IF run.dry /\ run.pending[r] # Nothing THEN run.pending[r] ELSE vault[r]

(* What a read shows: in a dry run, the recorded writes over the vault.    *)
Visible(r) == IF run.dry THEN Over(run.pending[r], vault[r]) ELSE vault[r]

Lost(old, new) == {k \in Keys : old.ip[k] # None /\ new.ip[k] = None}

Fail == faults' = faults + 1 /\ faults < MaxFaults

(* SetMultiple: read the record, merge, write.  A read that fails leaves   *)
(* nothing to merge into.  A dry run records the write.                    *)
SetMultiple(r, data) ==
    \/ run.dry /\ UNCHANGED <<vault, faults, dropped>>
    \/ /\ ~run.dry
       /\ vault' = [vault EXCEPT ![r] = Over(data, @)]
       /\ UNCHANGED <<faults, dropped>>
    \/ /\ ~run.dry /\ Fail
       /\ vault' = [vault EXCEPT ![r] = data]
       /\ dropped' = dropped \cup ({r} \X Lost(vault[r], data))

Recorded(r, data) ==
    IF run.dry THEN [run.pending EXCEPT ![r] = Over(data, @)] ELSE run.pending

-----------------------------------------------------------------------------
(* The guard *)

Derived(r) == run.table.at[r]

Fresh == {k \in Keys : Derived(run.record)[k] # None /\ run.held.ip[k] = None}
Drifted == {k \in Keys : /\ Derived(run.record)[k] # None
                         /\ run.held.ip[k] \notin {None, Derived(run.record)[k]}}

(* Mutant: the stamp counts as a retired key. *)
MutObsolete(r, held) ==
    {k \in Keys : held.ip[k] # None /\ Derived(r)[k] = None}
        \cup (IF held.scheme # None THEN {"scheme_version"} ELSE {})

(* Keys the record holds and the table does not derive.  The stamp is none. *)
Obsolete(r, held) == {k \in Keys : held.ip[k] # None /\ Derived(r)[k] = None}

(* Mutant: the record is stamped as soon as it is written. *)
MutStamp == IF run.held.scheme # run.table.scheme THEN run.table.scheme ELSE None

(* The stamp, when the record agrees with the table or is made to agree.   *)
Stamp == IF (Drifted = {} \/ run.force) /\ run.held.scheme # run.table.scheme
         THEN run.table.scheme ELSE None

(* Mutant: keys are forwarded whether vault holds them or not. *)
MutWrites ==
    [ip |-> [k \in Keys |-> IF k \in Fresh \cup Drifted THEN Derived(run.record)[k] ELSE None],
     scheme |-> Stamp]

(* What goes through: keys vault does not hold, and under force those it   *)
(* holds with another address.                                             *)
Writes ==
    [ip |-> [k \in Keys |-> IF k \in Fresh \/ (run.force /\ k \in Drifted)
                            THEN Derived(run.record)[k] ELSE None],
     scheme |-> Stamp]

-----------------------------------------------------------------------------
Init ==
    /\ vault = [r \in Records |-> Nothing]
    /\ run = NoRun /\ done = NoneDone /\ faults = 0
    /\ live = [r \in Records |-> [k \in Keys |-> None]]
    /\ moved = {} /\ dropped = {} /\ forecast = NoForecast

(* populate, reserved-ips migrate (forced) or status (forced or not, dry). *)
(* A table without addresses for a record does not touch it.               *)
Start(t, force, dry) ==
    /\ run.pc = "idle"
    /\ run' = [NoRun EXCEPT !.pc = "read", !.table = t, !.force = force, !.dry = dry,
                  !.todo = {r \in Records : t.at[r] # Nothing.ip}]
    /\ done' = NoneDone
    /\ forecast' = IF ~dry /\ forecast.table = t /\ forecast.force = force
                   THEN forecast ELSE NoForecast
    /\ UNCHANGED <<vault, faults, live, moved, dropped>>

Abort == run' = NoRun /\ forecast' = NoForecast

(* The guard takes up r, which it believes to hold held.                   *)
TakeUp(r, held) ==
    [run EXCEPT !.pc = "purge", !.record = r, !.held = held, !.todo = @ \ {r},
                !.purge = IF r \in Complete /\ run.force THEN Obsolete(r, held) ELSE {}]

(* The guard reads the record.  A failed read ends the command: an         *)
(* unreachable vault is not an empty one.  But a failed detection of the   *)
(* engine does not: the record is then not found, and so taken for empty.  *)
ReadExisting ==
    /\ run.pc = "read"
    /\ \E r \in run.todo :
        \/ /\ run' = [TakeUp(r, Visible(r)) EXCEPT !.engine = TRUE]
           /\ UNCHANGED <<faults, forecast>>
        \/ /\ ~run.engine /\ Fail
           /\ run' = [TakeUp(r, Nothing) EXCEPT !.misread = @ \cup {r}]
           /\ forecast' = NoForecast
        \/ Fail /\ Abort
    /\ UNCHANGED <<vault, done, live, moved, dropped>>

(* What Delete of one key writes: the record it reads without the key.     *)
Rest(r, k) == [vault[r] EXCEPT !.ip[k] = None]

(* Delete writes the rest with SetMultiple, which merges it into what it   *)
(* reads itself, so the key stays unless that read fails.  The recorder    *)
(* ignores deletions.                                                      *)
PurgeObsolete ==
    /\ run.pc = "purge"
    /\ \E k \in run.purge :
        LET r == run.record
        IN \/ /\ run' = [run EXCEPT !.purge = @ \ {k}]
              /\ vault' = [vault EXCEPT ![r] = Over(Rest(r, k), @)]
              /\ UNCHANGED <<faults, dropped, forecast>>
           \/ /\ ~run.dry /\ Fail
              /\ run' = [run EXCEPT !.purge = @ \ {k}]
              /\ vault' = [vault EXCEPT ![r] = Rest(r, k)]
              /\ dropped' = dropped \cup {<<r, k>>}
              /\ forecast' = NoForecast
           \/ ~run.dry /\ Fail /\ Abort /\ UNCHANGED <<vault, dropped>>
    /\ UNCHANGED <<done, live, moved>>

PurgeDone ==
    /\ run.pc = "purge" /\ run.purge = {}
    /\ run' = [run EXCEPT !.pc = "write"]
    /\ UNCHANGED <<vault, done, faults, live, moved, dropped, forecast>>

Leave(pending) == [run EXCEPT !.pc = "read", !.record = None, !.held = Nothing,
                              !.pending = pending]

(* The cells a write changes.                                              *)
Overwritten(r) == {k \in Keys : /\ vault[r].ip[k] # None
                                /\ Writes.ip[k] \notin {None, vault[r].ip[k]}}
MovedBy(r) == IF run.force \/ r \in run.misread THEN moved \cup ({r} \X Overwritten(r)) ELSE moved

(* The write, when there is anything to write.  It may fail, done or not.  *)
(* A write that is done has detected the engine.                           *)
GuardedWrite ==
    /\ run.pc = "write"
    /\ LET r == run.record IN
       \/ /\ Writes = Nothing
          /\ run' = Leave(run.pending)
          /\ UNCHANGED <<vault, faults, moved, dropped, forecast>>
       \/ /\ Writes # Nothing
          /\ SetMultiple(r, Writes)
          /\ run' = [Leave(Recorded(r, Writes)) EXCEPT !.engine = @ \/ ~run.dry]
          /\ moved' = IF run.dry THEN moved ELSE MovedBy(r)
          /\ forecast' = IF faults' = faults THEN forecast ELSE NoForecast
       \/ /\ Writes # Nothing /\ ~run.dry /\ Fail /\ Abort
          /\ \/ UNCHANGED <<vault, moved>>
             \/ /\ vault' = [vault EXCEPT ![r] = Over(Writes, @)]
                /\ moved' = MovedBy(r)
          /\ UNCHANGED dropped
    /\ UNCHANGED <<done, live>>

(* All records are written: the command reports and ends well. *)
Report ==
    /\ run.pc = "read" /\ run.todo = {}
    /\ run' = NoRun
    /\ IF run.dry
       THEN /\ forecast' = [valid |-> run.misread = {}, table |-> run.table, force |-> run.force,
                            vault |-> [r \in Records |-> Visible(r)]]
            /\ UNCHANGED done
       ELSE /\ done' = [ok |-> TRUE, table |-> run.table, force |-> run.force]
            /\ UNCHANGED forecast
    /\ UNCHANGED <<vault, faults, live, moved, dropped>>

(* Genesis deploys the machine of a role at the address vault records, for *)
(* the first time or because it has moved.                                 *)
Deploy(r, k) ==
    /\ vault[r].ip[k] \notin {None, live[r][k]}
    /\ live' = [live EXCEPT ![r][k] = vault[r].ip[k]]
    /\ moved' = moved \ {<<r, k>>}
    /\ UNCHANGED <<vault, run, done, faults, dropped, forecast>>

(* The process dies. *)
Kill ==
    /\ run.pc # "idle" /\ Fail /\ Abort
    /\ UNCHANGED <<vault, done, live, moved, dropped>>

Next ==
    \/ \E t \in Tables, force, dry \in BOOLEAN : Start(t, force, dry)
    \/ ReadExisting \/ PurgeObsolete \/ PurgeDone \/ GuardedWrite \/ Report
    \/ \E r \in Records, k \in Keys : Deploy(r, k)
    \/ Kill

Spec == Init /\ [][Next]_vars

-----------------------------------------------------------------------------
(* Properties *)

(* Where the machine of a role lives stays recorded: whatever builds and   *)
(* configurations populate, in whatever order, and wherever a run fails,   *)
(* only a forced run changes the recorded address of a deployed machine -- *)
(* or one whose first detection of the engine failed (safe.go, Get), which *)
(* the guard means to rule out and does not; what it changes is excepted.  *)
(* Cells a write has lost over its own failed read are excepted.           *)
(* reserved_ip_guard.go, guardedWrite.                                     *)
LiveAddressKept ==
    \A r \in Records, k \in Keys :
        live[r][k] # None /\ <<r, k>> \notin moved \cup dropped
            => vault[r].ip[k] = live[r][k]

(* A stamp tells the truth: a complete record stamped with a scheme holds  *)
(* what one table of that scheme derives, after any mix of plain and       *)
(* forced runs, some of them cut short.  reserved_ip_guard.go, stampScheme.*)
StampIsTrue ==
    \A r \in Complete : vault[r].scheme # None =>
        \E t \in Tables :
            /\ t.scheme = vault[r].scheme
            /\ \A k \in Keys : t.at[r][k] # None /\ <<r, k>> \notin dropped
                    => vault[r].ip[k] = t.at[r][k]

(* A dry run, and status, tell what the command would do: the same command *)
(* run next and not disturbed leaves exactly the forecast, unless the dry  *)
(* run took a record for empty because it failed to detect the engine.     *)
(* manager.go, populateDryRun; safe_recorder.go.                           *)
DryRunPredicts ==
    done.ok /\ forecast.valid => vault = forecast.vault
=============================================================================
