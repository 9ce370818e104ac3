---------------------------- MODULE VaultMigrate ----------------------------
(***************************************************************************)
(* `ocfp vault migrate`: the secrets of a bloc's inception vault (one      *)
(* process on one disposable machine) are copied, key by key, into its     *)
(* production vault, the inception vault is destroyed, and the Genesis     *)
(* environments are pointed at the new one (src/internal/vault/manager.go, *)
(* safe.go).                                                               *)
(*                                                                         *)
(* A vault is a tree of paths; a path may hold keys AND further paths.  A  *)
(* slot is one key of one path.  Writing a key means reading the path's    *)
(* whole secret, changing one key and writing the whole secret back; a     *)
(* failed read on the way is taken for an empty secret.  The walk takes a  *)
(* failed read or a failed listing for an empty path.  Environments that   *)
(* still use the inception vault keep writing to it all the while, the     *)
(* process may die between any two steps, and the operator runs the        *)
(* command again.                                                          *)
(*                                                                         *)
(* Left out: the deletion of the paths named after the inception vault     *)
(* itself (none of the tree), and the token each target is opened with.    *)
(* Of the vault's files either all are removed or none: one that runs on   *)
(* without them is empty, and may or may not still know its token.         *)
(***************************************************************************)
EXTENDS Integers, FiniteSets, Sequences

CONSTANTS
    Names,       \* the names in paths
    Paths,       \* the tree: sequences of names, <<>> being "secret/"
    Keys,        \* the names of keys
    Vals,        \* values of keys
    Fresh,       \* the value an environment writes
    None,        \* no value
    FirstInc,    \* contents of the inception vault at the start
    FirstProd,   \* contents of the production vault at the start
    Envs,        \* deployed Genesis environments: kit and tier
    MaxFaults,   \* bound: failed calls, refusals and kills
    MaxWrites,   \* bound: writes by the environments
    MaxDry       \* bound: dry runs

Tiers == {"mgmt", "ocf"}
MgmtKits == {"concourse", "doomsday", "jumpbox", "shield", "vault", "bosh"}
BothKits == {"prometheus"}

Slots == Paths \X Keys
Vaults == [Slots -> Vals \cup {None}]

ASSUME TreeAssumption ==
    /\ Paths \subseteq Seq(Names) /\ IsFiniteSet(Paths) /\ << >> \in Paths
    /\ \A p \in Paths : \A n \in 0 .. Len(p) : SubSeq(p, 1, n) \in Paths
    /\ None \notin Keys
ASSUME EnvsAssumption == Envs \subseteq [kit : STRING, tier : Tiers] /\ IsFiniteSet(Envs)
ASSUME ContentsAssumption == FirstInc \subseteq Vaults /\ FirstProd \subseteq Vaults
ASSUME BoundsAssumption == {MaxFaults, MaxWrites, MaxDry} \subseteq Nat
ASSUME NoneAssumption == None \notin Vals /\ Fresh \in Vals

Steps == {"idle", "validate", "snapshot", "walk", "import", "confirm",
          "decommission", "update"}
Modes == {"interactive", "structured"}
Results == {"none", "failed", "cancelled", "ok", "previewed"}

VARIABLES
    inc,      \* the inception vault
    up,       \* the inception vault answers
    files,    \* its data directory and its keys are there
    prod,     \* the production vault
    snap,     \* the last snapshot file written: contents
    switched, \* environments whose secrets-provider is the production vault
    run,      \* the running command
    result,   \* how the last command ended
    faults, writes, drys,   \* what has happened so far, against the bounds
    \* what the properties need to know and the code does not
    hidden,   \* slots the walk of this run could not see
    wiped,    \* slots of production dropped by a write after a failed read
    late,     \* slots written by environments since this run began
    last,     \* the inception vault when it was destroyed
    broken    \* an environment was missed after the inception vault was gone

ghosts == <<hidden, wiped, late, last, broken>>
counts == <<faults, writes, drys>>
vars == <<inc, up, files, prod, snap, switched, run, result, counts, ghosts>>

Empty == [s \in Slots |-> None]

(* One entry of what is left to do: a path to visit, a key to migrate, or, *)
(* in structured mode, a key to check once more.                           *)
Item(do, p, k) == [do |-> do, path |-> p, key |-> k]
Items == [do : {"visit"}, path : Paths, key : {None}]
            \cup [do : {"key", "check"}, path : Paths, key : Keys]
Root == Item("visit", << >>, None)

(* The key that is being migrated, and what was read for it. *)
Hands == [item : Items, value : Vals \cup {None}, rest : [Keys -> Vals \cup {None}],
          read : BOOLEAN]
NoHand == [item |-> Root, value |-> None, rest |-> [k \in Keys |-> None], read |-> TRUE]

Runs == [pc : Steps, dry : BOOLEAN, mode : Modes, agenda : SUBSET Items,
         hand : Hands, count : Nat, failed : BOOLEAN]
NoRun == [pc |-> "idle", dry |-> FALSE, mode |-> "interactive",
          agenda |-> {}, hand |-> NoHand, count |-> 0, failed |-> FALSE]

TypeOK ==
    /\ inc \in Vaults /\ prod \in Vaults /\ snap \in Vaults /\ last \in Vaults
    /\ {up, files, broken} \subseteq BOOLEAN
    /\ switched \subseteq Envs
    /\ run \in Runs
    /\ result \in Results
    /\ faults \in 0 .. MaxFaults /\ writes \in 0 .. MaxWrites /\ drys \in 0 .. MaxDry
    /\ hidden \subseteq Slots /\ wiped \subseteq Slots /\ late \subseteq Slots

-----------------------------------------------------------------------------
(* Reading a vault *)

At(v, p) == [k \in Keys |-> v[<<p, k>>]]
KeysAt(v, p) == {k \in Keys : v[<<p, k>>] # None}

(* p is q or above it. *)
Above(p, q) == Len(p) <= Len(q) /\ SubSeq(q, 1, Len(p)) = p

(* What a listing of p shows: the paths below it that lead to a secret. *)
Children(v, p) ==
    {q \in Paths : /\ Len(q) = Len(p) + 1 /\ Above(p, q)
                   /\ \E r \in Paths : Above(q, r) /\ KeysAt(v, r) # {}}

(* The slots at p and below it: what nobody sees when p is not visited. *)
Below(p) == {s \in Slots : Above(p, s[1])}

(* Nothing has been taken from the inception vault yet. *)
Whole == up /\ files

(* Some of the calls of a step fail; each failure counts. *)
Fail(n) == faults' = faults + n /\ faults + n <= MaxFaults

-----------------------------------------------------------------------------
Init ==
    /\ inc \in FirstInc /\ prod \in FirstProd
    /\ up = TRUE /\ files = TRUE /\ snap = Empty /\ last = Empty
    /\ switched = {} /\ run = NoRun /\ result = "none"
    /\ faults = 0 /\ writes = 0 /\ drys = 0
    /\ hidden = {} /\ wiped = {} /\ late = {} /\ broken = FALSE

End(r) == run' = NoRun /\ result' = r

(* The operator starts the command, until it has once ended well.  A dry   *)
(* run goes straight to the walk.                                          *)
Start(dry, mode) ==
    /\ run.pc = "idle" /\ result # "ok"
    /\ run' = [NoRun EXCEPT !.pc = IF dry THEN "walk" ELSE "validate",
                            !.dry = dry, !.mode = mode,
                            !.agenda = IF dry THEN {Root} ELSE {}]
    /\ drys' = IF dry THEN drys + 1 ELSE drys
    /\ drys' <= MaxDry
    /\ IF Whole THEN hidden' = {} /\ late' = {} ELSE UNCHANGED <<hidden, late>>
    /\ result' = "none"
    /\ UNCHANGED <<inc, up, files, prod, snap, switched, faults, writes, wiped, last, broken>>

(* Both vaults must answer. *)
ValidateTargets ==
    /\ run.pc = "validate"
    /\ \/ up /\ run' = [run EXCEPT !.pc = "snapshot"] /\ UNCHANGED <<result, faults>>
       \/ ~Whole /\ End("failed") /\ UNCHANGED faults
       \/ Fail(1) /\ End("failed")
    /\ UNCHANGED <<inc, up, files, prod, snap, switched, writes, drys, ghosts>>

(* Mutant: a path that holds a secret is not looked into. *)
MutReached(shut) == {p \in Paths : \A q \in Paths :
                        Above(q, p) /\ q # p => q \notin shut /\ KeysAt(inc, q) = {}}

(* The paths an export reaches when the paths in shut cannot be listed. *)
Reached(shut) ==
    {p \in Paths : /\ \A q \in Paths : Above(q, p) /\ q # p => q \notin shut
                   /\ p = << >> \/ \E r \in Paths : Above(p, r) /\ KeysAt(inc, r) # {}}

(* Export of the whole tree into a new file.  A path that cannot be read   *)
(* but can be listed is left out in silence, as are the paths below a      *)
(* secret that cannot be listed; only a path that holds no secret (or      *)
(* whose secret cannot be read) and cannot be listed fails the export.     *)
Export(gone, shut) ==
    LET seen == Reached(shut)
        bad(p) == p \in shut /\ (p \in gone \/ KeysAt(inc, p) = {})
    IN IF \E p \in seen : bad(p) THEN {}
       ELSE {[s \in Slots |-> IF s[1] \in seen \ gone THEN inc[s] ELSE None]}

SnapshotInceptionVault ==
    /\ run.pc = "snapshot"
    /\ \/ \E gone, shut \in SUBSET Paths :
            /\ Cardinality(gone) + Cardinality(shut) <= MaxFaults
            /\ gone \subseteq {p \in Reached(shut) : KeysAt(inc, p) # {}}
            /\ shut \subseteq Reached(shut)
            /\ Fail(Cardinality(gone) + Cardinality(shut))
            /\ \/ /\ Export(gone, shut) = {}
                  /\ End("failed") /\ UNCHANGED snap
               \/ /\ snap' \in Export(gone, shut)
                  /\ run' = [run EXCEPT !.pc = "walk", !.agenda = {Root}]
                  /\ UNCHANGED result
       \/ Fail(1) /\ End("failed") /\ UNCHANGED snap   \* the file cannot be written
    /\ UNCHANGED <<inc, up, files, prod, switched, writes, drys, ghosts>>

-----------------------------------------------------------------------------
(* The walk *)

Rank == [visit |-> 1, key |-> 2, check |-> 3]

(* What may be done next.  Interactive: the subtrees first, then the keys  *)
(* of the path itself, then what is next to it.  Structured: all keys are  *)
(* collected, then migrated, then checked.  The order of names, which the  *)
(* code sorts, is any here.                                                *)
Ready(do) ==
    {i \in run.agenda :
        /\ run.pc = "walk" /\ i.do = do
        /\ \A j \in run.agenda :
             IF run.mode = "structured" THEN Rank[i.do] <= Rank[j.do]
             ELSE /\ Len(j.path) <= Len(i.path)
                  /\ i.do = "visit" /\ j.do = "key" => Len(j.path) < Len(i.path)}

ToDo(do, p, ks) == {Item(do, p, k) : k \in ks}
Visits(kids) == {Item("visit", q, None) : q \in kids}

(* What a path adds: its subtrees, its keys, in structured mode to be      *)
(* checked as well.                                                        *)
Collected(p, kids, keys) ==
    Visits(kids) \cup ToDo("key", p, keys)
        \cup (IF run.mode = "structured" THEN ToDo("check", p, keys) ELSE {})

(* Read the path, list it.  Neither failure is reported. *)
Visit ==
    /\ \E i \in Ready("visit"), canRead, canList \in BOOLEAN :
        LET p == i.path
            keys == IF canRead THEN KeysAt(inc, p) ELSE {}
            kids == IF canList THEN Children(inc, p) ELSE {}
        IN /\ up \/ ~(canRead \/ canList)
           /\ canRead \/ ~up \/ KeysAt(inc, p) # {}    \* nothing read either way
           /\ canList \/ ~up \/ Children(inc, p) # {}
           /\ IF up THEN Fail((IF canRead THEN 0 ELSE 1) + (IF canList THEN 0 ELSE 1))
                    ELSE UNCHANGED faults
           /\ run' = [run EXCEPT !.agenda = (@ \ {i}) \cup Collected(p, kids, keys)]
           /\ hidden' = hidden \cup (IF canRead \/ ~up THEN {} ELSE {p} \X Keys)
                               \cup (IF canList \/ ~up THEN {} ELSE Below(p) \ ({p} \X Keys))
    /\ UNCHANGED <<inc, up, files, prod, snap, switched, result, writes, drys,
                   wiped, late, last, broken>>

(* Mutant: a key that failed is taken off the count. *)
MutSkip(i) == run' = [run EXCEPT !.pc = "walk", !.agenda = @ \ {i},
                                 !.hand = NoHand, !.failed = TRUE, !.count = @ - 1]

(* A key that could not be migrated: the walk goes on. *)
Skip(i) == run' = [run EXCEPT !.pc = "walk", !.agenda = @ \ {i},
                              !.hand = NoHand, !.failed = run.mode = "interactive" \/ @]

(* Mutant: keys are counted in the structured modes only. *)
MutCounted(i) == run' = [run EXCEPT !.pc = "walk", !.agenda = @ \ {i}, !.hand = NoHand,
                                    !.count = IF run.mode = "interactive" THEN @ ELSE @ + 1]

(* A key that was migrated.  The structured modes count what they check.   *)
Counted(i) == run' = [run EXCEPT !.pc = "walk", !.agenda = @ \ {i}, !.hand = NoHand,
                                 !.count = IF run.mode = "interactive" THEN @ + 1 ELSE @]

(* What the walk writes into: a dry run gives the inception vault twice. *)
Target == IF run.dry THEN inc ELSE prod

(* Get the value from inception, and read what the target has at the path, *)
(* to keep its other keys.  A read that fails is an empty secret.          *)
ExportKey ==
    /\ \E i \in Ready("key") :
        LET p == i.path  k == i.key
        IN \/ /\ inc[<<p, k>>] # None
              /\ \E read \in BOOLEAN :
                  /\ run' = [run EXCEPT !.pc = "import",
                        !.hand = [item |-> i, value |-> inc[<<p, k>>],
                                  rest |-> IF read THEN At(Target, p) ELSE NoHand.rest,
                                  read |-> read]]
                  /\ Fail(IF read THEN 0 ELSE 1)
           \/ /\ inc[<<p, k>>] = None       \* gone since it was found
              /\ Skip(i) /\ UNCHANGED faults
           \/ Fail(1) /\ Skip(i)
    /\ UNCHANGED <<inc, up, files, prod, snap, switched, result, writes, drys, ghosts>>

(* The secret as it is written back: what was read, with the one key set. *)
Merged(v, hand) ==
    [s \in Slots |-> IF s = <<hand.item.path, hand.item.key>> THEN hand.value
                     ELSE IF s[1] = hand.item.path THEN hand.rest[s[2]] ELSE v[s]]

(* Write, read back, compare.  A write may fail, and take effect or not;   *)
(* a read back may fail.                                                   *)
ImportKey ==
    /\ run.pc = "import"
    /\ LET i == run.hand.item
           new == Merged(Target, run.hand)
       IN \/ /\ IF run.dry THEN inc' = new /\ UNCHANGED prod
                           ELSE prod' = new /\ UNCHANGED inc
             /\ wiped' = IF run.dry THEN wiped
                         ELSE {s \in Slots : new[s] = None
                                             /\ (s \in wiped \/ (prod[s] # None /\ ~run.hand.read))}
             /\ \/ Counted(i) /\ UNCHANGED faults
                \/ Fail(1) /\ Skip(i)
          \/ Fail(1) /\ Skip(i) /\ UNCHANGED <<inc, prod, wiped>>
    /\ UNCHANGED <<up, files, snap, switched, result, writes, drys, hidden, late, last, broken>>

(* Structured modes read every key once more from both vaults. *)
ValidateSinglePath ==
    /\ \E i \in Ready("check"), answered \in BOOLEAN :
        LET s == <<i.path, i.key>>
            same == inc[s] # None /\ inc[s] = Target[s]
        IN  /\ Fail(IF answered THEN 0 ELSE 1)
            /\ run' = [run EXCEPT !.agenda = @ \ {i},
                                  !.count = IF answered /\ same THEN @ + 1 ELSE @,
                                  !.failed = @ \/ ~(answered /\ same)]
    /\ UNCHANGED <<inc, up, files, prod, snap, switched, result, writes, drys, ghosts>>

(* The walk is over: any failure, or nothing migrated at all, ends the     *)
(* command.                                                                *)
WalkDone ==
    /\ run.pc = "walk" /\ run.agenda = {}
    /\ \/ run.failed /\ End("failed")
       \/ ~run.failed /\ run.dry /\ End("previewed")
       \/ ~run.failed /\ ~run.dry /\ run.count = 0 /\ End("failed")
       \/ /\ ~run.failed /\ ~run.dry /\ run.count > 0
          /\ run' = [run EXCEPT !.pc = "confirm"] /\ UNCHANGED result
    /\ UNCHANGED <<inc, up, files, prod, snap, switched, counts, ghosts>>

-----------------------------------------------------------------------------
(* The end of the inception vault *)

(* Anything but yes keeps the inception vault; without a terminal the      *)
(* question is an error.                                                   *)
ConfirmDecommission == Fail(1) /\ \E r \in {"cancelled", "failed"} : End(r)

(* --force is a yes that is not asked for. *)
MigrateStepDecommission ==
    /\ run.pc = "confirm"
    /\ \/ run' = [run EXCEPT !.pc = "decommission"] /\ UNCHANGED <<result, faults>>
       \/ ConfirmDecommission
    /\ UNCHANGED <<inc, up, files, prod, snap, switched, writes, drys, ghosts>>

(* A process the search for it misses lives on.  Says how many calls failed. *)
KillSafeProcesses(missed) == up' = (up /\ missed = 1)

(* The files go whether the process is dead or not, unless they cannot be  *)
(* removed.                                                                *)
CleanupVaultFiles(kept) ==
    /\ files' = (files /\ kept = 1)
    /\ inc' = IF up' /\ ~files' THEN Empty ELSE inc

(* Sessions and processes are killed, files removed; nothing is an error.  *)
DecommissionInception ==
    /\ run.pc = "decommission"
    /\ \E missed, kept \in {0, 1} :
        /\ KillSafeProcesses(missed) /\ CleanupVaultFiles(kept) /\ Fail(missed + kept)
    /\ last' = IF Whole /\ ~Whole' THEN inc ELSE last
    /\ run' = [run EXCEPT !.pc = "update"]
    /\ UNCHANGED <<prod, snap, switched, result, writes, drys,
                   hidden, wiped, late, broken>>

GetTargetTypesForKit(kit) ==
    IF kit \in MgmtKits THEN {"mgmt"} ELSE IF kit \in BothKits THEN Tiers ELSE {"ocf"}

(* What is to be switched follows from the kits that are deployed, not     *)
(* from the tiers they are deployed in.                                    *)
Targets == UNION {{[kit |-> e.kit, tier |-> t] : t \in GetTargetTypesForKit(e.kit)} : e \in Envs}
Updatable == Targets \cap Envs

(* Each environment is switched on its own; that of a target which is not  *)
(* deployed fails.  A call that fails may have done its work.              *)
UpdateAllEnvironments ==
    \E bad \in SUBSET Updatable : \E missed \in SUBSET bad :
        /\ Fail(Cardinality(bad))
        /\ switched' = switched \cup (Updatable \ missed)
        /\ End(IF bad = {} /\ Targets \subseteq Envs THEN "ok" ELSE "failed")
        /\ broken' = (broken \/ (~Whole /\ ~(missed \subseteq switched)))

(* A list of environments that cannot be had is an empty list. *)
NoEnvironmentsFound ==
    /\ Fail(1) /\ End("ok") /\ UNCHANGED switched
    /\ broken' = TRUE

UpdateEnvironmentSecrets ==
    /\ run.pc = "update"
    /\ UpdateAllEnvironments \/ NoEnvironmentsFound
    /\ UNCHANGED <<inc, up, files, prod, snap, writes, drys, hidden, wiped, late, last>>

-----------------------------------------------------------------------------
(* An environment that still uses the inception vault writes to it. *)
EnvironmentWrites ==
    /\ up /\ switched # Envs /\ writes < MaxWrites
    /\ \E s \in Slots :
        /\ inc[s] # Fresh
        /\ inc' = [inc EXCEPT ![s] = Fresh]
        /\ late' = late \cup {s}
    /\ writes' = writes + 1
    /\ UNCHANGED <<up, files, prod, snap, switched, run, result, faults, drys,
                   hidden, wiped, last, broken>>

(* The process dies. *)
Kill ==
    /\ run.pc # "idle" /\ Fail(1)
    /\ End("failed")
    /\ broken' = (broken \/ (~Whole /\ ~(Updatable \subseteq switched)))
    /\ UNCHANGED <<inc, up, files, prod, snap, switched, writes, drys, hidden, wiped, late, last>>

RunStep == \/ ValidateTargets \/ SnapshotInceptionVault \/ Visit \/ ExportKey
           \/ ImportKey \/ ValidateSinglePath \/ WalkDone \/ MigrateStepDecommission
           \/ DecommissionInception \/ UpdateEnvironmentSecrets

StartReal == \E mode \in Modes : Start(FALSE, mode)

Next ==
    \/ \E dry \in BOOLEAN, mode \in Modes : Start(dry, mode)
    \/ RunStep \/ EnvironmentWrites \/ Kill

Spec == Init /\ [][Next]_vars

(* A command that runs goes on, and the operator starts it again until it  *)
(* has ended well, with a real run some time.                              *)
FairSpec == Spec /\ WF_vars(RunStep) /\ WF_vars(StartReal)

-----------------------------------------------------------------------------
(* Properties *)

(* The slots of v, but for those in excused, are in production. *)
Copied(v, excused) ==
    \A s \in Slots \ excused : v[s] # None => prod[s] = v[s]

(* When the inception vault is gone (manager.go:decommissionInception),    *)
(* stopped or emptied, production has every value it held last.  Three     *)
(* things escape the walk and nothing else: what a failed read or listing  *)
(* hid from it, what was written after it had passed, and what a later     *)
(* write to the same path dropped.  The structured modes, which read       *)
(* everything again before they go on, catch the third.                    *)
CopiedBeforeGone ==
    /\ ~Whole => Copied(last, hidden \cup late \cup wiped)
    /\ run.pc = "decommission" /\ run.mode = "structured" => Copied(inc, hidden \cup late)

(* The snapshot is the second copy (manager.go:snapshotInceptionVault): no *)
(* single failure makes the bloc lose a secret the inception vault still   *)
(* had at the end.                                                         *)
OneFaultLosesNothing ==
    ~Whole /\ faults <= 1 =>
        \A s \in Slots \ late : last[s] # None => last[s] \in {prod[s], snap[s]}

(* No secret is lost by the way but those the two parts except.            *)
SecretsSurvive == CopiedBeforeGone /\ OneFaultLosesNothing

(* Started again after every failure, kill and refusal, the command ends   *)
(* with every environment on the new vault that is in a tier its kit is    *)
(* switched in.  One thing stops it, and nothing else: such an environment *)
(* was missed when there was no whole inception vault left to start from,  *)
(* or no environment was found at all, which passes for success.           *)
Converges == <>(Updatable \subseteq switched \/ broken)
=============================================================================
