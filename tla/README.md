# Verification of the OCFP CLI

`ocfp` is a Go command line program that creates, maintains and destroys the infrastructure of a
Cloud Foundry "bloc" (networks, guests, volumes, addresses, secrets) on Proxmox, STACKIT, AWS, Azure
or GCP, starting with a *bastion*, the guest everything else is reached through. Each invocation is a
process of its own. It acts on a provider's API, on the bastion over ssh and on the bloc's vaults, and keeps what it
knows in files: one state file per bloc, one `state.yml` for all of them, a checkpoint per bastion initialisation, a
marker on the bastion.
Nothing ties these together but the order of the steps, so what has to be right is what happens when
a step fails, the process dies, the command is run again with other flags, or two operators run it at
once.

This directory holds TLA+ models of those parts, TLC configurations that check them and TLAPS proofs
about all of them. Paths below are relative to the repository; `internal/` is left out.

1. [The system](#the-system)  2. [The modules](#the-modules)  3. [The runs](#the-runs)
4. [Fairness](#fairness)  5. [The proofs](#the-proofs)  6. [What the code does that its documents do not say](#what-the-code-does-that-its-documents-do-not-say)
7. [What is not modelled](#what-is-not-modelled)  8. [Plan](#plan)

## The system

| Component | State it keeps | Operations | What is hard | What makes it correct |
|---|---|---|---|---|
| **Recycle** `recycle/`, `bootstrap/recycle_*.go` | a journal (`RecyclePhase`) in the state file; the guests, their names, the data disk and its serial at the hypervisor | `Run` through nine phases, `Abort` backwards, pause, `ReconstructPhase` from the cluster | death between a journal entry and its phase, resume and abort from any point, two ways to move a disk, guest ids that are reused | the data disk is never destroyed; never two guests with one name or one address; success means what it says |
| **State store** `state/state.go`, `backup.go` | the state file, `.backup`, up to five timestamped backups, a lock file; each process its own copy | `Load`, `AddResource`, `RemoveResource`, `Save`, `SaveWithBackup` with rollback and clean-up, `Lock`, `Unlock` | renames, in-place writes and kills between them; copies that are stale when written back; a lock only teardown takes | nothing saved is lost; one fault leaves a readable copy; one teardown at a time |
| **State sync** `state/reconciler.go`, `diff.go`, `merge.go` | entries keyed by ID or by `type.name` | list in three goroutines, compare, merge by strategy, save | the cloud changes between listings, listings fail, results arrive in any order, one resource has two entries | the merge is independent of the order and forgets only what is gone |
| **Teardown** `commands/teardown*.go` | the list of what to delete, retries, entries, DNS records | list from the state, the provider or both; confirm; detach preserved disks; delete in order; retry; forget | partial failure, stale entries, repeated runs with other flags, attribution of what is found | nothing alive is forgotten, nothing foreign or spared is deleted, repeated runs finish |
| **Bastion initialisation** `bastion/` | a checkpoint on the workstation, a marker on the bastion | phases in order, a batch on concurrent workers, `--resume`, dry run, skip if provisioned | workers that mark and save one checkpoint, kills, rebuilds of the machine beneath both records | phases run in order and are skipped only if they ran; success means a provisioned machine |
| **Bootstrap** `bootstrap/` | the state file; what exists at the provider; the key file | ordered steps that look, create and record; a save after each; an offered rollback | calls refused, or done and answered with an error; kills inside a step; rollback of what earlier runs made; re-runs with other flags | nothing is made twice or left over; success means it is built; disks in use stay |
| **Bastion data volume** `bootstrap/compute_data_volume.go` | disks at the provider, their entries | find, create, attach, tidy up | a disk that exists and is recorded nowhere | (with Bootstrap) |
| **Vault migration** `vault/manager.go`, `safe.go` | the inception and the production vault, a snapshot file, the Genesis environments | validate, snapshot, walk and copy key by key, destroy, switch the environments | a failed read is an empty secret, a failed listing an empty path; writers beside it; the destruction in the middle | no secret is lost by the way; repeated runs finish |
| **Reserved address guard** `vault/reserved_ip_guard.go` | the recorded addresses in vault, each record with the stamp of its scheme | populate, migrate, status, dry run | builds with other tables take turns, records are written in parts, a write reads first and takes failure for emptiness | the address of a living machine stays; the stamp tells the truth; a dry run predicts |
| **Shared CLI state** `config/state.go`, `statelock*.go` | `state.yml`: the current bloc and the SSH keys of every bloc; its lock | load, modify, save under the lock; convert an old `config.yml` | two lock implementations, a conversion without the lock, a save in place, two places to look | saved keys stay |
| **Command tracker** `cli/root.go`, `commands/logs_tracker.go` | one lock file per running command | create, remove, drop the stale ones | commands without a lock, ids in use again | a migration sees who is running |
| **Migration of directories** `commands/migrate.go` | `~/.ocfp` and the XDG directories | plan, guard, conflict check, rename, merge or copy, remove | commands beside it, kills and failures between two moves, files on both sides | no file is lost or overwritten; repeated runs finish |
| Reserved addresses, network layout `reservedip/`, `netlayout/` | none | pure arithmetic on address ranges | ends of ranges, small subnets, overlaps | *(planned)* |

They meet in the bloc's **state file**: bootstrap and recycle record under `type.name`, sync under
the provider's ID, teardown reads both and removes, recycle keeps its journal there, and every one of
them writes back the whole document it loaded. They also meet at the **provider**, which each of them
lists, changes and attributes by names or tags, and on the **bastion's disks**: recycle and bootstrap
carry the data disk across machines, initialisation keeps its marker where that disk might be mounted,
teardown detaches what is to be preserved. All of them read the bloc's keys from `state.yml`, wherever the
migration has put it, and the vault records the addresses of the machines the others build. The remaining components
(access commands, logs, artifacts, precompile, tests, the providers themselves) are listed with reasons in `PROJECT.json`,
which also lists the 40 most important hazards with their source lines and the properties that watch them. Some more, of
parts that are not modelled:

- SSH client: a cancelled command may still be running on the bastion when its phase is tried again
  (`bastion/ssh/client.go:817`).
- Command tracker: `logs` cleans up what it cannot parse, so it may read a lock file between its creation and its writing
  and remove the lock of a running command (`commands/logs_tracker.go:205`).
- Reserved addresses: offsets at the ends of ranges, ranges that cross an octet, the last host of a small subnet
  (`reservedip/reservedip.go:393`).

## The modules

| Module | Models | What of it |
|---|---|---|
| `Recycle` | the engine, its cluster adapter and the Proxmox calls they use | every journal write, guard, phase, compensation and call that changes the cluster |
| `DiskCustody` | what a recycle promises about the disk, without journals, processes or names | the abstract specification `Recycle` implements (`KeepsCustody`) |
| `StateStore` | `state.Manager` and the files it owns, with the commands as users | every rename, open, write, backup, rollback, clean-up and lock operation |
| `Reconcile` | `state sync` | every list call, the arrival of results, the diff, the three merges |
| `TeardownState`, `Teardown` | `ocfp teardown` | the whole of `Execute`, from the probe to the retries |
| `BastionInit` | `ocfp init bastion` | the gate, the executors, the batch, each half of a save, the end |
| `Bootstrap` | `ocfp bootstrap`, the data volumes | every step that creates something, the saves, the failure path, the rollback |
| `VaultMigrate` | `ocfp vault migrate` | the five steps in both output modes and as a dry run, and the calls to `safe` |
| `ReservedIPs` | `vault populate` and `reserved-ips` where they record addresses | the guard, the recorder of dry runs, the two kinds of write |
| `Home` | `state.yml`, command locks and `config migrate` together | every lock operation, load, write, move, copy and removal |
| `MC...` | | the small instances TLC checks; `Recycle` and `Bootstrap` need none |
| `RecycleProofs`, `StateStoreProofs`, `ReconcileProofs`, `BastionInitProofs`, `VaultMigrateProofs`, `ReservedIPsProofs`, `HomeProofs` | | theorems about the module of that name and their proofs |
| `BlocProofs` | | theorems about Bootstrap, which it extends, and about Teardown, of which it has an instance `T` over the variables of `TeardownState` |

An action is one call that changes a file, the provider or the bastion, with the reads and guards
leading to it; between two actions the process may die or another may run. `PROJECT.json` maps each
definition to its lines. Definitions named `Mut...` or with an underscore
(`CompensationFor_KeepDisk`) are not part of any specification: each is the mutation of the definition below it that must break a property, which
shows that the property depends on that piece of the code.

### Recycle

`name[v]` is a guest's name (`Final` is `<bloc>-bastion`, `Transient` is `<bloc>-bastion-next`),
`running[v]` its power. The disk is `diskOn` (the guest whose configuration references it), `diskId`
(the volume's own name, which contains a guest id), `diskSerial` (the option by which the code finds it)
and `diskLost`. `file` is what recycle keeps in the state file: journal, volume record, bastion record.
Each operator process has a program point `pc`, the phase it is in and the document `mem` it loaded
at its start. `Resolve` is the beginning of `Engine.Run`, `PlanAbort` that of `Abort`, `Journal` is
`Engine.record`, and the phases are the methods of the cluster adapter, cut where one method makes several
calls: the handover is `CheckHandover`, `HandOverDisk`, `RestoreDiskOptions` (or `AttachDisk` after
a detach) and `RecordVolumeOwner`. `DeleteInstance` deletes, as `compute.go` of the Proxmox provider does, the guest and every
disk its configuration references. Failures: `Interrupt` ends a process at any point (death, or an
API error, which the engine answers by giving up), `CrashInSave` loses the state file between the rename and
the write of `Save`, a *blink* is a listing that fails and is read as empty, a *refusal* is a reassignment
the hypervisor rejects, after which the code falls back to detach and attach. Guest ids are reused:
a replacement takes any id that is free, as the hypervisor hands them out.

### StateStore

`file` and `plain` are the state file and `.backup`, `stamped` the timestamped backups with the local
time in their names; `fd[p]` says through which inode a process that has opened the file writes (a rename moves the file
under an open descriptor, and the write then goes to `.backup`). `Save` is three actions
(`SaveRename`, `SaveOpen`, `SaveWrite`), a sync is `CreateBackup`, `AtomicWrite`, clean-up, and after a
failed replacement `RollbackOpen` and `RollbackWrite`. A process is a `recorder` (bootstrap: adds, saves
after each), a `syncer`, or a `remover` (teardown: loads, *then* locks, removes, saves). The documents are
sets of keys. `Faults` lists what may fail; `Together` are the commands that may overlap, the others run alone.
`fate` records what the last save said of each key and is what `NothingForgotten` compares with.

### Reconcile

`cloud` changes at any moment (`Create`, `Change`, `Destroy`); `Discover(c)` is one list call of
category c's goroutine, `Receive(c)` the arrival of its result, whose `rank` decides between two
resources with one ID. `Merged` composes the merge as `Merge` does: additions, modifications, removals,
each computed from the comparison made before any of them. An entry that is updated keeps its type
(`UpdateResourceFromDiscovered`). `seen` is history: what the cloud was made of since the sync began. `Record` and `RemoveResource` stand for
bootstrap and teardown, which key by name.

### Teardown

`TeardownState` holds the variables and what is to hold of them, `Teardown` the runs. `live`, `attached`, `full` and `dns` are the provider's and Cloudflare's;
`recorded` the entries of the state file, `current` those of the document a run has loaded.
`AlreadyTornDown` is the Proxmox probe, `Discovered` the three ways of listing, `Take` and `Priority` the order,
`Detach` the preserved disks of a guest about to go, `DeleteResource` with `Conflict`, `Skipped`, `Deleted`,
`AlreadyGone`, `Busy` and `Fails` every answer a deletion can get and how the text of an error is read,
`UpdateState` the removal of the entry, `RetryFailed` the second pass. A run may be cancelled, refused,
crash, or fail to load or save. One operator at a time: the lock is StateStore's subject. Kinds
that take the same path share a representative: a load balancer, snapshot, address, interface, key pair or
subnet is deleted, retried and forgotten as a `security_group`, a `network` or an `address` is.
`BlocNamed` are the resources that carry the bloc's name, whosever they are, and `Unfiltered` the foreign addresses a provider lists
whatever the filter: what a run may take for the bloc's through them is `Mistakable`, which `OthersSurvive` excepts.

### BastionInit

A `Plan` is a sequence of stages: singletons run by the command, and in parallel mode the batch on the worker pool.
Within a stage a phase goes through `Skip` or `Begin`, `Succeed` or `Break`, `Save`, `Write`: the save is two actions
because it truncates and then writes in place, and two workers' documents may mix. `done`
and `marker` are on the machine, `file` is the checkpoint on the workstation, `progress` the process's copy.
`Rebuild` replaces the machine between two runs; the home directory may be carried over as a mount.
`hollow` is history: claims in a checkpoint that were made by a dry run, or about the previous machine,
and so were never true of this one. Properties except them and section 6 says how they arise.

### Bootstrap

`cloud[k]` are the instances of kind k that exist, numbered 1 to `MaxId` so that a duplicate or a successor can be told from
the first; `file` and `mem` hold one entry per kind. A step is one or more actions at a program point of `run`:
look (in the entry, then at the provider where the code does), create, attach, tidy up. `Call` gives every call its three ways
to end: done, refused, or done and answered with an error. `Supported` are the kinds a provider has: data disks and the artifacts guest are Proxmox's
(`config/bastion_data.go:91`, `artifacts_config.go:250`). `owner` is the guest a data disk was allocated for, whose number is in its name (`CreateVolume`): the
pool takes no second disk of that name. Guests are numbered from the lowest free number, as Proxmox does, so that the number of one that is gone comes again. A data disk is known by its entry only
(`ResolveBastionDataVolume`; section 6 says why the listing never matches). A bastion of Proxmox is cloned, tagged and started in separate calls
(`half` are those not yet tagged, which no listing shows). `HandleBootstrapStepError` is the failed step,
`DeleteResource` one entry of the rollback the operator may ask for (by type in `RollbackOrder`; volumes, which are of one type, in any order, as
the code collects them from a map), `TearDownArtifacts` the rebuild of the artifacts guest whose volume is preserved.
The ghosts `used`, `blind`, `losses`, `misled` and `keyLost` record which accidents have happened; the properties name them.

### VaultMigrate

A vault maps slots (a path and a key) to values; a path may hold keys and further paths. What is left of a walk is its `agenda`, a set of paths to
visit and keys to migrate or check; `Ready` says which of them may be next: what lies below a path comes first, and a structured run collects,
then migrates, then checks. The order of names is left open. `Visit` reads and lists one path,
`ExportKey` and `ImportKey` copy a slot; `Merged` is what `Set` writes back after reading the secret's other keys, or after
failing to. `Children` and `KeysAt` are what `safe` answers, and a failure of either empties the walk's view of a subtree (`hidden`).
`EnvironmentWrites` goes on until an environment is switched. The inception vault is `Whole` while it answers and its files are there; the
decommission stops the process or misses it (`up`) and removes the data directory and the keys in either case (`files`). `Targets` is what the kit table makes of the
deployed environments, `Updatable` those among them that exist. A `structured` run validates again what it has copied, an `interactive`
one counts and asks; `Target` is the inception vault again in a dry run, as in the code.

### ReservedIPs

A *table* stands for one build with one configuration and one state file: what it derives for each record and role, under which
scheme. A run takes a table and goes record by record: `Obsolete`, `Visible`, `Stamp` and `Writes` are the guard's
decisions on what it holds, wants and may overwrite (`TakeUp`, `Overwritten`). `engine` is whether the run knows the kind of the mount:
until then a failed detection makes `ReadExisting` take the record for empty (`misread`). Records of class `Complete` are written in one piece, the others key by key.
`live` is where a machine was deployed; a populate without force must not move it. Dry runs and `status` write to a recorder
(`pending`) and leave a `forecast` that the next run of the same command is compared with.

### Home

`at[r][f]` is file f under root r (`legacy`, `new`, or `stray`, where no lookup goes); the contents of `state.yml` is the
set of blocs whose keys it holds. A command goes from `Peek` (the look at the current bloc, which may convert an old `config.yml`) through
the tracking lock to `AcquireStateLock`, `LoadState`, `SaveState` (which looks the path up), `Truncate` (which opens it), `Write`, `Unlock`; every path is `Resolved` anew, as in the code.
`holder` is `flock` on Unix, and the existence of the lock file on Windows (`Dead` where its creator died). `mig` is the migration
with the entry it is at, one file at a time: rename, or create, fill and remove across devices. `machine` fixes the
operating system, whether the roots are on two devices, and the files at the start. The three accidents that `KeysKept` excepts are
action formulas (`Tears`, `Clobbers`, `Overtakes`); `spoilt` remembers that one has happened. `revived` remembers that a save has made `state.yml`
anew at a place the migration had moved it from.

## The runs

`bastion recycle`, `state`, `teardown`, `init`, `bootstrap` and `reserved-ips` models check for deadlock; they either never stop
or say where they end (`AllGone`). `vault_migrations` and `home_runs` do not: the vaults are migrated for good, and commands and migration are
over. Times are with two workers; the longest takes about two minutes.

| Run | Module | Kind | Shows |
|---|---|---|---|
| `recycle_interrupted` | Recycle | pass | With up to four interruptions anywhere, the disk survives and passes from live guest to live guest (`KeepsCustody`), what the journal and a reported success or abort say is true (`RecordIsTrue`), and past the point of no return re-running finishes |
| `recycle_degraded` | Recycle | pass | Both ways of moving the disk, with one interruption, refusal, misread listing and lost file: the original goes only once the disk named after it is elsewhere; one name, one guest |
| `store_runs` | StateStore | pass | A bootstrap, two syncs and two teardowns, one forced, the teardowns at once, with one fault of any kind: nothing saved is lost, some readable copy remains, one teardown works at a time until a lock is forced |
| `reconcile_sync` | Reconcile | pass | Syncs of every strategy over a changing cloud: what lives stays known, the merge does not depend on the order of arrival, and each strategy keeps its word |
| `teardown_runs` | Teardown | pass | Any number of runs with six command lines and two faults: nothing alive is forgotten, nothing foreign that the code can tell apart, and no disk it could spare, is deleted, and repeated runs clear the bloc |
| `teardown_preserved` | Teardown | violation | The preserved disk that was detached to survive its guest is deleted by the same run as a listed volume |
| `init_runs` | BastionInit | pass | Sequential, parallel, resumed and dry runs, two faults, one rebuild: checkpoints tell the truth, phases run in order, success means provisioned, and repeating the command gets there |
| `bootstrap_runs` | Bootstrap | pass | Runs on Proxmox and AWS, whole or for the bastion only, with two faults, a rollback and a rebuilt artifacts guest: nothing is made twice or left over (`NoLeftovers`), success means it is built, disks in use stay, and repeated runs end well |
| `bootstrap_rollback` | Bootstrap | violation | On Proxmox, the rollback of a failed second run deletes what the first run finished, its data disk included |
| `vault_migrations` | VaultMigrate | pass | Migrations in both modes with failed calls, kills, refusals and writers: what the walk saw is in production before the old vault is stopped or emptied, one failure alone loses nothing, and repeated runs finish unless an environment was missed with no whole vault left |
| `reserved_runs` | ReservedIPs | pass | Builds with different tables take turns, plain, forced and dry, with one failed call, engine detection or kill: the address of a living machine stays unless a forced or misreading run moves it, stamps are true, dry runs predict |
| `home_runs` | Home | pass | Two commands save keys in `state.yml`, on Unix and Windows, while a migration moves it, with one kill or failed write: saved keys stay, no file is lost or overwritten, and the migration ends unless a conflict, a killed copy, a revived `state.yml` or Windows across volumes stops it |

Every violation is a disagreement between the code and a line of its own comments or messages;
`PROJECT.json` quotes both under `findings`.

### Bounds, and why they are enough

Safety is proved without these bounds for all modules (see [the proofs](#the-proofs)); they matter for liveness and for the degraded recycle.

- **Recycle**: three guests (original, replacement, and one more so that an id can be free, taken and reused);
  `MaxInterrupts` 4 lets a run, its resume, an abort and its resume each be cut short; `MaxRefusals`, `MaxBlinks`
  and `MaxLosses` 1, as each changes the course once. The proofs lift the bound on guests and interruptions.
- **StateStore**: four keys (one recorded before, two by bootstrap, one by a sync) so that every command has
  something to lose; `MaxFaults` 1, since no property promises more with two (see section 6); `MaxBackups` 1
  in place of 5, so that the clean-up has something to remove; `MaxClock` 1 gives two
  timestamps, enough for equal and for reversed names. The two teardowns overlap; the other commands run alone, since
  nothing in the code guards them from each other and no property would hold.
- **Reconcile**: two IDs, two names of different kinds in different categories, so that resources may share an ID across
  categories; `MaxVersion` 1, `MaxEvents` 4: a resource can be created, changed, destroyed and its ID reused during one sync.
- **Teardown**: eight resources, one for each path (see the comment of `MCTeardown`), a look-alike guest of another bloc and an unfiltered address among them; 1.6 million states; `MaxRetryAttempts` 2 in
  place of 3 (the loop only counts); `MaxMishaps` 2 covers a deletion that fails in both passes, or fails once and crashes.
- **BastionInit**: one phase before the batch, two in it and two workers, three after (the vault, the marker's phase and
  the verification after it), one only the parallel list has; `MaxFaults` 2, `MaxRebuilds` 1. Half a million states. The proofs hold
  for every list of phases, number of workers, faults and rebuilds.
- **Bootstrap**: `MaxId` 3: an instance, a duplicate, and a successor. Two faults: one that leaves something behind and one that
  keeps the next run from cleaning up. One rollback and one rebuild are what the order of runs before and after needs. The violation run has
  Proxmox only, the provider on which there are data disks to lose.
- **VaultMigrate**: the root and a path below which there is another, and two keys: a path that is both secret and
  directory, and a neighbour key that a failed read drops; production is new or holds something already. Three environments: a kit of each tier, and one that the kit table does not look for where it is.
  Two faults (a vault that lives on and an environment that is missed), one write beside the walk, one dry run.
- **ReservedIPs**: two records, one of each kind, two roles, and three tables: an older build, the present one, which
  moves one role and retires the other, and the present one that cannot read its state file. One
  fault: each changes the course once, and a second is excepted by the same ghosts.
- **Home**: two commands (one to lose its keys, one to cause it) besides the bloc whose keys are there from the start; five layouts
  of files, one for each path through the mover. One fault: the hazards of two kills are those of one kill twice, since each run
  starts from the disk alone. 1.1 million states.

## Fairness

Processes that run go on (`WF` on the steps): the only wait for another process in these handlers is the state lock of `Home`,
which gives up after ten seconds (`GiveUp`), and timeouts turn into failures, which are actions outside the step. The operator
repeats the command: `WF` on the start of a run in Bootstrap, VaultMigrate (a real one) and Home (the migration), where it stays enabled until it happens; `SF` on `Start` (on both `run` and `abort` in Recycle, on a complete forced run in Teardown, on a
real run in BastionInit), because a process must be over before the next one starts and other commands may come in
between. Faults, kills, rebuilds and other options have no fairness, and the faults are bounded, so the liveness properties
say: *once the faults are over, repeating the command gets there.* That is the code's own promise: every one of
these commands tells the operator to run it again.

## The proofs

Checked by `tlapm`, without bounds: for every value of the constants that satisfies the assumptions below, so for any number of
resources, processes, phases, failures and repetitions. Each module's invariant (`IInv`; `TornInv` of Teardown, `SafetyInv` and `ForecastInv` in ReservedIPs, `FileInv` and `KeyInv` in Home) was also
checked by TLC on the instance of its run before it was proved.

| Module | Theorems | Properties |
|---|---|---|
| `RecycleProofs` | `Typing` | `TypeOK`, for any number of operators and both ways of moving the disk |
| | `DiskSafe`, `OneName`, `RetireSafe`, `TrueRecord` | `DataDiskSurvives`, `OneBastionName`, `RetiredAfterHandover`, `RecordIsTrue`, under the conditions below |
| | `CustodyKept` | `KeepsCustody`: Recycle implements DiskCustody, under the same conditions |
| `StateStoreProofs` | `Typing`, `LockExcludes`, `SavesAreKept`, `OneFaultLeavesACopy` | `TypeOK`, `Exclusive`, `NothingForgotten`, `CopyKept` |
| `ReconcileProofs` | `Typing`, `TheLivingStay`, `StrategiesKeepTheirWord`, `OrderIsNoMatter` | `TypeOK`, `LivingStaysKnown`, `StrategyKept`, `OrderFree` |
| `BlocProofs` | `Typed`, `NothingLeft`, `SuccessMeansBuilt`, `DisksStay` | `TypeOK`, `NoLeftovers`, `BuildsWhatItClaims`, `UsedDisksStay` of Bootstrap |
| | `Typing`, `EntriesOutliveResources`, `RunsSpare` | `TeardownTypeOK`, `NoOrphan`, `OthersSurvive` |
| `BastionInitProofs` | `Typing`, `CheckpointTruth`, `PhaseOrder`, `SuccessIsReal` | `TypeOK`, `ClaimsAreTrue`, `OrderKept`, `SuccessMeansProvisioned` |
| | `DryRun` | `DryRunChangesNothing` (no run: it holds of every dry run by the theorem) |
| `VaultMigrateProofs` | `Typing`, `NoSecretLost` | `TypeOK`, `SecretsSurvive` |
| `ReservedIPsProofs` | `Typing`, `MachinesStay`, `StampTruth`, `DryRunsForetell` | `TypeOK`, `LiveAddressKept`, `StampIsTrue`, `DryRunPredicts` |
| `HomeProofs` | `Typing`, `SavedKeysStay`, `MigrationsLoseNothing` | `TypeOK`, `KeysKept`, `NothingLost` |

### The assumptions

The constants are assumed to have their types and the markers (`None`, `Nobody`, `NoEntry`) to be none of the values they mark. Beyond that:

- **Recycle**: for the theorems but `Typing`, `Calm` and one operator, see below.
- **Reconcile**: each type is listed by exactly one call of one category, as in `discoverResources`; of a type that nothing
  lists, or whose manager the provider lacks, there are no resources in the model.
- **Bootstrap**: there is an instance of each kind to number, and an address is tried at least once. The
  bastion's disks and the artifacts guest's never share a name, since their guests have different numbers; the model numbers each kind for itself.
- **Teardown**: a volume belongs to the bloc of its guest and never has the bloc's name (Proxmox numbers it by its guest), `--nuke` includes
  `--force`, and what is listed unfiltered is an address. Anything but a volume may have a name that reads as the bloc's.
- **BastionInit**: no phase is in the lists twice, and the marker's phase is in the last.
- **VaultMigrate**: the paths are finitely many and contain all their prefixes, so each is reached from the root; an environment has a kit and one of the two tiers.
- **ReservedIPs**: there is a table.
- **Home**: a file that is in a directory of the new place has the directory.
- **StateStore**: at least one timestamped backup is kept, as `maxBackups` is 5.

### The arguments

None of the properties is inductive. What has to be added says why the code is right, so it is given here for each module.

**Recycle.** `Typing` needs more than types: that `NextPhase` never runs off the end of the order is an invariant over
program points and phases (`InPhase`): a run records success at the last phase instead of entering another, and an abort
gets past its check only from a phase that has a way back.
The others assume `Calm` (listings are answered, no save is cut short, the disk moves by
reassignment) and a single operator. None of the four conditions can be dropped. If the hypervisor refuses one reassignment, the
fallback leaves the volume named after its old owner, the id is reused by a later replacement, and the guard lets the original go with
the disk; with two operators, with one save cut short after one interruption, or with two misread listings the disk is destroyed as
well. The argument is a write-ahead one. The invariant `IInv` says (1) the disk is
on a guest that exists and is named after it, and there is at most one original and one
replacement (`ClusterOK`); (2) the process's document equals the file; (3) what the journal's phase promises about
who holds the disk (`PhaseReady`); (4) what the program point adds between the journal's entry and the phase's end
(`PointOK`). (3) is what a resumed run relies on, and (4) is what makes it inductive: in the middle of a handover the
journal says `handed-over` while the disk may be on either side. There is one lemma per action. `RetireSafe`
follows from (3) and (4) at the one program point that destroys the original. `TrueRecord` adds what a process that has come to its end has left behind
(`Reported`). For the refinement each action is shown to be a step of DiskCustody on the mapped state, or to leave that alone: the handover is the one that
changes the holder, and only cloning, destroying and adopting change which guests there are.

**StateStore.** `Exclusive` needs that the lock names the teardown at work (`Owned`): a teardown that is past `Lock` created the
file, and until somebody uses `--force` nobody but its owner removes it. The two about contents need that at most one command is at work when
none overlap (`Alone`), through which inode an open descriptor writes (`InPlace`), that a command's document is what the file
said when it loaded it, but for its own changes (`Recalled`), and after a fault where each key still is, by program point (`Copied`): a save
that has renamed the file has the old contents in `.backup` and the new in memory, a sync that has backed up has them twice.

**Reconcile.** The properties speak of a document merged from what was received, so the invariant says what has been received:
resources of the category's own types (`Sorted`), each filed under its own ID (`Filed`); of those under one ID one came last (`Latest`), or the index would have no
value there; all that was listed was so at some time since the sync began (`Witnessed`); and what has lived since the sync began has been listed or is of a type that will be (`Pending`). The last needs that
the three goroutines go through their calls in order and that no type is listed in two.

**Teardown.** A run saves the document it loaded with entries removed, so what must not be lost from the file must be in that document as well
(`DocumentHolds`), and an item whose entry is about to go is gone (`RecordedIsGone`), or its error reads as if it were.
What may be deleted is decided when the list is made: every item is the bloc's own or may be mistaken for it (`ListsAreOurs`), and a
guest goes only after the preserved volumes on it were detached or given up (`Detached`).

**Bootstrap.** The properties speak of runs that have ended; they are lost, if at all, in the middle of a step, by a run that fails or is killed there. So the
invariant says what a run holds at each point (`Holding`): a guest it has just made, a disk it has found or made, and nothing between the steps.
What a lookup has answered is still so when the run acts on it (`Seen`), which together with the lookups being the only way to a creation gives one of
each (`Single`), unless a listing had failed (`blind`). Kinds that are made without a lookup are counted: the instances of one kind that neither the entry nor the
run's hands account for are no more than the accidents so far (`Counted`). The count is inductive only because the document and the file agree on these kinds
until a step ends, because in a rollback what the *file* does not name is counted instead, and because a store that is attached to
the guest in hand before it is recorded is there by an accident (`Blamed`). Entries name what exists, in the document always and in the file except
during a rollback, which deletes before it saves (`Truth`, unless an answer was lost there); what the steps behind were to do is done and stays done (`Past`); and on Proxmox
every bastion, recorded or not, was born with the key in the file while it has not been lost (`Keyed`). `NothingLeft` is read off these; `SuccessMeansBuilt`
follows at the last save, where all steps are in the past; `DisksStay` needs only `Holding` and `Blamed`: the three actions that
delete a disk outside a rollback delete the one the run has just made, or its new guest with what is attached to that.
`RollbackOrder` plays no part: the theorems hold for a rollback in any order.

**BastionInit.** The invariant adds to `ClaimsAreTrue` that the process's own claims *and every snapshot being saved* are
covered by what has run: a write puts down what was marshalled before other phases finished. For the order of phases it
adds that the stages behind the current one are covered, which holds because a stage is left only when none of its phases
has failed; a finished phase alone is no evidence, since a worker that fails saves and finishes too (`Ordered`). A success is
reported behind the last stage, so all stages are covered then; and where the marker lets a run end at once, the marker's phase has run, and with it those before. The
dry run is handled by showing that no phase of one is ever `running`.

**VaultMigrate.** While a run walks, each secret of the inception vault is in production already, or still on the agenda, or
below a path that is, or excused by a failure or a late write, or the run has failed and will destroy nothing (`Walked`). In a structured run the
check comes after all copying, so a secret that was dropped again by a neighbour's write is noticed (`Structured`); an interactive run has no such
step and excuses it (`Streamed`). What is held in the hand between the reads and the write is what the vaults still
have (`Handed`). For a single failure the snapshot is whole, or the failure was the snapshot's own and the walk had none
(`SnapKept`). What holds at the end of the inception vault stays true after it (`Ended`): a run against a vault that is stopped writes nothing, and one
that runs on without its files has only what was written late, so a later run copies nothing else (`Hollow`).

**ReservedIPs.** A write is decided by what the run read when it came to the record; `ReadIsFresh` says that this is still what vault holds when the write comes, but for keys
that one of the run's own failed writes has dropped, or that the record was taken for empty and nothing of it was deleted; then the table
is written as a whole, which keeps the stamp true, and what it overwrites is in `moved`. The prediction compares two runs, so its
invariant runs through both: what the dry run shows of the records behind it is what a real run would leave of
them (`DryIsExact`), and while the same command runs undisturbed, the records behind it are already so and those ahead as they
were (`ForecastIsExact`).

**Home.** `FileInv` follows a migration: every file is whole where it was or where it belongs (`Kept`), nothing is left of the entries
behind the cursor (`Behind`), a file at both places is the one being moved (`Clear`), and of the entry at the cursor what is not to do is done
(`Current`). That nothing is overwritten follows because the conflict check sees all data files before the first move, and no command writes any of them. `KeyInv` is
about the document: unless one of the three excepted accidents has happened, no command is between load and save while a migration moves
(`Calm`), whoever is there has the lock of the place all others look at (`Mine`), nobody else truncates or writes meanwhile
(`Open`), and every saved key is in the document there or in the memory of the one who is about to write it (`Keys`).

**Only model-checked**: liveness (`NoReturnFinishes` and the five `Converges`) and `ENABLED`, which are out of this prover's reach,
as are induction over data and recursive operators (the modules use none); the recycle outside `Calm` or with several operators, for which
`recycle_degraded` shows the weaker pair of properties with one fault of each kind;
and the two runs that find a violation.

## What the code does that its documents do not say

Besides the findings, which have runs, the models show the following. Properties that would fail for one of these reasons
are stated with the exception named in their comment.

*Recycle.* One interruption in the handover or in the abort leaves a recycle that neither `Run` nor `Abort` can end, although every
phase before the destroy is said to be one that can be undone (`phase.go:113`). One refusal and no interruption loses the disk by the fallback
(`engine.go:259`, `recycle_cluster.go:187`; see the proofs). A kill after the reassignment and before the serial's restoration hides the disk from every
observation; an abort that then runs without a journal deletes the replacement with the disk. Two operators each work from the state they
loaded, so an abort that started early deletes a replacement that has since received the disk. A resumed adoption after a kill between
rename and record neither records nor starts the guest, yet the run reports success (`recycle_cluster.go:482`). `AbortPlan`
refuses by the journalled phase, which is written before the destroy (`phase.go:174`).

*State store.* A teardown loads before it takes the lock, and one that waited writes back what another removed (`teardown.go:452`). The rollback
rewrites in place a file that the failed atomic write left intact (`backup.go:216`, `:336`), and takes the backup with the latest
timestamp instead of its own. A failed backup is only warned of and the file replaced all the same (`backup.go:318`). After a failed save, the next one
renames the torn file over `.backup`; with two faults no copy is left. `Unlock` removes whatever lock is there (`state.go:505`), so
after `--force` a third teardown may get in. An empty file loads as an anonymous document and is saved as `.json`. `cacheBastionIP` saves from
read-only commands without the lock.

*Sync.* A failed listing is carried on as an empty one, so that a full sync forgets what lives (`reconciler.go:160`). Entries under names are never updated or forgotten by any strategy
(against `reconciler.go:32` and `merge.go:120`). An update never touches the type, and the comparison does not look at it, so an entry whose ID comes back as another
type of resource (a bucket's ID is its name) keeps the old type for good (`diff.go:252`); `--servers` and `--volumes` filter
only the display; the counts of a dry run ignore the strategy.

*Teardown.* On Proxmox the command is a no-op once no guest is left (`teardown.go:2892`), so volumes and
networks a failed run left are out of its reach; `Converges` therefore leaves Proxmox out. DNS records go before the plan is shown and confirmed, and
their identifiers are blanked even when the deletion failed (`:701`). The artifacts guest, recorded under its name, is listed twice by a
forced run, and the second deletion fails on Proxmox. An error text that contains `404` (an ID may) counts as success (`:1043`). A state file that
cannot be loaded only causes a warning (`:450`), and preserved disks are then deleted with the rest. What the provider lists is attributed on Proxmox, whose tags
have no key `bloc` (`pve/compute.go:446`), by a name that begins with the bloc's and a hyphen (`:2313`), so the guests, networks and groups of a bloc `<bloc>-x` are taken
for the bloc's own; `--nuke` goes by the guests' names on every provider (`:2846`): the hyphen its comment counts on tells `ocfp-cf1-lab2` from `ocfp-cf1-lab`, not `ocfp-cf1-lab-2`.
Key pairs and buckets go by substring (`:1393`, `:1479`). Addresses, load balancers and interfaces are not looked at
(`:1576`), and STACKIT and GCP list them whatever the filter, so other blocs' are deleted with them. A state of which every entry is of a skipped kind counts as empty,
and the provider is asked instead (`:1142`, `:1216`). `--nuke` removes no entries of guests and volumes. `docs/networking/providers/stackit.md:279` says public addresses are preserved by default; a plain teardown
deletes all it finds recorded.

*Bastion initialisation.* The marker is written by `custom_scripts` (`init.go:2304`), before verification, health check and the teardown of
the local vault, although it "records that `ocfp bastion init` completed" (`provisioned_marker.go:6`): if one of those fails, every later
run reports a fully provisioned bastion and never decommissions the local vault. `SuccessMeansProvisioned` speaks of the phases before the marker only.
Workers mark and save phases of a dry run too (`init.go:1422`), and the end of a dry run clears a real checkpoint. The checkpoint is keyed by bloc
and provider, so after a rebuild within a day `--resume` skips phases the new machine never had. In parallel mode `CompletedSteps`
can exceed `TotalSteps`, and the checkpoint is then thrown away. The workers write one map without a lock, which the Go runtime may answer by ending the process (`Kill`).

*Bootstrap.* The rollback (a run of its own) deletes every recorded entry of its kinds, also preserved disks, and on providers with real
subnets it forgets those without deleting them, after which every later run meets a conflict (`bootstrap.go:500`); on Proxmox it deletes
the artifacts volume and leaves the guest. It is offered too when the save of the failed step fails, which is ignored (`bootstrap.go:157`, `:164`). A data disk of Proxmox
that is in no entry is never adopted, although "a volume the provider knows about must be adopted rather than duplicated" (`compute_data_volume.go:142`) and a test
shows it with a listing of its own (`compute_data_volume_test.go:266`): the listing names a volume by its full id (`cpi/pve/storage.go:369`), which is compared with
`vm-<vmid>-data` (`compute_data_volume.go:196`), and it looks in the default pool only (`storage.go:317`). Every later run then fails to create one of the same name; so does
a leftover store of an artifacts guest whose number is taken again. `Converges` names the state (`Blocked`). A data disk that is asked for on AWS fails in every
run: no caller sets the zone `CreateVolume` requires there (`cpi/aws/storage.go:89`); the models leave it off, as the defaults do. A key file and a provider's pair that merely share a name are taken for one another: the bastion then opens
to nobody (`compute.go:1905`), and losing the file locks the operator out of a bastion on Proxmox. A clone of Proxmox that fails
before it is tagged stays and is found by no later run; its list of instances leaves out a node that does not answer (`cpi/pve/compute.go:383`), so a
second bastion is made. The artifacts guest is looked for in the state file only. A recorded store attached to a guest without an entry blocks every later run.
An entry of a security group is dropped on any error of its lookup; buckets that exist are never recorded; a public address is matched
whatever bloc it belongs to (`publicip.go:415`). Two bootstraps at once take no lock.

*Vault.* The walk takes a failed read or listing for an empty path and counts no failure (`manager.go:2140`), and the inception vault is then
destroyed under the comment "ONLY NOW is it safe to decommission" (`:415`): what it hid is lost unless the snapshot, which is read in a separate
pass, has it. `Set` drops a secret's other keys when its own read fails (`safe.go:58`). A dry run of a migration writes into the inception
vault (`manager.go:368`). An environment that could not be switched after the destruction cannot be switched by a later run, which fails at its
first check; and a list of environments that cannot be read counts as one without any. If the search for its process misses the vault, its data directory and its
keys are removed all the same (`:1050`), and a later run finds nothing to migrate, which is an error (`:383`). `Converges` excepts both as `broken`.
Which environments are switched follows from the kit table alone (`:1103`, `:1569`): one of a kit in the tier the table leaves out is never switched though the
command reports success, and `Converges` does not speak of it; a kit that is deployed in one of its two tiers only ends every run in failure. The decommission also removes `~/.vault` and `~/.vault.key`,
which other blocs may use.

*Reserved addresses.* The guard means to stop at a vault it cannot read ("treating an unreachable vault as an empty one is exactly how a live
address gets overwritten", `reserved_ip_guard.go:305`), but below it a failed detection of the engine is a warning and means KV v1 (`safe.go:199`), under
which a KV v2 record is not found: the guard takes it for empty, and a populate without force writes over the addresses of deployed machines.
`LiveAddressKept` excepts what such a run overwrites, `DryRunPredicts` a dry run that read so; everything else the failure leads to is checked. `Delete` of one key writes the others back with a merge into the record, the key included, so `migrate` never removes
a retired role (`safe.go:289` against `docs/networking/reserved-ip-strategies.md:384`; the tests use stores whose Delete deletes). A write
whose own read fails drops recorded addresses that the guard has just seen (against `:382` there). Records written key by key are stamped although only
part of them follows the scheme. A state file that cannot be read means another derivation under the same stamp.

*State.yml and migration.* The conversion of an old `config.yml` runs without the lock and may write over keys another bloc has just saved
(`config/state.go:231`). The save truncates in place, so one cut short loses every bloc's keys (`:98`). On Windows two waiters may both reclaim a stale lock
(`statelock_windows.go:44`), and only the system, which does not remove a file somebody has open, keeps the second from removing the lock of the first; and `Signal(0)` always fails there, so that the guard of `config migrate` never refuses and removes the
locks of running commands (`logs_tracker.go:187`). The guard looks once: commands that start afterwards, or run with `--no-log`, work beside the moves, load from a path that has
just been vacated an empty document, and save it. Or such a command looks the path of `state.yml` up (`:79`), the migration moves the file, and the save
then opens it with `O_CREATE` (`:98`): `~/.ocfp/state.yml` is there again beside the migrated one, and every later migration reports a conflict, without any fault
or kill. The conversion of an old `config.yml` saves in the same way. A cross-device copy that is killed leaves a partial `state.yml` that hides the whole one, and a
conflict that stops every later migration. On Windows the error of a rename between volumes is not `syscall.EXDEV` (`migrate.go:700`), so that
a migration there never copies and never finishes. A bloc's own files, such as its state file, are not guarded either: one that is saved in place while
it is copied across devices may be copied empty before its source is removed (`migrate.go:593`); no command that does so is modelled.

## What is not modelled

Data the properties do not tell apart: names, sizes, formats, scripts, logging and output. In StateStore, `Clear` and the mutex
within one process. In Teardown, the individual kinds named above. In BastionInit, what a phase does (it succeeds or fails), the
`--ocfp`, `--config` and `--genesis` modes, the local executor and the pool of git clones. In Bootstrap, the tunnel, guest options, DNS,
images, flavours and user data, and providers other than Proxmox and AWS, whose steps differ in names only; and data disks off Proxmox,
which are off by default. In VaultMigrate, the retries inside a call and
the deletion of the paths named after the inception vault. In ReservedIPs, the computation of a table and the other secrets `populate` writes.
In Home, file modes, symbolic links and what `logs` does with command locks. The providers are modelled
where a component calls them: what Proxmox's `move_disk`, `DeleteInstance` and listings do is in Recycle and Bootstrap, the
categories of answers to a deletion in Teardown.

Whole components that are left out are listed in `PROJECT.json` with the reason. They are most of the repository by lines: the clients of five
providers (requests and conversions), the writing of vault secrets from configuration (long lists of single writes with no order between them), the
configuration loader (pure functions over large records), and commands that build a command line or print. They have no state that outlives a call or no order in which
it could go wrong, and a model of them would restate them.

## Plan

In this order, the most valuable first:

1. **`ReservedAddresses`**, **`NetLayout`**: the arithmetic as functions against a reference definition over small subnets, joined with ReservedIPs
   in place of its tables.
2. Bootstrap composed with Teardown: after a bootstrap, however it ended, a teardown clears what exists.
3. The pool of git clones and the other modes of `init`.
