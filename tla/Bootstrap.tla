----------------------------- MODULE Bootstrap -----------------------------
(***************************************************************************)
(* `ocfp bootstrap`: an ordered list of steps, each of which looks for what *)
(* it is to build (in the state file, then mostly at the provider), builds  *)
(* what is missing and records it; the state is saved after every step.  A  *)
(* run may be killed between any two calls, a call may be refused, and a    *)
(* call may be carried out although its answer is an error.  After a failed *)
(* step the operator may roll back, or run the command again.               *)
(*                                                                          *)
(* One resource stands for each kind; the ids 1..MaxId tell its successive  *)
(* (or duplicate) instances apart.  The steps for the tunnel, the guest     *)
(* options and the DNS records touch neither the state file nor anything    *)
(* the others look at, and are left out.                                    *)
(***************************************************************************)
EXTENDS Naturals, Sequences, FiniteSets

CONSTANTS
    Providers,      \* subset of {"pve", "aws"}
    Modes,          \* subset of {"all", "bastion"}: no flag, or --bastion
    MaxId,          \* bound: instances of one kind
    MaxFaults,      \* bound: calls and writes that fail, runs that are killed
                    \* and losses of the private key file, in a behaviour
    MaxRollbacks,   \* bound: rollbacks the operator asks for
    MaxRebuilds,    \* bound: times the artifacts guest is torn down
    MaxTries        \* attempts at one address (maxRetriesPerIP)

ASSUME BootstrapAssumption ==
    /\ Providers \subseteq {"pve", "aws"}
    /\ Modes \subseteq {"all", "bastion"}
    /\ MaxId \in Nat \ {0} /\ MaxTries \in Nat \ {0}
    /\ {MaxFaults, MaxRollbacks, MaxRebuilds} \subseteq Nat

VARIABLES
    provider,   \* the provider of the bloc
    cloud,      \* kind -> the ids that exist
    half,       \* bastions cloned and not yet tagged
    host,       \* data disk -> the guest it is attached to
    owner,      \* data disk -> the guest it was allocated for, which names it
    file,       \* the state file: kind -> recorded id, 0 for no entry
    mem,        \* the state the running command holds
    local,      \* the private key file: the key pair it holds, or 0
    born,       \* bastion -> the key it was created with
    run,        \* the running command
    outcome,    \* how the last run ended
    left,       \* what is left of the bounds
    used,       \* data disks a finished run left with a guest that writes them
    blind,      \* kinds whose lookup failed while one of them existed
    losses,     \* accidents: kills, lost answers, failed clean-ups and saves
    misled,     \* an entry was kept of something gone, or of a guest without its disk
    keyLost     \* the key file, or the pair of a living bastion, was lost

cloudVars == <<cloud, half, host, owner>>
ghosts == <<used, blind, misled, keyLost>>
vars == <<provider, cloudVars, file, mem, local, born, run, outcome, left,
          ghosts, losses>>

Ids == 1..MaxId
Kinds == {"network", "subnet", "sg", "ip", "keypair", "bastion", "disk",
          "artifacts", "store", "bucket"}
Disks == {"disk", "store"}                        \* data volumes
GuestOf == [disk |-> "bastion", store |-> "artifacts"]

Steps == <<"network", "subnet", "sg", "ip", "keypair", "bastion", "disk",
           "artifacts", "bucket">>
\* With --bastion: what is required, and the steps of category "servers".
BastionSteps == <<"network", "subnet", "sg", "keypair", "bastion", "disk">>
Selected(mode) == IF mode = "bastion" THEN BastionSteps ELSE Steps

\* Proxmox has neither public addresses nor (in this mode) buckets; elsewhere
\* the data disk is off by default and an artifacts guest is not allowed.
Supported(k) ==
    k \notin (IF provider = "pve" THEN {"ip", "bucket"} ELSE {"disk", "artifacts"})
\* Its subnets are entries of the state file, its key pairs a local file.
InCloud(k) == provider = "aws" \/ k \notin {"subnet", "keypair"}

NoEntries == [k \in Kinds |-> 0]
Idle == [pc |-> "idle", step |-> 1, mode |-> "all",
         found |-> 0, fresh |-> 0, guest |-> 0, try |-> 1, undo |-> {}]

Init ==
    /\ provider \in Providers
    /\ cloud = [k \in Kinds |-> {}]
    /\ half = {}
    /\ host = [d \in Disks |-> [n \in Ids |-> 0]]
    /\ owner = [d \in Disks |-> [n \in Ids |-> 0]]
    /\ file = NoEntries /\ mem = NoEntries
    /\ local \in {0, 1}      \* a teardown leaves the file of the bloc's earlier life
    /\ born = [n \in Ids |-> 0]
    /\ run = Idle
    /\ outcome = "none"
    /\ left = [faults |-> MaxFaults, rollbacks |-> MaxRollbacks,
               rebuilds |-> MaxRebuilds]
    /\ used = {} /\ blind = {} /\ losses = 0
    /\ misled = FALSE /\ keyLost = FALSE

-----------------------------------------------------------------------------
(* Calls.  A call is done and says so, is refused, or is done and its       *)
(* answer is an error; only the last one leaves something nobody knows of.  *)

Answers == {"ok", "refused", "lost"}

Spend(bad) ==
    /\ bad => left.faults > 0
    /\ left' = IF bad THEN [left EXCEPT !.faults = @ - 1] ELSE left

Call(a) == Spend(a # "ok") /\ losses' = losses + (IF a = "lost" THEN 1 ELSE 0)

At(k, pc) ==
    /\ run.pc = pc
    /\ run.step \in DOMAIN Selected(run.mode)
    /\ Selected(run.mode)[run.step] = k

To(pc) == [run EXCEPT !.pc = pc]
Clean(pc) == [Idle EXCEPT !.pc = pc, !.step = run.step, !.mode = run.mode]

\* The step is over; Execute saves the state.
Complete(doc) == mem' = doc /\ run' = Clean("save")
FailStep(doc) == mem' = doc /\ run' = Clean("failed")

\* An id no entry and no resource has.
New(k) == Ids \ (cloud[k] \cup {file[k], mem[k]})
First(S) == CHOOSE n \in S : \A m \in S : n <= m

\* What is found at the provider; a listing that fails reads as "nothing".
Look(k, present) ==
    \/ /\ run' = [run EXCEPT !.pc = "act",
                             !.found = IF present = {} THEN 0 ELSE First(present)]
       /\ UNCHANGED <<left, blind>>
    \/ /\ Spend(TRUE)
       /\ run' = [run EXCEPT !.pc = "act", !.found = 0]
       /\ blind' = IF present = {} THEN blind ELSE blind \cup {k}

\* One creation, recorded in the state in memory when it is known of.
Create(k, a, n) ==
    /\ Call(a)
    /\ cloud' = IF a = "refused" THEN cloud
                ELSE [cloud EXCEPT ![k] = @ \cup {n}]
    /\ IF a = "ok" THEN Complete([mem EXCEPT ![k] = n]) ELSE FailStep(mem)

\* A name or a range that is taken: the provider refuses a second one.
Conflict(k) ==
    /\ cloud[k] # {}
    /\ FailStep(mem)
    /\ UNCHANGED <<cloud, left, losses>>

Keep == UNCHANGED <<provider, half, host, owner, file, local, born, outcome,
                    used, misled, keyLost>>

-----------------------------------------------------------------------------
(* The steps. *)

\* An entry is believed; else the network of that name; else a new one.
CreateNetwork ==
    /\ Keep
    /\ \/ /\ At("network", "look") /\ mem.network # 0
          /\ Complete(mem)
          /\ UNCHANGED <<cloud, left, losses, blind>>
       \/ /\ At("network", "look") /\ mem.network = 0
          /\ Look("network", cloud.network)
          /\ UNCHANGED <<cloud, mem, losses>>
       \/ /\ At("network", "act") /\ run.found # 0
          /\ Complete([mem EXCEPT !.network = run.found])
          /\ UNCHANGED <<cloud, left, losses, blind>>
       \/ /\ At("network", "act") /\ run.found = 0
          /\ \/ provider = "pve" /\ Conflict("network")
             \/ /\ provider = "pve" => cloud.network = {}
                /\ New("network") # {}
                /\ \E a \in Answers : Create("network", a, First(New("network")))
          /\ UNCHANGED blind

\* State-only subnets are entries; native ones are created unless recorded,
\* without looking whether they exist.
CreateSubnets ==
    /\ Keep /\ UNCHANGED blind
    /\ At("subnet", "look")
    /\ \/ /\ mem.network = 0 \/ (/\ InCloud("subnet") /\ mem.subnet = 0
                                 /\ cloud.subnet # {} \/ mem.network \notin cloud.network)
          /\ FailStep(mem) /\ UNCHANGED <<cloud, left, losses>>
       \/ /\ mem.network # 0 /\ (InCloud("subnet") => mem.subnet # 0)
          /\ Complete([mem EXCEPT !.subnet = IF @ = 0 THEN 1 ELSE @])
          /\ UNCHANGED <<cloud, left, losses>>
       \/ /\ mem.network \in cloud.network /\ InCloud("subnet") /\ mem.subnet = 0
          /\ cloud.subnet = {} /\ New("subnet") # {}
          /\ \E a \in Answers : Create("subnet", a, First(New("subnet")))

\* An entry is verified; one that cannot be verified is dropped, and the group
\* of that name is looked for, then created (or returned, if it exists).
CreateSecurityGroups ==
    /\ Keep
    /\ \/ /\ At("sg", "look") /\ mem.sg \in cloud.sg
          /\ Complete(mem) /\ UNCHANGED <<cloud, left, losses, blind>>
       \/ /\ At("sg", "look") /\ mem.sg # 0
          /\ Spend(mem.sg \in cloud.sg)
          /\ mem' = [mem EXCEPT !.sg = 0]
          /\ UNCHANGED <<cloud, run, losses, blind>>
       \/ /\ At("sg", "look") /\ mem.sg = 0
          /\ Look("sg", cloud.sg) /\ UNCHANGED <<cloud, mem, losses>>
       \/ /\ At("sg", "act") /\ (run.found # 0 \/ cloud.sg # {})
          /\ Complete([mem EXCEPT !.sg = First(cloud.sg)])
          /\ UNCHANGED <<cloud, left, losses, blind>>
       \/ /\ At("sg", "act") /\ cloud.sg = {} /\ New("sg") # {}
          /\ \E a \in Answers : Create("sg", a, First(New("sg")))
          /\ UNCHANGED blind

LastTry == run.try = MaxTries

\* The provider's answer goes before the state's; each failed attempt is
\* followed by another, up to MaxTries.
CreatePublicIPs ==
    /\ Keep
    /\ \/ /\ At("ip", "look") /\ ~Supported("ip")
          /\ Complete(mem) /\ UNCHANGED <<cloud, left, losses, blind>>
       \/ /\ At("ip", "look") /\ Supported("ip")
          /\ Look("ip", cloud.ip) /\ UNCHANGED <<cloud, mem, losses>>
       \/ /\ At("ip", "act") /\ (run.found # 0 \/ mem.ip # 0)
          /\ Complete([mem EXCEPT !.ip = IF run.found # 0 THEN run.found ELSE mem.ip])
          /\ UNCHANGED <<cloud, left, losses, blind>>
       \/ /\ At("ip", "act") /\ run.found = 0 /\ mem.ip = 0 /\ New("ip") # {}
          /\ UNCHANGED blind
          /\ \/ Create("ip", "ok", First(New("ip")))
             \/ /\ LastTry
                /\ \E a \in Answers \ {"ok"} : Create("ip", a, First(New("ip")))
             \/ /\ ~LastTry
                /\ \E a \in Answers \ {"ok"} :
                      /\ Call(a)
                      /\ cloud' = IF a = "refused" THEN cloud
                                  ELSE [cloud EXCEPT !.ip = @ \cup {First(New("ip"))}]
                /\ run' = [run EXCEPT !.pc = "look", !.try = @ + 1]
                /\ UNCHANGED mem

-----------------------------------------------------------------------------
(* The key pair: an entry, a key at the provider, and the file that opens    *)
(* the bastion.                                                              *)

KeyKeep == UNCHANGED <<provider, half, host, owner, file, born, outcome,
                       ghosts>>
KeysInUse == {local} \cup cloud.keypair \cup {file.keypair, mem.keypair}
                \cup {born[n] : n \in Ids}
NewKeys == Ids \ KeysInUse

VerifyExistingKeypair ==
    /\ KeyKeep /\ UNCHANGED <<local, losses>>
    /\ At("keypair", "look")
    /\ \/ /\ mem.keypair = 0
          /\ run' = To("act") /\ UNCHANGED <<cloud, mem, left>>
       \/ /\ mem.keypair # 0 /\ local # 0
          /\ InCloud("keypair") => cloud.keypair # {}
          /\ Complete(mem) /\ UNCHANGED <<cloud, left>>
       \/ \* the pair cannot be opened: delete it, and make another
          /\ mem.keypair # 0 /\ local = 0 /\ cloud.keypair # {}
          /\ \E bad \in BOOLEAN :
                /\ Spend(bad)
                /\ IF bad THEN FailStep(mem) /\ UNCHANGED cloud
                   ELSE /\ cloud' = [cloud EXCEPT !.keypair = {}]
                        /\ mem' = [mem EXCEPT !.keypair = 0]
                        /\ run' = To("act")
       \/ \* no answer, or no such pair: the entry is stale
          /\ mem.keypair # 0
          /\ IF InCloud("keypair") THEN Spend(cloud.keypair # {})
             ELSE local = 0 /\ UNCHANGED left
          /\ mem' = [mem EXCEPT !.keypair = 0]
          /\ run' = To("act")
          /\ UNCHANGED cloud

\* A pair made by the provider; its private half is in the answer only.
CreateStandardKeyPair ==
    /\ KeyKeep
    /\ At("keypair", "act") /\ InCloud("keypair")
    /\ cloud.keypair = {} /\ NewKeys # {}
    /\ \E a \in Answers :
          /\ Create("keypair", a, First(NewKeys))
          /\ local' = IF a = "ok" THEN First(NewKeys) ELSE local

MutHandleDuplicateKeyPair ==
    /\ KeyKeep /\ UNCHANGED <<local, losses, cloud, left>>
    /\ At("keypair", "act") /\ InCloud("keypair") /\ cloud.keypair # {}
    /\ FailStep(mem)

\* The provider has a pair of that name: use it with the file there is, or
\* delete it.
HandleDuplicateKeyPair ==
    /\ KeyKeep /\ UNCHANGED <<local, losses>>
    /\ At("keypair", "act") /\ InCloud("keypair") /\ cloud.keypair # {}
    /\ \E bad \in BOOLEAN :
          /\ Spend(bad)
          /\ \/ bad /\ FailStep(mem) /\ UNCHANGED cloud
             \/ /\ ~bad /\ local # 0
                /\ Complete([mem EXCEPT !.keypair = First(cloud.keypair)])
                /\ UNCHANGED cloud
             \/ /\ ~bad /\ local = 0
                /\ cloud' = [cloud EXCEPT !.keypair = {}]
                /\ UNCHANGED <<mem, run>>

LocalPair == IF local # 0 THEN local ELSE First(NewKeys)

CreateLocalKeyPair ==
    /\ KeyKeep /\ UNCHANGED <<cloud, left, losses>>
    /\ At("keypair", "act") /\ ~InCloud("keypair")
    /\ local # 0 \/ NewKeys # {}
    /\ local' = LocalPair
    /\ Complete([mem EXCEPT !.keypair = LocalPair])

CreateKeyPair ==
    VerifyExistingKeypair \/ CreateStandardKeyPair \/ HandleDuplicateKeyPair
        \/ CreateLocalKeyPair

-----------------------------------------------------------------------------
(* The bastion and its data disk. *)

GuestKeep == UNCHANGED <<provider, local, outcome, used, misled>>

\* The instances with the bloc's tags and the bastion's name; on Proxmox the tags
\* are set only once the clone is done.
MutTagged == {}
Tagged == cloud.bastion \ half

BastionAlreadyExists ==
    /\ GuestKeep /\ UNCHANGED <<half, host, owner, born, losses, keyLost>>
    /\ At("bastion", "look")
    /\ \/ /\ mem.bastion # 0
          /\ Complete(mem) /\ UNCHANGED <<cloud, file, left, blind>>
       \/ /\ mem.bastion = 0
          /\ Look("bastion", Tagged)
          /\ UNCHANGED <<cloud, file, mem>>

\* Recorded and saved at once; a save that fails is only logged.
ImportBastionToState ==
    /\ GuestKeep /\ UNCHANGED <<cloud, half, host, owner, born, losses, blind, keyLost>>
    /\ At("bastion", "act") /\ run.found # 0
    /\ LET doc == [mem EXCEPT !.bastion = run.found]
       IN /\ \E bad \in BOOLEAN :
                Spend(bad) /\ file' = IF bad THEN file ELSE doc
          /\ Complete(doc)

\* The key a new guest admits: the provider's pair of the bloc's name, or the
\* public key recorded with the entry.
Injected == IF InCloud("keypair") THEN First(cloud.keypair) ELSE mem.keypair

\* What a guest is placed in is recorded, or refused by the provider when gone.
Placed ==
    /\ mem.network \in cloud.network /\ mem.sg \in cloud.sg
    /\ mem.subnet # 0 /\ (InCloud("subnet") => mem.subnet \in cloud.subnet)

\* Tagged from the start, or cloned first.
CreateBastionInstance ==
    /\ GuestKeep /\ UNCHANGED <<file, host, owner, blind, keyLost>>
    /\ At("bastion", "act") /\ run.found = 0
    /\ IF ~Placed
       THEN /\ FailStep(mem)
            /\ UNCHANGED <<cloud, half, born, left, losses>>
       ELSE /\ New("bastion") # {}
            /\ LET n == First(New("bastion"))
               IN /\ born' = [born EXCEPT ![n] = Injected]
                  /\ \/ /\ provider = "aws" /\ UNCHANGED half
                        /\ \E a \in Answers : Create("bastion", a, n)
                     \/ /\ provider = "pve"
                        /\ \E a \in Answers :
                              /\ Call(a)
                              /\ cloud' = IF a = "refused" THEN cloud
                                          ELSE [cloud EXCEPT !.bastion = @ \cup {n}]
                              /\ half' = IF a = "refused" THEN half ELSE half \cup {n}
                              /\ IF a = "ok"
                                 THEN run' = [run EXCEPT !.pc = "finish", !.guest = n]
                                      /\ UNCHANGED mem
                                 ELSE FailStep(mem)

\* Sizing the clone may fail before it is tagged, starting it after.
FinalizeAndStartVM ==
    /\ GuestKeep /\ UNCHANGED <<cloud, file, host, owner, born, blind, keyLost>>
    /\ At("bastion", "finish")
    /\ \/ /\ half' = half \ {run.guest}
          /\ Complete([mem EXCEPT !.bastion = run.guest])
          /\ UNCHANGED <<left, losses>>
       \/ /\ Call("lost")
          /\ half' \in {half, half \ {run.guest}}
          /\ FailStep(mem)

CreateBastion ==
    BastionAlreadyExists \/ ImportBastionToState \/ CreateBastionInstance
        \/ FinalizeAndStartVM

\* The entry is believed. Without one, none of the volumes listed is taken for
\* the bastion's: Proxmox lists them by their full id, pool and all, and that
\* is compared with the bare name (isBastionDataVolume).
ResolveBastionDataVolume ==
    /\ GuestKeep /\ UNCHANGED <<cloudVars, file, born, losses, keyLost, mem, left, blind>>
    /\ At("disk", "look")
    /\ \/ ~Supported("disk") /\ run' = Clean("save")
       \/ /\ Supported("disk") /\ mem.disk # 0
          /\ run' = [run EXCEPT !.pc = "attach", !.found = mem.disk]
       \/ Supported("disk") /\ mem.disk = 0 /\ run' = To("act")

\* On Proxmox a data disk is called vm-<guest>-data, and its pool has no second
\* one of that name.
CreateVolume(d, g, a) ==
    LET n == First(New(d))
    IN /\ New(d) # {}
       /\ IF \E m \in cloud[d] : owner[d][m] = g
          THEN a = "refused" /\ UNCHANGED <<left, losses>>
          ELSE Call(a)
       /\ cloud' = IF a = "refused" THEN cloud ELSE [cloud EXCEPT ![d] = @ \cup {n}]
       /\ owner' = IF a = "refused" THEN owner ELSE [owner EXCEPT ![d][n] = g]

\* The run goes on with the disk it has just made.
AttachNew(d) ==
    run' = [run EXCEPT !.pc = "attach", !.found = First(New(d)), !.fresh = First(New(d))]

CreateBastionDataVolume ==
    /\ GuestKeep /\ UNCHANGED <<half, host, file, born, keyLost, blind>>
    /\ At("disk", "act")
    /\ \E a \in Answers :
          /\ CreateVolume("disk", mem.bastion, a)
          /\ IF a = "ok" THEN AttachNew("disk") /\ UNCHANGED mem ELSE FailStep(mem)

MutAttach(d, n, g, a) ==
    /\ a = "ok" /\ UNCHANGED <<left, losses>>
    /\ host' = IF host[d][n] = 0 THEN [host EXCEPT ![d][n] = g] ELSE host

\* Attaching again is a rewrite; a disk that is gone, or with another guest,
\* or a guest that is gone, is an error.
Attach(d, n, g, a) ==
    /\ IF n \in cloud[d] /\ g \in cloud[GuestOf[d]] /\ host[d][n] \in {0, g}
       THEN Call(a)
       ELSE a = "refused" /\ UNCHANGED <<left, losses>>
    /\ host' = IF a = "refused" THEN host ELSE [host EXCEPT ![d][n] = g]

MutMustTidyAlways == TRUE
MustTidy == run.fresh # 0

EnsureBastionDataVolume ==
    /\ GuestKeep /\ UNCHANGED <<half, owner, file, born, keyLost, blind>>
    /\ \/ /\ At("disk", "attach")
          /\ \E a \in Answers :
                /\ Attach("disk", run.found, mem.bastion, a)
                /\ UNCHANGED cloud
                /\ \/ a = "ok" /\ Complete([mem EXCEPT !.disk = run.found])
                   \/ a # "ok" /\ MustTidy /\ run' = To("tidy") /\ UNCHANGED mem
                   \/ a # "ok" /\ ~MustTidy /\ FailStep(mem)
       \/ /\ At("disk", "tidy")
          /\ \E bad \in BOOLEAN :
                /\ Spend(bad) /\ losses' = losses + (IF bad THEN 1 ELSE 0)
                /\ cloud' = IF bad \/ host.disk[run.found] # 0 THEN cloud
                            ELSE [cloud EXCEPT !.disk = @ \ {run.found}]
          /\ FailStep(mem) /\ UNCHANGED host

DataVolume ==
    ResolveBastionDataVolume \/ CreateBastionDataVolume \/ EnsureBastionDataVolume

-----------------------------------------------------------------------------
(* The artifacts guest and its data volume. *)

\* Destroying a guest frees its disks, or on Proxmox destroys them with it.
MutReleased(k, n) == host
Released(k, n) == [d \in Disks |-> [m \in Ids |->
    IF <<d, m>> = <<k, n>> \/ <<GuestOf[d], host[d][m]>> = <<k, n>>
    THEN 0 ELSE host[d][m]]]
Without(k, n) == [j \in Kinds |->
    CASE j = k -> cloud[k] \ {n}
      [] provider = "pve" /\ j \in Disks /\ k \in {"bastion", "artifacts"} ->
            {m \in cloud[j] : ~(GuestOf[j] = k /\ host[j][m] = n)}
      [] OTHER -> cloud[j]]

\* No lookup: a guest an earlier run left unrecorded is not found.
CreateArtifactsInstance ==
    /\ GuestKeep /\ UNCHANGED <<half, host, owner, file, born, blind, keyLost>>
    /\ At("artifacts", "look")
    /\ \/ /\ ~Supported("artifacts") \/ mem.artifacts # 0     \* convergeExistingArtifacts
          /\ Complete(mem) /\ UNCHANGED <<cloud, left, losses>>
       \/ /\ Supported("artifacts") /\ mem.artifacts = 0 /\ ~Placed
          /\ FailStep(mem) /\ UNCHANGED <<cloud, left, losses>>
       \/ /\ Supported("artifacts") /\ mem.artifacts = 0 /\ Placed
          /\ New("artifacts") # {}
          /\ LET n == First(New("artifacts"))
             IN \E a \in Answers :
                   /\ Call(a)
                   /\ cloud' = IF a = "refused" THEN cloud
                               ELSE [cloud EXCEPT !.artifacts = @ \cup {n}]
                   /\ IF a = "ok"
                      THEN run' = [run EXCEPT !.pc = "act", !.guest = n] /\ UNCHANGED mem
                      ELSE FailStep(mem)

\* The recorded volume is adopted; else one is made, and deleted again when it
\* cannot be attached.
AttachArtifactsDataVolume ==
    /\ GuestKeep /\ UNCHANGED <<half, file, born, blind, keyLost, mem>>
    /\ \/ /\ At("artifacts", "act") /\ UNCHANGED host
          /\ \/ /\ mem.store # 0 /\ UNCHANGED <<cloud, owner, left, losses>>
                /\ run' = [run EXCEPT !.pc = "attach", !.found = mem.store]
             \/ /\ mem.store = 0
                /\ \E a \in Answers :
                      /\ CreateVolume("store", run.guest, a)
                      /\ IF a = "ok" THEN AttachNew("store") ELSE run' = To("cleanup")
       \/ /\ At("artifacts", "attach") /\ UNCHANGED <<cloud, owner>>
          /\ \E a \in Answers :
                /\ Attach("store", run.found, run.guest, a)
                /\ run' = To(IF a = "ok" THEN "record"
                             ELSE IF MustTidy THEN "tidy" ELSE "cleanup")
       \/ /\ At("artifacts", "tidy") /\ UNCHANGED <<host, owner>>
          /\ \E bad \in BOOLEAN :
                /\ Spend(bad) /\ losses' = losses + (IF bad THEN 1 ELSE 0)
                /\ cloud' = IF bad \/ host.store[run.found] # 0 THEN cloud
                            ELSE [cloud EXCEPT !.store = @ \ {run.found}]
          /\ run' = To("cleanup")

CleanupOrphanArtifactsVM ==
    /\ GuestKeep /\ UNCHANGED <<half, owner, file, born, blind, keyLost>>
    /\ At("artifacts", "cleanup")
    /\ \E bad \in BOOLEAN :
          /\ Spend(bad) /\ losses' = losses + (IF bad THEN 1 ELSE 0)
          /\ cloud' = IF bad THEN cloud ELSE Without("artifacts", run.guest)
          /\ host' = IF bad THEN host ELSE Released("artifacts", run.guest)
    /\ FailStep(mem)

\* Recorded, whether or not the guest answers; then written to the vault.
RecordArtifactsState ==
    /\ GuestKeep /\ UNCHANGED <<cloudVars, file, born, blind, keyLost, losses>>
    /\ At("artifacts", "record")
    /\ LET doc == [mem EXCEPT !.artifacts = run.guest, !.store = run.found]
       IN \E bad \in BOOLEAN :
             Spend(bad) /\ IF bad THEN FailStep(doc) ELSE Complete(doc)

CreateArtifacts ==
    CreateArtifactsInstance \/ AttachArtifactsDataVolume
        \/ CleanupOrphanArtifactsVM \/ RecordArtifactsState

\* A bucket that exists is configured, and not recorded.
CreateBuckets ==
    /\ Keep
    /\ \/ /\ At("bucket", "look") /\ ~Supported("bucket")
          /\ Complete(mem) /\ UNCHANGED <<cloud, left, losses, blind>>
       \/ /\ At("bucket", "look") /\ Supported("bucket")
          /\ Look("bucket", cloud.bucket) /\ UNCHANGED <<cloud, mem, losses>>
       \/ /\ At("bucket", "act") /\ UNCHANGED blind
          /\ \/ run.found # 0 /\ Complete(mem) /\ UNCHANGED <<cloud, left, losses>>
             \/ run.found = 0 /\ Conflict("bucket")
             \/ /\ run.found = 0 /\ cloud.bucket = {} /\ New("bucket") # {}
                /\ \E a \in Answers : Create("bucket", a, First(New("bucket")))

-----------------------------------------------------------------------------
(* The run. *)

RunKeep == UNCHANGED <<provider, cloudVars, local, born, blind, misled, keyLost>>

Start ==
    /\ run.pc = "idle"
    /\ \E mode \in Modes : run' = [Idle EXCEPT !.pc = "look", !.mode = mode]
    /\ mem' = file
    /\ outcome' = "none"
    /\ RunKeep /\ UNCHANGED <<file, left, used, losses>>

End(how) == run' = Idle /\ outcome' = how /\ mem' = file'

Attached == {u \in Disks \X Ids : u[2] \in cloud[u[1]] /\ host[u[1]][u[2]] # 0}

\* After every step; a save that fails ends the command.
Save ==
    /\ RunKeep
    /\ run.pc = "save"
    /\ \/ /\ file' = mem
          /\ UNCHANGED <<left, losses>>
          /\ IF run.step = Len(Selected(run.mode))
             THEN End("ok") /\ used' = used \cup Attached
             ELSE /\ run' = [run EXCEPT !.pc = "look", !.step = @ + 1]
                  /\ UNCHANGED <<mem, outcome, used>>
       \/ /\ Call("lost") /\ UNCHANGED <<file, used>>
          /\ End("failed")

\* Type by type; the volumes, of one type, in any order.
RollbackOrder == [bastion |-> 1, disk |-> 2, store |-> 2, keypair |-> 3, bucket |-> 4,
                  ip |-> 5, sg |-> 6, subnet |-> 7, network |-> 8]

\* Saved, or not; unless the first step failed, the operator is asked (without
\* --force) whether to roll back.
HandleBootstrapStepError ==
    /\ RunKeep /\ UNCHANGED used
    /\ run.pc = "failed"
    /\ \E a \in {"ok", "lost"} : Call(a) /\ file' = IF a = "ok" THEN mem ELSE file
    /\ \/ End("failed")
       \/ /\ run.step > 1 /\ left.rollbacks > 0
          /\ run' = [run EXCEPT !.pc = "rollback",
                       !.undo = {k \in DOMAIN RollbackOrder : mem[k] # 0}]
          /\ UNCHANGED <<mem, outcome>>

\* What the provider will not delete while something uses it.
MustRefuse(k, n) ==
    /\ provider = "aws"
    /\ \/ k \in Disks /\ host[k][n] # 0
       \/ k = "network" /\ (cloud.subnet \cup cloud.bastion \cup cloud.artifacts) # {}
       \/ k = "sg" /\ (cloud.bastion \cup cloud.artifacts) # {}
MayRefuse(k, n) == MustRefuse(k, n) \/ n \notin cloud[k] \/ k \in Disks

\* Every entry of the file, in order of kind; a subnet is forgotten, not
\* deleted; an entry goes only when its deletion is reported as done.
DeleteResource ==
    /\ run.pc = "rollback"
    /\ UNCHANGED <<provider, owner, file, local, born, outcome, used, blind, half>>
    /\ \E k \in run.undo :
       /\ \A j \in run.undo : RollbackOrder[k] <= RollbackOrder[j]
       /\ run' = [run EXCEPT !.undo = @ \ {k}]
       /\ keyLost' = (keyLost \/ (k = "keypair" /\ InCloud(k) /\ cloud.bastion # {}))
       /\ LET n == mem[k]
              forget == [mem EXCEPT ![k] = 0]
          IN \/ /\ k = "subnet" \/ (k = "keypair" /\ ~InCloud(k))
                /\ mem' = forget
                /\ losses' = losses + (IF k = "subnet" /\ InCloud(k) THEN 1 ELSE 0)
                /\ UNCHANGED <<cloud, host, left, misled>>
             \/ \* refused because of its users, or because it is not there
                /\ k # "subnet" /\ InCloud(k) /\ MayRefuse(k, n)
                /\ misled' = (misled \/ n \notin cloud[k])
                /\ UNCHANGED <<cloud, host, mem, left, losses>>
             \/ /\ k # "subnet" /\ InCloud(k) /\ ~MustRefuse(k, n)
                /\ \E a \in Answers :
                      /\ n \notin cloud[k] => a = "ok"
                      /\ Call(a)
                      /\ cloud' = IF a = "refused" THEN cloud ELSE Without(k, n)
                      /\ host' = IF a = "refused" THEN host ELSE Released(k, n)
                      /\ mem' = IF a = "ok" THEN forget ELSE mem
                      /\ misled' = (misled \/ a = "lost"
                                          \/ (k \in Disks /\ host[k][n] # 0 /\ a = "ok"))

\* One save at the end, whose failure is a warning.
RollbackDone ==
    /\ UNCHANGED <<provider, cloudVars, local, born, used, blind, keyLost>>
    /\ run.pc = "rollback" /\ run.undo = {}
    /\ \E saved \in BOOLEAN :
          /\ saved \/ left.faults > 0
          /\ left' = [left EXCEPT !.rollbacks = @ - 1,
                                  !.faults = IF saved THEN @ ELSE @ - 1]
          /\ file' = IF saved THEN mem ELSE file
          /\ losses' = losses + (IF saved THEN 0 ELSE 1)
          /\ misled' = (misled \/ ~saved)
    /\ End("failed")

\* The process dies: what it has not saved is forgotten.
Kill ==
    /\ run.pc # "idle"
    /\ Spend(TRUE)
    /\ losses' = losses + (IF run.pc = "rollback" THEN 0 ELSE 1)
    /\ misled' = (misled \/ run.pc = "rollback")
    /\ UNCHANGED <<provider, cloudVars, file, local, born, used, blind, keyLost>>
    /\ End("failed")

\* The operator works from another machine, or removes the directory.
LoseKeyFile ==
    /\ run.pc = "idle" /\ local # 0
    /\ Spend(TRUE)
    /\ local' = 0
    /\ keyLost' = TRUE
    /\ UNCHANGED <<provider, cloudVars, file, mem, born, run, outcome, used,
                   blind, losses, misled>>

\* The artifacts guest is torn down with its disk kept, to be rebuilt.
TearDownArtifacts ==
    /\ run.pc = "idle" /\ file.artifacts \in cloud.artifacts /\ left.rebuilds > 0
    /\ left' = [left EXCEPT !.rebuilds = @ - 1]
    /\ cloud' = [cloud EXCEPT !.artifacts = @ \ {file.artifacts}]
    /\ host' = Released("artifacts", file.artifacts)
    /\ file' = [file EXCEPT !.artifacts = 0]
    /\ mem' = file'
    /\ UNCHANGED <<provider, half, owner, local, born, run, outcome, ghosts, losses>>

StepActions ==
    CreateNetwork \/ CreateSubnets \/ CreateSecurityGroups \/ CreatePublicIPs
        \/ CreateKeyPair \/ CreateBastion \/ DataVolume \/ CreateArtifacts
        \/ CreateBuckets
Execute ==
    StepActions \/ Save \/ HandleBootstrapStepError \/ DeleteResource \/ RollbackDone

Next == Start \/ Execute \/ Kill \/ LoseKeyFile \/ TearDownArtifacts

Spec == Init /\ [][Next]_vars

\* A command that runs goes on; the operator runs it again.
FairSpec == Spec /\ WF_vars(Execute) /\ WF_vars(Start)

-----------------------------------------------------------------------------
(* Properties. *)

\* Every variable has its type, and a disk is attached only while it and its
\* guest exist.
TypeOK ==
    /\ provider \in Providers
    /\ cloud \in [Kinds -> SUBSET Ids] /\ half \subseteq cloud.bastion
    /\ host \in [Disks -> [Ids -> Ids \cup {0}]]
    /\ \A d \in Disks, n \in Ids :
          host[d][n] # 0 => n \in cloud[d] /\ host[d][n] \in cloud[GuestOf[d]]
    /\ {file, mem} \subseteq [Kinds -> Ids \cup {0}]
    /\ owner \in [Disks -> [Ids -> Ids \cup {0}]] /\ born \in [Ids -> Ids \cup {0}]
    /\ local \in Ids \cup {0}
    /\ run.step \in DOMAIN Selected(run.mode) /\ run.try \in 1..MaxTries
    /\ {run.found, run.fresh, run.guest} \subseteq Ids \cup {0}
    /\ used \subseteq Disks \X Ids /\ blind \subseteq Kinds
    /\ losses \in Nat /\ {misled, keyLost} \subseteq BOOLEAN

LookedFor == {"network", "subnet", "sg", "ip", "keypair", "bastion", "bucket"}

\* However often the command is run again, whatever failed or was killed
\* before, it does not make a second network, group, address, key pair,
\* bastion or bucket, unless a listing failed while the first existed or a
\* Proxmox guest was left without its tags.
OneOfEach ==
    half = {} => \A k \in LookedFor \ blind : Cardinality(cloud[k]) <= 1

\* Of the kinds no run looks for, those that no entry leads to are at most as
\* many as the accidents there were: a step that fails cleans up after itself.
OrphansAreAccidents ==
    run.pc = "idle" =>
        \A k \in {"artifacts", "disk", "store"} :
            Cardinality(cloud[k] \ {file[k]}) <= losses

\* Nothing is made twice or left behind but for these accidents.
NoLeftovers == OneOfEach /\ OrphansAreAccidents

\* Where the file is the key pair, it opens the bastion, if it was not lost: it
\* is never rotated under the bastion (compute.go, verifyExistingKeypair).
LocalKeyOpens ==
    ~InCloud("keypair") /\ outcome = "ok" /\ ~keyLost => born[file.bastion] = local

\* A run that ends well has built what it was asked for: all of it exists and
\* is recorded, the disk is with the bastion, the store with its guest, and
\* the key file opens the bastion.
Built(k) ==
    IF k = "bucket" THEN cloud.bucket # {}
    ELSE /\ file'[k] # 0
         /\ InCloud(k) => \/ file'[k] \in cloud[k]
                          \/ k = "keypair" /\ cloud[k] # {}    \* known by name
         /\ k = "disk" => host.disk[file'[k]] = file'.bastion
         /\ k = "artifacts" => host.store[file'.store] = file'[k]
Succeeds == run.pc = "save" /\ outcome' = "ok"
BuildsWhatItClaims ==
    [][Succeeds =>
          /\ LocalKeyOpens'
          /\ ~misled => \A s \in DOMAIN Selected(run.mode) :
                LET k == Selected(run.mode)[s] IN Supported(k) => Built(k)]_vars

\* A data disk that a finished run left with its guest goes in a rollback the
\* operator asked for, or with a new guest whose attach was done and answered
\* with an error on Proxmox; never otherwise.
UsedDisksStay ==
    [][\A u \in used :
          u[2] \in cloud[u[1]] \ (cloud'[u[1]] \cup {run.fresh}) =>
             \/ run.pc = "rollback"
             \/ /\ run.pc = "cleanup" /\ provider = "pve" /\ losses > 0
                /\ host[u[1]][u[2]] = run.guest]_vars

\* A rollback deletes what its own run created: no disk that an earlier run
\* finished and left in use.
RollbackSparesEarlierRuns ==
    [][run.pc = "rollback" => \A u \in used : u[2] \notin cloud[u[1]] \ cloud'[u[1]]]_vars

\* What no further run gets past: a subnet alive without its entry, an entry of
\* something gone, a recorded disk with a guest that is not recorded, or a data
\* disk without its entry that has the name of the one to be made, after its
\* guest or after one that is gone and whose number is taken again.
Blocked ==
    \/ InCloud("subnet") /\ cloud.subnet # {} /\ file.subnet = 0
    \/ \E k \in Kinds : InCloud(k) /\ file[k] \notin cloud[k] \cup {0}
    \/ \E d \in Disks : file[d] # 0 /\ host[d][file[d]] \notin {0, file[GuestOf[d]]}
    \/ \E d \in Disks : file[d] = 0 /\ \E n \in cloud[d] :
          owner[d][n] \in {file[GuestOf[d]], run.guest} \cup (Ids \ cloud[GuestOf[d]])

\* Run again and again, the command ends well, or something stands in its way
\* that it cannot remove.
Converges == []<>(outcome = "ok") \/ <>[]Blocked
=============================================================================
