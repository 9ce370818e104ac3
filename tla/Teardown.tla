------------------------------ MODULE Teardown ------------------------------
(***************************************************************************)
(* ocfp teardown: what the provider still holds of a bloc, what the state  *)
(* file still records of it, and runs of the command over both.  A run     *)
(* takes its list from the state file, from the provider, or from both,    *)
(* deletes the list in order, retries what failed once, and forgets each   *)
(* resource it deleted.  Runs fail, are cancelled, crash and are repeated. *)
(* One operator at a time: the lock is the subject of StateStore.          *)
(***************************************************************************)
EXTENDS TeardownState

cloud == <<live, attached, full, dns>>
store == <<recorded, current, loaded>>
work == <<todo, failed, item, attempt, pass>>
vars == <<pve, cloud, store, pc, opts, work, faults, known, exposed>>

Fault == faults < MaxMishaps /\ faults' = faults + 1
NoFault == UNCHANGED faults

Init ==
  /\ pve \in BOOLEAN
  /\ live = Res /\ attached = Volumes
  /\ full \in SUBSET {r \in Res : KindOf[r] = "bucket"}
  /\ dns = [records |-> TRUE, keys |-> TRUE]
  /\ recorded \in SUBSET Recordable
  /\ current = {} /\ loaded = FALSE
  /\ pc = "idle" /\ opts = NoOptions
  /\ todo = {} /\ failed = {} /\ item = NoItem /\ attempt = 0 /\ pass = 1
  /\ faults = 0
  /\ known = recorded /\ exposed = {}

(***************************************************************************)
(* Which resources a run lists.                                            *)
(***************************************************************************)
\* The sort key of the deletion order.
Priority(k) ==
  CASE k \in {"instance", "artifacts"} -> 2
    [] k = "bucket" -> 4
    [] k = "volume" -> 6
    [] k = "address" -> 8
    [] k = "security_group" -> 9
    [] k = "network" -> 11

\* --skip by kind, or by the role in the name: the artifacts guest is spared
\* by name even when the provider lists it as an instance.
Skips(i) == i.kind \in opts.skip \/ ("artifacts" \in opts.skip /\ KindOf[i.res] = "artifacts")

Included(i) == (opts.only = {} \/ i.kind \in opts.only) /\ ~Skips(i)

\* What the provider's listing lets the command attribute to the bloc: by name
\* on Proxmox, whose tags have no key "bloc", and for buckets; else by the tags,
\* but for addresses, of which the listing is believed.
BelongsToTargetBloc(r) ==
  IF pve \/ KindOf[r] = "bucket" THEN r \in BlocNamed ELSE r \in Own \cup Unfiltered

\* The provider has no kind "artifacts".
CloudItem(r) ==
  [res |-> r, kind |-> IF r \in Guests THEN "instance" ELSE KindOf[r], from |-> "cloud", id |-> "vmid"]

\* Entries keyed by ID have no dot to split at; entries tagged for another
\* bloc and those of a kind to skip are passed over.  The artifacts guest is recorded under its name,
\* which becomes its VMID when one guest of that name is listed.
StateItems(resolves) ==
  {[res |-> r, kind |-> KindOf[r], from |-> "state",
    id |-> IF KindOf[r] = "artifacts" /\ ~(r \in live /\ resolves) THEN "name" ELSE "vmid"] :
   r \in {x \in current \ (KeyedById \cup Foreign) : KindOf[x] \notin opts.skip}}

\* A list call that fails leaves its kind out.
CloudItems(hidden) ==
  {i \in {CloudItem(r) : r \in {x \in live : BelongsToTargetBloc(x)}} : i.kind \notin hidden}

\* Mutant: the provider is asked only when the state lists nothing.
MutMergeResources(existing, discovered) == existing

\* Merged by ID, which the two items of the artifacts guest do not share.
MergeResources(existing, discovered) ==
  existing \cup
  {i \in discovered : ~\E s \in existing : s.res = i.res /\ KindOf[s.res] # "artifacts"}

\* Guests by name on every provider, and the volumes that name them as owner.
NukeItems(hidden, resolves) ==
  LET guests == IF "instance" \in hidden THEN {} ELSE Guests \cap live \cap BlocNamed
      disks == IF "volume" \in hidden THEN {} ELSE Volumes \cap (IF pve THEN live ELSE attached)
  IN  {CloudItem(r) : r \in guests \cup {v \in disks : HostOf[v] \in guests}}
      \cup {i \in StateItems(resolves) : i.kind = "network"}

Discovered(hidden, resolves) ==
  {i \in (IF opts.nuke THEN NukeItems(hidden, resolves)
          ELSE IF StateItems(resolves) = {} THEN CloudItems(hidden)
          ELSE IF opts.force THEN MergeResources(StateItems(resolves), CloudItems(hidden))
          ELSE StateItems(resolves)) :
   Included(i)}

(***************************************************************************)
(* A run, up to the list.                                                  *)
(***************************************************************************)
\* pveCheckAlreadyTornDown finds no guest by the bloc's name.
NoGuestLeft == pve /\ Guests \cap live \cap BlocNamed = {}

\* The run is over at once.
AlreadyTornDown(o) ==
  /\ pc = "idle" /\ NoGuestLeft
  /\ opts' = o
  /\ UNCHANGED <<pve, cloud, store, pc, work, faults, known, exposed>>

\* Load happens before the lock; a load that fails leaves the run without
\* state, and it goes on with what the provider lists.
Start(o) ==
  /\ pc = "idle"
  /\ pc' = "dns" /\ opts' = o
  /\ \/ /\ ~NoGuestLeft
        /\ current' = recorded /\ loaded' = TRUE
        /\ UNCHANGED <<faults, exposed>>
     \/ /\ NoGuestLeft                                  \* the probe fails
        /\ current' = recorded /\ loaded' = TRUE
        /\ Fault /\ UNCHANGED exposed
     \/ /\ ~NoGuestLeft
        /\ current' = {} /\ loaded' = FALSE                \* the load fails
        /\ Fault /\ exposed' = Preserved
  /\ UNCHANGED <<pve, cloud, recorded, work, known>>

\* The records go before the plan is shown.  Their identifiers are blanked
\* whether or not the deletions worked.
TeardownCloudflare ==
  /\ pc = "dns" /\ pc' = "plan"
  /\ \/ /\ opts.dry \/ ~dns.keys
        /\ NoFault /\ UNCHANGED dns
     \/ /\ ~opts.dry /\ dns.keys
        /\ \/ NoFault /\ dns' = [records |-> FALSE, keys |-> FALSE]
           \/ Fault /\ dns' = [records |-> TRUE, keys |-> FALSE]
           \/ Fault /\ dns' = [records |-> FALSE, keys |-> TRUE]
  /\ UNCHANGED <<pve, live, attached, full, store, opts, work, known, exposed>>

\* The end of a run, for whatever reason.
Over ==
  /\ pc' = "idle" /\ opts' = NoOptions
  /\ current' = {} /\ loaded' = FALSE
  /\ todo' = {} /\ failed' = {} /\ item' = NoItem /\ attempt' = 0 /\ pass' = 1

Listing ==
  /\ pc = "plan"
  /\ \E hidden \in {{}} \cup {{k} : k \in ResourceKinds}, resolves \in BOOLEAN :
        /\ IF hidden = {} /\ resolves THEN NoFault ELSE Fault
        /\ LET list == Discovered(hidden, resolves)
           IN  \/ list = {} /\ Over /\ UNCHANGED exposed
              \/ /\ list # {}
                 /\ todo' = list /\ pc' = "confirm"
                 /\ exposed' = IF opts.dry THEN exposed
                               ELSE exposed \cup (Preserved \cap {i.res : i \in list})
                 /\ UNCHANGED <<opts, current, loaded, failed, item, attempt, pass>>
  /\ UNCHANGED <<pve, cloud, recorded, known>>

Confirmed ==
  /\ pc = "confirm" /\ ~opts.dry
  /\ pc' = "delete"
  /\ UNCHANGED <<pve, cloud, store, opts, work, faults, known, exposed>>

\* The operator says no, or it was a dry run.
Cancelled ==
  /\ pc = "confirm" /\ (opts.dry \/ ~opts.force)
  /\ Over
  /\ UNCHANGED <<pve, cloud, recorded, faults, known, exposed>>

(***************************************************************************)
(* A run, deleting.                                                        *)
(***************************************************************************)
Take ==
  /\ pc = "delete" /\ item = NoItem /\ todo # {}
  /\ \E i \in {x \in todo : \A y \in todo : Priority(x.kind) <= Priority(y.kind)} :
        item' = i /\ todo' = todo \ {i}
  /\ attempt' = 1
  /\ pc' = IF item'.res \in Guests THEN "detach" ELSE "call"
  /\ UNCHANGED <<pve, cloud, store, opts, failed, pass, faults, known, exposed>>

\* Mutant: only for a guest the state listed.
MutPreservedVolumes(i) ==
  IF i.id = "name" \/ i.from = "cloud" THEN {}
  ELSE {v \in (Preserved \cap current) \ KeyedById : HostOf[v] = i.res}

\* The volumes recorded as preserved for this guest, by its VMID.
PreservedVolumes(i) ==
  IF i.id = "name" THEN {} ELSE {v \in (Preserved \cap current) \ KeyedById : HostOf[v] = i.res}

\* detachPreservedVolumes: a failure is only reported.
Detach ==
  /\ pc = "detach" /\ pc' = "call"
  /\ \E kept \in SUBSET (PreservedVolumes(item) \cap attached) :
        /\ IF kept = {} THEN NoFault ELSE Fault
        /\ attached' = attached \ (PreservedVolumes(item) \ kept)
        /\ exposed' = exposed \cup kept
  /\ UNCHANGED <<pve, live, full, dns, store, opts, work, known>>

\* The provider refuses to delete what is in use: a volume that is attached, a
\* group or a network while its bloc has a guest.
InUse(r) ==
  \/ r \in attached
  \/ /\ KindOf[r] \in {"security_group", "network"}
     /\ \E g \in Guests \cap live : g \in Foreign <=> r \in Foreign

\* What the provider does when it deletes: Proxmox destroys the volumes its
\* guest still has.
Destroy(r) ==
  LET disks == {v \in attached : HostOf[v] = r}
  IN  /\ live' = live \ ({r} \cup (IF pve THEN disks ELSE {}))
      /\ attached' = attached \ ({r} \cup disks)
      /\ full' = full \ {r}

\* Mutant: the entry of a resource that could not be deleted goes too.
MutGiveUp == pc' = "record" /\ failed' = failed \cup {item} /\ UNCHANGED <<item, attempt>>

Succeed == pc' = "record" /\ UNCHANGED <<failed, item, attempt>>
GiveUp == pc' = "delete" /\ failed' = failed \cup {item} /\ item' = NoItem /\ attempt' = 0
Refused ==
  IF item.res \in Reads404 THEN Succeed ELSE GiveUp
\* Mutant: one attempt too many.
MutConflict ==
  IF item.res \in Reads404 THEN Succeed
  ELSE IF attempt <= MaxRetryAttempts
       THEN /\ attempt' = attempt + 1
            /\ pc' = (IF item.res \in Guests THEN "detach" ELSE "call")
            /\ UNCHANGED <<failed, item>>
       ELSE GiveUp

Conflict ==
  IF item.res \in Reads404 THEN Succeed
  ELSE IF attempt < MaxRetryAttempts
       THEN /\ attempt' = attempt + 1
            /\ pc' = (IF item.res \in Guests THEN "detach" ELSE "call")
            /\ UNCHANGED <<failed, item>>
       ELSE GiveUp

\* A bucket that holds something, or that cannot be looked into, one that is
\* gone included, is left alone without --empty.
Skipped ==
  /\ item.kind = "bucket" /\ ~opts.empty
  /\ pc' = "delete" /\ item' = NoItem /\ attempt' = 0
  /\ IF item.res \in full \/ item.res \notin live THEN NoFault ELSE Fault
  /\ UNCHANGED <<live, attached, full, failed>>

Deleted ==
  /\ item.res \in live /\ item.id = "vmid" /\ ~InUse(item.res)
  /\ item.res \in full => opts.empty
  /\ Destroy(item.res)
  /\ Succeed /\ NoFault

\* Only some providers say of what is gone that it is not found; the others,
\* and every one asked for a guest by its name, fail.
AlreadyGone ==
  /\ item.res \notin live \/ item.id = "name"
  /\ item.kind = "bucket" => opts.empty
  /\ IF item.id = "name" THEN Refused
     ELSE IF pve THEN Refused \/ (item.res \notin Guests /\ Succeed)
     ELSE Succeed
  /\ NoFault /\ UNCHANGED <<live, attached, full>>

Busy ==
  /\ item.res \in live /\ item.id = "vmid" /\ InUse(item.res)
  /\ Conflict
  /\ NoFault /\ UNCHANGED <<live, attached, full>>

\* The provider refuses without a reason of the model's, a bucket before or
\* after it was emptied.
Fails ==
  /\ item.res \in live /\ item.id = "vmid"
  /\ item.res \in full => opts.empty
  /\ Refused \/ Conflict
  /\ full' \in {full, full \ {item.res}}
  /\ Fault /\ UNCHANGED <<live, attached>>

DeleteResource ==
  /\ pc = "call"
  /\ Skipped \/ Deleted \/ AlreadyGone \/ Busy \/ Fails
  /\ UNCHANGED <<pve, dns, store, opts, todo, pass, known, exposed>>

\* The entry an item stands for: one found at the provider carries the
\* provider's kind, which is that of the entry for few kinds only.
EntryOf(i) ==
  IF i.from = "state" \/ i.kind \in {"security_group", "network"}
  THEN {i.res} \ KeyedById ELSE {}

\* updateStateAfterDeletion: a Save that fails is only reported, and its
\* removal is saved with the next.
UpdateState ==
  /\ pc = "record" /\ pc' = "delete"
  /\ current' = current \ EntryOf(item)
  /\ \/ NoFault /\ recorded' = IF loaded THEN current' ELSE recorded
     \/ Fault /\ loaded /\ UNCHANGED recorded
  /\ item' = NoItem /\ attempt' = 0
  /\ UNCHANGED <<pve, cloud, loaded, opts, todo, failed, pass, known, exposed>>

RetryFailed ==
  /\ pc = "delete" /\ item = NoItem /\ todo = {} /\ pass = 1 /\ failed # {}
  /\ pass' = 2 /\ todo' = failed /\ failed' = {}
  /\ UNCHANGED <<pve, cloud, store, pc, opts, item, attempt, faults, known, exposed>>

Finish ==
  /\ pc = "delete" /\ item = NoItem /\ todo = {} /\ (pass = 2 \/ failed = {})
  /\ Over
  /\ UNCHANGED <<pve, cloud, recorded, faults, known, exposed>>

Crash ==
  /\ pc # "idle" /\ Fault /\ Over
  /\ UNCHANGED <<pve, cloud, recorded, known, exposed>>

Step ==
  \/ TeardownCloudflare \/ Listing \/ Confirmed \/ Cancelled
  \/ Take \/ Detach \/ DeleteResource \/ UpdateState \/ RetryFailed \/ Finish

Next ==
  \/ \E o \in Options : Start(o) \/ AlreadyTornDown(o)
  \/ Step
  \/ Crash

Spec == Init /\ [][Next]_vars

\* A process that runs goes on, and the operator runs the command again
\* and again, at times with --force --empty and nothing left out.
Everything(o) == o.force /\ o.empty /\ ~o.nuke /\ ~o.dry /\ o.only = {} /\ o.skip = {}
FairSpec ==
  /\ Spec
  /\ WF_vars(Step)
  /\ SF_vars(\E o \in Options : Everything(o) /\ Start(o))

(***************************************************************************)
(* Properties.                                                             *)
(***************************************************************************)
\* Where the provider can attribute everything it holds and no probe ends
\* the command early, runs repeated after failures and crashes clear the
\* bloc.
Converges == <>[](pve \/ Own \cap live = {})

\* "Detached %s so it survives the teardown of %s": a volume recorded as
\* preserved that was detached from its guest outlives the run.
PreservedSurvives ==
  [][\A v \in (Preserved \cap current) \cap live : v \notin attached => v \in live']_vars
=============================================================================
