------------------------------ MODULE Reconcile ------------------------------
(***************************************************************************)
(* state sync (internal/state/reconciler.go, diff.go, merge.go): list what *)
(* the provider has, compare it with the document, merge, save.            *)
(*                                                                         *)
(* Three goroutines list a category each, call by call, while the cloud    *)
(* goes on changing; a call that fails only leaves its resources out.      *)
(* Discovered resources enter the document under their ID, but bootstrap   *)
(* and recycle record theirs under "type.name" (here: the name), so one    *)
(* resource may have two entries, and which entry a step reads or removes  *)
(* is what this module is about. The file's own hazards are StateStore's.  *)
(***************************************************************************)
EXTENDS Naturals, Sequences, FiniteSets

CONSTANTS Id,          \* the provider's identifiers
          Name,        \* the "type.name" of a resource
          Kind,        \* the resource types
          Category,    \* network, compute, storage
          KindOf,      \* KindOf[n]: the type in the name
          Calls,       \* Calls[c]: the types c lists, in order (none: no manager)
          NoEntry,
          MaxVersion,  \* how often a resource's properties change (a bound)
          MaxEvents    \* how often anything changes in the cloud (a bound)

Key == Id \cup Name
Thing == [id : Id, name : Name, type : Kind, ver : 0..MaxVersion]
Documents == [Key -> Thing \cup {NoEntry}]
Strategies == {"add-only", "update", "full"}

ASSUME ReconcileAssumption ==
    /\ Id \cap Name = {} /\ NoEntry \notin Thing
    /\ IsFiniteSet(Category)
    /\ KindOf \in [Name -> Kind]
    /\ Calls \in [Category -> Seq(Kind)]
    \* Each type is listed once, and of the types nothing lists, or whose manager
    \* the provider lacks, there are no resources here.
    /\ \A n \in Name : \E c \in Category :
         \E i \in DOMAIN Calls[c] : Calls[c][i] = KindOf[n]
    /\ \A c, d \in Category : \A i \in DOMAIN Calls[c], j \in DOMAIN Calls[d] :
         Calls[c][i] = Calls[d][j] => c = d
    /\ MaxVersion \in Nat /\ MaxEvents \in Nat

VARIABLES cloud,     \* the resources that exist, one per name
          events,    \* how often it has changed
          file,      \* the saved document
          mem,       \* the sync's document
          pc,        \* where the sync is
          strategy,  \* its merge strategy
          next,      \* next[c]: the call the goroutine of c makes next
          got,       \* got[c]: what its calls returned
          rank,      \* rank[c]: when its result was received, 0 for not yet
          failed,    \* the types whose listing failed
          throughout,\* the resources that existed ever since the sync began
          seen       \* what the cloud was made of at any time since then
vars == <<cloud, events, file, mem, pc, strategy, next, got, rank, failed, throughout, seen>>
witness == <<throughout, seen>>
results == <<next, got, rank, failed>>
sync == <<mem, pc, strategy, results>>

CategoryOf(k) == CHOOSE c \in Category : \E i \in DOMAIN Calls[c] : Calls[c][i] = k

TypeOK ==
    /\ cloud \subseteq Thing /\ events \in 0..MaxEvents
    /\ throughout \subseteq Id /\ seen \subseteq Thing
    /\ file \in Documents /\ mem \in Documents
    /\ pc \in {"idle", "listing", "listed", "merged"}
    /\ strategy \in Strategies
    /\ next \in [Category -> Nat]
    /\ got \in [Category -> SUBSET Thing]
    /\ rank \in [Category -> 0..Cardinality(Category)]
    /\ failed \subseteq Kind

Init ==
    /\ cloud = {} /\ events = 0 /\ throughout = {} /\ seen = {}
    /\ file = [k \in Key |-> NoEntry] /\ mem = [k \in Key |-> NoEntry]
    /\ pc = "idle" /\ strategy = "full"
    /\ next = [c \in Category |-> 1]
    /\ got = [c \in Category |-> {}]
    /\ rank = [c \in Category |-> 0]
    /\ failed = {}

(***************************************************************************)
(* The cloud, and the commands that record what they did to it. IDs are    *)
(* unique within a category; a bucket, whose ID is its name, may well be   *)
(* called like a key pair.                                                 *)
(***************************************************************************)
Event(after) ==
    /\ events < MaxEvents /\ events' = events + 1
    /\ cloud' = after
    /\ seen' = IF pc = "idle" THEN {} ELSE seen \cup after

Create(n, i) ==
    /\ \A t \in cloud : t.name # n
    /\ \A t \in cloud : t.id = i => CategoryOf(KindOf[t.name]) # CategoryOf(KindOf[n])
    /\ Event(cloud \cup {[id |-> i, name |-> n, type |-> KindOf[n], ver |-> 0]})
    /\ UNCHANGED <<file, sync, throughout>>

Change(t) ==
    /\ t.ver < MaxVersion
    /\ Event((cloud \ {t}) \cup {[t EXCEPT !.ver = @ + 1]})
    /\ UNCHANGED <<file, sync, throughout>>

Destroy(t) ==
    /\ Event(cloud \ {t})
    /\ throughout' = throughout \ {t.id}
    /\ UNCHANGED <<file, sync>>

\* AddResource by bootstrap or recycle: an entry that is there takes the new ID.
Record(t) ==
    /\ pc = "idle"
    /\ file' = [file EXCEPT ![t.name] = t]
    /\ UNCHANGED <<cloud, events, sync, witness>>

\* RemoveResource by teardown: by type and name, whatever else holds the ID.
RemoveResource(n) ==
    /\ pc = "idle" /\ file[n] # NoEntry
    /\ file' = [file EXCEPT ![n] = NoEntry]
    /\ UNCHANGED <<cloud, events, sync, witness>>

(***************************************************************************)
(* Discovery.                                                              *)
(***************************************************************************)
Begin(s) ==
    /\ pc = "idle"
    /\ pc' = "listing" /\ strategy' = s
    /\ mem' = file
    /\ throughout' = {t.id : t \in cloud} /\ seen' = cloud
    /\ UNCHANGED <<cloud, events, file, results>>

\* The sync ends, and what it held is gone with it.
End ==
    /\ pc' = "idle" /\ strategy' = "full"
    /\ mem' = [k \in Key |-> NoEntry] /\ throughout' = {} /\ seen' = {}
    /\ next' = [c \in Category |-> 1]
    /\ got' = [c \in Category |-> {}]
    /\ rank' = [c \in Category |-> 0]
    /\ failed' = {}

\* Slip: the nil a failed call returned is kept.
MutDiscover(c) ==
    /\ pc = "listing" /\ next[c] <= Len(Calls[c])
    /\ next' = [next EXCEPT ![c] = @ + 1]
    /\ got' = [got EXCEPT ![c] = @ \cup {NoEntry}]
    /\ UNCHANGED <<cloud, events, file, mem, pc, strategy, rank, failed, witness>>

\* One discover... function: its call fails, or answers with what exists now.
Discover(c) ==
    /\ pc = "listing" /\ next[c] <= Len(Calls[c])
    /\ next' = [next EXCEPT ![c] = @ + 1]
    /\ LET kind == Calls[c][next[c]]
       IN \/ /\ got' = [got EXCEPT ![c] = @ \cup {t \in cloud : KindOf[t.name] = kind}]
             /\ UNCHANGED failed
          \/ /\ failed' = failed \cup {kind}
             /\ UNCHANGED got
    /\ UNCHANGED <<cloud, events, file, mem, pc, strategy, rank, witness>>

Received == {c \in Category : rank[c] # 0}

\* Slip: a result replaces the ones received before it.
MutReceive(c) ==
    /\ pc = "listing" /\ next[c] > Len(Calls[c]) /\ rank[c] = 0
    /\ rank' = [rank EXCEPT ![c] = Cardinality(Received) + 1]
    /\ got' = [d \in Category |-> IF d \in Received THEN {} ELSE got[d]]
    /\ pc' = IF Received \cup {c} = Category THEN "listed" ELSE "listing"
    /\ UNCHANGED <<cloud, events, file, mem, strategy, next, failed, witness>>

\* A finished category arrives on the channel; the last one closes it.
Receive(c) ==
    /\ pc = "listing" /\ next[c] > Len(Calls[c]) /\ rank[c] = 0
    /\ rank' = [rank EXCEPT ![c] = Cardinality(Received) + 1]
    /\ pc' = IF Received \cup {c} = Category THEN "listed" ELSE "listing"
    /\ UNCHANGED <<cloud, events, file, mem, strategy, next, got, failed, witness>>

(***************************************************************************)
(* Comparison and merge: of the document, and of what was discovered.      *)
(***************************************************************************)
Found(g) == UNION {g[c] : c \in Category}
Ids(g) == {t.id : t \in Found(g)}

\* discoveredIndex: of several resources with one ID the last received counts.
DiscoveredIndex(i, g, r) ==
    CHOOSE t \in Found(g) : /\ t.id = i
                            /\ \A d \in Category : \A u \in g[d] :
                                 u.id = i => r[d] <= r[CategoryOf(KindOf[t.name])]

\* CompareResources looks the document's keys up among the IDs.
Added(m, g) == {i \in Ids(g) : m[i] = NoEntry}
Deleted(m, g) == {k \in Key : m[k] # NoEntry /\ k \notin Ids(g)}

MergeAdded(m, base, g, r) ==
    [k \in Key |-> IF k \in Added(base, g) THEN DiscoveredIndex(k, g, r) ELSE m[k]]

\* An entry that is there takes the name and the properties, never the type: one
\* whose ID comes back as another type keeps the old one.
UpdateResourceFromDiscovered(e, t) == [e EXCEPT !.name = t.name, !.ver = t.ver]

\* An unchanged entry, whose type may differ all the same, is not touched.
MergeModified(m, base, g, r) ==
    [k \in Key |-> IF k \in Ids(g) \ Added(base, g)
                   THEN UpdateResourceFromDiscovered(m[k], DiscoveredIndex(k, g, r)) ELSE m[k]]

\* What is removed is the entry under the ID of a deleted one.
MergeDeleted(m, base, g) ==
    [k \in Key |-> IF \E d \in Deleted(base, g) : base[d].id = k THEN NoEntry ELSE m[k]]

\* Slip: every strategy updates.
MutMergedUpdate(m, s, g, r) ==
    LET updated == MergeModified(MergeAdded(m, m, g, r), m, g, r)
    IN  IF s = "full" THEN MergeDeleted(updated, m, g) ELSE updated

\* Slip: each category is merged as it is received.
MutMergedEach(m, s, g, r) ==
    LET only(n) == [c \in Category |-> IF r[c] = n THEN g[c] ELSE {}]
        done[n \in 0..Cardinality(Category)] ==
          IF n = 0 THEN m ELSE MutMergedUpdate(done[n - 1], s, only(n), r)
    IN  done[Cardinality(Category)]

Merged(m, s, g, r) ==
    LET added == MergeAdded(m, m, g, r)
        updated == MergeModified(added, m, g, r)
    IN  CASE s = "add-only" -> added
          [] s = "update"   -> updated
          [] s = "full"     -> MergeDeleted(updated, m, g)

\* A dry run stops after the comparison, whatever its strategy.
Merge ==
    /\ pc = "listed"
    /\ mem' = Merged(mem, strategy, got, rank)
    /\ pc' = "merged"
    /\ UNCHANGED <<cloud, events, file, strategy, results, witness>>

DryRun == /\ pc = "listed"
          /\ End
          /\ UNCHANGED <<cloud, events, file>>

Save ==
    /\ pc = "merged"
    /\ file' \in {mem, file}
    /\ End
    /\ UNCHANGED <<cloud, events>>

Next ==
    \/ \E n \in Name, i \in Id : Create(n, i)
    \/ \E t \in cloud : Change(t) \/ Destroy(t) \/ Record(t)
    \/ \E n \in Name : RemoveResource(n)
    \/ \E s \in Strategies : Begin(s)
    \/ \E c \in Category : Discover(c) \/ Receive(c)
    \/ Merge \/ DryRun \/ Save
Spec == Init /\ [][Next]_vars

(***************************************************************************)
(* Properties. While a sync runs, file is the document it started from.    *)
(***************************************************************************)
Known(m, i) == \E k \in Key : m[k] # NoEntry /\ m[k].id = i

\* No two discovered resources share an ID.
Distinct == \A t, u \in Found(got) : t.id = u.id => t = u

\* A sync does not forget a resource that existed all the time, whatever
\* changes in the cloud between the listings, if every listing was answered.
LivingStaysKnown ==
    pc = "merged" /\ failed = {} =>
      \A i \in throughout : Known(file, i) => Known(mem, i)

\* The entry says of t what a comparison looks at, which its type is not.
Agrees(e, t) == e.id = t.id /\ e.name = t.name /\ e.ver = t.ver

\* The strategies keep their word, in a cloud that changes while it is listed.
\* Every listed resource is known afterwards, although full may add an entry and
\* remove it again for a deleted one with that ID; add-only changes no entry and
\* update removes none; both others leave under a listed ID nothing but what was
\* so at some time since the sync began, its type excepted; and full leaves no
\* entry under the ID of a resource that was not listed.
StrategyKept ==
    pc = "merged" =>
      /\ \A i \in Ids(got) : Known(mem, i)
      /\ strategy = "add-only" => \A k \in Key : file[k] \in {NoEntry, mem[k]}
      /\ strategy = "update" => \A k \in Key : file[k] # NoEntry => mem[k] # NoEntry
      /\ strategy # "add-only" => \A i \in Ids(got) :
            mem[i] # NoEntry => \E t \in seen : Agrees(mem[i], t)
      /\ strategy = "full" => \A i \in Id : mem[i] # NoEntry => i \in Ids(got)

\* The merge does not depend on which goroutine comes first, as long as no two
\* discovered resources share an ID.
OrderFree ==
    pc = "listed" /\ Distinct =>
      \A r \in [Category -> 1..Cardinality(Category)] :
        Merged(mem, strategy, got, r) = Merged(mem, strategy, got, rank)

=============================================================================
