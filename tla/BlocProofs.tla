----------------------------- MODULE BlocProofs -----------------------------
(***************************************************************************)
(* What is proved about the life of a bloc: its bootstrap and, in the      *)
(* second part, its teardown.                                              *)
(*                                                                         *)
(* Bootstrap, for any modes, number of instances, failures, rollbacks and  *)
(* attempts: the types, that no run makes twice what it looks for or       *)
(* leaves behind what no accident accounts for, that a run that ends well  *)
(* has built what it says, and that disks in use stay.                     *)
(*                                                                         *)
(* These say little about a run that is under way, which is where they are *)
(* lost: the invariant says what a run holds at every point of a step      *)
(* (Holding), what its lookup has seen (Seen), which resource each         *)
(* accident accounts for, those in the run's hands left out (Counted,      *)
(* Blamed), that the entries name what exists unless an answer was lost    *)
(* (Truth), what the steps behind have done (Past), and that on Proxmox    *)
(* the file is the pair (Keyed).                                           *)
(*                                                                         *)
(* Teardown, as T, for any resources, owners, recordings, command lines    *)
(* and number of failures: the types, that the state file does not lose    *)
(* track of what exists, and that a run spares what is not its own and the *)
(* volumes recorded as preserved.                                          *)
(*                                                                         *)
(* A teardown saves the document it holds, so what the file must not lose  *)
(* must be in that document as well (DocumentHolds); an entry is dropped   *)
(* after its resource is gone, so the item about to be recorded is gone    *)
(* (RecordedIsGone); and what may be deleted is decided when the list is   *)
(* made (ListsAreOurs).                                                    *)
(***************************************************************************)
EXTENDS Bootstrap, TeardownState, FiniteSetTheorems, WellFoundedInduction, TLAPS

USE BootstrapAssumption

-----------------------------------------------------------------------------
(* The invariant of bootstrap. *)

Points == {"idle", "look", "act", "finish", "attach", "record", "tidy", "cleanup",
           "save", "failed", "rollback"}
Runs == [pc : Points, step : 1 .. 9, mode : {"all", "bastion"}, found : Ids \cup {0},
         fresh : Ids \cup {0}, guest : Ids \cup {0}, try : 1 .. MaxTries, undo : SUBSET Kinds]

\* The step the run is at, and the kinds a step makes without looking for them.
Current == Selected(run.mode)[run.step]
Parts == {"artifacts", "disk", "store"}
Between == {"idle", "look", "save", "failed", "rollback"}

\* What a run holds, by where it is.
Holding ==
  /\ run.pc \in Between => run.found = 0 /\ run.fresh = 0 /\ run.guest = 0
  /\ run.pc = "act" => /\ Current # "subnet" /\ run.fresh = 0
                       /\ Current # "artifacts" => run.guest = 0
  /\ run.pc = "finish" => /\ Current = "bastion" /\ run.fresh = 0 /\ run.guest \in half
  /\ run.pc \in {"attach", "tidy"} => Current \in {"disk", "artifacts"}
  /\ run.pc \in {"record", "cleanup"} => Current = "artifacts"
  /\ run.pc \in {"attach", "tidy", "record"} => run.fresh \in {0, run.found} /\ run.found # 0
  /\ run.pc = "tidy" => run.fresh # 0
  /\ run.pc \notin Between /\ Current = "disk" =>
       mem.disk \in {0, run.found} /\ (run.fresh # 0 \/ run.pc = "act" => mem.disk = 0)
  /\ run.pc \notin Between /\ Current = "artifacts" =>
       /\ mem.artifacts = 0 /\ run.guest \in cloud.artifacts
       /\ run.pc \in {"attach", "record"} => mem.store = IF run.fresh = 0 THEN run.found ELSE 0
       /\ run.pc = "record" => host.store[run.found] = run.guest
  /\ run.pc = "attach" /\ run.fresh # 0 =>
       host[IF Current = "disk" THEN "disk" ELSE "store"][run.fresh] = 0

\* What a lookup has found is there; and unless it failed, there is no other.
Seen == run.pc = "act" =>
  /\ Current \in {"network", "sg", "ip", "bucket"} /\ run.found # 0 => run.found \in cloud[Current]
  /\ Current = "bastion" /\ run.found # 0 => run.found \in Tagged
  /\ Current \in {"network", "ip", "bucket"} \ blind /\ run.found = 0 => cloud[Current] = {}
  /\ Current = "bastion" /\ "bastion" \notin blind /\ run.found = 0 => Tagged = {}
Alone(S) == \A m, n \in S : m = n
Single ==
  /\ \A k \in LookedFor \ (blind \cup {"bastion"}) : Alone(cloud[k])
  /\ "bastion" \notin blind => Alone(Tagged) /\ (run.pc = "finish" => Tagged = {})
  /\ half \cap {file.bastion, mem.bastion} = {}

\* What the run knows of beside the entries: the guest and the disk it has just
\* made, unless it has failed to attach the disk and cannot say so.
Hand(k) ==
  CASE k = "artifacts" /\ Current = "artifacts" -> {run.guest}
    [] k = "disk" /\ Current = "disk" /\ run.pc \in {"attach", "tidy"} -> {run.fresh}
    [] k = "store" /\ Current = "artifacts" /\ run.pc \in {"attach", "tidy", "record"} -> {run.fresh}
    [] OTHER -> {}
Free(k) == IF run.pc = "tidy" THEN {n \in Hand(k) : k = "artifacts" \/ host[k][n] = 0} ELSE Hand(k)
Loose(k) == cloud[k] \ ({mem[k]} \cup Free(k))
Counted ==
  \A k \in Parts :
    /\ Cardinality(Loose(k)) <= losses
    /\ run.pc \notin {"save", "failed", "rollback"} => mem[k] = file[k]
    /\ run.pc = "rollback" => Cardinality(cloud[k] \ {file[k]}) <= losses
Blamed == run.pc \notin Between /\ Current = "artifacts" =>
            \A n \in Ids : host.store[n] = run.guest =>
               run.pc = "record" \/ (run.pc \in {"tidy", "cleanup"} /\ losses > 0)

\* The entries of a document name what exists.
Named == {"network", "subnet", "sg", "ip", "bastion", "artifacts"}
True(doc) ==
  /\ \A k \in Named : InCloud(k) => doc[k] \in cloud[k] \cup {0}
  /\ doc.artifacts # 0 => doc.store # 0 /\ host.store[doc.store] = doc.artifacts
Truth == ~misled => True(mem) /\ (run.pc # "rollback" => True(file))

\* What the run has behind it.
Has(k) ==
  Supported(k) =>
    IF k = "bucket" THEN cloud.bucket # {}
    ELSE /\ mem[k] # 0
         /\ k = "keypair" /\ InCloud(k) => cloud.keypair # {}
         /\ k = "disk" => host.disk[mem.disk] = mem.bastion
Past == run.pc \notin {"idle", "failed", "rollback"} =>
          \A s \in 1 .. 9 : s < run.step \/ (s = run.step /\ run.pc = "save") =>
             Has(Selected(run.mode)[s])

\* On Proxmox the key file is the pair: the bastions admit it.
Keyed == ~InCloud("keypair") /\ ~keyLost =>
  /\ {file.keypair, mem.keypair} \subseteq {0, local}
  /\ \A n \in (cloud.bastion \cup {file.bastion, mem.bastion}) \ {0} : born[n] = local /\ local # 0

IInv == /\ TypeOK /\ run \in Runs /\ Holding /\ Seen /\ Single
        /\ Counted /\ Blamed /\ Truth /\ Past /\ Keyed
        /\ run.pc = "idle" => mem = file

-----------------------------------------------------------------------------
(* Sets of instances. *)

\* A set of instances that is not empty has a first one.
LEMMA FirstIsIn ==
  ASSUME NEW S, S \subseteq Ids, S # {} PROVE First(S) \in S /\ First(S) \in Ids /\ First(S) # 0
<1>1. \A n \in S : n \in Nat /\ n \in Ids /\ n # 0
  BY DEF Ids
<1>2. IsWellFoundedOn(OpToRel(<, Nat), Nat)
  BY NatLessThanWellFounded
<1>3. PICK n \in S : \A m \in S : ~ (<<m, n>> \in OpToRel(<, Nat))
  <2>1. S \subseteq Nat
    BY <1>1
  <2> QED  BY <1>2, <2>1, WFMin
<1>4. \A m \in S : n <= m
  <2>1. \A m \in S : ~ (m < n)
    BY <1>1, <1>3, Zenon DEF OpToRel
  <2> QED  BY <1>1, <2>1
<1>5. First(S) \in S
  BY <1>4 DEF First
<1> QED  BY <1>1, <1>5

\* There are finitely many.
LEMMA Finitely ==
  ASSUME NEW S, S \subseteq Ids PROVE IsFiniteSet(S) /\ Cardinality(S) \in Nat
<1>1. IsFiniteSet(Ids)
  BY FS_Interval DEF Ids
<1>2. IsFiniteSet(S)
  BY <1>1, FS_Subset
<1> QED  BY <1>2, FS_CardinalityType

\* With one more instance than another set, a set counts at most one more.
LEMMA OneMore ==
  ASSUME NEW S, NEW R, NEW x, S \subseteq Ids, R \subseteq Ids, S \subseteq R \cup {x}
  PROVE  /\ Cardinality(S) <= Cardinality(R) + 1
         /\ Cardinality(S) \in Nat /\ Cardinality(R) \in Nat
<1>1. IsFiniteSet(R) /\ Cardinality(S) \in Nat /\ Cardinality(R) \in Nat
  BY Finitely
<1>2. /\ IsFiniteSet(R \cup {x})
      /\ Cardinality(R \cup {x}) = IF x \in R THEN Cardinality(R) ELSE Cardinality(R) + 1
  BY <1>1, FS_AddElement
<1>3. Cardinality(S) <= Cardinality(R \cup {x})
  BY <1>2, FS_Subset
<1> QED  BY <1>1, <1>2, <1>3

\* A subset of a set of instances has no more than the set.
LEMMA NoMore ==
  ASSUME NEW S, NEW R, S \subseteq R, R \subseteq Ids
  PROVE  /\ Cardinality(S) <= Cardinality(R)
         /\ Cardinality(S) \in Nat /\ Cardinality(R) \in Nat
<1>1. IsFiniteSet(R) /\ Cardinality(S) \in Nat /\ Cardinality(R) \in Nat
  BY Finitely
<1> QED  BY <1>1, FS_Subset

\* A set whose members are all the same has at most one.
LEMMA AloneIsOne == ASSUME NEW S, Alone(S) PROVE Cardinality(S) <= 1
<1>1. CASE S = {}
  BY <1>1, FS_EmptySet
<1>2. CASE S # {}
  <2>1. PICK x \in S : TRUE
    BY <1>2
  <2>2. S = {x}
    BY <2>1 DEF Alone
  <2>3. Cardinality(S) = 1
    BY <2>2, FS_Singleton
  <2> QED  BY <2>3
<1> QED  BY <1>1, <1>2

-----------------------------------------------------------------------------
(* The table of steps. *)

\* A step is run once, the key pair before the bastion and the bastion before
\* its disk.
LEMMA Table ==
  ASSUME NEW m \in {"all", "bastion"}
  PROVE  /\ DOMAIN Selected(m) = 1 .. Len(Selected(m)) /\ Len(Selected(m)) \in 1 .. 9
         /\ \A s \in DOMAIN Selected(m) :
              /\ s \in 1 .. 9 /\ Selected(m)[s] \in Kinds \ {"store"}
              /\ \A t \in DOMAIN Selected(m) : Selected(m)[t] = Selected(m)[s] => t = s
              /\ \A t \in 1 .. 9 : t < s => t \in DOMAIN Selected(m)
              /\ \A t \in DOMAIN Selected(m) :
                    Selected(m)[s] = "bastion" /\ Selected(m)[t] = "disk" => s < t
              /\ Selected(m)[s] = "bastion" => \E t \in 1 .. 9 : t < s /\ Selected(m)[t] = "keypair"
              /\ Selected(m)[s] = "disk" => \E t \in 1 .. 9 : t < s /\ Selected(m)[t] = "bastion"
<1>1. CASE m = "all"
  <2>1. Selected(m) = Steps
    BY <1>1 DEF Selected
  <2>2. Len(Steps) = 9 /\ DOMAIN Steps = 1 .. 9
    BY DEF Steps
  <2>3. \A s \in 1 .. 9 : s = 1 \/ s = 2 \/ s = 3 \/ s = 4 \/ s = 5 \/ s = 6 \/ s = 7 \/ s = 8 \/ s = 9
    OBVIOUS
  <2>4. /\ Steps[1] = "network" /\ Steps[2] = "subnet" /\ Steps[3] = "sg" /\ Steps[4] = "ip"
        /\ Steps[5] = "keypair" /\ Steps[6] = "bastion" /\ Steps[7] = "disk"
        /\ Steps[8] = "artifacts" /\ Steps[9] = "bucket"
    BY DEF Steps
  <2> QED  BY <2>1, <2>2, <2>3, <2>4 DEF Kinds
<1>2. CASE m = "bastion"
  <2>1. Selected(m) = BastionSteps
    BY <1>2 DEF Selected
  <2>2. Len(BastionSteps) = 6 /\ DOMAIN BastionSteps = 1 .. 6
    BY DEF BastionSteps
  <2>3. \A s \in 1 .. 6 : s = 1 \/ s = 2 \/ s = 3 \/ s = 4 \/ s = 5 \/ s = 6
    OBVIOUS
  <2>4. /\ BastionSteps[1] = "network" /\ BastionSteps[2] = "subnet" /\ BastionSteps[3] = "sg"
        /\ BastionSteps[4] = "keypair" /\ BastionSteps[5] = "bastion" /\ BastionSteps[6] = "disk"
    BY DEF BastionSteps
  <2> QED  BY <2>1, <2>2, <2>3, <2>4 DEF Kinds
<1> QED  BY <1>1, <1>2

-----------------------------------------------------------------------------
(* What the calls do. *)

\* The step of a run, and the run that goes on with it.
Stays == run'.step = run.step /\ run'.mode = run.mode

\* The step of a run is one of its mode's.
LEMMA InStep ==
  ASSUME IInv
  PROVE  /\ run.mode \in {"all", "bastion"} /\ run.step \in DOMAIN Selected(run.mode)
         /\ run.step \in 1 .. 9 /\ Current \in Kinds \ {"store"}
<1>1. run.mode \in {"all", "bastion"} /\ run.step \in DOMAIN Selected(run.mode)
  BY DEF IInv, Runs, TypeOK
<1> QED  BY <1>1, Table DEF Current

\* The run that drops what it holds.
LEMMA RunClean ==
  ASSUME run \in Runs, NEW p \in Points
  PROVE  /\ Clean(p) \in Runs /\ Clean(p).pc = p
         /\ Clean(p).step = run.step /\ Clean(p).mode = run.mode
         /\ Clean(p).found = 0 /\ Clean(p).fresh = 0 /\ Clean(p).guest = 0
<1>1. /\ Idle \in Runs /\ Idle.found = 0 /\ Idle.fresh = 0 /\ Idle.guest = 0
  <2>1. 1 \in 1 .. MaxTries /\ 1 \in 1 .. 9
    OBVIOUS
  <2> QED  BY <2>1 DEF Idle, Runs, Points
<1> QED  BY <1>1 DEF Clean, Runs

\* The run that keeps it.
LEMMA RunTo ==
  ASSUME run \in Runs, NEW p \in Points
  PROVE  /\ To(p) \in Runs /\ To(p).pc = p
         /\ To(p).step = run.step /\ To(p).mode = run.mode
         /\ To(p).found = run.found /\ To(p).fresh = run.fresh /\ To(p).guest = run.guest
BY DEF Runs, To

\* The run with what a lookup, a clone or a creation has given it.
Finding(p, n) == [run EXCEPT !.pc = p, !.found = n]
Cloning(p, n) == [run EXCEPT !.pc = p, !.guest = n]
Making(p, n) == [run EXCEPT !.pc = p, !.found = n, !.fresh = n]

\* The run that holds one thing more.
LEMMA RunWith ==
  ASSUME run \in Runs, NEW p \in Points, NEW n \in Ids \cup {0}
  PROVE  /\ \A r \in {Finding(p, n), Cloning(p, n), Making(p, n)} :
              r \in Runs /\ r.pc = p /\ r.step = run.step /\ r.mode = run.mode
         /\ Finding(p, n).found = n /\ Finding(p, n).fresh = run.fresh
         /\ Finding(p, n).guest = run.guest
         /\ Cloning(p, n).guest = n /\ Cloning(p, n).fresh = run.fresh
         /\ Cloning(p, n).found = run.found
         /\ Making(p, n).found = n /\ Making(p, n).fresh = n /\ Making(p, n).guest = run.guest
<1>1. /\ Finding(p, n) \in Runs /\ Finding(p, n).pc = p
      /\ Finding(p, n).step = run.step /\ Finding(p, n).mode = run.mode
      /\ Finding(p, n).found = n /\ Finding(p, n).fresh = run.fresh
      /\ Finding(p, n).guest = run.guest
  BY DEF Runs, Finding
<1>2. /\ Cloning(p, n) \in Runs /\ Cloning(p, n).pc = p
      /\ Cloning(p, n).step = run.step /\ Cloning(p, n).mode = run.mode
      /\ Cloning(p, n).guest = n /\ Cloning(p, n).fresh = run.fresh
      /\ Cloning(p, n).found = run.found
  BY DEF Runs, Cloning
<1>3. /\ Making(p, n) \in Runs /\ Making(p, n).pc = p
      /\ Making(p, n).step = run.step /\ Making(p, n).mode = run.mode
      /\ Making(p, n).found = n /\ Making(p, n).fresh = n /\ Making(p, n).guest = run.guest
  BY DEF Runs, Making
<1> QED  BY <1>1, <1>2, <1>3

\* A new id is no instance's and in no entry.
LEMMA NewIsNew ==
  ASSUME NEW k \in Kinds, New(k) # {}
  PROVE  /\ First(New(k)) \in Ids /\ First(New(k)) # 0 /\ First(New(k)) \notin cloud[k]
         /\ First(New(k)) # file[k] /\ First(New(k)) # mem[k]
<1>1. New(k) \subseteq Ids
  BY DEF New
<1>2. First(New(k)) \in New(k) /\ First(New(k)) \in Ids /\ First(New(k)) # 0
  BY <1>1, FirstIsIn
<1> QED  BY <1>2 DEF New

\* The types of the documents and of the provider's side.
LEMMA Documents ==
  ASSUME TypeOK
  PROVE  /\ cloud \in [Kinds -> SUBSET Ids] /\ mem \in [Kinds -> Ids \cup {0}]
         /\ file \in [Kinds -> Ids \cup {0}] /\ losses \in Nat
BY DEF TypeOK

\* A call is at most one accident.
LEMMA Counts == ASSUME TypeOK, NEW a, Call(a) PROVE losses' \in {losses, losses + 1} /\ losses' \in Nat /\ losses' >= losses
BY Documents DEF Call

\* An entry of a document set to another value.
LEMMA Entry ==
  ASSUME NEW doc \in [Kinds -> Ids \cup {0}], NEW k \in Kinds, NEW n \in Ids \cup {0}
  PROVE  /\ [doc EXCEPT ![k] = n] \in [Kinds -> Ids \cup {0}]
         /\ [doc EXCEPT ![k] = n][k] = n
         /\ \A j \in Kinds \ {k} : [doc EXCEPT ![k] = n][j] = doc[j]
OBVIOUS

\* Instances of one kind added or removed.
LEMMA Instances ==
  ASSUME TypeOK, NEW k \in Kinds, NEW S \in SUBSET Ids
  PROVE  /\ [cloud EXCEPT ![k] = S] \in [Kinds -> SUBSET Ids]
         /\ [cloud EXCEPT ![k] = S][k] = S
         /\ \A j \in Kinds \ {k} : [cloud EXCEPT ![k] = S][j] = cloud[j]
BY Documents

\* A creation is done and recorded, done and not answered, or refused.
LEMMA CreateIs ==
  ASSUME TypeOK, run \in Runs, NEW k \in Kinds, NEW n \in Ids, NEW a \in Answers, Create(k, a, n)
  PROVE  /\ losses' \in Nat /\ losses' >= losses
         /\ cloud' \in [Kinds -> SUBSET Ids] /\ \A j \in Kinds \ {k} : cloud'[j] = cloud[j]
         /\ cloud'[k] \in {cloud[k], cloud[k] \cup {n}}
         /\ mem' \in [Kinds -> Ids \cup {0}] /\ \A j \in Kinds \ {k} : mem'[j] = mem[j]
         /\ \/ run' = Clean("save") /\ mem'[k] = n /\ cloud'[k] = cloud[k] \cup {n} /\ a = "ok"
            \/ run' = Clean("failed") /\ mem'[k] = mem[k] /\ a # "ok"
<1>1. Call(a)
  BY DEF Create
<1>2. cloud[k] \cup {n} \in SUBSET Ids
  BY Documents
<1>3. cloud' = IF a = "refused" THEN cloud ELSE [cloud EXCEPT ![k] = cloud[k] \cup {n}]
  BY DEF Create
<1>4. /\ cloud' \in [Kinds -> SUBSET Ids] /\ \A j \in Kinds \ {k} : cloud'[j] = cloud[j]
      /\ cloud'[k] = IF a = "refused" THEN cloud[k] ELSE cloud[k] \cup {n}
  BY <1>2, <1>3, Instances, Documents
<1>5. CASE a = "ok"
  BY <1>1, <1>4, <1>5, Counts, Entry, Documents DEF Create, Complete
<1>6. CASE a # "ok"
  BY <1>1, <1>4, <1>6, Counts, Documents DEF Create, FailStep
<1> QED  BY <1>5, <1>6

\* A lookup finds what is there, or nothing because it fails, or nothing
\* because nothing is there.
LEMMA LookIs ==
  ASSUME TypeOK, run \in Runs, NEW k \in Kinds, NEW present, present \subseteq Ids, Look(k, present)
  PROVE  /\ run' \in Runs /\ Stays /\ run'.pc = "act" /\ run'.fresh = run.fresh /\ run'.guest = run.guest
         /\ blind \subseteq blind' /\ blind' \subseteq Kinds
         /\ run'.found # 0 => run'.found \in present
         /\ k \notin blind' /\ run'.found = 0 => present = {}
<1>1. CASE /\ run' = [run EXCEPT !.pc = "act", !.found = IF present = {} THEN 0 ELSE First(present)]
           /\ UNCHANGED <<left, blind>>
  <2> DEFINE n == IF present = {} THEN 0 ELSE First(present)
  <2>1. n \in Ids \cup {0} /\ (n # 0 => n \in present) /\ (n = 0 => present = {}) /\ "act" \in Points
    BY FirstIsIn DEF Points
  <2>2. run' = Finding("act", n)
    BY <1>1 DEF Finding
  <2>3. blind' = blind /\ blind \subseteq Kinds
    BY <1>1 DEF TypeOK
  <2> HIDE DEF n
  <2>4. /\ run' \in Runs /\ run'.pc = "act" /\ run'.step = run.step /\ run'.mode = run.mode
        /\ run'.found = n /\ run'.fresh = run.fresh /\ run'.guest = run.guest
    BY <2>1, <2>2, RunWith
  <2> QED  BY <2>1, <2>3, <2>4 DEF Stays
<1>2. CASE /\ Spend(TRUE)
           /\ run' = [run EXCEPT !.pc = "act", !.found = 0]
           /\ blind' = IF present = {} THEN blind ELSE blind \cup {k}
  <2>1. "act" \in Points /\ 0 \in Ids \cup {0}
    BY DEF Points
  <2>2. run' = Finding("act", 0)
    BY <1>2 DEF Finding
  <2> QED  BY <1>2, <2>1, <2>2, RunWith DEF Stays, TypeOK
<1> QED  BY <1>1, <1>2 DEF Look

-----------------------------------------------------------------------------
(* What keeps the parts of the invariant. *)

\* A step that goes on is at the same step.
LEMMA SameStep == ASSUME Stays PROVE Current' = Current
BY DEF Stays, Current

\* The instances no one answers for become no more.
LEMMA CountedKept ==
  ASSUME IInv, losses' \in Nat, losses' >= losses, run'.pc # "rollback",
         \A k \in Parts : /\ cloud'[k] \ ({mem'[k]} \cup Free(k)') \subseteq Loose(k)
                          /\ run'.pc \notin {"save", "failed"} => mem'[k] = file'[k]
  PROVE  Counted'
<1> SUFFICES ASSUME NEW k \in Parts
             PROVE  /\ Cardinality(Loose(k)') <= losses'
                    /\ run'.pc \notin {"save", "failed", "rollback"} => mem'[k] = file'[k]
  BY DEF Counted
<1>1. Loose(k)' \subseteq Loose(k)
  BY DEF Loose
<1>2. Loose(k) \subseteq Ids /\ Cardinality(Loose(k)) <= losses /\ losses \in Nat
  BY Documents DEF IInv, Loose, Counted, Parts, Kinds
<1>3. Cardinality(Loose(k)') <= Cardinality(Loose(k)) /\ Cardinality(Loose(k)) \in Nat
      /\ Cardinality(Loose(k)') \in Nat
  BY <1>1, <1>2, NoMore
<1>4. Cardinality(Loose(k)') <= losses'
  BY <1>2, <1>3
<1> QED  BY <1>4

\* An accident accounts for one more of a kind.
LEMMA CountedMore ==
  ASSUME IInv, losses' = losses + 1, run'.pc # "rollback",
         \A k \in Parts : /\ \E x : cloud'[k] \ ({mem'[k]} \cup Free(k)') \subseteq Loose(k) \cup {x}
                          /\ cloud'[k] \subseteq Ids
                          /\ run'.pc \notin {"save", "failed"} => mem'[k] = file'[k]
  PROVE  Counted'
<1> SUFFICES ASSUME NEW k \in Parts
             PROVE  /\ Cardinality(Loose(k)') <= losses'
                    /\ run'.pc \notin {"save", "failed", "rollback"} => mem'[k] = file'[k]
  BY DEF Counted
<1>1. PICK x : Loose(k)' \subseteq Loose(k) \cup {x}
  BY DEF Loose
<1>2. Loose(k) \subseteq Ids /\ Cardinality(Loose(k)) <= losses /\ losses \in Nat
  BY Documents DEF IInv, Loose, Counted, Parts, Kinds
<1>3. Loose(k)' \subseteq Ids
  BY DEF Loose
<1>4. Cardinality(Loose(k)') <= Cardinality(Loose(k)) + 1 /\ Cardinality(Loose(k)) \in Nat
      /\ Cardinality(Loose(k)') \in Nat
  BY <1>1, <1>2, <1>3, OneMore
<1>5. Cardinality(Loose(k)') <= losses'
  BY <1>2, <1>4
<1> QED  BY <1>5

\* What the steps before have done stays done.
LEMMA PastKept ==
  ASSUME IInv, NEW k \in Kinds, k = Current, Stays, UNCHANGED provider,
         run.pc \notin {"idle", "failed", "rollback", "save"},
         run'.pc = "save" => Has(k)',
         \A j \in Kinds \ {k, "store"} : mem'[j] = mem[j],
         k # "keypair" => cloud'["keypair"] = cloud["keypair"],
         k # "bucket" => cloud'["bucket"] = cloud["bucket"],
         k # "disk" => host'["disk"] = host["disk"]
  PROVE  Past'
<1> SUFFICES ASSUME NEW s \in 1 .. 9, s < run'.step \/ (s = run'.step /\ run'.pc = "save"),
                    NEW j, j = Selected(run.mode)[s]
             PROVE  Has(j)'
  BY Zenon DEF Past, Stays
<1>1. run'.step = run.step
  BY DEF Stays
<1>2. CASE s = run'.step
  BY <1>1, <1>2, InStep DEF Current
<1>3. CASE s < run.step
  <2>1. Has(j)
    BY <1>3 DEF IInv, Past
  <2>2. j \in Kinds \ {"store"} /\ j # k /\ ~(j = "disk" /\ k = "bastion")
    BY <1>3, InStep, Table DEF Current
  <2>3. mem'[j] = mem[j]
    BY <2>2
  <2>4. j = "disk" => mem'["bastion"] = mem["bastion"] /\ host'["disk"] = host["disk"]
    BY <2>2 DEF Kinds
  <2>5. j = "keypair" => cloud'["keypair"] = cloud["keypair"]
    BY <2>2
  <2>6. j = "bucket" => cloud'["bucket"] = cloud["bucket"]
    BY <2>2
  <2> QED  BY <2>1, <2>2, <2>3, <2>4, <2>5, <2>6 DEF Has, Supported, InCloud
<1> QED  BY <1>1, <1>2, <1>3, InStep

-----------------------------------------------------------------------------
(* The steps that look for one thing and make it. *)

Plain == {"network", "subnet", "sg", "ip", "keypair", "bucket"}

\* Only the kind itself changes, at the provider and in the document, the key
\* file with the key pair, and the run.
PlainStep(k) ==
  /\ UNCHANGED <<provider, half, host, owner, file, born, used, misled, keyLost>>
  /\ run' \in Runs /\ Stays /\ run'.pc \in {"look", "act", "save", "failed"}
  /\ run'.fresh = 0 /\ run'.guest = 0 /\ (run'.pc # "act" => run'.found = 0)
  /\ cloud' \in [Kinds -> SUBSET Ids] /\ mem' \in [Kinds -> Ids \cup {0}]
  /\ \A j \in Kinds \ {k} : cloud'[j] = cloud[j] /\ mem'[j] = mem[j]
  /\ blind \subseteq blind' /\ blind' \subseteq Kinds
  /\ losses' \in Nat /\ losses' >= losses
  /\ local' \in Ids \cup {0} /\ (k # "keypair" => local' = local)

\* An entry names what is there; there is one only; what is found is there; the
\* step saves when it has done its work; and the key file is not replaced.
PlainGood(k) ==
  /\ k \in Named /\ InCloud(k) => cloud[k] \subseteq cloud'[k] /\ mem'[k] \in cloud'[k] \cup {0, mem[k]}
  /\ k \in LookedFor \ blind' => Alone(cloud'[k])
  /\ run'.pc = "act" => /\ k # "subnet"
                        /\ k # "keypair" /\ run'.found # 0 => run'.found \in cloud'[k]
                        /\ k \in {"network", "ip", "bucket"} \ blind' /\ run'.found = 0 => cloud'[k] = {}
  /\ run'.pc = "save" => Has(k)'
  /\ ~InCloud("keypair") /\ k = "keypair" =>
       (local' = local \/ local = 0) /\ mem'[k] \in {0, local', mem[k]}

\* A step of this kind that does these two keeps the invariant.
LEMMA PlainKeeps ==
  ASSUME IInv, NEW k \in Plain, k = Current, run.pc \in {"look", "act"}, PlainStep(k), PlainGood(k)
  PROVE  IInv'
<1>1. /\ k \in Kinds /\ k \notin Disks /\ k \notin {"bastion", "artifacts", "store"} /\ k \notin Parts
      /\ cloud'["bastion"] = cloud["bastion"] /\ mem'["bastion"] = mem["bastion"]
      /\ \A d \in Disks : /\ cloud'[d] = cloud[d] /\ cloud'[GuestOf[d]] = cloud[GuestOf[d]]
                          /\ mem'[d] = mem[d]
      /\ \A d \in Parts : cloud'[d] = cloud[d] /\ mem'[d] = mem[d]
  BY DEF Plain, Kinds, Disks, GuestOf, Parts, PlainStep
<1>2. Current' = k
  BY SameStep DEF PlainStep
<1>3. TypeOK' /\ run' \in Runs
  <2>1. run'.step \in DOMAIN Selected(run'.mode) /\ run'.try \in 1 .. MaxTries
    BY DEF PlainStep, Stays, IInv, TypeOK, Runs
  <2>2. {run'.found, run'.fresh, run'.guest} \subseteq Ids \cup {0}
    BY DEF PlainStep, Runs
  <2>3. \A d \in Disks, n \in Ids :
          host'[d][n] # 0 => n \in cloud'[d] /\ host'[d][n] \in cloud'[GuestOf[d]]
    BY <1>1 DEF PlainStep, IInv, TypeOK
  <2> QED  BY <1>1, <2>1, <2>2, <2>3 DEF PlainStep, IInv, TypeOK
<1>4. Holding'
  <2>1. /\ run'.pc \in {"look", "act", "save", "failed"} /\ run'.fresh = 0 /\ run'.guest = 0
        /\ run'.pc # "act" => run'.found = 0
        /\ run'.pc = "act" => k # "subnet"
    BY DEF PlainStep, PlainGood
  <2>2. k # "disk" /\ k # "artifacts"
    BY <1>1 DEF Disks
  <2> QED  BY <1>2, <2>1, <2>2 DEF Holding, Between
<1>5. Seen'
  BY <1>1, <1>2 DEF PlainStep, PlainGood, Seen, Plain
<1>6. Single'
  <2>1. \A j \in LookedFor \ (blind' \cup {"bastion"}) : Alone(cloud'[j])
    BY <1>1 DEF PlainStep, PlainGood, IInv, Single, LookedFor, Kinds
  <2>2. Tagged' = Tagged
    BY <1>1 DEF PlainStep, Tagged
  <2> QED  BY <1>1, <2>1, <2>2 DEF PlainStep, IInv, Single
<1>7. Counted'
  <2>1. \A j \in Parts : Free(j) = {} /\ Free(j)' = {}
    BY <1>1, <1>2 DEF Free, Hand, Parts
  <2>2. \A j \in Parts : cloud'[j] \ ({mem'[j]} \cup Free(j)') = Loose(j)
    BY <1>1, <2>1 DEF Loose
  <2>3. \A j \in Parts : mem'[j] = file'[j]
    BY <1>1 DEF PlainStep, IInv, Counted
  <2> QED  BY <2>2, <2>3, CountedKept DEF PlainStep
<1>8. Blamed'
  BY <1>1, <1>2 DEF Blamed
<1>9. Truth'
  <2>1. InCloud(k)' = InCloud(k) /\ \A j \in Named : InCloud(j)' = InCloud(j)
    BY DEF InCloud, PlainStep
  <2> SUFFICES ASSUME ~misled
               PROVE  True(mem)' /\ True(file)'
    BY DEF Truth, PlainStep
  <2>2. True(mem) /\ True(file)
    BY DEF IInv, Truth
  <2>3. \A j \in Named : InCloud(j) => mem'[j] \in cloud'[j] \cup {0} /\ file'[j] \in cloud'[j] \cup {0}
    BY <2>2 DEF True, PlainStep, PlainGood, Named, Kinds
  <2>4. mem'.artifacts = mem.artifacts /\ mem'.store = mem.store
    BY <1>1 DEF Parts
  <2> QED  BY <2>1, <2>2, <2>3, <2>4 DEF True, PlainStep
<1>10. Past'
  <2>1. run'.pc = "save" => Has(k)'
    BY DEF PlainGood
  <2>2. Stays /\ UNCHANGED provider /\ host' = host
    BY DEF PlainStep
  <2>3. \A j \in Kinds \ {k} : cloud'[j] = cloud[j] /\ mem'[j] = mem[j]
    BY DEF PlainStep
  <2> QED  BY <1>1, <2>1, <2>2, <2>3, PastKept DEF Kinds
<1>11. Keyed'
  <2> SUFFICES ASSUME ~InCloud("keypair"), ~keyLost
               PROVE  /\ {file'.keypair, mem'.keypair} \subseteq {0, local'}
                      /\ \A n \in (cloud'.bastion \cup {file'.bastion, mem'.bastion}) \ {0} :
                            born'[n] = local' /\ local' # 0
    BY DEF Keyed, InCloud, PlainStep
  <2>1. /\ {file.keypair, mem.keypair} \subseteq {0, local}
        /\ \A n \in (cloud.bastion \cup {file.bastion, mem.bastion}) \ {0} : born[n] = local /\ local # 0
    BY DEF IInv, Keyed
  <2>2. mem'.keypair \in {0, local', mem.keypair} /\ (local' = local \/ local = 0)
    BY DEF PlainStep, PlainGood, Kinds
  <2> QED  BY <1>1, <2>1, <2>2 DEF PlainStep
<1>12. run'.pc # "idle"
  BY DEF PlainStep
<1> QED  BY <1>3, <1>4, <1>5, <1>6, <1>7, <1>8, <1>9, <1>10, <1>11, <1>12 DEF IInv

\* What all of them leave alone.
Frame == UNCHANGED <<provider, half, host, owner, file, born, used, misled, keyLost>>

\* The two frames the actions state.
LEMMA Frames ==
  /\ Keep => Frame /\ UNCHANGED local
  /\ KeyKeep => Frame /\ UNCHANGED blind
BY DEF Keep, KeyKeep, Frame, ghosts

\* A step that gives up changes nothing.
LEMMA PlainFails ==
  ASSUME IInv, NEW k \in Plain, k = Current, run.pc \in {"look", "act"}, Frame,
         FailStep(mem), UNCHANGED <<cloud, local, losses, blind>>
  PROVE  IInv'
<1>1. run \in Runs /\ TypeOK /\ Single
  BY DEF IInv
<1>2. run' \in Runs /\ run'.pc = "failed" /\ Stays /\ run'.fresh = 0 /\ run'.guest = 0 /\ run'.found = 0
  BY <1>1, RunClean DEF FailStep, Stays, Points
<1>3. mem' = mem
  BY DEF FailStep
<1>4. PlainStep(k)
  BY <1>1, <1>2, <1>3, Documents DEF PlainStep, Frame, TypeOK
<1>5. PlainGood(k)
  <2>1. k \in LookedFor \ blind => Alone(cloud[k])
    BY <1>1 DEF Single, Plain
  <2> QED  BY <1>2, <1>3, <2>1 DEF PlainGood
<1> QED  BY <1>4, <1>5, PlainKeeps

\* One that looks finds what there is.
LEMMA PlainLooks ==
  ASSUME IInv, NEW k \in Plain \ {"subnet", "keypair"}, k = Current, run.pc = "look", Frame,
         Look(k, cloud[k]), UNCHANGED <<cloud, mem, local, losses>>
  PROVE  IInv'
<1>1. run \in Runs /\ TypeOK /\ Single /\ Holding /\ k \in Kinds
  BY DEF IInv, Plain, Kinds
<1>2. cloud[k] \subseteq Ids
  BY <1>1, Documents
<1>3. /\ run' \in Runs /\ Stays /\ run'.pc = "act" /\ run'.fresh = run.fresh /\ run'.guest = run.guest
      /\ blind \subseteq blind' /\ blind' \subseteq Kinds
      /\ run'.found # 0 => run'.found \in cloud[k]
      /\ k \notin blind' /\ run'.found = 0 => cloud[k] = {}
  BY <1>1, <1>2, LookIs
<1>4. run.fresh = 0 /\ run.guest = 0
  BY <1>1 DEF Holding, Between
<1>5. PlainStep(k)
  BY <1>1, <1>3, <1>4, Documents DEF PlainStep, Frame, TypeOK
<1>6. PlainGood(k)
  <2>1. k \in LookedFor \ blind => Alone(cloud[k])
    BY <1>1 DEF Single, Plain
  <2> QED  BY <1>3, <2>1 DEF PlainGood
<1> QED  BY <1>5, <1>6, PlainKeeps

\* One that is done records what is there, or keeps its entry.
LEMMA PlainTakes ==
  ASSUME IInv, NEW k \in Plain, k = Current, run.pc \in {"look", "act"}, Frame,
         NEW n \in Ids \cup {0}, Complete([mem EXCEPT ![k] = n]), UNCHANGED <<cloud, losses, blind>>,
         k # "keypair" => UNCHANGED local,
         local' \in Ids \cup {0}, local' = local \/ (local = 0 /\ ~InCloud("keypair")),
         ~Supported(k) \/ (IF k = "bucket" THEN cloud[k] # {} ELSE n # 0),
         n \in cloud[k] \/ n = mem[k] \/ ~InCloud(k) \/ k \notin Named,
         k = "keypair" => IF InCloud(k) THEN cloud[k] # {} ELSE n \in {local', mem[k]}
  PROVE  IInv'
<1>1. run \in Runs /\ TypeOK /\ Single /\ k \in Kinds
  BY DEF IInv, Plain, Kinds
<1>2. run' \in Runs /\ run'.pc = "save" /\ Stays /\ run'.fresh = 0 /\ run'.guest = 0 /\ run'.found = 0
  BY <1>1, RunClean DEF Complete, Stays, Points
<1>3. /\ mem' \in [Kinds -> Ids \cup {0}] /\ mem'[k] = n
      /\ \A j \in Kinds \ {k} : mem'[j] = mem[j]
  BY <1>1, Documents, Entry DEF Complete
<1>4. PlainStep(k)
  BY <1>1, <1>2, <1>3, Documents DEF PlainStep, Frame, TypeOK
<1>5. PlainGood(k)
  <2>1. k \in LookedFor \ blind => Alone(cloud[k])
    BY <1>1 DEF Single, Plain
  <2>2. Has(k)'
    BY <1>3, <1>1 DEF Has, Supported, InCloud, Frame, Plain
  <2> QED  BY <1>2, <1>3, <2>1, <2>2 DEF PlainGood
<1> QED  BY <1>4, <1>5, PlainKeeps

\* One that finds its work done keeps the document.
LEMMA PlainConfirms ==
  ASSUME IInv, NEW k \in Plain, k = Current, run.pc \in {"look", "act"}, Frame,
         Complete(mem), UNCHANGED <<cloud, local, losses, blind>>,
         ~Supported(k) \/ (IF k = "bucket" THEN cloud[k] # {} ELSE mem[k] # 0),
         k = "keypair" => ~InCloud(k) \/ cloud[k] # {}
  PROVE  IInv'
<1>1. TypeOK /\ mem[k] \in Ids \cup {0} /\ mem = [mem EXCEPT ![k] = mem[k]]
  BY Documents DEF IInv, Plain, Kinds
<1>2. Complete([mem EXCEPT ![k] = mem[k]])
  BY <1>1
<1>3. local \in Ids \cup {0}
  BY <1>1 DEF TypeOK
<1> DEFINE n == mem[k]
<1>4. n \in Ids \cup {0} /\ Complete([mem EXCEPT ![k] = n]) /\ n = mem[k]
  BY <1>1, <1>2
<1> HIDE DEF n
<1> QED  BY <1>3, <1>4, PlainTakes

\* One that creates has found none, or looked in vain.
LEMMA PlainCreates ==
  ASSUME IInv, NEW k \in Plain, k = Current, run.pc \in {"look", "act"}, Frame,
         NEW n \in Ids, NEW a \in Answers, Create(k, a, n), UNCHANGED blind, InCloud(k),
         local' \in Ids \cup {0}, k # "keypair" => UNCHANGED local,
         k \in LookedFor \ blind => cloud[k] = {}
  PROVE  IInv'
<1>1. run \in Runs /\ TypeOK /\ k \in Kinds /\ n # 0
  BY DEF IInv, Plain, Kinds, Ids
<1>2. /\ losses' \in Nat /\ losses' >= losses
      /\ cloud' \in [Kinds -> SUBSET Ids] /\ \A j \in Kinds \ {k} : cloud'[j] = cloud[j]
      /\ cloud'[k] \in {cloud[k], cloud[k] \cup {n}}
      /\ mem' \in [Kinds -> Ids \cup {0}] /\ \A j \in Kinds \ {k} : mem'[j] = mem[j]
      /\ \/ run' = Clean("save") /\ mem'[k] = n /\ cloud'[k] = cloud[k] \cup {n}
         \/ run' = Clean("failed") /\ mem'[k] = mem[k]
  BY <1>1, CreateIs
<1>3. /\ run' \in Runs /\ run'.pc \in {"save", "failed"} /\ Stays
      /\ run'.fresh = 0 /\ run'.guest = 0 /\ run'.found = 0
      /\ run'.pc = "save" => mem'[k] = n /\ cloud'[k] = cloud[k] \cup {n}
      /\ run'.pc = "failed" => mem'[k] = mem[k]
  BY <1>1, <1>2, RunClean DEF Stays, Points
<1>4. PlainStep(k)
  BY <1>1, <1>2, <1>3 DEF PlainStep, Frame, TypeOK
<1>5. PlainGood(k)
  <2>1. k \in LookedFor \ blind => Alone(cloud'[k])
    BY <1>2 DEF Alone
  <2>2. run'.pc = "save" => Has(k)'
    BY <1>1, <1>3 DEF Has, Plain
  <2>3. mem'[k] \in cloud'[k] \cup {0, mem[k]} /\ cloud[k] \subseteq cloud'[k]
    BY <1>2, <1>3
  <2> QED  BY <1>3, <2>1, <2>2, <2>3 DEF PlainGood
<1> QED  BY <1>4, <1>5, PlainKeeps

\* The steps, one by one.
LEMMA NetworkOK == ASSUME IInv, CreateNetwork PROVE IInv'
<1> DEFINE k == "network"
<1>1. Frame /\ UNCHANGED local
  <2>1. Keep
    BY DEF CreateNetwork
  <2> QED  BY <2>1, Frames
<1>2. k \in Plain /\ k \in Kinds /\ k = Current /\ run.pc \in {"look", "act"} /\ k \in LookedFor
  BY DEF CreateNetwork, At, Current, Plain, Kinds, LookedFor
<1>3. mem[k] \in Ids \cup {0} /\ run.found \in Ids \cup {0} /\ Seen /\ Single /\ TypeOK
  BY <1>2, Documents DEF IInv, TypeOK
<1>4. CASE /\ At(k, "look") /\ mem.network # 0
           /\ Complete(mem)
           /\ UNCHANGED <<cloud, left, losses, blind>>
  BY <1>1, <1>2, <1>4, PlainConfirms
<1>5. CASE /\ At(k, "look") /\ mem.network = 0
           /\ Look(k, cloud.network)
           /\ UNCHANGED <<cloud, mem, losses>>
  BY <1>1, <1>2, <1>5, PlainLooks DEF At
<1>6. CASE /\ At(k, "act") /\ run.found # 0
           /\ Complete([mem EXCEPT !.network = run.found])
           /\ UNCHANGED <<cloud, left, losses, blind>>
  <2>1. run.found \in cloud[k]
    BY <1>2, <1>3, <1>6 DEF Seen, At
  <2> QED  BY <1>1, <1>2, <1>3, <1>6, <2>1, PlainTakes DEF TypeOK
<1>7. CASE /\ At(k, "act") /\ run.found = 0 /\ UNCHANGED blind
           /\ Conflict(k)
  BY <1>1, <1>2, <1>7, PlainFails DEF Conflict
<1>8. ASSUME At(k, "act"), run.found = 0, UNCHANGED blind, New(k) # {},
             NEW a \in Answers, Create(k, a, First(New(k)))
      PROVE  IInv'
  <2>1. k \in LookedFor \ blind => cloud[k] = {}
    BY <1>2, <1>3, <1>8 DEF Seen, At
  <2>2. First(New(k)) \in Ids
    BY <1>2, <1>8, NewIsNew
  <2> QED  BY <1>1, <1>2, <1>3, <1>8, <2>1, <2>2, PlainCreates DEF InCloud, TypeOK
<1> QED  BY <1>4, <1>5, <1>6, <1>7, <1>8 DEF CreateNetwork

\* The subnets: on Proxmox nothing is made of them.
LEMMA SubnetsOK == ASSUME IInv, CreateSubnets PROVE IInv'
<1> DEFINE k == "subnet"
<1>1. Frame /\ UNCHANGED <<local, blind>>
  <2>1. Keep /\ UNCHANGED blind
    BY DEF CreateSubnets
  <2> QED  BY <2>1, Frames
<1>2. k \in Plain /\ k \in Kinds /\ k = Current /\ run.pc = "look"
  <2>1. At(k, "look")
    BY DEF CreateSubnets
  <2> QED  BY <2>1 DEF At, Current, Plain, Kinds
<1>3. mem[k] \in Ids \cup {0} /\ TypeOK
  BY <1>2, Documents DEF IInv
<1>4. CASE FailStep(mem) /\ UNCHANGED <<cloud, left, losses>>
  BY <1>1, <1>2, <1>4, PlainFails
<1>5. CASE /\ InCloud(k) => mem.subnet # 0
           /\ Complete([mem EXCEPT !.subnet = IF @ = 0 THEN 1 ELSE @])
           /\ UNCHANGED <<cloud, left, losses>>
  <2> DEFINE n == IF mem[k] = 0 THEN 1 ELSE mem[k]
  <2>1. n \in Ids \cup {0} /\ n # 0 /\ (n = mem[k] \/ ~InCloud(k))
    BY <1>3, <1>5 DEF Ids
  <2>2. Complete([mem EXCEPT ![k] = n])
    BY <1>5
  <2> HIDE DEF n
  <2> QED  BY <1>1, <1>2, <1>3, <1>5, <2>1, <2>2, PlainTakes DEF TypeOK
<1>6. ASSUME InCloud(k), New(k) # {}, cloud[k] = {}, NEW a \in Answers, Create(k, a, First(New(k)))
      PROVE  IInv'
  <2>1. First(New(k)) \in Ids
    BY <1>2, <1>6, NewIsNew
  <2> QED  BY <1>1, <1>2, <1>3, <1>6, <2>1, PlainCreates DEF TypeOK
<1> QED  BY <1>4, <1>5, <1>6 DEF CreateSubnets

\* The addresses, tried again when they cannot be made.
LEMMA IPsOK == ASSUME IInv, CreatePublicIPs PROVE IInv'
<1> DEFINE k == "ip"
<1>1. Frame /\ UNCHANGED local
  <2>1. Keep
    BY DEF CreatePublicIPs
  <2> QED  BY <2>1, Frames
<1>2. k \in Plain /\ k \in Kinds /\ k = Current /\ run.pc \in {"look", "act"} /\ k \in LookedFor
  BY DEF CreatePublicIPs, At, Current, Plain, Kinds, LookedFor
<1>3. mem[k] \in Ids \cup {0} /\ run.found \in Ids \cup {0} /\ Seen /\ Single /\ TypeOK /\ Holding /\ run \in Runs
  BY <1>2, Documents DEF IInv, TypeOK
<1>4. CASE /\ At(k, "look") /\ ~Supported(k)
           /\ Complete(mem)
           /\ UNCHANGED <<cloud, left, losses, blind>>
  BY <1>1, <1>2, <1>4, PlainConfirms
<1>5. CASE /\ At(k, "look") /\ Supported(k)
           /\ Look(k, cloud.ip)
           /\ UNCHANGED <<cloud, mem, losses>>
  BY <1>1, <1>2, <1>5, PlainLooks DEF At
<1>6. CASE /\ At(k, "act") /\ (run.found # 0 \/ mem.ip # 0)
           /\ Complete([mem EXCEPT !.ip = IF run.found # 0 THEN run.found ELSE mem.ip])
           /\ UNCHANGED <<cloud, left, losses, blind>>
  <2> DEFINE n == IF run.found # 0 THEN run.found ELSE mem[k]
  <2>1. n \in Ids \cup {0} /\ n # 0 /\ (n = mem[k] \/ n \in cloud[k])
    BY <1>2, <1>3, <1>6 DEF Seen, At
  <2>2. Complete([mem EXCEPT ![k] = n])
    BY <1>6
  <2> HIDE DEF n
  <2> QED  BY <1>1, <1>2, <1>3, <1>6, <2>1, <2>2, PlainTakes DEF TypeOK
<1>7. ASSUME At(k, "act"), run.found = 0 PROVE k \in LookedFor \ blind => cloud[k] = {}
  BY <1>2, <1>3, <1>7 DEF Seen, At
<1>8. ASSUME At(k, "act"), run.found = 0, UNCHANGED blind, New(k) # {},
             NEW a \in Answers, Create(k, a, First(New(k)))
      PROVE  IInv'
  <2>1. First(New(k)) \in Ids
    BY <1>2, <1>8, NewIsNew
  <2> QED  BY <1>1, <1>2, <1>3, <1>7, <1>8, <2>1, PlainCreates DEF InCloud, TypeOK
<1>9. ASSUME At(k, "act"), run.found = 0, UNCHANGED <<blind, mem>>, New(k) # {}, ~LastTry,
             NEW a \in Answers, Call(a),
             cloud' = IF a = "refused" THEN cloud
                      ELSE [cloud EXCEPT ![k] = @ \cup {First(New(k))}],
             run' = [run EXCEPT !.pc = "look", !.try = @ + 1]
      PROVE  IInv'
  <2>1. First(New(k)) \in Ids
    BY <1>2, <1>9, NewIsNew
  <2>2. losses' \in Nat /\ losses' >= losses
    BY <1>3, <1>9, Counts
  <2>3. cloud[k] \cup {First(New(k))} \in SUBSET Ids
    BY <1>2, <1>3, <2>1, Documents
  <2>4. /\ cloud' \in [Kinds -> SUBSET Ids] /\ \A j \in Kinds \ {k} : cloud'[j] = cloud[j]
        /\ cloud[k] \subseteq cloud'[k] /\ (cloud[k] = {} => Alone(cloud'[k]))
    <3>1. CASE a = "refused"
      BY <1>3, <1>9, <3>1, Documents DEF Alone
    <3>2. CASE a # "refused"
      <4>1. cloud' = [cloud EXCEPT ![k] = cloud[k] \cup {First(New(k))}]
        BY <1>9, <3>2
      <4> QED  BY <1>2, <1>3, <2>3, <4>1, Instances, Documents DEF Alone
    <3> QED  BY <3>1, <3>2
  <2>5. /\ run' \in Runs /\ run'.pc = "look" /\ Stays
        /\ run'.found = run.found /\ run'.fresh = run.fresh /\ run'.guest = run.guest
    <3>1. run.try + 1 \in 1 .. MaxTries
      <4>1. run.try \in 1 .. MaxTries /\ run.try # MaxTries
        BY <1>3, <1>9 DEF TypeOK, LastTry
      <4> QED  BY <4>1
    <3>2. [run EXCEPT !.pc = "look"] \in Runs
      BY <1>3 DEF Runs, Points
    <3> QED  BY <1>3, <1>9, <3>1 DEF Runs, Points, Stays
  <2>6. run.fresh = 0 /\ run.guest = 0
    BY <1>2, <1>3, <1>9 DEF Holding, At
  <2>7. PlainStep(k)
    BY <1>1, <1>2, <1>3, <1>9, <2>2, <2>4, <2>5, <2>6, Documents DEF PlainStep, Frame, TypeOK
  <2>8. PlainGood(k)
    BY <1>2, <1>7, <1>9, <2>4, <2>5 DEF PlainGood
  <2> QED  BY <1>2, <2>7, <2>8, PlainKeeps
<1> QED  BY <1>4, <1>5, <1>6, <1>8, <1>9 DEF CreatePublicIPs, Answers

\* The buckets.
LEMMA BucketsOK == ASSUME IInv, CreateBuckets PROVE IInv'
<1> DEFINE k == "bucket"
<1>1. Frame /\ UNCHANGED local
  <2>1. Keep
    BY DEF CreateBuckets
  <2> QED  BY <2>1, Frames
<1>2. k \in Plain /\ k \in Kinds /\ k = Current /\ run.pc \in {"look", "act"} /\ k \in LookedFor /\ k \notin Named
  BY DEF CreateBuckets, At, Current, Plain, Kinds, LookedFor, Named
<1>3. mem[k] \in Ids \cup {0} /\ run.found \in Ids \cup {0} /\ Seen /\ TypeOK
  BY <1>2, Documents DEF IInv, TypeOK
<1>4. CASE /\ At(k, "look") /\ ~Supported(k)
           /\ Complete(mem)
           /\ UNCHANGED <<cloud, left, losses, blind>>
  BY <1>1, <1>2, <1>4, PlainConfirms
<1>5. CASE /\ At(k, "look") /\ Supported(k)
           /\ Look(k, cloud.bucket)
           /\ UNCHANGED <<cloud, mem, losses>>
  BY <1>1, <1>2, <1>5, PlainLooks DEF At
<1>6. CASE /\ At(k, "act") /\ UNCHANGED blind
           /\ run.found # 0 /\ Complete(mem) /\ UNCHANGED <<cloud, left, losses>>
  <2>1. cloud[k] # {}
    BY <1>2, <1>3, <1>6 DEF Seen, At
  <2> QED  BY <1>1, <1>2, <1>6, <2>1, PlainConfirms
<1>7. CASE /\ At(k, "act") /\ run.found = 0 /\ UNCHANGED blind
           /\ Conflict(k)
  BY <1>1, <1>2, <1>7, PlainFails DEF Conflict
<1>8. ASSUME At(k, "act"), cloud[k] = {}, UNCHANGED blind, New(k) # {},
             NEW a \in Answers, Create(k, a, First(New(k)))
      PROVE  IInv'
  <2>1. First(New(k)) \in Ids
    BY <1>2, <1>8, NewIsNew
  <2> QED  BY <1>1, <1>2, <1>3, <1>8, <2>1, PlainCreates DEF InCloud, TypeOK
<1> QED  BY <1>4, <1>5, <1>6, <1>7, <1>8 DEF CreateBuckets

\* The security groups.
LEMMA GroupsOK == ASSUME IInv, CreateSecurityGroups PROVE IInv'
<1> DEFINE k == "sg"
<1>1. Frame /\ UNCHANGED local
  <2>1. Keep
    BY DEF CreateSecurityGroups
  <2> QED  BY <2>1, Frames
<1>2. k \in Plain /\ k \in Kinds /\ k = Current /\ run.pc \in {"look", "act"} /\ k \in LookedFor /\ k \in Named
  BY DEF CreateSecurityGroups, At, Current, Plain, Kinds, LookedFor, Named
<1>3. mem[k] \in Ids \cup {0} /\ run.found \in Ids \cup {0} /\ Seen /\ TypeOK /\ cloud[k] \subseteq Ids
  BY <1>2, Documents DEF IInv, TypeOK
<1>4. CASE /\ At(k, "look") /\ mem.sg \in cloud.sg
           /\ Complete(mem) /\ UNCHANGED <<cloud, left, losses, blind>>
  <2>1. mem[k] # 0
    BY <1>3, <1>4 DEF Ids
  <2> QED  BY <1>1, <1>2, <1>4, <2>1, PlainConfirms
<1>5. CASE /\ At(k, "look") /\ mem' = [mem EXCEPT !.sg = 0]
           /\ UNCHANGED <<cloud, run, losses, blind>>
  <2>1. run \in Runs /\ Holding /\ Single
    BY DEF IInv
  <2>2. /\ mem' \in [Kinds -> Ids \cup {0}] /\ mem'[k] = 0
        /\ \A j \in Kinds \ {k} : mem'[j] = mem[j]
    BY <1>2, <1>3, <1>5, Entry, Documents
  <2>3. run.pc = "look" /\ run.found = 0 /\ run.fresh = 0 /\ run.guest = 0
    BY <1>5, <2>1 DEF At, Holding, Between
  <2>4. PlainStep(k)
    BY <1>1, <1>2, <1>3, <1>5, <2>1, <2>2, <2>3, Documents DEF PlainStep, Frame, Stays, TypeOK
  <2>5. PlainGood(k)
    BY <1>2, <1>5, <2>1, <2>2, <2>3 DEF PlainGood, Single
  <2> QED  BY <1>2, <2>4, <2>5, PlainKeeps
<1>6. CASE /\ At(k, "look") /\ mem.sg = 0
           /\ Look(k, cloud.sg) /\ UNCHANGED <<cloud, mem, losses>>
  BY <1>1, <1>2, <1>6, PlainLooks DEF At
<1>7. CASE /\ At(k, "act") /\ (run.found # 0 \/ cloud.sg # {})
           /\ Complete([mem EXCEPT !.sg = First(cloud.sg)])
           /\ UNCHANGED <<cloud, left, losses, blind>>
  <2>1. cloud[k] # {}
    BY <1>2, <1>3, <1>7 DEF Seen, At
  <2>2. First(cloud[k]) \in cloud[k] /\ First(cloud[k]) \in Ids /\ First(cloud[k]) # 0
    BY <1>3, <2>1, FirstIsIn
  <2> QED  BY <1>1, <1>2, <1>3, <1>7, <2>2, PlainTakes DEF TypeOK
<1>8. ASSUME At(k, "act"), cloud[k] = {}, UNCHANGED blind, New(k) # {},
             NEW a \in Answers, Create(k, a, First(New(k)))
      PROVE  IInv'
  <2>1. First(New(k)) \in Ids
    BY <1>2, <1>8, NewIsNew
  <2> QED  BY <1>1, <1>2, <1>3, <1>8, <2>1, PlainCreates DEF InCloud, TypeOK
<1> QED  BY <1>4, <1>5, <1>6, <1>7, <1>8 DEF CreateSecurityGroups

\* A pair that cannot be used is deleted, and its entry dropped.
LEMMA PairDropped ==
  ASSUME IInv, Current = "keypair", run.pc \in {"look", "act"}, Frame,
         run' = To("act") \/ (run' = run /\ run.pc = "act"),
         mem' = mem \/ mem' = [mem EXCEPT !.keypair = 0],
         cloud' = cloud \/ cloud' = [cloud EXCEPT !.keypair = {}],
         UNCHANGED <<local, losses, blind>>
  PROVE  IInv'
<1> DEFINE k == "keypair"
<1>1. /\ run \in Runs /\ TypeOK /\ Single /\ Holding
      /\ k \in Kinds /\ k \in Plain /\ k \in LookedFor /\ k \notin Named
  BY DEF IInv, Kinds, Plain, LookedFor, Named
<1>2. run.fresh = 0 /\ run.guest = 0
  BY <1>1 DEF Holding, Between
<1>3. run' \in Runs /\ run'.pc = "act" /\ Stays /\ run'.fresh = 0 /\ run'.guest = 0
  <2>1. "act" \in Points
    BY DEF Points
  <2> QED  BY <1>1, <1>2, <2>1, RunTo DEF Stays
<1>4. /\ mem' \in [Kinds -> Ids \cup {0}] /\ mem'[k] \in {0, mem[k]}
      /\ \A j \in Kinds \ {k} : mem'[j] = mem[j]
  BY <1>1, Documents, Entry
<1>5. /\ cloud' \in [Kinds -> SUBSET Ids] /\ cloud'[k] \in {{}, cloud[k]}
      /\ \A j \in Kinds \ {k} : cloud'[j] = cloud[j]
  BY <1>1, Documents, Instances
<1>6. PlainStep(k)
  BY <1>1, <1>3, <1>4, <1>5 DEF PlainStep, Frame, TypeOK
<1>7. PlainGood(k)
  BY <1>1, <1>3, <1>4, <1>5 DEF PlainGood, Single, Alone
<1> QED  BY <1>1, <1>6, <1>7, PlainKeeps

\* A recorded pair is used if there is a key file; otherwise another is made.
\* a new pair.
LEMMA VerifyKeyOK == ASSUME IInv, VerifyExistingKeypair PROVE IInv'
<1> DEFINE k == "keypair"
<1>1. Frame /\ UNCHANGED <<local, losses, blind>>
  <2>1. KeyKeep /\ UNCHANGED <<local, losses>>
    BY DEF VerifyExistingKeypair
  <2> QED  BY <2>1, Frames
<1>2. k \in Plain /\ k = Current /\ run.pc = "look"
  <2>1. At(k, "look")
    BY DEF VerifyExistingKeypair
  <2> QED  BY <2>1 DEF At, Current, Plain
<1>3. CASE mem.keypair # 0 /\ (InCloud(k) => cloud.keypair # {}) /\ Complete(mem) /\ UNCHANGED <<cloud, left>>
  BY <1>1, <1>2, <1>3, PlainConfirms
<1>4. CASE FailStep(mem) /\ UNCHANGED cloud
  BY <1>1, <1>2, <1>4, PlainFails
<1>5. CASE /\ run' = To("act")
           /\ mem' = mem \/ mem' = [mem EXCEPT !.keypair = 0]
           /\ cloud' = cloud \/ cloud' = [cloud EXCEPT !.keypair = {}]
  BY <1>1, <1>2, <1>5, PairDropped
<1> QED  BY <1>3, <1>4, <1>5 DEF VerifyExistingKeypair

\* A new key is an id.
LEMMA NewKeyIsId == ASSUME NewKeys # {} PROVE First(NewKeys) \in Ids /\ First(NewKeys) # 0
BY FirstIsIn DEF NewKeys

\* A pair is made by the provider, which knows its name already or not.
LEMMA NewPairOK == ASSUME IInv, CreateStandardKeyPair PROVE IInv'
<1> DEFINE k == "keypair"
<1>1. Frame /\ UNCHANGED blind
  <2>1. KeyKeep
    BY DEF CreateStandardKeyPair
  <2> QED  BY <2>1, Frames
<1>2. k \in Plain /\ k = Current /\ run.pc = "act" /\ InCloud(k) /\ cloud[k] = {} /\ NewKeys # {}
  <2>1. At(k, "act") /\ InCloud(k) /\ cloud[k] = {} /\ NewKeys # {}
    BY DEF CreateStandardKeyPair
  <2> QED  BY <2>1 DEF At, Current, Plain
<1>3. PICK a \in Answers :
        /\ Create(k, a, First(NewKeys))
        /\ local' = IF a = "ok" THEN First(NewKeys) ELSE local
  BY DEF CreateStandardKeyPair
<1>4. First(NewKeys) \in Ids /\ local' \in Ids \cup {0}
  <2>1. local \in Ids \cup {0}
    BY DEF IInv, TypeOK
  <2> QED  BY <1>2, <1>3, <2>1, NewKeyIsId
<1> QED  BY <1>1, <1>2, <1>3, <1>4, PlainCreates

\* A name that is taken: the pair is recorded if there is a key file, or deleted.
LEMMA DuplicateKeyOK == ASSUME IInv, HandleDuplicateKeyPair PROVE IInv'
<1> DEFINE k == "keypair"
<1>1. Frame /\ UNCHANGED <<local, losses, blind>>
  <2>1. KeyKeep /\ UNCHANGED <<local, losses>>
    BY DEF HandleDuplicateKeyPair
  <2> QED  BY <2>1, Frames
<1>2. k \in Plain /\ k = Current /\ run.pc = "act" /\ InCloud(k) /\ cloud[k] # {} /\ k \notin Named
  <2>1. At(k, "act") /\ InCloud(k) /\ cloud[k] # {}
    BY DEF HandleDuplicateKeyPair
  <2> QED  BY <2>1 DEF At, Current, Plain, Named
<1>3. CASE FailStep(mem) /\ UNCHANGED cloud
  BY <1>1, <1>2, <1>3, PlainFails
<1>4. CASE Complete([mem EXCEPT !.keypair = First(cloud.keypair)]) /\ UNCHANGED cloud
  <2>1. cloud[k] \subseteq Ids /\ local \in Ids \cup {0}
    BY Documents DEF IInv, Kinds, TypeOK
  <2>2. First(cloud[k]) \in cloud[k] /\ First(cloud[k]) \in Ids \cup {0} /\ First(cloud[k]) # 0
    BY <1>2, <2>1, FirstIsIn
  <2> QED  BY <1>1, <1>2, <1>4, <2>1, <2>2, PlainTakes
<1>5. CASE cloud' = [cloud EXCEPT !.keypair = {}] /\ UNCHANGED <<mem, run>>
  BY <1>1, <1>2, <1>5, PairDropped
<1> QED  BY <1>3, <1>4, <1>5 DEF HandleDuplicateKeyPair

\* On Proxmox the pair is made here, and is the file.
LEMMA LocalKeyOK == ASSUME IInv, CreateLocalKeyPair PROVE IInv'
<1> DEFINE k == "keypair"
           n == LocalPair
<1>1. Frame /\ UNCHANGED <<cloud, losses, blind>>
  <2>1. KeyKeep /\ UNCHANGED <<cloud, losses>>
    BY DEF CreateLocalKeyPair
  <2> QED  BY <2>1, Frames
<1>2. /\ k \in Plain /\ k = Current /\ run.pc = "act" /\ ~InCloud(k) /\ k \notin Named
      /\ local' = n /\ Complete([mem EXCEPT ![k] = n]) /\ (local # 0 \/ NewKeys # {})
  <2>1. /\ At(k, "act") /\ ~InCloud(k) /\ local' = n /\ Complete([mem EXCEPT ![k] = n])
        /\ local # 0 \/ NewKeys # {}
    BY DEF CreateLocalKeyPair
  <2> QED  BY <2>1 DEF At, Current, Plain, Named
<1>3. n \in Ids /\ n # 0 /\ (n = local \/ local = 0)
  <2>1. local \in Ids \cup {0}
    BY DEF IInv, TypeOK
  <2> QED  BY <1>2, <2>1, NewKeyIsId DEF LocalPair
<1> HIDE DEF n
<1> QED  BY <1>1, <1>2, <1>3, PlainTakes

-----------------------------------------------------------------------------
(* The bastion. *)

\* What was done before a step.
LEMMA KeyBefore ==
  ASSUME IInv, Current = "bastion", run.pc \notin {"idle", "failed", "rollback"}
  PROVE  mem.keypair # 0 /\ (InCloud("keypair") => cloud.keypair # {})
<1>1. PICK t \in 1 .. 9 : t < run.step /\ Selected(run.mode)[t] = "keypair"
  BY InStep, Table DEF Current
<1>2. Has("keypair")
  BY <1>1 DEF IInv, Past
<1> QED  BY <1>2 DEF Has, Supported

\* The disk's step finds the bastion recorded.
LEMMA BastionBefore ==
  ASSUME IInv, Current = "disk", run.pc \notin {"idle", "failed", "rollback"}
  PROVE  mem.bastion # 0
<1>1. PICK t \in 1 .. 9 : t < run.step /\ Selected(run.mode)[t] = "bastion"
  BY InStep, Table DEF Current
<1>2. Has("bastion")
  BY <1>1 DEF IInv, Past
<1> QED  BY <1>2 DEF Has, Supported

\* Only bastions are added, and the entry of one; the document may be saved.
BastionStep ==
  /\ UNCHANGED <<provider, host, owner, local, used, misled, keyLost>>
  /\ run' \in Runs /\ Stays /\ run'.pc \in {"act", "finish", "save", "failed"}
  /\ run'.fresh = 0 /\ (run'.pc # "finish" => run'.guest = 0)
  /\ run'.pc \notin {"act", "finish"} => run'.found = 0
  /\ cloud' \in [Kinds -> SUBSET Ids] /\ mem' \in [Kinds -> Ids \cup {0}] /\ file' \in {file, mem'}
  /\ \A j \in Kinds \ {"bastion"} : cloud'[j] = cloud[j] /\ mem'[j] = mem[j]
  /\ cloud["bastion"] \subseteq cloud'["bastion"] /\ half' \subseteq cloud'["bastion"]
  /\ born' \in [Ids -> Ids \cup {0}]
  /\ blind \subseteq blind' /\ blind' \subseteq Kinds
  /\ losses' \in Nat /\ losses' >= losses

\* There is one that is tagged, the entries are of tagged ones, and what is
\* found is one; the key file opens all of them.
BastionGood ==
  /\ mem'["bastion"] \in cloud'["bastion"] \cup {mem["bastion"]}
  /\ run'.pc = "act" /\ run'.found # 0 => run'.found \in Tagged'
  /\ run'.pc = "act" /\ "bastion" \notin blind' /\ run'.found = 0 => Tagged' = {}
  /\ run'.pc = "finish" => run'.guest \in half'
  /\ "bastion" \notin blind' => Alone(Tagged') /\ (run'.pc = "finish" => Tagged' = {})
  /\ half' \cap {file'["bastion"], mem'["bastion"]} = {}
  /\ run'.pc = "save" => mem'["bastion"] # 0
  /\ ~InCloud("keypair") /\ ~keyLost =>
       \A n \in (cloud'["bastion"] \cup {file'["bastion"], mem'["bastion"]}) \ {0} :
          born'[n] = local /\ local # 0

\* A step of the bastion that does these two keeps the invariant.
LEMMA BastionKeeps ==
  ASSUME IInv, Current = "bastion", run.pc \in {"look", "act", "finish"}, BastionStep, BastionGood
  PROVE  IInv'
<1> DEFINE k == "bastion"
<1>1. /\ k \in Kinds /\ k \notin Disks /\ k \notin Parts
      /\ \A d \in Disks : /\ cloud'[d] = cloud[d] /\ cloud[GuestOf[d]] \subseteq cloud'[GuestOf[d]]
                          /\ mem'[d] = mem[d]
      /\ \A d \in Parts : cloud'[d] = cloud[d] /\ mem'[d] = mem[d]
      /\ file'["keypair"] \in {file["keypair"], mem["keypair"]} /\ mem'["keypair"] = mem["keypair"]
  BY DEF Kinds, Disks, GuestOf, Parts, BastionStep
<1>2. Current' = k
  BY SameStep DEF BastionStep
<1>3. TypeOK' /\ run' \in Runs
  <2>1. run'.step \in DOMAIN Selected(run'.mode) /\ run'.try \in 1 .. MaxTries
    BY DEF BastionStep, Stays, IInv, TypeOK, Runs
  <2>2. {run'.found, run'.fresh, run'.guest} \subseteq Ids \cup {0}
    BY DEF BastionStep, Runs
  <2>3. \A d \in Disks, n \in Ids :
          host'[d][n] # 0 => n \in cloud'[d] /\ host'[d][n] \in cloud'[GuestOf[d]]
    BY <1>1 DEF BastionStep, IInv, TypeOK
  <2>4. file' \in [Kinds -> Ids \cup {0}]
    BY Documents DEF BastionStep, IInv
  <2> QED  BY <2>1, <2>2, <2>3, <2>4 DEF BastionStep, IInv, TypeOK
<1>4. Holding'
  <2>1. /\ run'.pc \in {"act", "finish", "save", "failed"} /\ run'.fresh = 0
        /\ run'.pc # "finish" => run'.guest = 0
        /\ run'.pc \notin {"act", "finish"} => run'.found = 0
        /\ run'.pc = "finish" => run'.guest \in half'
    BY DEF BastionStep, BastionGood
  <2> QED  BY <1>2, <2>1 DEF Holding, Between
<1>5. Seen'
  BY <1>2 DEF BastionGood, Seen
<1>6. Single'
  <2>1. \A j \in LookedFor \ (blind' \cup {k}) : Alone(cloud'[j])
    BY DEF BastionStep, IInv, Single, LookedFor, Kinds
  <2> QED  BY <2>1 DEF BastionGood, Single
<1>7. Counted'
  <2>1. \A j \in Parts : Free(j) = {} /\ Free(j)' = {}
    BY <1>1, <1>2 DEF Free, Hand, Parts, BastionStep
  <2>2. \A j \in Parts : cloud'[j] \ ({mem'[j]} \cup Free(j)') = Loose(j)
    BY <1>1, <2>1 DEF Loose
  <2>3. \A j \in Parts : mem'[j] = file'[j]
    BY <1>1 DEF BastionStep, IInv, Counted
  <2> QED  BY <2>2, <2>3, CountedKept DEF BastionStep
<1>8. Blamed'
  BY <1>1, <1>2 DEF Blamed
<1>9. Truth'
  <2>1. \A j \in Named : InCloud(j)' = InCloud(j)
    BY DEF InCloud, BastionStep
  <2> SUFFICES ASSUME ~misled
               PROVE  True(mem)' /\ True(file)'
    BY DEF Truth, BastionStep
  <2>2. True(mem) /\ True(file)
    BY DEF IInv, Truth
  <2>3. \A j \in Named : InCloud(j) => mem'[j] \in cloud'[j] \cup {0} /\ file'[j] \in cloud'[j] \cup {0}
    BY <2>2 DEF True, BastionStep, BastionGood, Named, Kinds
  <2>4. mem'.artifacts = mem.artifacts /\ mem'.store = mem.store
    BY <1>1 DEF Parts
  <2> QED  BY <2>1, <2>2, <2>3, <2>4 DEF True, BastionStep
<1>10. Past'
  <2>1. run'.pc = "save" => Has(k)'
    BY DEF BastionGood, Has
  <2>2. Stays /\ UNCHANGED provider /\ host' = host
    BY DEF BastionStep
  <2>3. \A j \in Kinds \ {k} : cloud'[j] = cloud[j] /\ mem'[j] = mem[j]
    BY DEF BastionStep
  <2> QED  BY <1>1, <2>1, <2>2, <2>3, PastKept DEF Kinds
<1>11. Keyed'
  <2> SUFFICES ASSUME ~InCloud("keypair"), ~keyLost
               PROVE  /\ {file'.keypair, mem'.keypair} \subseteq {0, local'}
                      /\ \A n \in (cloud'.bastion \cup {file'.bastion, mem'.bastion}) \ {0} :
                            born'[n] = local' /\ local' # 0
    BY DEF Keyed, InCloud, BastionStep
  <2>1. {file.keypair, mem.keypair} \subseteq {0, local}
    BY DEF IInv, Keyed
  <2> QED  BY <1>1, <2>1 DEF BastionStep, BastionGood
<1>12. run'.pc # "idle"
  BY DEF BastionStep
<1> QED  BY <1>3, <1>4, <1>5, <1>6, <1>7, <1>8, <1>9, <1>10, <1>11, <1>12 DEF IInv

\* What the four actions leave alone, and what holds before them.
LEMMA BastionBefores ==
  ASSUME IInv, Current = "bastion", run.pc \in {"look", "act", "finish"}
  PROVE  /\ TypeOK /\ run \in Runs /\ run.fresh = 0 /\ (run.pc # "finish" => run.guest = 0)
         /\ run.pc = "look" => run.found = 0
         /\ cloud \in [Kinds -> SUBSET Ids] /\ mem \in [Kinds -> Ids \cup {0}]
         /\ file \in [Kinds -> Ids \cup {0}] /\ losses \in Nat
         /\ half \subseteq cloud["bastion"] /\ born \in [Ids -> Ids \cup {0}] /\ blind \subseteq Kinds
         /\ half \cap {file["bastion"], mem["bastion"]} = {}
         /\ "bastion" \notin blind => Alone(Tagged)
         /\ Tagged \subseteq Ids /\ Tagged \subseteq cloud["bastion"]
         /\ ~InCloud("keypair") /\ ~keyLost =>
              /\ mem["keypair"] = local /\ local # 0
              /\ \A n \in (cloud["bastion"] \cup {file["bastion"], mem["bastion"]}) \ {0} : born[n] = local
<1>1. TypeOK /\ run \in Runs /\ Holding /\ Single /\ Keyed
  BY DEF IInv
<1>2. run.fresh = 0 /\ (run.pc # "finish" => run.guest = 0) /\ (run.pc = "look" => run.found = 0)
  BY <1>1 DEF Holding, Between
<1>3. mem["keypair"] # 0
  BY KeyBefore
<1>4. half \subseteq cloud["bastion"] /\ born \in [Ids -> Ids \cup {0}] /\ blind \subseteq Kinds
  BY <1>1 DEF TypeOK
<1>5. Tagged \subseteq cloud["bastion"] /\ cloud["bastion"] \subseteq Ids
  BY <1>1, Documents DEF Tagged, Kinds
<1>6. ~InCloud("keypair") /\ ~keyLost =>
        /\ mem["keypair"] = local /\ local # 0
        /\ \A n \in (cloud["bastion"] \cup {file["bastion"], mem["bastion"]}) \ {0} : born[n] = local
  BY <1>1, <1>3 DEF Keyed
<1>7. half \cap {file["bastion"], mem["bastion"]} = {} /\ ("bastion" \notin blind => Alone(Tagged))
  BY <1>1 DEF Single
<1> QED  BY <1>1, <1>2, <1>4, <1>5, <1>6, <1>7, Documents

\* A guest gives up, or keeps its entry.
LEMMA BastionRests ==
  ASSUME IInv, Current = "bastion", run.pc \in {"look", "act"}, GuestKeep,
         UNCHANGED <<cloud, half, host, owner, born, file, losses, blind, keyLost>>,
         FailStep(mem) \/ (Complete(mem) /\ mem["bastion"] # 0)
  PROVE  IInv'
<1>1. /\ run' \in Runs /\ run'.pc \in {"save", "failed"} /\ Stays /\ mem' = mem
      /\ run'.found = 0 /\ run'.fresh = 0 /\ run'.guest = 0
      /\ run'.pc = "save" => mem["bastion"] # 0
  BY BastionBefores, RunClean DEF FailStep, Complete, Points, Stays
<1>2. BastionStep
  BY <1>1, BastionBefores DEF BastionStep, GuestKeep
<1>3. BastionGood
  <2>1. Tagged' = Tagged
    BY DEF Tagged
  <2> QED  BY <1>1, <2>1, BastionBefores DEF BastionGood
<1> QED  BY <1>2, <1>3, BastionKeeps

\* The bastion is looked for by its tags.
LEMMA BastionExistsOK == ASSUME IInv, BastionAlreadyExists PROVE IInv'
<1>1. /\ GuestKeep /\ UNCHANGED <<half, host, owner, born, losses, keyLost>>
      /\ Current = "bastion" /\ run.pc = "look"
  BY DEF BastionAlreadyExists, At, Current
<1>2. CASE mem.bastion # 0 /\ Complete(mem) /\ UNCHANGED <<cloud, file, left, blind>>
  BY <1>1, <1>2, BastionRests
<1>3. CASE mem.bastion = 0 /\ Look("bastion", Tagged) /\ UNCHANGED <<cloud, file, mem>>
  <2>1. /\ run' \in Runs /\ Stays /\ run'.pc = "act" /\ run'.fresh = run.fresh /\ run'.guest = run.guest
        /\ blind \subseteq blind' /\ blind' \subseteq Kinds
        /\ run'.found # 0 => run'.found \in Tagged
        /\ "bastion" \notin blind' /\ run'.found = 0 => Tagged = {}
    BY <1>1, <1>3, BastionBefores, LookIs DEF Kinds
  <2>2. BastionStep
    BY <1>1, <1>3, <2>1, BastionBefores DEF BastionStep, GuestKeep
  <2>3. BastionGood
    <3>1. Tagged' = Tagged
      BY <1>1, <1>3 DEF Tagged
    <3> QED  BY <1>1, <1>3, <2>1, <3>1, BastionBefores DEF BastionGood
  <2> QED  BY <1>1, <2>2, <2>3, BastionKeeps
<1> QED  BY <1>2, <1>3 DEF BastionAlreadyExists

\* One that was found is recorded.
LEMMA BastionImportedOK == ASSUME IInv, ImportBastionToState PROVE IInv'
<1> DEFINE doc == [mem EXCEPT !.bastion = run.found]
<1>1. /\ GuestKeep /\ UNCHANGED <<cloud, half, host, owner, born, losses, blind, keyLost>>
      /\ Current = "bastion" /\ run.pc = "act" /\ run.found # 0
      /\ file' = file \/ file' = doc
      /\ Complete(doc)
  BY DEF ImportBastionToState, At, Current
<1>2. run.found \in Tagged /\ run.found \in Ids /\ run.found \in cloud["bastion"] /\ run.found \notin half
  <2>1. run.found \in Tagged
    BY <1>1 DEF IInv, Seen
  <2> QED  BY <1>1, <2>1, BastionBefores DEF Tagged
<1>3. /\ doc \in [Kinds -> Ids \cup {0}] /\ doc["bastion"] = run.found
      /\ \A j \in Kinds \ {"bastion"} : doc[j] = mem[j]
  BY <1>1, <1>2, BastionBefores, Entry DEF Kinds
<1> HIDE DEF doc
<1>4. /\ run' \in Runs /\ run'.pc = "save" /\ Stays /\ mem' = doc
      /\ run'.found = 0 /\ run'.fresh = 0 /\ run'.guest = 0
  BY <1>1, BastionBefores, RunClean DEF Complete, Points, Stays
<1>5. BastionStep
  BY <1>1, <1>3, <1>4, BastionBefores DEF BastionStep, GuestKeep
<1>6. BastionGood
  <2>1. Tagged' = Tagged
    BY <1>1 DEF Tagged
  <2> QED  BY <1>1, <1>2, <1>3, <1>4, <2>1, BastionBefores DEF BastionGood
<1> QED  BY <1>1, <1>5, <1>6, BastionKeeps

\* The key a guest is created with is recorded, or with the provider.
LEMMA InjectedIs ==
  ASSUME IInv, Current = "bastion", run.pc \in {"look", "act", "finish"}
  PROVE  Injected \in Ids \cup {0} /\ (~InCloud("keypair") => Injected = mem["keypair"])
<1>1. InCloud("keypair") => cloud["keypair"] # {}
  BY KeyBefore
<1>2. cloud["keypair"] \subseteq Ids /\ mem["keypair"] \in Ids \cup {0}
  BY BastionBefores DEF Kinds
<1> QED  BY <1>1, <1>2, FirstIsIn DEF Injected

\* None was: one is cloned.
LEMMA BastionCreatedOK == ASSUME IInv, CreateBastionInstance PROVE IInv'
<1> DEFINE k == "bastion"
           n == First(New(k))
<1>1. /\ GuestKeep /\ UNCHANGED <<file, host, owner, blind, keyLost>>
      /\ Current = k /\ run.pc = "act" /\ run.found = 0 /\ k \in Kinds
  BY DEF CreateBastionInstance, At, Current, Kinds
<1>2. CASE ~Placed
  BY <1>1, <1>2, BastionRests DEF CreateBastionInstance
<1>3. CASE Placed
  <2>1. New(k) # {} /\ born' = [born EXCEPT ![n] = Injected]
    BY <1>3 DEF CreateBastionInstance
  <2>2. n \in Ids /\ n # 0 /\ n \notin cloud[k] /\ n # file[k] /\ n # mem[k]
    BY <1>1, <2>1, NewIsNew
  <2>3. "bastion" \notin blind => Tagged = {}
    BY <1>1 DEF IInv, Seen
  <2>4. /\ born' \in [Ids -> Ids \cup {0}] /\ born'[n] = Injected
        /\ \A m \in Ids \ {n} : born'[m] = born[m]
    BY <1>1, <2>1, <2>2, BastionBefores, InjectedIs
  <2>5. n \notin half /\ cloud[k] \cup {n} \in SUBSET Ids
    BY <1>1, <2>2, BastionBefores
  <2>6. ~InCloud("keypair") /\ ~keyLost =>
          \A m \in (cloud[k] \cup {n, file[k], mem[k]}) \ {0} : born'[m] = local /\ local # 0
    <3> SUFFICES ASSUME ~InCloud("keypair"), ~keyLost, NEW m \in (cloud[k] \cup {n, file[k], mem[k]}) \ {0}
                 PROVE  born'[m] = local /\ local # 0
      OBVIOUS
    <3>1. mem["keypair"] = local /\ local # 0
      BY <1>1, BastionBefores
    <3>2. CASE m = n
      BY <1>1, <2>4, <3>1, <3>2, InjectedIs
    <3>3. CASE m # n
      BY <1>1, <2>4, <3>1, <3>3, BastionBefores
    <3> QED  BY <3>2, <3>3
  <2>7. ASSUME provider = "aws", UNCHANGED half, NEW a \in Answers, Create(k, a, n)
        PROVE  IInv'
    <3>1. /\ losses' \in Nat /\ losses' >= losses
          /\ cloud' \in [Kinds -> SUBSET Ids] /\ \A j \in Kinds \ {k} : cloud'[j] = cloud[j]
          /\ cloud'[k] \in {cloud[k], cloud[k] \cup {n}}
          /\ mem' \in [Kinds -> Ids \cup {0}] /\ \A j \in Kinds \ {k} : mem'[j] = mem[j]
          /\ \/ run' = Clean("save") /\ mem'[k] = n /\ cloud'[k] = cloud[k] \cup {n}
             \/ run' = Clean("failed") /\ mem'[k] = mem[k]
      BY <1>1, <2>2, <2>7, BastionBefores, CreateIs
    <3>2. /\ run' \in Runs /\ run'.pc \in {"save", "failed"} /\ Stays
          /\ run'.fresh = 0 /\ run'.guest = 0 /\ run'.found = 0
          /\ run'.pc = "save" => mem'[k] = n /\ cloud'[k] = cloud[k] \cup {n}
          /\ run'.pc = "failed" => mem'[k] = mem[k]
      BY <1>1, <3>1, BastionBefores, RunClean DEF Stays, Points
    <3>3. BastionStep
      BY <1>1, <2>4, <2>7, <3>1, <3>2, BastionBefores DEF BastionStep, GuestKeep
    <3>4. "bastion" \notin blind => Alone(Tagged')
      BY <2>3, <2>7, <3>1 DEF Tagged, Alone
    <3>5. BastionGood
      BY <1>1, <2>2, <2>5, <2>6, <2>7, <3>1, <3>2, <3>4, BastionBefores DEF BastionGood
    <3> QED  BY <1>1, <3>3, <3>5, BastionKeeps
  <2>8. ASSUME NEW a \in Answers, Call(a),
               cloud' = IF a = "refused" THEN cloud ELSE [cloud EXCEPT ![k] = @ \cup {n}],
               half' = IF a = "refused" THEN half ELSE half \cup {n},
               IF a = "ok" THEN run' = [run EXCEPT !.pc = "finish", !.guest = n] /\ UNCHANGED mem
               ELSE FailStep(mem)
        PROVE  IInv'
    <3>1. losses' \in Nat /\ losses' >= losses /\ mem' = mem
      BY <1>1, <2>8, BastionBefores, Counts DEF FailStep
    <3>2. /\ cloud' \in [Kinds -> SUBSET Ids] /\ \A j \in Kinds \ {k} : cloud'[j] = cloud[j]
          /\ \/ cloud'[k] = cloud[k] /\ half' = half /\ a # "ok"
             \/ cloud'[k] = cloud[k] \cup {n} /\ half' = half \cup {n}
      BY <1>1, <2>5, <2>8, BastionBefores, Instances
    <3>3. /\ run' \in Runs /\ run'.pc \in {"finish", "failed"} /\ Stays /\ run'.fresh = 0 /\ run'.found = 0
          /\ run'.pc = "finish" => run'.guest = n /\ n \in half'
          /\ run'.pc = "failed" => run'.guest = 0
      <4>1. CASE a = "ok"
        <5>1. run' = Cloning("finish", n) /\ "finish" \in Points
          BY <2>8, <4>1 DEF Cloning, Points
        <5> QED  BY <1>1, <2>2, <3>2, <4>1, <5>1, BastionBefores, RunWith DEF Stays
      <4>2. CASE a # "ok"
        BY <1>1, <2>8, <4>2, BastionBefores, RunClean DEF FailStep, Stays, Points
      <4> QED  BY <4>1, <4>2
    <3>4. Tagged' = Tagged
      BY <2>5, <2>2, <3>2 DEF Tagged
    <3>5. BastionStep
      BY <1>1, <2>4, <3>1, <3>2, <3>3, BastionBefores DEF BastionStep, GuestKeep
    <3>6. BastionGood
      BY <1>1, <2>2, <2>3, <2>6, <3>1, <3>2, <3>3, <3>4, BastionBefores DEF BastionGood
    <3> QED  BY <1>1, <3>5, <3>6, BastionKeeps
  <2> QED  BY <1>3, <2>7, <2>8 DEF CreateBastionInstance
<1> QED  BY <1>2, <1>3

\* The clone is tagged and started; a call that fails leaves it tagged or not.
LEMMA BastionFinishedOK == ASSUME IInv, FinalizeAndStartVM PROVE IInv'
<1> DEFINE n == run.guest
<1>1. /\ GuestKeep /\ UNCHANGED <<cloud, file, host, owner, born, blind, keyLost>>
      /\ Current = "bastion" /\ run.pc = "finish" /\ half' \in {half, half \ {n}}
  BY DEF FinalizeAndStartVM, At, Current
<1>2. n \in half /\ n \in cloud["bastion"] /\ n \in Ids /\ n # 0 /\ ("bastion" \notin blind => Tagged = {})
  <2>1. n \in half /\ ("bastion" \notin blind => Tagged = {})
    BY <1>1 DEF IInv, Holding, Single
  <2>2. half \subseteq cloud["bastion"] /\ cloud \in [Kinds -> SUBSET Ids]
    BY <1>1, BastionBefores
  <2>3. n \in cloud["bastion"] /\ n \in Ids
    BY <2>1, <2>2 DEF Kinds
  <2>4. n # 0
    BY <2>3 DEF Ids
  <2> QED  BY <2>1, <2>3, <2>4
<1>3. "bastion" \notin blind => Alone(Tagged')
  BY <1>1, <1>2 DEF Tagged, Alone
<1>4. CASE half' = half \ {n} /\ Complete([mem EXCEPT !.bastion = n]) /\ UNCHANGED <<left, losses>>
  <2> HIDE DEF n
  <2>1. /\ mem' \in [Kinds -> Ids \cup {0}] /\ mem'["bastion"] = n
        /\ \A j \in Kinds \ {"bastion"} : mem'[j] = mem[j]
    BY <1>1, <1>2, <1>4, BastionBefores, Entry DEF Complete, Kinds
  <2>2. /\ run' \in Runs /\ run'.pc = "save" /\ Stays
        /\ run'.found = 0 /\ run'.fresh = 0 /\ run'.guest = 0
    BY <1>1, <1>4, BastionBefores, RunClean DEF Complete, Points, Stays
  <2>3. BastionStep
    BY <1>1, <1>4, <2>1, <2>2, BastionBefores DEF BastionStep, GuestKeep
  <2>4. BastionGood
    BY <1>1, <1>2, <1>3, <1>4, <2>1, <2>2, BastionBefores DEF BastionGood
  <2> QED  BY <1>1, <2>3, <2>4, BastionKeeps
<1>5. CASE Call("lost") /\ FailStep(mem)
  <2>1. losses' \in Nat /\ losses' >= losses /\ mem' = mem
    BY <1>1, <1>5, BastionBefores, Counts DEF FailStep
  <2>2. /\ run' \in Runs /\ run'.pc = "failed" /\ Stays
        /\ run'.found = 0 /\ run'.fresh = 0 /\ run'.guest = 0
    BY <1>1, <1>5, BastionBefores, RunClean DEF FailStep, Points, Stays
  <2>3. BastionStep
    BY <1>1, <2>1, <2>2, BastionBefores DEF BastionStep, GuestKeep
  <2>4. BastionGood
    BY <1>1, <1>2, <1>3, <2>1, <2>2, BastionBefores DEF BastionGood
  <2> QED  BY <1>1, <2>3, <2>4, BastionKeeps
<1> QED  BY <1>1, <1>4, <1>5 DEF FinalizeAndStartVM

-----------------------------------------------------------------------------
(* The bastion's data disk. *)

\* Only the disks of the bastion change, their hosts, owners and entry.
DiskStep ==
  /\ UNCHANGED <<provider, half, file, local, born, used, misled, keyLost>>
  /\ run' \in Runs /\ Stays /\ run'.pc \in {"act", "attach", "tidy", "save", "failed"}
  /\ run'.pc \in {"act", "save", "failed"} => run'.guest = 0
  /\ cloud' \in [Kinds -> SUBSET Ids] /\ mem' \in [Kinds -> Ids \cup {0}]
  /\ \A j \in Kinds \ {"disk"} : cloud'[j] = cloud[j] /\ mem'[j] = mem[j]
  /\ host' \in [Disks -> [Ids -> Ids \cup {0}]] /\ host'["store"] = host["store"]
  /\ owner' \in [Disks -> [Ids -> Ids \cup {0}]]
  /\ blind \subseteq blind' /\ blind' \subseteq Kinds
  /\ losses' \in Nat /\ losses' >= losses

\* What of it is attached is there; the run knows what it holds; and an accident
\* accounts for a disk that neither the run nor an entry knows of.
DiskGood ==
  /\ \A n \in Ids : host'["disk"][n] # 0 =>
        n \in cloud'["disk"] /\ host'["disk"][n] \in cloud["bastion"]
  /\ run'.pc \in {"save", "failed"} => run'.found = 0 /\ run'.fresh = 0
  /\ run'.pc = "act" => run'.fresh = 0
  /\ run'.pc \in {"attach", "tidy"} => run'.fresh \in {0, run'.found} /\ run'.found # 0
  /\ run'.pc = "tidy" => run'.fresh # 0
  /\ run'.pc \in {"act", "attach", "tidy"} =>
       /\ mem'["disk"] = mem["disk"] /\ mem'["disk"] \in {0, run'.found}
       /\ run'.fresh # 0 \/ run'.pc = "act" => mem'["disk"] = 0
  /\ run'.pc = "attach" /\ run'.fresh # 0 => host'["disk"][run'.fresh] = 0
  /\ run'.pc = "save" /\ Supported("disk") =>
       mem'["disk"] # 0 /\ host'["disk"][mem'["disk"]] = mem["bastion"]

\* The disks no one answers for.
DiskCounted ==
  LET free == CASE run'.pc = "attach" -> {run'.fresh}
                [] run'.pc = "tidy" -> {n \in {run'.fresh} : host'["disk"][n] = 0}
                [] OTHER -> {}
      loose == cloud'["disk"] \ ({mem'["disk"]} \cup free)
  IN  loose \subseteq Loose("disk") \/ (losses' = losses + 1 /\ \E x : loose \subseteq Loose("disk") \cup {x})

\* A step of the disk that does these three keeps the invariant.
LEMMA DiskKeeps ==
  ASSUME IInv, Current = "disk", run.pc \in {"look", "act", "attach", "tidy"},
         DiskStep, DiskGood, DiskCounted
  PROVE  IInv'
<1> DEFINE k == "disk"
<1>1. /\ k \in Kinds /\ k \in Disks /\ Disks = {k, "store"} /\ GuestOf[k] = "bastion"
      /\ GuestOf["store"] = "artifacts" /\ k \notin LookedFor /\ k \notin Named
      /\ LookedFor \subseteq Kinds /\ Named \subseteq Kinds /\ Parts = {k, "store", "artifacts"}
      /\ "store" \in Kinds /\ "artifacts" \in Kinds /\ "bastion" \in Kinds /\ "keypair" \in Kinds
      /\ "bucket" \in Kinds
  BY DEF Kinds, Disks, GuestOf, LookedFor, Named, Parts
<1>2. Current' = k
  BY SameStep DEF DiskStep
<1>3. /\ cloud'["store"] = cloud["store"] /\ cloud'["artifacts"] = cloud["artifacts"]
      /\ mem'["store"] = mem["store"] /\ mem'["artifacts"] = mem["artifacts"]
      /\ cloud'["bastion"] = cloud["bastion"] /\ mem'["bastion"] = mem["bastion"]
      /\ cloud'["keypair"] = cloud["keypair"] /\ mem'["keypair"] = mem["keypair"]
      /\ cloud'["bucket"] = cloud["bucket"]
  BY <1>1 DEF DiskStep
<1>4. TypeOK' /\ run' \in Runs
  <2>1. run'.step \in DOMAIN Selected(run'.mode) /\ run'.try \in 1 .. MaxTries
    BY DEF DiskStep, Stays, IInv, TypeOK, Runs
  <2>2. {run'.found, run'.fresh, run'.guest} \subseteq Ids \cup {0}
    BY DEF DiskStep, Runs
  <2>3. \A n \in Ids : host["store"][n] # 0 =>
          n \in cloud["store"] /\ host["store"][n] \in cloud["artifacts"]
    BY <1>1 DEF IInv, TypeOK
  <2>4. \A d \in Disks, n \in Ids :
          host'[d][n] # 0 => n \in cloud'[d] /\ host'[d][n] \in cloud'[GuestOf[d]]
    <3>1. \A n \in Ids : host'["store"][n] # 0 =>
            n \in cloud'["store"] /\ host'["store"][n] \in cloud'["artifacts"]
      BY <1>3, <2>3 DEF DiskStep
    <3>2. \A n \in Ids : host'[k][n] # 0 => n \in cloud'[k] /\ host'[k][n] \in cloud'["bastion"]
      BY <1>3 DEF DiskGood
    <3> QED  BY <1>1, <3>1, <3>2
  <2> QED  BY <1>3, <2>1, <2>2, <2>4 DEF DiskStep, IInv, TypeOK
<1>5. Holding'
  <2>1. /\ run'.pc \in {"act", "attach", "tidy", "save", "failed"}
        /\ run'.pc \in {"act", "save", "failed"} => run'.guest = 0
    BY DEF DiskStep
  <2> QED  BY <1>2, <2>1 DEF DiskGood, Holding, Between
<1>6. Seen'
  BY <1>2 DEF Seen
<1>7. Single'
  <2>1. \A j \in LookedFor \ (blind' \cup {"bastion"}) : Alone(cloud'[j])
    BY <1>1 DEF DiskStep, IInv, Single
  <2>2. Tagged' = Tagged
    BY <1>3 DEF DiskStep, Tagged
  <2> QED  BY <1>3, <2>1, <2>2 DEF DiskStep, IInv, Single
<1>8. Counted'
  <2>1. \A j \in {"artifacts", "store"} : Free(j) = {} /\ Free(j)' = {}
    BY <1>1, <1>2 DEF Free, Hand
  <2>2. \A j \in {"artifacts", "store"} : cloud'[j] \ ({mem'[j]} \cup Free(j)') = Loose(j)
    BY <1>1, <1>3, <2>1 DEF Loose
  <2>3. Free(k)' = CASE run'.pc = "attach" -> {run'.fresh}
                     [] run'.pc = "tidy" -> {n \in {run'.fresh} : host'["disk"][n] = 0}
                     [] OTHER -> {}
    <3>1. CASE run'.pc = "tidy"
      BY <1>2, <3>1 DEF Free, Hand
    <3>2. CASE run'.pc # "tidy"
      BY <1>2, <3>2 DEF Free, Hand
    <3> QED  BY <3>1, <3>2
  <2>4. run'.pc # "rollback" /\ \A j \in Parts : run'.pc \notin {"save", "failed"} => mem'[j] = file'[j]
    BY <1>1, <1>3 DEF DiskStep, DiskGood, IInv, Counted
  <2>5. losses' \in Nat /\ losses' >= losses /\ \A j \in Parts : cloud'[j] \subseteq Ids
    BY <1>1 DEF DiskStep
  <2> DEFINE loose == cloud'[k] \ ({mem'[k]} \cup Free(k)')
  <2>6. CASE loose \subseteq Loose(k)
    BY <1>1, <2>2, <2>4, <2>5, <2>6, CountedKept
  <2>7. CASE losses' = losses + 1 /\ \E x : loose \subseteq Loose(k) \cup {x}
    <3>1. \A j \in Parts : \E x : cloud'[j] \ ({mem'[j]} \cup Free(j)') \subseteq Loose(j) \cup {x}
      BY <1>1, <2>2, <2>7
    <3> QED  BY <1>1, <2>4, <2>5, <2>7, <3>1, CountedMore
  <2> QED  BY <2>3, <2>6, <2>7 DEF DiskCounted
<1>9. Blamed'
  BY <1>2 DEF Blamed
<1>10. Truth'
  <2>1. \A j \in Named : InCloud(j)' = InCloud(j)
    BY DEF InCloud, DiskStep
  <2> SUFFICES ASSUME ~misled
               PROVE  True(mem)' /\ True(file)'
    BY DEF Truth, DiskStep
  <2>2. True(mem) /\ True(file)
    BY DEF IInv, Truth
  <2>3. \A j \in Named : InCloud(j) => mem'[j] \in cloud'[j] \cup {0} /\ file'[j] \in cloud'[j] \cup {0}
    BY <1>1, <2>2 DEF True, DiskStep
  <2> QED  BY <1>3, <2>1, <2>2, <2>3 DEF True, DiskStep
<1>11. Past'
  <2>1. run'.pc = "save" => Has(k)'
    BY <1>3 DEF DiskGood, DiskStep, Has, Supported
  <2>2. Stays /\ UNCHANGED provider
    BY DEF DiskStep
  <2>3. \A j \in Kinds \ {k} : cloud'[j] = cloud[j] /\ mem'[j] = mem[j]
    BY DEF DiskStep
  <2> QED  BY <1>1, <2>1, <2>2, <2>3, PastKept
<1>12. Keyed'
  BY <1>3 DEF Keyed, IInv, InCloud, DiskStep
<1>13. run'.pc # "idle"
  BY DEF DiskStep
<1> QED  BY <1>4, <1>5, <1>6, <1>7, <1>8, <1>9, <1>10, <1>11, <1>12, <1>13 DEF IInv

\* What holds before the four actions of the disk.
LEMMA DiskBefores ==
  ASSUME IInv, Current = "disk", run.pc \in {"look", "act", "attach", "tidy"}
  PROVE  /\ TypeOK /\ run \in Runs /\ run.found \in Ids \cup {0} /\ run.fresh \in Ids \cup {0}
         /\ run.pc \in {"look", "act"} => run.fresh = 0 /\ run.guest = 0
         /\ run.pc = "look" => run.found = 0
         /\ run.pc \in {"attach", "tidy"} => run.fresh \in {0, run.found} /\ run.found # 0
         /\ run.pc = "tidy" => run.fresh # 0
         /\ run.pc # "look" => /\ mem["disk"] \in {0, run.found}
                               /\ run.fresh # 0 \/ run.pc = "act" => mem["disk"] = 0
         /\ run.pc = "attach" /\ run.fresh # 0 => host["disk"][run.fresh] = 0
         /\ cloud \in [Kinds -> SUBSET Ids] /\ mem \in [Kinds -> Ids \cup {0}] /\ losses \in Nat
         /\ "disk" \in Kinds /\ "disk" \in Disks /\ "bastion" \in Kinds
         /\ cloud["disk"] \subseteq Ids /\ 0 \notin cloud["disk"]
         /\ mem["disk"] \in Ids \cup {0} /\ mem["bastion"] \in Ids /\ mem["bastion"] # 0
         /\ host \in [Disks -> [Ids -> Ids \cup {0}]] /\ owner \in [Disks -> [Ids -> Ids \cup {0}]]
         /\ blind \subseteq Kinds
         /\ \A n \in Ids : host["disk"][n] # 0 => n \in cloud["disk"] /\ host["disk"][n] \in cloud["bastion"]
         /\ Loose("disk") = cloud["disk"] \
              ({mem["disk"]} \cup CASE run.pc = "attach" -> {run.fresh}
                                    [] run.pc = "tidy" -> {n \in {run.fresh} : host["disk"][n] = 0}
                                    [] OTHER -> {})
<1>1. TypeOK /\ run \in Runs /\ Holding
  BY DEF IInv
<1>2. /\ run.pc \in {"look", "act"} => run.fresh = 0 /\ run.guest = 0
      /\ run.pc = "look" => run.found = 0
      /\ run.pc \in {"attach", "tidy"} => run.fresh \in {0, run.found} /\ run.found # 0
      /\ run.pc = "tidy" => run.fresh # 0
      /\ run.pc # "look" => /\ mem["disk"] \in {0, run.found}
                            /\ run.fresh # 0 \/ run.pc = "act" => mem["disk"] = 0
      /\ run.pc = "attach" /\ run.fresh # 0 => host["disk"][run.fresh] = 0
  BY <1>1 DEF Holding, Between
<1>3. mem["bastion"] # 0
  BY BastionBefore
<1>4. /\ "disk" \in Kinds /\ "disk" \in Disks /\ "bastion" \in Kinds /\ GuestOf["disk"] = "bastion"
      /\ 0 \notin Ids
  BY DEF Kinds, Disks, GuestOf, Ids
<1>5. \A n \in Ids : host["disk"][n] # 0 => n \in cloud["disk"] /\ host["disk"][n] \in cloud["bastion"]
  BY <1>1, <1>4 DEF TypeOK
<1>6. Loose("disk") = cloud["disk"] \
        ({mem["disk"]} \cup CASE run.pc = "attach" -> {run.fresh}
                              [] run.pc = "tidy" -> {n \in {run.fresh} : host["disk"][n] = 0}
                              [] OTHER -> {})
  <2>1. CASE run.pc = "tidy"
    BY <2>1 DEF Loose, Free, Hand
  <2>2. CASE run.pc # "tidy"
    BY <2>2 DEF Loose, Free, Hand
  <2> QED  BY <2>1, <2>2
<1>7. /\ host \in [Disks -> [Ids -> Ids \cup {0}]] /\ owner \in [Disks -> [Ids -> Ids \cup {0}]] /\ blind \subseteq Kinds
      /\ run.found \in Ids \cup {0} /\ run.fresh \in Ids \cup {0}
  BY <1>1 DEF TypeOK
<1>8. mem["disk"] \in Ids \cup {0} /\ mem["bastion"] \in Ids /\ cloud["disk"] \subseteq Ids
  BY <1>1, <1>3, <1>4, Documents
<1> QED  BY <1>1, <1>2, <1>3, <1>4, <1>5, <1>6, <1>7, <1>8, Documents

\* A disk is looked for in its entry alone.
LEMMA DiskResolvedOK == ASSUME IInv, ResolveBastionDataVolume PROVE IInv'
<1> DEFINE k == "disk"
<1>1. /\ GuestKeep /\ UNCHANGED <<cloud, half, host, owner, file, born, losses, keyLost, mem, blind>>
      /\ Current = k /\ run.pc = "look"
  BY DEF ResolveBastionDataVolume, At, Current, cloudVars
<1>2. DiskCounted
  <2>1. Loose(k) = cloud[k] \ {mem[k]}
    BY <1>1, DiskBefores
  <2> QED  BY <1>1, <2>1 DEF DiskCounted
<1>3. CASE mem.disk # 0 /\ run' = [run EXCEPT !.pc = "attach", !.found = mem.disk]
  <2>1. run' = Finding("attach", mem[k]) /\ "attach" \in Points
    BY <1>3 DEF Finding, Points
  <2>2. /\ run' \in Runs /\ run'.pc = "attach" /\ Stays
        /\ run'.found = mem[k] /\ run'.fresh = 0 /\ run'.guest = 0
    BY <1>1, <2>1, DiskBefores, RunWith DEF Stays
  <2>3. DiskStep
    BY <1>1, <1>3, <2>2, DiskBefores DEF DiskStep, GuestKeep
  <2>4. DiskGood
    BY <1>1, <1>3, <2>2, DiskBefores DEF DiskGood
  <2> QED  BY <1>1, <1>2, <2>3, <2>4, DiskKeeps
<1>4. CASE mem.disk = 0 /\ run' = To("act")
  <2>1. /\ run' \in Runs /\ Stays /\ run'.pc = "act" /\ run'.fresh = run.fresh
        /\ run'.guest = run.guest /\ run'.found = run.found
    BY <1>1, <1>4, DiskBefores, RunTo DEF Stays, Points
  <2>2. DiskStep
    BY <1>1, <2>1, DiskBefores DEF DiskStep, GuestKeep
  <2>3. DiskGood
    BY <1>1, <1>4, <2>1, DiskBefores DEF DiskGood
  <2> QED  BY <1>1, <1>2, <2>2, <2>3, DiskKeeps
<1>5. CASE ~Supported("disk") /\ run' = Clean("save")
  <2>1. /\ run' \in Runs /\ Stays /\ run'.pc = "save" /\ run'.fresh = 0
        /\ run'.guest = 0 /\ run'.found = 0
    BY <1>1, <1>5, DiskBefores, RunClean DEF Stays, Points
  <2>2. DiskStep
    BY <1>1, <2>1, DiskBefores DEF DiskStep, GuestKeep
  <2>3. DiskGood
    BY <1>1, <1>5, <2>1, DiskBefores DEF DiskGood
  <2> QED  BY <1>1, <1>2, <2>2, <2>3, DiskKeeps
<1> QED  BY <1>3, <1>4, <1>5 DEF ResolveBastionDataVolume

\* A data volume that is made is a new one, and one that is refused changes
\* nothing.
LEMMA VolumeIs ==
  ASSUME TypeOK, NEW d \in Disks, NEW g \in Ids, NEW a \in Answers, CreateVolume(d, g, a)
  PROVE  /\ First(New(d)) \in Ids /\ First(New(d)) # 0 /\ First(New(d)) \notin cloud[d]
         /\ losses' \in Nat /\ losses' >= losses /\ (a = "lost" => losses' = losses + 1)
         /\ owner' \in [Disks -> [Ids -> Ids \cup {0}]]
         /\ cloud' \in [Kinds -> SUBSET Ids] /\ \A j \in Kinds \ {d} : cloud'[j] = cloud[j]
         /\ cloud'[d] = IF a = "refused" THEN cloud[d] ELSE cloud[d] \cup {First(New(d))}
<1> DEFINE n == First(New(d))
<1>1. d \in Kinds /\ cloud \in [Kinds -> SUBSET Ids] /\ losses \in Nat
      /\ owner \in [Disks -> [Ids -> Ids \cup {0}]]
  BY DEF TypeOK, Disks, Kinds
<1>2. /\ New(d) # {} /\ (Call(a) \/ (a = "refused" /\ UNCHANGED losses))
      /\ cloud' = IF a = "refused" THEN cloud ELSE [cloud EXCEPT ![d] = @ \cup {n}]
      /\ owner' = IF a = "refused" THEN owner ELSE [owner EXCEPT ![d][n] = g]
  BY DEF CreateVolume
<1>3. n \in Ids /\ n # 0 /\ n \notin cloud[d]
  BY <1>1, <1>2, NewIsNew
<1> HIDE DEF n
<1>4. losses' \in Nat /\ losses' >= losses /\ (a = "lost" => losses' = losses + 1)
  <2>1. CASE Call(a)
    BY <2>1, Counts DEF Call
  <2>2. CASE a = "refused" /\ UNCHANGED losses
    BY <1>1, <2>2
  <2> QED  BY <1>2, <2>1, <2>2
<1>5. owner' \in [Disks -> [Ids -> Ids \cup {0}]]
  <2>1. [owner[d] EXCEPT ![n] = g] \in [Ids -> Ids \cup {0}]
    BY <1>1, <1>3
  <2> QED  BY <1>1, <1>2, <2>1
<1>6. /\ cloud' \in [Kinds -> SUBSET Ids] /\ \A j \in Kinds \ {d} : cloud'[j] = cloud[j]
      /\ cloud'[d] = IF a = "refused" THEN cloud[d] ELSE cloud[d] \cup {n}
  <2>1. cloud[d] \cup {n} \in SUBSET Ids
    BY <1>1, <1>3
  <2> QED  BY <1>1, <1>2, <2>1, Instances
<1> QED  BY <1>3, <1>4, <1>5, <1>6 DEF n

\* Without an entry one is made.
LEMMA DiskCreatedOK == ASSUME IInv, CreateBastionDataVolume PROVE IInv'
<1> DEFINE k == "disk"
           n == First(New(k))
<1>1. /\ GuestKeep /\ UNCHANGED <<half, host, file, born, keyLost, blind>>
      /\ Current = k /\ run.pc = "act" /\ k \in Disks
  BY DEF CreateBastionDataVolume, At, Current, Disks
<1>2. mem[k] = 0 /\ Loose(k) = cloud[k] \ {mem[k]}
  BY <1>1, DiskBefores
<1>3. ASSUME NEW a \in Answers, CreateVolume(k, mem.bastion, a),
             IF a = "ok" THEN AttachNew(k) /\ UNCHANGED mem ELSE FailStep(mem)
      PROVE  IInv'
  <2>1. /\ n \in Ids /\ n # 0 /\ n \notin cloud[k]
        /\ losses' \in Nat /\ losses' >= losses /\ (a = "lost" => losses' = losses + 1)
        /\ owner' \in [Disks -> [Ids -> Ids \cup {0}]]
        /\ cloud' \in [Kinds -> SUBSET Ids] /\ \A j \in Kinds \ {k} : cloud'[j] = cloud[j]
        /\ cloud'[k] = IF a = "refused" THEN cloud[k] ELSE cloud[k] \cup {n}
    <3>1. TypeOK /\ mem["bastion"] \in Ids
      BY <1>1, DiskBefores
    <3> QED  BY <1>1, <1>3, <3>1, VolumeIs
  <2>2. mem' = mem
    BY <1>3 DEF FailStep
  <2>3. host[k][n] = 0
    BY <1>1, <2>1, DiskBefores
  <2>4. a = "ok" => run' = Making("attach", n)
    BY <1>3 DEF AttachNew, Making
  <2> HIDE DEF n
  <2>5. CASE a = "ok"
    <3>1. run' = Making("attach", n) /\ "attach" \in Points
      BY <2>4, <2>5 DEF Points
    <3>2. /\ run' \in Runs /\ run'.pc = "attach" /\ Stays
          /\ run'.found = n /\ run'.fresh = n /\ run'.guest = 0
      BY <1>1, <2>1, <3>1, DiskBefores, RunWith DEF Stays
    <3>3. DiskStep
      BY <1>1, <2>1, <2>2, <3>2, DiskBefores DEF DiskStep, GuestKeep
    <3>4. DiskGood
      BY <1>1, <1>2, <2>1, <2>2, <2>3, <2>5, <3>2, DiskBefores DEF DiskGood
    <3>5. DiskCounted
      BY <1>2, <2>1, <2>2, <2>5, <3>2 DEF DiskCounted
    <3> QED  BY <1>1, <3>3, <3>4, <3>5, DiskKeeps
  <2>6. CASE a # "ok"
    <3>1. /\ run' \in Runs /\ run'.pc = "failed" /\ Stays
          /\ run'.found = 0 /\ run'.fresh = 0 /\ run'.guest = 0
      BY <1>1, <1>3, <2>6, DiskBefores, RunClean DEF FailStep, Points, Stays
    <3>2. DiskStep
      BY <1>1, <2>1, <2>2, <3>1, DiskBefores DEF DiskStep, GuestKeep
    <3>3. DiskGood
      BY <1>1, <2>1, <2>2, <2>6, <3>1, DiskBefores DEF DiskGood
    <3>4. DiskCounted
      <4>1. a \in {"refused", "lost"}
        BY <2>6 DEF Answers
      <4>2. CASE a = "refused"
        BY <1>2, <2>1, <2>2, <3>1, <4>2 DEF DiskCounted
      <4>3. CASE a = "lost"
        <5>1. cloud'[k] \ {mem'[k]} \subseteq Loose(k) \cup {n}
          BY <1>2, <2>1, <2>2
        <5> QED  BY <2>1, <3>1, <4>3, <5>1 DEF DiskCounted
      <4> QED  BY <4>1, <4>2, <4>3
    <3> QED  BY <1>1, <3>2, <3>3, <3>4, DiskKeeps
  <2> QED  BY <2>5, <2>6
<1> QED  BY <1>3 DEF CreateBastionDataVolume

\* What an attachment does: the disk is with the guest, or nothing is done.
LEMMA AttachIs ==
  ASSUME TypeOK, NEW d \in Disks, NEW n \in Ids, NEW g, NEW a \in Answers, Attach(d, n, g, a)
  PROVE  /\ losses' \in Nat /\ losses' >= losses /\ (a = "lost" => losses' = losses + 1)
         /\ host' \in [Disks -> [Ids -> Ids \cup {0}]]
         /\ \A e \in Disks \ {d} : host'[e] = host[e]
         /\ \A m \in Ids \ {n} : host'[d][m] = host[d][m]
         /\ host'[d][n] = IF a = "refused" THEN host[d][n] ELSE g
         /\ a # "refused" => /\ n \in cloud[d] /\ g \in cloud[GuestOf[d]] /\ g # 0 /\ g \in Ids
                             /\ host[d][n] \in {0, g}
<1>1. host \in [Disks -> [Ids -> Ids \cup {0}]] /\ losses \in Nat
  BY DEF TypeOK
<1>2. GuestOf[d] \in Kinds /\ cloud[GuestOf[d]] \subseteq Ids
  BY Documents DEF GuestOf, Disks, Kinds
<1>3. CASE n \in cloud[d] /\ g \in cloud[GuestOf[d]] /\ host[d][n] \in {0, g}
  <2>1. Call(a)
    BY <1>3 DEF Attach
  <2>2. losses' \in Nat /\ losses' >= losses /\ (a = "lost" => losses' = losses + 1)
    BY <1>1, <2>1 DEF Call
  <2>3. g \in Ids /\ g # 0
    BY <1>2, <1>3 DEF Ids
  <2>4. host' = IF a = "refused" THEN host ELSE [host EXCEPT ![d][n] = g]
    BY DEF Attach
  <2>5. [host[d] EXCEPT ![n] = g] \in [Ids -> Ids \cup {0}]
    BY <1>1, <2>3
  <2> QED  BY <1>1, <1>3, <2>2, <2>3, <2>4, <2>5
<1>4. CASE ~(n \in cloud[d] /\ g \in cloud[GuestOf[d]] /\ host[d][n] \in {0, g})
  <2>1. a = "refused" /\ losses' = losses /\ host' = host
    BY <1>4 DEF Attach
  <2> QED  BY <1>1, <2>1
<1> QED  BY <1>3, <1>4

\* A disk that cannot be attached is deleted again, if the run has made it.
LEMMA DiskEnsuredOK == ASSUME IInv, EnsureBastionDataVolume PROVE IInv'
<1> DEFINE k == "disk"
           n == run.found
<1>1. /\ GuestKeep /\ UNCHANGED <<half, owner, file, born, keyLost, blind>>
      /\ Current = k /\ run.pc \in {"attach", "tidy"}
  BY DEF EnsureBastionDataVolume, At, Current
<1>2. /\ n \in Ids /\ n # 0 /\ run.fresh \in {0, n} /\ run \in Runs /\ TypeOK
      /\ mem[k] \in {0, n} /\ (run.fresh # 0 => mem[k] = 0)
  BY <1>1, DiskBefores
<1>3. FailStep(mem) => /\ run' \in Runs /\ run'.pc = "failed" /\ Stays /\ mem' = mem
                       /\ run'.found = 0 /\ run'.fresh = 0 /\ run'.guest = 0
  BY <1>2, RunClean DEF FailStep, Points, Stays
<1>4. ASSUME run.pc = "attach", NEW a \in Answers, Attach(k, n, mem.bastion, a), UNCHANGED cloud,
             \/ a = "ok" /\ Complete([mem EXCEPT !.disk = n])
             \/ a # "ok" /\ MustTidy /\ run' = To("tidy") /\ UNCHANGED mem
             \/ a # "ok" /\ ~MustTidy /\ FailStep(mem)
      PROVE  IInv'
  <2> DEFINE g == mem["bastion"]
  <2>1. /\ losses' \in Nat /\ losses' >= losses /\ (a = "lost" => losses' = losses + 1)
        /\ host' \in [Disks -> [Ids -> Ids \cup {0}]]
        /\ \A e \in Disks \ {k} : host'[e] = host[e]
        /\ \A m \in Ids \ {n} : host'[k][m] = host[k][m]
        /\ host'[k][n] = IF a = "refused" THEN host[k][n] ELSE g
        /\ a # "refused" => /\ n \in cloud[k] /\ g \in cloud[GuestOf[k]] /\ g # 0 /\ g \in Ids
                            /\ host[k][n] \in {0, g}
    <3>1. k \in Disks
      BY DEF Disks
    <3> QED  BY <1>2, <1>4, <3>1, AttachIs
  <2>2. host'["store"] = host["store"]
    BY <2>1 DEF Disks
  <2>3. \A m \in Ids : host'[k][m] # 0 => m \in cloud'[k] /\ host'[k][m] \in cloud["bastion"]
    <3> TAKE m \in Ids
    <3>1. GuestOf[k] = "bastion"
      BY DEF GuestOf
    <3>2. CASE m = n
      BY <1>1, <1>4, <2>1, <3>1, <3>2, DiskBefores
    <3>3. CASE m # n
      BY <1>1, <1>4, <2>1, <3>3, DiskBefores
    <3> QED  BY <3>2, <3>3
  <2>4. Loose(k) = cloud[k] \ {mem[k], run.fresh} /\ 0 \notin cloud[k]
    BY <1>1, <1>4, DiskBefores
  <2>5. CASE a = "ok" /\ Complete([mem EXCEPT !.disk = n])
    <3>1. /\ mem' \in [Kinds -> Ids \cup {0}] /\ mem'[k] = n
          /\ \A j \in Kinds \ {k} : mem'[j] = mem[j]
      <4> HIDE DEF n
      <4> QED  BY <1>1, <1>2, <2>5, DiskBefores, Entry DEF Complete
    <3>2. /\ run' \in Runs /\ run'.pc = "save" /\ Stays
          /\ run'.found = 0 /\ run'.fresh = 0 /\ run'.guest = 0
      BY <1>2, <2>5, RunClean DEF Complete, Points, Stays
    <3>3. DiskStep
      BY <1>1, <1>4, <2>1, <2>2, <3>1, <3>2, DiskBefores DEF DiskStep, GuestKeep
    <3>4. DiskGood
      BY <1>2, <2>1, <2>3, <2>5, <3>1, <3>2 DEF DiskGood
    <3>5. DiskCounted
      BY <1>2, <1>4, <2>4, <3>1, <3>2 DEF DiskCounted
    <3> QED  BY <1>1, <3>3, <3>4, <3>5, DiskKeeps
  <2>6. CASE a # "ok" /\ run.fresh # 0 /\ run' = To("tidy") /\ UNCHANGED mem
    <3>1. run.fresh = n /\ host[k][n] = 0 /\ a \in {"refused", "lost"}
      BY <1>1, <1>2, <1>4, <2>6, DiskBefores DEF Answers
    <3>2. /\ run' \in Runs /\ run'.pc = "tidy" /\ Stays
          /\ run'.found = n /\ run'.fresh = run.fresh
      BY <1>2, <2>6, RunTo DEF Stays, Points
    <3>3. DiskStep
      BY <1>1, <1>4, <2>1, <2>2, <2>6, <3>2, DiskBefores DEF DiskStep, GuestKeep
    <3>4. DiskGood
      BY <1>2, <2>3, <2>6, <3>1, <3>2 DEF DiskGood
    <3>5. DiskCounted
      <4>1. CASE a = "refused"
        <5>1. cloud'[k] \ ({mem'[k]} \cup {m \in {run'.fresh} : host'[k][m] = 0}) \subseteq Loose(k)
          BY <1>4, <2>1, <2>4, <2>6, <3>1, <3>2, <4>1
        <5> QED  BY <3>2, <5>1 DEF DiskCounted
      <4>2. CASE a = "lost"
        <5>1. cloud'[k] \ ({mem'[k]} \cup {m \in {run'.fresh} : host'[k][m] = 0})
                \subseteq Loose(k) \cup {n}
          BY <1>4, <2>4, <2>6, <3>1
        <5>2. losses' = losses + 1
          BY <2>1, <4>2
        <5> HIDE DEF n
        <5> QED  BY <3>2, <5>1, <5>2 DEF DiskCounted
      <4> QED  BY <3>1, <4>1, <4>2
    <3> QED  BY <1>1, <3>3, <3>4, <3>5, DiskKeeps
  <2>7. CASE run.fresh = 0 /\ FailStep(mem)
    <3>1. DiskStep
      BY <1>1, <1>3, <1>4, <2>1, <2>2, <2>7, DiskBefores DEF DiskStep, GuestKeep
    <3>2. DiskGood
      BY <1>3, <2>3, <2>7 DEF DiskGood
    <3>3. DiskCounted
      BY <1>3, <1>4, <2>4, <2>7 DEF DiskCounted
    <3> QED  BY <1>1, <3>1, <3>2, <3>3, DiskKeeps
  <2> QED  BY <1>4, <2>5, <2>6, <2>7 DEF MustTidy
<1>5. ASSUME run.pc = "tidy", NEW bad \in BOOLEAN, losses' = losses + (IF bad THEN 1 ELSE 0),
             cloud' = IF bad \/ host.disk[n] # 0 THEN cloud ELSE [cloud EXCEPT !.disk = @ \ {n}],
             FailStep(mem), UNCHANGED host
      PROVE  IInv'
  <2>1. run.fresh = n /\ mem[k] = 0
    BY <1>1, <1>2, <1>5, DiskBefores
  <2>2. Loose(k) = cloud[k] \ ({mem[k]} \cup {m \in {n} : host[k][m] = 0})
    BY <1>1, <1>5, <2>1, DiskBefores
  <2>3. /\ cloud' \in [Kinds -> SUBSET Ids] /\ \A j \in Kinds \ {k} : cloud'[j] = cloud[j]
        /\ cloud'[k] = IF bad \/ host[k][n] # 0 THEN cloud[k] ELSE cloud[k] \ {n}
    <3>1. cloud[k] \ {n} \in SUBSET Ids
      BY <1>1, <1>5, DiskBefores
    <3>2. /\ cloud \in [Kinds -> SUBSET Ids] /\ k \in Kinds
          /\ cloud' = IF bad \/ host[k][n] # 0 THEN cloud ELSE [cloud EXCEPT ![k] = cloud[k] \ {n}]
      BY <1>1, <1>5, DiskBefores
    <3> HIDE DEF n
    <3> QED  BY <1>2, <3>1, <3>2, Instances
  <2>4. losses' \in Nat /\ losses' >= losses /\ (bad => losses' = losses + 1)
    BY <1>1, <1>5, DiskBefores
  <2>5. DiskStep
    BY <1>1, <1>3, <1>5, <2>3, <2>4, DiskBefores DEF DiskStep, GuestKeep
  <2>6. DiskGood
    BY <1>1, <1>3, <1>5, <2>3, DiskBefores DEF DiskGood
  <2>7. DiskCounted
    <3>1. CASE bad
      <4>1. cloud'[k] \ {mem'[k]} \subseteq Loose(k) \cup {n}
        BY <1>3, <1>5, <2>2, <2>3, <3>1
      <4> HIDE DEF n
      <4> QED  BY <1>3, <1>5, <2>4, <3>1, <4>1 DEF DiskCounted
    <3>2. CASE ~bad
      <4>1. cloud'[k] \ {mem'[k]} \subseteq Loose(k)
        BY <1>3, <1>5, <2>2, <2>3, <3>2
      <4> QED  BY <1>3, <1>5, <4>1 DEF DiskCounted
    <3> QED  BY <3>1, <3>2
  <2> QED  BY <1>1, <2>5, <2>6, <2>7, DiskKeeps
<1>6. CASE /\ At("disk", "attach")
           /\ \E a \in Answers :
                /\ Attach("disk", run.found, mem.bastion, a)
                /\ UNCHANGED cloud
                /\ \/ a = "ok" /\ Complete([mem EXCEPT !.disk = run.found])
                   \/ a # "ok" /\ MustTidy /\ run' = To("tidy") /\ UNCHANGED mem
                   \/ a # "ok" /\ ~MustTidy /\ FailStep(mem)
  BY <1>4, <1>6 DEF At
<1>7. CASE /\ At("disk", "tidy")
           /\ \E bad \in BOOLEAN :
                /\ Spend(bad) /\ losses' = losses + (IF bad THEN 1 ELSE 0)
                /\ cloud' = IF bad \/ host.disk[run.found] # 0 THEN cloud
                            ELSE [cloud EXCEPT !.disk = @ \ {run.found}]
           /\ FailStep(mem) /\ UNCHANGED host
  BY <1>5, <1>7 DEF At
<1> QED  BY <1>6, <1>7 DEF EnsureBastionDataVolume

-----------------------------------------------------------------------------
(* The artifacts guest. *)

\* A document that names a guest names a store that is with it.
Hosted(doc) ==
  /\ doc["artifacts"] \in cloud["artifacts"] \cup {0}
  /\ doc["artifacts"] # 0 => doc["store"] # 0 /\ host["store"][doc["store"]] = doc["artifacts"]

\* Only the guest and the stores change, with their hosts and their entries.
ArtifactsStep ==
  /\ UNCHANGED <<provider, half, file, local, born, blind, used, misled, keyLost>>
  /\ owner' \in [Disks -> [Ids -> Ids \cup {0}]]
  /\ run' \in Runs /\ Stays
  /\ run'.pc \in {"act", "attach", "record", "tidy", "cleanup", "save", "failed"}
  /\ cloud' \in [Kinds -> SUBSET Ids] /\ mem' \in [Kinds -> Ids \cup {0}]
  /\ \A j \in Kinds \ {"artifacts", "store"} : cloud'[j] = cloud[j] /\ mem'[j] = mem[j]
  /\ host' \in [Disks -> [Ids -> Ids \cup {0}]] /\ host'["disk"] = host["disk"]
  /\ losses' \in Nat /\ losses' >= losses

\* The run knows what it holds; a store that is with its guest and not recorded
\* is there by accident; and the entries are of a guest with its store.
ArtifactsGood ==
  /\ \A n \in Ids : host'["store"][n] # 0 =>
        n \in cloud'["store"] /\ host'["store"][n] \in cloud'["artifacts"]
  /\ run'.pc \in {"save", "failed"} => run'.found = 0 /\ run'.fresh = 0 /\ run'.guest = 0
  /\ run'.pc \notin {"save", "failed"} =>
       /\ mem' = mem /\ mem["artifacts"] = 0 /\ run'.guest \in cloud'["artifacts"]
       /\ \A n \in Ids : host'["store"][n] = run'.guest =>
             run'.pc = "record" \/ (run'.pc \in {"tidy", "cleanup"} /\ losses' > 0)
  /\ run'.pc = "act" => run'.fresh = 0
  /\ run'.pc \in {"attach", "tidy", "record"} => run'.fresh \in {0, run'.found} /\ run'.found # 0
  /\ run'.pc = "tidy" => run'.fresh # 0
  /\ run'.pc \in {"attach", "record"} => mem["store"] = IF run'.fresh = 0 THEN run'.found ELSE 0
  /\ run'.pc = "record" => host'["store"][run'.found] = run'.guest
  /\ run'.pc = "attach" /\ run'.fresh # 0 => host'["store"][run'.fresh] = 0
  /\ ~misled => Hosted(mem)' /\ Hosted(file)'
  /\ run'.pc = "save" /\ Supported("artifacts") => mem'["artifacts"] # 0

\* The guests and the stores no one answers for.
FreeStores ==
  CASE run.pc \in {"attach", "record"} -> {run.fresh}
    [] run.pc = "tidy" -> {n \in {run.fresh} : host["store"][n] = 0}
    [] OTHER -> {}
LooseGuests == cloud["artifacts"] \ {mem["artifacts"], run.guest}
LooseStores == cloud["store"] \ ({mem["store"]} \cup FreeStores)
ArtifactsCounted ==
  \/ LooseGuests' \subseteq LooseGuests /\ LooseStores' \subseteq LooseStores
  \/ /\ losses' = losses + 1
     /\ \E x : LooseGuests' \subseteq LooseGuests \cup {x}
     /\ \E x : LooseStores' \subseteq LooseStores \cup {x}

\* While this step runs, it may hold a guest and a store, and no disk of the
\* bastion.
LEMMA ArtifactsLoose ==
  ASSUME Current = "artifacts"
  PROVE  Loose("artifacts") = LooseGuests /\ Loose("store") = LooseStores /\ Free("disk") = {}
<1>1. Free("artifacts") = {run.guest} /\ Free("disk") = {}
  BY DEF Free, Hand
<1>2. Free("store") = FreeStores
  <2>1. CASE run.pc = "tidy"
    BY <2>1 DEF Free, Hand, FreeStores
  <2>2. CASE run.pc # "tidy"
    BY <2>2 DEF Free, Hand, FreeStores
  <2> QED  BY <2>1, <2>2
<1> QED  BY <1>1, <1>2 DEF Loose, LooseGuests, LooseStores

\* A step of the guest that does these three keeps the invariant.
LEMMA ArtifactsKeeps ==
  ASSUME IInv, Current = "artifacts", run.pc \in {"look", "act", "attach", "record", "tidy", "cleanup"},
         ArtifactsStep, ArtifactsGood, ArtifactsCounted
  PROVE  IInv'
<1> DEFINE k == "artifacts"
<1>1. /\ k \in Kinds /\ Disks = {"disk", "store"} /\ GuestOf["disk"] = "bastion"
      /\ GuestOf["store"] = k /\ Parts = {"disk", "store", k}
      /\ LookedFor \subseteq Kinds \ {k, "store"} /\ Named \subseteq Kinds \ {"store"}
      /\ "store" \in Kinds /\ "disk" \in Kinds /\ "bastion" \in Kinds /\ "keypair" \in Kinds
      /\ "bucket" \in Kinds
  BY DEF Kinds, Disks, GuestOf, LookedFor, Named, Parts
<1>2. Current' = k
  BY SameStep DEF ArtifactsStep
<1>3. /\ cloud'["disk"] = cloud["disk"] /\ mem'["disk"] = mem["disk"]
      /\ cloud'["bastion"] = cloud["bastion"] /\ mem'["bastion"] = mem["bastion"]
      /\ cloud'["keypair"] = cloud["keypair"] /\ mem'["keypair"] = mem["keypair"]
      /\ cloud'["bucket"] = cloud["bucket"]
  BY <1>1 DEF ArtifactsStep
<1>4. TypeOK' /\ run' \in Runs
  <2>1. run'.step \in DOMAIN Selected(run'.mode) /\ run'.try \in 1 .. MaxTries
    BY DEF ArtifactsStep, Stays, IInv, TypeOK, Runs
  <2>2. {run'.found, run'.fresh, run'.guest} \subseteq Ids \cup {0}
    BY DEF ArtifactsStep, Runs
  <2>3. \A n \in Ids : host["disk"][n] # 0 =>
          n \in cloud["disk"] /\ host["disk"][n] \in cloud["bastion"]
    BY <1>1 DEF IInv, TypeOK
  <2>4. \A d \in Disks, n \in Ids :
          host'[d][n] # 0 => n \in cloud'[d] /\ host'[d][n] \in cloud'[GuestOf[d]]
    <3>1. \A n \in Ids : host'["disk"][n] # 0 =>
            n \in cloud'["disk"] /\ host'["disk"][n] \in cloud'["bastion"]
      BY <1>3, <2>3 DEF ArtifactsStep
    <3>2. \A n \in Ids : host'["store"][n] # 0 => n \in cloud'["store"] /\ host'["store"][n] \in cloud'[k]
      BY DEF ArtifactsGood
    <3> QED  BY <1>1, <3>1, <3>2
  <2> QED  BY <1>3, <2>1, <2>2, <2>4 DEF ArtifactsStep, IInv, TypeOK
<1>5. Holding'
  <2>1. run'.pc \in {"act", "attach", "record", "tidy", "cleanup", "save", "failed"}
    BY DEF ArtifactsStep
  <2> QED  BY <1>2, <2>1 DEF ArtifactsGood, Holding, Between
<1>6. Seen'
  BY <1>2 DEF Seen
<1>7. Single'
  <2>1. \A j \in LookedFor \ (blind' \cup {"bastion"}) : Alone(cloud'[j])
    BY <1>1 DEF ArtifactsStep, IInv, Single
  <2>2. Tagged' = Tagged
    BY <1>3 DEF ArtifactsStep, Tagged
  <2>3. run'.pc # "finish"
    BY DEF ArtifactsStep
  <2> QED  BY <1>3, <2>1, <2>2, <2>3 DEF ArtifactsStep, IInv, Single
<1>8. Counted'
  <2>1. /\ Loose(k) = LooseGuests /\ Loose("store") = LooseStores /\ Free("disk") = {}
        /\ Loose(k)' = LooseGuests' /\ Loose("store")' = LooseStores' /\ Free("disk")' = {}
    <3>1. Loose(k)' = LooseGuests' /\ Loose("store")' = LooseStores' /\ Free("disk")' = {}
      <4>1. Free("artifacts")' = {run'.guest} /\ Free("disk")' = {}
        BY <1>2 DEF Free, Hand
      <4>2. Free("store")' = FreeStores'
        <5>1. CASE run'.pc = "tidy"
          BY <1>2, <5>1 DEF Free, Hand, FreeStores
        <5>2. CASE run'.pc # "tidy"
          BY <1>2, <5>2 DEF Free, Hand, FreeStores
        <5> QED  BY <5>1, <5>2
      <4> QED  BY <4>1, <4>2 DEF Loose, LooseGuests, LooseStores
    <3> QED  BY <3>1, ArtifactsLoose
  <2>2. Loose("disk")' = Loose("disk")
    BY <1>3, <2>1 DEF Loose
  <2>3. run'.pc # "rollback" /\ \A j \in Parts : run'.pc \notin {"save", "failed"} => mem'[j] = file'[j]
    BY <1>1, <1>3 DEF ArtifactsStep, ArtifactsGood, IInv, Counted
  <2>4. losses' \in Nat /\ losses' >= losses /\ \A j \in Parts : cloud'[j] \subseteq Ids
    BY <1>1 DEF ArtifactsStep
  <2>5. CASE LooseGuests' \subseteq LooseGuests /\ LooseStores' \subseteq LooseStores
    <3>1. \A j \in Parts : cloud'[j] \ ({mem'[j]} \cup Free(j)') \subseteq Loose(j)
      BY <1>1, <2>1, <2>2, <2>5 DEF Loose
    <3> QED  BY <2>3, <2>4, <3>1, CountedKept
  <2>6. CASE /\ losses' = losses + 1
             /\ \E x : LooseGuests' \subseteq LooseGuests \cup {x}
             /\ \E x : LooseStores' \subseteq LooseStores \cup {x}
    <3>1. \A j \in Parts : \E x : cloud'[j] \ ({mem'[j]} \cup Free(j)') \subseteq Loose(j) \cup {x}
      BY <1>1, <2>1, <2>2, <2>6 DEF Loose
    <3> QED  BY <2>3, <2>4, <2>6, <3>1, CountedMore
  <2> QED  BY <2>5, <2>6 DEF ArtifactsCounted
<1>9. Blamed'
  BY <1>2 DEF Blamed, Between, ArtifactsStep, ArtifactsGood
<1>10. Truth'
  <2>1. \A j \in Named : InCloud(j)' = InCloud(j)
    BY DEF InCloud, ArtifactsStep
  <2> SUFFICES ASSUME ~misled
               PROVE  True(mem)' /\ True(file)'
    BY DEF Truth, ArtifactsStep
  <2>2. True(mem) /\ True(file)
    BY DEF IInv, Truth, ArtifactsStep
  <2>3. Hosted(mem)' /\ Hosted(file)'
    BY DEF ArtifactsGood
  <2>4. \A j \in Named : InCloud(j) => mem'[j] \in cloud'[j] \cup {0} /\ file'[j] \in cloud'[j] \cup {0}
    <3> TAKE j \in Named
    <3>1. CASE j = k
      BY <2>3, <3>1 DEF Hosted
    <3>2. CASE j # k
      BY <1>1, <2>2, <3>2 DEF True, ArtifactsStep
    <3> QED  BY <3>1, <3>2
  <2> QED  BY <2>1, <2>3, <2>4 DEF True, Hosted
<1>11. Past'
  <2>1. run'.pc = "save" => Has(k)'
    BY DEF ArtifactsGood, ArtifactsStep, Has, Supported
  <2>2. Stays /\ UNCHANGED provider
    BY DEF ArtifactsStep
  <2>3. \A j \in Kinds \ {k, "store"} : cloud'[j] = cloud[j] /\ mem'[j] = mem[j]
    BY DEF ArtifactsStep
  <2>4. host'["disk"] = host["disk"]
    BY DEF ArtifactsStep
  <2> QED  BY <1>1, <1>3, <2>1, <2>2, <2>3, <2>4, PastKept
<1>12. Keyed'
  BY <1>3 DEF Keyed, IInv, InCloud, ArtifactsStep
<1>13. run'.pc # "idle"
  BY DEF ArtifactsStep
<1> QED  BY <1>4, <1>5, <1>6, <1>7, <1>8, <1>9, <1>10, <1>11, <1>12, <1>13 DEF IInv

\* What holds before the actions of the guest.
LEMMA ArtifactsBefores ==
  ASSUME IInv, Current = "artifacts", run.pc \in {"look", "act", "attach", "record", "tidy", "cleanup"}
  PROVE  /\ TypeOK /\ run \in Runs
         /\ {run.found, run.fresh, run.guest} \subseteq Ids \cup {0}
         /\ run.pc = "look" => run.found = 0 /\ run.fresh = 0 /\ run.guest = 0
         /\ run.pc = "act" => run.fresh = 0
         /\ run.pc \in {"attach", "tidy", "record"} => run.fresh \in {0, run.found} /\ run.found # 0
         /\ run.pc = "tidy" => run.fresh # 0
         /\ run.pc # "look" => /\ mem["artifacts"] = 0 /\ file["artifacts"] = 0
                               /\ run.guest \in cloud["artifacts"] /\ run.guest \in Ids /\ run.guest # 0
                               /\ \A n \in Ids : host["store"][n] = run.guest =>
                                     run.pc = "record" \/ (run.pc \in {"tidy", "cleanup"} /\ losses > 0)
         /\ run.pc \in {"attach", "record"} => mem["store"] = IF run.fresh = 0 THEN run.found ELSE 0
         /\ run.pc = "record" => host["store"][run.found] = run.guest
         /\ run.pc = "attach" /\ run.fresh # 0 => host["store"][run.fresh] = 0
         /\ cloud \in [Kinds -> SUBSET Ids] /\ mem \in [Kinds -> Ids \cup {0}] /\ losses \in Nat
         /\ "store" \in Kinds /\ "store" \in Disks /\ "artifacts" \in Kinds
         /\ cloud["store"] \subseteq Ids /\ 0 \notin cloud["store"]
         /\ cloud["artifacts"] \subseteq Ids /\ 0 \notin cloud["artifacts"]
         /\ mem["store"] \in Ids \cup {0} /\ mem["artifacts"] = file["artifacts"]
         /\ mem["store"] = file["store"]
         /\ host \in [Disks -> [Ids -> Ids \cup {0}]] /\ owner \in [Disks -> [Ids -> Ids \cup {0}]]
         /\ \A n \in Ids : host["store"][n] # 0 => n \in cloud["store"] /\ host["store"][n] \in cloud["artifacts"]
         /\ ~misled => Hosted(mem) /\ Hosted(file)
<1>1. TypeOK /\ run \in Runs /\ Holding /\ Blamed /\ Truth /\ Counted
  BY DEF IInv
<1>2. /\ "store" \in Kinds /\ "store" \in Disks /\ "artifacts" \in Kinds /\ GuestOf["store"] = "artifacts"
      /\ 0 \notin Ids /\ "artifacts" \in Parts /\ "store" \in Parts
  BY DEF Kinds, Disks, GuestOf, Ids, Parts
<1>3. cloud["store"] \subseteq Ids /\ cloud["artifacts"] \subseteq Ids /\ mem["store"] \in Ids \cup {0}
  BY <1>1, <1>2, Documents
<1>4. /\ run.pc = "look" => run.found = 0 /\ run.fresh = 0 /\ run.guest = 0
      /\ run.pc = "act" => run.fresh = 0
      /\ run.pc \in {"attach", "tidy", "record"} => run.fresh \in {0, run.found} /\ run.found # 0
      /\ run.pc = "tidy" => run.fresh # 0
      /\ run.pc # "look" => mem["artifacts"] = 0 /\ run.guest \in cloud["artifacts"]
      /\ run.pc \in {"attach", "record"} => mem["store"] = IF run.fresh = 0 THEN run.found ELSE 0
      /\ run.pc = "record" => host["store"][run.found] = run.guest
      /\ run.pc = "attach" /\ run.fresh # 0 => host["store"][run.fresh] = 0
  BY <1>1 DEF Holding, Between
<1>5. mem["artifacts"] = file["artifacts"] /\ mem["store"] = file["store"]
  BY <1>1, <1>2 DEF Counted
<1>6. run.pc # "look" =>
        \A n \in Ids : host["store"][n] = run.guest =>
           run.pc = "record" \/ (run.pc \in {"tidy", "cleanup"} /\ losses > 0)
  BY <1>1 DEF Blamed, Between
<1>7. /\ host \in [Disks -> [Ids -> Ids \cup {0}]] /\ owner \in [Disks -> [Ids -> Ids \cup {0}]]
      /\ {run.found, run.fresh, run.guest} \subseteq Ids \cup {0}
      /\ \A n \in Ids : host["store"][n] # 0 => n \in cloud["store"] /\ host["store"][n] \in cloud["artifacts"]
  BY <1>1, <1>2 DEF TypeOK
<1>8. ~misled => Hosted(mem) /\ Hosted(file)
  BY <1>1 DEF Truth, True, Named, InCloud, Hosted
<1> QED  BY <1>1, <1>2, <1>3, <1>4, <1>5, <1>6, <1>7, <1>8, Documents

\* A step that fails drops what the run holds.
LEMMA ArtifactsEnds ==
  ASSUME run \in Runs, NEW p \in {"save", "failed"}, run' = Clean(p)
  PROVE  /\ run' \in Runs /\ run'.pc = p /\ Stays
         /\ run'.found = 0 /\ run'.fresh = 0 /\ run'.guest = 0
BY RunClean DEF Points, Stays

\* A guest is made, unless there is an entry of one.
LEMMA ArtifactsCreatedOK == ASSUME IInv, CreateArtifactsInstance PROVE IInv'
<1> DEFINE k == "artifacts"
           n == First(New(k))
<1>1. /\ GuestKeep /\ UNCHANGED <<half, host, owner, file, born, blind, keyLost>>
      /\ Current = k /\ run.pc = "look"
  BY DEF CreateArtifactsInstance, At, Current
<1>2. ASSUME UNCHANGED <<cloud, losses>>, mem' = mem, NEW p \in {"save", "failed"}, run' = Clean(p),
             p = "save" => ~Supported("artifacts") \/ mem[k] # 0
      PROVE  IInv'
  <2>1. /\ run' \in Runs /\ run'.pc = p /\ Stays
        /\ run'.found = 0 /\ run'.fresh = 0 /\ run'.guest = 0
    BY <1>1, <1>2, ArtifactsBefores, ArtifactsEnds
  <2>2. ArtifactsStep
    BY <1>1, <1>2, <2>1, ArtifactsBefores DEF ArtifactsStep, GuestKeep
  <2>3. ArtifactsGood
    <3>1. ~misled => Hosted(mem)' /\ Hosted(file)'
      BY <1>1, <1>2, ArtifactsBefores DEF Hosted
    <3> QED  BY <1>1, <1>2, <2>1, <3>1, ArtifactsBefores DEF ArtifactsGood
  <2>4. ArtifactsCounted
    BY <1>1, <1>2, <2>1, ArtifactsBefores DEF ArtifactsCounted, LooseGuests, LooseStores, FreeStores
  <2> QED  BY <1>1, <2>2, <2>3, <2>4, ArtifactsKeeps
<1>3. ASSUME mem[k] = 0, New(k) # {}, NEW a \in Answers, Call(a),
             cloud' = IF a = "refused" THEN cloud ELSE [cloud EXCEPT !.artifacts = @ \cup {n}],
             IF a = "ok"
             THEN run' = [run EXCEPT !.pc = "act", !.guest = n] /\ UNCHANGED mem
             ELSE FailStep(mem)
      PROVE  IInv'
  <2>1. n \in Ids /\ n # 0 /\ n \notin cloud[k]
    BY <1>1, <1>3, ArtifactsBefores, NewIsNew
  <2>2. losses' \in Nat /\ losses' >= losses /\ mem' = mem /\ (a = "lost" => losses' = losses + 1)
    BY <1>1, <1>3, ArtifactsBefores, Counts DEF FailStep, Call
  <2>3. /\ cloud' \in [Kinds -> SUBSET Ids] /\ \A j \in Kinds \ {k} : cloud'[j] = cloud[j]
        /\ cloud'[k] = IF a = "refused" THEN cloud[k] ELSE cloud[k] \cup {n}
    <3>1. cloud[k] \cup {n} \in SUBSET Ids
      BY <1>1, <2>1, ArtifactsBefores
    <3>2. /\ cloud \in [Kinds -> SUBSET Ids] /\ k \in Kinds /\ TypeOK
          /\ cloud' = IF a = "refused" THEN cloud ELSE [cloud EXCEPT ![k] = cloud[k] \cup {n}]
      BY <1>1, <1>3, ArtifactsBefores
    <3> HIDE DEF n
    <3> QED  BY <3>1, <3>2, Instances
  <2>4. cloud'["store"] = cloud["store"] /\ cloud[k] \subseteq cloud'[k]
    BY <1>1, <2>3, ArtifactsBefores
  <2>5. \A m \in Ids : /\ host'["store"][m] # 0 => m \in cloud'["store"] /\ host'["store"][m] \in cloud'[k]
                       /\ host'["store"][m] # n
    BY <1>1, <2>1, <2>4, ArtifactsBefores
  <2>6. ~misled => Hosted(mem)' /\ Hosted(file)'
    BY <1>1, <2>2, <2>4, ArtifactsBefores DEF Hosted
  <2> HIDE DEF n
  <2>7. CASE a = "ok"
    <3>1. run' = Cloning("act", n) /\ "act" \in Points
      BY <1>3, <2>7 DEF Cloning, Points, n
    <3>2. /\ run' \in Runs /\ run'.pc = "act" /\ Stays
          /\ run'.found = 0 /\ run'.fresh = 0 /\ run'.guest = n
      BY <1>1, <2>1, <3>1, ArtifactsBefores, RunWith DEF Stays
    <3>3. ArtifactsStep
      BY <1>1, <2>2, <2>3, <3>2, ArtifactsBefores DEF ArtifactsStep, GuestKeep
    <3>4. ArtifactsGood
      BY <1>1, <1>3, <2>2, <2>3, <2>5, <2>6, <2>7, <3>2, ArtifactsBefores DEF ArtifactsGood
    <3>5. ArtifactsCounted
      BY <1>1, <2>2, <2>3, <2>4, <2>7, <3>2, ArtifactsBefores
         DEF ArtifactsCounted, LooseGuests, LooseStores, FreeStores
    <3> QED  BY <1>1, <3>3, <3>4, <3>5, ArtifactsKeeps
  <2>8. CASE a # "ok"
    <3>1. /\ run' \in Runs /\ run'.pc = "failed" /\ Stays
          /\ run'.found = 0 /\ run'.fresh = 0 /\ run'.guest = 0
      BY <1>1, <1>3, <2>8, ArtifactsBefores, ArtifactsEnds DEF FailStep
    <3>2. ArtifactsStep
      BY <1>1, <2>2, <2>3, <3>1, ArtifactsBefores DEF ArtifactsStep, GuestKeep
    <3>3. ArtifactsGood
      BY <2>5, <2>6, <3>1 DEF ArtifactsGood
    <3>4. ArtifactsCounted
      <4>1. LooseStores' \subseteq LooseStores
        BY <1>1, <2>2, <2>4, <3>1 DEF LooseStores, FreeStores
      <4>2. a \in {"refused", "lost"}
        BY <2>8 DEF Answers
      <4>3. CASE a = "refused"
        <5>1. LooseGuests' \subseteq LooseGuests
          BY <1>1, <2>2, <2>3, <3>1, <4>3, ArtifactsBefores DEF LooseGuests
        <5> QED  BY <4>1, <5>1 DEF ArtifactsCounted
      <4>4. CASE a = "lost"
        <5>1. LooseGuests' \subseteq LooseGuests \cup {n}
          BY <1>1, <2>2, <2>3, <3>1, <4>4, ArtifactsBefores DEF LooseGuests
        <5> QED  BY <2>2, <4>1, <4>4, <5>1 DEF ArtifactsCounted
      <4> QED  BY <4>2, <4>3, <4>4
    <3> QED  BY <1>1, <3>2, <3>3, <3>4, ArtifactsKeeps
  <2> QED  BY <2>7, <2>8
<1>4. CASE /\ ~Supported("artifacts") \/ mem.artifacts # 0
           /\ Complete(mem) /\ UNCHANGED <<cloud, left, losses>>
  BY <1>2, <1>4 DEF Complete
<1>5. CASE mem.artifacts = 0 /\ ~Placed /\ FailStep(mem) /\ UNCHANGED <<cloud, left, losses>>
  BY <1>2, <1>5 DEF FailStep
<1> QED  BY <1>3, <1>4, <1>5 DEF CreateArtifactsInstance

\* The store of the entry is adopted, or one is made.
LEMMA StoreMadeOK ==
  ASSUME IInv, Current = "artifacts", run.pc = "act", GuestKeep,
         UNCHANGED <<half, file, born, blind, keyLost, mem, host>>,
         \/ /\ mem.store # 0 /\ UNCHANGED <<cloud, owner, left, losses>>
            /\ run' = [run EXCEPT !.pc = "attach", !.found = mem.store]
         \/ /\ mem.store = 0
            /\ \E a \in Answers :
                  /\ CreateVolume("store", run.guest, a)
                  /\ IF a = "ok" THEN AttachNew("store") ELSE run' = To("cleanup")
  PROVE  IInv'
<1> DEFINE k == "store"
           n == First(New(k))
<1>1. CASE /\ mem.store # 0 /\ UNCHANGED <<cloud, owner, left, losses>>
           /\ run' = [run EXCEPT !.pc = "attach", !.found = mem.store]
  <2>1. run' = Finding("attach", mem[k]) /\ "attach" \in Points
    BY <1>1 DEF Finding, Points
  <2>2. /\ run' \in Runs /\ run'.pc = "attach" /\ Stays
        /\ run'.found = mem[k] /\ run'.fresh = 0 /\ run'.guest = run.guest
    BY <2>1, ArtifactsBefores, RunWith DEF Stays
  <2>3. ArtifactsStep
    BY <1>1, <2>2, ArtifactsBefores DEF ArtifactsStep, GuestKeep
  <2>4. ArtifactsGood
    <3>1. ~misled => Hosted(mem)' /\ Hosted(file)'
      BY <1>1, ArtifactsBefores DEF Hosted
    <3> QED  BY <1>1, <2>2, <3>1, ArtifactsBefores DEF ArtifactsGood
  <2>5. ArtifactsCounted
    BY <1>1, <2>2, ArtifactsBefores DEF ArtifactsCounted, LooseGuests, LooseStores, FreeStores
  <2> QED  BY <2>3, <2>4, <2>5, ArtifactsKeeps
<1>2. ASSUME mem[k] = 0, NEW a \in Answers, CreateVolume(k, run.guest, a),
             IF a = "ok" THEN AttachNew(k) ELSE run' = To("cleanup")
      PROVE  IInv'
  <2>1. /\ n \in Ids /\ n # 0 /\ n \notin cloud[k]
        /\ losses' \in Nat /\ losses' >= losses /\ (a = "lost" => losses' = losses + 1)
        /\ owner' \in [Disks -> [Ids -> Ids \cup {0}]]
        /\ cloud' \in [Kinds -> SUBSET Ids] /\ \A j \in Kinds \ {k} : cloud'[j] = cloud[j]
        /\ cloud'[k] = IF a = "refused" THEN cloud[k] ELSE cloud[k] \cup {n}
    <3>1. TypeOK /\ run.guest \in Ids /\ k \in Disks
      BY ArtifactsBefores
    <3> QED  BY <1>2, <3>1, VolumeIs
  <2>2. host[k][n] = 0
    BY <2>1, ArtifactsBefores
  <2>3. a = "ok" => run' = Making("attach", n)
    BY <1>2 DEF AttachNew, Making
  <2>4. cloud'["artifacts"] = cloud["artifacts"] /\ cloud[k] \subseteq cloud'[k]
    BY <2>1, ArtifactsBefores
  <2>5. \A m \in Ids : /\ host'[k][m] # 0 => m \in cloud'[k] /\ host'[k][m] \in cloud'["artifacts"]
                       /\ host'[k][m] # run.guest
    BY <2>4, ArtifactsBefores
  <2>6. ~misled => Hosted(mem)' /\ Hosted(file)'
    BY <2>4, ArtifactsBefores DEF Hosted
  <2>7. LooseGuests = cloud["artifacts"] \ {0, run.guest} /\ LooseStores = cloud[k] /\ 0 \notin cloud[k]
    BY <1>2, ArtifactsBefores DEF LooseGuests, LooseStores, FreeStores
  <2> HIDE DEF n
  <2>8. CASE a = "ok"
    <3>1. run' = Making("attach", n) /\ "attach" \in Points
      BY <2>3, <2>8 DEF Points
    <3>2. /\ run' \in Runs /\ run'.pc = "attach" /\ Stays
          /\ run'.found = n /\ run'.fresh = n /\ run'.guest = run.guest
      BY <2>1, <3>1, ArtifactsBefores, RunWith DEF Stays
    <3>3. ArtifactsStep
      BY <2>1, <3>2, ArtifactsBefores DEF ArtifactsStep, GuestKeep
    <3>4. ArtifactsGood
      BY <1>2, <2>1, <2>2, <2>5, <2>6, <2>8, <3>2, ArtifactsBefores DEF ArtifactsGood
    <3>5. ArtifactsCounted
      BY <1>2, <2>1, <2>4, <2>7, <2>8, <3>2, ArtifactsBefores
         DEF ArtifactsCounted, LooseGuests, LooseStores, FreeStores
    <3> QED  BY <3>3, <3>4, <3>5, ArtifactsKeeps
  <2>9. CASE a # "ok"
    <3>1. /\ run' \in Runs /\ run'.pc = "cleanup" /\ Stays
          /\ run'.found = run.found /\ run'.fresh = 0 /\ run'.guest = run.guest
      BY <1>2, <2>9, ArtifactsBefores, RunTo DEF Points, Stays
    <3>2. ArtifactsStep
      BY <2>1, <3>1, ArtifactsBefores DEF ArtifactsStep, GuestKeep
    <3>3. ArtifactsGood
      BY <2>1, <2>2, <2>4, <2>5, <2>6, <3>1, ArtifactsBefores DEF ArtifactsGood
    <3>4. ArtifactsCounted
      <4>1. LooseGuests' \subseteq LooseGuests
        BY <2>4, <2>7, <3>1 DEF LooseGuests
      <4>2. a \in {"refused", "lost"}
        BY <2>9 DEF Answers
      <4>3. CASE a = "refused"
        <5>1. LooseStores' \subseteq LooseStores
          BY <2>1, <2>7, <3>1, <4>3 DEF LooseStores, FreeStores
        <5> QED  BY <4>1, <5>1 DEF ArtifactsCounted
      <4>4. CASE a = "lost"
        <5>1. LooseStores' \subseteq LooseStores \cup {n}
          BY <2>1, <2>7, <3>1, <4>4 DEF LooseStores, FreeStores
        <5> QED  BY <2>1, <4>1, <4>4, <5>1 DEF ArtifactsCounted
      <4> QED  BY <4>2, <4>3, <4>4
    <3> QED  BY <3>2, <3>3, <3>4, ArtifactsKeeps
  <2> QED  BY <2>8, <2>9
<1> QED  BY <1>1, <1>2

-----------------------------------------------------------------------------
(* What goes with a guest or a disk that is deleted. *)

\* On Proxmox a guest's disks are deleted with it.
LEMMA WithoutIs ==
  ASSUME TypeOK, NEW k \in Kinds, NEW n \in Ids \cup {0}
  PROVE  /\ Without(k, n) \in [Kinds -> SUBSET Ids]
         /\ Without(k, n)[k] = cloud[k] \ {n}
         /\ \A j \in Kinds : Without(k, n)[j] \subseteq cloud[j]
         /\ \A j \in Kinds \ {k} : j \notin Disks \/ GuestOf[j] # k => Without(k, n)[j] = cloud[j]
         /\ \A d \in Disks : \A m \in cloud[d] \ Without(k, n)[d] :
              (d = k /\ m = n) \/ (provider = "pve" /\ GuestOf[d] = k /\ host[d][m] = n)
<1> DEFINE W(j) == CASE j = k -> cloud[k] \ {n}
                     [] provider = "pve" /\ j \in Disks /\ k \in {"bastion", "artifacts"} ->
                           {m \in cloud[j] : ~(GuestOf[j] = k /\ host[j][m] = n)}
                     [] OTHER -> cloud[j]
<1>1. Without(k, n) = [j \in Kinds |-> W(j)]
  BY Zenon DEF Without
<1>2. \A j \in Kinds : W(j) \subseteq cloud[j] /\ cloud[j] \subseteq Ids
  <2> TAKE j \in Kinds
  <2>1. CASE j = k
    BY <2>1, Documents
  <2>2. CASE j # k
    BY <2>2, Documents
  <2> QED  BY <2>1, <2>2
<1>3. W(k) = cloud[k] \ {n}
  <2>1. k \in {"bastion", "artifacts"} => k \notin Disks
    BY DEF Disks
  <2> QED  BY <2>1
<1>4. \A j \in Kinds \ {k} : j \notin Disks \/ GuestOf[j] # k => W(j) = cloud[j]
  OBVIOUS
<1>5. \A d \in Disks : d \in Kinds /\ \A m \in cloud[d] \ W(d) :
         (d = k /\ m = n) \/ (provider = "pve" /\ GuestOf[d] = k /\ host[d][m] = n)
  <2> TAKE d \in Disks
  <2>1. d \in Kinds
    BY DEF Disks, Kinds
  <2>2. CASE d = k
    BY <2>1, <2>2
  <2>3. CASE d # k
    BY <2>1, <2>3
  <2> QED  BY <2>2, <2>3
<1> HIDE DEF W
<1> QED  BY <1>1, <1>2, <1>3, <1>4, <1>5

\* Elsewhere they are detached from it.
LEMMA ReleasedIs ==
  ASSUME TypeOK, NEW k \in Kinds, NEW n \in Ids \cup {0}
  PROVE  /\ Released(k, n) \in [Disks -> [Ids -> Ids \cup {0}]]
         /\ \A d \in Disks, m \in Ids :
              Released(k, n)[d][m] = IF (d = k /\ m = n) \/ (GuestOf[d] = k /\ host[d][m] = n)
                                     THEN 0 ELSE host[d][m]
<1>1. \A d \in Disks, m \in Ids : host[d][m] \in Ids \cup {0}
  BY DEF TypeOK
<1>2. \A d \in Disks, m \in Ids :
        (<<d, m>> = <<k, n>> \/ <<GuestOf[d], host[d][m]>> = <<k, n>>)
          <=> (d = k /\ m = n) \/ (GuestOf[d] = k /\ host[d][m] = n)
  OBVIOUS
<1>3. \A d \in Disks, m \in Ids :
        Released(k, n)[d][m] = IF (d = k /\ m = n) \/ (GuestOf[d] = k /\ host[d][m] = n)
                               THEN 0 ELSE host[d][m]
  BY <1>2 DEF Released
<1>4. Released(k, n) \in [Disks -> [Ids -> Ids \cup {0}]]
  BY <1>1 DEF Released
<1> QED  BY <1>3, <1>4

\* What is still attached is there, and its guest.
LEMMA ReleasedIsThere ==
  ASSUME TypeOK, NEW k \in Kinds, NEW n \in Ids \cup {0}, NEW d \in Disks, NEW m \in Ids,
         Released(k, n)[d][m] # 0
  PROVE  m \in Without(k, n)[d] /\ Released(k, n)[d][m] \in Without(k, n)[GuestOf[d]]
<1>1. /\ Released(k, n)[d][m] = host[d][m] /\ ~(d = k /\ m = n)
      /\ ~(GuestOf[d] = k /\ host[d][m] = n)
  BY ReleasedIs
<1>2. m \in cloud[d] /\ host[d][m] \in cloud[GuestOf[d]]
  BY <1>1 DEF TypeOK
<1>3. GuestOf[d] \in Kinds /\ GuestOf[d] \notin Disks
  BY DEF GuestOf, Disks, Kinds
<1>4. m \in Without(k, n)[d]
  BY <1>1, <1>2, WithoutIs
<1>5. host[d][m] \in Without(k, n)[GuestOf[d]]
  <2>1. CASE GuestOf[d] = k
    BY <1>1, <1>2, <2>1, WithoutIs
  <2>2. CASE GuestOf[d] # k
    BY <1>2, <1>3, <2>2, WithoutIs
  <2> QED  BY <2>1, <2>2
<1> QED  BY <1>1, <1>4, <1>5

\* The store is attached to the guest; if it is not, one made for it is deleted.
LEMMA StoreAttachedOK ==
  ASSUME IInv, Current = "artifacts", run.pc = "attach", GuestKeep,
         UNCHANGED <<half, owner, file, born, blind, keyLost, mem, cloud>>,
         NEW a \in Answers, Attach("store", run.found, run.guest, a),
         run' = To(IF a = "ok" THEN "record" ELSE IF MustTidy THEN "tidy" ELSE "cleanup")
  PROVE  IInv'
<1> DEFINE k == "store"
           n == run.found
           g == run.guest
<1>1. /\ n \in Ids /\ n # 0 /\ run.fresh \in {0, n} /\ run \in Runs /\ TypeOK /\ k \in Disks
      /\ g \in Ids /\ g # 0
  BY ArtifactsBefores
<1>2. /\ losses' \in Nat /\ losses' >= losses /\ (a = "lost" => losses' = losses + 1)
      /\ host' \in [Disks -> [Ids -> Ids \cup {0}]]
      /\ \A e \in Disks \ {k} : host'[e] = host[e]
      /\ \A m \in Ids \ {n} : host'[k][m] = host[k][m]
      /\ host'[k][n] = IF a = "refused" THEN host[k][n] ELSE g
      /\ a # "refused" => /\ n \in cloud[k] /\ g \in cloud[GuestOf[k]] /\ g # 0 /\ g \in Ids
                          /\ host[k][n] \in {0, g}
  BY <1>1, AttachIs
<1>3. host'["disk"] = host["disk"]
  BY <1>2 DEF Disks
<1>4. /\ mem["artifacts"] = 0 /\ file["artifacts"] = 0
      /\ mem[k] = IF run.fresh = 0 THEN n ELSE 0
      /\ run.fresh # 0 => host[k][n] = 0
      /\ 0 \notin cloud[k] /\ 0 \notin cloud["artifacts"] /\ losses \in Nat
      /\ \A m \in Ids : host[k][m] # g
  BY <1>1, ArtifactsBefores
<1>5. \A m \in Ids : host'[k][m] # 0 => m \in cloud'[k] /\ host'[k][m] \in cloud'["artifacts"]
  <2> TAKE m \in Ids
  <2>1. GuestOf[k] = "artifacts"
    BY DEF GuestOf
  <2>2. CASE m = n
    BY <1>2, <2>1, <2>2, ArtifactsBefores
  <2>3. CASE m # n
    BY <1>2, <2>3, ArtifactsBefores
  <2> QED  BY <2>2, <2>3
<1>6. Hosted(mem)' /\ Hosted(file)'
  BY <1>4 DEF Hosted
<1>7. \E p \in {"record", "tidy", "cleanup"} :
        /\ run' \in Runs /\ Stays /\ run'.found = n /\ run'.fresh = run.fresh /\ run'.guest = g
        /\ run'.pc = p /\ (p = "record" <=> a = "ok") /\ (p = "tidy" <=> a # "ok" /\ run.fresh # 0)
  BY <1>1, RunTo DEF Points, Stays, MustTidy
<1>8. ArtifactsStep
  BY <1>2, <1>3, <1>7, ArtifactsBefores DEF ArtifactsStep, GuestKeep
<1>9. a \in {"ok", "refused", "lost"}
  BY DEF Answers
<1>10. LooseGuests' = LooseGuests
  BY <1>7 DEF LooseGuests
<1>11. LooseStores = cloud[k] \ {n, 0}
  BY <1>1, <1>4 DEF LooseStores, FreeStores
<1>12. CASE a = "ok"
  <2>1. run'.pc = "record"
    BY <1>7, <1>12
  <2>2. ArtifactsGood
    BY <1>1, <1>2, <1>4, <1>5, <1>6, <1>7, <1>12, <2>1, ArtifactsBefores DEF ArtifactsGood
  <2>3. LooseStores' = LooseStores
    BY <1>1, <1>4, <1>7, <2>1 DEF LooseStores, FreeStores
  <2> QED  BY <1>8, <1>10, <2>2, <2>3, ArtifactsKeeps DEF ArtifactsCounted
<1>13. CASE a # "ok"
  <2>1. run'.pc \in {"tidy", "cleanup"} /\ (run'.pc = "tidy" <=> run.fresh # 0)
    BY <1>7, <1>13
  <2>2. \A m \in Ids : host'[k][m] = g => losses' > 0
    <3>1. CASE a = "lost"
      BY <1>2, <1>4, <3>1
    <3>2. CASE a = "refused"
      BY <1>1, <1>2, <1>4, <3>2
    <3> QED  BY <1>9, <1>13, <3>1, <3>2
  <2>3. ArtifactsGood
    BY <1>1, <1>4, <1>5, <1>6, <1>7, <2>1, <2>2, ArtifactsBefores DEF ArtifactsGood
  <2>4. ArtifactsCounted
    <3>1. CASE a = "refused"
      <4>1. LooseStores' \subseteq LooseStores
        BY <1>1, <1>2, <1>4, <1>7, <1>11, <2>1, <3>1 DEF LooseStores, FreeStores
      <4> QED  BY <1>10, <4>1 DEF ArtifactsCounted
    <3>2. CASE a = "lost"
      <4>1. LooseStores' \subseteq LooseStores \cup {n}
        BY <1>4, <1>11 DEF LooseStores
      <4> HIDE DEF n
      <4> QED  BY <1>2, <1>10, <3>2, <4>1 DEF ArtifactsCounted
    <3> QED  BY <1>9, <1>13, <3>1, <3>2
  <2> QED  BY <1>8, <2>3, <2>4, ArtifactsKeeps
<1> QED  BY <1>12, <1>13

\* A store made for the guest is deleted, or the deletion fails.
LEMMA StoreTidiedOK ==
  ASSUME IInv, Current = "artifacts", run.pc = "tidy", GuestKeep,
         UNCHANGED <<half, owner, file, born, blind, keyLost, mem, host>>,
         NEW bad \in BOOLEAN, losses' = losses + (IF bad THEN 1 ELSE 0),
         cloud' = IF bad \/ host.store[run.found] # 0 THEN cloud
                  ELSE [cloud EXCEPT !.store = @ \ {run.found}],
         run' = To("cleanup")
  PROVE  IInv'
<1> DEFINE k == "store"
           n == run.found
<1>1. /\ n \in Ids /\ n # 0 /\ run.fresh = n /\ run \in Runs /\ TypeOK
      /\ mem["artifacts"] = 0 /\ file["artifacts"] = 0
  BY ArtifactsBefores
<1>2. /\ cloud' \in [Kinds -> SUBSET Ids] /\ \A j \in Kinds \ {k} : cloud'[j] = cloud[j]
      /\ cloud'[k] = IF bad \/ host[k][n] # 0 THEN cloud[k] ELSE cloud[k] \ {n}
  <2>1. cloud[k] \ {n} \in SUBSET Ids
    BY ArtifactsBefores
  <2>2. /\ cloud \in [Kinds -> SUBSET Ids] /\ k \in Kinds
        /\ cloud' = IF bad \/ host[k][n] # 0 THEN cloud ELSE [cloud EXCEPT ![k] = cloud[k] \ {n}]
    BY ArtifactsBefores
  <2> HIDE DEF n
  <2>3. CASE bad \/ host[k][n] # 0
    BY <2>2, <2>3
  <2>4. CASE ~(bad \/ host[k][n] # 0)
    BY <1>1, <2>1, <2>2, <2>4, Instances
  <2> QED  BY <2>3, <2>4
<1>3. cloud'["artifacts"] = cloud["artifacts"]
  BY <1>2, ArtifactsBefores
<1>4. losses' \in Nat /\ losses' >= losses /\ (bad => losses' = losses + 1)
  BY ArtifactsBefores
<1>5. /\ run' \in Runs /\ run'.pc = "cleanup" /\ Stays
      /\ run'.found = n /\ run'.fresh = run.fresh /\ run'.guest = run.guest
  BY <1>1, RunTo DEF Stays, Points
<1>6. ArtifactsStep
  BY <1>2, <1>4, <1>5, ArtifactsBefores DEF ArtifactsStep, GuestKeep
<1>7. ArtifactsGood
  <2>1. Hosted(mem)' /\ Hosted(file)'
    BY <1>1 DEF Hosted
  <2>2. \A m \in Ids : host'[k][m] # 0 => m \in cloud'[k] /\ host'[k][m] \in cloud'["artifacts"]
    BY <1>2, <1>3, ArtifactsBefores
  <2>3. \A m \in Ids : host'[k][m] = run.guest => losses' > 0
    BY <1>4, ArtifactsBefores
  <2> QED  BY <1>1, <1>3, <1>5, <2>1, <2>2, <2>3, ArtifactsBefores DEF ArtifactsGood
<1>8. ArtifactsCounted
  <2>1. LooseGuests' = LooseGuests
    BY <1>3, <1>5 DEF LooseGuests
  <2>2. LooseStores = cloud[k] \ ({mem[k]} \cup {m \in {n} : host[k][m] = 0})
    BY <1>1 DEF LooseStores, FreeStores
  <2>3. LooseStores' = cloud'[k] \ {mem[k]}
    BY <1>5 DEF LooseStores, FreeStores
  <2>4. CASE bad
    <3>1. LooseStores' \subseteq LooseStores \cup {n}
      BY <1>2, <2>2, <2>3, <2>4
    <3> HIDE DEF n
    <3> QED  BY <1>4, <2>1, <2>4, <3>1 DEF ArtifactsCounted
  <2>5. CASE ~bad
    <3>1. LooseStores' \subseteq LooseStores
      BY <1>2, <2>2, <2>3, <2>5
    <3> QED  BY <2>1, <3>1 DEF ArtifactsCounted
  <2> QED  BY <2>4, <2>5
<1> QED  BY <1>6, <1>7, <1>8, ArtifactsKeeps

\* The store is attached, or tidied up.
LEMMA StoreOK == ASSUME IInv, AttachArtifactsDataVolume PROVE IInv'
<1>1. /\ GuestKeep /\ UNCHANGED <<half, file, born, blind, keyLost, mem>>
      /\ Current = "artifacts" /\ run.pc \in {"act", "attach", "tidy"}
  BY DEF AttachArtifactsDataVolume, At, Current
<1>2. CASE run.pc = "act"
  BY <1>1, <1>2, StoreMadeOK DEF AttachArtifactsDataVolume, At
<1>3. CASE run.pc = "attach"
  BY <1>1, <1>3, StoreAttachedOK DEF AttachArtifactsDataVolume, At
<1>4. CASE run.pc = "tidy"
  BY <1>1, <1>4, StoreTidiedOK DEF AttachArtifactsDataVolume, At
<1> QED  BY <1>1, <1>2, <1>3, <1>4

\* The guest is deleted, and on Proxmox what is attached to it.
LEMMA GuestRemovedOK == ASSUME IInv, CleanupOrphanArtifactsVM PROVE IInv'
<1> DEFINE k == "artifacts"
           g == run.guest
<1>1. /\ GuestKeep /\ UNCHANGED <<half, owner, file, born, blind, keyLost>>
      /\ Current = k /\ run.pc = "cleanup" /\ mem' = mem /\ run' = Clean("failed")
  BY DEF CleanupOrphanArtifactsVM, At, Current, FailStep
<1>2. PICK bad \in BOOLEAN :
        /\ losses' = losses + (IF bad THEN 1 ELSE 0)
        /\ cloud' = IF bad THEN cloud ELSE Without(k, g)
        /\ host' = IF bad THEN host ELSE Released(k, g)
  BY DEF CleanupOrphanArtifactsVM
<1>3. /\ TypeOK /\ run \in Runs /\ g \in Ids /\ mem[k] = 0 /\ file[k] = 0 /\ k \in Kinds
      /\ losses \in Nat /\ cloud \in [Kinds -> SUBSET Ids]
      /\ host \in [Disks -> [Ids -> Ids \cup {0}]]
  BY <1>1, ArtifactsBefores
<1>4. /\ run' \in Runs /\ run'.pc = "failed" /\ Stays
      /\ run'.found = 0 /\ run'.fresh = 0 /\ run'.guest = 0
  BY <1>1, <1>3, ArtifactsEnds
<1>5. GuestOf["store"] = k /\ GuestOf["disk"] = "bastion" /\ Disks = {"disk", "store"} /\ Disks \subseteq Kinds
  BY DEF GuestOf, Disks, Kinds
<1>6. /\ cloud' \in [Kinds -> SUBSET Ids] /\ \A j \in Kinds \ {k, "store"} : cloud'[j] = cloud[j]
      /\ cloud'["store"] \subseteq cloud["store"] /\ cloud'[k] \subseteq cloud[k]
      /\ ~bad => cloud'[k] = cloud[k] \ {g}
  <2>1. CASE bad
    BY <1>2, <1>3, <2>1
  <2>2. CASE ~bad
    <3>1. cloud' = Without(k, g)
      BY <1>2, <2>2
    <3>2. \A j \in Kinds \ {k, "store"} : j \notin Disks \/ GuestOf[j] # k
      BY <1>5
    <3> HIDE DEF g
    <3> QED  BY <1>3, <1>5, <3>1, <3>2, WithoutIs
  <2> QED  BY <2>1, <2>2
<1>7. /\ host' \in [Disks -> [Ids -> Ids \cup {0}]] /\ host'["disk"] = host["disk"]
      /\ \A n \in Ids : host'["store"][n] # 0 => n \in cloud'["store"] /\ host'["store"][n] \in cloud'[k]
  <2>1. CASE bad
    BY <1>1, <1>2, <1>3, <2>1, ArtifactsBefores
  <2>2. CASE ~bad
    <3>1. cloud' = Without(k, g) /\ host' = Released(k, g)
      BY <1>2, <2>2
    <3> HIDE DEF g
    <3>2. host' \in [Disks -> [Ids -> Ids \cup {0}]]
      BY <1>3, <3>1, ReleasedIs
    <3>3. \A n \in Ids : host'["disk"][n] = host["disk"][n]
      BY <1>3, <1>5, <3>1, ReleasedIs
    <3>4. host'["disk"] = host["disk"]
      BY <1>3, <1>5, <3>2, <3>3
    <3>5. \A n \in Ids : host'["store"][n] # 0 => n \in cloud'["store"] /\ host'["store"][n] \in cloud'[k]
      BY <1>3, <1>5, <3>1, ReleasedIsThere
    <3> QED  BY <3>2, <3>4, <3>5
  <2> QED  BY <2>1, <2>2
<1>8. ArtifactsStep
  BY <1>1, <1>2, <1>3, <1>4, <1>6, <1>7, ArtifactsBefores DEF ArtifactsStep, GuestKeep
<1>9. ArtifactsGood
  <2>1. Hosted(mem)' /\ Hosted(file)'
    BY <1>1, <1>3 DEF Hosted
  <2> QED  BY <1>4, <1>7, <2>1 DEF ArtifactsGood
<1>10. ArtifactsCounted
  <2>1. LooseStores' \subseteq LooseStores
    BY <1>1, <1>4, <1>6 DEF LooseStores, FreeStores
  <2>2. CASE bad
    <3>1. LooseGuests' \subseteq LooseGuests \cup {g}
      BY <1>1, <1>6 DEF LooseGuests
    <3> HIDE DEF g
    <3> QED  BY <1>2, <2>1, <2>2, <3>1 DEF ArtifactsCounted
  <2>3. CASE ~bad
    <3>1. LooseGuests' \subseteq LooseGuests
      BY <1>1, <1>4, <1>6, <2>3 DEF LooseGuests
    <3> QED  BY <2>1, <3>1 DEF ArtifactsCounted
  <2> QED  BY <2>2, <2>3
<1> QED  BY <1>1, <1>8, <1>9, <1>10, ArtifactsKeeps

\* The guest and its store are recorded together.
LEMMA GuestRecordedOK == ASSUME IInv, RecordArtifactsState PROVE IInv'
<1> DEFINE doc == [mem EXCEPT !.artifacts = run.guest, !.store = run.found]
<1>1. /\ GuestKeep /\ UNCHANGED <<cloud, half, host, owner, file, born, blind, keyLost, losses>>
      /\ Current = "artifacts" /\ run.pc = "record"
      /\ mem' = doc /\ (run' = Clean("save") \/ run' = Clean("failed"))
  BY DEF RecordArtifactsState, At, Current, cloudVars, FailStep, Complete
<1>2. /\ run.found \in Ids /\ run.guest \in Ids /\ run.guest \in cloud["artifacts"] /\ run \in Runs
      /\ host["store"][run.found] = run.guest /\ file["artifacts"] = 0 /\ mem["artifacts"] = 0
      /\ run.fresh \in {0, run.found} /\ run.found # 0 /\ run.guest # 0
      /\ mem["store"] = IF run.fresh = 0 THEN run.found ELSE 0
      /\ mem \in [Kinds -> Ids \cup {0}]
  BY <1>1, ArtifactsBefores
<1>3. /\ mem' \in [Kinds -> Ids \cup {0}] /\ mem'["artifacts"] = run.guest /\ mem'["store"] = run.found
      /\ \A j \in Kinds \ {"artifacts", "store"} : mem'[j] = mem[j]
  BY <1>1, <1>2 DEF Kinds
<1>4. /\ run' \in Runs /\ run'.pc \in {"save", "failed"} /\ Stays
      /\ run'.found = 0 /\ run'.fresh = 0 /\ run'.guest = 0
  BY <1>1, <1>2, ArtifactsEnds
<1>5. ArtifactsStep
  BY <1>1, <1>3, <1>4, ArtifactsBefores DEF ArtifactsStep, GuestKeep
<1>6. ArtifactsGood
  <2>1. Hosted(mem)' /\ Hosted(file)'
    BY <1>1, <1>2, <1>3 DEF Hosted
  <2> QED  BY <1>1, <1>2, <1>3, <1>4, <2>1, ArtifactsBefores DEF ArtifactsGood
<1>7. ArtifactsCounted
  <2>1. LooseGuests' \subseteq LooseGuests
    BY <1>1, <1>2, <1>3, <1>4 DEF LooseGuests
  <2>2. LooseStores' \subseteq LooseStores
    BY <1>1, <1>2, <1>3, <1>4, ArtifactsBefores DEF LooseStores, FreeStores
  <2> QED  BY <2>1, <2>2 DEF ArtifactsCounted
<1> QED  BY <1>1, <1>5, <1>6, <1>7, ArtifactsKeeps

-----------------------------------------------------------------------------
(* Between the steps. *)

\* A run knows of one resource of a kind beside the entry.
LEMMA OneInHand == ASSUME NEW k PROVE \E x : Free(k) \subseteq {x}
<1>1. \E x : Hand(k) \subseteq {x}
  BY DEF Hand
<1> QED  BY <1>1 DEF Free

\* Between the steps a run holds nothing.
LEMMA EmptyHands ==
  ASSUME IInv, run.pc \in Between, NEW k \in Parts
  PROVE  Loose(k) = cloud[k] \ {mem[k]} /\ cloud[k] \subseteq Ids /\ 0 \notin cloud[k]
<1>1. run.guest = 0 /\ run.fresh = 0
  BY DEF IInv, Holding
<1>2. run.pc \notin {"attach", "tidy", "record"}
  BY DEF Between
<1>3. Hand(k) \subseteq {0}
  <2>1. CASE k = "artifacts"
    BY <1>1, <2>1 DEF Hand
  <2>2. CASE k # "artifacts"
    BY <1>2, <2>2 DEF Hand
  <2> QED  BY <2>1, <2>2
<1>4. Free(k) \subseteq {0}
  BY <1>3 DEF Free
<1>5. cloud[k] \subseteq Ids /\ 0 \notin cloud[k]
  BY Documents DEF IInv, Parts, Kinds, Ids
<1> QED  BY <1>4, <1>5 DEF Loose

\* Of the resources that are not in the file, all but one are accounted for,
\* and all when nothing runs and while a run rolls back.
LEMMA NotInTheFile ==
  ASSUME IInv, NEW k \in Parts
  PROVE  /\ Cardinality(cloud[k] \ {file[k]}) <= losses + 1
         /\ run.pc \in {"idle", "rollback"} => Cardinality(cloud[k] \ {file[k]}) <= losses
         /\ run.pc \in Between => Cardinality(cloud[k] \ {mem[k]}) <= losses
         /\ Cardinality(cloud[k] \ {file[k]}) \in Nat /\ losses \in Nat
<1>1. cloud[k] \subseteq Ids /\ losses \in Nat
  BY Documents DEF IInv, Parts, Kinds
<1>2. Cardinality(Loose(k)) <= losses
  BY DEF IInv, Counted
<1>3. run.pc = "rollback" => Cardinality(cloud[k] \ {file[k]}) <= losses
  BY DEF IInv, Counted
<1>4. run.pc \in Between => Cardinality(cloud[k] \ {mem[k]}) <= losses
  BY <1>2, EmptyHands
<1>5. run.pc = "idle" => mem[k] = file[k]
  BY DEF IInv
<1>6. \E x : cloud[k] \ {file[k]} \subseteq Loose(k) \cup {x}
  <2>1. CASE run.pc \in {"save", "failed", "rollback"}
    <3>1. Loose(k) = cloud[k] \ {mem[k]}
      BY <2>1, EmptyHands DEF Between
    <3> QED  BY <3>1
  <2>2. CASE run.pc \notin {"save", "failed", "rollback"}
    <3>1. mem[k] = file[k]
      BY <2>2 DEF IInv, Counted
    <3>2. PICK x : Free(k) \subseteq {x}
      BY OneInHand
    <3> QED  BY <3>1, <3>2 DEF Loose
  <2> QED  BY <2>1, <2>2
<1>7. PICK x : cloud[k] \ {file[k]} \subseteq Loose(k) \cup {x}
  BY <1>6
<1>8. /\ Cardinality(cloud[k] \ {file[k]}) <= Cardinality(Loose(k)) + 1
      /\ Cardinality(cloud[k] \ {file[k]}) \in Nat /\ Cardinality(Loose(k)) \in Nat
  <2>1. Loose(k) \subseteq Ids /\ cloud[k] \ {file[k]} \subseteq Ids
    BY <1>1 DEF Loose
  <2> QED  BY <1>7, <2>1, OneMore
<1>9. run.pc = "idle" => Cardinality(cloud[k] \ {file[k]}) <= losses
  BY <1>4, <1>5 DEF Between
<1> QED  BY <1>1, <1>2, <1>3, <1>4, <1>8, <1>9

\* When a run is over its document is the file: what the file names is there,
\* and what it does not name is accounted for.
LEMMA RestKeeps ==
  ASSUME IInv, run' = Idle \/ (run.pc = "idle" /\ run' = run), mem' = file', UNCHANGED <<provider, half, owner, born, blind>>,
         cloud' \in [Kinds -> SUBSET Ids], \A j \in Kinds \ {"artifacts"} : cloud'[j] = cloud[j],
         host' \in [Disks -> [Ids -> Ids \cup {0}]],
         \A d \in Disks, n \in Ids :
            host'[d][n] # 0 => n \in cloud'[d] /\ host'[d][n] \in cloud'[GuestOf[d]],
         file' \in [Kinds -> Ids \cup {0}],
         \A j \in {"keypair", "bastion"} : file'[j] \in {file[j], mem[j]},
         used' \subseteq Disks \X Ids, losses' \in Nat, {misled', keyLost'} \subseteq BOOLEAN,
         local' \in Ids \cup {0}, keyLost => keyLost', local' = local \/ keyLost',
         ~misled' => True(file)',
         \A k \in Parts : Cardinality(cloud'[k] \ {file'[k]}) <= losses'
  PROVE  IInv'
<1>1. /\ "bastion" \in Kinds \ {"artifacts"} /\ "keypair" \in Kinds
      /\ LookedFor \subseteq Kinds \ {"artifacts"} /\ Parts \subseteq Kinds
  BY DEF Kinds, LookedFor, Parts
<1>2. /\ run'.pc = "idle" /\ run'.found = 0 /\ run'.fresh = 0 /\ run'.guest = 0 /\ run' \in Runs
      /\ run'.step \in DOMAIN Selected(run'.mode) /\ run'.try \in 1 .. MaxTries
  <2>1. CASE run' = Idle
    <3>1. 1 \in 1 .. MaxTries /\ 1 \in 1 .. 9
      OBVIOUS
    <3>2. DOMAIN Selected("all") = 1 .. Len(Selected("all")) /\ Len(Selected("all")) \in 1 .. 9
      BY Table
    <3>3. 1 \in DOMAIN Selected("all")
      BY <3>2
    <3> QED  BY <2>1, <3>1, <3>3 DEF Idle, Runs, Points
  <2>2. CASE run.pc = "idle" /\ run' = run
    BY <2>2 DEF IInv, Holding, Between, TypeOK
  <2> QED  BY <2>1, <2>2
<1>3. TypeOK'
  <2>2. {run'.found, run'.fresh, run'.guest} \subseteq Ids \cup {0}
    BY <1>2
  <2>3. half' \subseteq cloud'["bastion"]
    BY <1>1 DEF IInv, TypeOK
  <2> QED  BY <1>2, <2>2, <2>3 DEF IInv, TypeOK
<1>4. Holding'
  BY <1>2 DEF Holding, Between
<1>5. Seen' /\ Blamed' /\ Past'
  BY <1>2 DEF Seen, Blamed, Past, Between
<1>6. Single'
  <2>1. \A j \in LookedFor \ (blind' \cup {"bastion"}) : Alone(cloud'[j])
    BY <1>1 DEF IInv, Single
  <2>2. Tagged' = Tagged
    BY <1>1 DEF Tagged
  <2>3. half \cap {file["bastion"], mem["bastion"]} = {} /\ ("bastion" \notin blind => Alone(Tagged))
    BY DEF IInv, Single
  <2> QED  BY <1>2, <2>1, <2>2, <2>3 DEF Single
<1>7. Counted'
  <2> SUFFICES ASSUME NEW k \in Parts PROVE Cardinality(Loose(k)') <= losses'
    BY <1>2 DEF Counted
  <2>1. cloud'[k] \subseteq Ids
    BY <1>1
  <2>2. Loose(k)' \subseteq cloud'[k] \ {file'[k]}
    BY DEF Loose
  <2>3. /\ Cardinality(Loose(k)') <= Cardinality(cloud'[k] \ {file'[k]})
        /\ Cardinality(Loose(k)') \in Nat /\ Cardinality(cloud'[k] \ {file'[k]}) \in Nat
    <3>1. cloud'[k] \ {file'[k]} \subseteq Ids
      BY <2>1
    <3> QED  BY <2>2, <3>1, NoMore
  <2> QED  BY <2>3
<1>8. Truth'
  BY <1>2 DEF Truth, True
<1>9. Keyed'
  <2> SUFFICES ASSUME ~InCloud("keypair"), ~keyLost'
               PROVE  /\ {file'.keypair, mem'.keypair} \subseteq {0, local'}
                      /\ \A n \in (cloud'.bastion \cup {file'.bastion, mem'.bastion}) \ {0} :
                            born'[n] = local' /\ local' # 0
    BY DEF Keyed, InCloud
  <2>1. /\ {file.keypair, mem.keypair} \subseteq {0, local} /\ local' = local
        /\ \A n \in (cloud.bastion \cup {file.bastion, mem.bastion}) \ {0} : born[n] = local /\ local # 0
    BY DEF IInv, Keyed
  <2> QED  BY <1>1, <2>1
<1> QED  BY <1>2, <1>3, <1>4, <1>5, <1>6, <1>7, <1>8, <1>9 DEF IInv

\* A run that is over leaves what there is.
LEMMA EndKeeps ==
  ASSUME IInv, run' = Idle \/ (run.pc = "idle" /\ run' = run), mem' = file', UNCHANGED <<provider, cloudVars, born, blind>>,
         file' \in {file, mem},
         used' \subseteq Disks \X Ids, losses' \in Nat, {misled', keyLost'} \subseteq BOOLEAN,
         local' \in Ids \cup {0}, keyLost => keyLost', local' = local \/ keyLost',
         ~misled' => True(file)',
         \A k \in Parts : Cardinality(cloud[k] \ {file'[k]}) <= losses'
  PROVE  IInv'
<1>1. TypeOK
  BY DEF IInv
<1>2. /\ cloud' \in [Kinds -> SUBSET Ids] /\ host' \in [Disks -> [Ids -> Ids \cup {0}]]
      /\ \A d \in Disks, n \in Ids :
            host'[d][n] # 0 => n \in cloud'[d] /\ host'[d][n] \in cloud'[GuestOf[d]]
      /\ file' \in [Kinds -> Ids \cup {0}] /\ cloud' = cloud
  BY <1>1, Documents DEF cloudVars, TypeOK
<1>3. \A j \in {"keypair", "bastion"} : file'[j] \in {file[j], mem[j]}
  OBVIOUS
<1>4. UNCHANGED <<provider, half, owner, born, blind>>
  BY DEF cloudVars
<1>5. \A j \in Kinds \ {"artifacts"} : cloud'[j] = cloud[j]
  BY <1>2
<1>6. \A k \in Parts : Cardinality(cloud'[k] \ {file'[k]}) <= losses'
  BY <1>2
<1> QED  BY <1>2, <1>3, <1>4, <1>5, <1>6, RestKeeps

\* What a document names stays named when it is saved, or nothing changes.
LEMMA StillTrue ==
  ASSUME IInv, UNCHANGED <<provider, cloudVars>>, ~misled
  PROVE  /\ file' = mem => True(file)'
         /\ run.pc # "rollback" /\ file' = file => True(file)'
<1>1. True(mem) /\ (run.pc # "rollback" => True(file))
  BY DEF IInv, Truth
<1> QED  BY <1>1 DEF True, InCloud, cloudVars

-----------------------------------------------------------------------------
(* The run. *)

\* A run reads the file.
LEMMA StartOK == ASSUME IInv, Start PROVE IInv'
<1>1. PICK mode \in {"all", "bastion"} : run' = [Idle EXCEPT !.pc = "look", !.mode = mode]
  BY DEF Start
<1>2. /\ UNCHANGED <<provider, cloud, half, host, owner, local, born, blind, misled, keyLost>>
      /\ UNCHANGED <<file, used, losses>> /\ mem' = mem /\ mem = file /\ run.pc = "idle"
  BY DEF Start, RunKeep, cloudVars, IInv
<1>3. /\ run'.pc = "look" /\ run'.found = 0 /\ run'.fresh = 0 /\ run'.guest = 0
      /\ run'.step = 1 /\ run'.mode = mode /\ run'.try = 1 /\ run' \in Runs
  <2>1. 1 \in 1 .. MaxTries /\ 1 \in 1 .. 9
    OBVIOUS
  <2> QED  BY <1>1, <2>1 DEF Idle, Runs, Points
<1>4. TypeOK'
  <2>1. run'.step \in DOMAIN Selected(run'.mode) /\ run'.try \in 1 .. MaxTries
    <3>1. DOMAIN Selected(mode) = 1 .. Len(Selected(mode)) /\ Len(Selected(mode)) \in 1 .. 9
      BY Table
    <3> QED  BY <1>3, <3>1
  <2>2. {run'.found, run'.fresh, run'.guest} \subseteq Ids \cup {0}
    BY <1>3
  <2> QED  BY <1>2, <2>1, <2>2 DEF IInv, TypeOK
<1>5. Holding' /\ Seen' /\ Blamed'
  BY <1>3 DEF Holding, Seen, Blamed, Between
<1>6. Single'
  <2>1. Tagged' = Tagged
    BY <1>2 DEF Tagged
  <2> QED  BY <1>2, <1>3, <2>1 DEF IInv, Single
<1>7. Counted'
  <2> SUFFICES ASSUME NEW k \in Parts PROVE Cardinality(Loose(k)') <= losses'
    BY <1>2, <1>3 DEF Counted
  <2>1. Loose(k)' \subseteq cloud[k] \ {mem[k]}
    BY <1>2 DEF Loose
  <2>2. cloud[k] \ {mem[k]} \subseteq Ids
    BY <1>2, EmptyHands DEF Between
  <2>3. /\ Cardinality(Loose(k)') <= Cardinality(cloud[k] \ {mem[k]})
        /\ Cardinality(Loose(k)') \in Nat /\ Cardinality(cloud[k] \ {mem[k]}) \in Nat
    BY <2>1, <2>2, NoMore
  <2>4. Cardinality(cloud[k] \ {mem[k]}) <= losses /\ losses \in Nat
    BY <1>2, NotInTheFile DEF Between
  <2> QED  BY <1>2, <2>3, <2>4
<1>8. Truth'
  BY <1>2 DEF IInv, Truth, True, InCloud
<1>9. Past'
  BY <1>3 DEF Past
<1>10. Keyed'
  BY <1>2 DEF IInv, Keyed, InCloud
<1> QED  BY <1>3, <1>4, <1>5, <1>6, <1>7, <1>8, <1>9, <1>10 DEF IInv

\* What one more accident leaves unaccounted for.
LEMMA LostSave ==
  ASSUME IInv, UNCHANGED file, losses' = losses + 1
  PROVE  \A k \in Parts : Cardinality(cloud[k] \ {file'[k]}) <= losses'
<1> TAKE k \in Parts
<1>1. /\ Cardinality(cloud[k] \ {file[k]}) <= losses + 1
      /\ Cardinality(cloud[k] \ {file[k]}) \in Nat /\ losses \in Nat
  BY NotInTheFile
<1> QED  BY <1>1

\* A saved document leaves unaccounted what it left before.
LEMMA KeptSave ==
  ASSUME IInv, file' = mem, run.pc \in Between, losses' = losses
  PROVE  \A k \in Parts : Cardinality(cloud[k] \ {file'[k]}) <= losses'
<1> TAKE k \in Parts
<1> QED  BY NotInTheFile

\* A step that is not the last has one after it.
LEMMA OneFurther ==
  ASSUME NEW L \in 1 .. 9, NEW i \in 1 .. L, i # L PROVE i + 1 \in 1 .. L /\ i + 1 \in 1 .. 9
OBVIOUS

\* The steps before the next one are those before this one, and this one.
LEMMA NotYet ==
  ASSUME NEW i \in 1 .. 9, NEW s \in 1 .. 9, s < i + 1 PROVE s < i \/ s = i
OBVIOUS

\* The document is saved and the next step begins.
LEMMA NextStepOK ==
  ASSUME IInv, run.pc = "save", UNCHANGED <<provider, cloudVars, local, born, blind, misled, keyLost>>,
         UNCHANGED <<mem, used, losses>>, file' = mem, run.step # Len(Selected(run.mode)),
         run' = [run EXCEPT !.pc = "look", !.step = @ + 1]
  PROVE  IInv'
<1>1. /\ run.step + 1 \in DOMAIN Selected(run.mode) /\ run.step + 1 \in 1 .. 9
      /\ run.step \in 1 .. 9
  <2>1. /\ DOMAIN Selected(run.mode) = 1 .. Len(Selected(run.mode))
        /\ Len(Selected(run.mode)) \in 1 .. 9 /\ run.step \in DOMAIN Selected(run.mode)
        /\ run.step \in 1 .. 9
    BY InStep, Table
  <2> DEFINE L == Len(Selected(run.mode))
  <2>2. L \in 1 .. 9 /\ DOMAIN Selected(run.mode) = 1 .. L /\ run.step \in 1 .. L /\ run.step # L
    BY <2>1
  <2> HIDE DEF L
  <2>3. run.step + 1 \in 1 .. L /\ run.step + 1 \in 1 .. 9
    BY <2>2, OneFurther
  <2> QED  BY <2>1, <2>2, <2>3
<1>2. run \in Runs /\ TypeOK /\ run.found = 0 /\ run.fresh = 0 /\ run.guest = 0
  BY DEF IInv, Holding, Between
<1>3. /\ run' \in Runs /\ run'.pc = "look" /\ run'.step = run.step + 1 /\ run'.mode = run.mode
      /\ run'.found = 0 /\ run'.fresh = 0 /\ run'.guest = 0 /\ run'.try = run.try
  BY <1>1, <1>2 DEF Runs, Points
<1>4. UNCHANGED <<cloud, half, host, owner>> /\ cloud' = cloud /\ host' = host
  BY DEF cloudVars
<1>5. TypeOK'
  <2>1. run'.step \in DOMAIN Selected(run'.mode) /\ run'.try \in 1 .. MaxTries
    BY <1>1, <1>2, <1>3 DEF TypeOK
  <2>2. {run'.found, run'.fresh, run'.guest} \subseteq Ids \cup {0}
    BY <1>3
  <2> QED  BY <1>2, <1>4, <2>1, <2>2 DEF TypeOK
<1>6. Holding' /\ Seen' /\ Blamed'
  BY <1>3 DEF Holding, Seen, Blamed, Between
<1>7. Single'
  <2>1. Tagged' = Tagged
    BY <1>4 DEF Tagged
  <2> QED  BY <1>3, <1>4, <2>1 DEF IInv, Single
<1>8. Counted'
  <2> SUFFICES ASSUME NEW k \in Parts PROVE Cardinality(Loose(k)') <= losses'
    BY <1>3 DEF Counted
  <2>1. Loose(k)' \subseteq cloud[k] \ {mem[k]}
    BY <1>4 DEF Loose
  <2>2. cloud[k] \ {mem[k]} \subseteq Ids
    BY EmptyHands DEF Between
  <2>3. /\ Cardinality(Loose(k)') <= Cardinality(cloud[k] \ {mem[k]})
        /\ Cardinality(Loose(k)') \in Nat /\ Cardinality(cloud[k] \ {mem[k]}) \in Nat
    BY <2>1, <2>2, NoMore
  <2>4. Cardinality(cloud[k] \ {mem[k]}) <= losses /\ losses \in Nat
    BY NotInTheFile DEF Between
  <2> QED  BY <2>3, <2>4
<1>9. Truth'
  BY <1>3, <1>4 DEF IInv, Truth, True, InCloud
<1>10. Past'
  <2> SUFFICES ASSUME NEW s \in 1 .. 9, s < run.step + 1, NEW j, j = Selected(run.mode)[s]
               PROVE  Has(j)'
    BY <1>3, Zenon DEF Past
  <2>1. s < run.step \/ s = run.step
    BY <1>1, NotYet
  <2>2. Has(j)
    BY <2>1 DEF IInv, Past
  <2> QED  BY <1>4, <2>2 DEF Has, Supported, InCloud
<1>11. Keyed'
  BY <1>4 DEF IInv, Keyed, InCloud
<1> QED  BY <1>3, <1>5, <1>6, <1>7, <1>8, <1>9, <1>10, <1>11 DEF IInv

\* The document is saved after a step, or that fails; the last step ends the
\* run.
LEMMA SaveOK == ASSUME IInv, Save PROVE IInv'
<1>1. /\ UNCHANGED <<provider, cloudVars, local, born, blind, misled, keyLost>>
      /\ run.pc = "save" /\ run.pc \in Between
  BY DEF Save, RunKeep, Between
<1>2. /\ TypeOK /\ misled \in BOOLEAN /\ keyLost \in BOOLEAN /\ losses \in Nat
      /\ local \in Ids \cup {0} /\ used \subseteq Disks \X Ids
  BY DEF IInv, TypeOK
<1>3. ASSUME file' = mem, UNCHANGED losses, run.step # Len(Selected(run.mode)),
             run' = [run EXCEPT !.pc = "look", !.step = @ + 1], UNCHANGED <<mem, used>>
      PROVE  IInv'
  BY <1>1, <1>3, NextStepOK
<1>4. ASSUME file' = mem, UNCHANGED losses, End("ok"), used' = used \cup Attached
      PROVE  IInv'
  <2>1. Attached \subseteq Disks \X Ids
    BY DEF Attached
  <2>2. ~misled' => True(file)'
    BY <1>1, <1>4, StillTrue
  <2>3. \A k \in Parts : Cardinality(cloud[k] \ {file'[k]}) <= losses'
    BY <1>1, <1>4, KeptSave
  <2> QED  BY <1>1, <1>2, <1>4, <2>1, <2>2, <2>3, EndKeeps DEF End
<1>5. ASSUME Call("lost"), UNCHANGED <<file, used>>, End("failed")
      PROVE  IInv'
  <2>1. losses' = losses + 1
    BY <1>5 DEF Call
  <2>2. ~misled' => True(file)'
    BY <1>1, <1>5, StillTrue
  <2>3. \A k \in Parts : Cardinality(cloud[k] \ {file'[k]}) <= losses'
    BY <1>5, <2>1, LostSave
  <2> QED  BY <1>1, <1>2, <1>5, <2>1, <2>2, <2>3, EndKeeps DEF End
<1> QED  BY <1>3, <1>4, <1>5 DEF Save

\* A step that failed: what was done is saved if it can be, and the operator
\* rolls back or not.
LEMMA ErrorHandledOK == ASSUME IInv, HandleBootstrapStepError PROVE IInv'
<1>1. /\ UNCHANGED <<provider, cloudVars, local, born, blind, misled, keyLost, used>>
      /\ run.pc = "failed" /\ run.pc \in Between
  BY DEF HandleBootstrapStepError, RunKeep, Between
<1>2. /\ TypeOK /\ misled \in BOOLEAN /\ keyLost \in BOOLEAN /\ losses \in Nat /\ run \in Runs
      /\ local \in Ids \cup {0} /\ used \subseteq Disks \X Ids
  BY DEF IInv, TypeOK
<1>3. CASE file' = mem /\ UNCHANGED losses /\ End("failed")
  <2>1. ~misled' => True(file)'
    BY <1>1, <1>3, StillTrue
  <2>2. \A k \in Parts : Cardinality(cloud[k] \ {file'[k]}) <= losses'
    BY <1>1, <1>3, KeptSave
  <2> QED  BY <1>1, <1>2, <1>3, <2>1, <2>2, EndKeeps DEF End
<1>4. CASE Call("lost") /\ UNCHANGED file /\ End("failed")
  <2>1. losses' = losses + 1
    BY <1>4 DEF Call
  <2>2. ~misled' => True(file)'
    BY <1>1, <1>4, StillTrue
  <2>3. \A k \in Parts : Cardinality(cloud[k] \ {file'[k]}) <= losses'
    BY <1>4, <2>1, LostSave
  <2> QED  BY <1>1, <1>2, <1>4, <2>1, <2>2, <2>3, EndKeeps DEF End
<1>5. CASE /\ (file' = mem /\ UNCHANGED losses) \/ (UNCHANGED file /\ losses' = losses + 1)
           /\ UNCHANGED mem
           /\ run' = [run EXCEPT !.pc = "rollback",
                        !.undo = {k \in DOMAIN RollbackOrder : mem[k] # 0}]
  <2>1. {k \in DOMAIN RollbackOrder : mem[k] # 0} \subseteq Kinds
    BY DEF RollbackOrder, Kinds
  <2>2. /\ run' \in Runs /\ run'.pc = "rollback" /\ run'.step = run.step /\ run'.mode = run.mode
        /\ run'.found = run.found /\ run'.fresh = run.fresh /\ run'.guest = run.guest
        /\ run'.try = run.try
    BY <1>2, <1>5, <2>1 DEF Runs, Points
  <2>3. run.found = 0 /\ run.fresh = 0 /\ run.guest = 0
    BY <1>1 DEF IInv, Holding
  <2>4. cloud' = cloud /\ host' = host /\ half' = half /\ owner' = owner
    BY <1>1 DEF cloudVars
  <2>5. TypeOK'
    <3>1. run'.step \in DOMAIN Selected(run'.mode) /\ run'.try \in 1 .. MaxTries
      BY <1>2, <2>2 DEF TypeOK
    <3>2. {run'.found, run'.fresh, run'.guest} \subseteq Ids \cup {0}
      BY <2>2, <2>3
    <3> QED  BY <1>1, <1>2, <1>5, <2>4, <3>1, <3>2 DEF TypeOK
  <2>6. Holding' /\ Seen' /\ Blamed' /\ Past'
    BY <2>2, <2>3 DEF Holding, Seen, Blamed, Past, Between
  <2>7. Single'
    <3>1. Tagged' = Tagged
      BY <2>4 DEF Tagged
    <3> QED  BY <1>1, <1>5, <2>2, <2>4, <3>1 DEF IInv, Single
  <2>8. Counted'
    <3> SUFFICES ASSUME NEW k \in Parts
                 PROVE  /\ Cardinality(Loose(k)') <= losses'
                        /\ Cardinality(cloud'[k] \ {file'[k]}) <= losses'
      BY <2>2 DEF Counted
    <3>1. Loose(k)' \subseteq cloud[k] \ {mem[k]}
      BY <1>5, <2>4 DEF Loose
    <3>2. cloud[k] \ {mem[k]} \subseteq Ids
      BY <1>1, EmptyHands
    <3>3. /\ Cardinality(Loose(k)') <= Cardinality(cloud[k] \ {mem[k]})
          /\ Cardinality(Loose(k)') \in Nat /\ Cardinality(cloud[k] \ {mem[k]}) \in Nat
      BY <3>1, <3>2, NoMore
    <3>4. Cardinality(cloud[k] \ {mem[k]}) <= losses /\ losses \in Nat
      BY <1>1, NotInTheFile
    <3>5. Cardinality(Loose(k)') <= losses'
      BY <1>5, <3>3, <3>4
    <3>6. CASE file' = mem /\ UNCHANGED losses
      BY <2>4, <3>4, <3>5, <3>6
    <3>7. CASE UNCHANGED file /\ losses' = losses + 1
      BY <2>4, <3>5, <3>7, LostSave
    <3> QED  BY <1>5, <3>6, <3>7
  <2>9. Truth'
    BY <1>1, <1>5, <2>2, <2>4 DEF IInv, Truth, True, InCloud
  <2>10. Keyed'
    BY <1>1, <1>5, <2>4 DEF IInv, Keyed, InCloud
  <2> QED  BY <2>2, <2>5, <2>6, <2>7, <2>8, <2>9, <2>10 DEF IInv
<1>6. (file' = mem /\ UNCHANGED losses) \/ (Call("lost") /\ UNCHANGED file)
  BY <1>2 DEF HandleBootstrapStepError, Call
<1> QED  BY <1>2, <1>3, <1>4, <1>5, <1>6 DEF HandleBootstrapStepError, Call

\* The process dies wherever it is.
LEMMA KillOK == ASSUME IInv, Kill PROVE IInv'
<1>1. /\ UNCHANGED <<provider, cloudVars, local, born, blind, keyLost, used, file>>
      /\ run' = Idle /\ mem' = file'
      /\ losses' = losses + (IF run.pc = "rollback" THEN 0 ELSE 1)
      /\ misled' = (misled \/ run.pc = "rollback")
  BY DEF Kill, End
<1>2. /\ TypeOK /\ misled \in BOOLEAN /\ keyLost \in BOOLEAN /\ losses \in Nat
      /\ local \in Ids \cup {0} /\ used \subseteq Disks \X Ids
  BY DEF IInv, TypeOK
<1>3. ~misled' => True(file)'
  BY <1>1, StillTrue
<1>4. \A k \in Parts : Cardinality(cloud[k] \ {file'[k]}) <= losses'
  <2>1. CASE run.pc = "rollback"
    <3>1. \A k \in Parts : Cardinality(cloud[k] \ {file[k]}) <= losses
      BY <2>1, NotInTheFile
    <3> QED  BY <1>1, <1>2, <2>1, <3>1
  <2>2. CASE run.pc # "rollback"
    BY <1>1, <2>2, LostSave
  <2> QED  BY <2>1, <2>2
<1>5. losses' \in Nat /\ misled' \in BOOLEAN
  BY <1>1, <1>2
<1> QED  BY <1>1, <1>2, <1>3, <1>4, <1>5, EndKeeps

\* The key file is lost while nothing runs.
LEMMA KeyFileLostOK == ASSUME IInv, LoseKeyFile PROVE IInv'
<1>1. /\ UNCHANGED <<provider, cloudVars, file, mem, born, used, blind, losses, misled>>
      /\ run.pc = "idle" /\ run' = run /\ mem = file /\ local' = 0 /\ keyLost' = TRUE
  BY DEF LoseKeyFile, IInv
<1>2. misled \in BOOLEAN /\ losses \in Nat /\ used \subseteq Disks \X Ids
  BY DEF IInv, TypeOK
<1>3. ~misled' => True(file)'
  BY <1>1, StillTrue
<1>4. \A k \in Parts : Cardinality(cloud[k] \ {file'[k]}) <= losses'
  BY <1>1, NotInTheFile
<1> QED  BY <1>1, <1>2, <1>3, <1>4, EndKeeps

\* The artifacts guest is torn down, its store kept.
LEMMA GuestTornDownOK == ASSUME IInv, TearDownArtifacts PROVE IInv'
<1> DEFINE k == "artifacts"
           n == file[k]
<1>1. /\ UNCHANGED <<provider, half, owner, local, born, run, used, blind, misled, keyLost, losses>>
      /\ run.pc = "idle" /\ run.pc \in Between /\ mem = file /\ n \in cloud[k]
      /\ cloud' = [cloud EXCEPT ![k] = cloud[k] \ {n}] /\ host' = Released(k, n)
      /\ file' = [file EXCEPT ![k] = 0] /\ mem' = file'
  BY DEF TearDownArtifacts, IInv, ghosts, Between
<1>2. /\ TypeOK /\ misled \in BOOLEAN /\ keyLost \in BOOLEAN /\ losses \in Nat
      /\ local \in Ids \cup {0} /\ used \subseteq Disks \X Ids
  BY DEF IInv, TypeOK
<1>3. /\ k \in Kinds /\ "bastion" \in Kinds /\ "keypair" \in Kinds /\ Disks \subseteq Kinds /\ k \notin Disks
      /\ Parts \subseteq Kinds /\ GuestOf["store"] = k /\ GuestOf["disk"] = "bastion"
      /\ Disks = {"disk", "store"} /\ "store" \in Kinds
  BY DEF Kinds, Disks, Parts, GuestOf
<1>4. /\ cloud' \in [Kinds -> SUBSET Ids] /\ \A j \in Kinds \ {k} : cloud'[j] = cloud[j]
      /\ cloud'[k] = cloud[k] \ {n} /\ n \in Ids /\ cloud[k] \subseteq Ids /\ 0 \notin cloud[k]
  <2>1. cloud[k] \subseteq Ids /\ 0 \notin cloud[k] /\ n \in Ids
    BY <1>1, <1>2, <1>3, Documents DEF Ids
  <2>2. cloud[k] \ {n} \in SUBSET Ids
    BY <2>1
  <2> HIDE DEF n
  <2> QED  BY <1>1, <1>2, <1>3, <2>1, <2>2, Instances
<1>5. /\ file' \in [Kinds -> Ids \cup {0}] /\ file'[k] = 0
      /\ \A j \in Kinds \ {k} : file'[j] = file[j]
  <2>1. file \in [Kinds -> Ids \cup {0}] /\ 0 \in Ids \cup {0}
    BY <1>2, Documents
  <2> QED  BY <1>1, <1>3, <2>1, Entry
<1>6. host' \in [Disks -> [Ids -> Ids \cup {0}]]
  <2> HIDE DEF n
  <2> QED  BY <1>1, <1>2, <1>3, <1>4, ReleasedIs
<1>7. \A d \in Disks, m \in Ids : host'[d][m] # 0 => m \in cloud'[d] /\ host'[d][m] \in cloud'[GuestOf[d]]
  <2> SUFFICES ASSUME NEW d \in Disks, NEW m \in Ids, host'[d][m] # 0
               PROVE  m \in cloud'[d] /\ host'[d][m] \in cloud'[GuestOf[d]]
    OBVIOUS
  <2>1. host'[d][m] = host[d][m] /\ ~(GuestOf[d] = k /\ host[d][m] = n)
    <3> HIDE DEF n
    <3> QED  BY <1>1, <1>2, <1>3, <1>4, ReleasedIs
  <2>2. m \in cloud[d] /\ host[d][m] \in cloud[GuestOf[d]]
    BY <1>2, <2>1 DEF TypeOK
  <2> QED  BY <1>3, <1>4, <2>1, <2>2
<1>9. \A j \in Parts : Cardinality(cloud'[j] \ {file'[j]}) <= losses'
  <2> TAKE j \in Parts
  <2>1. cloud'[j] \ {file'[j]} = cloud[j] \ {file[j]}
    <3>1. CASE j = k
      BY <1>4, <1>5, <3>1
    <3>2. CASE j # k
      BY <1>3, <1>4, <1>5, <3>2
    <3> QED  BY <3>1, <3>2
  <2>2. Cardinality(cloud[j] \ {file[j]}) <= losses
    BY <1>1, NotInTheFile
  <2> QED  BY <1>1, <2>1, <2>2
<1>10. ~misled' => True(file)'
  <2> SUFFICES ASSUME ~misled PROVE True(file)'
    BY <1>1
  <2>1. True(file)
    BY <1>1 DEF IInv, Truth
  <2>2. \A j \in Named : InCloud(j)' => file'[j] \in cloud'[j] \cup {0}
    <3> TAKE j \in Named
    <3>1. j \in Kinds /\ InCloud(j)' = InCloud(j)
      BY <1>1 DEF Named, Kinds, InCloud
    <3> QED  BY <1>4, <1>5, <2>1, <3>1 DEF True
  <2> QED  BY <1>5, <2>2 DEF True
<1>11. \A j \in {"keypair", "bastion"} : file'[j] \in {file[j], mem[j]}
  BY <1>3, <1>5 DEF Kinds
<1> HIDE DEF n
<1> QED  BY <1>1, <1>2, <1>4, <1>5, <1>6, <1>7, <1>9, <1>10, <1>11, RestKeeps

\* A rollback adds nothing; it keeps an entry, or forgets it and what it names
\* is deleted.
RollStep(k) ==
  /\ UNCHANGED <<provider, owner, file, local, born, used, blind, half>>
  /\ run' \in Runs /\ Stays /\ run'.pc = "rollback" /\ run'.try = run.try
  /\ run'.found = 0 /\ run'.fresh = 0 /\ run'.guest = 0
  /\ cloud' \in [Kinds -> SUBSET Ids] /\ \A j \in Kinds : cloud'[j] \subseteq cloud[j]
  /\ k \in Parts => cloud'[k] \ {mem'[k]} \subseteq cloud[k] \ {mem[k]}
  /\ cloud["bastion"] \ {mem["bastion"]} \subseteq cloud'["bastion"]
  /\ mem' \in [Kinds -> Ids \cup {0}] /\ mem'[k] \in {0, mem[k]}
  /\ \A j \in Kinds \ {k} : mem'[j] = mem[j]
  /\ host' \in [Disks -> [Ids -> Ids \cup {0}]]
  /\ \A d \in Disks, m \in Ids : host'[d][m] # 0 => m \in cloud'[d] /\ host'[d][m] \in cloud'[GuestOf[d]]
  /\ losses' \in Nat /\ losses' >= losses /\ {misled', keyLost'} \subseteq BOOLEAN
  /\ keyLost => keyLost'
  /\ ~misled' => True(mem)'

\* A rollback step that does this keeps the invariant.
LEMMA RollKeeps ==
  ASSUME IInv, run.pc = "rollback", NEW k \in Kinds, RollStep(k)
  PROVE  IInv'
<1>1. /\ "bastion" \in Kinds /\ "keypair" \in Kinds /\ LookedFor \subseteq Kinds /\ Parts \subseteq Kinds
  BY DEF Kinds, LookedFor, Parts
<1>2. /\ run' \in Runs /\ Stays /\ run'.pc = "rollback" /\ run'.try = run.try
      /\ run'.found = 0 /\ run'.fresh = 0 /\ run'.guest = 0
  BY DEF RollStep
<1>3. half' \subseteq cloud'["bastion"] /\ 0 \notin half /\ half \cap {file["bastion"], mem["bastion"]} = {}
  <2>1. half \subseteq cloud["bastion"] /\ cloud["bastion"] \subseteq Ids
    BY <1>1, Documents DEF IInv, TypeOK
  <2>2. half \cap {file["bastion"], mem["bastion"]} = {}
    BY DEF IInv, Single
  <2> QED  BY <2>1, <2>2 DEF RollStep, Ids
<1>4. TypeOK'
  <2>1. run'.step \in DOMAIN Selected(run'.mode) /\ run'.try \in 1 .. MaxTries
    BY <1>2 DEF IInv, TypeOK, Stays
  <2>2. {run'.found, run'.fresh, run'.guest} \subseteq Ids \cup {0}
    BY <1>2
  <2> QED  BY <1>3, <2>1, <2>2 DEF RollStep, IInv, TypeOK
<1>5. Holding' /\ Seen' /\ Blamed' /\ Past'
  BY <1>2 DEF Holding, Seen, Blamed, Past, Between
<1>6. Single'
  <2>1. \A j \in LookedFor \ (blind' \cup {"bastion"}) : Alone(cloud'[j])
    BY <1>1 DEF RollStep, IInv, Single, Alone
  <2>2. "bastion" \notin blind' => Alone(Tagged')
    BY <1>1 DEF RollStep, IInv, Single, Alone, Tagged
  <2>3. mem'["bastion"] \in {0, mem["bastion"]}
    BY <1>1 DEF RollStep
  <2> QED  BY <1>2, <1>3, <2>1, <2>2, <2>3 DEF RollStep, Single
<1>7. Counted'
  <2> SUFFICES ASSUME NEW j \in Parts
               PROVE  /\ Cardinality(Loose(j)') <= losses'
                      /\ Cardinality(cloud'[j] \ {file'[j]}) <= losses'
    BY <1>2 DEF Counted
  <2>1. cloud[j] \subseteq Ids /\ cloud'[j] \subseteq cloud[j] /\ losses' \in Nat /\ losses' >= losses
    BY <1>1, Documents DEF IInv, RollStep
  <2>2. Loose(j)' \subseteq cloud[j] \ {mem[j]}
    <3>1. Loose(j)' \subseteq cloud'[j] \ {mem'[j]}
      BY DEF Loose
    <3>2. CASE j = k
      BY <3>1, <3>2 DEF RollStep
    <3>3. CASE j # k
      BY <1>1, <2>1, <3>1, <3>3 DEF RollStep
    <3> QED  BY <3>2, <3>3
  <2>3. cloud'[j] \ {file'[j]} \subseteq cloud[j] \ {file[j]}
    BY <2>1 DEF RollStep
  <2>4. /\ Cardinality(Loose(j)') <= Cardinality(cloud[j] \ {mem[j]})
        /\ Cardinality(Loose(j)') \in Nat /\ Cardinality(cloud[j] \ {mem[j]}) \in Nat
    <3>1. cloud[j] \ {mem[j]} \subseteq Ids
      BY <2>1
    <3> QED  BY <2>2, <3>1, NoMore
  <2>5. /\ Cardinality(cloud'[j] \ {file'[j]}) <= Cardinality(cloud[j] \ {file[j]})
        /\ Cardinality(cloud'[j] \ {file'[j]}) \in Nat /\ Cardinality(cloud[j] \ {file[j]}) \in Nat
    <3>1. cloud[j] \ {file[j]} \subseteq Ids
      BY <2>1
    <3> QED  BY <2>3, <3>1, NoMore
  <2>6. /\ Cardinality(cloud[j] \ {file[j]}) <= losses /\ Cardinality(cloud[j] \ {mem[j]}) <= losses
        /\ losses \in Nat
    BY NotInTheFile DEF Between
  <2> QED  BY <2>1, <2>4, <2>5, <2>6
<1>8. Truth'
  BY <1>2 DEF RollStep, Truth
<1>9. Keyed'
  <2> SUFFICES ASSUME ~InCloud("keypair"), ~keyLost'
               PROVE  /\ {file'.keypair, mem'.keypair} \subseteq {0, local'}
                      /\ \A n \in (cloud'.bastion \cup {file'.bastion, mem'.bastion}) \ {0} :
                            born'[n] = local' /\ local' # 0
    BY DEF Keyed, InCloud, RollStep
  <2>1. /\ {file.keypair, mem.keypair} \subseteq {0, local}
        /\ \A n \in (cloud.bastion \cup {file.bastion, mem.bastion}) \ {0} : born[n] = local /\ local # 0
    BY DEF IInv, Keyed, RollStep
  <2>2. /\ mem'["bastion"] \in {0, mem["bastion"]} /\ mem'["keypair"] \in {0, mem["keypair"]}
        /\ cloud'["bastion"] \subseteq cloud["bastion"] /\ UNCHANGED <<file, local, born>>
    BY <1>1 DEF RollStep
  <2> QED  BY <2>1, <2>2
<1> QED  BY <1>2, <1>4, <1>5, <1>6, <1>7, <1>8, <1>9 DEF IInv

\* One entry of the rollback.
LEMMA ResourceDeletedOK == ASSUME IInv, DeleteResource PROVE IInv'
<1>1. /\ UNCHANGED <<provider, owner, file, local, born, outcome, used, blind, half>>
      /\ run.pc = "rollback" /\ run.pc \in Between
  BY DEF DeleteResource, Between
<1>2. PICK k \in run.undo :
        /\ run' = [run EXCEPT !.undo = @ \ {k}]
        /\ keyLost' = (keyLost \/ (k = "keypair" /\ InCloud(k) /\ cloud.bastion # {}))
        /\ LET n == mem[k]
               forget == [mem EXCEPT ![k] = 0]
           IN \/ /\ k = "subnet" \/ (k = "keypair" /\ ~InCloud(k))
                 /\ mem' = forget
                 /\ losses' = losses + (IF k = "subnet" /\ InCloud(k) THEN 1 ELSE 0)
                 /\ UNCHANGED <<cloud, host, left, misled>>
              \/ /\ k # "subnet" /\ InCloud(k) /\ MayRefuse(k, n)
                 /\ misled' = (misled \/ n \notin cloud[k])
                 /\ UNCHANGED <<cloud, host, mem, left, losses>>
              \/ /\ k # "subnet" /\ InCloud(k) /\ ~MustRefuse(k, n)
                 /\ \E a \in Answers :
                       /\ n \notin cloud[k] => a = "ok"
                       /\ Call(a)
                       /\ cloud' = IF a = "refused" THEN cloud ELSE Without(k, n)
                       /\ host' = IF a = "refused" THEN host ELSE Released(k, n)
                       /\ mem' = IF a = "ok" THEN forget ELSE mem
                       /\ misled' = (misled \/ a = "lost"
                                           \/ (k \in Disks /\ host[k][n] # 0 /\ a = "ok"))
  BY Zenon DEF DeleteResource
<1> DEFINE n == mem[k]
           forget == [mem EXCEPT ![k] = 0]
<1>3. /\ TypeOK /\ run \in Runs /\ k \in Kinds /\ n \in Ids \cup {0} /\ losses \in Nat
      /\ misled \in BOOLEAN /\ keyLost' \in BOOLEAN /\ (keyLost => keyLost')
      /\ cloud \in [Kinds -> SUBSET Ids]
      /\ mem \in [Kinds -> Ids \cup {0}] /\ host \in [Disks -> [Ids -> Ids \cup {0}]]
      /\ run.found = 0 /\ run.fresh = 0 /\ run.guest = 0 /\ (~misled => True(mem))
  <2>1. TypeOK /\ run \in Runs /\ (~misled => True(mem))
    BY DEF IInv, Truth
  <2>2. k \in Kinds
    BY <2>1 DEF Runs
  <2>3. run.found = 0 /\ run.fresh = 0 /\ run.guest = 0
    BY <1>1 DEF IInv, Holding
  <2>4. /\ misled \in BOOLEAN /\ keyLost \in BOOLEAN /\ host \in [Disks -> [Ids -> Ids \cup {0}]]
    BY <2>1 DEF TypeOK
  <2>5. keyLost' \in BOOLEAN /\ (keyLost => keyLost')
    BY <1>2, <2>4
  <2> QED  BY <2>1, <2>2, <2>3, <2>4, <2>5, Documents
<1>4. /\ run' \in Runs /\ Stays /\ run'.pc = "rollback" /\ run'.try = run.try
      /\ run'.found = 0 /\ run'.fresh = 0 /\ run'.guest = 0
  BY <1>1, <1>2, <1>3 DEF Runs, Stays
<1>5. /\ forget \in [Kinds -> Ids \cup {0}] /\ forget[k] = 0 /\ \A j \in Kinds \ {k} : forget[j] = mem[j]
  BY <1>3, Entry
<1>6. \A d \in Disks, m \in Ids : host[d][m] # 0 => m \in cloud[d] /\ host[d][m] \in cloud[GuestOf[d]]
  BY <1>3 DEF TypeOK
<1>7. \A j \in Named : InCloud(j)' = InCloud(j)
  BY <1>1 DEF InCloud
<1>8. /\ "artifacts" \in Named /\ Named \subseteq Kinds /\ Named \cap Disks = {} /\ "store" \in Kinds
      /\ "store" \in Disks /\ GuestOf["store"] = "artifacts" /\ "bastion" \in Kinds /\ Parts \subseteq Kinds
      /\ "bastion" \notin Disks
  BY DEF Named, Kinds, Disks, GuestOf, Parts
<1>9. ASSUME UNCHANGED <<cloud, host>>, mem' = mem \/ (mem' = forget /\ k \notin Parts),
             losses' \in Nat, losses' >= losses, misled' \in BOOLEAN, misled => misled'
      PROVE  IInv'
  <2>1. /\ mem' \in [Kinds -> Ids \cup {0}] /\ mem'[k] \in {0, mem[k]}
        /\ \A j \in Kinds \ {k} : mem'[j] = mem[j] /\ (k \in Parts => mem' = mem)
    BY <1>3, <1>5, <1>9
  <2>2. ~misled' => True(mem)'
    <3> SUFFICES ASSUME ~misled' PROVE True(mem)'
      OBVIOUS
    <3>1. True(mem)
      BY <1>3, <1>9
    <3>2. \A j \in Named : InCloud(j)' => mem'[j] \in cloud'[j] \cup {0}
      BY <1>7, <1>8, <1>9, <2>1, <3>1 DEF True
    <3>3. mem'["artifacts"] # 0 => mem'["store"] # 0 /\ host'["store"][mem'["store"]] = mem'["artifacts"]
      BY <1>8, <1>9, <2>1, <3>1 DEF True, Parts
    <3> QED  BY <3>2, <3>3 DEF True
  <2>3. RollStep(k)
    BY <1>1, <1>3, <1>4, <1>6, <1>9, <2>1, <2>2 DEF RollStep
  <2> QED  BY <1>1, <1>3, <2>3, RollKeeps
<1>10. ASSUME NEW a \in Answers, a # "refused", Call(a), cloud' = Without(k, n), host' = Released(k, n),
              mem' = IF a = "ok" THEN forget ELSE mem,
              misled' = (misled \/ a = "lost" \/ (k \in Disks /\ host[k][n] # 0 /\ a = "ok"))
       PROVE  IInv'
  <2>1. losses' \in Nat /\ losses' >= losses
    BY <1>3, <1>10, Counts
  <2>2. misled' \in BOOLEAN
    BY <1>10
  <2>3. /\ mem' \in [Kinds -> Ids \cup {0}] /\ mem'[k] \in {0, mem[k]}
        /\ \A j \in Kinds \ {k} : mem'[j] = mem[j]
    BY <1>3, <1>5, <1>10
  <2>4. n = mem[k]
    OBVIOUS
  <2> HIDE DEF n
  <2>5. /\ cloud' \in [Kinds -> SUBSET Ids] /\ \A j \in Kinds : cloud'[j] \subseteq cloud[j]
        /\ cloud'[k] = cloud[k] \ {n}
        /\ \A j \in Kinds \ {k} : j \notin Disks => cloud'[j] = cloud[j]
    BY <1>3, <1>10, WithoutIs
  <2>6. /\ host' \in [Disks -> [Ids -> Ids \cup {0}]]
        /\ \A d \in Disks, m \in Ids :
              host'[d][m] = IF (d = k /\ m = n) \/ (GuestOf[d] = k /\ host[d][m] = n)
                            THEN 0 ELSE host[d][m]
    BY <1>3, <1>10, ReleasedIs
  <2>7. \A d \in Disks, m \in Ids : host'[d][m] # 0 => m \in cloud'[d] /\ host'[d][m] \in cloud'[GuestOf[d]]
    BY <1>3, <1>10, ReleasedIsThere
  <2>8. cloud["bastion"] \ {mem["bastion"]} \subseteq cloud'["bastion"]
    BY <1>8, <2>4, <2>5
  <2>9. k \in Parts => cloud'[k] \ {mem'[k]} \subseteq cloud[k] \ {mem[k]}
    BY <2>4, <2>5
  <2>10. ~misled' => True(mem)'
    <3> SUFFICES ASSUME ~misled' PROVE True(mem)'
      OBVIOUS
    <3>1. True(mem) /\ a # "lost"
      BY <1>3, <1>10
    <3>2. a = "ok" /\ mem' = forget /\ ~(k \in Disks /\ host[k][n] # 0)
      BY <1>10, <3>1 DEF Answers
    <3>3. mem'[k] = 0
      BY <1>5, <3>2
    <3>4. \A j \in Named : InCloud(j)' => mem'[j] \in cloud'[j] \cup {0}
      <4> TAKE j \in Named
      <4>1. CASE j = k
        BY <3>3, <4>1
      <4>2. CASE j # k
        <5>1. mem'[j] = mem[j] /\ cloud'[j] = cloud[j]
          BY <1>8, <2>3, <2>5, <4>2
        <5> QED  BY <1>7, <3>1, <5>1 DEF True
      <4> QED  BY <4>1, <4>2
    <3>5. ASSUME mem'["artifacts"] # 0
          PROVE  mem'["store"] # 0 /\ host'["store"][mem'["store"]] = mem'["artifacts"]
      <4>1. k # "artifacts" /\ mem'["artifacts"] = mem["artifacts"]
        BY <1>8, <2>3, <3>3, <3>5
      <4>2. mem["store"] # 0 /\ host["store"][mem["store"]] = mem["artifacts"] /\ mem["artifacts"] # 0
        BY <3>1, <3>5, <4>1 DEF True
      <4>3. k # "store"
        BY <1>8, <2>4, <3>2, <4>2
      <4>4. mem'["store"] = mem["store"] /\ mem["store"] \in Ids
        BY <1>3, <1>8, <2>3, <4>2, <4>3
      <4>5. host'["store"][mem["store"]] = host["store"][mem["store"]]
        BY <1>8, <2>6, <4>1, <4>3, <4>4
      <4> QED  BY <4>1, <4>2, <4>4, <4>5
    <3> QED  BY <3>4, <3>5 DEF True
  <2>11. RollStep(k)
    BY <1>1, <1>3, <1>4, <2>1, <2>2, <2>3, <2>5, <2>6, <2>7, <2>8, <2>9, <2>10 DEF RollStep
  <2> QED  BY <1>1, <1>3, <2>11, RollKeeps
<1>11. CASE /\ k = "subnet" \/ (k = "keypair" /\ ~InCloud(k))
            /\ mem' = forget
            /\ losses' = losses + (IF k = "subnet" /\ InCloud(k) THEN 1 ELSE 0)
            /\ UNCHANGED <<cloud, host, left, misled>>
  <2>1. k \notin Parts
    BY <1>11 DEF Parts
  <2>2. losses' \in Nat /\ losses' >= losses
    BY <1>3, <1>11
  <2> QED  BY <1>3, <1>9, <1>11, <2>1, <2>2
<1>12. CASE misled' = (misled \/ n \notin cloud[k]) /\ UNCHANGED <<cloud, host, mem, left, losses>>
  <2>1. misled' \in BOOLEAN /\ (misled => misled') /\ losses' \in Nat /\ losses' >= losses
    BY <1>3, <1>12
  <2> QED  BY <1>9, <1>12, <2>1
<1>13. ASSUME NEW a \in Answers, Call(a),
              cloud' = IF a = "refused" THEN cloud ELSE Without(k, n),
              host' = IF a = "refused" THEN host ELSE Released(k, n),
              mem' = IF a = "ok" THEN forget ELSE mem,
              misled' = (misled \/ a = "lost" \/ (k \in Disks /\ host[k][n] # 0 /\ a = "ok"))
       PROVE  IInv'
  <2>1. losses' \in Nat /\ losses' >= losses
    BY <1>3, <1>13, Counts
  <2>2. CASE a = "refused"
    <3>1. misled' = misled /\ mem' = mem /\ cloud' = cloud /\ host' = host
      BY <1>3, <1>13, <2>2
    <3> QED  BY <1>3, <1>9, <2>1, <3>1
  <2>3. CASE a # "refused"
    BY <1>10, <1>13, <2>3
  <2> QED  BY <2>2, <2>3
<1> QED  BY <1>2, <1>11, <1>12, <1>13, Zenon

\* The rollback saves what it has kept, or fails to.
LEMMA RollbackDoneOK == ASSUME IInv, RollbackDone PROVE IInv'
<1>1. PICK saved \in BOOLEAN :
        /\ file' = IF saved THEN mem ELSE file
        /\ losses' = losses + (IF saved THEN 0 ELSE 1)
        /\ misled' = (misled \/ ~saved)
  BY DEF RollbackDone
<1>2. /\ UNCHANGED <<provider, cloudVars, local, born, used, blind, keyLost>>
      /\ run.pc = "rollback" /\ run.pc \in Between /\ run' = Idle /\ mem' = file'
  BY DEF RollbackDone, End, Between
<1>3. /\ misled' \in BOOLEAN /\ keyLost \in BOOLEAN /\ losses \in Nat
      /\ local \in Ids \cup {0} /\ used \subseteq Disks \X Ids
  BY <1>1 DEF IInv, TypeOK
<1>4. ~misled' => True(file)'
  BY <1>1, <1>2, StillTrue
<1>5. losses' \in Nat /\ \A k \in Parts : Cardinality(cloud[k] \ {file'[k]}) <= losses'
  <2>1. CASE saved
    BY <1>1, <1>2, <1>3, <2>1, KeptSave
  <2>2. CASE ~saved
    BY <1>1, <1>2, <1>3, <2>2, LostSave
  <2> QED  BY <2>1, <2>2
<1> QED  BY <1>1, <1>2, <1>3, <1>4, <1>5, EndKeeps

-----------------------------------------------------------------------------
(* The inductive invariant. *)

\* A bloc of which nothing exists.
LEMMA InitOK == Init => IInv
<1> SUFFICES ASSUME Init PROVE IInv
  OBVIOUS
<1>1. /\ run.pc = "idle" /\ run.found = 0 /\ run.fresh = 0 /\ run.guest = 0 /\ run \in Runs
      /\ run.step = 1 /\ run.mode = "all" /\ run.try = 1
  <2>1. 1 \in 1 .. MaxTries /\ 1 \in 1 .. 9
    OBVIOUS
  <2> QED  BY <2>1 DEF Init, Idle, Runs, Points
<1>2. /\ \A k \in Kinds : cloud[k] = {} /\ file[k] = 0 /\ mem[k] = 0
      /\ \A d \in Disks, n \in Ids : host[d][n] = 0
      /\ half = {} /\ mem = file
  BY DEF Init, NoEntries
<1>3. TypeOK
  <2>1. run.step \in DOMAIN Selected(run.mode) /\ run.try \in 1 .. MaxTries
    <3>1. DOMAIN Selected("all") = 1 .. Len(Selected("all")) /\ Len(Selected("all")) \in 1 .. 9
      BY Table
    <3>2. 1 \in DOMAIN Selected("all") /\ 1 \in 1 .. MaxTries
      BY <3>1
    <3> QED  BY <1>1, <3>2
  <2>2. 1 \in Ids /\ "bastion" \in Kinds
    BY DEF Ids, Kinds
  <2>3. {run.found, run.fresh, run.guest} \subseteq Ids \cup {0}
    BY <1>1
  <2>4. \A d \in Disks, n \in Ids :
          host[d][n] # 0 => n \in cloud[d] /\ host[d][n] \in cloud[GuestOf[d]]
    BY <1>2
  <2>5. losses \in Nat /\ {misled, keyLost} \subseteq BOOLEAN
    BY DEF Init
  <2> QED  BY <1>2, <2>1, <2>2, <2>3, <2>4, <2>5 DEF Init, TypeOK, NoEntries
<1>4. Holding /\ Seen /\ Blamed /\ Past
  BY <1>1 DEF Holding, Seen, Blamed, Past, Between
<1>5. Single
  BY <1>1, <1>2 DEF Single, Alone, LookedFor, Kinds, Tagged
<1>6. Counted
  <2> SUFFICES ASSUME NEW k \in Parts PROVE Cardinality(Loose(k)) <= losses
    BY <1>1, <1>2 DEF Counted
  <2>1. Loose(k) = {}
    BY <1>2 DEF Loose, Parts, Kinds
  <2> QED  BY <2>1, FS_EmptySet DEF Init
<1>7. Truth
  BY <1>2 DEF Truth, True, Named, Kinds
<1>8. Keyed
  BY <1>2 DEF Keyed, Kinds
<1> QED  BY <1>1, <1>2, <1>3, <1>4, <1>5, <1>6, <1>7, <1>8 DEF IInv

\* A step of something else.
LEMMA StutterOK == ASSUME IInv, UNCHANGED vars PROVE IInv'
<1>1. /\ UNCHANGED <<provider, cloud, half, host, owner, file, mem, local, born, run>>
      /\ UNCHANGED <<used, blind, misled, keyLost, losses>>
  BY DEF vars, cloudVars, ghosts
<1>2. TypeOK' /\ (run' \in Runs)
  BY <1>1 DEF IInv, TypeOK
<1>3. Holding' /\ Seen' /\ Blamed' /\ Past'
  <2>1. Current' = Current /\ Tagged' = Tagged
    BY <1>1 DEF Current, Tagged
  <2>2. Holding' /\ Seen' /\ Blamed'
    BY <1>1, <2>1 DEF IInv, Holding, Seen, Blamed
  <2>3. \A k : Has(k)' = Has(k)
    BY <1>1 DEF Has, Supported, InCloud
  <2> QED  BY <1>1, <2>2, <2>3 DEF IInv, Past
<1>4. Single'
  BY <1>1 DEF IInv, Single, Tagged
<1>5. Counted'
  <2>1. \A k \in Parts : Loose(k)' = Loose(k)
    BY <1>1 DEF Loose, Free, Hand, Current
  <2> QED  BY <1>1, <2>1 DEF IInv, Counted
<1>6. Truth' /\ Keyed'
  BY <1>1 DEF IInv, Truth, True, Keyed, InCloud
<1> QED  BY <1>1, <1>2, <1>3, <1>4, <1>5, <1>6 DEF IInv

\* Every action of the specification.
LEMMA NextOK == ASSUME IInv, [Next]_vars PROVE IInv'
<1>1. CASE CreateNetwork \/ CreateSubnets \/ CreateSecurityGroups \/ CreatePublicIPs \/ CreateBuckets
  BY <1>1, NetworkOK, SubnetsOK, GroupsOK, IPsOK, BucketsOK
<1>2. CASE CreateKeyPair
  BY <1>2, VerifyKeyOK, NewPairOK, DuplicateKeyOK, LocalKeyOK DEF CreateKeyPair
<1>3. CASE CreateBastion
  BY <1>3, BastionExistsOK, BastionImportedOK, BastionCreatedOK, BastionFinishedOK DEF CreateBastion
<1>4. CASE DataVolume
  BY <1>4, DiskResolvedOK, DiskCreatedOK, DiskEnsuredOK DEF DataVolume
<1>5. CASE CreateArtifacts
  BY <1>5, ArtifactsCreatedOK, StoreOK, GuestRemovedOK, GuestRecordedOK DEF CreateArtifacts
<1>6. CASE Save \/ HandleBootstrapStepError \/ DeleteResource \/ RollbackDone
  BY <1>6, SaveOK, ErrorHandledOK, ResourceDeletedOK, RollbackDoneOK
<1>7. CASE Start \/ Kill \/ LoseKeyFile \/ TearDownArtifacts
  BY <1>7, StartOK, KillOK, KeyFileLostOK, GuestTornDownOK
<1>8. CASE UNCHANGED vars
  BY <1>8, StutterOK
<1> QED  BY <1>1, <1>2, <1>3, <1>4, <1>5, <1>6, <1>7, <1>8 DEF Next, Execute, StepActions

\* Wherever a run is killed, and whatever call fails, what the run holds, what
\* the documents name and what exists fit each other.
THEOREM Inductive == Spec => []IInv
<1>1. IInv /\ [Next]_vars => IInv'
  BY NextOK
<1> QED  BY InitOK, <1>1, PTL DEF Spec

\* Every variable keeps its type, and a disk is attached only while it and its
\* guest exist (compute_data_volume.go, artifacts.go).
THEOREM Typed == Spec => []TypeOK
<1>1. IInv => TypeOK
  BY DEF IInv
<1> QED  BY Inductive, <1>1, PTL

\* However often `ocfp bootstrap` is run again, it makes none of the things it
\* looks for twice, and what it leaves without an entry is accounted for by an
\* accident: a step that fails cleans up after itself.
THEOREM NothingLeft == Spec => []NoLeftovers
<1>1. IInv => NoLeftovers
  <2> SUFFICES ASSUME IInv PROVE NoLeftovers
    OBVIOUS
  <2>1. OneOfEach
    <3> SUFFICES ASSUME half = {}, NEW k \in LookedFor \ blind PROVE Cardinality(cloud[k]) <= 1
      BY DEF OneOfEach
    <3>1. CASE k = "bastion"
      BY <3>1, AloneIsOne DEF IInv, Single, Tagged
    <3>2. CASE k # "bastion"
      BY <3>2, AloneIsOne DEF IInv, Single
    <3> QED  BY <3>1, <3>2
  <2>2. OrphansAreAccidents
    BY NotInTheFile DEF OrphansAreAccidents, Parts
  <2> QED  BY <2>1, <2>2 DEF NoLeftovers
<1> QED  BY Inductive, <1>1, PTL

-----------------------------------------------------------------------------
(* A run that ends well. *)

\* While a command runs, no outcome is reported.
Unreported == run.pc # "idle" => outcome = "none"

\* A new run forgets the outcome of the last.
LEMMA UnreportedOK == ASSUME Unreported, [Next]_vars PROVE Unreported'
<1>1. CASE StepActions
  <2>1. CASE CreateNetwork \/ CreateSubnets \/ CreateSecurityGroups \/ CreatePublicIPs \/ CreateBuckets
    <3>1. run.pc # "idle" /\ Keep
      BY <2>1 DEF CreateNetwork, CreateSubnets, CreateSecurityGroups, CreatePublicIPs, CreateBuckets, At
    <3> QED  BY <3>1 DEF Keep, Unreported
  <2>2. CASE CreateKeyPair
    <3>1. run.pc # "idle" /\ KeyKeep
      BY <2>2 DEF CreateKeyPair, VerifyExistingKeypair, CreateStandardKeyPair, HandleDuplicateKeyPair,
                  CreateLocalKeyPair, At
    <3> QED  BY <3>1 DEF KeyKeep, Unreported
  <2>3. CASE CreateBastion
    <3>1. run.pc # "idle" /\ GuestKeep
      BY <2>3 DEF CreateBastion, BastionAlreadyExists, ImportBastionToState, CreateBastionInstance,
                  FinalizeAndStartVM, At
    <3> QED  BY <3>1 DEF GuestKeep, Unreported
  <2>4. CASE DataVolume
    <3>1. run.pc # "idle" /\ GuestKeep
      BY <2>4 DEF DataVolume, ResolveBastionDataVolume, CreateBastionDataVolume, EnsureBastionDataVolume, At
    <3> QED  BY <3>1 DEF GuestKeep, Unreported
  <2>5. CASE CreateArtifacts
    <3>1. run.pc # "idle" /\ GuestKeep
      BY <2>5 DEF CreateArtifacts, CreateArtifactsInstance, AttachArtifactsDataVolume,
                  CleanupOrphanArtifactsVM, RecordArtifactsState, At
    <3> QED  BY <3>1 DEF GuestKeep, Unreported
  <2> QED  BY <1>1, <2>1, <2>2, <2>3, <2>4, <2>5 DEF StepActions
<1>2. CASE Start \/ Kill \/ RollbackDone
  <2>1. outcome' = "none" \/ run' = Idle
    BY <1>2, Zenon DEF Start, Kill, RollbackDone, End
  <2>2. Idle.pc = "idle"
    BY DEF Idle
  <2> QED  BY <2>1, <2>2 DEF Unreported
<1>3. CASE Save \/ HandleBootstrapStepError \/ DeleteResource
  BY <1>3 DEF Save, HandleBootstrapStepError, DeleteResource, End, Idle, Unreported
<1>4. CASE LoseKeyFile \/ TearDownArtifacts \/ UNCHANGED vars
  BY <1>4 DEF LoseKeyFile, TearDownArtifacts, vars, Unreported
<1> QED  BY <1>1, <1>2, <1>3, <1>4 DEF Next, Execute

\* Only a save ends a run well.
LEMMA OnlySaves ==
  ASSUME Unreported, [Next]_vars, Succeeds
  PROVE  /\ UNCHANGED <<provider, cloudVars, local, born, misled, keyLost>> /\ file' = mem
         /\ run.step = Len(Selected(run.mode)) /\ run.pc = "save"
<1>1. run.pc = "save" /\ outcome' = "ok" /\ outcome = "none"
  BY DEF Succeeds, Unreported
<1>2. ~(CreateNetwork \/ CreateSubnets \/ CreateSecurityGroups \/ CreatePublicIPs \/ CreateBuckets)
  BY <1>1 DEF CreateNetwork, CreateSubnets, CreateSecurityGroups, CreatePublicIPs, CreateBuckets, At
<1>3. ~CreateKeyPair
  BY <1>1 DEF CreateKeyPair, VerifyExistingKeypair, CreateStandardKeyPair, HandleDuplicateKeyPair,
              CreateLocalKeyPair, At
<1>4. ~CreateBastion
  BY <1>1 DEF CreateBastion, BastionAlreadyExists, ImportBastionToState, CreateBastionInstance,
              FinalizeAndStartVM, At
<1>5. ~DataVolume
  BY <1>1 DEF DataVolume, ResolveBastionDataVolume, CreateBastionDataVolume, EnsureBastionDataVolume, At
<1>6. ~CreateArtifacts
  BY <1>1 DEF CreateArtifacts, CreateArtifactsInstance, AttachArtifactsDataVolume,
              CleanupOrphanArtifactsVM, RecordArtifactsState, At
<1>7. ~(HandleBootstrapStepError \/ DeleteResource \/ RollbackDone \/ Start \/ LoseKeyFile \/ TearDownArtifacts)
  BY <1>1 DEF HandleBootstrapStepError, DeleteResource, RollbackDone, Start, LoseKeyFile, TearDownArtifacts
<1>8. ~Kill
  BY <1>1 DEF Kill, End
<1>9. Save \/ UNCHANGED vars
  BY <1>2, <1>3, <1>4, <1>5, <1>6, <1>7, <1>8 DEF Next, Execute, StepActions
<1>10. CASE Save
  BY <1>1, <1>10 DEF Save, RunKeep, End
<1>11. ~(UNCHANGED vars)
  BY <1>1 DEF vars
<1> QED  BY <1>9, <1>10, <1>11

\* Every run brings up a bastion.
LEMMA WithBastion ==
  ASSUME NEW m \in {"all", "bastion"}
  PROVE  \E t \in DOMAIN Selected(m) : Selected(m)[t] = "bastion"
<1>1. CASE m = "all"
  <2>1. 6 \in DOMAIN Steps /\ Steps[6] = "bastion"
    BY DEF Steps
  <2> QED  BY <1>1, <2>1 DEF Selected
<1>2. CASE m = "bastion"
  <2>1. 5 \in DOMAIN BastionSteps /\ BastionSteps[5] = "bastion"
    BY DEF BastionSteps
  <2> QED  BY <1>2, <2>1 DEF Selected
<1> QED  BY <1>1, <1>2

\* When the last step saves, all of them have done their work.
LEMMA AllDone ==
  ASSUME IInv, run.pc = "save", run.step = Len(Selected(run.mode))
  PROVE  \A s \in DOMAIN Selected(run.mode) : Has(Selected(run.mode)[s])
<1> TAKE s \in DOMAIN Selected(run.mode)
<1>1. s \in 1 .. Len(Selected(run.mode)) /\ s \in 1 .. 9 /\ Len(Selected(run.mode)) \in 1 .. 9
  BY InStep, Table
<1>2. s < run.step \/ s = run.step
  BY <1>1
<1> QED  BY <1>1, <1>2 DEF IInv, Past

\* What a step has done, and the file says, is built.
LEMMA BuiltIs ==
  ASSUME TypeOK, NEW k \in Kinds \ {"store"}, Has(k), Supported(k), True(mem), mem["bastion"] # 0, file' = mem
  PROVE  Built(k)
<1>1. CASE k = "bucket"
  BY <1>1 DEF Has, Built
<1>2. CASE k = "disk"
  <2>1. mem["disk"] # 0 /\ host["disk"][mem["disk"]] = mem["bastion"]
    BY <1>2 DEF Has
  <2>2. mem["disk"] \in Ids /\ "disk" \in Disks
    BY <2>1, Documents DEF Kinds, Disks
  <2>3. mem["disk"] \in cloud["disk"]
    BY <2>1, <2>2 DEF TypeOK
  <2> QED  BY <1>2, <2>1, <2>3 DEF Built
<1>3. CASE k = "keypair"
  <2>1. mem["keypair"] # 0 /\ (InCloud("keypair") => cloud["keypair"] # {})
    BY <1>3 DEF Has
  <2> QED  BY <1>3, <2>1 DEF Built
<1>4. CASE k \in Named
  <2>1. mem[k] # 0 /\ (InCloud(k) => mem[k] \in cloud[k])
    BY <1>4 DEF Has, True, Named
  <2>2. k = "artifacts" => host["store"][mem["store"]] = mem[k]
    BY <2>1 DEF True
  <2> QED  BY <1>4, <2>1, <2>2 DEF Built, Named
<1>5. k \in Named \cup {"bucket", "disk", "keypair"}
  BY DEF Kinds, Named
<1> QED  BY <1>1, <1>2, <1>3, <1>4, <1>5

\* A run that ends well has all of its steps behind it.
LEMMA EndsBuilt ==
  ASSUME IInv, Unreported, [Next]_vars, Succeeds
  PROVE  /\ LocalKeyOpens'
         /\ ~misled => \A s \in DOMAIN Selected(run.mode) :
               LET k == Selected(run.mode)[s] IN Supported(k) => Built(k)
<1>1. /\ UNCHANGED <<provider, cloud, half, host, owner, local, born, misled, keyLost>> /\ file' = mem
      /\ run.step = Len(Selected(run.mode)) /\ run.pc = "save"
  BY OnlySaves DEF cloudVars
<1>2. /\ TypeOK /\ run.mode \in {"all", "bastion"} /\ mem \in [Kinds -> Ids \cup {0}]
      /\ \A s \in DOMAIN Selected(run.mode) : Selected(run.mode)[s] \in Kinds \ {"store"}
  BY InStep, Table, Documents DEF IInv
<1>3. \A s \in DOMAIN Selected(run.mode) : Has(Selected(run.mode)[s])
  BY <1>1, AllDone
<1>4. mem["bastion"] # 0
  <2>1. Has("bastion")
    BY <1>2, <1>3, WithBastion
  <2> QED  BY <2>1 DEF Has, Supported
<1>5. LocalKeyOpens'
  <2> SUFFICES ASSUME ~InCloud("keypair"), ~keyLost PROVE born[mem.bastion] = local
    BY <1>1 DEF LocalKeyOpens, InCloud
  <2> QED  BY <1>4 DEF IInv, Keyed
<1>6. ASSUME ~misled, NEW s \in DOMAIN Selected(run.mode), Supported(Selected(run.mode)[s])
      PROVE  Built(Selected(run.mode)[s])
  <2>1. True(mem)
    BY <1>6 DEF IInv, Truth
  <2> QED  BY <1>1, <1>2, <1>3, <1>4, <1>6, <2>1, BuiltIs
<1> QED  BY <1>5, <1>6

\* A bootstrap that reports success has built what it was asked for, recorded
\* it, attached its disks, and left a key file that opens the bastion.
THEOREM SuccessMeansBuilt == Spec => BuildsWhatItClaims
<1>1. Unreported /\ [Next]_vars => Unreported'
  BY UnreportedOK
<1>2. Init => Unreported
  BY DEF Init, Idle, Unreported
<1>3. IInv /\ Unreported /\ [Next]_vars =>
        [Succeeds =>
          /\ LocalKeyOpens'
          /\ ~misled => \A s \in DOMAIN Selected(run.mode) :
                LET k == Selected(run.mode)[s] IN Supported(k) => Built(k)]_vars
  BY EndsBuilt
<1> QED  BY Inductive, <1>1, <1>2, <1>3, PTL DEF Spec, BuildsWhatItClaims

-----------------------------------------------------------------------------
(* The disks in use. *)

\* No step deletes a data disk, but the ones that tidy up and those that clean up
\* after a guest.
Grows == \A d \in Disks : cloud[d] \subseteq cloud'[d]

\* A creation deletes nothing.
LEMMA CreateGrows ==
  ASSUME TypeOK, NEW k, NEW a, NEW n, Create(k, a, n)
  PROVE  Grows
<1>1. cloud' = cloud \/ cloud' = [cloud EXCEPT ![k] = cloud[k] \cup {n}]
  BY DEF Create
<1>2. Disks \subseteq Kinds
  BY DEF Disks, Kinds
<1>3. \A d \in Disks : cloud[d] \subseteq [cloud EXCEPT ![k] = cloud[k] \cup {n}][d]
  <2> TAKE d \in Disks
  <2>1. CASE d = k
    BY <1>2, <2>1, Documents
  <2>2. CASE d # k
    BY <1>2, <2>2, Documents
  <2> QED  BY <2>1, <2>2
<1> QED  BY <1>1, <1>3 DEF Grows

\* Nor do the other steps of a run.
LEMMA StepGrows ==
  ASSUME TypeOK, Next,
         run.pc # "rollback", ~(EnsureBastionDataVolume /\ run.pc = "tidy"),
         ~(AttachArtifactsDataVolume /\ run.pc = "tidy"), ~CleanupOrphanArtifactsVM
  PROVE  Grows
<1>1. Disks \subseteq Kinds /\ "keypair" \notin Disks /\ "artifacts" \notin Disks /\ "ip" \notin Disks
      /\ "bastion" \notin Disks /\ cloud \in [Kinds -> SUBSET Ids]
  BY Documents DEF Disks, Kinds
<1>2. \A k \in Kinds \ Disks : \A S : cloud' = [cloud EXCEPT ![k] = S] => Grows
  BY <1>1 DEF Grows
<1>3. \A k \in Kinds : \A n : cloud' = [cloud EXCEPT ![k] = cloud[k] \cup {n}] => Grows
  <2> TAKE k \in Kinds
  <2> TAKE n
  <2> SUFFICES ASSUME cloud' = [cloud EXCEPT ![k] = cloud[k] \cup {n}], NEW d \in Disks
               PROVE  cloud[d] \subseteq cloud'[d]
    BY DEF Grows
  <2>1. CASE d = k
    BY <1>1, <2>1
  <2>2. CASE d # k
    BY <1>1, <2>2
  <2> QED  BY <2>1, <2>2
<1>4. UNCHANGED cloud => Grows
  BY DEF Grows
<1>5. /\ "keypair" \in Kinds \ Disks /\ "artifacts" \in Kinds /\ "artifacts" \in Kinds \ Disks
      /\ "ip" \in Kinds /\ "bastion" \in Kinds /\ "disk" \in Kinds /\ "store" \in Kinds
  BY DEF Kinds, Disks
<1>6. CASE CreateNetwork \/ CreateSubnets \/ CreateSecurityGroups \/ CreateBuckets
  BY <1>4, <1>6, CreateGrows DEF CreateNetwork, CreateSubnets, CreateSecurityGroups, CreateBuckets, Conflict
<1>7. CASE CreatePublicIPs
  BY <1>3, <1>4, <1>5, <1>7, CreateGrows DEF CreatePublicIPs
<1>8. CASE CreateKeyPair
  BY <1>2, <1>4, <1>5, <1>8, CreateGrows
     DEF CreateKeyPair, VerifyExistingKeypair, CreateStandardKeyPair, HandleDuplicateKeyPair, CreateLocalKeyPair
<1>9. CASE CreateBastion
  BY <1>3, <1>4, <1>5, <1>9, CreateGrows
     DEF CreateBastion, BastionAlreadyExists, ImportBastionToState, CreateBastionInstance, FinalizeAndStartVM
<1>10. \A d \in {"disk", "store"} : \A g : \A a : CreateVolume(d, g, a) => Grows
  BY <1>3, <1>4, <1>5 DEF CreateVolume
<1>11. CASE DataVolume
  BY <1>4, <1>11, <1>10
     DEF DataVolume, ResolveBastionDataVolume, CreateBastionDataVolume, EnsureBastionDataVolume, cloudVars, At
<1>12. CASE CreateArtifacts
  BY <1>3, <1>4, <1>5, <1>12, <1>10
     DEF CreateArtifacts, CreateArtifactsInstance, AttachArtifactsDataVolume, RecordArtifactsState, cloudVars, At
<1>13. CASE Save \/ HandleBootstrapStepError \/ RollbackDone \/ DeleteResource
  BY <1>4, <1>13 DEF Save, HandleBootstrapStepError, RollbackDone, DeleteResource, RunKeep, cloudVars
<1>14. CASE Start \/ Kill \/ LoseKeyFile \/ TearDownArtifacts
  BY <1>2, <1>4, <1>5, <1>14 DEF Start, Kill, LoseKeyFile, TearDownArtifacts, RunKeep, cloudVars
<1> QED  BY <1>6, <1>7, <1>8, <1>9, <1>11, <1>12, <1>13, <1>14 DEF Next, Execute, StepActions

\* A disk in use that goes, other than the one the run has made, goes with a
\* rollback or with the new artifacts guest.
LEMMA DiskStays ==
  ASSUME IInv, Next, NEW u \in used, u[2] \in cloud[u[1]] \ (cloud'[u[1]] \cup {run.fresh})
  PROVE  \/ run.pc = "rollback"
         \/ /\ run.pc = "cleanup" /\ provider = "pve" /\ losses > 0
            /\ host[u[1]][u[2]] = run.guest
<1> DEFINE d == u[1]
           m == u[2]
<1>1. d \in Disks /\ m \in Ids /\ TypeOK /\ m \in cloud[d] /\ m \notin cloud'[d] /\ m # run.fresh
  BY DEF IInv, TypeOK
<1> HIDE DEF d, m
<1>2. ~Grows
  BY <1>1 DEF Grows
<1>3. Disks = {"disk", "store"} /\ Disks \subseteq Kinds /\ cloud \in [Kinds -> SUBSET Ids]
      /\ GuestOf["disk"] = "bastion" /\ GuestOf["store"] = "artifacts" /\ "artifacts" \in Kinds
      /\ "artifacts" \notin Disks
  BY <1>1, Documents DEF Disks, Kinds, GuestOf
<1>4. CASE EnsureBastionDataVolume /\ run.pc = "tidy"
  <2>1. run.found = run.fresh
    BY <1>4 DEF IInv, Holding
  <2>2. cloud' = cloud \/ cloud' = [cloud EXCEPT !["disk"] = cloud["disk"] \ {run.found}]
    BY <1>4 DEF EnsureBastionDataVolume, At
  <2> QED  BY <1>1, <1>3, <2>1, <2>2
<1>5. CASE AttachArtifactsDataVolume /\ run.pc = "tidy"
  <2>1. run.found = run.fresh
    BY <1>5 DEF IInv, Holding
  <2>2. cloud' = cloud \/ cloud' = [cloud EXCEPT !["store"] = cloud["store"] \ {run.found}]
    BY <1>5 DEF AttachArtifactsDataVolume, At
  <2> QED  BY <1>1, <1>3, <2>1, <2>2
<1>6. CASE CleanupOrphanArtifactsVM
  <2>1. Current = "artifacts" /\ run.pc = "cleanup"
    BY <1>6 DEF CleanupOrphanArtifactsVM, At, Current
  <2>2. cloud' = cloud \/ cloud' = Without("artifacts", run.guest)
    BY <1>6 DEF CleanupOrphanArtifactsVM
  <2>3. cloud' = Without("artifacts", run.guest)
    BY <1>1, <2>2
  <2>4. run.guest \in Ids
    BY <2>1, ArtifactsBefores
  <2>5. provider = "pve" /\ GuestOf[d] = "artifacts" /\ host[d][m] = run.guest
    BY <1>1, <1>3, <2>3, <2>4, WithoutIs
  <2>6. d = "store"
    BY <1>1, <1>3, <2>5
  <2>7. losses > 0
    BY <1>1, <2>1, <2>5, <2>6, ArtifactsBefores
  <2> QED  BY <2>1, <2>5, <2>7 DEF d, m
<1> QED  BY <1>1, <1>2, <1>4, <1>5, <1>6, StepGrows

\* A data disk that a finished run has left in use is deleted only by a rollback
\* the operator asks for, or with the new guest it was attached to although the
\* answer said it was not.
THEOREM DisksStay == Spec => UsedDisksStay
<1>1. IInv /\ [Next]_vars =>
        [\A u \in used :
          u[2] \in cloud[u[1]] \ (cloud'[u[1]] \cup {run.fresh}) =>
             \/ run.pc = "rollback"
             \/ /\ run.pc = "cleanup" /\ provider = "pve" /\ losses > 0
                /\ host[u[1]][u[2]] = run.guest]_vars
  BY DiskStays
<1> QED  BY Inductive, <1>1, PTL DEF Spec, UsedDisksStay

-----------------------------------------------------------------------------
(* Teardown, on the bloc's resources and their entries (TeardownState).    *)
T == INSTANCE Teardown

\* What is assumed of the constants, as the instance says it.
LEMMA Constituents ==
  /\ KindOf \in [Res -> T!ResourceKinds]
  /\ Foreign \subseteq Res /\ Recordable \subseteq Res /\ Reads404 \subseteq Res /\ KeyedById \subseteq Res
  /\ BlocNamed \subseteq Res \ T!Volumes
  /\ Unfiltered \subseteq {r \in Foreign : KindOf[r] = "address"}
  /\ Preserved \subseteq T!Volumes
  /\ HostOf \in [T!Volumes -> T!Guests]
  /\ \A v \in T!Volumes : v \in Foreign <=> HostOf[v] \in Foreign
  /\ Options \subseteq T!CommandLine /\ \A o \in Options : o.nuke => o.force
  /\ NoOptions \notin T!CommandLine
  /\ MaxRetryAttempts \in Nat \ {0} /\ MaxMishaps \in Nat
BY TeardownAssumption
   DEF T!ResourceKinds, ResourceKinds, T!Volumes, Volumes, T!Guests, Guests, T!CommandLine, CommandLine

USE Constituents

-----------------------------------------------------------------------------
(* The invariant. *)

AtItem == pc \in {"detach", "call", "record"}

\* All items of the run.
Listed == todo \cup failed \cup (IF AtItem THEN {item} ELSE {})

\* What the types lack: there is an item where one is handled, and only
\* buckets are full.
Shape ==
  /\ T!TeardownTypeOK
  /\ AtItem => item \in T!Item
  /\ full \subseteq {r \in Res : KindOf[r] = "bucket"}
  /\ pc = "idle" => todo = {} /\ failed = {}

\* What a run may take for the bloc's, and what it knows for another's.
Mine == T!Own \cup T!Mistakable(pve)
Theirs == Foreign \ T!Mistakable(pve)

\* The resources whose entries no run may drop while they exist.
Tracked == (known \ Reads404) \cup (known \cap Theirs) \cup ((known \cap Preserved) \ exposed)

DocumentHolds ==
  /\ Tracked \cap live \subseteq recorded
  /\ loaded => Tracked \cap live \subseteq current
  /\ known \cap Theirs \subseteq recorded
  /\ loaded => known \cap Theirs \subseteq current

RecordedIsGone == pc = "record" => item.res \notin live \/ item.res \in Reads404

\* A list holds the bloc's own resources and what looks like them; the
\* preserved volumes on it count as exposed, but for a dry run, which ends
\* before it deletes.
ListsAreOurs ==
  /\ \A i \in Listed : i.res \in Mine
  /\ pc \in {"delete", "detach", "call", "record"} => ~opts.dry
  /\ ~(pc = "confirm" /\ opts.dry) => \A i \in Listed : i.res \in Preserved => i.res \in exposed
  /\ pc # "idle" /\ ~loaded => exposed = Preserved

\* Before a guest is deleted, the preserved volumes it still has are exposed.
Detached ==
  pc = "call" /\ item.res \in T!Guests =>
    \A v \in (known \cap Preserved) \ KeyedById :
      v \in attached /\ HostOf[v] = item.res /\ item.id = "vmid" => v \in exposed

TornInv == Shape /\ DocumentHolds /\ RecordedIsGone /\ ListsAreOurs /\ Detached /\ T!OthersSurvive

-----------------------------------------------------------------------------
(* The lists. *)

\* Every resource has one kind, and the kinds are told apart.
LEMMA Constants ==
  /\ \A r \in Res : KindOf[r] \in T!ResourceKinds
  /\ T!Guests \subseteq Res /\ T!Volumes \subseteq Res /\ T!Own \subseteq Res /\ T!Own \cap Foreign = {}
  /\ T!Guests \cap T!Volumes = {} /\ T!Guests \cap Unfiltered = {}
  /\ \A v \in T!Volumes : HostOf[v] \in T!Guests
  /\ \A v \in T!Volumes : HostOf[v] \in T!Own => v \in T!Own
  /\ NoOptions \notin Options /\ \A o \in Options : o.dry \in BOOLEAN
BY DEF T!Guests, T!Volumes, T!Own, T!CommandLine

\* A guest that goes by the bloc's name takes its volumes with it.
LEMMA Owners ==
  /\ \A g \in T!Guests \cap BlocNamed : g \in Mine
  /\ \A v \in T!Volumes : HostOf[v] \in BlocNamed \/ HostOf[v] \in Mine => v \in Mine
<1>1. \A g \in T!Guests \cap BlocNamed : g \in Mine
  BY Constants DEF Mine, T!Own, T!Mistakable
<1>2. ASSUME NEW v \in T!Volumes, HostOf[v] \in BlocNamed \/ HostOf[v] \in Mine PROVE v \in Mine
  <2>1. HostOf[v] \in T!Guests /\ v \in Res
    BY Constants
  <2>2. CASE HostOf[v] \in T!Own
    BY <2>2, Constants DEF Mine
  <2>3. CASE HostOf[v] \notin T!Own
    <3>1. HostOf[v] \in BlocNamed
      BY <1>2, <2>1, <2>3, Constants DEF Mine, T!Mistakable
    <3> QED  BY <2>1, <3>1 DEF Mine, T!Own, T!Mistakable
  <2> QED  BY <2>2, <2>3
<1> QED  BY <1>1, <1>2

\* What an item on a list looks like.
Ours(i) == i \in T!Item /\ i.res \in Mine

\* What Cloudflare is asked to delete is the bloc's own.
LEMMA CloudItemOurs ==
  ASSUME NEW r \in Res, r \in Mine PROVE Ours(T!CloudItem(r))
BY Constants DEF T!CloudItem, Ours, T!Item, T!ResourceKinds

\* What the state file lists is the bloc's own.
LEMMA StateItemsOurs ==
  ASSUME T!TeardownTypeOK, NEW resolves \in BOOLEAN, NEW i \in T!StateItems(resolves) PROVE Ours(i)
<1>1. PICK r \in current \ (KeyedById \cup Foreign) :
        i = [res |-> r, kind |-> KindOf[r], from |-> "state",
             id |-> IF KindOf[r] = "artifacts" /\ ~(r \in live /\ resolves) THEN "name" ELSE "vmid"]
  BY DEF T!StateItems
<1>2. r \in T!Own
  BY DEF T!TeardownTypeOK, T!Own
<1> QED  BY <1>1, <1>2, Constants DEF Ours, T!Item, Mine

\* What discovery lists by its name is the bloc's own, or its guest's.
LEMMA DiscoveredOurs ==
  ASSUME T!TeardownTypeOK, NEW hidden, NEW resolves \in BOOLEAN, NEW i \in T!Discovered(hidden, resolves)
  PROVE  Ours(i)
<1>1. \A j \in T!StateItems(resolves) : Ours(j)
  BY StateItemsOurs
<1>2. \A j \in T!CloudItems(hidden) : Ours(j)
  <2> TAKE j \in T!CloudItems(hidden)
  <2>1. PICK r \in live : T!BelongsToTargetBloc(r) /\ j = T!CloudItem(r)
    BY DEF T!CloudItems
  <2>2. r \in Res /\ r \in Mine
    BY <2>1, Constants DEF T!BelongsToTargetBloc, T!TeardownTypeOK, Mine, T!Own, T!Mistakable
  <2> QED  BY <2>1, <2>2, CloudItemOurs
<1>3. \A j \in T!NukeItems(hidden, resolves) : Ours(j)
  <2> TAKE j \in T!NukeItems(hidden, resolves)
  <2> DEFINE guests == IF "instance" \in hidden THEN {} ELSE T!Guests \cap live \cap BlocNamed
  <2>1. CASE \E r \in guests : j = T!CloudItem(r)
    BY <2>1, Constants, Owners, CloudItemOurs
  <2>2. CASE \E v \in T!Volumes : HostOf[v] \in guests /\ j = T!CloudItem(v)
    BY <2>2, Constants, Owners, CloudItemOurs
  <2>3. CASE j \in T!StateItems(resolves)
    BY <1>1, <2>3
  <2> QED  BY <2>1, <2>2, <2>3 DEF T!NukeItems
<1>4. i \in T!NukeItems(hidden, resolves) \/ i \in T!StateItems(resolves) \/ i \in T!CloudItems(hidden)
  BY DEF T!Discovered, T!MergeResources
<1> QED  BY <1>1, <1>2, <1>3, <1>4

-----------------------------------------------------------------------------
(* The initial states and, action by action, the steps. *)

\* A run starts from a state file that knows what is there.
LEMMA TornInitOK == T!Init => TornInv
<1> SUFFICES ASSUME T!Init PROVE TornInv
  OBVIOUS
<1>1. Shape
  <2>1. 0 \in 0 .. MaxRetryAttempts /\ 0 \in 0 .. MaxMishaps /\ 1 \in {1, 2}
    OBVIOUS
  <2>2. live = Res /\ attached = T!Volumes /\ full \subseteq {r \in Res : KindOf[r] = "bucket"}
    BY DEF T!Init
  <2>3. attached \subseteq T!Volumes \cap live /\ full \subseteq {r \in Res : KindOf[r] = "bucket"}
    BY <2>2, Constants
  <2>4. dns \in [records : BOOLEAN, keys : BOOLEAN]
    BY DEF T!Init
  <2> QED  BY <2>1, <2>2, <2>3, <2>4 DEF T!Init, Shape, T!TeardownTypeOK, AtItem
<1>2. DocumentHolds
  BY Constants DEF T!Init, DocumentHolds, Tracked
<1>3. RecordedIsGone /\ ListsAreOurs /\ Detached
  BY DEF T!Init, RecordedIsGone, ListsAreOurs, Detached, Listed, AtItem
<1>4. T!OthersSurvive
  BY Constants DEF T!Init, T!OthersSurvive
<1> QED  BY <1>1, <1>2, <1>3, <1>4 DEF TornInv

\* A failure stays within the bound.
LEMMA FaultType == ASSUME T!TeardownTypeOK, T!Fault \/ T!NoFault PROVE faults' \in 0 .. MaxMishaps
BY DEF T!TeardownTypeOK, T!Fault, T!NoFault

\* Which resources may be mistaken hangs on the provider alone.
LEMMA SameOwners == ASSUME UNCHANGED pve PROVE Mine' = Mine /\ Theirs' = Theirs
BY DEF Mine, Theirs, T!Mistakable

\* The provider and the file are left alone.
LEMMA WorldUntouched ==
  ASSUME TornInv, UNCHANGED <<pve, live, recorded, known>>, exposed \subseteq exposed'
  PROVE  /\ T!OthersSurvive' /\ Mine' = Mine /\ Theirs' = Theirs
         /\ Tracked' \subseteq Tracked
         /\ exposed' = exposed => Tracked' = Tracked
<1>1. Mine' = Mine /\ Theirs' = Theirs
  BY SameOwners
<1>2. T!OthersSurvive'
  <2>1. Theirs' \subseteq live' /\ known' \cap Theirs' \subseteq recorded'
    BY <1>1 DEF TornInv, T!OthersSurvive, Theirs
  <2>2. (known \cap Preserved)' \subseteq (live \cup exposed \cup KeyedById)'
    BY DEF TornInv, T!OthersSurvive
  <2> QED  BY <2>1, <2>2 DEF T!OthersSurvive, Theirs
<1> QED  BY <1>1, <1>2 DEF Tracked

\* A run that is over holds nothing.
LEMMA OverOK ==
  ASSUME TornInv, T!Over, UNCHANGED <<pve, T!cloud, recorded, known, exposed>>, faults' \in 0 .. MaxMishaps
  PROVE  TornInv'
<1>1. Shape'
  <2>1. 0 \in 0 .. MaxRetryAttempts /\ 1 \in {1, 2}
    OBVIOUS
  <2>2. UNCHANGED <<pve, live, attached, full, dns, recorded, known, exposed>>
    BY DEF T!cloud
  <2> QED  BY <2>1, <2>2 DEF T!Over, TornInv, Shape, T!TeardownTypeOK, AtItem
<1>2. T!OthersSurvive' /\ Mine' = Mine /\ Theirs' = Theirs /\ Tracked' = Tracked
  BY WorldUntouched DEF T!cloud
<1>3. DocumentHolds'
  BY <1>2 DEF T!Over, TornInv, DocumentHolds, T!cloud
<1>4. RecordedIsGone' /\ ListsAreOurs' /\ Detached'
  BY <1>2 DEF T!Over, RecordedIsGone, ListsAreOurs, Detached, Listed, AtItem
<1> QED  BY <1>1, <1>2, <1>3, <1>4 DEF TornInv

\* A bloc of which no guest is left needs no run.
LEMMA AlreadyTornDownOK ==
  ASSUME TornInv, NEW o \in Options, T!AlreadyTornDown(o) PROVE TornInv'
<1>0. /\ UNCHANGED <<pve, live, attached, full, dns, recorded, current, loaded, known, exposed>>
      /\ UNCHANGED <<todo, failed, item, attempt, pass, faults>>
      /\ pc = "idle" /\ pc' = pc /\ opts' = o
  BY DEF T!AlreadyTornDown, T!cloud, T!store, T!work
<1>1. Shape'
  BY <1>0 DEF TornInv, Shape, T!TeardownTypeOK, AtItem
<1>2. T!OthersSurvive' /\ Mine' = Mine /\ Theirs' = Theirs /\ Tracked' = Tracked
  BY <1>0, WorldUntouched
<1>3. DocumentHolds'
  BY <1>0, <1>2 DEF TornInv, DocumentHolds
<1>4. RecordedIsGone' /\ ListsAreOurs' /\ Detached'
  BY <1>0, <1>2 DEF TornInv, Shape, RecordedIsGone, ListsAreOurs, Detached, Listed, AtItem
<1> QED  BY <1>1, <1>2, <1>3, <1>4 DEF TornInv

\* Start loads the state file.
LEMMA TornStartOK == ASSUME TornInv, NEW o \in Options, T!Start(o) PROVE TornInv'
<1>1. /\ UNCHANGED <<pve, live, attached, full, dns, recorded, known>>
      /\ UNCHANGED <<todo, failed, item, attempt, pass>>
      /\ pc = "idle" /\ pc' = "dns" /\ opts' = o
  BY DEF T!Start, T!cloud, T!work
<1>2. /\ exposed \subseteq exposed' /\ exposed' \subseteq Preserved
      /\ \/ current' = recorded /\ loaded' = TRUE
         \/ current' = {} /\ loaded' = FALSE /\ exposed' = Preserved
      /\ faults' \in 0 .. MaxMishaps
  BY FaultType DEF T!Start, TornInv, Shape, T!TeardownTypeOK, T!NoFault
<1>3. Shape'
  BY <1>1, <1>2 DEF TornInv, Shape, T!TeardownTypeOK, AtItem
<1>4. T!OthersSurvive' /\ Mine' = Mine /\ Theirs' = Theirs /\ Tracked' \subseteq Tracked
  BY <1>1, <1>2, WorldUntouched
<1>5. DocumentHolds'
  BY <1>1, <1>2, <1>4 DEF TornInv, DocumentHolds
<1>6. RecordedIsGone' /\ ListsAreOurs' /\ Detached'
  BY <1>1, <1>2, <1>4 DEF TornInv, Shape, RecordedIsGone, ListsAreOurs, Detached, Listed, AtItem
<1> QED  BY <1>3, <1>4, <1>5, <1>6 DEF TornInv

\* TeardownCloudflare deletes the tunnel and the records, or fails.
LEMMA CloudflareOK == ASSUME TornInv, T!TeardownCloudflare PROVE TornInv'
<1>1. /\ UNCHANGED <<pve, live, attached, full, recorded, current, loaded, opts, known, exposed>>
      /\ UNCHANGED <<todo, failed, item, attempt, pass>>
      /\ pc = "dns" /\ pc' = "plan"
  BY DEF T!TeardownCloudflare, T!store, T!work
<1>2. faults' \in 0 .. MaxMishaps /\ dns' \in [records : BOOLEAN, keys : BOOLEAN]
  <2>1. T!Fault \/ T!NoFault
    BY DEF T!TeardownCloudflare
  <2>2. \/ dns' = dns
        \/ \E r, k \in BOOLEAN : dns' = [records |-> r, keys |-> k]
    BY DEF T!TeardownCloudflare
  <2> QED  BY <2>1, <2>2, FaultType DEF TornInv, Shape, T!TeardownTypeOK
<1>3. Shape'
  BY <1>1, <1>2 DEF TornInv, Shape, T!TeardownTypeOK, AtItem
<1>4. T!OthersSurvive' /\ Mine' = Mine /\ Theirs' = Theirs /\ Tracked' = Tracked
  BY <1>1, WorldUntouched
<1>5. DocumentHolds'
  BY <1>1, <1>4 DEF TornInv, DocumentHolds
<1>6. RecordedIsGone' /\ ListsAreOurs' /\ Detached'
  BY <1>1, <1>4 DEF TornInv, RecordedIsGone, ListsAreOurs, Detached, Listed, AtItem
<1> QED  BY <1>3, <1>4, <1>5, <1>6 DEF TornInv

\* Listing takes what is to be deleted from the state file and from discovery.
LEMMA ListingOK == ASSUME TornInv, T!Listing PROVE TornInv'
<1>1. PICK hidden \in {{}} \cup {{k} : k \in T!ResourceKinds}, resolves \in BOOLEAN :
        /\ IF hidden = {} /\ resolves THEN T!NoFault ELSE T!Fault
        /\ LET list == T!Discovered(hidden, resolves)
           IN  \/ list = {} /\ T!Over /\ UNCHANGED exposed
              \/ /\ list # {}
                 /\ todo' = list /\ pc' = "confirm"
                 /\ exposed' = IF opts.dry THEN exposed
                               ELSE exposed \cup (Preserved \cap {i.res : i \in list})
                 /\ UNCHANGED <<opts, current, loaded, failed, item, attempt, pass>>
  BY DEF T!Listing
<1> DEFINE list == T!Discovered(hidden, resolves)
<1>2. UNCHANGED <<pve, T!cloud, recorded, known>> /\ pc = "plan"
  BY DEF T!Listing
<1>3. faults' \in 0 .. MaxMishaps /\ T!TeardownTypeOK
  BY <1>1, FaultType DEF TornInv, Shape
<1>4. CASE T!Over /\ UNCHANGED exposed
  BY <1>2, <1>3, <1>4, OverOK
<1>5. CASE /\ todo' = list /\ pc' = "confirm"
           /\ exposed' = IF opts.dry THEN exposed
                         ELSE exposed \cup (Preserved \cap {i.res : i \in list})
           /\ UNCHANGED <<opts, current, loaded, failed, item, attempt, pass>>
  <2>1. \A i \in list : Ours(i)
    BY <1>3, DiscoveredOurs
  <2>2. exposed \subseteq exposed' /\ exposed' \subseteq Preserved
    BY <1>3, <1>5 DEF T!TeardownTypeOK
  <2>3. Shape'
    BY <1>2, <1>3, <1>5, <2>1, <2>2 DEF TornInv, Shape, T!TeardownTypeOK, AtItem, T!cloud, Ours
  <2>4. T!OthersSurvive' /\ Mine' = Mine /\ Theirs' = Theirs /\ Tracked' \subseteq Tracked
    BY <1>2, <2>2, WorldUntouched DEF T!cloud
  <2>5. DocumentHolds'
    BY <1>2, <1>5, <2>4 DEF TornInv, DocumentHolds, T!cloud
  <2>6. ListsAreOurs'
    <3>1. Listed' = list \cup failed /\ Listed = todo \cup failed
      BY <1>2, <1>5 DEF Listed, AtItem
    <3>2. ~opts.dry => \A i \in list : i.res \in Preserved => i.res \in exposed'
      BY <1>5
    <3> QED  BY <1>2, <1>3, <1>5, <2>1, <2>2, <2>4, <3>1, <3>2 DEF TornInv, ListsAreOurs, Ours, T!TeardownTypeOK
  <2>7. RecordedIsGone' /\ Detached'
    BY <1>5 DEF RecordedIsGone, Detached
  <2> QED  BY <2>3, <2>4, <2>5, <2>6, <2>7 DEF TornInv
<1> QED  BY <1>1, <1>4, <1>5

\* The list is confirmed, and nothing else changes.
LEMMA ConfirmedOK == ASSUME TornInv, T!Confirmed PROVE TornInv'
<1>1. /\ UNCHANGED <<pve, live, attached, full, dns, recorded, current, loaded, opts, known, exposed>>
      /\ UNCHANGED <<todo, failed, item, attempt, pass, faults>>
      /\ pc = "confirm" /\ pc' = "delete" /\ ~opts.dry
  BY DEF T!Confirmed, T!cloud, T!store, T!work
<1>2. Shape'
  BY <1>1 DEF TornInv, Shape, T!TeardownTypeOK, AtItem
<1>3. T!OthersSurvive' /\ Mine' = Mine /\ Theirs' = Theirs /\ Tracked' = Tracked
  BY <1>1, WorldUntouched
<1>4. DocumentHolds'
  BY <1>1, <1>3 DEF TornInv, DocumentHolds
<1>5. RecordedIsGone' /\ ListsAreOurs' /\ Detached'
  BY <1>1, <1>3 DEF TornInv, RecordedIsGone, ListsAreOurs, Detached, Listed, AtItem
<1> QED  BY <1>2, <1>3, <1>4, <1>5 DEF TornInv

\* However a run ends, it leaves the provider and the file as they are.
LEMMA EndOK == ASSUME TornInv, T!Cancelled \/ T!Finish \/ T!Crash PROVE TornInv'
<1>1. T!Over /\ UNCHANGED <<pve, T!cloud, recorded, known, exposed>> /\ (T!Fault \/ T!NoFault)
  BY DEF T!Cancelled, T!Finish, T!Crash, T!NoFault
<1>2. faults' \in 0 .. MaxMishaps
  BY <1>1, FaultType DEF TornInv, Shape
<1> QED  BY <1>1, <1>2, OverOK

-----------------------------------------------------------------------------
(* The steps of a deletion. *)

\* The item taken is on the list already.
LEMMA TakeOK == ASSUME TornInv, T!Take PROVE TornInv'
<1>1. PICK i \in todo : item' = i /\ todo' = todo \ {i}
  BY DEF T!Take
<1>2. /\ UNCHANGED <<pve, live, attached, full, dns, recorded, current, loaded, opts, known, exposed>>
      /\ UNCHANGED <<failed, pass, faults>>
      /\ pc = "delete" /\ attempt' = 1
      /\ pc' = IF item'.res \in T!Guests THEN "detach" ELSE "call"
  BY DEF T!Take, T!cloud, T!store
<1>3. Shape'
  <2>1. 1 \in 0 .. MaxRetryAttempts /\ i \in T!Item
    BY DEF TornInv, Shape, T!TeardownTypeOK
  <2> QED  BY <1>1, <1>2, <2>1 DEF TornInv, Shape, T!TeardownTypeOK, AtItem
<1>4. T!OthersSurvive' /\ Mine' = Mine /\ Theirs' = Theirs /\ Tracked' = Tracked
  BY <1>2, WorldUntouched
<1>5. DocumentHolds'
  BY <1>2, <1>4 DEF TornInv, DocumentHolds
<1>6. ListsAreOurs'
  <2>1. Listed' = Listed
    BY <1>1, <1>2 DEF Listed, AtItem
  <2> QED  BY <1>2, <1>4, <2>1 DEF TornInv, ListsAreOurs
<1>7. RecordedIsGone' /\ Detached'
  BY <1>2 DEF RecordedIsGone, Detached
<1> QED  BY <1>3, <1>4, <1>5, <1>6, <1>7 DEF TornInv

\* A preserved volume of the guest is in the document the run holds, unless it
\* is exposed already; so it is detached, or becomes exposed.
LEMMA DetachOK == ASSUME TornInv, T!Detach PROVE TornInv'
<1>1. PICK kept \in SUBSET (T!PreservedVolumes(item) \cap attached) :
        /\ IF kept = {} THEN T!NoFault ELSE T!Fault
        /\ attached' = attached \ (T!PreservedVolumes(item) \ kept)
        /\ exposed' = exposed \cup kept
  BY DEF T!Detach
<1>2. /\ UNCHANGED <<pve, live, full, dns, recorded, current, loaded, opts, known>>
      /\ UNCHANGED <<todo, failed, item, attempt, pass>>
      /\ pc = "detach" /\ pc' = "call"
  BY DEF T!Detach, T!store, T!work
<1>3. T!PreservedVolumes(item) \subseteq Preserved
  BY DEF T!PreservedVolumes
<1>4. Shape'
  <2>1. faults' \in 0 .. MaxMishaps
    BY <1>1, FaultType DEF TornInv, Shape
  <2> QED  BY <1>1, <1>2, <1>3, <2>1 DEF TornInv, Shape, T!TeardownTypeOK, AtItem
<1>5. T!OthersSurvive' /\ Mine' = Mine /\ Theirs' = Theirs /\ Tracked' \subseteq Tracked
  BY <1>1, <1>2, WorldUntouched
<1>6. DocumentHolds'
  BY <1>2, <1>5 DEF TornInv, DocumentHolds
<1>7. Detached'
  <2> SUFFICES ASSUME NEW v \in (known \cap Preserved) \ KeyedById,
                      v \in attached', HostOf[v] = item.res, item.id = "vmid"
               PROVE  v \in exposed'
    BY <1>2 DEF Detached
  <2>1. v \in attached /\ v \in live
    BY <1>1 DEF TornInv, Shape, T!TeardownTypeOK
  <2>2. CASE v \in exposed
    BY <1>1, <2>2
  <2>3. CASE v \notin exposed
    <3>1. loaded
      BY <1>2, <2>3 DEF TornInv, ListsAreOurs
    <3>2. v \in current
      BY <2>1, <2>3, <3>1 DEF TornInv, DocumentHolds, Tracked
    <3>3. v \in T!PreservedVolumes(item)
      BY <3>2 DEF T!PreservedVolumes
    <3> QED  BY <1>1, <3>3
  <2> QED  BY <2>2, <2>3
<1>8. RecordedIsGone' /\ ListsAreOurs'
  <2>1. Listed' = Listed
    BY <1>2 DEF Listed, AtItem
  <2>2. exposed \subseteq exposed' /\ (~loaded => exposed' = Preserved)
    BY <1>1, <1>2, <1>3 DEF TornInv, ListsAreOurs
  <2> QED  BY <1>2, <1>5, <2>1, <2>2 DEF TornInv, RecordedIsGone, ListsAreOurs
<1> QED  BY <1>4, <1>5, <1>6, <1>7, <1>8 DEF TornInv

\* What the step after a call may be: the item is recorded, given up or left,
\* or tried again.
Again == /\ attempt < MaxRetryAttempts /\ attempt' = attempt + 1
         /\ pc' = (IF item.res \in T!Guests THEN "detach" ELSE "call")
         /\ UNCHANGED <<failed, item>>
Left == pc' = "delete" /\ item' = NoItem /\ attempt' = 0 /\ UNCHANGED failed

\* Whatever a call answers, the lists stay the bloc's own.
LEMMA AnswerOK ==
  ASSUME TornInv, pc = "call",
         UNCHANGED <<pve, dns, recorded, current, loaded, opts, todo, pass, known, exposed>>,
         live' \subseteq live, attached' \subseteq T!Volumes \cap live',
         attached' \subseteq attached,
         full' \subseteq full \cap live', T!Fault \/ T!NoFault, T!OthersSurvive',
         \/ T!Succeed /\ (item.res \notin live' \/ item.res \in Reads404)
         \/ T!GiveUp \/ Again \/ Left
  PROVE  TornInv'
<1>1. item \in T!Item /\ item \in Listed
  BY DEF TornInv, Shape, AtItem, Listed
<1>2. Listed' \subseteq Listed
  BY <1>1 DEF T!Succeed, T!GiveUp, Again, Left, Listed, AtItem
<1>3. pc' \in {"delete", "detach", "call", "record"} /\ failed' \subseteq T!Item
  BY <1>1 DEF T!Succeed, T!GiveUp, Again, Left, TornInv, Shape, T!TeardownTypeOK
<1>4. item' \in T!Item \cup {NoItem} /\ (AtItem => item \in T!Item)'
  BY <1>1 DEF T!Succeed, T!GiveUp, Again, Left, AtItem
<1>5. attempt' \in 0 .. MaxRetryAttempts /\ faults' \in 0 .. MaxMishaps
  BY FaultType DEF T!Succeed, T!GiveUp, Again, Left, TornInv, Shape, T!TeardownTypeOK
<1>6. Shape'
  BY <1>3, <1>4, <1>5 DEF TornInv, Shape, T!TeardownTypeOK
<1>0. Mine' = Mine /\ Theirs' = Theirs
  BY SameOwners
<1>7. DocumentHolds'
  BY <1>0 DEF TornInv, DocumentHolds, Tracked
<1>8. RecordedIsGone'
  BY DEF T!Succeed, T!GiveUp, Again, Left, RecordedIsGone
<1>9. ListsAreOurs'
  BY <1>0, <1>2, <1>3 DEF TornInv, ListsAreOurs
<1>10. Detached'
  BY DEF T!Succeed, T!GiveUp, Again, Left, Detached
<1> QED  BY <1>6, <1>7, <1>8, <1>9, <1>10 DEF TornInv

\* An answer that refuses is success for a resource that is gone, or is tried again.
LEMMA RefusedAnswer ==
  ASSUME T!Refused \/ T!Conflict
  PROVE  \/ T!Succeed /\ item.res \in Reads404
         \/ T!GiveUp \/ Again
BY DEF T!Refused, T!Conflict, Again

\* What a deletion destroys is the bloc's own, or a bucket that looks like it,
\* and no preserved volume that is not exposed.
LEMMA DestroySpares ==
  ASSUME TornInv, pc = "call", T!Deleted,
         UNCHANGED <<recorded, known, exposed, pve>>
  PROVE  /\ T!OthersSurvive'
         /\ live' \subseteq live /\ item.res \notin live'
         /\ attached' \subseteq T!Volumes \cap live' /\ attached' \subseteq attached
         /\ full' \subseteq full \cap live'
<1> DEFINE r == item.res
           disks == {v \in attached : HostOf[v] = r}
<1>1. /\ live' = live \ ({r} \cup (IF pve THEN disks ELSE {}))
      /\ attached' = attached \ ({r} \cup disks)
      /\ full' = full \ {r} /\ item.id = "vmid"
  BY DEF T!Deleted, T!Destroy
<1>2. r \in Mine /\ (r \in Preserved => r \in exposed)
  BY DEF TornInv, ListsAreOurs, Listed, AtItem
<1>3. \A v \in disks : v \in T!Volumes /\ v \in Mine
  <2> TAKE v \in disks
  <2>1. v \in T!Volumes /\ r \in T!Guests
    BY Constants DEF TornInv, Shape, T!TeardownTypeOK
  <2> QED  BY <1>2, <2>1, Owners
<1>4. \A v \in disks : v \in (known \cap Preserved) \ KeyedById => v \in exposed
  <2> TAKE v \in disks
  <2>1. r \in T!Guests
    BY Constants DEF TornInv, Shape, T!TeardownTypeOK
  <2> QED  BY <1>1, <2>1 DEF TornInv, Detached
<1>5. T!OthersSurvive'
  <2>1. Theirs \subseteq live'
    BY <1>1, <1>2, <1>3 DEF TornInv, T!OthersSurvive, T!Own, Mine, Theirs
  <2>2. known \cap Preserved \subseteq live' \cup exposed \cup KeyedById
    BY <1>1, <1>2, <1>4 DEF TornInv, T!OthersSurvive
  <2>3. Theirs' = Theirs /\ known \cap Theirs \subseteq recorded
    BY SameOwners DEF TornInv, T!OthersSurvive, Theirs
  <2> QED  BY <2>1, <2>2, <2>3 DEF T!OthersSurvive, Theirs
<1>6. live' \subseteq live /\ r \notin live' /\ attached' \subseteq attached
  BY <1>1
<1>7. attached' \subseteq T!Volumes \cap live'
  BY <1>1 DEF TornInv, Shape, T!TeardownTypeOK
<1>8. full' \subseteq full \cap live'
  <2>1. \A v \in disks : v \notin full
    BY <1>3 DEF TornInv, Shape, T!Volumes
  <2> QED  BY <1>1, <2>1 DEF TornInv, Shape, T!TeardownTypeOK
<1> QED  BY <1>5, <1>6, <1>7, <1>8

\* DeleteResource deletes one resource, or is refused.
LEMMA DeleteResourceOK == ASSUME TornInv, T!DeleteResource PROVE TornInv'
<1>1. pc = "call" /\ UNCHANGED <<pve, dns, recorded, current, loaded, opts, todo, pass, known, exposed>>
  BY DEF T!DeleteResource, T!store
<1>2. attached \subseteq T!Volumes \cap live /\ full \subseteq live
  BY DEF TornInv, Shape, T!TeardownTypeOK
<1>3. CASE T!Deleted
  <2>1. T!Succeed /\ T!NoFault
    BY <1>3 DEF T!Deleted
  <2> QED  BY <1>1, <1>3, <2>1, DestroySpares, AnswerOK
<1>4. CASE T!Skipped \/ T!AlreadyGone \/ T!Busy \/ T!Fails
  <2>1. UNCHANGED <<live, attached>> /\ full' \subseteq full /\ (T!Fault \/ T!NoFault)
    BY <1>4 DEF T!Skipped, T!AlreadyGone, T!Busy, T!Fails, T!NoFault
  <2>2. T!OthersSurvive'
    BY <1>1, <2>1, WorldUntouched
  <2>3. \/ T!Succeed /\ (item.res \notin live \/ item.res \in Reads404)
        \/ T!GiveUp \/ Again \/ Left
    BY <1>4, RefusedAnswer DEF T!Skipped, T!AlreadyGone, T!Busy, T!Fails, Left
  <2> QED  BY <1>1, <1>2, <2>1, <2>2, <2>3, AnswerOK
<1> QED  BY <1>3, <1>4 DEF T!DeleteResource

\* The entry dropped is of something gone, or misread as gone: never of another
\* bloc's, never of a preserved volume that is not exposed.
LEMMA UpdateStateOK == ASSUME TornInv, T!UpdateState PROVE TornInv'
<1>1. /\ UNCHANGED <<pve, live, attached, full, dns, loaded, opts, todo, failed, pass, known, exposed>>
      /\ pc = "record" /\ pc' = "delete" /\ item' = NoItem /\ attempt' = 0
      /\ current' = current \ T!EntryOf(item)
      /\ (recorded' = current' /\ loaded) \/ recorded' = recorded
      /\ T!Fault \/ T!NoFault
  BY DEF T!UpdateState, T!cloud, T!NoFault
<1>2. T!EntryOf(item) \cap live \cap Tracked = {} /\ T!EntryOf(item) \cap Theirs = {}
  <2>1. /\ item.res \in Mine
        /\ item.res \in Preserved => item.res \in exposed
    BY <1>1 DEF TornInv, ListsAreOurs, Listed, AtItem
  <2>2. T!EntryOf(item) \subseteq {item.res} /\ item.res \notin Theirs
    BY <2>1 DEF T!EntryOf, Mine, Theirs, T!Own
  <2>3. item.res \notin live \/ item.res \in Reads404
    BY <1>1 DEF TornInv, RecordedIsGone
  <2> QED  BY <2>1, <2>2, <2>3 DEF Tracked
<1>3. Shape'
  <2>1. faults' \in 0 .. MaxMishaps /\ 0 \in 0 .. MaxRetryAttempts
    BY <1>1, FaultType DEF TornInv, Shape
  <2> QED  BY <1>1, <2>1 DEF TornInv, Shape, T!TeardownTypeOK, AtItem
<1>4. Mine' = Mine /\ Theirs' = Theirs /\ Tracked' = Tracked
  BY <1>1, SameOwners DEF Tracked
<1>5. DocumentHolds'
  BY <1>1, <1>2, <1>4 DEF TornInv, DocumentHolds
<1>6. T!OthersSurvive'
  BY <1>1, <1>4, <1>5 DEF TornInv, T!OthersSurvive, DocumentHolds, Theirs
<1>7. RecordedIsGone' /\ ListsAreOurs' /\ Detached'
  <2>1. Listed' \subseteq Listed
    BY <1>1 DEF Listed, AtItem
  <2> QED  BY <1>1, <1>4, <2>1 DEF TornInv, RecordedIsGone, ListsAreOurs, Detached
<1> QED  BY <1>3, <1>5, <1>6, <1>7 DEF TornInv

\* What failed is the list of the second pass.
LEMMA RetryFailedOK == ASSUME TornInv, T!RetryFailed PROVE TornInv'
<1>1. /\ UNCHANGED <<pve, live, attached, full, dns, recorded, current, loaded, opts, known, exposed>>
      /\ UNCHANGED <<pc, item, attempt, faults>>
      /\ pc = "delete" /\ pass' = 2 /\ todo' = failed /\ failed' = {}
  BY DEF T!RetryFailed, T!cloud, T!store
<1>2. Shape'
  BY <1>1 DEF TornInv, Shape, T!TeardownTypeOK, AtItem
<1>3. T!OthersSurvive' /\ Mine' = Mine /\ Theirs' = Theirs /\ Tracked' = Tracked
  BY <1>1, WorldUntouched
<1>4. DocumentHolds'
  BY <1>1, <1>3 DEF TornInv, DocumentHolds
<1>5. RecordedIsGone' /\ ListsAreOurs' /\ Detached'
  <2>1. Listed' \subseteq Listed
    BY <1>1 DEF Listed, AtItem
  <2> QED  BY <1>1, <1>3, <2>1 DEF TornInv, RecordedIsGone, ListsAreOurs, Detached
<1> QED  BY <1>2, <1>3, <1>4, <1>5 DEF TornInv

-----------------------------------------------------------------------------
(* The theorems. *)

\* No step breaks the invariant.
LEMMA TornNextOK == ASSUME TornInv, T!Next PROVE TornInv'
<1>1. CASE \E o \in Options : T!Start(o) \/ T!AlreadyTornDown(o)
  BY <1>1, TornStartOK, AlreadyTornDownOK
<1>2. CASE T!Step
  BY <1>2, CloudflareOK, ListingOK, ConfirmedOK, EndOK, TakeOK, DetachOK, DeleteResourceOK,
     UpdateStateOK, RetryFailedOK DEF T!Step
<1>3. CASE T!Crash
  BY <1>3, EndOK
<1> QED  BY <1>1, <1>2, <1>3 DEF T!Next

\* A state that stays the same keeps it.
LEMMA TornStutterOK == ASSUME TornInv, UNCHANGED T!vars PROVE TornInv'
<1>1. /\ UNCHANGED <<pve, live, attached, full, dns, recorded, current, loaded, pc, opts, known, exposed>>
      /\ UNCHANGED <<todo, failed, item, attempt, pass, faults>>
  BY DEF T!vars, T!cloud, T!store, T!work
<1>2. T!OthersSurvive' /\ Mine' = Mine /\ Theirs' = Theirs /\ Tracked' = Tracked
  BY <1>1, WorldUntouched
<1>3. Shape'
  BY <1>1 DEF TornInv, Shape, T!TeardownTypeOK, AtItem
<1>4. DocumentHolds' /\ RecordedIsGone' /\ ListsAreOurs' /\ Detached'
  BY <1>1, <1>2 DEF TornInv, DocumentHolds, RecordedIsGone, ListsAreOurs, Listed, AtItem, Detached
<1> QED  BY <1>2, <1>3, <1>4 DEF TornInv

\* The invariant holds throughout, whatever is on the provider and in the file.
THEOREM TornInductive == T!Spec => []TornInv
<1>1. TornInv /\ [T!Next]_T!vars => TornInv'
  BY TornNextOK, TornStutterOK
<1> QED  BY TornInitOK, <1>1, PTL DEF T!Spec

\* The variables have the types Teardown declares: in particular the document a
\* run holds never has an entry the file has not, and what is attached exists.
THEOREM Typing == T!Spec => []TeardownTypeOK
<1>1. TornInv => TeardownTypeOK
  BY DEF TornInv, Shape, T!TeardownTypeOK, TeardownTypeOK, T!Volumes, Volumes, T!Item, Item,
         T!ResourceKinds, ResourceKinds
<1> QED  BY TornInductive, <1>1, PTL

\* The file keeps the entry of what still exists, through failed deletions,
\* failed saves, crashes and repeated runs (updateStateAfterDeletion).
THEOREM EntriesOutliveResources == T!Spec => []NoOrphan
<1>1. TornInv => NoOrphan
  BY DEF TornInv, DocumentHolds, Tracked, NoOrphan
<1> QED  BY TornInductive, <1>1, PTL

\* A run spares other blocs' resources and entries, and the preserved volumes
\* it knows of and could detach (belongsToTargetBloc, detachPreservedVolumes).
THEOREM RunsSpare == T!Spec => []OthersSurvive
<1>1. TornInv => OthersSurvive
  <2>1. T!Mistakable(pve) = Mistakable(pve)
    BY DEF T!Mistakable, Mistakable, T!Guests, Guests, T!Volumes, Volumes
  <2> QED  BY <2>1 DEF TornInv, T!OthersSurvive, OthersSurvive
<1> QED  BY TornInductive, <1>1, PTL
=============================================================================
