------------------------- MODULE VaultMigrateProofs -------------------------
(***************************************************************************)
(* What is proved about VaultMigrate, for any tree, contents and number of *)
(* failures: SecretsSurvive.                                               *)
(*                                                                         *)
(* The property speaks of the end; what makes it true is said of the walk: *)
(* every secret of the inception vault is in production, or still to be    *)
(* migrated (or checked), or below a path still to be visited, unless it   *)
(* is excused or the run has failed (Walked).  Next to it, what is held in *)
(* the hand is what the vaults have (Handed), and the snapshot is whole or *)
(* has had the one failure that the walk then had not (Kept).  Ended says  *)
(* the same of a vault that is gone; one that runs on without its files    *)
(* may be migrated again, but has nothing but what was written late.       *)
(***************************************************************************)
EXTENDS VaultMigrate, FiniteSetTheorems, TLAPS

USE TreeAssumption, EnvsAssumption, ContentsAssumption, BoundsAssumption, NoneAssumption

-----------------------------------------------------------------------------
(* The invariant.                                                          *)

\* A run that writes into production is at one of these steps.
Real(pcs) == ~run.dry /\ run.pc \in pcs
Excused == hidden \cup late \cup wiped

\* A dry run walks only, and the inception vault answers until it is destroyed.
Phased == /\ run.dry => run.pc \in {"walk", "import"}
          /\ Real({"snapshot", "walk", "import", "confirm", "decommission"}) => up

\* What is held in the hand.
Slot == <<run.hand.item.path, run.hand.item.key>>
Handed == Real({"import"}) =>
  /\ run.hand.item \in run.agenda /\ run.hand.item.do = "key" /\ run.hand.value # None
  /\ Slot \in late \/ run.hand.value = inc[Slot]
  /\ run.hand.rest = IF run.hand.read THEN At(prod, run.hand.item.path) ELSE NoHand.rest

\* What is left to do about a slot.
Reaches(s) == \E i \in run.agenda : i.do = "visit" /\ Above(i.path, s[1])
Todo(do, s) == Item(do, s[1], s[2]) \in run.agenda
Streamed(s) == s \in Excused \/ run.failed \/ Reaches(s) \/ Todo("key", s) \/ prod[s] = inc[s]
Structured(s) == \/ s \in hidden \cup late \/ run.failed
                 \/ Reaches(s) \/ Todo("check", s)
                 \/ /\ prod[s] = inc[s]
                    /\ \A i \in run.agenda : i.do = "check"
Walked == Real({"walk", "import"}) =>
  \A s \in Slots : inc[s] # None =>
    IF run.mode = "interactive" THEN Streamed(s) ELSE Structured(s)

\* After the walk.
Finished == Real({"confirm", "decommission"}) =>
  /\ Copied(inc, Excused)
  /\ run.mode = "structured" => Copied(inc, hidden \cup late)

\* Nothing is hidden or dropped without a failure.
Unread == run.pc = "import" /\ ~run.dry /\ ~run.hand.read
Faulted == /\ hidden \cup wiped # {} \/ Unread => faults >= 1
           /\ \A s \in wiped : prod[s] = None

\* The snapshot has what v has, or it had a failure and the walk had none.
Kept(v) ==
  \/ \A s \in Slots \ late : v[s] # None => snap[s] = v[s]
  \/ faults >= 2
  \/ faults = 1 /\ hidden = {} /\ wiped = {} /\ ~Unread
SnapKept == Real({"walk", "import", "confirm", "decommission"}) => Kept(inc)

IInv == /\ TypeOK /\ Phased /\ Handed /\ Walked /\ Finished
        /\ Faulted /\ SnapKept

\* After the end of the inception vault.
Gone == ~Whole => Copied(last, Excused) /\ Kept(last)

\* One that runs on without its files holds only what was written late.
ItemSlot(i) == <<i.path, i.key>>
Hollow == up /\ ~files =>
  /\ \A s \in Slots : inc[s] # None => s \in late
  /\ run.pc \in {"walk", "import"} =>
       \A i \in run.agenda : i.do # "visit" => ItemSlot(i) \in late
  /\ run.pc = "import" =>
       /\ run.hand.item \in run.agenda /\ run.hand.item.do = "key"
       /\ \A k \in Keys : run.dry /\ run.hand.rest[k] # None =>
                            <<run.hand.item.path, k>> \in late
  /\ faults >= 2 \/ (faults = 1 /\ hidden = {} /\ wiped = {} /\ ~Unread)
Ended == Gone /\ Hollow

-----------------------------------------------------------------------------
(* The tree, and how failures count.                                       *)

\* Paths are sequences; the root is above all, a path above itself.
LEMMA Tree ==
  /\ \A p \in Paths : p \in Seq(Names) /\ Len(p) \in Nat /\ Above(p, p) /\ Above(<< >>, p)
  /\ Len(<< >>) = 0 /\ << >> \in Paths
<1>1. \A p \in Seq(Names) : Len(p) \in Nat /\ SubSeq(p, 1, Len(p)) = p /\ SubSeq(p, 1, 0) = << >>
  OBVIOUS
<1> QED  BY <1>1 DEF Above

\* On the way from a path down to another there is a next one.
LEMMA NextDown ==
  ASSUME NEW p \in Paths, NEW q \in Paths, Above(p, q), p # q
  PROVE  \E c \in Paths : Len(c) = Len(p) + 1 /\ Above(p, c) /\ Above(c, q)
<1> DEFINE c == SubSeq(q, 1, Len(p) + 1)
<1>1. p \in Seq(Names) /\ q \in Seq(Names) /\ Len(p) \in Nat /\ Len(q) \in Nat
  BY Tree
<1>2. Len(p) <= Len(q) /\ SubSeq(q, 1, Len(p)) = p
  BY DEF Above
<1>3. Len(p) # Len(q)
  <2>1. SubSeq(q, 1, Len(q)) = q
    BY <1>1
  <2> QED  BY <1>2, <2>1
<1>4. Len(p) + 1 \in 0 .. Len(q)
  BY <1>1, <1>2, <1>3
<1>5. c \in Paths /\ Len(c) = Len(p) + 1
  BY <1>1, <1>4
<1>6. SubSeq(c, 1, Len(p)) = SubSeq(q, 1, Len(p))
  <2>1. c \in Seq(Names) /\ \A j \in 1 .. Len(p) + 1 : c[j] = q[j]
    BY <1>1, <1>4
  <2>2. \A j \in 1 .. Len(p) : c[j] = q[j]
    BY <1>1, <2>1
  <2>3. q \in Seq(Names) /\ Len(p) \in 0 .. Len(c) /\ Len(p) \in 0 .. Len(q)
    BY <1>1, <1>4, <1>5
  <2> HIDE DEF c
  <2> QED  BY <2>1, <2>2, <2>3
<1>7. Above(p, c) /\ Above(c, q)
  BY <1>1, <1>2, <1>4, <1>5, <1>6 DEF Above
<1> QED  BY <1>5, <1>7

\* A step that fails n times says so.
LEMMA Failures ==
  ASSUME NEW n \in Nat, faults \in 0 .. MaxFaults, Fail(n)
  PROVE  faults' = faults + n /\ faults' \in 0 .. MaxFaults
BY DEF Fail

\* The sets that are counted are finite.
LEMMA Counts ==
  /\ \A S \in SUBSET Paths : Cardinality(S) \in Nat /\ (Cardinality(S) = 0 => S = {})
  /\ \A S \in SUBSET Envs : Cardinality(S) \in Nat
<1>1. \A S \in SUBSET Paths : IsFiniteSet(S)
  BY FS_Subset
<1>2. \A S \in SUBSET Envs : IsFiniteSet(S)
  BY FS_Subset
<1> QED  BY <1>1, <1>2, FS_CardinalityType, FS_EmptySet

\* An empty vault, an empty hand and no run are typed.
LEMMA Nothing ==
  /\ Empty \in Vaults /\ NoHand \in Hands /\ Root \in Items
  /\ NoRun \in Runs
<1>1. Root \in Items
  BY Tree DEF Root, Items, Item
<1>2. NoHand \in Hands
  BY <1>1 DEF NoHand, Hands
<1> QED  BY <1>1, <1>2 DEF Empty, Vaults, NoRun, Runs, Steps, Modes

-----------------------------------------------------------------------------
(* Steps outside the walk.                                                 *)

\* Before and after the walk, nothing is said of the walk.
LEMMA Off ==
  ASSUME IInv, TypeOK',
         \/ run'.dry /\ run'.pc = "walk"
         \/ ~run'.dry /\ run'.pc \in {"idle", "validate", "snapshot", "update"},
         run'.pc = "snapshot" => up',
         prod' = prod, wiped' = wiped, faults' >= faults,
         (late' = late /\ hidden' = hidden) \/ hidden' = {}
  PROVE  IInv'
<1>1. Phased' /\ Handed' /\ Walked' /\ Finished'
  BY DEF Phased, Handed, Walked, Finished, Real
<1>3. ~Unread'
  BY DEF Unread
<1>4. Faulted'
  BY <1>3 DEF IInv, TypeOK, Faulted
<1>5. SnapKept'
  BY DEF SnapKept, Real
<1> QED  BY <1>1, <1>4, <1>5 DEF IInv

\* A dry run leaves what it could hide or drop in production alone.
LEMMA DryWalk ==
  ASSUME IInv, TypeOK', run.dry, run'.dry, run'.pc \in {"walk", "import"},
         prod' = prod, wiped' = wiped,
         faults' >= faults, hidden' = hidden \/ faults' > faults
  PROVE  IInv'
<1>1. Phased' /\ Handed' /\ Walked' /\ Finished'
  BY DEF Phased, Handed, Walked, Finished, Real
<1>3. ~Unread'
  BY DEF Unread
<1>4. Faulted'
  BY <1>3 DEF IInv, TypeOK, Faulted
<1>5. SnapKept'
  BY DEF SnapKept, Real
<1> QED  BY <1>1, <1>4, <1>5 DEF IInv

-----------------------------------------------------------------------------
(* Types.                                                                  *)

\* A slot is a path and a key.
LEMMA SlotTypes ==
  ASSUME NEW s \in Slots
  PROVE  /\ s[1] \in Paths /\ s[2] \in Keys /\ s = <<s[1], s[2]>>
         /\ \A v \in Vaults : v[s] \in Vals \cup {None}
BY DEF Slots, Vaults

\* What an item of the agenda is.
LEMMA ItemTypes ==
  ASSUME TypeOK, NEW i \in run.agenda
  PROVE  /\ i \in Items /\ i.path \in Paths /\ i.do \in {"visit", "key", "check"}
         /\ i = Item(i.do, i.path, i.key)
         /\ i.do # "visit" => i.key \in Keys /\ <<i.path, i.key>> \in Slots
<1>1. i \in Items
  BY DEF TypeOK, Runs
<1> QED  BY <1>1 DEF Items, Item, Slots

\* What a key that could not be migrated leaves, and one that was.
LEMMA Skipped ==
  ASSUME TypeOK, NEW i, Skip(i)
  PROVE  /\ run' \in Runs /\ run'.pc = "walk" /\ run'.dry = run.dry /\ run'.mode = run.mode
         /\ run'.agenda = run.agenda \ {i}
         /\ run'.failed = (run.mode = "interactive" \/ run.failed)
<1>1. run \in Runs /\ NoHand \in Hands
  BY Nothing DEF TypeOK
<1> DEFINE a == run.agenda \ {i}
           b == run.mode = "interactive" \/ run.failed
<1>2. run' = [run EXCEPT !.pc = "walk", !.agenda = a, !.hand = NoHand, !.failed = b]
  BY DEF Skip
<1>3. a \in SUBSET Items /\ b \in BOOLEAN
  BY <1>1 DEF Runs
<1> HIDE DEF a, b
<1>4. run' \in Runs
  BY <1>1, <1>2, <1>3 DEF Runs, Steps
<1>5. /\ run'.pc = "walk" /\ run'.dry = run.dry /\ run'.mode = run.mode
      /\ run'.agenda = a /\ run'.failed = b
  BY <1>1, <1>2 DEF Runs
<1> QED  BY <1>4, <1>5 DEF a, b

LEMMA CountedKey ==
  ASSUME TypeOK, NEW i, Counted(i)
  PROVE  /\ run' \in Runs /\ run'.pc = "walk" /\ run'.dry = run.dry /\ run'.mode = run.mode
         /\ run'.agenda = run.agenda \ {i} /\ run'.failed = run.failed
<1>1. run \in Runs /\ NoHand \in Hands
  BY Nothing DEF TypeOK
<1> DEFINE a == run.agenda \ {i}
           n == IF run.mode = "interactive" THEN run.count + 1 ELSE run.count
<1>2. run' = [run EXCEPT !.pc = "walk", !.agenda = a, !.hand = NoHand, !.count = n]
  BY DEF Counted
<1>3. a \in SUBSET Items /\ n \in Nat
  BY <1>1 DEF Runs
<1> HIDE DEF a, n
<1>4. run' \in Runs
  BY <1>1, <1>2, <1>3 DEF Runs, Steps
<1>5. /\ run'.pc = "walk" /\ run'.dry = run.dry /\ run'.mode = run.mode
      /\ run'.agenda = a /\ run'.failed = run.failed
  BY <1>1, <1>2 DEF Runs
<1> QED  BY <1>4, <1>5 DEF a

-----------------------------------------------------------------------------
(* Before and after the walk.                                              *)

\* Nothing is known of anything at the start.
LEMMA Starts == Init => IInv
<1> SUFFICES ASSUME Init PROVE IInv
  OBVIOUS
<1>1. TypeOK
  <2>1. /\ inc \in Vaults /\ prod \in Vaults /\ snap \in Vaults /\ last \in Vaults
        /\ run \in Runs /\ result \in Results
    BY Nothing DEF Init, Results
  <2>2. 0 \in 0 .. MaxFaults /\ 0 \in 0 .. MaxWrites /\ 0 \in 0 .. MaxDry
    OBVIOUS
  <2> QED  BY <2>1, <2>2 DEF Init, TypeOK
<1>2. run.pc = "idle" /\ ~run.dry
  BY DEF Init, NoRun
<1>3. Phased /\ Handed /\ Walked /\ Finished
  BY <1>2 DEF Phased, Handed, Walked, Finished, Real
<1>4. Faulted /\ SnapKept
  BY <1>2 DEF Init, Faulted, SnapKept, Unread, Real
<1> QED  BY <1>1, <1>3, <1>4 DEF IInv

\* The operator starts a run, or it ends.
LEMMA StartStep ==
  ASSUME IInv, NEW dry \in BOOLEAN, NEW mode \in Modes, Start(dry, mode)
  PROVE  IInv'
<1> DEFINE point == IF dry THEN "walk" ELSE "validate"
           agenda == IF dry THEN {Root} ELSE {}
<1>1. /\ run' = [NoRun EXCEPT !.pc = point, !.dry = dry, !.mode = mode, !.agenda = agenda]
      /\ inc' = inc /\ up' = up /\ files' = files /\ prod' = prod /\ snap' = snap /\ last' = last
      /\ wiped' = wiped /\ faults' = faults /\ switched' = switched /\ broken' = broken
      /\ writes' = writes /\ result' = "none" /\ drys' \in {drys, drys + 1} /\ drys' <= MaxDry
      /\ IF Whole THEN hidden' = {} /\ late' = {} ELSE hidden' = hidden /\ late' = late
  BY DEF Start
<1>2. point \in Steps /\ agenda \in SUBSET Items
  BY Nothing DEF Steps
<1>3. (dry => point = "walk") /\ (~dry => point = "validate")
  OBVIOUS
<1> HIDE DEF point, agenda
<1>4. run' \in Runs /\ run'.pc = point /\ run'.dry = dry
  BY <1>1, <1>2, Nothing DEF Runs
<1>5. TypeOK'
  BY <1>1, <1>4 DEF IInv, TypeOK, Results
<1>6. faults' >= faults
  BY <1>1 DEF IInv, TypeOK
<1> QED  BY <1>1, <1>3, <1>4, <1>5, <1>6, Off

LEMMA EndStep ==
  ASSUME IInv, NEW r \in Results, End(r), faults' \in 0 .. MaxFaults, faults' >= faults,
         inc' = inc, up' = up, files' = files, prod' = prod, snap' = snap, last' = last, writes' = writes,
         drys' = drys, wiped' = wiped, hidden' = hidden, late' = late,
         switched' \subseteq Envs, broken' \in BOOLEAN
  PROVE  IInv'
<1>1. run' = NoRun /\ result' = r
  BY DEF End
<1>2. run' \in Runs /\ run'.pc = "idle" /\ ~run'.dry
  BY <1>1, Nothing DEF NoRun
<1>3. TypeOK'
  BY <1>1, <1>2 DEF IInv, TypeOK
<1> QED  BY <1>2, <1>3, Off

LEMMA ValidateStep ==
  ASSUME IInv, ValidateTargets
  PROVE  IInv'
<1>1. /\ inc' = inc /\ up' = up /\ files' = files /\ prod' = prod /\ snap' = snap /\ last' = last /\ writes' = writes
      /\ drys' = drys /\ wiped' = wiped /\ hidden' = hidden /\ late' = late
      /\ switched' = switched /\ broken' = broken /\ run.pc = "validate"
  BY DEF ValidateTargets, ghosts
<1>2. CASE up /\ run' = [run EXCEPT !.pc = "snapshot"] /\ UNCHANGED <<result, faults>>
  <2>1. run' \in Runs /\ run'.pc = "snapshot" /\ run'.dry = run.dry /\ ~run.dry
    BY <1>1, <1>2 DEF IInv, TypeOK, Runs, Steps, Phased
  <2>2. TypeOK' /\ faults' >= faults
    BY <1>1, <1>2, <2>1 DEF IInv, TypeOK
  <2> QED  BY <1>1, <1>2, <2>1, <2>2, Off
<1>3. CASE End("failed") /\ (faults' = faults \/ Fail(1))
  <2>1. faults' \in 0 .. MaxFaults /\ faults' >= faults
    BY <1>3, Failures DEF IInv, TypeOK
  <2>2. "failed" \in Results /\ switched \subseteq Envs /\ broken \in BOOLEAN
    BY DEF Results, IInv, TypeOK
  <2> QED  BY <1>1, <1>3, <2>1, <2>2, EndStep
<1> QED  BY <1>2, <1>3 DEF ValidateTargets

LEMMA UpdateStep ==
  ASSUME IInv, UpdateEnvironmentSecrets
  PROVE  IInv'
<1>1. /\ inc' = inc /\ up' = up /\ files' = files /\ prod' = prod /\ snap' = snap /\ last' = last /\ writes' = writes
      /\ drys' = drys /\ wiped' = wiped /\ hidden' = hidden /\ late' = late
  BY DEF UpdateEnvironmentSecrets
<1>2. {"ok", "failed"} \subseteq Results /\ broken \in BOOLEAN /\ switched \subseteq Envs
      /\ faults \in 0 .. MaxFaults
  BY DEF Results, IInv, TypeOK
<1>3. CASE NoEnvironmentsFound
  <2>1. Fail(1) /\ End("ok") /\ switched' = switched /\ broken' = TRUE
    BY <1>3 DEF NoEnvironmentsFound
  <2>2. faults' \in 0 .. MaxFaults /\ faults' >= faults
    BY <1>2, <2>1, Failures
  <2> QED  BY <1>1, <1>2, <2>1, <2>2, EndStep
<1>4. CASE UpdateAllEnvironments
  <2>1. PICK bad \in SUBSET Updatable, missed \in SUBSET Updatable :
          /\ Fail(Cardinality(bad)) /\ switched' = switched \cup (Updatable \ missed)
          /\ End(IF bad = {} /\ Targets \subseteq Envs THEN "ok" ELSE "failed")
          /\ broken' = (broken \/ (~Whole /\ ~(missed \subseteq switched)))
    BY <1>4 DEF UpdateAllEnvironments
  <2>5. Updatable \subseteq Envs
    BY DEF Updatable
  <2>2. faults' \in 0 .. MaxFaults /\ faults' >= faults
    BY <1>2, <2>1, <2>5, Failures, Counts
  <2>3. switched' \subseteq Envs /\ broken' \in BOOLEAN
    BY <1>2, <2>1, <2>5
  <2>4. PICK r \in Results : End(r)
    BY <1>2, <2>1
  <2> QED  BY <1>1, <2>2, <2>3, <2>4, EndStep
<1> QED  BY <1>3, <1>4 DEF UpdateEnvironmentSecrets

LEMMA KillStep ==
  ASSUME IInv, Kill
  PROVE  IInv'
<1>1. /\ inc' = inc /\ up' = up /\ files' = files /\ prod' = prod /\ snap' = snap /\ last' = last /\ writes' = writes
      /\ drys' = drys /\ wiped' = wiped /\ hidden' = hidden /\ late' = late /\ switched' = switched
      /\ Fail(1) /\ End("failed") /\ broken' \in BOOLEAN
  BY DEF Kill
<1>2. "failed" \in Results /\ switched \subseteq Envs /\ faults \in 0 .. MaxFaults
  BY DEF Results, IInv, TypeOK
<1>3. faults' \in 0 .. MaxFaults /\ faults' >= faults
  BY <1>1, <1>2, Failures
<1> QED  BY <1>1, <1>2, <1>3, EndStep

-----------------------------------------------------------------------------
(* The snapshot.                                                           *)

\* An export that nothing went wrong with has every secret.
LEMMA WholeExport ==
  ASSUME inc \in Vaults, NEW v \in Export({}, {})
  PROVE  v = inc
<1> DEFINE seen == Reached({})
<1>1. v = [s \in Slots |-> IF s[1] \in seen \ {} THEN inc[s] ELSE None]
  BY DEF Export
<1>2. \A s \in Slots : s[1] \notin seen => inc[s] = None
  <2> SUFFICES ASSUME NEW s \in Slots, inc[s] # None PROVE s[1] \in seen
    OBVIOUS
  <2>1. s[1] \in Paths /\ s[2] \in Keys /\ s = <<s[1], s[2]>> /\ Above(s[1], s[1])
    BY SlotTypes, Tree
  <2>2. s[2] \in KeysAt(inc, s[1])
    BY <2>1 DEF KeysAt
  <2>3. \E r \in Paths : Above(s[1], r) /\ KeysAt(inc, r) # {}
    BY <2>1, <2>2
  <2> QED  BY <2>1, <2>3 DEF Reached
<1>3. inc = [s \in Slots |-> inc[s]]
  BY DEF Vaults
<1> HIDE DEF seen
<1>4. \A s \in Slots : (IF s[1] \in seen \ {} THEN inc[s] ELSE None) = inc[s]
  BY <1>2
<1> QED  BY <1>1, <1>3, <1>4

\* The walk begins at the root, above everything.
LEMMA SnapshotStep ==
  ASSUME IInv, SnapshotInceptionVault
  PROVE  IInv'
<1>1. /\ inc' = inc /\ up' = up /\ files' = files /\ prod' = prod /\ last' = last /\ writes' = writes
      /\ drys' = drys /\ wiped' = wiped /\ hidden' = hidden /\ late' = late
      /\ switched' = switched /\ broken' = broken /\ run.pc = "snapshot"
  BY DEF SnapshotInceptionVault, ghosts
<1>2. "failed" \in Results /\ switched \subseteq Envs /\ broken \in BOOLEAN
      /\ faults \in 0 .. MaxFaults /\ run \in Runs /\ inc \in Vaults
  BY DEF Results, IInv, TypeOK
<1>3. CASE Fail(1) /\ End("failed") /\ UNCHANGED snap
  <2>1. faults' \in 0 .. MaxFaults /\ faults' >= faults
    BY <1>2, <1>3, Failures
  <2> QED  BY <1>1, <1>2, <1>3, <2>1, EndStep
<1>4. ASSUME NEW gone \in SUBSET Paths, NEW shut \in SUBSET Paths,
             Fail(Cardinality(gone) + Cardinality(shut)), End("failed"), UNCHANGED snap
      PROVE  IInv'
  <2>1. faults' \in 0 .. MaxFaults /\ faults' >= faults
    BY <1>2, <1>4, Failures, Counts
  <2> QED  BY <1>1, <1>2, <1>4, <2>1, EndStep
<1>5. ASSUME NEW gone \in SUBSET Paths, NEW shut \in SUBSET Paths,
             Fail(Cardinality(gone) + Cardinality(shut)), snap' \in Export(gone, shut),
             run' = [run EXCEPT !.pc = "walk", !.agenda = {Root}], result' = result
      PROVE  IInv'
  <2> DEFINE n == Cardinality(gone) + Cardinality(shut)
  <2>1. n \in Nat /\ (n = 0 => gone = {} /\ shut = {})
    BY Counts
  <2>2. faults' = faults + n /\ faults' \in 0 .. MaxFaults
    BY <1>2, <1>5, <2>1, Failures
  <2> HIDE DEF n
  <2>3. snap' \in Vaults
    <3>1. snap' = [s \in Slots |-> IF s[1] \in Reached(shut) \ gone THEN inc[s] ELSE None]
      BY <1>5 DEF Export
    <3> QED  BY <1>2, <3>1 DEF Vaults
  <2>4. /\ run' \in Runs /\ run'.pc = "walk" /\ run'.agenda = {Root}
        /\ run'.dry = run.dry /\ ~run.dry
    BY <1>1, <1>2, <1>5, Nothing DEF Runs, Steps, IInv, Phased
  <2>5. up
    BY <1>1, <2>4 DEF IInv, Phased, Real
  <2>6. TypeOK'
    BY <1>1, <1>5, <2>2, <2>3, <2>4 DEF IInv, TypeOK
  <2>7. Phased' /\ Handed' /\ Finished'
    BY <1>1, <2>4, <2>5 DEF Phased, Handed, Finished, Real
  <2>8. Walked'
    <3>1. \A s \in Slots : Reaches(s)'
      BY <2>4, SlotTypes, Tree DEF Reaches, Root, Item
    <3> QED  BY <3>1 DEF Walked, Streamed, Structured
  <2>9. Faulted'
    BY <1>1, <1>2, <2>1, <2>2, <2>4 DEF IInv, Faulted, Unread
  <2>10. SnapKept'
    <3>1. CASE n = 0
      <4>1. snap' = inc
        BY <1>2, <1>5, <2>1, <3>1, WholeExport
      <4> QED  BY <1>1, <2>5, <4>1 DEF SnapKept, Kept
    <3>2. CASE n # 0
      <4>1. faults' >= 1 /\ (hidden \cup wiped # {} => faults' >= 2)
        BY <1>2, <2>1, <2>2, <3>2 DEF IInv, Faulted
      <4>2. ~Unread'
        BY <2>4 DEF Unread
      <4>3. Kept(inc)'
        BY <1>1, <2>2, <4>1, <4>2 DEF Kept
      <4> QED  BY <1>1, <2>5, <4>3 DEF SnapKept
    <3> QED  BY <3>1, <3>2
  <2> QED  BY <2>6, <2>7, <2>8, <2>9, <2>10 DEF IInv
<1> QED  BY <1>3, <1>4, <1>5 DEF SnapshotInceptionVault

-----------------------------------------------------------------------------
(* After the walk.                                                         *)

\* The walk is over: nothing is left to do, or it has failed.
LEMMA WalkDoneStep ==
  ASSUME IInv, WalkDone
  PROVE  IInv'
<1>1. /\ inc' = inc /\ up' = up /\ files' = files /\ prod' = prod /\ snap' = snap /\ last' = last /\ writes' = writes
      /\ drys' = drys /\ wiped' = wiped /\ hidden' = hidden /\ late' = late /\ faults' = faults
      /\ switched' = switched /\ broken' = broken /\ run.pc = "walk" /\ run.agenda = {}
  BY DEF WalkDone, counts, ghosts
<1>2. {"failed", "previewed"} \subseteq Results /\ switched \subseteq Envs /\ broken \in BOOLEAN
      /\ faults \in 0 .. MaxFaults /\ run \in Runs
  BY DEF Results, IInv, TypeOK
<1>3. ASSUME NEW r \in Results, End(r) PROVE IInv'
  BY <1>1, <1>2, <1>3, EndStep
<1>4. CASE ~run.failed /\ ~run.dry /\ run' = [run EXCEPT !.pc = "confirm"] /\ result' = result
  <2>1. /\ run' \in Runs /\ run'.pc = "confirm" /\ run'.dry = run.dry /\ run'.mode = run.mode
        /\ ~run.dry /\ ~run.failed /\ run.mode \in Modes
    BY <1>2, <1>4 DEF Runs, Steps
  <2>2. TypeOK'
    BY <1>1, <1>4, <2>1 DEF IInv, TypeOK
  <2>3. up
    BY <1>1, <2>1 DEF IInv, Phased, Real
  <2>4. Phased' /\ Handed' /\ Walked'
    BY <1>1, <2>1, <2>3 DEF Phased, Handed, Walked, Real
  <2>5. \A s \in Slots : inc[s] # None =>
          IF run.mode = "interactive" THEN s \in Excused \/ prod[s] = inc[s]
          ELSE s \in hidden \cup late \/ prod[s] = inc[s]
    BY <1>1, <2>1 DEF IInv, Walked, Real, Streamed, Structured, Reaches, Todo
  <2>6. Finished'
    BY <1>1, <2>1, <2>5 DEF Finished, Copied, Excused, Modes
  <2>7. Faulted'
    BY <1>1, <2>1 DEF IInv, Faulted, Unread
  <2>8. SnapKept'
    BY <1>1, <2>1, <2>3 DEF IInv, SnapKept, Kept, Unread, Real
  <2> QED  BY <2>2, <2>4, <2>6, <2>7, <2>8 DEF IInv
<1> QED  BY <1>2, <1>3, <1>4 DEF WalkDone

\* A yes changes nothing but the step.
LEMMA ConfirmStep ==
  ASSUME IInv, MigrateStepDecommission
  PROVE  IInv'
<1>1. /\ inc' = inc /\ up' = up /\ files' = files /\ prod' = prod /\ snap' = snap /\ last' = last /\ writes' = writes
      /\ drys' = drys /\ wiped' = wiped /\ hidden' = hidden /\ late' = late
      /\ switched' = switched /\ broken' = broken /\ run.pc = "confirm"
  BY DEF MigrateStepDecommission, ghosts
<1>2. {"failed", "cancelled"} \subseteq Results /\ switched \subseteq Envs /\ broken \in BOOLEAN
      /\ faults \in 0 .. MaxFaults /\ run \in Runs /\ ~run.dry
  BY <1>1 DEF Results, IInv, TypeOK, Phased
<1>3. CASE ConfirmDecommission
  <2>1. Fail(1) /\ \E r \in Results : End(r)
    BY <1>2, <1>3 DEF ConfirmDecommission
  <2>2. faults' \in 0 .. MaxFaults /\ faults' >= faults
    BY <1>2, <2>1, Failures
  <2> QED  BY <1>1, <1>2, <2>1, <2>2, EndStep
<1>4. CASE run' = [run EXCEPT !.pc = "decommission"] /\ UNCHANGED <<result, faults>>
  <2>1. run' \in Runs /\ run'.pc = "decommission" /\ run'.dry = run.dry /\ run'.mode = run.mode
    BY <1>2, <1>4 DEF Runs, Steps
  <2>2. TypeOK'
    BY <1>1, <1>4, <2>1 DEF IInv, TypeOK
  <2>3. up
    BY <1>1, <1>2 DEF IInv, Phased, Real
  <2>4. Phased' /\ Handed' /\ Walked'
    BY <1>1, <1>2, <2>1, <2>3 DEF Phased, Handed, Walked, Real
  <2>5. Finished'
    BY <1>1, <1>2, <2>1 DEF IInv, Finished, Copied, Excused, Real
  <2>6. Faulted'
    BY <1>1, <1>4, <2>1 DEF IInv, Faulted, Unread
  <2>7. SnapKept'
    BY <1>1, <1>2, <1>4, <2>1, <2>3 DEF IInv, SnapKept, Kept, Unread, Real
  <2> QED  BY <2>2, <2>4, <2>5, <2>6, <2>7 DEF IInv
<1> QED  BY <1>3, <1>4 DEF MigrateStepDecommission

\* The inception vault goes with what is copied, or lives on.
LEMMA DecommissionStep ==
  ASSUME IInv, DecommissionInception
  PROVE  IInv'
<1>1. PICK missed \in {0, 1}, kept \in {0, 1} :
        KillSafeProcesses(missed) /\ CleanupVaultFiles(kept) /\ Fail(missed + kept)
  BY DEF DecommissionInception
<1>2. /\ prod' = prod /\ snap' = snap /\ writes' = writes /\ result' = result
      /\ drys' = drys /\ wiped' = wiped /\ hidden' = hidden /\ late' = late
      /\ switched' = switched /\ broken' = broken /\ run.pc = "decommission"
      /\ run' = [run EXCEPT !.pc = "update"] /\ last' \in {last, inc} /\ inc' \in {inc, Empty}
      /\ {up', files'} \subseteq BOOLEAN
  BY <1>1 DEF DecommissionInception, KillSafeProcesses, CleanupVaultFiles, IInv, TypeOK
<1>3. run \in Runs /\ ~run.dry /\ faults \in 0 .. MaxFaults
  BY <1>2 DEF IInv, TypeOK, Phased
<1>4. run' \in Runs /\ run'.pc = "update" /\ run'.dry = run.dry
  BY <1>2, <1>3 DEF Runs, Steps
<1>5. faults' \in 0 .. MaxFaults /\ faults' >= faults
  BY <1>1, <1>3, Failures
<1>6. TypeOK'
  BY <1>2, <1>4, <1>5, Nothing DEF IInv, TypeOK
<1> QED  BY <1>2, <1>3, <1>4, <1>5, <1>6, Off

-----------------------------------------------------------------------------
(* The walk.                                                               *)

\* What was below the path that is visited is found, still below, or hidden.
LEMMA VisitStep ==
  ASSUME IInv, Visit
  PROVE  IInv'
<1>1. \E i \in Ready("visit"), canRead, canList \in BOOLEAN :
        LET p == i.path
            keys == IF canRead THEN KeysAt(inc, p) ELSE {}
            kids == IF canList THEN Children(inc, p) ELSE {}
        IN /\ IF up THEN Fail((IF canRead THEN 0 ELSE 1) + (IF canList THEN 0 ELSE 1))
                    ELSE UNCHANGED faults
           /\ run' = [run EXCEPT !.agenda = (@ \ {i}) \cup Collected(p, kids, keys)]
           /\ hidden' = hidden \cup (IF canRead \/ ~up THEN {} ELSE {p} \X Keys)
                               \cup (IF canList \/ ~up THEN {} ELSE Below(p) \ ({p} \X Keys))
  BY DEF Visit
<1>2. PICK i \in Ready("visit"), canRead \in BOOLEAN, canList \in BOOLEAN :
        LET p == i.path
            keys == IF canRead THEN KeysAt(inc, p) ELSE {}
            kids == IF canList THEN Children(inc, p) ELSE {}
        IN /\ IF up THEN Fail((IF canRead THEN 0 ELSE 1) + (IF canList THEN 0 ELSE 1))
                    ELSE UNCHANGED faults
           /\ run' = [run EXCEPT !.agenda = (@ \ {i}) \cup Collected(p, kids, keys)]
           /\ hidden' = hidden \cup (IF canRead \/ ~up THEN {} ELSE {p} \X Keys)
                               \cup (IF canList \/ ~up THEN {} ELSE Below(p) \ ({p} \X Keys))
  BY <1>1
<1> DEFINE p == i.path
           keys == IF canRead THEN KeysAt(inc, p) ELSE {}
           kids == IF canList THEN Children(inc, p) ELSE {}
           n == (IF canRead THEN 0 ELSE 1) + (IF canList THEN 0 ELSE 1)
           found == Collected(p, kids, keys)
           agenda == (run.agenda \ {i}) \cup found
           unseen == (IF canRead \/ ~up THEN {} ELSE {p} \X Keys)
                       \cup (IF canList \/ ~up THEN {} ELSE Below(p) \ ({p} \X Keys))
<1>3. /\ inc' = inc /\ up' = up /\ files' = files /\ prod' = prod /\ snap' = snap /\ last' = last /\ writes' = writes
      /\ drys' = drys /\ wiped' = wiped /\ late' = late /\ result' = result
      /\ switched' = switched /\ broken' = broken
  BY DEF Visit
<1>4. /\ IF up THEN Fail(n) ELSE faults' = faults
      /\ run' = [run EXCEPT !.agenda = agenda]
      /\ hidden' = hidden \cup unseen
  BY <1>2
<1>5. i \in run.agenda /\ run.pc = "walk" /\ i.do = "visit" /\ run \in Runs
      /\ faults \in 0 .. MaxFaults
  BY <1>2 DEF Ready, IInv, TypeOK
<1>6. i \in Items /\ p \in Paths
  BY <1>5, ItemTypes DEF IInv
<1>7. keys \subseteq Keys /\ kids \subseteq Paths
  BY DEF KeysAt, Children
<1>8. n \in Nat /\ (n = 0 => canRead /\ canList)
  OBVIOUS
<1>9. faults' \in 0 .. MaxFaults /\ faults' >= faults /\ (hidden' = hidden \/ (up /\ faults' > faults))
  <2>1. CASE up
    <3>1. faults' = faults + n /\ faults' \in 0 .. MaxFaults
      BY <1>4, <1>5, <1>8, <2>1, Failures
    <3>2. n = 0 => unseen = {}
      BY <1>8
    <3> HIDE DEF n, unseen
    <3> QED  BY <1>4, <1>5, <1>8, <2>1, <3>1, <3>2
  <2>2. CASE ~up
    <3>1. unseen = {}
      BY <2>2
    <3> HIDE DEF unseen
    <3> QED  BY <1>4, <1>5, <2>2, <3>1
  <2> QED  BY <2>1, <2>2
<1>10. found \subseteq Items
  BY <1>6, <1>7 DEF Collected, Visits, ToDo, Item, Items
<1>11. unseen \subseteq Slots
  BY <1>6 DEF Slots, Below
<1>12. /\ Visits(kids) \subseteq agenda /\ ToDo("key", p, keys) \subseteq agenda
       /\ run.mode = "structured" => ToDo("check", p, keys) \subseteq agenda
       /\ run.agenda \ {i} \subseteq agenda
  BY DEF Collected
<1>13. agenda \in SUBSET Items
  <2> HIDE DEF found
  <2> QED  BY <1>5, <1>10 DEF Runs
<1>14. up => \A s \in Slots : s \notin unseen /\ Above(p, s[1]) =>
                IF s[1] = p THEN canRead ELSE canList
  <2> SUFFICES ASSUME up, NEW s \in Slots, s \notin unseen, Above(p, s[1])
               PROVE  IF s[1] = p THEN canRead ELSE canList
    OBVIOUS
  <2>1. s[2] \in Keys /\ s = <<s[1], s[2]>>
    BY SlotTypes
  <2>2. s \in Below(p)
    BY DEF Below
  <2> QED  BY <2>1, <2>2
<1> HIDE DEF found, agenda, unseen, n
<1>15. /\ run' \in Runs /\ run'.pc = "walk" /\ run'.dry = run.dry /\ run'.mode = run.mode
       /\ run'.failed = run.failed /\ run'.agenda = agenda /\ run.mode \in Modes
  BY <1>4, <1>5, <1>13 DEF Runs
<1>16. TypeOK'
  BY <1>3, <1>4, <1>9, <1>11, <1>15 DEF IInv, TypeOK
<1>17. CASE run.dry
  BY <1>3, <1>9, <1>15, <1>16, <1>17, DryWalk
<1>18. CASE ~run.dry
  <2>1. up
    BY <1>5, <1>18 DEF IInv, Phased, Real
  <2>2. Phased' /\ Handed' /\ Finished'
    BY <1>3, <1>15, <1>18, <2>1 DEF Phased, Handed, Finished, Real
  <2>3. ASSUME NEW s \in Slots, inc[s] # None, s \notin hidden', Above(p, s[1])
        PROVE  Reaches(s)' \/ (Todo("key", s)' /\ (run.mode = "structured" => Todo("check", s)'))
    <3>1. s[1] \in Paths /\ s[2] \in Keys /\ s = <<s[1], s[2]>> /\ Above(s[1], s[1])
      BY SlotTypes, Tree
    <3>2. s[2] \in KeysAt(inc, s[1])
      BY <2>3, <3>1 DEF KeysAt
    <3>3. CASE s[1] = p
      <4>1. s[2] \in keys
        BY <1>4, <1>14, <2>1, <2>3, <3>2, <3>3
      <4>2. /\ Item("key", p, s[2]) \in agenda
            /\ run.mode = "structured" => Item("check", p, s[2]) \in agenda
        BY <1>12, <4>1 DEF ToDo
      <4> QED  BY <1>15, <3>3, <4>2 DEF Todo
    <3>4. CASE s[1] # p
      <4>1. PICK c \in Paths : Len(c) = Len(p) + 1 /\ Above(p, c) /\ Above(c, s[1])
        BY <1>6, <2>3, <3>1, <3>4, NextDown
      <4>2. c \in kids
        BY <1>4, <1>14, <2>1, <2>3, <3>1, <3>2, <3>4, <4>1 DEF Children
      <4>3. Item("visit", c, None) \in agenda
        BY <1>12, <4>2 DEF Visits
      <4> QED  BY <1>15, <4>1, <4>3 DEF Reaches, Item
    <3> QED  BY <3>3, <3>4
  <2>4. ASSUME NEW s \in Slots
        PROVE  /\ Reaches(s) => Reaches(s)' \/ Above(p, s[1])
               /\ Todo("key", s) => Todo("key", s)'
               /\ Todo("check", s) => Todo("check", s)'
    <3>1. Item("key", s[1], s[2]) # i /\ Item("check", s[1], s[2]) # i
      BY <1>5 DEF Item
    <3> QED  BY <1>12, <1>15, <3>1 DEF Reaches, Todo
  <2>5. Walked'
    <3> SUFFICES ASSUME NEW s \in Slots, inc[s] # None
                 PROVE  IF run.mode = "interactive" THEN Streamed(s)' ELSE Structured(s)'
      BY <1>3, <1>15, <2>1 DEF Walked
    <3>1. IF run.mode = "interactive" THEN Streamed(s) ELSE Structured(s)
      BY <1>5, <1>18 DEF IInv, Walked, Real
    <3>2. hidden \subseteq hidden'
      BY <1>4
    <3>3. CASE run.mode = "interactive"
      <4>1. s \in hidden' \/ Reaches(s) => Reaches(s)' \/ Todo("key", s)' \/ s \in hidden'
        BY <2>3, <2>4
      <4> QED  BY <1>3, <1>15, <2>3, <2>4, <3>1, <3>2, <3>3, <4>1 DEF Streamed, Excused
    <3>4. CASE run.mode = "structured"
      <4>1. ~ \A j \in run.agenda : j.do = "check"
        BY <1>5
      <4>2. Reaches(s) => Reaches(s)' \/ Todo("check", s)' \/ s \in hidden'
        BY <2>3, <2>4, <3>4
      <4> QED  BY <1>3, <1>15, <2>4, <3>1, <3>2, <3>4, <4>1, <4>2 DEF Structured
    <3> QED  BY <1>15, <3>3, <3>4 DEF Modes
  <2>6. Faulted'
    BY <1>3, <1>5, <1>9, <1>15 DEF IInv, Faulted, Unread
  <2>7. SnapKept'
    <3>1. ~Unread'
      BY <1>15 DEF Unread
    <3>2. Kept(inc)
      BY <1>5, <1>18 DEF IInv, SnapKept, Real
    <3>3. Kept(inc)'
      BY <1>3, <1>5, <1>9, <3>1, <3>2 DEF Kept
    <3> QED  BY <1>3, <2>1, <3>3 DEF SnapKept
  <2> QED  BY <1>16, <2>2, <2>5, <2>6, <2>7 DEF IInv
<1> QED  BY <1>17, <1>18

\* A key that is given up is off the agenda; the run has failed, or checks it.
LEMMA SkipStep ==
  ASSUME IInv, Real({"walk"}), NEW i \in run.agenda, i.do = "key", Skip(i),
         faults' \in 0 .. MaxFaults, faults' >= faults,
         inc' = inc, up' = up, files' = files, prod' = prod, snap' = snap, last' = last, writes' = writes,
         drys' = drys, wiped' = wiped, hidden' = hidden, late' = late, result' = result,
         switched' = switched, broken' = broken
  PROVE  IInv'
<1>1. /\ run' \in Runs /\ run'.pc = "walk" /\ run'.dry = run.dry /\ run'.mode = run.mode
      /\ run'.agenda = run.agenda \ {i} /\ run'.failed = (run.mode = "interactive" \/ run.failed)
      /\ run.mode \in Modes
  BY Skipped DEF IInv, TypeOK, Runs
<1>2. TypeOK'
  BY <1>1 DEF IInv, TypeOK
<1>3. up /\ ~run.dry
  BY DEF IInv, Phased, Real
<1>4. Phased' /\ Handed' /\ Finished'
  BY <1>1, <1>3 DEF Phased, Handed, Finished, Real
<1>5. Walked'
  <2> SUFFICES ASSUME NEW s \in Slots, inc[s] # None, run.mode = "structured"
               PROVE  Structured(s)'
    BY <1>1 DEF Walked, Streamed, Modes
  <2>1. Structured(s)
    BY DEF IInv, Walked, Real
  <2>2. (Reaches(s) => Reaches(s)') /\ (Todo("check", s) => Todo("check", s)')
    BY <1>1 DEF Reaches, Todo, Item
  <2> QED  BY <1>1, <2>1, <2>2 DEF Structured
<1>6. Faulted'
  BY <1>1 DEF IInv, TypeOK, Faulted, Unread
<1>7. SnapKept'
  <2>1. ~Unread' /\ Kept(inc)
    BY <1>1 DEF Unread, IInv, SnapKept, Real
  <2>2. Kept(inc)'
    BY <2>1 DEF IInv, TypeOK, Faulted, Kept
  <2> QED  BY <1>3, <2>2 DEF SnapKept
<1> QED  BY <1>2, <1>4, <1>5, <1>6, <1>7 DEF IInv

\* A vault or an empty secret at the path, and the value, in the hand.
LEMMA ExportStep ==
  ASSUME IInv, ExportKey
  PROVE  IInv'
<1>1. /\ inc' = inc /\ up' = up /\ files' = files /\ prod' = prod /\ snap' = snap /\ last' = last /\ writes' = writes
      /\ drys' = drys /\ wiped' = wiped /\ hidden' = hidden /\ late' = late /\ result' = result
      /\ switched' = switched /\ broken' = broken
  BY DEF ExportKey, ghosts
<1>2. PICK i \in Ready("key") :
        \/ /\ inc[<<i.path, i.key>>] # None
           /\ \E read \in BOOLEAN :
                /\ run' = [run EXCEPT !.pc = "import",
                      !.hand = [item |-> i, value |-> inc[<<i.path, i.key>>],
                                rest |-> IF read THEN At(Target, i.path) ELSE NoHand.rest,
                                read |-> read]]
                /\ Fail(IF read THEN 0 ELSE 1)
        \/ Skip(i) /\ (faults' = faults \/ Fail(1))
  BY DEF ExportKey
<1>3. /\ i \in run.agenda /\ run.pc = "walk" /\ i.do = "key" /\ i \in Items
      /\ i.path \in Paths /\ i.key \in Keys /\ <<i.path, i.key>> \in Slots
      /\ run \in Runs /\ faults \in 0 .. MaxFaults /\ inc \in Vaults /\ prod \in Vaults
  BY <1>2, ItemTypes DEF Ready, IInv, TypeOK
<1>4. CASE Skip(i) /\ (faults' = faults \/ Fail(1))
  <2>1. Fail(1) => faults' \in 0 .. MaxFaults /\ faults' >= faults
    BY <1>3, Failures
  <2>2. faults' \in 0 .. MaxFaults /\ faults' >= faults
    BY <1>3, <1>4, <2>1
  <2>3. CASE ~run.dry
    BY <1>1, <1>3, <1>4, <2>2, <2>3, SkipStep DEF Real
  <2>4. CASE run.dry
    <3>1. run' \in Runs /\ run'.pc = "walk" /\ run'.dry
      BY <1>4, <2>4, Skipped DEF IInv
    <3>2. TypeOK'
      BY <1>1, <2>2, <3>1 DEF IInv, TypeOK
    <3> QED  BY <1>1, <2>2, <2>4, <3>1, <3>2, DryWalk
  <2> QED  BY <2>3, <2>4
<1>5. ASSUME inc[<<i.path, i.key>>] # None, NEW read \in BOOLEAN,
             run' = [run EXCEPT !.pc = "import",
                      !.hand = [item |-> i, value |-> inc[<<i.path, i.key>>],
                                rest |-> IF read THEN At(Target, i.path) ELSE NoHand.rest,
                                read |-> read]],
             Fail(IF read THEN 0 ELSE 1)
      PROVE  IInv'
  <2> DEFINE rest == IF read THEN At(Target, i.path) ELSE NoHand.rest
             hand == [item |-> i, value |-> inc[<<i.path, i.key>>], rest |-> rest, read |-> read]
             n == IF read THEN 0 ELSE 1
  <2>1. faults' = faults + n /\ faults' \in 0 .. MaxFaults /\ n \in Nat
    BY <1>3, <1>5, Failures
  <2>2. (~read => n = 1) /\ n \in Nat
    OBVIOUS
  <2>3. rest \in [Keys -> Vals \cup {None}]
    <3>1. \A v \in Vaults : At(v, i.path) \in [Keys -> Vals \cup {None}]
      BY <1>3 DEF At, Vaults, Slots
    <3>2. Target \in Vaults
      BY <1>3 DEF Target
    <3>3. NoHand.rest \in [Keys -> Vals \cup {None}]
      BY DEF NoHand
    <3> QED  BY <3>1, <3>2, <3>3
  <2>4. inc[<<i.path, i.key>>] \in Vals \cup {None}
    BY <1>3 DEF Vaults
  <2>5. ~run.dry => rest = IF read THEN At(prod, i.path) ELSE NoHand.rest
    BY DEF Target
  <2>6. run' = [run EXCEPT !.pc = "import", !.hand = hand]
    BY <1>5
  <2> HIDE DEF rest, n
  <2>7. hand \in Hands /\ hand.item = i /\ hand.value = inc[<<i.path, i.key>>]
        /\ hand.rest = rest /\ hand.read = read
    BY <1>3, <1>5, <2>3, <2>4 DEF Hands
  <2> HIDE DEF hand
  <2>8. /\ run' \in Runs /\ run'.pc = "import" /\ run'.dry = run.dry /\ run'.mode = run.mode
        /\ run'.failed = run.failed /\ run'.agenda = run.agenda /\ run'.hand = hand
    BY <1>3, <2>6, <2>7 DEF Runs, Steps
  <2>9. TypeOK' /\ faults' >= faults
    BY <1>1, <1>3, <2>1, <2>8 DEF IInv, TypeOK
  <2>10. CASE run.dry
    BY <1>1, <2>8, <2>9, <2>10, DryWalk
  <2>11. CASE ~run.dry
    <3>1. up
      BY <1>3, <2>11 DEF IInv, Phased, Real
    <3>2. Phased' /\ Finished'
      BY <1>1, <2>8, <2>11, <3>1 DEF Phased, Finished, Real
    <3>3. Handed'
      BY <1>1, <1>3, <1>5, <2>5, <2>7, <2>8, <2>11 DEF Handed, Real, Slot
    <3>4. Walked'
      <4>1. \A s \in Slots : (Streamed(s) => Streamed(s)') /\ (Structured(s) => Structured(s)')
        BY <1>1, <2>8 DEF Streamed, Structured, Excused, Reaches, Todo
      <4> QED  BY <1>1, <1>3, <2>8, <2>11, <4>1 DEF IInv, Walked, Real
    <3>5. Unread' => faults' >= 1 + faults
      BY <1>3, <2>1, <2>2, <2>7, <2>8 DEF Unread
    <3>6. Faulted'
      BY <1>1, <1>3, <2>1, <2>9, <3>5 DEF IInv, Faulted
    <3>7. SnapKept'
      <4>1. Kept(inc)
        BY <1>3, <2>11 DEF IInv, SnapKept, Real
      <4>2. Kept(inc)'
        BY <1>1, <1>3, <2>1, <2>2, <2>9, <3>5, <4>1 DEF IInv, Faulted, Kept
      <4> QED  BY <3>1, <1>1, <4>2 DEF SnapKept
    <3> QED  BY <2>9, <3>2, <3>3, <3>4, <3>6, <3>7 DEF IInv
  <2> QED  BY <2>10, <2>11
<1> QED  BY <1>2, <1>4, <1>5

\* A secret merged with a key has the key, the rest that is in the hand, and
\* every other path as it was.
LEMMA MergedSlots ==
  ASSUME NEW v \in Vaults, NEW hand \in Hands, hand.item.do # "visit"
  PROVE  /\ Merged(v, hand) \in Vaults
         /\ Merged(v, hand)[<<hand.item.path, hand.item.key>>] = hand.value
         /\ \A s \in Slots : s # <<hand.item.path, hand.item.key>> =>
              Merged(v, hand)[s] = IF s[1] = hand.item.path THEN hand.rest[s[2]] ELSE v[s]
<1>1. <<hand.item.path, hand.item.key>> \in Slots
  BY DEF Hands, Items, Slots
<1>2. hand.value \in Vals \cup {None} /\ hand.rest \in [Keys -> Vals \cup {None}]
  BY DEF Hands
<1>3. \A s \in Slots : s[2] \in Keys /\ v[s] \in Vals \cup {None}
  BY SlotTypes
<1>4. Merged(v, hand) \in Vaults
  BY <1>2, <1>3 DEF Merged, Vaults
<1> QED  BY <1>1, <1>4 DEF Merged

\* The key is written, or given up; what a failed read drops is wiped.
LEMMA ImportStep ==
  ASSUME IInv, ImportKey
  PROVE  IInv'
<1> DEFINE i == run.hand.item
           new == Merged(Target, run.hand)
           left == {s \in Slots : new[s] = None
                                  /\ (s \in wiped \/ (prod[s] # None /\ ~run.hand.read))}
<1>1. /\ up' = up /\ files' = files /\ snap' = snap /\ last' = last /\ writes' = writes
      /\ drys' = drys /\ hidden' = hidden /\ late' = late /\ result' = result
      /\ switched' = switched /\ broken' = broken /\ run.pc = "import"
  BY DEF ImportKey
<1>2. \/ /\ IF run.dry THEN inc' = new /\ prod' = prod ELSE prod' = new /\ inc' = inc
         /\ wiped' = IF run.dry THEN wiped ELSE left
         /\ (Counted(i) /\ faults' = faults) \/ (Fail(1) /\ Skip(i))
      \/ Fail(1) /\ Skip(i) /\ inc' = inc /\ prod' = prod /\ wiped' = wiped
  BY DEF ImportKey
<1>3. /\ run \in Runs /\ run.hand \in Hands /\ faults \in 0 .. MaxFaults /\ run.mode \in Modes
      /\ inc \in Vaults /\ prod \in Vaults /\ wiped \subseteq Slots
  BY DEF IInv, TypeOK, Runs
<1>4. new \in Vaults
  <2>1. Target \in Vaults /\ \A s \in Slots : s[2] \in Keys /\ Target[s] \in Vals \cup {None}
    BY <1>3, SlotTypes DEF Target
  <2>2. run.hand.value \in Vals \cup {None} /\ run.hand.rest \in [Keys -> Vals \cup {None}]
    BY <1>3 DEF Hands
  <2> QED  BY <2>1, <2>2 DEF Merged, Vaults
<1> HIDE DEF new, left
<1>5. /\ run' \in Runs /\ run'.pc = "walk" /\ run'.dry = run.dry /\ run'.mode = run.mode
      /\ run'.agenda = run.agenda \ {i} /\ (run.failed => run'.failed)
  BY <1>2, Skipped, CountedKey DEF IInv
<1>6. faults' \in 0 .. MaxFaults /\ faults' >= faults
  <2>1. Fail(1) => faults' \in 0 .. MaxFaults /\ faults' >= faults
    BY <1>3, Failures
  <2> QED  BY <1>2, <1>3, <2>1
<1>7. TypeOK'
  <2>1. inc' \in Vaults /\ prod' \in Vaults /\ wiped' \subseteq Slots
    BY <1>2, <1>3, <1>4 DEF left
  <2> QED  BY <1>1, <1>5, <1>6, <2>1 DEF IInv, TypeOK
<1>8. CASE run.dry
  <2>1. prod' = prod /\ wiped' = wiped
    BY <1>2, <1>8
  <2> QED  BY <1>1, <1>5, <1>6, <1>7, <1>8, <2>1, DryWalk
<1>9. CASE ~run.dry
  <2>1. up
    BY <1>1, <1>9 DEF IInv, Phased, Real
  <2>2. Phased' /\ Handed' /\ Finished'
    BY <1>1, <1>5, <1>9, <2>1 DEF Phased, Handed, Finished, Real
  <2>3. /\ i \in run.agenda /\ i.do = "key" /\ i = Item("key", i.path, i.key)
        /\ run.hand.value # None /\ (Slot \in late \/ run.hand.value = inc[Slot])
        /\ run.hand.rest = IF run.hand.read THEN At(prod, i.path) ELSE NoHand.rest
    BY <1>1, <1>9, ItemTypes DEF IInv, Handed, Real
  <2>4. /\ inc' = inc
        /\ \/ prod' = new /\ wiped' = left
           \/ prod' = prod /\ wiped' = wiped
    BY <1>2, <1>9
  <2>5. /\ new[Slot] = run.hand.value
        /\ \A s \in Slots : s # Slot =>
             new[s] = IF s[1] = i.path THEN IF run.hand.read THEN prod[s] ELSE None ELSE prod[s]
    <3>1. Target = prod
      BY <1>9 DEF Target
    <3>2. /\ new[Slot] = run.hand.value
          /\ \A s \in Slots : s # Slot =>
               new[s] = IF s[1] = i.path THEN run.hand.rest[s[2]] ELSE prod[s]
      BY <1>3, <2>3, <3>1, MergedSlots DEF new, Slot
    <3>3. ASSUME NEW s \in Slots, s[1] = i.path
          PROVE  run.hand.rest[s[2]] = IF run.hand.read THEN prod[s] ELSE None
      <4>1. s[2] \in Keys /\ s = <<i.path, s[2]>>
        BY <3>3, SlotTypes
      <4> QED  BY <2>3, <4>1 DEF At, NoHand
    <3> QED  BY <3>2, <3>3
  <2>6. \A s \in wiped : prod[s] = None
    BY DEF IInv, Faulted
  <2>7. ASSUME NEW s \in Slots
        PROVE  /\ Reaches(s) => Reaches(s)'
               /\ Todo("check", s) => Todo("check", s)'
               /\ Todo("key", s) => Todo("key", s)' \/ s = Slot
    <3>1. s = <<s[1], s[2]>>
      BY SlotTypes
    <3>2. Item("key", s[1], s[2]) = i => s = Slot
      BY <3>1 DEF Item, Slot
    <3>3. Item("check", s[1], s[2]) # i
      BY <2>3 DEF Item
    <3> QED  BY <1>5, <2>3, <3>2, <3>3 DEF Reaches, Todo
  <2>8. Walked'
    <3> SUFFICES ASSUME NEW s \in Slots, inc[s] # None
                 PROVE  IF run.mode = "interactive" THEN Streamed(s)' ELSE Structured(s)'
      BY <1>5, <2>4 DEF Walked
    <3>1. IF run.mode = "interactive" THEN Streamed(s) ELSE Structured(s)
      BY <1>1, <1>9 DEF IInv, Walked, Real
    <3>2. CASE run.mode = "structured"
      <4>1. ~ \A j \in run.agenda : j.do = "check"
        BY <2>3
      <4> QED  BY <1>1, <1>5, <2>7, <3>1, <3>2, <4>1 DEF Structured
    <3>3. CASE run.mode = "interactive" /\ run'.failed
      BY <3>3 DEF Streamed
    <3>4. CASE run.mode = "interactive" /\ ~run'.failed
      <4>1. prod' = new /\ wiped' = left
        <5>1. Skip(i) => run'.failed
          BY <3>4, Skipped DEF IInv
        <5> QED  BY <1>2, <1>9, <3>4, <5>1
      <4>2. CASE s = Slot
        BY <1>1, <2>3, <2>4, <2>5, <3>4, <4>1, <4>2 DEF Streamed, Excused
      <4>3. CASE s # Slot
        <5>1. new[s] = prod[s] \/ (new[s] = None /\ ~run.hand.read)
          BY <2>5, <4>3
        <5>2. s \in wiped => s \in left
          BY <2>6, <5>1 DEF left
        <5>3. prod[s] = inc[s] => new[s] = inc[s] \/ s \in left
          BY <3>1, <5>1 DEF left
        <5> QED  BY <1>1, <1>5, <2>4, <2>7, <3>1, <3>4, <4>1, <4>3, <5>2, <5>3 DEF Streamed, Excused
      <4> QED  BY <4>2, <4>3
    <3> QED  BY <1>3, <3>2, <3>3, <3>4 DEF Modes
  <2>9. ~Unread'
    BY <1>5 DEF Unread
  <2>10. wiped' # {} => wiped # {} \/ Unread
    BY <1>1, <1>9, <2>4 DEF left, Unread
  <2>11. Faulted'
    <3>1. \A s \in wiped' : prod'[s] = None
      BY <2>4, <2>6 DEF left
    <3> QED  BY <1>1, <1>3, <1>6, <2>9, <2>10, <3>1 DEF IInv, Faulted
  <2>12. SnapKept'
    <3>1. Kept(inc)
      BY <1>1, <1>9 DEF IInv, SnapKept, Real
    <3>2. Kept(inc)'
      <4>1. \A s \in Slots \ late : snap'[s] = snap[s] /\ inc'[s] = inc[s]
        BY <1>1, <2>4
      <4> QED  BY <1>1, <1>3, <1>6, <2>4, <2>9, <2>10, <3>1, <4>1 DEF IInv, Faulted, Kept
    <3> QED  BY <1>1, <2>1, <3>2 DEF SnapKept
  <2> QED  BY <1>7, <2>2, <2>8, <2>11, <2>12 DEF IInv
<1> QED  BY <1>8, <1>9

\* Checks come last: what they find the same stays so, the rest is a failure.
LEMMA CheckStep ==
  ASSUME IInv, ValidateSinglePath
  PROVE  IInv'
<1>1. /\ inc' = inc /\ up' = up /\ files' = files /\ prod' = prod /\ snap' = snap /\ last' = last /\ writes' = writes
      /\ drys' = drys /\ wiped' = wiped /\ hidden' = hidden /\ late' = late /\ result' = result
      /\ switched' = switched /\ broken' = broken
  BY DEF ValidateSinglePath, ghosts
<1>2. PICK i \in Ready("check"), answered \in BOOLEAN :
        LET s == <<i.path, i.key>>
            same == inc[s] # None /\ inc[s] = Target[s]
        IN  /\ Fail(IF answered THEN 0 ELSE 1)
            /\ run' = [run EXCEPT !.agenda = @ \ {i},
                                  !.count = IF answered /\ same THEN @ + 1 ELSE @,
                                  !.failed = @ \/ ~(answered /\ same)]
  BY DEF ValidateSinglePath
<1> DEFINE good == answered /\ inc[<<i.path, i.key>>] # None
                     /\ inc[<<i.path, i.key>>] = Target[<<i.path, i.key>>]
           n == IF good THEN run.count + 1 ELSE run.count
           failed == run.failed \/ ~good
           agenda == run.agenda \ {i}
           f == IF answered THEN 0 ELSE 1
<1>3. /\ i \in run.agenda /\ run.pc = "walk" /\ i.do = "check" /\ i = Item("check", i.path, i.key)
      /\ run \in Runs /\ faults \in 0 .. MaxFaults /\ run.mode \in Modes
      /\ run.mode = "structured" => \A j \in run.agenda : Rank["check"] <= Rank[j.do]
  BY <1>2, ItemTypes DEF Ready, IInv, TypeOK, Runs
<1>4. Fail(f) /\ run' = [run EXCEPT !.agenda = agenda, !.count = n, !.failed = failed]
  BY <1>2
<1>5. agenda \in SUBSET Items /\ n \in Nat /\ failed \in BOOLEAN /\ f \in Nat
  BY <1>3 DEF Runs
<1>6. ~run.dry /\ ~failed => prod[<<i.path, i.key>>] = inc[<<i.path, i.key>>]
  BY DEF Target
<1>7. run.failed => failed
  OBVIOUS
<1> HIDE DEF n, failed, good, f
<1>8. /\ run' \in Runs /\ run'.pc = "walk" /\ run'.dry = run.dry /\ run'.mode = run.mode
      /\ run'.agenda = run.agenda \ {i} /\ run'.failed = failed
  BY <1>3, <1>4, <1>5 DEF Runs
<1>9. faults' \in 0 .. MaxFaults /\ faults' >= faults
  BY <1>3, <1>4, <1>5, Failures
<1>10. TypeOK'
  BY <1>1, <1>8, <1>9 DEF IInv, TypeOK
<1>11. CASE run.dry
  BY <1>1, <1>8, <1>9, <1>10, <1>11, DryWalk
<1>12. CASE ~run.dry
  <2>1. up
    BY <1>3, <1>12 DEF IInv, Phased, Real
  <2>2. Phased' /\ Handed' /\ Finished'
    BY <1>1, <1>8, <1>12, <2>1 DEF Phased, Handed, Finished, Real
  <2>3. run.mode = "structured" => \A j \in run.agenda : j.do = "check"
    <3>1. \A j \in run.agenda : j.do \in {"visit", "key", "check"}
      BY ItemTypes DEF IInv
    <3> QED  BY <1>3, <3>1 DEF Rank
  <2>4. ASSUME NEW s \in Slots
        PROVE  /\ Reaches(s) => Reaches(s)'
               /\ Todo("key", s) => Todo("key", s)'
               /\ Todo("check", s) => Todo("check", s)' \/ s = <<i.path, i.key>>
    <3>1. s = <<s[1], s[2]>>
      BY SlotTypes
    <3>2. Item("check", s[1], s[2]) = i => s = <<i.path, i.key>>
      BY <3>1 DEF Item
    <3>3. Item("key", s[1], s[2]) # i
      BY <1>3 DEF Item
    <3> QED  BY <1>3, <1>8, <3>2, <3>3 DEF Reaches, Todo
  <2>5. Walked'
    <3> SUFFICES ASSUME NEW s \in Slots, inc[s] # None
                 PROVE  IF run.mode = "interactive" THEN Streamed(s)' ELSE Structured(s)'
      BY <1>1, <1>8 DEF Walked
    <3>1. IF run.mode = "interactive" THEN Streamed(s) ELSE Structured(s)
      BY <1>3, <1>12 DEF IInv, Walked, Real
    <3>2. CASE run.mode = "interactive"
      BY <1>1, <1>7, <1>8, <2>4, <3>1, <3>2 DEF Streamed, Excused
    <3>3. CASE run.mode = "structured"
      <4>1. \A j \in run'.agenda : j.do = "check"
        BY <1>8, <2>3, <3>3
      <4>2. s = <<i.path, i.key>> => failed \/ prod[s] = inc[s]
        BY <1>6, <1>12
      <4> QED  BY <1>1, <1>7, <1>8, <2>4, <3>1, <3>3, <4>1, <4>2 DEF Structured
    <3> QED  BY <1>3, <3>2, <3>3 DEF Modes
  <2>6. ~Unread'
    BY <1>8 DEF Unread
  <2>7. Faulted'
    BY <1>1, <1>3, <1>9, <2>6 DEF IInv, Faulted
  <2>8. SnapKept'
    <3>1. Kept(inc)
      BY <1>3, <1>12 DEF IInv, SnapKept, Real
    <3>2. Kept(inc)'
      BY <1>1, <1>3, <1>9, <2>6, <3>1 DEF IInv, Faulted, Kept
    <3> QED  BY <1>1, <2>1, <3>2 DEF SnapKept
  <2> QED  BY <1>10, <2>2, <2>5, <2>7, <2>8 DEF IInv
<1> QED  BY <1>11, <1>12

\* What an environment writes is late, and the rest as it was.
LEMMA EnvironmentStep ==
  ASSUME IInv, EnvironmentWrites
  PROVE  IInv'
<1>1. PICK t \in Slots : inc' = [inc EXCEPT ![t] = Fresh] /\ late' = late \cup {t}
  BY DEF EnvironmentWrites
<1>2. /\ up' = up /\ files' = files /\ up /\ prod' = prod /\ snap' = snap /\ last' = last /\ writes' = writes + 1
      /\ writes < MaxWrites /\ drys' = drys /\ wiped' = wiped /\ hidden' = hidden
      /\ result' = result /\ switched' = switched /\ broken' = broken /\ run' = run
      /\ faults' = faults
  BY DEF EnvironmentWrites
<1>3. inc' \in Vaults
  BY <1>1 DEF IInv, TypeOK, Vaults
<1>4. \A s \in Slots \ late' : s \notin late /\ inc'[s] = inc[s]
  BY <1>1 DEF IInv, TypeOK, Vaults
<1>5. late \subseteq late' /\ late' \subseteq Slots
  BY <1>1 DEF IInv, TypeOK
<1>6. TypeOK'
  BY <1>2, <1>3, <1>5 DEF IInv, TypeOK
<1>7. Phased'
  BY <1>2 DEF IInv, Phased, Real
<1>8. Handed'
  <2> SUFFICES ASSUME Real({"import"}) PROVE Handed'
    BY <1>2 DEF Handed, Real
  <2>1. Slot \in Slots
    BY ItemTypes DEF IInv, Handed, Slot
  <2>2. Slot' = Slot
    BY <1>2 DEF Slot
  <2> QED  BY <1>2, <1>4, <1>5, <2>1, <2>2 DEF IInv, Handed, Real
<1>9. Walked'
  <2>1. ASSUME NEW s \in Slots, inc'[s] # None, Real({"walk", "import"})
        PROVE  IF run.mode = "interactive" THEN Streamed(s)' ELSE Structured(s)'
    <3>1. CASE s \in late'
      BY <3>1 DEF Streamed, Structured, Excused
    <3>2. CASE s \notin late'
      <4>1. inc'[s] = inc[s] /\ s \notin late
        BY <1>4, <3>2
      <4>2. IF run.mode = "interactive" THEN Streamed(s) ELSE Structured(s)
        BY <2>1, <4>1 DEF IInv, Walked
      <4> QED  BY <1>2, <4>1, <4>2 DEF Streamed, Structured, Excused, Reaches, Todo
    <3> QED  BY <3>1, <3>2
  <2> QED  BY <1>2, <2>1 DEF Walked, Real
<1>10. Finished'
  BY <1>2, <1>4, <1>5 DEF IInv, Finished, Copied, Excused, Real
<1>11. Faulted'
  BY <1>2 DEF IInv, Faulted, Unread
<1>12. SnapKept'
  <2>1. Kept(inc) => Kept(inc)'
    BY <1>2, <1>4 DEF Kept, Unread
  <2> QED  BY <1>2, <2>1 DEF IInv, SnapKept, Real
<1> QED  BY <1>6, <1>7, <1>8, <1>9, <1>10, <1>11, <1>12 DEF IInv

-----------------------------------------------------------------------------
(* After the end of the inception vault.                                   *)

\* Once a vault without its files is there, one failure has been, and what the
\* walk could hide or drop takes another.
LEMMA GoneStays ==
  ASSUME IInv', Ended, Hollow', up' = up, files' = files, last' = last, faults \in Nat,
         faults' \in Nat, faults' >= faults,
         ~Whole => \A s \in Slots \ Excused' : s \notin Excused /\ prod'[s] = prod[s],
         ~up => UNCHANGED <<snap, hidden, wiped, late>>
  PROVE  Ended'
<1>1. Whole' = Whole
  BY DEF Whole
<1> SUFFICES ASSUME ~Whole PROVE Copied(last, Excused)' /\ Kept(last)'
  BY <1>1 DEF Ended, Gone
<1>2. Copied(last, Excused)'
  BY DEF Ended, Gone, Copied
<1>3. CASE up
  BY <1>2, <1>3 DEF Hollow, Kept, Whole
<1>4. CASE ~up
  <2>1. ~Unread'
    BY <1>4 DEF IInv, Phased, Unread, Real
  <2>2. Kept(last)
    BY DEF Ended, Gone
  <2>3. Kept(last)'
    BY <1>4, <2>1, <2>2 DEF Kept
  <2> QED  BY <1>2, <2>3
<1> QED  BY <1>3, <1>4

\* A step that writes into neither vault and finds what is there.
LEMMA Aside ==
  ASSUME IInv, IInv', Ended, UNCHANGED <<inc, up, files, prod, last, wiped>>,
         run'.pc # "import",
         run'.pc = "walk" => \A i \in run'.agenda :
            \/ i.do = "visit" \/ inc[ItemSlot(i)] # None
            \/ run.pc \in {"walk", "import"} /\ i \in run.agenda,
         faults' >= faults,
         ~Whole => late' = late /\ (hidden' = hidden
                                      \/ (up /\ hidden \subseteq hidden' /\ faults' > faults)),
         ~up => snap' = snap
  PROVE  Ended'
<1>1. faults \in Nat /\ faults' \in Nat
  BY DEF IInv, TypeOK
<1>2. ~Unread'
  BY DEF Unread
<1>3. Hollow'
  <2> SUFFICES ASSUME up, ~files PROVE Hollow'
    BY DEF Hollow
  <2>1. late' = late /\ (hidden' = hidden \/ faults' > faults)
    BY DEF Whole
  <2>2. \A s \in Slots : inc'[s] # None => s \in late'
    BY <2>1 DEF Ended, Hollow
  <2>3. run'.pc \in {"walk", "import"} =>
          \A i \in run'.agenda : i.do # "visit" => ItemSlot(i) \in late'
    <3> SUFFICES ASSUME run'.pc = "walk", NEW i \in run'.agenda, i.do # "visit"
                 PROVE  ItemSlot(i) \in late
      BY <2>1
    <3>1. i \in Items
      BY DEF IInv, TypeOK, Runs
    <3>2. ItemSlot(i) \in Slots
      BY <3>1 DEF Items, Slots, ItemSlot
    <3> QED  BY <3>2 DEF Ended, Hollow
  <2>4. faults' >= 2 \/ (faults' = 1 /\ hidden' = {} /\ wiped' = {} /\ ~Unread')
    BY <1>1, <1>2, <2>1 DEF Ended, Hollow
  <2> QED  BY <2>2, <2>3, <2>4 DEF Hollow
<1> QED  BY <1>1, <1>3, GoneStays DEF Excused, Whole

\* A run that ends, and one that takes a step on its way.
LEMMA EndEnded ==
  ASSUME IInv, IInv', Ended, NEW r, End(r), UNCHANGED <<inc, up, files, prod, last, wiped>>,
         UNCHANGED <<late, hidden, snap>>, faults' >= faults
  PROVE  Ended'
<1>1. run'.pc = "idle"
  BY DEF End, NoRun
<1> QED  BY <1>1, Aside

\* A step that fails or does not counts on.
LEMMA CountsOn ==
  ASSUME IInv, NEW n \in Nat, Fail(n) PROVE faults' = faults + n /\ faults' >= faults
BY DEF Fail, IInv, TypeOK

LEMMA StartEnded ==
  ASSUME IInv, IInv', Ended, NEW dry \in BOOLEAN, NEW mode \in Modes, Start(dry, mode) PROVE Ended'
<1> DEFINE point == IF dry THEN "walk" ELSE "validate"
           agenda == IF dry THEN {Root} ELSE {}
<1>1. run' = [NoRun EXCEPT !.pc = point, !.dry = dry, !.mode = mode, !.agenda = agenda]
  BY DEF Start
<1>2. point # "import" /\ \A i \in agenda : i.do = "visit"
  BY DEF Root, Item
<1> HIDE DEF point, agenda
<1>3. run'.pc = point /\ run'.agenda = agenda
  BY <1>1 DEF NoRun
<1>4. faults' >= faults
  BY DEF Start, IInv, TypeOK
<1> QED  BY <1>2, <1>3, <1>4, Aside DEF Start

LEMMA ValidateEnded == ASSUME IInv, IInv', Ended, ValidateTargets PROVE Ended'
<1>1. UNCHANGED <<inc, up, files, prod, last, wiped, late, hidden, snap>> /\ run \in Runs
  BY DEF ValidateTargets, ghosts, IInv, TypeOK
<1>2. faults' >= faults
  BY CountsOn DEF ValidateTargets, IInv, TypeOK
<1>3. CASE run' = [run EXCEPT !.pc = "snapshot"]
  <2>1. run'.pc = "snapshot"
    BY <1>1, <1>3 DEF Runs
  <2> QED  BY <1>1, <1>2, <2>1, Aside
<1>4. CASE End("failed")
  BY <1>1, <1>2, <1>4, EndEnded
<1> QED  BY <1>3, <1>4 DEF ValidateTargets

LEMMA SnapshotEnded == ASSUME IInv, IInv', Ended, SnapshotInceptionVault PROVE Ended'
<1>1. UNCHANGED <<inc, up, files, prod, last, wiped, late, hidden>> /\ run \in Runs
      /\ run.pc = "snapshot"
  BY DEF SnapshotInceptionVault, ghosts, IInv, TypeOK
<1>2. faults' >= faults
  <2>1. ASSUME NEW gone \in SUBSET Paths, NEW shut \in SUBSET Paths,
               Fail(Cardinality(gone) + Cardinality(shut)) PROVE faults' >= faults
    BY <2>1, Counts, CountsOn
  <2> QED  BY <2>1, CountsOn DEF SnapshotInceptionVault
<1>3. up
  BY <1>1 DEF IInv, Phased, Real
<1>4. CASE End("failed") /\ snap' = snap
  BY <1>1, <1>2, <1>4, EndEnded
<1>5. CASE run' = [run EXCEPT !.pc = "walk", !.agenda = {Root}]
  <2>1. run'.pc = "walk" /\ run'.agenda = {Root} /\ Root.do = "visit"
    BY <1>1, <1>5 DEF Runs, Root, Item
  <2> QED  BY <1>1, <1>2, <1>3, <2>1, Aside
<1> QED  BY <1>4, <1>5 DEF SnapshotInceptionVault

LEMMA WalkDoneEnded == ASSUME IInv, IInv', Ended, WalkDone PROVE Ended'
<1>1. UNCHANGED <<inc, up, files, prod, last, wiped, late, hidden, snap>> /\ run \in Runs
      /\ faults' >= faults
  BY DEF WalkDone, ghosts, counts, IInv, TypeOK
<1>2. CASE run' = [run EXCEPT !.pc = "confirm"]
  <2>1. run'.pc = "confirm"
    BY <1>1, <1>2 DEF Runs
  <2> QED  BY <1>1, <2>1, Aside
<1>3. CASE \E r : End(r)
  BY <1>1, <1>3, EndEnded
<1> QED  BY <1>2, <1>3 DEF WalkDone

LEMMA ConfirmEnded == ASSUME IInv, IInv', Ended, MigrateStepDecommission PROVE Ended'
<1>1. UNCHANGED <<inc, up, files, prod, last, wiped, late, hidden, snap>> /\ run \in Runs
  BY DEF MigrateStepDecommission, ghosts, IInv, TypeOK
<1>2. faults' >= faults
  BY CountsOn DEF MigrateStepDecommission, ConfirmDecommission, IInv, TypeOK
<1>3. CASE run' = [run EXCEPT !.pc = "decommission"]
  <2>1. run'.pc = "decommission"
    BY <1>1, <1>3 DEF Runs
  <2> QED  BY <1>1, <1>2, <2>1, Aside
<1>4. CASE ConfirmDecommission
  BY <1>1, <1>2, <1>4, EndEnded DEF ConfirmDecommission
<1> QED  BY <1>3, <1>4 DEF MigrateStepDecommission

LEMMA UpdateEnded == ASSUME IInv, IInv', Ended, UpdateEnvironmentSecrets PROVE Ended'
<1>1. UNCHANGED <<inc, up, files, prod, last, wiped, late, hidden, snap>>
  BY DEF UpdateEnvironmentSecrets
<1>2. \A bad \in SUBSET Updatable : Cardinality(bad) \in Nat
  BY Counts DEF Updatable
<1>3. faults' >= faults
  BY <1>2, CountsOn DEF UpdateEnvironmentSecrets, UpdateAllEnvironments, NoEnvironmentsFound
<1>4. \E r : End(r)
  BY DEF UpdateEnvironmentSecrets, UpdateAllEnvironments, NoEnvironmentsFound
<1> QED  BY <1>1, <1>3, <1>4, EndEnded

LEMMA KillEnded == ASSUME IInv, IInv', Ended, Kill PROVE Ended'
<1>1. faults' >= faults
  BY CountsOn DEF Kill
<1> QED  BY <1>1, EndEnded DEF Kill

\* What a vault without its files shows was written late.
LEMMA VisitEnded == ASSUME IInv, IInv', Ended, Visit PROVE Ended'
<1>1. PICK i \in Ready("visit"), canRead \in BOOLEAN, canList \in BOOLEAN :
        LET p == i.path
            keys == IF canRead THEN KeysAt(inc, p) ELSE {}
            kids == IF canList THEN Children(inc, p) ELSE {}
        IN /\ IF up THEN Fail((IF canRead THEN 0 ELSE 1) + (IF canList THEN 0 ELSE 1))
                    ELSE UNCHANGED faults
           /\ run' = [run EXCEPT !.agenda = (@ \ {i}) \cup Collected(p, kids, keys)]
           /\ hidden' = hidden \cup (IF canRead \/ ~up THEN {} ELSE {p} \X Keys)
                               \cup (IF canList \/ ~up THEN {} ELSE Below(p) \ ({p} \X Keys))
  BY DEF Visit
<1> DEFINE p == i.path
           keys == IF canRead THEN KeysAt(inc, p) ELSE {}
           kids == IF canList THEN Children(inc, p) ELSE {}
           n == (IF canRead THEN 0 ELSE 1) + (IF canList THEN 0 ELSE 1)
           found == Collected(p, kids, keys)
           agenda == (run.agenda \ {i}) \cup found
<1>2. UNCHANGED <<inc, up, files, prod, last, wiped, late, snap>> /\ run \in Runs
      /\ run.pc = "walk" /\ i \in run.agenda /\ faults \in Nat
  BY <1>1 DEF Visit, Ready, IInv, TypeOK
<1>3. \A j \in found : j.do = "visit" \/ inc[ItemSlot(j)] # None
  <2>1. \A k \in keys : inc[<<p, k>>] # None
    BY DEF KeysAt
  <2> QED  BY <2>1 DEF Collected, Visits, ToDo, Item, ItemSlot
<1>4. n \in Nat /\ (n = 0 => canRead /\ canList)
  OBVIOUS
<1>5. faults' >= faults /\ (hidden' = hidden \/ (up /\ hidden \subseteq hidden' /\ faults' > faults))
  <2>1. CASE up
    <3>1. faults' = faults + n
      BY <1>1, <1>4, <2>1, CountsOn
    <3>2. n = 0 => hidden' = hidden
      BY <1>1, <1>4
    <3> HIDE DEF n
    <3> QED  BY <1>1, <1>2, <1>4, <2>1, <3>1, <3>2
  <2>2. CASE ~up
    BY <1>1, <1>2, <2>2
  <2> QED  BY <2>1, <2>2
<1>6. run' = [run EXCEPT !.agenda = agenda]
  BY <1>1
<1> HIDE DEF agenda, found
<1>7. run'.pc = "walk" /\ run'.agenda = agenda
  BY <1>2, <1>6 DEF Runs
<1>8. \A j \in agenda : j \in run.agenda \/ j \in found
  BY DEF agenda
<1> QED  BY <1>2, <1>3, <1>5, <1>7, <1>8, Aside

LEMMA CheckEnded == ASSUME IInv, IInv', Ended, ValidateSinglePath PROVE Ended'
<1>1. PICK i \in Ready("check"), answered \in BOOLEAN : \E n, f :
        /\ Fail(IF answered THEN 0 ELSE 1)
        /\ run' = [run EXCEPT !.agenda = @ \ {i}, !.count = n, !.failed = f]
  BY DEF ValidateSinglePath
<1>2. UNCHANGED <<inc, up, files, prod, last, wiped, late, hidden, snap>> /\ run \in Runs
      /\ run.pc = "walk"
  BY <1>1 DEF ValidateSinglePath, ghosts, Ready, IInv, TypeOK
<1>3. run'.pc = "walk" /\ run'.agenda = run.agenda \ {i}
  BY <1>1, <1>2 DEF Runs
<1>4. faults' >= faults
  BY <1>1, CountsOn
<1> QED  BY <1>2, <1>3, <1>4, Aside

\* A key that is given up.
LEMMA SkipEnded ==
  ASSUME IInv, IInv', Ended, NEW i, Skip(i), run.pc \in {"walk", "import"},
         UNCHANGED <<inc, up, files, prod, last, wiped, late, hidden, snap>>, faults' >= faults
  PROVE  Ended'
<1>1. run'.pc = "walk" /\ run'.agenda = run.agenda \ {i}
  BY Skipped DEF IInv
<1> QED  BY <1>1, Aside

LEMMA ExportEnded == ASSUME IInv, IInv', Ended, ExportKey PROVE Ended'
<1>1. UNCHANGED <<inc, up, files, prod, last, wiped, late, hidden, snap>>
  BY DEF ExportKey, ghosts
<1> run \in Runs /\ faults \in Nat /\ faults' \in Nat /\ inc \in Vaults
  BY DEF IInv, TypeOK
<1>2. PICK i \in Ready("key") :
        \/ \E read \in BOOLEAN :
             /\ run' = [run EXCEPT !.pc = "import",
                      !.hand = [item |-> i, value |-> inc[<<i.path, i.key>>],
                                rest |-> IF read THEN At(Target, i.path) ELSE NoHand.rest,
                                read |-> read]]
             /\ Fail(IF read THEN 0 ELSE 1)
        \/ Skip(i) /\ (faults' = faults \/ Fail(1))
  BY DEF ExportKey
<1>3. i \in run.agenda /\ run.pc = "walk" /\ i.do = "key" /\ i.path \in Paths
  BY <1>2, ItemTypes DEF Ready, IInv
<1>4. CASE Skip(i) /\ (faults' = faults \/ Fail(1))
  <2>1. faults' >= faults
    BY <1>1, <1>4, CountsOn
  <2> QED  BY <1>1, <1>3, <1>4, <2>1, SkipEnded
<1>5. ASSUME NEW read \in BOOLEAN,
             run' = [run EXCEPT !.pc = "import",
                      !.hand = [item |-> i, value |-> inc[<<i.path, i.key>>],
                                rest |-> IF read THEN At(Target, i.path) ELSE NoHand.rest,
                                read |-> read]],
             Fail(IF read THEN 0 ELSE 1)
      PROVE  Ended'
  <2> DEFINE rest == IF read THEN At(Target, i.path) ELSE NoHand.rest
             hand == [item |-> i, value |-> inc[<<i.path, i.key>>], rest |-> rest, read |-> read]
  <2>1. faults' >= faults /\ (~read => faults' > faults)
    BY <1>1, <1>5, CountsOn
  <2>2. run.dry => \A k \in Keys : rest[k] # None =>
          <<i.path, k>> \in Slots /\ inc[<<i.path, k>>] # None
    <3>1. \A k \in Keys : <<i.path, k>> \in Slots
      BY <1>3 DEF Slots
    <3>2. run.dry => Target = inc
      BY DEF Target
    <3> QED  BY <3>1, <3>2 DEF At, NoHand
  <2>3. run' = [run EXCEPT !.pc = "import", !.hand = hand]
    BY <1>5
  <2> HIDE DEF rest
  <2>4. hand.item = i /\ hand.rest = rest /\ hand.read = read
    OBVIOUS
  <2> HIDE DEF hand
  <2>5. /\ run'.pc = "import" /\ run'.dry = run.dry /\ run'.agenda = run.agenda
        /\ run'.hand = hand
    BY <1>1, <2>3 DEF Runs
  <2>6. Hollow'
    <3> SUFFICES ASSUME up, ~files PROVE Hollow'
      BY <1>1 DEF Hollow
    <3>1. \A s \in Slots : inc'[s] # None => s \in late'
      BY <1>1 DEF Ended, Hollow
    <3>2. \A j \in run'.agenda : j.do # "visit" => ItemSlot(j) \in late'
      BY <1>1, <1>3, <2>5 DEF Ended, Hollow
    <3>3. /\ run'.hand.item \in run'.agenda /\ run'.hand.item.do = "key"
          /\ \A k \in Keys : run'.dry /\ run'.hand.rest[k] # None =>
                               <<run'.hand.item.path, k>> \in late'
      BY <1>1, <1>3, <2>2, <2>4, <2>5, <3>1
    <3>4. faults' >= 2 \/ (faults' = 1 /\ hidden' = {} /\ wiped' = {} /\ ~Unread')
      <4>1. Unread' => faults' > faults
        BY <2>1, <2>4, <2>5 DEF Unread
      <4> QED  BY <1>1, <2>1, <4>1 DEF Ended, Hollow
    <3> QED  BY <3>1, <3>2, <3>3, <3>4 DEF Hollow
  <2> QED  BY <1>1, <2>1, <2>6, GoneStays DEF Excused
<1> QED  BY <1>2, <1>4, <1>5

\* What is written from a vault without its files is late, and what else was
\* in production at the path is written back or dropped by a second failure.
LEMMA ImportEnded == ASSUME IInv, IInv', Ended, ImportKey PROVE Ended'
<1> DEFINE i == run.hand.item
           new == Merged(Target, run.hand)
           left == {s \in Slots : new[s] = None
                                  /\ (s \in wiped \/ (prod[s] # None /\ ~run.hand.read))}
<1>1. /\ UNCHANGED <<up, files, last, late, hidden, snap>> /\ run \in Runs /\ run.pc = "import"
      /\ faults \in Nat /\ faults' \in Nat /\ inc \in Vaults /\ prod \in Vaults
      /\ run.hand \in Hands /\ wiped \subseteq Slots
  BY DEF ImportKey, IInv, TypeOK, Runs
<1>2. \/ /\ IF run.dry THEN inc' = new /\ prod' = prod ELSE prod' = new /\ inc' = inc
         /\ wiped' = IF run.dry THEN wiped ELSE left
         /\ (Counted(i) /\ faults' = faults) \/ (Fail(1) /\ Skip(i))
      \/ Fail(1) /\ Skip(i) /\ inc' = inc /\ prod' = prod /\ wiped' = wiped
  BY DEF ImportKey
<1>3. faults' >= faults
  BY <1>1, <1>2, CountsOn
<1>4. CASE Skip(i) /\ UNCHANGED <<inc, prod, wiped>>
  BY <1>1, <1>3, <1>4, SkipEnded
<1>5. CASE /\ IF run.dry THEN inc' = new /\ prod' = prod ELSE prod' = new /\ inc' = inc
           /\ wiped' = IF run.dry THEN wiped ELSE left
           /\ Counted(i) \/ Skip(i)
  <2>1. run'.pc = "walk" /\ run'.agenda = run.agenda \ {i}
    BY <1>5, Skipped, CountedKey DEF IInv
  <2>2. ~Unread'
    BY <2>1 DEF Unread
  <2>3. ~run.dry => up
    BY <1>1 DEF IInv, Phased, Real
  <2>4. Target \in Vaults /\ Target = IF run.dry THEN inc ELSE prod
    BY <1>1 DEF Target
  <2>5. ASSUME up, ~files
        PROVE  /\ i.do # "visit" /\ Slot \in late /\ Slot = <<i.path, i.key>>
               /\ \A s \in Slots : s # Slot =>
                    new[s] = IF s[1] = i.path THEN run.hand.rest[s[2]] ELSE Target[s]
    <3>1. i \in run.agenda /\ i.do = "key"
      BY <1>1, <2>5 DEF Ended, Hollow
    <3>2. i.do # "visit" /\ ItemSlot(i) \in late
      BY <1>1, <2>5, <3>1 DEF Ended, Hollow
    <3>3. \A s \in Slots : s # <<i.path, i.key>> =>
            new[s] = IF s[1] = i.path THEN run.hand.rest[s[2]] ELSE Target[s]
      BY <1>1, <2>4, <3>2, MergedSlots
    <3> QED  BY <3>2, <3>3 DEF Slot, ItemSlot
  <2>6. ASSUME up, ~files, run.dry, NEW s \in Slots, inc'[s] # None PROVE s \in late
    <3>1. CASE s = Slot
      BY <2>5, <2>6, <3>1
    <3>2. CASE s # Slot /\ s[1] = i.path
      <4>1. s = <<i.path, s[2]>> /\ s[2] \in Keys
        BY <3>2, SlotTypes
      <4>2. run.hand.rest[s[2]] # None
        BY <1>5, <2>5, <2>6, <3>2
      <4> QED  BY <1>1, <2>6, <4>1, <4>2 DEF Ended, Hollow
    <3>3. CASE s # Slot /\ s[1] # i.path
      <4>1. inc[s] # None
        BY <1>5, <2>4, <2>5, <2>6, <3>3
      <4> QED  BY <2>6, <4>1 DEF Ended, Hollow
    <3> QED  BY <3>1, <3>2, <3>3
  <2>7. ASSUME up, ~files, ~run.dry, NEW s \in Slots, s \notin late
        PROVE  /\ new[s] = prod[s] \/ (new[s] = None /\ ~run.hand.read)
    <3>1. s # Slot
      BY <2>5, <2>7
    <3>2. run.hand.rest = IF run.hand.read THEN At(prod, i.path) ELSE NoHand.rest
      BY <1>1, <2>7 DEF IInv, Handed, Real
    <3>3. CASE s[1] = i.path
      <4>1. s[2] \in Keys /\ s = <<i.path, s[2]>>
        BY <3>3, SlotTypes
      <4> QED  BY <2>5, <2>7, <3>1, <3>2, <3>3, <4>1 DEF At, NoHand
    <3>4. CASE s[1] # i.path
      BY <2>4, <2>5, <2>7, <3>1, <3>4
    <3> QED  BY <3>3, <3>4
  <2>8. \A s \in wiped : prod[s] = None
    BY DEF IInv, Faulted
  <2> HIDE DEF new
  <2>9. ASSUME up, ~files, NEW s \in Slots, s \notin Excused'
        PROVE  s \notin Excused /\ prod'[s] = prod[s]
    <3>1. s \notin late /\ s \notin hidden /\ s \notin wiped'
      BY <1>1, <2>9 DEF Excused
    <3>2. CASE run.dry
      BY <1>5, <3>1, <3>2 DEF Excused
    <3>3. CASE ~run.dry
      <4>1. s \notin left /\ prod' = new
        BY <1>5, <3>1, <3>3
      <4>2. new[s] = prod[s] \/ (new[s] = None /\ ~run.hand.read)
        BY <2>7, <2>9, <3>1, <3>3
      <4>3. s \notin wiped
        BY <2>8, <4>1, <4>2
      <4> QED  BY <3>1, <4>1, <4>2, <4>3 DEF Excused
    <3> QED  BY <3>2, <3>3
  <2>10. Hollow'
    <3> SUFFICES ASSUME up, ~files PROVE Hollow'
      BY <1>1 DEF Hollow
    <3>1. \A s \in Slots : inc'[s] # None => s \in late'
      BY <1>1, <1>5, <2>6 DEF Ended, Hollow
    <3>2. \A j \in run'.agenda : j.do # "visit" => ItemSlot(j) \in late'
      BY <1>1, <2>1 DEF Ended, Hollow
    <3>3. faults' >= 2 \/ (faults' = 1 /\ hidden' = {} /\ wiped' = {} /\ ~Unread')
      <4>1. wiped' # {} => wiped # {} \/ Unread
        BY <1>1, <1>5 DEF Unread
      <4> HIDE DEF left
      <4> QED  BY <1>1, <1>3, <2>2, <4>1 DEF Ended, Hollow
    <3> QED  BY <2>1, <3>1, <3>2, <3>3 DEF Hollow
  <2>11. ~Whole => \A s \in Slots \ Excused' : s \notin Excused /\ prod'[s] = prod[s]
    <3>1. CASE up
      BY <2>9, <3>1 DEF Whole
    <3>2. CASE ~up
      BY <1>1, <1>5, <2>3, <3>2 DEF Excused
    <3> QED  BY <3>1, <3>2
  <2>12. ~up => UNCHANGED <<snap, hidden, wiped, late>>
    BY <1>1, <1>5, <2>3
  <2> QED  BY <1>1, <1>3, <2>10, <2>11, <2>12, GoneStays
<1> QED  BY <1>2, <1>4, <1>5

LEMMA EnvironmentEnded == ASSUME IInv, IInv', Ended, EnvironmentWrites PROVE Ended'
<1>1. PICK t \in Slots : inc' = [inc EXCEPT ![t] = Fresh] /\ late' = late \cup {t}
  BY DEF EnvironmentWrites
<1>2. up /\ UNCHANGED <<up, files, prod, snap, last, run, wiped, hidden, faults>>
      /\ faults \in Nat /\ inc \in Vaults
  BY DEF EnvironmentWrites, IInv, TypeOK
<1>3. \A s \in Slots : inc'[s] # None => s = t \/ inc[s] # None
  BY <1>1, <1>2 DEF Vaults
<1>4. Hollow'
  BY <1>1, <1>2, <1>3 DEF Ended, Hollow, Unread
<1> QED  BY <1>1, <1>2, <1>4, GoneStays DEF Excused

\* The inception vault goes with what is copied, or lives on without its files.
LEMMA DecommissionEnded == ASSUME IInv, IInv', Ended, DecommissionInception PROVE Ended'
<1>1. PICK missed \in {0, 1}, kept \in {0, 1} :
        KillSafeProcesses(missed) /\ CleanupVaultFiles(kept) /\ Fail(missed + kept)
  BY DEF DecommissionInception
<1>2. /\ UNCHANGED <<prod, snap, wiped, hidden, late>> /\ run.pc = "decommission"
      /\ run' = [run EXCEPT !.pc = "update"] /\ run \in Runs /\ ~run.dry /\ up
      /\ faults \in Nat /\ {up, files} \subseteq BOOLEAN
      /\ last' = IF Whole /\ ~Whole' THEN inc ELSE last
  BY DEF DecommissionInception, IInv, TypeOK, Phased, Real
<1>3. run'.pc = "update"
  BY <1>2 DEF Runs
<1>4. faults' = faults + (missed + kept)
  BY <1>1, CountsOn
<1>5. up' = (missed = 1) /\ files' = (files /\ kept = 1)
  BY <1>1, <1>2 DEF KillSafeProcesses, CleanupVaultFiles
<1>6. ~Unread /\ ~Unread'
  BY <1>2, <1>3 DEF Unread
<1>7. Hollow'
  <2> SUFFICES ASSUME up', ~files' PROVE Hollow'
    BY DEF Hollow
  <2>1. inc' = Empty
    BY <1>1 DEF CleanupVaultFiles
  <2>2. \A s \in Slots : inc'[s] = None
    BY <2>1 DEF Empty
  <2>3. missed = 1 /\ faults' >= faults + 1
    BY <1>2, <1>4, <1>5
  <2>4. faults' >= 2 \/ (faults' = 1 /\ hidden' = {} /\ wiped' = {} /\ ~Unread')
    <3>1. hidden' = hidden /\ wiped' = wiped /\ faults \in Nat /\ faults' \in Nat
      BY <1>2 DEF IInv, TypeOK
    <3>2. hidden \cup wiped # {} => faults >= 1
      BY DEF IInv, Faulted
    <3> QED  BY <1>6, <2>3, <3>1, <3>2
  <2> QED  BY <1>3, <2>2, <2>4 DEF Hollow
<1>8. Gone'
  <2> SUFFICES ASSUME ~Whole' PROVE Copied(last, Excused)' /\ Kept(last)'
    BY DEF Gone
  <2>1. CASE Whole
    <3>1. last' = inc /\ Copied(inc, Excused) /\ Kept(inc)
      BY <1>2, <2>1 DEF IInv, Finished, SnapKept, Real
    <3> QED  BY <1>2, <1>4, <1>6, <3>1 DEF IInv, Faulted, Copied, Excused, Kept
  <2>2. CASE ~Whole
    <3>1. last' = last /\ Copied(last, Excused) /\ Kept(last)
      BY <1>2, <2>2 DEF Ended, Gone
    <3> QED  BY <1>2, <1>4, <1>6, <3>1 DEF IInv, Faulted, Copied, Excused, Kept
  <2> QED  BY <2>1, <2>2
<1> QED  BY <1>7, <1>8 DEF Ended

-----------------------------------------------------------------------------
(* The theorems.                                                           *)

\* Every step of the command, of the operator and of the environments keeps
\* the invariant (manager.go:MigrateWithOptions).
LEMMA Steady == IInv /\ [Next]_vars => IInv'
<1> SUFFICES ASSUME IInv, [Next]_vars PROVE IInv'
  OBVIOUS
<1>1. ASSUME NEW dry \in BOOLEAN, NEW mode \in Modes, Start(dry, mode) PROVE IInv'
  BY <1>1, StartStep
<1>2. CASE ValidateTargets  BY <1>2, ValidateStep
<1>3. CASE SnapshotInceptionVault  BY <1>3, SnapshotStep
<1>4. CASE Visit  BY <1>4, VisitStep
<1>5. CASE ExportKey  BY <1>5, ExportStep
<1>6. CASE ImportKey  BY <1>6, ImportStep
<1>7. CASE ValidateSinglePath  BY <1>7, CheckStep
<1>8. CASE WalkDone  BY <1>8, WalkDoneStep
<1>9. CASE MigrateStepDecommission  BY <1>9, ConfirmStep
<1>10. CASE DecommissionInception  BY <1>10, DecommissionStep
<1>11. CASE UpdateEnvironmentSecrets  BY <1>11, UpdateStep
<1>12. CASE EnvironmentWrites  BY <1>12, EnvironmentStep
<1>13. CASE Kill  BY <1>13, KillStep
<1>14. CASE UNCHANGED vars
  <2>1. /\ inc' = inc /\ up' = up /\ files' = files /\ prod' = prod /\ snap' = snap /\ last' = last
        /\ writes' = writes /\ drys' = drys /\ faults' = faults /\ wiped' = wiped
        /\ hidden' = hidden /\ late' = late /\ result' = result /\ switched' = switched
        /\ broken' = broken /\ run' = run
    BY <1>14 DEF vars, counts, ghosts
  <2>2. TypeOK' /\ Phased' /\ Handed'
    BY <2>1 DEF IInv, TypeOK, Phased, Handed, Real, Slot
  <2>3. Walked'
    BY <2>1 DEF IInv, Walked, Streamed, Structured, Excused, Reaches, Todo, Real
  <2>4. Finished' /\ Faulted' /\ SnapKept'
    BY <2>1 DEF IInv, Finished, Copied, Excused, Faulted, Unread, SnapKept, Kept, Real
  <2> QED  BY <2>2, <2>3, <2>4 DEF IInv
<1> QED  BY <1>1, <1>2, <1>3, <1>4, <1>5, <1>6, <1>7, <1>8, <1>9, <1>10, <1>11, <1>12,
            <1>13, <1>14 DEF Next, RunStep

\* What is said of a vault that is gone stays true.
LEMMA SteadyEnded == ASSUME IInv, Ended, [Next]_vars PROVE Ended'
<1>1. IInv'
  BY Steady
<1>2. ASSUME NEW dry \in BOOLEAN, NEW mode \in Modes, Start(dry, mode) PROVE Ended'
  BY <1>1, <1>2, StartEnded
<1>3. ASSUME RunStep PROVE Ended'
  BY <1>1, <1>3, ValidateEnded, SnapshotEnded, VisitEnded, ExportEnded, ImportEnded, CheckEnded,
     WalkDoneEnded, ConfirmEnded, DecommissionEnded, UpdateEnded DEF RunStep
<1>4. CASE EnvironmentWrites \/ Kill
  BY <1>1, <1>4, EnvironmentEnded, KillEnded
<1>5. CASE UNCHANGED vars
  <2>1. UNCHANGED <<inc, up, files, prod, snap, last, faults, wiped, hidden, late, run>>
        /\ faults \in Nat
    BY <1>5 DEF vars, counts, ghosts, IInv, TypeOK
  <2>2. Hollow'
    BY <2>1 DEF Ended, Hollow, Unread, ItemSlot
  <2> QED  BY <1>1, <2>1, <2>2, GoneStays DEF Excused
<1> QED  BY <1>2, <1>3, <1>4, <1>5 DEF Next

THEOREM Invariance == Spec => [](IInv /\ Ended)
<1>1. Init => IInv /\ Ended
  <2>1. ASSUME Init PROVE Ended
    BY <2>1 DEF Init, Ended, Gone, Hollow, Whole
  <2> QED  BY <2>1, Starts
<1>2. IInv /\ Ended /\ [Next]_vars => (IInv /\ Ended)'
  BY Steady, SteadyEnded
<1> QED  BY <1>1, <1>2, PTL DEF Spec

\* The vaults, the run and the counts keep their types.
THEOREM Typing == Spec => []TypeOK
<1>1. IInv /\ Ended => TypeOK
  BY DEF IInv
<1> QED  BY <1>1, Invariance, PTL

\* However the tree, its contents, the failures, the kills and the writes of
\* the environments fall: when the inception vault is gone, production has
\* what it held last but for what was hidden, late or dropped, and no single
\* failure loses a secret (manager.go:decommissionInception).
THEOREM NoSecretLost == Spec => []SecretsSurvive
<1>1. IInv /\ Ended => CopiedBeforeGone
  <2> SUFFICES ASSUME IInv, Ended PROVE CopiedBeforeGone
    OBVIOUS
  <2>1. ~Whole => Copied(last, Excused)
    BY DEF Ended, Gone
  <2>2. run.pc = "decommission" /\ run.mode = "structured" => Copied(inc, hidden \cup late)
    BY DEF IInv, Phased, Finished, Real
  <2> QED  BY <2>1, <2>2 DEF CopiedBeforeGone, Excused
<1>2. IInv /\ Ended => OneFaultLosesNothing
  <2> SUFFICES ASSUME IInv, Ended, ~Whole, faults <= 1, NEW s \in Slots \ late, last[s] # None
               PROVE  last[s] \in {prod[s], snap[s]}
    BY DEF OneFaultLosesNothing
  <2>1. Copied(last, Excused) /\ Kept(last) /\ faults \in Nat
    BY DEF IInv, TypeOK, Ended, Gone
  <2>2. hidden = {} /\ wiped = {} => last[s] = prod[s]
    BY <2>1 DEF Copied, Excused
  <2> QED  BY <2>1, <2>2 DEF Kept
<1> QED  BY <1>1, <1>2, Invariance, PTL DEF SecretsSurvive
=============================================================================
