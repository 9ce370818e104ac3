-------------------------- MODULE BastionInitProofs --------------------------
(***************************************************************************)
(* What is proved about BastionInit, for every list of phases, any number  *)
(* of workers, failures, kills and rebuilds: the types, the checkpoint     *)
(* tells the truth, phases run in their order, a success means that the    *)
(* phases before the marker have run, and a dry run leaves the machine     *)
(* alone.                                                                  *)
(*                                                                         *)
(* The properties alone are not inductive: a save writes what it had       *)
(* marshalled before, so the snapshots have to be true as well; and a      *)
(* phase that is finished counts for the order only while none has failed. *)
(***************************************************************************)
EXTENDS BastionInit, TLAPS

Covered == done \cup hollow
Where == {"todo", "running", "ran", "broke", "writing", "finished"}

\* As much of the types as the argument needs.
Shape ==
  /\ at \in [Phase -> Where]
  /\ snapshot \in [Phase -> Progress]
  /\ progress \in Progress /\ file \in File /\ flags \in Flags
  /\ stage \in Nat \ {0}

\* Whatever may still be believed or written is covered.
Claims ==
  /\ file.kind = "whole" => file.saved.claims \subseteq Covered
  /\ progress.claims \subseteq Covered
  /\ \A p \in Phase : snapshot[p].claims \subseteq Covered
  /\ \A p \in Phase : at[p] = "ran" /\ ~flags.dry => p \in done

\* Nothing is under way outside the phases.
Quiet ==
  /\ pc # "work" => at = AllAt("todo")
  /\ pc = "idle" => progress = Fresh /\ snapshot = Nothing
  /\ pc \in {"idle", "connect", "gate"} => stage = 1 /\ ~failed

\* In a real run the stages gone by are covered, and so is what is finished
\* in this one until a phase fails; a dry run executes nothing.
Ordered ==
  /\ flags.dry => \A p \in Phase : at[p] \notin {"running", "broke"}
  /\ ~flags.dry /\ pc = "work" =>
       \A q \in Phase : (\E i \in 1..(stage - 1) : q \in Plan(flags.parallel)[i]) => q \in Covered
  /\ ~flags.dry /\ ~failed => \A p \in Phase : at[p] \in {"ran", "writing", "finished"} => p \in Covered
  /\ \A p \in Phase : at[p] = "broke" => failed

IInv == Shape /\ Claims /\ Quiet /\ Ordered

-----------------------------------------------------------------------------
(* The initial states and, action by action, the steps. *)

\* The constant records and functions have their types.
LEMMA Constants ==
  /\ Fresh \in Progress /\ Fresh.claims = {}
  /\ Absent \in File /\ Absent.kind = "absent"
  /\ Nothing \in [Phase -> Progress] /\ \A p \in Phase : Nothing[p] = Fresh
  /\ AllAt("todo") \in [Phase -> Where] /\ \A p \in Phase : AllAt("todo")[p] = "todo"
BY DEF Fresh, Progress, Absent, File, Nothing, AllAt, Where

\* The invariant holds at first: nothing is claimed and nothing runs.
LEMMA InitOK == Init => IInv
<1> SUFFICES ASSUME Init PROVE IInv
  OBVIOUS
<1>1. Shape
  BY Constants DEF Init, Shape, Flags
<1>2. Claims /\ Quiet /\ Ordered
  BY Constants DEF Init, Claims, Quiet, Ordered
<1> QED  BY <1>1, <1>2 DEF IInv

\* A run starts with the claims of a readable checkpoint, which are covered.
LEMMA StartOK == ASSUME IInv, NEW f \in Flags, Start(f) PROVE IInv'
<1>1. Shape'
  BY Constants DEF Start, File, Progress, IInv, Shape
<1>2. Claims'
  <2>1. progress'.claims \subseteq Covered
    BY Constants DEF Start, Loadable, IInv, Claims
  <2>2. Covered' = Covered /\ at' = at /\ snapshot' = snapshot /\ file' = file
    BY DEF Start, machine, Covered
  <2>3. \A p \in Phase : at[p] = "todo"
    BY Constants DEF Start, IInv, Quiet
  <2> QED  BY <2>1, <2>2, <2>3 DEF IInv, Claims
<1>3. Quiet'
  BY Constants DEF Start, File, Progress, IInv, Shape, Quiet
<1>4. Ordered'
  BY Constants DEF Start, File, Progress, IInv, Shape, Claims, Quiet, Ordered
<1> QED  BY <1>1, <1>2, <1>3, <1>4 DEF IInv

\* Connecting covers no less than before.
LEMMA ConnectOK == ASSUME IInv, Connect PROVE IInv'
<1>1. Shape'
  BY Constants DEF Connect, Exit, IInv, Shape
<1>2. Claims'
  BY Constants DEF Connect, Exit, IInv, Shape, Claims, Quiet, Covered
<1>3. Quiet'
  BY Constants DEF Connect, Exit, IInv, Shape, Quiet
<1>4. Ordered'
  BY Constants DEF Connect, Exit, IInv, Shape, Claims, Quiet, Ordered
<1> QED  BY <1>1, <1>2, <1>3, <1>4 DEF IInv

\* The gate ends the run or begins its first stage.
LEMMA GateOK == ASSUME IInv, Gate PROVE IInv'
<1>1. Shape'
  BY Constants DEF Gate, Exit, IInv, Shape
<1>2. Claims'
  BY Constants DEF Gate, Exit, machine, IInv, Shape, Claims, Quiet, Covered
<1>3. Quiet'
  BY Constants DEF Gate, Exit, IInv, Shape, Quiet
<1>4. Ordered'
  BY Constants DEF Gate, Exit, IInv, Shape, Claims, Quiet, Ordered
<1> QED  BY <1>1, <1>2, <1>3, <1>4 DEF IInv

\* A skipped phase is covered, because the claims are.
LEMMA SkipOK == ASSUME IInv, NEW p \in Tasks, Skip(p) PROVE IInv'
<1>0. p \in Phase /\ pc = "work"
  BY DEF Tasks
<1>1. Shape'
  BY <1>0 DEF Skip, ShouldSkipPhase, Progress, Where, IInv, Shape
<1>2. Claims'
  BY <1>0 DEF Skip, ShouldSkipPhase, Progress, machine, IInv, Shape, Claims, Covered
<1>3. Quiet'
  BY <1>0 DEF Skip, ShouldSkipPhase, Progress, IInv, Shape, Quiet
<1>4. Ordered'
  BY <1>0 DEF Skip, ShouldSkipPhase, Progress, machine, IInv, Shape, Claims, Ordered, Covered
<1> QED  BY <1>1, <1>2, <1>3, <1>4 DEF IInv

\* Only a real run, or a dry worker, goes on with a phase.
LEMMA BeginOK == ASSUME IInv, NEW p \in Tasks, Begin(p) PROVE IInv'
<1>0. p \in Phase /\ pc = "work"
  BY DEF Tasks
<1>1. Shape'
  BY <1>0 DEF Begin, Steps, Progress, Where, IInv, Shape
<1>2. Claims'
  BY <1>0 DEF Begin, Steps, Progress, machine, IInv, Shape, Claims, Covered
<1>3. Quiet'
  BY <1>0 DEF Begin, Steps, Progress, IInv, Shape, Quiet
<1>4. Ordered'
  BY <1>0 DEF Begin, Steps, Progress, machine, IInv, Shape, Claims, Ordered, Covered
<1> QED  BY <1>1, <1>2, <1>3, <1>4 DEF IInv

\* A phase that succeeds moves from the hollow ones to the real ones.
LEMMA SucceedOK == ASSUME IInv, NEW p \in Tasks, Succeed(p) PROVE IInv'
<1>0. p \in Phase /\ pc = "work"
  BY DEF Tasks
<1>1. Shape'
  BY <1>0 DEF Succeed, Where, IInv, Shape
<1>2. Claims'
  BY <1>0 DEF Succeed, IInv, Shape, Claims, Covered
<1>3. Quiet'
  BY <1>0 DEF Succeed, IInv, Shape, Quiet
<1>4. Ordered'
  BY <1>0 DEF Succeed, IInv, Shape, Claims, Ordered, Covered
<1> QED  BY <1>1, <1>2, <1>3, <1>4 DEF IInv

\* A phase that breaks covers nothing and stops the run after its stage.
LEMMA BreakOK == ASSUME IInv, NEW p \in Tasks, Break(p) PROVE IInv'
<1>0. p \in Phase /\ pc = "work"
  BY DEF Tasks
<1>1. Shape'
  BY <1>0 DEF Break, Where, IInv, Shape
<1>2. Claims'
  BY <1>0 DEF Break, IInv, Shape, Claims, Covered
<1>3. Quiet'
  BY <1>0 DEF Break, IInv, Shape, Quiet
<1>4. Ordered'
  BY <1>0 DEF Break, IInv, Shape, Claims, Ordered, Covered
<1> QED  BY <1>1, <1>2, <1>3, <1>4 DEF IInv

\* What is marked has run, or is hollow from now on.
LEMMA SaveOK == ASSUME IInv, NEW p \in Tasks, Save(p) PROVE IInv'
<1>0. p \in Phase /\ pc = "work"
  BY DEF Tasks
<1>1. Shape'
  <2>1. progress' \in Progress
    BY <1>0 DEF Save, MarkPhaseCompleted, Progress, IInv, Shape
  <2>2. snapshot' \in [Phase -> Progress]
    BY <1>0, <2>1 DEF Save, IInv, Shape
  <2>3. file' \in File
    BY Constants DEF Save, File, IInv, Shape
  <2> QED  BY <1>0, <2>1, <2>2, <2>3 DEF Save, Where, IInv, Shape
<1>2. Claims'
  BY <1>0, SMTT(30) DEF Save, MarkPhaseCompleted, File, Progress, Fresh, machine, IInv, Shape, Claims, Covered
<1>3. Quiet'
  BY <1>0 DEF Save, MarkPhaseCompleted, File, Progress, Fresh, IInv, Shape, Quiet
<1>4. Ordered'
  BY <1>0 DEF Save, MarkPhaseCompleted, File, Progress, Fresh, machine, IInv, Shape, Claims, Ordered, Covered
<1> QED  BY <1>1, <1>2, <1>3, <1>4 DEF IInv

\* What reaches the file was marshalled from claims that were covered.
LEMMA WriteOK == ASSUME IInv, NEW p \in Tasks, Write(p) PROVE IInv'
<1>0. p \in Phase /\ pc = "work"
  BY DEF Tasks
<1>1. Shape'
  BY <1>0 DEF Write, File, Progress, Fresh, Where, IInv, Shape
<1>2. Claims'
  BY <1>0 DEF Write, File, Progress, Fresh, machine, IInv, Shape, Claims, Covered
<1>3. Quiet'
  BY <1>0 DEF Write, File, Progress, Fresh, IInv, Shape, Quiet
<1>4. Ordered'
  BY <1>0 DEF Write, File, Progress, Fresh, machine, IInv, Shape, Claims, Ordered, Covered
<1> QED  BY <1>1, <1>2, <1>3, <1>4 DEF IInv

\* A stage is left with all its phases covered, or the run ends.
LEMMA NextStageOK == ASSUME IInv, NextStage PROVE IInv'
<1>1. Shape'
  BY Constants DEF NextStage, Proceed, Tasks, Exit, IInv, Shape
<1>2. Claims'
  BY Constants DEF NextStage, Proceed, Tasks, Exit, machine, IInv, Shape, Claims, Quiet, Covered
<1>3. Quiet'
  BY Constants DEF NextStage, Proceed, Tasks, Exit, IInv, Shape, Quiet
<1>4. Ordered'
  BY Constants DEF NextStage, Proceed, Tasks, Exit, machine, IInv, Shape, Claims, Quiet, Ordered, Covered
<1> QED  BY <1>1, <1>2, <1>3, <1>4 DEF IInv

\* The end of a run leaves nothing claimed.
LEMMA FinalizeOK == ASSUME IInv, Finalize PROVE IInv'
<1>1. Shape'
  BY Constants DEF Finalize, Exit, File, IInv, Shape
<1>2. Claims'
  BY Constants DEF Finalize, Exit, File, machine, IInv, Shape, Claims, Quiet, Covered
<1>3. Quiet'
  BY Constants DEF Finalize, Exit, File, IInv, Shape, Quiet
<1>4. Ordered'
  BY Constants DEF Finalize, Exit, File, IInv, Shape, Claims, Quiet, Ordered
<1> QED  BY <1>1, <1>2, <1>3, <1>4 DEF IInv

\* A killed run leaves the file as it was.
LEMMA KillOK == ASSUME IInv, Kill PROVE IInv'
<1>1. Shape'
  BY Constants DEF Kill, Exit, IInv, Shape
<1>2. Claims'
  BY Constants DEF Kill, Exit, machine, IInv, Shape, Claims, Quiet, Covered
<1>3. Quiet'
  BY Constants DEF Kill, Exit, IInv, Shape, Quiet
<1>4. Ordered'
  BY Constants DEF Kill, Exit, IInv, Shape, Claims, Quiet, Ordered
<1> QED  BY <1>1, <1>2, <1>3, <1>4 DEF IInv

\* The claims about the old machine are hollow from now on.
LEMMA RebuildOK == ASSUME IInv, Rebuild PROVE IInv'
<1>1. Shape'
  BY Constants DEF Rebuild, IInv, Shape
<1>2. Claims'
  BY Constants DEF Rebuild, IInv, Shape, Claims, Quiet, Covered
<1>3. Quiet'
  BY Constants DEF Rebuild, IInv, Shape, Quiet
<1>4. Ordered'
  BY Constants DEF Rebuild, IInv, Shape, Claims, Quiet, Ordered
<1> QED  BY <1>1, <1>2, <1>3, <1>4 DEF IInv

\* Every step keeps the invariant.
LEMMA StepOK == IInv /\ [Next]_vars => IInv'
<1> SUFFICES ASSUME IInv, [Next]_vars PROVE IInv'
  OBVIOUS
<1>1. ASSUME NEW f \in Flags, Start(f) PROVE IInv'
  BY <1>1, StartOK
<1>2. ASSUME NEW p \in Tasks, Work(p) PROVE IInv'
  BY <1>2, SkipOK, BeginOK, SucceedOK, BreakOK, SaveOK, WriteOK DEF Work
<1>3. CASE Step
  BY <1>2, <1>3, ConnectOK, GateOK, NextStageOK, FinalizeOK DEF Step
<1>4. CASE Kill
  BY <1>4, KillOK
<1>5. CASE Rebuild
  BY <1>5, RebuildOK
<1>6. CASE UNCHANGED vars
  BY <1>6 DEF vars, machine, command, IInv, Shape, Claims, Quiet, Ordered, Covered
<1> QED  BY <1>1, <1>3, <1>4, <1>5, <1>6 DEF Next

\* The invariant holds in every reachable state.
LEMMA Invariant == Spec => []IInv
BY InitOK, StepOK, PTL DEF Spec

-----------------------------------------------------------------------------
(* The plans. *)

List == Pre \o Batch \o Post
All == Keys \o Pre \o Batch \o Post
Stages == Plan(TRUE)
Positions == Plan(FALSE)

\* The lengths of the parts.
K == Len(Keys)
P == Len(Pre)
B == Len(Batch)
Q == Len(Post)

\* The phases before the marker's in the list.
PreMarker == {List[i] : i \in {k \in DOMAIN List : \E j \in DOMAIN List : k < j /\ List[j] = MarkerPhase}}

\* What the lists are, place by place.
LEMMA Lengths == K \in Nat /\ P \in Nat /\ B \in Nat /\ Q \in Nat
BY PhaseAssumption DEF K, P, B, Q

\* The list of phases, place by place: what comes before the batch, the batch, the rest.
LEMMA ListPlaces ==
  /\ DOMAIN List = 1 .. (P + B + Q) /\ Len(List) = P + B + Q /\ List \in Seq(Phase)
  /\ \A i \in 1 .. (P + B + Q) :
       List[i] = IF i <= P THEN Pre[i] ELSE IF i <= P + B THEN Batch[i - P] ELSE Post[i - P - B]
BY PhaseAssumption DEF List, P, B, Q

\* The same with the phases that provision the keys in front.
LEMMA AllPlaces ==
  /\ DOMAIN All = 1 .. (K + P + B + Q)
  /\ \A i \in 1 .. (K + P + B + Q) :
       All[i] = IF i <= K THEN Keys[i] ELSE IF i <= K + P THEN Pre[i - K]
                ELSE IF i <= K + P + B THEN Batch[i - K - P] ELSE Post[i - K - P - B]
BY PhaseAssumption DEF All, K, P, B, Q

\* The elements of a concatenation.
LEMMA Concatenation ==
  ASSUME NEW S, NEW a \in Seq(S), NEW b \in Seq(S)
  PROVE  /\ Len(a \o b) = Len(a) + Len(b)
         /\ \A i \in 1 .. (Len(a) + Len(b)) :
              (a \o b)[i] = IF i <= Len(a) THEN a[i] ELSE b[i - Len(a)]
OBVIOUS

\* Stages of one phase each are as many as the phases.
LEMMA SinglesSeq ==
  ASSUME NEW s \in Seq(Phase)
  PROVE  /\ Singles(s) \in Seq(SUBSET Phase) /\ Len(Singles(s)) = Len(s)
         /\ \A i \in 1 .. Len(s) : Singles(s)[i] = {s[i]}
<1> DEFINE n == Len(s)
<1>1. n \in Nat /\ DOMAIN s = 1 .. n /\ \A i \in 1 .. n : s[i] \in Phase
  OBVIOUS
<1>2. Singles(s) = [i \in 1 .. n |-> {s[i]}]
  BY <1>1 DEF Singles
<1>3. Singles(s) \in [1 .. n -> SUBSET Phase]
  BY <1>1, <1>2
<1> QED  BY <1>1, <1>2, <1>3

\* What the plans are, stage by stage.
LEMMA PositionsPlaces ==
  Len(Positions) = P + B + Q /\ \A s \in 1 .. (P + B + Q) : Positions[s] = {List[s]}
<1>1. Positions = Singles(List)
  BY DEF Plan, List, Positions
<1> QED  BY <1>1, ListPlaces, SinglesSeq

\* The stages of a parallel run, place by place.
LEMMA StagesPlaces ==
  /\ Len(Stages) = K + P + 1 + Q
  /\ \A s \in 1 .. (K + P + 1 + Q) :
       Stages[s] = IF s <= K THEN {Keys[s]} ELSE IF s <= K + P THEN {Pre[s - K]}
                   ELSE IF s = K + P + 1 THEN Elements(Batch) ELSE {Post[s - K - P - 1]}
<1> DEFINE kp == Keys \o Pre
           b == Elements(Batch)
<1>1. Keys \in Seq(Phase) /\ Pre \in Seq(Phase) /\ Batch \in Seq(Phase) /\ Post \in Seq(Phase)
  BY PhaseAssumption
<1>2. /\ kp \in Seq(Phase) /\ Len(kp) = K + P
      /\ \A i \in 1 .. (K + P) : kp[i] = IF i <= K THEN Keys[i] ELSE Pre[i - K]
  BY <1>1 DEF K, P
<1>3. b \subseteq Phase
  BY <1>1 DEF Elements
<1>4. Stages = Singles(kp) \o <<b>> \o Singles(Post)
  BY DEF Plan, Stages
<1> HIDE DEF kp, b
<1> DEFINE front == Singles(kp)
           back == Singles(Post)
<1>5. /\ front \in Seq(SUBSET Phase) /\ Len(front) = K + P
      /\ \A i \in 1 .. (K + P) : front[i] = {kp[i]}
  BY <1>2, SinglesSeq
<1>6. /\ back \in Seq(SUBSET Phase) /\ Len(back) = Q
      /\ \A i \in 1 .. Q : back[i] = {Post[i]}
  BY <1>1, SinglesSeq DEF Q
<1>7. Stages = front \o <<b>> \o back
  BY <1>4
<1> HIDE DEF front, back
<1> DEFINE mid == front \o <<b>>
<1>8. /\ mid \in Seq(SUBSET Phase) /\ Len(mid) = K + P + 1
      /\ \A i \in 1 .. (K + P) : mid[i] = front[i]
      /\ mid[K + P + 1] = b
  BY <1>3, <1>5, Lengths
<1>9. Stages = mid \o back
  BY <1>7
<1> HIDE DEF mid
<1>10. /\ Len(Stages) = K + P + 1 + Q
       /\ \A i \in 1 .. (K + P + 1 + Q) :
            Stages[i] = IF i <= K + P + 1 THEN mid[i] ELSE back[i - K - P - 1]
  <2>1. /\ Len(Stages) = Len(mid) + Len(back)
        /\ \A i \in 1 .. (Len(mid) + Len(back)) :
             Stages[i] = IF i <= Len(mid) THEN mid[i] ELSE back[i - Len(mid)]
    <3>1. mid \in Seq(SUBSET Phase) /\ back \in Seq(SUBSET Phase)
      BY <1>6, <1>8
    <3>2. /\ Len(mid \o back) = Len(mid) + Len(back)
          /\ \A i \in 1 .. (Len(mid) + Len(back)) :
               (mid \o back)[i] = IF i <= Len(mid) THEN mid[i] ELSE back[i - Len(mid)]
      BY <3>1, Concatenation, Zenon
    <3> QED  BY <1>9, <3>2, Zenon
  <2>2. \A i \in 1 .. (K + P + 1 + Q) : i - (K + P + 1) = i - K - P - 1
    BY Lengths
  <2> QED  BY <1>6, <1>8, <2>1, <2>2, Lengths
<1>11. ASSUME NEW s \in 1 .. (K + P + 1 + Q)
       PROVE  Stages[s] = IF s <= K THEN {Keys[s]} ELSE IF s <= K + P THEN {Pre[s - K]}
                          ELSE IF s = K + P + 1 THEN b ELSE {Post[s - K - P - 1]}
  <2>1. CASE s <= K + P
    <3>1. Stages[s] = {kp[s]}
      BY <1>5, <1>8, <1>10, <2>1, Lengths
    <3> QED  BY <1>2, <2>1, <3>1, Lengths
  <2>2. CASE s = K + P + 1
    BY <1>8, <1>10, <2>2, Lengths
  <2>3. CASE s > K + P + 1
    <3>1. s - K - P - 1 \in 1 .. Q
      BY <2>3, Lengths
    <3> QED  BY <1>6, <1>10, <2>3, <3>1, Lengths
  <2> QED  BY <2>1, <2>2, <2>3, Lengths
<1> QED  BY <1>10, <1>11 DEF b

\* The marker's phase is one of the last part, and nowhere else.
LEMMA MarkerPlace ==
  \E m \in 1 .. Q : \A i \in 1 .. (K + P + B + Q) : All[i] = MarkerPhase => i = K + P + B + m
<1>1. PICK m \in 1 .. Q : Post[m] = MarkerPhase
  BY PhaseAssumption DEF Elements, Q
<1> DEFINE n == K + P + B + m
<1>2. n \in 1 .. (K + P + B + Q) /\ All[n] = MarkerPhase
  BY <1>1, AllPlaces, Lengths
<1>3. \A i, j \in 1 .. (K + P + B + Q) : All[i] = All[j] => i = j
  BY AllPlaces, PhaseAssumption DEF All
<1> QED  BY <1>2, <1>3

\* The marker is one phase of the last part, in both plans.
LEMMA MarkerPosition ==
  \E m \in 1 .. Q :
    /\ \A j \in 1 .. (P + B + Q) : List[j] = MarkerPhase => j = P + B + m
    /\ \A s \in 1 .. (K + P + 1 + Q) : MarkerPhase \in Stages[s] => s = K + P + 1 + m
<1>1. PICK m \in 1 .. Q : \A i \in 1 .. (K + P + B + Q) : All[i] = MarkerPhase => i = K + P + B + m
  BY MarkerPlace
<1>2. ASSUME NEW j \in 1 .. (P + B + Q), List[j] = MarkerPhase PROVE j = P + B + m
  <2>1. K + j \in 1 .. (K + P + B + Q) /\ All[K + j] = List[j]
    BY AllPlaces, ListPlaces, Lengths
  <2> QED  BY <1>1, <1>2, <2>1, Lengths
<1>3. ASSUME NEW s \in 1 .. (K + P + 1 + Q), MarkerPhase \in Stages[s] PROVE s = K + P + 1 + m
  <2>1. CASE s <= K + P
    <3>1. s \in 1 .. (K + P + B + Q) /\ All[s] = MarkerPhase
      BY <1>3, <2>1, StagesPlaces, AllPlaces, Lengths
    <3> QED  BY <1>1, <2>1, <3>1, Lengths
  <2>2. CASE s = K + P + 1
    <3>1. MarkerPhase \in Elements(Batch)
      BY <1>3, <2>2, StagesPlaces, Lengths
    <3>2. PICK i \in 1 .. B : Batch[i] = MarkerPhase
      BY <3>1, PhaseAssumption DEF Elements, B
    <3>3. K + P + i \in 1 .. (K + P + B + Q) /\ All[K + P + i] = MarkerPhase
      BY <3>2, AllPlaces, Lengths, SMTT(30)
    <3> QED  BY <1>1, <3>2, <3>3, Lengths
  <2>3. CASE s > K + P + 1
    <3>1. s + B - 1 \in 1 .. (K + P + B + Q) /\ s + B - 1 > K + P + B
      BY <2>3, Lengths
    <3>2. All[s + B - 1] = MarkerPhase
      BY <1>3, <2>3, <3>1, StagesPlaces, AllPlaces, Lengths
    <3> QED  BY <1>1, <2>3, <3>1, <3>2, Lengths
  <2> QED  BY <2>1, <2>2, <2>3, Lengths
<1> QED  BY <1>2, <1>3

\* A phase of the list before place j + 1 is in an early stage.
LEMMA Staged ==
  ASSUME NEW i \in 1 .. (P + B + Q)
  PROVE  \E s \in 1 .. (K + P + 1 + Q) :
           List[i] \in Stages[s] /\ s <= K + P + 1 + (IF i <= P + B THEN 0 ELSE i - P - B)
<1>1. CASE i <= P
  <2>1. K + i \in 1 .. (K + P + 1 + Q) /\ ~(K + i <= K) /\ K + i <= K + P /\ (K + i) - K = i
    BY <1>1, Lengths
  <2>2. Stages[K + i] = {Pre[i]} /\ List[i] = Pre[i]
    BY <1>1, <2>1, ListPlaces, StagesPlaces
  <2> QED  BY <1>1, <2>1, <2>2, Lengths
<1>2. CASE i > P /\ i <= P + B
  <2>1. List[i] \in Elements(Batch)
    <3>1. i - P \in 1 .. B /\ List[i] = Batch[i - P]
      BY <1>2, ListPlaces, Lengths
    <3> QED  BY <3>1, PhaseAssumption DEF Elements, B
  <2>2. K + P + 1 \in 1 .. (K + P + 1 + Q) /\ Stages[K + P + 1] = Elements(Batch)
    BY StagesPlaces, Lengths
  <2> QED  BY <1>2, <2>1, <2>2, Lengths
<1>3. CASE i > P + B
  <2>1. /\ K + 1 + i - B \in 1 .. (K + P + 1 + Q)
        /\ Stages[K + 1 + i - B] = {List[i]}
    <3>1. List[i] = Post[i - P - B] /\ i - P - B \in 1 .. Q
      BY <1>3, ListPlaces, Lengths
    <3>2. Stages[K + P + 1 + (i - P - B)] = {Post[i - P - B]}
      BY <3>1, StagesPlaces, Lengths
    <3>3. K + P + 1 + (i - P - B) = K + 1 + i - B
      BY Lengths
    <3> QED  BY <3>1, <3>2, <3>3, Lengths
  <2> QED  BY <1>3, <2>1, Lengths
<1> QED  BY <1>1, <1>2, <1>3, Lengths

\* In either mode what the list has before the marker's phase runs in an earlier
\* stage than the marker's.
LEMMA PlanOrder ==
  ASSUME NEW parallel \in BOOLEAN, NEW q \in PreMarker
  PROVE  /\ q \in Phase
         /\ \E i \in 1 .. Len(Plan(parallel)) : q \in Plan(parallel)[i]
         /\ \A s \in 1 .. Len(Plan(parallel)) : MarkerPhase \in Plan(parallel)[s] =>
              \E i \in 1 .. (s - 1) : q \in Plan(parallel)[i]
<1>1. PICK i \in 1 .. (P + B + Q), j \in 1 .. (P + B + Q) : q = List[i] /\ i < j /\ List[j] = MarkerPhase
  BY ListPlaces DEF PreMarker
<1>2. PICK m \in 1 .. Q :
        /\ \A l \in 1 .. (P + B + Q) : List[l] = MarkerPhase => l = P + B + m
        /\ \A s \in 1 .. (K + P + 1 + Q) : MarkerPhase \in Stages[s] => s = K + P + 1 + m
  BY MarkerPosition
<1>3. j = P + B + m
  BY <1>1, <1>2
<1>4. q \in Phase
  BY <1>1, ListPlaces, Lengths
<1>5. CASE parallel = TRUE
  <2>1. PICK s \in 1 .. (K + P + 1 + Q) : q \in Stages[s] /\ s < K + P + 1 + m
    BY <1>1, <1>3, Staged, Lengths
  <2>2. s \in 1 .. (K + P + 1 + m - 1)
    BY <2>1, Lengths
  <2>3. Plan(parallel) = Stages
    BY <1>5 DEF Stages
  <2> QED  BY <1>2, <1>4, <2>1, <2>2, <2>3, StagesPlaces
<1>6. CASE parallel = FALSE
  <2>1. Plan(parallel) = Positions
    BY <1>6 DEF Positions
  <2>2. \A s \in 1 .. (P + B + Q) : MarkerPhase \in Positions[s] => s = j
    BY <1>2, <1>3, PositionsPlaces
  <2>3. i \in 1 .. (j - 1) /\ q \in Positions[i]
    BY <1>1, PositionsPlaces, Lengths
  <2> QED  BY <1>1, <1>4, <2>1, <2>2, <2>3, PositionsPlaces
<1> QED  BY <1>5, <1>6

-----------------------------------------------------------------------------
(* The types. *)

\* Either plan has a stage to start with.
LEMMA PlanLength == \A parallel \in BOOLEAN : Len(Plan(parallel)) \in Nat \ {0}
<1>1. Q # 0
  BY PhaseAssumption DEF Elements, Q
<1>2. Len(Stages) \in Nat \ {0} /\ Len(Positions) \in Nat \ {0}
  BY <1>1, StagesPlaces, PositionsPlaces, Lengths
<1> QED  BY <1>2 DEF Stages, Positions

\* A record of three flags has its type.
LEMMA Markers ==
  \A b, h, m \in BOOLEAN :
    [os |-> b, home |-> h, mounted |-> m] \in [os : BOOLEAN, home : BOOLEAN, mounted : BOOLEAN]
BY Zenon

\* A machine that is new has its types.
LEMMA InitTyped == Init => TypeOK
<1> SUFFICES ASSUME Init PROVE TypeOK
  OBVIOUS
<1>1. flags \in Flags /\ stage \in 1 .. Len(Plan(flags.parallel))
  <2>1. flags \in Flags
    <3>1. flags = [parallel |-> FALSE, resume |-> FALSE, dry |-> FALSE]
      BY DEF Init
    <3> QED  BY <3>1, Zenon DEF Flags
  <2>2. flags.parallel \in BOOLEAN /\ stage = 1
    BY <2>1 DEF Init, Flags
  <2> QED  BY <2>1, <2>2, PlanLength
<1>2. 0 \in 0 .. MaxFaults /\ 0 \in 0 .. MaxRebuilds
  BY PhaseAssumption
<1>3. marker \in [os : BOOLEAN, home : BOOLEAN, mounted : BOOLEAN]
  <2>1. \E b \in BOOLEAN : marker = [os |-> FALSE, home |-> b, mounted |-> FALSE]
    BY DEF Init
  <2> QED  BY <2>1, Markers
<1>4. done \subseteq Phase
  BY DEF Init
<1> QED  BY <1>1, <1>2, <1>3, <1>4, Constants DEF Init, TypeOK, Where

\* A step that may fail stays within the bound.
LEMMA FaultTyped == ASSUME TypeOK, Fault \/ NoFault PROVE faults' \in 0 .. MaxFaults
BY PhaseAssumption DEF TypeOK, Fault, NoFault

\* The end of a run resets what belongs to it.
LEMMA ExitTyped ==
  ASSUME TypeOK, NEW how \in {"none", "success", "failure", "dry"}, Exit(how),
         done' \subseteq Phase, hollow' \subseteq Phase, UNCHANGED <<marker, rebuilds>>,
         file' \in File, Fault \/ NoFault
  PROVE  TypeOK'
<1>1. flags.parallel \in BOOLEAN
  BY DEF TypeOK, Flags
<1>2. stage' \in 1 .. Len(Plan(flags'.parallel))
  BY <1>1, PlanLength DEF Exit
<1> QED  BY <1>2, Constants, FaultTyped DEF Exit, TypeOK, Where

\* No step of a phase leaves the types.
LEMMA WorkTyped == ASSUME TypeOK, NEW p \in Phase, Work(p) PROVE TypeOK'
<1>1. UNCHANGED <<flags, pc, stage, report, rebuilds>> /\ faults' \in 0 .. MaxFaults
  BY FaultTyped DEF Work, Skip, Begin, Succeed, Break, Save, Write, machine
<1>2. at' \in [Phase -> Where]
  BY DEF Work, Skip, Begin, Succeed, Break, Save, Write, TypeOK, Where
<1>3. progress' \in Progress
  <2>1. stage - 1 \in Nat
    BY PlanLength DEF TypeOK, Flags
  <2>2. Steps \in Nat
    BY <2>1 DEF Steps, TypeOK, Progress
  <2> QED
    BY <2>2 DEF Work, Skip, Begin, Succeed, Break, Save, Write, MarkPhaseCompleted, Progress, TypeOK
<1>4. snapshot' \in [Phase -> Progress]
  BY <1>3, Constants DEF Work, Skip, Begin, Succeed, Break, Save, Write, TypeOK
<1>5. file' \in File
  <2>1. CASE Save(p) \/ Write(p)
    BY <2>1, Constants DEF Save, Write, File, TypeOK
  <2>2. CASE UNCHANGED file
    BY <2>2 DEF TypeOK
  <2> QED  BY <2>1, <2>2 DEF Work, Skip, Begin, Succeed, Break
<1>6. done' \subseteq Phase /\ hollow' \subseteq Phase
  BY DEF Work, Skip, Begin, Succeed, Break, Save, Write, machine, TypeOK
<1>7. marker' \in [os : BOOLEAN, home : BOOLEAN, mounted : BOOLEAN] /\ failed' \in BOOLEAN
  <2>1. marker' = marker \/ \E b \in BOOLEAN : marker' = [marker EXCEPT !.os = b]
    BY DEF Work, Skip, Begin, Succeed, Break, Save, Write, machine, TypeOK
  <2>2. failed' = failed \/ failed' = TRUE
    BY DEF Work, Skip, Begin, Succeed, Break, Save, Write
  <2> QED  BY <2>1, <2>2 DEF TypeOK
<1> QED  BY <1>1, <1>2, <1>3, <1>4, <1>5, <1>6, <1>7 DEF TypeOK, Where

\* No step at all leaves the types.
LEMMA NextTyped == ASSUME TypeOK, [Next]_vars PROVE TypeOK'
<1>1. ASSUME NEW f \in Flags, Start(f) PROVE TypeOK'
  <2>1. stage' \in 1 .. Len(Plan(flags'.parallel))
    BY <1>1, PlanLength DEF Start, Flags
  <2>2. progress' \in Progress
    BY <1>1, Constants DEF Start, File, TypeOK
  <2> QED  BY <1>1, <2>1, <2>2, FaultTyped DEF Start, machine, TypeOK
<1>2. CASE Connect
  <2>1. done' \subseteq Phase /\ hollow' \subseteq Phase /\ UNCHANGED <<marker, rebuilds, file>>
    BY <1>2, PhaseAssumption DEF Connect, TypeOK, Elements
  <2>2. CASE Exit("failure")
    BY <1>2, <2>1, <2>2, ExitTyped DEF Connect, TypeOK
  <2>3. CASE UNCHANGED <<flags, stage, progress, at, snapshot, failed, report>>
    BY <1>2, <2>1, <2>3, FaultTyped DEF Connect, Exit, TypeOK
  <2> QED  BY <1>2, <2>2, <2>3 DEF Connect
<1>3. CASE Gate
  <2>1. CASE Exit("success")
    BY <1>3, <2>1, ExitTyped DEF Gate, machine, TypeOK
  <2>2. CASE pc' = "work" /\ UNCHANGED <<flags, stage, progress, at, snapshot, failed, report>>
    BY <1>3, <2>2, FaultTyped DEF Gate, machine, TypeOK
  <2> QED  BY <1>3, <2>1, <2>2 DEF Gate
<1>4. ASSUME NEW p \in Tasks, Work(p) PROVE TypeOK'
  BY <1>4, WorkTyped DEF Tasks
<1>5. CASE NextStage
  <2>1. CASE Exit("failure")
    BY <1>5, <2>1, ExitTyped DEF NextStage, machine, TypeOK
  <2>2. CASE Proceed /\ UNCHANGED <<flags, progress, snapshot, report>>
    <3>1. /\ stage' \in 1 .. Len(Plan(flags.parallel)) /\ pc' \in {"finalize", "work"}
          /\ at' = AllAt("todo") /\ failed' = FALSE /\ UNCHANGED flags
      BY <1>5, <2>2, PlanLength DEF NextStage, Exit, TypeOK, Flags
    <3> QED  BY <1>5, <2>2, <3>1, Constants, FaultTyped DEF NextStage, machine, TypeOK, Where
  <2> QED  BY <1>5, <2>1, <2>2 DEF NextStage
<1>6. CASE Finalize
  BY <1>6, ExitTyped, Constants DEF Finalize, machine, TypeOK
<1>7. CASE Kill
  BY <1>7, ExitTyped DEF Kill, machine, TypeOK
<1>8. CASE Rebuild
  <2>1. rebuilds' \in 0 .. MaxRebuilds
    BY <1>8, PhaseAssumption DEF Rebuild, TypeOK
  <2>2. marker' \in [os : BOOLEAN, home : BOOLEAN, mounted : BOOLEAN]
    <3>1. marker.home \in BOOLEAN
      BY DEF TypeOK
    <3>2. \E b, m \in BOOLEAN : marker' = [os |-> FALSE, home |-> b, mounted |-> m]
      BY <1>8, <3>1 DEF Rebuild
    <3> QED  BY <3>2, Markers
  <2>3. hollow' \subseteq Phase
    BY <1>8 DEF Rebuild, TypeOK, File, Progress
  <2> QED  BY <1>8, <2>1, <2>2, <2>3, FaultTyped DEF Rebuild, TypeOK
<1>9. CASE UNCHANGED vars
  BY <1>9 DEF vars, machine, command, TypeOK
<1> QED  BY <1>1, <1>2, <1>3, <1>4, <1>5, <1>6, <1>7, <1>8, <1>9 DEF Next, Step

-----------------------------------------------------------------------------
(* The marker. *)

\* A marker that counts, a reported success and a run about to report one each
\* mean that what comes before the marker is covered.
Sound ==
  Provisioned \/ report = "success" \/ (pc = "finalize" /\ ~flags.dry) => PreMarker \subseteq Covered

\* A step that covers no less, brings no marker and ends no run in success.
LEMMA NoNews ==
  ASSUME Sound, Covered \subseteq Covered', Provisioned' => Provisioned,
         report' = "success" => report = "success" \/ Provisioned \/ (pc = "finalize" /\ ~flags.dry),
         pc' = "finalize" /\ ~flags'.dry => pc = "finalize" /\ ~flags.dry
  PROVE  Sound'
BY DEF Sound, PreMarker

\* Nor does a phase claim to be finished that is not, or undo one that is.
LEMMA WorkSound == ASSUME IInv, TypeOK, Sound, NEW p \in Tasks, Work(p) PROVE Sound'
<1>1. p \in Phase /\ pc = "work" /\ p \in Plan(flags.parallel)[stage]
  BY DEF Tasks
<1>2. Covered \subseteq Covered' /\ UNCHANGED <<pc, flags, report>>
  BY DEF Work, Skip, Begin, Succeed, Break, Save, Write, machine, Covered
<1>3. CASE p = MarkerPhase /\ (Succeed(p) \/ Break(p))
  <2>1. ~flags.dry
    BY <1>1, <1>3 DEF Succeed, Break, IInv, Ordered
  <2>2. ASSUME NEW q \in PreMarker PROVE q \in Covered
    <3>1. flags.parallel \in BOOLEAN /\ stage \in 1 .. Len(Plan(flags.parallel))
      BY DEF TypeOK, Flags
    <3>2. q \in Phase /\ \E i \in 1 .. (stage - 1) : q \in Plan(flags.parallel)[i]
      BY <1>1, <1>3, <3>1, PlanOrder
    <3> QED  BY <1>1, <2>1, <3>2 DEF IInv, Ordered
  <2> QED  BY <1>2, <2>2 DEF Sound, PreMarker
<1>4. CASE ~(p = MarkerPhase /\ (Succeed(p) \/ Break(p)))
  <2>1. Provisioned' => Provisioned
    BY <1>4 DEF Work, Skip, Begin, Succeed, Break, Save, Write, machine, Provisioned, TypeOK
  <2> QED  BY <1>2, <2>1, NoNews
<1> QED  BY <1>3, <1>4

\* After the last stage everything in the plan is covered.
LEMMA StageSound == ASSUME IInv, TypeOK, Sound, NextStage PROVE Sound'
<1>1. Covered' = Covered /\ Provisioned' = Provisioned
  BY DEF NextStage, machine, Covered, Provisioned
<1>2. CASE pc' = "finalize" /\ ~flags'.dry
  <2>1. /\ pc = "work" /\ ~failed /\ flags' = flags /\ ~flags.dry
        /\ ~(stage < Len(Plan(flags.parallel)))
        /\ \A p \in Tasks : at[p] = "finished"
    BY <1>2 DEF NextStage, Exit, Proceed
  <2>2. flags.parallel \in BOOLEAN /\ stage = Len(Plan(flags.parallel))
    BY <2>1, PlanLength DEF TypeOK, Flags
  <2>3. ASSUME NEW q \in PreMarker PROVE q \in Covered
    <3>1. q \in Phase /\ \E i \in 1 .. stage : q \in Plan(flags.parallel)[i]
      BY <2>2, PlanOrder
    <3>2. CASE q \in Plan(flags.parallel)[stage]
      <4>1. at[q] = "finished"
        BY <2>1, <3>1, <3>2 DEF Tasks
      <4> QED  BY <2>1, <3>1, <4>1 DEF IInv, Ordered
    <3>3. CASE \E i \in 1 .. (stage - 1) : q \in Plan(flags.parallel)[i]
      BY <2>1, <3>1, <3>3 DEF IInv, Ordered
    <3>4. stage \in Nat
      BY DEF IInv, Shape
    <3> QED  BY <3>1, <3>2, <3>3, <3>4
  <2> QED  BY <1>1, <2>3 DEF Sound, PreMarker
<1>3. CASE ~(pc' = "finalize" /\ ~flags'.dry)
  BY <1>1, <1>3, NoNews DEF NextStage, Exit
<1> QED  BY <1>2, <1>3

\* No step makes the marker speak of what is not there.
LEMMA NextSound == ASSUME IInv, TypeOK, Sound, [Next]_vars PROVE Sound'
<1>1. ASSUME NEW f \in Flags, Start(f) PROVE Sound'
  BY <1>1, NoNews DEF Start, machine, Covered, Provisioned
<1>2. CASE Connect
  BY <1>2, NoNews DEF Connect, Exit, Covered, Provisioned
<1>3. CASE Gate
  BY <1>3, NoNews DEF Gate, Exit, machine, Covered, Provisioned
<1>4. CASE Finalize
  <2>1. Covered' = Covered /\ Provisioned' = Provisioned /\ pc = "finalize" /\ pc' = "idle"
        /\ report' = (IF flags.dry THEN "dry" ELSE "success")
    BY <1>4 DEF Finalize, Exit, machine, Covered, Provisioned
  <2> QED  BY <2>1, NoNews
<1>5. CASE Kill
  BY <1>5, NoNews DEF Kill, Exit, machine, Covered, Provisioned
<1>6. CASE Rebuild
  <2>1. ~Provisioned' /\ report' = "none" /\ pc' = "idle"
    BY <1>6 DEF Rebuild, Provisioned
  <2> QED  BY <2>1 DEF Sound
<1>7. CASE UNCHANGED vars
  BY <1>7, NoNews DEF vars, machine, command, Covered, Provisioned
<1> QED  BY <1>1, <1>2, <1>3, <1>4, <1>5, <1>6, <1>7, WorkSound, StageSound DEF Next, Step

\* At first the marker is there only on a machine that has had every phase.
LEMMA InitSound == Init => Sound
<1> SUFFICES ASSUME Init PROVE Sound
  OBVIOUS
<1>1. PreMarker \subseteq Phase
  BY ListPlaces DEF PreMarker
<1> QED  BY <1>1 DEF Init, Sound, Provisioned, Covered

-----------------------------------------------------------------------------
(* The theorems. *)

\* Concurrent saves, failed saves and kills never make a checkpoint claim a
\* phase that has not run, dry runs and rebuilds apart (CheckpointManager).
THEOREM CheckpointTruth == Spec => []ClaimsAreTrue
<1>1. IInv => ClaimsAreTrue
  BY DEF IInv, Claims, ClaimsAreTrue, Covered
<1> QED  BY <1>1, Invariant, PTL

\* A phase runs only after the phases listed before it, in either mode and
\* from any checkpoint (executeSequentialPhases, executeParallelPhases).
THEOREM PhaseOrder == Spec => OrderKept
<1>1. IInv /\ [Next]_vars =>
        [\A p \in Phase : at[p] = "running" /\ at'[p] = "ran" => Before(p) \subseteq done \cup hollow]_vars
  <2> SUFFICES ASSUME IInv, NEW p \in Phase, at[p] = "running", at'[p] = "ran"
               PROVE  Before(p) \subseteq done \cup hollow
    OBVIOUS
  <2>1. ~flags.dry /\ pc = "work"
    BY Constants DEF IInv, Shape, Ordered, Quiet
  <2> QED  BY <2>1 DEF IInv, Ordered, Before, Covered
<1> QED  BY <1>1, Invariant, PTL DEF Spec, OrderKept

\* A dry run does nothing to the machine, on the workers either (phaseWorker).
THEOREM DryRun == Spec => DryRunChangesNothing
<1>1. IInv /\ [Next]_vars => [pc # "idle" /\ flags.dry => UNCHANGED machine]_vars
  <2> SUFFICES ASSUME IInv, Next, pc # "idle", flags.dry PROVE UNCHANGED machine
    BY DEF vars
  <2>1. \A p \in Phase : at[p] \notin {"running", "broke"}
    BY DEF IInv, Ordered
  <2>2. ASSUME NEW p \in Tasks, Work(p) PROVE UNCHANGED machine
    BY <2>1, <2>2 DEF Tasks, Work, Skip, Begin, Succeed, Break, Save, Write
  <2>3. CASE Step
    BY <2>2, <2>3 DEF Step, Connect, Gate, NextStage, Finalize, Exit, machine
  <2>4. CASE Kill
    BY <2>4 DEF Kill
  <2> QED  BY <2>3, <2>4 DEF Next, Start, Rebuild
<1> QED  BY <1>1, Invariant, PTL DEF Spec, DryRunChangesNothing

\* The variables have the types BastionInit declares: a run of either mode never
\* goes past the last stage of its plan.
THEOREM Typing == Spec => []TypeOK
BY InitTyped, NextTyped, PTL DEF Spec

\* A success, by phases or by marker, is of a machine on which all that the list
\* has before the marker has run (Provisioned, runCustomScripts).
THEOREM SuccessIsReal == Spec => []SuccessMeansProvisioned
<1>1. IInv /\ TypeOK /\ Sound /\ [Next]_vars => Sound'
  BY NextSound
<1>2. Sound => SuccessMeansProvisioned
  <2>1. \A i \in DOMAIN List, j \in DOMAIN List : i < j /\ List[j] = MarkerPhase => List[i] \in PreMarker
    BY DEF PreMarker
  <2> QED  BY <2>1 DEF Sound, SuccessMeansProvisioned, List, Covered
<1> QED  BY InitSound, <1>1, <1>2, Invariant, Typing, PTL DEF Spec
=============================================================================
