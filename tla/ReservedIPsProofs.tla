-------------------------- MODULE ReservedIPsProofs --------------------------
(***************************************************************************)
(* What is proved about ReservedIPs, for any records, roles, addresses and *)
(* tables and any number of failures: the types, that only a forced run    *)
(* moves a machine, that a stamp is true, and that a dry run foretells.    *)
(*                                                                         *)
(* None of them is inductive: a run writes by what it has read of a record *)
(* when it came to it, so the invariant says that this is still true when  *)
(* the write comes (ReadIsFresh), or that the record was taken for empty,  *)
(* in which case it follows the table after; and for the prediction, that  *)
(* the dry run and the run after it go through the same records with the   *)
(* same reading.                                                           *)
(***************************************************************************)
EXTENDS ReservedIPs, TLAPS

USE NoneAssumption, TablesAssumption, FaultsAssumption, CompleteAssumption

AtRecord == run.pc \in {"purge", "write"}

\* Where a run is determines what it works on.
AtARecord == AtRecord => run.record \in Records

-----------------------------------------------------------------------------
(* The invariant. *)

(* What a run knows of the record it is at: in a real run the cells and    *)
(* the stamp it has read are those of vault, but for keys the table does   *)
(* not derive that a deletion has lost meanwhile.  Of a record it has      *)
(* misread it knows nothing and deletes nothing.                           *)
ReadIsFresh ==
    /\ run.pc = "idle" => run = NoRun
    /\ run.todo \cap run.misread = {}
    /\ AtRecord =>
        /\ run.record \notin run.todo
        /\ \A k \in run.purge : Derived(run.record)[k] = None
        /\ run.record \in run.misread => run.held = Nothing /\ run.purge = {}
        /\ ~run.dry /\ run.record \notin run.misread =>
            /\ run.held.scheme = vault[run.record].scheme
            /\ \A k \in Keys : \/ run.held.ip[k] = vault[run.record].ip[k]
                              \/ /\ <<run.record, k>> \in dropped
                                 /\ Derived(run.record)[k] = None

SafetyInv == TypeOK /\ AtARecord /\ ReadIsFresh /\ LiveAddressKept /\ StampIsTrue

(* What a run with table t leaves of the contents c of record r, when      *)
(* nothing fails.                                                          *)
NewCell(t, f, r, c, k) ==
    IF t.at[r][k] # None /\ (c.ip[k] = None \/ (f /\ c.ip[k] # t.at[r][k]))
    THEN t.at[r][k] ELSE None
Agrees(t, r, c) == \A k \in Keys : t.at[r][k] # None => c.ip[k] \in {None, t.at[r][k]}
NewStamp(t, f, r, c) ==
    IF (Agrees(t, r, c) \/ f) /\ c.scheme # t.scheme THEN t.scheme ELSE None
Change(t, f, r, c) == [ip |-> [k \in Keys |-> NewCell(t, f, r, c, k)],
                       scheme |-> NewStamp(t, f, r, c)]
Result(t, f, r, c) == IF t.at[r] = Nothing.ip THEN c ELSE Over(Change(t, f, r, c), c)

(* The records the run has still to see to. *)
Ahead == run.todo \cup (IF AtRecord THEN {run.record} ELSE {})

(* A dry run has read what vault holds, and shows what would be left of    *)
(* the records it is done with, but for those it has misread.              *)
DryIsExact ==
    run.pc # "idle" /\ run.dry =>
        /\ AtRecord /\ run.record \notin run.misread => run.held = vault[run.record]
        /\ \A r \in Records :
            /\ r \in Ahead => run.pending[r] = Nothing
            /\ r \notin Ahead \cup run.misread =>
                  Visible(r) = Result(run.table, run.force, r, vault[r])

(* A forecast that stands says what is left of each record.  While the     *)
(* same command runs, the records it is done with are so already.          *)
ForecastIsExact ==
    /\ run.pc # "idle" => ~done.ok
    /\ forecast.valid =>
        /\ \A r \in Records :
            forecast.vault[r] = Result(forecast.table, forecast.force, r, vault[r])
        /\ done.ok => vault = forecast.vault
        /\ run.pc # "idle" =>
            /\ ~run.dry /\ run.table = forecast.table /\ run.force = forecast.force
            /\ AtRecord => run.held = vault[run.record]
            /\ \A r \in Records \ Ahead : forecast.vault[r] = vault[r]

\* A run sees to the records its table has addresses for.
AheadIsListed ==
    run.pc # "idle" => \A r \in Ahead : run.table.at[r] # Nothing.ip

ForecastInv == DryIsExact /\ ForecastIsExact /\ AheadIsListed

-----------------------------------------------------------------------------
(* The operators. *)

\* A record with no cell and no stamp is one.
LEMMA NothingType == Nothing \in Contents
BY DEF Nothing, Contents, Cells

\* The tables hold cells and a scheme each, and one can be chosen.
LEMMA TableType == /\ SomeTable \in Tables
                   /\ \A t \in Tables : t.scheme \in Schemes /\ t.at \in [Records -> Cells]
BY DEF SomeTable

\* What is written over a record replaces the cells it has, one by one.
LEMMA OverType ==
    ASSUME NEW new \in Contents, NEW old \in Contents
    PROVE  /\ Over(new, old) \in Contents
           /\ \A k \in Keys : Over(new, old).ip[k] = IF new.ip[k] # None THEN new.ip[k] ELSE old.ip[k]
           /\ Over(new, old).scheme = IF new.scheme # None THEN new.scheme ELSE old.scheme
BY DEF Over, Contents, Cells

\* Two contents with the same cells and the same stamp are one.
LEMMA SameContents ==
    ASSUME NEW c \in Contents, NEW d \in Contents,
           \A k \in Keys : c.ip[k] = d.ip[k], c.scheme = d.scheme
    PROVE  c = d
<1>1. c.ip = d.ip
  BY DEF Contents, Cells
<1> QED  BY <1>1 DEF Contents

\* Writing over itself what is there changes nothing, nor does writing nothing.
LEMMA OverNothing ==
    ASSUME NEW c \in Contents
    PROVE  Over(Nothing, c) = c /\ Over(c, Nothing) = c
<1>1. Over(Nothing, c) \in Contents /\ Over(c, Nothing) \in Contents
  BY OverType, NothingType
<1>2. /\ \A k \in Keys : Over(Nothing, c).ip[k] = c.ip[k] /\ Over(c, Nothing).ip[k] = c.ip[k]
      /\ Over(Nothing, c).scheme = c.scheme /\ Over(c, Nothing).scheme = c.scheme
  BY OverType, NothingType DEF Nothing, Contents, Cells
<1> QED  BY <1>1, <1>2, SameContents

\* No run is a run.
LEMMA NoRunType == NoRun \in Runs
BY NothingType, TableType DEF NoRun, Runs

\* No forecast is a forecast.
LEMMA NoForecastType == NoForecast \in Forecasts
BY NothingType, TableType DEF NoForecast, Forecasts

\* A run writes derived cells only: the fresh ones, and under force the drifted ones.
LEMMA WritesType ==
    ASSUME TypeOK, run.record \in Records
    PROVE  /\ Writes \in Contents
           /\ Derived(run.record) \in Cells
           /\ \A k \in Keys : Writes.ip[k] = IF k \in Fresh \/ (run.force /\ k \in Drifted)
                                           THEN Derived(run.record)[k] ELSE None
           /\ Writes.scheme = Stamp
<1>1. Derived(run.record) \in Cells /\ run.table.scheme \in Schemes
  BY TableType DEF Derived, TypeOK, Runs
<1>2. Stamp \in Schemes \cup {None}
  BY <1>1 DEF Stamp
<1> QED  BY <1>1, <1>2 DEF Writes, Contents, Cells

\* A deletion takes one cell and leaves the others and the stamp.
LEMMA RestType ==
    ASSUME TypeOK, NEW r \in Records, NEW k \in Keys
    PROVE  /\ Rest(r, k) \in Contents
           /\ Rest(r, k).scheme = vault[r].scheme
           /\ Rest(r, k).ip[k] = None
           /\ \A l \in Keys \ {k} : Rest(r, k).ip[l] = vault[r].ip[l]
           /\ Over(Rest(r, k), vault[r]) = vault[r]
<1>0. vault[r] \in Contents
  BY DEF TypeOK, Runs
<1>1. /\ Rest(r, k) \in Contents
      /\ Rest(r, k).scheme = vault[r].scheme
      /\ Rest(r, k).ip[k] = None
      /\ \A l \in Keys \ {k} : Rest(r, k).ip[l] = vault[r].ip[l]
  BY <1>0 DEF Rest, Contents, Cells
<1>2. Over(Rest(r, k), vault[r]) \in Contents
  BY <1>0, <1>1, OverType
<1>3. Over(Rest(r, k), vault[r]).scheme = vault[r].scheme
  BY <1>0, <1>1, OverType
<1>4. \A l \in Keys : Over(Rest(r, k), vault[r]).ip[l] = vault[r].ip[l]
  BY <1>0, <1>1, OverType
<1>5. Over(Rest(r, k), vault[r]) = vault[r]
  BY <1>0, <1>2, <1>3, <1>4, SameContents
<1> QED  BY <1>1, <1>5

\* What a run sees of a record is a record.
LEMMA VisibleType ==
    ASSUME TypeOK, NEW r \in Records
    PROVE  Visible(r) \in Contents /\ (~run.dry => Visible(r) = vault[r])
BY OverType DEF Visible, TypeOK, Runs

-----------------------------------------------------------------------------
(* The types. *)

\* Whatever vault holds at the start.
LEMMA InitTypes == Init => TypeOK /\ AtARecord
BY NoRunType, NoForecastType, NothingType, TableType
   DEF Init, TypeOK, Runs, AtARecord, AtRecord, NoRun, NoneDone, Cells

\* A run starts at no record, with all of them to see to.
LEMMA StartTypes ==
    ASSUME TypeOK, NEW t \in Tables, NEW force \in BOOLEAN, NEW dry \in BOOLEAN,
           Start(t, force, dry)
    PROVE  TypeOK' /\ AtARecord'
<1>1. run' \in Runs
      /\ run'.pc = "read"
  BY NoRunType DEF Start, Runs
<1>2. done' \in [ok : BOOLEAN, table : Tables, force : BOOLEAN]
  BY TableType DEF Start, NoneDone
<1>3. forecast' \in Forecasts
  BY NoForecastType DEF Start, TypeOK, Runs
<1> QED  BY <1>1, <1>2, <1>3 DEF Start, TypeOK, Runs, AtARecord, AtRecord

\* A failure stays within the bound.
LEMMA FailType == ASSUME TypeOK, Fail PROVE faults' \in 0 .. MaxFaults
BY DEF Fail, TypeOK, Runs

\* A run that is given up leaves no run and no forecast.
LEMMA AbortTypes ==
    ASSUME TypeOK, Abort
    PROVE  /\ run' \in Runs
           /\ forecast' \in Forecasts
           /\ AtARecord'
BY NoRunType, NoForecastType DEF Abort, Runs, AtARecord, AtRecord, NoRun

(* A record is taken up: what vault shows of it has been read, or it was   *)
(* taken for empty.                                                        *)
TakenUp(r) ==
    /\ run' \in Runs /\ run'.pc = "purge" /\ run'.record = r /\ run'.todo = run.todo \ {r}
    /\ run'.dry = run.dry /\ run'.table = run.table /\ run'.force = run.force
    /\ run'.pending = run.pending
    /\ run'.purge = IF r \in Complete /\ run.force THEN Obsolete(r, run'.held) ELSE {}
    /\ \/ /\ run'.held = Visible(r) /\ run'.misread = run.misread
          /\ UNCHANGED <<faults, forecast>>
       \/ /\ run'.held = Nothing /\ run'.misread = run.misread \cup {r}
          /\ Fail /\ forecast' = NoForecast

\* ReadExisting takes a record up, or gives the run up.
LEMMA ReadTakesUp ==
    ASSUME TypeOK, ReadExisting
    PROVE  \/ Fail /\ Abort
           \/ \E r \in run.todo : r \in Records /\ TakenUp(r)
<1>1. PICK r \in run.todo :
        \/ /\ run' = [TakeUp(r, Visible(r)) EXCEPT !.engine = TRUE]
           /\ UNCHANGED <<faults, forecast>>
        \/ /\ ~run.engine /\ Fail
           /\ run' = [TakeUp(r, Nothing) EXCEPT !.misread = @ \cup {r}]
           /\ forecast' = NoForecast
        \/ Fail /\ Abort
  BY DEF ReadExisting
<1>2. r \in Records /\ run \in Runs
  BY DEF TypeOK, Runs
<1>3. ASSUME NEW held \in Contents, NEW x, x = TakeUp(r, held)
      PROVE  /\ x \in Runs /\ x.pc = "purge" /\ x.record = r /\ x.held = held
             /\ x.todo = run.todo \ {r} /\ x.misread = run.misread
             /\ x.dry = run.dry /\ x.table = run.table /\ x.force = run.force
             /\ x.pending = run.pending
             /\ x.purge = IF r \in Complete /\ run.force THEN Obsolete(r, held) ELSE {}
  BY <1>2, <1>3 DEF TakeUp, Runs, Obsolete
<1>4. CASE /\ run' = [TakeUp(r, Visible(r)) EXCEPT !.engine = TRUE]
           /\ UNCHANGED <<faults, forecast>>
  <2> DEFINE x == TakeUp(r, Visible(r))
  <2>1. Visible(r) \in Contents
    BY <1>2, VisibleType
  <2>2. /\ x \in Runs /\ x.pc = "purge" /\ x.record = r /\ x.held = Visible(r)
        /\ x.todo = run.todo \ {r} /\ x.misread = run.misread
        /\ x.dry = run.dry /\ x.table = run.table /\ x.force = run.force
        /\ x.pending = run.pending
        /\ x.purge = IF r \in Complete /\ run.force THEN Obsolete(r, Visible(r)) ELSE {}
    BY <1>3, <2>1
  <2>3. run' = [x EXCEPT !.engine = TRUE]
    BY <1>4
  <2> HIDE DEF x
  <2>4. /\ run' \in Runs /\ run'.pc = x.pc /\ run'.record = x.record /\ run'.held = x.held
        /\ run'.todo = x.todo /\ run'.misread = x.misread /\ run'.purge = x.purge
        /\ run'.dry = x.dry /\ run'.table = x.table /\ run'.force = x.force
        /\ run'.pending = x.pending
    BY <2>2, <2>3 DEF Runs
  <2>5. TakenUp(r)
    BY <1>4, <2>2, <2>4 DEF TakenUp
  <2> QED  BY <1>2, <2>5
<1>5. CASE /\ Fail /\ forecast' = NoForecast
           /\ run' = [TakeUp(r, Nothing) EXCEPT !.misread = @ \cup {r}]
  <2> DEFINE x == TakeUp(r, Nothing)
  <2>2. /\ x \in Runs /\ x.pc = "purge" /\ x.record = r /\ x.held = Nothing
        /\ x.todo = run.todo \ {r} /\ x.misread = run.misread
        /\ x.dry = run.dry /\ x.table = run.table /\ x.force = run.force
        /\ x.pending = run.pending
        /\ x.purge = IF r \in Complete /\ run.force THEN Obsolete(r, Nothing) ELSE {}
    BY <1>3, NothingType
  <2>3. run' = [x EXCEPT !.misread = @ \cup {r}]
    BY <1>5
  <2> HIDE DEF x
  <2>4. /\ run' \in Runs /\ run'.pc = x.pc /\ run'.record = x.record /\ run'.held = x.held
        /\ run'.todo = x.todo /\ run'.misread = x.misread \cup {r} /\ run'.purge = x.purge
        /\ run'.dry = x.dry /\ run'.table = x.table /\ run'.force = x.force
        /\ run'.pending = x.pending
    BY <1>2, <2>2, <2>3 DEF Runs
  <2>5. TakenUp(r)
    BY <1>5, <2>2, <2>4 DEF TakenUp
  <2> QED  BY <1>2, <2>5
<1> QED  BY <1>1, <1>4, <1>5

\* What is taken up is a record, and vault is as it was.
LEMMA ReadTypes ==
    ASSUME TypeOK, AtARecord, ReadExisting
    PROVE  TypeOK' /\ AtARecord'
<1>1. UNCHANGED <<vault, done, live, moved, dropped>>
  BY DEF ReadExisting
<1>2. CASE Fail /\ Abort
  BY <1>1, <1>2, FailType, AbortTypes DEF TypeOK
<1>3. ASSUME NEW r \in Records, TakenUp(r) PROVE TypeOK' /\ AtARecord'
  <2>1. faults' \in 0 .. MaxFaults /\ forecast' \in Forecasts
    BY <1>3, FailType, NoForecastType DEF TakenUp, TypeOK
  <2> QED  BY <1>1, <1>3, <2>1 DEF TakenUp, TypeOK, AtARecord, AtRecord
<1> QED  BY <1>2, <1>3, ReadTakesUp

\* PurgeObsolete deletes cells of the record it is at.
LEMMA PurgeTypes ==
    ASSUME TypeOK, AtARecord, PurgeObsolete
    PROVE  TypeOK' /\ AtARecord'
<1> DEFINE r == run.record
<1>1. r \in Records /\ run.pc = "purge"
  BY DEF PurgeObsolete, AtARecord, AtRecord
<1>2. UNCHANGED <<done, live, moved>>
  BY DEF PurgeObsolete
<1>3. PICK k \in run.purge :
        \/ /\ run' = [run EXCEPT !.purge = @ \ {k}]
           /\ vault' = [vault EXCEPT ![r] = Over(Rest(r, k), @)]
           /\ UNCHANGED <<faults, dropped, forecast>>
        \/ /\ ~run.dry /\ Fail
           /\ run' = [run EXCEPT !.purge = @ \ {k}]
           /\ vault' = [vault EXCEPT ![r] = Rest(r, k)]
           /\ dropped' = dropped \cup {<<r, k>>}
           /\ forecast' = NoForecast
        \/ ~run.dry /\ Fail /\ Abort /\ UNCHANGED <<vault, dropped>>
  BY DEF PurgeObsolete
<1>4. k \in Keys
  BY DEF TypeOK, Runs
<1>5. Rest(r, k) \in Contents /\ vault' \in [Records -> Contents]
  <2>1. vault[r] \in Contents /\ Rest(r, k) \in Contents
    BY <1>1, <1>4, RestType DEF TypeOK
  <2>2. Over(Rest(r, k), vault[r]) \in Contents
    BY <2>1, OverType
  <2>3. \/ vault' = [vault EXCEPT ![r] = Over(Rest(r, k), @)]
        \/ vault' = [vault EXCEPT ![r] = Rest(r, k)]
        \/ vault' = vault
    BY <1>3
  <2> QED  BY <2>1, <2>2, <2>3 DEF TypeOK
<1>6. CASE run' = [run EXCEPT !.purge = @ \ {k}]
  <2>1. /\ faults' \in 0 .. MaxFaults /\ dropped' \subseteq Cell
        /\ forecast' \in Forecasts
    BY <1>1, <1>3, <1>4, FailType, NoForecastType, AbortTypes DEF TypeOK, Runs, Cell
  <2> QED  BY <1>1, <1>2, <1>5, <1>6, <2>1 DEF TypeOK, Runs, AtARecord, AtRecord
<1>7. CASE Fail /\ Abort /\ UNCHANGED <<vault, dropped>>
  BY <1>2, <1>7, FailType, AbortTypes DEF TypeOK, Runs
<1> QED  BY <1>3, <1>6, <1>7

\* PurgeDone goes on to the write, or in a dry run to the next record.
LEMMA PurgeDoneTypes ==
    ASSUME TypeOK, AtARecord, PurgeDone
    PROVE  TypeOK' /\ AtARecord'
BY DEF PurgeDone, TypeOK, Runs, AtARecord, AtRecord

\* A run that leaves a record may have learnt of the engine.
Left(s, pending) == s = Leave(pending) \/ s = [Leave(pending) EXCEPT !.engine = @ \/ ~run.dry]

\* It keeps its table and its flags.
LEMMA LeaveType ==
    ASSUME TypeOK, NEW pending \in [Records -> Contents], NEW s, Left(s, pending)
    PROVE  /\ s \in Runs /\ s.pc = "read" /\ s.todo = run.todo /\ s.pending = pending
           /\ s.table = run.table /\ s.force = run.force /\ s.dry = run.dry
           /\ s.misread = run.misread
<1> DEFINE x == Leave(pending)
<1>1. /\ x \in Runs /\ x.pc = "read" /\ x.todo = run.todo /\ x.pending = pending
      /\ x.table = run.table /\ x.force = run.force /\ x.dry = run.dry
      /\ x.misread = run.misread
  BY NothingType DEF Leave, TypeOK, Runs
<1>2. s = x \/ s = [x EXCEPT !.engine = @ \/ ~run.dry]
  BY DEF Left
<1> HIDE DEF x
<1>3. (x.engine \/ ~run.dry) \in BOOLEAN
  OBVIOUS
<1> QED  BY <1>1, <1>2, <1>3 DEF Runs

\* SetMultiple writes a record, over a failed read or not.
LEMMA SetMultipleTypes ==
    ASSUME TypeOK, NEW r \in Records, NEW data \in Contents, SetMultiple(r, data)
    PROVE  /\ vault' \in [Records -> Contents] /\ faults' \in 0 .. MaxFaults
           /\ dropped' \subseteq Cell
BY FailType, OverType DEF SetMultiple, Lost, TypeOK, Cell

\* What the safe recorder shows is a state of vault.
LEMMA RecordedType ==
    ASSUME TypeOK, NEW r \in Records, NEW data \in Contents
    PROVE  Recorded(r, data) \in [Records -> Contents]
BY OverType DEF Recorded, TypeOK, Runs

\* GuardedWrite writes, refuses, shows or has nothing to do.
LEMMA WriteTypes ==
    ASSUME TypeOK, AtARecord, GuardedWrite
    PROVE  TypeOK' /\ AtARecord'
<1> DEFINE r == run.record
<1>1. r \in Records /\ run.pc = "write"
  BY DEF GuardedWrite, AtARecord, AtRecord
<1>2. Writes \in Contents /\ (moved \subseteq Cell => MovedBy(r) \subseteq Cell)
  BY <1>1, WritesType DEF MovedBy, Overwritten, Cell
<1>3. UNCHANGED <<done, live>>
  BY DEF GuardedWrite
<1>4. CASE /\ run' = Leave(run.pending)
           /\ UNCHANGED <<vault, faults, moved, dropped, forecast>>
  <2>1. run' \in Runs /\ run'.pc = "read"
    BY <1>4, LeaveType DEF TypeOK, Runs, Left
  <2> QED  BY <1>3, <1>4, <2>1 DEF TypeOK, AtARecord, AtRecord
<1>5. CASE /\ SetMultiple(r, Writes)
           /\ run' = [Leave(Recorded(r, Writes)) EXCEPT !.engine = @ \/ ~run.dry]
           /\ moved' = IF run.dry THEN moved ELSE MovedBy(r)
           /\ forecast' = IF faults' = faults THEN forecast ELSE NoForecast
  <2>1. run' \in Runs /\ run'.pc = "read"
    BY <1>1, <1>2, <1>5, LeaveType, RecordedType DEF Left
  <2>2. /\ vault' \in [Records -> Contents] /\ faults' \in 0 .. MaxFaults
        /\ dropped' \subseteq Cell /\ moved' \subseteq Cell /\ forecast' \in Forecasts
    BY <1>1, <1>2, <1>5, SetMultipleTypes, NoForecastType DEF TypeOK
  <2> QED  BY <1>3, <2>1, <2>2 DEF TypeOK, AtARecord, AtRecord
<1>6. CASE /\ Fail /\ Abort
           /\ \/ UNCHANGED <<vault, moved>>
              \/ /\ vault' = [vault EXCEPT ![r] = Over(Writes, @)]
                 /\ moved' = MovedBy(r)
           /\ UNCHANGED dropped
  <2>1. vault' \in [Records -> Contents] /\ moved' \subseteq Cell
    BY <1>1, <1>2, <1>6, OverType DEF TypeOK
  <2> QED  BY <1>3, <1>6, <2>1, FailType, AbortTypes DEF TypeOK
<1> QED  BY <1>4, <1>5, <1>6 DEF GuardedWrite

\* Report ends a run.
LEMMA ReportTypes ==
    ASSUME TypeOK, AtARecord, Report
    PROVE  TypeOK' /\ AtARecord'
<1>1. run' \in Runs /\ run'.pc = "idle"
  BY NoRunType DEF Report, NoRun
<1>a. run.table \in Tables /\ run.force \in BOOLEAN
  BY DEF TypeOK, Runs
<1>2. forecast' \in Forecasts
  <2>1. [r \in Records |-> Visible(r)] \in [Records -> Contents]
    BY VisibleType
  <2>2. [valid |-> run.misread = {}, table |-> run.table, force |-> run.force,
         vault |-> [r \in Records |-> Visible(r)]] \in Forecasts
    BY <1>a, <2>1 DEF Forecasts
  <2> QED  BY <2>2 DEF Report, TypeOK
<1>3. done' \in [ok : BOOLEAN, table : Tables, force : BOOLEAN]
  <2>1. [ok |-> TRUE, table |-> run.table, force |-> run.force]
          \in [ok : BOOLEAN, table : Tables, force : BOOLEAN]
    BY <1>a
  <2> QED  BY <2>1 DEF Report, TypeOK
<1> QED  BY <1>1, <1>2, <1>3 DEF Report, TypeOK, AtARecord, AtRecord

\* Deploy puts a machine where its record says.
LEMMA DeployTypes ==
    ASSUME TypeOK, AtARecord, NEW r \in Records, NEW k \in Keys, Deploy(r, k)
    PROVE  TypeOK' /\ AtARecord'
<1>1. vault[r].ip[k] \in Addrs \cup {None}
  BY DEF TypeOK, Contents, Cells
<1>2. live' \in [Records -> Cells]
  BY <1>1 DEF Deploy, TypeOK, Cells
<1> QED  BY <1>2 DEF Deploy, TypeOK, AtARecord, AtRecord

\* A run that is killed leaves none.
LEMMA KillTypes == ASSUME TypeOK, AtARecord, Kill PROVE TypeOK' /\ AtARecord'
BY FailType, AbortTypes DEF Kill, TypeOK

\* No step leaves the types.
LEMMA NextTypes == TypeOK /\ AtARecord /\ [Next]_vars => TypeOK' /\ AtARecord'
<1> SUFFICES ASSUME TypeOK, AtARecord, [Next]_vars PROVE TypeOK' /\ AtARecord'
  OBVIOUS
<1>1. CASE Next
  BY <1>1, StartTypes, ReadTypes, PurgeTypes, PurgeDoneTypes, WriteTypes, ReportTypes,
     DeployTypes, KillTypes DEF Next
<1>2. CASE UNCHANGED vars
  BY <1>2 DEF vars, TypeOK, AtARecord, AtRecord
<1> QED  BY <1>1, <1>2

(* Every reachable state is well typed, whatever the records, the roles,   *)
(* the tables and the number of failures.                                  *)
THEOREM Typing == Spec => []TypeOK
<1>1. Spec => [](TypeOK /\ AtARecord)
  BY InitTypes, NextTypes, PTL DEF Spec
<1> QED  BY <1>1, PTL

-----------------------------------------------------------------------------
(* Safety. *)

\* A step that leaves the cells alone, but for those excepted and empty ones.
LEMMA AddressesKept ==
    ASSUME LiveAddressKept, live' = live, moved \subseteq moved', dropped \subseteq dropped',
           \A r \in Records, k \in Keys : \/ vault'[r].ip[k] = vault[r].ip[k]
                                         \/ vault[r].ip[k] = None
                                         \/ <<r, k>> \in moved' \cup dropped'
    PROVE  LiveAddressKept'
BY DEF LiveAddressKept

\* A step that leaves stamps alone, and cells but for those excepted.
LEMMA StampsKept ==
    ASSUME StampIsTrue, dropped \subseteq dropped',
           \A r \in Complete : /\ vault'[r].scheme = vault[r].scheme
                               /\ \A k \in Keys : \/ vault'[r].ip[k] = vault[r].ip[k]
                                                 \/ <<r, k>> \in dropped'
    PROVE  StampIsTrue'
<1> SUFFICES ASSUME NEW r \in Complete, vault'[r].scheme # None
             PROVE  \E t \in Tables :
                      /\ t.scheme = vault'[r].scheme
                      /\ \A k \in Keys : t.at[r][k] # None /\ <<r, k>> \notin dropped'
                           => vault'[r].ip[k] = t.at[r][k]
  BY DEF StampIsTrue
<1>1. PICK t \in Tables :
        /\ t.scheme = vault[r].scheme
        /\ \A k \in Keys : t.at[r][k] # None /\ <<r, k>> \notin dropped
             => vault[r].ip[k] = t.at[r][k]
  BY DEF StampIsTrue
<1>2. \A k \in Keys : t.at[r][k] # None /\ <<r, k>> \notin dropped'
             => vault'[r].ip[k] = t.at[r][k]
  BY <1>1
<1> QED  BY <1>1, <1>2

\* No run has read anything yet, and what is stamped at the start is true.
LEMMA InitSafe == Init => SafetyInv
<1> SUFFICES ASSUME Init PROVE SafetyInv
  OBVIOUS
<1>1. TypeOK /\ AtARecord
  BY InitTypes
<1>2. ReadIsFresh
  BY DEF Init, ReadIsFresh, NoRun, AtRecord
<1>3. LiveAddressKept
  BY DEF Init, LiveAddressKept
<1>4. StampIsTrue
  BY CompleteAssumption DEF Init, StampIsTrue, Nothing
<1> QED  BY <1>1, <1>2, <1>3, <1>4 DEF SafetyInv

\* An end of the run, and a step that does not touch vault.
LEMMA VaultUntouched ==
    ASSUME SafetyInv, UNCHANGED <<vault, live, moved, dropped>>
    PROVE  LiveAddressKept' /\ StampIsTrue'
BY AddressesKept, StampsKept DEF SafetyInv

\* Where there is no run nothing has been read.
LEMMA IdleIsFresh == ASSUME run' = NoRun PROVE ReadIsFresh'
BY DEF ReadIsFresh, NoRun, AtRecord

\* A run that starts has read nothing.
LEMMA StartSafe ==
    ASSUME SafetyInv, NEW t \in Tables, NEW force \in BOOLEAN, NEW dry \in BOOLEAN,
           Start(t, force, dry)
    PROVE  SafetyInv'
<1>1. run'.pc = "read" /\ run'.misread = {}
  <2>1. NoRun \in Runs /\ NoRun.misread = {}
    BY NoRunType DEF NoRun
  <2> HIDE DEF NoRun
  <2> QED  BY <2>1 DEF Start, Runs
<1>2. ReadIsFresh'
  BY <1>1 DEF ReadIsFresh, AtRecord
<1>3. TypeOK' /\ AtARecord'
  BY StartTypes DEF SafetyInv
<1>4. LiveAddressKept' /\ StampIsTrue'
  BY VaultUntouched DEF Start
<1> QED  BY <1>2, <1>3, <1>4 DEF SafetyInv

\* What ReadExisting has just read is what vault holds.
LEMMA ReadSafe == ASSUME SafetyInv, ReadExisting PROVE SafetyInv'
<1>1. TypeOK' /\ AtARecord'
  BY ReadTypes DEF SafetyInv
<1>2. LiveAddressKept' /\ StampIsTrue'
  BY VaultUntouched DEF ReadExisting
<1>3. CASE Fail /\ Abort
  BY <1>1, <1>2, <1>3, IdleIsFresh DEF Abort, SafetyInv
<1>4. ASSUME NEW r \in run.todo, r \in Records, TakenUp(r) PROVE SafetyInv'
  <2>1. /\ run'.pc = "purge" /\ run'.record = r /\ run'.table = run.table /\ run'.dry = run.dry
        /\ run'.todo = run.todo \ {r} /\ r \notin run.misread
        /\ run'.purge = IF r \in Complete /\ run.force THEN Obsolete(r, run'.held) ELSE {}
        /\ \/ run'.held = Visible(r) /\ run'.misread = run.misread
           \/ run'.held = Nothing /\ run'.misread = run.misread \cup {r}
    BY <1>4 DEF TakenUp, SafetyInv, ReadIsFresh
  <2>2. \A k \in run'.purge : Derived(run.record)'[k] = None
    BY <2>1 DEF Obsolete, Derived
  <2>3. CASE run'.held = Visible(r) /\ run'.misread = run.misread
    <3>1. ~run'.dry => run'.held = vault'[r]
      BY <1>4, <2>1, <2>3, VisibleType DEF SafetyInv, ReadExisting
    <3>2. run'.todo \cap run'.misread = {}
      BY <2>1, <2>3 DEF SafetyInv, ReadIsFresh
    <3>3. ReadIsFresh'
      BY <2>1, <2>2, <2>3, <3>1, <3>2 DEF ReadIsFresh, AtRecord
    <3> QED  BY <1>1, <1>2, <3>3 DEF SafetyInv
  <2>4. CASE run'.held = Nothing /\ run'.misread = run.misread \cup {r}
    <3>1. run'.purge = {}
      BY <2>1, <2>4 DEF Obsolete, Nothing
    <3>2. run'.todo \cap run'.misread = {}
      BY <2>1, <2>4 DEF SafetyInv, ReadIsFresh
    <3>3. ReadIsFresh'
      BY <2>1, <2>2, <2>4, <3>1, <3>2 DEF ReadIsFresh, AtRecord
    <3> QED  BY <1>1, <1>2, <3>3 DEF SafetyInv
  <2> QED  BY <2>1, <2>3, <2>4
<1> QED  BY <1>3, <1>4, ReadTakesUp DEF SafetyInv

\* A deletion takes only cells the table does not derive.
LEMMA PurgeSafe == ASSUME SafetyInv, PurgeObsolete PROVE SafetyInv'
<1> DEFINE r == run.record
<1>1. r \in Records /\ run.pc = "purge" /\ AtRecord
  BY DEF PurgeObsolete, SafetyInv, AtARecord, AtRecord
<1>2. UNCHANGED <<done, live, moved>>
  BY DEF PurgeObsolete
<1>3. PICK k \in run.purge :
        \/ /\ run' = [run EXCEPT !.purge = @ \ {k}]
           /\ vault' = [vault EXCEPT ![r] = Over(Rest(r, k), @)]
           /\ UNCHANGED <<faults, dropped, forecast>>
        \/ /\ ~run.dry /\ Fail
           /\ run' = [run EXCEPT !.purge = @ \ {k}]
           /\ vault' = [vault EXCEPT ![r] = Rest(r, k)]
           /\ dropped' = dropped \cup {<<r, k>>}
           /\ forecast' = NoForecast
        \/ ~run.dry /\ Fail /\ Abort /\ UNCHANGED <<vault, dropped>>
  BY DEF PurgeObsolete
<1>4. k \in Keys /\ Derived(r)[k] = None
  BY <1>1, <1>3 DEF SafetyInv, TypeOK, Runs, ReadIsFresh
<1>5. TypeOK' /\ AtARecord'
  BY PurgeTypes DEF SafetyInv
<1>6. CASE Fail /\ Abort /\ UNCHANGED <<vault, dropped>>
  BY <1>2, <1>5, <1>6, VaultUntouched, IdleIsFresh DEF SafetyInv, Abort
<1>7. CASE run' = [run EXCEPT !.purge = @ \ {k}]
  <2>1. /\ dropped \subseteq dropped'
        /\ \A q \in Records : /\ vault'[q].scheme = vault[q].scheme
                              /\ \A l \in Keys : \/ vault'[q].ip[l] = vault[q].ip[l]
                                                \/ /\ q = r /\ l = k
                                                   /\ <<q, l>> \in dropped'
    <3>1. TypeOK
      BY DEF SafetyInv
    <3>2. CASE vault' = [vault EXCEPT ![r] = Over(Rest(r, k), @)] /\ UNCHANGED dropped
      <4>1. vault' = vault
        BY <1>1, <1>4, <3>1, <3>2, RestType DEF TypeOK
      <4> QED  BY <3>2, <4>1
    <3>3. CASE vault' = [vault EXCEPT ![r] = Rest(r, k)] /\ dropped' = dropped \cup {<<r, k>>}
      BY <1>1, <1>4, <3>1, <3>3, RestType DEF TypeOK
    <3>4. CASE Abort /\ UNCHANGED <<vault, dropped>>
      BY <3>4
    <3> QED  BY <1>3, <3>2, <3>3, <3>4
  <2>2. LiveAddressKept' /\ StampIsTrue'
    <3>1. LiveAddressKept'
      BY <1>2, <2>1, AddressesKept DEF SafetyInv
    <3>2. StampIsTrue'
      BY <2>1, StampsKept DEF SafetyInv
    <3> QED  BY <3>1, <3>2
  <2>3. ReadIsFresh'
    <3>1. /\ run'.pc = run.pc /\ run'.record = r /\ run'.held = run.held
          /\ run'.todo = run.todo /\ run'.dry = run.dry /\ run'.table = run.table
          /\ run'.misread = run.misread /\ run'.purge = run.purge \ {k}
      BY <1>7 DEF SafetyInv, TypeOK, Runs
    <3>2. \A l \in Keys : Derived(run.record)'[l] = Derived(r)[l]
      BY <3>1 DEF Derived
    <3>3. \A l \in run'.purge : Derived(run.record)'[l] = None
      BY <1>1, <3>1 DEF SafetyInv, ReadIsFresh, Derived
    <3>4. ASSUME ~run.dry, r \notin run.misread
          PROVE  /\ run'.held.scheme = vault'[r].scheme
                 /\ \A l \in Keys : \/ run'.held.ip[l] = vault'[r].ip[l]
                                   \/ /\ <<r, l>> \in dropped'
                                      /\ Derived(r)[l] = None
      BY <1>1, <1>4, <2>1, <3>1, <3>4 DEF SafetyInv, ReadIsFresh
    <3> QED  BY <1>1, <3>1, <3>2, <3>3, <3>4 DEF SafetyInv, ReadIsFresh, AtRecord
  <2> QED  BY <1>5, <2>2, <2>3 DEF SafetyInv
<1> QED  BY <1>3, <1>6, <1>7

\* Going on changes nothing of what was read.
LEMMA PurgeDoneSafe == ASSUME SafetyInv, PurgeDone PROVE SafetyInv'
<1>1. TypeOK' /\ AtARecord'
  BY PurgeDoneTypes DEF SafetyInv
<1>2. LiveAddressKept' /\ StampIsTrue'
  BY VaultUntouched DEF PurgeDone
<1>3. ReadIsFresh'
  BY DEF PurgeDone, SafetyInv, TypeOK, Runs, ReadIsFresh, AtRecord, Derived
<1> QED  BY <1>1, <1>2, <1>3 DEF SafetyInv

(* What a write of the guard does to the record it is at, done whole, over *)
(* a failed read (old cells are lost and counted as dropped), or not.      *)
WriteOutcome(r) ==
    /\ \A q \in Records \ {r} : vault'[q] = vault[q]
    /\ dropped \subseteq dropped'
    /\ \/ vault'[r] = Over(Writes, vault[r])
       \/ vault'[r] = Writes /\ {r} \X Lost(vault[r], Writes) \subseteq dropped'

\* A cell is written when the table derives it and vault holds none, or another under force.
LEMMA WrittenCell ==
    ASSUME SafetyInv, AtRecord, ~run.dry, run.record \notin run.misread, NEW k \in Keys
    PROVE  LET r == run.record
               d == Derived(r)[k]
               v == vault[r].ip[k]
           IN  Writes.ip[k] = IF d # None /\ (v = None \/ (run.force /\ v # d)) THEN d ELSE None
<1>1. run.record \in Records
  BY DEF SafetyInv, AtARecord
<1>2. \/ run.held.ip[k] = vault[run.record].ip[k]
      \/ Derived(run.record)[k] = None
  BY DEF SafetyInv, ReadIsFresh
<1>3. Writes.ip[k] = IF k \in Fresh \/ (run.force /\ k \in Drifted)
                     THEN Derived(run.record)[k] ELSE None
  BY <1>1, WritesType DEF SafetyInv
<1> QED  BY <1>2, <1>3 DEF Fresh, Drifted

\* A drifted cell holds something, and only a forced run writes it, or one that
\* has taken the record for empty.
LEMMA WriteKeepsAddresses ==
    ASSUME SafetyInv, AtRecord, ~run.dry, WriteOutcome(run.record), live' = live,
           moved \subseteq moved', MovedBy(run.record) \subseteq moved'
    PROVE  LiveAddressKept'
<1> DEFINE r == run.record
<1>1. r \in Records /\ TypeOK
  BY DEF SafetyInv, AtARecord
<1>2. Writes \in Contents /\ vault[r] \in Contents
  BY <1>1, WritesType DEF TypeOK
<1>3. ASSUME NEW k \in Keys
      PROVE  \/ vault'[r].ip[k] = vault[r].ip[k]
             \/ vault[r].ip[k] = None
             \/ <<r, k>> \in moved' \cup dropped'
  <2>1. CASE Writes.ip[k] = None
    <3>1. CASE vault'[r] = Over(Writes, vault[r])
      BY <1>2, <2>1, <3>1, OverType
    <3>2. CASE vault'[r] = Writes /\ {r} \X Lost(vault[r], Writes) \subseteq dropped'
      BY <2>1, <3>2 DEF Lost
    <3> QED  BY <3>1, <3>2 DEF WriteOutcome
  <2>2. CASE Writes.ip[k] # None
    <3>1. vault'[r].ip[k] = Writes.ip[k]
      BY <1>2, <2>2, OverType DEF WriteOutcome
    <3>2. CASE vault[r].ip[k] # None /\ Writes.ip[k] # vault[r].ip[k]
      <4>1. k \in Overwritten(r)
        BY <2>2, <3>2 DEF Overwritten
      <4>2. run.force \/ r \in run.misread
        <5>1. k \in Fresh \/ run.force
          BY <1>1, <2>2, WritesType
        <5>2. k \in Fresh => vault[r].ip[k] = None \/ r \in run.misread
          BY <1>1 DEF Fresh, SafetyInv, ReadIsFresh
        <5> QED  BY <3>2, <5>1, <5>2
      <4> QED  BY <4>1, <4>2 DEF MovedBy
    <3> QED  BY <3>1, <3>2
  <2> QED  BY <2>1, <2>2
<1>4. \A q \in Records, k \in Keys : \/ vault'[q].ip[k] = vault[q].ip[k]
                                   \/ vault[q].ip[k] = None
                                   \/ <<q, k>> \in moved' \cup dropped'
  BY <1>3 DEF WriteOutcome
<1> QED  BY <1>4, AddressesKept DEF SafetyInv, WriteOutcome

(* A record that is stamped, or written under force, agrees with the table *)
(* afterwards; otherwise what its stamp spoke of is not touched.           *)
LEMMA WriteKeepsStamps ==
    ASSUME SafetyInv, AtRecord, ~run.dry, WriteOutcome(run.record)
    PROVE  StampIsTrue'
<1> DEFINE r == run.record
           u == run.table
<1>1. /\ r \in Records /\ TypeOK /\ u \in Tables
      /\ u.scheme \in Schemes /\ u.scheme # None
      /\ r \notin run.misread => run.held.scheme = vault[r].scheme
  BY TableType DEF SafetyInv, AtARecord, ReadIsFresh, TypeOK, Runs
<1>2. /\ Writes \in Contents /\ vault[r] \in Contents /\ Writes.scheme = Stamp
  BY <1>1, WritesType DEF TypeOK
<1> DEFINE Tells(t) == /\ t.scheme = vault'[r].scheme
                       /\ \A k \in Keys : t.at[r][k] # None /\ <<r, k>> \notin dropped'
                            => vault'[r].ip[k] = t.at[r][k]
<1>3. ASSUME r \in Complete, vault'[r].scheme # None PROVE \E t \in Tables : Tells(t)
  <2>0. ASSUME r \in run.misread PROVE Tells(u)
    <3>1. run.held = Nothing /\ Drifted = {}
      BY <2>0 DEF SafetyInv, ReadIsFresh, Drifted, Nothing
    <3>2. Stamp = u.scheme
      BY <1>1, <3>1 DEF Stamp, Nothing
    <3>3. \A k \in Keys : u.at[r][k] # None => Writes.ip[k] = u.at[r][k]
      BY <1>1, <3>1, WritesType DEF Fresh, Derived, Nothing
    <3>4. vault'[r].scheme = u.scheme
      BY <1>1, <1>2, <3>2, OverType DEF WriteOutcome
    <3>5. \A k \in Keys : u.at[r][k] # None => vault'[r].ip[k] = u.at[r][k]
      BY <1>2, <3>3, OverType DEF WriteOutcome
    <3> QED  BY <3>4, <3>5
  <2>1. ASSUME r \notin run.misread, Drifted = {} \/ run.force, NEW k \in Keys, u.at[r][k] # None, <<r, k>> \notin dropped'
        PROVE  vault'[r].ip[k] = u.at[r][k]
    <3>1. run.held.ip[k] = vault[r].ip[k]
      BY <2>1 DEF SafetyInv, ReadIsFresh, Derived
    <3>2. Writes.ip[k] = IF vault[r].ip[k] # u.at[r][k] THEN u.at[r][k] ELSE None
      <4>1. vault[r].ip[k] \notin {None, u.at[r][k]} => run.force
        BY <2>1, <3>1 DEF Drifted, Derived
      <4> QED  BY <2>1, <4>1, WrittenCell DEF Derived
    <3>3. CASE vault'[r] = Over(Writes, vault[r])
      BY <1>2, <2>1, <3>2, <3>3, OverType
    <3>4. CASE vault'[r] = Writes /\ {r} \X Lost(vault[r], Writes) \subseteq dropped'
      BY <2>1, <3>2, <3>4 DEF Lost
    <3> QED  BY <3>3, <3>4 DEF WriteOutcome
  <2>2. ASSUME r \notin run.misread, Drifted = {} \/ run.force PROVE Tells(u)
    <3>1. Stamp = IF vault[r].scheme # u.scheme THEN u.scheme ELSE None
      BY <1>1, <2>2 DEF Stamp
    <3>2. vault'[r].scheme = u.scheme
      BY <1>1, <1>2, <1>3, <3>1, OverType DEF WriteOutcome
    <3> QED  BY <2>1, <2>2, <3>2
  <2>3. ASSUME r \notin run.misread, Drifted # {}, ~run.force PROVE \E t \in Tables : Tells(t)
    <3>1. Stamp = None
      BY <2>3 DEF Stamp
    <3>2. vault'[r] = Over(Writes, vault[r]) /\ vault'[r].scheme = vault[r].scheme
      BY <1>2, <1>3, <3>1, OverType DEF WriteOutcome
    <3>3. PICK t \in Tables :
            /\ t.scheme = vault[r].scheme
            /\ \A k \in Keys : t.at[r][k] # None /\ <<r, k>> \notin dropped
                 => vault[r].ip[k] = t.at[r][k]
      BY <1>3, <3>2 DEF SafetyInv, StampIsTrue
    <3>4. ASSUME NEW k \in Keys, t.at[r][k] # None, <<r, k>> \notin dropped'
          PROVE  vault'[r].ip[k] = t.at[r][k]
      <4>1. vault[r].ip[k] = t.at[r][k]
        BY <3>3, <3>4 DEF WriteOutcome
      <4>2. Writes.ip[k] = None
        BY <2>3, <3>4, <4>1, WrittenCell
      <4> QED  BY <1>2, <3>2, <4>1, <4>2, OverType
    <3> QED  BY <3>2, <3>3, <3>4
  <2> QED  BY <1>1, <2>0, <2>2, <2>3
<1>4. ASSUME NEW q \in Complete, q # r, vault'[q].scheme # None
      PROVE  \E t \in Tables :
               /\ t.scheme = vault'[q].scheme
               /\ \A k \in Keys : t.at[q][k] # None /\ <<q, k>> \notin dropped'
                    => vault'[q].ip[k] = t.at[q][k]
  BY <1>4, CompleteAssumption DEF SafetyInv, StampIsTrue, WriteOutcome
<1> QED  BY <1>3, <1>4 DEF StampIsTrue

\* GuardedWrite keeps the addresses and the stamps, and leaves the record.
LEMMA WriteSafe == ASSUME SafetyInv, GuardedWrite PROVE SafetyInv'
<1> DEFINE r == run.record
<1>1. r \in Records /\ AtRecord /\ TypeOK
  BY DEF GuardedWrite, SafetyInv, AtARecord, AtRecord
<1>2. Writes \in Contents /\ vault[r] \in Contents
  BY <1>1, WritesType DEF TypeOK
<1>3. TypeOK' /\ AtARecord'
  BY WriteTypes DEF SafetyInv
<1>4. UNCHANGED <<done, live>>
  BY DEF GuardedWrite
<1>5. ReadIsFresh'
  <2>1. ASSUME NEW pending \in [Records -> Contents], Left(run', pending) PROVE ReadIsFresh'
    BY <1>1, <2>1, LeaveType DEF ReadIsFresh, AtRecord, SafetyInv
  <2>2. run.pending \in [Records -> Contents] /\ Recorded(r, Writes) \in [Records -> Contents]
    BY <1>1, <1>2, RecordedType DEF TypeOK, Runs
  <2> QED  BY <2>1, <2>2, IdleIsFresh DEF GuardedWrite, Abort, Left
<1>6. CASE UNCHANGED <<vault, moved, dropped>>
  BY <1>3, <1>4, <1>5, <1>6, VaultUntouched DEF SafetyInv
<1>7. CASE /\ SetMultiple(r, Writes)
           /\ moved' = IF run.dry THEN moved ELSE MovedBy(r)
  <2>1. CASE run.dry
    BY <1>6, <1>7, <2>1 DEF SetMultiple
  <2>2. CASE ~run.dry
    <3>1. WriteOutcome(r)
      BY <1>1, <1>7, <2>2 DEF SetMultiple, WriteOutcome, TypeOK
    <3>2. moved \subseteq moved' /\ MovedBy(r) \subseteq moved'
      BY <1>7, <2>2 DEF MovedBy
    <3>3. LiveAddressKept' /\ StampIsTrue'
      BY <1>1, <1>4, <2>2, <3>1, <3>2, WriteKeepsAddresses, WriteKeepsStamps
    <3> QED  BY <1>3, <1>5, <3>3 DEF SafetyInv
  <2> QED  BY <2>1, <2>2
<1>8. CASE /\ ~run.dry /\ vault' = [vault EXCEPT ![r] = Over(Writes, @)]
           /\ moved' = MovedBy(r)
           /\ UNCHANGED dropped
  <2>1. WriteOutcome(r)
    BY <1>1, <1>8 DEF WriteOutcome, TypeOK
  <2>2. moved \subseteq moved' /\ MovedBy(r) \subseteq moved'
    BY <1>8 DEF MovedBy
  <2>3. LiveAddressKept' /\ StampIsTrue'
    BY <1>1, <1>4, <1>8, <2>1, <2>2, WriteKeepsAddresses, WriteKeepsStamps
  <2> QED  BY <1>3, <1>5, <2>3 DEF SafetyInv
<1> QED  BY <1>6, <1>7, <1>8 DEF GuardedWrite

\* Report leaves vault alone.
LEMMA ReportSafe == ASSUME SafetyInv, Report PROVE SafetyInv'
BY ReportTypes, VaultUntouched, IdleIsFresh DEF Report, SafetyInv

\* A deployed machine lives where the record says, and counts as moved no longer.
LEMMA DeploySafe ==
    ASSUME SafetyInv, NEW r \in Records, NEW k \in Keys, Deploy(r, k)
    PROVE  SafetyInv'
<1>1. TypeOK' /\ AtARecord'
  BY DeployTypes DEF SafetyInv
<1>2. ReadIsFresh'
  BY DEF Deploy, SafetyInv, ReadIsFresh, AtRecord, Derived
<1>3. StampIsTrue'
  BY DEF Deploy, SafetyInv, StampIsTrue
<1>4. LiveAddressKept'
  BY DEF Deploy, SafetyInv, LiveAddressKept, TypeOK, Cells
<1> QED  BY <1>1, <1>2, <1>3, <1>4 DEF SafetyInv

\* A kill leaves vault as it is between two writes.
LEMMA KillSafe == ASSUME SafetyInv, Kill PROVE SafetyInv'
BY KillTypes, VaultUntouched, IdleIsFresh DEF Kill, Abort, SafetyInv

\* No step breaks the safety invariant.
LEMMA NextSafe == SafetyInv /\ [Next]_vars => SafetyInv'
<1> SUFFICES ASSUME SafetyInv, [Next]_vars PROVE SafetyInv'
  OBVIOUS
<1>1. CASE Next
  BY <1>1, StartSafe, ReadSafe, PurgeSafe, PurgeDoneSafe, WriteSafe, ReportSafe,
     DeploySafe, KillSafe DEF Next
<1>2. CASE UNCHANGED vars
  <2>1. TypeOK' /\ AtARecord'
    BY <1>2, NextTypes DEF SafetyInv
  <2>2. LiveAddressKept' /\ StampIsTrue'
    BY <1>2, VaultUntouched DEF vars
  <2>3. ReadIsFresh'
    BY <1>2 DEF vars, SafetyInv, ReadIsFresh, AtRecord, Derived
  <2> QED  BY <2>1, <2>2, <2>3 DEF SafetyInv
<1> QED  BY <1>1, <1>2

\* The safety invariant.
LEMMA Safety == Spec => []SafetyInv
BY InitSafe, NextSafe, PTL DEF Spec

(* Only a forced run changes the recorded address of a deployed machine,   *)
(* or one that took its record for empty at a failed detection             *)
(* (reserved_ip_guard.go, guardedWrite; safe.go, Get), whatever builds and *)
(* configurations populate, in any order, through any number of failures.  *)
THEOREM MachinesStay == Spec => []LiveAddressKept
<1>1. SafetyInv => LiveAddressKept
  BY DEF SafetyInv
<1> QED  BY <1>1, Safety, PTL

(* A complete record that is stamped with a scheme holds what a table of   *)
(* that scheme derives (reserved_ip_guard.go, stampScheme).                *)
THEOREM StampTruth == Spec => []StampIsTrue
<1>1. SafetyInv => StampIsTrue
  BY DEF SafetyInv
<1> QED  BY <1>1, Safety, PTL

-----------------------------------------------------------------------------
(* Forecasts. *)

\* What a run does to a record: its cells one by one, and its stamp.
LEMMA ChangeType ==
    ASSUME NEW t \in Tables, NEW f \in BOOLEAN, NEW r \in Records, NEW c \in Contents
    PROVE  /\ Change(t, f, r, c) \in Contents
           /\ \A k \in Keys : Change(t, f, r, c).ip[k] = NewCell(t, f, r, c, k)
           /\ Change(t, f, r, c).scheme = NewStamp(t, f, r, c)
<1>1. t.at[r] \in Cells /\ t.scheme \in Schemes
  BY TableType
<1>2. \A k \in Keys : NewCell(t, f, r, c, k) \in Addrs \cup {None}
  BY <1>1 DEF NewCell, Cells
<1>3. NewStamp(t, f, r, c) \in Schemes \cup {None}
  BY <1>1 DEF NewStamp
<1> QED  BY <1>2, <1>3 DEF Change, Contents, Cells

\* The result of a run on a record is a record.
LEMMA ResultType ==
    ASSUME NEW t \in Tables, NEW f \in BOOLEAN, NEW r \in Records, NEW c \in Contents
    PROVE  Result(t, f, r, c) \in Contents
BY ChangeType, OverType DEF Result

\* The same command once more changes nothing.
LEMMA ResultIdempotent ==
    ASSUME NEW t \in Tables, NEW f \in BOOLEAN, NEW r \in Records, NEW c \in Contents
    PROVE  Result(t, f, r, Result(t, f, r, c)) = Result(t, f, r, c)
<1> DEFINE d == Over(Change(t, f, r, c), c)
<1>1. CASE t.at[r] = Nothing.ip
  BY <1>1 DEF Result
<1>2. CASE t.at[r] # Nothing.ip
  <2>1. d \in Contents /\ t.scheme # None
    BY ChangeType, OverType, TableType
  <2>2. \A k \in Keys : d.ip[k] = IF NewCell(t, f, r, c, k) # None
                                  THEN NewCell(t, f, r, c, k) ELSE c.ip[k]
    BY ChangeType, OverType
  <2>3. \A k \in Keys : NewCell(t, f, r, d, k) = None
    BY <2>2 DEF NewCell
  <2>4. Agrees(t, r, d) => f \/ Agrees(t, r, c)
    BY <2>2 DEF Agrees, NewCell
  <2>5. NewStamp(t, f, r, d) = None
    <3>1. d.scheme = IF NewStamp(t, f, r, c) # None THEN NewStamp(t, f, r, c) ELSE c.scheme
      BY ChangeType, OverType
    <3> QED  BY <2>1, <2>4, <3>1 DEF NewStamp
  <2>6. Over(Change(t, f, r, d), d) \in Contents
    BY <2>1, ChangeType, OverType
  <2>7. Over(Change(t, f, r, d), d).scheme = d.scheme
    BY <2>1, <2>5, ChangeType, OverType
  <2>8. \A k \in Keys : Over(Change(t, f, r, d), d).ip[k] = d.ip[k]
    BY <2>1, <2>3, ChangeType, OverType
  <2>9. Over(Change(t, f, r, d), d) = d
    BY <2>1, <2>6, <2>7, <2>8, SameContents
  <2> QED  BY <1>2, <2>9 DEF Result
<1> QED  BY <1>1, <1>2

\* What the guard writes is what the command changes, if it has read the record as it is.
LEMMA WritesAreTheChange ==
    ASSUME TypeOK, run.record \in Records
    PROVE  Writes = Change(run.table, run.force, run.record, run.held)
<1> DEFINE c == Change(run.table, run.force, run.record, run.held)
<1>1. /\ run.table \in Tables /\ run.force \in BOOLEAN /\ run.held \in Contents
  BY DEF TypeOK, Runs
<1>2. Writes \in Contents /\ c \in Contents
  BY <1>1, WritesType, ChangeType
<1>3. ASSUME NEW k \in Keys PROVE Writes.ip[k] = c.ip[k]
  <2>1. c.ip[k] = NewCell(run.table, run.force, run.record, run.held, k)
    BY <1>1, ChangeType
  <2>2. Writes.ip[k] = IF k \in Fresh \/ (run.force /\ k \in Drifted)
                       THEN Derived(run.record)[k] ELSE None
    BY WritesType
  <2>3. k \in Fresh <=> run.table.at[run.record][k] # None /\ run.held.ip[k] = None
    BY DEF Fresh, Derived
  <2>4. k \in Drifted <=> /\ run.table.at[run.record][k] # None
                          /\ run.held.ip[k] \notin {None, run.table.at[run.record][k]}
    BY DEF Drifted, Derived
  <2> QED  BY <1>1, <2>1, <2>2, <2>3, <2>4 DEF NewCell, Derived
<1>4. Writes.scheme = c.scheme
  <2>1. c.scheme = NewStamp(run.table, run.force, run.record, run.held)
    BY <1>1, ChangeType
  <2>2. Drifted = {} <=> Agrees(run.table, run.record, run.held)
    BY DEF Drifted, Agrees, Derived
  <2>3. Writes.scheme = Stamp
    BY WritesType
  <2> QED  BY <2>1, <2>2, <2>3 DEF NewStamp, Stamp
<1> QED  BY <1>2, <1>3, <1>4, SameContents

\* There is no forecast at the start.
LEMMA InitForecast == Init => ForecastInv
BY DEF Init, ForecastInv, DryIsExact, ForecastIsExact, AheadIsListed, NoRun, NoForecast

\* Where a forecast is withdrawn and the run is over.
LEMMA Withdrawn == ASSUME Abort PROVE ForecastInv'
BY DEF Abort, ForecastInv, DryIsExact, ForecastIsExact, AheadIsListed, NoRun, NoForecast

\* A run that is not the one foretold withdraws the forecast.
LEMMA StartForecast ==
    ASSUME SafetyInv, ForecastInv, NEW t \in Tables, NEW force \in BOOLEAN, NEW dry \in BOOLEAN,
           Start(t, force, dry)
    PROVE  ForecastInv'
<1>1. /\ run'.pc = "read" /\ run'.table = t /\ run'.force = force /\ run'.dry = dry
      /\ run'.todo = {r \in Records : t.at[r] # Nothing.ip}
      /\ run'.pending = [r \in Records |-> Nothing]
      /\ run.pc = "idle" /\ done'.ok = FALSE /\ vault' = vault
  BY NoRunType DEF Start, Runs, NoRun, NoneDone
<1>2. TypeOK
  BY DEF SafetyInv
<1>3. Ahead' = {r \in Records : t.at[r] # Nothing.ip}
  BY <1>1 DEF Ahead, AtRecord
<1>4. ASSUME NEW r \in Records, t.at[r] = Nothing.ip
      PROVE  Result(t, force, r, vault[r]) = vault[r]
  BY <1>4 DEF Result
<1>5. DryIsExact'
  <2>1. ASSUME NEW r \in Records PROVE run'.pending[r] = Nothing
    BY <1>1
  <2>2. ASSUME NEW r \in Records, r \notin Ahead', run'.dry
        PROVE  Visible(r)' = Result(run.table, run.force, r, vault[r])'
    <3>1. Visible(r)' = Over(Nothing, vault[r])
      BY <1>1, <2>1, <2>2 DEF Visible
    <3>2. Visible(r)' = vault[r]
      BY <1>2, <3>1, OverNothing DEF TypeOK
    <3> QED  BY <1>1, <1>3, <1>4, <2>2, <3>2
  <2> QED  BY <1>1, <2>1, <2>2 DEF DryIsExact, AtRecord
<1>6. ForecastIsExact'
  <2>1. CASE ~dry /\ forecast.table = t /\ forecast.force = force
    <3>1. forecast' = forecast
      BY <2>1 DEF Start
    <3>2. ASSUME forecast.valid, NEW r \in Records
          PROVE  forecast.vault[r] = Result(t, force, r, vault[r])
      BY <2>1, <3>2 DEF ForecastInv, ForecastIsExact
    <3> QED  BY <1>1, <1>3, <1>4, <2>1, <3>1, <3>2 DEF ForecastIsExact, AtRecord
  <2>2. CASE ~(~dry /\ forecast.table = t /\ forecast.force = force)
    <3>1. forecast' = NoForecast
      BY <2>2 DEF Start
    <3> QED  BY <1>1, <3>1 DEF ForecastIsExact, NoForecast
  <2> QED  BY <2>1, <2>2
<1>7. AheadIsListed'
  BY <1>1, <1>3 DEF AheadIsListed, Nothing
<1> QED  BY <1>5, <1>6, <1>7 DEF ForecastInv

\* What a run sees of a record it has not seen to is what vault holds.
LEMMA SeenAhead ==
    ASSUME TypeOK, DryIsExact, run.pc # "idle", NEW r \in Ahead, r \in Records
    PROVE  Visible(r) = vault[r]
<1>1. vault[r] \in Contents
  BY DEF TypeOK
<1>2. CASE run.dry
  BY <1>1, <1>2, OverNothing DEF DryIsExact, Visible
<1>3. CASE ~run.dry
  BY <1>3 DEF Visible
<1> QED  BY <1>2, <1>3

\* Reading a record foretells nothing new.
LEMMA ReadForecast ==
    ASSUME SafetyInv, ForecastInv, ReadExisting
    PROVE  ForecastInv'
<1>1. CASE Fail /\ Abort
  BY <1>1, Withdrawn
<1>2. ASSUME NEW r \in run.todo, r \in Records, TakenUp(r) PROVE ForecastInv'
  <2>1. /\ run.pc = "read" /\ r \in Ahead /\ Ahead = run.todo
        /\ UNCHANGED <<vault, done>>
    BY <1>2 DEF ReadExisting, Ahead, AtRecord
  <2>2. /\ run'.pc = "purge" /\ run'.record = r /\ run'.todo = run.todo \ {r}
        /\ run'.dry = run.dry /\ run'.table = run.table
        /\ run'.force = run.force /\ run'.pending = run.pending
        /\ run.misread \subseteq run'.misread
    BY <1>2 DEF TakenUp
  <2>3. Ahead' = Ahead /\ AtRecord'
    BY <2>1, <2>2 DEF Ahead, AtRecord
  <2>4. \/ run'.held = vault'[r] /\ forecast' = forecast
        \/ r \in run'.misread /\ forecast' = NoForecast
    BY <1>2, <2>1, SeenAhead DEF TakenUp, SafetyInv, ForecastInv
  <2>5. \A q \in Records : Visible(q)' = Visible(q)
    BY <2>1, <2>2 DEF Visible
  <2>6. DryIsExact'
    BY <2>1, <2>2, <2>3, <2>4, <2>5 DEF ForecastInv, DryIsExact
  <2>7. ForecastIsExact'
    <3>1. CASE forecast' = NoForecast
      BY <2>1, <2>2, <3>1 DEF ForecastInv, ForecastIsExact, NoForecast
    <3>2. CASE run'.held = vault'[r] /\ forecast' = forecast
      BY <2>1, <2>2, <2>3, <3>2 DEF ForecastInv, ForecastIsExact
    <3> QED  BY <2>4, <3>1, <3>2
  <2>8. AheadIsListed'
    BY <2>1, <2>2, <2>3 DEF ForecastInv, AheadIsListed, Nothing
  <2> QED  BY <2>6, <2>7, <2>8 DEF ForecastInv
<1> QED  BY <1>1, <1>2, ReadTakesUp DEF SafetyInv

\* A deletion that does not fail changes nothing, and one that fails withdraws the forecast.
LEMMA PurgeForecast ==
    ASSUME SafetyInv, ForecastInv, PurgeObsolete
    PROVE  ForecastInv'
<1> DEFINE r == run.record
<1>1. r \in Records /\ run.pc = "purge" /\ TypeOK
  BY DEF PurgeObsolete, SafetyInv, AtARecord, AtRecord
<1>2. PICK k \in run.purge :
        \/ /\ run' = [run EXCEPT !.purge = @ \ {k}]
           /\ vault' = [vault EXCEPT ![r] = Over(Rest(r, k), @)]
           /\ UNCHANGED <<faults, dropped, forecast>>
        \/ /\ ~run.dry /\ Fail
           /\ run' = [run EXCEPT !.purge = @ \ {k}]
           /\ vault' = [vault EXCEPT ![r] = Rest(r, k)]
           /\ dropped' = dropped \cup {<<r, k>>}
           /\ forecast' = NoForecast
        \/ ~run.dry /\ Fail /\ Abort /\ UNCHANGED <<vault, dropped>>
  BY DEF PurgeObsolete
<1>3. k \in Keys
  BY <1>1 DEF TypeOK, Runs
<1>4. UNCHANGED done
  BY DEF PurgeObsolete
<1>5. CASE Abort
  BY <1>5, Withdrawn
<1>6. CASE run' = [run EXCEPT !.purge = @ \ {k}]
  <2>1. /\ run'.pc = run.pc /\ run'.record = r /\ run'.held = run.held
        /\ run'.todo = run.todo /\ run'.dry = run.dry /\ run'.table = run.table
        /\ run'.force = run.force /\ run'.pending = run.pending
        /\ run'.misread = run.misread
    BY <1>6 DEF SafetyInv, TypeOK, Runs
  <2>2. Ahead' = Ahead
    BY <2>1 DEF Ahead, AtRecord
  <2>6. AheadIsListed'
    BY <1>1, <2>1, <2>2 DEF ForecastInv, AheadIsListed, Nothing
  <2>3. CASE vault' = [vault EXCEPT ![r] = Over(Rest(r, k), @)] /\ UNCHANGED forecast
    <3>1. vault' = vault
      BY <1>1, <1>3, <2>3, RestType DEF TypeOK
    <3>2. \A q \in Records : Visible(q)' = Visible(q)
      BY <2>1, <3>1 DEF Visible
    <3>3. DryIsExact'
      BY <1>1, <2>1, <2>2, <3>1, <3>2 DEF ForecastInv, DryIsExact, AtRecord
    <3>4. ForecastIsExact'
      BY <1>1, <1>4, <2>1, <2>2, <2>3, <3>1 DEF ForecastInv, ForecastIsExact, AtRecord
    <3> QED  BY <2>6, <3>3, <3>4 DEF ForecastInv
  <2>4. CASE ~run.dry /\ forecast' = NoForecast
    BY <1>1, <1>4, <2>1, <2>4, <2>6 DEF ForecastInv, DryIsExact, ForecastIsExact, NoForecast
  <2>5. CASE Abort
    BY <2>5, Withdrawn
  <2> QED  BY <1>2, <2>3, <2>4, <2>5
<1> QED  BY <1>2, <1>5, <1>6

\* A dry run shows the record it leaves as the real one would leave it.
LEMMA PurgeDoneForecast ==
    ASSUME SafetyInv, ForecastInv, PurgeDone
    PROVE  ForecastInv'
<1>1. /\ run.pc = "purge" /\ run'.pc = "write"
      /\ run'.record = run.record /\ run'.held = run.held
      /\ run'.todo = run.todo /\ run'.dry = run.dry /\ run'.table = run.table
      /\ run'.force = run.force /\ run'.pending = run.pending
      /\ run'.misread = run.misread
      /\ UNCHANGED <<vault, done, forecast>>
  BY DEF PurgeDone, SafetyInv, TypeOK, Runs
<1>2. Ahead' = Ahead /\ AtRecord' = AtRecord /\ AtRecord
  BY <1>1 DEF Ahead, AtRecord
<1>3. \A q \in Records : Visible(q)' = Visible(q)
  BY <1>1 DEF Visible
<1>4. DryIsExact'
  BY <1>1, <1>2, <1>3 DEF ForecastInv, DryIsExact
<1>5. ForecastIsExact'
  BY <1>1, <1>2 DEF ForecastInv, ForecastIsExact
<1>6. AheadIsListed'
  BY <1>1, <1>2 DEF ForecastInv, AheadIsListed, Nothing
<1> QED  BY <1>4, <1>5, <1>6 DEF ForecastInv

\* The guard is done with its record: vault or what is pending holds the result.
LEMMA WriteForecast ==
    ASSUME SafetyInv, ForecastInv, GuardedWrite
    PROVE  ForecastInv'
<1> DEFINE r == run.record
           Done(c) == Result(run.table, run.force, r, c)
<1>1. /\ r \in Records /\ run.pc = "write" /\ AtRecord /\ TypeOK /\ r \notin run.todo
      /\ UNCHANGED done
  BY DEF GuardedWrite, SafetyInv, AtARecord, AtRecord, ReadIsFresh
<1>2. /\ Writes \in Contents /\ vault[r] \in Contents
      /\ run.table \in Tables /\ run.force \in BOOLEAN
      /\ run.pending \in [Records -> Contents]
  BY <1>1, WritesType DEF TypeOK, Runs
<1>3. ASSUME run.held = vault[r] PROVE Over(Writes, vault[r]) = Done(vault[r])
  <2>1. run.table.at[r] # Nothing.ip
    BY <1>1 DEF ForecastInv, AheadIsListed, Ahead
  <2> QED  BY <1>1, <1>3, <2>1, WritesAreTheChange DEF Result
<1>4. CASE Abort
  BY <1>4, Withdrawn
<1>5. ASSUME NEW pending \in [Records -> Contents], Left(run', pending),
             forecast' = forecast \/ forecast' = NoForecast,
             run.dry => /\ vault' = vault
                        /\ pending = [run.pending EXCEPT ![r] = Over(Writes, @)],
             ~run.dry /\ forecast' # NoForecast
               => vault' = [vault EXCEPT ![r] = Over(Writes, @)]
      PROVE  ForecastInv'
  <2>1. /\ run'.pc = "read" /\ run'.todo = run.todo /\ run'.pending = pending
        /\ run'.table = run.table /\ run'.force = run.force /\ run'.dry = run.dry
        /\ run'.misread = run.misread
    BY <1>1, <1>5, LeaveType
  <2>2. ~AtRecord' /\ Ahead = run.todo \cup {r} /\ Ahead' = run.todo
    BY <1>1, <2>1 DEF Ahead, AtRecord
  <2>3. AheadIsListed'
    BY <1>1, <2>1, <2>2 DEF ForecastInv, AheadIsListed, Nothing
  <2>4. DryIsExact'
    <3> SUFFICES ASSUME run.dry, NEW q \in Records
                 PROVE  /\ q \in Ahead' => pending[q] = Nothing
                        /\ q \notin Ahead' \cup run.misread =>
                             Visible(q)' = Result(run.table, run.force, q, vault[q])
      BY <1>5, <2>1, <2>2 DEF DryIsExact
    <3>1. CASE q = r
      <4>1. run.pending[r] = Nothing /\ (r \notin run.misread => run.held = vault[r])
        BY <1>1, <2>2 DEF ForecastInv, DryIsExact
      <4>2. pending[r] = Writes
        BY <1>1, <1>2, <1>5, <4>1, OverNothing
      <4>3. Visible(q)' = Over(Writes, vault[q])
        BY <1>5, <2>1, <3>1, <4>2 DEF Visible
      <4>4. q \notin Ahead'
        BY <1>1, <2>2, <3>1
      <4> QED  BY <1>1, <1>3, <3>1, <4>1, <4>3, <4>4
    <3>2. CASE q # r
      <4>1. pending[q] = run.pending[q] /\ (q \in Ahead' <=> q \in Ahead)
        BY <1>2, <1>5, <2>2, <3>2
      <4>2. Visible(q)' = Visible(q)
        BY <1>5, <2>1, <4>1 DEF Visible
      <4> QED  BY <1>1, <4>1, <4>2 DEF ForecastInv, DryIsExact
    <3> QED  BY <3>1, <3>2
  <2>5. ForecastIsExact'
    <3>1. CASE forecast' = NoForecast
      BY <1>1, <2>1, <3>1 DEF ForecastInv, ForecastIsExact, NoForecast
    <3>2. CASE forecast' = forecast /\ ~forecast.valid
      BY <1>1, <2>1, <3>2 DEF ForecastInv, ForecastIsExact
    <3>3. CASE forecast' = forecast /\ forecast.valid
      <4>1. /\ ~run.dry /\ run.table = forecast.table /\ run.force = forecast.force
            /\ run.held = vault[r] /\ ~done.ok
            /\ \A q \in Records : forecast.vault[q] = Result(run.table, run.force, q, vault[q])
            /\ \A q \in Records \ Ahead : forecast.vault[q] = vault[q]
        BY <1>1, <3>3 DEF ForecastInv, ForecastIsExact
      <4>2. vault' = [vault EXCEPT ![r] = Done(vault[r])]
        BY <1>3, <1>5, <3>3, <4>1 DEF NoForecast
      <4>3. vault'[r] = Done(vault[r]) /\ \A q \in Records \ {r} : vault'[q] = vault[q]
        BY <1>1, <4>2 DEF TypeOK
      <4>4. Done(vault'[r]) = vault'[r]
        BY <1>1, <1>2, <4>3, ResultIdempotent
      <4>5. \A q \in Records : forecast.vault[q] = Result(run.table, run.force, q, vault'[q])
        BY <1>1, <4>1, <4>3, <4>4
      <4>6. \A q \in Records \ Ahead' : forecast.vault[q] = vault'[q]
        BY <1>1, <2>2, <4>1, <4>3
      <4> QED  BY <1>1, <2>1, <2>2, <3>3, <4>1, <4>5, <4>6 DEF ForecastIsExact
    <3> QED  BY <1>5, <3>1, <3>2, <3>3
  <2> QED  BY <2>3, <2>4, <2>5 DEF ForecastInv
<1>6. CASE /\ Writes = Nothing /\ run' = Leave(run.pending)
           /\ UNCHANGED <<vault, faults, moved, dropped, forecast>>
  <2>1. run.pending = [run.pending EXCEPT ![r] = Over(Writes, @)]
    BY <1>1, <1>2, <1>6, OverNothing
  <2>2. vault = [vault EXCEPT ![r] = Over(Writes, @)]
    BY <1>1, <1>2, <1>6, OverNothing DEF TypeOK
  <2> QED  BY <1>2, <1>5, <1>6, <2>1, <2>2 DEF Left
<1>7. CASE /\ SetMultiple(r, Writes)
           /\ run' = [Leave(Recorded(r, Writes)) EXCEPT !.engine = @ \/ ~run.dry]
           /\ forecast' = IF faults' = faults THEN forecast ELSE NoForecast
  <2>1. Recorded(r, Writes) \in [Records -> Contents]
    BY <1>1, <1>2, RecordedType
  <2>2. run.dry => /\ vault' = vault
                   /\ Recorded(r, Writes) = [run.pending EXCEPT ![r] = Over(Writes, @)]
    BY <1>7 DEF SetMultiple, Recorded
  <2>3. Fail => faults' # faults
    BY <1>1 DEF Fail, TypeOK
  <2>4. ~run.dry /\ forecast' # NoForecast => vault' = [vault EXCEPT ![r] = Over(Writes, @)]
    BY <1>7, <2>3 DEF SetMultiple
  <2> QED  BY <1>5, <1>7, <2>1, <2>2, <2>4 DEF Left
<1> QED  BY <1>4, <1>6, <1>7 DEF GuardedWrite

\* A dry run that reports has shown every record.
LEMMA ReportForecast ==
    ASSUME SafetyInv, ForecastInv, Report
    PROVE  ForecastInv'
<1>1. /\ run'.pc = "idle" /\ run.pc = "read" /\ Ahead = {} /\ vault' = vault /\ TypeOK
  BY DEF Report, NoRun, Ahead, AtRecord, SafetyInv
<1>2. DryIsExact' /\ AheadIsListed'
  BY <1>1 DEF DryIsExact, AheadIsListed
<1>3. CASE run.dry
  <2>1. /\ forecast'.table = run.table /\ forecast'.force = run.force
        /\ forecast'.vault = [r \in Records |-> Visible(r)]
        /\ (forecast'.valid <=> run.misread = {})
        /\ ~done'.ok
    <3>1. forecast' = [valid |-> run.misread = {}, table |-> run.table, force |-> run.force,
                       vault |-> [r \in Records |-> Visible(r)]]
      BY <1>3 DEF Report
    <3>2. done' = done /\ ~done.ok
      BY <1>1, <1>3 DEF Report, ForecastInv, ForecastIsExact
    <3>3. forecast'.valid <=> run.misread = {}
      BY <3>1, Zenon
    <3>4. /\ forecast'.table = run.table /\ forecast'.force = run.force
          /\ forecast'.vault = [r \in Records |-> Visible(r)]
      BY <3>1, Zenon
    <3> QED  BY <3>2, <3>3, <3>4
  <2>2. run.misread = {} => \A r \in Records : forecast'.vault[r] = Result(run.table, run.force, r, vault[r])
    BY <1>1, <1>3, <2>1 DEF ForecastInv, DryIsExact
  <2>3. ForecastIsExact'
    BY <1>1, <2>1, <2>2 DEF ForecastIsExact
  <2> QED  BY <1>2, <2>3 DEF ForecastInv
<1>4. CASE ~run.dry
  <2>1. forecast' = forecast /\ done'.ok
    BY <1>4 DEF Report
  <2>2. ASSUME forecast.valid PROVE vault = forecast.vault
    <3>1. \A r \in Records : forecast.vault[r] = vault[r]
      BY <1>1, <2>2 DEF ForecastInv, ForecastIsExact
    <3> QED  BY <1>1, <3>1 DEF TypeOK, Forecasts
  <2>3. ForecastIsExact'
    BY <1>1, <2>1, <2>2 DEF ForecastInv, ForecastIsExact
  <2> QED  BY <1>2, <2>3 DEF ForecastInv
<1> QED  BY <1>3, <1>4

\* No step makes a forecast false.
LEMMA NextForecast == SafetyInv /\ ForecastInv /\ [Next]_vars => ForecastInv'
<1> SUFFICES ASSUME SafetyInv, ForecastInv, [Next]_vars PROVE ForecastInv'
  OBVIOUS
<1>1. ASSUME UNCHANGED <<vault, run, done, forecast>> PROVE ForecastInv'
  <2>1. Ahead' = Ahead /\ AtRecord' = AtRecord
    BY <1>1 DEF Ahead, AtRecord
  <2>2. \A r \in Records : Visible(r)' = Visible(r)
    BY <1>1 DEF Visible
  <2>3. DryIsExact'
    BY <1>1, <2>1, <2>2 DEF ForecastInv, DryIsExact
  <2>4. ForecastIsExact'
    BY <1>1, <2>1 DEF ForecastInv, ForecastIsExact
  <2>5. AheadIsListed'
    BY <1>1, <2>1 DEF ForecastInv, AheadIsListed, Nothing
  <2> QED  BY <2>3, <2>4, <2>5 DEF ForecastInv
<1>2. ASSUME NEW r \in Records, NEW k \in Keys, Deploy(r, k) PROVE ForecastInv'
  BY <1>1, <1>2 DEF Deploy
<1>3. CASE Kill
  BY <1>3, Withdrawn DEF Kill
<1>4. CASE UNCHANGED vars
  BY <1>1, <1>4 DEF vars
<1> QED  BY <1>2, <1>3, <1>4, StartForecast, ReadForecast, PurgeForecast,
            PurgeDoneForecast, WriteForecast, ReportForecast DEF Next

(* What a dry run says is what the same command, run next and undisturbed, *)
(* leaves (manager.go, populateDryRun; safe_recorder.go).                  *)
THEOREM DryRunsForetell == Spec => []DryRunPredicts
<1>1. Init => SafetyInv /\ ForecastInv
  BY InitSafe, InitForecast
<1>2. SafetyInv /\ ForecastInv /\ [Next]_vars => SafetyInv' /\ ForecastInv'
  BY NextSafe, NextForecast
<1>3. ForecastInv => DryRunPredicts
  BY DEF ForecastInv, ForecastIsExact, DryRunPredicts
<1> QED  BY <1>1, <1>2, <1>3, PTL DEF Spec
=============================================================================
