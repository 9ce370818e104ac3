-------------------------- MODULE StateStoreProofs --------------------------
(***************************************************************************)
(* What is proved about StateStore, for any commands, jobs, keys, faults   *)
(* and bounds: the types, that one teardown is at work at a time, that a   *)
(* readable copy is left after one fault, and that nothing saved is        *)
(* forgotten while nothing goes wrong.                                     *)
(*                                                                         *)
(* The invariant grows by what each property needs of the steps between a  *)
(* load and a save: who owns the lock (Owned) and who is at work (Alone);  *)
(* in which file an open descriptor writes (InPlace); that what a command  *)
(* carries in memory is at least what the file says (Recalled); and, after *)
(* one fault, that it is in memory or in some file (Copied).               *)
(***************************************************************************)
EXTENDS StateStore, FiniteSetTheorems, TLAPS

USE StoreAssumption

-----------------------------------------------------------------------------
(* The invariant. *)

\* Where a command of each role may be, and what it has done by then.
Roled ==
  \A p \in Process :
    /\ Role[p] = "syncer" => pc[p] \notin {"unlocked", "forced", "renamed", "opened"}
    /\ Role[p] # "syncer" => pc[p] \notin {"backed", "written", "failed", "reopened"}
    /\ todo[p] \subseteq Job[p]
    /\ pc[p] \in {"start", "unlocked", "forced"} => todo[p] = Job[p]
    /\ Role[p] = "syncer" /\ pc[p] = "loaded" => todo[p] = Job[p]
    /\ Role[p] # "syncer" => made[p] = NoStamp
    /\ made[p] # NoStamp => pc[p] \notin {"start", "loaded", "changed"} /\ stamped # {}
    /\ pc[p] \in {"failed", "reopened"} => made[p] # NoStamp

\* One of the backups is the latest, and the names tell them apart.
Stamped ==
  /\ stamped # {} => \E b \in stamped : \A c \in stamped : c.at <= b.at
  /\ \A b, c \in stamped : b.at = c.at => b = c

\* Only a command that writes in place has a file open.
Handles == \A p \in Process : pc[p] \notin {"opened", "reopened"} => fd[p] = "none"

Shape == TypeOK /\ Roled /\ Stamped /\ Handles

\* The lock file names the remover that works on the state.
Owned == seized = {} => \A p \in Process : Critical(p) => lock = p

-----------------------------------------------------------------------------
(* Files and backups. *)

\* A file is one of four kinds, and a whole file is given by its keys.
LEMMA FileFields ==
  /\ Absent \in File /\ Empty \in File /\ Torn \in File
  /\ \A keys \in SUBSET Resource : Whole(keys) \in File
  /\ \A f \in File : /\ f.is \in {"absent", "empty", "torn", "whole"}
                     /\ f.keys \subseteq Resource
                     /\ f.is = "absent" <=> f = Absent
                     /\ f.is = "whole" => f = Whole(f.keys)
                     /\ f.is # "whole" => f.keys = {}
<1>1. /\ Absent \in File /\ Empty \in File /\ Torn \in File
      /\ \A keys \in SUBSET Resource : Whole(keys) \in File
  BY DEF File
<1>2. ASSUME NEW f \in File
      PROVE  /\ f.is \in {"absent", "empty", "torn", "whole"}
             /\ f.keys \subseteq Resource
             /\ f.is = "absent" <=> f = Absent
             /\ f.is = "whole" => f = Whole(f.keys)
             /\ f.is # "whole" => f.keys = {}
  <2>1. CASE f \in {Absent, Empty, Torn}
    BY <2>1 DEF Absent, Empty, Torn
  <2>2. CASE f \in {Whole(k) : k \in SUBSET Resource}
    <3>1. PICK k \in SUBSET Resource : f = Whole(k)
      BY <2>2
    <3> QED  BY <3>1 DEF Whole, Absent
  <2> QED  BY <2>1, <2>2 DEF File
<1> QED  BY <1>1, <1>2

\* What is written over an empty file is all there is.
LEMMA OverFile ==
  ASSUME NEW old \in File, NEW new \in File
  PROVE  Over(old, new) \in File /\ (old = Empty => Over(old, new) = new)
BY FileFields DEF Over, Empty

\* The backup that sorts last is one of the backups.
LEMMA Latest ==
  ASSUME Shape, stamped # {}
  PROVE  LatestBackup \in stamped /\ \A c \in stamped : c.at <= LatestBackup.at
BY DEF Shape, Stamped, LatestBackup

\* A new backup keeps the names apart and the last one last.
LEMMA BackupsStamped ==
  ASSUME Shape, NEW at \in 0 .. MaxClock, NEW doc \in File
  PROVE  /\ Backups(at, doc) \subseteq [at : 0 .. MaxClock, doc : File]
         /\ Backups(at, doc) # {}
         /\ \E b \in Backups(at, doc) : \A c \in Backups(at, doc) : c.at <= b.at
         /\ \A b, c \in Backups(at, doc) : b.at = c.at => b = c
<1> DEFINE new == [at |-> at, doc |-> doc]
           B == Backups(at, doc)
<1>1. \A b \in B : b = new \/ (b \in stamped /\ b.at # at)
  BY DEF Backups
<1>2. new \in B /\ \A b \in stamped : b.at # at => b \in B
  BY DEF Backups
<1>3. \A b \in stamped : b.at \in 0 .. MaxClock
  BY DEF Shape, TypeOK
<1>4. B \subseteq [at : 0 .. MaxClock, doc : File]
  BY <1>1 DEF Shape, TypeOK
<1>5. \A b, c \in B : b.at = c.at => b = c
  BY <1>1 DEF Shape, Stamped
<1>6. \E b \in B : \A c \in B : c.at <= b.at
  <2>1. CASE \A b \in stamped : b.at <= at
    BY <1>1, <1>2, <2>1
  <2>2. CASE \E b \in stamped : ~(b.at <= at)
    <3>1. PICK b \in stamped : \A c \in stamped : c.at <= b.at
      BY <2>2 DEF Shape, Stamped
    <3>2. b.at > at
      BY <1>3, <2>2, <3>1
    <3>3. b \in B
      BY <1>2, <1>3, <3>2
    <3>4. \A c \in B : c.at <= b.at
      BY <1>1, <1>3, <3>1, <3>2
    <3> QED  BY <3>3, <3>4
  <2> QED  BY <2>1, <2>2
<1> QED  BY <1>2, <1>4, <1>5, <1>6

\* The cleanup keeps the last backup: no other is later.
LEMMA NewestStamped ==
  ASSUME Shape
  PROVE  /\ Newest \subseteq stamped
         /\ stamped # {} => Newest # {}
         /\ Newest # {} => \E b \in Newest : \A c \in Newest : c.at <= b.at
<1>1. Newest \subseteq stamped
  BY DEF Newest
<1>2. ASSUME stamped # {} PROVE \E b \in Newest : \A c \in Newest : c.at <= b.at
  <2>1. PICK b \in stamped : \A c \in stamped : c.at <= b.at
    BY <1>2 DEF Shape, Stamped
  <2>2. \A c \in stamped : c.at \in 0 .. MaxClock
    BY DEF Shape, TypeOK
  <2>3. {c \in stamped : c.at > b.at} = {}
    BY <2>1, <2>2
  <2>4. b \in Newest
    BY <2>3, FS_EmptySet DEF Newest
  <2> QED  BY <1>1, <2>1, <2>4
<1> QED  BY <1>1, <1>2

\* What a write leaves, and who has a file open after it.
LEMMA WriteThroughTypes ==
  ASSUME Shape, NEW p \in Process, NEW infile \in File, NEW inplain \in File,
         WriteThrough(p, infile, inplain)
  PROVE  /\ file' \in File /\ plain' \in File
         /\ fd' \in [Process -> {"file", "plain", "none"}]
         /\ fd'[p] = "none" /\ \A q \in Process : fd[q] = "none" => fd'[q] = "none"
BY DEF Shape, TypeOK, WriteThrough

\* A write that is cut short leaves files of the four kinds.
LEMMA CutThroughTypes ==
  ASSUME Shape, NEW p \in Process, CutThrough(p)
  PROVE  /\ file' \in File /\ plain' \in File
         /\ fd' \in [Process -> {"file", "plain", "none"}]
         /\ fd'[p] = "none" /\ \A q \in Process : fd[q] = "none" => fd'[q] = "none"
BY WriteThroughTypes, FileFields DEF CutThrough

\* The open files follow a rename, whoever has them open.
LEMMA MovedTypes ==
  ASSUME Shape
  PROVE  /\ FileMoved \in [Process -> {"file", "plain", "none"}]
         /\ FileReplaced \in [Process -> {"file", "plain", "none"}]
         /\ \A q \in Process : fd[q] = "none" => FileMoved[q] = "none" /\ FileReplaced[q] = "none"
BY DEF Shape, TypeOK, FileMoved, FileReplaced

-----------------------------------------------------------------------------
(* The shape of the state, step by step. *)

\* A fault is counted, and named.
LEMMA FaultTypes ==
  ASSUME TypeOK, NEW kind \in FaultKinds, Fails(kind) \/ UNCHANGED hazards
  PROVE  faults' \in 0 .. MaxFaults /\ happened' \subseteq FaultKinds
BY DEF TypeOK, Fails, hazards

\* No command has started.
LEMMA InitShape == Init => Shape
<1> SUFFICES ASSUME Init PROVE Shape
  OBVIOUS
<1>1. TypeOK
  <2>1. 0 \in 0 .. MaxClock /\ 0 \in 0 .. MaxFaults
    OBVIOUS
  <2>2. file \in File /\ plain \in File
    BY FileFields DEF Init
  <2>3. pc \in [Process -> Points] /\ mem \in [Process -> Document]
    BY DEF Init, Points, Document, Blank
  <2>4. fate \in [Resource -> BOOLEAN]
    BY DEF Init
  <2> QED  BY <2>1, <2>2, <2>3, <2>4 DEF Init, TypeOK
<1>2. Roled /\ Stamped /\ Handles
  BY DEF Init, Roled, Stamped, Handles
<1> QED  BY <1>1, <1>2 DEF Shape

\* Load reads the file, whatever it is.
LEMMA LoadShape == ASSUME Shape, NEW p \in Process, Load(p) PROVE Shape'
<1>1. /\ UNCHANGED <<file, plain, fd, stamped, lock, clock, faults, happened, todo, made, fate, seized>>
      /\ pc[p] = "start"
      /\ \E point \in {"unlocked", "loaded", "gone"} :
            /\ pc' = [pc EXCEPT ![p] = point]
            /\ point = "unlocked" => Role[p] = "remover"
  BY DEF Load, LoadFresh, LoadWhole, LoadEmpty, LoadRefused, AfterLoad, Goto, disk, hazards
<1>2. mem' \in [Process -> Document]
  <2>1. mem' = mem \/ \E d \in Document : mem' = [mem EXCEPT ![p] = d]
    BY FileFields DEF Load, LoadFresh, LoadWhole, LoadEmpty, LoadRefused, Shape, TypeOK, Document, Blank
  <2> QED  BY <2>1 DEF Shape, TypeOK
<1>3. astray' \subseteq Process /\ overlap' \in BOOLEAN
  BY DEF Load, Shape, TypeOK
<1>4. TypeOK'
  BY <1>1, <1>2, <1>3, ZenonT(60) DEF Shape, TypeOK, Points
<1>5. Roled' /\ Stamped' /\ Handles'
  BY <1>1 DEF Shape, TypeOK, Roled, Stamped, Handles
<1> QED  BY <1>4, <1>5 DEF Shape

\* A change of the document touches nothing else.
LEMMA ChangeShape ==
  ASSUME Shape, NEW p \in Process,
         (\E k \in Resource : AddResource(p, k) \/ RemoveResource(p, k)) \/ MergeResources(p)
  PROVE  Shape'
<1>1. /\ UNCHANGED <<file, plain, fd, stamped, lock, clock, faults, happened, made, fate, astray, seized, overlap>>
      /\ pc[p] = "loaded"
      /\ \E point \in {"changed", "gone"} : pc' = [pc EXCEPT ![p] = point]
      /\ \E t \in SUBSET todo[p] : todo' = [todo EXCEPT ![p] = t]
  BY DEF AddResource, RemoveResource, MergeResources, Goto, disk, hazards, ghosts
<1>2. mem' \in [Process -> Document]
  <2>0. mem \in [Process -> Document] /\ mem[p].keys \in SUBSET Resource
        /\ todo[p] \in SUBSET Resource
    BY DEF Shape, TypeOK, Document
  <2>1. ASSUME NEW k \in Resource, AddResource(p, k)
        PROVE  mem' = mem \/ mem' = [mem EXCEPT ![p].keys = mem[p].keys \cup {k}]
    BY <2>1 DEF AddResource
  <2>2. ASSUME NEW k \in Resource, RemoveResource(p, k)
        PROVE  mem' = [mem EXCEPT ![p].keys = mem[p].keys \ {k}]
    BY <2>2 DEF RemoveResource
  <2>3. ASSUME MergeResources(p)
        PROVE  mem' = [mem EXCEPT ![p].keys = mem[p].keys \cup todo[p]]
    BY <2>3 DEF MergeResources
  <2>4. mem' = mem \/ \E keys \in SUBSET Resource : mem' = [mem EXCEPT ![p].keys = keys]
    BY <2>0, <2>1, <2>2, <2>3
  <2> QED  BY <2>0, <2>4 DEF Document
<1>3. TypeOK'
  <2>1. pc' \in [Process -> Points] /\ todo' \in [Process -> SUBSET Resource]
    BY <1>1 DEF Shape, TypeOK, Points
  <2> QED  BY <1>1, <1>2, <2>1 DEF Shape, TypeOK
<1>4. Roled' /\ Stamped' /\ Handles'
  BY <1>1 DEF Shape, TypeOK, Roled, Stamped, Handles
<1> QED  BY <1>3, <1>4 DEF Shape

\* SaveState writes a file of its own and renames it, or writes in place.
LEMMA SaveShape ==
  ASSUME Shape, NEW p \in Process, SaveRename(p) \/ SaveOpen(p) \/ SaveWrite(p)
  PROVE  Shape'
<1>1. /\ UNCHANGED <<stamped, lock, clock, mem, todo, made, astray, seized, overlap>>
      /\ Role[p] # "syncer" /\ pc[p] \in {"changed", "renamed", "opened"}
      /\ \E point \in {"renamed", "opened", "loaded"} :
            pc' = [pc EXCEPT ![p] = point] /\ (point # "opened" => fd'[p] = "none")
  <2>1. CASE SaveRename(p)
    BY <2>1, MovedTypes DEF SaveRename, Goto, ghosts, Shape, Handles
  <2>2. CASE SaveOpen(p)
    BY <2>2 DEF SaveOpen, Goto, ghosts, Shape, Roled, Handles
  <2>3. CASE SaveWrite(p)
    BY <2>3, WriteThroughTypes, CutThroughTypes, OverFile, FileFields
    DEF SaveWrite, Write, Goto, Shape, Roled, TypeOK, Document
  <2> QED  BY <2>1, <2>2, <2>3
<1>2. /\ file' \in File /\ plain' \in File
      /\ fd' \in [Process -> {"file", "plain", "none"}]
      /\ \A q \in Process \ {p} : fd[q] = "none" => fd'[q] = "none"
  <2>1. CASE SaveRename(p)
    BY <2>1, MovedTypes, FileFields DEF SaveRename, Shape, TypeOK
  <2>2. CASE SaveOpen(p)
    BY <2>2, FileFields DEF SaveOpen, Shape, TypeOK
  <2>3. CASE SaveWrite(p)
    BY <2>3, WriteThroughTypes, CutThroughTypes, OverFile, FileFields
    DEF SaveWrite, Write, Shape, TypeOK, Document
  <2> QED  BY <2>1, <2>2, <2>3
<1>3. faults' \in 0 .. MaxFaults /\ happened' \subseteq FaultKinds
  BY FaultTypes DEF SaveRename, SaveOpen, SaveWrite, hazards, Shape, FaultKinds
<1>4. fate' \in [Resource -> BOOLEAN]
  <2>1. CASE SaveWrite(p)
    <3>1. \A k \in Resource :
            (IF k \in Job[p] \ todo[p] THEN k \in mem[p].keys ELSE fate[k]) \in BOOLEAN
      <4> TAKE k \in Resource
      <4>1. fate[k] \in BOOLEAN
        BY DEF Shape, TypeOK
      <4>2. CASE k \in Job[p] \ todo[p]
        BY <4>2
      <4>3. CASE k \notin Job[p] \ todo[p]
        BY <4>1, <4>3
      <4> QED  BY <4>2, <4>3
    <3> QED  BY <2>1, <3>1 DEF SaveWrite, Shape, TypeOK
  <2>2. CASE UNCHANGED fate
    BY <2>2 DEF Shape, TypeOK
  <2> QED  BY <2>1, <2>2 DEF SaveRename, SaveOpen, ghosts
<1>5. TypeOK'
  <2>1. pc' \in [Process -> Points]
    BY <1>1 DEF Shape, TypeOK, Points
  <2> QED  BY <1>1, <1>2, <1>3, <1>4, <2>1 DEF Shape, TypeOK
<1>6. Roled' /\ Stamped'
  BY <1>1 DEF Shape, TypeOK, Roled, Stamped
<1>7. Handles'
  BY <1>1, <1>2 DEF Shape, TypeOK, Handles
<1> QED  BY <1>5, <1>6, <1>7 DEF Shape

\* CreateBackup adds one name.
LEMMA BackupShape == ASSUME Shape, NEW p \in Process, CreateBackup(p) PROVE Shape'
<1>1. /\ UNCHANGED <<file, plain, fd, lock, clock, mem, todo, fate, astray, seized, overlap>>
      /\ Role[p] = "syncer" /\ pc[p] = "changed" /\ pc' = [pc EXCEPT ![p] = "backed"]
      /\ \/ UNCHANGED <<stamped, made>>
         \/ stamped' = Backups(clock, file) /\ made' = [made EXCEPT ![p] = clock]
         \/ made' = made /\ \E d \in File : stamped' = Backups(clock, d)
  BY FileFields DEF CreateBackup, Goto, ghosts
<1>2. faults' \in 0 .. MaxFaults /\ happened' \subseteq FaultKinds
  BY FaultTypes DEF CreateBackup, hazards, Shape, FaultKinds
<1>3. clock \in 0 .. MaxClock /\ file \in File /\ clock # NoStamp
  BY DEF Shape, TypeOK, NoStamp
<1>4. /\ stamped' \subseteq [at : 0 .. MaxClock, doc : File]
      /\ Stamped' /\ (stamped # {} => stamped' # {})
  <2>1. CASE stamped' = stamped
    BY <2>1 DEF Shape, TypeOK, Stamped
  <2>2. CASE \E d \in File : stamped' = Backups(clock, d)
    BY <1>3, <2>2, BackupsStamped DEF Stamped
  <2> QED  BY <1>1, <1>3, <2>1, <2>2
<1>5. made' \in [Process -> (0 .. MaxClock) \cup {NoStamp}] /\ pc' \in [Process -> Points]
  BY <1>1, <1>3 DEF Shape, TypeOK, Points
<1>6. TypeOK'
  BY <1>1, <1>2, <1>4, <1>5 DEF Shape, TypeOK
<1>7. Roled'
  <2>1. made' = made \/ (made' = [made EXCEPT ![p] = clock] /\ stamped' # {})
    BY <1>1, <1>3, BackupsStamped
  <2> QED  BY <1>1, <1>3, <1>4, <2>1 DEF Shape, TypeOK, Roled
<1>8. Handles'
  BY <1>1 DEF Shape, TypeOK, Handles
<1> QED  BY <1>4, <1>6, <1>7, <1>8 DEF Shape

\* AtomicWrite replaces the file, and a rollback writes it in place.
LEMMA ReplaceShape ==
  ASSUME Shape, NEW p \in Process, AtomicWrite(p) \/ RollbackOpen(p) \/ RollbackWrite(p)
  PROVE  Shape'
<1>1. /\ UNCHANGED <<stamped, lock, clock, mem, todo, made, astray, seized, overlap>>
      /\ pc[p] \in {"backed", "failed", "reopened"}
      /\ \E point \in {"written", "failed", "reopened", "gone"} :
            /\ pc' = [pc EXCEPT ![p] = point]
            /\ point # "reopened" => fd'[p] = "none"
            /\ point = "failed" => made[p] # NoStamp
            /\ point = "reopened" => pc[p] = "failed"
  <2>1. CASE AtomicWrite(p)
    BY <2>1, MovedTypes DEF AtomicWrite, Goto, Shape, Handles
  <2>2. CASE RollbackOpen(p)
    BY <2>2 DEF RollbackOpen, Goto, ghosts, Shape, Handles
  <2>3. CASE RollbackWrite(p)
    <3>1. LatestBackup.doc \in File
      BY <2>3, Latest DEF RollbackWrite, Shape, Roled, TypeOK
    <3> QED
      BY <2>3, <3>1, WriteThroughTypes, CutThroughTypes, OverFile
      DEF RollbackWrite, Write, Goto, ghosts, Shape, TypeOK
  <2> QED  BY <2>1, <2>2, <2>3
<1>2. /\ file' \in File /\ plain' \in File
      /\ fd' \in [Process -> {"file", "plain", "none"}]
      /\ \A q \in Process \ {p} : fd[q] = "none" => fd'[q] = "none"
  <2>1. CASE AtomicWrite(p)
    BY <2>1, MovedTypes, FileFields DEF AtomicWrite, Shape, TypeOK, Document
  <2>2. CASE RollbackOpen(p)
    BY <2>2, FileFields DEF RollbackOpen, Shape, TypeOK
  <2>3. CASE RollbackWrite(p)
    <3>1. LatestBackup.doc \in File
      BY <2>3, Latest DEF RollbackWrite, Shape, Roled, TypeOK
    <3> QED
      BY <2>3, <3>1, WriteThroughTypes, CutThroughTypes, OverFile
      DEF RollbackWrite, Write, Shape, TypeOK
  <2> QED  BY <2>1, <2>2, <2>3
<1>3. faults' \in 0 .. MaxFaults /\ happened' \subseteq FaultKinds
  BY FaultTypes DEF AtomicWrite, RollbackOpen, RollbackWrite, hazards, Shape, FaultKinds
<1>4. fate' \in [Resource -> BOOLEAN]
  <2>1. \A k \in Resource : (k \in Job[p] \/ fate[k]) \in BOOLEAN
    OBVIOUS
  <2> QED  BY <2>1 DEF AtomicWrite, RollbackOpen, RollbackWrite, ghosts, Shape, TypeOK
<1>5. TypeOK'
  <2>1. pc' \in [Process -> Points]
    BY <1>1 DEF Shape, TypeOK, Points
  <2> QED  BY <1>1, <1>2, <1>3, <1>4, <2>1 DEF Shape, TypeOK
<1>6. Roled' /\ Stamped'
  BY <1>1 DEF Shape, TypeOK, Roled, Stamped
<1>7. Handles'
  BY <1>1, <1>2 DEF Shape, TypeOK, Handles
<1> QED  BY <1>5, <1>6, <1>7 DEF Shape

\* CleanupOldBackups leaves the latest backup.
LEMMA CleanupShape == ASSUME Shape, NEW p \in Process, CleanupOldBackups(p) PROVE Shape'
<1>1. /\ UNCHANGED <<file, plain, fd, lock, clock, faults, happened, mem, todo, made>>
      /\ UNCHANGED <<fate, astray, seized, overlap>>
      /\ pc[p] = "written" /\ pc' = [pc EXCEPT ![p] = "gone"] /\ stamped' = Newest
  BY DEF CleanupOldBackups, Goto, hazards, ghosts
<1>2. TypeOK'
  BY <1>1, NewestStamped DEF Shape, TypeOK, Points
<1>3. Stamped'
  BY <1>1, NewestStamped DEF Shape, Stamped
<1>4. Roled' /\ Handles'
  BY <1>1, NewestStamped DEF Shape, TypeOK, Roled, Handles
<1> QED  BY <1>2, <1>3, <1>4 DEF Shape

\* The lock file comes and goes.
LEMMA LockShape ==
  ASSUME Shape, NEW p \in Process,
         Lock(p) \/ LockRefused(p) \/ BreakLock(p) \/ Unlock(p) \/ Finish(p)
  PROVE  Shape'
<1>1. /\ UNCHANGED <<file, plain, fd, stamped, clock, faults, happened, mem, todo, made>>
      /\ UNCHANGED <<fate, astray, overlap>>
      /\ \E point \in {"loaded", "gone", "forced"} :
            /\ pc' = [pc EXCEPT ![p] = point]
            /\ point \in {"loaded", "forced"} => pc[p] \in {"unlocked", "forced"}
      /\ pc[p] \in {"unlocked", "forced", "loaded"}
      /\ lock' \in Process \cup {Nobody} /\ seized' \subseteq Process
  BY DEF Lock, LockRefused, BreakLock, Unlock, Finish, Goto, disk, hazards, ghosts, Shape, TypeOK
<1>2. TypeOK'
  <2>1. pc' \in [Process -> Points]
    BY <1>1 DEF Shape, TypeOK, Points
  <2> QED  BY <1>1, <2>1 DEF Shape, TypeOK
<1>3. Roled' /\ Stamped' /\ Handles'
  BY <1>1 DEF Shape, TypeOK, Roled, Stamped, Handles
<1> QED  BY <1>2, <1>3 DEF Shape

\* A command that dies closes its file.
LEMMA CrashShape == ASSUME Shape, NEW p \in Process, Crash(p) PROVE Shape'
<1>1. /\ UNCHANGED <<stamped, lock, clock, mem, todo, made, fate, astray, seized, overlap>>
      /\ pc[p] # "start" /\ pc' = [pc EXCEPT ![p] = "gone"]
      /\ Fails("crash") /\ CutThrough(p)
  BY DEF Crash, Goto, ghosts
<1>2. faults' \in 0 .. MaxFaults /\ happened' \subseteq FaultKinds
  BY <1>1, FaultTypes DEF Shape, FaultKinds
<1>3. TypeOK'
  BY <1>1, <1>2, CutThroughTypes DEF Shape, TypeOK, Points
<1>4. Roled' /\ Stamped' /\ Handles'
  BY <1>1, CutThroughTypes DEF Shape, TypeOK, Roled, Stamped, Handles
<1> QED  BY <1>3, <1>4 DEF Shape

\* The clock ticks or is set back.
LEMMA TimeShape == ASSUME Shape, Tick \/ ClockBack \/ UNCHANGED vars PROVE Shape'
<1>1. /\ UNCHANGED <<file, plain, fd, stamped, lock, pc, mem, todo, made>>
      /\ UNCHANGED <<fate, astray, seized, overlap>>
      /\ clock' \in 0 .. MaxClock
      /\ Fails("clock") \/ UNCHANGED hazards
  BY DEF Tick, ClockBack, vars, disk, hazards, ghosts, Shape, TypeOK
<1>2. faults' \in 0 .. MaxFaults /\ happened' \subseteq FaultKinds
  BY <1>1, FaultTypes DEF Shape, FaultKinds
<1> QED  BY <1>1, <1>2 DEF Shape, TypeOK, Roled, Stamped, Handles

\* No step leaves the shape.
LEMMA NextShape == ASSUME Shape, [Next]_vars PROVE Shape'
<1>1. ASSUME NEW p \in Process, Step(p) PROVE Shape'
  BY <1>1, LoadShape, ChangeShape, SaveShape, BackupShape, ReplaceShape, CleanupShape,
     LockShape, CrashShape DEF Step
<1> QED  BY <1>1, TimeShape DEF Next, AllGone

-----------------------------------------------------------------------------
(* The lock. *)

\* The lock is taken where there is none, broken by force, and removed by its owner.
LEMMA NextOwned == ASSUME Shape, Owned, [Next]_vars PROVE Owned'
<1>1. ASSUME NEW p \in Process, Step(p), seized' = {} PROVE \A q \in Process : Critical(q)' => lock' = q
  <2>1. seized = {} /\ ~BreakLock(p)
    BY <1>1 DEF Step, Load, AddResource, RemoveResource, MergeResources, SaveRename, SaveOpen, SaveWrite,
       CreateBackup, AtomicWrite, CleanupOldBackups, RollbackOpen, RollbackWrite, Lock, LockRefused,
       BreakLock, Unlock, Finish, Crash, ghosts
  <2>2. \A q \in Process : Critical(q) => lock = q
    BY <2>1 DEF Owned
  <2>3. CASE Load(p)
    <3>1. UNCHANGED lock /\ \E point \in {"unlocked", "loaded", "gone"} :
             pc' = [pc EXCEPT ![p] = point] /\ (point = "loaded" => Role[p] # "remover")
      BY <2>3 DEF Load, LoadFresh, LoadWhole, LoadEmpty, LoadRefused, AfterLoad, Goto
    <3> QED  BY <2>2, <3>1 DEF Critical, Shape, TypeOK
  <2>4. CASE (\E k \in Resource : AddResource(p, k) \/ RemoveResource(p, k)) \/ MergeResources(p)
    <3>1. UNCHANGED lock /\ pc[p] = "loaded" /\ \E point \in {"changed", "gone"} : pc' = [pc EXCEPT ![p] = point]
      BY <2>4 DEF AddResource, RemoveResource, MergeResources, Goto
    <3> QED  BY <2>2, <3>1 DEF Critical, Shape, TypeOK
  <2>5. CASE SaveRename(p) \/ SaveOpen(p) \/ SaveWrite(p)
    <3>1. /\ UNCHANGED lock /\ pc[p] \in {"changed", "renamed", "opened"}
          /\ \E point \in {"renamed", "opened", "loaded"} : pc' = [pc EXCEPT ![p] = point]
      BY <2>5 DEF SaveRename, SaveOpen, SaveWrite, Goto
    <3> QED  BY <2>2, <3>1 DEF Critical, Shape, TypeOK
  <2>6. CASE \/ CreateBackup(p) \/ AtomicWrite(p) \/ CleanupOldBackups(p)
             \/ RollbackOpen(p) \/ RollbackWrite(p) \/ LockRefused(p) \/ Finish(p) \/ Crash(p)
    <3>1. /\ UNCHANGED lock
          /\ \E point \in {"backed", "written", "failed", "reopened", "gone"} : pc' = [pc EXCEPT ![p] = point]
      BY <2>6 DEF CreateBackup, AtomicWrite, CleanupOldBackups, RollbackOpen, RollbackWrite, LockRefused,
         Finish, Crash, Goto
    <3> QED  BY <2>2, <3>1 DEF Critical, Shape, TypeOK
  <2>7. CASE Lock(p)
    <3>1. lock = Nobody /\ lock' = p /\ pc' = [pc EXCEPT ![p] = "loaded"]
      BY <2>7 DEF Lock, Goto
    <3> QED  BY <2>2, <3>1 DEF Critical, Shape, TypeOK
  <2>8. CASE Unlock(p)
    <3>1. Critical(p) /\ pc' = [pc EXCEPT ![p] = "gone"]
      BY <2>8 DEF Unlock, Goto, Critical
    <3> QED  BY <2>2, <3>1 DEF Critical, Shape, TypeOK
  <2> QED  BY <1>1, <2>1, <2>3, <2>4, <2>5, <2>6, <2>7, <2>8 DEF Step
<1>2. CASE Tick \/ ClockBack \/ UNCHANGED vars
  BY <1>2 DEF Tick, ClockBack, vars, ghosts, Owned, Critical
<1> QED  BY <1>1, <1>2 DEF Next, AllGone, Owned

-----------------------------------------------------------------------------
(* One command at a time. *)

Alone == ~overlap => \A p, q \in Process : AtWork(p) /\ AtWork(q) => p = q

\* The one command that writes in place has the state file open, and empty.
InPlace ==
  ~overlap => \A p \in Process :
    pc[p] = "reopened" \/ (pc[p] = "opened" /\ mem[p].named) => fd[p] = "file" /\ file = Empty

\* Without overlap, the others are not at work and a step does not move them.
LEMMA Solo ==
  ASSUME Shape, Alone, NEW p \in Process, Step(p), ~overlap'
  PROVE  /\ ~overlap
         /\ \A q \in Process \ {p} : ~AtWork(q) /\ ~AtWork(q)' /\ pc'[q] = pc[q]
<1>1. \E point \in Points : pc' = [pc EXCEPT ![p] = point]
  BY DEF Step, Load, LoadFresh, LoadWhole, LoadEmpty, LoadRefused, AfterLoad, AddResource, RemoveResource,
     MergeResources, SaveRename, SaveOpen, SaveWrite, CreateBackup, AtomicWrite, CleanupOldBackups,
     RollbackOpen, RollbackWrite, Lock, LockRefused, BreakLock, Unlock, Finish, Crash, Goto, Points
<1>2. CASE Load(p)
  <2>1. ~overlap /\ \A q \in Process : ~AtWork(q)
    BY <1>2 DEF Load
  <2> QED  BY <1>1, <2>1 DEF AtWork, Shape, TypeOK
<1>3. CASE ~Load(p)
  <2>1. AtWork(p) /\ UNCHANGED overlap
    BY <1>3 DEF Step, AddResource, RemoveResource,
     MergeResources, SaveRename, SaveOpen, SaveWrite, CreateBackup, AtomicWrite, CleanupOldBackups,
     RollbackOpen, RollbackWrite, Lock, LockRefused, BreakLock, Unlock, Finish, Crash, AtWork, ghosts
  <2>2. \A q \in Process \ {p} : ~AtWork(q)
    BY <2>1 DEF Alone
  <2> QED  BY <1>1, <2>1, <2>2 DEF AtWork, Shape, TypeOK
<1> QED  BY <1>2, <1>3

\* As long as no two commands overlap, one is at work.
LEMMA NextAlone == ASSUME Shape, Alone, [Next]_vars PROVE Alone'
<1>1. ASSUME NEW p \in Process, Step(p) PROVE Alone'
  BY <1>1, Solo DEF Alone
<1>2. CASE Tick \/ ClockBack \/ UNCHANGED vars
  BY <1>2 DEF Tick, ClockBack, vars, ghosts, Alone, AtWork
<1> QED  BY <1>1, <1>2 DEF Next, AllGone

\* And the file that it has open in place is the state file.
LEMMA NextInPlace == ASSUME Shape, Alone, InPlace, [Next]_vars PROVE InPlace'
<1>1. ASSUME NEW p \in Process, Step(p), ~overlap',
             pc'[p] = "reopened" \/ (pc'[p] = "opened" /\ mem'[p].named)
      PROVE  fd'[p] = "file" /\ file' = Empty
  <2>1. SaveOpen(p) \/ RollbackOpen(p)
    BY <1>1 DEF Step, Load, LoadFresh, LoadWhole, LoadEmpty, LoadRefused, AfterLoad, AddResource, RemoveResource,
     MergeResources, SaveRename, SaveOpen, SaveWrite, CreateBackup, AtomicWrite, CleanupOldBackups,
     RollbackOpen, RollbackWrite, Lock, LockRefused, BreakLock, Unlock, Finish, Crash, Goto, Shape, TypeOK
  <2> QED  BY <1>1, <2>1 DEF SaveOpen, RollbackOpen, Goto, Shape, TypeOK
<1>2. ASSUME NEW p \in Process, Step(p) PROVE InPlace'
  BY <1>1, <1>2, Solo DEF InPlace, AtWork
<1>3. CASE Tick \/ ClockBack \/ UNCHANGED vars
  BY <1>3 DEF Tick, ClockBack, vars, disk, ghosts, InPlace
<1> QED  BY <1>2, <1>3 DEF Next, AllGone

-----------------------------------------------------------------------------
(* Nothing forgotten: what the file, the document and the backup hold, as   *)
(* long as no write is cut short and no two commands overlap.               *)

Quiet == None({"crash", "write", "clock"}) /\ ~overlap

\* The keys are those the saves said they should be.
Faithful(keys) == \A k \in Resource : fate[k] <=> k \in keys

Settled ==
  (\A p \in Process : pc[p] \notin {"renamed", "opened", "reopened"}) =>
    file.is \in {"absent", "whole"} /\ Faithful(file.keys)

Dated == \A b \in stamped : b.at <= clock

\* The document differs from the saved keys by what the command did itself,
\* and the backup a syncer made is what its rollback writes.
Remembers(p) ==
  AtWork(p) =>
    /\ mem[p].named
    /\ Role[p] # "syncer" \/ pc[p] = "loaded" =>
         \A k \in Resource \ (Job[p] \ todo[p]) : fate[k] <=> k \in mem[p].keys
    /\ Role[p] = "syncer" /\ pc[p] \in {"changed", "backed"} =>
         \A k \in Resource : k \in mem[p].keys <=> k \in Job[p] \/ fate[k]
    /\ pc[p] \in {"backed", "failed", "reopened"} /\ made[p] # NoStamp =>
         LatestBackup.doc.is = "whole" /\ Faithful(LatestBackup.doc.keys)

Recalled == Quiet => Settled /\ Dated /\ \A p \in Process : Remembers(p)

\* Faults and overlaps are never undone.
LEMMA QuietBefore == ASSUME Shape, Alone, [Next]_vars, Quiet' PROVE Quiet
<1>1. ASSUME NEW p \in Process, Step(p) PROVE happened \subseteq happened'
  BY <1>1 DEF Step, Load, AddResource, RemoveResource, MergeResources, SaveRename, SaveOpen, SaveWrite,
     CreateBackup, AtomicWrite, CleanupOldBackups, RollbackOpen, RollbackWrite, Lock, LockRefused,
     BreakLock, Unlock, Finish, Crash, hazards, Fails
<1>2. CASE Tick \/ ClockBack \/ UNCHANGED vars
  BY <1>2 DEF Tick, ClockBack, vars, hazards, ghosts, Fails, Quiet, None
<1> QED  BY <1>1, <1>2, Solo DEF Next, AllGone, Quiet, None

\* The backup just made is the latest.
LEMMA NewestIsLatest ==
  ASSUME Shape, Dated, NEW doc \in File, stamped' = Backups(clock, doc)
  PROVE  LatestBackup' = [at |-> clock, doc |-> doc] /\ \A b \in stamped' : b.at <= clock
<1> DEFINE new == [at |-> clock, doc |-> doc]
<1>1. new \in stamped' /\ \A b \in stamped' : b = new \/ (b \in stamped /\ b.at # clock)
  BY DEF Backups
<1>2. clock \in 0 .. MaxClock /\ \A b \in stamped : b.at \in 0 .. MaxClock
  BY DEF Shape, TypeOK
<1>3. \A b \in stamped' : b.at <= clock
  BY <1>1, <1>2 DEF Dated
<1>4. LatestBackup' \in stamped' /\ \A b \in stamped' : b.at <= LatestBackup'.at
  BY <1>1, <1>3 DEF LatestBackup
<1>5. LatestBackup' = new
  BY <1>1, <1>2, <1>3, <1>4 DEF Dated
<1> QED  BY <1>3, <1>5

\* Nothing has been saved yet but what the file holds.
LEMMA InitRecalled == Init => Recalled
<1> SUFFICES ASSUME Init PROVE Recalled
  OBVIOUS
<1>1. file.keys = Initial /\ file.is \in {"absent", "whole"}
  BY DEF Init, Absent, Whole
<1> QED  BY <1>1 DEF Init, Recalled, Settled, Faithful, Dated, Remembers, AtWork

\* One lemma for the load, one for the changes, and so on; each assumes what
\* QuietBefore and Solo give.
LEMMA LoadRecalled ==
  ASSUME Shape, Settled, Dated, NEW p \in Process, Load(p), \A q \in Process : ~AtWork(q)
  PROVE  Settled' /\ Dated' /\ Remembers(p)'
<1>1. \A q \in Process : pc[q] \notin {"renamed", "opened", "reopened"}
  BY DEF AtWork
<1>2. file.is \in {"absent", "whole"} /\ Faithful(file.keys) /\ file \in File
  BY <1>1 DEF Settled, Shape, TypeOK
<1>3. UNCHANGED <<file, stamped, clock, todo, made, fate>> /\ pc[p] = "start"
  BY DEF Load, disk
<1>4. /\ mem'[p].named /\ mem'[p].keys = file.keys
      /\ \E point \in {"unlocked", "loaded"} : pc' = [pc EXCEPT ![p] = point]
  <2>1. file # Empty /\ file # Torn /\ (file = Absent => file.keys = {})
    BY <1>2 DEF Absent, Empty, Torn
  <2>2. LoadFresh(p) \/ LoadWhole(p)
    BY <2>1 DEF Load, LoadEmpty, LoadRefused
  <2>3. mem'[p] = [named |-> TRUE, keys |-> file.keys]
    BY <2>1, <2>2 DEF LoadFresh, LoadWhole, Shape, TypeOK
  <2>4. pc' = [pc EXCEPT ![p] = AfterLoad(p)] /\ AfterLoad(p) \in {"unlocked", "loaded"}
    BY <2>2 DEF LoadFresh, LoadWhole, Goto, AfterLoad
  <2>5. mem'[p].named /\ mem'[p].keys = file.keys
    BY <2>3
  <2>6. \E point \in {"unlocked", "loaded"} : pc' = [pc EXCEPT ![p] = point]
    BY <2>4, Zenon
  <2> QED  BY <2>5, <2>6
<1>5. Settled' /\ Dated'
  BY <1>2, <1>3 DEF Settled, Faithful, Dated
<1>6. Remembers(p)'
  BY <1>2, <1>3, <1>4 DEF Remembers, Faithful, Shape, TypeOK
<1> QED  BY <1>5, <1>6

\* A change is remembered as not saved yet.
LEMMA ChangeRecalled ==
  ASSUME Shape, Settled, Dated, NEW p \in Process, Remembers(p),
         (\E k \in Resource : AddResource(p, k) \/ RemoveResource(p, k)) \/ MergeResources(p)
  PROVE  Settled' /\ Dated' /\ Remembers(p)'
<1>1. /\ UNCHANGED <<file, stamped, clock, made, fate>> /\ pc[p] = "loaded"
      /\ \E point \in {"changed", "gone"} : pc' = [pc EXCEPT ![p] = point]
  BY DEF AddResource, RemoveResource, MergeResources, Goto, disk, ghosts
<1>2. Settled' /\ Dated'
  BY <1>1 DEF Settled, Faithful, Dated, Shape, TypeOK
<1>3. ASSUME NEW k \in Resource, AddResource(p, k) \/ RemoveResource(p, k) PROVE Remembers(p)'
  <2>1. mem[p].named /\ Role[p] # "syncer" /\ k \in todo[p] /\ todo[p] \subseteq Job[p]
    BY <1>1, <1>3 DEF Remembers, AtWork, AddResource, RemoveResource, Shape, Roled
  <2>2. /\ todo'[p] = todo[p] \ {k} /\ mem'[p].named
        /\ \A j \in Resource \ {k} : j \in mem'[p].keys <=> j \in mem[p].keys
    BY <1>3, <2>1 DEF AddResource, RemoveResource, Shape, TypeOK, Document
  <2> QED  BY <1>1, <2>1, <2>2 DEF Remembers, AtWork, Shape, TypeOK
<1>4. CASE MergeResources(p)
  <2>1. mem[p].named /\ Role[p] = "syncer" /\ todo[p] = Job[p]
    BY <1>1, <1>4 DEF Remembers, AtWork, MergeResources, Shape, Roled
  <2>2. mem'[p].named /\ mem'[p].keys = mem[p].keys \cup Job[p]
    BY <1>4, <2>1 DEF MergeResources, Shape, TypeOK, Document
  <2>3. todo'[p] = {} /\ Role[p] = "syncer" /\ pc'[p] = "changed"
    BY <1>4 DEF MergeResources, Goto, Shape, TypeOK
  <2> QED  BY <1>1, <1>2, <2>1, <2>2, <2>3 DEF Remembers, AtWork, Shape, TypeOK
<1> QED  BY <1>2, <1>3, <1>4

\* A save makes the file the document, in two steps or three.
LEMMA SaveRecalled ==
  ASSUME Shape, InPlace, Quiet', Quiet, Settled, Dated, NEW p \in Process, Remembers(p),
         SaveRename(p) \/ SaveOpen(p) \/ SaveWrite(p)
  PROVE  Settled' /\ Dated' /\ Remembers(p)'
<1>1. /\ UNCHANGED <<stamped, clock, mem, todo, made>>
      /\ pc[p] \in {"changed", "renamed", "opened"} /\ Role[p] # "syncer" /\ mem[p].named
  BY DEF SaveRename, SaveOpen, SaveWrite, Shape, Roled, Remembers, AtWork
<1>2. Dated'
  BY <1>1 DEF Dated
<1>3. ~Fails("write")
  BY DEF Quiet, None, Fails
<1>4. CASE SaveRename(p) \/ SaveOpen(p)
  <2>1. UNCHANGED fate /\ \E point \in {"renamed", "opened"} : pc' = [pc EXCEPT ![p] = point]
    BY <1>3, <1>4 DEF SaveRename, SaveOpen, Goto, ghosts
  <2>2. Settled'
    BY <2>1 DEF Settled, Shape, TypeOK
  <2> QED  BY <1>1, <1>2, <2>1, <2>2 DEF Remembers, AtWork, Shape, TypeOK
<1>5. CASE SaveWrite(p)
  <2>1. fd[p] = "file" /\ file = Empty
    BY <1>1, <1>5 DEF SaveWrite, InPlace, Quiet
  <2>2. /\ file' = Whole(mem[p].keys) /\ pc' = [pc EXCEPT ![p] = "loaded"]
        /\ fate' = [k \in Resource |-> IF k \in Job[p] \ todo[p] THEN k \in mem[p].keys ELSE fate[k]]
    BY <1>3, <1>5, <2>1, OverFile, FileFields
    DEF SaveWrite, Write, WriteThrough, Goto, Shape, TypeOK, Document
  <2>3. \A k \in Resource : fate'[k] <=> k \in mem[p].keys
    <3> TAKE k \in Resource
    <3>1. CASE k \in Job[p] \ todo[p]
      BY <2>2, <3>1
    <3>2. CASE k \notin Job[p] \ todo[p]
      BY <1>1, <2>2, <3>2 DEF Remembers, AtWork
    <3> QED  BY <3>1, <3>2
  <2>4. Settled'
    BY <2>2, <2>3 DEF Settled, Faithful, Whole
  <2>5. Remembers(p)'
    BY <1>1, <2>2, <2>3 DEF Remembers, AtWork, Shape, TypeOK
  <2> QED  BY <1>2, <2>4, <2>5
<1> QED  BY <1>4, <1>5

\* A backup is the file as it is.
LEMMA BackupRecalled ==
  ASSUME Shape, Settled, Dated, NEW p \in Process, Remembers(p), CreateBackup(p),
         \A q \in Process \ {p} : ~AtWork(q)
  PROVE  Settled' /\ Dated' /\ Remembers(p)'
<1>1. /\ UNCHANGED <<file, clock, mem, todo, fate>>
      /\ Role[p] = "syncer" /\ pc[p] = "changed" /\ pc' = [pc EXCEPT ![p] = "backed"]
      /\ \/ UNCHANGED <<stamped, made>>
         \/ stamped' = Backups(clock, file) /\ file # Absent
         \/ made' = made /\ \E d \in File : stamped' = Backups(clock, d)
  BY FileFields DEF CreateBackup, Goto, ghosts
<1>2. /\ file.is \in {"absent", "whole"} /\ Faithful(file.keys) /\ file \in File
      /\ mem[p].named /\ made[p] = NoStamp
  BY <1>1 DEF Settled, AtWork, Shape, TypeOK, Roled, Remembers
<1>3. Settled'
  BY <1>1, <1>2 DEF Settled, Faithful
<1>4. Dated'
  BY <1>1, <1>2, NewestIsLatest DEF Dated
<1>5. made'[p] # NoStamp => LatestBackup'.doc = file /\ file.is = "whole"
  BY <1>1, <1>2, NewestIsLatest, FileFields
<1>6. Remembers(p)'
  BY <1>1, <1>2, <1>5 DEF Remembers, AtWork, Faithful, Shape, TypeOK
<1> QED  BY <1>3, <1>4, <1>6

\* A merged document replaces the file, or the backup is put back.
LEMMA ReplaceRecalled ==
  ASSUME Shape, InPlace, Quiet', Quiet, Settled, Dated, NEW p \in Process, Remembers(p),
         \A q \in Process \ {p} : ~AtWork(q),
         AtomicWrite(p) \/ RollbackOpen(p) \/ RollbackWrite(p)
  PROVE  Settled' /\ Dated' /\ Remembers(p)'
<1>1. /\ UNCHANGED <<stamped, clock, mem, todo, made>>
      /\ pc[p] \in {"backed", "failed", "reopened"} /\ Role[p] = "syncer" /\ mem[p].named
  BY DEF AtomicWrite, RollbackOpen, RollbackWrite, Shape, Roled, Remembers, AtWork
<1>2. Dated' /\ LatestBackup' = LatestBackup
  BY <1>1 DEF Dated, LatestBackup
<1>3. ~Fails("write")
  BY DEF Quiet, None, Fails
<1>4. CASE AtomicWrite(p)
  <2>1. CASE Goto(p, "written") /\ file' = Whole(mem[p].keys) /\ fate' = [k \in Resource |-> k \in Job[p] \/ fate[k]]
    <3>1. \A k \in Resource : fate'[k] <=> k \in mem[p].keys
      BY <1>1, <1>4, <2>1 DEF Remembers, AtWork, AtomicWrite
    <3> QED
      BY <1>1, <1>2, <2>1, <3>1 DEF Settled, Faithful, Whole, Remembers, AtWork, Goto, Shape, TypeOK
  <2>2. CASE UNCHANGED <<file, fate>> /\ \E point \in {"failed", "gone"} : pc' = [pc EXCEPT ![p] = point]
    <3>1. file.is \in {"absent", "whole"} /\ Faithful(file.keys)
      BY <1>4 DEF AtomicWrite, Settled, AtWork
    <3>2. Settled'
      BY <2>2, <3>1 DEF Settled, Faithful
    <3>3. Remembers(p)'
      BY <1>1, <1>2, <1>4, <2>2 DEF Remembers, AtWork, Faithful, AtomicWrite, Shape, TypeOK
    <3> QED  BY <1>2, <3>2, <3>3
  <2> QED  BY <1>1, <1>4, <2>1, <2>2 DEF AtomicWrite, Goto
<1>5. CASE RollbackOpen(p)
  <2>1. UNCHANGED fate /\ pc[p] = "failed" /\ pc' = [pc EXCEPT ![p] = "reopened"]
    BY <1>3, <1>5 DEF RollbackOpen, Goto, ghosts
  <2>2. Settled'
    BY <2>1 DEF Settled, Shape, TypeOK
  <2> QED  BY <1>1, <1>2, <2>1, <2>2 DEF Remembers, AtWork, Faithful, Shape, TypeOK
<1>6. CASE RollbackWrite(p)
  <2>1. fd[p] = "file" /\ file = Empty /\ made[p] # NoStamp /\ pc[p] = "reopened" /\ stamped # {}
    BY <1>6 DEF RollbackWrite, InPlace, Quiet, Shape, Roled
  <2>2. LatestBackup.doc \in File /\ LatestBackup.doc.is = "whole" /\ Faithful(LatestBackup.doc.keys)
    BY <2>1, Latest DEF Remembers, AtWork, Shape, TypeOK
  <2>3. file' = LatestBackup.doc /\ pc' = [pc EXCEPT ![p] = "gone"] /\ UNCHANGED fate
    BY <1>3, <1>6, <2>1, <2>2, OverFile, FileFields DEF RollbackWrite, Write, WriteThrough, Goto, ghosts
  <2> QED  BY <1>2, <2>2, <2>3 DEF Settled, Faithful, Remembers, AtWork, Shape, TypeOK
<1> QED  BY <1>4, <1>5, <1>6

\* The lock, the clean-up and the end leave the files alone.
LEMMA RestRecalled ==
  ASSUME Shape, Quiet', Settled, Dated, NEW p \in Process, Remembers(p),
         \/ CleanupOldBackups(p) \/ Lock(p) \/ LockRefused(p) \/ BreakLock(p)
         \/ Unlock(p) \/ Finish(p) \/ Crash(p)
  PROVE  Settled' /\ Dated' /\ Remembers(p)'
<1>1. ~Crash(p)
  BY DEF Crash, Fails, Quiet, None
<1>2. /\ UNCHANGED <<file, clock, mem, todo, made, fate>> /\ stamped' \subseteq stamped
      /\ pc[p] \in {"written", "unlocked", "forced", "loaded"}
      /\ \E point \in {"loaded", "forced", "gone"} :
            pc' = [pc EXCEPT ![p] = point] /\ (point = "loaded" => Role[p] # "syncer")
  BY <1>1, NewestStamped
  DEF CleanupOldBackups, Lock, LockRefused, BreakLock, Unlock, Finish, Goto, disk, hazards, ghosts, Shape, Roled
<1>3. Settled' /\ Dated'
  BY <1>2 DEF Settled, Faithful, Dated, Shape, TypeOK
<1>4. Remembers(p)'
  BY <1>2 DEF Remembers, AtWork, Shape, TypeOK, Roled
<1> QED  BY <1>3, <1>4

\* No step forgets what was saved.
LEMMA NextRecalled == ASSUME Shape, Alone, InPlace, Recalled, [Next]_vars PROVE Recalled'
<1> SUFFICES ASSUME Quiet' PROVE Settled' /\ Dated' /\ \A p \in Process : Remembers(p)'
  BY DEF Recalled
<1>1. Quiet /\ Settled /\ Dated /\ \A p \in Process : Remembers(p)
  BY QuietBefore DEF Recalled
<1>2. ASSUME NEW p \in Process, Step(p)
      PROVE  Settled' /\ Dated' /\ \A q \in Process : Remembers(q)'
  <2>1. \A q \in Process \ {p} : ~AtWork(q) /\ ~AtWork(q)'
    BY <1>2, Solo DEF Quiet
  <2>2. Load(p) => \A q \in Process : ~AtWork(q)
    BY <2>1 DEF Load, AtWork
  <2>3. Settled' /\ Dated' /\ Remembers(p)'
    BY <1>1, <1>2, <2>1, <2>2, LoadRecalled, ChangeRecalled, SaveRecalled, BackupRecalled,
       ReplaceRecalled, RestRecalled DEF Step
  <2> QED  BY <2>1, <2>3 DEF Remembers
<1>3. CASE Tick \/ ClockBack \/ UNCHANGED vars
  <2>1. ~ClockBack
    BY DEF ClockBack, Fails, Quiet, None
  <2>2. UNCHANGED <<file, stamped, pc, mem, todo, made, fate>> /\ clock <= clock' /\ clock' \in Nat
    BY <1>3, <2>1 DEF Tick, vars, disk, ghosts, Shape, TypeOK
  <2>3. \A b \in stamped : b.at \in Nat /\ clock \in Nat
    BY DEF Shape, TypeOK
  <2>4. Settled' /\ Dated'
    BY <1>1, <2>2, <2>3 DEF Settled, Faithful, Dated
  <2>5. \A p \in Process : Remembers(p)'
    BY <1>1, <2>2 DEF Remembers, AtWork, Faithful, LatestBackup
  <2> QED  BY <2>4, <2>5
<1> QED  BY <1>2, <1>3 DEF Next, AllGone

-----------------------------------------------------------------------------
(* Copies: where a saved key is, through one fault of any kind.            *)

Few == faults <= 1 /\ astray = {} /\ ~overlap

\* The keys whose loss is not counted: those a teardown has begun to remove.
Given(k) == \E p \in Process : k \in Removed(p)
Sought(k) == fate[k] /\ ~Given(k)

InBackups(k) == \E b \in stamped : k \in b.doc.keys

\* At every point of a command, the copies that the next fault cannot reach.
KeptBy(p, k) ==
  /\ k \in mem[p].keys
  /\ pc[p] \in {"unlocked", "forced", "backed", "written"} => k \in file.keys
  /\ Role[p] = "syncer" /\ pc[p] \in {"loaded", "changed"} => k \in file.keys
  /\ pc[p] \in {"loaded", "changed"} /\ faults = 0 => k \in file.keys
  /\ pc[p] = "loaded" => k \in file.keys \cup plain.keys
  /\ pc[p] \in {"renamed", "opened"} /\ faults = 0 => k \in plain.keys
  /\ pc[p] \in {"backed", "failed", "reopened"} /\ made[p] # NoStamp => InBackups(k)

Carries(p) ==
  AtWork(p) =>
    /\ mem[p].named
    /\ pc[p] \in {"failed", "reopened"} => faults >= 1
    /\ Role[p] = "syncer" /\ pc[p] \in {"changed", "backed"} => Job[p] \subseteq mem[p].keys
    /\ \A k \in Resource : Sought(k) => KeptBy(p, k)

OnDisk(k) == k \in file.keys \/ k \in plain.keys \/ InBackups(k)

\* When nobody is at work.
Stored == (\A p \in Process : ~AtWork(p)) => \A k \in Resource : Sought(k) => OnDisk(k)

Copied == Few => Stored /\ \A p \in Process : Carries(p)

\* What is in the file at the start is on disk.
LEMMA InitCopied == Init => Copied
<1> SUFFICES ASSUME Init PROVE Copied
  OBVIOUS
<1>1. file.keys = Initial
  BY DEF Init, Absent, Whole
<1> QED  BY <1>1 DEF Init, Copied, Stored, Carries, OnDisk, Sought, AtWork

\* Faults are counted up: where there are few, there were few before.
LEMMA FewBefore == ASSUME Shape, Alone, [Next]_vars, Few' PROVE Few
<1>1. faults \in Nat /\ (\A kind \in FaultKinds : Fails(kind) => faults <= faults')
  BY DEF Fails, Shape, TypeOK
<1>2. ASSUME NEW p \in Process, Step(p) PROVE faults <= faults' /\ astray \subseteq astray'
  BY <1>1, <1>2 DEF Step, Load, AddResource, RemoveResource, MergeResources, SaveRename, SaveOpen, SaveWrite,
     CreateBackup, AtomicWrite, CleanupOldBackups, RollbackOpen, RollbackWrite, Lock, LockRefused,
     BreakLock, Unlock, Finish, Crash, hazards, ghosts, FaultKinds
<1>3. faults' \in Nat
  BY NextShape DEF Shape, TypeOK
<1>4. CASE Tick \/ ClockBack \/ UNCHANGED vars
  <2>1. faults <= faults' /\ UNCHANGED <<astray, overlap>>
    BY <1>1, <1>4 DEF Tick, ClockBack, vars, hazards, ghosts, FaultKinds
  <2> QED  BY <1>1, <1>3, <2>1 DEF Few
<1> QED  BY <1>1, <1>2, <1>3, <1>4, Solo DEF Next, AllGone, Few

\* What has been given up stays given up.
LEMMA GivenStays ==
  ASSUME Shape, [Next]_vars, NEW k \in Resource, Given(k) PROVE Given(k)'
<1>1. PICK p \in Process : k \in Removed(p)
  BY DEF Given
<1>2. todo'[p] \subseteq todo[p]
  <2>1. ASSUME NEW q \in Process, Step(q) PROVE todo' = todo \/ \E t \in SUBSET todo[q] : todo' = [todo EXCEPT ![q] = t]
    BY <2>1 DEF Step, Load, AddResource, RemoveResource, MergeResources, SaveRename, SaveOpen, SaveWrite,
       CreateBackup, AtomicWrite, CleanupOldBackups, RollbackOpen, RollbackWrite, Lock, LockRefused,
       BreakLock, Unlock, Finish, Crash
  <2> QED  BY <2>1 DEF Next, Tick, ClockBack, AllGone, vars, Shape, TypeOK
<1>3. k \in Removed(p)'
  BY <1>1, <1>2 DEF Removed
<1> QED  BY <1>3 DEF Given

\* Between two saves, what is sought was sought before.
LEMMA SoughtBefore ==
  ASSUME Shape, [Next]_vars, UNCHANGED fate, NEW k \in Resource, Sought(k)' PROVE Sought(k)
BY GivenStays DEF Sought

\* Each lemma below takes a group of actions; the others are not at work.
LEMMA LoadCopied ==
  ASSUME Shape, Few', NEW p \in Process, Load(p)
  PROVE  Carries(p)' /\ (~AtWork(p)' => \A k \in Resource : Sought(k)' => OnDisk(k)')
<1>1. UNCHANGED <<file, plain, stamped, todo, made, fate>> /\ pc[p] = "start"
  BY DEF Load, disk
<1>2. file.is \in {"absent", "whole"} /\ \A k \in Resource : fate[k] => k \in file.keys
  BY DEF Load, Few
<1>3. LoadFresh(p) \/ LoadWhole(p)
  BY <1>2 DEF Load, LoadEmpty, LoadRefused, Empty, Torn
<1>4. mem'[p] = [named |-> TRUE, keys |-> file.keys]
  <2>1. file = Absent => file.keys = {}
    BY DEF Absent
  <2> QED  BY <1>3, <2>1 DEF LoadFresh, LoadWhole, Shape, TypeOK
<1>5. pc'[p] = AfterLoad(p) /\ AfterLoad(p) \in {"unlocked", "loaded"}
  BY <1>3 DEF LoadFresh, LoadWhole, Goto, AfterLoad, Shape, TypeOK
<1>6. mem'[p].named /\ \A k \in Resource : Sought(k)' => k \in mem'[p].keys /\ k \in file'.keys
  BY <1>1, <1>2, <1>4 DEF Sought
<1> QED  BY <1>5, <1>6 DEF Carries, KeptBy, AtWork

\* A change leaves the files alone.
LEMMA ChangeCopied ==
  ASSUME Shape, [Next]_vars, NEW p \in Process, Carries(p),
         (\E k \in Resource : AddResource(p, k) \/ RemoveResource(p, k)) \/ MergeResources(p)
  PROVE  Carries(p)' /\ (~AtWork(p)' => \A k \in Resource : Sought(k)' => OnDisk(k)')
<1>1. UNCHANGED <<file, plain, stamped, faults, made, fate>> /\ pc[p] = "loaded" /\ mem[p].named
  BY DEF AddResource, RemoveResource, MergeResources, disk, hazards, ghosts, Carries, AtWork
<1>2. pc'[p] = "changed"
  BY <1>1 DEF AddResource, RemoveResource, MergeResources, Goto, Shape, TypeOK
<1>3. mem'[p].named /\ (Role[p] = "syncer" => Job[p] \subseteq mem'[p].keys)
  BY <1>1 DEF AddResource, RemoveResource, MergeResources, Shape, TypeOK, Roled, Document
<1>4. \A k \in Resource : Sought(k)' => k \in mem'[p].keys
  <2> SUFFICES ASSUME NEW k \in Resource, Sought(k)' PROVE k \in mem'[p].keys
    OBVIOUS
  <2>1. k \in mem[p].keys
    BY <1>1, SoughtBefore DEF Carries, KeptBy, AtWork
  <2>2. ASSUME RemoveResource(p, k) PROVE FALSE
    <3>1. Role[p] = "remover" /\ k \in Job[p] \ todo'[p]
      BY <2>2 DEF RemoveResource, Shape, TypeOK, Roled
    <3> QED  BY <3>1 DEF Sought, Given, Removed
  <2> QED  BY <1>1, <2>1, <2>2 DEF AddResource, RemoveResource, MergeResources, Shape, TypeOK, Document
<1>5. \A k \in Resource : Sought(k)' => KeptBy(p, k)'
  BY <1>1, <1>2, <1>4, SoughtBefore DEF Carries, KeptBy, AtWork
<1> QED  BY <1>2, <1>3, <1>5 DEF Carries, AtWork

\* A save that fails leaves the old file, and one that succeeds the new one.
LEMMA SaveCopied ==
  ASSUME Shape, InPlace, Few, Few', [Next]_vars, NEW p \in Process, Carries(p),
         SaveRename(p) \/ SaveOpen(p) \/ SaveWrite(p)
  PROVE  Carries(p)' /\ (~AtWork(p)' => \A k \in Resource : Sought(k)' => OnDisk(k)')
<1>1. /\ UNCHANGED <<stamped, mem, todo, made>>
      /\ pc[p] \in {"changed", "renamed", "opened"} /\ Role[p] # "syncer" /\ mem[p].named
      /\ made[p] = NoStamp /\ faults \in Nat
  BY DEF SaveRename, SaveOpen, SaveWrite, Shape, TypeOK, Roled, Carries, AtWork
<1>2. CASE SaveRename(p)
  <2>1. UNCHANGED fate /\ pc'[p] = "renamed" /\ pc[p] = "changed"
    BY <1>2 DEF SaveRename, Goto, ghosts, Shape, TypeOK
  <2>2. ASSUME NEW k \in Resource, Sought(k)' PROVE KeptBy(p, k)'
    <3>1. KeptBy(p, k)
      BY <2>1, <2>2, SoughtBefore DEF Carries, AtWork
    <3>2. faults' = 0 => k \in plain'.keys
      <4> SUFFICES ASSUME faults' = 0 PROVE k \in plain'.keys
        OBVIOUS
      <4>1. faults = 0 /\ ~Fails("rename")
        BY <1>1, <1>2 DEF SaveRename, Fails, hazards
      <4>2. k \in file.keys /\ file # Absent
        BY <2>1, <3>1, <4>1 DEF KeptBy, Absent
      <4> QED  BY <1>1, <1>2, <4>1, <4>2 DEF SaveRename
    <3> QED  BY <1>1, <2>1, <3>1, <3>2 DEF KeptBy
  <2> QED  BY <1>1, <2>1, <2>2 DEF Carries, AtWork
<1>3. CASE SaveOpen(p)
  <2>1. UNCHANGED <<plain, fate>> /\ pc[p] = "renamed"
    BY <1>3 DEF SaveOpen, ghosts
  <2>2. \/ pc'[p] = "opened" /\ faults' = faults
        \/ pc'[p] = "loaded" /\ faults' = 1 /\ faults = 0
    BY <1>1, <1>3 DEF SaveOpen, Goto, hazards, Fails, Few, Shape, TypeOK
  <2>3. ASSUME NEW k \in Resource, Sought(k)' PROVE KeptBy(p, k)'
    <3>1. KeptBy(p, k)
      BY <2>1, <2>3, SoughtBefore DEF Carries, AtWork
    <3> QED  BY <1>1, <2>1, <2>2, <3>1 DEF KeptBy
  <2> QED  BY <1>1, <2>2, <2>3 DEF Carries, AtWork
<1>4. CASE SaveWrite(p)
  <2>1. fd[p] = "file" /\ file = Empty /\ pc[p] = "opened" /\ pc'[p] = "loaded"
    BY <1>1, <1>4 DEF SaveWrite, InPlace, Few, Goto, Shape, TypeOK
  <2>2. CASE UNCHANGED hazards /\ Write(p, Whole(mem[p].keys))
             /\ fate' = [k \in Resource |-> IF k \in Job[p] \ todo[p] THEN k \in mem[p].keys ELSE fate[k]]
    <3>1. file' = Whole(mem[p].keys)
      BY <2>1, <2>2, OverFile, FileFields DEF Write, WriteThrough, Shape, TypeOK, Document
    <3>2. ASSUME NEW k \in Resource, Sought(k)' PROVE k \in mem[p].keys
      <4>1. ~Given(k) /\ fate'[k]
        BY <3>2, GivenStays DEF Sought
      <4>2. CASE k \in Job[p] \ todo[p]
        BY <2>2, <4>1, <4>2
      <4>3. CASE k \notin Job[p] \ todo[p]
        BY <1>1, <2>2, <4>1, <4>3 DEF Sought, Carries, KeptBy, AtWork
      <4> QED  BY <4>2, <4>3
    <3>3. \A k \in Resource : Sought(k)' => KeptBy(p, k)'
      BY <1>1, <2>1, <3>1, <3>2 DEF KeptBy, Whole
    <3> QED  BY <1>1, <2>1, <3>3 DEF Carries, AtWork
  <2>3. CASE Fails("write") /\ CutThrough(p) /\ UNCHANGED fate
    <3>1. faults = 0 /\ faults' = 1 /\ plain' = plain
      BY <1>1, <2>1, <2>3 DEF Fails, CutThrough, WriteThrough, Few
    <3>2. ASSUME NEW k \in Resource, Sought(k)' PROVE KeptBy(p, k)'
      <4>1. KeptBy(p, k)
        BY <2>1, <2>3, <3>2, SoughtBefore DEF Carries, AtWork
      <4> QED  BY <1>1, <2>1, <3>1, <4>1 DEF KeptBy
    <3> QED  BY <1>1, <2>1, <3>2 DEF Carries, AtWork
  <2> QED  BY <1>4, <2>2, <2>3 DEF SaveWrite
<1> QED  BY <1>2, <1>3, <1>4

\* A backup adds a copy.
LEMMA BackupCopied ==
  ASSUME Shape, [Next]_vars, NEW p \in Process, Carries(p), CreateBackup(p)
  PROVE  Carries(p)' /\ (~AtWork(p)' => \A k \in Resource : Sought(k)' => OnDisk(k)')
<1>1. /\ UNCHANGED <<file, plain, mem, todo, fate>> /\ mem[p].named /\ made[p] = NoStamp
      /\ Role[p] = "syncer" /\ pc[p] = "changed" /\ pc'[p] = "backed"
      /\ made' = made \/ stamped' = Backups(clock, file)
  BY DEF CreateBackup, Goto, ghosts, Carries, AtWork, Shape, TypeOK, Roled
<1>2. ASSUME NEW k \in Resource, Sought(k)' PROVE KeptBy(p, k)'
  <2>1. KeptBy(p, k)
    BY <1>1, <1>2, SoughtBefore DEF Carries, AtWork
  <2>2. k \in file.keys /\ k \in mem[p].keys
    BY <1>1, <2>1 DEF KeptBy
  <2>3. CASE stamped' = Backups(clock, file)
    <3>1. [at |-> clock, doc |-> file] \in stamped' /\ [at |-> clock, doc |-> file].doc = file
      BY <2>3 DEF Backups
    <3>2. InBackups(k)'
      BY <2>2, <3>1 DEF InBackups
    <3> QED  BY <1>1, <2>2, <3>2 DEF KeptBy
  <2>4. CASE made' = made
    BY <1>1, <2>2, <2>4 DEF KeptBy
  <2> QED  BY <1>1, <2>3, <2>4
<1>3. Job[p] \subseteq mem[p].keys
  BY <1>1 DEF Carries, AtWork
<1> QED  BY <1>1, <1>2, <1>3 DEF Carries, AtWork

\* The file is replaced when there is a backup of it.
LEMMA ReplaceCopied ==
  ASSUME Shape, Few, Few', [Next]_vars, NEW p \in Process, Carries(p),
         AtomicWrite(p) \/ RollbackOpen(p) \/ RollbackWrite(p)
  PROVE  Carries(p)' /\ (~AtWork(p)' => \A k \in Resource : Sought(k)' => OnDisk(k)')
<1>1. /\ UNCHANGED <<stamped, mem, todo, made>> /\ faults \in Nat /\ mem[p].named
      /\ pc[p] \in {"backed", "failed", "reopened"} /\ Role[p] = "syncer"
  BY DEF AtomicWrite, RollbackOpen, RollbackWrite, Shape, TypeOK, Roled, Carries, AtWork
<1>2. CASE AtomicWrite(p) /\ fate' = [k \in Resource |-> k \in Job[p] \/ fate[k]]
           /\ file' = Whole(mem[p].keys) /\ pc'[p] = "written"
  <2>1. ASSUME NEW k \in Resource, Sought(k)' PROVE k \in mem[p].keys
    <3>1. ~Given(k) /\ (k \in Job[p] \/ fate[k])
      BY <1>2, <2>1, GivenStays DEF Sought
    <3> QED  BY <1>1, <1>2, <3>1 DEF Carries, KeptBy, AtWork, Sought, AtomicWrite
  <2>2. \A k \in Resource : Sought(k)' => KeptBy(p, k)'
    BY <1>1, <1>2, <2>1 DEF KeptBy, Whole
  <2> QED  BY <1>1, <1>2, <2>2 DEF Carries, AtWork
<1>3. CASE AtomicWrite(p) /\ UNCHANGED <<file, fate>> /\ faults' = 1
           /\ (pc'[p] = "gone" \/ pc'[p] = "failed")
  <2>1. ASSUME NEW k \in Resource, Sought(k)' PROVE KeptBy(p, k)' /\ OnDisk(k)'
    <3>1. KeptBy(p, k)
      BY <1>1, <1>3, <2>1, SoughtBefore DEF Carries, AtWork, AtomicWrite
    <3>2. InBackups(k)' <=> InBackups(k)
      BY <1>1 DEF InBackups
    <3> QED  BY <1>1, <1>3, <3>1, <3>2 DEF KeptBy, OnDisk, AtomicWrite
  <2> QED  BY <1>1, <1>3, <2>1 DEF Carries, AtWork
<1>4. CASE RollbackOpen(p) \/ RollbackWrite(p)
  <2>1. /\ UNCHANGED fate /\ pc[p] \in {"failed", "reopened"} /\ pc'[p] \in {"reopened", "gone"}
        /\ faults <= faults' /\ made[p] # NoStamp
    BY <1>1, <1>4 DEF RollbackOpen, RollbackWrite, Goto, Fails, hazards, ghosts, Shape, TypeOK, Roled
  <2>2. ASSUME NEW k \in Resource, Sought(k)' PROVE KeptBy(p, k)' /\ OnDisk(k)'
    <3>1. KeptBy(p, k)
      BY <2>1, <2>2, SoughtBefore DEF Carries, AtWork
    <3>2. InBackups(k)'
      BY <1>1, <2>1, <3>1 DEF KeptBy, InBackups
    <3> QED  BY <1>1, <2>1, <3>1, <3>2 DEF KeptBy, OnDisk
  <2>3. faults' \in Nat /\ faults >= 1
    BY <2>1, NextShape DEF Carries, AtWork, Shape, TypeOK
  <2> QED  BY <1>1, <2>1, <2>2, <2>3 DEF Carries, AtWork
<1>5. AtomicWrite(p) =>
        \/ fate' = [k \in Resource |-> k \in Job[p] \/ fate[k]] /\ file' = Whole(mem[p].keys) /\ pc'[p] = "written"
        \/ UNCHANGED <<file, fate>> /\ faults' = 1 /\ (pc'[p] = "gone" \/ pc'[p] = "failed")
  <2>1. Few' /\ Fails("replace") => faults' = 1
    BY <1>1 DEF Few, Fails
  <2> QED  BY <1>1, <2>1 DEF AtomicWrite, Goto, Shape, TypeOK
<1> QED  BY <1>2, <1>3, <1>4, <1>5

\* The clean-up leaves the backup that a rollback would use.
LEMMA RestCopied ==
  ASSUME Shape, InPlace, Few, Few', [Next]_vars, NEW p \in Process, Carries(p),
         \/ CleanupOldBackups(p) \/ Lock(p) \/ LockRefused(p) \/ BreakLock(p)
         \/ Unlock(p) \/ Finish(p)
  PROVE  Carries(p)' /\ (~AtWork(p)' => \A k \in Resource : Sought(k)' => OnDisk(k)')
<1>1. /\ UNCHANGED <<file, plain, faults, mem, todo, made, fate>> /\ mem[p].named
      /\ pc[p] \in {"written", "unlocked", "forced", "loaded"}
      /\ \/ pc'[p] = "gone"
         \/ pc'[p] \in {"loaded", "forced"} /\ pc[p] \in {"unlocked", "forced"}
  BY DEF CleanupOldBackups, Lock, LockRefused, BreakLock, Unlock, Finish, Goto, disk, hazards, ghosts,
         Shape, TypeOK, Carries, AtWork
<1>2. ASSUME NEW k \in Resource, Sought(k)' PROVE KeptBy(p, k)' /\ OnDisk(k)'
  <2>1. KeptBy(p, k)
    BY <1>1, <1>2, SoughtBefore DEF Carries, AtWork
  <2> QED  BY <1>1, <2>1 DEF KeptBy, OnDisk
<1> QED  BY <1>1, <1>2 DEF Carries, AtWork

\* A crash leaves what was on disk.
LEMMA CrashCopied ==
  ASSUME Shape, InPlace, Few, Few', [Next]_vars, NEW p \in Process, Carries(p), Crash(p)
  PROVE  ~AtWork(p)' /\ \A k \in Resource : Sought(k)' => OnDisk(k)'
<1>1. /\ UNCHANGED <<stamped, fate>> /\ pc'[p] = "gone" /\ AtWork(p) /\ CutThrough(p)
      /\ faults = 0 /\ mem[p].named /\ pc[p] \in Points
  BY DEF Crash, Goto, ghosts, Fails, Few, AtWork, Carries, Shape, TypeOK
<1>2. \/ UNCHANGED <<file, plain>> /\ pc[p] # "opened"
      \/ plain' = plain /\ pc[p] = "opened"
  <2>1. pc[p] # "reopened" /\ (pc[p] # "opened" => fd[p] = "none") /\ (pc[p] = "opened" => fd[p] = "file")
    BY <1>1 DEF Carries, InPlace, Few, Shape, Handles
  <2> QED  BY <1>1, <2>1 DEF CutThrough, WriteThrough
<1>3. ASSUME NEW k \in Resource, Sought(k)' PROVE OnDisk(k)'
  <2>1. KeptBy(p, k)
    BY <1>1, <1>3, SoughtBefore DEF Carries
  <2> QED  BY <1>1, <1>2, <2>1 DEF KeptBy, OnDisk, Points, AtWork, Carries
<1> QED  BY <1>1, <1>3 DEF AtWork

\* No step takes the last copy away.
LEMMA NextCopied == ASSUME Shape, Alone, InPlace, Copied, [Next]_vars PROVE Copied'
<1> SUFFICES ASSUME Few' PROVE Stored' /\ \A p \in Process : Carries(p)'
  BY DEF Copied
<1>1. Few /\ Stored /\ \A p \in Process : Carries(p)
  BY FewBefore DEF Copied
<1>2. ASSUME NEW p \in Process, Step(p) PROVE Stored' /\ \A q \in Process : Carries(q)'
  <2>1. \A q \in Process \ {p} : ~AtWork(q)'
    BY <1>2, Solo DEF Few
  <2>2. Carries(p)' /\ (~AtWork(p)' => \A k \in Resource : Sought(k)' => OnDisk(k)')
    <3>1. Crash(p) => Carries(p)' /\ \A k \in Resource : Sought(k)' => OnDisk(k)'
      BY <1>1, CrashCopied DEF Carries
    <3> QED
      BY <1>1, <1>2, <3>1, LoadCopied, ChangeCopied, SaveCopied, BackupCopied, ReplaceCopied, RestCopied
      DEF Step
  <2> QED  BY <2>1, <2>2 DEF Carries, Stored
<1>3. CASE Tick \/ ClockBack \/ UNCHANGED vars
  <2>1. /\ UNCHANGED <<file, plain, stamped, pc, mem, todo, made, fate>>
        /\ faults <= faults' /\ faults \in Nat /\ faults' \in Nat
    BY <1>3, NextShape DEF Tick, ClockBack, Fails, vars, disk, hazards, ghosts, Shape, TypeOK
  <2>2. \A k \in Resource : (Sought(k)' <=> Sought(k)) /\ (OnDisk(k)' <=> OnDisk(k))
    BY <2>1 DEF Sought, Given, Removed, OnDisk, InBackups
  <2>3. Stored'
    BY <1>1, <2>1, <2>2 DEF Stored, AtWork
  <2>4. \A p \in Process, k \in Resource : KeptBy(p, k) => KeptBy(p, k)'
    BY <2>1 DEF KeptBy, InBackups
  <2> QED  BY <1>1, <2>1, <2>2, <2>3, <2>4 DEF Carries, AtWork
<1> QED  BY <1>2, <1>3 DEF Next, AllGone

-----------------------------------------------------------------------------
(* The theorems. *)

IInv == Shape /\ Owned /\ Alone /\ InPlace /\ Recalled /\ Copied

\* The invariant: the shape of the state, the owner of the lock, one command at
\* work, the file in place, what was saved, and where it is.
THEOREM Invariance == Spec => []IInv
<1>1. Init => IInv
  <2>1. Init => Owned /\ Alone /\ InPlace
    BY DEF Init, Owned, Critical, Alone, AtWork, InPlace
  <2> QED  BY <2>1, InitShape, InitRecalled, InitCopied DEF IInv
<1>2. IInv /\ [Next]_vars => IInv'
  BY NextShape, NextOwned, NextAlone, NextInPlace, NextRecalled, NextCopied DEF IInv
<1> QED  BY <1>1, <1>2, PTL DEF Spec

\* The variables have the types StateStore declares: in particular a rollback
\* always finds a backup to write.
THEOREM Typing == Spec => []TypeOK
<1>1. IInv => TypeOK
  BY DEF IInv, Shape
<1> QED  BY Invariance, <1>1, PTL

\* Mutual exclusion of the teardowns, as long as none has removed a lock with
\* --force (Manager.Lock, Manager.Unlock).
THEOREM LockExcludes == Spec => []Exclusive
<1>1. IInv => Exclusive
  BY DEF IInv, Owned, Exclusive
<1> QED  BY Invariance, <1>1, PTL

\* Between writes the file is what the last saves said, whatever renames,
\* backups and replacements failed, for any number of commands one after
\* another (Save, SaveWithBackup).
THEOREM SavesAreKept == Spec => []NothingForgotten
<1>1. IInv => NothingForgotten
  BY DEF IInv, Recalled, Quiet, Settled, Faithful, NothingForgotten
<1> QED  BY Invariance, <1>1, PTL

\* One fault, wherever it strikes, leaves a copy of every saved key, until a
\* command starts from a document that lacks it (Save's .backup, createBackup).
THEOREM OneFaultLeavesACopy == Spec => []CopyKept
<1>1. ASSUME IInv, Few, NEW k \in Resource, Sought(k)
      PROVE  \/ OnDisk(k)
             \/ \E p \in Process : Live(p) /\ k \in mem[p].keys
  BY <1>1 DEF IInv, Copied, Stored, Carries, KeptBy, Live
<1>2. IInv => CopyKept
  BY <1>1 DEF CopyKept, Few, Sought, Given, OnDisk, InBackups
<1> QED  BY Invariance, <1>2, PTL
=============================================================================
