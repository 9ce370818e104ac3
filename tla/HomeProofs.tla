----------------------------- MODULE HomeProofs -----------------------------
(***************************************************************************)
(* What a migration and the commands beside it may do to the directories,  *)
(* for any number of commands, any layout and any number of faults: no     *)
(* file is lost or overwritten, and keys that were saved stay.             *)
(*                                                                         *)
(* The first part of the invariant (FileInv) follows a migration: each     *)
(* file is on the side the entries behind it and ahead of it say (Kept,    *)
(* Behind), and the entry in hand is free of conflicts (Clear, Current).   *)
(* The second (KeyInv) is about the document: unless a command has run     *)
(* beside the moves, whoever is between load and save has the lock of the  *)
(* document all commands use (Mine), nobody else writes it meanwhile       *)
(* (Open), and every saved key is in it (Keys).                            *)
(***************************************************************************)
EXTENDS Home, TLAPS

\* Everything but the document and the lock: what only a migration touches.
Data == Files \ {"state", "lock"}

\* The migration is past the search for conflicts; it is at an entry.
Working == {"pick", "fill", "drop"}
Placing == {"move"} \cup Working

-----------------------------------------------------------------------------
(* The tables.                                                             *)

\* The tables of entries and of files.
LEMMA Tables ==
  /\ Len(Entries) = 6 /\ DOMAIN Under = {"config", "logs", "state", "lock", "keys", "bloc"}
  /\ Entries[1] = "config" /\ Entries[2] = "logs" /\ Entries[3] = "state"
  /\ Entries[4] = "lock" /\ Entries[5] = "keys" /\ Entries[6] = "bloc"
  /\ Under["config"] = {"config"} /\ Under["logs"] = {"log"} /\ Under["state"] = {"state"}
  /\ Under["lock"] = {"lock"} /\ Under["keys"] = {"key"} /\ Under["bloc"] = {"log", "vault"}
BY DEF Entries, Under

\* The files, one by one.
LEMMA AllFiles == Files = {"config", "log", "state", "lock", "key", "vault", "note"}
<1>1. \A f : f \in Files <=> f = "note" \/ \E e \in DOMAIN Under : f \in Under[e]
  BY DEF Files
<1>2. ASSUME NEW f, NEW e \in DOMAIN Under, f \in Under[e]
      PROVE  f \in {"config", "log", "state", "lock", "key", "vault"}
  BY <1>2, Tables
<1>3. ASSUME NEW f \in {"config", "log", "state", "lock", "key", "vault"}
      PROVE  \E e \in DOMAIN Under : f \in Under[e]
  BY Tables
<1> QED  BY <1>1, <1>2, <1>3

\* The entries, and what they hold.
LEMMA EntryFacts ==
  /\ \A j \in 1 .. Len(Entries) : Entries[j] \in DOMAIN Under
  /\ \A e \in DOMAIN Under : Under[e] \subseteq Files /\ \E j \in 1 .. Len(Entries) : Entries[j] = e
  /\ \A e \in DOMAIN Under, f \in Files : Landing(e, f) \in {"new", "stray"}
  /\ \A e \in DOMAIN Under, f \in Files : Landing(e, f) # "new" => e = "bloc" /\ f = "log"
  /\ Directories \subseteq DOMAIN Under
  /\ \A e \in DOMAIN Under : e \in Directories <=> Under[e] \cap {"state", "lock", "config"} = {}
  /\ \A e \in DOMAIN Under : "state" \in Under[e] <=> e = "state"
  /\ \A e \in DOMAIN Under : "lock" \in Under[e] <=> e = "lock"
  /\ \A f \in Files \ {"note"} : \E e \in DOMAIN Under : f \in Under[e] /\ Landing(e, f) = "new"
  /\ \A d, e \in DOMAIN Under, f \in Files :
       f \in Under[d] /\ f \in Under[e] /\ Landing(d, f) = "new" /\ Landing(e, f) = "new" => d = e
<1>1. \A j \in 1 .. 6 : j = 1 \/ j = 2 \/ j = 3 \/ j = 4 \/ j = 5 \/ j = 6
  OBVIOUS
<1>2. \A j \in 1 .. Len(Entries) : Entries[j] \in DOMAIN Under
  BY <1>1, Tables
<1>3. \A e \in DOMAIN Under : Under[e] \subseteq Files /\ \E j \in 1 .. Len(Entries) : Entries[j] = e
  <2>1. \A e \in DOMAIN Under : Under[e] \subseteq Files
    BY Tables, AllFiles
  <2>2. \A e \in DOMAIN Under : \E j \in 1 .. 6 : Entries[j] = e
    BY Tables
  <2> QED  BY <2>1, <2>2, Tables
<1>4. \A e \in DOMAIN Under, f \in Files :
        /\ Landing(e, f) \in {"new", "stray"}
        /\ Landing(e, f) # "new" => e = "bloc" /\ f = "log"
  BY DEF Landing
<1>5. /\ Directories \subseteq DOMAIN Under
      /\ \A e \in DOMAIN Under : e \in Directories <=> Under[e] \cap {"state", "lock", "config"} = {}
      /\ \A e \in DOMAIN Under : "state" \in Under[e] <=> e = "state"
      /\ \A e \in DOMAIN Under : "lock" \in Under[e] <=> e = "lock"
  BY Tables DEF Directories
<1>6. \A f \in Files \ {"note"} : \E e \in DOMAIN Under : f \in Under[e] /\ Landing(e, f) = "new"
  BY Tables, AllFiles DEF Landing
<1>7. \A d, e \in DOMAIN Under, f \in Files :
        f \in Under[d] /\ f \in Under[e] /\ Landing(d, f) = "new" /\ Landing(e, f) = "new" => d = e
  BY Tables, AllFiles DEF Landing
<1> QED  BY <1>2, <1>3, <1>4, <1>5, <1>6, <1>7

\* The logs move before a bloc does.
LEMMA LogsFirst == /\ Entries[2] = "logs" /\ "log" \in Under[Entries[2]] /\ "log" \in Data
                   /\ \A j \in 1 .. Len(Entries) : Entries[j] = "bloc" => j = 6
BY Tables, AllFiles DEF Data

\* The entry after i: none that is planned lies in between.
LEMMA Following ==
  ASSUME NEW i \in 0 .. Len(Entries)
  PROVE  /\ After(i) \in i + 1 .. Len(Entries) + 1
         /\ \A j \in i + 1 .. After(i) - 1 : Entries[j] \notin mig.plan
<1> DEFINE later == {j \in i + 1 .. Len(Entries) : Entries[j] \in mig.plan}
<1>1. CASE later = {}
  BY <1>1, Tables DEF After
<1>2. CASE later # {}
  <2>1. \E j \in later : \A k \in later : j <= k
    <3>1. later \subseteq 1 .. 6
      BY Tables
    <3> HIDE DEF later
    <3>2. CASE 1 \in later  BY <3>1, <3>2
    <3>3. CASE 1 \notin later /\ 2 \in later  BY <3>1, <3>3
    <3>4. CASE later \subseteq 3 .. 6 /\ 3 \in later  BY <3>4
    <3>5. CASE later \subseteq 4 .. 6 /\ 4 \in later  BY <3>5
    <3>6. CASE later \subseteq 5 .. 6 /\ 5 \in later  BY <3>6
    <3>7. CASE later = {6}  BY <3>7
    <3>8. 1 \notin later /\ 2 \notin later => later \subseteq 3 .. 6  BY <3>1
    <3>9. later \subseteq 3 .. 6 /\ 3 \notin later => later \subseteq 4 .. 6  OBVIOUS
    <3>10. later \subseteq 4 .. 6 /\ 4 \notin later => later \subseteq 5 .. 6  OBVIOUS
    <3>11. later \subseteq 5 .. 6 /\ 5 \notin later => later = {6}
      <4>1. 5 .. 6 = {5, 6}  OBVIOUS
      <4> QED  BY <1>2, <4>1
    <3> QED  BY <3>2, <3>3, <3>4, <3>5, <3>6, <3>7, <3>8, <3>9, <3>10, <3>11
  <2>2. After(i) = CHOOSE j \in later : \A k \in later : j <= k
    BY <1>2 DEF After
  <2>3. After(i) \in later /\ \A k \in later : After(i) <= k
    BY <2>1, <2>2
  <2> QED  BY <2>3, Tables
<1> QED  BY <1>1, <1>2

-----------------------------------------------------------------------------
(* The invariant.                                                          *)

Disk(a) == /\ a = [r \in Roots |-> a[r]]
           /\ \A r \in Roots : a[r] = [f \in Files |-> a[r][f]]

Records == [pc : Moving \cup {"idle", "guard"}, i : 0 .. Len(Entries) + 1,
            plan : SUBSET DOMAIN Under, todo : SUBSET Files,
            mode : {"merge", "whole"}, leaf : Files, seen : {{}}]

Types ==
  /\ Disk(at) /\ dirs \subseteq Directories
  /\ machine \in [unix : BOOLEAN, xdev : BOOLEAN, oldKeys : BOOLEAN, layout : Layouts]
  /\ mig \in Records
  /\ track \in [Commands -> Sides \cup {None}]

\* A file of ~/.ocfp is whole where it was or where it belongs, and what was
\* under XDG is as it was; a directory that is not there holds nothing.
Kept ==
  /\ \A f \in Data : at["legacy"][f] \in {None, "whole"}
  /\ \A f \in Data : f \in machine.layout.legacy => \E s \in Sides : at[s][f] = "whole"
  /\ \A f \in Data : f \in machine.layout.new => at["new"][f] = "other"
  /\ \A e \in Directories : e \notin dirs =>
       \A f \in Under[e] \cap Data : Landing(e, f) = "new" => ~Has("new", f)

\* What is there is planned, and what lies behind the cursor has moved.
Behind ==
  /\ mig.pc # "idle" =>
       \A e \in DOMAIN Under \ mig.plan : \A f \in Under[e] \cap Data : ~Has("legacy", f)
  /\ mig.pc \in {"guard", "check"} => mig.i = 0
  /\ mig.pc \in Placing =>
       /\ mig.i > 0
       /\ \A j \in 1 .. Len(Entries) : j < mig.i =>
            \A f \in Under[Entries[j]] \cap Data : ~Has("legacy", f)

\* The file at both places is one that is being moved.
InHand(f) == /\ f \in Under[Entry] /\ mig.pc \in Working
             /\ IF mig.mode = "whole" THEN f \notin mig.todo
                ELSE mig.pc # "pick" /\ f = mig.leaf
Clear == mig.pc \in Placing =>
           \A f \in Data \ {"note"} : Has("legacy", f) /\ Has("new", f) => InHand(f)

\* The entry at the cursor: what is left to do, and what is copied.
Current == mig.pc \in Working =>
  /\ mig.i <= Len(Entries) /\ mig.todo \subseteq Under[Entry]
  /\ Entry \in Directories => Entry \in dirs
  /\ mig.pc # "pick" /\ (mig.pc = "drop" => mig.mode = "merge") =>
       /\ mig.leaf \in Under[Entry] \ mig.todo
       /\ mig.leaf \in Data /\ mig.pc = "fill" => Has("legacy", mig.leaf)
       /\ mig.leaf \in Data /\ mig.pc = "drop" => at["new"][mig.leaf] = "whole"
       /\ mig.leaf \notin machine.layout.new \/ mig.leaf \notin Data
  /\ mig.mode = "merge" =>
       \A f \in Under[Entry] \cap Data : Has("legacy", f) =>
         f \in mig.todo \/ (mig.pc # "pick" /\ f = mig.leaf)
  /\ mig.mode = "whole" =>
       /\ machine.xdev /\ Entry \in Directories
       /\ mig.pc = "drop" => mig.todo = {}
       /\ \A f \in Under[Entry] : Landing(Entry, f) = "new" =>
            /\ f \notin machine.layout.new
            /\ mig.pc # "drop" /\ ~Has("legacy", f) => ~Has("new", f)
            /\ Has("legacy", f) /\ f \notin mig.todo /\ ~(mig.pc = "fill" /\ f = mig.leaf)
                 => at["new"][f] = "whole"

FileInv == Types /\ Kept /\ Behind /\ Clear /\ Current

-----------------------------------------------------------------------------
(* Updates of the directories, file by file.                               *)

\* One file is written.
LEMMA Patch ==
  ASSUME NEW a, Disk(a), NEW s, NEW g, NEW v, NEW b, b = [a EXCEPT ![s][g] = v]
  PROVE  /\ Disk(b)
         /\ \A r \in Roots, f \in Files : b[r][f] = IF r = s /\ f = g THEN v ELSE a[r][f]
BY DEF Disk

\* Some files of one root are erased.
LEMMA ErasedAt ==
  ASSUME NEW d, Disk(d), NEW r, NEW F, NEW b, b = Erased(d, r, F)
  PROVE  /\ Disk(b)
         /\ \A s \in Roots, f \in Files : b[s][f] = IF s = r /\ f \in F THEN None ELSE d[s][f]
BY DEF Disk, Erased

\* The roots.
LEMMA Places == /\ "legacy" \in Roots /\ "new" \in Roots /\ "stray" \in Roots
                /\ "legacy" \in Sides /\ "new" \in Sides /\ Sides \subseteq Roots
                /\ \A s \in Sides : s = "legacy" \/ s = "new"
BY DEF Roots, Sides

\* No migration is one.
LEMMA NoneTyped == NoMigration \in Records
BY AllFiles, Tables DEF NoMigration, Records

-----------------------------------------------------------------------------
(* The commands leave everything but the document and the lock alone.      *)

\* What a layout starts with is whole.
LEMMA InitFiles == Init => FileInv
<1> SUFFICES ASSUME Init PROVE FileInv
  OBVIOUS
<1>1. PICK l \in Layouts, u, x, o \in BOOLEAN :
        /\ machine = [unix |-> u, xdev |-> x, oldKeys |-> o, layout |-> l]
        /\ at = [r \in Roots |-> [f \in Files |->
                  IF r = "legacy" /\ f \in l.legacy
                  THEN IF f = "state" THEN {Elder} ELSE "whole"
                  ELSE IF r = "new" /\ f \in l.new
                  THEN IF f = "state" THEN {Elder} ELSE "other" ELSE None]]
        /\ dirs = l.dirs
  BY DEF Init
<1>2. l.dirs \subseteq Directories
  BY LayoutsAssumption
<1>3. mig = NoMigration
  BY DEF Init
<1>4. Disk(at)
  BY <1>1 DEF Disk
<1>6. Types
  BY <1>1, <1>2, <1>3, <1>4, NoneTyped DEF Init, Types
<1>7. Kept
  <2>1. \A f \in Data : f \in Files /\ f # "state"
    BY DEF Data
  <2>2. \A f \in Files : f # "state" =>
          /\ at["legacy"][f] = IF f \in l.legacy THEN "whole" ELSE None
          /\ at["new"][f] = IF f \in l.new THEN "other" ELSE None
    BY <1>1, Places
  <2>3. \A e \in Directories : e \notin dirs =>
          \A f \in Under[e] \cap Data : Landing(e, f) = "new" => ~Has("new", f)
    BY <1>1, <2>1, <2>2, LayoutsAssumption DEF Has
  <2>4. machine.layout = l
    BY <1>1
  <2> QED  BY <2>1, <2>2, <2>3, <2>4, Places DEF Kept
<1> QED  BY <1>3, <1>6, <1>7 DEF FileInv, Behind, Clear, Current, Placing, Working, NoMigration

\* A step that leaves the data, the directories and the migration alone.
LEMMA Untouched ==
  ASSUME FileInv, Disk(at'), \A r \in Roots, f \in Data : at'[r][f] = at[r][f],
         UNCHANGED <<machine, dirs, mig>>, track' \in [Commands -> Sides \cup {None}]
  PROVE  FileInv'
<1>1. \A r \in Roots, f \in Data : Has(r, f)' <=> Has(r, f)
  BY DEF Has
<1>2. Types' /\ Kept'
  BY <1>1, Places DEF FileInv, Types, Kept
<1>3. Behind'
  BY <1>1, Places DEF FileInv, Behind
<1>4. Clear'
  BY <1>1, Places DEF FileInv, Clear, InHand, Entry
<1>5. Current'
  <2>1. UNCHANGED Entry
    BY DEF Entry
  <2>2. CASE mig.pc \in Working
    <3>1. mig.mode = "whole" => Under[Entry] \subseteq Data
      BY <2>2, EntryFacts DEF FileInv, Types, Records, Current, Data
    <3> QED  BY <1>1, <2>1, <2>2, <3>1, Places DEF FileInv, Current
  <2> QED  BY <2>2 DEF Current
<1> QED  BY <1>2, <1>3, <1>4, <1>5 DEF FileInv

\* A command writes the document and the lock, and nothing else.
LEMMA CommandFiles == ASSUME FileInv, NEW c \in Commands, Command(c) \/ Kill(c) PROVE FileInv'
<1>1. UNCHANGED <<machine, dirs, mig>>
  BY DEF Command, Peek, Convert, SetupCommandTracking, AcquireStateLock, GiveUp, FindStale,
         ReclaimStaleLock, LoadState, SaveState, Truncate, Write, Unlock, ReleaseCommandLock, Kill, CmdKeep,
         diskVars
<1>2. at' = at \/ \E s, v : \E g \in {"state", "lock"} : at' = [at EXCEPT ![s][g] = v]
  <2>1. CASE UNCHANGED at
    BY <2>1
  <2>2. CASE Convert(c) \/ LoadState(c) \/ Truncate(c)
    BY <2>2 DEF Convert, LoadState, Truncate
  <2>3. CASE AcquireStateLock(c)
    BY <2>3 DEF AcquireStateLock
  <2>4. CASE ReclaimStaleLock(c) \/ Unlock(c)
    BY <2>4 DEF ReclaimStaleLock, Unlock, RemoveLock
  <2>5. CASE Write(c)
    BY <2>5 DEF Write, Written
  <2> QED
    BY <2>1, <2>2, <2>3, <2>4, <2>5
       DEF Command, Peek, SetupCommandTracking, GiveUp, FindStale, SaveState, ReleaseCommandLock, Kill,
           diskVars
<1>3. Disk(at') /\ \A r \in Roots, f \in Data : at'[r][f] = at[r][f]
  <2>1. CASE at' = at
    BY <2>1 DEF FileInv, Types
  <2>2. ASSUME NEW s, NEW v, NEW g \in {"state", "lock"}, at' = [at EXCEPT ![s][g] = v]
        PROVE  Disk(at') /\ \A r \in Roots, f \in Data : at'[r][f] = at[r][f]
    <3>1. Disk(at)
      BY DEF FileInv, Types
    <3>2. Disk(at') /\ \A r \in Roots, f \in Files :
                        at'[r][f] = IF r = s /\ f = g THEN v ELSE at[r][f]
      BY <2>2, <3>1 DEF Disk
    <3> QED  BY <3>2 DEF Data
  <2> QED  BY <1>2, <2>1, <2>2
<1>4. track' \in [Commands -> Sides \cup {None}]
  <2>1. BaseDir \in Sides
    BY Places DEF BaseDir
  <2>2. track' = track \/ \E s \in Sides \cup {None} : track' = [track EXCEPT ![c] = s]
    BY <2>1
       DEF Command, Peek, Convert, SetupCommandTracking, AcquireStateLock, GiveUp, FindStale,
           ReclaimStaleLock, LoadState, SaveState, Truncate, Write, Unlock, ReleaseCommandLock, Kill
  <2> QED  BY <2>2 DEF FileInv, Types
<1> QED  BY <1>1, <1>3, <1>4, Untouched

-----------------------------------------------------------------------------
(* The migration.                                                          *)

\* A migration that ends, and one that has not looked for conflicts yet.
LEMMA Stopped ==
  ASSUME FileInv, Types', Kept', mig'.pc = "idle"
  PROVE  FileInv'
BY DEF FileInv, Behind, Clear, Current, Placing, Working

\* A migration that is refused before it has touched anything.
LEMMA Refused ==
  ASSUME FileInv, Disk(at'), \A r \in Roots, f \in Data : at'[r][f] = at[r][f],
         UNCHANGED <<machine, dirs, track>>, mig' = NoMigration
  PROVE  FileInv'
<1>2. Types'
  BY NoneTyped DEF FileInv, Types
<1>3. Kept'
  BY Places DEF FileInv, Kept, Has
<1> QED  BY <1>2, <1>3, Stopped DEF NoMigration

\* BuildMigratePlan lists the entries there are.
LEMMA PlanFiles == ASSUME FileInv, BuildMigratePlan PROVE FileInv'
<1>1. /\ mig' = [NoMigration EXCEPT !.pc = "guard",
             !.plan = {e \in DOMAIN Under : \E f \in Under[e] : Has("legacy", f)}]
      /\ UNCHANGED <<machine, at, dirs, track>>
  BY DEF BuildMigratePlan, Step, MigKeep, diskVars
<1>3. Types'
  <2> DEFINE P == {e \in DOMAIN Under : \E f \in Under[e] : Has("legacy", f)}
  <2>1. P \subseteq DOMAIN Under /\ mig' = [NoMigration EXCEPT !.pc = "guard", !.plan = P]
    BY <1>1
  <2> HIDE DEF P
  <2>2. mig' \in Records
    BY <2>1, NoneTyped DEF Records
  <2> QED  BY <1>1, <2>2 DEF FileInv, Types
<1>6. Kept'
  BY <1>1 DEF FileInv, Kept, Has
<1>4. Behind'
  BY <1>1 DEF Behind, NoMigration, Placing, Working, Has
<1>5. Clear' /\ Current'
  BY <1>1 DEF Clear, Current, NoMigration, Placing, Working
<1> QED  BY <1>3, <1>4, <1>5, <1>6 DEF FileInv

\* RefuseIfLive removes locks nobody holds, and has seen no running command go on.
LEMMA GuardFiles == ASSUME FileInv, RefuseIfLive PROVE FileInv'
<1> DEFINE seen == {c \in Commands : track[c] # None /\ LockHolderRunning(c)}
           found == {c \in Commands : track[c] \in Guarded}
           live == {c \in found : LockHolderRunning(c)}
<1>1. /\ track' = [c \in Commands |-> IF c \in found \ live THEN None ELSE track[c]]
      /\ \/ mig' = NoMigration
         \/ live = {} /\ mig' = [mig EXCEPT !.pc = "check", !.seen = seen]
      /\ UNCHANGED <<machine, at, dirs>> /\ mig.pc = "guard"
  BY DEF RefuseIfLive, Refuse, Step, MigKeep, diskVars
<1>2. seen \subseteq live
  BY DEF FileInv, Types, Guarded
<1>4. track' \in [Commands -> Sides \cup {None}]
  BY <1>1 DEF FileInv, Types
<1>5. mig' = NoMigration \/ mig' = [mig EXCEPT !.pc = "check", !.seen = {}]
  BY <1>1, <1>2
<1> HIDE DEF seen, found, live
<1>3. mig' \in Records
  BY <1>5, NoneTyped DEF FileInv, Types, Records, Moving
<1>6. Types'
  BY <1>1, <1>3, <1>4 DEF FileInv, Types
<1>7. Kept'
  BY <1>1 DEF FileInv, Kept, Has
<1>8. Behind' /\ Clear' /\ Current'
  <2>1. CASE mig' = NoMigration
    BY <2>1 DEF Behind, Clear, Current, NoMigration, Placing, Working
  <2>2. CASE mig' = [mig EXCEPT !.pc = "check", !.seen = {}]
    <3>1. /\ mig'.pc = "check" /\ UNCHANGED <<mig.i, mig.plan>>
      BY <2>2 DEF FileInv, Types, Records
    <3> QED  BY <1>1, <3>1 DEF FileInv, Behind, Clear, Current, Placing, Working, Has
  <2> QED  BY <1>5, <2>1, <2>2
<1> QED  BY <1>6, <1>7, <1>8 DEF FileInv

\* The cursor goes on past an entry of which nothing is left.
LEMMA Advance ==
  ASSUME Types, Behind, mig' = Onward, mig.i <= Len(Entries),
         mig.pc # "idle", mig.pc = "check" \/ mig.pc \in Placing,
         mig.pc # "check" => \A f \in Under[Entry] \cap Data : ~Has("legacy", f)',
         \A f \in Data : Has("legacy", f)' => Has("legacy", f)
  PROVE  /\ Behind' /\ mig'.pc = "move" /\ mig'.i \in 1 .. Len(Entries) + 1
         /\ UNCHANGED <<mig.plan, mig.todo, mig.mode, mig.leaf, mig.seen>>
<1>1. mig.i \in 0 .. Len(Entries) /\ Len(Entries) = 6
  BY Tables DEF Types, Records
<1>2. /\ mig'.pc = "move" /\ mig'.i = After(mig.i)
      /\ UNCHANGED <<mig.plan, mig.todo, mig.mode, mig.leaf, mig.seen>>
  BY DEF Onward, Types, Records
<1>3. /\ After(mig.i) \in mig.i + 1 .. Len(Entries) + 1
      /\ \A j \in mig.i + 1 .. After(mig.i) - 1 : Entries[j] \notin mig.plan
  BY <1>1, Following
<1>4. ASSUME NEW j \in 1 .. Len(Entries), j < After(mig.i), NEW f \in Under[Entries[j]] \cap Data
      PROVE  ~Has("legacy", f)'
  <2>1. CASE j < mig.i
    BY <1>1, <2>1 DEF Behind, Placing, Working
  <2>2. CASE j = mig.i
    BY <1>1, <2>2 DEF Behind, Entry
  <2>3. CASE j > mig.i
    <3>1. Entries[j] \in DOMAIN Under \ mig.plan
      BY <1>1, <1>3, <1>4, <2>3, EntryFacts
    <3> QED  BY <3>1 DEF Behind
  <2> QED  BY <1>1, <2>1, <2>2, <2>3
<1>5. ASSUME NEW e \in DOMAIN Under \ mig.plan, NEW f \in Under[e] \cap Data
      PROVE  ~Has("legacy", f)'
  BY DEF Behind
<1> QED  BY <1>1, <1>2, <1>3, <1>4, <1>5 DEF Behind

\* RefuseConflicts goes on when no file is at both places.
LEMMA ConflictFiles == ASSUME FileInv, RefuseConflicts PROVE FileInv'
<1>1. mig.pc = "check" /\ UNCHANGED <<machine, at, dirs, track>>
  BY DEF RefuseConflicts, MigKeep, diskVars
<1>2. CASE mig' = NoMigration
  BY <1>1, <1>2, Refused DEF FileInv, Types
<1>3. CASE Conflicts = {} /\ mig' = Onward
  <2>1. mig.i = 0 /\ Len(Entries) = 6
    BY <1>1, Tables DEF FileInv, Behind
  <2>2. \A r \in Roots, f \in Files : Has(r, f)' <=> Has(r, f)
    BY <1>1 DEF Has
  <2>3. /\ Behind' /\ mig'.pc = "move" /\ mig'.i \in 1 .. Len(Entries) + 1
        /\ UNCHANGED <<mig.plan, mig.todo, mig.mode, mig.leaf, mig.seen>>
    BY <1>1, <1>3, <2>1, <2>2, Advance, Places DEF FileInv, Data
  <2>4. mig' \in Records
    <3> DEFINE a == After(mig.i)
    <3>1. mig' = [mig EXCEPT !.pc = "move", !.i = a]
      BY <1>3 DEF Onward
    <3>2. a \in 0 .. Len(Entries) + 1
      BY <2>3, <3>1 DEF FileInv, Types, Records
    <3> HIDE DEF a
    <3> QED  BY <3>1, <3>2 DEF FileInv, Types, Records, Moving
  <2>8. Types' /\ Kept'
    BY <1>1, <2>4 DEF FileInv, Types, Kept, Has
  <2>5. ASSUME NEW f \in Data \ {"note"}, Has("legacy", f), Has("new", f) PROVE FALSE
    <3>1. PICK e \in DOMAIN Under : f \in Under[e] /\ Landing(e, f) = "new"
      BY EntryFacts DEF Data
    <3>2. e \in mig.plan
      BY <1>1, <2>5, <3>1 DEF FileInv, Behind
    <3>3. f \in Conflicts
      BY <2>5, <3>1, <3>2 DEF Conflicts, Discardable, Data
    <3> QED  BY <1>3, <3>3
  <2>6. Clear'
    BY <2>2, <2>5, Places DEF Clear, Data
  <2>7. Current'
    BY <2>3 DEF Current, Working
  <2> QED  BY <2>3, <2>8, <2>6, <2>7 DEF FileInv
<1> QED  BY <1>2, <1>3 DEF RefuseConflicts, Refuse, Step

\* At the cursor a file lands where it is looked for.
LEMMA LandsThere ==
  ASSUME Types, Behind, mig.pc \in Placing, mig.i <= Len(Entries)
  PROVE  /\ mig.i \in 1 .. Len(Entries) /\ Entry \in DOMAIN Under /\ Under[Entry] \subseteq Files
         /\ \A f \in Under[Entry] : Has("legacy", f) => Landing(Entry, f) = "new"
<1>1. mig.i \in 1 .. Len(Entries)
  BY Tables DEF Types, Records, Behind
<1>2. Entry \in DOMAIN Under /\ Under[Entry] \subseteq Files
  BY <1>1, EntryFacts DEF Entry
<1>3. ASSUME NEW f \in Under[Entry], Has("legacy", f), Landing(Entry, f) # "new" PROVE FALSE
  <2>1. Entry = "bloc" /\ f = "log"
    BY <1>2, <1>3, EntryFacts
  <2>2. mig.i = 6 /\ 2 \in 1 .. Len(Entries)
    BY <1>1, <2>1, LogsFirst, Tables DEF Entry
  <2> QED  BY <1>3, <2>1, <2>2, LogsFirst DEF Behind
<1> QED  BY <1>1, <1>2, <1>3

\* The next entry is one, or the end.
LEMMA OnwardTyped == ASSUME Types, mig.i <= Len(Entries) PROVE Onward \in Records
<1>1. After(mig.i) \in 0 .. Len(Entries) + 1
  BY Following, Tables DEF Types, Records
<1> QED  BY <1>1 DEF Onward, Types, Records, Moving

\* MoveEntry renames a directory that is not there yet, or takes the entry up.
LEMMA EntryFiles == ASSUME FileInv, MoveEntry PROVE FileInv'
<1>1. /\ mig.pc = "move" /\ mig.i <= Len(Entries) /\ UNCHANGED <<machine, track>>
      /\ At(Entry) = {f \in Under[Entry] : Has("legacy", f)}
  BY DEF MoveEntry, MoveKeep, MigKeep, At
<1>2. /\ mig.i \in 1 .. Len(Entries) /\ Entry \in DOMAIN Under /\ Under[Entry] \subseteq Files
      /\ \A f \in At(Entry) : Landing(Entry, f) = "new"
  BY <1>1, LandsThere DEF FileInv, Placing
<1>3. \A f \in Data \ {"note"} : ~(Has("legacy", f) /\ Has("new", f))
  BY <1>1 DEF FileInv, Clear, Placing, InHand, Working
<1>4. Entry \in Directories => Under[Entry] \subseteq Data \ {"note"}
  BY <1>2, EntryFacts, Tables, AllFiles DEF Data, Directories
<1>5. ASSUME NEW mode \in {"merge", "whole"}, UNCHANGED at,
             mig' = [mig EXCEPT !.pc = "pick", !.mode = mode, !.todo = At(Entry)],
             IF mode = "merge" THEN (Entry \notin Directories \/ Entry \in dirs) /\ UNCHANGED dirs
             ELSE /\ Entry \in Directories \ dirs /\ machine.xdev
                  /\ dirs' = dirs \cup {Entry}
      PROVE  FileInv'
  <2>1. /\ mig'.pc = "pick" /\ mig'.mode = mode /\ mig'.todo = At(Entry)
        /\ UNCHANGED <<mig.i, mig.plan, mig.leaf, mig.seen>>
    BY <1>5 DEF FileInv, Types, Records
  <2>2. UNCHANGED Entry
    BY <2>1 DEF Entry
  <2>3. \A r \in Roots, f \in Files : Has(r, f)' <=> Has(r, f)
    BY <1>5 DEF Has
  <2>4. At(Entry) \subseteq Files
    BY <1>1, <1>2
  <2>5. mig' \in Records
    BY <1>5, <2>4 DEF FileInv, Types, Records, Moving
  <2>6. Types' /\ Kept'
    <3>1. dirs' \subseteq Directories /\ dirs \subseteq dirs'
      BY <1>5 DEF FileInv, Types
    <3> QED  BY <1>1, <1>5, <2>3, <2>5, <3>1 DEF FileInv, Types, Kept, Has
  <2>7. Behind'
    BY <1>1, <1>5, <2>1 DEF FileInv, Behind, Placing, Working, Has
  <2>8. Clear'
    BY <1>3, <2>3, Places DEF Clear, Data
  <2>9. Current'
    <3>1. CASE mode = "merge"
      BY <1>1, <1>2, <1>5, <2>1, <2>2, <2>3, <3>1, Places DEF Current, Data
    <3>2. CASE mode = "whole"
      <4>1. ASSUME NEW f \in Under[Entry], Landing(Entry, f) = "new"
            PROVE  f \notin machine.layout.new /\ ~Has("new", f)
        <5>1. f \in Data /\ ~Has("new", f)
          BY <1>4, <1>5, <3>2, <4>1 DEF FileInv, Kept
        <5> QED  BY <5>1, NamesAssumption DEF FileInv, Kept, Has
      <4>2. \A f \in Under[Entry] : Has("legacy", f) => f \in At(Entry)
        BY <1>1
      <4> QED
        BY <1>1, <1>2, <1>5, <2>1, <2>2, <2>3, <3>2, <4>1, <4>2, Places DEF Current, Data
    <3> QED  BY <3>1, <3>2
  <2> QED  BY <2>6, <2>7, <2>8, <2>9 DEF FileInv
<1>6. ASSUME mig' = Onward, dirs' = dirs \cup {Entry}, Entry \in Directories \ dirs,
             at' = Erased(Placed(At(Entry), TRUE), "legacy", At(Entry))
      PROVE  FileInv'
  <2> DEFINE F == At(Entry)
  <2>1. /\ Disk(at')
        /\ \A f \in Files : /\ at'["legacy"][f] = IF f \in F THEN None ELSE at["legacy"][f]
                            /\ at'["new"][f] = IF f \in F THEN at["legacy"][f] ELSE at["new"][f]
    <3> DEFINE b == Placed(F, TRUE)
    <3>1. Disk(b) /\ \A s \in Roots, f \in Files :
                        b[s][f] = IF f \in F /\ s = Landing(Entry, f) THEN at["legacy"][f] ELSE at[s][f]
      <4>1. b = Placed(F, TRUE)
        OBVIOUS
      <4> HIDE DEF b, F
      <4> QED  BY <4>1 DEF Disk, Placed
    <3>2. at' = Erased(b, "legacy", F)
      BY <1>6
    <3> HIDE DEF b
    <3>3. Disk(at') /\ \A s \in Roots, f \in Files :
                          at'[s][f] = IF s = "legacy" /\ f \in F THEN None ELSE b[s][f]
      BY <3>1, <3>2, ErasedAt
    <3> HIDE DEF F
    <3> QED  BY <1>2, <3>1, <3>3, Places DEF F
  <2>2. F \subseteq Data \ {"note"} /\ \A f \in F : Has("legacy", f) /\ ~Has("new", f)
    BY <1>1, <1>3, <1>4, <1>6
  <2>3. \A f \in Under[Entry] : f \notin F => ~Has("legacy", f)
    BY <1>1
  <2>4. Data \subseteq Files
    BY DEF Data
  <2> HIDE DEF F
  <2>5. Types'
    <3>1. dirs' \subseteq Directories
      BY <1>6 DEF FileInv, Types
    <3>2. mig' \in Records
      BY <1>1, <1>6, OnwardTyped DEF FileInv
    <3> QED  BY <1>1, <2>1, <3>1, <3>2 DEF FileInv, Types
  <2>6. Kept'
    <3>1. \A f \in Data : at'["legacy"][f] \in {None, "whole"}
      BY <2>1, <2>4 DEF FileInv, Kept
    <3>2. ASSUME NEW f \in Data, f \in machine'.layout.legacy PROVE \E s \in Sides : at'[s][f] = "whole"
      BY <1>1, <2>1, <2>2, <2>4, <3>2, Places DEF FileInv, Kept, Has
    <3>3. ASSUME NEW f \in Data, f \in machine'.layout.new PROVE at'["new"][f] = "other"
      BY <1>1, <2>1, <2>2, <2>4, <3>3, NamesAssumption DEF FileInv, Kept, Has
    <3>4. ASSUME NEW e \in Directories, e \notin dirs', NEW f \in Under[e] \cap Data, Landing(e, f) = "new"
          PROVE  ~Has("new", f)'
      <4>1. f \notin F
        BY <1>1, <1>2, <1>6, <3>4, EntryFacts, <2>4 DEF F
      <4> QED  BY <1>6, <2>1, <2>4, <3>4, <4>1 DEF FileInv, Kept, Has
    <3> QED  BY <3>1, <3>2, <3>3, <3>4 DEF Kept
  <2>7. /\ Behind' /\ mig'.pc = "move" /\ mig'.i \in 1 .. Len(Entries) + 1
        /\ UNCHANGED <<mig.plan, mig.todo, mig.mode, mig.leaf, mig.seen>>
    <3>1. \A f \in Under[Entry] \cap Data : ~Has("legacy", f)'
      BY <1>2, <2>1, <2>3 DEF Has
    <3>2. \A f \in Data : Has("legacy", f)' => Has("legacy", f)
      BY <2>1, <2>4 DEF Has
    <3> QED  BY <1>1, <1>6, <3>1, <3>2, Advance DEF FileInv, Placing
  <2>8. Clear'
    BY <1>3, <2>1, <2>4 DEF Clear, Has
  <2>9. Current'
    BY <2>7 DEF Current, Working
  <2> QED  BY <2>5, <2>6, <2>7, <2>8, <2>9 DEF FileInv
<1>7. \/ /\ Entry \notin Directories \/ Entry \in dirs
         /\ mig' = [mig EXCEPT !.pc = "pick", !.mode = "merge", !.todo = At(Entry)]
         /\ UNCHANGED <<at, dirs>>
      \/ /\ Entry \in Directories \ dirs /\ machine.xdev /\ dirs' = dirs \cup {Entry}
         /\ mig' = [mig EXCEPT !.pc = "pick", !.mode = "whole", !.todo = At(Entry)]
         /\ UNCHANGED at
      \/ /\ Entry \in Directories \ dirs /\ dirs' = dirs \cup {Entry} /\ mig' = Onward
         /\ at' = Erased(Placed(At(Entry), TRUE), "legacy", At(Entry))
      \/ Refuse /\ UNCHANGED <<at, dirs>>
  BY DEF MoveEntry, Step, diskVars
<1>8. CASE Refuse /\ UNCHANGED <<at, dirs>>
  BY <1>1, <1>8, Refused DEF FileInv, Types, Refuse, Step
<1> QED  BY <1>5, <1>6, <1>7, <1>8

\* One file moved from the old place to the new, or only erased.
LEMMA FileFiles == ASSUME FileInv, MoveFile PROVE FileInv'
<1>1. PICK f \in mig.todo :
        LET rest == [mig EXCEPT !.todo = @ \ {f}] IN
         IF ~Has("legacy", f) \/ InUse(f) THEN Refuse /\ UNCHANGED <<at, holder>>
         ELSE IF mig.mode = "merge" /\ Discardable(f)
         THEN Step(rest) /\ at' = Erased(at, "legacy", {f}) /\ LockMoves({f}, None)
         ELSE IF Unrenamable THEN Refuse /\ UNCHANGED <<at, holder>>
         ELSE IF ~machine.xdev
         THEN /\ Step(rest) /\ at' = Erased(Placed({f}, TRUE), "legacy", {f})
              /\ LockMoves({f}, "new")
         ELSE /\ Step([rest EXCEPT !.pc = "fill", !.leaf = f])
              /\ at' = Placed({f}, FALSE) /\ UNCHANGED holder
  BY DEF MoveFile
<1> DEFINE rest == [mig EXCEPT !.todo = @ \ {f}]
<1>2. mig.pc = "pick" /\ UNCHANGED <<machine, dirs, track>> /\ mig.i <= Len(Entries)
  BY DEF MoveFile, MoveKeep, MigKeep, FileInv, Current, Working
<1>3. /\ mig.i \in 1 .. Len(Entries) /\ Entry \in DOMAIN Under /\ Under[Entry] \subseteq Files
      /\ f \in Under[Entry] /\ f \in Files
      /\ Has("legacy", f) => Landing(Entry, f) = "new"
  BY <1>2, LandsThere DEF FileInv, Placing, Current, Working
<1>4. Data \subseteq Files /\ (f \in Data => f # "note") /\ (f # "lock" => ~Discardable(f))
  BY <1>3, EntryFacts, Tables DEF Data, Discardable
<1>9. mig' = rest =>
        /\ mig' \in Records /\ mig'.todo = mig.todo \ {f} /\ UNCHANGED Entry
        /\ UNCHANGED <<mig.pc, mig.i, mig.plan, mig.mode, mig.leaf, mig.seen>>
  BY DEF FileInv, Types, Records, Entry
<1>5. CASE mig' = NoMigration /\ UNCHANGED at
  BY <1>2, <1>5, Refused DEF FileInv, Types
<1>6. CASE mig' = rest /\ f = "lock" /\ at' = Erased(at, "legacy", {f})
  <2>1. Disk(at') /\ \A r \in Roots, g \in Data : at'[r][g] = at[r][g]
    <3>1. Disk(at)
      BY DEF FileInv, Types
    <3>2. Disk(at') /\ \A r \in Roots, g \in Files :
                          at'[r][g] = IF r = "legacy" /\ g \in {f} THEN None ELSE at[r][g]
      BY <1>6, <3>1, ErasedAt
    <3> QED  BY <1>6, <3>2 DEF Data
  <2>2. /\ \A r \in Roots, g \in Data : Has(r, g)' <=> Has(r, g)
        /\ mig.mode = "merge"
    BY <1>2, <1>3, <1>6, <2>1, EntryFacts DEF Has, FileInv, Current, Types, Records, Working
  <2>3. Types' /\ Kept'
    BY <1>2, <1>9, <1>6, <2>1, <2>2, Places DEF FileInv, Types, Kept
  <2>4. Behind'
    BY <1>2, <1>9, <1>6, <2>2, Places DEF FileInv, Behind, Placing, Working
  <2>5. Clear'
    BY <1>2, <1>9, <1>6, <2>2, Places DEF FileInv, Clear, InHand, Placing, Working, Data
  <2>6. Current'
    BY <1>2, <1>9, <1>6, <2>2, Places DEF FileInv, Current, Working, Data
  <2> QED  BY <2>3, <2>4, <2>5, <2>6 DEF FileInv
<1>7. CASE mig' = rest /\ Has("legacy", f) /\ ~machine.xdev /\ at' = Erased(Placed({f}, TRUE), "legacy", {f})
  <2>1. /\ Disk(at')
        /\ \A g \in Files : /\ at'["legacy"][g] = IF g = f THEN None ELSE at["legacy"][g]
                            /\ at'["new"][g] = IF g = f THEN at["legacy"][f] ELSE at["new"][g]
    <3> DEFINE b == Placed({f}, TRUE)
    <3>1. Disk(b) /\ \A s \in Roots, g \in Files :
                        b[s][g] = IF g \in {f} /\ s = Landing(Entry, g) THEN at["legacy"][g] ELSE at[s][g]
      <4>1. b = Placed({f}, TRUE)
        OBVIOUS
      <4> HIDE DEF b
      <4> QED  BY <4>1 DEF Disk, Placed
    <3>2. at' = Erased(b, "legacy", {f})
      BY <1>7
    <3> HIDE DEF b
    <3>3. Disk(at') /\ \A s \in Roots, g \in Files :
                          at'[s][g] = IF s = "legacy" /\ g \in {f} THEN None ELSE b[s][g]
      BY <3>1, <3>2, ErasedAt
    <3>4. Landing(Entry, f) = "new"
      BY <1>3, <1>7
    <3> QED  BY <3>1, <3>3, <3>4, Places
  <2>2. mig.mode = "merge"
    BY <1>2, <1>7 DEF FileInv, Current, Types, Records, Working
  <2>3. f \in Data => ~Has("new", f) /\ f \notin machine.layout.new /\ at["legacy"][f] = "whole"
    <3>1. f \in Data => ~Has("new", f)
      BY <1>2, <1>4, <1>7, <2>2 DEF FileInv, Clear, InHand, Placing, Working
    <3> QED  BY <1>7, <3>1, NamesAssumption DEF FileInv, Kept, Has
  <2>4. Types'
    BY <1>2, <1>7, <1>9, <2>1 DEF FileInv, Types
  <2>5. Kept'
    <3>1. ASSUME NEW e \in Directories, e \notin dirs, NEW g \in Under[e] \cap Data, Landing(e, g) = "new"
          PROVE  ~Has("new", g)'
      <4>1. g # f
        BY <1>2, <1>3, <1>7, <3>1, EntryFacts DEF FileInv, Current, Working
      <4> QED  BY <1>4, <2>1, <3>1, <4>1 DEF FileInv, Kept, Has
    <3> QED  BY <1>2, <1>4, <2>1, <2>3, <3>1, Places DEF FileInv, Kept
  <2>6. Behind'
    BY <1>2, <1>4, <1>7, <1>9, <2>1, ZenonT(60) DEF FileInv, Behind, Placing, Working, Has
  <2>7. Clear'
    BY <1>2, <1>4, <1>7, <1>9, <2>1 DEF FileInv, Clear, InHand, Placing, Working, Has
  <2>8. Current'
    BY <1>2, <1>4, <1>7, <1>9, <2>1, <2>2 DEF FileInv, Current, Working, Has
  <2> QED  BY <2>4, <2>5, <2>6, <2>7, <2>8 DEF FileInv
<1>8. CASE Has("legacy", f) /\ machine.xdev /\ mig' = [rest EXCEPT !.pc = "fill", !.leaf = f]
           /\ at' = Placed({f}, FALSE)
  <2>0. Has("legacy", f) /\ machine.xdev
    BY <1>8
  <2>1. /\ Disk(at')
        /\ \A g \in Files : /\ at'["legacy"][g] = at["legacy"][g]
                            /\ at'["new"][g] = IF g = f THEN IF f = "state" THEN {} ELSE "part"
                                                ELSE at["new"][g]
    <3>1. Disk(at') /\ \A s \in Roots, g \in Files :
                          at'[s][g] = IF g \in {f} /\ s = Landing(Entry, g)
                                      THEN IF g = "state" THEN {} ELSE "part" ELSE at[s][g]
      BY <1>8 DEF Disk, Placed
    <3> QED  BY <1>3, <1>8, <3>1, Places
  <2>2. /\ mig' \in Records /\ mig'.todo = mig.todo \ {f} /\ UNCHANGED Entry
        /\ mig'.pc = "fill" /\ mig'.leaf = f /\ UNCHANGED <<mig.i, mig.plan, mig.mode, mig.seen>>
    BY <1>3, <1>8 DEF FileInv, Types, Records, Entry, Moving
  <2>3. f \in Data => f \notin machine.layout.new
    <3>1. CASE mig.mode = "merge"
      <4>1. f \in Data => ~Has("new", f)
        BY <1>2, <1>4, <2>0, <3>1 DEF FileInv, Clear, InHand, Placing, Working
      <4> QED  BY <4>1, NamesAssumption DEF FileInv, Kept, Has
    <3>2. CASE mig.mode = "whole"
      BY <1>2, <1>3, <2>0, <3>2 DEF FileInv, Current, Working
    <3> QED  BY <3>1, <3>2 DEF FileInv, Types, Records
  <2>4. Types'
    BY <1>2, <2>1, <2>2 DEF FileInv, Types
  <2>5. Kept'
    <3>1. ASSUME NEW e \in Directories, e \notin dirs, NEW g \in Under[e] \cap Data, Landing(e, g) = "new"
          PROVE  ~Has("new", g)'
      <4>1. g # f
        BY <1>2, <1>3, <2>0, <3>1, EntryFacts DEF FileInv, Current, Working
      <4> QED  BY <1>4, <2>1, <3>1, <4>1 DEF FileInv, Kept, Has
    <3>2. \A g \in Data : g \in machine.layout.legacy => \E s \in Sides : at'[s][g] = "whole"
      <4>1. ASSUME NEW g \in Data, g \in machine.layout.legacy PROVE \E s \in Sides : at'[s][g] = "whole"
        <5>1. at["legacy"][g] \in {None, "whole"} /\ (g = f => at["legacy"][g] = "whole")
          BY <2>0 DEF FileInv, Kept, Has
        <5> QED  BY <1>4, <2>1, <4>1, <5>1, Places DEF FileInv, Kept
      <4> QED  BY <4>1
    <3> QED  BY <1>2, <1>4, <2>1, <2>3, <3>1, <3>2, Places DEF FileInv, Kept
  <2>6. Behind'
    BY <1>2, <1>4, <2>0, <2>1, <2>2 DEF FileInv, Behind, Placing, Working, Has
  <2>7. Clear'
    BY <1>2, <1>3, <1>4, <2>0, <2>1, <2>2 DEF FileInv, Clear, InHand, Placing, Working, Has, Types, Records
  <2>8. Current'
    <3>1. /\ mig'.i <= Len(Entries) /\ mig'.todo \subseteq Under[Entry']
          /\ Entry' \in Directories => Entry' \in dirs'
          /\ mig'.leaf \in Under[Entry'] \ mig'.todo
          /\ f \in Data => Has("legacy", f)'
          /\ mig'.leaf \notin machine'.layout.new \/ mig'.leaf \notin Data
      BY <1>2, <1>3, <1>4, <2>0, <2>1, <2>2, <2>3 DEF FileInv, Current, Working, Has
    <3>2. mig'.mode = "merge" =>
            \A g \in Under[Entry'] \cap Data : Has("legacy", g)' => g \in mig'.todo \/ g = mig'.leaf
      BY <1>2, <1>3, <1>4, <2>0, <2>1, <2>2 DEF FileInv, Current, Working, Has
    <3>3. mig'.mode = "whole" =>
            /\ machine'.xdev /\ Entry' \in Directories
            /\ \A g \in Under[Entry'] : Landing(Entry', g) = "new" =>
                 /\ g \notin machine'.layout.new
                 /\ ~Has("legacy", g)' => ~Has("new", g)'
                 /\ Has("legacy", g)' /\ g \notin mig'.todo /\ g # mig'.leaf => at'["new"][g] = "whole"
      BY <1>2, <1>3, <1>4, <2>0, <2>1, <2>2 DEF FileInv, Current, Working, Has
    <3> QED  BY <2>2, <3>1, <3>2, <3>3 DEF Current
  <2> QED  BY <2>4, <2>5, <2>6, <2>7, <2>8 DEF FileInv
<1> QED  BY <1>1, <1>4, <1>5, <1>6, <1>7, <1>8 DEF Refuse, Step, Discardable

\* CopyFile completes the copy of a file that stays where it was.
LEMMA CopyFiles == ASSUME FileInv, CopyFile PROVE FileInv'
<1>1. /\ mig.pc = "fill" /\ UNCHANGED <<machine, track, dirs>>
      /\ mig' = [mig EXCEPT !.pc = AfterFill] /\ at' = Placed({mig.leaf}, TRUE)
  BY DEF CopyFile, MoveKeep, MigKeep, Step
<1> DEFINE f == mig.leaf
<1>2. /\ mig.i <= Len(Entries) /\ f \in Under[Entry] \ mig.todo
      /\ f \in Data => Has("legacy", f) /\ f \notin machine.layout.new
  BY <1>1 DEF FileInv, Current, Working
<1>3. /\ Entry \in DOMAIN Under /\ Under[Entry] \subseteq Files /\ f \in Files
      /\ f \in Data => Landing(Entry, f) = "new"
  BY <1>1, <1>2, LandsThere DEF FileInv, Placing, Working
<1>4. Data \subseteq Files /\ (f \in Data => at["legacy"][f] = "whole")
  BY <1>2 DEF Data, FileInv, Kept, Has
<1>5. /\ Disk(at')
      /\ \A g \in Data : /\ at'["legacy"][g] = at["legacy"][g]
                          /\ at'["new"][g] = IF g = f THEN "whole" ELSE at["new"][g]
  <2>1. Disk(at') /\ \A s \in Roots, g \in Files :
                        at'[s][g] = IF g \in {f} /\ s = Landing(Entry, g) THEN at["legacy"][g] ELSE at[s][g]
    BY <1>1 DEF Disk, Placed
  <2>2. \A e \in DOMAIN Under, g \in Files : Landing(e, g) # "legacy"
    BY EntryFacts
  <2> QED  BY <1>3, <1>4, <2>1, <2>2, Places
<1>6. /\ mig' \in Records /\ UNCHANGED Entry
      /\ UNCHANGED <<mig.i, mig.plan, mig.todo, mig.mode, mig.leaf, mig.seen>>
      /\ mig'.pc = IF mig.mode = "merge" THEN "drop" ELSE "pick"
  BY <1>1 DEF FileInv, Types, Records, Moving, AfterFill, Entry
<1>0. mig.pc = "fill" /\ UNCHANGED <<machine, track, dirs>>
  BY <1>1
<1> HIDE DEF f
<1>7. Types'
  BY <1>0, <1>5, <1>6 DEF FileInv, Types
<1>8. Kept'
  <2>1. ASSUME NEW e \in Directories, e \notin dirs, NEW g \in Under[e] \cap Data, Landing(e, g) = "new"
        PROVE  ~Has("new", g)'
    <3>1. g # f
      BY <1>0, <1>2, <1>3, <2>1, EntryFacts DEF FileInv, Current, Working
    <3> QED  BY <1>5, <2>1, <3>1 DEF FileInv, Kept, Has
  <2> QED  BY <1>0, <1>2, <1>5, <2>1, Places DEF FileInv, Kept
<1>9. Behind'
  BY <1>0, <1>5, <1>6 DEF FileInv, Behind, Placing, Working, Has
<1>10. Clear'
  <2>1. ASSUME NEW g \in Data \ {"note"}, Has("legacy", g)', Has("new", g)' PROVE InHand(g)'
    <3>1. CASE g = f
      BY <1>0, <1>2, <1>6, <3>1 DEF InHand, Working, f, FileInv, Types, Records
    <3>2. CASE g # f
      <4>1. Has("legacy", g) /\ Has("new", g)
        BY <1>5, <2>1, <3>2 DEF Has
      <4>2. InHand(g)
        BY <1>0, <2>1, <4>1 DEF FileInv, Clear, Placing, Working
      <4> QED  BY <1>0, <1>6, <3>2, <4>2 DEF InHand, Working, f
    <3> QED  BY <3>1, <3>2
  <2> QED  BY <2>1 DEF Clear
<1>11. Current'
  <2>1. CASE mig.mode = "merge"
    BY <1>0, <1>2, <1>3, <1>5, <1>6, <2>1 DEF FileInv, Current, Working, Has, f
  <2>2. CASE mig.mode = "whole"
    <3>1. Under[Entry] \subseteq Data /\ Entry \in Directories /\ machine.xdev
      BY <1>0, <1>3, <2>2, EntryFacts DEF FileInv, Current, Working, Data
    <3>2. ASSUME NEW g \in Under[Entry], Landing(Entry, g) = "new"
          PROVE  /\ g \notin machine.layout.new
                 /\ ~Has("legacy", g)' => ~Has("new", g)'
                 /\ Has("legacy", g)' /\ g \notin mig.todo => at'["new"][g] = "whole"
      BY <1>0, <1>2, <1>3, <1>5, <2>2, <3>1, <3>2 DEF FileInv, Current, Working, Has, f
    <3> QED  BY <1>0, <1>2, <1>3, <1>6, <2>2, <3>1, <3>2 DEF FileInv, Current, Working
  <2> QED  BY <2>1, <2>2 DEF FileInv, Types, Records
<1> QED  BY <1>7, <1>8, <1>9, <1>10, <1>11 DEF FileInv

\* CopyFails takes away only what is still at the old place.
LEMMA FailFiles == ASSUME FileInv, CopyFails PROVE FileInv'
<1>1. /\ mig.pc = "fill" /\ UNCHANGED <<machine, track>> /\ mig' = NoMigration
      /\ at' = [r \in Roots |-> [f \in Files |->
                  IF f \in Cleanup /\ r = Landing(Entry, f) THEN None ELSE at[r][f]]]
      /\ dirs' = IF mig.mode = "merge" THEN dirs ELSE dirs \ {Entry}
  BY DEF CopyFails, MoveKeep, MigKeep, Step, Refuse
<1>2. /\ mig.i <= Len(Entries) /\ mig.leaf \in Under[Entry]
      /\ mig.leaf \in Data => Has("legacy", mig.leaf) /\ mig.leaf \notin machine.layout.new
      /\ mig.mode = "whole" => Entry \in Directories /\ \A f \in Under[Entry] : Landing(Entry, f) = "new" =>
            f \notin machine.layout.new /\ (~Has("legacy", f) => ~Has("new", f))
  BY <1>1 DEF FileInv, Current, Working
<1>3. Entry \in DOMAIN Under /\ Under[Entry] \subseteq Files /\ Data \subseteq Files
  BY <1>1, <1>2, LandsThere DEF FileInv, Placing, Working, Data
<1>4. /\ Disk(at')
      /\ \A f \in Files :
           /\ at'["legacy"][f] = at["legacy"][f]
           /\ at'["new"][f] = IF f \in Cleanup /\ Landing(Entry, f) = "new" THEN None ELSE at["new"][f]
  BY <1>1, <1>3, EntryFacts, Places DEF Disk
\* What is cleaned up is still at the old place, and was not at the new one.
<1>5. ASSUME NEW f \in Data, f \in Cleanup, Landing(Entry, f) = "new"
      PROVE  /\ f \notin machine.layout.new
             /\ f \in machine.layout.legacy => at["legacy"][f] = "whole"
  <2>1. f \in Under[Entry] /\ f \notin machine.layout.new /\ (~Has("legacy", f) => ~Has("new", f))
    BY <1>2, <1>5 DEF Cleanup, FileInv, Types, Records
  <2> QED  BY <2>1, Places, NamesAssumption DEF FileInv, Kept, Has
<1>6. Types'
  BY <1>1, <1>4, NoneTyped DEF FileInv, Types
<1>7. Kept'
  <2>1. ASSUME NEW e \in Directories, e \notin dirs', NEW f \in Under[e] \cap Data, Landing(e, f) = "new"
        PROVE  ~Has("new", f)'
    <3>1. CASE e \notin dirs
      BY <1>3, <1>4, <2>1, <3>1 DEF FileInv, Kept, Has
    <3>2. CASE mig.mode = "whole" /\ e = Entry
      BY <1>3, <1>4, <2>1, <3>2 DEF Cleanup, Has
    <3> QED  BY <1>1, <2>1, <3>1, <3>2 DEF FileInv, Types, Records
  <2>2. ASSUME NEW f \in Data, f \in machine.layout.legacy PROVE \E s \in Sides : at'[s][f] = "whole"
    <3>1. CASE f \in Cleanup /\ Landing(Entry, f) = "new"
      BY <1>3, <1>4, <1>5, <2>2, <3>1, Places
    <3>2. CASE ~(f \in Cleanup /\ Landing(Entry, f) = "new")
      BY <1>3, <1>4, <2>2, <3>2, Places DEF FileInv, Kept
    <3> QED  BY <3>1, <3>2
  <2> QED  BY <1>1, <1>3, <1>4, <1>5, <2>1, <2>2, ZenonT(60) DEF FileInv, Kept
<1> QED  BY <1>1, <1>6, <1>7, Stopped DEF NoMigration

\* RemoveSource removes a file of which the copy is complete.
LEMMA SourceFiles == ASSUME FileInv, RemoveSource PROVE FileInv'
<1>1. PICK f \in IF mig.mode = "merge" THEN {mig.leaf} ELSE At(Entry) :
         /\ at' = Erased(at, "legacy", {f})
         /\ mig' = IF mig.mode = "merge" THEN [mig EXCEPT !.pc = "pick"]
                   ELSE IF At(Entry) = {f} THEN Onward ELSE mig
  BY DEF RemoveSource, Step
<1>2. mig.pc = "drop" /\ UNCHANGED <<machine, dirs, track>> /\ mig.i <= Len(Entries)
  BY DEF RemoveSource, MoveKeep, MigKeep, FileInv, Current, Working
<1>3. /\ Entry \in DOMAIN Under /\ Under[Entry] \subseteq Files /\ Data \subseteq Files
      /\ \A g \in Under[Entry] : Has("legacy", g) => Landing(Entry, g) = "new"
  BY <1>2, LandsThere DEF FileInv, Placing, Working, Data
<1>4. f \in Under[Entry] /\ (f \in Data => at["new"][f] = "whole")
  <2>1. CASE mig.mode = "merge"
    BY <1>1, <1>2, <2>1 DEF FileInv, Current, Working
  <2>2. CASE mig.mode = "whole"
    <3>1. f \in Under[Entry] /\ Has("legacy", f)
      BY <1>1, <2>2 DEF At
    <3> QED  BY <1>2, <1>3, <2>2, <3>1 DEF FileInv, Current, Working
  <2> QED  BY <2>1, <2>2 DEF FileInv, Types, Records
<1>5. /\ Disk(at')
      /\ \A g \in Files : /\ at'["legacy"][g] = IF g = f THEN None ELSE at["legacy"][g]
                          /\ at'["new"][g] = at["new"][g]
  <2>1. Disk(at)
    BY DEF FileInv, Types
  <2>2. Disk(at') /\ \A s \in Roots, g \in Files :
                        at'[s][g] = IF s = "legacy" /\ g \in {f} THEN None ELSE at[s][g]
    BY <1>1, <2>1 DEF Disk, Erased
  <2> QED  BY <2>2, Places
<1>6. Kept'
  BY <1>2, <1>3, <1>4, <1>5, Places DEF FileInv, Kept, Has
<1>7. CASE mig' = [mig EXCEPT !.pc = "pick"] /\ mig.mode = "merge"
  <2>1. /\ mig' \in Records /\ mig'.pc = "pick" /\ UNCHANGED Entry
        /\ UNCHANGED <<mig.i, mig.plan, mig.todo, mig.mode, mig.leaf, mig.seen>>
    BY <1>7 DEF FileInv, Types, Records, Moving, Entry
  <2>2. f = mig.leaf /\ mig.mode = "merge"
    BY <1>1, <1>7
  <2>3. Types'
    BY <1>2, <1>5, <2>1 DEF FileInv, Types
  <2>4. Behind'
    BY <1>2, <1>3, <1>5, <2>1 DEF FileInv, Behind, Placing, Working, Has
  <2>5. Clear'
    BY <1>2, <1>3, <1>5, <2>1, <2>2 DEF FileInv, Clear, InHand, Placing, Working, Has
  <2>6. Current'
    BY <1>2, <1>3, <1>5, <2>1, <2>2 DEF FileInv, Current, Working, Has
  <2> QED  BY <1>6, <2>3, <2>4, <2>5, <2>6 DEF FileInv
<1>8. CASE mig' = mig /\ mig.mode = "whole"
  <2>1. UNCHANGED Entry /\ mig.mode = "whole" /\ mig' = mig
    BY <1>8 DEF Entry
  <2>2. Types'
    BY <1>2, <1>5, <2>1 DEF FileInv, Types
  <2>3. Behind'
    BY <1>2, <1>3, <1>5, <2>1 DEF FileInv, Behind, Placing, Working, Has
  <2>4. Clear'
    BY <1>2, <1>3, <1>5, <2>1 DEF FileInv, Clear, InHand, Placing, Working, Has
  <2>5. Current'
    BY <1>2, <1>3, <1>5, <2>1 DEF FileInv, Current, Working, Has
  <2> QED  BY <1>6, <2>2, <2>3, <2>4, <2>5 DEF FileInv
<1>9. CASE mig' = Onward /\ mig.mode = "whole" /\ At(Entry) = {f}
  <2>1. \A g \in Under[Entry] : Has("legacy", g) => g = f
    BY <1>9 DEF At
  <2>2. /\ \A g \in Under[Entry] \cap Data : ~Has("legacy", g)'
        /\ \A g \in Data : Has("legacy", g)' => Has("legacy", g)
    BY <1>3, <1>5, <2>1 DEF Has
  <2>3. /\ Behind' /\ mig'.pc = "move" /\ mig'.i \in 1 .. Len(Entries) + 1
        /\ UNCHANGED <<mig.plan, mig.todo, mig.mode, mig.leaf, mig.seen>>
    BY <1>2, <1>9, <2>2, Advance DEF FileInv, Placing, Working
  <2>4. Types'
    BY <1>2, <1>5, <1>9, OnwardTyped DEF FileInv, Types
  <2>5. Clear'
    <3>1. ASSUME NEW g \in Data \ {"note"}, Has("legacy", g)', Has("new", g)' PROVE FALSE
      <4>1. Has("legacy", g) /\ Has("new", g) /\ g # f
        BY <1>3, <1>5, <3>1 DEF Has
      <4>2. g \in Under[Entry]
        BY <1>2, <3>1, <4>1 DEF FileInv, Clear, InHand, Placing, Working
      <4> QED  BY <2>1, <4>1, <4>2
    <3> QED  BY <3>1 DEF Clear
  <2>6. Current'
    BY <2>3 DEF Current, Working
  <2> QED  BY <1>6, <2>3, <2>4, <2>5, <2>6 DEF FileInv
<1> QED  BY <1>1, <1>7, <1>8, <1>9 DEF FileInv, Types, Records

\* EntryPlaced goes on when nothing of the entry is left to place.
LEMMA PlacedFiles == ASSUME FileInv, EntryPlaced PROVE FileInv'
<1>1. /\ mig.pc = "pick" /\ mig.todo = {} /\ UNCHANGED <<machine, at, dirs, track>>
      /\ mig.i <= Len(Entries)
  BY DEF EntryPlaced, MoveKeep, MigKeep, diskVars, FileInv, Current, Working
<1>2. \A r \in Roots, f \in Files : Has(r, f)' <=> Has(r, f)
  BY <1>1 DEF Has
<1>3. Data \subseteq Files /\ Under[Entry] \subseteq Files
  BY <1>1, LandsThere DEF Data, FileInv, Placing, Working
<1>4. Kept'
  BY <1>1 DEF FileInv, Kept, Has
<1>5. CASE mig.mode = "whole" /\ mig' = [mig EXCEPT !.pc = "drop"]
  <2>1. /\ mig' \in Records /\ mig'.pc = "drop" /\ UNCHANGED Entry /\ mig.mode = "whole"
        /\ UNCHANGED <<mig.i, mig.plan, mig.todo, mig.mode, mig.leaf, mig.seen>>
    BY <1>5 DEF FileInv, Types, Records, Moving, Entry
  <2>2. Types' /\ Behind' /\ Clear'
    BY <1>1, <1>2, <1>3, <2>1, Places DEF FileInv, Types, Behind, Clear, InHand, Placing, Working, Has
  <2>3. Current'
    BY <1>1, <1>2, <1>3, <2>1, Places DEF FileInv, Current, Working
  <2> QED  BY <1>4, <2>2, <2>3 DEF FileInv
<1>6. CASE (mig.mode = "merge" \/ At(Entry) = {}) /\ mig' = Onward
  <2>1. \A f \in Under[Entry] \cap Data : ~Has("legacy", f)
    BY <1>1, <1>3, <1>6 DEF FileInv, Current, Working, At
  <2>2. /\ Behind' /\ mig'.pc = "move" /\ mig'.i \in 1 .. Len(Entries) + 1
        /\ UNCHANGED <<mig.plan, mig.todo, mig.mode, mig.leaf, mig.seen>>
    BY <1>1, <1>2, <1>3, <1>6, <2>1, Places, Advance DEF FileInv, Placing, Working
  <2>3. Types'
    BY <1>1, <1>6, OnwardTyped DEF FileInv, Types
  <2>4. Clear'
    BY <1>1, <1>2, <1>3, <2>1, Places DEF FileInv, Clear, InHand, Placing, Working
  <2>5. Current'
    BY <2>2 DEF Current, Working
  <2> QED  BY <1>4, <2>2, <2>3, <2>4, <2>5 DEF FileInv
<1> QED  BY <1>5, <1>6 DEF EntryPlaced, Step, FileInv, Types, Records

\* No step breaks the invariant of the files.
LEMMA NextFiles == ASSUME FileInv, [Next]_vars PROVE FileInv'
<1>1. ASSUME NEW c \in Commands, Command(c) \/ Kill(c) PROVE FileInv'
  BY <1>1, CommandFiles
<1>2. CASE FinalizeLegacyDir \/ KillMigration
  <2>1. UNCHANGED <<machine, at, dirs, track>> /\ mig' = NoMigration
    BY <1>2 DEF FinalizeLegacyDir, KillMigration, MoveKeep, MigKeep, diskVars, Refuse, Step
  <2> QED  BY <2>1, Refused DEF FileInv, Types
<1>3. CASE UNCHANGED vars
  <2>1. UNCHANGED <<machine, at, dirs, track, mig>>
    BY <1>3 DEF vars, diskVars, cmdVars
  <2> QED  BY <2>1, Untouched DEF FileInv, Types
<1> QED
  BY <1>1, <1>2, <1>3, PlanFiles, GuardFiles, ConflictFiles, EntryFiles, FileFiles, CopyFiles,
     FailFiles, SourceFiles, PlacedFiles
  DEF Next, RunMigrate

\* The invariant of the files holds whatever the commands do beside a
\* migration.
THEOREM FilesInvariant == Spec => []FileInv
<1> QED  BY InitFiles, NextFiles, PTL DEF Spec

\* No migration loses a file or overwrites one: the moves, copies, removals and
\* clean-ups of MoveEntry to RemoveSource, killed or refused anywhere (NothingLost).
THEOREM MigrationsLoseNothing == Spec => []NothingLost
<1>1. FileInv => NothingLost
  BY DEF FileInv, Kept, NothingLost, Data
<1> QED  BY <1>1, FilesInvariant, PTL

-----------------------------------------------------------------------------
(* The lock and the document.                                              *)

\* A command that has the lock; one that a migration may run beside.
Inside == {"load", "resolve", "truncate", "write", "unlock"}
Resting == {"off", "end", "done"}

Values == \A r \in Roots :
  /\ at[r]["state"] = None \/ at[r]["state"] \subseteq Blocs
  /\ \A f \in Files \ {"state"} : at[r][f] \in {None, "part", "whole", "other"}

CommandTypes ==
  /\ pc \in [Commands -> Points] /\ mem \in [Commands -> SUBSET Blocs]
  /\ lockSide \in [Commands -> Sides] /\ fileSide \in [Commands -> Sides]
  /\ holder \in [Sides -> Commands \cup {Nobody, Dead}]
  /\ faults \in 0 .. MaxFaults /\ {spoilt, cut, revived} \subseteq BOOLEAN /\ saved \subseteq Blocs

\* Who holds a lock took it there and has not left; the document that is to
\* move is planned; and unless something slipped past the guard, nobody is at
\* work beside the moves, and who is inside holds the lock of the document.
Locks == \A s \in Sides : holder[s] \in Commands =>
           pc[holder[s]] \in Inside /\ lockSide[holder[s]] = s
Listed == ~spoilt /\ mig.pc # "idle" /\ Has("legacy", "state") => "state" \in mig.plan
Calm == ~spoilt /\ mig.pc \in Moving => \A c \in Commands : pc[c] \in Resting
Mine == ~spoilt => \A c \in Commands : pc[c] \in Inside => holder[Resolved] = c

\* The file a command is to open, and the one it writes, is the document.
Open == ~spoilt => \A c \in Commands :
          /\ pc[c] \in {"truncate", "write"} => fileSide[c] = Resolved
          /\ pc[c] = "write" => Has(Resolved, "state")

\* The keys are in the document, in the hands of the one who writes it, or at
\* the place the migration copies it from.
Keys == ~spoilt /\ ~cut =>
  /\ ~Between => saved \subseteq Document
  /\ \A c \in Commands : pc[c] \in {"resolve", "truncate", "write"} => saved \subseteq mem[c]
  /\ mig.pc = "fill" /\ mig.leaf = "state" =>
       Has("legacy", "state") /\ saved \subseteq at["legacy"]["state"]
  /\ mig.pc = "drop" /\ mig.mode = "merge" /\ mig.leaf = "state" => Has("new", "state")
  /\ mig.pc \in Placing /\ Has("legacy", "state") /\ Has("new", "state") =>
       mig.pc \in {"fill", "drop"} /\ mig.mode = "merge" /\ mig.leaf = "state"

KeyInv == CommandTypes /\ Values /\ Locks /\ Listed /\ Calm /\ Mine /\ Open /\ Keys

\* The names that stand for no command and no file are none.
LEMMA Names == /\ Nobody \notin Commands /\ Dead \notin Commands /\ None # {} /\ Commands \subseteq Blocs
               /\ "state" \in Files /\ "lock" \in Files /\ Elder \in Blocs
BY NamesAssumption, AllFiles DEF Blocs

\* A lookup leads to one of the two places.
LEMMA ResolvedSide == Resolved \in Sides
BY Places DEF Resolved

\* What a lookup finds depends on the two documents only.
LEMMA SameDocument ==
  ASSUME UNCHANGED <<at["legacy"]["state"], at["new"]["state"]>>
  PROVE  /\ UNCHANGED <<Resolved, Document>>
         /\ Has("legacy", "state")' <=> Has("legacy", "state")
         /\ Has("new", "state")' <=> Has("new", "state")
         /\ Has(Resolved, "state")' <=> Has(Resolved, "state")
BY DEF Resolved, Document, Has

\* A write where the lookup leads is found there.
LEMMA NewDocument ==
  ASSUME NEW v, v # None, at'[Resolved]["state"] = v,
         \A s \in Sides \ {Resolved} : at'[s]["state"] = at[s]["state"]
  PROVE  /\ UNCHANGED Resolved /\ Document' = v /\ Has(Resolved, "state")'
         /\ Has("legacy", "state")' => Has("legacy", "state")
BY Places DEF Resolved, Document, Has

\* At the start the keys that count as saved are in the document.
LEMMA InitKeys == Init => KeyInv
<1> SUFFICES ASSUME Init PROVE KeyInv
  OBVIOUS
<1>1. PICK l \in Layouts, u \in BOOLEAN :
        /\ at = [r \in Roots |-> [f \in Files |->
                  IF r = "legacy" /\ f \in l.legacy
                  THEN IF f = "state" THEN {Elder} ELSE "whole"
                  ELSE IF r = "new" /\ f \in l.new
                  THEN IF f = "state" THEN {Elder} ELSE "other" ELSE None]]
        /\ saved = IF "state" \in l.legacy \cup l.new THEN {Elder} ELSE {}
        /\ holder = [s \in Sides |-> IF ~u /\ at[s]["lock"] # None THEN Dead ELSE Nobody]
  BY DEF Init
<1>2. /\ pc = [c \in Commands |-> "off"] /\ mem = [c \in Commands |-> {}] /\ faults = 0
      /\ lockSide = [c \in Commands |-> "new"] /\ fileSide = [c \in Commands |-> "new"]
      /\ mig.pc = "idle" /\ spoilt = FALSE /\ cut = FALSE /\ revived = FALSE
  BY DEF Init, NoMigration
<1>3. CommandTypes
  <2>1. holder \in [Sides -> Commands \cup {Nobody, Dead}]
    <3>1. \A s \in Sides : holder[s] \in {Nobody, Dead}
      BY <1>1
    <3>2. holder = [s \in Sides |-> holder[s]]
      BY <1>1
    <3> QED  BY <3>1, <3>2
  <2>2. saved \subseteq Blocs
    BY <1>1, Names
  <2>3. 0 \in 0 .. MaxFaults
    BY FaultsAssumption
  <2> QED  BY <1>2, <2>1, <2>2, <2>3, Places DEF CommandTypes, Points
<1>4. Values
  BY <1>1, Names DEF Values
<1>5. Locks
  BY <1>1, Names DEF Locks
<1>6. saved \subseteq Document
  <2>1. \A s \in Sides : at[s]["state"] = None \/ at[s]["state"] = {Elder}
    BY <1>1, Places, Names
  <2>2. "state" \in l.legacy => Has("legacy", "state")
    BY <1>1, Places, Names, NamesAssumption DEF Has
  <2>3. "state" \in l.new => Has("new", "state")
    BY <1>1, Places, Names, NamesAssumption DEF Has
  <2> QED  BY <1>1, <2>1, <2>2, <2>3, Places DEF Document, Resolved, Has
<1> QED
  BY <1>2, <1>3, <1>4, <1>5, <1>6
  DEF KeyInv, Listed, Calm, Mine, Open, Keys, Moving, Inside, Placing, Working

-----------------------------------------------------------------------------
(* What a command does.                                                    *)

\* The document is left alone, or set where the lookup leads.
Sets(v) == /\ at'[Resolved]["state"] = v
           /\ \A s \in Sides \ {Resolved} : at'[s]["state"] = at[s]["state"]
Leaves == \A s \in Sides : at'[s]["state"] = at[s]["state"]

\* Writing a document leaves the other one alone.
LEMMA PatchState ==
  ASSUME Disk(at), NEW s \in Sides, NEW v, at' = [at EXCEPT ![s]["state"] = v]
  PROVE  at'[s]["state"] = v /\ \A r \in Sides \ {s} : at'[r]["state"] = at[r]["state"]
BY Places, Names DEF Disk

\* Writing a lock leaves both documents alone.
LEMMA PatchLock ==
  ASSUME Disk(at), NEW s, NEW v, at' = [at EXCEPT ![s]["lock"] = v]
  PROVE  Leaves
BY Places, Names DEF Disk, Leaves

\* One command moves on, and the others stay where they are.
LEMMA OneMoves ==
  ASSUME CommandTypes, NEW c \in Commands, Command(c) \/ Kill(c)
  PROVE  /\ \E l \in Points : pc' = [pc EXCEPT ![c] = l]
         /\ pc' \in [Commands -> Points]
         /\ \A d \in Commands \ {c} : /\ pc'[d] = pc[d] /\ mem'[d] = mem[d]
                                      /\ lockSide'[d] = lockSide[d] /\ fileSide'[d] = fileSide[d]
         /\ UNCHANGED <<mig, machine, dirs, cut>>
<1>1. \E l \in Points : pc' = [pc EXCEPT ![c] = l]
  BY DEF Command, Peek, Convert, SetupCommandTracking, AcquireStateLock, GiveUp, FindStale,
         ReclaimStaleLock, LoadState, SaveState, Truncate, Write, Unlock, ReleaseCommandLock, Kill, Goto, Points
<1>2. /\ mem' = mem \/ \E m : mem' = [mem EXCEPT ![c] = m]
      /\ lockSide' = lockSide \/ \E s : lockSide' = [lockSide EXCEPT ![c] = s]
      /\ fileSide' = fileSide \/ \E s : fileSide' = [fileSide EXCEPT ![c] = s]
  <2>1. CASE UNCHANGED <<mem, lockSide, fileSide>>
    BY <2>1
  <2>2. CASE AcquireStateLock(c) \/ FindStale(c)
    BY <2>2 DEF AcquireStateLock, FindStale
  <2>3. CASE LoadState(c)
    BY <2>3 DEF LoadState
  <2>4. CASE SaveState(c)
    BY <2>4 DEF SaveState
  <2>5. CASE Write(c)
    BY <2>5 DEF Write
  <2>6. CASE ReleaseCommandLock(c) \/ Kill(c)
    BY <2>6 DEF ReleaseCommandLock, Kill, Forget
  <2> QED
    BY <2>1, <2>2, <2>3, <2>4, <2>5, <2>6
       DEF Command, Peek, Convert, SetupCommandTracking, GiveUp, ReclaimStaleLock, Truncate, Unlock
<1>3. UNCHANGED <<mig, machine, dirs, cut>>
  BY DEF Command, Peek, Convert, SetupCommandTracking, AcquireStateLock, GiveUp, FindStale,
         ReclaimStaleLock, LoadState, SaveState, Truncate, Write, Unlock, ReleaseCommandLock, Kill, CmdKeep,
         diskVars
<1>4. pc' \in [Commands -> Points]
  BY <1>1 DEF CommandTypes
<1> QED  BY <1>1, <1>2, <1>3, <1>4 DEF CommandTypes

\* The document is a set of blocs.
LEMMA DocumentTyped == ASSUME Values PROVE Document \in SUBSET Blocs
BY ResolvedSide, Places DEF Document, Has, Values

\* No step of a command leaves the types.
LEMMA CommandTyped ==
  ASSUME FileInv, KeyInv, NEW c \in Commands, Command(c) \/ Kill(c), Notice PROVE CommandTypes'
<1>1. pc' \in [Commands -> Points]
  BY OneMoves DEF KeyInv
<1>2. mem' \in [Commands -> SUBSET Blocs]
  <2>1. mem' = mem \/ \E m \in SUBSET Blocs : mem' = [mem EXCEPT ![c] = m]
    <3>1. CASE LoadState(c)
      <4>1. \A own \in {{}, {c}} : Document \cup own \in SUBSET Blocs
        BY DocumentTyped, Names DEF KeyInv
      <4> QED  BY <3>1, <4>1 DEF LoadState
    <3>2. CASE Write(c) \/ ReleaseCommandLock(c) \/ Kill(c)
      BY <3>2 DEF Write, ReleaseCommandLock, Kill, Forget
    <3>3. CASE UNCHANGED mem
      BY <3>3
    <3> QED
      BY <3>1, <3>2, <3>3
         DEF Command, Peek, Convert, SetupCommandTracking, AcquireStateLock, GiveUp, FindStale,
             ReclaimStaleLock, SaveState, Truncate, Unlock
  <2> QED  BY <2>1 DEF KeyInv, CommandTypes
<1>3. lockSide' \in [Commands -> Sides] /\ fileSide' \in [Commands -> Sides]
  <2>1. /\ lockSide' = lockSide \/ \E s \in Sides : lockSide' = [lockSide EXCEPT ![c] = s]
        /\ fileSide' = fileSide \/ \E s \in Sides : fileSide' = [fileSide EXCEPT ![c] = s]
    <3>1. CASE AcquireStateLock(c) \/ FindStale(c)
      BY <3>1, ResolvedSide DEF AcquireStateLock, FindStale
    <3>2. CASE SaveState(c)
      BY <3>2, ResolvedSide DEF SaveState
    <3>3. CASE Write(c) \/ ReleaseCommandLock(c) \/ Kill(c)
      BY <3>3, Places DEF Write, ReleaseCommandLock, Kill, Forget
    <3>4. CASE UNCHANGED <<lockSide, fileSide>>
      BY <3>4
    <3> QED
      BY <3>1, <3>2, <3>3, <3>4
         DEF Command, Peek, Convert, SetupCommandTracking, GiveUp,
             ReclaimStaleLock, LoadState, Truncate, Unlock
  <2> QED  BY <2>1 DEF KeyInv, CommandTypes
<1>4. holder' \in [Sides -> Commands \cup {Nobody, Dead}]
  <2>1. CASE UNCHANGED holder
    BY <2>1 DEF KeyInv, CommandTypes
  <2>2. CASE \E to \in {Nobody, Dead} : holder' = Dropped(c, to)
    BY <2>2 DEF KeyInv, CommandTypes, Dropped
  <2>3. CASE \E s \in Sides : \E to \in Commands \cup {Nobody} : holder' = [holder EXCEPT ![s] = to]
    BY <2>3 DEF KeyInv, CommandTypes
  <2>4. CASE AcquireStateLock(c) \/ ReclaimStaleLock(c) \/ Unlock(c) \/ Kill(c)
    <3>1. lockSide[c] \in Sides
      BY DEF KeyInv, CommandTypes
    <3> QED
      BY <2>1, <2>2, <2>3, <2>4, <3>1, ResolvedSide
         DEF AcquireStateLock, ReclaimStaleLock, Unlock, RemoveLock, Kill
  <2> QED
    BY <2>1, <2>4
       DEF Command, Peek, Convert, SetupCommandTracking, GiveUp, FindStale, LoadState, SaveState,
           Truncate, Write, ReleaseCommandLock
<1>5. faults' \in 0 .. MaxFaults
  BY FaultsAssumption
     DEF KeyInv, CommandTypes, Command, Peek, Convert, SetupCommandTracking, AcquireStateLock, GiveUp,
         FindStale, ReclaimStaleLock, LoadState, SaveState, Truncate, Write, Unlock, ReleaseCommandLock, Kill, CmdKeep
<1>6. {spoilt', revived'} \subseteq BOOLEAN /\ saved' \subseteq Blocs
  BY Names DEF Notice, KeyInv, CommandTypes
<1>7. UNCHANGED cut
  BY OneMoves DEF KeyInv
<1> QED  BY <1>1, <1>2, <1>3, <1>4, <1>5, <1>6, <1>7 DEF KeyInv, CommandTypes

\* What the commands do to the documents: nothing, or something where the
\* lookup leads, or - the one that saves - where its file is or was.
LEMMA CommandDocuments ==
  ASSUME FileInv, KeyInv, NEW c \in Commands, Command(c) \/ Kill(c)
  PROVE  \/ Leaves
         \/ Sets({}) /\ (Convert(c) \/ (LoadState(c) /\ Converting))
         \/ Truncate(c) /\ at' = [at EXCEPT ![fileSide[c]]["state"] = {}]
         \/ Write(c) /\ UNCHANGED faults /\ at' = Written(c)
<1>1. Disk(at) /\ Resolved \in Sides
  BY ResolvedSide DEF FileInv, Types
<1>2. CASE Convert(c) \/ (LoadState(c) /\ Converting)
  <2>1. at' = [at EXCEPT ![Resolved]["state"] = {}]
    BY <1>2 DEF Convert, LoadState
  <2> QED  BY <1>1, <1>2, <2>1, PatchState DEF Sets
<1>3. CASE AcquireStateLock(c) \/ ReclaimStaleLock(c) \/ Unlock(c)
  <2>1. at' = at \/ \E s, v : at' = [at EXCEPT ![s]["lock"] = v]
    BY <1>3 DEF AcquireStateLock, ReclaimStaleLock, Unlock, RemoveLock
  <2> QED  BY <1>1, <2>1, PatchLock DEF Leaves
<1>4. CASE UNCHANGED at
  BY <1>4 DEF Leaves
<1>5. CASE Write(c) \/ Truncate(c)
  BY <1>4, <1>5 DEF Write, Truncate
<1> QED
  BY <1>2, <1>3, <1>4, <1>5
     DEF Command, Peek, SetupCommandTracking, GiveUp, FindStale, LoadState, SaveState, ReleaseCommandLock, Kill,
         diskVars

\* Nor does it write anything but a document or a lock.
LEMMA CommandValues ==
  ASSUME FileInv, KeyInv, NEW c \in Commands, Command(c) \/ Kill(c) PROVE Values'
<1>1. Disk(at) /\ Resolved \in Roots /\ mem[c] \in SUBSET Blocs /\ None # mem[c]
  BY ResolvedSide, Places, NamesAssumption DEF FileInv, Types, KeyInv, CommandTypes
<1>2. \/ at' = at
      \/ \E s : \E v \in SUBSET Blocs : at' = [at EXCEPT ![s]["state"] = v]
      \/ \E s : \E v \in {None, "whole"} : at' = [at EXCEPT ![s]["lock"] = v]
  <2>1. CASE Convert(c) \/ LoadState(c) \/ Truncate(c)
    BY <2>1 DEF Convert, LoadState, Truncate
  <2>2. CASE AcquireStateLock(c)
    <3>1. CASE at[Resolved]["lock"] = None
      BY <2>2, <3>1 DEF AcquireStateLock
    <3>2. CASE at[Resolved]["lock"] # None
      <4>1. at' = [at EXCEPT ![Resolved]["lock"] = at[Resolved]["lock"]]
        BY <2>2, <3>2 DEF AcquireStateLock
      <4>2. at' = at
        BY <1>1, <4>1, Names DEF Disk
      <4> QED  BY <4>2
    <3> QED  BY <3>1, <3>2
  <2>3. CASE ReclaimStaleLock(c) \/ Unlock(c)
    BY <2>3 DEF ReclaimStaleLock, Unlock, RemoveLock
  <2>4. CASE Write(c)
    BY <1>1, <2>4 DEF Write, Written
  <2>5. CASE UNCHANGED at
    BY <2>5
  <2> QED
    BY <2>1, <2>2, <2>3, <2>4, <2>5
       DEF Command, Peek, SetupCommandTracking, GiveUp, FindStale, SaveState, ReleaseCommandLock, Kill,
           diskVars
<1>3. ASSUME NEW s, NEW v \in SUBSET Blocs, at' = [at EXCEPT ![s]["state"] = v] PROVE Values'
  <2>1. \A r \in Roots, f \in Files : at'[r][f] = IF r = s /\ f = "state" THEN v ELSE at[r][f]
    BY <1>1, <1>3 DEF Disk
  <2> QED  BY <2>1, Names DEF KeyInv, Values
<1>4. ASSUME NEW s, NEW v \in {None, "whole"}, at' = [at EXCEPT ![s]["lock"] = v] PROVE Values'
  <2>1. \A r \in Roots, f \in Files : at'[r][f] = IF r = s /\ f = "lock" THEN v ELSE at[r][f]
    BY <1>1, <1>4 DEF Disk
  <2> QED  BY <2>1, Names DEF KeyInv, Values
<1> QED  BY <1>2, <1>3, <1>4 DEF KeyInv, Values

\* No command brings a document to the old place.
LEMMA CommandListed ==
  ASSUME FileInv, KeyInv, NEW c \in Commands, Command(c) \/ Kill(c), Notice PROVE Listed'
<1>1. ~spoilt /\ Has("legacy", "state")' => Has("legacy", "state")
  <2>0. SUFFICES ASSUME ~spoilt PROVE Has("legacy", "state")' => Has("legacy", "state")
    OBVIOUS
  <2>1. CASE Leaves
    BY <2>1, Places DEF Leaves, Has
  <2>2. CASE Sets({})
    BY <2>2, NewDocument, Names DEF Sets
  <2>3. CASE at' = Written(c)
    <3>1. Disk(at) /\ fileSide[c] \in Sides
      BY DEF FileInv, Types, KeyInv, CommandTypes
    <3>2. CASE Has(fileSide[c], "state")
      BY <2>3, <3>1, <3>2, PatchState, Places DEF Written, Has
    <3>3. CASE ~Has(fileSide[c], "state") /\ at' = [at EXCEPT !["new"]["state"] = mem[c]]
      BY <3>1, <3>3, PatchState, Places DEF Has
    <3>4. CASE at' = at
      BY <3>4 DEF Has
    <3> QED  BY <2>3, <3>2, <3>3, <3>4 DEF Written
  <2>4. CASE Truncate(c) /\ at' = [at EXCEPT ![fileSide[c]]["state"] = {}]
    <3>1. fileSide[c] = Resolved /\ fileSide[c] \in Sides /\ Disk(at)
      BY <2>0, <2>4 DEF Truncate, KeyInv, Open, CommandTypes, FileInv, Types
    <3>2. Sets({})
      BY <2>4, <3>1, PatchState DEF Sets
    <3> QED  BY <3>2, NewDocument, Names DEF Sets
  <2> QED  BY <2>1, <2>2, <2>3, <2>4, CommandDocuments
<1>2. spoilt => spoilt'
  BY DEF Notice
<1> QED  BY <1>1, <1>2, OneMoves DEF KeyInv, Listed

\* Who holds a lock is inside: the lock is taken on entry and dropped on leaving.
LEMMA CommandLocks ==
  ASSUME KeyInv, NEW c \in Commands, Command(c) \/ Kill(c) PROVE Locks'
<1> SUFFICES ASSUME NEW s \in Sides, holder'[s] \in Commands
             PROVE  pc'[holder'[s]] \in Inside /\ lockSide'[holder'[s]] = s
  BY DEF Locks
<1>1. /\ holder \in [Sides -> Commands \cup {Nobody, Dead}] /\ pc \in [Commands -> Points]
      /\ lockSide \in [Commands -> Sides]
      /\ holder[s] \in Commands => pc[holder[s]] \in Inside /\ lockSide[holder[s]] = s
  BY DEF KeyInv, CommandTypes, Locks
<1>2. \A d \in Commands \ {c} : pc'[d] = pc[d] /\ lockSide'[d] = lockSide[d]
  BY OneMoves DEF KeyInv
<1>3. CASE AcquireStateLock(c)
  BY <1>1, <1>2, <1>3, ResolvedSide DEF AcquireStateLock, Goto, Inside
<1>4. CASE ReclaimStaleLock(c)
  BY <1>1, <1>2, <1>4, Names DEF ReclaimStaleLock, RemoveLock, Goto, Inside
<1>5. CASE Unlock(c)
  BY <1>1, <1>2, <1>5, Names DEF Unlock, RemoveLock, Dropped, Goto, Inside
<1>6. CASE Kill(c)
  BY <1>1, <1>2, <1>6, Names DEF Kill, Dropped, Goto, Inside
<1>7. CASE LoadState(c) \/ SaveState(c) \/ Truncate(c) \/ Write(c)
  BY <1>1, <1>2, <1>7 DEF LoadState, SaveState, Truncate, Write, Goto, Inside
<1>8. CASE Peek(c) \/ Convert(c) \/ SetupCommandTracking(c) \/ GiveUp(c) \/ FindStale(c)
           \/ ReleaseCommandLock(c)
  <2>1. pc[c] \notin Inside /\ UNCHANGED holder
    BY <1>8 DEF Peek, Convert, SetupCommandTracking, GiveUp, FindStale, ReleaseCommandLock, Inside
  <2> QED  BY <1>1, <1>2, <2>1
<1> QED  BY <1>3, <1>4, <1>5, <1>6, <1>7, <1>8 DEF Command

\* Only one command is inside, and it is the one that has the lock.
LEMMA OneInside ==
  ASSUME KeyInv, ~spoilt, NEW c \in Commands, NEW d \in Commands, pc[c] \in Inside, pc[d] \in Inside
  PROVE  c = d
BY DEF KeyInv, Mine

\* What is known of a step after which nothing is spoilt.
LEMMA NoticeFacts ==
  ASSUME KeyInv, Notice, ~spoilt', mig'.seen = {}
  PROVE  /\ ~spoilt /\ ~Tears /\ ~Clobbers /\ Calm'
         /\ saved' = saved \cup {c \in Commands : pc[c] = "write" /\ c \in mem[c] /\ pc'[c] = "unlock"}
BY DEF Notice, Overtakes, Calm, Resting, KeyInv, CommandTypes

\* Who is inside holds the lock of the document, and nobody takes it from it.
LEMMA CommandMine ==
  ASSUME FileInv, KeyInv, NEW c \in Commands, Command(c) \/ Kill(c), Notice, ~spoilt', ~spoilt,
         mig.pc \notin Moving, UNCHANGED Resolved
  PROVE  Mine'
<1> SUFFICES ASSUME NEW d \in Commands, pc'[d] \in Inside PROVE holder'[Resolved] = d
  BY DEF Mine
<1>1. /\ holder \in [Sides -> Commands \cup {Nobody, Dead}] /\ pc \in [Commands -> Points]
      /\ pc[d] \in Inside => holder[Resolved] = d
      /\ pc[c] \in Inside => holder[Resolved] = c
      /\ pc[c] \in Inside /\ pc[d] \in Inside => c = d
  BY OneInside DEF KeyInv, CommandTypes, Mine
<1>2. \A e \in Commands \ {c} : pc'[e] = pc[e]
  BY OneMoves DEF KeyInv
<1>3. \A s \in Sides : holder[s] = c => pc[c] \in Inside
  BY DEF KeyInv, Locks
<1>4. CASE AcquireStateLock(c)
  <2>1. holder[Resolved] = Nobody /\ holder'[Resolved] = c
    BY <1>1, <1>4, ResolvedSide DEF AcquireStateLock
  <2> QED  BY <1>1, <1>2, <2>1, Names
<1>5. CASE ReclaimStaleLock(c)
  <2>1. pc'[c] \notin Inside
    BY <1>1, <1>5 DEF ReclaimStaleLock, Goto, Inside
  <2> QED  BY <1>1, <1>2, <1>5, <2>1, ResolvedSide DEF ReclaimStaleLock, RemoveLock
<1>6. CASE Unlock(c)
  <2>1. pc[c] \in Inside /\ pc'[c] \notin Inside
    BY <1>1, <1>6 DEF Unlock, Goto, Inside
  <2> QED  BY <1>1, <1>2, <2>1
<1>7. CASE Kill(c)
  <2>1. pc'[c] \notin Inside
    BY <1>1, <1>7 DEF Kill, Goto, Inside
  <2> QED  BY <1>1, <1>2, <1>7, <2>1, ResolvedSide DEF Kill, Dropped
<1>8. CASE LoadState(c) \/ SaveState(c) \/ Truncate(c) \/ Write(c)
  <2>1. pc[c] \in Inside /\ UNCHANGED holder
    BY <1>8 DEF LoadState, SaveState, Truncate, Write, Inside
  <2> QED  BY <1>1, <1>2, <2>1
<1>9. CASE Peek(c) \/ Convert(c) \/ SetupCommandTracking(c) \/ GiveUp(c) \/ FindStale(c)
           \/ ReleaseCommandLock(c)
  <2>1. pc'[c] \notin Inside /\ UNCHANGED holder
    BY <1>1, <1>9
       DEF Peek, Convert, SetupCommandTracking, GiveUp, FindStale, ReleaseCommandLock, Goto, Inside
  <2> QED  BY <1>1, <1>2, <2>1
<1> QED  BY <1>4, <1>5, <1>6, <1>7, <1>8, <1>9 DEF Command

\* What Keys says when no migration is at work.
LEMMA KeysAtRest ==
  ASSUME mig.pc \notin Moving, Keys, Open, ~spoilt, ~cut
  PROVE  /\ (\A c \in Commands : pc[c] # "write") => saved \subseteq Document
         /\ \A c \in Commands : pc[c] \in {"resolve", "truncate", "write"} => saved \subseteq mem[c]
         /\ \A c \in Commands : pc[c] = "write" => fileSide[c] = Resolved /\ Has(Resolved, "state")
BY DEF Keys, Open, Between, Moving

\* And the same, to be shown of the next state.
LEMMA KeysStillAtRest ==
  ASSUME mig'.pc \notin Moving,
         (\A c \in Commands : pc'[c] # "write") => saved' \subseteq Document',
         \A c \in Commands : pc'[c] \in {"resolve", "truncate", "write"} => saved' \subseteq mem'[c]
  PROVE  Keys'
BY DEF Keys, Between, Moving, Placing, Working

\* A command writes where the lookup leads, as long as it is inside.
LEMMA CommandOpen ==
  ASSUME FileInv, KeyInv, NEW c \in Commands, Command(c) \/ Kill(c), ~spoilt
  PROVE  UNCHANGED Resolved /\ Open'
<1>1. \A d \in Commands : /\ pc[d] \in {"truncate", "write"} => fileSide[d] = Resolved
                          /\ pc[d] = "write" => Has(Resolved, "state")
  BY DEF KeyInv, Open
<1>2. \A d \in Commands \ {c} : pc'[d] = pc[d] /\ fileSide'[d] = fileSide[d]
  BY OneMoves DEF KeyInv
<1>3. /\ pc \in [Commands -> Points] /\ fileSide \in [Commands -> Sides]
      /\ mem \in [Commands -> SUBSET Blocs] /\ Disk(at)
  BY DEF KeyInv, CommandTypes, FileInv, Types
<1>4. Resolved' = Resolved /\ (Has(Resolved, "state") => Has(Resolved, "state")')
  <2>1. CASE Leaves
    BY <2>1, SameDocument, Places DEF Leaves
  <2>2. CASE Sets({})
    BY <2>2, NewDocument, Names DEF Sets
  <2>3. CASE Truncate(c) /\ at' = [at EXCEPT ![fileSide[c]]["state"] = {}]
    <3>1. Sets({})
      BY <1>1, <1>3, <2>3, ResolvedSide, PatchState DEF Truncate, Sets
    <3> QED  BY <3>1, NewDocument, Names DEF Sets
  <2>4. CASE Write(c) /\ at' = Written(c)
    <3>1. pc[c] = "write" /\ fileSide[c] = Resolved /\ Has(Resolved, "state")
      BY <1>1, <2>4 DEF Write
    <3>2. at' = [at EXCEPT ![Resolved]["state"] = mem[c]]
      BY <2>4, <3>1 DEF Written
    <3>3. Sets(mem[c]) /\ mem[c] # None
      BY <1>3, <3>2, ResolvedSide, PatchState, NamesAssumption DEF Sets
    <3> QED  BY <3>3, NewDocument DEF Sets
  <2> QED  BY <2>1, <2>2, <2>3, <2>4, CommandDocuments
<1>5. CASE SaveState(c)
  <2>1. fileSide'[c] = Resolved /\ pc'[c] = "truncate"
    BY <1>3, <1>5 DEF SaveState, Goto
  <2>2. ASSUME NEW d \in Commands
        PROVE  /\ pc'[d] \in {"truncate", "write"} => fileSide'[d] = Resolved'
               /\ pc'[d] = "write" => Has(Resolved, "state")'
    BY <1>1, <1>2, <1>4, <2>1, <2>2
  <2> QED  BY <1>4, <2>2 DEF Open
<1>6. CASE Truncate(c)
  <2>1. pc[c] = "truncate" /\ UNCHANGED fileSide /\ pc'[c] \in {"write", "unlock"}
    BY <1>3, <1>6 DEF Truncate, Goto
  <2>2. pc'[c] = "write" => Has(Resolved, "state")'
    <3>1. ASSUME pc'[c] = "write" PROVE Sets({})
      <4>1. at' = [at EXCEPT ![Resolved]["state"] = {}]
        BY <1>1, <1>3, <1>6, <2>1, <3>1 DEF Truncate, Goto
      <4> QED  BY <1>3, <4>1, ResolvedSide, PatchState DEF Sets
    <3> QED  BY <3>1, NewDocument, Names DEF Sets
  <2>3. ASSUME NEW d \in Commands
        PROVE  /\ pc'[d] \in {"truncate", "write"} => fileSide'[d] = Resolved'
               /\ pc'[d] = "write" => Has(Resolved, "state")'
    BY <1>1, <1>2, <1>4, <2>1, <2>2, <2>3
  <2> QED  BY <1>4, <2>3 DEF Open
<1>7. CASE ~SaveState(c) /\ ~Truncate(c)
  <2>1. pc'[c] \notin {"truncate", "write"}
    BY <1>3, <1>7
       DEF Command, Peek, Convert, SetupCommandTracking, AcquireStateLock, GiveUp, FindStale,
           ReclaimStaleLock, LoadState, Write, Unlock, ReleaseCommandLock, Kill, Goto
  <2>2. ASSUME NEW d \in Commands
        PROVE  /\ pc'[d] \in {"truncate", "write"} => fileSide'[d] = Resolved'
               /\ pc'[d] = "write" => Has(Resolved, "state")'
    BY <1>1, <1>2, <1>4, <2>1, <2>2
  <2> QED  BY <1>4, <2>2 DEF Open
<1> QED  BY <1>5, <1>6, <1>7

\* A save holds all that was saved: what it loaded under the lock, and its own.
LEMMA CommandKeys ==
  ASSUME FileInv, KeyInv, NEW c \in Commands, Command(c) \/ Kill(c), Notice, ~spoilt', ~spoilt,
         ~Tears, ~Clobbers, mig.pc \notin Moving, ~cut,
         saved' = saved \cup {d \in Commands : pc[d] = "write" /\ d \in mem[d] /\ pc'[d] = "unlock"}
  PROVE  Keys'
<1>1. /\ (\A d \in Commands : pc[d] # "write") => saved \subseteq Document
      /\ \A d \in Commands : pc[d] \in {"resolve", "truncate", "write"} => saved \subseteq mem[d]
      /\ \A d \in Commands : pc[d] = "write" => fileSide[d] = Resolved /\ Has(Resolved, "state")
  BY KeysAtRest DEF KeyInv
<1>2. mig'.pc \notin Moving /\ UNCHANGED cut
  BY OneMoves DEF KeyInv
<1>3. \A d \in Commands \ {c} : pc'[d] = pc[d] /\ mem'[d] = mem[d] /\ fileSide'[d] = fileSide[d]
  BY OneMoves DEF KeyInv
<1>4. /\ pc \in [Commands -> Points] /\ pc' \in [Commands -> Points] /\ mem \in [Commands -> SUBSET Blocs]
      /\ fileSide \in [Commands -> Sides]
  BY OneMoves DEF KeyInv, CommandTypes
<1>5. pc[c] # "write" \/ pc'[c] # "unlock" => saved' = saved
  BY <1>3
<1>6. \A d \in Commands \ {c} : pc[c] \in Inside => pc[d] \notin Inside
  BY OneInside
\* Who is not at the document leaves it as it is.
<1>7. ASSUME Leaves, pc[c] # "write", pc'[c] \notin {"resolve", "truncate", "write"}
      PROVE  Keys'
  <2>1. UNCHANGED Document
    BY <1>7, SameDocument, Places DEF Leaves
  <2> QED  BY <1>1, <1>2, <1>3, <1>5, <1>7, <2>1, KeysStillAtRest
<1>8. CASE Convert(c)
  <2>1. pc[c] = "convert" /\ pc'[c] = "track" /\ UNCHANGED <<mem, fileSide>>
    BY <1>4, <1>8 DEF Convert, Goto
  <2>2. ~Has(Resolved, "state")
    BY <2>1 DEF Clobbers
  <2>3. saved = {}
    BY <1>1, <2>2 DEF Document
  <2> QED  BY <1>1, <1>2, <1>3, <1>5, <2>1, <2>3, KeysStillAtRest
<1>9. CASE LoadState(c)
  <2>1. pc[c] = "load" /\ pc'[c] = "resolve" /\ UNCHANGED fileSide /\ Document \subseteq mem'[c]
    BY <1>4, <1>9 DEF LoadState, Goto
  <2>2. \A d \in Commands : pc[d] # "write" /\ pc'[d] # "write"
    BY <1>3, <1>6, <2>1 DEF Inside
  <2>3. saved \subseteq Document /\ saved' = saved
    BY <1>1, <1>5, <2>1, <2>2
  <2>4. saved \subseteq Document'
    <3>1. CASE Converting
      <4>1. Sets({})
        BY <1>9, <3>1, ResolvedSide, PatchState DEF LoadState, Sets, FileInv, Types
      <4>2. saved = {}
        BY <2>3, <3>1 DEF Converting, Document
      <4> QED  BY <4>1, <4>2, NewDocument, Names DEF Sets
    <3>2. CASE ~Converting
      BY <1>9, <2>3, <3>2 DEF LoadState, Resolved, Document, Has
    <3> QED  BY <3>1, <3>2
  <2>5. \A d \in Commands : pc'[d] \in {"resolve", "truncate"} => saved' \subseteq mem'[d]
    BY <1>1, <1>3, <2>1, <2>3
  <2> QED  BY <1>2, <2>2, <2>3, <2>4, <2>5, KeysStillAtRest
<1>10. CASE Truncate(c)
  <2>1. pc[c] = "truncate" /\ UNCHANGED mem /\ fileSide[c] = Resolved
    BY <1>10 DEF Truncate, KeyInv, Open
  <2>2. CASE pc'[c] = "write"
    BY <1>1, <1>2, <1>3, <1>5, <2>1, <2>2, KeysStillAtRest
  <2>3. CASE pc'[c] # "write"
    <3>1. pc'[c] = "unlock" /\ UNCHANGED at
      BY <1>4, <1>10, <2>3 DEF Truncate, Goto
    <3> QED  BY <1>7, <2>1, <3>1 DEF Leaves
  <2> QED  BY <2>2, <2>3
<1>14. CASE SaveState(c)
  <2>1. pc[c] = "resolve" /\ pc'[c] = "truncate" /\ UNCHANGED <<mem, at>>
    BY <1>4, <1>14 DEF SaveState, Goto, diskVars
  <2>2. UNCHANGED Document
    BY <2>1, SameDocument
  <2>3. \A d \in Commands : pc[d] # "write" /\ pc'[d] # "write"
    BY <1>3, <1>6, <2>1 DEF Inside
  <2> QED  BY <1>1, <1>2, <1>3, <1>5, <2>1, <2>2, <2>3, KeysStillAtRest
<1>11. CASE Write(c)
  <2>1. pc[c] = "write" /\ pc'[c] = "unlock"
    BY <1>4, <1>11 DEF Write, Goto
  <2>2. at' = Written(c)
    BY <1>11, <2>1 DEF Write, Tears, KeyInv, CommandTypes
  <2>3. fileSide[c] = Resolved /\ Has(Resolved, "state") /\ saved \subseteq mem[c]
    BY <1>1, <2>1
  <2>4. at' = [at EXCEPT ![Resolved]["state"] = mem[c]]
    BY <2>2, <2>3 DEF Written
  <2>5. Sets(mem[c]) /\ mem[c] # None
    BY <1>4, <2>4, ResolvedSide, PatchState, NamesAssumption DEF Sets, FileInv, Types
  <2>6. Document' = mem[c]
    BY <2>5, NewDocument DEF Sets
  <2>7. \A d \in Commands \ {c} : pc[d] \notin {"resolve", "truncate", "write"}
    BY <1>6, <2>1 DEF Inside
  <2>8. saved' \subseteq mem[c]
    BY <2>3, <2>7
  <2> QED  BY <1>2, <1>3, <2>1, <2>6, <2>7, <2>8, KeysStillAtRest
<1>12. CASE Kill(c)
  <2>1. pc'[c] = "done" /\ faults' # faults /\ Leaves
    BY <1>4, <1>12 DEF Kill, Goto, diskVars, Leaves, KeyInv, CommandTypes
  <2>2. pc[c] # "write"
    BY <2>1 DEF Tears
  <2> QED  BY <1>7, <2>1, <2>2
<1>13. CASE \/ Peek(c) \/ SetupCommandTracking(c) \/ AcquireStateLock(c) \/ GiveUp(c) \/ FindStale(c)
            \/ ReclaimStaleLock(c) \/ Unlock(c) \/ ReleaseCommandLock(c)
  <2>1. pc[c] # "write" /\ pc'[c] \notin {"resolve", "truncate", "write"}
    BY <1>4, <1>13
       DEF Peek, SetupCommandTracking, AcquireStateLock, GiveUp, FindStale, ReclaimStaleLock, Unlock,
           ReleaseCommandLock, Goto
  <2>2. Leaves
    <3>1. at' = at \/ \E s, v : at' = [at EXCEPT ![s]["lock"] = v]
      BY <1>13
         DEF Peek, SetupCommandTracking, AcquireStateLock, GiveUp, FindStale, ReclaimStaleLock, Unlock,
             ReleaseCommandLock, RemoveLock, diskVars
    <3> QED  BY <3>1, PatchLock DEF Leaves, FileInv, Types
  <2> QED  BY <1>7, <2>1, <2>2
<1> QED  BY <1>8, <1>9, <1>10, <1>11, <1>12, <1>13, <1>14 DEF Command

-----------------------------------------------------------------------------
(* What a migration does.                                                  *)

Migrates == BuildMigratePlan \/ RunMigrate \/ CopyFails \/ KillMigration

\* A migration moves no command.
LEMMA MigratesAlone == ASSUME Migrates PROVE UNCHANGED <<machine, pc, mem, lockSide, fileSide>>
BY DEF Migrates, BuildMigratePlan, RunMigrate, RefuseIfLive, RefuseConflicts, MoveEntry, MoveFile,
       CopyFile, RemoveSource, EntryPlaced, FinalizeLegacyDir, CopyFails, KillMigration, MoveKeep, MigKeep

\* Each file: as it was, gone, begun, or what it is at the old place.
Begun(f) == IF f = "state" THEN {} ELSE "part"
Fates == \A r \in Roots, f \in Files :
  \/ at'[r][f] = at[r][f] \/ at'[r][f] = None
  \/ r # "legacy" /\ (at'[r][f] = at["legacy"][f] \/ at'[r][f] = Begun(f))

\* Each file after a step of a migration is one of the four.
LEMMA FileByFile == ASSUME FileInv, Migrates PROVE Fates
<1>0. /\ Disk(at) /\ "legacy" \in Roots
      /\ mig.pc \in Working => mig.i \in 1 .. Len(Entries)
      /\ mig.pc = "move" /\ mig.i <= Len(Entries) => mig.i \in 1 .. Len(Entries)
  BY LandsThere, Places DEF FileInv, Types, Current, Working, Placing
<1>1. mig.i \in 1 .. Len(Entries) => \A f \in Files : Landing(Entry, f) # "legacy"
  BY EntryFacts DEF Entry
<1>2. CASE UNCHANGED at
  BY <1>2 DEF Fates
<1>3. ASSUME NEW F, \A s \in Roots, f \in Files :
                      at'[s][f] = IF s = "legacy" /\ f \in F THEN None ELSE at[s][f]
      PROVE  Fates
  BY <1>3 DEF Fates
<1>4. ASSUME NEW F, mig.i \in 1 .. Len(Entries), \A r \in Roots, f \in Files :
          at'[r][f] = IF f \in F /\ r = Landing(Entry, f) THEN at["legacy"][f] ELSE at[r][f]
      PROVE  Fates
  BY <1>1, <1>4 DEF Fates
<1>5. ASSUME NEW F, mig.i \in 1 .. Len(Entries), \A r \in Roots, f \in Files :
          at'[r][f] = IF f \in F /\ r = Landing(Entry, f) THEN Begun(f) ELSE at[r][f]
      PROVE  Fates
  BY <1>1, <1>5 DEF Fates
<1>6. ASSUME NEW F, mig.i \in 1 .. Len(Entries), \A r \in Roots, f \in Files :
          at'[r][f] = IF r = "legacy" /\ f \in F THEN None
                      ELSE IF f \in F /\ r = Landing(Entry, f) THEN at["legacy"][f] ELSE at[r][f]
      PROVE  Fates
  BY <1>1, <1>6 DEF Fates
<1>7. CASE CopyFails
  <2>1. at' = [r \in Roots |-> [f \in Files |->
                IF f \in Cleanup /\ r = Landing(Entry, f) THEN None ELSE at[r][f]]]
    BY <1>7 DEF CopyFails
  <2>2. \A r \in Roots, f \in Files :
          at'[r][f] = IF f \in Cleanup /\ r = Landing(Entry, f) THEN None ELSE at[r][f]
    BY <2>1
  <2> HIDE DEF Cleanup
  <2> QED  BY <2>2 DEF Fates
<1>8. ASSUME NEW F, at' = Erased(Placed(F, TRUE), "legacy", F), mig.i \in 1 .. Len(Entries) PROVE Fates
  <2>1. \A r \in Roots, f \in Files :
          at'[r][f] = IF r = "legacy" /\ f \in F THEN None
                      ELSE IF f \in F /\ r = Landing(Entry, f) THEN at["legacy"][f] ELSE at[r][f]
    <3> DEFINE D == Placed(F, TRUE)
    <3>1. /\ D = [r \in Roots |-> D[r]]
          /\ \A r \in Roots, f \in Files :
               D[r][f] = IF f \in F /\ r = Landing(Entry, f) THEN at["legacy"][f] ELSE at[r][f]
      BY DEF Placed
    <3> HIDE DEF D
    <3>2. at' = [D EXCEPT !["legacy"] = [f \in Files |-> IF f \in F THEN None ELSE D["legacy"][f]]]
      BY <1>8 DEF Erased, D
    <3>3. \A f \in Files : at'["legacy"][f] = IF f \in F THEN None ELSE D["legacy"][f]
      BY <1>0, <3>1, <3>2
    <3>4. \A r \in Roots : r # "legacy" => at'[r] = D[r]
      BY <3>1, <3>2
    <3> SUFFICES ASSUME NEW r \in Roots, NEW f \in Files
                 PROVE  at'[r][f] = IF r = "legacy" /\ f \in F THEN None
                                    ELSE IF f \in F /\ r = Landing(Entry, f) THEN at["legacy"][f] ELSE at[r][f]
      OBVIOUS
    <3>5. CASE r = "legacy"
      BY <3>1, <3>3, <3>5
    <3>6. CASE r # "legacy"
      <4>1. at'[r][f] = D[r][f]
        BY <3>4, <3>6
      <4>2. D[r][f] = IF f \in F /\ r = Landing(Entry, f) THEN at["legacy"][f] ELSE at[r][f]
        BY <3>1
      <4> QED  BY <3>6, <4>1, <4>2
    <3> QED  BY <3>5, <3>6
  <2> QED  BY <1>6, <1>8, <2>1, ZenonT(60)
<1>9. CASE MoveEntry
  <2>1. mig.pc = "move" /\ mig.i <= Len(Entries)
    BY <1>9 DEF MoveEntry
  <2>2. CASE at' = at
    BY <1>2, <2>2
  <2>3. CASE at' = Erased(Placed(At(Entry), TRUE), "legacy", At(Entry))
    <3> DEFINE F == At(Entry)
    <3>1. at' = Erased(Placed(F, TRUE), "legacy", F)
      BY <2>3
    <3> HIDE DEF F
    <3> QED  BY <1>0, <1>8, <2>1, <3>1
  <2> QED  BY <1>9, <2>2, <2>3 DEF MoveEntry, diskVars
<1>10. CASE MoveFile
  <2>1. mig.i \in 1 .. Len(Entries)
    BY <1>0, <1>10 DEF MoveFile, Working
  <2>2. PICK f : \/ at' = at
                \/ at' = Erased(at, "legacy", {f})
                \/ at' = Erased(Placed({f}, TRUE), "legacy", {f})
                \/ at' = Placed({f}, FALSE)
    BY <1>10 DEF MoveFile
  <2>3. CASE at' = Erased(at, "legacy", {f})
    <3>1. \A s \in Roots, g \in Files : at'[s][g] = IF s = "legacy" /\ g \in {f} THEN None ELSE at[s][g]
      BY <1>0, <2>3 DEF Erased, Disk
    <3> QED  BY <1>3, <3>1
  <2>4. CASE at' = Erased(Placed({f}, TRUE), "legacy", {f})
    BY <1>8, <2>1, <2>4
  <2>5. CASE at' = Placed({f}, FALSE)
    <3>1. \A r \in Roots, g \in Files :
            at'[r][g] = IF g \in {f} /\ r = Landing(Entry, g) THEN Begun(g) ELSE at[r][g]
      BY <2>5 DEF Placed, Begun
    <3> QED  BY <1>5, <2>1, <3>1
  <2> QED  BY <1>2, <2>2, <2>3, <2>4, <2>5
<1>11. CASE CopyFile
  <2>1. mig.pc \in Working /\ at' = Placed({mig.leaf}, TRUE)
    BY <1>11 DEF CopyFile, Working
  <2>2. \A r \in Roots, f \in Files :
          at'[r][f] = IF f \in {mig.leaf} /\ r = Landing(Entry, f) THEN at["legacy"][f] ELSE at[r][f]
    BY <2>1 DEF Placed
  <2> QED  BY <1>0, <1>4, <2>1, <2>2
<1>13. CASE RemoveSource
  <2>1. PICK f : at' = Erased(at, "legacy", {f})
    BY <1>13 DEF RemoveSource
  <2>2. \A s \in Roots, g \in Files : at'[s][g] = IF s = "legacy" /\ g \in {f} THEN None ELSE at[s][g]
    BY <1>0, <2>1 DEF Erased, Disk
  <2> QED  BY <1>3, <2>2
<1>12. CASE BuildMigratePlan \/ RefuseIfLive \/ RefuseConflicts \/ EntryPlaced \/ FinalizeLegacyDir
            \/ KillMigration
  BY <1>2, <1>12
     DEF BuildMigratePlan, RefuseIfLive, RefuseConflicts, EntryPlaced, FinalizeLegacyDir, KillMigration,
         diskVars
<1> QED  BY <1>7, <1>9, <1>10, <1>11, <1>12, <1>13 DEF Migrates, RunMigrate

\* So files keep their types.
LEMMA MigrateValues == ASSUME FileInv, Values, Migrates PROVE Values'
BY FileByFile, Places, Names DEF Values, Fates, Begun

\* The document that is there when the plan is made is planned.
LEMMA MigrateListed == ASSUME FileInv, Listed, Migrates, Notice PROVE Listed'
<1>0. spoilt => spoilt'
  BY DEF Notice
<1>1. Has("legacy", "state")' => Has("legacy", "state")
  BY FileByFile, Places, Names DEF Has, Fates
<1>2. CASE mig' = NoMigration
  BY <1>2 DEF Listed, NoMigration
<1>3. CASE BuildMigratePlan
  <2>1. "state" \in mig'.plan <=> Has("legacy", "state")
    BY <1>3, Tables DEF BuildMigratePlan, Step, NoMigration
  <2> QED  BY <1>1, <2>1 DEF Listed
<1>4. CASE mig.pc # "idle" /\ UNCHANGED mig.plan
  BY <1>0, <1>1, <1>4 DEF Listed
<1>5. CASE RefuseIfLive \/ RefuseConflicts \/ MoveEntry \/ CopyFile \/ EntryPlaced
  BY <1>2, <1>4, <1>5
     DEF RefuseIfLive, RefuseConflicts, MoveEntry, CopyFile, EntryPlaced, Step, Refuse, Onward, AfterFill,
         FileInv, Types, Records
<1>6. CASE MoveFile \/ RemoveSource
  BY <1>2, <1>4, <1>6 DEF MoveFile, RemoveSource, Step, Refuse, Onward, FileInv, Types, Records
<1>7. CASE FinalizeLegacyDir \/ CopyFails \/ KillMigration
  BY <1>2, <1>7 DEF FinalizeLegacyDir, CopyFails, KillMigration, Refuse, Step
<1> QED  BY <1>3, <1>5, <1>6, <1>7 DEF Migrates, RunMigrate

\* Windows refuses to move the lock of one who holds it.
LEMMA MigrateLocks ==
  ASSUME FileInv, KeyInv, Migrates
  PROVE  Locks' /\ holder' \in [Sides -> Commands \cup {Nobody, Dead}]
<1>1. UNCHANGED <<pc, lockSide>> /\ holder \in [Sides -> Commands \cup {Nobody, Dead}]
  BY MigratesAlone DEF KeyInv, CommandTypes
<1>2. CASE UNCHANGED holder
  BY <1>1, <1>2 DEF KeyInv, Locks
<1>3. ASSUME NEW f, ~InUse(f), NEW to, LockMoves({f}, to)
      PROVE  Locks' /\ holder' \in [Sides -> Commands \cup {Nobody, Dead}]
  <2>1. CASE machine.unix \/ f # "lock"
    BY <1>2, <1>3, <2>1 DEF LockMoves
  <2>2. CASE ~machine.unix /\ f = "lock"
    <3>1. holder["legacy"] \notin Commands
      BY <1>3, <2>2 DEF InUse
    <3>2. holder' = [s \in Sides |-> IF s = "legacy" THEN Nobody
                                     ELSE IF to = s THEN holder["legacy"] ELSE holder[s]]
      BY <1>3, <2>2 DEF LockMoves
    <3>3. \A s \in Sides : /\ holder'[s] \in Commands \cup {Nobody, Dead}
                           /\ holder'[s] \in Commands => holder'[s] = holder[s]
      BY <1>1, <3>1, <3>2, Names, Places
    <3>4. holder' \in [Sides -> Commands \cup {Nobody, Dead}]
      BY <3>2, <3>3
    <3> QED  BY <1>1, <3>3, <3>4 DEF KeyInv, Locks
  <2> QED  BY <2>1, <2>2
<1>4. CASE MoveFile
  <2>1. UNCHANGED holder \/ \E f : ~InUse(f) /\ \E to : LockMoves({f}, to)
    BY <1>4 DEF MoveFile
  <2> QED  BY <1>2, <1>3, <2>1
<1> QED
  BY <1>2, <1>4
     DEF Migrates, RunMigrate, BuildMigratePlan, RefuseIfLive, RefuseConflicts, MoveEntry, CopyFile,
         RemoveSource, EntryPlaced, FinalizeLegacyDir, CopyFails, KillMigration

\* Only a failed copy and a kill count as faults, and only a kill cuts.
LEMMA MigrateFaults ==
  ASSUME Migrates
  PROVE  /\ faults' = faults \/ (faults < MaxFaults /\ faults' = faults + 1)
         /\ (UNCHANGED cut \/ cut' = (cut \/ mig.pc \in {"fill", "drop"} \/ mig.mode = "whole"))
<1>1. CASE BuildMigratePlan \/ RunMigrate
  <2>1. UNCHANGED <<faults, cut>>
    BY <1>1
       DEF BuildMigratePlan, RunMigrate, RefuseIfLive, RefuseConflicts, MoveEntry, MoveFile, CopyFile,
           RemoveSource, EntryPlaced, FinalizeLegacyDir
  <2> QED  BY <2>1
<1>2. CASE CopyFails
  <2>1. faults < MaxFaults /\ faults' = faults + 1 /\ UNCHANGED cut
    BY <1>2 DEF CopyFails
  <2> QED  BY <2>1
<1>3. CASE KillMigration
  BY <1>3 DEF KillMigration
<1> QED  BY <1>1, <1>2, <1>3 DEF Migrates

\* No step of a migration leaves the types.
LEMMA MigrateTyped == ASSUME FileInv, KeyInv, Migrates, Notice PROVE CommandTypes'
<1>1. holder' \in [Sides -> Commands \cup {Nobody, Dead}]
  BY MigrateLocks
<1>2. faults' \in 0 .. MaxFaults
  BY FaultsAssumption, MigrateFaults DEF KeyInv, CommandTypes
<1>3. cut' \in BOOLEAN
  BY MigrateFaults DEF KeyInv, CommandTypes
<1>4. {spoilt', revived'} \subseteq BOOLEAN /\ saved' \subseteq Blocs
  BY Names DEF Notice, KeyInv, CommandTypes
<1> QED  BY <1>1, <1>2, <1>3, <1>4, MigratesAlone DEF KeyInv, CommandTypes

\* While a migration is at work nobody is at the document.
LEMMA Undisturbed ==
  ASSUME KeyInv, ~spoilt, mig.pc \in Moving
  PROVE  \A c \in Commands : pc[c] \notin Inside
BY DEF KeyInv, Calm, Inside, Resting

\* While nobody is inside there is nothing to show; else a migration leaves files and
\* locks.
LEMMA MigrateMine ==
  ASSUME FileInv, KeyInv, Migrates, ~spoilt PROVE Mine' /\ Open'
<1>1. UNCHANGED <<pc, fileSide>>
  BY MigratesAlone
<1>2. CASE mig.pc \in Moving
  BY <1>1, <1>2, Undisturbed DEF Mine, Open, Inside
<1>3. CASE mig.pc \notin Moving
  <2>1. UNCHANGED <<at, holder>>
    BY <1>3
       DEF Migrates, BuildMigratePlan, RunMigrate, RefuseIfLive, RefuseConflicts, MoveEntry, MoveFile,
           CopyFile, RemoveSource, EntryPlaced, FinalizeLegacyDir, CopyFails, KillMigration, Moving,
           MoveKeep, diskVars
  <2> QED  BY <1>1, <2>1, SameDocument DEF KeyInv, Mine, Open
<1> QED  BY <1>2, <1>3

\* Where the state file is concerned: what Keys says beside the moves.
MovingKeys ==
  /\ ~(mig.pc = "fill" /\ mig.leaf = "state") => saved \subseteq Document
  /\ mig.pc = "fill" /\ mig.leaf = "state" =>
       Has("legacy", "state") /\ saved \subseteq at["legacy"]["state"]
  /\ mig.pc = "drop" /\ mig.mode = "merge" /\ mig.leaf = "state" => Has("new", "state")
  /\ mig.pc \in Placing /\ Has("legacy", "state") /\ Has("new", "state") =>
       mig.pc \in {"fill", "drop"} /\ mig.mode = "merge" /\ mig.leaf = "state"

\* From the keys, beside the moves.
LEMMA KeysBeside ==
  ASSUME KeyInv, ~spoilt, ~cut, mig.pc \in Moving PROVE MovingKeys
BY Undisturbed DEF KeyInv, Keys, MovingKeys, Between, Inside

\* And back to them.
LEMMA KeysStillBeside ==
  ASSUME \A c \in Commands : pc'[c] \notin Inside, MovingKeys' PROVE Keys'
BY DEF Keys, MovingKeys, Between, Inside

\* A step that leaves both documents alone.
LEMMA StateStays ==
  ASSUME MovingKeys, Leaves, saved' = saved, ~(mig.pc = "fill" /\ mig.leaf = "state"),
         mig'.pc \in {"fill", "drop"} /\ mig'.mode = "merge" => mig'.leaf # "state",
         mig'.pc \in Placing => mig.pc \in Placing \/ ~(Has("legacy", "state") /\ Has("new", "state")),
         mig'.pc = "fill" => mig'.leaf # "state",
         mig'.pc \in Placing /\ mig.pc \in {"fill", "drop"} /\ mig.mode = "merge" => mig.leaf # "state"
  PROVE  MovingKeys'
<1>1. /\ UNCHANGED Document
      /\ Has("legacy", "state")' <=> Has("legacy", "state")
      /\ Has("new", "state")' <=> Has("new", "state")
  BY SameDocument, Places DEF Leaves
<1> QED  BY <1>1 DEF MovingKeys

\* The state file is an entry of its own, which is merged.
LEMMA StateIsMerged ==
  ASSUME FileInv, mig.pc \in Working
  PROVE  /\ Entry \in DOMAIN Under /\ Landing("state", "state") = "new" /\ Disk(at)
         /\ \A f \in Files : Landing(Entry, f) # "legacy"
         /\ "state" \in Under[Entry] => Entry = "state" /\ mig.mode = "merge"
         /\ mig.mode \in {"merge", "whole"}
         /\ mig.todo \subseteq Under[Entry]
         /\ mig.pc = "fill" => mig.leaf \in Under[Entry]
         /\ mig.pc = "drop" /\ mig.mode = "merge" => mig.leaf \in Under[Entry]
<1>1. Entry \in DOMAIN Under
  BY LandsThere DEF FileInv, Current, Placing, Working
<1>2. mig.mode \in {"merge", "whole"} /\ Disk(at)
  BY DEF FileInv, Types, Records
<1>3. mig.mode = "whole" => Entry \in Directories
  BY DEF FileInv, Current
<1>4. /\ Entry \in Directories => "state" \notin Under[Entry]
      /\ "state" \in Under[Entry] => Entry = "state"
      /\ \A f \in Files : Landing(Entry, f) # "legacy"
  BY <1>1, EntryFacts
<1>5. mig.todo \subseteq Under[Entry]
  BY DEF FileInv, Current
<1>6. (mig.pc = "fill" \/ (mig.pc = "drop" /\ mig.mode = "merge")) => mig.leaf \in Under[Entry]
  BY <1>2 DEF FileInv, Current, Working
<1> QED  BY <1>1, <1>2, <1>3, <1>4, <1>5, <1>6 DEF Landing

\* A file that is moved: the document is found where it was or where it goes.
LEMMA MoveFileKeys ==
  ASSUME FileInv, MovingKeys, MoveFile, saved' = saved PROVE MovingKeys'
<1>1. PICK f \in mig.todo :
        \/ mig' = NoMigration /\ UNCHANGED at
        \/ /\ mig' = [mig EXCEPT !.todo = @ \ {f}]
           /\ at' = Erased(at, "legacy", {f}) /\ f = "lock"
        \/ /\ mig' = [mig EXCEPT !.todo = @ \ {f}] /\ Has("legacy", f)
           /\ at' = Erased(Placed({f}, TRUE), "legacy", {f})
        \/ /\ mig' = [mig EXCEPT !.todo = @ \ {f}, !.pc = "fill", !.leaf = f] /\ Has("legacy", f)
           /\ at' = Placed({f}, FALSE)
  BY DEF MoveFile, Step, Refuse, Discardable
<1>2. mig.pc = "pick" /\ saved \subseteq Document /\ ~(Has("legacy", "state") /\ Has("new", "state"))
  BY DEF MoveFile, MovingKeys, Placing, Working
<1>3. /\ Disk(at) /\ f \in Under[Entry] /\ \A g \in Files : Landing(Entry, g) # "legacy"
      /\ f = "state" => Landing(Entry, f) = "new" /\ mig.mode = "merge"
  BY <1>2, StateIsMerged DEF Working
<1>4. mig \in Records
  BY DEF FileInv, Types
<1>5. CASE mig' = NoMigration /\ UNCHANGED at
  BY <1>2, <1>5, StateStays DEF NoMigration, Placing, Working, Leaves
<1>6. CASE mig' = [mig EXCEPT !.todo = @ \ {f}] /\ at' = Erased(at, "legacy", {f}) /\ f = "lock"
  <2>1. mig'.pc = "pick"
    BY <1>2, <1>4, <1>6 DEF Records
  <2>2. Leaves
    BY <1>3, <1>6, Places, Names DEF Leaves, Erased, Disk
  <2> QED  BY <1>2, <2>1, <2>2, StateStays DEF Placing, Working
<1>7. CASE /\ mig' = [mig EXCEPT !.todo = @ \ {f}] /\ Has("legacy", f)
           /\ at' = Erased(Placed({f}, TRUE), "legacy", {f})
  <2>1. mig'.pc = "pick"
    BY <1>2, <1>4, <1>7 DEF Records
  <2>2. \A r \in Roots, g \in Files :
          at'[r][g] = IF r = "legacy" /\ g \in {f} THEN None
                      ELSE IF g \in {f} /\ r = Landing(Entry, g) THEN at["legacy"][g] ELSE at[r][g]
    BY <1>3, <1>7, Places DEF Erased, Placed
  <2>3. CASE f # "state"
    <3>1. Leaves
      BY <2>2, <2>3, Places, Names DEF Leaves
    <3> QED  BY <1>2, <2>1, <3>1, StateStays DEF Placing, Working
  <2>4. CASE f = "state"
    <3>1. at'["legacy"]["state"] = None /\ at'["new"]["state"] = at["legacy"]["state"]
      BY <1>3, <2>2, <2>4, Places, Names
    <3>2. Document' = Document /\ ~Has("legacy", "state")'
      BY <1>2, <1>7, <2>4, <3>1 DEF Document, Resolved, Has
    <3> QED  BY <1>2, <2>1, <3>2 DEF MovingKeys
  <2> QED  BY <2>3, <2>4
<1>8. CASE /\ mig' = [mig EXCEPT !.todo = @ \ {f}, !.pc = "fill", !.leaf = f] /\ Has("legacy", f)
           /\ at' = Placed({f}, FALSE)
  <2>1. mig'.pc = "fill" /\ mig'.leaf = f /\ mig'.mode = mig.mode
    BY <1>4, <1>8 DEF Records
  <2>2. \A r \in Roots, g \in Files :
          at'[r][g] = IF g \in {f} /\ r = Landing(Entry, g) THEN Begun(g) ELSE at[r][g]
    BY <1>8 DEF Placed, Begun
  <2>3. CASE f # "state"
    <3>1. Leaves
      BY <2>2, <2>3, Places, Names DEF Leaves
    <3> QED  BY <1>2, <2>1, <2>3, <3>1, StateStays DEF Placing, Working
  <2>4. CASE f = "state"
    <3>1. at'["legacy"]["state"] = at["legacy"]["state"]
      BY <1>3, <2>2, <2>4, Places, Names
    <3>2. saved \subseteq at["legacy"]["state"] /\ Has("legacy", "state")'
      BY <1>2, <1>8, <2>4, <3>1 DEF Document, Resolved, Has
    <3> QED  BY <1>3, <2>1, <2>4, <3>1, <3>2 DEF MovingKeys
  <2> QED  BY <2>3, <2>4
<1> QED  BY <1>1, <1>5, <1>6, <1>7, <1>8

\* A copy that is complete is the document from then on.
LEMMA CopyFileKeys ==
  ASSUME FileInv, MovingKeys, CopyFile, saved' = saved PROVE MovingKeys'
<1>1. mig.pc = "fill" /\ at' = Placed({mig.leaf}, TRUE)
  BY DEF CopyFile
<1>2. /\ mig'.pc = (IF mig.mode = "merge" THEN "drop" ELSE "pick")
      /\ mig'.mode = mig.mode /\ mig'.leaf = mig.leaf
  BY DEF CopyFile, Step, AfterFill, FileInv, Types, Records
<1>3. /\ \A g \in Files : Landing(Entry, g) # "legacy"
      /\ mig.leaf = "state" => Landing(Entry, "state") = "new" /\ mig.mode = "merge"
  BY <1>1, StateIsMerged DEF Working
<1>4. \A r \in Roots, g \in Files :
        at'[r][g] = IF g \in {mig.leaf} /\ r = Landing(Entry, g) THEN at["legacy"][g] ELSE at[r][g]
  BY <1>1 DEF Placed
<1>5. CASE mig.leaf # "state"
  <2>1. Leaves
    BY <1>4, <1>5, Places, Names DEF Leaves
  <2> QED  BY <1>1, <1>2, <1>5, <2>1, StateStays DEF Placing, Working
<1>6. CASE mig.leaf = "state"
  <2>1. at'["legacy"]["state"] = at["legacy"]["state"] /\ at'["new"]["state"] = at["legacy"]["state"]
    BY <1>3, <1>4, <1>6, Places, Names
  <2>2. Has("legacy", "state") /\ saved \subseteq at["legacy"]["state"]
    BY <1>1, <1>6 DEF MovingKeys
  <2>3. Document' = at["legacy"]["state"] /\ Has("new", "state")'
    BY <2>1, <2>2 DEF Document, Resolved, Has
  <2> QED  BY <1>2, <1>3, <1>6, <2>2, <2>3 DEF MovingKeys
<1> QED  BY <1>5, <1>6

\* A copy that fails leaves the document it was made from.
LEMMA CopyFailsKeys ==
  ASSUME FileInv, MovingKeys, CopyFails, saved' = saved PROVE MovingKeys'
<1>1. /\ mig.pc = "fill" /\ mig' = NoMigration
      /\ at' = [r \in Roots |-> [f \in Files |->
                  IF f \in Cleanup /\ r = Landing(Entry, f) THEN None ELSE at[r][f]]]
  BY DEF CopyFails, Refuse, Step
<1>2. /\ \A g \in Files : Landing(Entry, g) # "legacy"
      /\ "state" \in Under[Entry] => Landing(Entry, "state") = "new" /\ mig.mode = "merge"
      /\ mig.leaf \in Under[Entry]
  BY <1>1, StateIsMerged DEF Working
<1>3. \A r \in Roots, g \in Files :
        at'[r][g] = IF g \in Cleanup /\ r = Landing(Entry, g) THEN None ELSE at[r][g]
  BY <1>1
<1>4. "state" \in Cleanup <=> mig.leaf = "state"
  BY <1>2 DEF Cleanup
<1> HIDE DEF Cleanup
<1>5. CASE mig.leaf # "state"
  <2>1. Leaves
    BY <1>3, <1>4, <1>5, Places, Names DEF Leaves
  <2> QED  BY <1>1, <1>5, <2>1, StateStays DEF NoMigration, Placing, Working
<1>6. CASE mig.leaf = "state"
  <2>1. at'["legacy"]["state"] = at["legacy"]["state"] /\ at'["new"]["state"] = None
    BY <1>2, <1>3, <1>4, <1>6, Places, Names
  <2>2. Has("legacy", "state") /\ saved \subseteq at["legacy"]["state"]
    BY <1>1, <1>6 DEF MovingKeys
  <2>3. Document' = at["legacy"]["state"]
    BY <2>1, <2>2 DEF Document, Resolved, Has
  <2> QED  BY <1>1, <2>2, <2>3 DEF MovingKeys, NoMigration, Placing, Working
<1> QED  BY <1>5, <1>6

\* The old document goes when the new one is there.
LEMMA RemoveSourceKeys ==
  ASSUME FileInv, MovingKeys, RemoveSource, saved' = saved PROVE MovingKeys'
<1>1. PICK f \in IF mig.mode = "merge" THEN {mig.leaf} ELSE At(Entry) :
         /\ at' = Erased(at, "legacy", {f})
         /\ mig' = IF mig.mode = "merge" THEN [mig EXCEPT !.pc = "pick"]
                   ELSE IF At(Entry) = {f} THEN Onward ELSE mig
  BY DEF RemoveSource, Step
<1>2. mig.pc = "drop"
  BY DEF RemoveSource
<1>3. /\ Disk(at) /\ (mig.mode = "merge" \/ mig.mode = "whole")
      /\ "state" \in Under[Entry] => mig.mode = "merge"
  BY <1>2, StateIsMerged DEF Working
<1>4. f = "state" => mig.mode = "merge" /\ mig.leaf = "state"
  BY <1>1, <1>3 DEF At
<1>5. /\ mig.mode = "merge" => mig'.pc = "pick"
      /\ mig.mode = "whole" => mig'.pc = "move" \/ (mig'.pc = "drop" /\ mig'.mode = "whole")
  BY <1>1, <1>2 DEF FileInv, Types, Records, Onward
<1>6. at'["new"]["state"] = at["new"]["state"]
      /\ at'["legacy"]["state"] = (IF f = "state" THEN None ELSE at["legacy"]["state"])
  BY <1>1, <1>3, Places, Names DEF Erased, Disk
<1>7. CASE f # "state"
  <2>1. Leaves
    BY <1>6, <1>7, Places DEF Leaves
  <2>2. mig.mode = "merge" => mig.leaf # "state"
    BY <1>1, <1>7
  <2> QED  BY <1>2, <1>3, <1>5, <2>1, <2>2, StateStays DEF Placing, Working
<1>8. CASE f = "state"
  <2>1. Has("new", "state") /\ saved \subseteq Document /\ mig'.pc = "pick"
    BY <1>2, <1>4, <1>5, <1>8 DEF MovingKeys
  <2>2. Document' = Document /\ ~Has("legacy", "state")'
    BY <1>6, <1>8, <2>1 DEF Document, Resolved, Has
  <2> QED  BY <2>1, <2>2 DEF MovingKeys
<1> QED  BY <1>7, <1>8

\* The search for conflicts refuses where both documents are there.
LEMMA ConflictKeys ==
  ASSUME FileInv, Listed, ~spoilt, MovingKeys, RefuseConflicts, saved' = saved PROVE MovingKeys'
<1>1. UNCHANGED at /\ mig.pc = "check"
  BY DEF RefuseConflicts, diskVars
<1>2. CASE mig' = NoMigration
  BY <1>1, <1>2, StateStays DEF NoMigration, Placing, Working, Leaves
<1>3. CASE mig' = Onward /\ Conflicts = {}
  <2>1. mig'.pc = "move"
    BY <1>3 DEF Onward, FileInv, Types, Records
  <2>2. ASSUME Has("legacy", "state"), Has("new", "state") PROVE "state" \in Conflicts
    <3>1. "state" \in mig.plan /\ "state" \in Under["state"] /\ "state" \in Files
      BY <1>1, <2>2, Tables, Names DEF Listed
    <3>2. Has(Landing("state", "state"), "state")
      BY <2>2 DEF Landing
    <3> QED  BY <2>2, <3>1, <3>2 DEF Conflicts, Discardable
  <2>3. ~(Has("legacy", "state") /\ Has("new", "state"))
    BY <1>3, <2>2
  <2> QED  BY <1>1, <2>1, <2>3, StateStays DEF Leaves
<1> QED  BY <1>2, <1>3 DEF RefuseConflicts, Refuse, Step

\* A directory that is moved as a whole holds no document.
LEMMA MoveEntryKeys ==
  ASSUME FileInv, MovingKeys, MoveEntry, saved' = saved PROVE MovingKeys'
<1>1. mig.pc = "move" /\ mig.i <= Len(Entries)
  BY DEF MoveEntry
<1>2. mig'.pc \in {"pick", "move", "idle"}
  <2> DEFINE Taken(m) == [mig EXCEPT !.pc = "pick", !.mode = m, !.todo = At(Entry)]
  <2>1. mig \in Records
    BY DEF FileInv, Types
  <2>2. \/ mig' = NoMigration \/ mig' = Onward
        \/ mig' = Taken("merge") \/ mig' = Taken("whole")
    BY DEF MoveEntry, Refuse, Step
  <2>3. /\ mig' = Taken("merge") => mig'.pc = "pick"
        /\ mig' = Taken("whole") => mig'.pc = "pick"
    BY <2>1 DEF Records
  <2>4. mig' = Onward => mig'.pc = "move"
    BY <2>1 DEF Records, Onward
  <2> QED  BY <2>2, <2>3, <2>4 DEF NoMigration
<1>4. CASE UNCHANGED at
  BY <1>1, <1>2, <1>4, StateStays DEF Leaves, Placing, Working
<1>3. CASE Entry \in Directories /\ at' = Erased(Placed(At(Entry), TRUE), "legacy", At(Entry))
  <2> DEFINE F == At(Entry)
  <2>1. "state" \notin F
    BY <1>3, EntryFacts DEF At
  <2>2. at' = Erased(Placed(F, TRUE), "legacy", F)
    BY <1>3
  <2> HIDE DEF F
  <2>3. Leaves
    BY <2>1, <2>2, Places, Names DEF Leaves, Erased, Placed
  <2> QED  BY <1>1, <1>2, <2>3, StateStays DEF Placing, Working
<1> QED  BY <1>3, <1>4 DEF MoveEntry, diskVars

\* Going on to the next entry leaves both documents alone.
LEMMA EntryPlacedKeys ==
  ASSUME FileInv, MovingKeys, EntryPlaced, saved' = saved PROVE MovingKeys'
<1>1. mig.pc = "pick" /\ UNCHANGED at
  BY DEF EntryPlaced, diskVars
<1>2. mig'.pc = "move" \/ (mig'.pc = "drop" /\ mig'.mode = "whole")
  BY DEF EntryPlaced, Step, Onward, FileInv, Types, Records
<1> QED  BY <1>1, <1>2, StateStays DEF Leaves, Placing, Working

\* No step of a migration loses keys that were saved.
LEMMA MigrateKeys ==
  ASSUME FileInv, KeyInv, Migrates, ~spoilt, ~cut', saved' = saved PROVE Keys'
<1>1. ~cut /\ UNCHANGED <<pc, mem, fileSide>>
  <2>1. CASE UNCHANGED cut
    BY <2>1, MigratesAlone
  <2>2. CASE cut' = (cut \/ mig.pc \in {"fill", "drop"} \/ mig.mode = "whole")
    BY <2>2, MigratesAlone
  <2> QED  BY <2>1, <2>2, MigrateFaults
<1>2. CASE mig.pc \notin Moving
  <2>1. UNCHANGED at /\ (BuildMigratePlan \/ RefuseIfLive \/ KillMigration)
    BY <1>2
       DEF Migrates, BuildMigratePlan, RunMigrate, RefuseIfLive, RefuseConflicts, MoveEntry, MoveFile,
           CopyFile, RemoveSource, EntryPlaced, FinalizeLegacyDir, CopyFails, KillMigration, Moving,
           MoveKeep, diskVars
  <2>2. mig'.pc \notin Placing
    <3>1. CASE BuildMigratePlan
      <4> DEFINE P == {e \in DOMAIN Under : \E f \in Under[e] : Has("legacy", f)}
      <4>1. mig' = [NoMigration EXCEPT !.pc = "guard", !.plan = P]
        BY <3>1 DEF BuildMigratePlan, Step
      <4> HIDE DEF P
      <4> QED  BY <4>1 DEF NoMigration, Placing, Working
    <3>2. CASE RefuseIfLive
      <4>1. PICK S : mig' = NoMigration \/ mig' = [mig EXCEPT !.pc = "check", !.seen = S]
        BY <3>2 DEF RefuseIfLive, Refuse, Step
      <4>2. mig = [pc |-> mig.pc, i |-> mig.i, plan |-> mig.plan, todo |-> mig.todo,
                   mode |-> mig.mode, leaf |-> mig.leaf, seen |-> mig.seen]
        BY DEF FileInv, Types, Records
      <4>3. mig' = [mig EXCEPT !.pc = "check", !.seen = S] => mig'.pc = "check"
        BY <4>2
      <4>4. NoMigration.pc = "idle"
        BY DEF NoMigration
      <4> QED  BY <4>1, <4>3, <4>4 DEF Placing, Working
    <3>3. CASE KillMigration
      BY <3>3 DEF KillMigration, Refuse, Step, NoMigration, Placing, Working
    <3> QED  BY <2>1, <3>1, <3>2, <3>3
  <2>3. UNCHANGED Document
    BY <2>1, SameDocument
  <2>4. /\ (\A c \in Commands : pc[c] # "write") => saved \subseteq Document
        /\ \A c \in Commands : pc[c] \in {"resolve", "truncate", "write"} => saved \subseteq mem[c]
    BY <1>1, <1>2, KeysAtRest DEF KeyInv
  <2>5. mig'.pc # "fill" /\ mig'.pc # "drop"
    BY <2>2 DEF Placing, Working
  <2> QED  BY <1>1, <2>2, <2>3, <2>4, <2>5 DEF Keys, Between
<1>3. CASE mig.pc \in Moving
  <2>1. MovingKeys /\ Listed
    BY <1>1, <1>3, KeysBeside DEF KeyInv
  <2>2. ASSUME FinalizeLegacyDir \/ KillMigration PROVE MovingKeys'
    <3>1. mig' = NoMigration /\ UNCHANGED at
      BY <2>2 DEF FinalizeLegacyDir, KillMigration, Refuse, Step, diskVars
    <3>2. mig.pc # "fill" /\ (mig.pc = "drop" => ~KillMigration)
      BY <1>1, <2>2 DEF FinalizeLegacyDir, KillMigration
    <3>3. mig.pc # "drop"
      BY <2>2, <3>2 DEF FinalizeLegacyDir
    <3> QED  BY <2>1, <3>1, <3>2, <3>3, StateStays DEF NoMigration, Placing, Working, Leaves
  <2>3. ~BuildMigratePlan /\ ~RefuseIfLive
    BY <1>3 DEF BuildMigratePlan, RefuseIfLive, Moving
  <2>4. MovingKeys'
    BY <2>1, <2>2, <2>3, ConflictKeys, MoveEntryKeys, MoveFileKeys, CopyFileKeys, CopyFailsKeys,
       RemoveSourceKeys, EntryPlacedKeys
    DEF Migrates, RunMigrate
  <2>5. \A c \in Commands : pc'[c] \notin Inside
    BY <1>1, <1>3, Undisturbed
  <2> QED  BY <2>4, <2>5, KeysStillBeside
<1> QED  BY <1>2, <1>3

-----------------------------------------------------------------------------
(* The invariant of the keys.                                              *)

Inv == FileInv /\ KeyInv

\* After an accident nothing is claimed.
LEMMA StillSpoilt == ASSUME spoilt' PROVE Calm' /\ Mine' /\ Open' /\ Keys'
BY DEF Calm, Mine, Open, Keys

\* Beside the moves a command can only leave.
LEMMA Departing ==
  ASSUME Inv, NEW c \in Commands, Command(c) \/ Kill(c), ~spoilt, Calm', ~spoilt', mig.pc \in Moving
  PROVE  /\ Leaves /\ UNCHANGED mig /\ \A d \in Commands : pc[d] \notin Inside /\ pc'[d] \notin Inside
<1>1. /\ \A d \in Commands : pc[d] \notin Inside
      /\ pc[c] \in Resting /\ pc \in [Commands -> Points]
  BY Undisturbed DEF Inv, KeyInv, Calm, CommandTypes
<1>2. UNCHANGED mig
  BY OneMoves DEF Inv, KeyInv
<1>3. \A d \in Commands : pc'[d] \in Resting
  BY <1>2 DEF Calm
<1>4. ~Convert(c) /\ ~LoadState(c) /\ ~Truncate(c) /\ ~Write(c)
  BY <1>1 DEF Convert, LoadState, Truncate, Write, Resting
<1>5. Leaves
  BY <1>4, CommandDocuments DEF Inv
<1> QED  BY <1>1, <1>2, <1>3, <1>5 DEF Resting, Inside

\* No step of a command breaks the invariant of the keys.
LEMMA CommandSpares ==
  ASSUME Inv, FileInv', NEW c \in Commands, Command(c) \/ Kill(c), Notice PROVE KeyInv'
<1>1. CommandTypes' /\ Values' /\ Locks' /\ Listed'
  BY CommandTyped, CommandValues, CommandLocks, CommandListed DEF Inv
<1>2. ASSUME ~spoilt' PROVE Calm' /\ Mine' /\ Open' /\ Keys'
  <2>1. mig'.seen = {}
    BY DEF FileInv, Types, Records
  <2>2. /\ ~spoilt /\ ~Tears /\ ~Clobbers /\ Calm'
        /\ saved' = saved \cup {d \in Commands : pc[d] = "write" /\ d \in mem[d] /\ pc'[d] = "unlock"}
    BY <1>2, <2>1, NoticeFacts DEF Inv
  <2>3. UNCHANGED <<mig, cut>>
    BY OneMoves DEF Inv, KeyInv
  <2>4. CASE mig.pc \in Moving
    <3>1. Leaves /\ \A d \in Commands : pc[d] \notin Inside /\ pc'[d] \notin Inside
      BY <1>2, <2>2, <2>4, Departing
    <3>2. saved' = saved
      BY <2>2, <3>1 DEF Inside
    <3>3. Mine' /\ Open'
      BY <3>1 DEF Mine, Open, Inside
    <3>4. CASE cut'
      BY <2>2, <3>3, <3>4 DEF Keys
    <3>5. CASE ~cut'
      <4>1. ~cut /\ MovingKeys
        BY <2>2, <2>3, <2>4, <3>5, KeysBeside DEF Inv
      <4>2. /\ UNCHANGED Document /\ UNCHANGED at["legacy"]["state"]
            /\ Has("legacy", "state")' <=> Has("legacy", "state")
            /\ Has("new", "state")' <=> Has("new", "state")
        BY <3>1, SameDocument, Places DEF Leaves
      <4>3. MovingKeys'
        BY <2>3, <3>2, <4>1, <4>2 DEF MovingKeys
      <4> QED  BY <2>2, <3>1, <3>3, <4>3, KeysStillBeside
    <3> QED  BY <3>4, <3>5
  <2>5. CASE mig.pc \notin Moving
    <3>0. Calm' /\ Mine' /\ Open'
      BY <1>2, <2>2, <2>5, CommandOpen, CommandMine DEF Inv
    <3>1. CASE cut
      <4>1. Keys'
        BY <2>3, <3>1 DEF Keys
      <4> QED  BY <3>0, <4>1
    <3>2. CASE ~cut
      <4>1. Keys'
        BY <1>2, <2>2, <2>5, <3>2, CommandKeys DEF Inv
      <4> QED  BY <3>0, <4>1
    <3> QED  BY <3>1, <3>2
  <2> QED  BY <2>4, <2>5
<1>3. spoilt' \in BOOLEAN
  BY <1>1 DEF CommandTypes
<1> QED  BY <1>1, <1>2, <1>3, StillSpoilt DEF KeyInv

\* No step of a migration does.
LEMMA MigrationSpares ==
  ASSUME Inv, FileInv', Migrates, Notice PROVE KeyInv'
<1>1. CommandTypes' /\ Values' /\ Locks' /\ Listed'
  BY MigrateTyped, MigrateValues, MigrateLocks, MigrateListed DEF Inv, KeyInv
<1>2. ASSUME ~spoilt' PROVE Calm' /\ Mine' /\ Open' /\ Keys'
  <2>1. mig'.seen = {}
    BY DEF FileInv, Types, Records
  <2>2. /\ ~spoilt /\ Calm'
        /\ saved' = saved \cup {d \in Commands : pc[d] = "write" /\ d \in mem[d] /\ pc'[d] = "unlock"}
    BY <1>2, <2>1, NoticeFacts DEF Inv
  <2>3. saved' = saved
    BY <2>2, MigratesAlone
  <2>4. Mine' /\ Open'
    BY <2>2, MigrateMine DEF Inv
  <2>5. CASE cut'
    BY <2>2, <2>4, <2>5 DEF Keys
  <2>6. CASE ~cut'
    BY <2>2, <2>3, <2>4, <2>6, MigrateKeys DEF Inv
  <2> QED  BY <2>5, <2>6
<1>3. spoilt' \in BOOLEAN
  BY <1>1 DEF CommandTypes
<1> QED  BY <1>1, <1>2, <1>3, StillSpoilt DEF KeyInv

\* No step does.
LEMMA NextKeys == ASSUME Inv, FileInv', [Next]_vars PROVE KeyInv'
<1>1. ASSUME NEW c \in Commands, Command(c) \/ Kill(c), Notice PROVE KeyInv'
  BY <1>1, CommandSpares
<1>2. ASSUME Migrates, Notice PROVE KeyInv'
  BY <1>2, MigrationSpares
<1>3. CASE UNCHANGED vars
  <2>1. UNCHANGED <<at, holder, pc, mem, lockSide, fileSide, mig, faults, saved, spoilt, cut, revived>>
    BY <1>3 DEF vars, diskVars, cmdVars
  <2>2. CommandTypes' /\ Values' /\ Locks' /\ Listed' /\ Calm'
    BY <2>1 DEF Inv, KeyInv, CommandTypes, Values, Locks, Listed, Calm, Has
  <2>3. Mine' /\ Open' /\ Keys'
    BY <2>1 DEF Inv, KeyInv, Mine, Open, Keys, Between, Document, Resolved, Has
  <2> QED  BY <2>2, <2>3 DEF KeyInv
<1> QED  BY <1>1, <1>2, <1>3 DEF Next, Migrates

\* The invariants of the files and of the keys hold together.
THEOREM KeysInvariant == Spec => []Inv
<1>1. Init => Inv
  BY InitFiles, InitKeys DEF Inv
<1>2. Inv /\ [Next]_vars => Inv'
  <2> SUFFICES ASSUME Inv, [Next]_vars PROVE FileInv' /\ KeyInv'
    BY DEF Inv
  <2>1. FileInv'
    BY NextFiles DEF Inv
  <2> QED  BY <2>1, NextKeys
<1> QED  BY <1>1, <1>2, PTL DEF Spec

\* Keys that SaveBlocKeys reported saved are in the document the next command
\* reads, but for the accidents that KeysKept names (KeysKept).
THEOREM SavedKeysStay == Spec => []KeysKept
<1>1. Inv => KeysKept
  BY DEF Inv, KeyInv, Keys, KeysKept
<1> QED  BY <1>1, KeysInvariant, PTL

\* Every variable has its type, and a lock that is held has its holder
\* running: released, dropped by the kernel or left behind dead (TypeOK).
THEOREM Typing == Spec => []TypeOK
<1>1. ASSUME Inv PROVE TypeOK
  <2>1. /\ Values /\ CommandTypes /\ dirs \subseteq Directories /\ mig \in Records
        /\ track \in [Commands -> Sides \cup {None}]
    BY <1>1 DEF Inv, KeyInv, FileInv, Types
  <2>2. \A s \in Sides : holder[s] \in Commands => Running(holder[s])
    BY <1>1 DEF Inv, KeyInv, Locks, Running, Inside
  <2>3. /\ mig.pc \in Moving \cup {"idle", "guard"} /\ mig.i \in 0 .. Len(Entries) + 1
        /\ mig.plan \subseteq DOMAIN Under /\ mig.todo \subseteq Files /\ mig.leaf \in Files
        /\ mig.seen \subseteq Blocs
    BY <2>1 DEF Records
  <2>4. /\ pc \in [Commands -> Points] /\ mem \in [Commands -> SUBSET Blocs]
        /\ {lockSide, fileSide} \subseteq [Commands -> Sides]
        /\ holder \in [Sides -> Commands \cup {Nobody, Dead}]
        /\ faults \in 0 .. MaxFaults /\ {spoilt, cut, revived} \subseteq BOOLEAN
        /\ {saved, mig.seen} \subseteq SUBSET Blocs
    BY <2>1, <2>3 DEF CommandTypes
  <2> QED  BY <2>1, <2>2, <2>3, <2>4 DEF TypeOK, Values
<1> QED  BY <1>1, KeysInvariant, PTL
=============================================================================
