--------------------------- MODULE ReconcileProofs ---------------------------
(***************************************************************************)
(* What is proved about Reconcile, for any resources, types and categories *)
(* and any changes in the cloud: a sync forgets nothing that lives, each   *)
(* strategy keeps its word, and the order of the goroutines is no matter.  *)
(*                                                                         *)
(* The properties speak of the merged document and are not inductive: they *)
(* need that an entry under an ID is of that ID (Filed), that a category   *)
(* returns its own types (Sorted), that what has lived since the sync      *)
(* began has been listed or will be (Pending), and that of the resources   *)
(* received under one ID one is the last (Latest), or discoveredIndex      *)
(* would be no resource at all.                                            *)
(***************************************************************************)
EXTENDS Reconcile, FiniteSetTheorems, TLAPS

USE ReconcileAssumption

-----------------------------------------------------------------------------
(* The invariant.                                                          *)

Filed(m) == \A i \in Id : m[i] # NoEntry => m[i].id = i

\* Between two syncs nothing is left of one.
Idle == pc = "idle" =>
  /\ \A c \in Category : next[c] = 1 /\ got[c] = {} /\ rank[c] = 0
  /\ failed = {} /\ throughout = {}

\* The document is read when the sync begins and merged when all is received.
Phased ==
  /\ pc \in {"listing", "listed"} => mem = file
  /\ pc \in {"listed", "merged"} => Received = Category

Sorted == \A c \in Category : \A t \in got[c] : CategoryOf(KindOf[t.name]) = c

\* Who is received has made its calls, and was counted.
Counted == /\ \A c \in Received : rank[c] <= Cardinality(Received) /\ next[c] > Len(Calls[c])
           /\ \A c \in Category : next[c] \in Nat \ {0}

\* The last resource received under an ID.
Last(i, t, c) == /\ t \in got[c] /\ t.id = i
                 /\ \A d \in Received : \A u \in got[d] : u.id = i => rank[d] <= rank[c]
Latest == \A c \in Received : \A u \in got[c] :
            \E d \in Received : \E t \in got[d] : Last(u.id, t, d)

\* What has been there ever since is listed, or there when its type is listed.
Coming(i) == \E t \in cloud : \E c \in Category : \E j \in DOMAIN Calls[c] :
               t.id = i /\ j >= next[c] /\ Calls[c][j] = KindOf[t.name]
Pending == failed = {} => \A i \in throughout : i \in Ids(got) \/ Coming(i)

\* What a sync has listed it has listed of what was there.
Witnessed == pc # "idle" => cloud \subseteq seen /\ \A c \in Category : got[c] \subseteq seen

Discovery == TypeOK /\ Idle /\ Phased /\ Sorted /\ Counted /\ Latest /\ Pending
             /\ Witnessed /\ Filed(file) /\ Filed(mem)
IInv == Discovery /\ LivingStaysKnown /\ StrategyKept

-----------------------------------------------------------------------------
(* What the comparison looks up.                                           *)

\* A type is in the category that lists it.
LEMMA OneCategory ==
  ASSUME NEW c \in Category, NEW j \in DOMAIN Calls[c]
  PROVE  CategoryOf(Calls[c][j]) = c
BY DEF CategoryOf

\* Who has been received is a finite set.
LEMMA ReceivedFinite ==
  /\ IsFiniteSet(Received) /\ Cardinality(Received) \in Nat
  /\ IsFiniteSet(Category) /\ Cardinality(Category) \in Nat
  /\ Cardinality(Received) <= Cardinality(Category)
<1>1. Received \in SUBSET Category
  BY DEF Received
<1> QED  BY <1>1, FS_Subset, FS_CardinalityType

\* When everything is received the index has a resource for each ID listed.
LEMMA Indexed ==
  ASSUME Discovery, pc = "listed", NEW i \in Ids(got)
  PROVE  /\ DiscoveredIndex(i, got, rank) \in Found(got)
         /\ DiscoveredIndex(i, got, rank).id = i
<1>1. PICK c \in Category : \E u \in got[c] : u.id = i
  BY DEF Ids, Found
<1>2. Received = Category
  BY DEF Discovery, Phased
<1>3. PICK d \in Category : \E t \in got[d] : Last(i, t, d)
  BY <1>1, <1>2 DEF Discovery, Latest
<1> PICK t \in got[d] : Last(i, t, d)
  BY <1>3
<1>4. t \in Found(got) /\ CategoryOf(KindOf[t.name]) = d
  BY DEF Found, Discovery, Sorted
<1>5. /\ t.id = i
      /\ \A e \in Category : \A v \in got[e] : v.id = i => rank[e] <= rank[CategoryOf(KindOf[t.name])]
  BY <1>2, <1>4 DEF Last
<1> QED  BY <1>4, <1>5 DEF DiscoveredIndex

\* With one resource for an ID it does not matter who came when.
LEMMA IndexedAlike ==
  ASSUME Discovery, Distinct, NEW i \in Ids(got), NEW r \in [Category -> Nat]
  PROVE  \A t \in Found(got) : t.id = i => DiscoveredIndex(i, got, r) = t
<1> SUFFICES ASSUME NEW t \in Found(got), t.id = i PROVE DiscoveredIndex(i, got, r) = t
  OBVIOUS
<1>1. \A u \in Found(got) : u.id = i => u = t
  BY DEF Distinct
<1>2. \A d \in Category : \A u \in got[d] : u.id = i => d = CategoryOf(KindOf[t.name])
  BY <1>1 DEF Found, Discovery, Sorted
<1>3. \A d \in Category : \A u \in got[d] : u.id = i => r[d] <= r[CategoryOf(KindOf[t.name])]
  BY <1>2
<1> QED  BY <1>1, <1>3 DEF DiscoveredIndex

-----------------------------------------------------------------------------
(* What the merge does.                                                    *)

\* Entry by entry, under each strategy.
LEMMA MergedEntries ==
  ASSUME NEW m \in Documents, NEW s \in Strategies, NEW g, NEW r, NEW k \in Key
  PROVE  LET listed == k \in Ids(g)
             old    == m[k]
             new    == DiscoveredIndex(k, g, r)
             gone   == \E d \in Deleted(m, g) : m[d].id = k
         IN  Merged(m, s, g, r)[k] =
               IF s = "full" /\ gone THEN NoEntry
               ELSE IF listed /\ old = NoEntry THEN new
               ELSE IF listed /\ s # "add-only" THEN UpdateResourceFromDiscovered(old, new)
               ELSE old
<1> DEFINE A == MergeAdded(m, m, g, r)
           U == MergeModified(A, m, g, r)
           F == MergeDeleted(U, m, g)
<1>1. A[k] = IF k \in Ids(g) /\ m[k] = NoEntry THEN DiscoveredIndex(k, g, r) ELSE m[k]
  BY DEF MergeAdded, Added
<1>2. U[k] = IF k \in Ids(g) /\ m[k] # NoEntry
             THEN UpdateResourceFromDiscovered(m[k], DiscoveredIndex(k, g, r)) ELSE A[k]
  BY <1>1 DEF MergeModified, Added
<1>3. F[k] = IF \E d \in Deleted(m, g) : m[d].id = k THEN NoEntry ELSE U[k]
  BY DEF MergeDeleted
<1>4. Merged(m, s, g, r) = IF s = "add-only" THEN A ELSE IF s = "update" THEN U ELSE F
  BY DEF Merged, Strategies
<1> HIDE DEF A, U, F
<1> QED  BY <1>1, <1>2, <1>3, <1>4 DEF Strategies

\* An entry that is brought up to date is an entry still, under the same ID.
LEMMA Updated ==
  ASSUME NEW e \in Thing, NEW t \in Thing
  PROVE  LET u == UpdateResourceFromDiscovered(e, t)
         IN  u \in Thing /\ u.id = e.id /\ u.name = t.name /\ u.ver = t.ver
<1>1. e = [id |-> e.id, name |-> e.name, type |-> e.type, ver |-> e.ver]
      /\ e.id \in Id /\ e.type \in Kind /\ t.name \in Name /\ t.ver \in 0..MaxVersion
  BY DEF Thing
<1>2. UpdateResourceFromDiscovered(e, t) = [id |-> e.id, name |-> t.name, type |-> e.type, ver |-> t.ver]
  <2> DEFINE named == [e EXCEPT !.name = t.name]
             named0 == [id |-> e.id, name |-> t.name, type |-> e.type, ver |-> e.ver]
  <2>1. \A i, n, k, v, m : [[id |-> i, name |-> n, type |-> k, ver |-> v] EXCEPT !.name = m]
                        = [id |-> i, name |-> m, type |-> k, ver |-> v]
    OBVIOUS
  <2>2. \A i, n, k, v, w : [[id |-> i, name |-> n, type |-> k, ver |-> v] EXCEPT !.ver = w]
                        = [id |-> i, name |-> n, type |-> k, ver |-> w]
    OBVIOUS
  <2>3. \A i, n, k, v, m : e = [id |-> i, name |-> n, type |-> k, ver |-> v] =>
          [e EXCEPT !.name = m] = [id |-> i, name |-> m, type |-> k, ver |-> v]
    BY <2>1
  <2>4. named = named0
    BY <1>1, <2>3
  <2>5. UpdateResourceFromDiscovered(e, t) = [named EXCEPT !.ver = t.ver]
    BY DEF UpdateResourceFromDiscovered
  <2> HIDE DEF named
  <2>6. \A i, n, k, v, w : named = [id |-> i, name |-> n, type |-> k, ver |-> v] =>
          [named EXCEPT !.ver = w] = [id |-> i, name |-> n, type |-> k, ver |-> w]
    BY <2>2
  <2> QED  BY <2>4, <2>5, <2>6
<1> QED  BY <1>1, <1>2 DEF Thing

-----------------------------------------------------------------------------
(* The cloud and the commands that record what they did to it.             *)

\* At the start nothing is known of anything.
LEMMA Starts == Init => IInv
<1> SUFFICES ASSUME Init PROVE IInv
  OBVIOUS
<1>1. TypeOK
  BY ReceivedFinite DEF Init, TypeOK, Documents, Strategies
<1>2. Received = {}
  BY DEF Init, Received
<1>3. Idle /\ Phased /\ Sorted /\ Pending /\ Witnessed /\ Filed(file) /\ Filed(mem)
  BY DEF Init, Idle, Phased, Sorted, Pending, Witnessed, Filed, Key
<1>4. Counted /\ Latest
  BY <1>2 DEF Init, Counted, Latest
<1>5. LivingStaysKnown /\ StrategyKept
  BY DEF Init, LivingStaysKnown, StrategyKept
<1> QED  BY <1>1, <1>3, <1>4, <1>5 DEF IInv, Discovery

\* What a sync holds does not notice that the cloud changes.
LEMMA CloudChanges ==
  ASSUME IInv, file' = file, UNCHANGED sync, cloud' \subseteq Thing,
         events' \in 0..MaxEvents, throughout' \subseteq throughout, Pending',
         seen' \subseteq Thing,
         pc # "idle" => seen \subseteq seen' /\ cloud' \subseteq seen'
  PROVE  IInv'
<1>0. /\ mem' = mem /\ pc' = pc /\ strategy' = strategy /\ next' = next
      /\ got' = got /\ rank' = rank /\ failed' = failed /\ file' = file
  BY DEF sync, results
<1>1. TypeOK'
  BY <1>0 DEF IInv, Discovery, TypeOK
<1>2. Received' = Received
  BY <1>0 DEF Received
<1>3. Idle' /\ Phased' /\ Sorted' /\ Filed(file)' /\ Filed(mem)'
  BY <1>0, <1>2 DEF IInv, Discovery, Idle, Phased, Sorted, Filed
<1>4. Counted' /\ Latest' /\ Witnessed'
  BY <1>0, <1>2 DEF IInv, Discovery, Counted, Latest, Last, Witnessed
<1>5. LivingStaysKnown'
  BY <1>0 DEF IInv, LivingStaysKnown, Known
<1>6. StrategyKept'
  <2>1. Found(got)' = Found(got) /\ Ids(got)' = Ids(got)
    BY <1>0 DEF Found, Ids
  <2>2. \A x : Known(mem, x)' = Known(mem, x)
    BY <1>0 DEF Known
  <2> QED  BY <1>0, <2>1, <2>2 DEF IInv, StrategyKept
<1> QED  BY <1>1, <1>3, <1>4, <1>5, <1>6 DEF IInv, Discovery

\* A resource that comes, or changes its properties, leaves the others there.
LEMMA CreateStep ==
  ASSUME IInv, NEW n \in Name, NEW i \in Id, Create(n, i)
  PROVE  IInv'
<1> DEFINE t0 == [id |-> i, name |-> n, type |-> KindOf[n], ver |-> 0]
<1>1. /\ file' = file /\ UNCHANGED sync /\ throughout' = throughout
      /\ cloud' = cloud \cup {t0} /\ events' = events + 1 /\ events < MaxEvents
      /\ seen' = IF pc = "idle" THEN {} ELSE seen \cup cloud'
  BY DEF Create, Event
<1>2. t0 \in Thing
  BY DEF Thing
<1> HIDE DEF t0
<1>3. cloud' \subseteq Thing /\ events' \in 0..MaxEvents /\ seen' \subseteq Thing
  BY <1>1, <1>2 DEF IInv, Discovery, TypeOK
<1>4. next' = next /\ got' = got /\ failed' = failed
  BY <1>1 DEF sync, results
<1>5. \A x : Coming(x) => Coming(x)'
  BY <1>1, <1>4 DEF Coming
<1>6. Pending'
  BY <1>1, <1>4, <1>5 DEF IInv, Discovery, Pending, Ids, Found
<1> QED  BY <1>1, <1>3, <1>6, CloudChanges

LEMMA ChangeStep ==
  ASSUME IInv, NEW t \in cloud, Change(t)
  PROVE  IInv'
<1> DEFINE t1 == [t EXCEPT !.ver = @ + 1]
<1>1. /\ file' = file /\ UNCHANGED sync /\ throughout' = throughout
      /\ cloud' = (cloud \ {t}) \cup {t1} /\ events' = events + 1 /\ events < MaxEvents
      /\ seen' = IF pc = "idle" THEN {} ELSE seen \cup cloud'
      /\ t.ver < MaxVersion
  BY DEF Change, Event
<1>2. t \in Thing
  BY DEF IInv, Discovery, TypeOK
<1>3. t1 \in Thing /\ t1.id = t.id /\ t1.name = t.name
  <2>1. t.ver + 1 \in 0..MaxVersion
    BY <1>1, <1>2 DEF Thing
  <2>2. /\ t.id \in Id /\ t.name \in Name /\ t.type \in Kind
        /\ t = [id |-> t.id, name |-> t.name, type |-> t.type, ver |-> t.ver]
    BY <1>2 DEF Thing
  <2>3. t1 = [id |-> t.id, name |-> t.name, type |-> t.type, ver |-> t.ver + 1]
    <3>1. \A i, n, k, v : [[id |-> i, name |-> n, type |-> k, ver |-> v] EXCEPT !.ver = @ + 1]
                       = [id |-> i, name |-> n, type |-> k, ver |-> v + 1]
      OBVIOUS
    <3>2. \A i, n, k, v : t = [id |-> i, name |-> n, type |-> k, ver |-> v] =>
                      t1 = [id |-> i, name |-> n, type |-> k, ver |-> v + 1]
      BY <3>1
    <3> HIDE DEF t1
    <3> QED  BY <2>2, <3>2
  <2> QED  BY <2>1, <2>2, <2>3 DEF Thing
<1> HIDE DEF t1
<1>4. cloud' \subseteq Thing /\ events' \in 0..MaxEvents /\ seen' \subseteq Thing
  BY <1>1, <1>3 DEF IInv, Discovery, TypeOK
<1>5. next' = next /\ got' = got /\ failed' = failed
  BY <1>1 DEF sync, results
<1>6. \A x : Coming(x) => Coming(x)'
  <2> SUFFICES ASSUME NEW x, Coming(x) PROVE Coming(x)'
    OBVIOUS
  <2>1. PICK u \in cloud, c \in Category : \E j \in DOMAIN Calls[c] :
          u.id = x /\ j >= next[c] /\ Calls[c][j] = KindOf[u.name]
    BY DEF Coming
  <2>2. CASE u = t
    BY <1>1, <1>3, <1>5, <2>1, <2>2 DEF Coming
  <2>3. CASE u # t
    BY <1>1, <1>5, <2>1, <2>3 DEF Coming
  <2> QED  BY <2>2, <2>3
<1>7. Pending'
  BY <1>1, <1>5, <1>6 DEF IInv, Discovery, Pending, Ids, Found
<1> QED  BY <1>1, <1>4, <1>7, CloudChanges

\* One that goes is no longer among those that were always there.
LEMMA DestroyStep ==
  ASSUME IInv, NEW t \in cloud, Destroy(t)
  PROVE  IInv'
<1>1. /\ file' = file /\ UNCHANGED sync /\ throughout' = throughout \ {t.id}
      /\ cloud' = cloud \ {t} /\ events' = events + 1 /\ events < MaxEvents
      /\ seen' = IF pc = "idle" THEN {} ELSE seen \cup cloud'
  BY DEF Destroy, Event
<1>2. cloud' \subseteq Thing /\ events' \in 0..MaxEvents /\ seen' \subseteq Thing
  BY <1>1 DEF IInv, Discovery, TypeOK
<1>3. next' = next /\ got' = got /\ failed' = failed
  BY <1>1 DEF sync, results
<1>4. \A x : x # t.id /\ Coming(x) => Coming(x)'
  BY <1>1, <1>3 DEF Coming
<1>5. Pending'
  BY <1>1, <1>3, <1>4 DEF IInv, Discovery, Pending, Ids, Found
<1> QED  BY <1>1, <1>2, <1>5, CloudChanges

\* Between two syncs an entry under a name comes or goes.
LEMMA DocumentChanges ==
  ASSUME IInv, pc = "idle", NEW n \in Name, NEW e \in Thing \cup {NoEntry},
         file' = [file EXCEPT ![n] = e], UNCHANGED <<cloud, events, sync, witness>>
  PROVE  IInv'
<1>0. /\ mem' = mem /\ pc' = pc /\ strategy' = strategy /\ next' = next
      /\ got' = got /\ rank' = rank /\ failed' = failed
      /\ cloud' = cloud /\ events' = events /\ throughout' = throughout /\ seen' = seen
  BY DEF sync, results, witness
<1>1. TypeOK'
  BY <1>0 DEF IInv, Discovery, TypeOK, Documents, Key
<1>2. Received' = Received
  BY <1>0 DEF Received
<1>3. Filed(file)'
  BY DEF IInv, Discovery, TypeOK, Documents, Filed, Key
<1>4. Idle' /\ Phased' /\ Sorted' /\ Filed(mem)'
  BY <1>0, <1>2 DEF IInv, Discovery, Idle, Phased, Sorted, Filed
<1>5. Counted' /\ Latest' /\ Witnessed'
  BY <1>0, <1>2 DEF IInv, Discovery, Counted, Latest, Last, Witnessed
<1>6. Pending'
  BY <1>0 DEF IInv, Discovery, Pending, Coming, Ids, Found
<1>7. LivingStaysKnown' /\ StrategyKept'
  BY <1>0 DEF LivingStaysKnown, StrategyKept
<1> QED  BY <1>1, <1>3, <1>4, <1>5, <1>6, <1>7 DEF IInv, Discovery

-----------------------------------------------------------------------------
(* Discovery.                                                              *)

\* A sync begins with everything still to be listed.
LEMMA BeginStep ==
  ASSUME IInv, NEW s \in Strategies, Begin(s)
  PROVE  IInv'
<1>0. /\ mem' = file /\ pc' = "listing" /\ strategy' = s /\ next' = next
      /\ got' = got /\ rank' = rank /\ failed' = failed
      /\ cloud' = cloud /\ events' = events /\ file' = file
      /\ throughout' = {t.id : t \in cloud} /\ seen' = cloud
  BY DEF Begin, results
<1>1. Idle /\ pc = "idle" /\ cloud \subseteq Thing
  BY DEF Begin, IInv, Discovery, TypeOK
<1>2. TypeOK'
  BY <1>0, <1>1 DEF IInv, Discovery, TypeOK, Thing
<1>3. Received' = Received
  BY <1>0 DEF Received
<1>4. Idle' /\ Phased' /\ Sorted' /\ Filed(mem)' /\ Filed(file)'
  BY <1>0 DEF IInv, Discovery, Idle, Phased, Sorted, Filed
<1>5. Counted' /\ Latest' /\ Witnessed'
  BY <1>0, <1>1, <1>3 DEF IInv, Discovery, Counted, Latest, Last, Witnessed, Idle
<1>6. Pending'
  <2> SUFFICES ASSUME NEW i \in throughout' PROVE Coming(i)'
    BY DEF Pending
  <2>1. PICK t \in cloud : t.id = i
    BY <1>0
  <2>2. t.name \in Name
    BY <1>1 DEF Thing
  <2>3. PICK c \in Category : \E j \in DOMAIN Calls[c] : Calls[c][j] = KindOf[t.name]
    BY <2>2
  <2>4. DOMAIN Calls[c] = 1..Len(Calls[c]) /\ next[c] = 1
    BY <1>1 DEF Idle
  <2>5. PICK j \in DOMAIN Calls[c] : Calls[c][j] = KindOf[t.name] /\ j >= next[c]
    BY <2>3, <2>4
  <2> QED  BY <1>0, <2>1, <2>5 DEF Coming
<1>7. LivingStaysKnown' /\ StrategyKept'
  BY <1>0 DEF LivingStaysKnown, StrategyKept
<1> QED  BY <1>2, <1>4, <1>5, <1>6, <1>7 DEF IInv, Discovery

\* A call lists what exists of its type, or its failure is remembered.
LEMMA DiscoverStep ==
  ASSUME IInv, NEW c \in Category, Discover(c)
  PROVE  IInv'
<1> DEFINE kind == Calls[c][next[c]]
           here == {t \in cloud : KindOf[t.name] = kind}
<1>0. /\ pc = "listing" /\ next[c] <= Len(Calls[c]) /\ next' = [next EXCEPT ![c] = @ + 1]
      /\ mem' = mem /\ pc' = pc /\ strategy' = strategy /\ rank' = rank
      /\ cloud' = cloud /\ events' = events /\ file' = file /\ throughout' = throughout /\ seen' = seen
      /\ \/ got' = [got EXCEPT ![c] = @ \cup here] /\ failed' = failed
         \/ got' = got /\ failed' = failed \cup {kind}
  BY DEF Discover, witness
<1>a. TypeOK /\ Idle /\ Phased /\ Sorted /\ Counted /\ Latest /\ Pending /\ Witnessed
      /\ Filed(file) /\ Filed(mem)
  BY DEF IInv, Discovery
<1>b. Len(Calls[c]) \in Nat /\ next[c] \in 1..Len(Calls[c]) /\ kind \in Kind
  <2>1. Calls[c] \in Seq(Kind) /\ next[c] \in Nat \ {0}
    BY <1>a DEF Counted
  <2> QED  BY <1>0, <2>1
<1>1. here \subseteq cloud /\ here \subseteq Thing /\ \A t \in here : KindOf[t.name] = kind
  BY <1>a DEF TypeOK
<1>2. TypeOK'
  BY <1>0, <1>a, <1>1, <1>b DEF TypeOK
<1>3. Received' = Received /\ c \notin Received
  <2>1. Received' = Received
    BY <1>0 DEF Received
  <2>2. next[c] <= Len(Calls[c]) /\ next[c] \in Nat
    BY <1>b
  <2> QED  BY <1>a, <1>b, <2>1, <2>2 DEF Counted
<1> HIDE DEF here, kind
<1>4. /\ \A d \in Category : d # c => got'[d] = got[d] /\ next'[d] = next[d]
      /\ got'[c] \subseteq got[c] \cup here /\ next'[c] = next[c] + 1
      /\ \A d \in Category : got[d] \subseteq got'[d]
  <2>1. next \in [Category -> Nat] /\ got \in [Category -> SUBSET Thing]
    BY <1>a DEF TypeOK
  <2>2. \A d \in Category : d # c => got'[d] = got[d] /\ next'[d] = next[d]
    BY <1>0, <2>1
  <2>3. next'[c] = next[c] + 1
    BY <1>0, <2>1
  <2>4. got'[c] \subseteq got[c] \cup here /\ got[c] \subseteq got'[c]
    BY <1>0, <2>1
  <2> QED  BY <2>2, <2>3, <2>4
<1>5. next[c] \in DOMAIN Calls[c] /\ kind = Calls[c][next[c]]
  BY <1>b DEF kind
<1>6. CategoryOf(kind) = c
  BY <1>5, OneCategory
<1>7. Idle' /\ Phased' /\ Filed(mem)' /\ Filed(file)'
  BY <1>0, <1>3, <1>a DEF Idle, Phased, Filed
<1>8. Sorted'
  BY <1>a, <1>1, <1>4, <1>6 DEF Sorted
<1>w. Witnessed'
  <2>1. cloud \subseteq seen /\ \A d \in Category : got[d] \subseteq seen
    BY <1>0, <1>a DEF Witnessed
  <2>2. \A d \in Category : got'[d] \subseteq seen
    BY <1>1, <1>4, <2>1
  <2> QED  BY <1>0, <2>1, <2>2 DEF Witnessed
<1>9. Counted'
  <2>1. \A d \in Received : d \in Category /\ d # c
    BY <1>3 DEF Received
  <2>2. \A d \in Received : rank'[d] <= Cardinality(Received') /\ next'[d] > Len(Calls[d])
    BY <1>0, <1>3, <1>4, <1>a, <2>1 DEF Counted
  <2>3. \A d \in Category : next'[d] \in Nat \ {0}
    <3> SUFFICES ASSUME NEW d \in Category PROVE next'[d] \in Nat \ {0}
      OBVIOUS
    <3>1. next[d] \in Nat \ {0}
      BY <1>a DEF Counted
    <3>2. next'[d] = next[d] \/ next'[d] = next[d] + 1
      BY <1>4
    <3> QED  BY <3>1, <3>2
  <2> QED  BY <1>3, <2>2, <2>3 DEF Counted
<1>10. Latest'
  <2>1. \A d \in Received : d \in Category /\ got'[d] = got[d]
    BY <1>3, <1>4 DEF Received
  <2>2. ASSUME NEW i, NEW d \in Received, NEW t \in got[d], Last(i, t, d)
        PROVE  Last(i, t, d)'
    BY <1>0, <1>3, <2>1, <2>2 DEF Last
  <2> QED  BY <1>3, <1>a, <2>1, <2>2 DEF Latest
<1>11. Pending'
  <2> SUFFICES ASSUME failed' = {}, NEW i \in throughout
               PROVE  i \in Ids(got') \/ Coming(i)'
    BY <1>0 DEF Pending
  <2>1. failed = {} /\ got' = [got EXCEPT ![c] = @ \cup here]
    BY <1>0
  <2>2. CASE i \in Ids(got)
    BY <1>4, <2>2 DEF Ids, Found
  <2>3. CASE Coming(i)
    <3>1. PICK t \in cloud, d \in Category : \E j \in DOMAIN Calls[d] :
            t.id = i /\ j >= next[d] /\ Calls[d][j] = KindOf[t.name]
      BY <2>3 DEF Coming
    <3>2. PICK j \in DOMAIN Calls[d] : t.id = i /\ j >= next[d] /\ Calls[d][j] = KindOf[t.name]
      BY <3>1
    <3>3. CASE d = c /\ j = next[c]
      <4>1. t \in got'[c]
        <5>1. t \in here
          BY <3>2, <3>3, <1>5 DEF here
        <5>2. got'[c] = got[c] \cup here
          BY <2>1, <1>a DEF TypeOK
        <5> QED  BY <5>1, <5>2
      <4> QED  BY <3>2, <4>1 DEF Ids, Found
    <3>4. CASE ~(d = c /\ j = next[c])
      <4>1. j >= next'[d]
        BY <1>4, <3>2, <3>4, <1>a DEF TypeOK
      <4> QED  BY <1>0, <3>2, <4>1 DEF Coming
    <3> QED  BY <3>3, <3>4
  <2> QED  BY <1>a, <2>1, <2>2, <2>3 DEF Pending
<1>12. LivingStaysKnown' /\ StrategyKept'
  BY <1>0 DEF LivingStaysKnown, StrategyKept
<1> QED  BY <1>2, <1>7, <1>8, <1>9, <1>10, <1>11, <1>12, <1>w DEF IInv, Discovery

\* The result that comes last is later than all before it.
LEMMA ReceiveStep ==
  ASSUME IInv, NEW c \in Category, Receive(c)
  PROVE  IInv'
<1> DEFINE n == Cardinality(Received)
<1>0. /\ pc = "listing" /\ next[c] > Len(Calls[c]) /\ rank[c] = 0
      /\ rank' = [rank EXCEPT ![c] = n + 1]
      /\ pc' = IF Received \cup {c} = Category THEN "listed" ELSE "listing"
      /\ mem' = mem /\ strategy' = strategy /\ next' = next /\ got' = got /\ failed' = failed
      /\ cloud' = cloud /\ events' = events /\ file' = file /\ throughout' = throughout /\ seen' = seen
  BY DEF Receive, witness
<1>a. TypeOK /\ Idle /\ Phased /\ Sorted /\ Counted /\ Latest /\ Pending /\ Witnessed
      /\ Filed(file) /\ Filed(mem)
  BY DEF IInv, Discovery
<1>1. IsFiniteSet(Received) /\ n \in Nat /\ c \notin Received
  BY <1>0, ReceivedFinite DEF Received
<1>2. Received' = Received \cup {c}
  <2>1. rank' \in [Category -> Nat] /\ rank'[c] # 0
    BY <1>0, <1>1, <1>a DEF TypeOK
  <2>2. \A d \in Category : d # c => rank'[d] = rank[d]
    BY <1>0, <1>a DEF TypeOK
  <2> QED  BY <2>1, <2>2 DEF Received
<1>3. Cardinality(Received') = n + 1
  BY <1>1, <1>2, FS_AddElement
<1>4. n + 1 <= Cardinality(Category)
  <2>1. Received \cup {c} \in SUBSET Category
    BY DEF Received
  <2> QED  BY <1>2, <1>3, <2>1, FS_Subset, FS_CardinalityType
<1> HIDE DEF n
<1>5. TypeOK'
  <2>1. n + 1 \in 0..Cardinality(Category)
    BY <1>1, <1>4, ReceivedFinite
  <2> QED  BY <1>0, <1>a, <2>1 DEF TypeOK
<1>6. Idle' /\ Phased' /\ Sorted' /\ Filed(mem)' /\ Filed(file)'
  BY <1>0, <1>2, <1>a DEF Idle, Phased, Sorted, Filed
<1>7. /\ rank'[c] = n + 1
      /\ \A d \in Received : rank'[d] = rank[d] /\ rank[d] <= n /\ rank[d] \in Nat
  BY <1>0, <1>1, <1>a DEF TypeOK, Counted, Received, n
<1>8. Counted'
  BY <1>0, <1>1, <1>2, <1>3, <1>7, <1>a DEF Counted
<1>w. Witnessed'
  BY <1>0, <1>a DEF Witnessed
<1>9. Latest'
  <2> SUFFICES ASSUME NEW d \in Received', NEW u \in got[d]
               PROVE  \E e \in Received' : \E t \in got[e] : Last(u.id, t, e)'
    BY <1>0 DEF Latest
  <2>1. CASE \E t \in got[c] : t.id = u.id
    <3>1. PICK t \in got[c] : t.id = u.id
      BY <2>1
    <3>2. \A e \in Received' : rank'[e] <= rank'[c]
      BY <1>1, <1>2, <1>7
    <3>3. Last(u.id, t, c)'
      BY <1>0, <3>1, <3>2 DEF Last
    <3> QED  BY <1>2, <3>3
  <2>2. CASE ~\E t \in got[c] : t.id = u.id
    <3>1. d \in Received
      BY <1>2, <2>2
    <3>2. PICK e \in Received : \E t \in got[e] : Last(u.id, t, e)
      BY <1>a, <3>1 DEF Latest
    <3>3. PICK t \in got[e] : Last(u.id, t, e)
      BY <3>2
    <3>4. Last(u.id, t, e)'
      BY <1>0, <1>2, <1>7, <2>2, <3>2, <3>3 DEF Last
    <3> QED  BY <1>2, <3>4
  <2> QED  BY <2>1, <2>2
<1>10. Pending'
  BY <1>0, <1>a DEF Pending, Coming, Ids, Found
<1>11. LivingStaysKnown' /\ StrategyKept'
  BY <1>0 DEF LivingStaysKnown, StrategyKept
<1> QED  BY <1>5, <1>6, <1>8, <1>9, <1>10, <1>11, <1>w DEF IInv, Discovery

-----------------------------------------------------------------------------
(* The merge and the end of a sync.                                        *)

\* A merged document has an entry or none under every key.
LEMMA MergedKeys ==
  ASSUME NEW m, NEW s \in Strategies, NEW g, NEW r
  PROVE  LET merged == Merged(m, s, g, r) IN merged = [k \in Key |-> merged[k]]
<1> DEFINE A == MergeAdded(m, m, g, r)
           U == MergeModified(A, m, g, r)
           F == MergeDeleted(U, m, g)
<1>1. A = [k \in Key |-> A[k]]
  BY DEF MergeAdded
<1>2. U = [k \in Key |-> U[k]]
  BY DEF MergeModified
<1>3. F = [k \in Key |-> F[k]]
  BY DEF MergeDeleted
<1>4. Merged(m, s, g, r) = A \/ Merged(m, s, g, r) = U \/ Merged(m, s, g, r) = F
  BY DEF Merged, Strategies
<1> HIDE DEF A, U, F
<1> QED  BY <1>1, <1>2, <1>3, <1>4

\* The merge keeps what the strategy promises, and what lives.
LEMMA MergeStep ==
  ASSUME IInv, Merge
  PROVE  IInv'
<1> DEFINE gone(k) == \E d \in Deleted(mem, got) : mem[d].id = k
           new(k) == DiscoveredIndex(k, got, rank)
           fresh(k) == UpdateResourceFromDiscovered(mem[k], new(k))
<1>0. /\ pc = "listed" /\ pc' = "merged" /\ mem' = Merged(mem, strategy, got, rank)
      /\ strategy' = strategy /\ next' = next /\ got' = got /\ rank' = rank /\ failed' = failed
      /\ cloud' = cloud /\ events' = events /\ file' = file /\ throughout' = throughout /\ seen' = seen
  BY DEF Merge, results, witness
<1>a. /\ Discovery /\ TypeOK /\ Sorted /\ Counted /\ Latest /\ Pending /\ Witnessed
      /\ Filed(file) /\ Filed(mem)
      /\ mem = file /\ Received = Category
  BY <1>0 DEF IInv, Discovery, Phased
<1>1. /\ mem \in Documents /\ strategy \in Strategies /\ Ids(got) \subseteq Id /\ Found(got) \subseteq Thing
      /\ NoEntry \notin Thing /\ Id \cap Name = {} /\ \A t \in Thing : t.id \in Id
  BY <1>a DEF TypeOK, Ids, Found, Thing
<1>2. \A i \in Ids(got) : new(i) \in Found(got) /\ new(i).id = i
  BY <1>0, <1>a, Indexed
<1>3. \A k \in Key : mem'[k] =
        IF strategy = "full" /\ gone(k) THEN NoEntry
        ELSE IF k \in Ids(got) /\ mem[k] = NoEntry THEN new(k)
        ELSE IF k \in Ids(got) /\ strategy # "add-only" THEN fresh(k) ELSE mem[k]
  BY <1>0, <1>1, MergedEntries
<1>u. \A k \in Ids(got) : mem[k] # NoEntry =>
        fresh(k) \in Thing /\ fresh(k).id = k /\ Agrees(fresh(k), new(k))
  <2> SUFFICES ASSUME NEW k \in Ids(got), mem[k] # NoEntry
               PROVE  fresh(k) \in Thing /\ fresh(k).id = k /\ Agrees(fresh(k), new(k))
    OBVIOUS
  <2>1. k \in Id /\ k \in Key
    BY <1>1 DEF Key
  <2>2. mem[k] \in Thing /\ mem[k].id = k
    BY <1>1, <1>a, <2>1 DEF Documents, Filed
  <2>3. new(k) \in Thing /\ new(k).id = k
    BY <1>1, <1>2
  <2> HIDE DEF new
  <2> QED  BY <2>2, <2>3, Updated DEF Agrees
<1> HIDE DEF new, fresh
<1>4. mem' = [k \in Key |-> mem'[k]]
  BY <1>0, <1>1, MergedKeys
<1>5. \A k \in Key : mem[k] \in Thing \cup {NoEntry}
  BY <1>1 DEF Documents
<1>6. \A d \in Deleted(mem, got) : d \in Key /\ mem[d] \in Thing /\ d \notin Ids(got)
  BY <1>5 DEF Deleted
<1> HIDE DEF gone
<1>7. mem' \in Documents
  <2>1. \A k \in Key : mem'[k] \in Thing \cup {NoEntry}
    BY <1>1, <1>2, <1>3, <1>5, <1>u
  <2> QED  BY <1>4, <2>1 DEF Documents
<1>8. Filed(mem)'
  BY <1>1, <1>2, <1>3, <1>a, <1>u DEF Filed, Key
<1>9. \A n \in Name : mem'[n] = mem[n]
  <2> SUFFICES ASSUME NEW n \in Name PROVE mem'[n] = mem[n]
    OBVIOUS
  <2>1. n \in Key /\ n \notin Ids(got)
    BY <1>1 DEF Key
  <2>2. ~gone(n)
    BY <1>1, <1>6 DEF gone
  <2> QED  BY <1>3, <2>1, <2>2
<1>10. \A i \in Ids(got) : Known(mem', i)
  <2> SUFFICES ASSUME NEW i \in Ids(got) PROVE Known(mem', i)
    OBVIOUS
  <2>0. i \in Id /\ i \in Key
    BY <1>1 DEF Key
  <2>1. CASE strategy = "full" /\ gone(i)
    <3>1. PICK d \in Deleted(mem, got) : mem[d].id = i
      BY <2>1 DEF gone
    <3>2. mem[d] # NoEntry /\ d \in Key /\ d \notin Ids(got)
      BY <3>1 DEF Deleted
    <3>3. d \in Name
      BY <1>a, <3>1, <3>2 DEF Filed, Key
    <3> QED  BY <1>9, <3>1, <3>2, <3>3 DEF Known
  <2>2. CASE ~(strategy = "full" /\ gone(i))
    <3>1. mem'[i] # NoEntry /\ mem'[i].id = i
      BY <1>1, <1>2, <1>3, <1>a, <1>u, <2>0, <2>2 DEF Filed
    <3> QED  BY <2>0, <3>1 DEF Known
  <2> QED  BY <2>1, <2>2
<1>11. StrategyKept'
  <2>1. strategy = "add-only" => \A k \in Key : file[k] \in {NoEntry, mem'[k]}
    BY <1>3, <1>a
  <2>2. strategy = "update" => \A k \in Key : file[k] # NoEntry => mem'[k] # NoEntry
    BY <1>1, <1>2, <1>3, <1>a, <1>u
  <2>3. ASSUME strategy # "add-only", NEW i \in Ids(got), mem'[i] # NoEntry
        PROVE  \E t \in seen' : Agrees(mem'[i], t)
    <3>1. i \in Key /\ (mem'[i] = new(i) \/ (mem[i] # NoEntry /\ mem'[i] = fresh(i)))
      BY <1>1, <1>3, <2>3 DEF Key
    <3>2. new(i) \in seen'
      BY <1>0, <1>2, <1>a DEF Witnessed, Found
    <3>3. Agrees(mem'[i], new(i))
      BY <1>u, <3>1 DEF Agrees
    <3> QED  BY <3>2, <3>3
  <2>6. ASSUME strategy = "full", NEW i \in Id, mem'[i] # NoEntry, i \notin Ids(got)
        PROVE  FALSE
    <3>1. i \in Key /\ ~gone(i)
      BY <1>3, <2>6 DEF Key
    <3>2. mem'[i] = mem[i] /\ mem[i] # NoEntry /\ mem[i].id = i
      BY <1>3, <1>a, <2>6, <3>1 DEF Filed
    <3>3. i \in Deleted(mem, got)
      BY <2>6, <3>1, <3>2 DEF Deleted
    <3> QED  BY <3>1, <3>2, <3>3 DEF gone
  <2>4. \A x : Known(mem, x)' = Known(mem', x)
    BY DEF Known
  <2>5. Ids(got)' = Ids(got) /\ Found(got)' = Found(got)
    BY <1>0 DEF Ids, Found
  <2> QED  BY <1>0, <1>10, <1>a, <2>1, <2>2, <2>3, <2>4, <2>5, <2>6 DEF StrategyKept
<1>12. LivingStaysKnown'
  <2> SUFFICES ASSUME failed = {}, NEW i \in throughout PROVE Known(mem', i)
    BY <1>0 DEF LivingStaysKnown, Known
  <2>1. ~Coming(i)
    <3>1. \A c \in Category : next[c] > Len(Calls[c]) /\ next[c] \in Nat
      BY <1>a DEF Counted
    <3>2. \A c \in Category : DOMAIN Calls[c] = 1..Len(Calls[c]) /\ Len(Calls[c]) \in Nat
      OBVIOUS
    <3> QED  BY <3>1, <3>2 DEF Coming
  <2> QED  BY <1>10, <1>a, <2>1 DEF Pending
<1>13. TypeOK'
  BY <1>0, <1>7, <1>a DEF TypeOK
<1>14. Received' = Received
  BY <1>0 DEF Received
<1>15. Idle' /\ Phased' /\ Sorted' /\ Filed(file)'
  BY <1>0, <1>14, <1>a DEF Idle, Phased, Sorted, Filed
<1>16. Counted' /\ Latest' /\ Pending' /\ Witnessed'
  BY <1>0, <1>14, <1>a DEF Counted, Latest, Last, Pending, Witnessed, Coming, Ids, Found
<1> QED  BY <1>8, <1>11, <1>12, <1>13, <1>15, <1>16 DEF IInv, Discovery

\* What a sync held is gone with it, saved or not.
LEMMA EndStep ==
  ASSUME IInv, End, cloud' = cloud, events' = events, file' \in {mem, file}
  PROVE  IInv'
<1>0. /\ pc' = "idle" /\ strategy' = "full" /\ mem' = [k \in Key |-> NoEntry]
      /\ throughout' = {} /\ seen' = {}
      /\ next' = [c \in Category |-> 1] /\ got' = [c \in Category |-> {}]
      /\ rank' = [c \in Category |-> 0] /\ failed' = {}
  BY DEF End
<1>1. TypeOK'
  BY <1>0, ReceivedFinite DEF IInv, Discovery, TypeOK, Documents, Strategies
<1>2. Received' = {}
  BY <1>0 DEF Received
<1>3. Filed(file)' /\ Filed(mem)'
  BY <1>0 DEF IInv, Discovery, Filed, Key
<1>4. Idle' /\ Phased' /\ Sorted' /\ Pending' /\ Witnessed'
  BY <1>0 DEF Idle, Phased, Sorted, Pending, Witnessed
<1>5. Counted' /\ Latest'
  BY <1>0, <1>2 DEF Counted, Latest
<1>6. LivingStaysKnown' /\ StrategyKept'
  BY <1>0 DEF LivingStaysKnown, StrategyKept
<1> QED  BY <1>1, <1>3, <1>4, <1>5, <1>6 DEF IInv, Discovery

\* The order the categories come in is no matter when no two resources share an ID.
LEMMA DiscoveryIsOrderFree == Discovery => OrderFree
<1> SUFFICES ASSUME Discovery, pc = "listed", Distinct,
                    NEW r \in [Category -> 1..Cardinality(Category)]
             PROVE  Merged(mem, strategy, got, r) = Merged(mem, strategy, got, rank)
  BY DEF OrderFree
<1>1. /\ mem \in Documents /\ strategy \in Strategies
      /\ r \in [Category -> Nat] /\ rank \in [Category -> Nat]
  BY ReceivedFinite DEF Discovery, TypeOK
<1>2. ASSUME NEW k \in Ids(got)
      PROVE  DiscoveredIndex(k, got, r) = DiscoveredIndex(k, got, rank)
  <2>1. PICK t \in Found(got) : t.id = k
    BY DEF Ids
  <2>2. DiscoveredIndex(k, got, r) = t
    BY <1>1, <2>1, IndexedAlike
  <2>3. DiscoveredIndex(k, got, rank) = t
    BY <1>1, <2>1, IndexedAlike
  <2> QED  BY <2>2, <2>3
<1>3. ASSUME NEW k \in Key
      PROVE  Merged(mem, strategy, got, r)[k] = Merged(mem, strategy, got, rank)[k]
  <2> DEFINE gone == \E d \in Deleted(mem, got) : mem[d].id = k
  <2>1. Merged(mem, strategy, got, r)[k] =
          IF strategy = "full" /\ gone THEN NoEntry
          ELSE IF k \in Ids(got) /\ mem[k] = NoEntry THEN DiscoveredIndex(k, got, r)
          ELSE IF k \in Ids(got) /\ strategy # "add-only"
               THEN UpdateResourceFromDiscovered(mem[k], DiscoveredIndex(k, got, r)) ELSE mem[k]
    BY <1>1, MergedEntries
  <2>2. Merged(mem, strategy, got, rank)[k] =
          IF strategy = "full" /\ gone THEN NoEntry
          ELSE IF k \in Ids(got) /\ mem[k] = NoEntry THEN DiscoveredIndex(k, got, rank)
          ELSE IF k \in Ids(got) /\ strategy # "add-only"
               THEN UpdateResourceFromDiscovered(mem[k], DiscoveredIndex(k, got, rank)) ELSE mem[k]
    BY <1>1, MergedEntries
  <2> HIDE DEF gone
  <2> QED  BY <1>2, <2>1, <2>2
<1> DEFINE R == Merged(mem, strategy, got, r)
           Q == Merged(mem, strategy, got, rank)
<1>4. R = [k \in Key |-> R[k]] /\ Q = [k \in Key |-> Q[k]]
  BY <1>1, MergedKeys
<1>5. \A k \in Key : R[k] = Q[k]
  BY <1>3
<1> HIDE DEF R, Q
<1>6. R = Q
  BY <1>4, <1>5
<1> QED  BY <1>6 DEF R, Q

-----------------------------------------------------------------------------
(* The theorems.                                                           *)

\* The invariant holds at every moment of every sync.
THEOREM Invariance == Spec => []IInv
<1>1. Init => IInv
  BY Starts
<1>2. IInv /\ [Next]_vars => IInv'
  <2> SUFFICES ASSUME IInv, [Next]_vars PROVE IInv'
    OBVIOUS
  <2>1. ASSUME NEW n \in Name, NEW i \in Id, Create(n, i) PROVE IInv'
    BY <2>1, CreateStep
  <2>2. ASSUME NEW t \in cloud, Change(t) PROVE IInv'
    BY <2>2, ChangeStep
  <2>3. ASSUME NEW t \in cloud, Destroy(t) PROVE IInv'
    BY <2>3, DestroyStep
  <2>4. ASSUME NEW t \in cloud, Record(t) PROVE IInv'
    <3>1. t \in Thing
      BY DEF IInv, Discovery, TypeOK
    <3>2. t.name \in Name
      BY <3>1 DEF Thing
    <3> QED  BY <2>4, <3>1, <3>2, DocumentChanges DEF Record
  <2>5. ASSUME NEW n \in Name, RemoveResource(n) PROVE IInv'
    BY <2>5, DocumentChanges DEF RemoveResource
  <2>6. ASSUME NEW s \in Strategies, Begin(s) PROVE IInv'
    BY <2>6, BeginStep
  <2>7. ASSUME NEW c \in Category, Discover(c) PROVE IInv'
    BY <2>7, DiscoverStep
  <2>8. ASSUME NEW c \in Category, Receive(c) PROVE IInv'
    BY <2>8, ReceiveStep
  <2>9. CASE Merge
    BY <2>9, MergeStep
  <2>10. CASE DryRun
    BY <2>10, EndStep DEF DryRun
  <2>11. CASE Save
    BY <2>11, EndStep DEF Save
  <2>12. CASE UNCHANGED vars
    <3>1. /\ file' = file /\ UNCHANGED sync /\ cloud' = cloud
          /\ events' = events /\ throughout' = throughout /\ seen' = seen
      BY <2>12 DEF vars, sync, results
    <3>2. /\ Pending' /\ cloud \subseteq Thing /\ seen \subseteq Thing /\ events \in 0..MaxEvents
          /\ pc # "idle" => cloud \subseteq seen
      BY <2>12 DEF vars, IInv, Discovery, TypeOK, Pending, Witnessed, Coming, Ids, Found
    <3> QED  BY <3>1, <3>2, CloudChanges
  <2> QED  BY <2>1, <2>2, <2>3, <2>4, <2>5, <2>6, <2>7, <2>8, <2>9, <2>10, <2>11, <2>12 DEF Next
<1> QED  BY <1>1, <1>2, PTL DEF Spec

\* The documents hold entries only, and a sync no more than it can discover.
THEOREM Typing == Spec => []TypeOK
<1>1. IInv => TypeOK
  BY DEF IInv, Discovery
<1> QED  BY <1>1, Invariance, PTL

\* A sync whose listings were all answered does not forget what existed all
\* the time, whatever was changed, created or destroyed between two listings.
THEOREM TheLivingStay == Spec => []LivingStaysKnown
<1>1. IInv => LivingStaysKnown
  BY DEF IInv
<1> QED  BY <1>1, Invariance, PTL

\* What is listed is known, add-only changes nothing, update removes nothing,
\* what either of the others leaves under a listed ID was so during the sync, and
\* full forgets what was not listed under its ID.
THEOREM StrategiesKeepTheirWord == Spec => []StrategyKept
<1>1. IInv => StrategyKept
  BY DEF IInv
<1> QED  BY <1>1, Invariance, PTL

\* The goroutines may finish in any order, as long as no two of the resources
\* they discovered have the same ID.
THEOREM OrderIsNoMatter == Spec => []OrderFree
<1>1. IInv => OrderFree
  BY DiscoveryIsOrderFree DEF IInv
<1> QED  BY <1>1, Invariance, PTL
=============================================================================
