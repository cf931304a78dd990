--------------------------- MODULE ReconcilersProofs ---------------------------
(***************************************************************************)
(* Theorems of Reconcilers: its types, that the finalizer holds a tenant   *)
(* back for as long as a Redis exists that a list of it has shown, and     *)
(* that a child that is taken over only ever gets a later owner.           *)
(***************************************************************************)
EXTENDS Reconcilers, FiniteSetTheorems, SequenceTheorems, TLAPS

-----------------------------------------------------------------------------
(***************************************************************************)
(* Constants.                                                              *)
(***************************************************************************)
Values(kind) == Objects(kind) \cup {Absent}

LEMMA KindFacts ==
  /\ "Redis" \in Kinds /\ "Tenant" \in Kinds /\ Children \subseteq Kinds
  /\ "Redis" \notin Children /\ "Tenant" \notin Children
  /\ Objects("Redis") = RedisObjects
  /\ Objects("Tenant") = TenantObjects
  /\ \A c \in Children : Objects(c) = ChildObjects
  /\ \A kind \in Kinds : Absent \notin Objects(kind)
<1>1. "Redis" \notin Children /\ "Tenant" \notin Children
  BY ReconcilersAssumption
<1>2. Objects("Redis") = RedisObjects
  BY <1>1 DEF Objects
<1>3. Objects("Tenant") = TenantObjects
  BY <1>1 DEF Objects
<1>4. \A c \in Children : Objects(c) = ChildObjects
  BY <1>1 DEF Objects
<1>5. \A kind \in Kinds : Absent \notin Objects(kind)
  BY <1>2, <1>3, <1>4, AbsentAssumption DEF Kinds
<1> QED  BY <1>1, <1>2, <1>3, <1>4, <1>5 DEF Kinds

LEMMA KeyFacts ==
  /\ Redises \subseteq Keys /\ Tenant \in Keys /\ Tenant \notin Redises
  /\ Keys = Redises \cup {Tenant}
  /\ IsFiniteSet(Keys)
BY ReconcilersAssumption, FS_AddElement DEF Keys

LEMMA CountsAreTyped ==
  /\ Cardinality(Redises) \in Nat
  /\ \A S \in SUBSET Redises : /\ Cardinality(S) \in 0 .. Cardinality(Redises)
                               /\ Cardinality(S) = 0 <=> S = {}
<1>1. Cardinality(Redises) \in Nat
  BY ReconcilersAssumption, FS_CardinalityType
<1>2. ASSUME NEW S \in SUBSET Redises
      PROVE  /\ Cardinality(S) \in 0 .. Cardinality(Redises)
             /\ Cardinality(S) = 0 <=> S = {}
  <2>1. IsFiniteSet(S) /\ Cardinality(S) <= Cardinality(Redises)
    BY ReconcilersAssumption, FS_Subset
  <2>2. Cardinality(S) \in Nat
    BY <2>1, FS_CardinalityType
  <2> QED  BY <1>1, <2>1, <2>2, FS_EmptySet
<1> QED  BY <1>1, <1>2

\* What SetToSeq returns: a sequence of the elements of a finite set, and all of them.
LEMMA SetToSeqElements ==
  ASSUME NEW S, IsFiniteSet(S)
  PROVE  /\ SetToSeq(S) \in Seq(S)
         /\ \A x \in S : \E i \in 1 .. Len(SetToSeq(S)) : SetToSeq(S)[i] = x
<1> DEFINE n == Cardinality(S)
           f == SetToSeq(S)
<1>1. n \in Nat /\ ExistsBijection(1 .. n, S)
  BY FS_CardinalityType
<1>2. PICK g : g \in Bijection(1 .. n, S)
  BY <1>1 DEF ExistsBijection
<1>3. g \in [1 .. n -> S] /\ IsInjective(g)
  BY <1>2 DEF Bijection, Injection
<1>4. f \in [1 .. n -> S] /\ IsInjective(f)
  BY <1>3 DEF SetToSeq
<1>5. f \in Injection(1 .. n, S)
  BY <1>4 DEF Injection
<1>6. IsFiniteSet(1 .. n) /\ Cardinality(1 .. n) = n
  BY <1>1, FS_Interval
<1>7. f \in Surjection(1 .. n, S)
  BY <1>5, <1>6, FS_Injection
<1>8. f \in Seq(S) /\ Len(f) = n
  BY <1>1, <1>4
<1> QED  BY <1>7, <1>8 DEF Surjection

-----------------------------------------------------------------------------
(***************************************************************************)
(* The invariant of the types.  A write to the API server is made with the *)
(* object it has (PutStatus) or with a copy of one, so that the types need *)
(* the optimistic lock: a copy not marked stale is the current object      *)
(* (Current).  This in turn needs that a cache no changed event is under   *)
(* way to is up to date (InOrder), which Behind reads off the stream.      *)
(***************************************************************************)
Everything == UNION {Values(kind) : kind \in Kinds}
Events == [key : Keys, object : Everything, changed : BOOLEAN]

DataTypes ==
  /\ api \in [Kinds -> [Keys -> Everything]]
  /\ cached \in [Kinds -> [Keys -> Everything]]
  /\ watch \in [Kinds -> Seq(Events)]
  /\ \A kind \in Kinds :
       /\ \A k \in Keys : /\ api[kind][k] \in Values(kind)
                          /\ cached[kind][k] \in Values(kind)
       /\ \A i \in 1 .. Len(watch[kind]) : watch[kind][i].object \in Values(kind)

WorkRecords(places, objects) ==
  [at : {"idle"} \cup places, obj : objects \cup {Absent}, stale : BOOLEAN,
   todo : SUBSET Children, ready : BOOLEAN, failed : BOOLEAN, again : BOOLEAN]
RedisWork  == WorkRecords({"children"}, RedisObjects)
TenantWork == WorkRecords({"list", "update"}, TenantObjects)

WorkTypes ==
  /\ work \in [Keys -> RedisWork \cup TenantWork]
  /\ \A r \in Redises : work[r] \in RedisWork
  /\ work[Tenant] \in TenantWork
  /\ \A k \in Keys : work[k].at # "idle" => work[k].obj # Absent

QueueTypes == pending \subseteq Keys /\ delayed \subseteq Keys

TakenTypes == takenOver \subseteq Children \X Redises

NoneAfter(kind, k, n) ==
  \A i \in 1 .. Len(watch[kind]) :
     i > n /\ watch[kind][i].key = k => ~watch[kind][i].changed

InOrder ==
  \A kind \in Kinds, k \in Keys :
     /\ NoneAfter(kind, k, 0) => cached[kind][k] = api[kind][k]
     /\ \A n \in 1 .. Len(watch[kind]) :
          watch[kind][n].key = k /\ NoneAfter(kind, k, n)
            => watch[kind][n].object = api[kind][k]

Current ==
  \A r \in Redises :
     work[r].at = "children" /\ ~work[r].stale => api["Redis"][r] = work[r].obj

TypeInv == /\ DataTypes
           /\ WorkTypes
           /\ QueueTypes
           /\ TakenTypes
           /\ edits \in 0 .. MaxEdits
           /\ InOrder
           /\ Current

-----------------------------------------------------------------------------
(***************************************************************************)
(* What a step does to the API server, the streams and the caches.         *)
(***************************************************************************)
Still == UNCHANGED <<api, watch, cached, takenOver>>

Delivers(kind) ==
  /\ watch[kind] # <<>>
  /\ cached' = [cached EXCEPT ![kind][Head(watch[kind]).key] = Head(watch[kind]).object]
  /\ watch' = [watch EXCEPT ![kind] = Tail(@)]
  /\ UNCHANGED <<api, takenOver>>

\* new: events that list the objects there are, and every key that lost one.
Lists(kind, n, new) ==
  /\ \A i \in 1 .. Len(new) : new[i].object = api[kind][new[i].key]
  /\ \A j \in 1 .. Len(watch[kind]) :
       j > n => \E i \in 1 .. Len(new) : new[i].key = watch[kind][j].key /\ new[i].changed

Relists(kind) ==
  /\ \E n \in 0 .. Len(watch[kind]), new \in Seq(Events) :
       /\ Lists(kind, n, new)
       /\ watch' = [watch EXCEPT ![kind] = SubSeq(watch[kind], 1, n) \o new]
  /\ UNCHANGED <<api, cached, takenOver>>

Restarts ==
  /\ cached' = api
  /\ watch' = [kind \in Kinds |-> <<>>]
  /\ UNCHANGED <<api, takenOver>>

\* The identity of a Redis never changes, and is never used again.
MayPutRedis(r, object) ==
  /\ r \in Redises
  /\ work'[r].at = "idle" \/ work'[r].stale
  /\ \/ object = Absent
     \/ Exists("Redis", r) /\ object # Absent /\ object.uid = api["Redis"][r].uid
     \/ ~Exists("Redis", r) /\ object # Absent /\ object.uid = edits' /\ edits' = edits + 1

\* A child keeps its owner, or gets the Redis that is being reconciled.
MayPutChild(c, k, object) ==
  /\ k \in Redises
  /\ \/ object = Absent
     \/ Exists(c, k) /\ object.owner = api[c][k].owner
     \/ work[k].at = "children" /\ object.owner = work[k].obj.uid

Frees(object) == /\ Exists("Tenant", Tenant) /\ api["Tenant"][Tenant].finalizer
                 /\ object = Absent \/ ~object.finalizer

MayPutTenant(k, object) ==
  /\ k = Tenant
  /\ Frees(object) => work[Tenant].at = "update" /\ ~work[Tenant].obj.finalizer

Writes(kind, k, object) ==
  /\ object \in Values(kind)
  /\ Put(kind, k, object)
  /\ UNCHANGED cached
  /\ kind = "Redis" => MayPutRedis(k, object)
  /\ kind \in Children => MayPutChild(kind, k, object)
  /\ kind = "Tenant" => MayPutTenant(k, object)

DataStep ==
  \/ Still
  \/ Restarts
  \/ \E kind \in Kinds : Delivers(kind) \/ Relists(kind)
  \/ \E kind \in Kinds, k \in Keys : \E object \in Values(kind) : Writes(kind, k, object)

LEMMA WriteIsDataStep ==
  ASSUME NEW kind \in Kinds, NEW k \in Keys, NEW object \in Values(kind),
         Writes(kind, k, object)
  PROVE  DataStep
BY DEF DataStep

LEMMA WritesRedis ==
  ASSUME NEW r \in Redises, NEW object \in RedisObjects \cup {Absent},
         Put("Redis", r, object), cached' = cached, MayPutRedis(r, object)
  PROVE  DataStep
<1>1. Writes("Redis", r, object)
  BY KindFacts DEF Writes, Values
<1> QED  BY <1>1, KindFacts, KeyFacts, WriteIsDataStep DEF Values

LEMMA WritesChild ==
  ASSUME NEW c \in Children, NEW r \in Redises, NEW object \in ChildObjects \cup {Absent},
         Put(c, r, object), cached' = cached, MayPutChild(c, r, object)
  PROVE  DataStep
<1>1. Writes(c, r, object)
  BY KindFacts DEF Writes, Values
<1> QED  BY <1>1, KindFacts, KeyFacts, WriteIsDataStep DEF Values

LEMMA WritesTenant ==
  ASSUME NEW object \in TenantObjects \cup {Absent},
         Put("Tenant", Tenant, object), cached' = cached, MayPutTenant(Tenant, object)
  PROVE  DataStep
<1>1. Writes("Tenant", Tenant, object)
  BY KindFacts DEF Writes, Values
<1> QED  BY <1>1, KindFacts, KeyFacts, WriteIsDataStep DEF Values

\* What the types say of the objects of each kind.
LEMMA ObjectTypes ==
  ASSUME TypeInv
  PROVE  /\ \A r \in Redises : Exists("Redis", r) => api["Redis"][r] \in RedisObjects
         /\ \A c \in Children, r \in Redises : Exists(c, r) => api[c][r] \in ChildObjects
         /\ Exists("Tenant", Tenant) => api["Tenant"][Tenant] \in TenantObjects
         /\ \A r \in Redises : work[r].at = "children" => work[r].obj \in RedisObjects
         /\ work[Tenant].at # "idle" => work[Tenant].obj \in TenantObjects
<1>1. \A kind \in Kinds, k \in Keys : Exists(kind, k) => api[kind][k] \in Objects(kind)
  BY DEF TypeInv, DataTypes, Values, Exists
<1>2. \A r \in Redises : work[r].at = "children" => work[r].obj \in RedisObjects
  BY KeyFacts DEF TypeInv, WorkTypes, RedisWork, WorkRecords
<1>3. work[Tenant].at # "idle" => work[Tenant].obj \in TenantObjects
  BY KeyFacts DEF TypeInv, WorkTypes, TenantWork, WorkRecords
<1> QED  BY <1>1, <1>2, <1>3, KindFacts, KeyFacts

-----------------------------------------------------------------------------
(***************************************************************************)
(* Every step is one of these.                                             *)
(***************************************************************************)
LEMMA ReconcileWrites ==
  ASSUME TypeInv, NEW r \in Redises, NEW c \in Children,
         Create(r, c) \/ Patch(r, c) \/ WriteFails(r, c)
  PROVE  DataStep
<1>1. /\ work[r].obj \in RedisObjects /\ ImageOf(r, c) \in Images
      /\ work[r].at = "children"
  BY ObjectTypes DEF Create, Patch, WriteFails, Working, ImageOf, RedisObjects, Images
<1>2. NewChild(r, c) \in ChildObjects /\ NewChild(r, c).owner = work[r].obj.uid
  BY <1>1 DEF NewChild, ChildObjects, RedisObjects
<1>3. CASE ~Exists(c, r) /\ Put(c, r, NewChild(r, c)) /\ cached' = cached
  BY <1>1, <1>2, <1>3, WritesChild DEF MayPutChild
<1>4. CASE Exists(c, r) /\ Put(c, r, Patched(r, c)) /\ cached' = cached
  <2>1. api[c][r] \in ChildObjects
    BY <1>4, ObjectTypes
  <2>2. /\ Patched(r, c) \in ChildObjects
        /\ \/ Patched(r, c).owner = api[c][r].owner
           \/ Patched(r, c).owner = work[r].obj.uid
    BY <1>1, <2>1 DEF Patched, ChildObjects, RedisObjects
  <2>3. MayPutChild(c, r, Patched(r, c))
    BY <1>1, <1>4, <2>2 DEF MayPutChild
  <2> QED  BY <1>4, <2>2, <2>3, WritesChild
<1>5. CASE UNCHANGED <<cluster, cached>>
  BY <1>5 DEF DataStep, Still, cluster
<1> QED  BY <1>3, <1>4, <1>5 DEF Create, Patch, WriteFails

LEMMA StatusWrites ==
  ASSUME TypeInv, NEW r \in Redises, UpdateStatus(r)
  PROVE  DataStep
<1>1. CASE UNCHANGED cluster
  BY <1>1 DEF UpdateStatus, DataStep, Still, cluster
<1>2. CASE Accepted(r) /\ PutStatus(r)
  <2>1. work[r].at = "children" /\ work[r].obj \in RedisObjects
    BY ObjectTypes DEF UpdateStatus, AllWritten
  <2>2. api["Redis"][r] = work[r].obj
    BY <1>2, <2>1 DEF TypeInv, Current, Accepted
  <2>3. Exists("Redis", r)
    BY <1>2 DEF Accepted
  <2> DEFINE object == [api["Redis"][r] EXCEPT !.ready = WantedReady(r)]
  <2>4. object \in RedisObjects /\ object.uid = api["Redis"][r].uid
    BY <2>1, <2>2 DEF RedisObjects, WantedReady
  <2>5. work'[r].at = "idle"
    BY KeyFacts DEF UpdateStatus, End, Idle, TypeInv, WorkTypes
  <2>6. object # Absent
    BY <2>4, AbsentAssumption
  <2>7. MayPutRedis(r, object)
    BY <2>3, <2>4, <2>5, <2>6 DEF MayPutRedis
  <2>8. Put("Redis", r, object) /\ cached' = cached
    BY <1>2 DEF PutStatus, UpdateStatus
  <2> QED  BY <2>4, <2>7, <2>8, WritesRedis
<1> QED  BY <1>1, <1>2 DEF UpdateStatus

LEMMA TenantWrites ==
  ASSUME TypeInv, UpdateTenant
  PROVE  DataStep
<1>1. CASE UNCHANGED cluster
  BY <1>1 DEF UpdateTenant, DataStep, Still, cluster
<1>2. CASE PutTenant
  <2> DEFINE tenant == work[Tenant].obj
             object == IF tenant.deleting /\ ~tenant.finalizer THEN Absent ELSE tenant
  <2>1. work[Tenant].at = "update" /\ tenant \in TenantObjects
    BY ObjectTypes DEF UpdateTenant
  <2>2. object \in TenantObjects \cup {Absent}
    BY <2>1
  <2>3. MayPutTenant(Tenant, object)
    <3>1. tenant # Absent
      BY <2>1, AbsentAssumption
    <3>2. object = Absent \/ ~object.finalizer => ~tenant.finalizer
      BY <3>1
    <3> QED  BY <2>1, <3>2 DEF MayPutTenant, Frees
  <2>4. Put("Tenant", Tenant, object) /\ cached' = cached
    BY <1>2 DEF PutTenant, UpdateTenant
  <2> QED  BY <2>2, <2>3, <2>4, WritesTenant
<1> QED  BY <1>1, <1>2 DEF UpdateTenant

\* A copy in use is stale, or nobody uses one.
LEMMA Outdated ==
  ASSUME TypeInv, NEW k \in Keys, Outdate(k)
  PROVE  work'[k].at = "idle" \/ work'[k].stale
BY DEF Outdate, TypeInv, WorkTypes, RedisWork, TenantWork, WorkRecords

LEMMA UserWritesRedis ==
  ASSUME TypeInv, NEW r \in Redises,
         CreateRedis(r) \/ EditImage(r) \/ TogglePause(r) \/ DeleteRedis(r) \/ FinishDeletion(r)
  PROVE  DataStep
<1>1. /\ Outdate(r) /\ cached' = cached
      /\ work'[r].at = "idle" \/ work'[r].stale
  BY Outdated, KeyFacts
     DEF CreateRedis, EditImage, TogglePause, DeleteRedis, FinishDeletion, Edit
<1>2. CASE CreateRedis(r)
  <2>1. PICK paused \in BOOLEAN : Put("Redis", r, NewRedis(edits', paused))
    <3>1. {FALSE, "pause" \in UserOps} \subseteq BOOLEAN
      OBVIOUS
    <3> QED  BY <1>2, <3>1 DEF CreateRedis
  <2>2. edits' \in Uids /\ edits' = edits + 1
    BY <1>2, ReconcilersAssumption DEF CreateRedis, Edit, TypeInv, Uids
  <2>3. NewRedis(edits', paused) \in RedisObjects /\ NewRedis(edits', paused).uid = edits'
    BY <2>2 DEF NewRedis, RedisObjects, Images
  <2>4. MayPutRedis(r, NewRedis(edits', paused))
    BY <1>1, <1>2, <2>2, <2>3, AbsentAssumption DEF MayPutRedis, CreateRedis
  <2> QED  BY <1>1, <2>1, <2>3, <2>4, WritesRedis
<1>3. ASSUME NEW object \in RedisObjects, Exists("Redis", r),
             object.uid = api["Redis"][r].uid, Put("Redis", r, object)
      PROVE  DataStep
  <2>1. MayPutRedis(r, object)
    BY <1>1, <1>3, AbsentAssumption DEF MayPutRedis
  <2> QED  BY <1>1, <1>3, <2>1, WritesRedis
<1>4. CASE Put("Redis", r, Absent)
  BY <1>1, <1>4, WritesRedis DEF MayPutRedis
<1>5. CASE EditImage(r)
  <2>1. PICK image \in Images :
          Put("Redis", r, [api["Redis"][r] EXCEPT !.image = image])
    BY <1>5 DEF EditImage
  <2>2. Exists("Redis", r) /\ api["Redis"][r] \in RedisObjects
    BY <1>5, ObjectTypes DEF EditImage
  <2> QED  BY <1>3, <2>1, <2>2 DEF RedisObjects
<1>6. CASE TogglePause(r)
  <2>1. Exists("Redis", r) /\ api["Redis"][r] \in RedisObjects
    BY <1>6, ObjectTypes DEF TogglePause
  <2>2. Put("Redis", r, [api["Redis"][r] EXCEPT !.paused = ~@])
    BY <1>6 DEF TogglePause
  <2> QED  BY <1>3, <2>1, <2>2 DEF RedisObjects
<1>7. CASE DeleteRedis(r)
  <2>1. Exists("Redis", r) /\ api["Redis"][r] \in RedisObjects
    BY <1>7, ObjectTypes DEF DeleteRedis
  <2>2. CASE Put("Redis", r, [api["Redis"][r] EXCEPT !.deleting = TRUE])
    BY <1>3, <2>1, <2>2 DEF RedisObjects
  <2> QED  BY <1>4, <1>7, <2>2 DEF DeleteRedis
<1>8. CASE FinishDeletion(r)
  BY <1>4, <1>8 DEF FinishDeletion
<1> QED  BY <1>2, <1>5, <1>6, <1>7, <1>8

LEMMA UserWritesTenant ==
  ASSUME TypeInv, CreateTenant \/ DeleteTenant
  PROVE  DataStep
<1>1. CASE CreateTenant
  <2>1. NewTenant \in TenantObjects
    BY CountsAreTyped DEF NewTenant, TenantObjects
  <2>2. MayPutTenant(Tenant, NewTenant)
    BY <1>1 DEF MayPutTenant, Frees, CreateTenant
  <2> QED  BY <1>1, <2>1, <2>2, WritesTenant DEF CreateTenant, Edit
<1>2. CASE DeleteTenant
  <2> DEFINE tenant == api["Tenant"][Tenant]
             object == IF tenant.finalizer THEN [tenant EXCEPT !.deleting = TRUE] ELSE Absent
  <2>1. tenant \in TenantObjects
    BY <1>2, ObjectTypes DEF DeleteTenant
  <2>2. object \in TenantObjects \cup {Absent}
    BY <2>1 DEF TenantObjects
  <2>3. MayPutTenant(Tenant, object)
    <3>1. CASE tenant.finalizer
      <4>1. object = [tenant EXCEPT !.deleting = TRUE]
        BY <3>1
      <4>2. object.finalizer /\ object # Absent
        BY <2>1, <3>1, <4>1, <2>2, AbsentAssumption DEF TenantObjects
      <4> QED  BY <4>2 DEF MayPutTenant, Frees
    <3>2. CASE ~tenant.finalizer
      BY <3>2 DEF MayPutTenant, Frees
    <3> QED  BY <3>1, <3>2
  <2>4. Put("Tenant", Tenant, object) /\ cached' = cached
    BY <1>2 DEF DeleteTenant, Edit
  <2> QED  BY <2>2, <2>3, <2>4, WritesTenant
<1> QED  BY <1>1, <1>2

LEMMA ChildWrites ==
  ASSUME TypeInv, NEW r \in Redises,
         \/ \E c \in Children : DeleteChild(r, c) \/ CollectChild(r, c) \/ CollectLate(r, c)
         \/ PodsProgress(r) \/ PodFails(r)
  PROVE  DataStep
<1>1. ASSUME NEW c \in Children, DeleteChild(r, c) \/ CollectChild(r, c) \/ CollectLate(r, c)
      PROVE  DataStep
  <2>1. Put(c, r, Absent) /\ cached' = cached
    BY <1>1 DEF DeleteChild, CollectChild, CollectLate, Edit
  <2> QED  BY <2>1, WritesChild DEF MayPutChild
<1>2. ASSUME NEW from \in {"none", "starting", "ready"},
             NEW to \in {"none", "starting", "ready"}, Pods(r, from, to)
      PROVE  DataStep
  <2> DEFINE object == [api["StatefulSet"][r] EXCEPT !.pods = to]
  <2>1. "StatefulSet" \in Children /\ api["StatefulSet"][r] \in ChildObjects
    BY <1>2, ObjectTypes DEF Pods
  <2>2. object \in ChildObjects /\ object.owner = api["StatefulSet"][r].owner
    BY <2>1 DEF ChildObjects
  <2>3. Put("StatefulSet", r, object) /\ cached' = cached /\ Exists("StatefulSet", r)
    BY <1>2 DEF Pods
  <2>4. MayPutChild("StatefulSet", r, object)
    BY <2>2, <2>3 DEF MayPutChild
  <2> QED  BY <2>1, <2>2, <2>3, <2>4, WritesChild
<1> QED  BY <1>1, <1>2 DEF PodsProgress, PodFails

\* Breaking a watch and listing the kind again, as Relists has it.
LEMMA ListsWhatThereIs ==
  ASSUME TypeInv, NEW kind \in Kinds, Relist(kind)
  PROVE  Relists(kind)
<1> DEFINE s == watch[kind]
<1>1. PICK n \in 0 .. Len(s) :
        LET kept    == SubSeq(s, 1, n)
            lost    == {e.key : e \in ToSet(SubSeq(s, n + 1, Len(s)))}
            listing == {[key |-> k, object |-> api[kind][k], changed |-> k \in lost] :
                          k \in lost \cup {k \in Keys : Exists(kind, k)}}
        IN  watch' = [watch EXCEPT ![kind] = kept \o SetToSeq(listing)]
  BY DEF Relist
<1> DEFINE rest    == SubSeq(s, n + 1, Len(s))
           lost    == {e.key : e \in ToSet(rest)}
           event   == [k \in Keys |->
                         [key |-> k, object |-> api[kind][k], changed |-> k \in lost]]
           keys    == lost \cup {k \in Keys : Exists(kind, k)}
           listing == {event[k] : k \in keys}
           new     == SetToSeq(listing)
<1>2. s \in Seq(Events) /\ Len(s) \in Nat
  BY DEF TypeInv, DataTypes
<1>3. /\ rest \in Seq(Events)
      /\ \A j \in 1 .. Len(s) : j > n => \E i \in DOMAIN rest : rest[i] = s[j]
  <2>1. \A i \in n + 1 .. Len(s) : s[i] \in Events
    BY <1>2, ElementOfSeq
  <2>2. /\ rest \in Seq(Events)
        /\ Len(rest) = IF n + 1 <= Len(s) THEN Len(s) - (n + 1) + 1 ELSE 0
        /\ \A i \in 1 .. Len(s) - (n + 1) + 1 : rest[i] = s[n + 1 + i - 1]
    BY <1>2, <2>1, SubSeqProperties
  <2>3. ASSUME NEW j \in 1 .. Len(s), j > n
        PROVE  \E i \in DOMAIN rest : rest[i] = s[j]
    <3>1. j - n \in 1 .. Len(rest) /\ rest[j - n] = s[j]
      BY <1>2, <2>2, <2>3
    <3>2. DOMAIN rest = 1 .. Len(rest)
      BY <2>2, LenProperties
    <3> QED  BY <3>1, <3>2
  <2> QED  BY <2>2, <2>3
<1>4. /\ \A e \in ToSet(rest) : e \in Events
      /\ \A j \in 1 .. Len(s) : j > n => s[j] \in ToSet(rest)
  <2> HIDE DEF rest, s
  <2>1. \A i \in DOMAIN rest : rest[i] \in Events
    BY <1>3, LenProperties, ElementOfSeq
  <2> QED  BY <1>3, <2>1 DEF ToSet
<1>5. lost \subseteq Keys
  BY <1>4 DEF Events
<1>6. keys \subseteq Keys /\ IsFiniteSet(keys)
  BY <1>5, KeyFacts, FS_Subset
<1>7. IsFiniteSet(listing)
  <2>1. [k \in keys |-> event[k]] \in Surjection(keys, listing)
    BY DEF Surjection
  <2> QED  BY <1>6, <2>1, FS_Surjection
<1>8. /\ new \in Seq(listing)
      /\ \A x \in listing : \E i \in 1 .. Len(new) : new[i] = x
  BY <1>7, SetToSeqElements
<1>9. listing \subseteq Events
  <2>1. ASSUME NEW k \in keys  PROVE event[k] \in Events
    BY <1>6 DEF Events, Everything, TypeInv, DataTypes
  <2> QED  BY <2>1
<1>10. new \in Seq(Events)
  BY <1>8, <1>9, SeqMonotonic
<1>11. /\ \A k \in Keys : event[k].key = k /\ event[k].object = api[kind][k]
       /\ \A k \in Keys : k \in lost => event[k].changed = TRUE
  BY DEF event
<1>12. Lists(kind, n, new)
  <2> HIDE DEF event, new, keys, lost, rest
  <2>1. ASSUME NEW i \in 1 .. Len(new)
        PROVE  new[i].object = api[kind][new[i].key]
    <3>1. new[i] \in listing
      <4> HIDE DEF listing
      <4> QED  BY <1>8, ElementOfSeq
    <3>2. PICK k \in keys : new[i] = event[k]
      BY <3>1
    <3> QED  BY <1>6, <1>11, <3>2
  <2>2. ASSUME NEW j \in 1 .. Len(s), j > n
        PROVE  \E i \in 1 .. Len(new) : new[i].key = s[j].key /\ new[i].changed
    <3>1. s[j].key \in lost
      BY <1>4, <2>2 DEF lost
    <3>2. event[s[j].key] \in listing
      BY <3>1 DEF keys
    <3>3. PICK i \in 1 .. Len(new) : new[i] = event[s[j].key]
      BY <1>8, <3>2
    <3>4. new[i].key = s[j].key
      BY <1>5, <1>11, <3>1, <3>3
    <3>5. new[i].changed = TRUE
      BY <1>5, <1>11, <3>1, <3>3
    <3> QED  BY <3>4, <3>5
  <2> QED  BY <2>1, <2>2 DEF Lists
<1>13. listing = {[key |-> k, object |-> api[kind][k], changed |-> k \in lost] :
                    k \in lost \cup {k \in Keys : Exists(kind, k)}}
  BY <1>6
<1>14. watch' = [watch EXCEPT ![kind] = SubSeq(s, 1, n) \o new]
  BY <1>1, <1>13
<1> QED  BY <1>10, <1>12, <1>14 DEF Relists, Relist

LEMMA StepIsDataStep == TypeInv /\ [Next]_vars => DataStep
<1> SUFFICES ASSUME TypeInv, [Next]_vars  PROVE DataStep
  OBVIOUS
<1>1. CASE UNCHANGED vars
  BY <1>1 DEF vars, DataStep, Still
<1>2. ASSUME NEW kind \in Kinds, Deliver(kind)  PROVE DataStep
  <2>1. Delivers(kind)
    BY <1>2 DEF Deliver, Delivers
  <2> QED  BY <2>1 DEF DataStep
<1>3. ASSUME NEW kind \in Kinds, Relist(kind)  PROVE DataStep
  BY <1>3, ListsWhatThereIs DEF DataStep
<1>4. CASE \E k \in Keys : Fire(k)
  BY <1>4 DEF Fire, DataStep, Still, cluster
<1>5. ASSUME NEW r \in Redises, RedisStep(r)  PROVE DataStep
  <2>1. CASE StartRedis(r) \/ StatusKept(r)
    BY <2>1 DEF StartRedis, Take, StatusKept, DataStep, Still, cluster
  <2>2. ASSUME NEW c \in Children, LeftAlone(r, c) \/ Refused(r, c)  PROVE DataStep
    BY <2>2 DEF LeftAlone, Refused, DataStep, Still, cluster
  <2> QED  BY <1>5, <2>1, <2>2, ReconcileWrites, StatusWrites DEF RedisStep
<1>6. ASSUME NEW r \in Redises, ClusterStep(r) \/ PodFails(r)  PROVE DataStep
  BY <1>6, ChildWrites, UserWritesRedis DEF ClusterStep
<1>7. ASSUME NEW r \in Redises, NEW c \in Children, WriteFails(r, c) \/ CollectLate(r, c)
      PROVE  DataStep
  BY <1>7, ReconcileWrites, ChildWrites
<1>8. CASE TenantStep
  <2>1. CASE StartTenant \/ ListRedis
    BY <2>1 DEF StartTenant, Take, ListRedis, DataStep, Still, cluster
  <2> QED  BY <1>8, <2>1, TenantWrites DEF TenantStep
<1>9. CASE UserStep
  BY <1>9, UserWritesRedis, UserWritesTenant, ChildWrites DEF UserStep
<1>10. CASE Restart
  BY <1>10 DEF Restart, DataStep, Restarts
<1> QED  BY <1>1, <1>2, <1>3, <1>4, <1>5, <1>6, <1>7, <1>8, <1>9, <1>10 DEF Next

-----------------------------------------------------------------------------
(***************************************************************************)
(* The streams after a step.                                               *)
(***************************************************************************)
LEMMA AfterWrite ==
  ASSUME DataTypes, NEW kind \in Kinds, NEW k \in Keys, NEW object \in Values(kind),
         Put(kind, k, object)
  PROVE  /\ api' \in [Kinds -> [Keys -> Everything]]
         /\ api'[kind][k] = object
         /\ \A K \in Kinds, q \in Keys : K # kind \/ q # k => api'[K][q] = api[K][q]
         /\ watch' \in [Kinds -> Seq(Events)]
         /\ \A K \in Kinds : K # kind => watch'[K] = watch[K]
         /\ Len(watch'[kind]) = Len(watch[kind]) + 1
         /\ \A i \in 1 .. Len(watch[kind]) : watch'[kind][i] = watch[kind][i]
         /\ watch'[kind][Len(watch[kind]) + 1] =
              [key |-> k, object |-> object, changed |-> TRUE]
<1> DEFINE e == [key |-> k, object |-> object, changed |-> TRUE]
<1>1. object \in Everything
  BY DEF Everything
<1>2. e \in Events
  BY <1>1 DEF Events
<1>3. watch \in [Kinds -> Seq(Events)] /\ watch[kind] \in Seq(Events)
  BY DEF DataTypes
<1>4. /\ Append(watch[kind], e) \in Seq(Events)
      /\ Len(Append(watch[kind], e)) = Len(watch[kind]) + 1
      /\ \A i \in 1 .. Len(watch[kind]) : Append(watch[kind], e)[i] = watch[kind][i]
      /\ Append(watch[kind], e)[Len(watch[kind]) + 1] = e
  <2> HIDE DEF e
  <2> QED  BY <1>2, <1>3, AppendProperties
<1>5. watch' = [watch EXCEPT ![kind] = Append(watch[kind], e)]
  BY DEF Put
<1>6. /\ watch' \in [Kinds -> Seq(Events)]
      /\ watch'[kind] = Append(watch[kind], e)
      /\ \A K \in Kinds : K # kind => watch'[K] = watch[K]
  <2> HIDE DEF e
  <2> QED  BY <1>3, <1>4, <1>5
<1>7. /\ api' \in [Kinds -> [Keys -> Everything]]
      /\ api'[kind][k] = object
      /\ \A K \in Kinds, q \in Keys : K # kind \/ q # k => api'[K][q] = api[K][q]
  BY <1>1 DEF Put, DataTypes
<1> QED  BY <1>4, <1>6, <1>7

LEMMA AfterDelivery ==
  ASSUME DataTypes, NEW kind \in Kinds, Delivers(kind)
  PROVE  /\ Len(watch[kind]) \in Nat \ {0}
         /\ watch[kind][1] \in Events
         /\ cached' \in [Kinds -> [Keys -> Everything]]
         /\ cached'[kind][watch[kind][1].key] = watch[kind][1].object
         /\ \A K \in Kinds, q \in Keys :
              K # kind \/ q # watch[kind][1].key => cached'[K][q] = cached[K][q]
         /\ watch' \in [Kinds -> Seq(Events)]
         /\ \A K \in Kinds : K # kind => watch'[K] = watch[K]
         /\ Len(watch'[kind]) = Len(watch[kind]) - 1
         /\ \A i \in 1 .. Len(watch'[kind]) : watch'[kind][i] = watch[kind][i + 1]
<1>1. watch \in [Kinds -> Seq(Events)] /\ watch[kind] \in Seq(Events) /\ watch[kind] # <<>>
  BY DEF DataTypes, Delivers
<1>2. Len(watch[kind]) \in Nat \ {0}
  BY <1>1, EmptySeq
<1>3. watch[kind][1] \in Events /\ Head(watch[kind]) = watch[kind][1]
  <2>1. watch[kind][1] \in Events
    BY <1>1, <1>2, ElementOfSeq
  <2>2. Head(watch[kind]) = watch[kind][1]
    BY <1>1
  <2> QED  BY <2>1, <2>2
<1>4. /\ Tail(watch[kind]) \in Seq(Events)
      /\ Len(Tail(watch[kind])) = Len(watch[kind]) - 1
      /\ \A i \in 1 .. Len(Tail(watch[kind])) : Tail(watch[kind])[i] = watch[kind][i + 1]
  BY <1>1, HeadTailProperties
<1>5. /\ watch' \in [Kinds -> Seq(Events)]
      /\ watch'[kind] = Tail(watch[kind])
      /\ \A K \in Kinds : K # kind => watch'[K] = watch[K]
  BY <1>1, <1>4 DEF Delivers
<1>6. watch[kind][1].key \in Keys /\ watch[kind][1].object \in Everything
  BY <1>3 DEF Events
<1>7. cached' = [cached EXCEPT ![kind][watch[kind][1].key] = watch[kind][1].object]
  BY <1>3 DEF Delivers
<1>8. cached \in [Kinds -> [Keys -> Everything]]
  BY DEF DataTypes
<1>9. /\ cached' \in [Kinds -> [Keys -> Everything]]
      /\ cached'[kind][watch[kind][1].key] = watch[kind][1].object
      /\ \A K \in Kinds, q \in Keys :
           K # kind \/ q # watch[kind][1].key => cached'[K][q] = cached[K][q]
  BY <1>6, <1>7, <1>8
<1> QED  BY <1>2, <1>3, <1>4, <1>5, <1>9

LEMMA AfterListing ==
  ASSUME DataTypes, NEW kind \in Kinds, Relists(kind)
  PROVE  /\ watch' \in [Kinds -> Seq(Events)]
         /\ \A K \in Kinds : K # kind => watch'[K] = watch[K]
         /\ \E n \in 0 .. Len(watch[kind]), new \in Seq(Events) :
              /\ Lists(kind, n, new)
              /\ Len(new) \in Nat /\ n \in Nat
              /\ Len(watch'[kind]) = n + Len(new)
              /\ \A i \in 1 .. n : watch'[kind][i] = watch[kind][i]
              /\ \A i \in 1 .. Len(new) : watch'[kind][n + i] = new[i]
<1>0. PICK n \in 0 .. Len(watch[kind]), new \in Seq(Events) :
        /\ Lists(kind, n, new)
        /\ watch' = [watch EXCEPT ![kind] = SubSeq(watch[kind], 1, n) \o new]
  BY DEF Relists
<1> DEFINE kept == SubSeq(watch[kind], 1, n)
<1>1. /\ watch \in [Kinds -> Seq(Events)] /\ watch[kind] \in Seq(Events)
      /\ Len(watch[kind]) \in Nat /\ n \in Nat /\ Len(new) \in Nat
  BY LenProperties DEF DataTypes
<1>2. \A i \in 1 .. n : watch[kind][i] \in Events
  BY <1>1, ElementOfSeq
<1>3. /\ kept \in Seq(Events)
      /\ Len(kept) = n
      /\ \A i \in 1 .. n : kept[i] = watch[kind][i]
  <2>1. /\ kept \in Seq(Events)
        /\ Len(kept) = IF 1 <= n THEN n - 1 + 1 ELSE 0
        /\ \A i \in 1 .. n - 1 + 1 : kept[i] = watch[kind][1 + i - 1]
    BY <1>1, <1>2, SubSeqProperties
  <2> QED  BY <1>1, <2>1
<1> HIDE DEF kept
<1>4. /\ kept \o new \in Seq(Events)
      /\ Len(kept \o new) = n + Len(new)
      /\ \A i \in 1 .. n + Len(new) :
           (kept \o new)[i] = IF i <= n THEN kept[i] ELSE new[i - n]
  BY <1>3, ConcatProperties
<1>5. /\ watch' \in [Kinds -> Seq(Events)]
      /\ watch'[kind] = kept \o new
      /\ \A K \in Kinds : K # kind => watch'[K] = watch[K]
  BY <1>0, <1>1, <1>4 DEF kept
<1>6. \A i \in 1 .. n : watch'[kind][i] = watch[kind][i]
  BY <1>1, <1>3, <1>4, <1>5
<1>7. ASSUME NEW i \in 1 .. Len(new)  PROVE watch'[kind][n + i] = new[i]
  <2>1. n + i \in 1 .. n + Len(new) /\ ~(n + i <= n) /\ n + i - n = i
    BY <1>1
  <2> QED  BY <1>4, <1>5, <2>1
<1>8. Len(watch'[kind]) = n + Len(new)
  BY <1>4, <1>5
<1>9. \E m \in 0 .. Len(watch[kind]), s \in Seq(Events) :
        /\ Lists(kind, m, s)
        /\ Len(s) \in Nat /\ m \in Nat
        /\ Len(watch'[kind]) = m + Len(s)
        /\ \A i \in 1 .. m : watch'[kind][i] = watch[kind][i]
        /\ \A i \in 1 .. Len(s) : watch'[kind][m + i] = s[i]
  <2> WITNESS n \in 0 .. Len(watch[kind]), new \in Seq(Events)
  <2> QED  BY <1>0, <1>1, <1>6, <1>7, <1>8
<1> QED  BY <1>5, <1>9

-----------------------------------------------------------------------------
(***************************************************************************)
(* The types of the data, and the order of the streams.                    *)
(***************************************************************************)
LEMMA DataTypesStep == DataTypes /\ DataStep => DataTypes'
<1> SUFFICES ASSUME DataTypes, DataStep  PROVE DataTypes'
  OBVIOUS
<1>1. CASE Still
  BY <1>1 DEF Still, DataTypes
<1>2. CASE Restarts
  <2>1. /\ api' = api /\ cached' = api
        /\ \A kind \in Kinds : watch'[kind] = <<>>
        /\ watch' \in [Kinds -> Seq(Events)]
    BY <1>2 DEF Restarts
  <2> QED  BY <2>1 DEF DataTypes
<1>3. ASSUME NEW kind \in Kinds, Delivers(kind)  PROVE DataTypes'
  <2> DEFINE e == watch[kind][1]
  <2>1. /\ e \in Events /\ e.key \in Keys /\ e.object \in Values(kind)
        /\ Len(watch[kind]) \in Nat \ {0}
    <3>1. e \in Events /\ Len(watch[kind]) \in Nat \ {0}
      BY <1>3, AfterDelivery
    <3>2. 1 \in 1 .. Len(watch[kind])
      BY <3>1
    <3> QED  BY <3>1, <3>2 DEF Events, DataTypes
  <2>2. \A K \in Kinds, k \in Keys : cached'[K][k] \in Values(K)
    BY <1>3, <2>1, AfterDelivery DEF DataTypes
  <2>3. ASSUME NEW K \in Kinds, NEW i \in 1 .. Len(watch'[K])
        PROVE  watch'[K][i].object \in Values(K)
    <3>1. CASE K = kind
      <4>1. i + 1 \in 1 .. Len(watch[kind]) /\ watch'[kind][i] = watch[kind][i + 1]
        BY <1>3, <2>1, <2>3, <3>1, AfterDelivery
      <4> QED  BY <3>1, <4>1 DEF DataTypes
    <3>2. CASE K # kind
      BY <1>3, <2>3, <3>2, AfterDelivery DEF DataTypes
    <3> QED  BY <3>1, <3>2
  <2>4. api' = api
    BY <1>3 DEF Delivers
  <2>5. /\ cached' \in [Kinds -> [Keys -> Everything]]
        /\ watch' \in [Kinds -> Seq(Events)]
    BY <1>3, AfterDelivery
  <2> QED  BY <2>2, <2>3, <2>4, <2>5 DEF DataTypes
<1>4. ASSUME NEW kind \in Kinds, Relists(kind)  PROVE DataTypes'
  <2>1. PICK n \in 0 .. Len(watch[kind]), new \in Seq(Events) :
          /\ Lists(kind, n, new)
          /\ n \in Nat /\ Len(new) \in Nat
          /\ Len(watch'[kind]) = n + Len(new)
          /\ \A i \in 1 .. n : watch'[kind][i] = watch[kind][i]
          /\ \A i \in 1 .. Len(new) : watch'[kind][n + i] = new[i]
    BY <1>4, AfterListing
  <2>0. Len(watch[kind]) \in Nat
    BY LenProperties DEF DataTypes
  <2>2. ASSUME NEW K \in Kinds, NEW i \in 1 .. Len(watch'[K])
        PROVE  watch'[K][i].object \in Values(K)
    <3>1. CASE K # kind
      BY <1>4, <2>2, <3>1, AfterListing DEF DataTypes
    <3>2. CASE K = kind /\ i <= n
      <4>1. i \in 1 .. Len(watch[kind]) /\ watch'[kind][i] = watch[kind][i]
        BY <2>0, <2>1, <2>2, <3>2
      <4> QED  BY <3>2, <4>1 DEF DataTypes
    <3>3. CASE K = kind /\ ~(i <= n)
      <4>1. PICK j \in 1 .. Len(new) : i = n + j
        <5>1. i - n \in 1 .. Len(new) /\ i = n + (i - n)
          BY <2>1, <2>2, <3>3
        <5> QED  BY <5>1
      <4>2. watch'[kind][i] = new[j]
        BY <2>1, <4>1
      <4>3. new[j].object = api[kind][new[j].key] /\ new[j] \in Events
        BY <2>1, ElementOfSeq DEF Lists
      <4>4. new[j].key \in Keys
        BY <4>3 DEF Events
      <4> QED  BY <3>3, <4>2, <4>3, <4>4 DEF DataTypes
    <3> QED  BY <3>1, <3>2, <3>3
  <2>3. api' = api /\ cached' = cached
    BY <1>4 DEF Relists
  <2>4. watch' \in [Kinds -> Seq(Events)]
    BY <1>4, AfterListing
  <2> QED  BY <2>2, <2>3, <2>4 DEF DataTypes
<1>5. ASSUME NEW kind \in Kinds, NEW k \in Keys, NEW object \in Values(kind),
             Writes(kind, k, object)
      PROVE  DataTypes'
  <2>1. Put(kind, k, object) /\ cached' = cached
    BY <1>5 DEF Writes
  <2>0. /\ Len(watch[kind]) \in Nat
        /\ Len(watch'[kind]) = Len(watch[kind]) + 1
        /\ \A i \in 1 .. Len(watch[kind]) : watch'[kind][i] = watch[kind][i]
        /\ watch'[kind][Len(watch[kind]) + 1].object = object
    <3>1. Len(watch[kind]) \in Nat
      BY LenProperties DEF DataTypes
    <3>2. /\ Len(watch'[kind]) = Len(watch[kind]) + 1
          /\ \A i \in 1 .. Len(watch[kind]) : watch'[kind][i] = watch[kind][i]
          /\ watch'[kind][Len(watch[kind]) + 1] =
               [key |-> k, object |-> object, changed |-> TRUE]
      BY <2>1, AfterWrite
    <3> QED  BY <3>1, <3>2
  <2>2. \A K \in Kinds, q \in Keys : api'[K][q] \in Values(K)
    <3>1. /\ api'[kind][k] = object
          /\ \A K \in Kinds, q \in Keys : K # kind \/ q # k => api'[K][q] = api[K][q]
      BY <2>1, AfterWrite
    <3> QED  BY <3>1 DEF DataTypes
  <2>3. ASSUME NEW K \in Kinds, NEW i \in 1 .. Len(watch'[K])
        PROVE  watch'[K][i].object \in Values(K)
    <3>1. CASE K # kind
      <4>1. watch'[K] = watch[K]
        BY <2>1, <3>1, AfterWrite
      <4> QED  BY <2>3, <4>1 DEF DataTypes
    <3>2. CASE K = kind
      <4>1. CASE i = Len(watch[kind]) + 1
        BY <2>0, <3>2, <4>1
      <4>2. CASE i # Len(watch[kind]) + 1
        <5>1. i \in 1 .. Len(watch[kind])
          BY <2>0, <2>3, <3>2, <4>2
        <5> QED  BY <2>0, <3>2, <5>1 DEF DataTypes
      <4> QED  BY <4>1, <4>2
    <3> QED  BY <3>1, <3>2
  <2>4. /\ api' \in [Kinds -> [Keys -> Everything]]
        /\ watch' \in [Kinds -> Seq(Events)]
    BY <2>1, AfterWrite
  <2> QED  BY <2>1, <2>2, <2>3, <2>4 DEF DataTypes
<1> QED  BY <1>1, <1>2, <1>3, <1>4, <1>5 DEF DataStep

\* InOrder, for one kind and one key.
InOrderOf(kind, k) ==
  /\ NoneAfter(kind, k, 0) => cached[kind][k] = api[kind][k]
  /\ \A n \in 1 .. Len(watch[kind]) :
       watch[kind][n].key = k /\ NoneAfter(kind, k, n)
         => watch[kind][n].object = api[kind][k]

LEMMA SameStreamSameOrder ==
  ASSUME NEW kind \in Kinds, NEW k \in Keys, InOrderOf(kind, k),
         watch'[kind] = watch[kind], api'[kind][k] = api[kind][k],
         cached'[kind][k] = cached[kind][k]
  PROVE  InOrderOf(kind, k)'
BY DEF InOrderOf, NoneAfter

LEMMA InOrderStep == DataTypes /\ InOrder /\ DataStep => InOrder'
<1> SUFFICES ASSUME DataTypes, InOrder, DataStep, NEW K \in Kinds, NEW q \in Keys
             PROVE  InOrderOf(K, q)'
  BY DEF InOrder, InOrderOf
<1>0. InOrderOf(K, q) /\ Len(watch[K]) \in Nat
  BY LenProperties DEF InOrder, InOrderOf, DataTypes
<1>1. CASE Still
  BY <1>0, <1>1, SameStreamSameOrder DEF Still
<1>2. CASE Restarts
  <2>1. api' = api /\ cached' = api /\ watch'[K] = <<>>
    BY <1>2 DEF Restarts
  <2>2. Len(watch'[K]) = 0
    BY <2>1
  <2> QED  BY <2>1, <2>2 DEF InOrderOf
<1>3. ASSUME NEW kind \in Kinds, Delivers(kind)  PROVE InOrderOf(K, q)'
  <2> DEFINE e == watch[kind][1]
  <2>0. api' = api
    BY <1>3 DEF Delivers
  <2>1. CASE K # kind
    <3>1. watch'[K] = watch[K] /\ cached'[K][q] = cached[K][q]
      BY <1>3, <2>1, AfterDelivery
    <3> QED  BY <1>0, <2>0, <3>1, SameStreamSameOrder
  <2>2. CASE K = kind
    <3>1. /\ Len(watch[K]) \in Nat \ {0}
          /\ Len(watch'[K]) = Len(watch[K]) - 1
          /\ \A i \in 1 .. Len(watch'[K]) : watch'[K][i] = watch[K][i + 1]
      BY <1>3, <2>2, AfterDelivery
    <3>2. PICK len \in Nat \ {0} : len = Len(watch[K])
      BY <3>1
    <3>3. Len(watch'[K]) = len - 1
      BY <3>1, <3>2
    <3>4. ASSUME NEW n \in Nat, NoneAfter(K, q, n)'
          PROVE  NoneAfter(K, q, n + 1)
      <4> SUFFICES ASSUME NEW i \in 1 .. len, i > n + 1, watch[K][i].key = q
                   PROVE  ~watch[K][i].changed
        BY <3>2 DEF NoneAfter
      <4>1. i - 1 \in 1 .. Len(watch'[K]) /\ i - 1 > n /\ i - 1 + 1 = i
        BY <3>3
      <4>2. watch'[K][i - 1] = watch[K][i]
        BY <3>1, <4>1
      <4> QED  BY <3>4, <4>1, <4>2 DEF NoneAfter
    <3>5. ASSUME NEW n \in 1 .. Len(watch'[K]), watch'[K][n].key = q, NoneAfter(K, q, n)'
          PROVE  watch'[K][n].object = api'[K][q]
      <4>1. n + 1 \in 1 .. Len(watch[K]) /\ n \in Nat
        BY <3>2, <3>3
      <4>2. watch'[K][n] = watch[K][n + 1]
        BY <3>1
      <4> QED  BY <1>0, <2>0, <3>4, <3>5, <4>1, <4>2 DEF InOrderOf
    <3>6. ASSUME NoneAfter(K, q, 0)'
          PROVE  cached'[K][q] = api'[K][q]
      <4>1. NoneAfter(K, q, 1)
        BY <3>4, <3>6
      <4>2. CASE e.key = q
        <5>1. cached'[K][q] = e.object
          BY <1>3, <2>2, <4>2, AfterDelivery
        <5>2. 1 \in 1 .. Len(watch[K])
          BY <3>1
        <5> QED  BY <1>0, <2>0, <2>2, <4>1, <4>2, <5>1, <5>2 DEF InOrderOf
      <4>3. CASE e.key # q
        <5>1. cached'[K][q] = cached[K][q]
          BY <1>3, <2>2, <4>3, AfterDelivery
        <5>2. NoneAfter(K, q, 0)
          <6> SUFFICES ASSUME NEW i \in 1 .. len, watch[K][i].key = q
                       PROVE  ~watch[K][i].changed
            BY <3>2 DEF NoneAfter
          <6>1. i # 1
            BY <2>2, <4>3
          <6>2. i \in 1 .. Len(watch[K]) /\ i > 1
            BY <3>2, <6>1
          <6> QED  BY <4>1, <6>2 DEF NoneAfter
        <5> QED  BY <1>0, <2>0, <5>1, <5>2 DEF InOrderOf
      <4> QED  BY <4>2, <4>3
    <3> QED  BY <3>5, <3>6 DEF InOrderOf
  <2> QED  BY <2>1, <2>2
<1>4. ASSUME NEW kind \in Kinds, Relists(kind)  PROVE InOrderOf(K, q)'
  <2>1. PICK n \in 0 .. Len(watch[kind]), new \in Seq(Events) :
          /\ Lists(kind, n, new)
          /\ n \in Nat /\ Len(new) \in Nat
          /\ Len(watch'[kind]) = n + Len(new)
          /\ \A i \in 1 .. n : watch'[kind][i] = watch[kind][i]
          /\ \A i \in 1 .. Len(new) : watch'[kind][n + i] = new[i]
    BY <1>4, AfterListing
  <2>2. api' = api /\ cached' = cached
    BY <1>4 DEF Relists
  <2>3. CASE K # kind
    <3>1. watch'[K] = watch[K]
      BY <1>4, <2>3, AfterListing
    <3> QED  BY <1>0, <2>2, <3>1, SameStreamSameOrder
  <2>4. CASE K = kind
    <3>1. /\ n \in Nat /\ Len(new) \in Nat
          /\ Len(watch'[K]) = n + Len(new)
          /\ \A i \in 1 .. n : watch'[K][i] = watch[K][i]
          /\ \A i \in 1 .. Len(new) : watch'[K][n + i] = new[i]
      BY <2>1, <2>4
    <3>2. ASSUME NEW m \in 0 .. n, NoneAfter(K, q, m)'
          PROVE  NoneAfter(K, q, m)
      <4> SUFFICES ASSUME NEW i \in 1 .. Len(watch[K]), i > m, watch[K][i].key = q
                   PROVE  ~watch[K][i].changed
        BY DEF NoneAfter
      <4>1. CASE i <= n
        <5>1. i \in 1 .. n /\ i \in 1 .. Len(watch'[K])
          BY <1>0, <3>1, <4>1
        <5> QED  BY <3>1, <3>2, <5>1 DEF NoneAfter
      <4>2. CASE ~(i <= n)
        <5>1. i > n
          BY <1>0, <3>1, <4>2
        <5>2. PICK j \in 1 .. Len(new) : new[j].key = watch[K][i].key /\ new[j].changed
          BY <2>1, <2>4, <5>1 DEF Lists
        <5>3. n + j \in 1 .. Len(watch'[K]) /\ n + j > m
          BY <3>1
        <5>4. watch'[K][n + j] = new[j]
          BY <3>1
        <5> QED  BY <3>2, <5>2, <5>3, <5>4 DEF NoneAfter
      <4> QED  BY <4>1, <4>2
    <3>3. ASSUME NEW m \in 1 .. Len(watch'[K]), watch'[K][m].key = q, NoneAfter(K, q, m)'
          PROVE  watch'[K][m].object = api'[K][q]
      <4>1. CASE m <= n
        <5>1. m \in 1 .. n /\ m \in 0 .. n /\ m \in 1 .. Len(watch[K])
          BY <2>1, <2>4, <3>1, <4>1
        <5>2. NoneAfter(K, q, m) /\ watch'[K][m] = watch[K][m]
          BY <3>1, <3>2, <3>3, <5>1
        <5> QED  BY <1>0, <2>2, <3>3, <5>1, <5>2 DEF InOrderOf
      <4>2. CASE ~(m <= n)
        <5>1. m - n \in 1 .. Len(new) /\ n + (m - n) = m
          BY <3>1, <4>2
        <5>2. watch'[K][m] = new[m - n]
          BY <3>1, <5>1
        <5> QED  BY <2>1, <2>2, <2>4, <3>3, <5>1, <5>2 DEF Lists
      <4> QED  BY <4>1, <4>2
    <3>4. NoneAfter(K, q, 0)' => NoneAfter(K, q, 0)
      BY <3>1, <3>2
    <3> QED  BY <1>0, <2>2, <3>3, <3>4 DEF InOrderOf
  <2> QED  BY <2>3, <2>4
<1>5. ASSUME NEW kind \in Kinds, NEW k \in Keys, NEW object \in Values(kind),
             Writes(kind, k, object)
      PROVE  InOrderOf(K, q)'
  <2>1. Put(kind, k, object) /\ cached' = cached
    BY <1>5 DEF Writes
  <2>2. CASE K # kind
    <3>1. /\ \A S \in Kinds : S # kind => watch'[S] = watch[S]
          /\ \A S \in Kinds, p \in Keys : S # kind \/ p # k => api'[S][p] = api[S][p]
      BY <2>1, AfterWrite
    <3>2. watch'[K] = watch[K] /\ api'[K][q] = api[K][q] /\ cached'[K][q] = cached[K][q]
      BY <2>1, <2>2, <3>1
    <3> QED  BY <1>0, <3>2, SameStreamSameOrder
  <2>3. CASE K = kind
    <3> DEFINE last == Len(watch[K]) + 1
    <3>1. /\ Len(watch'[K]) = last
          /\ \A i \in 1 .. Len(watch[K]) : watch'[K][i] = watch[K][i]
          /\ watch'[K][last] = [key |-> k, object |-> object, changed |-> TRUE]
          /\ api'[K][k] = object
          /\ q # k => api'[K][q] = api[K][q]
      BY <2>1, <2>3, AfterWrite
    <3>2. watch'[K][last].key = k /\ watch'[K][last].object = object
      BY <3>1
    <3>3. watch'[K][last].changed = TRUE
      BY <3>1
    <3>4. last \in 1 .. Len(watch'[K])
      BY <1>0, <3>1
    <3>5. ASSUME q = k, NEW m \in 0 .. Len(watch[K])  PROVE ~NoneAfter(K, q, m)'
      <4>1. last > m
        BY <1>0
      <4> QED  BY <3>2, <3>3, <3>4, <3>5, <4>1 DEF NoneAfter
    <3>6. CASE q = k
      <4>1. ASSUME NEW m \in 1 .. Len(watch'[K]), NoneAfter(K, q, m)'
            PROVE  watch'[K][m].object = api'[K][q]
        <5>1. m = last
          <6> SUFFICES ASSUME m # last  PROVE FALSE
            OBVIOUS
          <6>1. m \in 0 .. Len(watch[K])
            BY <1>0, <3>1
          <6> QED  BY <3>5, <3>6, <4>1, <6>1
        <5> QED  BY <3>1, <3>2, <3>6, <5>1
      <4>2. ~NoneAfter(K, q, 0)'
        <5>1. 0 \in 0 .. Len(watch[K])
          BY <1>0
        <5> QED  BY <3>5, <3>6, <5>1
      <4> QED  BY <4>1, <4>2 DEF InOrderOf
    <3>7. CASE q # k
      <4>1. ASSUME NEW m \in Nat, NoneAfter(K, q, m)'
            PROVE  NoneAfter(K, q, m)
        <5> SUFFICES ASSUME NEW i \in 1 .. Len(watch[K]), i > m, watch[K][i].key = q
                     PROVE  ~watch[K][i].changed
          BY DEF NoneAfter
        <5>1. i \in 1 .. Len(watch'[K]) /\ watch'[K][i] = watch[K][i]
          BY <1>0, <3>1
        <5> QED  BY <4>1, <5>1 DEF NoneAfter
      <4>2. ASSUME NEW m \in 1 .. Len(watch'[K]), watch'[K][m].key = q, NoneAfter(K, q, m)'
            PROVE  watch'[K][m].object = api'[K][q]
        <5>1. m # last
          BY <3>2, <3>7, <4>2
        <5>2. m \in 1 .. Len(watch[K]) /\ m \in Nat
          BY <1>0, <3>1, <5>1
        <5>3. watch'[K][m] = watch[K][m]
          BY <3>1, <5>2
        <5> QED  BY <1>0, <3>1, <3>7, <4>1, <4>2, <5>2, <5>3 DEF InOrderOf
      <4>3. NoneAfter(K, q, 0)' => NoneAfter(K, q, 0)
        BY <4>1
      <4> QED  BY <1>0, <2>1, <3>1, <3>7, <4>2, <4>3 DEF InOrderOf
    <3> QED  BY <3>6, <3>7
  <2> QED  BY <2>2, <2>3
<1> QED  BY <1>1, <1>2, <1>3, <1>4, <1>5 DEF DataStep

-----------------------------------------------------------------------------
(***************************************************************************)
(* What a step does to the reconciliations in progress.                    *)
(***************************************************************************)
\* w: a record that the reconciliation of k may have.
TypedWork(k, w) ==
  /\ k \in Redises => w \in RedisWork
  /\ k = Tenant => w \in TenantWork
  /\ w.at # "idle" => w.obj # Absent

\* A copy that counts as current was so before, or comes from a cache that is.
MayWork(k, w) ==
  /\ k \in Redises /\ w.at = "children"
       => \/ work[k].at = "children" /\ w.obj = work[k].obj
          \/ w.obj = Get("Redis", k)
  /\ k \in Redises /\ w.at = "children" /\ ~w.stale
       => \/ work[k].at = "children" /\ ~work[k].stale /\ w.obj = work[k].obj
          \/ ~Behind("Redis", k) /\ w.obj = Get("Redis", k)
  /\ k = Tenant /\ w.at = "update"
       => \/ work[k].at = "update" /\ w.obj = work[k].obj
          \/ ListRedis /\ w.obj = Counted(work[k].obj, Cardinality(Owned))

ChangesWork(k, w) ==
  /\ work' = [work EXCEPT ![k] = w]
  /\ TypedWork(k, w)
  /\ MayWork(k, w)

WorkStep ==
  \/ work' = work
  \/ work' = [k \in Keys |-> Idle]
  \/ \E k \in Keys : \E w : ChangesWork(k, w)

LEMMA IdleTypes == Idle \in RedisWork /\ Idle \in TenantWork /\ Idle.at = "idle"
BY DEF Idle, RedisWork, TenantWork, WorkRecords

LEMMA WorkOf ==
  ASSUME WorkTypes, NEW k \in Keys
  PROVE  /\ work[k] \in RedisWork \cup TenantWork
         /\ k \in Redises => work[k] \in RedisWork
         /\ k = Tenant => work[k] \in TenantWork
         /\ k \in Redises \/ k = Tenant
         /\ ~(k \in Redises /\ k = Tenant)
         /\ work[k].at # "idle" => work[k].obj # Absent
BY KeyFacts DEF WorkTypes

LEMMA EndsWork ==
  ASSUME NEW k \in Keys, work' = [work EXCEPT ![k] = Idle]
  PROVE  WorkStep
<1>1. ChangesWork(k, Idle)
  BY IdleTypes DEF ChangesWork, TypedWork, MayWork
<1> QED  BY <1>1 DEF WorkStep

LEMMA OutdatesWork ==
  ASSUME WorkTypes, NEW k \in Keys, Outdate(k)
  PROVE  WorkStep
<1> DEFINE w == [work[k] EXCEPT !.stale = work[k].at # "idle"]
<1>1. /\ w.at = work[k].at /\ w.obj = work[k].obj
      /\ k \in Redises => w \in RedisWork
      /\ k = Tenant => w \in TenantWork
      /\ w.at = "children" => w.stale = TRUE
  BY WorkOf DEF RedisWork, TenantWork, WorkRecords
<1>2. work' = [work EXCEPT ![k] = w]
  BY DEF Outdate
<1> HIDE DEF w
<1>3. TypedWork(k, w) /\ MayWork(k, w)
  BY <1>1, WorkOf DEF TypedWork, MayWork
<1> QED  BY <1>2, <1>3 DEF ChangesWork, WorkStep

LEMMA WritesWork ==
  ASSUME WorkTypes, NEW r \in Redises, NEW c \in Children, Working(r, c),
         (\E ready \in BOOLEAN : Wrote(r, c, ready)) \/ Failed(r, c)
  PROVE  WorkStep
<1>1. work \in [Keys -> RedisWork \cup TenantWork] /\ r \in Keys /\ r # Tenant
      /\ work[r] \in RedisWork
  BY KeyFacts DEF WorkTypes
<1>2. PICK w \in RedisWork :
        /\ work' = [work EXCEPT ![r] = w]
        /\ w.at = work[r].at /\ w.obj = work[r].obj /\ w.stale = work[r].stale
  <2>1. ASSUME NEW ready \in BOOLEAN, Wrote(r, c, ready)
        PROVE  \E w \in RedisWork :
                  /\ work' = [work EXCEPT ![r] = w]
                  /\ w.at = work[r].at /\ w.obj = work[r].obj /\ w.stale = work[r].stale
    <3> DEFINE w == [work[r] EXCEPT !.todo = @ \ {c},
                                    !.ready = IF c = "StatefulSet" THEN ready ELSE @]
    <3>1. /\ w \in RedisWork
          /\ w.at = work[r].at /\ w.obj = work[r].obj /\ w.stale = work[r].stale
      BY <1>1 DEF RedisWork, WorkRecords
    <3>2. work' = [work EXCEPT ![r] = w]
      BY <1>1, <2>1 DEF Wrote, RedisWork, TenantWork, WorkRecords
    <3> QED  BY <3>1, <3>2
  <2>2. ASSUME Failed(r, c)
        PROVE  \E w \in RedisWork :
                  /\ work' = [work EXCEPT ![r] = w]
                  /\ w.at = work[r].at /\ w.obj = work[r].obj /\ w.stale = work[r].stale
    <3> DEFINE w == [work[r] EXCEPT !.todo = @ \ {c}, !.failed = TRUE]
    <3>1. /\ w \in RedisWork
          /\ w.at = work[r].at /\ w.obj = work[r].obj /\ w.stale = work[r].stale
      BY <1>1 DEF RedisWork, WorkRecords
    <3>2. work' = [work EXCEPT ![r] = w]
      BY <1>1, <2>2 DEF Failed, RedisWork, TenantWork, WorkRecords
    <3> QED  BY <3>1, <3>2
  <2> QED  BY <2>1, <2>2
<1>3. TypedWork(r, w) /\ MayWork(r, w)
  BY <1>1, <1>2, WorkOf DEF TypedWork, MayWork
<1> QED  BY <1>1, <1>2, <1>3 DEF ChangesWork, WorkStep

LEMMA StartsRedis ==
  ASSUME TypeInv, NEW r \in Redises, StartRedis(r)
  PROVE  WorkStep
<1> DEFINE redis == Get("Redis", r)
           w == [Idle EXCEPT !.at = "children", !.obj = redis,
                             !.stale = Behind("Redis", r), !.todo = Children]
<1>1. CASE work' = work
  BY <1>1 DEF WorkStep
<1>2. CASE redis # Absent /\ work' = [work EXCEPT ![r] = w]
  <2>1. redis \in RedisObjects /\ r \in Keys /\ r # Tenant
    BY <1>2, KindFacts, KeyFacts DEF Get, TypeInv, DataTypes, Values
  <2>2. Behind("Redis", r) \in BOOLEAN
    BY DEF Behind
  <2>3. w \in RedisWork /\ w.obj = redis /\ w.stale = Behind("Redis", r)
    BY <2>1, <2>2 DEF Idle, RedisWork, WorkRecords
  <2>4. TypedWork(r, w) /\ MayWork(r, w)
    <3> HIDE DEF w
    <3> QED  BY <1>2, <2>1, <2>3 DEF TypedWork, MayWork
  <2> QED  BY <1>2, <2>1, <2>4 DEF ChangesWork, WorkStep
<1> QED  BY <1>1, <1>2 DEF StartRedis

LEMMA StartsTenant ==
  ASSUME TypeInv, StartTenant
  PROVE  WorkStep
<1> DEFINE tenant == Get("Tenant", Tenant)
           w == [Idle EXCEPT !.at = "list", !.obj = tenant,
                             !.stale = Behind("Tenant", Tenant)]
<1>1. CASE work' = work
  BY <1>1 DEF WorkStep
<1>2. CASE tenant # Absent /\ work' = [work EXCEPT ![Tenant] = w]
  <2>1. tenant \in TenantObjects /\ Tenant \in Keys /\ Tenant \notin Redises
    BY <1>2, KindFacts, KeyFacts DEF Get, TypeInv, DataTypes, Values
  <2>2. Behind("Tenant", Tenant) \in BOOLEAN
    BY DEF Behind
  <2>3. w \in TenantWork /\ w.obj = tenant /\ w.at = "list"
    BY <2>1, <2>2 DEF Idle, TenantWork, WorkRecords
  <2>4. TypedWork(Tenant, w) /\ MayWork(Tenant, w)
    <3> HIDE DEF w
    <3> QED  BY <1>2, <2>1, <2>3 DEF TypedWork, MayWork
  <2> QED  BY <1>2, <2>1, <2>4 DEF ChangesWork, WorkStep
<1> QED  BY <1>1, <1>2 DEF StartTenant

\* The counts are those of the Redis there can be.
LEMMA CountedTypes ==
  ASSUME NEW tenant \in TenantObjects
  PROVE  Counted(tenant, Cardinality(Owned)) \in TenantObjects
<1>1. Owned \in SUBSET Redises
  BY ReconcilersAssumption DEF Owned
<1>2. Cardinality(Owned) \in 0 .. Cardinality(Redises)
  BY <1>1, CountsAreTyped
<1>3. PICK n \in 0 .. Cardinality(Redises) : n = Cardinality(Owned)
  BY <1>2
<1>4. PICK some \in BOOLEAN : some = (n > 0)
  <2> DEFINE b == n > 0
  <2>1. b \in BOOLEAN
    OBVIOUS
  <2> HIDE DEF b
  <2>2. \E some \in BOOLEAN : some = b
    BY <2>1
  <2> QED  BY <2>2 DEF b
<1>5. PICK count \in 0 .. Cardinality(Redises) :
        count = IF tenant.deleting THEN tenant.count ELSE n
  BY DEF TenantObjects
<1>6. Counted(tenant, n) = [tenant EXCEPT !.finalizer = some, !.count = count]
  BY <1>4, <1>5 DEF Counted
<1>7. [tenant EXCEPT !.finalizer = some, !.count = count] \in TenantObjects
  BY DEF TenantObjects
<1> QED  BY <1>3, <1>6, <1>7

LEMMA ListsRedis ==
  ASSUME TypeInv, ListRedis
  PROVE  WorkStep
<1> DEFINE tenant == work[Tenant].obj
           n == Cardinality(Owned)
           w == [work[Tenant] EXCEPT !.at = "update", !.obj = Counted(tenant, n),
                                     !.again = Again(tenant, n)]
<1>1. Tenant \in Keys /\ Tenant \notin Redises /\ work[Tenant] \in TenantWork
      /\ tenant \in TenantObjects
  BY KeyFacts, ObjectTypes DEF TypeInv, WorkTypes, ListRedis
<1>2. CASE End(Tenant, FALSE, Again(tenant, n), {})
  BY <1>1, <1>2, EndsWork DEF End
<1>3. CASE work' = [work EXCEPT ![Tenant].at = "update", ![Tenant].obj = Counted(tenant, n),
                                ![Tenant].again = Again(tenant, n)]
  <2>1. Counted(tenant, n) \in TenantObjects /\ Counted(tenant, n) # Absent
    BY <1>1, CountedTypes, AbsentAssumption
  <2>2. Again(tenant, n) \in BOOLEAN
    BY DEF Again
  <2>3. w \in TenantWork /\ w.obj = Counted(tenant, n)
    BY <1>1, <2>1, <2>2 DEF TenantWork, WorkRecords
  <2>4. work' = [work EXCEPT ![Tenant] = w]
    BY <1>1, <1>3, WorkOf DEF TypeInv, WorkTypes, RedisWork, TenantWork, WorkRecords
  <2>5. TypedWork(Tenant, w) /\ MayWork(Tenant, w)
    <3> HIDE DEF w
    <3> QED  BY <1>1, <2>1, <2>3 DEF TypedWork, MayWork
  <2> QED  BY <1>1, <2>4, <2>5 DEF ChangesWork, WorkStep
<1> QED  BY <1>2, <1>3 DEF ListRedis

LEMMA StepIsWorkStep == TypeInv /\ [Next]_vars => WorkStep
<1> SUFFICES ASSUME TypeInv, [Next]_vars  PROVE WorkStep
  OBVIOUS
<1>0. WorkTypes /\ Redises \subseteq Keys /\ Tenant \in Keys
  BY KeyFacts DEF TypeInv
<1>1. CASE UNCHANGED vars
  BY <1>1 DEF vars, WorkStep
<1>2. ASSUME NEW kind \in Kinds, Deliver(kind) \/ Relist(kind)  PROVE WorkStep
  BY <1>2 DEF Deliver, Relist, WorkStep
<1>3. CASE \E k \in Keys : Fire(k)
  BY <1>3 DEF Fire, WorkStep
<1>4. ASSUME NEW r \in Redises, RedisStep(r)  PROVE WorkStep
  <2>1. CASE StatusKept(r) \/ UpdateStatus(r)
    BY <1>0, <2>1, EndsWork DEF StatusKept, UpdateStatus, End
  <2>2. ASSUME NEW c \in Children,
               Create(r, c) \/ Patch(r, c) \/ LeftAlone(r, c) \/ Refused(r, c)
        PROVE  WorkStep
    <3>1. Working(r, c)
      BY <2>2 DEF Create, Patch, LeftAlone, Refused
    <3>2. (api[c][r].pods # "starting") \in BOOLEAN
      OBVIOUS
    <3>3. (\E ready \in BOOLEAN : Wrote(r, c, ready)) \/ Failed(r, c)
      BY <2>2, <3>2 DEF Create, Patch, LeftAlone, Refused
    <3> QED  BY <1>0, <3>1, <3>3, WritesWork
  <2> QED  BY <1>4, <2>1, <2>2, StartsRedis DEF RedisStep
<1>5. ASSUME NEW r \in Redises, ClusterStep(r) \/ PodFails(r)  PROVE WorkStep
  <2>1. CASE FinishDeletion(r)
    BY <1>0, <2>1, OutdatesWork DEF FinishDeletion
  <2>2. CASE PodsProgress(r) \/ PodFails(r)
    BY <2>2 DEF PodsProgress, PodFails, Pods, WorkStep
  <2>3. CASE \E c \in Children : CollectChild(r, c)
    BY <2>3 DEF CollectChild, WorkStep
  <2> QED  BY <1>5, <2>1, <2>2, <2>3 DEF ClusterStep
<1>6. ASSUME NEW r \in Redises, NEW c \in Children, WriteFails(r, c) \/ CollectLate(r, c)
      PROVE  WorkStep
  <2>1. CASE WriteFails(r, c)
    BY <1>0, <2>1, WritesWork DEF WriteFails
  <2>2. CASE CollectLate(r, c)
    BY <2>2 DEF CollectLate, WorkStep
  <2> QED  BY <1>6, <2>1, <2>2
<1>7. CASE TenantStep
  <2>1. CASE UpdateTenant
    BY <1>0, <2>1, EndsWork DEF UpdateTenant, End
  <2> QED  BY <1>7, <2>1, StartsTenant, ListsRedis DEF TenantStep
<1>8. CASE UserStep
  <2>1. ASSUME NEW r \in Redises,
               CreateRedis(r) \/ EditImage(r) \/ TogglePause(r) \/ DeleteRedis(r)
        PROVE  WorkStep
    BY <1>0, <2>1, OutdatesWork DEF CreateRedis, EditImage, TogglePause, DeleteRedis
  <2>2. ASSUME NEW r \in Redises, NEW c \in Children, DeleteChild(r, c)  PROVE WorkStep
    BY <2>2 DEF DeleteChild, WorkStep
  <2>3. CASE CreateTenant \/ DeleteTenant
    BY <1>0, <2>3, OutdatesWork DEF CreateTenant, DeleteTenant
  <2> QED  BY <1>8, <2>1, <2>2, <2>3 DEF UserStep
<1>9. CASE Restart
  BY <1>9 DEF Restart, WorkStep
<1> QED  BY <1>1, <1>2, <1>3, <1>4, <1>5, <1>6, <1>7, <1>8, <1>9 DEF Next

-----------------------------------------------------------------------------
(***************************************************************************)
(* The types hold in every state.                                          *)
(***************************************************************************)
LEMMA WorkTypesStep == WorkTypes /\ WorkStep => WorkTypes'
<1> SUFFICES ASSUME WorkTypes, WorkStep  PROVE WorkTypes'
  OBVIOUS
<1>1. CASE work' = work
  BY <1>1 DEF WorkTypes
<1>2. CASE work' = [k \in Keys |-> Idle]
  <2>1. \A k \in Keys : work'[k] = Idle
    BY <1>2
  <2>2. work' \in [Keys -> RedisWork \cup TenantWork]
    BY <1>2, IdleTypes
  <2> QED  BY <2>1, <2>2, IdleTypes, KeyFacts DEF WorkTypes
<1>3. ASSUME NEW k \in Keys, NEW w, ChangesWork(k, w)  PROVE WorkTypes'
  <2>1. /\ work' = [work EXCEPT ![k] = w]
        /\ k \in Redises => w \in RedisWork
        /\ k = Tenant => w \in TenantWork
        /\ w.at # "idle" => w.obj # Absent
    BY <1>3 DEF ChangesWork, TypedWork
  <2>2. w \in RedisWork \cup TenantWork
    BY <2>1, KeyFacts
  <2>3. /\ work' \in [Keys -> RedisWork \cup TenantWork]
        /\ work'[k] = w
        /\ \A q \in Keys : q # k => work'[q] = work[q]
    BY <2>1, <2>2 DEF WorkTypes
  <2>4. \A r \in Redises : work'[r] \in RedisWork
    BY <2>1, <2>3, KeyFacts DEF WorkTypes
  <2>5. work'[Tenant] \in TenantWork
    BY <2>1, <2>3, KeyFacts DEF WorkTypes
  <2>6. \A q \in Keys : work'[q].at # "idle" => work'[q].obj # Absent
    BY <2>1, <2>3 DEF WorkTypes
  <2> QED  BY <2>3, <2>4, <2>5, <2>6 DEF WorkTypes
<1> QED  BY <1>1, <1>2, <1>3 DEF WorkStep

\* A step leaves the Redis r alone, or makes its copy stale.
LEMMA RedisKept ==
  ASSUME DataTypes, DataStep, NEW r \in Redises, work'[r].at = "children", ~work'[r].stale
  PROVE  api'["Redis"][r] = api["Redis"][r]
<1>0. r \in Keys /\ "Redis" \in Kinds
  BY KindFacts, KeyFacts
<1>1. CASE api' = api
  BY <1>1
<1>2. ASSUME NEW kind \in Kinds, NEW k \in Keys, NEW object \in Values(kind),
             Writes(kind, k, object)
      PROVE  api'["Redis"][r] = api["Redis"][r]
  <2>1. ~(kind = "Redis" /\ k = r)
    BY <1>2 DEF Writes, MayPutRedis
  <2>2. Put(kind, k, object)
    BY <1>2 DEF Writes
  <2>3. \A K \in Kinds, q \in Keys : K # kind \/ q # k => api'[K][q] = api[K][q]
    BY <2>2, AfterWrite
  <2> QED  BY <1>0, <2>1, <2>3
<1> QED  BY <1>1, <1>2 DEF DataStep, Still, Restarts, Delivers, Relists

LEMMA CurrentStep ==
  DataTypes /\ InOrder /\ WorkTypes /\ Current /\ DataStep /\ WorkStep => Current'
<1> SUFFICES ASSUME DataTypes, InOrder, WorkTypes, Current, DataStep, WorkStep,
                    NEW r \in Redises, work'[r].at = "children", ~work'[r].stale
             PROVE  api'["Redis"][r] = work'[r].obj
  BY DEF Current
<1>0. r \in Keys /\ "Redis" \in Kinds
  BY KindFacts, KeyFacts
<1>1. api'["Redis"][r] = api["Redis"][r]
  BY RedisKept
<1>2. CASE work'[r] = work[r]
  BY <1>1, <1>2 DEF Current
<1>3. CASE work' = [k \in Keys |-> Idle]
  BY <1>0, <1>3, IdleTypes
<1>4. ASSUME NEW w, ChangesWork(r, w)  PROVE api'["Redis"][r] = work'[r].obj
  <2>1. work'[r] = w
    BY <1>0, <1>4 DEF ChangesWork, WorkTypes
  <2>2. CASE work[r].at = "children" /\ ~work[r].stale /\ w.obj = work[r].obj
    BY <1>1, <2>1, <2>2 DEF Current
  <2>3. CASE ~Behind("Redis", r) /\ w.obj = Get("Redis", r)
    <3>1. watch["Redis"] \in Seq(Events)
      BY <1>0 DEF DataTypes
    <3>2. \A i \in 1 .. Len(watch["Redis"]) : watch["Redis"][i] \in ToSet(watch["Redis"])
      BY <3>1, LenProperties DEF ToSet
    <3>3. NoneAfter("Redis", r, 0)
      BY <2>3, <3>2 DEF Behind, NoneAfter
    <3>4. cached["Redis"][r] = api["Redis"][r]
      BY <1>0, <3>3 DEF InOrder
    <3> QED  BY <1>1, <2>1, <2>3, <3>4 DEF Get
  <2> QED  BY <1>4, <2>1, <2>2, <2>3 DEF ChangesWork, MayWork
<1>5. ASSUME NEW k \in Keys, NEW w, ChangesWork(k, w), k # r
      PROVE  work'[r] = work[r]
  BY <1>0, <1>5 DEF ChangesWork, WorkTypes
<1> QED  BY <1>2, <1>3, <1>4, <1>5 DEF WorkStep

LEMMA QueueTypesStep == TypeInv /\ [Next]_vars => QueueTypes' /\ edits' \in 0 .. MaxEdits
<1> SUFFICES ASSUME TypeInv, [Next]_vars
             PROVE  QueueTypes' /\ edits' \in 0 .. MaxEdits
  OBVIOUS
<1>0. /\ pending \subseteq Keys /\ delayed \subseteq Keys /\ edits \in 0 .. MaxEdits
      /\ Redises \subseteq Keys /\ Tenant \in Keys /\ MaxEdits \in Nat
      /\ \A r \in Redises : Notified(r) \subseteq Keys
  BY KeyFacts, ReconcilersAssumption DEF TypeInv, QueueTypes, Notified
<1>1. CASE UNCHANGED <<pending, delayed, edits>>
  BY <1>0, <1>1 DEF QueueTypes
<1>2. ASSUME NEW kind \in Kinds, Deliver(kind)
      PROVE  QueueTypes' /\ edits' \in 0 .. MaxEdits
  <2>1. watch[kind] \in Seq(Events) /\ watch[kind] # <<>>
    BY <1>2 DEF TypeInv, DataTypes, Deliver
  <2>2. Head(watch[kind]) \in Events
    BY <2>1, HeadTailProperties
  <2>3. Head(watch[kind]).key \in Keys
    BY <2>2 DEF Events
  <2>4. pending' \subseteq pending \cup {Head(watch[kind]).key}
    BY <1>2 DEF Deliver, ParseRedisKeyFromObj
  <2>5. delayed' = delayed /\ edits' = edits
    BY <1>2 DEF Deliver, bounds
  <2> QED  BY <1>0, <2>3, <2>4, <2>5 DEF QueueTypes
<1>3. ASSUME NEW k \in Keys, Fire(k)
      PROVE  QueueTypes' /\ edits' \in 0 .. MaxEdits
  BY <1>0, <1>3 DEF Fire, bounds, QueueTypes
<1>4. ASSUME NEW k \in Keys, NEW failed \in BOOLEAN, NEW again, NEW told \in SUBSET Keys,
             End(k, failed, again, told), edits' = edits
      PROVE  QueueTypes' /\ edits' \in 0 .. MaxEdits
  BY <1>0, <1>4 DEF End, QueueTypes
<1>5. ASSUME NEW r \in Redises, RedisStep(r)
      PROVE  QueueTypes' /\ edits' \in 0 .. MaxEdits
  <2>1. CASE StartRedis(r)
    <3>1. pending' \subseteq pending \cup Notified(r)
      BY <2>1 DEF StartRedis
    <3>2. delayed' = delayed /\ edits' = edits
      BY <2>1 DEF StartRedis, Take, bounds
    <3> QED  BY <1>0, <3>1, <3>2 DEF QueueTypes
  <2>2. CASE StatusKept(r) \/ UpdateStatus(r)
    <3>1. r \in Keys /\ work[r].failed \in BOOLEAN /\ {} \in SUBSET Keys
          /\ Notified(r) \in SUBSET Keys
      BY <1>0 DEF TypeInv, WorkTypes, RedisWork, WorkRecords
    <3>2. edits' = edits
      BY <2>2 DEF StatusKept, UpdateStatus, bounds, Fault
    <3>3. \/ End(r, work[r].failed, FALSE, {})
          \/ End(r, work[r].failed, FALSE, Notified(r))
          \/ End(r, TRUE, FALSE, Notified(r))
      BY <2>2 DEF StatusKept, UpdateStatus
    <3> QED  BY <1>4, <3>1, <3>2, <3>3
  <2>3. ASSUME NEW c \in Children,
               Create(r, c) \/ Patch(r, c) \/ LeftAlone(r, c) \/ Refused(r, c)
        PROVE  UNCHANGED <<pending, delayed, edits>>
    BY <2>3 DEF Create, Patch, LeftAlone, Refused, queues, bounds
  <2> QED  BY <1>1, <1>5, <2>1, <2>2, <2>3 DEF RedisStep
<1>6. CASE TenantStep
  <2>1. CASE StartTenant
    BY <1>0, <2>1 DEF StartTenant, Take, bounds, QueueTypes
  <2>2. CASE ListRedis
    <3>1. edits' = edits
      BY <2>2 DEF ListRedis, bounds
    <3>2. \/ UNCHANGED queues
          \/ \E again \in BOOLEAN : End(Tenant, FALSE, again, {})
      BY <2>2 DEF ListRedis, Again
    <3>3. {} \in SUBSET Keys /\ FALSE \in BOOLEAN
      OBVIOUS
    <3>4. CASE UNCHANGED queues
      BY <1>1, <3>1, <3>4 DEF queues
    <3>5. ASSUME NEW again \in BOOLEAN, End(Tenant, FALSE, again, {})
          PROVE  QueueTypes' /\ edits' \in 0 .. MaxEdits
      BY <1>0, <1>4, <3>1, <3>3, <3>5
    <3> QED  BY <3>2, <3>4, <3>5
  <2>3. CASE UpdateTenant
    <3>1. edits' = edits
      BY <2>3 DEF UpdateTenant, bounds, Fault
    <3>2. \/ End(Tenant, FALSE, work[Tenant].again, {})
          \/ End(Tenant, TRUE, FALSE, {})
      BY <2>3 DEF UpdateTenant
    <3>3. {} \in SUBSET Keys /\ FALSE \in BOOLEAN /\ TRUE \in BOOLEAN
      OBVIOUS
    <3>4. CASE End(Tenant, FALSE, work[Tenant].again, {})
      BY <1>0, <1>4, <3>1, <3>3, <3>4
    <3>5. CASE End(Tenant, TRUE, FALSE, {})
      BY <1>0, <1>4, <3>1, <3>3, <3>5
    <3> QED  BY <3>2, <3>4, <3>5
  <2> QED  BY <1>6, <2>1, <2>2, <2>3 DEF TenantStep
<1>7. ASSUME pending' = pending, delayed' = delayed,
             edits' = edits \/ (edits < MaxEdits /\ edits' = edits + 1)
      PROVE  QueueTypes' /\ edits' \in 0 .. MaxEdits
  <2>1. edits' \in 0 .. MaxEdits
    BY <1>0, <1>7
  <2> QED  BY <1>0, <1>7, <2>1 DEF QueueTypes
<1>8. CASE UserStep
  <2>1. \E op \in UserOps : Edit(op)
    BY <1>8 DEF UserStep, CreateRedis, EditImage, TogglePause, DeleteRedis, DeleteChild,
               CreateTenant, DeleteTenant, Edit
  <2> QED  BY <1>7, <2>1 DEF Edit, queues
<1>9. ASSUME NEW r \in Redises, ClusterStep(r) \/ PodFails(r)
      PROVE  QueueTypes' /\ edits' \in 0 .. MaxEdits
  BY <1>1, <1>9 DEF ClusterStep, CollectChild, FinishDeletion, PodsProgress, PodFails, Pods,
                    Fault, queues, bounds
<1>10. ASSUME NEW kind \in Kinds, Relist(kind)
       PROVE  QueueTypes' /\ edits' \in 0 .. MaxEdits
  BY <1>1, <1>10 DEF Relist, Fault, queues
<1>11. ASSUME NEW r \in Redises, NEW c \in Children, WriteFails(r, c) \/ CollectLate(r, c)
       PROVE  QueueTypes' /\ edits' \in 0 .. MaxEdits
  BY <1>1, <1>11 DEF WriteFails, CollectLate, Fault, queues
<1>12. CASE Restart
  <2>1. pending' \subseteq Keys /\ delayed' = {} /\ edits' = edits
    BY <1>0, <1>12 DEF Restart, Fault
  <2> QED  BY <1>0, <2>1 DEF QueueTypes
<1>13. CASE UNCHANGED vars
  BY <1>1, <1>13 DEF vars
<1> QED  BY <1>2, <1>3, <1>5, <1>6, <1>8, <1>9, <1>10, <1>11, <1>12, <1>13 DEF Next

LEMMA TakenTypesStep == TakenTypes /\ DataStep => TakenTypes'
<1> SUFFICES ASSUME TakenTypes, DataStep  PROVE TakenTypes'
  OBVIOUS
<1>1. CASE takenOver' = takenOver
  BY <1>1 DEF TakenTypes
<1>2. ASSUME NEW kind \in Kinds, NEW k \in Keys, NEW object \in Values(kind),
             Writes(kind, k, object)
      PROVE  TakenTypes'
  <2>1. ReplacesOwner(kind, k, object) => <<kind, k>> \in Children \X Redises
    BY <1>2 DEF Writes, ReplacesOwner, MayPutChild
  <2>2. \/ takenOver' \subseteq takenOver
        \/ /\ ReplacesOwner(kind, k, object)
           /\ takenOver' = takenOver \cup {<<kind, k>>}
    BY <1>2 DEF Writes, Put
  <2> QED  BY <2>1, <2>2 DEF TakenTypes
<1> QED  BY <1>1, <1>2 DEF DataStep, Still, Restarts, Delivers, Relists

LEMMA TypeInvInit == Init => TypeInv
<1> SUFFICES ASSUME Init  PROVE TypeInv
  OBVIOUS
<1>1. Absent \in Everything /\ \A kind \in Kinds : Absent \in Values(kind)
  BY KindFacts DEF Everything, Values
<1>2. /\ api = [kind \in Kinds |-> [k \in Keys |-> Absent]] /\ cached = api
      /\ watch = [kind \in Kinds |-> <<>>] /\ work = [k \in Keys |-> Idle]
      /\ pending = {} /\ delayed = {} /\ edits = 0 /\ takenOver = {}
  BY DEF Init
<1>3. \A kind \in Kinds : watch[kind] = <<>> /\ Len(watch[kind]) = 0
  BY <1>2
<1>4. DataTypes
  <2>1. watch \in [Kinds -> Seq(Events)]
    BY <1>2
  <2>2. /\ api \in [Kinds -> [Keys -> Everything]] /\ cached \in [Kinds -> [Keys -> Everything]]
        /\ \A kind \in Kinds, k \in Keys : api[kind][k] = Absent /\ cached[kind][k] = Absent
    BY <1>1, <1>2
  <2> QED  BY <1>1, <1>3, <2>1, <2>2 DEF DataTypes
<1>5. \A k \in Keys : work[k] = Idle
  BY <1>2
<1>6. work \in [Keys -> RedisWork \cup TenantWork]
  BY <1>2, IdleTypes
<1>7. WorkTypes
  BY <1>5, <1>6, IdleTypes, KeyFacts DEF WorkTypes
<1>8. QueueTypes /\ TakenTypes /\ edits \in 0 .. MaxEdits
  BY <1>2, ReconcilersAssumption DEF QueueTypes, TakenTypes
<1>9. InOrder
  BY <1>2, <1>3 DEF InOrder
<1>10. Current
  BY <1>5, IdleTypes, KeyFacts DEF Current
<1> QED  BY <1>4, <1>7, <1>8, <1>9, <1>10 DEF TypeInv

LEMMA TypeInvStep == TypeInv /\ [Next]_vars => TypeInv'
<1> SUFFICES ASSUME TypeInv, [Next]_vars  PROVE TypeInv'
  OBVIOUS
<1>1. DataStep /\ WorkStep
  BY StepIsDataStep, StepIsWorkStep
<1>2. DataTypes /\ WorkTypes /\ InOrder /\ Current
  BY DEF TypeInv
<1>3. DataTypes' /\ InOrder'
  BY <1>1, <1>2, DataTypesStep, InOrderStep
<1>4. WorkTypes' /\ Current'
  BY <1>1, <1>2, WorkTypesStep, CurrentStep
<1>5. QueueTypes' /\ (edits \in 0 .. MaxEdits)'
  BY QueueTypesStep
<1>6. TakenTypes'
  BY <1>1, TakenTypesStep DEF TypeInv
<1> QED  BY <1>3, <1>4, <1>5, <1>6 DEF TypeInv

LEMMA TypesAlways == Spec => []TypeInv
BY TypeInvInit, TypeInvStep, PTL DEF Spec

LEMMA TypeInvImpliesTypeOK == TypeInv => RTypeOK
<1> SUFFICES ASSUME TypeInv  PROVE RTypeOK
  OBVIOUS
<1>1. ASSUME NEW kind \in Kinds
      PROVE  /\ \A k \in Keys : /\ api[kind][k] \in Objects(kind) \cup {Absent}
                                /\ cached[kind][k] \in Objects(kind) \cup {Absent}
             /\ \A e \in ToSet(watch[kind]) : e.object \in Objects(kind) \cup {Absent}
  <2>1. watch[kind] \in Seq(Events)
    BY DEF TypeInv, DataTypes
  <2>2. DOMAIN watch[kind] = 1 .. Len(watch[kind])
    BY <2>1, LenProperties
  <2> QED  BY <2>2 DEF TypeInv, DataTypes, Values, ToSet
<1>2. WorkTypeOK
  <2>1. ASSUME NEW k \in Keys
        PROVE  /\ work[k].at \in IF k = Tenant THEN {"idle", "list", "update"}
                                              ELSE {"idle", "children"}
               /\ work[k].obj \in {Absent} \cup
                    (IF k = Tenant THEN TenantObjects ELSE RedisObjects)
               /\ work[k].todo \subseteq Children
               /\ work[k].stale \in BOOLEAN /\ work[k].ready \in BOOLEAN
               /\ work[k].failed \in BOOLEAN /\ work[k].again \in BOOLEAN
    <3>1. CASE k = Tenant
      <4>1. work[k] \in TenantWork
        BY <3>1, WorkOf DEF TypeInv
      <4> QED  BY <3>1, <4>1 DEF TenantWork, WorkRecords
    <3>2. CASE k # Tenant
      <4>1. work[k] \in RedisWork
        BY <3>2, WorkOf DEF TypeInv
      <4> QED  BY <3>2, <4>1 DEF RedisWork, WorkRecords
    <3> QED  BY <3>1, <3>2
  <2> QED  BY <2>1 DEF WorkTypeOK
<1> QED  BY <1>1, <1>2 DEF RTypeOK, TypeInv, QueueTypes, TakenTypes

\* Every variable keeps its type: no status is written to a Redis that is gone,
\* and no count exceeds the number of Redis there can be.
THEOREM ReconcilersTypes == Spec => []RTypeOK
BY TypesAlways, TypeInvImpliesTypeOK, PTL

\* Optimistic locking: while a reconciliation of a Redis runs, a copy that a
\* write of its status would not be refused for is the object the API server has.
THEOREM StatusOfTheCurrent == Spec => []Current
BY TypesAlways, PTL DEF TypeInv

-----------------------------------------------------------------------------
(***************************************************************************)
(* The finalizer.  The Tenant reconciler lists a cache that lags, decides, *)
(* and updates later.  That the update frees the tenant of no Redis that a *)
(* list has shown rests on the uids: none is used twice (Numbered), nor    *)
(* under two names (OneName); a cache or stream that has come to the       *)
(* present life of a name stays in it (Settled), so that a Redis once      *)
(* listed is in every later list while it exists (ListedCached).           *)
(***************************************************************************)
Stream == watch["Redis"]

\* o is what the server, the cache or an event has for the name r.
Known(r, o) ==
  \/ o = api["Redis"][r]
  \/ o = cached["Redis"][r]
  \/ \E i \in 1 .. Len(Stream) : Stream[i].key = r /\ Stream[i].object = o

Is(o, uid) == o # Absent /\ o.uid = uid

Numbered ==
  /\ \A r \in Redises : \A o : Known(r, o) /\ o # Absent => o.uid <= edits
  /\ listed \subseteq 1 .. edits

OneName ==
  \A r, q \in Redises : \A o :
     Exists("Redis", r) /\ Known(q, o) /\ Is(o, api["Redis"][r].uid) => q = r

SettledOn(r, uid) ==
  /\ Is(cached["Redis"][r], uid) =>
       \A i \in 1 .. Len(Stream) : Stream[i].key = r => Is(Stream[i].object, uid)
  /\ \A i, j \in 1 .. Len(Stream) :
       i < j /\ Stream[i].key = r /\ Stream[j].key = r /\ Is(Stream[i].object, uid)
         => Is(Stream[j].object, uid)

Settled ==
  \A r \in Redises : Exists("Redis", r) => SettledOn(r, api["Redis"][r].uid)

ListedCached ==
  \A r \in Redises :
     Exists("Redis", r) /\ api["Redis"][r].uid \in listed
       => r \in Labelled /\ Is(cached["Redis"][r], api["Redis"][r].uid)

Free ==
  work[Tenant].at = "update" /\ ~work[Tenant].obj.finalizer
    => \A r \in Redises : Exists("Redis", r) => api["Redis"][r].uid \notin listed

FinalizerInv == Numbered /\ OneName /\ Settled /\ ListedCached /\ Free

(***************************************************************************)
(* What a step does to the Redis: nothing to those of the server, or one   *)
(* write.                                                                  *)
(***************************************************************************)
ServerKept == \A r \in Redises : api'["Redis"][r] = api["Redis"][r]

\* How a step that writes no Redis moves its cache and stream on.
RedisSeen ==
  \/ cached'["Redis"] = cached["Redis"] /\ watch'["Redis"] = watch["Redis"]
  \/ cached'["Redis"] = api["Redis"] /\ Len(watch'["Redis"]) = 0
  \/ Delivers("Redis")
  \/ Relists("Redis")

RedisWritten(r, object) ==
  /\ r \in Redises
  /\ object \in RedisObjects \cup {Absent}
  /\ Put("Redis", r, object)
  /\ UNCHANGED cached
  /\ MayPutRedis(r, object)

LEMMA RedisStepClass ==
  ASSUME DataTypes, DataStep
  PROVE  (ServerKept /\ RedisSeen) \/ \E r, object : RedisWritten(r, object)
<1>0. "Redis" \in Kinds /\ Redises \subseteq Keys
  BY KindFacts, KeyFacts
<1>1. CASE Still
  BY <1>1 DEF Still, ServerKept, RedisSeen
<1>2. CASE Restarts
  <2>1. watch'["Redis"] = <<>>
    BY <1>0, <1>2 DEF Restarts
  <2> QED  BY <1>2, <2>1 DEF Restarts, ServerKept, RedisSeen
<1>3. ASSUME NEW kind \in Kinds, Delivers(kind)  PROVE ServerKept /\ RedisSeen
  <2>1. CASE kind = "Redis"
    BY <1>3, <2>1 DEF Delivers, ServerKept, RedisSeen
  <2>2. CASE kind # "Redis"
    <3>1. watch'["Redis"] = watch["Redis"]
      BY <1>0, <1>3, <2>2, AfterDelivery
    <3>2. cached'["Redis"] = cached["Redis"]
      BY <1>0, <1>3, <2>2 DEF Delivers, DataTypes
    <3> QED  BY <1>3, <3>1, <3>2 DEF Delivers, ServerKept, RedisSeen
  <2> QED  BY <2>1, <2>2
<1>4. ASSUME NEW kind \in Kinds, Relists(kind)  PROVE ServerKept /\ RedisSeen
  <2>1. CASE kind = "Redis"
    BY <1>4, <2>1 DEF Relists, ServerKept, RedisSeen
  <2>2. CASE kind # "Redis"
    <3>1. watch'["Redis"] = watch["Redis"]
      BY <1>0, <1>4, <2>2, AfterListing
    <3> QED  BY <1>4, <3>1 DEF Relists, ServerKept, RedisSeen
  <2> QED  BY <2>1, <2>2
<1>5. ASSUME NEW kind \in Kinds, NEW k \in Keys, NEW object \in Values(kind),
             Writes(kind, k, object)
      PROVE  (ServerKept /\ RedisSeen) \/ RedisWritten(k, object)
  <2>1. Put(kind, k, object) /\ cached' = cached
    BY <1>5 DEF Writes
  <2>2. CASE kind = "Redis"
    <3>1. object \in RedisObjects \cup {Absent} /\ MayPutRedis(k, object)
      BY <1>5, <2>2, KindFacts DEF Writes, Values
    <3> QED  BY <2>1, <2>2, <3>1 DEF RedisWritten, MayPutRedis
  <2>3. CASE kind # "Redis"
    <3>1. /\ \A K \in Kinds : K # kind => watch'[K] = watch[K]
          /\ \A K \in Kinds, q \in Keys : K # kind \/ q # k => api'[K][q] = api[K][q]
      BY <2>1, AfterWrite
    <3> QED  BY <1>0, <2>1, <2>3, <3>1 DEF ServerKept, RedisSeen
  <2> QED  BY <2>2, <2>3
<1> QED  BY <1>1, <1>2, <1>3, <1>4, <1>5 DEF DataStep

\* The server, the cache and the stream after one write.
LEMMA AfterRedisWritten ==
  ASSUME DataTypes, NEW r, NEW object, RedisWritten(r, object)
  PROVE  /\ r \in Redises
         /\ cached' = cached
         /\ api'["Redis"][r] = object
         /\ \A q \in Redises : q # r => api'["Redis"][q] = api["Redis"][q]
         /\ Len(watch["Redis"]) \in Nat
         /\ Len(watch'["Redis"]) = Len(watch["Redis"]) + 1
         /\ \A i \in 1 .. Len(watch["Redis"]) : watch'["Redis"][i] = watch["Redis"][i]
         /\ watch'["Redis"][Len(watch["Redis"]) + 1].key = r
         /\ watch'["Redis"][Len(watch["Redis"]) + 1].object = object
<1>1. /\ "Redis" \in Kinds /\ r \in Keys /\ r \in Redises /\ Redises \subseteq Keys
      /\ object \in Values("Redis") /\ Put("Redis", r, object) /\ cached' = cached
  BY KindFacts, KeyFacts DEF RedisWritten, Values
<1>2. /\ api'["Redis"][r] = object
      /\ \A q \in Keys : q # r => api'["Redis"][q] = api["Redis"][q]
      /\ Len(watch'["Redis"]) = Len(watch["Redis"]) + 1
      /\ \A i \in 1 .. Len(watch["Redis"]) : watch'["Redis"][i] = watch["Redis"][i]
      /\ watch'["Redis"][Len(watch["Redis"]) + 1] =
           [key |-> r, object |-> object, changed |-> TRUE]
  BY <1>1, AfterWrite
<1>3. Len(watch["Redis"]) \in Nat
  BY <1>1, LenProperties DEF DataTypes
<1> QED  BY <1>1, <1>2, <1>3

\* What is known is a Redis, with a uid.
LEMMA KnownTypes ==
  ASSUME DataTypes, NEW r \in Redises, NEW o, Known(r, o), o # Absent
  PROVE  o \in RedisObjects /\ o.uid \in 1 .. MaxEdits
<1>1. "Redis" \in Kinds /\ r \in Keys /\ Values("Redis") = RedisObjects \cup {Absent}
  BY KindFacts, KeyFacts DEF Values
<1>2. o \in Values("Redis")
  BY <1>1 DEF Known, Stream, DataTypes
<1> QED  BY <1>1, <1>2 DEF RedisObjects, Uids

\* What is known after a step was known before, or is what it writes.
LEMMA KnownBefore ==
  ASSUME DataTypes, ServerKept, RedisSeen, NEW r \in Redises, NEW o, Known(r, o)'
  PROVE  Known(r, o)
<1>0. "Redis" \in Kinds /\ r \in Keys /\ Len(watch["Redis"]) \in Nat
  BY KindFacts, KeyFacts, LenProperties DEF DataTypes
<1>1. CASE o = api'["Redis"][r]
  BY <1>1 DEF ServerKept, Known
<1>2. CASE o = cached'["Redis"][r]
  <2>1. CASE cached'["Redis"] = cached["Redis"] \/ cached'["Redis"] = api["Redis"]
    BY <1>2, <2>1 DEF Known
  <2>2. CASE Relists("Redis")
    BY <1>2, <2>2 DEF Relists, Known
  <2>3. CASE Delivers("Redis")
    <3>1. /\ Len(watch["Redis"]) \in Nat \ {0}
          /\ cached'["Redis"][watch["Redis"][1].key] = watch["Redis"][1].object
          /\ \A q \in Keys : q # watch["Redis"][1].key =>
                               cached'["Redis"][q] = cached["Redis"][q]
      BY <1>0, <2>3, AfterDelivery
    <3>2. 1 \in 1 .. Len(watch["Redis"])
      BY <3>1
    <3> QED  BY <1>0, <1>2, <3>1, <3>2 DEF Known, Stream
  <2> QED  BY <2>1, <2>2, <2>3 DEF RedisSeen
<1>3. ASSUME NEW i \in 1 .. Len(watch'["Redis"]), watch'["Redis"][i].key = r,
             watch'["Redis"][i].object = o
      PROVE  Known(r, o)
  <2>1. CASE watch'["Redis"] = watch["Redis"]
    BY <1>3, <2>1 DEF Known, Stream
  <2>2. CASE Len(watch'["Redis"]) = 0
    BY <1>3, <2>2
  <2>3. CASE Delivers("Redis")
    <3>1. /\ Len(watch["Redis"]) \in Nat \ {0}
          /\ Len(watch'["Redis"]) = Len(watch["Redis"]) - 1
          /\ \A j \in 1 .. Len(watch'["Redis"]) : watch'["Redis"][j] = watch["Redis"][j + 1]
      BY <1>0, <2>3, AfterDelivery
    <3>2. i + 1 \in 1 .. Len(watch["Redis"])
      BY <1>3, <3>1
    <3> QED  BY <1>3, <3>1, <3>2 DEF Known, Stream
  <2>4. CASE Relists("Redis")
    <3>1. PICK n \in 0 .. Len(watch["Redis"]), new \in Seq(Events) :
            /\ Lists("Redis", n, new)
            /\ n \in Nat /\ Len(new) \in Nat
            /\ Len(watch'["Redis"]) = n + Len(new)
            /\ \A j \in 1 .. n : watch'["Redis"][j] = watch["Redis"][j]
            /\ \A j \in 1 .. Len(new) : watch'["Redis"][n + j] = new[j]
      BY <1>0, <2>4, AfterListing
    <3>2. CASE i <= n
      <4>1. i \in 1 .. n /\ i \in 1 .. Len(watch["Redis"])
        BY <1>0, <1>3, <3>1, <3>2
      <4> QED  BY <1>3, <3>1, <4>1 DEF Known, Stream
    <3>3. CASE ~(i <= n)
      <4>1. i - n \in 1 .. Len(new) /\ n + (i - n) = i
        BY <1>3, <3>1, <3>3
      <4>2. watch'["Redis"][i] = new[i - n]
        BY <3>1, <4>1
      <4>3. o = api["Redis"][r]
        BY <1>3, <3>1, <4>1, <4>2 DEF Lists
      <4> QED  BY <4>3 DEF Known
    <3> QED  BY <3>2, <3>3
  <2> QED  BY <2>1, <2>2, <2>3, <2>4 DEF RedisSeen
<1> QED  BY <1>1, <1>2, <1>3 DEF Known, Stream

LEMMA KnownOrWritten ==
  ASSUME DataTypes, NEW r, NEW object, RedisWritten(r, object),
         NEW q \in Redises, NEW o, Known(q, o)'
  PROVE  Known(q, o) \/ (q = r /\ o = object)
<1>1. /\ cached' = cached
      /\ api'["Redis"][r] = object
      /\ q # r => api'["Redis"][q] = api["Redis"][q]
      /\ Len(watch["Redis"]) \in Nat
      /\ Len(watch'["Redis"]) = Len(watch["Redis"]) + 1
      /\ \A i \in 1 .. Len(watch["Redis"]) : watch'["Redis"][i] = watch["Redis"][i]
      /\ watch'["Redis"][Len(watch["Redis"]) + 1].key = r
      /\ watch'["Redis"][Len(watch["Redis"]) + 1].object = object
  BY AfterRedisWritten
<1>2. CASE o = api'["Redis"][q] \/ o = cached'["Redis"][q]
  BY <1>1, <1>2 DEF Known
<1>3. ASSUME NEW i \in 1 .. Len(watch'["Redis"]), watch'["Redis"][i].key = q,
             watch'["Redis"][i].object = o
      PROVE  Known(q, o) \/ (q = r /\ o = object)
  <2>1. CASE i = Len(watch["Redis"]) + 1
    BY <1>1, <1>3, <2>1
  <2>2. CASE i # Len(watch["Redis"]) + 1
    <3>1. i \in 1 .. Len(watch["Redis"])
      BY <1>1, <1>3, <2>2
    <3> QED  BY <1>1, <1>3, <3>1 DEF Known, Stream
  <2> QED  BY <2>1, <2>2
<1> QED  BY <1>2, <1>3 DEF Known, Stream

-----------------------------------------------------------------------------
(***************************************************************************)
(* The counters of a step.                                                 *)
(***************************************************************************)
CountersKept == (edits' = edits \/ edits' = edits + 1) /\ listed' = listed

ListsUids ==
  /\ ListRedis
  /\ Still /\ edits' = edits
  /\ listed' = listed \cup {Get("Redis", q).uid : q \in Owned}

LEMMA CountersStep == [Next]_vars => CountersKept \/ ListsUids
<1> SUFFICES ASSUME [Next]_vars  PROVE CountersKept \/ ListsUids
  OBVIOUS
<1>1. CASE UNCHANGED <<edits, listed>> \/ UNCHANGED vars
  BY <1>1 DEF vars, CountersKept
<1>2. CASE \E op \in UserOps : Edit(op)
  BY <1>2 DEF Edit, CountersKept
<1>3. CASE Fault /\ UNCHANGED listed
  BY <1>3 DEF Fault, CountersKept
<1>4. ASSUME NEW kind \in Kinds, Deliver(kind) \/ Relist(kind)
      PROVE  CountersKept
  BY <1>4 DEF Deliver, Relist, Fault, bounds, history, CountersKept
<1>5. ASSUME NEW r \in Redises, RedisStep(r) \/ ClusterStep(r) \/ PodFails(r)
      PROVE  CountersKept
  <2>1. CASE RedisStep(r)
    BY <2>1 DEF RedisStep, StartRedis, Take, Create, Patch, LeftAlone, Refused, StatusKept,
                UpdateStatus, Fault, bounds, history, CountersKept
  <2>2. CASE ClusterStep(r) \/ PodFails(r)
    BY <2>2 DEF ClusterStep, CollectChild, FinishDeletion, PodsProgress, PodFails, Pods,
                Fault, bounds, history, CountersKept
  <2> QED  BY <1>5, <2>1, <2>2
<1>6. CASE TenantStep
  <2>1. CASE ListRedis
    BY <2>1 DEF ListRedis, ListsUids, Still, cluster, bounds
  <2>2. CASE StartTenant \/ UpdateTenant
    BY <2>2 DEF StartTenant, Take, UpdateTenant, Fault, bounds, history, CountersKept
  <2> QED  BY <1>6, <2>1, <2>2 DEF TenantStep
<1>7. CASE UserStep
  <2>1. \E op \in UserOps : Edit(op)
    BY <1>7 DEF UserStep, CreateRedis, EditImage, TogglePause, DeleteRedis, DeleteChild,
               CreateTenant, DeleteTenant, Edit
  <2> QED  BY <1>2, <2>1
<1>8. CASE (\E k \in Keys : Fire(k)) \/ Restart
          \/ (\E r \in Redises, c \in Children : WriteFails(r, c) \/ CollectLate(r, c))
  BY <1>8 DEF Fire, Restart, WriteFails, CollectLate, Fault, bounds, history, CountersKept
<1> QED  BY <1>1, <1>4, <1>5, <1>6, <1>7, <1>8 DEF Next

-----------------------------------------------------------------------------
(***************************************************************************)
(* The uids.                                                               *)
(***************************************************************************)
\* The three ways to write a Redis: it is gone, it is the same, or it is new.
LEMMA WrittenUid ==
  ASSUME DataTypes, Numbered, edits \in Nat, NEW r, NEW object, RedisWritten(r, object)
  PROVE  \/ object = Absent
         \/ /\ object # Absent /\ Exists("Redis", r)
            /\ object.uid = api["Redis"][r].uid
         \/ /\ object # Absent /\ object.uid = edits + 1 /\ edits' = edits + 1
            /\ edits + 1 \notin listed
            /\ \A q \in Redises : \A o : Known(q, o) => ~Is(o, edits + 1)
<1>1. edits + 1 \notin listed
  BY DEF Numbered
<1>2. ASSUME NEW q \in Redises, NEW o, Known(q, o), o # Absent
      PROVE  o.uid # edits + 1
  <2>1. o.uid \in 1 .. MaxEdits /\ o.uid <= edits
    BY <1>2, KnownTypes DEF Numbered
  <2> QED  BY <2>1, ReconcilersAssumption
<1> QED  BY <1>1, <1>2 DEF RedisWritten, MayPutRedis, Is

LEMMA NumberedStep ==
  ASSUME TypeInv, [Next]_vars, Numbered
  PROVE  Numbered'
<1>0. DataTypes /\ DataStep /\ edits \in Nat /\ MaxEdits \in Nat /\ edits' \in Nat
  BY StepIsDataStep, CountersStep, ReconcilersAssumption DEF TypeInv, CountersKept, ListsUids
<1>1. edits' = edits \/ edits' = edits + 1
  BY CountersStep DEF CountersKept, ListsUids
<1>2. ASSUME NEW q \in Redises, NEW o, Known(q, o)', o # Absent  PROVE o.uid <= edits'
  <2>1. CASE Known(q, o)
    <3>1. o.uid <= edits /\ o.uid \in 1 .. MaxEdits
      BY <1>0, <1>2, <2>1, KnownTypes DEF Numbered
    <3> QED  BY <1>0, <1>1, <3>1
  <2>2. ASSUME NEW r, NEW object, RedisWritten(r, object), q = r, o = object
        PROVE  o.uid <= edits'
    <3>1. r \in Redises
      BY <2>2 DEF RedisWritten
    <3>2. CASE Exists("Redis", r) /\ object.uid = api["Redis"][r].uid
      <4>1. Known(r, api["Redis"][r]) /\ api["Redis"][r] # Absent
        BY <3>2 DEF Known, Exists
      <4>2. api["Redis"][r].uid <= edits /\ api["Redis"][r].uid \in 1 .. MaxEdits
        BY <1>0, <3>1, <4>1, KnownTypes DEF Numbered
      <4> QED  BY <1>0, <1>1, <2>2, <3>2, <4>2
    <3>3. CASE object.uid = edits + 1 /\ edits' = edits + 1
      BY <1>0, <2>2, <3>3
    <3> QED  BY <1>0, <1>2, <2>2, <3>2, <3>3, WrittenUid
  <2>3. CASE ServerKept /\ RedisSeen
    BY <1>0, <1>2, <2>1, <2>3, KnownBefore
  <2>4. ASSUME NEW r, NEW object, RedisWritten(r, object)
        PROVE  o.uid <= edits'
    BY <1>0, <1>2, <2>1, <2>2, <2>4, KnownOrWritten
  <2> QED  BY <1>0, <2>3, <2>4, RedisStepClass
<1>3. listed' \subseteq 1 .. edits'
  <2>1. listed \subseteq 1 .. edits'
    BY <1>0, <1>1 DEF Numbered
  <2>2. ASSUME ListsUids, NEW q \in Owned
        PROVE  Get("Redis", q).uid \in 1 .. edits'
    <3>1. q \in Redises /\ Get("Redis", q) # Absent /\ Known(q, Get("Redis", q))
      BY ReconcilersAssumption DEF Owned, Get, Known
    <3>2. Get("Redis", q).uid \in 1 .. MaxEdits /\ Get("Redis", q).uid <= edits
      BY <1>0, <3>1, KnownTypes DEF Numbered
    <3> QED  BY <1>0, <1>1, <3>2
  <2> QED  BY <2>1, <2>2, CountersStep DEF CountersKept, ListsUids
<1> QED  BY <1>2, <1>3 DEF Numbered

LEMMA OneNameStep ==
  ASSUME TypeInv, [Next]_vars, Numbered, OneName
  PROVE  OneName'
<1>0. DataTypes /\ DataStep /\ edits \in Nat
  BY StepIsDataStep, ReconcilersAssumption DEF TypeInv
<1> SUFFICES ASSUME NEW r \in Redises, NEW q \in Redises, NEW o,
                    api'["Redis"][r] # Absent, Known(q, o)', Is(o, api'["Redis"][r].uid)
             PROVE  q = r
  BY DEF OneName, Exists, Is
<1>1. CASE ServerKept /\ RedisSeen
  BY <1>0, <1>1, KnownBefore DEF ServerKept, OneName, Exists
<1>2. ASSUME NEW k, NEW object, RedisWritten(k, object)
      PROVE  q = r
  <2>1. /\ k \in Redises
        /\ api'["Redis"][k] = object
        /\ \A p \in Redises : p # k => api'["Redis"][p] = api["Redis"][p]
    BY <1>0, <1>2, AfterRedisWritten
  <2>2. Known(q, o) \/ (q = k /\ o = object)
    BY <1>0, <1>2, KnownOrWritten
  <2>3. Known(k, api["Redis"][k]) /\ Known(r, api["Redis"][r])
    BY DEF Known
  <2>4. CASE r = k
    <3>1. CASE Exists("Redis", k) /\ object.uid = api["Redis"][k].uid
      BY <2>1, <2>2, <2>4, <3>1 DEF OneName
    <3>2. CASE object.uid = edits + 1 /\ \A p \in Redises : \A x : Known(p, x) => ~Is(x, edits + 1)
      BY <2>1, <2>2, <2>4, <3>2
    <3> QED  BY <1>0, <1>2, <2>1, <2>4, <3>1, <3>2, WrittenUid
  <2>5. CASE r # k
    <3>1. api'["Redis"][r] = api["Redis"][r] /\ Exists("Redis", r)
      BY <2>1, <2>5 DEF Exists
    <3>2. CASE Known(q, o)
      BY <3>1, <3>2 DEF OneName
    <3>3. CASE q = k /\ o = object
      <4>1. object # Absent /\ object.uid = api["Redis"][r].uid
        BY <3>1, <3>3 DEF Is
      <4>2. CASE Exists("Redis", k) /\ object.uid = api["Redis"][k].uid
        <5>1. Is(api["Redis"][k], api["Redis"][r].uid)
          BY <4>1, <4>2 DEF Is, Exists
        <5> QED  BY <2>1, <2>3, <3>1, <3>3, <5>1 DEF OneName
      <4>3. CASE object.uid = edits + 1 /\ \A p \in Redises : \A x : Known(p, x) => ~Is(x, edits + 1)
        BY <2>3, <3>1, <4>1, <4>3 DEF Is, Exists
      <4> QED  BY <1>0, <1>2, <4>1, <4>2, <4>3, WrittenUid
    <3> QED  BY <2>2, <3>2, <3>3
  <2> QED  BY <2>4, <2>5
<1> QED  BY <1>0, <1>1, <1>2, RedisStepClass

-----------------------------------------------------------------------------
(***************************************************************************)
(* Caches and streams settle.                                              *)
(***************************************************************************)
\* Nothing known of the name has the uid.
LEMMA UnknownIsSettled ==
  ASSUME DataTypes, NEW r, NEW object, RedisWritten(r, object), NEW uid,
         \A o : Known(r, o) => ~Is(o, uid)
  PROVE  SettledOn(r, uid)'
<1>1. /\ cached' = cached
      /\ Len(watch["Redis"]) \in Nat
      /\ Len(watch'["Redis"]) = Len(watch["Redis"]) + 1
      /\ \A i \in 1 .. Len(watch["Redis"]) : watch'["Redis"][i] = watch["Redis"][i]
  BY AfterRedisWritten
<1>2. ~Is(cached'["Redis"][r], uid)
  BY <1>1 DEF Known
<1>3. ASSUME NEW i \in 1 .. Len(watch'["Redis"]), NEW j \in 1 .. Len(watch'["Redis"]), i < j,
             watch'["Redis"][i].key = r
      PROVE  ~Is(watch'["Redis"][i].object, uid)
  <2>1. i \in 1 .. Len(watch["Redis"])
    BY <1>1, <1>3
  <2>2. watch'["Redis"][i] = watch["Redis"][i]
    BY <1>1, <2>1
  <2> QED  BY <1>3, <2>1, <2>2 DEF Known, Stream
<1>4. \A i, j \in 1 .. Len(watch'["Redis"]) :
        i < j /\ watch'["Redis"][i].key = r => ~Is(watch'["Redis"][i].object, uid)
  BY <1>3
<1> QED  BY <1>2, <1>4 DEF SettledOn, Stream, Is

\* One more event: of another name, or of the same Redis.
LEMMA WriteKeepsSettled ==
  ASSUME DataTypes, NEW k, NEW object, RedisWritten(k, object), NEW r \in Redises, NEW uid,
         SettledOn(r, uid), r = k => Is(object, uid)
  PROVE  SettledOn(r, uid)'
<1> DEFINE last == Len(watch["Redis"]) + 1
<1>1. /\ cached' = cached
      /\ Len(watch["Redis"]) \in Nat
      /\ Len(watch'["Redis"]) = last
      /\ \A i \in 1 .. Len(watch["Redis"]) : watch'["Redis"][i] = watch["Redis"][i]
      /\ watch'["Redis"][last].key = k
      /\ watch'["Redis"][last].object = object
  BY AfterRedisWritten
<1>2. ASSUME NEW i \in 1 .. Len(watch'["Redis"]), watch'["Redis"][i].key = r
      PROVE  \/ Is(watch'["Redis"][i].object, uid)
             \/ i \in 1 .. Len(watch["Redis"]) /\ watch'["Redis"][i] = watch["Redis"][i]
  <2>1. CASE i = last
    BY <1>1, <1>2, <2>1
  <2>2. CASE i # last
    BY <1>1, <1>2, <2>2
  <2> QED  BY <2>1, <2>2
<1>3. ASSUME Is(cached'["Redis"][r], uid), NEW i \in 1 .. Len(watch'["Redis"]),
             watch'["Redis"][i].key = r
      PROVE  Is(watch'["Redis"][i].object, uid)
  BY <1>1, <1>2, <1>3 DEF SettledOn, Stream
<1>4. ASSUME NEW i \in 1 .. Len(watch'["Redis"]), NEW j \in 1 .. Len(watch'["Redis"]), i < j,
             watch'["Redis"][i].key = r, watch'["Redis"][j].key = r,
             Is(watch'["Redis"][i].object, uid)
      PROVE  Is(watch'["Redis"][j].object, uid)
  <2>1. CASE j \in 1 .. Len(watch["Redis"]) /\ watch'["Redis"][j] = watch["Redis"][j]
    <3>1. i \in 1 .. Len(watch["Redis"])
      BY <1>1, <1>4, <2>1
    <3>2. watch'["Redis"][i] = watch["Redis"][i]
      BY <1>1, <3>1
    <3> QED  BY <1>4, <2>1, <3>1, <3>2 DEF SettledOn, Stream
  <2> QED  BY <1>2, <1>4, <2>1
<1> QED  BY <1>3, <1>4 DEF SettledOn, Stream, Is

LEMMA SeenKeepsSettled ==
  ASSUME DataTypes, RedisSeen, NEW r \in Redises, Exists("Redis", r),
         SettledOn(r, api["Redis"][r].uid)
  PROVE  SettledOn(r, api["Redis"][r].uid)' \/ api'["Redis"][r] # api["Redis"][r]
<1> SUFFICES ASSUME api'["Redis"][r] = api["Redis"][r], NEW uid, uid = api["Redis"][r].uid
             PROVE  SettledOn(r, uid)'
  BY DEF SettledOn, Is, Stream
<1>0. /\ "Redis" \in Kinds /\ r \in Keys /\ Len(watch["Redis"]) \in Nat
      /\ SettledOn(r, uid) /\ Is(api["Redis"][r], uid)
  BY KindFacts, KeyFacts, LenProperties DEF DataTypes, Is, Exists
<1>1. CASE cached'["Redis"] = cached["Redis"] /\ watch'["Redis"] = watch["Redis"]
  BY <1>0, <1>1 DEF SettledOn, Stream, Is
<1>2. CASE cached'["Redis"] = api["Redis"] /\ Len(watch'["Redis"]) = 0
  BY <1>2 DEF SettledOn, Stream, Is
<1>3. CASE Delivers("Redis")
  <2>1. /\ Len(watch["Redis"]) \in Nat \ {0}
        /\ cached'["Redis"][watch["Redis"][1].key] = watch["Redis"][1].object
        /\ \A q \in Keys : q # watch["Redis"][1].key =>
                             cached'["Redis"][q] = cached["Redis"][q]
        /\ Len(watch'["Redis"]) = Len(watch["Redis"]) - 1
        /\ \A i \in 1 .. Len(watch'["Redis"]) : watch'["Redis"][i] = watch["Redis"][i + 1]
    BY <1>0, <1>3, AfterDelivery
  <2>2. \A i \in 1 .. Len(watch'["Redis"]) :
          i + 1 \in 1 .. Len(watch["Redis"]) /\ 1 < i + 1 /\ 1 \in 1 .. Len(watch["Redis"])
    BY <2>1
  <2>3. ASSUME Is(cached'["Redis"][r], uid), NEW i \in 1 .. Len(watch'["Redis"]),
               watch'["Redis"][i].key = r
        PROVE  Is(watch'["Redis"][i].object, uid)
    <3>1. watch'["Redis"][i] = watch["Redis"][i + 1] /\ i + 1 \in 1 .. Len(watch["Redis"])
          /\ 1 < i + 1 /\ 1 \in 1 .. Len(watch["Redis"])
      BY <2>1, <2>2
    <3>2. CASE watch["Redis"][1].key = r
      <4>1. Is(watch["Redis"][1].object, uid)
        BY <2>1, <2>3, <3>2
      <4> QED  BY <1>0, <2>3, <3>1, <3>2, <4>1 DEF SettledOn, Stream
    <3>3. CASE watch["Redis"][1].key # r
      <4>1. Is(cached["Redis"][r], uid)
        BY <1>0, <2>1, <2>3, <3>3
      <4> QED  BY <1>0, <2>3, <3>1, <4>1 DEF SettledOn, Stream
    <3> QED  BY <3>2, <3>3
  <2>4. ASSUME NEW i \in 1 .. Len(watch'["Redis"]), NEW j \in 1 .. Len(watch'["Redis"]), i < j,
               watch'["Redis"][i].key = r, watch'["Redis"][j].key = r,
               Is(watch'["Redis"][i].object, uid)
        PROVE  Is(watch'["Redis"][j].object, uid)
    <3>1. i + 1 \in 1 .. Len(watch["Redis"]) /\ j + 1 \in 1 .. Len(watch["Redis"])
          /\ i + 1 < j + 1
      BY <2>1, <2>4
    <3>2. watch'["Redis"][i] = watch["Redis"][i + 1] /\ watch'["Redis"][j] = watch["Redis"][j + 1]
      BY <2>1
    <3> QED  BY <1>0, <2>4, <3>1, <3>2 DEF SettledOn, Stream
  <2> QED  BY <2>3, <2>4 DEF SettledOn, Stream, Is
<1>4. CASE Relists("Redis")
  <2>1. PICK n \in 0 .. Len(watch["Redis"]), new \in Seq(Events) :
          /\ Lists("Redis", n, new)
          /\ n \in Nat /\ Len(new) \in Nat
          /\ Len(watch'["Redis"]) = n + Len(new)
          /\ \A i \in 1 .. n : watch'["Redis"][i] = watch["Redis"][i]
          /\ \A i \in 1 .. Len(new) : watch'["Redis"][n + i] = new[i]
    BY <1>0, <1>4, AfterListing
  <2>2. ASSUME NEW i \in 1 .. Len(watch'["Redis"]), watch'["Redis"][i].key = r
        PROVE  \/ Is(watch'["Redis"][i].object, uid)
               \/ i <= n /\ i \in 1 .. Len(watch["Redis"])
                  /\ watch'["Redis"][i] = watch["Redis"][i]
    <3>1. CASE i <= n
      <4>1. i \in 1 .. n /\ i \in 1 .. Len(watch["Redis"])
        BY <1>0, <2>1, <2>2, <3>1
      <4> QED  BY <2>1, <3>1, <4>1
    <3>2. CASE ~(i <= n)
      <4>1. i - n \in 1 .. Len(new) /\ n + (i - n) = i
        BY <2>1, <2>2, <3>2
      <4>2. watch'["Redis"][i] = new[i - n]
        BY <2>1, <4>1
      <4>3. watch'["Redis"][i].object = api["Redis"][r]
        BY <2>1, <2>2, <4>1, <4>2 DEF Lists
      <4> QED  BY <1>0, <4>3
    <3> QED  BY <3>1, <3>2
  <2>3. cached' = cached
    BY <1>4 DEF Relists
  <2>4. ASSUME Is(cached'["Redis"][r], uid), NEW i \in 1 .. Len(watch'["Redis"]),
               watch'["Redis"][i].key = r
        PROVE  Is(watch'["Redis"][i].object, uid)
    BY <1>0, <2>2, <2>3, <2>4 DEF SettledOn, Stream
  <2>5. ASSUME NEW i \in 1 .. Len(watch'["Redis"]), NEW j \in 1 .. Len(watch'["Redis"]), i < j,
               watch'["Redis"][i].key = r, watch'["Redis"][j].key = r,
               Is(watch'["Redis"][i].object, uid)
        PROVE  Is(watch'["Redis"][j].object, uid)
    <3>1. CASE j <= n /\ j \in 1 .. Len(watch["Redis"])
               /\ watch'["Redis"][j] = watch["Redis"][j]
      <4>1. i \in 1 .. n /\ i \in 1 .. Len(watch["Redis"])
        BY <1>0, <2>1, <2>5, <3>1
      <4>2. watch'["Redis"][i] = watch["Redis"][i]
        BY <2>1, <4>1
      <4> QED  BY <1>0, <2>5, <3>1, <4>1, <4>2 DEF SettledOn, Stream
    <3> QED  BY <2>2, <2>5, <3>1
  <2> QED  BY <2>4, <2>5 DEF SettledOn, Stream, Is
<1> QED  BY <1>1, <1>2, <1>3, <1>4 DEF RedisSeen

LEMMA SettledStep ==
  ASSUME TypeInv, [Next]_vars, Numbered, Settled
  PROVE  Settled'
<1>0. DataTypes /\ DataStep /\ edits \in Nat
  BY StepIsDataStep, ReconcilersAssumption DEF TypeInv
<1> SUFFICES ASSUME NEW r \in Redises, api'["Redis"][r] # Absent
             PROVE  SettledOn(r, api["Redis"][r].uid)'
  BY DEF Settled, Exists
<1>1. CASE ServerKept /\ RedisSeen
  <2>1. api'["Redis"][r] = api["Redis"][r] /\ Exists("Redis", r)
    BY <1>1 DEF ServerKept, Exists
  <2> QED  BY <1>0, <1>1, <2>1, SeenKeepsSettled DEF Settled
<1>2. ASSUME NEW k, NEW object, RedisWritten(k, object)
      PROVE  SettledOn(r, api["Redis"][r].uid)'
  <2>1. /\ k \in Redises
        /\ api'["Redis"][k] = object
        /\ \A p \in Redises : p # k => api'["Redis"][p] = api["Redis"][p]
    BY <1>0, <1>2, AfterRedisWritten
  <2>2. PICK uid : uid = api'["Redis"][r].uid
    OBVIOUS
  <2>3. SettledOn(r, uid)'
    <3>1. CASE r # k
      <4>1. SettledOn(r, uid)
        BY <2>1, <2>2, <3>1 DEF Settled, Exists
      <4> QED  BY <1>0, <1>2, <3>1, <4>1, WriteKeepsSettled
    <3>2. CASE r = k /\ Exists("Redis", k) /\ object.uid = api["Redis"][k].uid
      <4>1. SettledOn(r, uid) /\ Is(object, uid)
        BY <2>1, <2>2, <3>2 DEF Settled, Is
      <4> QED  BY <1>0, <1>2, <4>1, WriteKeepsSettled
    <3>3. CASE /\ r = k /\ object.uid = edits + 1
               /\ \A q \in Redises : \A o : Known(q, o) => ~Is(o, edits + 1)
      <4>1. \A o : Known(k, o) => ~Is(o, uid)
        BY <2>1, <2>2, <3>3
      <4>2. SettledOn(k, uid)'
        BY <1>0, <1>2, <4>1, UnknownIsSettled
      <4> QED  BY <3>3, <4>2
    <3> QED  BY <1>0, <1>2, <2>1, <3>1, <3>2, <3>3, WrittenUid
  <2> QED  BY <2>2, <2>3 DEF SettledOn, Is, Stream
<1> QED  BY <1>0, <1>1, <1>2, RedisStepClass

-----------------------------------------------------------------------------
(***************************************************************************)
(* What has been listed stays in the cache, and the tenant is held.        *)
(***************************************************************************)
\* A list takes in the uids of what the cache has, under the names it has.
LEMMA ListedNow ==
  ASSUME OneName, ListedCached, NEW r \in Redises, Exists("Redis", r),
         api["Redis"][r].uid \in listed \cup {Get("Redis", q).uid : q \in Owned}
  PROVE  r \in Labelled /\ Is(cached["Redis"][r], api["Redis"][r].uid)
<1>1. CASE api["Redis"][r].uid \in listed
  BY <1>1 DEF ListedCached
<1>2. ASSUME NEW q \in Owned, api["Redis"][r].uid = Get("Redis", q).uid
      PROVE  r \in Labelled /\ Is(cached["Redis"][r], api["Redis"][r].uid)
  <2>1. q \in Redises /\ q \in Labelled /\ Is(cached["Redis"][q], api["Redis"][r].uid)
    BY <1>2, ReconcilersAssumption DEF Owned, Get, Is
  <2>2. Known(q, cached["Redis"][q])
    BY DEF Known
  <2>3. q = r
    BY <2>1, <2>2 DEF OneName
  <2> QED  BY <2>1, <2>3
<1> QED  BY <1>1, <1>2

LEMMA ListedCachedStep ==
  ASSUME TypeInv, [Next]_vars, Numbered, OneName, Settled, ListedCached
  PROVE  ListedCached'
<1>0. DataTypes /\ DataStep /\ edits \in Nat /\ "Redis" \in Kinds /\ Redises \subseteq Keys
  BY StepIsDataStep, ReconcilersAssumption, KindFacts, KeyFacts DEF TypeInv
<1> SUFFICES ASSUME NEW r \in Redises, api'["Redis"][r] # Absent,
                    api'["Redis"][r].uid \in listed'
             PROVE  r \in Labelled /\ Is(cached'["Redis"][r], api'["Redis"][r].uid)
  BY DEF ListedCached, Exists, Is
<1>1. CASE ListsUids
  <2>1. api' = api /\ cached' = cached /\ Exists("Redis", r)
    BY <1>1 DEF ListsUids, Still, Exists
  <2> QED  BY <1>1, <2>1, ListedNow DEF ListsUids
<1>2. CASE listed' = listed /\ ServerKept /\ RedisSeen
  <2>1. /\ api'["Redis"][r] = api["Redis"][r] /\ Exists("Redis", r)
        /\ r \in Labelled /\ Is(cached["Redis"][r], api["Redis"][r].uid)
    BY <1>2 DEF ServerKept, Exists, ListedCached
  <2>2. Is(cached'["Redis"][r], api["Redis"][r].uid)
    <3>1. CASE cached'["Redis"] = cached["Redis"] \/ cached'["Redis"] = api["Redis"]
      BY <2>1, <3>1 DEF Is, Exists
    <3>2. CASE Relists("Redis")
      BY <2>1, <3>2 DEF Relists
    <3>3. CASE Delivers("Redis")
      <4>1. /\ Len(watch["Redis"]) \in Nat \ {0}
            /\ cached'["Redis"][watch["Redis"][1].key] = watch["Redis"][1].object
            /\ \A q \in Keys : q # watch["Redis"][1].key =>
                                 cached'["Redis"][q] = cached["Redis"][q]
        BY <1>0, <3>3, AfterDelivery
      <4>2. 1 \in 1 .. Len(watch["Redis"])
        BY <4>1
      <4>3. watch["Redis"][1].key = r => Is(watch["Redis"][1].object, api["Redis"][r].uid)
        BY <2>1, <4>2 DEF Settled, SettledOn, Stream
      <4> QED  BY <1>0, <2>1, <4>1, <4>3
    <3> QED  BY <1>2, <3>1, <3>2, <3>3 DEF RedisSeen
  <2> QED  BY <2>1, <2>2
<1>3. ASSUME listed' = listed, NEW k, NEW object, RedisWritten(k, object)
      PROVE  r \in Labelled /\ Is(cached'["Redis"][r], api'["Redis"][r].uid)
  <2>1. /\ k \in Redises /\ cached' = cached
        /\ api'["Redis"][k] = object
        /\ \A p \in Redises : p # k => api'["Redis"][p] = api["Redis"][p]
    BY <1>0, <1>3, AfterRedisWritten
  <2>2. CASE r # k
    BY <1>3, <2>1, <2>2 DEF ListedCached, Exists
  <2>3. CASE r = k /\ Exists("Redis", k) /\ object.uid = api["Redis"][k].uid
    BY <1>3, <2>1, <2>3 DEF ListedCached
  <2>4. CASE r = k /\ object.uid = edits + 1 /\ edits + 1 \notin listed
    BY <1>3, <2>1, <2>4
  <2> QED  BY <1>0, <1>3, <2>1, <2>2, <2>3, <2>4, WrittenUid
<1> QED  BY <1>0, <1>1, <1>2, <1>3, RedisStepClass, CountersStep DEF CountersKept

\* The update that would free the tenant stays as it was computed, or is computed.
LEMMA FreeingUpdate ==
  ASSUME TypeInv, [Next]_vars, work'[Tenant].at = "update"
  PROVE  \/ work[Tenant].at = "update" /\ work'[Tenant].obj = work[Tenant].obj
         \/ ListRedis /\ work'[Tenant].obj = Counted(work[Tenant].obj, Cardinality(Owned))
<1>0. WorkStep /\ Tenant \in Keys /\ work \in [Keys -> RedisWork \cup TenantWork]
  BY StepIsWorkStep, KeyFacts DEF TypeInv, WorkTypes
<1>1. CASE work' = work
  BY <1>1
<1>2. CASE work' = [k \in Keys |-> Idle]
  BY <1>0, <1>2, IdleTypes
<1>3. ASSUME NEW k \in Keys, NEW w, ChangesWork(k, w)
      PROVE  \/ work[Tenant].at = "update" /\ work'[Tenant].obj = work[Tenant].obj
             \/ ListRedis /\ work'[Tenant].obj = Counted(work[Tenant].obj, Cardinality(Owned))
  <2>1. CASE k = Tenant
    <3>1. work'[Tenant] = w
      BY <1>0, <1>3, <2>1 DEF ChangesWork
    <3> QED  BY <1>3, <2>1, <3>1 DEF ChangesWork, MayWork
  <2>2. CASE k # Tenant
    <3>1. work'[Tenant] = work[Tenant]
      BY <1>0, <1>3, <2>2 DEF ChangesWork
    <3> QED  BY <3>1
  <2> QED  BY <2>1, <2>2
<1> QED  BY <1>0, <1>1, <1>2, <1>3 DEF WorkStep

LEMMA FreeStep ==
  ASSUME TypeInv, [Next]_vars, Numbered, OneName, ListedCached, Free
  PROVE  Free'
<1>0. DataTypes /\ DataStep /\ edits \in Nat
  BY StepIsDataStep, ReconcilersAssumption DEF TypeInv
<1> SUFFICES ASSUME work'[Tenant].at = "update", ~work'[Tenant].obj.finalizer,
                    NEW r \in Redises, api'["Redis"][r] # Absent,
                    api'["Redis"][r].uid \in listed'
             PROVE  FALSE
  BY DEF Free, Exists
<1>1. CASE ListsUids
  <2>1. api' = api /\ cached' = cached /\ Exists("Redis", r) /\ work[Tenant].at = "list"
    BY <1>1 DEF ListsUids, Still, Exists, ListRedis
  <2>2. r \in Labelled /\ Is(cached["Redis"][r], api["Redis"][r].uid)
    BY <1>1, <2>1, ListedNow DEF ListsUids
  <2>3. r \in Owned
    BY <2>2 DEF Owned, Get, Is
  <2>4. PICK n \in Nat : n = Cardinality(Owned) /\ n # 0
    <3>1. Owned \in SUBSET Redises
      BY ReconcilersAssumption DEF Owned
    <3>2. Cardinality(Owned) \in 0 .. Cardinality(Redises) /\ Cardinality(Redises) \in Nat
          /\ Cardinality(Owned) # 0
      BY <2>3, <3>1, CountsAreTyped
    <3> QED  BY <3>2
  <2>5. work'[Tenant].obj = Counted(work[Tenant].obj, n)
    BY <2>1, <2>4, FreeingUpdate
  <2>6. work[Tenant].obj \in TenantObjects
    BY <2>1, ObjectTypes
  <2>7. Counted(work[Tenant].obj, n).finalizer = (n > 0)
    BY <2>6 DEF Counted, TenantObjects
  <2>8. n > 0
    BY <2>4
  <2> QED  BY <2>5, <2>7, <2>8
<1>2. CASE CountersKept /\ ~ListsUids
  <2>1. listed' = listed
    BY <1>2 DEF CountersKept
  <2>2. ListRedis => ListsUids
    BY DEF ListRedis, ListsUids, Still, cluster, bounds
  <2>3. \A q \in Redises : Exists("Redis", q) => api["Redis"][q].uid \notin listed
    BY <1>2, <2>2, FreeingUpdate DEF Free
  <2>4. CASE ServerKept
    BY <2>1, <2>3, <2>4 DEF ServerKept, Exists
  <2>5. ASSUME NEW k, NEW object, RedisWritten(k, object)  PROVE FALSE
    <3>1. /\ k \in Redises
          /\ api'["Redis"][k] = object
          /\ \A p \in Redises : p # k => api'["Redis"][p] = api["Redis"][p]
      BY <1>0, <2>5, AfterRedisWritten
    <3>2. CASE r # k
      BY <2>1, <2>3, <3>1, <3>2 DEF Exists
    <3>3. CASE r = k /\ Exists("Redis", k) /\ object.uid = api["Redis"][k].uid
      BY <2>1, <2>3, <3>1, <3>3
    <3>4. CASE r = k /\ object.uid = edits + 1 /\ edits + 1 \notin listed
      BY <2>1, <3>1, <3>4
    <3> QED  BY <1>0, <2>5, <3>1, <3>2, <3>3, <3>4, WrittenUid
  <2> QED  BY <1>0, <2>4, <2>5, RedisStepClass
<1> QED  BY <1>1, <1>2, CountersStep

LEMMA FinalizerInvInit == Init => FinalizerInv
<1> SUFFICES ASSUME Init  PROVE FinalizerInv
  OBVIOUS
<1>1. /\ "Redis" \in Kinds /\ Redises \subseteq Keys /\ Tenant \in Keys
      /\ api = [kind \in Kinds |-> [k \in Keys |-> Absent]] /\ cached = api
      /\ watch = [kind \in Kinds |-> <<>>] /\ work = [k \in Keys |-> Idle]
      /\ edits = 0 /\ listed = {}
  BY KindFacts, KeyFacts DEF Init
<1>2. Len(Stream) = 0
  BY <1>1 DEF Stream
<1>3. \A r \in Redises : api["Redis"][r] = Absent /\ cached["Redis"][r] = Absent
  BY <1>1
<1>4. \A r \in Redises : \A o : Known(r, o) => o = Absent
  BY <1>2, <1>3 DEF Known
<1>5. Numbered /\ OneName
  BY <1>1, <1>4 DEF Numbered, OneName, Is
<1>6. Settled /\ ListedCached
  BY <1>3 DEF Settled, ListedCached, Exists
<1>7. Free
  BY <1>3 DEF Free, Exists
<1> QED  BY <1>5, <1>6, <1>7 DEF FinalizerInv

LEMMA FinalizerInvStep == TypeInv /\ FinalizerInv /\ [Next]_vars => FinalizerInv'
<1> SUFFICES ASSUME TypeInv, FinalizerInv, [Next]_vars  PROVE FinalizerInv'
  OBVIOUS
<1>1. Numbered /\ OneName /\ Settled /\ ListedCached /\ Free
  BY DEF FinalizerInv
<1>2. Numbered' /\ OneName' /\ Settled'
  BY <1>1, NumberedStep, OneNameStep, SettledStep
<1>3. ListedCached' /\ Free'
  BY <1>1, ListedCachedStep, FreeStep
<1> QED  BY <1>2, <1>3 DEF FinalizerInv

\* Whatever frees the tenant is an update, and one that Free speaks of.
LEMMA TenantFreed ==
  ASSUME TypeInv, [Next]_vars, Free,
         Exists("Tenant", Tenant), api["Tenant"][Tenant].finalizer,
         api'["Tenant"][Tenant] = Absent \/ ~api'["Tenant"][Tenant].finalizer,
         NEW r \in Redises, Exists("Redis", r)
  PROVE  api["Redis"][r].uid \notin listed
<1>0. DataTypes /\ DataStep /\ "Tenant" \in Kinds /\ Tenant \in Keys
  BY StepIsDataStep, KindFacts, KeyFacts DEF TypeInv
<1>1. CASE api' = api
  BY <1>1 DEF Exists
<1>2. ASSUME NEW kind \in Kinds, NEW k \in Keys, NEW object \in Values(kind),
             Writes(kind, k, object)
      PROVE  api["Redis"][r].uid \notin listed
  <2>1. Put(kind, k, object)
    BY <1>2 DEF Writes
  <2>2. /\ api'[kind][k] = object
        /\ \A K \in Kinds, q \in Keys : K # kind \/ q # k => api'[K][q] = api[K][q]
    BY <1>0, <2>1, AfterWrite
  <2>3. CASE kind = "Tenant" /\ k = Tenant
    <3>1. MayPutTenant(Tenant, object) /\ Frees(object)
      BY <1>2, <2>2, <2>3 DEF Writes, Frees
    <3> QED  BY <3>1 DEF MayPutTenant, Free
  <2>4. CASE kind # "Tenant" \/ k # Tenant
    BY <1>0, <2>2, <2>4 DEF Exists
  <2> QED  BY <2>3, <2>4
<1> QED  BY <1>0, <1>1, <1>2 DEF DataStep, Still, Restarts, Delivers, Relists

\* Late lists, late updates, restarts, broken watches and names used again: the
\* finalizer leaves a tenant only when every Redis a list has shown is gone.
THEOREM TenantHeld == Spec => FinalizerHolds
<1>1. Init => TypeInv /\ FinalizerInv
  BY TypeInvInit, FinalizerInvInit
<1>2. TypeInv /\ FinalizerInv /\ [Next]_vars => (TypeInv /\ FinalizerInv)'
  BY TypeInvStep, FinalizerInvStep
<1>3. ASSUME TypeInv, FinalizerInv, [Next]_vars
      PROVE  [(/\ Exists("Tenant", Tenant) /\ api["Tenant"][Tenant].finalizer
               /\ api["Tenant"][Tenant]' = Absent \/ ~api["Tenant"][Tenant]'.finalizer)
                => \A r \in Redises :
                     Exists("Redis", r) => api["Redis"][r].uid \notin listed]_vars
  BY <1>3, TenantFreed DEF FinalizerInv
<1> QED  BY <1>1, <1>2, <1>3, PTL DEF Spec, FinalizerHolds

-----------------------------------------------------------------------------
(***************************************************************************)
(* The owners.  A reconciliation may work for a Redis that is gone and     *)
(* replaced.  That it never takes a child back rests on the order in which *)
(* what it sees moves on: the uids of a name only rise along the stream    *)
(* (Rising), so that cache, reconciliation and child, in this order, are   *)
(* no later than all that is still to come (Succession).                   *)
(***************************************************************************)
\* n is no later than any Redis of the name that is known, or is to come.
NoLater(r, n) ==
  /\ n <= edits
  /\ \A o : Known(r, o) /\ o # Absent => n <= o.uid

\* The event at i of the stream is one of name r.
Shows(r, i) == Stream[i].key = r /\ Stream[i].object # Absent

Rising(r) ==
  \A i \in 1 .. Len(Stream) : Shows(r, i) =>
     /\ Exists("Redis", r) => Stream[i].object.uid <= api["Redis"][r].uid
     /\ \A j \in 1 .. Len(Stream) :
          i < j /\ Shows(r, j) => Stream[i].object.uid <= Stream[j].object.uid

CacheNoLater(r) ==
  cached["Redis"][r] # Absent => NoLater(r, cached["Redis"][r].uid)

WorkNoLater(r) ==
  work[r].at = "children" => NoLater(r, work[r].obj.uid)

ChildNoLater(r, c) ==
  Exists(c, r) => /\ NoLater(r, api[c][r].owner)
                  /\ work[r].at = "children" => api[c][r].owner <= work[r].obj.uid

Succession ==
  \A r \in Redises : /\ Rising(r) /\ CacheNoLater(r) /\ WorkNoLater(r)
                     /\ \A c \in Children : ChildNoLater(r, c)

\* What is known of a name has a number, and so does what a child has for its owner.
LEMMA UidsAreNumbers ==
  ASSUME TypeInv, NEW r \in Redises
  PROVE  /\ edits \in Nat
         /\ \A o : Known(r, o) /\ o # Absent => o.uid \in Nat
         /\ cached["Redis"][r] # Absent => cached["Redis"][r].uid \in Nat
         /\ Exists("Redis", r) => api["Redis"][r].uid \in Nat
         /\ work[r].at = "children" => work[r].obj.uid \in Nat
         /\ \A c \in Children : Exists(c, r) => api[c][r].owner \in Nat
         /\ \A i \in 1 .. Len(Stream) : Shows(r, i) => Stream[i].object.uid \in Nat
<1>0. DataTypes /\ MaxEdits \in Nat
  BY ReconcilersAssumption DEF TypeInv
<1>1. edits \in Nat
  BY <1>0 DEF TypeInv
<1>2. \A o : Known(r, o) /\ o # Absent => o.uid \in Nat
  BY <1>0, KnownTypes
<1>3. Known(r, cached["Redis"][r]) /\ Known(r, api["Redis"][r])
  BY DEF Known
<1>4. work[r].at = "children" => work[r].obj.uid \in Nat
  BY <1>0, ObjectTypes DEF RedisObjects, Uids
<1>5. \A c \in Children : Exists(c, r) => api[c][r].owner \in Nat
  BY <1>0, ObjectTypes DEF ChildObjects, Uids
<1>6. \A i \in 1 .. Len(Stream) : Shows(r, i) => Known(r, Stream[i].object)
  BY DEF Known, Shows
<1> QED  BY <1>1, <1>2, <1>3, <1>4, <1>5, <1>6 DEF Exists, Shows

LEMMA NoLaterKept ==
  ASSUME TypeInv, [Next]_vars, Numbered, NEW r \in Redises, NEW n \in Nat, NoLater(r, n)
  PROVE  NoLater(r, n)'
<1>0. DataTypes /\ DataStep /\ edits \in Nat
  BY StepIsDataStep, UidsAreNumbers DEF TypeInv
<1>1. n <= edits'
  BY <1>0, CountersStep DEF NoLater, CountersKept, ListsUids
<1>2. ASSUME NEW o, Known(r, o)', o # Absent  PROVE n <= o.uid
  <2>1. CASE Known(r, o)
    BY <1>2, <2>1 DEF NoLater
  <2>2. CASE ServerKept /\ RedisSeen
    BY <1>0, <1>2, <2>1, <2>2, KnownBefore
  <2>3. ASSUME NEW k, NEW object, RedisWritten(k, object)
        PROVE  n <= o.uid
    <3>1. Known(r, o) \/ (r = k /\ o = object)
      BY <1>0, <1>2, <2>3, KnownOrWritten
    <3>2. Known(r, api["Redis"][r])
      BY DEF Known
    <3>3. CASE r = k /\ o = object
      <4>1. CASE Exists("Redis", k) /\ object.uid = api["Redis"][k].uid
        BY <3>2, <3>3, <4>1 DEF NoLater, Exists
      <4>2. CASE object.uid = edits + 1
        BY <1>0, <3>3, <4>2 DEF NoLater
      <4> QED  BY <1>0, <1>2, <2>3, <3>3, <4>1, <4>2, WrittenUid
    <3> QED  BY <2>1, <3>1, <3>3
  <2> QED  BY <1>0, <2>2, <2>3, RedisStepClass
<1> QED  BY <1>1, <1>2 DEF NoLater

LEMMA CacheStep ==
  ASSUME TypeInv, [Next]_vars, Numbered, NEW r \in Redises, Rising(r), CacheNoLater(r)
  PROVE  CacheNoLater(r)'
<1>0. DataTypes /\ DataStep /\ "Redis" \in Kinds /\ Redises \subseteq Keys
  BY StepIsDataStep, KindFacts, KeyFacts DEF TypeInv
<1> SUFFICES ASSUME cached'["Redis"][r] # Absent
             PROVE  NoLater(r, cached["Redis"][r].uid)'
  BY DEF CacheNoLater
<1>1. ASSUME NEW n \in Nat, NoLater(r, n)', cached'["Redis"][r].uid = n
      PROVE  NoLater(r, cached["Redis"][r].uid)'
  BY <1>1 DEF NoLater
<1>2. CASE cached'["Redis"][r] = cached["Redis"][r]
  <2>1. cached["Redis"][r].uid \in Nat /\ NoLater(r, cached["Redis"][r].uid)
    BY <1>2, UidsAreNumbers DEF CacheNoLater
  <2>2. PICK n \in Nat : n = cached["Redis"][r].uid
    BY <2>1
  <2>3. NoLater(r, n)
    BY <2>1, <2>2
  <2>4. NoLater(r, n)'
    BY <2>3, NoLaterKept
  <2> QED  BY <1>1, <1>2, <2>2, <2>4
\* The cache has the oldest of all that is known.
<1>3. ASSUME NEW n \in Nat, cached'["Redis"][r].uid = n, n <= edits,
             \A o : Known(r, o)' /\ o # Absent => n <= o.uid
      PROVE  NoLater(r, cached["Redis"][r].uid)'
  <2>1. n <= edits'
    BY <1>3, CountersStep, UidsAreNumbers DEF CountersKept, ListsUids
  <2>2. NoLater(r, n)'
    BY <1>3, <2>1 DEF NoLater
  <2> QED  BY <1>1, <1>3, <2>2
<1>4. CASE api'["Redis"][r] = api["Redis"][r] /\ cached'["Redis"] = api["Redis"]
           /\ Len(watch'["Redis"]) = 0
  <2>1. \A o : Known(r, o)' => o = api["Redis"][r]
    BY <1>4 DEF Known, Stream
  <2>2. Known(r, api["Redis"][r]) /\ api["Redis"][r] # Absent
    BY <1>4 DEF Known
  <2>3. api["Redis"][r].uid \in Nat /\ api["Redis"][r].uid <= edits
    BY <2>2, UidsAreNumbers DEF Numbered
  <2> QED  BY <1>3, <1>4, <2>1, <2>3
<1>5. CASE ServerKept /\ Delivers("Redis")
  <2>1. /\ Len(watch["Redis"]) \in Nat \ {0}
        /\ cached'["Redis"][watch["Redis"][1].key] = watch["Redis"][1].object
        /\ \A q \in Keys : q # watch["Redis"][1].key =>
                             cached'["Redis"][q] = cached["Redis"][q]
        /\ Len(watch'["Redis"]) = Len(watch["Redis"]) - 1
        /\ \A i \in 1 .. Len(watch'["Redis"]) : watch'["Redis"][i] = watch["Redis"][i + 1]
    BY <1>0, <1>5, AfterDelivery
  <2>2. 1 \in 1 .. Len(Stream)
    BY <2>1 DEF Stream
  <2>3. CASE watch["Redis"][1].key # r
    BY <1>0, <1>2, <2>1, <2>3
  <2>4. CASE watch["Redis"][1].key = r
    <3>1. Shows(r, 1) /\ cached'["Redis"][r] = Stream[1].object
      BY <2>1, <2>4 DEF Shows, Stream
    <3>2. Known(r, Stream[1].object)
      BY <2>2, <3>1 DEF Known, Shows
    <3>3. Stream[1].object.uid \in Nat /\ Stream[1].object.uid <= edits
      BY <3>1, <3>2, UidsAreNumbers DEF Numbered, Shows
    <3>4. ASSUME NEW o, Known(r, o)', o # Absent  PROVE Stream[1].object.uid <= o.uid
      <4>1. CASE o = api'["Redis"][r]
        BY <1>5, <2>2, <3>1, <3>4, <4>1 DEF ServerKept, Rising, Exists
      <4>2. CASE o = cached'["Redis"][r]
        BY <3>1, <3>3, <4>2
      <4>3. ASSUME NEW i \in 1 .. Len(watch'["Redis"]), watch'["Redis"][i].key = r,
                   watch'["Redis"][i].object = o
            PROVE  Stream[1].object.uid <= o.uid
        <5>1. i + 1 \in 1 .. Len(Stream) /\ 1 < i + 1
          BY <2>1 DEF Stream
        <5>2. Shows(r, i + 1) /\ Stream[i + 1].object = o
          BY <2>1, <3>4, <4>3 DEF Shows, Stream
        <5> QED  BY <2>2, <3>1, <5>1, <5>2 DEF Rising
      <4> QED  BY <3>4, <4>1, <4>2, <4>3 DEF Known, Stream
    <3> QED  BY <1>3, <3>1, <3>3, <3>4
  <2> QED  BY <2>3, <2>4
<1>6. CASE ServerKept /\ RedisSeen
  <2>1. CASE cached'["Redis"] = cached["Redis"] \/ Relists("Redis")
    BY <1>2, <2>1 DEF Relists
  <2> QED  BY <1>4, <1>5, <1>6, <2>1 DEF RedisSeen, ServerKept
<1>7. ASSUME NEW k, NEW object, RedisWritten(k, object)
      PROVE  NoLater(r, cached["Redis"][r].uid)'
  BY <1>0, <1>2, <1>7, AfterRedisWritten
<1> QED  BY <1>0, <1>6, <1>7, RedisStepClass

\* An event after the write: it is the last, and the server has what it shows.
LEMMA RisingAfterWrite ==
  ASSUME TypeInv, [Next]_vars, Numbered, NEW r \in Redises, Rising(r),
         NEW k, NEW object, RedisWritten(k, object)
  PROVE  Rising(r)'
<1> DEFINE last == Len(watch["Redis"]) + 1
<1>0. DataTypes /\ edits \in Nat
  BY UidsAreNumbers DEF TypeInv
<1>1. /\ api'["Redis"][k] = object
      /\ \A q \in Redises : q # k => api'["Redis"][q] = api["Redis"][q]
      /\ Len(watch["Redis"]) \in Nat
      /\ Len(watch'["Redis"]) = last
      /\ \A i \in 1 .. Len(watch["Redis"]) : watch'["Redis"][i] = watch["Redis"][i]
      /\ watch'["Redis"][last].key = k
      /\ watch'["Redis"][last].object = object
  BY <1>0, AfterRedisWritten
<1>2. ASSUME NEW i \in 1 .. Len(watch["Redis"]), Shows(r, i), r = k, object # Absent
      PROVE  Stream[i].object.uid <= object.uid
  <2>1. Stream[i].object.uid \in Nat /\ Known(r, Stream[i].object)
    BY <1>2, UidsAreNumbers DEF Stream, Known, Shows
  <2>2. CASE Exists("Redis", k) /\ object.uid = api["Redis"][k].uid
    BY <1>2, <2>2 DEF Rising, Stream
  <2>3. CASE object.uid = edits + 1
    <3>1. Stream[i].object.uid <= edits
      BY <1>2, <2>1 DEF Numbered, Shows
    <3> QED  BY <1>0, <2>1, <2>3, <3>1
  <2> QED  BY <1>0, <1>2, <2>2, <2>3, WrittenUid
<1>3. ASSUME NEW i \in 1 .. last, Shows(r, i)', api'["Redis"][r] # Absent
      PROVE  watch'["Redis"][i].object.uid <= api'["Redis"][r].uid
  <2>1. CASE i = last
    <3>1. k = r /\ object # Absent
      BY <1>1, <1>3, <2>1 DEF Shows, Stream
    <3>2. Known(r, object)'
      BY <1>1, <3>1 DEF Known
    <3>3. object.uid \in Nat
      <4>1. Exists("Redis", r) => api["Redis"][r].uid \in Nat
        BY UidsAreNumbers
      <4> QED  BY <1>0, <3>1, <4>1, WrittenUid
    <3> QED  BY <1>1, <2>1, <3>1, <3>3
  <2>2. CASE i # last
    <3>1. i \in 1 .. Len(watch["Redis"]) /\ watch'["Redis"][i] = watch["Redis"][i]
      BY <1>1, <1>3, <2>2
    <3>2. Shows(r, i)
      BY <1>3, <3>1 DEF Shows, Stream
    <3>3. CASE r = k
      BY <1>1, <1>2, <1>3, <3>1, <3>2, <3>3 DEF Stream
    <3>4. CASE r # k
      BY <1>1, <1>3, <3>1, <3>2, <3>4 DEF Rising, Stream, Exists
    <3> QED  BY <3>3, <3>4
  <2> QED  BY <2>1, <2>2
<1>4. ASSUME NEW i \in 1 .. last, NEW j \in 1 .. last, i < j, Shows(r, i)', Shows(r, j)'
      PROVE  watch'["Redis"][i].object.uid <= watch'["Redis"][j].object.uid
  <2>1. i \in 1 .. Len(watch["Redis"]) /\ watch'["Redis"][i] = watch["Redis"][i]
    BY <1>1, <1>4
  <2>2. Shows(r, i)
    BY <1>4, <2>1 DEF Shows, Stream
  <2>3. CASE j = last
    <3>1. k = r /\ object # Absent
      BY <1>1, <1>4, <2>3 DEF Shows, Stream
    <3> QED  BY <1>1, <1>2, <2>1, <2>2, <2>3, <3>1 DEF Stream
  <2>4. CASE j # last
    <3>1. j \in 1 .. Len(watch["Redis"]) /\ watch'["Redis"][j] = watch["Redis"][j]
      BY <1>1, <2>4
    <3>2. Shows(r, j)
      BY <1>4, <3>1 DEF Shows, Stream
    <3> QED  BY <1>4, <2>1, <2>2, <3>1, <3>2 DEF Rising, Stream
  <2> QED  BY <2>3, <2>4
<1> QED  BY <1>1, <1>3, <1>4 DEF Rising, Stream, Exists

LEMMA RisingAfterDelivery ==
  ASSUME TypeInv, NEW r \in Redises, Rising(r), ServerKept, Delivers("Redis")
  PROVE  Rising(r)'
<1>0. DataTypes /\ "Redis" \in Kinds
  BY KindFacts DEF TypeInv
<1>1. /\ Len(watch["Redis"]) \in Nat \ {0}
      /\ Len(watch'["Redis"]) = Len(watch["Redis"]) - 1
      /\ \A i \in 1 .. Len(watch'["Redis"]) : watch'["Redis"][i] = watch["Redis"][i + 1]
  BY <1>0, AfterDelivery
<1>2. ASSUME NEW i \in 1 .. Len(watch'["Redis"]), Shows(r, i)'
      PROVE  /\ i + 1 \in 1 .. Len(Stream)
             /\ Shows(r, i + 1)
             /\ watch'["Redis"][i] = Stream[i + 1]
  BY <1>1, <1>2 DEF Shows, Stream
<1>3. ASSUME NEW i \in 1 .. Len(watch'["Redis"]), Shows(r, i)', api'["Redis"][r] # Absent
      PROVE  watch'["Redis"][i].object.uid <= api'["Redis"][r].uid
  BY <1>2, <1>3 DEF ServerKept, Rising, Exists
<1>4. ASSUME NEW i \in 1 .. Len(watch'["Redis"]), NEW j \in 1 .. Len(watch'["Redis"]),
             i < j, Shows(r, i)', Shows(r, j)'
      PROVE  watch'["Redis"][i].object.uid <= watch'["Redis"][j].object.uid
  <2>1. i + 1 < j + 1
    BY <1>1, <1>4
  <2> QED  BY <1>2, <1>4, <2>1 DEF Rising
<1> QED  BY <1>3, <1>4 DEF Rising, Stream, Exists

\* What is listed is what the server has.
LEMMA RisingAfterListing ==
  ASSUME TypeInv, NEW r \in Redises, Rising(r), ServerKept, Relists("Redis")
  PROVE  Rising(r)'
<1>0. DataTypes /\ "Redis" \in Kinds /\ Len(watch["Redis"]) \in Nat
  BY KindFacts, LenProperties DEF TypeInv, DataTypes
<1>1. PICK n \in 0 .. Len(watch["Redis"]), new \in Seq(Events) :
        /\ Lists("Redis", n, new)
        /\ n \in Nat /\ Len(new) \in Nat
        /\ Len(watch'["Redis"]) = n + Len(new)
        /\ \A i \in 1 .. n : watch'["Redis"][i] = watch["Redis"][i]
        /\ \A i \in 1 .. Len(new) : watch'["Redis"][n + i] = new[i]
  BY <1>0, AfterListing
<1>2. ASSUME NEW i \in 1 .. Len(watch'["Redis"]), Shows(r, i)', i <= n
      PROVE  /\ i \in 1 .. Len(Stream)
             /\ Shows(r, i)
             /\ watch'["Redis"][i] = Stream[i]
  <2>1. i \in 1 .. n /\ i \in 1 .. Len(watch["Redis"])
    BY <1>0, <1>1, <1>2
  <2> QED  BY <1>1, <1>2, <2>1 DEF Shows, Stream
<1>3. ASSUME NEW i \in 1 .. Len(watch'["Redis"]), Shows(r, i)', ~(i <= n)
      PROVE  watch'["Redis"][i].object = api["Redis"][r] /\ Exists("Redis", r)
  <2>1. i - n \in 1 .. Len(new) /\ n + (i - n) = i
    BY <1>1, <1>3
  <2>2. watch'["Redis"][i] = new[i - n]
    BY <1>1, <2>1
  <2>3. watch'["Redis"][i].object = api["Redis"][r]
    BY <1>1, <1>3, <2>1, <2>2 DEF Lists, Shows, Stream
  <2> QED  BY <1>3, <2>3 DEF Shows, Stream, Exists
<1>4. Exists("Redis", r) => api["Redis"][r].uid \in Nat
  BY UidsAreNumbers
<1>5. ASSUME NEW i \in 1 .. Len(watch'["Redis"]), Shows(r, i)', Exists("Redis", r)
      PROVE  watch'["Redis"][i].object.uid <= api["Redis"][r].uid
  <2>1. CASE i <= n
    BY <1>2, <1>5, <2>1 DEF Rising
  <2>2. CASE ~(i <= n)
    <3>1. watch'["Redis"][i].object = api["Redis"][r]
      BY <1>3, <1>5, <2>2
    <3>2. api["Redis"][r].uid <= api["Redis"][r].uid
      BY <1>4, <1>5
    <3> QED  BY <3>1, <3>2
  <2> QED  BY <2>1, <2>2
<1>6. ASSUME NEW i \in 1 .. Len(watch'["Redis"]), NEW j \in 1 .. Len(watch'["Redis"]),
             i < j, Shows(r, i)', Shows(r, j)'
      PROVE  watch'["Redis"][i].object.uid <= watch'["Redis"][j].object.uid
  <2>1. CASE j <= n
    <3>1. i <= n
      BY <1>1, <1>6, <2>1
    <3> QED  BY <1>2, <1>6, <2>1, <3>1 DEF Rising
  <2>2. CASE ~(j <= n)
    BY <1>3, <1>5, <1>6, <2>2
  <2> QED  BY <2>1, <2>2
<1> QED  BY <1>5, <1>6 DEF Rising, Stream, Exists, ServerKept

LEMMA RisingStep ==
  ASSUME TypeInv, [Next]_vars, Numbered, NEW r \in Redises, Rising(r)
  PROVE  Rising(r)'
<1>0. DataTypes /\ DataStep
  BY StepIsDataStep DEF TypeInv
<1>1. CASE ServerKept /\ watch'["Redis"] = watch["Redis"]
  BY <1>1 DEF ServerKept, Rising, Shows, Stream, Exists
<1>2. CASE Len(watch'["Redis"]) = 0
  BY <1>2 DEF Rising, Stream
<1>3. CASE ServerKept /\ RedisSeen
  BY <1>1, <1>2, <1>3, RisingAfterDelivery, RisingAfterListing DEF RedisSeen
<1> QED  BY <1>0, <1>3, RisingAfterWrite, RedisStepClass

\* A reconciliation goes on with its copy, or starts from the cache's.
LEMMA WorkOn ==
  ASSUME TypeInv, [Next]_vars, NEW r \in Redises, work'[r].at = "children"
  PROVE  \/ work[r].at = "children" /\ work'[r].obj = work[r].obj
         \/ cached["Redis"][r] # Absent /\ work'[r].obj = cached["Redis"][r]
<1>0. WorkTypes /\ WorkStep /\ r \in Keys
  BY StepIsWorkStep, KeyFacts DEF TypeInv
<1>1. CASE work' = work
  BY <1>1
<1>2. CASE work' = [k \in Keys |-> Idle]
  BY <1>0, <1>2, IdleTypes
<1>3. ASSUME NEW k \in Keys, NEW w, ChangesWork(k, w), k # r
      PROVE  work'[r] = work[r]
  BY <1>0, <1>3 DEF ChangesWork, WorkTypes
<1>4. ASSUME NEW w, ChangesWork(r, w)
      PROVE  \/ work[r].at = "children" /\ work'[r].obj = work[r].obj
             \/ cached["Redis"][r] # Absent /\ work'[r].obj = cached["Redis"][r]
  <2>1. work'[r] = w
    BY <1>0, <1>4 DEF ChangesWork, WorkTypes
  <2> QED  BY <1>4, <2>1 DEF ChangesWork, MayWork, TypedWork, Get
<1> QED  BY <1>0, <1>1, <1>2, <1>3, <1>4 DEF WorkStep

LEMMA WorkNoLaterStep ==
  ASSUME TypeInv, [Next]_vars, Numbered, NEW r \in Redises, CacheNoLater(r), WorkNoLater(r)
  PROVE  WorkNoLater(r)'
<1> SUFFICES ASSUME work'[r].at = "children"
             PROVE  NoLater(r, work[r].obj.uid)'
  BY DEF WorkNoLater
<1>1. PICK n \in Nat : n = work'[r].obj.uid /\ NoLater(r, n)
  BY WorkOn, UidsAreNumbers DEF CacheNoLater, WorkNoLater
<1>2. NoLater(r, n)'
  BY <1>1, NoLaterKept
<1> QED  BY <1>1, <1>2 DEF NoLater

\* A child stays as it is, or its new owner is the Redis worked for.
LEMMA ChildAfter ==
  ASSUME TypeInv, [Next]_vars, NEW r \in Redises, NEW c \in Children, api'[c][r] # Absent
  PROVE  \/ Exists(c, r) /\ api'[c][r].owner = api[c][r].owner
         \/ work[r].at = "children" /\ api'[c][r].owner = work[r].obj.uid
<1>0. DataTypes /\ DataStep /\ c \in Kinds /\ r \in Keys
  BY StepIsDataStep, KindFacts, KeyFacts DEF TypeInv
<1>1. CASE api' = api
  BY <1>1 DEF Exists
<1>2. ASSUME NEW kind \in Kinds, NEW k \in Keys, NEW object \in Values(kind),
             Writes(kind, k, object)
      PROVE  \/ Exists(c, r) /\ api'[c][r].owner = api[c][r].owner
             \/ work[r].at = "children" /\ api'[c][r].owner = work[r].obj.uid
  <2>1. Put(kind, k, object)
    BY <1>2 DEF Writes
  <2>2. /\ api'[kind][k] = object
        /\ \A K \in Kinds, q \in Keys : K # kind \/ q # k => api'[K][q] = api[K][q]
    BY <1>0, <2>1, AfterWrite
  <2>3. CASE kind = c /\ k = r
    <3>1. MayPutChild(c, r, object)
      BY <1>2, <2>3 DEF Writes
    <3> QED  BY <2>2, <2>3, <3>1 DEF MayPutChild
  <2>4. CASE kind # c \/ k # r
    BY <1>0, <2>2, <2>4 DEF Exists
  <2> QED  BY <2>3, <2>4
<1> QED  BY <1>0, <1>1, <1>2 DEF DataStep, Still, Restarts, Delivers, Relists

LEMMA ChildNoLaterStep ==
  ASSUME TypeInv, [Next]_vars, Numbered, NEW r \in Redises, NEW c \in Children,
         WorkNoLater(r), ChildNoLater(r, c)
  PROVE  ChildNoLater(r, c)'
<1> SUFFICES ASSUME api'[c][r] # Absent
             PROVE  /\ NoLater(r, api[c][r].owner)'
                    /\ work'[r].at = "children" => api'[c][r].owner <= work'[r].obj.uid
  BY DEF ChildNoLater, Exists
<1>1. PICK n \in Nat :
        /\ n = api'[c][r].owner /\ NoLater(r, n)
        /\ work[r].at = "children" => n <= work[r].obj.uid
  BY ChildAfter, UidsAreNumbers DEF ChildNoLater, WorkNoLater
<1>2. NoLater(r, n)'
  BY <1>1, NoLaterKept
<1>3. NoLater(r, api[c][r].owner)'
  BY <1>1, <1>2 DEF NoLater
<1>4. ASSUME work'[r].at = "children"  PROVE n <= work'[r].obj.uid
  <2>1. Known(r, cached["Redis"][r])
    BY DEF Known
  <2> QED  BY <1>1, <1>4, <2>1, WorkOn DEF NoLater
<1> QED  BY <1>1, <1>3, <1>4

LEMMA SuccessionInit == Init => Succession
<1> SUFFICES ASSUME Init, NEW r \in Redises
             PROVE  /\ Rising(r) /\ CacheNoLater(r) /\ WorkNoLater(r)
                    /\ \A c \in Children : ChildNoLater(r, c)
  BY DEF Succession
<1>1. /\ "Redis" \in Kinds /\ Children \subseteq Kinds /\ r \in Keys
      /\ api = [kind \in Kinds |-> [k \in Keys |-> Absent]] /\ cached = api
      /\ watch = [kind \in Kinds |-> <<>>] /\ work = [k \in Keys |-> Idle]
  BY KindFacts, KeyFacts DEF Init
<1>2. Len(Stream) = 0
  BY <1>1 DEF Stream
<1>3. work[r].at = "idle"
  BY <1>1, IdleTypes
<1>4. cached["Redis"][r] = Absent /\ \A c \in Children : api[c][r] = Absent
  BY <1>1
<1> QED  BY <1>2, <1>3, <1>4 DEF Rising, CacheNoLater, WorkNoLater, ChildNoLater, Exists

LEMMA SuccessionStep == TypeInv /\ Numbered /\ Succession /\ [Next]_vars => Succession'
<1> SUFFICES ASSUME TypeInv, Numbered, Succession, [Next]_vars, NEW r \in Redises
             PROVE  /\ Rising(r)' /\ CacheNoLater(r)' /\ WorkNoLater(r)'
                    /\ \A c \in Children : ChildNoLater(r, c)'
  BY DEF Succession
<1>1. /\ Rising(r) /\ CacheNoLater(r) /\ WorkNoLater(r)
      /\ \A c \in Children : ChildNoLater(r, c)
  BY DEF Succession
<1>2. Rising(r)'
  BY <1>1, RisingStep
<1>3. CacheNoLater(r)'
  BY <1>1, CacheStep
<1>4. WorkNoLater(r)'
  BY <1>1, WorkNoLaterStep
<1>5. ASSUME NEW c \in Children  PROVE ChildNoLater(r, c)'
  BY <1>1, ChildNoLaterStep
<1> QED  BY <1>2, <1>3, <1>4, <1>5

LEMMA OwnerRises ==
  ASSUME TypeInv, Succession, [Next]_vars, NEW r \in Redises, NEW c \in Children,
         Exists(c, r), api'[c][r] # Absent
  PROVE  api'[c][r].owner >= api[c][r].owner
BY ChildAfter, UidsAreNumbers DEF Succession, ChildNoLater

\* Whatever is created, deleted and created again under one name, and however
\* late a reconciliation of an earlier life of it is: a child that is taken over
\* is taken over by a later Redis, and never goes back.
THEOREM OwnersRise == Spec => OwnersNeverGoBack
<1>1. Init => TypeInv /\ FinalizerInv /\ Succession
  BY TypeInvInit, FinalizerInvInit, SuccessionInit
<1>2. TypeInv /\ FinalizerInv /\ Succession /\ [Next]_vars
        => (TypeInv /\ FinalizerInv /\ Succession)'
  BY TypeInvStep, FinalizerInvStep, SuccessionStep DEF FinalizerInv
<1>3. ASSUME TypeInv, Succession, [Next]_vars
      PROVE  [\A c \in Children, r \in Redises :
                (Exists(c, r) /\ api[c][r]' # Absent)
                  => api[c][r]'.owner >= api[c][r].owner]_vars
  BY <1>3, OwnerRises
<1> QED  BY <1>1, <1>2, <1>3, PTL DEF Spec, OwnersNeverGoBack
===============================================================================
