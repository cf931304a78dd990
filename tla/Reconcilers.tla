------------------------------ MODULE Reconcilers ------------------------------
(***************************************************************************)
(* The two reconcilers of pkg/kubernetes/reconcilers, between an API       *)
(* server and the caches they read from.  The Redis reconciler keeps a     *)
(* StatefulSet and a Service for each Redis and publishes its readiness;   *)
(* the Tenant reconciler counts a tenant's Redis and holds the tenant back *)
(* with a finalizer while it has any.  They meet in notifyTenantUpdate and *)
(* in the Redis cache.                                                     *)
(*                                                                         *)
(* A write to the API server is one event of its kind's watch stream.      *)
(* Delivering an event updates the cache and calls the handler, which may  *)
(* add a key to a queue.  A reconciliation reads caches, which lag, and    *)
(* writes to the API server, which rejects a stale update.  Both queues    *)
(* are those of RateLimitedQueue: pending and delayed keys, and a key is   *)
(* processed while its work is not idle.  Each write of a reconciliation   *)
(* is a step of its own; other steps of it are merged with the one before. *)
(*                                                                         *)
(* An operator whose name starts with Bug is a plausible mistake in the    *)
(* definition that follows it; no specification uses it.                   *)
(***************************************************************************)
EXTENDS Integers, Sequences, SequencesExt

CONSTANTS
  Redises,       \* names of Redis objects
  Labelled,      \* those that carry the label of the tenant
  Tenant,        \* the name of the tenant
  Children,      \* kinds of object a Redis owns: "StatefulSet", "Service"
  Absent,        \* the value of an object that does not exist
  UserOps,       \* bound: what users do, of "create", "image", "pause", "delete",
                 \* "deleteForeground", "deleteChild", "createTenant", "deleteTenant"
  MaxEdits,      \* bound: how often they do it
  MaxFaults,     \* bound: API calls that fail or are not answered, restarts,
                 \* watches that break, pods that were ready and fail, and
                 \* children collected although they were taken over
  Breaks,        \* bound: kinds whose watch may break
  MaxLag         \* bound: undelivered events of a kind of child, beyond which
                 \* neither Kubernetes itself nor a user does anything to it

Keys  == Redises \cup {Tenant}
Kinds == Children \cup {"Redis", "Tenant"}

ASSUME ReconcilersAssumption ==
  /\ IsFiniteSet(Redises)
  /\ Labelled \subseteq Redises
  /\ Tenant \notin Redises
  /\ Children \subseteq {"StatefulSet", "Service"}
  /\ MaxEdits \in Nat /\ MaxFaults \in Nat /\ MaxLag \in Nat \ {0}

VARIABLES
  api,           \* kind -> key -> the object the API server has
  watch,         \* kind -> events not yet delivered, in order
  cached,        \* kind -> key -> the object in the informer's cache
  pending,       \* keys in the queues of the two controllers
  delayed,       \* keys that come back after AddRateLimited or AddAfter
  work,          \* per key: the reconciliation in progress
  edits, faults, \* how often each has happened
  takenOver,     \* children whose owner a reconciliation has replaced: the
                 \* garbage collector may have found them without one before
  lostChild,     \* history: Redis names with a child that a user deleted, or
                 \* the garbage collector after it had been taken over
  listed         \* history: uids the Tenant reconciler has seen in its list

cluster == <<api, watch, takenOver>>
queues  == <<pending, delayed>>
bounds  == <<edits, faults>>
history == <<lostChild, listed>>
vars == <<api, watch, cached, pending, delayed, work, edits, faults,
          takenOver, lostChild, listed>>

Uids == 1 .. MaxEdits

Images == {"old", "new"}

RedisObjects  == [uid : Uids, image : Images, paused : BOOLEAN, deleting : BOOLEAN,
                  ready : {"unset", "yes", "no"}]
ChildObjects  == [owner : Uids, image : Images, pods : {"none", "starting", "ready"}]
TenantObjects == [deleting : BOOLEAN, finalizer : BOOLEAN,
                  count : 0 .. Cardinality(Redises)]
Objects(kind) == CASE kind = "Redis"     -> RedisObjects
                   [] kind = "Tenant"    -> TenantObjects
                   [] kind \in Children  -> ChildObjects

\* A nil object is not an object.
ASSUME AbsentAssumption == Absent \notin RedisObjects \cup ChildObjects \cup TenantObjects

NewTenant == [deleting |-> FALSE, finalizer |-> FALSE, count |-> 0]
NewRedis(uid, paused) ==
  [uid |-> uid, image |-> "old", paused |-> paused, deleting |-> FALSE, ready |-> "unset"]

\* obj is the copy a reconciliation got from the cache, stale when the API
\* server has another by now; todo, the children not yet written.
Idle == [at |-> "idle", obj |-> Absent, stale |-> FALSE, todo |-> {},
         ready |-> FALSE, failed |-> FALSE, again |-> FALSE]

Exists(kind, k) == api[kind][k] # Absent

Init ==
  /\ api = [kind \in Kinds |-> [k \in Keys |-> Absent]]
  /\ cached = api
  /\ watch = [kind \in Kinds |-> <<>>]
  /\ pending = {}
  /\ delayed = {}
  /\ work = [k \in Keys |-> Idle]
  /\ edits = 0 /\ faults = 0
  /\ takenOver = {} /\ lostChild = {} /\ listed = {}

-----------------------------------------------------------------------------
(***************************************************************************)
(* API server, informers, queues.                                          *)
(***************************************************************************)
ReplacesOwner(kind, k, object) ==
  kind \in Children /\ Exists(kind, k) /\ object.owner # api[kind][k].owner

Put(kind, k, object) ==
  /\ api' = [api EXCEPT ![kind][k] = object]
  /\ watch' = [watch EXCEPT ![kind] =
                  Append(@, [key |-> k, object |-> object, changed |-> TRUE])]
  /\ takenOver' = CASE object = Absent -> takenOver \ {<<kind, k>>}
                    [] object # Absent /\ ReplacesOwner(kind, k, object) ->
                         takenOver \cup {<<kind, k>>}
                    [] OTHER -> takenOver

\* The delegating client: what is read comes from the cache, what is written
\* goes to the API server.
Get(kind, k) == cached[kind][k]

\* An Add, Update or Delete event is for the function of that name.
PredicateFunc(old, new, onAdd, onUpdate, onDelete) ==
  \/ old = Absent /\ new # Absent /\ onAdd
  \/ old # Absent /\ new # Absent /\ onUpdate
  \/ old # Absent /\ new = Absent /\ onDelete

\* The resource versions differ unless the object was only listed again.
ResourceVersionPredicate(old, e) == PredicateFunc(old, e.object, TRUE, e.changed, TRUE)

BugOwnerPredicate(old, e) ==   \* for Delete events instead of Update events
  PredicateFunc(old, e.object, FALSE, FALSE, TRUE)

\* Only an Update event of a child reaches the queue; every child has an owner.
OwnerPredicate(old, e) == PredicateFunc(old, e.object, FALSE, TRUE, FALSE)

\* All predicates of the kind's WatchOption let the event pass.
Predicates(kind, old, e) ==
  /\ kind \in Children => OwnerPredicate(old, e)
  /\ ResourceVersionPredicate(old, e)

\* A child is labelled with the name of its Redis, and is called the same.
ParseRedisKeyFromObj(e) == e.key

BugDeliver(kind) ==   \* events are handled in any order
  /\ \E i \in DOMAIN watch[kind] :
        LET e == watch[kind][i]
        IN  /\ cached' = [cached EXCEPT ![kind][e.key] = e.object]
            /\ pending' = IF Predicates(kind, Get(kind, e.key), e)
                          THEN pending \cup {ParseRedisKeyFromObj(e)} ELSE pending
            /\ watch' = [watch EXCEPT ![kind] = RemoveAt(@, i)]
  /\ UNCHANGED <<api, takenOver, delayed, work, bounds, history>>

Deliver(kind) ==
  /\ watch[kind] # <<>>
  /\ LET e == Head(watch[kind])
     IN  /\ cached' = [cached EXCEPT ![kind][e.key] = e.object]
         /\ pending' = IF Predicates(kind, Get(kind, e.key), e)
                       THEN pending \cup {ParseRedisKeyFromObj(e)} ELSE pending
  /\ watch' = [watch EXCEPT ![kind] = Tail(@)]
  /\ UNCHANGED <<api, takenOver, delayed, work, bounds, history>>

Fire(k) ==
  /\ k \in delayed
  /\ delayed' = delayed \ {k}
  /\ pending' = pending \cup {k}
  /\ UNCHANGED <<cluster, cached, work, bounds, history>>

\* Takes the key, and the object its reconciliation starts from.
Take(kind, k) ==
  /\ k \in pending
  /\ work[k].at = "idle"
  /\ UNCHANGED <<cluster, cached, delayed, bounds>>

\* The cache is behind, so an update from it will be rejected.
Behind(kind, k) == \E e \in ToSet(watch[kind]) : e.key = k /\ e.changed

BugEnd(k, failed, again, told) ==   \* comes back after a success, too
  /\ work' = [work EXCEPT ![k] = Idle]
  /\ delayed' = delayed \cup {k}
  /\ pending' = pending \cup told \cup (IF again /\ ~failed THEN {k} ELSE {})

\* The worker's end: AddRateLimited after an error, AddAfter and Add after a
\* result that asked for a delay, Done.  told: keys notified on the way.
End(k, failed, again, told) ==
  /\ work' = [work EXCEPT ![k] = Idle]
  /\ delayed' = IF failed \/ again THEN delayed \cup {k} ELSE delayed
  /\ pending' = pending \cup told \cup (IF again /\ ~failed THEN {k} ELSE {})

\* notifyTenantUpdate, for a Redis that carries a tenant's label.
Notified(r) == IF r \in Labelled THEN {Tenant} ELSE {}

\* One more thing has gone wrong.
Fault ==
  /\ faults < MaxFaults
  /\ faults' = faults + 1
  /\ UNCHANGED edits

-----------------------------------------------------------------------------
(***************************************************************************)
(* redisReconciler.Reconcile                                               *)
(***************************************************************************)
StartRedis(r) ==
  /\ Take("Redis", r)
  /\ LET redis == Get("Redis", r)
     IN  \/ /\ redis = Absent
            /\ pending' = pending \ {r}
            /\ UNCHANGED work
         \/ /\ redis # Absent /\ redis.paused
            /\ pending' = pending \ {r}
            /\ UNCHANGED work
         \/ /\ redis # Absent /\ ~redis.paused /\ redis.deleting
            /\ pending' = (pending \ {r}) \cup Notified(r)
            /\ UNCHANGED work
         \/ /\ redis # Absent /\ ~redis.paused /\ ~redis.deleting
            /\ pending' = pending \ {r}
            /\ work' = [work EXCEPT ![r] =
                          [Idle EXCEPT !.at = "children", !.obj = redis,
                                       !.stale = Behind("Redis", r), !.todo = Children]]
  /\ UNCHANGED history

Working(r, c) == work[r].at = "children" /\ c \in work[r].todo

\* The call for child c has returned: the StatefulSet's tells whether it is
\* ready, an error leaves it not ready and fails the reconciliation.
Wrote(r, c, ready) ==
  work' = [work EXCEPT ![r].todo = @ \ {c},
                       ![r].ready = IF c = "StatefulSet" THEN ready ELSE @]
Failed(r, c) ==
  work' = [work EXCEPT ![r].todo = @ \ {c}, ![r].failed = TRUE]

\* Only the image of a StatefulSet follows the Redis; a Service has none.
ImageOf(r, c) == IF c = "StatefulSet" THEN work[r].obj.image ELSE "old"

NewChild(r, c) ==
  [owner |-> work[r].obj.uid, image |-> ImageOf(r, c), pods |-> "none"]

\* CreateOrPatch: the cache has no such object.  A new StatefulSet has no
\* replicas, and none that is ready, so it counts as ready.
Create(r, c) ==
  /\ Working(r, c)
  /\ Get(c, r) = Absent
  /\ ~Exists(c, r)
  /\ Put(c, r, NewChild(r, c))
  /\ Wrote(r, c, TRUE)
  /\ UNCHANGED <<cached, queues, bounds, history>>

\* The reconciliation asks for a patch.  A StatefulSet is patched every time,
\* since its template is replaced and the API server's defaults with it; a
\* Service, when its owner changes.
Patches(r, c) ==
  /\ Get(c, r) # Absent
  /\ c = "StatefulSet" \/ Get(c, r).owner # work[r].obj.uid

\* A merge patch has what differs from the cached copy, and is applied to the
\* object there is.  SetControllerReference compares kind and name: it takes the
\* child of an earlier Redis of the name over.
Patched(r, c) ==
  [api[c][r] EXCEPT
     !.image = ImageOf(r, c),
     !.owner = IF Get(c, r).owner # work[r].obj.uid THEN work[r].obj.uid ELSE @]

\* The answer carries the current status; a patch that changes nothing is no event.
Patch(r, c) ==
  /\ Working(r, c)
  /\ Patches(r, c)
  /\ Exists(c, r)
  /\ IF Patched(r, c) = api[c][r] THEN UNCHANGED cluster ELSE Put(c, r, Patched(r, c))
  /\ Wrote(r, c, api[c][r].pods # "starting")
  /\ UNCHANGED <<cached, queues, bounds, history>>

\* The cached Service is as it should be: CreateOrPatch writes nothing.
LeftAlone(r, c) ==
  /\ Working(r, c)
  /\ Get(c, r) # Absent /\ ~Patches(r, c)
  /\ Wrote(r, c, FALSE)
  /\ UNCHANGED <<cluster, cached, queues, bounds, history>>

\* AlreadyExists or NotFound: the cache was behind.
Refused(r, c) ==
  /\ Working(r, c)
  /\ \/ Get(c, r) = Absent /\ Exists(c, r)
     \/ Patches(r, c) /\ ~Exists(c, r)
  /\ Failed(r, c)
  /\ UNCHANGED <<cluster, cached, queues, bounds, history>>

\* The API server does not answer, whether it has done the write or not.
WriteFails(r, c) ==
  /\ Working(r, c)
  /\ Get(c, r) = Absent \/ Patches(r, c)
  /\ Fault
  /\ Failed(r, c)
  /\ \/ UNCHANGED cluster
     \/ Get(c, r) = Absent /\ ~Exists(c, r) /\ Put(c, r, NewChild(r, c))
     \/ /\ Patches(r, c) /\ Exists(c, r)
        /\ Patched(r, c) # api[c][r]
        /\ Put(c, r, Patched(r, c))
  /\ UNCHANGED <<cached, queues, history>>

\* The deferred function.
WantedReady(r) == IF work[r].ready THEN "yes" ELSE "no"
AllWritten(r)  == work[r].at = "children" /\ work[r].todo = {}

StatusKept(r) ==
  /\ AllWritten(r)
  /\ work[r].obj.ready = WantedReady(r)
  /\ End(r, work[r].failed, FALSE, {})
  /\ UNCHANGED <<cluster, cached, bounds, history>>

PutStatus(r) == Put("Redis", r, [api["Redis"][r] EXCEPT !.ready = WantedReady(r)])

\* Optimistic locking: the copy is current, and the Redis still there.
Accepted(r) == ~work[r].stale /\ Exists("Redis", r)

BugUpdateStatus(r) ==   \* notifies the tenant only when the update succeeded
  /\ AllWritten(r)
  /\ work[r].obj.ready # WantedReady(r)
  /\ \/ /\ Accepted(r)
        /\ PutStatus(r)
        /\ End(r, work[r].failed, FALSE, Notified(r))
        /\ UNCHANGED bounds
     \/ /\ ~Accepted(r)
        /\ End(r, TRUE, FALSE, {})
        /\ UNCHANGED <<cluster, bounds>>
     \/ /\ Fault
        /\ UNCHANGED cluster \/ (Accepted(r) /\ PutStatus(r))
        /\ End(r, TRUE, FALSE, {})
  /\ UNCHANGED <<cached, history>>

\* Accepted, rejected, or not answered.
UpdateStatus(r) ==
  /\ AllWritten(r)
  /\ work[r].obj.ready # WantedReady(r)
  /\ \/ /\ Accepted(r)
        /\ PutStatus(r)
        /\ End(r, work[r].failed, FALSE, Notified(r))
        /\ UNCHANGED bounds
     \/ /\ ~Accepted(r)
        /\ End(r, TRUE, FALSE, Notified(r))
        /\ UNCHANGED <<cluster, bounds>>
     \/ /\ Fault
        /\ UNCHANGED cluster \/ (Accepted(r) /\ PutStatus(r))
        /\ End(r, TRUE, FALSE, Notified(r))
  /\ UNCHANGED <<cached, history>>

-----------------------------------------------------------------------------
(***************************************************************************)
(* tenantReconciler.Reconcile                                              *)
(***************************************************************************)
StartTenant ==
  /\ Take("Tenant", Tenant)
  /\ pending' = pending \ {Tenant}
  /\ work' = IF Get("Tenant", Tenant) = Absent
             THEN work
             ELSE [work EXCEPT ![Tenant] =
                     [Idle EXCEPT !.at = "list", !.obj = Get("Tenant", Tenant),
                                  !.stale = Behind("Tenant", Tenant)]]
  /\ UNCHANGED history

BugOwned == {r \in Labelled : /\ Get("Redis", r) # Absent   \* not those on their way out
                             /\ ~Get("Redis", r).deleting}

Owned == {r \in Labelled : Get("Redis", r) # Absent}

BugCounted(tenant, n) ==   \* adds to the count it finds
  [tenant EXCEPT !.finalizer = n > 0,
                 !.count = IF tenant.deleting THEN @ ELSE @ + n]

\* The tenant with the finalizer and the count its n Redis ask for.
Counted(tenant, n) ==
  [tenant EXCEPT !.finalizer = n > 0,
                 !.count = IF tenant.deleting THEN @ ELSE n]

BugAgain(tenant, n) == tenant.finalizer \/ n > 0   \* deleted or not

BugNoRequeue(tenant, n) == FALSE   \* waits for an event

\* RequeueAfter: a tenant that is being deleted and was not free before.
Again(tenant, n) == tenant.deleting /\ (tenant.finalizer \/ n > 0)

ListRedis ==
  /\ work[Tenant].at = "list"
  /\ LET tenant == work[Tenant].obj
         n      == Cardinality(Owned)
         wanted == Counted(tenant, n)
     IN  \/ /\ wanted # tenant
            /\ work' = [work EXCEPT ![Tenant].at = "update", ![Tenant].obj = wanted,
                                    ![Tenant].again = Again(tenant, n)]
            /\ UNCHANGED queues
         \/ /\ wanted = tenant
            /\ End(Tenant, FALSE, Again(tenant, n), {})
  /\ listed' = listed \cup {Get("Redis", r).uid : r \in Owned}
  /\ UNCHANGED <<cluster, cached, bounds, lostChild>>

\* The API server removes a deleted object with its last finalizer.
PutTenant ==
  LET tenant == work[Tenant].obj
  IN  Put("Tenant", Tenant,
          IF tenant.deleting /\ ~tenant.finalizer THEN Absent ELSE tenant)

UpdateTenant ==
  /\ work[Tenant].at = "update"
  /\ \/ /\ ~work[Tenant].stale
        /\ PutTenant
        /\ End(Tenant, FALSE, work[Tenant].again, {})
        /\ UNCHANGED bounds
     \/ /\ work[Tenant].stale
        /\ End(Tenant, TRUE, FALSE, {})
        /\ UNCHANGED <<cluster, bounds>>
     \/ /\ Fault
        /\ UNCHANGED cluster \/ (~work[Tenant].stale /\ PutTenant)
        /\ End(Tenant, TRUE, FALSE, {})
  /\ UNCHANGED <<cached, history>>

-----------------------------------------------------------------------------
(***************************************************************************)
(* The world: users, the garbage collector, pods, and the process itself.  *)
(***************************************************************************)
\* A write by somebody else makes a copy in use stale.
Outdate(k) == work' = [work EXCEPT ![k].stale = work[k].at # "idle"]

Edit(op) ==
  /\ op \in UserOps
  /\ edits < MaxEdits
  /\ edits' = edits + 1
  /\ UNCHANGED <<cached, queues, faults, listed>>

CreateRedis(r) ==
  /\ Edit("create")
  /\ ~Exists("Redis", r)
  /\ \E paused \in {FALSE, "pause" \in UserOps} : Put("Redis", r, NewRedis(edits', paused))
  /\ Outdate(r)
  /\ UNCHANGED lostChild

EditImage(r) ==
  /\ Edit("image")
  /\ Exists("Redis", r)
  /\ \E image \in Images \ {api["Redis"][r].image} :
        Put("Redis", r, [api["Redis"][r] EXCEPT !.image = image])
  /\ Outdate(r)
  /\ UNCHANGED lostChild

TogglePause(r) ==
  /\ Edit("pause")
  /\ Exists("Redis", r)
  /\ Put("Redis", r, [api["Redis"][r] EXCEPT !.paused = ~@])
  /\ Outdate(r)
  /\ UNCHANGED lostChild

\* In the background, or waiting for the children to go first.
DeleteRedis(r) ==
  /\ Exists("Redis", r)
  /\ ~api["Redis"][r].deleting
  /\ \/ Edit("delete") /\ Put("Redis", r, Absent)
     \/ Edit("deleteForeground") /\ Put("Redis", r, [api["Redis"][r] EXCEPT !.deleting = TRUE])
  /\ Outdate(r)
  /\ UNCHANGED lostChild

KeepsUp(kind) == Len(watch[kind]) < MaxLag

DeleteChild(r, c) ==
  /\ Edit("deleteChild")
  /\ KeepsUp(c)
  /\ Exists(c, r)
  /\ Put(c, r, Absent)
  /\ lostChild' = lostChild \cup {r}
  /\ UNCHANGED work

CreateTenant ==
  /\ Edit("createTenant")
  /\ ~Exists("Tenant", Tenant)
  /\ Put("Tenant", Tenant, NewTenant)
  /\ Outdate(Tenant)
  /\ UNCHANGED lostChild

DeleteTenant ==
  /\ Edit("deleteTenant")
  /\ Exists("Tenant", Tenant)
  /\ LET tenant == api["Tenant"][Tenant]
     IN  /\ ~tenant.deleting
         /\ Put("Tenant", Tenant,
                IF tenant.finalizer THEN [tenant EXCEPT !.deleting = TRUE] ELSE Absent)
  /\ Outdate(Tenant)
  /\ UNCHANGED lostChild

\* The Redis that owns child c of name r, in its current life.
HasOwner(r, c) == Exists("Redis", r) /\ api["Redis"][r].uid = api[c][r].owner

\* The owner is there, and stays.
Kept(r, c) == HasOwner(r, c) /\ ~api["Redis"][r].deleting

CollectChild(r, c) ==
  /\ KeepsUp(c)
  /\ Exists(c, r) /\ ~Kept(r, c)
  /\ Put(c, r, Absent)
  /\ UNCHANGED <<cached, queues, work, bounds, history>>

\* The garbage collector looks at the owner, and then deletes the child by its
\* uid: who has taken the child over in between loses it.
CollectLate(r, c) ==
  /\ Fault
  /\ KeepsUp(c)
  /\ <<c, r>> \in takenOver /\ Kept(r, c)
  /\ Put(c, r, Absent)
  /\ lostChild' = lostChild \cup {r}
  /\ UNCHANGED <<cached, queues, work, listed>>

FinishDeletion(r) ==
  /\ Exists("Redis", r)
  /\ api["Redis"][r].deleting
  /\ \A c \in Children : ~(Exists(c, r) /\ HasOwner(r, c))
  /\ Put("Redis", r, Absent)
  /\ Outdate(r)
  /\ UNCHANGED <<cached, queues, bounds, history>>

Pods(r, from, to) ==
  /\ "StatefulSet" \in Children
  /\ KeepsUp("StatefulSet")
  /\ Exists("StatefulSet", r)
  /\ api["StatefulSet"][r].pods = from
  /\ Put("StatefulSet", r, [api["StatefulSet"][r] EXCEPT !.pods = to])
  /\ UNCHANGED <<cached, queues, work, history>>

PodsProgress(r) ==
  /\ Pods(r, "none", "starting") \/ Pods(r, "starting", "ready")
  /\ UNCHANGED bounds

PodFails(r) ==
  /\ Fault
  /\ Pods(r, "ready", "starting")

\* The watch of a kind breaks.  Events from some point on are lost, and the
\* kind is listed: an object that was made and deleted meanwhile is not seen at
\* all, one that was replaced looks updated.
Relist(kind) ==
  /\ kind \in Breaks
  /\ Fault
  /\ \E n \in 0 .. Len(watch[kind]) :
        LET kept   == SubSeq(watch[kind], 1, n)
            lost   == {e.key : e \in ToSet(SubSeq(watch[kind], n + 1, Len(watch[kind])))}
            listing == {[key |-> k, object |-> api[kind][k], changed |-> k \in lost] :
                          k \in lost \cup {k \in Keys : Exists(kind, k)}}
        IN  /\ lost = {} => kind \notin Children   \* bound: no futile listing of these
            /\ watch' = [watch EXCEPT ![kind] = kept \o SetToSeq(listing)]
  /\ UNCHANGED <<api, takenOver, cached, queues, work, history>>

\* The process ends and another starts: it fills its caches, whose Add events
\* fill the queues, before it lets a worker run.
Restart ==
  /\ Fault
  /\ cached' = api
  /\ watch' = [kind \in Kinds |-> <<>>]
  /\ pending' = {k \in Redises : Exists("Redis", k)}
                \cup {k \in {Tenant} : Exists("Tenant", k)}
  /\ delayed' = {}
  /\ work' = [k \in Keys |-> Idle]
  /\ UNCHANGED <<api, takenOver, history>>

-----------------------------------------------------------------------------
RedisStep(r) ==
  \/ StartRedis(r)
  \/ \E c \in Children : Create(r, c) \/ Patch(r, c) \/ LeftAlone(r, c) \/ Refused(r, c)
  \/ StatusKept(r)
  \/ UpdateStatus(r)

TenantStep == StartTenant \/ ListRedis \/ UpdateTenant

UserStep ==
  \/ \E r \in Redises : CreateRedis(r) \/ EditImage(r) \/ TogglePause(r) \/ DeleteRedis(r)
  \/ \E r \in Redises, c \in Children : DeleteChild(r, c)
  \/ CreateTenant \/ DeleteTenant

\* What Kubernetes goes on doing by itself.
ClusterStep(r) ==
  \/ \E c \in Children : CollectChild(r, c)
  \/ FinishDeletion(r)
  \/ PodsProgress(r)

Next ==
  \/ \E kind \in Kinds : Deliver(kind) \/ Relist(kind)
  \/ \E k \in Keys : Fire(k)
  \/ \E r \in Redises : RedisStep(r) \/ ClusterStep(r) \/ PodFails(r)
  \/ \E r \in Redises, c \in Children : WriteFails(r, c) \/ CollectLate(r, c)
  \/ TenantStep
  \/ UserStep
  \/ Restart

Spec == Init /\ [][Next]_vars

(***************************************************************************)
(* Fairness.  Informers deliver, delays end, workers work, and Kubernetes  *)
(* does its part.  Users, faults and failing pods are free.                *)
(***************************************************************************)
Fairness ==
  /\ \A kind \in Kinds : WF_vars(Deliver(kind))
  /\ \A k \in Keys : WF_vars(Fire(k))
  /\ \A r \in Redises : WF_vars(RedisStep(r)) /\ WF_vars(ClusterStep(r))
  /\ WF_vars(TenantStep)

FairSpec == Spec /\ Fairness

-----------------------------------------------------------------------------
(***************************************************************************)
(* Safety.                                                                 *)
(***************************************************************************)
WorkTypeOK ==
  \A k \in Keys :
    /\ work[k].at \in IF k = Tenant THEN {"idle", "list", "update"} ELSE {"idle", "children"}
    /\ work[k].obj \in {Absent} \cup (IF k = Tenant THEN TenantObjects ELSE RedisObjects)
    /\ work[k].todo \subseteq Children
    /\ work[k].stale \in BOOLEAN /\ work[k].ready \in BOOLEAN
    /\ work[k].failed \in BOOLEAN /\ work[k].again \in BOOLEAN

\* Every variable keeps its type; in particular a count never exceeds the number
\* of Redis there can be.
RTypeOK ==
  /\ \A kind \in Kinds :
       /\ \A k \in Keys : /\ api[kind][k] \in Objects(kind) \cup {Absent}
                          /\ cached[kind][k] \in Objects(kind) \cup {Absent}
       /\ \A e \in ToSet(watch[kind]) : e.object \in Objects(kind) \cup {Absent}
  /\ pending \subseteq Keys /\ delayed \subseteq Keys
  /\ takenOver \subseteq Children \X Redises
  /\ WorkTypeOK

\* Children are taken over, but never back: while a child exists its owner is
\* only ever replaced by a later Redis of the name, although caches lag, events
\* are lost, and a reconciliation may still work for a Redis that is gone.
OwnersNeverGoBack ==
  [][\A c \in Children, r \in Redises :
        (Exists(c, r) /\ api[c][r]' # Absent) => api[c][r]'.owner >= api[c][r].owner]_vars

\* The finalizer leaves a tenant only when every Redis that any list of the
\* Tenant reconciler has shown is gone, though lists and updates may be late.
FinalizerHolds ==
  [][(/\ Exists("Tenant", Tenant) /\ api["Tenant"][Tenant].finalizer
      /\ api["Tenant"][Tenant]' = Absent \/ ~api["Tenant"][Tenant]'.finalizer)
        => \A r \in Redises : Exists("Redis", r) => api["Redis"][r].uid \notin listed]_vars

-----------------------------------------------------------------------------
(***************************************************************************)
(* Liveness, under FairSpec.                                               *)
(***************************************************************************)
Active(r) == /\ Exists("Redis", r)
             /\ ~api["Redis"][r].paused /\ ~api["Redis"][r].deleting

HasChild(r, c) ==
  /\ Exists(c, r)
  /\ HasOwner(r, c)
  /\ c = "StatefulSet" => api[c][r].image = api["Redis"][r].image

\* Once users, faults and pods leave it alone, an active Redis has its own
\* children with its image, and says it is ready, whatever was before:
\* recreation under the same name, conflicts, unanswered calls, restarts.  The
\* exception is a child deleted by hand, which OwnerPredicate hides.
Converges ==
  \A r \in Redises :
     <>[](\/ ~Active(r)
          \/ r \in lostChild
          \/ /\ \A c \in Children : HasChild(r, c)
             /\ "StatefulSet" \in Children => api["Redis"][r].ready = "yes")

\* In the end a tenant that is not being deleted counts its active Redis, and
\* has the finalizer if there are any.  (It may count too many: nobody tells it
\* that a Redis is gone.)
ActiveAreCounted ==
  <>[](\/ ~Exists("Tenant", Tenant)
       \/ LET tenant == api["Tenant"][Tenant]
              active == {r \in Redises : Active(r)}
          IN  \/ tenant.deleting
              \/ /\ tenant.count >= Cardinality(active)
                 /\ active # {} => tenant.finalizer)

TenantDeleting == Exists("Tenant", Tenant) /\ api["Tenant"][Tenant].deleting

\* A tenant being deleted goes, unless Redis of it remain.
TenantGoes ==
  TenantDeleting ~> (~TenantDeleting \/ []<>(\E r \in Redises : Exists("Redis", r)))

\* The controllers come to rest, unless a tenant waits for its deletion: no
\* reconciliation triggers itself, or another, for ever.
ComesToRest ==
  <>[](TenantDeleting \/ (pending = {} /\ delayed = {} /\ \A k \in Keys : work[k] = Idle))
===============================================================================
