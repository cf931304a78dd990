# A TLA+ verification project for k8s-controller-the-hard-way

The repository builds one process: a Kubernetes operator with two controllers (Redis and Tenant) on a small
controller framework. The difficult code is in the framework, a work queue with two levels of priority,
delays and retries, shared by two pools of workers, informer handlers and a shutdown, and in the two
reconcilers, which read caches that lag and write to an API server that may refuse or not answer. This
project models both in TLA+, and the life of the processes around them, from the election to the exit. It
checks the models with TLC on small instances, and proves the central safety properties of the queue, its
metrics, its controller, its heap, the reconcilers, the election and the processes for every value of the
constants with TLAPS. Every invariant, safety action property and refinement that a passing run checks is a theorem.

All paths below are relative to the repository. `PROJECT.json` maps every definition to the lines it models.

## 1. Inventory

| Component | State it keeps | Operations | Interacts with |
|---|---|---|---|
| **Playboy queue** `pkg/utils/workqueue/playboyqueue.go` | `queueFresh`, `queueStaled`, `dirty`, `processing`, `shuttingDown`, the condition variable, `failures`, the rate limiter's counts, the channel `waitingForAddCh`, the loop's heap | `Add`, `AddAfter`, `AddRateLimited`, `Forget`, `Get`, `GetFresh`, `Done`, `ShutDown`, `ShutDownWithDrain`, goroutine `waitingLoop` | workers, handlers, timers; three locks and one channel |
| **Delay heap** `pkg/utils/workqueue/helper.go` | heap of entries with their indices, map of known entries | `insert`, `Push`, `Pop`, `Swap`, `Peek` | private to `waitingLoop` |
| **Queue metrics** `pkg/utils/workqueue/metrics.go` | `addTimes`, `processingStartTimes`, gauges | `add`, `get`, `done`, `retry`, `updateUnfinishedWork` | called by the queue, mostly under its lock |
| **Worker** `pkg/utils/controller/worker.go` | the item in hand | `Run`, `processItemFromQueue` | a queue and a reconciler |
| **Playboy controller** `pkg/utils/controller/playboytype.go` | queue, fresh and staled worker pools | `Run`, `Enqueue`, `EnqueueObject` | workers; context cancellation shuts the queue down |
| **Basic controller** `pkg/utils/controller/basictype.go` | client-go's queue, one pool | the same | the same, with a goroutine for the shutdown |
| **Handlers and predicates** `pkg/utils/controller/controller.go`, `predicate.go` | none | `OnAdd`, `OnUpdate`, `OnDelete`, predicates | informers call them; they call `queue.Add` |
| **Redis reconciler** `pkg/kubernetes/reconcilers/redis.go` | none of its own; API objects and cached copies | `Reconcile`: StatefulSet and Service, status | API server, caches, notifies the Tenant controller |
| **Tenant reconciler** `pkg/kubernetes/reconcilers/tenant.go` | none of its own | `Reconcile`: finalizer, count of owned Redis | API server, caches |
| **Leader election** `pkg/utils/leaderelection`, `main.go` | the lock, its holder's identity, the leader's deadline | acquire, renew, give up, release | the API server, the other processes |
| **Process lifecycle** `main.go`, `pkg/utils/signal` | error group, contexts, `OnStartedLeading`'s goroutine | start, sync, lead, lose the lead, stop | everything above |
| **Metrics providers, client, API types, generated code** | none | constructors, registrations, deep copies | not behaviour of their own |

What is hard in it:

* **Wakeups.** `Get` and `GetFresh` wait on one condition variable, and `add` and `Done` wake one waiter.
* **A key in several places.** A key may at once be dirty, in processing, in the channel, in the heap, in a
  blocked call and in the hands of the loop. It must not be lost, duplicated or handed out twice.
* **Three locks.** `AddRateLimited` counts under `failuresLock`, asks the rate limiter under its own lock, and
  adds under `cond.L`. `isFresh` is read under one lock and used under another. The queue uses both counts.
* **Delays.** A key delayed again while it waits; a full channel; entries that are due while the loop is in
  its inner round; a shutdown at any of these points.
* **Shutdown.** Sleeping takers, blocked senders, the loop, a drain, and workers whose keys come back.
* **Stale reads** in the reconcilers: caches lag behind the API server, updates conflict, two controllers work
  on related objects. A watch that breaks and is listed again skips what happened in between.
* **Metrics** are reported by another path than the changes they are about, and are kept in maps of their own.
* **Lease and exit.** A leader counts from an answer and its rivals from the write, and an answer may take
  longer than the lease leaves. Cancelling a process
  reaches the elector, the controllers and `main` by three ways, and `main` waits for one of them only.

What makes each component correct, in words:

* Queue: the queues hold exactly the dirty keys nobody processes; a key has one holder; every key entrusted is
  handed out or the queue shuts down; delays are not shortened or prolonged; a shutdown ends everything.
* Heap: it is a map from keys to their earliest instants that hands keys back in order.
* Controller: it uses the queue within its contract; a failed key is tried again; `Run` ends.
* Metrics: depth is the number of dirty keys, and the two maps have exactly the keys of the sets they describe.
* Reconcilers: with finitely many edits and errors the objects reach the desired state and the controllers come
  to rest; a tenant being deleted goes once its Redis are gone, and its finalizer is not removed while a
  Redis that was counted exists; status follows readiness; what an earlier Redis of the same name left is taken
  over, and never given back.
* Election: of two processes that believe that they lead, one has a lease that is over, and by how much is bounded.
* Lifecycle: two processes reconcile at once only while one of them is on its way out or in that state; no change
  is missed, by the leader or by whoever leads next; workers that return one by one leave nothing queued; a
  process whose context is cancelled ends.

## 2. Modules

```
RateLimitedQueue        what a controller may rely on              (abstract)
   ^ implements
PlayboyQueue            the queue, one action per critical section  MCPlayboyQueue
   ^ extends              ^ proofs: PlayboyQueueProofs, PlayboyQueuePromises
   |- QueueMetrics      ... with the reports it makes               MCQueueMetrics
   |                      ^ proofs: QueueMetricsProofs
   '- PlayboyController workers, handlers, Run on that queue        MCPlayboyController
                          ^ proofs: PlayboyControllerProofs
DelayedKeys             earliest instant per key, in order         (abstract)
   ^ implements
DelayHeap               container/heap, insert, index, map          MCDelayHeap
                          ^ proofs: DelayHeapProofs

Reconcilers             both Reconcile functions, predicates,       MCReconcilers
                        caches, API server; queues as in RateLimitedQueue
                          ^ proofs: ReconcilersProofs

LeaderElection          the lock, its holders, answers, deadlines
   ^ extends              ^ proofs: LeaderElectionProofs
Lifecycle               processes from start to exit, with the      MCLifecycle
                        controllers they start
                          ^ proofs: LifecycleProofs
```

### PlayboyQueue

State is that of the struct, field by field. What differs:

* One action is one critical section or one channel communication. A call made of several keeps its
  place in `pc` and its arguments in `call`: `AddRateLimited` is `AddRateLimited` (count) → `When` (limiter) →
  `AddRateLimitedAfter` (`AddAfter`'s first lines) → `AddAfterSend`, or → `AddAfterIsFresh` → `AddAfterAdd` for a
  delay that is not positive. Everything between two unlocks is one step, as Go's mutex makes it, and nothing else is.
* `ShutDown` is one step: it sets the flag, wakes everybody and closes `stopCh` inside the lock (lines 236-244).
  `Forget` is one step,
  although it clears two counters under two locks: only the holder of a key changes its counters, and the
  holder does nothing else in between. `AddRateLimited` is split between the same two counters, because
  another goroutine may read one of them there (`isFresh`).
* A goroutine in `cond.Wait` is in `waiters`. `sync.Cond` keeps tickets and wakes the oldest, so `Signal`
  removes the head and `Broadcast` all. A woken goroutine runs its loop again at any later time, and may find
  the queue empty again.
* `waitForProcessing` waits on the same condition: a `Signal` may go to a closer.
* Time is relative. An entry carries the ticks left, 0 once its instant has passed; `Tick` ages the channel,
  the heap and the blocked sends. `waitingLoop` picks a `ready` set at the top of its round (the code's `now`) and
  pops from it, reading `isFresh` when it pops and adding in a later step.
* The heap is the function `waiting`, the last instant a key is due. That this is right is the business of
  `DelayHeap`. Entries that are due leave it in any order: their order is lost when time is relative.
* The loop's wait is split by the case taken: `LoopStop`, `LoopHeartbeat`, `LoopTimer`, `LoopReceive`. The
  inner loop that empties the channel is the place `"drain"`.
* `Getters`, `FreshGetters`, `Adders`, `Closers` are sets of goroutines, which may overlap: a worker is in
  both `Getters` and `Adders`. `MaxHeld = 1` is what `worker.go` does: it gives a key back before asking
  for another.
* Not modelled: the branch of the constructor that returns client-go's queue when `freshThreshold < 1`
  (`FreshThreshold` is positive by assumption). The metrics calls are in `QueueMetrics`.

Its contract is `RateLimitedQueue`: pending, processing and delayed keys. `Implements` maps `pending` to `dirty`
and `delayed` to the union of the four places a delayed key can be in.

### PlayboyController

Extends the queue with `stage` (a worker's place in `processItemFromQueue`) and `running` (the place of `Run`).
Every action is one action of the queue, or none, and a step of a worker or of `Run`. A reconciliation is
left open: it fails, or returns one of `Results`. A fresh worker's `Get` is `GetFresh`, by
`FreshOnlyInterface`. Cancellation and the `ShutDown` that follows it are one step. `CannotSync` returns from
`Run` without a shutdown, as the code does.

### QueueMetrics

Extends the queue with the fields of `defaultMetrics`. A step is a step of the queue with the report that the
code makes in the same critical section (`add`, `get`, `done`), or just before it (`retry`), or a round of
`updateUnfinishedWorkLoop`, which takes the queue's lock. Instants, counters and histograms are left out: of
a map from keys to instants its domain is kept, which is what can be wrong.

`newMetrics` compares a pointer to the clock with a struct, so that the second test never holds: a queue
without a name has no metrics and every other has `defaultMetrics`, whatever the provider. `MInit` takes
either. `defaultMetrics` has no `retries`, and `metricsRetry` therefore ends the process (`panicked`).

### DelayHeap

`helper.go` with `container/heap` (`up`, `down`, `Push`, `Pop`, `Fix`), entries with indices and the map
`knownEntries`. It refines `DelayedKeys`. Popping an entry and deleting it from the map are one step: both
are local to the loop's goroutine. The loops of `up` and `down` are recursive functions of the number of turns made;
`UpTurn` and `DownTurn` are one turn, which either exchanges two entries and goes on or leaves everything as it is.

### Reconcilers

`api` is what the API server has, `watch` one stream of undelivered events per kind, `cached` what the
reconcilers read. A write appends to the stream of its kind; `Deliver` puts the head into the cache and calls
the handler, which adds the key unless `OwnerPredicate` drops the event. Streams of different kinds are
delivered independently, as the informers do, so the Tenant reconciler may see a Redis the Redis reconciler
has not, and the reverse. Decisions:

* `StartRedis` and `StartTenant` take the key and read the cache: nothing observable lies between. Each write
  of a reconciliation is a step, and so is the Tenant reconciler's list. The two `errgroup` goroutines of a Redis
  are `todo`, written in any order; the deferred function runs when it is empty.
* An update carries the resource version of its copy. The copy is `stale` when the cache was behind as it was
  read, or somebody wrote the object since; a stale update is refused. Patches are not refused.
* `CreateOrPatch` of a StatefulSet always patches, because the template is replaced and with it the API server's
  defaults; of a Service it patches when the owner changes, and writes nothing else (`Patches`). Of the template
  only the image is kept. The answer of the patch carries the current status, which is where readiness comes from.
* A Redis that is created again under its name finds the children of the earlier one until the garbage collector
  has deleted them. `SetControllerReference` (`redis.go:149`, `214`) asks whether the controller that a child has is the
  same object by group, kind and name, and not by uid (controller-runtime v0.11.2, `referSameObject`). The
  earlier Redis is the same object for it: the reference is overwritten with the new uid and patched, and the child is taken
  over (`Patched`, `takenOver`). The patch is a merge of what differs from the *cached* child: when the cache shows the new
  owner already, the owner is not part of it.
* No other kind of owner is modelled, so `AlreadyOwnedError` does not arise. The test for it (`redis.go:128`)
  looks at a wrapped error and would not find it; `Refused` is a create of what exists, or a patch of what is gone.
* The garbage collector deletes a child whose owner does not exist (`CollectChild`). It decides before it deletes, so a
  child may be taken over in between and deleted all the same: `CollectLate`, which costs a fault. Nothing in the repository
  notices, because `OwnerPredicate` hides the Delete event; the child is in `lostChild` from then on, as one is that a
  user deletes.
* `End` is the worker after `Reconcile`, with the `Add` that follows `AddAfter`. Both queues are kept as pending and
  delayed keys. There are as many workers as keys: `main.go` runs ten per processor.
* `Get` is the delegating client of `pkg/utils/client`: it reads the cache. Nothing in a reconciliation reads
  from the API server.
* An event is for one of the functions of `PredicateFunc` by what the cache had before. `Predicates` is the conjunction
  that `main.go` configures: `ResourceVersionPredicate` for the main kinds, `OwnerPredicate` as well for the children.
* `Relist` is a watch that breaks: the undelivered events are lost from some point on, and each object that the API
  server has now comes as one event, which is marked as unchanged when the cache has it already. Deletions that the watch missed are found by
  the list. `Breaks` says which kinds it happens to; of a child it happens when something is lost by it.
* `Restart` is the crash of the process: the next one fills its caches before a worker runs, and the Add events
  of both main kinds fill the queues.
* Users, the garbage collector, finalizers and pods are external. A pod that was ready may fail, within
  `MaxFaults`; a rollout counts as such a failure. `MaxLag` stops Kubernetes, and users who delete a child, while that many
  events of a child are undelivered: without it a stream could grow for ever.

### LeaderElection

The lock of `leaderelection.go` and client-go's elector, as `main.go` configures it. Time is a number of ticks.

* A renewal is `Update` (it takes effect), then `Answered` or `Unanswered`. The leader counts from the answer
  (`since`), the candidates from the write (`age`); `lease` is the age of the write that a leader's belief rests on.
* `GiveUpAfter` is `RetryPeriod` and `RenewDeadline` together, 2 s and 10 s by default: the wait before a
  renewal and the time it is tried for. `AnswerDelay` is the client's timeout, 10 s (`main.go:93`). Candidates wait
  `LeaseDuration`, 15 s. Nothing is assumed of how these compare. With the defaults a renewal that takes effect
  at once and is answered after 10 s is given up 22 s after it took effect, so that two processes may lead for 7 s.
  `OneValidLease` says that the first of them then leads on a lease that is over, and the type of `lease` bounds by
  how much (`GiveUpAfter + AnswerDelay`). Only a `Timeout` of less than 3 s, or a lease of more than 22 s, gives one leader at most
  (`OneLeader`, proved).
* `Tick` lets no leader pass its deadline: a process that is stopped for longer than that and goes on as the leader
  is not modelled.
* A candidate counts from the instant it saw the lock change, which is not before the change. `age` counts from the
  change itself, so candidates of the model may be earlier than those of the code.
* A call takes effect while its process waits for it. `Identity` is new in each life of a process, as the UUID in
  it is.
* `Release` may fail, and the lock is then left to expire.

### Lifecycle

Extends the election with a record per process: the place of `main`, its context and signals, the goroutine of
`OnStartedLeading`, and for each controller the place of `basicType.Run` and what its queue has.

* The controllers are created before the election, so their handlers fill the queues whether or not the
  process leads. `OnStartedLeading` is a goroutine of its own: it may start the controllers of a process that is
  cancelled, or leads no more.
* A process is cancelled by a signal, by a task of the error group that fails, or by `LostLeadership`, the task
  that waits for `OnStoppedLeading`. `main` ends when the elector has returned; it never waits for the
  error group, so workers may be in a reconciliation as the process goes (`Exit`).
* A key is `outdated` from a change of its object until a reconciliation that has seen it succeeds. A worker
  reads the cache, which may be ahead of the handler (`seen`).
* A controller has `Concurrency` workers. Each holds one key or is in `Get`; a free one takes a key (`Begin`) or, once
  the queue is shut down and empty, returns (`WorkerReturns`), while others may still hold keys that are added again
  and come back as they are done. `Run` returns after the last (`RunReturns`). client-go's queue hands out what it
  has after `ShutDown`, and drops what comes later. A controller whose caches are not synced as the process is cancelled is `unsynced`, and its
  queue stays open.
* `Pass` costs a fault when it makes an answer late, that is, when the lease may be over before its leader gives up
  (`Late`). A leader that has lost the lock gives up at its deadline (`LoseLease`); one that has it, and does not
  renew it, does so by a fault (`MissDeadline`).
* Events of a key are merged, and an object changes but does not go away: two pools are the business of
  `PlayboyController`, and the order of events that of `Reconcilers`.

## 3. Runs

| Run | Instance | Asks |
|---|---|---|
| `queue_core` | 2 keys, one `Get`, one `GetFresh`, a producer, a closer, delays 0 and 1, channel of 1, with and without a name | `TypeOK`, `QueuesExact`, `ExclusiveHolding`, `FreshKeysHaveTakers`, `NeverPostponed`, `NeverEarly`, `MetricsAgree` |
| `queue_get_only` | 2 keys, two `Get` callers, a producer that asks for no delay, a closer, with and without a name | `KeysHaveTakers`, `ExitLeavesNothing`, `FreshIsServed`, `StaledIsServed` |
| `controller_run` | 1 key, one worker of each pool, a handler, `Run` | `CTypeOK`, `RetryCountsAgree`, `ImplementsQueue`, `Implements`, `RunReturns`, `DelayedIsAdded`, `ShutdownEnds`, `FailedIsRetried` |
| `delay_heap` | 5 keys, 3 instants | `EntriesAgree`, `KeepsOrder` |
| `redis` | 1 Redis name, StatefulSet and Service, 3 edits (create, delete, image, delete a child), 1 fault, which may be a broken watch of the StatefulSet | `OwnersNeverGoBack`, `Converges`, `ComesToRest` |
| `tenant` | 1 tenant, 1 Redis of it without children, 4 edits (create and delete either, in background or foreground; pause), 1 fault, which may be a broken watch of either | `RTypeOK`, `FinalizerHolds`, `ActiveAreCounted`, `TenantGoes`, `ComesToRest` |
| `lifecycle` | 2 processes, 1 controller with 2 workers, 1 object, a lease of 2 ticks given up 1 after an answer that takes up to 2, 1 change, 1 fault | `LTypeOK`, `OneValidLease`, `OneLeaderWorks`, `RunLeavesNothing`, `NothingIsMissed`, `EveryChangeIsReconciled`, `CancelledExits` |

Each property has a mutant in the module (`Bug...`), a plausible mistake that makes TLC report it.

Why the bounds are enough. `FreshThreshold = 1` with three retries gives a fresh retry and staled ones, and the
two sides of the limiter. A channel of one place is full whenever anything is in it, which 1000
places reach only under load. Two keys and two takers give every case of the wakeup (a burst, a caller
awake but not yet running, a sleeper of the other kind); a third key adds a longer queue and no new case, and
the proofs cover any number. Delays 0 and 1 give an add at once and an entry that is still due, or
already, when the same key is delayed again; one that is overtaken by a shorter delay is among the three instants of
`delay_heap`. Five entries make a heap of three levels, so that `up` and `down` go more than one step.
`MaxRetries` is the only bound on a count there; a worker whose key has reached it can only succeed.

In `redis` three edits are create, delete and create again, with the children of the first life still there and
taken over by the second, before or after the garbage collector; one fault is a failed or unanswered write, a broken watch, a
collector that is late, a restart or a failing pod anywhere in between. It is the largest run (475,806 states,
two to four minutes with two workers). In `tenant` four edits are
the two creations and the two deletions in any order. Redis of different names meet only in the tenant's
count, so one name shows what can go wrong with it. A faulty step costs a fault whatever
it is; the reconcilers keep nothing between two reconciliations, so a second fault finds them as the first did.
The system really comes to rest here, so these two runs do not look for deadlock; `ComesToRest` and the
liveness properties say where it may rest. Nor does `queue_core`, where a process that panicked has stopped;
the other runs of the queue do.

In `lifecycle` the fault is a signal, a crash, a task, a renewal or a reconciliation that fails, an answer that
is lost or late, or a missed deadline. A second signal, a release that fails and the loss of an answer that was late are no
further fault, because the process is ending already, or has had its fault. A lease of 2 ticks, given up 1 tick after
an answer that may take 2, compares as the flags do: an answer in time leaves the leader its lease, a late one does not. Two
processes do lead at once here, and do reconcile at once (TLC reports both when asked for the contrary). Two workers are enough for one
to return while the other holds the key and the key is added again. One fault makes the lead pass from one process to the other; the proofs, which
leave the number of faults open, cover the safety of more.

What is allowed: `Converges` excepts a Redis whose child was deleted by hand, or by the garbage collector after it
had been taken over, because `OwnerPredicate` drops Delete events and resync is disabled, so nothing notices;
`OneValidLease` and `OneLeaderWorks` allow two leaders while the lease of one is over (`main.go:93`); and `ActiveAreCounted` lets the count be too high,
because nobody tells the tenant that a Redis is gone (`redis.go:84`). None contradicts a comment, and
all are listed as hazards.

`NeverEarly` and `NeverPostponed` speak of instants, in ticks; a tick is any interval of the clock.

### Disagreements of the code with its comments

Each is a run that TLC finds violated, and a finding in `PROJECT.json`.

| Run | What happens |
|---|---|
| `done_inverted` | `Done` puts a key that was retried *too often* in the *fresh* queue (line 223); the comment promises the opposite. |
| `drain_hangs` | `ShutDownWithDrain` sleeps for ever when keys are processed as it is called: `Done` wakes somebody only for a dirty key. |
| `get_forgotten` | The wakeup for a staled key may go to a `GetFresh` caller, which sleeps again; the `Get` caller stays asleep beside the key. |
| `retry_panics` | `newMetrics` leaves `retries` unset, so the first delay asked of a queue with a name ends the process. (`NewPlayboyQueue` gives none.) |
| `requeue_after` | A result with `RequeueAfter` is delayed *and* added at once (`worker.go:99`). |

Four more, seen while modelling and not run: `ShutDown` after `ShutDownWithDrain` is a no-op because of `stopOnce`
(line 236), while the comment says it ends the drain (lines 252-254); the comment on `NewPlayboyType` says a staled worker takes from the
staled queue only, while its `Get` serves the fresh queue first; a drain looks at `processing` only, so it
may return with keys still queued; and with both pools a shutdown may leave a key, although workers are told to exit when
they "have drained the existing items" (lines 233-234): a fresh worker's `Done` puts its key in the staled queue
after the last staled worker has been told, and `GetFresh` does not look there. `ExitLeavesNothing` is therefore checked,
and proved, for instances whose takers all call `Get`.

The lost wakeup limits what holds with both pools. `StaledIsServed` and `KeysHaveTakers` are checked for instances
whose takers all call `Get`, `FreshKeysHaveTakers`, `RunReturns` and `ShutdownEnds` for both, and
`FailedIsRetried` for both with the lost wakeup as an exception it names: a failed key is tried again unless the
controller stops, fresh keys keep coming, senders keep the loop busy, or every staled worker sleeps beside
a staled key.

## 4. Fairness

`FairSpec`, `MFairSpec` and `CFairSpec` assume that

* a goroutine that can run does (weak fairness of each call's next step, of `Get`, `GetFresh`, the loop);
* a sender blocked on the channel is not passed over for ever (strong fairness of `AddAfterSend`): Go serves
  blocked senders in the order they came;
* a `select` with several ready cases does not pass one over for ever (strong fairness of `LoopReceive`): Go
  picks at random;
* the clock advances (`Tick`), and, in `FairSpec`, whoever holds a key calls `Done`, which `worker.go` defers.

Nothing is assumed of producers, closers, the success of reconciliations or the heartbeat. The inner loop of `waitingLoop` may be kept busy for
ever by senders; liveness properties name that case as an exception, and not as an assumption.

`FairSpec` of `Reconcilers` assumes that informers deliver, that delays end, that each key's reconciliation and
Kubernetes' own work go on (weak fairness of each, all of which are goroutines or services of their own). Users, faults
and failing pods are free, and finite by their bounds, as "in the end" demands.

`LFairSpec` assumes that the goroutines of a process run (`MainStep`, `ElectorStep` with `LoseLease`, `StopElector`,
`OnStartedLeading`, `ControllerStep`, `Handle`, `WorkerStep`), that delays end, that time passes (`Pass`), that the
StatefulSet starts the container again, and that calls of the elector that do not fail are answered.
`LostLeadership` needs none: `main` ends without it. Faults, late answers among them, and changes are free and bounded: were every answer
late, the lead could go back and forth for ever.

## 5. Proofs

Checked by TLAPS for every set of keys and goroutines, every threshold, delay and capacity (assumptions:
`ConstantsAssumption`, and `ControllerAssumption` for the controller; `ElectionAssumption` and `LifecycleAssumption` for
the processes).

* `PlayboyQueueProofs`: `TypeCorrect` (`Spec => []TypeOK`) and `QueuesSafe`
  (`Spec => [](QueuesExact /\ ExclusiveHolding)`). Neither of the two is inductive alone: that a key taken from a
  queue is not in processing needs `QueuesExact`, and that `Done` may push a dirty key needs to know that the
  only holder gave it back, which is `ExclusiveHolding`. The invariant is `QueueInv`, the conjunction with
  `TypeOK`; the proof has one step per action, over lemmas on what `Tail`, `Append` and a disjoint push do to
  the set of a sequence without repetitions.
  `QueueImplements` (`Spec => Implements`): every action is an action of `RateLimitedQueue` or a stutter. The
  invariant `RefInv` adds `ReadyIsDue`: an entry of the loop's round is still due in the heap, so that popping it
  moves a delayed key to the loop's hands and does not invent one.
* `PlayboyQueuePromises`, the wakeups, the exits and the delays. Each step is put into one of a few classes
  (`StepClass`: nothing about the queues, a push with its `Signal`, a take, a `Get` that finds nothing, a shutdown,
  a drain), and each class is looked at once.
  * `FreshKeysTaken` (`Spec => []FreshKeysHaveTakers`), for callers of both kinds, and `KeysTaken` for `KeysHaveTakers`.
    The count of callers awake is kept only with `WaitersInv`: the condition's waiters are takers or drainers, none
    twice, and drainers sleep only after a `Broadcast` that has woken every taker; else a `Signal` could be spent on one that
    takes nothing. `KeysTaken` assumes `FreshGetters = {}`: with a `GetFresh` caller it is false (`get_forgotten`).
  * `ExitsClean` (`Spec => []ExitLeavesNothing`) assumes `GetOnly`, that all call `Get` and hold one key at a time. `ExitInv`
    adds that who has been told of the shutdown holds nothing and that the shutdown has been called, so that the last to go,
    whose `Get` found the queues empty, had nobody's key left to come back. `queue_get_only` is an
    instance of both assumptions.
  * `DelaysNotPostponed` (`Spec => NeverPostponed`) and `DelaysNotCut` (`Spec => NeverEarly`): the instants of a key
    are followed through the blocked call, the channel, the loop's hands and the heap; the second rests on `ReadyIsDue`.
* `PlayboyControllerProofs`: `ControllerUsesQueue` (`CSpec => ImplementsQueue`, so that everything proved of the
  queue carries over), from it `ControllerSafe`, `ControllerImplements`, `ControllerWakes` and `ControllerDelays`;
  `ControllerTypes`; and `CountsAgree`
  (`CSpec => []RetryCountsAgree`), whose invariant adds that a worker inside `AddRateLimited` holds the key it
  counts: then at most one worker is between the two counters of a key.
* `DelayHeapProofs`: `HeapTogether` (`Spec => []EntriesAgree`) and `HeapIsDelayedKeys` (`Spec => KeepsOrder`), for
  any number of entries, from `TimesAssumption`. The invariant `HeapInv` is the heap's shape (`Heaps`, `Placed`), the heap order
  at every place (`Ordered`), and that the map has the heap's keys. Within `up` and `down` the order is broken at one
  place: `MayClimb` and `MaySink` say where and how, and are the loop invariants; `ClimbStep` and `SinkStep`
  keep them over a turn, `UpOrders` and `DownOrders` conclude that the order is restored when the loop ends. The
  induction over turns uses no theorem with an operator parameter: a set of numbers that has 0 and the
  successors of its members has every number (`SetInduction`, from the well-foundedness of `<`), and the turns
  for which a loop invariant holds are such a set. That the recursive functions exist is shown the same way.
* `QueueMetricsProofs`: `MeteredIsQueue` (`MSpec => Spec`, so that the queue's theorems hold with metrics, too) and
  `MetricsSafe` (`MSpec => []MetricsAgree`). With a queue of the right shape (`QueueInv`) the agreement is
  inductive: `depth` counts because the queue never adds a dirty key again or takes one that is not dirty.
* `LeaderElectionProofs`: `ElectionInvariant` and `OneLease` (`ESpec => []OneValidLease`), without any assumption on how
  the durations compare. That two leaders do not both have a valid lease says nothing about who may write the lock next. The
  invariant `EInv` says of a leader's lease that it is no younger than the lock, if the lock names the leader, and over
  if it does not (`LeadersHold`), and the same of a call that is not answered yet (`AskersHold`), since its
  answer may make it a lease. Of two leaders the lock names one at most. `OneLeader` adds that the lease is never over, and there
  is one leader, when `GiveUpAfter + AnswerDelay < LeaseDuration`, which the default flags do not give.
* `LifecycleProofs`: `LifecycleIsElection` (`LSpec => ESpec`) and from it `LifecycleOneLease`; `LifecycleInvariant`, and
  from it `LifecycleTypes`, `OnlyLeadersWork` (`OneLeaderWorks`), `RunDrains` (`RunLeavesNothing`) and
  `EveryoneIsPrepared` (`NothingIsMissed`). The invariant `LInv` adds two things to the properties. `InOrder`: how far the
  elector, the callback and the controllers of a process have come tells how far the others have; a worker
  then works only in a process that has led, which leads still or is on its way out, and `EInv` speaks of those that
  still lead. `Staffed`: no controller has more keys in progress than workers that have not returned, counted as cardinalities;
  so the last worker to return holds the only key there could be, which is none, and a key that was held and added again
  cannot be left behind by it (`WorkerReturnsStep`).
* `ReconcilersProofs`, from `ReconcilersAssumption` and `AbsentAssumption` (that no object is no object). Two readings of a step carry the
  proofs: `DataStep`, what it does to server, streams and caches (an event delivered, a broken watch listed
  again, a restart, one write), and `WorkStep`, what it does to the reconciliations under way.
  * `ReconcilersTypes` (`Spec => []RTypeOK`) and `StatusOfTheCurrent`. The types are not inductive: that a status is
    written to an object, and not to one that is gone, needs `Current` (a copy that is not stale is what the server
    has), and that in turn needs `InOrder` (the last event of a key in a stream, or the cache when there is
    none, is what the server has).
  * `OwnersRise` (`Spec => OwnersNeverGoBack`). A patch takes the owner from a cached Redis and a cached child, so an old copy
    of either could give a child back to a Redis that is gone. `Succession` says that it does not: uids rise, and
    what a cache, a stream behind it, a reconciliation under way or a child has seen of a key is never later than what the API
    server has, and rises from the cache along the stream (`NoLater`, `Rising`). Where the cached owner is the current one,
    the patch leaves the owner alone, and where it is not, the owner the API server has is no later than that of the Redis.
  * `TenantHeld` (`Spec => FinalizerHolds`). A Redis that was listed may be missing from what the
    finalizer's removal is decided by only if the cache can go back. `FinalizerInv` says that it cannot: uids
    are given in order and are not used again (`Numbered`), one uid has one name wherever it is seen (`OneName`), once a
    cache has shown the Redis that the server has, everything still in its stream is of that life (`Settled`), so what
    was listed stays in the cache while it exists (`ListedCached`); then an update that removes the finalizer, decided
    on an empty list, comes when none of those listed exist (`Free`).

The invariants were checked by TLC on the runs' instances, or on smaller ones, before they were proved.

Only model-checked: liveness, which is out of the prover's reach (`FreshIsServed`, `StaledIsServed`, `RunReturns`, `DelayedIsAdded`,
`ShutdownEnds`, `FailedIsRetried`, `Converges`, `ComesToRest`, `ActiveAreCounted`, `TenantGoes`, `EveryChangeIsReconciled`,
`CancelledExits`), and that the disagreements of section 3 occur.

## 6. Not modelled

* The branch of `NewPlayboyQueue` that returns client-go's queue (`freshThreshold < 1`), which nothing asks for.
* `EnqueueObject` of both controllers: its key is no string and the worker's type assertion would panic. Nothing
  calls it.
* The options' validation and the resync period (`basictype.go:71`, `playboytype.go:107`): resync is disabled.
* Children that another kind of object, or one of another name, controls: nothing in the repository creates one.
* `GenerationPredicate`, `AnnotationPredicate`, `NewDirect` and `RequestShutdown`, which nothing uses.
* The health check and the telemetry server, of which only the failure to listen is modelled. A liveness probe
  that fails because the caches are not synced restarts the container, which is a `Crash`.
* The providers of metrics, which register collectors and keep nothing themselves.
* Generated clients, deep copies, scheme registration and flag parsing, which keep no state a property could be
  about. `main.go` uses none of the generated clients.

## 7. Plan

In order of importance; all but the last row are done.

| Step | Module | Abstract specification | Runs | Theorems |
|---|---|---|---|---|
| done | `PlayboyQueue`, `RateLimitedQueue` | `RateLimitedQueue` | above | types, queues, refinement, wakeups, exits, delays |
| done | `PlayboyController` | `PlayboyQueue!Spec` | above | types, use of the queue, equal counts |
| done | `DelayHeap`, `DelayedKeys` | `DelayedKeys` | above | heap and map agree, refinement |
| done | `Reconcilers` | the desired state, in `Converges` | above | types, owners that rise, finalizer |
| done | `QueueMetrics` | `PlayboyQueue!Spec` | above | it is a queue, metrics agree |
| done | `LeaderElection` | - | in `lifecycle` | one valid lease |
| done | `Lifecycle`, with the basic controller | `LeaderElection!ESpec` | above | all its safety properties |
| then | proofs | - | - | the queues of `Reconcilers` implement `RateLimitedQueue` |
