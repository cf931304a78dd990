--------------------------- MODULE PlayboyController ---------------------------
(***************************************************************************)
(* The controller of pkg/utils/controller/playboytype.go: two pools of     *)
(* workers (worker.go) on one PlayboyQueue.  A staled worker takes keys    *)
(* with Get.  A fresh worker runs on FreshOnlyInterface, whose Get is      *)
(* GetFresh.  Event handlers and Enqueue add keys, and Run shuts the queue *)
(* down when its context is cancelled.                                     *)
(*                                                                         *)
(* Every action below is one or no action of the queue, plus the worker's  *)
(* or Run's own progress.  What a reconciliation does is left open: it     *)
(* ends in an error or in one of the results.                              *)
(***************************************************************************)
EXTENDS PlayboyQueue

CONSTANTS
  Results            \* results a successful reconciliation may return

StaledWorkers == Getters
FreshWorkers  == FreshGetters
Workers       == StaledWorkers \cup FreshWorkers
Handlers      == Adders \ Workers     \* event handlers, callers of Enqueue

ASSUME ControllerAssumption ==
  /\ Workers \subseteq Adders
  /\ StaledWorkers \cap FreshWorkers = {}
  /\ Closers \cap Adders = {}
  /\ Results \subseteq {"nothing", "Requeue", "RequeueAfter"}
  /\ MaxHeld = 1

VARIABLES
  stage,             \* per worker: place in processItemFromQueue
  running            \* place in Run

cvars == <<vars, stage, running>>

Stages == {"get", "reconcile", "requeueAfter", "requeue", "done"}

CInit ==
  /\ Init
  /\ stage = [w \in Workers |-> "get"]
  /\ running = "syncing"

-----------------------------------------------------------------------------
(***************************************************************************)
(* processItemFromQueue                                                    *)
(***************************************************************************)
Started == running \in {"running", "stopping"}

GoTo(w, place) == stage' = [stage EXCEPT ![w] = place]

BugQueueGet(w) == Get(w)   \* the fresh workers are given the whole queue

\* FreshOnlyInterface replaces Get by GetFresh.
QueueGet(w) == IF w \in StaledWorkers THEN Get(w) ELSE GetFresh(w)

WorkerGet(w) ==
  /\ Started
  /\ stage[w] = "get"
  /\ QueueGet(w)
  /\ GoTo(w, IF held'[w] = {} THEN "get" ELSE "reconcile")
  /\ UNCHANGED running

\* The reconciliation, or its timeout, returned an error.
ReconcileFails(w) ==
  /\ stage[w] = "reconcile"
  /\ \E i \in held[w] : AddRateLimited(w, i)
  /\ GoTo(w, "done")
  /\ UNCHANGED running

AfterResult(result) ==
  CASE result = "nothing"      -> "done"
    [] result = "Requeue"      -> "requeue"
    [] result = "RequeueAfter" -> "requeueAfter"

ReconcileSucceeds(w) ==
  /\ stage[w] = "reconcile"
  /\ \E i \in held[w] : Forget(w, i)
  /\ \E result \in Results : GoTo(w, AfterResult(result))
  /\ UNCHANGED running

WorkerAddAfter(w) ==
  /\ stage[w] = "requeueAfter"
  /\ \E i \in held[w], d \in AddAfterDelays \ {0} : AddAfter(w, i, d)
  /\ GoTo(w, "requeue")
  /\ UNCHANGED running

\* Both results end in Add, which waits for the AddAfter before it.
WorkerAdd(w) ==
  /\ stage[w] = "requeue"
  /\ \E i \in held[w] : Add(w, i)
  /\ GoTo(w, "done")
  /\ UNCHANGED running

\* The deferred Done, after whatever call the worker made last has returned.
WorkerDone(w) ==
  /\ stage[w] = "done"
  /\ \E i \in held[w] : Done(w, i)
  /\ GoTo(w, "get")
  /\ UNCHANGED running

WorkerStep(w) ==
  \/ WorkerGet(w)
  \/ ReconcileFails(w)
  \/ ReconcileSucceeds(w)
  \/ WorkerAddAfter(w)
  \/ WorkerAdd(w)
  \/ WorkerDone(w)
  \/ CallStep(w) /\ UNCHANGED <<stage, running>>

-----------------------------------------------------------------------------
(***************************************************************************)
(* Run, and what runs beside it.                                           *)
(***************************************************************************)
CacheSynced ==
  /\ running = "syncing"
  /\ running' = "running"
  /\ UNCHANGED <<vars, stage>>

\* Cancelled before the informers have synced: Run returns at once.
CannotSync ==
  /\ running = "syncing"
  /\ running' = "stopped"
  /\ UNCHANGED <<vars, stage>>

BugCancelled ==   \* the queue is not shut down
  /\ running = "running"
  /\ running' = "stopping"
  /\ UNCHANGED <<vars, stage>>

Cancelled ==
  /\ running = "running"
  /\ \E c \in Closers : ShutDown(c)
  /\ running' = "stopping"
  /\ UNCHANGED stage

\* wg.Wait: a pool is done when each of its workers got shutdown = true.
Stopped ==
  /\ running = "stopping"
  /\ \A w \in Workers : pc[w] = "returned"
  /\ running' = "stopped"
  /\ UNCHANGED <<vars, stage>>

Enqueue(h, i) ==
  /\ Add(h, i)
  /\ UNCHANGED <<stage, running>>

QueueStep ==
  /\ LoopStep \/ LoopHeartbeat \/ Tick
  /\ UNCHANGED <<stage, running>>

CNext ==
  \/ \E w \in Workers : WorkerStep(w)
  \/ \E h \in Handlers, i \in Items : Enqueue(h, i)
  \/ CacheSynced \/ CannotSync \/ Cancelled \/ Stopped
  \/ QueueStep

CSpec == CInit /\ [][CNext]_cvars

\* The scheduler's fairness of PlayboyQueue.  A reconciliation ends, because
\* the worker gives it a timeout; it need not succeed.
CFairness ==
  /\ \A w \in Workers :
        /\ WF_cvars(WorkerStep(w))
        /\ SF_cvars(AddAfterSend(w) /\ UNCHANGED <<stage, running>>)
  /\ WF_cvars(LoopStep /\ UNCHANGED <<stage, running>>)
  /\ SF_cvars(LoopReceive /\ UNCHANGED <<stage, running>>)
  /\ WF_cvars(Tick /\ UNCHANGED <<stage, running>>)
  /\ WF_cvars(Stopped)

CFairSpec == CSpec /\ CFairness

-----------------------------------------------------------------------------
(***************************************************************************)
(* Safety.                                                                 *)
(***************************************************************************)
\* Workers keep their type, and so does the queue in their hands.
CTypeOK ==
  /\ TypeOK
  /\ stage \in [Workers -> Stages]
  /\ running \in {"syncing", "running", "stopping", "stopped"}

\* Whatever the workers, the handlers and Run do to the queue is something the
\* queue's specification allows its callers, so what is proved of the queue
\* holds in the controller.
ImplementsQueue == Spec

\* Retries are counted twice, by the queue under failuresLock and by the rate
\* limiter under its own lock, and the queue decides by both.  The workers
\* keep the counts equal but for a call between the two: only the holder of a
\* key counts or forgets its retries.
RetryCountsAgree ==
  \A i \in Items :
     failures[i] = requeues[i]
                   + Cardinality({w \in Workers : pc[w] = "when" /\ call[w].item = i})

-----------------------------------------------------------------------------
(***************************************************************************)
(* Liveness, under CFairSpec.                                              *)
(***************************************************************************)
\* Once the context is cancelled Run returns: no worker stays asleep, blocked
\* on the channel, or busy for ever with keys that come back.
RunReturns == (running = "stopping") ~> (running = "stopped")

Reconciling(i) == \E w \in Workers : stage[w] = "reconcile" /\ i \in held[w]

\* A key whose reconciliation failed is reconciled again, unless the
\* controller stops, other fresh keys keep coming, senders keep the queue's loop busy
\* for ever, or every staled worker sleeps beside a staled key whose wakeup a
\* fresh worker has swallowed (GetIsNotForgotten): in no other way is it lost.
FailedIsRetried ==
  \A i \in Items :
     (failures[i] > 0) ~> \/ Reconciling(i)
                          \/ shuttingDown
                          \/ []<>(ToSet(queueFresh) \ {i} # {})
                          \/ [](loop.pc \in {"drain", "recvAdd"})
                          \/ [](queueStaled # <<>> /\ \A s \in StaledWorkers : Asleep(s))

-----------------------------------------------------------------------------
(***************************************************************************)
(* What comments say and the code does not do.                             *)
(***************************************************************************)
\* "tells the Controller to requeue the reconcile key after the Duration": a
\* worker whose result asked for a delay does not make the key dirty itself
\* while the delay runs.
RequeueAfterWaits ==
  [][\A w \in Workers : \A i \in held[w] :
        (stage[w] = "requeue" /\ stage'[w] = "done" /\ i \in dirty' \ dirty)
           => \A d \in Deadlines(i) : d = 0]_cvars
================================================================================
