------------------------------- MODULE Lifecycle -------------------------------
(***************************************************************************)
(* The processes of main.go, from start to exit: signals, the informers,   *)
(* the election, the controllers that OnStartedLeading starts, and the end *)
(* of main, which waits for the elector and for nothing else.              *)
(*                                                                         *)
(* A controller is a basicType: its queue is there from the start of the   *)
(* process and takes events whether or not the process leads.  A key is an *)
(* object of one controller; it is outdated from a change in the cluster   *)
(* until a reconciliation that has seen the change succeeds.               *)
(*                                                                         *)
(* An operator whose name starts with Bug is a plausible mistake in the    *)
(* definition that follows it; no specification uses it.                   *)
(***************************************************************************)
EXTENDS LeaderElection, FiniteSets

CONSTANTS
  Controllers,
  Objects,      \* of the kind that a controller looks after
  Concurrency,  \* workers of a controller
  MaxFaults,    \* bound: signals, crashes, late answers, and failed tasks,
                \* renewals and reconciliations
  MaxChanges    \* bound: changes in the cluster

ASSUME LifecycleAssumption ==
  MaxFaults \in Nat /\ MaxChanges \in Nat /\ Concurrency \in Nat \ {0}

VARIABLES
  proc,      \* the processes
  outdated,  \* keys changed in the cluster and not reconciled since
  faults, changes

lifeVars == <<proc, outdated, faults, changes, electionVars>>

Keys == Controllers \X Objects

\* The controller that a key belongs to.
Of(k) == k[1]

Stages == {"off", "syncing", "running", "stopping", "returned", "unsynced"}
Staff == 0 .. Concurrency

Process ==
  [main: {"down", "syncing", "running"},
   cancelled: BOOLEAN,                    \* runCtx is done
   signalled: BOOLEAN,                    \* the first signal has come
   callback: {"none", "due", "done"},     \* OnStartedLeading, a goroutine
   stage: [Controllers -> Stages],        \* basicType.Run and its queue
   workers: [Controllers -> Staff],       \* that have not returned
   events: SUBSET Keys,                   \* not handed to the handler yet
   pending: SUBSET Keys,                  \* added to their queue
   processing: SUBSET Keys,               \* a worker reconciles them
   current: SUBSET Keys,                  \* ... and has seen their last change
   delayed: SUBSET Keys]                  \* wait for AddAfter to add them

Down ==
  [main |-> "down", cancelled |-> FALSE, signalled |-> FALSE, callback |-> "none",
   stage |-> [c \in Controllers |-> "off"],
   workers |-> [c \in Controllers |-> 0], events |-> {}, pending |-> {},
   processing |-> {}, current |-> {}, delayed |-> {}]

LInit ==
  /\ EInit
  /\ proc = [p \in Processes |-> Down]
  /\ outdated = {} /\ faults = 0 /\ changes = 0

Fault == faults < MaxFaults /\ faults' = faults + 1
NoFault == UNCHANGED faults
Cluster == <<outdated, changes>>

-----------------------------------------------------------------------------
\* The StatefulSet starts the container.  Informers list every object.
Start(p) ==
  /\ proc[p].main = "down"
  /\ proc' = [proc EXCEPT ![p].main = "syncing", ![p].events = Keys]
  /\ NoFault /\ UNCHANGED <<Cluster, electionVars>>

\* The caches are synced: elector.Run.
Sync(p) ==
  /\ proc[p].main = "syncing"
  /\ Join(p)
  /\ proc' = [proc EXCEPT ![p].main = "running"]
  /\ NoFault /\ UNCHANGED Cluster

\* The process is gone, with its queues and all that was in progress.
Gone(p) ==
  /\ Leave(p)
  /\ proc' = [proc EXCEPT ![p] = Down]
  /\ UNCHANGED Cluster

\* WaitForCacheSync has returned false: os.Exit(1).
FailToSync(p) ==
  /\ proc[p].main = "syncing" /\ proc[p].cancelled
  /\ Gone(p) /\ NoFault

\* The elector has returned, so main returns: it does not call runErrGroup.Wait.
Exit(p) ==
  /\ elector[p] = "left"
  /\ Gone(p) /\ NoFault

Crash(p) ==
  /\ proc[p].main # "down"
  /\ Gone(p) /\ Fault

-----------------------------------------------------------------------------
\* The first signal cancels the context.
Signal(p) ==
  /\ proc[p].main # "down" /\ ~proc[p].signalled
  /\ Fault
  /\ proc' = [proc EXCEPT ![p].signalled = TRUE, ![p].cancelled = TRUE]
  /\ UNCHANGED <<Cluster, electionVars>>

\* The second is os.Exit(1); it is no further fault.
SecondSignal(p) == proc[p].signalled /\ Gone(p) /\ NoFault

\* informers.Start or ListenAndServe returns an error: the group is cancelled.
TaskFails(p) ==
  /\ proc[p].main # "down" /\ ~proc[p].cancelled
  /\ Fault
  /\ proc' = [proc EXCEPT ![p].cancelled = TRUE]
  /\ UNCHANGED <<Cluster, electionVars>>

\* The task that waits for lostLeaderSignal returns its error.
LostLeadership(p) ==
  /\ proc[p].callback = "done" /\ elector[p] = "left" /\ ~proc[p].cancelled
  /\ proc' = [proc EXCEPT ![p].cancelled = TRUE]
  /\ NoFault /\ UNCHANGED <<Cluster, electionVars>>

-----------------------------------------------------------------------------
\* The first answer makes the process leader: go OnStartedLeading.
Lead(p) ==
  /\ Answered(p)
  /\ proc' = IF elector[p] = "electing" THEN [proc EXCEPT ![p].callback = "due"] ELSE proc
  /\ NoFault /\ UNCHANGED Cluster

Renew(p) == Update(p) /\ NoFault /\ UNCHANGED <<proc, Cluster>>

\* An answer so late that the lease may run out before its leader gives up.
Late(p) == asked[p] # NotAsked /\ asked[p] + GiveUpAfter >= LeaseDuration

\* That it is late was the fault, if it was.
LoseAnswer(p) ==
  /\ Unanswered(p)
  /\ IF Late(p) THEN NoFault ELSE Fault
  /\ UNCHANGED <<proc, Cluster>>

MissDeadline(p) == GiveUp(p) /\ Fault /\ UNCHANGED <<proc, Cluster>>

\* Another process holds the lock, so every renewal is refused.
LoseLease(p) ==
  /\ holder # Identity(p) /\ GiveUp(p)
  /\ NoFault /\ UNCHANGED <<proc, Cluster>>

\* elector.Run was given runCtx.
StopElector(p) ==
  /\ proc[p].cancelled /\ CancelElector(p)
  /\ NoFault /\ UNCHANGED <<proc, Cluster>>

\* A release that fails is no further fault: the process is ending.
ReleaseLock(p) == Release(p) /\ NoFault /\ UNCHANGED <<proc, Cluster>>

-----------------------------------------------------------------------------
BugOnStartedLeading(p) ==   \* started when main is, not when it leads
  /\ proc[p].main = "running" /\ proc[p].callback # "done"
  /\ proc' = [proc EXCEPT ![p].callback = "done", ![p].stage = [c \in Controllers |-> "syncing"]]
  /\ NoFault /\ UNCHANGED <<Cluster, electionVars>>

\* It runs when it is scheduled: the process may lead no more, or be cancelled.
OnStartedLeading(p) ==
  /\ proc[p].callback = "due"
  /\ proc' = [proc EXCEPT ![p].callback = "done", ![p].stage = [c \in Controllers |-> "syncing"]]
  /\ NoFault /\ UNCHANGED <<Cluster, electionVars>>

StageStep(p, c, from, to) ==
  /\ proc[p].stage[c] = from
  /\ proc' = [proc EXCEPT ![p].stage[c] = to]
  /\ NoFault /\ UNCHANGED <<Cluster, electionVars>>

\* The caches are synced: worker.Run starts the workers.
StartWorkers(p, c) ==
  /\ proc[p].stage[c] = "syncing"
  /\ proc' = [proc EXCEPT ![p].stage[c] = "running", ![p].workers[c] = Concurrency]
  /\ NoFault /\ UNCHANGED <<Cluster, electionVars>>

\* WaitForCacheSync finds the caches synced; cancelled, it may not look at them.
CachesSynced(p, c) ==
  \/ StartWorkers(p, c)
  \/ proc[p].cancelled /\ StageStep(p, c, "syncing", "unsynced")

\* The goroutine of Run: <-ctx.Done(), then queue.ShutDown.
ShutDownQueue(p, c) == proc[p].cancelled /\ StageStep(p, c, "running", "stopping")

\* The keys that the workers of a controller hold, one each.
Held(p, c) == {k \in proc[p].processing : Of(k) = c}

HasFreeWorker(p, c) == Cardinality(Held(p, c)) < proc[p].workers[c]

BugWorkerReturns(p, c) ==   \* it looks at ShuttingDown, and not at the queue
  /\ proc[p].stage[c] = "stopping" /\ HasFreeWorker(p, c)
  /\ proc' = [proc EXCEPT ![p].workers[c] = @ - 1]
  /\ NoFault /\ UNCHANGED <<Cluster, electionVars>>

\* A worker's Get finds the queue empty and shut down; others may hold keys, and
\* a key that is held and was added again is not in the queue.
WorkerReturns(p, c) ==
  /\ proc[p].stage[c] = "stopping" /\ HasFreeWorker(p, c)
  /\ \A k \in proc[p].pending \ proc[p].processing : Of(k) # c
  /\ proc' = [proc EXCEPT ![p].workers[c] = @ - 1]
  /\ NoFault /\ UNCHANGED <<Cluster, electionVars>>

\* wg.Wait is over: worker.Run returns, and so does Run.
RunReturns(p, c) == proc[p].workers[c] = 0 /\ StageStep(p, c, "stopping", "returned")

Stage(p, k) == proc[p].stage[Of(k)]

\* Whether the queue of a key drops what is added to it.
IsShut(p, k) == Stage(p, k) \in {"stopping", "returned"}

-----------------------------------------------------------------------------
BugHandle(p, k) ==   \* the handler ignores events while the controller is off
  /\ k \in proc[p].events
  /\ proc' = [proc EXCEPT ![p].events = @ \ {k},
                          ![p].pending = IF Stage(p, k) # "running" THEN @ ELSE @ \cup {k}]
  /\ NoFault /\ UNCHANGED <<Cluster, electionVars>>

\* The event handler adds the key, from the start of the process.
Handle(p, k) ==
  /\ k \in proc[p].events
  /\ proc' = [proc EXCEPT ![p].events = @ \ {k},
                          ![p].pending = IF IsShut(p, k) THEN @ ELSE @ \cup {k}]
  /\ NoFault /\ UNCHANGED <<Cluster, electionVars>>

BugBegin(p, k) ==   \* the key is not marked as being processed
  /\ HasFreeWorker(p, Of(k)) /\ k \in proc[p].pending
  /\ proc' = [proc EXCEPT ![p].pending = @ \ {k}, ![p].current = @ \cup {k}]
  /\ NoFault /\ UNCHANGED <<Cluster, electionVars>>

\* A free worker takes the key and reads the cache, which may be ahead of the
\* handler but is not ahead of the cluster.
Begin(p, k) ==
  /\ HasFreeWorker(p, Of(k))
  /\ k \in proc[p].pending \ proc[p].processing
  /\ \E seen \in BOOLEAN :
        /\ k \notin proc[p].events => seen
        /\ proc' = [proc EXCEPT ![p].pending = @ \ {k}, ![p].processing = @ \cup {k},
                                ![p].current = IF seen THEN @ \cup {k} ELSE @]
  /\ NoFault /\ UNCHANGED <<Cluster, electionVars>>

\* The reconciliation succeeds: Forget and Done.
Succeed(p, k) ==
  /\ k \in proc[p].processing
  /\ proc' = [proc EXCEPT ![p].processing = @ \ {k}, ![p].current = @ \ {k}]
  /\ outdated' = IF k \in proc[p].current THEN outdated \ {k} ELSE outdated
  /\ NoFault /\ UNCHANGED <<changes, electionVars>>

BugFail(p, k) ==   \* the error is logged and nothing more
  /\ k \in proc[p].processing /\ Fault
  /\ proc' = [proc EXCEPT ![p].processing = @ \ {k}, ![p].current = @ \ {k}]
  /\ UNCHANGED <<Cluster, electionVars>>

\* It fails: AddRateLimited, which a queue that is shut down ignores.
Fail(p, k) ==
  /\ k \in proc[p].processing /\ Fault
  /\ proc' = [proc EXCEPT ![p].processing = @ \ {k}, ![p].current = @ \ {k},
                          ![p].delayed = IF IsShut(p, k) THEN @ ELSE @ \cup {k}]
  /\ UNCHANGED <<Cluster, electionVars>>

\* The delay is over.
AddDelayed(p, k) ==
  /\ k \in proc[p].delayed /\ ~IsShut(p, k)
  /\ proc' = [proc EXCEPT ![p].delayed = @ \ {k}, ![p].pending = @ \cup {k}]
  /\ NoFault /\ UNCHANGED <<Cluster, electionVars>>

\* The object of a key changes in the cluster.
Change(k) ==
  /\ changes < MaxChanges /\ changes' = changes + 1
  /\ outdated' = outdated \cup {k}
  /\ proc' = [p \in Processes |->
                IF proc[p].main = "down" THEN proc[p]
                ELSE [proc[p] EXCEPT !.events = @ \cup {k}, !.current = @ \ {k}]]
  /\ NoFault /\ UNCHANGED electionVars

-----------------------------------------------------------------------------
\* The main goroutine, but for the calls of the election and its context.
MainStep(p) == Start(p) \/ Sync(p) \/ FailToSync(p) \/ ReleaseLock(p) \/ Exit(p)

ElectorStep(p) == Renew(p) \/ Lead(p) \/ LoseLease(p)

ControllerStep(p, c) ==
  CachesSynced(p, c) \/ ShutDownQueue(p, c) \/ WorkerReturns(p, c) \/ RunReturns(p, c)

WorkerStep(p, k) == Begin(p, k) \/ Succeed(p, k)

FaultStep(p) ==
  \/ Crash(p) \/ Signal(p) \/ SecondSignal(p) \/ TaskFails(p)
  \/ LoseAnswer(p) \/ MissDeadline(p)

Pass ==
  /\ Tick
  /\ IF \E p \in Processes : Late(p)' /\ ~Late(p) THEN Fault ELSE NoFault
  /\ UNCHANGED <<proc, Cluster>>

LNext ==
  \/ \E p \in Processes :
        \/ MainStep(p) \/ ElectorStep(p) \/ StopElector(p) \/ FaultStep(p)
        \/ OnStartedLeading(p) \/ LostLeadership(p)
        \/ \E c \in Controllers : ControllerStep(p, c)
        \/ \E k \in Keys : Handle(p, k) \/ WorkerStep(p, k) \/ Fail(p, k) \/ AddDelayed(p, k)
  \/ \E k \in Keys : Change(k)
  \/ Pass

LSpec == LInit /\ [][LNext]_lifeVars

\* Goroutines run, the API server answers, the StatefulSet restarts containers
\* and time passes.  Nothing is assumed of faults, only that they are bounded.
LFairness ==
  /\ \A p \in Processes :
        /\ WF_lifeVars(MainStep(p)) /\ WF_lifeVars(ElectorStep(p)) /\ WF_lifeVars(StopElector(p))
        /\ WF_lifeVars(OnStartedLeading(p))
        /\ \A c \in Controllers : WF_lifeVars(ControllerStep(p, c))
        /\ \A k \in Keys : /\ WF_lifeVars(Handle(p, k)) /\ WF_lifeVars(WorkerStep(p, k))
                           /\ WF_lifeVars(AddDelayed(p, k))
  /\ WF_lifeVars(Pass)

LFairSpec == LSpec /\ LFairness

-----------------------------------------------------------------------------
\* The processes have the fields of a process, and what a worker has seen is
\* what a worker reconciles.
LTypeOK ==
  /\ proc \in [Processes -> Process]
  /\ \A p \in Processes : proc[p].current \subseteq proc[p].processing
  /\ outdated \subseteq Keys
  /\ faults \in 0 .. MaxFaults /\ changes \in 0 .. MaxChanges

\* Two processes reconcile at the same time only while one of them has lost
\* the leadership or given it up, and has not exited yet, or does not know yet
\* that its lease has run out (main.go:93, 186-208).
OneLeaderWorks ==
  \A p, q \in Processes :
     proc[p].processing # {} /\ proc[q].processing # {} /\ p # q =>
        \E r \in {p, q} : elector[r] \in {"releasing", "left"} \/ Overdue(r)

\* Although the workers return one by one, and some while others hold keys that
\* come back to the queue, no key is left when the last one has returned
\* (worker.go:57-81), and none is added later.
RunLeavesNothing ==
  \A p \in Processes : \A k \in proc[p].pending \cup proc[p].processing :
     Stage(p, k) \in {"stopping", "returned"} => proc[p].workers[Of(k)] > 0

\* A process that is in the election has not missed a change that nobody has
\* reconciled, leader or not: the event is on its way, or the key is in the
\* queue or in a reconciliation that has seen the change.  Whoever leads next
\* is prepared (main.go:266-267).
NothingIsMissed ==
  \A p \in Processes : \A k \in outdated :
     proc[p].main # "down" /\ ~proc[p].cancelled =>
        k \in proc[p].events \cup proc[p].pending \cup proc[p].delayed \cup proc[p].current

\* A change is reconciled in the end, whichever process leads, whatever was cut
\* off when another one ended (main.go:274).
EveryChangeIsReconciled == \A k \in Keys : k \in outdated ~> k \notin outdated

\* A process whose context is cancelled ends (main.go:274, signal.go:32-37).
CancelledExits == \A p \in Processes : proc[p].cancelled ~> proc[p].main = "down"
=================================================================================
