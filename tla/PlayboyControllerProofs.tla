------------------------ MODULE PlayboyControllerProofs ------------------------
(***************************************************************************)
(* What holds of PlayboyController for every number of workers, handlers   *)
(* and keys.  The controller uses its queue only as the queue allows, so   *)
(* the theorems about the queue are theorems about the controller.         *)
(***************************************************************************)
EXTENDS PlayboyController, PlayboyQueuePromises

-----------------------------------------------------------------------------
(***************************************************************************)
(* Every step of the controller is a step of the queue, or none of it.     *)
(***************************************************************************)
LEMMA WorkersAreCallers ==
  /\ Workers \subseteq Adders
  /\ Workers = Getters \cup FreshGetters
  /\ Workers \subseteq Procs
  /\ StaledWorkers = Getters
BY ControllerAssumption DEF Workers, StaledWorkers, FreshWorkers, Procs

LEMMA WorkerStepIsQueueStep ==
  ASSUME TypeOK, NEW w \in Workers, WorkerStep(w)
  PROVE  Next
<1>1. held[w] \subseteq Items
  BY WorkersAreCallers DEF TypeOK, ProcTypeOK
<1>2. CASE WorkerGet(w)
  <2>1. CASE w \in StaledWorkers
    BY WorkersAreCallers, <1>2, <2>1 DEF WorkerGet, QueueGet, Next
  <2>2. CASE w \notin StaledWorkers
    BY WorkersAreCallers, <1>2, <2>2 DEF WorkerGet, QueueGet, Next
  <2> QED  BY <2>1, <2>2
<1>3. CASE ReconcileFails(w)
  BY WorkersAreCallers, <1>1, <1>3 DEF ReconcileFails, Next
<1>4. CASE ReconcileSucceeds(w)
  BY WorkersAreCallers, <1>1, <1>4 DEF ReconcileSucceeds, Next
<1>5. CASE WorkerAddAfter(w)
  BY WorkersAreCallers, <1>1, <1>5 DEF WorkerAddAfter, Next
<1>6. CASE WorkerAdd(w)
  BY WorkersAreCallers, <1>1, <1>6 DEF WorkerAdd, Next
<1>7. CASE WorkerDone(w)
  BY WorkersAreCallers, <1>1, <1>7 DEF WorkerDone, Next
<1>8. CASE CallStep(w)
  BY WorkersAreCallers, <1>8 DEF Next
<1> QED  BY <1>2, <1>3, <1>4, <1>5, <1>6, <1>7, <1>8 DEF WorkerStep

LEMMA StepIsQueueStep == TypeOK /\ [CNext]_cvars => [Next]_vars
<1> SUFFICES ASSUME TypeOK, [CNext]_cvars  PROVE [Next]_vars
  OBVIOUS
<1>1. CASE \E w \in Workers : WorkerStep(w)
  BY <1>1, WorkerStepIsQueueStep
<1>2. CASE \E h \in Handlers, i \in Items : Enqueue(h, i)
  BY <1>2 DEF Enqueue, Handlers, Next
<1>3. CASE CacheSynced \/ CannotSync \/ Stopped
  BY <1>3 DEF CacheSynced, CannotSync, Stopped
<1>4. CASE Cancelled
  BY <1>4 DEF Cancelled, Next
<1>5. CASE QueueStep
  BY <1>5 DEF QueueStep, Next
<1>6. CASE UNCHANGED cvars
  BY <1>6 DEF cvars
<1> QED  BY <1>1, <1>2, <1>3, <1>4, <1>5, <1>6 DEF CNext

\* The controller keeps to the queue's specification.
THEOREM ControllerUsesQueue == CSpec => ImplementsQueue
<1>1. CInit => Init /\ TypeOK
  BY InitType DEF CInit
<1>2. TypeOK /\ [CNext]_cvars => TypeOK' /\ [Next]_vars
  BY StepIsQueueStep, TypeStep
<1> QED  BY <1>1, <1>2, PTL DEF CSpec, ImplementsQueue, Spec

\* So no key is reconciled by two workers at once, and the queues hold exactly
\* the dirty keys nobody works on.
THEOREM ControllerSafe == CSpec => [](QueuesExact /\ ExclusiveHolding)
BY ControllerUsesQueue, QueuesSafe, PTL DEF ImplementsQueue

\* The controller's queue implements RateLimitedQueue as it stands.
THEOREM ControllerImplements == CSpec => Implements
BY ControllerUsesQueue, QueueImplements, PTL DEF ImplementsQueue

\* While a worker of either pool sleeps, every fresh key has a worker on its way
\* to it, however many there are of each: a fresh key does not wait for the pool
\* that is not awake.
THEOREM ControllerWakes == CSpec => []FreshKeysHaveTakers
BY ControllerUsesQueue, FreshKeysTaken, PTL DEF ImplementsQueue

\* The delays of rate limited and requeued keys are neither cut nor lengthened,
\* whatever the workers do with the keys meanwhile.
THEOREM ControllerDelays == CSpec => NeverPostponed /\ NeverEarly
BY ControllerUsesQueue, DelaysNotPostponed, DelaysNotCut, PTL DEF ImplementsQueue

\* What the controller adds to the queue keeps its type.
LEMMA ControllerTypeStep ==
  ASSUME CTypeOK, [CNext]_cvars
  PROVE  CTypeOK'
<1>1. TypeOK'
  BY StepIsQueueStep, TypeStep DEF CTypeOK
<1>2. \A w \in Workers, place \in Stages : GoTo(w, place) => stage' \in [Workers -> Stages]
  BY DEF CTypeOK, GoTo
<1>3. ASSUME NEW w \in Workers, WorkerStep(w)
      PROVE  stage' \in [Workers -> Stages] /\ running' = running
  <2>1. \A result \in Results : AfterResult(result) \in Stages
    BY ControllerAssumption DEF AfterResult, Stages
  <2>2. CASE WorkerGet(w)
    BY <1>2, <2>2 DEF WorkerGet, Stages
  <2>3. CASE ReconcileSucceeds(w)
    BY <1>2, <2>1, <2>3 DEF ReconcileSucceeds
  <2>4. CASE ReconcileFails(w) \/ WorkerAddAfter(w) \/ WorkerAdd(w) \/ WorkerDone(w)
    BY <1>2, <2>4 DEF ReconcileFails, WorkerAddAfter, WorkerAdd, WorkerDone, Stages
  <2>5. CASE UNCHANGED <<stage, running>>
    BY <2>5 DEF CTypeOK
  <2> QED  BY <1>3, <2>2, <2>3, <2>4, <2>5 DEF WorkerStep
<1>4. CASE \/ \E h \in Handlers, i \in Items : Enqueue(h, i)
           \/ CacheSynced \/ CannotSync \/ Cancelled \/ Stopped
           \/ QueueStep \/ UNCHANGED cvars
  <2>1. stage' = stage /\ running' \in {running, "running", "stopping", "stopped"}
    BY <1>4 DEF Enqueue, CacheSynced, CannotSync, Cancelled, Stopped, QueueStep, cvars
  <2> QED  BY <1>1, <2>1 DEF CTypeOK
<1>5. CASE \E w \in Workers : WorkerStep(w)
  BY <1>1, <1>3, <1>5 DEF CTypeOK
<1> QED  BY <1>4, <1>5 DEF CNext

\* Types of the workers, of Run and of the queue in their hands.
THEOREM ControllerTypes == CSpec => []CTypeOK
<1>1. CInit => CTypeOK
  BY InitType DEF CInit, CTypeOK, Stages
<1>2. CTypeOK /\ [CNext]_cvars => CTypeOK'
  BY ControllerTypeStep
<1> QED  BY <1>1, <1>2, PTL DEF CSpec

-----------------------------------------------------------------------------
(***************************************************************************)
(* The two counts of retries.  They differ only while a worker is between  *)
(* counting a retry and asking the rate limiter, and for one key there is  *)
(* at most one such worker, because it still holds the key.                *)
(***************************************************************************)
Counting(i) == {w \in Workers : pc[w] = "when" /\ call[w].item = i}

CountersHold == \A w \in Workers : pc[w] = "when" => call[w].item \in held[w]

CountInv == QueueInv /\ CountersHold /\ RetryCountsAgree

\* Nobody else is counting retries of a key that a worker holds.
LEMMA HolderCountsAlone ==
  ASSUME QueueInv, CountersHold, NEW w \in Workers, NEW i \in held[w]
  PROVE  Counting(i) \subseteq {w}
BY WorkersAreCallers DEF QueueInv, ExclusiveHolding, CountersHold, Counting

\* The sizes of the two sets Counting can be.
LEMMA CountingSize ==
  /\ Cardinality({}) = 0
  /\ \A w : Cardinality({w}) = 1
BY FS_EmptySet, FS_Singleton

\* A step that leaves the counts and the counting workers alone.
LEMMA CountsKept ==
  ASSUME CountersHold, RetryCountsAgree, UNCHANGED retryVars,
         \A w \in Workers : (pc'[w] = "when") <=> (pc[w] = "when"),
         \A w \in Workers : pc[w] = "when" => call'[w].item = call[w].item,
         \A w \in Workers : pc[w] = "when" => held[w] \subseteq held'[w]
  PROVE  CountersHold' /\ RetryCountsAgree'
<1>1. CountersHold'
  BY DEF CountersHold
<1>2. \A i : Counting(i)' = Counting(i)
  BY DEF Counting
<1>3. failures' = failures /\ requeues' = requeues
  BY DEF retryVars
<1>4. RetryCountsAgree <=> \A i \in Items : failures[i] = requeues[i] + Cardinality(Counting(i))
  BY DEF RetryCountsAgree, Counting
<1>5. RetryCountsAgree' <=> \A i \in Items : failures'[i] = requeues'[i] + Cardinality(Counting(i)')
  BY DEF RetryCountsAgree, Counting
<1> QED  BY <1>1, <1>2, <1>3, <1>4, <1>5

\* A failed reconciliation: its worker is the only one that counts the key.
LEMMA FailsCounts ==
  ASSUME CountInv, NEW w \in Workers, ReconcileFails(w)
  PROVE  CountersHold' /\ RetryCountsAgree'
<1>1. PICK i \in held[w] : AddRateLimited(w, i)
  BY DEF ReconcileFails
<1>2. /\ pc \in [Procs -> ProcPcs] /\ DOMAIN call = Procs
      /\ \A q \in Procs : call[q] \in [item : Items \cup {NoItem}, fresh : BOOLEAN, delay : Nat]
      /\ failures \in [Items -> Nat] /\ requeues \in [Items -> Nat]
      /\ i \in Items /\ w \in Procs
  BY WorkersAreCallers DEF CountInv, QueueInv, TypeOK, ProcTypeOK, RetryTypeOK
<1>3. /\ pc[w] = "idle" /\ pc' = [pc EXCEPT ![w] = "when"]
      /\ call' = [call EXCEPT ![w].item = i]
      /\ failures' = [failures EXCEPT ![i] = @ + 1]
      /\ requeues' = requeues /\ held' = held
  BY <1>1 DEF AddRateLimited
<1>4. pc'[w] = "when" /\ call'[w].item = i
  BY <1>2, <1>3
<1>5. \A q \in Workers : q # w => pc'[q] = pc[q] /\ call'[q].item = call[q].item
  BY WorkersAreCallers, <1>2, <1>3
<1>6. CountersHold'
  BY <1>1, <1>3, <1>4, <1>5 DEF CountInv, CountersHold
<1>7. Counting(i) = {}
  BY <1>1, <1>3, HolderCountsAlone DEF CountInv, Counting
<1>8. Counting(i)' = {w}
  BY <1>4, <1>5, <1>7 DEF Counting
<1>9. \A k \in Items : k # i => Counting(k)' = Counting(k)
  BY <1>3, <1>4, <1>5 DEF Counting
<1>10. \A k \in Items : failures[k] = requeues[k] + Cardinality(Counting(k))
  BY DEF CountInv, RetryCountsAgree, Counting
<1>11. \A k \in Items : failures'[k] = requeues'[k] + Cardinality(Counting(k)')
  <2>1. failures'[i] = requeues'[i] + Cardinality(Counting(i)')
    <3>1. failures[i] = requeues[i] + 0
      BY <1>2, <1>7, <1>10, CountingSize
    <3>2. Cardinality(Counting(i)') = 1
      BY <1>8, CountingSize
    <3> QED  BY <1>2, <1>3, <3>1, <3>2
  <2>2. ASSUME NEW k \in Items, k # i
        PROVE  failures'[k] = requeues'[k] + Cardinality(Counting(k)')
    BY <1>2, <1>3, <1>9, <1>10, <2>2
  <2> QED  BY <2>1, <2>2
<1> QED  BY <1>6, <1>11 DEF RetryCountsAgree, Counting

\* A successful one forgets both counts, and nobody is counting the key.
LEMMA SucceedsCounts ==
  ASSUME CountInv, NEW w \in Workers, ReconcileSucceeds(w)
  PROVE  CountersHold' /\ RetryCountsAgree'
<1>1. PICK i \in held[w] : Forget(w, i)
  BY DEF ReconcileSucceeds
<1>2. /\ failures \in [Items -> Nat] /\ requeues \in [Items -> Nat]
      /\ i \in Items /\ w \in Procs
  BY WorkersAreCallers DEF CountInv, QueueInv, TypeOK, ProcTypeOK, RetryTypeOK
<1>3. /\ pc[w] = "idle" /\ UNCHANGED <<pc, call, held>>
      /\ failures' = [failures EXCEPT ![i] = 0]
      /\ requeues' = [requeues EXCEPT ![i] = 0]
  BY <1>1 DEF Forget, procVars
<1>4. CountersHold' /\ \A k : Counting(k)' = Counting(k)
  BY <1>3 DEF CountInv, CountersHold, Counting
<1>5. Counting(i) = {}
  BY <1>1, <1>3, HolderCountsAlone DEF CountInv, Counting
<1>6. \A k \in Items : failures[k] = requeues[k] + Cardinality(Counting(k))
  BY DEF CountInv, RetryCountsAgree, Counting
<1>7. \A k \in Items : failures'[k] = requeues'[k] + Cardinality(Counting(k)')
  <2>1. Cardinality(Counting(i)') = 0
    BY <1>4, <1>5, CountingSize
  <2>2. failures'[i] = requeues'[i] + Cardinality(Counting(i)')
    BY <1>2, <1>3, <2>1
  <2>3. \A k \in Items : k # i => failures'[k] = failures[k] /\ requeues'[k] = requeues[k]
    BY <1>2, <1>3
  <2> QED  BY <1>4, <1>6, <2>2, <2>3
<1> QED  BY <1>4, <1>7 DEF RetryCountsAgree, Counting

\* The rate limiter counts the retry, and the worker stops counting.
LEMMA WhenCounts ==
  ASSUME CountInv, NEW w \in Workers, When(w)
  PROVE  CountersHold' /\ RetryCountsAgree'
<1> PICK i : i = call[w].item
  OBVIOUS
<1>1. /\ pc \in [Procs -> ProcPcs] /\ DOMAIN call = Procs
      /\ failures \in [Items -> Nat] /\ requeues \in [Items -> Nat]
      /\ i \in Items /\ w \in Procs
  BY WorkersAreCallers
     DEF When, CountInv, QueueInv, TypeOK, ProcTypeOK, RetryTypeOK, Callers
<1>2. /\ pc[w] = "when" /\ pc' = [pc EXCEPT ![w] = "addAfter"]
      /\ requeues' = [requeues EXCEPT ![i] = @ + 1]
      /\ failures' = failures /\ held' = held
  BY DEF When
<1>3. i \in held[w]
  BY <1>2 DEF CountInv, CountersHold
<1>4. pc'[w] = "addAfter"
  BY <1>1, <1>2
<1>5. \A q \in Workers : q # w => pc'[q] = pc[q] /\ call'[q].item = call[q].item
  BY WorkersAreCallers, <1>1 DEF When
<1>6. CountersHold'
  BY <1>2, <1>4, <1>5 DEF CountInv, CountersHold
<1>7. Counting(i) = {w}
  BY <1>2, <1>3, HolderCountsAlone DEF CountInv, Counting
<1>8. Counting(i)' = {}
  BY <1>4, <1>5, <1>7 DEF Counting
<1>9. \A k \in Items : k # i => Counting(k)' = Counting(k)
  BY <1>4, <1>5, <1>7 DEF Counting
<1>10. \A k \in Items : failures[k] = requeues[k] + Cardinality(Counting(k))
  BY DEF CountInv, RetryCountsAgree, Counting
<1>11. \A k \in Items : failures'[k] = requeues'[k] + Cardinality(Counting(k)')
  <2>1. failures'[i] = requeues'[i] + Cardinality(Counting(i)')
    <3>1. failures[i] = requeues[i] + 1
      BY <1>1, <1>7, <1>10, CountingSize
    <3>2. Cardinality(Counting(i)') = 0
      BY <1>8, CountingSize
    <3> QED  BY <1>1, <1>2, <3>1, <3>2
  <2>2. ASSUME NEW k \in Items, k # i
        PROVE  failures'[k] = requeues'[k] + Cardinality(Counting(k)')
    <3>1. failures'[k] = failures[k] /\ requeues'[k] = requeues[k]
      BY <1>1, <1>2, <2>2
    <3> QED  BY <1>9, <1>10, <2>2, <3>1
  <2> QED  BY <2>1, <2>2
<1> QED  BY <1>6, <1>11 DEF RetryCountsAgree, Counting

\* The other steps of a worker count nothing.
LEMMA OtherWorkerStepCounts ==
  ASSUME CountInv, NEW w \in Workers,
         \/ WorkerGet(w) \/ WorkerAddAfter(w) \/ WorkerAdd(w) \/ WorkerDone(w)
         \/ AddAfterIsFresh(w) \/ AddAfterAdd(w) \/ AddAfterSend(w)
         \/ AddRateLimitedAfter(w) \/ waitForProcessing(w)
  PROVE  CountersHold' /\ RetryCountsAgree'
<1>1. /\ pc \in [Procs -> ProcPcs] /\ DOMAIN call = Procs
      /\ held \in [Procs -> SUBSET Items] /\ w \in Procs
  BY WorkersAreCallers DEF CountInv, QueueInv, TypeOK, ProcTypeOK
<1> DEFINE Kept == /\ UNCHANGED retryVars
                   /\ pc[w] # "when" /\ pc'[w] # "when"
                   /\ \A q \in Procs : q # w => /\ pc'[q] = pc[q]
                                                /\ call'[q] = call[q]
                                                /\ held'[q] = held[q]
<1>2. ASSUME Kept  PROVE CountersHold' /\ RetryCountsAgree'
  BY WorkersAreCallers, <1>2, CountsKept DEF CountInv
<1>3. ASSUME Get(w) \/ GetFresh(w)  PROVE Kept
  BY <1>1, <1>3 DEF Get, GetFresh, TakeFresh, TakeStaled, WaitOrReturn
<1>4. ASSUME NEW i \in Items, NEW d \in AddAfterDelays, AddAfter(w, i, d)  PROVE Kept
  BY <1>1, <1>4 DEF AddAfter, afterCheck
<1>5. ASSUME NEW i \in Items, Add(w, i)  PROVE Kept
  BY <1>1, <1>5 DEF Add, procVars
<1>6. ASSUME NEW i \in Items, Done(w, i)  PROVE Kept
  BY <1>1, <1>6 DEF Done
<1>7. ASSUME \/ AddAfterIsFresh(w) \/ AddAfterAdd(w) \/ AddAfterSend(w)
             \/ AddRateLimitedAfter(w) \/ waitForProcessing(w)
      PROVE  Kept
  BY <1>1, <1>7
     DEF AddAfterIsFresh, AddAfterAdd, AddAfterSend, AddRateLimitedAfter, afterCheck,
         waitForProcessing
<1>8. held[w] \subseteq Items
  BY <1>1
<1> HIDE DEF Kept
<1>9. CASE WorkerGet(w)
  BY <1>2, <1>3, <1>9 DEF WorkerGet, QueueGet
<1>10. CASE WorkerAddAfter(w)
  BY <1>2, <1>4, <1>8, <1>10 DEF WorkerAddAfter
<1>11. CASE WorkerAdd(w) \/ WorkerDone(w)
  BY <1>2, <1>5, <1>6, <1>8, <1>11 DEF WorkerAdd, WorkerDone
<1> QED  BY <1>2, <1>7, <1>9, <1>10, <1>11

\* What runs beside the workers.
LEMMA OtherStepCounts ==
  ASSUME CountInv,
         \/ \E h \in Handlers, i \in Items : Enqueue(h, i)
         \/ CacheSynced \/ CannotSync \/ Cancelled \/ Stopped
         \/ QueueStep
         \/ UNCHANGED cvars
  PROVE  CountersHold' /\ RetryCountsAgree'
<1>1. pc \in [Procs -> ProcPcs]
  BY DEF CountInv, QueueInv, TypeOK, ProcTypeOK
<1>2. ASSUME UNCHANGED <<retryVars, pc, call, held>>
      PROVE  CountersHold' /\ RetryCountsAgree'
  BY <1>2, CountsKept DEF CountInv
<1>3. CASE \E h \in Handlers, i \in Items : Enqueue(h, i)
  BY <1>2, <1>3 DEF Enqueue, Add, procVars
<1>4. CASE CacheSynced \/ CannotSync \/ Stopped \/ UNCHANGED cvars
  BY <1>2, <1>4 DEF CacheSynced, CannotSync, Stopped, cvars, vars, retryVars
<1>5. CASE Cancelled
  <2>1. PICK c \in Closers : ShutDown(c)
    BY <1>5 DEF Cancelled
  <2>2. UNCHANGED <<retryVars, call, held>>
    BY <2>1 DEF ShutDown
  <2>3. \A w \in Workers : (pc'[w] = "when") <=> (pc[w] = "when")
    BY WorkersAreCallers, <1>1, <2>1 DEF ShutDown
  <2> QED  BY <2>2, <2>3, CountsKept DEF CountInv
<1>6. CASE LoopStep \/ LoopHeartbeat
  BY <1>2, <1>6
     DEF LoopStep, LoopTop, LoopPop, LoopAdd, LoopStop, LoopTimer, LoopReceive,
         LoopDrained, LoopHeartbeat, procVars
<1>7. CASE Tick
  <2>1. UNCHANGED <<retryVars, pc, held>>
    BY <1>7 DEF Tick
  <2>2. \A w \in Workers : pc[w] = "when" => call'[w].item = call[w].item
    BY WorkersAreCallers, <1>7 DEF Tick
  <2> QED  BY <2>1, <2>2, CountsKept DEF CountInv
<1> QED  BY <1>3, <1>4, <1>5, <1>6, <1>7 DEF QueueStep

LEMMA CountStep == CountInv /\ [CNext]_cvars => CountInv'
<1> SUFFICES ASSUME CountInv, [CNext]_cvars  PROVE CountInv'
  OBVIOUS
<1>1. QueueInv'
  BY StepIsQueueStep, InvStep DEF CountInv, QueueInv
<1>2. CountersHold' /\ RetryCountsAgree'
  <2>1. ASSUME NEW w \in Workers, WorkerStep(w)  PROVE CountersHold' /\ RetryCountsAgree'
    BY <2>1, FailsCounts, SucceedsCounts, WhenCounts, OtherWorkerStepCounts
       DEF WorkerStep, CallStep
  <2> QED  BY <2>1, OtherStepCounts DEF CNext
<1> QED  BY <1>1, <1>2 DEF CountInv

\* The queue and the rate limiter agree on how often each key was retried, for
\* any number of workers: Done, which asks the limiter, and isFresh, which asks
\* the queue, judge a key by the same number.
THEOREM CountsAgree == CSpec => []RetryCountsAgree
<1>1. CInit => CountInv
  <2> SUFFICES ASSUME CInit  PROVE CountInv
    OBVIOUS
  <2>1. Init /\ QueueInv
    BY InitInv DEF CInit
  <2>2. CountersHold /\ \A i : Counting(i) = {}
    BY <2>1, WorkersAreCallers DEF Init, CountersHold, Counting
  <2>3. \A i \in Items : failures[i] = 0 /\ requeues[i] = 0
    BY <2>1 DEF Init
  <2>4. \A i \in Items : failures[i] = requeues[i] + Cardinality(Counting(i))
    BY <2>2, <2>3, CountingSize
  <2> QED  BY <2>1, <2>2, <2>4 DEF CountInv, RetryCountsAgree, Counting
<1>2. CountInv /\ [CNext]_cvars => CountInv'
  BY CountStep
<1>3. CountInv => RetryCountsAgree
  BY DEF CountInv
<1> QED  BY <1>1, <1>2, <1>3, PTL DEF CSpec
================================================================================
