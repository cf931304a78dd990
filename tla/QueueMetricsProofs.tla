-------------------------- MODULE QueueMetricsProofs --------------------------
(***************************************************************************)
(* What holds of QueueMetrics for every number of keys and goroutines: the *)
(* metrics change nothing of the queue, and agree with it.                 *)
(***************************************************************************)
EXTENDS QueueMetrics, PlayboyQueueProofs, FiniteSetTheorems

\* The reported steps together are the queue's next-state relation.
LEMMA MeteredStepIsQueueStep == [MNext]_mvars => [Next]_vars
<1> SUFFICES ASSUME [MNext]_mvars  PROVE [Next]_vars
  OBVIOUS
<1>1. CASE Adding
  BY <1>1 DEF Adding, Next, CallStep, LoopStep
<1>2. CASE Taking
  BY <1>2 DEF Taking, Next
<1>3. CASE Finishing
  BY <1>3 DEF Finishing, Next
<1>4. CASE Retrying
  BY <1>4 DEF Retrying, Next, CallStep
<1>5. CASE Unreported
  BY <1>5 DEF Unreported, Next, CallStep, LoopStep
<1>6. CASE updateUnfinishedWorkLoop
  BY <1>6 DEF updateUnfinishedWorkLoop
<1>7. CASE UNCHANGED mvars
  BY <1>7 DEF mvars
<1> QED  BY <1>1, <1>2, <1>3, <1>4, <1>5, <1>6, <1>7 DEF MNext

\* A queue with metrics is a queue.
THEOREM MeteredIsQueue == MSpec => Spec
<1>1. MInit => Init
  BY DEF MInit
<1> QED  BY <1>1, MeteredStepIsQueueStep, PTL DEF MSpec, Spec

-----------------------------------------------------------------------------
(***************************************************************************)
(* The agreement.  It needs the queue's invariant: a Get takes one off the *)
(* gauge, and the key it takes was dirty because the queues are exact.     *)
(***************************************************************************)
Agreement == IsFiniteSet(dirty) /\ MetricsAgree

LEMMA ReportedAdd ==
  ASSUME Agreement, NEW i \in Items, NEW fresh \in BOOLEAN, add(i, fresh),
         ReportAdd(i), metrics' = metrics
  PROVE  Agreement'
<1>1. CASE shuttingDown \/ i \in dirty
  BY <1>1 DEF Agreement, MetricsAgree, ReportAdd, metricVars, add, condVars
<1>2. CASE ~shuttingDown /\ i \notin dirty
  <2>1. dirty' = dirty \cup {i} /\ processing' = processing
    BY <1>2 DEF add
  <2>2. /\ IsFiniteSet(dirty \cup {i})
        /\ Cardinality(dirty \cup {i}) = Cardinality(dirty) + 1
    BY <1>2, FS_AddElement DEF Agreement
  <2>3. metricsAdd(i)
    BY <1>2 DEF ReportAdd
  <2> QED  BY <2>1, <2>2, <2>3 DEF Agreement, MetricsAgree, metricsAdd, noMetrics, metricVars
<1> QED  BY <1>1, <1>2

LEMMA ReportedTake ==
  ASSUME QueueInv, Agreement, NEW p \in Procs, TakeFresh(p) \/ TakeStaled(p),
         ReportGet(p), metrics' = metrics
  PROVE  Agreement'
<1>1. PICK h \in Items : Taken(p, h)
  BY TakeExact
<1>2. /\ h \in dirty /\ h \notin processing
      /\ dirty' = dirty \ {h} /\ processing' = processing \cup {h}
      /\ held' = [held EXCEPT ![p] = @ \cup {h}]
  BY <1>1 DEF Taken
<1>3. held \in [Procs -> SUBSET Items] /\ held[p] \subseteq processing
  BY DEF QueueInv, TypeOK, ProcTypeOK, ExclusiveHolding
<1>4. held'[p] = held[p] \cup {h} /\ h \notin held[p]
  BY <1>2, <1>3
<1>5. metricsGet(h)
  BY <1>4 DEF ReportGet
<1>6. /\ IsFiniteSet(dirty \ {h})
      /\ Cardinality(dirty \ {h}) = Cardinality(dirty) - 1
  BY <1>2, FS_RemoveElement DEF Agreement
<1> QED  BY <1>2, <1>5, <1>6 DEF Agreement, MetricsAgree, metricsGet, noMetrics, metricVars

\* A step that leaves the sets and the metrics alone.
LEMMA Unconcerned ==
  ASSUME Agreement, UNCHANGED <<dirty, processing, metrics, depth, addTimes, processingStartTimes>>
  PROVE  Agreement'
BY DEF Agreement, MetricsAgree

LEMMA AgreementStep ==
  ASSUME QueueInv, Agreement, [MNext]_mvars
  PROVE  Agreement'
<1>1. CASE Adding /\ metrics' = metrics
  <2>1. ASSUME NEW p \in Adders, NEW i \in Items, Add(p, i), ReportAdd(i)
        PROVE  Agreement'
    BY <1>1, <2>1, ReportedAdd DEF Add
  <2>2. ASSUME NEW p \in Procs, AddAfterAdd(p), ReportAdd(call[p].item)
        PROVE  Agreement'
    <3>1. call[p].item \in Items /\ call[p].fresh \in BOOLEAN
      BY <2>2 DEF AddAfterAdd, QueueInv, TypeOK, ProcTypeOK, Callers
    <3> QED  BY <1>1, <2>2, <3>1, ReportedAdd DEF AddAfterAdd
  <2>3. ASSUME LoopAdd, ReportAdd(loop.item)  PROVE Agreement'
    <3>1. loop.item \in Items /\ loop.fresh \in BOOLEAN
      BY <2>3 DEF LoopAdd, QueueInv, TypeOK, DelayTypeOK
    <3> QED  BY <1>1, <2>3, <3>1, ReportedAdd DEF LoopAdd
  <2> QED  BY <1>1, <2>1, <2>2, <2>3 DEF Adding
<1>2. CASE Taking /\ metrics' = metrics
  <2>1. PICK p \in Procs : (Get(p) \/ GetFresh(p)) /\ ReportGet(p)
    BY <1>2 DEF Taking, Procs
  <2>2. CASE TakeFresh(p) \/ TakeStaled(p)
    BY <1>2, <2>1, <2>2, ReportedTake
  <2>3. CASE WaitOrReturn(p, "get") \/ WaitOrReturn(p, "getFresh")
    BY <1>2, <2>1, <2>3, Unconcerned DEF WaitOrReturn, ReportGet, metricVars
  <2> QED  BY <2>1, <2>2, <2>3 DEF Get, GetFresh
<1>3. CASE Finishing /\ metrics' = metrics
  BY <1>3 DEF Finishing, Done, Agreement, MetricsAgree, metricsDone, noMetrics, metricVars
<1>4. CASE Retrying /\ metrics' = metrics
  <2>1. UNCHANGED <<dirty, processing>> /\ ReportRetry
    BY <1>4 DEF Retrying, AddAfter, AddRateLimitedAfter, condVars
  <2> QED  BY <1>4, <2>1, Unconcerned DEF ReportRetry, metricsRetry, noMetrics, metricVars
<1>5. CASE Unreported /\ metrics' = metrics
  <2>1. UNCHANGED <<dirty, processing>>
    BY <1>5 DEF Unreported, AddRateLimited, Forget, ShutDown, ShutDownWithDrain,
         AddAfterIsFresh, AddAfterSend, When, waitForProcessing, LoopTop, LoopPop,
         LoopStop, LoopTimer, LoopReceive, LoopDrained, LoopHeartbeat, Tick, condVars
  <2> QED  BY <1>5, <2>1, Unconcerned DEF Unreported, metricVars
<1>6. CASE updateUnfinishedWorkLoop /\ metrics' = metrics
  BY <1>6, Unconcerned DEF updateUnfinishedWorkLoop, vars, metricVars
<1>7. CASE UNCHANGED mvars
  BY <1>7, Unconcerned DEF mvars, vars
<1> QED  BY <1>1, <1>2, <1>3, <1>4, <1>5, <1>6, <1>7 DEF MNext

\* The gauge and both maps of metrics.go agree with the queue's sets, in every
\* state of every queue that has metrics.
THEOREM MetricsSafe == MSpec => []MetricsAgree
<1>1. MInit => QueueInv /\ Agreement
  <2>1. IsFiniteSet({}) /\ Cardinality({}) = 0
    BY FS_EmptySet
  <2> QED  BY <2>1, InitInv DEF MInit, Init, newMetrics, Agreement, MetricsAgree
<1>2. QueueInv /\ Agreement /\ [MNext]_mvars => QueueInv' /\ Agreement'
  BY MeteredStepIsQueueStep, InvStep, AgreementStep
<1>3. Agreement => MetricsAgree
  BY DEF Agreement
<1> QED  BY <1>1, <1>2, <1>3, PTL DEF MSpec
===============================================================================
