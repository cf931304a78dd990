----------------------------- MODULE QueueMetrics -----------------------------
(***************************************************************************)
(* The metrics of pkg/utils/workqueue/metrics.go, composed with the queue  *)
(* that reports to them.  The queue calls add, get, done and               *)
(* updateUnfinishedWork inside its critical sections, and retry outside of *)
(* them, so a step here is a step of the queue with its report, or a round *)
(* of updateUnfinishedWorkLoop.                                            *)
(*                                                                         *)
(* The instants in addTimes and processingStartTimes are left out: each is *)
(* the set of keys the map has.  Counters and histograms are left out, as  *)
(* nothing reads them, but for retries, which the constructor forgets.     *)
(***************************************************************************)
EXTENDS PlayboyQueue

VARIABLES
  metrics,               \* "none" for noMetrics, "default" for defaultMetrics
  depth,                 \* the gauge
  addTimes,              \* keys with an instant since when they wait
  processingStartTimes,  \* keys with an instant since when they are processed
  unfinishedWork,        \* keys whose ages the gauges add up since the last round
  updating,              \* updateUnfinishedWorkLoop runs
  panicked               \* the process has died of a nil dereference

metricVars == <<depth, addTimes, processingStartTimes, panicked>>
gaugeVars  == <<unfinishedWork, updating>>
mvars == <<vars, metrics, depth, addTimes, processingStartTimes, panicked,
           unfinishedWork, updating>>

\* A queue without a name has no metrics.  The other test of the code compares
\* a pointer with a struct and never holds, so every named queue has them,
\* whatever the provider.
newMetrics(named) ==
  /\ metrics = IF named THEN "default" ELSE "none"
  /\ depth = 0
  /\ addTimes = {}
  /\ processingStartTimes = {}
  /\ panicked = FALSE

\* NewPlayboyQueue passes no name.
MInit ==
  /\ Init
  /\ \E named \in BOOLEAN : newMetrics(named)
  /\ unfinishedWork = {}
  /\ updating = TRUE

-----------------------------------------------------------------------------
(***************************************************************************)
(* The reports.                                                            *)
(***************************************************************************)
noMetrics == metrics = "none" /\ UNCHANGED metricVars

metricsAdd(i) ==
  \/ noMetrics
  \/ /\ metrics = "default"
     /\ depth' = depth + 1
     /\ addTimes' = addTimes \cup {i}
     /\ UNCHANGED <<processingStartTimes, panicked>>

metricsGet(i) ==
  \/ noMetrics
  \/ /\ metrics = "default"
     /\ depth' = depth - 1
     /\ processingStartTimes' = processingStartTimes \cup {i}
     /\ addTimes' = addTimes \ {i}
     /\ UNCHANGED panicked

metricsDone(i) ==
  \/ noMetrics
  \/ /\ metrics = "default"
     /\ processingStartTimes' = processingStartTimes \ {i}
     /\ UNCHANGED <<depth, addTimes, panicked>>

\* The field retries is nil.
metricsRetry ==
  \/ noMetrics
  \/ /\ metrics = "default"
     /\ panicked' = TRUE
     /\ UNCHANGED <<depth, addTimes, processingStartTimes>>

-----------------------------------------------------------------------------
(***************************************************************************)
(* The queue's steps with their reports.                                   *)
(***************************************************************************)
BugReportAdd(i) == metricsAdd(i)   \* reports the adds that change nothing, too

\* add reports once it has found that the key is neither refused nor dirty.
ReportAdd(i) ==
  IF shuttingDown \/ i \in dirty THEN UNCHANGED metricVars ELSE metricsAdd(i)

Adding ==
  \/ \E p \in Adders, i \in Items : Add(p, i) /\ ReportAdd(i)
  \/ \E p \in Procs : AddAfterAdd(p) /\ ReportAdd(call[p].item)
  \/ LoopAdd /\ ReportAdd(loop.item)

\* A Get or GetFresh that returned a key reports it.
ReportGet(p) ==
  \/ held'[p] = held[p] /\ UNCHANGED metricVars
  \/ \E i \in held'[p] \ held[p] : metricsGet(i)

Taking ==
  \/ \E p \in Getters : Get(p) /\ ReportGet(p)
  \/ \E p \in FreshGetters : GetFresh(p) /\ ReportGet(p)

Finishing == \E p \in Procs, i \in Items : Done(p, i) /\ metricsDone(i)

\* AddAfter reports as soon as ShuttingDown has said no, whatever the delay.
ReportRetry == IF shuttingDown THEN UNCHANGED metricVars ELSE metricsRetry

Retrying ==
  \/ \E p \in Adders, i \in Items, d \in AddAfterDelays : AddAfter(p, i, d) /\ ReportRetry
  \/ \E p \in Procs : AddRateLimitedAfter(p) /\ ReportRetry

\* What the queue does without a report.
Unreported ==
  /\ \/ \E p \in Adders, i \in Items : AddRateLimited(p, i) \/ Forget(p, i)
     \/ \E p \in Closers : ShutDown(p) \/ ShutDownWithDrain(p)
     \/ \E p \in Procs : \/ AddAfterIsFresh(p) \/ AddAfterSend(p) \/ When(p)
                         \/ waitForProcessing(p)
     \/ LoopTop \/ LoopPop \/ LoopStop \/ LoopTimer \/ LoopReceive \/ LoopDrained
     \/ LoopHeartbeat
     \/ Tick
  /\ UNCHANGED metricVars

updateUnfinishedWork ==
  unfinishedWork' = IF metrics = "default" THEN processingStartTimes ELSE unfinishedWork

\* A round takes cond.L; the first one after the shutdown is the last.
updateUnfinishedWorkLoop ==
  /\ updating
  /\ \/ ~shuttingDown /\ updateUnfinishedWork /\ UNCHANGED updating
     \/ shuttingDown /\ updating' = FALSE /\ UNCHANGED unfinishedWork
  /\ UNCHANGED <<vars, metricVars>>

MNext ==
  /\ ~panicked
  /\ \/ /\ Adding \/ Taking \/ Finishing \/ Retrying \/ Unreported
        /\ UNCHANGED gaugeVars
     \/ updateUnfinishedWorkLoop
  /\ UNCHANGED metrics

MSpec == MInit /\ [][MNext]_mvars

\* The queue's fairness.  Reports are part of its steps and need none.
MFairSpec == MSpec /\ Fairness

-----------------------------------------------------------------------------
(***************************************************************************)
(* Safety.                                                                 *)
(***************************************************************************)
\* While reports are made by another path than the changes they are about, they
\* agree with them: the gauge is the number of dirty keys, a key waits in
\* addTimes exactly while it is dirty, and in processingStartTimes exactly while
\* somebody holds it, so no entry of either map is ever left behind.
MetricsAgree ==
  metrics = "default" =>
    /\ depth = Cardinality(dirty)
    /\ addTimes = dirty
    /\ processingStartTimes = processing

-----------------------------------------------------------------------------
(***************************************************************************)
(* What comments say and the code does not do.                             *)
(***************************************************************************)
\* "number of retries, effectively counting function calls to AddAfter and
\* AddRateLimited": such a call is counted, and does not end the process.
RetriesAreCounted == ~panicked
===============================================================================
