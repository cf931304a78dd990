---------------------------- MODULE LifecycleProofs ----------------------------
(***************************************************************************)
(* What holds of Lifecycle for any number of processes, controllers,       *)
(* objects and workers, and any durations.                                 *)
(***************************************************************************)
EXTENDS Lifecycle, LeaderElectionProofs, FiniteSetTheorems

-----------------------------------------------------------------------------
\* Every step of a process is a step of the election or none.
LEMMA LifecycleStepIsElectionStep == [LNext]_lifeVars => [ENext]_electionVars
<1> SUFFICES ASSUME [LNext]_lifeVars PROVE [ENext]_electionVars
  OBVIOUS
<1>1. ASSUME NEW p \in Processes, MainStep(p) PROVE [ENext]_electionVars
  BY <1>1 DEF MainStep, Start, Sync, FailToSync, ReleaseLock, Exit, Gone, ENext
<1>2. ASSUME NEW p \in Processes, ElectorStep(p) \/ StopElector(p) PROVE [ENext]_electionVars
  BY <1>2 DEF ElectorStep, Renew, Lead, LoseLease, StopElector, ENext
<1>3. ASSUME NEW p \in Processes, FaultStep(p) PROVE [ENext]_electionVars
  BY <1>3 DEF FaultStep, Crash, Signal, SecondSignal, TaskFails, LoseAnswer, MissDeadline,
              Gone, ENext
<1>4. ASSUME NEW p \in Processes, OnStartedLeading(p) \/ LostLeadership(p)
      PROVE  [ENext]_electionVars
  BY <1>4 DEF OnStartedLeading, LostLeadership
<1>5. ASSUME NEW p \in Processes, NEW c \in Controllers, ControllerStep(p, c)
      PROVE  [ENext]_electionVars
  BY <1>5 DEF ControllerStep, CachesSynced, StartWorkers, ShutDownQueue, WorkerReturns,
              RunReturns, StageStep
<1>6. ASSUME NEW p \in Processes, NEW k \in Keys,
             Handle(p, k) \/ WorkerStep(p, k) \/ Fail(p, k) \/ AddDelayed(p, k)
      PROVE  [ENext]_electionVars
  BY <1>6 DEF Handle, WorkerStep, Begin, Succeed, Fail, AddDelayed
<1>7. ASSUME NEW k \in Keys, Change(k) PROVE [ENext]_electionVars
  BY <1>7 DEF Change
<1>8. CASE Pass
  BY <1>8 DEF Pass, ENext
<1>9. CASE UNCHANGED lifeVars
  BY <1>9 DEF lifeVars
<1> QED
  BY <1>1, <1>2, <1>3, <1>4, <1>5, <1>6, <1>7, <1>8, <1>9 DEF LNext

\* The processes of main.go take part in the election as it is specified.
THEOREM LifecycleIsElection == LSpec => ESpec
<1>1. LInit => EInit
  BY DEF LInit
<1> QED
  BY <1>1, LifecycleStepIsElectionStep, PTL DEF LSpec, ESpec

\* So two processes never both lead on leases that have not run out, whatever
\* else they do.
THEOREM LifecycleOneLease == LSpec => []OneValidLease
  BY LifecycleIsElection, OneLease, PTL

-----------------------------------------------------------------------------
(***************************************************************************)
(* The inductive invariant: how far each part of a process has come tells  *)
(* how far the others have.                                                *)
(***************************************************************************)
Led == {"leading", "releasing", "left"}

\* main is in elector.Run when the elector has a place, the callback is called
\* by a leader, it starts the controllers, and they work between the start and
\* the end of their workers.
InOrder(p) ==
  /\ proc[p].main = "running" <=> elector[p] # "out"
  /\ proc[p].callback # "none" => elector[p] \in Led
  /\ \A c \in Controllers :
        /\ proc[p].stage[c] # "off" => proc[p].callback = "done"
        /\ proc[p].stage[c] \in {"stopping", "returned"} => proc[p].cancelled
  /\ \A k \in proc[p].processing : Stage(p, k) \in {"running", "stopping"}

\* Every key that is held has a worker that has not returned, and the workers
\* are there from the start of Run until the queue is shut down, at least.
StaffedAs(r) ==
  /\ IsFiniteSet(r.processing)
  /\ \A c \in Controllers :
        /\ Cardinality({k \in r.processing : Of(k) = c}) <= r.workers[c]
        /\ r.workers[c] > 0 => r.stage[c] \in {"running", "stopping"}
        /\ r.stage[c] = "running" => r.workers[c] > 0

Staffed(p) == StaffedAs(proc[p])

LInv ==
  /\ LTypeOK
  /\ \A p \in Processes : InOrder(p) /\ Staffed(p)
  /\ RunLeavesNothing
  /\ NothingIsMissed

LEMMA DownIsProcess == Down \in Process
<1>1. /\ [c \in Controllers |-> "off"] \in [Controllers -> Stages]
      /\ [c \in Controllers |-> 0] \in [Controllers -> Staff]
  BY LifecycleAssumption DEF Stages, Staff
<1> QED
  BY <1>1 DEF Down, Process

\* Nobody holds a key in a process that is down.
LEMMA DownIsStaffed == StaffedAs(Down)
<1>1. IsFiniteSet({}) /\ Cardinality({}) = 0
  BY FS_EmptySet
<1>2. /\ Down.processing = {}
      /\ \A c \in Controllers : Down.workers[c] = 0 /\ Down.stage[c] = "off"
  BY DEF Down
<1>3. \A c : {k \in Down.processing : Of(k) = c} = {}
  BY <1>2
<1> QED
  BY <1>1, <1>2, <1>3 DEF StaffedAs

LEMMA LifecycleStarts == LInit => LInv
<1> SUFFICES ASSUME LInit PROVE LInv
  OBVIOUS
<1>1. LTypeOK
  <2>1. proc \in [Processes -> Process] /\ \A p \in Processes : proc[p].current = {}
    BY DownIsProcess DEF LInit, Down
  <2> QED
    BY <2>1, LifecycleAssumption DEF LInit, LTypeOK
<1>2. \A p \in Processes : InOrder(p)
  BY DEF LInit, EInit, InOrder, Down
<1>3. \A p \in Processes : Staffed(p)
  BY DownIsStaffed DEF LInit, Staffed
<1>4. RunLeavesNothing /\ NothingIsMissed
  BY DEF LInit, RunLeavesNothing, NothingIsMissed, Down
<1> QED
  BY <1>1, <1>2, <1>3, <1>4 DEF LInv

\* What the invariant says of one process.
Well(p) ==
  /\ proc[p].current \subseteq proc[p].processing
  /\ InOrder(p)
  /\ \A k \in proc[p].pending \cup proc[p].processing :
        Stage(p, k) \in {"stopping", "returned"} => proc[p].workers[Of(k)] > 0
  /\ \A k \in outdated :
        proc[p].main # "down" /\ ~proc[p].cancelled =>
           k \in proc[p].events \cup proc[p].pending \cup proc[p].delayed \cup proc[p].current

Counters == faults \in 0 .. MaxFaults /\ changes \in 0 .. MaxChanges

LEMMA AllWell ==
  LInv <=> /\ proc \in [Processes -> Process] /\ outdated \subseteq Keys /\ Counters
           /\ \A p \in Processes : Well(p) /\ Staffed(p)
  BY DEF LInv, LTypeOK, RunLeavesNothing, NothingIsMissed, Well, Counters

\* What one process does leaves the others well, as long as it makes no key
\* outdated.
LEMMA OneMoves ==
  ASSUME LInv, NEW p \in Processes, proc' \in [Processes -> Process],
         \A q \in Processes \ {p} : proc'[q] = proc[q] /\ elector'[q] = elector[q],
         outdated' \subseteq outdated, Counters', Well(p)', Staffed(p)'
  PROVE  LInv'
<1>1. \A q \in Processes : Well(q) /\ Staffed(q)
  BY AllWell
<1>2. ASSUME NEW q \in Processes, q # p PROVE Well(q)' /\ Staffed(q)'
  <2>1. Well(q)'
    BY <1>1, <1>2 DEF Well, InOrder, Stage
  <2>2. Staffed(q)'
    BY <1>1, <1>2 DEF Staffed
  <2> QED
    BY <2>1, <2>2
<1>3. outdated' \subseteq Keys
  BY AllWell
<1> HIDE DEF LInv, Counters
<1>4. \A q \in Processes : Well(q)' /\ Staffed(q)'
  BY <1>2
<1> QED
  BY <1>3, <1>4 DEF LInv, LTypeOK, RunLeavesNothing, NothingIsMissed, Well, Counters

SameStaff(r, s) == r.processing = s.processing /\ r.workers = s.workers /\ r.stage = s.stage

LEMMA WorkersAreCounted ==
  ASSUME LInv, NEW p \in Processes, NEW c \in Controllers
  PROVE  proc[p].workers[c] \in Nat
<1>1. proc[p] \in Process
  BY AllWell
<1> QED
  BY <1>1, LifecycleAssumption DEF Process, Staff

LEMMA NoWorkersYet ==
  ASSUME LInv, NEW p \in Processes, NEW c \in Controllers, proc[p].stage[c] = "syncing"
  PROVE  proc[p].workers[c] = 0
<1>1. StaffedAs(proc[p])
  BY AllWell DEF Staffed
<1>2. ~(proc[p].workers[c] > 0)
  BY <1>1 DEF StaffedAs
<1> QED
  BY <1>2, WorkersAreCounted

\* What tells whether a process is staffed.
LEMMA StaffedStays ==
  ASSUME NEW r, NEW s, SameStaff(r, s), StaffedAs(r)
  PROVE  StaffedAs(s)
  BY DEF SameStaff, StaffedAs

\* The same for a step that leaves the election and the cluster alone.
LEMMA OneMovesAlone ==
  ASSUME LInv, NEW p \in Processes, NEW r \in Process, proc' = [proc EXCEPT ![p] = r],
         UNCHANGED <<Cluster, electionVars>>, Fault \/ NoFault, Well(p)',
         SameStaff(proc[p], r) \/ StaffedAs(r)
  PROVE  LInv'
<1>1. proc \in [Processes -> Process] /\ Counters
  BY AllWell
<1>2. /\ proc' \in [Processes -> Process]
      /\ \A q \in Processes \ {p} : proc'[q] = proc[q]
  BY <1>1
<1>3. elector' = elector /\ outdated' = outdated /\ changes' = changes
  BY DEF Cluster, electionVars
<1>4. Counters'
  BY <1>1, <1>3, LifecycleAssumption DEF Counters, Fault, NoFault
<1>5. proc'[p] = r /\ Staffed(p)
  BY <1>1, AllWell
<1>6. Staffed(p)'
  BY <1>5, StaffedStays DEF Staffed
<1> QED
  BY <1>2, <1>3, <1>4, <1>6, OneMoves

-----------------------------------------------------------------------------
(***************************************************************************)
(* The steps that leave the election alone.                                *)
(***************************************************************************)

LEMMA StartStep ==
  ASSUME LInv, NEW p \in Processes, Start(p)
  PROVE  LInv'
<1> DEFINE r == [proc[p] EXCEPT !.main = "syncing", !.events = Keys]
<1>1. proc \in [Processes -> Process] /\ Well(p) /\ outdated \subseteq Keys
  BY AllWell
<1>2. r \in Process /\ proc' = [proc EXCEPT ![p] = r]
  <2>1. proc[p] \in Process
    BY <1>1
  <2>2. r \in Process
    BY <2>1 DEF Process
  <2> QED
    BY <1>1, <2>2 DEF Start
<1>3. UNCHANGED <<Cluster, electionVars>> /\ (Fault \/ NoFault)
  BY DEF Start
<1>4. proc'[p] = r
  BY <1>1, <1>2
<1>5. Well(p)'
  BY <1>1, <1>3, <1>4 DEF Start, Well, InOrder, Stage, Cluster, electionVars, Process
<1>6. SameStaff(proc[p], r)
  BY <1>1 DEF SameStaff, Process
<1> QED
  BY <1>2, <1>3, <1>5, <1>6, OneMovesAlone

LEMMA SignalStep ==
  ASSUME LInv, NEW p \in Processes, Signal(p)
  PROVE  LInv'
<1> DEFINE r == [proc[p] EXCEPT !.signalled = TRUE, !.cancelled = TRUE]
<1>1. proc \in [Processes -> Process] /\ Well(p) /\ outdated \subseteq Keys
  BY AllWell
<1>2. r \in Process /\ proc' = [proc EXCEPT ![p] = r]
  <2>1. proc[p] \in Process
    BY <1>1
  <2>2. r \in Process
    BY <2>1 DEF Process
  <2> QED
    BY <1>1, <2>2 DEF Signal
<1>3. UNCHANGED <<Cluster, electionVars>> /\ (Fault \/ NoFault)
  BY DEF Signal
<1>4. proc'[p] = r
  BY <1>1, <1>2
<1>5. Well(p)'
  BY <1>1, <1>3, <1>4 DEF Signal, Well, InOrder, Stage, Cluster, electionVars, Process
<1>6. SameStaff(proc[p], r)
  BY <1>1 DEF SameStaff, Process
<1> QED
  BY <1>2, <1>3, <1>5, <1>6, OneMovesAlone

LEMMA TaskFailsStep ==
  ASSUME LInv, NEW p \in Processes, TaskFails(p)
  PROVE  LInv'
<1> DEFINE r == [proc[p] EXCEPT !.cancelled = TRUE]
<1>1. proc \in [Processes -> Process] /\ Well(p) /\ outdated \subseteq Keys
  BY AllWell
<1>2. r \in Process /\ proc' = [proc EXCEPT ![p] = r]
  <2>1. proc[p] \in Process
    BY <1>1
  <2>2. r \in Process
    BY <2>1 DEF Process
  <2> QED
    BY <1>1, <2>2 DEF TaskFails
<1>3. UNCHANGED <<Cluster, electionVars>> /\ (Fault \/ NoFault)
  BY DEF TaskFails
<1>4. proc'[p] = r
  BY <1>1, <1>2
<1>5. Well(p)'
  BY <1>1, <1>3, <1>4 DEF TaskFails, Well, InOrder, Stage, Cluster, electionVars, Process
<1>6. SameStaff(proc[p], r)
  BY <1>1 DEF SameStaff, Process
<1> QED
  BY <1>2, <1>3, <1>5, <1>6, OneMovesAlone

LEMMA LostLeadershipStep ==
  ASSUME LInv, NEW p \in Processes, LostLeadership(p)
  PROVE  LInv'
<1> DEFINE r == [proc[p] EXCEPT !.cancelled = TRUE]
<1>1. proc \in [Processes -> Process] /\ Well(p) /\ outdated \subseteq Keys
  BY AllWell
<1>2. r \in Process /\ proc' = [proc EXCEPT ![p] = r]
  <2>1. proc[p] \in Process
    BY <1>1
  <2>2. r \in Process
    BY <2>1 DEF Process
  <2> QED
    BY <1>1, <2>2 DEF LostLeadership
<1>3. UNCHANGED <<Cluster, electionVars>> /\ (Fault \/ NoFault)
  BY DEF LostLeadership
<1>4. proc'[p] = r
  BY <1>1, <1>2
<1>5. Well(p)'
  BY <1>1, <1>3, <1>4 DEF LostLeadership, Well, InOrder, Stage, Cluster, electionVars, Process
<1>6. SameStaff(proc[p], r)
  BY <1>1 DEF SameStaff, Process
<1> QED
  BY <1>2, <1>3, <1>5, <1>6, OneMovesAlone

LEMMA OnStartedLeadingStep ==
  ASSUME LInv, NEW p \in Processes, OnStartedLeading(p)
  PROVE  LInv'
<1> DEFINE r == [proc[p] EXCEPT !.callback = "done",
                            !.stage = [c \in Controllers |-> "syncing"]]
<1>1. proc \in [Processes -> Process] /\ Well(p) /\ outdated \subseteq Keys
  BY AllWell
<1>2. r \in Process /\ proc' = [proc EXCEPT ![p] = r]
  <2>1. [c \in Controllers |-> "syncing"] \in [Controllers -> Stages]
    BY DEF Stages
  <2>2. proc[p] \in Process
    BY <1>1
  <2>3. r \in Process
    BY <2>1, <2>2 DEF Process
  <2> QED
    BY <1>1, <2>3 DEF OnStartedLeading
<1>3. UNCHANGED <<Cluster, electionVars>> /\ (Fault \/ NoFault)
  BY DEF OnStartedLeading
<1>4. proc'[p] = r
  BY <1>1, <1>2
<1>5. Well(p)'
  BY <1>1, <1>3, <1>4 DEF OnStartedLeading, Well, InOrder, Stage, Cluster, electionVars, Process, Keys, Of
<1>6. StaffedAs(r)
  <2>1. StaffedAs(proc[p]) /\ \A c \in Controllers : proc[p].stage[c] = "off"
    BY <1>1, AllWell DEF OnStartedLeading, Well, InOrder, Staffed
  <2>2. /\ r.processing = proc[p].processing /\ r.workers = proc[p].workers
        /\ \A c \in Controllers : r.stage[c] = "syncing"
    BY <1>1 DEF Process
  <2> QED
    BY <2>1, <2>2 DEF StaffedAs
<1> QED
  BY <1>2, <1>3, <1>5, <1>6, OneMovesAlone

LEMMA HandleStep ==
  ASSUME LInv, NEW p \in Processes, NEW k \in Keys, Handle(p, k)
  PROVE  LInv'
<1> DEFINE r == [proc[p] EXCEPT !.events = @ \ {k},
                            !.pending = IF IsShut(p, k) THEN @ ELSE @ \cup {k}]
<1>1. proc \in [Processes -> Process] /\ Well(p) /\ outdated \subseteq Keys
  BY AllWell
<1>2. r \in Process /\ proc' = [proc EXCEPT ![p] = r]
  <2>1. proc[p] \in Process
    BY <1>1
  <2>2. r \in Process
    BY <2>1 DEF Process
  <2> QED
    BY <1>1, <2>2 DEF Handle
<1>3. UNCHANGED <<Cluster, electionVars>> /\ (Fault \/ NoFault)
  BY DEF Handle
<1>4. proc'[p] = r
  BY <1>1, <1>2
<1>5. Well(p)'
  BY <1>1, <1>3, <1>4 DEF Handle, Well, InOrder, Stage, Cluster, electionVars, Process, IsShut, Keys, Of
<1>6. SameStaff(proc[p], r)
  BY <1>1 DEF SameStaff, Process
<1> QED
  BY <1>2, <1>3, <1>5, <1>6, OneMovesAlone

LEMMA AddDelayedStep ==
  ASSUME LInv, NEW p \in Processes, NEW k \in Keys, AddDelayed(p, k)
  PROVE  LInv'
<1> DEFINE r == [proc[p] EXCEPT !.delayed = @ \ {k}, !.pending = @ \cup {k}]
<1>1. proc \in [Processes -> Process] /\ Well(p) /\ outdated \subseteq Keys
  BY AllWell
<1>2. r \in Process /\ proc' = [proc EXCEPT ![p] = r]
  <2>1. proc[p] \in Process
    BY <1>1
  <2>2. r \in Process
    BY <2>1 DEF Process
  <2> QED
    BY <1>1, <2>2 DEF AddDelayed
<1>3. UNCHANGED <<Cluster, electionVars>> /\ (Fault \/ NoFault)
  BY DEF AddDelayed
<1>4. proc'[p] = r
  BY <1>1, <1>2
<1>5. Well(p)'
  BY <1>1, <1>3, <1>4 DEF AddDelayed, Well, InOrder, Stage, Cluster, electionVars, Process, IsShut, Keys, Of
<1>6. SameStaff(proc[p], r)
  BY <1>1 DEF SameStaff, Process
<1> QED
  BY <1>2, <1>3, <1>5, <1>6, OneMovesAlone

\* A key less leaves a process staffed.
LEMMA FewerHeld ==
  ASSUME LInv, NEW p \in Processes, NEW k, NEW r,
         r.processing = proc[p].processing \ {k},
         r.workers = proc[p].workers, r.stage = proc[p].stage
  PROVE  StaffedAs(r)
<1>1. StaffedAs(proc[p]) /\ proc[p] \in Process
  BY AllWell DEF Staffed
<1>2. IsFiniteSet(r.processing)
  <2>1. IsFiniteSet(proc[p].processing)
    BY <1>1 DEF StaffedAs
  <2> QED
    BY <2>1, FS_RemoveElement
<1>3. ASSUME NEW c \in Controllers
      PROVE  Cardinality({x \in r.processing : Of(x) = c}) <= r.workers[c]
  <2> DEFINE S == {x \in proc[p].processing : Of(x) = c}
             T == {x \in r.processing : Of(x) = c}
  <2>1. IsFiniteSet(S)
    BY <1>1, FS_Subset DEF StaffedAs
  <2>2. IsFiniteSet(T) /\ Cardinality(T) <= Cardinality(S)
    BY <2>1, FS_Subset
  <2>3. Cardinality(S) <= r.workers[c] /\ r.workers[c] \in Int
    BY <1>1, WorkersAreCounted DEF StaffedAs
  <2>4. Cardinality(S) \in Int /\ Cardinality(T) \in Int
    BY <2>1, <2>2, FS_CardinalityType
  <2> QED
    BY <2>2, <2>3, <2>4
<1> QED
  BY <1>1, <1>2, <1>3 DEF StaffedAs

LEMMA FailStep ==
  ASSUME LInv, NEW p \in Processes, NEW k \in Keys, Fail(p, k)
  PROVE  LInv'
<1> DEFINE r == [proc[p] EXCEPT !.processing = @ \ {k}, !.current = @ \ {k},
                            !.delayed = IF IsShut(p, k) THEN @ ELSE @ \cup {k}]
<1>1. proc \in [Processes -> Process] /\ Well(p) /\ outdated \subseteq Keys
  BY AllWell
<1>2. r \in Process /\ proc' = [proc EXCEPT ![p] = r]
  <2>1. proc[p] \in Process
    BY <1>1
  <2>2. r \in Process
    BY <2>1 DEF Process
  <2> QED
    BY <1>1, <2>2 DEF Fail
<1>3. UNCHANGED <<Cluster, electionVars>> /\ (Fault \/ NoFault)
  BY DEF Fail
<1>4. proc'[p] = r
  BY <1>1, <1>2
<1>5. Well(p)'
  <2>1. elector' = elector /\ outdated' = outdated /\ k \in proc[p].processing
    BY DEF Fail, Cluster, electionVars
  <2>2. proc[p] \in Process
    BY <1>1
  <2>3. /\ r.main = proc[p].main /\ r.cancelled = proc[p].cancelled
        /\ r.callback = proc[p].callback /\ r.stage = proc[p].stage
        /\ r.workers = proc[p].workers /\ r.events = proc[p].events
        /\ r.pending = proc[p].pending
        /\ r.processing = proc[p].processing \ {k} /\ r.current = proc[p].current \ {k}
        /\ r.delayed = IF IsShut(p, k) THEN proc[p].delayed ELSE proc[p].delayed \cup {k}
    BY <2>2 DEF Process
  <2>4. IsShut(p, k) => proc[p].cancelled
    BY <1>1, <2>2 DEF Well, InOrder, IsShut, Stage, Keys, Of
  <2> HIDE DEF r
  <2> QED
    BY <1>1, <1>4, <2>1, <2>3, <2>4 DEF Well, InOrder, Stage
<1>6. StaffedAs(r)
  <2>1. /\ r.processing = proc[p].processing \ {k}
        /\ r.workers = proc[p].workers /\ r.stage = proc[p].stage
    BY <1>1 DEF Process
  <2> QED
    BY <1>1, <2>1, FewerHeld
<1> QED
  BY <1>2, <1>3, <1>5, <1>6, OneMovesAlone

\* A worker that is free has not returned, so the queue is served.
LEMMA FreeWorkerServes ==
  ASSUME LInv, NEW p \in Processes, NEW c \in Controllers, HasFreeWorker(p, c)
  PROVE  /\ proc[p].workers[c] \in Nat /\ Cardinality(Held(p, c)) \in Nat
         /\ IsFiniteSet(Held(p, c))
         /\ proc[p].workers[c] > 0 /\ proc[p].stage[c] \in {"running", "stopping"}
<1>1. StaffedAs(proc[p]) /\ proc[p] \in Process
  BY AllWell DEF Staffed
<1>2. IsFiniteSet(Held(p, c)) /\ Cardinality(Held(p, c)) \in Nat
  BY <1>1, FS_Subset, FS_CardinalityType DEF StaffedAs, Held
<1>3. proc[p].workers[c] \in Nat
  BY WorkersAreCounted
<1>4. proc[p].workers[c] > 0
  BY <1>2, <1>3 DEF HasFreeWorker
<1> QED
  BY <1>1, <1>2, <1>3, <1>4 DEF StaffedAs

LEMMA BeginStep ==
  ASSUME LInv, NEW p \in Processes, NEW k \in Keys, Begin(p, k)
  PROVE  LInv'
<1>1. proc \in [Processes -> Process] /\ Well(p) /\ outdated \subseteq Keys
  BY AllWell
<1>2. PICK seen \in BOOLEAN :
        /\ k \notin proc[p].events => seen
        /\ proc' = [proc EXCEPT ![p].pending = @ \ {k}, ![p].processing = @ \cup {k},
                                ![p].current = IF seen THEN @ \cup {k} ELSE @]
  BY DEF Begin
<1> DEFINE r == [proc[p] EXCEPT !.pending = @ \ {k}, !.processing = @ \cup {k},
                                !.current = IF seen THEN @ \cup {k} ELSE @]
           h == Of(k)
<1>3. r \in Process /\ proc' = [proc EXCEPT ![p] = r]
  <2>1. proc[p] \in Process
    BY <1>1
  <2>2. r \in Process
    BY <2>1 DEF Process
  <2> QED
    BY <1>1, <1>2, <2>2
<1>4. UNCHANGED <<Cluster, electionVars>> /\ (Fault \/ NoFault)
  BY DEF Begin
<1>5. proc'[p] = r
  BY <1>1, <1>3
<1>6. h \in Controllers /\ HasFreeWorker(p, h) /\ k \notin proc[p].processing
  BY DEF Begin, Keys, Of
<1>7. Stage(p, k) \in {"running", "stopping"} /\ proc[p].workers[h] > 0
  BY <1>6, FreeWorkerServes DEF Stage
<1>8. Well(p)'
  BY <1>1, <1>2, <1>4, <1>5, <1>7
  DEF Well, InOrder, Stage, Cluster, electionVars, Process, Keys, Of
<1>9. StaffedAs(r)
  <2>1. StaffedAs(proc[p])
    BY AllWell DEF Staffed
  <2>2. /\ r.processing = proc[p].processing \cup {k}
        /\ r.workers = proc[p].workers /\ r.stage = proc[p].stage
    BY <1>1 DEF Process
  <2>3. IsFiniteSet(r.processing)
    BY <2>1, <2>2, FS_AddElement DEF StaffedAs
  <2>4. ASSUME NEW c \in Controllers
        PROVE  Cardinality({x \in r.processing : Of(x) = c}) <= r.workers[c]
    <3>1. CASE c = h
      <4>1. {x \in r.processing : Of(x) = c} = Held(p, h) \cup {k} /\ k \notin Held(p, h)
        BY <1>6, <2>2, <3>1 DEF Held
      <4>2. Cardinality(Held(p, h) \cup {k}) = Cardinality(Held(p, h)) + 1
        BY <1>6, <4>1, FreeWorkerServes, FS_AddElement
      <4>3. Cardinality(Held(p, h)) + 1 <= proc[p].workers[h]
        BY <1>6, FreeWorkerServes DEF HasFreeWorker
      <4> QED
        BY <2>2, <3>1, <4>1, <4>2, <4>3
    <3>2. CASE c # h
      <4>1. {x \in r.processing : Of(x) = c} = {x \in proc[p].processing : Of(x) = c}
        BY <2>2, <3>2
      <4> QED
        BY <2>1, <2>2, <4>1 DEF StaffedAs
    <3> QED
      BY <3>1, <3>2
  <2> QED
    BY <2>1, <2>2, <2>3, <2>4 DEF StaffedAs
<1> QED
  BY <1>3, <1>4, <1>8, <1>9, OneMovesAlone

\* A success makes a key up to date for everybody.
LEMMA SucceedStep ==
  ASSUME LInv, NEW p \in Processes, NEW k \in Keys, Succeed(p, k)
  PROVE  LInv'
<1> DEFINE r == [proc[p] EXCEPT !.processing = @ \ {k}, !.current = @ \ {k}]
<1>1. proc \in [Processes -> Process] /\ Well(p) /\ outdated \subseteq Keys /\ Counters
  BY AllWell
<1>2. r \in Process /\ proc' = [proc EXCEPT ![p] = r]
  <2>1. proc[p] \in Process
    BY <1>1
  <2>2. r \in Process
    BY <2>1 DEF Process
  <2> QED
    BY <1>1, <2>2 DEF Succeed
<1>3. proc'[p] = r
  BY <1>1, <1>2
<1>4. elector' = elector /\ outdated' \subseteq outdated /\ Counters'
  BY <1>1 DEF Succeed, NoFault, Counters, electionVars
<1>5. Well(p)'
  BY <1>1, <1>3, <1>4 DEF Succeed, Well, InOrder, Stage, Process
<1>6. Staffed(p)'
  <2>1. /\ r.processing = proc[p].processing \ {k}
        /\ r.workers = proc[p].workers /\ r.stage = proc[p].stage
    BY <1>1 DEF Process
  <2> QED
    BY <1>1, <1>3, <2>1, FewerHeld DEF Staffed
<1> QED
  BY <1>1, <1>2, <1>4, <1>5, <1>6, OneMoves

\* A controller without workers holds no key.
LEMMA NoWorkersHoldNone ==
  ASSUME LInv, NEW p \in Processes, NEW c \in Controllers, proc[p].workers[c] = 0
  PROVE  Held(p, c) = {}
<1>1. StaffedAs(proc[p])
  BY AllWell DEF Staffed
<1>2. IsFiniteSet(Held(p, c)) /\ Cardinality(Held(p, c)) <= 0
  BY <1>1, FS_Subset DEF StaffedAs, Held
<1> QED
  BY <1>2, FS_EmptySet, FS_CardinalityType

LEMMA StagesMayChange ==
  ASSUME NEW r \in Process, NEW t \in [Controllers -> Stages]
  PROVE  [r EXCEPT !.stage = t] \in Process
  BY DEF Process

LEMMA PoolsMayChange ==
  ASSUME NEW r \in Process, NEW t \in [Controllers -> Stages], NEW w \in [Controllers -> Staff]
  PROVE  [r EXCEPT !.stage = t, !.workers = w] \in Process
  BY DEF Process

\* A step of a controller that no key it holds or has queued is left alone by.
LEMMA StageStepKeeps ==
  ASSUME LInv, NEW p \in Processes, NEW c \in Controllers,
         NEW from \in {"syncing", "running", "stopping"},
         NEW to \in {"unsynced", "stopping", "returned"}, StageStep(p, c, from, to),
         to \in {"stopping", "returned"} => proc[p].cancelled,
         to = "stopping" => from = "running",
         to # "stopping" => proc[p].workers[c] = 0,
         to = "returned" => from = "stopping"
  PROVE  LInv'
<1> DEFINE r == [proc[p] EXCEPT !.stage = [@ EXCEPT ![c] = to]]
<1>1. proc \in [Processes -> Process] /\ Well(p) /\ outdated \subseteq Keys
  BY AllWell
<1>2. r \in Process /\ proc' = [proc EXCEPT ![p] = r]
  <2>1. [proc[p].stage EXCEPT ![c] = to] \in [Controllers -> Stages]
    BY <1>1 DEF Process, Stages
  <2>2. r \in Process
    BY <1>1, <2>1, StagesMayChange
  <2> QED
    BY <1>1, <2>2 DEF StageStep
<1>3. UNCHANGED <<Cluster, electionVars>> /\ (Fault \/ NoFault)
  BY DEF StageStep
<1>4. proc'[p] = r
  BY <1>1, <1>2
<1>5. /\ r.processing = proc[p].processing /\ r.workers = proc[p].workers
      /\ \A d \in Controllers : r.stage[d] = IF d = c THEN to ELSE proc[p].stage[d]
  BY <1>1 DEF Process
<1>6. proc[p].stage[c] = from /\ (from = "running" => proc[p].workers[c] > 0)
  BY AllWell DEF StageStep, Staffed, StaffedAs
<1>7. to # "stopping" => \A k \in proc[p].processing : Of(k) # c
  BY NoWorkersHoldNone DEF Held
<1>8. to = "returned" => \A k \in proc[p].pending : Of(k) # c
  BY <1>1, <1>6 DEF Well, Stage
<1>9. Well(p)'
  <2>1. InOrder(p)'
    BY <1>1, <1>3, <1>4, <1>6, <1>7
    DEF StageStep, Well, InOrder, Stage, Stages, Cluster, electionVars, Process, Keys, Of
  <2>2. \A k \in proc'[p].pending \cup proc'[p].processing :
           Stage(p, k)' \in {"stopping", "returned"} => proc'[p].workers[Of(k)] > 0
    BY <1>1, <1>4, <1>6, <1>7, <1>8 DEF Well, Stage, Process, Keys, Of
  <2> QED
    BY <1>1, <1>3, <1>4, <2>1, <2>2 DEF Well, Cluster, Process
<1>10. StaffedAs(r)
  BY <1>5, <1>6, AllWell DEF Staffed, StaffedAs
<1> QED
  BY <1>2, <1>3, <1>9, <1>10, OneMovesAlone

\* Run starts its workers.
LEMMA StartWorkersStep ==
  ASSUME LInv, NEW p \in Processes, NEW c \in Controllers, StartWorkers(p, c)
  PROVE  LInv'
<1> DEFINE r == [proc[p] EXCEPT !.stage = [@ EXCEPT ![c] = "running"],
                                !.workers = [@ EXCEPT ![c] = Concurrency]]
<1>1. proc \in [Processes -> Process] /\ Well(p) /\ outdated \subseteq Keys
  BY AllWell
<1>2. r \in Process /\ proc' = [proc EXCEPT ![p] = r]
  <2>1. /\ [proc[p].stage EXCEPT ![c] = "running"] \in [Controllers -> Stages]
        /\ [proc[p].workers EXCEPT ![c] = Concurrency] \in [Controllers -> Staff]
    BY <1>1, LifecycleAssumption DEF Process, Stages, Staff
  <2>2. r \in Process
    <3>1. proc[p] \in Process
      BY <1>1
    <3> QED
      BY <2>1, <3>1, PoolsMayChange
  <2> QED
    BY <1>1, <2>2 DEF StartWorkers
<1>3. UNCHANGED <<Cluster, electionVars>> /\ (Fault \/ NoFault)
  BY DEF StartWorkers
<1>4. proc'[p] = r
  BY <1>1, <1>2
<1>5. /\ r.processing = proc[p].processing
      /\ \A d \in Controllers :
            /\ r.stage[d] = IF d = c THEN "running" ELSE proc[p].stage[d]
            /\ r.workers[d] = IF d = c THEN Concurrency ELSE proc[p].workers[d]
  BY <1>1 DEF Process
<1>6. StaffedAs(proc[p]) /\ proc[p].stage[c] = "syncing"
  BY AllWell DEF StartWorkers, Staffed
<1>7. proc[p].workers[c] = 0
  BY <1>6, NoWorkersYet
<1>8. {k \in r.processing : Of(k) = c} = {}
  BY <1>5, <1>7, NoWorkersHoldNone DEF Held
<1>9. Well(p)'
  BY <1>1, <1>3, <1>4, <1>6
  DEF StartWorkers, Well, InOrder, Stage, Stages, Cluster, electionVars, Process, Keys, Of
<1>10. StaffedAs(r)
  <2>1. Cardinality({k \in r.processing : Of(k) = c}) <= r.workers[c] /\ r.workers[c] > 0
    BY <1>5, <1>8, LifecycleAssumption, FS_EmptySet
  <2>2. IsFiniteSet(r.processing)
    BY <1>5, <1>6 DEF StaffedAs
  <2>3. ASSUME NEW d \in Controllers, d # c
        PROVE  /\ Cardinality({k \in r.processing : Of(k) = d}) <= r.workers[d]
               /\ r.workers[d] > 0 => r.stage[d] \in {"running", "stopping"}
               /\ r.stage[d] = "running" => r.workers[d] > 0
    BY <1>5, <1>6, <2>3 DEF StaffedAs
  <2>4. r.stage[c] = "running"
    BY <1>5
  <2> QED
    BY <2>1, <2>2, <2>3, <2>4 DEF StaffedAs
<1> QED
  BY <1>2, <1>3, <1>9, <1>10, OneMovesAlone

\* The last worker to return holds no key and finds none in the queue, so that
\* none is left: a key that is held has a worker that has not returned.
LEMMA WorkerReturnsStep ==
  ASSUME LInv, NEW p \in Processes, NEW c \in Controllers, WorkerReturns(p, c)
  PROVE  LInv'
<1> DEFINE n == proc[p].workers[c]
           r == [proc[p] EXCEPT !.workers = [proc[p].workers EXCEPT ![c] = n - 1]]
<1>1. proc \in [Processes -> Process] /\ Well(p) /\ outdated \subseteq Keys
  BY AllWell
<1>2. /\ HasFreeWorker(p, c) /\ proc[p].stage[c] = "stopping"
      /\ \A k \in proc[p].pending \ proc[p].processing : Of(k) # c
      /\ proc' = [proc EXCEPT ![p] = r]
  BY <1>1 DEF WorkerReturns
<1>3. /\ n \in Nat /\ n > 0 /\ Cardinality(Held(p, c)) \in Nat
      /\ IsFiniteSet(Held(p, c)) /\ Cardinality(Held(p, c)) < n
  BY <1>2, FreeWorkerServes DEF HasFreeWorker
<1>4. r \in Process
  <2>1. proc[p] \in Process /\ n - 1 \in Staff
    BY <1>1, <1>3, LifecycleAssumption DEF Process, Staff
  <2>2. [proc[p].workers EXCEPT ![c] = n - 1] \in [Controllers -> Staff]
    BY <2>1 DEF Process
  <2> QED
    BY <2>1, <2>2 DEF Process
<1>5. UNCHANGED <<Cluster, electionVars>> /\ (Fault \/ NoFault)
  BY DEF WorkerReturns
<1>6. proc'[p] = r
  BY <1>1, <1>2
<1>7. /\ r.processing = proc[p].processing /\ r.stage = proc[p].stage
      /\ r.pending = proc[p].pending
      /\ \A d \in Controllers : r.workers[d] = IF d = c THEN n - 1 ELSE proc[p].workers[d]
  <2>1. proc[p] \in Process
    BY <1>1
  <2>2. proc[p].workers \in [Controllers -> Staff]
    BY <2>1 DEF Process
  <2>3. r.workers = [proc[p].workers EXCEPT ![c] = n - 1]
    BY <2>1 DEF Process
  <2>4. r.processing = proc[p].processing /\ r.stage = proc[p].stage /\ r.pending = proc[p].pending
    BY <2>1 DEF Process
  <2> QED
    BY <2>2, <2>3, <2>4
<1>8. n = 1 => \A k \in proc[p].pending \cup proc[p].processing : Of(k) # c
  <2>1. n = 1 => Held(p, c) = {}
    BY <1>3, FS_EmptySet
  <2> QED
    BY <1>2, <2>1 DEF Held
<1>9. Well(p)'
  <2>1. InOrder(p)'
    BY <1>1, <1>5, <1>6 DEF Well, InOrder, Stage, electionVars, Process
  <2>2. ASSUME NEW k \in r.pending \cup r.processing, r.stage[Of(k)] \in {"stopping", "returned"}
        PROVE  r.workers[Of(k)] > 0
    <3>1. Of(k) \in Controllers
      BY <1>1, <1>7 DEF Process, Keys, Of
    <3>2. proc[p].workers[Of(k)] > 0
      BY <1>1, <1>7, <2>2 DEF Well, Stage
    <3> QED
      BY <1>3, <1>7, <1>8, <3>1, <3>2
  <2>3. \A k \in proc'[p].pending \cup proc'[p].processing :
           Stage(p, k)' \in {"stopping", "returned"} => proc'[p].workers[Of(k)] > 0
    BY <1>6, <2>2 DEF Stage
  <2> QED
    BY <1>1, <1>5, <1>6, <2>1, <2>3 DEF Well, Cluster, Process
<1>10. StaffedAs(r)
  <2>1. StaffedAs(proc[p])
    BY AllWell DEF Staffed
  <2>2. {k \in r.processing : Of(k) = c} = Held(p, c)
    BY <1>7 DEF Held
  <2>3. Cardinality({k \in r.processing : Of(k) = c}) <= r.workers[c]
    <3>1. r.workers[c] = n - 1 /\ Cardinality(Held(p, c)) <= n - 1
      BY <1>3, <1>7
    <3> QED
      BY <2>2, <3>1
  <2>4. r.stage[c] = "stopping"
    BY <1>2, <1>7
  <2>5. ASSUME NEW d \in Controllers, d # c
        PROVE  /\ Cardinality({k \in r.processing : Of(k) = d}) <= r.workers[d]
               /\ r.workers[d] > 0 => r.stage[d] \in {"running", "stopping"}
               /\ r.stage[d] = "running" => r.workers[d] > 0
    BY <1>7, <2>1, <2>5 DEF StaffedAs
  <2>6. IsFiniteSet(r.processing)
    BY <1>7, <2>1 DEF StaffedAs
  <2> QED
    BY <2>3, <2>4, <2>5, <2>6 DEF StaffedAs
<1> QED
  BY <1>2, <1>4, <1>5, <1>9, <1>10, OneMovesAlone

LEMMA ControllerStepKeeps ==
  ASSUME LInv, NEW p \in Processes, NEW c \in Controllers, ControllerStep(p, c)
  PROVE  LInv'
<1>1. CASE StartWorkers(p, c)
  BY <1>1, StartWorkersStep
<1>2. CASE proc[p].cancelled /\ StageStep(p, c, "syncing", "unsynced")
  <2>1. proc[p].workers[c] = 0
    BY <1>2, NoWorkersYet DEF StageStep
  <2> QED
    BY <1>2, <2>1, StageStepKeeps
<1>3. CASE ShutDownQueue(p, c)
  BY <1>3, StageStepKeeps DEF ShutDownQueue
<1>4. CASE WorkerReturns(p, c)
  BY <1>4, WorkerReturnsStep
<1>5. CASE RunReturns(p, c)
  <2>1. proc[p].cancelled
    BY <1>5, AllWell DEF RunReturns, StageStep, Well, InOrder
  <2> QED
    BY <1>5, <2>1, StageStepKeeps DEF RunReturns
<1> QED
  BY <1>1, <1>2, <1>3, <1>4, <1>5 DEF ControllerStep, CachesSynced

\* Every process that is up hears of a change.
LEMMA ChangeStep ==
  ASSUME LInv, NEW k \in Keys, Change(k)
  PROVE  LInv'
<1>1. /\ proc \in [Processes -> Process] /\ outdated \subseteq Keys /\ Counters
      /\ \A p \in Processes : Well(p)
  BY AllWell
<1>2. Counters' /\ outdated' \subseteq Keys
  <2>1. outdated' = outdated \cup {k}
    BY DEF Change
  <2>2. changes < MaxChanges /\ changes' = changes + 1 /\ faults' = faults
    BY DEF Change, NoFault
  <2>3. Counters'
    BY <1>1, <2>2, LifecycleAssumption DEF Counters
  <2> QED
    BY <1>1, <2>1, <2>3
<1>3. proc' \in [Processes -> Process]
  <2> SUFFICES ASSUME NEW p \in Processes
               PROVE  [proc[p] EXCEPT !.events = @ \cup {k}, !.current = @ \ {k}] \in Process
    BY <1>1 DEF Change
  <2>1. proc[p] \in Process
    BY <1>1
  <2> QED
    BY <2>1 DEF Process
<1>4. ASSUME NEW p \in Processes PROVE Well(p)'
  <2>1. proc[p] \in Process /\ Well(p)
    BY <1>1
  <2>2. proc'[p] = IF proc[p].main = "down" THEN proc[p]
                   ELSE [proc[p] EXCEPT !.events = @ \cup {k}, !.current = @ \ {k}]
    BY DEF Change
  <2>3. elector' = elector /\ outdated' = outdated \cup {k}
    BY DEF Change, electionVars
  <2> QED
    BY <2>1, <2>2, <2>3 DEF Well, InOrder, Stage, Process
<1>5. ASSUME NEW p \in Processes PROVE Staffed(p)'
  <2>1. proc[p] \in Process /\ StaffedAs(proc[p])
    BY <1>1, AllWell DEF Staffed
  <2>2. SameStaff(proc[p], proc'[p])
    BY <2>1 DEF Change, SameStaff, Process
  <2> QED
    BY <2>1, <2>2, StaffedStays DEF Staffed
<1> HIDE DEF Counters
<1> QED
  BY <1>2, <1>3, <1>4, <1>5 DEF LInv, LTypeOK, RunLeavesNothing, NothingIsMissed, Well, Counters

-----------------------------------------------------------------------------
(***************************************************************************)
(* The steps of the election, and the ends of a process.                   *)
(***************************************************************************)
\* A step that leaves what the process keeps itself, but may move its elector.
LEMMA ElectorMoves ==
  ASSUME LInv, NEW p \in Processes, UNCHANGED <<proc, Cluster>>, Fault \/ NoFault,
         \A q \in Processes \ {p} : elector'[q] = elector[q],
         elector'[p] # "out" <=> elector[p] # "out",
         elector[p] \in Led => elector'[p] \in Led
  PROVE  LInv'
<1>1. proc \in [Processes -> Process] /\ Well(p) /\ Counters
  BY AllWell
<1>2. Counters'
  BY <1>1, LifecycleAssumption DEF Counters, Fault, NoFault, Cluster
<1>3. Well(p)'
  BY <1>1 DEF Well, InOrder, Stage, Cluster
<1>4. outdated' \subseteq outdated
  BY DEF Cluster
<1>5. Staffed(p)'
  BY AllWell DEF Staffed
<1> QED
  BY <1>1, <1>2, <1>3, <1>4, <1>5, OneMoves

\* A process that is gone has nothing that could be out of order.
LEMMA GoneStep ==
  ASSUME LInv, EInv, NEW p \in Processes, Gone(p), Fault \/ NoFault
  PROVE  LInv'
<1>1. proc \in [Processes -> Process] /\ Counters
  BY AllWell
<1>2. Down \in Process
  BY DownIsProcess
<1>3. /\ proc' \in [Processes -> Process]
      /\ \A q \in Processes \ {p} : proc'[q] = proc[q]
      /\ proc'[p] = Down
  BY <1>1, <1>2 DEF Gone
<1>4. Counters' /\ outdated' = outdated
  BY <1>1, LifecycleAssumption DEF Counters, Fault, NoFault, Gone, Cluster
<1>5. elector' = [elector EXCEPT ![p] = "out"]
  BY DEF Gone, Leave, GoesTo
<1>6. /\ elector'[p] = "out"
      /\ \A q \in Processes \ {p} : elector'[q] = elector[q]
  BY <1>5 DEF EInv, ElectionTypeOK
<1>7. Well(p)'
  BY <1>3, <1>6 DEF Well, InOrder, Stage, Down, Keys, Of
<1>8. Staffed(p)'
  BY <1>3, DownIsStaffed DEF Staffed
<1> QED
  BY <1>3, <1>4, <1>6, <1>7, <1>8, OneMoves

LEMMA SyncStep ==
  ASSUME LInv, EInv, NEW p \in Processes, Sync(p)
  PROVE  LInv'
<1> DEFINE r == [proc[p] EXCEPT !.main = "running"]
<1>1. proc \in [Processes -> Process] /\ Well(p) /\ Counters
  BY AllWell
<1>2. r \in Process /\ proc' = [proc EXCEPT ![p] = r]
  <2>1. proc[p] \in Process
    BY <1>1
  <2>2. r \in Process
    BY <2>1 DEF Process
  <2> QED
    BY <1>1, <2>2 DEF Sync
<1>3. proc'[p] = r
  BY <1>1, <1>2
<1>4. Counters' /\ outdated' = outdated
  BY <1>1 DEF Sync, Counters, NoFault, Cluster
<1>5. /\ elector[p] = "out" /\ elector'[p] = "electing"
      /\ \A q \in Processes \ {p} : elector'[q] = elector[q]
  BY DEF Sync, Join, GoesTo, EInv, ElectionTypeOK
<1>6. Well(p)'
  BY <1>1, <1>3, <1>4, <1>5 DEF Sync, Well, InOrder, Stage, Process, Led
<1>7. Staffed(p)'
  <2>1. SameStaff(proc[p], proc'[p])
    BY <1>1, <1>3 DEF SameStaff, Process
  <2> QED
    BY <2>1, AllWell, StaffedStays DEF Staffed
<1> QED
  BY <1>1, <1>2, <1>4, <1>5, <1>6, <1>7, OneMoves

\* The first answer makes the callback due, and the process a leader.
LEMMA LeadStep ==
  ASSUME LInv, EInv, NEW p \in Processes, Lead(p)
  PROVE  LInv'
<1> DEFINE r == [proc[p] EXCEPT !.callback = "due"]
<1>1. proc \in [Processes -> Process] /\ Well(p) /\ Counters
  BY AllWell
<1>2. Counters' /\ outdated' = outdated
  BY <1>1 DEF Lead, Counters, NoFault, Cluster
<1>3. /\ elector[p] \in {"electing", "leading"} /\ elector'[p] = "leading"
      /\ \A q \in Processes \ {p} : elector'[q] = elector[q]
  BY DEF Lead, Answered, GoesTo, EInv, ElectionTypeOK
<1>4. CASE elector[p] = "electing"
  <2>1. r \in Process /\ proc' = [proc EXCEPT ![p] = r]
    <3>1. proc[p] \in Process
      BY <1>1
    <3>2. r \in Process
      BY <3>1 DEF Process
    <3> QED
      BY <1>1, <1>4, <3>2 DEF Lead
  <2>2. proc'[p] = r
    BY <1>1, <2>1
  <2>3. proc[p].callback = "none"
    BY <1>1, <1>4 DEF Well, InOrder, Led
  <2>4. Well(p)'
    BY <1>1, <1>2, <1>3, <1>4, <2>2, <2>3 DEF Well, InOrder, Stage, Process, Led, Keys, Of
  <2>5. SameStaff(proc[p], proc'[p])
    BY <1>1, <2>2 DEF SameStaff, Process
  <2>6. Staffed(p)'
    BY <2>5, AllWell, StaffedStays DEF Staffed
  <2> QED
    BY <1>1, <1>2, <1>3, <2>1, <2>4, <2>6, OneMoves
<1>5. CASE elector[p] = "leading"
  <2>1. proc' = proc
    BY <1>5 DEF Lead
  <2>2. Well(p)'
    BY <1>1, <1>2, <1>3, <1>5, <2>1 DEF Well, InOrder, Stage, Led
  <2>3. Staffed(p)'
    BY <2>1, AllWell DEF Staffed
  <2> QED
    BY <1>1, <1>2, <1>3, <2>1, <2>2, <2>3, OneMoves
<1> QED
  BY <1>3, <1>4, <1>5

\* The other steps of the election.
LEMMA ElectionSteps ==
  ASSUME LInv, EInv, NEW p \in Processes,
         Renew(p) \/ LoseAnswer(p) \/ MissDeadline(p) \/ LoseLease(p) \/ StopElector(p) \/ ReleaseLock(p)
  PROVE  LInv'
<1> USE DEF EInv, ElectionTypeOK, GoesTo, Led, Places
<1>1. CASE Renew(p)
  BY <1>1, ElectorMoves DEF Renew, Update
<1>2. CASE LoseAnswer(p)
  BY <1>2, ElectorMoves DEF LoseAnswer, Unanswered
<1>3. CASE MissDeadline(p)
  BY <1>3, ElectorMoves DEF MissDeadline, GiveUp
<1>4. CASE StopElector(p)
  BY <1>4, ElectorMoves DEF StopElector, CancelElector
<1>5. CASE ReleaseLock(p)
  BY <1>5, ElectorMoves DEF ReleaseLock, Release
<1>6. CASE LoseLease(p)
  BY <1>6, ElectorMoves DEF LoseLease, GiveUp
<1> QED
  BY <1>1, <1>2, <1>3, <1>4, <1>5, <1>6

-----------------------------------------------------------------------------
LEMMA LifecycleStep == LInv /\ EInv /\ [LNext]_lifeVars => LInv'
<1> SUFFICES ASSUME LInv, EInv, [LNext]_lifeVars PROVE LInv'
  OBVIOUS
<1>1. ASSUME NEW p \in Processes, MainStep(p) PROVE LInv'
  BY <1>1, StartStep, SyncStep, GoneStep, ElectionSteps
  DEF MainStep, FailToSync, Exit
<1>2. ASSUME NEW p \in Processes, ElectorStep(p) \/ StopElector(p) PROVE LInv'
  BY <1>2, ElectionSteps, LeadStep DEF ElectorStep
<1>3. ASSUME NEW p \in Processes, FaultStep(p) PROVE LInv'
  BY <1>3, SignalStep, TaskFailsStep, GoneStep, ElectionSteps
  DEF FaultStep, Crash, SecondSignal
<1>4. ASSUME NEW p \in Processes, OnStartedLeading(p) \/ LostLeadership(p) PROVE LInv'
  BY <1>4, OnStartedLeadingStep, LostLeadershipStep
<1>5. ASSUME NEW p \in Processes, NEW c \in Controllers, ControllerStep(p, c) PROVE LInv'
  BY <1>5, ControllerStepKeeps
<1>6. ASSUME NEW p \in Processes, NEW k \in Keys,
             Handle(p, k) \/ WorkerStep(p, k) \/ Fail(p, k) \/ AddDelayed(p, k)
      PROVE  LInv'
  BY <1>6, HandleStep, BeginStep, SucceedStep, FailStep, AddDelayedStep DEF WorkerStep
<1>7. ASSUME NEW k \in Keys, Change(k) PROVE LInv'
  BY <1>7, ChangeStep
<1>8. CASE Pass
  <2>1. UNCHANGED <<proc, Cluster, elector>> /\ (Fault \/ NoFault)
    BY <1>8 DEF Pass, Tick
  <2>2. Counters'
    BY <2>1, AllWell, LifecycleAssumption DEF Counters, Fault, NoFault, Cluster
  <2> HIDE DEF Counters
  <2> QED
    BY <2>1, <2>2 DEF Cluster, LInv, LTypeOK, Counters, InOrder, Staffed, RunLeavesNothing,
                      NothingIsMissed, Stage
<1>9. CASE UNCHANGED lifeVars
  BY <1>9 DEF lifeVars, electionVars, LInv, LTypeOK, InOrder, Staffed, RunLeavesNothing,
              NothingIsMissed, Stage
<1> QED
  BY <1>1, <1>2, <1>3, <1>4, <1>5, <1>6, <1>7, <1>8, <1>9 DEF LNext

\* The invariant holds of every run of the processes.
THEOREM LifecycleInvariant == LSpec => [](LInv /\ EInv)
<1>1. LSpec => []EInv
  BY LifecycleIsElection, ElectionInvariant, PTL
<1>2. LSpec => []LInv
  BY <1>1, LifecycleStarts, LifecycleStep, PTL DEF LSpec
<1> QED
  BY <1>1, <1>2, PTL

\* The processes stay processes.
THEOREM LifecycleTypes == LSpec => []LTypeOK
<1>1. LInv => LTypeOK
  BY DEF LInv
<1> QED
  BY <1>1, LifecycleInvariant, PTL

\* Whatever the number of processes and the durations, two of them reconcile at
\* the same time only while one has lost or given up the lead and is exiting, or
\* leads on a lease that has run out.
THEOREM OnlyLeadersWork == LSpec => []OneLeaderWorks
<1>1. LInv /\ EInv => OneLeaderWorks
  <2> SUFFICES ASSUME LInv, EInv, NEW p \in Processes, NEW q \in Processes, p # q,
                      proc[p].processing # {}, proc[q].processing # {}
               PROVE  \E r \in {p, q} : elector[r] \in {"releasing", "left"} \/ Overdue(r)
    BY DEF OneLeaderWorks
  <2>1. ASSUME NEW s \in Processes, proc[s].processing # {} PROVE elector[s] \in Led
    <3>1. proc[s] \in Process /\ InOrder(s)
      BY DEF LInv, LTypeOK
    <3>2. PICK k \in proc[s].processing : Stage(s, k) \in {"running", "stopping"}
      BY <2>1, <3>1 DEF InOrder
    <3>3. Of(k) \in Controllers
      BY <3>1, <3>2 DEF Process, Keys, Of
    <3> QED
      BY <3>1, <3>2, <3>3 DEF InOrder, Stage
  <2>2. elector[p] = "leading" /\ elector[q] = "leading" => Overdue(p) \/ Overdue(q)
    BY OneHolder DEF OneValidLease
  <2> QED
    BY <2>1, <2>2 DEF Led
<1> QED
  BY <1>1, LifecycleInvariant, PTL

\* A controller whose workers have returned, one after the other, leaves an empty
\* queue, and so does Run.
THEOREM RunDrains == LSpec => []RunLeavesNothing
<1>1. LInv => RunLeavesNothing
  BY DEF LInv
<1> QED
  BY <1>1, LifecycleInvariant, PTL

\* No process that is up and not cancelled misses a change that is still to be
\* reconciled, so whichever leads next knows of it.
THEOREM EveryoneIsPrepared == LSpec => []NothingIsMissed
<1>1. LInv => NothingIsMissed
  BY DEF LInv
<1> QED
  BY <1>1, LifecycleInvariant, PTL
=============================================================================
