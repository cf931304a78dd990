----------------------------- MODULE LeaderElection -----------------------------
(***************************************************************************)
(* The leader election main.go sets up: client-go's LeaderElector over a   *)
(* lock that names its holder, with ReleaseOnCancel.  client-go is not     *)
(* part of this repository; what it does is modelled as far as main.go and *)
(* leaderelection.go configure and use it.                                 *)
(*                                                                         *)
(* Time is a number of ticks.  A call that renews the lease takes effect   *)
(* at the API server first and is answered later.  The elector counts from *)
(* the answer and the other candidates from the write, so that a leader    *)
(* may still believe that it leads when its lease may be taken.            *)
(*                                                                         *)
(* An operator whose name starts with Bug is a plausible mistake in the    *)
(* definition that follows it; no specification uses it.                   *)
(***************************************************************************)
EXTENDS Integers

CONSTANTS
  Processes,      \* replicas of the StatefulSet
  Nobody,         \* the holder of a lease that was released
  LeaseDuration,  \* ticks a candidate waits after the last renewal it saw
  GiveUpAfter,    \* RetryPeriod and RenewDeadline: ticks from an answer to the
                  \* instant the leader stops trying
  AnswerDelay     \* ticks an answer takes at most: the client's timeout

\* Nothing is assumed of how the durations compare: by default a lease of 15
\* seconds is given up 12 seconds after an answer that may take 10 (main.go:93).
ASSUME ElectionAssumption ==
  /\ LeaseDuration \in Nat /\ GiveUpAfter \in Nat /\ AnswerDelay \in Nat
  /\ Nobody \notin Processes \X Nat

VARIABLES
  elector,   \* per process: place in elector.Run
  life,      \* per process: how often it has been started
  holder,    \* the identity in the lock
  age,       \* ticks since the lock was written, up to LeaseDuration
  since,     \* per leader: ticks since an answer told it that it leads
  asked,     \* per process: ticks since its call took effect, or NotAsked
  lease      \* per leader: ticks since the write that made it lead

electionVars == <<elector, life, holder, age, since, asked, lease>>

NotAsked == -1
Places == {"out", "electing", "leading", "releasing", "left"}

\* The lock is there from an earlier installation, or is not and held by nobody.
EInit ==
  /\ elector = [p \in Processes |-> "out"]
  /\ life = [p \in Processes |-> 0]
  /\ holder = Nobody
  /\ age = LeaseDuration
  /\ since = [p \in Processes |-> 0]
  /\ asked = [p \in Processes |-> NotAsked]
  /\ lease = [p \in Processes |-> 0]

\* Hostname and a new UUID: no two lives of any process share it.
Identity(p) == <<p, life[p]>>

GoesTo(p, place) == elector' = [elector EXCEPT ![p] = place]

-----------------------------------------------------------------------------
Join(p) ==
  /\ elector[p] = "out"
  /\ GoesTo(p, "electing")
  /\ life' = [life EXCEPT ![p] = @ + 1]
  /\ UNCHANGED <<holder, age, since, asked, lease>>

BugMayTake(p) == holder = Nobody \/ holder = Identity(p) \/ age >= GiveUpAfter

MayTake(p) == holder = Nobody \/ holder = Identity(p) \/ age >= LeaseDuration

\* tryAcquireOrRenew takes effect: the lock is written.
Update(p) ==
  /\ elector[p] \in {"electing", "leading"}
  /\ asked[p] = NotAsked
  /\ MayTake(p)
  /\ holder' = Identity(p)
  /\ age' = 0
  /\ asked' = [asked EXCEPT ![p] = 0]
  /\ UNCHANGED <<elector, life, since, lease>>

\* It is answered; a candidate becomes the leader.
Answered(p) ==
  /\ elector[p] \in {"electing", "leading"}
  /\ asked[p] # NotAsked
  /\ GoesTo(p, "leading")
  /\ since' = [since EXCEPT ![p] = 0]
  /\ lease' = [lease EXCEPT ![p] = asked[p]]
  /\ asked' = [asked EXCEPT ![p] = NotAsked]
  /\ UNCHANGED <<life, holder, age>>

\* The answer is lost, or too late to be waited for.
Unanswered(p) ==
  /\ asked[p] # NotAsked
  /\ asked' = [asked EXCEPT ![p] = NotAsked]
  /\ UNCHANGED <<elector, life, holder, age, since, lease>>

\* The leader has not renewed by its deadline.
GiveUp(p) ==
  /\ elector[p] = "leading"
  /\ since[p] = GiveUpAfter
  /\ GoesTo(p, "releasing")
  /\ asked' = [asked EXCEPT ![p] = NotAsked]
  /\ UNCHANGED <<life, holder, age, since, lease>>

BugCancelElector(p) == FALSE   \* elector.Run has a context of its own

\* The context is cancelled.  A candidate leaves, a leader releases first.
CancelElector(p) ==
  /\ \/ elector[p] = "electing" /\ GoesTo(p, "left")
     \/ elector[p] = "leading" /\ GoesTo(p, "releasing")
  /\ asked' = [asked EXCEPT ![p] = NotAsked]
  /\ UNCHANGED <<life, holder, age, since, lease>>

\* release: the lock is given up, or the call fails and the lock is left as it
\* is; then OnStoppedLeading is called and elector.Run returns.
Release(p) ==
  /\ elector[p] = "releasing"
  /\ \/ holder = Identity(p) /\ holder' = Nobody
     \/ UNCHANGED holder
  /\ GoesTo(p, "left")
  /\ UNCHANGED <<life, age, since, asked, lease>>

\* The process ends, wherever it is.
Leave(p) ==
  /\ GoesTo(p, "out")
  /\ asked' = [asked EXCEPT ![p] = NotAsked]
  /\ UNCHANGED <<life, holder, age, since, lease>>

\* No leader is past its deadline, and an answer that is later than the timeout
\* is lost.
Tick ==
  /\ \A p \in Processes : /\ elector[p] = "leading" => since[p] < GiveUpAfter
                          /\ asked[p] < AnswerDelay
  /\ age' = IF age < LeaseDuration THEN age + 1 ELSE age
  /\ since' = [p \in Processes |-> IF elector[p] = "leading" THEN since[p] + 1 ELSE 0]
  /\ lease' = [p \in Processes |-> IF elector[p] = "leading" THEN lease[p] + 1 ELSE 0]
  /\ asked' = [p \in Processes |-> IF asked[p] = NotAsked THEN NotAsked ELSE asked[p] + 1]
  /\ UNCHANGED <<elector, life, holder>>

ENext ==
  \/ \E p \in Processes :
        \/ Join(p) \/ Update(p) \/ Answered(p) \/ Unanswered(p)
        \/ GiveUp(p) \/ CancelElector(p) \/ Release(p) \/ Leave(p)
  \/ Tick

ESpec == EInit /\ [][ENext]_electionVars

-----------------------------------------------------------------------------
\* The places are places, and a leader is not past its deadline.
ElectionTypeOK ==
  /\ elector \in [Processes -> Places]
  /\ life \in [Processes -> Nat]
  /\ age \in 0 .. LeaseDuration
  /\ since \in [Processes -> 0 .. GiveUpAfter]
  /\ asked \in [Processes -> NotAsked .. AnswerDelay]
  /\ lease \in [Processes -> 0 .. GiveUpAfter + AnswerDelay]

\* A leader whose lease has run out without its knowing it.
Overdue(p) == elector[p] = "leading" /\ lease[p] >= LeaseDuration

\* At most one process leads on a lease that has not run out: whatever answers
\* are late or lost, however often processes end and start, a second leader
\* comes only when the lease of the first is over (main.go:180-184).
OneValidLease ==
  \A p, q \in Processes :
     elector[p] = "leading" /\ elector[q] = "leading" /\ p # q => Overdue(p) \/ Overdue(q)
=================================================================================
