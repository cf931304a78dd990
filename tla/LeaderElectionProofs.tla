------------------------ MODULE LeaderElectionProofs ------------------------
(***************************************************************************)
(* That two processes never both lead on leases that have not run out, for *)
(* any number of processes and any durations.                              *)
(***************************************************************************)
EXTENDS LeaderElection, TLAPS

-----------------------------------------------------------------------------
(***************************************************************************)
(* The inductive invariant.  A leader's lease is no younger than the lock, *)
(* if the lock is its own, and has run out if it is not.                   *)
(***************************************************************************)
\* What a write of p that is n ticks old says of the lock.
Wrote(p, n) == IF holder = Identity(p) THEN age <= n ELSE LeaseDuration <= n

\* The lease is older than the leader thinks by one answer at most.
LeadersHold ==
  \A p \in Processes : elector[p] = "leading" =>
     Wrote(p, lease[p]) /\ lease[p] <= since[p] + AnswerDelay

\* The write of a call that is not answered yet may come to be a lease.
AskersHold ==
  \A p \in Processes : asked[p] # NotAsked =>
     elector[p] \in {"electing", "leading"} /\ Wrote(p, asked[p])

EInv == ElectionTypeOK /\ LeadersHold /\ AskersHold

-----------------------------------------------------------------------------
\* Every election starts with the invariant.
LEMMA ElectionStarts == EInit => EInv
  BY ElectionAssumption DEF EInit, EInv, ElectionTypeOK, LeadersHold, AskersHold, Places, NotAsked, Wrote

\* Each action keeps the types.
LEMMA ElectionTypeStep == EInv /\ [ENext]_electionVars => ElectionTypeOK'
<1> SUFFICES ASSUME EInv, [ENext]_electionVars PROVE ElectionTypeOK'
  OBVIOUS
<1> USE ElectionAssumption DEF EInv, ElectionTypeOK, NotAsked, Places, GoesTo
<1>1. ASSUME NEW p \in Processes, Join(p) PROVE ElectionTypeOK'
  BY <1>1 DEF Join
<1>2. ASSUME NEW p \in Processes, Update(p) PROVE ElectionTypeOK'
  BY <1>2 DEF Update
<1>3. ASSUME NEW p \in Processes, Answered(p) PROVE ElectionTypeOK'
  <2>1. asked[p] \in 0 .. GiveUpAfter + AnswerDelay
    BY <1>3 DEF Answered
  <2> QED
    BY <1>3, <2>1 DEF Answered
<1>4. ASSUME NEW p \in Processes, Unanswered(p) PROVE ElectionTypeOK'
  BY <1>4 DEF Unanswered
<1>5. ASSUME NEW p \in Processes, GiveUp(p) PROVE ElectionTypeOK'
  BY <1>5 DEF GiveUp
<1>6. ASSUME NEW p \in Processes, CancelElector(p) PROVE ElectionTypeOK'
  BY <1>6 DEF CancelElector
<1>7. ASSUME NEW p \in Processes, Release(p) PROVE ElectionTypeOK'
  BY <1>7 DEF Release
<1>8. ASSUME NEW p \in Processes, Leave(p) PROVE ElectionTypeOK'
  BY <1>8 DEF Leave
<1>9. CASE Tick
  <2>1. age' \in 0 .. LeaseDuration
    BY <1>9 DEF Tick
  <2>2. since' \in [Processes -> 0 .. GiveUpAfter]
    BY <1>9 DEF Tick
  <2>3. asked' \in [Processes -> NotAsked .. AnswerDelay]
    BY <1>9 DEF Tick
  <2>4. lease' \in [Processes -> 0 .. GiveUpAfter + AnswerDelay]
    <3>1. ASSUME NEW p \in Processes, elector[p] = "leading"
          PROVE  lease[p] + 1 \in 0 .. GiveUpAfter + AnswerDelay
      <4>1. lease[p] <= since[p] + AnswerDelay /\ since[p] < GiveUpAfter
        BY <1>9, <3>1 DEF Tick, LeadersHold
      <4> QED
        BY <4>1
    <3> QED
      BY <1>9, <3>1 DEF Tick
  <2> QED
    BY <1>9, <2>1, <2>2, <2>3, <2>4 DEF Tick
<1>10. CASE UNCHANGED electionVars
  BY <1>10 DEF electionVars
<1> QED
  BY <1>1, <1>2, <1>3, <1>4, <1>5, <1>6, <1>7, <1>8, <1>9, <1>10 DEF ENext

\* Nobody but the one who wrote the lock may take it before it has run out, so
\* a write that another one follows is as old as a lease.
LEMMA TakenIsOld ==
  ASSUME EInv, NEW p \in Processes, NEW q \in Processes, p # q, Update(p),
         NEW n \in Nat, Wrote(q, n)
  PROVE  LeaseDuration <= n /\ Wrote(q, n)'
<1> USE ElectionAssumption DEF EInv, ElectionTypeOK
<1>1. Identity(p) # Identity(q) /\ Identity(q) # Nobody
  BY DEF Identity
<1>2. LeaseDuration <= n
  BY <1>1 DEF Update, MayTake, Wrote
<1>3. holder' = Identity(p) /\ Identity(q)' = Identity(q)
  BY DEF Update, Identity
<1> QED
  BY <1>1, <1>2, <1>3 DEF Wrote

\* What the invariant says of one process.
Holds(q) ==
  /\ elector[q] = "leading" => Wrote(q, lease[q]) /\ lease[q] <= since[q] + AnswerDelay
  /\ asked[q] # NotAsked => elector[q] \in {"electing", "leading"} /\ Wrote(q, asked[q])

\* A step of one process leaves what the invariant says of the others.
LEMMA HoldStep == EInv /\ [ENext]_electionVars => (LeadersHold /\ AskersHold)'
<1> SUFFICES ASSUME EInv, [ENext]_electionVars, NEW q \in Processes PROVE Holds(q)'
  BY DEF LeadersHold, AskersHold, Holds, NotAsked
<1>0. Holds(q)
  BY DEF EInv, LeadersHold, AskersHold, Holds
<1> USE ElectionAssumption DEF EInv, ElectionTypeOK, NotAsked, Places, GoesTo
<1>1. ASSUME NEW p \in Processes, Join(p) PROVE Holds(q)'
  BY <1>0, <1>1 DEF Join, Holds, Wrote, Identity
<1>2. ASSUME NEW p \in Processes, Update(p) PROVE Holds(q)'
  <2>1. CASE p = q
    BY <1>0, <1>2, <2>1 DEF Update, Holds, Wrote, Identity
  <2>2. CASE p # q
    <3>1. /\ elector'[q] = elector[q] /\ lease'[q] = lease[q] /\ since'[q] = since[q]
          /\ asked'[q] = asked[q]
      BY <1>2, <2>2 DEF Update
    <3>2. elector[q] = "leading" => Wrote(q, lease[q])'
      <4>1. PICK n \in Nat : n = lease[q]
        OBVIOUS
      <4> QED
        BY <1>0, <1>2, <2>2, <3>1, <4>1, TakenIsOld DEF Holds
    <3>3. asked[q] # NotAsked => Wrote(q, asked[q])'
      <4>1. SUFFICES ASSUME asked[q] # NotAsked PROVE Wrote(q, asked[q])'
        OBVIOUS
      <4>2. PICK n \in Nat : n = asked[q]
        BY <4>1
      <4> QED
        BY <1>0, <1>2, <2>2, <3>1, <4>1, <4>2, TakenIsOld DEF Holds
    <3> QED
      BY <1>0, <3>1, <3>2, <3>3 DEF Holds
  <2> QED
    BY <2>1, <2>2
<1>3. ASSUME NEW p \in Processes, Answered(p) PROVE Holds(q)'
  <2>1. asked[p] \in 0 .. AnswerDelay
    BY <1>3 DEF Answered
  <2> QED
    BY <1>0, <1>3, <2>1 DEF Answered, Holds, Wrote, Identity
<1>4. ASSUME NEW p \in Processes, Unanswered(p) PROVE Holds(q)'
  BY <1>0, <1>4 DEF Unanswered, Holds, Wrote, Identity
<1>5. ASSUME NEW p \in Processes, GiveUp(p) PROVE Holds(q)'
  BY <1>0, <1>5 DEF GiveUp, Holds, Wrote, Identity
<1>6. ASSUME NEW p \in Processes, CancelElector(p) PROVE Holds(q)'
  BY <1>0, <1>6 DEF CancelElector, Holds, Wrote, Identity
<1>7. ASSUME NEW p \in Processes, Release(p) PROVE Holds(q)'
  <2>1. p = q \/ Identity(p) # Identity(q)
    BY DEF Identity
  <2>2. p = q => asked[q] = NotAsked
    BY <1>0, <1>7 DEF Release, Holds
  <2>3. Identity(q)' = Identity(q) /\ (holder' = holder \/ (holder = Identity(p) /\ holder' = Nobody))
    BY <1>7 DEF Release, Identity
  <2>4. p # q /\ holder = Identity(q) => holder' = holder
    BY <2>1, <2>3
  <2>5. Identity(q) # Nobody
    BY DEF Identity
  <2> QED
    BY <1>0, <1>7, <2>2, <2>3, <2>4, <2>5 DEF Release, Holds, Wrote
<1>8. ASSUME NEW p \in Processes, Leave(p) PROVE Holds(q)'
  BY <1>0, <1>8 DEF Leave, Holds, Wrote, Identity
<1>9. CASE Tick
  <2>1. holder' = holder /\ Identity(q)' = Identity(q) /\ age' <= age + 1
    BY <1>9 DEF Tick, Identity
  <2> QED
    BY <1>0, <1>9, <2>1 DEF Tick, Holds, Wrote
<1>10. CASE UNCHANGED electionVars
  BY <1>0, <1>10 DEF electionVars, Holds, Wrote, Identity
<1> QED
  BY <1>1, <1>2, <1>3, <1>4, <1>5, <1>6, <1>7, <1>8, <1>9, <1>10 DEF ENext

\* Of two leaders one does not have its name in the lock, and its lease has run
\* out.
LEMMA OneHolder == EInv => OneValidLease
  BY DEF EInv, LeadersHold, Wrote, OneValidLease, Overdue, Identity

-----------------------------------------------------------------------------
\* The invariant holds of every election.
THEOREM ElectionInvariant == ESpec => []EInv
<1>1. EInv /\ [ENext]_electionVars => EInv'
  BY ElectionTypeStep, HoldStep DEF EInv
<1> QED
  BY ElectionStarts, <1>1, PTL DEF ESpec

\* Two processes never both lead on leases that have not run out, whatever the
\* durations and however late the answers.
THEOREM OneLease == ESpec => []OneValidLease
  BY ElectionInvariant, OneHolder, PTL

\* A leader whose deadline and answer fit into its lease is never overdue.
LEMMA FittingIsNotOverdue ==
  ASSUME GiveUpAfter + AnswerDelay < LeaseDuration
  PROVE  EInv => \A p, q \in Processes :
                    elector[p] = "leading" /\ elector[q] = "leading" => p = q
<1> SUFFICES ASSUME EInv, NEW p \in Processes, elector[p] = "leading" PROVE ~Overdue(p)
  BY OneHolder DEF OneValidLease
<1>1. lease[p] \in 0 .. GiveUpAfter + AnswerDelay
  BY DEF EInv, ElectionTypeOK
<1> QED
  BY <1>1, ElectionAssumption DEF Overdue

\* With durations that leave the lease room for the answer (a timeout of less
\* than 3 seconds, or a lease of more than 22) one process leads at most.
COROLLARY OneLeader ==
  ASSUME GiveUpAfter + AnswerDelay < LeaseDuration
  PROVE  ESpec => [](\A p, q \in Processes :
                       elector[p] = "leading" /\ elector[q] = "leading" => p = q)
  BY ElectionInvariant, FittingIsNotOverdue, PTL
=============================================================================
