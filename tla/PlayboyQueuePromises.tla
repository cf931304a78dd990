-------------------------- MODULE PlayboyQueuePromises --------------------------
(***************************************************************************)
(* What PlayboyQueue promises the goroutines that call it: a fresh key is  *)
(* not left beside a sleeping taker, a shutdown leaves no key behind, and  *)
(* a delay is neither cut short nor lengthened.                            *)
(***************************************************************************)
EXTENDS PlayboyQueueProofs, FiniteSetTheorems

-----------------------------------------------------------------------------
(***************************************************************************)
(* Wakeups.  Takers and drainers share one condition variable, and Signal  *)
(* wakes the oldest waiter, whoever it is.  It is never wasted on a        *)
(* drainer while a taker sleeps: drainers come with the shutdown, whose    *)
(* Broadcast has woken every taker for good.                               *)
(***************************************************************************)
WaitersInv ==
  /\ IsInjective(waiters)
  /\ IsFiniteSet(Getting)
  /\ \A p \in ToSet(waiters) : p \in Getting \/ pc[p] = "drain"
  /\ \A p \in Procs : pc[p] = "drain" => shuttingDown
  /\ shuttingDown => \A p \in Getting : ~Asleep(p)

WakeInv == TypeOK /\ WaitersInv

\* Callers on their way to the queues.
Awake == {p \in Getting : ~Asleep(p)}

\* While a taker sleeps, n keys have a taker each.
TakersFor(n) == (\E p \in Getting : Asleep(p)) => n <= Cardinality(Awake)

LEMMA AwakeSize ==
  ASSUME IsFiniteSet(Getting)
  PROVE  IsFiniteSet(Awake) /\ Cardinality(Awake) \in Nat
BY FS_Subset, FS_CardinalityType DEF Awake

LEMMA WaitersAreProcs ==
  ASSUME TypeOK
  PROVE  /\ waiters \in Seq(Procs)
         /\ ToSet(waiters) \subseteq Procs
<1>1. waiters \in Seq(Procs)
  BY DEF TypeOK, CondTypeOK
<1>2. ToSet(waiters) \subseteq Procs
  BY <1>1, ElementOfSeq, LenProperties DEF ToSet
<1> QED  BY <1>1, <1>2

(***************************************************************************)
(* The classes of steps.                                                   *)
(***************************************************************************)
\* Nobody begins or ends to be a taker, and nobody who sleeps moves.
CallersStay ==
  /\ Getting' = Getting
  /\ \A p \in ToSet(waiters) : pc'[p] = pc[p]
  /\ \A p \in Procs : pc'[p] = "drain" => pc[p] = "drain"
  /\ shuttingDown' = shuttingDown

\* Neither the queues nor the waiters change.
Quiet == CallersStay /\ UNCHANGED <<queueFresh, queueStaled, waiters>>

\* A key is pushed.
Pushes == CallersStay /\ \E i \in Items, fresh \in BOOLEAN : Push(i, fresh)

\* p takes a key, and leaves the takers if it was one.
Takes(p) ==
  /\ p \notin ToSet(waiters)
  /\ pc[p] \in {"idle", "get", "getFresh"}
  /\ TakeFresh(p) \/ (queueFresh = <<>> /\ TakeStaled(p))
  /\ UNCHANGED shuttingDown

\* p finds nothing to take; only a GetFresh passes over a staled key.
FindsNothing(p) ==
  /\ p \notin ToSet(waiters)
  /\ pc[p] \in {"idle", "get", "getFresh"}
  /\ queueFresh = <<>>
  /\ p \in FreshGetters \/ queueStaled = <<>>
  /\ WaitOrReturn(p, "get") \/ WaitOrReturn(p, "getFresh")
  /\ UNCHANGED shuttingDown

\* The queue shuts down, or was shut down before.
Closes(p) ==
  /\ p \in Procs
  /\ pc[p] = "idle"
  /\ \E place \in {"returned", "drain"} : pc' = [pc EXCEPT ![p] = place]
  /\ shutDownOnce
  /\ UNCHANGED <<queueFresh, queueStaled>>

\* p waits for the keys in process.
DrainWaits(p) ==
  /\ pc[p] = "drain" /\ p \notin ToSet(waiters)
  /\ Wait(p)
  /\ UNCHANGED <<pc, shuttingDown, queueFresh, queueStaled>>

-----------------------------------------------------------------------------
\* An add is quiet or pushes.
LEMMA AddClass ==
  ASSUME CallersStay, NEW i \in Items, NEW fresh \in BOOLEAN, add(i, fresh)
  PROVE  Quiet \/ Pushes
<1>1. CASE UNCHANGED condVars
  BY <1>1 DEF Quiet, condVars
<1>2. CASE IF i \in processing
           THEN UNCHANGED <<queueFresh, queueStaled, waiters>>
           ELSE Push(i, fresh)
  BY <1>2 DEF Quiet, Pushes
<1> QED  BY <1>1, <1>2 DEF add

\* A goroutine that is not asleep moves between places outside of Get.
LEMMA MoveStays ==
  ASSUME WakeInv, NEW p \in Procs, pc[p] \notin {"get", "getFresh"}, ~Asleep(p),
         NEW place \in ProcPcs \ {"get", "getFresh", "drain"},
         pc' = [pc EXCEPT ![p] = place], shuttingDown' = shuttingDown
  PROVE  CallersStay
<1>1. pc \in [Procs -> ProcPcs]
  BY DEF WakeInv, TypeOK, ProcTypeOK
<1>2. \A q \in Procs : q # p => pc'[q] = pc[q]
  BY <1>1
<1>3. pc'[p] = place
  BY <1>1
<1>4. Getting' = Getting
  BY <1>2, <1>3 DEF Getting
<1>5. \A q \in ToSet(waiters) : pc'[q] = pc[q]
  BY <1>2, WaitersAreProcs DEF Asleep, WakeInv
<1> QED  BY <1>2, <1>3, <1>4, <1>5 DEF CallersStay

\* Who sleeps is in a Get, a GetFresh or a ShutDownWithDrain.
LEMMA OthersAwake ==
  ASSUME WakeInv, NEW p \in Procs, pc[p] \notin {"get", "getFresh", "drain"}
  PROVE  ~Asleep(p)
BY DEF WakeInv, WaitersInv, Getting, Asleep

\* The steps inside a call.
LEMMA CallClass ==
  ASSUME WakeInv, NEW p \in Procs, CallStep(p)
  PROVE  Quiet \/ Pushes \/ DrainWaits(p)
<1>1. CASE AddAfterIsFresh(p)
  <2>1. CallersStay
    BY <1>1, MoveStays, OthersAwake DEF AddAfterIsFresh, condVars, ProcPcs
  <2> QED  BY <1>1, <2>1 DEF AddAfterIsFresh, condVars, Quiet
<1>2. CASE AddAfterAdd(p)
  <2>1. call[p].item \in Items /\ call[p].fresh \in BOOLEAN
    BY <1>2 DEF AddAfterAdd, WakeInv, TypeOK, ProcTypeOK, Callers
  <2>2. shuttingDown' = shuttingDown
    BY <1>2 DEF AddAfterAdd, add, condVars
  <2>3. CallersStay
    BY <1>2, <2>2, MoveStays, OthersAwake DEF AddAfterAdd, ProcPcs
  <2> QED  BY <1>2, <2>1, <2>3, AddClass DEF AddAfterAdd
<1>3. CASE AddAfterSend(p)
  <2>1. CallersStay
    BY <1>3, MoveStays, OthersAwake DEF AddAfterSend, condVars, ProcPcs
  <2> QED  BY <1>3, <2>1 DEF AddAfterSend, condVars, Quiet
<1>4. CASE When(p)
  <2>1. CallersStay
    BY <1>4, MoveStays, OthersAwake DEF When, condVars, ProcPcs
  <2> QED  BY <1>4, <2>1 DEF When, condVars, Quiet
<1>5. CASE AddRateLimitedAfter(p)
  <2>1. \E place \in {"idle", "isFresh", "send"} : pc' = [pc EXCEPT ![p] = place]
    BY <1>5 DEF AddRateLimitedAfter, afterCheck
  <2>2. pc[p] = "addAfter" /\ UNCHANGED condVars
    BY <1>5 DEF AddRateLimitedAfter
  <2>3. CallersStay
    BY <2>1, <2>2, MoveStays, OthersAwake DEF condVars, ProcPcs
  <2> QED  BY <2>2, <2>3 DEF condVars, Quiet
<1>6. CASE waitForProcessing(p)
  <2>1. CASE pc' = [pc EXCEPT ![p] = "returned"] /\ UNCHANGED waiters
    <3>1. CallersStay
      BY <1>6, <2>1, MoveStays DEF waitForProcessing, ProcPcs
    <3> QED  BY <1>6, <2>1, <3>1 DEF waitForProcessing, Quiet
  <2>2. CASE Wait(p) /\ UNCHANGED pc
    BY <1>6, <2>2 DEF waitForProcessing, Asleep, DrainWaits
  <2> QED  BY <1>6, <2>1, <2>2 DEF waitForProcessing
<1> QED  BY <1>1, <1>2, <1>3, <1>4, <1>5, <1>6 DEF CallStep

\* The steps that leave every goroutine where it is.
LEMMA StillStays ==
  ASSUME pc' = pc, shuttingDown' = shuttingDown
  PROVE  CallersStay
BY DEF CallersStay, Getting

\* What Adders do from outside.
LEMMA AdderClass ==
  ASSUME WakeInv, NEW p \in Procs, NEW i \in Items,
         \/ Add(p, i)
         \/ \E d \in AddAfterDelays : AddAfter(p, i, d)
         \/ AddRateLimited(p, i)
         \/ Forget(p, i)
  PROVE  Quiet \/ Pushes
<1>1. CASE Add(p, i)
  <2>1. CallersStay
    BY <1>1, StillStays DEF Add, add, condVars, procVars
  <2> QED  BY <1>1, <2>1, AddClass DEF Add
<1>2. ASSUME NEW d \in AddAfterDelays, AddAfter(p, i, d)  PROVE Quiet
  <2>1. \E place \in {"idle", "isFresh", "send"} : pc' = [pc EXCEPT ![p] = place]
    BY <1>2 DEF AddAfter, afterCheck
  <2>2. pc[p] = "idle" /\ UNCHANGED condVars
    BY <1>2 DEF AddAfter
  <2>3. CallersStay
    BY <2>1, <2>2, MoveStays, OthersAwake DEF condVars, ProcPcs
  <2> QED  BY <2>2, <2>3 DEF condVars, Quiet
<1>3. CASE AddRateLimited(p, i)
  <2>1. CallersStay
    BY <1>3, MoveStays, OthersAwake DEF AddRateLimited, condVars, ProcPcs
  <2> QED  BY <1>3, <2>1 DEF AddRateLimited, condVars, Quiet
<1>4. CASE Forget(p, i)
  <2>1. CallersStay
    BY <1>4, StillStays DEF Forget, condVars, procVars
  <2> QED  BY <1>4, <2>1 DEF Forget, condVars, Quiet
<1> QED  BY <1>1, <1>2, <1>3, <1>4

\* The loop and the clock.
LEMMA LoopClass ==
  ASSUME WakeInv, LoopStep \/ LoopHeartbeat \/ Tick
  PROVE  Quiet \/ Pushes
<1>1. CASE LoopAdd
  <2>1. loop.item \in Items /\ loop.fresh \in BOOLEAN
    BY <1>1 DEF LoopAdd, WakeInv, TypeOK, DelayTypeOK
  <2>2. CallersStay
    BY <1>1, StillStays DEF LoopAdd, add, condVars, procVars
  <2> QED  BY <1>1, <2>1, <2>2, AddClass DEF LoopAdd
<1>2. CASE \/ LoopTop \/ LoopPop \/ LoopStop \/ LoopTimer \/ LoopReceive
           \/ LoopDrained \/ LoopHeartbeat \/ Tick
  <2>1. UNCHANGED <<condVars, pc>>
    BY <1>2 DEF LoopTop, LoopPop, LoopStop, LoopTimer, LoopReceive, LoopDrained,
                LoopHeartbeat, Tick, procVars
  <2> QED  BY <2>1, StillStays DEF condVars, Quiet
<1> QED  BY <1>1, <1>2 DEF LoopStep

\* Every step is of one of the classes.
LEMMA StepClass ==
  ASSUME WakeInv, [Next]_vars
  PROVE  \/ Quiet \/ Pushes
         \/ \E p \in Procs : Takes(p) \/ FindsNothing(p) \/ Closes(p) \/ DrainWaits(p)
<1> DEFINE Goal == \/ Quiet \/ Pushes
                   \/ \E p \in Procs : \/ Takes(p) \/ FindsNothing(p)
                                       \/ Closes(p) \/ DrainWaits(p)
<1>0. /\ Adders \subseteq Procs /\ Getters \subseteq Procs
      /\ FreshGetters \subseteq Procs /\ Closers \subseteq Procs
  BY DEF Procs
<1>1. ASSUME NEW p \in Procs, Get(p) \/ (p \in FreshGetters /\ GetFresh(p))
      PROVE  Takes(p) \/ FindsNothing(p)
  BY <1>1 DEF Get, GetFresh, Takes, FindsNothing, Asleep
<1>2. ASSUME NEW p \in Procs, NEW i \in Items, Done(p, i)  PROVE Quiet \/ Pushes
  <2>1. CallersStay
    BY <1>2, StillStays DEF Done
  <2>2. RequeueFresh(i) \in BOOLEAN
    BY DEF RequeueFresh
  <2> QED  BY <1>2, <2>1, <2>2 DEF Done, Quiet, Pushes
<1>3. ASSUME NEW p \in Procs, ShutDown(p) \/ ShutDownWithDrain(p)  PROVE Closes(p)
  BY <1>3 DEF ShutDown, ShutDownWithDrain, Closes
<1>4. CASE UNCHANGED vars
  BY <1>4, StillStays DEF vars, Quiet
<1>5. ASSUME NEW p \in Adders, NEW i \in Items,
             \/ Add(p, i)
             \/ \E d \in AddAfterDelays : AddAfter(p, i, d)
             \/ AddRateLimited(p, i)
             \/ Forget(p, i)
      PROVE  Goal
  BY <1>0, <1>5, AdderClass
<1>6. ASSUME NEW p \in Procs, CallStep(p)  PROVE Goal
  BY <1>6, CallClass
<1>7. CASE LoopStep \/ LoopHeartbeat \/ Tick
  BY <1>7, LoopClass
<1>8. CASE (\E p \in Getters : Get(p)) \/ (\E p \in FreshGetters : GetFresh(p))
  BY <1>0, <1>1, <1>8
<1>9. CASE \E p \in Procs, i \in Items : Done(p, i)
  BY <1>2, <1>9
<1>10. CASE \E p \in Closers : ShutDown(p) \/ ShutDownWithDrain(p)
  BY <1>0, <1>3, <1>10
<1> HIDE DEF Goal
<1>11. CASE Next
  BY <1>5, <1>6, <1>7, <1>8, <1>9, <1>10, <1>11 DEF Next, Goal
<1> QED  BY <1>4, <1>11 DEF Goal

-----------------------------------------------------------------------------
(***************************************************************************)
(* Each class keeps WaitersInv, and TakersFor of the number of keys.       *)
(***************************************************************************)
LEMMA QuietTakers ==
  ASSUME WakeInv, Quiet
  PROVE  /\ WaitersInv'
         /\ \A n \in Nat : TakersFor(n) => TakersFor(n)'
<1>1. Awake' = Awake
  BY DEF Quiet, CallersStay, Awake, Asleep
<1>2. WaitersInv'
  BY DEF Quiet, CallersStay, WakeInv, WaitersInv, Asleep
<1>3. \A n \in Nat : TakersFor(n) => TakersFor(n)'
  BY <1>1 DEF Quiet, CallersStay, TakersFor, Asleep
<1> QED  BY <1>2, <1>3

\* The woken goroutine is a taker, if one slept.
LEMMA PushTakers ==
  ASSUME WakeInv, Pushes
  PROVE  /\ WaitersInv'
         /\ \A n \in Nat : TakersFor(n) => TakersFor(n + 1)' /\ TakersFor(n)'
<1>1. CallersStay /\ Signal
  BY DEF Pushes, Push
<1>2. IsFiniteSet(Awake) /\ Cardinality(Awake) \in Nat
  BY AwakeSize DEF WakeInv, WaitersInv
<1>3. CASE waiters = <<>>
  <2>1. waiters' = <<>> /\ ToSet(<<>>) = {}
    BY <1>1, <1>3 DEF Signal, ToSet
  <2>2. WaitersInv'
    BY <1>1, <1>3, <2>1 DEF CallersStay, WakeInv, WaitersInv, Asleep
  <2>3. \A p : ~Asleep(p)'
    BY <2>1 DEF Asleep
  <2> QED  BY <2>2, <2>3 DEF TakersFor
<1>4. CASE waiters # <<>>
  <2> DEFINE h == Head(waiters)
  <2>1. /\ waiters' = Tail(waiters)
        /\ h \in ToSet(waiters) /\ h \in Procs
        /\ IsInjective(waiters')
        /\ ToSet(waiters') = ToSet(waiters) \ {h}
    BY <1>1, <1>4, TailToSet, WaitersAreProcs DEF Signal, WakeInv, WaitersInv
  <2> HIDE DEF h
  <2>2. WaitersInv'
    BY <1>1, <2>1 DEF CallersStay, WakeInv, WaitersInv, Asleep
  <2>3. ASSUME shuttingDown, NEW n \in Nat  PROVE TakersFor(n)'
    BY <1>1, <2>1, <2>3 DEF CallersStay, WakeInv, WaitersInv, Asleep, TakersFor
  <2>4. ASSUME ~shuttingDown, NEW n \in Nat, TakersFor(n)
        PROVE  TakersFor(n + 1)' /\ TakersFor(n)'
    <3>1. h \in Getting /\ Asleep(h)
      BY <2>1, <2>4 DEF WakeInv, WaitersInv, Asleep
    <3>2. Awake' = Awake \cup {h}
      BY <1>1, <2>1, <3>1 DEF CallersStay, Awake, Asleep
    <3>3. h \notin Awake
      BY <3>1 DEF Awake
    <3>4. Cardinality(Awake') = Cardinality(Awake) + 1
      BY <1>2, <3>2, <3>3, FS_AddElement
    <3>5. n <= Cardinality(Awake)
      BY <2>4, <3>1 DEF TakersFor
    <3> HIDE DEF TakersFor
    <3>6. n + 1 <= Cardinality(Awake') /\ n <= Cardinality(Awake')
      BY <1>2, <3>4, <3>5
    <3> QED  BY <3>6 DEF TakersFor
  <2>5. ASSUME NEW n \in Nat, TakersFor(n)  PROVE TakersFor(n + 1)' /\ TakersFor(n)'
    <3>1. n + 1 \in Nat
      OBVIOUS
    <3> QED  BY <2>3, <2>4, <2>5, <3>1
  <2> QED  BY <2>2, <2>5
<1> QED  BY <1>3, <1>4

\* One taker fewer, for one key fewer.
LEMMA TakeTakers ==
  ASSUME WakeInv, NEW p \in Procs, Takes(p)
  PROVE  /\ WaitersInv'
         /\ \A n \in Nat : TakersFor(n + 1) => TakersFor(n)'
         /\ TakersFor(0)'
<1>1. /\ pc' = [pc EXCEPT ![p] = "idle"] /\ waiters' = waiters
      /\ shuttingDown' = shuttingDown /\ p \notin ToSet(waiters)
  BY DEF Takes, TakeFresh, TakeStaled
<1>2. pc \in [Procs -> ProcPcs]
  BY DEF WakeInv, TypeOK, ProcTypeOK
<1>3. pc'[p] = "idle" /\ \A q \in Procs : q # p => pc'[q] = pc[q]
  BY <1>1, <1>2
<1>4. Getting' = Getting \ {p}
  BY <1>3 DEF Getting
<1>5. Awake' = Awake \ {p}
  BY <1>1, <1>4 DEF Awake, Asleep
<1>6. IsFiniteSet(Getting') /\ IsFiniteSet(Getting)
  BY <1>4, FS_RemoveElement DEF WakeInv, WaitersInv
<1>7. IsFiniteSet(Awake) /\ Cardinality(Awake) \in Nat
  BY <1>6, AwakeSize
<1>8. /\ Cardinality(Awake') \in Nat
      /\ Cardinality(Awake') >= Cardinality(Awake) - 1
  <2>1. /\ IsFiniteSet(Awake \ {p})
        /\ Cardinality(Awake \ {p}) =
             IF p \in Awake THEN Cardinality(Awake) - 1 ELSE Cardinality(Awake)
    BY <1>7, FS_RemoveElement
  <2>2. Cardinality(Awake \ {p}) \in Nat
    BY <2>1, FS_CardinalityType
  <2> QED  BY <1>5, <1>7, <2>1, <2>2
<1>9. WaitersInv'
  <2>1. \A q \in ToSet(waiters) : q \in Procs /\ q # p /\ pc'[q] = pc[q]
    BY <1>1, <1>3, WaitersAreProcs DEF WakeInv
  <2> QED  BY <1>1, <1>3, <1>4, <1>6, <2>1 DEF WakeInv, WaitersInv, Asleep
<1>10. ASSUME NEW n \in Nat, TakersFor(n + 1)  PROVE TakersFor(n)'
  <2> SUFFICES ASSUME \E q \in Getting' : Asleep(q)'  PROVE n <= Cardinality(Awake')
    BY DEF TakersFor
  <2>1. \E q \in Getting : Asleep(q)
    BY <1>1, <1>4 DEF Asleep
  <2>2. n + 1 <= Cardinality(Awake)
    BY <1>10, <2>1 DEF TakersFor
  <2> QED  BY <1>7, <1>8, <2>2
<1>11. TakersFor(0)'
  BY <1>8 DEF TakersFor
<1> QED  BY <1>9, <1>10, <1>11

\* Who finds nothing sleeps, with nothing to take.
LEMMA NothingTakers ==
  ASSUME WakeInv, NEW p \in Procs, FindsNothing(p)
  PROVE  WaitersInv' /\ TakersFor(0)'
<1>1. pc \in [Procs -> ProcPcs] /\ waiters \in Seq(Procs)
  BY WaitersAreProcs DEF WakeInv, TypeOK, ProcTypeOK
<1>2. PICK place \in {"get", "getFresh"} : WaitOrReturn(p, place)
  BY DEF FindsNothing
<1>3. WaitersInv'
  <2>1. CASE shuttingDown
    <3>1. pc' = [pc EXCEPT ![p] = "returned"] /\ waiters' = waiters
      BY <1>2, <2>1 DEF WaitOrReturn
    <3>2. pc'[p] = "returned" /\ \A q \in Procs : q # p => pc'[q] = pc[q]
      BY <1>1, <3>1
    <3>3. Getting' = Getting \ {p}
      BY <3>2 DEF Getting
    <3>4. IsFiniteSet(Getting')
      BY <3>3, FS_RemoveElement DEF WakeInv, WaitersInv
    <3>5. \A q \in ToSet(waiters) : q \in Procs /\ q # p /\ pc'[q] = pc[q]
      BY <3>2, WaitersAreProcs DEF WakeInv, FindsNothing
    <3> QED  BY <2>1, <3>1, <3>2, <3>3, <3>4, <3>5
             DEF FindsNothing, WakeInv, WaitersInv, Asleep
  <2>2. CASE ~shuttingDown
    <3>1. pc' = [pc EXCEPT ![p] = place] /\ waiters' = Append(waiters, p)
      BY <1>2, <2>2 DEF WaitOrReturn, Wait
    <3>2. pc'[p] = place /\ \A q \in Procs : q # p => pc'[q] = pc[q]
      BY <1>1, <3>1
    <3>3. Getting' = Getting \cup {p}
      BY <3>2 DEF Getting
    <3>4. IsFiniteSet(Getting')
      BY <3>3, FS_AddElement DEF WakeInv, WaitersInv
    <3>5. ToSet(waiters') = ToSet(waiters) \cup {p} /\ IsInjective(waiters')
      BY <1>1, <3>1, AppendToSet, AppendNew DEF WakeInv, WaitersInv, FindsNothing
    <3>6. \A q \in ToSet(waiters) : q \in Procs /\ q # p /\ pc'[q] = pc[q]
      BY <3>2, WaitersAreProcs DEF WakeInv, FindsNothing
    <3> QED  BY <2>2, <3>2, <3>3, <3>4, <3>5, <3>6
             DEF FindsNothing, WakeInv, WaitersInv, Asleep
  <2> QED  BY <2>1, <2>2
<1>4. Cardinality(Awake') \in Nat
  <2>1. IsFiniteSet(Getting') /\ Awake' \subseteq Getting'
    BY <1>3 DEF WaitersInv, Awake
  <2> QED  BY <2>1, FS_Subset, FS_CardinalityType
<1> QED  BY <1>3, <1>4 DEF TakersFor

\* The first shutdown wakes everybody; a later one finds no taker asleep.
LEMMA CloseTakers ==
  ASSUME WakeInv, NEW p \in Procs, Closes(p)
  PROVE  WaitersInv' /\ \A n \in Nat : TakersFor(n)'
<1>1. pc \in [Procs -> ProcPcs]
  BY DEF WakeInv, TypeOK, ProcTypeOK
<1>2. PICK place \in {"returned", "drain"} : pc' = [pc EXCEPT ![p] = place]
  BY DEF Closes
<1>3. pc'[p] = place /\ \A q \in Procs : q # p => pc'[q] = pc[q]
  BY <1>1, <1>2
<1>4. Getting' = Getting /\ ~Asleep(p)
  BY <1>3, OthersAwake DEF Getting, Closes
<1>5. CASE ~shuttingDown
  <2>1. waiters' = <<>> /\ shuttingDown' = TRUE
    BY <1>5 DEF Closes, shutDownOnce, Broadcast
  <2>2. ToSet(<<>>) = {} /\ IsInjective(<<>>)
    BY DEF ToSet, IsInjective
  <2> QED  BY <1>4, <2>1, <2>2 DEF WakeInv, WaitersInv, TakersFor, Asleep
<1>6. CASE shuttingDown
  <2>1. UNCHANGED <<shuttingDown, waiters>>
    BY <1>6 DEF Closes, shutDownOnce
  <2>2. \A q \in ToSet(waiters) : pc'[q] = pc[q]
    BY <1>3, <1>4, WaitersAreProcs DEF WakeInv, Asleep
  <2> QED  BY <1>4, <1>6, <2>1, <2>2 DEF WakeInv, WaitersInv, TakersFor, Asleep
<1> QED  BY <1>5, <1>6

\* A drainer sleeps; no taker does any more.
LEMMA DrainTakers ==
  ASSUME WakeInv, NEW p \in Procs, DrainWaits(p)
  PROVE  WaitersInv' /\ \A n \in Nat : TakersFor(n)'
<1>1. /\ waiters' = Append(waiters, p) /\ p \notin ToSet(waiters)
      /\ waiters \in Seq(Procs) /\ shuttingDown
      /\ UNCHANGED <<pc, shuttingDown>> /\ pc[p] = "drain"
  BY WaitersAreProcs DEF DrainWaits, Wait, WakeInv, WaitersInv
<1>2. ToSet(waiters') = ToSet(waiters) \cup {p} /\ IsInjective(waiters')
  BY <1>1, AppendToSet, AppendNew DEF WakeInv, WaitersInv
<1>3. Getting' = Getting /\ p \notin Getting
  BY <1>1 DEF Getting
<1> QED  BY <1>1, <1>2, <1>3 DEF WakeInv, WaitersInv, TakersFor, Asleep

\* The invariant of the condition variable, by itself.
LEMMA WakeStep == WakeInv /\ [Next]_vars => WakeInv'
<1> SUFFICES ASSUME WakeInv, [Next]_vars  PROVE WakeInv'
  OBVIOUS
<1>1. TypeOK'
  BY TypeStep DEF WakeInv
<1>2. WaitersInv'
  BY StepClass, QuietTakers, PushTakers, TakeTakers, NothingTakers, CloseTakers, DrainTakers
<1> QED  BY <1>1, <1>2 DEF WakeInv

LEMMA InitWake == Init => WakeInv
<1> SUFFICES ASSUME Init  PROVE WakeInv
  OBVIOUS
<1>1. ToSet(<<>>) = {} /\ IsInjective(<<>>)
  BY DEF ToSet, IsInjective
<1>2. Getting = {} /\ IsFiniteSet({})
  BY FS_EmptySet DEF Init, Getting
<1> QED  BY <1>1, <1>2, InitType DEF Init, WakeInv, WaitersInv

-----------------------------------------------------------------------------
(***************************************************************************)
(* How the lengths of the queues change with the takers.                   *)
(***************************************************************************)
LEMMA QueueLengths ==
  ASSUME TypeOK
  PROVE  /\ Len(queueFresh) \in Nat /\ Len(queueStaled) \in Nat
         /\ queueFresh = <<>> => Len(queueFresh) = 0
         /\ queueStaled = <<>> => Len(queueStaled) = 0
BY LenProperties, EmptySeq DEF TypeOK, CondTypeOK

LEMMA PushLengths ==
  ASSUME TypeOK, NEW i \in Items, NEW fresh \in BOOLEAN, Push(i, fresh)
  PROVE  /\ Len(queueFresh') \in {Len(queueFresh), Len(queueFresh) + 1}
         /\ Len(queueFresh') + Len(queueStaled') = Len(queueFresh) + Len(queueStaled) + 1
<1>1. CASE fresh
  <2>1. queueFresh' = Append(queueFresh, i) /\ queueStaled' = queueStaled
    BY <1>1 DEF Push
  <2>2. Len(queueFresh') = Len(queueFresh) + 1
    BY <2>1, AppendToSet DEF TypeOK, CondTypeOK
  <2> QED  BY <2>1, <2>2, QueueLengths
<1>2. CASE ~fresh
  <2>1. queueStaled' = Append(queueStaled, i) /\ queueFresh' = queueFresh
    BY <1>2 DEF Push
  <2>2. Len(queueStaled') = Len(queueStaled) + 1
    BY <2>1, AppendToSet DEF TypeOK, CondTypeOK
  <2> QED  BY <2>1, <2>2, QueueLengths
<1> QED  BY <1>1, <1>2

LEMMA TakeLengths ==
  ASSUME TypeOK, NEW p \in Procs, Takes(p)
  PROVE  /\ Len(queueFresh) > 0 => Len(queueFresh') = Len(queueFresh) - 1
         /\ Len(queueFresh) = 0 => Len(queueFresh') = 0
         /\ Len(queueFresh') + Len(queueStaled') = Len(queueFresh) + Len(queueStaled) - 1
<1>1. CASE TakeFresh(p)
  <2>1. queueFresh' = Tail(queueFresh) /\ queueStaled' = queueStaled /\ queueFresh # <<>>
    BY <1>1 DEF TakeFresh
  <2>2. Len(queueFresh') = Len(queueFresh) - 1 /\ Len(queueFresh) > 0
    BY <2>1, HeadTailProperties, EmptySeq DEF TypeOK, CondTypeOK
  <2> QED  BY <2>1, <2>2, QueueLengths
<1>2. CASE queueFresh = <<>> /\ TakeStaled(p)
  <2>1. queueStaled' = Tail(queueStaled) /\ queueFresh' = queueFresh /\ queueStaled # <<>>
    BY <1>2 DEF TakeStaled
  <2>2. Len(queueStaled') = Len(queueStaled) - 1
    BY <2>1, HeadTailProperties DEF TypeOK, CondTypeOK
  <2> QED  BY <1>2, <2>1, <2>2, QueueLengths
<1> QED  BY <1>1, <1>2 DEF Takes

\* Fewer keys need fewer takers.
LEMMA FewerKeys ==
  ASSUME WakeInv, NEW n \in Nat, NEW m \in Nat, m <= n, TakersFor(n)
  PROVE  TakersFor(m)
<1>1. Cardinality(Awake) \in Nat
  BY AwakeSize DEF WakeInv, WaitersInv
<1> QED  BY <1>1 DEF TakersFor

LEMMA FreshKeysStep ==
  ASSUME WakeInv, FreshKeysHaveTakers, [Next]_vars
  PROVE  FreshKeysHaveTakers'
<1> PICK n : n = Len(queueFresh)
  OBVIOUS
<1> PICK m : m = Len(queueFresh')
  OBVIOUS
<1>1. n \in Nat /\ m \in Nat /\ TakersFor(n)
  <2>1. TypeOK'
    BY TypeStep DEF WakeInv
  <2>2. Len(queueFresh') \in Nat
    BY <2>1, LenProperties DEF TypeOK, CondTypeOK
  <2> QED  BY <2>2, QueueLengths DEF WakeInv, FreshKeysHaveTakers, TakersFor, Awake
<1> SUFFICES TakersFor(m)'
  BY DEF FreshKeysHaveTakers, TakersFor, Awake
<1>2. CASE Quiet
  <2>1. m = n
    BY <1>2 DEF Quiet
  <2> QED  BY <1>1, <1>2, <2>1, QuietTakers
<1>3. CASE Pushes
  <2>1. m \in {n, n + 1}
    BY <1>3, PushLengths DEF Pushes, WakeInv
  <2> QED  BY <1>1, <1>3, <2>1, PushTakers
<1>4. ASSUME NEW p \in Procs, Takes(p)  PROVE TakersFor(m)'
  <2>1. n > 0 => m = n - 1
    BY <1>4, TakeLengths DEF WakeInv
  <2>2. n = 0 => m = 0
    BY <1>4, TakeLengths DEF WakeInv
  <2>3. n = m + 1 \/ m = 0
    BY <1>1, <2>1, <2>2
  <2> QED  BY <1>1, <1>4, <2>3, TakeTakers
<1>5. ASSUME NEW p \in Procs, FindsNothing(p)  PROVE TakersFor(m)'
  <2>1. queueFresh = <<>> /\ queueFresh' = queueFresh
    BY <1>5 DEF FindsNothing, WaitOrReturn
  <2>2. m = 0
    BY <2>1, QueueLengths DEF WakeInv
  <2> QED  BY <1>5, <2>2, NothingTakers
<1>6. ASSUME NEW p \in Procs, Closes(p) \/ DrainWaits(p)  PROVE TakersFor(m)'
  BY <1>1, <1>6, CloseTakers, DrainTakers
<1> QED  BY <1>2, <1>3, <1>4, <1>5, <1>6, StepClass

\* While somebody sleeps in a Get or GetFresh, every fresh key has a caller on
\* its way to it, for any number of keys and callers of both kinds: the Signal
\* of add, which may wake a caller that cannot take a staled key, never wastes
\* the wakeup of a fresh one.
THEOREM FreshKeysTaken == Spec => []FreshKeysHaveTakers
<1>1. Init => WakeInv /\ FreshKeysHaveTakers
  <2>1. Init => ~\E p \in Getting : Asleep(p)
    BY DEF Init, Getting
  <2> QED  BY <2>1, InitWake DEF FreshKeysHaveTakers
<1>2. WakeInv /\ FreshKeysHaveTakers /\ [Next]_vars => WakeInv' /\ FreshKeysHaveTakers'
  BY WakeStep, FreshKeysStep
<1> QED  BY <1>1, <1>2, PTL DEF Spec

LEMMA KeysStep ==
  ASSUME FreshGetters = {}, WakeInv, KeysHaveTakers, [Next]_vars
  PROVE  KeysHaveTakers'
<1> PICK n : n = Len(queueFresh) + Len(queueStaled)
  OBVIOUS
<1> PICK m : m = Len(queueFresh') + Len(queueStaled')
  OBVIOUS
<1>1. n \in Nat /\ m \in Nat /\ TakersFor(n)
  <2>1. TypeOK'
    BY TypeStep DEF WakeInv
  <2>2. Len(queueFresh') \in Nat /\ Len(queueStaled') \in Nat
    BY <2>1, LenProperties DEF TypeOK, CondTypeOK
  <2> QED  BY <2>2, QueueLengths DEF WakeInv, KeysHaveTakers, TakersFor, Awake
<1> SUFFICES TakersFor(m)'
  BY DEF KeysHaveTakers, TakersFor, Awake
<1>2. CASE Quiet
  <2>1. m = n
    BY <1>2 DEF Quiet
  <2> QED  BY <1>1, <1>2, <2>1, QuietTakers
<1>3. CASE Pushes
  <2>1. m = n + 1
    BY <1>3, PushLengths DEF Pushes, WakeInv
  <2> QED  BY <1>1, <1>3, <2>1, PushTakers
<1>4. ASSUME NEW p \in Procs, Takes(p)  PROVE TakersFor(m)'
  <2>1. m = n - 1
    BY <1>4, TakeLengths DEF WakeInv
  <2>2. n = m + 1
    BY <1>1, <2>1
  <2> QED  BY <1>1, <1>4, <2>2, TakeTakers
<1>5. ASSUME NEW p \in Procs, FindsNothing(p)  PROVE TakersFor(m)'
  <2>1. queueFresh = <<>> /\ queueStaled = <<>> /\ UNCHANGED <<queueFresh, queueStaled>>
    BY <1>5 DEF FindsNothing, WaitOrReturn
  <2>2. m = 0
    BY <2>1, QueueLengths DEF WakeInv
  <2> QED  BY <1>5, <2>2, NothingTakers
<1>6. ASSUME NEW p \in Procs, Closes(p) \/ DrainWaits(p)  PROVE TakersFor(m)'
  BY <1>1, <1>6, CloseTakers, DrainTakers
<1> QED  BY <1>2, <1>3, <1>4, <1>5, <1>6, StepClass

\* The same for the keys of both queues, where every caller calls Get.
\* (Where some call GetFresh, a staled key may lose its wakeup to one of them.)
THEOREM KeysTaken ==
  ASSUME FreshGetters = {}
  PROVE  Spec => []KeysHaveTakers
<1>1. Init => WakeInv /\ KeysHaveTakers
  <2>1. Init => ~\E p \in Getting : Asleep(p)
    BY DEF Init, Getting
  <2> QED  BY <2>1, InitWake DEF KeysHaveTakers
<1>2. WakeInv /\ KeysHaveTakers /\ [Next]_vars => WakeInv' /\ KeysHaveTakers'
  BY WakeStep, KeysStep
<1> QED  BY <1>1, <1>2, PTL DEF Spec

-----------------------------------------------------------------------------
(***************************************************************************)
(* Exits.  Where everybody calls Get and holds one key at a time, a Get    *)
(* that reports the shutdown holds nothing and has seen both queues empty; *)
(* so has the last one, when nobody else holds a key that could come back. *)
(* With two keys in hand, or with a GetFresh, a key given back after the   *)
(* last Get has returned would stay in a queue.                            *)
(***************************************************************************)
GetOnly ==
  /\ FreshGetters = {}
  /\ Getters # {}
  /\ Getters \cap Closers = {}
  /\ MaxHeld = 1

Exited(p) == pc[p] = "returned"

ExitInv ==
  /\ \A p \in Procs : IsFiniteSet(held[p])
  /\ \A p \in Procs \ Getters : held[p] = {}
  /\ \A p \in Getters : pc[p] # "drain"
  /\ \A p \in Getters : Exited(p) => held[p] = {} /\ shuttingDown
  /\ (\A p \in Getters : Exited(p)) => dirty = {}

\* A step after which nobody has newly exited and nobody holds another key.
LEMMA ExitsKept ==
  ASSUME GetOnly, ExitInv, held' = held,
         \A p \in Getters : pc'[p] # "drain" /\ (Exited(p)' => Exited(p)),
         shuttingDown => shuttingDown' /\ dirty' = dirty
  PROVE  ExitInv'
BY DEF ExitInv, Exited, GetOnly

\* add does nothing once the queue shuts down.
LEMMA AddClosed ==
  ASSUME NEW i, NEW fresh, add(i, fresh), shuttingDown
  PROVE  shuttingDown' /\ dirty' = dirty
BY DEF add, condVars

\* Any step but those of Get, Done and the shutdown.
LEMMA OtherExits ==
  ASSUME GetOnly, QueueInv, ExitInv,
         \/ \E p \in Adders, i \in Items :
               \/ Add(p, i)
               \/ \E d \in AddAfterDelays : AddAfter(p, i, d)
               \/ AddRateLimited(p, i)
               \/ Forget(p, i)
         \/ \E p \in Procs : CallStep(p)
         \/ LoopStep \/ LoopHeartbeat \/ Tick \/ UNCHANGED vars
  PROVE  ExitInv'
<1>1. pc \in [Procs -> ProcPcs] /\ Getters \subseteq Procs /\ Adders \subseteq Procs
  BY DEF QueueInv, TypeOK, ProcTypeOK, Procs
<1> DEFINE Kept == /\ held' = held
                   /\ \A p \in Getters : pc'[p] # "drain" /\ (Exited(p)' => Exited(p))
                   /\ shuttingDown => shuttingDown' /\ dirty' = dirty
<1>2. \A p \in Getters : pc[p] # "drain"
  BY DEF ExitInv
<1>3. ASSUME NEW p \in Procs, NEW i \in Items, Add(p, i) \/ AddRateLimited(p, i) \/ Forget(p, i)
      PROVE  Kept
  <2>1. CASE Add(p, i)
    <3>1. UNCHANGED <<pc, held>> /\ add(i, TRUE)
      BY <2>1 DEF Add, procVars
    <3>2. shuttingDown => shuttingDown' /\ dirty' = dirty
      BY <3>1, AddClosed
    <3> QED  BY <1>2, <3>1, <3>2 DEF Exited
  <2>2. CASE AddRateLimited(p, i) \/ Forget(p, i)
    BY <1>1, <1>2, <2>2 DEF AddRateLimited, Forget, condVars, procVars, Exited
  <2> QED  BY <1>3, <2>1, <2>2
<1>4. ASSUME NEW p \in Procs, NEW i \in Items, NEW d \in AddAfterDelays, AddAfter(p, i, d)
      PROVE  Kept
  BY <1>1, <1>2, <1>4 DEF AddAfter, afterCheck, condVars, Exited
<1>5. ASSUME NEW p \in Procs, CallStep(p)  PROVE Kept
  <2>1. CASE AddAfterAdd(p)
    BY <1>1, <1>2, <2>1, AddClosed DEF AddAfterAdd, Exited
  <2>2. CASE waitForProcessing(p)
    BY <1>1, <1>2, <2>2 DEF waitForProcessing, Exited
  <2>3. CASE AddAfterIsFresh(p) \/ AddAfterSend(p) \/ When(p) \/ AddRateLimitedAfter(p)
    <3>1. UNCHANGED <<condVars, held>>
      BY <2>3 DEF AddAfterIsFresh, AddAfterSend, When, AddRateLimitedAfter
    <3>2. \E place \in ProcPcs \ {"drain", "returned"} : pc' = [pc EXCEPT ![p] = place]
      BY <2>3 DEF AddAfterIsFresh, AddAfterSend, When, AddRateLimitedAfter, afterCheck,
                  ProcPcs
    <3> QED  BY <1>1, <1>2, <3>1, <3>2 DEF condVars, Exited
  <2> QED  BY <1>5, <2>1, <2>2, <2>3 DEF CallStep
<1>6. ASSUME LoopAdd  PROVE Kept
  BY <1>2, <1>6, AddClosed DEF LoopAdd, procVars, Exited
<1>7. ASSUME \/ LoopTop \/ LoopPop \/ LoopStop \/ LoopTimer \/ LoopReceive
             \/ LoopDrained \/ LoopHeartbeat \/ Tick \/ UNCHANGED vars
      PROVE  Kept
  BY <1>2, <1>7
     DEF LoopTop, LoopPop, LoopStop, LoopTimer, LoopReceive, LoopDrained, LoopHeartbeat,
         Tick, condVars, procVars, vars, Exited
<1> HIDE DEF Kept
<1>8. Kept
  BY <1>1, <1>3, <1>4, <1>5, <1>6, <1>7 DEF LoopStep
<1> QED  BY <1>8, ExitsKept DEF Kept

\* Who holds a key has not exited.
LEMMA DoneExits ==
  ASSUME GetOnly, QueueInv, ExitInv, NEW p \in Procs, NEW i \in Items, Done(p, i)
  PROVE  ExitInv'
<1>1. held \in [Procs -> SUBSET Items]
  BY DEF QueueInv, TypeOK, ProcTypeOK
<1>2. /\ i \in held[p] /\ held' = [held EXCEPT ![p] = @ \ {i}]
      /\ UNCHANGED <<dirty, shuttingDown, pc>>
  BY DEF Done
<1>3. p \in Getters /\ ~Exited(p)
  BY <1>2 DEF ExitInv
<1>4. held'[p] = held[p] \ {i} /\ \A q \in Procs : q # p => held'[q] = held[q]
  BY <1>1, <1>2
<1>5. IsFiniteSet(held'[p])
  BY <1>4, FS_RemoveElement DEF ExitInv
<1>6. \A q \in Getters : Exited(q)' <=> Exited(q)
  BY <1>2 DEF Exited
<1>7. ~Exited(p)'
  BY <1>3, <1>6
<1> QED  BY <1>2, <1>3, <1>4, <1>5, <1>6, <1>7 DEF ExitInv, Procs

\* Nobody who waits for keys calls ShutDown.
LEMMA CloseExits ==
  ASSUME GetOnly, QueueInv, ExitInv, NEW p \in Closers, ShutDown(p) \/ ShutDownWithDrain(p)
  PROVE  ExitInv'
<1>1. pc \in [Procs -> ProcPcs] /\ Getters \subseteq Procs /\ p \notin Getters
  BY DEF QueueInv, TypeOK, ProcTypeOK, Procs, GetOnly
<1>2. \A q \in Getters : pc'[q] = pc[q]
  BY <1>1 DEF ShutDown, ShutDownWithDrain
<1>3. held' = held /\ dirty' = dirty /\ (shuttingDown => shuttingDown')
  BY DEF ShutDown, ShutDownWithDrain, shutDownOnce
<1> QED  BY <1>2, <1>3, ExitsKept DEF ExitInv, Exited

LEMMA GetExits ==
  ASSUME GetOnly, QueueInv, ExitInv, NEW p \in Getters, Get(p)
  PROVE  ExitInv'
<1>1. /\ pc \in [Procs -> ProcPcs] /\ held \in [Procs -> SUBSET Items]
      /\ p \in Procs /\ Getters \subseteq Procs
  BY DEF QueueInv, TypeOK, ProcTypeOK, Procs
<1>2. held[p] = {}
  <2>1. IsFiniteSet(held[p]) /\ Cardinality(held[p]) < 1
    BY <1>1 DEF Get, GetOnly, ExitInv
  <2>2. Cardinality(held[p]) \in Nat
    BY <2>1, FS_CardinalityType
  <2>3. Cardinality(held[p]) = 0
    BY <2>1, <2>2
  <2> QED  BY <2>1, <2>3, FS_EmptySet
<1>3. ASSUME NEW h, held' = [held EXCEPT ![p] = @ \cup {h}],
             pc' = [pc EXCEPT ![p] = "idle"], shuttingDown' = shuttingDown
      PROVE  ExitInv'
  <2>1. held'[p] = {h} /\ \A q \in Procs : q # p => held'[q] = held[q]
    BY <1>1, <1>2, <1>3
  <2>2. pc'[p] = "idle" /\ \A q \in Procs : q # p => pc'[q] = pc[q]
    BY <1>1, <1>3
  <2>3. IsFiniteSet(held'[p])
    BY <2>1, FS_Singleton
  <2>4. ~Exited(p)'
    BY <2>2 DEF Exited
  <2>5. \A q \in Getters : q # p => pc'[q] = pc[q] /\ held'[q] = held[q]
    BY <1>1, <2>1, <2>2
  <2> QED  BY <1>1, <1>3, <2>1, <2>2, <2>3, <2>4, <2>5 DEF ExitInv, Exited
<1>4. CASE TakeFresh(p) \/ TakeStaled(p)
  BY <1>3, <1>4 DEF TakeFresh, TakeStaled, Get
<1>5. CASE queueFresh = <<>> /\ queueStaled = <<>> /\ WaitOrReturn(p, "get")
  <2>1. UNCHANGED <<dirty, processing, held, shuttingDown>>
    BY <1>5 DEF WaitOrReturn, Get
  <2>2. CASE ~shuttingDown
    <3>1. pc' = [pc EXCEPT ![p] = "get"]
      BY <1>5, <2>2 DEF WaitOrReturn
    <3>2. pc'[p] = "get" /\ \A q \in Procs : q # p => pc'[q] = pc[q]
      BY <1>1, <3>1
    <3> QED  BY <1>1, <2>1, <3>2, ExitsKept DEF ExitInv, Exited
  <2>3. CASE shuttingDown
    <3>1. pc' = [pc EXCEPT ![p] = "returned"]
      BY <1>5, <2>3 DEF WaitOrReturn
    <3>2. pc'[p] = "returned" /\ \A q \in Procs : q # p => pc'[q] = pc[q]
      BY <1>1, <3>1
    <3>3. ASSUME \A q \in Getters : Exited(q)'  PROVE dirty = {}
      <4>1. \A q \in Getters : q # p => Exited(q)
        BY <1>1, <3>2, <3>3 DEF Exited
      <4>2. \A q \in Procs : held[q] = {}
        BY <1>2, <4>1 DEF ExitInv
      <4>3. processing = {}
        BY <4>2 DEF QueueInv, ExclusiveHolding
      <4>4. dirty \ processing = {}
        BY <1>5 DEF QueueInv, QueuesExact, ToSet
      <4> QED  BY <4>3, <4>4
    <3>4. \A q \in Getters : pc'[q] # "drain" /\ (Exited(q)' => held'[q] = {} /\ shuttingDown')
      BY <1>1, <1>2, <2>1, <2>3, <3>2 DEF ExitInv, Exited
    <3> QED  BY <2>1, <3>3, <3>4 DEF ExitInv
  <2> QED  BY <2>2, <2>3
<1> QED  BY <1>4, <1>5 DEF Get

LEMMA ExitStep ==
  ASSUME GetOnly, QueueInv, ExitInv, [Next]_vars
  PROVE  ExitInv'
<1>1. CASE \E p \in Getters : Get(p)
  BY <1>1, GetExits
<1>2. CASE \E p \in Procs, i \in Items : Done(p, i)
  BY <1>2, DoneExits
<1>3. CASE \E p \in Closers : ShutDown(p) \/ ShutDownWithDrain(p)
  BY <1>3, CloseExits
<1>4. ~\E p \in FreshGetters : GetFresh(p)
  BY DEF GetOnly
<1>5. \/ \E p \in Getters : Get(p)
      \/ \E p \in Procs, i \in Items : Done(p, i)
      \/ \E p \in Closers : ShutDown(p) \/ ShutDownWithDrain(p)
      \/ \E p \in Adders, i \in Items :
            \/ Add(p, i)
            \/ \E d \in AddAfterDelays : AddAfter(p, i, d)
            \/ AddRateLimited(p, i)
            \/ Forget(p, i)
      \/ \E p \in Procs : CallStep(p)
      \/ LoopStep \/ LoopHeartbeat \/ Tick \/ UNCHANGED vars
  BY <1>4 DEF Next
<1> QED  BY <1>1, <1>2, <1>3, <1>5, OtherExits

\* When the last of any number of workers that call Get, each with one key at
\* a time, was told of the shutdown and has given its key back, no key is left.
THEOREM ExitsClean ==
  ASSUME GetOnly
  PROVE  Spec => []ExitLeavesNothing
<1>1. Init => QueueInv /\ ExitInv
  <2> SUFFICES ASSUME Init  PROVE QueueInv /\ ExitInv
    OBVIOUS
  <2>1. IsFiniteSet({})
    BY FS_EmptySet
  <2> QED  BY <2>1, InitInv DEF Init, ExitInv, Exited, Procs
<1>2. QueueInv /\ ExitInv /\ [Next]_vars => QueueInv' /\ ExitInv'
  BY InvStep, ExitStep
<1>3. ExitInv => ExitLeavesNothing
  BY DEF ExitInv, Exited, ExitLeavesNothing
<1> QED  BY <1>1, <1>2, <1>3, PTL DEF Spec

-----------------------------------------------------------------------------
(***************************************************************************)
(* Delays.  An instant a key waits for is in the channel, in the heap or   *)
(* in a call; each step hands it on or leaves it.                          *)
(***************************************************************************)
Sent(i, d) == \E k \in DOMAIN waitingForAddCh : /\ waitingForAddCh[k].item = i
                                                /\ waitingForAddCh[k].delay = d
Heaped(i, d)  == waiting[i] = d /\ d # NotWaiting
Sending(i, d) == \E p \in Procs : pc[p] = "send" /\ call[p].item = i /\ call[p].delay = d

\* An instant of the key no later than d.
Sooner(i, d) == \E e \in Deadlines(i) : e <= d

\* The loop has the key in its hands after the step.
TakenByLoop(i) == loop'.pc \in {"popAdd", "recvAdd"} /\ loop'.item = i

LEMMA WhereDeadlines ==
  /\ \A i, d : d \in Deadlines(i) <=> Sent(i, d) \/ Heaped(i, d) \/ Sending(i, d)
  /\ \A i, d : d \in Deadlines(i)' <=> Sent(i, d)' \/ Heaped(i, d)' \/ Sending(i, d)'
BY DEF Deadlines, Sent, Heaped, Sending

\* What the channel holds.
LEMMA EntriesInChannel ==
  ASSUME TypeOK
  PROVE  /\ waitingForAddCh \in Seq([item : Items, delay : Nat])
         /\ \A k \in DOMAIN waitingForAddCh :
               waitingForAddCh[k].item \in Items /\ waitingForAddCh[k].delay \in Nat
<1> DEFINE R == [item : Items, delay : Nat]
<1>1. waitingForAddCh \in Seq(R)
  BY DEF TypeOK, DelayTypeOK
<1> HIDE DEF R
<1>2. \A k \in DOMAIN waitingForAddCh : waitingForAddCh[k] \in R
  BY <1>1, ElementOfSeq, LenProperties
<1> QED  BY <1>1, <1>2 DEF R

\* Every instant is a number of ticks.
LEMMA DeadlinesAreNat ==
  ASSUME TypeOK, NEW i \in Items, NEW d \in Deadlines(i)
  PROVE  d \in Nat
<1>1. CASE Sent(i, d)
  BY <1>1, EntriesInChannel DEF Sent
<1>2. CASE Heaped(i, d)
  BY <1>2 DEF Heaped, TypeOK, DelayTypeOK
<1>3. CASE Sending(i, d)
  BY <1>3 DEF Sending, TypeOK, ProcTypeOK
<1> QED  BY <1>1, <1>2, <1>3, WhereDeadlines

\* The channel, the heap and the senders keep what they have.
Keeps ==
  /\ UNCHANGED <<waitingForAddCh, waiting>>
  /\ \A p \in Procs : pc[p] = "send" => pc'[p] = "send" /\ call'[p] = call[p]

LEMMA KeepsDeadlines ==
  ASSUME TypeOK, Keeps, NEW i \in Items, NEW d \in Deadlines(i)
  PROVE  Sooner(i, d)'
<1>1. d \in Deadlines(i)'
  BY WhereDeadlines DEF Keeps, Sent, Heaped, Sending
<1>2. d \in Nat
  BY DeadlinesAreNat
<1> QED  BY <1>1, <1>2 DEF Sooner

\* The steps of callers that send nothing.
LEMMA CallersKeep ==
  ASSUME TypeOK, NEW p \in Procs,
         \/ \E i \in Items : \/ Add(p, i) \/ AddRateLimited(p, i) \/ Forget(p, i)
                             \/ Done(p, i)
                             \/ \E d \in AddAfterDelays : AddAfter(p, i, d)
         \/ Get(p) \/ GetFresh(p) \/ ShutDown(p) \/ ShutDownWithDrain(p)
         \/ AddAfterIsFresh(p) \/ AddAfterAdd(p) \/ When(p) \/ AddRateLimitedAfter(p)
         \/ waitForProcessing(p)
  PROVE  Keeps
<1>1. pc \in [Procs -> ProcPcs] /\ DOMAIN call = Procs
  BY DEF TypeOK, ProcTypeOK
<1> DEFINE Others == /\ UNCHANGED <<waitingForAddCh, waiting>>
                     /\ pc[p] # "send"
                     /\ \A q \in Procs : q # p => pc'[q] = pc[q] /\ call'[q] = call[q]
<1>2. ASSUME Others  PROVE Keeps
  BY <1>2 DEF Keeps
<1>3. ASSUME NEW i \in Items, Add(p, i) \/ Forget(p, i) \/ Done(p, i)  PROVE Keeps
  BY <1>3 DEF Add, Forget, Done, delayVars, procVars, Keeps
<1>4. ASSUME NEW i \in Items, AddRateLimited(p, i)  PROVE Others
  BY <1>1, <1>4 DEF AddRateLimited, delayVars
<1>5. ASSUME NEW i \in Items, NEW d \in AddAfterDelays, AddAfter(p, i, d)  PROVE Others
  BY <1>1, <1>5 DEF AddAfter, afterCheck, delayVars
<1>6. ASSUME Get(p) \/ GetFresh(p)  PROVE Others
  BY <1>1, <1>6 DEF Get, GetFresh, TakeFresh, TakeStaled, WaitOrReturn, delayVars
<1>7. ASSUME ShutDown(p) \/ ShutDownWithDrain(p) \/ waitForProcessing(p)  PROVE Others
  BY <1>1, <1>7 DEF ShutDown, ShutDownWithDrain, waitForProcessing, delayVars
<1>8. ASSUME AddAfterIsFresh(p) \/ AddAfterAdd(p)  PROVE Others
  BY <1>1, <1>8 DEF AddAfterIsFresh, AddAfterAdd, delayVars
<1>9. ASSUME When(p) \/ AddRateLimitedAfter(p)  PROVE Others
  BY <1>1, <1>9 DEF When, AddRateLimitedAfter, afterCheck, delayVars
<1> HIDE DEF Others
<1> QED  BY <1>2, <1>3, <1>4, <1>5, <1>6, <1>7, <1>8, <1>9

\* The loop, where it neither pops nor receives.
LEMMA LoopKeeps ==
  ASSUME LoopTop \/ LoopAdd \/ LoopStop \/ LoopTimer \/ LoopDrained \/ LoopHeartbeat
  PROVE  Keeps
BY DEF LoopTop, LoopAdd, LoopStop, LoopTimer, LoopDrained, LoopHeartbeat, procVars, Keeps

\* A sent entry waits in the channel for the instant it waited for in the call.
LEMMA SendKeepsDeadlines ==
  ASSUME TypeOK, NEW p \in Procs, AddAfterSend(p), NEW i \in Items, NEW d \in Deadlines(i)
  PROVE  Sooner(i, d)' \/ shuttingDown
<1> DEFINE e == [item |-> call[p].item, delay |-> call[p].delay]
           R == [item : Items, delay : Nat]
<1>1. /\ pc \in [Procs -> ProcPcs] /\ DOMAIN call = Procs
      /\ waitingForAddCh \in Seq(R) /\ d \in Nat
  BY DeadlinesAreNat DEF TypeOK, ProcTypeOK, DelayTypeOK
<1>2. \A q \in Procs : q # p => pc'[q] = pc[q] /\ call'[q] = call[q]
  BY <1>1 DEF AddAfterSend
<1>3. waiting' = waiting
  BY DEF AddAfterSend
<1>4. e \in R /\ e.item = call[p].item /\ e.delay = call[p].delay
  BY DEF AddAfterSend, TypeOK, ProcTypeOK, Callers
<1> SUFFICES ASSUME ~shuttingDown  PROVE Sooner(i, d)'
  OBVIOUS
<1>5. waitingForAddCh' = Append(waitingForAddCh, e)
  BY DEF AddAfterSend, Send
<1> HIDE DEF e, R
<1>6. /\ Len(waitingForAddCh') = Len(waitingForAddCh) + 1
      /\ \A k \in 1 .. Len(waitingForAddCh) : waitingForAddCh'[k] = waitingForAddCh[k]
      /\ waitingForAddCh'[Len(waitingForAddCh) + 1] = e
      /\ waitingForAddCh' \in Seq(R)
  BY <1>1, <1>4, <1>5, AppendProperties
<1>7. /\ DOMAIN waitingForAddCh = 1 .. Len(waitingForAddCh)
      /\ DOMAIN waitingForAddCh' = 1 .. Len(waitingForAddCh) + 1
      /\ Len(waitingForAddCh) \in Nat
  BY <1>1, <1>6, LenProperties
<1>8. CASE Sent(i, d)
  <2>1. Sent(i, d)'
    BY <1>6, <1>7, <1>8 DEF Sent
  <2> QED  BY <1>1, <2>1, WhereDeadlines DEF Sooner
<1>9. CASE Heaped(i, d)
  <2>1. Heaped(i, d)'
    BY <1>3, <1>9 DEF Heaped
  <2> QED  BY <1>1, <2>1, WhereDeadlines DEF Sooner
<1>10. CASE Sending(i, d)
  <2>1. PICK q \in Procs : pc[q] = "send" /\ call[q].item = i /\ call[q].delay = d
    BY <1>10 DEF Sending
  <2>2. CASE q = p
    <3>1. Sent(i, d)'
      BY <1>4, <1>6, <1>7, <2>1, <2>2 DEF Sent
    <3> QED  BY <1>1, <3>1, WhereDeadlines DEF Sooner
  <2>3. CASE q # p
    <3>1. Sending(i, d)'
      BY <1>2, <2>1, <2>3 DEF Sending
    <3> QED  BY <1>1, <3>1, WhereDeadlines DEF Sooner
  <2> QED  BY <2>2, <2>3
<1> QED  BY <1>8, <1>9, <1>10, WhereDeadlines

\* A popped key is in the loop's hands; the others stay in the heap.
LEMMA PopKeepsDeadlines ==
  ASSUME TypeOK, LoopPop, NEW i \in Items, NEW d \in Deadlines(i)
  PROVE  Sooner(i, d)' \/ TakenByLoop(i)
<1>1. /\ waiting \in [Items -> Nat \cup {NotWaiting}]
      /\ UNCHANGED <<waitingForAddCh, pc, call>> /\ d \in Nat
  BY DeadlinesAreNat DEF LoopPop, procVars, TypeOK, DelayTypeOK
<1>2. CASE waiting' = waiting
  BY <1>1, <1>2, KeepsDeadlines DEF Keeps
<1>3. ASSUME NEW k \in loop.ready,
             loop' = [pc |-> "popAdd", ready |-> loop.ready \ {k},
                      item |-> k, fresh |-> isFresh(k)],
             waiting' = [waiting EXCEPT ![k] = NotWaiting]
      PROVE  Sooner(i, d)' \/ TakenByLoop(i)
  <2>1. CASE i = k
    BY <1>3, <2>1 DEF TakenByLoop
  <2>2. CASE i # k
    <3>1. waiting'[i] = waiting[i]
      BY <1>1, <1>3, <2>2
    <3>2. d \in Deadlines(i)'
      BY <1>1, <3>1, WhereDeadlines DEF Sent, Heaped, Sending
    <3> QED  BY <1>1, <3>2 DEF Sooner
  <2> QED  BY <2>1, <2>2
<1> QED  BY <1>2, <1>3 DEF LoopPop

\* A received entry is in the heap at its own instant or an earlier one, or in
\* the loop's hands.
LEMMA ReceiveKeepsDeadlines ==
  ASSUME TypeOK, LoopReceive, NEW i \in Items, NEW d \in Deadlines(i)
  PROVE  Sooner(i, d)' \/ TakenByLoop(i)
<1> DEFINE e == Head(waitingForAddCh)
           R == [item : Items, delay : Nat]
<1>1. /\ waitingForAddCh \in Seq(R) /\ waiting \in [Items -> Nat \cup {NotWaiting}]
      /\ waitingForAddCh # <<>> /\ UNCHANGED <<pc, call>> /\ d \in Nat
      /\ waitingForAddCh' = Tail(waitingForAddCh)
  BY DeadlinesAreNat DEF LoopReceive, procVars, TypeOK, DelayTypeOK
<1>2. \/ insert(e)
      \/ /\ loop' = [pc |-> "recvAdd", ready |-> {}, item |-> e.item,
                     fresh |-> isFresh(e.item)]
         /\ UNCHANGED waiting
  BY DEF LoopReceive
<1> HIDE DEF R
<1>3. e \in R /\ e = waitingForAddCh[1]
  BY <1>1, HeadTailProperties, EmptySeq
<1>4. e.item \in Items /\ e.delay \in Nat
  BY <1>3 DEF R
<1> HIDE DEF e
<1>5. /\ Len(Tail(waitingForAddCh)) = Len(waitingForAddCh) - 1
      /\ \A k \in 1 .. Len(Tail(waitingForAddCh)) :
            Tail(waitingForAddCh)[k] = waitingForAddCh[k + 1]
      /\ Tail(waitingForAddCh) \in Seq(R)
      /\ Len(waitingForAddCh) \in Nat
      /\ DOMAIN waitingForAddCh = 1 .. Len(waitingForAddCh)
  BY <1>1, HeadTailProperties, LenProperties
<1>6. DOMAIN waitingForAddCh' = 1 .. Len(waitingForAddCh) - 1
  BY <1>1, <1>5, LenProperties
<1>7. ASSUME insert(e), e.item = i, Heaped(i, d) \/ d = e.delay
      PROVE  Sooner(i, d)'
  <2>1. waiting'[i] \in Nat /\ waiting'[i] <= d
    BY <1>1, <1>4, <1>7 DEF insert, Heaped, NotWaiting
  <2>2. PICK c \in Nat : c = waiting'[i] /\ c <= d
    BY <2>1
  <2>3. Heaped(i, c)'
    BY <2>2 DEF Heaped, NotWaiting
  <2> QED  BY <2>2, <2>3, WhereDeadlines DEF Sooner
<1>8. CASE Sent(i, d)
  <2>1. PICK k \in 1 .. Len(waitingForAddCh) : /\ waitingForAddCh[k].item = i
                                               /\ waitingForAddCh[k].delay = d
    BY <1>5, <1>8 DEF Sent
  <2>2. CASE k = 1
    <3>1. e.item = i /\ e.delay = d
      BY <1>3, <2>1, <2>2
    <3>2. CASE insert(e)
      BY <1>1, <1>7, <3>1, <3>2
    <3>3. CASE loop' = [pc |-> "recvAdd", ready |-> {}, item |-> e.item,
                        fresh |-> isFresh(e.item)]
      BY <3>1, <3>3 DEF TakenByLoop
    <3> QED  BY <1>2, <3>2, <3>3
  <2>3. CASE k # 1
    <3>1. k - 1 \in 1 .. Len(waitingForAddCh) - 1 /\ waitingForAddCh'[k - 1] = waitingForAddCh[k]
      BY <1>1, <1>5, <2>1, <2>3
    <3>2. Sent(i, d)'
      BY <1>6, <2>1, <3>1 DEF Sent
    <3> QED  BY <1>1, <3>2, WhereDeadlines DEF Sooner
  <2> QED  BY <2>2, <2>3
<1>9. CASE Heaped(i, d)
  <2>1. CASE waiting'[i] = waiting[i]
    <3>1. Heaped(i, d)'
      BY <1>9, <2>1 DEF Heaped
    <3> QED  BY <1>1, <3>1, WhereDeadlines DEF Sooner
  <2>2. CASE waiting'[i] # waiting[i]
    <3>1. insert(e) /\ e.item = i
      BY <1>1, <1>2, <2>2 DEF insert
    <3> QED  BY <1>1, <1>7, <1>9, <3>1
  <2> QED  BY <2>1, <2>2
<1>10. CASE Sending(i, d)
  <2>1. Sending(i, d)'
    BY <1>1, <1>10 DEF Sending
  <2> QED  BY <1>1, <2>1, WhereDeadlines DEF Sooner
<1> QED  BY <1>8, <1>9, <1>10, WhereDeadlines

\* Time takes a tick off every instant that is not past.
LEMMA TickKeepsDeadlines ==
  ASSUME TypeOK, Tick, NEW i \in Items, NEW d \in Deadlines(i)
  PROVE  Sooner(i, d)'
<1>1. /\ waiting \in [Items -> Nat \cup {NotWaiting}] /\ d \in Nat
      /\ call \in [Procs -> [item : Items \cup {NoItem}, fresh : BOOLEAN, delay : Nat]]
      /\ pc' = pc
  BY DeadlinesAreNat DEF Tick, TypeOK, DelayTypeOK, ProcTypeOK
<1>2. Elapse(d) \in Nat /\ Elapse(d) <= d
  BY <1>1 DEF Elapse
<1>3. CASE Sent(i, d)
  <2>1. PICK k \in DOMAIN waitingForAddCh : /\ waitingForAddCh[k].item = i
                                            /\ waitingForAddCh[k].delay = d
    BY <1>3 DEF Sent
  <2>2. /\ k \in DOMAIN waitingForAddCh'
        /\ waitingForAddCh'[k] = [waitingForAddCh[k] EXCEPT !.delay = Elapse(@)]
    BY <2>1 DEF Tick
  <2>3. waitingForAddCh'[k].item = i /\ waitingForAddCh'[k].delay = Elapse(d)
    <3> DEFINE R == [item : Items, delay : Nat]
    <3>1. waitingForAddCh[k] \in R
      <4>1. waitingForAddCh \in Seq(R)
        BY EntriesInChannel
      <4> HIDE DEF R
      <4> QED  BY <2>1, <4>1, ElementOfSeq, LenProperties
    <3> QED  BY <2>1, <2>2, <3>1
  <2>4. Sent(i, Elapse(d))'
    BY <2>2, <2>3 DEF Sent, Elapse
  <2>5. Elapse(d) \in Deadlines(i)'
    BY <2>4, WhereDeadlines DEF Elapse
  <2> QED  BY <1>2, <2>5 DEF Sooner
<1>4. CASE Heaped(i, d)
  <2>1. waiting'[i] = Elapse(d)
    BY <1>1, <1>4 DEF Tick, Heaped
  <2>2. Elapse(d) \in Deadlines(i)'
    BY <1>2, <2>1, WhereDeadlines DEF Heaped, NotWaiting, Elapse
  <2> QED  BY <1>2, <2>2 DEF Sooner
<1>5. CASE Sending(i, d)
  <2>1. PICK q \in Procs : pc[q] = "send" /\ call[q].item = i /\ call[q].delay = d
    BY <1>5 DEF Sending
  <2>2. call'[q].item = i /\ call'[q].delay = Elapse(d)
    BY <1>1, <2>1 DEF Tick
  <2>3. Elapse(d) \in Deadlines(i)'
    BY <1>1, <2>1, <2>2, WhereDeadlines DEF Sending, Elapse
  <2> QED  BY <1>2, <2>3 DEF Sooner
<1> QED  BY <1>3, <1>4, <1>5, WhereDeadlines

LEMMA DeadlineStep ==
  ASSUME TypeOK, [Next]_vars, NEW i \in Items, NEW d \in Deadlines(i)
  PROVE  Sooner(i, d)' \/ TakenByLoop(i) \/ shuttingDown
<1>1. CASE Keeps
  BY <1>1, KeepsDeadlines
<1>2. /\ Adders \subseteq Procs /\ Getters \subseteq Procs
      /\ FreshGetters \subseteq Procs /\ Closers \subseteq Procs
  BY DEF Procs
<1>3. CASE \E p \in Adders, k \in Items :
             \/ Add(p, k)
             \/ \E x \in AddAfterDelays : AddAfter(p, k, x)
             \/ AddRateLimited(p, k)
             \/ Forget(p, k)
  BY <1>1, <1>2, <1>3, CallersKeep
<1>4. CASE \/ \E p \in Getters : Get(p)
           \/ \E p \in FreshGetters : GetFresh(p)
           \/ \E p \in Procs, k \in Items : Done(p, k)
           \/ \E p \in Closers : ShutDown(p) \/ ShutDownWithDrain(p)
  BY <1>1, <1>2, <1>4, CallersKeep
<1>5. CASE \E p \in Procs : CallStep(p)
  BY <1>1, <1>5, CallersKeep, SendKeepsDeadlines DEF CallStep
<1>6. CASE LoopStep \/ LoopHeartbeat \/ Tick
  BY <1>1, <1>6, LoopKeeps, PopKeepsDeadlines, ReceiveKeepsDeadlines, TickKeepsDeadlines
     DEF LoopStep
<1>7. CASE UNCHANGED vars
  BY <1>1, <1>7 DEF vars, Keeps
<1> QED  BY <1>3, <1>4, <1>5, <1>6, <1>7 DEF Next

\* An instant a key waits for is never replaced by a later one, on its way from
\* AddAfter through the channel and the heap, for any number of entries, calls
\* and keys.
THEOREM DelaysNotPostponed == Spec => NeverPostponed
<1> DEFINE Step == \A i \in Items : \A d \in Deadlines(i) :
                      \/ \E e \in Deadlines(i)' : e <= d
                      \/ loop'.pc \in {"popAdd", "recvAdd"} /\ loop'.item = i
                      \/ shuttingDown
<1>1. Init => TypeOK
  BY InitType
<1>2. TypeOK /\ [Next]_vars => TypeOK' /\ [Step]_vars
  BY TypeStep, DeadlineStep DEF Sooner, TakenByLoop
<1> QED  BY <1>1, <1>2, PTL DEF Spec, NeverPostponed

\* What the loop takes in its hands was due.
LEMMA EarlyStep ==
  ASSUME RefInv, [Next]_vars, NEW i \in Items, TakenByLoop(i), loop' # loop
  PROVE  0 \in Deadlines(i)
<1>1. CASE LoopPop
  <2>1. i \in loop.ready
    BY <1>1 DEF LoopPop, TakenByLoop, LoopAt
  <2>2. Heaped(i, 0)
    BY <2>1 DEF RefInv, ReadyIsDue, Due, Heaped, NotWaiting
  <2> QED  BY <2>2, WhereDeadlines
<1>2. CASE LoopReceive
  <2> DEFINE e == Head(waitingForAddCh)
             R == [item : Items, delay : Nat]
  <2>1. /\ waitingForAddCh # <<>> /\ waitingForAddCh \in Seq(R)
        /\ \/ loop' = LoopAt("drain")
           \/ /\ e.delay = 0
              /\ loop' = [pc |-> "recvAdd", ready |-> {}, item |-> e.item,
                          fresh |-> isFresh(e.item)]
    BY <1>2, EntriesInChannel DEF LoopReceive, RefInv, QueueInv
  <2> HIDE DEF R
  <2>2. e = waitingForAddCh[1] /\ 1 \in DOMAIN waitingForAddCh
    BY <2>1, EmptySeq, LenProperties
  <2> HIDE DEF e
  <2>3. e.delay = 0 /\ e.item = i
    BY <2>1 DEF TakenByLoop, LoopAt
  <2>4. Sent(i, 0)
    BY <2>2, <2>3 DEF Sent
  <2> QED  BY <2>4, WhereDeadlines
<1>3. CASE LoopTop \/ LoopAdd \/ LoopStop \/ LoopTimer \/ LoopDrained \/ LoopHeartbeat
  BY <1>3 DEF LoopTop, LoopAdd, LoopStop, LoopTimer, LoopDrained, LoopHeartbeat, LoopAt,
              TakenByLoop
<1>4. CASE Tick \/ UNCHANGED vars
  BY <1>4 DEF Tick, vars
<1>5. CASE \E p \in Procs : CallStep(p)
  BY <1>5 DEF CallStep, AddAfterIsFresh, AddAfterAdd, AddAfterSend, When,
              AddRateLimitedAfter, waitForProcessing, delayVars
<1>6. CASE \E p \in Adders, k \in Items :
             \/ Add(p, k)
             \/ \E x \in AddAfterDelays : AddAfter(p, k, x)
             \/ AddRateLimited(p, k)
             \/ Forget(p, k)
  BY <1>6 DEF Add, AddAfter, AddRateLimited, Forget, delayVars
<1>7. CASE \/ \E p \in Getters : Get(p)
           \/ \E p \in FreshGetters : GetFresh(p)
           \/ \E p \in Procs, k \in Items : Done(p, k)
           \/ \E p \in Closers : ShutDown(p) \/ ShutDownWithDrain(p)
  BY <1>7 DEF Get, GetFresh, Done, ShutDown, ShutDownWithDrain, delayVars
<1> QED  BY <1>1, <1>2, <1>3, <1>4, <1>5, <1>6, <1>7 DEF Next, LoopStep

\* The loop never adds a key before an instant that key waits for: an entry it
\* has found ready stays due, and keeps its place in the heap, until it is popped.
THEOREM DelaysNotCut == Spec => NeverEarly
<1> DEFINE Step == \A i \in Items :
                      (loop'.pc \in {"popAdd", "recvAdd"} /\ loop'.item = i /\ loop' # loop)
                         => 0 \in Deadlines(i)
<1>1. Init => RefInv
  BY InitRefInv
<1>2. RefInv /\ [Next]_vars => RefInv' /\ [Step]_vars
  BY RefInvStep, EarlyStep DEF TakenByLoop
<1> QED  BY <1>1, <1>2, PTL DEF Spec, NeverEarly
===============================================================================
