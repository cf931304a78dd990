-------------------------- MODULE PlayboyQueueProofs ---------------------------
(***************************************************************************)
(* Proofs about PlayboyQueue, for any sets of keys and goroutines, any     *)
(* thresholds, delays and capacity of the channel.                         *)
(***************************************************************************)
EXTENDS PlayboyQueue, SequenceTheorems, TLAPS

-----------------------------------------------------------------------------
(***************************************************************************)
(* Sequences without repetition, the shape of the two queues.              *)
(***************************************************************************)
\* Appending adds exactly the new element.
LEMMA AppendToSet ==
  ASSUME NEW S, NEW s \in Seq(S), NEW x \in S
  PROVE  /\ Append(s, x) \in Seq(S)
         /\ Len(Append(s, x)) = Len(s) + 1
         /\ ToSet(Append(s, x)) = ToSet(s) \cup {x}
<1>1. /\ Append(s, x) \in Seq(S)
      /\ Len(Append(s, x)) = Len(s) + 1
      /\ \A k \in 1 .. Len(s) : Append(s, x)[k] = s[k]
      /\ Append(s, x)[Len(s) + 1] = x
  BY AppendProperties
<1>2. DOMAIN s = 1 .. Len(s) /\ DOMAIN Append(s, x) = 1 .. Len(s) + 1 /\ Len(s) \in Nat
  BY <1>1, LenProperties
<1>3. ToSet(Append(s, x)) \subseteq ToSet(s) \cup {x}
  BY <1>1, <1>2 DEF ToSet
<1>4. ToSet(s) \cup {x} \subseteq ToSet(Append(s, x))
  BY <1>1, <1>2 DEF ToSet
<1> QED  BY <1>1, <1>3, <1>4

\* Appending an element that is not there keeps a sequence free of repetition.
LEMMA AppendNew ==
  ASSUME NEW S, NEW s \in Seq(S), NEW x \in S
  PROVE  x \notin ToSet(s) /\ IsInjective(s) => IsInjective(Append(s, x))
<1> SUFFICES ASSUME x \notin ToSet(s), IsInjective(s)
             PROVE  IsInjective(Append(s, x))
  OBVIOUS
<1>1. /\ Append(s, x) \in Seq(S)
      /\ Len(Append(s, x)) = Len(s) + 1
      /\ \A k \in 1 .. Len(s) : Append(s, x)[k] = s[k]
      /\ Append(s, x)[Len(s) + 1] = x
  BY AppendProperties
<1>2. DOMAIN s = 1 .. Len(s) /\ DOMAIN Append(s, x) = 1 .. Len(s) + 1 /\ Len(s) \in Nat
  BY <1>1, LenProperties
<1>3. \A k \in 1 .. Len(s) : s[k] # x
  BY <1>2 DEF ToSet
<1>4. \A a, b \in 1 .. Len(s) : s[a] = s[b] => a = b
  BY <1>2 DEF IsInjective
<1>5. ASSUME NEW a \in 1 .. Len(s) + 1, NEW b \in 1 .. Len(s) + 1,
             Append(s, x)[a] = Append(s, x)[b]
      PROVE  a = b
  BY <1>1, <1>2, <1>3, <1>4, <1>5
<1> QED  BY <1>2, <1>5 DEF IsInjective

\* Taking the head off removes exactly it.
LEMMA TailToSet ==
  ASSUME NEW S, NEW s \in Seq(S), s # <<>>
  PROVE  /\ Tail(s) \in Seq(S)
         /\ Head(s) \in ToSet(s)
         /\ ToSet(Tail(s)) \subseteq ToSet(s)
         /\ IsInjective(s) => /\ IsInjective(Tail(s))
                              /\ ToSet(Tail(s)) = ToSet(s) \ {Head(s)}
<1>1. /\ Tail(s) \in Seq(S)
      /\ Len(Tail(s)) = Len(s) - 1
      /\ \A k \in 1 .. Len(Tail(s)) : Tail(s)[k] = s[k + 1]
  BY HeadTailProperties
<1>2. Len(s) \in Nat \ {0} /\ DOMAIN s = 1 .. Len(s)
  BY EmptySeq, LenProperties
<1>3. DOMAIN Tail(s) = 1 .. Len(s) - 1
  BY <1>1, <1>2, LenProperties
<1>4. Head(s) = s[1]
  BY <1>2
<1>5. Head(s) \in ToSet(s)
  BY <1>2, <1>4 DEF ToSet
<1>6. ToSet(Tail(s)) \subseteq ToSet(s)
  BY <1>1, <1>2, <1>3 DEF ToSet
<1>7. ASSUME IsInjective(s)
      PROVE  IsInjective(Tail(s)) /\ ToSet(Tail(s)) = ToSet(s) \ {Head(s)}
  <2>1. IsInjective(Tail(s))
    BY <1>1, <1>2, <1>3, <1>7 DEF IsInjective
  <2>2. Head(s) \notin ToSet(Tail(s))
    BY <1>1, <1>2, <1>3, <1>4, <1>7 DEF IsInjective, ToSet
  <2>3. ASSUME NEW x \in ToSet(s), x # Head(s)  PROVE x \in ToSet(Tail(s))
    <3>1. PICK k \in 1 .. Len(s) : s[k] = x
      BY <1>2 DEF ToSet
    <3>2. k - 1 \in 1 .. Len(s) - 1 /\ Tail(s)[k - 1] = x
      BY <1>1, <1>2, <1>3, <1>4, <2>3, <3>1
    <3> QED  BY <1>3, <3>2 DEF ToSet
  <2> QED  BY <1>6, <2>1, <2>2, <2>3
<1> QED  BY <1>1, <1>5, <1>6, <1>7
-----------------------------------------------------------------------------
(***************************************************************************)
(* Type correctness.                                                       *)
(***************************************************************************)
\* Waking waiters leaves a queue of goroutines.
LEMMA SignalType ==
  ASSUME waiters \in Seq(Procs), Signal \/ Broadcast
  PROVE  waiters' \in Seq(Procs)
<1>1. CASE Signal
  BY <1>1, TailToSet DEF Signal
<1>2. CASE Broadcast
  BY <1>2, EmptySeq DEF Broadcast
<1> QED  BY <1>1, <1>2

\* Pushing a key keeps the queues sequences of keys.
LEMMA PushType ==
  ASSUME queueFresh \in Seq(Items), queueStaled \in Seq(Items), waiters \in Seq(Procs),
         NEW i \in Items, NEW fresh \in BOOLEAN, Push(i, fresh)
  PROVE  /\ queueFresh' \in Seq(Items)
         /\ queueStaled' \in Seq(Items)
         /\ waiters' \in Seq(Procs)
<1>1. waiters' \in Seq(Procs)
  BY SignalType DEF Push
<1>2. queueFresh' \in Seq(Items) /\ queueStaled' \in Seq(Items)
  <2>1. CASE fresh
    BY <2>1, AppendToSet DEF Push
  <2>2. CASE ~fresh
    BY <2>2, AppendToSet DEF Push
  <2> QED  BY <2>1, <2>2
<1> QED  BY <1>1, <1>2

\* So does adding one.
LEMMA AddType ==
  ASSUME CondTypeOK, NEW i \in Items, NEW fresh \in BOOLEAN, add(i, fresh)
  PROVE  CondTypeOK'
<1>1. CASE UNCHANGED condVars
  BY <1>1 DEF CondTypeOK, condVars
<1>2. CASE /\ dirty' = dirty \cup {i}
           /\ IF i \in processing
              THEN UNCHANGED <<queueFresh, queueStaled, waiters>>
              ELSE Push(i, fresh)
           /\ UNCHANGED <<processing, shuttingDown>>
  <2>1. dirty' \subseteq Items /\ processing' \subseteq Items /\ shuttingDown' \in BOOLEAN
    BY <1>2 DEF CondTypeOK
  <2>2. /\ queueFresh' \in Seq(Items)
        /\ queueStaled' \in Seq(Items)
        /\ waiters' \in Seq(Procs)
    <3>1. CASE i \in processing
      BY <1>2, <3>1 DEF CondTypeOK
    <3>2. CASE i \notin processing
      BY <1>2, <3>2, PushType DEF CondTypeOK
    <3> QED  BY <3>1, <3>2
  <2> QED  BY <2>1, <2>2 DEF CondTypeOK
<1> QED  BY <1>1, <1>2 DEF add

\* What AddAfter leaves behind when ShuttingDown has returned.
LEMMA AfterCheckType ==
  ASSUME ProcTypeOK, NEW p \in Procs, NEW i \in Items, NEW d \in Nat,
         afterCheck(p, i, d), held' = held
  PROVE  ProcTypeOK'
<1>1. CASE /\ pc' = [pc EXCEPT ![p] = "idle"]
           /\ call' = [call EXCEPT ![p] = NoCall]
  BY <1>1 DEF ProcTypeOK, Callers, NoCall, ProcPcs
<1>2. CASE /\ pc' = [pc EXCEPT ![p] = IF d = 0 THEN "isFresh" ELSE "send"]
           /\ call' = [call EXCEPT ![p] = [item |-> i, fresh |-> FALSE, delay |-> d]]
  BY <1>2 DEF ProcTypeOK, Callers, ProcPcs
<1> QED  BY <1>1, <1>2 DEF afterCheck

\* The end of a call.
LEMMA ReturnType ==
  ASSUME ProcTypeOK, NEW p \in Procs, held' = held,
         pc' = [pc EXCEPT ![p] = "idle"], call' = [call EXCEPT ![p] = NoCall]
  PROVE  ProcTypeOK'
BY DEF ProcTypeOK, Callers, NoCall, ProcPcs

\* Taking a key from either queue.
LEMMA TakeType ==
  ASSUME TypeOK, NEW p \in Procs, TakeFresh(p) \/ TakeStaled(p),
         UNCHANGED <<shuttingDown, call>>
  PROVE  CondTypeOK' /\ ProcTypeOK'
<1>1. CASE TakeFresh(p)
  <2>1. Head(queueFresh) \in Items /\ Tail(queueFresh) \in Seq(Items)
    BY <1>1, HeadTailProperties DEF TakeFresh, TypeOK, CondTypeOK
  <2>2. CondTypeOK'
    BY <1>1, <2>1 DEF TakeFresh, TypeOK, CondTypeOK
  <2>3. ProcTypeOK'
    BY <1>1, <2>1 DEF TakeFresh, TypeOK, ProcTypeOK, Callers, ProcPcs
  <2> QED  BY <2>2, <2>3
<1>2. CASE TakeStaled(p)
  <2>1. Head(queueStaled) \in Items /\ Tail(queueStaled) \in Seq(Items)
    BY <1>2, HeadTailProperties DEF TakeStaled, TypeOK, CondTypeOK
  <2>2. CondTypeOK'
    BY <1>2, <2>1 DEF TakeStaled, TypeOK, CondTypeOK
  <2>3. ProcTypeOK'
    BY <1>2, <2>1 DEF TakeStaled, TypeOK, ProcTypeOK, Callers, ProcPcs
  <2> QED  BY <2>2, <2>3
<1> QED  BY <1>1, <1>2

\* Finding nothing to take.
LEMMA WaitOrReturnType ==
  ASSUME TypeOK, NEW p \in Procs, NEW place \in {"get", "getFresh"},
         WaitOrReturn(p, place), UNCHANGED <<shuttingDown, call>>
  PROVE  CondTypeOK' /\ ProcTypeOK'
<1>1. Append(waiters, p) \in Seq(Procs)
  BY AppendToSet DEF TypeOK, CondTypeOK
<1>2. CondTypeOK'
  BY <1>1 DEF WaitOrReturn, Wait, TypeOK, CondTypeOK
<1>3. ProcTypeOK'
  BY DEF WaitOrReturn, TypeOK, ProcTypeOK, Callers, ProcPcs
<1> QED  BY <1>2, <1>3

LoopType == [pc : LoopPcs, ready : SUBSET Items, item : Items \cup {NoItem},
             fresh : BOOLEAN]

\* Between two adds the loop holds no item.
LEMMA LoopAtType ==
  ASSUME NEW place \in LoopPcs \ {"popAdd", "recvAdd"}, NEW R \in SUBSET Items
  PROVE  /\ LoopAt(place) \in LoopType
         /\ LoopAt(place).pc \notin {"popAdd", "recvAdd"}
         /\ [LoopAt(place) EXCEPT !.ready = R] \in LoopType
         /\ [LoopAt(place) EXCEPT !.ready = R].pc \notin {"popAdd", "recvAdd"}
BY DEF LoopAt, LoopType, LoopPcs

\* An add the loop is about to make has an item.
LEMMA LoopAddType ==
  ASSUME NEW place \in {"popAdd", "recvAdd"}, NEW R \in SUBSET Items,
         NEW i \in Items, NEW fresh \in BOOLEAN
  PROVE  [pc |-> place, ready |-> R, item |-> i, fresh |-> fresh] \in LoopType
BY DEF LoopType, LoopPcs

LEMMA IsFreshType == \A i : isFresh(i) \in BOOLEAN
BY DEF isFresh

\* Init establishes the types.
LEMMA InitType == Init => TypeOK
<1> SUFFICES ASSUME Init PROVE TypeOK
  OBVIOUS
<1>1. CondTypeOK
  BY EmptySeq DEF Init, CondTypeOK
<1>2. RetryTypeOK
  BY DEF Init, RetryTypeOK
<1>3. DelayTypeOK
  <2>1. <<>> \in Seq([item : Items, delay : Nat]) /\ Len(<<>>) = 0
    BY EmptySeq
  <2> QED  BY <2>1, ConstantsAssumption DEF Init, DelayTypeOK, LoopAt, LoopPcs
<1>4. ProcTypeOK
  BY DEF Init, ProcTypeOK, Callers, ProcPcs, NoCall
<1> QED  BY <1>1, <1>2, <1>3, <1>4 DEF TypeOK

\* Every step keeps the types.
LEMMA TypeStep == TypeOK /\ [Next]_vars => TypeOK'
<1> SUFFICES ASSUME TypeOK, [Next]_vars PROVE TypeOK'
  OBVIOUS
<1> USE DEF TypeOK
<1>1. ASSUME NEW p \in Adders, NEW i \in Items, Add(p, i)  PROVE TypeOK'
  <2>1. CondTypeOK'
    BY <1>1, AddType DEF Add
  <2>2. RetryTypeOK' /\ DelayTypeOK' /\ ProcTypeOK'
    BY <1>1 DEF Add, retryVars, delayVars, procVars,
                RetryTypeOK, DelayTypeOK, ProcTypeOK, Callers
  <2> QED  BY <2>1, <2>2
<1>2. ASSUME NEW p \in Adders, NEW i \in Items, NEW d \in AddAfterDelays, AddAfter(p, i, d)
      PROVE  TypeOK'
  <2>1. ProcTypeOK'
    BY <1>2, AfterCheckType, ConstantsAssumption DEF AddAfter, Procs
  <2>2. CondTypeOK' /\ RetryTypeOK' /\ DelayTypeOK'
    BY <1>2 DEF AddAfter, condVars, retryVars, delayVars,
                CondTypeOK, RetryTypeOK, DelayTypeOK
  <2> QED  BY <2>1, <2>2
<1>3. ASSUME NEW p \in Adders, NEW i \in Items, AddRateLimited(p, i)  PROVE TypeOK'
  <2>1. RetryTypeOK'
    BY <1>3 DEF AddRateLimited, RetryTypeOK
  <2>2. ProcTypeOK'
    BY <1>3 DEF AddRateLimited, ProcTypeOK, Callers, ProcPcs
  <2>3. CondTypeOK' /\ DelayTypeOK'
    BY <1>3 DEF AddRateLimited, condVars, delayVars, CondTypeOK, DelayTypeOK
  <2> QED  BY <2>1, <2>2, <2>3
<1>4. ASSUME NEW p \in Adders, NEW i \in Items, Forget(p, i)  PROVE TypeOK'
  <2>1. RetryTypeOK'
    BY <1>4 DEF Forget, RetryTypeOK
  <2>2. CondTypeOK' /\ DelayTypeOK' /\ ProcTypeOK'
    BY <1>4 DEF Forget, condVars, delayVars, procVars,
                CondTypeOK, DelayTypeOK, ProcTypeOK, Callers
  <2> QED  BY <2>1, <2>2
<1>5. ASSUME NEW p \in Getters, Get(p)  PROVE TypeOK'
  <2>1. CondTypeOK' /\ ProcTypeOK'
    BY <1>5, TakeType, WaitOrReturnType DEF Get, Procs
  <2>2. RetryTypeOK' /\ DelayTypeOK'
    BY <1>5 DEF Get, retryVars, delayVars, RetryTypeOK, DelayTypeOK
  <2> QED  BY <2>1, <2>2
<1>6. ASSUME NEW p \in FreshGetters, GetFresh(p)  PROVE TypeOK'
  <2>1. CondTypeOK' /\ ProcTypeOK'
    BY <1>6, TakeType, WaitOrReturnType DEF GetFresh, Procs
  <2>2. RetryTypeOK' /\ DelayTypeOK'
    BY <1>6 DEF GetFresh, retryVars, delayVars, RetryTypeOK, DelayTypeOK
  <2> QED  BY <2>1, <2>2
<1>7. ASSUME NEW p \in Procs, NEW i \in Items, Done(p, i)  PROVE TypeOK'
  <2>1. RequeueFresh(i) \in BOOLEAN
    BY DEF RequeueFresh
  <2>2. queueFresh' \in Seq(Items) /\ queueStaled' \in Seq(Items) /\ waiters' \in Seq(Procs)
    BY <1>7, <2>1, PushType DEF Done, CondTypeOK
  <2>3. CondTypeOK' /\ ProcTypeOK'
    BY <1>7, <2>2 DEF Done, CondTypeOK, ProcTypeOK, Callers
  <2>4. RetryTypeOK' /\ DelayTypeOK'
    BY <1>7 DEF Done, retryVars, delayVars, RetryTypeOK, DelayTypeOK
  <2> QED  BY <2>3, <2>4
<1>8. ASSUME NEW p \in Closers, ShutDown(p) \/ ShutDownWithDrain(p)  PROVE TypeOK'
  <2>1. waiters' \in Seq(Procs) /\ shuttingDown' \in BOOLEAN
    BY <1>8, SignalType DEF ShutDown, ShutDownWithDrain, shutDownOnce, CondTypeOK
  <2>2. CondTypeOK'
    BY <1>8, <2>1 DEF ShutDown, ShutDownWithDrain, CondTypeOK
  <2>3. ProcTypeOK'
    BY <1>8 DEF ShutDown, ShutDownWithDrain, ProcTypeOK, Callers, ProcPcs
  <2>4. RetryTypeOK' /\ DelayTypeOK'
    BY <1>8 DEF ShutDown, ShutDownWithDrain, retryVars, delayVars, RetryTypeOK, DelayTypeOK
  <2> QED  BY <2>2, <2>3, <2>4
<1>9. ASSUME NEW p \in Procs, CallStep(p)  PROVE TypeOK'
  <2>1. CASE AddAfterIsFresh(p)
    <3>0. PICK b \in BOOLEAN : call' = [call EXCEPT ![p].fresh = b]
      BY <2>1, IsFreshType DEF AddAfterIsFresh
    <3>1. ProcTypeOK'
      BY <2>1, <3>0 DEF AddAfterIsFresh, ProcTypeOK, Callers, ProcPcs
    <3>2. CondTypeOK' /\ RetryTypeOK' /\ DelayTypeOK'
      BY <2>1 DEF AddAfterIsFresh, condVars, retryVars, delayVars,
                  CondTypeOK, RetryTypeOK, DelayTypeOK
    <3> QED  BY <3>1, <3>2
  <2>2. CASE AddAfterAdd(p)
    <3>1. call[p].item \in Items /\ call[p].fresh \in BOOLEAN
      BY <2>2 DEF AddAfterAdd, ProcTypeOK, Callers
    <3>2. CondTypeOK'
      BY <2>2, <3>1, AddType DEF AddAfterAdd
    <3>3. ProcTypeOK'
      BY <2>2, ReturnType DEF AddAfterAdd
    <3>4. RetryTypeOK' /\ DelayTypeOK'
      BY <2>2 DEF AddAfterAdd, retryVars, delayVars, RetryTypeOK, DelayTypeOK
    <3> QED  BY <3>2, <3>3, <3>4
  <2>3. CASE AddAfterSend(p)
    <3> DEFINE e == [item |-> call[p].item, delay |-> call[p].delay]
    <3>0. UNCHANGED <<waiting, loop>>
      BY <2>3 DEF AddAfterSend
    <3>1. e \in [item : Items, delay : Nat]
      BY <2>3 DEF AddAfterSend, ProcTypeOK, Callers
    <3>2. ASSUME Send(e)  PROVE DelayTypeOK'
      <4> HIDE DEF e
      <4>1. /\ waitingForAddCh' \in Seq([item : Items, delay : Nat])
            /\ Len(waitingForAddCh') = Len(waitingForAddCh) + 1
        BY <3>1, <3>2, AppendToSet DEF Send, DelayTypeOK
      <4>2. Len(waitingForAddCh) \in Nat /\ Len(waitingForAddCh) < ChanCap
        BY <3>2, LenProperties DEF Send, DelayTypeOK
      <4>3. Len(waitingForAddCh') <= ChanCap
        BY <4>1, <4>2, ConstantsAssumption
      <4> QED  BY <3>0, <4>1, <4>3 DEF DelayTypeOK
    <3>3. ASSUME UNCHANGED waitingForAddCh  PROVE DelayTypeOK'
      BY <3>0, <3>3 DEF DelayTypeOK
    <3>4. DelayTypeOK'
      BY <2>3, <3>2, <3>3 DEF AddAfterSend
    <3>5. ProcTypeOK'
      BY <2>3, ReturnType DEF AddAfterSend
    <3>6. CondTypeOK' /\ RetryTypeOK'
      BY <2>3 DEF AddAfterSend, condVars, retryVars, CondTypeOK, RetryTypeOK
    <3> QED  BY <3>4, <3>5, <3>6
  <2>4. CASE When(p)
    <3>1. call[p].item \in Items
      BY <2>4 DEF When, ProcTypeOK, Callers
    <3>2. RetryTypeOK'
      BY <2>4, <3>1 DEF When, RetryTypeOK
    <3>3. PICK d \in Nat : call' = [call EXCEPT ![p].delay = d]
      BY <2>4, ConstantsAssumption DEF When
    <3>4. ProcTypeOK'
      BY <2>4, <3>1, <3>3 DEF When, ProcTypeOK, Callers, ProcPcs
    <3>5. CondTypeOK' /\ DelayTypeOK'
      BY <2>4 DEF When, condVars, delayVars, CondTypeOK, DelayTypeOK
    <3> QED  BY <3>2, <3>4, <3>5
  <2>5. CASE AddRateLimitedAfter(p)
    <3>1. call[p].item \in Items /\ call[p].delay \in Nat
      BY <2>5 DEF AddRateLimitedAfter, ProcTypeOK, Callers
    <3>2. ProcTypeOK'
      BY <2>5, <3>1, AfterCheckType DEF AddRateLimitedAfter
    <3>3. CondTypeOK' /\ RetryTypeOK' /\ DelayTypeOK'
      BY <2>5 DEF AddRateLimitedAfter, condVars, retryVars, delayVars,
                  CondTypeOK, RetryTypeOK, DelayTypeOK
    <3> QED  BY <3>2, <3>3
  <2>6. CASE waitForProcessing(p)
    <3>1. waiters' \in Seq(Procs)
      BY <2>6, AppendToSet DEF waitForProcessing, Wait, CondTypeOK
    <3>2. CondTypeOK' /\ ProcTypeOK'
      BY <2>6, <3>1 DEF waitForProcessing, CondTypeOK, ProcTypeOK, Callers, ProcPcs
    <3>3. RetryTypeOK' /\ DelayTypeOK'
      BY <2>6 DEF waitForProcessing, retryVars, delayVars, RetryTypeOK, DelayTypeOK
    <3> QED  BY <3>2, <3>3
  <2> QED  BY <1>9, <2>1, <2>2, <2>3, <2>4, <2>5, <2>6 DEF CallStep
<1>10. ASSUME LoopStep \/ LoopHeartbeat  PROVE TypeOK'
  <2>1. CASE LoopTop \/ LoopStop \/ LoopHeartbeat \/ LoopTimer \/ LoopDrained
    <3>1. loop' \in LoopType /\ loop'.pc \notin {"popAdd", "recvAdd"}
      BY <2>1, LoopAtType
         DEF LoopTop, LoopStop, LoopHeartbeat, LoopTimer, LoopDrained, LoopPcs
    <3>0. UNCHANGED <<waiting, waitingForAddCh>>
      BY <2>1 DEF LoopTop, LoopStop, LoopHeartbeat, LoopTimer, LoopDrained
    <3>3. DelayTypeOK'
      BY <3>0, <3>1 DEF DelayTypeOK, LoopType
    <3>2. CondTypeOK' /\ RetryTypeOK' /\ ProcTypeOK'
      BY <2>1 DEF LoopTop, LoopStop, LoopHeartbeat, LoopTimer, LoopDrained,
                  condVars, retryVars, procVars,
                  CondTypeOK, RetryTypeOK, ProcTypeOK, Callers
    <3> QED  BY <3>2, <3>3
  <2>2. CASE LoopPop
    <3>0. UNCHANGED waitingForAddCh
      BY <2>2 DEF LoopPop
    <3>3. ASSUME loop' = LoopAt("select"), UNCHANGED waiting
          PROVE  DelayTypeOK'
      BY <3>0, <3>3, LoopAtType DEF DelayTypeOK, LoopType, LoopPcs
    <3>4. ASSUME NEW i \in loop.ready,
                 loop' = [pc |-> "popAdd", ready |-> loop.ready \ {i},
                          item |-> i, fresh |-> isFresh(i)],
                 waiting' = [waiting EXCEPT ![i] = NotWaiting]
          PROVE  DelayTypeOK'
      <4>1. i \in Items /\ loop.ready \ {i} \in SUBSET Items
        BY DEF DelayTypeOK
      <4>2. loop' \in LoopType /\ loop'.item \in Items
        BY <3>4, <4>1, LoopAddType, IsFreshType
      <4>3. waiting' \in [Items -> Nat \cup {NotWaiting}]
        BY <3>4, <4>1 DEF DelayTypeOK
      <4> QED  BY <3>0, <4>2, <4>3 DEF DelayTypeOK, LoopType
    <3>1. DelayTypeOK'
      BY <2>2, <3>3, <3>4 DEF LoopPop
    <3>2. CondTypeOK' /\ RetryTypeOK' /\ ProcTypeOK'
      BY <2>2 DEF LoopPop, condVars, retryVars, procVars,
                  CondTypeOK, RetryTypeOK, ProcTypeOK, Callers
    <3> QED  BY <3>1, <3>2
  <2>3. CASE LoopAdd
    <3>1. loop.item \in Items /\ loop.fresh \in BOOLEAN
      BY <2>3 DEF LoopAdd, DelayTypeOK
    <3>2. CondTypeOK'
      BY <2>3, <3>1, AddType DEF LoopAdd
    <3>0. loop.ready \in SUBSET Items
      BY DEF DelayTypeOK
    <3>5. loop' \in LoopType /\ loop'.pc \notin {"popAdd", "recvAdd"}
      BY <2>3, <3>0, LoopAtType DEF LoopAdd, LoopPcs
    <3>3. DelayTypeOK'
      BY <2>3, <3>5 DEF LoopAdd, LoopType, DelayTypeOK
    <3>4. RetryTypeOK' /\ ProcTypeOK'
      BY <2>3 DEF LoopAdd, retryVars, procVars, RetryTypeOK, ProcTypeOK, Callers
    <3> QED  BY <3>2, <3>3, <3>4
  <2>4. CASE LoopReceive
    <3> DEFINE e == Head(waitingForAddCh)
    <3>0. waitingForAddCh # <<>> /\ waitingForAddCh' = Tail(waitingForAddCh)
      BY <2>4 DEF LoopReceive
    <3>1. /\ e \in [item : Items, delay : Nat]
          /\ waitingForAddCh' \in Seq([item : Items, delay : Nat])
          /\ Len(waitingForAddCh') = Len(waitingForAddCh) - 1
      BY <3>0, HeadTailProperties DEF DelayTypeOK
    <3> HIDE DEF e
    <3>5. Len(waitingForAddCh') <= ChanCap
      BY <3>1, LenProperties, ConstantsAssumption DEF DelayTypeOK
    <3>2. waiting' \in [Items -> Nat \cup {NotWaiting}]
      BY <2>4, <3>1 DEF LoopReceive, insert, DelayTypeOK, e
    <3>6. ASSUME loop' = LoopAt("drain")
          PROVE  loop' \in LoopType /\ loop'.pc \notin {"popAdd", "recvAdd"}
      BY <3>6, LoopAtType DEF LoopPcs
    <3>7. ASSUME loop' = [pc |-> "recvAdd", ready |-> {}, item |-> e.item,
                          fresh |-> isFresh(e.item)]
          PROVE  loop' \in LoopType /\ loop'.item \in Items
      BY <3>1, <3>7, LoopAddType, IsFreshType
    <3>3. loop' \in LoopType /\ (loop'.pc \in {"popAdd", "recvAdd"} => loop'.item \in Items)
      BY <2>4, <3>6, <3>7 DEF LoopReceive, e
    <3>4. CondTypeOK' /\ RetryTypeOK' /\ ProcTypeOK'
      BY <2>4 DEF LoopReceive, condVars, retryVars, procVars,
                  CondTypeOK, RetryTypeOK, ProcTypeOK, Callers
    <3> QED  BY <3>1, <3>2, <3>3, <3>4, <3>5 DEF DelayTypeOK, LoopType
  <2> QED  BY <1>10, <2>1, <2>2, <2>3, <2>4 DEF LoopStep
<1>11. ASSUME Tick  PROVE TypeOK'
  <2>1. \A d \in Nat : Elapse(d) \in Nat
    BY DEF Elapse
  <2>2. waiting' \in [Items -> Nat \cup {NotWaiting}]
    BY <1>11, <2>1 DEF Tick, DelayTypeOK, NotWaiting
  <2>3. /\ waitingForAddCh' \in Seq([item : Items, delay : Nat])
        /\ Len(waitingForAddCh') <= ChanCap
    <3> DEFINE n == Len(waitingForAddCh)
               e(k) == [waitingForAddCh[k] EXCEPT !.delay = Elapse(@)]
    <3>1. n \in Nat /\ DOMAIN waitingForAddCh = 1 .. n
      BY LenProperties DEF DelayTypeOK
    <3>2. \A k \in 1 .. n : waitingForAddCh[k] \in [item : Items, delay : Nat]
      BY ElementOfSeq DEF DelayTypeOK
    <3>3. \A k \in 1 .. n : e(k) \in [item : Items, delay : Nat]
      BY <2>1, <3>2
    <3>4. waitingForAddCh' = [k \in 1 .. n |-> e(k)]
      BY <1>11, <3>1 DEF Tick
    <3> HIDE DEF n, e
    <3>5. waitingForAddCh' \in Seq([item : Items, delay : Nat]) /\ Len(waitingForAddCh') = n
      BY <3>1, <3>3, <3>4
    <3> QED  BY <3>5 DEF n, DelayTypeOK
  <2>4. DelayTypeOK'
    BY <1>11, <2>2, <2>3 DEF Tick, DelayTypeOK
  <2>5. ProcTypeOK'
    BY <1>11, <2>1 DEF Tick, ProcTypeOK, Callers
  <2>6. CondTypeOK' /\ RetryTypeOK'
    BY <1>11 DEF Tick, condVars, retryVars, CondTypeOK, RetryTypeOK
  <2> QED  BY <2>4, <2>5, <2>6
<1>12. ASSUME UNCHANGED vars  PROVE TypeOK'
  BY <1>12 DEF vars, CondTypeOK, RetryTypeOK, DelayTypeOK, ProcTypeOK, Callers
<1> QED
  BY <1>1, <1>2, <1>3, <1>4, <1>5, <1>6, <1>7, <1>8, <1>9, <1>10, <1>11, <1>12 DEF Next

\* The variables of the queue keep their types in every behaviour.
THEOREM TypeCorrect == Spec => []TypeOK
<1>1. Init => TypeOK
  BY InitType
<1>2. TypeOK /\ [Next]_vars => TypeOK'
  BY TypeStep
<1> QED  BY <1>1, <1>2, PTL DEF Spec

-----------------------------------------------------------------------------
(***************************************************************************)
(* The two queues and the holders of keys.  QueuesExact and                *)
(* ExclusiveHolding are inductive only together: that Done may push a key  *)
(* needs its holder to be unique, that a key taken from a queue has no     *)
(* holder needs the queues to be exact.                                    *)
(***************************************************************************)
QueueInv == TypeOK /\ QueuesExact /\ ExclusiveHolding

\* Pushing a key that is in neither queue adds it to exactly one.
LEMMA PushExact ==
  ASSUME CondTypeOK, NEW i \in Items, NEW fresh \in BOOLEAN, Push(i, fresh),
         i \notin ToSet(queueFresh), i \notin ToSet(queueStaled),
         ToSet(queueFresh) \cap ToSet(queueStaled) = {},
         IsInjective(queueFresh), IsInjective(queueStaled)
  PROVE  /\ ToSet(queueFresh') \cup ToSet(queueStaled')
              = ToSet(queueFresh) \cup ToSet(queueStaled) \cup {i}
         /\ ToSet(queueFresh') \cap ToSet(queueStaled') = {}
         /\ IsInjective(queueFresh')
         /\ IsInjective(queueStaled')
<1>1. CASE fresh
  <2>1. queueFresh' = Append(queueFresh, i) /\ queueStaled' = queueStaled
    BY <1>1 DEF Push
  <2>2. ToSet(queueFresh') = ToSet(queueFresh) \cup {i} /\ IsInjective(queueFresh')
    BY <2>1, AppendToSet, AppendNew DEF CondTypeOK
  <2> QED  BY <2>1, <2>2
<1>2. CASE ~fresh
  <2>1. queueStaled' = Append(queueStaled, i) /\ queueFresh' = queueFresh
    BY <1>2 DEF Push
  <2>2. ToSet(queueStaled') = ToSet(queueStaled) \cup {i} /\ IsInjective(queueStaled')
    BY <2>1, AppendToSet, AppendNew DEF CondTypeOK
  <2> QED  BY <2>1, <2>2
<1> QED  BY <1>1, <1>2

\* add keeps the queues exact.
LEMMA AddExact ==
  ASSUME CondTypeOK, QueuesExact, NEW i \in Items, NEW fresh \in BOOLEAN, add(i, fresh)
  PROVE  QueuesExact' /\ processing' = processing
<1>1. CASE UNCHANGED condVars
  BY <1>1 DEF QueuesExact, condVars
<1>2. CASE /\ i \notin dirty
           /\ dirty' = dirty \cup {i}
           /\ IF i \in processing
              THEN UNCHANGED <<queueFresh, queueStaled, waiters>>
              ELSE Push(i, fresh)
           /\ UNCHANGED <<processing, shuttingDown>>
  <2>1. CASE i \in processing
    BY <1>2, <2>1 DEF QueuesExact
  <2>2. CASE i \notin processing
    <3>1. i \notin ToSet(queueFresh) /\ i \notin ToSet(queueStaled)
      BY <1>2 DEF QueuesExact
    <3>2. /\ ToSet(queueFresh') \cup ToSet(queueStaled')
               = ToSet(queueFresh) \cup ToSet(queueStaled) \cup {i}
          /\ ToSet(queueFresh') \cap ToSet(queueStaled') = {}
          /\ IsInjective(queueFresh')
          /\ IsInjective(queueStaled')
      BY <1>2, <2>2, <3>1, PushExact DEF QueuesExact
    <3> QED  BY <1>2, <2>2, <3>2 DEF QueuesExact
  <2> QED  BY <2>1, <2>2
<1> QED  BY <1>1, <1>2 DEF add

\* Taking the head h of a queue moves it from the queues to the hands of p.
Taken(p, h) ==
  /\ h \in dirty \ processing
  /\ ToSet(queueFresh') \cup ToSet(queueStaled')
       = (ToSet(queueFresh) \cup ToSet(queueStaled)) \ {h}
  /\ processing' = processing \cup {h}
  /\ dirty' = dirty \ {h}
  /\ held' = [held EXCEPT ![p] = @ \cup {h}]

LEMMA TakeExact ==
  ASSUME QueueInv, NEW p \in Procs, TakeFresh(p) \/ TakeStaled(p)
  PROVE  QueuesExact' /\ \E h \in Items : Taken(p, h)
<1>1. CASE TakeFresh(p)
  <2> DEFINE h == Head(queueFresh)
  <2>1. /\ h \in Items /\ h \in ToSet(queueFresh)
        /\ ToSet(Tail(queueFresh)) = ToSet(queueFresh) \ {h}
        /\ IsInjective(Tail(queueFresh))
    BY <1>1, TailToSet, HeadTailProperties
       DEF TakeFresh, QueueInv, TypeOK, CondTypeOK, QueuesExact
  <2>2. /\ queueFresh' = Tail(queueFresh) /\ queueStaled' = queueStaled
        /\ processing' = processing \cup {h} /\ dirty' = dirty \ {h}
        /\ held' = [held EXCEPT ![p] = @ \cup {h}]
    BY <1>1 DEF TakeFresh
  <2> HIDE DEF h
  <2>3. h \in dirty \ processing /\ h \notin ToSet(queueStaled)
    BY <2>1 DEF QueueInv, QueuesExact
  <2>4. QueuesExact'
    BY <2>1, <2>2, <2>3 DEF QueueInv, QueuesExact
  <2>5. Taken(p, h)
    BY <2>1, <2>2, <2>3 DEF Taken
  <2> QED  BY <2>1, <2>4, <2>5
<1>2. CASE TakeStaled(p)
  <2> DEFINE h == Head(queueStaled)
  <2>1. /\ h \in Items /\ h \in ToSet(queueStaled)
        /\ ToSet(Tail(queueStaled)) = ToSet(queueStaled) \ {h}
        /\ IsInjective(Tail(queueStaled))
    BY <1>2, TailToSet, HeadTailProperties
       DEF TakeStaled, QueueInv, TypeOK, CondTypeOK, QueuesExact
  <2>2. /\ queueStaled' = Tail(queueStaled) /\ queueFresh' = queueFresh
        /\ processing' = processing \cup {h} /\ dirty' = dirty \ {h}
        /\ held' = [held EXCEPT ![p] = @ \cup {h}]
    BY <1>2 DEF TakeStaled
  <2> HIDE DEF h
  <2>3. h \in dirty \ processing /\ h \notin ToSet(queueFresh)
    BY <2>1 DEF QueueInv, QueuesExact
  <2>4. QueuesExact'
    BY <2>1, <2>2, <2>3 DEF QueueInv, QueuesExact
  <2>5. Taken(p, h)
    BY <2>1, <2>2, <2>3 DEF Taken
  <2> QED  BY <2>1, <2>4, <2>5
<1> QED  BY <1>1, <1>2

\* The taker becomes the only holder.
LEMMA TakenExclusive ==
  ASSUME QueueInv, NEW p \in Procs, NEW h \in Items, Taken(p, h)
  PROVE  ExclusiveHolding'
<1>1. held \in [Procs -> SUBSET Items]
  BY DEF QueueInv, TypeOK, ProcTypeOK
<1>2. \A q \in Procs : h \notin held[q]
  BY DEF Taken, QueueInv, ExclusiveHolding
<1>3. \A q \in Procs : held'[q] = IF q = p THEN held[q] \cup {h} ELSE held[q]
  BY <1>1 DEF Taken
<1>4. ASSUME NEW q \in Procs, NEW r \in Procs, q # r  PROVE held'[q] \cap held'[r] = {}
  BY <1>2, <1>3, <1>4 DEF QueueInv, ExclusiveHolding
<1>5. processing' = UNION {held'[q] : q \in Procs}
  BY <1>3 DEF Taken, QueueInv, ExclusiveHolding
<1> QED  BY <1>4, <1>5 DEF ExclusiveHolding

\* Done gives up the only hold on the key, and pushes it if it is dirty.
LEMMA DoneExact ==
  ASSUME QueueInv, NEW p \in Procs, NEW i \in Items, Done(p, i)
  PROVE  QueuesExact' /\ ExclusiveHolding'
<1>1. /\ i \in held[p]
      /\ held' = [held EXCEPT ![p] = @ \ {i}]
      /\ processing' = processing \ {i}
      /\ dirty' = dirty
  BY DEF Done
<1>2. held \in [Procs -> SUBSET Items]
  BY DEF QueueInv, TypeOK, ProcTypeOK
<1>3. i \in processing /\ \A q \in Procs : q # p => i \notin held[q]
  BY <1>1 DEF QueueInv, ExclusiveHolding
<1>4. ExclusiveHolding'
  <2>1. \A q \in Procs : held'[q] = IF q = p THEN held[q] \ {i} ELSE held[q]
    BY <1>1, <1>2
  <2>2. ASSUME NEW q \in Procs, NEW r \in Procs, q # r  PROVE held'[q] \cap held'[r] = {}
    BY <2>1, <2>2 DEF QueueInv, ExclusiveHolding
  <2>3. processing' = UNION {held'[q] : q \in Procs}
    BY <1>1, <1>3, <2>1 DEF QueueInv, ExclusiveHolding
  <2> QED  BY <2>2, <2>3 DEF ExclusiveHolding
<1>5. QueuesExact'
  <2>1. CASE i \in dirty
    <3>1. i \notin ToSet(queueFresh) /\ i \notin ToSet(queueStaled)
      BY <1>3 DEF QueueInv, QueuesExact
    <3>2. Push(i, RequeueFresh(i)) /\ RequeueFresh(i) \in BOOLEAN
      BY <2>1 DEF Done, RequeueFresh
    <3>3. /\ ToSet(queueFresh') \cup ToSet(queueStaled')
               = ToSet(queueFresh) \cup ToSet(queueStaled) \cup {i}
          /\ ToSet(queueFresh') \cap ToSet(queueStaled') = {}
          /\ IsInjective(queueFresh')
          /\ IsInjective(queueStaled')
      BY <3>1, <3>2, PushExact DEF QueueInv, TypeOK, QueuesExact
    <3> QED  BY <1>1, <1>3, <2>1, <3>3 DEF QueueInv, QueuesExact
  <2>2. CASE i \notin dirty
    BY <1>1, <2>2 DEF Done, QueueInv, QueuesExact
  <2> QED  BY <2>1, <2>2
<1> QED  BY <1>4, <1>5

\* The steps that leave queues, dirty and processing alone.
LEMMA OthersExact ==
  ASSUME QueueInv, UNCHANGED <<queueFresh, queueStaled, dirty, processing, held>>
  PROVE  QueuesExact' /\ ExclusiveHolding'
BY DEF QueueInv, QueuesExact, ExclusiveHolding

\* The steps that only add a key.
LEMMA AddsExact ==
  ASSUME QueueInv, NEW i \in Items, NEW fresh \in BOOLEAN, add(i, fresh), held' = held
  PROVE  QueuesExact' /\ ExclusiveHolding'
<1>1. QueuesExact' /\ processing' = processing
  BY AddExact DEF QueueInv, TypeOK
<1>2. ExclusiveHolding'
  BY <1>1 DEF QueueInv, ExclusiveHolding
<1> QED  BY <1>1, <1>2

\* Init establishes the invariant.
LEMMA InitInv == Init => QueueInv
<1> SUFFICES ASSUME Init PROVE QueueInv
  OBVIOUS
<1>1. TypeOK
  BY InitType
<1>2. ToSet(<<>>) = {} /\ IsInjective(<<>>)
  BY DEF ToSet, IsInjective
<1>3. QueuesExact
  BY <1>2 DEF Init, QueuesExact
<1>4. ExclusiveHolding
  BY DEF Init, ExclusiveHolding
<1> QED  BY <1>1, <1>3, <1>4 DEF QueueInv

\* Every step keeps the invariant.
LEMMA InvStep == QueueInv /\ [Next]_vars => QueueInv'
<1> SUFFICES ASSUME QueueInv, [Next]_vars PROVE QueueInv'
  OBVIOUS
<1>1. TypeOK'
  BY TypeStep DEF QueueInv
<1> SUFFICES QueuesExact' /\ ExclusiveHolding'
  BY <1>1 DEF QueueInv
<1>2. ASSUME NEW p \in Adders, NEW i \in Items, Add(p, i)
      PROVE  QueuesExact' /\ ExclusiveHolding'
  BY <1>2, AddsExact DEF Add, procVars
<1>3. ASSUME NEW p \in Procs, Get(p) \/ GetFresh(p)
      PROVE  QueuesExact' /\ ExclusiveHolding'
  <2>1. CASE TakeFresh(p) \/ TakeStaled(p)
    BY <2>1, TakeExact, TakenExclusive
  <2>2. CASE WaitOrReturn(p, "get") \/ WaitOrReturn(p, "getFresh")
    BY <2>2, OthersExact DEF WaitOrReturn
  <2> QED  BY <1>3, <2>1, <2>2 DEF Get, GetFresh
<1>4. ASSUME NEW p \in Procs, NEW i \in Items, Done(p, i)
      PROVE  QueuesExact' /\ ExclusiveHolding'
  BY <1>4, DoneExact
<1>5. ASSUME NEW p \in Procs, AddAfterAdd(p)
      PROVE  QueuesExact' /\ ExclusiveHolding'
  <2>1. call[p].item \in Items /\ call[p].fresh \in BOOLEAN
    BY <1>5 DEF AddAfterAdd, QueueInv, TypeOK, ProcTypeOK, Callers
  <2> QED  BY <1>5, <2>1, AddsExact DEF AddAfterAdd
<1>6. ASSUME LoopAdd  PROVE QueuesExact' /\ ExclusiveHolding'
  <2>1. loop.item \in Items /\ loop.fresh \in BOOLEAN
    BY <1>6 DEF LoopAdd, QueueInv, TypeOK, DelayTypeOK
  <2> QED  BY <1>6, <2>1, AddsExact DEF LoopAdd, procVars
<1>7. ASSUME NEW p \in Procs, NEW i \in Items, NEW d \in AddAfterDelays,
             AddAfter(p, i, d)
      PROVE  QueuesExact' /\ ExclusiveHolding'
  BY <1>7, OthersExact DEF AddAfter, condVars
<1>8. ASSUME NEW p \in Procs,
             \/ AddAfterIsFresh(p) \/ AddAfterSend(p) \/ When(p)
             \/ AddRateLimitedAfter(p) \/ waitForProcessing(p)
             \/ ShutDown(p) \/ ShutDownWithDrain(p)
      PROVE  QueuesExact' /\ ExclusiveHolding'
  BY <1>8, OthersExact
     DEF AddAfterIsFresh, AddAfterSend, When, AddRateLimitedAfter, waitForProcessing,
         ShutDown, ShutDownWithDrain, condVars
<1>9. ASSUME \/ LoopTop \/ LoopPop \/ LoopStop \/ LoopTimer \/ LoopReceive
             \/ LoopDrained \/ LoopHeartbeat \/ Tick
      PROVE  QueuesExact' /\ ExclusiveHolding'
  BY <1>9, OthersExact
     DEF LoopTop, LoopPop, LoopStop, LoopTimer, LoopReceive, LoopDrained,
         LoopHeartbeat, Tick, condVars, procVars
<1>10. CASE UNCHANGED vars
  BY <1>10, OthersExact DEF vars
<1> DEFINE Goal == QueuesExact' /\ ExclusiveHolding'
<1> HIDE DEF Goal
<1>11. /\ Adders \subseteq Procs /\ Getters \subseteq Procs
       /\ FreshGetters \subseteq Procs /\ Closers \subseteq Procs
  BY DEF Procs
<1>12. ASSUME NEW p \in Adders, NEW i \in Items,
              \/ Add(p, i)
              \/ \E d \in AddAfterDelays : AddAfter(p, i, d)
              \/ AddRateLimited(p, i)
              \/ Forget(p, i)
       PROVE  Goal
  <2>1. p \in Procs
    BY <1>11
  <2>2. CASE Add(p, i)
    BY <1>2, <2>2 DEF Goal
  <2>3. ASSUME NEW d \in AddAfterDelays, AddAfter(p, i, d)  PROVE Goal
    BY <1>7, <2>1, <2>3 DEF Goal
  <2>4. CASE AddRateLimited(p, i) \/ Forget(p, i)
    BY <2>4, OthersExact DEF AddRateLimited, Forget, condVars, procVars, Goal
  <2> QED  BY <1>12, <2>2, <2>3, <2>4
<1>13. ASSUME NEW p \in Procs, CallStep(p)  PROVE Goal
  BY <1>5, <1>8, <1>13 DEF CallStep, Goal
<1>14. ASSUME LoopStep \/ LoopHeartbeat \/ Tick  PROVE Goal
  BY <1>6, <1>9, <1>14 DEF LoopStep, Goal
<1>15. ASSUME Next  PROVE Goal
  BY <1>3, <1>4, <1>8, <1>11, <1>12, <1>13, <1>14, <1>15 DEF Next, Goal
<1> QED  BY <1>10, <1>15 DEF Goal

\* The comment on the two queues holds in every behaviour, and no key is ever
\* in the hands of two goroutines.
THEOREM QueuesSafe == Spec => [](QueuesExact /\ ExclusiveHolding)
<1>1. Init => QueueInv
  BY InitInv
<1>2. QueueInv /\ [Next]_vars => QueueInv'
  BY InvStep
<1>3. QueueInv => QueuesExact /\ ExclusiveHolding
  BY DEF QueueInv
<1> QED  BY <1>1, <1>2, <1>3, PTL DEF Spec

-----------------------------------------------------------------------------
(***************************************************************************)
(* PlayboyQueue implements RateLimitedQueue: every step of the code's      *)
(* queue is a step of the abstract one, or none, when dirty is what is     *)
(* pending and Delayed is what is delayed.                                 *)
(***************************************************************************)

(***************************************************************************)
(* The entries a round of the loop has found ready stay in the heap, and   *)
(* stay due, until the loop pops them: nothing is inserted in between.     *)
(***************************************************************************)
ReadyIsDue == \A i \in loop.ready : Due(i)

RefInv == QueueInv /\ ReadyIsDue

LEMMA ReadyStep == TypeOK /\ ReadyIsDue /\ [Next]_vars => ReadyIsDue'
<1> SUFFICES ASSUME TypeOK, ReadyIsDue, [Next]_vars  PROVE ReadyIsDue'
  OBVIOUS
<1>1. loop.ready \subseteq Items /\ waiting \in [Items -> Nat \cup {NotWaiting}]
  BY DEF TypeOK, DelayTypeOK
<1>2. CASE UNCHANGED <<loop, waiting>>
  BY <1>2 DEF ReadyIsDue, Due
<1>3. CASE loop'.ready = {}
  BY <1>3 DEF ReadyIsDue
<1>4. CASE LoopTop
  <2>1. CASE loop' = LoopAt("stopped")
    BY <1>3, <2>1 DEF LoopAt
  <2>2. CASE loop' = [LoopAt("pop") EXCEPT !.ready = {i \in Items : Due(i)}]
    <3>1. loop'.ready = {i \in Items : Due(i)}
      BY <2>2 DEF LoopAt
    <3> QED  BY <1>4, <3>1 DEF LoopTop, ReadyIsDue, Due
  <2> QED  BY <1>4, <2>1, <2>2 DEF LoopTop
<1>5. CASE LoopPop
  <2>1. CASE loop' = LoopAt("select")
    BY <1>3, <2>1 DEF LoopAt
  <2>2. ASSUME NEW i \in loop.ready,
               loop' = [pc |-> "popAdd", ready |-> loop.ready \ {i},
                        item |-> i, fresh |-> isFresh(i)],
               waiting' = [waiting EXCEPT ![i] = NotWaiting]
        PROVE  ReadyIsDue'
    <3>1. loop'.ready = loop.ready \ {i}
      BY <2>2
    <3>2. \A k \in loop.ready \ {i} : waiting'[k] = waiting[k]
      BY <1>1, <2>2
    <3> QED  BY <3>1, <3>2 DEF ReadyIsDue, Due
  <2> QED  BY <1>5, <2>1, <2>2 DEF LoopPop
<1>6. CASE LoopAdd
  <2>1. CASE loop' = [LoopAt("pop") EXCEPT !.ready = loop.ready]
    <3>1. loop'.ready = loop.ready
      BY <2>1 DEF LoopAt
    <3> QED  BY <1>6, <3>1 DEF LoopAdd, ReadyIsDue, Due
  <2>2. CASE loop' = LoopAt("drain")
    BY <1>3, <2>2 DEF LoopAt
  <2> QED  BY <1>6, <2>1, <2>2 DEF LoopAdd
<1>7. CASE LoopStop \/ LoopTimer \/ LoopHeartbeat \/ LoopDrained
  <2>1. loop'.ready = {}
    BY <1>7 DEF LoopStop, LoopTimer, LoopHeartbeat, LoopDrained, LoopAt
  <2> QED  BY <1>3, <2>1
<1>8. CASE LoopReceive
  <2>1. loop'.ready = {}
    BY <1>8 DEF LoopReceive, LoopAt
  <2> QED  BY <1>3, <2>1
<1>9. CASE Tick
  <2>1. \A i \in loop.ready : waiting'[i] = 0
    BY <1>1, <1>9 DEF Tick, ReadyIsDue, Due, Elapse, NotWaiting
  <2> QED  BY <1>9, <2>1 DEF Tick, ReadyIsDue, Due
<1>10. ASSUME NEW p \in Procs, CallStep(p)  PROVE UNCHANGED <<loop, waiting>>
  BY <1>10 DEF CallStep, AddAfterIsFresh, AddAfterAdd, AddAfterSend, When,
               AddRateLimitedAfter, waitForProcessing, delayVars
<1>11. ASSUME NEW p \in Procs, NEW i \in Items,
              Add(p, i) \/ AddRateLimited(p, i) \/ Forget(p, i) \/ Done(p, i)
       PROVE  UNCHANGED <<loop, waiting>>
  BY <1>11 DEF Add, AddRateLimited, Forget, Done, delayVars
<1>12. ASSUME NEW p \in Procs, NEW i \in Items, NEW d \in AddAfterDelays, AddAfter(p, i, d)
       PROVE  UNCHANGED <<loop, waiting>>
  BY <1>12 DEF AddAfter, delayVars
<1>13. ASSUME NEW p \in Procs, Get(p) \/ GetFresh(p) \/ ShutDown(p) \/ ShutDownWithDrain(p)
       PROVE  UNCHANGED <<loop, waiting>>
  BY <1>13 DEF Get, GetFresh, ShutDown, ShutDownWithDrain, delayVars
<1>14. CASE UNCHANGED vars
  BY <1>2, <1>14 DEF vars
<1>15. CASE LoopStep \/ LoopHeartbeat \/ Tick
  BY <1>4, <1>5, <1>6, <1>7, <1>8, <1>9, <1>15 DEF LoopStep
<1>16. ASSUME NEW p \in Adders, NEW i \in Items,
              \/ Add(p, i)
              \/ \E d \in AddAfterDelays : AddAfter(p, i, d)
              \/ AddRateLimited(p, i)
              \/ Forget(p, i)
       PROVE  UNCHANGED <<loop, waiting>>
  <2>1. p \in Procs
    BY DEF Procs
  <2> QED  BY <1>11, <1>12, <1>16, <2>1
<1>17. /\ Getters \subseteq Procs /\ FreshGetters \subseteq Procs /\ Closers \subseteq Procs
  BY DEF Procs
<1> QED
  BY <1>2, <1>10, <1>11, <1>13, <1>14, <1>15, <1>16, <1>17 DEF Next

LEMMA RefInvStep == RefInv /\ [Next]_vars => RefInv'
BY InvStep, ReadyStep DEF RefInv, QueueInv

LEMMA InitRefInv == Init => RefInv
BY InitInv DEF RefInv, ReadyIsDue, Init, LoopAt

-----------------------------------------------------------------------------
(***************************************************************************)
(* How a step changes the keys that are delayed.                           *)
(***************************************************************************)
\* The calls that owe a key keep it when nobody enters or leaves them.
LEMMA CallKeysSame ==
  ASSUME Owing' = Owing, \A p \in Owing : call'[p].item = call[p].item
  PROVE  CallKeys' = CallKeys
BY DEF CallKeys

\* A call that begins to owe a key adds it.
LEMMA CallKeysEnter ==
  ASSUME NEW p \in Procs, p \notin Owing, Owing' = Owing \cup {p},
         \A q \in Owing : call'[q].item = call[q].item
  PROVE  CallKeys' = CallKeys \cup {call'[p].item}
BY DEF CallKeys

\* A call that returns takes away at most its own key.
LEMMA CallKeysLeave ==
  ASSUME NEW p \in Owing, Owing' = Owing \ {p},
         \A q \in Owing \ {p} : call'[q].item = call[q].item
  PROVE  CallKeys = CallKeys' \cup {call[p].item}
BY DEF CallKeys

\* The abstract step of a key that leaves the delayed ones.
Released(i) ==
  /\ i \in Delayed
  /\ Delayed' \in {Delayed, Delayed \ {i}}

\* An add of such a key, in the code or in RateLimitedQueue.
LEMMA AddFires ==
  ASSUME NEW i \in Items, NEW fresh \in BOOLEAN, add(i, fresh), Released(i)
  PROVE  [Abstract!Next]_(Abstract!queueVars)
<1>1. CASE shuttingDown
  <2>1. UNCHANGED <<dirty, processing, shuttingDown>>
    BY <1>1 DEF add, condVars
  <2>2. CASE Delayed' = Delayed
    BY <2>1, <2>2 DEF Abstract!queueVars
  <2>3. CASE Delayed' = Delayed \ {i}
    BY <1>1, <2>1, <2>3 DEF Abstract!Next, Abstract!Discard
  <2> QED  BY <2>2, <2>3 DEF Released
<1>2. CASE ~shuttingDown
  <2>1. dirty' = dirty \cup {i} /\ UNCHANGED <<processing, shuttingDown>>
    BY <1>2 DEF add, condVars
  <2>2. Abstract!Fire(i)
    BY <1>2, <2>1 DEF Released, Abstract!Fire
  <2> QED  BY <2>2 DEF Abstract!Next
<1> QED  BY <1>1, <1>2

\* A step that touches none of the abstract variables.
LEMMA Stutters ==
  ASSUME UNCHANGED <<dirty, processing, shuttingDown>>, Delayed' = Delayed
  PROVE  [Abstract!Next]_(Abstract!queueVars)
BY DEF Abstract!queueVars

\* The first step of an AddAfter that owes a key afterwards, or gives up.
LEMMA AfterCheckDelays ==
  ASSUME TypeOK, NEW p \in Procs, NEW i \in Items, NEW d \in Nat, p \notin Owing,
         afterCheck(p, i, d), UNCHANGED <<condVars, delayVars>>
  PROVE  [Abstract!Next]_(Abstract!queueVars)
<1>1. /\ UNCHANGED <<dirty, processing, shuttingDown>>
      /\ SentKeys' = SentKeys /\ HeapKeys' = HeapKeys /\ LoopKeys' = LoopKeys
  BY DEF condVars, delayVars, SentKeys, HeapKeys, LoopKeys
<1>2. pc \in [Procs -> ProcPcs] /\ DOMAIN call = Procs
  BY DEF TypeOK, ProcTypeOK
<1>3. CASE shuttingDown
  <2>1. Owing' = Owing /\ \A q \in Owing : call'[q].item = call[q].item
    BY <1>2, <1>3 DEF afterCheck, Owing
  <2>2. CallKeys' = CallKeys
    BY <2>1, CallKeysSame
  <2> QED  BY <1>1, <2>2, Stutters DEF Delayed
<1>4. CASE ~shuttingDown
  <2>1. /\ Owing' = Owing \cup {p}
        /\ call'[p].item = i
        /\ \A q \in Owing : call'[q].item = call[q].item
    BY <1>2, <1>4 DEF afterCheck, Owing
  <2>2. CallKeys' = CallKeys \cup {i}
    BY <2>1, CallKeysEnter
  <2>3. Abstract!Delay(i)
    BY <1>1, <1>4, <2>2 DEF Abstract!Delay, Delayed
  <2> QED  BY <2>3 DEF Abstract!Next
<1> QED  BY <1>3, <1>4

\* Splitting a sequence at its head.
LEMMA HeadAndTail ==
  ASSUME NEW S, NEW s \in Seq(S), s # <<>>
  PROVE  ToSet(s) = ToSet(Tail(s)) \cup {Head(s)}
<1>1. /\ Tail(s) \in Seq(S)
      /\ Len(Tail(s)) = Len(s) - 1
      /\ \A k \in 1 .. Len(Tail(s)) : Tail(s)[k] = s[k + 1]
  BY HeadTailProperties
<1>2. Len(s) \in Nat \ {0} /\ DOMAIN s = 1 .. Len(s)
  BY EmptySeq, LenProperties
<1>3. Head(s) \in ToSet(s) /\ ToSet(Tail(s)) \subseteq ToSet(s) /\ Head(s) = s[1]
  BY <1>2, TailToSet
<1>4. DOMAIN Tail(s) = 1 .. Len(s) - 1
  BY <1>1, <1>2, LenProperties
<1>5. ASSUME NEW x \in ToSet(s), x # Head(s)  PROVE x \in ToSet(Tail(s))
  <2>1. PICK k \in 1 .. Len(s) : s[k] = x
    BY <1>2 DEF ToSet
  <2>2. k - 1 \in 1 .. Len(s) - 1 /\ Tail(s)[k - 1] = x
    BY <1>1, <1>2, <1>3, <1>5, <2>1
  <2> QED  BY <1>4, <2>2 DEF ToSet
<1> QED  BY <1>3, <1>5

-----------------------------------------------------------------------------
(***************************************************************************)
(* One lemma for each group of actions: each takes a step of               *)
(* RateLimitedQueue or none.                                               *)
(***************************************************************************)
AbstractStep == [Abstract!Next]_(Abstract!queueVars)

\* The calls, the channel and the heap together, when a step changes only what
\* a call that owes nothing is about.
LEMMA DelayedSame ==
  ASSUME UNCHANGED delayVars, Owing' = Owing, \A p \in Owing : call'[p].item = call[p].item
  PROVE  Delayed' = Delayed
<1>1. CallKeys' = CallKeys
  BY CallKeysSame
<1>2. SentKeys' = SentKeys /\ HeapKeys' = HeapKeys /\ LoopKeys' = LoopKeys
  BY DEF delayVars, SentKeys, HeapKeys, LoopKeys
<1> QED  BY <1>1, <1>2 DEF Delayed

\* Add is the abstract Add, or nothing for a key that is dirty already.
LEMMA AddRefines ==
  ASSUME NEW p \in Procs, NEW i \in Items, Add(p, i)
  PROVE  AbstractStep
<1>1. Delayed' = Delayed
  BY DelayedSame DEF Add, procVars, Owing
<1>2. CASE UNCHANGED condVars
  BY <1>1, <1>2, Stutters DEF condVars, AbstractStep
<1>3. CASE ~shuttingDown /\ dirty' = dirty \cup {i} /\ UNCHANGED <<processing, shuttingDown>>
  <2>1. Abstract!Add(i)
    BY <1>1, <1>3 DEF Abstract!Add
  <2> QED  BY <2>1 DEF Abstract!Next, AbstractStep
<1> QED  BY <1>2, <1>3 DEF Add, add

\* The first step of AddAfter, and of the one inside AddRateLimited.
LEMMA AddAfterRefines ==
  ASSUME TypeOK, NEW p \in Procs, NEW i \in Items, NEW d \in AddAfterDelays, AddAfter(p, i, d)
  PROVE  AbstractStep
<1>1. d \in Nat /\ p \notin Owing
  BY ConstantsAssumption DEF AddAfter, Owing
<1>2. afterCheck(p, i, d) /\ UNCHANGED <<condVars, delayVars>>
  BY DEF AddAfter
<1> QED  BY <1>1, <1>2, AfterCheckDelays DEF AbstractStep

LEMMA AddRateLimitedAfterRefines ==
  ASSUME TypeOK, NEW p \in Procs, AddRateLimitedAfter(p)
  PROVE  AbstractStep
<1>1. call[p].item \in Items /\ call[p].delay \in Nat /\ p \notin Owing
  BY DEF AddRateLimitedAfter, Owing, TypeOK, ProcTypeOK, Callers
<1>2. afterCheck(p, call[p].item, call[p].delay) /\ UNCHANGED <<condVars, delayVars>>
  BY DEF AddRateLimitedAfter
<1> QED  BY <1>1, <1>2, AfterCheckDelays DEF AbstractStep

\* The add that ends an AddAfter of no delay.
LEMMA AddAfterAddRefines ==
  ASSUME TypeOK, NEW p \in Procs, AddAfterAdd(p)
  PROVE  AbstractStep
<1> DEFINE i == call[p].item
<1>1. pc \in [Procs -> ProcPcs] /\ DOMAIN call = Procs
  BY DEF TypeOK, ProcTypeOK
<1>2. p \in Owing /\ i \in Items /\ call[p].fresh \in BOOLEAN
  BY DEF AddAfterAdd, Owing, TypeOK, ProcTypeOK, Callers
<1>3. Owing' = Owing \ {p} /\ \A q \in Owing \ {p} : call'[q].item = call[q].item
  BY <1>1 DEF AddAfterAdd, Owing
<1>4. CallKeys = CallKeys' \cup {i}
  BY <1>2, <1>3, CallKeysLeave
<1>5. SentKeys' = SentKeys /\ HeapKeys' = HeapKeys /\ LoopKeys' = LoopKeys
  BY DEF AddAfterAdd, delayVars, SentKeys, HeapKeys, LoopKeys
<1>6. Released(i)
  BY <1>4, <1>5 DEF Released, Delayed
<1>7. add(i, call[p].fresh)
  BY DEF AddAfterAdd
<1> QED  BY <1>2, <1>6, <1>7, AddFires DEF AbstractStep

\* A key sent on the channel stays delayed; one given up is discarded.
LEMMA AddAfterSendRefines ==
  ASSUME TypeOK, NEW p \in Procs, AddAfterSend(p)
  PROVE  AbstractStep
<1> DEFINE i == call[p].item
           e == [item |-> call[p].item, delay |-> call[p].delay]
           R == [item : Items, delay : Nat]
<1>1. /\ pc \in [Procs -> ProcPcs] /\ DOMAIN call = Procs
      /\ waitingForAddCh \in Seq([item : Items, delay : Nat])
  BY DEF TypeOK, ProcTypeOK, DelayTypeOK
<1>2. p \in Owing /\ i \in Items /\ call[p].delay \in Nat
  BY DEF AddAfterSend, Owing, TypeOK, ProcTypeOK, Callers
<1>3. Owing' = Owing \ {p} /\ \A q \in Owing \ {p} : call'[q].item = call[q].item
  BY <1>1 DEF AddAfterSend, Owing
<1>4. CallKeys = CallKeys' \cup {i}
  BY <1>2, <1>3, CallKeysLeave
<1>5. /\ HeapKeys' = HeapKeys /\ LoopKeys' = LoopKeys
      /\ UNCHANGED <<dirty, processing, shuttingDown>>
  BY DEF AddAfterSend, condVars, HeapKeys, LoopKeys
<1>6. CASE Send(e)
  <2>1. e \in R /\ e.item = i /\ waitingForAddCh \in Seq(R)
    BY <1>1, <1>2
  <2> HIDE DEF e, i, R
  <2>2. waitingForAddCh' = Append(waitingForAddCh, e)
    BY <1>6 DEF Send
  <2>3. ToSet(waitingForAddCh') = ToSet(waitingForAddCh) \cup {e}
    BY <2>1, <2>2, AppendToSet
  <2>4. SentKeys' = SentKeys \cup {i}
    BY <2>1, <2>3 DEF SentKeys
  <2>5. Delayed' = Delayed
    BY <1>4, <1>5, <2>4 DEF Delayed
  <2> QED  BY <1>5, <2>5, Stutters DEF AbstractStep
<1>7. CASE shuttingDown /\ UNCHANGED waitingForAddCh
  <2>1. SentKeys' = SentKeys
    BY <1>7 DEF SentKeys
  <2>2. Delayed' \in {Delayed, Delayed \ {i}}
    BY <1>4, <1>5, <2>1 DEF Delayed
  <2>3. CASE Delayed' = Delayed
    BY <1>5, <2>3, Stutters DEF AbstractStep
  <2>4. CASE Delayed' = Delayed \ {i}
    <3>1. Abstract!Discard(i)
      BY <1>5, <1>7, <2>4 DEF Abstract!Discard
    <3> QED  BY <1>2, <3>1 DEF Abstract!Next, AbstractStep
  <2> QED  BY <2>2, <2>3, <2>4
<1> QED  BY <1>6, <1>7 DEF AddAfterSend

\* The steps of a caller between two critical sections of the condition.
LEMMA CallerRefines ==
  ASSUME TypeOK, NEW p \in Procs,
         AddAfterIsFresh(p) \/ When(p) \/ waitForProcessing(p)
  PROVE  AbstractStep
<1>1. pc \in [Procs -> ProcPcs] /\ DOMAIN call = Procs
  BY DEF TypeOK, ProcTypeOK
<1>2. UNCHANGED <<dirty, processing, shuttingDown, delayVars>>
  BY DEF AddAfterIsFresh, When, waitForProcessing, condVars
<1>3. Owing' = Owing
  BY <1>1 DEF AddAfterIsFresh, When, waitForProcessing, Owing
<1>4. \A q \in Owing : call'[q].item = call[q].item
  <2>1. CASE AddAfterIsFresh(p)
    <3>1. \E b : call' = [call EXCEPT ![p].fresh = b]
      BY <2>1 DEF AddAfterIsFresh
    <3>2. PICK b : call' = [call EXCEPT ![p].fresh = b]
      BY <3>1
    <3>3. call \in [Procs -> [item : Items \cup {NoItem}, fresh : BOOLEAN, delay : Nat]]
      BY DEF TypeOK, ProcTypeOK
    <3> QED  BY <3>2, <3>3 DEF Owing
  <2>2. CASE When(p)
    BY <1>1, <2>2 DEF When, Owing
  <2>3. CASE waitForProcessing(p)
    BY <2>3 DEF waitForProcessing
  <2> QED  BY <2>1, <2>2, <2>3
<1>5. Delayed' = Delayed
  BY <1>2, <1>3, <1>4, DelayedSame
<1> QED  BY <1>2, <1>5, Stutters DEF AbstractStep

LEMMA CallStepRefines ==
  ASSUME TypeOK, NEW p \in Procs, CallStep(p)
  PROVE  AbstractStep
BY CallerRefines, AddAfterAddRefines, AddAfterSendRefines, AddRateLimitedAfterRefines
   DEF CallStep

\* Counting and forgetting retries.
LEMMA RetryRefines ==
  ASSUME TypeOK, NEW p \in Procs, NEW i \in Items, AddRateLimited(p, i) \/ Forget(p, i)
  PROVE  AbstractStep
<1>1. pc \in [Procs -> ProcPcs] /\ DOMAIN call = Procs
  BY DEF TypeOK, ProcTypeOK
<1>2. UNCHANGED <<dirty, processing, shuttingDown, delayVars>>
  BY DEF AddRateLimited, Forget, condVars
<1>3. Owing' = Owing /\ \A q \in Owing : call'[q].item = call[q].item
  BY <1>1 DEF AddRateLimited, Forget, procVars, Owing
<1> QED  BY <1>2, <1>3, DelayedSame, Stutters DEF AbstractStep

\* Getting a key takes it, unless the caller waits or returns.
LEMMA GetRefines ==
  ASSUME QueueInv, NEW p \in Procs, Get(p) \/ GetFresh(p)
  PROVE  AbstractStep
<1>1. pc \in [Procs -> ProcPcs]
  BY DEF QueueInv, TypeOK, ProcTypeOK
<1>2. UNCHANGED <<shuttingDown, delayVars, call>> /\ pc[p] \in {"idle", "get", "getFresh"}
  BY DEF Get, GetFresh
<1>3. CASE TakeFresh(p) \/ TakeStaled(p)
  <2>1. Owing' = Owing
    BY <1>1, <1>2, <1>3 DEF TakeFresh, TakeStaled, Owing
  <2>2. Delayed' = Delayed
    BY <1>2, <2>1, DelayedSame
  <2>3. PICK h \in Items : Taken(p, h)
    BY <1>3, TakeExact
  <2>4. Abstract!Take(h)
    BY <1>2, <2>2, <2>3 DEF Taken, Abstract!Take
  <2> QED  BY <2>4 DEF Abstract!Next, AbstractStep
<1>4. ASSUME NEW place \in {"get", "getFresh"}, WaitOrReturn(p, place)  PROVE AbstractStep
  <2>1. Owing' = Owing
    BY <1>1, <1>2, <1>4 DEF WaitOrReturn, Owing
  <2>2. Delayed' = Delayed
    BY <1>2, <2>1, DelayedSame
  <2>3. UNCHANGED <<dirty, processing, shuttingDown>>
    BY <1>2, <1>4 DEF WaitOrReturn
  <2> QED  BY <2>2, <2>3, Stutters DEF AbstractStep
<1> QED  BY <1>3, <1>4 DEF Get, GetFresh

\* Done finishes the key; one that is dirty is pending again.
LEMMA DoneRefines ==
  ASSUME QueueInv, NEW p \in Procs, NEW i \in Items, Done(p, i)
  PROVE  AbstractStep
<1>1. Delayed' = Delayed
  BY DelayedSame DEF Done, Owing
<1>2. i \in processing
  BY DEF Done, QueueInv, ExclusiveHolding
<1>3. Abstract!Finish(i)
  BY <1>1, <1>2 DEF Done, Abstract!Finish
<1> QED  BY <1>3 DEF Abstract!Next, AbstractStep

\* Only the first call of either kind closes the queue.
LEMMA ShutDownRefines ==
  ASSUME TypeOK, NEW p \in Procs, ShutDown(p) \/ ShutDownWithDrain(p)
  PROVE  AbstractStep
<1>1. pc \in [Procs -> ProcPcs]
  BY DEF TypeOK, ProcTypeOK
<1>2. Owing' = Owing /\ UNCHANGED <<dirty, processing, delayVars, call>>
  BY <1>1 DEF ShutDown, ShutDownWithDrain, Owing
<1>3. Delayed' = Delayed
  BY <1>2, DelayedSame
<1>4. shuttingDown' = TRUE \/ shuttingDown' = shuttingDown
  BY DEF ShutDown, ShutDownWithDrain, shutDownOnce
<1>5. CASE shuttingDown' = TRUE
  <2>1. Abstract!Close
    BY <1>2, <1>3, <1>5 DEF Abstract!Close
  <2> QED  BY <2>1 DEF Abstract!Next, AbstractStep
<1>6. CASE shuttingDown' = shuttingDown
  BY <1>2, <1>3, <1>6, Stutters DEF AbstractStep
<1> QED  BY <1>4, <1>5, <1>6

-----------------------------------------------------------------------------
(***************************************************************************)
(* The loop moves keys from the channel to the heap, and from either to    *)
(* its own hands, where they stay delayed until it adds them.              *)
(***************************************************************************)
\* The keys of the loop's part, when the calls and the condition do not change.
LoopsKeys == SentKeys \cup HeapKeys \cup LoopKeys

LEMMA LoopKeepsKeys ==
  ASSUME UNCHANGED <<condVars, procVars>>, LoopsKeys' = LoopsKeys
  PROVE  AbstractStep
<1>1. Delayed' = Delayed
  BY DEF procVars, LoopsKeys, Delayed, CallKeys, Owing
<1> QED  BY <1>1, Stutters DEF condVars, AbstractStep

\* The steps that move no key.
LEMMA LoopWaitsRefines ==
  ASSUME LoopTop \/ LoopStop \/ LoopHeartbeat \/ LoopTimer \/ LoopDrained
  PROVE  AbstractStep
<1>1. UNCHANGED <<condVars, procVars, waitingForAddCh, waiting>>
  BY DEF LoopTop, LoopStop, LoopHeartbeat, LoopTimer, LoopDrained
<1>2. LoopKeys = {} /\ LoopKeys' = {}
  BY DEF LoopTop, LoopStop, LoopHeartbeat, LoopTimer, LoopDrained, LoopAt, LoopKeys
<1>3. LoopsKeys' = LoopsKeys
  BY <1>1, <1>2 DEF LoopsKeys, SentKeys, HeapKeys
<1> QED  BY <1>1, <1>3, LoopKeepsKeys

\* A popped key goes from the heap to the loop's hands.
LEMMA LoopPopRefines ==
  ASSUME RefInv, LoopPop
  PROVE  AbstractStep
<1>1. /\ loop.ready \subseteq Items
      /\ waiting \in [Items -> Nat \cup {NotWaiting}]
  BY DEF RefInv, QueueInv, TypeOK, DelayTypeOK
<1>2. UNCHANGED <<condVars, procVars, waitingForAddCh>> /\ LoopKeys = {}
  BY DEF LoopPop, LoopKeys
<1>3. CASE loop' = LoopAt("select") /\ UNCHANGED waiting
  <2>1. LoopKeys' = {}
    BY <1>3 DEF LoopAt, LoopKeys
  <2>2. LoopsKeys' = LoopsKeys
    BY <1>2, <1>3, <2>1 DEF LoopsKeys, SentKeys, HeapKeys
  <2> QED  BY <1>2, <2>2, LoopKeepsKeys
<1>4. ASSUME NEW i \in loop.ready,
             loop' = [pc |-> "popAdd", ready |-> loop.ready \ {i},
                      item |-> i, fresh |-> isFresh(i)],
             waiting' = [waiting EXCEPT ![i] = NotWaiting]
      PROVE  AbstractStep
  <2>1. i \in HeapKeys
    BY <1>1 DEF RefInv, ReadyIsDue, Due, HeapKeys, NotWaiting
  <2>2. HeapKeys' = HeapKeys \ {i}
    BY <1>1, <1>4 DEF HeapKeys
  <2>3. LoopKeys' = {i}
    BY <1>4 DEF LoopKeys
  <2>4. LoopsKeys' = LoopsKeys
    BY <1>2, <2>1, <2>2, <2>3 DEF LoopsKeys, SentKeys
  <2> QED  BY <1>2, <2>4, LoopKeepsKeys
<1> QED  BY <1>3, <1>4 DEF LoopPop

\* A received key goes to the heap, or, when it is due, to the loop's hands.
LEMMA LoopReceiveRefines ==
  ASSUME TypeOK, LoopReceive
  PROVE  AbstractStep
<1> DEFINE e == Head(waitingForAddCh)
           R == [item : Items, delay : Nat]
<1>1. waitingForAddCh \in Seq(R) /\ waiting \in [Items -> Nat \cup {NotWaiting}]
  BY DEF TypeOK, DelayTypeOK
<1>2. UNCHANGED <<condVars, procVars>> /\ LoopKeys = {} /\ waitingForAddCh # <<>>
  BY DEF LoopReceive, LoopKeys
<1>3. /\ waitingForAddCh' = Tail(waitingForAddCh)
      /\ \/ e.delay > 0 /\ insert(e) /\ loop' = LoopAt("drain")
         \/ /\ loop' = [pc |-> "recvAdd", ready |-> {}, item |-> e.item,
                         fresh |-> isFresh(e.item)]
            /\ UNCHANGED waiting
  BY DEF LoopReceive
<1> HIDE DEF e, R
<1>4. ToSet(waitingForAddCh) = ToSet(waitingForAddCh') \cup {e}
  BY <1>1, <1>2, <1>3, HeadAndTail DEF e
<1>5. SentKeys = SentKeys' \cup {e.item}
  BY <1>4 DEF SentKeys
<1>6. e \in R
  BY <1>1, <1>2, HeadTailProperties DEF e
<1>7. e.item \in Items /\ e.delay \in Nat
  BY <1>6 DEF R
<1>8. CASE insert(e) /\ loop' = LoopAt("drain")
  <2>1. LoopKeys' = {}
    BY <1>8 DEF LoopAt, LoopKeys
  <2>2. HeapKeys' = HeapKeys \cup {e.item}
    BY <1>1, <1>7, <1>8 DEF insert, HeapKeys, NotWaiting
  <2>3. LoopsKeys' = LoopsKeys
    BY <1>2, <1>5, <2>1, <2>2 DEF LoopsKeys
  <2> QED  BY <1>2, <2>3, LoopKeepsKeys
<1>9. CASE /\ loop' = [pc |-> "recvAdd", ready |-> {}, item |-> e.item,
                       fresh |-> isFresh(e.item)]
           /\ UNCHANGED waiting
  <2>1. LoopKeys' = {e.item}
    BY <1>9 DEF LoopKeys
  <2>2. LoopsKeys' = LoopsKeys
    BY <1>2, <1>5, <1>9, <2>1 DEF LoopsKeys, HeapKeys
  <2> QED  BY <1>2, <2>2, LoopKeepsKeys
<1> QED  BY <1>3, <1>8, <1>9

\* The add the loop makes for the key in its hands.
LEMMA LoopAddRefines ==
  ASSUME TypeOK, LoopAdd
  PROVE  AbstractStep
<1>1. loop.item \in Items /\ loop.fresh \in BOOLEAN
  BY DEF LoopAdd, TypeOK, DelayTypeOK
<1>2. LoopKeys = {loop.item} /\ LoopKeys' = {}
  BY DEF LoopAdd, LoopAt, LoopKeys
<1>3. UNCHANGED <<waitingForAddCh, waiting, pc, call>> /\ add(loop.item, loop.fresh)
  BY DEF LoopAdd, procVars
<1>4. SentKeys' = SentKeys /\ HeapKeys' = HeapKeys /\ CallKeys' = CallKeys
  BY <1>3 DEF SentKeys, HeapKeys, CallKeys, Owing
<1>5. Released(loop.item)
  BY <1>2, <1>4 DEF Released, Delayed
<1> QED  BY <1>1, <1>3, <1>5, AddFires DEF AbstractStep

\* Time passes: no key becomes or stops being delayed.
LEMMA TickRefines ==
  ASSUME TypeOK, Tick
  PROVE  AbstractStep
<1> DEFINE R == [item : Items, delay : Nat]
<1>1. /\ waitingForAddCh \in Seq(R)
      /\ waiting \in [Items -> Nat \cup {NotWaiting}]
      /\ call \in [Procs -> [item : Items \cup {NoItem}, fresh : BOOLEAN, delay : Nat]]
  BY DEF TypeOK, DelayTypeOK, ProcTypeOK
<1>2. UNCHANGED <<dirty, processing, shuttingDown, loop, pc>>
  BY DEF Tick, condVars
<1>3. \A i \in Items : (waiting'[i] = NotWaiting) <=> (waiting[i] = NotWaiting)
  BY <1>1 DEF Tick, Elapse, NotWaiting
<1>4. HeapKeys' = HeapKeys
  BY <1>3 DEF HeapKeys
<1>5. \A p \in Procs : call'[p].item = call[p].item
  BY <1>1 DEF Tick
<1>6. Owing' = Owing /\ Owing \subseteq Procs
  BY <1>2 DEF Owing
<1>7. CallKeys' = CallKeys
  BY <1>5, <1>6, CallKeysSame
<1>8. LoopKeys' = LoopKeys
  BY <1>2 DEF LoopKeys
<1>9. SentKeys' = SentKeys
  <2>1. DOMAIN waitingForAddCh' = DOMAIN waitingForAddCh
    BY DEF Tick
  <2>2. \A k \in DOMAIN waitingForAddCh : waitingForAddCh[k] \in R
    BY <1>1, ElementOfSeq, LenProperties
  <2>3. \A k \in DOMAIN waitingForAddCh : waitingForAddCh'[k].item = waitingForAddCh[k].item
    BY <2>2 DEF Tick
  <2>4. /\ SentKeys = {waitingForAddCh[k].item : k \in DOMAIN waitingForAddCh}
        /\ SentKeys' = {waitingForAddCh'[k].item : k \in DOMAIN waitingForAddCh'}
    BY DEF SentKeys, ToSet
  <2> QED  BY <2>1, <2>3, <2>4
<1>10. Delayed' = Delayed
  BY <1>4, <1>7, <1>8, <1>9 DEF Delayed
<1> QED  BY <1>2, <1>10, Stutters DEF AbstractStep

-----------------------------------------------------------------------------
\* Every step of the code's queue is one of the abstract queue, or none.
LEMMA StepRefines == RefInv /\ [Next]_vars => AbstractStep
<1> SUFFICES ASSUME RefInv, [Next]_vars  PROVE AbstractStep
  OBVIOUS
<1>1. TypeOK /\ QueueInv
  BY DEF RefInv, QueueInv
<1>2. /\ Adders \subseteq Procs /\ Getters \subseteq Procs
      /\ FreshGetters \subseteq Procs /\ Closers \subseteq Procs
  BY DEF Procs
<1>3. CASE UNCHANGED vars
  BY <1>3, Stutters
     DEF vars, Delayed, SentKeys, HeapKeys, CallKeys, Owing, LoopKeys, AbstractStep
<1>4. CASE \E p \in Adders, i \in Items :
             \/ Add(p, i)
             \/ \E d \in AddAfterDelays : AddAfter(p, i, d)
             \/ AddRateLimited(p, i)
             \/ Forget(p, i)
  BY <1>1, <1>2, <1>4, AddRefines, AddAfterRefines, RetryRefines
<1>5. CASE (\E p \in Getters : Get(p)) \/ (\E p \in FreshGetters : GetFresh(p))
  BY <1>1, <1>2, <1>5, GetRefines
<1>6. CASE \E p \in Procs, i \in Items : Done(p, i)
  BY <1>1, <1>6, DoneRefines
<1>7. CASE \E p \in Closers : ShutDown(p) \/ ShutDownWithDrain(p)
  BY <1>1, <1>2, <1>7, ShutDownRefines
<1>8. CASE \E p \in Procs : CallStep(p)
  BY <1>1, <1>8, CallStepRefines
<1>9. CASE LoopStep \/ LoopHeartbeat \/ Tick
  BY <1>1, <1>9, LoopWaitsRefines, LoopPopRefines, LoopReceiveRefines, LoopAddRefines,
     TickRefines DEF LoopStep
<1> QED  BY <1>3, <1>4, <1>5, <1>6, <1>7, <1>8, <1>9 DEF Next

\* The initial states of the code's queue are those of the abstract one.
LEMMA InitRefines == Init => Abstract!Init
<1> SUFFICES ASSUME Init  PROVE Abstract!Init
  OBVIOUS
<1>1. SentKeys = {} /\ HeapKeys = {} /\ LoopKeys = {} /\ CallKeys = {}
  BY DEF Init, SentKeys, ToSet, HeapKeys, LoopKeys, LoopAt, CallKeys, Owing
<1> QED  BY <1>1 DEF Init, Abstract!Init, Delayed

\* No interleaving of the two queues, the loop and the calls in progress loses,
\* duplicates or invents a key, for any number of keys and goroutines.
THEOREM QueueImplements == Spec => Implements
<1>1. Init => RefInv /\ Abstract!Init
  BY InitRefInv, InitRefines
<1>2. RefInv /\ [Next]_vars => RefInv'
  BY RefInvStep
<1>3. RefInv /\ [Next]_vars => [Abstract!Next]_(Abstract!queueVars)
  BY StepRefines DEF AbstractStep
<1> QED  BY <1>1, <1>2, <1>3, PTL DEF Spec, Implements, Abstract!Spec
================================================================================
