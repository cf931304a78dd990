----------------------------- MODULE PlayboyQueue -----------------------------
(***************************************************************************)
(* The two-level work queue of pkg/utils/workqueue: a fresh queue that Get *)
(* and GetFresh serve, a staled queue that only Get serves, a delay loop   *)
(* that adds keys when they are due, and a retry counter per key that      *)
(* decides in which queue a delayed key goes.                              *)
(*                                                                         *)
(* One action is one critical section of the code (cond.L, failuresLock or *)
(* the rate limiter's own lock), or one communication on a channel.  A     *)
(* call made of several of them keeps its place in pc and its arguments in *)
(* call.  A goroutine blocked in cond.Wait is in waiters, in the order of  *)
(* the tickets it took: sync.Cond wakes the oldest ticket first.           *)
(*                                                                         *)
(* Time is relative: an entry carries the ticks left until its readyAt,    *)
(* 0 when that instant has passed, and Tick takes one off every entry.     *)
(*                                                                         *)
(* An operator whose name starts with Bug is a plausible mistake in the    *)
(* definition that follows it; no specification uses it.  A property is    *)
(* worth checking when putting such a mistake in the model breaks it.      *)
(***************************************************************************)
EXTENDS Integers, Sequences, SequencesExt

CONSTANTS
  Items,           \* keys
  NoItem,          \* the item of a call that is not in progress
  Getters,         \* goroutines that call Get
  FreshGetters,    \* goroutines that call GetFresh
  Adders,          \* goroutines that call Add, AddAfter, AddRateLimited, Forget
  Closers,         \* goroutines that call ShutDown or ShutDownWithDrain, once
  FreshThreshold,  \* freshThreshold of the constructor
  FastDelay,       \* ticks NewItemFastSlowRateLimiter makes an early retry wait
  SlowDelay,       \* ticks it makes a later retry wait
  AddAfterDelays,  \* durations, in ticks, given to AddAfter
  ChanCap,         \* capacity of waitingForAddCh, 1000 in the code
  MaxHeld,         \* keys a goroutine may hold at once: 1 for worker.go
  MaxRetries       \* bound: retries of one key between two calls of Forget

Procs == Getters \cup FreshGetters \cup Adders \cup Closers

ASSUME ConstantsAssumption ==
  /\ NoItem \notin Items
  /\ FreshThreshold \in Nat \ {0}
  /\ FastDelay \in Nat
  /\ SlowDelay \in Nat
  /\ AddAfterDelays \subseteq Nat
  /\ ChanCap \in Nat
  /\ MaxHeld \in Nat
  /\ MaxRetries \in Nat

VARIABLES
  queueFresh, queueStaled,  \* the two FIFO queues
  dirty,                    \* keys that need processing
  processing,               \* keys handed out by Get or GetFresh
  shuttingDown,             \* also: stopCh is closed
  waiters,                  \* goroutines blocked in cond.Wait, oldest first
  failures,                 \* q.failures, 0 where the map has no entry
  requeues,                 \* the rate limiter's own count per key
  waitingForAddCh,          \* entries sent by AddAfter, not yet received
  waiting,                  \* key -> ticks left in the loop's heap, or NotWaiting
  loop,                     \* state of the goroutine running waitingLoop
  pc, call,                 \* per goroutine: place in its call, and arguments
  held                      \* per goroutine: keys it got and has not given back

condVars  == <<queueFresh, queueStaled, dirty, processing, shuttingDown, waiters>>
retryVars == <<failures, requeues>>
delayVars == <<waitingForAddCh, waiting, loop>>
procVars  == <<pc, call, held>>
vars == <<queueFresh, queueStaled, dirty, processing, shuttingDown, waiters,
          failures, requeues, waitingForAddCh, waiting, loop, pc, call, held>>

NotWaiting == -1
LoopPcs == {"top", "pop", "popAdd", "select", "recvAdd", "drain", "stopped"}
ProcPcs == {"idle", "get", "getFresh", "when", "addAfter", "isFresh", "add",
            "send", "drain", "returned"}

\* The arguments of a call between two of its critical sections.
NoCall == [item |-> NoItem, fresh |-> FALSE, delay |-> 0]

\* The loop between two rounds: ready holds the entries this round has yet to
\* pop, item and fresh the arguments of the add it is about to make.
LoopAt(place) == [pc |-> place, ready |-> {}, item |-> NoItem, fresh |-> FALSE]

Init ==
  /\ queueFresh = <<>>
  /\ queueStaled = <<>>
  /\ dirty = {}
  /\ processing = {}
  /\ shuttingDown = FALSE
  /\ waiters = <<>>
  /\ failures = [i \in Items |-> 0]
  /\ requeues = [i \in Items |-> 0]
  /\ waitingForAddCh = <<>>
  /\ waiting = [i \in Items |-> NotWaiting]
  /\ loop = LoopAt("top")
  /\ pc = [p \in Procs |-> "idle"]
  /\ call = [p \in Procs |-> NoCall]
  /\ held = [p \in Procs |-> {}]

-----------------------------------------------------------------------------
(***************************************************************************)
(* Condition variable.                                                     *)
(***************************************************************************)
Asleep(p) == p \in ToSet(waiters)

Wait(p) == waiters' = Append(waiters, p)

Signal == waiters' = IF waiters = <<>> THEN waiters ELSE Tail(waiters)

Broadcast == waiters' = <<>>

-----------------------------------------------------------------------------
(***************************************************************************)
(* Adding a key.                                                           *)
(***************************************************************************)
isFresh(i) == failures[i] <= FreshThreshold

BugPush(i, fresh) ==   \* wakes a waiter only when the queues were empty
  /\ IF fresh
     THEN queueFresh' = Append(queueFresh, i) /\ UNCHANGED queueStaled
     ELSE queueStaled' = Append(queueStaled, i) /\ UNCHANGED queueFresh
  /\ IF queueFresh = <<>> /\ queueStaled = <<>> THEN Signal ELSE UNCHANGED waiters

BugPushSilent(i, fresh) ==   \* wakes nobody
  /\ IF fresh
     THEN queueFresh' = Append(queueFresh, i) /\ UNCHANGED queueStaled
     ELSE queueStaled' = Append(queueStaled, i) /\ UNCHANGED queueFresh
  /\ UNCHANGED waiters

\* Append to one of the two queues and wake one waiter.
Push(i, fresh) ==
  /\ IF fresh
     THEN queueFresh' = Append(queueFresh, i) /\ UNCHANGED queueStaled
     ELSE queueStaled' = Append(queueStaled, i) /\ UNCHANGED queueFresh
  /\ Signal

BugAddTwice(i, fresh) ==   \* the dirty check is missing
  \/ /\ shuttingDown
     /\ UNCHANGED condVars
  \/ /\ ~shuttingDown
     /\ dirty' = dirty \cup {i}
     /\ IF i \in processing
        THEN UNCHANGED <<queueFresh, queueStaled, waiters>>
        ELSE Push(i, fresh)
     /\ UNCHANGED <<processing, shuttingDown>>

BugAddInProcess(i, fresh) ==   \* the processing check is missing
  \/ /\ shuttingDown \/ i \in dirty
     /\ UNCHANGED condVars
  \/ /\ ~shuttingDown
     /\ i \notin dirty
     /\ dirty' = dirty \cup {i}
     /\ Push(i, fresh)
     /\ UNCHANGED <<processing, shuttingDown>>

add(i, fresh) ==
  \/ /\ shuttingDown \/ i \in dirty
     /\ UNCHANGED condVars
  \/ /\ ~shuttingDown
     /\ i \notin dirty
     /\ dirty' = dirty \cup {i}
     /\ IF i \in processing
        THEN UNCHANGED <<queueFresh, queueStaled, waiters>>
        ELSE Push(i, fresh)
     /\ UNCHANGED <<processing, shuttingDown>>

Add(p, i) ==
  /\ pc[p] = "idle"
  /\ add(i, TRUE)
  /\ UNCHANGED <<retryVars, delayVars, procVars>>

BugAfterCheck(p, i, d) ==   \* ShuttingDown is not asked
  /\ pc' = [pc EXCEPT ![p] = IF d = 0 THEN "isFresh" ELSE "send"]
  /\ call' = [call EXCEPT ![p] = [item |-> i, fresh |-> FALSE, delay |-> d]]

\* What AddAfter does once q.ShuttingDown() has returned.
afterCheck(p, i, d) ==
  IF shuttingDown
  THEN /\ pc' = [pc EXCEPT ![p] = "idle"]
       /\ call' = [call EXCEPT ![p] = NoCall]
  ELSE /\ pc' = [pc EXCEPT ![p] = IF d = 0 THEN "isFresh" ELSE "send"]
       /\ call' = [call EXCEPT ![p] = [item |-> i, fresh |-> FALSE, delay |-> d]]

AddAfter(p, i, d) ==
  /\ pc[p] = "idle"
  /\ afterCheck(p, i, d)
  /\ UNCHANGED <<condVars, retryVars, delayVars, held>>

\* duration <= 0: the key is added at once, in the queue isFresh picks; the
\* retry count is read under failuresLock, before cond.L is taken.
AddAfterIsFresh(p) ==
  /\ pc[p] = "isFresh"
  /\ pc' = [pc EXCEPT ![p] = "add"]
  /\ call' = [call EXCEPT ![p].fresh = isFresh(call[p].item)]
  /\ UNCHANGED <<condVars, retryVars, delayVars, held>>

AddAfterAdd(p) ==
  /\ pc[p] = "add"
  /\ add(call[p].item, call[p].fresh)
  /\ pc' = [pc EXCEPT ![p] = "idle"]
  /\ call' = [call EXCEPT ![p] = NoCall]
  /\ UNCHANGED <<retryVars, delayVars, held>>

\* A send on the buffered channel, possible while it has room.
Send(e) ==
  /\ Len(waitingForAddCh) < ChanCap
  /\ waitingForAddCh' = Append(waitingForAddCh, e)

BugAddAfterSend(p) ==   \* does not wait for room
  /\ pc[p] = "send"
  /\ waitingForAddCh' = Append(waitingForAddCh, [item |-> call[p].item, delay |-> call[p].delay])
  /\ pc' = [pc EXCEPT ![p] = "idle"]
  /\ call' = [call EXCEPT ![p] = NoCall]
  /\ UNCHANGED <<condVars, retryVars, waiting, loop, held>>

\* The select of AddAfter: send the entry, or give up when stopCh is closed.
AddAfterSend(p) ==
  /\ pc[p] = "send"
  /\ \/ Send([item |-> call[p].item, delay |-> call[p].delay])
     \/ /\ shuttingDown
        /\ UNCHANGED waitingForAddCh
  /\ pc' = [pc EXCEPT ![p] = "idle"]
  /\ call' = [call EXCEPT ![p] = NoCall]
  /\ UNCHANGED <<condVars, retryVars, waiting, loop, held>>

\* AddRateLimited counts the retry under failuresLock, asks the rate limiter
\* for a delay under the limiter's lock, then calls AddAfter.
AddRateLimited(p, i) ==
  /\ pc[p] = "idle"
  /\ failures[i] < MaxRetries /\ requeues[i] < MaxRetries
  /\ failures' = [failures EXCEPT ![i] = @ + 1]
  /\ pc' = [pc EXCEPT ![p] = "when"]
  /\ call' = [call EXCEPT ![p].item = i]
  /\ UNCHANGED <<condVars, requeues, delayVars, held>>

\* client-go's ItemFastSlowRateLimiter.When
When(p) ==
  /\ pc[p] = "when"
  /\ LET i == call[p].item
     IN  /\ requeues' = [requeues EXCEPT ![i] = @ + 1]
         /\ call' = [call EXCEPT ![p].delay =
                       IF requeues'[i] <= FreshThreshold THEN FastDelay ELSE SlowDelay]
  /\ pc' = [pc EXCEPT ![p] = "addAfter"]
  /\ UNCHANGED <<condVars, failures, delayVars, held>>

AddRateLimitedAfter(p) ==
  /\ pc[p] = "addAfter"
  /\ afterCheck(p, call[p].item, call[p].delay)
  /\ UNCHANGED <<condVars, retryVars, delayVars, held>>

BugForget(p, i) ==   \* the rate limiter is not told
  /\ pc[p] = "idle"
  /\ failures' = [failures EXCEPT ![i] = 0]
  /\ UNCHANGED <<requeues, condVars, delayVars, procVars>>

Forget(p, i) ==
  /\ pc[p] = "idle"
  /\ failures' = [failures EXCEPT ![i] = 0]
  /\ requeues' = [requeues EXCEPT ![i] = 0]
  /\ UNCHANGED <<condVars, delayVars, procVars>>

-----------------------------------------------------------------------------
(***************************************************************************)
(* Getting a key and giving it back.                                       *)
(***************************************************************************)
TakeFresh(p) ==
  /\ queueFresh # <<>>
  /\ queueFresh' = Tail(queueFresh)
  /\ processing' = processing \cup {Head(queueFresh)}
  /\ dirty' = dirty \ {Head(queueFresh)}
  /\ held' = [held EXCEPT ![p] = @ \cup {Head(queueFresh)}]
  /\ pc' = [pc EXCEPT ![p] = "idle"]
  /\ UNCHANGED <<queueStaled, waiters>>

BugTakeStaled(p) ==   \* the newest key first
  /\ queueStaled # <<>>
  /\ queueStaled' = Front(queueStaled)
  /\ processing' = processing \cup {Last(queueStaled)}
  /\ dirty' = dirty \ {Last(queueStaled)}
  /\ held' = [held EXCEPT ![p] = @ \cup {Last(queueStaled)}]
  /\ pc' = [pc EXCEPT ![p] = "idle"]
  /\ UNCHANGED <<queueFresh, waiters>>

TakeStaled(p) ==
  /\ queueStaled # <<>>
  /\ queueStaled' = Tail(queueStaled)
  /\ processing' = processing \cup {Head(queueStaled)}
  /\ dirty' = dirty \ {Head(queueStaled)}
  /\ held' = [held EXCEPT ![p] = @ \cup {Head(queueStaled)}]
  /\ pc' = [pc EXCEPT ![p] = "idle"]
  /\ UNCHANGED <<queueFresh, waiters>>

\* Nothing to take: wait, or report the shutdown to a caller that then ends.
WaitOrReturn(p, place) ==
  /\ IF shuttingDown
     THEN /\ pc' = [pc EXCEPT ![p] = "returned"]
          /\ UNCHANGED waiters
     ELSE /\ pc' = [pc EXCEPT ![p] = place]
          /\ Wait(p)
  /\ UNCHANGED <<queueFresh, queueStaled, dirty, processing, held>>

BugGet(p) ==   \* reports the shutdown before looking at the queues
  /\ pc[p] \in {"idle", "get"} /\ ~Asleep(p)
  /\ Cardinality(held[p]) < MaxHeld
  /\ \/ shuttingDown /\ WaitOrReturn(p, "get")
     \/ ~shuttingDown /\ TakeFresh(p)
     \/ ~shuttingDown /\ queueFresh = <<>> /\ TakeStaled(p)
     \/ queueFresh = <<>> /\ queueStaled = <<>> /\ WaitOrReturn(p, "get")
  /\ UNCHANGED <<shuttingDown, retryVars, delayVars, call>>

Get(p) ==
  /\ pc[p] \in {"idle", "get"} /\ ~Asleep(p)
  /\ Cardinality(held[p]) < MaxHeld
  /\ \/ TakeFresh(p)
     \/ queueFresh = <<>> /\ TakeStaled(p)
     \/ queueFresh = <<>> /\ queueStaled = <<>> /\ WaitOrReturn(p, "get")
  /\ UNCHANGED <<shuttingDown, retryVars, delayVars, call>>

GetFresh(p) ==
  /\ pc[p] \in {"idle", "getFresh"} /\ ~Asleep(p)
  /\ Cardinality(held[p]) < MaxHeld
  /\ \/ TakeFresh(p)
     \/ queueFresh = <<>> /\ WaitOrReturn(p, "getFresh")
  /\ UNCHANGED <<shuttingDown, retryVars, delayVars, call>>

\* The queue Done picks for a key that became dirty while it was processed.
RequeueFresh(i) == requeues[i] > FreshThreshold

Done(p, i) ==
  /\ pc[p] \in {"idle", "returned"}
  /\ i \in held[p]
  /\ held' = [held EXCEPT ![p] = @ \ {i}]
  /\ processing' = processing \ {i}
  /\ IF i \in dirty
     THEN Push(i, RequeueFresh(i))
     ELSE UNCHANGED <<queueFresh, queueStaled, waiters>>
  /\ UNCHANGED <<dirty, shuttingDown, retryVars, delayVars, pc, call>>

-----------------------------------------------------------------------------
(***************************************************************************)
(* Shutting down.                                                          *)
(***************************************************************************)
\* stopOnce: only the first call does anything.
BugShutDownOnce ==   \* wakes one waiter only
  \/ /\ ~shuttingDown
     /\ shuttingDown' = TRUE
     /\ Signal
  \/ /\ shuttingDown
     /\ UNCHANGED <<shuttingDown, waiters>>

shutDownOnce ==
  \/ /\ ~shuttingDown
     /\ shuttingDown' = TRUE
     /\ Broadcast
  \/ /\ shuttingDown
     /\ UNCHANGED <<shuttingDown, waiters>>

ShutDown(p) ==
  /\ pc[p] = "idle"
  /\ shutDownOnce
  /\ pc' = [pc EXCEPT ![p] = "returned"]
  /\ UNCHANGED <<queueFresh, queueStaled, dirty, processing, retryVars, delayVars,
                 call, held>>

ShutDownWithDrain(p) ==
  /\ pc[p] = "idle"
  /\ shutDownOnce
  /\ pc' = [pc EXCEPT ![p] = "drain"]
  /\ UNCHANGED <<queueFresh, queueStaled, dirty, processing, retryVars, delayVars,
                 call, held>>

waitForProcessing(p) ==
  /\ pc[p] = "drain" /\ ~Asleep(p)
  /\ \/ /\ processing = {}
        /\ pc' = [pc EXCEPT ![p] = "returned"]
        /\ UNCHANGED waiters
     \/ /\ processing # {}
        /\ Wait(p)
        /\ UNCHANGED pc
  /\ UNCHANGED <<queueFresh, queueStaled, dirty, processing, shuttingDown, retryVars,
                 delayVars, call, held>>

-----------------------------------------------------------------------------
(***************************************************************************)
(* The goroutine of waitingLoop.  Its heap holds at most one entry a key,  *)
(* so it is the function waiting; entries whose time has passed leave it   *)
(* in any order.                                                           *)
(***************************************************************************)
BugDue(i) == waiting[i] \in 0 .. 1

Due(i) == waiting[i] = 0

LoopTop ==
  /\ loop.pc = "top"
  /\ loop' = IF shuttingDown
             THEN LoopAt("stopped")
             ELSE [LoopAt("pop") EXCEPT !.ready = {i \in Items : Due(i)}]
  /\ UNCHANGED <<condVars, retryVars, waitingForAddCh, waiting, procVars>>

\* Pop the next ready entry and read its retry count; add comes in a step of
\* its own, under another lock.
LoopPop ==
  /\ loop.pc = "pop"
  /\ \/ /\ loop.ready = {}
        /\ loop' = LoopAt("select")
        /\ UNCHANGED waiting
     \/ \E i \in loop.ready :
        /\ loop' = [pc |-> "popAdd", ready |-> loop.ready \ {i},
                    item |-> i, fresh |-> isFresh(i)]
        /\ waiting' = [waiting EXCEPT ![i] = NotWaiting]
  /\ UNCHANGED <<condVars, retryVars, waitingForAddCh, procVars>>

LoopAdd ==
  /\ \/ /\ loop.pc = "popAdd"
        /\ loop' = [LoopAt("pop") EXCEPT !.ready = loop.ready]
     \/ /\ loop.pc = "recvAdd"
        /\ loop' = LoopAt("drain")
  /\ add(loop.item, loop.fresh)
  /\ UNCHANGED <<retryVars, waitingForAddCh, waiting, procVars>>

LoopStop ==
  /\ loop.pc = "select"
  /\ shuttingDown
  /\ loop' = LoopAt("stopped")
  /\ UNCHANGED <<condVars, retryVars, waitingForAddCh, waiting, procVars>>

LoopHeartbeat ==
  /\ loop.pc = "select"
  /\ loop' = LoopAt("top")
  /\ UNCHANGED <<condVars, retryVars, waitingForAddCh, waiting, procVars>>

BugLoopTimer == FALSE   \* the timer is never armed

LoopTimer ==
  /\ loop.pc = "select"
  /\ \E i \in Items : Due(i)
  /\ loop' = LoopAt("top")
  /\ UNCHANGED <<condVars, retryVars, waitingForAddCh, waiting, procVars>>

BugInsert(e) == waiting' = [waiting EXCEPT ![e.item] = e.delay]

\* insert of helper.go: an earlier entry of the same key wins.
insert(e) ==
  waiting' = IF waiting[e.item] # NotWaiting /\ waiting[e.item] <= e.delay
             THEN waiting
             ELSE [waiting EXCEPT ![e.item] = e.delay]

\* Receive one entry, in the select or in the inner loop that empties the
\* channel before the outer loop runs again.
LoopReceive ==
  /\ loop.pc \in {"select", "drain"}
  /\ waitingForAddCh # <<>>
  /\ LET e == Head(waitingForAddCh)
     IN  \/ /\ e.delay > 0
            /\ insert(e)
            /\ loop' = LoopAt("drain")
         \/ /\ e.delay = 0
            /\ loop' = [pc |-> "recvAdd", ready |-> {}, item |-> e.item,
                        fresh |-> isFresh(e.item)]
            /\ UNCHANGED waiting
  /\ waitingForAddCh' = Tail(waitingForAddCh)
  /\ UNCHANGED <<condVars, retryVars, procVars>>

LoopDrained ==
  /\ loop.pc = "drain"
  /\ waitingForAddCh = <<>>
  /\ loop' = LoopAt("top")
  /\ UNCHANGED <<condVars, retryVars, waitingForAddCh, waiting, procVars>>

-----------------------------------------------------------------------------
(***************************************************************************)
(* The clock.                                                              *)
(***************************************************************************)
Elapse(d) == IF d = 0 THEN 0 ELSE d - 1

Tick ==
  /\ waiting' = [i \in Items |-> IF waiting[i] = NotWaiting THEN NotWaiting
                                                            ELSE Elapse(waiting[i])]
  /\ waitingForAddCh' = [k \in DOMAIN waitingForAddCh |->
                           [waitingForAddCh[k] EXCEPT !.delay = Elapse(@)]]
  /\ call' = [p \in Procs |-> IF pc[p] = "send"
                              THEN [call[p] EXCEPT !.delay = Elapse(@)]
                              ELSE call[p]]
  /\ UNCHANGED <<condVars, retryVars, loop, pc, held>>

-----------------------------------------------------------------------------
\* What a goroutine does inside a call it has made.
CallStep(p) ==
  \/ AddAfterIsFresh(p)
  \/ AddAfterAdd(p)
  \/ AddAfterSend(p)
  \/ When(p)
  \/ AddRateLimitedAfter(p)
  \/ waitForProcessing(p)

LoopStep ==
  \/ LoopTop \/ LoopPop \/ LoopAdd \/ LoopStop \/ LoopTimer
  \/ LoopReceive \/ LoopDrained

Next ==
  \/ \E p \in Adders, i \in Items :
        \/ Add(p, i)
        \/ \E d \in AddAfterDelays : AddAfter(p, i, d)
        \/ AddRateLimited(p, i)
        \/ Forget(p, i)
  \/ \E p \in Getters : Get(p)
  \/ \E p \in FreshGetters : GetFresh(p)
  \/ \E p \in Procs, i \in Items : Done(p, i)
  \/ \E p \in Closers : ShutDown(p) \/ ShutDownWithDrain(p)
  \/ \E p \in Procs : CallStep(p)
  \/ LoopStep
  \/ LoopHeartbeat
  \/ Tick

Spec == Init /\ [][Next]_vars

(***************************************************************************)
(* Fairness.  The scheduler runs every runnable goroutine and Go's mutex   *)
(* does not starve, so a step that stays possible is taken; a sender       *)
(* blocked on the channel is served in the order of arrival, so it is not  *)
(* overtaken for ever; a select with several ready cases picks one at      *)
(* random, so the loop does not pass over a sent entry for ever.  Whoever  *)
(* holds a key gives it back, and a worker asks for the next one, as       *)
(* worker.go does.  Nothing is assumed of the callers in Adders and        *)
(* Closers, nor of the heartbeat.                                          *)
(***************************************************************************)
SchedulerFairness ==
  /\ \A p \in Procs : WF_vars(CallStep(p)) /\ SF_vars(AddAfterSend(p))
  /\ \A p \in Getters : WF_vars(Get(p))
  /\ \A p \in FreshGetters : WF_vars(GetFresh(p))
  /\ WF_vars(LoopStep)
  /\ SF_vars(LoopReceive)
  /\ WF_vars(Tick)

Fairness ==
  /\ SchedulerFairness
  /\ \A p \in Procs, i \in Items : WF_vars(Done(p, i))

FairSpec == Spec /\ Fairness

-----------------------------------------------------------------------------
(***************************************************************************)
(* Safety.                                                                 *)
(***************************************************************************)
Callers == {p \in Procs : pc[p] \in {"when", "addAfter", "isFresh", "add", "send"}}

CondTypeOK ==
  /\ queueFresh \in Seq(Items)
  /\ queueStaled \in Seq(Items)
  /\ dirty \subseteq Items
  /\ processing \subseteq Items
  /\ shuttingDown \in BOOLEAN
  /\ waiters \in Seq(Procs)

RetryTypeOK ==
  /\ failures \in [Items -> Nat]
  /\ requeues \in [Items -> Nat]

DelayTypeOK ==
  /\ waitingForAddCh \in Seq([item : Items, delay : Nat])
  /\ Len(waitingForAddCh) <= ChanCap
  /\ waiting \in [Items -> Nat \cup {NotWaiting}]
  /\ loop \in [pc : LoopPcs, ready : SUBSET Items, item : Items \cup {NoItem},
               fresh : BOOLEAN]
  /\ loop.pc \in {"popAdd", "recvAdd"} => loop.item \in Items

ProcTypeOK ==
  /\ pc \in [Procs -> ProcPcs]
  /\ call \in [Procs -> [item : Items \cup {NoItem}, fresh : BOOLEAN, delay : Nat]]
  /\ \A p \in Callers : call[p].item \in Items
  /\ held \in [Procs -> SUBSET Items]

\* Every variable keeps its type; in particular the channel never holds more
\* than its capacity, and a call in progress has an item.
TypeOK == CondTypeOK /\ RetryTypeOK /\ DelayTypeOK /\ ProcTypeOK

\* The comment on queueFresh and queueStaled, made exact: the two queues hold
\* precisely the keys that are dirty and not being processed, each key once,
\* in one of the two.
QueuesExact ==
  /\ ToSet(queueFresh) \cup ToSet(queueStaled) = dirty \ processing
  /\ ToSet(queueFresh) \cap ToSet(queueStaled) = {}
  /\ IsInjective(queueFresh)
  /\ IsInjective(queueStaled)

\* A key is never processed by two goroutines at once, and processing is what
\* the goroutines hold: no key is lost there and none is left behind.
ExclusiveHolding ==
  /\ \A p, q \in Procs : p # q => held[p] \cap held[q] = {}
  /\ processing = UNION {held[p] : p \in Procs}

\* Get and GetFresh share one condition variable, and add wakes one waiter.
\* For fresh keys that is enough: while somebody sleeps in a Get or GetFresh,
\* at least as many callers are on their way to the fresh queue as it has keys.
Getting == {p \in Procs : pc[p] \in {"get", "getFresh"}}

FreshKeysHaveTakers ==
  (\E p \in Getting : Asleep(p)) =>
     Len(queueFresh) <= Cardinality({p \in Getting : ~Asleep(p)})

\* The same for both queues.  It holds where every caller calls Get; where
\* some call GetFresh, see GetIsNotForgotten.
KeysHaveTakers ==
  (\E p \in Getting : Asleep(p)) =>
     Len(queueFresh) + Len(queueStaled) <= Cardinality({p \in Getting : ~Asleep(p)})

\* Once every goroutine that takes keys was told to exit, each with its last
\* key given back, the shutdown has left no key behind in the queues.
ExitLeavesNothing ==
  (/\ shuttingDown
   /\ \A p \in Getters \cup FreshGetters : pc[p] = "returned" /\ held[p] = {})
     => dirty = {}

\* The keys the queue owes a later add: in the channel, in the loop's heap, in
\* a call of AddAfter, or on the way from the loop to add.
SentKeys == {e.item : e \in ToSet(waitingForAddCh)}
HeapKeys == {i \in Items : waiting[i] # NotWaiting}
Owing    == {p \in Procs : pc[p] \in {"isFresh", "add", "send"}}
CallKeys == {call[p].item : p \in Owing}
LoopKeys == IF loop.pc \in {"popAdd", "recvAdd"} THEN {loop.item} ELSE {}
Delayed  == SentKeys \cup HeapKeys \cup CallKeys \cup LoopKeys

\* Both queues, the loop and the calls in progress implement one queue with
\* delays: no interleaving of them loses, duplicates or invents a key.
Abstract == INSTANCE RateLimitedQueue WITH
  pending <- dirty, delayed <- Delayed, shut <- shuttingDown

Implements == Abstract!Spec

-----------------------------------------------------------------------------
(***************************************************************************)
(* Delays.                                                                 *)
(***************************************************************************)
Deadlines(i) ==
  {waitingForAddCh[k].delay : k \in {n \in DOMAIN waitingForAddCh :
                                       waitingForAddCh[n].item = i}}
  \cup {d \in {waiting[i]} : d # NotWaiting}
  \cup {call[p].delay : p \in {q \in Procs : pc[q] = "send" /\ call[q].item = i}}

\* A key that waits for several instants is never moved to a later one: each
\* instant it waits for is matched, after the step, by one that is no later,
\* unless the loop has just taken the key to add it, or the queue shuts down.
NeverPostponed ==
  [][\A i \in Items : \A d \in Deadlines(i) :
        \/ \E e \in Deadlines(i)' : e <= d
        \/ loop'.pc \in {"popAdd", "recvAdd"} /\ loop'.item = i
        \/ shuttingDown]_vars

\* The loop adds a key only at an instant the key was waiting for.
NeverEarly ==
  [][\A i \in Items :
        (loop'.pc \in {"popAdd", "recvAdd"} /\ loop'.item = i /\ loop' # loop)
           => 0 \in Deadlines(i)]_vars

-----------------------------------------------------------------------------
(***************************************************************************)
(* Liveness, under FairSpec.                                               *)
(***************************************************************************)
\* A key given to AddAfter or AddRateLimited becomes dirty, unless the queue
\* shuts down or senders keep the inner loop of waitingLoop busy for ever.
DelayedIsAdded ==
  \A i \in Items :
     (i \in Delayed) ~> \/ i \in dirty
                        \/ shuttingDown
                        \/ [](loop.pc \in {"drain", "recvAdd"})

\* A fresh key is eventually handed out, whatever staled keys there are.
FreshIsServed ==
  \A i \in Items : (i \in ToSet(queueFresh)) ~> (i \in processing)

\* So is a staled key, once no fresh key comes in any more, where every taker
\* calls Get.
StaledIsServed ==
  <>[](queueFresh = <<>>) =>
     \A i \in Items : (i \in ToSet(queueStaled)) ~> (i \in processing)

\* A shutdown ends every Get and GetFresh, the loop, and every AddAfter that
\* is blocked on a full channel.
ShutdownEnds ==
  shuttingDown ~> /\ loop.pc = "stopped"
                  /\ Callers = {}
                  /\ \A p \in Getters \cup FreshGetters : pc[p] = "returned"

-----------------------------------------------------------------------------
(***************************************************************************)
(* What comments say and the code does not do.                             *)
(***************************************************************************)
\* "Get blocks until it can return an item to be processed": with an item in
\* the staled queue, a Get that waits does not wait for ever.
GetIsNotForgotten ==
  \A p \in Getters :
     (Asleep(p) /\ queueStaled # <<>>) ~> (~Asleep(p) \/ queueStaled = <<>>)

\* "finished processing and called Done on all existing items in the queue;
\* ... and ShutDownWithDrain will return".
DrainReturns ==
  \A p \in Closers :
     (pc[p] = "drain" /\ dirty = {} /\ processing = {}) ~> (pc[p] = "returned")

\* "If the item has been retried too many time, it will be added to the staled
\* queue": Done puts a key that became dirty while it was processed, and was
\* retried more often than the threshold, in the staled queue.
DoneStalesRetried ==
  [][\A i \in processing \ processing' :
        (i \in dirty /\ requeues[i] > FreshThreshold)
           => i \in ToSet(queueStaled)']_vars
===============================================================================
