--------------------------- MODULE RateLimitedQueue ---------------------------
(***************************************************************************)
(* What a controller may rely on when it hands keys to a work queue,       *)
(* whatever the queue keeps inside: a key that is pending is handed out,   *)
(* to one holder at a time; a key added while it is being processed is     *)
(* pending again; a key entrusted with a delay is pending later, and is    *)
(* forgotten only once the queue is shutting down; a queue that is         *)
(* shutting down accepts nothing.  Order, priority and delays are left     *)
(* open here.                                                              *)
(***************************************************************************)
CONSTANT Items              \* the keys a controller adds

VARIABLES pending,          \* keys that need processing
          processing,       \* keys handed out and not yet given back
          delayed,          \* keys that will become pending later
          shut              \* the queue accepts nothing any more

queueVars == <<pending, processing, delayed, shut>>

Init ==
  /\ pending = {}
  /\ processing = {}
  /\ delayed = {}
  /\ shut = FALSE

Add(i) ==
  /\ ~shut
  /\ pending' = pending \cup {i}
  /\ UNCHANGED <<processing, delayed, shut>>

Take(i) ==
  /\ i \in pending \ processing
  /\ pending' = pending \ {i}
  /\ processing' = processing \cup {i}
  /\ UNCHANGED <<delayed, shut>>

Finish(i) ==
  /\ i \in processing
  /\ processing' = processing \ {i}
  /\ UNCHANGED <<pending, delayed, shut>>

Delay(i) ==
  /\ ~shut
  /\ delayed' = delayed \cup {i}
  /\ UNCHANGED <<pending, processing, shut>>

\* The key may have been delayed more than once, so it may stay delayed.
Fire(i) ==
  /\ ~shut
  /\ i \in delayed
  /\ pending' = pending \cup {i}
  /\ delayed' \in {delayed, delayed \ {i}}
  /\ UNCHANGED <<processing, shut>>

Close ==
  /\ shut' = TRUE
  /\ UNCHANGED <<pending, processing, delayed>>

Discard(i) ==
  /\ shut
  /\ delayed' = delayed \ {i}
  /\ UNCHANGED <<pending, processing, shut>>

Next ==
  \/ \E i \in Items :
        \/ Add(i)
        \/ Take(i)
        \/ Finish(i)
        \/ Delay(i)
        \/ Fire(i)
        \/ Discard(i)
  \/ Close

Spec == Init /\ [][Next]_queueVars

===============================================================================
