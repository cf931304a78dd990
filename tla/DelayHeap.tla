------------------------------- MODULE DelayHeap -------------------------------
(***************************************************************************)
(* The priority queue of waitingLoop (helper.go): a binary heap of entries *)
(* ordered by readyAt, kept by container/heap, beside the map knownEntries *)
(* from a key to its entry.  An entry carries its index in the heap, which *)
(* insert needs to move an entry that becomes earlier.                     *)
(*                                                                         *)
(* Every key has at most one entry, so an entry is named by its key.       *)
(* Indices are those of the code, from 0; the sequence pq starts at 1.     *)
(***************************************************************************)
EXTENDS Integers, Sequences, SequencesExt

CONSTANTS
  Keys,
  Times          \* instants an entry may be due at

ASSUME TimesAssumption == Times \subseteq Nat

VARIABLES
  heap,          \* the entries: pq their order, index and readyAt their fields
  knownEntries   \* the keys of the map

vars == <<heap, knownEntries>>

NoIndex == -1
NoTime  == 0

Init ==
  /\ heap = [pq      |-> <<>>,
             index   |-> [k \in Keys |-> NoIndex],
             readyAt |-> [k \in Keys |-> NoTime]]
  /\ knownEntries = {}

-----------------------------------------------------------------------------
(***************************************************************************)
(* heap.Interface.                                                         *)
(***************************************************************************)
Entry(h, i) == h.pq[i + 1]

Less(h, i, j) == h.readyAt[Entry(h, i)] < h.readyAt[Entry(h, j)]

BugSwap(h, i, j) ==   \* one of the indices is not set
  [h EXCEPT !.pq[i + 1] = Entry(h, j),
            !.pq[j + 1] = Entry(h, i),
            !.index[Entry(h, j)] = i]

Swap(h, i, j) ==
  [h EXCEPT !.pq[i + 1] = Entry(h, j),
            !.pq[j + 1] = Entry(h, i),
            !.index[Entry(h, j)] = i,
            !.index[Entry(h, i)] = j]

PushLast(h, k) == [h EXCEPT !.pq = Append(@, k), !.index[k] = Len(h.pq)]

\* The entry removed is forgotten, so its fields no longer matter.
PopLast(h) ==
  [h EXCEPT !.pq = Front(@),
            !.index[Last(h.pq)] = NoIndex,
            !.readyAt[Last(h.pq)] = NoTime]

-----------------------------------------------------------------------------
(***************************************************************************)
(* container/heap.                                                         *)
(***************************************************************************)
Parent(j) == IF j = 0 THEN 0 ELSE (j - 1) \div 2

\* One turn of each loop.  A turn that finds the entry in its place changes
\* nothing, nor does any turn after it, and no loop makes more turns than there
\* are places to go through.
UpTurn(s) ==
  IF Parent(s.at) = s.at \/ ~Less(s.heap, s.at, Parent(s.at))
  THEN s
  ELSE [heap |-> Swap(s.heap, Parent(s.at), s.at), at |-> Parent(s.at)]

DownTurn(s, n) ==
  LET left    == 2 * s.at + 1
      smaller == IF left + 1 < n /\ Less(s.heap, left + 1, left) THEN left + 1 ELSE left
  IN  IF left >= n \/ ~Less(s.heap, smaller, s.at)
      THEN s
      ELSE [heap |-> Swap(s.heap, s.at, smaller), at |-> smaller]

up(h, j) ==
  LET after[m \in 0 .. j] ==
        IF m = 0 THEN [heap |-> h, at |-> j] ELSE UpTurn(after[m - 1])
  IN  after[j].heap

down(h, i, n) ==
  LET after[m \in 0 .. n] ==
        IF m = 0 THEN [heap |-> h, at |-> i] ELSE DownTurn(after[m - 1], n)
  IN  after[n].heap

Push(h, k) == up(PushLast(h, k), Len(h.pq))

Pop(h) == PopLast(down(Swap(h, 0, Len(h.pq) - 1), 0, Len(h.pq) - 1))

Fix(h, i) ==
  LET lowered == down(h, i, Len(h.pq))
  IN  IF lowered = h THEN up(h, i) ELSE lowered

-----------------------------------------------------------------------------
(***************************************************************************)
(* What waitingLoop does with it.                                          *)
(***************************************************************************)
BugInsert(k, t) ==   \* an entry that becomes earlier stays where it is
  \/ /\ k \in knownEntries
     /\ heap' = [heap EXCEPT !.readyAt[k] = IF t < @ THEN t ELSE @]
     /\ UNCHANGED knownEntries
  \/ /\ k \notin knownEntries
     /\ heap' = Push([heap EXCEPT !.readyAt[k] = t], k)
     /\ knownEntries' = knownEntries \cup {k}

Insert(k, t) ==
  \/ /\ k \in knownEntries
     /\ heap' = IF heap.readyAt[k] > t
                THEN Fix([heap EXCEPT !.readyAt[k] = t], heap.index[k])
                ELSE heap
     /\ UNCHANGED knownEntries
  \/ /\ k \notin knownEntries
     /\ heap' = Push([heap EXCEPT !.readyAt[k] = t], k)
     /\ knownEntries' = knownEntries \cup {k}

\* Pop the entry Peek returns, as long as it is not after now.
PopReady(now) ==
  /\ heap.pq # <<>>
  /\ heap.readyAt[Entry(heap, 0)] <= now
  /\ heap' = Pop(heap)
  /\ knownEntries' = knownEntries \ {Entry(heap, 0)}

Next ==
  \/ \E k \in Keys, t \in Times : Insert(k, t)
  \/ \E now \in Times : PopReady(now)

Spec == Init /\ [][Next]_vars

-----------------------------------------------------------------------------
\* The heap, the map and the indices agree: each key of the map has one entry
\* in the heap, at its index, so heap.Fix moves the entry insert has changed.
EntriesAgree ==
  /\ ToSet(heap.pq) = knownEntries
  /\ Len(heap.pq) = Cardinality(knownEntries)
  /\ \A i \in 0 .. Len(heap.pq) - 1 : heap.index[Entry(heap, i)] = i

\* The heap is a map from keys to instants that hands keys back in order: the
\* loop may stop at the first entry that is not ready, and an entry moved to an
\* earlier instant is found at that instant.
Delays == INSTANCE DelayedKeys WITH
  waiting <- [k \in Keys |-> IF k \in knownEntries THEN heap.readyAt[k] ELSE -1]

KeepsOrder == Delays!Spec
================================================================================
