---------------------------- MODULE DelayHeapProofs ----------------------------
(***************************************************************************)
(* Theorems of DelayHeap: the heap, the map and the indices agree, and     *)
(* together they are the map from keys to instants of DelayedKeys.         *)
(***************************************************************************)
EXTENDS DelayHeap, FiniteSetTheorems, SequenceTheorems, WellFoundedInduction, TLAPS

-----------------------------------------------------------------------------
(***************************************************************************)
(* Induction, as a fact about sets of numbers: there is no infinite        *)
(* descent below a number that is left out.                                *)
(***************************************************************************)
LEMMA SmallestExists ==
  ASSUME NEW S \in SUBSET Nat, S # {}
  PROVE  \E n \in S : \A m \in S : n <= m
<1> DEFINE Smaller == {p \in Nat \X Nat : p[1] < p[2]}
<1>1. IsWellFoundedOn(Smaller, Nat)
  BY NatLessThanWellFounded DEF OpToRel
<1>2. \E n \in S : \A m \in S : <<m, n>> \notin Smaller
  <2> HIDE DEF Smaller
  <2> QED  BY <1>1, WFMin, Zenon
<1>3. \A m, n \in Nat : <<m, n>> \notin Smaller => n <= m
  OBVIOUS
<1> QED  BY <1>2, <1>3

LEMMA SetInduction ==
  ASSUME NEW S, 0 \in S, \A n \in Nat : n \in S => n + 1 \in S
  PROVE  Nat \subseteq S
<1> SUFFICES ASSUME Nat \ S # {}  PROVE FALSE
  OBVIOUS
<1>1. PICK n \in Nat \ S : \A m \in Nat \ S : n <= m
  BY SmallestExists
<1>2. n - 1 \in Nat /\ n - 1 \in S
  BY <1>1
<1> QED  BY <1>1, <1>2

-----------------------------------------------------------------------------
(***************************************************************************)
(* The places of a heap.                                                   *)
(***************************************************************************)
LEMMA ParentFacts ==
  /\ Parent(0) = 0
  /\ \A c \in Nat \ {0} : /\ Parent(c) \in Nat
                          /\ Parent(c) < c
                          /\ c = 2 * Parent(c) + 1 \/ c = 2 * Parent(c) + 2
  /\ \A i \in Nat : Parent(2 * i + 1) = i /\ Parent(2 * i + 2) = i
<1>1. \A c \in Nat \ {0} : /\ Parent(c) \in Nat
                           /\ Parent(c) < c
                           /\ c = 2 * Parent(c) + 1 \/ c = 2 * Parent(c) + 2
  BY DEF Parent
<1>2. \A i \in Nat : Parent(2 * i + 1) = i /\ Parent(2 * i + 2) = i
  BY DEF Parent
<1> QED  BY <1>1, <1>2 DEF Parent

LEMMA ParentBelow == \A c \in Nat \ {0} : Parent(c) \in Nat /\ Parent(c) < c
BY DEF Parent

Heaps == [pq : Seq(Keys), index : [Keys -> Int], readyAt : [Keys -> Nat]]

Places(h) == 0 .. Len(h.pq) - 1

Placed(h) == \A i \in Places(h) : h.index[Entry(h, i)] = i

DueAt(h, i) == h.readyAt[Entry(h, i)]

\* g has the entries of h, due at the same instants, in whatever order.
Reordered(h, g) ==
  /\ g \in Heaps
  /\ Placed(g)
  /\ Len(g.pq) = Len(h.pq)
  /\ ToSet(g.pq) = ToSet(h.pq)
  /\ g.readyAt = h.readyAt

LEMMA HeapFacts ==
  ASSUME NEW h \in Heaps
  PROVE  /\ h.pq \in Seq(Keys) /\ Len(h.pq) \in Nat
         /\ h.index \in [Keys -> Int] /\ h.readyAt \in [Keys -> Nat]
         /\ \A i \in Places(h) : i \in Nat /\ i + 1 \in DOMAIN h.pq /\ i + 1 \in 1 .. Len(h.pq)
         /\ \A i \in Places(h) : Entry(h, i) \in Keys /\ DueAt(h, i) \in Nat
BY DEF Heaps, Places, Entry, DueAt

LEMMA PlaceFacts ==
  ASSUME NEW h \in Heaps, NEW c \in 1 .. Len(h.pq) - 1
  PROVE  /\ c \in Nat \ {0} /\ Parent(c) \in Nat /\ Parent(c) < c
         /\ c \in Places(h) /\ Parent(c) \in Places(h)
         /\ DueAt(h, c) \in Nat /\ DueAt(h, Parent(c)) \in Nat
<1>1. Len(h.pq) \in Nat
  BY HeapFacts
<1>2. c \in Nat \ {0} /\ c < Len(h.pq) /\ c \in Places(h)
  BY <1>1 DEF Places
<1> PICK p : p = Parent(c)
  OBVIOUS
<1>3. p \in Nat /\ p < c
  BY <1>2, ParentBelow
<1>4. p \in Places(h)
  BY <1>1, <1>2, <1>3 DEF Places
<1> QED  BY <1>2, <1>3, <1>4, HeapFacts

\* g is h with the entries at i and j exchanged.
Exchanged(h, i, j, g) ==
  /\ Reordered(h, g)
  /\ DueAt(g, i) = DueAt(h, j) /\ DueAt(g, j) = DueAt(h, i)
  /\ Entry(g, j) = Entry(h, i)
  /\ \A m \in Places(h) : m # i /\ m # j =>
       Entry(g, m) = Entry(h, m) /\ DueAt(g, m) = DueAt(h, m)

LEMMA SwapFacts ==
  ASSUME NEW h \in Heaps, Placed(h), NEW i \in Places(h), NEW j \in Places(h)
  PROVE  Exchanged(h, i, j, Swap(h, i, j))
<1> DEFINE a == Entry(h, i)  b == Entry(h, j)
           pq == [[h.pq EXCEPT ![i + 1] = b] EXCEPT ![j + 1] = a]
           index == [[h.index EXCEPT ![b] = i] EXCEPT ![a] = j]
<1>1. Swap(h, i, j) = [pq |-> pq, index |-> index, readyAt |-> h.readyAt]
  <2>1. h = [pq |-> h.pq, index |-> h.index, readyAt |-> h.readyAt]
    BY DEF Heaps
  <2> PICK p, x, t : h = [pq |-> p, index |-> x, readyAt |-> t]
    BY <2>1
  <2>2. h.pq = p /\ h.index = x /\ h.readyAt = t
    OBVIOUS
  <2> HIDE DEF a, b
  <2>3. Swap(h, i, j) = [h EXCEPT !.pq[i + 1] = b, !.pq[j + 1] = a, !.index[b] = i, !.index[a] = j]
    BY DEF Swap, a, b
  <2> QED  BY <2>2, <2>3
<1>2. /\ h.pq \in Seq(Keys) /\ Len(h.pq) \in Nat /\ a \in Keys /\ b \in Keys
      /\ i + 1 \in 1 .. Len(h.pq) /\ j + 1 \in 1 .. Len(h.pq) /\ i \in Nat /\ j \in Nat
      /\ h.index \in [Keys -> Int]
  BY HeapFacts
<1>3. /\ pq \in Seq(Keys) /\ Len(pq) = Len(h.pq) /\ DOMAIN pq = 1 .. Len(h.pq)
      /\ DOMAIN h.pq = 1 .. Len(h.pq)
  BY <1>2
<1>4. /\ pq[i + 1] = b /\ pq[j + 1] = a /\ h.pq[i + 1] = a /\ h.pq[j + 1] = b
      /\ \A m \in 1 .. Len(h.pq) : m # i + 1 /\ m # j + 1 => pq[m] = h.pq[m]
  <2>1. h.pq[i + 1] = a /\ h.pq[j + 1] = b
    BY DEF Entry
  <2> HIDE DEF a, b
  <2> QED  BY <1>2, <1>3, <2>1
<1> HIDE DEF pq
<1>5. \A m \in Places(h) : m # i /\ m # j => pq[m + 1] = h.pq[m + 1]
  <2> SUFFICES ASSUME NEW m \in Places(h), m # i, m # j  PROVE pq[m + 1] = h.pq[m + 1]
    OBVIOUS
  <2>1. m + 1 \in 1 .. Len(h.pq) /\ m + 1 # i + 1 /\ m + 1 # j + 1
    BY <1>2 DEF Places
  <2> QED  BY <1>4, <2>1
<1>6. /\ index \in [Keys -> Int] /\ index[a] = j /\ (i # j => index[b] = i)
      /\ \A k \in Keys : k # a /\ k # b => index[k] = h.index[k]
  <2>1. i # j => a # b
    BY DEF Placed
  <2> QED  BY <1>2, <2>1
<1>7. \A m \in Places(h) : m # i /\ m # j => Entry(h, m) # a /\ Entry(h, m) # b
  BY DEF Placed
<1> HIDE DEF index, a, b
<1>8. ToSet(pq) = ToSet(h.pq)
  <2>1. \A m \in 1 .. Len(h.pq) : \E n \in 1 .. Len(h.pq) : pq[m] = h.pq[n]
    BY <1>2, <1>4
  <2>2. \A m \in 1 .. Len(h.pq) : \E n \in 1 .. Len(h.pq) : h.pq[m] = pq[n]
    BY <1>2, <1>4
  <2>3. ToSet(pq) = {pq[m] : m \in 1 .. Len(h.pq)} /\ ToSet(h.pq) = {h.pq[m] : m \in 1 .. Len(h.pq)}
    BY <1>3 DEF ToSet
  <2>4. ToSet(pq) \subseteq ToSet(h.pq)
    BY <2>1, <2>3
  <2>5. ToSet(h.pq) \subseteq ToSet(pq)
    BY <2>2, <2>3
  <2> QED  BY <2>4, <2>5
<1> DEFINE g == [pq |-> pq, index |-> index, readyAt |-> h.readyAt]
<1>9. /\ g.pq = pq /\ g.index = index /\ g.readyAt = h.readyAt /\ g \in Heaps
      /\ Places(g) = Places(h)
  BY <1>3, <1>6 DEF Heaps, Places
<1> HIDE DEF g
<1>10. /\ Entry(g, i) = b /\ Entry(g, j) = a /\ Entry(h, i) = a /\ Entry(h, j) = b
       /\ \A m \in Places(h) : m # i /\ m # j => Entry(g, m) = Entry(h, m)
  BY <1>4, <1>5, <1>9 DEF Entry
<1>11. Placed(g)
  <2> SUFFICES ASSUME NEW m \in Places(h)  PROVE g.index[Entry(g, m)] = m
    BY <1>9 DEF Placed
  <2>1. CASE m = j
    BY <2>1, <1>6, <1>9, <1>10
  <2>2. CASE m = i /\ i # j
    BY <2>2, <1>6, <1>9, <1>10
  <2>3. CASE m # i /\ m # j
    <3>1. Entry(h, m) \in Keys /\ h.index[Entry(h, m)] = m
      BY HeapFacts DEF Placed
    <3> QED  BY <2>3, <3>1, <1>6, <1>7, <1>9, <1>10
  <2> QED  BY <2>1, <2>2, <2>3
<1>12. Reordered(h, g)
  BY <1>3, <1>8, <1>9, <1>11 DEF Reordered
<1>13. Swap(h, i, j) = g
  BY <1>1 DEF g
<1> QED  BY <1>9, <1>10, <1>12, <1>13 DEF DueAt, Exchanged

LEMMA ReorderedFacts ==
  ASSUME NEW h, NEW g, Reordered(h, g)
  PROVE  /\ g \in Heaps /\ Placed(g) /\ Places(g) = Places(h)
         /\ \A f : Reordered(g, f) => Reordered(h, f)
BY DEF Reordered, Places

-----------------------------------------------------------------------------
(***************************************************************************)
(* Climbing.  The entry at a place may be due before its parent; all else  *)
(* is in order, and would be without the entry.                            *)
(***************************************************************************)
Ordered(h, n) == \A c \in 1 .. n - 1 : DueAt(h, Parent(c)) <= DueAt(h, c)

MayClimb(h, at) ==
  /\ \A c \in 1 .. Len(h.pq) - 1 : c # at => DueAt(h, Parent(c)) <= DueAt(h, c)
  /\ \A c \in 1 .. Len(h.pq) - 1 :
       Parent(c) = at /\ at # 0 => DueAt(h, Parent(at)) <= DueAt(h, c)

LEMMA ClimbStep ==
  ASSUME NEW h \in Heaps, Placed(h), NEW at \in Places(h), at # 0, MayClimb(h, at),
         DueAt(h, at) < DueAt(h, Parent(at))
  PROVE  /\ Reordered(h, Swap(h, Parent(at), at))
         /\ Parent(at) \in Places(h) /\ Parent(at) < at
         /\ MayClimb(Swap(h, Parent(at), at), Parent(at))
<1>1. at \in Nat \ {0} /\ Len(h.pq) \in Nat /\ at < Len(h.pq)
  BY HeapFacts DEF Places
<1> PICK p : p = Parent(at)
  OBVIOUS
<1>2. p \in Nat /\ p < at /\ p \in Places(h)
  <2>1. p \in Nat /\ p < at
    BY <1>1, ParentBelow
  <2> QED  BY <1>1, <2>1 DEF Places
<1> PICK g : g = Swap(h, p, at)
  OBVIOUS
<1>3. /\ Reordered(h, g) /\ DueAt(g, p) = DueAt(h, at) /\ DueAt(g, at) = DueAt(h, p)
      /\ \A m \in Places(h) : m # p /\ m # at => DueAt(g, m) = DueAt(h, m)
  <2>1. Exchanged(h, p, at, g)
    BY <1>2, SwapFacts
  <2> QED  BY <2>1 DEF Exchanged
<1>4. Len(g.pq) = Len(h.pq)
  BY <1>3 DEF Reordered
<1>5. ASSUME NEW c \in 1 .. Len(h.pq) - 1
      PROVE  /\ c \in Places(h) /\ Parent(c) \in Places(h) /\ Parent(c) < c
             /\ c \in Nat /\ Parent(c) \in Nat
             /\ DueAt(h, c) \in Nat /\ DueAt(h, Parent(c)) \in Nat
  BY PlaceFacts
<1>6. DueAt(h, p) \in Nat /\ DueAt(h, at) \in Nat /\ DueAt(h, at) < DueAt(h, p)
  BY <1>2, HeapFacts
<1>7. ASSUME NEW c \in 1 .. Len(h.pq) - 1, c # p  PROVE DueAt(g, Parent(c)) <= DueAt(g, c)
  <2>1. CASE c = at
    BY <2>1, <1>3, <1>6
  <2>2. CASE c # at /\ Parent(c) = at
    <3>1. DueAt(h, p) <= DueAt(h, c)
      BY <2>2 DEF MayClimb
    <3> QED  BY <2>2, <3>1, <1>3, <1>5, <1>7
  <2>3. CASE c # at /\ Parent(c) = p
    <3>1. DueAt(h, p) <= DueAt(h, c)
      BY <2>3 DEF MayClimb
    <3> QED  BY <2>3, <3>1, <1>3, <1>5, <1>6, <1>7
  <2>4. CASE c # at /\ Parent(c) # at /\ Parent(c) # p
    <3>1. DueAt(h, Parent(c)) <= DueAt(h, c)
      BY <2>4 DEF MayClimb
    <3> QED  BY <2>4, <3>1, <1>3, <1>5, <1>7
  <2> QED  BY <2>1, <2>2, <2>3, <2>4
<1>8. ASSUME NEW c \in 1 .. Len(h.pq) - 1, Parent(c) = p, p # 0
      PROVE  DueAt(g, Parent(p)) <= DueAt(g, c)
  <2>1. p \in 1 .. Len(h.pq) - 1
    BY <1>1, <1>2, <1>8
  <2>2. DueAt(h, Parent(p)) <= DueAt(h, p) /\ Parent(p) # p /\ Parent(p) # at
    BY <2>1, <1>2, <1>5 DEF MayClimb
  <2>3. DueAt(g, Parent(p)) = DueAt(h, Parent(p)) /\ DueAt(h, Parent(p)) \in Nat
    BY <2>1, <2>2, <1>3, <1>5
  <2>4. CASE c = at
    BY <2>2, <2>3, <2>4, <1>3, <1>6
  <2>5. CASE c # at
    <3>1. DueAt(h, p) <= DueAt(h, c) /\ DueAt(g, c) = DueAt(h, c) /\ DueAt(h, c) \in Nat
      BY <2>5, <1>3, <1>5, <1>8 DEF MayClimb
    <3> QED  BY <2>2, <2>3, <3>1, <1>6
  <2> QED  BY <2>4, <2>5
<1>9. MayClimb(g, p)
  BY <1>4, <1>7, <1>8 DEF MayClimb
<1> QED  BY <1>2, <1>3, <1>9

LEMMA UpTurnsExist ==
  ASSUME NEW x, NEW j \in Nat
  PROVE  \E f : f = [m \in 0 .. j |-> IF m = 0 THEN x ELSE UpTurn(f[m - 1])]
<1> DEFINE Turns(f, n) == f = [m \in 0 .. n |-> IF m = 0 THEN x ELSE UpTurn(f[m - 1])]
           S == {n \in Nat : \E f : Turns(f, n)}
<1>1. 0 \in S
  <2>1. Turns([m \in 0 .. 0 |-> x], 0)
    OBVIOUS
  <2> QED  BY <2>1
<1>2. ASSUME NEW n \in Nat, n \in S  PROVE n + 1 \in S
  <2>1. PICK f : Turns(f, n)
    BY <1>2
  <2> DEFINE g == [m \in 0 .. n + 1 |-> IF m = n + 1 THEN UpTurn(f[n]) ELSE f[m]]
  <2>2. \A m \in 0 .. n : g[m] = f[m]
    OBVIOUS
  <2>3. \A m \in 0 .. n + 1 : g[m] = IF m = 0 THEN x ELSE UpTurn(g[m - 1])
    <3> SUFFICES ASSUME NEW m \in 0 .. n + 1  PROVE g[m] = IF m = 0 THEN x ELSE UpTurn(g[m - 1])
      OBVIOUS
    <3>1. CASE m = n + 1
      <4>1. m # 0 /\ m - 1 = n /\ g[m] = UpTurn(f[n]) /\ g[n] = f[n]
        BY <3>1, <2>2
      <4> QED  BY <4>1
    <3>2. CASE m # n + 1
      <4>1. m \in 0 .. n /\ (m # 0 => m - 1 \in 0 .. n)
        BY <3>2
      <4>2. f[m] = IF m = 0 THEN x ELSE UpTurn(f[m - 1])
        BY <2>1, <4>1
      <4> HIDE DEF g
      <4> QED  BY <4>1, <4>2, <2>2
    <3> QED  BY <3>1, <3>2
  <2>4. Turns(g, n + 1)
    <3>1. g = [m \in 0 .. n + 1 |-> g[m]]
      OBVIOUS
    <3> HIDE DEF g
    <3> QED  BY <2>3, <3>1
  <2> HIDE DEF g, Turns
  <2>5. \E e : Turns(e, n + 1)
    BY <2>4
  <2> QED  BY <2>5
<1>3. j \in S
  <2> HIDE DEF S
  <2> QED  BY <1>1, <1>2, SetInduction
<1> QED  BY <1>3

\* up goes by turns, as many as there may be.
UpRun(h, j, f) ==
  /\ f[0] = [heap |-> h, at |-> j]
  /\ \A m \in 0 .. j - 1 : f[m + 1] = UpTurn(f[m])
  /\ up(h, j) = f[j].heap

LEMMA UpTurns == ASSUME NEW h, NEW j \in Nat  PROVE \E f : UpRun(h, j, f)
<1> DEFINE x == [heap |-> h, at |-> j]
           f == CHOOSE g : g = [m \in 0 .. j |-> IF m = 0 THEN x ELSE UpTurn(g[m - 1])]
<1>1. up(h, j) = f[j].heap
  BY DEF up
<1>2. f = [m \in 0 .. j |-> IF m = 0 THEN x ELSE UpTurn(f[m - 1])]
  <2> HIDE DEF x
  <2>1. \E g : g = [m \in 0 .. j |-> IF m = 0 THEN x ELSE UpTurn(g[m - 1])]
    BY UpTurnsExist
  <2> QED  BY <2>1, Zenon
<1> HIDE DEF f
<1>3. f[0] = x
  <2> HIDE DEF x
  <2> QED  BY <1>2
<1>4. \A m \in 0 .. j - 1 : f[m + 1] = UpTurn(f[m])
  <2> HIDE DEF x
  <2> QED  BY <1>2
<1> QED  BY <1>1, <1>3, <1>4 DEF UpRun

UpState(h, s) ==
  /\ Reordered(h, s.heap)
  /\ s.at \in Places(h)
  /\ MayClimb(s.heap, s.at)

LEMMA UpTurnFacts ==
  ASSUME NEW h \in Heaps, NEW s, UpState(h, s)
  PROVE  /\ UpState(h, UpTurn(s))
         /\ Ordered(s.heap, Len(h.pq)) => Ordered(UpTurn(s).heap, Len(h.pq))
         /\ Ordered(UpTurn(s).heap, Len(h.pq)) \/ UpTurn(s).at < s.at
<1> PICK g : g = s.heap
  OBVIOUS
<1> PICK at : at = s.at
  OBVIOUS
<1>1. /\ g \in Heaps /\ Placed(g) /\ Places(g) = Places(h) /\ Len(g.pq) = Len(h.pq)
      /\ at \in Places(g) /\ MayClimb(g, at) /\ at \in Nat /\ DueAt(g, at) \in Nat
  <2>1. /\ g \in Heaps /\ Placed(g) /\ Places(g) = Places(h) /\ Len(g.pq) = Len(h.pq)
        /\ at \in Places(g) /\ MayClimb(g, at)
    BY ReorderedFacts DEF UpState, Reordered
  <2> QED  BY <2>1, HeapFacts
<1>2. CASE at = 0
  <2>1. UpTurn(s) = s
    BY <1>2, ParentFacts DEF UpTurn
  <2>2. Ordered(g, Len(h.pq))
    <3> SUFFICES ASSUME NEW c \in 1 .. Len(g.pq) - 1  PROVE DueAt(g, Parent(c)) <= DueAt(g, c)
      BY <1>1 DEF Ordered
    <3>1. c # at
      BY <1>1, <1>2, PlaceFacts
    <3> QED  BY <1>1, <3>1 DEF MayClimb
  <2> QED  BY <2>1, <2>2
<1>3. CASE at # 0
  <2>1. /\ at \in 1 .. Len(g.pq) - 1 /\ Parent(at) # at /\ Parent(at) \in Places(g)
        /\ DueAt(g, Parent(at)) \in Nat
    <3>1. at \in 1 .. Len(g.pq) - 1
      BY <1>1, <1>3 DEF Places
    <3> QED  BY <1>1, <3>1, PlaceFacts
  <2>2. CASE DueAt(g, at) < DueAt(g, Parent(at))
    <3> PICK p : p = Parent(at)
      OBVIOUS
    <3>1. UpTurn(s) = [heap |-> Swap(g, p, at), at |-> p]
      BY <2>1, <2>2 DEF UpTurn, Less, DueAt
    <3>2. /\ Reordered(g, Swap(g, p, at)) /\ p \in Places(g) /\ p < at
          /\ MayClimb(Swap(g, p, at), p)
      BY <1>1, <1>3, <2>2, ClimbStep
    <3>3. Reordered(h, Swap(g, p, at))
      BY <3>2, ReorderedFacts DEF UpState
    <3>4. UpState(h, UpTurn(s)) /\ UpTurn(s).at < s.at
      BY <1>1, <3>1, <3>2, <3>3 DEF UpState
    <3>5. ~Ordered(g, Len(h.pq))
      BY <1>1, <2>1, <2>2 DEF Ordered
    <3> QED  BY <3>4, <3>5
  <2>3. CASE ~(DueAt(g, at) < DueAt(g, Parent(at)))
    <3>1. UpTurn(s) = s
      BY <2>3 DEF UpTurn, Less, DueAt
    <3>2. DueAt(g, Parent(at)) <= DueAt(g, at)
      BY <1>1, <2>1, <2>3
    <3>3. Ordered(g, Len(h.pq))
      BY <1>1, <3>2 DEF Ordered, MayClimb
    <3> QED  BY <3>1, <3>3
  <2> QED  BY <2>2, <2>3
<1> QED  BY <1>2, <1>3

\* up leaves a heap in order that was but for the entry at j.
LEMMA UpOrders ==
  ASSUME NEW h \in Heaps, Placed(h), NEW j \in Places(h), MayClimb(h, j)
  PROVE  Reordered(h, up(h, j)) /\ Ordered(up(h, j), Len(h.pq))
<1>1. j \in Nat
  BY HeapFacts
<1> PICK f : UpRun(h, j, f)
  BY <1>1, UpTurns
<1>2. /\ f[0] = [heap |-> h, at |-> j]
      /\ \A m \in 0 .. j - 1 : f[m + 1] = UpTurn(f[m])
      /\ up(h, j) = f[j].heap
  BY DEF UpRun
<1> DEFINE Done(s) == Ordered(s.heap, Len(h.pq))
           S == {m \in Nat : m <= j => /\ UpState(h, f[m])
                                       /\ Done(f[m]) \/ f[m].at <= j - m}
<1>3. 0 \in S
  BY <1>1, <1>2 DEF UpState, Reordered
<1>4. ASSUME NEW m \in Nat, m \in S  PROVE m + 1 \in S
  <2> SUFFICES ASSUME m + 1 <= j
               PROVE  UpState(h, f[m + 1]) /\ (Done(f[m + 1]) \/ f[m + 1].at <= j - (m + 1))
    OBVIOUS
  <2>1. UpState(h, f[m]) /\ (Done(f[m]) \/ f[m].at <= j - m) /\ f[m + 1] = UpTurn(f[m])
    BY <1>1, <1>2, <1>4
  <2>2. /\ UpState(h, f[m + 1]) /\ (Done(f[m]) => Done(f[m + 1]))
        /\ Done(f[m + 1]) \/ f[m + 1].at < f[m].at
    BY <2>1, UpTurnFacts
  <2>3. f[m].at \in Nat /\ f[m + 1].at \in Nat
    BY <2>1, <2>2, HeapFacts DEF UpState
  <2> HIDE DEF Done
  <2> QED  BY <1>1, <2>1, <2>2, <2>3
<1>5. j \in S
  <2> HIDE DEF S
  <2> QED  BY <1>1, <1>3, <1>4, SetInduction
<1> PICK s : s = f[j]
  OBVIOUS
<1>6. UpState(h, s) /\ (Done(s) \/ s.at <= 0)
  BY <1>1, <1>5
<1>7. CASE s.at <= 0
  <2>1. s.at = 0
    BY <1>6, <1>7, HeapFacts DEF UpState
  <2>2. UpTurn(s) = s
    BY <2>1, ParentFacts DEF UpTurn
  <2>3. Done(UpTurn(s)) \/ UpTurn(s).at < s.at
    BY <1>6, UpTurnFacts
  <2> QED  BY <1>2, <1>6, <2>1, <2>2, <2>3 DEF UpState
<1> QED  BY <1>2, <1>6, <1>7 DEF UpState

-----------------------------------------------------------------------------
(***************************************************************************)
(* Sinking.  Of the first n places, the entry at one may be due after its  *)
(* children; all else is in order, and would be without the entry.         *)
(***************************************************************************)
MaySink(h, at, n) ==
  /\ \A c \in 1 .. n - 1 : Parent(c) # at => DueAt(h, Parent(c)) <= DueAt(h, c)
  /\ \A c \in 1 .. n - 1 :
       Parent(c) = at /\ at # 0 => DueAt(h, Parent(at)) <= DueAt(h, c)

\* q is the child of at that is due first, and before it.
Rises(h, at, q, n) ==
  /\ q \in 1 .. n - 1 /\ Parent(q) = at
  /\ DueAt(h, q) < DueAt(h, at)
  /\ \A c \in 1 .. n - 1 : Parent(c) = at => DueAt(h, q) <= DueAt(h, c)

LEMMA SinkStep ==
  ASSUME NEW h \in Heaps, Placed(h), NEW n \in 0 .. Len(h.pq),
         NEW at \in Places(h), NEW q, MaySink(h, at, n), Rises(h, at, q, n)
  PROVE  /\ Reordered(h, Swap(h, at, q))
         /\ q \in Places(h) /\ q < n /\ at < q
         /\ MaySink(Swap(h, at, q), q, n)
         /\ \A m \in Places(h) : m >= n => Entry(Swap(h, at, q), m) = Entry(h, m)
<1>1. at \in Nat /\ Len(h.pq) \in Nat /\ n \in Nat /\ n <= Len(h.pq)
  BY HeapFacts
<1>2. ASSUME NEW c \in 1 .. n - 1
      PROVE  /\ c \in Places(h) /\ Parent(c) \in Places(h) /\ Parent(c) < c /\ c < n
             /\ c \in Nat \ {0} /\ Parent(c) \in Nat
             /\ DueAt(h, c) \in Nat /\ DueAt(h, Parent(c)) \in Nat
  <2>1. c \in 1 .. Len(h.pq) - 1 /\ c < n
    BY <1>1
  <2> QED  BY <2>1, PlaceFacts
<1>3. /\ q \in Places(h) /\ q \in Nat /\ q < n /\ at < q
      /\ DueAt(h, q) \in Nat /\ DueAt(h, at) \in Nat /\ DueAt(h, q) < DueAt(h, at)
  BY <1>2 DEF Rises
<1> PICK g : g = Swap(h, at, q)
  OBVIOUS
<1>4. /\ Reordered(h, g) /\ DueAt(g, at) = DueAt(h, q) /\ DueAt(g, q) = DueAt(h, at)
      /\ \A m \in Places(h) : m # at /\ m # q => Entry(g, m) = Entry(h, m) /\ DueAt(g, m) = DueAt(h, m)
  <2>1. Exchanged(h, at, q, g)
    BY <1>3, SwapFacts
  <2> QED  BY <2>1 DEF Exchanged
<1>5. ASSUME NEW c \in 1 .. n - 1, Parent(c) # q  PROVE DueAt(g, Parent(c)) <= DueAt(g, c)
  <2>1. CASE c = q
    BY <2>1, <1>3, <1>4 DEF Rises
  <2>2. CASE c # q /\ Parent(c) = at
    <3>1. DueAt(h, q) <= DueAt(h, c) /\ c # at
      BY <2>2, <1>2 DEF Rises
    <3> QED  BY <2>2, <3>1, <1>2, <1>4
  <2>3. CASE c # q /\ Parent(c) # at /\ c = at
    <3>1. DueAt(h, Parent(at)) <= DueAt(h, q) /\ Parent(at) # at
      BY <2>3, <1>2 DEF MaySink, Rises
    <3> QED  BY <2>3, <3>1, <1>2, <1>4, <1>5
  <2>4. CASE c # q /\ Parent(c) # at /\ c # at
    <3>1. DueAt(h, Parent(c)) <= DueAt(h, c)
      BY <2>4 DEF MaySink
    <3> QED  BY <2>4, <3>1, <1>2, <1>4, <1>5
  <2> QED  BY <2>1, <2>2, <2>3, <2>4
<1>6. ASSUME NEW c \in 1 .. n - 1, Parent(c) = q  PROVE DueAt(g, Parent(q)) <= DueAt(g, c)
  <2>1. DueAt(h, q) <= DueAt(h, c)
    BY <1>3, <1>6 DEF MaySink
  <2>2. c # q /\ c # at
    BY <1>2, <1>3, <1>6
  <2> QED  BY <2>1, <2>2, <1>2, <1>4 DEF Rises
<1>7. MaySink(g, q, n)
  BY <1>5, <1>6 DEF MaySink
<1>8. \A m \in Places(h) : m >= n => m # at /\ m # q
  BY <1>1, <1>3 DEF Places
<1> QED  BY <1>3, <1>4, <1>7, <1>8

AreDownTurns(f, x, n, j) ==
  f = [m \in 0 .. j |-> IF m = 0 THEN x ELSE DownTurn(f[m - 1], n)]

LEMMA DownTurnsExist ==
  ASSUME NEW x, NEW n, NEW j \in Nat
  PROVE  \E f : AreDownTurns(f, x, n, j)
<1> DEFINE Turns(f, i) == f = [m \in 0 .. i |-> IF m = 0 THEN x ELSE DownTurn(f[m - 1], n)]
           S == {i \in Nat : \E f : Turns(f, i)}
<1>1. 0 \in S
  <2>1. Turns([m \in 0 .. 0 |-> x], 0)
    OBVIOUS
  <2> QED  BY <2>1
<1>2. ASSUME NEW i \in Nat, i \in S  PROVE i + 1 \in S
  <2>1. PICK f : Turns(f, i)
    BY <1>2
  <2> DEFINE g == [m \in 0 .. i + 1 |-> IF m = i + 1 THEN DownTurn(f[i], n) ELSE f[m]]
  <2>2. \A m \in 0 .. i : g[m] = f[m]
    OBVIOUS
  <2>3. \A m \in 0 .. i + 1 : g[m] = IF m = 0 THEN x ELSE DownTurn(g[m - 1], n)
    <3> SUFFICES ASSUME NEW m \in 0 .. i + 1
                 PROVE  g[m] = IF m = 0 THEN x ELSE DownTurn(g[m - 1], n)
      OBVIOUS
    <3>1. CASE m = i + 1
      <4>1. m # 0 /\ m - 1 = i /\ g[m] = DownTurn(f[i], n) /\ g[i] = f[i]
        BY <3>1, <2>2
      <4> QED  BY <4>1
    <3>2. CASE m # i + 1
      <4>1. m \in 0 .. i /\ (m # 0 => m - 1 \in 0 .. i)
        BY <3>2
      <4>2. f[m] = IF m = 0 THEN x ELSE DownTurn(f[m - 1], n)
        BY <2>1, <4>1
      <4> HIDE DEF g
      <4> QED  BY <4>1, <4>2, <2>2
    <3> QED  BY <3>1, <3>2
  <2>4. Turns(g, i + 1)
    <3>1. g = [m \in 0 .. i + 1 |-> g[m]]
      OBVIOUS
    <3> HIDE DEF g
    <3> QED  BY <2>3, <3>1
  <2> HIDE DEF g, Turns
  <2>5. \E e : Turns(e, i + 1)
    BY <2>4
  <2> QED  BY <2>5
<1>3. j \in S
  <2> HIDE DEF S
  <2> QED  BY <1>1, <1>2, SetInduction
<1> QED  BY <1>3 DEF AreDownTurns

\* down goes by turns, as many as there may be.
DownRun(h, i, n, f) ==
  /\ f[0] = [heap |-> h, at |-> i]
  /\ \A m \in 0 .. n - 1 : f[m + 1] = DownTurn(f[m], n)
  /\ down(h, i, n) = f[n].heap

LEMMA DownTurns == ASSUME NEW h, NEW i, NEW n \in Nat  PROVE \E f : DownRun(h, i, n, f)
<1> DEFINE x == [heap |-> h, at |-> i]
           f == CHOOSE g : AreDownTurns(g, x, n, n)
<1>1. down(h, i, n) = f[n].heap
  BY DEF down, AreDownTurns
<1>2. f = [m \in 0 .. n |-> IF m = 0 THEN x ELSE DownTurn(f[m - 1], n)]
  <2> HIDE DEF x
  <2>1. \E g : AreDownTurns(g, x, n, n)
    BY DownTurnsExist
  <2>2. AreDownTurns(f, x, n, n)
    BY <2>1, Zenon
  <2> QED  BY <2>2 DEF AreDownTurns
<1> HIDE DEF f
<1>3. f[0] = x
  <2> HIDE DEF x
  <2> QED  BY <1>2
<1>4. \A m \in 0 .. n - 1 : f[m + 1] = DownTurn(f[m], n)
  <2> HIDE DEF x
  <2> QED  BY <1>2
<1> QED  BY <1>1, <1>3, <1>4 DEF DownRun

DownState(h, s, n) ==
  /\ Reordered(h, s.heap)
  /\ s.at \in Places(h)
  /\ MaySink(s.heap, s.at, n)
  /\ \A m \in Places(h) : m >= n => Entry(s.heap, m) = Entry(h, m)

\* A turn stops where no child is due before its parent, or takes the child
\* that is due first.
LEMMA DownTurnCases ==
  ASSUME NEW s, s.heap \in Heaps, s.at \in Places(s.heap), NEW n \in 0 .. Len(s.heap.pq)
  PROVE  \/ /\ DownTurn(s, n) = s
            /\ \A c \in 1 .. n - 1 : Parent(c) = s.at => DueAt(s.heap, s.at) <= DueAt(s.heap, c)
         \/ \E q : /\ DownTurn(s, n) = [heap |-> Swap(s.heap, s.at, q), at |-> q]
                   /\ Rises(s.heap, s.at, q, n)
<1> PICK g : g = s.heap
  OBVIOUS
<1> PICK at : at = s.at
  OBVIOUS
<1> PICK left : left = 2 * at + 1
  OBVIOUS
<1>1. /\ at \in Nat /\ DueAt(g, at) \in Nat /\ left \in Nat \ {0} /\ left + 1 \in Nat \ {0}
      /\ Len(g.pq) \in Nat /\ n \in Nat /\ n <= Len(g.pq)
  <2>1. at \in Nat /\ DueAt(g, at) \in Nat /\ Len(g.pq) \in Nat
    BY HeapFacts
  <2>2. left \in Nat \ {0} /\ left + 1 \in Nat \ {0}
    BY <2>1
  <2> QED  BY <2>1, <2>2
<1>2. \A c \in 1 .. n - 1 : c \in 1 .. Len(g.pq) - 1
  BY <1>1
<1>3. \A c \in 1 .. n - 1 : DueAt(g, c) \in Nat /\ (Parent(c) = at => c = left \/ c = left + 1)
  <2> SUFFICES ASSUME NEW c \in 1 .. n - 1
               PROVE  DueAt(g, c) \in Nat /\ (Parent(c) = at => c = left \/ c = left + 1)
    OBVIOUS
  <2>1. DueAt(g, c) \in Nat /\ c \in Nat \ {0}
    BY <1>2, PlaceFacts
  <2>2. c = 2 * Parent(c) + 1 \/ c = 2 * Parent(c) + 2
    BY <2>1, ParentFacts
  <2> QED  BY <1>1, <2>1, <2>2
<1>4. Parent(left) = at /\ Parent(left + 1) = at
  <2>1. left + 1 = 2 * at + 2
    BY <1>1
  <2> QED  BY <1>1, <2>1, ParentFacts
<1> DEFINE smaller == IF left + 1 < n /\ DueAt(g, left + 1) < DueAt(g, left) THEN left + 1 ELSE left
           stops == left >= n \/ ~(DueAt(g, smaller) < DueAt(g, at))
<1>5. DownTurn(s, n) = IF stops THEN s ELSE [heap |-> Swap(g, at, smaller), at |-> smaller]
  BY DEF DownTurn, Less, DueAt
<1>6. CASE left >= n
  <2>1. \A c \in 1 .. n - 1 : Parent(c) # at
    <3> SUFFICES ASSUME NEW c \in 1 .. n - 1, c = left \/ c = left + 1  PROVE FALSE
      BY <1>3
    <3>1. c \in Nat /\ c < n
      BY <1>1
    <3> QED  BY <1>1, <1>6, <3>1
  <2> QED  BY <1>5, <1>6, <2>1
<1>7. CASE left < n
  <2>1. left \in 1 .. n - 1 /\ (left + 1 < n => left + 1 \in 1 .. n - 1)
    BY <1>1, <1>7
  <2>2. smaller \in 1 .. n - 1 /\ Parent(smaller) = at /\ DueAt(g, smaller) \in Nat
    BY <1>3, <1>4, <2>1
  <2>3. \A c \in 1 .. n - 1 : Parent(c) = at => DueAt(g, smaller) <= DueAt(g, c)
    <3> SUFFICES ASSUME NEW c \in 1 .. n - 1, c = left \/ c = left + 1
                 PROVE  DueAt(g, smaller) <= DueAt(g, c)
      BY <1>3
    <3>1. /\ c < n /\ DueAt(g, c) \in Nat /\ DueAt(g, left) \in Nat
          /\ left + 1 < n => DueAt(g, left + 1) \in Nat
      <4>1. c < n
        BY <1>1
      <4>2. DueAt(g, c) \in Nat /\ DueAt(g, left) \in Nat
        BY <1>3, <2>1
      <4>3. left + 1 < n => DueAt(g, left + 1) \in Nat
        BY <1>3, <2>1
      <4> QED  BY <4>1, <4>2, <4>3
    <3>2. CASE left + 1 < n /\ DueAt(g, left + 1) < DueAt(g, left)
      <4>1. smaller = left + 1
        BY <3>2
      <4> HIDE DEF smaller
      <4> QED  BY <3>1, <3>2, <4>1
    <3>3. CASE ~(left + 1 < n /\ DueAt(g, left + 1) < DueAt(g, left))
      <4>1. smaller = left
        BY <3>3
      <4> HIDE DEF smaller
      <4> QED  BY <3>1, <3>3, <4>1
    <3> QED  BY <3>2, <3>3
  <2> HIDE DEF smaller
  <2>4. CASE DueAt(g, smaller) < DueAt(g, at)
    <3>1. ~stops
      BY <1>1, <1>7, <2>4
    <3>2. Rises(g, at, smaller, n)
      BY <2>2, <2>3, <2>4 DEF Rises
    <3> QED  BY <1>5, <3>1, <3>2
  <2>5. CASE ~(DueAt(g, smaller) < DueAt(g, at))
    <3>1. \A c \in 1 .. n - 1 : Parent(c) = at => DueAt(g, at) <= DueAt(g, c)
      <4> SUFFICES ASSUME NEW c \in 1 .. n - 1, Parent(c) = at  PROVE DueAt(g, at) <= DueAt(g, c)
        OBVIOUS
      <4>1. DueAt(g, smaller) <= DueAt(g, c) /\ DueAt(g, c) \in Nat
        BY <1>3, <2>3
      <4> QED  BY <1>1, <2>2, <2>5, <4>1
    <3> QED  BY <1>5, <2>5, <3>1
  <2> QED  BY <2>4, <2>5
<1> QED  BY <1>1, <1>6, <1>7

LEMMA DownTurnFacts ==
  ASSUME NEW h \in Heaps, NEW n \in 0 .. Len(h.pq), NEW s, DownState(h, s, n)
  PROVE  /\ DownState(h, DownTurn(s, n), n)
         /\ Ordered(s.heap, n) => Ordered(DownTurn(s, n).heap, n)
         /\ Ordered(DownTurn(s, n).heap, n) \/ DownTurn(s, n).at > s.at
<1> PICK g : g = s.heap
  OBVIOUS
<1> PICK at : at = s.at
  OBVIOUS
<1>1. /\ g \in Heaps /\ Placed(g) /\ Places(g) = Places(h) /\ n \in 0 .. Len(g.pq)
      /\ at \in Places(g) /\ MaySink(g, at, n)
      /\ \A m \in Places(h) : m >= n => Entry(g, m) = Entry(h, m)
  BY ReorderedFacts DEF DownState, Reordered
<1>2. CASE /\ DownTurn(s, n) = s
           /\ \A c \in 1 .. n - 1 : Parent(c) = at => DueAt(g, at) <= DueAt(g, c)
  <2>1. Ordered(g, n)
    BY <1>1, <1>2 DEF Ordered, MaySink
  <2> QED  BY <1>2, <2>1
<1>3. ASSUME NEW q, DownTurn(s, n) = [heap |-> Swap(g, at, q), at |-> q], Rises(g, at, q, n)
      PROVE  /\ DownState(h, DownTurn(s, n), n) /\ DownTurn(s, n).at > s.at
             /\ ~Ordered(g, n)
  <2>1. /\ Reordered(g, Swap(g, at, q)) /\ q \in Places(g) /\ at < q
        /\ MaySink(Swap(g, at, q), q, n)
        /\ \A m \in Places(g) : m >= n => Entry(Swap(g, at, q), m) = Entry(g, m)
    BY <1>1, <1>3, SinkStep
  <2>2. Reordered(h, Swap(g, at, q))
    BY <2>1, ReorderedFacts DEF DownState
  <2>3. \A m \in Places(h) : m >= n => Entry(Swap(g, at, q), m) = Entry(h, m)
    BY <1>1, <2>1
  <2>4. DownTurn(s, n).heap = Swap(g, at, q) /\ DownTurn(s, n).at = q
    BY <1>3
  <2>5. DownState(h, DownTurn(s, n), n)
    BY <1>1, <2>1, <2>2, <2>3, <2>4 DEF DownState
  <2>6. at \in Nat /\ q \in Nat /\ DueAt(g, q) \in Nat /\ DueAt(g, at) \in Nat
    BY <1>1, <2>1, HeapFacts
  <2>7. ~Ordered(g, n)
    BY <1>3, <2>6 DEF Ordered, Rises
  <2> QED  BY <2>1, <2>4, <2>5, <2>6, <2>7
<1> QED  BY <1>1, <1>2, <1>3, DownTurnCases

\* down leaves n places in order that were but for the entry at i, and the
\* places after them alone.
LEMMA DownOrders ==
  ASSUME NEW h \in Heaps, Placed(h), NEW n \in 0 .. Len(h.pq), NEW i \in Places(h),
         MaySink(h, i, n)
  PROVE  /\ Reordered(h, down(h, i, n)) /\ Ordered(down(h, i, n), n)
         /\ \A m \in Places(h) : m >= n => Entry(down(h, i, n), m) = Entry(h, m)
<1>1. i \in Nat /\ n \in Nat /\ Len(h.pq) \in Nat
  BY HeapFacts
<1> PICK f : DownRun(h, i, n, f)
  BY <1>1, DownTurns
<1>2. /\ f[0] = [heap |-> h, at |-> i]
      /\ \A m \in 0 .. n - 1 : f[m + 1] = DownTurn(f[m], n)
      /\ down(h, i, n) = f[n].heap
  BY DEF DownRun
<1> DEFINE Done(s) == Ordered(s.heap, n)
           S == {m \in Nat : m <= n => /\ DownState(h, f[m], n)
                                       /\ Done(f[m]) \/ f[m].at >= m}
<1>3. 0 \in S
  BY <1>1, <1>2 DEF DownState, Reordered
<1>4. ASSUME NEW m \in Nat, m \in S  PROVE m + 1 \in S
  <2> SUFFICES ASSUME m + 1 <= n
               PROVE  DownState(h, f[m + 1], n) /\ (Done(f[m + 1]) \/ f[m + 1].at >= m + 1)
    OBVIOUS
  <2>1. DownState(h, f[m], n) /\ (Done(f[m]) \/ f[m].at >= m) /\ f[m + 1] = DownTurn(f[m], n)
    BY <1>1, <1>2, <1>4
  <2>2. /\ DownState(h, f[m + 1], n) /\ (Done(f[m]) => Done(f[m + 1]))
        /\ Done(f[m + 1]) \/ f[m + 1].at > f[m].at
    BY <2>1, DownTurnFacts
  <2>3. f[m].at \in Nat /\ f[m + 1].at \in Nat
    BY <2>1, <2>2, HeapFacts DEF DownState
  <2> HIDE DEF Done
  <2> QED  BY <1>1, <2>1, <2>2, <2>3
<1>5. n \in S
  <2> HIDE DEF S
  <2> QED  BY <1>1, <1>3, <1>4, SetInduction
<1> PICK s : s = f[n]
  OBVIOUS
<1>6. DownState(h, s, n) /\ (Done(s) \/ s.at >= n)
  BY <1>1, <1>5
<1>7. CASE s.at >= n
  <2>1. /\ s.heap \in Heaps /\ s.at \in Nat /\ n \in 0 .. Len(s.heap.pq)
    BY <1>1, <1>6, HeapFacts DEF DownState, Reordered
  <2>2. \A c \in 1 .. n - 1 : Parent(c) # s.at
    <3> SUFFICES ASSUME NEW c \in 1 .. n - 1  PROVE Parent(c) # s.at
      OBVIOUS
    <3>1. c \in Nat \ {0} /\ c < n
      BY <1>1
    <3>2. Parent(c) \in Nat /\ Parent(c) < c
      BY <3>1, ParentBelow
    <3> QED  BY <1>1, <1>7, <2>1, <3>1, <3>2
  <2>3. Ordered(s.heap, n)
    BY <1>6, <2>2 DEF Ordered, MaySink, DownState
  <2> QED  BY <1>2, <1>6, <2>3 DEF DownState
<1> QED  BY <1>2, <1>6, <1>7 DEF DownState

\* down leaves a heap alone where no child of i is due before it.
LEMMA DownStays ==
  ASSUME NEW h \in Heaps, NEW n \in 0 .. Len(h.pq), NEW i \in Places(h),
         \A c \in 1 .. n - 1 : Parent(c) = i => DueAt(h, i) <= DueAt(h, c)
  PROVE  down(h, i, n) = h
<1>1. i \in Nat /\ n \in Nat /\ Len(h.pq) \in Nat /\ DueAt(h, i) \in Nat
  BY HeapFacts
<1> PICK f : DownRun(h, i, n, f)
  BY <1>1, DownTurns
<1>2. /\ f[0] = [heap |-> h, at |-> i]
      /\ \A m \in 0 .. n - 1 : f[m + 1] = DownTurn(f[m], n)
      /\ down(h, i, n) = f[n].heap
  BY DEF DownRun
<1> DEFINE x == [heap |-> h, at |-> i]
           S == {m \in Nat : m <= n => f[m] = x}
<1>3. DownTurn(x, n) = x
  <2>1. x.heap = h /\ x.at = i
    OBVIOUS
  <2> HIDE DEF x
  <2>2. ASSUME NEW q, Rises(h, i, q, n)  PROVE FALSE
    <3>1. q \in 1 .. Len(h.pq) - 1 /\ DueAt(h, q) < DueAt(h, i) /\ DueAt(h, i) <= DueAt(h, q)
      BY <1>1, <2>2 DEF Rises
    <3>2. DueAt(h, q) \in Nat
      BY <3>1, PlaceFacts
    <3> QED  BY <1>1, <3>1, <3>2
  <2> QED  BY <2>1, <2>2, DownTurnCases
<1> HIDE DEF x
<1>4. 0 \in S
  BY <1>2 DEF x
<1>5. ASSUME NEW m \in Nat, m \in S  PROVE m + 1 \in S
  BY <1>1, <1>2, <1>3, <1>5
<1>6. n \in S
  <2> HIDE DEF S
  <2> QED  BY <1>1, <1>4, <1>5, SetInduction
<1> QED  BY <1>1, <1>2, <1>6 DEF x

-----------------------------------------------------------------------------
(***************************************************************************)
(* What heap.Push, heap.Fix and heap.Pop do to a heap in order.            *)
(***************************************************************************)
IsHeap(h) == h \in Heaps /\ Placed(h) /\ Ordered(h, Len(h.pq))

LEMMA PlacesOfSet ==
  ASSUME NEW h \in Heaps
  PROVE  ToSet(h.pq) = {Entry(h, i) : i \in Places(h)}
<1>1. h.pq \in Seq(Keys) /\ DOMAIN h.pq = 1 .. Len(h.pq) /\ Len(h.pq) \in Nat
  BY HeapFacts
<1>2. \A m \in 1 .. Len(h.pq) : m - 1 \in Places(h) /\ (m - 1) + 1 = m
  BY <1>1 DEF Places
<1>3. \A i \in Places(h) : i + 1 \in 1 .. Len(h.pq)
  BY <1>1 DEF Places
<1> QED  BY <1>1, <1>2, <1>3 DEF ToSet, Entry

\* The root is due first.
LEMMA RootIsFirst ==
  ASSUME NEW h, IsHeap(h), NEW i \in Places(h)
  PROVE  DueAt(h, 0) <= DueAt(h, i)
<1> DEFINE S == {m \in Places(h) : ~(DueAt(h, 0) <= DueAt(h, m))}
<1>1. h \in Heaps /\ Len(h.pq) \in Nat /\ \A m \in Places(h) : m \in Nat /\ DueAt(h, m) \in Nat
  BY HeapFacts DEF IsHeap
<1> SUFFICES ASSUME S # {}  PROVE FALSE
  OBVIOUS
<1>2. S \in SUBSET Nat
  BY <1>1
<1>3. PICK m \in S : \A j \in S : m <= j
  <2> HIDE DEF S
  <2> QED  BY <1>2, SmallestExists
<1>4. m \in Places(h) /\ m \in Nat /\ ~(DueAt(h, 0) <= DueAt(h, m))
  BY <1>1
<1>5. m # 0
  BY <1>1, <1>4
<1>6. m \in 1 .. Len(h.pq) - 1
  BY <1>1, <1>4, <1>5 DEF Places
<1> PICK p : p = Parent(m)
  OBVIOUS
<1>7. p \in Places(h) /\ p \in Nat /\ p < m /\ DueAt(h, p) <= DueAt(h, m)
  BY <1>1, <1>6, PlaceFacts DEF IsHeap, Ordered
<1>8. DueAt(h, 0) <= DueAt(h, p)
  BY <1>3, <1>4, <1>7
<1>9. 0 \in Places(h)
  BY <1>1, <1>6 DEF Places
<1> QED  BY <1>1, <1>4, <1>7, <1>8, <1>9

\* e is d with k at its end.
Extends(d, k, e) ==
  /\ e \in Heaps
  /\ e.index = [d.index EXCEPT ![k] = Len(d.pq)] /\ e.readyAt = d.readyAt
  /\ Len(e.pq) = Len(d.pq) + 1 /\ Entry(e, Len(d.pq)) = k
  /\ \A i \in Places(d) : Entry(e, i) = Entry(d, i)

LEMMA PushLastFacts ==
  ASSUME NEW d \in Heaps, NEW k \in Keys
  PROVE  Extends(d, k, PushLast(d, k))
<1> DEFINE e == PushLast(d, k)
<1>1. /\ e.pq = Append(d.pq, k) /\ e.readyAt = d.readyAt
      /\ e.index = [d.index EXCEPT ![k] = Len(d.pq)]
      /\ e = [pq |-> e.pq, index |-> e.index, readyAt |-> e.readyAt]
  <2>1. d = [pq |-> d.pq, index |-> d.index, readyAt |-> d.readyAt]
    BY DEF Heaps
  <2> PICK p, x, t : d = [pq |-> p, index |-> x, readyAt |-> t]
    BY <2>1
  <2>2. d.pq = p /\ d.index = x /\ d.readyAt = t
    OBVIOUS
  <2> PICK q, n : q = Append(p, k) /\ n = Len(p)
    OBVIOUS
  <2>3. e = [d EXCEPT !.pq = q, !.index[k] = n]
    BY <2>2 DEF PushLast
  <2> HIDE DEF e
  <2>4. e = [pq |-> q, index |-> [x EXCEPT ![k] = n], readyAt |-> t]
    BY <2>3
  <2> QED  BY <2>2, <2>4
<1> HIDE DEF e
<1>2. d.pq \in Seq(Keys) /\ Len(d.pq) \in Nat /\ d.index \in [Keys -> Int] /\ d.readyAt \in [Keys -> Nat]
  BY HeapFacts
<1>3. /\ e.pq \in Seq(Keys) /\ Len(e.pq) = Len(d.pq) + 1 /\ e.pq[Len(d.pq) + 1] = k
      /\ \A m \in 1 .. Len(d.pq) : e.pq[m] = d.pq[m]
  BY <1>1, <1>2, AppendProperties
<1>4. e \in Heaps
  <2>1. e.index \in [Keys -> Int]
    BY <1>1, <1>2
  <2> QED  BY <1>1, <1>2, <1>3, <2>1 DEF Heaps
<1>5. \A i \in Places(d) : Entry(e, i) = Entry(d, i)
  BY <1>3, HeapFacts DEF Entry
<1>6. Entry(e, Len(d.pq)) = k
  BY <1>3 DEF Entry
<1> QED  BY <1>1, <1>3, <1>4, <1>5, <1>6 DEF e, Extends

LEMMA PushFacts ==
  ASSUME NEW h, IsHeap(h), NEW k \in Keys \ ToSet(h.pq), NEW t \in Nat
  PROVE  LET g == Push([h EXCEPT !.readyAt[k] = t], k)
         IN  /\ IsHeap(g)
             /\ ToSet(g.pq) = ToSet(h.pq) \cup {k}
             /\ g.readyAt = [h.readyAt EXCEPT ![k] = t]
<1>1. /\ h \in Heaps /\ Placed(h) /\ Ordered(h, Len(h.pq))
      /\ h.pq \in Seq(Keys) /\ Len(h.pq) \in Nat /\ k \in Keys
      /\ h.index \in [Keys -> Int] /\ h.readyAt \in [Keys -> Nat]
  BY HeapFacts DEF IsHeap
<1> PICK n : n = Len(h.pq)
  OBVIOUS
<1> PICK d : d = [h EXCEPT !.readyAt[k] = t]
  OBVIOUS
<1>2. d.pq = h.pq /\ d.index = h.index /\ d.readyAt = [h.readyAt EXCEPT ![k] = t] /\ d \in Heaps
  BY <1>1 DEF Heaps
<1> PICK e : e = PushLast(d, k)
  OBVIOUS
<1>3. /\ e \in Heaps /\ e.index = [h.index EXCEPT ![k] = n] /\ e.readyAt = [h.readyAt EXCEPT ![k] = t]
      /\ Len(e.pq) = n + 1 /\ Entry(e, n) = k
      /\ \A i \in Places(d) : Entry(e, i) = Entry(d, i)
  <2>1. Extends(d, k, e)
    BY <1>1, <1>2, PushLastFacts
  <2> QED  BY <1>2, <2>1, Zenon DEF Extends
<1>4. n \in Nat /\ Places(d) = Places(h) /\ Places(e) = Places(h) \cup {n} /\ n \notin Places(h)
  <2>1. n \in Nat /\ Places(d) = Places(h)
    BY <1>1, <1>2 DEF Places
  <2>2. Places(h) = 0 .. n - 1 /\ Places(e) = 0 .. n
    BY <2>1, <1>3 DEF Places
  <2> QED  BY <2>1, <2>2
<1>5. \A i \in Places(h) : Entry(e, i) = Entry(h, i) /\ Entry(h, i) # k /\ Entry(h, i) \in Keys
  <2>1. \A i \in Places(h) : Entry(d, i) = Entry(h, i)
    BY <1>2 DEF Entry
  <2>2. \A i \in Places(h) : Entry(h, i) # k
    BY <1>1, PlacesOfSet
  <2> QED  BY <1>1, <1>3, <1>4, <2>1, <2>2, HeapFacts
<1>6. Placed(e)
  <2>1. \A i \in Places(h) : e.index[Entry(h, i)] = i
    BY <1>1, <1>3, <1>5 DEF Placed
  <2>2. e.index[k] = n
    BY <1>1, <1>3
  <2> QED  BY <2>1, <2>2, <1>3, <1>4, <1>5 DEF Placed
<1>7. ToSet(e.pq) = ToSet(h.pq) \cup {k}
  <2>1. ToSet(e.pq) = {Entry(e, i) : i \in Places(e)} /\ ToSet(h.pq) = {Entry(h, i) : i \in Places(h)}
    BY <1>1, <1>3, PlacesOfSet
  <2>2. {Entry(e, i) : i \in Places(e)} = {Entry(h, i) : i \in Places(h)} \cup {k}
    BY <1>3, <1>4, <1>5
  <2> QED  BY <2>1, <2>2
<1>8. \A i \in Places(h) : DueAt(e, i) = DueAt(h, i)
  <2>1. \A j \in Keys : j # k => e.readyAt[j] = h.readyAt[j]
    BY <1>1, <1>3
  <2> QED  BY <1>5, <2>1, Zenon DEF DueAt
<1>9. MayClimb(e, n)
  <2>1. ASSUME NEW c \in 1 .. Len(e.pq) - 1
        PROVE  /\ c # n => DueAt(e, Parent(c)) <= DueAt(e, c)
               /\ Parent(c) # n
    <3>1. c \in Nat \ {0} /\ c <= n
      <4>1. Len(e.pq) - 1 = n
        BY <1>3, <1>4
      <4>2. c \in 1 .. n
        BY <4>1, Zenon
      <4> QED  BY <1>4, <4>2
    <3>2. Parent(c) \in Nat /\ Parent(c) < c
      BY <3>1, ParentBelow
    <3>3. ASSUME c # n  PROVE DueAt(e, Parent(c)) <= DueAt(e, c)
      <4>1. c \in 1 .. Len(h.pq) - 1
        BY <3>1, <3>3, <1>4
      <4>2. c \in Places(h) /\ Parent(c) \in Places(h)
        BY <1>1, <4>1, PlaceFacts
      <4>3. DueAt(h, Parent(c)) <= DueAt(h, c)
        BY <1>1, <4>1 DEF Ordered
      <4> QED  BY <1>8, <4>2, <4>3
    <3> QED  BY <1>4, <3>1, <3>2, <3>3
  <2> QED  BY <2>1 DEF MayClimb
<1> PICK g : g = up(e, n)
  OBVIOUS
<1>10. Reordered(e, g) /\ Ordered(g, Len(e.pq))
  BY <1>3, <1>4, <1>6, <1>9, UpOrders
<1>11. IsHeap(g) /\ ToSet(g.pq) = ToSet(h.pq) \cup {k} /\ g.readyAt = [h.readyAt EXCEPT ![k] = t]
  BY <1>3, <1>7, <1>10 DEF Reordered, IsHeap
<1>12. g = Push(d, k)
  BY <1>2 DEF Push
<1> QED  BY <1>11, <1>12

LEMMA FixFacts ==
  ASSUME NEW h, IsHeap(h), NEW k \in ToSet(h.pq), NEW t \in Nat, t < h.readyAt[k]
  PROVE  LET g == Fix([h EXCEPT !.readyAt[k] = t], h.index[k])
         IN  /\ IsHeap(g)
             /\ ToSet(g.pq) = ToSet(h.pq)
             /\ g.readyAt = [h.readyAt EXCEPT ![k] = t]
<1>1. /\ h \in Heaps /\ Placed(h) /\ Ordered(h, Len(h.pq))
      /\ h.pq \in Seq(Keys) /\ Len(h.pq) \in Nat
      /\ h.index \in [Keys -> Int] /\ h.readyAt \in [Keys -> Nat]
  BY HeapFacts DEF IsHeap
<1>2. PICK i \in Places(h) : Entry(h, i) = k
  BY <1>1, PlacesOfSet
<1>3. h.index[k] = i /\ k \in Keys /\ i \in Nat
  BY <1>1, <1>2, HeapFacts DEF Placed
<1>4. \A m \in Places(h) : m # i => Entry(h, m) # k
  BY <1>1, <1>2, <1>3 DEF Placed
<1> PICK d : d = [h EXCEPT !.readyAt[k] = t]
  OBVIOUS
<1>5. d.pq = h.pq /\ d.index = h.index /\ d.readyAt = [h.readyAt EXCEPT ![k] = t] /\ d \in Heaps
  BY <1>1 DEF Heaps
<1>6. Places(d) = Places(h) /\ (\A m \in Places(h) : Entry(d, m) = Entry(h, m)) /\ Placed(d)
  BY <1>1, <1>5 DEF Places, Entry, Placed
<1>7. /\ DueAt(d, i) = t /\ t < DueAt(h, i)
      /\ \A m \in Places(h) : m # i => DueAt(d, m) = DueAt(h, m)
  <2>1. \A m \in Places(h) : Entry(h, m) \in Keys
    BY <1>1, HeapFacts
  <2>2. d.readyAt[k] = t /\ \A j \in Keys : j # k => d.readyAt[j] = h.readyAt[j]
    BY <1>1, <1>3, <1>5
  <2>3. DueAt(d, i) = t /\ DueAt(h, i) = h.readyAt[k]
    BY <1>2, <1>6, <2>2, Zenon DEF DueAt
  <2>4. \A m \in Places(h) : m # i => DueAt(d, m) = DueAt(h, m)
    BY <1>4, <1>6, <2>1, <2>2, Zenon DEF DueAt
  <2> QED  BY <2>3, <2>4
<1>8. \A m \in Places(h) : DueAt(d, m) \in Nat /\ DueAt(h, m) \in Nat
  BY <1>1, <1>5, <1>6, HeapFacts
<1>9. ASSUME NEW c \in 1 .. Len(h.pq) - 1
      PROVE  /\ c \in Places(h) /\ Parent(c) \in Places(h) /\ Parent(c) # c
             /\ DueAt(h, Parent(c)) <= DueAt(h, c)
  BY <1>1, PlaceFacts DEF Ordered
<1>10. down(d, i, Len(d.pq)) = d
  <2>1. \A c \in 1 .. Len(h.pq) - 1 : Parent(c) = i => DueAt(d, i) <= DueAt(d, c)
    <3> SUFFICES ASSUME NEW c \in 1 .. Len(h.pq) - 1, Parent(c) = i  PROVE DueAt(d, i) <= DueAt(d, c)
      OBVIOUS
    <3>1. c \in Places(h) /\ c # i /\ DueAt(h, i) <= DueAt(h, c) /\ DueAt(d, c) = DueAt(h, c)
      BY <1>7, <1>9
    <3> QED  BY <1>7, <1>8, <3>1
  <2>2. Len(d.pq) \in 0 .. Len(d.pq)
    BY <1>1, <1>5
  <2> QED  BY <1>5, <1>6, <2>1, <2>2, DownStays
<1>11. MayClimb(d, i)
  <2>1. ASSUME NEW c \in 1 .. Len(d.pq) - 1, c # i  PROVE DueAt(d, Parent(c)) <= DueAt(d, c)
    <3>1. /\ c \in Places(h) /\ Parent(c) \in Places(h) /\ DueAt(h, Parent(c)) <= DueAt(h, c)
          /\ DueAt(d, c) = DueAt(h, c)
      BY <1>5, <1>7, <1>9, <2>1
    <3>2. CASE Parent(c) = i
      BY <1>7, <1>8, <3>1, <3>2
    <3>3. CASE Parent(c) # i
      BY <1>7, <3>1, <3>3
    <3> QED  BY <3>2, <3>3
  <2>2. ASSUME NEW c \in 1 .. Len(d.pq) - 1, Parent(c) = i, i # 0
        PROVE  DueAt(d, Parent(i)) <= DueAt(d, c)
    <3>1. /\ c \in Places(h) /\ DueAt(h, i) <= DueAt(h, c) /\ DueAt(d, c) = DueAt(h, c)
      BY <1>5, <1>7, <1>9, <2>2
    <3>2. i \in 1 .. Len(h.pq) - 1
      BY <1>1, <1>3, <2>2 DEF Places
    <3> PICK p : p = Parent(i)
      OBVIOUS
    <3>3. p \in Places(h) /\ DueAt(d, p) = DueAt(h, p) /\ DueAt(h, p) <= DueAt(h, i)
      BY <1>7, <1>9, <3>2
    <3> QED  BY <1>8, <3>1, <3>3
  <2> QED  BY <2>1, <2>2 DEF MayClimb
<1> PICK g : g = up(d, i)
  OBVIOUS
<1>12. Reordered(d, g) /\ Ordered(g, Len(d.pq))
  BY <1>5, <1>6, <1>11, UpOrders
<1>13. IsHeap(g) /\ ToSet(g.pq) = ToSet(h.pq) /\ g.readyAt = [h.readyAt EXCEPT ![k] = t]
  BY <1>5, <1>12 DEF Reordered, IsHeap
<1>14. g = Fix(d, h.index[k])
  BY <1>3, <1>10 DEF Fix
<1> QED  BY <1>13, <1>14

\* e is d without its last entry.
Shortens(d, e) ==
  /\ e \in Heaps
  /\ e.index = [d.index EXCEPT ![Entry(d, Len(d.pq) - 1)] = NoIndex]
  /\ e.readyAt = [d.readyAt EXCEPT ![Entry(d, Len(d.pq) - 1)] = NoTime]
  /\ Len(e.pq) = Len(d.pq) - 1
  /\ \A i \in Places(e) : Entry(e, i) = Entry(d, i)

LEMMA PopLastFacts ==
  ASSUME NEW d \in Heaps, d.pq # <<>>
  PROVE  Shortens(d, PopLast(d))
<1> DEFINE e == PopLast(d)
<1>1. /\ d.pq \in Seq(Keys) /\ Len(d.pq) \in Nat \ {0}
      /\ d.index \in [Keys -> Int] /\ d.readyAt \in [Keys -> Nat]
  BY HeapFacts, EmptySeq
<1> PICK k : k = Entry(d, Len(d.pq) - 1)
  OBVIOUS
<1>2. Last(d.pq) = k
  BY <1>1 DEF Last, Entry
<1>3. /\ e.pq = Front(d.pq) /\ e.index = [d.index EXCEPT ![k] = NoIndex]
      /\ e.readyAt = [d.readyAt EXCEPT ![k] = NoTime]
      /\ e = [pq |-> e.pq, index |-> e.index, readyAt |-> e.readyAt]
  <2>1. d = [pq |-> d.pq, index |-> d.index, readyAt |-> d.readyAt]
    BY DEF Heaps
  <2> PICK p, x, t : d = [pq |-> p, index |-> x, readyAt |-> t]
    BY <2>1
  <2>2. d.pq = p /\ d.index = x /\ d.readyAt = t
    OBVIOUS
  <2> PICK q : q = Front(p)
    OBVIOUS
  <2>3. e = [d EXCEPT !.pq = q, !.index[k] = NoIndex, !.readyAt[k] = NoTime]
    BY <1>2, <2>2 DEF PopLast
  <2> HIDE DEF e
  <2>4. e = [pq |-> q, index |-> [x EXCEPT ![k] = NoIndex], readyAt |-> [t EXCEPT ![k] = NoTime]]
    BY <2>3
  <2> QED  BY <2>2, <2>4
<1> HIDE DEF e
<1>4. /\ e.pq \in Seq(Keys) /\ Len(e.pq) = Len(d.pq) - 1
      /\ \A m \in 1 .. Len(d.pq) - 1 : e.pq[m] = d.pq[m]
  <2> PICK n : n = Len(d.pq) - 1
    OBVIOUS
  <2>1. n \in Nat /\ n \in 0 .. Len(d.pq)
    BY <1>1
  <2>2. /\ SubSeq(d.pq, 1, n) \in Seq(Keys) /\ Len(SubSeq(d.pq, 1, n)) = n
        /\ \A m \in 1 .. n : SubSeq(d.pq, 1, n)[m] = d.pq[m]
    BY <1>1, <2>1
  <2>3. e.pq = SubSeq(d.pq, 1, n)
    BY <1>3 DEF Front
  <2> QED  BY <2>2, <2>3
<1>5. e \in Heaps
  <2>1. NoIndex \in Int /\ NoTime \in Nat
    BY DEF NoIndex, NoTime
  <2>2. e.index \in [Keys -> Int] /\ e.readyAt \in [Keys -> Nat]
    <3>1. e.index \in [Keys -> Int]
      BY <1>1, <1>3, <2>1
    <3>2. e.readyAt \in [Keys -> Nat]
      BY <1>1, <1>3, <2>1
    <3> QED  BY <3>1, <3>2
  <2> QED  BY <1>3, <1>4, <2>2 DEF Heaps
<1>6. \A i \in Places(e) : Entry(e, i) = Entry(d, i)
  <2> SUFFICES ASSUME NEW i \in Places(e)  PROVE e.pq[i + 1] = d.pq[i + 1]
    BY DEF Entry
  <2>1. i + 1 \in 1 .. Len(d.pq) - 1
    <3> PICK n : n = Len(e.pq)
      OBVIOUS
    <3>1. n = Len(d.pq) - 1
      BY <1>4, Zenon
    <3>2. n \in Nat
      BY <1>1, <3>1
    <3>3. i \in 0 .. n - 1
      BY Zenon DEF Places
    <3>4. i + 1 \in 1 .. n
      BY <3>2, <3>3
    <3> QED  BY <3>1, <3>4, Zenon
  <2> QED  BY <1>4, <2>1
<1> QED  BY <1>3, <1>4, <1>5, <1>6 DEF e, Shortens

LEMMA PopFacts ==
  ASSUME NEW h, IsHeap(h), h.pq # <<>>
  PROVE  LET g == Pop(h)
         IN  /\ IsHeap(g)
             /\ ToSet(g.pq) = ToSet(h.pq) \ {Entry(h, 0)}
             /\ g.readyAt = [h.readyAt EXCEPT ![Entry(h, 0)] = NoTime]
<1>1. /\ h \in Heaps /\ Placed(h) /\ Ordered(h, Len(h.pq))
      /\ h.pq \in Seq(Keys) /\ Len(h.pq) \in Nat \ {0} /\ h.readyAt \in [Keys -> Nat]
  BY HeapFacts, EmptySeq DEF IsHeap
<1> PICK n : n = Len(h.pq) - 1
  OBVIOUS
<1>2. /\ n \in Nat /\ n \in Places(h) /\ 0 \in Places(h) /\ n \in 0 .. Len(h.pq)
      /\ Places(h) = 0 .. n /\ Len(h.pq) = n + 1
  BY <1>1 DEF Places
<1> PICK k : k = Entry(h, 0)
  OBVIOUS
<1> PICK d : d = Swap(h, 0, n)
  OBVIOUS
<1>3. /\ Reordered(h, d) /\ Entry(d, n) = k
      /\ \A m \in Places(h) : m # 0 /\ m # n => DueAt(d, m) = DueAt(h, m)
  <2>1. Exchanged(h, 0, n, d)
    BY <1>1, <1>2, SwapFacts
  <2> QED  BY <2>1 DEF Exchanged
<1>4. d \in Heaps /\ Placed(d) /\ Places(d) = Places(h) /\ Len(d.pq) = n + 1
  BY <1>2, <1>3, ReorderedFacts DEF Reordered
<1>5. MaySink(d, 0, n)
  <2> SUFFICES ASSUME NEW c \in 1 .. n - 1, Parent(c) # 0  PROVE DueAt(d, Parent(c)) <= DueAt(d, c)
    BY DEF MaySink
  <2>1. c \in 1 .. Len(h.pq) - 1 /\ c \in Nat /\ c # n /\ c < n
    BY <1>2
  <2>2. /\ c \in Places(h) /\ Parent(c) \in Places(h) /\ Parent(c) \in Nat /\ Parent(c) < c /\ c # 0
        /\ DueAt(h, Parent(c)) <= DueAt(h, c)
    BY <1>1, <2>1, PlaceFacts DEF Ordered
  <2>3. Parent(c) # n
    BY <1>2, <2>1, <2>2
  <2> QED  BY <1>3, <2>1, <2>2, <2>3
<1> PICK e : e = down(d, 0, n)
  OBVIOUS
<1>6. Reordered(d, e) /\ Ordered(e, n) /\ Entry(e, n) = k
  <2>1. n \in 0 .. Len(d.pq) /\ 0 \in Places(d) /\ n \in Places(d) /\ n >= n
    BY <1>2, <1>4
  <2> QED  BY <1>3, <1>4, <1>5, <2>1, DownOrders
<1>7. /\ e \in Heaps /\ Placed(e) /\ Places(e) = 0 .. n /\ Len(e.pq) = n + 1
      /\ ToSet(e.pq) = ToSet(h.pq) /\ e.readyAt = h.readyAt
  BY <1>2, <1>3, <1>4, <1>6, ReorderedFacts DEF Reordered
<1> PICK g : g = PopLast(e)
  OBVIOUS
<1>8. Len(e.pq) - 1 = n
  BY <1>2, <1>7
<1>9. /\ g \in Heaps /\ g.index = [e.index EXCEPT ![k] = NoIndex]
      /\ g.readyAt = [h.readyAt EXCEPT ![k] = NoTime]
      /\ Len(g.pq) = n /\ (\A i \in Places(g) : Entry(g, i) = Entry(e, i))
  <2>1. e.pq # <<>>
    BY <1>2, <1>7
  <2>2. Shortens(e, g)
    BY <1>7, <2>1, PopLastFacts
  <2>3. Entry(e, Len(e.pq) - 1) = k
    BY <1>6, <1>8
  <2>4. /\ g \in Heaps /\ g.index = [e.index EXCEPT ![k] = NoIndex]
        /\ g.readyAt = [e.readyAt EXCEPT ![k] = NoTime]
        /\ Len(g.pq) = Len(e.pq) - 1 /\ (\A i \in Places(g) : Entry(g, i) = Entry(e, i))
    BY <2>2, <2>3, Zenon DEF Shortens
  <2> QED  BY <1>7, <1>8, <2>4, Zenon
<1>10. Places(g) = 0 .. n - 1 /\ Places(e) = Places(g) \cup {n} /\ n \notin Places(g)
  <2>1. Places(g) = 0 .. n - 1
    BY <1>9, Zenon DEF Places
  <2> QED  BY <1>2, <1>7, <2>1
<1>11. \A i \in Places(g) : /\ Entry(g, i) = Entry(e, i) /\ Entry(e, i) # k
                             /\ Entry(e, i) \in Keys /\ e.index[Entry(e, i)] = i
  <2> SUFFICES ASSUME NEW i \in Places(g)
               PROVE  /\ Entry(e, i) # k /\ Entry(e, i) \in Keys /\ e.index[Entry(e, i)] = i
    BY <1>9
  <2>1. i \in Places(e) /\ n \in Places(e) /\ i # n
    BY <1>10
  <2>2. e.index[Entry(e, i)] = i /\ e.index[Entry(e, n)] = n
    BY <1>7, <2>1 DEF Placed
  <2> QED  BY <1>6, <1>7, <2>1, <2>2, HeapFacts
<1>12. Placed(g)
  <2>1. \A j \in Keys : j # k => g.index[j] = e.index[j]
    BY <1>7, <1>9, HeapFacts
  <2> QED  BY <1>11, <2>1 DEF Placed
<1>13. ToSet(g.pq) = ToSet(h.pq) \ {k}
  <2>1. ToSet(g.pq) = {Entry(g, i) : i \in Places(g)} /\ ToSet(e.pq) = {Entry(e, i) : i \in Places(e)}
    BY <1>7, <1>9, PlacesOfSet
  <2>2. {Entry(g, i) : i \in Places(g)} = {Entry(e, i) : i \in Places(e)} \ {k}
    BY <1>6, <1>10, <1>11
  <2> QED  BY <1>7, <2>1, <2>2
<1>14. \A i \in Places(g) : DueAt(g, i) = DueAt(e, i)
  <2>1. \A j \in Keys : j # k => g.readyAt[j] = e.readyAt[j]
    BY <1>1, <1>7, <1>9
  <2> SUFFICES ASSUME NEW i \in Places(g)  PROVE g.readyAt[Entry(g, i)] = e.readyAt[Entry(e, i)]
    BY DEF DueAt
  <2>2. Entry(g, i) = Entry(e, i) /\ Entry(e, i) # k /\ Entry(e, i) \in Keys
    BY <1>11, Zenon
  <2> QED  BY <2>1, <2>2, Zenon
<1>15. Ordered(g, Len(g.pq))
  <2> SUFFICES ASSUME NEW c \in 1 .. n - 1  PROVE DueAt(g, Parent(c)) <= DueAt(g, c)
    BY <1>9 DEF Ordered
  <2>1. DueAt(e, Parent(c)) <= DueAt(e, c)
    BY <1>6 DEF Ordered
  <2>2. c \in 1 .. Len(g.pq) - 1
    BY <1>9
  <2>3. c \in Places(g) /\ Parent(c) \in Places(g)
    BY <1>9, <2>2, PlaceFacts
  <2> QED  BY <1>14, <2>1, <2>3
<1>16. g = Pop(h)
  BY DEF Pop
<1> QED  BY <1>9, <1>12, <1>13, <1>15, <1>16 DEF IsHeap

-----------------------------------------------------------------------------
(***************************************************************************)
(* The invariant.  That the heap is in order is not asked for: heap.Pop    *)
(* hands back the root, which is due first in a heap that is.              *)
(***************************************************************************)
HeapInv == IsHeap(heap) /\ ToSet(heap.pq) = knownEntries

LEMMA InitHeap == Init => HeapInv
<1> SUFFICES ASSUME Init  PROVE HeapInv
  OBVIOUS
<1>1. heap.pq = <<>> /\ knownEntries = {} /\ Len(heap.pq) = 0
  BY DEF Init
<1>2. heap \in Heaps
  BY DEF Init, Heaps, NoIndex, NoTime
<1>3. Places(heap) = {} /\ 1 .. Len(heap.pq) - 1 = {}
  BY <1>1 DEF Places
<1>4. ToSet(heap.pq) = {}
  BY <1>2, <1>3, PlacesOfSet
<1> QED  BY <1>1, <1>2, <1>3, <1>4 DEF HeapInv, IsHeap, Placed, Ordered

\* What a step makes of the heap, seen as a map from keys to instants.
Lowers(k, t) ==
  /\ knownEntries' = knownEntries \cup {k}
  /\ heap'.readyAt = [heap.readyAt EXCEPT ![k] = IF k \notin knownEntries \/ t < @ THEN t ELSE @]

TakesRoot ==
  /\ Entry(heap, 0) \in knownEntries
  /\ \A j \in knownEntries : heap.readyAt[Entry(heap, 0)] <= heap.readyAt[j]
  /\ knownEntries' = knownEntries \ {Entry(heap, 0)}
  /\ heap'.readyAt = [heap.readyAt EXCEPT ![Entry(heap, 0)] = NoTime]

LEMMA InsertStep ==
  ASSUME HeapInv, NEW k \in Keys, NEW t \in Times, Insert(k, t)
  PROVE  HeapInv' /\ Lowers(k, t)
<1>1. t \in Nat /\ IsHeap(heap) /\ heap.readyAt \in [Keys -> Nat] /\ ToSet(heap.pq) = knownEntries
  BY TimesAssumption, HeapFacts DEF HeapInv, IsHeap
<1> PICK h : h = heap
  OBVIOUS
<1> PICK g : g = heap'
  OBVIOUS
<1> SUFFICES /\ IsHeap(g) /\ ToSet(g.pq) = knownEntries' /\ knownEntries' = knownEntries \cup {k}
             /\ g.readyAt = [h.readyAt EXCEPT ![k] = IF k \notin knownEntries \/ t < @ THEN t ELSE @]
  <2>1. IsHeap(heap)' <=> IsHeap(g)
    BY DEF IsHeap, Placed, Ordered, Places, Entry, DueAt
  <2> QED  BY <2>1 DEF HeapInv, Lowers
<1>2. CASE k \in knownEntries /\ h.readyAt[k] > t
  <2>1. g = Fix([h EXCEPT !.readyAt[k] = t], h.index[k]) /\ knownEntries' = knownEntries
    BY <1>2 DEF Insert
  <2>2. /\ k \in ToSet(h.pq) /\ t < h.readyAt[k]
    BY <1>1, <1>2
  <2>3. IsHeap(g) /\ ToSet(g.pq) = ToSet(h.pq) /\ g.readyAt = [h.readyAt EXCEPT ![k] = t]
    BY <1>1, <2>1, <2>2, FixFacts
  <2> QED  BY <1>1, <1>2, <2>1, <2>2, <2>3
<1>3. CASE k \in knownEntries /\ ~(h.readyAt[k] > t)
  <2>1. g = h /\ knownEntries' = knownEntries
    BY <1>3 DEF Insert
  <2>2. [h.readyAt EXCEPT ![k] = IF k \notin knownEntries \/ t < @ THEN t ELSE @] = h.readyAt
    BY <1>1, <1>3
  <2> QED  BY <1>1, <1>3, <2>1, <2>2
<1>4. CASE k \notin knownEntries
  <2>1. g = Push([h EXCEPT !.readyAt[k] = t], k) /\ knownEntries' = knownEntries \cup {k}
    BY <1>4 DEF Insert
  <2>2. k \in Keys \ ToSet(h.pq)
    BY <1>1, <1>4
  <2>3. IsHeap(g) /\ ToSet(g.pq) = ToSet(h.pq) \cup {k} /\ g.readyAt = [h.readyAt EXCEPT ![k] = t]
    BY <1>1, <2>1, <2>2, PushFacts
  <2> QED  BY <1>1, <1>4, <2>1, <2>3
<1> QED  BY <1>2, <1>3, <1>4

LEMMA PopStep ==
  ASSUME HeapInv, NEW now \in Times, PopReady(now)
  PROVE  HeapInv' /\ TakesRoot
<1>1. IsHeap(heap) /\ ToSet(heap.pq) = knownEntries
  BY DEF HeapInv
<1> PICK h : h = heap
  OBVIOUS
<1> PICK g : g = heap'
  OBVIOUS
<1>2. /\ h.pq # <<>> /\ g = Pop(h) /\ knownEntries' = knownEntries \ {Entry(h, 0)}
      /\ h \in Heaps /\ h.pq \in Seq(Keys) /\ Len(h.pq) \in Nat \ {0}
  BY <1>1, HeapFacts, EmptySeq DEF PopReady, IsHeap
<1>3. /\ IsHeap(g) /\ ToSet(g.pq) = ToSet(h.pq) \ {Entry(h, 0)}
      /\ g.readyAt = [h.readyAt EXCEPT ![Entry(h, 0)] = NoTime]
  BY <1>1, <1>2, PopFacts
<1>4. 0 \in Places(h)
  BY <1>2 DEF Places
<1>5. ToSet(h.pq) = {Entry(h, i) : i \in Places(h)}
  BY <1>2, PlacesOfSet
<1>6. \A i \in Places(h) : h.readyAt[Entry(h, 0)] <= h.readyAt[Entry(h, i)]
  BY <1>1, RootIsFirst DEF DueAt
<1>7. IsHeap(heap)'
  BY <1>3 DEF IsHeap, Placed, Ordered, Places, Entry, DueAt
<1>8. TakesRoot
  BY <1>1, <1>2, <1>3, <1>4, <1>5, <1>6 DEF TakesRoot
<1> QED  BY <1>1, <1>2, <1>3, <1>7, <1>8 DEF HeapInv

\* The heap, the map and the indices stay together, for any number of keys:
\* an index is where the entry is, also in the middle of a heap.Fix.
THEOREM HeapTogether == Spec => []EntriesAgree
<1>1. HeapInv => EntriesAgree
  <2> SUFFICES ASSUME HeapInv  PROVE EntriesAgree
    OBVIOUS
  <2> PICK h : h = heap
    OBVIOUS
  <2>1. /\ h \in Heaps /\ Placed(h) /\ ToSet(h.pq) = knownEntries
        /\ h.pq \in Seq(Keys) /\ Len(h.pq) \in Nat /\ DOMAIN h.pq = 1 .. Len(h.pq)
    BY HeapFacts DEF HeapInv, IsHeap
  <2>2. \A i, j \in 1 .. Len(h.pq) : h.pq[i] = h.pq[j] => i = j
    <3> SUFFICES ASSUME NEW i \in 1 .. Len(h.pq), NEW j \in 1 .. Len(h.pq), h.pq[i] = h.pq[j]
                 PROVE  i = j
      OBVIOUS
    <3>1. /\ i - 1 \in Places(h) /\ j - 1 \in Places(h)
          /\ Entry(h, i - 1) = h.pq[i] /\ Entry(h, j - 1) = h.pq[j]
      BY <2>1 DEF Places, Entry
    <3>2. i - 1 = j - 1
      BY <2>1, <3>1 DEF Placed
    <3> QED  BY <2>1, <3>2
  <2>3. h.pq \in Bijection(1 .. Len(h.pq), knownEntries)
    <3>1. knownEntries = {h.pq[i] : i \in 1 .. Len(h.pq)}
      BY <2>1 DEF ToSet
    <3>2. h.pq \in [1 .. Len(h.pq) -> knownEntries]
      BY <2>1, <3>1
    <3> QED  BY <2>2, <3>1, <3>2 DEF Bijection, Injection, Surjection, IsInjective
  <2>4. Len(h.pq) = Cardinality(knownEntries)
    BY <2>1, <2>3, FS_CountingElements DEF ExistsBijection
  <2> QED  BY <2>1, <2>4 DEF EntriesAgree, Placed, Places
<1>2. HeapInv /\ [Next]_vars => HeapInv'
  <2> SUFFICES ASSUME HeapInv, [Next]_vars  PROVE HeapInv'
    OBVIOUS
  <2>1. CASE UNCHANGED vars
    BY <2>1 DEF vars, HeapInv, IsHeap, Placed, Ordered, Places, Entry, DueAt
  <2> QED  BY <2>1, InsertStep, PopStep DEF Next
<1> QED  BY <1>1, <1>2, InitHeap, PTL DEF Spec

\* The heap is the map from keys to instants that the queue relies on: an
\* insertion keeps the earlier of two instants, and the key handed back is due
\* no later than any other.
THEOREM HeapIsDelayedKeys == Spec => KeepsOrder
<1> DEFINE waiting == [k \in Keys |-> IF k \in knownEntries THEN heap.readyAt[k] ELSE -1]
<1>1. Init => Delays!Init
  BY DEF Init, Delays!Init, Delays!NotWaiting
<1>2. HeapInv /\ [Next]_vars => HeapInv' /\ [Delays!Next]_waiting
  <2> SUFFICES ASSUME HeapInv, [Next]_vars  PROVE HeapInv' /\ [Delays!Next]_waiting
    OBVIOUS
  <2>0. heap.readyAt \in [Keys -> Nat] /\ knownEntries \subseteq Keys /\ Times \subseteq Nat
    <3>1. heap \in Heaps /\ heap.pq \in Seq(Keys) /\ heap.readyAt \in [Keys -> Nat]
      BY HeapFacts DEF HeapInv, IsHeap
    <3> QED  BY <3>1, TimesAssumption DEF HeapInv, ToSet
  <2>1. ASSUME NEW k \in Keys, NEW t \in Times, Insert(k, t)  PROVE HeapInv' /\ Delays!Insert(k, t)
    <3>1. HeapInv' /\ Lowers(k, t)
      BY <2>1, InsertStep
    <3>2. t \in Nat /\ waiting[k] = IF k \in knownEntries THEN heap.readyAt[k] ELSE -1
      BY <2>0
    <3>3. waiting' = [waiting EXCEPT ![k] = IF @ = -1 \/ t < @ THEN t ELSE @]
      <4> PICK v : v = IF k \notin knownEntries \/ t < heap.readyAt[k] THEN t ELSE heap.readyAt[k]
        OBVIOUS
      <4>1. heap'.readyAt = [heap.readyAt EXCEPT ![k] = v] /\ knownEntries' = knownEntries \cup {k}
        BY <3>1 DEF Lowers
      <4>2. waiting' = [waiting EXCEPT ![k] = v]
        BY <2>0, <4>1
      <4>3. v = IF waiting[k] = -1 \/ t < waiting[k] THEN t ELSE waiting[k]
        BY <2>0, <3>2
      <4> HIDE DEF waiting
      <4> QED  BY <4>2, <4>3
    <3> QED  BY <3>1, <3>3 DEF Delays!Insert, Delays!NotWaiting
  <2>2. ASSUME NEW now \in Times, PopReady(now)
        PROVE  HeapInv' /\ Delays!Next
    <3>1. HeapInv' /\ TakesRoot
      BY <2>2, PopStep
    <3> PICK k : k = Entry(heap, 0)
      OBVIOUS
    <3>2. /\ k \in knownEntries /\ k \in Keys /\ knownEntries' = knownEntries \ {k}
          /\ \A j \in knownEntries : heap.readyAt[k] <= heap.readyAt[j]
          /\ heap'.readyAt = [heap.readyAt EXCEPT ![k] = NoTime]
      BY <2>0, <3>1 DEF TakesRoot
    <3>3. waiting' = [waiting EXCEPT ![k] = -1]
      BY <2>0, <3>2
    <3>4. waiting[k] # -1 /\ \A j \in Keys : waiting[j] = -1 \/ waiting[k] <= waiting[j]
      BY <2>0, <3>2
    <3>5. Delays!TakeFirst(k)
      BY <3>3, <3>4 DEF Delays!TakeFirst, Delays!NotWaiting
    <3> QED  BY <3>1, <3>2, <3>5, Zenon DEF Delays!Next
  <2>3. CASE UNCHANGED vars
    <3>1. HeapInv'
      BY <2>3 DEF vars, HeapInv, IsHeap, Placed, Ordered, Places, Entry, DueAt
    <3>2. waiting' = waiting
      BY <2>3 DEF vars
    <3> QED  BY <3>1, <3>2
  <2> HIDE DEF waiting
  <2>4. CASE \E k \in Keys, t \in Times : Insert(k, t)
    BY <2>1, <2>4 DEF Delays!Next
  <2>5. CASE \E now \in Times : PopReady(now)
    BY <2>2, <2>5
  <2> QED  BY <2>3, <2>4, <2>5 DEF Next
<1> QED  BY <1>1, <1>2, InitHeap, PTL DEF Spec, KeepsOrder, Delays!Spec
================================================================================
