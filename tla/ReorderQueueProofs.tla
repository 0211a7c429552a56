------------------------- MODULE ReorderQueueProofs -------------------------
(***************************************************************************)
(* The reorder queue holds what it should, for every ring size, width of   *)
(* the sequence numbers and set of elements.                               *)
(***************************************************************************)
EXTENDS ReorderQueue, SeqNumProofs

\* Division with remainder, as the idx macro uses it.
LEMMA DivMod ==
  ASSUME NEW q \in Nat \ {0}, NEW x \in Int
  PROVE  \E k \in Int : x = q * k + (x % q) /\ x % q \in 0 .. q - 1
<1>1. x \div q \in Int /\ x = q * (x \div q) + (x % q) /\ x % q \in 0 .. q - 1
  BY SMT
<1> QED
  BY <1>1

\* A multiple of the ring size smaller than it is zero.
LEMMA SmallMultiple ==
  ASSUME NEW q \in Nat \ {0}, NEW k \in Int, 0 <= q * k, q * k < q
  PROVE  q * k = 0
<1>1. CASE k >= 1
  BY <1>1, SMT
<1>2. CASE k <= 0
  BY <1>2, SMT
<1> QED
  BY <1>1, <1>2

\* Two numbers less than a ring apart use different slots, across the wrap of
\* the sequence numbers too, because the ring's size divides their number.
LEMMA IdxInjective ==
  ASSUME NEW a \in SeqNums, NEW b \in SeqNums,
         idx(a) = idx(b), Ahead(a, b) < QUEUE_SIZE
  PROVE  a = b
<1> DEFINE q == QUEUE_SIZE
           n == Ahead(a, b)
<1>1. /\ q \in Nat \ {0} /\ SeqMod \in Nat /\ SeqMod % q = 0
      /\ a \in Int /\ b \in Int /\ SeqMod \in Int
      /\ a \in Nat /\ b \in Nat /\ n \in Nat
      /\ a < SeqMod /\ b < SeqMod /\ n < q
  BY QueueAssumption, SeqNumTypes
<1>2. a % q = b % q
  BY DEF idx
<1>3. n = IF a <= b THEN b - a ELSE b - a + SeqMod
  BY AheadLinear
<1> HIDE DEF q, n
<1>4. PICK ka \in Int : a = q * ka + (a % q) /\ a % q \in 0 .. q - 1
  BY <1>1, DivMod, Zenon
<1>5. PICK kb \in Int : b = q * kb + (b % q) /\ b % q \in 0 .. q - 1
  BY <1>1, DivMod, Zenon
<1>6. PICK km \in Int : SeqMod = q * km + (SeqMod % q) /\ SeqMod % q \in 0 .. q - 1
  BY <1>1, DivMod, Zenon
<1>7. CASE a <= b
  <2>1. n = q * (kb - ka)
    BY <1>1, <1>2, <1>3, <1>4, <1>5, <1>7, SMT
  <2>2. n = 0
    BY <1>1, <2>1, SmallMultiple
  <2> QED
    BY <1>1, <1>3, <1>7, <2>2
<1>8. CASE a > b
  <2>1. n = q * (kb - ka + km)
    BY <1>1, <1>2, <1>3, <1>4, <1>5, <1>6, <1>8, SMT
  <2>2. n = 0
    BY <1>1, <2>1, SmallMultiple
  <2> QED
    BY <1>1, <1>3, <1>8, <2>2
<1> QED
  BY <1>1, <1>7, <1>8

\* Hence no two numbers of a window share a slot.
LEMMA WindowInjective ==
  ASSUME NEW b \in SeqNums, NEW c \in Nat, c <= QUEUE_SIZE,
         NEW t \in SeqNums, NEW v \in SeqNums,
         Ahead(b, t) < c, Ahead(b, v) < c, idx(t) = idx(v)
  PROVE  t = v
<1> DEFINE m == Ahead(b, t)
           n == Ahead(b, v)
<1>1. /\ m \in Nat /\ n \in Nat /\ m < c /\ n < c
      /\ QUEUE_SIZE \in Nat /\ SeqMod \in Nat /\ QUEUE_SIZE < SeqMod
  BY AheadType, QueueAssumption, SeqNumTypes
<1>2. t = add(b, m) /\ v = add(b, n)
  BY AddAhead
<1>3. Ahead(t, v) = IF m <= n THEN n - m ELSE n - m + SeqMod
  BY <1>1, <1>2, AheadShift
<1>4. Ahead(v, t) = IF n <= m THEN m - n ELSE m - n + SeqMod
  BY <1>1, <1>2, AheadShift
<1> HIDE DEF m, n
<1>5. Ahead(t, v) < QUEUE_SIZE \/ Ahead(v, t) < QUEUE_SIZE
  BY <1>1, <1>3, <1>4
<1> QED
  BY <1>5, IdxInjective

\* The idx macro yields a slot of the ring.
LEMMA IdxType ==
  ASSUME NEW a \in SeqNums
  PROVE  idx(a) \in Slots
<1>1. a \in Int /\ QUEUE_SIZE \in Nat \ {0}
  BY QueueAssumption, SeqNumTypes
<1>2. a % QUEUE_SIZE \in 0 .. QUEUE_SIZE - 1
  BY <1>1, DivMod, Zenon
<1> QED
  BY <1>2 DEF idx, Slots

\* The sizes a proof about a window needs.
LEMMA Sizes ==
  /\ QUEUE_SIZE \in Nat /\ 2 <= QUEUE_SIZE /\ 2 * QUEUE_SIZE <= Half
  /\ Half \in Nat /\ SeqMod \in Nat /\ SeqMod = 2 * Half
  BY QueueAssumption, SeqNumTypes
-----------------------------------------------------------------------------
\* The first two tests of push: a number is in the window exactly if it is
\* less than count ahead of begin.
LEMMA InWindowIff ==
  ASSUME TypeOK, NEW s \in SeqNums
  PROVE  InWindow(s) <=> Ahead(begin, s) < count
<1> DEFINE n == Ahead(begin, s)
<1>1. begin \in SeqNums /\ count \in Nat /\ count <= QUEUE_SIZE
  BY Sizes DEF TypeOK
<1>2. n \in Nat /\ n < SeqMod /\ End \in SeqNums
  BY <1>1, Sizes, AheadType, AddType DEF End
<1>3. ge(s, begin) <=> n < Half
  BY <1>1, CompareByAhead
<1>4. Ahead(End, s) = IF count <= n THEN n - count ELSE n - count + SeqMod
  BY <1>1, Sizes, AheadShift DEF End
<1>5. lt(s, End) <=> Half < Ahead(End, s)
  BY <1>2, CompareByAhead
<1> HIDE DEF n
<1>6. InWindow(s) <=> n < count
  BY <1>1, <1>2, <1>3, <1>4, <1>5, Sizes DEF InWindow
<1> QED
  BY <1>6 DEF n

\* What push knows of a number that its first three tests let pass: how far
\* ahead it is, and what TooFar and the distances to the new end amount to.
LEMMA BeyondDistances ==
  ASSUME TypeOK, NEW s \in SeqNums,
         ~InWindow(s), ~lt(s, begin), ge(s, End)
  PROVE  /\ count <= Ahead(begin, s) /\ Ahead(begin, s) <= Half
         /\ Ahead(begin, s) - count < Half
         /\ TooFar(s) <=> QUEUE_SIZE <= Ahead(begin, s)
         /\ TooFar(s) => Ahead(TotalEnd, NewEnd(s)) = Ahead(begin, s) + 1 - QUEUE_SIZE
         /\ Ahead(End, NewEnd(s)) = Ahead(begin, s) + 1 - count
         /\ NewEnd(s) = add(begin, Ahead(begin, s) + 1)
         /\ NewEnd(s) \in SeqNums /\ End \in SeqNums
<1> DEFINE d == Ahead(begin, s)
           e == NewEnd(s)
<1>1. begin \in SeqNums /\ count \in Nat /\ count <= QUEUE_SIZE
  BY Sizes DEF TypeOK
<1>2. d \in Nat /\ d < SeqMod /\ End \in SeqNums /\ e \in SeqNums
  BY <1>1, Sizes, AheadType, AddType DEF End, NewEnd
<1>3. count <= d /\ d <= Half
  BY <1>1, <1>2, InWindowIff, CompareByAhead, Sizes
<1>4. d - count < Half
  <2>1. Ahead(End, s) = d - count
    BY <1>1, <1>2, <1>3, Sizes, AheadShift DEF End
  <2> QED
    BY <1>2, <2>1, CompareByAhead
<1>5. e = add(begin, d + 1)
  <2>1. add(begin, d) = s
    BY <1>1, AddAhead
  <2> QED
    BY <1>1, <1>2, <1>3, <2>1, Sizes, AddAdd DEF NewEnd
<1>6. Ahead(begin, e) = d + 1
  BY <1>1, <1>2, <1>3, <1>5, Sizes, AheadAdd
<1>7. Ahead(End, e) = d + 1 - count
  BY <1>1, <1>2, <1>3, <1>6, Sizes, AheadShift DEF End
<1>8. TotalEnd = add(begin, QUEUE_SIZE)
  BY <1>1, Sizes, AddAdd DEF TotalEnd, End
<1>9. Ahead(TotalEnd, e) = IF QUEUE_SIZE <= d + 1 THEN d + 1 - QUEUE_SIZE
                           ELSE d + 1 - QUEUE_SIZE + SeqMod
  BY <1>1, <1>2, <1>6, <1>8, Sizes, AheadShift
<1>10. TotalEnd \in SeqNums
  BY <1>1, <1>8, Sizes, SeqNumTypes
<1>11. TooFar(s) <=> 0 < Ahead(TotalEnd, e) /\ Ahead(TotalEnd, e) < Half
  BY <1>2, <1>10, CompareByAhead DEF TooFar
<1> HIDE DEF d, e
<1>12. TooFar(s) <=> QUEUE_SIZE <= d
  BY <1>2, <1>3, <1>9, <1>11, Sizes
<1>13. TooFar(s) => Ahead(TotalEnd, e) = d + 1 - QUEUE_SIZE
  BY <1>2, <1>9, <1>12, Sizes
<1> QED
  BY <1>2, <1>3, <1>4, <1>5, <1>7, <1>12, <1>13 DEF d, e

\* The two outcomes of making room: the first k numbers leave and the end
\* stays, or everything leaves and the window starts again at s.
LEMMA FrontOutcomes ==
  ASSUME TypeOK, NEW s \in SeqNums,
         ~InWindow(s), ~lt(s, begin), ge(s, End)
  PROVE  \/ \E k \in 0 .. count :
              /\ DropFront(s) = [dropped |-> k, begin |-> add(begin, k), count |-> count - k]
              /\ k <= Ahead(begin, s)
              /\ Ahead(begin, s) + 1 - k \in 1 .. QUEUE_SIZE
              /\ add(add(begin, k), count - k) = End
              /\ lt(End, NewEnd(s))
              /\ Ahead(End, NewEnd(s)) = Ahead(begin, s) + 1 - count
         \/ /\ DropFront(s) = [dropped |-> count, begin |-> s, count |-> 0]
            /\ add(s, 0) = s
            /\ lt(s, NewEnd(s))
            /\ Ahead(s, NewEnd(s)) = 1
<1> DEFINE d == Ahead(begin, s)
           e == NewEnd(s)
           need == d + 1 - QUEUE_SIZE
<1>1. begin \in SeqNums /\ count \in Nat /\ count <= QUEUE_SIZE
  BY Sizes DEF TypeOK
<1>2. d \in Nat /\ d < SeqMod
  BY <1>1, AheadType
<1>3. /\ count <= d /\ d <= Half /\ d - count < Half
      /\ TooFar(s) <=> QUEUE_SIZE <= d
      /\ TooFar(s) => Ahead(TotalEnd, e) = need
      /\ Ahead(End, e) = d + 1 - count
      /\ e \in SeqNums /\ End \in SeqNums
  BY BeyondDistances
<1>4. lt(End, e) <=> 0 < Ahead(End, e) /\ Ahead(End, e) < Half
  BY <1>3, CompareByAhead
<1>5. CASE ~TooFar(s)
  <2>1. DropFront(s) = [dropped |-> 0, begin |-> begin, count |-> count]
    BY <1>5 DEF DropFront
  <2>2. add(begin, 0) = begin /\ count - 0 = count
    BY <1>1, Sizes, SeqNumTypes, AddLinear
  <2>3. lt(End, e)
    BY <1>1, <1>2, <1>3, <1>4, <1>5, Sizes
  <2>4. 0 \in 0 .. count /\ 0 <= d /\ d + 1 - 0 \in 1 .. QUEUE_SIZE
    BY <1>1, <1>2, <1>3, <1>5, Sizes
  <2> QED
    BY <1>3, <2>1, <2>2, <2>3, <2>4 DEF End
<1>6. CASE TooFar(s) /\ need < count
  <2>1. DropFront(s) = [dropped |-> need, begin |-> add(begin, need), count |-> count - need]
    BY <1>3, <1>6 DEF DropFront
  <2>2. /\ need \in 0 .. count /\ need <= d /\ d + 1 - need \in 1 .. QUEUE_SIZE
        /\ need \in Nat /\ count - need \in Nat /\ need + (count - need) = count
        /\ need >= 1
    BY <1>1, <1>2, <1>3, <1>6, Sizes
  <2>3. add(add(begin, need), count - need) = End
    BY <1>1, <2>2, Sizes, AddAdd DEF End
  <2>4. lt(End, e)
    BY <1>1, <1>2, <1>3, <1>4, <1>6, <2>2, Sizes
  <2> QED
    BY <1>3, <2>1, <2>2, <2>3, <2>4
<1>7. CASE TooFar(s) /\ ~(need < count)
  <2>1. DropFront(s) = [dropped |-> count, begin |-> s, count |-> 0]
    BY <1>3, <1>7 DEF DropFront
  <2>2. add(s, 0) = s
    BY Sizes, SeqNumTypes, AddLinear
  <2>3. Ahead(s, e) = 1
    BY Sizes, AheadAdd DEF NewEnd
  <2>4. lt(s, e)
    BY <1>3, <2>3, Sizes, CompareByAhead
  <2> QED
    BY <2>1, <2>2, <2>3, <2>4
<1> QED
  BY <1>5, <1>6, <1>7
-----------------------------------------------------------------------------
\* The inductive invariant.  HeldUnderOwnNumber and OwnedIsHeld are restated
\* for sequence numbers instead of offsets; each needs the other, because an
\* element leaves under the number that its slot shows.
HeldOK ==
  \A s \in SeqNums :
    Ahead(begin, s) < count /\ queue[idx(s)].set =>
      queue[idx(s)].user \in Elems /\ number[queue[idx(s)].user] = s

OwnedOK ==
  \A e \in Elems :
    number[e] # NotOwned =>
      /\ Ahead(begin, number[e]) < count
      /\ queue[idx(number[e])].set /\ queue[idx(number[e])].user = e

IInv ==
  /\ TypeOK
  /\ status = "live" => HeldOK /\ OwnedOK
  /\ LastIsHeld
  /\ NothingLeftAfterFini

\* Which elements leave when the first n numbers of the window do: those
\* whose number is less than n ahead of begin.
LEMMA SetInMembers ==
  ASSUME TypeOK, HeldOK, OwnedOK, NEW n \in 0 .. count, NEW e \in Elems
  PROVE  /\ e \in SetIn(n) => number[e] # NotOwned /\ Ahead(begin, number[e]) < n
         /\ number[e] # NotOwned /\ Ahead(begin, number[e]) < n => e \in SetIn(n)
<1>1. begin \in SeqNums /\ count \in Nat /\ count <= QUEUE_SIZE /\ n \in Nat /\ n <= count
  BY Sizes DEF TypeOK
<1>2. ASSUME e \in SetIn(n)
      PROVE  number[e] # NotOwned /\ Ahead(begin, number[e]) < n
  <2>1. PICK i \in 0 .. n - 1 :
          queue[idx(add(begin, i))].set /\ e = queue[idx(add(begin, i))].user
    BY <1>2 DEF SetIn, IsSet
  <2>2. i \in Nat /\ i < n /\ i \in 0 .. SeqMod - 1 /\ add(begin, i) \in SeqNums
    BY <1>1, Sizes, AddType
  <2>3. Ahead(begin, add(begin, i)) = i
    BY <1>1, <2>2, AheadAdd
  <2>4. number[e] = add(begin, i)
    BY <1>1, <2>1, <2>2, <2>3 DEF HeldOK
  <2>5. number[e] # NotOwned
    BY <2>2, <2>4, SeqNumTypes DEF NotOwned
  <2> QED
    BY <2>2, <2>3, <2>4, <2>5
<1>3. ASSUME number[e] # NotOwned, Ahead(begin, number[e]) < n
      PROVE  e \in SetIn(n)
  <2> DEFINE i == Ahead(begin, number[e])
  <2>1. number[e] \in SeqNums
    BY <1>3 DEF TypeOK
  <2>2. i \in Nat /\ i < n /\ add(begin, i) = number[e]
    BY <1>1, <1>3, <2>1, AheadType, AddAhead
  <2>3. queue[idx(number[e])].set /\ queue[idx(number[e])].user = e
    BY <1>3 DEF OwnedOK
  <2>4. i \in {j \in 0 .. n - 1 : IsSet(add(begin, j))}
    BY <1>1, <2>2, <2>3 DEF IsSet
  <2> HIDE DEF i
  <2> QED
    BY <2>2, <2>3, <2>4 DEF SetIn
<1> QED
  BY <1>2, <1>3

\* Init, and initialisation, start empty.
LEMMA InitIInv == Init => IInv
<1> SUFFICES ASSUME Init PROVE IInv
  OBVIOUS
<1>1. TypeOK
  <2>1. 0 \in SeqNums /\ 0 \in 0 .. QUEUE_SIZE
    BY Sizes DEF SeqNums
  <2> QED
    BY <2>1 DEF Init, TypeOK, EmptyRing, Slots
<1> QED
  BY <1>1 DEF Init, IInv, LastIsHeld, NothingLeftAfterFini

\* Chiaki_reorder_queue_init sets up an empty window over an empty ring.
LEMMA InitQueueIInv ==
  ASSUME IInv, NEW s \in SeqNums, chiaki_reorder_queue_init(s)
  PROVE  IInv'
<1> USE DEF chiaki_reorder_queue_init
<1>1. TypeOK'
  <2>1. 0 \in 0 .. QUEUE_SIZE
    BY Sizes
  <2> QED
    BY <2>1 DEF IInv, TypeOK, EmptyRing, Slots
<1>2. \A e \in Elems : number'[e] = NotOwned
  BY DEF IInv, NothingLeftAfterFini
<1>3. HeldOK'
  <2> SUFFICES ASSUME NEW t \in SeqNums, Ahead(begin', t) < count' PROVE FALSE
    BY DEF HeldOK
  <2> QED
    BY AheadType
<1> QED
  BY <1>1, <1>2, <1>3 DEF IInv, OwnedOK, LastIsHeld, NothingLeftAfterFini

\* Chiaki_reorder_queue_set_drop_strategy touches no element.
LEMMA SetDropStrategyIInv ==
  ASSUME IInv, NEW d \in {"BEGIN", "END"}, chiaki_reorder_queue_set_drop_strategy(d)
  PROVE  IInv'
  BY DEF chiaki_reorder_queue_set_drop_strategy, IInv, TypeOK, HeldOK, OwnedOK,
         LastIsHeld, IsSet, NothingLeftAfterFini

\* fini releases everything that is owned, because that is all in the window.
LEMMA FiniIInv ==
  ASSUME IInv, chiaki_reorder_queue_fini
  PROVE  IInv'
<1> USE DEF chiaki_reorder_queue_fini
<1>1. TypeOK /\ HeldOK /\ OwnedOK /\ count \in 0 .. count
  BY DEF IInv, TypeOK
<1>2. ASSUME NEW e \in Elems
      PROVE  number'[e] = NotOwned
  <2>1. number[e] # NotOwned => e \in SetIn(count)
    BY <1>1, SetInMembers DEF OwnedOK
  <2> QED
    BY <2>1 DEF Release
<1>3. TypeOK'
  BY <1>1 DEF TypeOK, Release
<1> QED
  BY <1>2, <1>3 DEF IInv, LastIsHeld, NothingLeftAfterFini
-----------------------------------------------------------------------------
\* Elements are in the queue under one number each: a slot of the window that
\* is not the one of s shows another number's element.
LEMMA PushInsideIInv ==
  ASSUME IInv, NEW s \in SeqNums, NEW u \in Elems,
         status = "live", number[u] = NotOwned,
         PushInside(s, u), UNCHANGED <<status, drop_strategy>>
  PROVE  IInv'
<1> USE DEF PushInside
<1>1. TypeOK /\ HeldOK /\ OwnedOK /\ LastIsHeld
  BY DEF IInv
<1>2. begin \in SeqNums /\ count \in Nat /\ count <= QUEUE_SIZE
  BY <1>1, Sizes DEF TypeOK
<1>3. Ahead(begin, s) < count
  BY <1>1, InWindowIff
<1>4. idx(s) \in Slots
  BY IdxType
<1>5. TypeOK'
  BY <1>1, <1>4 DEF TypeOK
<1>6. queue'[idx(s)] = [set |-> TRUE, user |-> u]
      /\ \A i \in Slots : i # idx(s) => queue'[i] = queue[i]
  BY <1>1, <1>4 DEF TypeOK
<1>7. number'[u] = s /\ \A e \in Elems : e # u => number'[e] = number[e]
  BY <1>1 DEF TypeOK
<1>8. ASSUME NEW t \in SeqNums, Ahead(begin, t) < count, idx(t) = idx(s)
      PROVE  t = s
  BY <1>2, <1>3, <1>8, WindowInjective
<1>9. HeldOK'
  <2> SUFFICES ASSUME NEW t \in SeqNums, Ahead(begin, t) < count, queue'[idx(t)].set
               PROVE  queue'[idx(t)].user \in Elems /\ number'[queue'[idx(t)].user] = t
    BY DEF HeldOK
  <2>1. idx(t) \in Slots
    BY IdxType
  <2>2. CASE idx(t) = idx(s)
    BY <1>6, <1>7, <1>8, <2>2
  <2>3. CASE idx(t) # idx(s)
    <3>1. queue'[idx(t)] = queue[idx(t)]
      BY <1>6, <2>1, <2>3
    <3>2. queue[idx(t)].user \in Elems /\ number[queue[idx(t)].user] = t
      BY <1>1, <3>1 DEF HeldOK
    <3>3. t # NotOwned
      BY SeqNumTypes DEF NotOwned
    <3> QED
      BY <1>7, <3>1, <3>2, <3>3
  <2> QED
    BY <2>2, <2>3
<1>10. OwnedOK'
  <2> SUFFICES ASSUME NEW e \in Elems, number'[e] # NotOwned
               PROVE  /\ Ahead(begin, number'[e]) < count
                      /\ queue'[idx(number'[e])].set /\ queue'[idx(number'[e])].user = e
    BY DEF OwnedOK
  <2>1. CASE e = u
    BY <1>3, <1>6, <1>7, <2>1
  <2>2. CASE e # u
    <3>1. /\ number'[e] = number[e] /\ number[e] \in SeqNums
          /\ Ahead(begin, number[e]) < count
          /\ queue[idx(number[e])].set /\ queue[idx(number[e])].user = e
      BY <1>1, <1>7, <2>2 DEF OwnedOK, TypeOK
    <3>2. idx(number[e]) # idx(s)
      BY <1>8, <3>1 DEF IsSet
    <3>3. idx(number[e]) \in Slots
      BY <3>1, IdxType
    <3> QED
      BY <1>6, <3>1, <3>2, <3>3
  <2> QED
    BY <2>1, <2>2
<1>11. LastIsHeld'
  <2> SUFFICES ASSUME count > 0 PROVE queue'[idx(add(begin, count - 1))].set
    BY DEF LastIsHeld, IsSet
  <2>1. queue[idx(add(begin, count - 1))].set
    BY <1>1 DEF LastIsHeld, IsSet
  <2>2. add(begin, count - 1) \in SeqNums
    BY <1>2, Sizes, AddType
  <2>3. idx(add(begin, count - 1)) \in Slots
    BY <2>2, IdxType
  <2> QED
    BY <1>6, <2>1, <2>3
<1> QED
  BY <1>5, <1>9, <1>10, <1>11 DEF IInv, NothingLeftAfterFini

\* Nothing changes when the new element is freed at once.
LEMMA PushDropIInv ==
  ASSUME IInv, NEW s \in SeqNums, status = "live",
         PushDrop(s), UNCHANGED <<status, drop_strategy>>
  PROVE  IInv'
  BY DEF PushDrop, IInv, TypeOK, HeldOK, OwnedOK, LastIsHeld, IsSet, NothingLeftAfterFini

\* The failing assert in push changes nothing in the queue.
LEMMA PushAbortIInv ==
  ASSUME IInv, NEW s \in SeqNums, PushAbort(s), UNCHANGED drop_strategy
  PROVE  IInv'
  BY DEF PushAbort, IInv, TypeOK, LastIsHeld, NothingLeftAfterFini

\* pull: every number but begin is one nearer, and the element of begin is
\* the only one that leaves.
LEMMA PullIInv ==
  ASSUME IInv, chiaki_reorder_queue_pull
  PROVE  IInv'
<1> USE DEF chiaki_reorder_queue_pull
<1>1. TypeOK /\ HeldOK /\ OwnedOK /\ LastIsHeld
  BY DEF IInv
<1>2. /\ begin \in SeqNums /\ count \in Nat /\ count <= QUEUE_SIZE /\ count > 0
      /\ begin' \in SeqNums /\ count' \in Nat
  BY <1>1, Sizes, AddType DEF TypeOK
<1> DEFINE u == queue[idx(begin)].user
<1>3. Ahead(begin, begin) = 0
  BY <1>2, AheadLinear, SeqNumTypes
<1>4. u \in Elems /\ number[u] = begin
  BY <1>1, <1>2, <1>3 DEF HeldOK, IsSet
<1>5. \A e \in Elems : number'[e] = IF e = u THEN NotOwned ELSE number[e]
  BY DEF Release
<1>6. ASSUME NEW t \in SeqNums
      PROVE  Ahead(begin', t) = IF t = begin THEN SeqMod - 1 ELSE Ahead(begin, t) - 1
  <2> DEFINE n == Ahead(begin, t)
  <2>1. n \in Nat /\ add(begin, n) = t
    BY <1>2, AheadType, AddAhead
  <2>2. add(begin, 0) = begin
    BY <1>2, SeqNumTypes, AddLinear
  <2>3. Ahead(begin', t) = IF 1 <= n THEN n - 1 ELSE n - 1 + SeqMod
    BY <1>2, Sizes, AheadShift
  <2>4. t = begin <=> n = 0
    BY <1>3, <2>1, <2>2
  <2> HIDE DEF n
  <2>5. Ahead(begin', t) = IF t = begin THEN SeqMod - 1 ELSE n - 1
    BY <2>1, <2>3, <2>4, Sizes
  <2> QED
    BY <2>5 DEF n
<1>7. TypeOK'
  <2>1. count' \in 0 .. QUEUE_SIZE
    BY <1>2, Sizes
  <2>2. number' \in [Elems -> SeqNums \cup {NotOwned}]
    BY <1>1 DEF TypeOK, Release
  <2> QED
    BY <1>1, <1>2, <2>1, <2>2 DEF TypeOK
<1>8. HeldOK'
  <2> SUFFICES ASSUME NEW t \in SeqNums, Ahead(begin', t) < count', queue[idx(t)].set
               PROVE  queue[idx(t)].user \in Elems /\ number'[queue[idx(t)].user] = t
    BY DEF HeldOK
  <2>1. t # begin
    BY <1>2, <1>6, Sizes
  <2>2. Ahead(begin, t) < count
    BY <1>2, <1>6, <2>1, AheadType
  <2>3. queue[idx(t)].user \in Elems /\ number[queue[idx(t)].user] = t
    BY <1>1, <2>2 DEF HeldOK
  <2> QED
    BY <1>4, <1>5, <2>1, <2>3
<1>9. OwnedOK'
  <2> SUFFICES ASSUME NEW e \in Elems, number'[e] # NotOwned
               PROVE  /\ Ahead(begin', number'[e]) < count'
                      /\ queue[idx(number'[e])].set /\ queue[idx(number'[e])].user = e
    BY DEF OwnedOK
  <2>1. e # u /\ number'[e] = number[e]
    BY <1>5
  <2>2. /\ number[e] \in SeqNums /\ Ahead(begin, number[e]) < count
        /\ queue[idx(number[e])].set /\ queue[idx(number[e])].user = e
    BY <1>1, <2>1 DEF OwnedOK, TypeOK
  <2>3. number[e] # begin
    BY <2>1, <2>2
  <2> QED
    BY <1>2, <1>6, <2>1, <2>2, <2>3, AheadType
<1>10. LastIsHeld'
  <2> SUFFICES ASSUME count' > 0 PROVE queue[idx(add(begin', count' - 1))].set
    BY DEF LastIsHeld, IsSet
  <2>1. 1 + (count' - 1) = count - 1 /\ count' - 1 \in Nat /\ count - 1 < SeqMod
    BY <1>2, Sizes
  <2>2. add(begin', count' - 1) = add(begin, count - 1)
    BY <1>2, <2>1, AddAdd
  <2> QED
    BY <1>1, <1>2, <2>2 DEF LastIsHeld, IsSet
<1> QED
  BY <1>7, <1>8, <1>9, <1>10 DEF IInv, NothingLeftAfterFini

\* push beyond the window.  When the end stays, the numbers of the new window
\* are the ones k .. d ahead of the old begin: those below count are as they
\* were, those from count to d - 1 lie in slots that were cleared, and d is s.
LEMMA PushBeyondIInv ==
  ASSUME IInv, NEW s \in SeqNums, NEW u \in Elems,
         status = "live", number[u] = NotOwned,
         PushBeyond(s, u), UNCHANGED <<status, drop_strategy>>
  PROVE  IInv'
<1> DEFINE d == Ahead(begin, s)
           front == DropFront(s)
           end == add(front.begin, front.count)
           passed == IF lt(end, NewEnd(s)) THEN Ahead(end, NewEnd(s)) ELSE 0
           cleared == Cleared(end, passed)
<1>1. TypeOK /\ HeldOK /\ OwnedOK
  BY DEF IInv
<1>2. begin \in SeqNums /\ count \in Nat /\ count <= QUEUE_SIZE
  BY <1>1, Sizes DEF TypeOK
<1>3. ~InWindow(s) /\ ~lt(s, begin) /\ ge(s, End)
  BY DEF PushBeyond
<1>4. count <= d /\ d <= Half /\ d \in Nat /\ d < SeqMod /\ add(begin, d) = s
  BY <1>1, <1>2, <1>3, BeyondDistances, AheadType, AddAhead
<1>5. /\ begin' = front.begin
      /\ count' = front.count + passed
      /\ queue' = [i \in Slots |->
                     IF i = idx(s) THEN [set |-> TRUE, user |-> u]
                     ELSE IF i \in cleared THEN [set |-> FALSE, user |-> queue[i].user]
                     ELSE queue[i]]
      /\ number' = [Release(SetIn(front.dropped)) EXCEPT ![u] = s]
  BY DEF PushBeyond
<1>6. idx(s) \in Slots
  BY IdxType
<1>7. queue'[idx(s)] = [set |-> TRUE, user |-> u]
  BY <1>5, <1>6
<1>8. queue' \in [Slots -> [set : BOOLEAN, user : Elems \cup {NoElem}]]
  <2> SUFFICES ASSUME NEW i \in Slots
               PROVE  (IF i = idx(s) THEN [set |-> TRUE, user |-> u]
                       ELSE IF i \in cleared THEN [set |-> FALSE, user |-> queue[i].user]
                       ELSE queue[i]) \in [set : BOOLEAN, user : Elems \cup {NoElem}]
    BY <1>5
  <2>1. queue[i] \in [set : BOOLEAN, user : Elems \cup {NoElem}]
    BY <1>1 DEF TypeOK
  <2> HIDE DEF cleared
  <2> QED
    BY <2>1
<1>9. number' \in [Elems -> SeqNums \cup {NotOwned}]
  BY <1>1, <1>5 DEF TypeOK, Release
<1>10. /\ number'[u] = s
       /\ \A e \in Elems : e # u =>
            number'[e] = IF e \in SetIn(front.dropped) THEN NotOwned ELSE number[e]
  BY <1>5 DEF Release
<1>11. s # NotOwned
  BY SeqNumTypes DEF NotOwned
<1>12. CASE /\ front = [dropped |-> count, begin |-> s, count |-> 0]
            /\ add(s, 0) = s /\ lt(s, NewEnd(s)) /\ Ahead(s, NewEnd(s)) = 1
  <2>1. begin' = s /\ count' = 1
    BY <1>5, <1>12
  <2>2. ASSUME NEW t \in SeqNums, Ahead(s, t) < 1
        PROVE  t = s
    BY <2>2, AheadType, AddAhead, <1>12
  <2>3. Ahead(s, s) = 0
    BY SeqNumTypes, AheadLinear
  <2>4. ASSUME NEW e \in Elems, e # u
        PROVE  number'[e] = NotOwned
    <3>1. count \in 0 .. count /\ front.dropped = count
      BY <1>2, <1>12
    <3>2. number[e] # NotOwned => e \in SetIn(count)
      BY <1>1, <3>1, SetInMembers DEF OwnedOK
    <3> QED
      BY <1>10, <2>4, <3>1, <3>2
  <2>5. TypeOK'
    <3>1. 1 \in 0 .. QUEUE_SIZE
      BY Sizes
    <3> QED
      BY <1>1, <1>8, <1>9, <2>1, <3>1 DEF TypeOK
  <2>6. HeldOK'
    BY <1>7, <1>10, <2>1, <2>2 DEF HeldOK
  <2>7. OwnedOK'
    BY <1>7, <1>10, <2>1, <2>3, <2>4 DEF OwnedOK
  <2>8. LastIsHeld'
    BY <1>7, <1>12, <2>1 DEF LastIsHeld, IsSet
  <2> QED
    BY <2>5, <2>6, <2>7, <2>8 DEF IInv, NothingLeftAfterFini
<1>13. ASSUME NEW k \in 0 .. count,
              front = [dropped |-> k, begin |-> add(begin, k), count |-> count - k],
              k <= d, d + 1 - k \in 1 .. QUEUE_SIZE,
              add(add(begin, k), count - k) = End,
              lt(End, NewEnd(s)), Ahead(End, NewEnd(s)) = d + 1 - count
       PROVE  IInv'
  <2>1. /\ begin' = add(begin, k) /\ end = End /\ passed = d + 1 - count
        /\ count' = (count - k) + (d + 1 - count)
    BY <1>5, <1>13
  <2>2. /\ begin' \in SeqNums /\ k \in Nat /\ k < SeqMod
        /\ count' = d + 1 - k /\ count' \in Nat /\ count' <= QUEUE_SIZE
    BY <1>2, <1>4, <1>13, <2>1, Sizes, AddType
  <2>3. ASSUME NEW t \in SeqNums
        PROVE  /\ Ahead(begin, t) \in Nat /\ Ahead(begin, t) < SeqMod
               /\ Ahead(begin', t) = IF k <= Ahead(begin, t) THEN Ahead(begin, t) - k
                                     ELSE Ahead(begin, t) - k + SeqMod
    <3>1. Ahead(begin, t) \in Nat /\ Ahead(begin, t) < SeqMod
      BY <1>2, AheadType
    <3>2. Ahead(add(begin, k), t) = IF k <= Ahead(begin, t) THEN Ahead(begin, t) - k
                                    ELSE Ahead(begin, t) - k + SeqMod
      BY <1>2, <2>2, AheadShift
    <3> QED
      BY <2>1, <3>1, <3>2
  <2>4. ASSUME NEW t \in SeqNums
        PROVE  Ahead(begin', t) < count' <=> k <= Ahead(begin, t) /\ Ahead(begin, t) <= d
    <3> DEFINE n == Ahead(begin, t)
    <3>1. n \in Nat /\ n < SeqMod
          /\ Ahead(begin', t) = IF k <= n THEN n - k ELSE n - k + SeqMod
      BY <2>3
    <3> HIDE DEF n
    <3>2. Ahead(begin', t) < count' <=> k <= n /\ n <= d
      BY <1>4, <2>2, <3>1, Sizes
    <3> QED
      BY <3>2 DEF n
  <2>5. ASSUME NEW t \in SeqNums, NEW v \in SeqNums,
               Ahead(begin', t) < count', Ahead(begin', v) < count', idx(t) = idx(v)
        PROVE  t = v
    BY <2>2, <2>5, WindowInjective
  <2>6. ASSUME NEW t \in SeqNums, count <= Ahead(begin, t), Ahead(begin, t) <= d
        PROVE  idx(t) \in cleared
    <3> DEFINE i == Ahead(begin, t) - count
    <3>1. i \in 0 .. passed - 1 /\ i \in Nat /\ count + i = Ahead(begin, t) /\ count + i < SeqMod
      BY <1>2, <1>4, <2>1, <2>3, <2>6
    <3> HIDE DEF i
    <3>2. add(End, i) = add(begin, count + i)
      BY <1>2, <3>1, AddAdd DEF End
    <3>3. add(end, i) = t
      BY <1>2, <2>1, <3>1, <3>2, AddAhead
    <3> QED
      BY <3>1, <3>3 DEF Cleared
  <2>7. ASSUME NEW t \in SeqNums, k <= Ahead(begin, t), Ahead(begin, t) < count
        PROVE  idx(t) \notin cleared /\ idx(t) # idx(s)
    <3>1. Ahead(begin', t) < count'
      BY <1>2, <1>4, <2>3, <2>4, <2>7
    <3>2. ASSUME NEW i \in 0 .. passed - 1
          PROVE  idx(add(end, i)) # idx(t)
      <4>1. i \in Nat /\ count + i \in 0 .. SeqMod - 1 /\ count + i < SeqMod
            /\ count + i \in Nat /\ count + i <= d
        BY <1>2, <1>4, <2>1, Sizes
      <4>2. add(end, i) = add(begin, count + i)
        BY <1>2, <2>1, <4>1, AddAdd DEF End
      <4>3. add(end, i) \in SeqNums /\ Ahead(begin, add(end, i)) = count + i
        BY <1>2, <4>1, <4>2, Sizes, AddType, AheadAdd
      <4>4. Ahead(begin', add(end, i)) < count'
        BY <1>2, <1>13, <2>2, <2>4, <4>1, <4>3
      <4>5. add(end, i) # t
        BY <1>2, <2>7, <4>1, <4>3
      <4> HIDE DEF end, passed
      <4> QED
        BY <2>5, <3>1, <4>3, <4>4, <4>5
    <3>3. idx(s) \in cleared
      BY <1>4, <2>6
    <3> QED
      BY <3>2, <3>3 DEF Cleared
  <2>8. \A i \in Slots : i # idx(s) /\ i \in cleared => ~queue'[i].set
    BY <1>1, <1>5 DEF TypeOK
  <2>9. \A i \in Slots : i # idx(s) /\ i \notin cleared => queue'[i] = queue[i]
    BY <1>5
  <2> HIDE DEF cleared, passed, end
  <2>10. TypeOK'
    <3>1. count' \in 0 .. QUEUE_SIZE
      BY <2>2, Sizes
    <3> QED
      BY <1>1, <1>8, <1>9, <2>2, <3>1 DEF TypeOK
  <2>11. Ahead(begin', s) < count'
    BY <1>4, <1>13, <2>4
  <2>12. ASSUME NEW e \in Elems
         PROVE  e \in SetIn(k) <=> number[e] # NotOwned /\ Ahead(begin, number[e]) < k
    BY <1>1, <1>13, SetInMembers
  <2>13. ASSUME NEW e \in Elems, e # u
         PROVE  number'[e] = IF e \in SetIn(k) THEN NotOwned ELSE number[e]
    BY <1>10, <1>13, <2>13
  <2>14. HeldOK'
    <3> SUFFICES ASSUME NEW t \in SeqNums, Ahead(begin', t) < count', queue'[idx(t)].set
                 PROVE  queue'[idx(t)].user \in Elems /\ number'[queue'[idx(t)].user] = t
      BY DEF HeldOK
    <3>1. k <= Ahead(begin, t) /\ Ahead(begin, t) <= d /\ idx(t) \in Slots
      BY <2>4, IdxType
    <3>2. CASE idx(t) = idx(s)
      BY <1>7, <1>10, <2>5, <2>11, <3>2
    <3>3. CASE idx(t) # idx(s)
      <4>1. idx(t) \notin cleared
        BY <2>8, <3>1, <3>3
      <4>2. Ahead(begin, t) < count
        BY <1>2, <2>3, <2>6, <3>1, <4>1
      <4>3. queue'[idx(t)] = queue[idx(t)]
        BY <2>9, <3>1, <3>3, <4>1
      <4> DEFINE e == queue[idx(t)].user
      <4>4. e \in Elems /\ number[e] = t
        BY <1>1, <4>2, <4>3 DEF HeldOK
      <4>5. e # u
        <5>1. t # NotOwned
          BY SeqNumTypes DEF NotOwned
        <5> QED
          BY <4>4, <5>1
      <4>6. e \notin SetIn(k)
        BY <2>2, <2>3, <2>12, <3>1, <4>4
      <4> QED
        BY <2>13, <4>3, <4>4, <4>5, <4>6
    <3> QED
      BY <3>2, <3>3
  <2>15. OwnedOK'
    <3> SUFFICES ASSUME NEW e \in Elems, number'[e] # NotOwned
                 PROVE  /\ Ahead(begin', number'[e]) < count'
                        /\ queue'[idx(number'[e])].set /\ queue'[idx(number'[e])].user = e
      BY DEF OwnedOK
    <3>1. CASE e = u
      BY <1>7, <1>10, <2>11, <3>1
    <3>2. CASE e # u
      <4>1. number'[e] = number[e] /\ e \notin SetIn(k) /\ number[e] # NotOwned
        BY <2>13, <3>2
      <4>2. /\ number[e] \in SeqNums /\ Ahead(begin, number[e]) < count
            /\ queue[idx(number[e])].set /\ queue[idx(number[e])].user = e
        BY <1>1, <4>1 DEF OwnedOK, TypeOK
      <4>3. k <= Ahead(begin, number[e])
        BY <2>2, <2>3, <2>12, <4>1, <4>2
      <4>4. Ahead(begin', number[e]) < count'
        BY <1>2, <1>4, <2>3, <2>4, <4>2, <4>3
      <4>5. queue'[idx(number[e])] = queue[idx(number[e])]
        BY <2>7, <2>9, <4>2, <4>3, IdxType
      <4> QED
        BY <4>1, <4>2, <4>4, <4>5
    <3> QED
      BY <3>1, <3>2
  <2>16. LastIsHeld'
    <3>1. count' - 1 \in Nat /\ k + (count' - 1) = d
      BY <1>4, <1>13, <2>2
    <3>2. add(begin', count' - 1) = s
      BY <1>2, <1>4, <2>1, <2>2, <3>1, AddAdd
    <3> QED
      BY <1>7, <3>2 DEF LastIsHeld, IsSet
  <2> QED
    BY <2>10, <2>14, <2>15, <2>16 DEF IInv, NothingLeftAfterFini
<1> HIDE DEF front, d
<1>14. \/ \E k \in 0 .. count :
             /\ front = [dropped |-> k, begin |-> add(begin, k), count |-> count - k]
             /\ k <= d
             /\ d + 1 - k \in 1 .. QUEUE_SIZE
             /\ add(add(begin, k), count - k) = End
             /\ lt(End, NewEnd(s))
             /\ Ahead(End, NewEnd(s)) = d + 1 - count
       \/ /\ front = [dropped |-> count, begin |-> s, count |-> 0]
          /\ add(s, 0) = s
          /\ lt(s, NewEnd(s))
          /\ Ahead(s, NewEnd(s)) = 1
  BY <1>1, <1>3, FrontOutcomes DEF front, d
<1> QED
  BY <1>12, <1>13, <1>14
-----------------------------------------------------------------------------
\* Every call keeps the inductive invariant.
LEMMA StepIInv == IInv /\ [Next]_vars => IInv'
<1> SUFFICES ASSUME IInv, [Next]_vars PROVE IInv'
  OBVIOUS
<1>1. ASSUME NEW s \in SeqNums, chiaki_reorder_queue_init(s) PROVE IInv'
  BY <1>1, InitQueueIInv
<1>2. ASSUME NEW d \in {"BEGIN", "END"}, chiaki_reorder_queue_set_drop_strategy(d)
      PROVE  IInv'
  BY <1>2, SetDropStrategyIInv
<1>3. CASE chiaki_reorder_queue_fini
  BY <1>3, FiniIInv
<1>4. ASSUME NEW s \in SeqNums, NEW u \in Elems, chiaki_reorder_queue_push(s, u)
      PROVE  IInv'
  <2>1. status = "live" /\ number[u] = NotOwned /\ UNCHANGED drop_strategy
    BY <1>4 DEF chiaki_reorder_queue_push
  <2>2. CASE PushInside(s, u) /\ UNCHANGED status
    BY <2>1, <2>2, PushInsideIInv
  <2>3. CASE PushDrop(s) /\ UNCHANGED status
    BY <2>1, <2>3, PushDropIInv
  <2>4. CASE PushBeyond(s, u) /\ UNCHANGED status
    BY <2>1, <2>4, PushBeyondIInv
  <2>5. CASE PushAbort(s)
    BY <2>1, <2>5, PushAbortIInv
  <2> QED
    BY <1>4, <2>2, <2>3, <2>4, <2>5 DEF chiaki_reorder_queue_push
<1>5. CASE chiaki_reorder_queue_pull
  BY <1>5, PullIInv
<1>6. CASE UNCHANGED vars
  BY <1>6 DEF vars, IInv, TypeOK, HeldOK, OwnedOK, LastIsHeld, IsSet, NothingLeftAfterFini
<1> QED
  BY <1>1, <1>2, <1>3, <1>4, <1>5, <1>6 DEF Next

\* The inductive invariant holds in every reachable state of the queue.
LEMMA SpecIInv == Spec => []IInv
<1>1. Init => IInv
  BY InitIInv
<1>2. IInv /\ [Next]_vars => IInv'
  BY StepIInv
<1> QED
  BY <1>1, <1>2, PTL DEF Spec

\* The ring, the window and the client's elements always have their types: no
\* push makes the window longer than the ring.
THEOREM QueueTypeOK == Spec => []TypeOK
<1>1. IInv => TypeOK
  BY DEF IInv
<1> QED
  BY <1>1, SpecIInv, PTL

\* What pull hands out was pushed with the number it is handed out under, and
\* is owned by the queue.
THEOREM QueueHeldUnderOwnNumber == Spec => []HeldUnderOwnNumber
<1>1. IInv => HeldUnderOwnNumber
  <2> SUFFICES ASSUME IInv, status = "live", NEW i \in Held
               PROVE  LET e == queue[idx(add(begin, i))].user
                      IN e \in Elems /\ number[e] = add(begin, i)
    BY DEF HeldUnderOwnNumber
  <2>1. begin \in SeqNums /\ count \in Nat /\ count <= QUEUE_SIZE
    BY Sizes DEF IInv, TypeOK
  <2>2. i \in Nat /\ i < count /\ queue[idx(add(begin, i))].set
    BY <2>1 DEF Held, IsSet
  <2>3. add(begin, i) \in SeqNums /\ Ahead(begin, add(begin, i)) = i
    BY <2>1, <2>2, Sizes, AddType, AheadAdd
  <2> QED
    BY <2>2, <2>3 DEF IInv, HeldOK
<1> QED
  BY <1>1, SpecIInv, PTL

\* No element is leaked: each the queue owns is in its window.
THEOREM QueueOwnedIsHeld == Spec => []OwnedIsHeld
<1>1. IInv => OwnedIsHeld
  <2> SUFFICES ASSUME IInv, status = "live", NEW e \in Elems, number[e] # NotOwned
               PROVE  \E i \in Held : queue[idx(add(begin, i))].user = e
    BY DEF OwnedIsHeld
  <2> DEFINE i == Ahead(begin, number[e])
  <2>1. begin \in SeqNums /\ count \in Nat /\ number[e] \in SeqNums
    BY Sizes DEF IInv, TypeOK
  <2>2. i < count /\ queue[idx(number[e])].set /\ queue[idx(number[e])].user = e
    BY DEF IInv, OwnedOK
  <2>3. i \in Nat /\ add(begin, i) = number[e]
    BY <2>1, AheadType, AddAhead
  <2> HIDE DEF i
  <2>4. i \in Held
    BY <2>1, <2>2, <2>3 DEF Held, IsSet
  <2> QED
    BY <2>2, <2>3, <2>4
<1> QED
  BY <1>1, SpecIInv, PTL

\* The window ends with a received number, and a finalised queue owns nothing.
THEOREM QueueEnds == Spec => [](LastIsHeld /\ NothingLeftAfterFini)
<1>1. IInv => LastIsHeld /\ NothingLeftAfterFini
  BY DEF IInv
<1> QED
  BY <1>1, SpecIInv, PTL

\* push takes every number that fits into the ring and is not there yet,
\* without moving the window's begin: no element in order is ever refused.
THEOREM QueueAcceptsWhatFits == Spec => AcceptsWhatFits
<1>1. ASSUME TypeOK, NEW s \in SeqNums, NEW u \in Elems,
             chiaki_reorder_queue_push(s, u),
             Ahead(begin, s) < QUEUE_SIZE,
             \A i \in Held : add(begin, i) # s
      PROVE  number'[u] = s /\ begin' = begin
  <2> DEFINE n == Ahead(begin, s)
  <2>1. /\ begin \in SeqNums /\ count \in Nat /\ count <= QUEUE_SIZE
        /\ n \in Nat /\ n < SeqMod /\ add(begin, n) = s
    BY <1>1, Sizes, AheadType, AddAhead DEF TypeOK
  <2>2. InWindow(s) <=> n < count
    BY <1>1, InWindowIff
  <2>3. ~lt(s, begin)
    BY <1>1, <2>1, Sizes, CompareByAhead
  <2>4. ~InWindow(s) => ge(s, End)
    <3> SUFFICES ASSUME count <= n PROVE ge(s, End)
      BY <2>1, <2>2
    <3>1. End \in SeqNums /\ Ahead(End, s) = n - count
      BY <2>1, Sizes, AddType, AheadShift DEF End
    <3> HIDE DEF n
    <3>2. n - count < Half
      BY <1>1, <2>1, Sizes DEF n
    <3> QED
      BY <3>1, <3>2, CompareByAhead
  <2>5. ~InWindow(s) => ~TooFar(s)
    BY <1>1, <2>1, <2>3, <2>4, Sizes, BeyondDistances
  <2>6. InWindow(s) => ~IsSet(s)
    <3> SUFFICES ASSUME n < count, IsSet(s) PROVE FALSE
      BY <2>2
    <3>1. n \in Held
      BY <2>1 DEF Held
    <3> QED
      BY <1>1, <2>1, <3>1
  <2>7. PushInside(s, u) \/ PushBeyond(s, u)
    BY <1>1, <2>3, <2>4, <2>5, <2>6
    DEF chiaki_reorder_queue_push, PushDrop, PushAbort, AssertFails
  <2>8. CASE PushInside(s, u)
    BY <1>1, <2>8 DEF PushInside, TypeOK
  <2>9. CASE PushBeyond(s, u)
    <3>1. ~InWindow(s)
      BY <2>9 DEF PushBeyond
    <3>2. DropFront(s).begin = begin
      BY <2>5, <3>1 DEF DropFront
    <3> QED
      BY <1>1, <2>9, <3>2 DEF PushBeyond, Release
  <2> QED
    BY <2>7, <2>8, <2>9
<1>2. TypeOK /\ [Next]_vars =>
        [\A s \in SeqNums, e \in Elems :
           /\ chiaki_reorder_queue_push(s, e)
           /\ Ahead(begin, s) < QUEUE_SIZE
           /\ \A i \in Held : add(begin, i) # s
           => number'[e] = s /\ begin' = begin]_vars
  BY <1>1
<1> QED
  BY <1>2, QueueTypeOK, PTL DEF Spec, AcceptsWhatFits

\* With strategy END a push keeps what fits and is new, and drops everything else; it
\* cannot abort unless the number is opposite to begin.
LEMMA PushAtEnd ==
  ASSUME IInv, status = "live", drop_strategy = "END",
         NEW s \in SeqNums, NEW u \in Elems,
         chiaki_reorder_queue_push(s, u),
         Ahead(begin, s) # Half
  PROVE  /\ status' = "live"
         /\ \/ /\ Ahead(begin, s) < QUEUE_SIZE /\ \A e \in Elems : number[e] # s
               /\ number' = [number EXCEPT ![u] = s]
            \/ /\ ~(Ahead(begin, s) < QUEUE_SIZE) \/ \E e \in Elems : number[e] = s
               /\ number' = number
<1> DEFINE n == Ahead(begin, s)
<1>1. /\ begin \in SeqNums /\ count \in Nat /\ count <= QUEUE_SIZE
      /\ n \in Nat /\ n < SeqMod /\ TypeOK /\ HeldOK /\ OwnedOK
  BY Sizes, AheadType DEF IInv, TypeOK
<1>2. /\ InWindow(s) <=> n < count
      /\ lt(s, begin) <=> Half < n
  BY <1>1, InWindowIff, CompareByAhead
<1>3. ~InWindow(s) /\ ~lt(s, begin) => ge(s, End)
  <2> SUFFICES ASSUME count <= n, n < Half PROVE ge(s, End)
    BY <1>1, <1>2, Sizes
  <2>1. begin \in SeqNums /\ count \in Nat /\ count <= SeqMod /\ count < SeqMod
    BY <1>1, Sizes
  <2>3. End \in SeqNums /\ Ahead(End, s) = n - count
    BY <2>1, AddType, AheadShift DEF End
  <2> HIDE DEF n
  <2>2. n - count < Half
    BY <1>1, Sizes
  <2> QED
    BY <2>2, <2>3, CompareByAhead
<1>4. InWindow(s) => (IsSet(s) <=> \E e \in Elems : number[e] = s)
  <2>1. ASSUME InWindow(s), IsSet(s) PROVE \E e \in Elems : number[e] = s
    BY <1>1, <1>2, <2>1 DEF HeldOK, IsSet
  <2>2. ASSUME NEW e \in Elems, number[e] = s PROVE IsSet(s)
    <3>1. number[e] # NotOwned
      BY <2>2, SeqNumTypes DEF NotOwned
    <3> QED
      BY <1>1, <2>2, <3>1 DEF OwnedOK, IsSet
  <2> QED
    BY <2>1, <2>2
<1>5. \A e \in Elems : number[e] = s => InWindow(s)
  <2> SUFFICES ASSUME NEW e \in Elems, number[e] = s PROVE InWindow(s)
    OBVIOUS
  <2>1. number[e] # NotOwned
    BY SeqNumTypes DEF NotOwned
  <2> QED
    BY <1>1, <1>2, <2>1 DEF OwnedOK
<1>6. ~InWindow(s) /\ ~lt(s, begin) => (TooFar(s) <=> QUEUE_SIZE <= n)
  BY <1>1, <1>3, BeyondDistances
<1> HIDE DEF n
<1>7. CASE PushInside(s, u) /\ UNCHANGED status
  <2>1. n < QUEUE_SIZE
    BY <1>1, <1>2, <1>7, Sizes DEF PushInside
  <2>2. \A e \in Elems : number[e] # s
    BY <1>4, <1>7 DEF PushInside
  <2> QED
    BY <1>7, <2>1, <2>2 DEF PushInside, n
<1>8. CASE PushDrop(s) /\ UNCHANGED status
  <2>1. ~(n < QUEUE_SIZE) \/ \E e \in Elems : number[e] = s
    <3>1. CASE InWindow(s) /\ IsSet(s)
      BY <1>4, <3>1
    <3>2. CASE lt(s, begin)
      BY <1>1, <1>2, <3>2, Sizes
    <3>3. CASE ~InWindow(s) /\ ~lt(s, begin) /\ TooFar(s)
      BY <1>1, <1>6, <3>3, Sizes
    <3> QED
      BY <1>8, <3>1, <3>2, <3>3 DEF PushDrop
  <2> QED
    BY <1>8, <2>1 DEF PushDrop, n
<1>9. CASE PushBeyond(s, u) /\ UNCHANGED status
  <2>1. ~InWindow(s) /\ ~lt(s, begin) /\ ~TooFar(s)
    BY <1>9 DEF PushBeyond
  <2>2. n < QUEUE_SIZE
    BY <1>1, <1>6, <2>1, Sizes
  <2>3. \A e \in Elems : number[e] # s
    BY <1>5, <2>1
  <2>4. DropFront(s).dropped = 0
    BY <2>1 DEF DropFront
  <2>5. SetIn(0) = {}
    BY DEF SetIn
  <2>6. Release({}) = number
    BY <1>1 DEF Release, TypeOK
  <2>7. number' = [number EXCEPT ![u] = s]
    BY <1>9, <2>4, <2>5, <2>6 DEF PushBeyond
  <2> QED
    BY <1>9, <2>2, <2>3, <2>7 DEF n
<1>10. CASE PushAbort(s)
  BY <1>1, <1>2, <1>3, <1>10, Sizes DEF PushAbort, AssertFails, n
<1> QED
  BY <1>7, <1>8, <1>9, <1>10 DEF chiaki_reorder_queue_push
-----------------------------------------------------------------------------
\* The elements the queue owns, each with the number it was pushed with.
OwnedPairs == {<<number[e], e>> : e \in {x \in Elems : number[x] # NotOwned}}

\* In a live queue the ring shows exactly the owned elements under their numbers,
\* so that a call can be judged by what it does to `number'.
LEMMA HeldIsOwned == IInv /\ status = "live" => HeldPairs = OwnedPairs
<1> SUFFICES ASSUME IInv, status = "live" PROVE HeldPairs = OwnedPairs
  OBVIOUS
<1>1. TypeOK /\ HeldOK /\ OwnedOK
  BY DEF IInv
<1>2. begin \in SeqNums /\ count \in Nat /\ count <= QUEUE_SIZE
  BY <1>1, Sizes DEF TypeOK
<1>3. ASSUME NEW i \in Held
      PROVE  <<add(begin, i), queue[idx(add(begin, i))].user>> \in OwnedPairs
  <2> DEFINE e == queue[idx(add(begin, i))].user
  <2>1. i \in Nat /\ i < count /\ queue[idx(add(begin, i))].set
    BY <1>2 DEF Held, IsSet
  <2>2. add(begin, i) \in SeqNums /\ Ahead(begin, add(begin, i)) = i
    BY <1>2, <2>1, Sizes, AddType, AheadAdd
  <2>3. e \in Elems /\ number[e] = add(begin, i)
    BY <1>1, <2>1, <2>2 DEF HeldOK
  <2>4. number[e] # NotOwned
    BY <2>2, <2>3, SeqNumTypes DEF NotOwned
  <2> HIDE DEF e
  <2> QED
    BY <2>3, <2>4 DEF OwnedPairs, e
<1>4. ASSUME NEW e \in Elems, number[e] # NotOwned
      PROVE  <<number[e], e>> \in HeldPairs
  <2> DEFINE i == Ahead(begin, number[e])
  <2>1. number[e] \in SeqNums
    BY <1>1, <1>4 DEF TypeOK
  <2>2. i < count /\ queue[idx(number[e])].set /\ queue[idx(number[e])].user = e
    BY <1>1, <1>4 DEF OwnedOK
  <2>3. i \in Nat /\ add(begin, i) = number[e]
    BY <1>2, <2>1, AheadType, AddAhead
  <2> HIDE DEF i
  <2>4. i \in Held
    BY <1>2, <2>2, <2>3 DEF Held, IsSet
  <2> QED
    BY <2>2, <2>3, <2>4 DEF HeldPairs
<1> QED
  BY <1>3, <1>4 DEF HeldPairs, OwnedPairs

\* What a push adds to the owned elements when those in S leave.
LEMMA OwnedAfterPush ==
  ASSUME TypeOK, NEW s \in SeqNums, NEW u \in Elems, NEW S,
         number[u] = NotOwned,
         number'[u] = s,
         \A e \in Elems : e # u => number'[e] = IF e \in S THEN NotOwned ELSE number[e]
  PROVE  OwnedPairs' = {h \in OwnedPairs : h[2] \notin S} \cup {<<s, u>>}
<1>1. s # NotOwned
  BY SeqNumTypes DEF NotOwned
<1>2. ASSUME NEW e \in Elems, number'[e] # NotOwned
      PROVE  <<number'[e], e>> \in {h \in OwnedPairs : h[2] \notin S} \cup {<<s, u>>}
  BY <1>2 DEF OwnedPairs
<1>3. ASSUME NEW e \in Elems, number[e] # NotOwned, e \notin S
      PROVE  number'[e] = number[e]
  BY <1>3
<1> QED
  BY <1>1, <1>2, <1>3 DEF OwnedPairs

\* The abstract buffer counts with the same numbers.
LEMMA SameNumbers ==
  /\ Buffer!SeqNums = SeqNums
  /\ \A a, b : Buffer!Ahead(a, b) = Ahead(a, b) /\ Buffer!add(a, b) = add(a, b)
  /\ \A s : Buffer!NextFor(s) = (s - (QUEUE_SIZE - 1)) % SeqMod
  BY DEF Buffer!SeqNums, SeqNums, Buffer!SeqMod, SeqMod, Buffer!Ahead, Ahead,
         Buffer!add, add, Buffer!NextFor

\* NextFor(s) is the begin for which s is the last number of the ring.
LEMMA NextForIs ==
  ASSUME NEW b \in SeqNums, NEW s \in SeqNums, Ahead(b, s) = QUEUE_SIZE - 1
  PROVE  Buffer!NextFor(s) = b
<1> DEFINE q == QUEUE_SIZE - 1
<1>1. /\ q \in Nat /\ q < SeqMod /\ SeqMod \in Nat \ {0}
      /\ b \in Nat /\ s \in Nat /\ b < SeqMod /\ s < SeqMod
  BY Sizes, SeqNumTypes
<1>2. q = IF b <= s THEN s - b ELSE s - b + SeqMod
  BY AheadLinear
<1> HIDE DEF q
<1>3. CASE b <= s
  <2>1. s - q = b /\ b \in 0 .. SeqMod - 1
    BY <1>1, <1>2, <1>3
  <2>2. b % SeqMod = b
    BY <1>1, <2>1, ModSmall
  <2> QED
    BY <2>1, <2>2, SameNumbers DEF q
<1>4. CASE b > s
  <2>1. s - q = b - SeqMod /\ s - q \in -SeqMod .. -1
    BY <1>1, <1>2, <1>4
  <2>2. (s - q) % SeqMod = (s - q) + SeqMod
    BY <1>1, <2>1, ModUnder
  <2> QED
    BY <1>1, <2>1, <2>2, SameNumbers DEF q
<1> QED
  BY <1>1, <1>3, <1>4

\* A push into the window, or beyond it as far as the ring reaches, stores.
LEMMA StoreStep ==
  ASSUME IInv, IInv', NEW s \in SeqNums, NEW u \in Elems,
         status = "live", status' = "live", number[u] = NotOwned,
         Ahead(begin, s) < QUEUE_SIZE,
         \A e \in Elems : number[e] # s,
         begin' = begin,
         number'[u] = s, \A e \in Elems : e # u => number'[e] = number[e]
  PROVE  Buffer!Store(s, u)
<1>1. HeldPairs = OwnedPairs
  BY HeldIsOwned
<1>2. HeldPairs' = OwnedPairs'
  <2>1. (IInv /\ status = "live" => HeldPairs = OwnedPairs)'
    BY HeldIsOwned, PTL
  <2> QED
    BY <2>1
<1>3. OwnedPairs' = OwnedPairs \cup {<<s, u>>}
  <2>1. s # NotOwned
    BY SeqNumTypes DEF NotOwned
  <2>2. ASSUME NEW e \in Elems, number'[e] # NotOwned
        PROVE  <<number'[e], e>> \in OwnedPairs \cup {<<s, u>>}
    BY <2>2 DEF OwnedPairs
  <2>3. ASSUME NEW e \in Elems, number[e] # NotOwned
        PROVE  number'[e] = number[e]
    BY <2>3
  <2> QED
    BY <2>1, <2>2, <2>3 DEF OwnedPairs
<1>4. s \notin {h[1] : h \in OwnedPairs}
  BY DEF OwnedPairs
<1> QED
  BY <1>1, <1>2, <1>3, <1>4, SameNumbers DEF Buffer!Store, Buffer!Fits, Buffer!Numbers

\* A push too far ahead for the ring, with strategy BEGIN, overtakes: the numbers
\* that no longer fit leave, and with the last of them the gap.
LEMMA OvertakeStep ==
  ASSUME IInv, IInv', NEW s \in SeqNums, NEW u \in Elems,
         number[u] = NotOwned, status = "live", UNCHANGED status,
         TooFar(s), PushBeyond(s, u)
  PROVE  Buffer!Overtake(s, u)
<1> DEFINE d == Ahead(begin, s)
           need == d + 1 - QUEUE_SIZE
           b == add(begin, need)
           front == DropFront(s)
           kept == {h \in OwnedPairs : Ahead(b, h[1]) < QUEUE_SIZE}
<1>1. TypeOK /\ HeldOK /\ OwnedOK /\ LastIsHeld
  BY DEF IInv
<1>2. begin \in SeqNums /\ count \in Nat /\ count <= QUEUE_SIZE
  BY <1>1, Sizes DEF TypeOK
<1>3. /\ ~InWindow(s) /\ ~lt(s, begin) /\ ge(s, End)
      /\ begin' = front.begin
      /\ number' = [Release(SetIn(front.dropped)) EXCEPT ![u] = s]
  BY DEF PushBeyond
<1>4. /\ d \in Nat /\ d < SeqMod /\ QUEUE_SIZE <= d /\ d <= Half
      /\ Ahead(TotalEnd, NewEnd(s)) = need
  BY <1>1, <1>2, <1>3, BeyondDistances, AheadType
<1>5. need \in Nat /\ need >= 1 /\ need <= d /\ need < SeqMod /\ need <= Half + 1 - QUEUE_SIZE
  BY <1>4, Sizes
<1>6. b \in SeqNums /\ Ahead(b, s) = QUEUE_SIZE - 1
  <2>1. b \in SeqNums
    <3> HIDE DEF need
    <3>1. need <= SeqMod
      BY <1>5, Sizes
    <3> QED
      BY <1>2, <1>5, <3>1, AddType
  <2>2. Ahead(b, s) = d - need
    BY <1>2, <1>5, AheadShift
  <2> QED
    BY <1>4, <2>1, <2>2, Sizes
<1>7. Buffer!NextFor(s) = b
  BY <1>6, NextForIs
<1>8. /\ number'[u] = s
      /\ \A e \in Elems : e # u =>
           number'[e] = IF e \in SetIn(front.dropped) THEN NotOwned ELSE number[e]
  BY <1>3 DEF Release
<1>9. ASSUME NEW e \in Elems, number[e] # NotOwned
      PROVE  /\ number[e] \in SeqNums
             /\ Ahead(begin, number[e]) \in Nat /\ Ahead(begin, number[e]) < count
             /\ Ahead(b, number[e]) < QUEUE_SIZE <=> need <= Ahead(begin, number[e])
  <2> DEFINE n == Ahead(begin, number[e])
  <2>1. number[e] \in SeqNums /\ n < count
    BY <1>1, <1>9 DEF TypeOK, OwnedOK
  <2>2. n \in Nat
    BY <1>2, <2>1, AheadType
  <2>3. Ahead(b, number[e]) = IF need <= n THEN n - need ELSE n - need + SeqMod
    BY <1>2, <1>5, <2>1, AheadShift
  <2> HIDE DEF n, need, d, b
  <2>4. Ahead(b, number[e]) < QUEUE_SIZE <=> need <= n
    BY <1>2, <1>4, <1>5, <2>1, <2>2, <2>3, Sizes
  <2> QED
    BY <2>1, <2>2, <2>4 DEF n
<1>10. /\ HeldPairs = OwnedPairs
       /\ HeldPairs' = OwnedPairs'
  <2>1. (IInv /\ status = "live" => HeldPairs = OwnedPairs)'
    BY HeldIsOwned, PTL
  <2> QED
    BY <2>1, HeldIsOwned
<1>11. {h \in HeldPairs : Buffer!Ahead(Buffer!NextFor(s), h[1]) < QUEUE_SIZE} = kept
  BY <1>7, <1>10, SameNumbers
<1>12. ~Buffer!Fits(s) /\ Buffer!Ahead(begin, s) <= Half
  BY <1>4, Sizes, SameNumbers DEF Buffer!Fits
<1>13. OwnedPairs' = {h \in OwnedPairs : h[2] \notin SetIn(front.dropped)} \cup {<<s, u>>}
  BY <1>1, <1>8, OwnedAfterPush, Zenon
<1>14. CASE need < count
  <2>1. front = [dropped |-> need, begin |-> b, count |-> count - need]
    BY <1>4, <1>14 DEF DropFront
  <2>2. begin' = b
    BY <1>3, <2>1
  <2>3. ASSUME NEW e \in Elems, number[e] # NotOwned
        PROVE  e \notin SetIn(need) <=> Ahead(b, number[e]) < QUEUE_SIZE
    <3>1. need \in 0 .. count
      BY <1>2, <1>5, <1>14
    <3>2. e \in SetIn(need) <=> Ahead(begin, number[e]) < need
      BY <1>1, <2>3, <3>1, SetInMembers
    <3> HIDE DEF need, b
    <3> QED
      BY <1>5, <1>9, <2>3, <3>2
  <2>4. {h \in OwnedPairs : h[2] \notin SetIn(need)} = kept
    BY <2>3 DEF OwnedPairs
  <2>5. OwnedPairs' = kept \cup {<<s, u>>}
    BY <1>13, <2>1, <2>4
  <2>6. kept # {}
    <3> DEFINE t == add(begin, count - 1)
               e == queue[idx(t)].user
    <3>1. count - 1 \in Nat /\ count - 1 < SeqMod /\ count > 0 /\ need <= count - 1
      BY <1>2, <1>5, <1>14, Sizes
    <3>2. t \in SeqNums /\ Ahead(begin, t) = count - 1
      BY <1>2, <3>1, Sizes, AddType, AheadAdd
    <3>3. queue[idx(t)].set
      BY <1>1, <3>1 DEF LastIsHeld, IsSet
    <3>4. e \in Elems /\ number[e] = t
      BY <1>1, <1>2, <3>1, <3>2, <3>3 DEF HeldOK
    <3>5. number[e] # NotOwned
      BY <3>2, <3>4, SeqNumTypes DEF NotOwned
    <3>6. Ahead(b, number[e]) < QUEUE_SIZE
      BY <1>9, <3>1, <3>2, <3>4, <3>5
    <3>7. <<number[e], e>> \in OwnedPairs
      BY <3>4, <3>5 DEF OwnedPairs
    <3> HIDE DEF e, t, b
    <3> QED
      BY <3>6, <3>7
  <2> HIDE DEF b, kept
  <2> QED
    BY <1>7, <1>10, <1>11, <1>12, <2>2, <2>5, <2>6 DEF Buffer!Overtake
<1>15. CASE ~(need < count)
  <2>1. front = [dropped |-> count, begin |-> s, count |-> 0]
    BY <1>4, <1>15 DEF DropFront
  <2>2. begin' = s
    BY <1>3, <2>1
  <2>3. ASSUME NEW e \in Elems, number[e] # NotOwned
        PROVE  e \in SetIn(count) /\ ~(Ahead(b, number[e]) < QUEUE_SIZE)
    <3>1. count \in 0 .. count
      BY <1>2
    <3>2. e \in SetIn(count)
      BY <1>1, <1>9, <2>3, <3>1, SetInMembers
    <3> HIDE DEF need, b
    <3> QED
      BY <1>2, <1>5, <1>9, <1>15, <2>3, <3>2
  <2>4. {h \in OwnedPairs : h[2] \notin SetIn(count)} = {} /\ kept = {}
    BY <2>3 DEF OwnedPairs
  <2>5. OwnedPairs' = kept \cup {<<s, u>>}
    BY <1>13, <2>1, <2>4
  <2> HIDE DEF b, kept
  <2> QED
    BY <1>7, <1>10, <1>11, <1>12, <2>2, <2>4, <2>5 DEF Buffer!Overtake
<1> QED
  BY <1>14, <1>15

\* pull delivers the element of begin.
LEMMA DeliverStep ==
  ASSUME IInv, IInv', chiaki_reorder_queue_pull
  PROVE  Buffer!Deliver
<1> DEFINE u == queue[idx(begin)].user
<1>1. /\ status = "live" /\ count > 0 /\ queue[idx(begin)].set
      /\ begin' = add(begin, 1)
      /\ number' = Release({u}) /\ status' = "live"
  BY DEF chiaki_reorder_queue_pull, IsSet
<1>2. TypeOK /\ HeldOK
  BY <1>1 DEF IInv
<1>3. u \in Elems /\ number[u] = begin
  <2>1. begin \in SeqNums /\ count \in Nat
    BY <1>2, Sizes DEF TypeOK
  <2>2. Ahead(begin, begin) = 0
    BY <2>1, AheadLinear, SeqNumTypes
  <2> QED
    BY <1>1, <1>2, <2>1, <2>2 DEF HeldOK
<1>4. number[u] # NotOwned
  BY <1>2, <1>3, SeqNumTypes DEF TypeOK, NotOwned
<1>5. HeldPairs = OwnedPairs /\ HeldPairs' = OwnedPairs'
  <2>1. (IInv /\ status = "live" => HeldPairs = OwnedPairs)'
    BY HeldIsOwned, PTL
  <2> QED
    BY <1>1, <2>1, HeldIsOwned
<1>6. \A e \in Elems : number'[e] = IF e = u THEN NotOwned ELSE number[e]
  BY <1>1 DEF Release
<1> HIDE DEF u
<1>7. OwnedPairs' = OwnedPairs \ {<<begin, u>>}
  <2>1. ASSUME NEW e \in Elems, number'[e] # NotOwned
        PROVE  <<number'[e], e>> \in OwnedPairs \ {<<begin, u>>}
    BY <1>6, <2>1 DEF OwnedPairs
  <2>2. ASSUME NEW e \in Elems, number[e] # NotOwned, <<number[e], e>> # <<begin, u>>
        PROVE  number'[e] = number[e]
    BY <1>3, <1>6, <2>2
  <2> QED
    BY <2>1, <2>2 DEF OwnedPairs
<1>8. <<begin, u>> \in OwnedPairs
  BY <1>3, <1>4 DEF OwnedPairs
<1> QED
  BY <1>1, <1>5, <1>7, <1>8, SameNumbers DEF Buffer!Deliver

\* Every call is a step of the buffer or changes nothing that it shows.
LEMMA StepMaps ==
  ASSUME IInv, IInv', [Next]_vars
  PROVE  [Buffer!Next]_(Buffer!vars)
<1>1. ASSUME NEW s \in SeqNums, chiaki_reorder_queue_init(s)
      PROVE  Buffer!Restart
  <2>1. begin' = s /\ count' = 0
    BY <1>1 DEF chiaki_reorder_queue_init
  <2>2. HeldPairs' = {}
    <3>1. Held' = {}
      BY <2>1 DEF Held
    <3> QED
      BY <3>1 DEF HeldPairs
  <2> QED
    BY <2>1, <2>2, SameNumbers DEF Buffer!Restart
<1>2. ASSUME UNCHANGED <<queue, begin, count>>
      PROVE  UNCHANGED Buffer!vars
  BY <1>2 DEF Buffer!vars, HeldPairs, Held, IsSet
<1>3. ASSUME NEW s \in SeqNums, NEW u \in Elems, chiaki_reorder_queue_push(s, u)
      PROVE  Buffer!Store(s, u) \/ Buffer!Overtake(s, u) \/ UNCHANGED Buffer!vars
  <2> DEFINE d == Ahead(begin, s)
  <2>1. status = "live" /\ number[u] = NotOwned
    BY <1>3 DEF chiaki_reorder_queue_push
  <2>2. TypeOK /\ OwnedOK
    BY <2>1 DEF IInv
  <2>3. begin \in SeqNums /\ count \in Nat /\ count <= QUEUE_SIZE /\ d \in Nat
    BY <2>2, Sizes, AheadType DEF TypeOK
  <2>4. CASE PushInside(s, u) /\ UNCHANGED status
    <3>1. d < QUEUE_SIZE
      BY <2>2, <2>3, <2>4, InWindowIff, Sizes DEF PushInside
    <3>2. \A e \in Elems : number[e] # s
      <4>1. s # NotOwned
        BY SeqNumTypes DEF NotOwned
      <4> QED
        BY <2>2, <2>4, <4>1 DEF PushInside, OwnedOK, IsSet
    <3>3. /\ begin' = begin /\ number'[u] = s
          /\ \A e \in Elems : e # u => number'[e] = number[e]
      BY <2>2, <2>4 DEF PushInside, TypeOK
    <3> QED
      BY <2>1, <2>4, <3>1, <3>2, <3>3, StoreStep
  <2>5. CASE PushDrop(s) \/ PushAbort(s)
    BY <1>2, <2>5 DEF PushDrop, PushAbort
  <2>6. CASE PushBeyond(s, u) /\ UNCHANGED status /\ TooFar(s)
    BY <2>1, <2>6, OvertakeStep
  <2>7. CASE PushBeyond(s, u) /\ UNCHANGED status /\ ~TooFar(s)
    <3>1. ~InWindow(s) /\ ~lt(s, begin) /\ ge(s, End)
      BY <2>7 DEF PushBeyond
    <3>2. count <= d /\ d < QUEUE_SIZE
      BY <2>2, <2>3, <2>7, <3>1, BeyondDistances, Sizes
    <3>3. \A e \in Elems : number[e] # s
      <4>1. s # NotOwned
        BY SeqNumTypes DEF NotOwned
      <4> QED
        BY <2>2, <2>3, <3>2, <4>1 DEF OwnedOK
    <3>4. DropFront(s) = [dropped |-> 0, begin |-> begin, count |-> count]
      BY <2>7 DEF DropFront
    <3>5. SetIn(0) = {}
      BY DEF SetIn
    <3>6. begin' = begin /\ number' = [Release({}) EXCEPT ![u] = s]
      <4>1. /\ begin' = DropFront(s).begin
            /\ number' = [Release(SetIn(DropFront(s).dropped)) EXCEPT ![u] = s]
        BY <2>7 DEF PushBeyond
      <4>2. DropFront(s).begin = begin /\ DropFront(s).dropped = 0
        BY <3>4
      <4> QED
        BY <3>5, <4>1, <4>2
    <3>7. number'[u] = s /\ \A e \in Elems : e # u => number'[e] = number[e]
      BY <2>2, <3>6 DEF Release, TypeOK
    <3> QED
      BY <2>1, <2>7, <3>2, <3>3, <3>6, <3>7, StoreStep
  <2> QED
    BY <1>3, <2>4, <2>5, <2>6, <2>7 DEF chiaki_reorder_queue_push
<1>4. CASE chiaki_reorder_queue_pull
  BY <1>4, DeliverStep DEF Buffer!Next
<1>5. ASSUME NEW d \in {"BEGIN", "END"}, chiaki_reorder_queue_set_drop_strategy(d)
      PROVE  UNCHANGED Buffer!vars
  BY <1>2, <1>5 DEF chiaki_reorder_queue_set_drop_strategy
<1>6. CASE chiaki_reorder_queue_fini
  BY <1>2, <1>6 DEF chiaki_reorder_queue_fini
<1>7. CASE UNCHANGED vars
  BY <1>2, <1>7 DEF vars
<1> QED
  BY <1>1, <1>3, <1>4, <1>5, <1>6, <1>7, SameNumbers DEF Next, Buffer!Next

\* The ring with its window, flags and drop strategies implements a plain buffer that
\* delivers strictly in order: every element that fits is kept, none twice, and only a
\* number too far ahead pushes earlier ones out.
THEOREM QueueImplementsBuffer == Spec => ImplementsBuffer
<1>1. Init => Buffer!Init
  <2> SUFFICES ASSUME Init PROVE Buffer!Init
    OBVIOUS
  <2>1. Held = {}
    BY DEF Init, Held
  <2> QED
    BY <2>1 DEF Init, Buffer!Init, HeldPairs
<1>2. IInv /\ IInv' /\ [Next]_vars => [Buffer!Next]_(Buffer!vars)
  BY StepMaps
<1> QED
  BY <1>1, <1>2, SpecIInv, PTL DEF Spec, ImplementsBuffer, Buffer!Spec
=============================================================================
