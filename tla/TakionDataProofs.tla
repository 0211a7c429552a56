-------------------------- MODULE TakionDataProofs --------------------------
(***************************************************************************)
(* Data messages reach the callback in order, what is acknowledged was     *)
(* delivered and A/V packets are checked, for every number of messages,    *)
(* ring size, width of the sequence numbers and number of A/V packets.     *)
(*                                                                         *)
(* The reorder queue's part is not proved again: its inductive invariant   *)
(* is instantiated from ReorderQueueProofs.                                *)
(***************************************************************************)
EXTENDS TakionData, SeqNumProofs

QP == INSTANCE ReorderQueueProofs

\* The types, but for those of the reorder queue.
Types ==
  /\ phase \in {"idle", "recheck", "postponed", "handle", "flush", "ended", "crashed"}
  /\ cur \in Datagram
  /\ ack \in BOOLEAN /\ last \in SeqNums
  /\ enable_crypt \in BOOLEAN /\ gkcrypt_remote \in BOOLEAN /\ crypt_available \in BOOLEAN
  /\ postponed \in Seq(BOOLEAN) /\ Len(postponed) <= POSTPONE_SIZE
  /\ av \in 0 .. MaxAV
  /\ delivered \in Seq(SeqNums) /\ acks \subseteq SeqNums
  /\ passed \subseteq {"checked", "unchecked"}

\* Only what the peer sends is handled or held; data_queue drops at its end.
FromPeer ==
  /\ cur.type = "data" => cur.seq_num \in Numbers
  /\ \A e \in Elems : number[e] # Q!NotOwned => number[e] \in Numbers
  /\ drop_strategy = "END"

\* The window begins behind what was delivered.
Window ==
  /\ Len(delivered) <= Messages
  /\ begin = add(First, Len(delivered))

\* Acks lie behind what was delivered ...
AcksBehind == \A n \in acks : Ahead(First, n) < Len(delivered)

\* ... and reach its end, but for what the present flush has pulled.
AckPending ==
  LET LastAcked == delivered = <<>> \/ delivered[Len(delivered)] \in acks
  IN /\ phase \in {"idle", "recheck", "postponed", "handle"} => LastAcked
     /\ phase = "flush" =>
          IF ack THEN delivered # <<>> /\ last = delivered[Len(delivered)] ELSE LastAcked

\* The inductive invariant.
IInv ==
  /\ QP!IInv /\ Types /\ FromPeer
  /\ DeliveredInOrder /\ Window /\ AcksBehind /\ AckPending
  /\ AVPacketsAreChecked
-----------------------------------------------------------------------------
\* The constants are those of a reorder queue.
LEMMA QueueConstants == QP!QueueAssumption
  BY DataAssumption DEF QP!QueueAssumption, QP!SeqMod, SeqMod

\* The instance the model uses and the one the proofs come from agree.
LEMMA SameQueueTerms ==
  /\ QP!SeqNums = SeqNums /\ Q!SeqNums = SeqNums /\ QP!NotOwned = Q!NotOwned
  /\ QP!EmptyRing = Q!EmptyRing /\ Q!NotOwned = -1
  /\ \A n, m : QP!add(n, m) = add(n, m) /\ Q!add(n, m) = add(n, m)
  /\ \A n, m : QP!Ahead(n, m) = Ahead(n, m)
  /\ \A n : QP!idx(n) = Q!idx(n)
  BY DEF QP!SeqNums, Q!SeqNums, SeqNums, QP!SeqMod, Q!SeqMod, SeqMod, QP!NotOwned, Q!NotOwned,
     QP!EmptyRing, Q!EmptyRing, QP!Slots, Q!Slots, QP!add, Q!add, add, QP!Ahead, Ahead,
     QP!idx, Q!idx

LEMMA SameTypes == QP!TypeOK <=> Q!TypeOK
  BY DEF QP!TypeOK, Q!TypeOK, QP!SeqNums, Q!SeqNums, QP!SeqMod, Q!SeqMod, QP!NotOwned,
     Q!NotOwned, QP!Slots, Q!Slots

LEMMA SamePush ==
  ASSUME NEW n, NEW e, Q!chiaki_reorder_queue_push(n, e)
  PROVE  QP!chiaki_reorder_queue_push(n, e)
  BY DEF Q!chiaki_reorder_queue_push, QP!chiaki_reorder_queue_push, Q!PushInside,
     QP!PushInside, Q!PushDrop, QP!PushDrop, Q!PushBeyond, QP!PushBeyond, Q!PushAbort,
     QP!PushAbort, Q!AssertFails, QP!AssertFails, Q!InWindow, QP!InWindow, Q!TooFar,
     QP!TooFar, Q!TotalEnd, QP!TotalEnd, Q!NewEnd, QP!NewEnd, Q!DropFront, QP!DropFront,
     Q!Cleared, QP!Cleared, Q!Release, QP!Release, Q!SetIn, QP!SetIn, Q!IsSet, QP!IsSet,
     Q!End, QP!End, Q!idx, QP!idx, Q!Slots, QP!Slots, Q!NotOwned, QP!NotOwned, Q!add,
     QP!add, Q!lt, QP!lt, Q!ge, QP!ge, Q!gt, QP!gt, Q!Ahead, QP!Ahead, Q!SeqMod, QP!SeqMod

LEMMA SamePullFini ==
  /\ Q!chiaki_reorder_queue_pull => QP!chiaki_reorder_queue_pull
  /\ Q!chiaki_reorder_queue_fini => QP!chiaki_reorder_queue_fini
  BY DEF Q!chiaki_reorder_queue_pull, QP!chiaki_reorder_queue_pull,
     Q!chiaki_reorder_queue_fini, QP!chiaki_reorder_queue_fini, Q!Release, QP!Release,
     Q!SetIn, QP!SetIn, Q!IsSet, QP!IsSet, Q!idx, QP!idx, Q!NotOwned, QP!NotOwned, Q!add,
     QP!add, Q!SeqMod, QP!SeqMod

\* The calls keep the reorder queue's invariant, and so does doing nothing.
LEMMA QueueKept ==
  ASSUME QP!IInv,
         \/ UNCHANGED queueVars
         \/ \E n \in SeqNums, e \in Elems : Q!chiaki_reorder_queue_push(n, e)
         \/ Q!chiaki_reorder_queue_pull
         \/ Q!chiaki_reorder_queue_fini
  PROVE  QP!IInv'
<1>1. QP!IInv /\ [QP!Next]_QP!vars => QP!IInv'
  BY QP!StepIInv, QueueConstants, HalfAssumption
<1>2. CASE UNCHANGED queueVars
  BY <1>1, <1>2 DEF queueVars, QP!vars
<1>3. CASE \E n \in SeqNums, e \in Elems : Q!chiaki_reorder_queue_push(n, e)
  <2>1. \E n \in SeqNums, e \in Elems : QP!chiaki_reorder_queue_push(n, e)
    BY <1>3, SamePush
  <2> QED
    BY <1>1, <2>1, SameQueueTerms DEF QP!Next
<1>4. CASE Q!chiaki_reorder_queue_pull \/ Q!chiaki_reorder_queue_fini
  BY <1>1, <1>4, SamePullFini DEF QP!Next
<1> QED
  BY <1>2, <1>3, <1>4

\* The sizes the proofs need.
LEMMA Sizes ==
  /\ First \in SeqNums /\ Messages \in Nat /\ Messages < Half /\ Half \in Nat
  /\ SeqMod \in Nat /\ SeqMod = 2 * Half /\ Half > 0
  /\ POSTPONE_SIZE \in Nat /\ MaxAV \in Nat
  /\ \A n \in Nat : n <= Messages => n \in 0 .. SeqMod - 1 /\ add(First, n) \in SeqNums
                                     /\ Ahead(First, add(First, n)) = n
<1>1. /\ First \in SeqNums /\ Messages \in Nat /\ Messages < Half /\ Half \in Nat
      /\ SeqMod \in Nat /\ SeqMod = 2 * Half /\ Half > 0
      /\ POSTPONE_SIZE \in Nat /\ MaxAV \in Nat
  BY DataAssumption, SeqNumTypes
<1>2. ASSUME NEW n \in Nat, n <= Messages
      PROVE  n \in 0 .. SeqMod - 1 /\ n <= SeqMod
  BY <1>1, <1>2
<1>3. ASSUME NEW n \in Nat, n <= Messages
      PROVE  add(First, n) \in SeqNums /\ Ahead(First, add(First, n)) = n
  BY <1>1, <1>2, <1>3, AddType, AheadAdd
<1> QED
  BY <1>1, <1>2, <1>3

\* A message of the peer is less than Messages ahead of the first.
LEMMA PeerNumbers ==
  \A n \in Numbers : n \in SeqNums /\ Ahead(First, n) \in Nat /\ Ahead(First, n) < Messages
<1> SUFFICES ASSUME NEW k \in 0 .. Messages - 1
             PROVE  add(First, k) \in SeqNums /\ Ahead(First, add(First, k)) \in Nat
                    /\ Ahead(First, add(First, k)) < Messages
  BY DEF Numbers
<1>1. k \in Nat /\ k <= Messages /\ k < Messages
  BY Sizes
<1> QED
  BY <1>1, Sizes
-----------------------------------------------------------------------------
\* A step that leaves the queue, the delivered messages and the acks alone.
LEMMA QuietStep ==
  ASSUME IInv, Types', UNCHANGED <<queueVars, delivered, acks, enable_crypt>>,
         cur'.type = "data" => cur'.seq_num \in Numbers,
         AckPending', AVPacketsAreChecked'
  PROVE  IInv'
<1>1. QP!IInv'
  BY QueueKept DEF IInv
<1>2. FromPeer'
  BY DEF IInv, FromPeer, queueVars, Q!NotOwned
<1>3. DeliveredInOrder' /\ Window' /\ AcksBehind'
  BY DEF IInv, DeliveredInOrder, Window, AcksBehind, queueVars
<1> QED
  BY <1>1, <1>2, <1>3 DEF IInv

\* The steps of the packet-process thread that do not touch the queue.
LEMMA QuietSteps ==
  ASSUME IInv,
         \/ \E n \in Numbers, d \in BOOLEAN : TakeData(n, d)
         \/ TakeShort
         \/ \E d \in BOOLEAN : TakeAV(d)
         \/ Recheck \/ FlushPostponed \/ HandleRejected \/ HandleShort \/ HandleAV
  PROVE  IInv'
<1> USE DEF IInv, cryptVars, historyVars
<1>1. ASSUME NEW n \in Numbers, NEW d \in BOOLEAN, TakeData(n, d) PROVE IInv'
  <2>5. cur' \in Datagram
    BY <1>1, PeerNumbers DEF TakeData, Datagram
  <2>6. Types'
    BY <1>1, <2>5 DEF Types, TakeData
  <2>7. AckPending' /\ AVPacketsAreChecked'
    BY <1>1 DEF AckPending, AVPacketsAreChecked, TakeData
  <2>8. UNCHANGED <<queueVars, delivered, acks, enable_crypt>>
    BY <1>1 DEF TakeData
  <2>9. cur'.type = "data" => cur'.seq_num \in Numbers
    BY <1>1 DEF FromPeer, TakeData
  <2> QED
    BY <2>6, <2>7, <2>8, <2>9, QuietStep
<1>2. CASE TakeShort
  <2>5. cur' \in Datagram
    BY <1>2, Sizes DEF TakeShort, NoDatagram, Datagram
  <2>6. Types'
    BY <1>2, <2>5 DEF Types, TakeShort
  <2>7. AckPending' /\ AVPacketsAreChecked'
    BY <1>2 DEF AckPending, AVPacketsAreChecked, TakeShort, NoDatagram
  <2>8. UNCHANGED <<queueVars, delivered, acks, enable_crypt>>
    BY <1>2 DEF TakeShort
  <2>9. cur'.type = "data" => cur'.seq_num \in Numbers
    BY <1>2 DEF FromPeer, TakeShort, NoDatagram
  <2> QED
    BY <2>6, <2>7, <2>8, <2>9, QuietStep
<1>3. ASSUME NEW d \in BOOLEAN, TakeAV(d) PROVE IInv'
  <2>5. cur' \in Datagram
    BY <1>3, Sizes DEF TakeAV, Datagram
  <2>6. Types'
    BY <1>3, <2>5, Sizes DEF Types, TakeAV
  <2>7. AckPending' /\ AVPacketsAreChecked'
    BY <1>3 DEF AckPending, AVPacketsAreChecked, TakeAV
  <2>8. UNCHANGED <<queueVars, delivered, acks, enable_crypt>>
    BY <1>3 DEF TakeAV
  <2>9. cur'.type = "data" => cur'.seq_num \in Numbers
    BY <1>3 DEF FromPeer, TakeAV
  <2> QED
    BY <2>6, <2>7, <2>8, <2>9, QuietStep
<1>4. CASE Recheck
  <2>5. crypt_available' \in BOOLEAN
    <3>1. \A a, b, c, d : (a \/ (b /\ c /\ d)) \in BOOLEAN
      OBVIOUS
    <3> QED
      BY <1>4, <3>1, Zenon DEF Recheck
  <2>6. Types'
    BY <1>4, <2>5 DEF Types, Recheck
  <2>7. AckPending' /\ AVPacketsAreChecked'
    BY <1>4 DEF AckPending, AVPacketsAreChecked, Recheck
  <2>8. UNCHANGED <<queueVars, delivered, acks, enable_crypt>>
    BY <1>4 DEF Recheck
  <2>9. cur'.type = "data" => cur'.seq_num \in Numbers
    BY <1>4 DEF FromPeer, Recheck
  <2> QED
    BY <2>6, <2>7, <2>8, <2>9, QuietStep
<1>5. CASE FlushPostponed
  <2>4. passed' \subseteq passed \cup {"checked"}
    BY <1>5 DEF FlushPostponed
  <2>5. postponed' \in Seq(BOOLEAN) /\ Len(postponed') <= POSTPONE_SIZE
    <3>1. <<>> \in Seq(BOOLEAN) /\ Len(<<>>) <= POSTPONE_SIZE
      BY Sizes
    <3> QED
      BY <1>5, <3>1 DEF Types, FlushPostponed
  <2>6. Types'
    BY <1>5, <2>4, <2>5 DEF Types, FlushPostponed
  <2>7. AckPending' /\ AVPacketsAreChecked'
    BY <1>5 DEF AckPending, AVPacketsAreChecked, FlushPostponed
  <2>8. UNCHANGED <<queueVars, delivered, acks, enable_crypt>>
    BY <1>5 DEF FlushPostponed
  <2>9. cur'.type = "data" => cur'.seq_num \in Numbers
    BY <1>5 DEF FromPeer, FlushPostponed
  <2> QED
    BY <2>6, <2>7, <2>8, <2>9, QuietStep
<1>6. CASE HandleRejected
  <2>6. Types'
    BY <1>6 DEF Types, HandleRejected
  <2>7. AckPending' /\ AVPacketsAreChecked'
    BY <1>6 DEF AckPending, AVPacketsAreChecked, HandleRejected
  <2>8. UNCHANGED <<queueVars, delivered, acks, enable_crypt>>
    BY <1>6 DEF HandleRejected
  <2>9. cur'.type = "data" => cur'.seq_num \in Numbers
    BY <1>6 DEF FromPeer, HandleRejected
  <2> QED
    BY <2>6, <2>7, <2>8, <2>9, QuietStep
<1>7. CASE HandleShort
  <2>6. Types'
    BY <1>7 DEF Types, HandleShort
  <2>7. AckPending' /\ AVPacketsAreChecked'
    BY <1>7 DEF AckPending, AVPacketsAreChecked, HandleShort
  <2>8. UNCHANGED <<queueVars, delivered, acks, enable_crypt>>
    BY <1>7 DEF HandleShort
  <2>9. cur'.type = "data" => cur'.seq_num \in Numbers
    BY <1>7 DEF FromPeer, HandleShort
  <2> QED
    BY <2>6, <2>7, <2>8, <2>9, QuietStep
<1>8. CASE HandleAV
  <2>4. passed' \subseteq {"checked", "unchecked"}
    BY <1>8 DEF Types, HandleAV
  <2>5. postponed' \in Seq(BOOLEAN) /\ Len(postponed') <= POSTPONE_SIZE
    <3>1. cur.damaged \in BOOLEAN
      BY DEF Types, Datagram
    <3>2. CASE postponed' = Append(postponed, cur.damaged) /\ ~PostponedFull
      <4> DEFINE D == BOOLEAN
                 x == cur.damaged
      <4>1. postponed \in Seq(D) /\ x \in D
        BY <3>1 DEF Types
      <4> HIDE DEF D, x
      <4>2. Append(postponed, x) \in Seq(D) /\ Len(Append(postponed, x)) = Len(postponed) + 1
            /\ Len(postponed) \in Nat
        BY <4>1
      <4> USE DEF D, x
      <4> QED
        BY <3>2, <4>2, Sizes DEF PostponedFull
    <3>3. CASE postponed' = postponed
      BY <3>3 DEF Types
    <3> QED
      BY <1>8, <3>2, <3>3 DEF HandleAV
  <2>6. Types'
    BY <1>8, <2>4, <2>5 DEF Types, HandleAV
  <2>7. AckPending' /\ AVPacketsAreChecked'
    BY <1>8 DEF AckPending, AVPacketsAreChecked, HandleAV, MustPostpone
  <2>8. UNCHANGED <<queueVars, delivered, acks, enable_crypt>>
    BY <1>8 DEF HandleAV
  <2>9. cur'.type = "data" => cur'.seq_num \in Numbers
    BY <1>8 DEF FromPeer, HandleAV
  <2> QED
    BY <2>6, <2>7, <2>8, <2>9, QuietStep
<1> QED
  BY <1>1, <1>2, <1>3, <1>4, <1>5, <1>6, <1>7, <1>8

\* takion_handle_packet_message_data: the push stores a message of the peer or drops
\* it, and leaves the window where it begins, because data_queue drops at its end.
LEMMA HandleDataKeeps ==
  ASSUME IInv, NEW e \in Elems, HandleData(e)
  PROVE  IInv'
<1> USE DEF cryptVars, historyVars
<1> DEFINE n == cur.seq_num
<1>1. n \in SeqNums /\ n \in Numbers /\ cur.type = "data" /\ phase = "handle"
  BY PeerNumbers DEF HandleData, IInv, FromPeer
<1>2. Q!chiaki_reorder_queue_push(n, e)
  BY DEF HandleData
<1>3. UNCHANGED <<cur, last, enable_crypt, gkcrypt_remote, crypt_available, postponed, av,
                  delivered, acks, passed>> /\ phase' = "flush"
  BY DEF HandleData
<1>4. ack' = FALSE
  BY Zenon DEF HandleData
<1> HIDE DEF n
<1>5. QP!IInv'
  BY <1>1, <1>2, QueueKept DEF IInv
<1>6. Types'
  <2>1. ack' \in BOOLEAN
    BY <1>4, Zenon
  <2> QED
    BY <1>3, <2>1 DEF IInv, Types
<1>7. begin' = begin /\ drop_strategy' = "END"
  BY <1>2 DEF Q!chiaki_reorder_queue_push, Q!PushInside, Q!PushDrop, Q!PushBeyond,
     Q!PushAbort, Q!DropFront, IInv, FromPeer
<1>8. \A x \in Elems : number'[x] = number[x] \/ number'[x] = n \/ number'[x] = Q!NotOwned
  <2>1. number \in [Elems -> SeqNums \cup {Q!NotOwned}]
    BY SameQueueTerms DEF IInv, QP!IInv, QP!TypeOK
  <2> QED
    BY <1>2, <2>1 DEF Q!chiaki_reorder_queue_push, Q!PushInside, Q!PushDrop, Q!PushBeyond,
       Q!PushAbort, Q!Release
<1>9. FromPeer'
  BY <1>1, <1>3, <1>7, <1>8 DEF IInv, FromPeer, Q!NotOwned
<1>10. DeliveredInOrder' /\ Window' /\ AcksBehind' /\ AVPacketsAreChecked'
  BY <1>3, <1>7 DEF IInv, DeliveredInOrder, Window, AcksBehind, AVPacketsAreChecked
<1>11. AckPending'
  BY <1>1, <1>3, <1>4 DEF IInv, AckPending
<1> QED
  BY <1>5, <1>6, <1>9, <1>10, <1>11 DEF IInv

\* What pull hands to the callback is the message behind those delivered.
LEMMA PulledIsNext ==
  ASSUME IInv, Pull
  PROVE  /\ number[queue[Q!idx(begin)].user] = begin /\ begin \in SeqNums
         /\ Len(delivered) < Messages
         /\ begin' = add(First, Len(delivered) + 1)
<1>1. /\ status = "live" /\ count > 0 /\ queue[Q!idx(begin)].set
      /\ begin' = add(begin, 1)
  BY SameQueueTerms DEF Pull, Q!chiaki_reorder_queue_pull, Q!IsSet
<1>2. QP!TypeOK /\ QP!HeldOK
  BY <1>1 DEF IInv, QP!IInv
<1>3. begin \in SeqNums
  BY <1>2, SameQueueTerms DEF QP!TypeOK
<1>4. Ahead(begin, begin) = 0
  BY <1>3, AheadLinear, SeqNumTypes
<1>5. queue[Q!idx(begin)].user \in Elems /\ number[queue[Q!idx(begin)].user] = begin
  BY <1>1, <1>2, <1>3, <1>4, SameQueueTerms DEF QP!HeldOK
<1>6. begin # Q!NotOwned
  BY <1>3, SameQueueTerms, SeqNumTypes
<1>7. begin \in Numbers
  BY <1>5, <1>6 DEF IInv, FromPeer
<1>8. Len(delivered) \in Nat /\ Len(delivered) <= Messages /\ begin = add(First, Len(delivered))
  BY DEF IInv, Types, Window
<1> DEFINE n == Len(delivered)
<1> HIDE DEF n
<1>9. n \in Nat /\ n <= Messages /\ begin = add(First, n)
  BY <1>8 DEF n
<1>10. n < Messages
  <2>1. Ahead(First, begin) = n
    BY <1>9, Sizes
  <2> QED
    BY <1>7, <2>1, PeerNumbers
<1>11. add(begin, 1) = add(First, n + 1)
  BY <1>9, <1>10, Sizes, AddAdd
<1> QED
  BY <1>1, <1>3, <1>5, <1>10, <1>11 DEF n

\* takion_flush_data_queue, one message.
LEMMA PullKeeps ==
  ASSUME IInv, Pull
  PROVE  IInv'
<1> DEFINE n == Len(delivered)
<1>1. /\ delivered' = Append(delivered, begin) /\ begin \in SeqNums
      /\ n < Messages /\ begin' = add(First, n + 1)
  BY PulledIsNext DEF Pull
<1>2. UNCHANGED <<phase, cur, enable_crypt, crypt_available, postponed, av, acks, passed>>
      /\ last' = begin /\ phase = "flush"
  BY DEF Pull
<1>3. ack' = TRUE
  BY Zenon DEF Pull
<1>4. delivered \in Seq(SeqNums) /\ n \in Nat /\ n <= Messages /\ begin = add(First, n)
  BY DEF IInv, Types, Window
<1>5. /\ delivered' \in Seq(SeqNums) /\ Len(delivered') = n + 1
      /\ \A k \in 1 .. n : delivered'[k] = delivered[k]
      /\ delivered'[n + 1] = begin
  BY <1>1, <1>4
<1>6. DOMAIN delivered = 1 .. n /\ DOMAIN delivered' = 1 .. n + 1
  BY <1>4, <1>5
<1> HIDE DEF n
<1>7. QP!IInv'
  BY QueueKept DEF IInv, Pull
<1>8. Types'
  <2>1. ack' \in BOOLEAN
    BY <1>3, Zenon
  <2>2. gkcrypt_remote' \in BOOLEAN
    <3>1. \A a, b, c : (a \/ (b /\ c)) \in BOOLEAN
      OBVIOUS
    <3> QED
      BY <3>1, Zenon DEF Pull
  <2> QED
    BY <1>1, <1>2, <1>5, <2>1, <2>2 DEF IInv, Types
<1>9. FromPeer'
  <2>1. \A x \in Elems : number'[x] = number[x] \/ number'[x] = Q!NotOwned
    BY DEF Pull, Q!chiaki_reorder_queue_pull, Q!Release
  <2>2. drop_strategy' = drop_strategy
    BY DEF Pull, Q!chiaki_reorder_queue_pull
  <2> QED
    BY <1>2, <2>1, <2>2 DEF IInv, FromPeer, Q!NotOwned
<1>10. DeliveredInOrder'
  <2> SUFFICES ASSUME NEW k \in 1 .. n + 1
               PROVE  delivered'[k] = add(First, k - 1)
    BY <1>6 DEF DeliveredInOrder
  <2>1. CASE k \in 1 .. n
    BY <1>5, <1>6, <2>1 DEF IInv, DeliveredInOrder
  <2>2. CASE k = n + 1
    BY <1>4, <1>5, <2>2
  <2> QED
    BY <1>4, <2>1, <2>2
<1>11. Window'
  BY <1>1, <1>4, <1>5, Sizes DEF Window
<1>12. AcksBehind'
  <2> SUFFICES ASSUME NEW a \in acks PROVE Ahead(First, a) < n + 1
    BY <1>2, <1>5 DEF AcksBehind
  <2>1. Ahead(First, a) < n /\ a \in SeqNums
    BY DEF IInv, Types, AcksBehind, n
  <2>2. Ahead(First, a) \in Nat
    BY <2>1, Sizes, AheadType
  <2> QED
    BY <1>4, <2>1, <2>2
<1>13. AckPending'
  <2>1. delivered' # <<>>
    BY <1>4, <1>5
  <2>2. last' = delivered'[Len(delivered')]
    BY <1>2, <1>5
  <2> QED
    BY <1>2, <1>3, <2>1, <2>2 DEF AckPending
<1>14. AVPacketsAreChecked'
  BY <1>2 DEF IInv, AVPacketsAreChecked
<1> QED
  BY <1>7, <1>8, <1>9, <1>10, <1>11, <1>12, <1>13, <1>14 DEF IInv

\* The end of takion_flush_data_queue acknowledges what it has pulled.
LEMMA FlushEndKeeps ==
  ASSUME IInv, FlushEnd
  PROVE  IInv'
<1>1. UNCHANGED <<queueVars, cur, ack, last, cryptVars, av, delivered, passed>>
      /\ phase = "flush" /\ phase' = "idle"
  BY DEF FlushEnd
<1>2. acks' = IF ack THEN acks \cup {last} ELSE acks
  BY DEF FlushEnd
<1>3. QP!IInv'
  BY <1>1, QueueKept DEF IInv
<1>4. Types'
  BY <1>1, <1>2 DEF IInv, Types, cryptVars
<1>5. FromPeer' /\ DeliveredInOrder' /\ Window' /\ AVPacketsAreChecked'
  BY <1>1 DEF IInv, FromPeer, DeliveredInOrder, Window, AVPacketsAreChecked, queueVars,
     cryptVars, Q!NotOwned
<1>6. AcksBehind'
  <2>1. ASSUME ack PROVE Ahead(First, last) < Len(delivered)
    <3>1. delivered # <<>> /\ last = delivered[Len(delivered)]
      BY <1>1, <2>1 DEF IInv, AckPending
    <3> DEFINE n == Len(delivered)
    <3>2. n \in Nat /\ n <= Messages /\ n \in DOMAIN delivered /\ n >= 1
      BY <3>1 DEF IInv, Types, Window
    <3>3. delivered[n] = add(First, n - 1)
      BY <3>2 DEF IInv, DeliveredInOrder
    <3> HIDE DEF n
    <3>4. n - 1 \in Nat /\ n - 1 <= Messages
      BY <3>2, Sizes
    <3>5. Ahead(First, add(First, n - 1)) = n - 1
      BY <3>4, Sizes
    <3> QED
      BY <3>1, <3>2, <3>3, <3>5 DEF n
  <2> QED
    BY <1>1, <1>2, <2>1 DEF IInv, AcksBehind
<1>7. AckPending'
  BY <1>1, <1>2 DEF IInv, AckPending
<1> QED
  BY <1>3, <1>4, <1>5, <1>6, <1>7 DEF IInv

\* The thread ends and data_queue is finalised.
LEMMA EndKeeps ==
  ASSUME IInv, End
  PROVE  IInv'
<1>1. UNCHANGED <<cur, ack, last, cryptVars, av, delivered, acks, passed>> /\ phase' = "ended"
  BY DEF End
<1>2. UNCHANGED <<begin, drop_strategy>>
      /\ \A x \in Elems : number'[x] = number[x] \/ number'[x] = Q!NotOwned
  BY DEF End, Q!chiaki_reorder_queue_fini, Q!Release
<1>3. QP!IInv'
  BY QueueKept DEF IInv, End
<1>4. Types'
  BY <1>1 DEF IInv, Types, cryptVars
<1>5. FromPeer' /\ DeliveredInOrder' /\ Window' /\ AcksBehind'
  BY <1>1, <1>2 DEF IInv, FromPeer, DeliveredInOrder, Window, AcksBehind, Q!NotOwned
<1>6. AckPending' /\ AVPacketsAreChecked'
  BY <1>1 DEF IInv, AckPending, AVPacketsAreChecked, cryptVars
<1> QED
  BY <1>3, <1>4, <1>5, <1>6 DEF IInv
-----------------------------------------------------------------------------
\* The initial states: an empty window at First.
LEMMA InitEstablishes == Init => IInv
<1> SUFFICES ASSUME Init PROVE IInv
  OBVIOUS
<1>1. QP!TypeOK
  <2>1. First \in SeqNums /\ 0 \in 0 .. QUEUE_SIZE
    BY DataAssumption
  <2> QED
    BY <2>1, SameQueueTerms DEF Init, QP!TypeOK, Q!EmptyRing, QP!Slots, Q!Slots
<1>2. QP!HeldOK /\ QP!OwnedOK
  <2>1. \A n \in SeqNums : ~(Ahead(First, n) < 0)
    BY Sizes, AheadType
  <2> QED
    BY <2>1, SameQueueTerms DEF Init, QP!HeldOK, QP!OwnedOK
<1>3. QP!IInv
  BY <1>1, <1>2 DEF Init, QP!IInv, QP!LastIsHeld, QP!NothingLeftAfterFini
<1>4. Types
  <2>1. cur \in Datagram
    BY Sizes DEF Init, NoDatagram, Datagram
  <2>2. /\ ack \in BOOLEAN /\ enable_crypt \in BOOLEAN /\ gkcrypt_remote \in BOOLEAN
        /\ crypt_available \in BOOLEAN
    BY Zenon DEF Init
  <2>3. postponed \in Seq(BOOLEAN) /\ Len(postponed) <= POSTPONE_SIZE
    BY Sizes DEF Init
  <2> QED
    BY <2>1, <2>2, <2>3, Sizes DEF Init, Types
<1>5. FromPeer
  BY DEF Init, FromPeer, NoDatagram
<1>6. add(First, 0) = First
  BY Sizes, AddLinear, SeqNumTypes
<1>7. DeliveredInOrder /\ Window /\ AcksBehind /\ AckPending /\ AVPacketsAreChecked
  BY <1>6, Sizes DEF Init, DeliveredInOrder, Window, AcksBehind, AckPending, AVPacketsAreChecked
<1> QED
  BY <1>3, <1>4, <1>5, <1>7 DEF IInv

\* The invariant is inductive.
THEOREM Inductive == Spec => []IInv
<1>1. IInv /\ [Next]_vars => IInv'
  <2> SUFFICES ASSUME IInv, [Next]_vars PROVE IInv'
    OBVIOUS
  <2>1. CASE Next
    BY <2>1, QuietSteps, HandleDataKeeps, PullKeeps, FlushEndKeeps, EndKeeps DEF Next, Handle
  <2>2. CASE UNCHANGED vars
    <3>1. Types' /\ AckPending' /\ AVPacketsAreChecked'
      BY <2>2 DEF IInv, Types, AckPending, AVPacketsAreChecked, vars, cryptVars, historyVars
    <3> QED
      BY <2>2, <3>1, QuietStep DEF vars, cryptVars, historyVars, IInv, FromPeer
  <2> QED
    BY <2>1, <2>2
<1> QED
  BY <1>1, InitEstablishes, PTL DEF Spec

\* The callback gets the peer's messages in order, each once and without gaps, however
\* the network repeats, reorders and damages them and wherever the numbers wrap.
THEOREM DeliveredInOrderHolds == Spec => []DeliveredInOrder
<1>1. IInv => DeliveredInOrder
  BY DEF IInv
<1> QED
  BY <1>1, Inductive, PTL

\* What was delivered is in order, an ack covers only messages that the callback has seen,
\* and what it has seen is acknowledged before the next datagram is looked at.
THEOREM DeliveryIsReliableHolds == Spec => []DeliveryIsReliable
<1>1. IInv => DeliveryIsReliable
  <2> SUFFICES ASSUME IInv PROVE DeliveryIsReliable
    OBVIOUS
  <2>1. TypeOK
    BY SameTypes DEF IInv, QP!IInv, Types, TypeOK
  <2>2. AckedWereDelivered
    <3> SUFFICES ASSUME NEW n \in acks, NEW k \in 0 .. Ahead(First, n)
                 PROVE  \E j \in DOMAIN delivered : delivered[j] = add(First, k)
      BY DEF AckedWereDelivered, Upto
    <3>1. n \in SeqNums /\ Ahead(First, n) < Len(delivered) /\ delivered \in Seq(SeqNums)
      BY DEF IInv, Types, AcksBehind
    <3>2. Ahead(First, n) \in Nat
      BY <3>1, Sizes, AheadType
    <3>3. k + 1 \in DOMAIN delivered /\ (k + 1) - 1 = k
      BY <3>1, <3>2
    <3>4. delivered[k + 1] = add(First, k)
      BY <3>3 DEF IInv, DeliveredInOrder
    <3> QED
      BY <3>3, <3>4
  <2>3. DeliveredAreAcked
    BY DEF IInv, AckPending, DeliveredAreAcked
  <2> QED
    BY <2>1, <2>2, <2>3 DEF DeliveryIsReliable, IInv
<1> QED
  BY <1>1, Inductive, PTL

\* With encryption enabled no A/V packet is passed on before its MAC was checked.
THEOREM AVPacketsAreCheckedHolds == Spec => []AVPacketsAreChecked
<1>1. IInv => AVPacketsAreChecked
  BY DEF IInv
<1> QED
  BY <1>1, Inductive, PTL
-----------------------------------------------------------------------------
(***************************************************************************)
(* The channel of MessageChannel.  What its steps tell apart and IInv does *)
(* not: the queue lives until the thread ends, nothing that can be         *)
(* delivered is left between two datagrams, and the key is there exactly   *)
(* when the message that brings it was delivered.                          *)
(***************************************************************************)
Drained ==
  phase \in {"idle", "recheck", "postponed", "handle"} =>
    \A e \in Elems : number[e] # begin

KeyIsBang == gkcrypt_remote <=> enable_crypt /\ Bang < Len(delivered)

CInv ==
  /\ phase # "ended" => status = "live"
  /\ Drained /\ KeyIsBang

\* Index tells the peer's numbers apart, and the queue's distances are those of the
\* indices.
LEMMA Indices ==
  ASSUME IInv, NEW n \in Numbers
  PROVE  /\ n \in SeqNums /\ Index(n) \in Nat /\ Index(n) < Messages
         /\ n = add(First, Index(n))
         /\ Index(n) = Len(delivered) <=> n = begin
         /\ Ahead(begin, n) < QUEUE_SIZE
              <=> Index(n) \in Len(delivered) .. Len(delivered) + QUEUE_SIZE - 1
         /\ Ahead(begin, n) # Half
<1> DEFINE L == Len(delivered)
           x == Index(n)
<1>1. n \in SeqNums /\ x \in Nat /\ x < Messages
  BY PeerNumbers DEF Index
<1>2. L \in Nat /\ L <= Messages /\ begin = add(First, L)
  BY DEF IInv, Types, Window
<1>3. n = add(First, x)
  BY <1>1, Sizes, AddAhead DEF Index
<1>4. Ahead(First, begin) = L
  BY <1>2, Sizes
<1>5. x = Ahead(First, n)
  BY DEF Index
<1>6. x = L <=> n = begin
  BY <1>2, <1>3, <1>4, <1>5
<1> HIDE DEF L, x
<1>7. Ahead(begin, n) = IF L <= x THEN x - L ELSE x - L + SeqMod
  <2>1. First \in SeqNums /\ L < SeqMod
    BY <1>2, Sizes
  <2>2. Ahead(add(First, L), n) = IF L <= x THEN x - L ELSE x - L + SeqMod
    BY <1>1, <1>2, <1>5, <2>1, AheadShift
  <2> QED
    BY <1>2, <2>2
<1>8. QUEUE_SIZE \in Nat /\ 2 * QUEUE_SIZE <= Half
  BY DataAssumption
<1>9. /\ Ahead(begin, n) < QUEUE_SIZE <=> x \in L .. L + QUEUE_SIZE - 1
      /\ Ahead(begin, n) # Half
  BY <1>1, <1>2, <1>7, <1>8, Sizes
<1> QED
  BY <1>1, <1>3, <1>6, <1>9 DEF L, x

\* A number the queue owns is the peer's, and it waits exactly if it is owned.
LEMMA WaitingIsOwned ==
  ASSUME IInv
  PROVE  /\ \A e \in Elems : number[e] # Q!NotOwned => number[e] \in Numbers
         /\ \A n \in Numbers : Index(n) \in Waiting <=> \E e \in Elems : number[e] = n
<1>1. \A e \in Elems : number[e] # Q!NotOwned => number[e] \in Numbers
  BY DEF IInv, FromPeer
<1>2. ASSUME NEW n \in Numbers
      PROVE  Index(n) \in Waiting <=> \E e \in Elems : number[e] = n
  <2>1. n # Q!NotOwned
    BY Indices, SeqNumTypes DEF Q!NotOwned
  <2>2. ASSUME NEW e \in Elems, number[e] = n PROVE Index(n) \in Waiting
    BY <2>1, <2>2 DEF Waiting
  <2>3. ASSUME NEW e \in Elems, number[e] # Q!NotOwned, Index(n) = Index(number[e])
        PROVE  number[e] = n
    BY <1>1, <2>3, Indices
  <2> QED
    BY <2>2, <2>3 DEF Waiting
<1> QED
  BY <1>1, <1>2

\* A flush ends when the number expected is not in the window, which holds all the
\* queue owns.
LEMMA FlushDrains ==
  ASSUME IInv, CInv, FlushEnd
  PROVE  \A e \in Elems : number[e] # begin
<1> SUFFICES ASSUME NEW e \in Elems, number[e] = begin PROVE FALSE
  OBVIOUS
<1>1. status = "live" /\ ~(count > 0 /\ queue[Q!idx(begin)].set)
  BY DEF FlushEnd, CInv, Q!IsSet
<1>2. QP!TypeOK /\ QP!OwnedOK
  BY <1>1 DEF IInv, QP!IInv
<1>3. begin \in SeqNums
  BY <1>2, SameQueueTerms DEF QP!TypeOK
<1>4. Ahead(begin, begin) = 0 /\ begin # Q!NotOwned
  BY <1>3, AheadLinear, SeqNumTypes DEF Q!NotOwned
<1>5. Ahead(begin, begin) < count /\ queue[Q!idx(begin)].set
  BY <1>2, <1>4, SameQueueTerms DEF QP!OwnedOK
<1> QED
  BY <1>1, <1>4, <1>5

\* A message of the peer that is pushed joins the queue if it fits and is new, and is
\* dropped otherwise; the assertion of push does not fail.
LEMMA PushOutcome ==
  ASSUME IInv, CInv, NEW e \in Elems, HandleData(e)
  PROVE  /\ cur.seq_num \in Numbers /\ status = "live" /\ status' = "live"
         /\ \/ /\ Ahead(begin, cur.seq_num) < QUEUE_SIZE
               /\ \A x \in Elems : number[x] # cur.seq_num
               /\ number' = [number EXCEPT ![e] = cur.seq_num]
            \/ /\ \/ ~(Ahead(begin, cur.seq_num) < QUEUE_SIZE)
                  \/ \E x \in Elems : number[x] = cur.seq_num
               /\ number' = number
<1> DEFINE n == cur.seq_num
<1>1. n \in Numbers /\ status = "live"
  BY DEF HandleData, IInv, CInv, FromPeer
<1>2. Q!chiaki_reorder_queue_push(n, e)
  BY DEF HandleData
<1> HIDE DEF n
<1>3. QP!chiaki_reorder_queue_push(n, e) /\ QP!IInv /\ drop_strategy = "END"
  BY <1>2, SamePush DEF IInv, FromPeer
<1>4. n \in SeqNums /\ Ahead(begin, n) # Half
  BY <1>1, Indices
<1>5. n \in QP!SeqNums /\ QP!Ahead(begin, n) # Half
  BY <1>4, SameQueueTerms
<1>6. /\ status' = "live"
      /\ \/ /\ QP!Ahead(begin, n) < QUEUE_SIZE /\ \A x \in Elems : number[x] # n
            /\ number' = [number EXCEPT ![e] = n]
         \/ /\ ~(QP!Ahead(begin, n) < QUEUE_SIZE) \/ \E x \in Elems : number[x] = n
            /\ number' = number
  BY <1>1, <1>3, <1>5, QP!PushAtEnd, QueueConstants, HalfAssumption
<1>7. QP!Ahead(begin, n) = Ahead(begin, n)
  BY SameQueueTerms
<1> QED
  BY <1>1, <1>6, <1>7 DEF n

\* Every step keeps the channel's invariant.
LEMMA StepCInv ==
  ASSUME IInv, CInv, Next
  PROVE  CInv'
<1> USE DEF CInv, cryptVars, historyVars
<1>1. CASE \/ \E n \in Numbers, d \in BOOLEAN : TakeData(n, d)
           \/ TakeShort
           \/ \E d \in BOOLEAN : TakeAV(d)
           \/ Recheck \/ FlushPostponed \/ HandleRejected \/ HandleShort \/ HandleAV
  <2>1. UNCHANGED <<queueVars, delivered, enable_crypt, gkcrypt_remote>>
    BY <1>1 DEF TakeData, TakeShort, TakeAV, Recheck, FlushPostponed, HandleRejected,
       HandleShort, HandleAV
  <2>2. /\ phase \in {"idle", "recheck", "postponed", "handle"}
        /\ phase' \in {"idle", "recheck", "postponed", "handle", "crashed"}
    BY <1>1 DEF TakeData, TakeShort, TakeAV, Recheck, FlushPostponed, HandleRejected,
       HandleShort, HandleAV
  <2> QED
    BY <2>1, <2>2 DEF Drained, KeyIsBang, queueVars
<1>2. ASSUME NEW e \in Elems, HandleData(e) PROVE CInv'
  <2>1. status' = "live"
    BY <1>2, PushOutcome
  <2>2. UNCHANGED <<delivered, enable_crypt, gkcrypt_remote>> /\ phase' = "flush"
    BY <1>2 DEF HandleData
  <2> QED
    BY <2>1, <2>2 DEF Drained, KeyIsBang
<1>3. CASE Pull
  <2>1. UNCHANGED <<phase, enable_crypt, status>> /\ phase = "flush"
    BY <1>3 DEF Pull, Q!chiaki_reorder_queue_pull
  <2>2. KeyIsBang'
    <3> DEFINE L == Len(delivered)
    <3>1. L \in Nat /\ L <= Messages /\ begin = add(First, L) /\ Ahead(First, begin) = L
      BY Sizes DEF IInv, Types, Window
    <3>2. Len(delivered') = L + 1
      <4>1. delivered \in Seq(SeqNums)
        BY DEF IInv, Types
      <4> QED
        BY <1>3, <4>1 DEF Pull
    <3>3. Bang \in Nat /\ Bang <= Messages
      BY DataAssumption, Sizes
    <3>4. Ahead(First, add(First, Bang)) = Bang
      BY <3>3, Sizes
    <3> HIDE DEF L
    <3>5. begin = add(First, Bang) <=> L = Bang
      BY <3>1, <3>4
    <3>6. gkcrypt_remote' <=> gkcrypt_remote \/ (enable_crypt /\ begin = add(First, Bang))
      BY <1>3, Zenon DEF Pull
    <3>7. gkcrypt_remote <=> enable_crypt /\ Bang < L
      BY DEF KeyIsBang, L
    <3>8. Bang < L + 1 <=> Bang < L \/ L = Bang
      BY <3>1, <3>3
    <3> QED
      BY <2>1, <3>2, <3>5, <3>6, <3>7, <3>8 DEF KeyIsBang
  <2> QED
    BY <2>1, <2>2 DEF Drained
<1>4. CASE FlushEnd
  <2>1. UNCHANGED <<queueVars, delivered, enable_crypt, gkcrypt_remote>>
        /\ phase = "flush" /\ phase' = "idle"
    BY <1>4 DEF FlushEnd
  <2> QED
    BY <1>4, <2>1, FlushDrains DEF Drained, KeyIsBang, queueVars
<1>5. CASE End
  <2>1. UNCHANGED <<delivered, enable_crypt, gkcrypt_remote>> /\ phase' = "ended"
    BY <1>5 DEF End
  <2> QED
    BY <2>1 DEF Drained, KeyIsBang
<1> QED
  BY <1>1, <1>2, <1>3, <1>4, <1>5 DEF Next, Handle
-----------------------------------------------------------------------------
\* Messages delivered in order have the indices from 0 on.
LEMMA IndicesOf ==
  ASSUME NEW d \in Seq(SeqNums), Len(d) <= Messages,
         \A k \in DOMAIN d : d[k] = add(First, k - 1)
  PROVE  [k \in DOMAIN d |-> Ahead(First, d[k])] = [k \in 1 .. Len(d) |-> k - 1]
<1>1. DOMAIN d = 1 .. Len(d) /\ Len(d) \in Nat
  OBVIOUS
<1>2. ASSUME NEW k \in 1 .. Len(d) PROVE Ahead(First, d[k]) = k - 1
  <2>1. k - 1 \in Nat /\ k - 1 <= Messages
    BY <1>1, Sizes
  <2> QED
    BY <1>1, <2>1, Sizes
<1> QED
  BY <1>1, <1>2

\* What the channel expects next is what the window begins with.
LEMMA DeliveredIs ==
  ASSUME IInv
  PROVE  /\ Delivered = [k \in 1 .. Len(delivered) |-> k - 1]
         /\ Len(delivered) \in Nat
         /\ Channel!Expected = Len(delivered)
<1> DEFINE n == Len(delivered)
           D == [k \in 1 .. n |-> k - 1]
<1>1. n \in Nat /\ n <= Messages
  BY DEF IInv, Types, Window
<1>2. Delivered = D
  BY IndicesOf DEF IInv, Types, Window, DeliveredInOrder, Delivered, Index
<1> HIDE DEF n
<1>3. D \in Seq(Nat) /\ Len(D) = n
  BY <1>1
<1> HIDE DEF D
<1>4. Channel!Expected = n
  BY <1>2, <1>3 DEF Channel!Expected
<1> QED
  BY <1>1, <1>2, <1>4 DEF n, D

\* The MAC check is that of the channel, once the key was delivered.
LEMMA KeyedIs ==
  ASSUME IInv, CInv
  PROVE  gkcrypt_remote <=> Channel!Keyed
<1>1. Channel!Expected = Len(delivered)
  BY DeliveredIs
<1> QED
  BY <1>1 DEF CInv, KeyIsBang, Channel!Keyed

\* Steps that change neither the queue nor what was delivered and acknowledged.
LEMMA SameBars ==
  ASSUME UNCHANGED <<queueVars, delivered, acks>>
  PROVE  UNCHANGED <<Waiting, Delivered, Acked, status>>
<1>1. Waiting' = Waiting
  BY DEF Waiting, queueVars, Index
<1>2. Delivered' = Delivered
  BY DEF Delivered, Index
<1>3. Acked' = Acked
  BY DEF Acked, Index
<1> QED
  BY <1>1, <1>2, <1>3 DEF queueVars

\* The thread takes a data message: it arrives.  Everything else it may take is no
\* matter of the channel.
LEMMA TakeDataMaps ==
  ASSUME IInv, CInv, NEW n \in Numbers, NEW d \in BOOLEAN, TakeData(n, d)
  PROVE  Channel!Arrive
<1>1. /\ phase = "idle" /\ phase' = "recheck"
      /\ cur' = [type |-> "data", seq_num |-> n, damaged |-> d]
      /\ UNCHANGED <<queueVars, delivered, acks, enable_crypt>>
  BY DEF TakeData, historyVars, cryptVars
<1>2. UNCHANGED <<Waiting, Delivered, Acked, status>>
  BY <1>1, SameBars
<1>3. Open /\ Open' = Open
  BY <1>1, <1>2 DEF Open, CInv
<1>4. Incoming = {}
  BY <1>1 DEF Incoming, Handling
<1>5. Incoming' = {[index |-> Index(n), damaged |-> d]}
  BY <1>1 DEF Incoming, Handling, Index
<1>6. Index(n) \in 0 .. Messages - 1
  BY Indices, Sizes
<1>7. Channel!Expected = Len(delivered) /\ Len(delivered) \in Nat
  BY DeliveredIs
<1>8. Len(delivered) \notin Waiting
  <2> SUFFICES ASSUME Len(delivered) \in Waiting PROVE FALSE
    OBVIOUS
  <2>1. PICK e \in Elems : number[e] # Q!NotOwned /\ Len(delivered) = Index(number[e])
    BY DEF Waiting
  <2>2. number[e] \in Numbers
    BY <2>1, WaitingIsOwned
  <2>3. number[e] = begin
    BY <2>1, <2>2, Indices
  <2> QED
    BY <1>1, <2>3 DEF CInv, Drained
<1>9. Len(delivered) > 0 => Len(delivered) - 1 \in Acked
  <2> SUFFICES ASSUME Len(delivered) > 0 PROVE Len(delivered) - 1 \in Acked
    OBVIOUS
  <2>1. delivered # <<>> /\ Len(delivered) \in DOMAIN delivered
    BY <1>7 DEF IInv, Types
  <2>2. delivered[Len(delivered)] \in acks
    BY <1>1, <2>1 DEF IInv, AckPending
  <2>3. delivered[Len(delivered)] = add(First, Len(delivered) - 1)
    BY <2>1 DEF IInv, DeliveredInOrder
  <2>4. Len(delivered) - 1 \in Nat /\ Len(delivered) - 1 <= Messages
    BY <1>7, Sizes DEF IInv, Window
  <2>5. Index(delivered[Len(delivered)]) = Len(delivered) - 1
    BY <2>3, <2>4, Sizes DEF Index
  <2> QED
    BY <2>2, <2>5 DEF Acked
<1> QED
  BY <1>1, <1>2, <1>3, <1>4, <1>5, <1>6, <1>7, <1>8, <1>9 DEF Channel!Arrive

\* Steps the channel does not see: other datagrams, and a message on its way.
LEMMA SilentMaps ==
  ASSUME IInv, CInv,
         \/ TakeShort \/ (\E d \in BOOLEAN : TakeAV(d))
         \/ FlushPostponed \/ HandleShort \/ HandleAV
         \/ (Recheck /\ phase' # "crashed")
         \/ (HandleRejected /\ cur.type # "data")
  PROVE  UNCHANGED Channel!vars
<1> USE DEF historyVars, cryptVars
<1>1. UNCHANGED <<queueVars, delivered, acks, enable_crypt>>
  BY DEF TakeShort, TakeAV, FlushPostponed, HandleShort, HandleAV, Recheck, HandleRejected
<1>2. phase # "crashed" /\ phase' # "crashed"
  BY DEF TakeShort, TakeAV, FlushPostponed, HandleShort, HandleAV, Recheck, HandleRejected
<1>3. Incoming' = Incoming
  <2>1. ASSUME TakeShort PROVE ~Handling /\ ~Handling'
    BY <2>1 DEF TakeShort, Handling, NoDatagram
  <2>2. ASSUME NEW d \in BOOLEAN, TakeAV(d) PROVE ~Handling /\ ~Handling'
    BY <2>2 DEF TakeAV, Handling
  <2>3. ASSUME HandleShort \/ HandleAV \/ (HandleRejected /\ cur.type # "data")
        PROVE  ~Handling /\ ~Handling'
    BY <2>3 DEF HandleShort, HandleAV, HandleRejected, Handling
  <2>4. ASSUME FlushPostponed \/ (Recheck /\ phase' # "crashed")
        PROVE  (Handling' <=> Handling) /\ cur' = cur
    BY <2>4 DEF FlushPostponed, Recheck, Handling
  <2> QED
    BY <2>1, <2>2, <2>3, <2>4 DEF Incoming, Index
<1>4. UNCHANGED <<Waiting, Delivered, Acked, status>>
  BY <1>1, SameBars
<1>5. Open' = Open
  BY <1>2, <1>4 DEF Open
<1> QED
  BY <1>1, <1>3, <1>4, <1>5 DEF Channel!vars

\* The message that is being handled, as the channel sees it.
LEMMA IncomingIs ==
  ASSUME IInv, CInv, phase = "handle", cur.type = "data"
  PROVE  LET m == [index |-> Index(cur.seq_num), damaged |-> cur.damaged]
         IN /\ Incoming = {m}
            /\ Channel!Acceptable(m)
                 <=> /\ ~MacFails
                     /\ Ahead(begin, cur.seq_num) < QUEUE_SIZE
                     /\ \A e \in Elems : number[e] # cur.seq_num
<1> DEFINE n == cur.seq_num
           m == [index |-> Index(n), damaged |-> cur.damaged]
<1>1. n \in Numbers
  BY DEF IInv, FromPeer
<1>2. Incoming = {m}
  BY DEF Incoming, Handling
<1>3. m.index = Index(n) /\ m.damaged = cur.damaged
  OBVIOUS
<1> HIDE DEF m
<1>4. Channel!Expected = Len(delivered)
  BY DeliveredIs
<1>5. (Channel!Keyed /\ m.damaged) <=> MacFails
  BY <1>3, KeyedIs, Zenon DEF MacFails
<1>6. m.index \in Channel!Expected .. Channel!Expected + QUEUE_SIZE - 1
        <=> Ahead(begin, n) < QUEUE_SIZE
  BY <1>1, <1>3, <1>4, Indices
<1>7. m.index \notin Waiting <=> \A e \in Elems : number[e] # n
  BY <1>1, <1>3, WaitingIsOwned
<1>8. Channel!Acceptable(m)
        <=> ~MacFails /\ Ahead(begin, n) < QUEUE_SIZE /\ \A e \in Elems : number[e] # n
  BY <1>5, <1>6, <1>7 DEF Channel!Acceptable
<1> QED
  BY <1>2, <1>8 DEF m

\* A message whose MAC is wrong is discarded.
LEMMA RejectedMaps ==
  ASSUME IInv, CInv, HandleRejected, cur.type = "data"
  PROVE  Channel!Discard
<1> DEFINE m == [index |-> Index(cur.seq_num), damaged |-> cur.damaged]
<1>1. /\ phase = "handle" /\ phase' = "idle" /\ MacFails
      /\ UNCHANGED <<queueVars, delivered, acks, enable_crypt>>
  BY DEF HandleRejected, historyVars, cryptVars
<1>2. Incoming = {m} /\ ~Channel!Acceptable(m)
  BY <1>1, IncomingIs
<1>3. Incoming' = {}
  BY <1>1 DEF Incoming, Handling
<1>4. UNCHANGED <<Waiting, Delivered, Acked, status>>
  BY <1>1, SameBars
<1>5. Open /\ Open' = Open
  BY <1>1, <1>4 DEF Open, CInv
<1> HIDE DEF m
<1> QED
  BY <1>1, <1>2, <1>3, <1>4, <1>5 DEF Channel!Discard

\* data_queue keeps the message exactly if the channel does.
LEMMA HandleDataMaps ==
  ASSUME IInv, CInv, NEW e \in Elems, HandleData(e)
  PROVE  Channel!Keep \/ Channel!Discard
<1> DEFINE n == cur.seq_num
           m == [index |-> Index(n), damaged |-> cur.damaged]
<1>1. /\ phase = "handle" /\ phase' = "flush" /\ ~MacFails /\ cur.type = "data"
      /\ UNCHANGED <<delivered, acks, enable_crypt>>
  BY DEF HandleData, historyVars, cryptVars
<1>2. /\ Incoming = {m}
      /\ Channel!Acceptable(m) <=> Ahead(begin, n) < QUEUE_SIZE /\ \A x \in Elems : number[x] # n
  BY <1>1, IncomingIs
<1>3. m.index = Index(n)
  OBVIOUS
<1> HIDE DEF m
<1>4. Incoming' = {}
  BY <1>1 DEF Incoming, Handling
<1>5. Delivered' = Delivered /\ Acked' = Acked
  BY <1>1 DEF Delivered, Acked, Index
<1>6. n \in Numbers /\ status = "live" /\ status' = "live"
  BY PushOutcome
<1>7. Open = TRUE /\ Open' = TRUE
  BY <1>1, <1>6 DEF Open
<1>8. CASE Ahead(begin, n) < QUEUE_SIZE /\ \A x \in Elems : number[x] # n
  <2>1. number' = [number EXCEPT ![e] = n]
    BY <1>8, PushOutcome
  <2>2. number[e] = Q!NotOwned /\ n # Q!NotOwned
    <3>1. number[e] = Q!NotOwned
      BY DEF HandleData, Q!chiaki_reorder_queue_push
    <3>2. n \in SeqNums
      BY <1>6, Indices
    <3> HIDE DEF n
    <3>3. n # Q!NotOwned
      BY <3>2, SeqNumTypes DEF Q!NotOwned
    <3> QED
      BY <3>1, <3>3
  <2>3. DOMAIN number = Elems
    BY SameTypes DEF IInv, QP!IInv, Q!TypeOK
  <2>4. \A x \in Elems : number'[x] = IF x = e THEN n ELSE number[x]
    BY <2>1, <2>3
  <2>5. Waiting' = Waiting \cup {Index(n)}
    <3>1. ASSUME NEW i \in Waiting' PROVE i \in Waiting \cup {Index(n)}
      <4>1. PICK x \in Elems : number'[x] # Q!NotOwned /\ i = Index(number'[x])
        BY <3>1 DEF Waiting, Index
      <4> QED
        BY <2>4, <4>1 DEF Waiting
    <3>2. ASSUME NEW i \in Waiting PROVE i \in Waiting'
      <4>1. PICK x \in Elems : number[x] # Q!NotOwned /\ i = Index(number[x])
        BY <3>2 DEF Waiting
      <4> QED
        BY <2>2, <2>4, <4>1 DEF Waiting, Index
    <3>3. Index(n) \in Waiting'
      BY <2>2, <2>4 DEF Waiting, Index
    <3> QED
      BY <3>1, <3>2, <3>3
  <2>6. Channel!Keep
    BY <1>1, <1>2, <1>3, <1>4, <1>5, <1>7, <1>8, <2>5 DEF Channel!Keep
  <2> QED
    BY <2>6
<1>9. CASE ~(Ahead(begin, n) < QUEUE_SIZE /\ \A x \in Elems : number[x] # n)
  <2>1. number' = number
    BY <1>9, PushOutcome
  <2>2. Waiting' = Waiting
    BY <2>1 DEF Waiting, Index
  <2>3. Channel!Discard
    BY <1>1, <1>2, <1>4, <1>5, <1>7, <1>9, <2>2 DEF Channel!Discard
  <2> QED
    BY <2>3
<1> QED
  BY <1>8, <1>9

\* The callback gets the message that the channel expects.
LEMMA PullMaps ==
  ASSUME IInv, CInv, IInv', Pull
  PROVE  Channel!Deliver
<1> DEFINE n == Len(delivered)
           x == queue[Q!idx(begin)].user
<1>1. /\ phase = "flush" /\ phase' = phase /\ status = "live" /\ status' = status
      /\ count > 0 /\ queue[Q!idx(begin)].set
      /\ UNCHANGED <<acks, enable_crypt, cur>>
  BY DEF Pull, Q!chiaki_reorder_queue_pull, Q!IsSet
<1>2. QP!TypeOK /\ QP!HeldOK
  BY <1>1 DEF IInv, QP!IInv
<1>3. begin \in SeqNums /\ number[x] = begin
  BY PulledIsNext
<1>4. x \in Elems
  <2>1. Ahead(begin, begin) = 0
    BY <1>3, AheadLinear, SeqNumTypes
  <2> QED
    BY <1>1, <1>2, <1>3, <2>1, SameQueueTerms DEF QP!HeldOK
<1>5. begin # Q!NotOwned
  BY <1>3, SeqNumTypes DEF Q!NotOwned
<1>6. begin \in Numbers
  BY <1>3, <1>4, <1>5, WaitingIsOwned
<1>7. Index(begin) = n
  BY <1>6, Indices
<1>8. n \in Waiting
  BY <1>3, <1>4, <1>5, <1>7 DEF Waiting
<1>9. \A e \in Elems : number'[e] = IF e = x THEN Q!NotOwned ELSE number[e]
  BY DEF Pull, Q!chiaki_reorder_queue_pull, Q!Release
<1>10. \A e \in Elems : number[e] = begin => e = x
  <2> SUFFICES ASSUME NEW e \in Elems, number[e] = begin PROVE e = x
    OBVIOUS
  <2>1. QP!OwnedOK
    BY <1>1 DEF IInv, QP!IInv
  <2> QED
    BY <1>5, <2>1, SameQueueTerms DEF QP!OwnedOK
<1>11. n \in Nat /\ Delivered = [k \in 1 .. n |-> k - 1] /\ Channel!Expected = n
  BY DeliveredIs
<1>12. Delivered' = Append(Delivered, n)
  <2>1. Delivered' = [k \in 1 .. Len(delivered') |-> k - 1]
    BY IndicesOf DEF IInv, Types, Window, DeliveredInOrder, Delivered, Index
  <2>2. Len(delivered') = n + 1
    BY DEF Pull, IInv, Types
  <2> HIDE DEF n
  <2>3. Append([k \in 1 .. n |-> k - 1], n) = [k \in 1 .. n + 1 |-> k - 1]
    BY <1>11
  <2> QED
    BY <1>11, <2>1, <2>2, <2>3
<1> HIDE DEF n, x
<1>13. Waiting' = Waiting \ {n}
  <2>1. ASSUME NEW i \in Waiting' PROVE i \in Waiting /\ i # n
    <3>1. PICK e \in Elems : number'[e] # Q!NotOwned /\ i = Index(number'[e])
      BY <2>1 DEF Waiting, Index
    <3>2. e # x /\ number[e] # Q!NotOwned /\ i = Index(number[e])
      BY <1>9, <3>1
    <3>3. number[e] \in Numbers /\ number[e] # begin
      BY <1>10, <3>2, WaitingIsOwned
    <3>4. i # n
      BY <3>2, <3>3, Indices DEF n
    <3> QED
      BY <3>2, <3>4 DEF Waiting
  <2>2. ASSUME NEW i \in Waiting, i # n PROVE i \in Waiting'
    <3>1. PICK e \in Elems : number[e] # Q!NotOwned /\ i = Index(number[e])
      BY <2>2 DEF Waiting
    <3>2. e # x
      BY <1>3, <1>7, <2>2, <3>1
    <3> QED
      BY <1>9, <3>1, <3>2 DEF Waiting, Index
  <2> QED
    BY <2>1, <2>2
<1>14. Open /\ Open' = Open
  BY <1>1 DEF Open
<1>15. Incoming = {} /\ Incoming' = {}
  BY <1>1 DEF Incoming, Handling
<1>16. Acked' = Acked
  BY <1>1 DEF Acked, Index
<1> QED
  BY <1>1, <1>8, <1>11, <1>12, <1>13, <1>14, <1>15, <1>16 DEF Channel!Deliver

\* A flush that has delivered something acknowledges all of it.
LEMMA FlushEndMaps ==
  ASSUME IInv, CInv, FlushEnd
  PROVE  Channel!Acknowledge \/ UNCHANGED Channel!vars
<1> DEFINE n == Len(delivered)
<1>1. /\ phase = "flush" /\ phase' = "idle"
      /\ UNCHANGED <<queueVars, delivered, enable_crypt>>
      /\ acks' = IF ack THEN acks \cup {last} ELSE acks
  BY DEF FlushEnd, cryptVars
<1>2. UNCHANGED <<Waiting, Delivered, status>>
  BY <1>1 DEF Waiting, Delivered, Index, queueVars
<1>3. Open /\ Open' = Open
  BY <1>1, <1>2 DEF Open, CInv
<1>4. Incoming = {} /\ Incoming' = {}
  BY <1>1 DEF Incoming, Handling
<1>5. n \in Nat /\ n <= Messages /\ Channel!Expected = n
  BY DeliveredIs DEF IInv, Window
<1>6. CASE ~ack
  <2>1. Acked' = Acked
    BY <1>1, <1>6 DEF Acked, Index
  <2> QED
    BY <1>1, <1>2, <1>3, <1>4, <2>1 DEF Channel!vars
<1>7. CASE ack
  <2>1. delivered # <<>> /\ last = delivered[n] /\ n > 0 /\ n \in DOMAIN delivered
    BY <1>1, <1>7 DEF IInv, AckPending, Types
  <2>2. last = add(First, n - 1)
    BY <2>1 DEF IInv, DeliveredInOrder
  <2> HIDE DEF n
  <2>3. Index(last) = n - 1
    <3>1. n - 1 \in Nat /\ n - 1 <= Messages
      BY <1>5, <2>1, Sizes
    <3> QED
      BY <2>2, <3>1, Sizes DEF Index
  <2>4. Acked' = Acked \cup {n - 1}
    BY <1>1, <1>7, <2>3 DEF Acked, Index
  <2>5. n \notin Waiting
    <3> SUFFICES ASSUME NEW e \in Elems, number[e] # Q!NotOwned, n = Index(number[e])
                 PROVE  FALSE
      BY DEF Waiting
    <3>1. number[e] \in Numbers
      BY WaitingIsOwned
    <3>2. number[e] = begin
      BY <3>1, Indices DEF n
    <3> QED
      BY <3>2, FlushDrains
  <2>6. Channel!Acknowledge
    BY <1>1, <1>2, <1>3, <1>4, <1>5, <2>1, <2>4, <2>5 DEF Channel!Acknowledge
  <2> QED
    BY <2>6
<1> QED
  BY <1>6, <1>7

\* Finalising the queue releases what waits.
LEMMA EndMaps ==
  ASSUME IInv, CInv, IInv', End
  PROVE  Channel!Close
<1>1. /\ phase = "idle" /\ phase' = "ended" /\ status = "live" /\ status' = "none"
      /\ UNCHANGED <<delivered, acks, enable_crypt>>
  BY DEF End, Q!chiaki_reorder_queue_fini, cryptVars
<1>2. \A e \in Elems : number'[e] = Q!NotOwned
  BY <1>1, SameQueueTerms DEF IInv, QP!IInv, QP!NothingLeftAfterFini
<1>3. Waiting' = {}
  BY <1>2 DEF Waiting
<1>4. Delivered' = Delivered /\ Acked' = Acked
  BY <1>1 DEF Delivered, Acked, Index
<1>5. Incoming = {} /\ Incoming' = {}
  BY <1>1 DEF Incoming, Handling
<1>6. Open /\ Open' = FALSE
  BY <1>1 DEF Open
<1> QED
  BY <1>1, <1>3, <1>4, <1>5, <1>6 DEF Channel!Close

\* The re-check crashes only when the key has come and a message waits.
LEMMA CrashMaps ==
  ASSUME IInv, CInv, Recheck, phase' = "crashed"
  PROVE  Channel!Crash
<1>1. /\ phase = "recheck" /\ gkcrypt_remote /\ Q!Held # {}
      /\ UNCHANGED <<queueVars, delivered, acks, enable_crypt>>
  BY DEF Recheck, historyVars
<1>2. status = "live" /\ QP!TypeOK /\ QP!HeldOK
  BY <1>1 DEF CInv, IInv, QP!IInv
<1>3. PICK i \in 0 .. count - 1 : queue[Q!idx(add(begin, i))].set
  BY <1>1, SameQueueTerms DEF Q!Held, Q!IsSet
<1>4. begin \in SeqNums /\ i \in Nat /\ i < SeqMod /\ i <= SeqMod /\ i < count
  BY <1>2, <1>3, SameQueueTerms, DataAssumption, Sizes DEF QP!TypeOK
<1>5. add(begin, i) \in SeqNums /\ Ahead(begin, add(begin, i)) = i
  <2>1. i \in 0 .. SeqMod - 1 /\ SeqMod \in Nat
    BY <1>4, Sizes
  <2> QED
    BY <1>4, <2>1, AddType, AheadAdd
<1> DEFINE e == queue[Q!idx(add(begin, i))].user
<1>6. e \in Elems /\ number[e] = add(begin, i)
  BY <1>2, <1>3, <1>4, <1>5, SameQueueTerms DEF QP!HeldOK
<1>7. number[e] # Q!NotOwned
  BY <1>5, <1>6, SeqNumTypes DEF Q!NotOwned
<1>8. Waiting # {}
  BY <1>6, <1>7 DEF Waiting
<1>9. UNCHANGED <<Waiting, Delivered, Acked, status>>
  BY <1>1, SameBars
<1>10. Open /\ Open' = FALSE
  BY <1>1, <1>2 DEF Open
<1>11. Incoming' = {}
  BY DEF Incoming, Handling
<1>12. Channel!Keyed
  BY <1>1, KeyedIs
<1> QED
  BY <1>1, <1>8, <1>9, <1>10, <1>11, <1>12 DEF Channel!Crash

\* Every step of the thread is a step of the channel, or none it can see.
LEMMA StepIsChannel ==
  ASSUME IInv, CInv, IInv', [Next]_vars
  PROVE  [Channel!Next]_(Channel!vars)
<1>1. ASSUME NEW n \in Numbers, NEW d \in BOOLEAN, TakeData(n, d) PROVE Channel!Next
  BY <1>1, TakeDataMaps DEF Channel!Next
<1>2. CASE Recheck
  BY <1>2, SilentMaps, CrashMaps DEF Channel!Next
<1>3. CASE HandleRejected
  BY <1>3, SilentMaps, RejectedMaps DEF Channel!Next
<1>4. ASSUME NEW e \in Elems, HandleData(e) PROVE Channel!Next
  BY <1>4, HandleDataMaps DEF Channel!Next
<1>5. CASE Pull \/ FlushEnd \/ End
  BY <1>5, PullMaps, FlushEndMaps, EndMaps DEF Channel!Next
<1>6. CASE UNCHANGED vars
  <2>1. UNCHANGED <<queueVars, delivered, acks, enable_crypt, phase, cur>>
    BY <1>6 DEF vars, historyVars, cryptVars
  <2>2. UNCHANGED <<Waiting, Delivered, Acked, status>>
    BY <2>1, SameBars
  <2>3. Open' = Open /\ Incoming' = Incoming
    BY <2>1, <2>2 DEF Open, Incoming, Handling, Index
  <2> QED
    BY <2>1, <2>2, <2>3 DEF Channel!vars
<1>7. CASE TakeShort \/ (\E d \in BOOLEAN : TakeAV(d)) \/ FlushPostponed \/ HandleShort \/ HandleAV
  BY <1>7, SilentMaps
<1> QED
  BY <1>1, <1>2, <1>3, <1>4, <1>5, <1>6, <1>7 DEF Next, Handle

\* The initial states are those of the channel, and of its invariant.
LEMMA InitIsChannel == Init => Channel!Init /\ CInv
<1> SUFFICES ASSUME Init PROVE Channel!Init /\ CInv
  OBVIOUS
<1>1. \A e \in Elems : number[e] = Q!NotOwned
  BY DEF Init
<1>2. Waiting = {} /\ Acked = {} /\ Incoming = {} /\ Open = TRUE
  BY <1>1 DEF Init, Waiting, Acked, Incoming, Handling, Open
<1>3. Delivered = <<>>
  BY DEF Init, Delivered
<1>4. enable_crypt \in BOOLEAN /\ gkcrypt_remote = FALSE /\ delivered = <<>> /\ status = "live"
  BY Zenon DEF Init
<1>5. KeyIsBang
  <2>1. Len(delivered) = 0 /\ ~(Bang < 0)
    BY <1>4, DataAssumption, Sizes
  <2> QED
    BY <1>4, <2>1 DEF KeyIsBang
<1>6. Drained
  <2>1. begin \in Nat
    BY Sizes, SeqNumTypes DEF Init
  <2> QED
    BY <1>1, <2>1 DEF Drained, Q!NotOwned
<1> QED
  BY <1>2, <1>3, <1>4, <1>5, <1>6 DEF Channel!Init, CInv

\* Data messages go from the console to the callback as over an ordered channel: all
\* that can be kept is kept, each is delivered once and in order, and acknowledgements
\* are sent for what was delivered, all of it, before the next datagram is looked at.
THEOREM ImplementsChannelHolds == Spec => ImplementsChannel
<1>1. IInv /\ CInv /\ [Next]_vars => CInv'
  <2> SUFFICES ASSUME IInv, CInv, [Next]_vars PROVE CInv'
    OBVIOUS
  <2>1. CASE UNCHANGED vars
    BY <2>1 DEF CInv, Drained, KeyIsBang, vars, queueVars, historyVars, cryptVars
  <2> QED
    BY <2>1, StepCInv
<1>2. IInv /\ CInv /\ IInv' /\ [Next]_vars => [Channel!Next]_(Channel!vars)
  BY StepIsChannel
<1> QED
  BY <1>1, <1>2, InitIsChannel, Inductive, PTL DEF Spec, ImplementsChannel, Channel!Spec
=============================================================================
