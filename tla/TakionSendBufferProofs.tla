----------------------- MODULE TakionSendBufferProofs -----------------------
(***************************************************************************)
(* Reliable sending on a Takion connection, for every number of senders,   *)
(* buffer size, number of tries and width of the sequence numbers.         *)
(***************************************************************************)
EXTENDS TakionSendBuffer, SeqNumProofs

\* Every number in use was issued, and less than half of them are: among those the
\* serial comparison is an order.
NumbersIssued ==
  /\ Issued <= MaxSent
  /\ \A s \in Senders : sender[s].pc # "idle" => Ahead(Start, sender[s].seq_num) < Issued
  /\ \A n \in wire : Ahead(Start, n) < Issued
  /\ \A k \in 1 .. packets_count : Ahead(Start, packets[k].seq_num) < Issued

\* The resend thread calls ack for a packet only after the log named one.
GivingUp ==
  /\ pc = "giveup" => i <= packets_size
  /\ pc \in {"giveup", "giveup_ack", "giveup_lock"} => gaveup # {}

\* The inductive invariant.  What an ack removes has been received because the
\* numbers in use lie within half of the space from Start (NumbersIssued); ack is
\* called for a number the peer did not acknowledge only after giving up (GivingUp).
IInv == SendingIsReliable /\ NumbersIssued /\ GivingUp
-----------------------------------------------------------------------------
\* Among issued numbers, what a cumulative ack removes has been received.
LEMMA AckedIsReceived ==
  ASSUME TypeOK, NumbersIssued, NEW n \in CumulativeAcks
  PROVE  AckedBy(n) \subseteq received
<1> SUFFICES ASSUME NEW m \in AckedBy(n) PROVE m \in received
  OBVIOUS
<1>1. n \in received /\ n \in SeqNums /\ n \in wire
  BY DEF CumulativeAcks, TypeOK
<1>2. m \in SeqNums /\ Ahead(Start, m) < Issued /\ (m = n \/ lt(m, n))
  <2>1. PICK k \in 1 .. packets_count : packets[k].seq_num = m
    BY DEF AckedBy, Buffered
  <2>2. k \in 1 .. packets_size
    BY SendBufferAssumption DEF TypeOK
  <2>3. packets[k] \in Packet
    BY <2>2 DEF TypeOK
  <2>4. m \in SeqNums
    BY <2>1, <2>3 DEF Packet
  <2>5. Ahead(Start, m) < Issued
    BY <2>1 DEF NumbersIssued
  <2> QED
    BY <2>4, <2>5 DEF AckedBy
<1> DEFINE a == Ahead(Start, m)
           b == Ahead(Start, n)
<1>3. /\ a \in Nat /\ b \in Nat /\ a < Issued /\ b < Issued /\ Issued \in Nat
      /\ a < SeqMod /\ Issued <= MaxSent /\ MaxSent < Half /\ MaxSent \in Nat
  BY <1>1, <1>2, AheadType, SendBufferAssumption, SeqNumTypes DEF NumbersIssued, Issued, TypeOK
<1>4. m = add(Start, a)
  BY <1>2, AddAhead, SendBufferAssumption
<1>5. Ahead(m, n) = IF a <= b THEN b - a ELSE b - a + SeqMod
  BY <1>1, <1>3, <1>4, AheadShift, SendBufferAssumption
<1>6. lt(m, n) <=> 0 < Ahead(m, n) /\ Ahead(m, n) < Half
  BY <1>1, <1>2, CompareByAhead
<1>7. a <= b
  <2> HIDE DEF a, b
  <2>1. CASE lt(m, n)
    BY <1>3, <1>5, <1>6, <2>1, SeqNumTypes
  <2>2. CASE m = n
    BY <1>3, <2>2 DEF a, b
  <2> QED
    BY <1>2, <2>1, <2>2
<1> QED
  BY <1>2, <1>7 DEF CumulativeAcks

\* Compacting the array keeps exactly the packets it should, and each once.
LEMMA CompactFacts ==
  ASSUME TypeOK, NEW kept \in SUBSET (1 .. packets_count), Compact(kept)
  PROVE  /\ packets' \in [1 .. packets_size -> Packet]
         /\ packets_count' \in 0 .. packets_size
         /\ \A k \in 1 .. packets_count' : \E j \in kept : packets'[k] = packets[j]
         /\ \A j \in kept : \E k \in 1 .. packets_count' : packets'[k] = packets[j]
         /\ BufferedOnce => BufferedOnce'
<1>1. /\ packets_size \in Nat /\ packets_count \in Nat /\ packets_count <= packets_size
      /\ packets \in [1 .. packets_size -> Packet]
  BY SendBufferAssumption DEF TypeOK
<1>2. PICK n \in 0 .. packets_count : \E from \in [1 .. n -> kept] :
        /\ \A j, k \in 1 .. n : j < k => from[j] < from[k]
        /\ \A k \in kept : \E j \in 1 .. n : from[j] = k
        /\ packets_count' = n
        /\ packets' = [k \in 1 .. packets_size |->
                         IF k <= n THEN packets[from[k]] ELSE packets[k]]
  BY DEF Compact
<1>3. PICK from \in [1 .. n -> kept] :
        /\ \A j, k \in 1 .. n : j < k => from[j] < from[k]
        /\ \A k \in kept : \E j \in 1 .. n : from[j] = k
        /\ packets_count' = n
        /\ packets' = [k \in 1 .. packets_size |->
                         IF k <= n THEN packets[from[k]] ELSE packets[k]]
  BY <1>2
<1>4. /\ n \in Nat /\ n <= packets_count
      /\ \A k \in 1 .. n : from[k] \in kept /\ from[k] \in 1 .. packets_count
                           /\ k \in 1 .. packets_size /\ from[k] \in 1 .. packets_size
  <2>1. n \in Nat /\ n <= packets_count
    BY <1>1
  <2>2. ASSUME NEW k \in 1 .. n
        PROVE  from[k] \in kept /\ from[k] \in 1 .. packets_count
    BY <2>2
  <2>3. \A k \in 1 .. packets_count : k \in 1 .. packets_size
    BY <1>1
  <2>4. \A k \in 1 .. n : k \in 1 .. packets_count
    BY <1>1, <2>1
  <2> QED
    BY <2>1, <2>2, <2>3, <2>4
<1>5. \A k \in 1 .. n : packets'[k] = packets[from[k]]
  BY <1>3, <1>4
<1>6. packets' \in [1 .. packets_size -> Packet]
  <2> SUFFICES ASSUME NEW k \in 1 .. packets_size
               PROVE  (IF k <= n THEN packets[from[k]] ELSE packets[k]) \in Packet
    BY <1>3
  <2> QED
    BY <1>1, <1>4
<1>7. BufferedOnce => BufferedOnce'
  <2> SUFFICES ASSUME BufferedOnce, NEW j \in 1 .. n, NEW k \in 1 .. n,
                      packets'[j].seq_num = packets'[k].seq_num
               PROVE  j = k
    BY <1>3 DEF BufferedOnce
  <2>1. from[j] = from[k]
    BY <1>4, <1>5 DEF BufferedOnce
  <2>2. from[j] \in Nat /\ from[k] \in Nat /\ j \in Nat /\ k \in Nat
    BY <1>1, <1>4
  <2>3. ~(j < k) /\ ~(k < j)
    BY <1>3, <2>1, <2>2
  <2> QED
    BY <2>2, <2>3
<1> QED
  BY <1>1, <1>3, <1>4, <1>5, <1>6, <1>7

\* chiaki_takion_send_buffer_ack removes what is acknowledged and nothing else.
LEMMA AckFacts ==
  ASSUME TypeOK, NEW n, chiaki_takion_send_buffer_ack(n)
  PROVE  /\ packets' \in [1 .. packets_size -> Packet]
         /\ packets_count' \in 0 .. packets_size
         /\ \A k \in 1 .. packets_count' : \E j \in 1 .. packets_count : packets'[k] = packets[j]
         /\ \A m \in Buffered : m \in AckedBy(n) \/ m \in Buffered'
         /\ BufferedOnce => BufferedOnce'
<1> DEFINE kept == {k \in 1 .. packets_count : packets[k].seq_num \notin AckedBy(n)}
<1>1. kept \in SUBSET (1 .. packets_count) /\ Compact(kept)
  BY DEF chiaki_takion_send_buffer_ack
<1> HIDE DEF kept
<1>2. /\ packets' \in [1 .. packets_size -> Packet]
      /\ packets_count' \in 0 .. packets_size
      /\ \A k \in 1 .. packets_count' : \E j \in kept : packets'[k] = packets[j]
      /\ \A j \in kept : \E k \in 1 .. packets_count' : packets'[k] = packets[j]
      /\ BufferedOnce => BufferedOnce'
  BY <1>1, CompactFacts
<1>3. ASSUME NEW m \in Buffered, m \notin AckedBy(n)
      PROVE  m \in Buffered'
  <2>1. PICK k \in 1 .. packets_count : packets[k].seq_num = m
    BY DEF Buffered
  <2>2. k \in kept
    BY <1>3, <2>1 DEF kept
  <2> QED
    BY <1>2, <2>1, <2>2 DEF Buffered
<1> QED
  BY <1>1, <1>2, <1>3

\* A number in the buffer is a sequence number.
LEMMA BufferedType ==
  TypeOK => /\ \A k \in 1 .. packets_count : k \in 1 .. packets_size
            /\ \A k \in 1 .. packets_size : packets[k] \in Packet
            /\ \A k \in 1 .. packets_size : packets[k].seq_num \in SeqNums
            /\ Buffered \subseteq SeqNums
<1> SUFFICES ASSUME TypeOK
             PROVE  /\ \A k \in 1 .. packets_count : k \in 1 .. packets_size
                    /\ \A k \in 1 .. packets_size : packets[k] \in Packet
                    /\ \A k \in 1 .. packets_size : packets[k].seq_num \in SeqNums
                    /\ Buffered \subseteq SeqNums
  OBVIOUS
<1>1. \A k \in 1 .. packets_count : k \in 1 .. packets_size
  BY SendBufferAssumption DEF TypeOK
<1>2. \A k \in 1 .. packets_size : packets[k] \in Packet
  BY DEF TypeOK
<1>3. \A k \in 1 .. packets_size : packets[k].seq_num \in SeqNums
  BY <1>2 DEF Packet
<1> QED
  BY <1>1, <1>2, <1>3 DEF Buffered

\* Taking a number leaves one fewer.
LEMMA TakeNumberFacts ==
  ASSUME TypeOK, NumbersIssued, NEW s \in Senders, TakeNumber(s)
  PROVE  seq_num_local' \in SeqNums /\ Issued' = Issued + 1 /\ Issued' <= MaxSent
<1>1. /\ Issued \in Nat /\ Issued < MaxSent /\ MaxSent \in Nat /\ MaxSent < Half
      /\ Half \in Nat /\ SeqMod = 2 * Half /\ SeqMod \in Nat /\ Start \in SeqNums
      /\ seq_num_local \in SeqNums
  BY AheadType, SendBufferAssumption, SeqNumTypes DEF TakeNumber, Issued, TypeOK
<1>2. seq_num_local = add(Start, Issued)
  BY <1>1, AddAhead DEF Issued
<1>3. seq_num_local' = add(Start, Issued + 1)
  BY <1>1, <1>2, AddAdd DEF TakeNumber
<1>4. Issued + 1 \in 0 .. SeqMod - 1 /\ Issued + 1 <= MaxSent
  BY <1>1
<1>5. Issued' = Ahead(Start, seq_num_local')
  BY DEF Issued
<1> QED
  BY <1>1, <1>3, <1>4, <1>5, AheadAdd, AddType

\* The initial states satisfy the invariant.
LEMMA InitEstablishes == Init => IInv
<1> SUFFICES ASSUME Init PROVE IInv
  OBVIOUS
<1>1. NoPacket \in Packet
  BY SendBufferAssumption, SeqNumTypes DEF NoPacket, Packet
<1>2. should_stop \in BOOLEAN /\ timed \in BOOLEAN
  BY Zenon DEF Init
<1>3. packets \in [1 .. packets_size -> Packet]
  BY <1>1 DEF Init
<1>4. sender \in [Senders -> [pc : {"idle", "send", "push"}, seq_num : SeqNums]]
  BY SendBufferAssumption DEF Init
<1>5. TypeOK
  BY <1>2, <1>3, <1>4, SendBufferAssumption DEF Init, TypeOK
<1>6. Issued = 0
  <2>1. Start - Start = 0
    BY SendBufferAssumption, SeqNumTypes
  <2> QED
    BY <2>1, AheadLinear, SendBufferAssumption, SeqNumTypes DEF Init, Issued
<1>7. NumbersIssued
  BY <1>6, SendBufferAssumption DEF Init, NumbersIssued
<1> QED
  BY <1>5, <1>7 DEF Init, IInv, SendingIsReliable, KeptUntilReceived, BufferedOnce,
     AckEventsAreTrue, GivingUp

\* The invariant, spelled out.
LEMMA Parts ==
  IInv <=> /\ TypeOK /\ KeptUntilReceived /\ BufferedOnce /\ AckEventsAreTrue
           /\ NumbersIssued /\ GivingUp
  BY DEF IInv, SendingIsReliable

\* A step that leaves the numbers, the buffer's numbers and the histories as they
\* were, and receives no less, needs only keep the types and the resend thread.
LEMMA SameBuffer ==
  ASSUME IInv, TypeOK', GivingUp',
         seq_num_local' = seq_num_local, sender' = sender,
         packets_count' = packets_count,
         \A k \in 1 .. packets_count : packets'[k].seq_num = packets[k].seq_num,
         received \subseteq received', \A n \in wire' : n \in wire \cup Buffered,
         stopper' = "freed" \/ stopper # "freed",
         pushed' = pushed, acked' = acked, gaveup \subseteq gaveup'
  PROVE  IInv'
<1>1. Buffered' = Buffered
  BY DEF Buffered
<1>2. KeptUntilReceived'
  BY <1>1, Parts DEF KeptUntilReceived
<1>3. BufferedOnce'
  BY Parts DEF BufferedOnce
<1>4. AckEventsAreTrue'
  BY Parts DEF AckEventsAreTrue
<1>5. Issued' = Issued
  BY DEF Issued
<1>6. \A n \in Buffered : Ahead(Start, n) < Issued
  BY Parts DEF NumbersIssued, Buffered
<1>7. NumbersIssued'
  BY <1>5, <1>6, Parts DEF NumbersIssued
<1> QED
  BY <1>2, <1>3, <1>4, <1>7, Parts DEF IInv, SendingIsReliable

\* Every step preserves the invariant.
LEMMA StepPreserves ==
  ASSUME IInv, [Next]_vars
  PROVE  IInv'
<1> USE SendBufferAssumption DEF bufferVars, resendVars, peerVars, historyVars, others
<1>0. /\ TypeOK /\ KeptUntilReceived /\ BufferedOnce /\ AckEventsAreTrue
      /\ NumbersIssued /\ GivingUp
  BY Parts
<1>t. /\ packets_size \in Nat /\ packets_size > 0 /\ TRIES_MAX \in Nat
      /\ packets_count \in Nat /\ packets_count <= packets_size
      /\ i \in Nat /\ i >= 1 /\ i <= packets_size + 1
  BY <1>0 DEF TypeOK
<1>b. /\ \A k \in 1 .. packets_count : k \in 1 .. packets_size
      /\ \A k \in 1 .. packets_size : packets[k] \in Packet
      /\ \A k \in 1 .. packets_size : packets[k].seq_num \in SeqNums
      /\ Buffered \subseteq SeqNums
  BY <1>0, BufferedType
<1>1. ASSUME NEW s \in Senders, TakeNumber(s) PROVE IInv'
  <2>1. seq_num_local' \in SeqNums /\ Issued' = Issued + 1 /\ Issued' <= MaxSent
    BY <1>0, <1>1, TakeNumberFacts
  <2>2. /\ sender' \in [Senders -> [pc : {"idle", "send", "push"}, seq_num : SeqNums]]
        /\ \A t \in Senders : t # s => sender'[t] = sender[t]
        /\ sender'[s].seq_num = seq_num_local
    BY <1>0, <1>1 DEF TakeNumber, TypeOK
  <2>3. UNCHANGED <<bufferVars, should_stop, resendVars, stopper, peerVars, historyVars>>
    BY <1>1 DEF TakeNumber
  <2>4. TypeOK'
    BY <1>0, <2>1, <2>2, <2>3 DEF TypeOK
  <2>5. Buffered' = Buffered
    BY <2>3 DEF Buffered
  <2>6. Issued \in Nat /\ Ahead(Start, seq_num_local) = Issued
    BY <1>0, AheadType DEF Issued, TypeOK
  <2>7. \A x \in SeqNums : Ahead(Start, x) < Issued => Ahead(Start, x) < Issued'
    BY <2>1, <2>6, AheadType
  <2>8. NumbersIssued'
    <3>1. ASSUME NEW t \in Senders, sender'[t].pc # "idle"
          PROVE  Ahead(Start, sender'[t].seq_num) < Issued'
      <4>1. CASE t = s
        BY <2>1, <2>2, <2>6, <4>1
      <4>2. CASE t # s
        <5>1. sender[t].seq_num \in SeqNums
          BY <1>0 DEF TypeOK
        <5> QED
          BY <1>0, <2>2, <2>7, <3>1, <4>2, <5>1 DEF NumbersIssued
      <4> QED
        BY <4>1, <4>2
    <3>2. ASSUME NEW n \in wire PROVE Ahead(Start, n) < Issued'
      BY <1>0, <2>7 DEF NumbersIssued, TypeOK
    <3>3. ASSUME NEW q \in 1 .. packets_count
          PROVE  Ahead(Start, packets[q].seq_num) < Issued'
      BY <1>0, <1>b, <2>7 DEF NumbersIssued
    <3> QED
      BY <2>1, <2>3, <3>1, <3>2, <3>3 DEF NumbersIssued
  <2> QED
    BY <1>0, <2>3, <2>4, <2>5, <2>8 DEF IInv, SendingIsReliable, KeptUntilReceived,
       BufferedOnce, AckEventsAreTrue, GivingUp
<1>2. ASSUME NEW s \in Senders, Transmit(s) PROVE IInv'
  <2>1. /\ sender' \in [Senders -> [pc : {"idle", "send", "push"}, seq_num : SeqNums]]
        /\ \A t \in Senders : sender'[t].seq_num = sender[t].seq_num
        /\ \A t \in Senders : sender'[t].pc # "idle" => sender[t].pc # "idle"
    <3>1. PICK p \in {"idle", "push"} : sender' = [sender EXCEPT ![s].pc = p]
      BY <1>2 DEF Transmit
    <3>2. sender[s].pc = "send"
      BY <1>2 DEF Transmit
    <3> QED
      BY <1>0, <3>1, <3>2 DEF TypeOK
  <2>2. /\ wire \subseteq wire'
        /\ \A n \in wire' : n \in wire \/ n = sender[s].seq_num
    BY <1>2 DEF Transmit
  <2>3. UNCHANGED <<seq_num_local, bufferVars, should_stop, resendVars, stopper,
                    received, historyVars>>
    BY <1>2 DEF Transmit
  <2>4. sender[s].seq_num \in SeqNums /\ sender[s].pc = "send"
    BY <1>0, <1>2 DEF TypeOK, Transmit
  <2>5. TypeOK'
    BY <1>0, <2>1, <2>2, <2>3, <2>4 DEF TypeOK
  <2>6. Issued' = Issued /\ Buffered' = Buffered
    BY <2>3 DEF Issued, Buffered
  <2>7. NumbersIssued'
    BY <1>0, <2>1, <2>2, <2>3, <2>4, <2>6 DEF NumbersIssued
  <2> QED
    BY <1>0, <2>3, <2>5, <2>6, <2>7 DEF IInv, SendingIsReliable, KeptUntilReceived,
       BufferedOnce, AckEventsAreTrue, GivingUp
<1>3. ASSUME NEW s \in Senders, chiaki_takion_send_buffer_push(s) PROVE IInv'
  <2>1. /\ sender' \in [Senders -> [pc : {"idle", "send", "push"}, seq_num : SeqNums]]
        /\ \A t \in Senders : sender'[t].seq_num = sender[t].seq_num
        /\ \A t \in Senders : sender'[t].pc # "idle" => sender[t].pc # "idle"
    BY <1>0, <1>3 DEF chiaki_takion_send_buffer_push, TypeOK
  <2>2. UNCHANGED <<seq_num_local, should_stop, stopper, peerVars, gaveup, acked>>
    BY <1>3 DEF chiaki_takion_send_buffer_push
  <2>3. sender[s].seq_num \in SeqNums /\ sender[s].pc = "push"
    BY <1>0, <1>3 DEF TypeOK, chiaki_takion_send_buffer_push
  <2>4. Issued' = Issued
    BY <2>2 DEF Issued
  <2>5. CASE UNCHANGED <<bufferVars, resendVars, pushed>>
    <3>1. TypeOK'
      BY <1>0, <2>1, <2>2, <2>5 DEF TypeOK
    <3>2. Buffered' = Buffered
      BY <2>5 DEF Buffered
    <3>3. NumbersIssued'
      BY <1>0, <2>1, <2>2, <2>4, <2>5 DEF NumbersIssued
    <3> QED
      BY <1>0, <2>2, <2>5, <3>1, <3>2, <3>3 DEF IInv, SendingIsReliable,
         KeptUntilReceived, BufferedOnce, AckEventsAreTrue, GivingUp
  <2>6. CASE ~ UNCHANGED <<bufferVars, resendVars, pushed>>
    <3> DEFINE c == packets_count + 1
    <3>1. PICK a \in {"new", "future"} :
            packets' = [packets EXCEPT ![c] =
                          [seq_num |-> sender[s].seq_num, tries |-> 0, age |-> a]]
      BY <1>3, <2>6 DEF chiaki_takion_send_buffer_push
    <3>2. /\ ~Full /\ sender[s].seq_num \notin Buffered /\ packets_count' = c
          /\ pushed' = pushed \cup {sender[s].seq_num}
          /\ UNCHANGED <<timed, i, victim>>
          /\ pc' = pc \/ (pc = "sleep" /\ pc' = "wake")
      BY <1>3, <2>6 DEF chiaki_takion_send_buffer_push, Signal
    <3>3. c \in 1 .. packets_size /\ c \in Nat
      BY <1>t, <3>2 DEF Full
    <3>4. [seq_num |-> sender[s].seq_num, tries |-> 0, age |-> a] \in Packet
      BY <2>3 DEF Packet
    <3>5. packets' \in [1 .. packets_size -> Packet]
      BY <1>0, <3>1, <3>4 DEF TypeOK
    <3>6. /\ packets'[c].seq_num = sender[s].seq_num
          /\ \A q \in 1 .. packets_count : packets'[q] = packets[q]
      BY <1>0, <1>b, <1>t, <3>1, <3>3 DEF TypeOK
    <3>7. \A q \in 1 .. c : q = c \/ q \in 1 .. packets_count
      BY <1>t
    <3>8. \A q \in 1 .. packets_count : q \in 1 .. c /\ q # c
      BY <1>t
    <3>9. c \in 1 .. c
      BY <3>3
    <3> HIDE DEF c
    <3>10. TypeOK'
      BY <1>0, <2>1, <2>2, <2>3, <3>2, <3>3, <3>5 DEF TypeOK
    <3>11. \A n \in Buffered : n \in Buffered'
      BY <3>2, <3>6, <3>8 DEF Buffered
    <3>12. sender[s].seq_num \in Buffered'
      BY <3>2, <3>6, <3>9 DEF Buffered
    <3>13. KeptUntilReceived'
      BY <1>0, <2>2, <3>2, <3>11, <3>12 DEF KeptUntilReceived
    <3>14. \A q \in 1 .. packets_count : packets[q].seq_num # sender[s].seq_num
      BY <3>2 DEF Buffered
    <3>15. BufferedOnce'
      <4> SUFFICES ASSUME NEW p \in 1 .. c, NEW q \in 1 .. c,
                          packets'[p].seq_num = packets'[q].seq_num
                   PROVE  p = q
        BY <3>2 DEF BufferedOnce
      <4> QED
        BY <1>0, <3>6, <3>7, <3>14 DEF BufferedOnce
    <3>16. NumbersIssued'
      <4>1. Ahead(Start, sender[s].seq_num) < Issued
        BY <1>0, <2>3 DEF NumbersIssued
      <4>2. ASSUME NEW q \in 1 .. c PROVE Ahead(Start, packets'[q].seq_num) < Issued
        BY <1>0, <3>6, <3>7, <4>1 DEF NumbersIssued
      <4> QED
        BY <1>0, <2>1, <2>2, <2>4, <3>2, <4>2 DEF NumbersIssued
    <3> QED
      BY <1>0, <2>2, <3>2, <3>10, <3>13, <3>15, <3>16 DEF IInv, SendingIsReliable,
         AckEventsAreTrue, GivingUp
  <2> QED
    BY <2>5, <2>6
<1>4. ASSUME NEW n \in CumulativeAcks, takion_handle_packet_message_data_ack(n) PROVE IInv'
  <2>1. /\ UNCHANGED <<seq_num_local, sender, should_stop, resendVars, stopper,
                       peerVars, pushed, gaveup>>
        /\ acked' = acked \cup AckedBy(n)
    BY <1>4 DEF takion_handle_packet_message_data_ack
  <2>2. /\ packets' \in [1 .. packets_size -> Packet]
        /\ packets_count' \in 0 .. packets_size
        /\ \A k \in 1 .. packets_count' : \E j \in 1 .. packets_count : packets'[k] = packets[j]
        /\ \A m \in Buffered : m \in AckedBy(n) \/ m \in Buffered'
        /\ BufferedOnce'
    BY <1>0, <1>4, AckFacts DEF takion_handle_packet_message_data_ack
  <2>3. AckedBy(n) \subseteq received
    BY <1>0, AckedIsReceived
  <2>4. AckedBy(n) \subseteq SeqNums
    BY <1>b DEF AckedBy
  <2>5. TypeOK'
    BY <1>0, <2>1, <2>2, <2>4 DEF TypeOK
  <2>6. Issued' = Issued
    BY <2>1 DEF Issued
  <2>7. ASSUME NEW q \in 1 .. packets_count' PROVE Ahead(Start, packets'[q].seq_num) < Issued
    BY <1>0, <2>2 DEF NumbersIssued
  <2>8. NumbersIssued'
    BY <1>0, <2>1, <2>6, <2>7 DEF NumbersIssued
  <2>9. KeptUntilReceived'
    BY <1>0, <2>1, <2>2, <2>3 DEF KeptUntilReceived
  <2> QED
    BY <1>0, <2>1, <2>2, <2>3, <2>5, <2>8, <2>9 DEF IInv, SendingIsReliable,
       AckEventsAreTrue, GivingUp
<1>5. CASE GiveUpAck
  <2>1. /\ UNCHANGED <<others, timed, i, victim, wire, historyVars>>
        /\ pc = "giveup_ack" /\ pc' = "giveup_lock"
    BY <1>5 DEF GiveUpAck
  <2>2. /\ packets' \in [1 .. packets_size -> Packet]
        /\ packets_count' \in 0 .. packets_size
        /\ \A k \in 1 .. packets_count' : \E j \in 1 .. packets_count : packets'[k] = packets[j]
        /\ \A m \in Buffered : m \in AckedBy(victim) \/ m \in Buffered'
        /\ BufferedOnce'
    BY <1>0, <1>5, AckFacts DEF GiveUpAck
  <2>5. TypeOK'
    BY <1>0, <2>1, <2>2 DEF TypeOK
  <2>6. Issued' = Issued
    BY <2>1 DEF Issued
  <2>7. ASSUME NEW q \in 1 .. packets_count' PROVE Ahead(Start, packets'[q].seq_num) < Issued
    BY <1>0, <2>2 DEF NumbersIssued
  <2>8. NumbersIssued'
    BY <1>0, <2>1, <2>6, <2>7 DEF NumbersIssued
  <2>9. gaveup' # {}
    BY <1>0, <2>1 DEF GivingUp
  <2> QED
    BY <1>0, <2>1, <2>2, <2>5, <2>8, <2>9 DEF IInv, SendingIsReliable,
       KeptUntilReceived, AckEventsAreTrue, GivingUp
<1>6. ASSUME NEW n \in wire, PeerReceives(n) PROVE IInv'
  <2>3. TypeOK'
    BY <1>0, <1>b, <1>t, <1>6 DEF TypeOK, PeerReceives
  <2>4. GivingUp'
    BY <1>0, <1>b, <1>t, <1>6 DEF GivingUp, PeerReceives
  <2>5. \A w \in wire' : w \in wire \cup Buffered
    BY <1>0, <1>b, <1>t, <1>6 DEF Buffered, PeerReceives
  <2> QED
    BY <1>0, <1>b, <1>t, <1>6, <2>3, <2>4, <2>5, SameBuffer DEF PeerReceives
<1>7. ASSUME NEW k \in 1 .. packets_size, Age(k) PROVE IInv'
  <2>1. /\ packets' \in [1 .. packets_size -> Packet]
        /\ \A q \in 1 .. packets_size : packets'[q].seq_num = packets[q].seq_num
    <3>1. [packets[k] EXCEPT !.age = "due"] \in Packet
      BY <1>b DEF Packet
    <3>2. packets' = [packets EXCEPT ![k] = [packets[k] EXCEPT !.age = "due"]]
      BY <1>7 DEF Age
    <3>3. [packets[k] EXCEPT !.age = "due"].seq_num = packets[k].seq_num
      BY <1>b DEF Packet
    <3> QED
      BY <1>0, <3>1, <3>2, <3>3 DEF TypeOK
  <2>3. TypeOK'
    BY <1>0, <1>b, <1>t, <1>7, <2>1 DEF TypeOK, Age
  <2>4. GivingUp'
    BY <1>0, <1>b, <1>t, <1>7, <2>1 DEF GivingUp, Age
  <2>5. \A n \in wire' : n \in wire \cup Buffered
    BY <1>0, <1>b, <1>t, <1>7, <2>1 DEF Buffered, Age
  <2> QED
    BY <1>0, <1>b, <1>t, <1>7, <2>1, <2>3, <2>4, <2>5, SameBuffer DEF Age
<1>8. CASE ThreadStart
  <2>3. TypeOK'
    BY <1>0, <1>b, <1>t, <1>8 DEF TypeOK, ThreadStart
  <2>4. GivingUp'
    BY <1>0, <1>b, <1>t, <1>8 DEF GivingUp, ThreadStart
  <2>5. \A n \in wire' : n \in wire \cup Buffered
    BY <1>0, <1>b, <1>t, <1>8 DEF Buffered, ThreadStart
  <2> QED
    BY <1>0, <1>b, <1>t, <1>8, <2>3, <2>4, <2>5, SameBuffer DEF ThreadStart
<1>9. CASE LoopTop
  <2>2. timed' \in BOOLEAN
    <3>1. (packets_count > 0) \in BOOLEAN
      OBVIOUS
    <3> QED
      BY <1>9, <3>1, Zenon DEF LoopTop
  <2>3. TypeOK'
    BY <1>0, <1>b, <1>t, <1>9, <2>2 DEF TypeOK, LoopTop
  <2>4. GivingUp'
    BY <1>0, <1>b, <1>t, <1>9, <2>2 DEF GivingUp, LoopTop
  <2>5. \A n \in wire' : n \in wire \cup Buffered
    BY <1>0, <1>b, <1>t, <1>9, <2>2 DEF Buffered, LoopTop
  <2> QED
    BY <1>0, <1>b, <1>t, <1>9, <2>2, <2>3, <2>4, <2>5, SameBuffer DEF LoopTop
<1>10. CASE Block
  <2>3. TypeOK'
    BY <1>0, <1>b, <1>t, <1>10 DEF TypeOK, Block
  <2>4. GivingUp'
    BY <1>0, <1>b, <1>t, <1>10 DEF GivingUp, Block
  <2>5. \A n \in wire' : n \in wire \cup Buffered
    BY <1>0, <1>b, <1>t, <1>10 DEF Buffered, Block
  <2> QED
    BY <1>0, <1>b, <1>t, <1>10, <2>3, <2>4, <2>5, SameBuffer DEF Block
<1>11. CASE Timeout
  <2>3. TypeOK'
    BY <1>0, <1>b, <1>t, <1>11 DEF TypeOK, Timeout
  <2>4. GivingUp'
    BY <1>0, <1>b, <1>t, <1>11 DEF GivingUp, Timeout
  <2>5. \A n \in wire' : n \in wire \cup Buffered
    BY <1>0, <1>b, <1>t, <1>11 DEF Buffered, Timeout
  <2> QED
    BY <1>0, <1>b, <1>t, <1>11, <2>3, <2>4, <2>5, SameBuffer DEF Timeout
<1>12. CASE Relock
  <2>3. TypeOK'
    BY <1>0, <1>b, <1>t, <1>12 DEF TypeOK, Relock
  <2>4. GivingUp'
    BY <1>0, <1>b, <1>t, <1>12 DEF GivingUp, Relock
  <2>5. \A n \in wire' : n \in wire \cup Buffered
    BY <1>0, <1>b, <1>t, <1>12 DEF Buffered, Relock
  <2> QED
    BY <1>0, <1>b, <1>t, <1>12, <2>3, <2>4, <2>5, SameBuffer DEF Relock
<1>13. CASE CheckStop
  <2>3. TypeOK'
    BY <1>0, <1>b, <1>t, <1>13 DEF TypeOK, CheckStop
  <2>4. GivingUp'
    BY <1>0, <1>b, <1>t, <1>13 DEF GivingUp, CheckStop
  <2>5. \A n \in wire' : n \in wire \cup Buffered
    BY <1>0, <1>b, <1>t, <1>13 DEF Buffered, CheckStop
  <2> QED
    BY <1>0, <1>b, <1>t, <1>13, <2>3, <2>4, <2>5, SameBuffer DEF CheckStop
<1>14. CASE Skip
  <2>3. TypeOK'
    BY <1>0, <1>b, <1>t, <1>14 DEF TypeOK, Skip
  <2>4. GivingUp'
    BY <1>0, <1>b, <1>t, <1>14 DEF GivingUp, Skip
  <2>5. \A n \in wire' : n \in wire \cup Buffered
    BY <1>0, <1>b, <1>t, <1>14 DEF Buffered, Skip
  <2> QED
    BY <1>0, <1>b, <1>t, <1>14, <2>3, <2>4, <2>5, SameBuffer DEF Skip
<1>15. CASE Resend
  <2>1. /\ packets' \in [1 .. packets_size -> Packet]
        /\ \A q \in 1 .. packets_size : packets'[q].seq_num = packets[q].seq_num
    <3> DEFINE p == [seq_num |-> packets[i].seq_num, tries |-> packets[i].tries + 1, age |-> "new"]
    <3>1. i \in 1 .. packets_size /\ packets[i] \in Packet
      BY <1>b, <1>t, <1>15 DEF Resend
    <3>2. packets[i].tries \in 0 .. TRIES_MAX /\ packets[i].tries < TRIES_MAX
      BY <3>1, <1>15 DEF Resend, Packet
    <3>3. packets[i].tries + 1 \in 0 .. TRIES_MAX
      BY <3>2
    <3>4. packets[i].seq_num \in SeqNums
      BY <3>1 DEF Packet
    <3>5. p \in Packet /\ p.seq_num = packets[i].seq_num
      BY <3>3, <3>4 DEF Packet
    <3>6. packets' = [packets EXCEPT ![i] = p]
      BY <3>1, <1>15 DEF Resend
    <3> HIDE DEF p
    <3> QED
      BY <1>0, <3>1, <3>5, <3>6 DEF TypeOK
  <2>3. TypeOK'
    BY <1>0, <1>b, <1>t, <1>15, <2>1 DEF TypeOK, Resend
  <2>4. GivingUp'
    BY <1>0, <1>b, <1>t, <1>15, <2>1 DEF GivingUp, Resend
  <2>5. \A n \in wire' : n \in wire \cup Buffered
    BY <1>0, <1>b, <1>t, <1>15, <2>1 DEF Buffered, Resend
  <2> QED
    BY <1>0, <1>b, <1>t, <1>15, <2>1, <2>3, <2>4, <2>5, SameBuffer DEF Resend
<1>16. CASE GiveUp
  <2>3. TypeOK'
    BY <1>0, <1>b, <1>t, <1>16 DEF TypeOK, GiveUp
  <2>4. GivingUp'
    BY <1>0, <1>b, <1>t, <1>16 DEF GivingUp, GiveUp
  <2>5. \A n \in wire' : n \in wire \cup Buffered
    BY <1>0, <1>b, <1>t, <1>16 DEF Buffered, GiveUp
  <2> QED
    BY <1>0, <1>b, <1>t, <1>16, <2>3, <2>4, <2>5, SameBuffer DEF GiveUp
<1>17. CASE GiveUpRead
  <2>3. TypeOK'
    BY <1>0, <1>b, <1>t, <1>17 DEF TypeOK, GivingUp, GiveUpRead
  <2>4. GivingUp'
    BY <1>0, <1>b, <1>t, <1>17 DEF GivingUp, GiveUpRead
  <2>5. \A n \in wire' : n \in wire \cup Buffered
    BY <1>0, <1>b, <1>t, <1>17 DEF Buffered, GiveUpRead
  <2> QED
    BY <1>0, <1>b, <1>t, <1>17, <2>3, <2>4, <2>5, SameBuffer DEF GiveUpRead
<1>18. CASE GiveUpLock
  <2>3. TypeOK'
    BY <1>0, <1>b, <1>t, <1>18 DEF TypeOK, GiveUpLock
  <2>4. GivingUp'
    BY <1>0, <1>b, <1>t, <1>18 DEF GivingUp, GiveUpLock
  <2>5. \A n \in wire' : n \in wire \cup Buffered
    BY <1>0, <1>b, <1>t, <1>18 DEF Buffered, GiveUpLock
  <2> QED
    BY <1>0, <1>b, <1>t, <1>18, <2>3, <2>4, <2>5, SameBuffer DEF GiveUpLock
<1>19. CASE PassEnd
  <2>1. /\ packets' \in [1 .. packets_size -> Packet]
        /\ \A q \in 1 .. packets_size : packets'[q].seq_num = packets[q].seq_num
    <3>1. ASSUME NEW q \in 1 .. packets_size
          PROVE  [packets[q] EXCEPT !.age = "new"] \in Packet
                 /\ [packets[q] EXCEPT !.age = "new"].seq_num = packets[q].seq_num
      BY <1>b DEF Packet
    <3> QED
      BY <1>b, <1>19, <3>1 DEF PassEnd
  <2>3. TypeOK'
    BY <1>0, <1>b, <1>t, <1>19, <2>1 DEF TypeOK, PassEnd
  <2>4. GivingUp'
    BY <1>0, <1>b, <1>t, <1>19, <2>1 DEF GivingUp, PassEnd
  <2>5. \A n \in wire' : n \in wire \cup Buffered
    BY <1>0, <1>b, <1>t, <1>19, <2>1 DEF Buffered, PassEnd
  <2> QED
    BY <1>0, <1>b, <1>t, <1>19, <2>1, <2>3, <2>4, <2>5, SameBuffer DEF PassEnd
<1>20. CASE SetShouldStop
  <2>2. should_stop' \in BOOLEAN
    BY <1>0, <1>20, Zenon DEF SetShouldStop, TypeOK
  <2>3. TypeOK'
    BY <1>0, <1>b, <1>t, <1>20, <2>2 DEF TypeOK, SetShouldStop
  <2>4. GivingUp'
    BY <1>0, <1>b, <1>t, <1>20, <2>2 DEF GivingUp, SetShouldStop
  <2>5. \A n \in wire' : n \in wire \cup Buffered
    BY <1>0, <1>b, <1>t, <1>20, <2>2 DEF Buffered, SetShouldStop
  <2> QED
    BY <1>0, <1>b, <1>t, <1>20, <2>2, <2>3, <2>4, <2>5, SameBuffer DEF SetShouldStop
<1>21. CASE SignalStop
  <2>3. TypeOK'
    BY <1>0, <1>b, <1>t, <1>21 DEF TypeOK, SignalStop, Signal
  <2>4. GivingUp'
    BY <1>0, <1>b, <1>t, <1>21 DEF GivingUp, SignalStop, Signal
  <2>5. \A n \in wire' : n \in wire \cup Buffered
    BY <1>0, <1>b, <1>t, <1>21 DEF Buffered, SignalStop, Signal
  <2> QED
    BY <1>0, <1>b, <1>t, <1>21, <2>3, <2>4, <2>5, SameBuffer DEF SignalStop, Signal
<1>22. CASE chiaki_takion_send_buffer_fini
  <2>1. TypeOK'
    BY <1>0, <1>t, <1>22 DEF TypeOK, chiaki_takion_send_buffer_fini
  <2>2. Issued' = Issued
    BY <1>22 DEF Issued, chiaki_takion_send_buffer_fini
  <2>3. NumbersIssued'
    BY <1>0, <1>22, <2>2 DEF NumbersIssued, chiaki_takion_send_buffer_fini
  <2> QED
    BY <1>0, <1>22, <2>1, <2>3 DEF IInv, SendingIsReliable, KeptUntilReceived,
       BufferedOnce, AckEventsAreTrue, GivingUp, chiaki_takion_send_buffer_fini
<1>23. CASE UNCHANGED vars
  <2>1. TypeOK' /\ GivingUp'
    BY <1>0, <1>23 DEF TypeOK, GivingUp, vars
  <2> QED
    BY <1>23, <2>1, SameBuffer DEF vars
<1> QED
  BY <1>1, <1>2, <1>3, <1>4, <1>5, <1>6, <1>7, <1>8, <1>9, <1>10, <1>11, <1>12,
     <1>13, <1>14, <1>15, <1>16, <1>17, <1>18, <1>19, <1>20, <1>21, <1>22, <1>23 DEF
     Next, ResendThread

\* IInv is an invariant of every behaviour.
THEOREM Inductive == Spec => []IInv
<1>1. Init => IInv
  BY InitEstablishes
<1>2. IInv /\ [Next]_vars => IInv'
  BY StepPreserves
<1> QED
  BY <1>1, <1>2, PTL DEF Spec

\* Reliable sending, for every number of senders, size of the buffer, number of
\* tries and width of the sequence numbers, while fewer than half of the numbers
\* are sent: until the resend thread gives up, what was pushed and not received is
\* buffered; every number is buffered once; a DATA_ACK event is true.
THEOREM SendingIsReliableHolds == Spec => []SendingIsReliable
<1>1. IInv => SendingIsReliable
  BY DEF IInv
<1> QED
  BY <1>1, Inductive, PTL
=============================================================================
