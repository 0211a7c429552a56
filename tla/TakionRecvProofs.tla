-------------------------- MODULE TakionRecvProofs --------------------------
(***************************************************************************)
(* The pool, the queue and the threads of a Takion connection, for every   *)
(* pool size and number of datagrams: proofs of what the run of TakionRecv *)
(* checks.                                                                 *)
(***************************************************************************)
EXTENDS TakionRecv, TLAPS, FiniteSetTheorems

\* takion_thread_func before its loop, in it, and after it.
Before == {"handshake", "setup"}
InLoop == {"connected", "pop", "recv", "enqueue", "signal"}
Stopping == {"shutdown", "wait_done", "waiting", "drain"}
After == {"stop_send_buffer", "beach", "end"}
Working == {"loop", "sleep", "handle", "return"}

\* Which threads run, with which entries in their hands.
Threads ==
  /\ recv \in Before => proc = "none" /\ close \in {"open", "join_recv"}
  /\ recv \in InLoop \cup {"shutdown"} => running /\ proc \in Working
  /\ recv \in {"wait_done", "waiting"} => ~running /\ proc \in (Working \ {"sleep"}) \cup {"end"}
  /\ recv = "drain" => ~running /\ proc = "end"
  /\ recv \in After => proc \in {"none", "end"}
  /\ done <=> proc = "end"
  /\ rentry # None <=> recv \in {"recv", "enqueue"}
  /\ pentry # None <=> proc \in {"handle", "return"}
  /\ proc \in {"none", "end"} => queue = <<>>
  /\ proc = "none" => "process_thread" \notin created /\ "pool" \notin created
  /\ close \in {"join_process", "send_buffer_fini", "closed"} => recv = "end"
  /\ close = "send_buffer_fini" \/ close = "closed" => "pool" \notin created
  /\ proc # "none" /\ close \in {"open", "join_recv", "join_process"}
       => "process_thread" \in created

\* The pooled entries of a queue, and that none is in it twice.
SlotsOf(q) == {q[k].slot : k \in DOMAIN q} \cap Slots
Distinct(q) ==
  \A j, k \in DOMAIN q : q[j].slot \in Slots /\ q[j].slot = q[k].slot => j = k

\* Each entry of the pool is in one place, if there is a pool at all.
OnePlace ==
  /\ pool \cup RecvSlots \cup SlotsOf(queue) \cup ProcessSlots
       = IF "pool" \in created THEN Slots ELSE {}
  /\ pool \cap RecvSlots = {} /\ pool \cap SlotsOf(queue) = {} /\ pool \cap ProcessSlots = {}
  /\ RecvSlots \cap SlotsOf(queue) = {} /\ RecvSlots \cap ProcessSlots = {}
  /\ SlotsOf(queue) \cap ProcessSlots = {}
  /\ Distinct(queue)

\* A datagram just received is in its buffer.
Received == recv = "enqueue" /\ rentry \in Slots => buf[rentry] = arrived

\* A malloc'ed buffer is in somebody's hands.
HeapHeld ==
  \A n \in heap :
    \/ \E k \in DOMAIN queue : queue[k].slot = Heap /\ queue[k].packet = n
    \/ proc = "handle" /\ pentry.slot = Heap /\ pentry.packet = n
    \/ recv = "enqueue" /\ rentry = Heap /\ arrived = n

\* The last datagram that was queued, if it was not dropped.
Newest == IF recv = "enqueue" THEN arrived - 1 ELSE arrived

\* Handled datagrams, the one being handled, queued ones and the one just
\* received follow one another.
Order ==
  /\ recv = "enqueue" => arrived > 0
  /\ recv \in Before \cup {"connected"} => arrived = 0
  /\ \A k \in DOMAIN queue : queue[k].packet <= Newest
  /\ \A j, k \in DOMAIN queue : j < k => queue[j].packet < queue[k].packet
  /\ pentry # None => pentry.packet <= Newest
  /\ pentry # None => \A k \in DOMAIN queue : pentry.packet < queue[k].packet
  /\ \A i \in DOMAIN handled :
       /\ handled[i] <= Newest
       /\ \A k \in DOMAIN queue : handled[i] < queue[k].packet
       /\ proc = "handle" => handled[i] < pentry.packet

\* The connection's own callbacks, by where the recv thread is.
Events ==
  /\ recv \in Before \cup {"connected"} => events = <<>> /\ handled = <<>>
  /\ recv \in (InLoop \ {"connected"}) \cup Stopping => events = <<"CONNECTED">>
  /\ recv \in {"stop_send_buffer", "beach"} =>
       events = <<"CONNECTED">> \/ (events = <<>> /\ handled = <<>>)
  /\ recv = "end" =>
       Len(events) \in 1 .. 2 /\ (handled = <<>> \/ events[1] = "CONNECTED")

\* The inductive invariant.
IInv ==
  /\ TypeOK /\ Threads
  /\ OnePlace /\ BufferNotOverwritten /\ Received
  /\ HeapHeld /\ Order /\ HandledInOrder /\ Events
-----------------------------------------------------------------------------
\* What Append does, element by element.
LEMMA AppendFacts ==
  ASSUME NEW S, NEW q \in Seq(S), NEW e \in S
  PROVE  /\ Append(q, e) \in Seq(S)
         /\ Len(q) \in Nat /\ DOMAIN q = 1 .. Len(q)
         /\ Len(Append(q, e)) = Len(q) + 1
         /\ DOMAIN Append(q, e) = 1 .. Len(q) + 1
         /\ \A k \in 1 .. Len(q) : Append(q, e)[k] = q[k]
         /\ Append(q, e)[Len(q) + 1] = e
  OBVIOUS

\* What Head and Tail do, element by element.
LEMMA TailFacts ==
  ASSUME NEW S, NEW q \in Seq(S), q # <<>>
  PROVE  /\ Len(q) \in Nat /\ Len(q) >= 1 /\ DOMAIN q = 1 .. Len(q)
         /\ Head(q) \in S /\ Head(q) = q[1]
         /\ Tail(q) \in Seq(S) /\ Len(Tail(q)) = Len(q) - 1
         /\ DOMAIN Tail(q) = 1 .. Len(q) - 1
         /\ \A k \in 1 .. Len(q) - 1 : Tail(q)[k] = q[k + 1]
  OBVIOUS

\* The queue with an entry added at the end.
LEMMA AppendMembers ==
  ASSUME NEW q \in Seq(Entry), NEW e \in Entry
  PROVE  /\ Append(q, e) \in Seq(Entry)
         /\ \A k \in DOMAIN q : k \in DOMAIN Append(q, e) /\ Append(q, e)[k] = q[k]
         /\ \E n \in DOMAIN Append(q, e) :
              /\ Append(q, e)[n] = e
              /\ \A k \in DOMAIN Append(q, e) : k = n \/ (k \in DOMAIN q /\ k < n)
<1> DEFINE n == Len(q) + 1
<1>1. /\ n \in DOMAIN Append(q, e) /\ Append(q, e)[n] = e
      /\ \A k \in DOMAIN Append(q, e) : k = n \/ (k \in DOMAIN q /\ k < n)
  BY AppendFacts
<1>2. /\ Append(q, e) \in Seq(Entry)
      /\ \A k \in DOMAIN q : k \in DOMAIN Append(q, e) /\ Append(q, e)[k] = q[k]
  BY AppendFacts
<1> HIDE DEF n
<1> QED
  BY <1>1, <1>2

\* The rest of the queue after the first entry is taken.
LEMMA TailMembers ==
  ASSUME NEW q \in Seq(Entry), q # <<>>
  PROVE  /\ Head(q) \in Entry /\ 1 \in DOMAIN q /\ Head(q) = q[1]
         /\ Tail(q) \in Seq(Entry)
         /\ \A k \in DOMAIN Tail(q) : k + 1 \in DOMAIN q /\ Tail(q)[k] = q[k + 1]
         /\ \A j \in DOMAIN q : j = 1 \/ (j - 1 \in DOMAIN Tail(q) /\ Tail(q)[j - 1] = q[j])
  BY TailFacts

\* The queue may hold at least one entry.
LEMMA QueueMax == QUEUE_MAX \in Nat /\ QUEUE_MAX >= 1
<1>1. IsFiniteSet(Slots) /\ Slots # {}
  BY RecvAssumption
<1>2. Cardinality(Slots) \in Nat /\ Cardinality(Slots) # 0
  BY <1>1, FS_CardinalityType, FS_EmptySet
<1> QED
  BY <1>2 DEF QUEUE_MAX

\* Every step of the two workers and of chiaki_takion_close keeps the types.
LEMMA TypePreserved ==
  ASSUME IInv, [Next]_vars
  PROVE  TypeOK'
<1>0. TypeOK /\ Threads /\ Order /\ BufferNotOverwritten
  BY DEF IInv
<1> USE <1>0, RecvAssumption DEF TypeOK
<1>1. CASE Handshake
  BY <1>1 DEF Handshake
<1>2. CASE Setup
  <2>1. running' \in BOOLEAN /\ done' \in BOOLEAN
    BY <1>2, Zenon DEF Setup
  <2> QED
    BY <1>2, <2>1 DEF Setup
<1>3. CASE SetupFails
  <2>1. created' \subseteq {"pool", "process_thread", "send_buffer"}
    <3>1. CASE created' = created
      BY <3>1
    <3>2. CASE created' = {"send_buffer"}
      BY <3>2
    <3> QED
      BY <1>3, <3>1, <3>2 DEF SetupFails
  <2>2. recv' \in {"beach", "stop_send_buffer"}
    BY <1>3 DEF SetupFails
  <2>3. UNCHANGED <<rentry, proc, pentry, close, running, done, stop_pipe, pool, buf, queue, arrived, heap, handled, events>>
    BY <1>3 DEF SetupFails
  <2> QED
    BY <2>1, <2>2, <2>3
<1>4. CASE Connected
  BY <1>4 DEF Connected
<1>5. CASE Pop
  BY <1>5 DEF Pop
<1>6. CASE Receive
  <2>1. arrived' \in 1 .. MaxPackets
    BY <1>6 DEF Receive
  <2>2. rentry' \in Slots \cup {Heap, None} /\ recv' \in {"enqueue", "pop"}
    BY <1>6 DEF Receive
  <2>3. buf' \in [Slots -> 0 .. MaxPackets]
    BY <1>6, <2>1 DEF Receive
  <2>4. heap' \subseteq 1 .. MaxPackets
    BY <1>6, <2>1 DEF Receive
  <2> QED
    BY <1>6, <2>1, <2>2, <2>3, <2>4 DEF Receive
<1>7. CASE ReceiveFails
  BY <1>7 DEF ReceiveFails
<1>8. CASE Enqueue
  <2> DEFINE e == [slot |-> rentry, packet |-> arrived]
  <2>1. e \in Entry
    BY <1>8 DEF Threads, Order, Enqueue, Entry
  <2>2. CASE Len(queue) >= QUEUE_MAX
    <3>1. queue # <<>> /\ Len(queue) = QUEUE_MAX /\ queue' = Append(Tail(queue), e)
      BY <1>8, <2>2, QueueMax DEF Enqueue
    <3>2. Tail(queue) \in Seq(Entry) /\ Len(Tail(queue)) = QUEUE_MAX - 1
      BY <3>1, TailFacts
    <3>3. queue' \in Seq(Entry) /\ Len(queue') <= QUEUE_MAX
      BY <2>1, <3>1, <3>2, AppendFacts, QueueMax
    <3>4. pool' \subseteq Slots /\ heap' \subseteq 1 .. MaxPackets
      BY <1>8, <2>2, QueueMax DEF Enqueue, Release
    <3> QED
      BY <1>8, <3>3, <3>4 DEF Enqueue
  <2>3. CASE Len(queue) < QUEUE_MAX
    <3>1. queue' = Append(queue, e) /\ UNCHANGED <<pool, heap>>
      BY <1>8, <2>3, QueueMax DEF Enqueue
    <3>2. queue' \in Seq(Entry) /\ Len(queue') <= QUEUE_MAX
      BY <2>1, <2>3, <3>1, AppendFacts, QueueMax
    <3> QED
      BY <1>8, <3>1, <3>2 DEF Enqueue
  <2>4. Len(queue) \in Nat
    OBVIOUS
  <2> HIDE DEF TypeOK
  <2> QED
    BY <2>2, <2>3, <2>4, QueueMax
<1>9. CASE SignalProcess
  BY <1>9 DEF SignalProcess, WakeProcess
<1>10. CASE Shutdown
  <2>1. running' \in BOOLEAN
    BY <1>10, Zenon DEF Shutdown, WakeProcess
  <2> QED
    BY <1>10, <2>1 DEF Shutdown, WakeProcess
<1>11. CASE WaitDone
  BY <1>11 DEF WaitDone
<1>12. CASE Drain
  <2>1. queue' \in Seq(Entry) /\ Len(queue') <= QUEUE_MAX
    BY <1>12, QueueMax DEF Drain
  <2>2. pool' \subseteq Slots /\ heap' \subseteq 1 .. MaxPackets
    BY <1>12 DEF Drain
  <2> QED
    BY <1>12, <2>1, <2>2 DEF Drain
<1>13. CASE StopSendBuffer
  BY <1>13 DEF StopSendBuffer
<1>14. CASE Beach
  BY <1>14 DEF Beach
<1>15. CASE ProcessLoop
  <2>1. done' \in BOOLEAN
    BY <1>15, Zenon DEF ProcessLoop
  <2>2. CASE queue # <<>>
    <3>1. Head(queue) \in Entry /\ Tail(queue) \in Seq(Entry) /\ Len(Tail(queue)) <= QUEUE_MAX
      BY <2>2, TailFacts, QueueMax
    <3>2. pentry' = Head(queue) /\ queue' = Tail(queue) /\ proc' = "handle" /\ done' = done /\ recv' = recv
      BY <1>15, <2>2 DEF ProcessLoop
    <3>3. UNCHANGED <<rentry, close, running, created, stop_pipe, pool, buf, arrived, heap, handled, events>>
      BY <1>15 DEF ProcessLoop
    <3> QED
      BY <3>1, <3>2, <3>3
  <2>3. CASE queue = <<>>
    <3>1. queue' = queue /\ pentry' = pentry /\ proc' \in {"sleep", "end"}
      BY <1>15, <2>3 DEF ProcessLoop
    <3>2. recv' = recv \/ recv' = "wait_done"
      BY <1>15, <2>3 DEF ProcessLoop, WakeRecv
    <3>3. UNCHANGED <<rentry, close, running, created, stop_pipe, pool, buf, arrived, heap, handled, events>>
      BY <1>15 DEF ProcessLoop
    <3> QED
      BY <2>1, <3>1, <3>2, <3>3
  <2> QED
    BY <2>2, <2>3
<1>16. CASE Handle
  <2>1. pentry \in Entry
    BY <1>16 DEF Handle, Threads
  <2>2. pentry.slot \in Slots => buf[pentry.slot] = pentry.packet
    BY <1>16 DEF Handle, Threads, BufferNotOverwritten
  <2>3. pentry.packet \in 1 .. MaxPackets
    BY <2>1 DEF Entry
  <2>4. handled' = handled \/ handled' = Append(handled, pentry.packet)
    BY <1>16, <2>2 DEF Handle
  <2>5. handled' \in Seq(1 .. MaxPackets)
    <3> DEFINE P == 1 .. MaxPackets
    <3>1. handled \in Seq(P) /\ pentry.packet \in P
      BY <2>3
    <3> HIDE DEF P
    <3>2. Append(handled, pentry.packet) \in Seq(P)
      BY <3>1, AppendFacts
    <3> QED
      BY <2>4, <3>1, <3>2 DEF P
  <2>6. heap' \subseteq 1 .. MaxPackets
    BY <1>16 DEF Handle
  <2> QED
    BY <1>16, <2>5, <2>6 DEF Handle
<1>17. CASE ReturnSlot
  BY <1>17 DEF ReturnSlot
<1>18. CASE CloseStop
  <2>1. stop_pipe' \in BOOLEAN
    BY <1>18, Zenon DEF CloseStop
  <2> QED
    BY <1>18, <2>1 DEF CloseStop
<1>19. CASE CloseJoinRecv
  BY <1>19 DEF CloseJoinRecv
<1>20. CASE CloseJoinProcess
  BY <1>20 DEF CloseJoinProcess
<1>21. CASE CloseSendBuffer
  BY <1>21 DEF CloseSendBuffer
<1>22. CASE UNCHANGED vars
  BY <1>22 DEF vars
<1> QED
  BY <1>1, <1>2, <1>3, <1>4, <1>5, <1>6, <1>7, <1>8, <1>9, <1>10, <1>11,
     <1>12, <1>13, <1>14, <1>15, <1>16, <1>17, <1>18, <1>19, <1>20, <1>21,
     <1>22 DEF Next, RecvThread, ProcessThread, Close

\* Which thread is where, and holds what, stays consistent.
LEMMA ThreadsPreserved ==
  ASSUME IInv, [Next]_vars
  PROVE  Threads'
<1>0. TypeOK /\ TypeOK' /\ Threads
  BY TypePreserved DEF IInv
<1> USE <1>0, RecvAssumption DEF Threads, Before, InLoop, Stopping, After, Working
<1>1. CASE Handshake
  BY <1>1 DEF Handshake, TypeOK
<1>2. CASE Setup
  BY <1>2 DEF Setup, TypeOK
<1>3. CASE SetupFails
  BY <1>3 DEF SetupFails, TypeOK
<1>4. CASE Connected
  BY <1>4 DEF Connected, TypeOK
<1>5. CASE Pop
  BY <1>5 DEF Pop, TypeOK
<1>6. CASE Receive
  BY <1>6 DEF Receive, TypeOK
<1>7. CASE ReceiveFails
  BY <1>7 DEF ReceiveFails, TypeOK
<1>8. CASE Enqueue
  BY <1>8 DEF Enqueue, Release, TypeOK
<1>9. CASE SignalProcess
  BY <1>9 DEF SignalProcess, WakeProcess, TypeOK
<1>10. CASE Shutdown
  BY <1>10 DEF Shutdown, WakeProcess, TypeOK
<1>11. CASE WaitDone
  BY <1>11 DEF WaitDone, TypeOK
<1>12. CASE Drain
  BY <1>12 DEF Drain, TypeOK
<1>13. CASE StopSendBuffer
  BY <1>13 DEF StopSendBuffer, TypeOK
<1>14. CASE Beach
  BY <1>14 DEF Beach, TypeOK
<1>15. CASE ProcessLoop
  BY <1>15 DEF ProcessLoop, WakeRecv, TypeOK
<1>16. CASE Handle
  BY <1>16 DEF Handle, TypeOK
<1>17. CASE ReturnSlot
  BY <1>17 DEF ReturnSlot, TypeOK
<1>18. CASE CloseStop
  BY <1>18 DEF CloseStop, TypeOK
<1>19. CASE CloseJoinRecv
  BY <1>19 DEF CloseJoinRecv, TypeOK
<1>20. CASE CloseJoinProcess
  BY <1>20 DEF CloseJoinProcess, TypeOK
<1>21. CASE CloseSendBuffer
  BY <1>21 DEF CloseSendBuffer, TypeOK
<1>22. CASE UNCHANGED vars
  BY <1>22 DEF vars, TypeOK
<1> QED
  BY <1>1, <1>2, <1>3, <1>4, <1>5, <1>6, <1>7, <1>8, <1>9, <1>10, <1>11,
     <1>12, <1>13, <1>14, <1>15, <1>16, <1>17, <1>18, <1>19, <1>20, <1>21,
     <1>22 DEF Next, RecvThread, ProcessThread, Close

\* CONNECTED first, DISCONNECT last.
LEMMA EventsPreserved ==
  ASSUME IInv, [Next]_vars
  PROVE  Events'
<1>0. TypeOK /\ TypeOK' /\ Threads /\ Order /\ Events
  BY TypePreserved DEF IInv
<1> USE <1>0, RecvAssumption DEF Threads, Events, Before, InLoop, Stopping, After, Working
<1>1. CASE Handshake
  BY <1>1 DEF Handshake, TypeOK
<1>2. CASE Setup
  BY <1>2 DEF Setup, TypeOK
<1>3. CASE SetupFails
  BY <1>3 DEF SetupFails, TypeOK
<1>4. CASE Connected
  BY <1>4 DEF Connected, TypeOK
<1>5. CASE Pop
  BY <1>5 DEF Pop, TypeOK
<1>6. CASE Receive
  BY <1>6 DEF Receive, TypeOK
<1>7. CASE ReceiveFails
  BY <1>7 DEF ReceiveFails, TypeOK
<1>8. CASE Enqueue
  BY <1>8 DEF Enqueue, Release, TypeOK
<1>9. CASE SignalProcess
  BY <1>9 DEF SignalProcess, WakeProcess, TypeOK
<1>10. CASE Shutdown
  BY <1>10 DEF Shutdown, WakeProcess, TypeOK
<1>11. CASE WaitDone
  BY <1>11 DEF WaitDone, TypeOK
<1>12. CASE Drain
  BY <1>12 DEF Drain, TypeOK
<1>13. CASE StopSendBuffer
  BY <1>13 DEF StopSendBuffer, TypeOK
<1>14. CASE Beach
  <2>1. events' = Append(events, "DISCONNECT") /\ recv' = "end" /\ handled' = handled
    BY <1>14 DEF Beach
  <2>2. \/ events = <<>> /\ handled = <<>>
        \/ events = <<"CONNECTED">>
    BY <1>14 DEF Beach
  <2>3. Len(events) \in 0 .. 1 /\ (Len(events) = 1 => events[1] = "CONNECTED")
    BY <2>2
  <2>4. Len(events') \in 1 .. 2 /\ (Len(events) = 1 => events'[1] = "CONNECTED")
    <3> DEFINE E == {"CONNECTED", "DISCONNECT"}
    <3>1. events \in Seq(E) /\ "DISCONNECT" \in E
      BY DEF TypeOK
    <3> HIDE DEF E
    <3>2. /\ Len(Append(events, "DISCONNECT")) = Len(events) + 1
          /\ \A k \in 1 .. Len(events) : Append(events, "DISCONNECT")[k] = events[k]
      BY <3>1, AppendFacts
    <3>3. CASE Len(events) = 0
      BY <2>1, <3>2, <3>3
    <3>4. CASE Len(events) = 1
      BY <2>1, <2>3, <3>2, <3>4
    <3> QED
      BY <2>3, <3>3, <3>4
  <2> QED
    BY <2>1, <2>2, <2>4
<1>15. CASE ProcessLoop
  BY <1>15 DEF ProcessLoop, WakeRecv, TypeOK
<1>16. CASE Handle
  <2>1. recv \notin Before \cup After \cup {"connected"} /\ recv' = recv /\ events' = events
    BY <1>16 DEF Handle, Order, Newest, TypeOK, Entry
  <2> QED
    BY <2>1
<1>17. CASE ReturnSlot
  BY <1>17 DEF ReturnSlot, TypeOK
<1>18. CASE CloseStop
  BY <1>18 DEF CloseStop, TypeOK
<1>19. CASE CloseJoinRecv
  BY <1>19 DEF CloseJoinRecv, TypeOK
<1>20. CASE CloseJoinProcess
  BY <1>20 DEF CloseJoinProcess, TypeOK
<1>21. CASE CloseSendBuffer
  BY <1>21 DEF CloseSendBuffer, TypeOK
<1>22. CASE UNCHANGED vars
  BY <1>22 DEF vars, TypeOK
<1> QED
  BY <1>1, <1>2, <1>3, <1>4, <1>5, <1>6, <1>7, <1>8, <1>9, <1>10, <1>11,
     <1>12, <1>13, <1>14, <1>15, <1>16, <1>17, <1>18, <1>19, <1>20, <1>21,
     <1>22 DEF Next, RecvThread, ProcessThread, Close

\* Taking the first entry from the queue takes its slot.
LEMMA SlotsOfTail ==
  ASSUME NEW q \in Seq(Entry), q # <<>>, Distinct(q)
  PROVE  /\ SlotsOf(Tail(q)) = SlotsOf(q) \ {Head(q).slot}
         /\ Distinct(Tail(q))
         /\ Head(q).slot \in Slots => Head(q).slot \in SlotsOf(q)
<1> DEFINE t == Tail(q)
<1>1. /\ Len(q) \in Nat /\ Len(q) >= 1 /\ DOMAIN q = 1 .. Len(q)
      /\ Head(q) = q[1] /\ DOMAIN t = 1 .. Len(q) - 1
      /\ \A k \in 1 .. Len(q) - 1 : t[k] = q[k + 1]
  BY TailFacts
<1> HIDE DEF t
<1>2. Distinct(t)
  <2>1. \A k \in DOMAIN t : k + 1 \in DOMAIN q /\ t[k] = q[k + 1] /\ k \in Int
    BY <1>1
  <2> QED
    BY <2>1 DEF Distinct
<1>3. ASSUME NEW k \in DOMAIN t, t[k].slot \in Slots
      PROVE  t[k].slot \in SlotsOf(q) \ {q[1].slot}
  <2>1. k + 1 \in DOMAIN q /\ 1 \in DOMAIN q /\ k + 1 # 1 /\ t[k] = q[k + 1]
    BY <1>1
  <2> QED
    BY <1>3, <2>1 DEF SlotsOf, Distinct
<1>4. ASSUME NEW k \in DOMAIN q, q[k].slot \in Slots, q[k].slot # q[1].slot
      PROVE  q[k].slot \in SlotsOf(t)
  <2>1. k - 1 \in DOMAIN t /\ t[k - 1] = q[k]
    BY <1>1, <1>4
  <2> QED
    BY <1>4, <2>1 DEF SlotsOf
<1>5. SlotsOf(t) = SlotsOf(q) \ {q[1].slot}
  BY <1>3, <1>4 DEF SlotsOf
<1>6. 1 \in DOMAIN q
  BY <1>1
<1> QED
  BY <1>1, <1>2, <1>5, <1>6 DEF SlotsOf, t

\* Adding an entry adds its slot.
LEMMA SlotsOfAppend ==
  ASSUME NEW q \in Seq(Entry), NEW e \in Entry, Distinct(q), e.slot \notin SlotsOf(q)
  PROVE  /\ SlotsOf(Append(q, e)) = SlotsOf(q) \cup ({e.slot} \cap Slots)
         /\ Distinct(Append(q, e))
<1> DEFINE t == Append(q, e)
           n == Len(q) + 1
<1>1. /\ Len(q) \in Nat /\ DOMAIN q = 1 .. Len(q) /\ DOMAIN t = 1 .. n
      /\ \A k \in 1 .. Len(q) : t[k] = q[k]
      /\ t[n] = e
  BY AppendFacts
<1>2. n \in DOMAIN t /\ \A k \in DOMAIN t : k = n \/ (k \in DOMAIN q /\ t[k] = q[k])
  BY <1>1
<1>3. \A k \in DOMAIN q : k \in DOMAIN t /\ t[k] = q[k] /\ k # n
  BY <1>1
<1>4. \A k \in DOMAIN q : q[k].slot \in Slots => q[k].slot # e.slot
  BY DEF SlotsOf
<1> HIDE DEF t, n
<1>5. Distinct(t)
  BY <1>1, <1>2, <1>4 DEF Distinct
<1>6. SlotsOf(t) = SlotsOf(q) \cup ({e.slot} \cap Slots)
  BY <1>1, <1>2, <1>3 DEF SlotsOf
<1> QED
  BY <1>5, <1>6 DEF t

\* Datagrams are numbers wherever they are.
LEMMA PacketTypes ==
  ASSUME TypeOK
  PROVE  /\ \A k \in DOMAIN queue : queue[k].packet \in Nat
         /\ pentry # None => pentry.packet \in Nat
         /\ \A i \in DOMAIN handled : handled[i] \in Nat
<1>1. \A e \in Entry : e.packet \in Nat
  BY RecvAssumption DEF Entry
<1>2. \A k \in DOMAIN queue : queue[k] \in Entry
  BY DEF TypeOK
<1>3. pentry # None => pentry \in Entry
  BY DEF TypeOK
<1>4. \A i \in DOMAIN handled : handled[i] \in Nat
  <2> DEFINE P == 1 .. MaxPackets
  <2>1. handled \in Seq(P) /\ \A p \in P : p \in Nat
    BY RecvAssumption DEF TypeOK
  <2> HIDE DEF P
  <2> QED
    BY <2>1
<1> QED
  BY <1>1, <1>2, <1>3, <1>4

\* Every pooled entry stays in one place.
LEMMA PoolPreserved ==
  ASSUME IInv, [Next]_vars
  PROVE  OnePlace'
<1>0. TypeOK /\ TypeOK' /\ Threads /\ Order /\ OnePlace
  BY TypePreserved DEF IInv
<1> USE <1>0, RecvAssumption
<1>1. CASE Handshake
  BY <1>1 DEF Handshake, Threads, OnePlace, RecvSlots, ProcessSlots, TypeOK
<1>2. CASE Setup
  <2>1. /\ queue' = <<>> /\ pentry' = None /\ rentry' = None
        /\ pool' = IF "pool" \in created' THEN Slots ELSE {}
    BY <1>2 DEF Setup, Threads, Before
  <2>2. SlotsOf(queue') = {} /\ Distinct(queue')
    BY <2>1 DEF SlotsOf, Distinct
  <2> QED
    BY <2>1, <2>2 DEF OnePlace, RecvSlots, ProcessSlots
<1>3. CASE SetupFails
  <2>1. "pool" \notin created /\ "pool" \notin created'
    BY <1>3 DEF SetupFails, Threads, Before
  <2> QED
    BY <1>3, <2>1 DEF SetupFails, OnePlace, RecvSlots, ProcessSlots
<1>4. CASE Connected
  BY <1>4 DEF Connected, Threads, OnePlace, RecvSlots, ProcessSlots, TypeOK
<1>5. CASE Pop
  <2>1. RecvSlots = {}
    BY <1>5 DEF Pop, Threads, RecvSlots
  <2>2. UNCHANGED <<queue, created>> /\ ProcessSlots' = ProcessSlots
    BY <1>5 DEF Pop, ProcessSlots
  <2>3. \/ \E s \in pool : RecvSlots' = {s} /\ pool' = pool \ {s}
        \/ RecvSlots' = {} /\ pool' = pool
    BY <1>5 DEF Pop, RecvSlots, Threads, TypeOK
  <2> HIDE <1>0
  <2>4. OnePlace
    BY <1>0
  <2>5. CASE RecvSlots' = {} /\ pool' = pool
    BY <2>1, <2>2, <2>4, <2>5 DEF OnePlace
  <2>6. ASSUME NEW s \in pool, RecvSlots' = {s}, pool' = pool \ {s} PROVE OnePlace'
    BY <2>1, <2>2, <2>4, <2>6 DEF OnePlace
  <2> QED
    BY <2>3, <2>5, <2>6
<1>6. CASE Receive
  BY <1>6 DEF Receive, Threads, OnePlace, RecvSlots, ProcessSlots, TypeOK
<1>7. CASE ReceiveFails
  BY <1>7 DEF ReceiveFails, Threads, OnePlace, RecvSlots, ProcessSlots, TypeOK
<1>8. CASE Enqueue
  <2> DEFINE e == [slot |-> rentry, packet |-> arrived]
  <2>1. /\ e \in Entry /\ RecvSlots = {e.slot} \cap Slots
        /\ RecvSlots' = {} /\ ProcessSlots' = ProcessSlots /\ created' = created
    BY <1>8 DEF Enqueue, Threads, Order, Entry, RecvSlots, ProcessSlots, TypeOK
  <2>2. queue \in Seq(Entry) /\ e.slot \notin SlotsOf(queue)
    BY <2>1 DEF OnePlace, TypeOK, SlotsOf
  <2>3. CASE Len(queue) >= QUEUE_MAX
    <3>1. /\ queue # <<>> /\ queue' = Append(Tail(queue), e)
          /\ pool' = pool \cup ({Head(queue).slot} \cap Slots)
      BY <1>8, <2>3, QueueMax DEF Enqueue, Release
    <3>2. /\ Tail(queue) \in Seq(Entry)
          /\ SlotsOf(Tail(queue)) = SlotsOf(queue) \ {Head(queue).slot}
          /\ Distinct(Tail(queue))
          /\ Head(queue).slot \in Slots => Head(queue).slot \in SlotsOf(queue)
      BY <2>2, <3>1, SlotsOfTail, TailFacts DEF OnePlace
    <3> HIDE DEF e
    <3>3. /\ SlotsOf(queue') = SlotsOf(Tail(queue)) \cup RecvSlots
          /\ Distinct(queue')
      BY <2>1, <2>2, <3>1, <3>2, SlotsOfAppend
    <3> QED
      BY <2>1, <3>1, <3>2, <3>3 DEF OnePlace
  <2>4. CASE Len(queue) < QUEUE_MAX
    <3>1. queue' = Append(queue, e) /\ pool' = pool
      BY <1>8, <2>4, QueueMax DEF Enqueue, TypeOK
    <3> HIDE DEF e
    <3>2. SlotsOf(queue') = SlotsOf(queue) \cup RecvSlots /\ Distinct(queue')
      BY <2>1, <2>2, <3>1, SlotsOfAppend DEF OnePlace
    <3> QED
      BY <2>1, <3>1, <3>2 DEF OnePlace
  <2> QED
    BY <2>3, <2>4, QueueMax DEF TypeOK
<1>9. CASE SignalProcess
  BY <1>9 DEF SignalProcess, WakeProcess, Threads, OnePlace, RecvSlots, ProcessSlots, TypeOK
<1>10. CASE Shutdown
  BY <1>10 DEF Shutdown, WakeProcess, Threads, OnePlace, RecvSlots, ProcessSlots, TypeOK
<1>11. CASE WaitDone
  BY <1>11 DEF WaitDone, Threads, OnePlace, RecvSlots, ProcessSlots, TypeOK
<1>12. CASE Drain
  <2>1. pool' = pool \cup SlotsOf(queue) /\ queue' = <<>>
    BY <1>12 DEF Drain, SlotsOf
  <2>2. SlotsOf(queue') = {} /\ Distinct(queue')
    BY <2>1 DEF SlotsOf, Distinct
  <2> QED
    BY <1>12, <2>1, <2>2 DEF Drain, OnePlace, RecvSlots, ProcessSlots
<1>13. CASE StopSendBuffer
  BY <1>13 DEF StopSendBuffer, Threads, OnePlace, RecvSlots, ProcessSlots, TypeOK
<1>14. CASE Beach
  BY <1>14 DEF Beach, Threads, OnePlace, RecvSlots, ProcessSlots, TypeOK
<1>15. CASE ProcessLoop
  <2>1. RecvSlots' = RecvSlots /\ UNCHANGED <<pool, created>>
    BY <1>15 DEF ProcessLoop, RecvSlots
  <2>2. CASE queue # <<>>
    <3>1. pentry' = Head(queue) /\ queue' = Tail(queue) /\ pentry = None
      BY <1>15, <2>2 DEF ProcessLoop, Threads
    <3>2. /\ Head(queue) \in Entry
          /\ SlotsOf(queue') = SlotsOf(queue) \ {Head(queue).slot}
          /\ Distinct(queue')
          /\ Head(queue).slot \in Slots => Head(queue).slot \in SlotsOf(queue)
      BY <2>2, <3>1, SlotsOfTail, TailFacts DEF OnePlace, TypeOK
    <3>3. ProcessSlots = {} /\ ProcessSlots' = {Head(queue).slot} \cap Slots
      BY <3>1, <3>2 DEF ProcessSlots
    <3> QED
      BY <2>1, <3>2, <3>3 DEF OnePlace
  <2>3. CASE queue = <<>>
    BY <1>15, <2>1, <2>3 DEF ProcessLoop, OnePlace, ProcessSlots
  <2> QED
    BY <2>2, <2>3
<1>16. CASE Handle
  BY <1>16 DEF Handle, Threads, OnePlace, RecvSlots, ProcessSlots, TypeOK
<1>17. CASE ReturnSlot
  <2>1. ProcessSlots' = {} /\ pool' = pool \cup ProcessSlots
    BY <1>17 DEF ReturnSlot, ProcessSlots, Threads
  <2> QED
    BY <1>17, <2>1 DEF ReturnSlot, OnePlace, RecvSlots
<1>18. CASE CloseStop
  BY <1>18 DEF CloseStop, Threads, OnePlace, RecvSlots, ProcessSlots, TypeOK
<1>19. CASE CloseJoinRecv
  BY <1>19 DEF CloseJoinRecv, Threads, OnePlace, RecvSlots, ProcessSlots, TypeOK
<1>20. CASE CloseJoinProcess
  <2>1. queue = <<>> /\ pentry = None /\ rentry = None
    BY <1>20 DEF CloseJoinProcess, Threads
  <2>2. SlotsOf(queue) = {}
    BY <2>1 DEF SlotsOf
  <2> QED
    BY <1>20, <2>1, <2>2 DEF CloseJoinProcess, OnePlace, RecvSlots, ProcessSlots
<1>21. CASE CloseSendBuffer
  BY <1>21 DEF CloseSendBuffer, Threads, OnePlace, RecvSlots, ProcessSlots, TypeOK
<1>22. CASE UNCHANGED vars
  BY <1>22 DEF vars, OnePlace, RecvSlots, ProcessSlots
<1> QED
  BY <1>1, <1>2, <1>3, <1>4, <1>5, <1>6, <1>7, <1>8, <1>9, <1>10, <1>11,
     <1>12, <1>13, <1>14, <1>15, <1>16, <1>17, <1>18, <1>19, <1>20, <1>21,
     <1>22 DEF Next, RecvThread, ProcessThread, Close

\* No buffer is received into while an entry that waits or is handled needs it.
LEMMA BuffersPreserved ==
  ASSUME IInv, [Next]_vars
  PROVE  BufferNotOverwritten' /\ Received'
<1>0. TypeOK /\ TypeOK' /\ Threads /\ Order /\ OnePlace /\ BufferNotOverwritten /\ Received
  BY TypePreserved DEF IInv
<1> USE <1>0, RecvAssumption
<1>1. CASE Handshake
  BY <1>1 DEF Handshake, Threads, BufferNotOverwritten, Received, TypeOK
<1>2. CASE Setup
  BY <1>2 DEF Setup, Threads, BufferNotOverwritten, Received, TypeOK
<1>3. CASE SetupFails
  BY <1>3 DEF SetupFails, Threads, BufferNotOverwritten, Received, TypeOK
<1>4. CASE Connected
  BY <1>4 DEF Connected, Threads, BufferNotOverwritten, Received, TypeOK
<1>5. CASE Pop
  BY <1>5 DEF Pop, Threads, BufferNotOverwritten, Received, TypeOK
<1>6. CASE Receive
  <2>1. /\ UNCHANGED <<queue, pentry>> /\ arrived' \in Nat
        /\ rentry \in Slots \cup {Heap}
    BY <1>6 DEF Receive, Threads, TypeOK
  <2>2. CASE rentry \in Slots
    <3>1. buf' = [buf EXCEPT ![rentry] = arrived'] /\ rentry' = rentry
      BY <1>6, <2>2 DEF Receive
    <3>2. \A k \in DOMAIN queue : queue[k].slot \in Slots => queue[k].slot # rentry
      BY <2>2 DEF OnePlace, RecvSlots, SlotsOf
    <3>3. pentry # None /\ pentry.slot \in Slots => pentry.slot # rentry
      BY <2>2 DEF OnePlace, RecvSlots, ProcessSlots
    <3>4. buf'[rentry] = arrived' /\ \A x \in Slots : x # rentry => buf'[x] = buf[x]
      BY <2>2, <3>1 DEF TypeOK
    <3> QED
      BY <2>1, <3>1, <3>2, <3>3, <3>4 DEF BufferNotOverwritten, Received
  <2>3. CASE rentry = Heap
    BY <1>6, <2>1, <2>3 DEF Receive, BufferNotOverwritten, Received
  <2> QED
    BY <2>1, <2>2, <2>3
<1>7. CASE ReceiveFails
  BY <1>7 DEF ReceiveFails, Threads, BufferNotOverwritten, Received, TypeOK
<1>8. CASE Enqueue
  <2> DEFINE e == [slot |-> rentry, packet |-> arrived]
  <2>1. /\ UNCHANGED <<buf, pentry>> /\ recv' = "signal"
        /\ e \in Entry /\ (e.slot \in Slots => buf[e.slot] = e.packet)
    BY <1>8 DEF Enqueue, Threads, Order, Entry, Received, TypeOK
  <2>2. \E q \in {queue, Tail(queue)} :
          queue' = Append(q, e) /\ (q = queue \/ queue # <<>>)
    BY <1>8, QueueMax DEF Enqueue, TypeOK
  <2>3. PICK q \in {queue, Tail(queue)} :
          queue' = Append(q, e) /\ (q = queue \/ queue # <<>>)
    BY <2>2
  <2>4. q \in Seq(Entry) /\ \A k \in DOMAIN q : \E j \in DOMAIN queue : q[k] = queue[j]
    <3>1. CASE q = queue
      BY <3>1 DEF TypeOK
    <3>2. CASE q = Tail(queue) /\ queue # <<>>
      BY <3>2, TailMembers DEF TypeOK
    <3> QED
      BY <2>3, <3>1, <3>2
  <2> HIDE DEF e
  <2>5. \A k \in DOMAIN queue' : queue'[k] = e \/ \E j \in DOMAIN queue : queue'[k] = queue[j]
    BY <2>1, <2>3, <2>4, AppendFacts
  <2> QED
    BY <2>1, <2>5 DEF BufferNotOverwritten, Received
<1>9. CASE SignalProcess
  BY <1>9 DEF SignalProcess, WakeProcess, Threads, BufferNotOverwritten, Received, TypeOK
<1>10. CASE Shutdown
  BY <1>10 DEF Shutdown, WakeProcess, Threads, BufferNotOverwritten, Received, TypeOK
<1>11. CASE WaitDone
  BY <1>11 DEF WaitDone, Threads, BufferNotOverwritten, Received, TypeOK
<1>12. CASE Drain
  <2>1. queue' = <<>> /\ UNCHANGED <<pentry, buf>> /\ recv' = "stop_send_buffer"
    BY <1>12 DEF Drain
  <2> QED
    BY <2>1 DEF BufferNotOverwritten, Received
<1>13. CASE StopSendBuffer
  BY <1>13 DEF StopSendBuffer, Threads, BufferNotOverwritten, Received, TypeOK
<1>14. CASE Beach
  BY <1>14 DEF Beach, Threads, BufferNotOverwritten, Received, TypeOK
<1>15. CASE ProcessLoop
  <2>1. UNCHANGED <<buf, arrived, rentry>> /\ (recv' = "enqueue" => recv = "enqueue")
    BY <1>15 DEF ProcessLoop, WakeRecv
  <2>2. CASE queue # <<>>
    <3>1. pentry' = Head(queue) /\ queue' = Tail(queue)
      BY <1>15, <2>2 DEF ProcessLoop
    <3>0. queue \in Seq(Entry)
      BY DEF TypeOK
    <3>f. /\ Len(queue) \in Nat /\ Len(queue) >= 1 /\ DOMAIN queue = 1 .. Len(queue) /\ pentry' = queue[1]
          /\ DOMAIN queue' = 1 .. Len(queue) - 1 /\ \A k \in 1 .. Len(queue) - 1 : queue'[k] = queue[k + 1]
      BY <2>2, <3>0, <3>1, TailFacts
    <3>2. \A k \in DOMAIN queue' : \E j \in DOMAIN queue : queue'[k] = queue[j]
      <4>1. \A k \in 1 .. Len(queue) - 1 : k + 1 \in 1 .. Len(queue)
        BY <3>f
      <4> QED
        BY <3>f, <4>1
    <3>3. \E j \in DOMAIN queue : pentry' = queue[j]
      BY <3>f
    <3>4. \A j \in DOMAIN queue : queue[j].slot \in Slots => buf'[queue[j].slot] = queue[j].packet
      BY <2>1 DEF BufferNotOverwritten
    <3>5. BufferNotOverwritten'
      BY <3>2, <3>3, <3>4 DEF BufferNotOverwritten
    <3> QED
      BY <2>1, <3>5 DEF Received
  <2>3. CASE queue = <<>>
    BY <1>15, <2>1, <2>3 DEF ProcessLoop, BufferNotOverwritten, Received
  <2> QED
    BY <2>2, <2>3
<1>16. CASE Handle
  BY <1>16 DEF Handle, Threads, BufferNotOverwritten, Received, TypeOK
<1>17. CASE ReturnSlot
  BY <1>17 DEF ReturnSlot, Threads, BufferNotOverwritten, Received, TypeOK
<1>18. CASE CloseStop
  BY <1>18 DEF CloseStop, Threads, BufferNotOverwritten, Received, TypeOK
<1>19. CASE CloseJoinRecv
  BY <1>19 DEF CloseJoinRecv, Threads, BufferNotOverwritten, Received, TypeOK
<1>20. CASE CloseJoinProcess
  BY <1>20 DEF CloseJoinProcess, Threads, BufferNotOverwritten, Received, TypeOK
<1>21. CASE CloseSendBuffer
  BY <1>21 DEF CloseSendBuffer, Threads, BufferNotOverwritten, Received, TypeOK
<1>22. CASE UNCHANGED vars
  BY <1>22 DEF vars, BufferNotOverwritten, Received
<1> QED
  BY <1>1, <1>2, <1>3, <1>4, <1>5, <1>6, <1>7, <1>8, <1>9, <1>10, <1>11,
     <1>12, <1>13, <1>14, <1>15, <1>16, <1>17, <1>18, <1>19, <1>20, <1>21,
     <1>22 DEF Next, RecvThread, ProcessThread, Close

\* A malloc'ed buffer always has an owner that will free it.
LEMMA HeapPreserved ==
  ASSUME IInv, [Next]_vars
  PROVE  HeapHeld'
<1>0. TypeOK /\ TypeOK' /\ Threads /\ Order /\ HeapHeld
  BY TypePreserved DEF IInv
<1> USE <1>0, RecvAssumption
<1>1. CASE Handshake
  BY <1>1 DEF Handshake, Threads, HeapHeld, TypeOK
<1>2. CASE Setup
  <2>1. heap = {}
    BY <1>2 DEF Setup, Threads, Before, HeapHeld
  <2> QED
    BY <1>2, <2>1 DEF Setup, HeapHeld
<1>3. CASE SetupFails
  BY <1>3 DEF SetupFails, Threads, HeapHeld, TypeOK
<1>4. CASE Connected
  BY <1>4 DEF Connected, Threads, HeapHeld, TypeOK
<1>5. CASE Pop
  BY <1>5 DEF Pop, Threads, HeapHeld, TypeOK
<1>6. CASE Receive
  BY <1>6 DEF Receive, Threads, HeapHeld, TypeOK
<1>7. CASE ReceiveFails
  BY <1>7 DEF ReceiveFails, Threads, HeapHeld, TypeOK
<1>8. CASE Enqueue
  <2> DEFINE e == [slot |-> rentry, packet |-> arrived]
  <2>1. /\ UNCHANGED <<proc, pentry>> /\ recv = "enqueue" /\ e \in Entry
        /\ e.slot = rentry /\ e.packet = arrived /\ queue \in Seq(Entry)
    BY <1>8 DEF Enqueue, Threads, Order, Entry, TypeOK
  <2>2. CASE Len(queue) >= QUEUE_MAX
    <3>1. /\ queue # <<>> /\ queue' = Append(Tail(queue), e)
          /\ heap' = IF Head(queue).slot = Heap THEN heap \ {Head(queue).packet} ELSE heap
      BY <1>8, <2>2, QueueMax DEF Enqueue, Release
    <3> HIDE DEF e
    <3>2. /\ \A k \in DOMAIN Tail(queue) : k \in DOMAIN queue' /\ queue'[k] = Tail(queue)[k]
          /\ \E k \in DOMAIN queue' : queue'[k] = e
      <4> DEFINE t == Tail(queue)
      <4>1. t \in Seq(Entry) /\ queue' = Append(t, e)
        BY <2>1, <3>1, TailMembers
      <4> HIDE DEF t
      <4>2. e \in Entry
        BY <2>1
      <4>3. \A k \in DOMAIN t : k \in DOMAIN Append(t, e) /\ Append(t, e)[k] = t[k]
        BY <4>1, <4>2, AppendMembers
      <4>4. \E k \in DOMAIN Append(t, e) : Append(t, e)[k] = e
        BY <4>1, <4>2, AppendMembers
      <4> QED
        BY <4>1, <4>3, <4>4 DEF t
    <3>3. ASSUME NEW m \in heap', NEW j \in DOMAIN queue,
                 queue[j].slot = Heap, queue[j].packet = m
          PROVE  \E k \in DOMAIN queue' : queue'[k].slot = Heap /\ queue'[k].packet = m
      <4>1. j # 1
        BY <3>1, <3>3, TailMembers DEF TypeOK
      <4>2. j - 1 \in DOMAIN Tail(queue) /\ Tail(queue)[j - 1] = queue[j]
        BY <3>1, <4>1, TailMembers DEF TypeOK
      <4> QED
        BY <3>2, <3>3, <4>2
    <3>4. heap' \subseteq heap
      BY <3>1
    <3> QED
      BY <2>1, <3>2, <3>3, <3>4 DEF HeapHeld
  <2>3. CASE Len(queue) < QUEUE_MAX
    <3>1. queue' = Append(queue, e) /\ heap' = heap
      BY <1>8, <2>3, QueueMax DEF Enqueue, TypeOK
    <3> HIDE DEF e
    <3>2. /\ \A k \in DOMAIN queue : k \in DOMAIN queue' /\ queue'[k] = queue[k]
          /\ \E k \in DOMAIN queue' : queue'[k] = e
      BY <2>1, <3>1, AppendMembers
    <3> QED
      BY <2>1, <3>1, <3>2 DEF HeapHeld
  <2> QED
    BY <2>2, <2>3, QueueMax DEF TypeOK
<1>9. CASE SignalProcess
  BY <1>9 DEF SignalProcess, WakeProcess, Threads, HeapHeld, TypeOK
<1>10. CASE Shutdown
  BY <1>10 DEF Shutdown, WakeProcess, Threads, HeapHeld, TypeOK
<1>11. CASE WaitDone
  BY <1>11 DEF WaitDone, Threads, HeapHeld, TypeOK
<1>12. CASE Drain
  BY <1>12 DEF Drain, Threads, HeapHeld, TypeOK
<1>13. CASE StopSendBuffer
  BY <1>13 DEF StopSendBuffer, Threads, HeapHeld, TypeOK
<1>14. CASE Beach
  BY <1>14 DEF Beach, Threads, HeapHeld, TypeOK
<1>15. CASE ProcessLoop
  <2>1. /\ UNCHANGED <<heap, rentry, arrived>> /\ proc # "handle"
        /\ recv = "enqueue" => recv' = "enqueue"
    BY <1>15 DEF ProcessLoop, WakeRecv
  <2>2. CASE queue # <<>>
    <3>1. pentry' = Head(queue) /\ queue' = Tail(queue) /\ proc' = "handle"
      BY <1>15, <2>2 DEF ProcessLoop
    <3>2. \A j \in DOMAIN queue :
            queue[j] = pentry' \/ \E k \in DOMAIN queue' : queue'[k] = queue[j]
      BY <2>2, <3>1, TailMembers DEF TypeOK
    <3> QED
      BY <2>1, <3>1, <3>2 DEF HeapHeld
  <2>3. CASE queue = <<>>
    BY <1>15, <2>1, <2>3 DEF ProcessLoop, HeapHeld
  <2> QED
    BY <2>2, <2>3
<1>16. CASE Handle
  BY <1>16 DEF Handle, Threads, HeapHeld, TypeOK
<1>17. CASE ReturnSlot
  BY <1>17 DEF ReturnSlot, Threads, HeapHeld, TypeOK
<1>18. CASE CloseStop
  BY <1>18 DEF CloseStop, Threads, HeapHeld, TypeOK
<1>19. CASE CloseJoinRecv
  BY <1>19 DEF CloseJoinRecv, Threads, HeapHeld, TypeOK
<1>20. CASE CloseJoinProcess
  BY <1>20 DEF CloseJoinProcess, Threads, HeapHeld, TypeOK
<1>21. CASE CloseSendBuffer
  BY <1>21 DEF CloseSendBuffer, Threads, HeapHeld, TypeOK
<1>22. CASE UNCHANGED vars
  BY <1>22 DEF vars, HeapHeld
<1> QED
  BY <1>1, <1>2, <1>3, <1>4, <1>5, <1>6, <1>7, <1>8, <1>9, <1>10, <1>11,
     <1>12, <1>13, <1>14, <1>15, <1>16, <1>17, <1>18, <1>19, <1>20, <1>21,
     <1>22 DEF Next, RecvThread, ProcessThread, Close

\* Datagrams stay in the order of their arrival from the socket to their handler.
LEMMA OrderPreserved ==
  ASSUME IInv, [Next]_vars
  PROVE  Order' /\ HandledInOrder'
<1>0. TypeOK /\ TypeOK' /\ Threads /\ Order /\ BufferNotOverwritten /\ HandledInOrder
  BY TypePreserved DEF IInv
<1> USE <1>0, RecvAssumption
<1>1. CASE Handshake
  BY <1>1 DEF Handshake, Threads, Order, HandledInOrder, Newest, Before, TypeOK
<1>2. CASE Setup
  BY <1>2 DEF Setup, Threads, Order, HandledInOrder, Newest, Before, TypeOK
<1>3. CASE SetupFails
  BY <1>3 DEF SetupFails, Threads, Order, HandledInOrder, Newest, Before, TypeOK
<1>4. CASE Connected
  BY <1>4 DEF Connected, Threads, Order, HandledInOrder, Newest, Before, TypeOK
<1>5. CASE Pop
  BY <1>5 DEF Pop, Threads, Order, HandledInOrder, Newest, Before, TypeOK
<1>6. CASE Receive
  <2>1. /\ UNCHANGED <<queue, pentry, proc, handled>> /\ Newest \in Nat /\ Newest <= Newest'
        /\ Newest' \in Nat /\ recv' \in {"enqueue", "pop"} /\ (recv' = "enqueue" => arrived' > 0)
    BY <1>6 DEF Receive, Newest, TypeOK
  <2>2. /\ \A k \in DOMAIN queue : queue[k].packet \in Nat
        /\ pentry # None => pentry.packet \in Nat
        /\ \A i \in DOMAIN handled : handled[i] \in Nat
    BY PacketTypes
  <2> QED
    BY <2>1, <2>2 DEF Order, HandledInOrder, Before
<1>7. CASE ReceiveFails
  BY <1>7 DEF ReceiveFails, Threads, Order, HandledInOrder, Newest, Before, TypeOK
<1>8. CASE Enqueue
  <2> DEFINE e == [slot |-> rentry, packet |-> arrived]
  <2>1. /\ UNCHANGED <<proc, pentry, handled>> /\ recv' = "signal"
        /\ e \in Entry /\ e.packet = arrived /\ queue \in Seq(Entry)
        /\ arrived \in Nat /\ Newest = arrived - 1 /\ Newest' = arrived
    BY <1>8 DEF Enqueue, Threads, Order, Entry, Newest, TypeOK
  <2>2. /\ \A k \in DOMAIN queue : queue[k].packet \in Nat
        /\ pentry # None => pentry.packet \in Nat
        /\ \A i \in DOMAIN handled : handled[i] \in Nat
    BY PacketTypes
  <2>3. ASSUME NEW q \in Seq(Entry), queue' = Append(q, e),
               \A k \in DOMAIN q : q[k].packet \in Nat,
               \A k \in DOMAIN q : q[k].packet <= Newest,
               \A j, k \in DOMAIN q : j < k => q[j].packet < q[k].packet,
               pentry # None => \A k \in DOMAIN q : pentry.packet < q[k].packet,
               \A i \in DOMAIN handled : \A k \in DOMAIN q : handled[i] < q[k].packet
        PROVE  Order' /\ HandledInOrder'
    <3> HIDE DEF e
    <3>1. PICK n \in DOMAIN queue' :
            /\ queue'[n] = e
            /\ \A k \in DOMAIN queue' : k = n \/ (k \in DOMAIN q /\ k < n)
      BY <2>1, <2>3, AppendMembers
    <3>2. \A k \in DOMAIN queue' : k = n \/ (k \in DOMAIN q /\ k < n /\ queue'[k] = q[k])
      BY <2>1, <2>3, <3>1, AppendMembers
    <3>3. queue'[n].packet = arrived
      BY <2>1, <3>1
    <3>4. DOMAIN queue' \subseteq Nat
      <4>1. queue' \in Seq(Entry)
        BY DEF TypeOK
      <4>2. DOMAIN queue' = 1 .. Len(queue') /\ Len(queue') \in Nat
        BY <4>1
      <4> QED
        BY <4>2
    <3>5. \A k \in DOMAIN queue' : queue'[k].packet <= Newest'
      BY <2>1, <2>3, <3>2, <3>3
    <3>6. \A j, k \in DOMAIN queue' : j < k => queue'[j].packet < queue'[k].packet
      BY <2>1, <2>3, <3>2, <3>3, <3>4
    <3>7. pentry # None =>
            pentry.packet <= Newest' /\ \A k \in DOMAIN queue' : pentry.packet < queue'[k].packet
      BY <2>1, <2>2, <2>3, <3>2, <3>3 DEF Order
    <3>8. \A i \in DOMAIN handled :
            handled[i] <= Newest' /\ \A k \in DOMAIN queue' : handled[i] < queue'[k].packet
      BY <2>1, <2>2, <2>3, <3>2, <3>3 DEF Order
    <3> QED
      BY <2>1, <3>5, <3>6, <3>7, <3>8 DEF Order, HandledInOrder, Before
  <2> HIDE DEF e
  <2>4. CASE queue' = Append(queue, e)
    BY <2>1, <2>2, <2>3, <2>4 DEF Order
  <2>5. CASE queue # <<>> /\ queue' = Append(Tail(queue), e)
    <3> DEFINE q == Tail(queue)
    <3>1. /\ q \in Seq(Entry) /\ queue' = Append(q, e)
          /\ \A k \in DOMAIN q : k + 1 \in DOMAIN queue /\ q[k] = queue[k + 1]
      BY <2>1, <2>5, TailMembers
    <3> HIDE DEF q
    <3>2. DOMAIN q \subseteq Nat
      BY <3>1
    <3>3. \A j, k \in DOMAIN q : j < k => q[j].packet < q[k].packet
      BY <3>1, <3>2 DEF Order
    <3>4. /\ \A k \in DOMAIN q : q[k].packet \in Nat
          /\ \A k \in DOMAIN q : q[k].packet <= Newest
          /\ pentry # None => \A k \in DOMAIN q : pentry.packet < q[k].packet
          /\ \A i \in DOMAIN handled : \A k \in DOMAIN q : handled[i] < q[k].packet
      BY <2>2, <3>1 DEF Order
    <3> QED
      BY <2>3, <3>1, <3>3, <3>4
  <2> QED
    BY <1>8, <2>4, <2>5, QueueMax DEF Enqueue, TypeOK, e
<1>9. CASE SignalProcess
  BY <1>9 DEF SignalProcess, WakeProcess, Threads, Order, HandledInOrder, Newest, Before, TypeOK
<1>10. CASE Shutdown
  BY <1>10 DEF Shutdown, WakeProcess, Threads, Order, HandledInOrder, Newest, Before, TypeOK
<1>11. CASE WaitDone
  BY <1>11 DEF WaitDone, Threads, Order, HandledInOrder, Newest, Before, TypeOK
<1>12. CASE Drain
  BY <1>12 DEF Drain, Threads, Order, HandledInOrder, Newest, Before, TypeOK
<1>13. CASE StopSendBuffer
  BY <1>13 DEF StopSendBuffer, Threads, Order, HandledInOrder, Newest, Before, TypeOK
<1>14. CASE Beach
  BY <1>14 DEF Beach, Threads, Order, HandledInOrder, Newest, Before, TypeOK
<1>15. CASE ProcessLoop
  <2>1. /\ UNCHANGED <<arrived, handled>> /\ Newest' = Newest
        /\ recv' \in Before \cup {"enqueue", "connected"} => recv' = recv
    BY <1>15 DEF ProcessLoop, WakeRecv, Newest, Before
  <2>2. CASE queue # <<>>
    <3>1. pentry' = Head(queue) /\ queue' = Tail(queue) /\ proc' = "handle" /\ recv' = recv
      BY <1>15, <2>2 DEF ProcessLoop
    <3>2. /\ 1 \in DOMAIN queue /\ pentry' = queue[1]
          /\ \A k \in DOMAIN queue' : k + 1 \in DOMAIN queue /\ queue'[k] = queue[k + 1]
      BY <2>2, <3>1, TailMembers DEF TypeOK
    <3>3. DOMAIN queue' \subseteq Nat \ {0}
      BY DEF TypeOK
    <3>4. /\ \A k \in DOMAIN queue' : queue'[k].packet <= Newest
          /\ \A i \in DOMAIN handled : \A k \in DOMAIN queue' : handled[i] < queue'[k].packet
          /\ pentry'.packet <= Newest
          /\ \A i \in DOMAIN handled : handled[i] < pentry'.packet
      BY <3>2 DEF Order
    <3>5. /\ \A j, k \in DOMAIN queue' : j < k => queue'[j].packet < queue'[k].packet
          /\ \A k \in DOMAIN queue' : pentry'.packet < queue'[k].packet
      BY <3>2, <3>3 DEF Order
    <3> QED
      BY <2>1, <3>1, <3>4, <3>5 DEF Order, HandledInOrder
  <2>3. CASE queue = <<>>
    BY <1>15, <2>1, <2>3 DEF ProcessLoop, Order, HandledInOrder
  <2> QED
    BY <2>2, <2>3
<1>16. CASE Handle
  <2>1. /\ UNCHANGED <<recv, arrived, queue, pentry>> /\ Newest' = Newest
        /\ proc = "handle" /\ proc' = "return"
    BY <1>16 DEF Handle, Newest
  <2>2. pentry \in Entry /\ pentry # None
    BY <1>16 DEF Handle, Threads, TypeOK
  <2>3. handled' = handled \/ handled' = Append(handled, pentry.packet)
    BY <1>16, <2>2 DEF Handle, BufferNotOverwritten
  <2>4. CASE handled' = handled
    BY <2>1, <2>4 DEF Order, HandledInOrder
  <2>5. CASE handled' = Append(handled, pentry.packet)
    <3> DEFINE P == 1 .. MaxPackets
               p == pentry.packet
               n == Len(handled) + 1
    <3>1. handled \in Seq(P) /\ p \in P /\ P \subseteq Nat
      BY <2>2 DEF TypeOK, Entry
    <3> HIDE DEF P, p
    <3>2. /\ Len(handled) \in Nat /\ DOMAIN handled = 1 .. Len(handled)
          /\ DOMAIN handled' = 1 .. n
          /\ \A k \in 1 .. Len(handled) : handled'[k] = handled[k]
          /\ handled'[n] = p
      BY <2>5, <3>1, AppendFacts DEF p
    <3>3. /\ \A k \in DOMAIN handled' : k = n \/ (k \in DOMAIN handled /\ k < n)
          /\ n \in Nat /\ DOMAIN handled \subseteq Nat
      BY <3>2
    <3> HIDE DEF n
    <3>4. \A i \in DOMAIN handled : handled[i] < p
      BY <2>1, <2>2 DEF Order, p
    <3>5. HandledInOrder'
      BY <3>2, <3>3, <3>4 DEF HandledInOrder
    <3>6. p <= Newest /\ \A k \in DOMAIN queue : p < queue[k].packet
      BY <2>2 DEF Order, p
    <3> QED
      BY <2>1, <3>2, <3>3, <3>5, <3>6 DEF Order
  <2> QED
    BY <2>3, <2>4, <2>5
<1>17. CASE ReturnSlot
  BY <1>17 DEF ReturnSlot, Threads, Order, HandledInOrder, Newest, Before, TypeOK
<1>18. CASE CloseStop
  BY <1>18 DEF CloseStop, Threads, Order, HandledInOrder, Newest, Before, TypeOK
<1>19. CASE CloseJoinRecv
  BY <1>19 DEF CloseJoinRecv, Threads, Order, HandledInOrder, Newest, Before, TypeOK
<1>20. CASE CloseJoinProcess
  BY <1>20 DEF CloseJoinProcess, Threads, Order, HandledInOrder, Newest, Before, TypeOK
<1>21. CASE CloseSendBuffer
  BY <1>21 DEF CloseSendBuffer, Threads, Order, HandledInOrder, Newest, Before, TypeOK
<1>22. CASE UNCHANGED vars
  BY <1>22 DEF vars, Order, HandledInOrder, Newest
<1> QED
  BY <1>1, <1>2, <1>3, <1>4, <1>5, <1>6, <1>7, <1>8, <1>9, <1>10, <1>11,
     <1>12, <1>13, <1>14, <1>15, <1>16, <1>17, <1>18, <1>19, <1>20, <1>21,
     <1>22 DEF Next, RecvThread, ProcessThread, Close
-----------------------------------------------------------------------------
\* chiaki_takion_connect establishes the invariant.
LEMMA InitEstablishes == Init => IInv
<1> SUFFICES ASSUME Init PROVE IInv
  OBVIOUS
<1>1. running \in BOOLEAN /\ done \in BOOLEAN /\ stop_pipe \in BOOLEAN
  BY Zenon DEF Init
<1>2. /\ queue \in Seq(Entry) /\ handled \in Seq(1 .. MaxPackets)
      /\ events \in Seq({"CONNECTED", "DISCONNECT"}) /\ Len(queue) <= QUEUE_MAX
  BY QueueMax DEF Init
<1>3. buf \in [Slots -> 0 .. MaxPackets] /\ arrived \in 0 .. MaxPackets
  BY RecvAssumption DEF Init
<1>4. TypeOK
  BY <1>1, <1>2, <1>3 DEF Init, TypeOK
<1>5. SlotsOf(queue) = {} /\ Distinct(queue) /\ DOMAIN queue = {} /\ DOMAIN handled = {}
  BY DEF Init, SlotsOf, Distinct
<1>6. OnePlace
  BY <1>5, RecvAssumption DEF Init, OnePlace, RecvSlots, ProcessSlots
<1>7. Threads /\ Events
  BY DEF Init, Threads, Events, Before, InLoop, Stopping, After, Working
<1>8. BufferNotOverwritten /\ Received /\ HeapHeld
  BY <1>5 DEF Init, BufferNotOverwritten, Received, HeapHeld
<1>9. Order /\ HandledInOrder
  BY <1>5 DEF Init, Order, HandledInOrder, Newest
<1> QED
  BY <1>4, <1>6, <1>7, <1>8, <1>9 DEF IInv

\* The recv thread, the packet-process thread and chiaki_takion_close keep pool,
\* queue and buffers consistent, in every interleaving.
THEOREM Inductive == Spec => []IInv
<1>1. Init => IInv
  BY InitEstablishes
<1>2. IInv /\ [Next]_vars => IInv'
  BY TypePreserved, ThreadsPreserved, EventsPreserved, PoolPreserved, BuffersPreserved,
     HeapPreserved, OrderPreserved DEF IInv
<1> QED
  BY <1>1, <1>2, PTL DEF Spec

\* Every entry of the receive pool is in exactly one place and no datagram is received
\* over one that waits in the queue or is being handled, for every pool size.
THEOREM BuffersAreSafeHolds == Spec => []BuffersAreSafe
<1>1. IInv => BuffersAreSafe
  BY DEF IInv, BuffersAreSafe, PoolConserved, OnePlace, SlotsOf, Distinct, QueuedSlots
<1> QED
  BY <1>1, Inductive, PTL

\* takion_handle_packet gets the datagrams in the order of their arrival and at most
\* once, also when the queue overflows or the pool runs empty.
THEOREM HandledInOrderHolds == Spec => []HandledInOrder
<1>1. IInv => HandledInOrder
  BY DEF IInv
<1> QED
  BY <1>1, Inductive, PTL

\* chiaki_takion_close, or an error, loses no queued datagram and leaves no buffer
\* behind; the pool outlives both workers; no packet is handled after DISCONNECT.
THEOREM CleanShutdownHolds == Spec => []CleanShutdown
<1>1. ASSUME IInv PROVE CleanShutdown
  <2>1. TypeOK /\ Threads /\ OnePlace /\ HeapHeld /\ Events
    BY <1>1 DEF IInv
  <2>2. WorkersOutlived
    BY <2>1 DEF WorkersOutlived, Threads, After, OnePlace, SlotsOf, QueuedSlots
  <2>3. NothingLeftBehind
    BY <2>1 DEF NothingLeftBehind, Threads, After, HeapHeld
  <2>4. DrainFindsNothing
    BY <2>1 DEF DrainFindsNothing, Threads
  <2>5. EventsBracketPackets
    <3>1. CASE recv = "end"
      <4>1. proc \in {"none", "end"}
        BY <2>1, <3>1 DEF Threads, After
      <4>2. Len(events) \in 1 .. 2 /\ (handled = <<>> \/ events[1] = "CONNECTED")
        BY <2>1, <3>1 DEF Events
      <4>3. events # <<>>
        BY <4>2
      <4> QED
        BY <4>1, <4>2, <4>3 DEF EventsBracketPackets
    <3>2. CASE recv # "end" /\ events = <<>>
      <4>1. handled = <<>>
        BY <2>1, <3>2 DEF Events, TypeOK, Before, InLoop, Stopping
      <4> QED
        BY <3>2, <4>1 DEF EventsBracketPackets
    <3>3. CASE recv # "end" /\ events = <<"CONNECTED">>
      BY <3>3 DEF EventsBracketPackets
    <3> QED
      BY <2>1, <3>1, <3>2, <3>3 DEF Events, TypeOK, Before, InLoop, Stopping
  <2> QED
    BY <2>2, <2>3, <2>4, <2>5 DEF CleanShutdown
<1> QED
  BY <1>1, Inductive, PTL
=============================================================================
