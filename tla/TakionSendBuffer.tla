-------------------------- MODULE TakionSendBuffer --------------------------
(***************************************************************************)
(* Reliable sending on a Takion connection: chiaki_takion_send_message_data *)
(* (lib/src/takion.c) and the send buffer with its resend thread           *)
(* (lib/src/takionsendbuffer.c).                                           *)
(*                                                                         *)
(* Threads: Senders, which number, transmit and then buffer a packet; the  *)
(* packet-process thread, which handles the peer's cumulative acks; the    *)
(* resend thread; and the threads that shut down, which ask twice for the  *)
(* stop (the recv thread and then chiaki_takion_close) and join.  Only the *)
(* resend thread keeps the mutex across steps, so Locked is a function of  *)
(* its pc.  The network loses, duplicates and reorders in both directions. *)
(*                                                                         *)
(* Time is abstracted to the only test made on it: a packet is "due" when  *)
(* last_send_ms is more than the resend timeout before the `now' of a      *)
(* pass.  A packet pushed during a pass, in the gap of a give-up, may have *)
(* last_send_ms > now: then the unsigned difference is huge, and the       *)
(* packet counts as due for the rest of that pass ("future").              *)
(*                                                                         *)
(* A suffix after "__" marks a variant with a plausible mistake of the     *)
(* definition that follows it, for checking the properties.                *)
(***************************************************************************)
EXTENDS SeqNum

CONSTANTS
  Senders,      \* threads that call chiaki_takion_send_message_data
  packets_size, \* TAKION_SEND_BUFFER_SIZE
  TRIES_MAX,    \* TAKION_DATA_RESEND_TRIES_MAX
  Start,        \* first seq_num_local, tag_local in the code
  MaxSent       \* bound: packets sent in a behaviour

ASSUME SendBufferAssumption ==
  /\ packets_size \in Nat \ {0}
  /\ TRIES_MAX \in Nat
  /\ Start \in SeqNums
  /\ MaxSent \in 0 .. Half - 1

VARIABLES
  seq_num_local,
  sender,        \* thread -> [pc, seq_num]
  packets,       \* the array, with what is left behind packets_count
  packets_count,
  should_stop,
  pc,            \* resend thread
  timed,         \* it waits with the wakeup timeout
  i,             \* loop index of takion_send_buffer_resend, from 1
  victim,        \* the argument of its call of ack
  stopper,       \* progress of the shutdown
  wire,          \* numbers the network may deliver to the peer
  received,      \* numbers the peer has received
  pushed,        \* history: numbers that push accepted
  gaveup,        \* history: numbers the log says were given up on
  acked          \* history: numbers of DATA_ACK events

bufferVars == <<packets, packets_count>>
resendVars == <<pc, timed, i, victim>>
peerVars == <<wire, received>>
historyVars == <<pushed, gaveup, acked>>
vars == <<seq_num_local, sender, bufferVars, should_stop, resendVars, stopper,
          peerVars, historyVars>>

Packet == [seq_num : SeqNums, tries : 0 .. TRIES_MAX,
           age : {"new", "due", "future"}]
NoPacket == [seq_num |-> 0, tries |-> 0, age |-> "new"]

\* The resend thread owns the mutex.
Locked == pc \in {"top", "block", "check", "scan"}
\* It is inside a pass of takion_send_buffer_resend.
InPass == pc \in {"scan", "giveup", "giveup_ack", "giveup_lock"}

Buffered == {packets[k].seq_num : k \in 1 .. packets_count}

\* How many numbers have been taken, and the numbers the peer may ack: those
\* up to which it has received everything.
Issued == Ahead(Start, seq_num_local)
CumulativeAcks ==
  {n \in received : \A m \in SeqNums :
      Ahead(Start, m) <= Ahead(Start, n) => m \in received}

TypeOK ==
  /\ seq_num_local \in SeqNums
  /\ sender \in [Senders -> [pc : {"idle", "send", "push"}, seq_num : SeqNums]]
  /\ packets \in [1 .. packets_size -> Packet]
  /\ packets_count \in 0 .. packets_size
  /\ should_stop \in BOOLEAN
  /\ pc \in {"start", "top", "block", "sleep", "wake", "timeout", "check",
             "scan", "giveup", "giveup_ack", "giveup_lock", "done"}
  /\ timed \in BOOLEAN
  /\ i \in 1 .. packets_size + 1
  /\ victim \in SeqNums
  /\ stopper \in {"running", "signal1", "recv_done", "signal2", "join", "freed"}
  /\ received \subseteq wire /\ wire \subseteq SeqNums
  /\ pushed \subseteq SeqNums /\ gaveup \subseteq SeqNums /\ acked \subseteq SeqNums

\* chiaki_takion_send_buffer_init has started the thread.
Init ==
  /\ seq_num_local = Start
  /\ sender = [s \in Senders |-> [pc |-> "idle", seq_num |-> Start]]
  /\ packets = [k \in 1 .. packets_size |-> NoPacket]
  /\ packets_count = 0
  /\ should_stop = FALSE
  /\ pc = "start" /\ timed = FALSE /\ i = 1 /\ victim = Start
  /\ stopper = "running"
  /\ wire = {} /\ received = {}
  /\ pushed = {} /\ gaveup = {} /\ acked = {}
-----------------------------------------------------------------------------
\* chiaki_takion_send_message_data: take a number under seq_num_local_mutex.
TakeNumber(s) ==
  /\ sender[s].pc = "idle"
  /\ stopper = "running"
  /\ Issued < MaxSent
  /\ sender' = [sender EXCEPT ![s] = [pc |-> "send", seq_num |-> seq_num_local]]
  /\ seq_num_local' = add(seq_num_local, 1)
  /\ UNCHANGED <<bufferVars, should_stop, resendVars, stopper, peerVars, historyVars>>

\* chiaki_takion_send; when it fails the packet is freed and its number is
\* never used.
Transmit(s) ==
  /\ sender[s].pc = "send"
  /\ \/ /\ wire' = wire \cup {sender[s].seq_num}
        /\ sender' = [sender EXCEPT ![s].pc = "push"]
     \/ /\ sender' = [sender EXCEPT ![s].pc = "idle"]
        /\ UNCHANGED wire
  /\ UNCHANGED <<seq_num_local, bufferVars, should_stop, resendVars, stopper,
                 received, historyVars>>

\* pthread_cond_signal: only a thread that sleeps is woken.
Signal == pc' = IF pc = "sleep" THEN "wake" ELSE pc

Full == packets_count >= packets_size

\* chiaki_takion_send_buffer_push: an error frees the packet.
chiaki_takion_send_buffer_push(s) ==
  /\ sender[s].pc = "push"
  /\ ~Locked
  /\ sender' = [sender EXCEPT ![s].pc = "idle"]
  /\ \/ /\ Full \/ sender[s].seq_num \in Buffered
        /\ UNCHANGED <<bufferVars, resendVars, pushed>>
     \/ /\ ~Full
        /\ sender[s].seq_num \notin Buffered
        /\ packets_count' = packets_count + 1
        /\ \E a \in IF InPass THEN {"new", "future"} ELSE {"new"} :
             packets' = [packets EXCEPT ![packets_count + 1] =
                           [seq_num |-> sender[s].seq_num, tries |-> 0, age |-> a]]
        /\ IF packets_count' = 1 THEN Signal ELSE UNCHANGED pc
        /\ pushed' = pushed \cup {sender[s].seq_num}
        /\ UNCHANGED <<timed, i, victim>>
  /\ UNCHANGED <<seq_num_local, should_stop, stopper, peerVars, gaveup, acked>>
-----------------------------------------------------------------------------
\* chiaki_takion_send_buffer_ack: packets up to seq_num leave the array, the
\* others move up and keep their order; what lies behind the new count stays
\* as it was.
AckedBy__no_wrap(seq_num) == {n \in Buffered : n <= seq_num}
AckedBy(seq_num) ==
  {n \in Buffered : n = seq_num \/ lt(n, seq_num)}

\* The packets at the places in `kept', in their order, become the first ones.
Compact(kept) ==
  \E n \in 0 .. packets_count : \E from \in [1 .. n -> kept] :
    /\ \A j, k \in 1 .. n : j < k => from[j] < from[k]
    /\ \A k \in kept : \E j \in 1 .. n : from[j] = k
    /\ packets_count' = n
    /\ packets' = [k \in 1 .. packets_size |->
                     IF k <= n THEN packets[from[k]] ELSE packets[k]]

chiaki_takion_send_buffer_ack(seq_num) ==
  Compact({k \in 1 .. packets_count : packets[k].seq_num \notin AckedBy(seq_num)})

\* An event for every number that left the buffer.  The packet-process
\* thread has ended before anyone asks the resend thread to stop.
takion_handle_packet_message_data_ack(seq_num) ==
  /\ stopper = "running"
  /\ ~Locked
  /\ chiaki_takion_send_buffer_ack(seq_num)
  /\ acked' = acked \cup AckedBy(seq_num)
  /\ UNCHANGED <<seq_num_local, sender, should_stop, resendVars, stopper,
                 peerVars, pushed, gaveup>>

PeerReceives(n) ==
  /\ n \in wire \ received
  /\ received' = received \cup {n}
  /\ UNCHANGED <<seq_num_local, sender, bufferVars, should_stop, resendVars,
                 stopper, wire, historyVars>>

\* The resend timeout of packet k expires.  Passes read the clock once.
Age(k) ==
  /\ ~InPass
  /\ k <= packets_count
  /\ packets[k].age = "new"
  /\ packets' = [packets EXCEPT ![k].age = "due"]
  /\ UNCHANGED <<seq_num_local, sender, packets_count, should_stop, resendVars,
                 stopper, peerVars, historyVars>>
-----------------------------------------------------------------------------
\* The resend thread.
others == <<seq_num_local, sender, should_stop, stopper, received>>

Pred(t) == should_stop \/ (~t /\ packets_count > 0)

ThreadStart ==
  /\ pc = "start"
  /\ pc' = "top"
  /\ UNCHANGED <<others, bufferVars, timed, i, victim, wire, historyVars>>

\* Choose the wait and evaluate its predicate for the first time.
LoopTop ==
  /\ pc = "top"
  /\ timed' = (packets_count > 0)
  /\ pc' = IF Pred(timed') THEN "check" ELSE "block"
  /\ UNCHANGED <<others, bufferVars, i, victim, wire, historyVars>>

\* pthread_cond_(timed)wait: give up the mutex and sleep.
Block ==
  /\ pc = "block"
  /\ pc' = "sleep"
  /\ UNCHANGED <<others, bufferVars, timed, i, victim, wire, historyVars>>

Timeout ==
  /\ pc = "sleep" /\ timed
  /\ pc' = "timeout"
  /\ UNCHANGED <<others, bufferVars, timed, i, victim, wire, historyVars>>

\* The wait returns with the mutex: a woken thread looks at the predicate
\* again, one that timed out does not.
Relock ==
  /\ \/ pc = "wake" /\ pc' = IF Pred(timed) THEN "check" ELSE "block"
     \/ pc = "timeout" /\ pc' = "check"
  /\ UNCHANGED <<others, bufferVars, timed, i, victim, wire, historyVars>>

CheckStop ==
  /\ pc = "check"
  /\ pc' = IF should_stop THEN "done" ELSE "scan"
  /\ i' = 1
  /\ UNCHANGED <<others, bufferVars, timed, victim, wire, historyVars>>

Due(p) == p.age # "new"

\* One iteration of the loop in takion_send_buffer_resend.
Skip ==
  /\ pc = "scan" /\ i <= packets_count
  /\ ~Due(packets[i])
  /\ i' = i + 1
  /\ UNCHANGED <<others, bufferVars, pc, timed, victim, wire, historyVars>>

Resend__uncounted ==
  /\ pc = "scan" /\ i <= packets_count
  /\ Due(packets[i]) /\ packets[i].tries < TRIES_MAX
  /\ packets' = [packets EXCEPT ![i].age = "new"]
  /\ wire' = wire \cup {packets[i].seq_num}
  /\ i' = i + 1
  /\ UNCHANGED <<others, packets_count, pc, timed, victim, historyVars>>

Resend ==
  /\ pc = "scan" /\ i <= packets_count
  /\ Due(packets[i]) /\ packets[i].tries < TRIES_MAX
  /\ packets' = [packets EXCEPT ![i] =
                   [seq_num |-> @.seq_num, tries |-> @.tries + 1, age |-> "new"]]
  /\ wire' = wire \cup {packets[i].seq_num}
  /\ i' = i + 1
  /\ UNCHANGED <<others, packets_count, pc, timed, victim, historyVars>>

\* Max retries: the log names the packet, and the mutex is released.
GiveUp ==
  /\ pc = "scan" /\ i <= packets_count
  /\ Due(packets[i]) /\ packets[i].tries >= TRIES_MAX
  /\ gaveup' = gaveup \cup {packets[i].seq_num}
  /\ pc' = "giveup"
  /\ UNCHANGED <<others, bufferVars, timed, i, victim, wire, pushed, acked>>

\* packet->seq_num is read for the call after the unlock.
GiveUpRead ==
  /\ pc = "giveup"
  /\ victim' = packets[i].seq_num
  /\ pc' = "giveup_ack"
  /\ UNCHANGED <<others, bufferVars, timed, i, wire, historyVars>>

GiveUpAck ==
  /\ pc = "giveup_ack"
  /\ chiaki_takion_send_buffer_ack(victim)
  /\ pc' = "giveup_lock"
  /\ UNCHANGED <<others, timed, i, victim, wire, historyVars>>

\* Lock again; `if(i > 0) i -= 1' and the loop's i++ leave the index alone,
\* except that the first one is passed over.
GiveUpLock ==
  /\ pc = "giveup_lock"
  /\ pc' = "scan"
  /\ i' = IF i = 1 THEN 2 ELSE i
  /\ UNCHANGED <<others, bufferVars, timed, victim, wire, historyVars>>

PassEnd ==
  /\ pc = "scan" /\ i > packets_count
  /\ pc' = "top"
  /\ packets' = [k \in 1 .. packets_size |->
                   IF packets[k].age = "future"
                   THEN [packets[k] EXCEPT !.age = "new"] ELSE packets[k]]
  /\ UNCHANGED <<others, packets_count, timed, i, victim, wire, historyVars>>

ResendThread ==
  \/ ThreadStart \/ LoopTop \/ Block \/ Timeout \/ Relock \/ CheckStop
  \/ Skip \/ Resend \/ GiveUp \/ GiveUpRead \/ GiveUpAck \/ GiveUpLock \/ PassEnd
-----------------------------------------------------------------------------
\* chiaki_takion_send_buffer_request_stop, without the mutex: once by the
\* recv thread and once more in chiaki_takion_send_buffer_fini.
SetShouldStop ==
  /\ \/ stopper = "running" /\ stopper' = "signal1"
     \/ stopper = "recv_done" /\ stopper' = "signal2"
  /\ should_stop' = TRUE
  /\ UNCHANGED <<seq_num_local, sender, bufferVars, resendVars, peerVars, historyVars>>

SignalStop ==
  /\ \/ stopper = "signal1" /\ stopper' = "recv_done"
     \/ stopper = "signal2" /\ stopper' = "join"
  /\ Signal
  /\ UNCHANGED <<seq_num_local, sender, bufferVars, should_stop, timed, i,
                 victim, peerVars, historyVars>>

\* chiaki_takion_send_buffer_fini joins and frees.  Sending is documented as
\* "Thread-safe while Takion is running": nobody sends any more.
chiaki_takion_send_buffer_fini ==
  /\ stopper = "join"
  /\ pc = "done"
  /\ \A s \in Senders : sender[s].pc = "idle"
  /\ stopper' = "freed"
  /\ packets_count' = 0
  /\ UNCHANGED <<seq_num_local, sender, packets, should_stop, resendVars,
                 peerVars, historyVars>>

Next ==
  \/ \E s \in Senders :
       TakeNumber(s) \/ Transmit(s) \/ chiaki_takion_send_buffer_push(s)
  \/ \E n \in CumulativeAcks : takion_handle_packet_message_data_ack(n)
  \/ \E n \in wire : PeerReceives(n)
  \/ \E k \in 1 .. packets_size : Age(k)
  \/ ResendThread
  \/ SetShouldStop \/ SignalStop
  \/ chiaki_takion_send_buffer_fini

\* The operating system runs every thread, and time passes: a packet that is
\* waited for often enough becomes due (strong fairness, because a pass does
\* not see the clock move).  Nothing is assumed of the peer, the network or
\* when somebody stops the connection; once asked to, the stopping threads
\* go on.
Fairness ==
  /\ WF_vars(ResendThread)
  /\ \A k \in 1 .. packets_size : SF_vars(Age(k))
  /\ \A s \in Senders : WF_vars(Transmit(s) \/ chiaki_takion_send_buffer_push(s))
  /\ WF_vars(SignalStop)
  /\ WF_vars(stopper = "recv_done" /\ SetShouldStop)
  /\ WF_vars(chiaki_takion_send_buffer_fini)

Spec == Init /\ [][Next]_vars
FairSpec == Spec /\ Fairness
-----------------------------------------------------------------------------
\* Until the resend thread gives up on some packet, a packet that push took
\* over and the peer has not received is still in the buffer, whatever the
\* order in which senders pushed, acks came in and numbers wrapped.
KeptUntilReceived ==
  stopper # "freed" /\ gaveup = {} =>
    \A n \in pushed : n \in received \/ n \in Buffered

\* A number is in the buffer at most once, so that one ack removes it for
\* good and no packet is freed twice.
BufferedOnce ==
  \A j, k \in 1 .. packets_count :
    packets[j].seq_num = packets[k].seq_num => j = k

\* A DATA_ACK event is only raised for a packet the peer has received: giving
\* up on a packet is never reported as an acknowledgement.
AckEventsAreTrue == acked \subseteq received

\* Reliable sending: nothing leaves unreceived, is buffered twice or is reported
\* as acknowledged when it was not; every variable keeps its type.
SendingIsReliable == TypeOK /\ KeptUntilReceived /\ BufferedOnce /\ AckEventsAreTrue

\* Every packet leaves the buffer: it is acknowledged or given up on after a
\* bounded number of tries, unless the connection stops first.
EveryPacketLeaves ==
  \A n \in SeqNums : n \in Buffered ~> n \notin Buffered \/ should_stop

\* A stop that finds packets in the buffer ends the resend thread.
StopEndsWithPackets ==
  should_stop /\ packets_count > 0 ~> pc = "done"

\* The resend thread makes progress: packets leave, and so does the thread when it
\* is told to while there are packets.
ResendProgress == EveryPacketLeaves /\ StopEndsWithPackets

\* request_stop: "Signal the send buffer thread to stop [...] Safe to call
\* from any thread": the thread stops.
StopEnds == should_stop ~> pc = "done"
=============================================================================
