----------------------------- MODULE TakionData -----------------------------
(***************************************************************************)
(* What the packet-process thread does with a datagram (lib/src/takion.c:  *)
(* takion_packet_process_thread_func after its dequeue, and                *)
(* takion_handle_packet): the MAC check, which needs the key that the      *)
(* callback of the BANG message sets; A/V packets postponed until there is *)
(* one; data messages put in order by the reorder queue, handed to the     *)
(* callback and acknowledged.                                              *)
(*                                                                         *)
(* Composed with ReorderQueue: its variables are data_queue, its actions   *)
(* the calls.  The elements are the TakionDataPacketEntry allocations with *)
(* their buffers.  The peer sends the data messages First, First + 1, ...; *)
(* the network loses, repeats and reorders them and may damage a datagram. *)
(*                                                                         *)
(* A suffix after "__" marks a variant with a plausible mistake of the     *)
(* definition that follows it, for checking the properties.                *)
(***************************************************************************)
EXTENDS SeqNum, Sequences, FiniteSets

CONSTANTS
  QUEUE_SIZE, Elems, NoElem, \* of the reorder queue
  First,         \* seq_num_remote_initial
  Messages,      \* bound: data messages the peer sends
  Bang,          \* which of them makes the callback set the keys
  POSTPONE_SIZE, \* TAKION_POSTPONE_PACKETS_SIZE
  MaxAV          \* bound: A/V packets that arrive

ASSUME DataAssumption ==
  /\ QUEUE_SIZE \in Nat /\ 2 <= QUEUE_SIZE /\ 2 * QUEUE_SIZE <= Half
  /\ SeqMod % QUEUE_SIZE = 0 /\ NoElem \notin Elems
  /\ First \in SeqNums
  /\ Messages \in 0 .. Half - 1
  /\ Bang \in 0 .. Messages
  /\ POSTPONE_SIZE \in Nat /\ MaxAV \in Nat

VARIABLES
  status, queue, begin, count, drop_strategy, number, \* data_queue
  enable_crypt,    \* FALSE on the connection of senkusha; never changes
  phase,           \* where the packet-process thread is
  cur,             \* the datagram it handles
  ack,             \* takion_flush_data_queue: something was pulled, and
  last,            \* its number
  gkcrypt_remote,  \* there is a key
  crypt_available, \* the thread has noticed
  postponed,       \* MACs of postponed A/V packets: TRUE if damaged
  av,              \* A/V packets that have arrived
  delivered,       \* numbers given to the callback, in order
  acks,            \* numbers acknowledged
  passed           \* "checked" / "unchecked": A/V packets passed on

queueVars == <<status, queue, begin, count, drop_strategy, number>>
cryptVars == <<enable_crypt, gkcrypt_remote, crypt_available, postponed>>
historyVars == <<av, delivered, acks, passed>>
vars == <<queueVars, phase, cur, ack, last, cryptVars, historyVars>>

Q == INSTANCE ReorderQueue

Numbers == {add(First, k) : k \in 0 .. Messages - 1}
Datagram == [type : {"data", "short", "video_audio"}, seq_num : SeqNums, damaged : BOOLEAN]
NoDatagram == [type |-> "short", seq_num |-> First, damaged |-> FALSE]

TypeOK ==
  /\ Q!TypeOK
  /\ phase \in {"idle", "recheck", "postponed", "handle", "flush", "ended", "crashed"}
  /\ cur \in Datagram
  /\ ack \in BOOLEAN /\ last \in SeqNums
  /\ enable_crypt \in BOOLEAN /\ gkcrypt_remote \in BOOLEAN /\ crypt_available \in BOOLEAN
  /\ postponed \in Seq(BOOLEAN) /\ Len(postponed) <= POSTPONE_SIZE
  /\ av \in 0 .. MaxAV
  /\ delivered \in Seq(SeqNums) /\ acks \subseteq SeqNums
  /\ passed \subseteq {"checked", "unchecked"}

\* takion_thread_func has initialised data_queue and started the thread.
Init ==
  /\ status = "live"
  /\ queue = Q!EmptyRing
  /\ begin = First /\ count = 0
  /\ drop_strategy = "END"
  /\ number = [e \in Elems |-> Q!NotOwned]
  /\ phase = "idle" /\ cur = NoDatagram
  /\ ack = FALSE /\ last = First
  /\ enable_crypt \in BOOLEAN
  /\ gkcrypt_remote = FALSE /\ crypt_available = FALSE
  /\ postponed = <<>>
  /\ av = 0 /\ delivered = <<>> /\ acks = {} /\ passed = {}
-----------------------------------------------------------------------------
\* The next entry of the queue between the two threads.
TakeData(n, damaged) ==
  /\ phase = "idle"
  /\ n \in Numbers
  /\ cur' = [type |-> "data", seq_num |-> n, damaged |-> damaged]
  /\ phase' = "recheck"
  /\ UNCHANGED <<queueVars, ack, last, cryptVars, historyVars>>

TakeShort ==
  /\ phase = "idle"
  /\ cur' = NoDatagram
  /\ phase' = "recheck"
  /\ UNCHANGED <<queueVars, ack, last, cryptVars, historyVars>>

TakeAV(damaged) ==
  /\ phase = "idle"
  /\ av < MaxAV
  /\ av' = av + 1
  /\ cur' = [type |-> "video_audio", seq_num |-> First, damaged |-> damaged]
  /\ phase' = "recheck"
  /\ UNCHANGED <<queueVars, ack, last, cryptVars, delivered, acks, passed>>

\* When a key has appeared, the elements waiting in data_queue are peeked at
\* to check their MACs.  chiaki_reorder_queue_peek stores the number of an
\* element it finds through the NULL it is called with.
Recheck ==
  /\ phase = "recheck"
  /\ LET now == enable_crypt /\ ~crypt_available /\ gkcrypt_remote
     IN /\ crypt_available' = (crypt_available \/ now)
        /\ phase' = IF now /\ Q!Held # {} THEN "crashed" ELSE "postponed"
  /\ UNCHANGED <<queueVars, cur, ack, last, enable_crypt, gkcrypt_remote, postponed, historyVars>>

\* The packets postponed until now go through takion_handle_packet.
FlushPostponed ==
  /\ phase = "postponed"
  /\ phase' = "handle"
  /\ IF gkcrypt_remote /\ postponed # <<>>
     THEN /\ postponed' = <<>>
          /\ passed' = passed \cup
               {"checked" : k \in {j \in DOMAIN postponed : ~postponed[j]}}
     ELSE UNCHANGED <<postponed, passed>>
  /\ UNCHANGED <<queueVars, cur, ack, last, enable_crypt, gkcrypt_remote, crypt_available, av,
                 delivered, acks>>
-----------------------------------------------------------------------------
\* takion_handle_packet_mac rejects a damaged packet when it has a key.
MacFails__of_av == gkcrypt_remote /\ cur.damaged /\ cur.type = "video_audio"
MacFails == gkcrypt_remote /\ cur.damaged

HandleRejected ==
  /\ phase = "handle"
  /\ MacFails
  /\ phase' = "idle"
  /\ UNCHANGED <<queueVars, cur, ack, last, cryptVars, historyVars>>

\* takion_handle_packet_message_data: a payload below the header's size, or
\* no memory for the entry, changes nothing (and leaks the packet's buffer).
HandleShort ==
  /\ phase = "handle"
  /\ ~MacFails
  /\ cur.type = "short"
  /\ phase' = "idle"
  /\ UNCHANGED <<queueVars, cur, ack, last, cryptVars, historyVars>>

HandleData(e) ==
  /\ phase = "handle"
  /\ ~MacFails
  /\ cur.type = "data"
  /\ Q!chiaki_reorder_queue_push(cur.seq_num, e)
  /\ ack' = FALSE
  /\ phase' = "flush"
  /\ UNCHANGED <<cur, last, cryptVars, historyVars>>

PostponedFull == Len(postponed) >= POSTPONE_SIZE
MustPostpone__when_noticed == crypt_available /\ ~gkcrypt_remote
MustPostpone == enable_crypt /\ ~gkcrypt_remote

\* takion_postpone_packet before there is a key; takion_handle_packet_av
\* after that, and always without encryption.
HandleAV ==
  /\ phase = "handle"
  /\ ~MacFails
  /\ cur.type = "video_audio"
  /\ \/ /\ MustPostpone /\ ~PostponedFull
        /\ postponed' = Append(postponed, cur.damaged)
        /\ UNCHANGED passed
     \/ /\ MustPostpone /\ PostponedFull
        /\ UNCHANGED <<postponed, passed>>
     \/ /\ ~MustPostpone
        /\ passed' = passed \cup {IF gkcrypt_remote THEN "checked" ELSE "unchecked"}
        /\ UNCHANGED postponed
  /\ phase' = "idle"
  /\ UNCHANGED <<queueVars, cur, ack, last, enable_crypt, gkcrypt_remote, crypt_available, av,
                 delivered, acks>>

\* takion_flush_data_queue: pull and call back; BANG's callback calls
\* chiaki_takion_set_crypt.
Pull ==
  /\ phase = "flush"
  /\ Q!chiaki_reorder_queue_pull
  /\ delivered' = Append(delivered, number[queue[Q!idx(begin)].user])
  /\ ack' = TRUE
  /\ last' = begin
  /\ gkcrypt_remote' = (gkcrypt_remote \/ (enable_crypt /\ begin = add(First, Bang)))
  /\ UNCHANGED <<phase, cur, enable_crypt, crypt_available, postponed, av, acks, passed>>

FlushEnd__acks_received ==
  /\ phase = "flush"
  /\ ~(count > 0 /\ Q!IsSet(begin))
  /\ acks' = acks \cup {cur.seq_num}
  /\ phase' = "idle"
  /\ UNCHANGED <<queueVars, cur, ack, last, cryptVars, av, delivered, passed>>

\* Nothing more in order: one ack for all that was pulled.
FlushEnd ==
  /\ phase = "flush"
  /\ ~(count > 0 /\ Q!IsSet(begin))
  /\ acks' = IF ack THEN acks \cup {last} ELSE acks
  /\ phase' = "idle"
  /\ UNCHANGED <<queueVars, cur, ack, last, cryptVars, av, delivered, passed>>

\* The thread ends, and the recv thread finalises data_queue.  Nobody looks
\* at postponed_packets.
End ==
  /\ phase = "idle"
  /\ Q!chiaki_reorder_queue_fini
  /\ phase' = "ended"
  /\ UNCHANGED <<cur, ack, last, cryptVars, av, delivered, acks, passed>>

Handle ==
  \/ Recheck \/ FlushPostponed
  \/ HandleRejected \/ HandleShort \/ HandleAV
  \/ \E e \in Elems : HandleData(e)
  \/ Pull \/ FlushEnd

Next ==
  \/ \E n \in Numbers, d \in BOOLEAN : TakeData(n, d)
  \/ TakeShort
  \/ \E d \in BOOLEAN : TakeAV(d)
  \/ Handle
  \/ End

\* The thread runs, and a peer that retransmits gets each message through
\* undamaged again and again as long as the connection is there.
Fairness ==
  /\ WF_vars(Handle)
  /\ \A n \in Numbers : SF_vars(TakeData(n, FALSE))

Spec == Init /\ [][Next]_vars
FairSpec == Spec /\ Fairness
-----------------------------------------------------------------------------
Upto(n) == {add(First, k) : k \in 0 .. Ahead(First, n)}

\* The callback sees the peer's messages in order, each once, without gaps.
DeliveredInOrder ==
  \A k \in DOMAIN delivered : delivered[k] = add(First, k - 1)

\* An ack covers only messages that the callback has seen.  The peer will
\* never send them again.
AckedWereDelivered ==
  \A n \in acks : Upto(n) \subseteq {delivered[k] : k \in DOMAIN delivered}

\* What the callback has seen is acknowledged before the next datagram is
\* looked at, up to the last message.
DeliveredAreAcked ==
  phase = "idle" /\ delivered # <<>> => delivered[Len(delivered)] \in acks

\* The callback sees the peer's messages in order, and acknowledgements say exactly what it
\* has seen; every variable keeps its type, those of the reorder queue included.
DeliveryIsReliable == TypeOK /\ DeliveredInOrder /\ AckedWereDelivered /\ DeliveredAreAcked

\* With encryption enabled an A/V packet is passed on only after its MAC was
\* checked: "all other packets are postponed until gkcrypt_remote is set".
AVPacketsAreChecked == enable_crypt => "unchecked" \notin passed

-----------------------------------------------------------------------------
\* The channel's messages are counted from First on, with no wrap.
Index(n) == Ahead(First, n)

\* The datagram is the channel's until data_queue has it or it is rejected.
Handling == phase \in {"recheck", "postponed", "handle"} /\ cur.type = "data"
Incoming == IF Handling THEN {[index |-> Index(cur.seq_num), damaged |-> cur.damaged]} ELSE {}

\* What the queue owns.
Waiting == {Index(number[e]) : e \in {x \in Elems : number[x] # Q!NotOwned}}

Open == status = "live" /\ phase # "crashed"
Delivered == [k \in DOMAIN delivered |-> Index(delivered[k])]
Acked == {Index(n) : n \in acks}

Channel == INSTANCE MessageChannel WITH
  window <- QUEUE_SIZE,
  open <- Open,
  encrypted <- enable_crypt,
  incoming <- Incoming,
  waiting <- Waiting,
  delivered <- Delivered,
  acked <- Acked

\* Through key changes, ring and wrapping numbers the messages come as over a channel
\* that keeps every message it can, delivers each once in order, and acknowledges all
\* that it delivered and nothing else.
ImplementsChannel == Channel!Spec
-----------------------------------------------------------------------------
\* Every data message the peer repeats until it is acknowledged is delivered,
\* unless the connection ends (or the re-check crashes).
EverythingDelivered ==
  <>(Len(delivered) = Messages \/ phase \in {"ended", "crashed"})
=============================================================================
