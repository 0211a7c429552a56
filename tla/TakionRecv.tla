----------------------------- MODULE TakionRecv -----------------------------
(***************************************************************************)
(* The threads behind a Takion connection (lib/src/takion.c): the recv     *)
(* thread (takion_thread_func), which fills buffers of a preallocated pool *)
(* from the socket and queues them; the packet-process thread, which       *)
(* handles them; and the thread that calls chiaki_takion_close.            *)
(*                                                                         *)
(* The two worker threads share packet_process_mutex and                   *)
(* packet_process_cond, on which either may wait.  No worker holds the     *)
(* mutex from one step to the next, so a step is one critical section.     *)
(* Datagrams are numbered in the order the socket delivers them.           *)
(*                                                                         *)
(* A suffix after "__" marks a variant with a plausible mistake of the     *)
(* definition that follows it, for checking the properties.                *)
(***************************************************************************)
EXTENDS Naturals, Sequences, FiniteSets

CONSTANTS
  Slots,      \* entries of TakionRecvPool; as many as the queue may hold
  Heap,       \* stands for an entry that was malloc'ed instead
  None,
  MaxPackets  \* bound: datagrams that arrive in a behaviour

\* A TakionRecvPacket: the buffer and the datagram received for it.
Entry == [slot : Slots \cup {Heap}, packet : 1 .. MaxPackets]

ASSUME RecvAssumption ==
  /\ IsFiniteSet(Slots) /\ Slots # {}
  /\ Heap \notin Slots /\ None \notin Slots \cup Entry /\ Heap # None
  /\ MaxPackets \in Nat

\* TAKION_PACKET_PROCESS_QUEUE_MAX, by which the pool is sized.
QUEUE_MAX == Cardinality(Slots)

VARIABLES
  recv,          \* pc of the recv thread
  rentry,        \* the entry it receives into: a slot, Heap or None
  proc,          \* pc of the packet-process thread
  pentry,        \* the entry it handles
  close,         \* pc of chiaki_takion_close
  running,       \* packet_process_thread_running
  done,          \* packet_process_thread_done
  created,       \* subset of {"pool", "process_thread", "send_buffer"}
  stop_pipe,     \* the stop pipe has been signalled
  pool,          \* free list of the pool
  buf,           \* slot -> number of the datagram in its buffer
  queue,         \* entries with the datagram they were received for
  arrived,       \* datagrams taken from the socket
  heap,          \* datagrams in malloc'ed buffers that nobody has freed
  handled,       \* datagrams given to takion_handle_packet, in order
  events         \* callbacks of the connection itself, in order

vars == <<recv, rentry, proc, pentry, close, running, done, created, stop_pipe,
          pool, buf, queue, arrived, heap, handled, events>>

TypeOK ==
  /\ recv \in {"handshake", "setup", "connected", "pop", "recv", "enqueue", "signal",
               "shutdown", "wait_done", "waiting", "drain", "stop_send_buffer", "beach", "end"}
  /\ rentry \in Slots \cup {Heap, None}
  /\ proc \in {"none", "loop", "sleep", "handle", "return", "end"}
  /\ pentry \in Entry \cup {None}
  /\ close \in {"open", "join_recv", "join_process", "send_buffer_fini", "closed"}
  /\ running \in BOOLEAN /\ done \in BOOLEAN /\ stop_pipe \in BOOLEAN
  /\ created \subseteq {"pool", "process_thread", "send_buffer"}
  /\ pool \subseteq Slots
  /\ buf \in [Slots -> 0 .. MaxPackets]
  /\ queue \in Seq(Entry) /\ Len(queue) <= QUEUE_MAX
  /\ arrived \in 0 .. MaxPackets
  /\ heap \subseteq 1 .. MaxPackets
  /\ handled \in Seq(1 .. MaxPackets)
  /\ events \in Seq({"CONNECTED", "DISCONNECT"})

\* chiaki_takion_connect has created the recv thread.
Init ==
  /\ recv = "handshake" /\ rentry = None
  /\ proc = "none" /\ pentry = None
  /\ close = "open"
  /\ running = FALSE /\ done = FALSE /\ stop_pipe = FALSE
  /\ created = {}
  /\ pool = {} /\ buf = [s \in Slots |-> 0]
  /\ queue = <<>>
  /\ arrived = 0 /\ heap = {}
  /\ handled = <<>> /\ events = <<>>

\* chiaki_cond_signal and chiaki_cond_broadcast on packet_process_cond.  The
\* recv thread signals while only the other one can be asleep.
WakeProcess == proc' = IF proc = "sleep" THEN "loop" ELSE proc
WakeRecv == recv' = IF recv = "waiting" THEN "wait_done" ELSE recv
-----------------------------------------------------------------------------
\* takion_handshake; a failure ends the thread with nothing created.
Handshake ==
  /\ recv = "handshake"
  /\ recv' \in {"setup", "beach"}
  /\ UNCHANGED <<rentry, proc, pentry, close, running, done, created, stop_pipe,
                 pool, buf, queue, arrived, heap, handled, events>>

\* Everything takion_thread_func sets up before its loop.  The pool may be
\* missing: then every entry is malloc'ed.
Setup ==
  /\ recv = "setup"
  /\ running' = TRUE /\ done' = FALSE
  /\ \E p \in SUBSET {"pool"} :
       /\ created' = p \cup {"process_thread", "send_buffer"}
       /\ pool' = IF p = {} THEN {} ELSE Slots
  /\ proc' = "loop"
  /\ recv' = "connected"
  /\ UNCHANGED <<rentry, pentry, close, stop_pipe, buf, queue, arrived, heap,
                 handled, events>>

\* One of the initialisations fails: before, in, or after that of the send
\* buffer, which is asked to stop if it exists.
SetupFails ==
  /\ recv = "setup"
  /\ \/ recv' = "beach" /\ UNCHANGED created
     \/ recv' = "stop_send_buffer" /\ created' = {"send_buffer"}
  /\ UNCHANGED <<rentry, proc, pentry, close, running, done, stop_pipe, pool, buf,
                 queue, arrived, heap, handled, events>>

Connected ==
  /\ recv = "connected"
  /\ events' = Append(events, "CONNECTED")
  /\ recv' = "pop"
  /\ UNCHANGED <<rentry, proc, pentry, close, running, done, created, stop_pipe,
                 pool, buf, queue, arrived, heap, handled>>

\* Take an entry from the pool or malloc a buffer; without memory the loop
\* ends.
Pop ==
  /\ recv = "pop"
  /\ \/ \E s \in pool : rentry' = s /\ pool' = pool \ {s} /\ recv' = "recv"
     \/ pool = {} /\ rentry' = Heap /\ recv' = "recv" /\ UNCHANGED pool
     \/ pool = {} /\ recv' = "shutdown" /\ UNCHANGED <<rentry, pool>>
  /\ UNCHANGED <<proc, pentry, close, running, done, created, stop_pipe, buf,
                 queue, arrived, heap, handled, events>>

\* takion_recv returns a datagram; the stop pipe goes first.  An entry that
\* cannot be allocated for a malloc'ed buffer loses the datagram.
Receive ==
  /\ recv = "recv"
  /\ ~stop_pipe
  /\ arrived < MaxPackets
  /\ arrived' = arrived + 1
  /\ \/ /\ rentry \in Slots
        /\ buf' = [buf EXCEPT ![rentry] = arrived']
        /\ recv' = "enqueue"
        /\ UNCHANGED <<rentry, heap>>
     \/ /\ rentry = Heap
        /\ heap' = heap \cup {arrived'}
        /\ recv' = "enqueue"
        /\ UNCHANGED <<rentry, buf>>
     \/ /\ rentry = Heap
        /\ recv' = "pop" /\ rentry' = None
        /\ UNCHANGED <<buf, heap>>
  /\ UNCHANGED <<proc, pentry, close, running, done, created, stop_pipe, pool,
                 queue, handled, events>>

ReceiveFails__keeps_entry ==
  /\ recv = "recv"
  /\ rentry' = None
  /\ recv' = "shutdown"
  /\ UNCHANGED <<proc, pentry, close, running, done, created, stop_pipe, pool, buf,
                 queue, arrived, heap, handled, events>>

\* Cancelled by the stop pipe, or a socket error at any time: the entry goes
\* back (takion_recv_packet_release, or free for a malloc'ed buffer).
ReceiveFails ==
  /\ recv = "recv"
  /\ pool' = pool \cup ({rentry} \cap Slots)
  /\ rentry' = None
  /\ recv' = "shutdown"
  /\ UNCHANGED <<proc, pentry, close, running, done, created, stop_pipe, buf,
                 queue, arrived, heap, handled, events>>

\* takion_recv_packet_release of an entry that was not handled.
Release(e) ==
  /\ pool' = pool \cup ({e.slot} \cap Slots)
  /\ heap' = IF e.slot = Heap THEN heap \ {e.packet} ELSE heap

Enqueue__at_front ==
  /\ recv = "enqueue"
  /\ Len(queue) < QUEUE_MAX
  /\ queue' = <<[slot |-> rentry, packet |-> arrived]>> \o queue
  /\ rentry' = None
  /\ recv' = "signal"
  /\ UNCHANGED <<proc, pentry, close, running, done, created, stop_pipe, pool, buf,
                 heap, arrived, handled, events>>

\* The oldest entry makes room when the queue is full.
Enqueue ==
  /\ recv = "enqueue"
  /\ LET e == [slot |-> rentry, packet |-> arrived]
     IN \/ /\ Len(queue) >= QUEUE_MAX
           /\ queue' = Append(Tail(queue), e)
           /\ Release(Head(queue))
        \/ /\ Len(queue) < QUEUE_MAX
           /\ queue' = Append(queue, e)
           /\ UNCHANGED <<pool, heap>>
  /\ rentry' = None
  /\ recv' = "signal"
  /\ UNCHANGED <<proc, pentry, close, running, done, created, stop_pipe, buf,
                 arrived, handled, events>>

\* The signal comes after the unlock.
SignalProcess ==
  /\ recv = "signal"
  /\ WakeProcess
  /\ recv' = "pop"
  /\ UNCHANGED <<rentry, pentry, close, running, done, created, stop_pipe, pool,
                 buf, queue, arrived, heap, handled, events>>

Shutdown__no_signal ==
  /\ recv = "shutdown"
  /\ running' = FALSE
  /\ recv' = "wait_done"
  /\ UNCHANGED <<rentry, proc, pentry, close, done, created, stop_pipe, pool, buf,
                 queue, arrived, heap, handled, events>>

\* After the loop: stop the packet-process thread, wait until it says that
\* it is done, free what is left in the queue.
Shutdown ==
  /\ recv = "shutdown"
  /\ running' = FALSE
  /\ WakeProcess
  /\ recv' = "wait_done"
  /\ UNCHANGED <<rentry, pentry, close, done, created, stop_pipe, pool, buf, queue,
                 arrived, heap, handled, events>>

WaitDone ==
  /\ recv = "wait_done"
  /\ recv' = IF done THEN "drain" ELSE "waiting"
  /\ UNCHANGED <<rentry, proc, pentry, close, running, done, created, stop_pipe,
                 pool, buf, queue, arrived, heap, handled, events>>

Drain ==
  /\ recv = "drain"
  /\ queue' = <<>>
  /\ pool' = pool \cup ({queue[k].slot : k \in DOMAIN queue} \cap Slots)
  /\ heap' = heap \ {queue[k].packet : k \in DOMAIN queue}
  /\ recv' = "stop_send_buffer"
  /\ UNCHANGED <<rentry, proc, pentry, close, running, done, created, stop_pipe,
                 buf, arrived, handled, events>>

\* chiaki_takion_send_buffer_request_stop, then chiaki_reorder_queue_fini.
StopSendBuffer ==
  /\ recv = "stop_send_buffer"
  /\ recv' = "beach"
  /\ UNCHANGED <<rentry, proc, pentry, close, running, done, created, stop_pipe,
                 pool, buf, queue, arrived, heap, handled, events>>

Beach ==
  /\ recv = "beach"
  /\ events' = Append(events, "DISCONNECT")
  /\ recv' = "end"
  /\ UNCHANGED <<rentry, proc, pentry, close, running, done, created, stop_pipe,
                 pool, buf, queue, arrived, heap, handled>>
-----------------------------------------------------------------------------

\* The packet-process thread with the mutex: take the first entry, sleep
\* while there is none, or finish once it has been told to.
ProcessLoop ==
  /\ proc = "loop"
  /\ \/ /\ queue # <<>>
        /\ pentry' = Head(queue) /\ queue' = Tail(queue)
        /\ proc' = "handle"
        /\ UNCHANGED <<done, recv>>
     \/ /\ queue = <<>> /\ running
        /\ proc' = "sleep"
        /\ UNCHANGED <<done, recv, pentry, queue>>
     \/ /\ queue = <<>> /\ ~running
        /\ done' = TRUE
        /\ WakeRecv
        /\ proc' = "end"
        /\ UNCHANGED <<pentry, queue>>
  /\ UNCHANGED <<rentry, close, running, created, stop_pipe, pool, buf, arrived,
                 heap, handled, events>>

\* takion_handle_packet gets a copy of a pooled buffer, if there is memory
\* for one, or the malloc'ed buffer itself, which it frees.
Handle ==
  /\ proc = "handle"
  /\ \/ /\ pentry.slot \in Slots
        /\ \/ handled' = Append(handled, buf[pentry.slot])
           \/ UNCHANGED handled
        /\ UNCHANGED heap
     \/ /\ pentry.slot = Heap
        /\ handled' = Append(handled, pentry.packet)
        /\ heap' = heap \ {pentry.packet}
  /\ proc' = "return"
  /\ UNCHANGED <<recv, rentry, pentry, close, running, done, created, stop_pipe,
                 pool, buf, queue, arrived, events>>

\* takion_recv_packet_return_slot.
ReturnSlot ==
  /\ proc = "return"
  /\ pool' = pool \cup ({pentry.slot} \cap Slots)
  /\ pentry' = None
  /\ proc' = "loop"
  /\ UNCHANGED <<recv, rentry, close, running, done, created, stop_pipe, buf, queue,
                 arrived, heap, handled, events>>
-----------------------------------------------------------------------------
\* chiaki_takion_close, from a thread that is not one of the workers.
CloseStop ==
  /\ close = "open"
  /\ stop_pipe' = TRUE
  /\ close' = "join_recv"
  /\ UNCHANGED <<recv, rentry, proc, pentry, running, done, created, pool, buf,
                 queue, arrived, heap, handled, events>>

CloseJoinRecv__too_early ==
  /\ close = "join_recv"
  /\ close' = IF "process_thread" \in created THEN "join_process" ELSE "send_buffer_fini"
  /\ UNCHANGED <<recv, rentry, proc, pentry, running, done, created, stop_pipe,
                 pool, buf, queue, arrived, heap, handled, events>>

CloseJoinRecv ==
  /\ close = "join_recv"
  /\ recv = "end"
  /\ close' = IF "process_thread" \in created THEN "join_process" ELSE "send_buffer_fini"
  /\ UNCHANGED <<recv, rentry, proc, pentry, running, done, created, stop_pipe,
                 pool, buf, queue, arrived, heap, handled, events>>

\* Joins, finalises cond and mutex, and frees the pool.
CloseJoinProcess ==
  /\ close = "join_process"
  /\ proc = "end"
  /\ close' = "send_buffer_fini"
  /\ created' = created \ {"pool", "process_thread"}
  /\ pool' = {}
  /\ UNCHANGED <<recv, rentry, proc, pentry, running, done, stop_pipe, buf, queue,
                 arrived, heap, handled, events>>

CloseSendBuffer ==
  /\ close = "send_buffer_fini"
  /\ created' = created \ {"send_buffer"}
  /\ close' = "closed"
  /\ UNCHANGED <<recv, rentry, proc, pentry, running, done, stop_pipe, pool, buf,
                 queue, arrived, heap, handled, events>>

RecvThread ==
  \/ Handshake \/ Setup \/ SetupFails \/ Connected \/ Pop \/ Receive \/ ReceiveFails
  \/ Enqueue \/ SignalProcess \/ Shutdown \/ WaitDone \/ Drain \/ StopSendBuffer \/ Beach
ProcessThread == ProcessLoop \/ Handle \/ ReturnSlot
Close == CloseJoinRecv \/ CloseJoinProcess \/ CloseSendBuffer

Next == RecvThread \/ ProcessThread \/ CloseStop \/ Close

\* Threads run; a receive need not return before the stop pipe is signalled,
\* and nobody has to close the connection.  (takion_handshake also watches
\* the stop pipe and has timeouts.)
Fairness ==
  /\ WF_vars(RecvThread /\ recv # "recv")
  /\ WF_vars(stop_pipe /\ ReceiveFails)
  /\ WF_vars(ProcessThread)
  /\ WF_vars(Close)

Spec == Init /\ [][Next]_vars
FairSpec == Spec /\ Fairness
-----------------------------------------------------------------------------
QueuedSlots == {queue[k].slot : k \in DOMAIN queue} \cap Slots
ProcessSlots == IF pentry = None THEN {} ELSE {pentry.slot} \cap Slots
RecvSlots == {rentry} \cap Slots

\* While the pool exists each of its entries is in exactly one place: free,
\* with the recv thread, in the queue or with the packet-process thread.
PoolConserved ==
  "pool" \in created =>
    /\ pool \cup RecvSlots \cup QueuedSlots \cup ProcessSlots = Slots
    /\ pool \cap (RecvSlots \cup QueuedSlots \cup ProcessSlots) = {}
    /\ RecvSlots \cap (QueuedSlots \cup ProcessSlots) = {}
    /\ QueuedSlots \cap ProcessSlots = {}
    /\ \A j, k \in DOMAIN queue :
         queue[j].slot \in Slots /\ queue[j].slot = queue[k].slot => j = k

\* No datagram is received over one that still has to be handled: the buffer
\* of an entry in the queue or in the packet-process thread's hands holds
\* what was received for it.
BufferNotOverwritten ==
  /\ \A k \in DOMAIN queue :
       queue[k].slot \in Slots => buf[queue[k].slot] = queue[k].packet
  /\ pentry # None /\ pentry.slot \in Slots => buf[pentry.slot] = pentry.packet

\* Datagrams are handled in the order of their arrival and at most once, also
\* when the queue overflowed or the pool ran empty.
HandledInOrder ==
  \A j, k \in DOMAIN handled : j < k => handled[j] < handled[k]

\* The join of the packet-process thread in chiaki_takion_close "is on an
\* already-exited thread", and pool, mutex and cond are finalised only when
\* neither worker can touch them again.
WorkersOutlived ==
  /\ close \in {"join_process", "send_buffer_fini", "closed"} =>
       recv = "end" /\ proc \in {"none", "end"}
  /\ "pool" \notin created => RecvSlots \cup QueuedSlots \cup ProcessSlots = {}

\* CONNECTED comes before every packet and DISCONNECT after the last one: no
\* callback of the packet-process thread follows it.
EventsBracketPackets ==
  /\ handled # <<>> => events # <<>> /\ events[1] = "CONNECTED"
  /\ "DISCONNECT" \in {events[k] : k \in DOMAIN events} => proc \in {"none", "end"}
  /\ Len(events) <= 2

\* Everything that was queued before the shutdown has been handled, and
\* every buffer has been freed, when the threads are gone.
NothingLeftBehind ==
  recv = "end" => queue = <<>> /\ heap = {} /\ rentry = None /\ pentry = None

\* The packet-process thread leaves nothing for the recv thread to free: a
\* datagram queued before the stop is handled.
DrainFindsNothing == recv = "drain" => queue = <<>>

\* Buffers are conserved and hold what was received into them; every variable keeps its type.
BuffersAreSafe == TypeOK /\ PoolConserved /\ BufferNotOverwritten

\* A shutdown, from a close or an error at any time, loses no datagram and frees
\* nothing that a worker may still touch; no callback comes after DISCONNECT.
CleanShutdown == WorkersOutlived /\ EventsBracketPackets /\ NothingLeftBehind /\ DrainFindsNothing

\* chiaki_takion_close returns.
CloseReturns == close = "join_recv" ~> close = "closed"

\* A queued datagram does not stay in the queue.
QueueMovesOn ==
  \A n \in 1 .. MaxPackets :
    (\E k \in DOMAIN queue : queue[k].packet = n) ~>
      ~(\E k \in DOMAIN queue : queue[k].packet = n)

\* The workers wait on one condition variable, and neither takes the other's signal.
WorkersProgress == CloseReturns /\ QueueMovesOn
=============================================================================
