-------------------------------- MODULE Rudp --------------------------------
(***************************************************************************)
(* The reliable UDP of remote connections (rudp.c) and its send buffer     *)
(* (rudpsendbuffer.c).  One instance serves the registration, the session  *)
(* request and the ctrl connection in turn: each makes the same exchange   *)
(* of requests and answers (chiaki_rudp_send_recv).  Then the ctrl and the *)
(* session thread send ctrl messages, which a thread repeats until they    *)
(* are acknowledged.                                                       *)
(***************************************************************************)
EXTENDS Naturals, Sequences, FiniteSets

CONSTANTS
  RudpHalf,                    \* half the number of counter values, 2^15 in the code
  RudpThreads,                 \* threads that send ctrl messages
  RUDP_SEND_BUFFER_SIZE,
  RUDP_DATA_RESEND_TRIES_MAX,
  Tries,                       \* the tries of every request
  MaxCtrl,                     \* bound: ctrl messages sent
  MaxStray                     \* bound: answers that are late

INSTANCE SeqNum WITH Half <- RudpHalf

VARIABLES
  ru,      \* the life of the instance: the exchange, its request, the try
  counter, \* rudp->counter
  air,     \* the kinds of answers on their way
  snd,     \* thread -> where it is in chiaki_rudp_send_ctrl_message
  pk,      \* the send buffer: packets, packets_count, should_stop
  rs,      \* its thread
  got      \* the counters on the wire and at the console, and history

rudpVars == <<ru, counter, air, snd, pk, rs, got>>

NoPk == [ack |-> 0, no |-> 0, tries |-> 0]
Requests == <<"init", "cookie", "session", "finish">>
Exchanges == <<"regist", "session", "ctrl">>

\* Any value will do; this one is followed by the wrap.
FirstCounter == 2 * RudpHalf - 1

InitRudp ==
  /\ ru = [at |-> "off", ex |-> 1, req |-> 1, try |-> 0, late |-> 0]
  /\ counter = FirstCounter /\ air = {}
  /\ snd = [t \in RudpThreads |-> [at |-> "idle", no |-> 0, ack |-> 0]]
  /\ pk = [arr |-> [k \in 1 .. RUDP_SEND_BUFFER_SIZE |-> NoPk], count |-> 0, stop |-> FALSE]
  /\ rs = [at |-> "none", timed |-> FALSE, i |-> 1]
  /\ got = [wire |-> {}, recv |-> {}, sent |-> {}, n |-> 0, pushed |-> {}, dropped |-> FALSE]

-----------------------------------------------------------------------------
(* Creation and the exchanges. *)

\* The counter starts at a random value; the send buffer's thread is started.
\* If something cannot be created, there is no instance.
chiaki_rudp_init ==
  /\ ru.at = "off"
  /\ \/ ru' = [ru EXCEPT !.at = "send"] /\ rs' = [rs EXCEPT !.at = "top"]
     \/ ru' = [ru EXCEPT !.at = "freed"] /\ UNCHANGED rs
  /\ UNCHANGED <<counter, air, snd, pk, got>>

\* Under counter_mutex; the last value is followed by zero.
get_then_increase_counter == counter' = IF counter >= 2 * RudpHalf - 1 THEN 0 ELSE counter + 1

Request == Requests[ru.req]
Exchange == Exchanges[ru.ex]

\* One try of chiaki_rudp_send_recv.  Whether it could be sent is ignored.  The counters
\* it uses up are left out: the first one is random.
SendRequest ==
  /\ ru.at = "send"
  /\ ru' = [ru EXCEPT !.at = "recv", !.try = @ + 1]
  /\ air' \in {air, air \cup {Request}}
  /\ UNCHANGED <<counter, snd, pk, rs, got>>

\* The next request; after the last, the next exchange, and then the ctrl messages.
\* The ctrl connection does not wait for FINISH.
NextRequest(r) ==
  IF r.req < 3 \/ (r.req = 3 /\ r.ex < 3) THEN [r EXCEPT !.at = "send", !.req = @ + 1, !.try = 0]
  ELSE IF r.ex < 3 THEN [r EXCEPT !.at = "send", !.ex = @ + 1, !.req = 1, !.try = 0]
  ELSE [r EXCEPT !.at = "run", !.try = 0, !.late = 0]

\* After a timeout or an answer of another kind: once more, or the request has failed,
\* which only matters if it is not the last.
TryAgain(r) ==
  IF r.try < Tries THEN [r EXCEPT !.at = "send"]
  ELSE IF Request = "finish" THEN NextRequest(r) ELSE [r EXCEPT !.at = "fini"]

\* Answers that come after the exchanges are of no known type (AckUnknown).
Remaining(xs) == IF ru'.at \in {"run", "fini"} THEN {} ELSE xs

SelectTimeout ==
  /\ ru.at = "recv"
  /\ ru' = TryAgain(ru)
  /\ air' = Remaining(air)
  /\ UNCHANGED <<counter, snd, pk, rs, got>>

\* A failing select or recv.
SelectFails ==
  /\ ru.at = "recv"
  /\ ru' = IF Request = "finish" THEN NextRequest(ru) ELSE [ru EXCEPT !.at = "fini"]
  /\ air' = Remaining(air)
  /\ UNCHANGED <<counter, snd, pk, rs, got>>

\* A datagram is a message and its submessages; the one of the expected kind counts.
\* It may be too small.
chiaki_rudp_select_recv ==
  /\ ru.at = "recv"
  /\ \E xs \in {ys \in SUBSET air : Cardinality(ys) \in 1 .. 2} :
       /\ IF Request \in xs THEN ru' \in {NextRequest(ru), TryAgain(ru)} ELSE ru' = TryAgain(ru)
       /\ air' = Remaining(air \ xs)
  /\ UNCHANGED <<counter, snd, pk, rs, got>>

\* The console repeats an answer.
LateAnswer ==
  /\ ru.late < MaxStray /\ ru.at = "recv"
  /\ ru' = [ru EXCEPT !.late = @ + 1]
  /\ \E k \in 1 .. ru.req : air' = air \cup {Requests[k]}
  /\ UNCHANGED <<counter, snd, pk, rs, got>>

-----------------------------------------------------------------------------
(* chiaki_rudp_send_ctrl_message and _send_switch_to_stream_connection_message *)

TakeCounter(t) ==
  /\ ru.at = "run" /\ snd[t].at = "idle" /\ got.n < MaxCtrl
  /\ snd' = [snd EXCEPT ![t] = [at |-> "ack", no |-> counter, ack |-> 0]]
  /\ get_then_increase_counter
  /\ got' = [got EXCEPT !.sent = @ \cup {counter}, !.n = @ + 1]
  /\ UNCHANGED <<ru, air, pk, rs>>

ReadAckCounter__before(t) ==
  /\ snd[t].at = "ack"
  /\ snd' = [snd EXCEPT ![t].at = "raw", ![t].ack = snd[t].no]
  /\ UNCHANGED <<ru, counter, air, pk, rs, got>>

\* The number that acknowledges the message is read without the mutex: another thread
\* may have increased it once more.
ReadAckCounter(t) ==
  /\ snd[t].at = "ack"
  /\ snd' = [snd EXCEPT ![t].at = "raw", ![t].ack = counter]
  /\ UNCHANGED <<ru, counter, air, pk, rs, got>>

chiaki_rudp_send_raw(t) ==
  /\ snd[t].at = "raw"
  /\ \/ /\ got' = [got EXCEPT !.wire = @ \cup {snd[t].no}]
        /\ snd' = [snd EXCEPT ![t].at = "push"]
     \/ snd' = [snd EXCEPT ![t].at = "idle"] /\ UNCHANGED got
  /\ UNCHANGED <<ru, counter, air, pk, rs>>

\* The buffer's thread holds the mutex, except while it sleeps or gives up on a packet.
Held == rs.at \in {"top", "block", "check", "scan"}
Live == 1 .. pk.count
WakeUp == rs' = IF rs.at = "sleep" THEN [rs EXCEPT !.at = "wake"] ELSE rs

\* A full buffer and a number that is already there are errors: the message, which was
\* sent, is not kept.
chiaki_rudp_send_buffer_push(t) ==
  /\ snd[t].at = "push" /\ ~Held
  /\ snd' = [snd EXCEPT ![t].at = "idle"]
  /\ IF pk.count >= RUDP_SEND_BUFFER_SIZE \/ \E k \in Live : pk.arr[k].ack = snd[t].ack
     THEN UNCHANGED <<pk, rs, got>>
     ELSE /\ pk' = [pk EXCEPT !.count = @ + 1,
                              !.arr[pk.count + 1] = [ack |-> snd[t].ack, no |-> snd[t].no, tries |-> 0]]
          /\ IF pk.count = 0 THEN WakeUp ELSE UNCHANGED rs
          /\ got' = [got EXCEPT !.pushed = @ \cup {snd[t].no}]
  /\ UNCHANGED <<ru, counter, air>>

-----------------------------------------------------------------------------
(* Acknowledgements *)

\* The packets that stay when the number a is acknowledged: those up to it leave.
Kept(a) == {k \in Live : pk.arr[k].ack # a /\ ~lt(pk.arr[k].ack, a)}

\* They move up, in their order.  What is left behind the count is only read by the thread
\* when it gives up on a packet.
chiaki_rudp_send_buffer_ack(a) ==
  \E n \in 0 .. pk.count : \E from \in [1 .. n -> Kept(a)] :
    /\ \A j, k \in 1 .. n : j < k => from[j] < from[k]
    /\ \A k \in Kept(a) : \E j \in 1 .. n : from[j] = k
    /\ pk' = [pk EXCEPT !.count = n,
                        !.arr = [k \in 1 .. RUDP_SEND_BUFFER_SIZE |-> IF k <= n THEN pk.arr[from[k]]
                                                                    ELSE IF rs'.at = "giveup" THEN pk.arr[k] ELSE NoPk]]

ConsoleReceives ==
  /\ \E n \in got.wire \ got.recv : got' = [got EXCEPT !.recv = @ \cup {n}]
  /\ UNCHANGED <<ru, counter, air, snd, pk, rs>>

\* The console acknowledges with the counter after the last message of those it has all of.
chiaki_rudp_ack_packet ==
  /\ ru.at = "run" /\ ~Held
  /\ UNCHANGED <<ru, counter, air, snd, rs, got>>
  /\ \E n \in got.recv :
       /\ \A x \in SeqNums : Ahead(FirstCounter, x) <= Ahead(FirstCounter, n) => x \in got.recv
       /\ chiaki_rudp_send_buffer_ack(add(n, 1))

\* A message of a type the ctrl thread does not know acknowledges the number zero, with
\* everything that is before it in serial arithmetic.
AckUnknown ==
  /\ ru.at = "run" /\ ~Held /\ pk.count > 0
  /\ UNCHANGED <<ru, counter, air, snd, rs>>
  /\ got' = [got EXCEPT !.dropped = TRUE]
  /\ chiaki_rudp_send_buffer_ack(0)

-----------------------------------------------------------------------------
(* rudp_send_buffer_thread_func, rudp_send_buffer_resend *)

RsGo(p) == rs' = [rs EXCEPT !.at = p]
RestOfRudp == <<ru, counter, air, snd>>
check_pred(timed) == pk.stop \/ (~timed /\ pk.count > 0)

\* With packets the wait has a timeout, without it has none.
RsWait ==
  /\ rs.at = "top"
  /\ rs' = [rs EXCEPT !.timed = pk.count > 0, !.at = IF check_pred(pk.count > 0) THEN "check" ELSE "block"]
  /\ UNCHANGED <<RestOfRudp, pk, got>>

RsBlock == rs.at = "block" /\ RsGo("sleep") /\ UNCHANGED <<RestOfRudp, pk, got>>
RsTimeout == rs.at = "sleep" /\ rs.timed /\ RsGo("timeout") /\ UNCHANGED <<RestOfRudp, pk, got>>

RsWake ==
  /\ \/ rs.at = "wake" /\ RsGo(IF check_pred(rs.timed) THEN "check" ELSE "block")
     \/ rs.at = "timeout" /\ RsGo("check")
  /\ UNCHANGED <<RestOfRudp, pk, got>>

RsCheck ==
  /\ rs.at = "check"
  /\ rs' = [rs EXCEPT !.at = IF pk.stop THEN "done" ELSE "scan", !.i = 1]
  /\ UNCHANGED <<RestOfRudp, pk, got>>

\* A packet that is due is sent again; which ones are is a matter of time.
RsResend ==
  /\ rs.at = "scan" /\ rs.i <= pk.count
  /\ rs' = [rs EXCEPT !.i = @ + 1]
  /\ \/ UNCHANGED <<pk, got>>
     \/ /\ pk.arr[rs.i].tries < RUDP_DATA_RESEND_TRIES_MAX
        /\ pk' = [pk EXCEPT !.arr[rs.i].tries = @ + 1]
        /\ got' = [got EXCEPT !.wire = @ \cup {pk.arr[rs.i].no}]
  /\ UNCHANGED RestOfRudp

\* Too many tries: the mutex is released, and then the packet's number read again.
RsGiveUp ==
  /\ rs.at = "scan" /\ rs.i <= pk.count
  /\ pk.arr[rs.i].tries >= RUDP_DATA_RESEND_TRIES_MAX
  /\ RsGo("giveup")
  /\ got' = [got EXCEPT !.dropped = TRUE]
  /\ UNCHANGED <<RestOfRudp, pk>>

RsGiveUpAck ==
  /\ rs.at = "giveup"
  /\ RsGo("relock")
  /\ chiaki_rudp_send_buffer_ack(pk.arr[rs.i].ack)
  /\ UNCHANGED <<RestOfRudp, got>>

\* The index is stepped back, but not before the first.
RsRelock ==
  /\ rs.at = "relock"
  /\ rs' = [rs EXCEPT !.at = "scan", !.i = IF @ > 1 THEN @ ELSE 2]
  /\ UNCHANGED <<RestOfRudp, pk, got>>

RsPassEnds == rs.at = "scan" /\ rs.i > pk.count /\ RsGo("top") /\ UNCHANGED <<RestOfRudp, pk, got>>

ResendThread ==
  RsWait \/ RsBlock \/ RsTimeout \/ RsWake \/ RsCheck \/ RsResend \/ RsGiveUp \/ RsGiveUpAck \/ RsRelock \/ RsPassEnds

-----------------------------------------------------------------------------
(* chiaki_rudp_fini, when the session is over *)

RudpOver ==
  /\ ru.at = "run" /\ \A t \in RudpThreads : snd[t].at = "idle"
  /\ ru' = [ru EXCEPT !.at = "fini"]
  /\ UNCHANGED <<counter, air, snd, pk, rs, got>>

\* should_stop is set without the mutex, ...
SetStop ==
  /\ ru.at = "fini"
  /\ pk' = [pk EXCEPT !.stop = TRUE]
  /\ ru' = [ru EXCEPT !.at = "signal"]
  /\ UNCHANGED <<counter, air, snd, rs, got>>

\* ... and signalled.
SignalStop ==
  /\ ru.at = "signal"
  /\ WakeUp
  /\ ru' = [ru EXCEPT !.at = "join"]
  /\ UNCHANGED <<counter, air, snd, pk, got>>

chiaki_rudp_fini ==
  /\ ru.at = "join" /\ rs.at = "done"
  /\ ru' = [ru EXCEPT !.at = "freed"]
  /\ pk' = [pk EXCEPT !.count = 0]
  /\ UNCHANGED <<counter, air, snd, rs, got>>

-----------------------------------------------------------------------------
RudpCaller ==
  \/ SendRequest \/ SelectTimeout \/ SelectFails \/ chiaki_rudp_select_recv
  \/ SetStop \/ SignalStop \/ chiaki_rudp_fini
Sending(t) == ReadAckCounter(t) \/ chiaki_rudp_send_raw(t) \/ chiaki_rudp_send_buffer_push(t)

NextRudp ==
  \/ chiaki_rudp_init \/ RudpCaller \/ LateAnswer \/ ResendThread \/ RudpOver
  \/ \E t \in RudpThreads : TakeCounter(t) \/ Sending(t)
  \/ ConsoleReceives \/ chiaki_rudp_ack_packet \/ AckUnknown

\* The threads run; nothing is assumed of the console, nor of when the session ends.
FairRudp ==
  /\ WF_rudpVars(RudpCaller) /\ WF_rudpVars(ResendThread)
  /\ \A t \in RudpThreads : WF_rudpVars(Sending(t))

\* Two threads never put the same counter on the wire, also across the wrap; and until the
\* thread gives up on a packet or an unknown message comes, a message that the console has
\* not received is still there to be repeated: although the number a message
\* is kept under is read too late, it is never one that an ack of an earlier message covers.
RudpKeptUntilReceived ==
  /\ Cardinality(got.sent) = got.n
  /\ ru.at # "freed" /\ ~got.dropped =>
       \A n \in got.pushed : n \in got.recv \/ \E k \in Live : pk.arr[k].no = n

\* The stop can fall between the check of the predicate and a wait without timeout.
StopMissed == pk.stop /\ rs.at = "sleep" /\ ~rs.timed

\* Every exchange ends, whatever is lost, late or of the wrong kind; chiaki_rudp_fini
\* returns, unless its stop is missed.
RudpEnds == (ru.at \notin {"off", "run", "freed"}) ~> (ru.at \in {"run", "freed"} \/ StopMissed)
=============================================================================
