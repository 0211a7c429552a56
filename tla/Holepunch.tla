------------------------------ MODULE Holepunch ------------------------------
(***************************************************************************)
(* The hole punching of holepunch.c: the calls session_create,             *)
(* create_offer, session_start, punch_hole (for the control and then for   *)
(* the data connection) and session_fini, as the main thread makes them;   *)
(* the thread that reads PSN's notifications from a websocket; and a       *)
(* cancel from a third thread.  They share the session's state bits under  *)
(* state_mutex, the list of notifications, and the stop flags.  An HTTP    *)
(* request succeeds, with what it makes PSN send, or fails.                *)
(***************************************************************************)
EXTENDS Naturals, Sequences, FiniteSets, SequencesExt

CONSTANTS
  MaxExtra,               \* notifications repeated, malformed or unasked-for, and cancels
  SELECT_CANDIDATE_TRIES  \* requests repeated while no candidate answers

VARIABLES
  m,      \* the main thread: where it is, for which port, its locals
  w,      \* the websocket thread: where it is, the notification in hand
  lock,   \* who holds state_mutex
  st,     \* session->state, as a set of bits
  q,      \* ws_notification_queue
  fl,     \* main_should_stop, ws_thread_should_stop with select_pipe, ws_open
  sess,   \* our_offer_msg, local_req_id and the sockets of the session
  psn     \* what PSN and the console have still to send, in order, and have got from us

hpVars == <<m, w, lock, st, q, fl, sess, psn>>

Note(k, n) == [kind |-> k, n |-> n, ok |-> TRUE]
Bad(x) == [x EXCEPT !.ok = FALSE]
Messages == {"offer", "result", "accept", "terminate"}

\* Whether what a notification carries can be made out: the payload and its message, the
\* customData1, or the online id and the device id of a member.
session_message_parse(x) == x.ok
decode_customdata1(x) == x.ok
MemberIs(x, n) == x.ok /\ x.n = n

\* chiaki_holepunch_session_init
InitHp ==
  /\ m = [at |-> "off", port |-> "ctrl", note |-> Note("none", 0), req |-> 0, sock |-> 0, tries |-> 0,
          responded |-> FALSE]
  /\ w = [at |-> "none", note |-> Note("none", 0)]
  /\ lock = "free" /\ st = {} /\ q = <<>>
  /\ fl = [main |-> FALSE, ws |-> FALSE, open |-> FALSE]
  /\ sess = [offer |-> FALSE, req |-> 1, ipv4 |-> 0, next |-> 1, open |-> {}, ctrl |-> 0, data |-> 0]
  /\ psn = [owed |-> <<>>, extra |-> 0, acked |-> {}, accepted |-> {}, sent |-> {}]

-----------------------------------------------------------------------------
(* Steps shared by the calls. *)

MainAt(p) == m.at = p
Go(p) == m' = [m EXCEPT !.at = p]
Owe(ns) == psn' = [psn EXCEPT !.owed = @ \o ns]
\* Either of two notifications may come first.
Two(x, y) == {<<x, y>>, <<y, x>>}

\* if(main_should_stop): the flag is taken back, and the call ends as canceled.
Cancelled(end) ==
  /\ fl.main
  /\ fl' = [fl EXCEPT !.main = FALSE]
  /\ Go(end)
NotCancelled == ~fl.main /\ UNCHANGED fl

\* wait_for_notification returns the first notification in the list of one of
\* these kinds, which stays there ...
Wanted(kinds) == {i \in DOMAIN q : q[i].kind \in kinds}
Found(kinds, x) == \E i \in Wanted(kinds) : x = q[i] /\ \A j \in Wanted(kinds) : i <= j
\* ... or there is none, until the time is up or a cancel is noticed.
NothingFound(kinds, end) ==
  /\ Wanted(kinds) = {}
  /\ \/ Go(end) /\ UNCHANGED fl
     \/ Cancelled(end)

clear_notification(x) == q' = SelectSeq(q, LAMBDA y : y # x)

-----------------------------------------------------------------------------
(* chiaki_holepunch_session_create *)

chiaki_holepunch_session_init ==
  /\ MainAt("off")
  /\ Go("create")
  /\ UNCHANGED <<w, lock, st, q, fl, sess, psn>>

\* Ask for the websocket's address, and start the thread.
GetWebsocketFqdn ==
  /\ MainAt("create")
  /\ UNCHANGED <<lock, st, q, sess, psn>>
  /\ \/ Go("fini") /\ UNCHANGED <<w, fl>>
     \/ Cancelled("fini") /\ UNCHANGED w
     \/ NotCancelled /\ Go("wait_open") /\ w' = [w EXCEPT !.at = "connecting"]

\* At most thirty seconds for WS_OPEN; a connection that fails is not reported.
WaitOpen ==
  /\ MainAt("wait_open") /\ lock = "free"
  /\ UNCHANGED <<w, lock, st, q, sess, psn>>
  /\ \/ "ws_open" \notin st /\ Go("fini") /\ UNCHANGED fl
     \/ Cancelled("fini")
     \/ "ws_open" \in st /\ NotCancelled /\ Go("http_create")

http_create_session ==
  /\ MainAt("http_create")
  /\ UNCHANGED <<w, lock, st, q, sess>>
  /\ \/ Go("fini") /\ UNCHANGED <<fl, psn>>
     \/ /\ \E ns \in Two(Note("session_created", 0), Note("member", 1)) : Owe(ns)
        /\ Cancelled("fini") \/ (NotCancelled /\ Go("wait_created"))

\* SESSION_CREATED with the online id, and our own MEMBER_CREATED, in any order.
\* A notification without online id, and a cancel, leave with the mutex held.
WaitCreated ==
  /\ MainAt("wait_created")
  /\ UNCHANGED <<w, sess, psn>>
  /\ \/ NothingFound({"session_created", "member"}, "fini") /\ UNCHANGED <<lock, st, q>>
     \/ \E x \in ToSet(q) :
          /\ Found({"session_created", "member"}, x) /\ lock = "free"
          /\ st' = st \cup {IF x.kind = "member" THEN "client_joined" ELSE "created"}
          /\ \/ x.kind = "session_created" /\ ~x.ok /\ Go("fini") /\ lock' = "main" /\ UNCHANGED <<q, fl>>
             \/ /\ x.kind = "member" \/ x.ok
                /\ \/ Cancelled("fini") /\ lock' = "main" /\ UNCHANGED q
                   \/ /\ NotCancelled
                      /\ clear_notification(x)
                      /\ Go(IF {"created", "client_joined"} \subseteq st' THEN "offer" ELSE "wait_created")
                      /\ UNCHANGED lock

-----------------------------------------------------------------------------
(* holepunch_session_create_offer *)

\* For the data connection the session goes on whether or not there is an offer.
AfterOffer(made) == IF m.port = "data" THEN "punch" ELSE IF made THEN "start" ELSE "fini"

\* The offer of the control connection is freed and a new socket made and bound.  One
\* that is refused SO_REUSEPORT stays open, any other failure closes it.
OfferSocket ==
  /\ MainAt("offer")
  /\ UNCHANGED <<w, lock, st, q, fl, psn>>
  /\ LET made == [sess EXCEPT !.offer = FALSE, !.ipv4 = sess.next, !.next = @ + 1, !.open = @ \cup {sess.next}] IN
     \/ sess' = made /\ Go("address")
     \/ sess' = made /\ Go(AfterOffer(FALSE))
     \/ sess' = [sess EXCEPT !.offer = FALSE, !.ipv4 = 0] /\ Go(AfterOffer(FALSE))

Close(s) == [sess EXCEPT !.open = @ \ {s}, !.ipv4 = IF @ = s THEN 0 ELSE @]

\* The address the console can reach: a port mapping of the gateway, if UPnP found one,
\* or what STUN servers see (module StunPorts).  The local address may be missing.
OfferAddress ==
  /\ MainAt("address")
  /\ UNCHANGED <<w, lock, st, q, fl, psn>>
  /\ \/ Go("candidates") /\ sess' = [sess EXCEPT !.req = @ + 1]
     \/ Go(AfterOffer(FALSE)) /\ sess' = [Close(sess.ipv4) EXCEPT !.req = @ + 1]

\* The candidates in the order the console is to try them; the offer is kept.
OfferCandidates ==
  /\ MainAt("candidates")
  /\ UNCHANGED <<w, lock, st, q, fl, psn>>
  /\ \/ Go(AfterOffer(TRUE)) /\ sess' = [sess EXCEPT !.offer = TRUE]
     \/ Go(AfterOffer(FALSE)) /\ sess' = Close(sess.ipv4)

-----------------------------------------------------------------------------
(* chiaki_holepunch_session_start *)

\* The offer is freed if a request fails.
StartFails == Go("fini") /\ sess' = [sess EXCEPT !.offer = FALSE] /\ UNCHANGED <<st, fl, psn>>

\* http_ps4_session_wakeup first asks for the profile of the user, which the command holds.
GetUserProfile ==
  /\ MainAt("start") /\ "created" \in st
  /\ UNCHANGED <<w, lock, q>>
  /\ StartFails \/ (Go("wakeup") /\ UNCHANGED <<st, fl, sess, psn>>)

\* The command for a PS5, or the one that wakes up a PS4.
http_start_session ==
  /\ m.at \in {"start", "wakeup"} /\ lock = "free" /\ "created" \in st
  /\ UNCHANGED <<w, lock, q>>
  /\ \/ StartFails
     \/ /\ st' = st \cup {"data_sent"}
        /\ \E ns \in Two(Note("member", 2), Note("custom", 0)) : Owe(ns \o <<Note("offer", 1)>>)
        /\ Cancelled("fini") \/ (NotCancelled /\ Go("wait_started"))
        /\ UNCHANGED sess

\* The console's MEMBER_CREATED, with the expected device id, and customData1.
\* A bad one ends the call; a cancel leaves with the mutex held.
WaitStarted ==
  /\ MainAt("wait_started")
  /\ UNCHANGED <<w, sess, psn>>
  /\ \/ NothingFound({"member", "custom"}, "fini") /\ UNCHANGED <<lock, st, q>>
     \/ \E x \in ToSet(q) :
          /\ Found({"member", "custom"}, x) /\ lock = "free"
          /\ LET good == IF x.kind = "member" THEN MemberIs(x, 2) ELSE decode_customdata1(x) IN
             \/ ~good /\ Go("fini") /\ UNCHANGED <<lock, st, q, fl>>
             \/ /\ good
                /\ st' = st \cup {IF x.kind = "member" THEN "console_joined" ELSE "customdata1"}
                /\ clear_notification(x)
                /\ \/ Cancelled("fini") /\ lock' = "main"
                   \/ /\ NotCancelled /\ UNCHANGED lock
                      /\ Go(IF {"console_joined", "customdata1"} \subseteq st' THEN "punch" ELSE "wait_started")

-----------------------------------------------------------------------------
(* chiaki_holepunch_session_punch_hole *)

PunchHole ==
  /\ MainAt("punch") /\ lock = "free"
  /\ Go(IF (IF m.port = "ctrl" THEN "customdata1" ELSE "ctrl_established") \in st THEN "wait_offer" ELSE "offer_cleanup")
  /\ UNCHANGED <<w, lock, st, q, fl, sess, psn>>

\* wait_for_session_message: the next session message.  TERMINATE and a malformed
\* one end the call and stay in the list; one of another action is cleared.
wait_for_session_message(action, end) ==
  \/ NothingFound(Messages, end) /\ UNCHANGED <<q, st>>
  \/ \E x \in ToSet(q) :
       /\ Found(Messages, x)
       /\ \/ Cancelled(end) /\ UNCHANGED <<q, st>>
          \/ /\ NotCancelled /\ (x.kind = "terminate" \/ ~session_message_parse(x))
             /\ Go(end) /\ UNCHANGED <<q, st>>
          \/ /\ NotCancelled /\ x.kind \in Messages \ {"terminate", action} /\ session_message_parse(x)
             /\ clear_notification(x) /\ UNCHANGED <<m, st>>
\* The message it returns.
MessageReceived(action, x) ==
  /\ Found(Messages, x) /\ NotCancelled
  /\ x.kind = action /\ session_message_parse(x)

OfferReceived(x) ==
  /\ lock = "free"
  /\ m' = [m EXCEPT !.at = "ack_offer", !.note = x]
  /\ st' = st \cup {IF m.port = "ctrl" THEN "ctrl_offer_received" ELSE "data_offer_received"}
  /\ UNCHANGED q

WaitOffer ==
  /\ MainAt("wait_offer")
  /\ \/ wait_for_session_message("offer", "offer_cleanup")
     \/ \E x \in ToSet(q) : MessageReceived("offer", x) /\ OfferReceived(x)
  /\ UNCHANGED <<w, lock, sess, psn>>

\* RESULT for the console's offer.
AckOffer ==
  /\ MainAt("ack_offer")
  /\ UNCHANGED <<w, lock, st, q, sess>>
  /\ \/ Go("cleanup") /\ UNCHANGED <<fl, psn>>
     \/ /\ psn' = [psn EXCEPT !.acked = @ \cup {m.note.n}]
        /\ Cancelled("cleanup") \/ (NotCancelled /\ Go("send_offer"))

\* our_offer_msg is used whether or not it was created; that it could not be sent is ignored.
send_offer ==
  /\ MainAt("send_offer")
  /\ UNCHANGED <<w, lock, st, q, fl>>
  /\ IF sess.offer
     THEN /\ m' = [m EXCEPT !.at = "wait_ack", !.req = sess.req]
          /\ sess' = [sess EXCEPT !.req = @ + 1]
          /\ Owe(<<Note("result", sess.req)>>) \/ UNCHANGED psn
     ELSE Go("crash") /\ UNCHANGED <<sess, psn>>

\* wait_for_session_message_ack: a RESULT for another request is left in the list,
\* where the next round finds it again.
AckReceived(x) ==
  /\ x.n = m.req
  /\ Go("requests")
  /\ UNCHANGED <<q, st>>

WaitAck ==
  /\ MainAt("wait_ack")
  /\ \/ wait_for_session_message("result", "cleanup")
     \/ \E x \in ToSet(q) : MessageReceived("result", x) /\ AckReceived(x)
  /\ UNCHANGED <<w, lock, sess, psn>>

(* check_candidates *)
\* A request to every candidate, with random port allocation from many more sockets too;
\* one that can be sent is enough.
CheckRequests ==
  /\ MainAt("requests")
  /\ UNCHANGED <<w, lock, st, q, fl, psn>>
  /\ \/ m' = [m EXCEPT !.at = "check", !.tries = 0, !.responded = FALSE] /\ UNCHANGED sess
     \/ Go("cleanup") /\ sess' = Close(sess.ipv4)

CheckTimeout ==
  /\ MainAt("check")
  /\ UNCHANGED <<w, lock, st, q, fl, psn>>
  /\ IF m.tries < SELECT_CANDIDATE_TRIES THEN m' = [m EXCEPT !.tries = @ + 1] /\ UNCHANGED sess
     ELSE Go("cleanup") /\ sess' = Close(sess.ipv4)

\* A request of the console is answered; a failing select or answer, or nonsense
\* from a candidate of the offer, ends it.
CheckRequest ==
  /\ MainAt("check")
  /\ UNCHANGED <<w, lock, st, q, fl, psn>>
  /\ \/ ~m.responded /\ m' = [m EXCEPT !.responded = TRUE] /\ UNCHANGED sess
     \/ Go("cleanup") /\ sess' = Close(sess.ipv4)

\* The first answer to our request selects its socket: the session's own or, with
\* random port allocation, one of the extra ones.  The console's follow-up request
\* must come, unless one was answered before; the socket then is no longer the
\* session's to close.
CheckResponse ==
  /\ MainAt("check")
  /\ UNCHANGED <<w, lock, st, q, psn>>
  /\ \/ Go("cleanup") /\ sess' = Close(sess.ipv4) /\ UNCHANGED fl
     \/ \E own \in BOOLEAN :
          /\ sess' = IF own THEN [sess EXCEPT !.ipv4 = 0]
                     ELSE [sess EXCEPT !.open = (@ \ {sess.ipv4}) \cup {sess.next}, !.next = @ + 1, !.ipv4 = 0]
          /\ \/ Cancelled("cleanup")
             \/ NotCancelled /\ m' = [m EXCEPT !.at = "send_accept", !.sock = IF own THEN sess.ipv4 ELSE sess.next]

send_accept__does_not_wait ==
  /\ MainAt("send_accept")
  /\ UNCHANGED <<w, lock, q, sess, psn, fl>>
  /\ Go("last_request")
  /\ st' = st \cup {IF m.port = "ctrl" THEN "ctrl_established" ELSE "data_established"}

send_accept ==
  /\ MainAt("send_accept")
  /\ UNCHANGED <<w, lock, st, q>>
  /\ \/ Go("cleanup") /\ UNCHANGED <<fl, psn, sess>>
     \/ /\ \E ns \in Two(Note("result", sess.req), Note("accept", m.note.n)) :
             psn' = [psn EXCEPT !.owed = @ \o ns, !.sent = @ \cup {m.port}]
        /\ \/ Cancelled("cleanup") /\ UNCHANGED sess
           \/ NotCancelled /\ Go("wait_accept") /\ sess' = [sess EXCEPT !.req = @ + 1]

AcceptReceived(x) ==
  /\ m' = [m EXCEPT !.at = "establish", !.note = x]
  /\ UNCHANGED <<q, st>>

WaitAccept ==
  /\ MainAt("wait_accept")
  /\ \/ wait_for_session_message("accept", "cleanup")
     \/ \E x \in ToSet(q) : MessageReceived("accept", x) /\ AcceptReceived(x)
  /\ UNCHANGED <<w, lock, sess, psn>>

\* RESULT for the console's ACCEPT; then the socket is handed out, before the last
\* ways the call can still fail.
Establish ==
  /\ MainAt("establish")
  /\ UNCHANGED <<w, lock, q>>
  /\ \/ Go("cleanup") /\ UNCHANGED <<st, fl, sess, psn>>
     \/ Cancelled("cleanup") /\ UNCHANGED <<st, sess>> /\ psn' = [psn EXCEPT !.accepted = @ \cup {m.port}]
     \/ /\ NotCancelled /\ lock = "free"
        /\ st' = st \cup {IF m.port = "ctrl" THEN "ctrl_established" ELSE "data_established"}
        /\ sess' = IF m.port = "ctrl" THEN [sess EXCEPT !.ctrl = m.sock] ELSE [sess EXCEPT !.data = m.sock]
        /\ psn' = [psn EXCEPT !.accepted = @ \cup {m.port},
                              !.owed = IF m.port = "ctrl" THEN Append(@, Note("offer", 2)) ELSE @]
        /\ Go("last_request")

LastRequest ==
  /\ MainAt("last_request")
  /\ UNCHANGED <<w, lock, st, q, psn>>
  /\ \/ Cancelled("cleanup") /\ UNCHANGED sess
     \/ UNCHANGED fl /\ UNCHANGED sess /\ Go("cleanup")
     \/ /\ NotCancelled
        /\ sess' = [sess EXCEPT !.offer = FALSE]
        /\ m' = [m EXCEPT !.at = IF m.port = "ctrl" THEN "offer" ELSE "use", !.port = "data"]

\* The labels cleanup and offer_cleanup after an error.
PunchCleanup ==
  /\ m.at \in {"cleanup", "offer_cleanup"}
  /\ sess' = [(IF MainAt("cleanup") THEN Close(sess.ipv4) ELSE sess) EXCEPT !.offer = FALSE]
  /\ Go("fini")
  /\ UNCHANGED <<w, lock, st, q, fl, psn>>

-----------------------------------------------------------------------------
(* chiaki_holepunch_session_fini *)

StopWebsocket__not_told ==
  /\ MainAt("fini")
  /\ Go("delete")
  /\ UNCHANGED <<w, lock, st, q, fl, sess, psn>>

StopWebsocket ==
  /\ MainAt("fini")
  /\ fl' = [fl EXCEPT !.ws = TRUE]
  /\ Go("delete")
  /\ UNCHANGED <<w, lock, st, q, sess, psn>>

deleteSession ==
  /\ MainAt("delete")
  /\ UNCHANGED <<w, lock, st, q, fl, sess>>
  /\ IF fl.open THEN Go("wait_deleted") /\ (UNCHANGED psn \/ Owe(<<Note("deleted", 0)>>))
                ELSE Go("join") /\ UNCHANGED psn

WaitDeleted ==
  /\ MainAt("wait_deleted")
  /\ UNCHANGED <<w, lock, sess, psn>>
  /\ \/ NothingFound({"deleted"}, "join") /\ UNCHANGED <<st, q>>
     \/ \E x \in ToSet(q) :
          /\ Found({"deleted"}, x) /\ lock = "free"
          /\ st' = st \cup {"deleted"} /\ clear_notification(x)
          /\ Go("join") /\ UNCHANGED fl

\* The thread is joined even if it was never created.
JoinWebsocket ==
  /\ MainAt("join") /\ w.at \in {"none", "done"}
  /\ IF w.at = "done" THEN Go("freed") ELSE Go("freed") \/ Go("crash")
  /\ q' = <<>>
  /\ UNCHANGED <<w, lock, st, fl, sess, psn>>

MainNext ==
  \/ GetWebsocketFqdn \/ WaitOpen \/ http_create_session \/ WaitCreated
  \/ OfferSocket \/ OfferAddress \/ OfferCandidates \/ GetUserProfile \/ http_start_session \/ WaitStarted
  \/ PunchHole \/ WaitOffer \/ AckOffer \/ send_offer \/ WaitAck
  \/ CheckRequests \/ CheckTimeout \/ CheckRequest \/ CheckResponse \/ send_accept \/ WaitAccept \/ Establish
  \/ LastRequest \/ PunchCleanup \/ StopWebsocket \/ deleteSession \/ WaitDeleted \/ JoinWebsocket

-----------------------------------------------------------------------------
(* websocket_thread_func *)

WsAt(p) == w.at = p
WsGo(p) == w' = [w EXCEPT !.at = p]

WsConnect ==
  /\ WsAt("connecting")
  /\ \/ WsGo("done") /\ UNCHANGED fl
     \/ WsGo("opened") /\ fl' = [fl EXCEPT !.open = TRUE]
  /\ UNCHANGED <<m, lock, st, q, sess, psn>>

WsOpened ==
  /\ WsAt("opened") /\ lock = "free"
  /\ st' = st \cup {"ws_open"}
  /\ \/ WsGo("run") /\ UNCHANGED fl
     \/ WsGo("done") /\ fl' = [fl EXCEPT !.open = FALSE]
  /\ UNCHANGED <<m, lock, q, sess, psn>>

\* The stop flag and the pipe, a missing PONG, a closed or broken connection.
WsLeave ==
  /\ WsAt("run")
  /\ WsGo("done") /\ fl' = [fl EXCEPT !.open = FALSE]
  /\ UNCHANGED <<m, lock, st, q, sess, psn>>

\* A notification arrives.  Now and then one is repeated, malformed or unasked-for.
WsReceive ==
  /\ WsAt("run") /\ ~fl.ws
  /\ \/ /\ psn.owed # <<>>
        /\ w' = [w EXCEPT !.at = "got", !.note = Head(psn.owed)]
        /\ psn' = [psn EXCEPT !.owed = Tail(@)]
     \/ /\ psn.extra < MaxExtra /\ psn.owed # <<>>
        /\ w' = [w EXCEPT !.at = "got", !.note = Bad(Head(psn.owed))]
        /\ psn' = [psn EXCEPT !.owed = Tail(@), !.extra = @ + 1]
     \/ /\ psn.extra < MaxExtra /\ "data_sent" \in st
        /\ \E x \in {Note("terminate", 0), Note("offer", 3)} : w' = [w EXCEPT !.at = "got", !.note = x]
        /\ psn' = [psn EXCEPT !.extra = @ + 1]
  /\ UNCHANGED <<m, lock, st, q, fl, sess>>

\* Offers nobody waits for are acknowledged here.
should_ack_offers ==
  \/ "ctrl_offer_received" \in st /\ "ctrl_established" \notin st
  \/ "data_offer_received" \in st

WsCheck ==
  /\ WsAt("got") /\ lock = "free"
  /\ WsGo(IF should_ack_offers /\ w.note.kind \in Messages THEN "ack" ELSE "enqueue")
  /\ UNCHANGED <<m, lock, st, q, fl, sess, psn>>

\* Whether the RESULT reaches PSN is ignored.  A message that cannot be parsed is
\* dropped here, and reaches nobody.
WsAck ==
  /\ WsAt("ack")
  /\ \/ ~session_message_parse(w.note) /\ WsGo("run") /\ UNCHANGED psn
     \/ /\ session_message_parse(w.note) /\ WsGo("enqueue")
        /\ psn' = IF w.note.kind = "offer" THEN [psn EXCEPT !.acked = @ \cup {w.note.n}] ELSE psn
  /\ UNCHANGED <<m, lock, st, q, fl, sess>>

enqueueNq ==
  /\ WsAt("enqueue")
  /\ q' = Append(q, w.note)
  /\ IF w.note.kind = "deleted" THEN WsGo("done") /\ fl' = [fl EXCEPT !.open = FALSE]
                                ELSE WsGo("run") /\ UNCHANGED fl
  /\ UNCHANGED <<m, lock, st, sess, psn>>

WsNext == WsConnect \/ WsOpened \/ (fl.ws /\ WsLeave) \/ WsReceive \/ WsCheck \/ WsAck \/ enqueueNq

-----------------------------------------------------------------------------
(* The application. *)

chiaki_holepunch_main_thread_cancel ==
  /\ psn.extra < MaxExtra /\ m.at \notin {"off", "freed", "crash"}
  /\ psn' = [psn EXCEPT !.extra = @ + 1]
  /\ \E stop_thread \in BOOLEAN : fl' = [fl EXCEPT !.main = TRUE, !.ws = @ \/ stop_thread]
  /\ UNCHANGED <<m, w, lock, st, q, sess>>

\* The session that used the two sockets is over.
UseEnds ==
  /\ MainAt("use")
  /\ Go("fini")
  /\ UNCHANGED <<w, lock, st, q, fl, sess, psn>>

HpEnv == chiaki_holepunch_session_init \/ chiaki_holepunch_main_thread_cancel \/ UseEnds \/ (~fl.ws /\ WsLeave)

NextHp == MainNext \/ WsNext \/ HpEnv
FairHp == WF_hpVars(MainNext) /\ WF_hpVars(WsNext)

-----------------------------------------------------------------------------
\* When chiaki_holepunch_session_fini frees the session, the websocket thread has
\* ended, on every way out of the calls before it.
WebsocketEndsFirst == MainAt("freed") => w.at \in {"none", "done"}

\* A connection is established only after the console's offer was acknowledged and
\* both sides accepted, and the data connection only after the control connection.
EstablishedByBoth ==
  /\ "ctrl_established" \in st => "ctrl" \in psn.sent \cap psn.accepted /\ psn.acked # {}
  /\ "data_established" \in st => "data" \in psn.sent \cap psn.accepted /\ "ctrl_established" \in st

\* A socket that was handed out stays open, whatever fails after that, and the two
\* connections never share one.
SocketsStayOpen ==
  /\ {sess.ctrl, sess.data} \ {0} \subseteq sess.open
  /\ sess.ctrl # 0 => sess.ctrl # sess.data

\* The ways a call can hang or crash: a RESULT for another request is found again
\* and again; an error return of create or start kept state_mutex; the data offer
\* could not be created; the thread joined never existed.
AckSpin == MainAt("wait_ack") /\ \E x \in ToSet(q) : Found(Messages, x) /\ x.kind = "result" /\ x.n # m.req
MutexKept == lock = "main" /\ (w.at \in {"opened", "got"} \/ m.at \in {"wait_deleted"})

\* Every call returns, under fair scheduling, but for those ways.
CallsReturn == (m.at \notin {"off", "use", "freed"}) ~> (m.at \in {"use", "freed", "crash"} \/ AckSpin \/ MutexKept)
=============================================================================
