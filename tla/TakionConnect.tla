--------------------------- MODULE TakionConnect ---------------------------
(***************************************************************************)
(* How a Takion connection begins (takion.c): chiaki_takion_connect makes  *)
(* the socket ready, or drains one that hole punching left over, and       *)
(* starts the thread; the thread exchanges INIT, INIT_ACK, COOKIE and      *)
(* COOKIE_ACK, sending again when an answer does not come.  Messages are   *)
(* lost, repeated, reordered, and some are left of an earlier connection.  *)
(* The thread after the handshake is TakionRecv.                           *)
(***************************************************************************)
EXTENDS Integers, FiniteSets

CONSTANTS
  MAX_CONNECT_RESEND_TRIES,
  MaxDups \* bound: messages the network repeats

VARIABLES
  tc,    \* chiaki_takion_connect and the handshake
  tcnet  \* messages under way, and the console

connectVars == <<tc, tcnet>>

\* The tag of the console, and its first sequence number.
ConsoleTag == 7

\* Tags stand for the connection they were made for: 1 is this one, 0 an earlier one.
\* A tag of 0 in an INIT_ACK, or a number of streams out of range, is its "bad" kind.
InitConnect ==
  /\ tc = [at |-> "off", given |-> FALSE, open |-> FALSE, thread |-> FALSE, ret |-> "none", tries |-> 0,
           acks |-> 0, remote |-> 0, event |-> "none"]
  /\ tcnet = [air |-> {}, tag |-> 0, console |-> "closed", dups |-> 0]

Become(r) == tc' = r /\ UNCHANGED tcnet

\* A socket is given or made.  Some INIT_ACK or COOKIE_ACK of an earlier connection may come.
chiaki_takion_connect ==
  /\ tc.at = "off"
  /\ \E given \in BOOLEAN : tc' = [tc EXCEPT !.at = "setup", !.given = given, !.open = given]
  /\ \E stale \in SUBSET {[kind |-> "init_ack", tag |-> 0, seq |-> 0], [kind |-> "cookie_ack", tag |-> 0, seq |-> 0]} :
       tcnet' = [tcnet EXCEPT !.air = stale]

\* error_sock and the labels after it; not all that lead there have set ret.
ErrorSock(ret) == Become([tc EXCEPT !.at = "over", !.open = FALSE, !.ret = ret])

\* What the hole left over is read until none comes for a while, or for a second.
takion_read_extra_sock_messages ==
  /\ tc.at = "setup" /\ tc.given
  /\ \/ \E m \in tcnet.air : tcnet' = [tcnet EXCEPT !.air = @ \ {m}] /\ UNCHANGED tc
     \/ Become([tc EXCEPT !.at = "ready"])
     \/ ErrorSock("success")

OpenSocket ==
  /\ tc.at = "setup" /\ ~tc.given
  /\ \/ Become([tc EXCEPT !.at = "ready", !.open = TRUE])
     \/ Become([tc EXCEPT !.at = "over", !.ret = "network"])

\* Socket options (and connect, of an own socket); the size of the buffer may not be had.
SocketOptions ==
  /\ tc.at = "ready"
  /\ \/ Become([tc EXCEPT !.at = "init", !.thread = TRUE, !.ret = "success"])
     \/ ErrorSock("network")

-----------------------------------------------------------------------------
\* takion_handshake, in the thread.

Failed(r) == [r EXCEPT !.at = "over", !.event = "disconnect", !.open = FALSE]

\* takion_send_message_init and _cookie: a message leaves, or the handshake is over.
SendFrom(at, wait, msg) ==
  /\ tc.at = at
  /\ \/ /\ tc' = [tc EXCEPT !.at = wait, !.tries = @ + 1, !.acks = 0]
        /\ tcnet' = [tcnet EXCEPT !.air = @ \cup {msg}]
     \/ Become(Failed(tc))

takion_send_message_init == SendFrom("init", "init_wait", [kind |-> "init", tag |-> 1, seq |-> 0])
takion_send_message_cookie == SendFrom("cookie", "cookie_wait", [kind |-> "cookie", tag |-> tc.remote, seq |-> 0])

\* No answer, or not the one expected: the next try, if one is left.
TryAgain(r, at) == IF r.tries < MAX_CONNECT_RESEND_TRIES THEN [r EXCEPT !.at = at] ELSE Failed(r)

\* takion_parse_message: a message with another tag than tag_local is none.
IsOurs__any(m) == TRUE
IsOurs(m) == m.tag = 1

\* No packet in time, or the stop pipe was signalled: that is a try as well.
TakionRecvTimeout ==
  /\ tc.at \in {"init_wait", "cookie_wait"}
  /\ Become(TryAgain(tc, IF tc.at = "init_wait" THEN "init" ELSE "cookie"))

\* What an INIT_ACK brings; a bad one ends the handshake.
Agreed(m) ==
  IF m.kind = "bad_init_ack" THEN Failed(tc)
  ELSE [tc EXCEPT !.at = "cookie", !.tries = 0, !.remote = m.seq]

takion_recv_message_init_ack(m) ==
  /\ tc.at = "init_wait"
  /\ tc' = IF IsOurs(m) /\ m.kind \in {"init_ack", "bad_init_ack"} THEN Agreed(m) ELSE TryAgain(tc, "init")

\* One more INIT_ACK, of an INIT that was sent again, is passed over.
takion_recv_message_cookie_ack(m) ==
  /\ tc.at = "cookie_wait"
  /\ tc' = IF tc.acks = 0 /\ m.kind \in {"init_ack", "bad_init_ack"} THEN [tc EXCEPT !.acks = 1]
           ELSE IF IsOurs(m) /\ m.kind = "cookie_ack" THEN [tc EXCEPT !.at = "connected", !.event = "connected"]
           ELSE TryAgain(tc, "cookie")

TakionRecv(m) ==
  /\ m \in tcnet.air /\ m.kind \notin {"init", "cookie"}
  /\ takion_recv_message_init_ack(m) \/ takion_recv_message_cookie_ack(m)
  /\ tcnet' = [tcnet EXCEPT !.air = @ \ {m}]

-----------------------------------------------------------------------------
\* The network and the console, which answers every INIT and COOKIE.
Answered(m, answer, console) ==
  tcnet' = [tcnet EXCEPT !.air = (@ \ {m}) \cup {answer}, !.console = console, !.tag = ConsoleTag]

ConsoleAnswers(m) ==
  /\ m \in tcnet.air /\ UNCHANGED tc
  /\ \/ /\ m.kind = "init"
        /\ \E k \in {"init_ack", "bad_init_ack"} :
             Answered(m, [kind |-> k, tag |-> m.tag, seq |-> ConsoleTag], IF tcnet.console = "open" THEN "open" ELSE "asked")
     \/ /\ m.kind = "cookie" /\ m.tag = tcnet.tag /\ tcnet.console # "closed"
        /\ Answered(m, [kind |-> "cookie_ack", tag |-> 1, seq |-> 0], "open")

NetworkRepeats(m) ==
  /\ m \in tcnet.air /\ m.kind \in {"init", "cookie"} /\ tcnet.dups < MaxDups /\ UNCHANGED tc
  /\ \/ /\ m.kind = "init"
        /\ tcnet' = [tcnet EXCEPT !.dups = @ + 1, !.tag = ConsoleTag, !.console = IF @ = "open" THEN "open" ELSE "asked",
                                  !.air = @ \cup {[kind |-> "init_ack", tag |-> m.tag, seq |-> ConsoleTag]}]
     \/ /\ m.kind = "cookie" /\ m.tag = tcnet.tag /\ tcnet.console # "closed"
        /\ tcnet' = [tcnet EXCEPT !.dups = @ + 1, !.console = "open", !.air = @ \cup {[kind |-> "cookie_ack", tag |-> 1, seq |-> 0]}]

ConnectCall == takion_read_extra_sock_messages \/ OpenSocket \/ SocketOptions
HandshakeThread ==
  takion_send_message_init \/ takion_send_message_cookie \/ TakionRecvTimeout \/ \E m \in tcnet.air : TakionRecv(m)

NextConnect ==
  \/ chiaki_takion_connect \/ ConnectCall \/ HandshakeThread
  \/ \E m \in tcnet.air : ConsoleAnswers(m) \/ NetworkRepeats(m)

FairConnect == WF_connectVars(ConnectCall) /\ WF_connectVars(HandshakeThread)

\* The client takes the connection to be up only when the console does, with the
\* console's tag and first sequence number, whatever is lost, repeated or left of an earlier
\* connection.  A call that failed has left neither thread nor open socket behind, and a
\* thread runs only if the call succeeded.
HandshakeIsMutual ==
  /\ tc.event = "connected" => tcnet.console = "open" /\ tc.remote = tcnet.tag
  /\ tc.ret \notin {"none", "success"} => ~tc.thread /\ ~tc.open
  /\ tc.thread => tc.ret = "success"

\* The handshake ends after at most MAX_CONNECT_RESEND_TRIES tries of each kind.
HandshakeEnds == (tc.at = "setup") ~> (tc.at \in {"connected", "over"})
=============================================================================
