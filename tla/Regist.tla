------------------------------- MODULE Regist -------------------------------
(***************************************************************************)
(* Registration with a console (regist.c): a thread that looks for the     *)
(* console, asks it for the keys, and reports by a callback.  With PSN the *)
(* request goes over RUDP, which does not look at the stop pipe.           *)
(***************************************************************************)
EXTENDS Naturals, Sequences

CONSTANT MaxAddrs  \* addresses the host name has, and answers that are not for us

VARIABLES
  rg,    \* the thread: where it is, whether by PSN, its locals
  rpipe, \* the stop pipe was signalled
  rsock  \* sockets: the next one, the open ones, those given up without being closed

registVars == <<rg, rpipe, rsock>>

InitRegist ==
  /\ rg = [at |-> "off", psn |-> FALSE, sock |-> 0, n |-> 0, result |-> "failed",
           found |-> {}, events |-> <<>>, joined |-> FALSE]
  /\ rpipe = FALSE
  /\ rsock = [next |-> 1, open |-> {}, leaked |-> {}]

RgGo(p) == rg' = [rg EXCEPT !.at = p]
\* goto fail, fail_addrinfos or fail_socket
RgFail(r) == rg' = [rg EXCEPT !.at = "close", !.result = r]

\* Copies of host and online id, a stop pipe, the thread; or an error and nothing.
chiaki_regist_start ==
  /\ rg.at = "off"
  /\ \/ \E psn \in BOOLEAN : rg' = [rg EXCEPT !.at = "format", !.psn = psn]
     \/ rg' = [rg EXCEPT !.at = "over", !.joined = TRUE]
  /\ UNCHANGED <<rpipe, rsock>>

chiaki_regist_stop ==
  /\ rg.at # "off" /\ ~rg.joined
  /\ rpipe' = TRUE
  /\ UNCHANGED <<rg, rsock>>

\* chiaki_regist_fini
Join ==
  /\ rg.at = "over" /\ ~rg.joined
  /\ rg' = [rg EXCEPT !.joined = TRUE]
  /\ UNCHANGED <<rpipe, rsock>>

-----------------------------------------------------------------------------
(* regist_thread_func *)

\* chiaki_regist_request_payload_format and request_header_format, which fail on an
\* unknown target, a missing id or a buffer too small; and getaddrinfo.
chiaki_regist_request_payload_format ==
  /\ rg.at = "format"
  /\ \/ RgGo(IF rg.psn THEN "rudp" ELSE "search_connect")
     \/ RgFail("failed")
  /\ UNCHANGED <<rpipe, rsock>>

\* INIT and COOKIE (module Rudp).
RudpSession ==
  /\ rg.at = "rudp"
  /\ RgGo("rudp_response") \/ RgFail("failed")
  /\ UNCHANGED <<rpipe, rsock>>

NewSock == [rsock EXCEPT !.next = @ + 1, !.open = @ \cup {rsock.next}]
Overwritten(r) == [r EXCEPT !.leaked = @ \cup ({rg.sock} \ {0})]

\* regist_search_connect tries the addresses in turn: one that is connected, or bound for
\* a broadcast, is used; one that is not IPv4 or IPv6 is passed over; if socket or
\* SO_BROADCAST fails there is none; if connect or bind fails the next address's socket
\* takes its place, and the last one is closed.
regist_search_connect ==
  /\ rg.at = "search_connect" /\ rg.n < MaxAddrs
  /\ UNCHANGED rpipe
  /\ \/ rg' = [rg EXCEPT !.at = "search", !.sock = rsock.next, !.n = 0] /\ rsock' = Overwritten(NewSock)
     \/ rg' = [rg EXCEPT !.n = @ + 1] /\ UNCHANGED rsock
     \/ rg' = [rg EXCEPT !.n = @ + 1, !.sock = 0] /\ rsock' = Overwritten(rsock)
     \/ rg' = [rg EXCEPT !.n = @ + 1, !.sock = rsock.next] /\ rsock' = Overwritten(NewSock)

CloseRg == rsock' = [rsock EXCEPT !.open = @ \ {rg.sock}]

AllAddressesFailed ==
  /\ rg.at = "search_connect" /\ rg.n = MaxAddrs
  /\ RgFail("failed")
  /\ CloseRg /\ UNCHANGED rpipe

\* regist_search: wait for the answer to the search packet, at most
\* REGIST_SEARCH_TIMEOUT_MS in all; anything else that comes in is ignored.
regist_search ==
  /\ rg.at = "search"
  /\ UNCHANGED rpipe
  /\ \/ rpipe /\ RgFail("canceled") /\ CloseRg
     \/ RgFail("failed") /\ CloseRg
     \/ ~rpipe /\ rg.n < MaxAddrs /\ rg' = [rg EXCEPT !.n = @ + 1] /\ UNCHANGED rsock
     \/ ~rpipe /\ rg' = [rg EXCEPT !.at = "sleep", !.sock = 0] /\ CloseRg

\* "PS4 doesn't accept requests immediately".  Anything but the timeout counts as a cancel.
SleepBeforeRequest ==
  /\ rg.at = "sleep"
  /\ IF rpipe THEN RgFail("canceled") ELSE RgGo("connect") \/ RgFail("canceled")
  /\ UNCHANGED <<rpipe, rsock>>

\* The request over TCP: connect, send the header, send the payload.
regist_request_connect ==
  /\ rg.at = "connect"
  /\ UNCHANGED rpipe
  /\ \/ RgFail("failed") /\ UNCHANGED rsock
     \/ /\ rsock' = NewSock
        /\ \E p \in {"response", "close"} : rg' = [rg EXCEPT !.at = p, !.sock = rsock.next]

\* regist_recv_response: the header, a 200, and the content.  Over RUDP it comes in one
\* message; if that has no end of header the size is never set.
regist_recv_response ==
  /\ rg.at \in {"response", "rudp_response"}
  /\ \/ RgFail("failed")
     \/ rg.at = "response" /\ rpipe /\ RgFail("canceled")
     \/ rg.at = "rudp_response" /\ RgGo("undefined")
     \/ (rg.at = "rudp_response" \/ ~rpipe) /\ RgGo("payload")
  /\ UNCHANGED <<rpipe, rsock>>

\* The size of the header is whatever was on the stack: too large for the buffer, or
\* some part of what was received, or memory that is not ours.
UndefinedHeaderSize ==
  /\ rg.at = "undefined"
  /\ RgFail("failed") \/ RgGo("payload") \/ RgGo("crash")
  /\ UNCHANGED <<rpipe, rsock>>

Needed == {"RegistKey", "RP-Key", "Mac"}
regist_parse_response_payload__any ==
  /\ rg.at = "payload"
  /\ \E keys \in SUBSET Needed :
       rg' = [rg EXCEPT !.found = keys, !.at = "close", !.result = IF keys # {} THEN "success" ELSE "failed"]
  /\ UNCHANGED <<rpipe, rsock>>

\* Each of the three that is missing or malformed makes it fail.
regist_parse_response_payload ==
  /\ rg.at = "payload"
  /\ \E keys \in SUBSET Needed :
       rg' = [rg EXCEPT !.found = keys, !.at = "close", !.result = IF keys = Needed THEN "success" ELSE "failed"]
  /\ UNCHANGED <<rpipe, rsock>>

\* The labels at the end, and the callback.
RgReport ==
  /\ rg.at = "close"
  /\ rg' = [rg EXCEPT !.at = "over", !.events = Append(@, rg.result)]
  /\ CloseRg /\ UNCHANGED rpipe

RegistThread ==
  \/ chiaki_regist_request_payload_format \/ RudpSession
  \/ regist_search_connect \/ AllAddressesFailed \/ regist_search \/ SleepBeforeRequest
  \/ regist_request_connect \/ regist_recv_response \/ UndefinedHeaderSize
  \/ regist_parse_response_payload \/ RgReport

NextRegist == chiaki_regist_start \/ chiaki_regist_stop \/ Join \/ RegistThread
FairRegist == WF_registVars(RegistThread)

-----------------------------------------------------------------------------
\* However the thread ends it has reported once; success means that all the keys were
\* there; and no socket stays open, but for those of addresses that could not be
\* connected and were followed by another one (regist.c overwrites them).
RegistReports ==
  rg.at = "over" /\ rg.events # <<>> =>
    /\ rg.events \in {<<"failed">>, <<"canceled">>, <<"success">>}
    /\ rg.events = <<"success">> <=> rg.found = Needed
    /\ rsock.open \subseteq rsock.leaked

\* A registration that is stopped ends, and so does one that is not.
RegistEnds == (rg.at # "off") ~> (rg.at \in {"over", "crash"})
=============================================================================
