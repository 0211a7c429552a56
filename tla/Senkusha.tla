------------------------------ MODULE Senkusha ------------------------------
(***************************************************************************)
(* Senkusha (senkusha.c): over a Takion connection of its own, the client  *)
(* measures the round trip and finds the largest packets that pass in each *)
(* direction by bisection, asking again when an answer does not come in    *)
(* time.  run holds the state mutex but for its waits; the callbacks of    *)
(* Takion finish a wait.  Answers are lost, repeated and late.             *)
(* Tags, request ids and sequence numbers are one counter; that a random   *)
(* tag repeats is left out.  Nobody sets should_stop, so it is too.        *)
(***************************************************************************)
EXTENDS Integers, FiniteSets

CONSTANTS
  MinMtu, MaxMtu,   \* 576 and 1454 in the code
  MtuRetries,       \* 3 in the code
  PingCount,        \* SENKUSHA_PING_COUNT_DEFAULT
  PathMtus,         \* the largest packets the network may let pass
  MaxLate           \* bound: answers to earlier requests that are still under way

VARIABLES
  sk,      \* the state of run and of ChiakiSenkusha
  sknet    \* the answers under way, and what the network lets pass

senkushaVars == <<sk, sknet>>

InitSenkusha ==
  /\ sk = [at |-> "off", cloud |-> FALSE, skip |-> FALSE, fin |-> FALSE, n |-> 0, echoed |-> 0, pings |-> 0, pongs |-> 0,
           min |-> 0, max |-> 0, cur |-> 0, attempt |-> 0, mtuIn |-> 0, mtuOut |-> 0, err |-> FALSE, timely |-> TRUE]
  /\ sknet = [air |-> {}, in |-> 0, out |-> 0]

\* The answers that may come after the next request: those of the earlier ones that are
\* not told apart by their kind alone.
UnderWay(answers) ==
  {answers \cup late : late \in {l \in SUBSET {a \in sknet.air : a[1] \in {"pong", "mtu"}} : Cardinality(l) <= MaxLate}}

\* A message goes out, with the answers it may get, and run waits at the stage at; or it
\* cannot be sent.
Sends(r, at, answers, failed) ==
  \/ /\ sk' = [r EXCEPT !.at = at, !.fin = FALSE, !.n = @ + 1]
     /\ \E air \in UnderWay(answers) : sknet' = [sknet EXCEPT !.air = air]
  \/ /\ sk' = [r EXCEPT !.at = failed, !.err = TRUE, !.timely = FALSE]
     /\ UNCHANGED sknet

Fresh == sk.n + 1

\* A wait is over: the state is finished, or the time has passed.  History: whether an
\* answer was still to come.
Late == \E a \in sknet.air : a[2] = sk.n
Waited(at) == IF sk.fin THEN sk ELSE [sk EXCEPT !.timely = @ /\ ~Late]

GiveUp(at, to) ==
  /\ sk' = [Waited(at) EXCEPT !.at = to, !.err = TRUE]
  /\ UNCHANGED sknet

\* A session on the cloud may have nothing to be bisected.
chiaki_senkusha_run ==
  /\ sk.at = "off"
  /\ \E cloud, skip, connects \in BOOLEAN : \E i, o \in PathMtus :
       /\ sk' = [sk EXCEPT !.at = IF connects THEN "connect" ELSE "over", !.err = ~connects, !.cloud = cloud, !.skip = skip]
       /\ \E a \in {<<"connected", 0>>, <<"disconnected", 0>>} : sknet' = [air |-> {a}, in |-> i, out |-> o]

\* senkusha_set_version for a console; a cloud gets BIG at once.
SendBig(r) == Sends(r, "big", IF r.cloud THEN {<<"chunk", 1>>, <<"chunk", 2>>} ELSE {<<"bang", Fresh>>}, "close")
TakionConnected ==
  /\ sk.at = "connect"
  /\ IF ~sk.fin THEN GiveUp("connect", "close")
     ELSE IF sk.cloud THEN SendBig(sk) ELSE Sends(sk, "version", {<<"protocolack", Fresh>>}, "close")

VersionSet ==
  /\ sk.at = "version"
  /\ IF sk.fin THEN SendBig(sk) ELSE GiveUp("version", "close")

\* senkusha_send_echo_command: a cloud that does not echo BIG is measured all the same.
BigAnswered ==
  /\ sk.at = "big"
  /\ IF sk.fin \/ sk.cloud THEN Sends(Waited("big"), "echo_on", {<<"ack", Fresh>>}, "disconnect") ELSE GiveUp("big", "close")

-----------------------------------------------------------------------------
(* senkusha_run_rtt_test *)

Ping(r) ==
  IF r.pings < PingCount THEN Sends([r EXCEPT !.pings = @ + 1], "ping", {<<"pong", Fresh>>}, "disconnect")
  ELSE Sends(r, "echo_off", {<<"ack", Fresh>>}, "disconnect")

EchoOn ==
  /\ sk.at = "echo_on"
  /\ IF sk.fin THEN Ping(sk) ELSE GiveUp("echo_on", "disconnect")

\* A pong that does not come in time is left out of the average.
Pong ==
  /\ sk.at = "ping"
  /\ Ping([Waited("ping") EXCEPT !.pongs = IF sk.fin THEN @ + 1 ELSE @])

-----------------------------------------------------------------------------
(* senkusha_run_mtu_in_test, senkusha_run_mtu_out_test *)

\* One attempt with the size cur, if the bisection has not ended.
AskIn(r) ==
  Sends(r, "mtu_in", IF r.cur <= sknet.in THEN {<<"mtu", Fresh>>} ELSE {}, "disconnect")
\* A ping that cannot be sent, being too large, counts as one that is not answered.
AskOut(r) ==
  \E sent \in BOOLEAN :
    /\ sk' = [r EXCEPT !.at = "mtu_out", !.fin = FALSE, !.n = @ + 1, !.timely = @ /\ (sent \/ r.cur > sknet.out)]
    /\ \E air \in UnderWay(IF sent /\ r.cur <= sknet.out THEN {<<"pong", Fresh>>} ELSE {}) : sknet' = [sknet EXCEPT !.air = air]

EndIn(r) == Sends([r EXCEPT !.mtuIn = r.min], "client", {<<"clientmtu", Fresh>>}, "disconnect")
EndOut(r) == Sends([r EXCEPT !.mtuOut = r.min], "client_end", {<<"ack", Fresh>>}, "disconnect")

Bisected(r, success) ==
  LET q == IF success THEN [r EXCEPT !.min = r.cur] ELSE [r EXCEPT !.max = r.cur] IN
  [q EXCEPT !.attempt = 0, !.cur = q.min + (q.max - q.min) \div 2]

EchoOff ==
  /\ sk.at = "echo_off"
  /\ IF ~sk.fin \/ sk.pongs < 1 THEN GiveUp("echo_off", "disconnect")
     ELSE IF sk.skip THEN sk' = [sk EXCEPT !.at = "disconnect"] /\ UNCHANGED sknet
     ELSE AskIn([sk EXCEPT !.min = MinMtu, !.max = MaxMtu, !.cur = MaxMtu, !.attempt = 0])

MtuIn ==
  /\ sk.at = "mtu_in"
  /\ LET r == Waited("mtu_in") IN
     IF ~sk.fin /\ sk.attempt + 1 < MtuRetries THEN AskIn([r EXCEPT !.attempt = @ + 1])
     ELSE LET q == Bisected(r, sk.fin) IN IF q.max - q.min > 1 THEN AskIn(q) ELSE EndIn(q)

ClientMtu ==
  /\ sk.at = "client"
  /\ IF ~sk.fin THEN GiveUp("client", "disconnect")
     ELSE AskOut([sk EXCEPT !.min = MinMtu, !.max = MaxMtu, !.cur = sk.mtuIn, !.attempt = 0])

MtuOut ==
  /\ sk.at = "mtu_out"
  /\ LET r == Waited("mtu_out") IN
     IF ~sk.fin /\ sk.attempt + 1 < MtuRetries THEN AskOut([r EXCEPT !.attempt = @ + 1])
     ELSE LET q == Bisected(r, sk.fin) IN IF q.max - q.min > 1 THEN AskOut(q) ELSE EndOut(q)

ClientMtuEnd ==
  /\ sk.at = "client_end"
  /\ sk' = [sk EXCEPT !.at = "disconnect", !.err = ~sk.fin]
  /\ UNCHANGED sknet

senkusha_send_disconnect ==
  /\ sk.at = "disconnect"
  /\ sk' = [sk EXCEPT !.at = "close"]
  /\ UNCHANGED sknet

\* chiaki_takion_close joins the threads that call back.
CloseTakion ==
  /\ sk.at = "close"
  /\ sk' = [sk EXCEPT !.at = "over"]
  /\ UNCHANGED sknet

-----------------------------------------------------------------------------
(* senkusha_takion_cb *)

\* The callback that an answer a finishes the wait in.
Expected(a) ==
  CASE sk.at = "connect" -> a[1] = "connected"
    [] sk.at = "version" -> a[1] = "protocolack"
    [] sk.at = "big" /\ ~sk.cloud -> a[1] = "bang"
    [] sk.at = "big" /\ sk.cloud -> a[1] = "chunk" /\ sk.echoed + 1 >= 2
    [] sk.at \in {"echo_on", "echo_off", "client_end"} -> a[1] = "ack"
    [] sk.at \in {"ping", "mtu_out"} -> a[1] = "pong"
    [] sk.at = "mtu_in" -> a[1] = "mtu"
    [] sk.at = "client" -> a[1] = "clientmtu"
    [] OTHER -> FALSE

\* Sequence number, tag or id are those of the last request.
IsCurrent(a) == a[1] \in {"ack", "pong", "mtu", "clientmtu"} => a[2] = sk.n

senkusha_takion_cb(a) ==
  /\ sk.at \notin {"off", "over"} /\ a \in sknet.air
  /\ sk' = [sk EXCEPT !.fin = @ \/ (Expected(a) /\ IsCurrent(a)),
                      !.echoed = IF sk.at = "big" /\ a[1] = "chunk" THEN @ + 1 ELSE @]
  /\ \E again \in IF a[1] \in {"pong", "mtu"} THEN BOOLEAN ELSE {FALSE} :
       sknet' = [sknet EXCEPT !.air = IF again THEN @ ELSE @ \ {a}]

SenkushaRun ==
  \/ TakionConnected \/ VersionSet \/ BigAnswered \/ EchoOn \/ Pong \/ EchoOff \/ MtuIn \/ ClientMtu \/ MtuOut
  \/ ClientMtuEnd \/ senkusha_send_disconnect \/ CloseTakion
NextSenkusha == chiaki_senkusha_run \/ SenkushaRun \/ \E a \in sknet.air : senkusha_takion_cb(a)
FairSenkusha == WF_senkushaVars(SenkushaRun)

-----------------------------------------------------------------------------
Least(a, b) == IF a < b THEN a ELSE b

\* A size is reported only if packets of it pass, whatever is late, lost or repeated (or
\* it is the least one, which is not tried); and if every answer came in time it is the
\* largest one, or for packets to the console the one below it.  A measurement without
\* error has a round trip.
MtuIsReal ==
  /\ sk.mtuIn \in {0, MinMtu} \cup 1 .. sknet.in
  /\ sk.mtuOut \in {0, MinMtu} \cup 1 .. sknet.out
  /\ sk.timely /\ sk.mtuIn > 0 => sk.mtuIn = Least(sknet.in, MaxMtu)
  /\ sk.timely /\ sk.mtuOut > 0 => sk.mtuOut \in {Least(sknet.out, MaxMtu), Least(sknet.out, MaxMtu) - 1}
  /\ sk.at = "over" /\ ~sk.err => sk.pongs > 0 /\ (sk.skip \/ (sk.mtuIn > 0 /\ sk.mtuOut > 0))

\* Every wait has an end, and so has run.
SenkushaEnds == (sk.at = "connect") ~> (sk.at = "over")
=============================================================================
