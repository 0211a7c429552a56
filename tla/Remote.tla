------------------------------- MODULE Remote -------------------------------
(***************************************************************************)
(* The parts of a connection over the internet: ports are guessed, the     *)
(* hole is punched, then the console registers the client over RUDP and    *)
(* the session talks to it.                                                *)
(* Each part is explored by itself, the others not having begun: they meet *)
(* only in the result of the one before (a socket, an exchange that        *)
(* succeeded or failed), which each part takes to be either.               *)
(***************************************************************************)
EXTENDS Integers, Sequences, FiniteSets

CONSTANTS MaxExtra, SELECT_CANDIDATE_TRIES
CONSTANTS RudpHalf, RudpThreads, RUDP_SEND_BUFFER_SIZE, RUDP_DATA_RESEND_TRIES_MAX, Tries, MaxCtrl, MaxStray
CONSTANT MaxAddrs
CONSTANTS PortMax, WellKnown, Dynamic, StunServers, Guesses, RandomGuesses, NatStarts, Steps

\* A session sends fewer ctrl messages than half the number of counters.
ASSUME RudpAssumption ==
  /\ RudpHalf \in Nat /\ MaxCtrl \in Nat /\ MaxCtrl < RudpHalf
  /\ RUDP_SEND_BUFFER_SIZE \in Nat /\ RUDP_DATA_RESEND_TRIES_MAX \in Nat

\* The NAT begins at a port it gives out, and there is a guess.
ASSUME StunAssumption ==
  /\ PortMax \in Nat /\ WellKnown \in Nat \ {0} /\ NatStarts \subseteq WellKnown .. PortMax /\ Steps \subseteq Nat
  /\ Guesses \in Nat \ {0}

VARIABLES m, w, lock, st, q, fl, sess, psn
VARIABLES ru, counter, air, snd, pk, rs, got
VARIABLES rg, rpipe, rsock
VARIABLES nat, su

hp == <<m, w, lock, st, q, fl, sess, psn>>
rudp == <<ru, counter, air, snd, pk, rs, got>>
regist == <<rg, rpipe, rsock>>
stun == <<nat, su>>

Hp == INSTANCE Holepunch
Ru == INSTANCE Rudp
Rg == INSTANCE Regist
St == INSTANCE StunPorts

InitRemote == Hp!InitHp /\ Ru!InitRudp /\ Rg!InitRegist /\ St!InitStun

\* No part but x has begun.
OnlyRemote(x) ==
  /\ x # "hp" => m.at = "off"
  /\ x # "rudp" => ru.at = "off"
  /\ x # "regist" => rg.at = "off"
  /\ x # "stun" => su.at = "off"

NextRemote ==
  \/ OnlyRemote("hp") /\ Hp!NextHp /\ UNCHANGED <<rudp, regist, stun>>
  \/ OnlyRemote("rudp") /\ Ru!NextRudp /\ UNCHANGED <<hp, regist, stun>>
  \/ OnlyRemote("regist") /\ Rg!NextRegist /\ UNCHANGED <<hp, rudp, stun>>
  \/ OnlyRemote("stun") /\ St!NextStun /\ UNCHANGED <<hp, rudp, regist>>

RemoteSpec == InitRemote /\ [][NextRemote]_<<hp, rudp, regist, stun>>
FairRemoteSpec == RemoteSpec /\ Hp!FairHp /\ Ru!FairRudp /\ Rg!FairRegist

\* fini frees the hole punching session only after its websocket thread has ended, on
\* every way out of create, start and punch_hole. A connection counts as established only
\* when the console's offer was acknowledged and both sides accepted, the data connection
\* only after the control connection; and a socket that punch_hole handed out stays open
\* whatever fails later and is not shared (Holepunch).
HolepunchIsSafe == Hp!WebsocketEndsFirst /\ Hp!EstablishedByBoth /\ Hp!SocketsStayOpen

\* Counters are not used twice, and a ctrl message over RUDP that the console has not
\* received is kept, although its number is read after the mutex was released.
RudpKeptUntilReceived == Ru!RudpKeptUntilReceived

\* Registration reports exactly once, success only with all keys, and closes its sockets.
RegistReports == Rg!RegistReports

\* The ports guessed for the console are those the NAT will use (StunPorts).
PredictionHits == St!PredictionHits

\* Every call of hole punching returns but for the ways Holepunch!CallsReturn names,
\* exchanges over RUDP end after their tries, chiaki_rudp_fini returns unless its stop
\* falls between the predicate and the wait, and the registration thread ends.
RemotePartsEnd == Hp!CallsReturn /\ Ru!RudpEnds /\ Rg!RegistEnds
=============================================================================
