------------------------------ MODULE StunPorts ------------------------------
(***************************************************************************)
(* How the client guesses the port its NAT will give the console (stun.h,  *)
(* and the candidates of holepunch.c).  A NAT that maps every destination  *)
(* to a port of its own is asked through up to four STUN servers; what     *)
(* they saw gives an increment, from which the ports of the STUN           *)
(* candidates follow.  The second offer, for the data connection, asks one *)
(* server and reuses the increment.                                        *)
(***************************************************************************)
EXTENDS Integers, Sequences

CONSTANTS
  PortMax,     \* UINT16_MAX
  WellKnown,   \* 1024
  Dynamic,     \* 49152
  StunServers, \* servers in the lists, in the order they are tried
  Guesses,     \* candidates with a predictable NAT, 8 in the code
  RandomGuesses,  \* RANDOM_ALLOCATION_GUESSES_NUMBER
  NatStarts,   \* bound: first ports of the NAT
  Steps        \* bound: what a NAT that counts up adds from one mapping to the next

VARIABLES
  nat,  \* the NAT: its next port, its step, its address, and whether it was regular so far
  su    \* the client: where it is, server, answers, increment, candidates

stunVars == <<nat, su>>

Unmeasured == -1
W(p) == p % (PortMax + 1)
\* Division of C, towards zero.
CDiv(x, n) == IF x >= 0 THEN x \div n ELSE -((-x) \div n)

InitStun ==
  /\ nat = [next |-> 0, step |-> 0, addr |-> 1, regular |-> TRUE]
  /\ su = [at |-> "off", i |-> 1, seen |-> <<>>, failed |-> 0, late |-> FALSE,
           inc |-> Unmeasured, random |-> FALSE, port |-> 0, cands |-> <<>>, round |-> 1]

-----------------------------------------------------------------------------
(* The NAT and the servers. *)

\* The NAT's next port; after the last one it starts again somewhere.
Advance(n) ==
  LET p == n.next + n.step IN
  IF p \in WellKnown .. PortMax THEN [n EXCEPT !.next = p]
  ELSE [n EXCEPT !.next = WellKnown, !.regular = FALSE]

StartStun ==
  /\ su.at = "off"
  /\ su' = [su EXCEPT !.at = "test"]
  /\ \E p \in NatStarts, d \in Steps \cup {-1} : nat' = [nat EXCEPT !.next = p, !.step = d]

\* stun_get_external_address_from_server: an answer counts if it is of this request; one
\* that comes too late is taken by the next request, which then fails, and so on.  A
\* server whose name is unknown uses no port.
Answered(x) ==
  /\ ~su.late /\ x.port = nat.next
  /\ nat' = Advance([nat EXCEPT !.addr = x.addr, !.regular = @ /\ x.addr = nat.addr])
Unanswered(late) == nat' = Advance(nat) \/ (nat' = nat /\ late = su.late)
Addresses == [port : {nat.next}, addr : 1..2]

-----------------------------------------------------------------------------
(* stun_port_allocation_test *)

TestSeen(x) == su' = [su EXCEPT !.i = @ + 1, !.seen = Append(@, x)]
TestFailed(late) == su' = [su EXCEPT !.i = @ + 1, !.failed = @ + 1, !.late = late]
stun_port_allocation_test ==
  /\ su.at = "test" /\ su.i <= StunServers /\ Len(su.seen) < 4
  /\ \/ \E x \in Addresses : Answered(x) /\ TestSeen(x)
     \/ \E late \in BOOLEAN : Unanswered(late) /\ TestFailed(late)

Measured(inc) == [increment |-> inc, random |-> FALSE]
\* Two increments that should be the same.
Compared(inc, inc1) ==
  IF inc1 = inc THEN Measured(inc) ELSE [increment |-> IF inc = 0 THEN inc1 ELSE inc, random |-> TRUE]

TwoSeen(s) == Measured(IF s[1].addr = s[2].addr THEN s[2].port - s[1].port ELSE 0)

ThreeSeen(s) ==
  LET same(i, j) == s[i].addr = s[j].addr
      diff(i, j) == s[j].port - s[i].port
  IN CASE ~same(1, 2) /\ same(1, 3) -> Measured(CDiv(diff(1, 3), 2))
       [] ~same(1, 2) /\ same(2, 3) -> Measured(diff(2, 3))
       [] ~same(1, 2) /\ ~same(1, 3) /\ ~same(2, 3) -> Measured(0)
       [] same(1, 2) /\ ~same(1, 3) -> Measured(diff(1, 2))
       [] same(1, 2) /\ same(1, 3) -> Compared(diff(1, 2), diff(2, 3))

\* All four from one address: the increments are unsigned, and two of three decide.
FourRegular(d0, d1, d2) ==
  CASE d0 = d1 \/ d0 = d2 -> Measured(d0)
    [] d0 # d1 /\ d0 # d2 /\ d1 = d2 -> Measured(d1)
    [] OTHER -> [increment |-> IF d0 # 0 THEN d0 ELSE d1, random |-> TRUE]

\* The first two from different addresses.
FourChanging(s) ==
  LET same(i, j) == s[i].addr = s[j].addr
      diff(i, j) == s[j].port - s[i].port
  IN CASE same(1, 3) /\ same(1, 4) -> Compared(diff(3, 4), CDiv(diff(1, 3), 2))
       [] ~same(1, 3) /\ same(1, 4) -> Measured(CDiv(diff(1, 4), 4))
       [] same(1, 3) /\ ~same(1, 4) -> Measured(CDiv(diff(1, 3), 2))
       [] ~same(1, 3) /\ ~same(1, 4) /\ same(2, 3) /\ same(2, 4) -> Compared(diff(3, 4), diff(2, 3))
       [] ~same(1, 3) /\ ~same(1, 4) /\ ~same(2, 3) /\ same(2, 4) -> Measured(CDiv(diff(1, 4), 4))
       [] ~same(1, 3) /\ ~same(1, 4) /\ same(2, 3) /\ ~same(2, 4) -> Measured(CDiv(diff(1, 3), 2))
       [] ~same(1, 3) /\ ~same(1, 4) /\ ~same(2, 3) /\ ~same(2, 4) ->
            Measured(IF same(3, 4) THEN diff(4, 3) ELSE 0)

FourSeen(s) ==
  LET same(i, j) == s[i].addr = s[j].addr
      diff(i, j) == s[j].port - s[i].port
  IN CASE ~same(1, 2) -> FourChanging(s)
       [] same(1, 2) /\ ~same(2, 3) ->
            IF same(2, 4) THEN Compared(diff(1, 2), CDiv(diff(2, 4), 2)) ELSE Measured(diff(1, 2))
       [] same(1, 2) /\ same(2, 3) /\ ~same(3, 4) -> Compared(diff(1, 2), diff(2, 3))
       [] OTHER -> FourRegular(W(diff(1, 2)), W(diff(2, 3)), W(diff(3, 4)))

\* The port the NAT used last: servers that did not answer are supposed to have used one each.
LastPort__of_four_plus_one(s, inc) ==
  W(s[Len(s)].port + (IF Len(s) = 1 THEN 0 ELSE IF Len(s) = 2 THEN 2 * inc ELSE inc))
LastPort(s, inc) ==
  W(s[Len(s)].port + (CASE Len(s) = 2 -> 2 * inc [] Len(s) = 3 -> inc [] OTHER -> 0))

TestDone ==
  /\ su.at = "test" /\ (su.i > StunServers \/ Len(su.seen) = 4)
  /\ UNCHANGED nat
  /\ IF su.seen = <<>> THEN su' = [su EXCEPT !.at = "none"]
     ELSE LET r == CASE Len(su.seen) = 1 -> Measured(0)
                     [] Len(su.seen) = 2 -> TwoSeen(su.seen)
                     [] Len(su.seen) = 3 -> ThreeSeen(su.seen)
                     [] OTHER -> FourSeen(su.seen)
          IN su' = [su EXCEPT !.at = "candidates", !.inc = r.increment, !.random = @ \/ r.random,
                              !.port = LastPort(su.seen, r.increment)]

-----------------------------------------------------------------------------
(* The candidates. *)

\* Ports up to 1024 are skipped, unless the NAT is there already.
NextGuess(p) ==
  LET n == p + su.inc IN
  IF n < WellKnown /\ p > WellKnown THEN PortMax - (WellKnown - n)
  ELSE IF n < 1 THEN n + PortMax
  ELSE IF n > PortMax THEN n - PortMax + WellKnown
  ELSE n

NextRandomGuess(p) == IF p + 1 > PortMax THEN Dynamic ELSE p + 1

\* Turns of the two loops. The number is signed and wide while it is computed, and cut off
\* in the candidate.
GuessNext ==
  /\ su.at = "candidates" /\ su.inc # 0 /\ ~su.random /\ Len(su.cands) < Guesses
  /\ LET n == NextGuess(su.port) IN su' = [su EXCEPT !.port = n, !.cands = Append(@, W(n))]
  /\ UNCHANGED nat
GuessRandom ==
  /\ su.at = "candidates" /\ su.inc # 0 /\ su.random /\ Len(su.cands) < RandomGuesses
  /\ su' = [su EXCEPT !.port = NextRandomGuess(@), !.cands = Append(@, W(su.port))]
  /\ UNCHANGED nat

\* Without an increment the port is the only candidate.
StunCandidates ==
  /\ su.at = "candidates"
  /\ su.inc # 0 => Len(su.cands) = IF su.random THEN RandomGuesses ELSE Guesses
  /\ su' = [su EXCEPT !.at = "offered", !.cands = IF su.inc = 0 THEN <<su.port>> ELSE @]
  /\ UNCHANGED nat

-----------------------------------------------------------------------------
(* The console uses a candidate; then comes the offer of the data connection. *)

\* get_client_addr_remote_stun tests again if the increment it knows is minus one.
get_client_addr_remote_stun ==
  /\ su.at = "offered" /\ su.round = 1
  /\ su' = [su EXCEPT !.round = 2, !.i = 1, !.seen = <<>>, !.failed = 0, !.cands = <<>>,
                      !.at = IF su.inc = Unmeasured THEN "test" ELSE "ask"]
  /\ nat' = Advance(nat)

AskSeen(x) == su' = [su EXCEPT !.at = "candidates", !.port = x.port]
AskFailed(late) == su' = [su EXCEPT !.i = @ + 1, !.failed = @ + 1, !.late = late]
stun_get_external_address ==
  /\ su.at = "ask" /\ su.i <= StunServers
  /\ \/ \E x \in Addresses : Answered(x) /\ AskSeen(x)
     \/ \E late \in BOOLEAN : Unanswered(late) /\ AskFailed(late)

AskDone ==
  /\ su.at = "ask" /\ su.i > StunServers
  /\ su' = [su EXCEPT !.at = "none"]
  /\ UNCHANGED nat

NextStun ==
  \/ StartStun \/ stun_port_allocation_test \/ TestDone \/ GuessNext \/ GuessRandom \/ StunCandidates
  \/ get_client_addr_remote_stun \/ stun_get_external_address \/ AskDone

-----------------------------------------------------------------------------
\* Against a NAT that counts up regularly, and with at most one server that does not
\* answer, the port that the NAT will give the console is among the candidates of both
\* offers, and no candidate has a port that was cut off or is reserved.
PredictionHits ==
  su.at = "offered" /\ nat.regular /\ nat.step >= 0 /\ su.failed <= 1
    /\ (IF su.round = 1 THEN Len(su.seen) = 4 ELSE su.inc = nat.step /\ ~su.random) =>
    /\ nat.next \in {su.cands[k] : k \in DOMAIN su.cands}
    /\ \A k \in DOMAIN su.cands : su.cands[k] \in WellKnown .. PortMax
=============================================================================
