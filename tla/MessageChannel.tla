--------------------------- MODULE MessageChannel ---------------------------
(***************************************************************************)
(* What the console and the callback rely on when data messages go from    *)
(* one to the other, without ring, serial numbers, threads and flushes:    *)
(* messages are counted from 0, at most one arrives at a time, and those   *)
(* that are early wait.                                                    *)
(***************************************************************************)
EXTENDS Integers, Sequences

CONSTANTS
  Messages, \* how many the peer sends
  Bang,     \* the one that brings the key
  window    \* how far ahead of the one expected a message can wait

VARIABLES
  open,
  encrypted, \* there will be a key
  incoming,  \* the datagram just received, a set of at most one
  waiting,   \* undelivered messages that were kept
  delivered, \* those the callback has seen, in order
  acked

vars == <<open, encrypted, incoming, waiting, delivered, acked>>

Expected == Len(delivered)
Keyed == encrypted /\ Bang < Expected
Acceptable(m) ==
  /\ ~(Keyed /\ m.damaged)
  /\ m.index \in Expected .. Expected + window - 1
  /\ m.index \notin waiting

Init ==
  /\ open = TRUE
  /\ encrypted \in BOOLEAN
  /\ incoming = {} /\ waiting = {} /\ delivered = <<>> /\ acked = {}

\* The peer's next datagram is looked at when all that could be delivered
\* has been, and was acknowledged.
Arrive ==
  /\ open /\ incoming = {}
  /\ Expected \notin waiting
  /\ Expected > 0 => Expected - 1 \in acked
  /\ \E k \in 0 .. Messages - 1, d \in BOOLEAN :
       incoming' = {[index |-> k, damaged |-> d]}
  /\ UNCHANGED <<open, encrypted, waiting, delivered, acked>>

\* Whatever can be kept is kept: a message that is not damaged, as far as
\* one can tell, is not yet here and is not too early.
Keep ==
  /\ open
  /\ \E m \in incoming :
       /\ Acceptable(m)
       /\ waiting' = waiting \cup {m.index}
  /\ incoming' = {}
  /\ UNCHANGED <<open, encrypted, delivered, acked>>

Discard ==
  /\ open
  /\ \E m \in incoming : ~Acceptable(m)
  /\ incoming' = {}
  /\ UNCHANGED <<open, encrypted, waiting, delivered, acked>>

Deliver ==
  /\ open /\ incoming = {}
  /\ Expected \in waiting
  /\ delivered' = Append(delivered, Expected)
  /\ waiting' = waiting \ {Expected}
  /\ UNCHANGED <<open, encrypted, incoming, acked>>

\* Only once nothing is left to deliver, and for all of it.
Acknowledge ==
  /\ open /\ incoming = {}
  /\ Expected > 0 /\ Expected \notin waiting
  /\ acked' = acked \cup {Expected - 1}
  /\ UNCHANGED <<open, encrypted, incoming, waiting, delivered>>

Close ==
  /\ open /\ incoming = {}
  /\ open' = FALSE /\ waiting' = {}
  /\ UNCHANGED <<encrypted, incoming, delivered, acked>>

\* The key has come while messages that were never checked are waiting.
Crash ==
  /\ open /\ Keyed /\ waiting # {}
  /\ open' = FALSE /\ incoming' = {}
  /\ UNCHANGED <<encrypted, waiting, delivered, acked>>

Next == Arrive \/ Keep \/ Discard \/ Deliver \/ Acknowledge \/ Close \/ Crash

Spec == Init /\ [][Next]_vars
=============================================================================
