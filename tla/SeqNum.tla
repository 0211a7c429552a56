------------------------------- MODULE SeqNum -------------------------------
(***************************************************************************)
(* Serial number arithmetic of lib/include/chiaki/seqnum.h ("RFC 1982").   *)
(* ChiakiSeqNum16 and ChiakiSeqNum32 are the instances SeqMod = 2^16 and   *)
(* SeqMod = 2^32: unsigned integers that wrap, compared by the direction   *)
(* of the shorter way round.  Two numbers exactly SeqMod \div 2 apart are  *)
(* neither less nor greater than one another.                              *)
(***************************************************************************)
EXTENDS Integers

CONSTANT
  Half \* 2^(bits - 1), half of the number of sequence numbers

ASSUME HalfAssumption == Half \in Nat \ {0}

SeqMod == 2 * Half
SeqNums == 0 .. SeqMod - 1
-----------------------------------------------------------------------------
\* chiaki_seq_num_bits_lt and _gt; d is computed in the wider signed type.
lt(a, b) ==
  LET d == b - a
  IN \/ a < b /\ d < Half
     \/ a > b /\ -d > Half

gt(a, b) ==
  LET d == b - a
  IN \/ a < b /\ d > Half
     \/ a > b /\ -d < Half

\* The macros of reorderqueue.c.
ge(a, b) == a = b \/ gt(a, b)

\* seq_num_bits_add: the sum in the unsigned type.
add(a, b) == (a + b) % SeqMod

\* How far b is ahead of a, going up and wrapping.
Ahead(a, b) == (b - a) % SeqMod
=============================================================================
