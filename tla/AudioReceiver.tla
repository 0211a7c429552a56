---------------------------- MODULE AudioReceiver ----------------------------
(***************************************************************************)
(* The audio receiver (audioreceiver.c), the reassembler PlayStation Plus  *)
(* streams need (pscloud_audio_reassembler.c), and the packet statistics   *)
(* (packetstats.c) that the congestion control thread reports.  Packets    *)
(* carry consecutive, wrapping indices beginning with one; they are lost,  *)
(* repeated, and overtaken by the next.  A console's packet has a frame    *)
(* and copies of the two before it; a cloud's packet is one unit of a      *)
(* generation of source units followed by units of an erasure code.        *)
(* is_haptics, which only chooses the sink, is left out.                   *)
(***************************************************************************)
EXTENDS Integers, Sequences, FiniteSets
LOCAL INSTANCE SequencesExt

CONSTANTS
  AHalf,      \* half the number of frame indices, 2^15 in the code
  ASrc, AFec, \* source units and units of the erasure code in a generation
  MaxAudio,   \* bound: packets sent
  MaxFaults,  \* bound: packets lost, repeated or overtaken, and time-outs
  MaxReports, \* bound: congestion reports
  U64         \* the number of values of uint64_t

A16 == INSTANCE SeqNum WITH Half <- AHalf

VARIABLES
  au,    \* the receiver with its reassembler, and what it played
  ps,    \* the packet statistics
  anet   \* the sender: the newest packet that arrived, and what happened on the way

audioVars == <<au, ps, anet>>

Packets == 1 .. MaxAudio
Total == ASrc + AFec
IndexOf(p) == p % A16!SeqMod
Generation(p) == (p - 1) \div Total
Unit(p) == (p - 1) % Total
Begins(g) == g * Total + 1

InitAudio ==
  /\ au = [at |-> "off", cloud |-> FALSE, prev |-> 0, startup |-> TRUE, flushed |-> TRUE, emitted |-> FALSE, first |-> 0,
           got |-> <<>>, src |-> 0, fec |-> 0, heard |-> <<>>, crash |-> FALSE]
  /\ ps = [genR |-> 0, genL |-> 0, min |-> 0, max |-> 0, rec |-> 0, pushed |-> 0, missed |-> 0, sumR |-> 0, sumL |-> 0, reports |-> 0]
  /\ anet = [head |-> 0, arrived |-> {}, faults |-> 0, nomem |-> FALSE, tidy |-> TRUE, muddled |-> {}]

chiaki_audio_receiver_init ==
  /\ au.at = "off"
  /\ \E c, nomem \in BOOLEAN :
       /\ nomem => c
       /\ au' = [au EXCEPT !.at = "on", !.cloud = c]
       /\ anet' = [anet EXCEPT !.nomem = nomem]
  /\ UNCHANGED ps

\* A frame u.i is played unless one as new was.
chiaki_audio_receiver_frame(r, u) ==
  IF A16!gt(u.i, r.prev) THEN [r EXCEPT !.prev = u.i, !.heard = Append(@, u)] ELSE r

Play(r, us) == FoldLeft(chiaki_audio_receiver_frame, r, us)

-----------------------------------------------------------------------------
(* Packet statistics *)

chiaki_packet_stats_push_seq(s, i) ==
  [s EXCEPT !.rec = @ + 1, !.pushed = @ + 1, !.max = IF A16!gt(i, @) THEN i ELSE @]

\* A flushed video frame: two units came, one did not.
chiaki_packet_stats_push_generation ==
  /\ au.at = "on" /\ ps.missed = 0
  /\ ps' = [ps EXCEPT !.genR = @ + 2, !.genL = @ + 1, !.pushed = @ + 2, !.missed = @ + 1]
  /\ UNCHANGED <<au, anet>>

\* max and min are promoted to int before they are subtracted, so the difference wraps at
\* 2^64 and not at 2^16.
SeqLost(s) == LET diff == (s.max - s.min) % U64 IN IF s.rec > diff THEN diff ELSE diff - s.rec

reset_stats(s) == [s EXCEPT !.genR = 0, !.genL = 0, !.min = s.max, !.rec = 0]

\* congestion_control_thread_func, every 200 ms: what is sent is truncated to 16 bits and
\* capped, which changes nothing here.
CongestionReport ==
  /\ au.at = "on" /\ ps.reports < MaxReports
  /\ ps' = [reset_stats(ps) EXCEPT !.sumR = @ + ps.genR + ps.rec, !.sumL = (@ + ps.genL + SeqLost(ps)) % U64,
                                  !.reports = @ + 1]
  /\ UNCHANGED <<au, anet>>

-----------------------------------------------------------------------------
(* The reassembler.  got[k + 1] is the packet kept as unit k, or zero. *)

\* The fields are set before the allocation that may fail.
alloc_generation(r, p, mem) ==
  [r EXCEPT !.flushed = FALSE, !.emitted = FALSE, !.first = IndexOf(p), !.src = 0, !.fec = 0,
            !.got = IF mem THEN [k \in 1 .. Total |-> 0] ELSE <<>>]

\* The missing source units, if units of one generation are enough for the code.
chiaki_pscloud_audio_reassembler_fec(r) ==
  LET gens == {Generation(r.got[k]) : k \in {j \in DOMAIN r.got : r.got[j] # 0}}
      unit(k) == IF Cardinality(gens) = 1 THEN Begins(CHOOSE g \in gens : TRUE) + k - 1 ELSE -1
  IN [r EXCEPT !.got = [k \in DOMAIN r.got |-> IF k <= ASrc /\ r.got[k] = 0 THEN unit(k) ELSE r.got[k]], !.src = ASrc]

\* The source units held, each under the index its place gives it.
Units(r) ==
  SelectSeq([k \in 1 .. ASrc |-> [i |-> A16!add(r.first, k - 1), p |-> IF r.got = <<>> THEN 0 ELSE r.got[k]]], LAMBDA u : u.p # 0)

\* The frames that leave the reassembler when a packet starts a new generation.
FlushGeneration__no_fec(r) == r
FlushGeneration(r) ==
  IF r.src < ASrc /\ r.src + r.fec >= ASrc THEN chiaki_pscloud_audio_reassembler_fec(r) ELSE r

Emit(r, s) ==
  <<Play(r, Units(r)), FoldLeft(LAMBDA q, u : chiaki_packet_stats_push_seq(q, u.i), s, Units(r))>>

StartsGeneration(r, p, stale) ==
  r.flushed \/ stale \/ Unit(p) = 0 \/ r.src + r.fec >= Total

\* chiaki_pscloud_audio_reassembler_put_packet up to the new generation.
Begun(r, s, p, stale, mem) ==
  IF ~StartsGeneration(r, p, stale) THEN <<r, s>>
  ELSE LET f == FlushGeneration(r)
           e == IF r.flushed \/ r.emitted THEN <<r, s>> ELSE Emit(f, s)
       IN <<alloc_generation(e[1], p, mem), e[2]>>

\* The rest of it: a second packet for a unit is rejected; the source units are played when
\* they are complete.
Put(r, s, p) ==
  LET k == Unit(p) + 1
      q == IF k <= ASrc THEN [r EXCEPT !.got[k] = p, !.src = @ + 1] ELSE [r EXCEPT !.got[k] = p, !.fec = @ + 1]
      e == Emit(q, s)
  IN IF r.got = <<>> THEN <<[r EXCEPT !.crash = TRUE], s>>
     ELSE IF r.got[k] # 0 THEN <<r, s>>
     ELSE IF q.src = ASrc /\ ~q.emitted THEN <<[e[1] EXCEPT !.emitted = TRUE], e[2]>>
     ELSE <<q, s>>

\* History: the generations of which a first unit was lost, overtaken or repeated, or a
\* generation timed out, so that units were taken for those of another one.
Muddles(r, p, new) ==
  LET held == {Generation(r.got[k]) : k \in {j \in DOMAIN r.got : r.got[j] > 0}} IN
  IF (IF new THEN Unit(p) # 0 \/ Generation(p) \in held ELSE held # {Generation(p)})
  THEN {Generation(p), Generation(p) + 1} \cup held ELSE {}

Arrives(p, stale) ==
  [anet EXCEPT !.arrived = @ \cup {p}, !.head = IF p > @ THEN p ELSE @,
               !.faults = @ + (IF p = anet.head + 1 THEN 0 ELSE 1) + (IF stale THEN 1 ELSE 0)]

chiaki_pscloud_audio_reassembler_put_packet(p) ==
  \E stale \in {FALSE, ~au.flushed} :
    LET new == StartsGeneration(au, p, stale)
        mem == ~new \/ au.got # <<>> \/ ~anet.nomem
        b == Begun(au, ps, p, stale, mem)
        e == IF new /\ ~mem THEN b ELSE Put(b[1], b[2], p)
    IN /\ au' = e[1] /\ ps' = e[2]
       /\ anet' = [Arrives(p, stale) EXCEPT !.nomem = @ /\ mem, !.muddled = @ \cup Muddles(au, p, new) \cup (IF mem THEN {} ELSE {0})]
       /\ anet'.faults <= MaxFaults

-----------------------------------------------------------------------------
(* The console's format *)

\* The copies of older frames come after the frame itself.
FramesOf(p, startup) ==
  LET copies == SelectSeq(<<1, 2>>, LAMBDA k : ~(startup /\ IndexOf(p) + k - 1 < 3)) IN
  <<[i |-> IndexOf(p), p |-> p]>> \o [j \in 1 .. Len(copies) |-> [i |-> (p - 3 + copies[j]) % A16!SeqMod, p |-> p - 3 + copies[j]]]

StandardPacket(p) ==
  LET startup == au.startup /\ IndexOf(p) <= AHalf IN
  /\ au' = Play([au EXCEPT !.startup = startup], FramesOf(p, startup))
  /\ ps' = chiaki_packet_stats_push_seq(ps, IndexOf(p))
  /\ anet' = [Arrives(p, FALSE) EXCEPT !.tidy = @ /\ p > anet.head /\ p < A16!SeqMod]
  /\ anet'.faults <= MaxFaults

chiaki_audio_receiver_av_packet(p) ==
  /\ au.at = "on" /\ ~au.crash
  /\ p \in anet.head - 1 .. anet.head + 2
  /\ IF au.cloud THEN chiaki_pscloud_audio_reassembler_put_packet(p) ELSE StandardPacket(p)

NextAudio ==
  \/ chiaki_audio_receiver_init
  \/ \E p \in Packets : chiaki_audio_receiver_av_packet(p)
  \/ chiaki_packet_stats_push_generation \/ CongestionReport

-----------------------------------------------------------------------------
Heard == {au.heard[k].p : k \in DOMAIN au.heard}
Whole(g) == g \notin anet.muddled /\ Cardinality({p \in anet.arrived : Generation(p) = g}) >= ASrc

\* What is played under an index is the sound of that index, in order, and a generation of
\* a cloud stream of which enough units came is played whole once the next has begun, the
\* lost units restored; unless a first unit was lost or repeated, which muddles it.
AudioIsHeard ==
  /\ \A k \in DOMAIN au.heard :
       LET u == au.heard[k] IN
       ~au.cloud \/ (u.p > 0 /\ Generation(u.p) \notin anet.muddled) =>
          u.i = IndexOf(u.p) /\ \A j \in 1 .. k - 1 : au.heard[j].p < u.p
  /\ au.cloud /\ ~au.crash =>
       \A g \in 0 .. Generation(MaxAudio) :
         Whole(g) /\ Begins(g + 1) \in anet.arrived => \A k \in 0 .. ASrc - 1 : Begins(g) + k \in Heard
  /\ ~au.cloud /\ anet.tidy => anet.arrived \subseteq Heard

\* No packet is counted twice or forgotten between two reports, and while a console's
\* packets come in order and their indices do not wrap, the loss is the packets missing.
StatsAreExact ==
  /\ ps.sumR + ps.genR + ps.rec = ps.pushed
  /\ ~au.cloud /\ anet.tidy =>
       ps.sumL + ps.genL + SeqLost(ps) = ps.missed + anet.head - Cardinality(anet.arrived)
=============================================================================
