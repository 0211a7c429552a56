---------------------------- MODULE VideoReceiver ----------------------------
(***************************************************************************)
(* The video receiver (videoreceiver.c) and its frame processor            *)
(* (frameprocessor.c): the units of a frame are gathered, completed with   *)
(* the erasure code, given to the decoder, or reported to the console as   *)
(* corrupt.  The console numbers its frames with wrapping indices; units   *)
(* are lost, repeated, and overtaken by those of the next frame.  A frame  *)
(* refers to an earlier one or to none, which is known once it is complete.*)
(***************************************************************************)
EXTENDS SeqNum, Sequences, FiniteSets \* Half is 2^15 in the code

CONSTANTS
  RefFrames,   \* reference_frames, 16 in the code
  SrcUnits,    \* source units of a frame
  MaxVFrames,  \* bound: frames the console sends
  MaxBehind,   \* bound: frames by which a unit is late,
  MaxSkip,     \* or ahead of all units so far
  FirstFrames  \* indices the console may begin with

VARIABLES
  v,     \* the receiver, its frame processor, and what became of the frames
  vnet   \* the console: the index of its first frame, the newest frame that arrived,
         \* and whether memory can still run out

videoVars == <<v, vnet>>

None == -1
Frames == 1 .. MaxVFrames
Index(f) == add(vnet.first, f - 1)
FrameOf(i) == {f \in Frames : Index(f) = i}
FecUnits(f) == f % 2
The(i) == CHOOSE f \in Frames : Index(f) = i

InitVideo ==
  /\ v = [on |-> FALSE, profiles |-> FALSE, profile |-> FALSE, cur |-> None, prev |-> None, complete |-> 0,
          lost |-> 0, refs |-> <<>>, src |-> 0, fec |-> 0, srcR |-> 0, fecR |-> 0, slots |-> <<>>, crash |-> FALSE,
          seen |-> 0, shown |-> <<>>, concealed |-> {}, dropped |-> {}, reported |-> {}, sound |-> TRUE]
  /\ vnet = [first |-> 0, head |-> 0, nomem |-> TRUE]

chiaki_video_receiver_init ==
  /\ ~v.on
  /\ v' = [v EXCEPT !.on = TRUE]
  /\ \E i \in FirstFrames : vnet' = [vnet EXCEPT !.first = i]

\* The profiles are taken once.
chiaki_video_receiver_stream_info ==
  /\ v.on /\ ~v.profiles
  /\ v' = [v EXCEPT !.profiles = TRUE]
  /\ UNCHANGED vnet

-----------------------------------------------------------------------------
(* The frame processor.  A slot holds the frame its unit is of, or zero. *)

\* At least one unit of the erasure code is counted on, sent or not.  Without memory for
\* the slots there are none, and the frame is not given up.

chiaki_frame_processor_alloc_frame(r, f, mem) ==
  LET m == IF FecUnits(f) < 1 THEN 1 ELSE FecUnits(f) IN
  [r EXCEPT !.src = SrcUnits, !.fec = m, !.srcR = 0, !.fecR = 0,
            !.slots = [k \in 1 .. (IF mem THEN SrcUnits + m ELSE 0) |-> 0]]

\* A unit beyond the slots and a repeated one are rejected.  One that comes after the
\* frame was flushed is still counted.
chiaki_frame_processor_put_unit(r, f, u) ==
  IF u > Len(r.slots) \/ r.slots[u] # 0 THEN r
  ELSE IF u <= r.src THEN [r EXCEPT !.slots[u] = f, !.srcR = @ + 1]
  ELSE [r EXCEPT !.slots[u] = f, !.fecR = @ + 1]

chiaki_frame_processor_flush_possible(r) == r.srcR + r.fecR >= r.src

Missing(r) == {u \in DOMAIN r.slots : r.slots[u] = 0}

\* The code can restore as many units as it has units of its own.
chiaki_fec_decode(r) == Cardinality(Missing(r)) <= r.fec
\* The sizes of all source units are restored with them.
Restored(r) ==
  [r EXCEPT !.slots = [u \in DOMAIN r.slots |-> IF u <= r.src /\ r.slots[u] = 0 THEN The(r.cur) ELSE r.slots[u]]]

-----------------------------------------------------------------------------
(* chiaki_video_receiver_flush_frame *)

add_ref_frame(r) ==
  [r EXCEPT !.refs = SubSeq(<<r.cur>> \o r.refs, 1, IF Len(r.refs) < RefFrames THEN Len(r.refs) + 1 ELSE RefFrames)]
have_ref_frame(r, i) == \E k \in DOMAIN r.refs : r.refs[k] = i

Flushed(r) == [r EXCEPT !.prev = r.cur, !.complete = r.cur]
NextExpected(r) == add(r.complete, 1)

\* stream_connection_send_corrupt_frame: the frames from start to end.
Corrupt(r, start, end) ==
  [r EXCEPT !.reported = @ \cup {f \in Frames : Ahead(start, Index(f)) <= Ahead(start, end)}]

\* The frame is reported with all before it, but later frames may refer to it.  The count
\* is of signed numbers that do not wrap.
FecFailed__keeps_it(r) ==
  add_ref_frame(Flushed([r EXCEPT !.lost = @ + r.cur - NextExpected(r) + 1, !.concealed = @ \cup FrameOf(r.cur)]))

FecFailed(r) ==
  add_ref_frame(Flushed([Corrupt(r, NextExpected(r), r.cur) EXCEPT
    !.lost = @ + r.cur - NextExpected(r) + 1, !.concealed = @ \cup FrameOf(r.cur)]))

\* The decoder gets the frame, which refers to the frame ref; whether it takes it does not matter.
Shown(r, ref) ==
  add_ref_frame(Flushed([r EXCEPT
    !.lost = 0, !.shown = Append(@, The(r.cur)),
    !.sound = @ /\ (\A u \in 1 .. r.src : r.slots[u] \in FrameOf(r.cur))
                /\ (ref # None => FrameOf(ref) \subseteq {r.shown[k] : k \in DOMAIN r.shown} \cup r.concealed)]))

\* Not even one of the older frames it could refer to instead is known.
Dropped(r) == Flushed([r EXCEPT !.lost = @ + 1, !.dropped = @ \cup FrameOf(r.cur)])

\* A frame that refers d + 1 frames back.
RefIndex(r, d) == (r.cur - d - 1) % SeqMod
Referring(r, d) ==
  IF have_ref_frame(r, RefIndex(r, d)) THEN {Shown(r, RefIndex(r, d))}
  ELSE LET older == {i \in d + 1 .. RefFrames - 1 : have_ref_frame(r, RefIndex(r, i))} IN
       {Dropped(r)} \cup {Shown(r, RefIndex(r, i)) : i \in {j \in older : \A k \in older : j <= k}}

chiaki_video_receiver_flush_frame(r) ==
  LET complete(q) == {Shown(q, None)} \cup UNION {Referring(q, d) : d \in 0 .. RefFrames - 1} IN
  IF r.src = 0 THEN {r}
  ELSE IF r.srcR >= r.src THEN complete(r)
  ELSE IF r.slots = <<>> THEN {[r EXCEPT !.crash = TRUE]}
  ELSE {FecFailed(r)} \cup (IF chiaki_fec_decode(r) THEN complete(Restored(r)) ELSE {})

-----------------------------------------------------------------------------
(* chiaki_video_receiver_av_packet *)

\* A unit of a newer frame: the last one is flushed as it is, what is missing up to this
\* one is reported, and the frame processor made ready.
Gap(r, i) ==
  IF gt(i, NextExpected(r)) /\ ~(i = 1 /\ r.cur = None)
  THEN Corrupt(r, NextExpected(r), (i - 1) % SeqMod) ELSE r

NextFrame(r, f, mem) ==
  {chiaki_frame_processor_alloc_frame([Gap(q, Index(f)) EXCEPT !.cur = Index(f)], f, mem) :
     q \in IF r.cur # None /\ r.prev # r.cur THEN chiaki_video_receiver_flush_frame(r) ELSE {r}}

\* A complete frame is flushed at once, and only once.
FlushIfPossible(r) ==
  IF r.cur # r.prev /\ chiaki_frame_processor_flush_possible(r) THEN chiaki_video_receiver_flush_frame(r) ELSE {r}

\* The unit u of the frame f: of an old frame, or before the profiles are known, it is ignored.
chiaki_video_receiver_av_packet(f, u) ==
  LET i == Index(f)
      newer == v.cur = None \/ gt(i, v.cur)
      old == v.cur # None /\ lt(i, v.cur)
  IN /\ v.on /\ ~v.crash
     /\ f \in vnet.head - MaxBehind .. vnet.head + MaxSkip
     /\ IF old \/ ~v.profiles THEN UNCHANGED v /\ vnet' = [vnet EXCEPT !.head = IF f > @ THEN f ELSE @]
        ELSE \E mem \in {TRUE, ~vnet.nomem} :
               /\ \E r \in IF newer THEN NextFrame([v EXCEPT !.seen = IF @ = 0 THEN f ELSE @], f, mem) ELSE {v} :
                    IF r.crash THEN v' = r
                    ELSE v' \in FlushIfPossible(chiaki_frame_processor_put_unit([r EXCEPT !.profile = TRUE], f, u))
               /\ vnet' = [vnet EXCEPT !.head = IF f > @ THEN f ELSE @, !.nomem = @ /\ mem]

NextVideo ==
  \/ chiaki_video_receiver_init \/ chiaki_video_receiver_stream_info
  \/ \E f \in Frames : \E u \in 1 .. SrcUnits + FecUnits(f) : chiaki_video_receiver_av_packet(f, u)

-----------------------------------------------------------------------------
\* The decoder gets frames in their order and each once, made of their own units or of
\* what the erasure code restores from them; a frame it gets refers to one it got, or to
\* one the console knows to be corrupt.
FramesAreSound ==
  /\ v.sound
  /\ \A j, k \in DOMAIN v.shown : j < k => v.shown[j] < v.shown[k]

\* Every frame since the first one seen that was passed over reached the decoder, was
\* dropped for want of its reference, or was reported; and the counts that go into the
\* packet statistics never exceed what was expected.
LossesAreReported ==
  /\ v.srcR + v.fecR <= v.src + v.fec
  /\ ~v.crash /\ v.cur # None =>
       \A f \in v.seen .. The(v.cur) - 1 : f \in {v.shown[k] : k \in DOMAIN v.shown} \cup v.dropped \cup v.reported
=============================================================================
