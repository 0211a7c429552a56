----------------------------- MODULE KeyStream -----------------------------
(***************************************************************************)
(* The positions in the key stream (gkcrypt.c, takion.c).  A thread keeps  *)
(* a ring of chunks of the stream ready and writes the next one without    *)
(* the mutex; the receiving thread copies from the ring what it needs.     *)
(* Received packets carry the low bits of their position, from which the   *)
(* whole one is reconstructed.  Threads that send take positions under a   *)
(* mutex and may send in another order.  The stream itself is left out:    *)
(* the byte of position p is p, and a byte being written is Torn.          *)
(***************************************************************************)
EXTENDS Integers, FiniteSets

CONSTANTS
  KEY_BUF_CHUNK_SIZE, KeyBufChunks, \* the ring
  KeyHalf,                          \* half of the values of the low bits
  KeyRefresh,                       \* CHIAKI_GKCRYPT_GMAC_KEY_REFRESH_KEY_POS
  BlockSize,                        \* CHIAKI_GKCRYPT_BLOCK_SIZE
  Sizes, KeySenders,                \* what is sent, by which threads
  MaxKeyPos                         \* bound of all positions

VARIABLES
  kb,   \* the ring, its thread and the thread that calls fini
  kr,   \* the receiving side: key_state, and the packets under way
  ks    \* the sending side: key_pos_local, the current gmac key, the threads

keyVars == <<kb, kr, ks>>

Torn == -1
key_buf_size == KEY_BUF_CHUNK_SIZE * KeyBufChunks

InitKeys ==
  /\ kb = [at |-> "off", buf |-> [i \in 0 .. key_buf_size - 1 |-> Torn], min |-> 0, start |-> 0, populated |-> 0,
           last |-> 0, stop |-> FALSE, signal |-> FALSE, owner |-> "runs", copied |-> {}]
  /\ kr = [on |-> FALSE, prev |-> 0, newest |-> 0, air |-> {}, read |-> {}]
  /\ ks = [on |-> FALSE, pos |-> 0, gmac |-> 0, doing |-> [t \in KeySenders |-> <<>>], used |-> {}, macs |-> {}]

\* The ring, the positions received and the positions sent have nothing in common: each is
\* explored by itself.
chiaki_gkcrypt_init ==
  /\ kb.at = "off" /\ ~kr.on /\ ~ks.on
  /\ \/ kb' = [kb EXCEPT !.at = "check"] /\ UNCHANGED <<kr, ks>>
     \/ kr' = [kr EXCEPT !.on = TRUE] /\ UNCHANGED <<kb, ks>>
     \/ ks' = [ks EXCEPT !.on = TRUE] /\ UNCHANGED <<kb, kr>>

-----------------------------------------------------------------------------
\* The ring.

gkcrypt_key_buf_should_generate(b) == b.last > b.min + b.populated \div 2
key_buf_mutex_pred(b) == b.stop \/ b.populated < key_buf_size \/ gkcrypt_key_buf_should_generate(b)

Wake(b) == IF b.at = "waiting" THEN "check" ELSE b.at

SkipAhead(b) == [b EXCEPT !.min = (b.last \div KEY_BUF_CHUNK_SIZE) * KEY_BUF_CHUNK_SIZE, !.start = 0, !.populated = 0]

Slide__keeps_offset(b) == [b EXCEPT !.min = @ + KEY_BUF_CHUNK_SIZE, !.populated = @ - KEY_BUF_CHUNK_SIZE]
Slide(b) == [b EXCEPT !.start = (@ + KEY_BUF_CHUNK_SIZE) % key_buf_size,
                      !.min = @ + KEY_BUF_CHUNK_SIZE,
                      !.populated = @ - KEY_BUF_CHUNK_SIZE]

Room(b) == IF b.last > b.min + b.populated THEN SkipAhead(b) ELSE IF b.populated = key_buf_size THEN Slide(b) ELSE b

\* The chunk to be generated is the one after what is populated: the offset of the place i
\* from its beginning, and its bytes written.
ChunkOffsets == 0 .. KEY_BUF_CHUNK_SIZE - 1
OffsetOf(b, i) == (i - b.start - b.populated) % key_buf_size
Write(b, bytes) ==
  [b EXCEPT !.buf = [i \in DOMAIN b.buf |-> IF OffsetOf(b, i) \in ChunkOffsets THEN bytes[OffsetOf(b, i)] ELSE b.buf[i]]]

\* The thread has the mutex: it waits, ends, or makes room and lets go of the mutex to generate.
gkcrypt_thread_func ==
  /\ kb.at = "check"
  /\ \/ ~key_buf_mutex_pred(kb) /\ kb' = [kb EXCEPT !.at = "waiting"]
     \/ kb.stop /\ kb' = [kb EXCEPT !.at = "over"]
     \/ /\ key_buf_mutex_pred(kb) /\ ~kb.stop
        /\ kb' = [Write(Room(kb), [o \in ChunkOffsets |-> Torn]) EXCEPT !.at = "generating"]
  /\ UNCHANGED <<kr, ks>>

gkcrypt_generate_next_chunk ==
  /\ kb.at = "generating"
  /\ \/ kb' = [Write(kb, [o \in ChunkOffsets |-> kb.min + kb.populated + o]) EXCEPT !.at = "check", !.populated = @ + KEY_BUF_CHUNK_SIZE]
     \/ kb' = [kb EXCEPT !.at = "failed"]
  /\ UNCHANGED <<kr, ks>>

InBuffer(b, pos, n) == pos >= b.min /\ pos + n < b.min + b.populated

\* The receiving thread needs the n bytes at pos: from the ring, or generated by itself.
chiaki_gkcrypt_get_key_stream(pos, n) ==
  /\ kb.at # "off" /\ kb.owner = "runs" /\ ~kb.signal
  /\ LET b == [kb EXCEPT !.last = IF pos + n > @ THEN pos + n ELSE @] IN
       kb' = [b EXCEPT !.signal = gkcrypt_key_buf_should_generate(b),
                       !.copied = IF InBuffer(b, pos, n)
                                  THEN {<<pos + i, b.buf[(pos - b.min + b.start + i) % key_buf_size]>> : i \in 0 .. n - 1}
                                  ELSE {}]
  /\ UNCHANGED <<kr, ks>>

KeyBufSignal ==
  /\ kb.signal
  /\ kb' = [kb EXCEPT !.signal = FALSE, !.at = Wake(kb)]
  /\ UNCHANGED <<kr, ks>>

chiaki_gkcrypt_fini ==
  /\ \/ /\ kb.at # "off" /\ kb.owner = "runs" /\ ~kb.signal
        /\ kb' = [kb EXCEPT !.owner = "stopped", !.stop = TRUE]
     \/ /\ kb.owner = "stopped"
        /\ kb' = [kb EXCEPT !.owner = "joins", !.at = Wake(kb)]
     \/ /\ kb.owner = "joins" /\ kb.at \in {"over", "failed"}
        /\ kb' = [kb EXCEPT !.owner = "done"]
  /\ UNCHANGED <<kr, ks>>

-----------------------------------------------------------------------------
\* The positions of received packets.

KeyMod == 2 * KeyHalf
INSTANCE SeqNum WITH Half <- KeyHalf

\* chiaki_key_state_request_pos; the high bits never go below 0.
chiaki_key_state_request_pos(prev, low) ==
  LET prev_low == prev % KeyMod
      high == prev \div KeyMod
      h == IF gt(low, prev_low) /\ low < prev_low THEN high + 1
           ELSE IF lt(low, prev_low) /\ low > prev_low /\ high > 0 THEN high - 1 ELSE high
  IN h * KeyMod + low

\* The console sends a packet further on.  Packets are under way for less than half of the
\* values of the low bits (2^32 in the code), and less than half are lost in a row.
ConsoleSends ==
  /\ kr.on
  /\ \E p \in kr.newest + 1 .. kr.newest + 2 :
       /\ p <= MaxKeyPos /\ p - kr.prev < KeyHalf
       /\ kr' = [kr EXCEPT !.newest = p, !.air = {q \in @ : p - q < KeyHalf} \cup {p}]
  /\ UNCHANGED <<kb, ks>>

\* Its mac is right at its own position only; a packet that was damaged has none.
takion_handle_packet_mac(p, low) ==
  LET pos == chiaki_key_state_request_pos(kr.prev, low)
      valid == low = p % KeyMod /\ pos = p
  IN kr' = [kr EXCEPT !.prev = IF valid THEN pos ELSE @, !.air = @ \ {p}, !.read = IF low = p % KeyMod THEN {<<p, pos>>} ELSE {}]

PacketComes ==
  /\ \E p \in kr.air : \E low \in {p % KeyMod, (p + KeyHalf) % KeyMod} : takion_handle_packet_mac(p, low)
  /\ UNCHANGED <<kb, ks>>

-----------------------------------------------------------------------------
\* The positions of packets that are sent.

GmacIndex(pos) == (IF pos > 0 THEN pos - 1 ELSE 0) \div KeyRefresh

\* The size taken: "data_size += data_size % CHIAKI_GKCRYPT_BLOCK_SIZE".
Advance(n) == n + (n % BlockSize)

\* The index of the gmac key a packet at pos gets, and of the key that is current afterwards.
chiaki_gkcrypt_gmac(s, pos) ==
  [s EXCEPT !.gmac = IF GmacIndex(pos) > @ THEN GmacIndex(pos) ELSE @, !.macs = {<<pos, GmacIndex(pos)>>}]

chiaki_takion_crypt_advance_key_pos(s, n) == [s EXCEPT !.pos = @ + Advance(n), !.used = @ \cup {<<s.pos, n>>}]

\* Messages, acknowledgements and congestion reports take a position and are sent later.
TakePos(t, n) ==
  /\ ks.on /\ ks.doing[t] = <<>> /\ ks.pos + Advance(n) <= MaxKeyPos
  /\ ks' = [chiaki_takion_crypt_advance_key_pos(ks, n) EXCEPT !.doing[t] = <<ks.pos>>]
  /\ UNCHANGED <<kb, kr>>

chiaki_takion_send(t) ==
  /\ ks.doing[t] # <<>>
  /\ ks' = [chiaki_gkcrypt_gmac(ks, ks.doing[t][1]) EXCEPT !.doing[t] = <<>>]
  /\ UNCHANGED <<kb, kr>>

\* Feedback and microphone packets keep the mutex, and take a block more, for the mac.
takion_send_feedback_packet(t, n) ==
  /\ ks.on /\ ks.doing[t] = <<>> /\ ks.pos + Advance(n + BlockSize) <= MaxKeyPos
  /\ ks' = chiaki_gkcrypt_gmac(chiaki_takion_crypt_advance_key_pos(ks, n + BlockSize), ks.pos)
  /\ UNCHANGED <<kb, kr>>

-----------------------------------------------------------------------------
KeyBufThread == gkcrypt_thread_func \/ gkcrypt_generate_next_chunk

NextKeys ==
  \/ chiaki_gkcrypt_init \/ KeyBufThread \/ KeyBufSignal \/ chiaki_gkcrypt_fini
  \/ \E pos \in 0 .. MaxKeyPos - 1, n \in Sizes : pos + n <= MaxKeyPos /\ chiaki_gkcrypt_get_key_stream(pos, n)
  \/ ConsoleSends \/ PacketComes
  \/ \E t \in KeySenders : chiaki_takion_send(t) \/ \E n \in Sizes : TakePos(t, n) \/ takion_send_feedback_packet(t, n)

FairKeys ==
  WF_keyVars(KeyBufThread) /\ WF_keyVars(KeyBufSignal) /\ WF_keyVars(kb.owner # "runs" /\ chiaki_gkcrypt_fini)

\* What is copied from the ring is the stream of the position asked for, although the
\* thread writes without the mutex; a packet that was not damaged is read at the position
\* it was sent at, whatever came before it; packets have disjoint parts of the stream,
\* and each the gmac key of its own position though they are sent in another order.
KeysAreRight ==
  /\ \A c \in kb.copied : c[1] = c[2]
  /\ \A r \in kr.read : r[1] = r[2]
  /\ \A u1, u2 \in ks.used : u1 # u2 => u1[1] + u1[2] <= u2[1] \/ u2[1] + u2[2] <= u1[1]
  /\ \A a \in ks.macs : a[2] = GmacIndex(a[1])

\* fini returns, and the ring catches up with what was asked for unless its thread failed.
KeyBufEnds ==
  /\ (kb.owner # "runs") ~> (kb.owner = "done")
  /\ (kb.at # "off" /\ kb.last > kb.min + kb.populated) ~> (kb.last <= kb.min + kb.populated \/ kb.stop \/ kb.at = "failed")
=============================================================================
