----------------------------- MODULE MediaProofs -----------------------------
(***************************************************************************)
(* Proofs about five of the parts of Media: the key stream of the packets  *)
(* (KeyStream), the Takion handshake (TakionConnect), the bandwidth test   *)
(* (Senkusha), the video receiver (VideoReceiver) and the feedback sender  *)
(* (FeedbackSender).  They hold for every size of the ring of key chunks,  *)
(* every block and packet size and any senders; for every number of tries  *)
(* of the handshake; for every interval of packet sizes, number of pings   *)
(* and of retries, and every network that lets packets of the least size   *)
(* pass; for every number of units of a frame and of reference frames, and *)
(* every first frame index; and for every size of the history of events,   *)
(* every set of buttons and all inputs.  The parts share no state: the     *)
(* inductive invariant has one conjunct for each, which only the steps of  *)
(* that part can disturb.                                                  *)
(***************************************************************************)
EXTENDS Media, TLAPS, FiniteSetTheorems

-----------------------------------------------------------------------------
(* Remainders and quotients, as a ring and a wrapping counter need them.   *)

\* A number below the modulus is its own remainder.
LEMMA ModSmall ==
  ASSUME NEW m \in Nat \ {0}, NEW x \in 0 .. m - 1
  PROVE  x % m = x
  BY SMT

\* A round more.
LEMMA ModOver ==
  ASSUME NEW m \in Nat \ {0}, NEW x \in m .. 2 * m - 1
  PROVE  x % m = x - m
  BY SMT

\* A round less.
LEMMA ModUnder ==
  ASSUME NEW m \in Nat \ {0}, NEW x \in -m .. -1
  PROVE  x % m = x + m
  BY SMT

\* Two rounds less.
LEMMA ModUnderTwo ==
  ASSUME NEW m \in Nat \ {0}, NEW x \in -(2 * m) .. -m - 1
  PROVE  x % m = x + 2 * m
  BY SMT

\* Two places of a ring added.
LEMMA RingSum ==
  ASSUME NEW m \in Nat \ {0}, NEW a \in 0 .. m - 1, NEW c \in 0 .. m
  PROVE  (a + c) % m = (IF a + c < m THEN a + c ELSE a + c - m) /\ (a + c) % m \in 0 .. m - 1
<1>1. CASE a + c < m
  BY <1>1, a + c \in 0 .. m - 1, ModSmall
<1>2. CASE a + c >= m
  <2>1. a + c \in m .. 2 * m - 1
    BY <1>2
  <2>2. (a + c) % m = a + c - m
    BY <2>1, ModOver
  <2> QED
    BY <1>2, <2>1, <2>2
<1> QED
  BY <1>1, <1>2

\* Quotients and products of naturals are naturals.
LEMMA DivNat ==
  ASSUME NEW m \in Nat \ {0}, NEW x \in Nat
  PROVE  /\ x \div m \in Nat /\ (x \div m) * m \in Nat
         /\ x = (x \div m) * m + (x % m) /\ x % m \in 0 .. m - 1
<1>1. x \div m \in Int /\ x = m * (x \div m) + (x % m) /\ x % m \in 0 .. m - 1
  BY SMT
<1>2. x \div m >= 0
  BY SMT
<1>3. \A q \in Nat : q * m \in Nat /\ q * m = m * q
  BY SMT
<1>4. x \div m \in Nat
  BY <1>1, <1>2
<1> QED
  BY <1>1, <1>3, <1>4

\* One chunk more than fewer than all chunks fits.
LEMMA ChunkFits ==
  ASSUME NEW c \in Nat \ {0}, NEW n \in Nat, NEW k \in Nat, k < n
  PROVE  k * c + c <= n * c /\ k * c \in Nat /\ n * c \in Nat
<1>1. PICK d \in Nat : n = k + 1 + d
  BY n - k - 1 \in Nat, n = k + 1 + (n - k - 1)
<1>2. n * c = k * c + c + d * c
  BY <1>1
<1>3. d * c >= 0 /\ k * c \in Nat /\ n * c \in Nat
  OBVIOUS
<1> QED
  BY <1>2, <1>3

-----------------------------------------------------------------------------
(* The key stream.                                                          *)

ringSize == Ky!key_buf_size
KbFields == {"at", "buf", "min", "start", "populated", "last", "stop", "signal", "owner", "copied"}

\* The ring is filled and emptied by whole chunks.
Chunked(n) == \E k \in 0 .. KeyBufChunks : n = k * KEY_BUF_CHUNK_SIZE
\* The populated places of the ring hold the keys of consecutive positions from min on.
Holds(b) == \A j \in 0 .. b.populated - 1 : b.buf[(b.start + j) % ringSize] = b.min + j

\* The fields of the ring and their ranges.
RingShape(b) ==
  /\ DOMAIN b = KbFields
  /\ b.buf \in [0 .. ringSize - 1 -> Int]
  /\ b.min \in Nat /\ b.last \in Nat /\ b.start \in 0 .. ringSize - 1
  /\ b.populated \in 0 .. ringSize /\ Chunked(b.populated)

\* There is room for the chunk that is being generated, and what was copied out belongs to
\* the position it was asked for.
RingOK ==
  /\ RingShape(kb) /\ Holds(kb)
  /\ kb.at = "generating" => kb.populated # ringSize
  /\ \A c \in kb.copied : c[1] = c[2]

\* The ring holds whole chunks, and one that is not full has room for one more.
LEMMA RingSize ==
  /\ ringSize \in Nat \ {0} /\ KEY_BUF_CHUNK_SIZE \in Nat \ {0} /\ KEY_BUF_CHUNK_SIZE <= ringSize /\ KeyBufChunks \in Nat \ {0}
  /\ \A p \in 0 .. ringSize : Chunked(p) /\ p # ringSize => p + KEY_BUF_CHUNK_SIZE <= ringSize /\ Chunked(p + KEY_BUF_CHUNK_SIZE)
  /\ Chunked(ringSize - KEY_BUF_CHUNK_SIZE) /\ Chunked(0)
<1>1. KEY_BUF_CHUNK_SIZE \in Nat \ {0} /\ KeyBufChunks \in Nat \ {0} /\ ringSize = KeyBufChunks * KEY_BUF_CHUNK_SIZE
  BY KeysAssumption DEF ringSize, Ky!key_buf_size
<1>2. 0 * KEY_BUF_CHUNK_SIZE + KEY_BUF_CHUNK_SIZE <= ringSize /\ ringSize \in Nat
  BY <1>1, ChunkFits
<1>3. ASSUME NEW p \in 0 .. ringSize, Chunked(p), p # ringSize
      PROVE  p + KEY_BUF_CHUNK_SIZE <= ringSize /\ Chunked(p + KEY_BUF_CHUNK_SIZE)
  <2>1. PICK k \in 0 .. KeyBufChunks : p = k * KEY_BUF_CHUNK_SIZE
    BY <1>3 DEF Chunked
  <2>2. k < KeyBufChunks
    BY <1>1, <1>3, <2>1
  <2>3. p + KEY_BUF_CHUNK_SIZE = (k + 1) * KEY_BUF_CHUNK_SIZE
    BY <1>1, <2>1
  <2>4. Chunked(p + KEY_BUF_CHUNK_SIZE)
    BY <1>1, <2>2, <2>3, k + 1 \in 0 .. KeyBufChunks DEF Chunked
  <2> QED
    BY <1>1, <2>1, <2>2, <2>4, ChunkFits
<1>4. Chunked(ringSize - KEY_BUF_CHUNK_SIZE)
  <2>1. ringSize - KEY_BUF_CHUNK_SIZE = (KeyBufChunks - 1) * KEY_BUF_CHUNK_SIZE
    BY <1>1
  <2> QED
    BY <1>1, <2>1 DEF Chunked
<1>5. Chunked(0)
  BY <1>1 DEF Chunked
<1> QED
  BY <1>1, <1>2, <1>3, <1>4, <1>5

\* gkcrypt_thread_func, a position far ahead was asked for: the ring is empty and begins there.
LEMMA SkipAheadOK ==
  ASSUME NEW b, RingShape(b)
  PROVE  LET r == Ky!SkipAhead(b) IN RingShape(r) /\ Holds(r) /\ r.populated = 0 /\ r.copied = b.copied
<1> DEFINE r == Ky!SkipAhead(b)
<1>1. (b.last \div KEY_BUF_CHUNK_SIZE) * KEY_BUF_CHUNK_SIZE \in Nat
  <2>1. b.last \div KEY_BUF_CHUNK_SIZE \in Nat
    BY RingSize, DivNat DEF RingShape
  <2> QED
    BY <2>1, RingSize
<1>2. /\ DOMAIN r = KbFields /\ r.buf = b.buf /\ r.last = b.last /\ r.start = 0 /\ r.populated = 0 /\ r.copied = b.copied
      /\ r.min = (b.last \div KEY_BUF_CHUNK_SIZE) * KEY_BUF_CHUNK_SIZE
  BY DEF Ky!SkipAhead, RingShape, KbFields
<1> HIDE DEF r
<1>3. Chunked(r.populated) /\ r.populated \in 0 .. ringSize /\ r.start \in 0 .. ringSize - 1
  BY <1>2, RingSize
<1>4. RingShape(r)
  BY <1>1, <1>2, <1>3 DEF RingShape
<1>5. Holds(r)
  BY <1>2 DEF Holds
<1> QED
  BY <1>2, <1>4, <1>5 DEF r

\* A place past the end of a ring of m, seen from a start that has moved c on.
LEMMA PlaceAfterSlide ==
  ASSUME NEW m \in Nat \ {0}, NEW a \in 0 .. m - 1, NEW c \in 0 .. m, NEW j \in 0 .. m - 1, a + c >= m, j < m - c
  PROVE  (a + (j + c)) % m = (a + c - m + j) % m
<1> DEFINE y == a + (j + c)
<1>1. y \in m .. 2 * m - 1 /\ y - m \in 0 .. m - 1 /\ a + c - m + j = y - m
  OBVIOUS
<1> HIDE DEF y
<1>2. y % m = y - m /\ (y - m) % m = y - m
  BY <1>1, ModOver, ModSmall
<1> QED
  BY <1>1, <1>2 DEF y

\* gkcrypt_thread_func, the ring is full: its oldest chunk goes, the others keep their places.
LEMMA SlideOK ==
  ASSUME NEW b, RingShape(b), Holds(b), b.populated = ringSize
  PROVE  LET r == Ky!Slide(b) IN RingShape(r) /\ Holds(r) /\ r.populated # ringSize /\ r.copied = b.copied
<1> DEFINE r == Ky!Slide(b)
<1> DEFINE C == KEY_BUF_CHUNK_SIZE
<1>2. /\ DOMAIN r = KbFields /\ r.buf = b.buf /\ r.last = b.last /\ r.copied = b.copied
      /\ r.start = (b.start + C) % ringSize /\ r.min = b.min + C /\ r.populated = b.populated - C
  BY DEF Ky!Slide, RingShape, KbFields, ringSize
<1> HIDE DEF r
<1>3. C \in Nat \ {0} /\ ringSize \in Nat \ {0} /\ C <= ringSize /\ Chunked(ringSize - C)
  BY RingSize
<1>t. b.start \in 0 .. ringSize - 1 /\ b.min \in Nat /\ b.last \in Nat /\ b.buf \in [0 .. ringSize - 1 -> Int]
  BY DEF RingShape
<1> HIDE DEF C
<1>s. C \in 0 .. ringSize
  BY <1>3
<1>4. r.start \in 0 .. ringSize - 1 /\ (b.start + C < ringSize => r.start = b.start + C)
      /\ (b.start + C >= ringSize => r.start = b.start + C - ringSize)
  <2>1. /\ (b.start + C) % ringSize = (IF b.start + C < ringSize THEN b.start + C ELSE b.start + C - ringSize)
        /\ (b.start + C) % ringSize \in 0 .. ringSize - 1
    BY <1>3, <1>t, <1>s, RingSum
  <2> QED
    BY <1>2, <1>3, <1>t, <2>1
<1>5. Chunked(r.populated) /\ r.populated \in 0 .. ringSize /\ r.populated # ringSize /\ r.min \in Nat
  BY <1>2, <1>3, <1>t
<1>6. ASSUME NEW j \in 0 .. r.populated - 1 PROVE r.buf[(r.start + j) % ringSize] = r.min + j
  <2>1. j + C \in 0 .. b.populated - 1 /\ j \in 0 .. ringSize - 1
    BY <1>2, <1>3, <1>5
  <2>2. b.buf[(b.start + (j + C)) % ringSize] = b.min + (j + C)
    BY <2>1 DEF Holds
  <2>3. (b.start + (j + C)) % ringSize = (r.start + j) % ringSize
    <3>1. CASE b.start + C < ringSize
      <4>1. r.start = b.start + C
        BY <1>4, <3>1
      <4>2. b.start \in Nat /\ C \in Nat /\ j \in Nat
        BY <1>3, <1>t
      <4>3. b.start + (j + C) = r.start + j
        BY <4>1, <4>2
      <4> QED
        BY <4>3
    <3>2. CASE b.start + C >= ringSize
      <4>1. b.start + C - ringSize + j = r.start + j /\ j < ringSize - C
        BY <1>2, <1>3, <1>4, <1>t, <2>1, <3>2
      <4>2. (b.start + (j + C)) % ringSize = (b.start + C - ringSize + j) % ringSize
        BY <1>3, <1>s, <1>t, <2>1, <3>2, <4>1, PlaceAfterSlide
      <4> QED
        BY <4>1, <4>2
    <3> QED
      BY <1>3, <1>t, <3>1, <3>2
  <2> QED
    BY <1>2, <1>3, <1>t, <2>1, <2>2, <2>3
<1>7. Holds(r)
  BY <1>6 DEF Holds
<1>8. RingShape(r)
  BY <1>2, <1>4, <1>5, <1>t DEF RingShape
<1> QED
  BY <1>2, <1>5, <1>7, <1>8 DEF r

\* Whichever of the two it takes, there is room for a chunk and nothing in the ring is wrong.
LEMMA RoomOK ==
  ASSUME NEW b, RingShape(b), Holds(b)
  PROVE  LET r == Ky!Room(b) IN RingShape(r) /\ Holds(r) /\ r.populated # ringSize /\ r.copied = b.copied
<1>1. CASE b.last > b.min + b.populated
  BY <1>1, SkipAheadOK, RingSize DEF Ky!Room
<1>2. CASE ~(b.last > b.min + b.populated) /\ b.populated = ringSize
  BY <1>2, SlideOK DEF Ky!Room, ringSize
<1>3. CASE ~(b.last > b.min + b.populated) /\ b.populated # ringSize
  BY <1>3 DEF Ky!Room, ringSize
<1> QED
  BY <1>1, <1>2, <1>3

\* chiaki_gkcrypt_gen_key_stream writes one chunk behind the populated ones, round the end of
\* the ring, and none of the keys that are there.
LEMMA WriteOK ==
  ASSUME NEW b, RingShape(b), Holds(b), b.populated # ringSize, NEW bytes \in [Ky!ChunkOffsets -> Int]
  PROVE  LET r == Ky!Write(b, bytes) IN
         /\ RingShape(r) /\ Holds(r) /\ \A f \in KbFields \ {"buf"} : r[f] = b[f]
         /\ b.populated + KEY_BUF_CHUNK_SIZE <= ringSize
         /\ \A j \in b.populated .. b.populated + KEY_BUF_CHUNK_SIZE - 1 :
              r.buf[(b.start + j) % ringSize] = bytes[j - b.populated]
<1> DEFINE r == Ky!Write(b, bytes)
<1> DEFINE C == KEY_BUF_CHUNK_SIZE
<1> DEFINE off(i) == (i - b.start - b.populated) % ringSize
<1>1. C \in Nat \ {0} /\ ringSize \in Nat \ {0} /\ b.populated + C <= ringSize
  BY RingSize DEF RingShape
<1>t. b.start \in 0 .. ringSize - 1 /\ b.populated \in 0 .. ringSize /\ b.buf \in [0 .. ringSize - 1 -> Int]
  BY DEF RingShape
<1>2. /\ DOMAIN r = KbFields /\ \A f \in KbFields \ {"buf"} : r[f] = b[f]
      /\ r.buf = [i \in 0 .. ringSize - 1 |-> IF off(i) \in 0 .. C - 1 THEN bytes[off(i)] ELSE b.buf[i]]
  BY DEF Ky!Write, Ky!OffsetOf, Ky!ChunkOffsets, RingShape, KbFields, ringSize
<1>3. bytes \in [0 .. C - 1 -> Int]
  BY DEF Ky!ChunkOffsets
<1> HIDE DEF r, C
<1>4. ASSUME NEW j \in 0 .. b.populated + C - 1
      PROVE  /\ (b.start + j) % ringSize \in 0 .. ringSize - 1
             /\ j >= b.populated => off((b.start + j) % ringSize) = j - b.populated
             /\ j < b.populated => off((b.start + j) % ringSize) >= C
  <2> DEFINE i == (b.start + j) % ringSize
  <2>0. j \in Int /\ 0 <= j /\ j < ringSize /\ b.populated \in Int /\ b.start \in Int
    BY <1>1, <1>t
  <2>1. i \in 0 .. ringSize - 1 /\ (i = b.start + j \/ i = b.start + j - ringSize)
    <3>1. j \in 0 .. ringSize
      BY <1>1, <2>0
    <3> QED
      BY <1>1, <1>t, <3>1, RingSum
  <2> HIDE DEF i
  <2>2. i - b.start - b.populated = j - b.populated \/ i - b.start - b.populated = j - b.populated - ringSize
    BY <1>1, <2>0, <2>1
  <2> DEFINE x == i - b.start - b.populated
  <2>3. x \in Int /\ (x = j - b.populated \/ x = j - b.populated - ringSize)
    BY <1>1, <2>0, <2>1, <2>2
  <2>4. off(i) = x % ringSize
    OBVIOUS
  <2> HIDE DEF x
  <2>5. CASE j >= b.populated
    <3>1. j - b.populated < C /\ j - b.populated < ringSize
      BY <1>1, <1>t, <2>0
    <3>2. CASE x = j - b.populated
      BY <1>1, <2>0, <2>1, <2>4, <2>5, <3>1, <3>2, x \in 0 .. ringSize - 1, ModSmall DEF i
    <3>3. CASE x = j - b.populated - ringSize
      <4>1. x \in -ringSize .. -1
        BY <1>1, <2>0, <2>5, <3>1, <3>3
      <4>2. x % ringSize = x + ringSize
        BY <1>1, <4>1, ModUnder
      <4>3. x + ringSize = j - b.populated
        BY <1>1, <2>0, <3>3
      <4> QED
        BY <2>0, <2>1, <2>4, <2>5, <4>2, <4>3 DEF i
    <3> QED
      BY <2>3, <3>2, <3>3
  <2>6. CASE j < b.populated
    <3>1. j - b.populated >= C - ringSize /\ j - b.populated < 0 
      BY <1>1, <1>t, <2>0, <2>6
    <3>3. x % ringSize >= C
      <4>1. CASE x = j - b.populated
        <5>1. x \in -ringSize .. -1
          BY <1>1, <2>3, <2>0, <3>1, <4>1
        <5>2. x % ringSize = x + ringSize
          BY <1>1, <5>1, ModUnder
        <5> QED
          BY <1>1, <2>0, <2>3, <3>1, <4>1, <5>2
      <4>2. CASE x = j - b.populated - ringSize
        <5>1. x \in -(2 * ringSize) .. -ringSize - 1
          BY <1>1, <2>3, <2>0, <3>1, <4>2
        <5>2. x % ringSize = x + 2 * ringSize
          BY <1>1, <5>1, ModUnderTwo
        <5> QED
          BY <1>1, <2>0, <2>3, <3>1, <4>2, <5>2
      <4> QED
        BY <2>3, <4>1, <4>2
    <3> QED
      BY <2>0, <2>1, <2>4, <2>6, <3>3 DEF i
  <2> QED
    BY <2>0, <2>5, <2>6
<1>5. r.buf \in [0 .. ringSize - 1 -> Int]
  BY <1>2, <1>3, <1>t
<1>6. RingShape(r)
  <2>1. r.min = b.min /\ r.last = b.last /\ r.start = b.start /\ r.populated = b.populated
    BY <1>2 DEF KbFields
  <2> QED
    BY <1>2, <1>5, <2>1 DEF RingShape
<1>7. Holds(r)
  <2>1. r.min = b.min /\ r.start = b.start /\ r.populated = b.populated
    BY <1>2 DEF KbFields
  <2>2. ASSUME NEW j \in 0 .. b.populated - 1 PROVE r.buf[(b.start + j) % ringSize] = b.min + j
    <3>1. j \in 0 .. b.populated + C - 1 /\ j < b.populated
      BY <1>1, <1>t
    <3>2. (b.start + j) % ringSize \in 0 .. ringSize - 1 /\ off((b.start + j) % ringSize) >= C
      BY <1>4, <3>1
    <3>3. ~(off((b.start + j) % ringSize) \in 0 .. C - 1)
      BY <1>1, <3>2
    <3> QED
      BY <1>2, <3>2, <3>3 DEF Holds
  <2> QED
    BY <2>1, <2>2 DEF Holds
<1>8. ASSUME NEW j \in b.populated .. b.populated + C - 1
      PROVE  r.buf[(b.start + j) % ringSize] = bytes[j - b.populated]
  <2>1. j \in 0 .. b.populated + C - 1 /\ j >= b.populated /\ j - b.populated \in 0 .. C - 1
    BY <1>1, <1>t
  <2> QED
    BY <1>2, <1>4, <2>1
<1> QED
  BY <1>1, <1>2, <1>6, <1>7, <1>8 DEF r, C

-----------------------------------------------------------------------------
\* The receiver's last position is less than half a round behind the newest packet, and so is
\* every packet under way; a packet was read with the position it was sent with.
RecvOK ==
  /\ DOMAIN kr = {"on", "prev", "newest", "air", "read"}
  /\ kr.prev \in Nat /\ kr.newest \in Nat /\ kr.prev <= kr.newest /\ kr.newest - kr.prev < KeyHalf
  /\ \A q \in kr.air : q \in Nat /\ q <= kr.newest /\ kr.newest - q < KeyHalf
  /\ \A r \in kr.read : r[1] = r[2]

\* The keys that two packets used do not overlap.
Disjoint(used) == \A u1, u2 \in used : u1 # u2 => u1[1] + u1[2] <= u2[1] \/ u2[1] + u2[2] <= u1[1]

\* The keys used lie behind the senders' position; a code was made with the key of its position.
SentOK ==
  /\ DOMAIN ks = {"on", "pos", "gmac", "doing", "used", "macs"}
  /\ ks.pos \in Nat
  /\ \A u \in ks.used : u[1] \in Nat /\ u[2] \in Nat /\ u[1] + u[2] <= ks.pos
  /\ Disjoint(ks.used)
  /\ \A a \in ks.macs : a[2] = Ky!GmacIndex(a[1])

\* What the three parts of the key stream keep: the ring, the receiver's position and the
\* senders' position.
KeysInv == RingOK /\ RecvOK /\ SentOK

\* Multiples of m that are less than m, or less than 2 * m, apart.
LEMMA SameQuotient ==
  ASSUME NEW m \in Nat \ {0}, NEW a \in Int, NEW b \in Int, NEW d \in Int, d = (a - b) * m
  PROVE  /\ -m < d /\ d < m => a = b
         /\ d < 2 * m => a <= b + 1
         /\ d > -(2 * m) => a >= b - 1
         /\ a = b + 1 => d = m
         /\ a = b - 1 => d = -m
         /\ a = b => d = 0
<1>1. CASE a >= b + 2
  <2>1. PICK e \in Nat : a = b + 2 + e
    BY <1>1, a - b - 2 \in Nat
  <2>2. d = 2 * m + e * m /\ e * m >= 0
    BY <2>1
  <2> QED
    BY <1>1, <2>2
<1>2. CASE a <= b - 2
  <2>1. PICK e \in Nat : b = a + 2 + e
    BY <1>2, b - a - 2 \in Nat
  <2>2. d = -(2 * m) - e * m /\ e * m >= 0
    BY <2>1
  <2> QED
    BY <1>2, <2>2
<1>3. CASE a \in {b - 1, b, b + 1}
  BY <1>3
<1> QED
  BY <1>1, <1>2, <1>3

\* chiaki_key_state_request_pos: the low bits of a position less than half a round from the
\* last one give the position back.
LEMMA RequestPos ==
  ASSUME NEW prev \in Nat, NEW p \in Nat, p - prev < KeyHalf, prev - p < KeyHalf
  PROVE  Ky!chiaki_key_state_request_pos(prev, p % Ky!KeyMod) = p
<1> DEFINE M == Ky!KeyMod
<1> DEFINE pl == prev % M
<1> DEFINE hi == prev \div M
<1> DEFINE low == p % M
<1> DEFINE h == p \div M
<1>1. M = 2 * KeyHalf /\ KeyHalf \in Nat \ {0} /\ M \in Nat \ {0}
  BY KeysAssumption DEF Ky!KeyMod
<1> HIDE DEF M
<1>2. /\ h \in Nat /\ h * M \in Nat /\ p = h * M + low /\ low \in 0 .. M - 1
      /\ hi \in Nat /\ hi * M \in Nat /\ prev = hi * M + pl /\ pl \in 0 .. M - 1
  BY <1>1, DivNat
<1> DEFINE up == Ky!gt(low, pl) /\ low < pl
<1> DEFINE down == Ky!lt(low, pl) /\ low > pl /\ hi > 0
<1>3. Ky!chiaki_key_state_request_pos(prev, low) = (IF up THEN hi + 1 ELSE IF down THEN hi - 1 ELSE hi) * M + low
  BY DEF Ky!chiaki_key_state_request_pos, M
<1> HIDE DEF pl, hi, low, h
<1>4. /\ up <=> (low < pl /\ pl - low > KeyHalf)
      /\ down <=> (low > pl /\ low - pl > KeyHalf /\ hi > 0)
  BY <1>1, <1>2 DEF Ky!gt, Ky!lt
<1> HIDE DEF up, down
<1> DEFINE d == (h - hi) * M
<1>5. d \in Int /\ d = h * M - hi * M /\ d = (p - prev) - (low - pl)
  BY <1>1, <1>2
<1> HIDE DEF d
<1>6. /\ -M < d /\ d < M => h = hi
      /\ d < 2 * M => h <= hi + 1
      /\ d > -(2 * M) => h >= hi - 1
      /\ h = hi + 1 => d = M
      /\ h = hi - 1 => d = -M
      /\ h = hi => d = 0
  BY <1>1, <1>2, <1>5, SameQuotient DEF d
<1>7. d < 2 * M /\ d > -(2 * M)
  BY <1>1, <1>2, <1>5
<1>8. (IF up THEN hi + 1 ELSE IF down THEN hi - 1 ELSE hi) = h
  <2>1. CASE h = hi + 1
    BY <1>1, <1>2, <1>4, <1>5, <1>6, <2>1
  <2>2. CASE h = hi - 1
    BY <1>1, <1>2, <1>4, <1>5, <1>6, <2>2
  <2>3. CASE h = hi
    BY <1>1, <1>2, <1>4, <1>5, <1>6, <2>3
  <2> QED
    BY <1>2, <1>6, <1>7, <2>1, <2>2, <2>3
<1>9. Ky!chiaki_key_state_request_pos(prev, low) = p
  BY <1>2, <1>3, <1>8
<1> QED
  BY <1>9 DEF low, M

\* Nothing has been generated, received or sent.
LEMMA KeysInit == Ky!InitKeys => KeysInv
<1> SUFFICES ASSUME Ky!InitKeys PROVE KeysInv
  OBVIOUS
<1> USE DEF Ky!InitKeys
<1>1. RingShape(kb)
  <2>1. 0 \in 0 .. ringSize - 1 /\ 0 \in 0 .. ringSize /\ Chunked(0)
    BY RingSize
  <2>2. kb.buf \in [0 .. ringSize - 1 -> Int]
    BY DEF ringSize, Ky!Torn
  <2>3. DOMAIN kb = KbFields
    BY DEF KbFields
  <2> QED
    BY <2>1, <2>2, <2>3 DEF RingShape
<1>2. Holds(kb)
  BY DEF Holds
<1>3. RecvOK
  BY KeysAssumption DEF RecvOK
<1>4. SentOK
  BY DEF SentOK, Disjoint
<1> QED
  BY <1>1, <1>2, <1>3, <1>4 DEF KeysInv, RingOK

\* The ring, seen only through other fields than its own, stays as it is.
LEMMA RingSame ==
  ASSUME RingOK, DOMAIN kb' = KbFields, kb'.buf = kb.buf, kb'.min = kb.min, kb'.start = kb.start,
         kb'.populated = kb.populated, kb'.last \in Nat,
         kb'.at = "generating" => kb.at = "generating",
         \A c \in kb'.copied : c[1] = c[2]
  PROVE  RingOK'
  BY DEF RingOK, RingShape, Holds

\* Every step of the thread of the ring, of its users, of the receiver and of the senders.
LEMMA KeysStep == KeysInv /\ [Ky!NextKeys]_keys => KeysInv'
<1> SUFFICES ASSUME KeysInv, [Ky!NextKeys]_keys PROVE KeysInv'
  OBVIOUS
<1> USE DEF KeysInv
<1>f. DOMAIN kb = KbFields /\ kb.last \in Nat /\ \A c \in kb.copied : c[1] = c[2]
  BY DEF RingOK, RingShape
<1>1. CASE UNCHANGED keys
  BY <1>1 DEF keys, RingOK, RingShape, Holds, RecvOK, SentOK
<1>k. ASSUME UNCHANGED kb PROVE RingOK'
  BY <1>k DEF RingOK, RingShape, Holds
<1>r. ASSUME UNCHANGED kr PROVE RecvOK'
  BY <1>r DEF RecvOK
<1>s. ASSUME UNCHANGED ks PROVE SentOK'
  BY <1>s DEF SentOK, Disjoint
<1>2. CASE Ky!chiaki_gkcrypt_init
  <2>1. CASE kb' = [kb EXCEPT !.at = "check"] /\ UNCHANGED <<kr, ks>>
    BY <1>f, <1>r, <1>s, <2>1, RingSame DEF KbFields
  <2>2. CASE kr' = [kr EXCEPT !.on = TRUE] /\ UNCHANGED <<kb, ks>>
    BY <1>k, <1>s, <2>2 DEF RecvOK
  <2>3. CASE ks' = [ks EXCEPT !.on = TRUE] /\ UNCHANGED <<kb, kr>>
    BY <1>k, <1>r, <2>3 DEF SentOK
  <2> QED
    BY <1>2, <2>1, <2>2, <2>3 DEF Ky!chiaki_gkcrypt_init
<1>3. CASE Ky!gkcrypt_thread_func
  <2>1. CASE kb' = [kb EXCEPT !.at = "waiting"] \/ kb' = [kb EXCEPT !.at = "over"]
    <3>1. RingOK'
      BY <1>f, <2>1, RingSame DEF KbFields
    <3> QED
      BY <1>3, <1>r, <1>s, <3>1 DEF Ky!gkcrypt_thread_func
  <2>2. CASE kb' = [Ky!Write(Ky!Room(kb), [o \in Ky!ChunkOffsets |-> Ky!Torn]) EXCEPT !.at = "generating"]
    <3> DEFINE b == Ky!Room(kb)
    <3> DEFINE w == Ky!Write(b, [o \in Ky!ChunkOffsets |-> Ky!Torn])
    <3>1. RingShape(b) /\ Holds(b) /\ b.populated # ringSize /\ b.copied = kb.copied
      BY RoomOK DEF RingOK
    <3>2. [o \in Ky!ChunkOffsets |-> Ky!Torn] \in [Ky!ChunkOffsets -> Int]
      BY DEF Ky!Torn
    <3> HIDE DEF b
    <3>3. RingShape(w) /\ Holds(w) /\ \A f \in KbFields \ {"buf"} : w[f] = b[f]
      BY <3>1, <3>2, WriteOK
    <3>4. w.populated # ringSize /\ w.copied = kb.copied
      BY <3>1, <3>3 DEF KbFields
    <3>5. kb' = [w EXCEPT !.at = "generating"]
      BY <2>2 DEF b
    <3> HIDE DEF w
    <3>6. DOMAIN kb' = KbFields /\ kb'.at = "generating" /\ \A f \in KbFields \ {"at"} : kb'[f] = w[f]
      BY <3>3, <3>5 DEF RingShape, KbFields
    <3>7. /\ kb'.buf = w.buf /\ kb'.min = w.min /\ kb'.start = w.start /\ kb'.last = w.last
          /\ kb'.populated = w.populated /\ kb'.copied = w.copied
      BY <3>6 DEF KbFields
    <3>8. RingShape(kb')
      BY <3>3, <3>6, <3>7 DEF RingShape
    <3>9. Holds(kb')
      BY <3>3, <3>7 DEF Holds
    <3>10. RingOK'
      BY <1>f, <3>4, <3>7, <3>8, <3>9 DEF RingOK, RingShape, Holds
    <3> QED
      BY <1>3, <1>r, <1>s, <3>10 DEF Ky!gkcrypt_thread_func
  <2> QED
    BY <1>3, <2>1, <2>2 DEF Ky!gkcrypt_thread_func
<1>4. CASE Ky!gkcrypt_generate_next_chunk
  <2>1. CASE kb' = [kb EXCEPT !.at = "failed"]
    <3>1. RingOK'
      BY <1>f, <2>1, RingSame DEF KbFields
    <3> QED
      BY <1>4, <1>r, <1>s, <3>1 DEF Ky!gkcrypt_generate_next_chunk
  <2>2. CASE kb' = [Ky!Write(kb, [o \in Ky!ChunkOffsets |-> kb.min + kb.populated + o])
                    EXCEPT !.at = "check", !.populated = @ + KEY_BUF_CHUNK_SIZE]
    <3> DEFINE bytes == [o \in Ky!ChunkOffsets |-> kb.min + kb.populated + o]
    <3> DEFINE w == Ky!Write(kb, bytes)
    <3>t. /\ kb.min \in Nat /\ kb.populated \in 0 .. ringSize /\ kb.populated # ringSize
          /\ kb.start \in 0 .. ringSize - 1 /\ Chunked(kb.populated) /\ RingShape(kb) /\ Holds(kb)
      BY <1>4 DEF RingOK, RingShape, Ky!gkcrypt_generate_next_chunk
    <3>g. KEY_BUF_CHUNK_SIZE \in Nat /\ ringSize \in Nat
      BY RingSize
    <3>2. bytes \in [Ky!ChunkOffsets -> Int] /\ \A o \in 0 .. KEY_BUF_CHUNK_SIZE - 1 : bytes[o] = kb.min + kb.populated + o
      BY <3>t, <3>g DEF Ky!ChunkOffsets
    <3> HIDE DEF bytes
    <3>3. /\ RingShape(w) /\ Holds(w) /\ \A f \in KbFields \ {"buf"} : w[f] = kb[f]
          /\ kb.populated + KEY_BUF_CHUNK_SIZE <= ringSize
          /\ \A j \in kb.populated .. kb.populated + KEY_BUF_CHUNK_SIZE - 1 :
               w.buf[(kb.start + j) % ringSize] = bytes[j - kb.populated]
      BY <3>t, <3>2, WriteOK
    <3>4. Chunked(kb.populated + KEY_BUF_CHUNK_SIZE)
      BY <3>t, RingSize
    <3>5. kb' = [w EXCEPT !.at = "check", !.populated = w.populated + KEY_BUF_CHUNK_SIZE]
      BY <2>2 DEF bytes
    <3> HIDE DEF w
    <3>6. /\ DOMAIN kb' = KbFields /\ kb'.at = "check" /\ kb'.populated = w.populated + KEY_BUF_CHUNK_SIZE
          /\ \A f \in KbFields \ {"at", "populated"} : kb'[f] = w[f]
      BY <3>3, <3>5 DEF RingShape, KbFields
    <3>7. /\ kb'.buf = w.buf /\ kb'.min = kb.min /\ kb'.start = kb.start /\ kb'.last = kb.last
          /\ kb'.populated = kb.populated + KEY_BUF_CHUNK_SIZE /\ kb'.copied = kb.copied
      BY <3>3, <3>6 DEF KbFields
    <3>8. RingShape(kb')
      <4>1. kb'.populated \in 0 .. ringSize /\ Chunked(kb'.populated)
        BY <3>t, <3>g, <3>3, <3>4, <3>7
      <4>2. kb'.buf \in [0 .. ringSize - 1 -> Int] /\ kb'.last \in Nat
        BY <3>t, <3>3, <3>7 DEF RingShape
      <4> QED
        BY <3>t, <3>6, <3>7, <4>1, <4>2 DEF RingShape
    <3>9. ASSUME NEW j \in 0 .. kb.populated + KEY_BUF_CHUNK_SIZE - 1
          PROVE  w.buf[(kb.start + j) % ringSize] = kb.min + j
      <4>0. j \in Int /\ kb.populated \in Int
        BY <3>t
      <4>1. CASE j < kb.populated
        <5>1. w.min = kb.min /\ w.start = kb.start /\ w.populated = kb.populated
          BY <3>3 DEF KbFields
        <5> QED
          BY <3>3, <3>t, <3>g, <4>1, <5>1 DEF Holds
      <4>2. CASE j >= kb.populated
        <5>1. j - kb.populated \in 0 .. KEY_BUF_CHUNK_SIZE - 1 /\ j \in kb.populated .. kb.populated + KEY_BUF_CHUNK_SIZE - 1
          BY <3>t, <3>g, <4>2
        <5>2. bytes[j - kb.populated] = kb.min + kb.populated + (j - kb.populated)
          BY <3>2, <5>1
        <5> QED
          BY <3>3, <3>t, <3>g, <4>0, <5>1, <5>2
      <4> QED
        BY <4>0, <4>1, <4>2
    <3>10. Holds(kb')
      <4>1. SUFFICES ASSUME NEW j \in 0 .. kb'.populated - 1
                     PROVE  kb'.buf[(kb'.start + j) % ringSize] = kb'.min + j
        BY DEF Holds
      <4>2. j \in 0 .. kb.populated + KEY_BUF_CHUNK_SIZE - 1
        BY <3>t, <3>g, <3>7
      <4> QED
        BY <3>7, <3>9, <4>2
    <3>11. RingOK'
      BY <1>f, <3>6, <3>7, <3>8, <3>10 DEF RingOK, RingShape, Holds
    <3> QED
      BY <1>4, <1>r, <1>s, <3>11 DEF Ky!gkcrypt_generate_next_chunk
  <2> QED
    BY <1>4, <2>1, <2>2 DEF Ky!gkcrypt_generate_next_chunk
<1>5. CASE Ky!KeyBufSignal
  <2>1. kb' = [kb EXCEPT !.signal = FALSE, !.at = Ky!Wake(kb)] /\ (Ky!Wake(kb) = "generating" => kb.at = "generating")
    BY <1>5 DEF Ky!KeyBufSignal, Ky!Wake
  <2>2. RingOK'
    BY <1>f, <2>1, RingSame DEF KbFields
  <2> QED
    BY <1>5, <1>r, <1>s, <2>2 DEF Ky!KeyBufSignal
<1>6. CASE Ky!chiaki_gkcrypt_fini
  <2>1. Ky!Wake(kb) = "generating" => kb.at = "generating"
    BY DEF Ky!Wake
  <2>2. CASE kb' = [kb EXCEPT !.owner = "stopped", !.stop = TRUE]
    <3>1. RingOK'
      BY <1>f, <2>2, RingSame DEF KbFields
    <3> QED
      BY <1>6, <1>r, <1>s, <3>1 DEF Ky!chiaki_gkcrypt_fini
  <2>3. CASE kb' = [kb EXCEPT !.owner = "joins", !.at = Ky!Wake(kb)]
    <3>1. RingOK'
      BY <1>f, <2>1, <2>3, RingSame DEF KbFields
    <3> QED
      BY <1>6, <1>r, <1>s, <3>1 DEF Ky!chiaki_gkcrypt_fini
  <2>4. CASE kb' = [kb EXCEPT !.owner = "done"]
    <3>1. RingOK'
      BY <1>f, <2>4, RingSame DEF KbFields
    <3> QED
      BY <1>6, <1>r, <1>s, <3>1 DEF Ky!chiaki_gkcrypt_fini
  <2> QED
    BY <1>6, <2>2, <2>3, <2>4 DEF Ky!chiaki_gkcrypt_fini
<1>7. ASSUME NEW pos \in 0 .. MaxKeyPos - 1, NEW n \in Sizes, Ky!chiaki_gkcrypt_get_key_stream(pos, n)
      PROVE  KeysInv'
  <2> DEFINE b == [kb EXCEPT !.last = IF pos + n > @ THEN pos + n ELSE @]
  <2> DEFINE copy == {<<pos + i, b.buf[(pos - b.min + b.start + i) % ringSize]>> : i \in 0 .. n - 1}
  <2>t. /\ kb.min \in Nat /\ kb.populated \in 0 .. ringSize /\ kb.start \in 0 .. ringSize - 1
        /\ ringSize \in Nat \ {0} /\ n \in Nat /\ pos \in Nat /\ Holds(kb)
    BY KeysAssumption, RingSize DEF RingOK, RingShape
  <2>1. /\ b.buf = kb.buf /\ b.min = kb.min /\ b.start = kb.start /\ b.populated = kb.populated /\ b.at = kb.at
        /\ b.last \in Nat /\ DOMAIN b = KbFields
    BY <1>f, <2>t DEF KbFields
  <2>2. kb' = [b EXCEPT !.signal = Ky!gkcrypt_key_buf_should_generate(b),
                        !.copied = IF Ky!InBuffer(b, pos, n) THEN copy ELSE {}]
    BY <1>7 DEF Ky!chiaki_gkcrypt_get_key_stream, ringSize
  <2> HIDE DEF b
  <2>3. ASSUME Ky!InBuffer(b, pos, n) PROVE \A c \in copy : c[1] = c[2]
    <3>1. SUFFICES ASSUME NEW i \in 0 .. n - 1 PROVE pos + i = b.buf[(pos - b.min + b.start + i) % ringSize]
      OBVIOUS
    <3>2. pos - kb.min + i \in 0 .. kb.populated - 1
      BY <2>3, <2>t, <2>1 DEF Ky!InBuffer
    <3>3. kb.buf[(kb.start + (pos - kb.min + i)) % ringSize] = kb.min + (pos - kb.min + i)
      BY <2>t, <3>2 DEF Holds
    <3>4. kb.start + (pos - kb.min + i) = pos - kb.min + kb.start + i /\ kb.min + (pos - kb.min + i) = pos + i
      BY <2>t
    <3> QED
      BY <2>1, <3>3, <3>4
  <2> HIDE DEF copy
  <2>4. /\ DOMAIN kb' = KbFields /\ kb'.copied = (IF Ky!InBuffer(b, pos, n) THEN copy ELSE {})
        /\ kb'.buf = b.buf /\ kb'.min = b.min /\ kb'.start = b.start /\ kb'.populated = b.populated
        /\ kb'.last = b.last /\ kb'.at = b.at
    BY <2>1, <2>2 DEF KbFields
  <2>5. \A c \in kb'.copied : c[1] = c[2]
    BY <2>3, <2>4
  <2>6. RingOK'
    BY <2>1, <2>4, <2>5, RingSame
  <2> QED
    BY <1>7, <1>r, <1>s, <2>6 DEF Ky!chiaki_gkcrypt_get_key_stream
<1>8. CASE Ky!ConsoleSends
  <2>1. PICK p \in kr.newest + 1 .. kr.newest + 2 :
          /\ p <= MaxKeyPos /\ p - kr.prev < KeyHalf
          /\ kr' = [kr EXCEPT !.newest = p, !.air = {q \in kr.air : p - q < KeyHalf} \cup {p}]
    BY <1>8 DEF Ky!ConsoleSends
  <2>2. /\ DOMAIN kr' = DOMAIN kr /\ kr'.newest = p /\ kr'.air = {q \in kr.air : p - q < KeyHalf} \cup {p}
        /\ kr'.prev = kr.prev /\ kr'.read = kr.read
    BY <2>1 DEF RecvOK
  <2>3. RecvOK'
    BY <2>1, <2>2, KeysAssumption DEF RecvOK
  <2> QED
    BY <1>8, <1>k, <1>s, <2>3 DEF Ky!ConsoleSends
<1>9. CASE Ky!PacketComes
  <2>0. PICK p \in kr.air : \E low \in {p % Ky!KeyMod, (p + KeyHalf) % Ky!KeyMod} : Ky!takion_handle_packet_mac(p, low)
    BY <1>9 DEF Ky!PacketComes
  <2>1. PICK low \in {p % Ky!KeyMod, (p + KeyHalf) % Ky!KeyMod} : Ky!takion_handle_packet_mac(p, low)
    BY <2>0
  <2>t. /\ p \in Nat /\ p <= kr.newest /\ kr.newest - p < KeyHalf /\ kr.prev \in Nat /\ kr.newest \in Nat
        /\ kr.prev <= kr.newest /\ kr.newest - kr.prev < KeyHalf /\ KeyHalf \in Nat
    BY KeysAssumption DEF RecvOK
  <2>2. Ky!chiaki_key_state_request_pos(kr.prev, p % Ky!KeyMod) = p
    BY <2>t, RequestPos
  <2> DEFINE pos == Ky!chiaki_key_state_request_pos(kr.prev, low)
  <2>3. kr' = [kr EXCEPT !.prev = IF low = p % Ky!KeyMod /\ pos = p THEN pos ELSE kr.prev, !.air = kr.air \ {p},
                         !.read = IF low = p % Ky!KeyMod THEN {<<p, pos>>} ELSE {}]
    BY <2>1 DEF Ky!takion_handle_packet_mac
  <2>4. low = p % Ky!KeyMod => pos = p
    BY <2>2
  <2> HIDE DEF pos
  <2>5. /\ DOMAIN kr' = DOMAIN kr /\ kr'.newest = kr.newest /\ kr'.air = kr.air \ {p}
        /\ kr'.prev \in {p, kr.prev}
        /\ \A r \in kr'.read : r[1] = r[2]
    BY <2>3, <2>4 DEF RecvOK
  <2>6. RecvOK'
    BY <2>5, <2>t DEF RecvOK
  <2> QED
    BY <1>9, <1>k, <1>s, <2>6 DEF Ky!PacketComes
<1>10. ASSUME NEW n \in Nat PROVE Ky!Advance(n) \in Nat /\ Ky!Advance(n) >= n
  BY KeysAssumption DEF Ky!Advance
<1>11. ASSUME NEW n \in Nat, NEW s, DOMAIN s = DOMAIN ks, s.pos = ks.pos + Ky!Advance(n),
              s.used = ks.used \cup {<<ks.pos, n>>}, \A a \in s.macs : a[2] = Ky!GmacIndex(a[1]), ks' = s
       PROVE  SentOK'
  <2>t. ks.pos \in Nat /\ s.pos \in Nat /\ ks.pos + n <= s.pos /\ ks.pos <= s.pos
    BY <1>10, <1>11 DEF SentOK
  <2>1. \A u \in s.used : u[1] \in Nat /\ u[2] \in Nat /\ u[1] + u[2] <= s.pos
    BY <1>11, <2>t DEF SentOK
  <2>2. Disjoint(s.used)
    BY <1>11, <2>t DEF SentOK, Disjoint
  <2> QED
    BY <1>11, <2>t, <2>1, <2>2 DEF SentOK
<1>12. ASSUME NEW t \in KeySenders, NEW n \in Sizes, Ky!TakePos(t, n) PROVE KeysInv'
  <2>1. /\ DOMAIN ks' = DOMAIN ks /\ ks'.pos = ks.pos + Ky!Advance(n) /\ ks'.used = ks.used \cup {<<ks.pos, n>>}
        /\ ks'.macs = ks.macs
    BY <1>12 DEF Ky!TakePos, Ky!chiaki_takion_crypt_advance_key_pos, SentOK
  <2>2. SentOK'
    BY <1>11, <2>1, KeysAssumption DEF SentOK
  <2> QED
    BY <1>12, <1>k, <1>r, <2>2 DEF Ky!TakePos
<1>13. ASSUME NEW t \in KeySenders, Ky!chiaki_takion_send(t) PROVE KeysInv'
  <2>1. /\ DOMAIN ks' = DOMAIN ks /\ ks'.pos = ks.pos /\ ks'.used = ks.used
        /\ ks'.macs = {<<ks.doing[t][1], Ky!GmacIndex(ks.doing[t][1])>>}
    BY <1>13 DEF Ky!chiaki_takion_send, Ky!chiaki_gkcrypt_gmac, SentOK
  <2>2. SentOK'
    BY <2>1 DEF SentOK
  <2> QED
    BY <1>13, <1>k, <1>r, <2>2 DEF Ky!chiaki_takion_send
<1>14. ASSUME NEW t \in KeySenders, NEW n \in Sizes, Ky!takion_send_feedback_packet(t, n) PROVE KeysInv'
  <2>1. n + BlockSize \in Nat
    BY KeysAssumption
  <2>2. /\ DOMAIN ks' = DOMAIN ks /\ ks'.pos = ks.pos + Ky!Advance(n + BlockSize)
        /\ ks'.used = ks.used \cup {<<ks.pos, n + BlockSize>>}
        /\ ks'.macs = {<<ks.pos, Ky!GmacIndex(ks.pos)>>}
    BY <1>14 DEF Ky!takion_send_feedback_packet, Ky!chiaki_gkcrypt_gmac, Ky!chiaki_takion_crypt_advance_key_pos, SentOK
  <2>3. SentOK'
    BY <1>11, <2>1, <2>2
  <2> QED
    BY <1>14, <1>k, <1>r, <2>3 DEF Ky!takion_send_feedback_packet
<1> QED
  BY <1>1, <1>2, <1>3, <1>4, <1>5, <1>6, <1>7, <1>8, <1>9, <1>12, <1>13, <1>14 DEF Ky!NextKeys, Ky!KeyBufThread

\* The property is the part of the invariant that is about what was used.
LEMMA KeysFollow == KeysInv => KeysAreRight
  BY DEF KeysInv, RingOK, RecvOK, SentOK, Disjoint, KeysAreRight, Ky!KeysAreRight

-----------------------------------------------------------------------------
(* The handshake.                                                           *)

TcFields == {"at", "given", "open", "thread", "ret", "tries", "acks", "remote", "event"}

\* What each step of the handshake may rely on.
TcStages(t) ==
  /\ DOMAIN t = TcFields
  /\ t.at \in {"off", "setup", "ready"} => t.ret = "none" /\ ~t.thread /\ t.event = "none"
  /\ t.at = "off" => ~t.open
  /\ t.at = "setup" /\ ~t.given => ~t.open
  /\ t.at \in {"init", "init_wait", "cookie", "cookie_wait", "connected"} => t.ret = "success"
  /\ t.at # "connected" => t.event # "connected"
  /\ t.ret \notin {"none", "success"} => ~t.thread /\ ~t.open
  /\ t.thread => t.ret = "success"

\* What the client knows of the console is what the console has said.
TcAgree(t, n) ==
  /\ t.at \in {"cookie", "cookie_wait", "connected"} => t.remote = Tc!ConsoleTag /\ n.tag = Tc!ConsoleTag
  /\ t.at = "connected" => n.console = "open"

\* An answer that carries this connection's tag was sent by a console that knows it.
TcAir(n) ==
  /\ DOMAIN n = {"air", "tag", "console", "dups"}
  /\ \A m \in n.air :
       /\ m.kind \in {"init_ack", "bad_init_ack"} /\ m.tag = 1 => m.seq = Tc!ConsoleTag /\ n.tag = Tc!ConsoleTag
       /\ m.kind = "cookie_ack" /\ m.tag = 1 => n.console = "open"

\* What the client and the network know of each other.
ConnectInv == TcStages(tc) /\ TcAgree(tc, tcnet) /\ TcAir(tcnet)

\* Nothing has been sent.
LEMMA ConnectInit == Tc!InitConnect => ConnectInv
  BY DEF Tc!InitConnect, ConnectInv, TcStages, TcAgree, TcAir, TcFields

\* The thread gives up: what it opened is closed.
LEMMA TcGivesUp ==
  ASSUME NEW t, TcStages(t), t.at \in {"init", "init_wait", "cookie", "cookie_wait"}, NEW n
  PROVE  TcStages(Tc!Failed(t)) /\ TcAgree(Tc!Failed(t), n)
  BY DEF Tc!Failed, TcStages, TcAgree, TcFields

\* The thread sends its message again, unless it has tried often enough.
LEMMA TcTriesAgain ==
  ASSUME NEW t, NEW n, TcStages(t), TcAgree(t, n),
         NEW at, (t.at = "init_wait" /\ at = "init") \/ (t.at = "cookie_wait" /\ at = "cookie")
  PROVE  TcStages(Tc!TryAgain(t, at)) /\ TcAgree(Tc!TryAgain(t, at), n)
<1>1. CASE t.tries < MAX_CONNECT_RESEND_TRIES
  <2> DEFINE q == [t EXCEPT !.at = at]
  <2>1. DOMAIN q = TcFields /\ q.at = at /\ \A f \in TcFields \ {"at"} : q[f] = t[f]
    BY DEF TcStages, TcFields
  <2> HIDE DEF q
  <2>2. q.ret = t.ret /\ q.thread = t.thread /\ q.open = t.open /\ q.event = t.event /\ q.remote = t.remote /\ q.given = t.given
    BY <2>1 DEF TcFields
  <2>3. TcStages(q) /\ TcAgree(q, n)
    BY <2>1, <2>2 DEF TcStages, TcAgree
  <2> QED
    BY <1>1, <2>3 DEF Tc!TryAgain, q
<1>2. CASE ~(t.tries < MAX_CONNECT_RESEND_TRIES)
  BY <1>2, TcGivesUp DEF Tc!TryAgain
<1> QED
  BY <1>1, <1>2

\* Every step of the client, of the console and of the network.
LEMMA ConnectStep == ConnectInv /\ [Tc!NextConnect]_connect => ConnectInv'
<1> SUFFICES ASSUME ConnectInv, [Tc!NextConnect]_connect PROVE ConnectInv'
  OBVIOUS
<1>0. TcStages(tc) /\ TcAgree(tc, tcnet) /\ TcAir(tcnet)
  BY DEF ConnectInv
<1>g. ASSUME TcStages(tc'), TcAgree(tc', tcnet'), TcAir(tcnet') PROVE ConnectInv'
  BY <1>g DEF ConnectInv, TcStages, TcAgree, TcAir
<1>n. ASSUME UNCHANGED tcnet PROVE TcAir(tcnet')
  BY <1>0, <1>n
<1>1. CASE UNCHANGED connect
  BY <1>0, <1>1 DEF connect, ConnectInv, TcStages, TcAgree, TcAir
<1>2. CASE Tc!chiaki_takion_connect
  <2>1. TcStages(tc') /\ TcAgree(tc', tcnet')
    BY <1>0, <1>2 DEF Tc!chiaki_takion_connect, TcStages, TcAgree, TcFields
  <2>2. PICK stale \in SUBSET {[kind |-> "init_ack", tag |-> 0, seq |-> 0], [kind |-> "cookie_ack", tag |-> 0, seq |-> 0]} :
          tcnet' = [tcnet EXCEPT !.air = stale]
    BY <1>2 DEF Tc!chiaki_takion_connect
  <2>3. tcnet'.air = stale /\ DOMAIN tcnet' = DOMAIN tcnet /\ \A m \in stale : m.tag = 0
    BY <1>0, <2>2 DEF TcAir
  <2>4. TcAir(tcnet')
    BY <1>0, <2>3 DEF TcAir
  <2> QED
    BY <1>g, <2>1, <2>4
<1>3. CASE Tc!takion_read_extra_sock_messages
  <2>1. CASE \E m \in tcnet.air : tcnet' = [tcnet EXCEPT !.air = @ \ {m}] /\ UNCHANGED tc
    <3>1. TcStages(tc')
      BY <1>0, <2>1
    <3>2. TcAgree(tc', tcnet')
      BY <1>0, <1>3, <2>1 DEF TcAgree, TcAir, Tc!takion_read_extra_sock_messages
    <3>3. TcAir(tcnet')
      BY <1>0, <2>1 DEF TcAir
    <3> QED
      BY <1>g, <3>1, <3>2, <3>3
  <2>2. CASE Tc!Become([tc EXCEPT !.at = "ready"]) \/ Tc!ErrorSock("success")
    <3>1. TcStages(tc')
      BY <1>0, <1>3, <2>2 DEF Tc!takion_read_extra_sock_messages, Tc!Become, Tc!ErrorSock, TcStages, TcFields
    <3>2. TcAgree(tc', tcnet') /\ UNCHANGED tcnet
      BY <1>0, <1>3, <2>2 DEF Tc!takion_read_extra_sock_messages, Tc!Become, Tc!ErrorSock, TcStages, TcAgree, TcFields
    <3> QED
      BY <1>g, <1>n, <3>1, <3>2
  <2> QED
    BY <1>3, <2>1, <2>2 DEF Tc!takion_read_extra_sock_messages
<1>4. CASE Tc!OpenSocket
  <2>1. TcStages(tc')
    BY <1>0, <1>4 DEF Tc!OpenSocket, Tc!Become, TcStages, TcFields
  <2>2. TcAgree(tc', tcnet') /\ UNCHANGED tcnet
    BY <1>0, <1>4 DEF Tc!OpenSocket, Tc!Become, TcStages, TcAgree, TcFields
  <2> QED
    BY <1>g, <1>n, <2>1, <2>2
<1>5. CASE Tc!SocketOptions
  <2>1. TcStages(tc')
    BY <1>0, <1>5 DEF Tc!SocketOptions, Tc!Become, Tc!ErrorSock, TcStages, TcFields
  <2>2. TcAgree(tc', tcnet') /\ UNCHANGED tcnet
    BY <1>0, <1>5 DEF Tc!SocketOptions, Tc!Become, Tc!ErrorSock, TcStages, TcAgree, TcFields
  <2> QED
    BY <1>g, <1>n, <2>1, <2>2
<1>6. ASSUME NEW at, NEW wait, NEW msg, Tc!SendFrom(at, wait, msg), msg.kind \in {"init", "cookie"},
             (at = "init" /\ wait = "init_wait") \/ (at = "cookie" /\ wait = "cookie_wait")
      PROVE  ConnectInv'
  <2>1. CASE tc' = [tc EXCEPT !.at = wait, !.tries = @ + 1, !.acks = 0] /\ tcnet' = [tcnet EXCEPT !.air = @ \cup {msg}]
    <3>0. tc.at = at
      BY <1>6 DEF Tc!SendFrom
    <3>1. TcStages(tc')
      BY <1>0, <1>6, <2>1, <3>0 DEF TcStages, TcFields
    <3>2. tc'.at = wait /\ tc'.remote = tc.remote /\ tcnet'.tag = tcnet.tag /\ tcnet'.console = tcnet.console
          /\ tcnet'.air = tcnet.air \cup {msg} /\ DOMAIN tcnet' = DOMAIN tcnet
      BY <1>0, <2>1 DEF TcStages, TcFields, TcAir
    <3>3. TcAgree(tc', tcnet')
      BY <1>0, <1>6, <3>0, <3>2 DEF TcAgree
    <3>4. TcAir(tcnet')
      BY <1>0, <1>6, <3>2 DEF TcAir
    <3> QED
      BY <1>g, <3>1, <3>3, <3>4
  <2>2. CASE Tc!Become(Tc!Failed(tc))
    <3>1. tc' = Tc!Failed(tc) /\ UNCHANGED tcnet /\ tc.at \in {"init", "init_wait", "cookie", "cookie_wait"}
      BY <1>6, <2>2 DEF Tc!Become, Tc!SendFrom
    <3> QED
      BY <1>0, <1>g, <1>n, <3>1, TcGivesUp
  <2> QED
    BY <1>6, <2>1, <2>2 DEF Tc!SendFrom
<1>7. CASE Tc!takion_send_message_init
  <2> DEFINE msg == [kind |-> "init", tag |-> 1, seq |-> 0]
  <2>1. Tc!SendFrom("init", "init_wait", msg) /\ msg.kind = "init"
    BY <1>7 DEF Tc!takion_send_message_init
  <2> HIDE DEF msg
  <2> QED
    BY <1>6, <2>1
<1>8. CASE Tc!takion_send_message_cookie
  <2> DEFINE msg == [kind |-> "cookie", tag |-> tc.remote, seq |-> 0]
  <2>1. Tc!SendFrom("cookie", "cookie_wait", msg) /\ msg.kind = "cookie"
    BY <1>8 DEF Tc!takion_send_message_cookie
  <2> HIDE DEF msg
  <2> QED
    BY <1>6, <2>1
<1>9. CASE Tc!TakionRecvTimeout
  <2>1. CASE tc.at = "init_wait"
    <3>1. tc' = Tc!TryAgain(tc, "init") /\ UNCHANGED tcnet
      BY <1>9, <2>1 DEF Tc!TakionRecvTimeout, Tc!Become
    <3>2. TcStages(Tc!TryAgain(tc, "init")) /\ TcAgree(Tc!TryAgain(tc, "init"), tcnet)
      BY <1>0, <2>1, TcTriesAgain
    <3> QED
      BY <1>g, <1>n, <3>1, <3>2
  <2>2. CASE tc.at = "cookie_wait"
    <3>1. tc' = Tc!TryAgain(tc, "cookie") /\ UNCHANGED tcnet
      BY <1>9, <2>2 DEF Tc!TakionRecvTimeout, Tc!Become
    <3>2. TcStages(Tc!TryAgain(tc, "cookie")) /\ TcAgree(Tc!TryAgain(tc, "cookie"), tcnet)
      BY <1>0, <2>2, TcTriesAgain
    <3> QED
      BY <1>g, <1>n, <3>1, <3>2
  <2> QED
    BY <1>9, <2>1, <2>2 DEF Tc!TakionRecvTimeout
<1>10. ASSUME NEW m \in tcnet.air, Tc!TakionRecv(m) PROVE ConnectInv'
  <2>1. /\ tcnet'.air = tcnet.air \ {m} /\ tcnet'.tag = tcnet.tag /\ tcnet'.console = tcnet.console
        /\ DOMAIN tcnet' = DOMAIN tcnet
    BY <1>0, <1>10 DEF Tc!TakionRecv, TcAir
  <2>2. TcAir(tcnet')
    BY <1>0, <2>1 DEF TcAir
  <2>3. TcAgree(tc, tcnet')
    BY <1>0, <2>1 DEF TcAgree
  <2>4. CASE Tc!takion_recv_message_init_ack(m)
    <3>1. CASE Tc!IsOurs(m) /\ m.kind \in {"init_ack", "bad_init_ack"} /\ tc' = Tc!Agreed(m)
      <4>1. m.seq = Tc!ConsoleTag /\ tcnet'.tag = Tc!ConsoleTag
        BY <1>0, <2>1, <3>1 DEF TcAir, Tc!IsOurs
      <4>2. CASE m.kind = "bad_init_ack"
        BY <1>0, <1>g, <2>2, <2>4, <3>1, <4>2, TcGivesUp DEF Tc!Agreed, Tc!takion_recv_message_init_ack
      <4>3. CASE m.kind # "bad_init_ack"
        <5>1. tc' = [tc EXCEPT !.at = "cookie", !.tries = 0, !.remote = m.seq] /\ tc.at = "init_wait"
          BY <2>4, <3>1, <4>3 DEF Tc!Agreed, Tc!takion_recv_message_init_ack
        <5>2. TcStages(tc')
          BY <1>0, <5>1 DEF TcStages, TcFields
        <5>3. TcAgree(tc', tcnet')
          BY <1>0, <4>1, <5>1 DEF TcStages, TcFields, TcAgree
        <5> QED
          BY <1>g, <2>2, <5>2, <5>3
      <4> QED
        BY <4>2, <4>3
    <3>2. CASE tc' = Tc!TryAgain(tc, "init")
      <4>1. tc.at = "init_wait"
        BY <2>4 DEF Tc!takion_recv_message_init_ack
      <4>2. TcStages(Tc!TryAgain(tc, "init")) /\ TcAgree(Tc!TryAgain(tc, "init"), tcnet')
        BY <1>0, <2>3, <4>1, TcTriesAgain
      <4> QED
        BY <1>g, <2>2, <3>2, <4>2
    <3> QED
      BY <2>4, <3>1, <3>2 DEF Tc!takion_recv_message_init_ack
  <2>5. CASE Tc!takion_recv_message_cookie_ack(m)
    <3>1. CASE tc' = [tc EXCEPT !.acks = 1]
      <4>1. TcStages(tc')
        BY <1>0, <3>1 DEF TcStages, TcFields
      <4>2. TcAgree(tc', tcnet')
        BY <1>0, <2>3, <3>1 DEF TcStages, TcFields, TcAgree
      <4> QED
        BY <1>g, <2>2, <4>1, <4>2
    <3>2. CASE Tc!IsOurs(m) /\ m.kind = "cookie_ack" /\ tc' = [tc EXCEPT !.at = "connected", !.event = "connected"]
      <4>1. tcnet'.console = "open" /\ tc.at = "cookie_wait"
        BY <1>0, <2>1, <2>5, <3>2 DEF TcAir, Tc!IsOurs, Tc!takion_recv_message_cookie_ack
      <4>2. TcStages(tc')
        BY <1>0, <3>2, <4>1 DEF TcStages, TcFields
      <4>3. TcAgree(tc', tcnet')
        BY <1>0, <2>3, <3>2, <4>1 DEF TcStages, TcFields, TcAgree
      <4> QED
        BY <1>g, <2>2, <4>2, <4>3
    <3>3. CASE tc' = Tc!TryAgain(tc, "cookie")
      <4>1. tc.at = "cookie_wait"
        BY <2>5 DEF Tc!takion_recv_message_cookie_ack
      <4>2. TcStages(Tc!TryAgain(tc, "cookie")) /\ TcAgree(Tc!TryAgain(tc, "cookie"), tcnet')
        BY <1>0, <2>3, <4>1, TcTriesAgain
      <4> QED
        BY <1>g, <2>2, <3>3, <4>2
    <3> QED
      BY <2>5, <3>1, <3>2, <3>3 DEF Tc!takion_recv_message_cookie_ack
  <2> QED
    BY <1>10, <2>4, <2>5 DEF Tc!TakionRecv
<1>11. ASSUME UNCHANGED tc, TcAir(tcnet'), tcnet.console = "open" => tcnet'.console = "open",
              tcnet'.tag = Tc!ConsoleTag \/ tcnet'.tag = tcnet.tag
       PROVE  ConnectInv'
  <2>1. TcAgree(tc', tcnet')
    BY <1>0, <1>11 DEF TcAgree
  <2> QED
    BY <1>0, <1>g, <1>11, <2>1
<1>12. ASSUME NEW m \in tcnet.air, Tc!ConsoleAnswers(m) PROVE ConnectInv'
  <2>1. ASSUME NEW answer, NEW console, Tc!Answered(m, answer, console),
               answer.kind = "cookie_ack" \/ answer.seq = Tc!ConsoleTag,
               answer.kind = "cookie_ack" \/ tcnet.console = "open" => console = "open",
               answer.kind \in {"init_ack", "bad_init_ack", "cookie_ack"}
        PROVE  ConnectInv'
    <3>1. /\ tcnet'.air = (tcnet.air \ {m}) \cup {answer} /\ tcnet'.tag = Tc!ConsoleTag /\ tcnet'.console = console
          /\ DOMAIN tcnet' = DOMAIN tcnet
      BY <1>0, <2>1 DEF Tc!Answered, TcAir
    <3>2. TcAir(tcnet')
      BY <1>0, <2>1, <3>1 DEF TcAir
    <3> QED
      BY <1>11, <1>12, <2>1, <3>1, <3>2 DEF Tc!ConsoleAnswers
  <2>2. CASE m.kind = "init"
    <3>1. PICK k \in {"init_ack", "bad_init_ack"} :
            Tc!Answered(m, [kind |-> k, tag |-> m.tag, seq |-> Tc!ConsoleTag], IF tcnet.console = "open" THEN "open" ELSE "asked")
      BY <1>12, <2>2 DEF Tc!ConsoleAnswers
    <3> DEFINE answer == [kind |-> k, tag |-> m.tag, seq |-> Tc!ConsoleTag]
    <3> DEFINE console == IF tcnet.console = "open" THEN "open" ELSE "asked"
    <3>2. Tc!Answered(m, answer, console) /\ answer.kind = k /\ answer.seq = Tc!ConsoleTag /\ (tcnet.console = "open" => console = "open")
      BY <3>1
    <3> HIDE DEF answer, console
    <3> QED
      BY <2>1, <3>2
  <2>3. CASE m.kind # "init"
    <3> DEFINE answer == [kind |-> "cookie_ack", tag |-> 1, seq |-> 0]
    <3>1. Tc!Answered(m, answer, "open") /\ answer.kind = "cookie_ack"
      BY <1>12, <2>3 DEF Tc!ConsoleAnswers
    <3> HIDE DEF answer
    <3> QED
      BY <2>1, <3>1
  <2> QED
    BY <2>2, <2>3
<1>13. ASSUME NEW m \in tcnet.air, Tc!NetworkRepeats(m) PROVE ConnectInv'
  <2>1. CASE /\ m.kind = "init"
             /\ tcnet' = [tcnet EXCEPT !.dups = @ + 1, !.tag = Tc!ConsoleTag, !.console = IF @ = "open" THEN "open" ELSE "asked",
                            !.air = @ \cup {[kind |-> "init_ack", tag |-> m.tag, seq |-> Tc!ConsoleTag]}]
    <3>1. /\ tcnet'.air = tcnet.air \cup {[kind |-> "init_ack", tag |-> m.tag, seq |-> Tc!ConsoleTag]}
          /\ tcnet'.tag = Tc!ConsoleTag /\ (tcnet.console = "open" => tcnet'.console = "open") /\ DOMAIN tcnet' = DOMAIN tcnet
      BY <1>0, <2>1 DEF TcAir
    <3>2. TcAir(tcnet')
      BY <1>0, <3>1 DEF TcAir
    <3> QED
      BY <1>11, <1>13, <3>1, <3>2 DEF Tc!NetworkRepeats
  <2>2. CASE tcnet' = [tcnet EXCEPT !.dups = @ + 1, !.console = "open", !.air = @ \cup {[kind |-> "cookie_ack", tag |-> 1, seq |-> 0]}]
    <3>1. /\ tcnet'.air = tcnet.air \cup {[kind |-> "cookie_ack", tag |-> 1, seq |-> 0]}
          /\ tcnet'.tag = tcnet.tag /\ tcnet'.console = "open" /\ DOMAIN tcnet' = DOMAIN tcnet
      BY <1>0, <2>2 DEF TcAir
    <3>2. TcAir(tcnet')
      BY <1>0, <3>1 DEF TcAir
    <3> QED
      BY <1>11, <1>13, <3>1, <3>2 DEF Tc!NetworkRepeats
  <2> QED
    BY <1>13, <2>1, <2>2 DEF Tc!NetworkRepeats
<1> QED
  BY <1>1, <1>2, <1>3, <1>4, <1>5, <1>7, <1>8, <1>9, <1>10, <1>12, <1>13
     DEF Tc!NextConnect, Tc!ConnectCall, Tc!HandshakeThread

\* A handshake that succeeded did so with the console of this connection.
LEMMA ConnectFollows == ConnectInv => Tc!HandshakeIsMutual
  BY DEF ConnectInv, TcStages, TcAgree, Tc!HandshakeIsMutual

-----------------------------------------------------------------------------
(* The bandwidth test.                                                      *)

SkFields == {"at", "cloud", "skip", "fin", "n", "echoed", "pings", "pongs", "min", "max", "cur", "attempt",
             "mtuIn", "mtuOut", "err", "timely"}

\* The fields of run and their ranges.
SkShape(r) ==
  /\ DOMAIN r = SkFields
  /\ r.n \in Nat /\ r.pongs \in Nat /\ r.min \in Nat /\ r.max \in Nat /\ r.cur \in Nat
  /\ r.mtuIn \in Nat /\ r.mtuOut \in Nat

\* The network lets packets of the least size pass.
PathOK(n) == DOMAIN n = {"air", "in", "out"} /\ n.in \in Nat /\ n.out \in Nat /\ MinMtu <= n.in /\ MinMtu <= n.out

\* What has been reported, if anything has.
Results(r, n) ==
  /\ r.mtuIn > 0 => /\ MinMtu <= r.mtuIn /\ r.mtuIn <= n.in /\ r.mtuIn <= MaxMtu
                    /\ r.timely => r.mtuIn = Sk!Least(n.in, MaxMtu)
  /\ r.mtuOut > 0 => /\ MinMtu <= r.mtuOut /\ r.mtuOut <= n.out
                     /\ r.timely => r.mtuOut \in {Sk!Least(n.out, MaxMtu), Sk!Least(n.out, MaxMtu) - 1}

\* What has been measured at each stage.
Measured(r) ==
  /\ r.at \in {"mtu_in", "client", "mtu_out", "client_end"} => r.pongs > 0
  /\ r.at \in {"client", "mtu_out", "client_end"} => r.mtuIn > 0
  /\ r.at = "client_end" => r.mtuOut > 0
  /\ r.at \in {"disconnect", "close", "over"} /\ ~r.err => r.pongs > 0 /\ (r.skip \/ (r.mtuIn > 0 /\ r.mtuOut > 0))

\* The bisection: what passes is at least min; and if all answers came in time less than
\* max, or max is still the largest size there is.
Bounds(r, limit) == MinMtu <= r.min /\ r.min <= r.cur /\ r.cur <= r.max /\ r.max <= MaxMtu /\ r.min <= limit

\* From the console, the largest size is tried first.
BisectsIn(r, n) == Bounds(r, n.in) /\ (r.timely => r.max > n.in \/ (r.cur = MaxMtu /\ r.max = MaxMtu))

\* To the console, the largest size from the console is tried first.
BisectsOut(r, n) == Bounds(r, n.out) /\ (r.timely => r.max > n.out \/ r.max = MaxMtu)

\* The answer to the last probe says that it passed, and is on its way if it did.
Answers(r, n, kind, limit) ==
  /\ r.fin => r.cur <= limit
  /\ \A a \in n.air : a[1] = kind /\ a[2] = r.n => r.cur <= limit
  /\ r.timely /\ ~r.fin /\ r.cur <= limit => \E a \in n.air : a[1] = kind /\ a[2] = r.n

\* The two bisections, each with the answers it gets.
Probes(r, n) ==
  /\ r.at = "mtu_in" => BisectsIn(r, n) /\ Answers(r, n, "mtu", n.in)
  /\ r.at = "mtu_out" => BisectsOut(r, n) /\ Answers(r, n, "pong", n.out)

\* An answer under way has the number of a request that was made.
Numbers(r, n) == \A a \in n.air : a[1] \in {"pong", "mtu"} => a[2] \in Nat /\ a[2] <= r.n

\* Everything about a state r of run and a state n of the network.
SkInv(r, n) ==
  /\ SkShape(r) /\ Results(r, n) /\ Measured(r) /\ Probes(r, n) /\ Numbers(r, n)
  /\ IF r.at = "off" THEN r.mtuIn = 0 /\ r.mtuOut = 0 /\ DOMAIN n = {"air", "in", "out"} /\ n.in = 0 /\ n.out = 0 ELSE PathOK(n)

SenkushaInv == SkInv(sk, sknet)

\* Nothing has been measured.
LEMMA SenkushaInit == Sk!InitSenkusha => SenkushaInv
  BY DEF Sk!InitSenkusha, SenkushaInv, SkInv, SkShape, Results, Measured, Probes, Numbers, SkFields

\* What was reported is what the property asks of it.
LEMMA SenkushaFollows == SenkushaInv => Sk!MtuIsReal
<1> SUFFICES ASSUME SenkushaInv PROVE Sk!MtuIsReal
  OBVIOUS
<1>1. sk.mtuIn \in Nat /\ sk.mtuOut \in Nat /\ sknet.in \in Nat /\ sknet.out \in Nat /\ Results(sk, sknet) /\ Measured(sk)
  BY DEF SenkushaInv, SkInv, SkShape, PathOK
<1> QED
  BY <1>1 DEF Sk!MtuIsReal, Results, Measured

\* What is reported stays true when answers turn out to be late.
LEMMA ResultsKept ==
  ASSUME NEW r, NEW q, NEW n, Results(r, n), q.mtuIn = r.mtuIn, q.mtuOut = r.mtuOut, q.timely => r.timely
  PROVE  Results(q, n)
  BY DEF Results

\* A wait that ended: only timely may have changed.
LEMMA WaitedFacts ==
  ASSUME SkShape(sk), NEW at
  PROVE  LET w == Sk!Waited(at) IN
         /\ DOMAIN w = SkFields /\ \A f \in SkFields \ {"timely"} : w[f] = sk[f]
         /\ w.timely => sk.timely
         /\ w.timely /\ ~sk.fin => ~Sk!Late
<1>1. CASE sk.fin
  BY <1>1 DEF Sk!Waited, SkShape
<1>2. CASE ~sk.fin
  <2>1. Sk!Waited(at) = [sk EXCEPT !.timely = sk.timely /\ ~Sk!Late]
    BY <1>2 DEF Sk!Waited
  <2>2. [sk EXCEPT !.timely = sk.timely /\ ~Sk!Late].timely <=> (sk.timely /\ ~Sk!Late)
    BY DEF SkShape, SkFields
  <2>3. /\ DOMAIN [sk EXCEPT !.timely = sk.timely /\ ~Sk!Late] = SkFields
        /\ \A f \in SkFields \ {"timely"} : [sk EXCEPT !.timely = sk.timely /\ ~Sk!Late][f] = sk[f]
    BY DEF SkShape, SkFields
  <2> QED
    BY <2>1, <2>2, <2>3
<1> QED
  BY <1>1, <1>2

\* run goes on to its end.
LEMMA SkEnds ==
  ASSUME NEW r, SkShape(r), Results(r, sknet), Numbers(r, sknet), PathOK(sknet),
         NEW q, DOMAIN q = SkFields, q.at \in {"disconnect", "close", "over"}, sk' = q, sknet' = sknet,
         \A f \in SkFields \ {"at", "err", "timely", "fin"} : q[f] = r[f], q.timely => r.timely,
         ~q.err => r.pongs > 0 /\ (r.skip \/ (r.mtuIn > 0 /\ r.mtuOut > 0))
  PROVE  SenkushaInv'
<1>1. /\ q.n = r.n /\ q.pongs = r.pongs /\ q.min = r.min /\ q.max = r.max /\ q.cur = r.cur /\ q.mtuIn = r.mtuIn
      /\ q.mtuOut = r.mtuOut /\ q.skip = r.skip
  BY DEF SkFields
<1>2. SkShape(q)
  BY <1>1 DEF SkShape
<1>3. Results(q, sknet)
  BY <1>1, ResultsKept
<1>4. Measured(q) /\ Probes(q, sknet) /\ Numbers(q, sknet)
  BY <1>1 DEF Measured, Probes, Numbers
<1>5. SkInv(q, sknet)
  BY <1>2, <1>3, <1>4 DEF SkInv
<1> QED
  BY <1>5 DEF SenkushaInv

\* run does not get an answer it needs.
LEMMA GiveUpOK ==
  ASSUME SenkushaInv, sk.at # "off", NEW at, NEW to \in {"disconnect", "close"}, Sk!GiveUp(at, to)
  PROVE  SenkushaInv'
<1> DEFINE w == Sk!Waited(at)
<1>1. SkShape(sk) /\ Results(sk, sknet) /\ Numbers(sk, sknet) /\ PathOK(sknet)
  BY DEF SenkushaInv, SkInv
<1>2. DOMAIN w = SkFields /\ (\A f \in SkFields \ {"timely"} : w[f] = sk[f]) /\ (w.timely => sk.timely)
  BY <1>1, WaitedFacts
<1>3. sk' = [w EXCEPT !.at = to, !.err = TRUE] /\ sknet' = sknet
  BY DEF Sk!GiveUp
<1> HIDE DEF w
<1>4. /\ DOMAIN sk' = SkFields /\ sk'.at = to /\ sk'.err
      /\ \A f \in SkFields \ {"at", "err", "timely", "fin"} : sk'[f] = sk[f]
      /\ sk'.timely => sk.timely
  BY <1>2, <1>3 DEF SkFields
<1>5. sk'.at \in {"disconnect", "close", "over"} /\ (~sk'.err => sk.pongs > 0 /\ (sk.skip \/ (sk.mtuIn > 0 /\ sk.mtuOut > 0)))
  BY <1>4
<1> QED
  BY <1>1, <1>3, <1>4, <1>5, SkEnds, Zenon

\* The answers under way: the new ones, and late ones of earlier requests.
LEMMA UnderWayFacts ==
  ASSUME NEW answers, NEW air \in Sk!UnderWay(answers)
  PROVE  answers \subseteq air /\ \A a \in air : a \in answers \/ (a \in sknet.air /\ a[1] \in {"pong", "mtu"})
  BY DEF Sk!UnderWay

\* What run knows when it sends its next message.
Ready(r) ==
  /\ SkShape(r) /\ Results(r, sknet) /\ Numbers(r, sknet) /\ PathOK(sknet)

\* A message is sent, and run waits for its answers; or it cannot be sent.
LEMMA SendsOK ==
  ASSUME NEW r, Ready(r), NEW at, at # "off", NEW answers, NEW failed \in {"disconnect", "close"},
         Sk!Sends(r, at, answers, failed),
         \A a \in answers : a[1] \in {"pong", "mtu"} => a[2] = r.n + 1,
         at \notin {"disconnect", "close", "over", "mtu_out"},
         at \in {"mtu_in", "client", "client_end"} => r.pongs > 0,
         at \in {"client", "client_end"} => r.mtuIn > 0,
         at = "client_end" => r.mtuOut > 0,
         at = "mtu_in" => BisectsIn(r, sknet) /\ answers = IF r.cur <= sknet.in THEN {<<"mtu", r.n + 1>>} ELSE {}
  PROVE  SenkushaInv'
<1>0. SkShape(r) /\ Results(r, sknet) /\ Numbers(r, sknet) /\ PathOK(sknet)
  BY DEF Ready
<1>1. CASE sk' = [r EXCEPT !.at = failed, !.err = TRUE, !.timely = FALSE] /\ UNCHANGED sknet
  <2>1. /\ DOMAIN sk' = SkFields /\ sk'.at = failed /\ sk'.err /\ ~sk'.timely
        /\ \A f \in SkFields \ {"at", "err", "timely", "fin"} : sk'[f] = r[f]
    BY <1>0, <1>1 DEF SkShape, SkFields
  <2> QED
    BY <1>0, <1>1, <2>1, SkEnds
<1>2. CASE /\ sk' = [r EXCEPT !.at = at, !.fin = FALSE, !.n = @ + 1]
           /\ \E air \in Sk!UnderWay(answers) : sknet' = [sknet EXCEPT !.air = air]
  <2>1. PICK air \in Sk!UnderWay(answers) : sknet' = [sknet EXCEPT !.air = air]
    BY <1>2
  <2>2. answers \subseteq air /\ \A a \in air : a \in answers \/ (a \in sknet.air /\ a[1] \in {"pong", "mtu"})
    BY UnderWayFacts
  <2>3. sknet'.air = air /\ sknet'.in = sknet.in /\ sknet'.out = sknet.out /\ DOMAIN sknet' = DOMAIN sknet
    BY <1>0, <2>1 DEF PathOK
  <2>4. /\ DOMAIN sk' = SkFields /\ sk'.at = at /\ ~sk'.fin /\ sk'.n = r.n + 1
        /\ \A f \in SkFields \ {"at", "fin", "n"} : sk'[f] = r[f]
    BY <1>0, <1>2 DEF SkShape, SkFields
  <2>5. /\ sk'.pongs = r.pongs /\ sk'.min = r.min /\ sk'.max = r.max /\ sk'.cur = r.cur /\ sk'.mtuIn = r.mtuIn
        /\ sk'.mtuOut = r.mtuOut /\ sk'.timely = r.timely
    BY <2>4 DEF SkFields
  <2>6. SkShape(sk')
    BY <1>0, <2>4, <2>5 DEF SkShape
  <2>7. Results(sk', sknet')
    BY <1>0, <2>3, <2>5 DEF Results
  <2>8. Measured(sk')
    BY <2>4, <2>5 DEF Measured
  <2>9. Numbers(sk', sknet')
    BY <1>0, <2>2, <2>3, <2>4 DEF Numbers, SkShape
  <2>10. Probes(sk', sknet')
    <3>1. CASE at = "mtu_in"
      <4>1. BisectsIn(sk', sknet')
        BY <2>3, <2>5, <3>1 DEF BisectsIn, Bounds
      <4>2. \A a \in air : a[2] = r.n + 1 /\ a[1] = "mtu" => a \in answers
        BY <1>0, <2>2 DEF Numbers, SkShape
      <4>3. \A a \in air : a[1] = "mtu" /\ a[2] = r.n + 1 => r.cur <= sknet.in
        BY <3>1, <4>2
      <4>4. r.cur <= sknet.in => <<"mtu", r.n + 1>> \in air
        BY <2>2, <3>1
      <4>5. r.cur <= sknet.in => \E a \in air : a[1] = "mtu" /\ a[2] = r.n + 1
        <5>1. <<"mtu", r.n + 1>>[1] = "mtu" /\ <<"mtu", r.n + 1>>[2] = r.n + 1
          OBVIOUS
        <5> QED
          BY <4>4, <5>1
      <4>6. Answers(sk', sknet', "mtu", sknet'.in)
        BY <2>3, <2>4, <2>5, <4>3, <4>5 DEF Answers
      <4> QED
        BY <2>4, <3>1, <4>1, <4>6 DEF Probes
    <3>2. CASE at # "mtu_in"
      BY <2>4, <3>2 DEF Probes
    <3> QED
      BY <3>1, <3>2
  <2>11. PathOK(sknet')
    BY <1>0, <2>3 DEF PathOK
  <2>12. SkInv(sk', sknet')
    BY <2>4, <2>6, <2>7, <2>8, <2>9, <2>10, <2>11 DEF SkInv
  <2> QED
    BY <2>12 DEF SenkushaInv
<1> QED
  BY <1>1, <1>2 DEF Sk!Sends

\* A probe towards the console is sent, or is too large to be sent.
LEMMA AskOutOK ==
  ASSUME NEW r, Ready(r), r.n = sk.n, Sk!AskOut(r), BisectsOut(r, sknet), r.pongs > 0, r.mtuIn > 0
  PROVE  SenkushaInv'
<1>0. SkShape(r) /\ Results(r, sknet) /\ Numbers(r, sknet) /\ PathOK(sknet)
  BY DEF Ready
<1>1. PICK sent \in BOOLEAN :
        /\ sk' = [r EXCEPT !.at = "mtu_out", !.fin = FALSE, !.n = @ + 1, !.timely = @ /\ (sent \/ r.cur > sknet.out)]
        /\ \E air \in Sk!UnderWay(IF sent /\ r.cur <= sknet.out THEN {<<"pong", Sk!Fresh>>} ELSE {}) :
             sknet' = [sknet EXCEPT !.air = air]
  BY DEF Sk!AskOut
<1> DEFINE answers == IF sent /\ r.cur <= sknet.out THEN {<<"pong", r.n + 1>>} ELSE {}
<1>2. PICK air \in Sk!UnderWay(answers) : sknet' = [sknet EXCEPT !.air = air]
  BY <1>1 DEF Sk!Fresh
<1>3. answers \subseteq air /\ \A a \in air : a \in answers \/ (a \in sknet.air /\ a[1] \in {"pong", "mtu"})
  BY UnderWayFacts
<1>4. sknet'.air = air /\ sknet'.in = sknet.in /\ sknet'.out = sknet.out /\ DOMAIN sknet' = DOMAIN sknet
  BY <1>0, <1>2 DEF PathOK
<1>5. /\ DOMAIN sk' = SkFields /\ sk'.at = "mtu_out" /\ ~sk'.fin /\ sk'.n = r.n + 1
      /\ \A f \in SkFields \ {"at", "fin", "n", "timely"} : sk'[f] = r[f]
  BY <1>0, <1>1 DEF SkShape, SkFields
<1>6. sk'.timely <=> (r.timely /\ (sent \/ r.cur > sknet.out))
  BY <1>0, <1>1 DEF SkShape, SkFields
<1>7. /\ sk'.pongs = r.pongs /\ sk'.min = r.min /\ sk'.max = r.max /\ sk'.cur = r.cur /\ sk'.mtuIn = r.mtuIn
      /\ sk'.mtuOut = r.mtuOut
  BY <1>5 DEF SkFields
<1>t. r.cur \in Nat /\ sknet.out \in Nat /\ r.n \in Nat
  BY <1>0 DEF SkShape, PathOK
<1>8. SkShape(sk')
  BY <1>0, <1>5, <1>7 DEF SkShape
<1>9. Results(sk', sknet')
  BY <1>0, <1>4, <1>6, <1>7 DEF Results
<1>10. Measured(sk')
  BY <1>5, <1>7 DEF Measured
<1>11. Numbers(sk', sknet')
  <2>1. \A a \in answers : a[2] = r.n + 1
    OBVIOUS
  <2> HIDE DEF answers
  <2> QED
    BY <1>0, <1>t, <1>3, <1>4, <1>5, <2>1 DEF Numbers
<1>12. BisectsOut(sk', sknet')
  BY <1>4, <1>6, <1>7 DEF BisectsOut, Bounds
<1>13. \A a \in air : a[1] = "pong" /\ a[2] = r.n + 1 => r.cur <= sknet.out
  <2>1. \A a \in air : a[1] = "pong" /\ a[2] = r.n + 1 => a \in answers
    BY <1>0, <1>t, <1>3 DEF Numbers
  <2> QED
    BY <2>1
<1>14. sent /\ r.cur <= sknet.out => \E a \in air : a[1] = "pong" /\ a[2] = r.n + 1
  <2>1. <<"pong", r.n + 1>>[1] = "pong" /\ <<"pong", r.n + 1>>[2] = r.n + 1
    OBVIOUS
  <2>2. sent /\ r.cur <= sknet.out => <<"pong", r.n + 1>> \in air
    BY <1>3
  <2> QED
    BY <2>1, <2>2
<1> HIDE DEF answers
<1>15. Answers(sk', sknet', "pong", sknet'.out)
  BY <1>t, <1>4, <1>5, <1>6, <1>7, <1>13, <1>14 DEF Answers
<1>16. Probes(sk', sknet')
  BY <1>5, <1>12, <1>15 DEF Probes
<1>17. PathOK(sknet')
  BY <1>0, <1>4 DEF PathOK
<1>18. SkInv(sk', sknet')
  BY <1>5, <1>8, <1>9, <1>10, <1>11, <1>16, <1>17 DEF SkInv
<1> QED
  BY <1>18 DEF SenkushaInv

\* A change of the sizes to be tried and of the count of pongs leaves run ready to send.
LEMMA ReadyKept ==
  ASSUME SenkushaInv, sk.at # "off", NEW r, DOMAIN r = SkFields, r.n = sk.n, r.mtuIn = sk.mtuIn, r.mtuOut = sk.mtuOut,
         r.pongs \in Nat, r.min \in Nat, r.max \in Nat, r.cur \in Nat, r.timely => sk.timely
  PROVE  Ready(r)
<1>1. SkShape(sk) /\ Results(sk, sknet) /\ Numbers(sk, sknet) /\ PathOK(sknet)
  BY DEF SenkushaInv, SkInv
<1>2. SkShape(r) /\ Numbers(r, sknet)
  BY <1>1 DEF SkShape, Numbers
<1>3. Results(r, sknet)
  BY <1>1, ResultsKept
<1> QED
  BY <1>1, <1>2, <1>3 DEF Ready

\* What one bisection makes of a size that passed, or did not.
LEMMA BisectedFacts ==
  ASSUME NEW r, SkShape(r), r.min <= r.cur, r.cur <= r.max, NEW success
  PROVE  LET q == Sk!Bisected(r, success) IN
         /\ DOMAIN q = SkFields
         /\ \A f \in SkFields \ {"min", "max", "cur", "attempt"} : q[f] = r[f]
         /\ q.min = (IF success THEN r.cur ELSE r.min) /\ q.max = (IF success THEN r.max ELSE r.cur)
         /\ q.min \in Nat /\ q.max \in Nat /\ q.cur \in Nat /\ q.min <= q.cur /\ q.cur <= q.max
<1> DEFINE p == IF success THEN [r EXCEPT !.min = r.cur] ELSE [r EXCEPT !.max = r.cur]
<1> DEFINE q == Sk!Bisected(r, success)
<1>1. /\ DOMAIN p = SkFields /\ \A f \in SkFields \ {"min", "max"} : p[f] = r[f]
      /\ p.min = (IF success THEN r.cur ELSE r.min) /\ p.max = (IF success THEN r.max ELSE r.cur)
  BY DEF SkShape, SkFields
<1>2. q = [p EXCEPT !.attempt = 0, !.cur = p.min + (p.max - p.min) \div 2]
  BY DEF Sk!Bisected
<1> HIDE DEF p
<1>3. /\ DOMAIN q = SkFields /\ \A f \in SkFields \ {"cur", "attempt"} : q[f] = p[f]
      /\ q.cur = p.min + (p.max - p.min) \div 2
  BY <1>1, <1>2 DEF SkFields
<1> HIDE DEF q
<1>4. p.min \in Nat /\ p.max \in Nat /\ p.min <= p.max
  BY <1>1 DEF SkShape
<1>5. q.min = p.min /\ q.max = p.max
  BY <1>3 DEF SkFields
<1>6. q.cur \in Nat /\ p.min <= q.cur /\ q.cur <= p.max
  <2>1. PICK d \in Nat : d = p.max - p.min
    BY <1>4
  <2>2. d \div 2 \in Nat /\ d \div 2 <= d
    OBVIOUS
  <2> QED
    BY <1>3, <1>4, <2>1, <2>2
<1>7. \A f \in SkFields \ {"min", "max", "cur", "attempt"} : q[f] = r[f]
  BY <1>1, <1>3
<1> QED
  BY <1>1, <1>3, <1>4, <1>5, <1>6, <1>7 DEF q

\* The answer to a request, or to a late one.
LEMMA CallbackOK ==
  ASSUME SenkushaInv, NEW a \in sknet.air, Sk!senkusha_takion_cb(a)
  PROVE  SenkushaInv'
<1>0. sk.at # "off" /\ SkShape(sk) /\ Results(sk, sknet) /\ Numbers(sk, sknet) /\ PathOK(sknet) /\ Measured(sk) /\ Probes(sk, sknet)
  BY DEF SenkushaInv, SkInv, Sk!senkusha_takion_cb
<1>1. PICK again \in BOOLEAN : sknet' = [sknet EXCEPT !.air = IF again THEN sknet.air ELSE sknet.air \ {a}]
  BY DEF Sk!senkusha_takion_cb
<1>2. /\ sknet'.air \subseteq sknet.air /\ (\A b \in sknet.air : b # a => b \in sknet'.air)
      /\ sknet'.in = sknet.in /\ sknet'.out = sknet.out /\ DOMAIN sknet' = DOMAIN sknet
  BY <1>0, <1>1 DEF PathOK
<1>3. /\ DOMAIN sk' = SkFields /\ \A f \in SkFields \ {"fin", "echoed"} : sk'[f] = sk[f]
  BY <1>0 DEF Sk!senkusha_takion_cb, SkShape, SkFields
<1>4. sk'.fin <=> (sk.fin \/ (Sk!Expected(a) /\ Sk!IsCurrent(a)))
  BY <1>0 DEF Sk!senkusha_takion_cb, SkShape, SkFields
<1>5. /\ sk'.pongs = sk.pongs /\ sk'.min = sk.min /\ sk'.max = sk.max /\ sk'.cur = sk.cur /\ sk'.mtuIn = sk.mtuIn
      /\ sk'.mtuOut = sk.mtuOut /\ sk'.timely = sk.timely /\ sk'.n = sk.n /\ sk'.at = sk.at /\ sk'.err = sk.err /\ sk'.skip = sk.skip
  BY <1>3 DEF SkFields
<1>6. SkShape(sk') /\ Measured(sk')
  BY <1>0, <1>3, <1>5 DEF SkShape, Measured
<1>7. Results(sk', sknet')
  BY <1>0, <1>2, <1>5 DEF Results
<1>8. Numbers(sk', sknet') /\ PathOK(sknet')
  BY <1>0, <1>2, <1>5 DEF Numbers, PathOK
<1>9. CASE sk.at = "mtu_in"
  <2>1. BisectsIn(sk', sknet')
    BY <1>0, <1>2, <1>5, <1>9 DEF Probes, BisectsIn, Bounds
  <2>2. (Sk!Expected(a) /\ Sk!IsCurrent(a)) <=> (a[1] = "mtu" /\ a[2] = sk.n)
    BY <1>9 DEF Sk!Expected, Sk!IsCurrent
  <2>3. Answers(sk', sknet', "mtu", sknet'.in)
    BY <1>0, <1>2, <1>4, <1>5, <1>9, <2>2 DEF Probes, Answers
  <2>4. Probes(sk', sknet')
    BY <1>5, <1>9, <2>1, <2>3 DEF Probes
  <2> QED
    BY <1>0, <1>5, <1>6, <1>7, <1>8, <2>4 DEF SenkushaInv, SkInv
<1>10. CASE sk.at = "mtu_out"
  <2>1. BisectsOut(sk', sknet')
    BY <1>0, <1>2, <1>5, <1>10 DEF Probes, BisectsOut, Bounds
  <2>2. (Sk!Expected(a) /\ Sk!IsCurrent(a)) <=> (a[1] = "pong" /\ a[2] = sk.n)
    BY <1>10 DEF Sk!Expected, Sk!IsCurrent
  <2>3. Answers(sk', sknet', "pong", sknet'.out)
    BY <1>0, <1>2, <1>4, <1>5, <1>10, <2>2 DEF Probes, Answers
  <2>4. Probes(sk', sknet')
    BY <1>5, <1>10, <2>1, <2>3 DEF Probes
  <2> QED
    BY <1>0, <1>5, <1>6, <1>7, <1>8, <2>4 DEF SenkushaInv, SkInv
<1>11. CASE sk.at \notin {"mtu_in", "mtu_out"}
  <2>1. Probes(sk', sknet')
    BY <1>5, <1>11 DEF Probes
  <2> QED
    BY <1>0, <1>5, <1>6, <1>7, <1>8, <2>1 DEF SenkushaInv, SkInv
<1> QED
  BY <1>9, <1>10, <1>11


\* senkusha_run_mtu_in_test: the size that passed, or the size that did not, narrows the
\* interval; when it cannot be narrowed further its lower end is the result.
LEMMA MtuInOK ==
  ASSUME SenkushaInv, Sk!MtuIn
  PROVE  SenkushaInv'
<1> DEFINE w == Sk!Waited("mtu_in")
<1>0. sk.at = "mtu_in" /\ SkShape(sk) /\ PathOK(sknet) /\ BisectsIn(sk, sknet) /\ Answers(sk, sknet, "mtu", sknet.in) /\ sk.pongs > 0
  BY DEF SenkushaInv, SkInv, Sk!MtuIn, Probes, Measured
<1>1. /\ DOMAIN w = SkFields /\ \A f \in SkFields \ {"timely"} : w[f] = sk[f]
      /\ w.timely => sk.timely
      /\ w.timely /\ ~sk.fin => ~Sk!Late
  BY <1>0, WaitedFacts
<1>2. \/ Sk!AskIn([w EXCEPT !.attempt = @ + 1])
      \/ LET q == Sk!Bisected(w, sk.fin) IN IF q.max - q.min > 1 THEN Sk!AskIn(q) ELSE Sk!EndIn(q)
  BY DEF Sk!MtuIn
<1> HIDE DEF w
<1>3. /\ w.pongs = sk.pongs /\ w.min = sk.min /\ w.max = sk.max /\ w.cur = sk.cur /\ w.mtuIn = sk.mtuIn
      /\ w.mtuOut = sk.mtuOut /\ w.n = sk.n
  BY <1>1 DEF SkFields
<1>t. w.cur \in Nat /\ w.min \in Nat /\ w.max \in Nat /\ w.pongs \in Nat /\ w.n \in Nat /\ sknet.in \in Nat
  BY <1>0, <1>3 DEF SkShape, PathOK
<1>4. SkShape(w) /\ BisectsIn(w, sknet)
  BY <1>0, <1>1, <1>3 DEF SkShape, BisectsIn, Bounds
<1>5. (sk.fin => w.cur <= sknet.in) /\ (w.timely /\ ~sk.fin => w.cur > sknet.in)
  BY <1>0, <1>1, <1>3, <1>t DEF Answers, Sk!Late
<1>6. CASE Sk!AskIn([w EXCEPT !.attempt = @ + 1])
  <2> DEFINE r == [w EXCEPT !.attempt = @ + 1]
  <2>1. DOMAIN r = SkFields /\ \A f \in SkFields \ {"attempt"} : r[f] = w[f]
    BY <1>1 DEF SkFields
  <2>2. Sk!Sends(r, "mtu_in", IF r.cur <= sknet.in THEN {<<"mtu", Sk!Fresh>>} ELSE {}, "disconnect")
    BY <1>6 DEF Sk!AskIn
  <2> HIDE DEF r
  <2>3. /\ r.pongs = w.pongs /\ r.min = w.min /\ r.max = w.max /\ r.cur = w.cur /\ r.mtuIn = w.mtuIn
        /\ r.mtuOut = w.mtuOut /\ r.n = w.n /\ r.timely = w.timely
    BY <2>1 DEF SkFields
  <2>4. Ready(r)
    BY <1>0, <1>1, <1>3, <1>t, <2>1, <2>3, ReadyKept
  <2>5. BisectsIn(r, sknet) /\ r.pongs > 0
    BY <1>0, <1>3, <1>4, <2>3 DEF BisectsIn, Bounds
  <2>6. Sk!Fresh = r.n + 1
    BY <1>3, <2>3 DEF Sk!Fresh
  <2> QED
    BY <2>2, <2>4, <2>5, <2>6, SendsOK
<1> DEFINE q == Sk!Bisected(w, sk.fin)
<1>7. CASE IF q.max - q.min > 1 THEN Sk!AskIn(q) ELSE Sk!EndIn(q)
  <2>1. /\ DOMAIN q = SkFields
        /\ \A f \in SkFields \ {"min", "max", "cur", "attempt"} : q[f] = w[f]
        /\ q.min = (IF sk.fin THEN w.cur ELSE w.min) /\ q.max = (IF sk.fin THEN w.max ELSE w.cur)
        /\ q.min \in Nat /\ q.max \in Nat /\ q.cur \in Nat /\ q.min <= q.cur /\ q.cur <= q.max
    BY <1>4, BisectedFacts DEF BisectsIn, Bounds
  <2> HIDE DEF q
  <2>2. q.pongs = w.pongs /\ q.mtuIn = w.mtuIn /\ q.mtuOut = w.mtuOut /\ q.n = w.n /\ q.timely = w.timely
    BY <2>1 DEF SkFields
  <2>3. Ready(q)
    BY <1>0, <1>1, <1>3, <1>t, <2>1, <2>2, ReadyKept
  <2>4. Bounds(q, sknet.in)
    BY <1>4, <1>5, <1>t, <2>1, MtuAssumption DEF BisectsIn, Bounds
  <2>5. q.timely => q.max > sknet.in \/ (q.min = MaxMtu /\ q.max = MaxMtu)
    BY <1>4, <1>5, <1>t, <2>1, <2>2, MtuAssumption DEF BisectsIn, Bounds
  <2>6. Sk!Fresh = q.n + 1 /\ q.pongs > 0
    BY <1>0, <1>3, <2>2 DEF Sk!Fresh
  <2>7. CASE q.max - q.min > 1
    <3>1. BisectsIn(q, sknet)
      BY <2>1, <2>4, <2>5, <2>7, MtuAssumption DEF BisectsIn
    <3>2. Sk!Sends(q, "mtu_in", IF q.cur <= sknet.in THEN {<<"mtu", Sk!Fresh>>} ELSE {}, "disconnect")
      BY <1>7, <2>7 DEF Sk!AskIn
    <3> QED
      BY <2>3, <2>6, <3>1, <3>2, SendsOK
  <2>8. CASE ~(q.max - q.min > 1)
    <3> DEFINE r == [q EXCEPT !.mtuIn = q.min]
    <3>1. DOMAIN r = SkFields /\ r.mtuIn = q.min /\ \A f \in SkFields \ {"mtuIn"} : r[f] = q[f]
      BY <2>1 DEF SkFields
    <3>2. Sk!Sends(r, "client", {<<"clientmtu", Sk!Fresh>>}, "disconnect")
      BY <1>7, <2>8 DEF Sk!EndIn
    <3> HIDE DEF r
    <3>3. /\ r.pongs = q.pongs /\ r.min = q.min /\ r.max = q.max /\ r.cur = q.cur
          /\ r.mtuOut = q.mtuOut /\ r.n = q.n /\ r.timely = q.timely
      BY <3>1 DEF SkFields
    <3>4. r.timely => r.mtuIn = Sk!Least(sknet.in, MaxMtu)
      BY <1>t, <2>1, <2>4, <2>5, <2>8, <3>1, <3>3, MtuAssumption DEF Bounds, Sk!Least
    <3>5. MinMtu <= r.mtuIn /\ r.mtuIn <= sknet.in /\ r.mtuIn <= MaxMtu /\ r.mtuIn > 0
      BY <1>t, <2>1, <2>4, <3>1, MtuAssumption DEF Bounds
    <3>6. Results(r, sknet)
      BY <2>3, <3>3, <3>4, <3>5 DEF Ready, Results
    <3>7. Ready(r)
      BY <2>1, <2>3, <3>1, <3>3, <3>6 DEF Ready, SkShape, Numbers
    <3>8. <<"clientmtu", Sk!Fresh>>[1] \notin {"pong", "mtu"}
      OBVIOUS
    <3> QED
      BY <2>6, <3>2, <3>3, <3>5, <3>7, <3>8, SendsOK
  <2> QED
    BY <2>7, <2>8
<1> QED
  BY <1>2, <1>6, <1>7

\* senkusha_run_mtu_out_test: as above, with pings of the size to be tried.
LEMMA MtuOutOK ==
  ASSUME SenkushaInv, Sk!MtuOut
  PROVE  SenkushaInv'
<1> DEFINE w == Sk!Waited("mtu_out")
<1>0. /\ sk.at = "mtu_out" /\ SkShape(sk) /\ PathOK(sknet) /\ BisectsOut(sk, sknet) /\ Answers(sk, sknet, "pong", sknet.out)
      /\ sk.pongs > 0 /\ sk.mtuIn > 0
  BY DEF SenkushaInv, SkInv, Sk!MtuOut, Probes, Measured
<1>1. /\ DOMAIN w = SkFields /\ \A f \in SkFields \ {"timely"} : w[f] = sk[f]
      /\ w.timely => sk.timely
      /\ w.timely /\ ~sk.fin => ~Sk!Late
  BY <1>0, WaitedFacts
<1>2. \/ Sk!AskOut([w EXCEPT !.attempt = @ + 1])
      \/ LET q == Sk!Bisected(w, sk.fin) IN IF q.max - q.min > 1 THEN Sk!AskOut(q) ELSE Sk!EndOut(q)
  BY DEF Sk!MtuOut
<1> HIDE DEF w
<1>3. /\ w.pongs = sk.pongs /\ w.min = sk.min /\ w.max = sk.max /\ w.cur = sk.cur /\ w.mtuIn = sk.mtuIn
      /\ w.mtuOut = sk.mtuOut /\ w.n = sk.n
  BY <1>1 DEF SkFields
<1>t. w.cur \in Nat /\ w.min \in Nat /\ w.max \in Nat /\ w.pongs \in Nat /\ w.n \in Nat /\ sknet.out \in Nat
  BY <1>0, <1>3 DEF SkShape, PathOK
<1>4. SkShape(w) /\ BisectsOut(w, sknet)
  BY <1>0, <1>1, <1>3 DEF SkShape, BisectsOut, Bounds
<1>5. (sk.fin => w.cur <= sknet.out) /\ (w.timely /\ ~sk.fin => w.cur > sknet.out)
  BY <1>0, <1>1, <1>3, <1>t DEF Answers, Sk!Late
<1>6. CASE Sk!AskOut([w EXCEPT !.attempt = @ + 1])
  <2> DEFINE r == [w EXCEPT !.attempt = @ + 1]
  <2>1. DOMAIN r = SkFields /\ \A f \in SkFields \ {"attempt"} : r[f] = w[f]
    BY <1>1 DEF SkFields
  <2>2. Sk!AskOut(r)
    BY <1>6
  <2> HIDE DEF r
  <2>3. /\ r.pongs = w.pongs /\ r.min = w.min /\ r.max = w.max /\ r.cur = w.cur /\ r.mtuIn = w.mtuIn
        /\ r.mtuOut = w.mtuOut /\ r.n = w.n /\ r.timely = w.timely
    BY <2>1 DEF SkFields
  <2>4. Ready(r)
    BY <1>0, <1>1, <1>3, <1>t, <2>1, <2>3, ReadyKept
  <2>5. BisectsOut(r, sknet) /\ r.pongs > 0 /\ r.mtuIn > 0 /\ r.n = sk.n
    BY <1>0, <1>3, <1>4, <2>3 DEF BisectsOut, Bounds
  <2> QED
    BY <2>2, <2>4, <2>5, AskOutOK
<1> DEFINE q == Sk!Bisected(w, sk.fin)
<1>7. CASE IF q.max - q.min > 1 THEN Sk!AskOut(q) ELSE Sk!EndOut(q)
  <2>1. /\ DOMAIN q = SkFields
        /\ \A f \in SkFields \ {"min", "max", "cur", "attempt"} : q[f] = w[f]
        /\ q.min = (IF sk.fin THEN w.cur ELSE w.min) /\ q.max = (IF sk.fin THEN w.max ELSE w.cur)
        /\ q.min \in Nat /\ q.max \in Nat /\ q.cur \in Nat /\ q.min <= q.cur /\ q.cur <= q.max
    BY <1>4, BisectedFacts DEF BisectsOut, Bounds
  <2> HIDE DEF q
  <2>2. q.pongs = w.pongs /\ q.mtuIn = w.mtuIn /\ q.mtuOut = w.mtuOut /\ q.n = w.n /\ q.timely = w.timely
    BY <2>1 DEF SkFields
  <2>3. Ready(q)
    BY <1>0, <1>1, <1>3, <1>t, <2>1, <2>2, ReadyKept
  <2>4. Bounds(q, sknet.out)
    BY <1>4, <1>5, <1>t, <2>1, MtuAssumption DEF BisectsOut, Bounds
  <2>5. q.timely => q.max > sknet.out \/ q.max = MaxMtu
    BY <1>4, <1>5, <1>t, <2>1, <2>2, MtuAssumption DEF BisectsOut, Bounds
  <2>6. Sk!Fresh = q.n + 1 /\ q.n = sk.n /\ q.pongs > 0 /\ q.mtuIn > 0
    BY <1>0, <1>3, <2>2 DEF Sk!Fresh
  <2>7. CASE q.max - q.min > 1
    <3>1. BisectsOut(q, sknet)
      BY <2>4, <2>5 DEF BisectsOut
    <3> QED
      BY <1>7, <2>3, <2>6, <2>7, <3>1, AskOutOK
  <2>8. CASE ~(q.max - q.min > 1)
    <3> DEFINE r == [q EXCEPT !.mtuOut = q.min]
    <3>1. DOMAIN r = SkFields /\ r.mtuOut = q.min /\ \A f \in SkFields \ {"mtuOut"} : r[f] = q[f]
      BY <2>1 DEF SkFields
    <3>2. Sk!Sends(r, "client_end", {<<"ack", Sk!Fresh>>}, "disconnect")
      BY <1>7, <2>8 DEF Sk!EndOut
    <3> HIDE DEF r
    <3>3. /\ r.pongs = q.pongs /\ r.min = q.min /\ r.max = q.max /\ r.cur = q.cur
          /\ r.mtuIn = q.mtuIn /\ r.n = q.n /\ r.timely = q.timely
      BY <3>1 DEF SkFields
    <3>4. r.timely => r.mtuOut \in {Sk!Least(sknet.out, MaxMtu), Sk!Least(sknet.out, MaxMtu) - 1}
      BY <1>t, <2>1, <2>4, <2>5, <2>8, <3>1, <3>3, MtuAssumption DEF Bounds, Sk!Least
    <3>5. MinMtu <= r.mtuOut /\ r.mtuOut <= sknet.out /\ r.mtuOut > 0
      BY <1>t, <2>1, <2>4, <3>1, MtuAssumption DEF Bounds
    <3>6. Results(r, sknet)
      BY <2>3, <3>3, <3>4, <3>5 DEF Ready, Results
    <3>7. Ready(r)
      BY <2>1, <2>3, <3>1, <3>3, <3>6 DEF Ready, SkShape, Numbers
    <3>8. <<"ack", Sk!Fresh>>[1] \notin {"pong", "mtu"}
      OBVIOUS
    <3> QED
      BY <2>6, <3>2, <3>3, <3>5, <3>7, <3>8, SendsOK
  <2> QED
    BY <2>7, <2>8
<1> QED
  BY <1>2, <1>6, <1>7


\* The round trip: the next ping, or the end of the echo.
LEMMA PingOK ==
  ASSUME NEW r, Ready(r), r.n = sk.n, Sk!Ping(r)
  PROVE  SenkushaInv'
<1>0. DOMAIN r = SkFields /\ r.n \in Nat
  BY DEF Ready, SkShape
<1>1. CASE r.pings < PingCount
  <2> DEFINE q == [r EXCEPT !.pings = @ + 1]
  <2>1. DOMAIN q = SkFields /\ \A f \in SkFields \ {"pings"} : q[f] = r[f]
    BY <1>0 DEF SkFields
  <2>2. Sk!Sends(q, "ping", {<<"pong", Sk!Fresh>>}, "disconnect")
    BY <1>1 DEF Sk!Ping
  <2> HIDE DEF q
  <2>3. /\ q.pongs = r.pongs /\ q.min = r.min /\ q.max = r.max /\ q.cur = r.cur /\ q.mtuIn = r.mtuIn
        /\ q.mtuOut = r.mtuOut /\ q.n = r.n /\ q.timely = r.timely
    BY <2>1 DEF SkFields
  <2>4. Ready(q)
    BY <2>1, <2>3 DEF Ready, SkShape, Results, Numbers
  <2>5. <<"pong", Sk!Fresh>>[2] = q.n + 1
    BY <2>3 DEF Sk!Fresh
  <2> QED
    BY <2>2, <2>4, <2>5, SendsOK
<1>2. CASE ~(r.pings < PingCount)
  <2>1. Sk!Sends(r, "echo_off", {<<"ack", Sk!Fresh>>}, "disconnect")
    BY <1>2 DEF Sk!Ping
  <2>2. <<"ack", Sk!Fresh>>[1] \notin {"pong", "mtu"}
    OBVIOUS
  <2> QED
    BY <2>1, <2>2, SendsOK
<1> QED
  BY <1>1, <1>2

\* The big message, to a console or to a cloud.
LEMMA SendBigOK ==
  ASSUME Ready(sk), Sk!SendBig(sk)
  PROVE  SenkushaInv'
<1> DEFINE answers == IF sk.cloud THEN {<<"chunk", 1>>, <<"chunk", 2>>} ELSE {<<"bang", Sk!Fresh>>}
<1>1. \A a \in answers : a[1] \notin {"pong", "mtu"}
  OBVIOUS
<1>2. Sk!Sends(sk, "big", answers, "close")
  BY DEF Sk!SendBig
<1> QED
  BY <1>1, <1>2, SendsOK

\* Every step of run and of its callbacks.
LEMMA SenkushaStep == SenkushaInv /\ [Sk!NextSenkusha]_senkusha => SenkushaInv'
<1> SUFFICES ASSUME SenkushaInv, [Sk!NextSenkusha]_senkusha PROVE SenkushaInv'
  OBVIOUS
<1>0. SkShape(sk) /\ Results(sk, sknet) /\ Numbers(sk, sknet) /\ Measured(sk) /\ Probes(sk, sknet)
  BY DEF SenkushaInv, SkInv
<1>p. sk.at # "off" => PathOK(sknet) /\ Ready(sk)
  BY <1>0 DEF SenkushaInv, SkInv, Ready
<1>n. \A k \in {"protocolack", "ack", "clientmtu"} : \A a \in {<<k, Sk!Fresh>>} : a[1] \notin {"pong", "mtu"}
  OBVIOUS
<1>1. CASE UNCHANGED senkusha
  BY <1>1 DEF senkusha, SenkushaInv
<1>2. CASE Sk!chiaki_senkusha_run
  <2>1. PICK i \in PathMtus, o \in PathMtus, a \in {<<"connected", 0>>, <<"disconnected", 0>>} :
          sknet' = [air |-> {a}, in |-> i, out |-> o]
    BY <1>2 DEF Sk!chiaki_senkusha_run
  <2>2. /\ DOMAIN sknet' = {"air", "in", "out"} /\ sknet'.in = i /\ sknet'.out = o
        /\ \A b \in sknet'.air : b[1] \notin {"pong", "mtu"}
    BY <2>1
  <2>3. PathOK(sknet')
    BY <2>2, MtuAssumption DEF PathOK
  <2>4. /\ sk.at = "off"
        /\ \E cloud, skip, connects \in BOOLEAN :
             sk' = [sk EXCEPT !.at = IF connects THEN "connect" ELSE "over", !.err = ~connects, !.cloud = cloud, !.skip = skip]
    BY <1>2 DEF Sk!chiaki_senkusha_run
  <2>5. /\ DOMAIN sk' = SkFields /\ sk'.at \in {"connect", "over"} /\ (sk'.at = "over" => sk'.err)
        /\ \A f \in SkFields \ {"at", "err", "cloud", "skip"} : sk'[f] = sk[f]
    BY <1>0, <2>4 DEF SkShape, SkFields
  <2>6. /\ sk'.pongs = sk.pongs /\ sk'.min = sk.min /\ sk'.max = sk.max /\ sk'.cur = sk.cur /\ sk'.mtuIn = sk.mtuIn
        /\ sk'.mtuOut = sk.mtuOut /\ sk'.n = sk.n
    BY <2>5 DEF SkFields
  <2>7. SkShape(sk') /\ Measured(sk') /\ Probes(sk', sknet') /\ Numbers(sk', sknet')
    BY <1>0, <2>2, <2>5, <2>6 DEF SkShape, Measured, Probes, Numbers
  <2>8. Results(sk', sknet')
    BY <1>0, <2>4, <2>6 DEF Results, SenkushaInv, SkInv
  <2> QED
    BY <2>3, <2>5, <2>7, <2>8 DEF SenkushaInv, SkInv
<1>3. CASE Sk!TakionConnected
  <2>1. sk.at # "off"
    BY <1>3 DEF Sk!TakionConnected
  <2>2. CASE Sk!GiveUp("connect", "close")
    BY <2>1, <2>2, GiveUpOK
  <2>3. CASE Sk!SendBig(sk)
    BY <1>p, <2>1, <2>3, SendBigOK
  <2>4. CASE Sk!Sends(sk, "version", {<<"protocolack", Sk!Fresh>>}, "close")
    BY <1>n, <1>p, <2>1, <2>4, SendsOK
  <2> QED
    BY <1>3, <2>2, <2>3, <2>4 DEF Sk!TakionConnected
<1>4. CASE Sk!VersionSet
  <2>1. sk.at # "off"
    BY <1>4 DEF Sk!VersionSet
  <2>2. CASE Sk!GiveUp("version", "close")
    BY <2>1, <2>2, GiveUpOK
  <2>3. CASE Sk!SendBig(sk)
    BY <1>p, <2>1, <2>3, SendBigOK
  <2> QED
    BY <1>4, <2>2, <2>3 DEF Sk!VersionSet
<1>5. CASE Sk!BigAnswered
  <2>1. sk.at # "off"
    BY <1>5 DEF Sk!BigAnswered
  <2>2. CASE Sk!GiveUp("big", "close")
    BY <2>1, <2>2, GiveUpOK
  <2>3. CASE Sk!Sends(Sk!Waited("big"), "echo_on", {<<"ack", Sk!Fresh>>}, "disconnect")
    <3> DEFINE w == Sk!Waited("big")
    <3>1. DOMAIN w = SkFields /\ (\A f \in SkFields \ {"timely"} : w[f] = sk[f]) /\ (w.timely => sk.timely)
      BY <1>0, WaitedFacts
    <3> HIDE DEF w
    <3>2. /\ w.pongs = sk.pongs /\ w.min = sk.min /\ w.max = sk.max /\ w.cur = sk.cur /\ w.mtuIn = sk.mtuIn
          /\ w.mtuOut = sk.mtuOut /\ w.n = sk.n
      BY <3>1 DEF SkFields
    <3>3. Ready(w)
      BY <1>0, <2>1, <3>1, <3>2, ReadyKept DEF SkShape
    <3>4. Sk!Sends(w, "echo_on", {<<"ack", Sk!Fresh>>}, "disconnect")
      BY <2>3 DEF w
    <3> QED
      BY <1>n, <3>3, <3>4, SendsOK
  <2> QED
    BY <1>5, <2>2, <2>3 DEF Sk!BigAnswered
<1>6. CASE Sk!EchoOn
  <2>1. sk.at # "off"
    BY <1>6 DEF Sk!EchoOn
  <2>2. CASE Sk!GiveUp("echo_on", "disconnect")
    BY <2>1, <2>2, GiveUpOK
  <2>3. CASE Sk!Ping(sk)
    BY <1>p, <2>1, <2>3, PingOK
  <2> QED
    BY <1>6, <2>2, <2>3 DEF Sk!EchoOn
<1>7. CASE Sk!Pong
  <2> DEFINE w == Sk!Waited("ping")
  <2> DEFINE r == [w EXCEPT !.pongs = IF sk.fin THEN @ + 1 ELSE @]
  <2>1. DOMAIN w = SkFields /\ (\A f \in SkFields \ {"timely"} : w[f] = sk[f]) /\ (w.timely => sk.timely)
    BY <1>0, WaitedFacts
  <2>2. sk.at # "off" /\ Sk!Ping(r)
    BY <1>7 DEF Sk!Pong
  <2> HIDE DEF w
  <2>3. /\ w.pongs = sk.pongs /\ w.min = sk.min /\ w.max = sk.max /\ w.cur = sk.cur /\ w.mtuIn = sk.mtuIn
        /\ w.mtuOut = sk.mtuOut /\ w.n = sk.n
    BY <2>1 DEF SkFields
  <2>4. /\ DOMAIN r = SkFields /\ (\A f \in SkFields \ {"pongs"} : r[f] = w[f])
        /\ r.pongs = IF sk.fin THEN w.pongs + 1 ELSE w.pongs
    BY <2>1 DEF SkFields
  <2> HIDE DEF r
  <2>5. /\ r.min = sk.min /\ r.max = sk.max /\ r.cur = sk.cur /\ r.mtuIn = sk.mtuIn
        /\ r.mtuOut = sk.mtuOut /\ r.n = sk.n /\ r.timely = w.timely
    BY <2>3, <2>4 DEF SkFields
  <2>6. r.pongs \in Nat
    BY <1>0, <2>3, <2>4 DEF SkShape
  <2>7. Ready(r)
    BY <1>0, <2>1, <2>2, <2>4, <2>5, <2>6, ReadyKept DEF SkShape
  <2> QED
    BY <2>2, <2>5, <2>7, PingOK
<1>8. CASE Sk!EchoOff
  <2>1. sk.at # "off"
    BY <1>8 DEF Sk!EchoOff
  <2>2. CASE Sk!GiveUp("echo_off", "disconnect")
    BY <2>1, <2>2, GiveUpOK
  <2>3. CASE ~(sk.pongs < 1) /\ sk.skip /\ sk' = [sk EXCEPT !.at = "disconnect"] /\ UNCHANGED sknet
    <3>1. DOMAIN sk' = SkFields /\ sk'.at = "disconnect" /\ \A f \in SkFields \ {"at"} : sk'[f] = sk[f]
      BY <1>0, <2>3 DEF SkShape, SkFields
    <3>2. sk'.timely = sk.timely /\ sk.pongs > 0
      BY <1>0, <2>3, <3>1 DEF SkShape, SkFields
    <3> QED
      BY <1>0, <1>p, <2>1, <2>3, <3>1, <3>2, SkEnds
  <2>4. CASE /\ ~(sk.pongs < 1)
             /\ Sk!AskIn([sk EXCEPT !.min = MinMtu, !.max = MaxMtu, !.cur = MaxMtu, !.attempt = 0])
    <3> DEFINE r == [sk EXCEPT !.min = MinMtu, !.max = MaxMtu, !.cur = MaxMtu, !.attempt = 0]
    <3>1. /\ DOMAIN r = SkFields /\ r.min = MinMtu /\ r.max = MaxMtu /\ r.cur = MaxMtu
          /\ \A f \in SkFields \ {"min", "max", "cur", "attempt"} : r[f] = sk[f]
      BY <1>0 DEF SkShape, SkFields
    <3>2. Sk!Sends(r, "mtu_in", IF r.cur <= sknet.in THEN {<<"mtu", Sk!Fresh>>} ELSE {}, "disconnect")
      BY <2>4 DEF Sk!AskIn
    <3> HIDE DEF r
    <3>3. r.pongs = sk.pongs /\ r.mtuIn = sk.mtuIn /\ r.mtuOut = sk.mtuOut /\ r.n = sk.n /\ r.timely = sk.timely
      BY <3>1 DEF SkFields
    <3>4. r.pongs \in Nat /\ r.pongs > 0
      BY <1>0, <2>4, <3>3 DEF SkShape
    <3>5. Ready(r)
      BY <2>1, <3>1, <3>3, <3>4, ReadyKept, MtuAssumption
    <3>6. BisectsIn(r, sknet)
      BY <1>p, <2>1, <3>1, MtuAssumption DEF BisectsIn, Bounds, PathOK
    <3>7. Sk!Fresh = r.n + 1
      BY <3>3 DEF Sk!Fresh
    <3> QED
      BY <3>2, <3>4, <3>5, <3>6, <3>7, SendsOK
  <2> QED
    BY <1>8, <2>2, <2>3, <2>4 DEF Sk!EchoOff
<1>9. CASE Sk!MtuIn
  BY <1>9, MtuInOK
<1>10. CASE Sk!ClientMtu
  <2>1. sk.at # "off" /\ sk.pongs > 0 /\ sk.mtuIn > 0
    BY <1>0, <1>10 DEF Sk!ClientMtu, Measured
  <2>2. CASE Sk!GiveUp("client", "disconnect")
    BY <2>1, <2>2, GiveUpOK
  <2>3. CASE Sk!AskOut([sk EXCEPT !.min = MinMtu, !.max = MaxMtu, !.cur = sk.mtuIn, !.attempt = 0])
    <3> DEFINE r == [sk EXCEPT !.min = MinMtu, !.max = MaxMtu, !.cur = sk.mtuIn, !.attempt = 0]
    <3>1. /\ DOMAIN r = SkFields /\ r.min = MinMtu /\ r.max = MaxMtu /\ r.cur = sk.mtuIn
          /\ \A f \in SkFields \ {"min", "max", "cur", "attempt"} : r[f] = sk[f]
      BY <1>0 DEF SkShape, SkFields
    <3>2. Sk!AskOut(r)
      BY <2>3
    <3> HIDE DEF r
    <3>3. r.pongs = sk.pongs /\ r.mtuIn = sk.mtuIn /\ r.mtuOut = sk.mtuOut /\ r.n = sk.n /\ r.timely = sk.timely
      BY <3>1 DEF SkFields
    <3>4. sk.mtuIn \in Nat /\ MinMtu <= sk.mtuIn /\ sk.mtuIn <= MaxMtu /\ sk.pongs \in Nat
      BY <1>0, <2>1 DEF SkShape, Results
    <3>5. Ready(r)
      BY <2>1, <3>1, <3>3, <3>4, ReadyKept, MtuAssumption
    <3>6. BisectsOut(r, sknet)
      BY <1>p, <2>1, <3>1, <3>4, MtuAssumption DEF BisectsOut, Bounds, PathOK
    <3> QED
      BY <2>1, <3>2, <3>3, <3>5, <3>6, AskOutOK
  <2> QED
    BY <1>10, <2>2, <2>3 DEF Sk!ClientMtu
<1>11. CASE Sk!MtuOut
  BY <1>11, MtuOutOK
<1>12. CASE Sk!ClientMtuEnd
  <2>1. sk.at = "client_end" /\ sk' = [sk EXCEPT !.at = "disconnect", !.err = ~sk.fin] /\ UNCHANGED sknet
    BY <1>12 DEF Sk!ClientMtuEnd
  <2>2. DOMAIN sk' = SkFields /\ sk'.at = "disconnect" /\ \A f \in SkFields \ {"at", "err"} : sk'[f] = sk[f]
    BY <1>0, <2>1 DEF SkShape, SkFields
  <2>3. sk'.timely = sk.timely /\ sk.pongs > 0 /\ sk.mtuIn > 0 /\ sk.mtuOut > 0
    BY <1>0, <2>1, <2>2 DEF SkShape, SkFields, Measured
  <2> QED
    BY <1>0, <1>p, <2>1, <2>2, <2>3, SkEnds
<1>13. CASE Sk!senkusha_send_disconnect
  <2>1. sk.at = "disconnect" /\ sk' = [sk EXCEPT !.at = "close"] /\ UNCHANGED sknet
    BY <1>13 DEF Sk!senkusha_send_disconnect
  <2>2. DOMAIN sk' = SkFields /\ sk'.at = "close" /\ \A f \in SkFields \ {"at"} : sk'[f] = sk[f]
    BY <1>0, <2>1 DEF SkShape, SkFields
  <2>3. sk'.timely = sk.timely /\ sk'.err = sk.err
    BY <2>2 DEF SkFields
  <2>4. ~sk'.err => sk.pongs > 0 /\ (sk.skip \/ (sk.mtuIn > 0 /\ sk.mtuOut > 0))
    BY <1>0, <2>1, <2>3 DEF Measured
  <2> QED
    BY <1>0, <1>p, <2>1, <2>2, <2>3, <2>4, SkEnds
<1>14. CASE Sk!CloseTakion
  <2>1. sk.at = "close" /\ sk' = [sk EXCEPT !.at = "over"] /\ UNCHANGED sknet
    BY <1>14 DEF Sk!CloseTakion
  <2>2. DOMAIN sk' = SkFields /\ sk'.at = "over" /\ \A f \in SkFields \ {"at"} : sk'[f] = sk[f]
    BY <1>0, <2>1 DEF SkShape, SkFields
  <2>3. sk'.timely = sk.timely /\ sk'.err = sk.err
    BY <2>2 DEF SkFields
  <2>4. ~sk'.err => sk.pongs > 0 /\ (sk.skip \/ (sk.mtuIn > 0 /\ sk.mtuOut > 0))
    BY <1>0, <2>1, <2>3 DEF Measured
  <2> QED
    BY <1>0, <1>p, <2>1, <2>2, <2>3, <2>4, SkEnds
<1>15. CASE \E a \in sknet.air : Sk!senkusha_takion_cb(a)
  BY <1>15, CallbackOK
<1> QED
  BY <1>1, <1>2, <1>3, <1>4, <1>5, <1>6, <1>7, <1>8, <1>9, <1>10, <1>11, <1>12, <1>13, <1>14, <1>15
  DEF Sk!NextSenkusha, Sk!SenkushaRun

-----------------------------------------------------------------------------
(* The video receiver.                                                   *)

\* The index of the frame f of a console that begins with the index a.
Ix(a, f) == (a + (f - 1)) % (2 * VHalf)

\* Indices go up by one and begin again once at the most.
LEMMA IxIs ==
  ASSUME NEW a \in 0 .. 2 * VHalf - 1, NEW f \in 1 .. MaxVFrames
  PROVE  /\ Ix(a, f) = IF a + f - 1 < 2 * VHalf THEN a + f - 1 ELSE a + f - 1 - 2 * VHalf
         /\ Ix(a, f) \in 0 .. 2 * VHalf - 1
<1> DEFINE m == 2 * VHalf
           x == a + (f - 1)
<1>1. m \in Nat \ {0} /\ a \in Nat /\ f \in Nat /\ a < m /\ f <= m /\ f >= 1
  BY VideoAssumption
<1>2. Ix(a, f) = x % m
  BY DEF Ix
<1>3. x = a + f - 1
  BY <1>1
<1> HIDE DEF m
<1>4. CASE x < m
  <2>1. x \in 0 .. m - 1
    BY <1>1, <1>4
  <2>2. x % m = x
    BY <1>1, <2>1, ModSmall
  <2> QED
    BY <1>1, <1>2, <1>3, <1>4, <2>2 DEF m
<1>5. CASE ~(x < m)
  <2>1. x \in m .. 2 * m - 1
    BY <1>1, <1>5
  <2>2. x % m = x - m
    BY <1>1, <2>1, ModOver
  <2> QED
    BY <1>1, <1>2, <1>3, <1>5, <2>2 DEF m
<1> QED
  BY <1>4, <1>5

\* How far one frame is ahead of another.
LEMMA IxAhead ==
  ASSUME NEW a \in 0 .. 2 * VHalf - 1, NEW f \in 1 .. MaxVFrames, NEW g \in 1 .. MaxVFrames
  PROVE  Vr!Ahead(Ix(a, f), Ix(a, g)) = IF f <= g THEN g - f ELSE g - f + 2 * VHalf
<1> DEFINE m == 2 * VHalf
           x == Ix(a, g) - Ix(a, f)
<1>1. m \in Nat \ {0} /\ a \in Nat /\ f \in Nat /\ g \in Nat /\ a < m /\ f <= m /\ f >= 1
      /\ g <= m /\ g >= 1
  BY VideoAssumption
<1>2. Vr!Ahead(Ix(a, f), Ix(a, g)) = x % m
  BY DEF Vr!Ahead, Vr!SeqMod
<1>3. /\ Ix(a, f) = IF a + f - 1 < m THEN a + f - 1 ELSE a + f - 1 - m
      /\ Ix(a, g) = IF a + g - 1 < m THEN a + g - 1 ELSE a + g - 1 - m
  BY IxIs
<1> HIDE DEF m
<1>4. x \in -(m - 1) .. m - 1 /\ x \in Int /\ (x = g - f \/ x = g - f + m \/ x = g - f - m)
  BY <1>1, <1>3
<1>5. g - f \in -(m - 1) .. m - 1
  BY <1>1
<1> HIDE DEF x
<1>6. CASE x >= 0
  <2>1. x \in 0 .. m - 1
    BY <1>4, <1>6
  <2>2. x % m = x
    BY <1>1, <2>1, ModSmall
  <2> QED
    BY <1>1, <1>2, <1>4, <1>5, <1>6, <2>2 DEF m
<1>7. CASE x < 0
  <2>1. x \in -m .. -1
    BY <1>1, <1>4, <1>7
  <2>2. x % m = x + m
    BY <1>1, <2>1, ModUnder
  <2> QED
    BY <1>1, <1>2, <1>4, <1>5, <1>7, <2>2 DEF m
<1> QED
  BY <1>4, <1>6, <1>7

\* Indices tell frames apart, and the comparisons order frames that are less than half
\* the indices apart.
LEMMA IxOrder ==
  ASSUME NEW a \in 0 .. 2 * VHalf - 1, NEW f \in 1 .. MaxVFrames, NEW g \in 1 .. MaxVFrames
  PROVE  /\ Ix(a, f) = Ix(a, g) => f = g
         /\ f - g < VHalf /\ g - f < VHalf
              => /\ Vr!gt(Ix(a, f), Ix(a, g)) <=> f > g
                 /\ Vr!lt(Ix(a, f), Ix(a, g)) <=> f < g
<1>1. VHalf \in Nat \ {0} /\ a \in Nat /\ f \in Nat /\ g \in Nat /\ a < 2 * VHalf
      /\ f <= 2 * VHalf /\ f >= 1 /\ g <= 2 * VHalf /\ g >= 1
  BY VideoAssumption
<1> DEFINE x == Ix(a, f)
           y == Ix(a, g)
<1>2. /\ x = IF a + f - 1 < 2 * VHalf THEN a + f - 1 ELSE a + f - 1 - 2 * VHalf
      /\ y = IF a + g - 1 < 2 * VHalf THEN a + g - 1 ELSE a + g - 1 - 2 * VHalf
  BY IxIs
<1> HIDE DEF x, y
<1>3. x = y => f = g
  BY <1>1, <1>2
<1>4. ASSUME f - g < VHalf, g - f < VHalf
      PROVE  /\ Vr!gt(x, y) <=> f > g
             /\ Vr!lt(x, y) <=> f < g
  BY <1>1, <1>2, <1>4 DEF Vr!gt, Vr!lt
<1> QED
  BY <1>3, <1>4 DEF x, y

\* The frames of an index.
LEMMA FrameOfIx ==
  ASSUME vnet.first \in 0 .. 2 * VHalf - 1, NEW c \in 1 .. MaxVFrames
  PROVE  /\ Vr!Index(c) = Ix(vnet.first, c)
         /\ Vr!FrameOf(Ix(vnet.first, c)) = {c}
         /\ Vr!The(Ix(vnet.first, c)) = c
<1>1. \A f \in 1 .. MaxVFrames : Vr!Index(f) = Ix(vnet.first, f)
  BY DEF Vr!Index, Vr!add, Vr!SeqMod, Ix
<1>2. \A f \in 1 .. MaxVFrames : Ix(vnet.first, f) = Ix(vnet.first, c) <=> f = c
  BY IxOrder
<1>3. Vr!FrameOf(Ix(vnet.first, c)) = {c}
  BY <1>1, <1>2 DEF Vr!FrameOf, Vr!Frames
<1>4. Vr!The(Ix(vnet.first, c)) = c
  BY <1>1, <1>2 DEF Vr!The, Vr!Frames
<1> QED
  BY <1>1, <1>3, <1>4

\* The invariant of a receiver r that is at the frame c of a console that begins with the
\* index a.
VrFields == {"on", "profiles", "profile", "cur", "prev", "complete", "lost", "refs", "src", "fec", "srcR", "fecR",
             "slots", "crash", "seen", "shown", "concealed", "dropped", "reported", "sound"}

\* The frames the decoder got.
ShownSet(r) == {r.shown[j] : j \in DOMAIN r.shown}
\* The console knows, or the viewer does.
Told(r) == ShownSet(r) \cup r.dropped \cup r.reported

\* The receiver is at the frame c, 0 for none; the last frame flushed is an earlier one, or c.
VrPlace(r, c, a) ==
  /\ c \in 0 .. MaxVFrames
  /\ r.cur = IF c = 0 THEN -1 ELSE Ix(a, c)
  /\ c = 0 => r.prev = -1 /\ r.refs = <<>>
  /\ c > 0 => r.on /\ r.profiles
  /\ r.complete \in Int
  /\ r.prev # -1 => r.complete = r.prev /\ \E p \in 1 .. c : r.prev = Ix(a, p)

\* The places of source and of code units that nothing was received for.
SrcMissing(r) == {u \in 1 .. r.src : u \in DOMAIN r.slots => r.slots[u] = 0}
FecMissing(r) == {u \in 1 .. r.fec : r.src + u \in DOMAIN r.slots => r.slots[r.src + u] = 0}

\* The slots hold units of the frame c and no others, and no unit is counted that has
\* none.
VrUnits(r, c) ==
  /\ r.src \in Nat /\ r.fec \in Nat /\ r.srcR \in Nat /\ r.fecR \in Nat
  /\ c > 0 => r.src = SrcUnits
  /\ r.slots \in Seq(Nat)
  /\ r.slots = <<>> \/ Len(r.slots) = r.src + r.fec
  /\ \A u \in DOMAIN r.slots : r.slots[u] \in {0, c}
  /\ r.srcR + Cardinality(SrcMissing(r)) <= r.src
  /\ r.fecR + Cardinality(FecMissing(r)) <= r.fec

\* What became of the frames.
VrShown(r, c) ==
  /\ r.shown \in Seq(1 .. MaxVFrames)
  /\ \A j, k \in DOMAIN r.shown : j < k => r.shown[j] < r.shown[k]
  /\ \A j \in DOMAIN r.shown : r.shown[j] <= c /\ (r.prev # r.cur => r.shown[j] < c)

\* A frame in the list of reference frames was shown, or the console knows it was not.
VrRefs(r, a) ==
  /\ r.refs \in Seq(Int)
  /\ \A k \in DOMAIN r.refs, g \in 1 .. MaxVFrames :
       Ix(a, g) = r.refs[k] => g \in ShownSet(r) \cup r.concealed
  /\ r.sound = TRUE

\* Nothing is owed of the frames before, nor of this one once it was flushed.
VrTold(r, c) ==
  ~r.crash /\ c > 0 =>
    /\ r.seen \in 1 .. c
    /\ \A g \in r.seen .. c - 1 : g \in Told(r)
    /\ r.prev = r.cur => c \in Told(r)

\* All of it.
VrOk(r, c, a) ==
  /\ DOMAIN r = VrFields
  /\ VrPlace(r, c, a) /\ VrUnits(r, c) /\ VrShown(r, c) /\ VrRefs(r, a) /\ VrTold(r, c)

\* Entries of the list of reference frames are the newest frame and older entries.
LEMMA RefsAre ==
  ASSUME NEW s \in Seq(Int), NEW x \in Int, NEW n \in Nat, n <= Len(s) + 1
  PROVE  /\ SubSeq(<<x>> \o s, 1, n) \in Seq(Int)
         /\ \A k \in DOMAIN SubSeq(<<x>> \o s, 1, n) :
              \/ SubSeq(<<x>> \o s, 1, n)[k] = x
              \/ \E j \in DOMAIN s : SubSeq(<<x>> \o s, 1, n)[k] = s[j]
<1> DEFINE t == <<x>> \o s
           w == SubSeq(t, 1, n)
<1>1. t \in Seq(Int) /\ Len(t) = Len(s) + 1 /\ Len(s) \in Nat
  OBVIOUS
<1>2. \A k \in 1 .. Len(s) + 1 : t[k] = IF k = 1 THEN x ELSE s[k - 1]
  OBVIOUS
<1> HIDE DEF t
<1>3. w \in Seq(Int) /\ Len(w) = n /\ \A k \in 1 .. n : w[k] = t[k]
  BY <1>1
<1>4. DOMAIN w = 1 .. n /\ DOMAIN s = 1 .. Len(s)
  BY <1>3
<1> HIDE DEF w
<1>5. ASSUME NEW k \in 1 .. n PROVE w[k] = x \/ \E j \in DOMAIN s : w[k] = s[j]
  <2>1. CASE k = 1
    BY <1>1, <1>2, <1>3, <2>1
  <2>2. CASE k # 1
    <3>1. k - 1 \in DOMAIN s /\ w[k] = s[k - 1]
      BY <1>1, <1>2, <1>3, <1>4, <2>2
    <3> QED
      BY <3>1
  <2> QED
    BY <2>1, <2>2
<1> QED
  BY <1>3, <1>4, <1>5 DEF w, t

\* A frame of which all is settled but that it was flushed.
VrDone(r, c, a) ==
  /\ DOMAIN r = VrFields
  /\ VrPlace(r, c, a) /\ VrUnits(r, c) /\ VrRefs(r, a)
  /\ r.shown \in Seq(1 .. MaxVFrames)
  /\ \A j, k \in DOMAIN r.shown : j < k => r.shown[j] < r.shown[k]
  /\ \A j \in DOMAIN r.shown : r.shown[j] <= c
  /\ ~r.crash => r.seen \in 1 .. c /\ \A g \in r.seen .. c : g \in Told(r)

\* It is flushed.
LEMMA FlushedOK ==
  ASSUME NEW c \in 1 .. MaxVFrames, NEW a \in 0 .. 2 * VHalf - 1, NEW r, VrDone(r, c, a)
  PROVE  LET q == Vr!Flushed(r)
         IN /\ VrOk(q, c, a)
            /\ q.cur = r.cur /\ q.prev = r.cur /\ q.crash = r.crash /\ q.seen = r.seen
            /\ q.shown = r.shown /\ q.concealed = r.concealed
<1> DEFINE q == [r EXCEPT !.prev = r.cur, !.complete = r.cur]
<1>1. DOMAIN r = VrFields
  BY DEF VrDone
<1>2. /\ DOMAIN q = VrFields /\ \A x \in VrFields \ {"prev", "complete"} : q[x] = r[x]
      /\ q.prev = r.cur /\ q.complete = r.cur
  BY <1>1 DEF VrFields
<1>3. Vr!Flushed(r) = q
  BY DEF Vr!Flushed
<1> HIDE DEF q
<1>4. /\ q.on = r.on /\ q.profiles = r.profiles
      /\ q.cur = r.cur /\ q.refs = r.refs /\ q.src = r.src /\ q.fec = r.fec /\ q.srcR = r.srcR
      /\ q.fecR = r.fecR /\ q.slots = r.slots /\ q.crash = r.crash /\ q.seen = r.seen
      /\ q.shown = r.shown /\ q.concealed = r.concealed /\ q.dropped = r.dropped
      /\ q.reported = r.reported /\ q.sound = r.sound
  BY <1>2 DEF VrFields
<1>5. c \in Nat /\ c > 0 /\ MaxVFrames \in Nat
  BY VideoAssumption
<1>6. VrPlace(q, c, a)
  <2>1. r.cur = Ix(a, c) /\ c \in 1 .. c /\ r.cur \in Int
    BY <1>5, IxIs DEF VrDone, VrPlace
  <2> QED
    BY <1>2, <1>4, <1>5, <2>1 DEF VrDone, VrPlace
<1>7. VrUnits(q, c)
  BY <1>4 DEF VrDone, VrUnits, SrcMissing, FecMissing
<1>8. VrShown(q, c)
  BY <1>2, <1>4 DEF VrDone, VrShown
<1>9. VrRefs(q, a)
  BY <1>4 DEF VrDone, VrRefs, ShownSet
<1>10. VrTold(q, c)
  <2>1. Told(q) = Told(r)
    BY <1>4 DEF Told, ShownSet
  <2> SUFFICES ASSUME ~q.crash
               PROVE  q.seen \in 1 .. c /\ (\A g \in q.seen .. c - 1 : g \in Told(q)) /\ c \in Told(q)
    BY DEF VrTold
  <2>2. r.seen \in 1 .. c /\ \A g \in r.seen .. c : g \in Told(r)
    BY <1>4 DEF VrDone
  <2> QED
    BY <1>4, <1>5, <2>1, <2>2
<1>11. VrOk(q, c, a)
  BY <1>2, <1>6, <1>7, <1>8, <1>9, <1>10 DEF VrOk
<1> QED
  BY <1>2, <1>3, <1>4, <1>11

\* It becomes a reference frame.
LEMMA AddRefOK ==
  ASSUME NEW c \in 1 .. MaxVFrames, NEW a \in 0 .. 2 * VHalf - 1, NEW r, VrOk(r, c, a),
         c \in ShownSet(r) \cup r.concealed
  PROVE  LET q == Vr!add_ref_frame(r)
         IN /\ VrOk(q, c, a)
            /\ q.cur = r.cur /\ q.prev = r.prev /\ q.crash = r.crash /\ q.seen = r.seen
<1> DEFINE n == IF Len(r.refs) < RefFrames THEN Len(r.refs) + 1 ELSE RefFrames
           z == SubSeq(<<r.cur>> \o r.refs, 1, n)
           q == [r EXCEPT !.refs = z]
<1>1. DOMAIN r = VrFields
  BY DEF VrOk
<1>2. DOMAIN q = VrFields /\ (\A x \in VrFields \ {"refs"} : q[x] = r[x]) /\ q.refs = z
  BY <1>1 DEF VrFields
<1>3. Vr!add_ref_frame(r) = q
  BY DEF Vr!add_ref_frame
<1>4. c \in Nat /\ c > 0 /\ r.cur = Ix(a, c) /\ r.cur \in Int
  BY IxIs, VideoAssumption DEF VrOk, VrPlace
<1>5. r.refs \in Seq(Int) /\ Len(r.refs) \in Nat
  BY DEF VrOk, VrRefs
<1>6. n \in Nat /\ n <= Len(r.refs) + 1
  BY <1>5, VideoAssumption
<1> HIDE DEF n
<1>7. /\ z \in Seq(Int)
      /\ \A k \in DOMAIN z : z[k] = r.cur \/ \E j \in DOMAIN r.refs : z[k] = r.refs[j]
  BY <1>4, <1>5, <1>6, RefsAre
<1> HIDE DEF q, z
<1>8. /\ q.on = r.on /\ q.profiles = r.profiles
      /\ q.cur = r.cur /\ q.prev = r.prev /\ q.complete = r.complete
      /\ q.src = r.src /\ q.fec = r.fec /\ q.srcR = r.srcR
      /\ q.fecR = r.fecR /\ q.slots = r.slots /\ q.crash = r.crash /\ q.seen = r.seen
      /\ q.shown = r.shown /\ q.concealed = r.concealed /\ q.dropped = r.dropped
      /\ q.reported = r.reported /\ q.sound = r.sound
  BY <1>2 DEF VrFields
<1>9. VrPlace(q, c, a) /\ VrUnits(q, c) /\ VrShown(q, c)
  BY <1>8 DEF VrOk, VrPlace, VrUnits, VrShown, SrcMissing, FecMissing
<1>10. VrTold(q, c)
  BY <1>8 DEF VrOk, VrTold, Told, ShownSet
<1>11. VrRefs(q, a)
  <2>1. ShownSet(q) \cup q.concealed = ShownSet(r) \cup r.concealed
    BY <1>8 DEF ShownSet
  <2>2. ASSUME NEW k \in DOMAIN z, NEW g \in 1 .. MaxVFrames, Ix(a, g) = z[k]
        PROVE  g \in ShownSet(r) \cup r.concealed
    <3>1. CASE z[k] = r.cur
      <4>1. g = c
        BY <1>4, <2>2, <3>1, IxOrder
      <4> QED
        BY <4>1
    <3>2. CASE \E j \in DOMAIN r.refs : z[k] = r.refs[j]
      BY <2>2, <3>2 DEF VrOk, VrRefs
    <3> QED
      BY <1>7, <3>1, <3>2
  <2>3. q.sound = TRUE
    BY <1>8 DEF VrOk, VrRefs
  <2> QED
    BY <1>2, <1>7, <2>1, <2>2, <2>3 DEF VrRefs
<1>12. VrOk(q, c, a)
  BY <1>2, <1>9, <1>10, <1>11 DEF VrOk
<1> QED
  BY <1>3, <1>8, <1>12

\* Elements of a sequence.
LEMMA InRange ==
  ASSUME NEW S, NEW s \in Seq(S)
  PROVE  \A j \in DOMAIN s : s[j] \in S
  OBVIOUS

\* A frame newer than all of an increasing list goes to its end.
LEMMA IncreasingAppend ==
  ASSUME NEW m \in Nat, NEW c \in 1 .. m, NEW s \in Seq(1 .. m),
         \A j, k \in DOMAIN s : j < k => s[j] < s[k], \A j \in DOMAIN s : s[j] < c
  PROVE  /\ Append(s, c) \in Seq(1 .. m)
         /\ \A j, k \in DOMAIN Append(s, c) : j < k => Append(s, c)[j] < Append(s, c)[k]
         /\ \A j \in DOMAIN Append(s, c) : Append(s, c)[j] <= c
         /\ {Append(s, c)[j] : j \in DOMAIN Append(s, c)} = {s[j] : j \in DOMAIN s} \cup {c}
<1> DEFINE n == Len(s)
           z == Append(s, c)
<1>1. /\ z \in Seq(1 .. m) /\ DOMAIN z = 1 .. n + 1 /\ DOMAIN s = 1 .. n /\ n \in Nat
      /\ \A j \in 1 .. n : z[j] = s[j]
      /\ z[n + 1] = c
  OBVIOUS
<1>2. \A j \in 1 .. n : s[j] \in 1 .. m
  BY <1>1, InRange
<1> HIDE DEF n, z
<1> USE DEF n
<1>3. ASSUME NEW j \in 1 .. n PROVE s[j] \in Nat /\ s[j] < c
  <2>1. j \in DOMAIN s /\ s[j] \in 1 .. m
    BY <1>1, <1>2
  <2> QED
    BY <2>1
<1> HIDE DEF n
<1>4. \A j, k \in 1 .. n : j < k => z[j] < z[k]
  BY <1>1
<1>5. 1 .. n + 1 = (1 .. n) \cup {n + 1}
  BY <1>1
<1>6. ASSUME NEW j \in DOMAIN z, NEW k \in DOMAIN z, j < k PROVE z[j] < z[k]
  <2>1. j \in 1 .. n
    BY <1>1, <1>6
  <2>2. CASE k = n + 1
    BY <1>1, <1>3, <2>1, <2>2
  <2>3. CASE k # n + 1
    <3>1. k \in 1 .. n
      BY <1>1, <2>3
    <3> QED
      BY <1>4, <1>6, <2>1, <3>1
  <2> QED
    BY <2>2, <2>3
<1>7. ASSUME NEW j \in DOMAIN z PROVE z[j] <= c
  <2>1. CASE j = n + 1
    BY <1>1, <2>1
  <2>2. CASE j # n + 1
    <3>1. j \in 1 .. n
      BY <1>1, <2>2
    <3> QED
      BY <1>1, <1>3, <3>1
  <2> QED
    BY <2>1, <2>2
<1>8. {z[j] : j \in DOMAIN z} = {s[j] : j \in DOMAIN s} \cup {c}
  BY <1>1, <1>5
<1> QED
  BY <1>1, <1>6, <1>7, <1>8 DEF z

\* A frame of which all units are there is given to the decoder with a known reference.
LEMMA ShownOK ==
  ASSUME NEW c \in 1 .. MaxVFrames, vnet.first \in 0 .. 2 * VHalf - 1,
         NEW r, VrOk(r, c, vnet.first), r.prev # r.cur,
         \A u \in 1 .. r.src : r.slots[u] = c,
         NEW ref, ref # -1 => \E k \in DOMAIN r.refs : r.refs[k] = ref
  PROVE  LET q == Vr!Shown(r, ref)
         IN /\ VrOk(q, c, vnet.first)
            /\ q.cur = r.cur /\ q.prev = r.cur /\ q.crash = r.crash /\ q.seen = r.seen
<1> DEFINE a == vnet.first
           z == Append(r.shown, Vr!The(r.cur))
           b == /\ r.sound
                /\ \A u \in 1 .. r.src : r.slots[u] \in Vr!FrameOf(r.cur)
                /\ ref # -1 => Vr!FrameOf(ref) \subseteq {r.shown[k] : k \in DOMAIN r.shown} \cup r.concealed
           y == [r EXCEPT !.lost = 0, !.shown = z, !.sound = b]
<1>1. DOMAIN r = VrFields
  BY DEF VrOk
<1> HIDE DEF z, b
<1>2. /\ DOMAIN y = VrFields /\ \A x \in VrFields \ {"lost", "shown", "sound"} : y[x] = r[x]
      /\ y.shown = z /\ y.sound = b
  BY <1>1 DEF VrFields
<1>3. Vr!Shown(r, ref) = Vr!add_ref_frame(Vr!Flushed(y))
  BY DEF Vr!Shown, Vr!None, z, b
<1>4. c \in Nat /\ c > 0 /\ r.cur = Ix(a, c)
  BY VideoAssumption DEF VrOk, VrPlace
<1>5. Vr!FrameOf(r.cur) = {c} /\ Vr!The(r.cur) = c
  BY <1>4, FrameOfIx
<1>6. ASSUME ref # -1
      PROVE  Vr!FrameOf(ref) \subseteq ShownSet(r) \cup r.concealed
  <2>1. \A g \in 1 .. MaxVFrames : Vr!Index(g) = Ix(a, g)
    BY FrameOfIx
  <2> QED
    BY <1>6, <2>1 DEF VrOk, VrRefs, Vr!FrameOf, Vr!Frames
<1>7. b = TRUE
  BY <1>5, <1>6 DEF VrOk, VrRefs, ShownSet, b
<1>8. /\ r.shown \in Seq(1 .. MaxVFrames)
      /\ \A j, k \in DOMAIN r.shown : j < k => r.shown[j] < r.shown[k]
      /\ \A j \in DOMAIN r.shown : r.shown[j] < c
  BY DEF VrOk, VrShown
<1>9. /\ z \in Seq(1 .. MaxVFrames)
      /\ \A j, k \in DOMAIN z : j < k => z[j] < z[k]
      /\ \A j \in DOMAIN z : z[j] <= c
      /\ {z[j] : j \in DOMAIN z} = ShownSet(r) \cup {c}
  <2>1. MaxVFrames \in Nat /\ z = Append(r.shown, c)
    BY <1>5, VideoAssumption DEF z
  <2> DEFINE s == r.shown
             w == Append(s, c)
  <2>2. /\ MaxVFrames \in Nat /\ s \in Seq(1 .. MaxVFrames)
        /\ \A j, k \in DOMAIN s : j < k => s[j] < s[k]
        /\ \A j \in DOMAIN s : s[j] < c
    BY <1>8, <2>1
  <2>3. /\ z = w /\ ShownSet(r) = {s[j] : j \in DOMAIN s}
    BY <2>1 DEF ShownSet
  <2> HIDE DEF s
  <2>4. /\ w \in Seq(1 .. MaxVFrames)
        /\ \A j, k \in DOMAIN w : j < k => w[j] < w[k]
        /\ \A j \in DOMAIN w : w[j] <= c
        /\ {w[j] : j \in DOMAIN w} = {s[j] : j \in DOMAIN s} \cup {c}
    BY <2>2, IncreasingAppend
  <2> HIDE DEF w, s
  <2>5. {z[j] : j \in DOMAIN z} = {w[j] : j \in DOMAIN w}
    BY <2>3
  <2> QED
    BY <2>3, <2>4, <2>5
<1> HIDE DEF y
<1>12. /\ y.on = r.on /\ y.profiles = r.profiles
       /\ y.cur = r.cur /\ y.prev = r.prev /\ y.complete = r.complete /\ y.refs = r.refs
       /\ y.src = r.src /\ y.fec = r.fec /\ y.srcR = r.srcR
       /\ y.fecR = r.fecR /\ y.slots = r.slots /\ y.crash = r.crash /\ y.seen = r.seen
       /\ y.concealed = r.concealed /\ y.dropped = r.dropped /\ y.reported = r.reported
  BY <1>2 DEF VrFields
<1>13. ShownSet(y) = ShownSet(r) \cup {c} /\ Told(y) = Told(r) \cup {c}
  <2>1. ShownSet(y) = ShownSet(r) \cup {c}
    BY <1>2, <1>9 DEF ShownSet
  <2> QED
    BY <2>1, <1>12 DEF Told
<1>14. VrPlace(y, c, a) /\ VrUnits(y, c)
  BY <1>12 DEF VrOk, VrPlace, VrUnits, SrcMissing, FecMissing
<1>15. VrRefs(y, a)
  BY <1>2, <1>7, <1>12, <1>13 DEF VrOk, VrRefs
<1>16. ~y.crash => y.seen \in 1 .. c /\ \A g \in y.seen .. c : g \in Told(y)
  BY <1>4, <1>12, <1>13 DEF VrOk, VrTold
<1>17. VrDone(y, c, a)
  BY <1>2, <1>9, <1>14, <1>15, <1>16 DEF VrDone
<1> DEFINE w == Vr!Flushed(y)
<1>18. /\ VrOk(w, c, a) /\ w.cur = y.cur /\ w.prev = y.cur /\ w.crash = y.crash /\ w.seen = y.seen
       /\ w.shown = y.shown /\ w.concealed = y.concealed
  BY <1>17, FlushedOK
<1>19. c \in ShownSet(w) \cup w.concealed
  BY <1>13, <1>18 DEF ShownSet
<1> HIDE DEF w
<1>20. /\ VrOk(Vr!add_ref_frame(w), c, a)
       /\ Vr!add_ref_frame(w).cur = w.cur /\ Vr!add_ref_frame(w).prev = w.prev
       /\ Vr!add_ref_frame(w).crash = w.crash /\ Vr!add_ref_frame(w).seen = w.seen
  BY <1>18, <1>19, AddRefOK
<1> QED
  BY <1>3, <1>12, <1>18, <1>20 DEF w

\* A frame without a known reference is dropped, which the viewer sees.
LEMMA DroppedOK ==
  ASSUME NEW c \in 1 .. MaxVFrames, vnet.first \in 0 .. 2 * VHalf - 1,
         NEW r, VrOk(r, c, vnet.first)
  PROVE  LET q == Vr!Dropped(r)
         IN /\ VrOk(q, c, vnet.first)
            /\ q.cur = r.cur /\ q.prev = r.cur /\ q.crash = r.crash /\ q.seen = r.seen
<1> DEFINE a == vnet.first
           z == r.dropped \cup Vr!FrameOf(r.cur)
           y == [r EXCEPT !.lost = @ + 1, !.dropped = z]
<1>1. DOMAIN r = VrFields
  BY DEF VrOk
<1>2. /\ DOMAIN y = VrFields /\ \A x \in VrFields \ {"lost", "dropped"} : y[x] = r[x]
      /\ y.dropped = z
  BY <1>1 DEF VrFields
<1>3. Vr!Dropped(r) = Vr!Flushed(y)
  BY DEF Vr!Dropped
<1>4. c \in Nat /\ c > 0 /\ r.cur = Ix(a, c)
  BY VideoAssumption DEF VrOk, VrPlace
<1>5. z = r.dropped \cup {c}
  BY <1>4, FrameOfIx
<1> HIDE DEF z, y
<1>12. /\ y.on = r.on /\ y.profiles = r.profiles
       /\ y.cur = r.cur /\ y.prev = r.prev /\ y.complete = r.complete /\ y.refs = r.refs
       /\ y.src = r.src /\ y.fec = r.fec /\ y.srcR = r.srcR
       /\ y.fecR = r.fecR /\ y.slots = r.slots /\ y.crash = r.crash /\ y.seen = r.seen
       /\ y.concealed = r.concealed /\ y.shown = r.shown /\ y.reported = r.reported /\ y.sound = r.sound
  BY <1>2 DEF VrFields
<1>13. ShownSet(y) = ShownSet(r) /\ Told(y) = Told(r) \cup {c}
  BY <1>2, <1>5, <1>12 DEF ShownSet, Told
<1>14. VrPlace(y, c, a) /\ VrUnits(y, c)
  BY <1>12 DEF VrOk, VrPlace, VrUnits, SrcMissing, FecMissing
<1>15. VrRefs(y, a)
  BY <1>12, <1>13 DEF VrOk, VrRefs
<1>16. ~y.crash => y.seen \in 1 .. c /\ \A g \in y.seen .. c : g \in Told(y)
  BY <1>4, <1>12, <1>13 DEF VrOk, VrTold
<1>17. VrDone(y, c, a)
  BY <1>2, <1>12, <1>14, <1>15, <1>16 DEF VrDone, VrOk, VrShown
<1> QED
  BY <1>3, <1>12, <1>17, FlushedOK

\* All frames up to the current one are reported that were owed.
LEMMA FecFailedOK ==
  ASSUME NEW c \in 1 .. MaxVFrames, vnet.first \in 0 .. 2 * VHalf - 1,
         NEW r, VrOk(r, c, vnet.first)
  PROVE  LET q == Vr!FecFailed(r)
         IN /\ VrOk(q, c, vnet.first)
            /\ q.cur = r.cur /\ q.prev = r.cur /\ q.crash = r.crash /\ q.seen = r.seen
<1> DEFINE a == vnet.first
           n == Vr!NextExpected(r)
           z == r.reported \cup {f \in Vr!Frames : Vr!Ahead(n, Vr!Index(f)) <= Vr!Ahead(n, r.cur)}
           x == r.concealed \cup Vr!FrameOf(r.cur)
           d == r.lost + r.cur - n + 1
           y == [r EXCEPT !.reported = z, !.lost = d, !.concealed = x]
<1>1. DOMAIN r = VrFields
  BY DEF VrOk
<1>2. Vr!FecFailed(r) = Vr!add_ref_frame(Vr!Flushed(y))
  <2>1. Vr!Corrupt(r, n, r.cur) = [r EXCEPT !.reported = z]
    BY DEF Vr!Corrupt
  <2>2. [r EXCEPT !.reported = z].lost = r.lost /\ [r EXCEPT !.reported = z].concealed = r.concealed
    OBVIOUS
  <2> HIDE DEF n
  <2>3. [[r EXCEPT !.reported = z] EXCEPT !.lost = d, !.concealed = x] = y
    BY <1>1 DEF VrFields
  <2> QED
    BY <2>1, <2>2, <2>3 DEF Vr!FecFailed, n
<1> HIDE DEF z, x, d
<1>3. /\ DOMAIN y = VrFields /\ \A k \in VrFields \ {"lost", "reported", "concealed"} : y[k] = r[k]
      /\ y.reported = z /\ y.concealed = x
  BY <1>1 DEF VrFields
<1>4. c \in Nat /\ c > 0 /\ r.cur = Ix(a, c)
  BY VideoAssumption DEF VrOk, VrPlace
<1>5. x = r.concealed \cup {c} /\ Vr!Index(c) = r.cur
  BY <1>4, FrameOfIx DEF x
<1>6. r.reported \subseteq z /\ c \in z
  <2>1. Vr!Ahead(n, r.cur) \in Int
    <3> DEFINE m == r.cur - n
    <3>1. r.cur \in Int /\ n \in Int /\ VHalf \in Nat \ {0}
      <4>1. r.cur \in Int /\ VHalf \in Nat \ {0} /\ r.complete \in Int
        BY <1>4, IxIs, VideoAssumption DEF VrOk, VrPlace
      <4> DEFINE k == r.complete + 1
      <4>2. k \in Int /\ n = k % (2 * VHalf)
        BY <4>1 DEF Vr!NextExpected, Vr!add, Vr!SeqMod
      <4> HIDE DEF k
      <4> QED
        BY <4>1, <4>2
    <3>2. m \in Int /\ Vr!Ahead(n, r.cur) = m % (2 * VHalf)
      BY <3>1 DEF Vr!Ahead, Vr!SeqMod
    <3> HIDE DEF m
    <3> QED
      BY <3>1, <3>2
  <2> HIDE DEF n
  <2> QED
    BY <1>5, <2>1 DEF z, Vr!Frames
<1> HIDE DEF y
<1>12. /\ y.on = r.on /\ y.profiles = r.profiles
       /\ y.cur = r.cur /\ y.prev = r.prev /\ y.complete = r.complete /\ y.refs = r.refs
       /\ y.src = r.src /\ y.fec = r.fec /\ y.srcR = r.srcR
       /\ y.fecR = r.fecR /\ y.slots = r.slots /\ y.crash = r.crash /\ y.seen = r.seen
       /\ y.shown = r.shown /\ y.dropped = r.dropped /\ y.sound = r.sound
  BY <1>3 DEF VrFields
<1>13. ShownSet(y) = ShownSet(r) /\ Told(r) \subseteq Told(y) /\ c \in Told(y)
  <2>1. ShownSet(y) = ShownSet(r)
    BY <1>12 DEF ShownSet
  <2> QED
    BY <1>3, <1>6, <1>12, <2>1 DEF Told
<1>14. VrPlace(y, c, a) /\ VrUnits(y, c)
  BY <1>12 DEF VrOk, VrPlace, VrUnits, SrcMissing, FecMissing
<1>15. VrRefs(y, a)
  BY <1>3, <1>5, <1>12, <1>13 DEF VrOk, VrRefs
<1>16. ~y.crash => y.seen \in 1 .. c /\ \A g \in y.seen .. c : g \in Told(y)
  BY <1>4, <1>12, <1>13 DEF VrOk, VrTold
<1>17. VrDone(y, c, a)
  BY <1>3, <1>12, <1>14, <1>15, <1>16 DEF VrDone, VrOk, VrShown
<1> DEFINE w == Vr!Flushed(y)
<1>18. /\ VrOk(w, c, a) /\ w.cur = y.cur /\ w.prev = y.cur /\ w.crash = y.crash /\ w.seen = y.seen
       /\ w.shown = y.shown /\ w.concealed = y.concealed
  BY <1>17, FlushedOK
<1>19. c \in ShownSet(w) \cup w.concealed
  BY <1>3, <1>5, <1>18
<1> HIDE DEF w
<1>20. /\ VrOk(Vr!add_ref_frame(w), c, a)
       /\ Vr!add_ref_frame(w).cur = w.cur /\ Vr!add_ref_frame(w).prev = w.prev
       /\ Vr!add_ref_frame(w).crash = w.crash /\ Vr!add_ref_frame(w).seen = w.seen
  BY <1>18, <1>19, AddRefOK
<1> QED
  BY <1>2, <1>12, <1>18, <1>20 DEF w

\* A frame of which all units are there is given to the decoder, or dropped.
LEMMA CompleteOK ==
  ASSUME NEW c \in 1 .. MaxVFrames, vnet.first \in 0 .. 2 * VHalf - 1,
         NEW r, VrOk(r, c, vnet.first), r.prev # r.cur,
         \A u \in 1 .. r.src : r.slots[u] = c,
         NEW q \in {Vr!Shown(r, Vr!None)} \cup UNION {Vr!Referring(r, d) : d \in 0 .. RefFrames - 1}
  PROVE  /\ VrOk(q, c, vnet.first)
         /\ q.cur = r.cur /\ q.prev = r.cur /\ q.crash = r.crash /\ q.seen = r.seen
<1>1. \/ q = Vr!Shown(r, -1)
      \/ q = Vr!Dropped(r)
      \/ \E ref : q = Vr!Shown(r, ref) /\ \E k \in DOMAIN r.refs : r.refs[k] = ref
  <2>1. CASE q = Vr!Shown(r, Vr!None)
    BY <2>1 DEF Vr!None
  <2>2. ASSUME NEW d \in 0 .. RefFrames - 1, q \in Vr!Referring(r, d)
        PROVE  \/ q = Vr!Dropped(r)
               \/ \E i : q = Vr!Shown(r, Vr!RefIndex(r, i)) /\ Vr!have_ref_frame(r, Vr!RefIndex(r, i))
    BY <2>2 DEF Vr!Referring
  <2> QED
    BY <2>1, <2>2 DEF Vr!have_ref_frame
<1>2. CASE q = Vr!Shown(r, -1)
  BY <1>2, ShownOK
<1>3. CASE q = Vr!Dropped(r)
  BY <1>3, DroppedOK
<1>4. ASSUME NEW ref, q = Vr!Shown(r, ref), \E k \in DOMAIN r.refs : r.refs[k] = ref
      PROVE  /\ VrOk(q, c, vnet.first)
             /\ q.cur = r.cur /\ q.prev = r.cur /\ q.crash = r.crash /\ q.seen = r.seen
  BY <1>4, ShownOK
<1> QED
  BY <1>1, <1>2, <1>3, <1>4

\* The places nothing came for are finitely many.
LEMMA MissingFinite ==
  ASSUME NEW r, r.src \in Nat, r.fec \in Nat
  PROVE  /\ IsFiniteSet(SrcMissing(r)) /\ Cardinality(SrcMissing(r)) \in Nat
         /\ IsFiniteSet(FecMissing(r)) /\ Cardinality(FecMissing(r)) \in Nat
<1>1. \A n \in Nat : IsFiniteSet(1 .. n)
  <2> SUFFICES ASSUME NEW n \in Nat PROVE IsFiniteSet(1 .. n)
    OBVIOUS
  <2> QED
    BY FS_Interval
<1>2. SrcMissing(r) \subseteq 1 .. r.src /\ FecMissing(r) \subseteq 1 .. r.fec
  BY DEF SrcMissing, FecMissing
<1>3. IsFiniteSet(SrcMissing(r)) /\ IsFiniteSet(FecMissing(r))
  BY <1>1, <1>2, FS_Subset
<1> QED
  BY <1>3, FS_CardinalityType

\* If as many source units came as there are, none is missing.
LEMMA AllSourceUnits ==
  ASSUME NEW c \in 1 .. MaxVFrames, NEW r, VrUnits(r, c), r.srcR >= r.src
  PROVE  \A u \in 1 .. r.src : r.slots[u] = c
<1>1. /\ r.src \in Nat /\ r.fec \in Nat /\ r.srcR \in Nat
      /\ r.srcR + Cardinality(SrcMissing(r)) <= r.src
      /\ \A u \in DOMAIN r.slots : r.slots[u] \in {0, c}
  BY DEF VrUnits
<1>2. IsFiniteSet(SrcMissing(r)) /\ Cardinality(SrcMissing(r)) \in Nat
  BY <1>1, MissingFinite
<1>3. Cardinality(SrcMissing(r)) = 0
  BY <1>1, <1>2
<1>4. SrcMissing(r) = {}
  BY <1>2, <1>3, FS_EmptySet
<1> QED
  BY <1>1, <1>4 DEF SrcMissing

\* What the erasure code restores are units of the frame.
LEMMA RestoredOK ==
  ASSUME NEW c \in 1 .. MaxVFrames, vnet.first \in 0 .. 2 * VHalf - 1,
         NEW r, VrOk(r, c, vnet.first), r.slots # <<>>
  PROVE  LET q == Vr!Restored(r)
         IN /\ VrOk(q, c, vnet.first)
            /\ \A u \in 1 .. q.src : q.slots[u] = c
            /\ q.cur = r.cur /\ q.prev = r.prev /\ q.crash = r.crash /\ q.seen = r.seen
<1> DEFINE a == vnet.first
           z == [u \in DOMAIN r.slots |-> IF u <= r.src /\ r.slots[u] = 0 THEN c ELSE r.slots[u]]
           y == [r EXCEPT !.slots = z]
<1>1. DOMAIN r = VrFields
  BY DEF VrOk
<1>2. c \in Nat /\ c > 0 /\ r.cur = Ix(a, c)
  BY VideoAssumption DEF VrOk, VrPlace
<1>3. Vr!Restored(r) = y
  <2>1. Vr!The(r.cur) = c
    BY <1>2, FrameOfIx
  <2> QED
    BY <2>1 DEF Vr!Restored
<1>4. /\ r.src \in Nat /\ r.fec \in Nat /\ r.srcR \in Nat /\ r.fecR \in Nat
      /\ r.src = SrcUnits /\ r.slots \in Seq(Nat) /\ Len(r.slots) = r.src + r.fec
      /\ \A u \in DOMAIN r.slots : r.slots[u] \in {0, c}
      /\ r.srcR + Cardinality(SrcMissing(r)) <= r.src
      /\ r.fecR + Cardinality(FecMissing(r)) <= r.fec
  BY <1>2 DEF VrOk, VrUnits
<1> DEFINE n == r.src + r.fec
<1>5. n \in Nat /\ DOMAIN r.slots = 1 .. n
  <2>1. DOMAIN r.slots = 1 .. Len(r.slots)
    BY <1>4
  <2> QED
    BY <1>4, <2>1
<1>6. DOMAIN z = 1 .. n /\ \A u \in 1 .. n : z[u] \in {0, c} /\ z[u] \in Nat
  <2> HIDE DEF n
  <2>1. ASSUME NEW u \in 1 .. n PROVE z[u] \in {0, c}
    <3>1. r.slots[u] \in {0, c}
      BY <1>4, <1>5
    <3> QED
      BY <1>5, <3>1
  <2> QED
    BY <1>2, <1>5, <2>1
<1>7. \A u \in 1 .. n : z[u] = IF u <= r.src /\ r.slots[u] = 0 THEN c ELSE r.slots[u]
  BY <1>5
<1>8. z \in Seq(Nat) /\ Len(z) = n
  <2>1. z \in [1 .. n -> Nat]
    BY <1>5, <1>6
  <2> HIDE DEF z, n
  <2> QED
    BY <1>5, <2>1
<1> HIDE DEF z
<1>9. /\ DOMAIN y = VrFields /\ \A k \in VrFields \ {"slots"} : y[k] = r[k]
      /\ y.slots = z
  BY <1>1 DEF VrFields
<1> HIDE DEF y
<1>10. /\ y.on = r.on /\ y.profiles = r.profiles
       /\ y.cur = r.cur /\ y.prev = r.prev /\ y.complete = r.complete /\ y.refs = r.refs
       /\ y.src = r.src /\ y.fec = r.fec /\ y.srcR = r.srcR /\ y.concealed = r.concealed
       /\ y.fecR = r.fecR /\ y.reported = r.reported /\ y.crash = r.crash /\ y.seen = r.seen
       /\ y.shown = r.shown /\ y.dropped = r.dropped /\ y.sound = r.sound
  BY <1>9 DEF VrFields
<1>11. \A u \in 1 .. y.src : y.slots[u] = c
  <2>1. \A u \in 1 .. r.src : u \in 1 .. n /\ u <= r.src
    BY <1>4
  <2> HIDE DEF n
  <2> QED
    BY <1>4, <1>5, <1>7, <1>9, <1>10, <2>1
<1>12. SrcMissing(y) \subseteq SrcMissing(r)
  <2>1. \A u \in 1 .. r.src : u \in 1 .. n
    BY <1>4
  <2> HIDE DEF n
  <2> QED
    BY <1>2, <1>5, <1>6, <1>9, <1>10, <1>11, <2>1 DEF SrcMissing
<1>13. FecMissing(y) \subseteq FecMissing(r)
  <2>1. ASSUME NEW u \in 1 .. r.fec
        PROVE  r.src + u \in 1 .. n /\ ~(r.src + u <= r.src)
    <3> DEFINE e == r.src
               f == r.fec
    <3>1. e \in Nat /\ f \in Nat /\ u \in 1 .. f
      BY <1>4
    <3> HIDE DEF e, f
    <3>2. e + u \in 1 .. e + f /\ ~(e + u <= e)
      BY <3>1
    <3> QED
      BY <3>2 DEF e, f
  <2> HIDE DEF n
  <2> QED
    BY <1>5, <1>6, <1>7, <1>9, <1>10, <2>1 DEF FecMissing
<1>14. VrUnits(y, c)
  <2>1. /\ IsFiniteSet(SrcMissing(r)) /\ Cardinality(SrcMissing(r)) \in Nat
        /\ IsFiniteSet(FecMissing(r)) /\ Cardinality(FecMissing(r)) \in Nat
        /\ Cardinality(SrcMissing(y)) \in Nat /\ Cardinality(FecMissing(y)) \in Nat
    BY <1>4, <1>10, MissingFinite
  <2>2. /\ Cardinality(SrcMissing(y)) <= Cardinality(SrcMissing(r))
        /\ Cardinality(FecMissing(y)) <= Cardinality(FecMissing(r))
    BY <1>12, <1>13, <2>1, FS_Subset
  <2>3. /\ y.srcR + Cardinality(SrcMissing(y)) <= y.src
        /\ y.fecR + Cardinality(FecMissing(y)) <= y.fec
    <3> DEFINE i == Cardinality(SrcMissing(y))
               j == Cardinality(FecMissing(y))
               k == Cardinality(SrcMissing(r))
               l == Cardinality(FecMissing(r))
    <3>1. i \in Nat /\ j \in Nat /\ k \in Nat /\ l \in Nat /\ i <= k /\ j <= l
      BY <2>1, <2>2
    <3>2. /\ r.srcR + k <= r.src /\ r.fecR + l <= r.fec
          /\ r.src \in Nat /\ r.fec \in Nat /\ r.srcR \in Nat /\ r.fecR \in Nat
      BY <1>4
    <3> HIDE DEF i, j, k, l
    <3> DEFINE e == r.src
               f == r.fec
               p == r.srcR
               o == r.fecR
    <3>4. /\ p + k <= e /\ o + l <= f
          /\ e \in Nat /\ f \in Nat /\ p \in Nat /\ o \in Nat
      BY <3>2
    <3> HIDE DEF e, f, p, o
    <3>5. p + i <= e /\ o + j <= f
      BY <3>1, <3>4
    <3>3. r.srcR + i <= r.src /\ r.fecR + j <= r.fec
      BY <3>5 DEF e, f, p, o
    <3> QED
      BY <1>10, <3>3 DEF i, j
  <2> QED
    BY <1>4, <1>6, <1>8, <1>9, <1>10, <2>3 DEF VrUnits
<1>15. VrPlace(y, c, a) /\ VrShown(y, c)
  BY <1>10 DEF VrOk, VrPlace, VrShown
<1>16. VrRefs(y, a)
  BY <1>10 DEF VrOk, VrRefs, ShownSet
<1>17. VrTold(y, c)
  BY <1>10 DEF VrOk, VrTold, Told, ShownSet
<1>18. VrOk(y, c, a)
  BY <1>9, <1>14, <1>15, <1>16, <1>17 DEF VrOk
<1> QED
  BY <1>3, <1>10, <1>11, <1>18

\* Whatever a flush does with a frame leaves all in order; the process is lost only if
\* there are no slots.
LEMMA FlushOK ==
  ASSUME NEW c \in 1 .. MaxVFrames, vnet.first \in 0 .. 2 * VHalf - 1,
         NEW r, VrOk(r, c, vnet.first), r.prev # r.cur,
         NEW q \in Vr!chiaki_video_receiver_flush_frame(r)
  PROVE  /\ VrOk(q, c, vnet.first)
         /\ q.cur = r.cur /\ q.seen = r.seen
         /\ q.crash \/ q.prev = q.cur
<1>1. c \in Nat /\ c > 0 /\ SrcUnits \in Nat \ {0}
  BY VideoAssumption
<1>2. VrUnits(r, c) /\ r.src = SrcUnits
  BY <1>1 DEF VrOk, VrUnits
<1> DEFINE Full(x) == {Vr!Shown(x, Vr!None)} \cup UNION {Vr!Referring(x, d) : d \in 0 .. RefFrames - 1}
<1>3. \/ r.srcR >= r.src /\ q \in Full(r)
      \/ r.slots = <<>> /\ q = [r EXCEPT !.crash = TRUE]
      \/ q = Vr!FecFailed(r)
      \/ r.slots # <<>> /\ q \in Full(Vr!Restored(r))
  BY <1>1, <1>2 DEF Vr!chiaki_video_receiver_flush_frame
<1>4. CASE r.srcR >= r.src /\ q \in Full(r)
  <2>1. \A u \in 1 .. r.src : r.slots[u] = c
    BY <1>2, <1>4, AllSourceUnits
  <2> QED
    BY <1>4, <2>1, CompleteOK
<1>5. CASE r.slots = <<>> /\ q = [r EXCEPT !.crash = TRUE]
  <2>1. DOMAIN r = VrFields
    BY DEF VrOk
  <2>2. DOMAIN q = VrFields /\ (\A k \in VrFields \ {"crash"} : q[k] = r[k]) /\ q.crash = TRUE
    BY <1>5, <2>1 DEF VrFields
  <2>3. /\ q.on = r.on /\ q.profiles = r.profiles
        /\ q.cur = r.cur /\ q.prev = r.prev /\ q.complete = r.complete /\ q.refs = r.refs
        /\ q.src = r.src /\ q.fec = r.fec /\ q.srcR = r.srcR /\ q.concealed = r.concealed
        /\ q.fecR = r.fecR /\ q.slots = r.slots /\ q.seen = r.seen
        /\ q.shown = r.shown /\ q.sound = r.sound
    BY <2>2 DEF VrFields
  <2>4. VrPlace(q, c, vnet.first) /\ VrUnits(q, c) /\ VrShown(q, c)
    BY <2>3 DEF VrOk, VrPlace, VrShown, VrUnits, SrcMissing, FecMissing
  <2>5. VrRefs(q, vnet.first)
    BY <2>3 DEF VrOk, VrRefs, ShownSet
  <2>6. VrTold(q, c)
    BY <2>2 DEF VrTold
  <2> QED
    BY <2>2, <2>3, <2>4, <2>5, <2>6 DEF VrOk
<1>6. CASE q = Vr!FecFailed(r)
  BY <1>6, FecFailedOK
<1>7. CASE r.slots # <<>> /\ q \in Full(Vr!Restored(r))
  <2> DEFINE x == Vr!Restored(r)
  <2>1. /\ VrOk(x, c, vnet.first)
        /\ \A u \in 1 .. x.src : x.slots[u] = c
        /\ x.cur = r.cur /\ x.prev = r.prev /\ x.crash = r.crash /\ x.seen = r.seen
    BY <1>7, RestoredOK
  <2>2. q \in Full(x)
    BY <1>7
  <2> HIDE DEF x
  <2>3. x.prev # x.cur
    BY <2>1
  <2>4. /\ VrOk(q, c, vnet.first)
        /\ q.cur = x.cur /\ q.prev = x.cur /\ q.crash = x.crash /\ q.seen = x.seen
    BY <2>1, <2>2, <2>3, CompleteOK
  <2> QED
    BY <2>1, <2>4
<1> QED
  BY <1>3, <1>4, <1>5, <1>6, <1>7

-----------------------------------------------------------------------------
\* A unit of the current frame.
LEMMA PutUnitOK ==
  ASSUME NEW c \in 1 .. MaxVFrames, NEW a \in 0 .. 2 * VHalf - 1, NEW r, VrOk(r, c, a),
         NEW u \in Nat \ {0}
  PROVE  LET q == Vr!chiaki_frame_processor_put_unit(r, c, u)
         IN /\ VrOk(q, c, a)
            /\ q.cur = r.cur /\ q.prev = r.prev /\ q.seen = r.seen /\ q.crash = r.crash
<1>1. CASE u > Len(r.slots) \/ r.slots[u] # 0
  <2>1. Vr!chiaki_frame_processor_put_unit(r, c, u) = r
    BY <1>1 DEF Vr!chiaki_frame_processor_put_unit
  <2> QED
    BY <2>1
<1>2. CASE ~(u > Len(r.slots) \/ r.slots[u] # 0)
  <2> DEFINE n == Len(r.slots)
             z == [r.slots EXCEPT ![u] = c]
             s == IF u <= r.src THEN r.srcR + 1 ELSE r.srcR
             t == IF u <= r.src THEN r.fecR ELSE r.fecR + 1
             y == [r EXCEPT !.slots = z, !.srcR = s, !.fecR = t]
  <2>1. DOMAIN r = VrFields
    BY DEF VrOk
  <2>2. /\ r.src \in Nat /\ r.fec \in Nat /\ r.srcR \in Nat /\ r.fecR \in Nat
        /\ r.src = SrcUnits /\ r.slots \in Seq(Nat)
        /\ \A i \in DOMAIN r.slots : r.slots[i] \in {0, c}
        /\ r.srcR + Cardinality(SrcMissing(r)) <= r.src
        /\ r.fecR + Cardinality(FecMissing(r)) <= r.fec
        /\ c \in Nat /\ c > 0
    BY VideoAssumption DEF VrOk, VrUnits
  <2>3. n \in Nat /\ DOMAIN r.slots = 1 .. n /\ u \in 1 .. n /\ r.slots[u] = 0 /\ n = r.src + r.fec
    <3>1. n \in Nat /\ DOMAIN r.slots = 1 .. n
      BY <2>2
    <3>2. u \in 1 .. n /\ r.slots[u] = 0 /\ n # 0
      BY <1>2, <3>1
    <3>3. r.slots # <<>>
      BY <3>2
    <3>4. n = r.src + r.fec
      BY <3>3 DEF VrOk, VrUnits
    <3> QED
      BY <3>1, <3>2, <3>4
  <2> HIDE DEF n
  <2>4. Vr!chiaki_frame_processor_put_unit(r, c, u) = y
    <3>1. CASE u <= r.src
      <4>1. Vr!chiaki_frame_processor_put_unit(r, c, u) = [r EXCEPT !.slots[u] = c, !.srcR = @ + 1]
        BY <1>2, <3>1 DEF Vr!chiaki_frame_processor_put_unit
      <4>2. s = r.srcR + 1 /\ t = r.fecR
        BY <3>1
      <4> HIDE DEF s, t
      <4>3. [r EXCEPT !.slots[u] = c, !.srcR = r.srcR + 1] = y
        BY <2>1, <4>2 DEF VrFields
      <4> QED
        BY <4>1, <4>3
    <3>2. CASE ~(u <= r.src)
      <4>1. Vr!chiaki_frame_processor_put_unit(r, c, u) = [r EXCEPT !.slots[u] = c, !.fecR = @ + 1]
        BY <1>2, <3>2 DEF Vr!chiaki_frame_processor_put_unit
      <4>2. s = r.srcR /\ t = r.fecR + 1
        BY <3>2
      <4> HIDE DEF s, t
      <4>3. [r EXCEPT !.slots[u] = c, !.fecR = r.fecR + 1] = y
        BY <2>1, <4>2 DEF VrFields
      <4> QED
        BY <4>1, <4>3
    <3> QED
      BY <3>1, <3>2
  <2>5. /\ DOMAIN z = 1 .. n /\ z \in Seq(Nat) /\ Len(z) = n
        /\ \A i \in 1 .. n : z[i] = IF i = u THEN c ELSE r.slots[i]
        /\ \A i \in 1 .. n : z[i] \in {0, c}
    <3>1. /\ DOMAIN z = 1 .. n
          /\ \A i \in 1 .. n : z[i] = IF i = u THEN c ELSE r.slots[i]
          /\ \A i \in 1 .. n : z[i] \in {0, c}
      BY <2>2, <2>3
    <3> HIDE DEF z
    <3>4. ASSUME NEW i \in 1 .. n PROVE z[i] \in Nat
      BY <2>2, <3>1
    <3>2. z \in [1 .. n -> Nat]
      <4>1. z = [i \in 1 .. n |-> z[i]]
        BY <3>1 DEF z
      <4> QED
        BY <3>4, <4>1
    <3>3. z \in Seq(Nat) /\ Len(z) = n
      BY <2>3, <3>2
    <3> QED
      BY <3>1, <3>3
  <2>6. s \in Nat /\ t \in Nat
    <3>1. r.srcR \in Nat /\ r.fecR \in Nat
      BY <2>2
    <3>2. s \in {r.srcR, r.srcR + 1} /\ t \in {r.fecR, r.fecR + 1}
      OBVIOUS
    <3> HIDE DEF s, t
    <3> QED
      BY <3>1, <3>2
  <2> HIDE DEF z, s, t
  <2>7. /\ DOMAIN y = VrFields /\ \A k \in VrFields \ {"slots", "srcR", "fecR"} : y[k] = r[k]
        /\ y.slots = z /\ y.srcR = s /\ y.fecR = t
    BY <2>1 DEF VrFields
  <2> HIDE DEF y
  <2>8. /\ y.on = r.on /\ y.profiles = r.profiles
        /\ y.cur = r.cur /\ y.prev = r.prev /\ y.complete = r.complete /\ y.refs = r.refs
        /\ y.src = r.src /\ y.fec = r.fec /\ y.concealed = r.concealed
        /\ y.reported = r.reported /\ y.crash = r.crash /\ y.seen = r.seen
        /\ y.shown = r.shown /\ y.dropped = r.dropped /\ y.sound = r.sound
    BY <2>7 DEF VrFields
  <2>9. s + Cardinality(SrcMissing(y)) <= r.src /\ t + Cardinality(FecMissing(y)) <= r.fec
    <3> DEFINE A == SrcMissing(r)
               B == FecMissing(r)
               e == r.src
               f == r.fec
               p == r.srcR
               o == r.fecR
               x == r.slots
    <3>1. /\ IsFiniteSet(A) /\ Cardinality(A) \in Nat
          /\ IsFiniteSet(B) /\ Cardinality(B) \in Nat
      BY <2>2, MissingFinite
    <3>2. /\ e \in Nat /\ f \in Nat /\ p \in Nat /\ o \in Nat
          /\ p + Cardinality(A) <= e /\ o + Cardinality(B) <= f
      BY <2>2
    <3>3. n = e + f /\ DOMAIN x = 1 .. n /\ x[u] = 0
      BY <2>3
    <3>4. /\ A = {i \in 1 .. e : i \in 1 .. n => x[i] = 0}
          /\ B = {i \in 1 .. f : e + i \in 1 .. n => x[e + i] = 0}
      BY <3>3 DEF SrcMissing, FecMissing
    <3>5. /\ SrcMissing(y) = {i \in 1 .. e : i \in 1 .. n => z[i] = 0}
          /\ FecMissing(y) = {i \in 1 .. f : e + i \in 1 .. n => z[e + i] = 0}
      BY <2>5, <2>7, <2>8 DEF SrcMissing, FecMissing
    <3>6. \A i \in 1 .. n : z[i] = IF i = u THEN c ELSE x[i]
      BY <2>5
    <3>7. /\ u <= e => s = p + 1 /\ t = o
          /\ ~(u <= e) => s = p /\ t = o + 1
      BY DEF s, t
    <3> HIDE DEF e, f, p, o, x
    <3>8. u \in 1 .. e + f /\ c # 0
      BY <2>2, <2>3, <3>3
    <3>9. CASE u <= e
      <4>1. \A i \in 1 .. f : e + i # u
        BY <3>2, <3>9
      <4>2. u \in A /\ SrcMissing(y) = A \ {u}
        BY <3>2, <3>3, <3>4, <3>5, <3>6, <3>8, <3>9
      <4>3. FecMissing(y) = B
        BY <3>4, <3>5, <3>6, <4>1
      <4>4. Cardinality(SrcMissing(y)) = Cardinality(A) - 1
        BY <3>1, <4>2, FS_RemoveElement
      <4>5. s + (Cardinality(A) - 1) <= e /\ t + Cardinality(B) <= f
        <5> DEFINE i == Cardinality(A)
                   j == Cardinality(B)
        <5>1. i \in Nat /\ j \in Nat /\ p + i <= e /\ o + j <= f
          BY <3>1, <3>2
        <5> HIDE DEF i, j
        <5>2. s + (i - 1) <= e /\ t + j <= f
          BY <3>2, <3>7, <3>9, <5>1
        <5> QED
          BY <5>2 DEF i, j
      <4> QED
        BY <4>3, <4>4, <4>5 DEF e, f
    <3>10. CASE ~(u <= e)
      <4> DEFINE w == u - e
      <4>1. w \in 1 .. f /\ e + w = u /\ \A i \in 1 .. f : e + i = u <=> i = w
        BY <3>2, <3>8, <3>10
      <4> HIDE DEF w
      <4>2. \A i \in 1 .. e : i # u
        BY <3>2, <3>8, <3>10
      <4>3. w \in B /\ FecMissing(y) = B \ {w}
        BY <3>3, <3>4, <3>5, <3>6, <3>8, <4>1
      <4>4. SrcMissing(y) = A
        BY <3>4, <3>5, <3>6, <4>2
      <4>5. Cardinality(FecMissing(y)) = Cardinality(B) - 1
        BY <3>1, <4>3, FS_RemoveElement
      <4>6. s + Cardinality(A) <= e /\ t + (Cardinality(B) - 1) <= f
        <5> DEFINE i == Cardinality(A)
                   j == Cardinality(B)
        <5>1. i \in Nat /\ j \in Nat /\ p + i <= e /\ o + j <= f
          BY <3>1, <3>2
        <5> HIDE DEF i, j
        <5>2. s + i <= e /\ t + (j - 1) <= f
          BY <3>2, <3>7, <3>10, <5>1
        <5> QED
          BY <5>2 DEF i, j
      <4> QED
        BY <4>4, <4>5, <4>6 DEF e, f
    <3> QED
      BY <3>9, <3>10
  <2>10. VrUnits(y, c)
    BY <2>2, <2>3, <2>5, <2>6, <2>7, <2>8, <2>9 DEF VrUnits
  <2>11. VrPlace(y, c, a) /\ VrShown(y, c)
    BY <2>8 DEF VrOk, VrPlace, VrShown
  <2>12. VrRefs(y, a)
    BY <2>8 DEF VrOk, VrRefs, ShownSet
  <2>13. VrTold(y, c)
    BY <2>8 DEF VrOk, VrTold, Told, ShownSet
  <2>14. VrOk(y, c, a)
    BY <2>7, <2>10, <2>11, <2>12, <2>13 DEF VrOk
  <2> QED
    BY <2>4, <2>8, <2>14
<1> QED
  BY <1>1, <1>2

\* The index after, and before.
LEMMA IxNext ==
  ASSUME NEW a \in 0 .. 2 * VHalf - 1, NEW f \in 1 .. MaxVFrames, f + 1 \in 1 .. MaxVFrames
  PROVE  /\ (Ix(a, f) + 1) % (2 * VHalf) = Ix(a, f + 1)
         /\ (Ix(a, f + 1) - 1) % (2 * VHalf) = Ix(a, f)
<1> DEFINE m == 2 * VHalf
           x == Ix(a, f)
           y == Ix(a, f + 1)
<1>1. /\ m \in Nat \ {0} /\ m > 1 /\ x \in 0 .. m - 1 /\ y \in 0 .. m - 1
      /\ y = IF x + 1 < m THEN x + 1 ELSE 0
  <2>1. VHalf \in Nat \ {0} /\ a \in Nat /\ f \in Nat /\ a < 2 * VHalf
        /\ f + 1 <= 2 * VHalf /\ f >= 1
    BY VideoAssumption
  <2>2. /\ x = IF a + f - 1 < 2 * VHalf THEN a + f - 1 ELSE a + f - 1 - 2 * VHalf
        /\ y = IF a + f < 2 * VHalf THEN a + f ELSE a + f - 2 * VHalf
    <3>1. y = IF a + (f + 1) - 1 < 2 * VHalf THEN a + (f + 1) - 1 ELSE a + (f + 1) - 1 - 2 * VHalf
      BY IxIs
    <3>2. a + (f + 1) - 1 = a + f
      BY <2>1
    <3>3. x = IF a + f - 1 < 2 * VHalf THEN a + f - 1 ELSE a + f - 1 - 2 * VHalf
      BY IxIs
    <3> QED
      BY <3>1, <3>2, <3>3
  <2> HIDE DEF x, y
  <2> QED
    BY <2>1, <2>2
<1> HIDE DEF m, x, y
<1>2. CASE x + 1 < m
  <2>1. y = x + 1 /\ x + 1 \in 0 .. m - 1
    BY <1>1, <1>2
  <2>2. (x + 1) % m = x + 1 /\ y - 1 = x /\ x % m = x
    BY <1>1, <2>1, ModSmall
  <2> QED
    BY <2>1, <2>2 DEF m, x, y
<1>3. CASE ~(x + 1 < m)
  <2>1. y = 0 /\ x + 1 = m /\ x + 1 \in m .. 2 * m - 1 /\ x = m - 1 /\ -1 \in -m .. -1
    BY <1>1, <1>3
  <2>2. (x + 1) % m = x + 1 - m
    BY <1>1, <2>1, ModOver
  <2>3. (-1) % m = -1 + m
    BY <1>1, <2>1, ModUnder
  <2>4. (x + 1) % m = y
    BY <1>1, <2>1, <2>2
  <2>5. (y - 1) % m = x
    BY <1>1, <2>1, <2>3
  <2> QED
    BY <2>4, <2>5 DEF m, x, y
<1> QED
  BY <1>2, <1>3

\* Frames that were passed over are reported when a newer one begins.
LEMMA GapOK ==
  ASSUME vnet.first \in 0 .. 2 * VHalf - 1, NEW c \in 0 .. MaxVFrames, NEW f \in 1 .. MaxVFrames,
         c < f, NEW r, DOMAIN r = VrFields,
         c > 0 /\ ~r.crash => /\ f - c < VHalf
                              /\ r.complete = Ix(vnet.first, c) /\ r.cur = Ix(vnet.first, c)
  PROVE  LET y == Vr!Gap(r, Ix(vnet.first, f))
         IN /\ DOMAIN y = VrFields
            /\ \A k \in VrFields \ {"reported"} : y[k] = r[k]
            /\ r.reported \subseteq y.reported
            /\ c > 0 /\ ~r.crash => c + 1 .. f - 1 \subseteq y.reported
<1> DEFINE a == vnet.first
           i == Ix(a, f)
           n == Vr!NextExpected(r)
           x == r.reported \cup {g \in Vr!Frames : Vr!Ahead(n, Vr!Index(g)) <= Vr!Ahead(n, (i - 1) % Vr!SeqMod)}
           y == Vr!Gap(r, i)
<1>1. y \in {r, [r EXCEPT !.reported = x]}
  BY DEF Vr!Gap, Vr!Corrupt
<1>2. /\ DOMAIN y = VrFields
      /\ \A k \in VrFields \ {"reported"} : y[k] = r[k]
      /\ y.reported \in {r.reported, x}
  <2> HIDE DEF x, y
  <2>1. CASE y = r
    BY <2>1
  <2>2. CASE y = [r EXCEPT !.reported = x]
    BY <2>2 DEF VrFields
  <2> QED
    BY <1>1, <2>1, <2>2
<1> SUFFICES /\ r.reported \subseteq y.reported
             /\ c > 0 /\ ~r.crash => c + 1 .. f - 1 \subseteq y.reported
  BY <1>2
<1>3. CASE c = 0 \/ r.crash
  <2>1. r.reported \subseteq x
    OBVIOUS
  <2> HIDE DEF x, y
  <2> QED
    BY <1>2, <1>3, <2>1
<1>4. CASE c > 0 /\ ~r.crash
  <2>1. /\ c \in Nat /\ f \in Nat /\ c >= 1 /\ f <= MaxVFrames /\ c + 1 <= f /\ VHalf \in Nat \ {0}
        /\ MaxVFrames \in Nat
    BY <1>4, VideoAssumption
  <2>2. c \in 1 .. MaxVFrames /\ c + 1 \in 1 .. MaxVFrames
    BY <2>1
  <2>3. n = Ix(a, c + 1)
    BY <1>4, <2>2, IxNext DEF Vr!NextExpected, Vr!add, Vr!SeqMod
  <2>4. CASE f = c + 1
    <3>1. c + 1 .. f - 1 = {}
      BY <2>1, <2>4
    <3>2. r.reported \subseteq x
      OBVIOUS
    <3> HIDE DEF x, y
    <3> QED
      BY <1>2, <3>1, <3>2
  <2>5. CASE f # c + 1
    <3>1. f - 1 \in 1 .. MaxVFrames /\ (f - 1) + 1 = f
      BY <2>1, <2>5
    <3>2. (i - 1) % Vr!SeqMod = Ix(a, f - 1)
      <4> DEFINE g == f - 1
      <4>1. g \in 1 .. MaxVFrames /\ g + 1 = f
        BY <3>1
      <4> HIDE DEF g
      <4>2. (Ix(a, g + 1) - 1) % (2 * VHalf) = Ix(a, g)
        BY <4>1, IxNext
      <4>3. (i - 1) % (2 * VHalf) = Ix(a, g)
        BY <4>1, <4>2
      <4> HIDE DEF i
      <4> QED
        BY <4>3 DEF Vr!SeqMod, g
    <3>3. Vr!gt(i, n)
      <4> DEFINE g == c + 1
      <4>1. g \in 1 .. MaxVFrames /\ f - g < VHalf /\ g - f < VHalf /\ f > g
        BY <1>4, <2>1, <2>2, <2>5
      <4> HIDE DEF g
      <4>2. Vr!gt(Ix(a, f), Ix(a, g))
        BY <4>1, IxOrder
      <4> QED
        BY <2>3, <4>2 DEF g
    <3>4. r.cur # -1
      BY <1>4, <2>2, IxIs
    <3>5. y = [r EXCEPT !.reported = x]
      BY <3>3, <3>4 DEF Vr!Gap, Vr!Corrupt, Vr!None
    <3>6. ASSUME NEW g \in c + 1 .. f - 1 PROVE g \in x
      <4>1. g \in 1 .. MaxVFrames /\ c + 1 <= g /\ g <= f - 1 /\ c + 1 <= f - 1
        BY <2>1, <3>6
      <4>2. Vr!Index(g) = Ix(a, g)
        BY <4>1, FrameOfIx
      <4>3. Vr!Ahead(n, Ix(a, g)) = g - (c + 1)
        BY <2>2, <2>3, <4>1, IxAhead
      <4>4. Vr!Ahead(n, Ix(a, f - 1)) = f - 1 - (c + 1)
        <5> DEFINE h == f - 1
        <5>1. h \in 1 .. MaxVFrames /\ c + 1 <= h
          BY <3>1, <4>1
        <5> HIDE DEF h
        <5>2. Vr!Ahead(n, Ix(a, h)) = h - (c + 1)
          BY <2>2, <2>3, <5>1, IxAhead
        <5> QED
          BY <5>2 DEF h
      <4>5. Vr!Ahead(n, Vr!Index(g)) <= Vr!Ahead(n, (i - 1) % Vr!SeqMod)
        BY <2>1, <3>2, <4>1, <4>2, <4>3, <4>4
      <4> HIDE DEF i, n
      <4> QED
        BY <4>1, <4>5 DEF Vr!Frames
    <3>7. r.reported \subseteq x
      OBVIOUS
    <3> HIDE DEF x, y
    <3>8. y.reported = x
      BY <3>5 DEF VrFields
    <3> QED
      BY <1>2, <3>6, <3>7, <3>8
  <2> QED
    BY <2>4, <2>5
<1> QED
  BY <1>3, <1>4

\* Slots that are all empty lack no more units than there are.
LEMMA EmptySlots ==
  ASSUME NEW f \in 1 .. MaxVFrames, NEW r, NEW m \in Nat, r.src = SrcUnits, r.fec = m, r.srcR = 0, r.fecR = 0,
         NEW b \in BOOLEAN, r.slots = [k \in 1 .. (IF b THEN SrcUnits + m ELSE 0) |-> 0]
  PROVE  VrUnits(r, f)
<1>1. SrcUnits \in Nat
  BY VideoAssumption
<1> DEFINE n == IF b THEN SrcUnits + m ELSE 0
           z == r.slots
<1>2. n \in Nat /\ z = [k \in 1 .. n |-> 0] /\ (n = 0 \/ n = r.src + r.fec)
  BY <1>1
<1> HIDE DEF n, z
<1>3. z \in Seq(Nat) /\ Len(z) = n /\ DOMAIN z = 1 .. n /\ \A u \in DOMAIN z : z[u] = 0
  <2>1. z \in [1 .. n -> Nat]
    BY <1>2
  <2>2. DOMAIN z = 1 .. n /\ \A u \in DOMAIN z : z[u] = 0
    BY <1>2
  <2> QED
    BY <1>2, <2>1, <2>2
<1>4. z = <<>> \/ Len(z) = r.src + r.fec
  BY <1>2, <1>3
<1>5. Cardinality(SrcMissing(r)) \in Nat /\ Cardinality(SrcMissing(r)) <= SrcUnits
  <2>1. SrcMissing(r) \subseteq 1 .. SrcUnits
    BY DEF SrcMissing
  <2>2. IsFiniteSet(1 .. SrcUnits) /\ Cardinality(1 .. SrcUnits) = SrcUnits
    <3>1. 1 \in Int /\ SrcUnits \in Int /\ SrcUnits >= 0
      BY <1>1
    <3>2. IsFiniteSet(1 .. SrcUnits)
      BY <3>1, FS_Interval
    <3>3. Cardinality(1 .. SrcUnits) = IF 1 > SrcUnits THEN 0 ELSE SrcUnits - 1 + 1
      BY <3>1, FS_Interval
    <3> QED
      BY <3>1, <3>2, <3>3
  <2>3. Cardinality(SrcMissing(r)) <= SrcUnits
    <3> DEFINE A == SrcMissing(r)
               B == 1 .. SrcUnits
    <3>1. A \in SUBSET B /\ IsFiniteSet(B)
      BY <2>1, <2>2
    <3>2. Cardinality(B) = SrcUnits
      BY <2>2
    <3> HIDE DEF A, B
    <3>3. Cardinality(A) <= Cardinality(B)
      BY <3>1, FS_Subset
    <3> QED
      BY <3>2, <3>3 DEF A
  <2> QED
    BY <1>1, <2>3, MissingFinite
<1>6. Cardinality(FecMissing(r)) \in Nat /\ Cardinality(FecMissing(r)) <= m
  <2>1. FecMissing(r) \subseteq 1 .. m
    BY DEF FecMissing
  <2>2. IsFiniteSet(1 .. m) /\ Cardinality(1 .. m) = m
    <3>1. 1 \in Int /\ m \in Int /\ m >= 0
      OBVIOUS
    <3>2. IsFiniteSet(1 .. m)
      BY <3>1, FS_Interval
    <3>3. Cardinality(1 .. m) = IF 1 > m THEN 0 ELSE m - 1 + 1
      BY <3>1, FS_Interval
    <3> QED
      BY <3>1, <3>2, <3>3
  <2>3. Cardinality(FecMissing(r)) <= m
    <3> DEFINE A == FecMissing(r)
               B == 1 .. m
    <3>1. A \in SUBSET B /\ IsFiniteSet(B)
      BY <2>1, <2>2
    <3>2. Cardinality(B) = m
      BY <2>2
    <3> HIDE DEF A, B
    <3>3. Cardinality(A) <= Cardinality(B)
      BY <3>1, FS_Subset
    <3> QED
      BY <3>2, <3>3 DEF A
  <2> QED
    BY <1>1, <2>3, MissingFinite
<1>7. /\ r.srcR + Cardinality(SrcMissing(r)) <= r.src
      /\ r.fecR + Cardinality(FecMissing(r)) <= r.fec
  BY <1>5, <1>6
<1> QED
  BY <1>1, <1>3, <1>4, <1>7 DEF VrUnits, z

\* A newer frame begins.
LEMMA AllocOK ==
  ASSUME vnet.first \in 0 .. 2 * VHalf - 1, NEW c \in 0 .. MaxVFrames, NEW f \in 1 .. MaxVFrames,
         c < f, f - c < VHalf \/ c = 0, NEW r, VrOk(r, c, vnet.first),
         c > 0 => r.crash \/ r.prev = r.cur,
         c = 0 => r.seen = f /\ r.on /\ r.profiles,
         NEW mem \in BOOLEAN
  PROVE  LET i == Ix(vnet.first, f)
             x == Vr!chiaki_frame_processor_alloc_frame([Vr!Gap(r, i) EXCEPT !.cur = i], f, mem)
         IN /\ VrOk(x, f, vnet.first)
            /\ x.seen = r.seen /\ x.crash = r.crash /\ x.cur = i
<1> DEFINE a == vnet.first
           i == Ix(a, f)
           g == Vr!Gap(r, i)
           m == IF Vr!FecUnits(f) < 1 THEN 1 ELSE Vr!FecUnits(f)
           z == [k \in 1 .. (IF mem THEN SrcUnits + m ELSE 0) |-> 0]
           y == [g EXCEPT !.cur = i]
           x == [y EXCEPT !.src = SrcUnits, !.fec = m, !.srcR = 0, !.fecR = 0, !.slots = z]
<1>1. x = Vr!chiaki_frame_processor_alloc_frame([Vr!Gap(r, i) EXCEPT !.cur = i], f, mem)
  BY DEF Vr!chiaki_frame_processor_alloc_frame
<1>2. c \in Nat /\ f \in Nat /\ MaxVFrames \in Nat /\ c < f /\ f >= 1 /\ VHalf \in Nat \ {0}
  BY VideoAssumption
<1>3. m \in Nat
  BY <1>2 DEF Vr!FecUnits
<1>4. c > 0 => c \in 1 .. MaxVFrames /\ r.cur = Ix(a, c) /\ f - c < VHalf
  BY <1>2 DEF VrOk, VrPlace
<1>5. c > 0 /\ ~r.crash => r.complete = Ix(a, c) /\ r.cur = Ix(a, c) /\ f - c < VHalf
  <2> SUFFICES ASSUME c > 0, ~r.crash PROVE r.complete = Ix(a, c)
    BY <1>4
  <2>1. r.prev = Ix(a, c) /\ r.prev # -1
    BY <1>4, IxIs
  <2> QED
    BY <2>1 DEF VrOk, VrPlace
<1>6. /\ DOMAIN g = VrFields
      /\ \A k \in VrFields \ {"reported"} : g[k] = r[k]
      /\ r.reported \subseteq g.reported
      /\ c > 0 /\ ~r.crash => c + 1 .. f - 1 \subseteq g.reported
  <2>1. DOMAIN r = VrFields
    BY DEF VrOk
  <2> QED
    BY <1>2, <1>5, <2>1, GapOK
<1> HIDE DEF g, m, z
<1>7. /\ DOMAIN y = VrFields /\ \A k \in VrFields \ {"cur"} : y[k] = g[k]
      /\ y.cur = i
  BY <1>6 DEF VrFields
<1> HIDE DEF y
<1>8. /\ DOMAIN x = VrFields /\ \A k \in VrFields \ {"src", "fec", "srcR", "fecR", "slots"} : x[k] = y[k]
      /\ x.src = SrcUnits /\ x.fec = m /\ x.srcR = 0 /\ x.fecR = 0 /\ x.slots = z
  BY <1>7 DEF VrFields
<1> HIDE DEF x, i
<1>9. /\ x.on = r.on /\ x.profiles = r.profiles /\ x.cur = i /\ x.prev = r.prev /\ x.complete = r.complete
      /\ x.refs = r.refs /\ x.concealed = r.concealed /\ x.crash = r.crash /\ x.seen = r.seen
      /\ x.shown = r.shown /\ x.dropped = r.dropped /\ x.sound = r.sound
      /\ x.reported = g.reported
  BY <1>6, <1>7, <1>8 DEF VrFields
<1>10. VrUnits(x, f)
  BY <1>3, <1>8, EmptySlots DEF z
<1>11. /\ r.prev # -1 => r.complete = r.prev /\ \E p \in 1 .. c : r.prev = Ix(a, p)
       /\ r.complete \in Int
  BY DEF VrOk, VrPlace
<1>12. r.prev # i
  <2>1. i # -1
    BY IxIs DEF i
  <2>2. ASSUME NEW p \in 1 .. c, r.prev = Ix(a, p), r.prev = i PROVE FALSE
    <3>1. p \in 1 .. MaxVFrames /\ p # f
      BY <1>2
    <3>2. Ix(a, p) = Ix(a, f)
      BY <2>2 DEF i
    <3> QED
      BY <3>1, <3>2, IxOrder
  <2> QED
    BY <1>11, <2>1, <2>2
<1>13. VrPlace(x, f, a)
  <2>1. r.prev # -1 => \E p \in 1 .. f : r.prev = Ix(a, p)
    <3>1. \A p \in 1 .. c : p \in 1 .. f
      BY <1>2
    <3> QED
      BY <1>11, <3>1
  <2>2. x.cur = Ix(a, f)
    BY <1>9 DEF i
  <2>3. r.on /\ r.profiles
    BY <1>2 DEF VrOk, VrPlace
  <2> QED
    BY <1>2, <1>9, <1>11, <2>1, <2>2, <2>3 DEF VrPlace
<1>14. VrShown(x, f)
  <2>1. /\ r.shown \in Seq(1 .. MaxVFrames)
        /\ \A j, k \in DOMAIN r.shown : j < k => r.shown[j] < r.shown[k]
        /\ \A j \in DOMAIN r.shown : r.shown[j] <= c
    BY DEF VrOk, VrShown
  <2>2. ASSUME NEW j \in DOMAIN r.shown PROVE r.shown[j] < f /\ r.shown[j] <= f
    <3>1. r.shown[j] \in 1 .. MaxVFrames
      BY <2>1, InRange
    <3>2. r.shown[j] <= c
      BY <2>1
    <3> DEFINE e == r.shown[j]
    <3> HIDE DEF e
    <3>3. e \in Nat /\ e <= c
      BY <1>2, <3>1, <3>2 DEF e
    <3>4. e < f /\ e <= f
      BY <1>2, <3>3
    <3> QED
      BY <3>4 DEF e
  <2> QED
    BY <1>9, <2>1, <2>2 DEF VrShown
<1>15. VrRefs(x, a)
  BY <1>9 DEF VrOk, VrRefs, ShownSet
<1>16. VrTold(x, f)
  <2> SUFFICES ASSUME ~r.crash
               PROVE  r.seen \in 1 .. f /\ \A h \in r.seen .. f - 1 : h \in Told(x)
    BY <1>9, <1>12 DEF VrTold
  <2>1. Told(r) \subseteq Told(x) /\ g.reported \subseteq Told(x)
    <3>1. ShownSet(x) = ShownSet(r)
      BY <1>9 DEF ShownSet
    <3> QED
      BY <1>6, <1>9, <3>1 DEF Told
  <2>2. CASE c = 0
    BY <1>2, <2>2
  <2>3. CASE c > 0
    <3>1. r.seen \in 1 .. c /\ (\A h \in r.seen .. c - 1 : h \in Told(r)) /\ c \in Told(r)
      BY <2>3 DEF VrOk, VrTold
    <3>2. \A h \in c + 1 .. f - 1 : h \in Told(x)
      BY <1>6, <2>1, <2>3
    <3> DEFINE e == r.seen
    <3>3. e \in 1 .. c /\ (\A h \in e .. c - 1 : h \in Told(x)) /\ c \in Told(x)
      BY <2>1, <3>1
    <3> HIDE DEF e
    <3>4. ASSUME NEW h \in e .. f - 1 PROVE h \in e .. c - 1 \/ h = c \/ h \in c + 1 .. f - 1
      BY <1>2, <3>3
    <3>5. e \in 1 .. f
      BY <1>2, <3>3
    <3>6. \A h \in e .. f - 1 : h \in Told(x)
      BY <3>2, <3>3, <3>4
    <3> QED
      BY <3>5, <3>6 DEF e
  <2> QED
    BY <1>2, <2>2, <2>3
<1>17. VrOk(x, f, a)
  BY <1>8, <1>10, <1>13, <1>14, <1>15, <1>16 DEF VrOk
<1> QED
  BY <1>1, <1>9, <1>17 DEF i

\* The fields that nothing above is about.
LEMMA OtherFields ==
  ASSUME NEW c, NEW a, NEW r, VrOk(r, c, a), NEW q, DOMAIN q = VrFields,
         \A k \in VrFields \ {"profile"} : q[k] = r[k]
  PROVE  VrOk(q, c, a)
<1>1. /\ q.on = r.on /\ q.profiles = r.profiles
      /\ q.cur = r.cur /\ q.prev = r.prev /\ q.complete = r.complete /\ q.refs = r.refs
      /\ q.src = r.src /\ q.fec = r.fec /\ q.srcR = r.srcR /\ q.concealed = r.concealed
      /\ q.fecR = r.fecR /\ q.slots = r.slots /\ q.seen = r.seen /\ q.crash = r.crash
      /\ q.shown = r.shown /\ q.sound = r.sound /\ q.dropped = r.dropped /\ q.reported = r.reported
  BY DEF VrFields
<1>2. VrPlace(q, c, a) /\ VrUnits(q, c) /\ VrShown(q, c)
  BY <1>1 DEF VrOk, VrPlace, VrUnits, VrShown, SrcMissing, FecMissing
<1>3. VrRefs(q, a) /\ VrTold(q, c)
  BY <1>1 DEF VrOk, VrRefs, VrTold, Told, ShownSet
<1> QED
  BY <1>2, <1>3 DEF VrOk

\* Nor, before the first frame, about these.
LEMMA OtherFieldsBefore ==
  ASSUME NEW a, NEW r, VrOk(r, 0, a), NEW q, DOMAIN q = VrFields,
         \A k \in VrFields \ {"on", "profiles", "seen"} : q[k] = r[k], NEW b
  PROVE  VrOk(q, 0, b)
<1>1. /\ q.cur = r.cur /\ q.prev = r.prev /\ q.complete = r.complete /\ q.refs = r.refs
      /\ q.src = r.src /\ q.fec = r.fec /\ q.srcR = r.srcR /\ q.concealed = r.concealed
      /\ q.fecR = r.fecR /\ q.slots = r.slots /\ q.crash = r.crash
      /\ q.shown = r.shown /\ q.sound = r.sound /\ q.dropped = r.dropped /\ q.reported = r.reported
  BY DEF VrFields
<1>2. VrUnits(q, 0) /\ VrShown(q, 0)
  BY <1>1 DEF VrOk, VrUnits, VrShown, SrcMissing, FecMissing
<1>3. VrPlace(q, 0, b)
  BY <1>1 DEF VrOk, VrPlace
<1>4. q.refs = <<>>
  BY <1>1 DEF VrOk, VrPlace
<1>5. VrRefs(q, b)
  BY <1>1, <1>4 DEF VrOk, VrRefs
<1>6. VrTold(q, 0)
  BY DEF VrTold
<1> QED
  BY <1>2, <1>3, <1>5, <1>6 DEF VrOk

\* The receiver is in order at the newest frame, of which all units are near.
VideoInv ==
  /\ vnet.first \in 0 .. 2 * VHalf - 1
  /\ vnet.head \in Int
  /\ DOMAIN vnet = {"first", "head", "nomem"}
  /\ \E c \in 0 .. MaxVFrames :
       /\ VrOk(v, c, vnet.first)
       /\ c = 0 => v.seen = 0
       /\ c > 0 /\ ~v.crash => c \in vnet.head - MaxBehind .. vnet.head

\* It holds at the start.
LEMMA VideoInit == Vr!InitVideo => VideoInv
<1> SUFFICES ASSUME Vr!InitVideo PROVE VideoInv
  OBVIOUS
<1>1. /\ v.on = FALSE /\ v.profiles = FALSE /\ v.cur = -1 /\ v.prev = -1 /\ v.complete = 0
      /\ v.refs = <<>> /\ v.src = 0 /\ v.fec = 0 /\ v.srcR = 0 /\ v.fecR = 0 /\ v.slots = <<>>
      /\ v.crash = FALSE /\ v.seen = 0 /\ v.shown = <<>> /\ v.sound = TRUE
  BY DEF Vr!InitVideo, Vr!None
<1>2. DOMAIN v = VrFields
  BY DEF Vr!InitVideo, VrFields
<1>3. vnet.first = 0 /\ vnet.head = 0 /\ DOMAIN vnet = {"first", "head", "nomem"} /\ VHalf \in Nat \ {0} /\ MaxVFrames \in Nat
  BY VideoAssumption DEF Vr!InitVideo
<1>4. VrUnits(v, 0)
  <2>1. SrcMissing(v) = {} /\ FecMissing(v) = {}
    BY <1>1 DEF SrcMissing, FecMissing
  <2>2. Cardinality(SrcMissing(v)) = 0 /\ Cardinality(FecMissing(v)) = 0
    BY <2>1, FS_EmptySet
  <2>3. v.slots \in Seq(Nat) /\ DOMAIN v.slots = {}
    BY <1>1
  <2> QED
    BY <1>1, <2>2, <2>3 DEF VrUnits
<1>5. VrPlace(v, 0, 0)
  BY <1>1, <1>3 DEF VrPlace
<1>6. VrShown(v, 0) /\ VrRefs(v, 0) /\ VrTold(v, 0)
  BY <1>1 DEF VrShown, VrRefs, VrTold
<1>7. VrOk(v, 0, 0)
  BY <1>2, <1>4, <1>5, <1>6 DEF VrOk
<1> QED
  BY <1>1, <1>3, <1>7 DEF VideoInv

\* Each step keeps it: the receiver is created, learns the profiles, or gets a unit.
LEMMA VideoNext ==
  ASSUME VideoInv, Vr!NextVideo
  PROVE  VideoInv'
<1>1. PICK c \in 0 .. MaxVFrames :
        /\ VrOk(v, c, vnet.first)
        /\ c = 0 => v.seen = 0
        /\ c > 0 /\ ~v.crash => c \in vnet.head - MaxBehind .. vnet.head
  BY DEF VideoInv
<1> DEFINE a == vnet.first
<1>2. /\ a \in 0 .. 2 * VHalf - 1
      /\ vnet.head \in Int
      /\ DOMAIN vnet = {"first", "head", "nomem"}
  BY DEF VideoInv
<1>3. /\ c \in Nat /\ VHalf \in Nat \ {0} /\ MaxVFrames \in Nat /\ MaxBehind \in Nat /\ MaxSkip \in Nat
      /\ MaxBehind + MaxSkip < VHalf /\ FirstFrames \subseteq 0 .. 2 * VHalf - 1
  BY VideoAssumption
<1>4. DOMAIN v = VrFields
  BY <1>1 DEF VrOk
<1>5. c > 0 => v.on /\ v.profiles
  BY <1>1 DEF VrOk, VrPlace
<1>6. CASE Vr!chiaki_video_receiver_init
  <2>1. PICK b \in FirstFrames : ~v.on /\ v' = [v EXCEPT !.on = TRUE] /\ vnet' = [vnet EXCEPT !.first = b]
    BY <1>6 DEF Vr!chiaki_video_receiver_init
  <2>2. c = 0
    BY <1>3, <1>5, <2>1
  <2>3. vnet'.first = b /\ vnet'.head = vnet.head /\ DOMAIN vnet' = {"first", "head", "nomem"}
    BY <1>2, <2>1
  <2>4. DOMAIN v' = VrFields /\ \A k \in VrFields \ {"on", "profiles", "seen"} : v'[k] = v[k]
    BY <1>4, <2>1 DEF VrFields
  <2>5. v'.seen = v.seen
    BY <1>4, <2>1 DEF VrFields
  <2>6. VrOk(v', 0, b)
    BY <1>1, <2>2, <2>4, OtherFieldsBefore
  <2> QED
    BY <1>1, <1>2, <1>3, <2>1, <2>2, <2>3, <2>5, <2>6 DEF VideoInv
<1>7. CASE Vr!chiaki_video_receiver_stream_info
  <2>1. ~v.profiles /\ v' = [v EXCEPT !.profiles = TRUE] /\ vnet' = vnet
    BY <1>7 DEF Vr!chiaki_video_receiver_stream_info
  <2>2. c = 0
    BY <1>3, <1>5, <2>1
  <2>4. DOMAIN v' = VrFields /\ \A k \in VrFields \ {"on", "profiles", "seen"} : v'[k] = v[k]
    BY <1>4, <2>1 DEF VrFields
  <2>5. v'.seen = v.seen
    BY <1>4, <2>1 DEF VrFields
  <2>6. VrOk(v', 0, a)
    BY <1>1, <2>2, <2>4, OtherFieldsBefore
  <2> QED
    BY <1>1, <1>2, <1>3, <2>1, <2>2, <2>5, <2>6 DEF VideoInv
<1>8. ASSUME NEW f \in Vr!Frames, NEW u \in 1 .. SrcUnits + Vr!FecUnits(f), Vr!chiaki_video_receiver_av_packet(f, u)
      PROVE  VideoInv'
  <2> DEFINE i == Ix(a, f)
             newer == v.cur = -1 \/ Vr!gt(i, v.cur)
             old == v.cur # -1 /\ Vr!lt(i, v.cur)
             h == IF f > vnet.head THEN f ELSE vnet.head
             r1 == [v EXCEPT !.seen = IF @ = 0 THEN f ELSE @]
  <2>1. f \in 1 .. MaxVFrames /\ Vr!Index(f) = i /\ i \in 0 .. 2 * VHalf - 1
    BY <1>2, FrameOfIx, IxIs DEF Vr!Frames
  <2>2. /\ v.on /\ ~v.crash
        /\ f \in vnet.head - MaxBehind .. vnet.head + MaxSkip
    BY <1>8 DEF Vr!chiaki_video_receiver_av_packet
  <2>3. \/ (old \/ ~v.profiles) /\ v' = v /\ vnet' = [vnet EXCEPT !.head = IF f > @ THEN f ELSE @]
        \/ /\ ~old /\ v.profiles
           /\ \E mem \in {TRUE, ~vnet.nomem} :
               /\ \E r \in IF newer THEN Vr!NextFrame(r1, f, mem) ELSE {v} :
                    IF r.crash THEN v' = r
                    ELSE v' \in Vr!FlushIfPossible(Vr!chiaki_frame_processor_put_unit([r EXCEPT !.profile = TRUE], f, u))
               /\ vnet' = [vnet EXCEPT !.head = IF f > @ THEN f ELSE @, !.nomem = @ /\ mem]
    BY <1>8, <2>1 DEF Vr!chiaki_video_receiver_av_packet, Vr!None
  <2> HIDE DEF i
  <2>4. c = 0 => v.cur = -1 /\ newer /\ ~old
    BY <1>1 DEF VrOk, VrPlace
  <2>5. ASSUME c > 0
        PROVE  /\ c \in 1 .. MaxVFrames /\ c \in vnet.head - MaxBehind .. vnet.head
               /\ f - c < VHalf /\ v.cur # -1
               /\ newer <=> f > c
               /\ old <=> f < c
    <3>1. c \in 1 .. MaxVFrames /\ v.cur = Ix(a, c) /\ c \in vnet.head - MaxBehind .. vnet.head
      BY <1>1, <1>3, <2>2, <2>5 DEF VrOk, VrPlace
    <3>2. v.cur # -1
      BY <1>2, <3>1, IxIs
    <3>3. f - c < VHalf /\ c - f < VHalf
      BY <1>2, <1>3, <2>1, <2>2, <3>1
    <3>4. (Vr!gt(i, v.cur) <=> f > c) /\ (Vr!lt(i, v.cur) <=> f < c)
      BY <1>2, <2>1, <3>1, <3>3, IxOrder DEF i
    <3> QED
      BY <3>1, <3>2, <3>3, <3>4
  <2>6. CASE (old \/ ~v.profiles) /\ v' = v /\ vnet' = [vnet EXCEPT !.head = IF f > @ THEN f ELSE @]
    <3>1. vnet'.first = a /\ vnet'.head = h /\ DOMAIN vnet' = {"first", "head", "nomem"}
      BY <1>2, <2>6
    <3>2. h \in Int
      BY <1>2, <2>1
    <3>3. c > 0 => h = vnet.head
      BY <1>2, <1>3, <1>5, <2>1, <2>5, <2>6
    <3> HIDE DEF h
    <3> QED
      BY <1>1, <1>2, <2>6, <3>1, <3>2, <3>3 DEF VideoInv
  <2>7. CASE ~(old \/ ~v.profiles)
    <3>0. PICK mem \in {TRUE, ~vnet.nomem} :
            /\ \E r \in IF newer THEN Vr!NextFrame(r1, f, mem) ELSE {v} :
                 IF r.crash THEN v' = r
                 ELSE v' \in Vr!FlushIfPossible(Vr!chiaki_frame_processor_put_unit([r EXCEPT !.profile = TRUE], f, u))
            /\ vnet' = [vnet EXCEPT !.head = IF f > @ THEN f ELSE @, !.nomem = @ /\ mem]
      BY <2>3, <2>7
    <3>1. PICK r \in IF newer THEN Vr!NextFrame(r1, f, mem) ELSE {v} :
            IF r.crash THEN v' = r
            ELSE v' \in Vr!FlushIfPossible(Vr!chiaki_frame_processor_put_unit([r EXCEPT !.profile = TRUE], f, u))
      BY <3>0
    <3>2. VrOk(r, f, a)
      <4>1. CASE newer
        <5>1. c < f
          BY <1>3, <2>1, <2>4, <2>5, <4>1
        <5> DEFINE sn == IF v.seen = 0 THEN f ELSE v.seen
        <5>2. DOMAIN r1 = VrFields /\ (\A k \in VrFields \ {"seen"} : r1[k] = v[k]) /\ r1.seen = sn
          BY <1>4 DEF VrFields
        <5>3. /\ r1.cur = v.cur /\ r1.prev = v.prev /\ r1.crash = v.crash /\ r1.on = v.on
              /\ r1.profiles = v.profiles
          BY <5>2 DEF VrFields
        <5>4. c > 0 => r1.seen = v.seen
          <6>1. c > 0 => v.seen \in 1 .. c
            BY <1>1, <2>2 DEF VrOk, VrTold
          <6> QED
            BY <1>3, <5>2, <6>1
        <5>5. c = 0 => r1.seen = f
          BY <1>1, <5>2
        <5>6. r \in {Vr!chiaki_frame_processor_alloc_frame([Vr!Gap(q, i) EXCEPT !.cur = i], f, mem) :
                       q \in IF r1.cur # -1 /\ r1.prev # r1.cur THEN Vr!chiaki_video_receiver_flush_frame(r1) ELSE {r1}}
          BY <2>1, <3>1, <4>1 DEF Vr!NextFrame, Vr!None
        <5> HIDE DEF r1, sn
        <5>7. VrOk(r1, c, a)
          <6>1. CASE c = 0
            BY <1>1, <5>2, <6>1, OtherFieldsBefore
          <6>2. CASE c > 0
            <7>1. \A k \in VrFields \ {"profile"} : r1[k] = v[k]
              BY <5>2, <5>4, <6>2
            <7> QED
              BY <1>1, <5>2, <7>1, OtherFields
          <6> QED
            BY <1>3, <6>1, <6>2
        <5>8. PICK q \in IF r1.cur # -1 /\ r1.prev # r1.cur THEN Vr!chiaki_video_receiver_flush_frame(r1) ELSE {r1} :
                r = Vr!chiaki_frame_processor_alloc_frame([Vr!Gap(q, i) EXCEPT !.cur = i], f, mem)
          BY <5>6
        <5>9. /\ VrOk(q, c, a)
              /\ c > 0 => q.crash \/ q.prev = q.cur
              /\ c = 0 => q.seen = f /\ q.on /\ q.profiles
          <6>1. CASE c = 0
            <7>1. q = r1
              BY <2>4, <5>3, <5>8, <6>1
            <7>2. v.on /\ v.profiles
              BY <2>2, <2>7
            <7>3. r1.on /\ r1.profiles
              BY <5>3, <7>2
            <7>4. VrOk(r1, c, a) /\ r1.seen = f /\ ~(c > 0)
              BY <5>5, <5>7, <6>1
            <7> HIDE DEF a
            <7> QED
              BY <7>1, <7>3, <7>4
          <6>2. CASE c > 0 /\ r1.prev = r1.cur
            <7>1. q = r1
              BY <5>8, <6>2
            <7> QED
              BY <1>3, <5>7, <6>2, <7>1
          <6>3. CASE c > 0 /\ r1.prev # r1.cur
            <7>1. q \in Vr!chiaki_video_receiver_flush_frame(r1) /\ c \in 1 .. MaxVFrames
              BY <2>5, <5>3, <5>8, <6>3
            <7>2. VrOk(q, c, a) /\ (q.crash \/ q.prev = q.cur)
              BY <1>2, <5>7, <6>3, <7>1, FlushOK
            <7> QED
              BY <1>3, <6>3, <7>2
          <6> QED
            BY <1>3, <6>1, <6>2, <6>3
        <5>10. f - c < VHalf \/ c = 0
          BY <1>3, <2>5
        <5>11. mem \in BOOLEAN
          OBVIOUS
        <5> QED
          BY <1>2, <2>1, <5>1, <5>8, <5>9, <5>10, <5>11, AllocOK DEF i
      <4>2. CASE ~newer
        <5>1. r = v
          BY <3>1, <4>2
        <5>2. c = f
          BY <1>3, <2>1, <2>4, <2>5, <2>7, <4>2
        <5> QED
          BY <1>1, <5>1, <5>2
      <4> QED
        BY <4>1, <4>2
    <3>3. VrOk(v', f, a)
      <4>1. CASE r.crash
        BY <3>1, <3>2, <4>1
      <4>2. CASE ~r.crash
        <5> DEFINE r2 == [r EXCEPT !.profile = TRUE]
                   r3 == Vr!chiaki_frame_processor_put_unit(r2, f, u)
        <5>1. v' \in Vr!FlushIfPossible(r3)
          BY <3>1, <4>2
        <5>2. DOMAIN r2 = VrFields /\ \A k \in VrFields \ {"profile"} : r2[k] = r[k]
          <6>1. DOMAIN r = VrFields
            BY <3>2 DEF VrOk
          <6> QED
            BY <6>1 DEF VrFields
        <5> HIDE DEF r2
        <5>3. VrOk(r2, f, a)
          BY <3>2, <5>2, OtherFields
        <5>4. u \in Nat \ {0}
          BY <1>8
        <5>5. VrOk(r3, f, a)
          BY <1>2, <2>1, <5>3, <5>4, PutUnitOK
        <5> HIDE DEF r3
        <5>6. v' = r3 \/ (r3.cur # r3.prev /\ v' \in Vr!chiaki_video_receiver_flush_frame(r3))
          BY <5>1 DEF Vr!FlushIfPossible
        <5>7. CASE v' = r3
          BY <5>5, <5>7
        <5>8. CASE r3.prev # r3.cur /\ v' \in Vr!chiaki_video_receiver_flush_frame(r3)
          BY <1>2, <2>1, <5>5, <5>8, FlushOK
        <5> QED
          BY <5>6, <5>7, <5>8
      <4> QED
        BY <4>1, <4>2
    <3>4. vnet'.first = a /\ vnet'.head = h /\ DOMAIN vnet' = {"first", "head", "nomem"}
      BY <1>2, <3>0
    <3>5. h \in Int /\ f \in h - MaxBehind .. h /\ f \in 0 .. MaxVFrames /\ f # 0
      BY <1>2, <1>3, <2>1, <2>2
    <3> HIDE DEF h
    <3> QED
      BY <1>2, <3>3, <3>4, <3>5 DEF VideoInv
  <2> QED
    BY <2>3, <2>6, <2>7
<1> QED
  BY <1>6, <1>7, <1>8 DEF Vr!NextVideo

\* So do steps of others.
LEMMA VideoStep ==
  ASSUME VideoInv, [Vr!NextVideo]_video
  PROVE  VideoInv'
<1>1. CASE Vr!NextVideo
  BY <1>1, VideoNext
<1>2. CASE UNCHANGED video
  BY <1>2 DEF video, VideoInv
<1> QED
  BY <1>1, <1>2

\* The promises follow.
LEMMA VideoFollows == VideoInv => VideoIsSound
<1> SUFFICES ASSUME VideoInv PROVE VideoIsSound
  OBVIOUS
<1>1. PICK c \in 0 .. MaxVFrames : VrOk(v, c, vnet.first)
  BY DEF VideoInv
<1>2. vnet.first \in 0 .. 2 * VHalf - 1
  BY DEF VideoInv
<1>3. c \in Nat
  BY VideoAssumption
<1>4. Vr!FramesAreSound
  BY <1>1 DEF VrOk, VrRefs, VrShown, Vr!FramesAreSound
<1>5. v.srcR + v.fecR <= v.src + v.fec
  <2> DEFINE e == v.src
             f == v.fec
             p == v.srcR
             o == v.fecR
             s == Cardinality(SrcMissing(v))
             t == Cardinality(FecMissing(v))
  <2>1. /\ e \in Nat /\ f \in Nat /\ p \in Nat /\ o \in Nat
        /\ p + s <= e /\ o + t <= f
    BY <1>1 DEF VrOk, VrUnits
  <2>2. s \in Nat /\ t \in Nat
    BY <2>1, MissingFinite
  <2> HIDE DEF e, f, p, o, s, t
  <2>3. p + o <= e + f
    BY <2>1, <2>2
  <2> QED
    BY <2>3 DEF e, f, p, o
<1>6. ASSUME ~v.crash, v.cur # -1
      PROVE  \A g \in v.seen .. Vr!The(v.cur) - 1 : g \in ShownSet(v) \cup v.dropped \cup v.reported
  <2>1. c > 0 /\ v.cur = Ix(vnet.first, c) /\ c \in 1 .. MaxVFrames
    BY <1>1, <1>3, <1>6 DEF VrOk, VrPlace
  <2>2. Vr!The(v.cur) = c
    BY <1>2, <2>1, FrameOfIx
  <2> QED
    BY <1>1, <1>6, <2>1, <2>2 DEF VrOk, VrTold, Told
<1>7. Vr!LossesAreReported
  BY <1>5, <1>6 DEF Vr!LossesAreReported, Vr!None, ShownSet
<1> QED
  BY <1>4, <1>7 DEF VideoIsSound

-----------------------------------------------------------------------------
(* The feedback sender.                                                    *)

\* The states of a controller, and the events of the history.
FbStates == [x : {0, 1}, b : SUBSET Buttons, l2 : {0, 1}, t : {Fb!NoTouch} \cup [id : {0, 1}, at : {0, 1}]]
FbEvents ==
  ({"button"} \X Buttons \X BOOLEAN) \cup ({"l2"} \X {0, 1} \X {TRUE}) \cup ({"touch"} \X {0, 1} \X BOOLEAN)

FsFields == {"at", "state", "prev", "changed", "stop", "left", "begin", "len", "events"}
SeenFields == {"x", "packet", "log", "b", "l2", "touch", "replaced"}

\* Going round the ring from begin, the newest events of all there were.
HistoryIs(r, log) ==
  /\ r.begin \in 0 .. FEEDBACK_HISTORY_BUFFER_SIZE - 1
  /\ r.len = IF Len(log) < FEEDBACK_HISTORY_BUFFER_SIZE THEN Len(log) ELSE FEEDBACK_HISTORY_BUFFER_SIZE
  /\ DOMAIN r.events = 0 .. FEEDBACK_HISTORY_BUFFER_SIZE - 1
  /\ \A k \in 1 .. r.len : r.events[(r.begin + (k - 1)) % FEEDBACK_HISTORY_BUFFER_SIZE] = log[Len(log) - k + 1]

\* A new event takes the place before the others, and with it that of the oldest one if
\* the ring is full.
LEMMA HistoryPush ==
  ASSUME NEW r, DOMAIN r = FsFields, NEW log \in Seq(FbEvents), HistoryIs(r, log), NEW e \in FbEvents
  PROVE  LET q == Fb!chiaki_feedback_history_buffer_push(r, e)
         IN /\ DOMAIN q = FsFields /\ \A k \in FsFields \ {"begin", "len", "events"} : q[k] = r[k]
            /\ HistoryIs(q, Append(log, e))
<1> DEFINE m == FEEDBACK_HISTORY_BUFFER_SIZE
           b == (r.begin + m - 1) % m
           n == IF r.len + 1 >= m THEN m ELSE r.len + 1
           z == [r.events EXCEPT ![b] = e]
           q == [r EXCEPT !.begin = b, !.events = z, !.len = n]
           w == Append(log, e)
           d == Len(log)
           p == r.begin
           o == r.len
<1>1. Fb!chiaki_feedback_history_buffer_push(r, e) = q
  <2>1. Fb!chiaki_feedback_history_buffer_push(r, e) = [r EXCEPT !.begin = b, !.events[b] = e, !.len = n]
    BY DEF Fb!chiaki_feedback_history_buffer_push
  <2> HIDE DEF b, n
  <2>2. [r EXCEPT !.begin = b, !.events[b] = e, !.len = n] = q
    BY DEF FsFields
  <2> QED
    BY <2>1, <2>2
<1>2. /\ m \in Nat \ {0} /\ p \in 0 .. m - 1 /\ d \in Nat /\ o = IF d < m THEN d ELSE m
      /\ DOMAIN r.events = 0 .. m - 1
      /\ \A k \in 1 .. o : r.events[(p + (k - 1)) % m] = log[d - k + 1]
  BY FeedbackAssumption DEF HistoryIs
<1>3. /\ w \in Seq(FbEvents) /\ Len(w) = d + 1 /\ w[d + 1] = e /\ \A k \in 1 .. d : w[k] = log[k]
  OBVIOUS
<1>4. b = (IF p = 0 THEN m - 1 ELSE p - 1) /\ b \in 0 .. m - 1
  <2>1. r.begin + m - 1 = p + (m - 1) /\ m - 1 \in 0 .. m
    BY <1>2
  <2> HIDE DEF m, p
  <2>2. (p + (m - 1)) % m = IF p + (m - 1) < m THEN p + (m - 1) ELSE p + (m - 1) - m
    BY <1>2, <2>1, RingSum
  <2>3. b = (p + (m - 1)) % m
    BY <2>1
  <2> HIDE DEF b
  <2> QED
    BY <1>2, <2>2, <2>3
<1> HIDE DEF m, b, p, z, q, w, d, o, n
<1>5. /\ DOMAIN q = FsFields /\ \A k \in FsFields \ {"begin", "len", "events"} : q[k] = r[k]
      /\ q.begin = b /\ q.events = z /\ q.len = n
  BY DEF FsFields, q
<1>6. n = IF d + 1 < m THEN d + 1 ELSE m
  BY <1>2 DEF n, o
<1>7. DOMAIN z = 0 .. m - 1 /\ \A k \in 0 .. m - 1 : z[k] = IF k = b THEN e ELSE r.events[k]
  BY <1>2 DEF z
<1>8. ASSUME NEW k \in 1 .. n
      PROVE  z[(b + (k - 1)) % m] = w[d + 1 - k + 1]
  <2>1. k \in Nat /\ k >= 1 /\ k <= m /\ k <= d + 1 /\ k - 1 \in 0 .. m
    BY <1>2, <1>6, <1>8
  <2>2. (b + (k - 1)) % m = (IF b + (k - 1) < m THEN b + (k - 1) ELSE b + (k - 1) - m)
        /\ (b + (k - 1)) % m \in 0 .. m - 1
    BY <1>2, <1>4, <2>1, RingSum
  <2>3. CASE k = 1
    <3>1. (b + (k - 1)) % m = b /\ d + 1 - k + 1 = d + 1
      BY <1>2, <1>4, <2>2, <2>3
    <3> QED
      BY <1>3, <1>4, <1>7, <3>1
  <2>4. CASE k # 1
    <3> DEFINE i == k - 1
    <3>1. i \in 1 .. o /\ i - 1 \in 0 .. m
      <4>1. m \in Nat /\ d \in Nat /\ o = IF d < m THEN d ELSE m
        BY <1>2
      <4>2. k \in Nat /\ k - 1 >= 1 /\ k - 1 <= d /\ k - 1 <= m
        BY <2>1, <2>4, <4>1
      <4> QED
        BY <4>1, <4>2
    <3>2. (p + (i - 1)) % m = (IF p + (i - 1) < m THEN p + (i - 1) ELSE p + (i - 1) - m)
      BY <1>2, <3>1, RingSum
    <3>3. (b + (k - 1)) % m = (p + (i - 1)) % m /\ (b + (k - 1)) % m # b
      BY <1>2, <1>4, <2>1, <2>2, <2>4, <3>2
    <3>4. d - i + 1 = d + 1 - k + 1 /\ d - i + 1 \in 1 .. d
      BY <1>2, <2>1, <2>4
    <3> HIDE DEF i
    <3>5. r.events[(p + (i - 1)) % m] = log[d - i + 1]
      BY <1>2, <3>1
    <3> QED
      BY <1>3, <1>7, <2>2, <3>3, <3>4, <3>5
  <2> QED
    BY <2>3, <2>4
<1>9. HistoryIs(q, w)
  <2>1. q.begin \in 0 .. m - 1
    BY <1>4, <1>5
  <2>2. q.len = IF Len(w) < m THEN Len(w) ELSE m
    BY <1>3, <1>5, <1>6
  <2>3. DOMAIN q.events = 0 .. m - 1
    BY <1>5, <1>7
  <2>4. ASSUME NEW k \in 1 .. q.len PROVE q.events[(q.begin + (k - 1)) % m] = w[Len(w) - k + 1]
    <3>1. q.len = n /\ q.begin = b /\ q.events = z /\ Len(w) = d + 1
      BY <1>3, <1>5
    <3>2. z[(b + (k - 1)) % m] = w[d + 1 - k + 1]
      BY <1>8, <3>1
    <3>3. (q.begin + (k - 1)) % m = (b + (k - 1)) % m /\ Len(w) - k + 1 = d + 1 - k + 1
      <4>1. b \in Int /\ q.begin \in Int /\ k \in Int /\ d \in Int
        BY <1>2, <1>4, <1>5, <1>6, <3>1
      <4> HIDE DEF q, m
      <4> QED
        BY <3>1, <4>1
    <3> HIDE DEF q
    <3> QED
      BY <3>1, <3>2, <3>3
  <2> HIDE DEF q
  <2> QED
    BY <2>1, <2>2, <2>3, <2>4 DEF HistoryIs, m
<1> QED
  BY <1>1, <1>5, <1>9 DEF w

\* A packet has the newest events in order.
LEMMA FormatIs ==
  ASSUME NEW r, NEW log \in Seq(FbEvents), HistoryIs(r, log)
  PROVE  Fb!chiaki_feedback_history_buffer_format(r) = Fb!Newest(log, FEEDBACK_HISTORY_BUFFER_SIZE)
<1>1. r.begin \in Nat /\ r.len \in Nat /\ Len(log) \in Nat
  BY FeedbackAssumption DEF HistoryIs
<1>2. \A k \in 1 .. r.len : r.begin + k - 1 = r.begin + (k - 1)
  BY <1>1
<1>3. r.len = IF Len(log) < FEEDBACK_HISTORY_BUFFER_SIZE THEN Len(log) ELSE FEEDBACK_HISTORY_BUFFER_SIZE
  BY DEF HistoryIs
<1>4. \A k \in 1 .. r.len : r.events[(r.begin + k - 1) % FEEDBACK_HISTORY_BUFFER_SIZE] = log[Len(log) - k + 1]
  BY <1>2 DEF HistoryIs
<1> QED
  BY <1>3, <1>4 DEF Fb!chiaki_feedback_history_buffer_format, Fb!Newest

\* What the console was told of the buttons, the trigger and the touch: all that the
\* thread saw last, and while it tells, what it has told so far.
FbTold ==
  /\ seen.b = IF Fb!MutexFree THEN fs.prev.b ELSE (fs.prev.b \cap fs.left) \cup (fs.state.b \ fs.left)
  /\ seen.l2 = IF fs.at = "touch" THEN fs.state.l2 ELSE fs.prev.l2
  /\ seen.touch = IF seen.replaced \/ fs.prev.t.id < 0 THEN {} ELSE {fs.prev.t.id}

FbInv ==
  /\ DOMAIN fs = FsFields /\ DOMAIN seen = SeenFields
  /\ fs.state \in FbStates /\ fs.prev \in FbStates
  /\ fs.left \subseteq Buttons /\ (fs.at # "buttons" => fs.left = {})
  /\ seen.log \in Seq(FbEvents)
  /\ HistoryIs(fs, seen.log)
  /\ seen.packet = Fb!Newest(seen.log, FEEDBACK_HISTORY_BUFFER_SIZE)
  /\ Fb!MutexFree /\ ~fs.changed => Fb!equals_for_feedback_history(fs.prev, fs.state)
  /\ FbTold

\* Nothing is told at first.
LEMMA FbInit == Fb!InitFeedback => FbInv
<1> SUFFICES ASSUME Fb!InitFeedback PROVE FbInv
  OBVIOUS
<1>1. /\ fs.at = "off" /\ fs.state = Fb!Idle /\ fs.prev = Fb!Idle /\ fs.changed = FALSE /\ fs.left = {}
      /\ fs.begin = 0 /\ fs.len = 0 /\ fs.events = [k \in 0 .. FEEDBACK_HISTORY_BUFFER_SIZE - 1 |-> <<>>]
  BY DEF Fb!InitFeedback
<1>2. /\ seen.packet = <<>> /\ seen.log = <<>> /\ seen.b = {} /\ seen.l2 = 0 /\ seen.touch = {}
  BY DEF Fb!InitFeedback
<1>3. DOMAIN fs = FsFields /\ DOMAIN seen = SeenFields
  BY DEF Fb!InitFeedback, FsFields, SeenFields
<1>4. /\ Fb!Idle \in FbStates /\ Fb!Idle.b = {} /\ Fb!Idle.l2 = 0 /\ Fb!Idle.t.id = -1
  BY DEF Fb!Idle, FbStates, Fb!NoTouch
<1>5. seen.log \in Seq(FbEvents) /\ Len(seen.log) = 0
  BY <1>2
<1>6. HistoryIs(fs, seen.log)
  BY <1>1, <1>5, FeedbackAssumption DEF HistoryIs
<1>7. seen.packet = Fb!Newest(seen.log, FEEDBACK_HISTORY_BUFFER_SIZE)
  <2>1. Fb!Newest(seen.log, FEEDBACK_HISTORY_BUFFER_SIZE) = [k \in 1 .. 0 |-> seen.log[Len(seen.log) - k + 1]]
    BY <1>5, FeedbackAssumption DEF Fb!Newest
  <2> QED
    BY <1>2, <2>1
<1>8. Fb!MutexFree
  BY <1>1 DEF Fb!MutexFree
<1>9. FbTold
  BY <1>1, <1>2, <1>4, <1>8 DEF FbTold
<1>10. Fb!equals_for_feedback_history(fs.prev, fs.state)
  BY <1>1 DEF Fb!equals_for_feedback_history
<1> QED
  BY <1>1, <1>3, <1>4, <1>5, <1>6, <1>7, <1>9, <1>10 DEF FbInv

\* The ring does not depend on the other fields.
LEMMA HistorySame ==
  ASSUME NEW r, NEW q, NEW log, HistoryIs(r, log), q.begin = r.begin, q.len = r.len, q.events = r.events
  PROVE  HistoryIs(q, log)
  BY DEF HistoryIs

\* A state the player makes is a state.
LEMMA InputsAreStates ==
  ASSUME NEW s \in FbStates, NEW z \in Fb!Inputs(s)
  PROVE  z \in FbStates
<1>1. s = [x |-> s.x, b |-> s.b, l2 |-> s.l2, t |-> s.t]
      /\ s.x \in {0, 1} /\ s.b \subseteq Buttons /\ s.l2 \in {0, 1} /\ s.t \in {Fb!NoTouch} \cup [id : {0, 1}, at : {0, 1}]
  BY DEF FbStates
<1>2. CASE z = [s EXCEPT !.x = 1 - @]
  <2>1. z = [x |-> 1 - s.x, b |-> s.b, l2 |-> s.l2, t |-> s.t] /\ 1 - s.x \in {0, 1}
    BY <1>1, <1>2
  <2> QED
    BY <1>1, <2>1 DEF FbStates
<1>3. CASE z = [s EXCEPT !.l2 = 1 - @]
  <2>1. z = [x |-> s.x, b |-> s.b, l2 |-> 1 - s.l2, t |-> s.t] /\ 1 - s.l2 \in {0, 1}
    BY <1>1, <1>3
  <2> QED
    BY <1>1, <2>1 DEF FbStates
<1>4. CASE \E b \in Buttons : z = [s EXCEPT !.b = IF b \in @ THEN @ \ {b} ELSE @ \cup {b}]
  <2>1. PICK b \in Buttons : z = [s EXCEPT !.b = IF b \in @ THEN @ \ {b} ELSE @ \cup {b}]
    BY <1>4
  <2> DEFINE c == IF b \in s.b THEN s.b \ {b} ELSE s.b \cup {b}
  <2>2. c \subseteq Buttons
    BY <1>1
  <2>3. z = [s EXCEPT !.b = c]
    BY <2>1
  <2> HIDE DEF c
  <2>4. z = [x |-> s.x, b |-> c, l2 |-> s.l2, t |-> s.t]
    BY <1>1, <2>3
  <2> QED
    BY <1>1, <2>2, <2>4 DEF FbStates
<1>5. CASE \E t \in {Fb!NoTouch} \cup [id : {0, 1}, at : {0, 1}] : z = [s EXCEPT !.t = t]
  <2>1. PICK t \in {Fb!NoTouch} \cup [id : {0, 1}, at : {0, 1}] : z = [s EXCEPT !.t = t]
    BY <1>5
  <2>2. z = [x |-> s.x, b |-> s.b, l2 |-> s.l2, t |-> t]
    BY <1>1, <2>1
  <2> QED
    BY <1>1, <2>1, <2>2 DEF FbStates
<1> QED
  BY <1>2, <1>3, <1>4, <1>5 DEF Fb!Inputs

\* An event is told, and the packet with it sent.
LEMMA PacketOK ==
  ASSUME FbInv, NEW e \in FbEvents
  PROVE  LET q == Fb!chiaki_feedback_history_buffer_push(fs, e)
             c == Fb!Packet(seen, e, q)
         IN /\ DOMAIN q = FsFields /\ \A k \in FsFields \ {"begin", "len", "events"} : q[k] = fs[k]
            /\ HistoryIs(q, c.log)
            /\ DOMAIN c = SeenFields
            /\ c.log \in Seq(FbEvents)
            /\ c.packet = Fb!Newest(c.log, FEEDBACK_HISTORY_BUFFER_SIZE)
            /\ c.b = IF e[1] # "button" THEN seen.b ELSE IF e[3] THEN seen.b \cup {e[2]} ELSE seen.b \ {e[2]}
            /\ c.l2 = IF e[1] # "l2" THEN seen.l2 ELSE e[2]
            /\ c.touch = IF e[1] # "touch" THEN seen.touch ELSE IF e[3] THEN seen.touch \cup {e[2]} ELSE seen.touch \ {e[2]}
            /\ c.replaced = seen.replaced
<1> DEFINE q == Fb!chiaki_feedback_history_buffer_push(fs, e)
           w == Append(seen.log, e)
           b == IF e[1] # "button" THEN seen.b ELSE IF e[3] THEN seen.b \cup {e[2]} ELSE seen.b \ {e[2]}
           l == IF e[1] # "l2" THEN seen.l2 ELSE e[2]
           t == IF e[1] # "touch" THEN seen.touch ELSE IF e[3] THEN seen.touch \cup {e[2]} ELSE seen.touch \ {e[2]}
           y == [seen EXCEPT !.log = w, !.b = b, !.l2 = l, !.touch = t]
           p == Fb!chiaki_feedback_history_buffer_format(q)
           c == [y EXCEPT !.packet = p]
<1>1. /\ DOMAIN fs = FsFields /\ DOMAIN seen = SeenFields /\ seen.log \in Seq(FbEvents) /\ HistoryIs(fs, seen.log)
  BY DEF FbInv
<1>2. /\ DOMAIN q = FsFields /\ \A k \in FsFields \ {"begin", "len", "events"} : q[k] = fs[k]
      /\ HistoryIs(q, w)
  BY <1>1, HistoryPush
<1>3. w \in Seq(FbEvents)
  BY <1>1
<1>4. p = Fb!Newest(w, FEEDBACK_HISTORY_BUFFER_SIZE)
  <2> HIDE DEF q, w
  <2> QED
    BY <1>2, <1>3, FormatIs
<1>5. Fb!Packet(seen, e, q) = c
  BY DEF Fb!Packet, Fb!Told
<1> HIDE DEF q, w, b, l, t, p
<1>6. /\ DOMAIN y = SeenFields /\ y.log = w /\ y.b = b /\ y.l2 = l /\ y.touch = t /\ y.replaced = seen.replaced
  BY <1>1 DEF SeenFields
<1> HIDE DEF y
<1>7. /\ DOMAIN c = SeenFields /\ c.log = w /\ c.b = b /\ c.l2 = l /\ c.touch = t /\ c.replaced = seen.replaced
      /\ c.packet = p
  BY <1>6 DEF SeenFields
<1> HIDE DEF c
<1> QED
  BY <1>2, <1>3, <1>4, <1>5, <1>7 DEF q, b, l, t

\* Nothing is told while the mutex is free: the thread looks, waits and wakes, the player
\* changes the state.
LEMMA FbQuiet ==
  ASSUME FbInv, Fb!MutexFree,
         DOMAIN fs' = FsFields, \A k \in {"left", "begin", "len", "events"} : fs'[k] = fs[k],
         fs'.at \notin {"buttons", "touch"},
         fs'.state \in FbStates, fs'.prev \in FbStates, Fb!equals_for_feedback_history(fs'.prev, fs.prev),
         ~fs'.changed => Fb!equals_for_feedback_history(fs'.prev, fs'.state),
         DOMAIN seen' = SeenFields, \A k \in SeenFields \ {"x"} : seen'[k] = seen[k]
  PROVE  FbInv'
<1>1. /\ seen'.log = seen.log /\ seen'.packet = seen.packet /\ seen'.b = seen.b /\ seen'.l2 = seen.l2
      /\ seen'.touch = seen.touch /\ seen'.replaced = seen.replaced
  BY DEF SeenFields
<1>2. fs'.left = fs.left /\ fs'.begin = fs.begin /\ fs'.len = fs.len /\ fs'.events = fs.events
  OBVIOUS
<1>3. fs'.prev.b = fs.prev.b /\ fs'.prev.l2 = fs.prev.l2 /\ fs'.prev.t = fs.prev.t
  BY DEF Fb!equals_for_feedback_history
<1>4. fs.left \subseteq Buttons /\ fs.left = {} /\ fs.at # "touch"
  BY DEF FbInv, Fb!MutexFree
<1>5. (seen.log \in Seq(FbEvents) /\ seen.packet = Fb!Newest(seen.log, FEEDBACK_HISTORY_BUFFER_SIZE))'
  BY <1>1 DEF FbInv, Fb!Newest
<1>6. HistoryIs(fs, seen.log)'
  BY <1>1, <1>2, HistorySame DEF FbInv
<1>7. FbTold'
  BY <1>1, <1>3, <1>4 DEF FbInv, FbTold, Fb!MutexFree
<1>8. (Fb!MutexFree /\ ~fs.changed => Fb!equals_for_feedback_history(fs.prev, fs.state))'
  BY DEF Fb!equals_for_feedback_history
<1> QED
  BY <1>2, <1>4, <1>5, <1>6, <1>7, <1>8 DEF FbInv

\* Nothing changes but what is not told.
LEMMA FbStill ==
  ASSUME FbInv, DOMAIN fs' = FsFields, \A k \in FsFields : fs'[k] = fs[k], seen' = seen
  PROVE  FbInv'
<1>1. /\ fs'.at = fs.at /\ fs'.state = fs.state /\ fs'.prev = fs.prev /\ fs'.changed = fs.changed /\ fs'.left = fs.left
      /\ fs'.begin = fs.begin /\ fs'.len = fs.len /\ fs'.events = fs.events
  BY DEF FsFields
<1>2. HistoryIs(fs, seen.log)'
  BY <1>1, HistorySame DEF FbInv
<1>3. (seen.log \in Seq(FbEvents) /\ seen.packet = Fb!Newest(seen.log, FEEDBACK_HISTORY_BUFFER_SIZE))'
  BY DEF FbInv, Fb!Newest
<1>4. FbTold'
  BY <1>1 DEF FbInv, FbTold, Fb!MutexFree
<1> QED
  BY <1>1, <1>2, <1>3, <1>4 DEF FbInv, Fb!MutexFree, Fb!equals_for_feedback_history

\* The calls of the owner of the controller tell nothing.
LEMMA FbCallsOK ==
  ASSUME FbInv,
         \/ Fb!chiaki_feedback_sender_init \/ Fb!chiaki_feedback_sender_set_controller_state
         \/ Fb!chiaki_feedback_sender_fini \/ Fb!SignalState \/ Fb!JoinFeedback
  PROVE  FbInv'
<1>1. /\ DOMAIN fs = FsFields /\ DOMAIN seen = SeenFields /\ fs.state \in FbStates /\ fs.prev \in FbStates
      /\ Fb!MutexFree /\ ~fs.changed => Fb!equals_for_feedback_history(fs.prev, fs.state)
      /\ Fb!equals_for_feedback_history(fs.prev, fs.prev)
  BY DEF FbInv, Fb!equals_for_feedback_history
<1>2. CASE Fb!chiaki_feedback_sender_init
  <2>1. fs.at = "off" /\ fs' = [fs EXCEPT !.at = "check"] /\ seen' = seen
    BY <1>2 DEF Fb!chiaki_feedback_sender_init
  <2>2. DOMAIN fs' = FsFields /\ fs'.at = "check" /\ \A k \in FsFields \ {"at"} : fs'[k] = fs[k]
    BY <1>1, <2>1 DEF FsFields
  <2>3. Fb!MutexFree
    BY <2>1 DEF Fb!MutexFree
  <2>4. /\ \A k \in {"left", "begin", "len", "events"} : fs'[k] = fs[k]
        /\ fs'.state = fs.state /\ fs'.prev = fs.prev /\ fs'.changed = fs.changed
    BY <2>2 DEF FsFields
  <2> QED
    BY <1>1, <2>1, <2>2, <2>3, <2>4, FbQuiet
<1>3. CASE Fb!chiaki_feedback_sender_set_controller_state
  <2>1. PICK s \in Fb!Inputs(fs.state) \ {fs.state} : fs' = [fs EXCEPT !.state = s, !.changed = TRUE]
    BY <1>3, Zenon DEF Fb!chiaki_feedback_sender_set_controller_state
  <2>2. Fb!MutexFree /\ seen' = seen
    BY <1>3, Zenon DEF Fb!chiaki_feedback_sender_set_controller_state
  <2>3. DOMAIN fs' = FsFields /\ fs'.state = s /\ fs'.changed = TRUE
        /\ \A k \in FsFields \ {"state", "changed"} : fs'[k] = fs[k]
    BY <1>1, <2>1 DEF FsFields
  <2>4. s \in FbStates
    BY <1>1, InputsAreStates
  <2>5. /\ \A k \in {"left", "begin", "len", "events"} : fs'[k] = fs[k]
        /\ fs'.at = fs.at /\ fs'.prev = fs.prev
    BY <2>3 DEF FsFields
  <2>6. fs'.at \notin {"buttons", "touch"}
    BY <2>2, <2>5 DEF Fb!MutexFree
  <2> QED
    BY <1>1, <2>2, <2>3, <2>4, <2>5, <2>6, FbQuiet
<1>4. CASE Fb!chiaki_feedback_sender_fini
  <2>1. Fb!MutexFree /\ fs' = [fs EXCEPT !.stop = TRUE] /\ seen' = seen
    BY <1>4 DEF Fb!chiaki_feedback_sender_fini
  <2>2. DOMAIN fs' = FsFields /\ \A k \in FsFields \ {"stop"} : fs'[k] = fs[k]
    BY <1>1, <2>1 DEF FsFields
  <2>3. /\ \A k \in {"left", "begin", "len", "events"} : fs'[k] = fs[k]
        /\ fs'.at = fs.at /\ fs'.state = fs.state /\ fs'.prev = fs.prev /\ fs'.changed = fs.changed
    BY <2>2 DEF FsFields
  <2>4. fs'.at \notin {"buttons", "touch"}
    BY <2>1, <2>3 DEF Fb!MutexFree
  <2> QED
    BY <1>1, <2>1, <2>2, <2>3, <2>4, FbQuiet
<1>5. CASE Fb!SignalState
  <2>1. fs' = [fs EXCEPT !.at = IF @ = "wait" THEN "check" ELSE @] /\ seen' = seen
    BY <1>5 DEF Fb!SignalState
  <2>2. CASE fs.at = "wait"
    <3>1. fs' = [fs EXCEPT !.at = "check"]
      BY <2>1, <2>2
    <3>2. DOMAIN fs' = FsFields /\ fs'.at = "check" /\ \A k \in FsFields \ {"at"} : fs'[k] = fs[k]
      BY <1>1, <3>1 DEF FsFields
    <3>3. Fb!MutexFree
      BY <2>2 DEF Fb!MutexFree
    <3>4. /\ \A k \in {"left", "begin", "len", "events"} : fs'[k] = fs[k]
          /\ fs'.state = fs.state /\ fs'.prev = fs.prev /\ fs'.changed = fs.changed
      BY <3>2 DEF FsFields
    <3> QED
      BY <1>1, <2>1, <3>2, <3>3, <3>4, FbQuiet
  <2>3. CASE fs.at # "wait"
    <3>1. fs' = [fs EXCEPT !.at = fs.at]
      BY <2>1, <2>3
    <3>2. DOMAIN fs' = FsFields /\ \A k \in FsFields : fs'[k] = fs[k]
      BY <1>1, <3>1 DEF FsFields
    <3> QED
      BY <2>1, <3>2, FbStill
  <2> QED
    BY <2>2, <2>3
<1>6. CASE Fb!JoinFeedback
  BY <1>1, <1>6, FbStill DEF Fb!JoinFeedback
<1> QED
  BY <1>2, <1>3, <1>4, <1>5, <1>6

\* The thread waits, wakes and ends.
LEMMA FbWaitOK ==
  ASSUME FbInv, Fb!FsBlock \/ Fb!FsTimeout \/ Fb!FsStop
  PROVE  FbInv'
<1>1. /\ DOMAIN fs = FsFields /\ DOMAIN seen = SeenFields /\ fs.state \in FbStates /\ fs.prev \in FbStates
      /\ Fb!MutexFree /\ ~fs.changed => Fb!equals_for_feedback_history(fs.prev, fs.state)
      /\ Fb!equals_for_feedback_history(fs.prev, fs.prev)
  BY DEF FbInv, Fb!equals_for_feedback_history
<1>2. /\ fs.at \in {"check", "wait", "awake"} /\ seen' = seen
      /\ \/ fs' = [fs EXCEPT !.at = "wait"] \/ fs' = [fs EXCEPT !.at = "awake"] \/ fs' = [fs EXCEPT !.at = "over"]
  BY DEF Fb!FsBlock, Fb!FsTimeout, Fb!FsStop
<1>3. DOMAIN fs' = FsFields /\ fs'.at \in {"wait", "awake", "over"} /\ \A k \in FsFields \ {"at"} : fs'[k] = fs[k]
  BY <1>1, <1>2 DEF FsFields
<1>4. /\ \A k \in {"left", "begin", "len", "events"} : fs'[k] = fs[k]
      /\ fs'.state = fs.state /\ fs'.prev = fs.prev /\ fs'.changed = fs.changed
  BY <1>3 DEF FsFields
<1>5. Fb!MutexFree
  BY <1>2 DEF Fb!MutexFree
<1> QED
  BY <1>1, <1>2, <1>3, <1>4, <1>5, FbQuiet

\* The sticks are sent; if buttons, trigger or touch differ, the thread begins to tell them.
LEMMA FbSendOK ==
  ASSUME FbInv, Fb!FsSend
  PROVE  FbInv'
<1> DEFINE diff == {b \in Buttons : (b \in fs.prev.b) # (b \in fs.state.b)}
           x == IF ~fs.changed \/ fs.state.x # fs.prev.x THEN fs.state.x ELSE seen.x
           tell == fs.changed /\ ~Fb!equals_for_feedback_history(fs.prev, fs.state)
<1>1. /\ DOMAIN fs = FsFields /\ DOMAIN seen = SeenFields /\ fs.state \in FbStates /\ fs.prev \in FbStates
      /\ Fb!MutexFree /\ ~fs.changed => Fb!equals_for_feedback_history(fs.prev, fs.state)
  BY DEF FbInv
<1>2. /\ fs.at \in {"check", "awake"} /\ seen' = [seen EXCEPT !.x = x]
      /\ fs' = IF tell THEN [fs EXCEPT !.at = "buttons", !.changed = FALSE, !.left = diff]
               ELSE [fs EXCEPT !.at = "check", !.changed = FALSE, !.prev = fs.state]
  BY DEF Fb!FsSend
<1>3. Fb!MutexFree
  BY <1>2 DEF Fb!MutexFree
<1>4. fs.prev.b \subseteq Buttons /\ fs.state.b \subseteq Buttons
  BY <1>1 DEF FbStates
<1>5. diff \subseteq Buttons /\ fs.prev.b = (fs.prev.b \cap diff) \cup (fs.state.b \ diff)
  BY <1>4
<1> HIDE DEF diff, x
<1>6. DOMAIN seen' = SeenFields /\ \A k \in SeenFields \ {"x"} : seen'[k] = seen[k]
  BY <1>1, <1>2 DEF SeenFields
<1>7. CASE tell
  <2>1. fs' = [fs EXCEPT !.at = "buttons", !.changed = FALSE, !.left = diff]
    BY <1>2, <1>7
  <2>2. /\ DOMAIN fs' = FsFields /\ fs'.at = "buttons" /\ fs'.left = diff
        /\ fs'.state = fs.state /\ fs'.prev = fs.prev
        /\ fs'.begin = fs.begin /\ fs'.len = fs.len /\ fs'.events = fs.events
    BY <1>1, <2>1 DEF FsFields
  <2>3. /\ seen'.log = seen.log /\ seen'.packet = seen.packet /\ seen'.b = seen.b /\ seen'.l2 = seen.l2
        /\ seen'.touch = seen.touch /\ seen'.replaced = seen.replaced
    BY <1>6 DEF SeenFields
  <2>4. HistoryIs(fs, seen.log)'
    BY <2>2, <2>3, HistorySame DEF FbInv
  <2>5. ~Fb!MutexFree'
    BY <2>2 DEF Fb!MutexFree
  <2>6. (seen.log \in Seq(FbEvents) /\ seen.packet = Fb!Newest(seen.log, FEEDBACK_HISTORY_BUFFER_SIZE))'
    BY <2>3 DEF FbInv, Fb!Newest
  <2>7. FbTold'
    <3>1. /\ seen.b = fs.prev.b /\ seen.l2 = fs.prev.l2
          /\ seen.touch = IF seen.replaced \/ fs.prev.t.id < 0 THEN {} ELSE {fs.prev.t.id}
      BY <1>2, <1>3 DEF FbInv, FbTold
    <3>2. seen'.b = (fs'.prev.b \cap fs'.left) \cup (fs'.state.b \ fs'.left)
      BY <1>5, <2>2, <2>3, <3>1
    <3>3. fs'.at # "touch" /\ seen'.l2 = fs'.prev.l2
      BY <2>2, <2>3, <3>1
    <3>4. seen'.touch = IF seen'.replaced \/ fs'.prev.t.id < 0 THEN {} ELSE {fs'.prev.t.id}
      BY <2>2, <2>3, <3>1
    <3> QED
      BY <2>5, <3>2, <3>3, <3>4 DEF FbTold
  <2> QED
    BY <1>1, <1>5, <1>6, <2>2, <2>4, <2>5, <2>6, <2>7 DEF FbInv
<1>8. CASE ~tell
  <2>1. Fb!equals_for_feedback_history(fs.prev, fs.state)
    BY <1>1, <1>3, <1>8
  <2>2. fs' = [fs EXCEPT !.at = "check", !.changed = FALSE, !.prev = fs.state]
    BY <1>2, <1>8
  <2>3. /\ DOMAIN fs' = FsFields /\ fs'.at = "check" /\ fs'.prev = fs.state
        /\ \A k \in FsFields \ {"at", "changed", "prev"} : fs'[k] = fs[k]
    BY <1>1, <2>2 DEF FsFields
  <2>4. fs'.state = fs.state /\ \A k \in {"left", "begin", "len", "events"} : fs'[k] = fs[k]
    BY <2>3 DEF FsFields
  <2>5. Fb!equals_for_feedback_history(fs'.prev, fs.prev) /\ Fb!equals_for_feedback_history(fs'.prev, fs'.state)
    BY <2>1, <2>3, <2>4 DEF Fb!equals_for_feedback_history
  <2> QED
    BY <1>1, <1>3, <1>6, <2>3, <2>4, <2>5, FbQuiet
<1> QED
  BY <1>7, <1>8

\* A changed button is told.
LEMMA FbButtonOK ==
  ASSUME FbInv, Fb!FsButton
  PROVE  FbInv'
<1>1. PICK b \in fs.left :
        LET e == <<"button", b, b \in fs.state.b>>
            pushed == Fb!chiaki_feedback_history_buffer_push(fs, e)
        IN fs' = [pushed EXCEPT !.left = @ \ {b}] /\ seen' = Fb!Packet(seen, e, pushed)
  BY DEF Fb!FsButton
<1> DEFINE e == <<"button", b, b \in fs.state.b>>
           q == Fb!chiaki_feedback_history_buffer_push(fs, e)
           c == Fb!Packet(seen, e, q)
           h == fs.left \ {b}
<1>2. /\ fs.at = "buttons" /\ ~Fb!MutexFree /\ fs.state \in FbStates /\ fs.prev \in FbStates
      /\ fs.left \subseteq Buttons /\ b \in Buttons
  BY DEF Fb!FsButton, FbInv, Fb!MutexFree
<1>3. e \in FbEvents /\ e[1] = "button" /\ e[2] = b /\ (e[3] <=> b \in fs.state.b)
  <2>1. (b \in fs.state.b) \in BOOLEAN
    OBVIOUS
  <2> QED
    BY <1>2, <2>1 DEF FbEvents
<1> HIDE DEF e
<1>4. /\ DOMAIN q = FsFields /\ \A k \in FsFields \ {"begin", "len", "events"} : q[k] = fs[k]
      /\ HistoryIs(q, c.log)
      /\ DOMAIN c = SeenFields
      /\ c.log \in Seq(FbEvents)
      /\ c.packet = Fb!Newest(c.log, FEEDBACK_HISTORY_BUFFER_SIZE)
      /\ c.b = IF e[3] THEN seen.b \cup {b} ELSE seen.b \ {b}
      /\ c.l2 = seen.l2 /\ c.touch = seen.touch /\ c.replaced = seen.replaced
  BY <1>3, PacketOK
<1>5. fs' = [q EXCEPT !.left = q.left \ {b}] /\ seen' = c
  BY <1>1 DEF e
<1> HIDE DEF q, c
<1>6. q.at = fs.at /\ q.state = fs.state /\ q.prev = fs.prev /\ q.left = fs.left
  BY <1>4 DEF FsFields
<1>7. fs' = [q EXCEPT !.left = h]
  BY <1>5, <1>6
<1> HIDE DEF h
<1>8. /\ DOMAIN fs' = FsFields /\ fs'.at = "buttons" /\ fs'.left = h /\ fs'.state = fs.state /\ fs'.prev = fs.prev
      /\ fs'.begin = q.begin /\ fs'.len = q.len /\ fs'.events = q.events
  BY <1>2, <1>4, <1>6, <1>7 DEF FsFields
<1>9. HistoryIs(fs', seen'.log)
  <2>1. HistoryIs(q, seen'.log)
    BY <1>4, <1>5
  <2>2. fs'.begin = q.begin /\ fs'.len = q.len /\ fs'.events = q.events
    BY <1>8
  <2> QED
    BY <2>1, <2>2, HistorySame
<1>10. ~Fb!MutexFree'
  BY <1>8 DEF Fb!MutexFree
<1>11. FbTold'
  <2>1. /\ seen.b = (fs.prev.b \cap fs.left) \cup (fs.state.b \ fs.left) /\ seen.l2 = fs.prev.l2
        /\ seen.touch = IF seen.replaced \/ fs.prev.t.id < 0 THEN {} ELSE {fs.prev.t.id}
    BY <1>2 DEF FbInv, FbTold
  <2>2. seen'.b = (fs.prev.b \cap h) \cup (fs.state.b \ h)
    BY <1>3, <1>4, <1>5, <2>1 DEF h
  <2>3. seen'.l2 = fs.prev.l2 /\ seen'.touch = seen.touch /\ seen'.replaced = seen.replaced
    BY <1>4, <1>5, <2>1
  <2> QED
    BY <1>8, <1>10, <2>1, <2>2, <2>3 DEF FbTold
<1>12. h \subseteq Buttons
  BY <1>2 DEF h
<1>13. /\ DOMAIN seen' = SeenFields /\ seen'.log \in Seq(FbEvents)
       /\ seen'.packet = Fb!Newest(seen'.log, FEEDBACK_HISTORY_BUFFER_SIZE)
  BY <1>4, <1>5
<1>14. (HistoryIs(fs, seen.log) /\ seen.packet = Fb!Newest(seen.log, FEEDBACK_HISTORY_BUFFER_SIZE))'
  BY <1>9, <1>13 DEF HistoryIs, Fb!Newest
<1> QED
  BY <1>2, <1>8, <1>10, <1>11, <1>12, <1>13, <1>14 DEF FbInv

\* The trigger is told if it changed.
LEMMA FbTriggerOK ==
  ASSUME FbInv, Fb!FsTrigger
  PROVE  FbInv'
<1> DEFINE e == <<"l2", fs.state.l2, TRUE>>
           q == Fb!chiaki_feedback_history_buffer_push(fs, e)
           c == Fb!Packet(seen, e, q)
<1>1. /\ fs.at = "buttons" /\ fs.left = {}
      /\ IF fs.prev.l2 = fs.state.l2 THEN fs' = [fs EXCEPT !.at = "touch"] /\ seen' = seen
         ELSE fs' = [q EXCEPT !.at = "touch"] /\ seen' = c
  BY DEF Fb!FsTrigger
<1>2. /\ ~Fb!MutexFree /\ fs.state \in FbStates /\ fs.prev \in FbStates
      /\ DOMAIN fs = FsFields /\ DOMAIN seen = SeenFields
  BY <1>1 DEF FbInv, Fb!MutexFree
<1>3. e \in FbEvents /\ e[1] = "l2" /\ e[2] = fs.state.l2
  BY <1>2 DEF FbEvents, FbStates
<1> HIDE DEF e
<1>4. /\ DOMAIN q = FsFields /\ \A k \in FsFields \ {"begin", "len", "events"} : q[k] = fs[k]
      /\ HistoryIs(q, c.log)
      /\ DOMAIN c = SeenFields
      /\ c.log \in Seq(FbEvents)
      /\ c.packet = Fb!Newest(c.log, FEEDBACK_HISTORY_BUFFER_SIZE)
      /\ c.b = seen.b /\ c.l2 = fs.state.l2
      /\ c.touch = seen.touch /\ c.replaced = seen.replaced
  BY <1>3, PacketOK
<1> HIDE DEF q, c
<1>5. q.state = fs.state /\ q.prev = fs.prev /\ q.left = fs.left
  BY <1>4 DEF FsFields
<1>6. /\ DOMAIN fs' = FsFields /\ fs'.at = "touch" /\ fs'.left = {} /\ fs'.state = fs.state /\ fs'.prev = fs.prev
      /\ DOMAIN seen' = SeenFields /\ seen'.log \in Seq(FbEvents)
      /\ seen'.packet = Fb!Newest(seen'.log, FEEDBACK_HISTORY_BUFFER_SIZE)
      /\ HistoryIs(fs', seen'.log)
      /\ seen'.b = seen.b /\ seen'.l2 = fs.state.l2 /\ seen'.touch = seen.touch /\ seen'.replaced = seen.replaced
  <2>1. CASE fs.prev.l2 = fs.state.l2
    <3>1. fs' = [fs EXCEPT !.at = "touch"] /\ seen' = seen
      BY <1>1, <2>1
    <3>2. /\ DOMAIN fs' = FsFields /\ fs'.at = "touch" /\ fs'.left = fs.left /\ fs'.state = fs.state /\ fs'.prev = fs.prev
          /\ fs'.begin = fs.begin /\ fs'.len = fs.len /\ fs'.events = fs.events
      BY <1>2, <3>1 DEF FsFields
    <3>3. HistoryIs(fs', seen.log)
      BY <3>2, HistorySame DEF FbInv
    <3>4. seen.l2 = fs.prev.l2 /\ seen.log \in Seq(FbEvents) /\ seen.packet = Fb!Newest(seen.log, FEEDBACK_HISTORY_BUFFER_SIZE)
      BY <1>1 DEF FbInv, FbTold
    <3> QED
      BY <1>1, <1>2, <2>1, <3>1, <3>2, <3>3, <3>4
  <2>2. CASE fs.prev.l2 # fs.state.l2
    <3>1. fs' = [q EXCEPT !.at = "touch"] /\ seen' = c
      BY <1>1, <2>2
    <3>2. /\ DOMAIN fs' = FsFields /\ fs'.at = "touch" /\ fs'.left = q.left /\ fs'.state = q.state /\ fs'.prev = q.prev
          /\ fs'.begin = q.begin /\ fs'.len = q.len /\ fs'.events = q.events
      BY <1>4, <3>1 DEF FsFields
    <3>3. HistoryIs(fs', c.log)
      BY <1>4, <3>2, HistorySame
    <3> QED
      BY <1>1, <1>4, <1>5, <3>1, <3>2, <3>3
  <2> QED
    BY <2>1, <2>2
<1>7. ~Fb!MutexFree'
  BY <1>6 DEF Fb!MutexFree
<1>8. FbTold'
  <2>1. /\ seen.b = (fs.prev.b \cap fs.left) \cup (fs.state.b \ fs.left)
        /\ seen.touch = IF seen.replaced \/ fs.prev.t.id < 0 THEN {} ELSE {fs.prev.t.id}
    BY <1>2 DEF FbInv, FbTold
  <2>2. seen'.b = (fs.prev.b \cap {}) \cup (fs.state.b \ {})
    BY <1>1, <1>6, <2>1
  <2> QED
    BY <1>6, <1>7, <2>1, <2>2 DEF FbTold
<1>9. (HistoryIs(fs, seen.log) /\ seen.packet = Fb!Newest(seen.log, FEEDBACK_HISTORY_BUFFER_SIZE))'
  BY <1>6 DEF HistoryIs, Fb!Newest
<1> QED
  BY <1>2, <1>6, <1>7, <1>8, <1>9 DEF FbInv

\* The touch is told if it changed, and the thread has seen the state.
LEMMA FbTouchOK ==
  ASSUME FbInv, Fb!FsTouch
  PROVE  FbInv'
<1> DEFINE p == fs.prev.t
           n == fs.state.t
           ends == p.id # n.id /\ p.id >= 0
           e == IF ends THEN <<"touch", p.id, FALSE>> ELSE <<"touch", n.id, TRUE>>
           told == ends \/ (n.id >= 0 /\ p # n)
           f == Fb!chiaki_feedback_history_buffer_push(fs, e)
           d == Fb!Packet(seen, e, f)
           q == IF told THEN f ELSE fs
           c == IF told THEN d ELSE seen
           z == IF n = p THEN c.replaced ELSE ends /\ n.id >= 0
<1>1. /\ fs.at = "touch" /\ fs.left = {} /\ ~Fb!MutexFree /\ fs.state \in FbStates /\ fs.prev \in FbStates
      /\ DOMAIN fs = FsFields /\ DOMAIN seen = SeenFields
  <2>1. fs.at = "touch"
    BY Zenon DEF Fb!FsTouch
  <2> QED
    BY <2>1 DEF FbInv, Fb!MutexFree
<1>2. fs' = [q EXCEPT !.at = "check", !.prev = fs.state] /\ seen' = [c EXCEPT !.replaced = z]
  BY Zenon DEF Fb!FsTouch
<1>3. p \in {Fb!NoTouch} \cup [id : {0, 1}, at : {0, 1}] /\ n \in {Fb!NoTouch} \cup [id : {0, 1}, at : {0, 1}]
  BY <1>1 DEF FbStates
<1>4. /\ p.id \in {-1, 0, 1} /\ n.id \in {-1, 0, 1}
      /\ (p.id = -1 <=> p = Fb!NoTouch) /\ (n.id = -1 <=> n = Fb!NoTouch)
  <2> HIDE DEF p, n
  <2>1. \A t \in {Fb!NoTouch} \cup [id : {0, 1}, at : {0, 1}] : t.id \in {-1, 0, 1} /\ (t.id = -1 <=> t = Fb!NoTouch)
    BY DEF Fb!NoTouch
  <2> QED
    BY <1>3, <2>1
<1>5. told => /\ e \in FbEvents /\ e[1] = "touch"
              /\ e[2] = (IF ends THEN p.id ELSE n.id) /\ (e[3] <=> ~ends)
  <2>1. CASE ends
    <3> HIDE DEF p, n
    <3>1. p.id \in {0, 1}
      BY <1>4, <2>1
    <3>2. e = <<"touch", p.id, FALSE>>
      BY <2>1
    <3> HIDE DEF e, ends
    <3> QED
      BY <2>1, <3>1, <3>2 DEF FbEvents
  <2>2. CASE ~ends /\ told
    <3> HIDE DEF p, n
    <3>1. n.id \in {0, 1}
      BY <1>4, <2>2
    <3>2. e = <<"touch", n.id, TRUE>>
      BY <2>2
    <3> HIDE DEF e, ends
    <3> QED
      BY <2>2, <3>1, <3>2 DEF FbEvents
  <2> QED
    BY <2>1, <2>2
<1> HIDE DEF e
<1>6. told => /\ DOMAIN f = FsFields /\ \A k \in FsFields \ {"begin", "len", "events"} : f[k] = fs[k]
              /\ HistoryIs(f, d.log)
              /\ DOMAIN d = SeenFields
              /\ d.log \in Seq(FbEvents)
              /\ d.packet = Fb!Newest(d.log, FEEDBACK_HISTORY_BUFFER_SIZE)
              /\ d.b = seen.b /\ d.l2 = seen.l2 /\ d.replaced = seen.replaced
              /\ d.touch = IF ends THEN seen.touch \ {p.id} ELSE seen.touch \cup {n.id}
  <2> SUFFICES ASSUME told
               PROVE  /\ DOMAIN f = FsFields /\ \A k \in FsFields \ {"begin", "len", "events"} : f[k] = fs[k]
                      /\ HistoryIs(f, d.log)
                      /\ DOMAIN d = SeenFields
                      /\ d.log \in Seq(FbEvents)
                      /\ d.packet = Fb!Newest(d.log, FEEDBACK_HISTORY_BUFFER_SIZE)
                      /\ d.b = seen.b /\ d.l2 = seen.l2 /\ d.replaced = seen.replaced
                      /\ d.touch = IF ends THEN seen.touch \ {p.id} ELSE seen.touch \cup {n.id}
    OBVIOUS
  <2>1. /\ e \in FbEvents /\ e[1] = "touch"
        /\ e[2] = (IF ends THEN p.id ELSE n.id) /\ (e[3] <=> ~ends)
    BY <1>5
  <2> HIDE DEF told, ends, p, n
  <2>2. /\ DOMAIN f = FsFields /\ \A k \in FsFields \ {"begin", "len", "events"} : f[k] = fs[k]
        /\ HistoryIs(f, d.log)
        /\ DOMAIN d = SeenFields
        /\ d.log \in Seq(FbEvents)
        /\ d.packet = Fb!Newest(d.log, FEEDBACK_HISTORY_BUFFER_SIZE)
        /\ d.b = seen.b /\ d.l2 = seen.l2
        /\ d.touch = IF e[3] THEN seen.touch \cup {e[2]} ELSE seen.touch \ {e[2]}
        /\ d.replaced = seen.replaced
    BY <2>1, PacketOK
  <2> HIDE DEF f, d
  <2> QED
    BY <2>1, <2>2
<1> HIDE DEF f, d
<1>7. /\ DOMAIN q = FsFields /\ \A k \in FsFields \ {"begin", "len", "events"} : q[k] = fs[k]
      /\ HistoryIs(q, c.log) /\ DOMAIN c = SeenFields /\ c.log \in Seq(FbEvents)
      /\ c.packet = Fb!Newest(c.log, FEEDBACK_HISTORY_BUFFER_SIZE)
      /\ c.b = seen.b /\ c.l2 = seen.l2 /\ c.replaced = seen.replaced
  <2> HIDE DEF told
  <2>1. CASE told
    BY <1>6, <2>1
  <2>2. CASE ~told
    <3>1. q = fs /\ c = seen
      BY <2>2
    <3> HIDE DEF q, c
    <3> QED
      BY <1>1, <3>1 DEF FbInv
  <2> QED
    BY <2>1, <2>2
<1>8. /\ seen.b = fs.state.b /\ seen.l2 = fs.state.l2
      /\ seen.touch = IF seen.replaced \/ p.id < 0 THEN {} ELSE {p.id}
  BY <1>1 DEF FbInv, FbTold
<1>9. c.touch = IF z \/ n.id < 0 THEN {} ELSE {n.id}
  <2>1. CASE n = p
    <3>1. ~told
      BY <2>1
    <3>2. c = seen
      BY <3>1
    <3> HIDE DEF c, told
    <3> QED
      BY <1>8, <2>1, <3>2
  <2>2. CASE n # p /\ ends
    <3>1. told /\ p.id >= 0
      BY <2>2
    <3>2. c = d /\ (z <=> n.id >= 0)
      BY <2>2, <3>1
    <3>3. d.touch = seen.touch \ {p.id}
      BY <1>6, <2>2, <3>1
    <3>4. d.touch = {}
      BY <1>8, <3>3
    <3> HIDE DEF c, d, z, ends, told
    <3> QED
      BY <1>4, <3>2, <3>4
  <2>3. CASE n # p /\ ~ends
    <3>1. n.id >= 0 /\ told /\ ~z
      BY <1>4, <2>3
    <3>2. c = d
      BY <3>1
    <3>3. d.touch = seen.touch \cup {n.id}
      BY <1>6, <2>3, <3>1
    <3>4. p.id = n.id \/ p.id < 0
      BY <1>4, <2>3
    <3>5. seen.touch \subseteq {n.id}
      BY <1>8, <3>4
    <3> HIDE DEF c, d, z, ends, told
    <3> QED
      BY <1>4, <3>1, <3>2, <3>3, <3>5
  <2> QED
    BY <2>1, <2>2, <2>3
<1> HIDE DEF q, c, z, told, ends
<1>10. /\ DOMAIN fs' = FsFields /\ fs'.at = "check" /\ fs'.prev = fs.state /\ fs'.left = {} /\ fs'.state = fs.state
       /\ fs'.begin = q.begin /\ fs'.len = q.len /\ fs'.events = q.events
  <2>1. q.left = {} /\ q.state = fs.state
    BY <1>1, <1>7 DEF FsFields
  <2> QED
    BY <1>2, <1>7, <2>1 DEF FsFields
<1>11. /\ DOMAIN seen' = SeenFields /\ seen'.replaced = z /\ seen'.touch = c.touch
       /\ seen'.log = c.log /\ seen'.packet = c.packet /\ seen'.b = c.b /\ seen'.l2 = c.l2
  BY <1>2, <1>7 DEF SeenFields
<1>12. HistoryIs(fs', seen'.log)
  <2>1. HistoryIs(q, seen'.log)
    BY <1>7, <1>11
  <2>2. fs'.begin = q.begin /\ fs'.len = q.len /\ fs'.events = q.events
    BY <1>10
  <2> QED
    BY <2>1, <2>2, HistorySame
<1>13. Fb!MutexFree'
  BY <1>10 DEF Fb!MutexFree
<1>14. FbTold'
  BY <1>7, <1>8, <1>9, <1>10, <1>11, <1>13 DEF FbTold
<1>15. (HistoryIs(fs, seen.log) /\ seen.packet = Fb!Newest(seen.log, FEEDBACK_HISTORY_BUFFER_SIZE))'
  BY <1>7, <1>11, <1>12 DEF HistoryIs, Fb!Newest
<1>16. (Fb!MutexFree /\ ~fs.changed => Fb!equals_for_feedback_history(fs.prev, fs.state))'
  BY <1>10 DEF Fb!equals_for_feedback_history
<1>17. (seen.log \in Seq(FbEvents))'
  BY <1>7, <1>11
<1> QED
  BY <1>1, <1>10, <1>11, <1>14, <1>15, <1>16, <1>17 DEF FbInv

\* Every step keeps it.
LEMMA FbStep == FbInv /\ [Fb!NextFeedback]_feedback => FbInv'
<1> SUFFICES ASSUME FbInv, [Fb!NextFeedback]_feedback PROVE FbInv'
  OBVIOUS
<1>1. CASE \/ Fb!chiaki_feedback_sender_init \/ Fb!chiaki_feedback_sender_set_controller_state
           \/ Fb!chiaki_feedback_sender_fini \/ Fb!SignalState \/ Fb!JoinFeedback
  BY <1>1, FbCallsOK
<1>2. CASE Fb!FsBlock \/ Fb!FsTimeout \/ Fb!FsStop
  BY <1>2, FbWaitOK
<1>3. CASE Fb!FsSend
  BY <1>3, FbSendOK
<1>4. CASE Fb!FsButton
  BY <1>4, FbButtonOK
<1>5. CASE Fb!FsTrigger
  BY <1>5, FbTriggerOK
<1>6. CASE Fb!FsTouch
  BY <1>6, FbTouchOK
<1>7. CASE UNCHANGED feedback
  <2>1. fs' = fs /\ seen' = seen
    BY <1>7 DEF feedback
  <2>2. DOMAIN fs' = FsFields /\ \A k \in FsFields : fs'[k] = fs[k]
    BY <2>1 DEF FbInv
  <2> QED
    BY <2>1, <2>2, FbStill
<1> QED
  BY <1>1, <1>2, <1>3, <1>4, <1>5, <1>6, <1>7 DEF Fb!NextFeedback, Fb!FsThread

\* The promise follows.
LEMMA FbFollows == FbInv => Fb!HistoryTellsAll
<1> SUFFICES ASSUME FbInv PROVE Fb!HistoryTellsAll
  OBVIOUS
<1>1. fs.prev.t.id \in {-1, 0, 1}
  BY DEF FbInv, FbStates, Fb!NoTouch
<1>2. Fb!MutexFree => fs.at # "touch"
  BY DEF Fb!MutexFree
<1>3. Fb!MutexFree => Fb!Agrees(fs.prev)
  BY <1>1, <1>2 DEF FbInv, FbTold, Fb!Agrees
<1> QED
  BY <1>3 DEF Fb!HistoryTellsAll, FbInv

-----------------------------------------------------------------------------
\* The inductive invariant.
IInv == KeysInv /\ ConnectInv /\ SenkushaInv /\ VideoInv /\ FbInv

\* The parts do not share state, so each keeps its own part of the invariant.
THEOREM Inductive == Spec => []IInv
<1>1. Init => IInv
  BY KeysInit, ConnectInit, SenkushaInit, VideoInit, FbInit DEF Init, IInv
<1>2. IInv /\ [Next]_<<video, audio, feedback, senkusha, keys, connect>> => IInv'
  <2> SUFFICES ASSUME IInv, [Next]_<<video, audio, feedback, senkusha, keys, connect>> PROVE IInv'
    OBVIOUS
  <2>1. [Sk!NextSenkusha]_senkusha /\ [Ky!NextKeys]_keys /\ [Tc!NextConnect]_connect /\ [Vr!NextVideo]_video
        /\ [Fb!NextFeedback]_feedback
    BY DEF Next
  <2> QED
    BY <2>1, KeysStep, ConnectStep, SenkushaStep, VideoStep, FbStep DEF IInv
<1> QED
  BY <1>1, <1>2, PTL DEF Spec

\* Two packets are never encrypted with the same key positions, a packet is checked and
\* decrypted with the keys of its own position, and the ring of key chunks gives out the
\* bytes of the position asked for (gkcrypt.c), for every ring, packet size and sender.
THEOREM KeysAreRightHolds == Spec => []KeysAreRight
<1>1. IInv => KeysAreRight
  BY KeysFollow DEF IInv
<1> QED
  BY <1>1, Inductive, PTL

\* The handshake succeeds only with the console that agreed to this connection's tags
\* (takion.c), and the sizes that the bandwidth test reports pass (senkusha.c), for every
\* number of tries and every network.
THEOREM ConnectingIsSoundHolds == Spec => []ConnectingIsSound
<1>1. IInv => ConnectingIsSound
  BY ConnectFollows, SenkushaFollows DEF IInv, ConnectingIsSound
<1> QED
  BY <1>1, Inductive, PTL

\* The decoder gets frames in order and each once, complete or restored, and none whose
\* reference it never got and the console believes good; every frame passed over was shown,
\* dropped or reported; and no more units are counted than a frame has (videoreceiver.c,
\* frameprocessor.c), for every frame size, list of reference frames and first index, while
\* indices are not used twice.
THEOREM VideoIsSoundHolds == Spec => []VideoIsSound
<1>1. IInv => VideoIsSound
  BY VideoFollows DEF IInv
<1> QED
  BY <1>1, Inductive, PTL

\* A history packet holds the newest events in order, and all events together say what
\* the thread saw last (feedbacksender.c, feedback.c), for every size of the ring, every
\* set of buttons and every sequence of inputs.
THEOREM HistoryTellsAllHolds == Spec => []HistoryTellsAll
<1>1. IInv => HistoryTellsAll
  BY FbFollows DEF IInv, HistoryTellsAll
<1> QED
  BY <1>1, Inductive, PTL
=============================================================================
