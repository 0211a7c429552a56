------------------------------- MODULE Media -------------------------------
(***************************************************************************)
(* The parts of a running stream below the stream connection: the Takion   *)
(* handshake, the bandwidth test (senkusha), the key stream of the packets *)
(* and the video, audio and input that travel in them.                     *)
(* Each part is explored by itself, the others not having begun: each one  *)
(* has its own state and threads, and what it takes from the others (a     *)
(* packet that arrives, is lost or comes twice) is chosen freely.          *)
(***************************************************************************)
EXTENDS Integers, Sequences, FiniteSets

CONSTANTS VHalf, RefFrames, SrcUnits, MaxVFrames, MaxBehind, MaxSkip, FirstFrames
CONSTANTS AHalf, ASrc, AFec, MaxAudio, MaxFaults, MaxReports, U64
CONSTANTS FEEDBACK_HISTORY_BUFFER_SIZE, Buttons, MaxInputs
CONSTANTS MinMtu, MaxMtu, MtuRetries, PingCount, PathMtus, MaxLate
CONSTANTS KEY_BUF_CHUNK_SIZE, KeyBufChunks, KeyHalf, KeyRefresh, BlockSize, Sizes, KeySenders, MaxKeyPos
CONSTANTS MAX_CONNECT_RESEND_TRIES, MaxDups

\* The history has a place.
ASSUME FeedbackAssumption == FEEDBACK_HISTORY_BUFFER_SIZE \in Nat \ {0}

\* No frame index is used twice, and units that arrive together are of frames less than
\* half the indices apart.
ASSUME VideoAssumption ==
  /\ VHalf \in Nat \ {0} /\ SrcUnits \in Nat \ {0} /\ RefFrames \in Nat
  /\ MaxVFrames \in Nat /\ MaxVFrames <= 2 * VHalf
  /\ MaxBehind \in Nat /\ MaxSkip \in Nat /\ MaxBehind + MaxSkip < VHalf
  /\ FirstFrames \subseteq 0 .. 2 * VHalf - 1
\* The ring has chunks, numbers are compared round the circle, and no path carries less than
\* the least size senkusha tries.
ASSUME KeysAssumption ==
  /\ {KEY_BUF_CHUNK_SIZE, KeyBufChunks, KeyHalf, BlockSize} \subseteq Nat \ {0}
  /\ Sizes \subseteq Nat
ASSUME MtuAssumption ==
  /\ MinMtu \in Nat \ {0} /\ MaxMtu \in Nat /\ MinMtu <= MaxMtu
  /\ PathMtus \subseteq Nat /\ \A m \in PathMtus : MinMtu <= m

VARIABLES v, vnet
VARIABLES au, ps, anet
VARIABLES fs, gui, seen
VARIABLES sk, sknet
VARIABLES kb, kr, ks
VARIABLES tc, tcnet

video == <<v, vnet>>
audio == <<au, ps, anet>>
feedback == <<fs, gui, seen>>
senkusha == <<sk, sknet>>
keys == <<kb, kr, ks>>
connect == <<tc, tcnet>>

Vr == INSTANCE VideoReceiver WITH Half <- VHalf
Ar == INSTANCE AudioReceiver
Fb == INSTANCE FeedbackSender
Sk == INSTANCE Senkusha
Ky == INSTANCE KeyStream
Tc == INSTANCE TakionConnect

Init ==
  /\ Vr!InitVideo /\ Ar!InitAudio /\ Fb!InitFeedback
  /\ Sk!InitSenkusha /\ Ky!InitKeys /\ Tc!InitConnect

\* No part but x has begun.
Only(x) ==
  /\ x # "video" => ~v.on
  /\ x # "audio" => au.at = "off"
  /\ x # "feedback" => fs.at = "off"
  /\ x # "senkusha" => sk.at = "off"
  /\ x # "keys" => kb.at = "off" /\ ~kr.on /\ ~ks.on
  /\ x # "connect" => tc.at = "off"

Next ==
  \/ Only("video") /\ Vr!NextVideo /\ UNCHANGED <<audio, feedback, senkusha, keys, connect>>
  \/ Only("audio") /\ Ar!NextAudio /\ UNCHANGED <<video, feedback, senkusha, keys, connect>>
  \/ Only("feedback") /\ Fb!NextFeedback /\ UNCHANGED <<video, audio, senkusha, keys, connect>>
  \/ Only("senkusha") /\ Sk!NextSenkusha /\ UNCHANGED <<video, audio, feedback, keys, connect>>
  \/ Only("keys") /\ Ky!NextKeys /\ UNCHANGED <<video, audio, feedback, senkusha, connect>>
  \/ Only("connect") /\ Tc!NextConnect /\ UNCHANGED <<video, audio, feedback, senkusha, keys>>

Spec == Init /\ [][Next]_<<video, audio, feedback, senkusha, keys, connect>>
FairSpec == Spec /\ Fb!FairFeedback /\ Sk!FairSenkusha /\ Ky!FairKeys /\ Tc!FairConnect

\* A frame is handed to the decoder once, in order, and only when all its units are there
\* or were recovered and the frame it refers to was decoded; and every frame that cannot be
\* shown is reported to the console, which would otherwise keep referring to it
\* (VideoReceiver).
VideoIsSound == Vr!FramesAreSound /\ Vr!LossesAreReported

\* Audio frames reach the sink in order and a lost one that FEC can restore is heard; the
\* packet statistics count what arrived since the last report (AudioReceiver).
AudioIsSound == Ar!AudioIsHeard /\ Ar!StatsAreExact

\* The console learns of every press and release the sender thread saw, although history
\* packets are lost and the ring holds only the last events (FeedbackSender).
HistoryTellsAll == Fb!HistoryTellsAll

\* Two packets are never encrypted with the same key positions, a packet is checked and
\* decrypted with the keys of its own position, and the ring of key chunks gives out the
\* bytes that belong to the position asked for (KeyStream).
KeysAreRight == Ky!KeysAreRight

\* The handshake succeeds only when the console agreed to this very connection's tags
\* (TakionConnect), and the MTU that senkusha then reports is one the path carries, late
\* answers of an earlier probe notwithstanding (Senkusha).
ConnectingIsSound == Tc!HandshakeIsMutual /\ Sk!MtuIsReal

\* The last input reaches the console, the bandwidth test and the handshake end whatever
\* the console answers, and the key buffer's thread ends when it is told to.
MediaPartsEnd == Fb!LastInputIsSent /\ Sk!SenkushaEnds /\ Ky!KeyBufEnds /\ Tc!HandshakeEnds
=============================================================================
