-------------------------- MODULE SoundAndRumble --------------------------
(***************************************************************************)
(* Sound and vibration of the Switch client (io.cpp): the sinks that the   *)
(* receive thread calls with decoded audio and with haptics, and the       *)
(* rumble event. Haptic frames drive the motors until haptics stop coming; *)
(* it is the next audio frame that then stops the motors.                  *)
(***************************************************************************)
EXTENDS Integers

CONSTANTS
  AudioLimit,    \* audio frames queued beyond which the queue is cleared (96000 bytes)
  U8             \* values of an uint8_t (256 in the code)

VARIABLE
  snd   \* audio device and queue, motors, haptic_val, haptic_lock and the age of the last haptics

soundVars == snd

InitSound ==
  snd = [on |-> FALSE, device |-> FALSE, queued |-> 0, motor |-> 0, by |-> "none",
         haptic_val |-> 0, haptic_lock |-> FALSE, recent |-> FALSE]

\* A stream begins; the audio device of an earlier one is kept.
SoundStarts == ~snd.on /\ snd' = [snd EXCEPT !.on = TRUE]

\* InitAudioCB opens the device once.
InitAudioCB ==
  /\ snd.on
  /\ \E opens \in BOOLEAN : snd' = [snd EXCEPT !.device = @ \/ opens]

\* hidSendVibrationValues
Vibrate(s, value, by) == [s EXCEPT !.motor = value, !.by = by]

\* SetRumble: the console sets the motors and turns them off itself.
SetRumble == snd.on /\ \E strong \in BOOLEAN : snd' = Vibrate(snd, IF strong THEN 1 ELSE 0, "event")

\* SetHapticRumble takes the two means as uint8_t and remembers the larger.
Larger(a, b) == IF a > b THEN a ELSE b
SetHapticRumble(s, left, right) ==
  LET val == Larger(left % U8, right % U8)
  IN [Vibrate(s, val, "haptics") EXCEPT !.haptic_val = val, !.recent = TRUE]

\* HapticCB: the means of both channels, 16 bits wide.
HapticCB ==
  /\ snd.on
  /\ \E left \in {0, 1, U8}, right \in {0, U8 - 1} :
       snd' = [SetHapticRumble(snd, left, right) EXCEPT !.haptic_lock = @ \/ left # 0 \/ right # 0]

\* 30 ms pass.
HapticsAge == snd.on /\ snd.recent /\ snd' = [snd EXCEPT !.recent = FALSE]

CleanUpHaptic(s) ==
  IF s.haptic_val = 0 THEN [s EXCEPT !.haptic_lock = FALSE]
  ELSE IF s.recent THEN s
  ELSE [SetHapticRumble(s, 0, 0) EXCEPT !.haptic_lock = FALSE]

\* AudioCB: a queue that is too long is cleared; queueing may fail.
Queued(s) == IF s.queued > AudioLimit THEN [s EXCEPT !.queued = 0] ELSE s
AudioCB ==
  /\ snd.on
  /\ \E queues \in BOOLEAN :
       LET q == Queued(snd)
           r == IF snd.device /\ queues THEN [q EXCEPT !.queued = @ + 1] ELSE q
       IN snd' = IF r.haptic_lock THEN CleanUpHaptic(r) ELSE r

DevicePlays == snd.on /\ snd.queued > 0 /\ snd' = [snd EXCEPT !.queued = @ - 1]

NextSound ==
  SoundStarts \/ InitAudioCB \/ SetRumble \/ HapticCB \/ HapticsAge \/ AudioCB \/ DevicePlays

\* Motors that haptics switched on are under the lock that makes a later audio frame stop
\* them, and the audio that waits is bounded.
MotorsAreWatched ==
  /\ snd.motor > 0 /\ snd.by = "haptics" => snd.haptic_lock /\ snd.haptic_val = snd.motor
  /\ snd.queued <= AudioLimit + 1
=============================================================================
