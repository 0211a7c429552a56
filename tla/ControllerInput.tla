-------------------------- MODULE ControllerInput --------------------------
(***************************************************************************)
(* What the Switch client makes of the buttons and the touch screen        *)
(* (io.cpp UpdateControllerState, controller.c): button events set and     *)
(* clear bits of the controller state, fingers become touches, and Minus   *)
(* is a modifier that clicks, holds or swipes the touchpad with a touch    *)
(* of its own. One action is one call of UpdateControllerState, once per   *)
(* picture drawn. The sticks and the motion sensors are left out.          *)
(***************************************************************************)
EXTENDS Integers

CONSTANTS
  Fingers,       \* finger ids of the touch screen
  BorderFingers, \* those that touch its border
  TouchIds,      \* touch ids before they wrap (TOUCH_ID_MASK + 1 = 128 in the code)
  HoldFrames,    \* frames after which Minus is held, not tapped (18)
  TapFrames,     \* length of a tap (5)
  SwipeFrames    \* length of a swipe (9)

VARIABLE
  ci   \* the controller state, the fingers' touches, the synthetic touch and the modifier

inputVars == ci

Keys == {"Minus", "Plus", "L", "A"}
None == -1      \* no touch: all were taken
Away == -2      \* a finger that is not on the screen

\* Which bit a key drives; the bits of L are toggled when it is released, the others cleared.
BitOf == [k \in Keys |->
            CASE k = "Minus" -> "SHARE" [] k = "Plus" -> "OPTIONS" [] k = "L" -> "L1" [] k = "A" -> "MOON"]
Toggled == {"L"}

\* InitSession: chiaki_controller_state_set_idle and SetPS3Stream.
chiaki_controller_state_set_idle == [buttons |-> {}, touches |-> [i \in {0, 1} |-> None], next |-> 0]
SetPS3Stream(is_ps3) ==
  [ps3 |-> is_ps3, minus_held_frames |-> 0, combo |-> FALSE, mode |-> "NONE", id |-> None, frame |-> 0]

InitInput ==
  ci = [on |-> FALSE, st |-> chiaki_controller_state_set_idle, io |-> SetPS3Stream(FALSE), fingers |-> [f \in Fingers |-> Away],
        held |-> {}, exit |-> FALSE, muted |-> FALSE, stuck |-> FALSE, clash |-> FALSE]

InputStarts ==
  /\ ~ci.on
  /\ \E is_ps3 \in BOOLEAN : ci' = [ci EXCEPT !.on = TRUE, !.io = SetPS3Stream(is_ps3)]

-----------------------------------------------------------------------------
(* Touches of the controller state (controller.c) *)

FreeTouches(st) == {i \in {0, 1} : st.touches[i] < 0}
chiaki_controller_state_start_touch(st) ==
  LET i == CHOOSE j \in FreeTouches(st) : \A k \in FreeTouches(st) : j <= k
  IN IF FreeTouches(st) = {} THEN [st |-> st, id |-> None]
     ELSE [st |-> [st EXCEPT !.touches[i] = st.next, !.next = (@ + 1) % TouchIds], id |-> st.next]

\* Only the first touch with this id.
chiaki_controller_state_stop_touch(st, id) ==
  IF st.touches[0] = id THEN [st EXCEPT !.touches[0] = None]
  ELSE IF st.touches[1] = id THEN [st EXCEPT !.touches[1] = None] ELSE st

StartClashes(st) == FreeTouches(st) # {} /\ \E i \in {0, 1} : st.touches[i] = st.next

-----------------------------------------------------------------------------
(* UpdateControllerState, in the order of the code; r is the state of all this *)

\* ReadGameKeys: the events of the keys that went down and up.
Pressed(bits, down) == bits \union {BitOf[k] : k \in down}
Cleared(bits, up) == bits \ {BitOf[k] : k \in up \ Toggled}
ToggledBits(bits, up) ==
  LET t == {BitOf[k] : k \in up \cap Toggled} IN (bits \ t) \union (t \ bits)
ReadGameKeys(r, down, up) ==
  [r EXCEPT !.st.buttons = ToggledBits(Cleared(Pressed(@, down), up), up),
            !.stuck = IF "L" \in up THEN ci.muted ELSE IF "L" \in down THEN FALSE ELSE @,
            !.muted = IF "L" \in up THEN FALSE ELSE @]

\* ReadGameTouchScreen: fingers that left end their touches, new ones start one if one is free.
LiftFinger__keeps_touch(r, f) == [r EXCEPT !.fingers[f] = Away]
LiftFinger(r, f) ==
  [r EXCEPT !.fingers[f] = Away,
            !.st = IF r.fingers[f] >= 0 THEN chiaki_controller_state_stop_touch(@, r.fingers[f]) ELSE @]
PutFinger(r, f) ==
  LET t == chiaki_controller_state_start_touch(r.st)
  IN [r EXCEPT !.fingers[f] = t.id, !.st = t.st, !.clash = @ \/ StartClashes(r.st)]
\* One finger changes between two frames, or none; one at the border presses the touchpad.
ReadGameTouchScreen(r, f) ==
  LET q == IF f \notin Fingers THEN r ELSE IF r.fingers[f] # Away THEN LiftFinger(r, f) ELSE PutFinger(r, f)
      pressed == \E g \in BorderFingers : q.fingers[g] # Away
  IN [q EXCEPT !.st.buttons = IF pressed THEN @ \union {"TOUCHPAD"} ELSE @ \ {"TOUCHPAD"}]

\* The touch of the modifier.
StopSynthetic(r) == [r EXCEPT !.st = chiaki_controller_state_stop_touch(@, r.io.id)]
StartSyntheticTouch(r, mode) ==
  LET q == IF r.io.id >= 0 THEN StopSynthetic(r) ELSE r
      t == chiaki_controller_state_start_touch(q.st)
  IN [q EXCEPT !.st = t.st, !.clash = @ \/ StartClashes(q.st),
               !.io = [@ EXCEPT !.id = t.id, !.frame = 0, !.mode = IF t.id < 0 THEN "NONE" ELSE mode]]
EndSynthetic(r) ==
  [StopSynthetic(r) EXCEPT !.st.buttons = @ \ {"TOUCHPAD"}, !.io = [@ EXCEPT !.id = None, !.mode = "NONE"]]

Finished(o) == (o.mode = "TAP" /\ o.frame >= TapFrames) \/ (o.mode = "SWIPE" /\ o.frame >= SwipeFrames)
\* Frames of a held touch are not looked at.
FramesMatter(o) == o.mode \in {"TAP", "SWIPE"}
UpdateSyntheticTouch(r) ==
  LET q == [r EXCEPT !.io.frame = IF FramesMatter(r.io) THEN @ + 1 ELSE @,
                     !.st.buttons = IF r.io.mode \in {"TAP", "HOLD"} THEN @ \union {"TOUCHPAD"} ELSE @]
  IN IF r.io.mode = "NONE" \/ r.io.id < 0 THEN r
     ELSE IF Finished(q.io) THEN EndSynthetic(q) ELSE q

\* ApplyCloudPadControllerMapping on a PS3: Minus is SHARE, with Plus it is PS.
MapPs3(r, held) ==
  LET home == {"Minus", "Plus"} \subseteq held
  IN [r EXCEPT !.st.buttons = IF home THEN (@ \ {"SHARE", "OPTIONS"}) \union {"PS"}
                              ELSE (@ \ {"PS"}) \union (IF "Minus" \in held THEN {"SHARE"} ELSE {})]

\* On a PS4 or PS5 Minus is a modifier: it mutes the keys held with it and starts touches.
\* minus_held_frames counts on; beyond HoldFrames nothing depends on it.
CountFrame(n) == IF n > HoldFrames THEN n ELSE n + 1
Muted(r, held) ==
  [r EXCEPT !.st.buttons = @ \ {BitOf[k] : k \in held \cap {"L", "A"}}, !.muted = @ \/ "L" \in held]
Combo(r, down) ==
  IF "L" \in down THEN StartSyntheticTouch([r EXCEPT !.io.combo = TRUE], "TAP")
  ELSE IF "A" \in down THEN StartSyntheticTouch([r EXCEPT !.io.combo = TRUE], "SWIPE")
  ELSE IF "Plus" \in down THEN [r EXCEPT !.io.combo = TRUE] ELSE r
Home(r, held) ==
  [r EXCEPT !.st.buttons = IF "Plus" \in held THEN (@ \ {"OPTIONS"}) \union {"PS"} ELSE @ \ {"PS"}]
Hold(r) ==
  IF ~r.io.combo /\ r.io.minus_held_frames = HoldFrames THEN StartSyntheticTouch(r, "HOLD") ELSE r
MinusHeld(r, held, down) ==
  IF "Minus" \notin held THEN r
  ELSE LET a == [r EXCEPT !.io.minus_held_frames = CountFrame(@)]
       IN Hold(Home(Combo(Muted(a, held), down), held))
MinusDown(r, down) ==
  IF "Minus" \in down THEN [r EXCEPT !.io = [@ EXCEPT !.minus_held_frames = 0, !.combo = FALSE]] ELSE r
MinusUp(r, up) ==
  LET a == IF r.io.mode = "HOLD" /\ r.io.id >= 0 THEN EndSynthetic(r)
           ELSE IF ~r.io.combo /\ r.io.minus_held_frames < HoldFrames THEN StartSyntheticTouch(r, "TAP") ELSE r
  IN IF "Minus" \notin up THEN r
     ELSE [a EXCEPT !.io = [@ EXCEPT !.minus_held_frames = 0, !.combo = FALSE], !.st.buttons = @ \ {"PS"}]
MapPs45(r, held, down, up) ==
  LET a == [r EXCEPT !.st.buttons = @ \ {"SHARE"}]
  IN UpdateSyntheticTouch(MinusUp(MinusHeld(MinusDown(a, down), held, down), up))
ApplyCloudPadControllerMapping(r, held, down, up) ==
  IF r.io.ps3 THEN MapPs3(r, held) ELSE MapPs45(r, held, down, up)

\* The whole call: keys may change between two frames, one of them here. ZL and ZR, which set
\* l2_state and r2_state, may be held at any time: with Plus they ask to leave.
\* Nothing is claimed once an id is in use twice, so the exploration ends there.
UpdateControllerState ==
  /\ ci.on /\ ~ci.exit /\ ~ci.clash
  /\ \E keys \in {{}} \union {{k} : k \in Keys}, f \in Fingers \union {None}, triggers \in BOOLEAN :
       LET held == (ci.held \ keys) \union (keys \ ci.held)
           down == held \ ci.held
           up == ci.held \ held
           r == [ci EXCEPT !.held = held, !.exit = triggers /\ "Plus" \in held]
       IN ci' = ApplyCloudPadControllerMapping(
                  ReadGameTouchScreen(ReadGameKeys(r, down, up), f), held, down, up)

NextInput == InputStarts \/ UpdateControllerState

-----------------------------------------------------------------------------
\* The fingers and the modifier (None) whose touch has this id.
Owners(id) == {f \in Fingers : ci.fingers[f] = id} \union {m \in {None} : ci.io.id = id}

\* Until touch ids wrap into one still in use, every touch sent to the console is that of a
\* finger on the screen or the modifier's, whose tap or swipe runs out and whose hold lasts
\* only while Minus is down. A button is reported only while its key is down, except L1 after
\* it was pressed with Minus, which the release then switches on (io.cpp:1050-1055).
InputIsReal ==
  /\ \A i \in {0, 1} : LET id == ci.st.touches[i] IN
       id >= 0 /\ ~ci.clash => \E o \in Owners(id) : Owners(id) = {o}
  /\ ci.io.mode = "HOLD" => "Minus" \in ci.held
  /\ ci.io.mode # "NONE" => ci.io.id >= 0 /\ (FramesMatter(ci.io) => ci.io.frame < SwipeFrames)
  /\ \A k \in Keys : BitOf[k] \in ci.st.buttons => k \in ci.held \/ (k = "L" /\ ci.stuck)
  /\ "PS" \in ci.st.buttons => {"Minus", "Plus"} \subseteq ci.held
=============================================================================
