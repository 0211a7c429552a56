--------------------------- MODULE FeedbackSender ---------------------------
(***************************************************************************)
(* The feedback sender (feedbacksender.c) and its history buffer           *)
(* (feedback.c): the input thread sets the state of the controller, a      *)
(* thread sends the sticks when they changed or 200 ms passed, and for     *)
(* every button or touch that differs from what it saw last a history      *)
(* packet with the newest events.                                          *)
(* A state is a stick position x, the pressed buttons b, the trigger l2    *)
(* and a touch (its id and place); all sticks and motion sensors are x.    *)
(***************************************************************************)
EXTENDS Integers, Sequences, FiniteSets

CONSTANTS
  FEEDBACK_HISTORY_BUFFER_SIZE,
  Buttons,     \* numbered in the order in which they are compared
  MaxInputs    \* bound: changes of the controller

VARIABLES
  fs,    \* the sender: thread, mutex-protected state, previous state, history ring, and the
         \* changed buttons still to be told
  gui,   \* the thread that sets states and finalises the sender
  seen   \* what went to the console: the last stick position and history packet, and,
         \* as history, all events and what they say

feedbackVars == <<fs, gui, seen>>

NoTouch == [id |-> -1, at |-> 0]
Idle == [x |-> 0, b |-> {}, l2 |-> 0, t |-> NoTouch]

InitFeedback ==
  /\ fs = [at |-> "off", state |-> Idle, prev |-> Idle, changed |-> FALSE, stop |-> FALSE, left |-> {},
           begin |-> 0, len |-> 0, events |-> [k \in 0 .. FEEDBACK_HISTORY_BUFFER_SIZE - 1 |-> <<>>]]
  /\ gui = [at |-> "run", inputs |-> 0]
  /\ seen = [x |-> 0, packet |-> <<>>, log |-> <<>>, b |-> {}, l2 |-> 0, touch |-> {}, replaced |-> FALSE]

chiaki_feedback_sender_init ==
  /\ fs.at = "off"
  /\ fs' = [fs EXCEPT !.at = "check"]
  /\ UNCHANGED <<gui, seen>>

-----------------------------------------------------------------------------
(* The thread that owns the controller.  It waits for the mutex while the sender compares
   and sends; between that and the wait it could as well come after. *)

MutexFree == fs.at \notin {"buttons", "touch"}

\* The inputs a player can make from the state s.
Inputs(s) ==
  {[s EXCEPT !.x = 1 - @], [s EXCEPT !.l2 = 1 - @]}
  \cup {[s EXCEPT !.b = IF b \in @ THEN @ \ {b} ELSE @ \cup {b}] : b \in Buttons}
  \cup {[s EXCEPT !.t = t] : t \in {NoTouch} \cup [id : {0, 1}, at : {0, 1}]}

\* The mutex is released before the signal.
chiaki_feedback_sender_set_controller_state__unmarked ==
  /\ gui.at = "run" /\ fs.at # "off" /\ MutexFree /\ gui.inputs < MaxInputs
  /\ \E s \in Inputs(fs.state) \ {fs.state} : fs' = [fs EXCEPT !.state = s]
  /\ gui' = [at |-> "signal", inputs |-> gui.inputs + 1]
  /\ UNCHANGED seen

chiaki_feedback_sender_set_controller_state ==
  /\ gui.at = "run" /\ fs.at # "off" /\ MutexFree /\ gui.inputs < MaxInputs
  /\ \E s \in Inputs(fs.state) \ {fs.state} : fs' = [fs EXCEPT !.state = s, !.changed = TRUE]
  /\ gui' = [at |-> "signal", inputs |-> gui.inputs + 1]
  /\ UNCHANGED seen

chiaki_feedback_sender_fini ==
  /\ gui.at = "run" /\ fs.at # "off" /\ MutexFree
  /\ fs' = [fs EXCEPT !.stop = TRUE]
  /\ gui' = [gui EXCEPT !.at = "signalstop"]
  /\ UNCHANGED seen

SignalState ==
  /\ gui.at \in {"signal", "signalstop"}
  /\ fs' = [fs EXCEPT !.at = IF @ = "wait" THEN "check" ELSE @]
  /\ gui' = [gui EXCEPT !.at = IF @ = "signal" THEN "run" ELSE "join"]
  /\ UNCHANGED seen

JoinFeedback ==
  /\ gui.at = "join" /\ fs.at = "over"
  /\ gui' = [gui EXCEPT !.at = "gone"]
  /\ UNCHANGED <<fs, seen>>

-----------------------------------------------------------------------------
(* feedback_sender_thread_func.  The mutex is held from the end of one wait to the next. *)

state_cond_check == fs.stop \/ fs.changed

FsBlock ==
  /\ fs.at = "check" /\ ~state_cond_check
  /\ fs' = [fs EXCEPT !.at = "wait"]
  /\ UNCHANGED <<gui, seen>>

FsTimeout ==
  /\ fs.at = "wait"
  /\ fs' = [fs EXCEPT !.at = "awake"]
  /\ UNCHANGED <<gui, seen>>

FsStop ==
  /\ fs.at \in {"check", "awake"} /\ fs.stop
  /\ fs' = [fs EXCEPT !.at = "over"]
  /\ UNCHANGED <<gui, seen>>

\* The newest event comes first; the ring grows towards lower places.
chiaki_feedback_history_buffer_push__forward(r, e) ==
  LET begin == (r.begin + 1) % FEEDBACK_HISTORY_BUFFER_SIZE IN
  [r EXCEPT !.begin = begin, !.events[begin] = e,
            !.len = IF @ + 1 >= FEEDBACK_HISTORY_BUFFER_SIZE THEN FEEDBACK_HISTORY_BUFFER_SIZE ELSE @ + 1]
chiaki_feedback_history_buffer_push(r, e) ==
  LET begin == (r.begin + FEEDBACK_HISTORY_BUFFER_SIZE - 1) % FEEDBACK_HISTORY_BUFFER_SIZE IN
  [r EXCEPT !.begin = begin, !.events[begin] = e,
            !.len = IF @ + 1 >= FEEDBACK_HISTORY_BUFFER_SIZE THEN FEEDBACK_HISTORY_BUFFER_SIZE ELSE @ + 1]

chiaki_feedback_history_buffer_format(r) ==
  [k \in 1 .. r.len |-> r.events[(r.begin + k - 1) % FEEDBACK_HISTORY_BUFFER_SIZE]]

\* History: what the event e tells the console.
Told(c, e) ==
  [c EXCEPT !.log = Append(@, e),
            !.b = IF e[1] # "button" THEN @ ELSE IF e[3] THEN @ \cup {e[2]} ELSE @ \ {e[2]},
            !.l2 = IF e[1] # "l2" THEN @ ELSE e[2],
            !.touch = IF e[1] # "touch" THEN @ ELSE IF e[3] THEN @ \cup {e[2]} ELSE @ \ {e[2]}]

\* feedback_sender_send_history_packet, after each event that was pushed.
Packet(c, e, r) == [Told(c, e) EXCEPT !.packet = chiaki_feedback_history_buffer_format(r)]

\* Woken by a change, or by the time, when the sticks are sent unasked.
equals_for_feedback_history(p, n) == p.b = n.b /\ p.l2 = n.l2 /\ p.t = n.t
FsSend ==
  /\ fs.at \in {"check", "awake"} /\ ~fs.stop /\ (fs.at = "awake" \/ fs.changed)
  /\ seen' = [seen EXCEPT !.x = IF ~fs.changed \/ fs.state.x # fs.prev.x THEN fs.state.x ELSE @]
  /\ fs' = IF fs.changed /\ ~equals_for_feedback_history(fs.prev, fs.state)
           THEN [fs EXCEPT !.at = "buttons", !.changed = FALSE,
                           !.left = {b \in Buttons : (b \in fs.prev.b) # (b \in fs.state.b)}]
           ELSE [fs EXCEPT !.at = "check", !.changed = FALSE, !.prev = fs.state]
  /\ UNCHANGED gui

\* feedback_sender_send_history: an event for each button that differs, for the trigger,
\* and for the touch.  A touch whose id changed is ended; the new one is begun only if
\* there was none.
FsButton ==
  /\ fs.at = "buttons"
  /\ \E b \in fs.left :
       LET e == <<"button", b, b \in fs.state.b>>
           pushed == chiaki_feedback_history_buffer_push(fs, e)
       IN /\ \A c \in fs.left : b <= c
          /\ fs' = [pushed EXCEPT !.left = @ \ {b}]
          /\ seen' = Packet(seen, e, pushed)
  /\ UNCHANGED gui

FsTrigger ==
  /\ fs.at = "buttons" /\ fs.left = {}
  /\ LET e == <<"l2", fs.state.l2, TRUE>>
         pushed == chiaki_feedback_history_buffer_push(fs, e)
     IN IF fs.prev.l2 = fs.state.l2 THEN fs' = [fs EXCEPT !.at = "touch"] /\ UNCHANGED seen
        ELSE fs' = [pushed EXCEPT !.at = "touch"] /\ seen' = Packet(seen, e, pushed)
  /\ UNCHANGED gui

FsTouch ==
  /\ fs.at = "touch"
  /\ LET p == fs.prev.t
         n == fs.state.t
         ends == p.id # n.id /\ p.id >= 0
         e == IF ends THEN <<"touch", p.id, FALSE>> ELSE <<"touch", n.id, TRUE>>
         told == ends \/ (n.id >= 0 /\ p # n)
         pushed == IF told THEN chiaki_feedback_history_buffer_push(fs, e) ELSE fs
     IN /\ fs' = [pushed EXCEPT !.at = "check", !.prev = fs.state]
        /\ seen' = [(IF told THEN Packet(seen, e, pushed) ELSE seen)
                      EXCEPT !.replaced = IF n = p THEN @ ELSE ends /\ n.id >= 0]
  /\ UNCHANGED gui

FsThread == FsBlock \/ FsTimeout \/ FsStop \/ FsSend \/ FsButton \/ FsTrigger \/ FsTouch
NextFeedback ==
  \/ chiaki_feedback_sender_init \/ chiaki_feedback_sender_set_controller_state
  \/ chiaki_feedback_sender_fini \/ SignalState \/ JoinFeedback \/ FsThread

FairFeedback == WF_feedbackVars(FsThread) /\ WF_feedbackVars(SignalState) /\ WF_feedbackVars(JoinFeedback)

-----------------------------------------------------------------------------
Newest(log, n) == [k \in 1 .. (IF Len(log) < n THEN Len(log) ELSE n) |-> log[Len(log) - k + 1]]
Agrees(s) ==
  seen.b = s.b /\ seen.l2 = s.l2 /\ (seen.replaced \/ seen.touch = IF s.t.id >= 0 THEN {s.t.id} ELSE {})

\* A history packet holds the newest events in order, so that the loss of as many packets
\* as the buffer has places loses none; and all events together say what the thread saw
\* last once it has told it, but for a touch that took the place of another one between
\* two looks.
HistoryTellsAll ==
  /\ seen.packet = Newest(seen.log, FEEDBACK_HISTORY_BUFFER_SIZE)
  /\ MutexFree => Agrees(fs.prev)

\* Whatever is pressed while the thread sends, waits or times out, the console hears of
\* the last state; and fini returns.
LastInputIsSent ==
  /\ <>[](fs.at = "off" \/ fs.stop \/ (seen.x = fs.state.x /\ Agrees(fs.state)))
  /\ (gui.at = "signalstop") ~> (gui.at = "gone")
=============================================================================
