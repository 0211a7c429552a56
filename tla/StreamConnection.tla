-------------------------- MODULE StreamConnection --------------------------
(***************************************************************************)
(* The stream connection of lib/src/streamconnection.c with the threads    *)
(* that meet in it: chiaki_stream_connection_run on the session thread,    *)
(* the Takion threads that call stream_connection_takion_cb, the           *)
(* congestion control thread, whoever calls chiaki_stream_connection_stop  *)
(* and the GUI thread that calls chiaki_session_set_controller_state.      *)
(*                                                                         *)
(* state_mutex is held by run except while it waits on state_cond, sends   *)
(* the CONNECTED event, closes Takion or has not begun; every other critical *)
(* section is one action.  A protobuf message is named by what its handler *)
(* makes of it, the replies the handler sends included.  What Takion       *)
(* itself does is the subject of TakionRecv: here it delivers CONNECTED,   *)
(* messages and A/V packets, and DISCONNECT last.                          *)
(*                                                                         *)
(* A suffix after "__" marks a variant with a plausible mistake of the     *)
(* definition that follows it, for checking the properties.                *)
(***************************************************************************)
EXTENDS Integers

CONSTANT Controllers \* controller states the GUI may report

ASSUME ControllersAssumption == Controllers # {}

VARIABLES
  run,                 \* pc of chiaki_stream_connection_run
  wait,                \* "no", "asleep" on state_cond, "woken", "timeout"
  state, state_finished, state_failed, should_stop, remote_disconnected,
  ecdh_secret,         \* allocated
  crypt,               \* chiaki_takion_set_crypt was called
  early,               \* streaminfo_early_buf: the message kept, or "none"
  receivers,           \* audio, haptics and video receiver are allocated
  congestion,          \* the congestion control thread runs
  feedback_active,
  feedback_state,      \* controller state the feedback sender holds
  controller_state,    \* of the session
  takion,              \* "none", "connecting", "connected", "down", "closed"
  av,                  \* an A/V callback is running
  err,                 \* of run; "UNKNOWN" stands for every other error
  first_info,          \* history: the first STREAMINFO since BIG was sent
  connected            \* history: the CONNECTED event was sent

stateVars == <<state, state_finished, state_failed>>
cryptVars == <<ecdh_secret, crypt>>
feedbackVars == <<feedback_active, feedback_state, controller_state>>
takionVars == <<takion, av>>
historyVars == <<first_info, connected>>
vars == <<run, wait, stateVars, should_stop, remote_disconnected, cryptVars, early,
          receivers, congestion, feedbackVars, takionVars, err, historyVars>>

Waits == {"wait_connect", "wait_bang", "wait_streaminfo", "idle"}
Aborted == run = "aborted"

\* Nobody holds state_mutex.
MutexFree ==
  \/ run \in {"begin", "event", "closing", "free", "returned", "finalized"}
  \/ run \in Waits /\ wait # "no"

Bangs == {"bang", "bang_underivable", "bang_no_crypt"}
Streaminfos == {"streaminfo", "streaminfo_bad"}
Messages == Bangs \cup Streaminfos \cup {"bang_refused", "disconnect", "other"}

TypeOK ==
  /\ run \in Waits \cup {"begin", "streaminfo_done", "event", "feedback_fini",
                         "disconnect", "congestion_stop", "close", "closing", "free",
                         "returned", "finalized", "aborted"}
  /\ wait \in {"no", "asleep", "woken", "timeout"}
  /\ state \in {"IDLE", "TAKION_CONNECT", "EXPECT_BANG", "EXPECT_STREAMINFO"}
  /\ state_finished \in BOOLEAN /\ state_failed \in BOOLEAN
  /\ should_stop \in BOOLEAN /\ remote_disconnected \in BOOLEAN
  /\ ecdh_secret \in BOOLEAN /\ crypt \in BOOLEAN
  /\ early \in {"none", "streaminfo", "streaminfo_bad"}
  /\ receivers \in BOOLEAN /\ congestion \in BOOLEAN
  /\ feedback_active \in BOOLEAN
  /\ feedback_state \in Controllers /\ controller_state \in Controllers
  /\ takion \in {"none", "connecting", "connected", "down", "closed"}
  /\ av \in BOOLEAN
  /\ err \in {"SUCCESS", "TIMEOUT", "UNKNOWN", "CANCELED", "DISCONNECTED"}
  /\ first_info \in {"none", "streaminfo", "streaminfo_bad"}
  /\ connected \in BOOLEAN

\* chiaki_stream_connection_init, in a session that was cleared before.
Init ==
  /\ run = "begin" /\ wait = "no"
  /\ state = "IDLE" /\ state_finished = FALSE /\ state_failed = FALSE
  /\ should_stop = FALSE /\ remote_disconnected = FALSE
  /\ ecdh_secret = FALSE /\ crypt = FALSE
  /\ early = "none"
  /\ receivers = FALSE /\ congestion = FALSE
  /\ feedback_active = FALSE
  /\ controller_state \in Controllers /\ feedback_state = controller_state
  /\ takion = "none" /\ av = FALSE
  /\ err = "SUCCESS"
  /\ first_info = "none" /\ connected = FALSE
-----------------------------------------------------------------------------
Pred__no_stop == state_finished \/ remote_disconnected

\* state_finished_cond_check
Pred == state_finished \/ should_stop \/ remote_disconnected

\* chiaki_cond_signal(state_cond); only run waits on it.
SignalState == wait' = IF wait = "asleep" THEN "woken" ELSE wait

EnterState(s) == state' = s /\ state_finished' = FALSE /\ state_failed' = FALSE

\* The waits of chiaki_cond_timedwait_pred: Passed holds when run goes on with
\* the mutex, after the predicate held or the time was up.
Passed(w) ==
  /\ run = w
  /\ \/ wait \in {"no", "woken"} /\ Pred
     \/ wait = "timeout"
WaitError == IF wait = "timeout" THEN "TIMEOUT" ELSE "SUCCESS"

Sleep ==
  /\ run \in Waits
  /\ wait \in {"no", "woken"}
  /\ ~Pred
  /\ wait' = "asleep"
  /\ UNCHANGED <<run, stateVars, should_stop, remote_disconnected, cryptVars, early,
                 receivers, congestion, feedbackVars, takionVars, err, historyVars>>

TimeIsUp ==
  /\ wait = "asleep"
  /\ wait' = "timeout"
  /\ UNCHANGED <<run, stateVars, should_stop, remote_disconnected, cryptVars, early,
                 receivers, congestion, feedbackVars, takionVars, err, historyVars>>
-----------------------------------------------------------------------------
\* Up to the first wait.  One of the receivers or the connection cannot be
\* had, the congestion control thread cannot be started, or all goes well.
Begin ==
  /\ run = "begin"
  /\ \/ /\ run' = "returned" /\ err' = "UNKNOWN"
        /\ UNCHANGED <<stateVars, receivers, congestion, takion>>
     \/ /\ run' = "free" /\ err' = "UNKNOWN"
        /\ EnterState("TAKION_CONNECT")
        /\ receivers' = TRUE
        /\ UNCHANGED <<congestion, takion>>
     \/ /\ run' = "close" /\ err' = "UNKNOWN"
        /\ EnterState("TAKION_CONNECT")
        /\ receivers' = TRUE /\ takion' = "connecting"
        /\ UNCHANGED congestion
     \/ /\ run' = "wait_connect"
        /\ EnterState("TAKION_CONNECT")
        /\ receivers' = TRUE /\ takion' = "connecting" /\ congestion' = TRUE
        /\ UNCHANGED err
  /\ UNCHANGED <<wait, should_stop, remote_disconnected, cryptVars, early,
                 feedbackVars, av, historyVars>>

\* After the wait for the connection: CHECK_STOP leaves to close_takion, past
\* chiaki_congestion_control_stop; a timeout fails; otherwise BIG is sent.
TakionConnected ==
  /\ Passed("wait_connect")
  /\ wait' = "no"
  /\ \/ /\ should_stop
        /\ run' = "close" /\ err' = WaitError
        /\ UNCHANGED stateVars
     \/ /\ ~should_stop /\ WaitError = "TIMEOUT"
        /\ run' = "congestion_stop" /\ err' = "TIMEOUT"
        /\ UNCHANGED stateVars
     \/ /\ ~should_stop /\ WaitError = "SUCCESS"
        /\ EnterState("EXPECT_BANG")
        /\ \/ run' = "wait_bang" /\ err' = "SUCCESS"
           \/ run' = "disconnect" /\ err' = "UNKNOWN" \* send_big failed
  /\ UNCHANGED <<should_stop, remote_disconnected, cryptVars, early, receivers,
                 congestion, feedbackVars, takionVars, historyVars>>

ExpectStreaminfo__not_here(m) == state_finished' = FALSE /\ state_failed' = FALSE

\* stream_connection_takion_data_expect_streaminfo for a STREAMINFO message:
\* an accepted one finishes the state.
ExpectStreaminfo(m) ==
  /\ state_finished' = (m = "streaminfo")
  /\ state_failed' = (m = "streaminfo_bad")

\* After the wait for BANG; a STREAMINFO that came early is handled here.
BangReceived ==
  /\ Passed("wait_bang")
  /\ wait' = "no"
  /\ \/ /\ should_stop
        /\ run' = "disconnect" /\ err' = WaitError
        /\ UNCHANGED <<stateVars, early>>
     \/ /\ ~should_stop /\ ~state_finished
        /\ run' = "disconnect" /\ err' = "UNKNOWN"
        /\ UNCHANGED <<stateVars, early>>
     \/ /\ ~should_stop /\ state_finished
        /\ state' = "EXPECT_STREAMINFO"
        /\ ExpectStreaminfo(early)
        /\ early' = "none"
        /\ run' = IF state_finished' THEN "streaminfo_done" ELSE "wait_streaminfo"
        /\ err' = WaitError
  /\ UNCHANGED <<should_stop, remote_disconnected, cryptVars, receivers, congestion,
                 feedbackVars, takionVars, historyVars>>

\* After the wait for STREAMINFO, if there was need to wait.
StreaminfoReceived ==
  /\ \/ Passed("wait_streaminfo")
     \/ run = "streaminfo_done"
  /\ wait' = "no"
  /\ \/ /\ should_stop
        /\ run' = "disconnect"
        /\ err' = IF run = "streaminfo_done" THEN err ELSE WaitError
        /\ UNCHANGED <<stateVars, feedback_active, feedback_state>>
     \/ /\ ~should_stop /\ ~state_finished
        /\ run' = "disconnect" /\ err' = "UNKNOWN"
        /\ UNCHANGED <<stateVars, feedback_active, feedback_state>>
     \/ /\ ~should_stop /\ state_finished
        \* chiaki_feedback_sender_init fails
        /\ run' = "disconnect" /\ err' = "UNKNOWN"
        /\ UNCHANGED <<stateVars, feedback_active, feedback_state>>
     \/ /\ ~should_stop /\ state_finished
        \* under feedback_sender_mutex
        /\ feedback_active' = TRUE
        /\ feedback_state' = controller_state
        /\ EnterState("IDLE")
        /\ run' = "event" /\ err' = "SUCCESS"
  /\ UNCHANGED <<should_stop, remote_disconnected, cryptVars, early, receivers,
                 congestion, controller_state, takionVars, historyVars>>

\* The event is sent without the mutex.
SendConnected ==
  /\ run = "event"
  /\ connected' = TRUE
  /\ run' = "idle"
  /\ UNCHANGED <<wait, stateVars, should_stop, remote_disconnected, cryptVars, early,
                 receivers, congestion, feedbackVars, takionVars, err, first_info>>

\* A timeout in the idle loop sends a heartbeat, whether or not that works.
Heartbeat ==
  /\ run = "idle" /\ wait = "timeout"
  /\ wait' = "no"
  /\ UNCHANGED <<run, stateVars, should_stop, remote_disconnected, cryptVars, early,
                 receivers, congestion, feedbackVars, takionVars, err, historyVars>>

IdleEnds ==
  /\ run = "idle" /\ wait # "timeout" /\ Passed("idle")
  /\ wait' = "no"
  /\ run' = "feedback_fini"
  /\ UNCHANGED <<stateVars, should_stop, remote_disconnected, cryptVars, early,
                 receivers, congestion, feedbackVars, takionVars, err, historyVars>>

\* Under feedback_sender_mutex: the feedback sender's thread is joined.
FeedbackFini ==
  /\ run = "feedback_fini"
  /\ feedback_active' = FALSE
  /\ run' = "disconnect" /\ err' = "SUCCESS"
  /\ UNCHANGED <<wait, stateVars, should_stop, remote_disconnected, cryptVars, early,
                 receivers, congestion, feedback_state, controller_state, takionVars,
                 historyVars>>

Disconnect ==
  /\ run = "disconnect"
  /\ early' = "none"
  /\ err' = IF should_stop THEN "CANCELED"
            ELSE IF remote_disconnected THEN "DISCONNECTED" ELSE err
  /\ run' = "congestion_stop"
  /\ UNCHANGED <<wait, stateVars, should_stop, remote_disconnected, cryptVars,
                 receivers, congestion, feedbackVars, takionVars, historyVars>>

\* chiaki_congestion_control_stop joins the thread.
CongestionStop ==
  /\ run = "congestion_stop"
  /\ congestion' = FALSE
  /\ run' = "close"
  /\ UNCHANGED <<wait, stateVars, should_stop, remote_disconnected, cryptVars, early,
                 receivers, feedbackVars, takionVars, err, historyVars>>

\* close_takion: release the mutex, so that callbacks can finish, and join
\* the Takion threads.
Close ==
  /\ run = "close"
  /\ run' = "closing"
  /\ UNCHANGED <<wait, stateVars, should_stop, remote_disconnected, cryptVars, early,
                 receivers, congestion, feedbackVars, takionVars, err, historyVars>>

TakionClosed__not_joined ==
  /\ run = "closing"
  /\ run' = "free"
  /\ UNCHANGED <<wait, stateVars, should_stop, remote_disconnected, cryptVars, early,
                 receivers, congestion, feedbackVars, takionVars, err, historyVars>>

TakionClosed ==
  /\ run = "closing"
  /\ takion = "down"
  /\ takion' = "closed"
  /\ run' = "free"
  /\ UNCHANGED <<wait, stateVars, should_stop, remote_disconnected, cryptVars, early,
                 receivers, congestion, feedbackVars, av, err, historyVars>>

FreeReceivers ==
  /\ run = "free"
  /\ receivers' = FALSE
  /\ run' = "returned"
  /\ UNCHANGED <<wait, stateVars, should_stop, remote_disconnected, cryptVars, early,
                 congestion, feedbackVars, takionVars, err, historyVars>>

\* A congestion control thread that still runs is stopped here.
chiaki_stream_connection_fini ==
  /\ run = "returned"
  /\ ecdh_secret' = FALSE /\ crypt' = FALSE
  /\ congestion' = FALSE
  /\ run' = "finalized"
  /\ UNCHANGED <<wait, stateVars, should_stop, remote_disconnected, early, receivers,
                 feedbackVars, takionVars, err, historyVars>>
-----------------------------------------------------------------------------
\* chiaki_session_stop holds the session's mutex, so that the stream
\* connection is still there; it may come before run.
chiaki_stream_connection_stop ==
  /\ MutexFree
  /\ ~should_stop
  /\ run # "finalized"
  /\ should_stop' = TRUE
  /\ SignalState
  /\ UNCHANGED <<run, stateVars, remote_disconnected, cryptVars, early, receivers,
                 congestion, feedbackVars, takionVars, err, historyVars>>

chiaki_session_set_controller_state__once_connected(c) ==
  /\ run \notin {"finalized", "aborted"}
  /\ controller_state' = c
  /\ feedback_state' = IF feedback_active /\ connected THEN c ELSE feedback_state
  /\ UNCHANGED <<run, wait, stateVars, should_stop, remote_disconnected, cryptVars,
                 early, receivers, congestion, feedback_active, takionVars, err, historyVars>>

\* Only feedback_sender_mutex is needed.
chiaki_session_set_controller_state(c) ==
  /\ run \notin {"finalized", "aborted"}
  /\ controller_state' = c
  /\ feedback_state' = IF feedback_active THEN c ELSE feedback_state
  /\ UNCHANGED <<run, wait, stateVars, should_stop, remote_disconnected, cryptVars,
                 early, receivers, congestion, feedback_active, takionVars, err, historyVars>>
-----------------------------------------------------------------------------
\* The CONNECTED and DISCONNECT events of stream_connection_takion_cb: they
\* matter only to the first wait.
TakionEvent(connect) ==
  /\ MutexFree
  /\ IF state = "TAKION_CONNECT"
     THEN /\ state_finished' = connect
          /\ state_failed' = ~connect
          /\ SignalState
     ELSE UNCHANGED <<state_finished, state_failed, wait>>
  /\ UNCHANGED <<run, state, should_stop, remote_disconnected, cryptVars, early,
                 receivers, congestion, feedbackVars, av, err, historyVars>>

TakionConnects ==
  /\ takion = "connecting"
  /\ takion' = "connected"
  /\ TakionEvent(TRUE)

\* The handshake fails, the socket does, or chiaki_takion_close was called.
TakionGoesDown ==
  /\ takion \in {"connecting", "connected"}
  /\ ~av
  /\ takion' = "down"
  /\ TakionEvent(FALSE)

\* A message that comes before its time and is kept.
IsEarly(m) == m \in Streaminfos

\* stream_connection_takion_data_expect_bang: a BANG that is refused before
\* the secret is derived; `assert(!ecdh_secret)', which aborts the program; a
\* secret that cannot be derived is freed again, one that
\* stream_connection_init_crypt fails with stays.
ExpectBang(m) ==
  \/ /\ m = "bang_refused"
     /\ state_failed' = TRUE
     /\ SignalState
     /\ UNCHANGED <<run, state_finished, cryptVars, early, first_info>>
  \/ /\ m \in Bangs
     /\ ecdh_secret
     /\ run' = "aborted"
     /\ UNCHANGED <<wait, state_finished, state_failed, cryptVars, early, first_info>>
  \/ /\ m \in Bangs
     /\ ~ecdh_secret
     /\ ecdh_secret' = (m # "bang_underivable")
     /\ IF m = "bang"
        THEN state_finished' = TRUE /\ crypt' = TRUE /\ UNCHANGED state_failed
        ELSE state_failed' = TRUE /\ UNCHANGED <<state_finished, crypt>>
     /\ SignalState
     /\ UNCHANGED <<run, early, first_info>>
  \/ /\ IsEarly(m)
     /\ early' = IF early = "none" THEN m ELSE early
     /\ first_info' = IF first_info = "none" THEN m ELSE first_info
     /\ UNCHANGED <<run, wait, state_finished, state_failed, cryptVars>>
  \/ /\ m = "other"
     /\ UNCHANGED <<run, wait, state_finished, state_failed, cryptVars, early, first_info>>

\* stream_connection_takion_data_expect_streaminfo for any message.
DataExpectStreaminfo(m) ==
  /\ \/ /\ m = "streaminfo"
        /\ state_finished' = TRUE /\ UNCHANGED state_failed
        /\ SignalState
     \/ /\ m = "streaminfo_bad"
        /\ state_failed' = TRUE /\ UNCHANGED state_finished
        /\ SignalState
     \/ /\ m \notin Streaminfos
        /\ UNCHANGED <<wait, state_finished, state_failed>>
  /\ first_info' = IF first_info = "none" /\ m \in Streaminfos
                   THEN m ELSE first_info
  /\ UNCHANGED <<run, cryptVars, early>>

\* stream_connection_takion_data_idle: statistics at most.
DataIdle == UNCHANGED <<run, wait, state_finished, state_failed, cryptVars, early, first_info>>

HandleDisconnect ==
  /\ remote_disconnected' = TRUE
  /\ SignalState
  /\ UNCHANGED <<run, state_finished, state_failed, cryptVars, early, first_info>>

\* stream_connection_takion_data_protobuf on the packet-process thread, which
\* handles A/V packets and messages one after the other.
TakionData(m) ==
  /\ takion = "connected" /\ ~av
  /\ MutexFree
  /\ \/ m = "disconnect" /\ HandleDisconnect
     \/ /\ m # "disconnect"
        /\ UNCHANGED remote_disconnected
        /\ \/ state = "EXPECT_BANG" /\ ExpectBang(m)
           \/ state = "EXPECT_STREAMINFO" /\ DataExpectStreaminfo(m)
           \/ state \in {"IDLE", "TAKION_CONNECT"} /\ DataIdle
  /\ UNCHANGED <<state, should_stop, receivers, congestion, feedbackVars, takionVars,
                 err, connected>>

\* stream_connection_takion_av uses the receivers without the mutex.
AVBegin ==
  /\ takion = "connected" /\ ~av /\ ~Aborted
  /\ av' = TRUE
  /\ UNCHANGED <<run, wait, stateVars, should_stop, remote_disconnected, cryptVars, early,
                 receivers, congestion, feedbackVars, takion, err, historyVars>>

AVEnd ==
  /\ av /\ ~Aborted
  /\ av' = FALSE
  /\ UNCHANGED <<run, wait, stateVars, should_stop, remote_disconnected, cryptVars, early,
                 receivers, congestion, feedbackVars, takion, err, historyVars>>
-----------------------------------------------------------------------------
Run ==
  \/ Sleep \/ TimeIsUp \/ Begin \/ TakionConnected \/ BangReceived \/ StreaminfoReceived
  \/ SendConnected \/ Heartbeat \/ IdleEnds \/ FeedbackFini \/ Disconnect
  \/ CongestionStop \/ Close \/ TakionClosed \/ FreeReceivers

Next ==
  \/ Run
  \/ chiaki_stream_connection_fini
  \/ chiaki_stream_connection_stop
  \/ \E c \in Controllers : chiaki_session_set_controller_state(c)
  \/ TakionConnects \/ TakionGoesDown
  \/ \E m \in Messages : TakionData(m)
  \/ AVBegin \/ AVEnd

\* Every thread runs; a wait has an absolute deadline, so that wakeups in
\* between do not keep it from timing out (strong fairness); an A/V callback
\* ends, and Takion goes down when it is being closed, between two packets.  Nothing is
\* assumed of the console, the network or the user.
Fairness ==
  /\ WF_vars(Run)
  /\ SF_vars(TimeIsUp)
  /\ WF_vars(AVEnd)
  /\ SF_vars(run = "closing" /\ TakionGoesDown)

Spec == Init /\ [][Next]_vars
FairSpec == Spec /\ Fairness
-----------------------------------------------------------------------------
Returned == run \in {"returned", "finalized"}

\* The audio, haptics and video receivers are there as long as a Takion thread
\* may call back: A/V packets use them without a lock, and callbacks still
\* come while run waits in chiaki_takion_close.
ReceiversOutliveCallbacks ==
  takion \in {"connecting", "connected"} \/ av => receivers

\* The client sees CONNECTED only after BANG gave Takion its keys and a
\* STREAMINFO came, however messages, timeouts and stops interleave.
ConnectedMeansReady ==
  connected /\ run # "finalized" => crypt /\ first_info # "none"

\* A STREAMINFO is not lost between the two states that look at it: run gives
\* up waiting for one only if the first that came was unusable or none came.
StreaminfoNotLost ==
  run = "disconnect" /\ state = "EXPECT_STREAMINFO" /\ ~state_finished /\ err = "UNKNOWN"
    => first_info # "streaminfo"

\* No stage is passed without what it waits for and none is left waiting for what came:
\* the client sees CONNECTED only with keys and a STREAMINFO, and a STREAMINFO that
\* overtakes the wake-up after BANG is not lost.
NothingIsSkipped == ConnectedMeansReady /\ StreaminfoNotLost

\* While the feedback sender is active it has the controller state reported
\* last, also when that was reported before or during its initialisation.
FeedbackIsCurrent == feedback_active => feedback_state = controller_state

\* The feedback sender's thread, which sends on Takion, has ended when Takion
\* is closed.
FeedbackEndsFirst == feedback_active => takion # "closed" /\ run # "closing"

\* Whoever uses Takion, or is used by it, lives exactly as long as it may; every variable
\* keeps its type.
UsersEndFirst == TypeOK /\ ReceiversOutliveCallbacks /\ FeedbackEndsFirst

\* chiaki_stream_connection_stop ends run, whenever it is called.
StopEndsRun == should_stop ~> Returned \/ Aborted

\* DISCONNECT from the console ends run, in whatever state it comes.
RemoteDisconnectEndsRun == remote_disconnected ~> Returned \/ Aborted

\* Connecting ends: the stream is up or run returns.
ConnectingEnds == run = "wait_connect" ~> connected \/ Returned \/ Aborted

\* run ends when it should, in whatever state the reason comes.
RunEnds == StopEndsRun /\ RemoteDisconnectEndsRun /\ ConnectingEnds
=============================================================================
