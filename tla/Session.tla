------------------------------- MODULE Session -------------------------------
(***************************************************************************)
(* The session thread (session.c), the ctrl thread (ctrl.c) and the thread *)
(* that registers over PSN, around the two mutexes they share:             *)
(* session.state_mutex and ctrl.notif_mutex.  A condition wait releases    *)
(* the state mutex and goes on, holding it again, once its predicate holds *)
(* or its time is up.  What the console answers, and what the network does *)
(* to it, is a choice of the action that waits for it.                     *)
(***************************************************************************)
EXTENDS Naturals

CONSTANT MaxEvents  \* ctrl messages of the console, and PINs and ctrl calls of the application

ASSUME MaxEventsAssumption == MaxEvents \in Nat

VARIABLES
  mode,     \* service type and auto_regist of the connect info
  lock,     \* who holds the state mutex and the notif mutex
  pc,       \* where each thread is
  s,        \* ChiakiSession
  k,        \* ChiakiCtrl
  pipe,     \* which stop pipes are signalled: session's stop_pipe, ctrl's notif_pipe
  net,      \* ctrl connection: the message to read, how many were sent, closed or not
  app       \* calls the application has made, and the one it is in

vars == <<mode, lock, pc, s, k, pipe, net, app>>

Threads == {"sess", "ctrl", "regist"}
Kinds == {"id_ok", "id_bad", "heartbeat", "pin_req", "login_ok", "login_bad", "switch", "finish", "other"}

psn == mode.kind = "psn" /\ s.rudp
cloud == mode.kind = "cloud"

Init ==
  /\ mode \in [kind : {"local", "psn", "cloud"}, auto : BOOLEAN]
  /\ lock = [state |-> "free", notif |-> "free"]
  /\ pc = [t \in Threads |-> "none"]
  /\ s = [should_stop |-> FALSE, ctrl_failed |-> FALSE, id |-> "none", pin_requested |-> FALSE,
          pin_entered |-> FALSE, switched |-> FALSE, registered |-> FALSE, rudp |-> FALSE,
          try |-> 1, reason |-> "none"]
  /\ k = [should_stop |-> FALSE, pin |-> FALSE, pin_requested |-> FALSE, queue |-> 0, msg |-> "none",
          pins_sent |-> 0, requests |-> 0]
  /\ pipe = [stop |-> FALSE, notif |-> FALSE]
  /\ net = [msg |-> "none", sent |-> 0, open |-> TRUE]
  /\ app = [stop |-> FALSE, pins |-> 0, calls |-> 0, at |-> "idle"]

-----------------------------------------------------------------------------
(* The session thread. *)

At(t, p) == pc[t] = p
Take(m, t) == lock[m] = "free" /\ lock' = [lock EXCEPT ![m] = t]
Drop(m) == lock' = [lock EXCEPT ![m] = "free"]
Goto(t, p) == pc' = [pc EXCEPT ![t] = p]

chiaki_session_start ==
  /\ At("sess", "none")
  /\ Goto("sess", "begin")
  /\ UNCHANGED <<mode, lock, s, k, pipe, net, app>>

\* CHECK_STOP and QUIT: leave for label l, giving the state mutex back.
Quit(l, reason) ==
  /\ s' = [s EXCEPT !.reason = reason]
  /\ Drop("state")
  /\ Goto("sess", l)

SessIdle == UNCHANGED <<mode, k, pipe, net, app>>

\* Lock, and for a PSN session start the registration (rudp may fail to
\* initialise: the session then goes on without it); a cloud session only needs
\* a nonce.
Begin ==
  /\ At("sess", "begin")
  /\ lock.state = "free"
  /\ SessIdle
  /\ \/ /\ s.should_stop
        /\ Quit("quit", "stopped")
     \/ /\ ~s.should_stop /\ mode.kind = "psn"
        /\ s' = [s EXCEPT !.rudp = TRUE]
        /\ pc' = [pc EXCEPT !["sess"] = "wait_regist", !["regist"] = "run"]
        /\ UNCHANGED lock
     \/ /\ ~s.should_stop /\ (mode.kind = "psn" \/ mode.kind = "local")
        /\ IF mode.auto THEN Quit("quit", "stopped")
                        ELSE Take("state", "sess") /\ Goto("sess", "request") /\ UNCHANGED s

CloudNonce ==
  /\ At("sess", "begin") /\ cloud
  /\ lock.state = "free" /\ ~s.should_stop
  /\ SessIdle
  /\ \/ mode.auto /\ Quit("quit", "stopped")
     \/ ~mode.auto /\ Quit("quit", s.reason)                                   \* no random bytes
     \/ ~mode.auto /\ Take("state", "sess") /\ Goto("sess", "ecdh") /\ UNCHANGED s

pred == s.should_stop \/ s.ctrl_failed
pred_ctrl_start == pred \/ s.id # "none" \/ s.pin_requested
pred_pin == pred \/ s.pin_entered
pred_switch == pred \/ s.switched
pred_regist == pred \/ s.registered

\* The wait is over, by its predicate or after ten seconds: chiaki_regist_stop,
\* then chiaki_regist_fini joins the thread with the state mutex held.
WaitRegist ==
  /\ At("sess", "wait_regist")
  /\ Take("state", "sess")
  /\ Goto("sess", "join_regist")
  /\ UNCHANGED s /\ SessIdle

JoinRegist ==
  /\ At("sess", "join_regist")
  /\ At("regist", "done")
  /\ SessIdle
  /\ \/ (s.should_stop \/ mode.auto) /\ Quit("quit", "stopped")
     \/ ~s.should_stop /\ ~mode.auto /\ Goto("sess", "request") /\ UNCHANGED <<lock, s>>

\* session_thread_request_session up to the blocking connect, for which the
\* state mutex is given back; with rudp the init and the cookie are exchanged
\* under the mutex.
RequestConnect ==
  /\ At("sess", "request")
  /\ SessIdle
  /\ \/ ~psn /\ mode.kind = "psn" /\ Quit("quit", "request_failed")           \* no address to try
     \/ ~psn /\ mode.kind = "local" /\ Drop("state") /\ Goto("sess", "connecting") /\ UNCHANGED s
     \/ psn /\ Quit("quit", s.reason)
     \/ psn /\ Drop("state") /\ Goto("sess", "receiving") /\ UNCHANGED s

\* The connect was cancelled, failed (on the last address), or the request was sent.
RequestSend ==
  /\ At("sess", "connecting")
  /\ lock.state = "free"
  /\ SessIdle
  /\ \/ pipe.stop /\ Quit("quit", "stopped")
     \/ Quit("quit", "request_failed")
     \/ Goto("sess", "receiving") /\ UNCHANGED <<lock, s>>

\* The answer: cancelled or broken, accepted, another version (asked at most
\* twice, the third request takes a mismatch as the end), or refused.
RequestReceive ==
  /\ At("sess", "receiving")
  /\ lock.state = "free"
  /\ SessIdle
  /\ \/ pipe.stop /\ ~psn /\ Quit("quit", "stopped")
     \/ Quit("quit", "request_failed")
     \/ /\ s.try < 3
        /\ s' = [s EXCEPT !.try = @ + 1]
        /\ Take("state", "sess") /\ Goto("sess", "request")
     \/ s' = [s EXCEPT !.try = 1] /\ Goto("sess", "start_ctrl") /\ UNCHANGED lock

\* After ten milliseconds chiaki_ctrl_start; a thread that cannot be created ends the session.
StartCtrl ==
  /\ At("sess", "start_ctrl")
  /\ lock.state = "free"
  /\ SessIdle
  /\ \/ Quit("quit", s.reason)
     \/ pc' = [pc EXCEPT !["sess"] = "wait_start", !["ctrl"] = "begin"] /\ UNCHANGED <<lock, s>>

\* CHECK_STOP(quit_ctrl), then a ctrl that failed, then what follows the wait.
CtrlFailed == Quit("quit_ctrl", IF s.reason = "none" THEN "ctrl_unknown" ELSE s.reason)
OnWake(next) ==
  /\ lock.state = "free"
  /\ SessIdle
  /\ \/ s.should_stop /\ Quit("quit_ctrl", "stopped")
     \/ ~s.should_stop /\ s.ctrl_failed /\ CtrlFailed
     \/ ~pred /\ Take("state", "sess") /\ Goto("sess", next) /\ UNCHANGED s

WaitStart == At("sess", "wait_start") /\ OnWake("pin_loop")

\* while(ctrl_login_pin_requested): ask the application, which has no time limit.
PinLoop ==
  /\ At("sess", "pin_loop")
  /\ SessIdle
  /\ \/ /\ s.pin_requested
        /\ s' = [s EXCEPT !.pin_requested = FALSE]
        /\ Drop("state") /\ Goto("sess", "wait_pin")
     \/ /\ ~s.pin_requested
        /\ Goto("sess", IF psn THEN "punch" ELSE "check_id")
        /\ UNCHANGED <<lock, s>>

WaitPin == At("sess", "wait_pin") /\ pred_pin /\ OnWake("set_pin")

\* chiaki_ctrl_set_login_pin takes the notif mutex with the state mutex held.
chiaki_ctrl_set_login_pin ==
  /\ At("sess", "set_pin")
  /\ lock.notif = "free"
  /\ k' = [k EXCEPT !.pin = TRUE]
  /\ pipe' = [pipe EXCEPT !.notif = TRUE]
  /\ s' = [s EXCEPT !.pin_entered = FALSE]
  /\ Drop("state")
  /\ Goto("sess", "wait_after_pin")
  /\ UNCHANGED <<mode, net, app>>

\* Session id, another PIN request or a time-out; ctrl_failed is not looked at here.
WaitAfterPin ==
  /\ At("sess", "wait_after_pin")
  /\ lock.state = "free"
  /\ SessIdle
  /\ \/ s.should_stop /\ Quit("quit_ctrl", "stopped")
     \/ ~s.should_stop /\ Take("state", "sess") /\ Goto("sess", "pin_loop") /\ UNCHANGED s

\* The hole for the data connection, punched with the state mutex held.
PunchHole ==
  /\ At("sess", "punch")
  /\ SessIdle
  /\ \/ Quit("quit_ctrl", s.reason)
     \/ Drop("state") /\ Goto("sess", "wait_punch") /\ UNCHANGED s

WaitPunch ==
  /\ At("sess", "wait_punch")
  /\ lock.state = "free"
  /\ SessIdle
  /\ \/ s.should_stop /\ Quit("quit_ctrl", "stopped")
     \/ ~s.should_stop /\ Take("state", "sess") /\ Goto("sess", "check_id") /\ UNCHANGED s

\* Mutant: a missing session id is not replaced.
CheckId__not_checked ==
  /\ At("sess", "check_id")
  /\ SessIdle
  /\ Goto("sess", "senkusha") /\ UNCHANGED <<lock, s>>

\* Without a session id one is made up, outside the mutex; ctrl_enable_features
\* then sends from the session thread.
CheckId ==
  /\ At("sess", "check_id")
  /\ SessIdle
  /\ IF s.id # "none" THEN Goto("sess", "senkusha") /\ UNCHANGED <<lock, s>>
     ELSE Drop("state") /\ Goto("sess", "fallback") /\ UNCHANGED s

ctrl_message_set_fallback_session_id ==
  /\ At("sess", "fallback")
  /\ lock.state = "free"
  /\ UNCHANGED <<mode, k, pipe, net, app>>
  /\ \/ CtrlFailed
     \/ /\ s' = [s EXCEPT !.id = IF @ = "none" THEN "fallback" ELSE @]
        /\ Take("state", "sess") /\ Goto("sess", "enable")

EnableFeatures ==
  /\ At("sess", "enable")
  /\ Goto("sess", "senkusha")
  /\ UNCHANGED <<mode, lock, s, k, pipe, net, app>>

\* chiaki_senkusha_run holds the state mutex all along; failing only costs the measured values.
RunSenkusha ==
  /\ At("sess", "senkusha")
  /\ SessIdle
  /\ \/ s.should_stop /\ Quit("quit_ctrl", "stopped")
     \/ ~s.should_stop /\ Quit("quit_ctrl", s.reason)                          \* init failed
     \/ ~pred /\ Goto("sess", IF psn THEN "switch" ELSE "ecdh") /\ UNCHANGED <<lock, s>>

SwitchToStream ==
  /\ At("sess", "switch")
  /\ SessIdle
  /\ \/ Quit("quit_ctrl", s.reason)
     \/ Drop("state") /\ Goto("sess", "wait_switch") /\ UNCHANGED s

WaitSwitch ==
  /\ At("sess", "wait_switch")
  /\ lock.state = "free"
  /\ SessIdle
  /\ \/ ~s.switched /\ Quit("quit_ctrl", s.reason)
     \/ s.switched /\ s.should_stop /\ Quit("quit_ctrl", "stopped")
     \/ s.switched /\ ~s.should_stop /\ Take("state", "sess") /\ Goto("sess", "ecdh") /\ UNCHANGED s

InitEcdh ==
  /\ At("sess", "ecdh")
  /\ SessIdle
  /\ \/ Quit("quit_ctrl", s.reason)
     \/ Drop("state") /\ Goto("sess", "stream") /\ UNCHANGED s

\* chiaki_stream_connection_run returns when it was told to stop ...
StreamStopped ==
  /\ At("sess", "stream") /\ s.should_stop
  /\ lock.state = "free"
  /\ SessIdle
  /\ Quit("quit_ctrl", "stopped")

\* ... or because the console disconnected or something failed.
StreamEnded ==
  /\ At("sess", "stream")
  /\ lock.state = "free"
  /\ SessIdle
  /\ \E r \in {"remote_disconnected", "stream_unknown"} : Quit("quit_ctrl", r)

\* Mutant: the flag is set, the ctrl thread is not woken.
chiaki_ctrl_stop__not_signalled ==
  /\ At("sess", "quit_ctrl")
  /\ lock.notif = "free"
  /\ k' = [k EXCEPT !.should_stop = TRUE]
  /\ Goto("sess", "join_ctrl")
  /\ UNCHANGED <<mode, lock, s, pipe, net, app>>

chiaki_ctrl_stop ==
  /\ At("sess", "quit_ctrl")
  /\ lock.notif = "free"
  /\ k' = [k EXCEPT !.should_stop = TRUE]
  /\ pipe' = [pipe EXCEPT !.notif = TRUE]
  /\ Goto("sess", "join_ctrl")
  /\ UNCHANGED <<mode, lock, s, net, app>>

\* Mutant: the quit event does not wait for the ctrl thread.
chiaki_ctrl_join__no_wait ==
  /\ At("sess", "join_ctrl")
  /\ Goto("sess", "quit")
  /\ UNCHANGED <<lock, s>> /\ SessIdle

\* A thread that was never started is not joined.
chiaki_ctrl_join ==
  /\ At("sess", "join_ctrl")
  /\ pc["ctrl"] \in {"none", "done"}
  /\ Goto("sess", "quit")
  /\ UNCHANGED <<lock, s>> /\ SessIdle

QuitEvent ==
  /\ At("sess", "quit")
  /\ lock.state = "free"
  /\ Goto("sess", "done")
  /\ UNCHANGED <<lock, s>> /\ SessIdle

SessNext ==
  \/ Begin \/ CloudNonce \/ WaitRegist \/ JoinRegist \/ RequestConnect \/ RequestSend
  \/ RequestReceive \/ StartCtrl \/ WaitStart \/ PinLoop \/ WaitPin \/ chiaki_ctrl_set_login_pin
  \/ WaitAfterPin \/ PunchHole \/ WaitPunch \/ CheckId \/ ctrl_message_set_fallback_session_id
  \/ EnableFeatures \/ RunSenkusha \/ SwitchToStream \/ WaitSwitch \/ InitEcdh
  \/ StreamStopped \/ chiaki_ctrl_stop \/ chiaki_ctrl_join \/ QuitEvent

-----------------------------------------------------------------------------
(* The registration thread: regist_cb takes the state mutex. *)

regist_cb ==
  /\ At("regist", "run")
  /\ lock.state = "free"
  /\ \/ s' = [s EXCEPT !.registered = TRUE]
     \/ s' = [s EXCEPT !.reason = "regist_failed", !.should_stop = TRUE]
  /\ Goto("regist", "done")
  /\ UNCHANGED <<mode, lock, k, pipe, net, app>>

-----------------------------------------------------------------------------
(* The ctrl thread: it holds the notif mutex except while it connects and *)
(* while it waits in select.                                              *)

CtrlIdle == UNCHANGED <<mode, s, pipe, net, app>>

\* ctrl_connect as far as the blocking connect; rudp exchanges init and cookie instead.
CtrlBegin ==
  /\ At("ctrl", "begin")
  /\ lock.notif = "free"
  /\ CtrlIdle /\ UNCHANGED k
  /\ \/ psn /\ Take("notif", "ctrl") /\ Goto("ctrl", "http")
     \/ ~psn /\ Goto("ctrl", "connecting") /\ UNCHANGED lock
     \/ Take("notif", "ctrl") /\ Goto("ctrl", "failing")

CtrlConnect ==
  /\ At("ctrl", "connecting")
  /\ Take("notif", "ctrl")
  /\ CtrlIdle /\ UNCHANGED k
  /\ Goto("ctrl", "failing") \/ Goto("ctrl", "http")

\* The request and its answer, with the notif mutex held.
CtrlHttp ==
  /\ At("ctrl", "http")
  /\ Goto("ctrl", "failing") \/ Goto("ctrl", "loop")
  /\ CtrlIdle /\ UNCHANGED <<lock, k>>

\* ctrl_failed(CTRL_CONNECT_FAILED), then the thread returns.
CtrlConnectFailed ==
  /\ At("ctrl", "failing")
  /\ lock.state = "free"
  /\ s' = [s EXCEPT !.ctrl_failed = TRUE, !.reason = "ctrl_connect_failed"]
  /\ Drop("notif")
  /\ Goto("ctrl", "done")
  /\ UNCHANGED <<mode, k, pipe, net, app>>

\* recv_buf holds no whole message: give the mutex back and select.
CtrlLoop ==
  /\ At("ctrl", "loop")
  /\ Drop("notif")
  /\ Goto("ctrl", "select")
  /\ CtrlIdle /\ UNCHANGED k

\* Once the queue is empty: send the PIN, or stop, or go on.
AfterQueue == IF k.pin THEN "pin" ELSE IF k.should_stop THEN "exit" ELSE "loop"

\* The notification pipe wins over the socket.
CtrlNotified ==
  /\ At("ctrl", "select") /\ pipe.notif
  /\ Take("notif", "ctrl")
  /\ Goto("ctrl", IF k.queue > 0 THEN "drain" ELSE AfterQueue)
  /\ UNCHANGED <<mode, s, k, pipe, net, app>>

CtrlReceive ==
  /\ At("ctrl", "select") /\ ~pipe.notif /\ net.msg # "none"
  /\ Take("notif", "ctrl")
  /\ k' = [k EXCEPT !.msg = net.msg]
  /\ net' = [net EXCEPT !.msg = "none"]
  /\ Goto("ctrl", "handle")
  /\ UNCHANGED <<mode, s, pipe, app>>

\* End of the stream, or an error of select, leaves the loop silently; an error of
\* the receive, or a message too long for the buffer, through ctrl_failed.
CtrlClosed ==
  /\ At("ctrl", "select") /\ ~pipe.notif /\ net.msg = "none" /\ ~net.open
  /\ Take("notif", "ctrl")
  /\ \E p \in {"exit", "lost"} : Goto("ctrl", p)
  /\ CtrlIdle /\ UNCHANGED k

CtrlLost ==
  /\ At("ctrl", "lost")
  /\ lock.state = "free"
  /\ s' = [s EXCEPT !.ctrl_failed = TRUE, !.reason = "ctrl_unknown"]
  /\ Goto("ctrl", "exit")
  /\ UNCHANGED <<mode, lock, k, pipe, net, app>>

\* Mutant: the pipe stays signalled after the queue was sent.
CtrlDrain__not_reset ==
  /\ At("ctrl", "drain")
  /\ k' = [k EXCEPT !.queue = 0]
  /\ Goto("ctrl", AfterQueue)
  /\ UNCHANGED <<mode, lock, s, pipe, net, app>>

\* All queued messages go out; then a PIN, or the stop, or the reset of the pipe.
CtrlDrain ==
  /\ At("ctrl", "drain")
  /\ k' = [k EXCEPT !.queue = 0]
  /\ pipe' = [pipe EXCEPT !.notif = @ /\ (k.pin \/ k.should_stop)]
  /\ Goto("ctrl", AfterQueue)
  /\ UNCHANGED <<mode, lock, s, net, app>>

\* Mutant: the entered PIN is kept.
CtrlSendPin__kept ==
  /\ At("ctrl", "pin")
  /\ k' = [k EXCEPT !.pins_sent = @ + 1]
  /\ pipe' = [pipe EXCEPT !.notif = FALSE]
  /\ Goto("ctrl", "loop")
  /\ UNCHANGED <<mode, lock, s, net, app>>

\* The pipe is reset after a PIN whatever else was signalled through it.
CtrlSendPin ==
  /\ At("ctrl", "pin")
  /\ k' = [k EXCEPT !.pin = FALSE, !.pins_sent = @ + 1]
  /\ pipe' = [pipe EXCEPT !.notif = FALSE]
  /\ Goto("ctrl", "loop")
  /\ UNCHANGED <<mode, lock, s, net, app>>

CtrlExit ==
  /\ At("ctrl", "exit")
  /\ Drop("notif")
  /\ Goto("ctrl", "done")
  /\ net' = [net EXCEPT !.open = FALSE, !.msg = "none"]
  /\ UNCHANGED <<mode, s, k, pipe, app>>

(* ctrl_message_received, by message. *)
Handling(kinds) == At("ctrl", "handle") /\ k.msg \in kinds
Handled == k' = [k EXCEPT !.msg = "none"]

\* A message id that is already known is ignored; one that is not is looked at
\* outside the mutex and stored in a second step.
SessionIdCheck ==
  /\ Handling({"id_ok", "id_bad"})
  /\ lock.state = "free"
  /\ Goto("ctrl", IF s.id = "none" THEN "store_id" ELSE "reply")
  /\ UNCHANGED <<mode, lock, s, k, pipe, net, app>>

SessionIdStore ==
  /\ At("ctrl", "store_id")
  /\ lock.state = "free"
  /\ s' = [s EXCEPT !.id = IF k.msg = "id_ok" THEN "real" ELSE IF @ = "none" THEN "fallback" ELSE @]
  /\ Goto("ctrl", "reply")
  /\ UNCHANGED <<mode, lock, k, pipe, net, app>>

CtrlEnableFeatures ==
  /\ At("ctrl", "reply")
  /\ Handled /\ Goto("ctrl", "loop")
  /\ UNCHANGED <<mode, lock, s, pipe, net, app>>

Heartbeat ==
  /\ Handling({"heartbeat"})
  /\ Goto("ctrl", "reply")
  /\ UNCHANGED <<mode, lock, s, k, pipe, net, app>>

\* A PIN request after the session id ends the session.
LoginPinReq ==
  /\ Handling({"pin_req"})
  /\ lock.state = "free"
  /\ k' = [k EXCEPT !.msg = "none", !.pin_requested = TRUE, !.requests = @ + 1]
  /\ s' = IF s.id # "none" THEN [s EXCEPT !.ctrl_failed = TRUE, !.reason = "ctrl_unknown"]
                           ELSE [s EXCEPT !.pin_requested = TRUE]
  /\ Goto("ctrl", "loop")
  /\ UNCHANGED <<mode, lock, pipe, net, app>>

LoginIncorrect ==
  /\ Handling({"login_bad"})
  /\ k.pin_requested => lock.state = "free"
  /\ s' = [s EXCEPT !.pin_requested = @ \/ k.pin_requested]
  /\ k' = [k EXCEPT !.msg = "none", !.requests = IF k.pin_requested THEN @ + 1 ELSE @]
  /\ Goto("ctrl", "loop")
  /\ UNCHANGED <<mode, lock, pipe, net, app>>

SwitchAck ==
  /\ Handling({"switch"})
  /\ ~s.switched => lock.state = "free"
  /\ s' = [s EXCEPT !.switched = TRUE]
  /\ Handled /\ Goto("ctrl", "loop")
  /\ UNCHANGED <<mode, lock, pipe, net, app>>

\* The rudp FINISH fails the session, but the loop goes on.
RudpFinish ==
  /\ Handling({"finish"}) /\ psn
  /\ lock.state = "free"
  /\ s' = [s EXCEPT !.ctrl_failed = TRUE, !.reason = "ctrl_unknown"]
  /\ Handled /\ Goto("ctrl", "loop")
  /\ UNCHANGED <<mode, lock, pipe, net, app>>

\* Login success, keyboard and display messages touch nothing the session waits for.
OtherMessage ==
  /\ Handling({"login_ok", "other"})
  /\ k' = [k EXCEPT !.msg = "none", !.pin_requested = @ /\ k.msg # "login_ok"]
  /\ Goto("ctrl", "loop")
  /\ CtrlIdle /\ UNCHANGED lock

CtrlNext ==
  \/ CtrlBegin \/ CtrlConnect \/ CtrlHttp \/ CtrlConnectFailed \/ CtrlLoop \/ CtrlNotified
  \/ CtrlReceive \/ CtrlClosed \/ CtrlLost \/ CtrlDrain \/ CtrlSendPin \/ CtrlExit
  \/ SessionIdCheck \/ SessionIdStore \/ CtrlEnableFeatures \/ Heartbeat \/ LoginPinReq
  \/ LoginIncorrect \/ SwitchAck \/ RudpFinish \/ OtherMessage

-----------------------------------------------------------------------------
(* The application, and the console. *)

MoreEvents == net.sent + app.pins + app.calls < MaxEvents

chiaki_session_stop ==
  /\ ~app.stop /\ lock.state = "free" /\ pc["sess"] \notin {"none", "quit", "done"}
  /\ app' = [app EXCEPT !.stop = TRUE]
  /\ s' = [s EXCEPT !.should_stop = TRUE]
  /\ pipe' = [pipe EXCEPT !.stop = TRUE]
  /\ UNCHANGED <<mode, lock, pc, k, net>>

chiaki_session_set_login_pin ==
  /\ MoreEvents /\ lock.state = "free" /\ pc["sess"] \notin {"none", "quit", "done"}
  /\ app' = [app EXCEPT !.pins = @ + 1]
  /\ s' = [s EXCEPT !.pin_entered = TRUE]
  /\ UNCHANGED <<mode, lock, pc, k, pipe, net>>

\* The application uses the ctrl channel while the session runs.
CanCall == app.at = "idle" /\ MoreEvents /\ pc["ctrl"] \notin {"none", "begin", "done"}

\* chiaki_ctrl_send_message queues under the notif mutex and signals the pipe after it.
QueueMessage ==
  /\ CanCall /\ lock.notif = "free"
  /\ k' = [k EXCEPT !.queue = @ + 1]
  /\ app' = [app EXCEPT !.at = "signal", !.calls = @ + 1]
  /\ UNCHANGED <<mode, lock, pc, s, pipe, net>>

SignalQueued ==
  /\ app.at = "signal"
  /\ pipe' = [pipe EXCEPT !.notif = TRUE]
  /\ app' = [app EXCEPT !.at = "idle"]
  /\ UNCHANGED <<mode, lock, pc, s, k, net>>

\* chiaki_session_go_home sends from the calling thread.
chiaki_session_go_home ==
  /\ CanCall
  /\ app' = [app EXCEPT !.at = "home", !.calls = @ + 1]
  /\ UNCHANGED <<mode, lock, pc, s, k, pipe, net>>

GoneHome ==
  /\ app.at = "home"
  /\ app' = [app EXCEPT !.at = "idle"]
  /\ UNCHANGED <<mode, lock, pc, s, k, pipe, net>>

AppReturns == SignalQueued \/ GoneHome

ConsoleSends(m) ==
  /\ net.open /\ net.msg = "none" /\ k.msg = "none" /\ MoreEvents
  /\ pc["ctrl"] \notin {"none", "begin", "connecting", "done"}
  /\ m = "finish" => psn
  /\ net' = [net EXCEPT !.msg = m, !.sent = @ + 1]
  /\ UNCHANGED <<mode, lock, pc, s, k, pipe, app>>

ConsoleCloses ==
  /\ net.open
  /\ pc["ctrl"] \in {"loop", "select"}
  /\ net' = [net EXCEPT !.open = FALSE]
  /\ UNCHANGED <<mode, lock, pc, s, k, pipe, app>>

Env ==
  \/ chiaki_session_start \/ chiaki_session_stop \/ chiaki_session_set_login_pin \/ QueueMessage
  \/ chiaki_session_go_home \/ StreamEnded \/ ConsoleCloses \/ \E m \in Kinds : ConsoleSends(m)

Next == SessNext \/ CtrlNext \/ regist_cb \/ AppReturns \/ Env

\* The threads run, and the session thread gets a mutex that is free again and
\* again; the application, the console and the end of the stream are not owed.
Fairness == SF_vars(SessNext) /\ WF_vars(CtrlNext) /\ WF_vars(regist_cb) /\ WF_vars(AppReturns)
Spec == Init /\ [][Next]_vars
FairSpec == Spec /\ Fairness

-----------------------------------------------------------------------------
\* The type invariant; a mutex that is taken is held by a thread that runs.
TypeOK ==
  /\ lock \in [{"state", "notif"} -> Threads \cup {"free"}]
  /\ \A m \in DOMAIN lock : lock[m] # "free" => pc[lock[m]] \notin {"none", "done"}
  /\ s.id \in {"none", "real", "fallback"} /\ s.try \in 1..3
  /\ k.queue \in 0..MaxEvents /\ net.msg \in Kinds \cup {"none"}

\* The quit event is the last thing that happens: by then the ctrl thread and the
\* registration thread have ended, so the application may call chiaki_session_fini; and no
\* thread ends with a mutex.
QuitEventIsLast ==
  /\ TypeOK
  /\ pc["sess"] \in {"quit", "done"} => pc["ctrl"] \in {"none", "done"} /\ pc["regist"] \in {"none", "done"}

\* Senkusha and the stream connection of a remote play session only run with a
\* session id, the console's or the fallback.
StreamHasSessionId ==
  pc["sess"] \in {"enable", "senkusha", "switch", "wait_switch", "ecdh", "stream"} /\ ~cloud => s.id # "none"

\* Every PIN that reaches the console answers a request of its own: a PIN entered
\* once is never sent twice, on whatever path the request was repeated.
PinsWereAsked == k.pins_sent <= k.requests

\* The circular waits the two mutexes and the join allow.
CtrlWantsState ==
  \/ pc["ctrl"] \in {"failing", "lost", "store_id"}
  \/ Handling({"id_ok", "id_bad", "pin_req", "login_bad", "switch", "finish"})
LockCycle == At("sess", "set_pin") /\ lock.notif = "ctrl" /\ CtrlWantsState
RegistCycle == At("sess", "join_regist") /\ lock.state = "sess" /\ At("regist", "run")
\* A stop whose signal was wiped out by the reset after a PIN.
LostStop == At("sess", "join_ctrl") /\ At("ctrl", "select") /\ ~pipe.notif /\ k.pins_sent > 0
\* A signal that came after its message was already sent: select reports it for ever.
Deaf == pc["ctrl"] \in {"select", "loop"} /\ pipe.notif /\ k.queue = 0 /\ ~k.pin /\ ~k.should_stop
        /\ (app.calls > 1 \/ k.pins_sent > 0)

\* chiaki_session_stop ends a running session, except in three ways it can hang:
\* the state and the notif mutex taken in opposite orders around a PIN, the join of
\* the registration thread with the state mutex held, and a stop lost to a PIN.
StopEnds ==
  (app.stop /\ ~At("sess", "none")) ~> (At("sess", "done") \/ LockCycle \/ RegistCycle \/ LostStop)

\* What the console sends on an established ctrl connection is handled, unless the
\* mutexes are taken crosswise or a late signal keeps the thread busy for ever.
MessagesAreHandled ==
  (net.msg # "none" /\ At("ctrl", "select")) ~> (net.msg = "none" \/ At("ctrl", "done") \/ LockCycle \/ Deaf)
=============================================================================
