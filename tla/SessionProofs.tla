---------------------------- MODULE SessionProofs ----------------------------
(***************************************************************************)
(* The session thread, the ctrl thread and the registration thread: what   *)
(* holds at the quit event, of the session id and of the PINs, for every   *)
(* number of messages, PINs and calls.  And of the client around it        *)
(* (Client): the stream's view with its decode thread, the allocation of a *)
(* cloud slot, discovery, the controller with sound and vibration, the     *)
(* settings file and the game lists, for every number of pictures,         *)
(* samples, streams, consoles, pings, fingers, frames, lists loaded and    *)
(* changes, all answers of the servers and a switch-off at any time.       *)
(***************************************************************************)
EXTENDS Session, Client, TLAPS

\* Where the threads can be; those where the session thread has not started the ctrl
\* thread, and those where a thread holds its mutex.
BeforeCtrl == {"none", "begin", "wait_regist", "join_regist", "request", "connecting",
               "receiving", "start_ctrl"}
HoldsState == {"join_regist", "request", "pin_loop", "set_pin", "punch", "check_id", "enable",
               "senkusha", "switch", "ecdh"}
SessPlaces == BeforeCtrl \cup HoldsState
              \cup {"wait_start", "wait_pin", "wait_after_pin", "wait_punch", "fallback",
                    "wait_switch", "stream", "quit_ctrl", "join_ctrl", "quit", "done"}
HoldsNotif == {"http", "failing", "loop", "drain", "pin", "exit", "lost", "handle", "store_id",
               "reply"}
CtrlPlaces == HoldsNotif \cup {"none", "begin", "connecting", "select", "done"}

\* What the variables hold.
SessionRecord ==
  [should_stop : BOOLEAN, ctrl_failed : BOOLEAN, id : {"none", "real", "fallback"},
   pin_requested : BOOLEAN, pin_entered : BOOLEAN, switched : BOOLEAN,
   registered : BOOLEAN, rudp : BOOLEAN, try : 1 .. 3,
   reason : {"none", "stopped", "request_failed", "ctrl_unknown", "regist_failed",
             "ctrl_connect_failed", "remote_disconnected", "stream_unknown"}]
CtrlRecord ==
  [should_stop : BOOLEAN, pin : BOOLEAN, pin_requested : BOOLEAN, queue : Nat,
   msg : Kinds \cup {"none"}, pins_sent : Nat, requests : Nat]
PipeRecord == [stop : BOOLEAN, notif : BOOLEAN]
NetRecord == [msg : Kinds \cup {"none"}, sent : Nat, open : BOOLEAN]
AppRecord == [stop : BOOLEAN, pins : Nat, calls : Nat, at : {"idle", "signal", "home"}]
LockRecord == [state : {"free", "sess"}, notif : {"free", "ctrl"}]
Shapes ==
  /\ mode \in [kind : {"local", "psn", "cloud"}, auto : BOOLEAN]
  /\ lock \in LockRecord
  /\ pc \in [Threads -> SessPlaces \cup CtrlPlaces \cup {"run"}]
  /\ pc["sess"] \in SessPlaces /\ pc["ctrl"] \in CtrlPlaces
  /\ pc["regist"] \in {"none", "run", "done"}
  /\ s \in SessionRecord
  /\ k \in CtrlRecord
  /\ pipe \in PipeRecord
  /\ net \in NetRecord
  /\ app \in AppRecord

\* Queued messages are calls of the application, of which there is a bounded number.
Calls ==
  /\ k.queue <= app.calls
  /\ net.sent + app.pins + app.calls <= MaxEvents

\* A mutex that is taken is held by its thread, at a place where it holds it.
Holders ==
  /\ lock.state = "sess" => pc["sess"] \in HoldsState
  /\ lock.notif = "ctrl" => pc["ctrl"] \in HoldsNotif

\* Which threads exist at each place of the session thread.
Lives ==
  /\ pc["sess"] \in BeforeCtrl => pc["ctrl"] = "none"
  /\ pc["sess"] \in {"none", "begin"} => pc["regist"] = "none"
  /\ pc["sess"] \notin {"wait_regist", "join_regist"} => pc["regist"] # "run"
  /\ pc["sess"] \in {"quit", "done"} => pc["ctrl"] \in {"none", "done"}

\* A request for a PIN is answered at most once: it is pending in the session, being
\* answered by the session thread, waiting in ctrl, or sent.
Pins ==
  /\ pc["ctrl"] = "pin" => k.pin
  /\ k.pins_sent + (IF k.pin THEN 1 ELSE 0) + (IF s.pin_requested THEN 1 ELSE 0)
       + (IF pc["sess"] \in {"wait_pin", "set_pin"} THEN 1 ELSE 0) <= k.requests

\* The inductive invariant.
IInv == Shapes /\ Calls /\ Holders /\ Lives /\ Pins /\ StreamHasSessionId
-----------------------------------------------------------------------------
\* The session thread keeps the invariant.
LEMMA SessPreserves ==
  ASSUME IInv, SessNext
  PROVE  IInv'
<1> USE DEF IInv, At, Take, Drop, Goto, Shapes, LockRecord, BeforeCtrl, HoldsState,
            SessPlaces, HoldsNotif, CtrlPlaces, Threads
<1>1. CASE Begin
  <2>1. s' \in SessionRecord
    <3>1. \/ s' = [s EXCEPT !.reason = "stopped"]
          \/ s' = [s EXCEPT !.rudp = TRUE]
          \/ s' = s
      BY <1>1 DEF Begin, Quit
    <3>2. CASE s' = [s EXCEPT !.reason = "stopped"]
      BY <3>2 DEF SessionRecord
    <3>3. CASE s' = [s EXCEPT !.rudp = TRUE]
      BY <3>3 DEF SessionRecord
    <3> QED
      BY <3>1, <3>2, <3>3
  <2>2. Shapes'
    BY <1>1, <2>1 DEF Begin, Quit, SessIdle
  <2> QED
    BY <1>1, <2>2 DEF Calls, Holders, Lives, Pins, StreamHasSessionId, cloud,
       SessionRecord, CtrlRecord, NetRecord, AppRecord, Begin, Quit, SessIdle
<1>2. CASE CloudNonce
  <2>1. s' \in SessionRecord
    BY <1>2 DEF SessionRecord, CloudNonce, Quit, SessIdle
  <2>2. Shapes'
    BY <1>2, <2>1 DEF CloudNonce, Quit, SessIdle
  <2> QED
    BY <1>2, <2>2 DEF Calls, Holders, Lives, Pins, StreamHasSessionId, cloud,
       SessionRecord, CtrlRecord, NetRecord, AppRecord, CloudNonce, Quit, SessIdle
<1>3. CASE WaitRegist
  <2>1. Shapes'
    BY <1>3 DEF WaitRegist, SessIdle
  <2> QED
    BY <1>3, <2>1 DEF Calls, Holders, Lives, Pins, StreamHasSessionId, cloud,
       SessionRecord, CtrlRecord, NetRecord, AppRecord, WaitRegist, SessIdle
<1>4. CASE JoinRegist
  <2>1. s' \in SessionRecord
    BY <1>4 DEF SessionRecord, JoinRegist, Quit, SessIdle
  <2>2. Shapes'
    BY <1>4, <2>1 DEF JoinRegist, Quit, SessIdle
  <2> QED
    BY <1>4, <2>2 DEF Calls, Holders, Lives, Pins, StreamHasSessionId, cloud,
       SessionRecord, CtrlRecord, NetRecord, AppRecord, JoinRegist, Quit, SessIdle
<1>5. CASE RequestConnect
  <2>1. s' \in SessionRecord
    BY <1>5 DEF SessionRecord, RequestConnect, Quit, SessIdle
  <2>2. Shapes'
    BY <1>5, <2>1 DEF RequestConnect, Quit, SessIdle
  <2> QED
    BY <1>5, <2>2 DEF Calls, Holders, Lives, Pins, StreamHasSessionId, cloud,
       SessionRecord, CtrlRecord, NetRecord, AppRecord, RequestConnect, Quit, SessIdle
<1>6. CASE RequestSend
  <2>1. s' \in SessionRecord
    BY <1>6 DEF SessionRecord, RequestSend, Quit, SessIdle
  <2>2. Shapes'
    BY <1>6, <2>1 DEF RequestSend, Quit, SessIdle
  <2> QED
    BY <1>6, <2>2 DEF Calls, Holders, Lives, Pins, StreamHasSessionId, cloud,
       SessionRecord, CtrlRecord, NetRecord, AppRecord, RequestSend, Quit, SessIdle
<1>7. CASE RequestReceive
  <2>1. s' \in SessionRecord
    BY <1>7 DEF SessionRecord, RequestReceive, Quit, SessIdle
  <2>2. Shapes'
    BY <1>7, <2>1 DEF RequestReceive, Quit, SessIdle
  <2> QED
    BY <1>7, <2>2 DEF Calls, Holders, Lives, Pins, StreamHasSessionId, cloud,
       SessionRecord, CtrlRecord, NetRecord, AppRecord, RequestReceive, Quit, SessIdle
<1>8. CASE StartCtrl
  <2>1. s' \in SessionRecord
    BY <1>8 DEF SessionRecord, StartCtrl, Quit, SessIdle
  <2>2. Shapes'
    BY <1>8, <2>1 DEF StartCtrl, Quit, SessIdle
  <2> QED
    BY <1>8, <2>2 DEF Calls, Holders, Lives, Pins, StreamHasSessionId, cloud,
       SessionRecord, CtrlRecord, NetRecord, AppRecord, StartCtrl, Quit, SessIdle
<1>9. CASE WaitStart
  <2>1. s' \in SessionRecord
    BY <1>9 DEF SessionRecord, WaitStart, OnWake, Quit, SessIdle, pred, CtrlFailed
  <2>2. Shapes'
    BY <1>9, <2>1 DEF WaitStart, OnWake, Quit, SessIdle, pred, CtrlFailed
  <2> QED
    BY <1>9, <2>2 DEF Calls, Holders, Lives, Pins, StreamHasSessionId, cloud,
       SessionRecord, CtrlRecord, NetRecord, AppRecord, WaitStart, OnWake, Quit, SessIdle,
       pred, CtrlFailed
<1>10. CASE PinLoop
  <2>1. s' \in SessionRecord
    <3>1. CASE s' = [s EXCEPT !.pin_requested = FALSE]
      BY <3>1 DEF SessionRecord
    <3> QED
      BY <1>10, <3>1 DEF PinLoop
  <2>2. Shapes'
    BY <1>10, <2>1 DEF PinLoop, SessIdle
  <2> QED
    BY <1>10, <2>2 DEF Calls, Holders, Lives, Pins, StreamHasSessionId, cloud,
       SessionRecord, CtrlRecord, NetRecord, AppRecord, PinLoop, SessIdle
<1>11. CASE WaitPin
  <2>1. s' \in SessionRecord
    BY <1>11 DEF SessionRecord, WaitPin, pred_pin, OnWake, pred, Quit, SessIdle,
       CtrlFailed
  <2>2. Shapes'
    BY <1>11, <2>1 DEF WaitPin, pred_pin, OnWake, pred, Quit, SessIdle, CtrlFailed
  <2> QED
    BY <1>11, <2>2 DEF Calls, Holders, Lives, Pins, StreamHasSessionId, cloud,
       SessionRecord, CtrlRecord, NetRecord, AppRecord, WaitPin, pred_pin, OnWake, pred,
       Quit, SessIdle, CtrlFailed
<1>12. CASE chiaki_ctrl_set_login_pin
  <2>1. s' \in SessionRecord
    BY <1>12 DEF SessionRecord, chiaki_ctrl_set_login_pin
  <2>2. k' \in CtrlRecord
    BY <1>12 DEF CtrlRecord, chiaki_ctrl_set_login_pin
  <2>3. pipe' \in PipeRecord
    BY <1>12 DEF PipeRecord, chiaki_ctrl_set_login_pin
  <2>4. Shapes'
    BY <1>12, <2>1, <2>2, <2>3 DEF chiaki_ctrl_set_login_pin
  <2> QED
    BY <1>12, <2>4 DEF Calls, Holders, Lives, Pins, StreamHasSessionId, cloud,
       SessionRecord, CtrlRecord, NetRecord, AppRecord, chiaki_ctrl_set_login_pin
<1>13. CASE WaitAfterPin
  <2>1. s' \in SessionRecord
    BY <1>13 DEF SessionRecord, WaitAfterPin, Quit, SessIdle
  <2>2. Shapes'
    BY <1>13, <2>1 DEF WaitAfterPin, Quit, SessIdle
  <2> QED
    BY <1>13, <2>2 DEF Calls, Holders, Lives, Pins, StreamHasSessionId, cloud,
       SessionRecord, CtrlRecord, NetRecord, AppRecord, WaitAfterPin, Quit, SessIdle
<1>14. CASE PunchHole
  <2>1. s' \in SessionRecord
    BY <1>14 DEF SessionRecord, PunchHole, Quit, SessIdle
  <2>2. Shapes'
    BY <1>14, <2>1 DEF PunchHole, Quit, SessIdle
  <2> QED
    BY <1>14, <2>2 DEF Calls, Holders, Lives, Pins, StreamHasSessionId, cloud,
       SessionRecord, CtrlRecord, NetRecord, AppRecord, PunchHole, Quit, SessIdle
<1>15. CASE WaitPunch
  <2>1. s' \in SessionRecord
    BY <1>15 DEF SessionRecord, WaitPunch, Quit, SessIdle
  <2>2. Shapes'
    BY <1>15, <2>1 DEF WaitPunch, Quit, SessIdle
  <2> QED
    BY <1>15, <2>2 DEF Calls, Holders, Lives, Pins, StreamHasSessionId, cloud,
       SessionRecord, CtrlRecord, NetRecord, AppRecord, WaitPunch, Quit, SessIdle
<1>16. CASE CheckId
  <2>1. Shapes'
    BY <1>16 DEF CheckId, SessIdle
  <2> QED
    BY <1>16, <2>1 DEF Calls, Holders, Lives, Pins, StreamHasSessionId, cloud,
       SessionRecord, CtrlRecord, NetRecord, AppRecord, CheckId, SessIdle
<1>17. CASE ctrl_message_set_fallback_session_id
  <2>1. s' \in SessionRecord
    BY <1>17 DEF SessionRecord, ctrl_message_set_fallback_session_id, CtrlFailed, Quit
  <2>2. Shapes'
    BY <1>17, <2>1 DEF ctrl_message_set_fallback_session_id, CtrlFailed, Quit
  <2> QED
    BY <1>17, <2>2 DEF Calls, Holders, Lives, Pins, StreamHasSessionId, cloud,
       SessionRecord, CtrlRecord, NetRecord, AppRecord,
       ctrl_message_set_fallback_session_id, CtrlFailed, Quit
<1>18. CASE EnableFeatures
  <2>1. Shapes'
    BY <1>18 DEF EnableFeatures
  <2> QED
    BY <1>18, <2>1 DEF Calls, Holders, Lives, Pins, StreamHasSessionId, cloud,
       SessionRecord, CtrlRecord, NetRecord, AppRecord, EnableFeatures
<1>19. CASE RunSenkusha
  <2>1. s' \in SessionRecord
    BY <1>19 DEF SessionRecord, RunSenkusha, Quit, SessIdle, pred
  <2>2. Shapes'
    BY <1>19, <2>1 DEF RunSenkusha, Quit, SessIdle, pred
  <2> QED
    BY <1>19, <2>2 DEF Calls, Holders, Lives, Pins, StreamHasSessionId, cloud,
       SessionRecord, CtrlRecord, NetRecord, AppRecord, RunSenkusha, Quit, SessIdle, pred
<1>20. CASE SwitchToStream
  <2>1. s' \in SessionRecord
    BY <1>20 DEF SessionRecord, SwitchToStream, Quit, SessIdle
  <2>2. Shapes'
    BY <1>20, <2>1 DEF SwitchToStream, Quit, SessIdle
  <2> QED
    BY <1>20, <2>2 DEF Calls, Holders, Lives, Pins, StreamHasSessionId, cloud,
       SessionRecord, CtrlRecord, NetRecord, AppRecord, SwitchToStream, Quit, SessIdle
<1>21. CASE WaitSwitch
  <2>1. s' \in SessionRecord
    BY <1>21 DEF SessionRecord, WaitSwitch, Quit, SessIdle
  <2>2. Shapes'
    BY <1>21, <2>1 DEF WaitSwitch, Quit, SessIdle
  <2> QED
    BY <1>21, <2>2 DEF Calls, Holders, Lives, Pins, StreamHasSessionId, cloud,
       SessionRecord, CtrlRecord, NetRecord, AppRecord, WaitSwitch, Quit, SessIdle
<1>22. CASE InitEcdh
  <2>1. s' \in SessionRecord
    BY <1>22 DEF SessionRecord, InitEcdh, Quit, SessIdle
  <2>2. Shapes'
    BY <1>22, <2>1 DEF InitEcdh, Quit, SessIdle
  <2> QED
    BY <1>22, <2>2 DEF Calls, Holders, Lives, Pins, StreamHasSessionId, cloud,
       SessionRecord, CtrlRecord, NetRecord, AppRecord, InitEcdh, Quit, SessIdle
<1>23. CASE StreamStopped
  <2>1. s' \in SessionRecord
    BY <1>23 DEF SessionRecord, StreamStopped, Quit, SessIdle
  <2>2. Shapes'
    BY <1>23, <2>1 DEF StreamStopped, Quit, SessIdle
  <2> QED
    BY <1>23, <2>2 DEF Calls, Holders, Lives, Pins, StreamHasSessionId, cloud,
       SessionRecord, CtrlRecord, NetRecord, AppRecord, StreamStopped, Quit, SessIdle
<1>24. CASE chiaki_ctrl_stop
  <2>1. k' \in CtrlRecord
    BY <1>24 DEF CtrlRecord, chiaki_ctrl_stop
  <2>2. pipe' \in PipeRecord
    BY <1>24 DEF PipeRecord, chiaki_ctrl_stop
  <2>3. Shapes'
    BY <1>24, <2>1, <2>2 DEF chiaki_ctrl_stop
  <2> QED
    BY <1>24, <2>3 DEF Calls, Holders, Lives, Pins, StreamHasSessionId, cloud,
       SessionRecord, CtrlRecord, NetRecord, AppRecord, chiaki_ctrl_stop
<1>25. CASE chiaki_ctrl_join
  <2>1. Shapes'
    BY <1>25 DEF chiaki_ctrl_join, SessIdle
  <2> QED
    BY <1>25, <2>1 DEF Calls, Holders, Lives, Pins, StreamHasSessionId, cloud,
       SessionRecord, CtrlRecord, NetRecord, AppRecord, chiaki_ctrl_join, SessIdle
<1>26. CASE QuitEvent
  <2>1. Shapes'
    BY <1>26 DEF QuitEvent, SessIdle
  <2> QED
    BY <1>26, <2>1 DEF Calls, Holders, Lives, Pins, StreamHasSessionId, cloud,
       SessionRecord, CtrlRecord, NetRecord, AppRecord, QuitEvent, SessIdle
<1> HIDE DEF IInv, At, Take, Drop, Goto, Shapes, LockRecord, BeforeCtrl, HoldsState,
            SessPlaces, HoldsNotif, CtrlPlaces, Threads
<1> QED
  BY <1>1, <1>2, <1>3, <1>4, <1>5, <1>6, <1>7, <1>8, <1>9, <1>10, <1>11, <1>12, <1>13,
     <1>14, <1>15, <1>16, <1>17, <1>18, <1>19, <1>20, <1>21, <1>22, <1>23, <1>24, <1>25,
     <1>26 DEF SessNext

\* The ctrl thread keeps it.
LEMMA CtrlPreserves ==
  ASSUME IInv, CtrlNext
  PROVE  IInv'
<1> USE DEF IInv, At, Take, Drop, Goto, Shapes, LockRecord, BeforeCtrl, HoldsState,
            SessPlaces, HoldsNotif, CtrlPlaces, Threads
<1>1. CASE CtrlBegin
  <2>1. Shapes'
    BY <1>1 DEF CtrlBegin, CtrlIdle
  <2> QED
    BY <1>1, <2>1 DEF Calls, Holders, Lives, Pins, StreamHasSessionId, cloud,
       SessionRecord, CtrlRecord, NetRecord, AppRecord, CtrlBegin, CtrlIdle
<1>2. CASE CtrlConnect
  <2>1. Shapes'
    BY <1>2 DEF CtrlConnect, CtrlIdle
  <2> QED
    BY <1>2, <2>1 DEF Calls, Holders, Lives, Pins, StreamHasSessionId, cloud,
       SessionRecord, CtrlRecord, NetRecord, AppRecord, CtrlConnect, CtrlIdle
<1>3. CASE CtrlHttp
  <2>1. Shapes'
    BY <1>3 DEF CtrlHttp, CtrlIdle
  <2> QED
    BY <1>3, <2>1 DEF Calls, Holders, Lives, Pins, StreamHasSessionId, cloud,
       SessionRecord, CtrlRecord, NetRecord, AppRecord, CtrlHttp, CtrlIdle
<1>4. CASE CtrlConnectFailed
  <2>1. s' \in SessionRecord
    BY <1>4 DEF SessionRecord, CtrlConnectFailed
  <2>2. Shapes'
    BY <1>4, <2>1 DEF CtrlConnectFailed
  <2> QED
    BY <1>4, <2>2 DEF Calls, Holders, Lives, Pins, StreamHasSessionId, cloud,
       SessionRecord, CtrlRecord, NetRecord, AppRecord, CtrlConnectFailed
<1>5. CASE CtrlLoop
  <2>1. Shapes'
    BY <1>5 DEF CtrlLoop, CtrlIdle
  <2> QED
    BY <1>5, <2>1 DEF Calls, Holders, Lives, Pins, StreamHasSessionId, cloud,
       SessionRecord, CtrlRecord, NetRecord, AppRecord, CtrlLoop, CtrlIdle
<1>6. CASE CtrlNotified
  <2>1. Shapes'
    BY <1>6 DEF CtrlNotified, AfterQueue
  <2> QED
    BY <1>6, <2>1 DEF Calls, Holders, Lives, Pins, StreamHasSessionId, cloud,
       SessionRecord, CtrlRecord, NetRecord, AppRecord, CtrlNotified, AfterQueue
<1>7. CASE CtrlReceive
  <2>1. k' \in CtrlRecord
    BY <1>7 DEF CtrlRecord, NetRecord, CtrlReceive
  <2>2. net' \in NetRecord
    BY <1>7 DEF NetRecord, CtrlReceive
  <2>3. Shapes'
    BY <1>7, <2>1, <2>2 DEF CtrlReceive
  <2> QED
    BY <1>7, <2>3 DEF Calls, Holders, Lives, Pins, StreamHasSessionId, cloud,
       SessionRecord, CtrlRecord, NetRecord, AppRecord, CtrlReceive
<1>8. CASE CtrlClosed
  <2>1. Shapes'
    BY <1>8 DEF CtrlClosed, CtrlIdle
  <2> QED
    BY <1>8, <2>1 DEF Calls, Holders, Lives, Pins, StreamHasSessionId, cloud,
       SessionRecord, CtrlRecord, NetRecord, AppRecord, CtrlClosed, CtrlIdle
<1>9. CASE CtrlLost
  <2>1. s' \in SessionRecord
    BY <1>9 DEF SessionRecord, CtrlLost
  <2>2. Shapes'
    BY <1>9, <2>1 DEF CtrlLost
  <2> QED
    BY <1>9, <2>2 DEF Calls, Holders, Lives, Pins, StreamHasSessionId, cloud,
       SessionRecord, CtrlRecord, NetRecord, AppRecord, CtrlLost
<1>10. CASE CtrlDrain
  <2>1. k' \in CtrlRecord
    BY <1>10 DEF CtrlRecord, CtrlDrain, AfterQueue
  <2>2. pipe' \in PipeRecord
    BY <1>10 DEF PipeRecord, CtrlDrain, AfterQueue
  <2>3. Shapes'
    BY <1>10, <2>1, <2>2 DEF CtrlDrain, AfterQueue
  <2> QED
    BY <1>10, <2>3 DEF Calls, Holders, Lives, Pins, StreamHasSessionId, cloud,
       SessionRecord, CtrlRecord, NetRecord, AppRecord, CtrlDrain, AfterQueue
<1>11. CASE CtrlSendPin
  <2>1. k' \in CtrlRecord
    <3>1. k.pins_sent + 1 \in Nat
      BY DEF CtrlRecord
    <3>2. k' = [k EXCEPT !.pin = FALSE, !.pins_sent = k.pins_sent + 1]
      BY <1>11 DEF CtrlRecord, CtrlSendPin
    <3> QED
      BY <3>1, <3>2 DEF CtrlRecord
  <2>2. pipe' \in PipeRecord
    BY <1>11 DEF PipeRecord, CtrlSendPin
  <2>3. Shapes'
    BY <1>11, <2>1, <2>2 DEF CtrlSendPin
  <2> QED
    BY <1>11, <2>3 DEF Calls, Holders, Lives, Pins, StreamHasSessionId, cloud,
       SessionRecord, CtrlRecord, NetRecord, AppRecord, CtrlSendPin
<1>12. CASE CtrlExit
  <2>1. net' \in NetRecord
    BY <1>12 DEF NetRecord, CtrlExit
  <2>2. Shapes'
    BY <1>12, <2>1 DEF CtrlExit
  <2> QED
    BY <1>12, <2>2 DEF Calls, Holders, Lives, Pins, StreamHasSessionId, cloud,
       SessionRecord, CtrlRecord, NetRecord, AppRecord, CtrlExit
<1>13. CASE SessionIdCheck
  <2>1. Shapes'
    BY <1>13 DEF SessionIdCheck, Handling
  <2> QED
    BY <1>13, <2>1 DEF Calls, Holders, Lives, Pins, StreamHasSessionId, cloud,
       SessionRecord, CtrlRecord, NetRecord, AppRecord, SessionIdCheck, Handling
<1>14. CASE SessionIdStore
  <2>1. s' \in SessionRecord
    BY <1>14 DEF SessionRecord, SessionIdStore
  <2>2. Shapes'
    BY <1>14, <2>1 DEF SessionIdStore
  <2> QED
    BY <1>14, <2>2 DEF Calls, Holders, Lives, Pins, StreamHasSessionId, cloud,
       SessionRecord, CtrlRecord, NetRecord, AppRecord, SessionIdStore
<1>15. CASE CtrlEnableFeatures
  <2>1. k' \in CtrlRecord
    BY <1>15 DEF CtrlRecord, CtrlEnableFeatures, Handled
  <2>2. Shapes'
    BY <1>15, <2>1 DEF CtrlEnableFeatures, Handled
  <2> QED
    BY <1>15, <2>2 DEF Calls, Holders, Lives, Pins, StreamHasSessionId, cloud,
       SessionRecord, CtrlRecord, NetRecord, AppRecord, CtrlEnableFeatures, Handled
<1>16. CASE Heartbeat
  <2>1. Shapes'
    BY <1>16 DEF Heartbeat, Handling
  <2> QED
    BY <1>16, <2>1 DEF Calls, Holders, Lives, Pins, StreamHasSessionId, cloud,
       SessionRecord, CtrlRecord, NetRecord, AppRecord, Heartbeat, Handling
<1>17. CASE LoginPinReq
  <2>1. s' \in SessionRecord
    BY <1>17 DEF SessionRecord, LoginPinReq, Handling
  <2>2. k' \in CtrlRecord
    <3>1. k.requests + 1 \in Nat
      BY DEF CtrlRecord
    <3>2. k' = [k EXCEPT !.msg = "none", !.pin_requested = TRUE, !.requests = k.requests + 1]
      BY <1>17 DEF CtrlRecord, LoginPinReq
    <3> QED
      BY <3>1, <3>2 DEF CtrlRecord
  <2>3. Shapes'
    BY <1>17, <2>1, <2>2 DEF LoginPinReq, Handling
  <2> QED
    BY <1>17, <2>3 DEF Calls, Holders, Lives, Pins, StreamHasSessionId, cloud,
       SessionRecord, CtrlRecord, NetRecord, AppRecord, LoginPinReq, Handling
<1>18. CASE LoginIncorrect
  <2>1. s' \in SessionRecord
    BY <1>18 DEF SessionRecord, LoginIncorrect, Handling
  <2>2. k' \in CtrlRecord
    <3>1. k.requests + 1 \in Nat /\ k.requests \in Nat
      BY DEF CtrlRecord
    <3>2. \/ k' = [k EXCEPT !.msg = "none", !.requests = k.requests + 1]
          \/ k' = [k EXCEPT !.msg = "none", !.requests = k.requests]
      BY <1>18 DEF CtrlRecord, LoginIncorrect
    <3>3. CASE k' = [k EXCEPT !.msg = "none", !.requests = k.requests + 1]
      BY <3>1, <3>3 DEF CtrlRecord
    <3>4. CASE k' = [k EXCEPT !.msg = "none", !.requests = k.requests]
      BY <3>1, <3>4 DEF CtrlRecord
    <3> QED
      BY <3>2, <3>3, <3>4
  <2>3. Shapes'
    BY <1>18, <2>1, <2>2 DEF LoginIncorrect, Handling
  <2> QED
    BY <1>18, <2>3 DEF Calls, Holders, Lives, Pins, StreamHasSessionId, cloud,
       SessionRecord, CtrlRecord, NetRecord, AppRecord, LoginIncorrect, Handling
<1>19. CASE SwitchAck
  <2>1. s' \in SessionRecord
    BY <1>19 DEF SessionRecord, SwitchAck, Handling, Handled
  <2>2. k' \in CtrlRecord
    BY <1>19 DEF CtrlRecord, SwitchAck, Handling, Handled
  <2>3. Shapes'
    BY <1>19, <2>1, <2>2 DEF SwitchAck, Handling, Handled
  <2> QED
    BY <1>19, <2>3 DEF Calls, Holders, Lives, Pins, StreamHasSessionId, cloud,
       SessionRecord, CtrlRecord, NetRecord, AppRecord, SwitchAck, Handling, Handled
<1>20. CASE RudpFinish
  <2>1. s' \in SessionRecord
    BY <1>20 DEF SessionRecord, RudpFinish, Handling, Handled
  <2>2. k' \in CtrlRecord
    BY <1>20 DEF CtrlRecord, RudpFinish, Handling, Handled
  <2>3. Shapes'
    BY <1>20, <2>1, <2>2 DEF RudpFinish, Handling, Handled
  <2> QED
    BY <1>20, <2>3 DEF Calls, Holders, Lives, Pins, StreamHasSessionId, cloud,
       SessionRecord, CtrlRecord, NetRecord, AppRecord, RudpFinish, Handling, Handled
<1>21. CASE OtherMessage
  <2>1. k' \in CtrlRecord
    BY <1>21 DEF CtrlRecord, OtherMessage, CtrlIdle, Handling
  <2>2. Shapes'
    BY <1>21, <2>1 DEF OtherMessage, CtrlIdle, Handling
  <2> QED
    BY <1>21, <2>2 DEF Calls, Holders, Lives, Pins, StreamHasSessionId, cloud,
       SessionRecord, CtrlRecord, NetRecord, AppRecord, OtherMessage, CtrlIdle, Handling
<1> HIDE DEF IInv, At, Take, Drop, Goto, Shapes, LockRecord, BeforeCtrl, HoldsState,
            SessPlaces, HoldsNotif, CtrlPlaces, Threads
<1> QED
  BY <1>1, <1>2, <1>3, <1>4, <1>5, <1>6, <1>7, <1>8, <1>9, <1>10, <1>11, <1>12, <1>13,
     <1>14, <1>15, <1>16, <1>17, <1>18, <1>19, <1>20, <1>21 DEF CtrlNext

\* So do the registration thread, the application and the console.
LEMMA OthersPreserve ==
  ASSUME IInv, regist_cb \/ AppReturns \/ Env
  PROVE  IInv'
<1> USE DEF IInv, At, Take, Drop, Goto, Shapes, LockRecord, BeforeCtrl, HoldsState,
            SessPlaces, HoldsNotif, CtrlPlaces, Threads
<1>1. CASE regist_cb
  <2>1. s' \in SessionRecord
    <3>1. CASE s' = [s EXCEPT !.registered = TRUE]
      BY <3>1 DEF SessionRecord
    <3>2. CASE s' = [s EXCEPT !.reason = "regist_failed", !.should_stop = TRUE]
      BY <3>2 DEF SessionRecord
    <3> QED
      BY <1>1, <3>1, <3>2 DEF regist_cb
  <2>2. Shapes'
    BY <1>1, <2>1 DEF regist_cb
  <2>3. Calls'
    BY <1>1, <2>2, MaxEventsAssumption DEF Calls, CtrlRecord, NetRecord, AppRecord,
       regist_cb
  <2>4. Holders'
    BY <1>1, <2>2 DEF Holders, regist_cb
  <2>5. Lives'
    BY <1>1, <2>2 DEF Lives, regist_cb
  <2>6. Pins'
    <3>1. s'.pin_requested = s.pin_requested
      BY <1>1 DEF SessionRecord, regist_cb
    <3>2. pc'["sess"] = pc["sess"] /\ pc'["ctrl"] = pc["ctrl"] /\ k' = k
      BY <1>1 DEF regist_cb
    <3> QED
      BY <3>1, <3>2 DEF Pins
  <2>7. StreamHasSessionId'
    <3>1. s'.id = s.id
      BY <1>1 DEF SessionRecord, regist_cb
    <3>2. pc'["sess"] = pc["sess"] /\ mode' = mode
      BY <1>1 DEF regist_cb
    <3> QED
      BY <3>1, <3>2 DEF StreamHasSessionId, cloud
  <2> QED
    BY <2>2, <2>3, <2>4, <2>5, <2>6, <2>7
<1>2. CASE SignalQueued
  <2>1. pipe' \in PipeRecord
    BY <1>2 DEF PipeRecord, SignalQueued
  <2>2. app' \in AppRecord
    BY <1>2 DEF AppRecord, SignalQueued
  <2>3. Shapes'
    BY <1>2, <2>1, <2>2 DEF SignalQueued
  <2> QED
    BY <1>2, <2>3 DEF Calls, Holders, Lives, Pins, StreamHasSessionId, cloud,
       SessionRecord, CtrlRecord, NetRecord, AppRecord, SignalQueued
<1>3. CASE GoneHome
  <2>1. app' \in AppRecord
    BY <1>3 DEF AppRecord, GoneHome
  <2>2. Shapes'
    BY <1>3, <2>1 DEF GoneHome
  <2> QED
    BY <1>3, <2>2 DEF Calls, Holders, Lives, Pins, StreamHasSessionId, cloud,
       SessionRecord, CtrlRecord, NetRecord, AppRecord, GoneHome
<1>4. CASE chiaki_session_start
  <2>1. Shapes'
    BY <1>4 DEF chiaki_session_start
  <2> QED
    BY <1>4, <2>1 DEF Calls, Holders, Lives, Pins, StreamHasSessionId, cloud,
       SessionRecord, CtrlRecord, NetRecord, AppRecord, chiaki_session_start
<1>5. CASE chiaki_session_stop
  <2>1. s' \in SessionRecord
    BY <1>5 DEF SessionRecord, chiaki_session_stop
  <2>2. pipe' \in PipeRecord
    BY <1>5 DEF PipeRecord, chiaki_session_stop
  <2>3. app' \in AppRecord
    BY <1>5 DEF AppRecord, chiaki_session_stop
  <2>4. Shapes'
    BY <1>5, <2>1, <2>2, <2>3 DEF chiaki_session_stop
  <2> QED
    BY <1>5, <2>4 DEF Calls, Holders, Lives, Pins, StreamHasSessionId, cloud,
       SessionRecord, CtrlRecord, NetRecord, AppRecord, chiaki_session_stop
<1>6. CASE chiaki_session_set_login_pin
  <2>1. s' \in SessionRecord
    BY <1>6 DEF SessionRecord, chiaki_session_set_login_pin, MoreEvents
  <2>2. app' \in AppRecord
    BY <1>6 DEF AppRecord, chiaki_session_set_login_pin, MoreEvents
  <2>3. Shapes'
    BY <1>6, <2>1, <2>2 DEF chiaki_session_set_login_pin, MoreEvents
  <2>4. Calls'
    BY <1>6, <2>3, MaxEventsAssumption DEF Calls, CtrlRecord, NetRecord, AppRecord,
       chiaki_session_set_login_pin, MoreEvents
  <2>5. Holders'
    BY <1>6, <2>3 DEF Holders, chiaki_session_set_login_pin, MoreEvents
  <2>6. Lives'
    BY <1>6, <2>3 DEF Lives, chiaki_session_set_login_pin, MoreEvents
  <2>7. Pins'
    BY <1>6, <2>3 DEF Pins, CtrlRecord, SessionRecord, chiaki_session_set_login_pin,
       MoreEvents
  <2>8. StreamHasSessionId'
    BY <1>6, <2>3 DEF StreamHasSessionId, cloud, SessionRecord,
       chiaki_session_set_login_pin, MoreEvents
  <2> QED
    BY <2>3, <2>4, <2>5, <2>6, <2>7, <2>8
<1>7. CASE QueueMessage
  <2>1. k' \in CtrlRecord
    BY <1>7 DEF CtrlRecord, QueueMessage, CanCall, MoreEvents
  <2>2. app' \in AppRecord
    <3>1. app.calls + 1 \in Nat
      BY DEF AppRecord
    <3>2. app' = [app EXCEPT !.at = "signal", !.calls = app.calls + 1]
      BY <1>7 DEF AppRecord, QueueMessage
    <3> QED
      BY <3>1, <3>2 DEF AppRecord
  <2>3. Shapes'
    BY <1>7, <2>1, <2>2 DEF QueueMessage, CanCall, MoreEvents
  <2>4. Calls'
    BY <1>7, <2>3, MaxEventsAssumption DEF Calls, CtrlRecord, NetRecord, AppRecord,
       QueueMessage, CanCall, MoreEvents
  <2>5. Holders'
    BY <1>7, <2>3 DEF Holders, QueueMessage, CanCall, MoreEvents
  <2>6. Lives'
    BY <1>7, <2>3 DEF Lives, QueueMessage, CanCall, MoreEvents
  <2>7. Pins'
    BY <1>7, <2>3 DEF Pins, CtrlRecord, SessionRecord, QueueMessage, CanCall,
       MoreEvents
  <2>8. StreamHasSessionId'
    BY <1>7, <2>3 DEF StreamHasSessionId, cloud, SessionRecord, QueueMessage, CanCall,
       MoreEvents
  <2> QED
    BY <2>3, <2>4, <2>5, <2>6, <2>7, <2>8
<1>8. CASE chiaki_session_go_home
  <2>1. app' \in AppRecord
    <3>1. app.calls + 1 \in Nat
      BY DEF AppRecord
    <3>2. app' = [app EXCEPT !.at = "home", !.calls = app.calls + 1]
      BY <1>8 DEF AppRecord, chiaki_session_go_home
    <3> QED
      BY <3>1, <3>2 DEF AppRecord
  <2>2. Shapes'
    BY <1>8, <2>1 DEF chiaki_session_go_home, CanCall, MoreEvents
  <2>3. Calls'
    BY <1>8, <2>2, MaxEventsAssumption DEF Calls, CtrlRecord, NetRecord, AppRecord,
       chiaki_session_go_home, CanCall, MoreEvents
  <2>4. Holders'
    BY <1>8, <2>2 DEF Holders, chiaki_session_go_home, CanCall, MoreEvents
  <2>5. Lives'
    BY <1>8, <2>2 DEF Lives, chiaki_session_go_home, CanCall, MoreEvents
  <2>6. Pins'
    BY <1>8, <2>2 DEF Pins, CtrlRecord, SessionRecord, chiaki_session_go_home, CanCall,
       MoreEvents
  <2>7. StreamHasSessionId'
    BY <1>8, <2>2 DEF StreamHasSessionId, cloud, SessionRecord, chiaki_session_go_home,
       CanCall, MoreEvents
  <2> QED
    BY <2>2, <2>3, <2>4, <2>5, <2>6, <2>7
<1>9. CASE StreamEnded
  <2>1. s' \in SessionRecord
    BY <1>9 DEF SessionRecord, StreamEnded, Quit, SessIdle
  <2>2. Shapes'
    BY <1>9, <2>1 DEF StreamEnded, Quit, SessIdle
  <2> QED
    BY <1>9, <2>2 DEF Calls, Holders, Lives, Pins, StreamHasSessionId, cloud,
       SessionRecord, CtrlRecord, NetRecord, AppRecord, StreamEnded, Quit, SessIdle
<1>10. CASE ConsoleCloses
  <2>1. net' \in NetRecord
    BY <1>10 DEF NetRecord, ConsoleCloses
  <2>2. Shapes'
    BY <1>10, <2>1 DEF ConsoleCloses
  <2> QED
    BY <1>10, <2>2 DEF Calls, Holders, Lives, Pins, StreamHasSessionId, cloud,
       SessionRecord, CtrlRecord, NetRecord, AppRecord, ConsoleCloses
<1>11. ASSUME NEW m \in Kinds, ConsoleSends(m) PROVE IInv'
  <2>1. net' \in NetRecord
    <3>1. net.sent + 1 \in Nat
      BY DEF NetRecord
    <3>2. net' = [net EXCEPT !.msg = m, !.sent = net.sent + 1]
      BY <1>11 DEF NetRecord, ConsoleSends
    <3> QED
      BY <1>11, <3>1, <3>2 DEF NetRecord
  <2>2. Shapes'
    BY <1>11, <2>1 DEF ConsoleSends, MoreEvents
  <2>3. Calls'
    BY <1>11, <2>2, MaxEventsAssumption DEF Calls, CtrlRecord, NetRecord, AppRecord,
       ConsoleSends, MoreEvents
  <2>4. Holders'
    BY <1>11, <2>2 DEF Holders, ConsoleSends, MoreEvents
  <2>5. Lives'
    BY <1>11, <2>2 DEF Lives, ConsoleSends, MoreEvents
  <2>6. Pins'
    BY <1>11, <2>2 DEF Pins, CtrlRecord, SessionRecord, ConsoleSends, MoreEvents
  <2>7. StreamHasSessionId'
    BY <1>11, <2>2 DEF StreamHasSessionId, cloud, SessionRecord, ConsoleSends,
       MoreEvents
  <2> QED
    BY <2>2, <2>3, <2>4, <2>5, <2>6, <2>7
<1> QED
  BY <1>1, <1>2, <1>3, <1>4, <1>5, <1>6, <1>7, <1>8, <1>9, <1>10, <1>11 DEF AppReturns,
     Env

\* The invariant holds initially.
LEMMA InitEstablishes == Init => IInv
<1> SUFFICES ASSUME Init PROVE IInv
  OBVIOUS
<1>1. s \in SessionRecord
  BY DEF Init, SessionRecord
<1>2. k \in CtrlRecord
  BY DEF Init, CtrlRecord
<1>3. pipe \in PipeRecord
  BY DEF Init, PipeRecord
<1>4. net \in NetRecord /\ app \in AppRecord
  BY DEF Init, NetRecord, AppRecord
<1>5. Shapes
  BY <1>1, <1>2, <1>3, <1>4 DEF Init, Shapes, LockRecord, SessPlaces, BeforeCtrl, CtrlPlaces,
     Threads
<1>6. Calls
  BY MaxEventsAssumption DEF Init, Calls
<1>7. Pins
  BY DEF Init, Pins, Threads
<1>8. Holders /\ Lives /\ StreamHasSessionId
  BY DEF Init, Holders, Lives, StreamHasSessionId, Threads
<1> QED
  BY <1>5, <1>6, <1>7, <1>8 DEF IInv

\* The invariant is inductive.
THEOREM Inductive == Spec => []IInv
<1>1. IInv /\ [Next]_vars => IInv'
  <2> SUFFICES ASSUME IInv, [Next]_vars PROVE IInv'
    OBVIOUS
  <2>1. CASE Next
    BY <2>1, SessPreserves, CtrlPreserves, OthersPreserve DEF Next
  <2>2. CASE UNCHANGED vars
    BY <2>2 DEF vars, IInv, Shapes, Calls, Holders, Lives, Pins, StreamHasSessionId, cloud
  <2> QED
    BY <2>1, <2>2
<1> QED
  BY <1>1, InitEstablishes, PTL DEF Spec

\* The quit event is the last thing that happens: from the place where it is sent on,
\* neither the ctrl thread nor the registration thread runs, and no mutex is held by a
\* thread that has ended.
THEOREM QuitEventIsLastHolds == Spec => []QuitEventIsLast
<1>1. IInv => QuitEventIsLast
  <2> SUFFICES ASSUME IInv PROVE QuitEventIsLast
    OBVIOUS
  <2>1. lock \in [{"state", "notif"} -> Threads \cup {"free"}]
    BY DEF IInv, Shapes, LockRecord, Threads
  <2>2. ASSUME NEW m \in DOMAIN lock, lock[m] # "free"
        PROVE  pc[lock[m]] \notin {"none", "done"}
    BY <2>1, <2>2 DEF IInv, Shapes, LockRecord, Holders, HoldsState, HoldsNotif
  <2>3. k.queue \in 0 .. MaxEvents
    BY MaxEventsAssumption DEF IInv, Shapes, Calls, CtrlRecord, NetRecord, AppRecord
  <2>4. s.id \in {"none", "real", "fallback"} /\ s.try \in 1 .. 3 /\ net.msg \in Kinds \cup {"none"}
    BY DEF IInv, Shapes, SessionRecord, NetRecord
  <2>5. pc["sess"] \in {"quit", "done"} =>
          pc["ctrl"] \in {"none", "done"} /\ pc["regist"] \in {"none", "done"}
    BY DEF IInv, Shapes, Lives
  <2> QED
    BY <2>1, <2>2, <2>3, <2>4, <2>5 DEF QuitEventIsLast, TypeOK
<1> QED
  BY <1>1, Inductive, PTL

\* Senkusha and the stream of a remote play session only run with a session id.
THEOREM StreamHasSessionIdHolds == Spec => []StreamHasSessionId
<1>1. IInv => StreamHasSessionId
  BY DEF IInv
<1> QED
  BY <1>1, Inductive, PTL

\* No PIN goes to the console that was not asked for: every request is answered at
\* most once.
THEOREM PinsWereAskedHolds == Spec => []PinsWereAsked
<1>1. IInv => PinsWereAsked
  BY DEF IInv, Shapes, CtrlRecord, Pins, PinsWereAsked
<1> QED
  BY <1>1, Inductive, PTL

-----------------------------------------------------------------------------
(* The stream's view. *)
SwFields == {"main", "blocked", "view", "exit", "session_init", "sess", "stop", "codec", "frames",
             "running", "dec", "queue", "samples", "streams", "mark"}
StartingUp == {"allocate", "codec", "video", "session", "start"}
Drawing == {"load", "upload", "input"}
TearingDown == {"join", "free", "freeing"}

\* While a stream starts there is no session yet; while it is drawn or taken down there is
\* its view; and from the session on, until it is taken down, the menu is blocked.
SwStages ==
  /\ DOMAIN sw = SwFields
  /\ sw.main \in StartingUp \cup Drawing \cup TearingDown \cup {"menu", "terminated"}
  /\ sw.sess \in {"none", "connecting", "connected", "quit"}
  /\ sw.main \in StartingUp => sw.sess = "none" /\ ~sw.view /\ sw.blocked
  /\ sw.main \in Drawing \cup TearingDown => sw.view
  /\ sw.view \/ sw.sess # "none" => sw.blocked
  /\ sw.main \in {"free", "freeing"} => sw.sess = "none"
  /\ sw.sess = "connecting" => ~sw.view
  /\ sw.exit => sw.sess # "none"

\* The decoder, the pictures and the decode thread, from InitVideo to FreeVideo.
SwDecoder ==
  /\ sw.frames \in {"none", "some", "all"}
  /\ sw.dec \in {"none", "wait", "decode", "stored", "ended"}
  /\ sw.queue \in Nat
  /\ sw.main = "video" => sw.codec
  /\ sw.main \in {"session", "start"} \/ sw.sess # "none" =>
       /\ sw.codec /\ sw.frames # "none"
       /\ sw.frames = "all" => sw.running /\ sw.dec \in {"wait", "decode", "stored"}
  /\ sw.dec = "ended" \/ (sw.dec # "none" /\ ~sw.running) => sw.main = "freeing"
  /\ sw.queue > 0 \/ sw.dec \in {"decode", "stored"} => sw.codec /\ sw.frames # "none"

\* The pictures: the newest is in the current slot and the next one is written behind it.
PicTypes ==
  /\ DOMAIN pic = {"p", "pacing", "texture", "seen", "index", "laps"}
  /\ DOMAIN pic.p = {"current", "next", "slot", "decoded", "rendered"}
  /\ pic.p.current \in 0 .. MAX_FRAME_COUNT - 1 /\ pic.p.next \in 0 .. MAX_FRAME_COUNT - 1
  /\ pic.p.slot \in [0 .. MAX_FRAME_COUNT - 1 -> Nat]
  /\ pic.p.decoded \in Nat /\ pic.p.rendered \in Nat
  /\ pic.texture \in Nat /\ pic.seen \in Nat /\ pic.laps \in Nat
  /\ pic.index \in 0 .. MAX_FRAME_COUNT - 1
Newest ==
  /\ pic.p.decoded > 0 \/ sw.dec = "stored" =>
       /\ pic.p.next = Sv!NextFrame(pic.p.current)
       /\ pic.p.slot[pic.p.current] = pic.p.decoded + (IF sw.dec = "stored" THEN 1 ELSE 0)
  /\ pic.p.rendered <= pic.p.decoded /\ pic.p.rendered <= pic.texture

\* The slot d places on in the ring.
PlaceAfter(i, d) == IF i + d < MAX_FRAME_COUNT THEN i + d ELSE i + d - MAX_FRAME_COUNT

\* What the renderer has chosen: the picture is not older than it believes, and the decode
\* thread is laps pictures ahead of it, until it has been around the ring.
Chosen ==
  /\ sw.main \in {"load", "upload"} => pic.seen <= pic.p.decoded /\ pic.p.decoded > 0
  /\ sw.main = "upload" =>
       /\ pic.laps < MAX_FRAME_COUNT - 1 => pic.p.next = PlaceAfter(pic.index, pic.laps + 1)
       /\ pic.seen <= pic.p.slot[pic.index]

StreamInv == SwStages /\ SwDecoder /\ PicTypes /\ Newest /\ Chosen

\* The ring of pictures without the modulus.
LEMMA NextPlace ==
  ASSUME NEW i \in 0 .. MAX_FRAME_COUNT - 1
  PROVE  Sv!NextFrame(i) = PlaceAfter(i, 1) /\ Sv!NextFrame(i) \in 0 .. MAX_FRAME_COUNT - 1
<1>1. CASE i + 1 < MAX_FRAME_COUNT
  BY <1>1, PicturesAssumption DEF Sv!NextFrame, PlaceAfter
<1>2. CASE i + 1 = MAX_FRAME_COUNT
  BY <1>2, PicturesAssumption DEF Sv!NextFrame, PlaceAfter
<1> QED
  BY <1>1, <1>2, PicturesAssumption

\* The view starts with no session, no decode thread and an empty ring of pictures, which satisfies StreamInv.
LEMMA StreamInit == Sv!InitStream => StreamInv
  BY PicturesAssumption DEF Sv!InitStream, Sv!NoPicture, StreamInv, SwStages, SwDecoder, PicTypes, Newest, Chosen,
     SwFields, StartingUp, Drawing, TearingDown

\* What the run checks of the stream view is part of its inductive invariant.
LEMMA StreamFollows == StreamInv => StreamIsSafe
<1> SUFFICES ASSUME StreamInv PROVE StreamIsSafe
  OBVIOUS
<1>1. Sv!TeardownIsSafe
  BY DEF StreamInv, SwStages, SwDecoder, Sv!TeardownIsSafe
<1>2. pic.texture >= pic.p.rendered
  BY DEF StreamInv, Newest, PicTypes
<1>3. ASSUME sw.main = "upload", pic.index = pic.p.next PROVE pic.laps >= MAX_FRAME_COUNT - 1
  <2>1. /\ pic.index \in 0 .. MAX_FRAME_COUNT - 1 /\ pic.laps \in Nat
        /\ pic.laps < MAX_FRAME_COUNT - 1 => pic.index = PlaceAfter(pic.index, pic.laps + 1)
    BY <1>3 DEF StreamInv, Chosen, PicTypes
  <2> QED
    BY <2>1, PicturesAssumption DEF PlaceAfter
<1>4. Sv!PictureIsCurrent
  BY <1>2, <1>3 DEF Sv!PictureIsCurrent
<1> QED
  BY <1>1, <1>4 DEF StreamIsSafe

\* A start that is given up leaves everything but the main thread, the block and the mark alone.
LEMMA GaveUp ==
  ASSUME NEW q, DOMAIN q = SwFields, sw' = Sv!GiveUp(q)
  PROVE  /\ DOMAIN sw' = SwFields /\ sw'.main = "menu" /\ sw'.blocked = FALSE
         /\ sw'.view = q.view /\ sw'.exit = q.exit /\ sw'.sess = q.sess /\ sw'.codec = q.codec
         /\ sw'.frames = q.frames /\ sw'.running = q.running /\ sw'.dec = q.dec /\ sw'.queue = q.queue
<1> DEFINE r == [q EXCEPT !.main = "menu", !.blocked = FALSE]
<1>1. /\ DOMAIN r = SwFields /\ r.main = "menu" /\ r.blocked = FALSE
      /\ r.view = q.view /\ r.exit = q.exit /\ r.sess = q.sess /\ r.codec = q.codec
      /\ r.frames = q.frames /\ r.running = q.running /\ r.dec = q.dec /\ r.queue = q.queue
  BY DEF SwFields
<1> DEFINE failed == "not streamable"
<1>2. sw' = [r EXCEPT !.mark = failed]
  BY Zenon DEF Sv!GiveUp, Sv!Recorded
<1> HIDE DEF r, failed
<1>3. DOMAIN sw' = SwFields /\ \A f \in SwFields \ {"mark"} : sw'[f] = r[f]
  BY <1>1, <1>2
<1> QED
  BY <1>1, <1>3 DEF SwFields

\* So the stages and the decoder are as they should be.
LEMMA GaveUpOK ==
  ASSUME SwStages, SwDecoder, sw.main \in StartingUp,
         sw' = Sv!GiveUp(sw) \/ sw' = Sv!GiveUp([sw EXCEPT !.frames = "all"])
  PROVE  SwStages' /\ SwDecoder'
<1> DEFINE q == [sw EXCEPT !.frames = "all"]
<1>1. DOMAIN sw = SwFields /\ sw.sess = "none" /\ ~sw.view /\ ~sw.exit /\ sw.main # "freeing"
  BY DEF SwStages, StartingUp
<1>2. /\ DOMAIN q = SwFields /\ q.frames = "all" /\ q.view = sw.view /\ q.exit = sw.exit /\ q.sess = sw.sess
      /\ q.codec = sw.codec /\ q.running = sw.running /\ q.dec = sw.dec /\ q.queue = sw.queue
  BY <1>1 DEF SwFields
<1> HIDE DEF q
<1>3. /\ DOMAIN sw' = SwFields /\ sw'.main = "menu" /\ sw'.blocked = FALSE
      /\ sw'.view = sw.view /\ sw'.exit = sw.exit /\ sw'.sess = sw.sess /\ sw'.codec = sw.codec
      /\ sw'.frames \in {sw.frames, "all"} /\ sw'.running = sw.running /\ sw'.dec = sw.dec /\ sw'.queue = sw.queue
  <2>1. CASE sw' = Sv!GiveUp(sw)
    BY <1>1, <2>1, GaveUp
  <2>2. CASE sw' = Sv!GiveUp(q)
    BY <1>2, <2>2, GaveUp
  <2> QED
    BY <2>1, <2>2 DEF q
<1>4. SwStages'
  BY <1>1, <1>3 DEF SwStages, StartingUp, Drawing, TearingDown
<1>5. SwDecoder'
  BY <1>1, <1>3 DEF SwDecoder
<1> QED
  BY <1>4, <1>5

\* Each step of the main thread, of the session or of the decode thread keeps the stages, ...
LEMMA SwStagesStep ==
  ASSUME SwStages, SwDecoder, Sv!NextStream
  PROVE  SwStages'
<1> USE DEF SwStages, SwDecoder, SwFields, StartingUp, Drawing, TearingDown
<1>1. ASSUME Sv!StartGame PROVE SwStages'
  BY <1>1 DEF Sv!StartGame
<1>2. ASSUME Sv!Allocates PROVE SwStages'
  <2>1. CASE sw' = Sv!GiveUp(sw)
    BY <1>2, <2>1, GaveUpOK DEF Sv!Allocates
  <2>2. CASE sw' = [sw EXCEPT !.main = "codec"]
    BY <1>2, <2>2 DEF Sv!Allocates
  <2> QED
    BY <1>2, <2>1, <2>2 DEF Sv!Allocates
<1>3. ASSUME Sv!InitAVCodec PROVE SwStages'
  <2>1. CASE sw' = Sv!GiveUp(sw)
    BY <1>3, <2>1, GaveUpOK DEF Sv!InitAVCodec
  <2>2. CASE sw' = [sw EXCEPT !.main = "video", !.codec = TRUE]
    BY <1>3, <2>2 DEF Sv!InitAVCodec
  <2> QED
    BY <1>3, <2>1, <2>2 DEF Sv!InitAVCodec
<1>4. ASSUME Sv!InitVideo PROVE SwStages'
  <2>1. CASE sw' = Sv!GiveUp([sw EXCEPT !.frames = "all"])
    BY <1>4, <2>1, GaveUpOK DEF Sv!InitVideo
  <2>2. CASE sw' = [sw EXCEPT !.frames = "some", !.main = "session"]
    BY <1>4, <2>2 DEF Sv!InitVideo
  <2>3. CASE Sv!IsJoinable /\ sw' = [sw EXCEPT !.frames = "all", !.main = "terminated"]
    BY <1>4, <2>3 DEF Sv!InitVideo, Sv!IsJoinable
  <2>4. CASE /\ ~Sv!IsJoinable
             /\ sw' = [sw EXCEPT !.frames = "all", !.main = "session", !.running = TRUE, !.dec = "wait"]
    BY <1>4, <2>4 DEF Sv!InitVideo, Sv!IsJoinable
  <2> QED
    BY <1>4, <2>1, <2>2, <2>3, <2>4 DEF Sv!InitVideo
<1>5. ASSUME Sv!InitSession PROVE SwStages'
  <2>1. CASE sw' = Sv!GiveUp(sw)
    BY <1>5, <2>1, GaveUpOK DEF Sv!InitSession
  <2>2. CASE sw' = [sw EXCEPT !.main = "start", !.session_init = TRUE, !.samples = 0]
    BY <1>5, <2>2 DEF Sv!InitSession
  <2> QED
    BY <1>5, <2>1, <2>2 DEF Sv!InitSession
<1>6. ASSUME Sv!StartSession PROVE SwStages'
  <2>1. CASE sw' = Sv!GiveUp(sw)
    BY <1>6, <2>1, GaveUpOK DEF Sv!StartSession
  <2>2. CASE sw' = [sw EXCEPT !.main = "menu", !.sess = "connecting", !.stop = FALSE]
    BY <1>6, <2>2 DEF Sv!StartSession
  <2> QED
    BY <1>6, <2>1, <2>2 DEF Sv!StartSession
<1>7. ASSUME Sv!OpenGlDraw PROVE SwStages'
  BY <1>7 DEF Sv!OpenGlDraw
<1>8. ASSUME Sv!DrawLoads PROVE SwStages'
  BY <1>8 DEF Sv!DrawLoads
<1>9. ASSUME Sv!DrawUploads PROVE SwStages'
  BY <1>9 DEF Sv!DrawUploads
<1>10. ASSUME Sv!DrawInput PROVE SwStages'
  BY <1>10 DEF Sv!DrawInput
<1>11. ASSUME Sv!FiniSession PROVE SwStages'
  BY <1>11 DEF Sv!FiniSession
<1>12. ASSUME Sv!FreeVideo PROVE SwStages'
  BY <1>12 DEF Sv!FreeVideo, Sv!IsJoinable
<1>13. ASSUME Sv!Freed PROVE SwStages'
  <2>1. CASE sw' = [sw EXCEPT !.main = "menu", !.dec = "none", !.queue = 0, !.codec = FALSE, !.frames = "none",
                         !.blocked = FALSE, !.view = FALSE]
    BY <1>13, <2>1 DEF Sv!Freed
  <2>2. CASE sw.frames = "some" /\ sw' = [sw EXCEPT !.main = "terminated", !.dec = "none"]
    BY <1>13, <2>2 DEF Sv!Freed
  <2> QED
    BY <1>13, <2>1, <2>2 DEF Sv!Freed
<1>14. ASSUME Sv!EventConnected PROVE SwStages'
  BY <1>14 DEF Sv!EventConnected, Sv!Recorded
<1>15. ASSUME Sv!EventQuit PROVE SwStages'
  BY <1>15 DEF Sv!EventQuit
<1>16. ASSUME Sv!VideoCB PROVE SwStages'
  BY <1>16 DEF Sv!VideoCB
<1>17. ASSUME Sv!VideoDecodeThreadTakes PROVE SwStages'
  BY <1>17 DEF Sv!VideoDecodeThreadTakes
<1>18. ASSUME Sv!DecodeNothing PROVE SwStages'
  BY <1>18 DEF Sv!DecodeNothing
<1>19. ASSUME Sv!DecodeStores PROVE SwStages'
  BY <1>19 DEF Sv!DecodeStores
<1>20. ASSUME Sv!DecodePublishes PROVE SwStages'
  BY <1>20 DEF Sv!DecodePublishes
<1> HIDE DEF SwStages, SwDecoder, SwFields, StartingUp, Drawing, TearingDown
<1> QED
  BY <1>1, <1>2, <1>3, <1>4, <1>5, <1>6, <1>7, <1>8, <1>9, <1>10, <1>11, <1>12, <1>13, <1>14, <1>15, <1>16, <1>17, <1>18, <1>19, <1>20
     DEF Sv!NextStream, Sv!MainThread, Sv!DecodeThread

\* ... and the decoder with its thread.
LEMMA SwDecoderStep ==
  ASSUME SwStages, SwDecoder, Sv!NextStream
  PROVE  SwDecoder'
<1> USE DEF SwStages, SwDecoder, SwFields, StartingUp, Drawing, TearingDown
<1>1. ASSUME Sv!StartGame PROVE SwDecoder'
  BY <1>1 DEF Sv!StartGame
<1>2. ASSUME Sv!Allocates PROVE SwDecoder'
  <2>1. CASE sw' = Sv!GiveUp(sw)
    BY <1>2, <2>1, GaveUpOK DEF Sv!Allocates
  <2>2. CASE sw' = [sw EXCEPT !.main = "codec"]
    BY <1>2, <2>2 DEF Sv!Allocates
  <2> QED
    BY <1>2, <2>1, <2>2 DEF Sv!Allocates
<1>3. ASSUME Sv!InitAVCodec PROVE SwDecoder'
  <2>1. CASE sw' = Sv!GiveUp(sw)
    BY <1>3, <2>1, GaveUpOK DEF Sv!InitAVCodec
  <2>2. CASE sw' = [sw EXCEPT !.main = "video", !.codec = TRUE]
    BY <1>3, <2>2 DEF Sv!InitAVCodec
  <2> QED
    BY <1>3, <2>1, <2>2 DEF Sv!InitAVCodec
<1>4. ASSUME Sv!InitVideo PROVE SwDecoder'
  <2>1. CASE sw' = Sv!GiveUp([sw EXCEPT !.frames = "all"])
    BY <1>4, <2>1, GaveUpOK DEF Sv!InitVideo
  <2>2. CASE sw' = [sw EXCEPT !.frames = "some", !.main = "session"]
    BY <1>4, <2>2 DEF Sv!InitVideo
  <2>3. CASE Sv!IsJoinable /\ sw' = [sw EXCEPT !.frames = "all", !.main = "terminated"]
    BY <1>4, <2>3 DEF Sv!InitVideo, Sv!IsJoinable
  <2>4. CASE /\ ~Sv!IsJoinable
             /\ sw' = [sw EXCEPT !.frames = "all", !.main = "session", !.running = TRUE, !.dec = "wait"]
    BY <1>4, <2>4 DEF Sv!InitVideo, Sv!IsJoinable
  <2> QED
    BY <1>4, <2>1, <2>2, <2>3, <2>4 DEF Sv!InitVideo
<1>5. ASSUME Sv!InitSession PROVE SwDecoder'
  <2>1. CASE sw' = Sv!GiveUp(sw)
    BY <1>5, <2>1, GaveUpOK DEF Sv!InitSession
  <2>2. CASE sw' = [sw EXCEPT !.main = "start", !.session_init = TRUE, !.samples = 0]
    BY <1>5, <2>2 DEF Sv!InitSession
  <2> QED
    BY <1>5, <2>1, <2>2 DEF Sv!InitSession
<1>6. ASSUME Sv!StartSession PROVE SwDecoder'
  <2>1. CASE sw' = Sv!GiveUp(sw)
    BY <1>6, <2>1, GaveUpOK DEF Sv!StartSession
  <2>2. CASE sw' = [sw EXCEPT !.main = "menu", !.sess = "connecting", !.stop = FALSE]
    BY <1>6, <2>2 DEF Sv!StartSession
  <2> QED
    BY <1>6, <2>1, <2>2 DEF Sv!StartSession
<1>7. ASSUME Sv!OpenGlDraw PROVE SwDecoder'
  BY <1>7 DEF Sv!OpenGlDraw
<1>8. ASSUME Sv!DrawLoads PROVE SwDecoder'
  BY <1>8 DEF Sv!DrawLoads
<1>9. ASSUME Sv!DrawUploads PROVE SwDecoder'
  BY <1>9 DEF Sv!DrawUploads
<1>10. ASSUME Sv!DrawInput PROVE SwDecoder'
  BY <1>10 DEF Sv!DrawInput
<1>11. ASSUME Sv!FiniSession PROVE SwDecoder'
  BY <1>11 DEF Sv!FiniSession
<1>12. ASSUME Sv!FreeVideo PROVE SwDecoder'
  BY <1>12 DEF Sv!FreeVideo, Sv!IsJoinable
<1>13. ASSUME Sv!Freed PROVE SwDecoder'
  <2>1. CASE sw' = [sw EXCEPT !.main = "menu", !.dec = "none", !.queue = 0, !.codec = FALSE, !.frames = "none",
                         !.blocked = FALSE, !.view = FALSE]
    BY <1>13, <2>1 DEF Sv!Freed
  <2>2. CASE sw.frames = "some" /\ sw' = [sw EXCEPT !.main = "terminated", !.dec = "none"]
    BY <1>13, <2>2 DEF Sv!Freed
  <2> QED
    BY <1>13, <2>1, <2>2 DEF Sv!Freed
<1>14. ASSUME Sv!EventConnected PROVE SwDecoder'
  BY <1>14 DEF Sv!EventConnected, Sv!Recorded
<1>15. ASSUME Sv!EventQuit PROVE SwDecoder'
  BY <1>15 DEF Sv!EventQuit
<1>16. ASSUME Sv!VideoCB PROVE SwDecoder'
  BY <1>16 DEF Sv!VideoCB
<1>17. ASSUME Sv!VideoDecodeThreadTakes PROVE SwDecoder'
  BY <1>17 DEF Sv!VideoDecodeThreadTakes
<1>18. ASSUME Sv!DecodeNothing PROVE SwDecoder'
  BY <1>18 DEF Sv!DecodeNothing
<1>19. ASSUME Sv!DecodeStores PROVE SwDecoder'
  BY <1>19 DEF Sv!DecodeStores
<1>20. ASSUME Sv!DecodePublishes PROVE SwDecoder'
  BY <1>20 DEF Sv!DecodePublishes
<1> HIDE DEF SwStages, SwDecoder, SwFields, StartingUp, Drawing, TearingDown
<1> QED
  BY <1>1, <1>2, <1>3, <1>4, <1>5, <1>6, <1>7, <1>8, <1>9, <1>10, <1>11, <1>12, <1>13, <1>14, <1>15, <1>16, <1>17, <1>18, <1>19, <1>20
     DEF Sv!NextStream, Sv!MainThread, Sv!DecodeThread

\* The pictures' part of the invariant.
PicInv == PicTypes /\ Newest /\ Chosen

\* A step that leaves the pictures alone, stores none and chooses none.
LEMMA PicIdle ==
  ASSUME PicInv, UNCHANGED pic, sw'.dec = "stored" <=> sw.dec = "stored",
         sw'.main \in {"load", "upload"} => sw'.main = sw.main
  PROVE  PicInv'
  BY DEF PicInv, PicTypes, Newest, Chosen, Sv!NextFrame

\* The pictures are numbered in the order in which they are decoded.
LEMMA PicStep ==
  ASSUME StreamInv, Sv!NextStream
  PROVE  PicInv'
<1> DEFINE M == MAX_FRAME_COUNT
<1>0. /\ DOMAIN sw = SwFields /\ M \in Nat \ {0}
      /\ PicTypes /\ Newest /\ Chosen /\ PicInv
  BY PicturesAssumption DEF StreamInv, SwStages, PicInv
<1>1. ASSUME \/ Sv!StartGame \/ Sv!Allocates \/ Sv!InitVideo \/ Sv!InitSession \/ Sv!StartSession \/ Sv!DrawInput
             \/ Sv!FiniSession \/ Sv!FreeVideo \/ Sv!EventConnected \/ Sv!EventQuit \/ Sv!VideoCB
             \/ Sv!VideoDecodeThreadTakes \/ Sv!DecodeNothing
      PROVE  PicInv'
  <2>1. UNCHANGED pic
    BY <1>1 DEF Sv!StartGame, Sv!Allocates, Sv!InitVideo, Sv!InitSession, Sv!StartSession, Sv!DrawInput, Sv!FiniSession,
       Sv!FreeVideo, Sv!EventConnected, Sv!EventQuit, Sv!VideoCB, Sv!VideoDecodeThreadTakes, Sv!DecodeNothing
  <2>2. /\ sw'.dec = "stored" <=> sw.dec = "stored"
        /\ sw'.main \in {"load", "upload"} => sw'.main = sw.main
    <3> USE <1>0 DEF SwFields
    <3>1. CASE Sv!StartGame \/ Sv!Allocates \/ Sv!InitSession \/ Sv!StartSession
      BY <3>1 DEF Sv!StartGame, Sv!Allocates, Sv!InitSession, Sv!StartSession, Sv!GiveUp, Sv!Recorded
    <3>2. CASE Sv!InitVideo
      BY <3>2 DEF Sv!InitVideo, Sv!GiveUp, Sv!Recorded, Sv!IsJoinable
    <3>3. CASE Sv!DrawInput
      BY <3>3 DEF Sv!DrawInput
    <3>6. CASE Sv!FiniSession \/ Sv!FreeVideo
      BY <3>6 DEF Sv!FiniSession, Sv!FreeVideo
    <3>4. CASE Sv!EventConnected \/ Sv!EventQuit \/ Sv!VideoCB
      BY <3>4 DEF Sv!EventConnected, Sv!EventQuit, Sv!VideoCB, Sv!Recorded
    <3>5. CASE Sv!VideoDecodeThreadTakes \/ Sv!DecodeNothing
      BY <3>5 DEF Sv!VideoDecodeThreadTakes, Sv!DecodeNothing
    <3> QED
      BY <1>1, <3>1, <3>2, <3>3, <3>4, <3>5, <3>6
  <2> QED
    BY <1>0, <2>1, <2>2, PicIdle
<1>2. ASSUME Sv!InitAVCodec PROVE PicInv'
  <2>1. /\ DOMAIN pic' = DOMAIN pic /\ pic'.p = pic.p /\ pic'.texture = pic.texture /\ pic'.seen = pic.seen
        /\ pic'.index = pic.index /\ pic'.laps = pic.laps
    BY <1>0, <1>2 DEF Sv!InitAVCodec, Sv!SetVideoPacing, PicTypes
  <2>2. sw'.dec = sw.dec /\ sw'.main \notin {"load", "upload"}
    BY <1>0, <1>2 DEF Sv!InitAVCodec, Sv!GiveUp, Sv!Recorded, SwFields
  <2> QED
    BY <1>0, <2>1, <2>2 DEF PicInv, PicTypes, Newest, Chosen, Sv!NextFrame
<1>3. ASSUME Sv!OpenGlDraw PROVE PicInv'
  <2>1. /\ DOMAIN pic' = DOMAIN pic /\ pic'.p = pic.p /\ pic'.texture = pic.texture /\ pic'.seen = pic.p.decoded
        /\ pic'.index = pic.index /\ pic'.laps = pic.laps
    BY <1>0, <1>3 DEF Sv!OpenGlDraw, PicTypes
  <2>2. /\ sw'.dec = sw.dec /\ sw'.main # "upload"
        /\ sw'.main = "load" => pic.p.decoded # pic.p.rendered
    BY <1>0, <1>3 DEF Sv!OpenGlDraw, SwFields
  <2>3. Chosen'
    BY <1>0, <2>1, <2>2 DEF Chosen, PicTypes, Newest
  <2> QED
    BY <1>0, <2>1, <2>2, <2>3 DEF PicInv, PicTypes, Newest, Sv!NextFrame
<1>4. ASSUME Sv!DrawLoads PROVE PicInv'
  <2>1. /\ DOMAIN pic' = DOMAIN pic /\ pic'.p = pic.p /\ pic'.texture = pic.texture /\ pic'.seen = pic.seen
        /\ pic'.index = pic.p.current /\ pic'.laps = 0
    BY <1>0, <1>4 DEF Sv!DrawLoads, PicTypes
  <2>2. sw.main = "load" /\ sw'.dec = sw.dec /\ sw'.main = "upload"
    BY <1>0, <1>4 DEF Sv!DrawLoads, SwFields
  <2>3. pic.p.next = PlaceAfter(pic.p.current, 0 + 1) /\ pic.seen <= pic.p.slot[pic.p.current]
    <3>1. pic.p.current \in 0 .. MAX_FRAME_COUNT - 1 /\ pic.p.decoded > 0 /\ pic.seen <= pic.p.decoded
          /\ pic.p.decoded \in Nat /\ pic.seen \in Nat
      BY <1>0, <2>2 DEF PicTypes, Chosen
    <3>2. pic.p.next = PlaceAfter(pic.p.current, 1)
      BY <1>0, <3>1, NextPlace DEF Newest
    <3>3. pic.p.slot[pic.p.current] >= pic.p.decoded
      BY <1>0, <3>1 DEF Newest
    <3> QED
      BY <1>0, <3>1, <3>2, <3>3 DEF PicTypes
  <2>4. Chosen'
    BY <1>0, <2>1, <2>2, <2>3 DEF Chosen, PlaceAfter
  <2> QED
    BY <1>0, <2>1, <2>2, <2>4 DEF PicInv, PicTypes, Newest, Sv!NextFrame
<1>5. ASSUME Sv!DrawUploads PROVE PicInv'
  <2>1. /\ DOMAIN pic' = DOMAIN pic /\ pic'.texture = pic.p.slot[pic.index] /\ pic'.seen = pic.seen
        /\ pic'.index = pic.index /\ pic'.laps = pic.laps /\ pic'.p = [pic.p EXCEPT !.rendered = pic.seen]
    BY <1>0, <1>5 DEF Sv!DrawUploads, PicTypes
  <2>2. sw.main = "upload" /\ sw'.dec = sw.dec /\ sw'.main = "input"
    BY <1>0, <1>5 DEF Sv!DrawUploads, SwFields
  <2> QED
    BY <1>0, <2>1, <2>2 DEF PicInv, PicTypes, Newest, Chosen, Sv!NextFrame
<1>6. ASSUME Sv!DecodeStores PROVE PicInv'
  <2> DEFINE p == pic.p
             stored == [p EXCEPT !.slot[p.next] = p.decoded + 1, !.current = p.next, !.next = Sv!NextFrame(p.next)]
  <2>1. /\ DOMAIN pic' = DOMAIN pic /\ pic'.texture = pic.texture /\ pic'.seen = pic.seen
        /\ pic'.index = pic.index /\ pic'.laps = (IF sw.main = "upload" THEN pic.laps + 1 ELSE pic.laps)
        /\ pic'.p = stored
    BY <1>0, <1>6 DEF Sv!DecodeStores, PicTypes
  <2>2. sw.dec = "decode" /\ sw'.dec = "stored" /\ sw'.main = sw.main
    BY <1>0, <1>6 DEF Sv!DecodeStores, SwFields
  <2>3. Sv!NextFrame(p.next) = PlaceAfter(p.next, 1) /\ Sv!NextFrame(p.next) \in 0 .. M - 1
    BY <1>0, NextPlace DEF PicTypes
  <2>4. /\ DOMAIN pic'.p = DOMAIN p /\ pic'.p.current = p.next /\ pic'.p.next = Sv!NextFrame(p.next)
        /\ pic'.p.slot = [p.slot EXCEPT ![p.next] = p.decoded + 1]
        /\ pic'.p.decoded = p.decoded /\ pic'.p.rendered = p.rendered
    BY <1>0, <2>1 DEF PicTypes
  <2>5. PicTypes'
    <3>1. pic'.p.slot \in [0 .. M - 1 -> Nat] /\ pic'.laps \in Nat
      <4>1. p.slot \in [0 .. M - 1 -> Nat] /\ p.next \in 0 .. M - 1 /\ p.decoded + 1 \in Nat /\ pic.laps \in Nat
        BY <1>0 DEF PicTypes
      <4> HIDE DEF p
      <4> QED
        BY <2>1, <2>4, <4>1
    <3> QED
      BY <1>0, <2>1, <2>3, <2>4, <3>1 DEF PicTypes
  <2>6. Newest'
    BY <1>0, <2>1, <2>2, <2>4 DEF PicTypes, Newest, Sv!NextFrame
  <2>7. Chosen'
    <3> DEFINE x == pic.index  n == pic.laps  y == p.next
    <3>1. x \in 0 .. M - 1 /\ n \in Nat /\ y \in 0 .. M - 1 /\ p.decoded \in Nat /\ pic.seen \in Nat
      BY <1>0 DEF PicTypes
    <3>2. ASSUME sw.main = "upload", n + 1 < M - 1 PROVE Sv!NextFrame(y) = PlaceAfter(x, n + 1 + 1)
      <4>1. y = PlaceAfter(x, n + 1)
        BY <1>0, <3>1, <3>2 DEF Chosen
      <4> HIDE DEF x, n, y
      <4>2. PlaceAfter(y, 1) = PlaceAfter(x, n + 1 + 1)
        BY <1>0, <3>1, <3>2, <4>1 DEF PlaceAfter
      <4> QED
        BY <2>3, <4>2 DEF y
    <3>3. ASSUME sw.main = "upload" PROVE pic.seen <= pic'.p.slot[x]
      <4>1. pic.seen <= p.decoded /\ pic.seen <= p.slot[x]
        BY <1>0, <3>3 DEF Chosen
      <4>2. p.slot \in [0 .. M - 1 -> Nat] /\ p.next \in 0 .. M - 1
        BY <1>0 DEF PicTypes
      <4>3. pic'.p.slot = [p.slot EXCEPT ![p.next] = p.decoded + 1]
        BY <2>4
      <4> HIDE DEF p, x
      <4> QED
        BY <3>1, <4>1, <4>2, <4>3
    <3>4. sw.main \in {"load", "upload"} => pic.seen <= p.decoded /\ p.decoded > 0
      BY <1>0 DEF Chosen
    <3> QED
      BY <2>1, <2>2, <2>4, <3>1, <3>2, <3>3, <3>4 DEF Chosen, PlaceAfter
  <2> QED
    BY <2>5, <2>6, <2>7 DEF PicInv
<1>7. ASSUME Sv!DecodePublishes PROVE PicInv'
  <2>1. /\ DOMAIN pic' = DOMAIN pic /\ pic'.texture = pic.texture /\ pic'.seen = pic.seen
        /\ pic'.index = pic.index /\ pic'.laps = pic.laps /\ pic'.p = [pic.p EXCEPT !.decoded = pic.p.decoded + 1]
    BY <1>0, <1>7 DEF Sv!DecodePublishes, PicTypes
  <2>2. sw.dec = "stored" /\ sw'.dec = "wait" /\ sw'.main = sw.main
    BY <1>0, <1>7 DEF Sv!DecodePublishes, SwFields
  <2> DEFINE p == pic.p
             r == pic'.p
  <2>3. /\ DOMAIN r = DOMAIN p /\ r.decoded = p.decoded + 1 /\ r.current = p.current /\ r.next = p.next
        /\ r.slot = p.slot /\ r.rendered = p.rendered /\ p.decoded \in Nat /\ p.rendered \in Nat
        /\ p.next = Sv!NextFrame(p.current) /\ p.slot[p.current] = p.decoded + 1
    BY <1>0, <2>1, <2>2 DEF PicTypes, Newest
  <2>4. /\ pic'.p.decoded = pic.p.decoded + 1 /\ pic'.p.current = pic.p.current /\ pic'.p.next = pic.p.next
        /\ pic'.p.slot = pic.p.slot /\ pic'.p.rendered = pic.p.rendered /\ DOMAIN pic'.p = DOMAIN pic.p
    BY <2>3
  <2>5. PicTypes'
    BY <1>0, <2>1, <2>3, <2>4 DEF PicTypes
  <2>6. Newest'
    <3>1. pic'.p.decoded > 0 \/ sw'.dec = "stored" =>
            /\ pic'.p.next = Sv!NextFrame(pic'.p.current)
            /\ pic'.p.slot[pic'.p.current] = pic'.p.decoded + (IF sw'.dec = "stored" THEN 1 ELSE 0)
      BY <2>2, <2>3, <2>4
    <3>2. pic'.p.rendered <= pic'.p.decoded /\ pic'.p.rendered <= pic'.texture
      BY <1>0, <2>1, <2>3, <2>4 DEF Newest
    <3> QED
      BY <3>1, <3>2, Zenon DEF Newest, Sv!NextFrame
  <2>7. Chosen'
    BY <1>0, <2>1, <2>2, <2>3, <2>4 DEF PicTypes, Chosen
  <2> QED
    BY <2>5, <2>6, <2>7 DEF PicInv
<1>8. ASSUME Sv!Freed PROVE PicInv'
  <2>1. /\ DOMAIN pic' = DOMAIN pic /\ pic'.texture = pic.texture /\ pic'.seen = pic.seen
        /\ pic'.index = pic.index /\ pic'.laps = pic.laps /\ pic'.p = Sv!NoPicture
    BY <1>0, <1>8 DEF Sv!Freed, PicTypes
  <2>2. sw'.dec = "none" /\ sw'.main \notin {"load", "upload"}
    BY <1>0, <1>8 DEF Sv!Freed, SwFields
  <2> QED
    BY <1>0, <2>1, <2>2 DEF PicInv, PicTypes, Newest, Chosen, Sv!NoPicture
<1> QED
  BY <1>1, <1>2, <1>3, <1>4, <1>5, <1>6, <1>7, <1>8 DEF Sv!NextStream, Sv!MainThread, Sv!DecodeThread

\* A step of another part leaves the stream alone.
LEMMA StreamStep ==
  ASSUME StreamInv, [Sv!NextStream]_<<sw, pic>>
  PROVE  StreamInv'
<1>1. CASE Sv!NextStream
  BY <1>1, SwStagesStep, SwDecoderStep, PicStep DEF StreamInv, PicInv
<1>2. CASE UNCHANGED <<sw, pic>>
  BY <1>2 DEF StreamInv, SwStages, SwDecoder, PicTypes, Newest, Chosen, Sv!NextFrame
<1> QED
  BY <1>1, <1>2

-----------------------------------------------------------------------------
(* The cloud allocation. *)

CaFields == {"at", "service", "platform", "entitlement", "checked", "scopes", "locale", "key",
             "server_key", "codes", "spec", "sent", "tries", "locked", "port", "waiting",
             "elapsed", "max_wait", "details"}

\* The steps from each of these on.
FromSelect == {"select", "allocate", "ok"}
FromDatacenters == FromSelect \cup {"datacenters"}
FromLock == FromDatacenters \cup {"lock"}
FromAuthorize == FromLock \cup {"authorize"}
FromServerCode == FromAuthorize \cup {"server_code"}
FromClientIds == FromServerCode \cup {"client_ids", "config", "start", "gk_code"}
FromCode == FromClientIds \cup {"code", "session"}
FromToken == FromCode \cup {"token", "check"}
CaPlaces == FromToken \cup {"off", "anon_code", "anon_session", "convert", "failed"}

\* The codes a session must be authorised with.
CodesNeeded(r) == {"gk", "server"} \cup (IF r.service = "psnow" THEN {"ps3"} ELSE {})

\* What the steps before the next one have left in r.
CaSteps(r) ==
  /\ DOMAIN r = CaFields /\ r.at \in CaPlaces
  /\ r.at \in FromToken =>
       r.entitlement # 0 /\ r.platform # "none" /\ (r.service = "psnow" => r.scopes = r.platform)
  /\ r.at \in FromCode => r.checked = r.entitlement
  /\ r.at \in FromServerCode => "gk" \in r.codes
  /\ r.at \in FromAuthorize => CodesNeeded(r) \subseteq r.spec
  /\ r.at \in FromLock => CodesNeeded(r) \subseteq r.sent
  /\ r.at \in FromDatacenters => r.locked
  /\ r.at \in FromSelect => r.port \in Nat \ {0}
  /\ r.at = "ok" => Ca!Required \subseteq r.details

\* The wait is within its limit, which is within the longest.
CaWait(r) ==
  /\ r.elapsed \in Int /\ r.max_wait \in Int
  /\ r.waiting /\ r.at # "failed" => r.elapsed <= r.max_wait /\ r.max_wait <= MaxAllocationWait

\* Both, and the client's key is the server's.
CaInv(r) == CaSteps(r) /\ CaWait(r) /\ r.key = r.server_key
AllocationInv == CaInv(ca)

\* q is r but for the fields F.
Same(q, r, F) == DOMAIN q = CaFields /\ \A x \in CaFields \ F : q[x] = r[x]

\* The step that follows a success.
LEMMA PassFacts ==
  ASSUME NEW r, DOMAIN r = CaFields, NEW next
  PROVE  Same(Ca!Pass(r, next), r, {"at"}) /\ Ca!Pass(r, next).at = next
  BY DEF Ca!Pass, Same, CaFields

\* The answers of the allocation server leave all but the keys alone, and these agree.
LEMMA AnsweredOK ==
  ASSUME CaInv(ca), NEW r \in Ca!Answered(ca)
  PROVE  CaInv(r) /\ Same(r, ca, {"key", "server_key"})
<1>1. CASE r = ca
  BY <1>1 DEF Same, CaInv, CaSteps
<1>2. CASE r # ca
  <2> DEFINE i == (ca.server_key + 1) % 3
  <2>1. r = [ca EXCEPT !.server_key = i, !.key = i]
    BY <1>2 DEF Ca!Answered
  <2> HIDE DEF i
  <2>2. Same(r, ca, {"key", "server_key"}) /\ r.key = r.server_key
    BY <2>1 DEF Same, CaFields, CaInv, CaSteps
  <2> QED
    BY <2>2 DEF Same, CaInv, CaSteps, CaWait, CaFields, CodesNeeded
<1> QED
  BY <1>1, <1>2

\* Giving up keeps what CaInv says.
LEMMA FailOK ==
  ASSUME NEW r, CaInv(r)
  PROVE  CaInv(Ca!Fail(r))
  BY DEF CaInv, CaSteps, CaWait, CaFields, CaPlaces, FromToken, FromCode, FromClientIds, FromServerCode, FromAuthorize, FromLock,
     FromDatacenters, FromSelect, Ca!Fail

\* An allocation not yet begun satisfies its invariant: no step before it, the default wait.
LEMMA AllocationInit == Ca!InitAllocation => AllocationInv
  BY AllocationAssumption DEF Ca!InitAllocation, AllocationInv, CaInv, CaSteps, CaWait, CaFields, CaPlaces, FromToken, FromCode,
     FromClientIds, FromServerCode, FromAuthorize, FromLock, FromDatacenters, FromSelect

\* What the run checks of the allocation is part of its inductive invariant.
LEMMA AllocationFollows == AllocationInv => AllocationIsSound
<1> SUFFICES ASSUME AllocationInv PROVE AllocationIsSound
  OBVIOUS
<1>1. ca.at = "ok" =>
       /\ ca.locked /\ Ca!Required \subseteq ca.details /\ ca.port > 0
       /\ ca.entitlement # 0 /\ ca.checked = ca.entitlement /\ ca.platform # "none"
       /\ {"gk", "server"} \subseteq ca.sent /\ (ca.service = "psnow" => "ps3" \in ca.sent /\ ca.scopes = ca.platform)
  BY DEF AllocationInv, CaInv, CaSteps, CodesNeeded, FromToken, FromCode, FromClientIds, FromServerCode, FromAuthorize, FromLock,
     FromDatacenters, FromSelect
<1>2. ca.waiting /\ ca.at = "allocate" => ca.elapsed <= Ca!Lesser(ca.max_wait, MaxAllocationWait)
  BY AllocationAssumption DEF AllocationInv, CaInv, CaWait, Ca!Lesser
<1> QED
  BY <1>1, <1>2 DEF AllocationInv, CaInv, AllocationIsSound, Ca!AllocationIsSound

\* Each request with its answer keeps the invariant.
LEMMA AllocationStep ==
  ASSUME AllocationInv, [Ca!NextAllocation]_ca
  PROVE  AllocationInv'
<1>0. CaInv(ca) /\ CaInv(Ca!Fail(ca))
  BY FailOK DEF AllocationInv
<1> SUFFICES CaInv(ca')
  BY DEF AllocationInv, CaInv, CaSteps, CaWait, CodesNeeded
<1> USE DEF CaFields, CaPlaces, FromToken, FromCode, FromClientIds, FromServerCode, FromAuthorize, FromLock, FromDatacenters,
            FromSelect
<1>00. DOMAIN ca = CaFields
  BY <1>0 DEF CaInv, CaSteps
<1>1. ASSUME Ca!StartPsnow PROVE CaInv(ca')
  <2>1. Same(ca', ca, {"at", "service"}) /\ ca.at = "off" /\ ca'.at = "anon_code"
    BY <1>00, <1>1 DEF Ca!StartPsnow, Same
  <2> QED
    BY <1>0, <2>1 DEF Same, CaInv, CaSteps, CaWait, CodesNeeded
<1>2. ASSUME Ca!StartPscloud PROVE CaInv(ca')
  <2>1. /\ Same(ca', ca, {"at", "service", "platform", "entitlement", "checked"}) /\ ca.at = "off" /\ ca'.at = "client_ids"
        /\ ca'.service = "pscloud" /\ ca'.platform = "ps5" /\ ca'.entitlement = 1 /\ ca'.checked = 1
    BY <1>00, <1>2 DEF Ca!StartPscloud, Same
  <2> QED
    BY <1>0, <2>1 DEF Same, CaInv, CaSteps, CaWait, CodesNeeded
<1>3. ASSUME Ca!Step0_5b_GetAnonAuthCode PROVE CaInv(ca')
  <2>1. ca.at = "anon_code" /\ (ca' = Ca!Fail(ca) \/ (Same(ca', ca, {"at"}) /\ ca'.at = "anon_session"))
    BY <1>00, <1>3 DEF Ca!Step0_5b_GetAnonAuthCode, Ca!Step, Ca!Pass, Same
  <2> QED
    BY <1>0, <2>1 DEF Same, CaInv, CaSteps, CaWait, CodesNeeded
<1>4. ASSUME Ca!Step0_5c_CreateAnonSession PROVE CaInv(ca')
  <2>1. ca.at = "anon_session" /\ (ca' = Ca!Fail(ca) \/ (Same(ca', ca, {"at", "locale"}) /\ ca'.at = "convert"))
    <3> DEFINE answers == {Ca!Pass([ca EXCEPT !.locale = IF country /\ language THEN "account" ELSE @], "convert") :
                             country \in BOOLEAN, language \in BOOLEAN}
    <3>1. ca.at = "anon_session" /\ ca' \in answers \union {Ca!Fail(ca)}
      BY <1>4, SMT DEF Ca!Step0_5c_CreateAnonSession, Ca!Step
    <3>2. ca' \in answers => \E country \in BOOLEAN, language \in BOOLEAN :
            ca' = Ca!Pass([ca EXCEPT !.locale = IF country /\ language THEN "account" ELSE @], "convert")
      OBVIOUS
    <3> HIDE DEF answers
    <3>3. ca' = Ca!Fail(ca) \/ \E v : ca' = Ca!Pass([ca EXCEPT !.locale = v], "convert")
      BY <3>1, <3>2
    <3>4. ASSUME NEW v, ca' = Ca!Pass([ca EXCEPT !.locale = v], "convert")
          PROVE  Same(ca', ca, {"at", "locale"}) /\ ca'.at = "convert"
      <4>1. Same([ca EXCEPT !.locale = v], ca, {"locale"})
        BY <1>00 DEF Same
      <4> QED
        BY <3>4, <4>1, PassFacts DEF Same
    <3> QED
      BY <3>1, <3>3, <3>4
  <2> QED
    BY <1>0, <2>1 DEF Same, CaInv, CaSteps, CaWait, CodesNeeded
<1>5. ASSUME Ca!Step0_5d_ConvertProductId PROVE CaInv(ca')
  <2>1. /\ ca.at = "convert"
        /\ \/ ca' = Ca!Fail(ca)
           \/ \E e \in {0, 1, 2}, p \in {"ps3", "ps4"} : ca' = Ca!Converted([ca EXCEPT !.platform = p, !.scopes = p], e)
    <3>1. ca.at = "convert" /\ (ca' = Ca!Fail(ca) \/ \E skus \in [default : 0 .. 1, other : {0, 2}], playable \in SUBSET {"PS3", "PS4"} :
            ca' = Ca!Converted([ca EXCEPT !.platform = Ca!Platform(playable), !.scopes = Ca!Platform(playable)],
                               Ca!scan_entitlements(skus)))
      <4>1. PICK skus \in [default : 0 .. 1, other : {0, 2}], playable \in SUBSET {"PS3", "PS4"} :
              Ca!Step("convert", {Ca!Converted([ca EXCEPT !.platform = Ca!Platform(playable), !.scopes = Ca!Platform(playable)],
                                               Ca!scan_entitlements(skus))})
        BY <1>5, Zenon DEF Ca!Step0_5d_ConvertProductId
      <4>2. /\ ca.at = "convert"
            /\ \/ ca' = Ca!Fail(ca)
               \/ ca' = Ca!Converted([ca EXCEPT !.platform = Ca!Platform(playable), !.scopes = Ca!Platform(playable)],
                                     Ca!scan_entitlements(skus))
        BY <4>1, Zenon DEF Ca!Step
      <4> QED
        BY <4>2, Zenon
    <3>2. \A playable : Ca!Platform(playable) \in {"ps3", "ps4"}
      BY DEF Ca!Platform
    <3>3. \A skus \in [default : 0 .. 1, other : {0, 2}] : Ca!scan_entitlements(skus) \in {0, 1, 2}
      BY DEF Ca!scan_entitlements
    <3> QED
      BY <3>1, <3>2, <3>3, Zenon
  <2>2. ASSUME NEW e \in {0, 1, 2}, NEW p \in {"ps3", "ps4"}, ca' = Ca!Converted([ca EXCEPT !.platform = p, !.scopes = p], e)
        PROVE  CaInv(ca')
    <3>1. CASE e = 0
      <4>1. Same(ca', ca, {"at", "platform", "scopes"}) /\ ca'.at = "failed"
        BY <1>00, <2>2, <3>1 DEF Ca!Converted, Ca!Fail, Same
      <4> QED
        BY <1>0, <4>1 DEF Same, CaInv, CaSteps, CaWait, CodesNeeded
    <3>2. CASE e # 0
      <4>1. /\ Same(ca', ca, {"at", "platform", "scopes", "entitlement"}) /\ ca'.at = "token"
            /\ ca'.platform = p /\ ca'.scopes = p /\ ca'.entitlement = e
        BY <1>00, <2>2, <3>2 DEF Ca!Converted, Ca!Pass, Same
      <4> QED
        BY <1>0, <2>1, <3>2, <4>1 DEF Same, CaInv, CaSteps, CaWait, CodesNeeded
    <3> QED
      BY <3>1, <3>2
  <2> QED
    BY <1>0, <2>1, <2>2
<1>6. ASSUME Ca!Step0_5e1_GetCommerceOAuthToken PROVE CaInv(ca')
  <2>1. ca.at = "token" /\ (ca' = Ca!Fail(ca) \/ (Same(ca', ca, {"at"}) /\ ca'.at = "check"))
    BY <1>00, <1>6 DEF Ca!Step0_5e1_GetCommerceOAuthToken, Ca!Step, Ca!Pass, Same
  <2> QED
    BY <1>0, <2>1 DEF Same, CaInv, CaSteps, CaWait, CodesNeeded
<1>7. ASSUME Ca!Step0_5e2_CheckEntitlementExists PROVE CaInv(ca')
  <2>1. ca.at = "check" /\ (ca' = Ca!Fail(ca) \/ (Same(ca', ca, {"at", "checked"}) /\ ca'.at = "code" /\ ca'.checked = ca.entitlement))
    BY <1>00, <1>7 DEF Ca!Step0_5e2_CheckEntitlementExists, Ca!Step, Ca!Pass, Same
  <2> QED
    BY <1>0, <2>1 DEF Same, CaInv, CaSteps, CaWait, CodesNeeded
<1>8. ASSUME Ca!Step5_GetAuthCode PROVE CaInv(ca')
  <2>1. ca.at = "code" /\ (ca' = Ca!Fail(ca) \/ (Same(ca', ca, {"at"}) /\ ca'.at = "session"))
    BY <1>00, <1>8 DEF Ca!Step5_GetAuthCode, Ca!Step, Ca!Pass, Same
  <2> QED
    BY <1>0, <2>1 DEF Same, CaInv, CaSteps, CaWait, CodesNeeded
<1>9. ASSUME Ca!Step6_CreateAuthSession PROVE CaInv(ca')
  <2>1. ca.at = "session" /\ (ca' = Ca!Fail(ca) \/ (Same(ca', ca, {"at"}) /\ ca'.at = "client_ids"))
    BY <1>00, <1>9 DEF Ca!Step6_CreateAuthSession, Ca!Step, Ca!Pass, Same
  <2> QED
    BY <1>0, <2>1 DEF Same, CaInv, CaSteps, CaWait, CodesNeeded
<1>10. ASSUME Ca!Step0_GetClientIds PROVE CaInv(ca')
  <2>1. ca.at = "client_ids" /\ (ca' = Ca!Fail(ca) \/ (Same(ca', ca, {"at", "spec"}) /\ ca'.at = "config"))
    BY <1>00, <1>10 DEF Ca!Step0_GetClientIds, Ca!Step, Ca!Pass, Same, Ca!BuildRequestGameSpec
  <2> QED
    BY <1>0, <2>1 DEF Same, CaInv, CaSteps, CaWait, CodesNeeded
<1>11. ASSUME Ca!Step7_GetConfig PROVE CaInv(ca')
  <2>1. ca.at = "config" /\ (ca' = Ca!Fail(ca) \/ (Same(ca', ca, {"at", "key", "server_key"}) /\ ca'.at = "start" /\ ca'.key = ca'.server_key))
    <3>1. ca.at = "config" /\ (ca' = Ca!Fail(ca) \/ \E n \in 0 .. 1 : ca' = Ca!Pass([ca EXCEPT !.key = n, !.server_key = n], "start"))
      BY <1>11 DEF Ca!Step7_GetConfig, Ca!Step
    <3>2. ASSUME NEW n \in 0 .. 1, ca' = Ca!Pass([ca EXCEPT !.key = n, !.server_key = n], "start")
          PROVE  Same(ca', ca, {"at", "key", "server_key"}) /\ ca'.at = "start" /\ ca'.key = ca'.server_key
      <4> DEFINE q == [ca EXCEPT !.key = n, !.server_key = n]
      <4>1. Same(q, ca, {"key", "server_key"}) /\ q.key = q.server_key
        BY <1>00 DEF Same, CaFields
      <4>2. ca' = Ca!Pass(q, "start")
        BY <3>2
      <4> HIDE DEF q
      <4>3. Same(ca', q, {"at"}) /\ ca'.at = "start"
        BY <4>1, <4>2, PassFacts DEF Same
      <4> QED
        BY <4>1, <4>3 DEF Same, CaFields
    <3> QED
      BY <3>1, <3>2
  <2> QED
    BY <1>0, <2>1 DEF Same, CaInv, CaSteps, CaWait, CodesNeeded
<1>12. ASSUME Ca!Step8a_GetGkAuthCode PROVE CaInv(ca')
  <2>1. ca.at = "gk_code" /\ (ca' = Ca!Fail(ca) \/ (Same(ca', ca, {"at", "codes"}) /\ ca'.at = "server_code" /\ "gk" \in ca'.codes))
    <3> DEFINE q == Ca!PerformOAuthAuthorize(ca, {"gk"})
    <3>1. Same(q, ca, {"codes"}) /\ "gk" \in q.codes
      BY <1>00 DEF Same, CaFields, Ca!PerformOAuthAuthorize
    <3>2. ca.at = "gk_code" /\ (ca' = Ca!Fail(ca) \/ ca' = Ca!Pass(q, "server_code"))
      BY <1>12 DEF Ca!Step8a_GetGkAuthCode, Ca!Step
    <3> HIDE DEF q
    <3>3. ca' = Ca!Pass(q, "server_code") => Same(ca', q, {"at"}) /\ ca'.at = "server_code"
      BY <3>1, PassFacts DEF Same
    <3> QED
      BY <3>1, <3>2, <3>3 DEF Same, CaFields
  <2> QED
    BY <1>0, <2>1 DEF Same, CaInv, CaSteps, CaWait, CodesNeeded
<1>13. ASSUME Ca!Step8b_GetServerAuthCode PROVE CaInv(ca')
  <2>1. ca.at = "server_code" /\ (ca' = Ca!Fail(ca) \/ (Same(ca', ca, {"at", "codes", "spec"}) /\ ca'.at = "authorize" /\ ca'.spec = ca'.codes /\ ca'.codes = ca.codes \union
                (IF ca.service = "pscloud" THEN {"server"} ELSE {"server", "ps3"})))
    <3> DEFINE codes == IF ca.service = "pscloud" THEN {"server"} ELSE {"server", "ps3"}
               authorized == [ca EXCEPT !.codes = ca.codes \union codes]
    <3>1. /\ ca.at = "server_code"
          /\ ca' = Ca!Fail(ca) \/ ca' = [[authorized EXCEPT !.spec = authorized.codes] EXCEPT !.at = "authorize"]
      BY <1>13 DEF Ca!Step8b_GetServerAuthCode, Ca!Step, Ca!Pass, Ca!PerformOAuthAuthorize, Ca!BuildRequestGameSpec
    <3>2. Same(authorized, ca, {"codes"}) /\ authorized.codes = ca.codes \union codes
      BY <1>00 DEF Same
    <3> HIDE DEF authorized
    <3> QED
      BY <3>1, <3>2 DEF Same
  <2> QED
    BY <1>0, <2>1 DEF Same, CaInv, CaSteps, CaWait, CodesNeeded
<1>14. ASSUME Ca!Step8_StartSession PROVE CaInv(ca')
  <2>1. CASE ca' = Ca!Fail(ca)
    BY <1>0, <2>1
  <2>2. CASE ca' # Ca!Fail(ca)
    <3>1. ca.at = "start" /\ \E r \in Ca!Answered(ca) : DOMAIN r = CaFields => Same(ca', r, {"at"}) /\ ca'.at = "gk_code"
      BY <1>14, <2>2 DEF Ca!Step8_StartSession, Ca!Step, Ca!Pass, Same
    <3>2. PICK r \in Ca!Answered(ca) : DOMAIN r = CaFields => Same(ca', r, {"at"}) /\ ca'.at = "gk_code"
      BY <3>1
    <3>3. CaInv(r) /\ Same(r, ca, {"key", "server_key"})
      BY <1>0, AnsweredOK
    <3> QED
      BY <1>0, <3>1, <3>2, <3>3 DEF Same, CaInv, CaSteps, CaWait, CodesNeeded
  <2> QED
    BY <2>1, <2>2
<1>15. ASSUME Ca!Step9_AuthorizeSession PROVE CaInv(ca')
  <2>1. CASE ca' = Ca!Fail(ca)
    BY <1>0, <2>1
  <2>2. CASE ca' # Ca!Fail(ca)
    <3>1. ca.at = "authorize" /\ \E r \in Ca!Answered(ca) : DOMAIN r = CaFields => Same(ca', r, {"at", "sent"}) /\ ca'.at = "lock" /\ ca'.sent = ca.spec
      <4>1. ca.at = "authorize" /\ \E r \in Ca!Answered(ca) : ca' = Ca!Pass([r EXCEPT !.sent = ca.spec], "lock")
        BY <1>15, <2>2 DEF Ca!Step9_AuthorizeSession, Ca!Step
      <4>2. ASSUME NEW r, DOMAIN r = CaFields, ca' = Ca!Pass([r EXCEPT !.sent = ca.spec], "lock")
            PROVE  Same(ca', r, {"at", "sent"}) /\ ca'.at = "lock" /\ ca'.sent = ca.spec
        <5> DEFINE q == [r EXCEPT !.sent = ca.spec]
        <5>1. Same(q, r, {"sent"}) /\ q.sent = ca.spec
          BY <4>2 DEF Same, CaFields
        <5>2. ca' = Ca!Pass(q, "lock")
          BY <4>2
        <5> HIDE DEF q
        <5>3. Same(ca', q, {"at"}) /\ ca'.at = "lock"
          BY <5>1, <5>2, PassFacts DEF Same
        <5> QED
          BY <5>1, <5>3 DEF Same, CaFields
      <4> QED
        BY <4>1, <4>2
    <3>2. PICK r \in Ca!Answered(ca) : DOMAIN r = CaFields => Same(ca', r, {"at", "sent"}) /\ ca'.at = "lock" /\ ca'.sent = ca.spec
      BY <3>1
    <3>3. CaInv(r) /\ Same(r, ca, {"key", "server_key"})
      BY <1>0, AnsweredOK
    <3> QED
      BY <1>0, <3>1, <3>2, <3>3 DEF Same, CaInv, CaSteps, CaWait, CodesNeeded
  <2> QED
    BY <2>1, <2>2
<1>16. ASSUME Ca!Step11_PickDatacenter PROVE CaInv(ca')
  <2>1. CASE ca' = Ca!Fail(ca)
    BY <1>0, <2>1
  <2>2. CASE ca' # Ca!Fail(ca)
    <3>1. ca.at = "datacenters" /\ \E r \in Ca!Answered(ca) : DOMAIN r = CaFields => Same(ca', r, {"at", "port"}) /\ ca'.at = "select" /\ ca'.port = 1
      <4>1. ca.at = "datacenters" /\ \E r \in Ca!Answered(ca) : ca' = Ca!Pass([r EXCEPT !.port = 1], "select")
        BY <1>16, <2>2 DEF Ca!Step11_PickDatacenter, Ca!Step
      <4>2. ASSUME NEW r, DOMAIN r = CaFields, ca' = Ca!Pass([r EXCEPT !.port = 1], "select")
            PROVE  Same(ca', r, {"at", "port"}) /\ ca'.at = "select" /\ ca'.port = 1
        <5> DEFINE q == [r EXCEPT !.port = 1]
        <5>1. Same(q, r, {"port"}) /\ q.port = 1
          BY <4>2 DEF Same, CaFields
        <5>2. ca' = Ca!Pass(q, "select")
          BY <4>2
        <5> HIDE DEF q
        <5>3. Same(ca', q, {"at"}) /\ ca'.at = "select"
          BY <5>1, <5>2, PassFacts DEF Same
        <5> QED
          BY <5>1, <5>3 DEF Same, CaFields
      <4> QED
        BY <4>1, <4>2
    <3>2. PICK r \in Ca!Answered(ca) : DOMAIN r = CaFields => Same(ca', r, {"at", "port"}) /\ ca'.at = "select" /\ ca'.port = 1
      BY <3>1
    <3>3. CaInv(r) /\ Same(r, ca, {"key", "server_key"})
      BY <1>0, AnsweredOK
    <3> QED
      BY <1>0, <3>1, <3>2, <3>3 DEF Same, CaInv, CaSteps, CaWait, CodesNeeded
  <2> QED
    BY <2>1, <2>2
<1>17. ASSUME Ca!Step12_SelectDatacenter PROVE CaInv(ca')
  <2>1. CASE ca' = Ca!Fail(ca)
    BY <1>0, <2>1
  <2>2. CASE ca' # Ca!Fail(ca)
    <3>1. ca.at = "select" /\ \E r \in Ca!Answered(ca) : DOMAIN r = CaFields => Same(ca', r, {"at", "port"}) /\ ca'.at = "allocate" /\ ca'.port \in {r.port, 2, 3}
      <4>1. ca.at = "select" /\ \E r \in Ca!Answered(ca), direct \in {0, 2}, network \in {0, 3} : ca' = Ca!Selected(r, direct, network)
        BY <1>17, <2>2 DEF Ca!Step12_SelectDatacenter, Ca!Step
      <4>2. ASSUME NEW r, NEW direct \in {0, 2}, NEW network \in {0, 3}, ca' = Ca!Selected(r, direct, network), DOMAIN r = CaFields
            PROVE  Same(ca', r, {"at", "port"}) /\ ca'.at = "allocate" /\ ca'.port \in {r.port, 2, 3}
        <5> DEFINE p == IF direct > 0 THEN direct ELSE network
                   port == IF p > 0 THEN p ELSE r.port
        <5>1. ca' = [[r EXCEPT !.port = port] EXCEPT !.at = "allocate"] /\ port \in {r.port, 2, 3}
          <6>1. ca' = [[r EXCEPT !.port = port] EXCEPT !.at = "allocate"]
            BY <4>2 DEF Ca!Selected, Ca!Pass
          <6>2. port \in {r.port, 2, 3}
            BY <4>2
          <6> QED
            BY <6>1, <6>2
        <5> HIDE DEF port
        <5> QED
          BY <4>2, <5>1 DEF Same
      <4> QED
        BY <4>1, <4>2
    <3>2. PICK r \in Ca!Answered(ca) : DOMAIN r = CaFields => Same(ca', r, {"at", "port"}) /\ ca'.at = "allocate" /\ ca'.port \in {r.port, 2, 3}
      BY <3>1
    <3>3. CaInv(r) /\ Same(r, ca, {"key", "server_key"})
      BY <1>0, AnsweredOK
    <3> QED
      BY <1>0, <3>1, <3>2, <3>3 DEF Same, CaInv, CaSteps, CaWait, CodesNeeded
  <2> QED
    BY <2>1, <2>2
<1>18. ASSUME Ca!Step10_LockSession PROVE CaInv(ca')
  <2>1. ca.at = "lock" /\ (ca' = Ca!Fail(ca) \/ \E r \in Ca!Answered(ca) : ca' = Ca!Locked(r) \/ ca' = Ca!NotLocked(r))
    BY <1>18 DEF Ca!Step10_LockSession, Ca!Step
  <2>2. ASSUME NEW r \in Ca!Answered(ca), ca' = Ca!Locked(r) \/ ca' = Ca!NotLocked(r) PROVE CaInv(ca')
    <3>1. CaInv(r) /\ DOMAIN r = CaFields /\ r.at = "lock" /\ CaInv(Ca!Fail(r))
      BY <1>0, <2>1, AnsweredOK, FailOK DEF Same
    <3>2. \/ ca' = Ca!Fail(r)
          \/ Same(ca', r, {"at", "locked"}) /\ ca'.at = "datacenters" /\ ca'.locked
          \/ Same(ca', r, {"tries"})
      BY <2>2, <3>1 DEF Ca!Locked, Ca!NotLocked, Ca!Pass, Same
    <3> QED
      BY <3>1, <3>2 DEF Same, CaInv, CaSteps, CaWait, CodesNeeded
  <2> QED
    BY <1>0, <2>1, <2>2
<1>19. ASSUME Ca!Step13_AllocateSlot PROVE CaInv(ca')
  <2>1. /\ ca.at = "allocate"
        /\ \/ ca' = Ca!Fail(ca)
           \/ \E r \in Ca!Answered(ca) :
                \/ \E estimate \in Estimates, poll \in Polls : ca' = Ca!Queued(r, estimate, poll)
                \/ \E d : ca' = Ca!Slot(r, d)
    BY <1>19 DEF Ca!Step13_AllocateSlot, Ca!Step
  <2>2. ASSUME NEW r \in Ca!Answered(ca), NEW d, ca' = Ca!Slot(r, d) PROVE CaInv(ca')
    <3>1. CaInv(r) /\ DOMAIN r = CaFields /\ r.at = "allocate"
      BY <1>0, <2>1, AnsweredOK DEF Same
    <3>2. Same(ca', r, {"at", "details"}) /\ ca'.details = d /\ ca'.at = (IF Ca!Required \subseteq d THEN "ok" ELSE "failed")
      <4> DEFINE next == IF Ca!Required \subseteq d THEN "ok" ELSE "failed"
      <4>1. ca' = [r EXCEPT !.details = d, !.at = next]
        BY <2>2, Zenon DEF Ca!Slot
      <4> HIDE DEF next
      <4>2. Same(ca', r, {"at", "details"}) /\ ca'.details = d /\ ca'.at = next
        BY <3>1, <4>1 DEF Same, CaFields
      <4> QED
        BY <4>2 DEF next
    <3> QED
      BY <3>1, <3>2 DEF Same, CaInv, CaSteps, CaWait, CodesNeeded
  <2>3. ASSUME NEW r \in Ca!Answered(ca), NEW estimate \in Estimates, NEW poll \in Polls, ca' = Ca!Queued(r, estimate, poll)
        PROVE  CaInv(ca')
    <3> DEFINE q == Ca!StartWaiting(r, estimate)
    <3>1. CaInv(r) /\ DOMAIN r = CaFields /\ r.at = "allocate"
      BY <1>0, <2>1, AnsweredOK DEF Same
    <3>2. Ca!MaxWait(estimate) \in Int /\ Ca!MaxWait(estimate) <= MaxAllocationWait
      BY AllocationAssumption DEF Ca!MaxWait, Ca!Lesser, Ca!ToInt
    <3>3. /\ Same(q, r, {"waiting", "elapsed", "max_wait"}) /\ q.waiting /\ q.elapsed \in Int /\ q.max_wait \in Int
          /\ q.max_wait <= MaxAllocationWait
      <4>1. CASE r.waiting
        BY <3>1, <4>1 DEF Ca!StartWaiting, Same, CaInv, CaWait
      <4>2. CASE ~r.waiting
        <5> DEFINE limit == Ca!MaxWait(estimate)
        <5>1. q = [r EXCEPT !.waiting = TRUE, !.elapsed = 0, !.max_wait = limit]
          BY <4>2 DEF Ca!StartWaiting
        <5> HIDE DEF limit, q
        <5>2. Same(q, r, {"waiting", "elapsed", "max_wait"}) /\ q.waiting = TRUE /\ q.elapsed = 0 /\ q.max_wait = limit
          BY <3>1, <5>1 DEF Same
        <5> QED
          BY <3>2, <5>2 DEF limit
      <4> QED
        BY <4>1, <4>2
    <3>4. CASE q.elapsed >= q.max_wait
      <4>1. Same(ca', q, {"at"}) /\ ca'.at = "failed"
        BY <2>3, <3>3, <3>4 DEF Ca!Queued, Ca!Fail, Same
      <4> QED
        BY <3>1, <3>3, <4>1 DEF Same, CaInv, CaSteps, CaWait, CodesNeeded
    <3>5. CASE q.elapsed < q.max_wait
      <4> DEFINE t == Ca!Lesser(poll, q.max_wait - q.elapsed)
      <4>1. Same(ca', q, {"elapsed"}) /\ ca'.elapsed = q.elapsed + (IF t > 0 THEN t ELSE 1)
        BY <2>3, <3>3, <3>5 DEF Ca!Queued, Ca!Sleep, Same
      <4>2. ca'.elapsed \in Int /\ ca'.elapsed <= q.max_wait
        BY <3>3, <3>5, <4>1, AllocationAssumption DEF Ca!Lesser
      <4> HIDE DEF q, t
      <4> QED
        BY <3>1, <3>3, <4>1, <4>2 DEF Same, CaInv, CaSteps, CaWait, CodesNeeded
    <3> QED
      BY <3>3, <3>4, <3>5
  <2> QED
    BY <1>0, <2>1, <2>2, <2>3
<1> QED
  BY <1>0, <1>1, <1>2, <1>3, <1>4, <1>5, <1>6, <1>7, <1>8, <1>9, <1>10, <1>11, <1>12, <1>13, <1>14, <1>15, <1>16, <1>17, <1>18, <1>19
     DEF Ca!NextAllocation, Ca!Kamaji, Ca!Gaikai

-----------------------------------------------------------------------------
(* Discovery. *)

DvFields == {"owner", "svc", "disc", "oneshot", "stop", "pipe", "hosts", "told", "answers"}
Host == [id : Consoles \cup {"none"}, state : {Dv!chiaki_discovery_srch_response_parse(c) : c \in {200, 620, 404}}, age : Nat]

\* The list: no host twice, none older than it may be, and the callback knows it.
Fresh(hosts) == \A i \in DOMAIN hosts : hosts[i].age <= HostDropPings + (IF i = 1 THEN 1 ELSE 0)
Single(hosts) == \A j, i \in DOMAIN hosts : hosts[j].id = hosts[i].id => j = i
Known(hosts) == [i \in DOMAIN hosts |-> [id |-> hosts[i].id, state |-> hosts[i].state]]
HostList(hosts) == hosts \in Seq(Host) /\ Len(hosts) <= HostsMax /\ Single(hosts) /\ Fresh(hosts)

\* Which threads there are: the service's and the one it starts, or that of a oneshot.
DvLives(r) ==
  /\ DOMAIN r = DvFields /\ r.oneshot \in BOOLEAN
  /\ r.answers \in Nat /\ r.answers <= 1 /\ (r.disc # "over" => r.answers = 0)
  /\ r.owner = "off" => ~r.oneshot /\ r.svc = "none" /\ r.disc = "none"
  /\ r.owner \in {"oneshot", "joinone"} => r.svc = "none"
  /\ r.owner = "gone" => r.svc \in {"none", "over"} /\ r.disc \in {"none", "over"}
  /\ r.svc # "none" => r.owner # "off" /\ ~r.oneshot
  /\ r.svc = "begin" => r.disc = "none"
  /\ r.svc = "over" => r.disc \in {"none", "over"}

DvInv(r) == DvLives(r) /\ HostList(r.hosts) /\ r.told = Known(r.hosts)
DiscoveryInv == DvInv(dv)

\* The list of a seq and its places.
LEMMA ListPlaces ==
  ASSUME NEW hosts \in Seq(Host)
  PROVE  /\ Len(hosts) \in Nat /\ DOMAIN hosts = 1 .. Len(hosts)
         /\ \A i \in DOMAIN hosts : hosts[i] \in Host
  OBVIOUS

\* Discovery starts with no thread and no host, which satisfies DiscoveryInv.
LEMMA DiscoveryInit == Dv!InitDiscovery => DiscoveryInv
<1> SUFFICES ASSUME Dv!InitDiscovery PROVE DiscoveryInv
  OBVIOUS
<1>1. DvLives(dv) /\ dv.hosts = <<>> /\ dv.told = <<>>
  BY DEF Dv!InitDiscovery, DvLives, DvFields
<1>2. HostList(<<>>) /\ Known(<<>>) = <<>>
  BY DiscoveryAssumption DEF HostList, Known, Single, Fresh
<1> QED
  BY <1>1, <1>2 DEF DiscoveryInv, DvInv

\* What the run checks of the discovered hosts is part of their inductive invariant.
LEMMA DiscoveryFollows == DiscoveryInv => HostsAreFresh
<1> SUFFICES ASSUME DiscoveryInv PROVE HostsAreFresh
  OBVIOUS
<1>1. dv.told = Dv!Report(dv).told
  BY DEF DiscoveryInv, DvInv, DvLives, DvFields, Known, Dv!Report
<1> QED
  BY <1>1 DEF DiscoveryInv, DvInv, DvLives, HostList, Single, Fresh, HostsAreFresh, Dv!HostsAreFresh

\* Hosts that moved together are still single and known.
LEMMA MovedList ==
  ASSUME NEW hosts, hosts \in Seq(Host), Len(hosts) <= HostsMax, Single(hosts),
         \A i \in DOMAIN hosts : hosts[i].age <= HostDropPings + 1 + (IF i = 1 THEN 1 ELSE 0),
         NEW n \in 0 .. Len(hosts), NEW from \in [1 .. n -> Dv!Kept(hosts)],
         Dv!MovesTo(Dv!Kept(hosts), n, from)
  PROVE  HostList([i \in 1 .. n |-> hosts[from[i]]])
<1> DEFINE moved == [i \in 1 .. n |-> hosts[from[i]]]
<1>1. /\ Len(hosts) \in Nat /\ n \in Nat /\ n <= Len(hosts) /\ DOMAIN hosts = 1 .. Len(hosts)
      /\ \A i \in DOMAIN hosts : hosts[i] \in Host
  BY ListPlaces
<1>2. \A i \in 1 .. n : from[i] \in DOMAIN hosts /\ from[i] \in Nat \ {0} /\ from[i] \in Dv!Kept(hosts)
  BY <1>1 DEF Dv!Kept
<1>3. moved \in Seq(Host) /\ Len(moved) = n /\ DOMAIN moved = 1 .. n
  BY <1>1, <1>2
<1>4. Single(moved)
  <2> SUFFICES ASSUME NEW j \in 1 .. n, NEW i \in 1 .. n, moved[j].id = moved[i].id PROVE j = i
    BY <1>3 DEF Single
  <2>1. from[j] = from[i]
    BY <1>2 DEF Single
  <2>2. ~(j < i) /\ ~(i < j)
    BY <1>2, <2>1 DEF Dv!MovesTo
  <2> QED
    BY <2>2, <1>1
<1>5. Fresh(moved)
  <2> SUFFICES ASSUME NEW i \in 1 .. n PROVE hosts[from[i]].age <= HostDropPings + (IF i = 1 THEN 1 ELSE 0)
    BY <1>3 DEF Fresh
  <2>0. hosts[from[i]].age \in Nat
    BY <1>1, <1>2 DEF Host
  <2>1. CASE Dv!IsRecent(hosts[from[i]])
    BY <2>0, <2>1, DiscoveryAssumption DEF Dv!IsRecent
  <2>2. CASE ~Dv!IsRecent(hosts[from[i]])
    <3>1. from[i] = 2 /\ ~Dv!IsRecent(hosts[1])
      BY <1>2, <2>2 DEF Dv!Kept
    <3>2. hosts[2].age <= HostDropPings + 1
      BY <1>2, <3>1, DiscoveryAssumption
    <3>3. 1 \notin Dv!Kept(hosts)
      BY <3>1 DEF Dv!Kept
    <3>4. i = 1
      <4>1. \A j \in 1 .. n : from[j] # 1
        BY <1>2, <3>3
      <4>2. ASSUME i # 1 PROVE FALSE
        <5>1. 1 \in 1 .. n /\ 1 < i
          BY <1>1, <4>2
        <5>2. from[1] < from[i]
          BY <5>1 DEF Dv!MovesTo
        <5> QED
          BY <1>2, <3>1, <4>1, <5>1, <5>2
      <4> QED
        BY <4>2
    <3> QED
      BY <3>1, <3>2, <3>4
  <2> QED
    BY <2>1, <2>2
<1> QED
  BY <1>1, <1>3, <1>4, <1>5, DiscoveryAssumption DEF HostList

\* A report makes the list known.
LEMMA ReportOK ==
  ASSUME NEW r, DvLives(r), HostList(r.hosts)
  PROVE  DvInv(Dv!Report(r)) /\ Dv!Report(r).hosts = r.hosts
<1>1. /\ DOMAIN Dv!Report(r) = DvFields /\ \A x \in DvFields \ {"told"} : Dv!Report(r)[x] = r[x]
      /\ Dv!Report(r).told = Known(r.hosts)
  BY DEF DvLives, DvFields, Dv!Report, Known
<1> QED
  BY <1>1 DEF DvInv, DvLives, DvFields

\* A ping, after which every host is one ping older.
LEMMA PingOK ==
  ASSUME DvInv(dv), Dv!discovery_service_ping
  PROVE  DvInv(dv')
<1> DEFINE aged == Dv!Aged(dv.hosts)
           r == [dv EXCEPT !.svc = "check", !.hosts = aged]
<1>1. /\ dv.hosts \in Seq(Host) /\ Len(dv.hosts) <= HostsMax /\ Single(dv.hosts) /\ Fresh(dv.hosts)
      /\ Len(dv.hosts) \in Nat /\ DOMAIN dv.hosts = 1 .. Len(dv.hosts)
      /\ \A i \in DOMAIN dv.hosts : dv.hosts[i] \in Host
  BY ListPlaces DEF DvInv, HostList
<1>2. \A i \in DOMAIN dv.hosts : /\ aged[i] \in Host /\ aged[i].id = dv.hosts[i].id /\ aged[i].state = dv.hosts[i].state
                                 /\ aged[i].age = dv.hosts[i].age + 1 /\ dv.hosts[i].age \in Nat
  <2> SUFFICES ASSUME NEW i \in DOMAIN dv.hosts
               PROVE  /\ aged[i] \in Host /\ aged[i].id = dv.hosts[i].id /\ aged[i].state = dv.hosts[i].state
                      /\ aged[i].age = dv.hosts[i].age + 1 /\ dv.hosts[i].age \in Nat
    OBVIOUS
  <2> DEFINE g == dv.hosts[i]
  <2>1. aged[i] = [g EXCEPT !.age = g.age + 1] /\ g \in Host
    BY <1>1 DEF Dv!Aged
  <2> HIDE DEF aged, g
  <2>2. /\ aged[i] \in Host /\ aged[i].id = g.id /\ aged[i].state = g.state
        /\ aged[i].age = g.age + 1 /\ g.age \in Nat
    BY <2>1 DEF Host
  <2> QED
    BY <2>2 DEF g
<1>3. aged \in Seq(Host) /\ DOMAIN aged = DOMAIN dv.hosts /\ Len(aged) = Len(dv.hosts)
  <2>1. DOMAIN aged = 1 .. Len(dv.hosts) /\ aged = [i \in 1 .. Len(dv.hosts) |-> aged[i]]
    BY <1>1 DEF Dv!Aged
  <2> HIDE DEF aged
  <2>2. aged \in [1 .. Len(dv.hosts) -> Host]
    BY <1>1, <1>2, <2>1
  <2> QED
    BY <1>1, <2>1, <2>2
<1>4. Known(aged) = Known(dv.hosts) /\ Single(aged)
  BY <1>1, <1>2, <1>3 DEF Known, Single
<1>5. \A i \in DOMAIN aged : aged[i].age <= HostDropPings + 1 + (IF i = 1 THEN 1 ELSE 0)
  <2> HIDE DEF aged
  <2> QED
    BY <1>1, <1>2, <1>3, DiscoveryAssumption DEF Fresh
<1> HIDE DEF aged
<1>6. /\ dv.svc = "sleep" /\ DOMAIN r = DvFields /\ r.svc = "check" /\ r.hosts = aged
      /\ \A x \in DvFields \ {"svc", "hosts"} : r[x] = dv[x]
  BY DEF DvInv, DvLives, DvFields, Dv!discovery_service_ping
<1>7. Dv!discovery_service_drop_old_hosts(r)
  BY DEF Dv!discovery_service_ping, aged
<1> HIDE DEF r
<1>8. DvLives(r) /\ r.told = Known(aged)
  BY <1>4, <1>6 DEF DvInv, DvLives, DvFields
<1>9. CASE Dv!Kept(aged) = DOMAIN aged /\ dv' = r
  <2>1. Fresh(aged)
    <3>1. \A i \in DOMAIN aged : Dv!IsRecent(aged[i])
      BY <1>1, <1>3, <1>9 DEF Dv!Kept
    <3> QED
      BY <1>2, <1>3, <3>1, DiscoveryAssumption DEF Fresh, Dv!IsRecent
  <2> QED
    BY <1>1, <1>3, <1>4, <1>6, <1>8, <1>9, <2>1 DEF DvInv, HostList
<1>10. ASSUME NEW n \in 0 .. Len(aged), NEW from \in [1 .. n -> Dv!Kept(aged)], Dv!MovesTo(Dv!Kept(aged), n, from),
              dv' = Dv!Report([r EXCEPT !.hosts = [i \in 1 .. n |-> aged[from[i]]]])
       PROVE  DvInv(dv')
  <2> DEFINE moved == [i \in 1 .. n |-> aged[from[i]]]
             q == [r EXCEPT !.hosts = moved]
  <2>1. HostList(moved)
    BY <1>1, <1>3, <1>4, <1>5, <1>10, MovedList
  <2> HIDE DEF moved
  <2>2. DOMAIN q = DvFields /\ q.hosts = moved /\ \A x \in DvFields \ {"hosts"} : q[x] = r[x]
    BY <1>6 DEF DvFields
  <2>3. dv' = Dv!Report(q)
    BY <1>10 DEF moved
  <2> HIDE DEF q
  <2>4. DvLives(q)
    BY <1>8, <2>2 DEF DvLives, DvFields
  <2> QED
    BY <2>1, <2>2, <2>3, <2>4, ReportOK
<1> QED
  BY <1>6, <1>7, <1>9, <1>10 DEF Dv!discovery_service_drop_old_hosts, Dv!Become

\* An answer: the host is as fresh as can be, or it is a new one, if there is room.
LEMMA ReceivedOK ==
  ASSUME DvInv(dv), NEW id \in Consoles \cup {"none"}, NEW code \in {200, 620, 404},
         Dv!DiscoveryReceives(id, code)
  PROVE  DvInv(dv')
<1> DEFINE state == Dv!chiaki_discovery_srch_response_parse(code)
           h == [id |-> id, state |-> state, age |-> 0]
<1>0. dv' = Dv!discovery_service_host_received(dv, id, state)
  BY DEF Dv!DiscoveryReceives, Dv!Become
<1>1. /\ dv.hosts \in Seq(Host) /\ Len(dv.hosts) <= HostsMax /\ Single(dv.hosts) /\ Fresh(dv.hosts)
      /\ Len(dv.hosts) \in Nat /\ DOMAIN dv.hosts = 1 .. Len(dv.hosts)
      /\ \A i \in DOMAIN dv.hosts : dv.hosts[i] \in Host
      /\ DvLives(dv) /\ dv.told = Known(dv.hosts) /\ DOMAIN dv = DvFields
  BY ListPlaces DEF DvInv, HostList, DvLives
<1>2. h \in Host /\ h.id = id /\ h.state = state /\ h.age = 0
  BY DEF Host
<1> HIDE DEF h, state
<1>3. CASE id = "none" \/ (Dv!Places(dv, id) = {} /\ Len(dv.hosts) = HostsMax)
  BY <1>0, <1>3 DEF Dv!discovery_service_host_received
<1>4. CASE id # "none" /\ Dv!Places(dv, id) # {}
  <2> DEFINE i == CHOOSE j \in Dv!Places(dv, id) : TRUE
             list == [dv.hosts EXCEPT ![i] = h]
             q == [dv EXCEPT !.hosts = list]
  <2>1. i \in DOMAIN dv.hosts /\ dv.hosts[i].id = id
    BY <1>4 DEF Dv!Places
  <2>2. dv' = (IF dv.hosts[i].state = state THEN q ELSE Dv!Report(q))
    BY <1>0, <1>4 DEF Dv!discovery_service_host_received, Dv!Updated, h
  <2> HIDE DEF i
  <2>3. /\ list \in Seq(Host) /\ Len(list) = Len(dv.hosts) /\ DOMAIN list = DOMAIN dv.hosts
        /\ \A j \in DOMAIN list : list[j] = (IF j = i THEN h ELSE dv.hosts[j])
    BY <1>1, <1>2, <2>1
  <2> HIDE DEF list
  <2>4. Single(list)
    BY <1>1, <1>2, <2>1, <2>3 DEF Single
  <2>5. Fresh(list)
    BY <1>1, <1>2, <2>3, DiscoveryAssumption DEF Fresh
  <2>6. HostList(list)
    BY <1>1, <2>3, <2>4, <2>5 DEF HostList
  <2>7. DOMAIN q = DvFields /\ q.hosts = list /\ \A x \in DvFields \ {"hosts"} : q[x] = dv[x]
    BY <1>1 DEF DvFields
  <2> HIDE DEF q
  <2>8. DvLives(q)
    BY <1>1, <2>7 DEF DvLives, DvFields
  <2>9. dv.hosts[i].state = state => Known(list) = Known(dv.hosts)
    <3>1. SUFFICES ASSUME dv.hosts[i].state = state PROVE Known(list) = Known(dv.hosts)
      OBVIOUS
    <3>2. DOMAIN list = DOMAIN dv.hosts /\ \A j \in DOMAIN dv.hosts : list[j].id = dv.hosts[j].id /\ list[j].state = dv.hosts[j].state
      BY <1>2, <2>1, <2>3, <3>1
    <3> QED
      BY <3>2 DEF Known
  <2>10. q.told = dv.told
    BY <2>7 DEF DvFields
  <2> QED
    BY <1>1, <2>2, <2>6, <2>7, <2>8, <2>9, <2>10, ReportOK DEF DvInv
<1>5. CASE id # "none" /\ Dv!Places(dv, id) = {} /\ Len(dv.hosts) # HostsMax
  <2> DEFINE list == Append(dv.hosts, h)
             q == [dv EXCEPT !.hosts = list]
  <2>1. dv' = Dv!Report(q)
    BY <1>0, <1>5 DEF Dv!discovery_service_host_received, h
  <2>2. /\ list \in Seq(Host) /\ Len(list) = Len(dv.hosts) + 1 /\ DOMAIN list = 1 .. Len(dv.hosts) + 1
        /\ \A j \in DOMAIN list : list[j] = (IF j = Len(dv.hosts) + 1 THEN h ELSE dv.hosts[j])
    BY <1>1, <1>2
  <2> HIDE DEF list
  <2>3. \A j \in DOMAIN dv.hosts : dv.hosts[j].id # id
    BY <1>5 DEF Dv!Places
  <2>4. Single(list)
    <3>1. ASSUME NEW j \in DOMAIN list, NEW i \in DOMAIN list, list[j].id = list[i].id, j < i PROVE FALSE
      <4>1. j \in DOMAIN dv.hosts /\ list[j] = dv.hosts[j]
        BY <1>1, <2>2, <3>1
      <4>2. list[i] = h \/ (i \in DOMAIN dv.hosts /\ list[i] = dv.hosts[i])
        BY <1>1, <2>2
      <4> QED
        BY <1>1, <1>2, <2>3, <3>1, <4>1, <4>2 DEF Single
    <3>2. \A j, i \in DOMAIN list : j \in Int /\ i \in Int
      BY <1>1, <2>2
    <3> QED
      BY <3>1, <3>2 DEF Single
  <2>5. Fresh(list)
    BY <1>1, <1>2, <2>2, DiscoveryAssumption DEF Fresh
  <2>6. HostList(list)
    BY <1>1, <1>5, <2>2, <2>4, <2>5, DiscoveryAssumption DEF HostList
  <2>7. DOMAIN q = DvFields /\ q.hosts = list /\ \A x \in DvFields \ {"hosts"} : q[x] = dv[x]
    BY <1>1 DEF DvFields
  <2> HIDE DEF q
  <2>8. DvLives(q)
    BY <1>1, <2>7 DEF DvLives, DvFields
  <2> QED
    BY <2>1, <2>6, <2>7, <2>8, ReportOK
<1> QED
  BY <1>3, <1>4, <1>5

\* Every other step changes only who runs.
LEMMA DiscoveryStep ==
  ASSUME DiscoveryInv, [Dv!NextDiscovery]_dv
  PROVE  DiscoveryInv'
<1>0. DvInv(dv) /\ DOMAIN dv = DvFields /\ DvLives(dv)
  BY DEF DiscoveryInv, DvInv, DvLives
<1> SUFFICES DvInv(dv')
  BY DEF DiscoveryInv, DvInv, DvLives, HostList, Single, Fresh, Known
<1>1. ASSUME DvLives(dv'), dv'.hosts = dv.hosts, dv'.told = dv.told PROVE DvInv(dv')
  BY <1>0, <1>1 DEF DvInv
<1> USE DEF DvLives, DvFields, Dv!Become
<1>2. CASE Dv!chiaki_discovery_service_init \/ Dv!chiaki_discovery_thread_start_oneshot
  <2>1. CASE dv' = [dv EXCEPT !.owner = "gone"]
    BY <1>0, <1>1, <1>2, <2>1 DEF Dv!chiaki_discovery_service_init, Dv!chiaki_discovery_thread_start_oneshot
  <2>2. CASE dv' = [dv EXCEPT !.owner = "run", !.svc = "begin"]
    BY <1>0, <1>1, <1>2, <2>2 DEF Dv!chiaki_discovery_service_init, Dv!chiaki_discovery_thread_start_oneshot
  <2>3. CASE dv' = [dv EXCEPT !.owner = "oneshot", !.disc = "select", !.oneshot = TRUE]
    BY <1>0, <1>1, <1>2, <2>3 DEF Dv!chiaki_discovery_service_init, Dv!chiaki_discovery_thread_start_oneshot
  <2> QED
    BY <1>2, <2>1, <2>2, <2>3 DEF Dv!chiaki_discovery_service_init, Dv!chiaki_discovery_thread_start_oneshot
<1>3. CASE Dv!chiaki_discovery_thread_stop
  <2>1. CASE dv.owner = "oneshot" /\ dv' = [[dv EXCEPT !.pipe = TRUE] EXCEPT !.owner = "joinone"]
    <3>1. /\ DOMAIN dv' = DvFields /\ dv'.owner = "joinone"
          /\ \A x \in DvFields \ {"owner", "pipe"} : dv'[x] = dv[x]
      BY <1>0, <2>1
    <3> QED
      BY <1>0, <1>1, <2>1, <3>1
  <2>2. CASE dv.owner = "joinone" /\ dv.disc = "over" /\ dv' = [dv EXCEPT !.owner = "gone"]
    BY <1>0, <1>1, <2>2
  <2> QED
    BY <1>3, <2>1, <2>2 DEF Dv!chiaki_discovery_thread_stop, Dv!StopThread
<1>4. CASE Dv!SetStop \/ Dv!SignalStop
  <2>1. CASE Dv!SetStop
    BY <1>0, <1>1, <2>1 DEF Dv!SetStop
  <2>2. CASE Dv!SignalStop
    BY <1>0, <1>1, <2>2 DEF Dv!SignalStop
  <2> QED
    BY <1>4, <2>1, <2>2
<1>5. CASE Dv!chiaki_discovery_service_fini
  <2>1. DvLives(dv') /\ dv'.hosts = <<>> /\ dv'.told = <<>>
    BY <1>0, <1>5 DEF Dv!chiaki_discovery_service_fini
  <2>2. HostList(<<>>) /\ Known(<<>>) = <<>>
    BY DiscoveryAssumption DEF HostList, Known, Single, Fresh
  <2> QED
    BY <2>1, <2>2 DEF DvInv
<1>6. CASE Dv!ServiceBegins
  BY <1>0, <1>1, <1>6 DEF Dv!ServiceBegins, Dv!chiaki_discovery_thread_start
<1>7. CASE Dv!ServiceWaits \/ Dv!ServiceStops
  <2>1. CASE Dv!ServiceWaits
    BY <1>0, <1>1, <2>1 DEF Dv!ServiceWaits
  <2>2. CASE dv.svc = "stop" /\ dv' = [[dv EXCEPT !.pipe = TRUE] EXCEPT !.svc = "join"]
    <3>1. /\ DOMAIN dv' = DvFields /\ dv'.svc = "join"
          /\ \A x \in DvFields \ {"svc", "pipe"} : dv'[x] = dv[x]
      BY <1>0, <2>2
    <3> QED
      BY <1>0, <1>1, <2>2, <3>1
  <2>3. CASE dv.svc = "join" /\ dv.disc = "over" /\ dv' = [dv EXCEPT !.svc = "over"]
    BY <1>0, <1>1, <2>3
  <2> QED
    BY <1>7, <2>1, <2>2, <2>3 DEF Dv!ServiceStops, Dv!StopThread
<1>8. CASE Dv!discovery_service_ping
  BY <1>0, <1>8, PingOK
<1>9. CASE Dv!DiscoveryFails \/ Dv!DiscoveryCanceled \/ Dv!OneshotReceives
  <2>1. dv.disc = "select" /\ (dv' = [dv EXCEPT !.disc = "over"] \/ dv' = [dv EXCEPT !.disc = "over", !.answers = dv.answers + 1])
    BY <1>9 DEF Dv!DiscoveryFails, Dv!DiscoveryCanceled, Dv!OneshotReceives
  <2>2. CASE dv' = [dv EXCEPT !.disc = "over"]
    BY <1>0, <1>1, <2>1, <2>2
  <2>3. CASE dv' = [dv EXCEPT !.disc = "over", !.answers = dv.answers + 1]
    <3>1. /\ DOMAIN dv' = DvFields /\ dv'.disc = "over" /\ dv'.answers = dv.answers + 1
          /\ \A x \in DvFields \ {"disc", "answers"} : dv'[x] = dv[x]
      BY <1>0, <2>3
    <3>2. dv.answers = 0
      BY <1>0, <2>1
    <3> QED
      BY <1>0, <1>1, <2>1, <3>1, <3>2
  <2> QED
    BY <2>1, <2>2, <2>3
<1>10. CASE \E id \in Consoles \cup {"none"}, code \in {200, 620, 404} : Dv!DiscoveryReceives(id, code)
  BY <1>0, <1>10, ReceivedOK
<1> QED
  BY <1>0, <1>2, <1>3, <1>4, <1>5, <1>6, <1>7, <1>8, <1>9, <1>10 DEF Dv!NextDiscovery, Dv!ServiceThread

-----------------------------------------------------------------------------
(* Sound and vibration. *)

\* The fields of the record, and what the run checks of it.
SoundRecord ==
             [on : BOOLEAN, device : BOOLEAN, queued : Int, motor : Int, by : {"none", "event", "haptics"},
              haptic_val : Int, haptic_lock : BOOLEAN, recent : BOOLEAN]
SoundInv == snd \in SoundRecord /\ Sr!MotorsAreWatched

\* No motor runs and nothing is queued before the stream begins.
LEMMA SoundInit == Sr!InitSound => SoundInv
  BY SoundAssumption DEF Sr!InitSound, SoundInv, SoundRecord, Sr!MotorsAreWatched

\* Every callback keeps it: haptics that drive a motor take the lock, and the audio frame
\* that gives it up has switched the motor off.
LEMMA SoundStep == ASSUME SoundInv, Sr!NextSound \/ UNCHANGED snd PROVE SoundInv'
<1>0. snd \in SoundRecord
  BY DEF SoundInv
<1> USE SoundAssumption DEF SoundInv, SoundRecord, Sr!MotorsAreWatched
<1>1. CASE Sr!SoundStarts
  BY <1>1 DEF Sr!SoundStarts
<1>2. CASE Sr!InitAudioCB
  BY <1>2 DEF Sr!InitAudioCB
<1>3. CASE Sr!SetRumble
  <2>0. PICK strong \in BOOLEAN : snd' = [snd EXCEPT !.motor = IF strong THEN 1 ELSE 0, !.by = "event"]
    <3> HIDE DEF SoundInv, SoundRecord, Sr!MotorsAreWatched
    <3> QED
      BY <1>3, Zenon DEF Sr!SetRumble, Sr!Vibrate
  <2> DEFINE v == IF strong THEN 1 ELSE 0
  <2>1. v \in Int /\ snd' = [snd EXCEPT !.motor = v, !.by = "event"]
    BY <2>0
  <2> HIDE DEF v
  <2>2. snd'.by = "event" /\ snd'.queued = snd.queued
    BY <2>1
  <2>3. Sr!MotorsAreWatched'
    BY <2>2
  <2>4. (snd \in SoundRecord)'
    <3> HIDE DEF SoundInv, Sr!MotorsAreWatched
    <3> QED
      BY <1>0, <2>1
  <2> QED
    BY <2>3, <2>4
<1>4. CASE Sr!HapticCB
  <2>1. PICK left \in {0, 1, U8}, right \in {0, U8 - 1} :
          snd' = [Sr!SetHapticRumble(snd, left, right) EXCEPT !.haptic_lock = @ \/ left # 0 \/ right # 0]
    BY <1>4 DEF Sr!HapticCB
  <2> DEFINE val == Sr!Larger(left % U8, right % U8)
  <2>2. val \in Int /\ (val > 0 => left # 0 \/ right # 0)
    BY DEF Sr!Larger
  <2>3. snd' = [snd EXCEPT !.motor = val, !.by = "haptics", !.haptic_val = val, !.recent = TRUE,
                           !.haptic_lock = @ \/ left # 0 \/ right # 0]
    BY <2>1 DEF Sr!SetHapticRumble, Sr!Vibrate
  <2> HIDE DEF val
  <2> QED
    BY <2>2, <2>3
<1>5. CASE Sr!HapticsAge
  BY <1>5 DEF Sr!HapticsAge
<1>6. CASE Sr!AudioCB
  <2>1. PICK queues \in BOOLEAN :
          LET q == Sr!Queued(snd)
              r == IF snd.device /\ queues THEN [q EXCEPT !.queued = @ + 1] ELSE q
          IN snd' = IF r.haptic_lock THEN Sr!CleanUpHaptic(r) ELSE r
    BY <1>6 DEF Sr!AudioCB
  <2> DEFINE q == Sr!Queued(snd)
             r == IF snd.device /\ queues THEN [q EXCEPT !.queued = @ + 1] ELSE q
  <2>2. PICK n \in Int : n <= AudioLimit + 1 /\ r = [snd EXCEPT !.queued = n]
    <3>1. PICK m \in Int : m <= AudioLimit /\ q = [snd EXCEPT !.queued = m]
      BY DEF Sr!Queued
    <3>2. CASE snd.device /\ queues
      <4>1. r = [snd EXCEPT !.queued = m + 1]
        BY <3>1, <3>2
      <4> QED
        BY <3>1, <4>1
    <3>3. CASE ~(snd.device /\ queues)
      BY <3>1, <3>3
    <3> QED
      BY <3>2, <3>3
  <2>3. snd' = IF r.haptic_lock THEN Sr!CleanUpHaptic(r) ELSE r
    BY <2>1
  <2> HIDE DEF r
  <2>4. Sr!Larger(0 % U8, 0 % U8) = 0
    BY DEF Sr!Larger
  <2>5. r.haptic_lock = snd.haptic_lock /\ r.haptic_val = snd.haptic_val /\ r.recent = snd.recent
    BY <2>2
  <2>6. CASE ~snd.haptic_lock
    BY <2>2, <2>3, <2>5, <2>6
  <2>7. CASE snd.haptic_lock /\ snd.haptic_val = 0
    <3>1. snd' = [r EXCEPT !.haptic_lock = FALSE]
      BY <2>3, <2>5, <2>7 DEF Sr!CleanUpHaptic
    <3>2. snd' = [snd EXCEPT !.queued = n, !.haptic_lock = FALSE]
      BY <2>2, <3>1
    <3>3. snd'.motor = snd.motor /\ snd'.by = snd.by /\ snd'.queued = n
      BY <3>2
    <3>4. Sr!MotorsAreWatched'
      BY <2>2, <2>7, <3>3
    <3> QED
      BY <2>2, <3>2, <3>4
  <2>8. CASE snd.haptic_lock /\ snd.haptic_val # 0 /\ snd.recent
    <3>1. snd' = r
      BY <2>3, <2>5, <2>8 DEF Sr!CleanUpHaptic
    <3> QED
      BY <2>2, <3>1
  <2>9. CASE snd.haptic_lock /\ snd.haptic_val # 0 /\ ~snd.recent
    <3>1. snd' = [r EXCEPT !.motor = 0, !.by = "haptics", !.haptic_val = 0, !.recent = TRUE, !.haptic_lock = FALSE]
      BY <2>3, <2>4, <2>5, <2>9 DEF Sr!CleanUpHaptic, Sr!SetHapticRumble, Sr!Vibrate
    <3>2. snd'.motor = 0 /\ snd'.queued = n
      BY <2>2, <3>1
    <3>3. Sr!MotorsAreWatched'
      BY <2>2, <3>2
    <3>4. (snd \in SoundRecord)'
      <4> HIDE DEF SoundInv, Sr!MotorsAreWatched
      <4> DEFINE z == 0
      <4>1. z \in Int /\ snd' = [snd EXCEPT !.queued = n, !.motor = z, !.by = "haptics", !.haptic_val = z, !.recent = TRUE, !.haptic_lock = FALSE]
        BY <1>0, <2>2, <3>1
      <4> HIDE DEF z
      <4> QED
        BY <1>0, <2>2, <4>1
    <3> QED
      BY <3>3, <3>4
  <2> QED
    BY <2>6, <2>7, <2>8, <2>9
<1>7. CASE Sr!DevicePlays
  BY <1>7 DEF Sr!DevicePlays
<1>8. CASE UNCHANGED snd
  BY <1>8
<1> QED
  BY <1>1, <1>2, <1>3, <1>4, <1>5, <1>6, <1>7, <1>8 DEF Sr!NextSound

-----------------------------------------------------------------------------
(* The controller. *)

Bits == {"SHARE", "OPTIONS", "L1", "MOON", "TOUCHPAD", "PS"}
TouchState == [buttons : SUBSET Bits, touches : [{0, 1} -> Int], next : Nat]
Modifier == [ps3 : BOOLEAN, minus_held_frames : Int, combo : BOOLEAN, mode : {"NONE", "TAP", "HOLD", "SWIPE"},
             id : Int, frame : Int]
InputRecord == [on : BOOLEAN, st : TouchState, io : Modifier, fingers : [Fingers -> Int], held : SUBSET Ci!Keys,
                exit : BOOLEAN, muted : BOOLEAN, stuck : BOOLEAN, clash : BOOLEAN]

\* The ids that the fingers and the modifier (under None) hold.
TouchUsers == Fingers \cup {Ci!None}
HeldIds(fingers, id) == [o \in TouchUsers |-> IF o = Ci!None THEN id ELSE fingers[o]]

\* The two touches are different, each is held by one, and nobody holds one that is over.
Owned(t, v) ==
  /\ t[0] >= 0 => t[0] # t[1]
  /\ \A i \in {0, 1} : t[i] >= 0 => \E o \in TouchUsers : v[o] = t[i]
  /\ \A o \in TouchUsers : v[o] >= 0 => \E i \in {0, 1} : t[i] = v[o]
  /\ \A o, p \in TouchUsers : v[o] >= 0 /\ v[o] = v[p] => o = p
TouchesOwned(r) == r.clash \/ Owned(r.st.touches, HeldIds(r.fingers, r.io.id))

InputOK(r) == r \in InputRecord /\ TouchesOwned(r) /\ (r.io.mode # "NONE" => r.io.id >= 0)

\* The bits of the keys say no more than the keys that are down, and L1 is on while L is down,
\* until Minus has muted it.
KeysTrue(r) ==
  /\ "SHARE" \in r.st.buttons => "Minus" \in r.held
  /\ "OPTIONS" \in r.st.buttons => "Plus" \in r.held
  /\ "MOON" \in r.st.buttons => "A" \in r.held
  /\ "L1" \in r.st.buttons => "L" \in r.held \/ r.stuck
  /\ "L" \in r.held /\ ~r.muted => "L1" \in r.st.buttons

\* Between two calls.
InputInv ==
  /\ InputOK(ci)
  /\ ci.io.mode = "HOLD" => "Minus" \in ci.held
  /\ Ci!FramesMatter(ci.io) => ci.io.frame < SwipeFrames
  /\ ci.io.ps3 \/ ~ci.on => ci.io.mode = "NONE"
  /\ ~ci.on => ci.io.id < 0
  /\ KeysTrue(ci)
  /\ "PS" \in ci.st.buttons => {"Minus", "Plus"} \subseteq ci.held


\* No touch is a negative number, and no finger's.
LEMMA InputFacts ==
  /\ Ci!None \in Int /\ Ci!None < 0 /\ Ci!Away \in Int /\ Ci!Away < 0
  /\ \A f \in Fingers : f # Ci!None
  BY InputAssumption DEF Ci!None, Ci!Away

\* Which bit each key drives.
LEMMA KeyBits ==
  /\ Ci!Keys = {"Minus", "Plus", "L", "A"}
  /\ Ci!BitOf["Minus"] = "SHARE" /\ Ci!BitOf["Plus"] = "OPTIONS" /\ Ci!BitOf["L"] = "L1" /\ Ci!BitOf["A"] = "MOON"
  BY DEF Ci!Keys, Ci!BitOf

\* A touch that ends is given up by the one who held it.
LEMMA OwnedFreed ==
  ASSUME NEW t \in [{0, 1} -> Int], NEW v \in [TouchUsers -> Int], Owned(t, v),
         NEW i \in {0, 1}, NEW o \in TouchUsers, t[i] = v[o], v[o] >= 0,
         NEW x \in Int, x < 0, NEW y \in Int, y < 0
  PROVE  Owned([t EXCEPT ![i] = y], [v EXCEPT ![o] = x])
  BY DEF Owned

\* A new one goes to one who held none.
LEMMA OwnedTaken ==
  ASSUME NEW t \in [{0, 1} -> Int], NEW v \in [TouchUsers -> Int], Owned(t, v),
         NEW i \in {0, 1}, NEW o \in TouchUsers, t[i] < 0, v[o] < 0,
         NEW n \in Nat, n # t[0], n # t[1]
  PROVE  Owned([t EXCEPT ![i] = n], [v EXCEPT ![o] = n])
  BY DEF Owned

\* Which negative number stands for none does not matter.
LEMMA OwnedNone ==
  ASSUME NEW t \in [{0, 1} -> Int], NEW v \in [TouchUsers -> Int], Owned(t, v),
         NEW o \in TouchUsers, v[o] < 0, NEW x \in Int, x < 0
  PROVE  Owned(t, [v EXCEPT ![o] = x])
  BY DEF Owned

\* The ids held, when a finger's or the modifier's changes.
LEMMA HeldIdsFacts ==
  ASSUME NEW fingers \in [Fingers -> Int], NEW id \in Int
  PROVE  /\ HeldIds(fingers, id) \in [TouchUsers -> Int]
         /\ HeldIds(fingers, id)[Ci!None] = id
         /\ \A f \in Fingers : HeldIds(fingers, id)[f] = fingers[f] /\ f \in TouchUsers
  BY InputFacts DEF HeldIds, TouchUsers

\* The modifier's id is held under None.
LEMMA HeldByModifier ==
  ASSUME NEW fingers, NEW id, NEW x
  PROVE  HeldIds(fingers, x) = [HeldIds(fingers, id) EXCEPT ![Ci!None] = x]
  BY DEF HeldIds, TouchUsers
\* chiaki_controller_state_start_touch takes the first free place, if there is one.
LEMMA StartTouch ==
  ASSUME NEW st \in TouchState
  PROVE  LET u == Ci!chiaki_controller_state_start_touch(st) IN
         /\ u.st \in TouchState /\ u.st.buttons = st.buttons
         /\ \/ u.st.touches = st.touches /\ u.id = Ci!None /\ ~Ci!StartClashes(st)
            \/ \E i \in {0, 1} :
                 /\ st.touches[i] < 0 /\ u.id = st.next
                 /\ u.st.touches = [st.touches EXCEPT ![i] = st.next]
                 /\ ~Ci!StartClashes(st) => st.next # st.touches[0] /\ st.next # st.touches[1]
<1> DEFINE F == Ci!FreeTouches(st)
           u == Ci!chiaki_controller_state_start_touch(st)
<1>1. CASE F = {}
  BY <1>1 DEF Ci!chiaki_controller_state_start_touch, Ci!StartClashes
<1>2. CASE F # {}
  <2> DEFINE i == CHOOSE j \in F : \A l \in F : j <= l
  <2>1. F \subseteq {0, 1} /\ \A j \in F : st.touches[j] < 0
    BY DEF Ci!FreeTouches
  <2>2. \E j \in F : \A l \in F : j <= l
    BY <1>2, <2>1
  <2>3. i \in F
    BY <2>2
  <2>4. u = [st |-> [st EXCEPT !.touches[i] = st.next, !.next = (@ + 1) % TouchIds], id |-> st.next]
    BY <1>2 DEF Ci!chiaki_controller_state_start_touch
  <2> HIDE DEF i
  <2>5. (st.next + 1) % TouchIds \in Nat
    BY InputAssumption DEF TouchState
  <2> DEFINE tt == [st.touches EXCEPT ![i] = st.next]
             nn == (st.next + 1) % TouchIds
             w == [st EXCEPT !.touches = tt, !.next = nn]
  <2>6. tt \in [{0, 1} -> Int] /\ u.st = w /\ u.id = st.next
    BY <2>1, <2>3, <2>4 DEF TouchState
  <2> HIDE DEF tt, nn
  <2>9. w \in TouchState /\ w.buttons = st.buttons /\ w.touches = tt
    BY <2>5, <2>6 DEF TouchState, nn
  <2>7. ~Ci!StartClashes(st) => st.next # st.touches[0] /\ st.next # st.touches[1]
    BY <1>2 DEF Ci!StartClashes
  <2>8. /\ u.id = st.next /\ u.st \in TouchState /\ u.st.buttons = st.buttons
        /\ u.st.touches = [st.touches EXCEPT ![i] = st.next]
    BY <2>6, <2>9 DEF tt
  <2> HIDE DEF w
  <2> QED
    BY <2>1, <2>3, <2>7, <2>8
<1> QED
  BY <1>1, <1>2

\* chiaki_controller_state_stop_touch ends the touch with this id.
LEMMA StopTouch ==
  ASSUME NEW st \in TouchState, NEW id \in Int
  PROVE  LET q == Ci!chiaki_controller_state_stop_touch(st, id) IN
         /\ q \in TouchState /\ q.buttons = st.buttons
         /\ \/ q = st /\ st.touches[0] # id /\ st.touches[1] # id
            \/ \E i \in {0, 1} : st.touches[i] = id /\ q.touches = [st.touches EXCEPT ![i] = Ci!None]
  BY InputFacts DEF Ci!chiaki_controller_state_stop_touch, TouchState

\* What the parts of a call leave alone.
Passes(q, r) == q.on = r.on /\ q.held = r.held /\ q.stuck = r.stuck /\ q.io.ps3 = r.io.ps3

\* A finger that leaves the screen ends its touch.
LEMMA FingerLeaves ==
  ASSUME NEW r, InputOK(r), NEW f \in Fingers
  PROVE  LET q == Ci!LiftFinger(r, f) IN
         InputOK(q) /\ Passes(q, r) /\ q.io = r.io /\ q.st.buttons = r.st.buttons /\ q.muted = r.muted
<1> DEFINE w == IF r.fingers[f] >= 0 THEN Ci!chiaki_controller_state_stop_touch(r.st, r.fingers[f]) ELSE r.st
           g == [r.fingers EXCEPT ![f] = Ci!Away]
           q == [r EXCEPT !.fingers = g, !.st = w]
           v == HeldIds(r.fingers, r.io.id)
<1>1. r \in InputRecord /\ r.st \in TouchState /\ r.io \in Modifier /\ r.fingers \in [Fingers -> Int] /\ r.io.id \in Int
  BY DEF InputOK, InputRecord, Modifier
<1>2. Ci!LiftFinger(r, f) = q
  BY <1>1 DEF Ci!LiftFinger, InputRecord
<1>3. g \in [Fingers -> Int] /\ HeldIds(g, r.io.id) = [v EXCEPT ![f] = Ci!Away] /\ v[f] = r.fingers[f]
      /\ v \in [TouchUsers -> Int] /\ f \in TouchUsers
  <2>1. Ci!Away \in Int
    BY InputFacts
  <2>2. g \in [Fingers -> Int]
    BY <1>1, <2>1
  <2>3. HeldIds(g, r.io.id) = [v EXCEPT ![f] = Ci!Away]
    BY <1>1, InputFacts DEF HeldIds, TouchUsers
  <2> QED
    BY <1>1, <2>2, <2>3, HeldIdsFacts
<1>4. w \in TouchState /\ w.buttons = r.st.buttons
  BY <1>1, StopTouch
<1>5. r.st.touches \in [{0, 1} -> Int]
  BY <1>1 DEF TouchState
<1>6. r.clash \/ Owned(w.touches, HeldIds(g, r.io.id))
  <2> SUFFICES ASSUME ~r.clash PROVE Owned(w.touches, HeldIds(g, r.io.id))
    OBVIOUS
  <2>1. Owned(r.st.touches, v)
    BY DEF InputOK, TouchesOwned
  <2> HIDE DEF v, g
  <2>2. CASE r.fingers[f] >= 0
    <3>1. PICK i \in {0, 1} : r.st.touches[i] = r.fingers[f]
      BY <1>3, <2>1, <2>2 DEF Owned
    <3>2. PICK j \in {0, 1} : r.st.touches[j] = r.fingers[f] /\ w.touches = [r.st.touches EXCEPT ![j] = Ci!None]
      BY <1>1, <2>2, <3>1, StopTouch
    <3>3. r.st.touches[j] = v[f] /\ v[f] >= 0 /\ Ci!None \in Int /\ Ci!None < 0 /\ Ci!Away \in Int /\ Ci!Away < 0
      BY <1>3, <2>2, <3>2, InputFacts
    <3>4. Owned([r.st.touches EXCEPT ![j] = Ci!None], [v EXCEPT ![f] = Ci!Away])
      BY <1>3, <1>5, <2>1, <3>3, OwnedFreed
    <3> QED
      BY <1>3, <3>2, <3>4
  <2>3. CASE ~(r.fingers[f] >= 0)
    <3>1. w = r.st /\ v[f] < 0
      BY <1>1, <1>3, <2>3
    <3>2. Ci!Away \in Int /\ Ci!Away < 0
      BY InputFacts
    <3>3. Owned(r.st.touches, [v EXCEPT ![f] = Ci!Away])
      BY <1>3, <1>5, <2>1, <3>1, <3>2, OwnedNone
    <3> QED
      BY <1>3, <3>1, <3>3
  <2> QED
    BY <2>2, <2>3
<1> HIDE DEF w, g, v
<1>7. q \in InputRecord
  BY <1>1, <1>3, <1>4 DEF InputRecord
<1>8. /\ q.st = w /\ q.io = r.io /\ q.fingers = g /\ q.clash = r.clash /\ q.muted = r.muted
      /\ q.on = r.on /\ q.held = r.held /\ q.stuck = r.stuck
  BY <1>1 DEF InputRecord
<1> HIDE DEF q
<1> QED
  BY <1>2, <1>4, <1>6, <1>7, <1>8 DEF InputOK, TouchesOwned, Passes

\* A finger that comes starts one, if one is free.
LEMMA FingerComes ==
  ASSUME NEW r, InputOK(r), NEW f \in Fingers, r.fingers[f] = Ci!Away
  PROVE  LET q == Ci!PutFinger(r, f) IN
         InputOK(q) /\ Passes(q, r) /\ q.io = r.io /\ q.st.buttons = r.st.buttons /\ q.muted = r.muted
<1> DEFINE u == Ci!chiaki_controller_state_start_touch(r.st)
           g == [r.fingers EXCEPT ![f] = u.id]
           c == (r.clash \/ Ci!StartClashes(r.st))
           q == [r EXCEPT !.fingers = g, !.st = u.st, !.clash = c]
           v == HeldIds(r.fingers, r.io.id)
<1>1. r \in InputRecord /\ r.st \in TouchState /\ r.io \in Modifier /\ r.fingers \in [Fingers -> Int] /\ r.io.id \in Int
      /\ r.st.next \in Nat
  BY DEF InputOK, InputRecord, Modifier, TouchState
<1>2. Ci!PutFinger(r, f) = q
  BY <1>1 DEF Ci!PutFinger, InputRecord
<1>4. u.st \in TouchState /\ u.st.buttons = r.st.buttons /\ u.id \in Int
  <2>1. u.st \in TouchState /\ u.st.buttons = r.st.buttons /\ (u.id = Ci!None \/ u.id = r.st.next)
    BY <1>1, StartTouch
  <2> QED
    BY <1>1, <2>1, InputFacts
<1>3. g \in [Fingers -> Int] /\ HeldIds(g, r.io.id) = [v EXCEPT ![f] = u.id] /\ v[f] < 0
      /\ v \in [TouchUsers -> Int] /\ f \in TouchUsers
  <2> HIDE DEF u
  <2>1. g \in [Fingers -> Int]
    BY <1>1, <1>4
  <2>2. HeldIds(g, r.io.id) = [v EXCEPT ![f] = u.id]
    BY <1>1, InputFacts DEF HeldIds, TouchUsers
  <2>3. v[f] = Ci!Away /\ v \in [TouchUsers -> Int] /\ f \in TouchUsers
    BY <1>1, HeldIdsFacts
  <2> QED
    BY <2>1, <2>2, <2>3, InputFacts
<1>5. r.st.touches \in [{0, 1} -> Int]
  BY <1>1 DEF TouchState
<1>6. c \/ Owned(u.st.touches, HeldIds(g, r.io.id))
  <2> SUFFICES ASSUME ~c PROVE Owned(u.st.touches, HeldIds(g, r.io.id))
    OBVIOUS
  <2>1. Owned(r.st.touches, v)
    BY DEF InputOK, TouchesOwned
  <2> HIDE DEF v, g
  <2>2. CASE u.st.touches = r.st.touches /\ u.id = Ci!None
    <3>1. Ci!None \in Int /\ Ci!None < 0
      BY InputFacts
    <3>2. Owned(r.st.touches, [v EXCEPT ![f] = Ci!None])
      BY <1>3, <1>5, <2>1, <3>1, OwnedNone
    <3> QED
      BY <1>3, <2>2, <3>2
  <2>3. CASE \E i \in {0, 1} : /\ r.st.touches[i] < 0 /\ u.id = r.st.next
                               /\ u.st.touches = [r.st.touches EXCEPT ![i] = r.st.next]
                               /\ r.st.next # r.st.touches[0] /\ r.st.next # r.st.touches[1]
    <3>1. PICK i \in {0, 1} : /\ r.st.touches[i] < 0 /\ u.id = r.st.next
                              /\ u.st.touches = [r.st.touches EXCEPT ![i] = r.st.next]
                              /\ r.st.next # r.st.touches[0] /\ r.st.next # r.st.touches[1]
      BY <2>3
    <3>2. Owned([r.st.touches EXCEPT ![i] = r.st.next], [v EXCEPT ![f] = r.st.next])
      BY <1>1, <1>3, <1>5, <2>1, <3>1, OwnedTaken
    <3> QED
      BY <1>3, <3>1, <3>2
  <2> QED
    BY <1>1, <2>2, <2>3, StartTouch
<1> HIDE DEF u, g, v
<1>9. c \in BOOLEAN
  BY <1>1 DEF InputRecord
<1> HIDE DEF c
<1>7. q \in InputRecord
  BY <1>1, <1>3, <1>4, <1>9 DEF InputRecord
<1>8. /\ q.st = u.st /\ q.io = r.io /\ q.fingers = g /\ q.clash = c /\ q.muted = r.muted
      /\ q.on = r.on /\ q.held = r.held /\ q.stuck = r.stuck
  BY <1>1 DEF InputRecord
<1> HIDE DEF q
<1> QED
  BY <1>2, <1>4, <1>6, <1>7, <1>8 DEF InputOK, TouchesOwned, Passes

\* The modifier's touch ends.
LEMMA SyntheticStops ==
  ASSUME NEW r, InputOK(r)
  PROVE  LET w == IF r.io.id >= 0 THEN Ci!chiaki_controller_state_stop_touch(r.st, r.io.id) ELSE r.st IN
         /\ w \in TouchState /\ w.buttons = r.st.buttons
         /\ r.clash \/ Owned(w.touches, HeldIds(r.fingers, Ci!None))
<1> DEFINE w == IF r.io.id >= 0 THEN Ci!chiaki_controller_state_stop_touch(r.st, r.io.id) ELSE r.st
           v == HeldIds(r.fingers, r.io.id)
<1>1. r.st \in TouchState /\ r.fingers \in [Fingers -> Int] /\ r.io.id \in Int /\ r.st.touches \in [{0, 1} -> Int]
  BY DEF InputOK, InputRecord, Modifier, TouchState
<1>2. w \in TouchState /\ w.buttons = r.st.buttons
  BY <1>1, StopTouch
<1>3. /\ HeldIds(r.fingers, Ci!None) = [v EXCEPT ![Ci!None] = Ci!None] /\ v[Ci!None] = r.io.id
      /\ v \in [TouchUsers -> Int] /\ Ci!None \in TouchUsers /\ Ci!None \in Int /\ Ci!None < 0
  <2>1. HeldIds(r.fingers, Ci!None) = [v EXCEPT ![Ci!None] = Ci!None]
    BY DEF HeldIds, TouchUsers
  <2>2. v[Ci!None] = r.io.id /\ v \in [TouchUsers -> Int]
    BY <1>1, HeldIdsFacts
  <2>3. Ci!None \in TouchUsers
    BY DEF TouchUsers
  <2> QED
    BY <2>1, <2>2, <2>3, InputFacts
<1>4. ASSUME ~r.clash PROVE Owned(w.touches, HeldIds(r.fingers, Ci!None))
  <2>1. Owned(r.st.touches, v)
    BY <1>4 DEF InputOK, TouchesOwned
  <2> HIDE DEF v
  <2>2. CASE r.io.id >= 0
    <3>1. PICK i \in {0, 1} : r.st.touches[i] = r.io.id
      BY <1>3, <2>1, <2>2 DEF Owned
    <3>2. PICK j \in {0, 1} : r.st.touches[j] = r.io.id /\ w.touches = [r.st.touches EXCEPT ![j] = Ci!None]
      BY <1>1, <2>2, <3>1, StopTouch
    <3>3. r.st.touches[j] = v[Ci!None] /\ v[Ci!None] >= 0
      BY <1>3, <2>2, <3>2
    <3>4. Owned([r.st.touches EXCEPT ![j] = Ci!None], [v EXCEPT ![Ci!None] = Ci!None])
      BY <1>1, <1>3, <2>1, <3>3, OwnedFreed
    <3> QED
      BY <1>3, <3>2, <3>4
  <2>3. CASE ~(r.io.id >= 0)
    <3>1. w = r.st /\ v[Ci!None] < 0
      BY <1>1, <1>3, <2>3
    <3>2. Owned(r.st.touches, [v EXCEPT ![Ci!None] = Ci!None])
      BY <1>1, <1>3, <2>1, <3>1, OwnedNone
    <3> QED
      BY <1>3, <3>1, <3>2
  <2> QED
    BY <2>2, <2>3
<1> QED
  BY <1>2, <1>4

\* StartSyntheticTouch: the modifier gives its touch up for a new one, if one is free.
LEMMA SyntheticStarts ==
  ASSUME NEW r, InputOK(r), NEW md \in {"TAP", "HOLD", "SWIPE"}
  PROVE  LET q == Ci!StartSyntheticTouch(r, md) IN
         /\ InputOK(q) /\ Passes(q, r) /\ q.st.buttons = r.st.buttons /\ q.muted = r.muted
         /\ q.io.mode \in {"NONE", md}
<1> DEFINE w == IF r.io.id >= 0 THEN Ci!chiaki_controller_state_stop_touch(r.st, r.io.id) ELSE r.st
           a == [r EXCEPT !.st = w]
           u == Ci!chiaki_controller_state_start_touch(w)
           z == IF u.id < 0 THEN "NONE" ELSE md
           y == 0
           o == [r.io EXCEPT !.id = u.id, !.frame = y, !.mode = z]
           c == (r.clash \/ Ci!StartClashes(w))
           q == [r EXCEPT !.st = u.st, !.clash = c, !.io = o]
           v == HeldIds(r.fingers, Ci!None)
<1>1. /\ r \in InputRecord /\ r.fingers \in [Fingers -> Int] /\ r.io \in Modifier /\ r.clash \in BOOLEAN
  BY DEF InputOK, InputRecord
<1>2. w \in TouchState /\ w.buttons = r.st.buttons /\ (r.clash \/ Owned(w.touches, v))
  BY SyntheticStops
<1>3. Ci!StartSyntheticTouch(r, md) = q
  <2>1. (IF r.io.id >= 0 THEN Ci!StopSynthetic(r) ELSE r) = a
    BY <1>1 DEF Ci!StopSynthetic, InputRecord
  <2>2. a.st = w /\ a.clash = r.clash /\ a.io = r.io
    BY <1>1 DEF InputRecord
  <2>3. [a EXCEPT !.st = u.st, !.clash = @ \/ Ci!StartClashes(w), !.io = [@ EXCEPT !.id = u.id, !.frame = 0, !.mode = z]]
        = [r EXCEPT !.st = u.st, !.clash = @ \/ Ci!StartClashes(w), !.io = [@ EXCEPT !.id = u.id, !.frame = 0, !.mode = z]]
    <3> HIDE DEF w, u, z
    <3> QED
      BY <1>1 DEF InputRecord
  <2> HIDE DEF w, a
  <2>4. Ci!StartSyntheticTouch(r, md)
        = [a EXCEPT !.st = u.st, !.clash = @ \/ Ci!StartClashes(w), !.io = [@ EXCEPT !.id = u.id, !.frame = 0, !.mode = z]]
    BY <2>1, <2>2 DEF Ci!StartSyntheticTouch
  <2> HIDE DEF u, z
  <2>5. q = [r EXCEPT !.st = u.st, !.clash = @ \/ Ci!StartClashes(w), !.io = [@ EXCEPT !.id = u.id, !.frame = 0, !.mode = z]]
    BY <1>1 DEF InputRecord, Modifier
  <2> QED
    BY <2>3, <2>4, <2>5
<1> HIDE DEF w
<1>4. w.next \in Nat /\ w.touches \in [{0, 1} -> Int]
  BY <1>2 DEF TouchState
<1>5. u.st \in TouchState /\ u.st.buttons = r.st.buttons /\ u.id \in Int
  <2>1. u.st \in TouchState /\ u.st.buttons = w.buttons /\ (u.id = Ci!None \/ u.id = w.next)
    BY <1>2, StartTouch
  <2> QED
    BY <1>2, <1>4, <2>1, InputFacts
<1>6. /\ HeldIds(r.fingers, u.id) = [v EXCEPT ![Ci!None] = u.id] /\ v[Ci!None] < 0
      /\ v \in [TouchUsers -> Int] /\ Ci!None \in TouchUsers /\ Ci!None \in Int /\ Ci!None < 0
  <2> HIDE DEF u
  <2>0. Ci!None \in Int /\ Ci!None < 0
    BY InputFacts
  <2>1. HeldIds(r.fingers, u.id) = [v EXCEPT ![Ci!None] = u.id]
    BY DEF HeldIds, TouchUsers
  <2>2. v[Ci!None] = Ci!None /\ v \in [TouchUsers -> Int]
    BY <1>1, <2>0, HeldIdsFacts
  <2>3. Ci!None \in TouchUsers
    BY DEF TouchUsers
  <2> QED
    BY <2>0, <2>1, <2>2, <2>3
<1>7. ASSUME ~c PROVE Owned(u.st.touches, HeldIds(r.fingers, u.id))
  <2>1. Owned(w.touches, v)
    BY <1>2, <1>7
  <2> HIDE DEF v
  <2>2. CASE u.st.touches = w.touches /\ u.id = Ci!None
    <3>1. Owned(w.touches, [v EXCEPT ![Ci!None] = Ci!None])
      BY <1>4, <1>6, <2>1, OwnedNone
    <3> QED
      BY <1>6, <2>2, <3>1
  <2>3. CASE \E i \in {0, 1} : /\ w.touches[i] < 0 /\ u.id = w.next
                               /\ u.st.touches = [w.touches EXCEPT ![i] = w.next]
                               /\ w.next # w.touches[0] /\ w.next # w.touches[1]
    <3>1. PICK i \in {0, 1} : /\ w.touches[i] < 0 /\ u.id = w.next
                              /\ u.st.touches = [w.touches EXCEPT ![i] = w.next]
                              /\ w.next # w.touches[0] /\ w.next # w.touches[1]
      BY <2>3
    <3>2. Owned([w.touches EXCEPT ![i] = w.next], [v EXCEPT ![Ci!None] = w.next])
      BY <1>4, <1>6, <2>1, <3>1, OwnedTaken
    <3> QED
      BY <1>6, <3>1, <3>2
  <2> QED
    BY <1>2, <1>7, <2>2, <2>3, StartTouch
<1>8. z \in {"NONE", md} /\ (z # "NONE" => u.id >= 0) /\ y \in Int
  BY <1>5
<1> HIDE DEF u, z, y, v
<1>9. c \in BOOLEAN
  BY <1>1
<1>10. o \in Modifier /\ o.ps3 = r.io.ps3 /\ o.id = u.id /\ o.mode = z
  BY <1>1, <1>5, <1>8 DEF Modifier
<1> HIDE DEF c, o
<1>11. q \in InputRecord
  BY <1>1, <1>5, <1>9, <1>10 DEF InputRecord
<1>12. /\ q.st = u.st /\ q.io = o /\ q.fingers = r.fingers /\ q.clash = c /\ q.muted = r.muted
       /\ q.on = r.on /\ q.held = r.held /\ q.stuck = r.stuck
  BY <1>1 DEF InputRecord
<1> HIDE DEF q
<1> QED
  BY <1>3, <1>5, <1>7, <1>8, <1>10, <1>11, <1>12 DEF InputOK, TouchesOwned, Passes

\* Only the buttons change.
LEMMA ButtonsChange ==
  ASSUME NEW r, InputOK(r), NEW b \in SUBSET Bits
  PROVE  LET q == [r EXCEPT !.st.buttons = b] IN
         InputOK(q) /\ Passes(q, r) /\ q.st.buttons = b /\ q.io = r.io /\ q.fingers = r.fingers /\ q.muted = r.muted
<1> DEFINE w == [r.st EXCEPT !.buttons = b]
           q == [r EXCEPT !.st = w]
<1>1. r \in InputRecord /\ r.st \in TouchState
  BY DEF InputOK, InputRecord
<1>2. [r EXCEPT !.st.buttons = b] = q
  BY <1>1 DEF InputRecord
<1>3. w \in TouchState /\ w.buttons = b /\ w.touches = r.st.touches
  BY <1>1 DEF TouchState
<1> HIDE DEF w
<1>4. q \in InputRecord
  BY <1>1, <1>3 DEF InputRecord
<1>5. /\ q.st = w /\ q.io = r.io /\ q.fingers = r.fingers /\ q.clash = r.clash /\ q.muted = r.muted
      /\ q.on = r.on /\ q.held = r.held /\ q.stuck = r.stuck
  BY <1>1 DEF InputRecord
<1> HIDE DEF q
<1> QED
  BY <1>2, <1>3, <1>4, <1>5 DEF InputOK, TouchesOwned, Passes

\* Only counters and flags of the modifier change.
LEMMA ModifierChange ==
  ASSUME NEW r, InputOK(r), NEW o \in Modifier, o.id = r.io.id, o.mode = r.io.mode, o.ps3 = r.io.ps3
  PROVE  LET q == [r EXCEPT !.io = o] IN
         InputOK(q) /\ Passes(q, r) /\ q.st = r.st /\ q.io = o /\ q.muted = r.muted
<1> DEFINE q == [r EXCEPT !.io = o]
<1>1. r \in InputRecord
  BY DEF InputOK
<1>2. q \in InputRecord
  BY <1>1 DEF InputRecord
<1>3. /\ q.st = r.st /\ q.io = o /\ q.fingers = r.fingers /\ q.clash = r.clash /\ q.muted = r.muted
      /\ q.on = r.on /\ q.held = r.held /\ q.stuck = r.stuck
  BY <1>1 DEF InputRecord
<1>4. InputOK(q) /\ Passes(q, r) /\ q.st = r.st /\ q.io = o /\ q.muted = r.muted
  <2> HIDE DEF q
  <2> QED
    BY <1>2, <1>3 DEF InputOK, TouchesOwned, Passes
<1> QED
  BY <1>4

\* The modifier's touch ends with its mode.
LEMMA SyntheticEnds ==
  ASSUME NEW r, InputOK(r), r.io.id >= 0
  PROVE  LET q == Ci!EndSynthetic(r) IN
         /\ InputOK(q) /\ Passes(q, r) /\ q.st.buttons = r.st.buttons \ {"TOUCHPAD"} /\ q.muted = r.muted
         /\ q.io.mode = "NONE"
<1> DEFINE w == Ci!chiaki_controller_state_stop_touch(r.st, r.io.id)
           x == [w EXCEPT !.buttons = r.st.buttons \ {"TOUCHPAD"}]
           o == [r.io EXCEPT !.id = Ci!None, !.mode = "NONE"]
           q == [r EXCEPT !.st = x, !.io = o]
<1>1. r \in InputRecord /\ r.io \in Modifier /\ r.st.buttons \in SUBSET Bits
  BY DEF InputOK, InputRecord, TouchState
<1>2. w \in TouchState /\ w.buttons = r.st.buttons /\ (r.clash \/ Owned(w.touches, HeldIds(r.fingers, Ci!None)))
  BY SyntheticStops
<1>3. Ci!EndSynthetic(r) = q
  <2>1. Ci!StopSynthetic(r) = [r EXCEPT !.st = w]
    BY <1>1 DEF Ci!StopSynthetic, InputRecord
  <2> DEFINE a == [r EXCEPT !.st = w]
  <2> HIDE DEF w
  <2>2. a.st = w /\ a.io = r.io /\ a.st.buttons = r.st.buttons
    BY <1>1, <1>2 DEF InputRecord
  <2>3. [a EXCEPT !.st.buttons = @ \ {"TOUCHPAD"}, !.io = [@ EXCEPT !.id = Ci!None, !.mode = "NONE"]] = [a EXCEPT !.st = x, !.io = o]
    <3> HIDE DEF a
    <3> QED
      BY <2>2
  <2>4. [a EXCEPT !.st = x, !.io = o] = q
    <3> HIDE DEF x, o
    <3> QED
      BY <1>1 DEF InputRecord
  <2> HIDE DEF a, q
  <2> QED
    BY <2>1, <2>3, <2>4 DEF Ci!EndSynthetic, a
<1>4. x \in TouchState /\ x.touches = w.touches /\ x.buttons = r.st.buttons \ {"TOUCHPAD"}
  <2> HIDE DEF w
  <2> QED
    BY <1>1, <1>2 DEF TouchState
<1>5. o \in Modifier /\ o.ps3 = r.io.ps3 /\ o.id = Ci!None /\ o.mode = "NONE"
  BY <1>1, InputFacts DEF Modifier
<1> HIDE DEF w, x, o
<1>6. q \in InputRecord
  BY <1>1, <1>4, <1>5 DEF InputRecord
<1>7. /\ q.st = x /\ q.io = o /\ q.fingers = r.fingers /\ q.clash = r.clash /\ q.muted = r.muted
      /\ q.on = r.on /\ q.held = r.held /\ q.stuck = r.stuck
  BY <1>1 DEF InputRecord
<1> HIDE DEF q
<1> QED
  BY <1>2, <1>3, <1>4, <1>5, <1>6, <1>7 DEF InputOK, TouchesOwned, Passes

\* ReadGameTouchScreen: the fingers and the touchpad's button, nothing else.
LEMMA TouchScreenRead ==
  ASSUME NEW r, InputOK(r), NEW f
  PROVE  LET q == Ci!ReadGameTouchScreen(r, f) IN
         /\ InputOK(q) /\ Passes(q, r) /\ q.io = r.io /\ q.muted = r.muted
         /\ \A b \in Bits \ {"TOUCHPAD"} : b \in q.st.buttons <=> b \in r.st.buttons
<1> DEFINE a == IF f \notin Fingers THEN r ELSE IF r.fingers[f] # Ci!Away THEN Ci!LiftFinger(r, f) ELSE Ci!PutFinger(r, f)
           pressed == \E g \in BorderFingers : a.fingers[g] # Ci!Away
           b1 == IF pressed THEN a.st.buttons \cup {"TOUCHPAD"} ELSE a.st.buttons \ {"TOUCHPAD"}
<1>1. InputOK(a) /\ Passes(a, r) /\ a.io = r.io /\ a.st.buttons = r.st.buttons /\ a.muted = r.muted
  <2>1. CASE f \notin Fingers
    BY <2>1 DEF Passes
  <2>2. CASE f \in Fingers /\ r.fingers[f] # Ci!Away
    BY <2>2, FingerLeaves
  <2>3. CASE f \in Fingers /\ r.fingers[f] = Ci!Away
    BY <2>3, FingerComes
  <2> QED
    BY <2>1, <2>2, <2>3
<1>2. Ci!ReadGameTouchScreen(r, f) = [a EXCEPT !.st.buttons = b1]
  BY DEF Ci!ReadGameTouchScreen
<1> HIDE DEF a
<1>3. a.st.buttons \in SUBSET Bits
  BY <1>1 DEF InputOK, InputRecord, TouchState
<1>4. b1 \in SUBSET Bits /\ \A b \in Bits \ {"TOUCHPAD"} : b \in b1 <=> b \in a.st.buttons
  BY <1>3 DEF Bits
<1> HIDE DEF b1
<1> DEFINE q == [a EXCEPT !.st.buttons = b1]
<1>5. InputOK(q) /\ Passes(q, a) /\ q.st.buttons = b1 /\ q.io = a.io /\ q.muted = a.muted
  BY <1>1, <1>4, ButtonsChange
<1> HIDE DEF q
<1>6. InputOK(q) /\ Passes(q, r) /\ q.io = r.io /\ q.muted = r.muted
      /\ \A b \in Bits \ {"TOUCHPAD"} : b \in q.st.buttons <=> b \in r.st.buttons
  BY <1>1, <1>4, <1>5 DEF Passes
<1> QED
  BY <1>2, <1>6 DEF q

\* The modifier while Minus is down: keys held with it are muted, PS is Plus, and touches are
\* started.
LEMMA MinusIsHeld ==
  ASSUME NEW r, InputOK(r), NEW held \in SUBSET Ci!Keys, NEW down \in SUBSET Ci!Keys
  PROVE  LET q == Ci!MinusHeld(r, held, down) IN
         /\ InputOK(q) /\ Passes(q, r)
         /\ "Minus" \notin held => q = r
         /\ "Minus" \in held =>
              /\ q.st.buttons \subseteq r.st.buttons \cup {"PS"}
              /\ "PS" \in q.st.buttons => "Plus" \in held
              /\ "L" \in held => q.muted
<1>1. CASE "Minus" \notin held
  BY <1>1 DEF Ci!MinusHeld, Passes
<1>2. CASE "Minus" \in held
  <2> DEFINE n == Ci!CountFrame(r.io.minus_held_frames)
             o == [r.io EXCEPT !.minus_held_frames = n]
             a == [r EXCEPT !.io = o]
             b1 == a.st.buttons \ {Ci!BitOf[x] : x \in held \cap {"L", "A"}}
             m == (a.muted \/ "L" \in held)
             b == Ci!Muted(a, held)
             c == Ci!Combo(b, down)
             b2 == IF "Plus" \in held THEN (c.st.buttons \ {"OPTIONS"}) \cup {"PS"} ELSE c.st.buttons \ {"PS"}
             d == Ci!Home(c, held)
             q == Ci!Hold(d)
  <2>0. r \in InputRecord /\ r.io \in Modifier /\ r.io.minus_held_frames \in Int
    BY DEF InputOK, InputRecord, Modifier
  <2>1. InputOK(a) /\ Passes(a, r) /\ a.st = r.st
    <3>1. n \in Int
      BY <2>0 DEF Ci!CountFrame
    <3> HIDE DEF n
    <3>2. o \in Modifier /\ o.id = r.io.id /\ o.mode = r.io.mode /\ o.ps3 = r.io.ps3
      BY <2>0, <3>1 DEF Modifier
    <3> HIDE DEF o
    <3> QED
      BY <3>2, ModifierChange
  <2>2. Ci!MinusHeld(r, held, down) = q
    <3>1. [r EXCEPT !.io.minus_held_frames = Ci!CountFrame(@)] = a
      BY <2>0 DEF InputRecord
    <3> HIDE DEF a
    <3> QED
      BY <1>2, <3>1 DEF Ci!MinusHeld
  <2> HIDE DEF a
  <2>3. a.st.buttons \in SUBSET Bits /\ a \in InputRecord /\ a.muted \in BOOLEAN
    BY <2>1 DEF InputOK, InputRecord, TouchState
  <2>4. InputOK(b) /\ Passes(b, r) /\ b.st.buttons \subseteq r.st.buttons /\ ("L" \in held => b.muted)
    <3> DEFINE e == [a EXCEPT !.st.buttons = b1]
    <3>1. b1 \in SUBSET Bits /\ b1 \subseteq a.st.buttons
      BY <2>3
    <3>2. b = [e EXCEPT !.muted = m]
      <4> HIDE DEF b1
      <4>1. b = [a EXCEPT !.st.buttons = b1, !.muted = m]
        BY <2>3 DEF Ci!Muted, InputRecord, b1
      <4> QED
        BY <2>3, <4>1 DEF InputRecord
    <3> HIDE DEF b1
    <3>3. InputOK(e) /\ Passes(e, a) /\ e.st.buttons = b1 /\ e.muted = a.muted
      BY <2>1, <3>1, ButtonsChange
    <3>4. m \in BOOLEAN /\ ("L" \in held => m)
      BY <2>3
    <3> HIDE DEF e, m, b
    <3>5. e \in InputRecord
      BY <3>3 DEF InputOK
    <3>6. b \in InputRecord
      BY <3>2, <3>4, <3>5 DEF InputRecord
    <3>7. /\ b.st = e.st /\ b.io = e.io /\ b.fingers = e.fingers /\ b.clash = e.clash /\ b.muted = m
          /\ b.on = e.on /\ b.held = e.held /\ b.stuck = e.stuck
      BY <3>2, <3>5 DEF InputRecord
    <3> QED
      BY <2>1, <3>1, <3>3, <3>4, <3>6, <3>7 DEF InputOK, TouchesOwned, Passes
  <2> HIDE DEF b
  <2>5. InputOK(c) /\ Passes(c, b) /\ c.st.buttons = b.st.buttons /\ c.muted = b.muted
    <3> DEFINE p == [b.io EXCEPT !.combo = TRUE]
               g == [b EXCEPT !.io = p]
    <3>1. InputOK(g) /\ Passes(g, b) /\ g.st = b.st /\ g.muted = b.muted
      <4>1. b.io \in Modifier
        BY <2>4 DEF InputOK, InputRecord
      <4>2. p \in Modifier /\ p.id = b.io.id /\ p.mode = b.io.mode /\ p.ps3 = b.io.ps3
        BY <4>1 DEF Modifier
      <4> HIDE DEF p
      <4> QED
        BY <2>4, <4>2, ModifierChange
    <3>2. [b EXCEPT !.io.combo = TRUE] = g
      BY <2>4 DEF InputOK, InputRecord
    <3> HIDE DEF g
    <3>3. CASE c = Ci!StartSyntheticTouch(g, "TAP")
      BY <3>1, <3>3, SyntheticStarts DEF Passes
    <3>4. CASE c = Ci!StartSyntheticTouch(g, "SWIPE")
      BY <3>1, <3>4, SyntheticStarts DEF Passes
    <3>5. CASE c = g
      BY <3>1, <3>5
    <3>6. CASE c = b
      BY <2>4, <3>6 DEF Passes
    <3> QED
      BY <3>2, <3>3, <3>4, <3>5, <3>6 DEF Ci!Combo
  <2> HIDE DEF c
  <2>6. c.st.buttons \in SUBSET Bits
    BY <2>5 DEF InputOK, InputRecord, TouchState
  <2>7. b2 \in SUBSET Bits /\ b2 \subseteq c.st.buttons \cup {"PS"} /\ ("PS" \in b2 => "Plus" \in held)
    BY <2>6 DEF Bits
  <2>8. d = [c EXCEPT !.st.buttons = b2]
    BY DEF Ci!Home
  <2> HIDE DEF b2, d
  <2>9. InputOK(d) /\ Passes(d, c) /\ d.st.buttons = b2 /\ d.muted = c.muted
    BY <2>5, <2>7, <2>8, ButtonsChange
  <2>10. InputOK(q) /\ Passes(q, d) /\ q.st.buttons = d.st.buttons /\ q.muted = d.muted
    <3>1. CASE q = Ci!StartSyntheticTouch(d, "HOLD")
      BY <2>9, <3>1, SyntheticStarts
    <3>2. CASE q = d
      BY <2>9, <3>2 DEF Passes
    <3> QED
      BY <3>1, <3>2 DEF Ci!Hold
  <2> HIDE DEF q
  <2>11. InputOK(q) /\ Passes(q, r) /\ q.st.buttons \subseteq r.st.buttons \cup {"PS"}
         /\ ("PS" \in q.st.buttons => "Plus" \in held) /\ ("L" \in held => q.muted)
    BY <2>4, <2>5, <2>7, <2>9, <2>10 DEF Passes
  <2> QED
    BY <1>2, <2>2, <2>11
<1> QED
  BY <1>1, <1>2

\* Minus goes down: the modifier counts anew.
LEMMA MinusGoesDown ==
  ASSUME NEW r, InputOK(r), NEW down
  PROVE  LET q == Ci!MinusDown(r, down) IN
         InputOK(q) /\ Passes(q, r) /\ q.st = r.st /\ q.muted = r.muted /\ q.io.mode = r.io.mode
<1>1. CASE "Minus" \in down
  <2> DEFINE y == 0
             o == [r.io EXCEPT !.minus_held_frames = y, !.combo = FALSE]
             q == [r EXCEPT !.io = o]
  <2>1. r \in InputRecord /\ r.io \in Modifier
    BY DEF InputOK, InputRecord
  <2>2. Ci!MinusDown(r, down) = q
    BY <1>1, <2>1 DEF Ci!MinusDown, InputRecord
  <2>3. y \in Int
    OBVIOUS
  <2> HIDE DEF y
  <2>4. o \in Modifier /\ o.id = r.io.id /\ o.mode = r.io.mode /\ o.ps3 = r.io.ps3
    BY <2>1, <2>3 DEF Modifier
  <2> HIDE DEF o
  <2>5. InputOK(q) /\ Passes(q, r) /\ q.st = r.st /\ q.io = o /\ q.muted = r.muted
    BY <2>4, ModifierChange
  <2> QED
    BY <2>2, <2>4, <2>5
<1>2. CASE "Minus" \notin down
  BY <1>2 DEF Ci!MinusDown, Passes
<1> QED
  BY <1>1, <1>2

\* Minus goes up: a hold ends, or a tap begins.
LEMMA MinusGoesUp ==
  ASSUME NEW r, InputOK(r), NEW up
  PROVE  LET q == Ci!MinusUp(r, up) IN
         /\ InputOK(q) /\ Passes(q, r) /\ q.muted = r.muted
         /\ "Minus" \notin up => q = r
         /\ "Minus" \in up =>
              /\ q.io.mode # "HOLD" /\ "PS" \notin q.st.buttons
              /\ \A b \in Bits \ {"PS", "TOUCHPAD"} : b \in q.st.buttons <=> b \in r.st.buttons
<1>1. CASE "Minus" \in up
  <2> DEFINE a == IF r.io.mode = "HOLD" /\ r.io.id >= 0 THEN Ci!EndSynthetic(r)
                  ELSE IF ~r.io.combo /\ r.io.minus_held_frames < HoldFrames THEN Ci!StartSyntheticTouch(r, "TAP") ELSE r
             y == 0
             o == [a.io EXCEPT !.minus_held_frames = y, !.combo = FALSE]
             b1 == a.st.buttons \ {"PS"}
             e == [a EXCEPT !.io = o]
             q == [e EXCEPT !.st.buttons = b1]
  <2>1. /\ InputOK(a) /\ Passes(a, r) /\ a.muted = r.muted /\ a.io.mode # "HOLD"
        /\ \A b \in Bits \ {"TOUCHPAD"} : b \in a.st.buttons <=> b \in r.st.buttons
    <3>1. CASE r.io.mode = "HOLD" /\ r.io.id >= 0
      BY <3>1, SyntheticEnds
    <3>2. CASE ~(r.io.mode = "HOLD" /\ r.io.id >= 0) /\ ~r.io.combo /\ r.io.minus_held_frames < HoldFrames
      BY <3>2, SyntheticStarts
    <3>3. CASE ~(r.io.mode = "HOLD" /\ r.io.id >= 0) /\ ~(~r.io.combo /\ r.io.minus_held_frames < HoldFrames)
      BY <3>3 DEF Passes, InputOK
    <3> QED
      BY <3>1, <3>2, <3>3
  <2>2. Ci!MinusUp(r, up) = [a EXCEPT !.io = [@ EXCEPT !.minus_held_frames = 0, !.combo = FALSE], !.st.buttons = @ \ {"PS"}]
    BY <1>1 DEF Ci!MinusUp
  <2> HIDE DEF a
  <2>3. a \in InputRecord /\ a.io \in Modifier /\ a.st \in TouchState /\ a.st.buttons \in SUBSET Bits
    BY <2>1 DEF InputOK, InputRecord, TouchState
  <2>4. Ci!MinusUp(r, up) = q
    <3>1. [a EXCEPT !.io = [@ EXCEPT !.minus_held_frames = 0, !.combo = FALSE], !.st.buttons = @ \ {"PS"}]
          = [a EXCEPT !.io = o, !.st.buttons = b1]
      BY <2>3 DEF InputRecord
    <3> HIDE DEF o, b1
    <3>2. [a EXCEPT !.io = o, !.st.buttons = b1] = q
      BY <2>3 DEF InputRecord
    <3> QED
      BY <2>2, <3>1, <3>2
  <2>5. y \in Int
    OBVIOUS
  <2> HIDE DEF y
  <2>6. o \in Modifier /\ o.id = a.io.id /\ o.mode = a.io.mode /\ o.ps3 = a.io.ps3
    BY <2>3, <2>5 DEF Modifier
  <2> HIDE DEF o
  <2>7. InputOK(e) /\ Passes(e, a) /\ e.st = a.st /\ e.io = o /\ e.muted = a.muted
    BY <2>1, <2>6, ModifierChange
  <2> HIDE DEF e
  <2>8. b1 \in SUBSET Bits
    BY <2>3
  <2>9. InputOK(q) /\ Passes(q, e) /\ q.st.buttons = b1 /\ q.io = e.io /\ q.muted = e.muted
    BY <2>7, <2>8, ButtonsChange
  <2> HIDE DEF q
  <2> QED
    BY <1>1, <2>1, <2>4, <2>6, <2>7, <2>9 DEF Passes
<1>2. CASE "Minus" \notin up
  BY <1>2 DEF Ci!MinusUp, Passes
<1> QED
  BY <1>1, <1>2

\* UpdateSyntheticTouch: taps and swipes run out.
LEMMA SyntheticUpdates ==
  ASSUME NEW r, InputOK(r)
  PROVE  LET q == Ci!UpdateSyntheticTouch(r) IN
         /\ InputOK(q) /\ Passes(q, r) /\ q.muted = r.muted
         /\ q.io.mode \in {r.io.mode, "NONE"}
         /\ Ci!FramesMatter(q.io) => q.io.frame < SwipeFrames
         /\ \A b \in Bits \ {"TOUCHPAD"} : b \in q.st.buttons <=> b \in r.st.buttons
<1>1. CASE r.io.mode = "NONE" \/ r.io.id < 0
  <2>1. r.io.mode = "NONE"
    BY <1>1 DEF InputOK, InputRecord, Modifier
  <2> QED
    BY <1>1, <2>1 DEF Ci!UpdateSyntheticTouch, Ci!FramesMatter, Passes
<1>2. CASE ~(r.io.mode = "NONE" \/ r.io.id < 0)
  <2> DEFINE n == IF Ci!FramesMatter(r.io) THEN r.io.frame + 1 ELSE r.io.frame
             b1 == IF r.io.mode \in {"TAP", "HOLD"} THEN r.st.buttons \cup {"TOUCHPAD"} ELSE r.st.buttons
             o == [r.io EXCEPT !.frame = n]
             e == [r EXCEPT !.io = o]
             a == [e EXCEPT !.st.buttons = b1]
  <2>1. r \in InputRecord /\ r.io \in Modifier /\ r.st \in TouchState /\ r.st.buttons \in SUBSET Bits /\ r.io.frame \in Int
        /\ r.io.id >= 0
    BY <1>2 DEF InputOK, InputRecord, TouchState, Modifier
  <2>2. [r EXCEPT !.io.frame = IF Ci!FramesMatter(r.io) THEN @ + 1 ELSE @,
                  !.st.buttons = IF r.io.mode \in {"TAP", "HOLD"} THEN @ \union {"TOUCHPAD"} ELSE @] = a
    <3>1. [r EXCEPT !.io.frame = IF Ci!FramesMatter(r.io) THEN @ + 1 ELSE @,
                    !.st.buttons = IF r.io.mode \in {"TAP", "HOLD"} THEN @ \union {"TOUCHPAD"} ELSE @]
          = [r EXCEPT !.io.frame = n, !.st.buttons = b1]
      BY <2>1 DEF InputRecord
    <3> HIDE DEF n, b1
    <3>2. [r EXCEPT !.io.frame = n, !.st.buttons = b1] = a
      BY <2>1 DEF InputRecord
    <3> QED
      BY <3>1, <3>2
  <2>3. n \in Int /\ b1 \in SUBSET Bits /\ \A b \in Bits \ {"TOUCHPAD"} : b \in b1 <=> b \in r.st.buttons
    BY <2>1 DEF Bits
  <2> HIDE DEF n, b1
  <2>4. o \in Modifier /\ o.id = r.io.id /\ o.mode = r.io.mode /\ o.ps3 = r.io.ps3
    BY <2>1, <2>3 DEF Modifier
  <2> HIDE DEF o
  <2>5. InputOK(e) /\ Passes(e, r) /\ e.st = r.st /\ e.io = o /\ e.muted = r.muted
    BY <2>4, ModifierChange
  <2> HIDE DEF e
  <2>6. InputOK(a) /\ Passes(a, e) /\ a.st.buttons = b1 /\ a.io = e.io /\ a.muted = e.muted
    BY <2>3, <2>5, ButtonsChange
  <2>7. Ci!UpdateSyntheticTouch(r) = IF Ci!Finished(a.io) THEN Ci!EndSynthetic(a) ELSE a
    <3> DEFINE h == [r EXCEPT !.io.frame = IF Ci!FramesMatter(r.io) THEN @ + 1 ELSE @,
                              !.st.buttons = IF r.io.mode \in {"TAP", "HOLD"} THEN @ \union {"TOUCHPAD"} ELSE @]
    <3>1. Ci!UpdateSyntheticTouch(r) = IF Ci!Finished(h.io) THEN Ci!EndSynthetic(h) ELSE h
      BY <1>2, Zenon DEF Ci!UpdateSyntheticTouch
    <3>2. h = a
      BY <2>2
    <3> HIDE DEF h, a
    <3> QED
      BY <3>1, <3>2
  <2> HIDE DEF a
  <2>8. CASE Ci!Finished(a.io)
    <3> DEFINE q == Ci!EndSynthetic(a)
    <3>1. /\ InputOK(q) /\ Passes(q, a) /\ q.st.buttons = a.st.buttons \ {"TOUCHPAD"} /\ q.muted = a.muted
          /\ q.io.mode = "NONE"
      BY <2>1, <2>4, <2>5, <2>6, SyntheticEnds
    <3>2. Ci!UpdateSyntheticTouch(r) = q
      BY <2>7, <2>8
    <3> HIDE DEF q
    <3> QED
      BY <2>3, <2>5, <2>6, <3>1, <3>2 DEF Passes, Ci!FramesMatter
  <2>9. CASE ~Ci!Finished(a.io)
    <3>1. Ci!UpdateSyntheticTouch(r) = a
      BY <2>7, <2>9
    <3>2. a.io.frame \in Int
      BY <2>6 DEF InputOK, InputRecord, Modifier
    <3>3. Ci!FramesMatter(a.io) => a.io.frame < SwipeFrames
      BY <2>9, <3>2, InputAssumption DEF Ci!FramesMatter, Ci!Finished
    <3> QED
      BY <2>3, <2>4, <2>5, <2>6, <3>1, <3>3 DEF Passes
  <2> QED
    BY <2>8, <2>9
<1> QED
  BY <1>1, <1>2

\* ReadGameKeys: what the events of the keys make of each bit.
LEMMA KeyEvents ==
  ASSUME NEW b \in SUBSET Bits, NEW down \in SUBSET Ci!Keys, NEW up \in SUBSET Ci!Keys
  PROVE  LET b1 == Ci!ToggledBits(Ci!Cleared(Ci!Pressed(b, down), up), up) IN
         /\ b1 \in SUBSET Bits
         /\ "SHARE" \in b1 <=> ("SHARE" \in b \/ "Minus" \in down) /\ "Minus" \notin up
         /\ "OPTIONS" \in b1 <=> ("OPTIONS" \in b \/ "Plus" \in down) /\ "Plus" \notin up
         /\ "MOON" \in b1 <=> ("MOON" \in b \/ "A" \in down) /\ "A" \notin up
         /\ "L" \notin up => ("L1" \in b1 <=> "L1" \in b \/ "L" \in down)
         /\ "L" \in up => ("L1" \in b1 <=> ~("L1" \in b \/ "L" \in down))
         /\ "PS" \in b1 <=> "PS" \in b
<1> DEFINE bp == Ci!Pressed(b, down)
           bc == Ci!Cleared(bp, up)
           bt == Ci!ToggledBits(bc, up)
<1>1. /\ bp \in SUBSET Bits
      /\ "SHARE" \in bp <=> "SHARE" \in b \/ "Minus" \in down
      /\ "OPTIONS" \in bp <=> "OPTIONS" \in b \/ "Plus" \in down
      /\ "MOON" \in bp <=> "MOON" \in b \/ "A" \in down
      /\ "L1" \in bp <=> "L1" \in b \/ "L" \in down
      /\ "PS" \in bp <=> "PS" \in b
  BY KeyBits DEF Ci!Pressed, Bits
<1> HIDE DEF bp
<1>2. /\ bc \in SUBSET Bits
      /\ "SHARE" \in bc <=> "SHARE" \in bp /\ "Minus" \notin up
      /\ "OPTIONS" \in bc <=> "OPTIONS" \in bp /\ "Plus" \notin up
      /\ "MOON" \in bc <=> "MOON" \in bp /\ "A" \notin up
      /\ "L1" \in bc <=> "L1" \in bp
      /\ "PS" \in bc <=> "PS" \in bp
  BY <1>1, KeyBits DEF Ci!Cleared, Ci!Toggled, Bits
<1> HIDE DEF bc
<1>3. /\ bt \in SUBSET Bits
      /\ \A x \in Bits \ {"L1"} : x \in bt <=> x \in bc
      /\ "L" \notin up => ("L1" \in bt <=> "L1" \in bc)
      /\ "L" \in up => ("L1" \in bt <=> "L1" \notin bc)
  <2>1. {Ci!BitOf[x] : x \in up \cap Ci!Toggled} = IF "L" \in up THEN {"L1"} ELSE {}
    BY KeyBits DEF Ci!Toggled
  <2> QED
    BY <1>2, <2>1 DEF Ci!ToggledBits, Bits
<1> HIDE DEF bt
<1>4. /\ "SHARE" \in bt <=> "SHARE" \in bc
      /\ "OPTIONS" \in bt <=> "OPTIONS" \in bc
      /\ "MOON" \in bt <=> "MOON" \in bc
      /\ "PS" \in bt <=> "PS" \in bc
  BY <1>3 DEF Bits
<1> QED
  BY <1>1, <1>2, <1>3, <1>4 DEF bt, bc, bp

\* ReadGameKeys changes the buttons and what is known of L.
LEMMA GameKeysRead ==
  ASSUME NEW r, InputOK(r), ci.muted \in BOOLEAN, NEW down \in SUBSET Ci!Keys, NEW up \in SUBSET Ci!Keys
  PROVE  LET q == Ci!ReadGameKeys(r, down, up) IN
         /\ InputOK(q) /\ q.on = r.on /\ q.held = r.held /\ q.io = r.io
         /\ q.st.buttons = Ci!ToggledBits(Ci!Cleared(Ci!Pressed(r.st.buttons, down), up), up)
         /\ "L" \in up => (q.stuck <=> ci.muted)
         /\ "L" \notin up => (q.muted <=> r.muted) /\ (q.stuck <=> "L" \notin down /\ r.stuck)
<1> DEFINE b1 == Ci!ToggledBits(Ci!Cleared(Ci!Pressed(r.st.buttons, down), up), up)
           x == IF "L" \in up THEN ci.muted ELSE IF "L" \in down THEN FALSE ELSE r.stuck
           y == IF "L" \in up THEN FALSE ELSE r.muted
           e == [r EXCEPT !.st.buttons = b1]
           q == [e EXCEPT !.stuck = x, !.muted = y]
<1>1. r \in InputRecord /\ r.st.buttons \in SUBSET Bits /\ r.stuck \in BOOLEAN /\ r.muted \in BOOLEAN
  BY DEF InputOK, InputRecord, TouchState
<1>2. b1 \in SUBSET Bits
  BY <1>1, KeyEvents
<1>3. x \in BOOLEAN /\ y \in BOOLEAN
  BY <1>1
<1>4. Ci!ReadGameKeys(r, down, up) = q
  <2>1. Ci!ReadGameKeys(r, down, up) = [r EXCEPT !.st.buttons = b1, !.stuck = x, !.muted = y]
    BY <1>1 DEF Ci!ReadGameKeys, InputRecord
  <2> HIDE DEF b1, x, y
  <2>2. [r EXCEPT !.st.buttons = b1, !.stuck = x, !.muted = y] = q
    BY <1>1 DEF InputRecord
  <2> QED
    BY <2>1, <2>2
<1> HIDE DEF b1
<1>5. InputOK(e) /\ Passes(e, r) /\ e.st.buttons = b1 /\ e.io = r.io
  BY <1>2, ButtonsChange
<1>6. e \in InputRecord
  BY <1>5 DEF InputOK
<1> HIDE DEF e, x, y
<1>7. q \in InputRecord
  BY <1>3, <1>6 DEF InputRecord
<1>8. /\ q.st = e.st /\ q.io = e.io /\ q.fingers = e.fingers /\ q.clash = e.clash /\ q.muted = y
      /\ q.on = e.on /\ q.held = e.held /\ q.stuck = x
  BY <1>6 DEF InputRecord
<1> HIDE DEF q
<1>9. InputOK(q) /\ q.on = r.on /\ q.held = r.held /\ q.io = r.io /\ q.st.buttons = b1 /\ q.stuck = x /\ q.muted = y
  BY <1>5, <1>7, <1>8 DEF InputOK, TouchesOwned, Passes
<1> QED
  BY <1>4, <1>9 DEF b1, x, y

\* Minus as a modifier, on a PS4 or PS5.
LEMMA ModifierMaps ==
  ASSUME NEW r, InputOK(r), KeysTrue(r), NEW held \in SUBSET Ci!Keys, NEW down \in SUBSET Ci!Keys, NEW up \in SUBSET Ci!Keys,
         r.held = held, up \cap held = {},
         "Minus" \notin up \cup held => "PS" \notin r.st.buttons /\ r.io.mode # "HOLD"
  PROVE  LET q == Ci!MapPs45(r, held, down, up) IN
         /\ InputOK(q) /\ Passes(q, r) /\ KeysTrue(q)
         /\ q.io.mode = "HOLD" => "Minus" \in held
         /\ Ci!FramesMatter(q.io) => q.io.frame < SwipeFrames
         /\ "PS" \in q.st.buttons => {"Minus", "Plus"} \subseteq held
<1> DEFINE b1 == r.st.buttons \ {"SHARE"}
           a == [r EXCEPT !.st.buttons = b1]
           b == Ci!MinusDown(a, down)
           c == Ci!MinusHeld(b, held, down)
           d == Ci!MinusUp(c, up)
           q == Ci!UpdateSyntheticTouch(d)
<1>1. b1 \in SUBSET Bits
  BY DEF InputOK, InputRecord, TouchState
<1>2. Ci!MapPs45(r, held, down, up) = q
  BY DEF Ci!MapPs45
<1> HIDE DEF b1
<1>3. InputOK(a) /\ Passes(a, r) /\ a.st.buttons = b1 /\ a.io = r.io /\ a.muted = r.muted
  BY <1>1, ButtonsChange
<1> HIDE DEF a
<1>4. InputOK(b) /\ Passes(b, a) /\ b.st = a.st /\ b.muted = a.muted /\ b.io.mode = a.io.mode
  BY <1>3, MinusGoesDown
<1> HIDE DEF b
<1>5. /\ InputOK(c) /\ Passes(c, b)
      /\ "Minus" \notin held => c = b
      /\ "Minus" \in held =>
           /\ c.st.buttons \subseteq b.st.buttons \cup {"PS"}
           /\ "PS" \in c.st.buttons => "Plus" \in held
           /\ "L" \in held => c.muted
  BY <1>4, MinusIsHeld
<1> HIDE DEF c
<1>6. /\ InputOK(d) /\ Passes(d, c) /\ d.muted = c.muted
      /\ "Minus" \notin up => d = c
      /\ "Minus" \in up =>
           /\ d.io.mode # "HOLD" /\ "PS" \notin d.st.buttons
           /\ \A x \in Bits \ {"PS", "TOUCHPAD"} : x \in d.st.buttons <=> x \in c.st.buttons
  BY <1>5, MinusGoesUp
<1> HIDE DEF d
<1>7. /\ InputOK(q) /\ Passes(q, d) /\ q.muted = d.muted
      /\ q.io.mode \in {d.io.mode, "NONE"}
      /\ Ci!FramesMatter(q.io) => q.io.frame < SwipeFrames
      /\ \A x \in Bits \ {"TOUCHPAD"} : x \in q.st.buttons <=> x \in d.st.buttons
  BY <1>6, SyntheticUpdates
<1> HIDE DEF q
<1>8. Passes(q, r)
  BY <1>3, <1>4, <1>5, <1>6, <1>7 DEF Passes
<1>9. \A x \in {"SHARE", "OPTIONS", "L1", "MOON"} : x \in q.st.buttons <=> x \in c.st.buttons
  BY <1>6, <1>7 DEF Bits
<1>10. "PS" \in q.st.buttons <=> "PS" \in d.st.buttons
  BY <1>7 DEF Bits
<1>11. CASE "Minus" \in held
  <2>1. "Minus" \notin up /\ d = c
    BY <1>6, <1>11
  <2>2. \A x \in {"SHARE", "OPTIONS", "L1", "MOON"} : x \in q.st.buttons => x \in r.st.buttons
    BY <1>3, <1>4, <1>5, <1>9, <1>11 DEF b1
  <2>3. "PS" \in q.st.buttons => "Plus" \in held
    BY <1>5, <1>10, <1>11, <2>1
  <2>4. "L" \in held => q.muted
    BY <1>5, <1>6, <1>7, <1>11
  <2>5. KeysTrue(q)
    BY <1>8, <2>2, <2>4 DEF KeysTrue, Passes
  <2> QED
    BY <1>2, <1>7, <1>8, <1>11, <2>3, <2>5
<1>12. CASE "Minus" \notin held
  <2>1. c = b
    BY <1>5, <1>12
  <2>2. /\ \A x \in {"OPTIONS", "L1", "MOON"} : x \in q.st.buttons <=> x \in r.st.buttons
        /\ "SHARE" \notin q.st.buttons /\ q.muted = r.muted
    BY <1>3, <1>4, <1>6, <1>7, <1>9, <2>1 DEF b1
  <2>3. KeysTrue(q)
    BY <1>8, <2>2 DEF KeysTrue, Passes
  <2>4. "PS" \notin q.st.buttons /\ q.io.mode # "HOLD"
    <3>1. CASE "Minus" \in up
      BY <1>6, <1>7, <1>10, <3>1
    <3>2. CASE "Minus" \notin up
      BY <1>3, <1>4, <1>6, <1>7, <1>10, <1>12, <2>1, <3>2 DEF b1
    <3> QED
      BY <3>1, <3>2
  <2> QED
    BY <1>2, <1>7, <1>8, <2>3, <2>4
<1> QED
  BY <1>11, <1>12

\* On a PS3 Minus is SHARE, and PS with Plus.
LEMMA Ps3Maps ==
  ASSUME NEW r, InputOK(r), KeysTrue(r), NEW held \in SUBSET Ci!Keys, r.held = held
  PROVE  LET q == Ci!MapPs3(r, held) IN
         /\ InputOK(q) /\ Passes(q, r) /\ KeysTrue(q) /\ q.io = r.io
         /\ "PS" \in q.st.buttons => {"Minus", "Plus"} \subseteq held
<1> DEFINE b1 == IF {"Minus", "Plus"} \subseteq held THEN (r.st.buttons \ {"SHARE", "OPTIONS"}) \cup {"PS"}
                 ELSE (r.st.buttons \ {"PS"}) \cup (IF "Minus" \in held THEN {"SHARE"} ELSE {})
           q == [r EXCEPT !.st.buttons = b1]
<1>1. r.st.buttons \in SUBSET Bits
  BY DEF InputOK, InputRecord, TouchState
<1>2. /\ b1 \in SUBSET Bits
      /\ "PS" \in b1 => {"Minus", "Plus"} \subseteq held
      /\ "SHARE" \in b1 => "SHARE" \in r.st.buttons \/ "Minus" \in held
      /\ "OPTIONS" \in b1 => "OPTIONS" \in r.st.buttons
      /\ "L1" \in b1 <=> "L1" \in r.st.buttons
      /\ "MOON" \in b1 <=> "MOON" \in r.st.buttons
  BY <1>1 DEF Bits
<1>3. Ci!MapPs3(r, held) = q
  BY DEF Ci!MapPs3
<1> HIDE DEF b1
<1>4. InputOK(q) /\ Passes(q, r) /\ q.st.buttons = b1 /\ q.io = r.io /\ q.muted = r.muted
  BY <1>2, ButtonsChange
<1> HIDE DEF q
<1> QED
  BY <1>2, <1>3, <1>4 DEF KeysTrue, Passes

\* At first nothing is pressed and no finger is on the screen.
LEMMA InputInit == Ci!InitInput => InputInv
<1> SUFFICES ASSUME Ci!InitInput PROVE InputInv
  OBVIOUS
<1> DEFINE zero == 0
           t == [i \in {0, 1} |-> Ci!None]
           st == [buttons |-> {}, touches |-> t, next |-> zero]
           o == [ps3 |-> FALSE, minus_held_frames |-> zero, combo |-> FALSE, mode |-> "NONE", id |-> Ci!None, frame |-> zero]
           g == [f \in Fingers |-> Ci!Away]
<1>1. ci = [on |-> FALSE, st |-> st, io |-> o, fingers |-> g, held |-> {}, exit |-> FALSE, muted |-> FALSE,
            stuck |-> FALSE, clash |-> FALSE]
  BY DEF Ci!InitInput, Ci!chiaki_controller_state_set_idle, Ci!SetPS3Stream
<1>2. zero \in Nat /\ zero \in Int /\ t \in [{0, 1} -> Int] /\ g \in [Fingers -> Int] /\ Ci!None \in Int /\ Ci!None < 0
  BY InputFacts
<1>3. Owned(t, HeldIds(g, Ci!None))
  <2>1. t[0] < 0 /\ t[1] < 0
    BY InputFacts
  <2>2. \A h \in TouchUsers : HeldIds(g, Ci!None)[h] < 0
    BY InputFacts DEF HeldIds, TouchUsers
  <2>3. HeldIds(g, Ci!None) \in [TouchUsers -> Int]
    BY <1>2, HeldIdsFacts
  <2> HIDE DEF t, g
  <2> QED
    BY <1>2, <2>1, <2>2, <2>3 DEF Owned
<1> HIDE DEF zero, t, g
<1>4. st \in TouchState /\ st.buttons = {} /\ st.touches = t
  BY <1>2 DEF TouchState
<1>5. o \in Modifier /\ o.mode = "NONE" /\ o.id = Ci!None
  BY <1>2 DEF Modifier
<1> HIDE DEF st, o
<1>6. ci \in InputRecord
  BY <1>1, <1>2, <1>4, <1>5 DEF InputRecord
<1>7. ci.st = st /\ ci.io = o /\ ci.fingers = g /\ ci.held = {} /\ ~ci.on /\ ~ci.clash
  BY <1>1
<1>8. InputOK(ci)
  BY <1>3, <1>4, <1>5, <1>6, <1>7 DEF InputOK, TouchesOwned
<1>9. KeysTrue(ci)
  BY <1>4, <1>7 DEF KeysTrue
<1> QED
  BY <1>2, <1>4, <1>5, <1>7, <1>8, <1>9 DEF InputInv, Ci!FramesMatter

\* A call keeps it.
LEMMA ControllerUpdates == ASSUME InputInv, Ci!UpdateControllerState PROVE InputInv'
<1>1. PICK keys \in {{}} \union {{x} : x \in Ci!Keys}, f \in Fingers \union {Ci!None}, triggers \in BOOLEAN :
        LET held == (ci.held \ keys) \union (keys \ ci.held)
            down == held \ ci.held
            up == ci.held \ held
            r == [ci EXCEPT !.held = held, !.exit = triggers /\ "Plus" \in held]
        IN ci' = Ci!ApplyCloudPadControllerMapping(
                   Ci!ReadGameTouchScreen(Ci!ReadGameKeys(r, down, up), f), held, down, up)
  BY Zenon DEF Ci!UpdateControllerState
<1> DEFINE held == (ci.held \ keys) \union (keys \ ci.held)
           down == held \ ci.held
           up == ci.held \ held
           e == (triggers /\ "Plus" \in held)
           r == [ci EXCEPT !.held = held, !.exit = e]
           a == Ci!ReadGameKeys(r, down, up)
           b == Ci!ReadGameTouchScreen(a, f)
<1>2. ci' = Ci!ApplyCloudPadControllerMapping(b, held, down, up)
  BY <1>1, Zenon
<1>3. ci \in InputRecord /\ ci.held \in SUBSET Ci!Keys /\ ci.on /\ InputOK(ci) /\ ci.muted \in BOOLEAN
      /\ ci.st.buttons \in SUBSET Bits
  BY DEF InputInv, InputOK, InputRecord, TouchState, Ci!UpdateControllerState
<1>4. keys \in SUBSET Ci!Keys
  BY Zenon
<1>5. held \in SUBSET Ci!Keys /\ down \in SUBSET Ci!Keys /\ up \in SUBSET Ci!Keys /\ up \cap held = {}
  BY <1>3, <1>4
<1>7. e \in BOOLEAN
  OBVIOUS
<1> HIDE DEF held, down, up, e
<1>8. InputOK(r) /\ r.held = held /\ r.st = ci.st /\ r.io = ci.io /\ r.on = ci.on /\ r.stuck = ci.stuck /\ r.muted = ci.muted
  <2>1. r \in InputRecord
    BY <1>3, <1>5, <1>7 DEF InputRecord
  <2>2. /\ r.held = held /\ r.st = ci.st /\ r.io = ci.io /\ r.on = ci.on /\ r.stuck = ci.stuck /\ r.muted = ci.muted
        /\ r.fingers = ci.fingers /\ r.clash = ci.clash
    BY <1>3 DEF InputRecord
  <2> HIDE DEF r
  <2> QED
    BY <1>3, <2>1, <2>2 DEF InputOK, TouchesOwned
<1> HIDE DEF r
<1>9. /\ InputOK(a) /\ a.on = ci.on /\ a.held = held /\ a.io = ci.io
      /\ a.st.buttons = Ci!ToggledBits(Ci!Cleared(Ci!Pressed(ci.st.buttons, down), up), up)
      /\ "L" \in up => (a.stuck <=> ci.muted)
      /\ "L" \notin up => (a.muted <=> ci.muted) /\ (a.stuck <=> "L" \notin down /\ ci.stuck)
  <2>1. /\ InputOK(a) /\ a.on = r.on /\ a.held = r.held /\ a.io = r.io
        /\ a.st.buttons = Ci!ToggledBits(Ci!Cleared(Ci!Pressed(r.st.buttons, down), up), up)
        /\ "L" \in up => (a.stuck <=> ci.muted)
        /\ "L" \notin up => (a.muted <=> r.muted) /\ (a.stuck <=> "L" \notin down /\ r.stuck)
    BY <1>3, <1>5, <1>8, GameKeysRead
  <2> HIDE DEF a
  <2> QED
    BY <1>8, <2>1
<1> HIDE DEF a
<1>10. KeysTrue(a) /\ ("PS" \in a.st.buttons <=> "PS" \in ci.st.buttons)
  <2>1. /\ "SHARE" \in a.st.buttons <=> ("SHARE" \in ci.st.buttons \/ "Minus" \in down) /\ "Minus" \notin up
        /\ "OPTIONS" \in a.st.buttons <=> ("OPTIONS" \in ci.st.buttons \/ "Plus" \in down) /\ "Plus" \notin up
        /\ "MOON" \in a.st.buttons <=> ("MOON" \in ci.st.buttons \/ "A" \in down) /\ "A" \notin up
        /\ "L" \notin up => ("L1" \in a.st.buttons <=> "L1" \in ci.st.buttons \/ "L" \in down)
        /\ "L" \in up => ("L1" \in a.st.buttons <=> ~("L1" \in ci.st.buttons \/ "L" \in down))
        /\ "PS" \in a.st.buttons <=> "PS" \in ci.st.buttons
    BY <1>3, <1>5, <1>9, KeyEvents
  <2>2. KeysTrue(ci)
    BY DEF InputInv
  <2>3. /\ ("Minus" \in down => "Minus" \in held) /\ ("Minus" \in ci.held => "Minus" \in held \cup up)
        /\ ("Plus" \in down => "Plus" \in held) /\ ("Plus" \in ci.held => "Plus" \in held \cup up)
        /\ ("A" \in down => "A" \in held) /\ ("A" \in ci.held => "A" \in held \cup up)
        /\ ("L" \in down => "L" \in held) /\ ("L" \in ci.held => "L" \in held \cup up)
        /\ ("L" \in up => "L" \in ci.held /\ "L" \notin held) /\ ("L" \in held => "L" \in ci.held \cup down)
    BY DEF down, up
  <2>4. /\ "SHARE" \in a.st.buttons => "Minus" \in held
        /\ "OPTIONS" \in a.st.buttons => "Plus" \in held
        /\ "MOON" \in a.st.buttons => "A" \in held
    BY <2>1, <2>2, <2>3 DEF KeysTrue
  <2>5. "L1" \in a.st.buttons => "L" \in held \/ a.stuck
    <3>1. CASE "L" \in up
      BY <1>9, <2>1, <2>2, <2>3, <3>1 DEF KeysTrue
    <3>2. CASE "L" \notin up
      BY <1>9, <2>1, <2>2, <2>3, <3>2 DEF KeysTrue
    <3> QED
      BY <3>1, <3>2
  <2>6. "L" \in held /\ ~a.muted => "L1" \in a.st.buttons
    BY <1>9, <2>1, <2>2, <2>3 DEF KeysTrue
  <2> QED
    BY <1>9, <2>1, <2>4, <2>5, <2>6 DEF KeysTrue
<1>11. /\ InputOK(b) /\ Passes(b, a) /\ b.io = a.io /\ b.muted = a.muted
       /\ \A x \in Bits \ {"TOUCHPAD"} : x \in b.st.buttons <=> x \in a.st.buttons
  BY <1>9, TouchScreenRead
<1> HIDE DEF b
<1>12. \A x \in {"SHARE", "OPTIONS", "L1", "MOON", "PS"} : x \in b.st.buttons <=> x \in a.st.buttons
  BY <1>11 DEF Bits
<1>13. /\ InputOK(b) /\ KeysTrue(b) /\ b.held = held /\ b.io = ci.io /\ b.on
       /\ "PS" \in b.st.buttons <=> "PS" \in ci.st.buttons
  BY <1>3, <1>9, <1>10, <1>11, <1>12 DEF KeysTrue, Passes
<1>14. CASE b.io.ps3
  <2> DEFINE q == Ci!MapPs3(b, held)
  <2>1. /\ InputOK(q) /\ Passes(q, b) /\ KeysTrue(q) /\ q.io = b.io
        /\ "PS" \in q.st.buttons => {"Minus", "Plus"} \subseteq held
    BY <1>5, <1>13, Ps3Maps
  <2>2. ci' = q
    BY <1>2, <1>14 DEF Ci!ApplyCloudPadControllerMapping
  <2> HIDE DEF q
  <2>3. q.io.mode = "NONE"
    BY <1>13, <1>14, <2>1 DEF InputInv
  <2> QED
    BY <1>13, <2>1, <2>2, <2>3 DEF InputInv, Passes, Ci!FramesMatter
<1>15. CASE ~b.io.ps3
  <2> DEFINE q == Ci!MapPs45(b, held, down, up)
  <2>0. "Minus" \notin up \cup held => "PS" \notin b.st.buttons /\ b.io.mode # "HOLD"
    <3>1. "Minus" \in ci.held => "Minus" \in up \cup held
      BY DEF up
    <3> QED
      BY <1>13, <3>1 DEF InputInv
  <2>1. /\ InputOK(q) /\ Passes(q, b) /\ KeysTrue(q)
        /\ q.io.mode = "HOLD" => "Minus" \in held
        /\ Ci!FramesMatter(q.io) => q.io.frame < SwipeFrames
        /\ "PS" \in q.st.buttons => {"Minus", "Plus"} \subseteq held
    BY <1>5, <1>13, <2>0, ModifierMaps
  <2>2. ci' = q
    BY <1>2, <1>15 DEF Ci!ApplyCloudPadControllerMapping
  <2> HIDE DEF q
  <2> QED
    BY <1>13, <1>15, <2>1, <2>2 DEF InputInv, Passes
<1> QED
  BY <1>14, <1>15

\* So does the stream's start.
LEMMA InputStep == ASSUME InputInv, Ci!NextInput \/ UNCHANGED ci PROVE InputInv'
<1>1. CASE Ci!InputStarts
  <2>1. PICK is_ps3 \in BOOLEAN : ci' = [ci EXCEPT !.on = TRUE, !.io = Ci!SetPS3Stream(is_ps3)]
    BY <1>1 DEF Ci!InputStarts
  <2> DEFINE zero == 0
             o == [ps3 |-> is_ps3, minus_held_frames |-> zero, combo |-> FALSE, mode |-> "NONE", id |-> Ci!None, frame |-> zero]
             q == [ci EXCEPT !.on = TRUE, !.io = o]
  <2>2. ci' = q
    BY <2>1 DEF Ci!SetPS3Stream
  <2>3. ci \in InputRecord /\ ci.io.id < 0 /\ ci.io.id \in Int /\ InputOK(ci) /\ ci.fingers \in [Fingers -> Int]
        /\ ci.st.touches \in [{0, 1} -> Int]
    BY <1>1 DEF Ci!InputStarts, InputInv, InputOK, InputRecord, Modifier, TouchState
  <2>4. zero \in Int /\ Ci!None \in Int /\ Ci!None < 0
    BY InputFacts
  <2> HIDE DEF zero
  <2>5. o \in Modifier /\ o.mode = "NONE" /\ o.id = Ci!None
    BY <2>4 DEF Modifier
  <2> HIDE DEF o
  <2>6. q \in InputRecord
    BY <2>3, <2>5 DEF InputRecord
  <2>7. /\ q.st = ci.st /\ q.io = o /\ q.fingers = ci.fingers /\ q.clash = ci.clash /\ q.muted = ci.muted
        /\ q.on /\ q.held = ci.held /\ q.stuck = ci.stuck
    BY <2>3 DEF InputRecord
  <2> HIDE DEF q
  <2>8. q.clash \/ Owned(q.st.touches, HeldIds(q.fingers, q.io.id))
    <3> DEFINE v == HeldIds(ci.fingers, ci.io.id)
    <3>1. v \in [TouchUsers -> Int] /\ v[Ci!None] < 0 /\ Ci!None \in TouchUsers
      BY <2>3, HeldIdsFacts DEF TouchUsers
    <3>2. HeldIds(ci.fingers, Ci!None) = [v EXCEPT ![Ci!None] = Ci!None]
      BY HeldByModifier
    <3>3. ci.clash \/ Owned(ci.st.touches, v)
      BY <2>3 DEF InputOK, TouchesOwned
    <3> HIDE DEF v
    <3>4. Owned(ci.st.touches, v) => Owned(ci.st.touches, [v EXCEPT ![Ci!None] = Ci!None])
      BY <2>3, <2>4, <3>1, OwnedNone
    <3> QED
      BY <2>5, <2>7, <3>2, <3>3, <3>4
  <2>9. InputOK(q) /\ KeysTrue(q)
    BY <2>3, <2>5, <2>6, <2>7, <2>8 DEF InputOK, TouchesOwned, KeysTrue, InputInv
  <2> QED
    BY <2>2, <2>5, <2>7, <2>9 DEF InputInv, Ci!FramesMatter
<1>2. CASE Ci!UpdateControllerState
  BY <1>2, ControllerUpdates
<1>3. CASE UNCHANGED ci
  BY <1>3 DEF InputInv, InputOK, TouchesOwned, KeysTrue
<1> QED
  BY <1>1, <1>2, <1>3 DEF Ci!NextInput

\* What the run checks of the controller, sound and vibration follows.
LEMMA InputFollows == InputInv /\ SoundInv => ControllerIsTrue
<1> SUFFICES ASSUME InputInv, SoundInv PROVE Ci!InputIsReal
  BY DEF ControllerIsTrue, SoundInv
<1> DEFINE v == HeldIds(ci.fingers, ci.io.id)
<1>1. InputOK(ci) /\ ci.fingers \in [Fingers -> Int] /\ ci.io.id \in Int /\ ci.st.touches \in [{0, 1} -> Int]
  BY DEF InputInv, InputOK, InputRecord, Modifier, TouchState
<1>2. ASSUME NEW i \in {0, 1}, ci.st.touches[i] >= 0, ~ci.clash
      PROVE  \E o \in Ci!Owners(ci.st.touches[i]) : Ci!Owners(ci.st.touches[i]) = {o}
  <2> DEFINE id == ci.st.touches[i]
  <2>1. Owned(ci.st.touches, v)
    BY <1>1, <1>2 DEF InputOK, TouchesOwned
  <2>2. Ci!Owners(id) = {o \in TouchUsers : v[o] = id}
    BY InputFacts DEF Ci!Owners, HeldIds, TouchUsers
  <2> HIDE DEF v
  <2>3. PICK o \in TouchUsers : v[o] = id
    BY <1>2, <2>1 DEF Owned
  <2>4. \A p \in TouchUsers : v[p] = id => p = o
    BY <1>2, <2>1, <2>3 DEF Owned
  <2>5. Ci!Owners(id) = {o}
    BY <2>2, <2>3, <2>4
  <2> QED
    BY <2>5
<1>3. \A x \in Ci!Keys : Ci!BitOf[x] \in ci.st.buttons => x \in ci.held \/ (x = "L" /\ ci.stuck)
  BY KeyBits DEF InputInv, KeysTrue
<1>4. ci.io.mode # "NONE" => ci.io.id >= 0 /\ (Ci!FramesMatter(ci.io) => ci.io.frame < SwipeFrames)
  BY DEF InputInv, InputOK
<1> QED
  BY <1>2, <1>3, <1>4 DEF Ci!InputIsReal, InputInv

-----------------------------------------------------------------------------
(* The settings file. *)

\* The lines of a section, and those that WriteFile and ParseFile deal with before place p.
LinesOf(x) == {Cf!Items(x)[j] : j \in 1 .. Len(Cf!Items(x))}
Before(p, x, i) == x < p.s \/ (x = p.s /\ \E j \in 1 .. p.n - 1 : Cf!Items(x)[j] = i)
PlaceOK(p) ==
  /\ p \in [s : Nat, n : Nat \ {0}] /\ p.s <= NHosts + 1 /\ p.n <= Len(Cf!Items(p.s))
  /\ p.s = NHosts + 1 => p.n = 1

\* A file up to p, and all the lines for what is in memory.
Part(f, p) == [x \in 0 .. NHosts |-> [i \in LinesOf(x) |-> IF Before(p, x, i) THEN f[x][i] ELSE 0]]
LinesIn(m) == [x \in 0 .. NHosts |-> [i \in LinesOf(x) |-> Cf!Line(m, x, i)]]

\* What memory and file hold.
HostRecord == [known : BOOLEAN, online : Int, keys : [Cf!Keys -> Int], rp_key_data : BOOLEAN]
MemRecord == [global : [LinesOf(0) -> Int], hosts : [Cf!Hosts -> HostRecord]]
FileOfLines(f) ==
  /\ f = [x \in 0 .. NHosts |-> f[x]]
  /\ \A x \in 0 .. NHosts : f[x] \in [LinesOf(x) -> Int]

\* The token is written after the npsso, and the type of a console's key after the keys: where
\* the former is, the latter are whole.
LoginOK(g) == g["psn_access_token"] # 0 => g["npsso"] \notin {0, Cf!Cut}
MemOK(m) ==
  /\ m \in MemRecord /\ LoginOK(m.global)
  /\ \A h \in Cf!Hosts :
       /\ ~m.hosts[h].known => m.hosts[h] = Cf!NoHost
       /\ m.hosts[h].rp_key_data => \A i \in Cf!Keys : m.hosts[h].keys[i] = h
       /\ m.hosts[h].known /\ m.hosts[h].online = 0 => m.global["psn_online_id"] = 0
FileOK(f) ==
  /\ FileOfLines(f) /\ LoginOK(f[0])
  /\ \A h \in Cf!Hosts :
       /\ \A i \in LinesOf(h) : f[h][i] # 0 => f[h]["host"] = h
       /\ f[h]["rp_key_type"] # 0 => \A i \in Cf!Keys : f[h][i] \in {0, h}

\* While the file is read, memory holds what the part read says.
ReadOK(r) ==
  LET g == Part(r.file, r.place) IN
  /\ r.mem = Cf!Content(g)
  /\ r.place.s = 0 => r.host = 0
  /\ r.place.s \in Cf!Hosts /\ g[r.place.s]["host"] # 0 =>
       r.host = r.place.s /\ r.read = {i \in Cf!Keys : g[r.place.s][i] # 0}

CfFields == {"at", "then", "mem", "file", "whole", "saved", "place", "host", "read", "changes", "crashes"}
CfInv(r) ==
  /\ DOMAIN r = CfFields
  /\ r.at \in {"off", "parse", "started", "up", "exchange", "open", "writing"} /\ r.then \in {"up", "exchange"}
  /\ FileOK(r.file) /\ MemOK(r.mem)
  /\ r.at = "off" => r.mem = Cf!Defaults /\ r.place = Cf!Begin /\ r.host = 0 /\ r.read = {} /\ r.file = Cf!NoLines
  /\ r.at \in {"parse", "writing"} => PlaceOK(r.place)
  /\ r.at = "parse" => ReadOK(r)
  /\ r.at = "started" => r.mem = Cf!Content(r.file)
  /\ r.at = "writing" => r.file = Part(LinesIn(r.mem), r.place) /\ ~r.whole
  /\ r.at # "off" /\ r.whole => Cf!Effective(Cf!Content(r.file)) = Cf!Effective(r.saved)
SettingsInv == CfInv(cf)

\* The lines of the two kinds of sections.
LEMMA GlobalLines ==
  /\ LinesOf(0) = {"psn_online_id", "npsso", "psn_access_token", "psn_token_expiry", "duid",
                   "ps5_library_resolution", "title_streamable"}
  /\ Cf!ToSet(Cf!Items(0)) = LinesOf(0) /\ Cf!ToSet(Cf!GlobalItems) = LinesOf(0)
<1>1. Cf!Items(0) = Cf!GlobalItems
  BY DEF Cf!Items
<1>2. Len(Cf!GlobalItems) = 7 /\ DOMAIN Cf!GlobalItems = 1 .. 7
  BY DEF Cf!GlobalItems
<1>3. \A i : i \in {Cf!GlobalItems[j] : j \in 1 .. 7} <=>
        i \in {"psn_online_id", "npsso", "psn_access_token", "psn_token_expiry", "duid",
              "ps5_library_resolution", "title_streamable"}
  BY DEF Cf!GlobalItems
<1> QED
  BY <1>1, <1>2, <1>3 DEF LinesOf, Cf!ToSet

LEMMA HostLines ==
  ASSUME NEW h \in Nat \ {0}
  PROVE  /\ LinesOf(h) = {"host", "psn_online_id"} \cup Cf!Keys
         /\ Cf!ToSet(Cf!Items(h)) = LinesOf(h) /\ Cf!ToSet(Cf!HostItems) = LinesOf(h)
<1>1. Cf!Items(h) = Cf!HostItems
  BY DEF Cf!Items
<1>2. Len(Cf!HostItems) = 5 /\ DOMAIN Cf!HostItems = 1 .. 5
  BY DEF Cf!HostItems
<1>3. \A i : i \in {Cf!HostItems[j] : j \in 1 .. 5} <=> i \in {"host", "psn_online_id"} \cup Cf!Keys
  BY DEF Cf!HostItems, Cf!Keys
<1> QED
  BY <1>1, <1>2, <1>3 DEF LinesOf, Cf!ToSet

\* A step of the loop deals with one more line, in the order of the file.
LEMMA NextLine ==
  ASSUME NEW p, PlaceOK(p), p.s <= NHosts
  PROVE  /\ PlaceOK(Cf!After(p)) /\ Cf!ItemAt(p) \in LinesOf(p.s)
         /\ \A x \in 0 .. NHosts : \A i \in LinesOf(x) :
              Before(Cf!After(p), x, i) <=> Before(p, x, i) \/ (x = p.s /\ i = Cf!ItemAt(p))
<1> DEFINE L == Len(Cf!Items(p.s))
           q == Cf!After(p)
<1>1. p \in [s : Nat, n : Nat \ {0}] /\ p.n \in 1 .. L /\ L \in Nat /\ NHosts \in Nat
  BY SettingsAssumption DEF PlaceOK, Cf!Items, Cf!GlobalItems, Cf!HostItems
<1>2. \A x \in Nat : Len(Cf!Items(x)) \in Nat \ {0}
  BY DEF Cf!Items, Cf!GlobalItems, Cf!HostItems
<1>3. CASE p.n < L
  <2>1. q.s = p.s /\ q.n = p.n + 1 /\ q \in [s : Nat, n : Nat \ {0}]
    BY <1>1, <1>3 DEF Cf!After
  <2>2. \A x, i : (\E j \in 1 .. q.n - 1 : Cf!Items(x)[j] = i) <=>
                  (\E j \in 1 .. p.n - 1 : Cf!Items(x)[j] = i) \/ i = Cf!Items(x)[p.n]
    BY <1>1, <2>1
  <2>3. PlaceOK(q)
    BY <1>1, <1>3, <2>1 DEF PlaceOK
  <2>4. Cf!ItemAt(p) \in LinesOf(p.s)
    BY <1>1 DEF LinesOf, Cf!ItemAt
  <2> HIDE DEF q
  <2>5. ASSUME NEW x \in 0 .. NHosts, NEW i
        PROVE  Before(q, x, i) <=> Before(p, x, i) \/ (x = p.s /\ i = Cf!ItemAt(p))
    <3>1. CASE x = p.s
      BY <1>1, <2>1, <2>2, <3>1 DEF Before, Cf!ItemAt
    <3>2. CASE x # p.s
      BY <1>1, <2>1, <3>2 DEF Before
    <3> QED
      BY <3>1, <3>2
  <2> QED
    BY <2>3, <2>4, <2>5 DEF q
<1>4. CASE ~(p.n < L)
  <2>1. q = [s |-> p.s + 1, n |-> 1] /\ p.n = L
    BY <1>1, <1>4 DEF Cf!After
  <2> HIDE DEF q
  <2>2. PlaceOK(q)
    <3>1. q \in [s : Nat, n : Nat \ {0}] /\ q.n = 1 /\ q.s = p.s + 1
      BY <1>1, <2>1
    <3>2. 1 <= Len(Cf!Items(q.s))
      BY <1>1, <1>2, <3>1
    <3> QED
      BY <1>1, <3>1, <3>2 DEF PlaceOK
  <2>3. Cf!ItemAt(p) \in LinesOf(p.s)
    BY <1>1 DEF LinesOf, Cf!ItemAt
  <2>4. \A i \in LinesOf(p.s) : (\E j \in 1 .. p.n - 1 : Cf!Items(p.s)[j] = i) \/ i = Cf!Items(p.s)[p.n]
    BY <1>1, <2>1 DEF LinesOf
  <2>5. \A x, i : ~\E j \in 1 .. q.n - 1 : Cf!Items(x)[j] = i
    BY <2>1
  <2>6. ASSUME NEW x \in 0 .. NHosts, NEW i \in LinesOf(x)
        PROVE  Before(q, x, i) <=> Before(p, x, i) \/ (x = p.s /\ i = Cf!ItemAt(p))
    <3>1. CASE x = p.s
      BY <1>1, <2>1, <2>4, <3>1 DEF Before, Cf!ItemAt
    <3>2. CASE x # p.s
      BY <1>1, <2>1, <2>5, <3>2 DEF Before
    <3> QED
      BY <3>1, <3>2
  <2> QED
    BY <2>2, <2>3, <2>6 DEF q
<1> QED
  BY <1>3, <1>4

\* What comes before what: all global lines before a console's, its name before the other
\* lines, the npsso before the token and the keys before their type.
LEMMA Order ==
  ASSUME NEW p, PlaceOK(p)
  PROVE  /\ Before(p, 0, "psn_access_token") => Before(p, 0, "npsso")
         /\ p.s = 0 /\ Cf!ItemAt(p) = "npsso" => ~Before(p, 0, "psn_access_token")
         /\ p.s = 0 /\ Cf!ItemAt(p) = "psn_access_token" => Before(p, 0, "npsso")
         /\ \A x \in Cf!Hosts : \A i \in LinesOf(x) :
              /\ Before(p, x, i) => Before(p, x, "host") /\ \A j \in LinesOf(0) : Before(p, 0, j)
              /\ Before(p, x, "rp_key_type") => \A j \in Cf!Keys : Before(p, x, j)
         /\ p.s \in Cf!Hosts =>
              /\ \A j \in LinesOf(0) : Before(p, 0, j)
              /\ Cf!ItemAt(p) = "host" => \A i \in LinesOf(p.s) : ~Before(p, p.s, i)
              /\ Cf!ItemAt(p) # "host" => Before(p, p.s, "host")
              /\ Cf!ItemAt(p) \in {"rp_key", "rp_regist_key"} => ~Before(p, p.s, "rp_key_type")
<1>1. /\ \A j \in 1 .. 7 : /\ Cf!GlobalItems[j] = "npsso" <=> j = 2
                           /\ Cf!GlobalItems[j] = "psn_access_token" <=> j = 3
      /\ Len(Cf!GlobalItems) = 7
  BY DEF Cf!GlobalItems
<1>2. /\ \A j \in 1 .. 5 : /\ Cf!HostItems[j] = "host" <=> j = 1
                           /\ Cf!HostItems[j] = "rp_key_type" <=> j = 5
                           /\ Cf!HostItems[j] = "rp_key" <=> j = 3
                           /\ Cf!HostItems[j] = "rp_regist_key" <=> j = 4
      /\ Len(Cf!HostItems) = 5
  <2>1. /\ Cf!HostItems[1] = "host" /\ Cf!HostItems[2] = "psn_online_id" /\ Cf!HostItems[3] = "rp_key"
        /\ Cf!HostItems[4] = "rp_regist_key" /\ Cf!HostItems[5] = "rp_key_type" /\ Len(Cf!HostItems) = 5
    BY DEF Cf!HostItems
  <2>2. \A j \in 1 .. 5 : j = 1 \/ j = 2 \/ j = 3 \/ j = 4 \/ j = 5
    OBVIOUS
  <2> QED
    BY <2>1, <2>2
<1>3. p.s \in Nat /\ p.n \in Nat \ {0} /\ Cf!Hosts \subseteq Nat \ {0}
  BY SettingsAssumption DEF PlaceOK, Cf!Hosts
<1>33. p.n <= Len(Cf!Items(p.s))
  BY DEF PlaceOK
<1>4. CASE p.s = 0
  <2>0. Cf!Items(p.s) = Cf!GlobalItems
    BY <1>4 DEF Cf!Items
  <2>00. p.n <= 7
    BY <1>1, <1>33, <2>0
  <2>1. Cf!Items(p.s) = Cf!GlobalItems /\ p.n \in 1 .. 7
    BY <1>3, <2>0, <2>00
  <2>2. \A i : Before(p, 0, i) <=> \E j \in 1 .. p.n - 1 : Cf!GlobalItems[j] = i
    BY <1>4, <2>1 DEF Before
  <2>3. \A x \in Cf!Hosts : \A i : ~Before(p, x, i)
    BY <1>3, <1>4 DEF Before
  <2>4. Cf!ItemAt(p) = Cf!GlobalItems[p.n]
    BY <2>1 DEF Cf!ItemAt
  <2>5. p.s \notin Cf!Hosts
    BY <1>3, <1>4
  <2>6. Before(p, 0, "psn_access_token") <=> \E j \in 1 .. p.n - 1 : j = 3
    BY <1>1, <2>1, <2>2
  <2>7. Before(p, 0, "npsso") <=> \E j \in 1 .. p.n - 1 : j = 2
    BY <1>1, <2>1, <2>2
  <2>8. /\ Cf!ItemAt(p) = "npsso" <=> p.n = 2
        /\ Cf!ItemAt(p) = "psn_access_token" <=> p.n = 3
    BY <1>1, <2>1, <2>4
  <2> DEFINE m == p.n
  <2>9. /\ (\E j \in 1 .. p.n - 1 : j = 3) <=> p.n > 3
        /\ (\E j \in 1 .. p.n - 1 : j = 2) <=> p.n > 2
    <3> HIDE DEF m
    <3>1. m \in 1 .. 7
      BY <2>1 DEF m
    <3>2. /\ (\E j \in 1 .. m - 1 : j = 3) <=> m > 3
          /\ (\E j \in 1 .. m - 1 : j = 2) <=> m > 2
      BY <3>1
    <3> QED
      BY <3>2 DEF m
  <2> QED
    BY <2>1, <2>3, <2>5, <2>6, <2>7, <2>8, <2>9
<1>5. CASE p.s # 0
  <2>0. Cf!Items(p.s) = Cf!HostItems
    BY <1>5 DEF Cf!Items
  <2>00. p.n <= 5
    BY <1>2, <1>33, <2>0
  <2>1. Cf!Items(p.s) = Cf!HostItems /\ p.n \in 1 .. 5
    BY <1>3, <2>0, <2>00
  <2>2. \A i : Before(p, 0, i)
    BY <1>3, <1>5 DEF Before
  <2>3. Cf!ItemAt(p) = Cf!HostItems[p.n]
    BY <2>1 DEF Cf!ItemAt
  <2>4. \A i : Before(p, p.s, i) <=> \E j \in 1 .. p.n - 1 : Cf!HostItems[j] = i
    BY <1>3, <2>1 DEF Before
  <2> DEFINE m == p.n
  <2> HIDE DEF m
  <2>5. /\ Before(p, p.s, "host") <=> m > 1
        /\ ~Before(p, p.s, "rp_key_type")
    <3>1. m \in 1 .. 5 /\ \A i : Before(p, p.s, i) <=> \E j \in 1 .. m - 1 : Cf!HostItems[j] = i
      BY <2>1, <2>4 DEF m
    <3>2. Before(p, p.s, "host") <=> \E j \in 1 .. m - 1 : j = 1
      BY <1>2, <3>1
    <3>3. Before(p, p.s, "rp_key_type") <=> \E j \in 1 .. m - 1 : j = 5
      BY <1>2, <3>1
    <3> QED
      BY <3>1, <3>2, <3>3
  <2>6. \A i : Before(p, p.s, i) => m > 1
    BY <2>1, <2>4 DEF m
  <2>7. \A x \in Cf!Hosts : \A i : Before(p, x, i) =>
          /\ Before(p, x, "host")
          /\ i = "rp_key_type" => \A j \in Cf!Keys : Before(p, x, j)
    <3> SUFFICES ASSUME NEW x \in Cf!Hosts, NEW i, Before(p, x, i)
                 PROVE  /\ Before(p, x, "host")
                        /\ i = "rp_key_type" => \A j \in Cf!Keys : Before(p, x, j)
      OBVIOUS
    <3>1. CASE x = p.s
      BY <2>4, <2>5, <2>6, <3>1
    <3>2. CASE x # p.s
      BY <1>3, <3>2 DEF Before
    <3> QED
      BY <3>1, <3>2
  <2> QED
    <3>1. Cf!ItemAt(p) = "host" => \A i : ~Before(p, p.s, i)
      <4>1. Cf!ItemAt(p) = "host" => m = 1
        BY <1>2, <2>1, <2>3 DEF m
      <4> QED
        BY <2>6, <4>1
    <3>2. Cf!ItemAt(p) # "host" => Before(p, p.s, "host")
      BY <1>2, <2>1, <2>3, <2>5 DEF m
    <3>3. \A x \in Cf!Hosts : \A i : Before(p, x, i) => Before(p, x, "host")
      BY <2>7
    <3>4. \A x \in Cf!Hosts : Before(p, x, "rp_key_type") => \A j \in Cf!Keys : Before(p, x, j)
      BY <2>7
    <3> QED
      BY <1>5, <2>2, <2>5, <3>1, <3>2, <3>3, <3>4
<1> QED
  BY <1>4, <1>5

\* What a step of the loop adds to the part dealt with; none of it at the beginning, all of
\* it at the end.
LEMMA PartGrows ==
  ASSUME NEW f, NEW p, PlaceOK(p), p.s <= NHosts
  PROVE  Part(f, Cf!After(p)) = [Part(f, p) EXCEPT ![p.s][Cf!ItemAt(p)] = f[p.s][Cf!ItemAt(p)]]
<1> DEFINE i0 == Cf!ItemAt(p)
           g == Part(f, p)
           q == Cf!After(p)
           w == [Part(f, p) EXCEPT ![p.s][i0] = f[p.s][i0]]
<1>1. i0 \in LinesOf(p.s) /\ p.s \in 0 .. NHosts
  BY NextLine, SettingsAssumption DEF PlaceOK
<1>2. \A x \in 0 .. NHosts : \A i \in LinesOf(x) : Before(q, x, i) <=> Before(p, x, i) \/ (x = p.s /\ i = i0)
  BY NextLine
<1>3. ASSUME NEW x \in 0 .. NHosts PROVE w[x] = [i \in LinesOf(x) |-> IF Before(q, x, i) THEN f[x][i] ELSE 0]
  <2>1. CASE x = p.s
    <3>1. w[x] = [g[x] EXCEPT ![i0] = f[x][i0]]
      BY <2>1 DEF Part
    <3>2. g[x] = [i \in LinesOf(x) |-> IF Before(p, x, i) THEN f[x][i] ELSE 0]
      BY DEF Part
    <3> HIDE DEF i0, q, g, w
    <3>3. w[x] = [i \in LinesOf(x) |-> IF i = i0 THEN f[x][i0] ELSE IF Before(p, x, i) THEN f[x][i] ELSE 0]
      BY <3>1, <3>2
    <3> QED
      BY <1>2, <2>1, <3>3
  <2>2. CASE x # p.s
    <3>1. w[x] = g[x]
      BY <2>2 DEF Part
    <3>2. g[x] = [i \in LinesOf(x) |-> IF Before(p, x, i) THEN f[x][i] ELSE 0]
      BY DEF Part
    <3> HIDE DEF i0, q, g, w
    <3> QED
      BY <1>2, <2>2, <3>1, <3>2
  <2> QED
    BY <2>1, <2>2
<1>4. w = [x \in 0 .. NHosts |-> w[x]]
  BY DEF Part
<1> HIDE DEF w, q
<1>5. w = Part(f, q)
  BY <1>3, <1>4 DEF Part
<1> QED
  BY <1>5 DEF w, q

LEMMA PartEnds ==
  ASSUME NEW f, FileOfLines(f)
  PROVE  /\ PlaceOK(Cf!Begin) /\ Part(f, Cf!Begin) = Cf!NoLines
         /\ \A p : PlaceOK(p) /\ ~(p.s <= NHosts) => Part(f, p) = f
<1>1. PlaceOK(Cf!Begin)
  BY SettingsAssumption DEF PlaceOK, Cf!Begin, Cf!Items, Cf!GlobalItems
<1>2. \A x \in 0 .. NHosts : \A i : ~Before(Cf!Begin, x, i)
  BY SettingsAssumption DEF Before, Cf!Begin
<1>3. \A x \in 0 .. NHosts : Cf!ToSet(Cf!Items(x)) = LinesOf(x)
  BY GlobalLines, HostLines, SettingsAssumption
<1>4. Part(f, Cf!Begin) = Cf!NoLines
  BY <1>2, <1>3 DEF Part, Cf!NoLines
<1>5. ASSUME NEW p, PlaceOK(p), ~(p.s <= NHosts) PROVE Part(f, p) = f
  <2>1. \A x \in 0 .. NHosts : \A i : Before(p, x, i)
    BY <1>5, SettingsAssumption DEF PlaceOK, Before
  <2>2. \A x \in 0 .. NHosts : f[x] = [i \in LinesOf(x) |-> f[x][i]]
    BY DEF FileOfLines
  <2> QED
    BY <2>1, <2>2 DEF Part, FileOfLines
<1> QED
  BY <1>1, <1>4, <1>5

\* A part of a file in order is in order, and so is the file for what is in memory.
LEMMA PartOK ==
  ASSUME NEW f, FileOK(f), NEW p, PlaceOK(p)
  PROVE  FileOK(Part(f, p))
<1> DEFINE g == Part(f, p)
<1>0. 0 \in 0 .. NHosts /\ Cf!Hosts = (0 .. NHosts) \ {0} /\ Cf!Hosts \subseteq Nat \ {0}
  BY SettingsAssumption DEF Cf!Hosts
<1>1. /\ g = [x \in 0 .. NHosts |-> g[x]]
      /\ \A x \in 0 .. NHosts : \A i \in LinesOf(x) : g[x][i] = IF Before(p, x, i) THEN f[x][i] ELSE 0
  BY DEF Part
<1>2. \A x \in 0 .. NHosts : g[x] \in [LinesOf(x) -> Int]
  BY DEF Part, FileOK, FileOfLines
<1> HIDE DEF g
<1>3. LoginOK(g[0])
  BY <1>0, <1>1, GlobalLines, Order DEF FileOK, LoginOK
<1>4. ASSUME NEW h \in Cf!Hosts
      PROVE  /\ \A i \in LinesOf(h) : g[h][i] # 0 => g[h]["host"] = h
             /\ g[h]["rp_key_type"] # 0 => \A i \in Cf!Keys : g[h][i] \in {0, h}
  <2>1. LinesOf(h) = {"host", "psn_online_id"} \cup Cf!Keys /\ "rp_key_type" \in Cf!Keys /\ h \in 0 .. NHosts
    BY <1>0, HostLines DEF Cf!Keys
  <2>2. \A i \in LinesOf(h) : g[h][i] # 0 => Before(p, h, i) /\ f[h][i] # 0
    BY <1>1, <2>1
  <2>3. \A i \in LinesOf(h) : Before(p, h, i) => Before(p, h, "host")
    BY Order
  <2>4. Before(p, h, "rp_key_type") => \A i \in Cf!Keys : Before(p, h, i)
    BY <2>1, Order
  <2> QED
    BY <1>1, <2>1, <2>2, <2>3, <2>4 DEF FileOK
<1> QED
  BY <1>1, <1>2, <1>3, <1>4 DEF g, FileOK, FileOfLines

LEMMA LinesInOK ==
  ASSUME NEW m, MemOK(m)
  PROVE  FileOK(LinesIn(m)) /\ \A x \in 0 .. NHosts : \A i \in LinesOf(x) : LinesIn(m)[x][i] = Cf!Line(m, x, i)
<1> DEFINE f == LinesIn(m)
<1>0. 0 \in 0 .. NHosts /\ Cf!Hosts = (0 .. NHosts) \ {0} /\ Cf!Hosts \subseteq Nat \ {0}
  BY SettingsAssumption DEF Cf!Hosts
<1>1. /\ f = [x \in 0 .. NHosts |-> f[x]]
      /\ \A x \in 0 .. NHosts : f[x] = [i \in LinesOf(x) |-> Cf!Line(m, x, i)]
  BY DEF LinesIn
<1> HIDE DEF f
<1>2. ASSUME NEW i \in LinesOf(0) PROVE f[0][i] = m.global[i] /\ m.global[i] \in Int
  <2>1. f[0][i] = Cf!Line(m, 0, i)
    BY <1>0, <1>1
  <2>2. Cf!Line(m, 0, i) = m.global[i]
    BY DEF Cf!Line
  <2> QED
    BY <2>1, <2>2 DEF MemOK, MemRecord
<1>3. LoginOK(f[0])
  BY <1>2, GlobalLines DEF MemOK, LoginOK
<1>4. ASSUME NEW h \in Cf!Hosts
      PROVE  /\ \A i \in LinesOf(h) : f[h][i] \in Int /\ (f[h][i] # 0 => f[h]["host"] = h)
             /\ f[h]["rp_key_type"] # 0 => \A i \in Cf!Keys : f[h][i] \in {0, h}
  <2>1. LinesOf(h) = {"host", "psn_online_id"} \cup Cf!Keys /\ "rp_key_type" \in Cf!Keys /\ h \in Nat \ {0}
        /\ "host" \notin Cf!Keys /\ "psn_online_id" \notin Cf!Keys
    BY <1>0, HostLines DEF Cf!Keys
  <2>2. \A i \in LinesOf(h) : f[h][i] = Cf!Line(m, h, i)
    BY <1>0, <1>1
  <2> DEFINE r == m.hosts[h]
  <2>3. r \in HostRecord /\ (r.rp_key_data => \A i \in Cf!Keys : r.keys[i] = h)
    BY DEF MemOK, MemRecord
  <2>4. \A i : Cf!Line(m, h, i) = IF ~r.known \/ (i \in Cf!Keys /\ ~r.rp_key_data) THEN 0
                ELSE CASE i = "host" -> h [] i = "psn_online_id" -> r.online [] i \in Cf!Keys -> r.keys[i]
    BY <2>1 DEF Cf!Line
  <2> HIDE DEF r
  <2>5. f[h]["host"] = IF r.known THEN h ELSE 0
    BY <2>1, <2>2, <2>4
  <2>6. f[h]["psn_online_id"] = IF r.known THEN r.online ELSE 0
    BY <2>1, <2>2, <2>4
  <2>7. \A i \in Cf!Keys : f[h][i] = IF r.known /\ r.rp_key_data THEN h ELSE 0
    BY <2>1, <2>2, <2>3, <2>4
  <2> QED
    BY <2>1, <2>3, <2>5, <2>6, <2>7 DEF HostRecord
<1>5. \A x \in 0 .. NHosts : f[x] \in [LinesOf(x) -> Int]
  <2>1. ASSUME NEW x \in 0 .. NHosts, NEW i \in LinesOf(x) PROVE f[x][i] \in Int
    BY <1>0, <1>2, <1>4
  <2> QED
    BY <1>1, <2>1
<1> QED
  BY <1>1, <1>3, <1>4, <1>5 DEF f, FileOK, FileOfLines

\* What a file in order says is in order: each console has no keys or its own.
LEMMA ContentOK ==
  ASSUME NEW f, FileOK(f)
  PROVE  MemOK(Cf!Content(f))
<1> DEFINE m == Cf!Content(f)
<1>0. 0 \in 0 .. NHosts /\ Cf!Hosts = (0 .. NHosts) \ {0} /\ Cf!Hosts \subseteq Nat \ {0}
  BY SettingsAssumption DEF Cf!Hosts
<1>1. m.global = f[0] /\ f[0] \in [LinesOf(0) -> Int] /\ f[0]["psn_online_id"] \in Int
  BY <1>0, GlobalLines DEF Cf!Content, FileOK, FileOfLines
<1>2. ASSUME NEW h \in Cf!Hosts
      PROVE  /\ m.hosts[h] \in HostRecord
             /\ ~m.hosts[h].known => m.hosts[h] = Cf!NoHost
             /\ m.hosts[h].rp_key_data => \A i \in Cf!Keys : m.hosts[h].keys[i] = h
             /\ m.hosts[h].known /\ m.hosts[h].online = 0 => m.global["psn_online_id"] = 0
  <2>1. f[h] \in [{"host", "psn_online_id"} \cup Cf!Keys -> Int] /\ "rp_key_type" \in Cf!Keys
    BY <1>0, HostLines DEF FileOK, FileOfLines, Cf!Keys
  <2>2. f[h]["rp_key_type"] # 0 => \A i \in Cf!Keys : f[h][i] \in {0, h}
    BY DEF FileOK
  <2>3. CASE f[h]["host"] = 0
    <3>1. m.hosts[h] = Cf!NoHost
      BY <2>3 DEF Cf!Content
    <3> QED
      BY <3>1 DEF Cf!NoHost, HostRecord
  <2>4. CASE f[h]["host"] # 0
    <3>1. m.hosts[h] = [known |-> TRUE,
                        online |-> IF f[h]["psn_online_id"] # 0 THEN f[h]["psn_online_id"] ELSE f[0]["psn_online_id"],
                        keys |-> [z \in Cf!Keys |-> f[h][z]],
                        rp_key_data |-> \A z \in Cf!Keys : f[h][z] # 0]
      BY <2>4 DEF Cf!Content
    <3> HIDE DEF m
    <3>2. [z \in Cf!Keys |-> f[h][z]] \in [Cf!Keys -> Int]
      BY <2>1
    <3>3. (\A z \in Cf!Keys : f[h][z] # 0) \in BOOLEAN
      OBVIOUS
    <3>4. m.hosts[h] \in HostRecord
      BY <1>1, <2>1, <3>1, <3>2, <3>3 DEF HostRecord
    <3>5. /\ m.hosts[h].known
          /\ m.hosts[h].online = IF f[h]["psn_online_id"] # 0 THEN f[h]["psn_online_id"] ELSE f[0]["psn_online_id"]
          /\ m.hosts[h].keys = [z \in Cf!Keys |-> f[h][z]]
          /\ m.hosts[h].rp_key_data => \A z \in Cf!Keys : f[h][z] # 0
      BY <3>1
    <3> QED
      BY <1>1, <2>1, <2>2, <3>4, <3>5
  <2> QED
    BY <2>3, <2>4
<1>3. m = [global |-> m.global, hosts |-> [h \in Cf!Hosts |-> m.hosts[h]]]
  BY DEF Cf!Content
<1> HIDE DEF m
<1>4. m \in MemRecord
  <2>1. [h \in Cf!Hosts |-> m.hosts[h]] \in [Cf!Hosts -> HostRecord]
    BY <1>2
  <2> QED
    BY <1>1, <1>3, <2>1 DEF MemRecord
<1>5. LoginOK(m.global)
  BY <1>1 DEF FileOK
<1>6. MemOK(m)
  BY <1>2, <1>4, <1>5 DEF MemOK
<1> QED
  BY <1>6 DEF m

\* What is written and read again is what was in memory, but for keys that were not complete.
LEMMA RoundTrip ==
  ASSUME NEW m, MemOK(m)
  PROVE  Cf!Effective(Cf!Content(LinesIn(m))) = Cf!Effective(m)
<1> DEFINE f == LinesIn(m)
           c == Cf!Content(f)
           Kept(x) == [x EXCEPT !.hosts = [h \in Cf!Hosts |-> IF x.hosts[h].rp_key_data THEN x.hosts[h]
                                             ELSE [x.hosts[h] EXCEPT !.keys = Cf!NoHost.keys]]]
<1>0. 0 \in 0 .. NHosts /\ Cf!Hosts = (0 .. NHosts) \ {0} /\ Cf!Hosts \subseteq Nat \ {0}
  BY SettingsAssumption DEF Cf!Hosts
<1>1. FileOK(f) /\ \A x \in 0 .. NHosts : \A i \in LinesOf(x) : f[x][i] = Cf!Line(m, x, i)
  BY LinesInOK
<1>2. f[0] = m.global /\ "psn_online_id" \in LinesOf(0) /\ m.global["psn_online_id"] \in Int
  <2>1. f[0] \in [LinesOf(0) -> Int] /\ m.global \in [LinesOf(0) -> Int]
    BY <1>0, <1>1 DEF FileOK, FileOfLines, MemOK, MemRecord
  <2>2. \A i \in LinesOf(0) : f[0][i] = m.global[i]
    BY <1>0, <1>1 DEF Cf!Line
  <2> HIDE DEF f
  <2> QED
    BY <2>1, <2>2, GlobalLines
<1>3. MemOK(c) /\ c.global = f[0]
  BY <1>1, ContentOK DEF Cf!Content
<1>4. \A x : Cf!Effective(x) = Kept(x)
  BY DEF Cf!Effective
<1>5. ASSUME NEW h \in Cf!Hosts
      PROVE  (IF c.hosts[h].rp_key_data THEN c.hosts[h] ELSE [c.hosts[h] EXCEPT !.keys = Cf!NoHost.keys])
             = (IF m.hosts[h].rp_key_data THEN m.hosts[h] ELSE [m.hosts[h] EXCEPT !.keys = Cf!NoHost.keys])
  <2> DEFINE r == m.hosts[h]
             d == c.hosts[h]
  <2>1. LinesOf(h) = {"host", "psn_online_id"} \cup Cf!Keys /\ "rp_key_type" \in Cf!Keys /\ h \in Nat \ {0}
        /\ "host" \notin Cf!Keys /\ "psn_online_id" \notin Cf!Keys /\ h \in 0 .. NHosts
    BY <1>0, HostLines DEF Cf!Keys
  <2>2. \A i \in LinesOf(h) : f[h][i] = Cf!Line(m, h, i)
    BY <1>0, <1>1
  <2>3. /\ r \in HostRecord /\ (r.rp_key_data => \A i \in Cf!Keys : r.keys[i] = h)
        /\ ~r.known => r = Cf!NoHost
        /\ r.known /\ r.online = 0 => m.global["psn_online_id"] = 0
    BY DEF MemOK, MemRecord
  <2>4. \A i : Cf!Line(m, h, i) = IF ~r.known \/ (i \in Cf!Keys /\ ~r.rp_key_data) THEN 0
                ELSE CASE i = "host" -> h [] i = "psn_online_id" -> r.online [] i \in Cf!Keys -> r.keys[i]
    BY <2>1 DEF Cf!Line
  <2>5. d = IF f[h]["host"] = 0 THEN Cf!NoHost
            ELSE [known |-> TRUE,
                  online |-> IF f[h]["psn_online_id"] # 0 THEN f[h]["psn_online_id"] ELSE f[0]["psn_online_id"],
                  keys |-> [z \in Cf!Keys |-> f[h][z]],
                  rp_key_data |-> \A z \in Cf!Keys : f[h][z] # 0]
    BY DEF Cf!Content
  <2> HIDE DEF r, d, f, c
  <2>6. f[h]["host"] = IF r.known THEN h ELSE 0
    BY <2>1, <2>2, <2>4
  <2>7. f[h]["psn_online_id"] = IF r.known THEN r.online ELSE 0
    BY <2>1, <2>2, <2>4
  <2>8. \A i \in Cf!Keys : f[h][i] = IF r.known /\ r.rp_key_data THEN h ELSE 0
    BY <2>1, <2>2, <2>3, <2>4
  <2>9. CASE ~r.known
    BY <2>1, <2>3, <2>5, <2>6, <2>9 DEF r, d
  <2>10. CASE r.known
    <3>1. d.known = TRUE /\ d.online = r.online /\ d.keys = [z \in Cf!Keys |-> f[h][z]]
          /\ d.rp_key_data = (\A z \in Cf!Keys : f[h][z] # 0)
      BY <1>2, <2>1, <2>3, <2>5, <2>6, <2>7, <2>10 DEF HostRecord
    <3>2. d = [known |-> d.known, online |-> d.online, keys |-> d.keys, rp_key_data |-> d.rp_key_data]
      BY <2>1, <2>5, <2>6, <2>10
    <3>3. r = [known |-> r.known, online |-> r.online, keys |-> r.keys, rp_key_data |-> r.rp_key_data]
          /\ r.keys \in [Cf!Keys -> Int] /\ r.known = TRUE /\ r.rp_key_data \in BOOLEAN
      BY <2>3, <2>10 DEF HostRecord
    <3>4. d.rp_key_data <=> r.rp_key_data
      BY <2>1, <2>8, <2>10, <3>1
    <3>5. d.rp_key_data \in BOOLEAN
      BY <3>1
    <3>6. CASE r.rp_key_data
      <4>1. d.keys = r.keys
        BY <2>3, <2>8, <2>10, <3>1, <3>3, <3>6
      <4>2. d.rp_key_data = r.rp_key_data
        BY <3>3, <3>4, <3>5
      <4>3. d = r
        BY <3>1, <3>2, <3>3, <4>1, <4>2
      <4> QED
        BY <3>6, <4>3 DEF r, d
    <3>7. CASE ~r.rp_key_data
      <4>1. d.rp_key_data = r.rp_key_data
        BY <3>3, <3>4, <3>5
      <4>2. [d EXCEPT !.keys = Cf!NoHost.keys] = [r EXCEPT !.keys = Cf!NoHost.keys]
        BY <3>1, <3>2, <3>3, <4>1
      <4> QED
        BY <3>4, <3>7, <4>2 DEF r, d
    <3> QED
      BY <3>6, <3>7
  <2> QED
    BY <2>9, <2>10
<1>6. c = [global |-> c.global, hosts |-> c.hosts] /\ m = [global |-> m.global, hosts |-> m.hosts]
  BY <1>3 DEF MemOK, MemRecord
<1> HIDE DEF f, c
<1>7. Kept(c) = Kept(m)
  BY <1>2, <1>3, <1>5, <1>6
<1> QED
  BY <1>4, <1>7 DEF c, f

\* One more line in a console's section changes what the file says of that console only.
WithLine(g, h, i, v) == [g EXCEPT ![h][i] = v]
WithHost(m, h, x) == [m EXCEPT !.hosts[h] = x]
LEMMA OneConsole ==
  ASSUME NEW g, FileOfLines(g), NEW h \in Cf!Hosts, NEW i, NEW v,
         NEW w, w = WithLine(g, h, i, v)
  PROVE  /\ Cf!Content(w) = WithHost(Cf!Content(g), h, Cf!Content(w).hosts[h]) /\ w[0] = g[0]
         /\ g[h]["host"] = 0 => Cf!Content(g).hosts[h] = Cf!NoHost
<1>0. 0 \in 0 .. NHosts /\ h \in 0 .. NHosts /\ h # 0 /\ Cf!Hosts \subseteq 0 .. NHosts
  BY SettingsAssumption DEF Cf!Hosts
<1>1. w[0] = g[0] /\ \A x \in Cf!Hosts \ {h} : w[x] = g[x]
  BY <1>0 DEF WithLine, FileOfLines
<1>2. ASSUME NEW x \in Cf!Hosts \ {h} PROVE Cf!Content(w).hosts[x] = Cf!Content(g).hosts[x]
  <2>1. w[x] = g[x] /\ w[0] = g[0]
    BY <1>1
  <2> DEFINE Says(a, b) ==
        IF a["host"] = 0 THEN Cf!NoHost
        ELSE [known |-> TRUE, online |-> IF a["psn_online_id"] # 0 THEN a["psn_online_id"] ELSE b["psn_online_id"],
              keys |-> [z \in Cf!Keys |-> a[z]], rp_key_data |-> \A z \in Cf!Keys : a[z] # 0]
  <2>2. Cf!Content(w).hosts[x] = Says(w[x], w[0]) /\ Cf!Content(g).hosts[x] = Says(g[x], g[0])
    BY DEF Cf!Content
  <2> HIDE DEF Says
  <2> QED
    BY <2>1, <2>2
<1>3. Cf!Content(w).global = Cf!Content(g).global
  BY <1>1 DEF Cf!Content
<1>4. \A f : Cf!Content(f) = [global |-> Cf!Content(f).global, hosts |-> [x \in Cf!Hosts |-> Cf!Content(f).hosts[x]]]
  BY DEF Cf!Content
<1>5. Cf!Content(w) = WithHost(Cf!Content(g), h, Cf!Content(w).hosts[h])
  <2> DEFINE c == Cf!Content(g)
             d == Cf!Content(w)
  <2>1. c = [global |-> c.global, hosts |-> [x \in Cf!Hosts |-> c.hosts[x]]]
    BY <1>4
  <2>2. d = [global |-> d.global, hosts |-> [x \in Cf!Hosts |-> d.hosts[x]]]
    BY <1>4
  <2>3. d.global = c.global /\ \A x \in Cf!Hosts \ {h} : d.hosts[x] = c.hosts[x]
    BY <1>2, <1>3
  <2> HIDE DEF c, d
  <2> DEFINE e == [c EXCEPT !.hosts[h] = d.hosts[h]]
  <2>4. e = [global |-> c.global, hosts |-> [c.hosts EXCEPT ![h] = d.hosts[h]]]
    BY <2>1
  <2>5. [c.hosts EXCEPT ![h] = d.hosts[h]] = [x \in Cf!Hosts |-> d.hosts[x]]
    BY <2>1, <2>3
  <2>6. d = e
    BY <2>2, <2>3, <2>4, <2>5
  <2> QED
    BY <2>6 DEF c, d, WithHost
<1>6. g[h]["host"] = 0 => Cf!Content(g).hosts[h] = Cf!NoHost
  BY DEF Cf!Content
<1> QED
  BY <1>1, <1>5, <1>6

\* What a file says of a console that it has, field by field; consoles with the same fields
\* are the same.
Fields(q, z, o, ks, d) == q \in HostRecord /\ q.known = z /\ q.online = o /\ q.keys = ks /\ (q.rp_key_data <=> d)
OnlineIn(g, h) == IF g[h]["psn_online_id"] # 0 THEN g[h]["psn_online_id"] ELSE g[0]["psn_online_id"]
KeysIn(g, h) == [z \in Cf!Keys |-> g[h][z]]
AllKeysIn(g, h) == \A z \in Cf!Keys : g[h][z] # 0

LEMMA ContentHost ==
  ASSUME NEW g, FileOfLines(g), NEW h \in Cf!Hosts, g[h]["host"] # 0
  PROVE  Fields(Cf!Content(g).hosts[h], TRUE, OnlineIn(g, h), KeysIn(g, h), AllKeysIn(g, h))
<1> DEFINE x == Cf!Content(g).hosts[h]
<1>1. /\ g[h] \in [{"host", "psn_online_id"} \cup Cf!Keys -> Int]
      /\ g[0]["psn_online_id"] \in Int
  <2>1. /\ h \in 0 .. NHosts /\ h \in Nat \ {0} /\ 0 \in 0 .. NHosts
    BY SettingsAssumption DEF Cf!Hosts
  <2>2. g[h] \in [LinesOf(h) -> Int] /\ g[0] \in [LinesOf(0) -> Int]
    BY <2>1 DEF FileOfLines
  <2> QED
    BY <2>1, <2>2, GlobalLines, HostLines
<1>2. x = [known |-> TRUE, online |-> OnlineIn(g, h), keys |-> KeysIn(g, h), rp_key_data |-> AllKeysIn(g, h)]
  BY DEF Cf!Content, OnlineIn, KeysIn, AllKeysIn
<1> HIDE DEF x
<1>3. KeysIn(g, h) \in [Cf!Keys -> Int] /\ OnlineIn(g, h) \in Int
  BY <1>1 DEF KeysIn, OnlineIn
<1>4. AllKeysIn(g, h) \in BOOLEAN
  BY DEF AllKeysIn
<1> QED
  BY <1>2, <1>3, <1>4 DEF x, HostRecord, Fields

LEMMA SameHost ==
  ASSUME NEW q, NEW r, NEW z, NEW o, NEW ks, NEW d, Fields(q, z, o, ks, d), Fields(r, z, o, ks, d)
  PROVE  q = r
<1>1. q.rp_key_data = r.rp_key_data
  BY DEF HostRecord, Fields
<1> QED
  BY <1>1 DEF HostRecord, Fields

\* A line read is a line added to what memory says.
LineRead(r, w, g) ==
  /\ DOMAIN w = CfFields /\ \A x \in CfFields \ {"mem", "host", "read"} : w[x] = r[x]
  /\ w.mem = Cf!Content(g)
  /\ r.place.s = 0 => w.host = 0
  /\ r.place.s \in Cf!Hosts /\ g[r.place.s]["host"] # 0 =>
       w.host = r.place.s /\ w.read = {i \in Cf!Keys : g[r.place.s][i] # 0}
LEMMA ParseLineOK ==
  ASSUME NEW r, DOMAIN r = CfFields, FileOK(r.file), PlaceOK(r.place), ReadOK(r), r.place.s <= NHosts
  PROVE  LineRead(r, Cf!ParseLine(r, Cf!ItemAt(r.place), r.file[r.place.s][Cf!ItemAt(r.place)]),
                  Part(r.file, Cf!After(r.place)))
<1> DEFINE p == r.place
           f == r.file
           i0 == Cf!ItemAt(p)
           v == f[p.s][i0]
           h == p.s
           w == Cf!ParseLine(r, i0, v)
           g == Part(f, p)
           g2 == Part(f, Cf!After(p))
           Goal == /\ DOMAIN w = CfFields /\ \A x \in CfFields \ {"mem", "host", "read"} : w[x] = r[x]
                   /\ w.mem = Cf!Content(g2)
                   /\ h = 0 => w.host = 0
                   /\ h \in Cf!Hosts /\ g2[h]["host"] # 0 =>
                        w.host = h /\ w.read = {i \in Cf!Keys : g2[h][i] # 0}
<1> SUFFICES LineRead(r, w, g2)
  OBVIOUS
<1> HIDE DEF w, g2
<1> SUFFICES Goal
  BY DEF LineRead
<1> USE DEF w, g2
<1>0. 0 \in 0 .. NHosts /\ Cf!Hosts = (0 .. NHosts) \ {0} /\ h \in 0 .. NHosts /\ Cf!Hosts \subseteq Nat \ {0}
  BY SettingsAssumption DEF Cf!Hosts, PlaceOK
<1>1. /\ g = [x \in 0 .. NHosts |-> g[x]]
      /\ \A x \in 0 .. NHosts : g[x] \in [LinesOf(x) -> Int]
      /\ \A x \in 0 .. NHosts : \A i \in LinesOf(x) : g[x][i] = IF Before(p, x, i) THEN f[x][i] ELSE 0
  BY DEF Part, FileOK, FileOfLines
<1>2. i0 \in LinesOf(h) /\ g2 = [g EXCEPT ![h][i0] = v] /\ v \in Int
  BY <1>0, NextLine, PartGrows DEF FileOK, FileOfLines
<1>3. /\ r.mem = Cf!Content(g)
      /\ h = 0 => r.host = 0
      /\ h \in Cf!Hosts /\ g[h]["host"] # 0 => r.host = h /\ r.read = {i \in Cf!Keys : g[h][i] # 0}
  BY DEF ReadOK
<1>4. /\ h \in Cf!Hosts => LinesOf(h) = {"host", "psn_online_id"} \cup Cf!Keys
      /\ "host" \notin Cf!Keys /\ "psn_online_id" \notin Cf!Keys /\ "rp_key" \in Cf!Keys
  BY <1>0, HostLines DEF Cf!Keys
<1>5. CASE v = 0
  <2>1. g[h][i0] = 0 /\ g[h] \in [LinesOf(h) -> Int]
    BY <1>0, <1>1, <1>2, <1>5
  <2> HIDE DEF g, g2, v, i0
  <2>2. [g[h] EXCEPT ![i0] = v] = g[h]
    BY <1>5, <2>1
  <2>3. g2 = g
    BY <1>0, <1>1, <1>2, <2>2
  <2>4. w = r
    BY <1>5 DEF Cf!ParseLine
  <2> QED
    BY <1>3, <2>3, <2>4 DEF g2, g, v, i0
<1>6. CASE v # 0 /\ h = 0
  <2>1. i0 \notin Cf!Keys /\ i0 # "host" /\ r.host = 0
    BY <1>2, <1>3, <1>6, GlobalLines DEF Cf!Keys
  <2>2. w = [r EXCEPT !.mem.global[i0] = v]
    BY <1>6, <2>1 DEF Cf!ParseLine
  <2>3. \A x \in Cf!Hosts : \A i : ~Before(p, x, i)
    BY <1>0, <1>6 DEF Before
  <2>4. \A x \in Cf!Hosts : "host" \in LinesOf(x)
    BY <1>0, HostLines
  <2>5. \A x \in Cf!Hosts : g[x]["host"] = 0
    BY <1>0, <1>1, <2>3, <2>4
  <2> HIDE DEF g, g2, v, i0
  <2>6. g2[0] = [g[0] EXCEPT ![i0] = v] /\ \A x \in Cf!Hosts : g2[x] = g[x]
    BY <1>0, <1>1, <1>2, <1>6
  <2>7. Cf!Content(g2).hosts = Cf!Content(g).hosts
    BY <2>5, <2>6 DEF Cf!Content
  <2>8. Cf!Content(g2) = [Cf!Content(g) EXCEPT !.global[i0] = v]
    <3>1. \A x : Cf!Content(x) = [global |-> x[0], hosts |-> Cf!Content(x).hosts]
      BY DEF Cf!Content
    <3>2. Cf!Content(g2) = [global |-> g2[0], hosts |-> Cf!Content(g).hosts]
      BY <2>7, <3>1
    <3>3. Cf!Content(g) = [global |-> g[0], hosts |-> Cf!Content(g).hosts]
      BY <3>1
    <3> QED
      BY <2>6, <3>2, <3>3
  <2>9. w.mem = [r.mem EXCEPT !.global[i0] = v] /\ w.host = r.host /\ DOMAIN w = CfFields
        /\ \A x \in CfFields \ {"mem"} : w[x] = r[x]
    BY <2>2 DEF CfFields
  <2> QED
    BY <1>0, <1>3, <1>6, <2>1, <2>8, <2>9 DEF g2, g, v, i0
<1>7. CASE v # 0 /\ h # 0
  <2> DEFINE c == r.mem.hosts[h]
             c2 == Cf!Content(g2).hosts[h]
  <2>0. h \in Cf!Hosts /\ f[h]["host"] = h /\ h # 0
    BY <1>0, <1>2, <1>7 DEF FileOK
  <2>2. /\ g[h] \in [LinesOf(h) -> Int] /\ \A i \in LinesOf(h) : g[h][i] = IF Before(p, h, i) THEN f[h][i] ELSE 0
    BY <1>0, <1>1
  <2>3. FileOfLines(g) /\ FileOfLines(g2)
    <3>1. PlaceOK(Cf!After(p)) /\ PlaceOK(p)
      BY NextLine
    <3> QED
      BY <3>1, PartOK DEF FileOK
  <2>4. r.mem \in MemRecord /\ c \in HostRecord
    <3>1. r.mem \in MemRecord
      BY <1>3, ContentOK, PartOK DEF MemOK
    <3> QED
      BY <2>0, <3>1 DEF MemRecord
  <2>5. /\ i0 = "host" => \A i \in LinesOf(h) : ~Before(p, h, i)
        /\ i0 # "host" => Before(p, h, "host")
    BY <2>0, Order
  <2>50. v = f[h][i0] /\ r.mem.global = g[0]
    BY <1>3 DEF Cf!Content
  <2>51. c = Cf!Content(g).hosts[h]
    BY <1>3
  <2> HIDE DEF g, g2, v, i0, h, f, c, c2
  <2>1. /\ Cf!Content(g2) = [r.mem EXCEPT !.hosts[h] = c2] /\ g2[0] = g[0] /\ g2[h] = [g[h] EXCEPT ![i0] = v]
        /\ g[h]["host"] = 0 => c = Cf!NoHost
    <3>1. g2 = WithLine(g, h, i0, v)
      BY <1>2 DEF WithLine
    <3>2. /\ Cf!Content(g2) = WithHost(Cf!Content(g), h, Cf!Content(g2).hosts[h]) /\ g2[0] = g[0]
          /\ g[h]["host"] = 0 => Cf!Content(g).hosts[h] = Cf!NoHost
      BY <2>0, <2>3, <3>1, OneConsole
    <3>3. g2[h] = [g[h] EXCEPT ![i0] = v]
      BY <1>0, <1>1, <1>2
    <3> QED
      BY <1>3, <2>51, <3>2, <3>3 DEF c2, WithHost
  <2>6. CASE i0 = "host"
    <3>1. v = h /\ \A i \in LinesOf(h) : g[h][i] = 0
      BY <2>0, <2>2, <2>5, <2>6, <2>50
    <3>2. c = Cf!NoHost /\ ~c.known
      BY <1>4, <2>0, <2>1, <3>1 DEF Cf!NoHost
    <3>3. w = [r EXCEPT !.mem = Cf!GetOrCreateHost(@, h), !.host = h, !.read = {}]
      BY <1>4, <1>7, <2>6, <3>1 DEF Cf!ParseLine
    <3> DEFINE o == g[0]["psn_online_id"]
               d == [Cf!NoHost EXCEPT !.known = TRUE, !.online = o]
    <3>4. Cf!GetOrCreateHost(r.mem, h) = [r.mem EXCEPT !.hosts[h] = d]
      BY <2>50, <3>2 DEF Cf!GetOrCreateHost, c
    <3>5. g2[h]["host"] = h /\ \A i \in LinesOf(h) \ {"host"} : g2[h][i] = 0
      BY <1>4, <2>0, <2>1, <2>2, <2>6, <3>1
    <3>6. c2 = d
      <4>1. o \in Int
        BY <2>3, GlobalLines, <1>0 DEF FileOfLines
      <4>2. Cf!NoHost \in HostRecord /\ Cf!NoHost.keys = [z \in Cf!Keys |-> 0] /\ Cf!NoHost.rp_key_data = FALSE
        BY <2>4, <3>2 DEF Cf!NoHost
      <4>3. d \in HostRecord /\ d.known = TRUE /\ d.online = o /\ d.keys = Cf!NoHost.keys
            /\ d.rp_key_data = Cf!NoHost.rp_key_data
        BY <4>1, <4>2 DEF HostRecord
      <4>4. g2[h]["host"] # 0
        BY <2>0, <3>5
      <4>5. Fields(c2, TRUE, OnlineIn(g2, h), KeysIn(g2, h), AllKeysIn(g2, h))
        BY <2>0, <2>3, <4>4, ContentHost DEF c2
      <4>6. KeysIn(g2, h) = [z \in Cf!Keys |-> 0] /\ OnlineIn(g2, h) = o /\ ~AllKeysIn(g2, h)
        BY <1>4, <2>0, <2>1, <3>5 DEF KeysIn, OnlineIn, AllKeysIn
      <4> HIDE DEF d, o
      <4>7. Fields(d, TRUE, OnlineIn(g2, h), KeysIn(g2, h), AllKeysIn(g2, h))
        BY <4>2, <4>3, <4>6 DEF Fields
      <4> QED
        BY <4>5, <4>7, SameHost
    <3> HIDE DEF d
    <3>7. w.mem = Cf!Content(g2)
      BY <2>1, <3>3, <3>4, <3>6 DEF CfFields
    <3>8. DOMAIN w = CfFields /\ (\A x \in CfFields \ {"mem", "host", "read"} : w[x] = r[x]) /\ w.host = h /\ w.read = {}
      BY <3>3 DEF CfFields
    <3>9. {i \in Cf!Keys : g2[h][i] # 0} = {}
      BY <1>4, <2>0, <3>5
    <3> QED
      BY <2>0, <3>7, <3>8, <3>9
  <2>7. CASE i0 = "psn_online_id"
    <3>1. g[h]["host"] = h
      BY <1>4, <2>0, <2>2, <2>5, <2>7
    <3>2. r.host = h /\ r.read = {i \in Cf!Keys : g[h][i] # 0}
      BY <1>3, <2>0, <3>1
    <3>3. w = [r EXCEPT !.mem.hosts[h].online = v]
      BY <1>4, <1>7, <2>0, <2>7, <3>2 DEF Cf!ParseLine
    <3>4. g2[h]["host"] = h /\ g2[h]["psn_online_id"] = v /\ \A z \in Cf!Keys : g2[h][z] = g[h][z]
      BY <1>4, <2>0, <2>1, <2>2, <2>7, <3>1
    <3> DEFINE d == [c EXCEPT !.online = v]
    <3>5. c2 = d
      <4>1. d \in HostRecord /\ d.known = c.known /\ d.online = v /\ d.keys = c.keys /\ d.rp_key_data = c.rp_key_data
        BY <1>2, <2>4 DEF HostRecord
      <4>2. Fields(c, TRUE, OnlineIn(g, h), KeysIn(g, h), AllKeysIn(g, h))
        BY <2>0, <2>3, <2>51, <3>1, ContentHost
      <4>3. Fields(c2, TRUE, OnlineIn(g2, h), KeysIn(g2, h), AllKeysIn(g2, h))
        BY <2>0, <2>3, <3>4, ContentHost DEF c2
      <4>4. OnlineIn(g2, h) = v /\ KeysIn(g2, h) = KeysIn(g, h) /\ (AllKeysIn(g2, h) <=> AllKeysIn(g, h))
        BY <1>7, <3>4 DEF OnlineIn, KeysIn, AllKeysIn
      <4> HIDE DEF d
      <4>5. Fields(d, TRUE, OnlineIn(g2, h), KeysIn(g2, h), AllKeysIn(g2, h))
        BY <4>1, <4>2, <4>4 DEF Fields
      <4> QED
        BY <4>3, <4>5, SameHost
    <3>6. w.mem = [r.mem EXCEPT !.hosts[h].online = v] /\ DOMAIN w = CfFields /\ \A x \in CfFields \ {"mem"} : w[x] = r[x]
      BY <3>3 DEF CfFields
    <3>7. w.mem = Cf!Content(g2)
      BY <2>1, <3>5, <3>6 DEF c
    <3>8. w.host = h /\ w.read = {i \in Cf!Keys : g2[h][i] # 0}
      BY <3>2, <3>4, <3>6 DEF CfFields
    <3> QED
      BY <2>0, <3>6, <3>7, <3>8
  <2>8. CASE i0 \in Cf!Keys
    <3>1. g[h]["host"] = h
      BY <1>4, <2>0, <2>2, <2>5, <2>8
    <3>2. r.host = h /\ r.read = {i \in Cf!Keys : g[h][i] # 0}
      BY <1>3, <2>0, <3>1
    <3>3. w = Cf!HostKey(r, i0, v)
      BY <1>4, <1>7, <2>0, <2>8, <3>2 DEF Cf!ParseLine
    <3>4. g2[h]["host"] = h /\ g2[h]["psn_online_id"] = g[h]["psn_online_id"]
          /\ g2[h][i0] = v /\ \A z \in Cf!Keys \ {i0} : g2[h][z] = g[h][z]
      BY <1>4, <2>0, <2>1, <2>2, <2>8, <3>1
    <3> DEFINE q == [r EXCEPT !.mem.hosts[r.host].keys[i0] = v, !.read = @ \cup {i0}]
               e == [c EXCEPT !.keys[i0] = v]
               d == [e EXCEPT !.rp_key_data = TRUE]
    <3>5. /\ DOMAIN q = CfFields /\ \A x \in CfFields \ {"mem", "read"} : q[x] = r[x]
          /\ q.mem = [r.mem EXCEPT !.hosts[h] = e] /\ q.read = r.read \cup {i0} /\ q.host = h
      <4>1. q.mem = [r.mem EXCEPT !.hosts[h].keys[i0] = v]
        BY <3>2 DEF CfFields
      <4>2. [r.mem EXCEPT !.hosts[h].keys[i0] = v] = [r.mem EXCEPT !.hosts[h] = e]
        BY DEF c
      <4>3. DOMAIN q = CfFields /\ \A x \in CfFields \ {"mem", "read"} : q[x] = r[x]
        BY DEF CfFields
      <4>4. q.read = r.read \cup {i0}
        BY DEF CfFields
      <4>5. q.host = r.host
        BY DEF CfFields
      <4> HIDE DEF q, e
      <4> QED
        BY <3>2, <4>1, <4>2, <4>3, <4>4, <4>5
    <3>6. w = IF q.read = Cf!Keys THEN [q EXCEPT !.mem.hosts[q.host].rp_key_data = TRUE] ELSE q
      BY <3>3 DEF Cf!HostKey
    <3> HIDE DEF q
    <3>7. q.read = {i \in Cf!Keys : g2[h][i] # 0}
      BY <1>7, <2>8, <3>2, <3>4, <3>5
    <3>8. Fields(c, TRUE, OnlineIn(g, h), KeysIn(g, h), AllKeysIn(g, h))
      BY <2>0, <2>3, <2>51, <3>1, ContentHost
    <3>9. Fields(c2, TRUE, OnlineIn(g2, h), KeysIn(g2, h), AllKeysIn(g2, h))
      BY <2>0, <2>3, <3>4, ContentHost DEF c2
    <3>10. /\ e \in HostRecord /\ e.known = c.known /\ e.online = c.online
           /\ e.keys = [c.keys EXCEPT ![i0] = v] /\ e.rp_key_data = c.rp_key_data
      BY <1>2, <2>4, <2>8 DEF HostRecord
    <3>11. [KeysIn(g, h) EXCEPT ![i0] = v] = KeysIn(g2, h)
      BY <2>8, <3>4 DEF KeysIn
    <3>110. OnlineIn(g2, h) = OnlineIn(g, h)
      BY <2>1, <3>4 DEF OnlineIn
    <3> HIDE DEF e
    <3>12. Fields(e, TRUE, OnlineIn(g2, h), KeysIn(g2, h), AllKeysIn(g, h))
      BY <3>8, <3>10, <3>11, <3>110 DEF Fields
    <3>15. Fields(d, TRUE, OnlineIn(g2, h), KeysIn(g2, h), TRUE)
      BY <3>12 DEF HostRecord, Fields
    <3>16. \A z : [q.mem EXCEPT !.hosts[h] = z] = [r.mem EXCEPT !.hosts[h] = z] /\ q.mem.hosts[h] = e
      <4> DEFINE m == r.mem
      <4>1. m = [global |-> m.global, hosts |-> m.hosts] /\ m.hosts \in [Cf!Hosts -> HostRecord]
        BY <2>4 DEF MemRecord
      <4>2. q.mem = [m EXCEPT !.hosts[h] = e]
        BY <3>5
      <4> HIDE DEF m
      <4>3. q.mem = [global |-> m.global, hosts |-> [m.hosts EXCEPT ![h] = e]]
        BY <4>1, <4>2
      <4>4. [m.hosts EXCEPT ![h] = e][h] = e
        BY <2>0, <4>1
      <4>5. ASSUME NEW z PROVE [q.mem EXCEPT !.hosts[h] = z] = [m EXCEPT !.hosts[h] = z]
        <5>1. [[m.hosts EXCEPT ![h] = e] EXCEPT ![h] = z] = [m.hosts EXCEPT ![h] = z]
          BY <2>0, <4>1
        <5>2. [q.mem EXCEPT !.hosts[h] = z] = [global |-> m.global, hosts |-> [[m.hosts EXCEPT ![h] = e] EXCEPT ![h] = z]]
          BY <4>3
        <5>3. [m EXCEPT !.hosts[h] = z] = [global |-> m.global, hosts |-> [m.hosts EXCEPT ![h] = z]]
          BY <4>1
        <5> QED
          BY <5>1, <5>2, <5>3
      <4> QED
        BY <4>3, <4>4, <4>5 DEF m
    <3>13. CASE q.read = Cf!Keys
      <4>1. w = [q EXCEPT !.mem.hosts[h].rp_key_data = TRUE]
        BY <3>5, <3>6, <3>13
      <4>2. w.mem = [q.mem EXCEPT !.hosts[h] = [q.mem.hosts[h] EXCEPT !.rp_key_data = TRUE]]
            /\ DOMAIN w = CfFields /\ \A x \in CfFields \ {"mem"} : w[x] = q[x]
        BY <3>5, <4>1 DEF CfFields
      <4>3. w.mem = [r.mem EXCEPT !.hosts[h] = d]
        BY <3>16, <4>2
      <4>4. \A z \in Cf!Keys : g2[h][z] # 0
        BY <3>7, <3>13
      <4>5. c2 = d
        <5>1. Fields(c2, TRUE, OnlineIn(g2, h), KeysIn(g2, h), TRUE)
          BY <3>9, <4>4 DEF AllKeysIn, Fields
        <5> QED
          BY <3>15, <5>1, SameHost
      <4>6. w.mem = Cf!Content(g2)
        BY <2>1, <4>3, <4>5
      <4>7. w.host = h /\ w.read = q.read /\ \A x \in CfFields \ {"mem", "host", "read"} : w[x] = r[x]
        BY <3>5, <4>2 DEF CfFields
      <4> QED
        BY <2>0, <3>7, <4>2, <4>6, <4>7
    <3>14. CASE q.read # Cf!Keys
      <4>1. w = q
        BY <3>6, <3>14
      <4>2. ~(\A z \in Cf!Keys : g2[h][z] # 0) /\ ~(\A z \in Cf!Keys : g[h][z] # 0)
        BY <2>8, <3>2, <3>5, <3>7, <3>14
      <4>3. c2 = e
        <5>1. AllKeysIn(g2, h) <=> AllKeysIn(g, h)
          BY <4>2 DEF AllKeysIn
        <5>2. Fields(c2, TRUE, OnlineIn(g2, h), KeysIn(g2, h), AllKeysIn(g, h))
          BY <3>9, <5>1 DEF Fields
        <5> QED
          BY <3>12, <5>2, SameHost
      <4>4. w.mem = Cf!Content(g2)
        BY <2>1, <3>5, <4>1, <4>3
      <4>5. w.host = h /\ w.read = q.read /\ DOMAIN w = CfFields
            /\ \A x \in CfFields \ {"mem", "host", "read"} : w[x] = r[x]
        BY <3>5, <4>1
      <4> QED
        BY <2>0, <3>7, <4>4, <4>5
    <3> QED
      BY <3>13, <3>14
  <2> QED
    BY <1>2, <1>4, <2>0, <2>6, <2>7, <2>8 DEF h, i0
<1> HIDE DEF Goal, v, h
<1> QED
  BY <1>5, <1>6, <1>7
\* The empty file and what it says; a file is read from its beginning.
LEMMA EmptyFile ==
  /\ FileOK(Cf!NoLines) /\ MemOK(Cf!Defaults) /\ Cf!Content(Cf!NoLines) = Cf!Defaults
  /\ PlaceOK(Cf!Begin)
  /\ \A f : FileOK(f) => Cf!Content(Part(f, Cf!Begin)) = Cf!Defaults /\ Part(f, Cf!Begin) = Cf!NoLines
<1>0. 0 \in 0 .. NHosts /\ Cf!Hosts \subseteq Nat \ {0} /\ Cf!Hosts \subseteq 0 .. NHosts
  BY SettingsAssumption DEF Cf!Hosts
<1>1. \A x \in 0 .. NHosts : Cf!ToSet(Cf!Items(x)) = LinesOf(x)
  BY GlobalLines, HostLines, SettingsAssumption
<1> DEFINE f == Cf!NoLines
<1>2. /\ f = [x \in 0 .. NHosts |-> f[x]]
      /\ \A x \in 0 .. NHosts : f[x] = [i \in LinesOf(x) |-> 0]
  BY <1>1 DEF Cf!NoLines
<1>3. \A h \in Cf!Hosts : LinesOf(h) = {"host", "psn_online_id"} \cup Cf!Keys /\ "rp_key_type" \in LinesOf(h)
  BY <1>0, HostLines DEF Cf!Keys
<1>4. Cf!Content(f) = Cf!Defaults
  <2>1. f[0] = [i \in Cf!ToSet(Cf!GlobalItems) |-> 0]
    BY <1>0, <1>2, GlobalLines
  <2>2. \A h \in Cf!Hosts : f[h]["host"] = 0
    BY <1>0, <1>2, <1>3
  <2> HIDE DEF f
  <2> QED
    BY <2>1, <2>2 DEF Cf!Content, Cf!Defaults
<1> HIDE DEF f
<1>5. FileOK(f)
  <2>1. \A x \in 0 .. NHosts : f[x] \in [LinesOf(x) -> Int]
    BY <1>2
  <2>2. LoginOK(f[0])
    BY <1>0, <1>2, GlobalLines DEF LoginOK
  <2>3. \A h \in Cf!Hosts : \A i \in LinesOf(h) : f[h][i] = 0
    BY <1>0, <1>2
  <2> QED
    BY <1>2, <1>3, <2>1, <2>2, <2>3 DEF FileOK, FileOfLines
<1>6. \A x : FileOK(x) => Part(x, Cf!Begin) = f
  BY PartEnds DEF FileOK, f
<1>7. MemOK(Cf!Defaults)
  BY <1>4, <1>5, ContentOK
<1> QED
  BY <1>4, <1>5, <1>6, <1>7, PartEnds DEF f, FileOK

\* What the user changes: the global settings, but for the account's name.
WithGlobal(m, g) == [m EXCEPT !.global = g]
LEMMA GlobalChanges ==
  ASSUME NEW m, MemOK(m), NEW g \in [LinesOf(0) -> Int], LoginOK(g),
         g["psn_online_id"] = m.global["psn_online_id"]
  PROVE  MemOK(WithGlobal(m, g))
<1> DEFINE w == WithGlobal(m, g)
<1>1. w \in MemRecord /\ w.global = g /\ w.hosts = m.hosts
  BY DEF WithGlobal, MemOK, MemRecord
<1> HIDE DEF w
<1>2. MemOK(w)
  BY <1>1 DEF MemOK
<1> QED
  BY <1>2 DEF w

\* The file that a start finds.
LEMMA OldFilesOK ==
  ASSUME NEW f \in Cf!OldFiles
  PROVE  FileOK(f)
<1>1. CASE f = Cf!NoLines
  BY <1>1, EmptyFile
<1>2. ASSUME NEW o \in 0 .. 1, NEW has \in [Cf!Hosts -> {{}, Cf!Keys, {"rp_key", "rp_key_type"}}],
             f = Cf!OldFile(o, has)
      PROVE  FileOK(f)
  <2>0. 0 \in 0 .. NHosts /\ Cf!Hosts = (0 .. NHosts) \ {0} /\ Cf!Hosts \subseteq Nat \ {0}
    BY SettingsAssumption DEF Cf!Hosts
  <2>1. f = [x \in 0 .. NHosts |-> f[x]]
    BY <1>2 DEF Cf!OldFile
  <2>2. f[0] = [Cf!NoLines[0] EXCEPT !["psn_online_id"] = o]
    BY <1>2, <2>0 DEF Cf!OldFile
  <2>3. f[0] \in [LinesOf(0) -> Int] /\ LoginOK(f[0])
    <3>1. Cf!NoLines[0] \in [LinesOf(0) -> Int] /\ LoginOK(Cf!NoLines[0]) /\ o \in Int
      BY <2>0, EmptyFile DEF FileOK, FileOfLines
    <3> QED
      BY <2>2, <3>1, GlobalLines DEF LoginOK
  <2>4. ASSUME NEW h \in Cf!Hosts
        PROVE  /\ f[h] \in [LinesOf(h) -> Int]
               /\ \A i \in LinesOf(h) : f[h][i] # 0 => f[h]["host"] = h
               /\ f[h]["rp_key_type"] # 0 => \A i \in Cf!Keys : f[h][i] \in {0, h}
    <3>1. h \in 0 .. NHosts /\ h # 0 /\ h \in Int
      BY <2>0
    <3>2. f[h] = [i \in Cf!ToSet(Cf!HostItems) |-> IF i = "host" \/ i \in has[h] THEN h ELSE 0]
      BY <1>2, <3>1 DEF Cf!OldFile
    <3>3. Cf!ToSet(Cf!HostItems) = LinesOf(h) /\ LinesOf(h) = {"host", "psn_online_id"} \cup Cf!Keys
      BY <2>0, HostLines
    <3> HIDE DEF Cf!Keys
    <3> QED
      BY <3>1, <3>2, <3>3
  <2> QED
    BY <2>0, <2>1, <2>3, <2>4 DEF FileOK, FileOfLines
<1> QED
  BY <1>1, <1>2 DEF Cf!OldFiles

\* What a console that is switched off while the file is written leaves of it.
LEMMA BeginningsOK ==
  ASSUME NEW m, MemOK(m), NEW p, PlaceOK(p), NEW f \in Cf!Beginnings(Part(LinesIn(m), p), m, p)
  PROVE  FileOK(f)
<1> DEFINE g == Part(LinesIn(m), p)
           sec == p.s
           i0 == Cf!ItemAt(p)
<1>1. FileOK(g)
  BY LinesInOK, PartOK
<1>2. CASE f = g
  BY <1>1, <1>2
<1>3. CASE f # g
  <2>0. 0 \in 0 .. NHosts /\ Cf!Hosts = (0 .. NHosts) \ {0} /\ Cf!Hosts \subseteq Nat \ {0}
        /\ p.s \in Nat
    BY SettingsAssumption DEF Cf!Hosts, PlaceOK
  <2>1. /\ f = [g EXCEPT ![sec][i0] = Cf!Cut] /\ sec \in 0 .. NHosts
        /\ i0 \in Cf!Cuttable /\ Cf!Line(m, sec, i0) # 0
    <3>1. f \in Cf!Beginnings(g, m, p)
      OBVIOUS
    <3> HIDE DEF g
    <3>2. \E q \in {x \in {p} : x.s <= NHosts /\ Cf!ItemAt(x) \in Cf!Cuttable /\ Cf!Line(m, x.s, Cf!ItemAt(x)) # 0} :
             f = [g EXCEPT ![q.s][Cf!ItemAt(q)] = Cf!Cut]
      BY <1>3, <3>1 DEF Cf!Beginnings
    <3> QED
      BY <2>0, <3>2, SettingsAssumption
  <2>2. i0 \in LinesOf(sec)
    BY <2>1, NextLine
  <2>3. /\ g = [x \in 0 .. NHosts |-> g[x]] /\ \A x \in 0 .. NHosts : g[x] \in [LinesOf(x) -> Int]
        /\ LoginOK(g[0])
        /\ \A h \in Cf!Hosts :
             /\ \A i \in LinesOf(h) : g[h][i] # 0 => g[h]["host"] = h
             /\ g[h]["rp_key_type"] # 0 => \A i \in Cf!Keys : g[h][i] \in {0, h}
    BY <1>1 DEF FileOK, FileOfLines
  <2>4. \A x \in 0 .. NHosts : \A i \in LinesOf(x) :
          g[x][i] = IF Before(p, x, i) THEN Cf!Line(m, x, i) ELSE 0
    BY LinesInOK DEF Part
  <2> HIDE DEF g, sec, i0
  <2>5. /\ f = [x \in 0 .. NHosts |-> f[x]] /\ f[sec] = [g[sec] EXCEPT ![i0] = Cf!Cut]
        /\ \A x \in 0 .. NHosts : x # sec => f[x] = g[x]
    BY <2>1, <2>3
  <2>6. \A x \in 0 .. NHosts : f[x] \in [LinesOf(x) -> Int]
    <3>1. f[sec] \in [LinesOf(sec) -> Int]
      <4>1. Cf!Cut \in Int
        BY DEF Cf!Cut
      <4>2. g[sec] \in [LinesOf(sec) -> Int]
        BY <2>1, <2>3
      <4> QED
        BY <2>5, <4>1, <4>2
    <3> QED
      BY <2>3, <2>5, <3>1
  <2>7. LoginOK(f[0])
    <3>1. CASE sec # 0
      BY <2>0, <2>3, <2>5, <3>1
    <3>2. CASE sec = 0
      <4>1. /\ i0 = "npsso" => ~Before(p, 0, "psn_access_token")
            /\ i0 = "psn_access_token" => Before(p, 0, "npsso")
        BY <3>2, Order DEF i0, sec
      <4>2. {"npsso", "psn_access_token"} \subseteq LinesOf(0)
        BY GlobalLines
      <4>3. /\ i0 = "npsso" => g[0]["psn_access_token"] = 0
            /\ i0 = "psn_access_token" => g[0]["npsso"] \notin {0, Cf!Cut}
        <5>1. \A i : Cf!Line(m, 0, i) = m.global[i]
          BY DEF Cf!Line
        <5> QED
          BY <2>0, <2>1, <2>4, <3>2, <4>1, <4>2, <5>1 DEF MemOK, LoginOK
      <4>4. \A i \in LinesOf(0) : f[0][i] = IF i = i0 THEN Cf!Cut ELSE g[0][i]
        BY <2>0, <2>3, <2>5, <3>2
      <4> QED
        BY <2>3, <4>2, <4>3, <4>4 DEF LoginOK
    <3> QED
      BY <3>1, <3>2
  <2>8. ASSUME NEW h \in Cf!Hosts
        PROVE  /\ \A i \in LinesOf(h) : f[h][i] # 0 => f[h]["host"] = h
               /\ f[h]["rp_key_type"] # 0 => \A i \in Cf!Keys : f[h][i] \in {0, h}
    <3>1. CASE sec # h
      BY <2>0, <2>3, <2>5, <3>1
    <3>2. CASE sec = h
      <4>0. LinesOf(h) = {"host", "psn_online_id"} \cup Cf!Keys /\ h \in 0 .. NHosts
        BY <2>0, HostLines
      <4>1. i0 # "host" /\ i0 # "rp_key_type"
        BY <2>1 DEF Cf!Cuttable
      <4>2. Before(p, h, "host") /\ (i0 \in Cf!Keys => ~Before(p, h, "rp_key_type"))
        <5>1. p.s \in Cf!Hosts /\ p.s = h
          BY <3>2 DEF sec
        <5>2. i0 \in Cf!Keys => i0 \in {"rp_key", "rp_regist_key"}
          BY <4>1 DEF Cf!Keys
        <5> QED
          BY <4>1, <5>1, <5>2, Order DEF i0
      <4>3. g[h]["host"] = h
        <5>1. m.hosts[h].known
          BY <2>0, <2>1, <3>2 DEF Cf!Line
        <5>2. Cf!Line(m, h, "host") = h
          BY <2>0, <5>1 DEF Cf!Line, Cf!Keys
        <5> QED
          BY <2>4, <4>0, <4>2, <5>2
      <4>4. \A i \in LinesOf(h) : f[h][i] = IF i = i0 THEN Cf!Cut ELSE g[h][i]
        BY <2>3, <2>5, <3>2, <4>0
      <4>5. "rp_key_type" \in Cf!Keys /\ (i0 \in Cf!Keys => g[h]["rp_key_type"] = 0)
        <5>1. "rp_key_type" \in Cf!Keys
          BY DEF Cf!Keys
        <5> QED
          BY <2>4, <4>0, <4>2, <5>1
      <4> QED
        BY <2>3, <4>0, <4>1, <4>3, <4>4, <4>5
    <3> QED
      BY <3>1, <3>2
  <2> QED
    BY <2>5, <2>6, <2>7, <2>8 DEF FileOK, FileOfLines
<1> QED
  BY <1>2, <1>3
LEMMA SettingsInit == Cf!InitSettings => SettingsInv
<1> SUFFICES ASSUME Cf!InitSettings PROVE SettingsInv
  OBVIOUS
<1>1. /\ DOMAIN cf = CfFields /\ cf.at = "off" /\ cf.then = "up" /\ cf.mem = Cf!Defaults /\ cf.file = Cf!NoLines
      /\ cf.place = Cf!Begin /\ cf.host = 0 /\ cf.read = {}
  BY DEF Cf!InitSettings, CfFields
<1> QED
  BY <1>1, EmptyFile DEF SettingsInv, CfInv

\* The file is read.
LEMMA SettingsRead ==
  ASSUME SettingsInv, Cf!PowerOn \/ Cf!ParseFile
  PROVE  SettingsInv'
<1>1. CASE Cf!PowerOn
  <2>1. PICK f \in Cf!OldFiles : cf' = Cf!Found(cf, f)
    BY <1>1 DEF Cf!PowerOn
  <2> DEFINE w == Cf!Found(cf, f)
  <2>2. /\ DOMAIN w = CfFields /\ \A x \in CfFields \ {"at", "file", "saved"} : w[x] = cf[x]
        /\ w.at = "parse" /\ w.file = f /\ w.saved = Cf!Content(f) /\ w.place = cf.place /\ w.mem = cf.mem
        /\ w.host = cf.host /\ w.read = cf.read /\ w.then = cf.then
    BY DEF SettingsInv, CfInv, CfFields, Cf!Found
  <2>3. /\ cf.mem = Cf!Defaults /\ cf.place = Cf!Begin /\ cf.host = 0 /\ MemOK(cf.mem) /\ cf.then \in {"up", "exchange"}
    <3>1. cf.at = "off"
      BY <1>1 DEF Cf!PowerOn
    <3> QED
      BY <3>1 DEF SettingsInv, CfInv
  <2> HIDE DEF w
  <2>4. FileOK(f) /\ PlaceOK(Cf!Begin) /\ Part(f, Cf!Begin) = Cf!NoLines /\ Cf!Content(Part(f, Cf!Begin)) = Cf!Defaults
    BY OldFilesOK, EmptyFile
  <2>5. ReadOK(w)
    <3>1. w.mem = Cf!Content(Part(w.file, w.place)) /\ w.host = 0 /\ w.place.s = 0
      BY <2>2, <2>3, <2>4 DEF Cf!Begin
    <3>2. 0 \notin Cf!Hosts
      BY SettingsAssumption DEF Cf!Hosts
    <3> QED
      BY <3>1, <3>2 DEF ReadOK
  <2>6. CfInv(w)
    BY <2>2, <2>3, <2>4, <2>5 DEF CfInv
  <2> QED
    BY <2>1, <2>6 DEF w, SettingsInv
<1>2. CASE Cf!ParseFile /\ cf.place.s <= NHosts
  <2> DEFINE u == Cf!ParseLine(cf, Cf!ItemAt(cf.place), cf.file[cf.place.s][Cf!ItemAt(cf.place)])
             w == [u EXCEPT !.place = Cf!After(@)]
             g == Part(cf.file, Cf!After(cf.place))
  <2>1. cf' = w /\ cf.at = "parse"
    BY <1>2 DEF Cf!ParseFile
  <2>2. /\ DOMAIN cf = CfFields /\ FileOK(cf.file) /\ PlaceOK(cf.place) /\ ReadOK(cf)
        /\ cf.then \in {"up", "exchange"}
        /\ cf.whole => Cf!Effective(Cf!Content(cf.file)) = Cf!Effective(cf.saved)
    BY <2>1 DEF SettingsInv, CfInv
  <2>3. LineRead(cf, u, g)
    BY <1>2, <2>2, ParseLineOK
  <2>4. PlaceOK(Cf!After(cf.place)) /\ MemOK(Cf!Content(g))
    <3>1. PlaceOK(Cf!After(cf.place))
      BY <1>2, <2>2, NextLine
    <3> QED
      BY <2>2, <3>1, PartOK, ContentOK
  <2> HIDE DEF u, g
  <2>5. DOMAIN u = CfFields /\ \A x \in CfFields \ {"mem", "host", "read"} : u[x] = cf[x]
    BY <2>3 DEF LineRead
  <2>6. /\ DOMAIN w = CfFields /\ w.place = Cf!After(u.place) /\ \A x \in CfFields \ {"place"} : w[x] = u[x]
    BY <2>5 DEF CfFields
  <2> HIDE DEF w
  <2>7. /\ w.at = "parse" /\ w.then = cf.then /\ w.file = cf.file /\ w.whole = cf.whole /\ w.saved = cf.saved
        /\ w.mem = u.mem /\ w.host = u.host /\ w.read = u.read /\ w.place = Cf!After(cf.place)
    BY <2>1, <2>5, <2>6 DEF CfFields
  <2>8. ReadOK(w)
    <3> DEFINE p == cf.place
               q == Cf!After(cf.place)
    <3>1. w.mem = Cf!Content(g) /\ g = Part(w.file, w.place)
      BY <2>3, <2>7 DEF LineRead, g
    <3>2. /\ p.s = 0 => w.host = 0
          /\ p.s \in Cf!Hosts /\ g[p.s]["host"] # 0 => w.host = p.s /\ w.read = {i \in Cf!Keys : g[p.s][i] # 0}
      BY <2>3, <2>7 DEF LineRead
    <3>3. w.place.s = p.s \/ w.place = [s |-> p.s + 1, n |-> 1]
      <4>1. p = [s |-> p.s, n |-> p.n]
        BY <2>2 DEF PlaceOK
      <4> QED
        BY <2>7, <4>1 DEF Cf!After
    <3>4. CASE w.place.s = p.s
      BY <3>1, <3>2, <3>4 DEF ReadOK
    <3>5. CASE w.place = [s |-> p.s + 1, n |-> 1]
      <4>1. w.place.s # 0 /\ p.s \in Nat
        BY <2>2, <3>5 DEF PlaceOK
      <4>2. w.place.s \in Cf!Hosts => g[w.place.s]["host"] = 0
        <5> SUFFICES ASSUME w.place.s \in Cf!Hosts PROVE g[w.place.s]["host"] = 0
          OBVIOUS
        <5>1. ~Before(w.place, w.place.s, "host")
          BY <3>5, <4>1 DEF Before
        <5>2. w.place.s \in 0 .. NHosts /\ "host" \in LinesOf(w.place.s)
          BY <4>1, HostLines, SettingsAssumption DEF Cf!Hosts
        <5> QED
          BY <3>1, <5>1, <5>2 DEF Part
      <4> QED
        BY <3>1, <4>1, <4>2 DEF ReadOK
    <3> QED
      BY <3>3, <3>4, <3>5
  <2>9. w.mem = Cf!Content(g)
    BY <2>3, <2>7 DEF LineRead
  <2>10. CfInv(w)
    BY <2>2, <2>4, <2>6, <2>7, <2>8, <2>9 DEF CfInv
  <2> QED
    BY <2>1, <2>10 DEF SettingsInv
<1>3. CASE Cf!ParseFile /\ ~(cf.place.s <= NHosts)
  <2> DEFINE w == [cf EXCEPT !.at = "started"]
  <2>1. cf' = w /\ cf.at = "parse"
    BY <1>3 DEF Cf!ParseFile
  <2>2. DOMAIN w = CfFields /\ w.at = "started" /\ \A x \in CfFields \ {"at"} : w[x] = cf[x]
    BY DEF SettingsInv, CfInv, CfFields
  <2> HIDE DEF w
  <2>3. /\ w.then = cf.then /\ w.file = cf.file /\ w.whole = cf.whole /\ w.saved = cf.saved /\ w.mem = cf.mem
    BY <2>2 DEF CfFields
  <2>4. cf.mem = Cf!Content(cf.file)
    <3>1. PlaceOK(cf.place) /\ FileOK(cf.file) /\ ReadOK(cf)
      BY <2>1 DEF SettingsInv, CfInv
    <3>2. Part(cf.file, cf.place) = cf.file
      BY <1>3, <3>1, PartEnds DEF FileOK
    <3> QED
      BY <3>1, <3>2 DEF ReadOK
  <2>5. CfInv(w)
    BY <2>1, <2>2, <2>3, <2>4 DEF CfInv, SettingsInv
  <2> QED
    BY <2>1, <2>5 DEF SettingsInv
<1> QED
  BY <1>1, <1>2, <1>3

\* The settings are changed.
LEMMA SettingsChange ==
  ASSUME SettingsInv, \/ \E i \in Cf!ChoiceItems : Cf!SetChoice(i)
                      \/ Cf!SignIn \/ Cf!ExchangeNPSSO \/ Cf!SignOut
  PROVE  SettingsInv'
<1>0. MemOK(cf.mem) /\ DOMAIN cf = CfFields /\ cf.mem.global \in [LinesOf(0) -> Int] /\ LoginOK(cf.mem.global)
  BY DEF SettingsInv, CfInv, MemOK, MemRecord
<1>1. ASSUME NEW g \in [LinesOf(0) -> Int], LoginOK(g), g["psn_online_id"] = cf.mem.global["psn_online_id"],
             NEW then \in {"up", "exchange"}, cf.at # "off",
             cf' = Cf!Changed(cf, WithGlobal(cf.mem, g), then)
      PROVE  SettingsInv'
  <2>1. /\ DOMAIN cf' = CfFields /\ cf'.at = "open" /\ cf'.then = then /\ cf'.mem = WithGlobal(cf.mem, g)
        /\ cf'.file = cf.file /\ cf'.whole = cf.whole /\ cf'.saved = cf.saved
    BY <1>0, <1>1 DEF Cf!Changed, CfFields
  <2>2. MemOK(WithGlobal(cf.mem, g))
    BY <1>0, <1>1, GlobalChanges
  <2>3. CfInv(cf')
    BY <1>1, <2>1, <2>2 DEF CfInv, SettingsInv
  <2> QED
    BY <2>3 DEF SettingsInv
<1>2. ASSUME NEW a \in Cf!ChoiceItems \cup {"duid"}, NEW v \in Int, NEW m, m = [cf.mem EXCEPT !.global[a] = v]
      PROVE  \E g \in [LinesOf(0) -> Int] : /\ LoginOK(g) /\ g["psn_online_id"] = cf.mem.global["psn_online_id"]
                                           /\ m = WithGlobal(cf.mem, g)
  <2> DEFINE g == [cf.mem.global EXCEPT ![a] = v]
  <2>1. m = WithGlobal(cf.mem, g)
    BY <1>2 DEF WithGlobal
  <2>2. g \in [LinesOf(0) -> Int] /\ \A i \in LinesOf(0) \ {a} : g[i] = cf.mem.global[i]
    BY <1>0
  <2>3. a \notin {"psn_online_id", "npsso", "psn_access_token"}
    BY DEF Cf!ChoiceItems
  <2> HIDE DEF g
  <2>4. LoginOK(g) /\ g["psn_online_id"] = cf.mem.global["psn_online_id"]
    BY <1>0, <2>2, <2>3, GlobalLines DEF LoginOK
  <2> QED
    BY <2>1, <2>2, <2>4
<1>3. ASSUME NEW v \in 0 .. 2, NEW m, m = Cf!WithLogin(cf.mem, v)
      PROVE  \E g \in [LinesOf(0) -> Int] : /\ LoginOK(g) /\ g["psn_online_id"] = cf.mem.global["psn_online_id"]
                                           /\ m = WithGlobal(cf.mem, g)
  <2> DEFINE g == [i \in DOMAIN cf.mem.global |-> IF i \in Cf!Login THEN v ELSE cf.mem.global[i]]
  <2>1. m = WithGlobal(cf.mem, g)
    BY <1>3 DEF WithGlobal, Cf!WithLogin
  <2>2. g \in [LinesOf(0) -> Int] /\ \A i \in LinesOf(0) : g[i] = IF i \in Cf!Login THEN v ELSE cf.mem.global[i]
    BY <1>0
  <2>3. {"npsso", "psn_access_token"} \subseteq Cf!Login /\ "psn_online_id" \notin Cf!Login /\ v # Cf!Cut
    BY DEF Cf!Login, Cf!Cut
  <2> HIDE DEF g
  <2>4. LoginOK(g) /\ g["psn_online_id"] = cf.mem.global["psn_online_id"]
    BY <1>0, <2>2, <2>3, GlobalLines DEF LoginOK
  <2> QED
    BY <2>1, <2>2, <2>4
<1>4. ASSUME NEW i \in Cf!ChoiceItems, Cf!SetChoice(i) PROVE SettingsInv'
  <2> DEFINE m == [cf.mem EXCEPT !.global[i] = 1 - cf.mem.global[i]]
  <2>1. cf' = Cf!Changed(cf, m, "up") /\ cf.at # "off"
    BY <1>4 DEF Cf!SetChoice, Cf!Ready
  <2>2. 1 - cf.mem.global[i] \in Int
    BY <1>0, GlobalLines DEF Cf!ChoiceItems
  <2>3. \E g \in [LinesOf(0) -> Int] : LoginOK(g) /\ g["psn_online_id"] = cf.mem.global["psn_online_id"] /\ m = WithGlobal(cf.mem, g)
    BY <1>2, <2>2
  <2> HIDE DEF m
  <2> QED
    BY <1>1, <2>1, <2>3
<1>5. ASSUME NEW at \in {"up", "exchange"}, cf.at # "off", cf' = [cf EXCEPT !.at = at] PROVE SettingsInv'
  <2>1. /\ DOMAIN cf' = CfFields /\ cf'.at = at /\ cf'.then = cf.then /\ cf'.mem = cf.mem
        /\ cf'.file = cf.file /\ cf'.whole = cf.whole /\ cf'.saved = cf.saved
    BY <1>0, <1>5 DEF CfFields
  <2>2. CfInv(cf')
    BY <1>5, <2>1 DEF CfInv, SettingsInv
  <2> QED
    BY <2>2 DEF SettingsInv
<1>6. CASE Cf!SignIn
  <2>1. cf.at # "off" /\ (\/ cf' = [cf EXCEPT !.at = "exchange"]
                          \/ cf' = Cf!Changed(cf, [cf.mem EXCEPT !.global["duid"] = 1], "exchange"))
    BY <1>6 DEF Cf!SignIn, Cf!Ready
  <2> DEFINE m == [cf.mem EXCEPT !.global["duid"] = 1]
  <2>2. \E g \in [LinesOf(0) -> Int] : LoginOK(g) /\ g["psn_online_id"] = cf.mem.global["psn_online_id"] /\ m = WithGlobal(cf.mem, g)
    BY <1>2
  <2> HIDE DEF m
  <2>3. CASE cf' = Cf!Changed(cf, m, "exchange")
    BY <1>1, <2>1, <2>2, <2>3
  <2> QED
    BY <1>5, <2>1, <2>3 DEF m
<1>7. ASSUME NEW v \in 0 .. 2, cf' = Cf!Changed(cf, Cf!WithLogin(cf.mem, v), "up"), cf.at # "off" PROVE SettingsInv'
  <2> DEFINE m == Cf!WithLogin(cf.mem, v)
  <2>1. \E g \in [LinesOf(0) -> Int] : LoginOK(g) /\ g["psn_online_id"] = cf.mem.global["psn_online_id"] /\ m = WithGlobal(cf.mem, g)
    BY <1>3
  <2> HIDE DEF m
  <2>2. cf' = Cf!Changed(cf, m, "up")
    BY <1>7 DEF m
  <2> QED
    BY <1>1, <1>7, <2>1, <2>2
<1>8. CASE Cf!ExchangeNPSSO
  <2>1. cf.at # "off" /\ (\/ cf' = [cf EXCEPT !.at = "up"]
                          \/ \E a \in 0 .. 2 : cf' = Cf!Changed(cf, Cf!WithLogin(cf.mem, a), "up"))
    <3>1. cf.at = "exchange" /\ (\/ cf' = [cf EXCEPT !.at = "up"]
                                 \/ \E a \in 1 .. 2 : cf' = Cf!Changed(cf, Cf!WithLogin(cf.mem, a), "up"))
      BY <1>8 DEF Cf!ExchangeNPSSO
    <3>2. 1 .. 2 \subseteq 0 .. 2
      OBVIOUS
    <3> QED
      BY <3>1, <3>2
  <2> QED
    BY <1>5, <1>7, <2>1
<1>9. CASE Cf!SignOut
  BY <1>7, <1>9 DEF Cf!SignOut, Cf!Ready
<1> QED
  BY <1>4, <1>6, <1>8, <1>9

\* The file is written, or the console switched off.
LEMMA SettingsWrite ==
  ASSUME SettingsInv, Cf!OpenFile \/ Cf!WriteFile \/ Cf!SwitchedOff
  PROVE  SettingsInv'
<1>0. MemOK(cf.mem) /\ DOMAIN cf = CfFields /\ FileOK(cf.file) /\ cf.then \in {"up", "exchange"}
      /\ (cf.at = "writing" => PlaceOK(cf.place) /\ cf.file = Part(LinesIn(cf.mem), cf.place) /\ ~cf.whole)
      /\ (cf.at # "off" /\ cf.whole => Cf!Effective(Cf!Content(cf.file)) = Cf!Effective(cf.saved))
  BY DEF SettingsInv, CfInv
<1>1. FileOK(LinesIn(cf.mem)) /\ FileOfLines(LinesIn(cf.mem))
  BY <1>0, LinesInOK DEF FileOK
<1>2. CASE Cf!OpenFile /\ cf' = [cf EXCEPT !.at = cf.then]
  <2>1. /\ DOMAIN cf' = CfFields /\ cf'.at = cf.then /\ cf'.then = cf.then /\ cf'.mem = cf.mem
        /\ cf'.file = cf.file /\ cf'.whole = cf.whole /\ cf'.saved = cf.saved /\ cf.at = "open"
    BY <1>0, <1>2 DEF CfFields, Cf!OpenFile
  <2>2. CfInv(cf')
    BY <1>0, <2>1 DEF CfInv
  <2> QED
    BY <2>2 DEF SettingsInv
<1>3. CASE Cf!OpenFile /\ cf' # [cf EXCEPT !.at = cf.then]
  <2>1. /\ DOMAIN cf' = CfFields /\ cf'.at = "writing" /\ cf'.then = cf.then /\ cf'.mem = cf.mem
        /\ cf'.file = Cf!NoLines /\ cf'.whole = FALSE /\ cf'.place = Cf!Begin
    BY <1>0, <1>3 DEF CfFields, Cf!OpenFile
  <2>2. CfInv(cf')
    BY <1>0, <1>1, <2>1, EmptyFile DEF CfInv
  <2> QED
    BY <2>2 DEF SettingsInv
<1>4. CASE Cf!WriteFile /\ cf.place.s <= NHosts
  <2> DEFINE p == cf.place
             g == [cf.file EXCEPT ![p.s][Cf!ItemAt(p)] = Cf!Line(cf.mem, p.s, Cf!ItemAt(p))]
  <2>1. cf' = [cf EXCEPT !.file = g, !.place = Cf!After(p)] /\ cf.at = "writing"
    BY <1>4 DEF Cf!WriteFile
  <2>2. PlaceOK(Cf!After(p)) /\ g = Part(LinesIn(cf.mem), Cf!After(p))
    <3>1. PlaceOK(p) /\ p.s <= NHosts /\ cf.file = Part(LinesIn(cf.mem), p)
      BY <1>0, <1>4, <2>1
    <3>2. p.s \in 0 .. NHosts /\ Cf!ItemAt(p) \in LinesOf(p.s) /\ PlaceOK(Cf!After(p))
      BY <3>1, NextLine, SettingsAssumption DEF PlaceOK
    <3>3. LinesIn(cf.mem)[p.s][Cf!ItemAt(p)] = Cf!Line(cf.mem, p.s, Cf!ItemAt(p))
      BY <1>0, <3>2, LinesInOK
    <3>4. Part(LinesIn(cf.mem), Cf!After(p)) =
            [Part(LinesIn(cf.mem), p) EXCEPT ![p.s][Cf!ItemAt(p)] = LinesIn(cf.mem)[p.s][Cf!ItemAt(p)]]
      BY <3>1, PartGrows
    <3> QED
      BY <3>1, <3>2, <3>3, <3>4
  <2> HIDE DEF p, g
  <2>3. /\ DOMAIN cf' = CfFields /\ cf'.at = "writing" /\ cf'.then = cf.then /\ cf'.mem = cf.mem
        /\ cf'.file = g /\ cf'.whole = cf.whole /\ cf'.place = Cf!After(p)
    BY <1>0, <2>1 DEF CfFields
  <2>4. FileOK(g)
    BY <1>1, <2>2, PartOK
  <2>5. CfInv(cf')
    BY <1>0, <2>1, <2>2, <2>3, <2>4 DEF CfInv
  <2> QED
    BY <2>5 DEF SettingsInv
<1>5. CASE Cf!WriteFile /\ ~(cf.place.s <= NHosts)
  <2>1. cf' = [cf EXCEPT !.at = cf.then, !.whole = TRUE, !.saved = cf.mem] /\ cf.at = "writing"
    BY <1>5 DEF Cf!WriteFile
  <2>2. /\ DOMAIN cf' = CfFields /\ cf'.at = cf.then /\ cf'.then = cf.then /\ cf'.mem = cf.mem
        /\ cf'.file = cf.file /\ cf'.saved = cf.mem
    BY <1>0, <2>1 DEF CfFields
  <2>3. cf.file = LinesIn(cf.mem)
    BY <1>0, <1>1, <1>5, <2>1, PartEnds
  <2>4. Cf!Effective(Cf!Content(cf.file)) = Cf!Effective(cf.mem)
    BY <1>0, <2>3, RoundTrip
  <2>5. CfInv(cf')
    BY <1>0, <2>2, <2>4 DEF CfInv
  <2> QED
    BY <2>5 DEF SettingsInv
<1>6. CASE Cf!SwitchedOff
  <2>1. PICK f \in IF cf.at = "writing" THEN Cf!Beginnings(cf.file, cf.mem, cf.place) ELSE {cf.file} :
          cf' = Cf!Restarted(cf, f)
    BY <1>6 DEF Cf!SwitchedOff
  <2>2. /\ DOMAIN cf' = CfFields /\ cf'.at = "parse" /\ cf'.then = "up" /\ cf'.mem = Cf!Defaults
        /\ cf'.file = f /\ cf'.place = Cf!Begin /\ cf'.host = 0 /\ cf'.read = {}
        /\ cf'.whole = cf.whole /\ cf'.saved = cf.saved
    BY <1>0, <2>1 DEF CfFields, Cf!Restarted
  <2>3. FileOK(f) /\ (cf.whole => Cf!Effective(Cf!Content(f)) = Cf!Effective(cf.saved))
    <3>1. CASE cf.at = "writing"
      <4>1. f \in Cf!Beginnings(Part(LinesIn(cf.mem), cf.place), cf.mem, cf.place)
        BY <1>0, <2>1, <3>1
      <4> QED
        BY <1>0, <3>1, <4>1, BeginningsOK
    <3>2. CASE cf.at # "writing"
      <4>1. cf.at # "off"
        BY <1>6 DEF Cf!SwitchedOff
      <4> QED
        BY <1>0, <2>1, <3>2, <4>1
    <3> QED
      BY <3>1, <3>2
  <2>4. ReadOK(cf')
    <3>1. cf'.mem = Cf!Content(Part(cf'.file, cf'.place)) /\ cf'.host = 0 /\ cf'.place.s = 0
      BY <2>2, <2>3, EmptyFile DEF Cf!Begin
    <3>2. 0 \notin Cf!Hosts
      BY SettingsAssumption DEF Cf!Hosts
    <3> QED
      BY <3>1, <3>2 DEF ReadOK
  <2>5. CfInv(cf')
    BY <2>2, <2>3, <2>4, EmptyFile DEF CfInv
  <2> QED
    BY <2>5 DEF SettingsInv
<1> QED
  BY <1>2, <1>3, <1>4, <1>5, <1>6

LEMMA SettingsStep == SettingsInv /\ [Cf!NextSettings]_cf => SettingsInv'
  BY SettingsRead, SettingsChange, SettingsWrite DEF Cf!NextSettings, SettingsInv

LEMMA SettingsFollows == SettingsInv => Cf!SettingsAreKept
<1> SUFFICES ASSUME SettingsInv PROVE Cf!SettingsAreKept
  OBVIOUS
<1>1. MemOK(cf.mem)
  BY DEF SettingsInv, CfInv
<1>2. cf.at = "started" /\ cf.whole => Cf!Effective(cf.mem) = Cf!Effective(cf.saved)
  BY DEF SettingsInv, CfInv
<1> QED
  BY <1>1, <1>2 DEF MemOK, LoginOK, Cf!SettingsAreKept, Cf!IsCloudLoggedIn

-----------------------------------------------------------------------------
(* The game lists of the cloud tabs. *)

\* The list of a PS5 account's games has each id once, and so has the PSNOW catalogue.
Entries == Cl!Games \cup Cl!Others \cup {Cl!Game(3)}
GameRecord == [id : Nat, rank : Int, hint : BOOLEAN]
OnceEach(games) == \A i, j \in DOMAIN games : games[i].id = games[j].id => i = j
OwnedList(games) == games \in Seq(GameRecord) /\ OnceEach(games)
IdList(ids) == ids \in Seq(Nat) /\ Cl!IsInjective(ids)

\* The first n entries that have an id, and a list made of entries: those that pass the
\* filters, each with the rank of its best.
Taken(server, n) == {e \in {server[q] : q \in 1 .. n} : Cl!ParsePs5Entitlement(e)}
Kept(es) == {e \in es : Cl!KeepPs5Entitlement(e) /\ Cl!Resolved(e)}
MadeOf(games, es) ==
  /\ \A q \in DOMAIN games : \E e \in Kept(es) : e.id = games[q].id
  /\ \A e \in Kept(es) : \E q \in DOMAIN games : games[q].id = e.id
  /\ \A q \in DOMAIN games : \A e \in Kept(es) :
       e.id = games[q].id => Cl!OwnedPs5StreamRank(e) <= games[q].rank

\* The list shown, the files, and the list that is loaded.
ClFields == {"at", "account", "cache", "tab", "force", "server", "start", "next", "raw", "games", "shown", "loads"}
Ps5Places == {"token", "page", "entries", "games", "catalog", "store"}
PsnowPlaces == {"code", "session", "base_url", "urls", "category"}
RowsOK(tab, games) ==
  /\ tab = "ps5" => OnceEach(games)
  /\ tab \in {"ps4", "ps3"} =>
       Cl!IsInjective(games) /\ \A q \in DOMAIN games : Cl!PlatformForPsnowProductId(games[q]) = tab
ShownOK(x) == RowsOK(x.tab, x.games) /\ (x.ok /\ x.force => x.by = x.wanted)
CacheOK(c) == DOMAIN c = Cl!Files /\ OwnedList(c["ps5owned"].games) /\ IdList(c["psnow"].games)
End(r) == IF r.start + PageSize < Len(r.server) THEN r.start + PageSize ELSE Len(r.server)
Ps5Loading(r) ==
  /\ r.tab = "ps5" /\ r.server \in Seq(Entries) /\ r.raw \in Seq(Entries) /\ OwnedList(r.games)
  /\ r.start \in Nat /\ r.next \in Nat
  /\ r.at \in {"token", "page", "entries"} => r.games = <<>> /\ r.start <= Len(r.server)
  /\ r.at \in {"token", "page"} => Cl!ToSet(r.raw) = Taken(r.server, r.start)
  /\ r.at = "entries" => r.next <= End(r) /\ Cl!ToSet(r.raw) = Taken(r.server, r.next)
  /\ r.at \in {"games", "catalog", "store"} => Cl!ToSet(r.raw) = Taken(r.server, Len(r.server))
  /\ r.at = "games" => r.next <= Len(r.raw) /\ MadeOf(r.games, {r.raw[q] : q \in 1 .. r.next})
  /\ r.at \in {"catalog", "store"} => MadeOf(r.games, Cl!ToSet(r.raw))
PsnowLoading(r) ==
  /\ r.tab \in {"ps4", "ps3"} /\ r.server \in Seq(Seq(Nat)) /\ r.raw \in Seq(Nat) /\ IdList(r.games)
  /\ r.start \in Nat /\ r.next \in Nat
NotLoading(r) == r.server = <<>> /\ r.start = 0 /\ r.next = 0 /\ r.raw = <<>> /\ r.games = <<>>
ClInv(r) ==
  /\ DOMAIN r = ClFields /\ r.at \in {"off", "idle"} \cup Ps5Places \cup PsnowPlaces
  /\ CacheOK(r.cache) /\ ShownOK(r.shown)
  /\ r.at \in {"off", "idle"} => NotLoading(r)
  /\ r.at \in Ps5Places => Ps5Loading(r)
  /\ r.at \in PsnowPlaces => PsnowLoading(r)
LibraryInv == ClInv(cl)

LEMMA EmptyLists == OwnedList(<<>>) /\ IdList(<<>>)
  BY DEF OwnedList, OnceEach, IdList, Cl!IsInjective

\* An entry is added to the list or made the better of the one that is there.
LEMMA ListedOK ==
  ASSUME NEW games, OwnedList(games), NEW e, e.id \in Nat, NEW es, MadeOf(games, es),
         Cl!KeepPs5Entitlement(e) /\ Cl!Resolved(e)
  PROVE  OwnedList(Cl!Listed(games, e)) /\ MadeOf(Cl!Listed(games, e), es \cup {e})
<1> DEFINE n == Cl!Listed(games, e)
           rank == Cl!OwnedPs5StreamRank(e)
<1>0. games \in Seq(GameRecord) /\ OnceEach(games) /\ Len(games) \in Nat /\ DOMAIN games = 1 .. Len(games)
      /\ \A q \in DOMAIN games : games[q] \in GameRecord
  BY DEF OwnedList
<1>1. rank \in Int
  BY DEF Cl!OwnedPs5StreamRank
<1>2. Kept(es \cup {e}) = Kept(es) \cup {e}
  BY DEF Kept
<1>3. /\ \A q \in DOMAIN games : \E x \in Kept(es) : x.id = games[q].id
      /\ \A x \in Kept(es) : \E q \in DOMAIN games : games[q].id = x.id
      /\ \A q \in DOMAIN games : \A x \in Kept(es) : x.id = games[q].id => Cl!OwnedPs5StreamRank(x) <= games[q].rank
  BY DEF MadeOf
<1>30. \A x : Cl!OwnedPs5StreamRank(x) \in Int
  BY DEF Cl!OwnedPs5StreamRank
<1>4. CASE \E q \in DOMAIN games : games[q].id = e.id
  <2>1. n = [q \in DOMAIN games |-> Cl!Better(games[q], e)]
    BY <1>4 DEF Cl!Listed
  <2>2. ASSUME NEW g \in GameRecord
        PROVE  LET b == Cl!Better(g, e) IN
               b \in GameRecord /\ b.id = g.id /\ b.rank >= g.rank /\ (g.id = e.id => b.rank >= rank)
    BY <1>1 DEF Cl!Better, GameRecord
  <2>3. n \in Seq(GameRecord) /\ DOMAIN n = DOMAIN games
    <3>1. \A q \in 1 .. Len(games) : Cl!Better(games[q], e) \in GameRecord
      BY <1>0, <2>2
    <3> QED
      BY <1>0, <2>1, <3>1
  <2>4. \A q \in DOMAIN games : /\ n[q].id = games[q].id /\ n[q].rank >= games[q].rank /\ n[q].rank \in Int
                                /\ games[q].id = e.id => n[q].rank >= rank
    BY <1>0, <2>1, <2>2 DEF GameRecord
  <2> HIDE DEF n, rank
  <2>5. OwnedList(n)
    BY <1>0, <2>3, <2>4 DEF OwnedList, OnceEach
  <2>6. MadeOf(n, es \cup {e})
    <3>1. \A q \in DOMAIN n : \E x \in Kept(es \cup {e}) : x.id = n[q].id
      BY <1>2, <1>3, <2>3, <2>4
    <3>2. \A x \in Kept(es \cup {e}) : \E q \in DOMAIN n : n[q].id = x.id
      BY <1>2, <1>3, <1>4, <2>3, <2>4
    <3>3. ASSUME NEW q \in DOMAIN n, NEW x \in Kept(es \cup {e}), x.id = n[q].id
          PROVE  Cl!OwnedPs5StreamRank(x) <= n[q].rank
      <4>1. CASE x = e
        BY <2>3, <2>4, <3>3, <4>1 DEF rank
      <4>2. CASE x \in Kept(es)
        <5>1. Cl!OwnedPs5StreamRank(x) <= games[q].rank /\ games[q].rank <= n[q].rank
          BY <1>3, <2>3, <2>4, <3>3, <4>2, <1>0 DEF GameRecord
        <5> QED
          <6>1. /\ Cl!OwnedPs5StreamRank(x) \in Int /\ n[q].rank \in Int
            BY <1>30, <2>3, <2>4
          <6>2. games[q].rank \in Int
            BY <1>0, <2>3 DEF GameRecord
          <6> QED
            BY <5>1, <6>1, <6>2
      <4> QED
        BY <1>2, <4>1, <4>2
    <3> QED
      BY <3>1, <3>2, <3>3 DEF MadeOf
  <2> QED
    BY <2>5, <2>6 DEF n
<1>5. CASE ~\E q \in DOMAIN games : games[q].id = e.id
  <2> DEFINE a == [id |-> e.id, rank |-> rank, hint |-> FALSE]
             L == Len(games)
  <2>1. n = Append(games, a)
    BY <1>5 DEF Cl!Listed
  <2>2. a \in GameRecord /\ a.id = e.id /\ a.rank = rank
    BY <1>1 DEF GameRecord
  <2> HIDE DEF a
  <2>3. n \in Seq(GameRecord) /\ DOMAIN n = 1 .. L + 1 /\ n[L + 1] = a /\ \A q \in 1 .. L : n[q] = games[q]
    BY <1>0, <2>1, <2>2
  <2> HIDE DEF n, rank
  <2>4. OwnedList(n)
    BY <1>0, <1>5, <2>2, <2>3 DEF OwnedList, OnceEach
  <2>5. \A q \in DOMAIN n : q = L + 1 \/ (q \in DOMAIN games /\ n[q] = games[q])
    BY <1>0, <2>3
  <2>50. DOMAIN games \subseteq DOMAIN n /\ L + 1 \in DOMAIN n
    BY <1>0, <2>3
  <2>6. MadeOf(n, es \cup {e})
    <3>1. \A q \in DOMAIN n : \E x \in Kept(es \cup {e}) : x.id = n[q].id
      BY <1>2, <1>3, <2>2, <2>3, <2>5
    <3>2. \A x \in Kept(es \cup {e}) : \E q \in DOMAIN n : n[q].id = x.id
      <4> SUFFICES ASSUME NEW x \in Kept(es \cup {e}) PROVE \E q \in DOMAIN n : n[q].id = x.id
        OBVIOUS
      <4>1. CASE x = e
        BY <2>2, <2>3, <2>50, <4>1
      <4>2. CASE x \in Kept(es)
        BY <1>0, <1>3, <2>3, <2>50, <4>2
      <4> QED
        BY <1>2, <4>1, <4>2
    <3>3. ASSUME NEW q \in DOMAIN n, NEW x \in Kept(es \cup {e}), x.id = n[q].id
          PROVE  Cl!OwnedPs5StreamRank(x) <= n[q].rank
      <4>1. CASE q = L + 1
        <5>1. x \notin Kept(es)
          BY <1>3, <1>5, <2>2, <2>3, <3>3, <4>1
        <5> QED
          <6>1. x = e /\ n[q].rank = rank
            BY <1>2, <2>2, <2>3, <4>1, <5>1
          <6> QED
            BY <1>1, <6>1 DEF rank
      <4>2. CASE q \in DOMAIN games /\ n[q] = games[q]
        BY <1>2, <1>3, <1>5, <3>3, <4>2
      <4> QED
        BY <2>5, <4>1, <4>2
    <3> QED
      BY <3>1, <3>2, <3>3 DEF MadeOf
  <2> QED
    BY <2>4, <2>6 DEF n
<1> QED
  BY <1>4, <1>5

\* Sorting a list, or the part of it that a tab shows, repeats nothing.
Picked(p, rows, games, places) ==
  /\ DOMAIN rows = DOMAIN p
  /\ \A q \in DOMAIN p : p[q] \in places /\ rows[q] = games[p[q]]
  /\ \A j, q \in DOMAIN p : p[j] = p[q] => j = q
LEMMA RowsAreOnce ==
  /\ \A games, rows : OwnedList(games) /\ rows \in Cl!TabRows("ps5", games) => RowsOK("ps5", rows)
  /\ \A games, rows, tab : IdList(games) /\ tab \in {"ps4", "ps3"} /\ rows \in Cl!TabRows(tab, games) => RowsOK(tab, rows)
<1>1. ASSUME NEW games, NEW places, NEW name, NEW rows \in Cl!Rows(games, places, name)
      PROVE  \E p : Picked(p, rows, games, places)
  <2>1. PICK p \in Cl!Orders(places, name) : rows = [q \in DOMAIN p |-> games[p[q]]]
    BY <1>1 DEF Cl!Rows
  <2>2. p \in Cl!Bijection(1 .. Cl!Cardinality(places), places)
    BY <2>1 DEF Cl!Orders
  <2>3. p \in [1 .. Cl!Cardinality(places) -> places] /\ Cl!IsInjective(p)
    BY <2>2 DEF Cl!Bijection, Cl!Injection
  <2> QED
    BY <2>1, <2>3 DEF Cl!IsInjective, Picked
<1>2. ASSUME NEW games, NEW rows, OwnedList(games), rows \in Cl!TabRows("ps5", games) PROVE RowsOK("ps5", rows)
  <2> DEFINE name == [q \in DOMAIN games |-> games[q].id]
  <2>1. rows \in Cl!Rows(games, DOMAIN games, name)
    BY <1>2 DEF Cl!TabRows
  <2> HIDE DEF name
  <2>2. PICK p : Picked(p, rows, games, DOMAIN games)
    BY <1>1, <2>1
  <2> QED
    BY <1>2, <2>2 DEF OwnedList, OnceEach, RowsOK, Picked
<1>3. ASSUME NEW games, NEW rows, NEW tab \in {"ps4", "ps3"}, IdList(games), rows \in Cl!TabRows(tab, games)
      PROVE  RowsOK(tab, rows)
  <2> DEFINE places == {q \in DOMAIN games : Cl!PlatformForPsnowProductId(games[q]) = tab}
  <2>1. rows \in Cl!Rows(games, places, games)
    BY <1>3 DEF Cl!TabRows
  <2>2. \A q \in places : q \in DOMAIN games /\ Cl!PlatformForPsnowProductId(games[q]) = tab
    OBVIOUS
  <2> HIDE DEF places
  <2>3. PICK p : Picked(p, rows, games, places)
    BY <1>1, <2>1
  <2> QED
    BY <1>3, <2>2, <2>3 DEF IdList, Cl!IsInjective, RowsOK, Picked
<1> QED
  BY <1>2, <1>3

\* A list is shown, nothing being loaded any more; a file is kept, or torn.
LEMMA RestartedFields ==
  ASSUME NEW r, DOMAIN r = ClFields
  PROVE  LET w == Cl!Restarted(r) IN
         /\ DOMAIN w = ClFields /\ w.at = "idle" /\ w.cache = r.cache /\ w.shown = Cl!NoList
         /\ w.server = <<>> /\ w.start = 0 /\ w.next = 0 /\ w.raw = <<>> /\ w.games = <<>>
<1> DEFINE w == Cl!Restarted(r)
<1>1. DOMAIN w = DOMAIN r
  BY Zenon DEF Cl!Restarted
<1>2. w.at = "idle"
  BY DEF Cl!Restarted, ClFields
<1>3. w.cache = r.cache
  BY DEF Cl!Restarted, ClFields
<1>4. w.shown = Cl!NoList
  BY DEF Cl!Restarted, ClFields
<1>5. w.server = <<>>
  BY DEF Cl!Restarted, ClFields
<1>6. w.start = 0
  BY DEF Cl!Restarted, ClFields
<1>7. w.next = 0
  BY DEF Cl!Restarted, ClFields
<1>8. w.raw = <<>>
  BY DEF Cl!Restarted, ClFields
<1>9. w.games = <<>>
  BY DEF Cl!Restarted, ClFields
<1> HIDE DEF w
<1>10. DOMAIN w = ClFields /\ w.at = "idle" /\ w.cache = r.cache /\ w.shown = Cl!NoList
       /\ w.server = <<>> /\ w.start = 0 /\ w.next = 0 /\ w.raw = <<>> /\ w.games = <<>>
  BY <1>1, <1>2, <1>3, <1>4, <1>5, <1>6, <1>7, <1>8, <1>9
<1> QED
  BY <1>10 DEF w

LEMMA ShownKeeps ==
  ASSUME NEW r, DOMAIN r = ClFields, CacheOK(r.cache), NEW ok, NEW by, NEW games, RowsOK(r.tab, games),
         ok /\ r.force => by = r.account
  PROVE  ClInv(Cl!Shown(r, ok, by, games))
<1> DEFINE w == Cl!Shown(r, ok, by, games)
           x == [tab |-> r.tab, ok |-> ok, by |-> by, wanted |-> r.account, force |-> r.force, games |-> games]
<1>1. DOMAIN w = ClFields /\ w.at = "idle" /\ w.cache = r.cache /\ w.shown = x /\ NotLoading(w)
  <2> DEFINE u == Cl!Restarted(r)
  <2>1. w = [u EXCEPT !.shown = x]
    BY DEF Cl!Shown
  <2>2. DOMAIN u = ClFields /\ u.at = "idle" /\ u.cache = r.cache /\ u.server = <<>> /\ u.start = 0
        /\ u.next = 0 /\ u.raw = <<>> /\ u.games = <<>>
    BY RestartedFields
  <2> HIDE DEF u, x
  <2> QED
    BY <2>1, <2>2 DEF NotLoading, ClFields
<1>2. x.tab = r.tab /\ x.ok = ok /\ x.by = by /\ x.wanted = r.account /\ x.force = r.force /\ x.games = games
  OBVIOUS
<1> HIDE DEF w, x
<1>3. ShownOK(x)
  BY <1>2 DEF ShownOK
<1>4. ClInv(w)
  BY <1>1, <1>3 DEF ClInv, Ps5Places, PsnowPlaces
<1> QED
  BY <1>4 DEF w

LEMMA FailedKeeps ==
  ASSUME NEW r, DOMAIN r = ClFields, CacheOK(r.cache)
  PROVE  ClInv(Cl!Failed(r))
<1>1. RowsOK(r.tab, <<>>)
  BY DEF RowsOK, OnceEach, Cl!IsInjective
<1> QED
  BY <1>1, ShownKeeps DEF Cl!Failed

LEMMA RestartedKeeps ==
  ASSUME NEW r, DOMAIN r = ClFields, CacheOK(r.cache)
  PROVE  ClInv(Cl!Restarted(r))
<1> DEFINE w == Cl!Restarted(r)
<1>1. DOMAIN w = ClFields /\ w.at = "idle" /\ w.cache = r.cache /\ w.shown = Cl!NoList /\ NotLoading(w)
  <2>1. DOMAIN w = ClFields /\ w.at = "idle" /\ w.cache = r.cache /\ w.shown = Cl!NoList /\ w.server = <<>>
        /\ w.start = 0 /\ w.next = 0 /\ w.raw = <<>> /\ w.games = <<>>
    BY RestartedFields
  <2> HIDE DEF w
  <2> QED
    BY <2>1 DEF NotLoading
<1>2. ShownOK(Cl!NoList)
  BY DEF Cl!NoList, ShownOK, RowsOK
<1> HIDE DEF w
<1>3. ClInv(w)
  BY <1>1, <1>2 DEF ClInv, Ps5Places, PsnowPlaces
<1> QED
  BY <1>3 DEF w

Refiled(w, r) == DOMAIN w = ClFields /\ CacheOK(w.cache) /\ \A x \in ClFields \ {"cache"} : w[x] = r[x]
LEMMA FilesKeep ==
  ASSUME NEW r, DOMAIN r = ClFields, CacheOK(r.cache), NEW f \in Cl!Files, NEW games,
         f = "ps5owned" => OwnedList(games), f = "psnow" => IdList(games)
  PROVE  /\ \A w \in Cl!Stored(r, f, games) : Refiled(w, r)
         /\ DOMAIN Cl!Torn(r, f) = ClFields /\ CacheOK(Cl!Torn(r, f).cache)
<1>0. "ps5owned" \in Cl!Files /\ "psnow" \in Cl!Files
  BY DEF Cl!Files
<1>1. ASSUME NEW c, f = "ps5owned" => OwnedList(c.games), f = "psnow" => IdList(c.games),
             NEW w, w = [r EXCEPT !.cache[f] = c]
      PROVE  DOMAIN w = ClFields /\ CacheOK(w.cache) /\ \A x \in ClFields \ {"cache"} : w[x] = r[x]
  <2>1. DOMAIN w = ClFields /\ w.cache = [r.cache EXCEPT ![f] = c] /\ \A x \in ClFields \ {"cache"} : w[x] = r[x]
    BY <1>1 DEF ClFields
  <2>2. CacheOK([r.cache EXCEPT ![f] = c])
    BY <1>0, <1>1 DEF CacheOK
  <2> QED
    BY <2>1, <2>2
<1> DEFINE good == [is |-> "good", by |-> r.account, games |-> games]
           torn == [Cl!Missing EXCEPT !.is = "torn"]
<1>2. good.games = games /\ torn.games = <<>>
  BY DEF Cl!Missing
<1>3. /\ Cl!Stored(r, f, games) = {r, [r EXCEPT !.cache[f] = good]}
      /\ Cl!Torn(r, f) = [r EXCEPT !.cache[f] = torn]
  BY DEF Cl!Stored, Cl!Torn
<1> HIDE DEF good, torn
<1> QED
  BY <1>1, <1>2, <1>3, EmptyLists DEF Refiled
\* What the server may hold.
LEMMA ServerOK ==
  /\ \A e \in Entries : e.id \in Nat
  /\ Cl!Lists \subseteq Seq(Entries)
  /\ Cl!Categories \subseteq Seq(Seq(Nat))
<1>4. \A e \in Entries : e.id \in Nat
  BY DEF Entries, Cl!Games, Cl!Others, Cl!Game, Cl!Owned
<1>5. Cl!Lists \subseteq Seq(Entries)
  <2>1. \A a, b, c \in Entries : <<a, b, c>> \in Seq(Entries) /\ <<a>> \in Seq(Entries) /\ <<>> \in Seq(Entries)
    OBVIOUS
  <2>2. Cl!Games \subseteq Entries /\ Cl!Others \subseteq Entries /\ Cl!Game(3) \in Entries
    BY DEF Entries
  <2>3. ASSUME NEW x \in Cl!Lists
        PROVE  x = <<>> \/ (\E a, b \in Cl!Games : x = <<a, b, Cl!Game(3)>>) \/ (\E a \in Cl!Others : x = <<a>>)
    BY <2>3 DEF Cl!Lists
  <2>4. ASSUME NEW a \in Cl!Games, NEW b \in Cl!Games PROVE <<a, b, Cl!Game(3)>> \in Seq(Entries)
    BY <2>1, <2>2
  <2>5. ASSUME NEW a \in Cl!Others PROVE <<a>> \in Seq(Entries)
    BY <2>1, <2>2
  <2>6. ASSUME NEW x \in Cl!Lists PROVE x \in Seq(Entries)
    <3>1. CASE x = <<>>
      BY <3>1
    <3>2. CASE \E a, b \in Cl!Games : x = <<a, b, Cl!Game(3)>>
      BY <2>4, <3>2
    <3>3. CASE \E a \in Cl!Others : x = <<a>>
      BY <2>5, <3>3
    <3> QED
      BY <2>3, <2>6, <3>1, <3>2, <3>3
  <2> QED
    BY <2>6
<1>6. Cl!Categories \subseteq Seq(Seq(Nat))
  <2>1. <<1, 2>> \in Seq(Nat) /\ <<2, 3>> \in Seq(Nat) /\ <<>> \in Seq(Nat)
    OBVIOUS
  <2>2. \A a, b \in Seq(Nat) : <<a, b>> \in Seq(Seq(Nat))
    OBVIOUS
  <2> QED
    BY <2>1, <2>2 DEF Cl!Categories
<1> QED
  BY <1>4, <1>5, <1>6

\* One more entry is taken over.
LEMMA TakenMore ==
  ASSUME NEW server, NEW n \in Nat, NEW raw \in Seq(Entries), Cl!ToSet(raw) = Taken(server, n), server[n + 1] \in Entries
  PROVE  LET e == server[n + 1]
             w == IF Cl!ParsePs5Entitlement(e) THEN Append(raw, e) ELSE raw
         IN w \in Seq(Entries) /\ Cl!ToSet(w) = Taken(server, n + 1)
<1> DEFINE e == server[n + 1]
<1>1. \A x : x \in Taken(server, n + 1) <=> x \in Taken(server, n) \/ (x = e /\ Cl!ParsePs5Entitlement(e))
  <2>1. \A x : x \in {server[q] : q \in 1 .. n + 1} <=> x \in {server[q] : q \in 1 .. n} \/ x = e
    <3>1. \A q : q \in 1 .. n + 1 <=> q \in 1 .. n \/ q = n + 1
      OBVIOUS
    <3> QED
      BY <3>1
  <2> QED
    BY <2>1 DEF Taken
<1> HIDE DEF e
<1>2. e \in Entries /\ Append(raw, e) \in Seq(Entries)
  BY DEF e
<1>3. \A x : x \in Cl!ToSet(Append(raw, e)) <=> x \in Cl!ToSet(raw) \/ x = e
  <2> DEFINE a == Append(raw, e)
  <2>1. /\ Len(raw) \in Nat /\ DOMAIN raw = 1 .. Len(raw) /\ DOMAIN a = 1 .. Len(raw) + 1
        /\ a[Len(raw) + 1] = e /\ \A q \in 1 .. Len(raw) : a[q] = raw[q]
    OBVIOUS
  <2>2. \A q : q \in 1 .. Len(raw) + 1 <=> q \in 1 .. Len(raw) \/ q = Len(raw) + 1
    BY <2>1
  <2> HIDE DEF a
  <2>3. \A x : x \in Cl!ToSet(a) <=> x \in Cl!ToSet(raw) \/ x = e
    BY <2>1, <2>2 DEF Cl!ToSet
  <2> QED
    BY <2>3 DEF a
<1>4. CASE Cl!ParsePs5Entitlement(e)
  <2>1. Cl!ToSet(Append(raw, e)) = Taken(server, n + 1)
    <3>1. \A x : x \in Cl!ToSet(Append(raw, e)) <=> x \in Taken(server, n + 1)
      BY <1>1, <1>3, <1>4
    <3> HIDE DEF e
    <3> QED
      BY <3>1
  <2> QED
    BY <1>2, <1>4, <2>1 DEF e
<1>5. CASE ~Cl!ParsePs5Entitlement(e)
  <2>1. Cl!ToSet(raw) = Taken(server, n + 1)
    BY <1>1, <1>5
  <2> QED
    BY <1>5, <2>1 DEF e
<1> QED
  BY <1>4, <1>5

\* The hints change neither ids nor ranks.
LEMMA HintedOK ==
  ASSUME NEW games, OwnedList(games), NEW catalog, NEW es, MadeOf(games, es)
  PROVE  OwnedList(Cl!Hinted(games, catalog)) /\ MadeOf(Cl!Hinted(games, catalog), es)
<1> DEFINE n == Cl!Hinted(games, catalog)
           f(g) == [id |-> g.id, rank |-> g.rank, hint |-> Cl!HintOf(g.id, catalog)]
<1>1. games \in Seq(GameRecord) /\ DOMAIN games = 1 .. Len(games) /\ Len(games) \in Nat
      /\ \A q \in DOMAIN games : games[q] \in GameRecord
  BY DEF OwnedList
<1>2. \A id : Cl!HintOf(id, catalog) \in BOOLEAN
  BY DEF Cl!HintOf
<1>3. \A g \in GameRecord : f(g) \in GameRecord /\ f(g).id = g.id /\ f(g).rank = g.rank
  BY <1>2 DEF GameRecord
<1>4. n = [q \in DOMAIN games |-> f(games[q])]
  BY DEF Cl!Hinted
<1> HIDE DEF n, f
<1>5. DOMAIN n = DOMAIN games /\ \A q \in DOMAIN n : n[q] \in GameRecord /\ n[q].id = games[q].id /\ n[q].rank = games[q].rank
  BY <1>1, <1>3, <1>4
<1>6. n \in Seq(GameRecord)
  <2>1. \A q \in 1 .. Len(games) : f(games[q]) \in GameRecord
    BY <1>1, <1>3
  <2> QED
    BY <1>1, <1>4, <2>1
<1>7. OwnedList(n)
  BY <1>5, <1>6 DEF OwnedList, OnceEach
<1>8. MadeOf(n, es)
  BY <1>5 DEF MadeOf
<1> QED
  BY <1>7, <1>8 DEF n

LEMMA LibraryInit == Cl!InitLibrary => LibraryInv
<1> SUFFICES ASSUME Cl!InitLibrary PROVE LibraryInv
  OBVIOUS
<1>1. /\ DOMAIN cl = ClFields /\ cl.at = "off" /\ cl.cache = [f \in Cl!Files |-> Cl!Missing] /\ cl.shown = Cl!NoList
      /\ NotLoading(cl)
  BY DEF Cl!InitLibrary, ClFields, NotLoading
<1>2. CacheOK(cl.cache)
  <2>1. Cl!Missing.games = <<>> /\ "ps5owned" \in Cl!Files /\ "psnow" \in Cl!Files
    BY DEF Cl!Missing, Cl!Files
  <2> QED
    BY <1>1, <2>1, EmptyLists DEF CacheOK
<1>3. ShownOK(cl.shown)
  BY <1>1 DEF Cl!NoList, ShownOK, RowsOK
<1> QED
  BY <1>1, <1>2, <1>3 DEF LibraryInv, ClInv, Ps5Places, PsnowPlaces

\* A list is opened, the account or the day changes.
LEMMA LibraryOpen ==
  ASSUME LibraryInv, NEW tab \in {"ps5", "ps4", "ps3"}, NEW force \in BOOLEAN, Cl!OpenList(tab, force)
  PROVE  LibraryInv'
<1> DEFINE r == [cl EXCEPT !.tab = tab, !.force = force, !.shown = Cl!NoList, !.loads = @ + 1]
           f == Cl!CacheOf(tab)
<1>0. DOMAIN cl = ClFields /\ cl.at = "idle" /\ CacheOK(cl.cache) /\ NotLoading(cl)
  BY DEF Cl!OpenList, LibraryInv, ClInv
<1>1. /\ DOMAIN r = ClFields /\ r.tab = tab /\ r.force = force /\ r.shown = Cl!NoList
      /\ r.cache = cl.cache /\ r.account = cl.account /\ r.at = "idle"
      /\ r.server = <<>> /\ r.start = 0 /\ r.next = 0 /\ r.raw = <<>> /\ r.games = <<>>
  BY <1>0 DEF ClFields, NotLoading
<1>2. \/ cl' = Cl!Failed(r)
      \/ Cl!UseCache(f, force) /\ \E rows \in Cl!TabRows(tab, cl.cache[f].games) : cl' = Cl!Shown(r, TRUE, cl.cache[f].by, rows)
      \/ \E u \in IF tab = "ps5" THEN Cl!Lists ELSE Cl!Categories : cl' = Cl!Asked(r, u)
  BY DEF Cl!OpenList
<1> HIDE DEF r, f
<1>3. CASE cl' = Cl!Failed(r)
  BY <1>0, <1>1, <1>3, FailedKeeps DEF LibraryInv
<1>4. ASSUME Cl!UseCache(f, force), NEW rows \in Cl!TabRows(tab, cl.cache[f].games), cl' = Cl!Shown(r, TRUE, cl.cache[f].by, rows)
      PROVE  LibraryInv'
  <2>1. ~force
    BY <1>4 DEF Cl!UseCache
  <2>2. RowsOK(tab, rows)
    BY <1>0, <1>4, RowsAreOnce DEF f, Cl!CacheOf, CacheOK
  <2>3. ClInv(Cl!Shown(r, TRUE, cl.cache[f].by, rows))
    BY <1>0, <1>1, <2>1, <2>2, ShownKeeps
  <2> QED
    BY <1>4, <2>3 DEF LibraryInv
<1>5. ASSUME NEW u \in IF tab = "ps5" THEN Cl!Lists ELSE Cl!Categories, cl' = Cl!Asked(r, u)
      PROVE  LibraryInv'
  <2>1. /\ DOMAIN cl' = ClFields /\ cl'.at = (IF tab = "ps5" THEN "token" ELSE "code") /\ cl'.server = u
        /\ cl'.tab = tab /\ cl'.start = 0 /\ cl'.next = 0 /\ cl'.raw = <<>> /\ cl'.games = <<>>
        /\ cl'.shown = Cl!NoList /\ cl'.cache = cl.cache
    BY <1>1, <1>5 DEF Cl!Asked, ClFields
  <2>2. ShownOK(Cl!NoList)
    BY DEF Cl!NoList, ShownOK, RowsOK
  <2>3. CASE tab = "ps5"
    <3>1. u \in Seq(Entries) /\ <<>> \in Seq(Entries) /\ Len(u) \in Nat
      BY <1>5, <2>3, ServerOK
    <3>2. Cl!ToSet(<<>>) = Taken(u, 0)
      BY DEF Cl!ToSet, Taken
    <3>3. Ps5Loading(cl')
      BY <2>1, <2>3, <3>1, <3>2, EmptyLists DEF Ps5Loading
    <3> QED
      BY <1>0, <2>1, <2>2, <2>3, <3>3 DEF LibraryInv, ClInv, Ps5Places, PsnowPlaces
  <2>4. CASE tab # "ps5"
    <3>1. u \in Seq(Seq(Nat)) /\ <<>> \in Seq(Nat)
      BY <1>5, <2>4, ServerOK
    <3>2. PsnowLoading(cl')
      BY <2>1, <2>4, <3>1, EmptyLists DEF PsnowLoading
    <3> QED
      BY <1>0, <2>1, <2>2, <2>4, <3>2 DEF LibraryInv, ClInv, Ps5Places, PsnowPlaces
  <2> QED
    BY <2>3, <2>4
<1> QED
  BY <1>2, <1>3, <1>4, <1>5

LEMMA LibraryIdle ==
  ASSUME LibraryInv, (\E a \in 0 .. 2 : Cl!SetAccount(a)) \/ Cl!DayPasses
  PROVE  LibraryInv'
<1>0. DOMAIN cl = ClFields /\ CacheOK(cl.cache) /\ ShownOK(cl.shown)
  BY DEF LibraryInv, ClInv
<1>1. ASSUME NEW a \in 0 .. 2, Cl!SetAccount(a) PROVE LibraryInv'
  <2>1. cl' = [cl EXCEPT !.at = "idle", !.account = a] /\ NotLoading(cl)
    BY <1>1 DEF Cl!SetAccount, LibraryInv, ClInv
  <2>2. /\ DOMAIN cl' = ClFields /\ cl'.at = "idle" /\ cl'.cache = cl.cache /\ cl'.shown = cl.shown
        /\ cl'.server = <<>> /\ cl'.start = 0 /\ cl'.next = 0 /\ cl'.raw = <<>> /\ cl'.games = <<>>
    BY <1>0, <2>1 DEF ClFields, NotLoading
  <2> QED
    BY <1>0, <2>2 DEF LibraryInv, ClInv, NotLoading, Ps5Places, PsnowPlaces
<1>2. CASE Cl!DayPasses
  <2> DEFINE old == [Cl!Missing EXCEPT !.is = "old"]
             c == [f \in Cl!Files |-> IF cl.cache[f].is = "good" THEN old ELSE cl.cache[f]]
  <2>0. DOMAIN cl.cache = Cl!Files /\ old.games = <<>> /\ "ps5owned" \in Cl!Files /\ "psnow" \in Cl!Files
    BY <1>0 DEF CacheOK, Cl!Missing, Cl!Files
  <2>1. cl' = [cl EXCEPT !.cache = c] /\ NotLoading(cl) /\ cl.at = "idle"
    BY <1>2 DEF Cl!DayPasses, LibraryInv, ClInv
  <2> HIDE DEF old
  <2>2. CacheOK(c)
    BY <1>0, <2>0, EmptyLists DEF CacheOK
  <2> HIDE DEF c
  <2>3. /\ DOMAIN cl' = ClFields /\ cl'.at = "idle" /\ cl'.cache = c /\ cl'.shown = cl.shown
        /\ cl'.server = <<>> /\ cl'.start = 0 /\ cl'.next = 0 /\ cl'.raw = <<>> /\ cl'.games = <<>>
    BY <1>0, <2>1 DEF ClFields, NotLoading
  <2> QED
    BY <1>0, <2>2, <2>3 DEF LibraryInv, ClInv, NotLoading, Ps5Places, PsnowPlaces
<1> QED
  BY <1>1, <1>2
\* The PS5 list is loaded.
LEMMA LibraryPs5 ==
  ASSUME LibraryInv, \/ Cl!FetchOwnedPs5EntitlementToken \/ Cl!FetchPs5EntitlementsPage \/ Cl!TakeEntries
                     \/ Cl!BuildOwnedPs5GamesFromEntitlements \/ Cl!FetchPs5CloudCatalog \/ Cl!FetchOwnedPs5CloudGames
  PROVE  LibraryInv'
<1>0. DOMAIN cl = ClFields /\ CacheOK(cl.cache) /\ ShownOK(cl.shown)
  BY DEF LibraryInv, ClInv
<1>1. cl.at \in Ps5Places
  <2>1. /\ Cl!FetchOwnedPs5EntitlementToken => cl.at = "token"
        /\ Cl!FetchPs5EntitlementsPage => cl.at = "page"
        /\ Cl!TakeEntries => cl.at = "entries"
    BY DEF Cl!FetchOwnedPs5EntitlementToken, Cl!FetchPs5EntitlementsPage, Cl!TakeEntries
  <2>2. /\ Cl!BuildOwnedPs5GamesFromEntitlements => cl.at = "games"
        /\ Cl!FetchPs5CloudCatalog => cl.at = "catalog"
        /\ Cl!FetchOwnedPs5CloudGames => cl.at = "store"
    BY DEF Cl!BuildOwnedPs5GamesFromEntitlements, Cl!FetchPs5CloudCatalog, Cl!FetchOwnedPs5CloudGames
  <2> QED
    BY <2>1, <2>2 DEF Ps5Places
<1>2. Ps5Loading(cl)
  BY <1>1 DEF LibraryInv, ClInv
<1>3. /\ cl.tab = "ps5" /\ cl.server \in Seq(Entries) /\ cl.raw \in Seq(Entries) /\ OwnedList(cl.games)
      /\ cl.start \in Nat /\ cl.next \in Nat
      /\ Len(cl.server) \in Nat /\ DOMAIN cl.server = 1 .. Len(cl.server) /\ Len(cl.raw) \in Nat /\ DOMAIN cl.raw = 1 .. Len(cl.raw)
  BY <1>2 DEF Ps5Loading
<1>4. ASSUME DOMAIN cl' = ClFields, cl'.at \in Ps5Places, CacheOK(cl'.cache), cl'.shown = cl.shown, Ps5Loading(cl')
      PROVE  LibraryInv'
  BY <1>0, <1>4 DEF LibraryInv, ClInv, Ps5Places, PsnowPlaces
<1>5. CASE cl' = Cl!Failed(cl)
  BY <1>0, <1>5, FailedKeeps DEF LibraryInv
<1>6. CASE Cl!FetchOwnedPs5EntitlementToken /\ cl' # Cl!Failed(cl)
  <2>1. cl.at = "token" /\ cl' = [cl EXCEPT !.at = "page"]
    BY <1>6 DEF Cl!FetchOwnedPs5EntitlementToken
  <2>2. /\ DOMAIN cl' = ClFields /\ cl'.at = "page" /\ \A x \in ClFields \ {"at"} : cl'[x] = cl[x]
    BY <1>0, <2>1 DEF ClFields
  <2>3. /\ cl'.tab = cl.tab /\ cl'.server = cl.server /\ cl'.raw = cl.raw /\ cl'.games = cl.games /\ cl'.cache = cl.cache
        /\ cl'.start = cl.start /\ cl'.next = cl.next /\ cl'.shown = cl.shown
    BY <2>2 DEF ClFields
  <2>4. Ps5Loading(cl')
    BY <1>2, <2>1, <2>2, <2>3 DEF Ps5Loading
  <2> QED
    BY <1>0, <1>4, <2>2, <2>3, <2>4 DEF Ps5Places
<1>7. CASE Cl!FetchPs5EntitlementsPage /\ cl' # Cl!Failed(cl)
  <2>1. cl.at = "page" /\ cl' = [cl EXCEPT !.at = "entries", !.next = cl.start]
    BY <1>7 DEF Cl!FetchPs5EntitlementsPage
  <2>2. /\ DOMAIN cl' = ClFields /\ cl'.at = "entries" /\ cl'.next = cl.start
        /\ cl'.tab = cl.tab /\ cl'.server = cl.server /\ cl'.raw = cl.raw /\ cl'.games = cl.games /\ cl'.cache = cl.cache
        /\ cl'.start = cl.start /\ cl'.shown = cl.shown
    BY <1>0, <2>1 DEF ClFields
  <2>3. cl.start <= Len(cl.server) /\ Cl!ToSet(cl.raw) = Taken(cl.server, cl.start) /\ cl.games = <<>>
    BY <1>2, <2>1 DEF Ps5Loading
  <2>4. cl.start <= End(cl')
    BY <1>3, <2>2, <2>3, LibraryAssumption DEF End
  <2>5. Ps5Loading(cl')
    BY <1>3, <2>2, <2>3, <2>4 DEF Ps5Loading
  <2> QED
    BY <1>0, <1>4, <2>2, <2>5 DEF Ps5Places
<1>8. CASE Cl!TakeEntries
  <2>0. Cl!PageEnd = End(cl) /\ End(cl) \in Nat /\ End(cl) <= Len(cl.server)
    BY <1>3, LibraryAssumption DEF Cl!PageEnd, End
  <2>1. /\ cl.at = "entries" /\ cl.games = <<>> /\ cl.start <= Len(cl.server) /\ cl.next <= End(cl)
        /\ Cl!ToSet(cl.raw) = Taken(cl.server, cl.next)
    BY <1>2, <1>8 DEF Cl!TakeEntries, Ps5Loading
  <2>2. CASE cl.next < End(cl)
    <3> DEFINE e == cl.server[cl.next + 1]
               w == IF Cl!ParsePs5Entitlement(e) THEN Append(cl.raw, e) ELSE cl.raw
    <3>1. cl' = [cl EXCEPT !.next = @ + 1, !.raw = w]
      BY <1>8, <2>0, <2>2 DEF Cl!TakeEntries
    <3>2. e \in Entries
      BY <1>3, <2>0, <2>2
    <3>3. w \in Seq(Entries) /\ Cl!ToSet(w) = Taken(cl.server, cl.next + 1)
      BY <1>3, <2>1, <3>2, TakenMore
    <3> HIDE DEF w
    <3>4. /\ DOMAIN cl' = ClFields /\ cl'.at = "entries" /\ cl'.next = cl.next + 1 /\ cl'.raw = w
          /\ cl'.tab = cl.tab /\ cl'.server = cl.server /\ cl'.games = cl.games /\ cl'.cache = cl.cache
          /\ cl'.start = cl.start /\ cl'.shown = cl.shown
      BY <1>0, <2>1, <3>1 DEF ClFields
    <3>5. cl.next + 1 <= End(cl') /\ cl.next + 1 \in Nat
      BY <1>3, <2>0, <2>2, <3>4 DEF End
    <3>6. Ps5Loading(cl')
      BY <1>3, <2>1, <3>3, <3>4, <3>5 DEF Ps5Loading
    <3> QED
      BY <1>0, <1>4, <3>4, <3>6 DEF Ps5Places
  <2>3. CASE ~(cl.next < End(cl)) /\ Cl!PageCount < PageSize
    <3>1. cl' = [cl EXCEPT !.at = "games", !.next = 0]
      BY <1>8, <2>0, <2>3 DEF Cl!TakeEntries
    <3>2. cl.next = Len(cl.server)
      BY <1>3, <2>0, <2>1, <2>3, LibraryAssumption DEF Cl!PageCount, End
    <3>3. /\ DOMAIN cl' = ClFields /\ cl'.at = "games" /\ cl'.next = 0 /\ cl'.raw = cl.raw
          /\ cl'.tab = cl.tab /\ cl'.server = cl.server /\ cl'.games = cl.games /\ cl'.cache = cl.cache
          /\ cl'.start = cl.start /\ cl'.shown = cl.shown
      BY <1>0, <2>1, <3>1 DEF ClFields
    <3>4. {cl'.raw[q] : q \in 1 .. cl'.next} = {}
      BY <3>3
    <3>40. MadeOf(<<>>, {})
      BY DEF MadeOf, Kept
    <3>5. MadeOf(cl'.games, {cl'.raw[q] : q \in 1 .. cl'.next})
      BY <2>1, <3>3, <3>4, <3>40
    <3>6. Ps5Loading(cl')
      BY <1>3, <2>1, <3>2, <3>3, <3>5 DEF Ps5Loading
    <3> QED
      BY <1>0, <1>4, <3>3, <3>6 DEF Ps5Places
  <2>4. CASE ~(cl.next < End(cl)) /\ ~(Cl!PageCount < PageSize)
    <3>1. cl' = [cl EXCEPT !.at = "page", !.start = @ + Cl!PageCount]
      BY <1>8, <2>0, <2>4 DEF Cl!TakeEntries
    <3>2. cl.start + Cl!PageCount = End(cl) /\ cl.next = End(cl)
      BY <1>3, <2>0, <2>1, <2>4 DEF Cl!PageCount
    <3>3. /\ DOMAIN cl' = ClFields /\ cl'.at = "page" /\ cl'.next = cl.next /\ cl'.raw = cl.raw
          /\ cl'.tab = cl.tab /\ cl'.server = cl.server /\ cl'.games = cl.games /\ cl'.cache = cl.cache
          /\ cl'.start = End(cl) /\ cl'.shown = cl.shown
      BY <1>0, <2>1, <3>1, <3>2 DEF ClFields
    <3>4. Ps5Loading(cl')
      BY <1>3, <2>0, <2>1, <3>2, <3>3 DEF Ps5Loading
    <3> QED
      BY <1>0, <1>4, <3>3, <3>4 DEF Ps5Places
  <2> QED
    BY <2>2, <2>3, <2>4
<1>9. CASE Cl!BuildOwnedPs5GamesFromEntitlements
  <2>1. /\ cl.at = "games" /\ cl.next <= Len(cl.raw) /\ MadeOf(cl.games, {cl.raw[q] : q \in 1 .. cl.next})
        /\ Cl!ToSet(cl.raw) = Taken(cl.server, Len(cl.server))
    BY <1>2, <1>9 DEF Cl!BuildOwnedPs5GamesFromEntitlements, Ps5Loading
  <2>2. CASE cl.next < Len(cl.raw)
    <3> DEFINE e == cl.raw[cl.next + 1]
               w == IF Cl!KeepPs5Entitlement(e) /\ Cl!Resolved(e) THEN Cl!Listed(cl.games, e) ELSE cl.games
               es == {cl.raw[q] : q \in 1 .. cl.next}
               more == {cl.raw[q] : q \in 1 .. cl.next + 1}
    <3>1. cl' = [cl EXCEPT !.next = @ + 1, !.games = w]
      BY <1>9, <2>2 DEF Cl!BuildOwnedPs5GamesFromEntitlements
    <3>2. e.id \in Nat
      BY <1>3, <2>2, ServerOK
    <3>3. more = es \cup {e}
      <4>1. \A q : q \in 1 .. cl.next + 1 <=> q \in 1 .. cl.next \/ q = cl.next + 1
        BY <1>3
      <4> QED
        BY <4>1
    <3>30. MadeOf(cl.games, es)
      BY <2>1
    <3> HIDE DEF e, es, more
    <3>4. OwnedList(w) /\ MadeOf(w, es \cup {e})
      <4>1. CASE Cl!KeepPs5Entitlement(e) /\ Cl!Resolved(e)
        BY <1>3, <3>2, <3>30, <4>1, ListedOK
      <4>2. CASE ~(Cl!KeepPs5Entitlement(e) /\ Cl!Resolved(e))
        <5>1. Kept(es \cup {e}) = Kept(es)
          BY <4>2 DEF Kept
        <5> QED
          BY <1>3, <3>30, <4>2, <5>1 DEF MadeOf
      <4> QED
        BY <4>1, <4>2
    <3> HIDE DEF w
    <3>5. /\ DOMAIN cl' = ClFields /\ cl'.at = "games" /\ cl'.next = cl.next + 1 /\ cl'.raw = cl.raw
          /\ cl'.tab = cl.tab /\ cl'.server = cl.server /\ cl'.games = w /\ cl'.cache = cl.cache
          /\ cl'.start = cl.start /\ cl'.shown = cl.shown
      BY <1>0, <2>1, <3>1 DEF ClFields
    <3>6. {cl'.raw[q] : q \in 1 .. cl'.next} = more
      BY <3>5 DEF more
    <3>7. MadeOf(cl'.games, {cl'.raw[q] : q \in 1 .. cl'.next})
      BY <3>3, <3>4, <3>5, <3>6
    <3>8. cl'.next \in Nat /\ cl'.next <= Len(cl'.raw)
      BY <1>3, <2>2, <3>5
    <3>9. Ps5Loading(cl')
      BY <1>3, <2>1, <3>4, <3>5, <3>7, <3>8 DEF Ps5Loading
    <3> QED
      BY <1>0, <1>4, <3>5, <3>9 DEF Ps5Places
  <2>3. CASE ~(cl.next < Len(cl.raw))
    <3>1. cl' = [cl EXCEPT !.at = "catalog"]
      BY <1>9, <2>3 DEF Cl!BuildOwnedPs5GamesFromEntitlements
    <3>2. /\ DOMAIN cl' = ClFields /\ cl'.at = "catalog" /\ cl'.next = cl.next /\ cl'.raw = cl.raw
          /\ cl'.tab = cl.tab /\ cl'.server = cl.server /\ cl'.games = cl.games /\ cl'.cache = cl.cache
          /\ cl'.start = cl.start /\ cl'.shown = cl.shown
      BY <1>0, <3>1 DEF ClFields
    <3>3. {cl.raw[q] : q \in 1 .. cl.next} = Cl!ToSet(cl.raw)
      BY <1>3, <2>1, <2>3 DEF Cl!ToSet
    <3>4. MadeOf(cl.games, Cl!ToSet(cl.raw))
      BY <2>1, <3>3
    <3>5. Ps5Loading(cl')
      BY <1>3, <2>1, <3>2, <3>4 DEF Ps5Loading
    <3> QED
      BY <1>0, <1>4, <3>2, <3>5 DEF Ps5Places
  <2> QED
    BY <2>2, <2>3
<1>10. ASSUME cl.at = "catalog", NEW r, DOMAIN r = ClFields, CacheOK(r.cache), \A x \in ClFields \ {"cache"} : r[x] = cl[x],
              NEW c, cl' = Cl!WithHints(r, c) \/ cl' = [r EXCEPT !.at = "store"]
       PROVE  LibraryInv'
  <2>1. MadeOf(cl.games, Cl!ToSet(cl.raw)) /\ Cl!ToSet(cl.raw) = Taken(cl.server, Len(cl.server))
    BY <1>2, <1>10 DEF Ps5Loading
  <2>2. /\ r.next = cl.next /\ r.raw = cl.raw /\ r.tab = cl.tab /\ r.server = cl.server /\ r.games = cl.games
        /\ r.start = cl.start /\ r.shown = cl.shown
    BY <1>10 DEF ClFields
  <2>20. PICK w : cl' = [r EXCEPT !.at = "store", !.games = w] /\ w \in {cl.games, Cl!Hinted(cl.games, c)}
    <3>1. CASE cl' = Cl!WithHints(r, c)
      <4>1. cl' = [r EXCEPT !.at = "store", !.games = Cl!Hinted(r.games, c)]
        BY <3>1 DEF Cl!WithHints
      <4>2. cl' = [r EXCEPT !.at = "store", !.games = Cl!Hinted(cl.games, c)]
        BY <2>2, <4>1, Zenon
      <4> QED
        BY <4>2, Zenon
    <3>2. CASE cl' = [r EXCEPT !.at = "store"]
      <4>1. [r EXCEPT !.at = "store"] = [r EXCEPT !.at = "store", !.games = cl.games]
        BY <1>10, <2>2 DEF ClFields
      <4> QED
        BY <3>2, <4>1, Zenon
    <3> QED
      BY <1>10, <3>1, <3>2
  <2>3. /\ DOMAIN cl' = ClFields /\ cl'.at = "store" /\ cl'.next = cl.next /\ cl'.raw = cl.raw
        /\ cl'.tab = cl.tab /\ cl'.server = cl.server /\ cl'.cache = r.cache
        /\ cl'.start = cl.start /\ cl'.shown = cl.shown /\ cl'.games \in {cl.games, Cl!Hinted(cl.games, c)}
    <3>1. cl' = [r EXCEPT !.at = "store", !.games = w] /\ DOMAIN r = ClFields
      BY <1>10, <2>20
    <3>2. /\ DOMAIN cl' = ClFields /\ cl'.at = "store" /\ cl'.next = r.next /\ cl'.raw = r.raw
          /\ cl'.tab = r.tab /\ cl'.server = r.server /\ cl'.cache = r.cache
          /\ cl'.start = r.start /\ cl'.shown = r.shown /\ cl'.games = w
      BY <3>1 DEF ClFields
    <3> QED
      BY <2>2, <2>20, <3>2
  <2>4. OwnedList(cl'.games) /\ MadeOf(cl'.games, Cl!ToSet(cl.raw))
    BY <1>3, <2>1, <2>3, HintedOK
  <2>5. Ps5Loading(cl')
    BY <1>3, <2>1, <2>3, <2>4 DEF Ps5Loading
  <2> QED
    BY <1>4, <1>10, <2>3, <2>5 DEF Ps5Places
<1>11. CASE Cl!FetchPs5CloudCatalog
  <2>1. cl.at = "catalog" /\ "ps5cloud" \in Cl!Files
    BY <1>11 DEF Cl!FetchPs5CloudCatalog, Cl!Files
  <2>2. \/ cl' = Cl!WithHints(cl, cl.cache["ps5cloud"].games)
        \/ cl' = [cl EXCEPT !.at = "store"]
        \/ cl' = Cl!Restarted(Cl!Torn(cl, "ps5cloud"))
        \/ \E r \in Cl!Stored(cl, "ps5cloud", Cl!PublicCatalog) : cl' = Cl!WithHints(r, Cl!PublicCatalog)
    BY <1>11 DEF Cl!FetchPs5CloudCatalog
  <2>3. CASE cl' = Cl!WithHints(cl, cl.cache["ps5cloud"].games)
    BY <1>0, <1>10, <2>1, <2>3
  <2>4. CASE cl' = [cl EXCEPT !.at = "store"]
    BY <1>0, <1>10, <2>1, <2>4
  <2>5. CASE cl' = Cl!Restarted(Cl!Torn(cl, "ps5cloud"))
    <3>1. DOMAIN Cl!Torn(cl, "ps5cloud") = ClFields /\ CacheOK(Cl!Torn(cl, "ps5cloud").cache)
      BY <1>0, <2>1, FilesKeep
    <3> QED
      BY <2>5, <3>1, RestartedKeeps DEF LibraryInv
  <2>6. ASSUME NEW r \in Cl!Stored(cl, "ps5cloud", Cl!PublicCatalog), cl' = Cl!WithHints(r, Cl!PublicCatalog) PROVE LibraryInv'
    <3>1. DOMAIN r = ClFields /\ CacheOK(r.cache) /\ \A x \in ClFields \ {"cache"} : r[x] = cl[x]
      BY <1>0, <2>1, FilesKeep DEF Refiled
    <3> QED
      BY <1>10, <2>1, <2>6, <3>1
  <2> QED
    BY <2>2, <2>3, <2>4, <2>5, <2>6
<1>12. CASE Cl!FetchOwnedPs5CloudGames /\ cl' # Cl!Failed(cl)
  <2>1. /\ "ps5owned" \in Cl!Files
        /\ \/ cl' = Cl!Restarted(Cl!Torn(cl, "ps5owned"))
           \/ \E r \in Cl!Stored(cl, "ps5owned", cl.games), rows \in Cl!TabRows("ps5", cl.games) :
                cl' = Cl!Shown(r, TRUE, r.account, rows)
    BY <1>12 DEF Cl!FetchOwnedPs5CloudGames, Cl!Files
  <2>2. CASE cl' = Cl!Restarted(Cl!Torn(cl, "ps5owned"))
    <3>1. DOMAIN Cl!Torn(cl, "ps5owned") = ClFields /\ CacheOK(Cl!Torn(cl, "ps5owned").cache)
      BY <1>0, <1>3, <2>1, FilesKeep
    <3> QED
      BY <2>2, <3>1, RestartedKeeps DEF LibraryInv
  <2>3. ASSUME NEW r \in Cl!Stored(cl, "ps5owned", cl.games), NEW rows \in Cl!TabRows("ps5", cl.games),
               cl' = Cl!Shown(r, TRUE, r.account, rows)
        PROVE  LibraryInv'
    <3>1. DOMAIN r = ClFields /\ CacheOK(r.cache) /\ \A x \in ClFields \ {"cache"} : r[x] = cl[x]
      BY <1>0, <1>3, <2>1, FilesKeep DEF Refiled
    <3>2. r.tab = "ps5"
      BY <1>3, <3>1 DEF ClFields
    <3>3. RowsOK("ps5", rows)
      BY <1>3, RowsAreOnce
    <3>4. ClInv(Cl!Shown(r, TRUE, r.account, rows))
      BY <3>1, <3>2, <3>3, ShownKeeps
    <3> QED
      BY <2>3, <3>4 DEF LibraryInv
  <2> QED
    BY <2>1, <2>2, <2>3
<1> QED
  BY <1>5, <1>6, <1>7, <1>8, <1>9, <1>11, <1>12

\* The PSNOW catalogue is loaded.
LEMMA LibraryPsnow ==
  ASSUME LibraryInv, \/ Cl!FetchPsnowOAuthCode \/ Cl!FetchPsnowSession \/ Cl!FetchPsnowBaseUrl
                     \/ Cl!FetchPsnowCategoryUrls \/ Cl!FetchPsnowCategoryGames \/ Cl!FetchPsnowCatalog
  PROVE  LibraryInv'
<1>0. DOMAIN cl = ClFields /\ CacheOK(cl.cache) /\ ShownOK(cl.shown)
  BY DEF LibraryInv, ClInv
<1>1. cl.at \in PsnowPlaces
  <2>1. /\ Cl!FetchPsnowOAuthCode => cl.at = "code"
        /\ Cl!FetchPsnowSession => cl.at = "session"
        /\ Cl!FetchPsnowBaseUrl => cl.at = "base_url"
        /\ Cl!FetchPsnowCategoryUrls => cl.at = "urls"
    BY DEF Cl!FetchPsnowOAuthCode, Cl!FetchPsnowSession, Cl!FetchPsnowBaseUrl, Cl!FetchPsnowCategoryUrls
  <2>2. Cl!FetchPsnowCategoryGames \/ Cl!FetchPsnowCatalog => cl.at = "category"
    BY DEF Cl!FetchPsnowCategoryGames, Cl!FetchPsnowCatalog
  <2> QED
    BY <2>1, <2>2 DEF PsnowPlaces
<1>2. /\ cl.tab \in {"ps4", "ps3"} /\ cl.server \in Seq(Seq(Nat)) /\ cl.raw \in Seq(Nat) /\ IdList(cl.games)
      /\ cl.start \in Nat /\ cl.next \in Nat
  BY <1>1 DEF LibraryInv, ClInv, PsnowLoading
<1>3. CASE cl' = Cl!Failed(cl)
  BY <1>0, <1>3, FailedKeeps DEF LibraryInv
<1>4. ASSUME DOMAIN cl' = ClFields, cl'.at \in PsnowPlaces, cl'.cache = cl.cache, cl'.shown = cl.shown, PsnowLoading(cl')
      PROVE  LibraryInv'
  BY <1>0, <1>4 DEF LibraryInv, ClInv, Ps5Places, PsnowPlaces
<1>5. ASSUME NEW at \in PsnowPlaces, cl' = [cl EXCEPT !.at = at] PROVE LibraryInv'
  <2>1. /\ DOMAIN cl' = ClFields /\ cl'.at = at /\ cl'.next = cl.next /\ cl'.raw = cl.raw
        /\ cl'.tab = cl.tab /\ cl'.server = cl.server /\ cl'.games = cl.games /\ cl'.cache = cl.cache
        /\ cl'.start = cl.start /\ cl'.shown = cl.shown
    BY <1>0, <1>5 DEF ClFields
  <2> QED
    BY <1>2, <1>4, <1>5, <2>1 DEF PsnowLoading
<1>6. CASE cl' # Cl!Failed(cl) /\ (Cl!FetchPsnowOAuthCode \/ Cl!FetchPsnowSession \/ Cl!FetchPsnowBaseUrl \/ Cl!FetchPsnowCategoryUrls)
  <2>1. \E at \in PsnowPlaces : cl' = [cl EXCEPT !.at = at]
    <3>1. cl' \in {[cl EXCEPT !.at = "session"], [cl EXCEPT !.at = "base_url"], [cl EXCEPT !.at = "urls"], [cl EXCEPT !.at = "category"]}
      BY <1>6 DEF Cl!FetchPsnowOAuthCode, Cl!FetchPsnowSession, Cl!FetchPsnowBaseUrl, Cl!FetchPsnowCategoryUrls
    <3> QED
      BY <3>1 DEF PsnowPlaces
  <2> QED
    BY <1>5, <2>1
<1>7. CASE Cl!FetchPsnowCategoryGames
  <2> DEFINE got == cl.server[cl.start + 1]
  <2>1. /\ cl.at = "category" /\ cl.start < Len(cl.server)
        /\ cl' = [cl EXCEPT !.start = @ + 1] \/ cl' = [cl EXCEPT !.start = @ + 1, !.raw = @ \o got]
    BY <1>7 DEF Cl!FetchPsnowCategoryGames
  <2>2. got \in Seq(Nat) /\ cl.raw \o got \in Seq(Nat) /\ cl.start + 1 \in Nat
    BY <1>2, <2>1
  <2> HIDE DEF got
  <2>3. /\ DOMAIN cl' = ClFields /\ cl'.at = "category" /\ cl'.next = cl.next /\ cl'.raw \in {cl.raw, cl.raw \o got}
        /\ cl'.tab = cl.tab /\ cl'.server = cl.server /\ cl'.games = cl.games /\ cl'.cache = cl.cache
        /\ cl'.start = cl.start + 1 /\ cl'.shown = cl.shown
    BY <1>0, <2>1 DEF ClFields
  <2>4. PsnowLoading(cl')
    BY <1>2, <2>2, <2>3 DEF PsnowLoading
  <2> QED
    BY <1>4, <2>3, <2>4 DEF PsnowPlaces
<1>8. CASE Cl!FetchPsnowCatalog /\ cl.next < Len(cl.raw)
  <2> DEFINE id == cl.raw[cl.next + 1]
             w == Cl!AddUnique(cl.games, id)
  <2>1. cl.at = "category" /\ cl' = [cl EXCEPT !.next = @ + 1, !.games = w]
    BY <1>8 DEF Cl!FetchPsnowCatalog
  <2>2. id \in Nat
    <3>1. DOMAIN cl.raw = 1 .. Len(cl.raw) /\ Len(cl.raw) \in Nat
      BY <1>2
    <3>2. cl.next + 1 \in DOMAIN cl.raw
      BY <1>2, <1>8, <3>1
    <3>3. \A q \in DOMAIN cl.raw : cl.raw[q] \in Nat
      BY <1>2
    <3> QED
      BY <3>2, <3>3
  <2> HIDE DEF id
  <2>3. IdList(w)
    <3>1. cl.games \in Seq(Nat) /\ Cl!IsInjective(cl.games) /\ DOMAIN cl.games = 1 .. Len(cl.games) /\ Len(cl.games) \in Nat
      BY <1>2 DEF IdList
    <3>2. CASE \E i \in 1 .. Len(cl.games) : cl.games[i] = id
      BY <1>2, <3>2 DEF Cl!AddUnique, Cl!Contains
    <3>3. CASE ~\E i \in 1 .. Len(cl.games) : cl.games[i] = id
      <4>1. w = Append(cl.games, id)
        BY <3>3 DEF Cl!AddUnique, Cl!Contains
      <4> HIDE DEF w
      <4>2. w \in Seq(Nat) /\ DOMAIN w = 1 .. Len(cl.games) + 1 /\ w[Len(cl.games) + 1] = id
            /\ \A q \in 1 .. Len(cl.games) : w[q] = cl.games[q]
        BY <2>2, <3>1, <4>1
      <4>3. \A q \in DOMAIN w : q \in 1 .. Len(cl.games) \/ q = Len(cl.games) + 1
        BY <3>1, <4>2
      <4>4. Cl!IsInjective(w)
        BY <3>1, <3>3, <4>2, <4>3 DEF Cl!IsInjective
      <4> QED
        BY <4>2, <4>4 DEF IdList
    <3> QED
      BY <3>2, <3>3
  <2> HIDE DEF w
  <2>4. /\ DOMAIN cl' = ClFields /\ cl'.at = "category" /\ cl'.next = cl.next + 1 /\ cl'.raw = cl.raw
        /\ cl'.tab = cl.tab /\ cl'.server = cl.server /\ cl'.games = w /\ cl'.cache = cl.cache
        /\ cl'.start = cl.start /\ cl'.shown = cl.shown
    BY <1>0, <2>1 DEF ClFields
  <2>5. PsnowLoading(cl')
    BY <1>2, <2>3, <2>4 DEF PsnowLoading
  <2> QED
    BY <1>4, <2>4, <2>5 DEF PsnowPlaces
<1>9. CASE Cl!FetchPsnowCatalog /\ ~(cl.next < Len(cl.raw)) /\ cl' # Cl!Failed(cl)
  <2>1. /\ "psnow" \in Cl!Files
        /\ \/ cl' = Cl!Restarted(Cl!Torn(cl, "psnow"))
           \/ \E r \in Cl!Stored(cl, "psnow", cl.games), rows \in Cl!TabRows(cl.tab, cl.games) :
                cl' = Cl!Shown(r, TRUE, r.account, rows)
    BY <1>9 DEF Cl!FetchPsnowCatalog, Cl!Files
  <2>2. CASE cl' = Cl!Restarted(Cl!Torn(cl, "psnow"))
    <3>1. DOMAIN Cl!Torn(cl, "psnow") = ClFields /\ CacheOK(Cl!Torn(cl, "psnow").cache)
      BY <1>0, <1>2, <2>1, FilesKeep
    <3> QED
      BY <2>2, <3>1, RestartedKeeps DEF LibraryInv
  <2>4. \A w \in Cl!Stored(cl, "psnow", cl.games) : Refiled(w, cl)
    BY <1>0, <1>2, <2>1, FilesKeep
  <2>3. ASSUME NEW r \in Cl!Stored(cl, "psnow", cl.games), NEW rows \in Cl!TabRows(cl.tab, cl.games),
               cl' = Cl!Shown(r, TRUE, r.account, rows)
        PROVE  LibraryInv'
    <3>1. DOMAIN r = ClFields /\ CacheOK(r.cache) /\ \A x \in ClFields \ {"cache"} : r[x] = cl[x]
      BY <2>4 DEF Refiled
    <3>2. r.tab = cl.tab
      BY <3>1 DEF ClFields
    <3>3. RowsOK(cl.tab, rows)
      BY <1>2, RowsAreOnce
    <3>4. ClInv(Cl!Shown(r, TRUE, r.account, rows))
      BY <3>1, <3>2, <3>3, ShownKeeps
    <3> QED
      BY <2>3, <3>4 DEF LibraryInv
  <2> QED
    BY <2>1, <2>2, <2>3
<1> QED
  BY <1>3, <1>6, <1>7, <1>8, <1>9

LEMMA LibraryStep == LibraryInv /\ [Cl!NextLibrary]_cl => LibraryInv'
  BY LibraryOpen, LibraryIdle, LibraryPs5, LibraryPsnow DEF Cl!NextLibrary, LibraryInv

LEMMA LibraryFollows == LibraryInv => Cl!LibraryIsRight
<1> SUFFICES ASSUME LibraryInv PROVE Cl!LibraryIsRight
  OBVIOUS
<1>1. ASSUME cl.at \in {"catalog", "store"}
      PROVE  /\ {cl.games[q].id : q \in DOMAIN cl.games} = {e.id : e \in Cl!Streamable}
             /\ \A q \in DOMAIN cl.games : \A e \in Cl!Streamable :
                  e.id = cl.games[q].id => Cl!OwnedPs5StreamRank(e) <= cl.games[q].rank
  <2>1. /\ cl.server \in Seq(Entries) /\ Cl!ToSet(cl.raw) = Taken(cl.server, Len(cl.server))
        /\ MadeOf(cl.games, Cl!ToSet(cl.raw))
    BY <1>1 DEF LibraryInv, ClInv, Ps5Places, Ps5Loading
  <2>2. Kept(Cl!ToSet(cl.raw)) = Cl!Streamable
    <3>1. DOMAIN cl.server = 1 .. Len(cl.server)
      BY <2>1
    <3>2. Taken(cl.server, Len(cl.server)) = {e \in Cl!ToSet(cl.server) : Cl!ParsePs5Entitlement(e)}
      BY <3>1 DEF Taken, Cl!ToSet
    <3> QED
      BY <2>1, <3>2 DEF Kept, Cl!Streamable
  <2> QED
    BY <2>1, <2>2 DEF MadeOf
<1>2. ShownOK(cl.shown)
  BY DEF LibraryInv, ClInv
<1> QED
  BY <1>1, <1>2 DEF ShownOK, RowsOK, OnceEach, Cl!LibraryIsRight, Cl!ToSet

-----------------------------------------------------------------------------
(* The client. *)

\* The invariant of the parts, which share no state.
ClientIInv ==
  StreamInv /\ AllocationInv /\ DiscoveryInv /\ InputInv /\ SoundInv /\ SettingsInv /\ LibraryInv

\* Each part keeps its own.
THEOREM ClientInductive == ClientSpec => []ClientIInv
<1>1. InitClient => ClientIInv
  BY StreamInit, AllocationInit, DiscoveryInit, InputInit, SoundInit, SettingsInit, LibraryInit DEF InitClient, ClientIInv
<1>2. ClientIInv /\ [NextClient]_clientVars => ClientIInv'
  <2> SUFFICES ASSUME ClientIInv, [NextClient]_clientVars PROVE ClientIInv'
    OBVIOUS
  <2>1. /\ [Dv!NextDiscovery]_dv /\ [Ca!NextAllocation]_ca /\ [Sv!NextStream]_<<sw, pic>>
        /\ [Ci!NextInput]_ci /\ [Sr!NextSound]_snd /\ [Cf!NextSettings]_cf /\ [Cl!NextLibrary]_cl
    BY DEF NextClient, clientVars
  <2> QED
    BY <2>1, StreamStep, AllocationStep, DiscoveryStep, InputStep, SoundStep, SettingsStep, LibraryStep DEF ClientIInv
<1> QED
  BY <1>1, <1>2, PTL DEF ClientSpec

\* A request to leave never reaches the next stream, decoder and pictures outlive the threads
\* that use them, and the picture shown is the one the renderer believes (host.cpp, io.cpp).
THEOREM StreamIsSafeHolds == ClientSpec => []StreamIsSafe
<1>1. ClientIInv => StreamIsSafe
  BY StreamFollows DEF ClientIInv
<1> QED
  BY <1>1, ClientInductive, PTL

\* A slot is reported only for a checked title in an authorised and locked session, and every
\* request carries the key of the last answer (cloudkamaji.cpp, cloudgaikai.cpp).
THEOREM AllocationIsSoundHolds == ClientSpec => []AllocationIsSound
<1>1. ClientIInv => AllocationIsSound
  BY AllocationFollows DEF ClientIInv
<1> QED
  BY <1>1, ClientInductive, PTL

\* The callback knows the list of hosts, in which none is twice or outlives its pings, and
\* both threads have ended when it is freed (discoveryservice.c).
THEOREM HostsAreFreshHolds == ClientSpec => []HostsAreFresh
<1>1. ClientIInv => HostsAreFresh
  BY DiscoveryFollows DEF ClientIInv
<1> QED
  BY <1>1, ClientInductive, PTL

\* Until touch ids wrap into one still in use, every touch told to the console is held by one
\* finger or by the modifier, buttons are told only while their keys are down (but L1 after
\* Minus), and motors that haptics drive are switched off by a later audio frame (io.cpp).
THEOREM ControllerIsTrueHolds == ClientSpec => []ControllerIsTrue
<1>1. ClientIInv => ControllerIsTrue
  BY InputFollows DEF ClientIInv
<1> QED
  BY <1>1, ClientInductive, PTL

\* A file written whole is read back whole, no token outlives its npsso and a console's key
\* material is never another's (settings.cpp); the list of an account has each title it may
\* stream once and by its best entry, each tab its own titles, and Refresh shows the
\* account's (cloudcatalog.cpp, cloud_game_list.cpp).
THEOREM AccountIsKeptHolds == ClientSpec => []AccountIsKept
<1>1. ClientIInv => AccountIsKept
  BY SettingsFollows, LibraryFollows DEF ClientIInv, AccountIsKept
<1> QED
  BY <1>1, ClientInductive, PTL
=============================================================================
