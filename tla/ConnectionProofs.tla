-------------------------- MODULE ConnectionProofs --------------------------
(***************************************************************************)
(* The stream connection's stages and life times (StreamConnection), for   *)
(* every set of controller states; and the parts of a connection over the  *)
(* internet (Remote): hole punching, registration and RUDP with its send   *)
(* buffer, for every number of notifications, tries, addresses, threads,   *)
(* packets and resends, and fewer ctrl messages than half the counters;    *)
(* and the ports guessed for the console, for all ports, steps, servers    *)
(* and guesses.  The parts of Remote share no state: their invariant has   *)
(* one conjunct for each, which only the steps of that part can disturb.   *)
(***************************************************************************)
EXTENDS StreamConnection, Remote, TLAPS, FiniteSetTheorems

-----------------------------------------------------------------------------
(* The stream connection. *)

\* run has Takion, from chiaki_takion_connect to the join in chiaki_takion_close.
HasTakion ==
  Waits \cup {"streaminfo_done", "event", "feedback_fini", "disconnect",
              "congestion_stop", "close", "closing", "aborted"}

\* The stages after the one that waits for STREAMINFO.
Streaming == {"event", "idle", "feedback_fini"}

\* Takion's threads live while run has Takion, and the receivers around them;
\* an A/V callback needs a connection; the feedback sender is active only
\* while run streams.
Lives ==
  /\ takion \in {"connecting", "connected", "down"} <=> run \in HasTakion
  /\ run \in HasTakion => receivers
  /\ av => takion = "connected"
  /\ feedback_active => run \in Streaming

\* The state that callbacks see is the one of run's stage.
Stages ==
  /\ run = "begin" => state = "IDLE"
  /\ run = "wait_connect" => state = "TAKION_CONNECT"
  /\ run = "wait_bang" => state = "EXPECT_BANG"
  /\ run \in {"wait_streaminfo", "streaminfo_done"} => state = "EXPECT_STREAMINFO"
  /\ run \in Streaming => state = "IDLE"

\* What was reached stays: the keys from BANG on, a STREAMINFO from streaming on.
Reached ==
  /\ run = "wait_bang" /\ state_finished => crypt
  /\ run \in {"wait_streaminfo", "streaminfo_done"} \cup Streaming => crypt
  /\ run \in Streaming => first_info # "none"
  /\ connected => run \notin {"begin", "wait_connect", "wait_bang", "aborted",
                              "wait_streaminfo", "streaminfo_done", "event"}
  /\ connected => state = "IDLE"
  /\ connected /\ run # "finalized" => crypt /\ first_info # "none"

\* Where the first STREAMINFO is: not come, kept for the next state, or seen
\* by it.
InfoKept ==
  /\ run \in {"begin", "wait_connect"} => first_info = "none" /\ early = "none"
  /\ run = "wait_bang" => early = first_info
  /\ run \in {"wait_streaminfo", "streaminfo_done"} =>
       /\ first_info = "streaminfo" => state_finished
       /\ state_finished => first_info # "none"
  /\ run = "disconnect" /\ state = "EXPECT_STREAMINFO" /\ ~state_finished
       => first_info # "streaminfo"

\* The inductive invariant.
IInv == TypeOK /\ Lives /\ Stages /\ Reached /\ InfoKept /\ FeedbackIsCurrent

-----------------------------------------------------------------------------
\* Every step of run, of Takion's callbacks and of the user keeps the types.
LEMMA TypePreserved ==
  ASSUME TypeOK, [Next]_vars
  PROVE  TypeOK'
<1> USE DEF TypeOK, Waits, stateVars, cryptVars, feedbackVars, takionVars, historyVars
<1>1. ASSUME Sleep
      PROVE  TypeOK'
  BY <1>1 DEF Sleep, Pred
<1>2. ASSUME TimeIsUp
      PROVE  TypeOK'
  BY <1>2 DEF TimeIsUp
<1>3. ASSUME Begin
      PROVE  TypeOK'
  <2>1. /\ state_finished' \in BOOLEAN /\ state_failed' \in BOOLEAN /\ receivers' \in BOOLEAN
        /\ congestion' \in BOOLEAN
    BY <1>3, Zenon DEF Begin, EnterState
  <2> QED
    BY <1>3, <2>1 DEF Begin, EnterState
<1>4. ASSUME TakionConnected
      PROVE  TypeOK'
  <2>1. state_finished' \in BOOLEAN /\ state_failed' \in BOOLEAN
    BY <1>4, Zenon DEF TakionConnected, Passed, WaitError, EnterState
  <2> QED
    BY <1>4, <2>1 DEF TakionConnected, Passed, WaitError, EnterState
<1>5. ASSUME BangReceived
      PROVE  TypeOK'
  BY <1>5 DEF BangReceived, Passed, WaitError, ExpectStreaminfo
<1>6. ASSUME StreaminfoReceived
      PROVE  TypeOK'
  <2>1. state_finished' \in BOOLEAN /\ state_failed' \in BOOLEAN /\ feedback_active' \in BOOLEAN
    BY <1>6, Zenon DEF StreaminfoReceived, Passed, WaitError, EnterState
  <2> QED
    BY <1>6, <2>1 DEF StreaminfoReceived, Passed, WaitError, EnterState
<1>7. ASSUME SendConnected
      PROVE  TypeOK'
  <2>1. connected' \in BOOLEAN
    BY <1>7, Zenon DEF SendConnected
  <2> QED
    BY <1>7, <2>1 DEF SendConnected
<1>8. ASSUME Heartbeat
      PROVE  TypeOK'
  BY <1>8 DEF Heartbeat
<1>9. ASSUME IdleEnds
      PROVE  TypeOK'
  BY <1>9 DEF IdleEnds
<1>10. ASSUME FeedbackFini
      PROVE  TypeOK'
  <2>1. feedback_active' \in BOOLEAN
    BY <1>10, Zenon DEF FeedbackFini
  <2> QED
    BY <1>10, <2>1 DEF FeedbackFini
<1>11. ASSUME Disconnect
      PROVE  TypeOK'
  BY <1>11 DEF Disconnect
<1>12. ASSUME CongestionStop
      PROVE  TypeOK'
  <2>1. congestion' \in BOOLEAN
    BY <1>12, Zenon DEF CongestionStop
  <2> QED
    BY <1>12, <2>1 DEF CongestionStop
<1>13. ASSUME Close
      PROVE  TypeOK'
  BY <1>13 DEF Close
<1>14. ASSUME TakionClosed
      PROVE  TypeOK'
  BY <1>14 DEF TakionClosed
<1>15. ASSUME FreeReceivers
      PROVE  TypeOK'
  <2>1. receivers' \in BOOLEAN
    BY <1>15, Zenon DEF FreeReceivers
  <2> QED
    BY <1>15, <2>1 DEF FreeReceivers
<1>16. ASSUME chiaki_stream_connection_fini
      PROVE  TypeOK'
  <2>1. ecdh_secret' \in BOOLEAN /\ crypt' \in BOOLEAN /\ congestion' \in BOOLEAN
    BY <1>16, Zenon DEF chiaki_stream_connection_fini
  <2> QED
    BY <1>16, <2>1 DEF chiaki_stream_connection_fini
<1>17. ASSUME chiaki_stream_connection_stop
      PROVE  TypeOK'
  <2>1. should_stop' \in BOOLEAN
    BY <1>17, Zenon DEF chiaki_stream_connection_stop, SignalState
  <2> QED
    BY <1>17, <2>1 DEF chiaki_stream_connection_stop, SignalState
<1>18. ASSUME NEW c \in Controllers,
             chiaki_session_set_controller_state(c)
      PROVE  TypeOK'
  BY <1>18 DEF chiaki_session_set_controller_state
<1>19. ASSUME TakionConnects
      PROVE  TypeOK'
  <2>1. state_finished' \in BOOLEAN /\ state_failed' \in BOOLEAN
    BY <1>19, Zenon DEF TakionConnects, TakionEvent, SignalState
  <2> QED
    BY <1>19, <2>1 DEF TakionConnects, TakionEvent, SignalState
<1>20. ASSUME TakionGoesDown
      PROVE  TypeOK'
  <2>1. state_finished' \in BOOLEAN /\ state_failed' \in BOOLEAN
    BY <1>20, Zenon DEF TakionGoesDown, TakionEvent, SignalState
  <2> QED
    BY <1>20, <2>1 DEF TakionGoesDown, TakionEvent, SignalState
<1>21. ASSUME NEW msg \in Messages, TakionData(msg)
      PROVE  TypeOK'
  <2>1. /\ state_finished' \in BOOLEAN /\ state_failed' \in BOOLEAN /\ crypt' \in BOOLEAN
        /\ ecdh_secret' \in BOOLEAN /\ remote_disconnected' \in BOOLEAN
    BY <1>21, Zenon DEF TakionData, ExpectBang, DataExpectStreaminfo, DataIdle,
     HandleDisconnect, SignalState, IsEarly, Bangs, Streaminfos
  <2> QED
    BY <1>21, <2>1 DEF TakionData, ExpectBang, DataExpectStreaminfo, DataIdle,
     HandleDisconnect, SignalState, IsEarly, Bangs, Streaminfos
<1>22. ASSUME AVBegin
      PROVE  TypeOK'
  <2>1. av' \in BOOLEAN
    BY <1>22, Zenon DEF AVBegin
  <2> QED
    BY <1>22, <2>1 DEF AVBegin
<1>23. ASSUME AVEnd
      PROVE  TypeOK'
  <2>1. av' \in BOOLEAN
    BY <1>23, Zenon DEF AVEnd
  <2> QED
    BY <1>23, <2>1 DEF AVEnd
<1>24. CASE UNCHANGED vars
  BY <1>24 DEF vars
<1> QED
  BY <1>1, <1>2, <1>3, <1>4, <1>5, <1>6, <1>7, <1>8, <1>9, <1>10, <1>11, <1>12,
     <1>13, <1>14, <1>15, <1>16, <1>17, <1>18, <1>19, <1>20, <1>21, <1>22,
     <1>23, <1>24 DEF Next, Run
-----------------------------------------------------------------------------
\* chiaki_stream_connection_init establishes the invariant.
LEMMA InitEstablishes == Init => IInv
<1> SUFFICES ASSUME Init PROVE IInv
  OBVIOUS
<1>1. /\ state_finished \in BOOLEAN /\ state_failed \in BOOLEAN
      /\ should_stop \in BOOLEAN /\ remote_disconnected \in BOOLEAN
      /\ ecdh_secret \in BOOLEAN /\ crypt \in BOOLEAN
      /\ receivers \in BOOLEAN /\ congestion \in BOOLEAN
      /\ feedback_active \in BOOLEAN /\ av \in BOOLEAN /\ connected \in BOOLEAN
  BY Zenon DEF Init
<1>2. TypeOK
  BY <1>1 DEF Init, TypeOK
<1> QED
  BY <1>2 DEF Init, IInv, Lives, Stages, Reached, InfoKept, FeedbackIsCurrent,
     HasTakion, Streaming, Waits

\* Every step keeps the invariant.
LEMMA StepPreserves ==
  ASSUME IInv, [Next]_vars
  PROVE  IInv'
<1>0. TypeOK /\ TypeOK'
  BY TypePreserved DEF IInv
<1> USE <1>0 DEF IInv, Lives, Stages, Reached, InfoKept, FeedbackIsCurrent, HasTakion,
     Streaming, Waits, stateVars, cryptVars, feedbackVars, takionVars, historyVars
<1>1. ASSUME Sleep
      PROVE  IInv'
  BY <1>1 DEF Sleep, Pred, TypeOK
<1>2. ASSUME TimeIsUp
      PROVE  IInv'
  BY <1>2 DEF TimeIsUp, TypeOK
<1>3. ASSUME Begin
      PROVE  IInv'
  BY <1>3 DEF Begin, EnterState, TypeOK
<1>4. ASSUME TakionConnected
      PROVE  IInv'
  BY <1>4 DEF TakionConnected, Passed, WaitError, EnterState, TypeOK
<1>5. ASSUME BangReceived
      PROVE  IInv'
  BY <1>5 DEF BangReceived, Passed, WaitError, ExpectStreaminfo, TypeOK
<1>6. ASSUME StreaminfoReceived
      PROVE  IInv'
  BY <1>6 DEF StreaminfoReceived, Passed, WaitError, EnterState, TypeOK
<1>7. ASSUME SendConnected
      PROVE  IInv'
  BY <1>7 DEF SendConnected, TypeOK
<1>8. ASSUME Heartbeat
      PROVE  IInv'
  BY <1>8 DEF Heartbeat, TypeOK
<1>9. ASSUME IdleEnds
      PROVE  IInv'
  BY <1>9 DEF IdleEnds, TypeOK
<1>10. ASSUME FeedbackFini
      PROVE  IInv'
  BY <1>10 DEF FeedbackFini, TypeOK
<1>11. ASSUME Disconnect
      PROVE  IInv'
  BY <1>11 DEF Disconnect, TypeOK
<1>12. ASSUME CongestionStop
      PROVE  IInv'
  BY <1>12 DEF CongestionStop, TypeOK
<1>13. ASSUME Close
      PROVE  IInv'
  BY <1>13 DEF Close, TypeOK
<1>14. ASSUME TakionClosed
      PROVE  IInv'
  BY <1>14 DEF TakionClosed, TypeOK
<1>15. ASSUME FreeReceivers
      PROVE  IInv'
  BY <1>15 DEF FreeReceivers, TypeOK
<1>16. ASSUME chiaki_stream_connection_fini
      PROVE  IInv'
  BY <1>16 DEF chiaki_stream_connection_fini, TypeOK
<1>17. ASSUME chiaki_stream_connection_stop
      PROVE  IInv'
  BY <1>17 DEF chiaki_stream_connection_stop, SignalState, TypeOK
<1>18. ASSUME NEW c \in Controllers,
             chiaki_session_set_controller_state(c)
      PROVE  IInv'
  BY <1>18 DEF chiaki_session_set_controller_state, TypeOK
<1>19. ASSUME TakionConnects
      PROVE  IInv'
  BY <1>19 DEF TakionConnects, TakionEvent, SignalState, TypeOK
<1>20. ASSUME TakionGoesDown
      PROVE  IInv'
  BY <1>20 DEF TakionGoesDown, TakionEvent, SignalState, TypeOK
<1>21. ASSUME NEW msg \in Messages, TakionData(msg)
      PROVE  IInv'
  <2>0. takion = "connected" /\ run \in HasTakion /\ run # "disconnect"
    BY <1>21 DEF TakionData, MutexFree
  <2>1. CASE msg = "disconnect" /\ HandleDisconnect
    BY <1>21, <2>0, <2>1 DEF TakionData, HandleDisconnect, SignalState, TypeOK
  <2>2. CASE state = "EXPECT_BANG" /\ ExpectBang(msg)
    BY <1>21, <2>0, <2>2 DEF TakionData, ExpectBang, SignalState, IsEarly, Streaminfos,
       TypeOK
  <2>3. CASE state = "EXPECT_STREAMINFO" /\ DataExpectStreaminfo(msg)
    BY <1>21, <2>0, <2>3 DEF TakionData, DataExpectStreaminfo, SignalState, Streaminfos,
       TypeOK
  <2>4. CASE DataIdle
    BY <1>21, <2>0, <2>4 DEF TakionData, DataIdle, TypeOK
  <2> QED
    BY <1>21, <2>1, <2>2, <2>3, <2>4 DEF TakionData
<1>22. ASSUME AVBegin
      PROVE  IInv'
  BY <1>22 DEF AVBegin, TypeOK
<1>23. ASSUME AVEnd
      PROVE  IInv'
  BY <1>23 DEF AVEnd, TypeOK
<1>24. CASE UNCHANGED vars
  BY <1>24 DEF vars
<1> QED
  BY <1>1, <1>2, <1>3, <1>4, <1>5, <1>6, <1>7, <1>8, <1>9, <1>10, <1>11, <1>12,
     <1>13, <1>14, <1>15, <1>16, <1>17, <1>18, <1>19, <1>20, <1>21, <1>22,
     <1>23, <1>24 DEF Next, Run
-----------------------------------------------------------------------------
\* The stream connection's stages, life times and buffered STREAMINFO fit together,
\* in every interleaving of run, Takion's callbacks and the user.
THEOREM Inductive == Spec => []IInv
<1>1. Init => IInv
  BY InitEstablishes
<1>2. IInv /\ [Next]_vars => IInv'
  BY StepPreserves
<1> QED
  BY <1>1, <1>2, PTL DEF Spec

\* The receivers are there while a Takion thread may call back, without a lock, and
\* the feedback sender, which sends on Takion, has ended when run closes Takion.
THEOREM UsersEndFirstHolds == Spec => []UsersEndFirst
<1>1. IInv => UsersEndFirst
  BY DEF IInv, UsersEndFirst, ReceiversOutliveCallbacks, FeedbackEndsFirst, Lives,
     HasTakion, Streaming, Waits
<1> QED
  BY <1>1, Inductive, PTL

\* The CONNECTED event is sent only with Takion's keys set and a STREAMINFO seen, and
\* run never gives up waiting for a STREAMINFO that came, early or not.
THEOREM NothingIsSkippedHolds == Spec => []NothingIsSkipped
<1>1. IInv => NothingIsSkipped
  BY DEF IInv, NothingIsSkipped, ConnectedMeansReady, StreaminfoNotLost, Reached, InfoKept
<1> QED
  BY <1>1, Inductive, PTL

\* An active feedback sender has the controller state reported last, however the
\* reports fall before, into or after its initialisation by run.
THEOREM FeedbackIsCurrentHolds == Spec => []FeedbackIsCurrent
<1>1. IInv => FeedbackIsCurrent
  BY DEF IInv
<1> QED
  BY <1>1, Inductive, PTL

-----------------------------------------------------------------------------
(* Hole punching. *)

\* The fields of the records, which the steps change one or two at a time.
MFields == {"at", "port", "note", "req", "sock", "tries", "responded"}
SessFields == {"offer", "req", "ipv4", "next", "open", "ctrl", "data"}
PsnFields == {"owed", "extra", "acked", "accepted", "sent"}

\* Where the main thread is when the console's offer has been acknowledged, ...
Acked == {"send_offer", "wait_ack", "requests", "check", "send_accept", "wait_accept", "establish", "last_request"}
\* ... when our offer, if there is one, has a socket, ...
Offered == {"start", "wakeup", "wait_started", "punch", "wait_offer", "ack_offer", "send_offer", "wait_ack", "requests", "check"}
\* ... and when there is one; ...
Asking == {"wait_ack", "requests", "check"}
\* ... when a candidate was selected, and when it was accepted.
Selected == {"send_accept", "wait_accept", "establish"}
Accepting == {"wait_accept", "establish"}

\* The sockets of the session are numbered as they are made; 0 is none.
HpShapes ==
  /\ DOMAIN m = MFields /\ DOMAIN w = {"at", "note"} /\ DOMAIN sess = SessFields /\ DOMAIN psn = PsnFields
  /\ m.port \in {"ctrl", "data"}
  /\ sess.next \in Nat \ {0} /\ sess.open \subseteq 1 .. sess.next - 1
  /\ {sess.ipv4, sess.ctrl, sess.data} \subseteq 0 .. sess.next - 1

\* How far the main thread is tells what was acknowledged, accepted and established.
HpStages ==
  /\ m.at \in Acked => psn.acked # {}
  /\ m.at \in Accepting => m.port \in psn.sent
  /\ m.at = "last_request" => (IF m.port = "ctrl" THEN "ctrl_established" ELSE "data_established") \in st
  /\ m.port = "data" => "ctrl_established" \in st
  /\ sess.data # 0 => m.port = "data"

\* The socket of an offer is open until it is closed or handed out, and then it is no longer
\* the offer's.
HpSockets ==
  /\ m.at \in {"address", "candidates"} => sess.ipv4 \in sess.open /\ ~sess.offer
  /\ m.at \in Offered /\ sess.offer => sess.ipv4 \in sess.open
  /\ m.at \in Asking => sess.offer
  /\ m.at \in Selected => m.sock \in sess.open \ {sess.ctrl, sess.data} /\ sess.ipv4 = 0
  /\ sess.ipv4 # 0 => sess.ipv4 \notin {sess.ctrl, sess.data}

\* The invariant of hole punching.
HpInv == HpShapes /\ HpStages /\ HpSockets /\ HolepunchIsSafe

\* It holds before a session is made.
LEMMA HpInit == Hp!InitHp => HpInv
<1> SUFFICES ASSUME Hp!InitHp PROVE HpInv
  OBVIOUS
<1> USE DEF Hp!InitHp
<1>1. HpShapes
  BY DEF HpShapes, MFields, SessFields, PsnFields
<1>2. HpStages /\ HpSockets
  BY DEF HpStages, HpSockets, Acked, Accepting, Offered, Asking, Selected
<1>3. HolepunchIsSafe
  BY DEF HolepunchIsSafe, Hp!WebsocketEndsFirst, Hp!MainAt, Hp!EstablishedByBoth, Hp!SocketsStayOpen
<1> QED
  BY <1>1, <1>2, <1>3 DEF HpInv

\* A step that leaves the sockets alone and establishes nothing: the thread has got no
\* further than what it knows allows.
LEMMA HpMoves ==
  ASSUME HpInv,
         DOMAIN m' = MFields, m'.port = m.port, m'.sock = m.sock,
         DOMAIN sess' = SessFields, sess'.next = sess.next, sess'.open = sess.open, sess'.ipv4 = sess.ipv4,
         sess'.ctrl = sess.ctrl, sess'.data = sess.data, sess'.offer => sess.offer,
         DOMAIN psn' = PsnFields, psn.acked \subseteq psn'.acked, psn.sent \subseteq psn'.sent, psn.accepted \subseteq psn'.accepted,
         st \subseteq st', \A b \in {"ctrl_established", "data_established"} : b \in st' => b \in st,
         DOMAIN w' = {"at", "note"}, m'.at = "freed" => w'.at \in {"none", "done"},
         m'.at \in Acked => m.at \in Acked \/ psn'.acked # {},
         m'.at \in Accepting => m.at \in Accepting \/ m.port \in psn'.sent,
         m'.at = "last_request" => m.at = "last_request",
         m'.at \in {"address", "candidates"} => m.at \in {"address", "candidates"},
         m'.at \in Offered => m.at \in Offered,
         m'.at \in Asking => (m.at \in Asking /\ sess'.offer = sess.offer) \/ sess'.offer,
         m'.at \in Selected => m.at \in Selected
  PROVE  HpInv'
<1>1. HpShapes'
  BY DEF HpInv, HpShapes
<1>2. HpStages'
  BY DEF HpInv, HpStages, HpShapes
<1>3. HpSockets'
  BY DEF HpInv, HpSockets
<1>4. HolepunchIsSafe'
  BY DEF HpInv, HolepunchIsSafe, Hp!WebsocketEndsFirst, Hp!MainAt, Hp!EstablishedByBoth, Hp!SocketsStayOpen
<1> QED
  BY <1>1, <1>2, <1>3, <1>4 DEF HpInv

\* The same, when only the place of the thread changes.
LEMMA HpGoes ==
  ASSUME HpInv, NEW p, Hp!Go(p), sess' = sess, psn' = psn, w' = w, st \subseteq st',
         \A b \in {"ctrl_established", "data_established"} : b \in st' => b \in st,
         p = "freed" => w.at \in {"none", "done"},
         p \in Acked => m.at \in Acked,
         p \in Accepting => m.at \in Accepting,
         p = "last_request" => m.at = "last_request",
         p \in {"address", "candidates"} => m.at \in {"address", "candidates"},
         p \in Offered => m.at \in Offered,
         p \in Asking => m.at \in Asking,
         p \in Selected => m.at \in Selected
  PROVE  HpInv'
<1>1. DOMAIN m' = MFields /\ m'.at = p /\ m'.port = m.port /\ m'.sock = m.sock
  BY DEF Hp!Go, HpInv, HpShapes, MFields
<1>2. DOMAIN sess = SessFields /\ DOMAIN psn = PsnFields /\ DOMAIN w = {"at", "note"}
  BY DEF HpInv, HpShapes
<1> QED
  BY <1>1, <1>2, HpMoves

\* Where nothing needs to be known.
Plain == {"fini", "create", "wait_open", "http_create", "wait_created", "offer", "cleanup", "offer_cleanup", "delete",
          "wait_deleted", "join", "crash", "use"}

\* How the stages lie in one another.
StageOrder == /\ Plain \cap (Acked \cup Accepting \cup Offered \cup Asking \cup Selected \cup {"freed", "last_request", "address", "candidates"}) = {}
             /\ Asking \subseteq Offered /\ Asking \subseteq Acked /\ Accepting \subseteq Selected /\ Selected \subseteq Acked

\* They do.
LEMMA StagesLie == StageOrder
  BY DEF StageOrder, Plain, Acked, Accepting, Offered, Asking, Selected

\* A call ends.
LEMMA HpEnds ==
  ASSUME HpInv, NEW p \in Plain, Hp!Go(p), sess' = sess, psn' = psn, w' = w, st \subseteq st',
         \A b \in {"ctrl_established", "data_established"} : b \in st' => b \in st
  PROVE  HpInv'
<1>1. p \notin Acked \cup Accepting \cup Offered \cup Asking \cup Selected \cup {"freed", "last_request", "address", "candidates"}
  BY StagesLie DEF StageOrder
<1> QED
  BY <1>1, HpGoes

\* A call ends because of a cancel.
LEMMA HpCancelled ==
  ASSUME HpInv, NEW p \in Plain, Hp!Cancelled(p), sess' = sess, psn' = psn, w' = w, st \subseteq st',
         \A b \in {"ctrl_established", "data_established"} : b \in st' => b \in st
  PROVE  HpInv'
  BY HpEnds DEF Hp!Cancelled

\* chiaki_holepunch_session_create.
LEMMA HpCreate ==
  ASSUME HpInv, Hp!chiaki_holepunch_session_init \/ Hp!GetWebsocketFqdn \/ Hp!WaitOpen \/ Hp!http_create_session \/ Hp!WaitCreated
  PROVE  HpInv'
<1>0. {"create", "fini", "wait_open", "http_create", "wait_created", "offer"} \subseteq Plain
  BY DEF Plain
<1>s. DOMAIN m = MFields /\ DOMAIN sess = SessFields /\ DOMAIN psn = PsnFields /\ DOMAIN w = {"at", "note"}
  BY DEF HpInv, HpShapes
<1>g. ASSUME NEW p \in Plain, Hp!Go(p), sess' = sess, DOMAIN psn' = PsnFields, psn'.acked = psn.acked, psn'.sent = psn.sent,
             psn'.accepted = psn.accepted, DOMAIN w' = {"at", "note"}, st' = st
      PROVE  HpInv'
  <2>1. DOMAIN m' = MFields /\ m'.at = p /\ m'.port = m.port /\ m'.sock = m.sock
    BY <1>s, <1>g DEF Hp!Go, MFields
  <2>2. p \notin Acked \cup Accepting \cup Offered \cup Asking \cup Selected \cup {"freed", "last_request", "address", "candidates"}
    BY StagesLie DEF StageOrder
  <2> QED
    BY <1>s, <1>g, <2>1, <2>2, HpMoves
<1>1. CASE Hp!chiaki_holepunch_session_init
  BY <1>0, <1>1, HpEnds DEF Hp!chiaki_holepunch_session_init
<1>2. CASE Hp!GetWebsocketFqdn
  <2>1. CASE UNCHANGED w
    BY <1>0, <1>2, <2>1, HpEnds DEF Hp!GetWebsocketFqdn, Hp!Cancelled
  <2>2. CASE Hp!Go("wait_open") /\ w' = [w EXCEPT !.at = "connecting"]
    BY <1>0, <1>s, <1>g, <1>2, <2>2 DEF Hp!GetWebsocketFqdn
  <2> QED
    BY <1>2, <2>1, <2>2 DEF Hp!GetWebsocketFqdn
<1>3. CASE Hp!WaitOpen
  BY <1>0, <1>3, HpEnds DEF Hp!WaitOpen, Hp!Cancelled
<1>4. CASE Hp!http_create_session
  <2>1. DOMAIN psn' = PsnFields /\ psn'.acked = psn.acked /\ psn'.sent = psn.sent /\ psn'.accepted = psn.accepted
    BY <1>s, <1>4 DEF Hp!http_create_session, Hp!Owe, PsnFields
  <2>2. Hp!Go("fini") \/ Hp!Go("wait_created")
    BY <1>4 DEF Hp!http_create_session, Hp!Cancelled
  <2> QED
    BY <1>0, <1>s, <1>g, <1>4, <2>1, <2>2 DEF Hp!http_create_session
<1>5. CASE Hp!WaitCreated
  <2>1. Hp!Go("fini") \/ Hp!Go("offer") \/ Hp!Go("wait_created")
    BY <1>5 DEF Hp!WaitCreated, Hp!Cancelled, Hp!NothingFound
  <2>2. st \subseteq st' /\ \A b \in {"ctrl_established", "data_established"} : b \in st' => b \in st
    BY <1>5 DEF Hp!WaitCreated
  <2>3. sess' = sess /\ psn' = psn /\ w' = w
    BY <1>5 DEF Hp!WaitCreated
  <2> QED
    BY <1>0, <2>1, <2>2, <2>3, HpEnds
<1> QED
  BY <1>1, <1>2, <1>3, <1>4, <1>5

\* A socket of the session that nobody was given is closed, and the thread goes to p.
LEMMA HpCloses ==
  ASSUME HpInv, NEW p, p \in (Plain \cup Offered) \ Acked, Hp!Go(p), psn' = psn, w' = w, st' = st,
         DOMAIN sess' = SessFields, sess'.next = sess.next, sess'.ctrl = sess.ctrl, sess'.data = sess.data,
         sess'.ipv4 = 0, sess'.open = sess.open \ {sess.ipv4}, p \in Offered => ~sess'.offer
  PROVE  HpInv'
<1>1. DOMAIN m' = MFields /\ m'.at = p /\ m'.port = m.port /\ m'.sock = m.sock
  BY DEF Hp!Go, HpInv, HpShapes, MFields
<1>2. p \notin Acked \cup Accepting \cup Asking \cup Selected \cup {"freed", "last_request", "address", "candidates"}
  BY StagesLie DEF StageOrder, Offered
<1>3. HpShapes'
  BY <1>1 DEF HpInv, HpShapes
<1>4. HpStages'
  BY <1>1, <1>2 DEF HpInv, HpStages
<1>5. HpSockets'
  BY <1>1, <1>2 DEF HpInv, HpSockets
<1>6. HolepunchIsSafe'
  BY <1>1, <1>2 DEF HpInv, HpSockets, HolepunchIsSafe, Hp!WebsocketEndsFirst, Hp!MainAt, Hp!EstablishedByBoth, Hp!SocketsStayOpen
<1> QED
  BY <1>3, <1>4, <1>5, <1>6 DEF HpInv

\* holepunch_session_create_offer.
LEMMA HpOffer ==
  ASSUME HpInv, Hp!OfferSocket \/ Hp!OfferAddress \/ Hp!OfferCandidates
  PROVE  HpInv'
<1>s. DOMAIN m = MFields /\ DOMAIN sess = SessFields /\ sess.next \in Nat \ {0} /\ sess.open \subseteq 1 .. sess.next - 1
  BY DEF HpInv, HpShapes
<1>a. \A b \in BOOLEAN : Hp!AfterOffer(b) \in (Plain \cup Offered) \ Acked
  BY DEF Hp!AfterOffer, Plain, Offered, Acked
<1>p. ASSUME NEW p, p \in (Plain \cup Offered) \ Acked \/ p \in {"address", "candidates"}
      PROVE  p \notin Acked \cup Accepting \cup Asking \cup Selected \cup {"freed", "last_request"}
  BY <1>p, StagesLie DEF StageOrder, Offered, Acked, Accepting, Asking, Selected
<1>1. CASE Hp!OfferSocket
  <2> DEFINE made == [sess EXCEPT !.offer = FALSE, !.ipv4 = sess.next, !.next = @ + 1, !.open = @ \cup {sess.next}]
  <2>0. psn' = psn /\ w' = w /\ st' = st
    BY <1>1 DEF Hp!OfferSocket
  <2>1. ASSUME NEW p, p \in (Plain \cup Offered) \ Acked \/ p = "address", Hp!Go(p), sess' = made PROVE HpInv'
    <3>1. DOMAIN m' = MFields /\ m'.at = p /\ m'.port = m.port /\ m'.sock = m.sock
      BY <1>s, <2>1 DEF Hp!Go, MFields
    <3>2. /\ DOMAIN sess' = SessFields /\ sess'.next = sess.next + 1 /\ sess'.ctrl = sess.ctrl /\ sess'.data = sess.data
          /\ sess'.ipv4 = sess.next /\ sess'.open = sess.open \cup {sess.next} /\ ~sess'.offer
      BY <1>s, <2>1 DEF SessFields
    <3>3. p \notin Acked \cup Accepting \cup Asking \cup Selected \cup {"freed", "last_request"}
      BY <1>p, <2>1
    <3>4. HpShapes'
      BY <2>0, <3>1, <3>2 DEF HpInv, HpShapes
    <3>5. HpStages'
      BY <2>0, <3>1, <3>2, <3>3 DEF HpInv, HpStages
    <3>6. HpSockets'
      BY <1>s, <3>1, <3>2, <3>3 DEF HpInv, HpSockets, HpShapes
    <3>7. HolepunchIsSafe'
      BY <2>0, <3>1, <3>2, <3>3 DEF HpInv, HolepunchIsSafe, Hp!WebsocketEndsFirst, Hp!MainAt, Hp!EstablishedByBoth, Hp!SocketsStayOpen
    <3> QED
      BY <3>4, <3>5, <3>6, <3>7 DEF HpInv
  <2>2. CASE sess' = made /\ (Hp!Go("address") \/ Hp!Go(Hp!AfterOffer(FALSE)))
    BY <1>a, <2>1, <2>2
  <2>3. ASSUME sess' = [sess EXCEPT !.offer = FALSE, !.ipv4 = 0], Hp!Go(Hp!AfterOffer(FALSE)) PROVE HpInv'
    <3> DEFINE p == Hp!AfterOffer(FALSE)
    <3>0. p \in (Plain \cup Offered) \ Acked
      BY <1>a
    <3> HIDE DEF p
    <3>1. DOMAIN m' = MFields /\ m'.at = p /\ m'.port = m.port /\ m'.sock = m.sock
      BY <1>s, <2>3 DEF Hp!Go, MFields, p
    <3>2. /\ DOMAIN sess' = SessFields /\ sess'.next = sess.next /\ sess'.ctrl = sess.ctrl /\ sess'.data = sess.data
          /\ sess'.ipv4 = 0 /\ sess'.open = sess.open /\ ~sess'.offer
      BY <1>s, <2>3 DEF SessFields
    <3>3. p \notin Acked \cup Accepting \cup Asking \cup Selected \cup {"freed", "last_request"} /\ p \notin {"address", "candidates"}
      BY <1>p, <3>0 DEF Plain, Offered
    <3>4. HpShapes'
      BY <2>0, <3>1, <3>2 DEF HpInv, HpShapes
    <3>5. HpStages'
      BY <2>0, <3>1, <3>2, <3>3 DEF HpInv, HpStages
    <3>6. HpSockets'
      BY <3>1, <3>2, <3>3 DEF HpInv, HpSockets
    <3>7. HolepunchIsSafe'
      BY <2>0, <3>1, <3>2, <3>3 DEF HpInv, HolepunchIsSafe, Hp!WebsocketEndsFirst, Hp!MainAt, Hp!EstablishedByBoth, Hp!SocketsStayOpen
    <3> QED
      BY <3>4, <3>5, <3>6, <3>7 DEF HpInv
  <2> QED
    BY <1>1, <2>2, <2>3 DEF Hp!OfferSocket
<1>2. ASSUME NEW r \in {[Hp!Close(sess.ipv4) EXCEPT !.req = @ + 1], Hp!Close(sess.ipv4)}, sess' = r, m.at \in {"address", "candidates"},
             Hp!Go(Hp!AfterOffer(FALSE)), psn' = psn, w' = w, st' = st
      PROVE  HpInv'
  <2>1. ~sess.offer
    BY <1>2 DEF HpInv, HpSockets
  <2>2. /\ DOMAIN sess' = SessFields /\ sess'.next = sess.next /\ sess'.ctrl = sess.ctrl /\ sess'.data = sess.data
        /\ sess'.ipv4 = 0 /\ sess'.open = sess.open \ {sess.ipv4} /\ ~sess'.offer
    BY <1>s, <1>2, <2>1 DEF Hp!Close, SessFields
  <2> QED
    BY <1>a, <1>2, <2>2, HpCloses
<1>3. CASE Hp!OfferAddress
  <2>1. CASE Hp!Go("candidates") /\ sess' = [sess EXCEPT !.req = @ + 1]
    <3>1. DOMAIN m' = MFields /\ m'.at = "candidates" /\ m'.port = m.port /\ m'.sock = m.sock
      BY <1>s, <2>1 DEF Hp!Go, MFields
    <3>2. /\ DOMAIN sess' = SessFields /\ sess'.next = sess.next /\ sess'.ctrl = sess.ctrl /\ sess'.data = sess.data
          /\ sess'.ipv4 = sess.ipv4 /\ sess'.open = sess.open /\ sess'.offer = sess.offer
      BY <1>s, <2>1 DEF SessFields
    <3>3. "candidates" \notin Acked \cup Accepting \cup Asking \cup Selected \cup Offered
      BY DEF Acked, Accepting, Asking, Selected, Offered
    <3>4. m.at = "address" /\ psn' = psn /\ w' = w /\ st' = st /\ DOMAIN psn = PsnFields /\ DOMAIN w = {"at", "note"}
      BY <1>3 DEF Hp!OfferAddress, Hp!MainAt, HpInv, HpShapes
    <3> QED
      BY <3>1, <3>2, <3>3, <3>4, HpMoves
  <2>2. CASE Hp!Go(Hp!AfterOffer(FALSE)) /\ sess' = [Hp!Close(sess.ipv4) EXCEPT !.req = @ + 1]
    BY <1>2, <1>3, <2>2 DEF Hp!OfferAddress, Hp!MainAt
  <2> QED
    BY <1>3, <2>1, <2>2 DEF Hp!OfferAddress
<1>4. CASE Hp!OfferCandidates
  <2>1. CASE Hp!Go(Hp!AfterOffer(TRUE)) /\ sess' = [sess EXCEPT !.offer = TRUE]
    <3> DEFINE p == Hp!AfterOffer(TRUE)
    <3>0. p \in (Plain \cup Offered) \ Acked /\ m.at = "candidates" /\ psn' = psn /\ w' = w /\ st' = st
      BY <1>a, <1>4 DEF Hp!OfferCandidates, Hp!MainAt
    <3> HIDE DEF p
    <3>1. DOMAIN m' = MFields /\ m'.at = p /\ m'.port = m.port /\ m'.sock = m.sock
      BY <1>s, <2>1 DEF Hp!Go, MFields, p
    <3>2. /\ DOMAIN sess' = SessFields /\ sess'.next = sess.next /\ sess'.ctrl = sess.ctrl /\ sess'.data = sess.data
          /\ sess'.ipv4 = sess.ipv4 /\ sess'.open = sess.open
      BY <1>s, <2>1 DEF SessFields
    <3>3. p \notin Acked \cup Accepting \cup Asking \cup Selected \cup {"freed", "last_request"} /\ p \notin {"address", "candidates"}
      BY <1>p, <3>0 DEF Plain, Offered
    <3>4. HpShapes'
      BY <3>0, <3>1, <3>2 DEF HpInv, HpShapes
    <3>5. HpStages'
      BY <3>0, <3>1, <3>2, <3>3 DEF HpInv, HpStages
    <3>6. HpSockets'
      BY <3>0, <3>1, <3>2, <3>3 DEF HpInv, HpSockets
    <3>7. HolepunchIsSafe'
      BY <3>0, <3>1, <3>2, <3>3 DEF HpInv, HolepunchIsSafe, Hp!WebsocketEndsFirst, Hp!MainAt, Hp!EstablishedByBoth, Hp!SocketsStayOpen
    <3> QED
      BY <3>4, <3>5, <3>6, <3>7 DEF HpInv
  <2>2. CASE Hp!Go(Hp!AfterOffer(FALSE)) /\ sess' = Hp!Close(sess.ipv4)
    BY <1>2, <1>4, <2>2 DEF Hp!OfferCandidates, Hp!MainAt
  <2> QED
    BY <1>4, <2>1, <2>2 DEF Hp!OfferCandidates
<1> QED
  BY <1>1, <1>3, <1>4

\* chiaki_holepunch_session_start.
LEMMA HpStart ==
  ASSUME HpInv, Hp!GetUserProfile \/ Hp!http_start_session \/ Hp!WaitStarted
  PROVE  HpInv'
<1>s. DOMAIN m = MFields /\ DOMAIN sess = SessFields /\ DOMAIN psn = PsnFields /\ DOMAIN w = {"at", "note"}
  BY DEF HpInv, HpShapes
<1>0. "fini" \in Plain /\ {"start", "wakeup", "wait_started", "punch"} \subseteq Offered \ Acked
  BY DEF Plain, Offered, Acked
<1>p. ASSUME NEW p, p \in Plain \/ p \in {"start", "wakeup", "wait_started", "punch"}
      PROVE  p \notin Acked \cup Accepting \cup Asking \cup Selected \cup {"freed", "last_request", "address", "candidates"}
  BY <1>p, <1>0, StagesLie DEF StageOrder
<1>q. m.at \in Offered
  BY <1>0 DEF Hp!GetUserProfile, Hp!http_start_session, Hp!WaitStarted, Hp!MainAt
<1>g. ASSUME NEW p, p \in Plain \/ p \in {"start", "wakeup", "wait_started", "punch"}, Hp!Go(p),
             DOMAIN sess' = SessFields, sess'.next = sess.next, sess'.open = sess.open, sess'.ipv4 = sess.ipv4,
             sess'.ctrl = sess.ctrl, sess'.data = sess.data, sess'.offer => sess.offer,
             DOMAIN psn' = PsnFields, psn'.acked = psn.acked, psn'.sent = psn.sent, psn'.accepted = psn.accepted,
             w' = w, st \subseteq st', \A b \in {"ctrl_established", "data_established"} : b \in st' => b \in st
      PROVE  HpInv'
  <2>1. DOMAIN m' = MFields /\ m'.at = p /\ m'.port = m.port /\ m'.sock = m.sock
    BY <1>s, <1>g DEF Hp!Go, MFields
  <2>2. p \notin Acked \cup Accepting \cup Asking \cup Selected \cup {"freed", "last_request", "address", "candidates"}
    BY <1>p, <1>g
  <2> QED
    BY <1>s, <1>q, <1>g, <2>1, <2>2, HpMoves
<1>f. ASSUME Hp!StartFails, w' = w PROVE HpInv'
  <2>1. /\ DOMAIN sess' = SessFields /\ sess'.next = sess.next /\ sess'.open = sess.open /\ sess'.ipv4 = sess.ipv4
        /\ sess'.ctrl = sess.ctrl /\ sess'.data = sess.data /\ ~sess'.offer
    BY <1>s, <1>f DEF Hp!StartFails, SessFields
  <2> QED
    BY <1>s, <1>0, <1>g, <1>f, <2>1 DEF Hp!StartFails
<1>1. CASE Hp!GetUserProfile
  BY <1>s, <1>0, <1>g, <1>f, <1>1 DEF Hp!GetUserProfile
<1>2. CASE Hp!http_start_session
  <2>1. CASE ~Hp!StartFails
    <3>1. DOMAIN psn' = PsnFields /\ psn'.acked = psn.acked /\ psn'.sent = psn.sent /\ psn'.accepted = psn.accepted
      BY <1>s, <1>2, <2>1 DEF Hp!http_start_session, Hp!Owe, PsnFields
    <3>2. Hp!Go("fini") \/ Hp!Go("wait_started")
      BY <1>2, <2>1 DEF Hp!http_start_session, Hp!Cancelled
    <3>3. st' = st \cup {"data_sent"} /\ sess' = sess /\ w' = w
      BY <1>2, <2>1 DEF Hp!http_start_session
    <3> QED
      BY <1>s, <1>0, <1>g, <3>1, <3>2, <3>3
  <2> QED
    BY <1>f, <1>2, <2>1 DEF Hp!http_start_session
<1>3. CASE Hp!WaitStarted
  <2>1. Hp!Go("fini") \/ Hp!Go("punch") \/ Hp!Go("wait_started")
    BY <1>3 DEF Hp!WaitStarted, Hp!Cancelled, Hp!NothingFound
  <2>2. st \subseteq st' /\ \A b \in {"ctrl_established", "data_established"} : b \in st' => b \in st
    BY <1>3 DEF Hp!WaitStarted
  <2>3. sess' = sess /\ psn' = psn /\ w' = w
    BY <1>3 DEF Hp!WaitStarted
  <2> QED
    BY <1>s, <1>0, <1>g, <2>1, <2>2, <2>3
<1> QED
  BY <1>1, <1>2, <1>3

\* A message that is waited for does not come, or another one is taken off the list.
LEMMA HpWaits ==
  ASSUME HpInv, NEW action, NEW p \in Plain, Hp!wait_for_session_message(action, p), sess' = sess, psn' = psn, w' = w
  PROVE  HpInv'
<1>1. st' = st /\ (Hp!Go(p) \/ m' = m)
  BY DEF Hp!wait_for_session_message, Hp!NothingFound, Hp!Cancelled
<1>2. CASE Hp!Go(p)
  BY <1>1, <1>2, HpEnds
<1>3. CASE m' = m
  BY <1>1, <1>3 DEF HpInv, HpShapes, HpStages, HpSockets, HolepunchIsSafe, Hp!WebsocketEndsFirst, Hp!MainAt,
       Hp!EstablishedByBoth, Hp!SocketsStayOpen
<1> QED
  BY <1>1, <1>2, <1>3

\* chiaki_holepunch_session_punch_hole, until our offer is acknowledged.
LEMMA HpPunch ==
  ASSUME HpInv, Hp!PunchHole \/ Hp!WaitOffer \/ Hp!AckOffer \/ Hp!send_offer \/ Hp!WaitAck
  PROVE  HpInv'
<1>s. DOMAIN m = MFields /\ DOMAIN sess = SessFields /\ DOMAIN psn = PsnFields /\ DOMAIN w = {"at", "note"}
  BY DEF HpInv, HpShapes
<1>0. {"cleanup", "offer_cleanup", "crash"} \subseteq Plain
  BY DEF Plain
<1>d. /\ {"punch", "wait_offer", "ack_offer", "send_offer", "wait_ack", "requests"} \subseteq Offered
      /\ {"punch", "wait_offer", "ack_offer"} \cap Acked = {} /\ {"punch", "wait_offer", "ack_offer", "send_offer"} \cap Asking = {}
      /\ {"send_offer", "wait_ack", "requests"} \subseteq Acked /\ {"wait_ack", "requests"} \subseteq Asking
      /\ {"punch", "wait_offer", "ack_offer", "send_offer", "wait_ack", "requests"} \cap (Accepting \cup Selected \cup {"freed", "last_request", "address", "candidates"}) = {}
  BY DEF Offered, Acked, Asking, Accepting, Selected
<1>1. CASE Hp!PunchHole
  <2>1. m.at = "punch" /\ st' = st /\ sess' = sess /\ psn' = psn /\ w' = w /\ (Hp!Go("wait_offer") \/ Hp!Go("offer_cleanup"))
    BY <1>1 DEF Hp!PunchHole, Hp!MainAt
  <2>2. CASE Hp!Go("wait_offer")
    BY <1>d, <2>1, <2>2, HpGoes
  <2> QED
    BY <1>0, <2>1, <2>2, HpEnds
<1>2. CASE Hp!WaitOffer
  <2>0. m.at = "wait_offer" /\ sess' = sess /\ psn' = psn /\ w' = w
    BY <1>2 DEF Hp!WaitOffer, Hp!MainAt
  <2>1. CASE Hp!wait_for_session_message("offer", "offer_cleanup")
    BY <1>0, <2>0, <2>1, HpWaits
  <2>2. ASSUME NEW x, Hp!OfferReceived(x) PROVE HpInv'
    <3>1. DOMAIN m' = MFields /\ m'.at = "ack_offer" /\ m'.port = m.port /\ m'.sock = m.sock
      BY <1>s, <2>2 DEF Hp!OfferReceived, MFields
    <3>2. st \subseteq st' /\ \A b \in {"ctrl_established", "data_established"} : b \in st' => b \in st
      BY <2>2 DEF Hp!OfferReceived
    <3> QED
      BY <1>s, <1>d, <2>0, <3>1, <3>2, HpMoves
  <2> QED
    BY <1>2, <2>1, <2>2 DEF Hp!WaitOffer
<1>3. CASE Hp!AckOffer
  <2>0. m.at = "ack_offer" /\ sess' = sess /\ w' = w /\ st' = st
    BY <1>3 DEF Hp!AckOffer, Hp!MainAt
  <2>1. CASE Hp!Go("cleanup") /\ psn' = psn
    BY <1>0, <2>0, <2>1, HpEnds
  <2>2. CASE psn' = [psn EXCEPT !.acked = @ \cup {m.note.n}] /\ (Hp!Go("cleanup") \/ Hp!Go("send_offer"))
    <3>1. DOMAIN m' = MFields /\ m'.at \in {"cleanup", "send_offer"} /\ m'.port = m.port /\ m'.sock = m.sock
      BY <1>s, <2>2 DEF Hp!Go, MFields
    <3>2. /\ DOMAIN psn' = PsnFields /\ psn.acked \subseteq psn'.acked /\ psn'.acked # {}
          /\ psn'.sent = psn.sent /\ psn'.accepted = psn.accepted
      BY <1>s, <2>2 DEF PsnFields
    <3>3. "cleanup" \notin Acked \cup Accepting \cup Offered \cup Asking \cup Selected
      BY <1>0, StagesLie DEF StageOrder
    <3> QED
      BY <1>s, <1>d, <2>0, <3>1, <3>2, <3>3, HpMoves
  <2> QED
    BY <1>3, <2>1, <2>2 DEF Hp!AckOffer, Hp!Cancelled
<1>4. CASE Hp!send_offer
  <2>0. m.at = "send_offer" /\ w' = w /\ st' = st
    BY <1>4 DEF Hp!send_offer, Hp!MainAt
  <2>1. CASE sess.offer
    <3>1. DOMAIN m' = MFields /\ m'.at = "wait_ack" /\ m'.port = m.port /\ m'.sock = m.sock
      BY <1>s, <1>4, <2>1 DEF Hp!send_offer, MFields
    <3>2. /\ DOMAIN sess' = SessFields /\ sess'.next = sess.next /\ sess'.open = sess.open /\ sess'.ipv4 = sess.ipv4
          /\ sess'.ctrl = sess.ctrl /\ sess'.data = sess.data /\ sess'.offer = sess.offer
      BY <1>s, <1>4, <2>1 DEF Hp!send_offer, SessFields
    <3>3. DOMAIN psn' = PsnFields /\ psn'.acked = psn.acked /\ psn'.sent = psn.sent /\ psn'.accepted = psn.accepted
      BY <1>s, <1>4, <2>1 DEF Hp!send_offer, Hp!Owe, PsnFields
    <3> QED
      BY <1>s, <1>d, <2>0, <2>1, <3>1, <3>2, <3>3, HpMoves
  <2>2. CASE ~sess.offer
    BY <1>0, <1>4, <2>0, <2>2, HpEnds DEF Hp!send_offer
  <2> QED
    BY <2>1, <2>2
<1>5. CASE Hp!WaitAck
  <2>0. m.at = "wait_ack" /\ sess' = sess /\ psn' = psn /\ w' = w
    BY <1>5 DEF Hp!WaitAck, Hp!MainAt
  <2>1. CASE Hp!wait_for_session_message("result", "cleanup")
    BY <1>0, <2>0, <2>1, HpWaits
  <2>2. ASSUME NEW x, Hp!AckReceived(x) PROVE HpInv'
    BY <1>d, <2>0, <2>2, HpGoes DEF Hp!AckReceived
  <2> QED
    BY <1>5, <2>1, <2>2 DEF Hp!WaitAck
<1> QED
  BY <1>1, <1>2, <1>3, <1>4, <1>5

\* check_candidates.
LEMMA HpCheck ==
  ASSUME HpInv, Hp!CheckRequests \/ Hp!CheckTimeout \/ Hp!CheckRequest \/ Hp!CheckResponse
  PROVE  HpInv'
<1>s. DOMAIN m = MFields /\ DOMAIN sess = SessFields /\ DOMAIN psn = PsnFields /\ DOMAIN w = {"at", "note"}
  BY DEF HpInv, HpShapes
<1>n. sess.next \in Nat \ {0} /\ sess.open \subseteq 1 .. sess.next - 1 /\ {sess.ipv4, sess.ctrl, sess.data} \subseteq 0 .. sess.next - 1
  BY DEF HpInv, HpShapes
<1>0. "cleanup" \in Plain /\ "cleanup" \notin Acked \cup Accepting \cup Offered \cup Asking \cup Selected
  BY StagesLie DEF Plain, StageOrder
<1>d. /\ {"requests", "check"} \subseteq Offered /\ {"requests", "check"} \subseteq Acked /\ {"requests", "check"} \subseteq Asking
      /\ {"requests", "check"} \cap (Accepting \cup Selected \cup {"freed", "last_request", "address", "candidates"}) = {}
  BY DEF Offered, Acked, Asking, Accepting, Selected
<1>t. m.at \in {"requests", "check"} /\ psn' = psn /\ w' = w /\ st' = st
  BY DEF Hp!CheckRequests, Hp!CheckTimeout, Hp!CheckRequest, Hp!CheckResponse, Hp!MainAt
<1>o. sess.offer /\ sess.ipv4 \in sess.open /\ sess.ipv4 # 0 /\ sess.ipv4 \notin {sess.ctrl, sess.data} /\ psn.acked # {}
  BY <1>d, <1>t, <1>n DEF HpInv, HpSockets, HpStages
<1>c. ASSUME Hp!Go("cleanup"), sess' = Hp!Close(sess.ipv4) PROVE HpInv'
  <2>1. /\ DOMAIN sess' = SessFields /\ sess'.next = sess.next /\ sess'.ctrl = sess.ctrl /\ sess'.data = sess.data
        /\ sess'.ipv4 = 0 /\ sess'.open = sess.open \ {sess.ipv4}
    BY <1>s, <1>c DEF Hp!Close, SessFields
  <2> QED
    BY <1>0, <1>t, <1>c, <2>1, HpCloses
<1>k. ASSUME sess' = sess, DOMAIN m' = MFields, m'.at = "check", m'.port = m.port, m'.sock = m.sock PROVE HpInv'
  BY <1>s, <1>d, <1>t, <1>o, <1>k, HpMoves
<1>1. CASE Hp!CheckRequests
  BY <1>c, <1>k, <1>s, <1>1 DEF Hp!CheckRequests, MFields
<1>2. CASE Hp!CheckTimeout
  BY <1>c, <1>k, <1>s, <1>2 DEF Hp!CheckTimeout, Hp!MainAt, MFields
<1>3. CASE Hp!CheckRequest
  BY <1>c, <1>k, <1>s, <1>3 DEF Hp!CheckRequest, Hp!MainAt, MFields
<1>4. CASE Hp!CheckResponse
  <2>1. CASE Hp!Go("cleanup") /\ sess' = Hp!Close(sess.ipv4)
    BY <1>c, <2>1
  <2>2. ASSUME NEW own \in BOOLEAN,
               sess' = IF own THEN [sess EXCEPT !.ipv4 = 0]
                       ELSE [sess EXCEPT !.open = (@ \ {sess.ipv4}) \cup {sess.next}, !.next = @ + 1, !.ipv4 = 0],
               Hp!Go("cleanup") \/ m' = [m EXCEPT !.at = "send_accept", !.sock = IF own THEN sess.ipv4 ELSE sess.next]
        PROVE  HpInv'
    <3> DEFINE chosen == IF own THEN sess.ipv4 ELSE sess.next
    <3>1. /\ DOMAIN sess' = SessFields /\ sess'.ctrl = sess.ctrl /\ sess'.data = sess.data /\ sess'.ipv4 = 0
          /\ sess'.next = (IF own THEN sess.next ELSE sess.next + 1)
          /\ sess'.open = (IF own THEN sess.open ELSE (sess.open \ {sess.ipv4}) \cup {sess.next})
      BY <1>s, <2>2 DEF SessFields
    <3>2. /\ DOMAIN m' = MFields /\ m'.port = m.port /\ m'.at \in {"cleanup", "send_accept"}
          /\ m'.at = "send_accept" => m'.sock = chosen
      BY <1>s, <2>2 DEF Hp!Go, MFields
    <3>3. chosen \in sess'.open /\ chosen \notin {sess'.ctrl, sess'.data}
      BY <1>o, <1>n, <3>1
    <3>4. "send_accept" \notin Accepting \cup Offered \cup Asking
      BY DEF Accepting, Offered, Asking
    <3> HIDE DEF chosen
    <3>5. HpShapes'
      BY <1>n, <1>t, <3>1, <3>2 DEF HpInv, HpShapes
    <3>6. HpStages'
      BY <1>0, <1>o, <1>t, <3>1, <3>2, <3>4 DEF HpInv, HpStages
    <3>7. HpSockets'
      BY <1>0, <3>1, <3>2, <3>3, <3>4 DEF HpSockets
    <3>8. HolepunchIsSafe'
      BY <1>o, <1>t, <1>n, <3>1, <3>2 DEF HpInv, HolepunchIsSafe, Hp!WebsocketEndsFirst, Hp!MainAt, Hp!EstablishedByBoth, Hp!SocketsStayOpen
    <3> QED
      BY <3>5, <3>6, <3>7, <3>8 DEF HpInv
  <2> QED
    BY <1>4, <2>1, <2>2 DEF Hp!CheckResponse, Hp!Cancelled
<1> QED
  BY <1>1, <1>2, <1>3, <1>4

\* Both sides accept, and the socket is handed out.
LEMMA HpAccept ==
  ASSUME HpInv, Hp!send_accept \/ Hp!WaitAccept \/ Hp!Establish \/ Hp!LastRequest
  PROVE  HpInv'
<1>s. DOMAIN m = MFields /\ DOMAIN sess = SessFields /\ DOMAIN psn = PsnFields /\ DOMAIN w = {"at", "note"} /\ m.port \in {"ctrl", "data"}
  BY DEF HpInv, HpShapes
<1>0. "cleanup" \in Plain /\ "cleanup" \notin Acked \cup Accepting \cup Offered \cup Asking \cup Selected
  BY StagesLie DEF Plain, StageOrder
<1>d. /\ {"send_accept", "wait_accept", "establish", "last_request"} \subseteq Acked
      /\ {"send_accept", "wait_accept", "establish"} \subseteq Selected /\ {"wait_accept", "establish"} \subseteq Accepting
      /\ {"send_accept", "wait_accept", "establish", "last_request"} \cap (Offered \cup Asking \cup {"freed", "address", "candidates"}) = {}
      /\ "send_accept" \notin Accepting /\ "last_request" \notin Accepting \cup Selected
  BY DEF Offered, Acked, Asking, Accepting, Selected
<1>1. CASE Hp!send_accept
  <2>0. m.at = "send_accept" /\ st' = st /\ w' = w
    BY <1>1 DEF Hp!send_accept, Hp!MainAt
  <2>1. CASE Hp!Go("cleanup") /\ psn' = psn /\ sess' = sess
    BY <1>0, <2>0, <2>1, HpEnds
  <2>2. CASE /\ \E ns : psn' = [psn EXCEPT !.owed = @ \o ns, !.sent = @ \cup {m.port}]
             /\ (Hp!Go("cleanup") /\ sess' = sess) \/ (Hp!Go("wait_accept") /\ sess' = [sess EXCEPT !.req = @ + 1])
    <3>1. DOMAIN m' = MFields /\ m'.at \in {"cleanup", "wait_accept"} /\ m'.port = m.port /\ m'.sock = m.sock
      BY <1>s, <2>2 DEF Hp!Go, MFields
    <3>2. /\ DOMAIN sess' = SessFields /\ sess'.next = sess.next /\ sess'.open = sess.open /\ sess'.ipv4 = sess.ipv4
          /\ sess'.ctrl = sess.ctrl /\ sess'.data = sess.data /\ sess'.offer = sess.offer
      BY <1>s, <2>2 DEF SessFields
    <3>3. DOMAIN psn' = PsnFields /\ psn'.acked = psn.acked /\ psn'.sent = psn.sent \cup {m.port} /\ psn'.accepted = psn.accepted
      BY <1>s, <2>2 DEF PsnFields
    <3> QED
      BY <1>s, <1>0, <1>d, <2>0, <3>1, <3>2, <3>3, HpMoves
  <2> QED
    BY <1>1, <2>1, <2>2 DEF Hp!send_accept, Hp!Cancelled
<1>2. CASE Hp!WaitAccept
  <2>0. m.at = "wait_accept" /\ sess' = sess /\ psn' = psn /\ w' = w
    BY <1>2 DEF Hp!WaitAccept, Hp!MainAt
  <2>1. CASE Hp!wait_for_session_message("accept", "cleanup")
    BY <1>0, <2>0, <2>1, HpWaits
  <2>2. ASSUME NEW x, Hp!AcceptReceived(x) PROVE HpInv'
    <3>1. DOMAIN m' = MFields /\ m'.at = "establish" /\ m'.port = m.port /\ m'.sock = m.sock /\ st' = st
      BY <1>s, <2>2 DEF Hp!AcceptReceived, MFields
    <3> QED
      BY <1>s, <1>d, <2>0, <3>1, HpMoves
  <2> QED
    BY <1>2, <2>1, <2>2 DEF Hp!WaitAccept
<1>3. CASE Hp!Establish
  <2>0. m.at = "establish" /\ w' = w
    BY <1>3 DEF Hp!Establish, Hp!MainAt
  <2>1. CASE Hp!Go("cleanup") /\ UNCHANGED <<st, sess, psn>>
    BY <1>0, <2>0, <2>1, HpEnds
  <2>2. CASE Hp!Go("cleanup") /\ UNCHANGED <<st, sess>> /\ psn' = [psn EXCEPT !.accepted = @ \cup {m.port}]
    <3>1. DOMAIN m' = MFields /\ m'.at = "cleanup" /\ m'.port = m.port /\ m'.sock = m.sock
      BY <1>s, <2>2 DEF Hp!Go, MFields
    <3>2. DOMAIN psn' = PsnFields /\ psn'.acked = psn.acked /\ psn'.sent = psn.sent /\ psn.accepted \subseteq psn'.accepted
      BY <1>s, <2>2 DEF PsnFields
    <3> QED
      BY <1>s, <1>0, <2>0, <2>2, <3>1, <3>2, HpMoves
  <2>3. CASE /\ st' = st \cup {IF m.port = "ctrl" THEN "ctrl_established" ELSE "data_established"}
             /\ sess' = IF m.port = "ctrl" THEN [sess EXCEPT !.ctrl = m.sock] ELSE [sess EXCEPT !.data = m.sock]
             /\ psn' = [psn EXCEPT !.accepted = @ \cup {m.port},
                                   !.owed = IF m.port = "ctrl" THEN Append(@, Hp!Note("offer", 2)) ELSE @]
             /\ Hp!Go("last_request")
    <3>1. DOMAIN m' = MFields /\ m'.at = "last_request" /\ m'.port = m.port /\ m'.sock = m.sock
      BY <1>s, <2>3 DEF Hp!Go, MFields
    <3>2. DOMAIN psn' = PsnFields /\ psn'.acked = psn.acked /\ psn'.sent = psn.sent /\ psn'.accepted = psn.accepted \cup {m.port}
      BY <1>s, <2>3 DEF PsnFields
    <3>3. /\ DOMAIN sess' = SessFields /\ sess'.next = sess.next /\ sess'.open = sess.open /\ sess'.ipv4 = sess.ipv4
          /\ sess'.ctrl = (IF m.port = "ctrl" THEN m.sock ELSE sess.ctrl)
          /\ sess'.data = (IF m.port = "ctrl" THEN sess.data ELSE m.sock)
      BY <1>s, <2>3 DEF SessFields
    <3>4. m.sock \in sess.open \ {sess.ctrl, sess.data} /\ sess.ipv4 = 0 /\ psn.acked # {} /\ m.port \in psn.sent
      BY <1>d, <2>0 DEF HpInv, HpSockets, HpStages
    <3>5. HpShapes'
      BY <1>s, <2>0, <3>1, <3>2, <3>3, <3>4 DEF HpInv, HpShapes
    <3>6. HpStages'
      BY <1>s, <1>d, <2>3, <3>1, <3>2, <3>3, <3>4 DEF HpInv, HpStages
    <3>7. HpSockets'
      BY <1>d, <3>1, <3>3, <3>4 DEF HpSockets
    <3>8. Hp!EstablishedByBoth'
      BY <1>s, <2>3, <3>2, <3>4 DEF HpInv, HpStages, HolepunchIsSafe, Hp!EstablishedByBoth
    <3>9. Hp!SocketsStayOpen'
      <4>1. sess.open \subseteq 1 .. sess.next - 1 /\ sess.next \in Nat \ {0}
        BY DEF HpInv, HpShapes
      <4>2. m.sock # 0 /\ (m.port = "ctrl" => sess.data = 0)
        BY <3>4, <4>1, <1>s DEF HpInv, HpStages
      <4> QED
        BY <3>3, <3>4, <4>2 DEF HpInv, HolepunchIsSafe, Hp!SocketsStayOpen
    <3>10. Hp!WebsocketEndsFirst'
      BY <3>1 DEF Hp!WebsocketEndsFirst, Hp!MainAt
    <3> QED
      BY <3>5, <3>6, <3>7, <3>8, <3>9, <3>10 DEF HpInv, HolepunchIsSafe
  <2> QED
    BY <1>3, <2>1, <2>2, <2>3 DEF Hp!Establish, Hp!Cancelled
<1>4. CASE Hp!LastRequest
  <2>0. m.at = "last_request" /\ st' = st /\ psn' = psn /\ w' = w
    BY <1>4 DEF Hp!LastRequest, Hp!MainAt
  <2>1. CASE Hp!Go("cleanup") /\ sess' = sess
    BY <1>0, <2>0, <2>1, HpEnds
  <2>2. CASE /\ sess' = [sess EXCEPT !.offer = FALSE]
             /\ m' = [m EXCEPT !.at = IF m.port = "ctrl" THEN "offer" ELSE "use", !.port = "data"]
    <3>1. DOMAIN m' = MFields /\ m'.at \in Plain /\ m'.port = "data" /\ m'.sock = m.sock
      BY <1>s, <2>2 DEF MFields, Plain
    <3>2. /\ DOMAIN sess' = SessFields /\ sess'.next = sess.next /\ sess'.open = sess.open /\ sess'.ipv4 = sess.ipv4
          /\ sess'.ctrl = sess.ctrl /\ sess'.data = sess.data
      BY <1>s, <2>2 DEF SessFields
    <3>3. m'.at \notin Acked \cup Accepting \cup Offered \cup Asking \cup Selected \cup {"freed", "last_request", "address", "candidates"}
      BY <3>1, StagesLie DEF StageOrder
    <3>4. "ctrl_established" \in st
      BY <1>s, <2>0 DEF HpInv, HpStages
    <3>5. HpShapes'
      BY <2>0, <3>1, <3>2 DEF HpInv, HpShapes
    <3>6. HpStages'
      BY <2>0, <3>1, <3>3, <3>4 DEF HpStages
    <3>7. HpSockets'
      BY <3>2, <3>3 DEF HpInv, HpSockets
    <3>8. HolepunchIsSafe'
      BY <2>0, <3>2, <3>3 DEF HpInv, HolepunchIsSafe, Hp!WebsocketEndsFirst, Hp!MainAt, Hp!EstablishedByBoth, Hp!SocketsStayOpen
    <3> QED
      BY <3>5, <3>6, <3>7, <3>8 DEF HpInv
  <2> QED
    BY <1>4, <2>1, <2>2 DEF Hp!LastRequest, Hp!Cancelled
<1> QED
  BY <1>1, <1>2, <1>3, <1>4

\* The cleanup after an error, chiaki_holepunch_session_fini, and the end of the sockets' use.
LEMMA HpFini ==
  ASSUME HpInv, Hp!PunchCleanup \/ Hp!StopWebsocket \/ Hp!deleteSession \/ Hp!WaitDeleted \/ Hp!JoinWebsocket \/ Hp!UseEnds
  PROVE  HpInv'
<1>s. DOMAIN m = MFields /\ DOMAIN sess = SessFields /\ DOMAIN psn = PsnFields /\ DOMAIN w = {"at", "note"}
  BY DEF HpInv, HpShapes
<1>0. {"fini", "delete", "wait_deleted", "join", "crash"} \subseteq Plain
  BY DEF Plain
<1>1. CASE Hp!PunchCleanup
  <2>1. Hp!Go("fini") /\ psn' = psn /\ w' = w /\ st' = st
    BY <1>1 DEF Hp!PunchCleanup
  <2>2. CASE sess' = [Hp!Close(sess.ipv4) EXCEPT !.offer = FALSE]
    <3>1. /\ DOMAIN sess' = SessFields /\ sess'.next = sess.next /\ sess'.ctrl = sess.ctrl /\ sess'.data = sess.data
          /\ sess'.ipv4 = 0 /\ sess'.open = sess.open \ {sess.ipv4} /\ ~sess'.offer
      BY <1>s, <2>2 DEF Hp!Close, SessFields
    <3>2. "fini" \in (Plain \cup Offered) \ Acked
      BY <1>0, StagesLie DEF StageOrder
    <3> QED
      BY <2>1, <3>1, <3>2, HpCloses
  <2>3. CASE sess' = [sess EXCEPT !.offer = FALSE]
    <3>1. /\ DOMAIN sess' = SessFields /\ sess'.next = sess.next /\ sess'.ctrl = sess.ctrl /\ sess'.data = sess.data
          /\ sess'.ipv4 = sess.ipv4 /\ sess'.open = sess.open /\ ~sess'.offer
      BY <1>s, <2>3 DEF SessFields
    <3>2. DOMAIN m' = MFields /\ m'.at = "fini" /\ m'.port = m.port /\ m'.sock = m.sock
      BY <1>s, <2>1 DEF Hp!Go, MFields
    <3>3. "fini" \notin Acked \cup Accepting \cup Offered \cup Asking \cup Selected
      BY <1>0, StagesLie DEF StageOrder
    <3> QED
      BY <1>s, <2>1, <3>1, <3>2, <3>3, HpMoves
  <2> QED
    BY <1>1, <2>2, <2>3 DEF Hp!PunchCleanup
<1>2. CASE Hp!StopWebsocket
  BY <1>0, <1>2, HpEnds DEF Hp!StopWebsocket
<1>3. CASE Hp!deleteSession
  <2>1. DOMAIN psn' = PsnFields /\ psn'.acked = psn.acked /\ psn'.sent = psn.sent /\ psn'.accepted = psn.accepted
    BY <1>s, <1>3 DEF Hp!deleteSession, Hp!Owe, PsnFields
  <2>2. DOMAIN m' = MFields /\ m'.at \in {"wait_deleted", "join"} /\ m'.port = m.port /\ m'.sock = m.sock
    BY <1>s, <1>3 DEF Hp!deleteSession, Hp!Go, MFields
  <2>3. m'.at \notin Acked \cup Accepting \cup Offered \cup Asking \cup Selected
    BY <1>0, <2>2, StagesLie DEF StageOrder
  <2> QED
    BY <1>s, <1>3, <2>1, <2>2, <2>3, HpMoves DEF Hp!deleteSession
<1>4. CASE Hp!WaitDeleted
  <2>1. /\ Hp!Go("join") /\ sess' = sess /\ psn' = psn /\ w' = w /\ st \subseteq st'
        /\ \A b \in {"ctrl_established", "data_established"} : b \in st' => b \in st
    BY <1>4 DEF Hp!WaitDeleted, Hp!NothingFound, Hp!Cancelled
  <2> QED
    BY <1>0, <2>1, HpEnds
<1>5. CASE Hp!JoinWebsocket
  <2>1. /\ w.at \in {"none", "done"} /\ (Hp!Go("freed") \/ Hp!Go("crash"))
        /\ sess' = sess /\ psn' = psn /\ w' = w /\ st' = st
    BY <1>5 DEF Hp!JoinWebsocket
  <2>2. "freed" \notin Acked \cup Accepting \cup Offered \cup Asking \cup Selected
    BY DEF Acked, Accepting, Offered, Asking, Selected
  <2>3. CASE Hp!Go("freed")
    BY <2>1, <2>2, <2>3, HpGoes
  <2> QED
    BY <1>0, <2>1, <2>3, HpEnds
<1>6. CASE Hp!UseEnds
  BY <1>0, <1>6, HpEnds DEF Hp!UseEnds
<1> QED
  BY <1>1, <1>2, <1>3, <1>4, <1>5, <1>6

\* websocket_thread_func and chiaki_holepunch_main_thread_cancel, at any time.
LEMMA HpOthers ==
  ASSUME HpInv, Hp!WsConnect \/ Hp!WsOpened \/ Hp!WsLeave \/ Hp!WsReceive \/ Hp!WsCheck \/ Hp!WsAck \/ Hp!enqueueNq
                \/ Hp!chiaki_holepunch_main_thread_cancel
  PROVE  HpInv'
<1>s. DOMAIN m = MFields /\ DOMAIN sess = SessFields /\ DOMAIN psn = PsnFields /\ DOMAIN w = {"at", "note"}
  BY DEF HpInv, HpShapes
<1>1. m' = m /\ sess' = sess
  BY DEF Hp!WsConnect, Hp!WsOpened, Hp!WsLeave, Hp!WsReceive, Hp!WsCheck, Hp!WsAck, Hp!enqueueNq, Hp!chiaki_holepunch_main_thread_cancel
<1>2. st \subseteq st' /\ \A b \in {"ctrl_established", "data_established"} : b \in st' => b \in st
  BY DEF Hp!WsConnect, Hp!WsOpened, Hp!WsLeave, Hp!WsReceive, Hp!WsCheck, Hp!WsAck, Hp!enqueueNq, Hp!chiaki_holepunch_main_thread_cancel
<1>3. DOMAIN psn' = PsnFields /\ psn.acked \subseteq psn'.acked /\ psn'.sent = psn.sent /\ psn'.accepted = psn.accepted
  BY <1>s DEF Hp!WsConnect, Hp!WsOpened, Hp!WsLeave, Hp!WsReceive, Hp!WsCheck, Hp!WsAck, Hp!enqueueNq,
     Hp!chiaki_holepunch_main_thread_cancel, PsnFields
<1>4. DOMAIN w' = {"at", "note"} /\ (w.at \in {"none", "done"} => w'.at \in {"none", "done"})
  BY <1>s DEF Hp!WsConnect, Hp!WsOpened, Hp!WsLeave, Hp!WsReceive, Hp!WsCheck, Hp!WsAck, Hp!enqueueNq, Hp!WsGo, Hp!WsAt,
     Hp!chiaki_holepunch_main_thread_cancel
<1>5. m.at = "freed" => w.at \in {"none", "done"}
  BY DEF HpInv, HolepunchIsSafe, Hp!WebsocketEndsFirst, Hp!MainAt
<1>6. m.at \in Asking => sess.offer
  BY DEF HpInv, HpSockets
<1> QED
  BY <1>s, <1>1, <1>2, <1>3, <1>4, <1>5, <1>6, HpMoves

\* Every step of hole punching keeps the invariant.
LEMMA HpStep == HpInv /\ [Hp!NextHp]_hp => HpInv'
<1> SUFFICES ASSUME HpInv, [Hp!NextHp]_hp PROVE HpInv'
  OBVIOUS
<1>1. CASE UNCHANGED hp
  BY <1>1 DEF hp, HpInv, HpShapes, HpStages, HpSockets, HolepunchIsSafe, Hp!WebsocketEndsFirst, Hp!MainAt,
     Hp!EstablishedByBoth, Hp!SocketsStayOpen
<1>2. CASE Hp!MainNext
  BY <1>2, HpCreate, HpOffer, HpStart, HpPunch, HpCheck, HpAccept, HpFini DEF Hp!MainNext
<1>3. CASE Hp!WsNext
  BY <1>3, HpOthers DEF Hp!WsNext
<1>4. CASE Hp!HpEnv
  BY <1>4, HpOthers, HpCreate, HpFini DEF Hp!HpEnv
<1> QED
  BY <1>1, <1>2, <1>3, <1>4 DEF Hp!NextHp

-----------------------------------------------------------------------------
(* Registration. *)

\* The fields of the records.
RgFields == {"at", "psn", "sock", "n", "result", "found", "events", "joined"}
RsockFields == {"next", "open", "leaked"}

\* The thread's record and its sockets'.
RgShapes ==
  /\ DOMAIN rg = RgFields /\ DOMAIN rsock = RsockFields /\ rsock.next \in Nat \ {0}
  /\ rg.result \in {"failed", "canceled", "success"}

\* Nothing has been reported before the end, and there the result; the keys are there if and
\* only if it is success.
RgReported ==
  /\ rg.at # "over" => rg.events = <<>>
  /\ rg.at \notin {"close", "over"} => rg.found = {} /\ rg.result = "failed"
  /\ rg.result = "success" <=> rg.found = Rg!Needed
  /\ rg.at = "over" => rg.events \in {<<>>, <<rg.result>>}

\* A socket that is open is the thread's, or was given up; between search and request, and
\* at the end, the thread has none.
RgSockets ==
  /\ rsock.open \subseteq rsock.leaked \cup ({rg.sock} \ {0})
  /\ rg.at \in {"off", "format", "rudp", "sleep", "connect", "over"} => rsock.open \subseteq rsock.leaked

\* The invariant of registration.
RegistInv == RgShapes /\ RgReported /\ RgSockets

\* It holds before the thread is started, ...
LEMMA RegistInit == Rg!InitRegist => RegistInv
  BY DEF Rg!InitRegist, RegistInv, RgShapes, RgReported, RgSockets, RgFields, RsockFields, Rg!Needed

\* ... implies what registration promises, ...
LEMMA RegistFollows == RegistInv => RegistReports
<1> SUFFICES ASSUME RegistInv, rg.at = "over", rg.events # <<>>
             PROVE  /\ rg.events \in {<<"failed">>, <<"canceled">>, <<"success">>}
                    /\ rg.events = <<"success">> <=> rg.found = Rg!Needed
                    /\ rsock.open \subseteq rsock.leaked
  BY DEF RegistReports, Rg!RegistReports
<1>1. rg.events = <<rg.result>> /\ rg.result \in {"failed", "canceled", "success"}
  BY DEF RegistInv, RgReported, RgShapes
<1>2. <<rg.result>> = <<"success">> <=> rg.result = "success"
  OBVIOUS
<1> QED
  BY <1>1, <1>2 DEF RegistInv, RgReported, RgSockets

\* A step of the thread that leaves the sockets alone and neither reports nor parses.
LEMMA RgMoves ==
  ASSUME RegistInv, rg.at # "over", DOMAIN rg' = RgFields, rsock' = rsock,
         rg'.found = rg.found, rg'.events = rg.events, rg'.sock = rg.sock,
         \/ rg'.at \notin {"close", "over"} /\ rg.at # "close" /\ rg'.result = rg.result
         \/ rg'.at = "close" /\ rg.at # "close" /\ rg'.result \in {"failed", "canceled"},
         rg'.at \in {"off", "format", "rudp", "sleep", "connect", "over"} => rg.at \in {"off", "format", "rudp", "sleep", "connect"}
  PROVE  RegistInv'
<1>1. RgShapes'
  BY DEF RegistInv, RgShapes
<1>2. RgReported'
  BY DEF RegistInv, RgReported, Rg!Needed
<1>3. RgSockets'
  BY DEF RegistInv, RgSockets
<1> QED
  BY <1>1, <1>2, <1>3 DEF RegistInv

\* The thread fails before it has got an answer, and its socket is closed.
LEMMA RgFailsClosing ==
  ASSUME RegistInv, rg.at \notin {"close", "over"}, NEW r \in {"failed", "canceled"}, Rg!RgFail(r), Rg!CloseRg
  PROVE  RegistInv'
<1>1. /\ DOMAIN rg' = RgFields /\ rg'.at = "close" /\ rg'.result = r /\ rg'.found = rg.found
      /\ rg'.events = rg.events /\ rg'.sock = rg.sock
  BY DEF Rg!RgFail, RegistInv, RgShapes, RgFields
<1>2. DOMAIN rsock' = RsockFields /\ rsock'.next = rsock.next /\ rsock'.leaked = rsock.leaked /\ rsock'.open = rsock.open \ {rg.sock}
  BY DEF Rg!CloseRg, RegistInv, RgShapes, RsockFields
<1>3. RgShapes'
  BY <1>1, <1>2 DEF RegistInv, RgShapes
<1>4. RgReported'
  BY <1>1 DEF RegistInv, RgReported, Rg!Needed
<1>5. RgSockets'
  BY <1>1, <1>2 DEF RegistInv, RgSockets
<1> QED
  BY <1>3, <1>4, <1>5 DEF RegistInv

\* ... and every step of the thread keeps it.
LEMMA RegistStep == RegistInv /\ [Rg!NextRegist]_regist => RegistInv'
<1> SUFFICES ASSUME RegistInv, [Rg!NextRegist]_regist PROVE RegistInv'
  OBVIOUS
<1>s. DOMAIN rg = RgFields /\ DOMAIN rsock = RsockFields /\ rsock.next \in Nat \ {0}
  BY DEF RegistInv, RgShapes
<1>f. ASSUME NEW r \in {"failed", "canceled"}, Rg!RgFail(r), rsock' = rsock, rg.at \notin {"close", "over"} PROVE RegistInv'
  BY <1>s, <1>f, RgMoves DEF Rg!RgFail, RgFields
<1>1. CASE UNCHANGED regist
  BY <1>1 DEF regist, RegistInv, RgShapes, RgReported, RgSockets
<1>2. CASE Rg!chiaki_regist_start
  <2>1. CASE \E psn0 \in BOOLEAN : rg' = [rg EXCEPT !.at = "format", !.psn = psn0]
    BY <1>s, <1>2, <2>1, RgMoves DEF Rg!chiaki_regist_start, RgFields
  <2>2. CASE rg' = [rg EXCEPT !.at = "over", !.joined = TRUE]
    <3>1. /\ DOMAIN rg' = RgFields /\ rg'.at = "over" /\ rg'.result = rg.result /\ rg'.found = rg.found
          /\ rg'.events = rg.events /\ rg'.sock = rg.sock /\ rsock' = rsock /\ rg.at = "off"
      BY <1>s, <1>2, <2>2 DEF Rg!chiaki_regist_start, RgFields
    <3> QED
      BY <3>1 DEF RegistInv, RgShapes, RgReported, RgSockets
  <2> QED
    BY <1>2, <2>1, <2>2 DEF Rg!chiaki_regist_start
<1>3. CASE Rg!chiaki_regist_stop
  BY <1>3 DEF Rg!chiaki_regist_stop, RegistInv, RgShapes, RgReported, RgSockets
<1>4. CASE Rg!Join
  <2>1. /\ DOMAIN rg' = RgFields /\ rg'.at = rg.at /\ rg'.result = rg.result /\ rg'.found = rg.found
        /\ rg'.events = rg.events /\ rg'.sock = rg.sock /\ rsock' = rsock
    BY <1>s, <1>4 DEF Rg!Join, RgFields
  <2> QED
    BY <2>1 DEF RegistInv, RgShapes, RgReported, RgSockets
<1>5. CASE Rg!chiaki_regist_request_payload_format
  <2>1. CASE Rg!RgFail("failed")
    BY <1>f, <1>5, <2>1 DEF Rg!chiaki_regist_request_payload_format
  <2>2. CASE Rg!RgGo("rudp") \/ Rg!RgGo("search_connect")
    BY <1>s, <1>5, <2>2, RgMoves DEF Rg!chiaki_regist_request_payload_format, Rg!RgGo, RgFields
  <2> QED
    BY <1>5, <2>1, <2>2 DEF Rg!chiaki_regist_request_payload_format
<1>6. CASE Rg!RudpSession
  <2>1. CASE Rg!RgFail("failed")
    BY <1>f, <1>6, <2>1 DEF Rg!RudpSession
  <2>2. CASE Rg!RgGo("rudp_response")
    BY <1>s, <1>6, <2>2, RgMoves DEF Rg!RudpSession, Rg!RgGo, RgFields
  <2> QED
    BY <1>6, <2>1, <2>2 DEF Rg!RudpSession
<1>7. CASE Rg!regist_search_connect
  <2>1. /\ DOMAIN rg' = RgFields /\ rg'.at \in {"search", "search_connect"} /\ rg'.result = rg.result /\ rg'.found = rg.found
        /\ rg'.events = rg.events /\ rg.at = "search_connect"
    BY <1>s, <1>7 DEF Rg!regist_search_connect, RgFields
  <2>2. \/ rg'.sock = rg.sock /\ rsock' = rsock
        \/ rg'.sock = rsock.next /\ rsock' = Rg!Overwritten(Rg!NewSock)
        \/ rg'.sock = 0 /\ rsock' = Rg!Overwritten(rsock)
    BY <1>s, <1>7 DEF Rg!regist_search_connect, RgFields
  <2>3. /\ DOMAIN rsock' = RsockFields /\ rsock'.next \in Nat \ {0}
        /\ rsock'.open \subseteq rsock'.leaked \cup ({rg'.sock} \ {0})
    <3>1. CASE rg'.sock = rg.sock /\ rsock' = rsock
      BY <1>s, <3>1 DEF RegistInv, RgSockets
    <3>2. CASE rg'.sock = rsock.next /\ rsock' = Rg!Overwritten(Rg!NewSock)
      <4>1. /\ DOMAIN rsock' = RsockFields /\ rsock'.next = rsock.next + 1 /\ rsock'.open = rsock.open \cup {rsock.next}
            /\ rsock'.leaked = rsock.leaked \cup ({rg.sock} \ {0})
        BY <1>s, <3>2 DEF Rg!Overwritten, Rg!NewSock, RsockFields
      <4> QED
        BY <1>s, <3>2, <4>1 DEF RegistInv, RgSockets
    <3>3. CASE rg'.sock = 0 /\ rsock' = Rg!Overwritten(rsock)
      <4>1. /\ DOMAIN rsock' = RsockFields /\ rsock'.next = rsock.next /\ rsock'.open = rsock.open
            /\ rsock'.leaked = rsock.leaked \cup ({rg.sock} \ {0})
        BY <1>s, <3>3 DEF Rg!Overwritten, RsockFields
      <4> QED
        BY <1>s, <3>3, <4>1 DEF RegistInv, RgSockets
    <3> QED
      BY <2>2, <3>1, <3>2, <3>3
  <2>4. RgShapes' /\ RgReported'
    BY <2>1, <2>3 DEF RegistInv, RgShapes, RgReported
  <2>5. RgSockets'
    BY <2>1, <2>3 DEF RgSockets
  <2> QED
    BY <2>4, <2>5 DEF RegistInv
<1>8. CASE Rg!AllAddressesFailed
  BY <1>8, RgFailsClosing DEF Rg!AllAddressesFailed
<1>9. CASE Rg!regist_search
  <2>1. CASE (Rg!RgFail("failed") \/ Rg!RgFail("canceled")) /\ Rg!CloseRg
    BY <1>9, <2>1, RgFailsClosing DEF Rg!regist_search
  <2>2. CASE rg' = [rg EXCEPT !.n = @ + 1] /\ rsock' = rsock
    BY <1>s, <1>9, <2>2, RgMoves DEF Rg!regist_search, RgFields
  <2>3. CASE rg' = [rg EXCEPT !.at = "sleep", !.sock = 0] /\ Rg!CloseRg
    <3>1. /\ DOMAIN rg' = RgFields /\ rg'.at = "sleep" /\ rg'.result = rg.result /\ rg'.found = rg.found
          /\ rg'.events = rg.events /\ rg'.sock = 0 /\ rg.at = "search"
      BY <1>s, <1>9, <2>3 DEF Rg!regist_search, RgFields
    <3>2. DOMAIN rsock' = RsockFields /\ rsock'.next = rsock.next /\ rsock'.leaked = rsock.leaked /\ rsock'.open = rsock.open \ {rg.sock}
      BY <1>s, <2>3 DEF Rg!CloseRg, RsockFields
    <3> QED
      BY <3>1, <3>2 DEF RegistInv, RgShapes, RgReported, RgSockets
  <2> QED
    BY <1>9, <2>1, <2>2, <2>3 DEF Rg!regist_search
<1>10. CASE Rg!SleepBeforeRequest
  <2>1. CASE Rg!RgFail("canceled")
    BY <1>f, <1>10, <2>1 DEF Rg!SleepBeforeRequest
  <2>2. CASE Rg!RgGo("connect")
    BY <1>s, <1>10, <2>2, RgMoves DEF Rg!SleepBeforeRequest, Rg!RgGo, RgFields
  <2> QED
    BY <1>10, <2>1, <2>2 DEF Rg!SleepBeforeRequest
<1>11. CASE Rg!regist_request_connect
  <2>1. CASE Rg!RgFail("failed") /\ rsock' = rsock
    BY <1>f, <1>11, <2>1 DEF Rg!regist_request_connect
  <2>2. ASSUME rsock' = Rg!NewSock, NEW p \in {"response", "close"}, rg' = [rg EXCEPT !.at = p, !.sock = rsock.next] PROVE RegistInv'
    <3>1. /\ DOMAIN rg' = RgFields /\ rg'.at = p /\ rg'.result = rg.result /\ rg'.found = rg.found
          /\ rg'.events = rg.events /\ rg'.sock = rsock.next /\ rg.at = "connect"
      BY <1>s, <1>11, <2>2 DEF Rg!regist_request_connect, RgFields
    <3>2. /\ DOMAIN rsock' = RsockFields /\ rsock'.next = rsock.next + 1 /\ rsock'.leaked = rsock.leaked
          /\ rsock'.open = rsock.open \cup {rsock.next}
      BY <1>s, <2>2 DEF Rg!NewSock, RsockFields
    <3>3. RgShapes' /\ RgReported'
      BY <3>1, <3>2 DEF RegistInv, RgShapes, RgReported
    <3>4. RgSockets'
      BY <1>s, <3>1, <3>2 DEF RegistInv, RgSockets
    <3> QED
      BY <3>3, <3>4 DEF RegistInv
  <2> QED
    BY <1>11, <2>1, <2>2 DEF Rg!regist_request_connect
<1>12. CASE Rg!regist_recv_response
  <2>1. CASE Rg!RgFail("failed") \/ Rg!RgFail("canceled")
    BY <1>f, <1>12, <2>1 DEF Rg!regist_recv_response
  <2>2. CASE Rg!RgGo("undefined") \/ Rg!RgGo("payload")
    BY <1>s, <1>12, <2>2, RgMoves DEF Rg!regist_recv_response, Rg!RgGo, RgFields
  <2> QED
    BY <1>12, <2>1, <2>2 DEF Rg!regist_recv_response
<1>13. CASE Rg!UndefinedHeaderSize
  <2>1. CASE Rg!RgFail("failed")
    BY <1>f, <1>13, <2>1 DEF Rg!UndefinedHeaderSize
  <2>2. CASE Rg!RgGo("crash") \/ Rg!RgGo("payload")
    BY <1>s, <1>13, <2>2, RgMoves DEF Rg!UndefinedHeaderSize, Rg!RgGo, RgFields
  <2> QED
    BY <1>13, <2>1, <2>2 DEF Rg!UndefinedHeaderSize
<1>14. CASE Rg!regist_parse_response_payload
  <2>1. PICK keys \in SUBSET Rg!Needed :
          rg' = [rg EXCEPT !.found = keys, !.at = "close", !.result = IF keys = Rg!Needed THEN "success" ELSE "failed"]
    BY <1>14 DEF Rg!regist_parse_response_payload
  <2>2. /\ DOMAIN rg' = RgFields /\ rg'.at = "close" /\ rg'.found = keys /\ rg'.result = (IF keys = Rg!Needed THEN "success" ELSE "failed")
        /\ rg'.events = rg.events /\ rg'.sock = rg.sock /\ rsock' = rsock /\ rg.at = "payload"
    BY <1>s, <1>14, <2>1 DEF Rg!regist_parse_response_payload, RgFields
  <2> QED
    BY <2>2 DEF RegistInv, RgShapes, RgReported, RgSockets
<1>15. CASE Rg!RgReport
  <2>1. /\ DOMAIN rg' = RgFields /\ rg'.at = "over" /\ rg'.result = rg.result /\ rg'.found = rg.found
        /\ rg'.events = Append(rg.events, rg.result) /\ rg'.sock = rg.sock /\ rg.at = "close"
    BY <1>s, <1>15 DEF Rg!RgReport, RgFields
  <2>2. rg'.events = <<rg.result>>
    <3>1. rg.events = <<>>
      BY <2>1 DEF RegistInv, RgReported
    <3> QED
      BY <2>1, <3>1
  <2>3. DOMAIN rsock' = RsockFields /\ rsock'.next = rsock.next /\ rsock'.leaked = rsock.leaked /\ rsock'.open = rsock.open \ {rg.sock}
    BY <1>s, <1>15 DEF Rg!RgReport, Rg!CloseRg, RsockFields
  <2>4. RgShapes' /\ RgSockets'
    BY <2>1, <2>3 DEF RegistInv, RgShapes, RgSockets
  <2>5. RgReported'
    BY <2>1, <2>2 DEF RegistInv, RgReported
  <2> QED
    BY <2>4, <2>5 DEF RegistInv
<1> QED
  BY <1>1, <1>2, <1>3, <1>4, <1>5, <1>6, <1>7, <1>8, <1>9, <1>10, <1>11, <1>12, <1>13, <1>14, <1>15
  DEF Rg!NextRegist, Rg!RegistThread

-----------------------------------------------------------------------------
(* RUDP.  A number's place is how many counters were taken before it. *)

\* The fields of the records.
PkFields == {"arr", "count", "stop"}
GotFields == {"wire", "recv", "sent", "n", "pushed", "dropped"}
\* The counters taken before x, and the numbers of the first n of them.
Place(x) == IF x = 2 * RudpHalf - 1 THEN 0 ELSE x + 1
TakenBefore(n) == {x \in Ru!SeqNums : Place(x) < n}

\* The counter counts: as many were taken as there are numbers before it, each once.
Counting ==
  /\ DOMAIN got = GotFields /\ got.n \in 0 .. MaxCtrl
  /\ counter \in Ru!SeqNums /\ Place(counter) = got.n
  /\ got.sent \subseteq TakenBefore(got.n) /\ IsFiniteSet(got.sent) /\ Cardinality(got.sent) = got.n
  /\ got.wire \subseteq TakenBefore(got.n) /\ got.recv \subseteq TakenBefore(got.n)

\* A message is kept under a number that comes after its own and was taken no later than now.
KeptUnder(no, ack) == no \in TakenBefore(got.n) /\ ack \in Ru!SeqNums /\ Place(no) < Place(ack) /\ Place(ack) <= got.n

\* The threads that send: a number was taken, then the one to keep the message under read.
RuSenders ==
  /\ DOMAIN snd = RudpThreads
  /\ \A t \in RudpThreads :
       /\ DOMAIN snd[t] = {"at", "no", "ack"}
       /\ snd[t].at = "ack" => snd[t].no \in TakenBefore(got.n)
       /\ snd[t].at \in {"raw", "push"} => KeptUnder(snd[t].no, snd[t].ack)

\* The packets of the buffer are kept that way, and its thread gives up only after it said so.
RuBuffer ==
  /\ DOMAIN pk = PkFields /\ pk.count \in 0 .. RUDP_SEND_BUFFER_SIZE
  /\ DOMAIN pk.arr = 1 .. RUDP_SEND_BUFFER_SIZE
  /\ \A k \in 1 .. RUDP_SEND_BUFFER_SIZE : DOMAIN pk.arr[k] = {"ack", "no", "tries"}
  /\ \A k \in Ru!Live : KeptUnder(pk.arr[k].no, pk.arr[k].ack)
  /\ DOMAIN rs = {"at", "timed", "i"} /\ rs.i \in Nat \ {0}
  /\ rs.at = "giveup" => got.dropped

\* The invariant of RUDP.
RuInv == Counting /\ RuSenders /\ RuBuffer /\ "at" \in DOMAIN ru /\ RudpKeptUntilReceived

\* Cardinality is the same operator inside and outside of the instance.
LEMMA SameCardinality == \A S : Ru!Cardinality(S) = Cardinality(S)
  BY DEF Ru!Cardinality, Cardinality, Ru!IsFiniteSet, IsFiniteSet

\* The place is the distance from the first counter, and tells numbers apart.
LEMMA PlaceFacts ==
  ASSUME NEW x \in Ru!SeqNums
  PROVE  /\ Ru!Ahead(Ru!FirstCounter, x) = Place(x)
         /\ Place(x) \in Nat /\ x \in Nat
         /\ \A y \in Ru!SeqNums : Place(x) = Place(y) => x = y
<1>1. RudpHalf \in Nat /\ RudpHalf > 0 /\ Ru!SeqNums = 0 .. 2 * RudpHalf - 1 /\ Ru!SeqMod = 2 * RudpHalf
  BY RudpAssumption DEF Ru!SeqNums, Ru!SeqMod
<1>2. CASE x = 2 * RudpHalf - 1
  BY <1>1, <1>2 DEF Ru!Ahead, Ru!FirstCounter, Place
<1>3. CASE x # 2 * RudpHalf - 1
  <2> DEFINE d == x - (2 * RudpHalf - 1)
             md == 2 * RudpHalf
  <2>1. md \in Nat \ {0} /\ d \in -md .. -1
    BY <1>1, <1>3
  <2> HIDE DEF d, md
  <2>2. (d % md) = d + md
    BY <2>1
  <2>3. Ru!Ahead(Ru!FirstCounter, x) = x + 1
    BY <1>1, <2>2 DEF Ru!Ahead, Ru!FirstCounter, d, md
  <2> QED
    BY <1>1, <1>3, <2>3 DEF Place
<1> QED
  BY <1>2, <1>3

\* The comparison of two numbers whose places are less than half the counters apart.
LEMMA PlaceOrder ==
  ASSUME NEW x \in Ru!SeqNums, NEW y \in Ru!SeqNums, Place(x) <= MaxCtrl, Place(y) <= MaxCtrl
  PROVE  Ru!lt(x, y) <=> Place(x) < Place(y)
  BY RudpAssumption DEF Ru!SeqNums, Ru!SeqMod, Ru!lt, Place

\* The next number's place.
LEMMA PlaceNext ==
  ASSUME NEW x \in Ru!SeqNums, Place(x) < MaxCtrl
  PROVE  /\ Ru!add(x, 1) \in Ru!SeqNums /\ Place(Ru!add(x, 1)) = Place(x) + 1
         /\ (IF x >= 2 * RudpHalf - 1 THEN 0 ELSE x + 1) = Ru!add(x, 1)
<1>1. RudpHalf \in Nat /\ RudpHalf > 0 /\ MaxCtrl \in Nat /\ MaxCtrl < RudpHalf /\ x \in 0 .. 2 * RudpHalf - 1 /\ Ru!SeqMod = 2 * RudpHalf
  BY RudpAssumption DEF Ru!SeqNums, Ru!SeqMod
<1>2. Ru!add(x, 1) = IF x >= 2 * RudpHalf - 1 THEN 0 ELSE x + 1
  <2> DEFINE md == 2 * RudpHalf
  <2>1. md \in Nat \ {0} /\ x \in 0 .. md - 1
    BY <1>1
  <2> HIDE DEF md
  <2>2. CASE x = md - 1
    BY <2>1, <2>2, <1>1 DEF Ru!add, md
  <2>3. CASE x # md - 1
    <3>1. x + 1 \in 0 .. md - 1
      BY <2>1, <2>3
    <3>2. ((x + 1) % md) = x + 1
      BY <2>1, <3>1
    <3> QED
      BY <1>1, <2>1, <2>3, <3>2 DEF Ru!add, md
  <2> QED
    BY <2>2, <2>3
<1> QED
  BY <1>1, <1>2 DEF Place, Ru!SeqNums

\* The invariant holds before an instance is made.
LEMMA RuInit == Ru!InitRudp => RuInv
<1> SUFFICES ASSUME Ru!InitRudp PROVE RuInv
  OBVIOUS
<1>1. Counting
  <2>1. got = [wire |-> {}, recv |-> {}, sent |-> {}, n |-> 0, pushed |-> {}, dropped |-> FALSE] /\ counter = 2 * RudpHalf - 1
    BY DEF Ru!InitRudp, Ru!FirstCounter
  <2>2. IsFiniteSet({}) /\ Cardinality({}) = 0
    BY FS_EmptySet
  <2> QED
    BY <2>1, <2>2, RudpAssumption DEF Counting, GotFields, Place, TakenBefore, Ru!SeqNums, Ru!SeqMod
<1>2. RuSenders
  BY DEF Ru!InitRudp, RuSenders
<1>3. RuBuffer
  BY RudpAssumption DEF Ru!InitRudp, RuBuffer, PkFields, Ru!NoPk, Ru!Live
<1>4. RudpKeptUntilReceived
  <2>1. got.pushed = {}
    BY DEF Ru!InitRudp
  <2>2. Cardinality(got.sent) = got.n
    BY <1>1 DEF Counting
  <2> QED
    BY <2>1, <2>2, SameCardinality DEF RudpKeptUntilReceived, Ru!RudpKeptUntilReceived
<1> QED
  BY <1>1, <1>2, <1>3, <1>4 DEF RuInv, Ru!InitRudp

\* A step that leaves the messages and the packets alone.
LEMMA RuMoves ==
  ASSUME RuInv, counter' = counter, got' = got, snd' = snd,
         DOMAIN pk' = PkFields, pk'.arr = pk.arr, pk'.count = pk.count,
         "at" \in DOMAIN ru', ru.at = "freed" => ru'.at = "freed",
         DOMAIN rs' = {"at", "timed", "i"}, rs'.i \in Nat \ {0}, rs'.at = "giveup" => rs.at = "giveup"
  PROVE  RuInv'
<1>1. Counting'
  BY DEF RuInv, Counting
<1>2. RuSenders'
  BY DEF RuInv, RuSenders, KeptUnder
<1>3. RuBuffer'
  BY DEF RuInv, RuBuffer, KeptUnder, Ru!Live
<1>4. RudpKeptUntilReceived'
  BY DEF RuInv, RudpKeptUntilReceived, Ru!RudpKeptUntilReceived, Ru!Live
<1> QED
  BY <1>1, <1>2, <1>3, <1>4 DEF RuInv

\* A step that leaves the instance, the counters taken and the packets alone.
LEMMA RuHistory ==
  ASSUME RuInv, counter' = counter, pk' = pk, rs' = rs, ru' = ru,
         DOMAIN got' = GotFields, got'.n = got.n, got'.sent = got.sent, got'.pushed = got.pushed,
         got.dropped => got'.dropped, got'.dropped => got.dropped,
         got'.wire \subseteq TakenBefore(got.n), got'.recv \subseteq TakenBefore(got.n), got.recv \subseteq got'.recv
  PROVE  Counting' /\ RuBuffer' /\ "at" \in DOMAIN ru' /\ RudpKeptUntilReceived'
<1>1. Counting'
  BY DEF RuInv, Counting
<1>2. RuBuffer'
  BY DEF RuInv, RuBuffer, KeptUnder, Ru!Live
<1>3. RudpKeptUntilReceived'
  BY DEF RuInv, RudpKeptUntilReceived, Ru!RudpKeptUntilReceived, Ru!Live
<1> QED
  BY <1>1, <1>2, <1>3 DEF RuInv

\* What chiaki_rudp_send_buffer_ack does to the packets: those kept are there, and no others.
LEMMA RuAcks ==
  ASSUME RuInv, NEW a, Ru!chiaki_rudp_send_buffer_ack(a)
  PROVE  /\ DOMAIN pk' = PkFields /\ pk'.count \in 0 .. pk.count /\ DOMAIN pk'.arr = 1 .. RUDP_SEND_BUFFER_SIZE
         /\ \A k \in 1 .. RUDP_SEND_BUFFER_SIZE : DOMAIN pk'.arr[k] = {"ack", "no", "tries"}
         /\ \A k \in Ru!Live' : \E j \in Ru!Live : pk'.arr[k] = pk.arr[j]
         /\ \A j \in Ru!Kept(a) : \E k \in Ru!Live' : pk'.arr[k] = pk.arr[j]
<1>1. PICK n \in 0 .. pk.count : \E from \in [1 .. n -> Ru!Kept(a)] :
    /\ \A j, k \in 1 .. n : j < k => from[j] < from[k]
    /\ \A k \in Ru!Kept(a) : \E j \in 1 .. n : from[j] = k
    /\ pk' = [pk EXCEPT !.count = n,
                        !.arr = [k \in 1 .. RUDP_SEND_BUFFER_SIZE |-> IF k <= n THEN pk.arr[from[k]]
                                                                    ELSE IF rs'.at = "giveup" THEN pk.arr[k] ELSE Ru!NoPk]]
  BY DEF Ru!chiaki_rudp_send_buffer_ack
<1>2. PICK from \in [1 .. n -> Ru!Kept(a)] :
    /\ \A k \in Ru!Kept(a) : \E j \in 1 .. n : from[j] = k
    /\ pk' = [pk EXCEPT !.count = n,
                        !.arr = [k \in 1 .. RUDP_SEND_BUFFER_SIZE |-> IF k <= n THEN pk.arr[from[k]]
                                                                    ELSE IF rs'.at = "giveup" THEN pk.arr[k] ELSE Ru!NoPk]]
  BY <1>1
<1>3. DOMAIN pk = PkFields /\ pk.count \in 0 .. RUDP_SEND_BUFFER_SIZE /\ \A k \in 1 .. RUDP_SEND_BUFFER_SIZE : DOMAIN pk.arr[k] = {"ack", "no", "tries"}
  BY DEF RuInv, RuBuffer
<1>4. /\ DOMAIN pk' = PkFields /\ pk'.count = n
      /\ pk'.arr = [k \in 1 .. RUDP_SEND_BUFFER_SIZE |-> IF k <= n THEN pk.arr[from[k]]
                                                         ELSE IF rs'.at = "giveup" THEN pk.arr[k] ELSE Ru!NoPk]
  BY <1>2, <1>3 DEF PkFields
<1>5. RUDP_SEND_BUFFER_SIZE \in Nat /\ \A k \in 1 .. n : from[k] \in Ru!Kept(a) /\ from[k] \in Ru!Live /\ k \in 1 .. RUDP_SEND_BUFFER_SIZE
  BY <1>2, <1>3, RudpAssumption DEF Ru!Kept, Ru!Live
<1>6. \A k \in 1 .. n : pk'.arr[k] = pk.arr[from[k]]
  BY <1>4, <1>5
<1>7. \A k \in 1 .. RUDP_SEND_BUFFER_SIZE : DOMAIN pk'.arr[k] = {"ack", "no", "tries"}
  <2> SUFFICES ASSUME NEW k \in 1 .. RUDP_SEND_BUFFER_SIZE PROVE DOMAIN pk'.arr[k] = {"ack", "no", "tries"}
    OBVIOUS
  <2>1. CASE k <= n
    <3>1. from[k] \in 1 .. RUDP_SEND_BUFFER_SIZE /\ pk'.arr[k] = pk.arr[from[k]]
      BY <1>3, <1>5, <1>6, <2>1 DEF Ru!Live
    <3> QED
      BY <1>3, <3>1
  <2>2. CASE ~(k <= n)
    BY <1>3, <1>4, <2>2 DEF Ru!NoPk
  <2> QED
    BY <2>1, <2>2
<1>8. Ru!Live' = 1 .. n
  BY <1>4 DEF Ru!Live
<1>9. DOMAIN pk'.arr = 1 .. RUDP_SEND_BUFFER_SIZE /\ pk'.count \in 0 .. pk.count
  BY <1>4
<1>10. \A j \in Ru!Kept(a) : \E k \in Ru!Live' : pk'.arr[k] = pk.arr[j]
  BY <1>2, <1>6, <1>8
<1>11. \A k \in Ru!Live' : \E j \in Ru!Live : pk'.arr[k] = pk.arr[j]
  BY <1>5, <1>6, <1>8
<1> QED
  BY <1>4, <1>7, <1>9, <1>10, <1>11

\* Acknowledging leaves the invariant but for the messages that are still kept.
LEMMA RuAcked ==
  ASSUME RuInv, NEW a, Ru!chiaki_rudp_send_buffer_ack(a),
         counter' = counter, snd' = snd, ru' = ru,
         DOMAIN got' = GotFields, got'.n = got.n, got'.sent = got.sent, got'.wire = got.wire, got'.recv = got.recv,
         DOMAIN rs' = {"at", "timed", "i"}, rs'.i \in Nat \ {0}, rs'.at = "giveup" => got'.dropped,
         got'.dropped \/ (got' = got /\ \A k \in Ru!Live \ Ru!Kept(a) : pk.arr[k].no \in got.recv)
  PROVE  RuInv'
<1>1. /\ DOMAIN pk' = PkFields /\ pk'.count \in 0 .. pk.count /\ DOMAIN pk'.arr = 1 .. RUDP_SEND_BUFFER_SIZE
      /\ \A k \in 1 .. RUDP_SEND_BUFFER_SIZE : DOMAIN pk'.arr[k] = {"ack", "no", "tries"}
      /\ \A k \in Ru!Live' : \E j \in Ru!Live : pk'.arr[k] = pk.arr[j]
      /\ \A j \in Ru!Kept(a) : \E k \in Ru!Live' : pk'.arr[k] = pk.arr[j]
  BY RuAcks
<1>2. Counting'
  BY DEF RuInv, Counting
<1>3. RuSenders'
  BY DEF RuInv, RuSenders, KeptUnder
<1>4. RuBuffer'
  <2>1. pk'.count \in 0 .. RUDP_SEND_BUFFER_SIZE
    BY <1>1, RudpAssumption DEF RuInv, RuBuffer
  <2>2. \A k \in Ru!Live' : KeptUnder(pk.arr[k].no, pk.arr[k].ack)'
    BY <1>1 DEF RuInv, RuBuffer, KeptUnder
  <2> QED
    BY <1>1, <2>1, <2>2 DEF RuBuffer
<1>5. RudpKeptUntilReceived'
  <2>1. Cardinality(got'.sent) = got'.n
    BY <1>2 DEF Counting
  <2>2. ASSUME ru.at # "freed", ~got'.dropped, NEW n \in got'.pushed PROVE n \in got'.recv \/ \E k \in Ru!Live' : pk'.arr[k].no = n
    <3>1. got' = got /\ \A k \in Ru!Live \ Ru!Kept(a) : pk.arr[k].no \in got.recv
      BY <2>2
    <3>2. n \in got.recv \/ \E k \in Ru!Live : pk.arr[k].no = n
      BY <2>2, <3>1 DEF RuInv, RudpKeptUntilReceived, Ru!RudpKeptUntilReceived
    <3> QED
      BY <1>1, <3>1, <3>2
  <2> QED
    BY <2>1, <2>2, SameCardinality DEF RudpKeptUntilReceived, Ru!RudpKeptUntilReceived
<1> QED
  BY <1>2, <1>3, <1>4, <1>5 DEF RuInv

\* A thread takes the counter: one more place is taken, nobody else's changes.
LEMMA RuTake ==
  ASSUME RuInv, NEW t \in RudpThreads, Ru!TakeCounter(t)
  PROVE  RuInv'
<1> DEFINE c == counter
<1>1. /\ DOMAIN got = GotFields /\ got.n \in 0 .. MaxCtrl /\ c \in Ru!SeqNums /\ Place(c) = got.n
      /\ IsFiniteSet(got.sent) /\ Cardinality(got.sent) = got.n /\ got.sent \subseteq TakenBefore(got.n)
      /\ got.wire \subseteq TakenBefore(got.n) /\ got.recv \subseteq TakenBefore(got.n)
  BY DEF RuInv, Counting
<1>2. /\ got' = [got EXCEPT !.sent = @ \cup {c}, !.n = @ + 1] /\ got.n < MaxCtrl /\ ru.at = "run"
      /\ counter' = (IF counter >= 2 * RudpHalf - 1 THEN 0 ELSE counter + 1)
      /\ snd' = [snd EXCEPT ![t] = [at |-> "ack", no |-> counter, ack |-> 0]]
      /\ ru' = ru /\ pk' = pk /\ rs' = rs
  BY DEF Ru!TakeCounter, Ru!get_then_increase_counter
<1>3. /\ DOMAIN got' = GotFields /\ got'.n = got.n + 1 /\ got'.sent = got.sent \cup {c}
      /\ got'.wire = got.wire /\ got'.recv = got.recv /\ got'.pushed = got.pushed /\ got'.dropped = got.dropped
  BY <1>1, <1>2 DEF GotFields
<1>4. counter' \in Ru!SeqNums /\ Place(counter') = got'.n /\ got'.n \in 0 .. MaxCtrl
  <2>1. Place(c) < MaxCtrl
    BY <1>1, <1>2
  <2> QED
    BY <1>1, <1>2, <1>3, <2>1, PlaceNext, RudpAssumption
<1>5. TakenBefore(got.n) \subseteq TakenBefore(got'.n) /\ c \in TakenBefore(got'.n) /\ c \notin TakenBefore(got.n)
  <2>1. \A x \in Ru!SeqNums : Place(x) \in Nat
    BY PlaceFacts
  <2> QED
    BY <1>1, <1>3, <2>1 DEF TakenBefore
<1>6. IsFiniteSet(got'.sent) /\ Cardinality(got'.sent) = got'.n
  BY <1>1, <1>3, <1>5, FS_AddElement
<1>7. Counting'
  BY <1>1, <1>3, <1>4, <1>5, <1>6 DEF Counting
<1>8. \A no, ack : KeptUnder(no, ack) => KeptUnder(no, ack)'
  <2>1. \A x \in Ru!SeqNums : Place(x) \in Nat
    BY PlaceFacts
  <2> QED
    BY <1>1, <1>3, <1>5, <2>1 DEF KeptUnder
<1>9. RuSenders'
  <2>1. DOMAIN snd = RudpThreads /\ DOMAIN snd' = RudpThreads
    BY <1>2 DEF RuInv, RuSenders
  <2>2. ASSUME NEW u \in RudpThreads
        PROVE  /\ DOMAIN snd'[u] = {"at", "no", "ack"}
               /\ snd'[u].at = "ack" => snd'[u].no \in TakenBefore(got'.n)
               /\ snd'[u].at \in {"raw", "push"} => KeptUnder(snd[u].no, snd[u].ack)'
    <3>1. CASE u = t
      BY <1>2, <1>5, <2>1, <3>1
    <3>2. CASE u # t
      <4>1. snd'[u] = snd[u]
        BY <1>2, <2>1, <3>2
      <4> QED
        BY <4>1, <1>5, <1>8 DEF RuInv, RuSenders, KeptUnder
    <3> QED
      BY <3>1, <3>2
  <2> QED
    BY <2>1, <2>2 DEF RuSenders
<1>10. RuBuffer'
  <2>1. Ru!Live' = Ru!Live
    BY <1>2 DEF Ru!Live
  <2>2. \A k \in Ru!Live' : KeptUnder(pk.arr[k].no, pk.arr[k].ack)'
    BY <1>2, <1>8, <2>1 DEF RuInv, RuBuffer, KeptUnder
  <2> QED
    BY <1>2, <1>3, <2>2 DEF RuInv, RuBuffer
<1>11. RudpKeptUntilReceived'
  BY <1>2, <1>3, <1>6, SameCardinality DEF RuInv, RudpKeptUntilReceived, Ru!RudpKeptUntilReceived, Ru!Live
<1> QED
  BY <1>2, <1>7, <1>9, <1>10, <1>11 DEF RuInv

\* A thread goes on: the number its message is kept under is read, the message sent.
LEMMA RuSends ==
  ASSUME RuInv, NEW t \in RudpThreads, Ru!ReadAckCounter(t) \/ Ru!chiaki_rudp_send_raw(t)
  PROVE  RuInv'
<1>1. DOMAIN snd = RudpThreads /\ DOMAIN snd[t] = {"at", "no", "ack"} /\ DOMAIN got = GotFields /\ got.n \in Nat
  BY RudpAssumption DEF RuInv, RuSenders, Counting
<1>2. /\ counter' = counter /\ pk' = pk /\ rs' = rs /\ ru' = ru
      /\ DOMAIN got' = GotFields /\ got'.n = got.n /\ got'.sent = got.sent /\ got'.pushed = got.pushed
      /\ got'.dropped = got.dropped /\ got'.recv = got.recv
      /\ got'.wire = got.wire \/ (snd[t].at = "raw" /\ got'.wire = got.wire \cup {snd[t].no})
  BY <1>1 DEF Ru!ReadAckCounter, Ru!chiaki_rudp_send_raw, GotFields
<1>3. got'.wire \subseteq TakenBefore(got.n) /\ got'.recv \subseteq TakenBefore(got.n)
  BY <1>2 DEF RuInv, Counting, RuSenders, KeptUnder
<1>4. Counting' /\ RuBuffer' /\ "at" \in DOMAIN ru' /\ RudpKeptUntilReceived'
  BY <1>2, <1>3, RuHistory
<1>5. DOMAIN snd' = RudpThreads /\ \A u \in RudpThreads : u # t => snd'[u] = snd[u]
  BY <1>1 DEF Ru!ReadAckCounter, Ru!chiaki_rudp_send_raw
<1>6. /\ DOMAIN snd'[t] = {"at", "no", "ack"}
      /\ snd'[t].at \in {"raw", "push", "idle"}
      /\ snd'[t].at \in {"raw", "push"} => KeptUnder(snd'[t].no, snd'[t].ack)
  <2>1. CASE Ru!ReadAckCounter(t)
    <3>1. snd'[t] = [snd[t] EXCEPT !.at = "raw", !.ack = counter] /\ snd[t].at = "ack"
      BY <1>1, <2>1 DEF Ru!ReadAckCounter
    <3>2. DOMAIN snd'[t] = {"at", "no", "ack"} /\ snd'[t].at = "raw" /\ snd'[t].ack = counter /\ snd'[t].no = snd[t].no
      BY <1>1, <3>1
    <3>3. snd[t].no \in TakenBefore(got.n) /\ counter \in Ru!SeqNums /\ Place(counter) = got.n
      BY <3>1 DEF RuInv, RuSenders, Counting
    <3>4. KeptUnder(snd[t].no, counter)
      BY <1>1, <3>3 DEF KeptUnder, TakenBefore
    <3> QED
      BY <3>2, <3>4
  <2>2. CASE Ru!chiaki_rudp_send_raw(t)
    <3>1. snd[t].at = "raw" /\ (snd'[t] = [snd[t] EXCEPT !.at = "push"] \/ snd'[t] = [snd[t] EXCEPT !.at = "idle"])
      BY <1>1, <2>2 DEF Ru!chiaki_rudp_send_raw
    <3>2. DOMAIN snd'[t] = {"at", "no", "ack"} /\ snd'[t].at \in {"push", "idle"} /\ snd'[t].ack = snd[t].ack /\ snd'[t].no = snd[t].no
      BY <1>1, <3>1
    <3> QED
      BY <3>1, <3>2 DEF RuInv, RuSenders
  <2> QED
    BY <2>1, <2>2
<1>7. RuSenders'
  <2>1. ASSUME NEW u \in RudpThreads
        PROVE  /\ DOMAIN snd'[u] = {"at", "no", "ack"}
               /\ snd'[u].at = "ack" => snd'[u].no \in TakenBefore(got'.n)
               /\ snd'[u].at \in {"raw", "push"} => KeptUnder(snd[u].no, snd[u].ack)'
    <3>1. CASE u = t
      BY <1>2, <1>6, <3>1 DEF KeptUnder
    <3>2. CASE u # t
      BY <1>2, <1>5, <3>2 DEF RuInv, RuSenders, KeptUnder
    <3> QED
      BY <3>1, <3>2
  <2> QED
    BY <1>5, <2>1 DEF RuSenders
<1> QED
  BY <1>4, <1>7 DEF RuInv

\* chiaki_rudp_send_buffer_push: the message is kept at the first free place, or not at all.
LEMMA RuPush ==
  ASSUME RuInv, NEW t \in RudpThreads, Ru!chiaki_rudp_send_buffer_push(t)
  PROVE  RuInv'
<1>1. /\ DOMAIN snd = RudpThreads /\ DOMAIN snd[t] = {"at", "no", "ack"} /\ DOMAIN got = GotFields
      /\ DOMAIN pk = PkFields /\ DOMAIN pk.arr = 1 .. RUDP_SEND_BUFFER_SIZE /\ pk.count \in 0 .. RUDP_SEND_BUFFER_SIZE
      /\ DOMAIN rs = {"at", "timed", "i"} /\ rs.i \in Nat \ {0}
  BY DEF RuInv, RuSenders, Counting, RuBuffer
<1>2. snd[t].at = "push" /\ KeptUnder(snd[t].no, snd[t].ack) /\ ru' = ru /\ counter' = counter
  BY DEF Ru!chiaki_rudp_send_buffer_push, RuInv, RuSenders
<1>3. /\ DOMAIN snd' = RudpThreads /\ \A u \in RudpThreads : u # t => snd'[u] = snd[u]
      /\ DOMAIN snd'[t] = {"at", "no", "ack"} /\ snd'[t].at = "idle"
  BY <1>1 DEF Ru!chiaki_rudp_send_buffer_push
<1>4. CASE UNCHANGED <<pk, rs, got>>
  <2>1. RuSenders'
    BY <1>3, <1>4 DEF RuInv, RuSenders, KeptUnder
  <2>2. Counting'
    BY <1>2, <1>4 DEF RuInv, Counting
  <2>3. RuBuffer'
    BY <1>4 DEF RuInv, RuBuffer, KeptUnder, Ru!Live
  <2>4. RudpKeptUntilReceived'
    BY <1>2, <1>4 DEF RuInv, RudpKeptUntilReceived, Ru!RudpKeptUntilReceived, Ru!Live
  <2> QED
    BY <1>2, <2>1, <2>2, <2>3, <2>4 DEF RuInv
<1>5. CASE ~UNCHANGED <<pk, rs, got>>
  <2> DEFINE p == [ack |-> snd[t].ack, no |-> snd[t].no, tries |-> 0]
             c == pk.count + 1
  <2>1. /\ ~(pk.count >= RUDP_SEND_BUFFER_SIZE)
        /\ pk' = [pk EXCEPT !.count = @ + 1, !.arr[pk.count + 1] = p]
        /\ rs' = rs \/ rs' = [rs EXCEPT !.at = "wake"]
        /\ got' = [got EXCEPT !.pushed = @ \cup {snd[t].no}]
    BY <1>5 DEF Ru!chiaki_rudp_send_buffer_push, Ru!WakeUp
  <2>2. c \in 1 .. RUDP_SEND_BUFFER_SIZE
    BY <1>1, <2>1, RudpAssumption
  <2>3. /\ DOMAIN pk' = PkFields /\ pk'.count = c /\ pk'.arr = [pk.arr EXCEPT ![c] = p]
    BY <1>1, <2>1 DEF PkFields
  <2>4. /\ DOMAIN pk'.arr = 1 .. RUDP_SEND_BUFFER_SIZE /\ pk'.arr[c] = p
        /\ \A k \in 1 .. RUDP_SEND_BUFFER_SIZE : k # c => pk'.arr[k] = pk.arr[k]
    BY <1>1, <2>2, <2>3
  <2>5. DOMAIN p = {"ack", "no", "tries"} /\ p.no = snd[t].no /\ p.ack = snd[t].ack
    OBVIOUS
  <2>6. /\ DOMAIN got' = GotFields /\ got'.n = got.n /\ got'.sent = got.sent /\ got'.wire = got.wire
        /\ got'.recv = got.recv /\ got'.dropped = got.dropped /\ got'.pushed = got.pushed \cup {snd[t].no}
    BY <1>1, <2>1 DEF GotFields
  <2>7. DOMAIN rs' = {"at", "timed", "i"} /\ rs'.i = rs.i /\ (rs'.at = "giveup" => rs.at = "giveup")
    BY <1>1, <2>1
  <2>8. Ru!Live' = Ru!Live \cup {c} /\ Ru!Live \subseteq 1 .. RUDP_SEND_BUFFER_SIZE /\ c \notin Ru!Live
    <3>1. Ru!Live' = 1 .. c /\ Ru!Live = 1 .. pk.count
      BY <2>3 DEF Ru!Live
    <3>2. pk.count \in Nat /\ RUDP_SEND_BUFFER_SIZE \in Nat /\ pk.count < RUDP_SEND_BUFFER_SIZE
      BY <1>1, <2>1, RudpAssumption
    <3> QED
      BY <3>1, <3>2
  <2> HIDE DEF p, c
  <2>9. Counting'
    BY <1>2, <2>6 DEF RuInv, Counting
  <2>10. RuSenders'
    BY <1>3, <2>6 DEF RuInv, RuSenders, KeptUnder
  <2>11. RuBuffer'
    <3>1. \A k \in 1 .. RUDP_SEND_BUFFER_SIZE : DOMAIN pk'.arr[k] = {"ack", "no", "tries"}
      BY <2>4, <2>5 DEF RuInv, RuBuffer
    <3>2. \A k \in Ru!Live' : KeptUnder(pk'.arr[k].no, pk'.arr[k].ack)
      BY <1>2, <2>4, <2>5, <2>8 DEF RuInv, RuBuffer
    <3>3. \A k \in Ru!Live' : KeptUnder(pk.arr[k].no, pk.arr[k].ack)'
      BY <2>6, <3>2 DEF KeptUnder
    <3>4. pk'.count \in 0 .. RUDP_SEND_BUFFER_SIZE
      BY <2>2, <2>3
    <3>5. rs'.at = "giveup" => got'.dropped
      BY <2>6, <2>7 DEF RuInv, RuBuffer
    <3> QED
      BY <1>1, <2>3, <2>4, <2>7, <3>1, <3>3, <3>4, <3>5 DEF RuBuffer
  <2>12. RudpKeptUntilReceived'
    <3>1. ASSUME ru.at # "freed", ~got.dropped, NEW n \in got'.pushed
          PROVE  n \in got.recv \/ \E k \in Ru!Live' : pk'.arr[k].no = n
      <4>1. CASE n = snd[t].no
        BY <2>4, <2>5, <2>8, <4>1
      <4>2. CASE n \in got.pushed
        <5>1. n \in got.recv \/ \E k \in Ru!Live : pk.arr[k].no = n
          BY <3>1, <4>2 DEF RuInv, RudpKeptUntilReceived, Ru!RudpKeptUntilReceived
        <5> QED
          BY <5>1, <2>4, <2>8
      <4> QED
        BY <2>6, <3>1, <4>1, <4>2
    <3>2. Cardinality(got'.sent) = got'.n
      BY <2>9 DEF Counting
    <3> QED
      BY <1>2, <2>6, <3>1, <3>2, SameCardinality DEF RudpKeptUntilReceived, Ru!RudpKeptUntilReceived
  <2> QED
    BY <1>2, <2>9, <2>10, <2>11, <2>12 DEF RuInv
<1> QED
  BY <1>4, <1>5

\* chiaki_rudp_ack_packet: the console has every message that leaves the buffer.
LEMMA RuAckPacket ==
  ASSUME RuInv, Ru!chiaki_rudp_ack_packet
  PROVE  RuInv'
<1>1. PICK n \in got.recv : /\ \A x \in Ru!SeqNums : Ru!Ahead(Ru!FirstCounter, x) <= Ru!Ahead(Ru!FirstCounter, n) => x \in got.recv
                            /\ Ru!chiaki_rudp_send_buffer_ack(Ru!add(n, 1))
  BY DEF Ru!chiaki_rudp_ack_packet
<1> DEFINE a == Ru!add(n, 1)
<1>2. n \in Ru!SeqNums /\ Place(n) < got.n /\ got.n \in Nat /\ got.n <= MaxCtrl /\ MaxCtrl \in Nat
  BY RudpAssumption DEF RuInv, Counting, TakenBefore
<1>3. \A x \in Ru!SeqNums : Ru!Ahead(Ru!FirstCounter, x) = Place(x) /\ Place(x) \in Nat
  BY PlaceFacts
<1>4. a \in Ru!SeqNums /\ Place(a) = Place(n) + 1
  <2>1. Place(n) < MaxCtrl
    BY <1>2, <1>3
  <2> QED
    BY <1>2, <2>1, PlaceNext
<1> HIDE DEF a
<1>5. ASSUME NEW k \in Ru!Live \ Ru!Kept(a) PROVE pk.arr[k].no \in got.recv
  <2>1. pk.arr[k].ack = a \/ Ru!lt(pk.arr[k].ack, a)
    BY DEF Ru!Kept
  <2>2. KeptUnder(pk.arr[k].no, pk.arr[k].ack)
    BY DEF RuInv, RuBuffer
  <2> DEFINE no == pk.arr[k].no
             ack == pk.arr[k].ack
  <2>3. no \in Ru!SeqNums /\ ack \in Ru!SeqNums /\ Place(no) < Place(ack) /\ Place(ack) <= got.n
    BY <2>2 DEF KeptUnder, TakenBefore
  <2>4. Place(ack) <= Place(a)
    <3>1. Place(ack) <= MaxCtrl /\ Place(a) <= MaxCtrl
      BY <1>2, <1>3, <1>4, <2>3
    <3>2. Ru!lt(ack, a) => Place(ack) < Place(a)
      BY <1>4, <2>3, <3>1, PlaceOrder
    <3> QED
      BY <1>3, <1>4, <2>1, <2>3, <3>2
  <2>5. Place(no) <= Place(n)
    BY <1>2, <1>3, <1>4, <2>3, <2>4
  <2> QED
    BY <1>1, <1>2, <1>3, <2>3, <2>5
<1>6. UNCHANGED <<ru, counter, snd, rs, got>>
  BY DEF Ru!chiaki_rudp_ack_packet
<1>7. /\ DOMAIN got = GotFields /\ DOMAIN rs = {"at", "timed", "i"} /\ rs.i \in Nat \ {0} /\ (rs.at = "giveup" => got.dropped)
  BY DEF RuInv, Counting, RuBuffer
<1> QED
  BY <1>1, <1>5, <1>6, <1>7, RuAcked DEF a

\* The buffer's thread sends a packet again: its number was on the wire before.
LEMMA RuResend ==
  ASSUME RuInv, Ru!RsResend
  PROVE  RuInv'
<1>1. /\ DOMAIN rs = {"at", "timed", "i"} /\ rs.i \in Nat \ {0} /\ DOMAIN got = GotFields /\ DOMAIN pk = PkFields
      /\ DOMAIN pk.arr = 1 .. RUDP_SEND_BUFFER_SIZE /\ pk.count \in 0 .. RUDP_SEND_BUFFER_SIZE
      /\ \A k \in 1 .. RUDP_SEND_BUFFER_SIZE : DOMAIN pk.arr[k] = {"ack", "no", "tries"}
  BY DEF RuInv, RuBuffer, Counting
<1>2. rs.at = "scan" /\ rs.i <= pk.count /\ rs' = [rs EXCEPT !.i = @ + 1] /\ counter' = counter /\ snd' = snd /\ ru' = ru
  BY DEF Ru!RsResend, Ru!RestOfRudp
<1>3. DOMAIN rs' = {"at", "timed", "i"} /\ rs'.i \in Nat \ {0} /\ rs'.at = "scan"
  BY <1>1, <1>2
<1>4. CASE UNCHANGED <<pk, got>>
  BY <1>1, <1>2, <1>3, <1>4, RuMoves DEF RuInv
<1>5. CASE pk' = [pk EXCEPT !.arr[rs.i].tries = @ + 1] /\ got' = [got EXCEPT !.wire = @ \cup {pk.arr[rs.i].no}]
  <2> DEFINE i == rs.i
  <2>1. i \in Ru!Live /\ i \in 1 .. RUDP_SEND_BUFFER_SIZE
    BY <1>1, <1>2, RudpAssumption DEF Ru!Live
  <2>2. DOMAIN pk' = PkFields /\ pk'.count = pk.count /\ pk'.arr = [pk.arr EXCEPT ![i].tries = @ + 1] /\ Ru!Live' = Ru!Live
    BY <1>1, <1>5 DEF PkFields, Ru!Live
  <2>3. /\ DOMAIN pk'.arr = 1 .. RUDP_SEND_BUFFER_SIZE /\ pk'.arr[i] = [pk.arr[i] EXCEPT !.tries = @ + 1]
        /\ \A k \in 1 .. RUDP_SEND_BUFFER_SIZE : k # i => pk'.arr[k] = pk.arr[k]
    BY <1>1, <2>1, <2>2
  <2>4. DOMAIN pk'.arr[i] = {"ack", "no", "tries"} /\ pk'.arr[i].no = pk.arr[i].no /\ pk'.arr[i].ack = pk.arr[i].ack
    BY <1>1, <2>1, <2>3
  <2>5. \A k \in 1 .. RUDP_SEND_BUFFER_SIZE : DOMAIN pk'.arr[k] = {"ack", "no", "tries"} /\ pk'.arr[k].no = pk.arr[k].no /\ pk'.arr[k].ack = pk.arr[k].ack
    BY <1>1, <2>3, <2>4
  <2>6. /\ DOMAIN got' = GotFields /\ got'.n = got.n /\ got'.sent = got.sent /\ got'.pushed = got.pushed
        /\ got'.dropped = got.dropped /\ got'.recv = got.recv /\ got'.wire = got.wire \cup {pk.arr[i].no}
    BY <1>1, <1>5 DEF GotFields
  <2>7. Ru!Live \subseteq 1 .. RUDP_SEND_BUFFER_SIZE
    BY <1>1, RudpAssumption DEF Ru!Live
  <2>8. Counting'
    <3>1. pk.arr[i].no \in TakenBefore(got.n)
      BY <2>1 DEF RuInv, RuBuffer, KeptUnder
    <3> QED
      BY <1>2, <2>6, <3>1 DEF RuInv, Counting
  <2>9. RuSenders'
    BY <1>2, <2>6 DEF RuInv, RuSenders, KeptUnder
  <2>10. RuBuffer'
    <3>1. \A k \in Ru!Live' : KeptUnder(pk.arr[k].no, pk.arr[k].ack)'
      BY <2>2, <2>5, <2>6, <2>7 DEF RuInv, RuBuffer, KeptUnder
    <3> QED
      BY <1>1, <1>3, <2>2, <2>3, <2>5, <3>1 DEF RuBuffer
  <2>11. RudpKeptUntilReceived'
    <3>1. ASSUME ru.at # "freed", ~got.dropped, NEW n \in got.pushed
          PROVE  n \in got.recv \/ \E k \in Ru!Live' : pk'.arr[k].no = n
      <4>1. n \in got.recv \/ \E k \in Ru!Live : pk.arr[k].no = n
        BY <3>1 DEF RuInv, RudpKeptUntilReceived, Ru!RudpKeptUntilReceived
      <4> QED
        BY <4>1, <2>2, <2>5, <2>7
    <3>2. Cardinality(got'.sent) = got'.n
      BY <2>8 DEF Counting
    <3> QED
      BY <1>2, <2>6, <3>1, <3>2, SameCardinality DEF RudpKeptUntilReceived, Ru!RudpKeptUntilReceived
  <2> QED
    BY <1>2, <2>8, <2>9, <2>10, <2>11 DEF RuInv
<1> QED
  BY <1>4, <1>5 DEF Ru!RsResend

\* The other steps of the buffer's thread.
LEMMA RuThread ==
  ASSUME RuInv, Ru!ResendThread
  PROVE  RuInv'
<1>1. /\ DOMAIN rs = {"at", "timed", "i"} /\ rs.i \in Nat \ {0} /\ DOMAIN got = GotFields /\ DOMAIN pk = PkFields
      /\ (rs.at = "giveup" => got.dropped) /\ "at" \in DOMAIN ru
  BY DEF RuInv, RuBuffer, Counting
<1>2. CASE Ru!RsResend
  BY <1>2, RuResend
<1>3. CASE Ru!RsGiveUp
  <2>1. /\ rs.at = "scan" /\ rs' = [rs EXCEPT !.at = "giveup"] /\ got' = [got EXCEPT !.dropped = TRUE]
        /\ ru' = ru /\ counter' = counter /\ snd' = snd /\ pk' = pk
    BY <1>3 DEF Ru!RsGiveUp, Ru!RestOfRudp, Ru!RsGo
  <2>2. DOMAIN rs' = {"at", "timed", "i"} /\ rs'.i = rs.i
    BY <1>1, <2>1
  <2>3. /\ DOMAIN got' = GotFields /\ got'.n = got.n /\ got'.sent = got.sent /\ got'.pushed = got.pushed
        /\ got'.dropped /\ got'.recv = got.recv /\ got'.wire = got.wire
    BY <1>1, <2>1 DEF GotFields
  <2>4. Counting'
    BY <2>1, <2>3 DEF RuInv, Counting
  <2>5. RuSenders'
    BY <2>1, <2>3 DEF RuInv, RuSenders, KeptUnder
  <2>6. RuBuffer'
    BY <1>1, <2>1, <2>2, <2>3 DEF RuInv, RuBuffer, KeptUnder, Ru!Live
  <2>7. RudpKeptUntilReceived'
    BY <2>3, <2>4, SameCardinality DEF RudpKeptUntilReceived, Ru!RudpKeptUntilReceived, Counting
  <2> QED
    BY <1>1, <2>1, <2>4, <2>5, <2>6, <2>7 DEF RuInv
<1>4. CASE Ru!RsGiveUpAck
  <2>1. /\ rs.at = "giveup" /\ rs' = [rs EXCEPT !.at = "relock"] /\ Ru!chiaki_rudp_send_buffer_ack(pk.arr[rs.i].ack)
        /\ ru' = ru /\ counter' = counter /\ snd' = snd /\ got' = got
    BY <1>4 DEF Ru!RsGiveUpAck, Ru!RestOfRudp, Ru!RsGo
  <2>2. DOMAIN rs' = {"at", "timed", "i"} /\ rs'.i = rs.i /\ rs'.at = "relock"
    BY <1>1, <2>1
  <2> QED
    BY <1>1, <2>1, <2>2, RuAcked
<1>5. CASE Ru!RsWait \/ Ru!RsBlock \/ Ru!RsTimeout \/ Ru!RsWake \/ Ru!RsCheck \/ Ru!RsRelock \/ Ru!RsPassEnds
  <2>1. UNCHANGED <<ru, counter, snd, pk, got>>
    BY <1>5 DEF Ru!RsWait, Ru!RsBlock, Ru!RsTimeout, Ru!RsWake, Ru!RsCheck, Ru!RsRelock, Ru!RsPassEnds, Ru!RestOfRudp
  <2>2. DOMAIN rs' = {"at", "timed", "i"} /\ rs'.i \in Nat \ {0} /\ rs'.at # "giveup"
    <3>1. CASE Ru!RsWait
      BY <1>1, <3>1 DEF Ru!RsWait
    <3>2. CASE Ru!RsBlock \/ Ru!RsTimeout \/ Ru!RsWake \/ Ru!RsPassEnds
      BY <1>1, <3>2 DEF Ru!RsBlock, Ru!RsTimeout, Ru!RsWake, Ru!RsPassEnds, Ru!RsGo
    <3>3. CASE Ru!RsCheck
      BY <1>1, <3>3 DEF Ru!RsCheck
    <3>4. CASE Ru!RsRelock
      <4>1. rs' = [rs EXCEPT !.at = "scan", !.i = 2] \/ (rs.i > 1 /\ rs' = [rs EXCEPT !.at = "scan", !.i = rs.i])
        BY <3>4 DEF Ru!RsRelock
      <4>2. DOMAIN rs' = {"at", "timed", "i"} /\ rs'.at = "scan" /\ rs'.i \in {rs.i, 2}
        BY <1>1, <4>1
      <4> QED
        BY <1>1, <4>2
    <3> QED
      BY <1>5, <3>1, <3>2, <3>3, <3>4
  <2> QED
    BY <1>1, <2>1, <2>2, RuMoves
<1> QED
  BY <1>2, <1>3, <1>4, <1>5 DEF Ru!ResendThread

\* Creation, the exchanges and chiaki_rudp_fini.
LEMMA RuCaller ==
  ASSUME RuInv, Ru!chiaki_rudp_init \/ Ru!RudpCaller \/ Ru!LateAnswer \/ Ru!RudpOver
  PROVE  RuInv'
<1>1. /\ DOMAIN rs = {"at", "timed", "i"} /\ rs.i \in Nat \ {0} /\ DOMAIN pk = PkFields /\ "at" \in DOMAIN ru
  BY DEF RuInv, RuBuffer
<1>2. CASE Ru!chiaki_rudp_fini
  <2>1. /\ ru' = [ru EXCEPT !.at = "freed"] /\ pk' = [pk EXCEPT !.count = 0] /\ UNCHANGED <<counter, snd, rs, got>>
    BY <1>2 DEF Ru!chiaki_rudp_fini
  <2>2. "at" \in DOMAIN ru' /\ ru'.at = "freed"
    BY <1>1, <2>1
  <2>3. DOMAIN pk' = PkFields /\ pk'.count = 0 /\ pk'.arr = pk.arr
    BY <1>1, <2>1 DEF PkFields
  <2>4. Counting' /\ RuSenders'
    BY <2>1 DEF RuInv, Counting, RuSenders, KeptUnder
  <2>5. RuBuffer'
    BY <1>1, <2>1, <2>3, RudpAssumption DEF RuInv, RuBuffer, Ru!Live
  <2>6. RudpKeptUntilReceived'
    BY <2>2, <2>4, SameCardinality DEF RudpKeptUntilReceived, Ru!RudpKeptUntilReceived, Counting
  <2> QED
    BY <2>2, <2>4, <2>5, <2>6 DEF RuInv
<1>3. CASE Ru!SetStop
  <2>1. pk' = [pk EXCEPT !.stop = TRUE] /\ ru.at = "fini" /\ ru' = [ru EXCEPT !.at = "signal"] /\ UNCHANGED <<counter, snd, rs, got>>
    BY <1>3 DEF Ru!SetStop
  <2>2. DOMAIN pk' = PkFields /\ pk'.count = pk.count /\ pk'.arr = pk.arr /\ "at" \in DOMAIN ru'
    BY <1>1, <2>1 DEF PkFields
  <2> QED
    BY <1>1, <2>1, <2>2, RuMoves
<1>4. CASE Ru!SignalStop
  <2>1. ru.at = "signal" /\ ru' = [ru EXCEPT !.at = "join"] /\ UNCHANGED <<counter, snd, pk, got>>
    BY <1>4 DEF Ru!SignalStop
  <2>2. DOMAIN rs' = {"at", "timed", "i"} /\ rs'.i \in Nat \ {0} /\ (rs'.at = "giveup" => rs.at = "giveup")
    BY <1>1, <1>4 DEF Ru!SignalStop, Ru!WakeUp
  <2> QED
    BY <1>1, <2>1, <2>2, RuMoves
<1>5. CASE Ru!chiaki_rudp_init
  <2>1. ru.at = "off" /\ "at" \in DOMAIN ru' /\ UNCHANGED <<counter, snd, pk, got>>
    BY <1>1, <1>5 DEF Ru!chiaki_rudp_init
  <2>2. DOMAIN rs' = {"at", "timed", "i"} /\ rs'.i \in Nat \ {0} /\ (rs'.at = "giveup" => rs.at = "giveup")
    BY <1>1, <1>5 DEF Ru!chiaki_rudp_init
  <2> QED
    BY <1>1, <2>1, <2>2, RuMoves
<1>6. CASE Ru!SendRequest \/ Ru!SelectTimeout \/ Ru!SelectFails \/ Ru!chiaki_rudp_select_recv \/ Ru!LateAnswer \/ Ru!RudpOver
  <2>1. ru.at # "freed" /\ UNCHANGED <<counter, snd, pk, rs, got>>
    BY <1>6 DEF Ru!SendRequest, Ru!SelectTimeout, Ru!SelectFails, Ru!chiaki_rudp_select_recv, Ru!LateAnswer, Ru!RudpOver
  <2>2. "at" \in DOMAIN Ru!NextRequest(ru) /\ "at" \in DOMAIN Ru!TryAgain(ru)
    BY <1>1 DEF Ru!NextRequest, Ru!TryAgain
  <2>3. "at" \in DOMAIN ru'
    BY <1>1, <1>6, <2>2 DEF Ru!SendRequest, Ru!SelectTimeout, Ru!SelectFails, Ru!chiaki_rudp_select_recv, Ru!LateAnswer, Ru!RudpOver
  <2> QED
    BY <1>1, <2>1, <2>3, RuMoves
<1> QED
  BY <1>2, <1>3, <1>4, <1>5, <1>6 DEF Ru!RudpCaller

\* Every step over RUDP keeps the invariant.
LEMMA RudpStep == RuInv /\ [Ru!NextRudp]_rudp => RuInv'
<1> SUFFICES ASSUME RuInv, [Ru!NextRudp]_rudp PROVE RuInv'
  OBVIOUS
<1>1. /\ DOMAIN rs = {"at", "timed", "i"} /\ rs.i \in Nat \ {0} /\ DOMAIN got = GotFields /\ DOMAIN pk = PkFields
      /\ (rs.at = "giveup" => got.dropped) /\ "at" \in DOMAIN ru
  BY DEF RuInv, RuBuffer, Counting
<1>2. CASE UNCHANGED rudp
  BY <1>1, <1>2, RuMoves DEF rudp
<1>3. CASE Ru!chiaki_rudp_init \/ Ru!RudpCaller \/ Ru!LateAnswer \/ Ru!RudpOver
  BY <1>3, RuCaller
<1>4. CASE Ru!ResendThread
  BY <1>4, RuThread
<1>5. CASE \E t \in RudpThreads : Ru!TakeCounter(t) \/ Ru!Sending(t)
  BY <1>5, RuTake, RuSends, RuPush DEF Ru!Sending
<1>6. CASE Ru!ConsoleReceives
  <2>1. PICK n \in got.wire \ got.recv : got' = [got EXCEPT !.recv = @ \cup {n}]
    BY <1>6 DEF Ru!ConsoleReceives
  <2>2. UNCHANGED <<ru, counter, snd, pk, rs>>
    BY <1>6 DEF Ru!ConsoleReceives
  <2>3. /\ DOMAIN got' = GotFields /\ got'.n = got.n /\ got'.sent = got.sent /\ got'.pushed = got.pushed
        /\ got'.dropped = got.dropped /\ got'.recv = got.recv \cup {n} /\ got'.wire = got.wire
    BY <1>1, <2>1 DEF GotFields
  <2>4. got'.wire \subseteq TakenBefore(got.n) /\ got'.recv \subseteq TakenBefore(got.n)
    BY <2>1, <2>3 DEF RuInv, Counting
  <2>5. Counting' /\ RuBuffer' /\ "at" \in DOMAIN ru' /\ RudpKeptUntilReceived'
    BY <2>2, <2>3, <2>4, RuHistory
  <2>6. RuSenders'
    BY <2>2, <2>3 DEF RuInv, RuSenders, KeptUnder
  <2> QED
    BY <2>5, <2>6 DEF RuInv
<1>7. CASE Ru!chiaki_rudp_ack_packet
  BY <1>7, RuAckPacket
<1>8. CASE Ru!AckUnknown
  <2>1. /\ UNCHANGED <<ru, counter, snd, rs>> /\ got' = [got EXCEPT !.dropped = TRUE] /\ Ru!chiaki_rudp_send_buffer_ack(0)
    BY <1>8 DEF Ru!AckUnknown
  <2>2. /\ DOMAIN got' = GotFields /\ got'.n = got.n /\ got'.sent = got.sent /\ got'.dropped /\ got'.recv = got.recv /\ got'.wire = got.wire
    BY <1>1, <2>1 DEF GotFields
  <2> QED
    BY <1>1, <2>1, <2>2, RuAcked
<1> QED
  BY <1>2, <1>3, <1>4, <1>5, <1>6, <1>7, <1>8 DEF Ru!NextRudp

-----------------------------------------------------------------------------
(* The guessed ports. *)

NatFields == {"next", "step", "addr", "regular"}
SuFields == {"at", "i", "seen", "failed", "late", "inc", "random", "port", "cands", "round"}
StAnswers == [port : Int, addr : Int]

NatOk(a) == DOMAIN a = NatFields /\ a.next \in Int /\ a.step \in Int /\ a.addr \in Int /\ a.regular \in BOOLEAN

\* Of the NATs that PredictionHits speaks of.
CountsUp == nat.regular /\ nat.step >= 0

\* From the port an answer saw to the next one, at last to that of the next mapping.
Gap(k) == (IF k < Len(su.seen) THEN su.seen[k + 1].port ELSE nat.next) - su.seen[k].port

\* Every mapping so far was one step, but that of a server that did not answer.
StGaps ==
  /\ Len(su.seen) <= 4
  /\ \A k \in 1 .. Len(su.seen) :
       su.seen[k].addr = 1 /\ su.seen[k].port \in WellKnown .. PortMax /\ Gap(k) >= 0
  /\ su.failed = 0 => \A k \in 1 .. Len(su.seen) : Gap(k) = nat.step
  /\ su.failed = 1 => \E j \in 0 .. 3 : \A k \in 1 .. Len(su.seen) : k # j => Gap(k) = nat.step

\* The client knows how the NAT counts.
Knows == su.inc = nat.step /\ ~su.random
StMeasured == IF su.round = 1 THEN Len(su.seen) = 4 /\ su.failed <= 1 ELSE Knows

InPorts == su.cands \in Seq(WellKnown .. PortMax)

\* While candidates are made: the first one is the next port.
StGuesses ==
  /\ Knows /\ su.port \in WellKnown .. PortMax /\ nat.step <= PortMax - WellKnown
  /\ su.cands = <<>> => nat.next = su.port + nat.step
  /\ su.cands # <<>> => su.cands[1] = nat.next /\ nat.step # 0
  /\ InPorts

StCounts ==
  /\ nat.addr = 1 /\ nat.next \in WellKnown .. PortMax
  /\ su.at = "test" => su.round = 1 /\ ~su.random /\ su.cands = <<>> /\ StGaps
  /\ su.at \in {"candidates", "offered", "ask"} => su.inc \in Nat
  /\ su.at = "ask" => su.round = 2 /\ su.cands = <<>>
  /\ su.at = "candidates" /\ StMeasured => StGuesses
  /\ su.at = "offered" /\ StMeasured => nat.next \in {su.cands[k] : k \in DOMAIN su.cands} /\ InPorts

StInv ==
  /\ NatOk(nat) /\ DOMAIN su = SuFields
  /\ su.seen \in Seq(StAnswers) /\ su.failed \in Nat /\ su.round \in {1, 2}
  /\ su.at = "off" => /\ nat.addr = 1 /\ su.seen = <<>> /\ su.failed = 0 /\ su.cands = <<>>
                      /\ ~su.random /\ su.round = 1
  /\ su.at # "off" /\ CountsUp => StCounts

\* Nothing is known before the client begins.
LEMMA StInit == St!InitStun => StInv
  BY DEF St!InitStun, StInv, NatOk, NatFields, SuFields, St!Unmeasured

\* The next mapping.
LEMMA AdvanceIs ==
  ASSUME NEW a, NatOk(a)
  PROVE  LET b == St!Advance(a)
         IN /\ NatOk(b) /\ b.step = a.step /\ b.addr = a.addr
            /\ b.regular => a.regular /\ b.next = a.next + a.step /\ b.next \in WellKnown .. PortMax
<1> DEFINE b == St!Advance(a)
           p == a.next + a.step
<1> SUFFICES /\ NatOk(b) /\ b.step = a.step /\ b.addr = a.addr
             /\ b.regular => a.regular /\ b.next = p /\ b.next \in WellKnown .. PortMax
  OBVIOUS
<1>1. DOMAIN a = NatFields /\ a.next \in Int /\ a.step \in Int /\ a.addr \in Int /\ a.regular \in BOOLEAN /\ p \in Int
  BY DEF NatOk
<1>2. WellKnown \in Int
  BY StunAssumption
<1>3. b = IF p \in WellKnown .. PortMax THEN [a EXCEPT !.next = p] ELSE [a EXCEPT !.next = WellKnown, !.regular = FALSE]
  BY DEF St!Advance
<1> HIDE DEF b, p
<1>4. CASE p \in WellKnown .. PortMax
  <2>1. b = [a EXCEPT !.next = p]
    BY <1>3, <1>4
  <2>2. DOMAIN b = NatFields /\ b.next = p /\ b.step = a.step /\ b.addr = a.addr /\ b.regular = a.regular
    BY <1>1, <2>1 DEF NatFields
  <2> QED
    BY <1>1, <1>4, <2>2 DEF NatOk
<1>5. CASE p \notin WellKnown .. PortMax
  <2>1. b = [a EXCEPT !.next = WellKnown, !.regular = FALSE]
    BY <1>3, <1>5
  <2>2. DOMAIN b = NatFields /\ b.next = WellKnown /\ b.step = a.step /\ b.addr = a.addr /\ b.regular = FALSE
    BY <1>1, <2>1 DEF NatFields
  <2> QED
    BY <1>1, <1>2, <2>2 DEF NatOk
<1> QED
  BY <1>4, <1>5

\* A server answers with the port it sees.
LEMMA AnsweredIs ==
  ASSUME NatOk(nat), NEW x \in St!Addresses, St!Answered(x)
  PROVE  /\ NatOk(nat') /\ nat'.step = nat.step /\ x \in StAnswers /\ x.port = nat.next
         /\ nat'.regular => /\ nat.regular /\ x.addr = nat.addr /\ nat'.addr = nat.addr
                            /\ nat'.next = nat.next + nat.step /\ nat'.next \in WellKnown .. PortMax
<1> DEFINE g == nat.regular /\ x.addr = nat.addr
           a == [nat EXCEPT !.addr = x.addr, !.regular = g]
<1>1. DOMAIN nat = NatFields /\ nat.next \in Int /\ nat.step \in Int /\ nat.addr \in Int /\ nat.regular \in BOOLEAN
  BY DEF NatOk
<1>2. x.addr \in 1 .. 2 /\ x.port = nat.next /\ x \in StAnswers
  BY <1>1 DEF St!Addresses, StAnswers
<1>3. nat' = St!Advance(a)
  BY DEF St!Answered
<1>4. g \in BOOLEAN
  OBVIOUS
<1> HIDE DEF g
<1>5. DOMAIN a = NatFields /\ a.next = nat.next /\ a.step = nat.step /\ a.addr = x.addr /\ a.regular = g
  BY <1>1 DEF NatFields
<1> HIDE DEF a
<1>6. NatOk(a)
  BY <1>1, <1>2, <1>4, <1>5 DEF NatOk
<1>7. /\ NatOk(nat') /\ nat'.step = a.step /\ nat'.addr = a.addr
      /\ nat'.regular => a.regular /\ nat'.next = a.next + a.step /\ nat'.next \in WellKnown .. PortMax
  BY <1>3, <1>6, AdvanceIs
<1> QED
  BY <1>2, <1>5, <1>7 DEF g

\* A server that does not answer may have used a port.
LEMMA UnansweredIs ==
  ASSUME NatOk(nat), NEW x, St!Unanswered(x)
  PROVE  /\ NatOk(nat') /\ nat'.step = nat.step /\ nat'.addr = nat.addr
         /\ nat'.regular => /\ nat.regular
                            /\ \/ nat'.next = nat.next
                               \/ nat'.next = nat.next + nat.step /\ nat'.next \in WellKnown .. PortMax
<1>1. nat' = St!Advance(nat) \/ nat' = nat
  BY DEF St!Unanswered
<1>2. CASE nat' = St!Advance(nat)
  BY <1>2, AdvanceIs
<1>3. CASE nat' = nat
  BY <1>3
<1> QED
  BY <1>1, <1>2, <1>3

\* A step that neither asks a server nor changes what was seen.
LEMMA StFrom ==
  ASSUME StInv, NatOk(nat'), DOMAIN su' = SuFields, su'.at # "off",
         su'.seen \in Seq(StAnswers), su'.failed \in Nat, su'.round \in {1, 2},
         CountsUp' => StCounts'
  PROVE  StInv'
  BY DEF StInv

\* The first server is about to be asked.
LEMMA StartOK ==
  ASSUME StInv, St!StartStun
  PROVE  StInv'
<1>1. PICK p \in NatStarts : \E d \in Steps \cup {-1} : nat' = [nat EXCEPT !.next = p, !.step = d]
  BY Zenon DEF St!StartStun
<1>2. PICK d \in Steps \cup {-1} : nat' = [nat EXCEPT !.next = p, !.step = d]
  BY <1>1, Zenon
<1>3. su.at = "off" /\ su' = [su EXCEPT !.at = "test"]
  BY DEF St!StartStun
<1>4. /\ NatOk(nat) /\ DOMAIN su = SuFields /\ nat.addr = 1 /\ su.seen = <<>> /\ su.failed = 0 /\ su.cands = <<>>
      /\ ~su.random /\ su.round = 1
  BY <1>3 DEF StInv
<1>5. p \in WellKnown .. PortMax /\ p \in Int /\ d \in Int
  BY StunAssumption
<1>6. DOMAIN nat' = NatFields /\ nat'.next = p /\ nat'.step = d /\ nat'.addr = nat.addr /\ nat'.regular = nat.regular
  BY <1>2, <1>4 DEF NatFields, NatOk
<1>7. NatOk(nat')
  BY <1>4, <1>5, <1>6 DEF NatOk
<1>8. DOMAIN su' = SuFields /\ su'.at = "test" /\ \A k \in SuFields \ {"at"} : su'[k] = su[k]
  BY <1>3, <1>4 DEF SuFields
<1>9. /\ su'.seen = <<>> /\ su'.failed = 0 /\ su'.cands = <<>> /\ ~su'.random /\ su'.round = 1
  BY <1>4, <1>8 DEF SuFields
<1>10. StGaps'
  BY <1>9 DEF StGaps
<1>11. StCounts'
  BY <1>4, <1>5, <1>6, <1>8, <1>9, <1>10 DEF StCounts
<1> QED
  BY <1>7, <1>8, <1>9, <1>11, StFrom

\* A server of the test answers or does not.
LEMMA TestOK ==
  ASSUME StInv, St!stun_port_allocation_test
  PROVE  StInv'
<1>1. /\ NatOk(nat) /\ DOMAIN su = SuFields /\ su.seen \in Seq(StAnswers) /\ su.failed \in Nat
      /\ su.round \in {1, 2} /\ su.at = "test" /\ Len(su.seen) < 4
      /\ CountsUp => StCounts
  BY DEF StInv, St!stun_port_allocation_test
<1>2. CASE \E x \in St!Addresses : St!Answered(x) /\ St!TestSeen(x)
  <2>1. PICK x \in St!Addresses : St!Answered(x) /\ St!TestSeen(x)
    BY <1>2
  <2>2. /\ NatOk(nat') /\ nat'.step = nat.step /\ x \in StAnswers /\ x.port = nat.next
        /\ nat'.regular => /\ nat.regular /\ x.addr = nat.addr /\ nat'.addr = nat.addr
                           /\ nat'.next = nat.next + nat.step /\ nat'.next \in WellKnown .. PortMax
    BY <1>1, <2>1, AnsweredIs
  <2> DEFINE z == Append(su.seen, x)
             n == Len(su.seen)
  <2>3. su' = [su EXCEPT !.i = @ + 1, !.seen = z]
    BY <2>1 DEF St!TestSeen
  <2>4. /\ z \in Seq(StAnswers) /\ n \in Nat /\ n < 4 /\ Len(z) = n + 1 /\ z[n + 1] = x
        /\ \A k \in 1 .. n : z[k] = su.seen[k]
    BY <1>1, <2>2
  <2> HIDE DEF z
  <2>5. DOMAIN su' = SuFields /\ su'.seen = z /\ \A k \in SuFields \ {"i", "seen"} : su'[k] = su[k]
    BY <1>1, <2>3 DEF SuFields
  <2>6. /\ su'.at = "test" /\ su'.cands = su.cands /\ su'.failed = su.failed /\ su'.inc = su.inc /\ su'.round = su.round
        /\ su'.port = su.port /\ su'.random = su.random
    BY <1>1, <2>5 DEF SuFields
  <2>7. ASSUME CountsUp' PROVE StCounts'
    <3>1. CountsUp /\ StCounts
      BY <1>1, <2>2, <2>7 DEF CountsUp
    <3>2. su.round = 1 /\ ~su.random /\ su.cands = <<>> /\ StGaps /\ nat.addr = 1 /\ nat.next \in WellKnown .. PortMax
      BY <1>1, <3>1 DEF StCounts
    <3>3. x.addr = 1 /\ nat'.addr = 1 /\ nat'.next = nat.next + nat.step /\ nat'.next \in WellKnown .. PortMax
      BY <2>2, <2>7, <3>2 DEF CountsUp
    <3>4. nat'.next - x.port = nat.step
      <4>1. nat.next \in Int /\ nat.step \in Int
        BY <1>1 DEF NatOk
      <4> QED
        BY <2>2, <3>3, <4>1
    <3>5. ASSUME NEW k \in 1 .. n PROVE Gap(k)' = Gap(k)
      <4>1. k \in Nat /\ k < n + 1 /\ su'.seen[k] = su.seen[k]
        BY <2>4, <2>5
      <4>2. Gap(k)' = su'.seen[k + 1].port - su.seen[k].port
        BY <2>4, <2>5, <4>1 DEF Gap
      <4>3. CASE k < n
        <5>1. su'.seen[k + 1] = su.seen[k + 1]
          BY <2>4, <2>5, <4>1, <4>3
        <5> QED
          BY <4>2, <4>3, <5>1 DEF Gap
      <4>4. CASE k = n
        <5>1. su'.seen[k + 1] = x
          BY <2>4, <2>5, <4>4
        <5>2. Gap(k) = nat.next - su.seen[k].port
          BY <4>4 DEF Gap
        <5> QED
          BY <2>2, <4>2, <5>1, <5>2
      <4> QED
        BY <4>1, <4>3, <4>4
    <3>6. nat.step >= 0 /\ nat.step \in Int
      BY <1>1, <3>1 DEF CountsUp, NatOk
    <3>7. StGaps'
      <4>1. Len(su'.seen) = n + 1 /\ 1 .. n + 1 = (1 .. n) \cup {n + 1}
        BY <2>4, <2>5
      <4>2. ASSUME NEW k \in 1 .. n + 1
            PROVE  /\ su'.seen[k].addr = 1 /\ su'.seen[k].port \in WellKnown .. PortMax /\ Gap(k)' >= 0
                   /\ \/ k = n + 1 /\ Gap(k)' = nat'.step
                      \/ k \in 1 .. n /\ Gap(k)' = Gap(k)
        <5>1. CASE k \in 1 .. n
          BY <2>4, <2>5, <3>2, <3>5, <5>1 DEF StGaps
        <5>2. CASE k = n + 1
          <6>1. Len(su'.seen) = k /\ su'.seen[k] = x
            BY <2>4, <2>5, <5>2
          <6>2. Gap(k)' = nat'.next - x.port
            BY <6>1 DEF Gap
          <6> QED
            BY <2>2, <3>2, <3>3, <3>4, <3>6, <5>2, <6>1, <6>2
        <5> QED
          BY <4>1, <5>1, <5>2
      <4>3. su'.failed = 0 => \A k \in 1 .. n + 1 : Gap(k)' = nat'.step
        BY <2>2, <2>6, <3>2, <4>2 DEF StGaps
      <4>4. su'.failed = 1 => \E j \in 0 .. 3 : \A k \in 1 .. n + 1 : k # j => Gap(k)' = nat'.step
        <5> SUFFICES ASSUME su'.failed = 1 PROVE \E j \in 0 .. 3 : \A k \in 1 .. n + 1 : k # j => Gap(k)' = nat'.step
          OBVIOUS
        <5>1. PICK j \in 0 .. 3 : \A k \in 1 .. n : k # j => Gap(k) = nat.step
          BY <2>6, <3>2 DEF StGaps
        <5>2. \A k \in 1 .. n + 1 : k # j => Gap(k)' = nat'.step
          BY <2>2, <4>2, <5>1
        <5> QED
          BY <5>2
      <4>5. n + 1 <= 4
        BY <2>4
      <4> HIDE DEF n
      <4> QED
        BY <4>1, <4>2, <4>3, <4>4, <4>5 DEF StGaps
    <3> QED
      BY <2>6, <3>2, <3>3, <3>7 DEF StCounts
  <2> QED
    BY <1>1, <2>2, <2>4, <2>5, <2>6, <2>7, StFrom
<1>3. CASE \E x \in BOOLEAN : St!Unanswered(x) /\ St!TestFailed(x)
  <2>1. PICK x \in BOOLEAN : St!Unanswered(x) /\ St!TestFailed(x)
    BY <1>3
  <2>2. /\ NatOk(nat') /\ nat'.step = nat.step /\ nat'.addr = nat.addr
        /\ nat'.regular => /\ nat.regular
                           /\ \/ nat'.next = nat.next
                              \/ nat'.next = nat.next + nat.step /\ nat'.next \in WellKnown .. PortMax
    BY <1>1, <2>1, UnansweredIs
  <2>3. su' = [su EXCEPT !.i = @ + 1, !.failed = su.failed + 1, !.late = x]
    BY <2>1 DEF St!TestFailed
  <2>4. DOMAIN su' = SuFields /\ su'.failed = su.failed + 1 /\ \A k \in SuFields \ {"i", "failed", "late"} : su'[k] = su[k]
    BY <1>1, <2>3 DEF SuFields
  <2>5. /\ su'.at = "test" /\ su'.cands = su.cands /\ su'.seen = su.seen /\ su'.inc = su.inc /\ su'.round = su.round
        /\ su'.port = su.port /\ su'.random = su.random
    BY <1>1, <2>4 DEF SuFields
  <2> DEFINE n == Len(su.seen)
             d == nat'.next - nat.next
  <2>6. ASSUME CountsUp' PROVE StCounts'
    <3>1. CountsUp /\ StCounts
      BY <1>1, <2>2, <2>6 DEF CountsUp
    <3>2. su.round = 1 /\ ~su.random /\ su.cands = <<>> /\ StGaps /\ nat.addr = 1 /\ nat.next \in WellKnown .. PortMax
      BY <1>1, <3>1 DEF StCounts
    <3>3. nat.next \in Int /\ nat.step \in Int /\ nat.step >= 0 /\ nat'.next \in Int /\ n \in Nat /\ n < 4
      BY <1>1, <2>2, <3>1 DEF CountsUp, NatOk
    <3>4. nat'.next \in WellKnown .. PortMax /\ d >= 0 /\ d \in Int
      BY <2>2, <2>6, <3>2, <3>3 DEF CountsUp
    <3>5. ASSUME NEW k \in 1 .. n
          PROVE  /\ su.seen[k].port \in Int /\ Gap(k) \in Int /\ Gap(k) >= 0
                 /\ Gap(k)' = IF k < n THEN Gap(k) ELSE Gap(k) + d
      <4>1. su.seen[k] \in StAnswers /\ (k < n => su.seen[k + 1] \in StAnswers)
        <5>1. su.seen \in Seq(StAnswers)
          BY <1>1
        <5>2. k \in 1 .. Len(su.seen) /\ (k < n => k + 1 \in 1 .. Len(su.seen))
          BY <3>3
        <5> QED
          BY <5>1, <5>2
      <4>2. su.seen[k].port \in Int /\ (k < n => su.seen[k + 1].port \in Int)
        BY <4>1 DEF StAnswers
      <4>3. Gap(k) >= 0
        BY <3>2 DEF StGaps
      <4>4. Gap(k)' = (IF k < n THEN su.seen[k + 1].port ELSE nat'.next) - su.seen[k].port
        BY <2>5 DEF Gap
      <4>5. Gap(k) = (IF k < n THEN su.seen[k + 1].port ELSE nat.next) - su.seen[k].port
        BY DEF Gap
      <4> DEFINE a == su.seen[k].port
      <4>6. CASE k < n
        <5>1. Gap(k)' = Gap(k)
          BY <4>4, <4>5, <4>6
        <5>2. Gap(k) = su.seen[k + 1].port - a
          BY <4>5, <4>6
        <5> DEFINE b == su.seen[k + 1].port
        <5>3. a \in Int /\ b \in Int
          BY <4>2, <4>6
        <5> HIDE DEF a, b
        <5> QED
          BY <4>2, <4>3, <4>6, <5>1, <5>2, <5>3
      <4>7. CASE ~(k < n)
        <5>1. Gap(k)' = nat'.next - a /\ Gap(k) = nat.next - a /\ a \in Int
          BY <4>2, <4>4, <4>5, <4>7
        <5> DEFINE b == nat.next
                   e == nat'.next
        <5>2. b \in Int /\ e \in Int
          BY <3>3
        <5>3. Gap(k)' = e - a /\ Gap(k) = b - a /\ a \in Int /\ d = e - b
          BY <5>1
        <5> HIDE DEF a, b, e, d
        <5>4. e - a = b - a + d
          BY <5>2, <5>3
        <5>5. b - a \in Int
          BY <5>2, <5>3
        <5> QED
          BY <4>2, <4>3, <4>7, <5>3, <5>4, <5>5
      <4> QED
        BY <4>6, <4>7
    <3>6. StGaps'
      <4>1. \A k \in 1 .. n : su'.seen[k].addr = 1 /\ su'.seen[k].port \in WellKnown .. PortMax /\ Gap(k)' >= 0
        BY <2>5, <3>2, <3>4, <3>5 DEF StGaps
      <4>2. su'.failed = 1 => \E j \in 0 .. 3 : \A k \in 1 .. n : k # j => Gap(k)' = nat'.step
        <5> SUFFICES ASSUME su'.failed = 1 PROVE \A k \in 1 .. n : k # n => Gap(k)' = nat'.step
          BY <3>3
        <5>1. su.failed = 0
          BY <1>1, <2>4
        <5>2. \A k \in 1 .. n : Gap(k) = nat.step
          BY <3>2, <5>1 DEF StGaps
        <5>3. \A k \in 1 .. n : k # n => k < n
          BY <3>3
        <5> QED
          BY <2>2, <3>5, <5>2, <5>3
      <4>3. su'.failed # 0
        BY <1>1, <2>4
      <4>4. Len(su'.seen) = n /\ n <= 4
        BY <2>5, <3>3
      <4> HIDE DEF n
      <4> QED
        BY <4>1, <4>2, <4>3, <4>4 DEF StGaps
    <3> QED
      BY <2>2, <2>5, <3>2, <3>4, <3>6 DEF StCounts
  <2>7. su'.failed \in Nat
    BY <1>1, <2>4
  <2> QED
    BY <1>1, <2>2, <2>4, <2>5, <2>6, <2>7, StFrom
<1> QED
  BY <1>2, <1>3 DEF St!stun_port_allocation_test

\* A port of 16 bits is one.
LEMMA CutPort ==
  ASSUME NEW x \in Int
  PROVE  St!W(x) \in 0 .. PortMax /\ (x \in 0 .. PortMax => St!W(x) = x)
<1> DEFINE n == PortMax + 1
<1>1. n \in Nat \ {0} /\ PortMax \in Nat
  BY StunAssumption
<1>2. St!W(x) = x % n
  BY DEF St!W
<1>3. x \in 0 .. PortMax => x \in 0 .. n - 1
  BY <1>1
<1>4. \A y \in 0 .. n - 1 : y \in 0 .. PortMax
  BY <1>1
<1> HIDE DEF n
<1>5. x % n \in 0 .. n - 1
  BY <1>1
<1>6. x \in 0 .. n - 1 => x % n = x
  BY <1>1
<1> QED
  BY <1>2, <1>3, <1>4, <1>5, <1>6

\* Two increments of three decide.
LEMMA TwoOfThree ==
  ASSUME NEW a \in Nat, NEW b \in Nat, NEW c \in Nat, NEW x,
         (a = x /\ b = x) \/ (a = x /\ c = x) \/ (b = x /\ c = x)
  PROVE  St!FourRegular(a, b, c) = [increment |-> x, random |-> FALSE]
<1>1. CASE a = b \/ a = c
  <2>1. a = x
    BY <1>1
  <2> QED
    BY <1>1, <2>1 DEF St!FourRegular, St!Measured
<1>2. CASE a # b /\ a # c
  <2>1. b = c /\ b = x
    BY <1>2
  <2> QED
    BY <1>2, <2>1 DEF St!FourRegular, St!Measured
<1> QED
  BY <1>1, <1>2

\* And if there are none, it is one of the three.
LEMMA OneOfThree ==
  ASSUME NEW a \in Nat, NEW b \in Nat, NEW c \in Nat
  PROVE  St!FourRegular(a, b, c).increment \in Nat
<1>1. CASE a = b \/ a = c
  BY <1>1 DEF St!FourRegular, St!Measured
<1>2. CASE a # b /\ a # c /\ b = c
  BY <1>2 DEF St!FourRegular, St!Measured
<1>3. CASE a # b /\ a # c /\ b # c
  <2>1. St!FourRegular(a, b, c) = [increment |-> IF a # 0 THEN a ELSE b, random |-> TRUE]
    BY <1>3 DEF St!FourRegular
  <2> QED
    BY <2>1
<1> QED
  BY <1>1, <1>2, <1>3

\* What two, three and four answers from one address say.
LEMMA SeenIs ==
  ASSUME NEW z \in Seq(StAnswers), \A k \in 1 .. Len(z) : z[k].addr = 1
  PROVE  /\ Len(z) = 2 => St!TwoSeen(z) = St!Measured(z[2].port - z[1].port)
         /\ Len(z) = 3 => St!ThreeSeen(z) = St!Compared(z[2].port - z[1].port, z[3].port - z[2].port)
         /\ Len(z) = 4 => St!FourSeen(z) = St!FourRegular(St!W(z[2].port - z[1].port), St!W(z[3].port - z[2].port),
                                                           St!W(z[4].port - z[3].port))
<1>1. CASE Len(z) = 2
  <2>1. z[1].addr = 1 /\ z[2].addr = 1
    BY <1>1
  <2> QED
    BY <1>1, <2>1 DEF St!TwoSeen
<1>2. CASE Len(z) = 3
  <2>1. z[1].addr = 1 /\ z[2].addr = 1 /\ z[3].addr = 1
    BY <1>2
  <2> QED
    BY <1>2, <2>1 DEF St!ThreeSeen
<1>3. CASE Len(z) = 4
  <2>1. z[1].addr = 1 /\ z[2].addr = 1 /\ z[3].addr = 1 /\ z[4].addr = 1
    BY <1>3
  <2> QED
    BY <1>3, <2>1 DEF St!FourSeen
<1> QED
  BY <1>1, <1>2, <1>3

\* The increment is taken from what was seen, and with it the port after the last one.
LEMMA DoneOK ==
  ASSUME StInv, St!TestDone
  PROVE  StInv'
<1> DEFINE z == su.seen
           d == CASE Len(z) = 1 -> St!Measured(0) [] Len(z) = 2 -> St!TwoSeen(z)
                  [] Len(z) = 3 -> St!ThreeSeen(z) [] OTHER -> St!FourSeen(z)
           x == d.increment
           p == St!LastPort(z, x)
           g == su.random \/ d.random
<1>1. /\ NatOk(nat) /\ DOMAIN su = SuFields /\ z \in Seq(StAnswers) /\ su.failed \in Nat /\ su.round \in {1, 2}
      /\ su.at = "test" /\ nat' = nat
      /\ CountsUp => StCounts
  BY DEF StInv, St!TestDone
<1>2. CASE z = <<>>
  <2>1. su' = [su EXCEPT !.at = "none"]
    BY <1>2 DEF St!TestDone
  <2>2. DOMAIN su' = SuFields /\ su'.at = "none" /\ su'.seen = z /\ su'.failed = su.failed /\ su'.round = su.round
    BY <1>1, <2>1 DEF SuFields
  <2>3. ASSUME CountsUp' PROVE StCounts'
    BY <1>1, <2>2, <2>3 DEF CountsUp, StCounts
  <2> QED
    BY <1>1, <2>2, <2>3, StFrom
<1>3. CASE z # <<>>
  <2>1. su' = [su EXCEPT !.at = "candidates", !.inc = x, !.random = g, !.port = p]
    BY <1>3, Zenon DEF St!TestDone
  <2> HIDE DEF z, d, x, p, g
  <2>2. /\ DOMAIN su' = SuFields /\ su'.at = "candidates" /\ su'.inc = x /\ su'.random = g /\ su'.port = p
        /\ su'.seen = su.seen /\ su'.failed = su.failed /\ su'.round = su.round /\ su'.cands = su.cands
    BY <1>1, <2>1 DEF SuFields
  <2>3. ASSUME CountsUp' PROVE StCounts'
    <3>1. CountsUp /\ StCounts
      BY <1>1, <2>3 DEF CountsUp
    <3>2. su.round = 1 /\ ~su.random /\ su.cands = <<>> /\ StGaps /\ nat.addr = 1 /\ nat.next \in WellKnown .. PortMax
          /\ nat.step \in Int /\ nat.step >= 0 /\ nat.next \in Int
      BY <1>1, <3>1 DEF StCounts, CountsUp, NatOk
    <3>3. /\ Len(z) \in 1 .. 4
          /\ \A k \in 1 .. Len(z) : z[k].addr = 1 /\ z[k].port \in WellKnown .. PortMax /\ z[k].port \in Int
      <4>1. Len(z) \in 1 .. 4
        <5>1. Len(z) \in Nat /\ Len(z) # 0 /\ Len(z) <= 4
          BY <1>1, <1>3, <3>2 DEF StGaps, z
        <5> DEFINE o == Len(z)
        <5> HIDE DEF o
        <5>2. o \in Nat /\ o # 0 /\ o <= 4 => o \in 1 .. 4
          OBVIOUS
        <5> QED
          BY <5>1, <5>2 DEF o
      <4>2. ASSUME NEW k \in 1 .. Len(z)
            PROVE  z[k].addr = 1 /\ z[k].port \in WellKnown .. PortMax /\ z[k].port \in Int
        <5>1. z[k].addr = 1 /\ z[k].port \in WellKnown .. PortMax
          BY <3>2 DEF StGaps, z
        <5> QED
          BY <5>1
      <4> HIDE DEF z
      <4> QED
        BY <4>1, <4>2
    <3>4. \A k \in 1 .. Len(z) - 1 : z[k + 1].port - z[k].port = Gap(k) /\ Gap(k) \in Nat
      <4>1. ASSUME NEW k \in 1 .. Len(z) - 1 PROVE z[k + 1].port - z[k].port = Gap(k) /\ Gap(k) \in Nat
        <5>1. k \in 1 .. Len(z) /\ k < Len(z) /\ k + 1 \in 1 .. Len(z)
          BY <3>3
        <5>2. Gap(k) = z[k + 1].port - z[k].port
          BY <5>1 DEF Gap, z
        <5>3. Gap(k) >= 0
          BY <3>2, <5>1 DEF StGaps, z
        <5> QED
          BY <3>3, <5>1, <5>2, <5>3
      <4> QED
        BY <4>1
    <3>5. \A a, b : St!Measured(a).increment = a /\ St!Compared(a, b).increment \in {a, b}
      BY DEF St!Measured, St!Compared
    <3>6. x \in Nat
      <4>1. CASE Len(z) = 1
        BY <3>5, <4>1 DEF x, d
      <4>2. CASE Len(z) = 2
        <5>1. d = St!Measured(z[2].port - z[1].port)
          <6>1. d = St!TwoSeen(z)
            BY <4>2 DEF d
          <6> QED
            BY <1>1, <3>3, <4>2, <6>1, SeenIs
        <5>2. z[1 + 1].port - z[1].port \in Nat
          BY <3>4, <4>2
        <5> QED
          BY <3>5, <5>1, <5>2 DEF x
      <4>3. CASE Len(z) = 3
        <5>1. d = St!Compared(z[2].port - z[1].port, z[3].port - z[2].port)
          <6>1. d = St!ThreeSeen(z)
            BY <4>3 DEF d
          <6> QED
            BY <1>1, <3>3, <4>3, <6>1, SeenIs
        <5>2. z[1 + 1].port - z[1].port \in Nat /\ z[2 + 1].port - z[2].port \in Nat
          BY <3>4, <4>3
        <5> QED
          BY <3>5, <5>1, <5>2 DEF x
      <4>4. CASE Len(z) = 4
        <5>1. d = St!FourRegular(St!W(z[2].port - z[1].port), St!W(z[3].port - z[2].port), St!W(z[4].port - z[3].port))
          <6>1. d = St!FourSeen(z)
            BY <4>4 DEF d
          <6> QED
            BY <1>1, <3>3, <4>4, <6>1, SeenIs
        <5>2. /\ St!W(z[2].port - z[1].port) \in Nat /\ St!W(z[3].port - z[2].port) \in Nat
              /\ St!W(z[4].port - z[3].port) \in Nat
          BY <3>3, <4>4, CutPort
        <5> QED
          BY <5>1, <5>2, OneOfThree DEF x
      <4> QED
        BY <3>3, <4>1, <4>2, <4>3, <4>4
    <3>7. ASSUME Len(z) = 4, su.failed <= 1
          PROVE  x = nat.step /\ ~g /\ p = z[4].port /\ nat.next = p + nat.step /\ nat.step <= PortMax - WellKnown
      <4>1. PICK j \in 0 .. 3 : \A k \in 1 .. 4 : k # j => Gap(k) = nat.step
        <5>1. su.failed = 0 \/ su.failed = 1
          BY <1>1, <3>7
        <5>2. CASE su.failed = 0
          BY <3>2, <3>7, <5>2 DEF StGaps, z
        <5>3. CASE su.failed = 1
          BY <3>2, <3>7, <5>3 DEF StGaps, z
        <5> QED
          BY <5>1, <5>2, <5>3
      <4>2. Gap(4) = nat.next - z[4].port /\ Gap(4) = nat.step
        BY <3>7, <4>1 DEF Gap, z
      <4>3. z[4].port \in WellKnown .. PortMax /\ PortMax \in Nat /\ WellKnown \in Nat
        BY <3>3, <3>7, StunAssumption
      <4>4. nat.next = z[4].port + nat.step /\ nat.step <= PortMax - WellKnown /\ nat.step \in 0 .. PortMax
        <5> DEFINE i == nat.next
                   o == nat.step
                   e == z[4].port
        <5>1. i - e = o /\ i \in WellKnown .. PortMax /\ e \in WellKnown .. PortMax /\ o \in Int /\ o >= 0
          BY <3>2, <4>2, <4>3
        <5> HIDE DEF i, o, e
        <5>2. i = e + o /\ o <= PortMax - WellKnown /\ o \in 0 .. PortMax
          BY <4>3, <5>1
        <5> QED
          BY <5>2 DEF i, o, e
      <4> DEFINE a == z[2].port - z[1].port
                 b == z[3].port - z[2].port
                 c == z[4].port - z[3].port
      <4>5. a = Gap(1) /\ b = Gap(2) /\ c = Gap(3)
        <5>1. z[1 + 1].port - z[1].port = Gap(1) /\ z[2 + 1].port - z[2].port = Gap(2) /\ z[3 + 1].port - z[3].port = Gap(3)
          BY <3>4, <3>7
        <5> QED
          BY <5>1
      <4>6. a \in Int /\ b \in Int /\ c \in Int
        BY <3>3, <3>7
      <4>7. d = St!FourRegular(St!W(a), St!W(b), St!W(c))
        <5>1. d = St!FourSeen(z)
          BY <3>7 DEF d
        <5> QED
          BY <1>1, <3>3, <3>7, <5>1, SeenIs
      <4> HIDE DEF a, b, c
      <4>8. (a = nat.step /\ b = nat.step) \/ (a = nat.step /\ c = nat.step) \/ (b = nat.step /\ c = nat.step)
        BY <4>1, <4>5
      <4>9. St!W(a) \in Nat /\ St!W(b) \in Nat /\ St!W(c) \in Nat /\ St!W(nat.step) = nat.step
        BY <3>2, <4>4, <4>6, CutPort
      <4>10. x = nat.step /\ d.random = FALSE
        <5> DEFINE o == nat.step
        <5>1. \/ St!W(a) = o /\ St!W(b) = o
              \/ St!W(a) = o /\ St!W(c) = o
              \/ St!W(b) = o /\ St!W(c) = o
          BY <4>8, <4>9
        <5> HIDE DEF o
        <5>2. d.increment = o /\ d.random = FALSE
          <6> DEFINE i == St!W(a)
                     e == St!W(b)
                     f == St!W(c)
          <6>1. i \in Nat /\ e \in Nat /\ f \in Nat /\ d = St!FourRegular(i, e, f)
            BY <4>7, <4>9
          <6>2. (i = o /\ e = o) \/ (i = o /\ f = o) \/ (e = o /\ f = o)
            BY <5>1
          <6> HIDE DEF i, e, f
          <6>3. d = [increment |-> o, random |-> FALSE]
            BY <6>1, <6>2, TwoOfThree
          <6> HIDE DEF d
          <6> QED
            BY <6>3
        <5> QED
          BY <5>2 DEF o, x
      <4>11. p = z[4].port
        <5>1. p = St!W(z[4].port + 0)
          BY <3>7 DEF p, St!LastPort
        <5>2. z[4].port + 0 = z[4].port /\ z[4].port \in 0 .. PortMax /\ z[4].port \in Int
          BY <4>3
        <5> QED
          BY <5>1, <5>2, CutPort
      <4> QED
        BY <3>2, <4>4, <4>10, <4>11 DEF g
    <3>8. ASSUME StMeasured' PROVE StGuesses'
      <4>1. Len(z) = 4 /\ su.failed <= 1
        BY <2>2, <3>2, <3>8 DEF StMeasured, z
      <4>2. p \in WellKnown .. PortMax
        BY <3>3, <3>7, <4>1
      <4>3. su.cands \in Seq(WellKnown .. PortMax)
        BY <3>2
      <4> QED
        BY <1>1, <2>2, <3>2, <3>7, <4>1, <4>2, <4>3 DEF StGuesses, Knows, InPorts
    <3> QED
      BY <1>1, <2>2, <3>2, <3>6, <3>8 DEF StCounts
  <2>4. su'.seen \in Seq(StAnswers)
    BY <1>1, <2>2 DEF z
  <2> QED
    BY <1>1, <2>2, <2>3, <2>4, StFrom
<1> QED
  BY <1>2, <1>3

\* A guess within the ports, and the first one is the next port.
LEMMA GuessIs ==
  ASSUME su.port \in WellKnown .. PortMax, su.inc \in Nat, su.inc <= PortMax - WellKnown
  PROVE  LET a == St!NextGuess(su.port)
         IN /\ a \in WellKnown .. PortMax /\ St!W(a) = a
            /\ su.port + su.inc <= PortMax => a = su.port + su.inc
<1> DEFINE p == su.port
           e == su.inc
           o == p + e
           a == St!NextGuess(su.port)
<1>1. WellKnown \in Nat \ {0} /\ PortMax \in Nat /\ p \in WellKnown .. PortMax /\ e \in Nat /\ e <= PortMax - WellKnown
  BY StunAssumption
<1>2. a = IF o < WellKnown /\ p > WellKnown THEN PortMax - (WellKnown - o)
          ELSE IF o < 1 THEN o + PortMax ELSE IF o > PortMax THEN o - PortMax + WellKnown ELSE o
  BY DEF St!NextGuess
<1> SUFFICES a \in WellKnown .. PortMax /\ St!W(a) = a /\ (o <= PortMax => a = o)
  OBVIOUS
<1> HIDE DEF p, e, a
<1>3. o \in Nat /\ o >= WellKnown /\ o >= 1 /\ o - PortMax + WellKnown <= PortMax
  BY <1>1
<1> HIDE DEF o
<1>4. a = IF o > PortMax THEN o - PortMax + WellKnown ELSE o
  BY <1>1, <1>2, <1>3
<1>5. a \in WellKnown .. PortMax
  BY <1>1, <1>3, <1>4
<1>6. a \in 0 .. PortMax /\ a \in Int
  BY <1>1, <1>5
<1>7. o <= PortMax => a = o
  BY <1>1, <1>3, <1>4
<1> QED
  BY <1>5, <1>6, <1>7, CutPort

\* A candidate more.
LEMMA GuessNextOK ==
  ASSUME StInv, St!GuessNext
  PROVE  StInv'
<1> DEFINE a == St!NextGuess(su.port)
           c == Append(su.cands, St!W(a))
<1>1. /\ NatOk(nat) /\ DOMAIN su = SuFields /\ su.seen \in Seq(StAnswers) /\ su.failed \in Nat /\ su.round \in {1, 2}
      /\ su.at = "candidates" /\ su.inc # 0 /\ nat' = nat
      /\ CountsUp => StCounts
  BY DEF StInv, St!GuessNext
<1>2. su' = [su EXCEPT !.port = a, !.cands = c]
  BY DEF St!GuessNext
<1> HIDE DEF a, c
<1>3. /\ DOMAIN su' = SuFields /\ su'.port = a /\ su'.cands = c
      /\ su'.at = "candidates" /\ su'.seen = su.seen /\ su'.failed = su.failed /\ su'.round = su.round
      /\ su'.inc = su.inc /\ su'.random = su.random
  BY <1>1, <1>2 DEF SuFields
<1>4. ASSUME CountsUp' PROVE StCounts'
  <2>1. StCounts /\ (StMeasured' => StMeasured)
    BY <1>1, <1>3, <1>4 DEF CountsUp, StMeasured, Knows
  <2>2. nat.addr = 1 /\ nat.next \in WellKnown .. PortMax /\ su.inc \in Nat
    BY <1>1, <2>1 DEF StCounts
  <2>3. ASSUME StMeasured PROVE StGuesses'
    <3>1. StGuesses
      BY <1>1, <2>1, <2>3 DEF StCounts
    <3>2. /\ su.inc = nat.step /\ ~su.random /\ su.port \in WellKnown .. PortMax /\ nat.step <= PortMax - WellKnown
          /\ su.cands \in Seq(WellKnown .. PortMax)
      BY <3>1 DEF StGuesses, Knows, InPorts
    <3>3. /\ a \in WellKnown .. PortMax /\ St!W(a) = a
          /\ su.port + su.inc <= PortMax => a = su.port + su.inc
      BY <2>2, <3>2, GuessIs DEF a
    <3>4. c \in Seq(WellKnown .. PortMax) /\ c # <<>> /\ c[1] = IF su.cands = <<>> THEN a ELSE su.cands[1]
      <4>1. c = Append(su.cands, a)
        BY <3>3 DEF c
      <4> DEFINE z == su.cands
                 S == WellKnown .. PortMax
      <4>2. z \in Seq(S) /\ a \in S
        BY <3>2, <3>3
      <4> HIDE DEF z, S
      <4>3. Append(z, a) \in Seq(S) /\ Append(z, a) # <<>>
        <5>1. Append(z, a) \in Seq(S) /\ Len(Append(z, a)) = Len(z) + 1 /\ Len(z) \in Nat
          BY <4>2
        <5>2. Len(Append(z, a)) # Len(<<>>)
          BY <5>1
        <5> QED
          BY <5>1, <5>2
      <4>4. Append(z, a)[1] = IF z = <<>> THEN a ELSE z[1]
        <5>1. CASE z = <<>>
          BY <5>1
        <5>2. CASE z # <<>>
          <6>1. 1 \in 1 .. Len(z)
            BY <4>2, <5>2
          <6> QED
            BY <4>2, <5>2, <6>1
        <5> QED
          BY <5>1, <5>2
      <4> QED
        BY <4>1, <4>3, <4>4 DEF z, S
    <3>5. c[1] = nat.next
      <4>1. CASE su.cands = <<>>
        <5>1. nat.next = su.port + su.inc
          BY <3>1, <3>2, <4>1 DEF StGuesses
        <5>2. su.port + su.inc <= PortMax
          BY <2>2, <5>1, StunAssumption
        <5> QED
          BY <3>3, <3>4, <4>1, <5>1, <5>2
      <4>2. CASE su.cands # <<>>
        BY <3>1, <3>4, <4>2 DEF StGuesses
      <4> QED
        BY <4>1, <4>2
    <3> QED
      BY <1>1, <1>3, <3>2, <3>3, <3>4, <3>5 DEF StGuesses, Knows, InPorts
  <2> QED
    BY <1>1, <1>3, <2>1, <2>2, <2>3 DEF StCounts
<1> QED
  BY <1>1, <1>3, <1>4, StFrom

\* A random guess more, when the NAT was not found to be regular.
LEMMA GuessRandomOK ==
  ASSUME StInv, St!GuessRandom
  PROVE  StInv'
<1> DEFINE a == St!NextRandomGuess(su.port)
           c == Append(su.cands, St!W(su.port))
<1>1. /\ NatOk(nat) /\ DOMAIN su = SuFields /\ su.seen \in Seq(StAnswers) /\ su.failed \in Nat /\ su.round \in {1, 2}
      /\ su.at = "candidates" /\ su.random /\ nat' = nat
      /\ CountsUp => StCounts
  BY DEF StInv, St!GuessRandom
<1>2. su' = [su EXCEPT !.port = a, !.cands = c]
  BY DEF St!GuessRandom
<1> HIDE DEF a, c
<1>3. /\ DOMAIN su' = SuFields
      /\ su'.at = "candidates" /\ su'.seen = su.seen /\ su'.failed = su.failed /\ su'.round = su.round
      /\ su'.inc = su.inc /\ su'.random = su.random
  BY <1>1, <1>2 DEF SuFields
<1>4. ASSUME CountsUp' PROVE StCounts'
  <2>1. StCounts /\ (StMeasured' => StMeasured)
    BY <1>1, <1>3, <1>4 DEF CountsUp, StMeasured, Knows
  <2>2. nat.addr = 1 /\ nat.next \in WellKnown .. PortMax /\ su.inc \in Nat
    BY <1>1, <2>1 DEF StCounts
  <2>3. ~StMeasured
    BY <1>1, <2>1 DEF StCounts, StGuesses, Knows
  <2> QED
    BY <1>1, <1>3, <2>1, <2>2, <2>3 DEF StCounts
<1> QED
  BY <1>1, <1>3, <1>4, StFrom

\* The candidates are offered.
LEMMA OfferOK ==
  ASSUME StInv, St!StunCandidates
  PROVE  StInv'
<1> DEFINE c == IF su.inc = 0 THEN <<su.port>> ELSE su.cands
<1>1. /\ NatOk(nat) /\ DOMAIN su = SuFields /\ su.seen \in Seq(StAnswers) /\ su.failed \in Nat /\ su.round \in {1, 2}
      /\ su.at = "candidates" /\ nat' = nat
      /\ su.inc # 0 => Len(su.cands) = IF su.random THEN RandomGuesses ELSE Guesses
      /\ CountsUp => StCounts
  BY DEF StInv, St!StunCandidates
<1>2. su' = [su EXCEPT !.at = "offered", !.cands = c]
  BY DEF St!StunCandidates
<1> HIDE DEF c
<1>3. /\ DOMAIN su' = SuFields /\ su'.at = "offered" /\ su'.cands = c
      /\ su'.seen = su.seen /\ su'.failed = su.failed /\ su'.round = su.round
      /\ su'.inc = su.inc /\ su'.random = su.random
  BY <1>1, <1>2 DEF SuFields
<1>4. ASSUME CountsUp' PROVE StCounts'
  <2>1. StCounts /\ (StMeasured' => StMeasured)
    BY <1>1, <1>3, <1>4 DEF CountsUp, StMeasured, Knows
  <2>2. nat.addr = 1 /\ nat.next \in WellKnown .. PortMax /\ su.inc \in Nat
    BY <1>1, <2>1 DEF StCounts
  <2>3. ASSUME StMeasured PROVE c \in Seq(WellKnown .. PortMax) /\ nat.next \in {c[k] : k \in DOMAIN c}
    <3>1. StGuesses
      BY <1>1, <2>1, <2>3 DEF StCounts
    <3>2. /\ su.inc = nat.step /\ ~su.random /\ su.port \in WellKnown .. PortMax
          /\ su.cands \in Seq(WellKnown .. PortMax)
      BY <3>1 DEF StGuesses, Knows, InPorts
    <3>3. CASE su.inc = 0
      <4>1. su.cands = <<>>
        BY <3>1, <3>2, <3>3 DEF StGuesses
      <4>2. nat.next = su.port + 0
        BY <3>1, <3>2, <3>3, <4>1 DEF StGuesses
      <4>3. c = <<su.port>> /\ nat.next = su.port
        BY <3>2, <3>3, <4>2, StunAssumption DEF c
      <4>4. c \in Seq(WellKnown .. PortMax) /\ c[1] = nat.next /\ 1 \in DOMAIN c
        BY <3>2, <4>3
      <4> QED
        BY <4>4
    <3>4. CASE su.inc # 0
      <4>1. c = su.cands /\ Len(c) = Guesses
        BY <1>1, <3>2, <3>4 DEF c
      <4>2. c # <<>> /\ 1 \in DOMAIN c
        BY <3>2, <4>1, StunAssumption
      <4>3. c[1] = nat.next
        BY <3>1, <4>1, <4>2 DEF StGuesses
      <4> QED
        BY <3>2, <4>1, <4>2, <4>3
    <3> QED
      BY <3>3, <3>4
  <2> QED
    BY <1>1, <1>3, <2>1, <2>2, <2>3 DEF StCounts, InPorts
<1> QED
  BY <1>1, <1>3, <1>4, StFrom

\* The console takes the port; the next offer reuses the increment.
LEMMA AgainOK ==
  ASSUME StInv, St!get_client_addr_remote_stun
  PROVE  StInv'
<1> DEFINE o == IF su.inc = St!Unmeasured THEN "test" ELSE "ask"
<1>1. /\ NatOk(nat) /\ DOMAIN su = SuFields /\ su.at = "offered" /\ nat' = St!Advance(nat)
      /\ CountsUp => StCounts
  BY DEF StInv, St!get_client_addr_remote_stun
<1>2. su' = [su EXCEPT !.round = 2, !.i = 1, !.seen = <<>>, !.failed = 0, !.cands = <<>>, !.at = o]
  BY DEF St!get_client_addr_remote_stun
<1>3. o \in {"test", "ask"} /\ (su.inc \in Nat => o = "ask")
  BY DEF St!Unmeasured
<1> HIDE DEF o
<1>4. /\ DOMAIN su' = SuFields /\ su'.at = o /\ su'.round = 2 /\ su'.seen = <<>> /\ su'.failed = 0 /\ su'.cands = <<>>
      /\ su'.inc = su.inc
  BY <1>1, <1>2 DEF SuFields
<1>5. /\ NatOk(nat') /\ nat'.step = nat.step /\ nat'.addr = nat.addr
      /\ nat'.regular => nat.regular /\ nat'.next \in WellKnown .. PortMax
  BY <1>1, AdvanceIs
<1>6. ASSUME CountsUp' PROVE StCounts'
  <2>1. CountsUp /\ nat'.next \in WellKnown .. PortMax
    BY <1>5, <1>6 DEF CountsUp
  <2>2. nat.addr = 1 /\ su.inc \in Nat
    BY <1>1, <2>1 DEF StCounts
  <2> QED
    BY <1>3, <1>4, <1>5, <2>1, <2>2 DEF StCounts
<1> QED
  BY <1>3, <1>4, <1>5, <1>6, StFrom

\* One server is asked for the port.
LEMMA AskOK ==
  ASSUME StInv, St!stun_get_external_address
  PROVE  StInv'
<1>1. /\ NatOk(nat) /\ DOMAIN su = SuFields /\ su.seen \in Seq(StAnswers) /\ su.failed \in Nat
      /\ su.round \in {1, 2} /\ su.at = "ask"
      /\ CountsUp => StCounts
  BY DEF StInv, St!stun_get_external_address
<1>2. CASE \E x \in St!Addresses : St!Answered(x) /\ St!AskSeen(x)
  <2>1. PICK x \in St!Addresses : St!Answered(x) /\ St!AskSeen(x)
    BY <1>2
  <2>2. /\ NatOk(nat') /\ nat'.step = nat.step /\ x \in StAnswers /\ x.port = nat.next
        /\ nat'.regular => /\ nat.regular /\ x.addr = nat.addr /\ nat'.addr = nat.addr
                           /\ nat'.next = nat.next + nat.step /\ nat'.next \in WellKnown .. PortMax
    BY <1>1, <2>1, AnsweredIs
  <2>3. su' = [su EXCEPT !.at = "candidates", !.port = x.port]
    BY <2>1 DEF St!AskSeen
  <2>4. /\ DOMAIN su' = SuFields /\ su'.at = "candidates" /\ su'.port = x.port
        /\ su'.seen = su.seen /\ su'.failed = su.failed /\ su'.round = su.round
        /\ su'.inc = su.inc /\ su'.random = su.random /\ su'.cands = su.cands
    BY <1>1, <2>3 DEF SuFields
  <2>5. ASSUME CountsUp' PROVE StCounts'
    <3>1. CountsUp /\ StCounts
      BY <1>1, <2>2, <2>5 DEF CountsUp
    <3>2. su.round = 2 /\ su.cands = <<>> /\ su.inc \in Nat /\ nat.addr = 1 /\ nat.next \in WellKnown .. PortMax
      BY <1>1, <3>1 DEF StCounts
    <3>3. /\ nat'.addr = 1 /\ nat'.next = nat.next + nat.step /\ nat'.next \in WellKnown .. PortMax
          /\ nat.step \in Int /\ nat.next \in Int
      BY <1>1, <2>2, <2>5, <3>2 DEF CountsUp, NatOk
    <3>4. nat.step <= PortMax - WellKnown
      <4> DEFINE a == nat.next
                 o == nat.step
      <4>1. a \in Int /\ o \in Int /\ a \in WellKnown .. PortMax /\ a + o \in WellKnown .. PortMax
        BY <3>2, <3>3
      <4> HIDE DEF a, o
      <4>2. o <= PortMax - WellKnown
        BY <4>1, StunAssumption
      <4> QED
        BY <4>2 DEF o
    <3>5. StMeasured' => StGuesses'
      <4>1. <<>> \in Seq(WellKnown .. PortMax)
        OBVIOUS
      <4> QED
        BY <2>2, <2>4, <3>2, <3>3, <3>4, <4>1 DEF StMeasured, StGuesses, Knows, InPorts
    <3> QED
      BY <2>4, <3>2, <3>3, <3>5 DEF StCounts
  <2> QED
    BY <1>1, <2>2, <2>4, <2>5, StFrom
<1>3. CASE \E x \in BOOLEAN : St!Unanswered(x) /\ St!AskFailed(x)
  <2>1. PICK x \in BOOLEAN : St!Unanswered(x) /\ St!AskFailed(x)
    BY <1>3
  <2>2. /\ NatOk(nat') /\ nat'.step = nat.step /\ nat'.addr = nat.addr
        /\ nat'.regular => /\ nat.regular
                           /\ \/ nat'.next = nat.next
                              \/ nat'.next = nat.next + nat.step /\ nat'.next \in WellKnown .. PortMax
    BY <1>1, <2>1, UnansweredIs
  <2>3. su' = [su EXCEPT !.i = @ + 1, !.failed = su.failed + 1, !.late = x]
    BY <2>1 DEF St!AskFailed
  <2>4. /\ DOMAIN su' = SuFields /\ su'.at = "ask" /\ su'.failed = su.failed + 1
        /\ su'.seen = su.seen /\ su'.round = su.round /\ su'.inc = su.inc /\ su'.cands = su.cands
    BY <1>1, <2>3 DEF SuFields
  <2>5. ASSUME CountsUp' PROVE StCounts'
    <3>1. CountsUp /\ StCounts
      BY <1>1, <2>2, <2>5 DEF CountsUp
    <3>2. su.round = 2 /\ su.cands = <<>> /\ su.inc \in Nat /\ nat.addr = 1 /\ nat.next \in WellKnown .. PortMax
      BY <1>1, <3>1 DEF StCounts
    <3>3. nat'.next \in WellKnown .. PortMax
      BY <2>2, <2>5, <3>2 DEF CountsUp
    <3> QED
      BY <2>2, <2>4, <3>2, <3>3 DEF StCounts
  <2>6. su'.failed \in Nat
    BY <1>1, <2>4
  <2> QED
    BY <1>1, <2>2, <2>4, <2>5, <2>6, StFrom
<1> QED
  BY <1>2, <1>3 DEF St!stun_get_external_address

\* No server answered.
LEMMA AskDoneOK ==
  ASSUME StInv, St!AskDone
  PROVE  StInv'
<1>1. /\ NatOk(nat) /\ DOMAIN su = SuFields /\ su.seen \in Seq(StAnswers) /\ su.failed \in Nat
      /\ su.round \in {1, 2} /\ su.at = "ask" /\ nat' = nat /\ su' = [su EXCEPT !.at = "none"]
      /\ CountsUp => StCounts
  BY DEF StInv, St!AskDone
<1>2. DOMAIN su' = SuFields /\ su'.at = "none" /\ su'.seen = su.seen /\ su'.failed = su.failed /\ su'.round = su.round
  BY <1>1 DEF SuFields
<1>3. ASSUME CountsUp' PROVE StCounts'
  BY <1>1, <1>2, <1>3 DEF CountsUp, StCounts
<1> QED
  BY <1>1, <1>2, <1>3, StFrom

\* Every step keeps it.
LEMMA StunStep == StInv /\ [St!NextStun]_stun => StInv'
<1> SUFFICES ASSUME StInv, [St!NextStun]_stun PROVE StInv'
  OBVIOUS
<1>1. CASE UNCHANGED stun
  <2>1. nat' = nat /\ su' = su
    BY <1>1 DEF stun
  <2>2. CountsUp' <=> CountsUp
    BY <2>1 DEF CountsUp
  <2>3. StCounts => StCounts'
    BY <2>1 DEF StCounts, StGaps, Gap, StMeasured, Knows, StGuesses, InPorts
  <2> QED
    BY <2>1, <2>2, <2>3 DEF StInv
<1>2. CASE St!NextStun
  BY <1>2, StartOK, TestOK, DoneOK, GuessNextOK, GuessRandomOK, OfferOK, AgainOK, AskOK, AskDoneOK DEF St!NextStun
<1> QED
  BY <1>1, <1>2

\* The promise follows.
LEMMA StunFollows == StInv => PredictionHits
<1> SUFFICES ASSUME StInv,
                    su.at = "offered", nat.regular, nat.step >= 0, su.failed <= 1,
                    IF su.round = 1 THEN Len(su.seen) = 4 ELSE su.inc = nat.step /\ ~su.random
             PROVE  /\ nat.next \in {su.cands[k] : k \in DOMAIN su.cands}
                    /\ \A k \in DOMAIN su.cands : su.cands[k] \in WellKnown .. PortMax
  BY DEF PredictionHits, St!PredictionHits
<1>1. StMeasured /\ StCounts
  BY DEF StInv, CountsUp, StMeasured, Knows
<1>2. nat.next \in {su.cands[k] : k \in DOMAIN su.cands} /\ su.cands \in Seq(WellKnown .. PortMax)
  BY <1>1 DEF StCounts, InPorts
<1>3. \A k \in DOMAIN su.cands : su.cands[k] \in WellKnown .. PortMax
  <2> DEFINE z == su.cands
             S == WellKnown .. PortMax
  <2>1. z \in Seq(S)
    BY <1>2
  <2> HIDE DEF z, S
  <2>2. \A k \in DOMAIN z : z[k] \in S
    BY <2>1
  <2> QED
    BY <2>2 DEF z, S
<1> QED
  BY <1>2, <1>3

-----------------------------------------------------------------------------
(* The theorems about Remote. *)

\* The inductive invariant of Remote.
RemoteIInv == HpInv /\ RegistInv /\ RuInv /\ StInv

\* The parts do not share state, so each keeps its own part of the invariant.
THEOREM RemoteInductive == RemoteSpec => []RemoteIInv
<1>1. InitRemote => RemoteIInv
  BY HpInit, RegistInit, RuInit, StInit DEF InitRemote, RemoteIInv
<1>2. RemoteIInv /\ [NextRemote]_<<hp, rudp, regist, stun>> => RemoteIInv'
  <2> SUFFICES ASSUME RemoteIInv, [NextRemote]_<<hp, rudp, regist, stun>> PROVE RemoteIInv'
    OBVIOUS
  <2>1. [Hp!NextHp]_hp /\ [Ru!NextRudp]_rudp /\ [Rg!NextRegist]_regist /\ [St!NextStun]_stun
    BY DEF NextRemote
  <2> QED
    BY <2>1, HpStep, RegistStep, RudpStep, StunStep DEF RemoteIInv
<1> QED
  BY <1>1, <1>2, PTL DEF RemoteSpec

\* The hole punching session is freed only after its websocket thread has ended, a connection
\* is established only when both sides accepted, the data connection after the control
\* connection, and a socket that was handed out stays open and is not shared (holepunch.c),
\* whatever notifications come, for every number of tries and candidates.
THEOREM HolepunchIsSafeHolds == RemoteSpec => []HolepunchIsSafe
<1>1. RemoteIInv => HolepunchIsSafe
  BY DEF RemoteIInv, HpInv
<1> QED
  BY <1>1, RemoteInductive, PTL

\* Registration reports exactly once, success only with all keys, and leaves no socket open
\* but those it is known to lose (regist.c), for every number of addresses.
THEOREM RegistReportsHolds == RemoteSpec => []RegistReports
<1>1. RemoteIInv => RegistReports
  BY RegistFollows DEF RemoteIInv
<1> QED
  BY <1>1, RemoteInductive, PTL

\* Two threads never put the same counter on the wire, and a ctrl message that the console has
\* not received is kept until the buffer's thread gives up, although the number it is kept
\* under is read after the mutex was released (rudp.c, rudpsendbuffer.c); for any threads,
\* buffer size and tries.
THEOREM RudpKeptUntilReceivedHolds == RemoteSpec => []RudpKeptUntilReceived
<1>1. RemoteIInv => RudpKeptUntilReceived
  BY DEF RemoteIInv, RuInv
<1> QED
  BY <1>1, RemoteInductive, PTL

\* Against a NAT that counts up regularly, with at most one server that does not answer,
\* the port it will give the console is among the candidates, and all of those are ports
\* that it may give out (stun.h, holepunch.c); for any ports, steps, servers and guesses.
THEOREM PredictionHitsHolds == RemoteSpec => []PredictionHits
<1>1. RemoteIInv => PredictionHits
  BY StunFollows DEF RemoteIInv
<1> QED
  BY <1>1, RemoteInductive, PTL
=============================================================================
