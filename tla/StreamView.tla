---------------------------- MODULE StreamView ----------------------------
(***************************************************************************)
(* A cloud stream as the Switch client runs it (host.cpp, io.cpp,          *)
(* views/cloud_game_list.cpp, views/ps_remote_play.cpp). The main thread   *)
(* prepares and starts the session, draws the stream's view once the       *)
(* session's thread has pushed it, and tears everything down; the session  *)
(* delivers events and video samples; the decode thread turns queued       *)
(* samples into one of MAX_FRAME_COUNT pictures, which the main thread     *)
(* uploads to the GPU without a lock.                                      *)
(***************************************************************************)
EXTENDS Integers, Sequences

CONSTANTS
  MAX_FRAME_COUNT,         \* pictures between the decode thread and the renderer
  VIDEO_DECODE_QUEUE_MAX,  \* samples waiting for the decode thread
  PacingStreak,            \* equal gaps that make a cadence (8 in the code)
  MaxSamples,              \* bound: samples of one stream
  MaxStreams               \* bound: streams the user starts

VARIABLES
  sw,    \* the main thread, the session's thread, the decode thread and what they share
  pic    \* the pictures, the generations and the pacing

NoPicture ==
  [current |-> 0, next |-> 0, slot |-> [k \in 0..MAX_FRAME_COUNT - 1 |-> 0], decoded |-> 0, rendered |-> 0]
NoPacing == [smooth |-> FALSE, phase |-> 0, period |-> 1, fast |-> 0, slow |-> 0, last |-> FALSE]

InitStream ==
  /\ sw = [main |-> "menu", blocked |-> FALSE, view |-> FALSE, exit |-> FALSE, session_init |-> FALSE,
           sess |-> "none", stop |-> FALSE, codec |-> FALSE, frames |-> "none", running |-> FALSE,
           dec |-> "none", queue |-> 0, samples |-> 0, streams |-> 0, mark |-> "unknown"]
  /\ pic = [p |-> NoPicture, pacing |-> NoPacing, texture |-> 0, seen |-> 0, index |-> 0, laps |-> 0]

-----------------------------------------------------------------------------
(* The main thread starts a stream *)

\* StartPsnowGame, StartPscloudGame: input is blocked before the allocation and unblocked when it fails.
StartGame ==
  /\ sw.main = "menu" /\ ~sw.blocked /\ ~sw.view /\ sw.streams < MaxStreams
  /\ sw' = [sw EXCEPT !.main = "allocate", !.blocked = TRUE, !.streams = @ + 1]
  /\ UNCHANGED pic

\* RecordStreamOutcome: the title's mark, kept in the settings.
Recorded(s, success) == [s EXCEPT !.mark = IF success THEN "streamable" ELSE "not streamable"]

\* A failed allocation, and the catch block of StartCloudStream: neither the video nor the
\* session_init flag is touched.
GiveUp(s) == Recorded([s EXCEPT !.main = "menu", !.blocked = FALSE], FALSE)

Allocates ==
  /\ sw.main = "allocate"
  /\ \/ sw' = GiveUp(sw)
     \/ sw' = [sw EXCEPT !.main = "codec"]
  /\ UNCHANGED pic

\* The beginning of InitSession: SetVideoPacing and InitAVCodec.
SetVideoPacing(smooth) == pic' = [pic EXCEPT !.pacing = [NoPacing EXCEPT !.smooth = smooth]]
InitAVCodec ==
  /\ sw.main = "codec"
  /\ \E smooth \in BOOLEAN : SetVideoPacing(smooth)
  /\ \/ sw' = GiveUp(sw)
     \/ sw' = [sw EXCEPT !.main = "video", !.codec = TRUE]

\* A std::thread that is assigned while it is joinable ends the program.
IsJoinable == sw.dec # "none"

\* InitOpenGl may fail, which gives up. When a picture cannot be allocated the function
\* returns -1, which as a bool is a success: the stream goes on without a new decode thread.
InitVideo ==
  /\ sw.main = "video"
  /\ \/ sw' = GiveUp([sw EXCEPT !.frames = "all"])
     \/ sw' = [sw EXCEPT !.frames = "some", !.main = "session"]
     \/ sw' = IF IsJoinable THEN [sw EXCEPT !.frames = "all", !.main = "terminated"]
              ELSE [sw EXCEPT !.frames = "all", !.main = "session", !.running = TRUE, !.dec = "wait"]
  /\ UNCHANGED pic

\* The end of InitSession: chiaki_session_init.
InitSession ==
  /\ sw.main = "session"
  /\ \/ sw' = GiveUp(sw)
     \/ sw' = [sw EXCEPT !.main = "start", !.session_init = TRUE, !.samples = 0]
  /\ UNCHANGED pic

StartSession ==
  /\ sw.main = "start"
  /\ \/ sw' = GiveUp(sw)
     \/ sw' = [sw EXCEPT !.main = "menu", !.sess = "connecting", !.stop = FALSE]
  /\ UNCHANGED pic

-----------------------------------------------------------------------------
(* The session's thread: events and samples *)

\* CHIAKI_EVENT_CONNECTED: the callback pushes the view.
EventConnected ==
  /\ sw.sess = "connecting" /\ ~sw.stop
  /\ sw' = Recorded([sw EXCEPT !.sess = "connected", !.view = TRUE], TRUE)
  /\ UNCHANGED pic

\* CHIAKI_EVENT_QUIT, the last event: the console ended the stream, it could not begin, or
\* chiaki_session_stop was called.
EventQuit ==
  /\ sw.sess \in {"connecting", "connected"}
  /\ sw' = [sw EXCEPT !.sess = "quit", !.exit = TRUE]
  /\ UNCHANGED pic

\* A full queue loses its oldest sample.
VideoCB ==
  /\ sw.sess = "connected" /\ sw.samples < MaxSamples
  /\ sw' = [sw EXCEPT !.queue = IF @ >= VIDEO_DECODE_QUEUE_MAX THEN @ ELSE @ + 1, !.samples = @ + 1]
  /\ UNCHANGED pic

-----------------------------------------------------------------------------
(* The decode thread *)

VideoDecodeThreadTakes ==
  /\ sw.dec = "wait" /\ (~sw.running \/ sw.queue > 0)
  /\ sw' = IF sw.queue = 0 THEN [sw EXCEPT !.dec = "ended"]
           ELSE [sw EXCEPT !.dec = "decode", !.queue = @ - 1]
  /\ UNCHANGED pic

\* DecodeFrame: libav takes the sample and may or may not give a picture, which is written
\* into frames[next_frame] and then published.
DecodeNothing == sw.dec = "decode" /\ sw' = [sw EXCEPT !.dec = "wait"] /\ UNCHANGED pic

NextFrame(k) == (k + 1) % MAX_FRAME_COUNT
DecodeStores ==
  /\ sw.dec = "decode"
  /\ sw' = [sw EXCEPT !.dec = "stored"]
  /\ pic' = [pic EXCEPT !.p.slot[pic.p.next] = pic.p.decoded + 1, !.p.current = pic.p.next,
                        !.p.next = NextFrame(pic.p.next), !.laps = IF sw.main = "upload" THEN @ + 1 ELSE @]

\* The gap since the last picture: short, medium or longer; a streak of one kind sets the period.
Longer(streak) == IF streak >= PacingStreak THEN streak ELSE streak + 1
Cadence(c, gap) ==
  LET f == Longer(c.fast)  s == Longer(c.slow)
  IN CASE ~c.last \/ gap = "long" -> [c EXCEPT !.last = TRUE]
       [] c.last /\ gap = "short" ->
            [c EXCEPT !.fast = f, !.slow = 0, !.period = IF f >= PacingStreak THEN 1 ELSE @]
       [] c.last /\ gap = "medium" ->
            [c EXCEPT !.slow = s, !.fast = 0, !.period = IF s >= PacingStreak THEN 2 ELSE @]
DecodePublishes ==
  /\ sw.dec = "stored"
  /\ sw' = [sw EXCEPT !.dec = "wait"]
  /\ \E gap \in {"short", "medium", "long"} :
       pic' = [pic EXCEPT !.p.decoded = @ + 1, !.pacing = Cadence(@, gap)]

-----------------------------------------------------------------------------
(* The main thread draws the view *)

\* OpenGlDraw reads the generation, then the index, then uploads that picture.
CadenceDue == pic.pacing.smooth => pic.pacing.phase + 1 >= pic.pacing.period
NextPhase == IF ~pic.pacing.smooth THEN pic.pacing.phase ELSE IF CadenceDue THEN 0 ELSE pic.pacing.phase + 1
OpenGlDraw ==
  /\ sw.main = "menu" /\ sw.view
  /\ sw' = [sw EXCEPT !.main = IF pic.p.decoded # pic.p.rendered /\ CadenceDue THEN "load" ELSE "input"]
  /\ pic' = [pic EXCEPT !.seen = pic.p.decoded, !.pacing.phase = NextPhase]

DrawLoads ==
  /\ sw.main = "load"
  /\ sw' = [sw EXCEPT !.main = "upload"]
  /\ pic' = [pic EXCEPT !.index = pic.p.current, !.laps = 0]

DrawUploads ==
  /\ sw.main = "upload"
  /\ sw' = [sw EXCEPT !.main = "input"]
  /\ pic' = [pic EXCEPT !.texture = pic.p.slot[pic.index], !.p.rendered = pic.seen]

\* SendFeedbackState reads the controller, which may ask to leave; then exit_stream_requested
\* is taken: StopSession.
DrawInput ==
  /\ sw.main = "input"
  /\ \E leave \in BOOLEAN :
       sw' = IF sw.exit \/ leave THEN [sw EXCEPT !.exit = FALSE, !.stop = TRUE, !.main = "join"]
             ELSE [sw EXCEPT !.main = "menu"]
  /\ UNCHANGED pic

\* FiniSession joins the session's thread if the session was initialised; a request that
\* came meanwhile is dropped.
FiniSession__keeps_request ==
  /\ sw.main = "join" /\ (sw.session_init => sw.sess = "quit")
  /\ sw' = [sw EXCEPT !.main = "free", !.session_init = FALSE, !.sess = "none"]
  /\ UNCHANGED pic
FiniSession ==
  /\ sw.main = "join" /\ (sw.session_init => sw.sess = "quit")
  /\ sw' = [sw EXCEPT !.main = "free", !.session_init = FALSE, !.sess = "none", !.exit = FALSE]
  /\ UNCHANGED pic

FreeVideo ==
  /\ sw.main = "free"
  /\ sw' = [sw EXCEPT !.main = "freeing", !.running = IF IsJoinable THEN FALSE ELSE @]
  /\ UNCHANGED pic

\* The decode thread has ended: the rest of FreeVideo, unblockInputs and popView. Of pictures
\* that were not all allocated it frees pointers nobody set, which may end the program.
Freed ==
  /\ sw.main = "freeing" /\ sw.dec \in {"none", "ended"}
  /\ \/ sw' = [sw EXCEPT !.main = "menu", !.dec = "none", !.queue = 0, !.codec = FALSE, !.frames = "none",
                         !.blocked = FALSE, !.view = FALSE]
     \/ sw.frames = "some" /\ sw' = [sw EXCEPT !.main = "terminated", !.dec = "none"]
  /\ pic' = [pic EXCEPT !.p = NoPicture]

-----------------------------------------------------------------------------
MainThread ==
  \/ Allocates \/ InitAVCodec \/ InitVideo \/ InitSession \/ StartSession
  \/ OpenGlDraw \/ DrawLoads \/ DrawUploads \/ DrawInput \/ FiniSession \/ FreeVideo \/ Freed
DecodeThread == VideoDecodeThreadTakes \/ DecodeNothing \/ DecodeStores \/ DecodePublishes
NextStream == StartGame \/ MainThread \/ EventConnected \/ EventQuit \/ VideoCB \/ DecodeThread

\* What goes on by itself: a session connects or gives up after its timeouts, and one that is
\* stopped sends its last event.
SessionThread == (sw.sess = "connecting" \/ sw.stop) /\ (EventConnected \/ EventQuit)

\* A request to leave never outlives its stream; while samples can still come there are a
\* decoder and, unless memory was short, pictures to take them, and the pictures are given
\* back only after the decode thread ended.
TeardownIsSafe ==
  /\ sw.exit => sw.sess # "none"
  /\ sw.sess = "connected" =>
       /\ sw.codec /\ sw.frames # "none"
       /\ sw.frames = "all" => sw.running /\ sw.dec \in {"wait", "decode", "stored"}
  /\ sw.dec \in {"decode", "stored"} => sw.codec /\ sw.frames # "none"
  /\ sw.view => sw.blocked

\* What the GPU shows is at least as new as the renderer believes, and the decode thread
\* writes into the picture being uploaded only after it finished all the others since.
PictureIsCurrent ==
  /\ sw.frames # "none" => pic.texture >= pic.p.rendered
  /\ sw.main = "upload" /\ sw.dec = "decode" /\ pic.index = pic.p.next => pic.laps >= MAX_FRAME_COUNT - 1

\* A stream that was shown and ended, or that the user leaves, is taken down and the menu
\* gets its input back, unless freeing ended the program; the last picture decoded is shown
\* while the stream lasts.
ViewCloses ==
  /\ (sw.view /\ (sw.sess = "quit" \/ sw.stop))
       ~> (sw.main = "menu" /\ ~sw.view /\ ~sw.blocked) \/ sw.main = "terminated"
  /\ (sw.view /\ pic.p.rendered # pic.p.decoded)
       ~> (~sw.view \/ sw.main = "terminated" \/ pic.p.rendered = pic.p.decoded)

\* Every stream that quits is taken down by the main thread (cloud_game_list.cpp:82-85).
QuitTearsDown == sw.sess = "quit" ~> sw.sess = "none"
=============================================================================
