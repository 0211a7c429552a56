------------------------------- MODULE Client -------------------------------
(***************************************************************************)
(* The parts of the Switch client around a session: finding consoles,      *)
(* the settings' file, the lists of cloud games, allocating a cloud slot,  *)
(* the stream's view with its decode thread, the controller, sound and     *)
(* vibration.                                                              *)
(* Each part is explored by itself, the others not having begun: what it   *)
(* takes from the others (an allocation that succeeds or fails, a request  *)
(* to leave from the controller) is chosen freely in it.                   *)
(***************************************************************************)
EXTENDS Integers, Sequences, FiniteSets

CONSTANTS Consoles, HostsMax, HostDropPings
CONSTANTS NHosts, MaxChanges, MaxCrashes, PageSize, MaxLoads
CONSTANTS MaxLockSessionRetries, DefaultAllocationWait, MaxAllocationWait, Estimates, Polls, IntHalf
CONSTANTS MAX_FRAME_COUNT, VIDEO_DECODE_QUEUE_MAX, PacingStreak, MaxSamples, MaxStreams
CONSTANTS Fingers, BorderFingers, TouchIds, HoldFrames, TapFrames, SwipeFrames
CONSTANTS AudioLimit, U8

ASSUME DiscoveryAssumption == HostsMax \in Nat /\ HostDropPings \in Nat
ASSUME SettingsAssumption == NHosts \in Nat
ASSUME LibraryAssumption == PageSize \in Nat
ASSUME AllocationAssumption ==
  /\ {DefaultAllocationWait, MaxAllocationWait} \subseteq Int /\ DefaultAllocationWait <= MaxAllocationWait
  /\ Estimates \subseteq Int /\ Polls \subseteq Int
  /\ IntHalf \in Nat \ {0}
ASSUME PicturesAssumption == MAX_FRAME_COUNT \in Nat \ {0}
ASSUME InputAssumption ==
  /\ Fingers \subseteq Nat /\ BorderFingers \subseteq Fingers
  /\ TouchIds \in Nat \ {0}
  /\ {HoldFrames, TapFrames, SwipeFrames} \subseteq Nat /\ TapFrames <= SwipeFrames
ASSUME SoundAssumption == AudioLimit \in Nat /\ U8 \in Nat \ {0}

VARIABLES dv
VARIABLES cf, cl
VARIABLES ca
VARIABLES sw, pic
VARIABLES ci
VARIABLES snd

clientVars == <<dv, cf, cl, ca, sw, pic, ci, snd>>

Dv == INSTANCE Discovery
Cf == INSTANCE Settings
Cl == INSTANCE CloudLibrary
Ca == INSTANCE CloudAllocation
Sv == INSTANCE StreamView
Ci == INSTANCE ControllerInput
Sr == INSTANCE SoundAndRumble

InitClient ==
  /\ Dv!InitDiscovery /\ Cf!InitSettings /\ Cl!InitLibrary /\ Ca!InitAllocation /\ Sv!InitStream /\ Ci!InitInput /\ Sr!InitSound

\* No part but x has begun.
OnlyClient(x) ==
  /\ x # "discovery" => dv.owner = "off"
  /\ x # "settings" => cf.at = "off"
  /\ x # "library" => cl.at = "off"
  /\ x # "allocation" => ca.at = "off"
  /\ x # "stream" => sw.streams = 0
  /\ x # "input" => ~ci.on
  /\ x # "sound" => ~snd.on

NextClient ==
  \/ OnlyClient("discovery") /\ Dv!NextDiscovery /\ UNCHANGED <<cf, cl, ca, sw, pic, ci, snd>>
  \/ OnlyClient("settings") /\ Cf!NextSettings /\ UNCHANGED <<dv, cl, ca, sw, pic, ci, snd>>
  \/ OnlyClient("library") /\ Cl!NextLibrary /\ UNCHANGED <<dv, cf, ca, sw, pic, ci, snd>>
  \/ OnlyClient("allocation") /\ Ca!NextAllocation /\ UNCHANGED <<dv, cf, cl, sw, pic, ci, snd>>
  \/ OnlyClient("stream") /\ Sv!NextStream /\ UNCHANGED <<dv, cf, cl, ca, ci, snd>>
  \/ OnlyClient("input") /\ Ci!NextInput /\ UNCHANGED <<dv, cf, cl, ca, sw, pic, snd>>
  \/ OnlyClient("sound") /\ Sr!NextSound /\ UNCHANGED <<dv, cf, cl, ca, sw, pic, ci>>

ClientSpec == InitClient /\ [][NextClient]_clientVars

\* The main loop, the decode thread and a session that connects or is stopped go on. Nothing
\* makes the user start a stream, the console send video or end a stream that is up.
FairStream ==
  /\ WF_<<sw, pic>>(Sv!MainThread)
  /\ WF_<<sw, pic>>(Sv!DecodeThread)
  /\ WF_<<sw, pic>>(Sv!SessionThread)
FairClientSpec == ClientSpec /\ FairStream /\ Dv!FairDiscovery /\ Ca!FairAllocation

\* A console that stopped answering is dropped from the list after host_drop_pings pings (one
\* more when it moved into the first place), and the callback knows the list (Discovery).
HostsAreFresh == Dv!HostsAreFresh

\* What was saved is there after a start, and whatever a switch-off cut from the file, no
\* console is registered with keys that are not whole (Settings); the library has every title
\* the account may stream, each once, and after a refresh no other account's (CloudLibrary).
AccountIsKept == Cf!SettingsAreKept /\ Cl!LibraryIsRight

\* Every request of the allocation is sent with the key of the last answer, and a slot is
\* reported only for a checked title in a locked session (CloudAllocation).
AllocationIsSound == Ca!AllocationIsSound

\* A request to leave never reaches the next stream, and decoder and pictures outlive the
\* threads that use them; the GPU shows what the renderer believes it does, and a picture is
\* overwritten during its upload only when the decode thread ran through all the others
\* (StreamView).
StreamIsSafe == Sv!TeardownIsSafe /\ Sv!PictureIsCurrent

\* The console is told only of buttons and touches that are there (ControllerInput), and
\* motors that haptics switched on are switched off by later audio (SoundAndRumble).
ControllerIsTrue == Ci!InputIsReal /\ Sr!MotorsAreWatched

\* The discovery service ends when it is told to, an allocation ends, and a stream that was
\* shown is taken down.
ClientPartsEnd == Dv!DiscoveryEnds /\ Ca!AllocationEnds /\ Sv!ViewCloses

\* Every stream that quits is taken down by the main thread, as the quit callback's comment
\* in cloud_game_list.cpp says (StreamView).
QuitTearsDown == Sv!QuitTearsDown
=============================================================================
