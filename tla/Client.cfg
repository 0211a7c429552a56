SPECIFICATION FairClientSpec
CONSTANTS
  Consoles = {"a", "b", "c"}
  HostsMax = 3
  HostDropPings = 1
  NHosts = 2
  MaxChanges = 2
  MaxCrashes = 1
  PageSize = 2
  MaxLoads = 2
  MaxLockSessionRetries = 2
  DefaultAllocationWait = 3
  MaxAllocationWait = 5
  Estimates = {0, 1, 4, 12}
  Polls = {0, 2}
  IntHalf = 16
  MAX_FRAME_COUNT = 3
  VIDEO_DECODE_QUEUE_MAX = 2
  PacingStreak = 2
  MaxSamples = 4
  MaxStreams = 2
  Fingers = {1, 2}
  BorderFingers = {1}
  TouchIds = 3
  HoldFrames = 2
  TapFrames = 2
  SwipeFrames = 3
  AudioLimit = 2
  U8 = 4
INVARIANTS
  
  HostsAreFresh
  AllocationIsSound
  StreamIsSafe
  ControllerIsTrue
PROPERTIES
  ClientPartsEnd
CHECK_DEADLOCK FALSE
