SPECIFICATION FairClientSpec
CONSTANTS
  Consoles = {}
  HostsMax = 1
  HostDropPings = 1
  NHosts = 1
  MaxChanges = 1
  MaxCrashes = 0
  PageSize = 2
  MaxLoads = 0
  MaxLockSessionRetries = 0
  DefaultAllocationWait = 1
  MaxAllocationWait = 1
  Estimates = {0}
  Polls = {0}
  IntHalf = 16
  MAX_FRAME_COUNT = 3
  VIDEO_DECODE_QUEUE_MAX = 1
  PacingStreak = 1
  MaxSamples = 1
  MaxStreams = 1
  Fingers = {}
  BorderFingers = {}
  TouchIds = 3
  HoldFrames = 2
  TapFrames = 2
  SwipeFrames = 3
  AudioLimit = 1
  U8 = 4
PROPERTY QuitTearsDown
CHECK_DEADLOCK FALSE
