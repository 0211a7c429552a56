CONSTANTS
  Half = 3
  Senders = {s1}
  packets_size = 1
  TRIES_MAX = 1
  Start = 5
  MaxSent = 1
SPECIFICATION FairSpec
PROPERTIES StopEnds
CHECK_DEADLOCK FALSE
