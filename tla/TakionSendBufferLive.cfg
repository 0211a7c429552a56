CONSTANTS
  Half = 3
  Senders = {s1, s2}
  packets_size = 2
  TRIES_MAX = 1
  Start = 5
  MaxSent = 2
SPECIFICATION FairSpec
PROPERTIES ResendProgress
CHECK_DEADLOCK FALSE
