CONSTANTS
  Half = 4
  Senders = {s1, s2}
  packets_size = 2
  TRIES_MAX = 1
  Start = 7
  MaxSent = 3
SPECIFICATION Spec
SYMMETRY Symmetry
INVARIANTS SendingIsReliable
CHECK_DEADLOCK FALSE
