CONSTANTS
  MaxExtra = 1
  SELECT_CANDIDATE_TRIES = 1
  RudpHalf = 4
  RudpThreads = {a, b}
  RUDP_SEND_BUFFER_SIZE = 2
  RUDP_DATA_RESEND_TRIES_MAX = 1
  Tries = 3
  MaxCtrl = 2
  MaxStray = 1
  MaxAddrs = 2
  PortMax = 31
  WellKnown = 4
  Dynamic = 24
  StunServers = 5
  Guesses = 3
  RandomGuesses = 5
  NatStarts = {4, 12, 28}
  Steps = {0, 1, 2}
SPECIFICATION FairRemoteSpec
INVARIANTS  RudpKeptUntilReceived RegistReports PredictionHits
PROPERTIES RemotePartsEnd
CHECK_DEADLOCK FALSE
