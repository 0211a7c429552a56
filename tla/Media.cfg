CONSTANTS
  VHalf = 4
  RefFrames = 2
  SrcUnits = 2
  MaxVFrames = 5
  MaxBehind = 1
  MaxSkip = 2
  FirstFrames = {1, 6}
  AHalf = 4
  ASrc = 2
  AFec = 1
  MaxAudio = 9
  MaxFaults = 2
  MaxReports = 2
  U64 = 4096
  FEEDBACK_HISTORY_BUFFER_SIZE = 3
  Buttons = {1, 2}
  MaxInputs = 3
  MinMtu = 1
  MaxMtu = 4
  MtuRetries = 2
  PingCount = 1
  PathMtus = {1, 3}
  MaxLate = 1
  KEY_BUF_CHUNK_SIZE = 2
  KeyBufChunks = 2
  KeyHalf = 4
  KeyRefresh = 4
  BlockSize = 4
  Sizes = {1, 3}
  KeySenders = {a, b}
  MaxKeyPos = 17
  MAX_CONNECT_RESEND_TRIES = 3
  MaxDups = 2
SPECIFICATION FairSpec
INVARIANTS   HistoryTellsAll  ConnectingIsSound
PROPERTIES MediaPartsEnd
CHECK_DEADLOCK FALSE
