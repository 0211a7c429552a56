CONSTANTS
  Slots = {b1, b2}
  Heap = Heap
  None = None
  MaxPackets = 5
SPECIFICATION FairSpec
INVARIANTS BuffersAreSafe HandledInOrder CleanShutdown
PROPERTIES WorkersProgress
CHECK_DEADLOCK FALSE
