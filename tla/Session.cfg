CONSTANTS
  MaxEvents = 3
SPECIFICATION FairSpec
INVARIANTS QuitEventIsLast StreamHasSessionId PinsWereAsked
PROPERTIES StopEnds MessagesAreHandled
CHECK_DEADLOCK FALSE
