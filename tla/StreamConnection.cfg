CONSTANTS
  Controllers = {c1, c2}
SPECIFICATION FairSpec
INVARIANTS  NothingIsSkipped FeedbackIsCurrent
PROPERTIES RunEnds
CHECK_DEADLOCK FALSE
