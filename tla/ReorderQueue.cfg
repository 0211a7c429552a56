CONSTANTS
  Half = 6
  QUEUE_SIZE = 3
  Elems = {e1, e2, e3}
  NoElem = NoElem
SPECIFICATION Spec
SYMMETRY Symmetry
INVARIANTS HeldUnderOwnNumber OwnedIsHeld
PROPERTIES ImplementsBuffer AcceptsWhatFits
CHECK_DEADLOCK FALSE
