CONSTANTS
  Half = 6
  QUEUE_SIZE = 3
  Elems = {e1, e2, e3}
  NoElem = NoElem
  First = 10
  Messages = 4
  Bang = 1
  POSTPONE_SIZE = 1
  MaxAV = 2
SPECIFICATION FairSpec
INVARIANTS DeliveryIsReliable 
PROPERTIES EverythingDelivered ImplementsChannel
CHECK_DEADLOCK FALSE
