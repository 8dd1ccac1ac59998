SPECIFICATION Spec
CONSTANTS
  MaxPids = 2
  MaxRequests = 2
  MaxFaults = 1
  MaxMessages = 1
  MaxConnects = 2
  PanelOrders = {"status", "stop"}
  OtherOrders = {"start", "restart"}
  MaxOrders = 1
INVARIANTS
  TypeOK
  ServerKnown
PROPERTIES
  AnsweredOrLost
CHECK_DEADLOCK FALSE
