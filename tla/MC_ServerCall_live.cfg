\* A websocket that may never answer.
SPECIFICATION FairSpec
CONSTANTS
  c1 = c1
  c2 = c2
  c3 = c3
  c4 = c4
  Calls = {c1, c2, c3}
  Transports <- TwoTransports
  GroupCapable <- TwoTransports
  Steady <- OnlyAjax
  Accepts <- Mixed
  Sync = {c3}
  Remote = {}
  Lossy = {2}
  MaxAttempts = 2
PROPERTIES
  PromiseKept
CHECK_DEADLOCK FALSE
