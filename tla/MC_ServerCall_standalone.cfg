\* A standalone page: two script files that no transport can carry as a group, a call to another host.
SPECIFICATION Spec
CONSTANTS
  c1 = c1
  c2 = c2
  c3 = c3
  c4 = c4
  Calls = {c1, c2, c3, c4}
  Transports <- AllTransports
  GroupCapable <- TwoTransports
  Steady <- NotWebsocket
  Accepts <- Standalone
  Sync = {c3, c4}
  Remote = {c2}
  Lossy = {}
  MaxAttempts = 2
PROPERTIES
  Promise
CHECK_DEADLOCK FALSE
