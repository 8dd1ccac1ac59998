\* Three processes, up to five calls deep.
SPECIFICATION Spec
CONSTANTS
  p1 = p1
  p2 = p2
  p3 = p3
  Processes <- MCProcesses
  NoProcess = NoProcess
  MaxDepth = 5
SYMMETRY Interchangeable
INVARIANTS
  LeftByEscapesOnly
  RunningInRun
PROPERTIES
  KilledForGood
