\* Four observers, one of them registered with once(), and two completions.
SPECIFICATION OperationSpec
CONSTANTS
  o1 = o1
  o2 = o2
  o3 = o3
  o4 = o4
  Observers = {o1, o2, o3, o4}
  Event <- Listens
  Once = {o2}
  Throwing = {o1, o3}
  MaxCompletions = 2
INVARIANTS
  OperationTypeOK
  HeardOncePerCompletion
  EveryoneTold
CHECK_DEADLOCK FALSE
