CONSTANTS
  num_threads_ = 2
  Client = {main}
  Main = main
  parent = parent
  child = child
  other = other
  Task = {parent, child, other}
  Spawns <- OneChild
  NoTask = notask
  kSize = 1
SPECIFICATION LiveSpec
CHECK_DEADLOCK FALSE
INVARIANTS BlockedExact BlockingHoldsMutex NoTaskStranded NothingLeftBehind
PROPERTIES EveryTaskRuns DestructorReturns
