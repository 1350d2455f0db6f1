CONSTANTS
  Tasks = {a, b}
  Initial = {a}
  MaxEvents = 2
  MaxErrors = 1
  EarlyStop = FALSE
SPECIFICATION Spec
INVARIANTS
  TypeOK
  QueueConsistent
  WorkerDoneClosedOnce
  NothingLeftBehind
PROPERTIES
  ImplementsTaskSet
  TasksGetSynced
  TerminationCompletes
  EventuallyReady
CHECK_DEADLOCK FALSE
