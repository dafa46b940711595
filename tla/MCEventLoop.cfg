CONSTANTS
  acc = acc
  Acceptor = acc
  task = task
  client = client
  Tasks <- MCTasks
  Wake = Wake
  N = 2
  Coroutine <- MCCoroutines
  SqEntries = 2
  Settings <- MCSettings
  WaitBatch = 2
SPECIFICATION Spec
CHECK_DEADLOCK FALSE
INVARIANTS
  ResumedOnce
  NoSpin
PROPERTIES
  Handled
  Stops
