CONSTANTS
  x = x
  y = y
  c1 = c1
  c2 = c2
  Client <- MCClients
  Word <- MCWords
  MaxInline = 3
  IOSize = 3
  Entries = 2
  EntrySize = 6
  MaxRequests = 2
  Env <- MCEnv
SPECIFICATION Spec
CHECK_DEADLOCK FALSE
INVARIANTS
  AnswersInOrder
  ViewsAlive
  EntriesOwned
  AssertionsHold
  BufferBounded
PROPERTIES
  Answered
  ClosesWithPeer
