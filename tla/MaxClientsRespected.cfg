SPECIFICATION Spec
CONSTANTS
  N = 2
  FirstIndex = 1
  LastIndex = 3
  MaxClients = 1
  DirectFds <- OneSlot
CHECK_DEADLOCK FALSE
INVARIANTS
  MaxClientsRespected
