SPECIFICATION FairSpec
CONSTANTS
  N = 2
  FirstIndex = 1
  LastIndex = 3
  MaxClients = 2
  DirectFds <- OneSlot
CHECK_DEADLOCK FALSE
INVARIANTS
  SlotIsFree
  CountIsExact
  DirectFdsExclusive
  OneExecutorRespectsMaxClients
  RemoveFindsClient
  ShutdownReleasesAll
PROPERTIES
  ShutdownEnds
