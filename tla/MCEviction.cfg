CONSTANTS
  NoKey = NoKey
  k1 = k1
  k3 = k3
  k2 = k2
  c1 = c1
  c2 = c2
  Key <- MCKeys
  Writes <- MCWrites
  Client <- MCOneClient
  Policies <- MCPolicies
  Maxmemory = 6
  Samples = 2
  PoolLimit = 2
  BufferSize = 1
  MaxBufferSize = 2
  MaxClock = 2
  Modulus = 64
SPECIFICATION Spec
CHECK_DEADLOCK FALSE
INVARIANTS
  PoolBelowLimit
  VictimIsOldest
PROPERTIES
  EnoughFreed
  EvictEnds
