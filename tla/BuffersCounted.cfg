CONSTANTS
  NoKey = NoKey
  k1 = k1
  k3 = k3
  k2 = k2
  c1 = c1
  c2 = c2
  Key <- MCKeys
  Writes <- MCWrites
  Client <- MCTwoClients
  Policies <- MCRefuse
  Maxmemory = 6
  Samples = 2
  PoolLimit = 2
  BufferSize = 2
  MaxBufferSize = 3
  MaxClock = 2
  Modulus = 64
SPECIFICATION Spec
CHECK_DEADLOCK FALSE
INVARIANT
  BuffersCounted
