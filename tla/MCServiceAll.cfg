SPECIFICATION Spec
CONSTANTS
  k1 = k1
  k2 = k2
  a = a
  b = b
  z = z
  Key <- OneKey
  LongKey <- OneKey
  Byte <- MCByte
  Zero = z
  Commands <- All
  Second = 2
  Maxmemory = TRUE
  Policy = "allkeys"
  SetBack = TRUE
  MaxTime = 2
  MaxLen = 2
INVARIANTS
  GoneStaysGone
PROPERTIES
  OnlyGetDelLeavesExpiry
  ReadsAsDocumented
  
