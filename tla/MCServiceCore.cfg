SPECIFICATION Spec
CONSTANTS
  k1 = k1
  k2 = k2
  a = a
  b = b
  z = z
  Key <- TwoKeys
  LongKey <- TwoKeys
  Byte <- MCByte
  Zero = z
  Commands <- Conforming
  Second = 2
  Maxmemory = TRUE
  Policy = "allkeys"
  SetBack = FALSE
  MaxTime = 2
  MaxLen = 2
PROPERTIES
  ImplementsExpiringStore
