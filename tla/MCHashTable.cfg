SPECIFICATION FairSpec
CONSTANTS
  Key <- MCKey
  NoKey = NoKey
  Hash <- MCHash
  InitBuckets = 4
  EmptyFactor = 2
  CronBuckets = 2
INVARIANTS
  TypeOK
  Placement
  CountIsExact
  LoadBounded
  RandomReachesAll
PROPERTIES
  ImplementsKeyTable
  RehashTerminates
