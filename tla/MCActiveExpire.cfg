SPECIFICATION FairSpec
CONSTANTS
  Key <- MCKey
  Hash <- MCHash
  InitBuckets = 2
  EmptyFactor = 2
  CronBuckets = 1
  Width = 4
  KeysPerLoop = 2
  Threshold = 25
INVARIANTS
  CursorInRange
  ScanComplete
  ScanNoRepeat
  MaxSamplesIsAll
PROPERTIES
  CycleEnds
  StaleErased
