SPECIFICATION ArgumentsSpec
CONSTANTS
  Durations <- MCDurations
  NoDuration = NoDuration
  MaxU32 = 3
  MaxTimeT = 5
  x0 = x0
  x2 = x2
  x3 = x3
  x9 = x9
  l0 = l0
  l1 = l1
  l2 = l2
  l3 = l3
  p0 = p0
  p3 = p3
  p4 = p4
  p7 = p7
  Values <- MCValues
  Bytes <- MCBytes
  Start <- MCStart
  Missing = Missing
  Garbage = Garbage
INVARIANTS
  NotifyWaits
  ExpiresWithinUnit
  Snapshot
  BuffersFit
PROPERTIES
  EachReturns
