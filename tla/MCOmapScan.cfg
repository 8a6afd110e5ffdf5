SPECIFICATION FairSpec
CONSTANTS
  p = p
  badPrefix = badPrefix
  MaxKey = 3
  Prefixes <- MCPrefixes
  NoPrefix = NoPrefix
  Matching <- MCMatching
  HasNul <- MCHasNul
  KeyLists <- MCKeyLists
  Values = {Empty, v}
  Empty = Empty
  Absent = Absent
  NullPtr = NullPtr
  NoIter = NoIter
  PageSize = 2
INVARIANTS
  TypeOK
  ScanComplete
  ScanTrue
PROPERTIES
  ScanEnds
