SPECIFICATION ListingFairSpec
CONSTANTS
  n1 = n1
  n2 = n2
  n3 = n3
  n4 = n4
  MaxObject = 5
  Names <- MCNames
  Lossy <- MCLossy
  Garbage = Garbage
  Batch = 2
INVARIANTS
  ListingTypeOK
  ListingExact
PROPERTIES
  ListingEnds
