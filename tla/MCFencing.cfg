SPECIFICATION Spec
CONSTANTS
  a = a
  b = b
  Threads <- MCThreads
  Clients <- MCThreads
  ClientOf <- MCClientOf
  NoThread = NoThread
  Setups <- MCSetups
INVARIANTS
  TypeOK
  LeaseHolds
  NoneLeftBehind
PROPERTIES
  FencedStaysOut
  BreakHitsSeen
