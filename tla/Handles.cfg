SPECIFICATION FairSpec
CONSTANTS
  RadosValues = {r1, r2}
  IoCtxs = {c1, c2, c3}
  Cores = {h1, h2}
  Calls = {t1, t2}
  NoCore = NoCore
  Idle = Idle
INVARIANTS
  CallsOnLiveHandles
  DestroyBeforeShutdown
PROPERTIES
  NothingLeaks
