SPECIFICATION FairSpec
CONSTANTS
  w1 = w1
  w2 = w2
  Watches <- MCWatches
  Notices = {n1}
  NoNotice = NoNotice
  CallbackDrops <- SomeDrops
  MaxDispatch <- MCMaxDispatch
  MaxErrors = 1
  RadosValues = {r1}
  UserIoCtxs = {c1, c2}
  Cores = {h1}
  NoCore = NoCore
  Idle = Idle
CHECK_DEADLOCK FALSE
INVARIANTS
  WatchOnLiveIoctx
  ShutdownIsQuiet
PROPERTIES
  ClientReleased
