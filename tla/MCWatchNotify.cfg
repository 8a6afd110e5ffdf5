SPECIFICATION FairSpec
CONSTANTS
  w1 = w1
  w2 = w2
  Watches <- MCWatches
  Notices = {n1}
  NoNotice = NoNotice
  CallbackDrops <- NoDrops
  MaxDispatch <- MCMaxDispatch
  MaxErrors = 0
INVARIANTS
  EveryWatchReported
  AcksWereSent
  BufferHandled
PROPERTIES
  NotifyNeedsNoTimeout
