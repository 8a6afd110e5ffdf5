SPECIFICATION FairSpec
CONSTANTS
  w1 = w1
  w2 = w2
  n1 = n1
  none = none
  Watches <- MCWatches
  Notices <- MCNotices
  NoNotice <- none
  CallbackDrops <- SomeDrops
  MaxDispatch <- MCMaxDispatch
  MaxErrors = 1
CHECK_DEADLOCK FALSE
INVARIANTS
  TypeOK
  NoUseAfterFree
  AckPerDispatch
  SettledOnDrop
  NestedDropHangs
PROPERTIES
  KeepsContract
  DropCompletes
  DispatchAnswered
