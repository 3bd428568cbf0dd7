SPECIFICATION FairSpec
CONSTANTS
  Threads = {t1}
  Keys = {1, 3}
  Slots = {s1, s2, s3, s4, s5}
  MaxInflight = 2
  Needs <- NeedsSelfSigned
  NoThread = NoThread
  NoSlot = NoSlot
PROPERTY EveryQueryReturns
CHECK_DEADLOCK FALSE
