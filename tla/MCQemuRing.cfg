CONSTANTS
  Threads = {t1, t2}
  Bytes = {x, y}
  RingSize = 2
  CounterModulus = 4
  MaxLen = 2
  NoThread = nobody
  ZeroByte = zero
  EIO = EIO
  NoReply = none
  NULL = NULL
SPECIFICATION FairSpec
INVARIANT TypeOK
INVARIANT CountersAgree
PROPERTY ImplementsStream
PROPERTY CallsReturn
