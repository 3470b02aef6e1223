CONSTANTS
  Clients = {c1, c2}
  MaxQueues = 2
  MaxBuffers = 1
  DataModulus = 2
  MaxSubmits = 3
  other = other
  Added = other
  Removed = other
  PowerChange = other
  Events <- MCEvents
  LogSize = 3
  CounterModulus = 6
  ZeroEvent = zero
  EAGAIN = EAGAIN
  EINVAL = EINVAL
  NoReply = none
SPECIFICATION GpuSpec
SYMMETRY MCSymmetry
INVARIANTS
  TypeOK
  LiveSlotsWritten
  HandlesDistinct
  CompletionsInOrder
PROPERTY ImplementsQueue
