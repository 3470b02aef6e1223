CONSTANTS
  Procs = {p1, p2}
  soc = soc
  uart = uart
  LoadOrder <- MCLoadOrder
  Bare = {soc}
  RingSize = 2
  MaxLen = 2
  MaxBytes = 3
  LogSize = 1
  PowerArgs = {"OFF", "ON", "BAD"}
  NULL = NULL
  CLOSED = CLOSED
SPECIFICATION FairSpec
INVARIANT TypeOK
INVARIANT SelectionAlive
INVARIANT NoNullDeref
INVARIANT BytesConserved
PROPERTY CallsReturn
