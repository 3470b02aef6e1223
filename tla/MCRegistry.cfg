CONSTANTS
  b1 = b1
  b2 = b2
  d1 = d1
  d2 = d2
  v1 = v1
  v2 = v2
  v3 = v3
  qemu = qemu
  uart = uart
  spi = spi
  dev0 = dev0
  dev1 = dev1
  CUart = CUart
  CSpi = CSpi
  Backends = {b1, b2}
  Drivers = {d1, d2}
  Devices = {v1, v2, v3}
  Incomplete = {b2}
  Names = {qemu, uart, spi, dev0, dev1}
  Classes = {CUart, CSpi}
  ObjectName <- MCName
  ObjectClass <- MCClass
  BackendHead = backend_list
  DriverHead = driver_list
  DeviceHead = device_list
  OK = OK
  EEXIST = EEXIST
  EINVAL = EINVAL
  NULL = NULL
SPECIFICATION Spec
INVARIANT TypeOK
INVARIANT DoublyLinked
INVARIANT OwnersAgree
INVARIANT NoNullDeref
PROPERTY ImplementsLists
