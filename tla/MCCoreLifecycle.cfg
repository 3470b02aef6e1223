CONSTANTS
  DTNodes <- MCDTNodes
SPECIFICATION Spec
INVARIANT TypeOK
INVARIANT NothingLeft
INVARIANT DevicesHaveBackend
INVARIANT AnnouncedAttached
PROPERTY StackOrder
