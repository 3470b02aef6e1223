CONSTANTS
  DTNodes <- MCDTNodes
SPECIFICATION Spec
INVARIANT EntriesFreed
