CONSTANTS
  Base = 2
  Size = 20
  sizeThreshold = 4
  allocationAlignment = 2
  AddressSpace = 64
  Requests = {1, 2, 4, 5, 8, 11, 20}
SPECIFICATION Spec
INVARIANTS
  EveryAddressOnce
