CONSTANTS
  t1 = t1
  t2 = t2
  buf = buf
  a1 = a1
  a2 = a2
  a3 = a3
  a4 = a4
  a5 = a5
  a6 = a6
  a7 = a7
  a8 = a8
  a9 = a9
  a10 = a10
  a11 = a11
  a12 = a12
  a13 = a13
  a14 = a14
  a15 = a15
  Threads = {t1, t2}
  Allocations <- MCAllocations
  Buffers = {buf}
  Scenarios <- CompatScenarios
  DispatchModes = {"BatchedDispatch"}
  Budget = 4
  eventNotReady = 9
  None = None
SPECIFICATION Spec
INVARIANTS
  MergedAreCompatible
