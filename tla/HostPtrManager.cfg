CONSTANTS
  t1 = t1
  t2 = t2
  Threads = {t1, t2}
  pageSize = 2
  Requests <- MCRequests
  FailingRequests <- MCFailing
  Failures = {"userptr", "pin_fault"}
  MaxAllocations <- MCMaxAllocations
  MaxFinishes <- MCMaxFinishes
  eventNotReady = 9
  None = None
SPECIFICATION Spec
INVARIANTS
  FragmentsAreExact
  FatalOnlyWhenInevitable
