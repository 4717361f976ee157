CONSTANTS
  t1 = t1
  t2 = t2
  b1 = b1
  f1 = f1
  pinBB = pinBB
  Threads = {t1, t2}
  Worker = Worker
  Destroyer = t2
  CmdBos = {b1}
  Fragments = {f1}
  SharedBos = {s1, s2}
  DmaBufs = {d1}
  HolderOf <- MCHolderOf
  MaxCalls <- MCMaxCalls
  Nobody = Nobody
  None = None
SPECIFICATION FairSpec
INVARIANTS
  RefCountExact
  NoUseAfterDelete
  SharedHandleOpen
  NothingLeftWhenDestroyed
PROPERTIES
  PushedIsUnreferenced
  DestructorReturns
CHECK_DEADLOCK FALSE
