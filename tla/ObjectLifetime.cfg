CONSTANTS
  t1 = t1
  t2 = t2
  dev = dev
  ctx = ctx
  q1 = q1
  p1 = p1
  k = k
  b = b
  sb = sb
  u = u
  e1 = e1
  e2 = e2
  Threads = {t1, t2}
  AsyncHandler = AsyncHandler
  Objects <- MCObjects
  Queues = {q1}
  UserEvents = {u}
  Commands = {e1, e2}
  Holds <- MCHolds
  Programs = {p1}
  QueueOf <- MCQueueOf
  WaitOn <- MCWaitOn
  Payload <- MCPayload
  OutputEvents = {e1}
  Existing <- OneEach
  Scenarios <- MCScenarios
  None = None
SPECIFICATION FairSpec
INVARIANTS
  NoUseAfterDelete
  NothingLeaks
PROPERTIES
  CallsReturn
