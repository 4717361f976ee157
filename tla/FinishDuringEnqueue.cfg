CONSTANTS
  t1 = t1
  t2 = t2
  t3 = t3
  u1 = u1
  u2 = u2
  c1 = c1
  c2 = c2
  c3 = c3
  c4 = c4
  q1 = q1
  q2 = q2
  b1 = b1
  b2 = b2
  Threads <- MCThreads
  AsyncHandler = AsyncHandler
  UserEvents <- MCUserEvents
  Commands <- MCCommands
  Markers = {c3}
  OutputEvents = {c1, c3}
  Queues = {q1, q2}
  QueueOf <- MCQueueOf
  WaitList <- MCWaitList
  Callbacks = {b1, b2}
  EventOf <- MCEventOf
  TypeOf <- MCTypeOf
  Scenarios <- FinishScenarios
  eventNotReady = 99
  None = None
SPECIFICATION FairSpec
PROPERTIES
  EveryCallReturns
