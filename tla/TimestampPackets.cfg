CONSTANTS
  t1 = t1
  t2 = t2
  t3 = t3
  r1 = r1
  r2 = r2
  q1 = q1
  q2 = q2
  q3 = q3
  a = a
  b = b
  c1 = c1
  m = m
  d = d
  e = e
  f = f
  g = g
  m2 = m2
  x1 = x1
  x2 = x2
  x3 = x3
  x4 = x4
  y1 = y1
  y2 = y2
  Threads = {t1, t2, t3}
  Csrs = {r1, r2}
  Queues = {q1, q2, q3}
  Commands = {a, b, c1, m, d, e, f, g, m2}
  CsrOf <- MCCsrOf
  OutOfOrder = {q3}
  QueueOf <- MCQueueOf
  WaitList <- MCWaitList
  Markers = {m, m2}
  OutputEvents = {a, b, c1, m, m2}
  OnUserEvent = {d, g}
  TagMemory <- MCTagMemory
  TagCount = 1
  Scenarios <- MCScenarios
  None = None
SPECIFICATION FairSpec
INVARIANTS
  TagsAccountedFor
  NoTagReusedInFlight
  ExecutedInOrder
PROPERTIES
  SubmittedAreExecuted
