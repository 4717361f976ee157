CONSTANTS
  t1 = t1
  t2 = t2
  d1 = d1
  d2 = d2
  Threads <- MCThreads
  Deletions <- MCDeletions
  Contexts <- MCContexts
  LastUse <- MCLastUse
  Submitted <- MCSubmitted
  DrainModes <- MCDrainModes
  Worker = Worker
  NotUsed = NotUsed
  Nobody = Nobody
  None = None
  MaxClients = 2
SPECIFICATION FairSpec
INVARIANTS
  OwnedOnce
  CountMatchesPending
  WorkerIffClients
  NoLostWakeup
PROPERTIES
  BlockingDrainFreesAll
  ImplementsService
  CallsReturn
