SPECIFICATION FairWorkerSpec
CONSTANTS
  a = a
  b = b
  Get = Get
  Query = Query
  Client = {a, b}
  RequestKind = {Get, Query}
  PoolSize = 2
  MaxTx = 2
  MaxRequests = 2
INVARIANTS
  TypeOK
  StartPrecedesUse
  SendersKeepWorkersRunning
  PendingIsQueued
  EndIsFinal
PROPERTIES
  EveryRequestResolves
  WorkersReturn
CHECK_DEADLOCK FALSE
