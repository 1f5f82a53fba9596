\* One add or one Delete() loop through any three faults.
SPECIFICATION FairSpec
CONSTANTS
  AddOps = {a1}
  RemoveOps = {r1}
  Callers = {c1}
  BatchIds = {b1, b2}
  NoBatch = NoBatch
  NoOp = NoOp
  QueueCap = 1
  MaxBatchSize = 2
  MaxEmptyPolls = 2
  FaultKinds = {"abandon", "send", "poll", "age", "prune", "api", "fail", "ttl", "index", "cancel", "crash"}
  MaxFaults = 3
  MaxOpen = 1
INVARIANTS TypeOK LaunchedAddNotForgotten
PROPERTIES ItemsAccountedFor KeepsPromise WaiterAnswered RemoveConverges FailedAddReaped
