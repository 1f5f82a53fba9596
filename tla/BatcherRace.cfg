\* An add and a remove, two concurrent calls, a one-slot queue, a fault that races with them.
SPECIFICATION Spec
CONSTANTS
  AddOps = {a1}
  RemoveOps = {r1}
  Callers = {c1, c2}
  BatchIds = {b1, b2}
  NoBatch = NoBatch
  NoOp = NoOp
  QueueCap = 1
  MaxBatchSize = 2
  MaxEmptyPolls = 2
  FaultKinds = {"abandon", "send", "crash"}
  MaxFaults = 1
  MaxOpen = 2
SYMMETRY CallersAndBatches
INVARIANTS InFlightTracked SucceededSound NoStrandedWaiter OneItemPerPending AckIsTrue

