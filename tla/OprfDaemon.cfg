SPECIFICATION Spec
CONSTANTS
  Conns = {c1, c2, c3}
  Workers = {w1, w2}
  Request = 2
  Reply = 2
  Timeout = 2
  Nobody = Nobody
INVARIANTS
  ConnectionInOnePlace
  HeldAtMostPerByte
PROPERTIES
  QueueWaitsForBusyWorkers
  EveryConnectionEnds
