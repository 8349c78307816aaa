SPECIFICATION DaemonSpec
CONSTANTS
  Ips = {a1, a2}
  MaxPerWindow = 2
  Window = 1
  MaxTracked = 1
  MaxTime = 4
  NoEntry = NoEntry
  Workers = {w1, w2}
  Free = Free
SYMMETRY Symmetry
INVARIANTS
  IntervalBound
  DenialExplained
  EvaluationsBounded
