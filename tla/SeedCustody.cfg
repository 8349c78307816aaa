\* One service and a seed of another, two splits of which one share is damaged.
SPECIFICATION Spec
CONSTANTS
  Width = 2
  Reduction = 3
  Tag <- TagMC
  Own <- OwnMC
  Others <- OthersMC
  Thresholds = {1, 2, 3}
  Numbers = {3}
  Values = {3}
  MaxSplits = 2
  MaxDamage = 1
  MaxStarts = 1
  MaxGiven = 3
INVARIANTS
  EnoughSharesRestore
  NeverAnotherKey
PROPERTY
  FewerTellNothing
