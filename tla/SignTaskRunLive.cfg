\* EveryRunSettles is stronger than the absence of deadlock, which the safety runs check.
CHECK_DEADLOCK FALSE
SPECIFICATION FairSpec
CONSTANTS
  acc1 = acc1
  t1 = t1
  t2 = t2
  h1 = h1
  h2 = h2
  d1 = d1
  None = None
  Accounts = {acc1}
  Tasks = {t1, t2}
  AccountOf <- MCAccountOf
  HttpRuns = {h1, h2}
  DirectRuns = {}
  MaxCancels = 0
  MaxDrains = 1
  MaxUnsaved = 2
INVARIANT StatusBelongsToActiveRun
INVARIANT DrainLeavesNoRun
PROPERTY EveryRunSettles
PROPERTY ExecutionFairSpec
