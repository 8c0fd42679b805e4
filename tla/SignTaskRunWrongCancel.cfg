SPECIFICATION Spec
CONSTANTS
  acc1 = acc1
  t1 = t1
  t2 = t2
  h1 = h1
  h2 = h2
  d1 = d1
  None = None
  Accounts = {acc1}
  Tasks = {t1}
  AccountOf <- MCAccountOfOne
  HttpRuns = {h1}
  DirectRuns = {d1}
  MaxCancels = 1
  MaxDrains = 0
  MaxUnsaved = 1
PROPERTY OnlyRequestedRunCancelled
