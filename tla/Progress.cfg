SPECIFICATION ProgressSpec
CONSTANTS
  r1 = r1
  r2 = r2
  u1 = u1
  s1 = s1
  s2 = s2
  s3 = s3
  Accounts = {1, 2}
  Restarts = {r1, r2}
  Stops = {}
  Changes = {}
  Runs = {u1}
  Old <- MCOld
  New <- MCNew
  Nobody = Nobody
  Slots = {s1, s2, s3}
  Threshold = 3
  MaxGeneration = 4
  PhoneLogins = {"p1", "p2", "p3"}
  QrLogins = {"q1"}
  LoginRuns = {"u"}
  LoginAccounts = {"a", "b"}
  AccountOf <- MCAccountOf
  Clashes <- MCClashes
  MaxStarting = 2
INVARIANT ProgressTyped
INVARIANT ListenersFollow
INVARIANT BreakerSafe
INVARIANT LockKept
PROPERTY EveryRestartEnds
PROPERTY ContractSpec
PROPERTY ContractFairSpec
PROPERTY QrGivesBack
\* An abandoned phone login waits for its user; EveryRestartEnds and
\* ContractFairSpec say more than the absence of deadlock of the other two.
CHECK_DEADLOCK FALSE
