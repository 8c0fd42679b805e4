SPECIFICATION OperationsSpec
CONSTANTS
  r1 = r1
  r2 = r2
  s1 = s1
  c1 = c1
  u1 = u1
  Accounts = {1, 2}
  Restarts = {r1, r2}
  Stops = {s1}
  Changes = {c1}
  Runs = {u1}
  Old <- MCOld
  New <- MCNew
  Nobody = Nobody
  Day = 4
  Horizon = 9
  Windows <- MCWindows
  FixedAt = 2
  Cooldowns = {2}
  Wrappers = {"w1", "w2"}
  MaxEdits = 1
  MaxRestarts = 1
  Late = FALSE
  WindowEdits = FALSE
  ChainTasks = {"t1", "t2", "t3"}
  RunSlots = {"x", "y"}
  Cooldown = 2
  ChainDelay = 1
  MaxDepth = 2
  MaxTriggers = 2
  LastTick = 6
  LockNames = {1, 2}
  LockObjects = {1, 2, 3, 4, 5, 6, 7}
  SignRuns = {"r"}
  Refreshes = {"u"}
  LockUsers = {"u"}
  AccountMoves = {"m"}
INVARIANT OperationsTyped
INVARIANT SessionQuiet
INVARIANT ScheduleIsKept
INVARIANT RunsArePaced
INVARIANT ApartUnlessCarried
\* A restart and a change can wait for each other (KeywordMonitorLockCycle); the
\* clocks of the other two end.
CHECK_DEADLOCK FALSE
