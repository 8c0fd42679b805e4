SPECIFICATION Spec
CONSTANTS
  Accounts = {1, 2}
  Restarts = {r1, r2}
  Stops = {s1}
  Changes = {}
  Runs = {u1}
  Old <- MCOld
  New <- MCNew
  Nobody = Nobody
  r1 = r1
  r2 = r2
  s1 = s1
  c1 = c1
  u1 = u1
INVARIANT Tracked
