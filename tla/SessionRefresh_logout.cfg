SPECIFICATION FairSpec
CONSTANTS
  a = a  b = b  u1 = u1  u2 = u2  c1 = c1  c2 = c2  r1 = r1  r2 = r2
  None = None
  Tabs = {a}
  Users = {u1, u2}
  FirstUser = u1
  FirstTab = a
  Calls = {c1, c2}
  Refreshes = {r1}
  MaxEvents = 2
CHECK_DEADLOCK FALSE
PROPERTIES LogoutClearsTab
