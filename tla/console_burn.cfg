\* A burned link that comes back.
SPECIFICATION ConsoleSpec
CONSTANTS
  r1 = r1  r2 = r2  r3 = r3  t1 = t1  t2 = t2  c1 = c1  c2 = c2
  Requests = {r1, r2}
  Tokens = {t1}
  Registered = {t1}
  Expiring = {}
  Limit <- TwoUses
  Presents <- SameLink
  DiskMayFail = FALSE
  MayCrash = FALSE
  Ticks = {1}
  NoOne = NoOne
  Consoles = {c1}
  MaxClock = 4
  MayDelete = FALSE
INVARIANTS
  BurnedLinkRefused
