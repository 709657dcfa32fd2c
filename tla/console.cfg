\* One link minted, used and burned; everything may fail.
SPECIFICATION ConsoleSpec
CONSTANTS
  r1 = r1  r2 = r2  r3 = r3  t1 = t1  t2 = t2  c1 = c1  c2 = c2
  Requests = {r1, r2}
  Tokens = {t1}
  Registered = {}
  Expiring = {t1}
  Limit <- OneUse
  Presents <- SameLink
  DiskMayFail = TRUE
  MayCrash = TRUE
  Ticks = {0, 1}
  NoOne = NoOne
  Consoles = {c1}
  MaxClock = 3
  MayDelete = TRUE
INVARIANTS
  ConsoleTypeOK
  CalmWritesAreSafe
