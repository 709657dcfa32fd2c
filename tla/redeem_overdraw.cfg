\* One link with two uses, three concurrent requests, no fault of any kind.
SPECIFICATION Spec
CONSTANTS
  r1 = r1  r2 = r2  r3 = r3  r4 = r4  t1 = t1  t2 = t2
  Requests = {r1, r2, r3}
  Tokens = {t1}
  Registered = {t1}
  Expiring = {}
  Limit <- MixedUses
  Presents <- SameLink
  DiskMayFail = FALSE
  MayCrash = FALSE
  MayDelete = FALSE
  Ticks = {0, 1}
  NoOne = NoOne
INVARIANTS
  NoOverdraw
