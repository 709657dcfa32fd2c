\* Two links, four requests, crashes; reads and writes may fail, and the file
\* may be deleted.
SPECIFICATION Spec
CONSTANTS
  r1 = r1  r2 = r2  r3 = r3  r4 = r4  t1 = t1  t2 = t2
  Requests = {r1, r2, r3, r4}
  Tokens = {t1, t2}
  Registered = {t1, t2}
  Expiring = {t2}
  Limit <- MixedUses
  Presents <- TwoLinks
  DiskMayFail = TRUE
  MayCrash = TRUE
  MayDelete = TRUE
  Ticks = {1}
  NoOne = NoOne
INVARIANTS
  TypeOK
  Accounting
  CachedIsCurrent
PROPERTIES
  RedeemedAtOnce
