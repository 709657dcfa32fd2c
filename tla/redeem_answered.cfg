\* Three requests for a link of one use and a cap of two requests in flight;
\* reads and writes may fail, the file may be deleted, the server is stopped.
SPECIFICATION FairServerSpec
CONSTANTS
  r1 = r1  r2 = r2  r3 = r3  t1 = t1
  Requests = {r1, r2, r3}
  Tokens = {t1}
  Registered = {t1}
  Expiring = {t1}
  Limit <- OneUse
  Presents <- SameLink
  DiskMayFail = TRUE
  MayCrash = FALSE
  MayDelete = TRUE
  Ticks = {0, 1}
  NoOne = NoOne
  MaxInFlight = 2
INVARIANTS
  ServerTypeOK
  NothingLost
  BooksClosed
  LastRedemptionOnce
PROPERTIES
  SlotsComeBack
  StopEnds
