\* One editor; racing requests with and without restarts, and a calm world.
SPECIFICATION Spec
CONSTANTS
  r1 = r1  r2 = r2  c1 = c1  c2 = c2  s1 = s1  s2 = s2
  Requests = {r1, r2}
  Redeems = {r2}
  Configs = {c1, c2}
  Wants <- WantsFirst
  Registered = {c1}
  Consoles = {s1, s2}
  MaxEdits = 3
  Worlds <- AllWorlds
INVARIANTS
  TypeOK
  StaleIsVisible
  NextEditIsSeen
  
