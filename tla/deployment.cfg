\* A dashboard, the installer and the server; two failures, deaths, stops or
\* runs of the installer at any point.
SPECIFICATION FairSpec
CONSTANTS
  c1 = c1  vpn = vpn  me = me  mine = mine
  p8443 = p8443  p2053 = p2053
  Values = {vpn, me, mine, p8443, p2053}
  Consoles = {c1}
  Server = Server
  Installer = Installer
  Choices <- MCChoices
  Originals <- MCOriginals
  Unset = Unset
  DefaultAddr = p8443
  NoUnit = NoUnit
  Torn = Torn
  NoDeployment = NoDeployment
  NoSecret = NoSecret
  MaxTrouble = 2
INVARIANTS
  TypeOK
  OneIdentity
  
  InStep
PROPERTIES
  IdentityKept
  WayBack
