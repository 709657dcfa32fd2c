\* A dashboard as root, the service and an operator replace a file that is there,
\* or is not yet.
SPECIFICATION Spec
CONSTANTS
  w1 = w1  w2 = w2  w3 = w3  v0 = v0
  Writers = {w1, w2, w3}
  Original = v0
  NoFile = NoFile
  Torn = Torn
  RunsAs <- ThreeUsers
  Size <- TwoSizes
  FileOwner = "creator"
  DirOwner = "root"
  Present = {TRUE, FALSE}
INVARIANTS
  TypeOK
  AlwaysWhole
  OwnerKept
  AckedSurvives
  ArchiveIsWhole
  
PROPERTIES
  ReplacedAtOnce
