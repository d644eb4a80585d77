SPECIFICATION Spec
CONSTANTS
  p1 = p1
  p2 = p2
  h1 = h1
  h2 = h2
  NoHome = NoHome
  Names <- MCNames
  Homes <- MCHomes
  Configs <- MCConfigs
  Faults = {"kill", "cmake", "homes", "lookups", "creates", "fresh"}
INVARIANT TypeOK
INVARIANT HomesAgree
PROPERTY RecordsKept
