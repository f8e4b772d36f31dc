SPECIFICATION ImportsSpec
CONSTANTS
  app = app
  sys = sys
  win = win
  w16 = w16
  cur = cur
  p1 = p1
  APP = APP
  CUR = CUR
  Empty = Empty
  Absent = Absent
  Opaque = Opaque
  Missing = Missing
  BadImage = BadImage
  None = None
  system_dir = sys
  windows_dir = win
  system16_dir = w16
  Root <- MCRoot
  Paths <- MCPaths
  NameOf <- MCNameOf
  ApiSets <- MCApiSets
  Names <- MCNames
  Key <- MCKey
  Absolute <- MCAbsolute
  MaxU32 <- MCMaxU32
  Lowercase <- MCLowercase
  Systems <- MCSystems
  Worlds <- MCWorlds
INVARIANTS
  TypeOK
  FirstIssueIsReference
  AllFailuresReported
  DocumentedSearch
  ImportsAreMapped
  ExitIsTruth
PROPERTY WalkProgresses
