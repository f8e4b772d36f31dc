SPECIFICATION Spec
CONSTANTS
  Symbols <- MCSymbols
  Worlds <- MCWorlds
  ParseU32 <- MCParseU32
  CurrentDir <- MCCurrentDir
  PathDirs <- MCPathDirs
  None = None
INVARIANTS
  ParsedAsDocumented
  ArgumentsArrive
  TargetFirstOnPath
  ComViewSettled
