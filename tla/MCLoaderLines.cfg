CONSTANTS
  None = None
  Threads = {1, 2}
  Dlls = {0, 1, 2, 3, 4, 5}
  Noise = {4}
  Lines <- MCLines
  LoaderCodes = {1, 3}
  NotFoundCodes = {1}
  BadImageCodes = {2}
  MaxEvents = 4
  Word <- MCWord
  Other <- MCOther
  Hex <- MCHex
  FailureCodes = {1, 2, 3}
  NoiseNames <- MCNoiseNames
  NoiseStarts = {"api-ms-win-"}
  exe_dir <- App
  cwd <- App
  windows_dirs <- MCWindowsDirs
  DllNumber <- MCDllNumber
  Modules <- MCModules
  Sayings <- MCSayings
SPECIFICATION LinesSpec
INVARIANTS
  TypeOK
  ContextOfThread
  StatusFromOneLine
  ReportedNeverLoaded
  NothingMissed
  FailuresAsSaid
