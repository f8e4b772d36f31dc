SPECIFICATION Spec
CONSTANTS
  ntdll = ntdll
  okCode = okCode
  timeoutCode = timeoutCode
  faultCode = faultCode
  None = None
  Modules <- MCModules
  Codes <- MCCodes
  HighCodes <- MCHighCodes
  SemTimeout = timeoutCode
  InvalidParameter = okCode
  PebCodes <- MCPebCodes
  Timeouts <- MCTimeouts
  POLL = 2
  DRAIN = 3
  LoaderSnaps = TRUE
  MaxEvents = 3
  MaxPending = 1
  MaxClock = 5
INVARIANTS
  TargetExitDrained
