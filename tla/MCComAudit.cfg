SPECIFICATION AuditSpec
CONSTANTS
  Classes <- MCClasses
  MaxRegistrations = 3
  None = None
  Unreadable = Unreadable
  Loose = "loose"
  MaxU32 <- MCMaxU32
  Attributes <- MCAttributes
  Absolute <- MCAbsolute
  Queried <- MCQueried
  Manifests <- MCManifests
  Images <- MCImages
INVARIANTS
  TypeOK
  HealthyIsChecked
  IncompleteIsTold
  RegistrationsOrdered
  ManifestIsHeeded
PROPERTIES
  Verdict
