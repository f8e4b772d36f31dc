CONSTANTS
  Opts <- Options
  Outcomes <- MCOutcomes
  MaxFailures = 2
  None = None
SPECIFICATION Spec
INVARIANTS
  TypeOK
  TenMeansDiagnosed
  SummaryCountsLines
PROPERTY SummaryVerdict
