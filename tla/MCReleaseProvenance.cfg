SPECIFICATION Spec
CONSTANTS
  FailureLimit = 2
  MergesOnRecord = FALSE
  MaxSpecs = 2
  MaxAttempts = 2
  MaxScaffolds = 2
  MaxWorks = 1
  MaxPrs = 2
  MaxMain = 3
  IncidentThreshold = 3
INVARIANTS
  PlayedIsAccepted
CHECK_DEADLOCK FALSE
