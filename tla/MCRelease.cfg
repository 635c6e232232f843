SPECIFICATION Spec
CONSTANTS
  FailureLimit = 2
  MergesOnRecord = TRUE
  MaxSpecs = 2
  MaxAttempts = 3
  MaxScaffolds = 3
  MaxWorks = 2
  MaxPrs = 2
  MaxMain = 2
  IncidentThreshold = 3
INVARIANTS
  TypeOK
  MergedAsReviewed
  StatusesAgree
  ProvenanceKept
PROPERTIES
  RevertedStaysOut
  ImplementsDelivery
CHECK_DEADLOCK FALSE
