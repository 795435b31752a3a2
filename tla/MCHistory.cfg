SPECIFICATION Spec
CONSTANTS
  p1 = p1
  p2 = p2
  Procs <- MCProcs
  Outcomes <- MCOutcomes
  MaxSessions = 3
  Window = 2
INVARIANTS
  WorseStatusIsFlagged
  QuietTimelineHasAGap
  FlaggedDowngradeHappened
  WindowSeesTheLatest
  ErosionIsBounded
PROPERTIES
  RegressionStaysReported
CHECK_DEADLOCK FALSE
