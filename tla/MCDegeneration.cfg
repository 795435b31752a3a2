SPECIFICATION Spec
CONSTANTS
  Prompts = {"ask", "typo"}
  Outputs <- MCOutputs
  NoOutput = NoOutput
  Families = {"typo_noise"}
  Invariants = {"contains"}
  Passes <- MCPasses
  MissesRequired = {}
  HasForbidden = {}
  NullOutputs = {}
  NLI = FALSE
  HasReference = FALSE
  Relation <- MCRelation
  Contradicts = {}
  Scale = 100
  StableBar = 95
  FragileBar = 50
  BootstrapCI <- MCBootstrapCI
  MaxRuns = 20
  Answers <- MCAnswers
  Temperature = 1
  CacheOn = TRUE
  NumCases = 1
  Original <- MCOriginal
  Slots <- MCSlots
  MaxSessions = 1
INVARIANT DegenerationNeedsTheBaseline
CHECK_DEADLOCK FALSE
