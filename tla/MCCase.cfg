SPECIFICATION Spec
CONSTANTS
  Prompts <- MCPrompts
  Outputs <- MCOutputs
  NoOutput = NoOutput
  Families <- MCFamilies
  Invariants <- MCInvariants
  Passes <- MCPasses
  MissesRequired <- MCMissesRequired
  HasForbidden = {"denial"}
  NullOutputs <- MCNullOutputs
  NLI = TRUE
  HasReference = TRUE
  Relation <- MCRelation
  Contradicts <- MCContradicts
  Scale <- MCScale
  StableBar = 2280
  FragileBar = 1800
  BootstrapCI <- MCBootstrapCI
  MaxRuns = 4
  Answers <- MCAnswers
  Temperature = 1
  CacheOn = TRUE
  NumCases = 1
  Original <- MCOriginal
  Slots <- MCSlots
  MaxSessions = 1
INVARIANTS
  PassMeansEveryFamilyHeld
  NoFailedRunBehindPass
  InvalidEvalBlamesTheEval
  GoldStandardIsGrounded
  ChanceStaysInTheBands
CHECK_DEADLOCK FALSE
