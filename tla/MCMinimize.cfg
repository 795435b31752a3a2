SPECIFICATION Spec
CONSTANTS
  Prompts <- MCPrompts
  Outputs <- MCOutputs
  NoOutput = NoOutput
  Families = {"typo_noise"}
  Invariants = {"contains"}
  Passes <- MCPasses
  MissesRequired = {"wrong"}
  HasForbidden = {}
  NullOutputs = {"hedge"}
  NLI = FALSE
  HasReference = FALSE
  Relation <- MCRelation
  Contradicts = {}
  Scale = 100
  StableBar = 95
  FragileBar = 50
  BootstrapCI <- MCBootstrapCI
  MaxRuns = 3
  Answers <- MCAnswers
  Temperature = 0
  CacheOn = TRUE
  Original = "ask"
  Strengths = {1, 2, 3}
  Invocations <- MCInvocations
INVARIANTS
  TypeOK
  MinimalAmongTested
  BreakIsNew
CHECK_DEADLOCK FALSE
