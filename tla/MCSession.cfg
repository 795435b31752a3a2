SPECIFICATION Spec
CONSTANTS
  Prompts <- MCPrompts
  Outputs <- MCOutputs
  NoOutput = NoOutput
  Families <- MCFamilies
  Invariants <- MCInvariants
  Passes <- MCPasses
  MissesRequired <- MCMissesRequired
  HasForbidden = {}
  NullOutputs = {}
  NLI = FALSE
  HasReference = FALSE
  Relation <- MCRelation
  Contradicts = {}
  Scale = 100
  StableBar = 95
  FragileBar = 50
  BootstrapCI <- MCBootstrapCI
  MaxRuns = 2
  Answers <- MCAnswers
  Temperature = 0
  CacheOn = TRUE
  NumCases = 2
  Original <- MCOriginal
  Slots <- MCSlots
  MaxSessions = 2
INVARIANTS
  TypeOK
  KnownWrongNeverPasses
  ExitMatchesStore
  StoredSessionsAreWhole
  OneAnswerPerPrompt
  WeaknessIsShown
PROPERTIES
  EveryRunEnds
CHECK_DEADLOCK FALSE
