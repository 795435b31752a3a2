SPECIFICATION Spec
CONSTANTS
  Space = "sp"
  InsertVocab = {"b"}
  SpaceVariants <- MCSpaceVariants
  ZeroWidth <- MCZeroWidth
  Homoglyphs <- MCHomoglyphs
  Letters <- MCLetters
  CaseMap <- MCCaseMap
  CaseInput <- MCCaseInput
  Perturbations <- MCPerturbations
  Rewritings <- MCRewritings
  Similar <- MCSimilar
  Entails <- MCEntails
  NLI = TRUE
  Digest <- MCDigest
  SessionSeed = 4
  CaseId <- MCCaseId
  MaxApiSeed = 5
INVARIANTS
  TypeOK
  SampleIdentity
  RewritesAreAccountedFor
  EditsAreAccountedFor
PROPERTIES
  ImplementsRealization
CHECK_DEADLOCK FALSE
