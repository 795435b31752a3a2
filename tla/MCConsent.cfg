SPECIFICATION Spec
CONSTANTS
  p1 = p1
  p2 = p2
  s1 = s1
  x1 = x1
  k1 = k1
  Lost = Lost
  y1 = y1
  y2 = y2
  Procs <- MCProcs
  Sessions = {s1}
  Inputs <- MCInputs
  NotAUuid = NotAUuid
  Results <- MCResults
  SpecTexts = {y1, y2}
  NoSpec = NoSpec
  Times = {1}
  Scores = {80}
SYMMETRY Symmetric
INVARIANT ConsentIsEnough
CHECK_DEADLOCK FALSE
