SPECIFICATION Spec
CONSTANTS
  prod = prod
  stage = stage
  a = a
  b = b
  v1 = v1
  v2 = v2
  r1 = r1
  r2 = r2
  Envs = {prod, stage}
  Keys = {a, b}
  Values = {v1, v2}
  Levels = {30, 40}
  Recipients = {r1, r2}
  Inputs <- MCInputs
  Overrides <- MCOverrides
  Absent = Absent
  MaxRuns = 2
  MaxMoves = 1
PROPERTY ScopedKeepsOthers
SYMMETRY Symmetry
CHECK_DEADLOCK FALSE
