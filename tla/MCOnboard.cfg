SPECIFICATION Spec
CONSTANTS
  Projects = {p1, p2}
  Envs = {e1}
  Fleet = p1
  Levels = {0, 1}
  Default = 1
  None = None
  Commands <- MCCommands
  MaxRuns = 3
  MaxEdits = 1
INVARIANTS TypeOK Agreement OneKey RepoKeyKept EnvKeysPrivate
CHECK_DEADLOCK FALSE
