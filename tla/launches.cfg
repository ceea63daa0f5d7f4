CONSTANTS
  AgentKinds = {claude, codex}
  Claude = claude
  None = none
  Launchers = {p, q}
  Implementers = {"i1", "i2"}
  Commentator = "commentator"
  Runtimes = {"herdr", "orca"}
  RunDir = run
  OtherDirs = {other}
  MaxAgents = 3
SPECIFICATION Spec
CHECK_DEADLOCK FALSE
SYMMETRY AnyLauncher
INVARIANTS FlagsAreForTheAgent IdsAreOwn SessionsStayKnown
