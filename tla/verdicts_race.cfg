CONSTANTS
  Procs = {p, q}
  Names = {"i1"}
  HeadOnly = {}
  Commands = {"launch", "new", "dispatch", "abort", "accept", "accept --force", "record-commit", "record-commentary"}
  Commentator = FALSE
  Crashes = TRUE
  OutsideWork = TRUE
  Messy = FALSE
  Reasons = {"why"}
  MaxTasks = 1
  MaxSessions = 1
  MaxCommits = 3
  MaxLines = 1
  MaxLate = 0
SPECIFICATION Spec
CHECK_DEADLOCK FALSE
SYMMETRY AnyProc
INVARIANT CommitAfterBase
PROPERTY KeepsLifecycle
