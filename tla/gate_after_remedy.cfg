CONSTANTS
  Procs = {p}
  Names = {"i1"}
  HeadOnly = {}
  Commands = {"launch", "new", "dispatch", "accept", "record-commit"}
  Commentator = FALSE
  Crashes = FALSE
  OutsideWork = FALSE
  Messy = FALSE
  Reasons = {"why"}
  MaxTasks = 1
  MaxSessions = 1
  MaxCommits = 2
  MaxLines = 1
  MaxLate = 0
SPECIFICATION Spec
CHECK_DEADLOCK FALSE
PROPERTY GateVerdictStands
