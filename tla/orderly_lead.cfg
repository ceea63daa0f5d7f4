CONSTANTS
  Procs = {p}
  Names = {"i1"}
  HeadOnly = {}
  Commands = {"launch", "new", "dispatch", "abort", "accept", "accept --force", "record-commentary"}
  Commentator = TRUE
  Crashes = FALSE
  OutsideWork = FALSE
  Messy = TRUE
  Reasons = {"why"}
  MaxTasks = 1
  MaxSessions = 1
  MaxCommits = 3
  MaxLines = 2
  MaxLate = 0
SPECIFICATION FairSpec
CHECK_DEADLOCK FALSE
PROPERTY WorkIsSeen GateVerdictStands 
