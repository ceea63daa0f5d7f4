CONSTANTS
  Procs = {p}
  Names = {"i1"}
  HeadOnly = {}
  Commands = {"launch", "new", "retry", "dispatch", "abort"}
  Commentator = FALSE
  Crashes = FALSE
  OutsideWork = FALSE
  Messy = FALSE
  Reasons = {"why"}
  MaxTasks = 2
  MaxSessions = 2
  MaxCommits = 1
  MaxLines = 2
  MaxLate = 1
SPECIFICATION Spec
CHECK_DEADLOCK FALSE
INVARIANTS TypeOK RetryOfAborted SingleFlight FreshImplementer DispatchedMeansTaken AbortIsHeard
