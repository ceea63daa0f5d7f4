CONSTANTS
  Procs = {p}
  Names = {"i1"}
  HeadOnly = {"i1"}
  Commands = {"launch", "new", "dispatch", "abort", "accept", "record-commit"}
  Commentator = TRUE
  Crashes = FALSE
  OutsideWork = FALSE
  Messy = FALSE
  Reasons = {"why"}
  MaxTasks = 2
  MaxSessions = 2
  MaxCommits = 2
  MaxLines = 1
  MaxLate = 0
SPECIFICATION Spec
CHECK_DEADLOCK FALSE
INVARIANTS DeliveredMeansReviewed CommitCreditedOnce
