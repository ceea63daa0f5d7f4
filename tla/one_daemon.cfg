CONSTANTS
  Daemons = {d1, d2}
  Leads = {a, b}
  Overlap = FALSE
  MaxEvents = 2
  DaemonSilent = 1
  StateUnread = 1
  CommitUnattended = 1
  MaxClock = 4
  MaxTasks = 2
  MaxWaits = 2
SPECIFICATION WatchFairSpec
INVARIANTS NewestLeadLives OverLimitOnce DeadDaemonIsTold TimesAddUp
PROPERTIES StopIsHeeded FollowedForGood StopEndsDaemons OverLimitIsSeen
