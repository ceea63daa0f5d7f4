CONSTANTS
  Commands = {p, q}
  Waiters = {p}
  Claude = {claude}
  Codex = {}
  Cursor = {cursor}
  NoText = nobody
  MaxLines = 2
SPECIFICATION WaitFairSpec
CHECK_DEADLOCK FALSE
  
PROPERTIES  CommandsEnd
