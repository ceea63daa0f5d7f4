CONSTANTS
  AgentKinds = {"claude", "codex", "cursor"}
  Window = 2
  MaxTasks = 2
  MaxLines = 5
  MaxRead = 3
  MaxContext = 2
SPECIFICATION FairSpec
CHECK_DEADLOCK FALSE
INVARIANTS TypeOK PromptsAreRecognised CalibrationsFit
PROPERTY GrowthIsTold
