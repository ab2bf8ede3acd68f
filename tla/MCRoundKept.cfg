SPECIFICATION CodecSpec
CONSTANTS
  Nodes <- WaitNodes
  Conn <- WaitConn
  StartNodes = {"If"}
  Trigger = "If"
  Required <- WaitRequired
  References <- WaitReferences
  LoopNodes = {}
  RequestedBudget = 1
  MaxRuns = 2
  StopWorkflow = {}
  Retries <- WaitRetries
  MayWait = {"W"}
  MayStop = {}
  MayFail = {}
  MayAbort = FALSE
  MaxResumes = 1
PROPERTIES
  RoundsKept
\* A run ends when nothing is enabled.
CHECK_DEADLOCK FALSE
