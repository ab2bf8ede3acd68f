SPECIFICATION CodecSpec
CONSTANTS
  Nodes <- ResumeNodes
  Conn <- ResumeConn
  StartNodes = {"If"}
  Trigger = "If"
  Required <- ResumeRequired
  References <- ResumeReferences
  LoopNodes = {}
  RequestedBudget = 2
  MaxRuns = 2
  StopWorkflow = {"J"}
  Retries <- ResumeRetries
  MayWait = {"M"}
  MayStop = {}
  MayFail = {"J"}
  MayAbort = TRUE
  MaxResumes = 1
INVARIANTS
  DecidedAcross
  ResumeCompletes
PROPERTIES
  ArrivalsSurvive
  RoundTrips
\* A run ends when nothing is enabled.
CHECK_DEADLOCK FALSE
