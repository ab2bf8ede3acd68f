SPECIFICATION FairSpec
CONSTANTS
  Nodes <- RoundNodes
  Conn <- RoundConn
  StartNodes = {"If"}
  Trigger = "If"
  Required <- RoundRequired
  References <- RoundReferences
  LoopNodes = {"L"}
  RequestedBudget = 2
  MaxRuns = 2
  StopWorkflow = {}
  Retries <- RoundRetries
  MayWait = {}
  MayStop = {}
  MayFail = {"A"}
  MayAbort = FALSE
INVARIANTS
  RepeatsRunAlone
  SlotHoldsOneArrival
