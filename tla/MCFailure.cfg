SPECIFICATION FairSpec
CONSTANTS
  Nodes <- FailNodes
  Conn <- FailConn
  StartNodes = {"T"}
  Trigger = "T"
  Required <- FailRequired
  References <- FailReferences
  LoopNodes = {}
  RequestedBudget = 2
  MaxRuns = 1
  StopWorkflow = {"B"}
  Retries <- FailRetries
  MayWait = {"A"}
  MayStop = {"A"}
  MayFail = {"A", "B"}
  MayAbort = TRUE
INVARIANTS
  TypeOK
  BudgetConserved
  QuiescentIsDrained
  CompletesClean
PROPERTIES
  HaltKeepsArrivals
  ImplementsExecution
  SkipTakesNoData
  EveryNodeDecided
