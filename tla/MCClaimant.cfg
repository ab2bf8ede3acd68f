SPECIFICATION FairSpec
CONSTANTS
  None = None
  Nodes = {"Chain", "Plain"}
  K = 2
  Retries <- OneRetryEach
  Retrying = {}
  Chained = {"Chain"}
  Deadlined = {"Chain"}
  StopWorkflow = {}
  Destination = {}
  MayStop = {}
  MayWait = {"Plain"}
  MayFail = {}
  MayAnswerNull = {}
  MayOpen = {}
  MayReject = {}
INVARIANT
  ClaimantWaits
\* A run ends when nothing is enabled.
CHECK_DEADLOCK FALSE
