SPECIFICATION FairSpec
CONSTANTS
  None = None
  Nodes = {"Chain", "Retry"}
  K = 2
  Retries <- OneRetryEach
  Retrying = {"Retry"}
  Chained = {"Chain"}
  Deadlined = {"Chain"}
  StopWorkflow = {"Retry"}
  Destination = {}
  MayStop = {"Retry"}
  MayWait = {"Retry"}
  MayFail = {"Chain", "Retry"}
  MayAnswerNull = {"Chain"}
  MayOpen = {"Chain"}
  MayReject = {"Retry"}
INVARIANTS
  OneClaimant
  ClaimIsKept
  RecordedOnce
  ErrorEndsRun
PROPERTIES
  AbandonedIsSilent
  DeadlineSettles
\* A run ends when nothing is enabled.
CHECK_DEADLOCK FALSE
