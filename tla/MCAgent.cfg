SPECIFICATION FairSpec
CONSTANTS
  None = None
  Nodes = {"Outer", "Inner", "Tool"}
  Agents = {"Outer", "Inner"}
  Tools = {"Inner", "Tool"}
  Mains = {0}
  Home <- OuterHome
  AgentsOf <- SharedTool
  Calls = {1, 2, 3}
  MaxAsk = 2
  K = 2
  MaxRounds <- RoundBudgets
  MaxToolCalls <- CallBudgets
  AskedOnce = {"Outer", "Inner"}
  MayPause = {"Tool"}
  MayHalt = {"Inner"}
  MayCancel = TRUE
INVARIANTS
  JoinAccounts
  RoundsAreKept
PROPERTIES
  ResumesWhole
  RoundsEnd
