SPECIFICATION Spec
CONSTANTS
  Runs = {r1, r2, r3}
  Commands = {"install", "uninstall"}
  CreatedOrder <- McCreated
  ReplacedOrder <- McReplaced
  Index = "index"
  Seed = 2
  MaxCandidates = 2
  MayFail = {"copy", "write", "record", "restore"}
  MaxKills = 2
  MayTamper = {"execute"}
SYMMETRY RunSymmetry
CHECK_DEADLOCK FALSE
INVARIANT Loadable
INVARIANT UninstallRecovers
PROPERTY AnswersAreTrue
PROPERTY ForeignIsKept
INVARIANT BootsAsStatusSays
