SPECIFICATION FairSpec
CONSTANTS
  Keys = {k1}
  None = None
  Foreign = Foreign
  Metas = {own, other}
  OwnMetas = {own}
  MaxLag = 1
  MaxBacklog = 1
  MaxEdits = 1
  Paused = {FALSE}
  Faults = {}
  MaxFaults = 0
  Gaps = {"sset"}
  MaxGaps = 1
  MaxCrashes = 1
  MayStop = TRUE
  HiddenRecreation = FALSE
INVARIANTS TypeOK
PROPERTIES StopReturns ImplementsLoop
CHECK_DEADLOCK FALSE
