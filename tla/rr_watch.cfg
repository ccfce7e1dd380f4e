SPECIFICATION Spec
CONSTANTS
  Keys = {k1}
  None = None
  Foreign = Foreign
  Metas = {own, other}
  OwnMetas = {own}
  MaxLag = 2
  MaxBacklog = 1
  MaxEdits = 2
  Paused = {TRUE, FALSE}
  Faults = {}
  MaxFaults = 0
  Gaps = {"cr"}
  MaxGaps = 1
  MaxCrashes = 0
  MayStop = FALSE
  HiddenRecreation = FALSE
INVARIANTS NoLostReconciliation QuietConverged
CHECK_DEADLOCK FALSE
