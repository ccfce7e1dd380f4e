SPECIFICATION Spec
CONSTANTS
  Keys = {k1}
  None = None
  Foreign = Foreign
  Metas = {own}
  OwnMetas = {own}
  MaxLag = 1
  MaxBacklog = 1
  MaxEdits = 2
  Paused = {TRUE, FALSE}
  Faults = {"api", "invalid", "lose"}
  MaxFaults = 1
  Gaps = {}
  MaxGaps = 0
  MaxCrashes = 0
  MayStop = FALSE
  HiddenRecreation = FALSE
INVARIANTS NoStrandedKey FailureIsRetried
CHECK_DEADLOCK FALSE
