SPECIFICATION FairSpec
CONSTANTS
  Keys = {k1}
  None = None
  Foreign = Foreign
  Metas = {own, other}
  OwnMetas = {own}
  MaxLag = 1
  MaxBacklog = 1
  MaxEdits = 1
  Paused = {FALSE}
  Faults = {"api", "pod", "lose", "drift"}
  MaxFaults = 1
  Gaps = {"resync"}
  MaxGaps = 1
  MaxCrashes = 0
  MayStop = FALSE
  HiddenRecreation = FALSE
 
PROPERTIES EventuallyConverged ImplementsSafeLoop
CHECK_DEADLOCK FALSE
