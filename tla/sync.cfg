SPECIFICATION Spec
CONSTANTS
  Setups <- MCSetups
  MaxShards = 2
  RuleFiles <- MCRuleFiles
  AssetFiles <- MCAssetFiles
  MaxConfigMapDataSize = 2
  MaxSecretDataSizeBytes = 3
  MaxEdits = 2
  MaxFaults = 1
  MaxDrifts = 1
  MaxFinalizers = 3
INVARIANTS QuietConverged MountsExist
PROPERTIES  EventuallySettled
CHECK_DEADLOCK FALSE
