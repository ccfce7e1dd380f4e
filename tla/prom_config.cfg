SPECIFICATION Spec
CONSTANTS
  Keys <- MCKeys
  Values <- MCValues
  SanitizedKey <- MCSanitizedKey
  Matching <- MCMatching
  HashOf <- MCHashOf
  Groups = {"auth", "class", "api", "check", "section", "limit", "rule", "selector", "endpoint", "order"}
  InputsOf <- MCInputsOf
  Before <- MCBefore
  LabelNames <- MCLabelNames
  Objects <- MCObjects
  Bases <- MCBases
INVARIANTS
  AcceptedLoads
  AssetsProvided
  SettingsHonoured
  EnforcementHolds
  ScrapedAndAlertedOnce
  SelectorsAgree
