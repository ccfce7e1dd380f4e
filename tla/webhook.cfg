SPECIFICATION Spec
CONSTANTS
    BadText <- MCBadText
    NotParsed <- MCNotParsed
    Groups <- MCGroups
    RequestsOf <- MCRequestsOf
    Selectors <- MCSelectors
    MaxRewrites = 2
    MaxConfigMapDataSize = 3
    NamespaceLabel = "tenant"
INVARIANTS
    AdmittedAccepted
    RuleFilesLoad
    
PROPERTIES
    VersionsAgree
