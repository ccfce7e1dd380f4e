SPECIFICATION Spec
CONSTANTS
  Sanitized <- MCSanitized
  HashOf <- MCHashOf
  Negation <- MCNegation
  Kinds <- MCKinds
  Default <- MCDefault
  Groups = {"tls", "web", "flags", "storage", "logs", "sidecar", "labels", "patch", "startup", "cluster", "ruler", "meta"}
  InputsOf <- MCInputsOf
INVARIANTS
  PodsStart
  FilesReachable
  SchemesAgree
  
PROPERTIES
  PodsFound
