SPECIFICATION Spec
CONSTANTS
  None = None
  Order <- MCOrder
  Alerts <- MCAlerts
  Groups <- MCGroups
  InputsOf <- MCInputsOf
INVARIANTS RoutingComposes InhibitionStaysInNamespace AcceptedLoads
 
