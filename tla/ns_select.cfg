SPECIFICATION FairSpec
CONSTANTS
  p1 = p1
  p2 = p2
  home = home
  team = team
  other = other
  Keys = {p1}
  None = None
  Namespaces = {home, n1}
  Labels = {team, other}
  Kinds <- MCKinds
  Contents = {v1}
  Selectable = {v1}
  Home <- MCHome
  NilSelector <- MCNilSelector
  NamespaceSelector <- MCNamespaceSelector
  NamespaceRaces = FALSE
  MaxBacklog = 1
  MaxChanges = 3
  MaxFaults = 1
INVARIANTS SelectionFollowsCaches
PROPERTIES EventuallySelected
CHECK_DEADLOCK FALSE
