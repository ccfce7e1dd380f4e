SPECIFICATION Spec
CONSTANTS
  None = None
  Own = Own
  Bad = Bad
  NodeNames <- mcNodeNames
  NodeStates <- mcNodeStates
  IPv4 = {"ip1", "ip2", "ip3"}
  IPv6 = {"v6"}
  SliceNames = {1, 2, 3}
  maxEndpointsPerSlice = 2
  Namespaces = {"a", "b"}
  NamespaceAll = ""
  MaxPollers = 2
  MaxShards = 2
  MaxPods = 2
  Groups = {"start", "kubelet", "namespaces", "events", "status"}
  DeploymentsOf <- mcDeploymentsOf
INVARIANT EventsReachReaders
PROPERTY AddressesServed
PROPERTY NamespacesFollowed
PROPERTY ServesOrExits
PROPERTY StatusSettles
CHECK_DEADLOCK FALSE
