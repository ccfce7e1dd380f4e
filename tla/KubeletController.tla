--------------------------- MODULE KubeletController ---------------------------
(***************************************************************************)
(* The kubelet controller (pkg/kubelet/controller.go): every three minutes *)
(* it lists the nodes and writes their addresses to an Endpoints object    *)
(* and to EndpointSlices that belong to a Service it keeps.                *)
(*                                                                         *)
(* Every call of the API server may fail.  Besides the controller, nodes   *)
(* come and go, the Service may be deleted (the garbage collector then     *)
(* deletes the slices it owned), and the mirroring controller of           *)
(* Kubernetes copies an Endpoints object to slices of its own unless a     *)
(* label tells it not to.                                                  *)
(***************************************************************************)
EXTENDS Integers, FiniteSets, SequencesExt

CONSTANTS
  None,
  NodeNames,              \* sequence: the names of nodes, sorted
  NodeStates,             \* [internal, external, known]: addresses, Ready condition
  IPv4, IPv6,             \* the addresses that parse
  SliceNames,             \* names the API server may generate: List sorts by them
  maxEndpointsPerSlice

ASSUME KubeletAssumption ==
  /\ SliceNames \subseteq Nat
  /\ maxEndpointsPerSlice \in Nat \ {0}
  /\ IPv4 \cap IPv6 = {} /\ None \notin IPv4 \cup IPv6

VARIABLES
  nodes,                  \* API server: nodes
  service,                \* the UID of the Service
  endpoints,              \* [addresses, skipMirror] or None
  slices,                 \* by name: [owner, ipv4, endpoints] or None
  kubelet,                \* the Controller: its settings, or None
  ksync,                  \* its goroutine
  kload                   \* bound: [nodes, faults, services] changes left

kubeletVars == <<nodes, service, endpoints, slices, kubelet, ksync, kload>>

Mirror == 0               \* the owner of slices of the mirroring controller
NoUID == -1               \* of the empty Service that a failed write returns

IdleSync == [pc |-> "list", addresses |-> <<>>, svc |-> None, plan |-> <<>>]

NodeSet == ToSet(NodeNames)

\* An API call fails, within the bound.
Fault == kload.faults > 0 /\ kload' = [kload EXCEPT !.faults = @ - 1]
-----------------------------------------------------------------------------
(* From nodes to addresses.                                                  *)

\* New: the controller manages at least one kind of object.
NewKubelet(manageEndpoints, manageEndpointSlice, priority) ==
  IF manageEndpoints \/ manageEndpointSlice
  THEN [manageEndpoints |-> manageEndpoints, manageEndpointSlice |-> manageEndpointSlice,
        nodeAddressPriority |-> priority]
  ELSE None

nodeAddress(priority, node) ==
  LET internal == priority = "internal"
      first == IF internal THEN node.internal ELSE node.external
      second == IF internal THEN node.external ELSE node.internal
  IN IF first # None THEN first ELSE second

\* mutant: the condition of the nodes is not looked at
getNodeAddressesAny(priority, all) ==
  LET Address(n) == nodeAddress(priority, all[n])
      found == SelectSeq(NodeNames, LAMBDA n : all[n] # None /\ Address(n) \in IPv4 \cup IPv6)
  IN [i \in 1..Len(found) |->
        [ip |-> Address(found[i]), node |-> found[i], ipv4 |-> Address(found[i]) \in IPv4]]

\* A node whose Ready condition is unknown gives way to one with the same address
\* whose condition is known.
getNodeAddresses(priority, all) ==
  LET Address(n) == nodeAddress(priority, all[n])
      found == SelectSeq(NodeNames, LAMBDA n : all[n] # None /\ Address(n) \in IPv4 \cup IPv6)
      Known(ip) == SelectSeq(found, LAMBDA n : all[n].known /\ Address(n) = ip)
      Unknown(ip) == SelectSeq(found, LAMBDA n : ~all[n].known /\ Address(n) = ip)
      Dropped(n) == LET ip == Address(n)
                    IN /\ Known(ip) # <<>> /\ Unknown(ip) # <<>>
                       /\ n # Last(Known(ip))
      kept == SelectSeq(found, LAMBDA n : ~Dropped(n))
  IN [i \in 1..Len(kept) |->
        [ip |-> Address(kept[i]), node |-> kept[i], ipv4 |-> Address(kept[i]) \in IPv4]]
-----------------------------------------------------------------------------
(* The EndpointSlices that sync wants, from the ones there are.              *)

ipsOf(as) == {as[i].ip : i \in 1..Len(as)}

\* discoveryV1Endpoint: always ready, of one address and its node.
Endpoint(a) == [ip |-> a.ip, node |-> a.node]

\* nodeAddressIdx: the last address wins.
nodeAddressIdx(addresses, ip) == Last(SelectSeq(addresses, LAMBDA a : a.ip = ip))

\* The slices there are: an endpoint stays if its address still belongs to a node and
\* no endpoint before it has the address.
RefreshedSlices(addresses, current) ==
  LET names == SetToSortSeq({n \in SliceNames : current[n] # None}, <)
      Before(n, i) == ipsOf(SubSeq(current[n].endpoints, 1, i - 1))
                        \cup UNION {ipsOf(current[m].endpoints) : m \in {m \in ToSet(names) : m < n}}
      Stays(n, i) == current[n].endpoints[i].ip \in ipsOf(addresses) \ Before(n, i)
      Kept(n) == LET stay == SelectSeq([i \in 1..Len(current[n].endpoints) |-> i],
                                       LAMBDA i : Stays(n, i))
                 IN [i \in 1..Len(stay) |->
                       Endpoint(nodeAddressIdx(addresses, current[n].endpoints[stay[i]].ip))]
  IN [left |-> ipsOf(addresses) \ UNION {ipsOf(current[n].endpoints) : n \in ToSet(names)},
      plan |-> [k \in 1..Len(names) |-> [name |-> names[k], ipv4 |-> current[names[k]].ipv4,
                                         endpoints |-> Kept(names[k])]]]

\* Op(v), with v evaluated once.
With(v, Op(_)) == CHOOSE r \in {Op(w) : w \in {v}} : TRUE

\* New addresses fill the slices there are.
AppendedAddresses(addresses, from) ==
  LET Fits(p, a) == p.ipv4 = a.ipv4 /\ Len(p.endpoints) < maxEndpointsPerSlice
      Append1(acc, a, i) ==
        IF a.ip \in acc.left /\ i # 0
        THEN [left |-> acc.left \ {a.ip},
              plan |-> [acc.plan EXCEPT ![i].endpoints = Append(@, Endpoint(a))]]
        ELSE acc
      Place(acc, a) ==
        With(acc, LAMBDA c : Append1(c, a, SelectInSeq(c.plan, LAMBDA p : Fits(p, a))))
  IN FoldLeft(Place, from, addresses)

fullCapacity(eps) == Len(eps) >= maxEndpointsPerSlice

\* The others go to new slices, one open slice for each family of addresses.
NewSlices(addresses, from) ==
  LET New(v4, eps) == [name |-> None, ipv4 |-> v4, endpoints |-> eps]
      Flush(acc, v4) ==
        IF fullCapacity(acc.open[v4])
        THEN [acc EXCEPT !.plan = Append(@, New(v4, acc.open[v4])), !.open[v4] = <<>>]
        ELSE acc
      Open(acc, a) ==
        IF a.ip \in acc.left
        THEN [acc EXCEPT !.left = @ \ {a.ip}, !.open[a.ipv4] = Append(@, Endpoint(a))]
        ELSE acc
      Flushed(acc, a) ==
        IF a.ip \in acc.left
        THEN With(Flush(acc, TRUE), LAMBDA c : Flush(c, FALSE))
        ELSE acc
      Place(acc, a) ==
        With(With(acc, LAMBDA c : Flushed(c, a)), LAMBDA c : Open(c, a))
      Rest(open, v4) == IF open[v4] = <<>> THEN <<>> ELSE <<New(v4, open[v4])>>
      start == [left |-> from.left, plan |-> from.plan, open |-> [v \in BOOLEAN |-> <<>>]]
  IN With(FoldLeft(Place, start, addresses),
          LAMBDA done : done.plan \o Rest(done.open, TRUE) \o Rest(done.open, FALSE))

SlicePlan(addresses, current) ==
  With(With(RefreshedSlices(addresses, current), LAMBDA r : AppendedAddresses(addresses, r)),
       LAMBDA r : NewSlices(addresses, r))
-----------------------------------------------------------------------------
(* sync.                                                                     *)

Goto(pc) == [ksync EXCEPT !.pc = pc]

AfterEndpoints == IF kubelet.manageEndpointSlice THEN "slices" ELSE "wait"

AfterService == IF kubelet.manageEndpoints THEN "endpoints" ELSE "slices"

ListNodes ==
  /\ ksync.pc = "list"
  /\ \/ ksync' = [IdleSync EXCEPT !.pc = "service",
                    !.addresses = getNodeAddresses(kubelet.nodeAddressPriority, nodes)]
        /\ UNCHANGED kload
     \/ Fault /\ ksync' = Goto("wait")
  /\ UNCHANGED <<nodes, service, endpoints, slices, kubelet>>

\* CreateOrUpdateService; after an error, which is logged, sync goes on with no Service
\* (the read failed) or with an empty one (the write did).
syncService ==
  /\ ksync.pc = "service"
  /\ \/ /\ service' = [service EXCEPT !.uid = IF @ = None THEN service.next ELSE @,
                                      !.next = IF service.uid = None THEN @ + 1 ELSE @]
        /\ ksync' = [Goto(AfterService) EXCEPT !.svc = service'.uid]
        /\ UNCHANGED kload
     \/ /\ Fault
        /\ \E svc \in {None, NoUID} : ksync' = [Goto(AfterService) EXCEPT !.svc = svc]
        /\ UNCHANGED service
  /\ UNCHANGED <<nodes, endpoints, slices, kubelet>>

\* CreateOrUpdateEndpoints keeps the labels the object has.
syncEndpoints ==
  /\ ksync.pc = "endpoints"
  /\ \/ /\ endpoints' = [addresses |-> ksync.addresses,
                         skipMirror |-> \/ kubelet.manageEndpointSlice
                                        \/ endpoints # None /\ endpoints.skipMirror]
        /\ UNCHANGED kload
     \/ Fault /\ UNCHANGED endpoints
  /\ ksync' = Goto(AfterEndpoints)
  /\ UNCHANGED <<nodes, service, slices, kubelet>>

Creates(plan) == \E i \in 1..Len(plan) : plan[i].name = None

\* A new slice has the Service for its owner: without one, sync panics.
syncEndpointSlice ==
  /\ ksync.pc = "slices"
  /\ \E plan \in {SlicePlan(ksync.addresses, slices)} :
        \/ /\ ksync' = [ksync EXCEPT !.plan = plan,
                          !.pc = IF ksync.svc = None /\ Creates(plan) THEN "panic"
                                 ELSE IF plan = <<>> THEN "wait" ELSE "write"]
           /\ UNCHANGED kload
        \/ Fault /\ ksync' = Goto("wait")
  /\ UNCHANGED <<nodes, service, endpoints, slices, kubelet>>

Written == [ksync EXCEPT !.plan = Tail(@),
                         !.pc = IF Len(ksync.plan) = 1 THEN "wait" ELSE "write"]

\* A generated name is new.
FreeNames ==
  {n \in SliceNames : slices[n] = None /\ \A i \in 1..Len(ksync.plan) : ksync.plan[i].name # n}

\* An empty slice is deleted.  One that is gone can be neither deleted nor created
\* again, as it has a resource version, and an owner needs a UID; the first error ends
\* sync.
WriteSlice ==
  /\ ksync.pc = "write"
  /\ LET w == Head(ksync.plan)
         refused == IF w.name = None THEN ksync.svc = NoUID ELSE slices[w.name] = None
     IN \/ /\ ~refused
           /\ \/ /\ w.name # None /\ w.endpoints = <<>>
                 /\ slices' = [slices EXCEPT ![w.name] = None]
              \/ /\ w.name # None /\ w.endpoints # <<>>
                 /\ slices' = [slices EXCEPT ![w.name].endpoints = w.endpoints]
              \/ /\ w.name = None
                 /\ \E n \in FreeNames :
                      slices' = [slices EXCEPT ![n] = [owner |-> ksync.svc, ipv4 |-> w.ipv4,
                                                       endpoints |-> w.endpoints]]
           /\ ksync' = Written
           /\ UNCHANGED kload
        \/ refused /\ ksync' = Goto("wait") /\ UNCHANGED <<slices, kload>>
        \/ Fault /\ ksync' = Goto("wait") /\ UNCHANGED slices
  /\ UNCHANGED <<nodes, service, endpoints, kubelet>>

\* Run: the ticker.
Tick ==
  /\ ksync.pc = "wait"
  /\ ksync' = IdleSync
  /\ UNCHANGED <<nodes, service, endpoints, slices, kubelet, kload>>

KubeletStep ==
  /\ kubelet # None
  /\ \/ ListNodes \/ syncService \/ syncEndpoints \/ syncEndpointSlice
     \/ WriteSlice \/ Tick
-----------------------------------------------------------------------------
(* The rest of the cluster.                                                  *)

ChangeNode(n, s) ==
  /\ kload.nodes > 0 /\ kload' = [kload EXCEPT !.nodes = @ - 1]
  /\ nodes[n] # s
  /\ nodes' = [nodes EXCEPT ![n] = s]
  /\ UNCHANGED <<service, endpoints, slices, kubelet, ksync>>

\* The endpoints controller deletes the Endpoints object along with the Service.
DeleteService ==
  /\ kload.services > 0 /\ kload' = [kload EXCEPT !.services = @ - 1]
  /\ service.uid # None
  /\ service' = [service EXCEPT !.uid = None]
  /\ endpoints' = None
  /\ UNCHANGED <<nodes, slices, kubelet, ksync>>

CollectGarbage ==
  \E n \in SliceNames :
    /\ slices[n] # None /\ slices[n].owner \notin {Mirror, service.uid}
    /\ slices' = [slices EXCEPT ![n] = None]
    /\ UNCHANGED <<nodes, service, endpoints, kubelet, ksync, kload>>

MirroredFamily(v4) ==
  LET as == SelectSeq(endpoints.addresses, LAMBDA a : a.ipv4 = v4)
      ips == SetToSeq(ipsOf(as))
  IN [i \in 1..Len(ips) |-> Endpoint(nodeAddressIdx(as, ips[i]))]

MirrorSlices(v4) == {n \in SliceNames : slices[n] # None /\ slices[n].owner = Mirror /\ slices[n].ipv4 = v4}

Mirrored == endpoints # None /\ ~endpoints.skipMirror

\* One step of the mirroring controller.
MirrorStep ==
  /\ \/ /\ ~Mirrored
        /\ \E v4 \in BOOLEAN : \E n \in MirrorSlices(v4) : slices' = [slices EXCEPT ![n] = None]
     \/ /\ Mirrored
        /\ \E v4 \in BOOLEAN :
             LET want == MirroredFamily(v4)
             IN \/ /\ want # <<>> /\ MirrorSlices(v4) = {}
                   /\ \E n \in FreeNames :
                        slices' = [slices EXCEPT ![n] =
                          [owner |-> Mirror, ipv4 |-> v4, endpoints |-> want]]
                \/ \E n \in MirrorSlices(v4) :
                     /\ ipsOf(slices[n].endpoints) # ipsOf(want)
                     /\ slices' = [slices EXCEPT ![n] =
                          IF want = <<>> THEN None ELSE [@ EXCEPT !.endpoints = want]]
  /\ UNCHANGED <<nodes, service, endpoints, kubelet, ksync, kload>>

ClusterStep ==
  \/ \E n \in NodeSet, s \in NodeStates \cup {None} : ChangeNode(n, s)
  \/ DeleteService \/ CollectGarbage \/ MirrorStep
-----------------------------------------------------------------------------
(* What the objects should say.                                              *)

Addressed(ip) ==
  {n \in NodeSet : nodes[n] # None /\ nodeAddress(kubelet.nodeAddressPriority, nodes[n]) = ip}

\* The nodes an address may be published for: with a known Ready condition if any is.
Candidates(ip) ==
  LET known == {n \in Addressed(ip) : nodes[n].known}
  IN IF known # {} THEN known ELSE Addressed(ip)

Wanted == {ip \in IPv4 \cup IPv6 : Addressed(ip) # {}}

EndpointsCurrent ==
  /\ endpoints # None
  /\ ipsOf(endpoints.addresses) = Wanted
  /\ \A i \in 1..Len(endpoints.addresses) :
       endpoints.addresses[i].node \in Candidates(endpoints.addresses[i].ip)

Places(ip) ==
  {<<n, i>> \in SliceNames \X (1..Cardinality(NodeSet)) :
     slices[n] # None /\ i <= Len(slices[n].endpoints) /\ slices[n].endpoints[i].ip = ip}

SlicesCurrent ==
  /\ \A ip \in Wanted : Cardinality(Places(ip)) = 1
  /\ \A n \in SliceNames : slices[n] # None =>
       /\ slices[n].endpoints # <<>> /\ ~(Len(slices[n].endpoints) > maxEndpointsPerSlice)
       /\ \A i \in 1..Len(slices[n].endpoints) :
            LET e == slices[n].endpoints[i]
            IN /\ e.ip \in Wanted /\ (e.ip \in IPv4) = slices[n].ipv4
               /\ e.node \in Candidates(e.ip)
=============================================================================
