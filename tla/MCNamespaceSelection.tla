------------------------ MODULE MCNamespaceSelection ------------------------
(* Instances of NamespaceSelection.  Both instances live in namespace home; *)
(* p1 takes rules from its own namespace and monitors from the namespaces   *)
(* labelled team, p2 the rules of the latter and the monitors of all.       *)
EXTENDS NamespaceSelection

CONSTANTS p1, p2, home, team, other

MCHome == [p \in Prometheuses |-> home]

MCKinds == <<"PrometheusRules", "ServiceMonitors">>

MCNilSelector ==
  [p \in Prometheuses |-> IF p = p1 THEN {"PrometheusRules"} ELSE {}]

MCNamespaceSelector ==
  [p \in Prometheuses |->
     IF p = p1 THEN [PrometheusRules |-> {}, ServiceMonitors |-> {team}]
               ELSE [PrometheusRules |-> {team}, ServiceMonitors |-> {team, other}]]
=============================================================================
