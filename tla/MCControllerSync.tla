-------------------------- MODULE MCControllerSync --------------------------
(***************************************************************************)
(* Instances of ControllerSync for TLC.  A setup is a controller with its  *)
(* gates, the first spec and the kinds of edits users make: each setup     *)
(* looks at one part of sync, with all interleavings of that part.         *)
(***************************************************************************)
EXTENDS ControllerSync

Plain == [kind |-> "prometheus", status |-> FALSE, retention |-> FALSE,
          managed |-> TRUE, shards |-> 1, finalizers |-> <<>>, edits |-> {}]

\* Two rule files that need a ConfigMap each, two assets, a Secret each.
MCRuleFiles == <<[id |-> 1, key |-> 1, size |-> 2], [id |-> 2, key |-> 1, size |-> 2]>>
MCAssetFiles == <<[id |-> 1, key |-> 1, size |-> 1], [id |-> 2, key |-> 1, size |-> 1]>>

MCSetups ==
    { [Plain EXCEPT !.edits = {"rules", "wipe"}],
      [Plain EXCEPT !.edits = {"imm", "body"}],
      [Plain EXCEPT !.shards = 2, !.retention = TRUE, !.edits = {"shards", "retain"}],
      [Plain EXCEPT !.status = TRUE, !.edits = {"delete", "paused", "finalizer"}],
      [Plain EXCEPT !.managed = FALSE, !.edits = {"config", "body", "paused"}],
      [Plain EXCEPT !.kind = "agent", !.edits = {"shards", "daemon", "imm"}],
      [Plain EXCEPT !.kind = "alertmanager", !.edits = {"assets", "imm", "drift", "paused"}],
      [Plain EXCEPT !.kind = "thanos", !.edits = {"rules", "drift", "delete"}] }
=============================================================================
