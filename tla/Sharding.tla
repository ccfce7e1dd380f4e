------------------------------ MODULE Sharding ------------------------------
(***************************************************************************)
(* How rule files are split over ConfigMaps and TLS assets over Secrets    *)
(* (pkg/prometheus/server/rules.go, pkg/thanos/rules.go and                *)
(* pkg/operator/sharded_secret.go).  A file is a record of an id, the       *)
(* length of its name and its size; both loops walk the files in the order *)
(* of their names, so a collection of files is a sequence in that order.   *)
(* A bucket is the set of the files it holds.                              *)
(***************************************************************************)
EXTENDS Integers, Sequences, FiniteSetsExt, SequencesExt

CONSTANTS MaxConfigMapDataSize,  \* bytes of rule files in one ConfigMap
          MaxSecretDataSizeBytes \* bytes of TLS assets in one Secret

ASSUME LimitsArePositive == /\ MaxConfigMapDataSize \in Nat \ {0}
                            /\ MaxSecretDataSizeBytes \in Nat \ {0}

(* bucketSize: the bytes of the rule files of a bucket (names are free). *)
BucketSize(bucket) == MapThenSumSet(LAMBDA f : f.size, bucket)

(* The body of the loop of makeRulesConfigMaps: a file that does not fit   *)
(* into the last bucket opens a new one, earlier buckets are not reopened. *)
PutRuleFile(buckets, f) ==
    IF BucketSize(Last(buckets)) + f.size > MaxConfigMapDataSize
    THEN Append(buckets, {f})
    ELSE [buckets EXCEPT ![Len(buckets)] = @ \cup {f}]

(* makeRulesConfigMaps: the ConfigMaps of an instance, numbered from zero  *)
(* in the code; there is always a first one, possibly empty.               *)
MakeRulesConfigMaps(files) == FoldLeft(PutRuleFile, <<{}>>, files)

(* The body of the loop of shard(): the name of an asset counts too. *)
PutAsset(acc, f) ==
    LET size == f.key + f.size IN
    IF acc.size + size > MaxSecretDataSizeBytes
    THEN [shards |-> Append(acc.shards, {f}), size |-> size]
    ELSE [shards |-> [acc.shards EXCEPT ![Len(acc.shards)] = @ \cup {f}],
          size   |-> acc.size + size]

(* shard(): the Secrets the TLS assets are written to; at least one. *)
Shard(files) ==
    FoldLeft(PutAsset, [shards |-> <<{}>>, size |-> 0], files).shards
=============================================================================
