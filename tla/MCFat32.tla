------------------------------ MODULE MCFat32 -------------------------------
(* Instances of Fat32: one short and one long name, directories with two   *)
(* slots per cluster so that they grow and long names straddle clusters.   *)
EXTENDS Fat32

Names == {"A", "L"}
Format == [n \in Names |-> IF n = "A" THEN "A" ELSE "L8"]

(* Floyd's algorithm on every table of this size: it reports a cycle       *)
(* exactly if the chain does not come to an end.                           *)
ASSUME FloydExact ==
  \A f \in [Cluster -> Cluster \cup {Free, EOC}], s \in Cluster :
    LET walk[n \in 0 .. MaxCluster] ==
          IF n = 0 THEN s ELSE IF HasNext(walk[n - 1]) THEN f[walk[n - 1]] ELSE EOC
    IN fat_chain_has_cycle(f, s) <=> HasNext(walk[MaxCluster])
=============================================================================
