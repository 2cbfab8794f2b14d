----------------------------- MODULE MCPairJobs -----------------------------
(* Model values for the jobs of the pairs table.                              *)
EXTENDS PairJobs

CONSTANTS a, b

MCPairs == {a, b}
=============================================================================
