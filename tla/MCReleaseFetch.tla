--------------------------- MODULE MCReleaseFetch ---------------------------
(* A small instance of ReleaseFetch: two callers, one app, upgrades that   *)
(* share a block, an unusable release, and nodes that lag.                 *)
EXTENDS ReleaseFetch, TLC

CONSTANTS c1, c2, a1

MCReleases == {[digests |-> <<"d1">>, publicEnv |-> "json"],
               [digests |-> <<"d1", "d2">>, publicEnv |-> "json"]}

MCPolicies == {"any"}

Symmetry == Permutations({c1, c2})
=============================================================================
