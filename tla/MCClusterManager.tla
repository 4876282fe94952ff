-------------------------- MODULE MCClusterManager --------------------------
\* Small instances of ClusterManager.
EXTENDS ClusterManager, TLC

Symmetric == Permutations(Nodes) \cup Permutations(Jobs) \cup Permutations(Requests)
=============================================================================
