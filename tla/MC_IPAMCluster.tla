----------------------------- MODULE MC_IPAMCluster -----------------------------
(* Two nodes, each with its daemon, on a 16-address cluster cut into two    *)
(* /1 blocks of six usable addresses: a block reaches the pressure signal   *)
(* (Available() < int(6 * 0.2) = 1) once full, and the two blocks are few   *)
(* enough for the daemons to compete for them.                              *)
EXTENDS IPAMCluster, TLC

CONSTANTS n1, n2

\* The configuration NewPool accepts (pool.go:50): a block is longer than
\* the cluster prefix and no longer than the address.
ASSUME ClusterPrefix < BlockPrefix /\ BlockPrefix <= AddrBits

MCNodes == {n1, n2}

\* Nodes are interchangeable: the code compares node ids only for equality.
NodeSymmetry == Permutations(MCNodes)

=============================================================================
