------------------------------ MODULE MC_IPAMServer ------------------------------
(* One daemon's gRPC server with a 16-address space, cluster 0/1 cut into   *)
(* two /2 blocks of two usable addresses, two nodes and four container    *)
(* slots of node n1: enough for n1 to fill a block and need a second one, *)
(* for the FSM to give a block to n2 or take one back, for the cluster to *)
(* run out, and for one container's release to interleave with another's *)
(* allocation of the same address.                                       *)
EXTENDS IPAMServer

CONSTANTS n1, n2, c1, c2, c3, c4

MCNodes == {n1, n2}
MCContainers == {c1, c2, c3, c4}

=============================================================================
