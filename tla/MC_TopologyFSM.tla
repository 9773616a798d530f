---------------------------- MODULE MC_TopologyFSM ----------------------------
(***************************************************************************)
(* TopologyFSM for TLC: two replicas, two client nodes registered at TOR   *)
(* r1, which has a default and a storage /2 (two usable addresses each) in *)
(* a 16-address space; TOR r2 has one default /2.  The log starts with the *)
(* three commands that set this up, applied on both replicas.              *)
(***************************************************************************)
EXTENDS TopologyFSM

CONSTANTS s1, s2, n1, n2

MCReplicas == {s1, s2}
MCNodes == {n1, n2}

Text(a, p) == [addr |-> a, prefix |-> p]

MCConfig ==
    << [id |-> "z1",
        pods |-> << [id |-> "p1",
                     tors |-> << [id |-> "r1", subnets |-> << [cidr |-> Text(0, 2), purpose |-> "default"],
                                                              [cidr |-> Text(4, 2), purpose |-> "storage"] >>],
                                 [id |-> "r2", subnets |-> << [cidr |-> Text(8, 2), purpose |-> "default"] >>] >>] >>] >>

MCInitLog ==
    << [type |-> "init_topology", cfg |-> MCConfig],
       [type |-> "register_node", node |-> n1, tor |-> "r1"],
       [type |-> "register_node", node |-> n2, tor |-> "r1"] >>

\* An operator command: a storage subnet for r2.
MCAdminCmds ==
    { [type |-> "add_subnet", tor |-> "r2", cidr |-> Text(12, 2), purpose |-> "storage"] }

\* A second default subnet for r1: two candidates for a default request.
MCSecondDefault ==
    { [type |-> "add_subnet", tor |-> "r1", cidr |-> Text(12, 2), purpose |-> "default"] }

\* The empty purpose (applied as "default") and storage.
MCPurposes == {"", "storage"}

\* Replicas are interchangeable: none is named by the log or the leader.
ReplicaSymmetry == Permutations(MCReplicas)

=============================================================================
