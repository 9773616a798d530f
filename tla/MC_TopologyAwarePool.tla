------------------------- MODULE MC_TopologyAwarePool -------------------------
(***************************************************************************)
(* TopologyAwarePool for TLC: a 16-address space (AddrBits = 4), one     *)
(* zone with one pod and two TORs.  r1 starts with one default /2 (two     *)
(* usable addresses), r2 with a default and a storage /2, so requests for  *)
(* "storage" and for an unknown purpose take both routes of the fallback   *)
(* and every subnet fills up.  Four nodes, more than any subnet has       *)
(* addresses, so nodes of one TOR compete for its last address and some   *)
(* request always meets a full pool.                                       *)
(***************************************************************************)
EXTENDS TopologyAwarePool

CONSTANTS n1, n2, n3, n4

MCNodes == {n1, n2, n3, n4}

\* A CIDR text "a/p" over the model's address space.
Text(a, p) == [addr |-> a, prefix |-> p]

\* The configuration every run initialises with.
GoodConfig ==
    << [id |-> "z1",
        pods |-> << [id |-> "p1",
                     tors |-> << [id |-> "r1", subnets |-> << [cidr |-> Text(0, 2), purpose |-> "default"] >>],
                                 [id |-> "r2", subnets |-> << [cidr |-> Text(4, 2), purpose |-> "default"],
                                                              [cidr |-> Text(8, 2), purpose |-> "storage"] >>] >>] >>] >>

MCConfigs == {GoodConfig}

\* AddSubnetToTOR inputs: a new storage subnet for r1, the text r2 already
\* has, and a /3 with no usable address.
MCNewSubnets ==
    { [tor |-> "r1", cidr |-> Text(12, 2), purpose |-> "storage"],
      [tor |-> "r2", cidr |-> Text(4, 2),  purpose |-> "default"],
      [tor |-> "r1", cidr |-> Text(14, 3), purpose |-> "default"] }

MCTORIds == {"r1", "r2"}

MCPurposes == {"default", "storage", "backup"}

\* AddSubnetToTOR inputs whose texts differ from every text of their TOR
\* but whose networks are r2's default 4/2: "5/2" (host bit set) for r2
\* itself, and "4/2" for r1.
MCOverlapSubnets ==
    { [tor |-> "r2", cidr |-> Text(5, 2), purpose |-> "default"],
      [tor |-> "r1", cidr |-> Text(4, 2), purpose |-> "storage"] }

\* GoodConfig with r2's storage subnet a /3, which has no usable address.
BadConfig ==
    << [id |-> "z1",
        pods |-> << [id |-> "p1",
                     tors |-> << [id |-> "r1", subnets |-> << [cidr |-> Text(0, 2), purpose |-> "default"] >>],
                                 [id |-> "r2", subnets |-> << [cidr |-> Text(4, 2), purpose |-> "default"],
                                                              [cidr |-> Text(8, 3), purpose |-> "storage"] >>] >>] >>] >>

MCBadConfigs == {BadConfig}

\* Node ids only name callers; the configuration never mentions them.
NodeSymmetry == Permutations(MCNodes)

=============================================================================
