-------------------------- MODULE TopologyAwarePool --------------------------
(***************************************************************************)
(* One TopologyAwarePool of one process, driven by its callers.  held is   *)
(* the set of <<ip, node>> pairs: the addresses callers were given and     *)
(* have not released.                                                      *)
(***************************************************************************)
EXTENDS TopologyPool

CONSTANTS
    Nodes,              \* node ids callers register and allocate for
    TORIds,             \* TOR ids a RegisterNode may name
    Configs,            \* topology configurations InitializeTopology is given
    NewSubnets,         \* [tor, cidr, purpose] inputs of AddSubnetToTOR
    Purposes,           \* purposes an allocation may ask for
    ReleaseByHolderOnly \* TRUE: a caller releases only addresses it holds
                        \* or that nobody holds

VARIABLES tp, held

vars == <<tp, held>>

Init ==
    /\ tp = EmptyTopologyPool
    /\ held = {}

DoInitializeTopology(cfg) ==
    /\ tp' = InitializeTopology(tp, cfg).tp
    /\ UNCHANGED held

DoRegisterNode(n, r) ==
    /\ tp' = RegisterNode(tp, n, r).tp
    /\ UNCHANGED held

\* AllocateIPForNodeWithPurpose; on success the caller holds the address.
DoAllocateIP(n, purpose) ==
    \E res \in AllocateIPForNodeWithPurpose(tp, n, purpose) :
        /\ tp' = res.tp
        /\ held' = IF res.err = "ok" THEN held \cup {<<res.ip, n>>} ELSE held

\* Which release calls the callers make.
ReleaseInput(n, ip) ==
    \/ ~ReleaseByHolderOnly
    \/ <<ip, n>> \in held
    \/ \A m \in Nodes : <<ip, m>> \notin held

\* ReleaseIPForNode; on success the caller no longer holds the address.
DoReleaseIP(n, ip) ==
    /\ ReleaseInput(n, ip)
    /\ \E res \in ReleaseIPForNode(tp, n, ip) :
          /\ tp' = res.tp
          /\ held' = IF res.err = "ok" THEN held \ {<<ip, n>>} ELSE held

DoAddSubnetToTOR(ns) ==
    /\ tp' = AddSubnetToTOR(tp, ns.tor, ns.cidr, ns.purpose).tp
    /\ UNCHANGED held

Next ==
    \/ \E cfg \in Configs : DoInitializeTopology(cfg)
    \/ \E n \in Nodes, r \in TORIds : DoRegisterNode(n, r)
    \/ \E n \in Nodes, p \in Purposes : DoAllocateIP(n, p)
    \/ \E n \in Nodes, ip \in Addr : DoReleaseIP(n, ip)
    \/ \E ns \in NewSubnets : DoAddSubnetToTOR(ns)

Spec == Init /\ [][Next]_vars

----------------------------------------------------------------------------
(* Properties.                                                             *)

\* Every subnet of every SubnetPool, as <<tor, cidr text>>.
AllSubnets == UNION {{<<r, k>> : k \in DOMAIN tp.pools[r]} : r \in DOMAIN tp.pools}
SubnetAt(rk) == tp.pools[rk[1]][rk[2]]

\* The tree's maps and every subnet's counters are well formed.
TypeOK ==
    /\ DOMAIN tp.topo.nodes \subseteq Nodes
    /\ \A n \in DOMAIN tp.topo.nodes : tp.topo.nodes[n] \in DOMAIN tp.topo.tors
    /\ \A rk \in AllSubnets :
          /\ SubnetAt(rk).capacity \in 1 .. AddrSpace
          /\ SubnetAt(rk).used \in 0 .. SubnetAt(rk).capacity
    /\ held \subseteq Addr \X Nodes

\* Every subnet's three records of what is allocated agree: the bitmap's set
\* positions, its allocated counter and the subnet's Used, and the
\* Allocations table keyed by address (AllocateIP writes all of them,
\* ReleaseIP must undo all of them).
SubnetAccounting ==
    \A rk \in AllSubnets :
        LET s == SubnetAt(rk)
        IN  /\ s.used = Cardinality(s.bm.bits)
            /\ s.bm.allocated = s.used
            /\ DOMAIN s.allocations = {PositionToIP(s.cidr, q) : q \in s.bm.bits}

\* No address is held by two callers at once.
UniqueHolders ==
    \A h1, h2 \in held : h1[1] = h2[1] => h1[2] = h2[2]

\* Every address a caller holds is still allocated to that caller's node
\* in the SubnetPool of the TOR the node is registered at: no release,
\* re-registration or subnet re-add takes it away while it is held.
HeldIPsBacked ==
    \A h \in held :
        /\ h[2] \in DOMAIN tp.topo.nodes
        /\ \E rk \in AllSubnets :
              /\ rk[1] = tp.topo.nodes[h[2]]
              /\ h[1] \in DOMAIN SubnetAt(rk).allocations
              /\ SubnetAt(rk).allocations[h[1]] = h[2]

\* Every TOR of the tree has a SubnetPool, and the TOR's subnet list names
\* exactly the subnets of that pool: a node registered at any TOR can be
\* served, and AddSubnetToTOR keeps the two views together.
TORsHavePools ==
    \A r \in DOMAIN tp.topo.tors :
        /\ r \in DOMAIN tp.pools
        /\ ToSet(tp.topo.tors[r].subnets) = DOMAIN tp.pools[r]

=============================================================================
