----------------------------- MODULE TopologyPool -----------------------------
(***************************************************************************)
(* TopologyAwarePool of pkg/ipam/topology_pool.go: the topology tree and   *)
(* one SubnetPool per TOR.  Its methods hold p.mu (the allocating ones a   *)
(* read lock, under which the SubnetPool's own mutex serialises them), so  *)
(* each method is one atomic step on the value [topo, pools].              *)
(*                                                                         *)
(* The operators are used by the single-pool specification below and by   *)
(* TopologyFSM, where every replica holds one such value.                  *)
(***************************************************************************)
EXTENDS SubnetPool, Sequences, SequencesExt

T == INSTANCE Topology

EmptyTopologyPool == [topo |-> T!EmptyTopology, pools |-> [r \in {} |-> {}]]

----------------------------------------------------------------------------
(* InitializeTopology walks the configuration zone by zone, pod by pod,    *)
(* TOR by TOR and subnet by subnet, and returns at the first error with    *)
(* everything done before it kept.  The walk is a left fold whose          *)
(* accumulator carries the error, the pool value and the SubnetPool being  *)
(* built for the current TOR (installed only after all its subnets).       *)

\* One subnet of a TOR: AddSubnet on the TOR's new SubnetPool, then the
\* topology's AddSubnetToTOR, whose error is ignored.
InitSubnet(a, r, sc) ==
    LET ad == AddSubnet(a.cur, sc.cidr, sc.purpose)
    IN  CASE a.err # "ok"  -> a
          [] ad.err # "ok" -> [a EXCEPT !.err = ad.err]
          [] OTHER -> [a EXCEPT !.cur = ad.sp,
                                !.tp.topo = T!AddSubnetToTOR(@, r, sc.cidr).topo]

\* One TOR: AddTOR, then its subnets, then p.subnetPools[tor.ID] = subnetPool.
InitTOR(a, p, tc) ==
    LET at == T!AddTOR(a.tp.topo, tc.id, p)
        b  == FoldLeft(LAMBDA x, sc : InitSubnet(x, tc.id, sc),
                       [a EXCEPT !.tp.topo = at.topo, !.cur = EmptySubnetPool],
                       tc.subnets)
    IN  CASE a.err # "ok"  -> a
          [] at.err # "ok" -> [a EXCEPT !.err = at.err]
          [] b.err # "ok"  -> b
          [] OTHER -> [b EXCEPT !.tp.pools = (tc.id :> b.cur) @@ @]

\* One pod: AddPod, then its TORs.
InitPod(a, z, pc) ==
    LET ap == T!AddPod(a.tp.topo, pc.id, z)
    IN  CASE a.err # "ok"  -> a
          [] ap.err # "ok" -> [a EXCEPT !.err = ap.err]
          [] OTHER -> FoldLeft(LAMBDA x, tc : InitTOR(x, pc.id, tc),
                               [a EXCEPT !.tp.topo = ap.topo], pc.tors)

\* One zone: AddZone, then its pods.
InitZone(a, zc) ==
    LET az == T!AddZone(a.tp.topo, zc.id)
    IN  CASE a.err # "ok"  -> a
          [] az.err # "ok" -> [a EXCEPT !.err = az.err]
          [] OTHER -> FoldLeft(LAMBDA x, pc : InitPod(x, zc.id, pc),
                               [a EXCEPT !.tp.topo = az.topo], zc.pods)

\* InitializeTopology: [err, tp].
InitializeTopology(tp, cfg) ==
    LET a == FoldLeft(InitZone, [err |-> "ok", tp |-> tp, cur |-> EmptySubnetPool], cfg)
    IN  [err |-> a.err, tp |-> a.tp]

----------------------------------------------------------------------------

\* RegisterNode: Topology.RegisterNode.
RegisterNode(tp, n, r) ==
    LET res == T!RegisterNode(tp.topo, n, r)
    IN  [err |-> res.err, tp |-> [tp EXCEPT !.topo = res.topo]]

\* The node's TOR and that TOR's SubnetPool, as AllocateIPForNodeWithPurpose
\* and ReleaseIPForNode both look them up: [err, tor].
NodePool(tp, n) ==
    LET g == T!GetNodeTOR(tp.topo, n)
    IN  CASE g.err # "ok"                 -> g
          [] g.tor \notin DOMAIN tp.pools -> [err |-> "ErrNoSubnetPool", tor |-> g.tor]
          [] OTHER -> g

\* AllocateIPForNodeWithPurpose: every result the SubnetPool can give.
AllocateIPForNodeWithPurpose(tp, n, purpose) ==
    LET np == NodePool(tp, n)
    IN  IF np.err # "ok"
        THEN {[err |-> np.err, tp |-> tp, ip |-> -1, cidr |-> NoText]}
        ELSE {[err |-> res.err, tp |-> [tp EXCEPT !.pools[np.tor] = res.sp],
               ip |-> res.ip, cidr |-> res.cidr]
              : res \in AllocateIP(tp.pools[np.tor], n, purpose)}

\* ReleaseIPForNode: the address goes back to the node's TOR's SubnetPool,
\* whichever node it was allocated to.
ReleaseIPForNode(tp, n, ip) ==
    LET np == NodePool(tp, n)
    IN  IF np.err # "ok"
        THEN {[err |-> np.err, tp |-> tp]}
        ELSE {[err |-> res.err, tp |-> [tp EXCEPT !.pools[np.tor] = res.sp]]
              : res \in ReleaseIP(tp.pools[np.tor], ip)}

\* Mutation of AddSubnetToTOR: the topology's subnet list not updated.
AddSubnetToTORPoolOnly(tp, r, t, purpose) ==
    LET ad == AddSubnet(tp.pools[r], t, purpose)
    IN  CASE r \notin DOMAIN tp.pools -> [err |-> "ErrTORNotFound", tp |-> tp]
          [] ad.err # "ok"            -> [err |-> ad.err, tp |-> tp]
          [] OTHER -> [err |-> "ok", tp |-> [tp EXCEPT !.pools[r] = ad.sp]]

\* AddSubnetToTOR: the TOR must have a SubnetPool; AddSubnet, then the
\* topology's AddSubnetToTOR, whose error is returned after the pool has
\* already changed.
AddSubnetToTOR(tp, r, t, purpose) ==
    LET ad == AddSubnet(tp.pools[r], t, purpose)
        at == T!AddSubnetToTOR(tp.topo, r, t)
    IN  CASE r \notin DOMAIN tp.pools -> [err |-> "ErrTORNotFound", tp |-> tp]
          [] ad.err # "ok"            -> [err |-> ad.err, tp |-> tp]
          [] OTHER -> [err |-> at.err,
                       tp  |-> [topo |-> at.topo, pools |-> [tp.pools EXCEPT ![r] = ad.sp]]]

=============================================================================
