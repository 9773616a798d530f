------------------------------ MODULE IPAMCluster ------------------------------
(***************************************************************************)
(* The flat-pool deployment of cmd/ipam-daemon: one daemon per node, each  *)
(* with its own Pool, shared by its Raft FSM (pkg/raft/fsm.go) and its     *)
(* gRPC server (pkg/server/grpc.go).  The node's CNI plugin calls its own  *)
(* daemon with its own node id.                                            *)
(*                                                                         *)
(*  - IPAMServer.AllocateIP calls Pool.AllocateIPForNode on the local pool *)
(*    directly, then starts the goroutine checkAndAllocateBlock;           *)
(*  - checkAndAllocateBlock proposes allocate_block through Raft when the  *)
(*    block is under pressure and this daemon is the leader;               *)
(*  - every daemon's FSM applies the committed allocate_block entries to   *)
(*    its own pool with Pool.AllocateBlockForNode.                         *)
(*                                                                         *)
(* The Raft log is abstracted to its committed prefix: log, the entries    *)
(* committed so far, and applied[d], how many of them d's FSM has applied. *)
(* The proposer's wait for the future is not modelled: its result is       *)
(* only logged.  Node.ReleaseBlock has no caller in the repository (the    *)
(* CLI's release is a TODO); it is modelled as an operator's call on the   *)
(* leader.                                                                 *)
(*                                                                         *)
(* A daemon process can restart.  main builds a fresh Pool, Raft hands     *)
(* FSM.Restore the latest snapshot, which holds statistics only and which  *)
(* Restore ignores, and the FSM applies the entries after the snapshot's   *)
(* index.  The node's containers keep their addresses across the restart.  *)
(***************************************************************************)
EXTENDS IPBlock, Sequences, Functions, Bags

CONSTANTS
    Nodes,          \* node ids; node n runs daemon n
    ClusterBase,
    ClusterPrefix,
    BlockPrefix,
    MaxLog,         \* bound on committed log entries
    MaxReleases,    \* bound on ReleaseIP calls
    MaxRestarts,    \* bound on daemon restarts
    SnapshotThreshold \* entries applied since the last snapshot before
                      \* Raft takes another (raft.Config.SnapshotThreshold)

VARIABLES
    pools,    \* pools[n]: the Pool of daemon n
    held,     \* set of <<ip, n>>: addresses node n's containers hold
    checks,   \* bag of checkAndAllocateBlock goroutines not yet run: [node, cidr]
    log,      \* committed Raft entries: [type, node] or [type, node, cidr]
    applied,  \* applied[n]: entries daemon n's FSM has applied
    snap,     \* snap[n]: index of daemon n's latest snapshot
    restarts, \* daemon restarts so far
    leader,   \* the daemon whose raft.State() is Leader
    releases  \* ReleaseIP calls so far (bounded by MaxReleases)

vars == <<pools, held, checks, log, applied, snap, restarts, leader, releases>>

P == INSTANCE Pool WITH pool <- pools

----------------------------------------------------------------------------

Init ==
    /\ pools = [n \in Nodes |-> P!EmptyPool]
    /\ held = {}
    /\ checks = EmptyBag
    /\ log = <<>>
    /\ applied = [n \in Nodes |-> 0]
    /\ snap = [n \in Nodes |-> 0]
    /\ restarts = 0
    /\ leader \in Nodes
    /\ releases = 0

\* The block of node n in pool p whose CIDR contains ip (the *IPBlock that
\* AllocateIPForNode returns).
BlockOf(p, n, ip) ==
    LET bs == P!NodeBlocks(p, n)
    IN  bs[CHOOSE i \in DOMAIN bs : CIDRContains(bs[i].cidr, ip)]

\* A new checkAndAllocateBlock goroutine for block c.  Goroutines for one
\* block are alike: each reads the block when it runs, and only MaxLog of
\* them can ever propose, so copies beyond MaxLog are not kept.
AddCheck(c) ==
    IF CopiesIn(c, checks) < MaxLog THEN checks (+) SetToBag({c}) ELSE checks

\* IPAMServer.AllocateIP: Pool.AllocateIPForNode on the local pool, then
\* `go s.checkAndAllocateBlock(req.NodeID, block)`.  The store write and
\* the response formatting change nothing the pools depend on.
GrpcAllocateIP(n) ==
    LET r == P!AllocateIPForNode(pools[n], n)
    IN  /\ pools' = [pools EXCEPT ![n] = r.pool]
        /\ IF r.err = "ok"
           THEN /\ held' = held \cup {<<r.ip, n>>}
                /\ checks' = AddCheck([node |-> n, cidr |-> BlockOf(r.pool, n, r.ip).cidr])
           ELSE UNCHANGED <<held, checks>>
        /\ UNCHANGED <<log, applied, snap, restarts, leader, releases>>

\* IPAMServer.ReleaseIP for an address the node holds: Pool.ReleaseIP on
\* the local pool.
GrpcReleaseIP(n, ip) ==
    LET r == P!ReleaseIP(pools[n], ip, n)
    IN  /\ <<ip, n>> \in held
        /\ releases < MaxReleases
        /\ releases' = releases + 1
        /\ pools' = [pools EXCEPT ![n] = r.pool]
        /\ held' = IF r.err = "ok" THEN held \ {<<ip, n>>} ELSE held
        /\ UNCHANGED <<checks, log, applied, snap, restarts, leader>>

\* Available() < int(float64(Total)*0.2): the block-pressure signal.
UnderPressure(blk) == BlockAvailable(blk) < blk.total \div 5

\* Node.AllocateBlock: the allocate_block command it hands to raft.Apply.
\* Its wait on the future only yields the result checkAndAllocateBlock logs.
AllocateBlockCmd(n) == [type |-> "allocate_block", node |-> n]

\* checkAndAllocateBlock: reads the block's Available() when it runs (under
\* the block's lock, so after any allocation made since the handler
\* returned), and proposes allocate_block for the node when the block is
\* under pressure and this daemon is the leader.  Goroutines started by two
\* allocations from one block each run and each may propose.
CheckAndAllocateBlock(c) ==
    LET blk     == CHOOSE b \in Range(P!NodeBlocks(pools[c.node], c.node)) : b.cidr = c.cidr
        propose == UnderPressure(blk) /\ leader = c.node
    IN  /\ BagIn(c, checks)
        /\ checks' = checks (-) SetToBag({c})
        /\ propose => Len(log) < MaxLog
        /\ log' = IF propose THEN Append(log, AllocateBlockCmd(c.node))
                             ELSE log
        /\ UNCHANGED <<pools, held, applied, snap, restarts, leader, releases>>

\* Node.ReleaseBlock, called on the leader: raft.Apply of a release_block
\* entry for the node's block with that CIDR.
ProposeReleaseBlock(n, c) ==
    /\ Len(log) < MaxLog
    /\ log' = Append(log, [type |-> "release_block", node |-> n, cidr |-> c])
    /\ UNCHANGED <<pools, held, checks, applied, snap, restarts, leader, releases>>

\* FSM.Apply of an entry to a pool: applyAllocateBlock is
\* Pool.AllocateBlockForNode, applyReleaseBlock Pool.ReleaseBlockForNode;
\* an error is only the response.  update_usage, never proposed, changes
\* nothing.
Apply(p, e) ==
    IF e.type = "allocate_block"
    THEN P!AllocateBlockForNode(p, e.node).pool
    ELSE P!ReleaseBlockForNode(p, e.node, e.cidr).pool

\* The goroutines of daemon d still holding a pointer to a block that left
\* node d's list; that block was empty when it left and stays so, so they
\* will propose nothing.
Orphaned(d, p) ==
    {c \in BagToSet(checks) :
        c.node = d /\ \A b \in Range(P!NodeBlocks(p, d)) : b.cidr # c.cidr}

\* Daemon d's FSM applies its next committed entry.
ApplyNext(d) ==
    LET p == Apply(pools[d], log[applied[d] + 1])
    IN  /\ applied[d] < Len(log)
        /\ applied' = [applied EXCEPT ![d] = @ + 1]
        /\ pools' = [pools EXCEPT ![d] = p]
        /\ checks' = [c \in BagToSet(checks) \ Orphaned(d, p) |-> checks[c]]
        /\ UNCHANGED <<held, log, snap, restarts, leader, releases>>

\* Another daemon becomes the Raft leader.
LeaderChange ==
    /\ \E d \in Nodes \ {leader} : leader' = d
    /\ UNCHANGED <<pools, held, checks, log, applied, snap, restarts, releases>>

\* FSM.Snapshot + FSMSnapshot.Persist: the snapshot holds pool statistics
\* only; what matters is the index it covers.
TakeSnapshot(d) ==
    /\ applied[d] - snap[d] >= SnapshotThreshold
    /\ snap' = [snap EXCEPT ![d] = applied[d]]
    /\ UNCHANGED <<pools, held, checks, log, applied, restarts, leader, releases>>

\* Daemon d restarts: ipam.NewPool, then FSM.Restore, which decodes the
\* snapshot and keeps the pool it has; the FSM resumes after the snapshot's
\* index.  Its pending checkAndAllocateBlock goroutines die with it.
Restart(d) ==
    /\ restarts < MaxRestarts
    /\ restarts' = restarts + 1
    /\ pools' = [pools EXCEPT ![d] = P!EmptyPool]
    /\ applied' = [applied EXCEPT ![d] = snap[d]]
    /\ checks' = [c \in {x \in BagToSet(checks) : x.node # d} |-> checks[c]]
    /\ UNCHANGED <<held, log, snap, leader, releases>>

Next ==
    \/ \E n \in Nodes : GrpcAllocateIP(n)
    \/ \E n \in Nodes, ip \in Addr : GrpcReleaseIP(n, ip)
    \/ \E c \in BagToSet(checks) : CheckAndAllocateBlock(c)
    \/ \E d \in Nodes : ApplyNext(d)
    \/ LeaderChange
    \/ \E n \in Nodes, c \in P!AllBlockCIDRs : ProposeReleaseBlock(n, c)
    \/ \E d \in Nodes : TakeSnapshot(d)
    \/ \E d \in Nodes : Restart(d)

Spec == Init /\ [][Next]_vars

----------------------------------------------------------------------------
(* Properties.                                                             *)

\* Every daemon's pool is well formed and the bookkeeping is typed.
TypeOK ==
    /\ \A n \in Nodes : pools[n].allocatedBlocks \subseteq P!AllBlockCIDRs
    /\ held \subseteq Addr \X Nodes
    /\ IsABag(checks)
    /\ \A c \in BagToSet(checks) : c.node \in Nodes /\ c.cidr \in P!AllBlockCIDRs
    /\ applied \in [Nodes -> 0 .. Len(log)]
    /\ \A d \in Nodes : snap[d] <= applied[d]
    /\ restarts \in 0 .. MaxRestarts
    /\ leader \in Nodes
    /\ releases \in 0 .. MaxReleases

\* No address is held by containers of two different nodes: the
\* "no address is handed out twice" promise of the replicated engine.
UniqueAddresses ==
    \A h1, h2 \in held : h1[1] = h2[1] => h1[2] = h2[2]

\* The addresses daemon d's pool has allocated in node d's own blocks.
OwnIPs(p, d) ==
    UNION {BlockIPs(P!BlockAt(p, s)) : s \in {x \in P!Slots(p) : x[1] = d}}

\* A checkAndAllocateBlock goroutine that finds its block under pressure
\* proposes allocate_block for the block's node (spec.md 4.4: "when a
\* block's available falls below 20% of its total, the caller should
\* pre-emptively propose an AllocateBlock for the same node").  A step in
\* which one goroutine for block c ends, with no FSM apply or restart
\* removing it, is that goroutine running.
PressureProposes ==
    [][\A c \in BagToSet(checks) :
         (/\ CopiesIn(c, checks') < CopiesIn(c, checks)
          /\ applied' = applied
          /\ restarts' = restarts
          /\ \E b \in Range(P!NodeBlocks(pools[c.node], c.node)) :
                b.cidr = c.cidr /\ UnderPressure(b))
         => log' = Append(log, AllocateBlockCmd(c.node))]_vars

\* A daemon never allocates again an address that one of its node's
\* containers still holds, including after the daemon restarted and
\* rebuilt its pool from FSM.Restore and the log.
NoReissue ==
    [][\A h \in held :
         h[1] \in OwnIPs(pools[h[2]], h[2]) \/ h[1] \notin OwnIPs(pools'[h[2]], h[2])]_vars

=============================================================================
