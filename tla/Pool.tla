-------------------------------- MODULE Pool --------------------------------
(***************************************************************************)
(* The flat pool of pkg/ipam/pool.go: the cluster CIDR cut into equal      *)
(* blocks, blocks handed to nodes on demand, addresses allocated from a    *)
(* node's blocks.  Every Pool method takes p.mu for its whole body, so     *)
(* each is one atomic step.                                                *)
(*                                                                         *)
(* The operators on a pool value are used here and by IPAMCluster, where   *)
(* every daemon holds its own pool.  Each returns a record whose err is    *)
(* "ok" or the error the method returns, and whose pool is the pool after  *)
(* the call (unchanged on every error path of these methods).              *)
(***************************************************************************)
EXTENDS IPBlock, Sequences, SequencesExt, TLC

CONSTANTS
    Nodes,          \* node ids that call the pool
    ClusterBase,    \* network address of the cluster CIDR
    ClusterPrefix,  \* its prefix length
    BlockPrefix     \* PoolConfig.BlockSize

\* NewPool's validation: ClusterPrefix < BlockSize <= bits.
ASSUME ClusterPrefix < BlockPrefix /\ BlockPrefix <= AddrBits

NoCIDR == [base |-> -1, prefix |-> -1]

BlocksCount == 2 ^ (BlockPrefix - ClusterPrefix)

\* The i-th block CIDR that findAvailableBlock formats.
BlockCIDR(i) == [base |-> ClusterBase + i * 2 ^ (AddrBits - BlockPrefix),
                 prefix |-> BlockPrefix]

AllBlockCIDRs == {BlockCIDR(i) : i \in 0 .. BlocksCount - 1}

EmptyPool == [nodeBlocks |-> [n \in {} |-> <<>>], allocatedBlocks |-> {}]

\* findAvailableBlock: the lowest-numbered block not in allocatedBlocks.
FindAvailableBlock(p) ==
    LET free == {i \in 0 .. BlocksCount - 1 : BlockCIDR(i) \notin p.allocatedBlocks}
    IN  IF free = {} THEN [err |-> "ErrCIDRExhausted", cidr |-> NoCIDR]
                     ELSE [err |-> "ok", cidr |-> BlockCIDR(Min(free))]

\* The node's block list; a node with no map entry has none.
NodeBlocks(p, n) == IF n \in DOMAIN p.nodeBlocks THEN p.nodeBlocks[n] ELSE <<>>

\* nodeBlocks[n] = s, creating the map entry when missing.
WithBlocks(p, n, s) ==
    [p EXCEPT !.nodeBlocks = [m \in DOMAIN p.nodeBlocks \cup {n} |->
                                 IF m = n THEN s ELSE p.nodeBlocks[m]]]

\* Mutation of AppendBlock: the node's list replaced instead of appended to.
AppendBlockReplacing(p, n, blk) ==
    [WithBlocks(p, n, <<blk>>) EXCEPT !.allocatedBlocks = @ \cup {blk.cidr}]

\* append(p.nodeBlocks[nodeID], block); p.allocatedBlocks[blockCIDR] = true
AppendBlock(p, n, blk) ==
    [WithBlocks(p, n, Append(NodeBlocks(p, n), blk))
        EXCEPT !.allocatedBlocks = @ \cup {blk.cidr}]

Result(err, p, ip) == [err |-> err, pool |-> p, ip |-> ip]

\* AllocateBlockForNode.
AllocateBlockForNode(p, n) ==
    LET f == FindAvailableBlock(p)
    IN  CASE f.err # "ok"          -> Result(f.err, p, -1)
          [] ~NewIPBlockOk(f.cidr) -> Result("ErrNoUsableIPs", p, -1)
          [] OTHER -> Result("ok", AppendBlock(p, n, NewIPBlock(f.cidr, n)), -1)

\* Mutation of BlockInUse: the used check forgotten.
BlockNeverInUse(blk) == FALSE

\* Mutation of BlockInUse: off by one, a block with one address counts as free.
BlockInUseOffByOne(blk) == blk.used > 1

\* ReleaseBlockForNode refuses a block with allocated IPs.
BlockInUse(blk) == blk.used > 0

\* ReleaseBlockForNode: the first block of the node with that CIDR string.
ReleaseBlockForNode(p, n, c) ==
    LET bs  == NodeBlocks(p, n)
        idx == {i \in DOMAIN bs : bs[i].cidr = c}
    IN  CASE n \notin DOMAIN p.nodeBlocks -> Result("ErrNodeNotFound", p, -1)
          [] idx = {}                      -> Result("ErrBlockNotFound", p, -1)
          [] BlockInUse(bs[Min(idx)])      -> Result("ErrBlockInUse", p, -1)
          [] OTHER ->
               Result("ok", [WithBlocks(p, n, RemoveAt(bs, Min(idx)))
                               EXCEPT !.allocatedBlocks = @ \ {c}], -1)

\* Mutation of InstallFirstBlock: the block not recorded in allocatedBlocks.
InstallFirstBlockUnmarked(p, n, blk) == WithBlocks(p, n, <<blk>>)

\* The first-block path of AllocateIPForNode:
\* p.nodeBlocks[nodeID] = []*IPBlock{block}; p.allocatedBlocks[blockCIDR] = true
InstallFirstBlock(p, n, blk) ==
    [WithBlocks(p, n, <<blk>>) EXCEPT !.allocatedBlocks = @ \cup {blk.cidr}]

\* The loop over the node's blocks: the first one whose Allocate succeeds.
AllocateFromBlocks(p, n) ==
    LET bs   == NodeBlocks(p, n)
        room == {i \in DOMAIN bs : BlockAllocate(bs[i]).err = "ok"}
    IN  IF room = {} THEN Result("full", p, -1)
        ELSE LET i == Min(room)
                 r == BlockAllocate(bs[i])
             IN  Result("ok", WithBlocks(p, n, [bs EXCEPT ![i] = r.blk]), r.ip)

\* AllocateIPForNode: create the first block if the node has none, take an
\* address from the first block with room, else append a new block and take
\* its first address.
AllocateIPForNode(p, n) ==
    LET first == NodeBlocks(p, n) = <<>>
        f     == FindAvailableBlock(p)
    IN  CASE first /\ f.err # "ok"          -> Result(f.err, p, -1)
          [] first /\ ~NewIPBlockOk(f.cidr) -> Result("ErrNoUsableIPs", p, -1)
          [] OTHER ->
               LET p1 == IF first THEN InstallFirstBlock(p, n, NewIPBlock(f.cidr, n))
                                  ELSE p
                   a  == AllocateFromBlocks(p1, n)
                   g  == FindAvailableBlock(p1)
                   nb == BlockAllocate(NewIPBlock(g.cidr, n))
               IN  CASE a.err = "ok"          -> a
                     [] g.err # "ok"          -> Result(g.err, p1, -1)
                     [] ~NewIPBlockOk(g.cidr) -> Result("ErrNoUsableIPs", p1, -1)
                     [] OTHER -> Result("ok", AppendBlock(p1, n, nb.blk), nb.ip)

\* ReleaseIP: the first of the node's blocks whose CIDR contains the IP.
ReleaseIP(p, ip, n) ==
    LET bs  == NodeBlocks(p, n)
        idx == {i \in DOMAIN bs : CIDRContains(bs[i].cidr, ip)}
    IN  CASE n \notin DOMAIN p.nodeBlocks -> Result("ErrNodeNotFound", p, -1)
          [] idx = {}                      -> Result("ErrBlockNotFound", p, -1)
          [] OTHER ->
               LET r == BlockRelease(bs[Min(idx)], ip)
               IN  Result(r.err, WithBlocks(p, n, [bs EXCEPT ![Min(idx)] = r.blk]), -1)

\* Every block of the pool with its owner.
Slots(p) == UNION {{<<n, i>> : i \in DOMAIN p.nodeBlocks[n]} : n \in DOMAIN p.nodeBlocks}
BlockAt(p, s) == p.nodeBlocks[s[1]][s[2]]

\* Pool.GetStats, read by the gRPC GetPoolStats and the metrics collector:
\* per node the sums of its blocks' Total, Used (the counter) and
\* Available (from the bitmap), and their sums over the nodes.  TotalNodes
\* counts every key of nodeBlocks, TotalBlocks the allocatedBlocks set.
NodeStats(bs) ==
    [blocks       |-> Len(bs),
     totalIPs     |-> SumFunction([i \in DOMAIN bs |-> bs[i].total]),
     usedIPs      |-> SumFunction([i \in DOMAIN bs |-> bs[i].used]),
     availableIPs |-> SumFunction([i \in DOMAIN bs |-> BlockAvailable(bs[i])])]

GetStats(p) ==
    LET ns == [n \in DOMAIN p.nodeBlocks |-> NodeStats(p.nodeBlocks[n])]
    IN  [totalNodes   |-> Cardinality(DOMAIN p.nodeBlocks),
         totalBlocks  |-> Cardinality(p.allocatedBlocks),
         nodeStats    |-> ns,
         totalIPs     |-> SumFunction([n \in DOMAIN ns |-> ns[n].totalIPs]),
         usedIPs      |-> SumFunction([n \in DOMAIN ns |-> ns[n].usedIPs]),
         availableIPs |-> SumFunction([n \in DOMAIN ns |-> ns[n].availableIPs])]

----------------------------------------------------------------------------
(* One pool of one process.  The block operations below are the Raft      *)
(* FSM's; IPAMServer adds the gRPC handlers and composes them into the     *)
(* daemon's specification.                                                 *)

VARIABLE pool

Init == pool = EmptyPool

\* Pool.AllocateBlockForNode (the FSM's allocate_block, the CLI's allocate).
DoAllocateBlockForNode(n) ==
    LET r == AllocateBlockForNode(pool, n)
    IN  pool' = r.pool

\* Pool.ReleaseBlockForNode, for any block CIDR of the cluster.
DoReleaseBlockForNode(n, c) ==
    LET r == ReleaseBlockForNode(pool, n, c)
    IN  pool' = r.pool

----------------------------------------------------------------------------
(* Properties.                                                             *)

Block == [cidr : AllBlockCIDRs, node : Nodes, total : Nat, used : Nat,
          bm : [size : Nat, bits : SUBSET Nat, allocated : Nat]]

\* Every block's counters stay within its size, the pool's maps are typed.
TypeOK ==
    /\ DOMAIN pool.nodeBlocks \subseteq Nodes
    /\ \A n \in DOMAIN pool.nodeBlocks : pool.nodeBlocks[n] \in Seq(Block)
    /\ \A s \in Slots(pool) : BlockAt(pool, s).used \in 0 .. BlockAt(pool, s).total
    /\ pool.allocatedBlocks \subseteq AllBlockCIDRs

\* No block CIDR is handed out twice: across all nodes' block lists every
\* CIDR appears once, owned by the node whose list holds it, and
\* allocatedBlocks (findAvailableBlock's only view of what is taken) is
\* exactly the set of those CIDRs.  AllocateIPForNode creates blocks on two
\* code paths besides AllocateBlockForNode; each must record the CIDR.
BlockOwnership ==
    /\ \A s1, s2 \in Slots(pool) :
          s1 # s2 => BlockAt(pool, s1).cidr # BlockAt(pool, s2).cidr
    /\ \A s \in Slots(pool) : BlockAt(pool, s).node = s[1]
    /\ pool.allocatedBlocks = {BlockAt(pool, s).cidr : s \in Slots(pool)}

=============================================================================
