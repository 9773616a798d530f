# TLA+ models of the IPAM allocation engine

This directory holds TLA+ models of the address-management engine in `src/`.
TLC checks them. The models cover the bitmap allocator, the flat block pool,
the topology-aware subnet pool, and the two Raft state machines that replicate
them. They also cover the daemon wiring that connects the gRPC service to a
pool.

## The system and how its parts interact

| Part | Source | What it does |
|---|---|---|
| Bitmap / IPBlock | `pkg/allocator/bitmap.go` | Bitmap of a block's usable positions. Position `p` is address `base + p + 1`. |
| IPv6Block / DualStackBlock | `pkg/allocator/ipv6.go` | An IPv6 block, with a bitmap up to 32 host bits and a sequential counter above that, and a v4 + v6 pair of blocks. No pool uses them yet. |
| Flat Pool | `pkg/ipam/pool.go` | Cuts the cluster CIDR into equal blocks. Hands the lowest free block to a node. Allocates from the node's first block with room. |
| SubnetPool | `pkg/topology/subnet_pool.go` | One TOR's subnets, keyed by CIDR *text*, each with a purpose tag. Allocation tries the requested purpose first, then falls back to `default`. |
| Topology | `pkg/topology/types.go` | The Zone → Pod → TOR → Node tree. |
| TopologyAwarePool | `pkg/ipam/topology_pool.go` | The tree plus one SubnetPool per TOR. It routes a node's request to its TOR's pool. |
| TopologyFSM / TopologyNode | `pkg/raft/topology_fsm.go`, `topology_node.go` | Commands proposed through Raft, applied by every replica to its own TopologyAwarePool. Snapshot and Restore. |
| FSM / Node | `pkg/raft/fsm.go`, `node.go` | The same for the flat pool (`allocate_block`, `release_block`). Snapshot holds statistics only, and Restore keeps the pool it has. |
| gRPC server | `pkg/server/grpc.go` | `AllocateIP` and `ReleaseIP` for the CNI plugin. Each calls the Pool, then writes the mapping store. After each allocation it runs the `checkAndAllocateBlock` goroutine. |
| Mapping store | `pkg/store/store.go` | A bolt bucket from container id to node, address and CIDR. The gRPC handlers save and delete mappings; operators list them. |
| Daemon | `cmd/ipam-daemon/main.go` | One Pool, shared by the Raft FSM and the gRPC server. |

Two data paths reach a flat pool. The gRPC handlers call the Pool directly.
The Raft FSM applies committed `allocate_block` entries to the same Pool.

The topology pool is reached only through TopologyFSM. TopologyNode proposes
a command on the leader, every replica applies it, and the caller gets the
leader's Apply result through the Raft future.

## Modules

Every operation is one atomic step, because the code holds a mutex for its
whole body. Pool methods hold `p.mu`, SubnetPool methods hold `sp.mu`, and
TopologyAwarePool methods hold `p.mu`, under which the SubnetPool mutex
serialises them. Errors are modelled as an `err` field of the result. Every
error path leaves the value unchanged, except where the code itself leaves
partial changes, and those are kept.

- **IPBlock** holds pure operators for the bitmap and the IPv4 block. Addresses are
  integers of `AddrBits` bits. A CIDR is `[base, prefix]`.
  `PositionToIP` and `IPToPosition` are the code's `+1` / `-1` arithmetic,
  modulo the address space. `subnet_pool.go` repeats the same two functions
  (lines 298-327), and SubnetPool uses these operators for them.
- **IPv6Block** holds pure operators for the IPv6 block. Addresses are
  integers of `V6Bits` bits. Position `p` is `base + p`, with nothing
  reserved.
  - A block with more than `BitmapLimit` host bits (the code's 32) has no
    bitmap. Its Total is capped at `2^BitmapLimit`, and it allocates at
    position `Used`.
- **DualStack** is one caller allocating and releasing address pairs.
  - Variables: `dsb` is `[v4, v6]`. `held` is the set of pairs the caller holds.
  - Actions: `AllocateDualStack` (IPv4 first; when IPv6 then fails, the IPv4
    address is rolled back) and `ReleaseDualStack`.
- **Pool** has the pool operators, its variable `pool` (`[nodeBlocks,
  allocatedBlocks]`), and the FSM's two block actions on it
  (`DoAllocateBlockForNode`, `DoReleaseBlockForNode`).
  - The three block-creating paths of `AllocateIPForNode` are kept apart:
    `InstallFirstBlock`, `AllocateFromBlocks` and the append of a new block.
- **IPAMServer** is one daemon: its Pool, its mapping store and its gRPC
  handlers, run by concurrent requests.
  - Variables: `pool`; `store`, the bucket as a function from container to
    `[node, ip]`; `ctr[c]`, the state of container slot `c`.
  - A handler's Pool call and its store call take different locks, so each
    is its own step. `GrpcAllocateIP` then `SaveMapping` is `AllocateIP`;
    `GrpcReleaseIP` then `DeleteMapping` is `ReleaseIP`. Steps of different
    containers interleave, and with them the FSM's block actions
    (`ApplyAllocateBlock`, `ApplyReleaseBlock`) for any node.
  - A slot goes idle → saving → up → deleting → idle. `GrpcReleaseStray` is a
    DEL naming an address no running container holds, which the pool must
    refuse.
  - The store operators are `SaveIPMapping` (Put, overwriting),
    `DeleteIPMapping` and `MappingsByIP`
    (`GetMappingByIP`, whose "stop iteration" does not stop, so it returns
    the last match).
  - IPAMServer also implements `AddressAllocator`: `space` is the usable
    addresses of every block in `pool`, and `owner` maps each allocated
    address to the node whose list holds its block (`PoolRefinesAllocator`).
  - `RetryDelete = TRUE` lets a DEL whose answer was lost be sent again with
    the same container and address.
- **SubnetPool** has pure operators. The map key is the CIDR text
  `[addr, prefix]`, and `ParseCIDR` masks the host bits. Two texts can name
  the same network and still be different keys, as in the code.
  - `AllocateIP` and `ReleaseIP` pick a subnet by `range` over a Go map, and Go
    randomises map order. So these operators return the *set* of possible
    results, and actions choose one with `\E`.
- **Topology** has the tree operators. Each map keeps the parent id. The child
  lists the code also fills are their inverse, and only statistics read them.
- **TopologyPool** has the TopologyAwarePool operators.
  - `InitializeTopology` is a nested `FoldLeft` over zones, pods, TORs and
    subnets. It stops at the first error and keeps what was done before it.
  - A TOR's SubnetPool is installed only after all its subnets, as at line 80.
  - `AddSubnetToTOR` returns the topology's error after changing the pool, as
    the code does.
- **TopologyAwarePool** is one process driving a TopologyAwarePool.
  - Variables: `tp` and `held`, the set of `<<ip, node>>` pairs.
  - Actions: one per method.
  - `ReleaseByHolderOnly` limits which release calls callers make. Only the
    input is restricted. The method itself is unchanged.
- **TopologyFSM** models replicas that apply a committed log.
  - Raft is trusted. `log` is the committed sequence, the same on every
    replica.
  - `applied[r]` is replica `r`'s progress, and `snap[r]` is its last snapshot
    index.
  - `Apply` is `TopologyFSM.Apply` on the replica's own pool. It returns a set,
    because of map iteration.
  - A client call is `Propose` plus a `pending` record. The leader's `ApplyNext`
    answers it.
  - `LeaderChange` fails the calls in flight on the old leader. Those entries
    are still committed, as with `ErrLeadershipLost`.
  - `Restart` models how the code behaves: a fresh pool, then `Restore`, which
    is a no-op, then application resumes after the snapshot index.
  - Clients record the addresses they were answered with (`held`), and the
    releases with no successful answer (`doubt`).
- **AddressAllocator** is the abstract specification of what the engine
  promises (spec.md overview and section 4.6). A `space` of addresses that
  subnets or blocks offer, and an `owner` per granted address. `Grant` takes
  an address nobody owns, which is in the space after the step (a pool may
  carve a block for the request in the same step). `Free` frees one owned
  address. `Extend` adds addresses, and `Withdraw` removes addresses nobody
  owns. No address is granted while it is owned, and no step moves an
  address to another node.
  - TopologyFSM implements it: `Abstract(r)` instantiates it with
    `space <- SpaceOf(fsm[r])`, the usable addresses of replica `r`'s subnets,
    and `owner <- OwnerOf(fsm[r])`, the node each subnet's allocation table
    names. `ReplicaRefinesAllocator` is `\A r : Abstract(r)!Spec`, with the
    quantifier moved inside the box so that TLC can check it.
- **IPAMCluster** is the flat-pool deployment: one daemon per node, each with
  its own Pool, reached through `INSTANCE Pool`.
  - `GrpcAllocateIP` is `IPAMServer.AllocateIP`, a direct Pool call that
    starts a `checks` goroutine.
  - `CheckAndAllocateBlock` reads the block's `Available()` when it runs, and
    proposes `allocate_block` when the block is under pressure and this daemon
    is leader.
  - `checks` is a bag: every allocation starts its own goroutine. Copies
    of one goroutine beyond `MaxLog` are dropped (`AddCheck`), because at most
    `MaxLog` of them can propose.
  - `ProposeReleaseBlock` is `Node.ReleaseBlock` for any node and block CIDR.
    No code calls it, so it stands for an operator's call.
  - `ApplyNext` applies `FSM.Apply` (allocate or release a block) to one
    daemon's pool. Goroutines whose block has just left the node's list are
    dropped (`Orphaned`): that block was empty, so they cannot propose.
  - `TakeSnapshot` records the index a snapshot covers. `Restart` gives the
    daemon the fresh Pool of `main` (Restore keeps it), resumes application
    after the snapshot index, and kills the daemon's pending goroutines. The
    containers keep their addresses.

The MC modules fix the constants for TLC. Nodes, replicas and CIDR texts are
model values or small records. Symmetry is declared over nodes or replicas
only where no input names them individually.

## Runs

| Run | Result | What it shows |
|---|---|---|
| server_store | pass | One daemon, four container slots and two nodes' FSM block operations, run to cluster exhaustion. No block CIDR is in two lists (`BlockOwnership`). Every running container's address is allocated in its node's block and held by no other container (`AddressesBacked`). Every allocated address belongs to a running container (`NoLeakedAddresses`). The store names one container per address, except in the window between a release's Pool call and its mapping delete (`StoreUnambiguous`). What `GetPoolStats` and the metrics report (`Pool.GetStats`) agrees with the containers: per node, Used adds up to the running containers, and Used plus the bitmap's Available is Total (`StatsMatchContainers`). The pool refines `AddressAllocator` (`PoolRefinesAllocator`). |
| topo_safety | pass | Initialisation, registration, purpose fallback, and duplicate and unusable `AddSubnetToTOR` calls. Each subnet's counter, bitmap and allocation table agree (`SubnetAccounting`). One holder per address (`UniqueHolders`). Held addresses stay allocated to their holder (`HeldIPsBacked`). Every TOR has a SubnetPool with exactly its subnets (`TORsHavePools`). |
| topo_overlap | violation of `UniqueHolders` | An overlapping CIDR text is accepted, and one address goes to two nodes. |
| fsm_agree | pass | Replicas at the same index hold identical pools (`ReplicasAgree`). Answered addresses stay allocated on every caught-up replica, across leader changes. Every replica's pool refines `AddressAllocator` (`ReplicaRefinesAllocator`): each applied entry grants a free address of its subnets, frees an owned one, adds subnets, or changes none of these. A restart breaks the refinement (the pool empties at once), which fsm_snapshot_restart shows as a divergence. |
| fsm_restart_replay | pass | A restart before any snapshot replays the whole log and rebuilds the same pool: replicas at one index still agree (`ReplicasAgree`) and answered addresses stay allocated (`HeldIPsBacked`), with the restarted replica's calls failed in flight. |
| fsm_map_order | violation of `ReplicasAgree` | A second default subnet makes `allocate_ip` non-deterministic across replicas. |
| fsm_snapshot_restart | violation of `ReplicasAgree` | A restart after a snapshot resumes from an empty pool. |
| fsm_release_retry | violation of `HeldIPsBacked` | A release that was committed but failed, retried after the address was reassigned, frees the new holder's address. |
| dual_stack | pass | IPv6 fills first. Every failed pair allocation is rolled back (`DualStackBalanced`), and no address of either family is in two held pairs (`UniquePairs`). |
| cluster_preallocate | violation of `PressureProposes` (an action property) | A follower daemon fills its node's block. Its `checkAndAllocateBlock` goroutine finds the block under pressure and proposes nothing, because only the leader proposes; spec.md section 4.4 says the caller should propose `AllocateBlock`. |
| cluster_restart | violation of `NoReissue` | A daemon allocates, restarts, and allocates again. Its rebuilt pool is empty, because gRPC allocations never reach the log and Restore ignores the snapshot, so it hands out again the address its container still holds. |
| cluster_direct_alloc | violation of `UniqueAddresses` | Two daemons give the same address to two nodes. |

Every property of a passing run has a mutant in `PROJECT.json`: a plausible
code bug, defined next to the definition it replaces, which TLC must catch.
The findings in `PROJECT.json` explain what each violation means against
`spec.md`.

Four more questions are set up but have no run of their own. Their hazards
in `PROJECT.json` record what TLC reports for them:

- `MC_TopologyAwarePool` with an `InitCfgs` entry whose subnet `AddSubnet`
  rejects. `InitializeTopology` stops after `AddTOR`, and `TORsHavePools` fails
  in one step.

- `MC_TopologyAwarePool` with `ReleaseByHolderOnly = FALSE`. `ReleaseIPForNode`
  then frees another node's address in one step, and `HeldIPsBacked` fails.
- `MC_IPAMServer` with `RetryDelete = TRUE`. A DEL is retried after another
  container got its address. In seven steps (allocate, save, release,
  allocate by a second container, delete, release again) the pool frees the
  second container's address, and `AddressesBacked` fails. It is the flat-pool
  form of fsm_release_retry.
- `MC_DualStack` with `V6CIDR <- MCV6Sequential`. This is a block with no bitmap.
  There, a release followed by an allocation hands out an address that is still
  held, and `UniquePairs` fails.

## Bounds and why they suffice

- **Address width.** `AddrBits = 4` gives 16 addresses.
  - Flat-pool blocks of /2 give two usable addresses each. That is enough to
    fill a block, overflow into a second one, and exhaust the cluster.
  - IPAMCluster uses /1 blocks, with 6 usable addresses. This is the smallest
    block for which `Available() < int(Total*0.2)` can hold, so
    `checkAndAllocateBlock` proposes.
- **Subnets.** Subnets are /2 (2 usable). A /3 text has no usable address and
  exercises `ErrNoUsableIPs`. A text such as `[5, 2]` has host bits set, parses
  to the same network as `[4, 2]`, and still differs as a key.
- **IPAMServer.** The cluster `0/1` is cut into two /2 blocks of two usable
  addresses each. The four container slots of `n1` can fill both blocks, so a
  full block, a second block, exhaustion, and a released block's reuse all
  happen. The FSM can give blocks to `n2` as well. About 70,000 distinct states
  are reached in under 20 seconds. A /0 cluster with three slots takes 100
  seconds and adds no new case.
- **Nodes.** Two nodes and two TORs in most runs: enough for two holders to
  compete for one address and for routing to differ. topo_safety registers
  four nodes, more than any subnet has addresses, so nodes of one TOR compete
  for its last address. It has 6,180 distinct states under node symmetry.
- **TopologyFSM.**
  - Two replicas and `MaxLog = 7`: after the three initial entries, this leaves
    room for an allocation, a release, an admin command, and a retry.
  - `MaxRestarts` is 0 or 1.
  - `SnapshotThreshold` is 5 (no snapshot before the log ends), 8 (none at all),
    or 1 (a snapshot after every entry).
- **DualStack.** A /1 IPv4 block with 14 usable addresses, and an IPv6
  block with 8 positions. The widths are scaled together: `AddrBits = 5`,
  `V6Bits = 6`, and `BitmapLimit = 3` (standing for 32). A /3 IPv6 block has
  3 host bits and so a bitmap. A /2 block has 4, above the limit, and so no
  bitmap.
- **IPAMCluster.** The cluster `0/0` of 16 addresses is cut into two /1
  blocks of 6 usable addresses (`ClusterPrefix = 0`, `BlockPrefix = 1`), the
  smallest blocks that reach the pressure signal and a configuration
  `NewPool` accepts; `MC_IPAMCluster` asserts `ClusterPrefix < BlockPrefix`
  (pool.go:50). Two daemons compete for the two blocks.
  - `MaxLog = 1`: one entry, a pressure proposal or a block release, which
    every daemon applies at its own time.
  - `MaxReleases` is 0 or 1, `MaxRestarts` 0 or 1 and `SnapshotThreshold = 1`:
    each violation run keeps only what its question needs. All three are
    violated within nine steps.

The TopologyFSM runs stop at their log bound, so their cfgs set `CHECK_DEADLOCK FALSE`.
The TopologyAwarePool, IPAMServer and IPAMCluster runs check deadlock.

## Fairness

No run checks liveness, and no specification assumes fairness. The
progress questions this code raises are answered by safety properties:
whether a pressured block's goroutine proposes is the action property
`PressureProposes`, and the catch-up of a restarted replica is
`ReplicasAgree` and `HeldIPsBacked` at the replica's index.

## Not modelled

- **Raft internals.** Elections, replication, log truncation and membership
  (`Join`, `Leave`) are trusted and abstracted to a committed log.
- **Store failures and cleanup.** server_store lets no store write fail
  (a bolt I/O error or a full disk), because spec.md calls the store
  best-effort. The mutant `DeleteMappingSkipped` shows what a failed delete
  breaks (`StoreUnambiguous`). `CleanupStaleEntries`
  deletes by wall-clock age and only tests call it. `GetStats` only reads.
  The metadata bucket is created and never written. The store starts empty,
  as on a daemon's first start. A restart, which keeps the bolt file but
  empties the pool, is cluster_restart's question and is left out here.
- **CNI plugin and CLI.** The CNI plugin's daemon calls are stubs: ADD
  answers a fixed address without calling `AllocateIP`, and DEL calls
  nothing. The CLI commands are TODOs that print.
- **Metrics.** The collector's ticker copies `Pool.GetStats`, `GetNodeBlocks`
  and the store's key count into Prometheus gauges, and nothing reads them
  back. The statistics themselves are checked through `GetPoolStats`
  (`StatsMatchContainers`).
  - The gauges were modelled in IPAMServer and then taken out again. A gauge
    vector keeps every series it was ever given, so the gauges carry the
    pool's history. With three containers the daemon grew from 6,402 to
    5.7 million distinct states.
  - The hazard this leaves unchecked is listed in `PROJECT.json`. The usage
    series of a released block is never deleted and keeps its last ratio.
  - The `Record*` counters have no caller. The Raft term and index are never
    parsed, so their gauges stay 0.
- **Read-only methods.** Statistics, listing and path methods change no state.

## Plan for later work

1. Retried `ReleaseDualStack` calls, and pools of dual-stack blocks, if a
   caller of DualStackBlock appears.
2. A refinement of TopologyAwarePool itself by TopologyFSM, with each
   replica's pool as the mapping, under the configurations where map order
   cannot matter. TopologyAwarePool starts from an empty pool, while the
   replicas start with the initial log applied, so its Init would have to
   admit that state.
