------------------------------ MODULE IPAMServer ------------------------------
(***************************************************************************)
(* The gRPC server of one daemon (pkg/server/grpc.go) over its flat Pool   *)
(* and its bolt mapping store (pkg/store/store.go), with the Raft FSM's    *)
(* block operations on the same Pool.                                      *)
(*                                                                         *)
(* gRPC runs every request in its own goroutine.  A handler makes two      *)
(* calls that each take their own lock: the Pool method (p.mu) and then    *)
(* the store update (bolt's writer lock).  Each is one step here, so the   *)
(* steps of requests for different containers interleave with each other  *)
(* and with the FSM applying committed allocate_block and release_block    *)
(* entries (fsm.go:70-120).                                                *)
(*                                                                         *)
(* The clients are the CNI ADD and DEL of the containers on the daemon's   *)
(* node, whose requests carry NodeID = Self; the FSM's entries name any    *)
(* node, since every daemon applies every node's blocks.  A container slot *)
(* goes idle -> saving (the pool gave it an address) -> up (AllocateIP     *)
(* returned) -> deleting (the pool took the address back) -> idle, the     *)
(* slot of the next container.  A mapping stores ContainerID, NodeID, IP   *)
(* and CIDR texts; of these the model keeps the node and the address.      *)
(***************************************************************************)
EXTENDS Pool

CONSTANTS
    Self,           \* the daemon's node (NODE_ID), the NodeID its CNI sends
    Containers,     \* container slots that call AllocateIP and ReleaseIP
    RetryDelete     \* TRUE: a DEL whose answer was lost is sent again

VARIABLES
    store,          \* the ip_mappings bucket: ContainerID -> [node, ip]
    ctr             \* ctr[c]: [pc, node, ip] of container slot c

ASSUME Self \in Nodes

serverVars == <<pool, store, ctr>>

\* The node field of a slot with no request.
NoNode == "none"

Idle == [pc |-> "idle", node |-> NoNode, ip |-> -1]

----------------------------------------------------------------------------
(* The store (store.go).  Put and Delete of bolt inside db.Update.         *)

\* SaveIPMapping: bucket.Put keyed by ContainerID, overwriting any mapping.
SaveIPMapping(s, c, m) == (c :> m) @@ s

\* DeleteIPMapping: bucket.Delete; deleting an absent key is no error.
DeleteIPMapping(s, c) == Restrict(s, DOMAIN s \ {c})

\* GetMappingByIP scans every mapping and keeps the last whose IP matches
\* (its "Stop iteration" returns nil, which ForEach takes as go on): the
\* containers it can answer with.
MappingsByIP(s, a) == {c \in DOMAIN s : s[c].ip = a}

----------------------------------------------------------------------------

ServerInit ==
    /\ Init
    /\ store = [c \in {} |-> Idle]
    /\ ctr = [c \in Containers |-> Idle]

\* The FSM applies a committed allocate_block for node n.
ApplyAllocateBlock(n) ==
    /\ DoAllocateBlockForNode(n)
    /\ UNCHANGED <<store, ctr>>

\* The FSM applies a committed release_block of CIDR cidr for node n.
ApplyReleaseBlock(n, cidr) ==
    /\ DoReleaseBlockForNode(n, cidr)
    /\ UNCHANGED <<store, ctr>>

\* AllocateIP, up to the store: Pool.AllocateIPForNode(req.NodeID).  On an
\* error the handler returns it (the pool may keep a first block it made).
GrpcAllocateIP(c, n) ==
    LET r == AllocateIPForNode(pool, n)
    IN  /\ ctr[c].pc = "idle"
        /\ pool' = r.pool
        /\ IF r.err = "ok"
           THEN ctr' = [ctr EXCEPT ![c] = [pc |-> "saving", node |-> n, ip |-> r.ip]]
           ELSE UNCHANGED ctr
        /\ UNCHANGED store

\* The rest of AllocateIP: SaveIPMapping, then the response.  The
\* checkAndAllocateBlock goroutine it starts reaches the pool only as an
\* allocate_block entry the FSM applies.
SaveMapping(c) ==
    /\ ctr[c].pc = "saving"
    /\ store' = SaveIPMapping(store, c, [node |-> ctr[c].node, ip |-> ctr[c].ip])
    /\ ctr' = [ctr EXCEPT ![c].pc = "up"]
    /\ UNCHANGED pool

\* ReleaseIP, up to the store: Pool.ReleaseIP(ip, req.NodeID).  On an error
\* the handler answers Success = false and the container stays up.  A DEL
\* sent again after its answer was lost (RetryDelete) carries the same
\* container and address.
GrpcReleaseIP(c) ==
    LET r == ReleaseIP(pool, ctr[c].ip, ctr[c].node)
    IN  /\ \/ ctr[c].pc = "up"
           \/ RetryDelete /\ ctr[c].pc = "idle" /\ ctr[c].ip # -1
        /\ pool' = r.pool
        /\ IF r.err = "ok"
           THEN ctr' = [ctr EXCEPT ![c].pc = "deleting"]
           ELSE UNCHANGED ctr
        /\ UNCHANGED store

\* ReleaseIP naming an address no running container of the node holds: a
\* DEL with a stale or mistaken address, the network or broadcast address
\* included.  Pool.ReleaseIP must refuse it and leave the pool as it was.
GrpcReleaseStray(c, ip) ==
    LET r == ReleaseIP(pool, ip, Self)
    IN  /\ ctr[c].pc = "idle"
        /\ \A d \in Containers : ctr[d].pc \in {"saving", "up"} => ctr[d].ip # ip
        /\ pool' = r.pool
        /\ IF r.err = "ok"
           THEN ctr' = [ctr EXCEPT ![c] = [pc |-> "deleting", node |-> Self, ip |-> ip]]
           ELSE UNCHANGED ctr
        /\ UNCHANGED store

\* Mutation of DeleteMapping: the mapping is left behind (the store call
\* skipped, or its error only logged as at grpc.go:134).
DeleteMappingSkipped(c) ==
    /\ ctr[c].pc = "deleting"
    /\ ctr' = [ctr EXCEPT ![c] = IF RetryDelete THEN [@ EXCEPT !.pc = "idle"] ELSE Idle]
    /\ UNCHANGED <<pool, store>>

\* The rest of ReleaseIP: DeleteIPMapping(req.ContainerID), then Success.
\* The slot is then free for the next container; the request is kept only
\* for a DEL sent again.
DeleteMapping(c) ==
    /\ ctr[c].pc = "deleting"
    /\ store' = DeleteIPMapping(store, c)
    /\ ctr' = [ctr EXCEPT ![c] = IF RetryDelete THEN [@ EXCEPT !.pc = "idle"] ELSE Idle]
    /\ UNCHANGED pool

ServerNext ==
    \/ \E n \in Nodes : ApplyAllocateBlock(n)
    \/ \E n \in Nodes, cidr \in AllBlockCIDRs : ApplyReleaseBlock(n, cidr)
    \/ \E c \in Containers : GrpcAllocateIP(c, Self)
    \/ \E c \in Containers : SaveMapping(c)
    \/ \E c \in Containers : GrpcReleaseIP(c)
    \/ \E c \in Containers, ip \in Addr : GrpcReleaseStray(c, ip)
    \/ \E c \in Containers : DeleteMapping(c)

ServerSpec == ServerInit /\ [][ServerNext]_serverVars

----------------------------------------------------------------------------
(* Properties.                                                             *)

Mapping == [node : Nodes, ip : Addr]

ServerTypeOK ==
    /\ TypeOK
    /\ DOMAIN store \subseteq Containers
    /\ \A c \in DOMAIN store : store[c] \in Mapping
    /\ \A c \in Containers :
          ctr[c] \in [pc : {"idle", "saving", "up", "deleting"},
                      node : Nodes \cup {NoNode}, ip : Addr \cup {-1}]

\* The gRPC GetPoolStats: Pool.GetStats, copied field by field into the
\* response.
GetPoolStats(p) == GetStats(p)

\* The addresses of node n's blocks that the pool counts as allocated.
PoolIPs(n) == UNION {BlockIPs(b) : b \in Range(NodeBlocks(pool, n))}

\* Every running container's address is allocated, in the pool, in a block
\* of the node its AllocateIP named, and no other running container has
\* it: the FSM's release_block of a block in use, or a ReleaseIP that
\* frees an address another container got since, would take it away and
\* let AllocateIP hand it out twice.
AddressesBacked ==
    \A c \in Containers : ctr[c].pc \in {"saving", "up"} =>
        /\ ctr[c].ip \in PoolIPs(ctr[c].node)
        /\ \A d \in Containers \ {c} :
              ctr[d].pc \in {"saving", "up"} => ctr[d].ip # ctr[c].ip

\* No address leaks: every address allocated in a node's blocks belongs to
\* a container whose AllocateIP for that node got it and whose ReleaseIP
\* has not given it back.  A leaked address is never handed out again and
\* keeps its block from ever being released (ReleaseBlockForNode's
\* BlockInUse); a release that answers Success without freeing the bit, or
\* an allocation on an error path, leaks one.
NoLeakedAddresses ==
    \A n \in Nodes : \A a \in PoolIPs(n) :
        \E c \in Containers : /\ ctr[c].pc \in {"saving", "up"}
                              /\ ctr[c].node = n
                              /\ ctr[c].ip = a

\* The store names one container per address, except while the earlier
\* holder's ReleaseIP is between its Pool call and its DeleteIPMapping:
\* the pool has freed the address and another container's AllocateIP may
\* take it and save its mapping first.  Outside that window GetMappingByIP
\* has one answer; a mapping a release leaves behind gives it two for good.
StoreUnambiguous ==
    \A a \in Addr : \A c, d \in MappingsByIP(store, a) :
        c # d => "deleting" \in {ctr[c].pc, ctr[d].pc}

\* What GetPoolStats and the metrics collector report (Pool.GetStats) agrees
\* with the containers: on every node the Used counters add up to the
\* containers running with an address of that node, Used and Available
\* (two counts kept apart, the block's counter and the bitmap's) add up to
\* Total, and TotalBlocks is the blocks the nodes' lists hold.  A release
\* or allocation that updates one count and not the other, or an error
\* path that leaves one changed, skews the report for good.
StatsMatchContainers ==
    LET st == GetPoolStats(pool)
    IN  /\ st.usedIPs + st.availableIPs = st.totalIPs
        /\ st.totalBlocks = SumFunction([n \in DOMAIN st.nodeStats |-> st.nodeStats[n].blocks])
        /\ \A n \in DOMAIN st.nodeStats :
              st.nodeStats[n].usedIPs =
                  Cardinality({c \in Containers : /\ ctr[c].pc \in {"saving", "up"}
                                                  /\ ctr[c].node = n})

\* The usable addresses of every block the pool has handed to a node.
SpaceOf(p) ==
    UNION {{PositionToIP(BlockAt(p, s).cidr, i) : i \in 0 .. BlockAt(p, s).total - 1} :
           s \in Slots(p)}

\* Each allocated address with the node whose block list holds it.
OwnerOf(p) ==
    LET owned == UNION {BlockIPs(BlockAt(p, s)) : s \in Slots(p)}
    IN  [a \in owned |-> (CHOOSE s \in Slots(p) : a \in BlockIPs(BlockAt(p, s)))[1]]

Abstract == INSTANCE AddressAllocator
                WITH Addresses <- Addr, Owners <- Nodes,
                     space <- SpaceOf(pool), owner <- OwnerOf(pool)

\* The daemon's pool implements the allocator the engine promises, under
\* its two writers: an AllocateIP hands out one address nobody owns (in a
\* block it may carve for it), a ReleaseIP frees one owned address, the
\* FSM's allocate_block adds a block and its release_block takes away only
\* a block with no address in use.  No step moves an address from one
\* node to another or frees several at once.  (The store and the slots
\* change in most steps; steps that leave the pool alone are tested first.)
PoolRefinesAllocator ==
    /\ Abstract!Init
    /\ [][UNCHANGED pool \/ [Abstract!Next]_(Abstract!vars)]_serverVars

=============================================================================
