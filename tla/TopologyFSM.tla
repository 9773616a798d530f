------------------------------ MODULE TopologyFSM ------------------------------
(***************************************************************************)
(* The topology-aware replicated state machine: pkg/raft/topology_fsm.go   *)
(* (TopologyFSM.Apply, Snapshot, Restore) on every replica, and the        *)
(* proposals of pkg/raft/topology_node.go that clients make through the    *)
(* leader.                                                                 *)
(*                                                                         *)
(* The consensus layer itself is trusted and abstracted: log is the        *)
(* sequence of committed commands, the same on every replica, and each     *)
(* replica applies it in order at its own pace (applied[r]).  A command is *)
(* the record the TopologyNode method marshals; JSON encoding and decoding *)
(* of these fields is lossless and is not modelled.                        *)
(*                                                                         *)
(* A client call is synchronous: raft.Apply on the leader, then            *)
(* future.Error() and future.Response(), the leader's own Apply result.    *)
(* When leadership moves before the leader applied the entry, the future   *)
(* fails (ErrLeadershipLost) although the entry may be committed and       *)
(* applied everywhere; the caller sees an error and may call again.        *)
(***************************************************************************)
EXTENDS TopologyPool, FiniteSets

CONSTANTS
    Replicas,       \* Raft servers, each with its own TopologyAwarePool
    Nodes,          \* node ids of the clients that allocate and release
    Purposes,       \* purposes an allocate_ip may carry
    InitLog,        \* committed commands every replica has applied at start
    AdminCmds,      \* register_node / add_subnet / init_topology proposals
    MaxLog,         \* bound on the length of the log
    MaxRestarts,    \* bound on replica restarts
    SnapshotThreshold, \* entries applied since the last snapshot before
                       \* Raft takes another (raft.Config.SnapshotThreshold)
    RetryRelease       \* TRUE: a client whose ReleaseIP failed calls again

None == [idx |-> 0]

VARIABLES
    log,        \* committed commands
    fsm,        \* fsm[r]: the TopologyAwarePool of replica r
    applied,    \* applied[r]: index of the last entry r applied
    snap,       \* snap[r]: index of r's latest snapshot
    restarts,   \* number of restarts so far
    leader,     \* the replica whose raft.Apply calls succeed
    pending,    \* pending[n]: n's outstanding call [idx, by, cmd], or None
    held,       \* <<ip, n>>: addresses n was told it got and has not released
    doubt       \* <<ip, n>>: addresses n called ReleaseIP for, with no answer yet
                \* or only an error

vars == <<log, fsm, applied, snap, restarts, leader, pending, held, doubt>>

----------------------------------------------------------------------------
(* TopologyFSM.Apply: the set of results [err, tp, ip] applying cmd to tp  *)
(* can have (more than one when a SubnetPool's map iteration decides).     *)

ApplyInitTopology(tp, cmd) ==
    LET r == InitializeTopology(tp, cmd.cfg)
    IN  {[err |-> r.err, tp |-> r.tp, ip |-> -1]}

ApplyRegisterNode(tp, cmd) ==
    LET r == RegisterNode(tp, cmd.node, cmd.tor)
    IN  {[err |-> r.err, tp |-> r.tp, ip |-> -1]}

\* Mutation of ApplyAllocateIP: the empty purpose passed on as it is.
ApplyAllocateIPRaw(tp, cmd) ==
    {[err |-> r.err, tp |-> r.tp, ip |-> r.ip]
     : r \in AllocateIPForNodeWithPurpose(tp, cmd.node, cmd.purpose)}

\* An empty purpose is "default".
ApplyAllocateIP(tp, cmd) ==
    LET purpose == IF cmd.purpose = "" THEN "default" ELSE cmd.purpose
    IN  {[err |-> r.err, tp |-> r.tp, ip |-> r.ip]
         : r \in AllocateIPForNodeWithPurpose(tp, cmd.node, purpose)}

ApplyReleaseIP(tp, cmd) ==
    {[err |-> r.err, tp |-> r.tp, ip |-> cmd.ip] : r \in ReleaseIPForNode(tp, cmd.node, cmd.ip)}

ApplyAddSubnet(tp, cmd) ==
    LET r == AddSubnetToTOR(tp, cmd.tor, cmd.cidr, cmd.purpose)
    IN  {[err |-> r.err, tp |-> r.tp, ip |-> -1]}

Apply(tp, cmd) ==
    CASE cmd.type = "init_topology" -> ApplyInitTopology(tp, cmd)
      [] cmd.type = "register_node" -> ApplyRegisterNode(tp, cmd)
      [] cmd.type = "allocate_ip"   -> ApplyAllocateIP(tp, cmd)
      [] cmd.type = "release_ip"    -> ApplyReleaseIP(tp, cmd)
      [] cmd.type = "add_subnet"    -> ApplyAddSubnet(tp, cmd)

\* The states replaying a log from a fresh pool can reach.
RECURSIVE Replay(_, _)
Replay(tp, cmds) ==
    IF cmds = <<>> THEN {tp}
    ELSE UNION {Replay(r.tp, Tail(cmds)) : r \in Apply(tp, Head(cmds))}

----------------------------------------------------------------------------

Init ==
    /\ log = InitLog
    /\ \E tp0 \in Replay(EmptyTopologyPool, InitLog) : fsm = [r \in Replicas |-> tp0]
    /\ applied = [r \in Replicas |-> Len(InitLog)]
    /\ snap = [r \in Replicas |-> 0]
    /\ restarts = 0
    /\ leader \in Replicas
    /\ pending = [n \in Nodes |-> None]
    /\ held = {}
    /\ doubt = {}

\* A client call: raft.Apply on the leader appends the command.
Propose(n, cmd) ==
    /\ pending[n] = None
    /\ Len(log) < MaxLog
    /\ log' = Append(log, cmd)
    /\ pending' = [pending EXCEPT ![n] = [idx |-> Len(log) + 1, by |-> leader, cmd |-> cmd]]
    /\ UNCHANGED <<fsm, applied, snap, restarts, leader>>

\* TopologyNode.AllocateIP.
ClientAllocate(n, purpose) ==
    /\ Propose(n, [type |-> "allocate_ip", node |-> n, purpose |-> purpose])
    /\ UNCHANGED <<held, doubt>>

\* TopologyNode.ReleaseIP of an address n holds, or, when callers retry, of
\* one whose release failed: n gives the address up when it calls.
ClientRelease(n, ip) ==
    /\ \/ <<ip, n>> \in held
       \/ RetryRelease /\ <<ip, n>> \in doubt
    /\ Propose(n, [type |-> "release_ip", node |-> n, ip |-> ip])
    /\ held' = held \ {<<ip, n>>}
    /\ doubt' = doubt \cup {<<ip, n>>}

\* An operator's proposal whose answer no property is about.
AdminPropose(cmd) ==
    /\ Len(log) < MaxLog
    /\ log' = Append(log, cmd)
    /\ UNCHANGED <<fsm, applied, snap, restarts, leader, pending, held, doubt>>

\* Mutation of Learn: response.Success not checked.
LearnIgnoringError(n, res) ==
    IF pending[n].cmd.type = "allocate_ip" THEN held \cup {<<res.ip, n>>} ELSE held

\* What the caller whose call this entry answers learns from the result.
Learn(n, res) ==
    IF pending[n].cmd.type = "allocate_ip" /\ res.err = "ok"
    THEN held \cup {<<res.ip, n>>} ELSE held

\* A release's answer, success or error, settles it.
Settle(n, res) ==
    IF pending[n].cmd.type = "release_ip" THEN doubt \ {<<res.ip, n>>} ELSE doubt

\* Replica r applies its next committed entry.  The leader's result is the
\* response of the future of the call that proposed the entry.
ApplyNext(r) ==
    LET i == applied[r] + 1
    IN  /\ i <= Len(log)
        /\ applied' = [applied EXCEPT ![r] = i]
        /\ \E res \in Apply(fsm[r], log[i]) :
              /\ fsm' = [fsm EXCEPT ![r] = res.tp]
              /\ IF r = leader /\ \E n \in Nodes : pending[n].idx = i /\ pending[n].by = r
                 THEN LET n == CHOOSE m \in Nodes : pending[m].idx = i
                      IN  /\ held' = Learn(n, res)
                          /\ doubt' = Settle(n, res)
                          /\ pending' = [pending EXCEPT ![n] = None]
                 ELSE UNCHANGED <<held, doubt, pending>>
        /\ UNCHANGED <<log, snap, restarts, leader>>

\* Leadership moves; every call in flight on the old leader fails.
LeaderChange(r) ==
    /\ r # leader
    /\ leader' = r
    /\ pending' = [n \in Nodes |-> IF pending[n].idx # 0 /\ pending[n].by = leader
                                   THEN None ELSE pending[n]]
    /\ UNCHANGED <<log, fsm, applied, snap, restarts, held, doubt>>

\* TopologyFSM.Snapshot + TopologyFSMSnapshot.Persist: the snapshot holds
\* the statistics only; what matters is the index it covers.
TakeSnapshot(r) ==
    /\ applied[r] - snap[r] >= SnapshotThreshold
    /\ snap[r] < applied[r]
    /\ snap' = [snap EXCEPT ![r] = applied[r]]
    /\ UNCHANGED <<log, fsm, applied, restarts, leader, pending, held, doubt>>

\* Mutation of Restart: the old pool is kept and the log replayed onto it.
RestartKeepsState(r) ==
    /\ restarts < MaxRestarts
    /\ restarts' = restarts + 1
    /\ applied' = [applied EXCEPT ![r] = snap[r]]
    /\ pending' = [n \in Nodes |-> IF pending[n].idx # 0 /\ pending[n].by = r
                                   THEN None ELSE pending[n]]
    /\ UNCHANGED <<log, fsm, snap, leader, held, doubt>>

\* Mutation of Restart: the fresh pool resumes after the last applied entry.
RestartSkipsReplay(r) ==
    /\ restarts < MaxRestarts
    /\ restarts' = restarts + 1
    /\ fsm' = [fsm EXCEPT ![r] = EmptyTopologyPool]
    /\ pending' = [n \in Nodes |-> IF pending[n].idx # 0 /\ pending[n].by = r
                                   THEN None ELSE pending[n]]
    /\ UNCHANGED <<log, applied, snap, leader, held, doubt>>

\* A replica restarts: the daemon builds a fresh TopologyAwarePool, Raft
\* hands TopologyFSM.Restore the latest snapshot (TopologyConfig and Nodes
\* are never written, so Restore changes nothing) and continues applying
\* after the snapshot's index.  Calls in flight on it fail.
Restart(r) ==
    /\ restarts < MaxRestarts
    /\ restarts' = restarts + 1
    /\ fsm' = [fsm EXCEPT ![r] = EmptyTopologyPool]
    /\ applied' = [applied EXCEPT ![r] = snap[r]]
    /\ pending' = [n \in Nodes |-> IF pending[n].idx # 0 /\ pending[n].by = r
                                   THEN None ELSE pending[n]]
    /\ UNCHANGED <<log, snap, leader, held, doubt>>

Next ==
    \/ \E n \in Nodes, p \in Purposes : ClientAllocate(n, p)
    \/ \E n \in Nodes, ip \in Addr : ClientRelease(n, ip)
    \/ \E cmd \in AdminCmds : AdminPropose(cmd)
    \/ \E r \in Replicas : ApplyNext(r)
    \/ \E r \in Replicas : LeaderChange(r)
    \/ \E r \in Replicas : TakeSnapshot(r)
    \/ \E r \in Replicas : Restart(r)

Spec == Init /\ [][Next]_vars

----------------------------------------------------------------------------
(* Properties.                                                             *)

\* Log, replica indices, pending calls and the clients' views stay within their bounds.
TypeOK ==
    /\ Len(log) <= MaxLog
    /\ \A r \in Replicas : snap[r] <= applied[r] /\ applied[r] <= Len(log)
    /\ restarts \in 0 .. MaxRestarts
    /\ leader \in Replicas
    /\ \A n \in Nodes : pending[n] = None \/ pending[n].idx \in 1 .. Len(log)
    /\ held \cup doubt \subseteq Addr \X Nodes

\* Replicated state machine determinism: two replicas that have applied the
\* same prefix of the log hold the same TopologyAwarePool, whatever the
\* interleaving of applies, restarts and snapshots.
ReplicasAgree ==
    \A r1, r2 \in Replicas :
        applied[r1] = applied[r2] => fsm[r1] = fsm[r2]

\* Every address a client was told it got, and has not asked to release,
\* is allocated to that client's node on every replica that has applied the
\* whole log: no other client's call, answered or failed, took it away.
HeldIPsBacked ==
    \A r \in Replicas, h \in held :
        applied[r] = Len(log) =>
            \E t \in DOMAIN fsm[r].pools :
                \E k \in DOMAIN fsm[r].pools[t] :
                    LET a == fsm[r].pools[t][k].allocations
                    IN  h[1] \in DOMAIN a /\ a[h[1]] = h[2]

----------------------------------------------------------------------------
(* Refinement.  A replica's TopologyAwarePool, seen as which addresses its *)
(* subnets offer and which node each allocated address belongs to, is an  *)
(* AddressAllocator: every entry it applies grants one free address,       *)
(* frees one owned address, adds subnets, or changes none of these.        *)

\* The subnets of a replica's pool.
SubnetsOf(tp) == UNION {Range(tp.pools[t]) : t \in DOMAIN tp.pools}

\* The usable addresses of those subnets.
SpaceOf(tp) ==
    UNION {{PositionToIP(s.cidr, i) : i \in 0 .. s.capacity - 1} : s \in SubnetsOf(tp)}

\* Each allocated address with the node its Allocation names.
OwnerOf(tp) ==
    LET tables == {s.allocations : s \in SubnetsOf(tp)}
    IN  [a \in UNION {DOMAIN t : t \in tables} |->
            (CHOOSE t \in tables : a \in DOMAIN t)[a]]

Abstract(r) == INSTANCE AddressAllocator
                   WITH Addresses <- Addr, Owners <- Nodes,
                        space <- SpaceOf(fsm[r]), owner <- OwnerOf(fsm[r])

\* Every replica's pool implements the allocator the engine promises: as
\* it applies the committed log, an allocate_ip hands out only an address
\* of its subnets that no node holds, and a release_ip frees one that is
\* held, whatever leader changes and failed calls happened meanwhile.
\* (\A r : Abstract(r)!Spec, with the quantifier moved inside the box and
\* the stuttering case, most steps for a given replica, tested first.)
ReplicaRefinesAllocator ==
    /\ \A r \in Replicas : Abstract(r)!Init
    /\ [][\A r \in Replicas : UNCHANGED fsm[r] \/ [Abstract(r)!Next]_(Abstract(r)!vars)]_vars

=============================================================================
