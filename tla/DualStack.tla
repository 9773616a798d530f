------------------------------- MODULE DualStack -------------------------------
(***************************************************************************)
(* DualStackBlock of pkg/allocator/ipv6.go: one IPv4 IPBlock and one       *)
(* IPv6Block of a node, allocated and released in pairs by one caller.     *)
(* held is the set of <<ipv4, ipv6>> pairs the caller was given and has    *)
(* not released.                                                           *)
(***************************************************************************)
EXTENDS IPv6Block

CONSTANTS
    Node,       \* the block's node id
    V4CIDR,     \* the IPv4 block's network [base, prefix]
    V6CIDR      \* the IPv6 block's network [base, prefix]

ASSUME NewIPBlockOk(V4CIDR) /\ NewIPv6BlockOk(V6CIDR)

VARIABLES dsb, held

vars == <<dsb, held>>

\* NewDualStackBlock, with both CIDRs valid.
Init ==
    /\ dsb = [v4 |-> NewIPBlock(V4CIDR, Node), v6 |-> NewIPv6Block(V6CIDR, Node)]
    /\ held = {}

\* Mutation of AllocateDualStack: the IPv4 address kept when IPv6 fails.
AllocateDualStackNoRollback ==
    LET r4 == BlockAllocate(dsb.v4)
        r6 == V6Allocate(dsb.v6)
    IN  CASE r4.err # "ok" -> UNCHANGED vars
          [] r6.err # "ok" -> /\ dsb' = [dsb EXCEPT !.v4 = r4.blk]
                              /\ UNCHANGED held
          [] OTHER -> /\ dsb' = [v4 |-> r4.blk, v6 |-> r6.blk]
                      /\ held' = held \cup {<<r4.ip, r6.ip>>}

\* AllocateDualStack: IPv4 first; when IPv6 then fails, the IPv4 address is
\* released again (its error ignored) and the call fails.
AllocateDualStack ==
    LET r4 == BlockAllocate(dsb.v4)
        r6 == V6Allocate(dsb.v6)
    IN  CASE r4.err # "ok" -> UNCHANGED vars
          [] r6.err # "ok" -> /\ dsb' = [dsb EXCEPT !.v4 = BlockRelease(r4.blk, r4.ip).blk]
                              /\ UNCHANGED held
          [] OTHER -> /\ dsb' = [v4 |-> r4.blk, v6 |-> r6.blk]
                      /\ held' = held \cup {<<r4.ip, r6.ip>>}

\* ReleaseDualStack of a pair the caller holds: both releases run whatever
\* the first returns; the caller gives the pair up.
ReleaseDualStack(p) ==
    /\ p \in held
    /\ dsb' = [v4 |-> BlockRelease(dsb.v4, p[1]).blk, v6 |-> V6Release(dsb.v6, p[2]).blk]
    /\ held' = held \ {p}

Next ==
    \/ AllocateDualStack
    \/ \E p \in held : ReleaseDualStack(p)

Spec == Init /\ [][Next]_vars

----------------------------------------------------------------------------
(* Properties.                                                             *)

\* Both blocks' counters stay within their totals and every held pair is
\* an address of each block.
TypeOK ==
    /\ dsb.v4.used \in 0 .. dsb.v4.total
    /\ dsb.v6.used \in 0 .. dsb.v6.total
    /\ \A p \in held : CIDRContains(V4CIDR, p[1]) /\ V6Contains(V6CIDR, p[2])

\* All or nothing: each block counts exactly the pairs the caller holds, so
\* an IPv6 failure leaves no IPv4 address allocated behind it.
DualStackBalanced ==
    /\ dsb.v4.used = Cardinality(held)
    /\ dsb.v6.used = Cardinality(held)

\* No address of either family is in two pairs the caller holds: a release
\* followed by allocations never hands out an address still in use.
UniquePairs ==
    \A p, q \in held : p # q => p[1] # q[1] /\ p[2] # q[2]

=============================================================================
