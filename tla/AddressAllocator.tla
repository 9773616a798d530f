--------------------------- MODULE AddressAllocator ---------------------------
(***************************************************************************)
(* What the replicated allocation engine promises (spec.md, overview and   *)
(* section 4.6), with the engine's data left out: a set of addresses that  *)
(* can be handed out, and which node owns each address handed out.         *)
(*                                                                         *)
(*  - Grant: an address nobody owns goes to one node; the space may grow   *)
(*    in the same step (a pool that carves a block for the request), and   *)
(*    the address is in the space after it;                                *)
(*  - Free:  an owned address becomes free again;                          *)
(*  - Extend: new subnets or blocks add addresses to the space;            *)
(*  - Withdraw: addresses nobody owns leave the space (a released block).  *)
(*                                                                         *)
(* An address is never granted while it is owned: no address is handed     *)
(* out twice.                                                              *)
(***************************************************************************)
EXTENDS Functions, TLC

CONSTANTS
    Addresses,  \* every address there is
    Owners      \* the nodes addresses are granted to

VARIABLES
    space,      \* the addresses that subnets make available
    owner       \* owner[a]: the node address a was granted to

vars == <<space, owner>>

Init ==
    /\ space \subseteq Addresses
    /\ owner \in [{} -> Owners]

Grant(a, n) ==
    /\ a \notin DOMAIN owner
    /\ space \subseteq space' /\ space' \subseteq Addresses
    /\ a \in space'
    /\ owner' = (a :> n) @@ owner

Free(a) ==
    /\ a \in DOMAIN owner
    /\ owner' = Restrict(owner, DOMAIN owner \ {a})
    /\ UNCHANGED space

Extend ==
    /\ space' \subseteq Addresses
    /\ space \subseteq space'
    /\ UNCHANGED owner

Withdraw ==
    /\ space' \subseteq space
    /\ DOMAIN owner \subseteq space'
    /\ UNCHANGED owner

Next ==
    \/ \E a \in Addresses \ DOMAIN owner, n \in Owners : Grant(a, n)
    \/ \E a \in DOMAIN owner : Free(a)
    \/ Extend
    \/ Withdraw

Spec == Init /\ [][Next]_vars

=============================================================================
