------------------------------ MODULE SubnetPool ------------------------------
(***************************************************************************)
(* The per-TOR subnet pool of pkg/topology/subnet_pool.go.  Pure           *)
(* operators on a pool value: the map Subnets from the CIDR text a caller  *)
(* passed to AddSubnet to the Subnet parsed from it.                       *)
(*                                                                         *)
(* The CIDR text is kept as what it says, [addr, prefix]: two texts that   *)
(* differ only in host bits ("10.0.0.0/30", "10.0.0.1/30") are different   *)
(* keys of the map and parse to the same network.                          *)
(*                                                                         *)
(* AllocateIP and ReleaseIP pick a subnet with `for ... range sp.Subnets`  *)
(* and break at the first match.  Go randomises map iteration, so when     *)
(* several subnets match, any of them can be the one chosen: these two     *)
(* operators return the SET of possible results.                           *)
(***************************************************************************)
EXTENDS IPBlock, TLC

\* net.ParseCIDR: the network address is the text's address with the host
\* bits masked off.
ParseCIDR(t) ==
    LET c == [base |-> 0, prefix |-> t.prefix]
    IN  [base |-> t.addr - (t.addr % Span(c)), prefix |-> t.prefix]

NoText == [addr |-> -1, prefix |-> -1]

EmptySubnetPool == [k \in {} |-> {}]

\* Mutation of AddSubnet: the usable-address check dropped.
AddSubnetAnySize(sp, t, purpose) ==
    LET c == ParseCIDR(t)
    IN  IF t \in DOMAIN sp THEN [err |-> "ErrSubnetExists", sp |-> sp]
        ELSE [err |-> "ok",
              sp  |-> (t :> [cidr |-> c, purpose |-> purpose,
                             capacity |-> Usable(c), used |-> 0,
                             allocations |-> [ip \in {} |-> {}],
                             bm |-> NewBitmap(Usable(c))]) @@ sp]

\* AddSubnet: refuses a text already present (exact match of the text) and
\* a CIDR with no usable address; otherwise a fresh Subnet under that text.
AddSubnet(sp, t, purpose) ==
    LET c == ParseCIDR(t)
    IN  CASE t \in DOMAIN sp  -> [err |-> "ErrSubnetExists", sp |-> sp]
          [] Usable(c) <= 0   -> [err |-> "ErrNoUsableIPs", sp |-> sp]
          [] OTHER -> [err |-> "ok",
                       sp  |-> (t :> [cidr |-> c, purpose |-> purpose,
                                      capacity |-> Usable(c), used |-> 0,
                                      allocations |-> [ip \in {} |-> {}],
                                      bm |-> NewBitmap(Usable(c))]) @@ sp]

SubnetAvailable(s) == s.capacity - s.used

\* Strategy 1: subnets of the requested purpose (any, for "") with room.
Strategy1(sp, purpose) ==
    {k \in DOMAIN sp : /\ purpose = "" \/ sp[k].purpose = purpose
                       /\ SubnetAvailable(sp[k]) > 0}

\* Strategy 2, only when strategy 1 found nothing and the request is not
\* for "default": default subnets with room.
Strategy2(sp, purpose) ==
    IF purpose = "default" THEN {}
    ELSE {k \in DOMAIN sp : sp[k].purpose = "default" /\ SubnetAvailable(sp[k]) > 0}

\* The subnets the iteration can stop at.
Candidates(sp, purpose) ==
    IF Strategy1(sp, purpose) # {} THEN Strategy1(sp, purpose)
                                   ELSE Strategy2(sp, purpose)

AllocResult(err, sp, ip, k) == [err |-> err, sp |-> sp, ip |-> ip, cidr |-> k]

\* Mutation of SubnetAllocate: the bit is never set.
SubnetAllocateUnmarked(sp, k, node) ==
    LET s   == sp[k]
        pos == FindFirstZero(s.bm)
        ip  == PositionToIP(s.cidr, pos)
    IN  IF pos = -1
        THEN AllocResult("ErrNoAvailableIP", sp, -1, k)
        ELSE AllocResult("ok",
                 [sp EXCEPT ![k] = [s EXCEPT !.used = @ + 1,
                                             !.allocations = (ip :> node) @@ @]],
                 ip, k)

\* Allocation from the chosen subnet: first clear bit, set it, count it and
\* record the allocation under the address.
SubnetAllocate(sp, k, node) ==
    LET s   == sp[k]
        pos == FindFirstZero(s.bm)
        ip  == PositionToIP(s.cidr, pos)
    IN  IF pos = -1
        THEN AllocResult("ErrNoAvailableIP", sp, -1, k)
        ELSE AllocResult("ok",
                 [sp EXCEPT ![k] = [s EXCEPT !.bm = BitmapSet(@, pos),
                                             !.used = @ + 1,
                                             !.allocations = (ip :> node) @@ @]],
                 ip, k)

\* SubnetPool.AllocateIP: every result the map iteration can produce.
AllocateIP(sp, node, purpose) ==
    IF Candidates(sp, purpose) = {}
    THEN {AllocResult("ErrNoSubnet", sp, -1, NoText)}
    ELSE {SubnetAllocate(sp, k, node) : k \in Candidates(sp, purpose)}

\* Mutation of SubnetRelease: the allocation record is not deleted.
SubnetReleaseKeepsRecord(sp, k, ip) ==
    LET s   == sp[k]
        pos == IPToPosition(s.cidr, ip)
    IN  CASE ip \notin DOMAIN s.allocations -> [err |-> "ErrNotAllocated", sp |-> sp]
          [] ~ClearOk(s.bm, pos)            -> [err |-> "ErrBitClear", sp |-> sp]
          [] OTHER ->
               [err |-> "ok",
                sp  |-> [sp EXCEPT ![k] = [s EXCEPT !.bm = BitmapClear(@, pos), !.used = @ - 1]]]

\* Release in the chosen subnet: the address must have an allocation record;
\* then its bit is cleared, the count decremented and the record deleted.
SubnetRelease(sp, k, ip) ==
    LET s   == sp[k]
        pos == IPToPosition(s.cidr, ip)
    IN  CASE ip \notin DOMAIN s.allocations -> [err |-> "ErrNotAllocated", sp |-> sp]
          [] ~ClearOk(s.bm, pos)            -> [err |-> "ErrBitClear", sp |-> sp]
          [] OTHER ->
               [err |-> "ok",
                sp  |-> [sp EXCEPT ![k] =
                           [s EXCEPT !.bm = BitmapClear(@, pos), !.used = @ - 1,
                                     !.allocations = [a \in DOMAIN @ \ {ip} |-> @[a]]]]]

\* SubnetPool.ReleaseIP: the iteration stops at any subnet containing ip.
ReleaseIP(sp, ip) ==
    LET C == {k \in DOMAIN sp : CIDRContains(sp[k].cidr, ip)}
    IN  IF C = {} THEN {[err |-> "ErrNotFound", sp |-> sp]}
                  ELSE {SubnetRelease(sp, k, ip) : k \in C}

=============================================================================
