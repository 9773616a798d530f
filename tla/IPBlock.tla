------------------------------- MODULE IPBlock -------------------------------
(***************************************************************************)
(* The IPv4 address block of pkg/allocator/bitmap.go: a Bitmap over the    *)
(* usable positions of a CIDR and the IPBlock that converts positions to   *)
(* addresses.  Pure operators, no variables: the pool modules hold blocks  *)
(* as values and call these operators inside their actions.                *)
(*                                                                         *)
(* Addresses are integers of AddrBits bits (the code's uint32, AddrBits =  *)
(* 32; the models use a narrower address space).  A CIDR is the parsed     *)
(* network [base, prefix]; ParseCIDR masks the host bits, so base is a     *)
(* multiple of the CIDR's span.                                            *)
(***************************************************************************)
EXTENDS Integers, FiniteSets, FiniteSetsExt

CONSTANT AddrBits

ASSUME AddrBits \in Nat \ {0}

AddrSpace == 2 ^ AddrBits
Addr == 0 .. AddrSpace - 1

\* The number of addresses a CIDR spans: 1 << (bits - ones).
Span(cidr) == 2 ^ (AddrBits - cidr.prefix)

\* net.IPNet.Contains.
CIDRContains(cidr, ip) == cidr.base <= ip /\ ip < cidr.base + Span(cidr)

\* Two CIDRs share an address.
Overlap(c1, c2) == \E ip \in Addr : CIDRContains(c1, ip) /\ CIDRContains(c2, ip)

----------------------------------------------------------------------------
(* Bitmap: the set of set positions and the allocated counter.            *)

NewBitmap(size) == [size |-> size, bits |-> {}, allocated |-> 0]

\* Bitmap.IsSet: out of range is not set.
IsSet(b, pos) == pos \in b.bits

\* Bitmap.Set: error when out of range or already set.
SetOk(b, pos) == pos \in 0 .. b.size - 1 /\ pos \notin b.bits
BitmapSet(b, pos) == [b EXCEPT !.bits = @ \cup {pos}, !.allocated = @ + 1]

\* Bitmap.Clear: error when out of range or already clear.
ClearOk(b, pos) == pos \in 0 .. b.size - 1 /\ pos \in b.bits
BitmapClear(b, pos) == [b EXCEPT !.bits = @ \ {pos}, !.allocated = @ - 1]

\* Mutation of FindFirstZero: the scan runs one position past the size.
FindFirstZeroPastEnd(b) ==
    LET free == (0 .. b.size) \ b.bits
    IN  IF free = {} THEN -1 ELSE Min(free)

\* Bitmap.FindFirstZero: the lowest clear position below size, or -1.  The
\* word loop visits words in order and positions in a word in order, so
\* the first clear position it meets is the lowest one.
FindFirstZero(b) ==
    LET free == (0 .. b.size - 1) \ b.bits
    IN  IF free = {} THEN -1 ELSE Min(free)

BitmapAvailable(b) == b.size - b.allocated

----------------------------------------------------------------------------
(* IPBlock.                                                               *)

\* Usable addresses of a CIDR: all but network and broadcast.
Usable(cidr) == Span(cidr) - 2

\* positionToIP: position 0 is network + 1; uint32 arithmetic wraps.
PositionToIP(cidr, pos) == (cidr.base + pos + 1) % AddrSpace

\* ipToPosition: offset from the network address, minus one.
IPToPosition(cidr, ip) == ((ip - cidr.base) % AddrSpace) - 1

\* NewIPBlock fails with "no usable IPs" when usable <= 0.
NewIPBlockOk(cidr) == Usable(cidr) > 0
NewIPBlock(cidr, node) ==
    [cidr |-> cidr, node |-> node, total |-> Usable(cidr), used |-> 0,
     bm |-> NewBitmap(Usable(cidr))]

\* IPBlock.Available, from the bitmap.
BlockAvailable(blk) == BitmapAvailable(blk.bm)

\* IPBlock.Allocate: [err, blk, ip].  Full block: ErrNoAvailableIP.
BlockAllocate(blk) ==
    LET pos == FindFirstZero(blk.bm)
    IN  IF pos = -1
        THEN [err |-> "ErrNoAvailableIP", blk |-> blk, ip |-> -1]
        ELSE [err |-> "ok",
              blk |-> [blk EXCEPT !.bm = BitmapSet(@, pos), !.used = @ + 1],
              ip  |-> PositionToIP(blk.cidr, pos)]

\* Mutation of BlockRelease: the bitmap.Clear call dropped, Used-- kept.
BlockReleaseCounterOnly(blk, ip) ==
    LET pos == IPToPosition(blk.cidr, ip)
    IN  CASE ~CIDRContains(blk.cidr, ip)  -> [err |-> "ErrIPNotInBlock", blk |-> blk]
          [] pos < 0 \/ pos >= blk.total  -> [err |-> "ErrInvalidIP", blk |-> blk]
          [] ~ClearOk(blk.bm, pos)        -> [err |-> "ErrBitClear", blk |-> blk]
          [] OTHER -> [err |-> "ok", blk |-> [blk EXCEPT !.used = @ - 1]]

\* Mutation of BlockRelease: bitmap.Clear kept, b.Used-- dropped.
BlockReleaseBitmapOnly(blk, ip) ==
    LET pos == IPToPosition(blk.cidr, ip)
    IN  CASE ~CIDRContains(blk.cidr, ip)  -> [err |-> "ErrIPNotInBlock", blk |-> blk]
          [] pos < 0 \/ pos >= blk.total  -> [err |-> "ErrInvalidIP", blk |-> blk]
          [] ~ClearOk(blk.bm, pos)        -> [err |-> "ErrBitClear", blk |-> blk]
          [] OTHER -> [err |-> "ok", blk |-> [blk EXCEPT !.bm = BitmapClear(@, pos)]]

\* IPBlock.Release: [err, blk].  Outside the CIDR, the network or broadcast
\* address, or a clear bit: an error and the block unchanged.
BlockRelease(blk, ip) ==
    LET pos == IPToPosition(blk.cidr, ip)
    IN  CASE ~CIDRContains(blk.cidr, ip)  -> [err |-> "ErrIPNotInBlock", blk |-> blk]
          [] pos < 0 \/ pos >= blk.total  -> [err |-> "ErrInvalidIP", blk |-> blk]
          [] ~ClearOk(blk.bm, pos)        -> [err |-> "ErrBitClear", blk |-> blk]
          [] OTHER -> [err |-> "ok",
                       blk |-> [blk EXCEPT !.bm = BitmapClear(@, pos), !.used = @ - 1]]

\* The addresses the block has handed out and not taken back.
BlockIPs(blk) == {PositionToIP(blk.cidr, p) : p \in blk.bm.bits}

=============================================================================
