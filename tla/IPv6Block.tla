------------------------------- MODULE IPv6Block -------------------------------
(***************************************************************************)
(* The IPv6 block of pkg/allocator/ipv6.go.  Pure operators on a block     *)
(* value, like IPBlock.                                                    *)
(*                                                                         *)
(* IPv6 addresses are integers of V6Bits bits (the code's 128).  A block   *)
(* whose host bits exceed BitmapLimit (the code's 32) has no bitmap: its   *)
(* Total is capped at 2^BitmapLimit and it allocates sequentially at       *)
(* position Used.  Position p is address base + p: unlike the IPv4 block,  *)
(* the network address is position 0 and nothing is reserved.             *)
(***************************************************************************)
EXTENDS IPBlock

CONSTANTS
    V6Bits,         \* width of an IPv6 address (128 in the code)
    BitmapLimit     \* largest host-bit count tracked by a bitmap (32)

ASSUME BitmapLimit \in Nat /\ BitmapLimit < V6Bits

NoBitmap == [size |-> 0, bits |-> {}, allocated |-> 0]

V6Span(cidr) == 2 ^ (V6Bits - cidr.prefix)

\* net.IPNet.Contains for an IPv6 network.
V6Contains(cidr, ip) == cidr.base <= ip /\ ip < cidr.base + V6Span(cidr)

\* NewIPv6Block: ones >= bits is refused.
NewIPv6BlockOk(cidr) == cidr.prefix < V6Bits

\* NewIPv6Block: Total is 2^maskSize, or 2^BitmapLimit without a bitmap.
NewIPv6Block(cidr, node) ==
    LET maskSize == V6Bits - cidr.prefix
        total    == IF maskSize > BitmapLimit THEN 2 ^ BitmapLimit ELSE 2 ^ maskSize
    IN  [cidr |-> cidr, node |-> node, total |-> total, used |-> 0,
         hasBitmap |-> maskSize <= BitmapLimit,
         bm |-> IF maskSize <= BitmapLimit THEN NewBitmap(total) ELSE NoBitmap]

V6Result(err, blk, ip) == [err |-> err, blk |-> blk, ip |-> ip]

\* Mutation of V6Allocate: the bitmap bit is not set.
V6AllocateUnmarked(blk) ==
    LET pos == FindFirstZero(blk.bm)
    IN  CASE blk.hasBitmap /\ pos = -1 -> V6Result("ErrNoAvailableIP", blk, -1)
          [] blk.hasBitmap ->
               V6Result("ok", [blk EXCEPT !.used = @ + 1], blk.cidr.base + pos)
          [] blk.used >= blk.total -> V6Result("ErrNoAvailableIP", blk, -1)
          [] OTHER -> V6Result("ok", [blk EXCEPT !.used = @ + 1], blk.cidr.base + blk.used)

\* Mutation of V6Allocate: FindFirstZero's -1 not checked.
V6AllocateNoFullCheck(blk) ==
    LET pos == FindFirstZero(blk.bm)
    IN  CASE blk.hasBitmap ->
               V6Result("ok", [blk EXCEPT !.bm = BitmapSet(@, pos), !.used = @ + 1],
                        blk.cidr.base + pos)
          [] blk.used >= blk.total -> V6Result("ErrNoAvailableIP", blk, -1)
          [] OTHER -> V6Result("ok", [blk EXCEPT !.used = @ + 1], blk.cidr.base + blk.used)

\* IPv6Block.Allocate: first clear bit with a bitmap, else position Used.
V6Allocate(blk) ==
    LET pos == FindFirstZero(blk.bm)
    IN  CASE blk.hasBitmap /\ pos = -1 -> V6Result("ErrNoAvailableIP", blk, -1)
          [] blk.hasBitmap ->
               V6Result("ok", [blk EXCEPT !.bm = BitmapSet(@, pos), !.used = @ + 1],
                        blk.cidr.base + pos)
          [] blk.used >= blk.total -> V6Result("ErrNoAvailableIP", blk, -1)
          [] OTHER -> V6Result("ok", [blk EXCEPT !.used = @ + 1], blk.cidr.base + blk.used)

\* IPv6Block.Release: the address must be in the CIDR; with a bitmap its
\* bit is cleared, without one Used is decremented if positive.
V6Release(blk, ip) ==
    LET pos == ip - blk.cidr.base
    IN  CASE ~V6Contains(blk.cidr, ip)              -> V6Result("ErrIPNotInBlock", blk, -1)
          [] blk.hasBitmap /\ (pos < 0 \/ pos >= blk.bm.size)
                                                    -> V6Result("ErrInvalidIP", blk, -1)
          [] blk.hasBitmap /\ ~ClearOk(blk.bm, pos) -> V6Result("ErrBitClear", blk, -1)
          [] blk.hasBitmap ->
               V6Result("ok", [blk EXCEPT !.bm = BitmapClear(@, pos), !.used = @ - 1], -1)
          [] OTHER ->
               V6Result("ok", [blk EXCEPT !.used = IF @ > 0 THEN @ - 1 ELSE @], -1)

=============================================================================
