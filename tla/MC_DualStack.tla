------------------------------- MODULE MC_DualStack -------------------------------
(* A /1 IPv4 block of 14 usable addresses next to an IPv6 block of 8      *)
(* positions: the IPv6 block fills first, so the ninth allocation takes    *)
(* the rollback path.  The widths are scaled down together: AddrBits = 5   *)
(* for 32, V6Bits = 6 for 128 and BitmapLimit = 3 for 32.                  *)
EXTENDS DualStack

MCV4 == [base |-> 0, prefix |-> 1]

\* Host bits 6 - 3 = 3 <= BitmapLimit: a bitmap block of 2^3 positions.
MCV6Bitmap == [base |-> 16, prefix |-> 3]

\* Host bits 6 - 2 = 4 > BitmapLimit: no bitmap, Total capped at 2^BitmapLimit.
MCV6Sequential == [base |-> 16, prefix |-> 2]

=============================================================================
