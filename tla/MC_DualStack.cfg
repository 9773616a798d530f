CONSTANTS
    Node = Node
    AddrBits = 5
    V6Bits = 6
    BitmapLimit = 3
    V4CIDR <- MCV4
    V6CIDR <- MCV6Bitmap

SPECIFICATION Spec

INVARIANT TypeOK
INVARIANT DualStackBalanced
INVARIANT UniquePairs
