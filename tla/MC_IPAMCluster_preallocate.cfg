CONSTANTS
    n1 = n1
    n2 = n2
    Nodes <- MCNodes
    AddrBits = 4
    ClusterBase = 0
    ClusterPrefix = 0
    BlockPrefix = 1
    MaxLog = 1
    MaxReleases = 0
    MaxRestarts = 0
    SnapshotThreshold = 1

SPECIFICATION Spec

PROPERTY PressureProposes
SYMMETRY NodeSymmetry
