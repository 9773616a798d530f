CONSTANTS
    n1 = n1
    n2 = n2
    c1 = c1
    c2 = c2
    c3 = c3
    c4 = c4
    Self = n1
    Nodes <- MCNodes
    Containers <- MCContainers
    AddrBits = 4
    ClusterBase = 0
    ClusterPrefix = 1
    BlockPrefix = 2
    RetryDelete = FALSE

SPECIFICATION ServerSpec

INVARIANT ServerTypeOK
INVARIANT BlockOwnership
INVARIANT AddressesBacked
INVARIANT NoLeakedAddresses
INVARIANT StoreUnambiguous
INVARIANT StatsMatchContainers
PROPERTY PoolRefinesAllocator
