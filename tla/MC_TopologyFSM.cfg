CONSTANTS
    s1 = s1
    s2 = s2
    n1 = n1
    n2 = n2
    AddrBits = 4
    Replicas <- MCReplicas
    Nodes <- MCNodes
    Purposes <- MCPurposes
    InitLog <- MCInitLog
    AdminCmds <- MCAdminCmds
    MaxLog = 7
    MaxRestarts = 0
    SnapshotThreshold = 5
    RetryRelease = FALSE
SPECIFICATION Spec
PROPERTY ReplicaRefinesAllocator
INVARIANTS
    TypeOK
    ReplicasAgree
    HeldIPsBacked
SYMMETRY ReplicaSymmetry
CHECK_DEADLOCK FALSE
