CONSTANTS
    n1 = n1
    n2 = n2
    n3 = n3
    n4 = n4
    AddrBits = 4
    Nodes <- MCNodes
    TORIds <- MCTORIds
    Configs <- MCConfigs
    NewSubnets <- MCNewSubnets
    Purposes <- MCPurposes
    ReleaseByHolderOnly = TRUE
SPECIFICATION Spec
INVARIANTS
    TypeOK
    SubnetAccounting
    UniqueHolders
    HeldIPsBacked
    TORsHavePools
SYMMETRY NodeSymmetry
