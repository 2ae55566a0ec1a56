CONSTANTS
    Order <- DefaultOrder
    ClusterScoped <- MCClusterScoped
    Archive <- MCArchive
    ItemOrder <- MCItemOrder
    NsOrder <- MCNsOrder
    NamespaceFilter <- AllNamespaces
    NamespaceMapping <- NoMapping
    IncludeClusterResources = "nil"
    Actions <- MCActions
    ActionOutcomes <- AllOutcomes
    SnapshotVolumes = "true"
    RestorePVs = "nil"
    BlockStoreConfigured = TRUE
    ResticConfigured = TRUE
    InitialCluster <- MCInitialCluster
    Faults <- NoFaults
    MaxExternalDeletes = 0
    Passes = 1
SPECIFICATION Spec
INVARIANT NoPanic
