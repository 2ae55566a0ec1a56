CONSTANTS
    Order <- DefaultOrder
    ClusterScoped <- MCClusterScoped
    Archive <- MCArchive
    ItemOrder <- MCItemOrder
    NsOrder <- MCNsOrder
    NamespaceFilter <- NotNs2
    NamespaceMapping <- NoMapping
    IncludeClusterResources = "false"
    Actions <- MCActions
    ActionOutcomes <- QuietOutcomes
    SnapshotVolumes = "true"
    RestorePVs = "nil"
    BlockStoreConfigured = TRUE
    ResticConfigured = TRUE
    InitialCluster <- MCInitialCluster
    Faults <- PatchFaults
    MaxExternalDeletes = 1
    Passes = 2
SPECIFICATION Spec
INVARIANT EveryItemAccounted
