CONSTANTS
    Order <- DefaultOrder
    ClusterScoped <- MCClusterScoped
    Archive <- MCArchive
    ItemOrder <- MCItemOrder
    NsOrder <- MCNsOrder
    NamespaceFilter <- AllNamespaces
    NamespaceMapping <- Ns1ToNs3
    IncludeClusterResources = "nil"
    Actions <- MCActions
    ActionOutcomes <- QuietOutcomes
    SnapshotVolumes = "true"
    RestorePVs = "nil"
    BlockStoreConfigured = TRUE
    ResticConfigured = TRUE
    InitialCluster <- MCInitialCluster
    Faults <- NoFaults
    MaxExternalDeletes = 0
    Passes = 1
SPECIFICATION Spec
INVARIANT RemappedItemsRestored
