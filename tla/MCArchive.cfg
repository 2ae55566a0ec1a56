SPECIFICATION Spec
CONSTANTS
    Items <- MCItems
    Unencodable <- MCUnencodable
    MaxWrites = 4
    FdLimit = 2
    Faults <- AllFaults
    MaxFaults = 2
INVARIANT TypeOK
PROPERTY ArchiveRefinesStore
