SPECIFICATION Spec
CONSTANTS
    Items <- MCItems
    Unencodable <- MCUnencodable
    MaxWrites = 3
    FdLimit = 2
    Faults <- NoFaults
    MaxFaults = 0
INVARIANT NoTempDirLeft
