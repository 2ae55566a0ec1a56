CONSTANTS
    c1 = c1
    c2 = c2
    Controllers <- TwoControllers
    Faults <- ReportedFaults
    MaxFaults = 2
SPECIFICATION Spec
PROPERTY EventuallyTerminal
