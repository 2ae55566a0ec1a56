CONSTANTS
    c1 = c1
    c2 = c2
    Controllers <- TwoControllers
    Faults <- NoFaults
    MaxFaults = 2
SPECIFICATION Spec
INVARIANT AtMostOneRun
