CONSTANTS
    c1 = c1
    c2 = c2
    Controllers <- OneController
    Faults <- AllFaults
    MaxFaults = 3
SPECIFICATION Spec
INVARIANT AtMostOneRun
