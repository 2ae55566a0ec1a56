CONSTANTS
    c1 = c1
    c2 = c2
    Controllers <- OneController
    Faults <- LostResponse
    MaxFaults = 1
SPECIFICATION Spec
PROPERTY EventuallyTerminal
