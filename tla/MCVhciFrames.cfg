SPECIFICATION VhciSpec
CONSTANTS
    Size = 11
    Blank <- MCBlank
    Lens = {3, 4}
    Ids = 3
INVARIANTS
    WholePackets
