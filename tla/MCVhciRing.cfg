SPECIFICATION FairVhci
CONSTANTS
    Size = 11
    Blank <- MCBlank
    Lens = {3, 4}
    Ids = 3
INVARIANTS
    Framed
    NothingStranded
PROPERTIES
    Served
