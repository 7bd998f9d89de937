SPECIFICATION IdentitySpec
CONSTANTS
    Hosts = {h1, h2}
    Gens = 8
    Mac5 = 5
    XorOf <- MCXor
    MaxForgets = 7
SYMMETRY HostSymmetry
INVARIANTS
    ForgottenStaysOut
    BondsHonoured
