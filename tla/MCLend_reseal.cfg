SPECIFICATION Spec
CONSTANTS
    x = x
    p = p
    c1 = c1
    c2 = c2
    None = None
    Unknown = Unknown
    Guests = {x, p}
    Creates = {c1, c2}
    Runtime = FALSE
    ConfigReserved = x
    Faults = {}
    MaxLaunch = 2
    MaxRestarts = 0
SYMMETRY CreateSymmetry
PROPERTIES
    NothingPoolLeft
