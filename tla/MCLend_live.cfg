SPECIFICATION FairSpec
CONSTANTS
    x = x
    p = p
    c1 = c1
    None = None
    Unknown = Unknown
    Guests = {x, p}
    Creates = {c1}
    Runtime = TRUE
    ConfigReserved = x
    Faults = {"lost", "gone", "crash", "disk", "linger"}
    MaxLaunch = 1
    MaxRestarts = 1
INVARIANTS
    NoStrangerOnReserved
    ListedStrangersRefused
PROPERTIES
    StrangersFound
    BaselineRecorded
