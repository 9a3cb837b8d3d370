SPECIFICATION FairSpec
CONSTANTS
    take = take
    b1 = b1
    b2 = b2
    up = up
    a = a
    b = b
    c = c
    d = d
    Releases = {take, b1, b2, up}
    Images = {a, b, c, d}
    ImageOf <- MCImageOf
    LegacyImage = a
    Schema <- MCSchema
    Labelled = {b, c, d}
    Declared <- MCDeclared
    Faults = {"exit"}
    MaxRestarts = 2
PROPERTY
    HaltClears
