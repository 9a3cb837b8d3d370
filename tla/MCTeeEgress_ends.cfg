SPECIFICATION FairSpec
CONSTANTS
  s1 = s1
  Sandboxes = {s1}
  Faults = {"docker", "network", "nft", "flush"}
  MaxLosses = 1
  MaxRestarts = 1
INVARIANT
  EnforcedIsOpen
PROPERTIES
  LapsedRemoved
  QuarantineLifts
