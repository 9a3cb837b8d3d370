SPECIFICATION Spec
CONSTANTS
  s1 = s1
  s2 = s2
  Sandboxes = {s1, s2}
  Faults = {"network"}
  MaxLosses = 2
  MaxRestarts = 1
INVARIANT CutNotEnforced
SYMMETRY SandboxSymmetry
