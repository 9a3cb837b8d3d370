SPECIFICATION Spec
CONSTANTS
  s1 = s1
  s2 = s2
  Sandboxes = {s1, s2}
  Faults = {"docker"}
  MaxLosses = 1
  MaxRestarts = 1
SYMMETRY SandboxSymmetry
INVARIANTS
  TypeOK
  LapsedNotServed
  LiftWhenClear
  RunningIsCapped
