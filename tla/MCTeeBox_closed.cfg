SPECIFICATION Spec
CONSTANTS
  Callers = {a, b}
  a = a
  b = b
  Sandboxes = {s1}
  s1 = s1
  Faults = {"store"}
  MaxSandboxes = 2
  MaxRestarts = 1
  MaxBoots = 1
SYMMETRY CallerSymmetry
INVARIANTS
  ClosedUntilNextBoot
