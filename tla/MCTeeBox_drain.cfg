SPECIFICATION FairSpec
CONSTANTS
  Callers = {a}
  a = a
  Sandboxes = {s1, s2}
  s1 = s1
  s2 = s2
  Faults = {"slow", "docker"}
  MaxSandboxes = 2
  MaxRestarts = 1
  MaxBoots = 1
INVARIANTS
  NothingOutlivesHandOver
  TrackedRuns
PROPERTIES
  DrainEnds
