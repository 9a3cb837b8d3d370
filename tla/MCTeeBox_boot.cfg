SPECIFICATION Spec
CONSTANTS
  Callers = {a, b}
  a = a
  b = b
  Sandboxes = {s1, s2}
  s1 = s1
  s2 = s2
  Faults = {"store", "extend", "marker", "bootid", "slow", "early"}
  MaxSandboxes = 2
  MaxRestarts = 2
  MaxBoots = 2
SYMMETRY Symmetry
INVARIANTS
  TypeOK
  OneCustomerPerBoot
  ContainersAreTheCustomers
  LeaseIsMeasured
  UseIsReported
