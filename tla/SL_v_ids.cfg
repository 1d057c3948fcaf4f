CONSTANTS
  Users = {u1, u2}
  Lists = {l1}
  Tasks = {t1, t2}
  MaxSends = 1
  MaxCopies = 1
  MaxWrites = 0
  MaxFaults = 0
  None = None
SPECIFICATION Spec
SYMMETRY Symmetry
INVARIANT IdsResolve
