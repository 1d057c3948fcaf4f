CONSTANTS
  Devices = {d1}
  Places = {p1, p2}
  Tasks = {t1, t2}
  MaxSelected = 2
  MaxSessions = 1
  MaxFaults = 1
  None = None
SPECIFICATION Spec
SYMMETRY Symmetry
INVARIANT TypeOK
INVARIANT NoPlaceLost
INVARIANT OnlyConfirmedDeletes
PROPERTY KeepsLedger
