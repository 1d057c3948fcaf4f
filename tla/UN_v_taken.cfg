CONSTANTS
  Users = {u1, u2}
  Names = {n1}
  Tasks = {t1, t2}
  MaxChanges = 2
  MaxSaves = 0
  MaxPictures = 1
  MaxFaults = 0
  NoName = NoName
  None = None
SPECIFICATION Spec
SYMMETRY Symmetry
INVARIANT NamesAreUnique
CHECK_DEADLOCK FALSE
