CONSTANTS
  Users = {u1, u2}
  Names = {n1,n2}
  Tasks = {t1,t2}
  MaxChanges = 3
  MaxSaves = 1
  MaxPictures = 1
  MaxFaults = 1
  NoName = NoName
  None = None
SPECIFICATION Spec
SYMMETRY Symmetry
INVARIANT TypeOK
INVARIANT NameLeadsToOwner
INVARIANT NameIsInUse
INVARIANT UndisturbedUnique
CHECK_DEADLOCK FALSE
