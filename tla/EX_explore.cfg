CONSTANTS
  Places = {p, q}
  MaxTasks = 2
  MaxExplores = 4
  MaxSaves = 2
  None = None
SPECIFICATION Spec
INVARIANT TypeOK
INVARIANT SeenIsExcluded
INVARIANT DetailsHaveAPlace
PROPERTY ExploreSettles
CHECK_DEADLOCK FALSE
