CONSTANTS
  Lists = {l1, l2}
  MaxTimers = 3
  MaxEvents = 5
  MaxChanges = 1
  None = None
SPECIFICATION Spec
INVARIANT TypeOK
INVARIANT ShowsOpenedList
INVARIANT FilterIsShown
PROPERTY PageSettles
CHECK_DEADLOCK FALSE
