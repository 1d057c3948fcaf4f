CONSTANTS
  Lists = {l1, l2}
  Mine = {l1}
  Handlers = {h1, h2}
  MaxReloads = 1
  MaxUpdates = 1
  MaxRefused = 1
  None = None
SPECIFICATION Spec
INVARIANT TypeOK
INVARIANT NotLeftLoading
PROPERTY CardsFollowAccount
PROPERTY AcceptedListIsShown
CHECK_DEADLOCK FALSE
