CONSTANTS
  Accounts = {a, b}
  Elder = a
  MaxTasks = 2
  MaxLogins = 2
  MaxExtras = 1
  None = None
  Anonymous = Anonymous
SPECIFICATION MCSpec
INVARIANT TypeOK
INVARIANT SessionAgrees
INVARIANT SubscriptionIsOwn
PROPERTY LoginReachesHome
PROPERTY LogoutReachesLogin
CHECK_DEADLOCK FALSE
