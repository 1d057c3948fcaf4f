CONSTANTS
  Invites = {i1, i2}
  Sent = {i1}
  Calls = {c1, c2}
  MaxLoads = 3
  NoInvite = NoInvite
SPECIFICATION Spec
INVARIANT TypeOK
INVARIANT NeverStuck
PROPERTY InboxSettles
CHECK_DEADLOCK FALSE
