CONSTANTS
  Users = {u1, u2}
  Lists = {l1}
  Tasks = {t1, t2}
  MaxSends = 1
  MaxCopies = 1
  MaxWrites = 1
  MaxFaults = 1
  None = None
SPECIFICATION Spec
SYMMETRY Symmetry
INVARIANT TypeOK
INVARIANT NoUninvitedAccess
INVARIANT MemberIsContributor
INVARIANT OwnedListReachable
PROPERTY DeletedStaysDeleted
