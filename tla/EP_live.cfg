CONSTANTS
  Devices = {d1}
  Places = {p1}
  Tasks = {t1, t2}
  MaxSelected = 2
  MaxSessions = 2
  MaxFaults = 0
  None = None
SPECIFICATION FairSpec
PROPERTY EditSettles
