SPECIFICATION FairSpec
CONSTANTS
  RepPages = {r1}
  ManagerPages = {m1}
  FinancePages = {}
  MaxLock = 4
  MaxLoads = 1
INVARIANTS
  RevisionsBuildOnShown
PROPERTIES
  FormsComeBack
CHECK_DEADLOCK FALSE
