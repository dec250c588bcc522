SPECIFICATION PolicySpec
CONSTANTS
  Updaters = {u1, u2}
  Limits = {1, 2}
  MaxPolicies = 4
  Base <- MCBase
  Ceiling <- MCCeiling
  Entitlements = {0, 1}
  Requested = {0, 3}
SYMMETRY Interchangeable
INVARIANTS
  RouteFitsLines
PROPERTIES
  PolicyNumbersRise
