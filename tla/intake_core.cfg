SPECIFICATION Spec
CONSTANTS
  Reps = {u1, u2}
  NoRep = NoRep
  Requests = {q1, q2}
  NoRequest = NoRequest
  Tabs = {t1}
  MaxQuotes = 2
SYMMETRY Interchangeable
INVARIANTS
  AssignedToSomebody
  ConvertedOnce
  OwnerIsAssignee
\* The last representative may be deleted; provisioning accounts is not modelled.
CHECK_DEADLOCK FALSE
