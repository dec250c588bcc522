SPECIFICATION Spec
CONSTANTS
  r1 = r1
  r2 = r2
  n1 = n1
  n2 = n2
  NoNote = NoNote
  Requests = {r1, r2}
  Notes = {n1, n2}
  Due = 2
  Amounts = {1, 2}
SYMMETRY Symmetry
INVARIANTS
  NeverBelowZeroNet
