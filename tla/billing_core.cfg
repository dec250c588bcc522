SPECIFICATION Spec
CONSTANTS
  r1 = r1
  r2 = r2
  r3 = r3
  n1 = n1
  n2 = n2
  NoNote = NoNote
  Requests = {r1, r2, r3}
  Notes = {n1, n2}
  Due = 3
  Amounts = {1, 2, 3}
SYMMETRY Symmetry
INVARIANTS
  PaidIsReceived
  PaidWithinDue
  SettledIsCovered
  AppliedIsSumOfNotes
PROPERTIES
  NoMoneyAfterClose
  SettledIsFinal
