SPECIFICATION TierSpec
CONSTANTS
  Invoices = {i1, i2, i3}
  AmountDue <- MCAmountDue
  QualifySpend <- MCQualifySpend
  QualifyOrders <- MCQualifyOrders
SYMMETRY Interchangeable
INVARIANTS
  TierKeepsUp
PROPERTIES
  OverrideIsNotUndone
