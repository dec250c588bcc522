SPECIFICATION Spec
CONSTANTS
  c1 = c1
  s1 = s1
  a1 = a1
  f1 = f1
  Customers = {c1}
  Staff = {s1}
  Approvers = {a1}
  Financiers = {f1}
  HasRecurring = TRUE
  MaxVersion = 2
  MaxLock = 5
INVARIANTS
  TypeOK
  TokenIdentifiesVersion
  DraftHasNoPendingStep
  PendingManagerHasWork
  FinanceStepAfterManager
PROPERTIES
  AcceptsSeenTerms
  HandoffSticks
  FinanceDecisionSound
  KeepsPromise
