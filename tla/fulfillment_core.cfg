SPECIFICATION Spec
CONSTANTS
  q1 = q1
  q2 = q2
  w1 = w1
  w2 = w2
  r1 = r1
  r2 = r2
  NoQuote = NoQuote
  Quotes = {q1, q2}
  Warehouses = {w1, w2}
  Requests = {r1, r2}
  MaxRevisions = 1
  MaxWanted = 2
  MaxStock = 2
SYMMETRY Symmetry
INVARIANTS
  ReservedIsAllocated
  StockCoversReservations
  OrderIsComplete
  InvoicedOnce
PROPERTY
  PromisesKept
