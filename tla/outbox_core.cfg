SPECIFICATION FairSpec
CONSTANTS
  Conns = {c1, c2}
  Requests = {r1, r2, r3, r4}
  Nesting = {r1, r2}
  Silent = {r3, r4}
  Careless = {r3}
  Plain = {r4}
  Relays = {w1, w2}
  Batch = 2
  MaxFailures = 1
  MaxStops = 1
  Nobody = nobody
INVARIANTS
  AnswersAreTrue
  DispatchedOnceCommitted
PROPERTIES
  RequestsEnd
CHECK_DEADLOCK FALSE
