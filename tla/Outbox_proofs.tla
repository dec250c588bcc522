---------------------------- MODULE Outbox_proofs ----------------------------
(***************************************************************************)
(* Proofs about Outbox, for any pool, requests of each kind, relays and    *)
(* bounds.  And about Setup, for any migrations, migrators, seeding runs   *)
(* and bound.                                                              *)
(***************************************************************************)
EXTENDS Outbox, Setup, Sums, TLAPS

Connection == [by : Requests \cup {Nobody}, open : BOOLEAN, rows : SUBSET Row]

Types ==
  /\ conn \in [Conns -> Connection]
  /\ state \in [Requests -> States]
  /\ relay \in [Relays -> Relaying]

\* A connection's holder is running, and no request holds two.
OneConnection ==
  /\ \A c \in Conns : conn[c].by # Nobody => state[conn[c].by] \in Running
  /\ \A c, d \in Conns : conn[c].by = conn[d].by => c = d \/ conn[c].by = Nobody

\* Uncommitted changes and events of request r, which is at st, on connection k:
\* they are the holder's, after its writes, but for statements of pool.query that
\* were answered already.
RowsFit(k, r, st) ==
  /\ Event(r) \in k.rows <=> k.by = r /\ st = "written" /\ r \notin Silent
  /\ r \notin Plain => (Change(r) \in k.rows <=> k.by = r /\ st = "written")
  /\ r \in Plain => (Change(r) \in k.rows => st = "done")
RowsAreHolders == \A c \in Conns, r \in Requests : RowsFit(conn[c], r, state[r])

\* Statements of pool.query hold no connection; a transaction that is open on an
\* idle connection was left there.
OpenWasLeft ==
  /\ \A r \in Plain : state[r] \notin Running
  /\ \A c \in Conns : conn[c].by = Nobody /\ conn[c].open => LeftOpen

\* What a relay is about to dispatch is committed, what it will mark it has
\* dispatched.
RelaysAreHonest ==
  \A w \in Relays :
    /\ \A r \in relay[w].todo : Event(r) \in durable
    /\ relay[w].sent \subseteq dispatched

IInv ==
  /\ Types
  /\ OneConnection
  /\ RowsAreHolders
  /\ OpenWasLeft
  /\ AnswersAreTrue
  /\ RelaysAreHonest
  /\ DispatchedOnceCommitted

\* AnswersAreTrue for one request.
Truthful(r) ==
  /\ r \notin Silent => (Event(r) \in durable <=> Change(r) \in durable)
  /\ Change(r) \in durable => state[r] = "done"
  /\ state[r] = "done" => Change(r) \in durable \/ (r \in Plain /\ LeftOpen)

-----------------------------------------------------------------------------

\* Rows of different kinds, or of different requests, are different.
LEMMA RowFacts ==
  \A r, s \in Requests :
    /\ Change(r) \in Row /\ Event(r) \in Row /\ Published(r) \in Row
    /\ Change(r) # Event(s) /\ Change(r) # Published(s) /\ Event(r) # Published(s)
    /\ Change(r) = Change(s) => r = s
    /\ Event(r) = Event(s) => r = s
    /\ Published(r) = Published(s) => r = s
BY DEF Change, Event, Published, Row

\* A connection that was given back, and a relay at rest.
LEMMA CleanFacts ==
  /\ Clean \in Connection /\ Clean.by = Nobody /\ Clean.rows = {} /\ ~Clean.open
  /\ Resting \in Relaying /\ Resting.todo = {} /\ Resting.sent = {}
BY DEF Clean, Connection, Resting, Relaying

\* The invariant holds initially.
LEMMA InvInit == Init => IInv
<1> SUFFICES ASSUME Init PROVE IInv
  OBVIOUS
<1>1. Types
  BY CleanFacts DEF Init, Types, States
<1>2. OneConnection /\ RowsAreHolders /\ OpenWasLeft
  BY CleanFacts, KindsAssumption
     DEF Init, OneConnection, RowsAreHolders, RowsFit, OpenWasLeft, Running
<1>3. AnswersAreTrue /\ RelaysAreHonest /\ DispatchedOnceCommitted
  BY CleanFacts DEF Init, AnswersAreTrue, RelaysAreHonest, DispatchedOnceCommitted
<1> QED
  BY <1>1, <1>2, <1>3 DEF IInv

\* Steps that change neither rows, connections, requests nor relays.
LEMMA QuietStep ==
  ASSUME IInv, UNCHANGED <<conn, durable, state, relay, dispatched>>
  PROVE  IInv'
BY DEF IInv, Types, OneConnection, RowsAreHolders, RowsFit, OpenWasLeft, LeftOpen, AnswersAreTrue,
       RelaysAreHonest, DispatchedOnceCommitted

-----------------------------------------------------------------------------
(***************************************************************************)
(* Requests.                                                               *)
(***************************************************************************)

\* Connection c becomes k by a step after which request r is at st: the changes
\* and events are those of a holder, and no event is marked.
Becomes(c, k, r, st) ==
  /\ conn[c].by \in {r, Nobody} /\ k.by \in {r, Nobody}
  /\ \A d \in Conns : conn[d].by = r => d = c
  /\ k.by = r <=> st \in Running
  /\ k.by = Nobody /\ k.open => st = "empty"
  /\ \A q \in Requests :
       /\ Published(q) \in k.rows => Published(q) \in conn[c].rows
       /\ Event(q) \in k.rows <=> q = r /\ st = "written" /\ q \notin Silent
       /\ q \notin Plain => (Change(q) \in k.rows <=> q = r /\ st = "written")
       /\ q \in Plain => (Change(q) \in k.rows => Change(q) \in conn[c].rows)

\* A request's step on its connection, which commits nothing.
LEMMA ConnectionStep ==
  ASSUME IInv, NEW r \in Requests \ Plain,
         NEW c \in Conns, NEW k \in Connection, NEW st \in States,
         conn' = [conn EXCEPT ![c] = k], state' = [state EXCEPT ![r] = st],
         UNCHANGED <<durable, relay, dispatched>>,
         Becomes(c, k, r, st), state[r] \notin {"done", "empty"}, st # "done"
  PROVE  IInv'
<1>1. /\ \A d \in Conns : conn'[d] = IF d = c THEN k ELSE conn[d]
      /\ \A q \in Requests : state'[q] = IF q = r THEN st ELSE state[q]
      /\ r # Nobody
  BY NobodyAssumption DEF IInv, Types
<1>2. Types'
  BY DEF IInv, Types
<1>3. \A d \in Conns : conn[d].by \in Requests \cup {Nobody}
  BY DEF IInv, Types, Connection
<1>4. OneConnection'
  BY <1>1, <1>3 DEF IInv, OneConnection, Becomes
<1>5. RowsAreHolders'
  <2> SUFFICES ASSUME NEW d \in Conns, NEW q \in Requests
               PROVE  RowsFit(conn'[d], q, state'[q])
    BY DEF RowsAreHolders, RowsFit, Change, Event
  <2>1. RowsFit(conn[d], q, state[q])
    BY DEF IInv, RowsAreHolders
  <2>2. CASE d = c
    BY <1>1, <2>1, <2>2, NobodyAssumption DEF Running, Becomes, RowsFit
  <2>3. CASE d # c
    BY <1>1, <2>1, <2>3 DEF Becomes, RowsFit
  <2> QED
    BY <2>2, <2>3
<1>6. LeftOpen => LeftOpen'
  BY <1>1 DEF LeftOpen
<1>7. OpenWasLeft'
  <2>1. st = "empty" => LeftOpen'
    BY <1>1 DEF LeftOpen
  <2> QED
    BY <1>1, <1>6, <2>1, KindsAssumption DEF IInv, OpenWasLeft, Becomes
<1>8. AnswersAreTrue'
  BY <1>1, <1>6 DEF IInv, AnswersAreTrue, Change, Event
<1>9. RelaysAreHonest'
  BY DEF IInv, RelaysAreHonest, Event
<1>10. DispatchedOnceCommitted'
  BY <1>1 DEF IInv, DispatchedOnceCommitted, Becomes, Event, Published
<1> QED
  BY <1>2, <1>4, <1>5, <1>9, <1>10, <1>7, <1>8 DEF IInv

\* pool.connect and BEGIN.
LEMMA BeginKeeps ==
  ASSUME IInv, NEW r \in Requests, Begin(r)
  PROVE  IInv'
<1>1. PICK c \in Idle : conn' = [conn EXCEPT ![c].by = r, ![c].open = TRUE]
  BY DEF Begin
<1> DEFINE k == [conn[c] EXCEPT !.by = r, !.open = TRUE]
<1>2. c \in Conns /\ conn[c].by = Nobody /\ conn[c] \in Connection
  BY DEF Idle, IInv, Types
<1>3. conn' = [conn EXCEPT ![c] = k]
  BY <1>1, <1>2 DEF IInv, Types
<1>4. k \in Connection /\ k.by = r /\ k.rows = conn[c].rows
  BY <1>2 DEF Connection
<1> HIDE DEF k
<1>5. /\ state[r] = "new" /\ r \notin Plain /\ state' = [state EXCEPT ![r] = "begun"]
      /\ UNCHANGED <<durable, relay, dispatched>>
  BY DEF Begin
<1>6. \A d \in Conns : conn[d].by # r
  BY <1>5, NobodyAssumption DEF IInv, OneConnection, Running
<1>7. \A q \in Requests : /\ Event(q) \notin k.rows
                          /\ q \notin Plain => Change(q) \notin k.rows
  BY <1>2, <1>4, NobodyAssumption DEF IInv, RowsAreHolders, RowsFit
<1>8. "begun" \in States /\ "begun" \in Running
  BY DEF States, Running
<1>9. Becomes(c, k, r, "begun")
  BY <1>2, <1>4, <1>6, <1>7, <1>8, NobodyAssumption DEF Becomes
<1> QED
  BY <1>2, <1>3, <1>4, <1>5, <1>8, <1>9, ConnectionStep

\* A query of the pool while a connection is held.
LEMMA QueryKeeps ==
  ASSUME IInv, NEW r \in Requests, QueryPool(r)
  PROVE  IInv'
<1>1. /\ state[r] = "begun" /\ state' = [state EXCEPT ![r] = "nested"]
      /\ UNCHANGED <<conn, durable, relay, dispatched>>
  BY DEF QueryPool
<1>2. \A q \in Requests : state'[q] = IF q = r THEN "nested" ELSE state[q]
  BY <1>1 DEF IInv, Types
<1>3. Types'
  BY <1>1 DEF IInv, Types, States
<1>4. \A c \in Conns : conn[c].by # Nobody => conn[c].by \in Requests
  BY DEF IInv, Types, Connection
<1>5. OneConnection'
  BY <1>1, <1>2, <1>4 DEF IInv, OneConnection, Running
<1>6. RowsAreHolders'
  <2> SUFFICES ASSUME NEW d \in Conns, NEW q \in Requests
               PROVE  RowsFit(conn[d], q, state'[q])
    BY <1>1 DEF RowsAreHolders, RowsFit, Change, Event
  <2>1. RowsFit(conn[d], q, state[q])
    BY DEF IInv, RowsAreHolders
  <2> QED
    BY <1>1, <1>2, <2>1 DEF RowsFit
<1>7. LeftOpen => LeftOpen'
  BY <1>1, <1>2 DEF LeftOpen
<1>8. OpenWasLeft'
  <2>1. r \notin Plain
    BY KindsAssumption DEF QueryPool
  <2> QED
    BY <1>1, <1>2, <1>7, <2>1, KindsAssumption DEF IInv, OpenWasLeft
<1>9. AnswersAreTrue'
  <2>1. \A q \in Requests : state'[q] = "done" <=> state[q] = "done"
    BY <1>1, <1>2
  <2> QED
    BY <1>1, <1>7, <2>1 DEF IInv, AnswersAreTrue, Change, Event
<1>10. RelaysAreHonest' /\ DispatchedOnceCommitted'
  BY <1>1, <1>2 DEF IInv, RelaysAreHonest, DispatchedOnceCommitted, Event, Published
<1> QED
  BY <1>3, <1>5, <1>6, <1>8, <1>9, <1>10 DEF IInv

\* The change and its event, on the request's connection.
LEMMA WriteKeeps ==
  ASSUME IInv, NEW r \in Requests, Write(r)
  PROVE  IInv'
<1>1. PICK c \in Conns : /\ Holds(r, c)
                         /\ conn' = [conn EXCEPT ![c].rows = @ \cup Rows(r)]
  BY DEF Write
<1> DEFINE k == [conn[c] EXCEPT !.rows = conn[c].rows \cup Rows(r)]
<1>2. conn[c].by = r /\ conn[c] \in Connection /\ r # Nobody
  BY <1>1, NobodyAssumption DEF Holds, IInv, Types
<1>3. conn' = [conn EXCEPT ![c] = k]
  BY <1>1 DEF IInv, Types
<1>4. /\ Rows(r) \subseteq Row
      /\ \A q \in Requests : /\ Change(q) \in Rows(r) <=> q = r
                             /\ Event(q) \in Rows(r) <=> q = r /\ q \notin Silent
                             /\ Published(q) \notin Rows(r)
  BY RowFacts DEF Rows
<1>5. k \in Connection /\ k.by = r /\ k.rows = conn[c].rows \cup Rows(r)
  BY <1>4, <1>2 DEF Connection
<1> HIDE DEF k
<1>6. /\ state[r] \in {"begun", "nested"} /\ state' = [state EXCEPT ![r] = "written"]
      /\ UNCHANGED <<durable, relay, dispatched>>
  BY DEF Write, MayWrite
<1>7. \A d \in Conns : conn[d].by = r => d = c
  BY <1>2 DEF IInv, OneConnection
<1>8. \A q \in Requests :
        /\ Event(q) \notin conn[c].rows
        /\ q \notin Plain => Change(q) \notin conn[c].rows
  BY <1>2, <1>6 DEF IInv, RowsAreHolders, RowsFit
<1>9. r \notin Plain
  BY <1>6 DEF IInv, OpenWasLeft, Running
<1>10. "written" \in States /\ "written" \in Running
  BY DEF States, Running
<1>11. Becomes(c, k, r, "written")
  BY <1>4, <1>2, <1>5, <1>7, <1>8, <1>9, <1>10 DEF Becomes
<1> QED
  BY <1>3, <1>5, <1>6, <1>9, <1>10, <1>11, ConnectionStep

\* ROLLBACK gives back a clean connection.
LEMMA RollbackKeeps ==
  ASSUME IInv, NEW r \in Requests, Rollback(r)
  PROVE  IInv'
<1>1. PICK c \in Conns : Holds(r, c) /\ conn' = [conn EXCEPT ![c] = Clean]
  BY DEF Rollback
<1>2. conn[c].by = r /\ r # Nobody
  BY <1>1, NobodyAssumption DEF Holds
<1>3. /\ state[r] \in Running /\ state' = [state EXCEPT ![r] = "failed"]
      /\ UNCHANGED <<durable, relay, dispatched>>
  BY DEF Rollback
<1>4. \A d \in Conns : conn[d].by = r => d = c
  BY <1>2 DEF IInv, OneConnection
<1>5. /\ "failed" \in States /\ "failed" \notin Running
      /\ "done" \notin Running /\ "empty" \notin Running
  BY DEF States, Running
<1>6. r \notin Plain
  BY <1>3 DEF IInv, OpenWasLeft
<1>7. Becomes(c, Clean, r, "failed")
  BY <1>2, <1>4, <1>5, CleanFacts DEF Becomes
<1> QED
  BY <1>1, <1>3, <1>5, <1>6, <1>7, CleanFacts, ConnectionStep

\* An early return gives the connection back with its transaction open.
LEMMA ReturnKeeps ==
  ASSUME IInv, NEW r \in Requests, ReturnEarly(r)
  PROVE  IInv'
<1>1. PICK c \in Conns : Holds(r, c) /\ conn' = [conn EXCEPT ![c].by = Nobody]
  BY DEF ReturnEarly
<1> DEFINE k == [conn[c] EXCEPT !.by = Nobody]
<1>2. conn[c].by = r /\ r # Nobody /\ conn[c] \in Connection
  BY <1>1, NobodyAssumption DEF Holds, IInv, Types
<1>3. conn' = [conn EXCEPT ![c] = k]
  BY <1>1 DEF IInv, Types
<1>4. k \in Connection /\ k.by = Nobody /\ k.rows = conn[c].rows
  BY <1>2 DEF Connection
<1> HIDE DEF k
<1>5. /\ state[r] = "begun" /\ r \notin Plain /\ state' = [state EXCEPT ![r] = "empty"]
      /\ UNCHANGED <<durable, relay, dispatched>>
  BY KindsAssumption DEF ReturnEarly, FindsNothing
<1>6. \A d \in Conns : conn[d].by = r => d = c
  BY <1>2 DEF IInv, OneConnection
<1>7. \A q \in Requests : /\ Event(q) \notin k.rows
                          /\ q \notin Plain => Change(q) \notin k.rows
  BY <1>2, <1>4, <1>5 DEF IInv, RowsAreHolders, RowsFit
<1>8. "empty" \in States /\ "empty" \notin Running
  BY DEF States, Running
<1>9. Becomes(c, k, r, "empty")
  BY <1>2, <1>4, <1>6, <1>7, <1>8 DEF Becomes
<1> QED
  BY <1>3, <1>4, <1>5, <1>8, <1>9, ConnectionStep

\* COMMIT: the rows on the connection are the request's change and event, and
\* marks of events that were dispatched.
LEMMA CommitKeeps ==
  ASSUME IInv, NEW r \in Requests, Commit(r)
  PROVE  IInv'
<1>1. PICK c \in Conns : /\ Holds(r, c)
                         /\ durable' = durable \cup conn[c].rows
                         /\ conn' = [conn EXCEPT ![c] = Clean]
  BY DEF Commit
<1>2. /\ state[r] = "written" /\ state' = [state EXCEPT ![r] = "done"]
      /\ UNCHANGED <<relay, dispatched>>
  BY DEF Commit
<1>3. conn[c].by = r /\ r # Nobody
  BY <1>1, NobodyAssumption DEF Holds
<1>4. /\ \A d \in Conns : conn'[d] = IF d = c THEN Clean ELSE conn[d]
      /\ \A q \in Requests : state'[q] = IF q = r THEN "done" ELSE state[q]
  BY <1>1, <1>2 DEF IInv, Types
<1>5. /\ r \notin Plain
      /\ \A q \in Requests :
           /\ Event(q) \in conn[c].rows <=> q = r /\ q \notin Silent
           /\ q \notin Plain => (Change(q) \in conn[c].rows <=> q = r)
           /\ q \in Plain => (Change(q) \in conn[c].rows => state[q] = "done")
  BY <1>2, <1>3 DEF IInv, RowsAreHolders, RowsFit, OpenWasLeft, Running
<1>6. Types'
  BY <1>1, <1>2, CleanFacts DEF IInv, Types, States
<1>7. OneConnection'
  <2>1. \A d \in Conns : conn[d].by \in Requests \cup {Nobody}
    BY DEF IInv, Types, Connection
  <2> QED
    BY <1>3, <1>4, <2>1, CleanFacts DEF IInv, OneConnection
<1>8. RowsAreHolders'
  <2> SUFFICES ASSUME NEW d \in Conns, NEW q \in Requests
               PROVE  RowsFit(conn'[d], q, state'[q])
    BY DEF RowsAreHolders, RowsFit, Change, Event
  <2>1. CASE d = c
    BY <1>4, <2>1, CleanFacts, NobodyAssumption DEF RowsFit
  <2>2. CASE d # c
    <3>1. conn[d].by # r
      BY <1>3, <2>2 DEF IInv, OneConnection
    <3>2. RowsFit(conn[d], q, state[q])
      BY DEF IInv, RowsAreHolders
    <3> QED
      BY <1>4, <2>2, <3>1, <3>2 DEF RowsFit
  <2> QED
    BY <2>1, <2>2
<1>9. LeftOpen => LeftOpen'
  BY <1>2, <1>4 DEF LeftOpen
<1>10. OpenWasLeft'
  BY <1>4, <1>5, <1>9, CleanFacts, KindsAssumption DEF IInv, OpenWasLeft, Running
<1>11. AnswersAreTrue'
  <2> SUFFICES ASSUME NEW q \in Requests
               PROVE  /\ q \notin Silent => (Event(q) \in durable' <=> Change(q) \in durable')
                      /\ Change(q) \in durable' => state'[q] = "done"
                      /\ state'[q] = "done" =>
                           Change(q) \in durable' \/ (q \in Plain /\ LeftOpen')
    BY DEF AnswersAreTrue, Change, Event
  <2>1. q \in Plain => q \in Silent
    BY KindsAssumption
  <2> QED
    BY <1>1, <1>4, <1>5, <1>9, <2>1 DEF IInv, AnswersAreTrue
<1>12. RelaysAreHonest'
  <2>1. \A w \in Relays : relay[w].todo \subseteq Requests
    BY DEF IInv, Types, Relaying
  <2> QED
    BY <1>1, <1>2, <2>1 DEF IInv, RelaysAreHonest, Event
<1>13. DispatchedOnceCommitted'
  BY <1>1, <1>2, <1>4, CleanFacts DEF IInv, DispatchedOnceCommitted, Event, Published
<1> QED
  BY <1>6, <1>7, <1>8, <1>12, <1>13, <1>10, <1>11 DEF IInv

\* A connection is closed, a statement fails, or the process stops: requests,
\* open transactions and what the relays know are lost, nothing is gained.
LEMMA LossStep ==
  ASSUME IInv, UNCHANGED <<durable, dispatched>>,
         conn' = [c \in Conns |-> conn'[c]],
         \A c \in Conns : conn'[c] = conn[c] \/ conn'[c] = Clean,
         state' \in [Requests -> States],
         \A r \in Requests : \/ state'[r] = state[r]
                             \/ /\ state[r] \in Running \cup {"new"}
                                /\ state'[r] = "failed",
         \A c \in Conns : conn'[c] = conn[c] /\ conn[c].by # Nobody =>
                            state'[conn[c].by] = state[conn[c].by],
         \A c \in Conns : conn'[c] # conn[c] =>
                            conn[c].by = Nobody \/ state'[conn[c].by] = "failed",
         relay' = [w \in Relays |-> relay'[w]],
         \A w \in Relays : relay'[w] = relay[w] \/ relay'[w] = Resting
  PROVE  IInv'
<1>1. Types'
  BY CleanFacts DEF IInv, Types
<1>2. \A c \in Conns : conn[c].by \in Requests \cup {Nobody}
  BY DEF IInv, Types, Connection
<1>3. OneConnection'
  BY <1>2, CleanFacts DEF IInv, OneConnection
<1>4. RowsAreHolders'
  <2> SUFFICES ASSUME NEW d \in Conns, NEW q \in Requests
               PROVE  RowsFit(conn'[d], q, state'[q])
    BY DEF RowsAreHolders, RowsFit, Change, Event
  <2>1. RowsFit(conn[d], q, state[q])
    BY DEF IInv, RowsAreHolders
  <2>2. CASE conn'[d] = conn[d]
    BY <2>1, <2>2, NobodyAssumption DEF RowsFit, Running
  <2>3. CASE conn'[d] = Clean
    BY <2>3, CleanFacts, NobodyAssumption DEF RowsFit
  <2> QED
    BY <2>2, <2>3
<1>5. LeftOpen => LeftOpen'
  BY DEF LeftOpen, Running
<1>6. OpenWasLeft'
  BY <1>5, CleanFacts, KindsAssumption DEF IInv, OpenWasLeft, Running
<1>7. AnswersAreTrue'
  <2>1. \A q \in Requests : state'[q] = "done" <=> state[q] = "done"
    BY DEF Running
  <2> QED
    BY <1>5, <2>1 DEF IInv, AnswersAreTrue, Change, Event
<1>8. RelaysAreHonest'
  BY CleanFacts DEF IInv, RelaysAreHonest, Event
<1>9. DispatchedOnceCommitted'
  BY CleanFacts DEF IInv, DispatchedOnceCommitted, Event, Published
<1> QED
  BY <1>1, <1>3, <1>4, <1>8, <1>9, <1>6, <1>7 DEF IInv

\* A statement of pool.query fails.
LEMMA FailKeeps ==
  ASSUME IInv, NEW r \in Requests, FailPlainly(r)
  PROVE  IInv'
<1>1. /\ state[r] = "new" /\ state' = [state EXCEPT ![r] = "failed"]
      /\ UNCHANGED <<conn, durable, relay, dispatched>>
  BY DEF FailPlainly
<1>2. /\ state' \in [Requests -> States]
      /\ \A q \in Requests : state'[q] = IF q = r THEN "failed" ELSE state[q]
  BY <1>1 DEF IInv, Types, States
<1>3. \A c \in Conns : conn[c].by # Nobody => conn[c].by \in Requests /\ conn[c].by # r
  BY <1>1 DEF IInv, Types, Connection, OneConnection, Running
<1>4. /\ conn' = [c \in Conns |-> conn'[c]]
      /\ relay' = [w \in Relays |-> relay'[w]]
  BY <1>1 DEF IInv, Types
<1> QED
  BY <1>1, <1>2, <1>3, <1>4, LossStep

\* The pool closes an idle connection.
LEMMA CloseKeeps ==
  ASSUME IInv, NEW c \in Conns, CloseIdle(c)
  PROVE  IInv'
<1>1. /\ conn[c].by = Nobody /\ conn' = [conn EXCEPT ![c] = Clean]
      /\ UNCHANGED <<durable, state, relay, dispatched>>
  BY DEF CloseIdle, Idle
<1>2. /\ conn' = [d \in Conns |-> conn'[d]]
      /\ \A d \in Conns : conn'[d] = IF d = c THEN Clean ELSE conn[d]
      /\ state' \in [Requests -> States]
      /\ relay' = [w \in Relays |-> relay'[w]]
  BY <1>1 DEF IInv, Types
<1> QED
  BY <1>1, <1>2, LossStep

\* The process stops.
LEMMA StopKeeps ==
  ASSUME IInv, Stop
  PROVE  IInv'
<1>1. /\ conn' = [c \in Conns |-> Clean]
      /\ state' = [r \in Requests |-> IF state[r] \in Running THEN "failed" ELSE state[r]]
      /\ relay' = [w \in Relays |-> Resting]
      /\ UNCHANGED <<durable, dispatched>>
  BY DEF Stop
<1>2. /\ state' \in [Requests -> States]
      /\ \A r \in Requests : state'[r] = IF state[r] \in Running THEN "failed" ELSE state[r]
  BY <1>1 DEF IInv, Types, States
<1>3. \A c \in Conns : conn[c].by # Nobody => state'[conn[c].by] = "failed"
  BY <1>2 DEF IInv, OneConnection, Types, Connection
<1>4. \A c \in Conns : conn'[c] = conn[c] => conn[c].by = Nobody
  BY <1>1, CleanFacts
<1>5. /\ conn' = [c \in Conns |-> conn'[c]]
      /\ \A c \in Conns : conn'[c] = Clean
      /\ relay' = [w \in Relays |-> relay'[w]]
      /\ \A w \in Relays : relay'[w] = Resting
  BY <1>1
<1> QED
  BY <1>1, <1>2, <1>3, <1>4, <1>5, LossStep

\* pool.query writes marks of events that were dispatched, or the change of a
\* request that it answers as done: committed, or left in the transaction that is
\* open on the connection.
LEMMA AutocommitKeeps ==
  ASSUME IInv, NEW wrote \in SUBSET Row, Autocommit(wrote),
         UNCHANGED dispatched, state' \in [Requests -> States],
         relay' = [w \in Relays |-> relay'[w]],
         \A w \in Relays : relay'[w] = relay[w] \/ relay'[w] = Resting,
         \A q \in Requests :
           /\ Event(q) \notin wrote
           /\ Published(q) \in wrote => q \in dispatched
           /\ \/ state'[q] = state[q] /\ Change(q) \notin wrote
              \/ /\ q \in Plain /\ state[q] = "new" /\ state'[q] = "done"
                 /\ Change(q) \in wrote
  PROVE  IInv'
<1>1. LeftOpen => LeftOpen'
  BY DEF LeftOpen
<1>2. \A w \in Relays : relay'[w] \in Relaying
  BY CleanFacts DEF IInv, Types
<1>3. \A c \in Conns : conn[c].by \in Requests \cup {Nobody}
  BY DEF IInv, Types, Connection
<1>4. \A q \in Requests : state'[q] \in Running <=> state[q] \in Running
  BY DEF Running
<1>5. durable' = durable \/ durable' = durable \cup wrote
  BY DEF Autocommit
<1>6. RelaysAreHonest'
  BY <1>5, CleanFacts DEF IInv, RelaysAreHonest, Event
<1>7. CASE durable' = durable \cup wrote /\ UNCHANGED conn
  <2>1. Types' /\ OneConnection'
    BY <1>2, <1>3, <1>4, <1>7 DEF IInv, Types, OneConnection
  <2>2. RowsAreHolders'
    <3> SUFFICES ASSUME NEW d \in Conns, NEW q \in Requests
                 PROVE  RowsFit(conn[d], q, state'[q])
      BY <1>7 DEF RowsAreHolders, RowsFit, Change, Event
    <3>1. RowsFit(conn[d], q, state[q])
      BY DEF IInv, RowsAreHolders
    <3>2. q \in Plain => q \in Silent
      BY KindsAssumption
    <3> QED
      BY <3>1, <3>2 DEF RowsFit
  <2>3. OpenWasLeft'
    BY <1>1, <1>4, <1>7, KindsAssumption DEF IInv, OpenWasLeft
  <2>4. AnswersAreTrue'
    <3> SUFFICES ASSUME NEW q \in Requests PROVE Truthful(q)'
      BY DEF AnswersAreTrue, Truthful, Change, Event
    <3>1. Truthful(q)
      BY DEF IInv, AnswersAreTrue, Truthful
    <3>2. q \in Plain => q \in Silent
      BY KindsAssumption
    <3> QED
      BY <1>1, <1>7, <3>1, <3>2 DEF Truthful, Change, Event
  <2>5. DispatchedOnceCommitted'
    BY <1>7 DEF IInv, DispatchedOnceCommitted, Event, Published
  <2> QED
    BY <1>6, <2>1, <2>2, <2>3, <2>4, <2>5 DEF IInv
<1>8. ASSUME NEW c \in Idle, conn[c].open, UNCHANGED durable,
             conn' = [conn EXCEPT ![c].rows = @ \cup wrote]
      PROVE  IInv'
  <2> DEFINE k == [conn[c] EXCEPT !.rows = conn[c].rows \cup wrote]
  <2>1. c \in Conns /\ conn[c] \in Connection /\ conn[c].by = Nobody
    BY DEF Idle, IInv, Types
  <2>2. /\ k \in Connection /\ k.by = conn[c].by /\ k.open = conn[c].open
        /\ k.rows = conn[c].rows \cup wrote
    BY <2>1 DEF Connection
  <2>3. conn' = [conn EXCEPT ![c] = k]
    BY <1>8
  <2> HIDE DEF k
  <2>4. \A d \in Conns : conn'[d] = IF d = c THEN k ELSE conn[d]
    BY <2>3 DEF IInv, Types
  <2>5. Types'
    BY <1>2, <2>2, <2>3 DEF IInv, Types
  <2>6. OneConnection'
    BY <1>3, <1>4, <2>2, <2>4 DEF IInv, OneConnection
  <2>7. RowsAreHolders'
    <3> SUFFICES ASSUME NEW d \in Conns, NEW q \in Requests
                 PROVE  RowsFit(conn'[d], q, state'[q])
      BY DEF RowsAreHolders, RowsFit, Change, Event
    <3>1. RowsFit(conn[d], q, state[q])
      BY DEF IInv, RowsAreHolders
    <3>2. q \in Plain => q \in Silent
      BY KindsAssumption
    <3>3. /\ conn'[d].by = conn[d].by
          /\ conn'[d].rows = conn[d].rows \/ conn'[d].rows = conn[d].rows \cup wrote
      BY <2>2, <2>4
    <3> QED
      BY <3>1, <3>2, <3>3 DEF RowsFit
  <2>8. LeftOpen
    BY <1>8, <2>1 DEF IInv, OpenWasLeft
  <2>9. OpenWasLeft'
    BY <1>1, <1>4, <2>8, KindsAssumption DEF IInv, OpenWasLeft
  <2>10. AnswersAreTrue'
    <3> SUFFICES ASSUME NEW q \in Requests PROVE Truthful(q)'
      BY DEF AnswersAreTrue, Truthful, Change, Event
    <3>1. Truthful(q)
      BY DEF IInv, AnswersAreTrue, Truthful
    <3> QED
      BY <1>1, <1>8, <2>8, <3>1 DEF Truthful, Change, Event
  <2>11. DispatchedOnceCommitted'
    <3>1. \A q \in Requests, d \in Conns :
            Published(q) \in conn'[d].rows => Published(q) \in conn[d].rows \cup wrote
      BY <2>2, <2>4
    <3>2. \A q \in Requests, d \in Conns :
            Published(q) \in conn'[d].rows => q \in dispatched
      BY <3>1 DEF IInv, DispatchedOnceCommitted
    <3>3. /\ \A q \in dispatched : Event(q) \in durable
          /\ \A q \in Requests : Published(q) \in durable => q \in dispatched
      BY DEF IInv, DispatchedOnceCommitted
    <3> QED
      BY <1>8, <3>2, <3>3 DEF DispatchedOnceCommitted, Event, Published
  <2> QED
    BY <1>6, <2>5, <2>6, <2>7, <2>9, <2>10, <2>11 DEF IInv
<1> QED
  BY <1>7, <1>8 DEF Autocommit

\* A statement of pool.query.
LEMMA WritePlainlyKeeps ==
  ASSUME IInv, NEW r \in Requests, WritePlainly(r)
  PROVE  IInv'
<1>1. /\ r \in Plain /\ state[r] = "new" /\ state' = [state EXCEPT ![r] = "done"]
      /\ Autocommit({Change(r)}) /\ UNCHANGED <<relay, dispatched>>
  BY DEF WritePlainly
<1> DEFINE wrote == {Change(r)}
<1>2. /\ wrote \in SUBSET Row
      /\ \A q \in Requests : /\ Event(q) \notin wrote /\ Published(q) \notin wrote
                             /\ Change(q) \in wrote <=> q = r
  BY RowFacts
<1> HIDE DEF wrote
<1>3. /\ state' \in [Requests -> States]
      /\ \A q \in Requests : state'[q] = IF q = r THEN "done" ELSE state[q]
  BY <1>1 DEF IInv, Types, States
<1>4. relay' = [w \in Relays |-> relay'[w]]
  BY <1>1 DEF IInv, Types
<1>5. Autocommit(wrote)
  BY <1>1 DEF wrote
<1> QED
  BY <1>1, <1>2, <1>3, <1>4, <1>5, AutocommitKeeps

-----------------------------------------------------------------------------
(***************************************************************************)
(* The relay.                                                              *)
(***************************************************************************)

\* A step of one relay that writes no row.
LEMMA RelayStep ==
  ASSUME IInv, NEW w \in Relays, NEW x \in Relaying, relay' = [relay EXCEPT ![w] = x],
         UNCHANGED <<conn, durable, state>>, dispatched \subseteq dispatched',
         \A r \in dispatched' : Event(r) \in durable,
         \A r \in x.todo : Event(r) \in durable,
         x.sent \subseteq dispatched'
  PROVE  IInv'
<1>1. \A v \in Relays : relay'[v] = IF v = w THEN x ELSE relay[v]
  BY DEF IInv, Types
<1>2. Types' /\ OneConnection' /\ RowsAreHolders' /\ OpenWasLeft' /\ AnswersAreTrue'
  BY DEF IInv, Types, OneConnection, RowsAreHolders, RowsFit, OpenWasLeft, LeftOpen,
         AnswersAreTrue, Change, Event
<1>3. RelaysAreHonest'
  BY <1>1 DEF IInv, RelaysAreHonest, Event
<1>4. DispatchedOnceCommitted'
  BY DEF IInv, DispatchedOnceCommitted, Event, Published
<1> QED
  BY <1>2, <1>3, <1>4 DEF IInv

\* An idle connection shows no uncommitted event.
LEMMA FetchKeeps ==
  ASSUME IInv, NEW w \in Relays, FetchUnpublished(w)
  PROVE  IInv'
<1>1. PICK c \in Idle :
        relay' = [relay EXCEPT ![w] =
          [pc |-> "dispatching", todo |-> Oldest(UnpublishedOn(c)), sent |-> {}]]
  BY DEF FetchUnpublished
<1> DEFINE x == [pc |-> "dispatching", todo |-> Oldest(UnpublishedOn(c)), sent |-> {}]
<1>2. \A r \in Oldest(UnpublishedOn(c)) : r \in Requests /\ Event(r) \in Visible(c)
  BY DEF Oldest, UnpublishedOn
<1>3. \A r \in Requests : Event(r) \notin conn[c].rows
  BY NobodyAssumption DEF Idle, IInv, RowsAreHolders, RowsFit
<1>4. \A r \in x.todo : Event(r) \in durable
  BY <1>2, <1>3 DEF Visible
<1>5. x \in Relaying
  BY <1>2 DEF Relaying
<1>6. UNCHANGED <<conn, durable, state, dispatched>>
  BY DEF FetchUnpublished
<1>7. \A r \in dispatched : Event(r) \in durable
  BY DEF IInv, DispatchedOnceCommitted
<1>8. x.sent = {} /\ relay' = [relay EXCEPT ![w] = x]
  BY <1>1
<1> HIDE DEF x
<1> QED
  BY <1>4, <1>5, <1>6, <1>7, <1>8, RelayStep

\* An event is dispatched.
LEMMA DispatchKeeps ==
  ASSUME IInv, NEW w \in Relays, Dispatch(w)
  PROVE  IInv'
<1>1. PICK r \in Requests : IsNext(w, r) /\ dispatched' = dispatched \cup {r}
                            /\ relay' = Handled(w, r)
  BY DEF Dispatch
<1> DEFINE x == [pc |-> "dispatching", todo |-> relay[w].todo \ {r},
                 sent |-> relay[w].sent \cup {r}]
<1>2. relay' = [relay EXCEPT ![w] = x] /\ UNCHANGED <<conn, durable, state>>
  BY <1>1 DEF Handled, Dispatch
<1>3. x \in Relaying /\ x.todo = relay[w].todo \ {r} /\ x.sent = relay[w].sent \cup {r}
  BY DEF IInv, Types, Relaying
<1> HIDE DEF x
<1>4. Event(r) \in durable
  BY <1>1 DEF IsNext, IInv, RelaysAreHonest
<1>5. /\ \A q \in dispatched' : Event(q) \in durable
      /\ \A q \in x.todo : Event(q) \in durable
      /\ x.sent \subseteq dispatched'
  BY <1>1, <1>3, <1>4 DEF IInv, RelaysAreHonest, DispatchedOnceCommitted
<1> QED
  BY <1>1, <1>2, <1>3, <1>5, RelayStep

\* A dispatch fails.
LEMMA MarkFailedKeeps ==
  ASSUME IInv, NEW w \in Relays, MarkFailed(w)
  PROVE  IInv'
<1>1. PICK r \in Requests : relay' = Skipped(w, r)
  BY DEF MarkFailed
<1> DEFINE x == [pc |-> "dispatching", todo |-> relay[w].todo \ {r}, sent |-> relay[w].sent]
<1>2. relay' = [relay EXCEPT ![w] = x] /\ UNCHANGED <<conn, durable, state, dispatched>>
  BY <1>1 DEF Skipped, MarkFailed
<1>3. x \in Relaying /\ x.todo = relay[w].todo \ {r} /\ x.sent = relay[w].sent
  BY DEF IInv, Types, Relaying
<1> HIDE DEF x
<1>4. /\ \A q \in dispatched' : Event(q) \in durable
      /\ \A q \in x.todo : Event(q) \in durable
      /\ x.sent \subseteq dispatched'
  BY <1>2, <1>3 DEF IInv, RelaysAreHonest, DispatchedOnceCommitted
<1> QED
  BY <1>2, <1>3, <1>4, RelayStep

\* What was dispatched is marked.
LEMMA MarkPublishedKeeps ==
  ASSUME IInv, NEW w \in Relays, MarkPublished(w)
  PROVE  IInv'
<1> DEFINE marks == {Published(r) : r \in relay[w].sent}
<1>1. /\ Autocommit(marks) /\ relay' = [relay EXCEPT ![w] = Resting]
      /\ UNCHANGED <<state, dispatched>>
  BY DEF MarkPublished
<1>2. relay[w].sent \subseteq Requests /\ relay[w].sent \subseteq dispatched
  BY DEF IInv, Types, Relaying, RelaysAreHonest
<1>3. /\ marks \in SUBSET Row
      /\ \A r \in Requests : /\ Change(r) \notin marks /\ Event(r) \notin marks
                             /\ Published(r) \in marks => r \in dispatched
  BY <1>2, RowFacts
<1> HIDE DEF marks
<1>4. /\ state' \in [Requests -> States]
      /\ relay' = [v \in Relays |-> relay'[v]]
      /\ \A v \in Relays : relay'[v] = relay[v] \/ relay'[v] = Resting
  BY <1>1 DEF IInv, Types
<1> QED
  BY <1>1, <1>3, <1>4, AutocommitKeeps

-----------------------------------------------------------------------------

\* The invariant is kept by every step.
LEMMA InvStep == IInv /\ [Next]_vars => IInv'
<1> SUFFICES ASSUME IInv, [Next]_vars PROVE IInv'
  OBVIOUS
<1>1. ASSUME NEW r \in Requests, RequestNext(r) PROVE IInv'
  BY <1>1, BeginKeeps, QueryKeeps, WriteKeeps, CommitKeeps, RollbackKeeps, ReturnKeeps,
     WritePlainlyKeeps, FailKeeps DEF RequestNext
<1>2. ASSUME NEW w \in Relays, RelayNext(w) PROVE IInv'
  BY <1>2, FetchKeeps, DispatchKeeps, MarkFailedKeeps, MarkPublishedKeeps DEF RelayNext
<1>3. ASSUME NEW c \in Conns, CloseIdle(c) PROVE IInv'
  BY <1>3, CloseKeeps
<1>4. CASE UNCHANGED vars
  BY <1>4, QuietStep DEF vars
<1> QED
  BY <1>1, <1>2, <1>3, <1>4, StopKeeps DEF Next

\* Uncommitted rows belong to the connection's holder; relays dispatch what is
\* committed and mark what they dispatched.
THEOREM Invariant == Spec => []IInv
BY InvInit, InvStep, PTL DEF Spec

\* What was answered as done is durable and nothing else is, with its event when
\* it has one, for any number of requests, connections, stops and early returns;
\* only statements of pool.query may be lost, and only after an early return.
THEOREM CommitsAreWhole == Spec => []AnswersAreTrue
BY Invariant, PTL DEF IInv

\* Only committed events are dispatched, only dispatched ones are marked.
THEOREM NothingInvented == Spec => []DispatchedOnceCommitted
BY Invariant, PTL DEF IInv

-----------------------------------------------------------------------------
(***************************************************************************)
(* Setup: the migrations.                                                  *)
(***************************************************************************)

SchemaTypes ==
  /\ applied \subseteq Migrations
  /\ lock \in Migrators \cup {NoMigrator}
  /\ migrator \in [Migrators -> Migrator]

\* Who works holds the lock, and nobody else applies anything while it does.
LockExcludes == \A m \in Migrators : migrator[m].pc # "idle" => lock = m

\* So what a migrator is to apply stays what is missing.
TodoIsMissing ==
  \A m \in Migrators :
    /\ migrator[m].pc \in {"running", "executed"} => migrator[m].todo = Migrations \ applied
    /\ migrator[m].pc = "executed" => migrator[m].todo # {}

SchemaInv == SchemaTypes /\ LockExcludes /\ TodoIsMissing /\ MigratorsDoNotCollide

\* The first of some files.
LEMMA LeastFacts ==
  ASSUME NEW S \in SUBSET Migrations, S # {}
  PROVE  Least(S) \in S /\ \A y \in S : Least(S) <= y
<1>1. IsFiniteSet(Migrations)
  BY MigrationsAssumption, FS_Interval DEF Migrations
<1>2. IsFiniteSet(S)
  BY <1>1, FS_Subset
<1>3. \A y \in S : y \in Int
  BY DEF Migrations
<1>4. Min(S) \in S /\ \A y \in S : Min(S) <= y
  BY <1>2, <1>3, MinFacts
<1> DEFINE P(x) == x \in S /\ \A y \in S : x <= y
<1>5. \E x : P(x)
  BY <1>4
<1> QED
  BY <1>5 DEF Least

\* Initially nothing is applied.
LEMMA SchemaInit == SetupInit => SchemaInv
BY DEF SetupInit, SchemaInv, SchemaTypes, Migrator, LockExcludes, TodoIsMissing,
   MigratorsDoNotCollide

\* A step of the migrator that has the lock, which applies nothing.
LEMMA MigratorStep ==
  ASSUME SchemaInv, NEW m \in Migrators, NEW p \in Migrator,
         migrator' = [migrator EXCEPT ![m] = p], applied' = applied,
         lock' \in Migrators \cup {NoMigrator}, \A o \in Migrators \ {m} : lock # o,
         p.pc # "idle" => lock' = m,
         p.pc \in {"running", "executed"} => p.todo = Migrations \ applied,
         p.pc = "executed" => p.todo # {},
         p.pc # "failed"
  PROVE  SchemaInv'
<1>1. \A o \in Migrators : migrator'[o] = IF o = m THEN p ELSE migrator[o]
  BY DEF SchemaInv, SchemaTypes
<1>2. \A o \in Migrators \ {m} : migrator[o].pc = "idle"
  BY DEF SchemaInv, LockExcludes
<1>3. SchemaTypes'
  BY DEF SchemaInv, SchemaTypes
<1>4. LockExcludes'
  BY <1>1, <1>2 DEF LockExcludes
<1>5. TodoIsMissing'
  BY <1>1, <1>2 DEF TodoIsMissing
<1>6. MigratorsDoNotCollide'
  BY <1>1, <1>2 DEF SchemaInv, MigratorsDoNotCollide
<1> QED
  BY <1>3, <1>4, <1>5, <1>6 DEF SchemaInv

\* A file is recorded after all before it.
LEMMA RecordKeeps ==
  ASSUME SchemaInv, NEW m \in Migrators, Record(m)
  PROVE  SchemaInv'
<1> DEFINE file == Least(migrator[m].todo)
           p == [pc |-> "running", todo |-> migrator[m].todo \ {file}]
<1>1. /\ migrator[m].todo = Migrations \ applied /\ migrator[m].todo # {}
      /\ lock = m
  BY DEF Record, SchemaInv, TodoIsMissing, LockExcludes
<1>2. file \in Migrations \ applied /\ \A y \in Migrations \ applied : file <= y
  BY <1>1, LeastFacts
<1> HIDE DEF file
<1>3. /\ applied' = applied \cup {file} /\ lock' = lock
      /\ migrator' = [migrator EXCEPT ![m] = p]
  BY <1>2 DEF Record, file, SchemaInv, SchemaTypes
<1>4. \A o \in Migrators : migrator'[o] = IF o = m THEN p ELSE migrator[o]
  BY <1>3 DEF SchemaInv, SchemaTypes
<1>5. \A o \in Migrators \ {m} : migrator[o].pc = "idle"
  BY <1>1 DEF SchemaInv, LockExcludes
<1>6. p \in Migrator /\ p.pc = "running" /\ p.todo = Migrations \ applied'
  BY <1>1, <1>3 DEF Migrator
<1> HIDE DEF p
<1>7. SchemaTypes'
  BY <1>2, <1>3, <1>6 DEF SchemaInv, SchemaTypes
<1>8. LockExcludes' /\ TodoIsMissing'
  BY <1>1, <1>3, <1>4, <1>5, <1>6 DEF LockExcludes, TodoIsMissing
<1>9. \A f \in applied' : 1..f \subseteq applied'
  <2> SUFFICES ASSUME NEW f \in applied', NEW g \in 1..f PROVE g \in applied'
    OBVIOUS
  <2>1. CASE f \in applied
    BY <1>3, <2>1 DEF SchemaInv, MigratorsDoNotCollide
  <2>2. CASE f = file
    <3>1. f \in 1..LastMigration /\ LastMigration \in Nat
      BY <1>2, <2>2, MigrationsAssumption DEF Migrations
    <3>2. g \in Migrations /\ f \in Int /\ g \in Int /\ g <= f
      BY <3>1 DEF Migrations
    <3>3. g \in Migrations \ applied => g = file
      BY <1>2, <2>2, <3>2
    <3> QED
      BY <1>3, <3>2, <3>3
  <2> QED
    BY <1>3, <2>1, <2>2
<1>10. MigratorsDoNotCollide'
  BY <1>4, <1>5, <1>6, <1>9 DEF MigratorsDoNotCollide
<1> QED
  BY <1>7, <1>8, <1>10 DEF SchemaInv

\* The invariant is kept by every step.
LEMMA SchemaStep == SchemaInv /\ [SetupNext]_setupVars => SchemaInv'
<1> SUFFICES ASSUME SchemaInv, [SetupNext]_setupVars PROVE SchemaInv'
  OBVIOUS
<1>1. \A m \in Migrators : migrator[m] \in Migrator
  BY DEF SchemaInv, SchemaTypes
<1>2. CASE UNCHANGED schemaVars
  BY <1>2 DEF schemaVars, SchemaInv, SchemaTypes, LockExcludes, TodoIsMissing,
     MigratorsDoNotCollide
<1>3. ASSUME NEW m \in Migrators, Lock(m) PROVE SchemaInv'
  <2> DEFINE p == [migrator[m] EXCEPT !.pc = "locked"]
  <2>1. migrator' = [migrator EXCEPT ![m] = p] /\ lock' = m /\ applied' = applied
    BY <1>3 DEF Lock, SchemaInv, SchemaTypes
  <2>2. p \in Migrator /\ p.pc = "locked"
    BY <1>1 DEF Migrator
  <2>3. \A o \in Migrators : lock # o
    BY <1>3, NoMigratorAssumption DEF Lock
  <2> HIDE DEF p
  <2> QED
    BY <2>1, <2>2, <2>3, MigratorStep
<1>4. ASSUME NEW m \in Migrators, ReadApplied(m) PROVE SchemaInv'
  <2> DEFINE p == [pc |-> "running", todo |-> Migrations \ applied]
  <2>1. /\ migrator' = [migrator EXCEPT ![m] = p] /\ lock' = lock /\ applied' = applied
        /\ lock = m
    BY <1>4 DEF ReadApplied, SchemaInv, LockExcludes
  <2>2. p \in Migrator /\ p.pc = "running" /\ p.todo = Migrations \ applied
    BY DEF Migrator
  <2> HIDE DEF p
  <2> QED
    BY <2>1, <2>2, MigratorStep
<1>5. ASSUME NEW m \in Migrators, Execute(m) PROVE SchemaInv'
  <2> DEFINE p == [migrator[m] EXCEPT !.pc = "executed"]
  <2>1. lock = m /\ migrator[m].todo = Migrations \ applied /\ migrator[m].todo # {}
    BY <1>5 DEF Execute, SchemaInv, LockExcludes, TodoIsMissing
  <2>2. Least(migrator[m].todo) \notin applied
    BY <2>1, LeastFacts
  <2>3. migrator' = [migrator EXCEPT ![m] = p] /\ lock' = lock /\ applied' = applied
    BY <1>5, <2>2 DEF Execute, SchemaInv, SchemaTypes
  <2>4. p \in Migrator /\ p.pc = "executed" /\ p.todo = migrator[m].todo
    BY <1>1 DEF Migrator
  <2> HIDE DEF p
  <2> QED
    BY <2>1, <2>3, <2>4, MigratorStep
<1>6. ASSUME NEW m \in Migrators, Record(m) PROVE SchemaInv'
  BY <1>6, RecordKeeps
<1>7. ASSUME NEW m \in Migrators, Finish(m) \/ MigratorStops(m) PROVE SchemaInv'
  <2> DEFINE p == [pc |-> "idle", todo |-> {}]
  <2>1. migrator[m].pc # "idle"
    BY <1>7 DEF Finish, MigratorStops
  <2>2. lock = m
    BY <2>1 DEF SchemaInv, LockExcludes
  <2>3. migrator' = [migrator EXCEPT ![m] = p] /\ lock' = NoMigrator /\ applied' = applied
    BY <1>7, <2>2 DEF Finish, MigratorStops, Release
  <2>4. p \in Migrator /\ p.pc = "idle"
    BY DEF Migrator
  <2> HIDE DEF p
  <2> QED
    BY <2>2, <2>3, <2>4, MigratorStep
<1>8. CASE MigratorNext
  BY <1>3, <1>4, <1>5, <1>6, <1>7, <1>8 DEF MigratorNext
<1>9. CASE SeedNext
  BY <1>2, <1>9 DEF SeedNext, BeginSeed, Upsert, InsertMissing, CommitSeed, Commits, SeedStops
<1>10. CASE FullSeedNext
  BY <1>2, <1>10 DEF FullSeedNext, SeedUsers, SeedCustomers, SeedProducts, Upsert,
     InsertMissing, CommitLayer, Commits, FullSeedStops, SeedQuote, QuotesDone,
     SeedNegotiation, SeedOrders, SeedInvoices, SeedSubscriptions, SeedDealHealth, LayerWrites
<1>11. CASE DemoNext
  BY <1>2, <1>11 DEF DemoNext, StartDemo, DemoStops, PlayScene
<1> QED
  BY <1>2, <1>8, <1>9, <1>10, <1>11 DEF SetupNext, setupVars

\* Whoever holds the advisory lock is alone: the files are applied in their
\* order, however many migrators are started and stopped.
THEOREM MigratorsAreSafe == SetupSpec => []MigratorsDoNotCollide
<1>1. SchemaInv => MigratorsDoNotCollide
  BY DEF SchemaInv
<1> QED
  BY <1>1, SchemaInit, SchemaStep, PTL DEF SetupSpec

-----------------------------------------------------------------------------
(***************************************************************************)
(* Setup: the reference rows.                                              *)
(***************************************************************************)

\* What seed.js inserts, and what a transaction still has to write.
BaseRows == {"policy", "customer", "priceList"}
Items(l) == {l[i] : i \in DOMAIN l}

\* The one exception to a row being there once.
Doubled(k) == k = "newCustomer" /\ crossed

ReferenceTypes ==
  /\ rows \in [ReferenceRows -> Nat] /\ present \subseteq Upserted /\ crossed \in BOOLEAN
  /\ seeder \in [Runs -> Seeder] /\ layer \in [FullSeeders -> 0..9]

\* The unique codes come with the rows of seed.js.
CodesMeanRows == "products" \in present => \A k \in BaseRows : rows[k] = 1

\* A table is written by one run at a time, and a run without a transaction has
\* written nothing.
OneHolds ==
  /\ \A s, t \in Runs : \A x \in Upserted :
       x \in seeder[s].holds /\ x \in seeder[t].holds => s = t
  /\ \A s \in Runs : seeder[s].pc = "idle" => seeder[s].holds = {} /\ seeder[s].inserted = {}

\* What a transaction has inserted is still missing.
InsertedAreMissing ==
  \A s \in Runs : \A k \in seeder[s].inserted : rows[k] = 0 \/ Doubled(k)

\* Nobody else is at the customers, unless two runs have been.
OneAtCustomers ==
  ~crossed => \A s, t \in FullSeeders : AtCustomers(s) /\ AtCustomers(t) => s = t

\* seed.js has the accounts before it inserts anything, and will have all its
\* rows when it commits.
SeederWorks(t) ==
  t.pc = "open" =>
    /\ Items(t.left) \subseteq BaseRows \cup Upserted /\ t.inserted \subseteq BaseRows
    /\ \A k \in BaseRows : k \in Items(t.left) \/ k \in t.inserted \/ rows[k] = 1
    /\ (t.left = SeedSteps /\ t.inserted = {}) \/ "accounts" \in t.holds

\* The layers after the first follow seed.js and insert only rows of their own;
\* the third has the products before it inserts anything.
UsersWork(t) ==
  Items(t.left) \subseteq {"accounts"} /\ t.holds \subseteq {"accounts"} /\ t.inserted = {}
CustomersWork(t) ==
  /\ "products" \in present
  /\ Items(t.left) \subseteq {"customer", "newCustomer"} /\ t.holds = {}
  /\ t.inserted \subseteq {"newCustomer"}
ProductsWork(t) ==
  /\ Items(t.left) \subseteq {"products", "priceList", "newPriceList"}
  /\ t.inserted \subseteq {"newPriceList"}
  /\ (t.left = ProductSteps /\ t.inserted = {}) \/ "products" \in t.holds
FullSeederWorks(t, n) ==
  /\ n >= 3 => "products" \in present
  /\ t.pc = "open" => \/ n = 1 /\ UsersWork(t)
                      \/ n = 2 /\ CustomersWork(t)
                      \/ n = 3 /\ ProductsWork(t)

ReferenceInv ==
  /\ ReferenceTypes /\ ReferenceRowsOnce /\ CodesMeanRows /\ OneHolds
  /\ InsertedAreMissing /\ OneAtCustomers
  /\ \A s \in Seeders : SeederWorks(seeder[s])
  /\ \A s \in FullSeeders : FullSeederWorks(seeder[s], layer[s])

-----------------------------------------------------------------------------

\* No transaction.
LEMMA NoTransactionFacts ==
  /\ NoTransaction \in Seeder /\ NoTransaction.pc = "idle"
  /\ NoTransaction.holds = {} /\ NoTransaction.inserted = {}
BY DEF NoTransaction, Seeder

\* The rows of seed.js are reference rows, the tables are none.
LEMMA RowNames ==
  /\ BaseRows \subseteq ReferenceRows /\ ReferenceRows \cap Upserted = {}
  /\ "newCustomer" \notin BaseRows /\ "newPriceList" \notin BaseRows
  /\ "accounts" \in Upserted /\ "products" \in Upserted
  /\ "accounts" \notin ReferenceRows /\ "products" \notin ReferenceRows
BY DEF BaseRows, ReferenceRows, Upserted

\* What the transactions are to write.
LEMMA StepLists ==
  /\ SeedSteps \in Seq(ReferenceRows \cup Upserted)
  /\ Items(SeedSteps) = BaseRows \cup Upserted /\ Head(SeedSteps) = "accounts"
  /\ UserSteps \in Seq(ReferenceRows \cup Upserted) /\ Items(UserSteps) = {"accounts"}
  /\ CustomerSteps \in Seq(ReferenceRows \cup Upserted)
  /\ Items(CustomerSteps) = {"customer", "newCustomer"}
  /\ ProductSteps \in Seq(ReferenceRows \cup Upserted)
  /\ Items(ProductSteps) = {"products", "priceList", "newPriceList"}
  /\ Head(ProductSteps) = "products"
BY DEF SeedSteps, UserSteps, CustomerSteps, ProductSteps, Items, BaseRows, ReferenceRows,
   Upserted

\* The first of some steps and the others.
LEMMA HeadAndTail ==
  ASSUME NEW S, NEW l \in Seq(S), l # <<>>
  PROVE  /\ Head(l) \in S /\ Head(l) \in Items(l) /\ Tail(l) \in Seq(S)
         /\ Items(Tail(l)) \subseteq Items(l)
         /\ \A x \in Items(l) : x = Head(l) \/ x \in Items(Tail(l))
<1> DEFINE rest == Tail(l)
           k == Head(l)
<1>1. k = l[1] /\ rest = Tail(l)
  OBVIOUS
<1> HIDE DEF rest, k
<1>2. /\ Len(l) \in Nat /\ Len(l) >= 1 /\ DOMAIN l = 1..Len(l)
      /\ rest \in Seq(S) /\ DOMAIN rest = 1..(Len(l) - 1)
      /\ \A i \in 1..(Len(l) - 1) : rest[i] = l[i + 1]
  BY <1>1
<1>3. \A i \in DOMAIN l : l[i] \in S
  OBVIOUS
<1>4. ASSUME NEW i \in DOMAIN l, i # 1 PROVE i - 1 \in DOMAIN rest /\ rest[i - 1] = l[i]
  BY <1>2, <1>4
<1>5. ASSUME NEW i \in DOMAIN rest PROVE i + 1 \in DOMAIN l /\ rest[i] = l[i + 1]
  BY <1>2
<1>6. 1 \in DOMAIN l
  BY <1>2
<1>7. k \in S /\ k \in Items(l)
  BY <1>1, <1>3, <1>6 DEF Items
<1>8. ASSUME NEW x \in Items(l), x # k PROVE x \in Items(rest)
  <2>1. PICK i \in DOMAIN l : x = l[i]
    BY DEF Items
  <2>2. i # 1
    BY <1>1, <1>8, <2>1
  <2> QED
    BY <1>4, <2>1, <2>2 DEF Items
<1>9. Items(rest) \subseteq Items(l)
  BY <1>5 DEF Items
<1> QED
  BY <1>2, <1>7, <1>8, <1>9 DEF rest, k

\* Initially there are no rows.
LEMMA ReferenceInit == SetupInit => ReferenceInv
<1> SUFFICES ASSUME SetupInit PROVE ReferenceInv
  OBVIOUS
<1>1. \A s \in Runs : seeder[s] = NoTransaction
  BY DEF SetupInit
<1>2. ReferenceTypes
  <2>1. seeder \in [Runs -> Seeder]
    BY NoTransactionFacts DEF SetupInit
  <2>2. rows \in [ReferenceRows -> Nat] /\ present \subseteq Upserted /\ crossed \in BOOLEAN
    BY DEF SetupInit
  <2>3. layer \in [FullSeeders -> 0..9]
    BY DEF SetupInit
  <2> QED
    BY <2>1, <2>2, <2>3 DEF ReferenceTypes
<1>3. CodesMeanRows /\ ReferenceRowsOnce
  BY DEF SetupInit, CodesMeanRows, ReferenceRowsOnce
<1>4. OneHolds /\ InsertedAreMissing
  BY <1>1, NoTransactionFacts DEF OneHolds, InsertedAreMissing
<1>5. OneAtCustomers
  BY DEF SetupInit, OneAtCustomers, AtCustomers
<1>6. \A s \in Seeders : SeederWorks(seeder[s])
  BY <1>1, NoTransactionFacts DEF Runs, SeederWorks
<1>7. \A s \in FullSeeders : FullSeederWorks(seeder[s], layer[s])
  BY <1>1, NoTransactionFacts DEF SetupInit, Runs, FullSeederWorks
<1> QED
  BY <1>2, <1>3, <1>4, <1>5, <1>6, <1>7 DEF ReferenceInv

\* A step of one run that commits nothing.
LEMMA SeederStep ==
  ASSUME ReferenceInv, NEW s \in Runs, NEW t \in Seeder,
         seeder' = [seeder EXCEPT ![s] = t], UNCHANGED <<rows, present>>,
         crossed' \in BOOLEAN, crossed => crossed',
         layer' \in [FullSeeders -> 0..9], \A o \in FullSeeders \ {s} : layer'[o] = layer[o],
         \A x \in t.holds : \A o \in Runs \ {s} : x \notin seeder[o].holds,
         t.pc = "idle" => t.holds = {} /\ t.inserted = {},
         \A k \in t.inserted : rows[k] = 0 \/ Doubled(k),
         s \in Seeders => SeederWorks(t),
         s \in FullSeeders => FullSeederWorks(t, layer'[s]),
         s \in FullSeeders /\ layer'[s] = 2 /\ t.pc = "open" /\ ~crossed' =>
           \A o \in FullSeeders \ {s} : ~AtCustomers(o)
  PROVE  ReferenceInv'
<1>1. \A o \in Runs : seeder'[o] = IF o = s THEN t ELSE seeder[o]
  BY DEF ReferenceInv, ReferenceTypes
<1>2. \A o \in Seeders \cup FullSeeders : o \in Runs
  BY DEF Runs
<1>3. ReferenceTypes'
  BY DEF ReferenceInv, ReferenceTypes
<1>4. ReferenceRowsOnce' /\ CodesMeanRows'
  BY DEF ReferenceInv, ReferenceRowsOnce, CodesMeanRows
<1>5. OneHolds'
  <2>1. \A a, b \in Runs : \A x \in Upserted :
          x \in seeder'[a].holds /\ x \in seeder'[b].holds => a = b
    BY <1>1 DEF ReferenceInv, OneHolds
  <2>2. \A o \in Runs : seeder'[o].pc = "idle" =>
                          seeder'[o].holds = {} /\ seeder'[o].inserted = {}
    BY <1>1 DEF ReferenceInv, OneHolds
  <2> QED
    BY <2>1, <2>2 DEF OneHolds
<1>6. InsertedAreMissing'
  BY <1>1 DEF ReferenceInv, InsertedAreMissing, Doubled
<1>7. OneAtCustomers'
  <2> SUFFICES ASSUME ~crossed', NEW a \in FullSeeders, NEW b \in FullSeeders,
                      layer'[a] = 2, seeder'[a].pc = "open",
                      layer'[b] = 2, seeder'[b].pc = "open", a # b
               PROVE  FALSE
    BY DEF OneAtCustomers, AtCustomers
  <2>1. CASE a = s
    BY <1>1, <1>2, <2>1 DEF AtCustomers
  <2>2. CASE b = s
    BY <1>1, <1>2, <2>2 DEF AtCustomers
  <2>3. CASE a # s /\ b # s
    BY <1>1, <1>2, <2>3 DEF ReferenceInv, OneAtCustomers, AtCustomers
  <2> QED
    BY <2>1, <2>2, <2>3
<1>8. \A o \in Seeders : SeederWorks(seeder[o])'
  <2> SUFFICES ASSUME NEW o \in Seeders PROVE SeederWorks(seeder[o])'
    OBVIOUS
  <2>1. SeederWorks(seeder'[o])
    BY <1>1, <1>2 DEF ReferenceInv
  <2> QED
    BY <2>1 DEF SeederWorks
<1>9. \A o \in FullSeeders : FullSeederWorks(seeder[o], layer[o])'
  <2> SUFFICES ASSUME NEW o \in FullSeeders PROVE FullSeederWorks(seeder[o], layer[o])'
    OBVIOUS
  <2>1. FullSeederWorks(seeder'[o], layer'[o])
    BY <1>1, <1>2 DEF ReferenceInv
  <2> QED
    BY <2>1 DEF FullSeederWorks, UsersWork, CustomersWork, ProductsWork
<1> QED
  BY <1>3, <1>4, <1>5, <1>6, <1>7, <1>8, <1>9 DEF ReferenceInv

\* A transaction goes on to its next statement.
LEMMA GoesOnStep ==
  ASSUME ReferenceInv, NEW s \in Runs, NEW t \in Seeder,
         seeder[s].pc = "open", t.pc = "open",
         seeder' = [seeder EXCEPT ![s] = t], UNCHANGED <<rows, present, crossed, layer>>,
         \A x \in t.holds : \A o \in Runs \ {s} : x \notin seeder[o].holds,
         \A k \in t.inserted : rows[k] = 0 \/ Doubled(k),
         s \in Seeders => SeederWorks(t),
         s \in FullSeeders => FullSeederWorks(t, layer[s])
  PROVE  ReferenceInv'
<1>1. crossed' \in BOOLEAN /\ layer' \in [FullSeeders -> 0..9]
  BY DEF ReferenceInv, ReferenceTypes
<1>2. s \in FullSeeders /\ layer'[s] = 2 /\ ~crossed' =>
        \A o \in FullSeeders \ {s} : ~AtCustomers(o)
  BY DEF ReferenceInv, OneAtCustomers, AtCustomers
<1> QED
  BY <1>1, <1>2, SeederStep

\* An upsert takes the table for the run.
LEMMA UpsertKeeps ==
  ASSUME ReferenceInv, NEW s \in Runs, Upsert(s)
  PROVE  ReferenceInv'
<1> DEFINE q == seeder[s]
           x == Head(q.left)
           t == [q EXCEPT !.left = Tail(q.left), !.holds = q.holds \cup {x}]
<1>1. q \in Seeder /\ q.pc = "open" /\ q.left # <<>>
      /\ q.left \in Seq(ReferenceRows \cup Upserted)
  BY DEF Upsert, ReferenceInv, ReferenceTypes, Seeder
<1>2. seeder' = [seeder EXCEPT ![s] = t] /\ UNCHANGED <<rows, present, crossed, layer>>
  BY DEF Upsert, businessVars, ReferenceInv, ReferenceTypes
<1>3. x \in Upserted /\ \A o \in Runs \ {s} : x \notin seeder[o].holds
  BY DEF Upsert, Held
<1> DEFINE rest == Tail(q.left)
<1>4. /\ x \in Items(q.left) /\ rest \in Seq(ReferenceRows \cup Upserted)
      /\ Items(rest) \subseteq Items(q.left)
      /\ \A y \in Items(q.left) : y = x \/ y \in Items(rest)
  BY <1>1, HeadAndTail
<1>5. x = Head(q.left)
  OBVIOUS
<1> HIDE DEF x, rest
<1>6. /\ t \in Seeder /\ t.pc = "open" /\ t.holds = q.holds \cup {x}
      /\ t.left = rest /\ t.inserted = q.inserted
  BY <1>1, <1>3, <1>4 DEF Seeder, rest
<1>7. \A y \in t.holds : \A o \in Runs \ {s} : y \notin seeder[o].holds
  BY <1>1, <1>3, <1>6 DEF ReferenceInv, OneHolds, Seeder
<1>8. \A k \in t.inserted : rows[k] = 0 \/ Doubled(k)
  BY <1>6 DEF ReferenceInv, InsertedAreMissing
<1> HIDE DEF t
<1>9. ASSUME s \in Seeders PROVE SeederWorks(t)
  <2>1. SeederWorks(q) /\ q.pc = "open"
    BY <1>1, <1>9 DEF ReferenceInv
  <2>2. "accounts" \in t.holds
    BY <1>5, <1>6, <2>1, StepLists DEF SeederWorks
  <2>3. \A k \in BaseRows : k # x
    BY <1>3, RowNames
  <2> QED
    BY <1>4, <1>6, <2>1, <2>2, <2>3 DEF SeederWorks
<1>10. ASSUME s \in FullSeeders PROVE FullSeederWorks(t, layer[s])
  <2>1. FullSeederWorks(q, layer[s]) /\ q.pc = "open"
    BY <1>1, <1>10 DEF ReferenceInv
  <2>2. CASE layer[s] = 1 /\ UsersWork(q)
    BY <1>4, <1>6, <2>1, <2>2 DEF FullSeederWorks, UsersWork
  <2>3. CASE layer[s] = 2 /\ CustomersWork(q)
    <3>1. x \in {"customer", "newCustomer"}
      BY <1>4, <2>3 DEF CustomersWork
    <3> QED
      BY <1>3, <3>1 DEF Upserted
  <2>4. CASE layer[s] = 3 /\ ProductsWork(q)
    <3>1. "products" \in t.holds
      BY <1>5, <1>6, <2>4, StepLists DEF ProductsWork
    <3>2. ProductsWork(t)
      BY <1>4, <1>6, <2>4, <3>1 DEF ProductsWork
    <3> QED
      BY <1>6, <2>1, <2>4, <3>2 DEF FullSeederWorks
  <2> QED
    BY <2>1, <2>2, <2>3, <2>4 DEF FullSeederWorks
<1> QED
  BY <1>1, <1>2, <1>6, <1>7, <1>8, <1>9, <1>10, GoesOnStep

\* The next row is looked for and inserted if it is missing.
LEMMA InsertMissingKeeps ==
  ASSUME ReferenceInv, NEW s \in Runs, InsertMissing(s)
  PROVE  ReferenceInv'
<1> DEFINE q == seeder[s]
           k == Head(q.left)
           ins == IF rows[k] = 0 THEN q.inserted \cup {k} ELSE q.inserted
           rest == Tail(q.left)
           t == [q EXCEPT !.left = rest, !.inserted = ins]
<1>1. q \in Seeder /\ q.pc = "open" /\ q.left # <<>>
      /\ q.left \in Seq(ReferenceRows \cup Upserted)
  BY DEF InsertMissing, ReferenceInv, ReferenceTypes, Seeder
<1>2. /\ seeder' = [seeder EXCEPT ![s] = t] /\ UNCHANGED <<rows, present, crossed, layer>>
      /\ k \in ReferenceRows
  BY DEF InsertMissing, businessVars, ReferenceInv, ReferenceTypes
<1>3. /\ k \in Items(q.left) /\ rest \in Seq(ReferenceRows \cup Upserted)
      /\ Items(rest) \subseteq Items(q.left)
      /\ \A y \in Items(q.left) : y = k \/ y \in Items(rest)
  BY <1>1, HeadAndTail
<1>4. k = Head(q.left)
  OBVIOUS
<1>5. /\ ins \subseteq ReferenceRows /\ q.inserted \subseteq ins
      /\ ins \subseteq q.inserted \cup {k} /\ (k \in ins \/ rows[k] # 0)
      /\ (k \in ins => rows[k] = 0 \/ k \in q.inserted)
  BY <1>1, <1>2 DEF Seeder
<1> HIDE DEF k, rest, ins
<1>6. /\ t \in Seeder /\ t.pc = "open" /\ t.holds = q.holds
      /\ t.left = rest /\ t.inserted = ins
  BY <1>1, <1>3, <1>5 DEF Seeder
<1> HIDE DEF t
<1>7. \A y \in t.holds : \A o \in Runs \ {s} : y \notin seeder[o].holds
  BY <1>1, <1>6 DEF ReferenceInv, OneHolds, Seeder
<1>8. \A y \in t.inserted : rows[y] = 0 \/ Doubled(y)
  BY <1>5, <1>6 DEF ReferenceInv, InsertedAreMissing
<1>9. \A y \in BaseRows : rows[y] \in Nat /\ rows[y] <= 1
  BY RowNames DEF ReferenceInv, ReferenceTypes, ReferenceRowsOnce
<1>10. ASSUME s \in Seeders PROVE SeederWorks(t)
  <2>1. SeederWorks(q) /\ q.pc = "open"
    BY <1>1, <1>10 DEF ReferenceInv
  <2>2. "accounts" \in t.holds
    BY <1>2, <1>4, <1>6, <2>1, StepLists, RowNames DEF SeederWorks
  <2>3. k \in BaseRows
    BY <1>2, <1>3, <2>1, RowNames DEF SeederWorks
  <2>4. k \in ins \/ rows[k] = 1
    BY <1>5, <1>9, <2>3
  <2> QED
    BY <1>3, <1>5, <1>6, <2>1, <2>2, <2>3, <2>4 DEF SeederWorks
<1>11. ASSUME s \in FullSeeders PROVE FullSeederWorks(t, layer[s])
  <2>1. FullSeederWorks(q, layer[s]) /\ q.pc = "open"
    BY <1>1, <1>11 DEF ReferenceInv
  <2>2. CASE layer[s] = 1 /\ UsersWork(q)
    BY <1>2, <1>3, <2>2, RowNames DEF UsersWork
  <2>3. CASE layer[s] = 2 /\ CustomersWork(q)
    <3>1. k \in {"customer", "newCustomer"}
      BY <1>3, <2>3 DEF CustomersWork
    <3>2. rows["customer"] = 1 /\ "customer" \notin q.inserted
      BY <2>3 DEF CustomersWork, ReferenceInv, CodesMeanRows, BaseRows
    <3>3. ins \subseteq {"newCustomer"}
      BY <1>5, <2>3, <3>1, <3>2 DEF CustomersWork
    <3>4. CustomersWork(t)
      BY <1>3, <1>6, <2>3, <3>3 DEF CustomersWork
    <3> QED
      BY <1>6, <2>1, <2>3, <3>4 DEF FullSeederWorks
  <2>4. CASE layer[s] = 3 /\ ProductsWork(q)
    <3>1. "products" \in t.holds
      BY <1>2, <1>4, <1>6, <2>4, StepLists, RowNames DEF ProductsWork
    <3>2. k \in {"priceList", "newPriceList"}
      BY <1>2, <1>3, <2>4, RowNames DEF ProductsWork
    <3>3. rows["priceList"] = 1 /\ "priceList" \notin q.inserted
      BY <2>1, <2>4 DEF FullSeederWorks, ProductsWork, ReferenceInv, CodesMeanRows, BaseRows
    <3>4. ins \subseteq {"newPriceList"}
      BY <1>5, <2>4, <3>2, <3>3 DEF ProductsWork
    <3>5. ProductsWork(t)
      BY <1>3, <1>6, <2>4, <3>1, <3>4 DEF ProductsWork
    <3> QED
      BY <1>6, <2>1, <2>4, <3>5 DEF FullSeederWorks
  <2> QED
    BY <2>1, <2>2, <2>3, <2>4 DEF FullSeederWorks
<1> QED
  BY <1>1, <1>2, <1>6, <1>7, <1>8, <1>10, <1>11, GoesOnStep

\* A run begins.
LEMMA BeginsKeeps ==
  ASSUME ReferenceInv, NEW s \in Runs, NEW steps \in Seq(ReferenceRows \cup Upserted),
         Begins(s, steps), UNCHANGED <<rows, present>>,
         crossed' \in BOOLEAN, crossed => crossed',
         layer' \in [FullSeeders -> 0..9], \A o \in FullSeeders \ {s} : layer'[o] = layer[o],
         s \in Seeders => steps = SeedSteps,
         s \in FullSeeders =>
           \/ layer'[s] = 1 /\ steps = UserSteps
           \/ /\ layer'[s] = 2 /\ steps = CustomerSteps /\ "products" \in present
              /\ ~crossed' => \A o \in FullSeeders : ~AtCustomers(o)
           \/ layer'[s] = 3 /\ steps = ProductSteps /\ "products" \in present
  PROVE  ReferenceInv'
<1> DEFINE t == [pc |-> "open", holds |-> {}, left |-> steps, inserted |-> {}]
<1>1. seeder' = [seeder EXCEPT ![s] = t]
  BY DEF Begins
<1>2. /\ t \in Seeder /\ t.pc = "open" /\ t.holds = {}
      /\ t.left = steps /\ t.inserted = {}
  BY DEF Seeder
<1> HIDE DEF t
<1>3. ASSUME s \in Seeders PROVE SeederWorks(t)
  BY <1>2, <1>3, StepLists DEF SeederWorks
<1>4. ASSUME s \in FullSeeders PROVE FullSeederWorks(t, layer'[s])
  <2>1. CASE layer'[s] = 1 /\ steps = UserSteps
    BY <1>2, <2>1, StepLists DEF FullSeederWorks, UsersWork
  <2>2. CASE layer'[s] = 2 /\ steps = CustomerSteps /\ "products" \in present
    BY <1>2, <2>2, StepLists DEF FullSeederWorks, CustomersWork
  <2>3. CASE layer'[s] = 3 /\ steps = ProductSteps /\ "products" \in present
    BY <1>2, <2>3, StepLists DEF FullSeederWorks, ProductsWork
  <2> QED
    BY <1>4, <2>1, <2>2, <2>3
<1>5. s \in FullSeeders /\ layer'[s] = 2 /\ ~crossed' =>
        \A o \in FullSeeders \ {s} : ~AtCustomers(o)
  OBVIOUS
<1>6. /\ \A x \in t.holds : \A o \in Runs \ {s} : x \notin seeder[o].holds
      /\ \A k \in t.inserted : rows[k] = 0 \/ Doubled(k)
      /\ t.pc # "idle"
  BY <1>2
<1> QED
  BY <1>1, <1>2, <1>3, <1>4, <1>5, <1>6, SeederStep

\* Two runs have not inserted the same row, except for the one that may be
\* doubled.
LEMMA InsertedByOne ==
  ASSUME ReferenceInv, NEW s \in Runs, NEW o \in Runs, s # o,
         NEW k \in seeder[s].inserted, k \in seeder[o].inserted
  PROVE  Doubled(k)
<1>1. seeder[s].pc = "open" /\ seeder[o].pc = "open"
  BY DEF ReferenceInv, OneHolds, ReferenceTypes, Seeder
<1>2. \A r \in Seeders : k \in seeder[r].inserted /\ seeder[r].pc = "open" =>
        k \in BaseRows /\ "accounts" \in seeder[r].holds
  BY DEF ReferenceInv, SeederWorks
<1>3. \A r \in FullSeeders : k \in seeder[r].inserted /\ seeder[r].pc = "open" =>
        \/ k = "newCustomer" /\ AtCustomers(r)
        \/ k = "newPriceList" /\ "products" \in seeder[r].holds
  BY DEF ReferenceInv, FullSeederWorks, UsersWork, CustomersWork, ProductsWork, AtCustomers
<1>4. \A x \in {"accounts", "products"} : ~(x \in seeder[s].holds /\ x \in seeder[o].holds)
  BY RowNames DEF ReferenceInv, OneHolds
<1>5. CASE s \in Seeders /\ o \in Seeders
  BY <1>1, <1>2, <1>4, <1>5
<1>6. CASE k \in BaseRows
  BY <1>1, <1>2, <1>3, <1>5, <1>6, RowNames DEF Runs
<1>7. CASE s \in FullSeeders /\ o \in FullSeeders
  BY <1>1, <1>3, <1>4, <1>7 DEF Doubled, ReferenceInv, OneAtCustomers
<1> QED
  BY <1>1, <1>2, <1>5, <1>6, <1>7 DEF Runs

\* What was inserted is committed: seed.js leaves all its rows there, and the
\* full seed only adds rows of its own.
LEMMA CommitKeepsRows ==
  ASSUME ReferenceInv, NEW s \in Runs, Commits(s),
         layer' \in [FullSeeders -> 0..9], \A o \in FullSeeders \ {s} : layer'[o] = layer[o],
         s \in FullSeeders => layer'[s] = layer[s] + 1
  PROVE  ReferenceInv'
<1> DEFINE ins == seeder[s].inserted
<1>1. /\ seeder[s].pc = "open" /\ seeder[s].left = <<>>
      /\ \A k \in ReferenceRows : rows'[k] = rows[k] + IF k \in ins THEN 1 ELSE 0
      /\ rows' = [k \in ReferenceRows |-> rows'[k]]
      /\ seeder' = [seeder EXCEPT ![s] = NoTransaction]
      /\ present' = present \cup seeder[s].holds /\ crossed' = crossed
  BY DEF Commits
<1>2. \A o \in Runs : seeder'[o] = IF o = s THEN NoTransaction ELSE seeder[o]
  BY <1>1 DEF ReferenceInv, ReferenceTypes
<1>3. \A o \in Seeders : o \in Runs /\ o \notin FullSeeders
  BY SeedersAssumption DEF Runs
<1>4. \A o \in FullSeeders : o \in Runs
  BY DEF Runs
<1>5. ins \subseteq ReferenceRows /\ seeder[s].holds \subseteq Upserted
  BY DEF ReferenceInv, ReferenceTypes, Seeder
<1>6. \A k \in ins : rows[k] = 0 \/ Doubled(k)
  BY DEF ReferenceInv, InsertedAreMissing
<1> HIDE DEF ins
<1>7. \A k \in ReferenceRows :
        /\ rows[k] \in Nat /\ rows'[k] \in Nat
        /\ ~Doubled(k) /\ rows[k] = 1 => rows'[k] = 1
        /\ ~Doubled(k) => rows'[k] <= 1
        /\ k \in ins /\ ~Doubled(k) => rows'[k] = 1
        /\ k \notin ins => rows'[k] = rows[k]
  <2>1. \A k \in ReferenceRows : rows[k] \in Nat /\ (rows[k] <= 1 \/ Doubled(k))
    BY DEF ReferenceInv, ReferenceTypes, ReferenceRowsOnce, Doubled
  <2> QED
    BY <1>1, <1>6, <2>1
<1>8. \A k \in BaseRows : k \in ReferenceRows /\ ~Doubled(k)
  BY RowNames DEF Doubled
<1>9. ReferenceTypes'
  <2>1. rows' \in [ReferenceRows -> Nat]
    BY <1>1, <1>7
  <2>2. seeder' \in [Runs -> Seeder]
    BY <1>1, NoTransactionFacts DEF ReferenceInv, ReferenceTypes
  <2> QED
    BY <1>1, <1>5, <2>1, <2>2 DEF ReferenceInv, ReferenceTypes
<1>10. ReferenceRowsOnce'
  BY <1>1, <1>7 DEF ReferenceRowsOnce, Doubled
<1>11. s \in Seeders => \A k \in BaseRows : rows'[k] = 1
  <2> SUFFICES ASSUME s \in Seeders, NEW k \in BaseRows PROVE rows'[k] = 1
    OBVIOUS
  <2>1. Items(seeder[s].left) = {}
    BY <1>1 DEF Items
  <2>2. k \in ins \/ rows[k] = 1
    BY <1>1, <2>1 DEF ReferenceInv, SeederWorks, ins
  <2> QED
    BY <1>7, <1>8, <2>2
<1>12. "products" \in seeder[s].holds => s \in Seeders \/ "products" \in present
  BY <1>1 DEF Runs, ReferenceInv, FullSeederWorks, UsersWork, CustomersWork
<1>13. CodesMeanRows'
  BY <1>1, <1>7, <1>8, <1>11, <1>12 DEF ReferenceInv, CodesMeanRows
<1>14. OneHolds'
  BY <1>2, NoTransactionFacts DEF ReferenceInv, OneHolds
<1>15. InsertedAreMissing'
  <2> SUFFICES ASSUME NEW o \in Runs, NEW k \in seeder'[o].inserted
               PROVE  rows'[k] = 0 \/ (k = "newCustomer" /\ crossed')
    BY DEF InsertedAreMissing, Doubled
  <2>1. o # s /\ k \in seeder[o].inserted
    BY <1>2, NoTransactionFacts
  <2>2. k \in ReferenceRows
    BY <2>1 DEF ReferenceInv, ReferenceTypes, Seeder
  <2>3. rows[k] = 0 \/ Doubled(k)
    BY <2>1 DEF ReferenceInv, InsertedAreMissing
  <2>4. k \notin ins \/ Doubled(k)
    BY <2>1, InsertedByOne DEF ins
  <2> QED
    BY <1>1, <1>7, <2>2, <2>3, <2>4 DEF Doubled
<1>16. OneAtCustomers'
  <2>1. \A o \in FullSeeders : layer'[o] = 2 /\ seeder'[o].pc = "open" => AtCustomers(o)
    BY <1>2, <1>4, NoTransactionFacts DEF AtCustomers
  <2> QED
    BY <1>1, <2>1 DEF ReferenceInv, OneAtCustomers, AtCustomers
<1>17. \A o \in Seeders : SeederWorks(seeder[o])'
  <2> SUFFICES ASSUME NEW o \in Seeders, seeder'[o].pc = "open"
               PROVE  SeederWorks(seeder[o])'
    BY DEF SeederWorks
  <2>1. seeder'[o] = seeder[o]
    BY <1>2, <1>3, NoTransactionFacts
  <2>2. SeederWorks(seeder[o])
    BY DEF ReferenceInv
  <2>3. \A k \in BaseRows : rows[k] = 1 => rows'[k] = 1
    BY <1>7, <1>8
  <2> QED
    BY <2>1, <2>2, <2>3 DEF SeederWorks
<1>18. \A o \in FullSeeders : FullSeederWorks(seeder[o], layer[o])'
  <2> SUFFICES ASSUME NEW o \in FullSeeders PROVE FullSeederWorks(seeder[o], layer[o])'
    OBVIOUS
  <2>1. FullSeederWorks(seeder[o], layer[o])
    BY DEF ReferenceInv
  <2>2. "products" \in present => "products" \in present'
    BY <1>1
  <2>3. CASE o # s
    <3>1. seeder'[o] = seeder[o] /\ layer'[o] = layer[o]
      BY <1>2, <1>4, <2>3
    <3> QED
      BY <2>1, <2>2, <3>1 DEF FullSeederWorks, UsersWork, CustomersWork, ProductsWork
  <2>4. CASE o = s
    <3>1. seeder'[o].pc = "idle" /\ layer'[o] = layer[o] + 1
      BY <1>2, <1>4, <2>4, NoTransactionFacts
    <3>2. layer'[o] >= 3 => "products" \in present'
      BY <1>1, <2>1, <2>2, <2>4, <3>1 DEF FullSeederWorks, CustomersWork
    <3> QED
      BY <3>1, <3>2 DEF FullSeederWorks
  <2> QED
    BY <2>3, <2>4
<1> QED
  BY <1>9, <1>10, <1>13, <1>14, <1>15, <1>16, <1>17, <1>18 DEF ReferenceInv

\* A run's transaction is rolled back.
LEMMA RollsBackKeeps ==
  ASSUME ReferenceInv, NEW s \in Runs, seeder' = [seeder EXCEPT ![s] = NoTransaction],
         UNCHANGED <<rows, present, crossed>>,
         layer' = layer \/ (s \in FullSeeders /\ layer' = [layer EXCEPT ![s] = 0])
  PROVE  ReferenceInv'
<1>1. /\ layer' \in [FullSeeders -> 0..9] /\ \A o \in FullSeeders \ {s} : layer'[o] = layer[o]
      /\ s \in FullSeeders => layer'[s] = layer[s] \/ layer'[s] = 0
  BY DEF ReferenceInv, ReferenceTypes
<1>2. crossed' \in BOOLEAN /\ crossed' = crossed
  BY DEF ReferenceInv, ReferenceTypes
<1> DEFINE t == NoTransaction
<1>3. /\ t \in Seeder /\ t.pc = "idle" /\ t.holds = {} /\ t.inserted = {}
      /\ seeder' = [seeder EXCEPT ![s] = t]
  BY NoTransactionFacts
<1> HIDE DEF t
<1>4. t.pc # "open"
  BY <1>3
<1>5. s \in Seeders => SeederWorks(t)
  BY <1>4 DEF SeederWorks
<1>6. s \in FullSeeders => FullSeederWorks(t, layer'[s])
  BY <1>1, <1>4 DEF ReferenceInv, FullSeederWorks
<1>7. /\ \A x \in t.holds : \A o \in Runs \ {s} : x \notin seeder[o].holds
      /\ \A k \in t.inserted : rows[k] = 0 \/ Doubled(k)
  BY <1>3
<1>8. s \in FullSeeders /\ layer'[s] = 2 /\ t.pc = "open" /\ ~crossed' =>
        \A o \in FullSeeders \ {s} : ~AtCustomers(o)
  BY <1>4
<1>9. UNCHANGED <<rows, present>> /\ (crossed => crossed') /\ crossed' \in BOOLEAN
  BY <1>2
<1>10. t.pc = "idle" => t.holds = {} /\ t.inserted = {}
  BY <1>3
<1>11. t \in Seeder /\ seeder' = [seeder EXCEPT ![s] = t]
  BY <1>3
<1> QED
  BY <1>1, <1>5, <1>6, <1>7, <1>8, <1>9, <1>10, <1>11, SeederStep

\* A script's step that is about neither.
LEMMA ReferenceSame ==
  ASSUME ReferenceInv, UNCHANGED referenceVars,
         \/ layer' = layer
         \/ \E s \in FullSeeders, n \in 0..9 : layer[s] >= 4 /\ layer' = [layer EXCEPT ![s] = n]
  PROVE  ReferenceInv'
<1>1. UNCHANGED <<rows, present, seeder, crossed>>
  BY DEF referenceVars
<1>2. layer' \in [FullSeeders -> 0..9]
  BY DEF ReferenceInv, ReferenceTypes
<1>3. \A o \in FullSeeders : layer'[o] = layer[o] \/ layer[o] >= 4
  BY DEF ReferenceInv, ReferenceTypes
<1>4. \A o \in FullSeeders : layer[o] >= 4 => seeder[o].pc # "open" /\ "products" \in present
  BY DEF ReferenceInv, ReferenceTypes, FullSeederWorks
<1>5. OneAtCustomers'
  BY <1>1, <1>3, <1>4 DEF ReferenceInv, OneAtCustomers, AtCustomers
<1>6. \A o \in FullSeeders : FullSeederWorks(seeder[o], layer[o])'
  <2> SUFFICES ASSUME NEW o \in FullSeeders PROVE FullSeederWorks(seeder[o], layer[o])'
    OBVIOUS
  <2>1. FullSeederWorks(seeder[o], layer[o])
    BY DEF ReferenceInv
  <2> QED
    BY <1>1, <1>3, <1>4, <2>1 DEF FullSeederWorks, UsersWork, CustomersWork, ProductsWork
<1>7. \A s \in Seeders : SeederWorks(seeder[s])'
  BY <1>1 DEF ReferenceInv, SeederWorks
<1> QED
  BY <1>1, <1>2, <1>5, <1>6, <1>7 DEF ReferenceInv, ReferenceTypes, ReferenceRowsOnce,
     CodesMeanRows, OneHolds, InsertedAreMissing, Doubled

\* The layers of the full seed's reference data.
LEMMA FullSeedKeeps ==
  ASSUME ReferenceInv, NEW s \in FullSeeders,
         \/ SeedUsers(s) \/ SeedCustomers(s) \/ SeedProducts(s)
         \/ CommitLayer(s) \/ FullSeedStops(s)
  PROVE  ReferenceInv'
<1>1. s \in Runs /\ s \notin Seeders
  BY SeedersAssumption DEF Runs
<1>2. layer \in [FullSeeders -> 0..9] /\ crossed \in BOOLEAN /\ layer[s] \in 0..9
  BY DEF ReferenceInv, ReferenceTypes
<1>3. FullSeederWorks(seeder[s], layer[s])
  BY DEF ReferenceInv
<1>4. CASE SeedUsers(s)
  <2>1. Begins(s, UserSteps) /\ UNCHANGED <<rows, present, crossed>>
        /\ layer' = [layer EXCEPT ![s] = 1]
    BY <1>4 DEF SeedUsers
  <2>2. /\ layer' \in [FullSeeders -> 0..9] /\ layer'[s] = 1
        /\ \A o \in FullSeeders \ {s} : layer'[o] = layer[o]
    BY <1>2, <2>1
  <2>3. UserSteps \in Seq(ReferenceRows \cup Upserted)
    BY StepLists
  <2> QED
    BY <1>1, <1>2, <2>1, <2>2, <2>3, BeginsKeeps
<1>5. CASE SeedCustomers(s)
  <2>1. /\ Begins(s, CustomerSteps) /\ UNCHANGED <<rows, present, layer>>
        /\ layer[s] = 2 /\ "products" \in present
        /\ crossed' = (crossed \/ \E o \in FullSeeders : AtCustomers(o))
    BY <1>5 DEF SeedCustomers, businessVars
  <2>2. CustomerSteps \in Seq(ReferenceRows \cup Upserted)
    BY StepLists
  <2>3. crossed' \in BOOLEAN /\ (crossed => crossed')
        /\ (~crossed' => \A o \in FullSeeders : ~AtCustomers(o))
    BY <1>2, <2>1
  <2> QED
    BY <1>1, <1>2, <2>1, <2>2, <2>3, BeginsKeeps
<1>6. CASE SeedProducts(s)
  <2>1. /\ Begins(s, ProductSteps) /\ UNCHANGED <<rows, present, crossed, layer>>
        /\ layer[s] = 3
    BY <1>6 DEF SeedProducts, businessVars
  <2>2. "products" \in present /\ ProductSteps \in Seq(ReferenceRows \cup Upserted)
    BY <1>3, <2>1, StepLists DEF FullSeederWorks
  <2> QED
    BY <1>1, <1>2, <2>1, <2>2, BeginsKeeps
<1>7. CASE CommitLayer(s)
  <2>1. Commits(s) /\ layer' = [layer EXCEPT ![s] = layer[s] + 1]
    BY <1>7 DEF CommitLayer
  <2>2. layer[s] \in 1..3
    BY <1>2, <1>3, <2>1 DEF Commits, FullSeederWorks
  <2>3. layer[s] + 1 \in 0..9
    BY <2>2
  <2>4. /\ layer' \in [FullSeeders -> 0..9] /\ layer'[s] = layer[s] + 1
        /\ \A o \in FullSeeders \ {s} : layer'[o] = layer[o]
    BY <1>2, <2>1, <2>3
  <2> QED
    BY <1>1, <2>1, <2>4, CommitKeepsRows
<1>8. CASE FullSeedStops(s)
  BY <1>1, <1>8, RollsBackKeeps DEF FullSeedStops
<1> QED
  BY <1>4, <1>5, <1>6, <1>7, <1>8

\* The invariant is kept by every step.
LEMMA ReferenceStep == ReferenceInv /\ [SetupNext]_setupVars => ReferenceInv'
<1> SUFFICES ASSUME ReferenceInv, [SetupNext]_setupVars PROVE ReferenceInv'
  OBVIOUS
<1>1. \A s \in Seeders : s \in Runs /\ s \notin FullSeeders
  BY SeedersAssumption DEF Runs
<1>2. \A s \in FullSeeders : s \in Runs
  BY DEF Runs
<1>3. layer \in [FullSeeders -> 0..9] /\ crossed \in BOOLEAN
  BY DEF ReferenceInv, ReferenceTypes
<1>4. ASSUME NEW s \in Seeders, BeginSeed(s) PROVE ReferenceInv'
  <2>1. Begins(s, SeedSteps) /\ UNCHANGED <<rows, present, crossed, layer>>
    BY <1>4 DEF BeginSeed, businessVars
  <2>2. SeedSteps \in Seq(ReferenceRows \cup Upserted)
    BY StepLists
  <2> QED
    BY <1>1, <1>3, <2>1, <2>2, BeginsKeeps
<1>5. ASSUME NEW s \in Seeders, CommitSeed(s) PROVE ReferenceInv'
  <2>1. Commits(s) /\ layer' = layer
    BY <1>5 DEF CommitSeed, businessVars
  <2> QED
    BY <1>1, <1>3, <2>1, CommitKeepsRows
<1>6. ASSUME NEW s \in Seeders, SeedStops(s) PROVE ReferenceInv'
  BY <1>1, <1>6, RollsBackKeeps DEF SeedStops, businessVars
<1>7. CASE SeedNext
  BY <1>1, <1>4, <1>5, <1>6, <1>7, UpsertKeeps, InsertMissingKeeps DEF SeedNext
<1>8. ASSUME NEW s \in FullSeeders,
             \/ \E target \in Targets, r \in Routes : SeedQuote(s, target, r)
             \/ QuotesDone(s) \/ SeedNegotiation(s) \/ SeedOrders(s) \/ SeedInvoices(s)
             \/ SeedSubscriptions(s) \/ SeedDealHealth(s)
      PROVE  ReferenceInv'
  <2>1. UNCHANGED referenceVars
    BY <1>8 DEF SeedQuote, QuotesDone, SeedNegotiation, SeedOrders, SeedInvoices,
      SeedSubscriptions, SeedDealHealth, LayerWrites
  <2>2. \/ layer' = layer
        \/ \E n \in 0..9 : layer[s] >= 4 /\ layer' = [layer EXCEPT ![s] = n]
    BY <1>8 DEF SeedQuote, QuotesDone, SeedNegotiation, SeedOrders, SeedInvoices,
      SeedSubscriptions, SeedDealHealth, LayerWrites
  <2> QED
    BY <2>1, <2>2, ReferenceSame
<1>9. CASE FullSeedNext
  BY <1>2, <1>8, <1>9, FullSeedKeeps, UpsertKeeps, InsertMissingKeeps DEF FullSeedNext
<1>10. CASE MigratorNext
  BY <1>10, ReferenceSame DEF businessVars, MigratorNext, Lock, ReadApplied, Execute, Record,
     Finish, MigratorStops, Release
<1>11. CASE DemoNext
  BY <1>11, ReferenceSame DEF DemoNext, StartDemo, DemoStops, PlayScene
<1>12. CASE UNCHANGED setupVars
  BY <1>12, ReferenceSame DEF setupVars, businessVars
<1> QED
  BY <1>7, <1>9, <1>10, <1>11, <1>12 DEF SetupNext

\* No reference row is there twice, however many seeds run together and stop,
\* but for the customers of full-seed.js, and those only after two runs of it
\* have been at the customers at the same time.
THEOREM SeedingIsIdempotent == SetupSpec => []ReferenceRowsOnce
<1>1. ReferenceInv => ReferenceRowsOnce
  BY DEF ReferenceInv
<1> QED
  BY <1>1, ReferenceInit, ReferenceStep, PTL DEF SetupSpec

-----------------------------------------------------------------------------
(***************************************************************************)
(* Setup: the quotations.                                                  *)
(***************************************************************************)

QuotesInv ==
  /\ quotes \in Seq(Quote) /\ scene \in 0..5 /\ forced \subseteq Ids
  /\ SeededQuotesAreLegal

\* The status and the steps of a quotation, all that its legality is about.
SameProgress(q, p) == q.status = p.status /\ q.steps = p.steps

\* A new quotation is legal and has the columns of one.
LEMMA NewQuoteFacts ==
  \A st \in Statuses, ss \in Seq(Step) :
    /\ NewQuote(st, ss) \in Quote
    /\ NewQuote(st, ss).status = st /\ NewQuote(st, ss).steps = ss
BY DEF NewQuote, Quote

\* The steps of a route, pending and superseded.
LEMMA RouteFacts ==
  ASSUME NEW r \in Routes
  PROVE  /\ RoutedSteps(r) \in Seq(Step)
         /\ RoutedSteps(r) = IF r = "none" THEN <<>> ELSE <<ManagerStep>>
         /\ Superseded(RoutedSteps(r)) \in Seq(Step)
         /\ \A i \in DOMAIN Superseded(RoutedSteps(r)) :
              Superseded(RoutedSteps(r))[i].status # "pending"
<1>1. ManagerStep \in Step /\ [ManagerStep EXCEPT !.status = "superseded"] \in Step
  BY DEF ManagerStep, Step
<1>2. RoutedSteps(r) = IF r = "none" THEN <<>> ELSE <<ManagerStep>>
  BY DEF RoutedSteps
<1>3. CASE r = "none"
  <2>1. RoutedSteps(r) = <<>> /\ DOMAIN RoutedSteps(r) = {}
    BY <1>2, <1>3
  <2>2. Superseded(RoutedSteps(r)) = <<>>
    BY <2>1 DEF Superseded
  <2>3. <<>> \in Seq(Step) /\ DOMAIN <<>> = {}
    OBVIOUS
  <2>4. RoutedSteps(r) \in Seq(Step) /\ Superseded(RoutedSteps(r)) \in Seq(Step)
    BY <2>1, <2>2, <2>3
  <2>5. DOMAIN Superseded(RoutedSteps(r)) = {}
    BY <2>2, <2>3
  <2> QED
    BY <1>2, <2>4, <2>5
<1>4. CASE r # "none"
  <2> DEFINE gone == [ManagerStep EXCEPT !.status = "superseded"]
  <2>1. RoutedSteps(r) = <<ManagerStep>> /\ RoutedSteps(r) \in Seq(Step)
    BY <1>1, <1>2, <1>4
  <2>2. DOMAIN RoutedSteps(r) = 1..1 /\ RoutedSteps(r)[1] = ManagerStep
    BY <2>1
  <2>3. ManagerStep.status = "pending" /\ gone.status # "pending"
    BY DEF ManagerStep
  <2>4. Superseded(RoutedSteps(r)) = [i \in 1..1 |-> gone]
    BY <2>2, <2>3 DEF Superseded
  <2>5. Superseded(RoutedSteps(r)) \in Seq(Step)
    BY <1>1, <2>4
  <2>6. \A i \in DOMAIN Superseded(RoutedSteps(r)) :
          Superseded(RoutedSteps(r))[i].status # "pending"
    BY <2>3, <2>4
  <2> QED
    BY <1>2, <2>1, <2>5, <2>6
<1> QED
  BY <1>3, <1>4

\* A quotation that its route has just sent to an approver, or to nobody.
LEMMA RoutedLegal ==
  ASSUME NEW r \in Routes
  PROVE  LET q == NewQuote(RoutedStatus(r), RoutedSteps(r))
         IN q \in Quote /\ StepsMatchStatus(q)
<1> DEFINE q == NewQuote(RoutedStatus(r), RoutedSteps(r))
<1>1. RoutedStatus(r) \in Statuses
  BY DEF RoutedStatus, Statuses, Targets, Awaiting, Negotiable
<1>2. q \in Quote /\ q.status = RoutedStatus(r) /\ q.steps = RoutedSteps(r)
  BY <1>1, NewQuoteFacts, RouteFacts
<1> HIDE DEF q
<1>3. CASE r = "none"
  <2>1. q.status = "sent_to_customer" /\ q.steps = <<>>
    BY <1>2, <1>3 DEF RoutedStatus, RoutedSteps
  <2> QED
    BY <1>2, <2>1 DEF StepsMatchStatus, q
<1>4. CASE r # "none"
  <2>1. q.status = "pending_manager_approval" /\ q.steps = <<ManagerStep>>
    BY <1>2, <1>4 DEF RoutedStatus, RoutedSteps
  <2>2. StepsMatchStatus(q)
    BY <2>1 DEF StepsMatchStatus
  <2> QED
    BY <1>2, <2>2 DEF q
<1> QED
  BY <1>3, <1>4

\* A quotation whose manager has approved, with Finance's step added.
LEMMA PendingFinanceLegal ==
  ASSUME NEW r \in Routes
  PROVE  PendingFinanceQuote(r) \in Quote /\ StepsMatchStatus(PendingFinanceQuote(r))
<1> DEFINE q == PendingFinanceQuote(r)
           decided == <<[ManagerStep EXCEPT !.status = "approved"], FinanceStep>>
           no == <<>>
<1>1. "sent_to_customer" \in Statuses /\ "pending_finance_approval" \in Statuses
  BY DEF Statuses, Targets, Awaiting, Negotiable
<1>2. no \in Seq(Step) /\ DOMAIN no = {}
  OBVIOUS
<1>3. decided \in Seq(Step)
  BY DEF ManagerStep, FinanceStep, Step
<1>4. CASE r = "none"
  <2>1. q = NewQuote("sent_to_customer", no)
    BY <1>4 DEF PendingFinanceQuote
  <2> HIDE DEF q, no
  <2>2. q \in Quote /\ q.status = "sent_to_customer" /\ q.steps = no
    BY <1>1, <1>2, <2>1, NewQuoteFacts
  <2>3. StepsMatchStatus(q)
    BY <1>2, <2>2 DEF StepsMatchStatus
  <2> QED
    BY <2>2, <2>3 DEF q
<1>5. CASE r # "none"
  <2>1. q = NewQuote("pending_finance_approval", decided)
    BY <1>5 DEF PendingFinanceQuote
  <2> HIDE DEF q, decided
  <2>2. q \in Quote /\ q.status = "pending_finance_approval" /\ q.steps = decided
    BY <1>1, <1>3, <2>1, NewQuoteFacts
  <2>3. StepsMatchStatus(q)
    BY <2>2 DEF StepsMatchStatus, decided
  <2> QED
    BY <2>2, <2>3 DEF q
<1> QED
  BY <1>4, <1>5

\* Whatever the target and the route, a quotation of layer 4 is legal.
LEMMA SeededQuoteLegal ==
  ASSUME NEW target \in Targets, NEW r \in Routes
  PROVE  SeededQuote(target, r) \in Quote /\ StepsMatchStatus(SeededQuote(target, r))
<1> DEFINE q == SeededQuote(target, r)
<1>1. target \in Statuses /\ RoutedStatus(r) \in Statuses
  BY DEF Statuses, Targets, RoutedStatus, Awaiting, Negotiable
<1>2. CASE target = "pending_finance_approval"
  <2>1. q = PendingFinanceQuote(r)
    BY <1>2 DEF SeededQuote
  <2> QED
    BY <2>1, PendingFinanceLegal
<1>3. CASE target = "pending_manager_approval"
  <2>1. q = NewQuote(RoutedStatus(r), RoutedSteps(r))
    BY <1>3 DEF SeededQuote, MakeQuote, Awaiting
  <2> QED
    BY <2>1, RoutedLegal
<1>4. CASE target \notin Awaiting
  <2>1. q = NewQuote(target, Superseded(RoutedSteps(r)))
    BY <1>4 DEF SeededQuote, MakeQuote, Awaiting
  <2>2. q \in Quote /\ q.status = target /\ q.steps = Superseded(RoutedSteps(r))
    BY <1>1, <2>1, NewQuoteFacts, RouteFacts
  <2>3. \A i \in DOMAIN q.steps : q.steps[i].status # "pending"
    BY <2>2, RouteFacts
  <2>4. q.status # "pending_manager_approval" /\ q.status # "pending_finance_approval"
    BY <1>4, <2>2 DEF Awaiting
  <2> HIDE DEF q
  <2> QED
    BY <2>2, <2>3, <2>4 DEF StepsMatchStatus, q
<1> QED
  BY <1>2, <1>3, <1>4 DEF Awaiting

\* So is every quotation of the demo flow, but for the step of a won one.
LEMMA DemoQuoteLegal ==
  ASSUME NEW r \in Routes, NEW n \in 1..5
  PROVE  LET q == IF n <= 3 THEN OpenDemoQuote(n, r) ELSE WonDemoQuote(n, r)
         IN q \in Quote /\ IF n >= 4 /\ r # "none" THEN q.steps = <<ManagerStep>>
                                                   ELSE StepsMatchStatus(q)
<1> DEFINE q == IF n <= 3 THEN OpenDemoQuote(n, r) ELSE WonDemoQuote(n, r)
           ss == RoutedSteps(r)
           no == <<>>
           waits == <<ManagerStep>>
<1>1. no \in Seq(Step) /\ DOMAIN no = {}
  OBVIOUS
<1>2. ss \in Seq(Step) /\ ss = IF r = "none" THEN no ELSE waits
  BY RouteFacts
<1>3. "draft" \in Statuses /\ "approved" \in Statuses /\ "paid" \in Statuses
  BY DEF Statuses, Targets
<1> HIDE DEF no, ss, waits
<1>4. \A p \in Quote : p.status \in {"draft", "approved", "paid"} /\ p.steps = no
                         => StepsMatchStatus(p)
  BY <1>1 DEF StepsMatchStatus
<1>5. CASE n = 1
  <2>1. q = NewQuote("draft", no)
    BY <1>5 DEF OpenDemoQuote, no
  <2> DEFINE p == NewQuote("draft", no)
  <2>2. p \in Quote /\ p.status = "draft" /\ p.steps = no
    BY <1>1, <1>3, NewQuoteFacts
  <2>3. ~(n >= 4)
    BY <1>5
  <2>4. q = p
    BY <2>1
  <2> HIDE DEF q, p
  <2> QED
    BY <1>4, <2>2, <2>3, <2>4 DEF q
<1>6. CASE n = 2
  <2>1. q = NewQuote(RoutedStatus(r), RoutedSteps(r))
    BY <1>6 DEF OpenDemoQuote
  <2>2. ~(n >= 4)
    BY <1>6
  <2> QED
    BY <2>1, <2>2, RoutedLegal
<1>7. CASE n = 3
  <2>1. q = PendingFinanceQuote(r)
    BY <1>7 DEF OpenDemoQuote
  <2>2. ~(n >= 4)
    BY <1>7
  <2> QED
    BY <2>1, <2>2, PendingFinanceLegal
<1>8. CASE n = 4 \/ n = 5
  <2>1. q \in Quote /\ q.status \in {"approved", "paid"} /\ q.steps = ss
    <3>1. CASE n = 4
      <4> DEFINE p == NewQuote("approved", ss)
      <4>1. p \in Quote /\ p.status = "approved" /\ p.steps = ss
        BY <1>2, <1>3, NewQuoteFacts
      <4>2. q = [p EXCEPT !.order = "allocated"]
        BY <3>1 DEF WonDemoQuote, ss
      <4> HIDE DEF p, q
      <4> QED
        BY <4>1, <4>2 DEF Quote
    <3>2. CASE n = 5
      <4> DEFINE p == NewQuote("paid", ss)
      <4>1. p \in Quote /\ p.status = "paid" /\ p.steps = ss
        BY <1>2, <1>3, NewQuoteFacts
      <4>2. q = [p EXCEPT !.invoice = "paid"]
        BY <3>2 DEF WonDemoQuote, ss
      <4> HIDE DEF p, q
      <4> QED
        BY <4>1, <4>2 DEF Quote
    <3> QED
      BY <1>8, <3>1, <3>2
  <2>2. n >= 4
    BY <1>8
  <2> HIDE DEF q
  <2>3. CASE r = "none"
    BY <1>2, <1>4, <2>1, <2>3 DEF q
  <2>4. CASE r # "none"
    BY <1>2, <2>1, <2>2, <2>4 DEF q, waits
  <2> QED
    BY <2>3, <2>4
<1> QED
  BY <1>5, <1>6, <1>7, <1>8

\* A quotation is added.
LEMMA QuoteAdded ==
  ASSUME QuotesInv, NEW q \in Quote, quotes' = Append(quotes, q), scene' \in 0..5,
         \/ forced' = forced /\ StepsMatchStatus(q)
         \/ forced' = forced \cup {Len(quotes) + 1} /\ q.steps = <<ManagerStep>>
  PROVE  QuotesInv'
<1>1. quotes \in Seq(Quote) /\ Ids = 1..Len(quotes) /\ Len(quotes) \in Nat
  BY DEF QuotesInv, Ids
<1>2. /\ quotes' \in Seq(Quote) /\ DOMAIN quotes' = 1..(Len(quotes) + 1)
      /\ \A i \in Ids : quotes'[i] = quotes[i]
      /\ quotes'[Len(quotes) + 1] = q
  BY <1>1
<1>3. forced \subseteq Ids /\ Len(quotes) + 1 \notin Ids
  BY <1>1 DEF QuotesInv
<1> DEFINE last == Len(quotes) + 1
<1>4. forced' = forced \/ forced' = forced \cup {last}
  OBVIOUS
<1>5. last \in DOMAIN quotes' /\ Ids \subseteq DOMAIN quotes' /\ last \notin Ids
  BY <1>1, <1>2
<1> HIDE DEF last
<1>6. /\ forced' \subseteq DOMAIN quotes'
      /\ \A i \in Ids : i \in forced' <=> i \in forced
  BY <1>3, <1>4, <1>5
<1> USE DEF last
<1>7. \A i \in DOMAIN quotes' : i \in Ids \/ i = Len(quotes) + 1
  BY <1>1, <1>2
<1> DEFINE Legal(i, p) == IF i \in forced' THEN p.steps = <<ManagerStep>>
                                           ELSE StepsMatchStatus(p)
<1>8. \A i \in Ids : Legal(i, quotes[i])
  BY <1>6 DEF QuotesInv, SeededQuotesAreLegal
<1>9. Legal(Len(quotes) + 1, q)
  BY <1>3
<1>10. \A i \in DOMAIN quotes' : Legal(i, quotes'[i])
  <2> HIDE DEF Legal
  <2> QED
    BY <1>2, <1>7, <1>8, <1>9
<1>11. SeededQuotesAreLegal'
  BY <1>10 DEF SeededQuotesAreLegal, Ids, StepsMatchStatus
<1> QED
  BY <1>2, <1>6, <1>11 DEF QuotesInv, Ids

\* The rows of a layer are rewritten, their status and steps are not.
LEMMA QuotesRewritten ==
  ASSUME QuotesInv, NEW to \in [Ids -> Quote],
         \A i \in Ids : SameProgress(to[i], quotes[i]),
         quotes' = to, scene' \in 0..5, forced' = forced
  PROVE  QuotesInv'
<1>1. Ids = 1..Len(quotes) /\ Len(quotes) \in Nat
  BY DEF Ids, QuotesInv
<1>2. quotes' \in Seq(Quote) /\ DOMAIN quotes' = Ids
  BY <1>1
<1>3. \A i \in Ids : IF i \in forced THEN to[i].steps = <<ManagerStep>>
                                    ELSE StepsMatchStatus(to[i])
  BY DEF SameProgress, StepsMatchStatus, QuotesInv, SeededQuotesAreLegal
<1>4. SeededQuotesAreLegal'
  BY <1>2, <1>3 DEF SeededQuotesAreLegal, Ids, StepsMatchStatus
<1>5. forced' \subseteq Ids'
  BY <1>2 DEF QuotesInv, Ids
<1> QED
  BY <1>2, <1>4, <1>5 DEF QuotesInv

\* What the layers rewrite of a quotation is neither.
LEMMA RewriteFacts ==
  ASSUME NEW q \in Quote
  PROVE  /\ SameProgress(q, q)
         /\ \A x \in {"open", "resolved"} : LET p == [q EXCEPT !.case = x]
              IN p \in Quote /\ SameProgress(p, q)
         /\ \A x \in {"planned", "allocated"} : LET p == [q EXCEPT !.order = x]
              IN p \in Quote /\ SameProgress(p, q)
         /\ \A x \in {"issued", "paid"} : LET p == [q EXCEPT !.invoice = x]
              IN p \in Quote /\ SameProgress(p, q)
         /\ LET p == [q EXCEPT !.subscribed = TRUE] IN p \in Quote /\ SameProgress(p, q)
         /\ LET p == [q EXCEPT !.assessed = TRUE] IN p \in Quote /\ SameProgress(p, q)
BY DEF Quote, SameProgress

-----------------------------------------------------------------------------

\* Layer by layer.
LEMMA LayersRewrite ==
  ASSUME QuotesInv, NEW s \in FullSeeders,
         \/ SeedNegotiation(s) \/ SeedOrders(s) \/ SeedInvoices(s)
         \/ SeedSubscriptions(s) \/ SeedDealHealth(s)
  PROVE  QuotesInv'
<1>1. \A i \in Ids : quotes[i] \in Quote
  BY DEF QuotesInv, Ids
<1> SUFFICES ASSUME NEW to \in [Ids -> Quote],
                    \A i \in Ids : SameProgress(to[i], quotes[i]), quotes' = to,
                    UNCHANGED demoVars
             PROVE  QuotesInv'
  <2> SUFFICES /\ \E to \in [Ids -> Quote] :
                    quotes' = to /\ \A i \in Ids : SameProgress(to[i], quotes[i])
               /\ UNCHANGED demoVars
    OBVIOUS
  <2>1. CASE SeedNegotiation(s)
    <3> DEFINE to == [i \in Ids |->
          IF i \in Created(s, {"customer_confirmed"}) THEN [quotes[i] EXCEPT !.case = "resolved"]
          ELSE IF i \in Created(s, Negotiable) THEN [quotes[i] EXCEPT !.case = "open"]
          ELSE quotes[i]]
    <3>1. quotes' = to /\ UNCHANGED demoVars
      BY <2>1 DEF SeedNegotiation, LayerWrites
    <3>2. to \in [Ids -> Quote] /\ \A i \in Ids : SameProgress(to[i], quotes[i])
      BY <1>1, RewriteFacts
    <3> QED
      BY <3>1, <3>2
  <2>2. CASE SeedOrders(s)
    <3> DEFINE to == [i \in Ids |->
          IF i \in Created(s, {"customer_confirmed"}) THEN [quotes[i] EXCEPT !.order = "allocated"]
          ELSE IF i \in Created(s, {"approved"}) THEN [quotes[i] EXCEPT !.order = "planned"]
          ELSE quotes[i]]
    <3>1. quotes' = to /\ UNCHANGED demoVars
      BY <2>2 DEF SeedOrders, LayerWrites
    <3>2. to \in [Ids -> Quote] /\ \A i \in Ids : SameProgress(to[i], quotes[i])
      BY <1>1, RewriteFacts
    <3> QED
      BY <3>1, <3>2
  <2>3. CASE SeedInvoices(s)
    <3> DEFINE confirmed == Created(s, {"customer_confirmed"})
               index(i) == Cardinality({j \in confirmed : j < i})
               to == [i \in Ids |->
          IF i \notin confirmed THEN quotes[i]
          ELSE [quotes[i] EXCEPT !.invoice = IF index(i) % 2 = 0 THEN "paid" ELSE "issued"]]
    <3>1. quotes' = to /\ UNCHANGED demoVars
      BY <2>3 DEF SeedInvoices, LayerWrites
    <3> HIDE DEF confirmed, index
    <3>2. to \in [Ids -> Quote] /\ \A i \in Ids : SameProgress(to[i], quotes[i])
      BY <1>1, RewriteFacts
    <3> QED
      BY <3>1, <3>2
  <2>4. CASE SeedSubscriptions(s)
    <3>1. PICK recurring \in SUBSET Created(s, {"customer_confirmed"}) :
            LayerWrites(s, 8, LAMBDA i : IF i \in recurring
                                           THEN [quotes[i] EXCEPT !.subscribed = TRUE]
                                           ELSE quotes[i])
      BY <2>4 DEF SeedSubscriptions
    <3> DEFINE to == [i \in Ids |->
          IF i \in recurring THEN [quotes[i] EXCEPT !.subscribed = TRUE] ELSE quotes[i]]
    <3>2. quotes' = to /\ UNCHANGED demoVars
      BY <3>1 DEF LayerWrites
    <3>3. to \in [Ids -> Quote] /\ \A i \in Ids : SameProgress(to[i], quotes[i])
      BY <1>1, RewriteFacts
    <3> QED
      BY <3>2, <3>3
  <2>5. CASE SeedDealHealth(s)
    <3> DEFINE to == [i \in Ids |->
          IF i \in Created(s, Targets \ {"draft", "expired"})
          THEN [quotes[i] EXCEPT !.assessed = TRUE] ELSE quotes[i]]
    <3>1. quotes' = to /\ UNCHANGED demoVars
      BY <2>5 DEF SeedDealHealth, LayerWrites
    <3>2. to \in [Ids -> Quote] /\ \A i \in Ids : SameProgress(to[i], quotes[i])
      BY <1>1, RewriteFacts
    <3> QED
      BY <3>1, <3>2
  <2> QED
    BY <2>1, <2>2, <2>3, <2>4, <2>5
<1>2. scene' \in 0..5 /\ forced' = forced
  BY DEF QuotesInv, demoVars
<1> QED
  BY <1>2, QuotesRewritten

\* Every step of a script keeps the quotations legal.
LEMMA QuotesStep == QuotesInv /\ [SetupNext]_setupVars => QuotesInv'
<1> SUFFICES ASSUME QuotesInv, [SetupNext]_setupVars PROVE QuotesInv'
  OBVIOUS
<1>1. scene \in 0..5
  BY DEF QuotesInv
<1>2. ASSUME UNCHANGED <<quotes, forced>>, scene' \in 0..5 PROVE QuotesInv'
  BY <1>2 DEF QuotesInv, SeededQuotesAreLegal, Ids, StepsMatchStatus
<1>3. CASE MigratorNext \/ SeedNext
  <2>1. UNCHANGED <<quotes, scene, forced>>
    BY <1>3 DEF MigratorNext, SeedNext, Lock, ReadApplied, Execute, Record, Finish,
      MigratorStops, Release, BeginSeed, Upsert, InsertMissing, CommitSeed, SeedStops,
      businessVars, demoVars
  <2> QED
    BY <1>1, <1>2, <2>1
<1>4. ASSUME NEW s \in FullSeeders,
             \/ SeedUsers(s) \/ SeedCustomers(s) \/ SeedProducts(s) \/ Upsert(s)
             \/ InsertMissing(s) \/ CommitLayer(s) \/ FullSeedStops(s) \/ QuotesDone(s)
      PROVE  QuotesInv'
  <2>1. UNCHANGED <<quotes, scene, forced>>
    BY <1>4 DEF SeedUsers, SeedCustomers, SeedProducts, Upsert, InsertMissing, CommitLayer,
      FullSeedStops, QuotesDone, businessVars, demoVars
  <2> QED
    BY <1>1, <1>2, <2>1
<1>5. ASSUME NEW s \in FullSeeders, NEW target \in Targets, NEW r \in Routes,
             SeedQuote(s, target, r)
      PROVE  QuotesInv'
  <2>1. quotes' = Append(quotes, SeededQuote(target, r)) /\ UNCHANGED <<scene, forced>>
    BY <1>5 DEF SeedQuote, demoVars
  <2> QED
    BY <1>1, <2>1, SeededQuoteLegal, QuoteAdded
<1>6. CASE FullSeedNext
  BY <1>4, <1>5, <1>6, LayersRewrite DEF FullSeedNext
<1>7. CASE StartDemo \/ DemoStops
  BY <1>2, <1>7 DEF StartDemo, DemoStops
<1>8. ASSUME NEW r \in Routes, PlayScene(r) PROVE QuotesInv'
  <2> DEFINE q == IF scene <= 3 THEN OpenDemoQuote(scene, r) ELSE WonDemoQuote(scene, r)
  <2>1. scene \in 1..5 /\ quotes' = Append(quotes, q) /\ scene' \in 0..5
    BY <1>1, <1>8 DEF PlayScene
  <2>2. q \in Quote /\ IF scene >= 4 /\ r # "none" THEN q.steps = <<ManagerStep>>
                                                    ELSE StepsMatchStatus(q)
    BY <2>1, DemoQuoteLegal
  <2>3. forced' = IF scene >= 4 /\ r # "none" THEN forced \cup {Len(quotes) + 1} ELSE forced
    BY <1>8 DEF PlayScene
  <2> HIDE DEF q
  <2> QED
    BY <2>1, <2>2, <2>3, QuoteAdded
<1>9. CASE DemoNext
  BY <1>7, <1>8, <1>9 DEF DemoNext
<1>10. CASE UNCHANGED setupVars
  BY <1>1, <1>2, <1>10 DEF setupVars, businessVars, demoVars
<1> QED
  BY <1>3, <1>6, <1>9, <1>10 DEF SetupNext

\* Whatever the seeds and the demo flow create, on whatever route, run together
\* and stopped wherever, a quotation's steps are those its status needs; only
\* the demo flow's won quotations may have the manager's step waiting, and then
\* no other.
THEOREM SeedsAreLegal == SetupSpec => []SeededQuotesAreLegal
<1>1. SetupInit => QuotesInv
  BY DEF SetupInit, QuotesInv, SeededQuotesAreLegal, Ids
<1>2. QuotesInv => SeededQuotesAreLegal
  BY DEF QuotesInv
<1> QED
  BY <1>1, <1>2, QuotesStep, PTL DEF SetupSpec

-----------------------------------------------------------------------------
(***************************************************************************)
(* Setup: the types.                                                       *)
(***************************************************************************)

BusinessTypes ==
  /\ Len(quotes) <= MaxQuotes
  /\ created \in [FullSeeders -> SUBSET [id : Ids, target : Targets]]

SetupInv == SchemaInv /\ ReferenceInv /\ QuotesInv /\ BusinessTypes

\* Between them the invariants type every variable.
LEMMA SetupInvTypes == SetupInv => SetupTypeOK
BY DEF SetupInv, SchemaInv, SchemaTypes, ReferenceInv, ReferenceTypes, QuotesInv,
   BusinessTypes, SetupTypeOK

\* No quotation is added, and a run of the full seed may forget its own.
LEMMA ForgettingKeepsTypes ==
  ASSUME BusinessTypes, quotes \in Seq(Quote), quotes' \in Seq(Quote),
         DOMAIN quotes' = DOMAIN quotes,
         \/ created' = created
         \/ \E s \in FullSeeders : created' = [created EXCEPT ![s] = {}]
  PROVE  BusinessTypes'
<1>1. Len(quotes') = Len(quotes) /\ Ids' = Ids
  BY DEF Ids
<1>2. created' \in [FullSeeders -> SUBSET [id : Ids, target : Targets]]
  BY DEF BusinessTypes
<1> QED
  BY <1>1, <1>2 DEF BusinessTypes

\* A quotation is added, by a full seed or by the demo flow.
LEMMA AddingKeepsTypes ==
  ASSUME BusinessTypes, quotes \in Seq(Quote),
         NEW q, quotes' = Append(quotes, q), Len(quotes) < MaxQuotes,
         \/ created' = created
         \/ \E s \in FullSeeders, target \in Targets :
              created' = [created EXCEPT ![s] = created[s] \cup
                            {[id |-> Len(quotes) + 1, target |-> target]}]
  PROVE  BusinessTypes'
<1>1. MaxQuotes \in Nat /\ Len(quotes) \in Nat /\ Ids = 1..Len(quotes)
  BY BoundAssumption DEF Ids
<1>2. Len(quotes') = Len(quotes) + 1 /\ Ids' = 1..(Len(quotes) + 1)
  BY <1>1 DEF Ids
<1> DEFINE Entries == [id : Ids', target : Targets]
<1>3. \A target \in Targets : [id |-> Len(quotes) + 1, target |-> target] \in Entries
  BY <1>1, <1>2
<1>4. [id : Ids, target : Targets] \subseteq Entries
  BY <1>1, <1>2
<1> HIDE DEF Entries
<1>5. created \in [FullSeeders -> SUBSET Entries]
  BY <1>4 DEF BusinessTypes
<1>6. created' \in [FullSeeders -> SUBSET Entries]
  BY <1>3, <1>5
<1>7. Len(quotes') <= MaxQuotes
  BY <1>1, <1>2
<1> QED
  BY <1>6, <1>7 DEF BusinessTypes, Entries

\* No step of any script leaves the types.
LEMMA BusinessStep ==
  ASSUME SetupInv, QuotesInv', [SetupNext]_setupVars
  PROVE  BusinessTypes'
<1>1. BusinessTypes /\ quotes \in Seq(Quote) /\ quotes' \in Seq(Quote)
  BY DEF SetupInv, QuotesInv
<1>2. created = [s \in FullSeeders |-> created[s]]
  BY <1>1 DEF BusinessTypes
<1>3. ASSUME UNCHANGED <<quotes, created>> PROVE BusinessTypes'
  BY <1>1, <1>3, ForgettingKeepsTypes
<1>4. CASE MigratorNext \/ SeedNext
  <2>1. UNCHANGED <<quotes, created>>
    BY <1>4 DEF MigratorNext, SeedNext, Lock, ReadApplied, Execute, Record, Finish,
      MigratorStops, Release, BeginSeed, Upsert, InsertMissing, CommitSeed, SeedStops,
      businessVars
  <2> QED
    BY <1>3, <2>1
<1>5. ASSUME NEW s \in FullSeeders,
             \/ SeedUsers(s) \/ SeedCustomers(s) \/ SeedProducts(s) \/ Upsert(s)
             \/ InsertMissing(s) \/ CommitLayer(s) \/ QuotesDone(s)
      PROVE  BusinessTypes'
  <2>1. UNCHANGED <<quotes, created>>
    BY <1>5 DEF SeedUsers, SeedCustomers, SeedProducts, Upsert, InsertMissing, CommitLayer,
      QuotesDone, businessVars
  <2> QED
    BY <1>3, <2>1
<1>6. ASSUME NEW s \in FullSeeders, FullSeedStops(s) PROVE BusinessTypes'
  <2>1. quotes' = quotes /\ created' = [created EXCEPT ![s] = {}]
    BY <1>6 DEF FullSeedStops
  <2> QED
    BY <1>1, <2>1, ForgettingKeepsTypes
<1>7. ASSUME NEW s \in FullSeeders, NEW target \in Targets, NEW r \in Routes,
             SeedQuote(s, target, r)
      PROVE  BusinessTypes'
  <2>1. /\ quotes' = Append(quotes, SeededQuote(target, r)) /\ Len(quotes) < MaxQuotes
        /\ created' = [created EXCEPT ![s] = created[s] \cup
                         {[id |-> Len(quotes) + 1, target |-> target]}]
    BY <1>2, <1>7 DEF SeedQuote
  <2> QED
    BY <1>1, <2>1, AddingKeepsTypes
<1>8. ASSUME NEW s \in FullSeeders,
             \/ SeedNegotiation(s) \/ SeedOrders(s) \/ SeedInvoices(s)
             \/ SeedSubscriptions(s) \/ SeedDealHealth(s)
      PROVE  BusinessTypes'
  <2>1. /\ DOMAIN quotes' = DOMAIN quotes
        /\ \/ created' = [created EXCEPT ![s] = {}]
           \/ created' = [created EXCEPT ![s] = created[s]]
    BY <1>2, <1>8 DEF SeedNegotiation, SeedOrders, SeedInvoices, SeedSubscriptions,
      SeedDealHealth, LayerWrites, Ids
  <2>2. [created EXCEPT ![s] = created[s]] = created
    BY <1>2
  <2> QED
    BY <1>1, <2>1, <2>2, ForgettingKeepsTypes
<1>9. CASE FullSeedNext
  BY <1>5, <1>6, <1>7, <1>8, <1>9 DEF FullSeedNext
<1>10. CASE StartDemo \/ DemoStops
  BY <1>3, <1>10 DEF StartDemo, DemoStops
<1>11. ASSUME NEW r \in Routes, PlayScene(r) PROVE BusinessTypes'
  <2>1. \E q : quotes' = Append(quotes, q) /\ Len(quotes) < MaxQuotes /\ created' = created
    BY <1>11 DEF PlayScene
  <2> QED
    BY <1>1, <2>1, AddingKeepsTypes
<1>12. CASE DemoNext
  BY <1>10, <1>11, <1>12 DEF DemoNext
<1>13. CASE UNCHANGED setupVars
  BY <1>3, <1>13 DEF setupVars, businessVars
<1> QED
  BY <1>4, <1>9, <1>12, <1>13 DEF SetupNext

\* Stopped and run again in any order, the scripts keep every table within its
\* columns' values, and a full seed never runs past its last layer.
THEOREM SetupTypeCorrect == SetupSpec => []SetupTypeOK
<1>1. SetupInit => SetupInv
  <2> SUFFICES ASSUME SetupInit PROVE SetupInv
    OBVIOUS
  <2>1. QuotesInv
    BY DEF SetupInit, QuotesInv, SeededQuotesAreLegal, Ids
  <2>2. BusinessTypes
    BY BoundAssumption DEF SetupInit, BusinessTypes
  <2> QED
    BY <2>1, <2>2, SchemaInit, ReferenceInit DEF SetupInv
<1>2. SetupInv /\ [SetupNext]_setupVars => SetupInv'
  BY SchemaStep, ReferenceStep, QuotesStep, BusinessStep DEF SetupInv
<1> QED
  BY <1>1, <1>2, SetupInvTypes, PTL DEF SetupSpec

=============================================================================
