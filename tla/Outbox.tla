------------------------------- MODULE Outbox -------------------------------
(***************************************************************************)
(* How a change of the business and the event that announces it get out:   *)
(* the requests that write in one transaction (inTransaction and the       *)
(* hand-written BEGIN ... COMMIT of domains/ and of the accounts), most of *)
(* them with an event, some without; those that write by pool.query; the   *)
(* connections of the pool they share; and the relay of                    *)
(* infrastructure/events that dispatches the events which outbox_events    *)
(* holds unpublished.                                                      *)
(*                                                                         *)
(* A request runs once: its change and its event are known by its name.    *)
(* pool.query borrows a connection for one statement, which on a           *)
(* connection with a transaction left open is part of that transaction.    *)
(***************************************************************************)
EXTENDS Naturals, FiniteSets, Sequences

CONSTANTS
  Conns,     \* the connections of the pool (pg's default: ten)
  Requests,  \* requests that change something
  Nesting,   \* those that query the pool while they hold a connection
  Silent,    \* those whose change has no event
  Careless,  \* silent ones that may find nothing to change and return after BEGIN
  Plain,     \* silent ones whose change is one statement of pool.query
  Relays,    \* runs of the outbox relay
  Batch,     \* fetchUnpublished(50)
  MaxFailures, \* bound: attempts to dispatch that fail
  MaxStops,  \* bound: stops of the process
  Nobody     \* holds an idle connection

ASSUME KindsAssumption ==
  /\ Nesting \cup Silent \subseteq Requests
  /\ Careless \cup Plain \subseteq Silent
  /\ Plain \cap (Nesting \cup Careless) = {}
ASSUME BatchAssumption ==
  Batch \in Nat \ {0} /\ {MaxFailures, MaxStops} \subseteq Nat
ASSUME NobodyAssumption == Nobody \notin Requests

VARIABLES
  conn,        \* each connection: its holder, its transaction's rows
  durable,     \* committed rows: changes, events, and published_at of events
  state,       \* how far each request is
  started,     \* requests in the order of now() of their transactions
  relay,       \* each relay: events to dispatch and events dispatched
  dispatched,  \* history: events handed to their consumers
  attempts,    \* history: dispatches that failed
  stops        \* history: stops of the process

vars == <<conn, durable, state, started, relay, dispatched, attempts, stops>>

-----------------------------------------------------------------------------

Row == [kind : {"change", "event", "published"}, of : Requests]
Change(r) == [kind |-> "change", of |-> r]
Event(r) == [kind |-> "event", of |-> r]
Published(r) == [kind |-> "published", of |-> r]

States == {"new", "begun", "nested", "written", "done", "empty", "failed"}
Running == {"begun", "nested", "written"}
Ended == {"done", "empty", "failed"}

Clean == [by |-> Nobody, open |-> FALSE, rows |-> {}]
Relaying == [pc : {"idle", "dispatching"}, todo : SUBSET Requests, sent : SUBSET Requests]
Resting == [pc |-> "idle", todo |-> {}, sent |-> {}]

TypeOK ==
  /\ conn \in [Conns -> [by : Requests \cup {Nobody}, open : BOOLEAN, rows : SUBSET Row]]
  /\ durable \subseteq Row
  /\ state \in [Requests -> States]
  /\ started \in Seq(Requests)
  /\ relay \in [Relays -> Relaying]
  /\ dispatched \subseteq Requests
  /\ attempts \in 0..MaxFailures
  /\ stops \in 0..MaxStops

Init ==
  /\ conn = [c \in Conns |-> Clean]
  /\ durable = {}
  /\ state = [r \in Requests |-> "new"]
  /\ started = <<>>
  /\ relay = [w \in Relays |-> Resting]
  /\ dispatched = {}
  /\ attempts = 0
  /\ stops = 0

Idle == {c \in Conns : conn[c].by = Nobody}
Holds(r, c) == conn[c].by = r

\* pool.query: one statement that writes rows, on any idle connection.
Autocommit(rows) ==
  \E c \in Idle :
    IF conn[c].open
    THEN conn' = [conn EXCEPT ![c].rows = @ \cup rows] /\ UNCHANGED durable
    ELSE durable' = durable \cup rows /\ UNCHANGED conn

-----------------------------------------------------------------------------
(***************************************************************************)
(* A request and its transaction.                                          *)
(***************************************************************************)

\* pool.connect and BEGIN, by inTransaction, by hand (nudgeRep), or by the scan
\* of the deals' health for one quotation after the other (assessAndStore).  A
\* BEGIN in an open transaction only warns.
Begin(r) ==
  /\ r \notin Plain
  /\ state[r] = "new"
  /\ \E c \in Idle : conn' = [conn EXCEPT ![c].by = r, ![c].open = TRUE]
  /\ state' = [state EXCEPT ![r] = "begun"]
  /\ started' = Append(started, r)
  /\ UNCHANGED <<durable, relay, dispatched, attempts, stops>>

\* getNextSequenceNumber, resolveContactId: a query of the pool in between.
QueryPool(r) ==
  /\ r \in Nesting
  /\ state[r] = "begun"
  /\ Idle # {}
  /\ state' = [state EXCEPT ![r] = "nested"]
  /\ UNCHANGED <<conn, durable, started, relay, dispatched, attempts, stops>>

MayWrite(r) == state[r] = IF r \in Nesting THEN "nested" ELSE "begun"

Rows(r) == IF r \in Silent THEN {Change(r)} ELSE {Change(r), Event(r)}

\* Variant (fault model): the event is inserted through the pool.
WriteEventThroughPool(r) ==
  /\ MayWrite(r)
  /\ durable' = durable \cup (Rows(r) \ {Change(r)})
  /\ \E c \in Conns :
       Holds(r, c) /\ conn' = [conn EXCEPT ![c].rows = @ \cup {Change(r)}]
  /\ state' = [state EXCEPT ![r] = "written"]
  /\ UNCHANGED <<started, relay, dispatched, attempts, stops>>

\* On the request's own connection: the business change and, unless the request
\* is silent, its event (writeAuditAndOutbox, insertOutboxEvent, the collectors'
\* flush).  Silent are a tier's entitlement, a category's ceiling, a customer's
\* tier by an administrator, the scan's assessment, registration and a password
\* that is reset.
Write(r) ==
  /\ MayWrite(r)
  /\ \E c \in Conns :
       Holds(r, c) /\ conn' = [conn EXCEPT ![c].rows = @ \cup Rows(r)]
  /\ state' = [state EXCEPT ![r] = "written"]
  /\ UNCHANGED <<durable, started, relay, dispatched, attempts, stops>>

\* Whatever the connection's transaction holds is committed with the request's
\* own rows.
Commit(r) ==
  /\ state[r] = "written"
  /\ \E c \in Conns :
       /\ Holds(r, c)
       /\ durable' = durable \cup conn[c].rows
       /\ conn' = [conn EXCEPT ![c] = Clean]
  /\ state' = [state EXCEPT ![r] = "done"]
  /\ UNCHANGED <<started, relay, dispatched, attempts, stops>>

\* Variant (fault model): no finally clause.
RollbackKeepingConnection(r) ==
  /\ state[r] \in Running
  /\ \E c \in Conns :
       Holds(r, c) /\ conn' = [conn EXCEPT ![c].open = FALSE, ![c].rows = {}]
  /\ state' = [state EXCEPT ![r] = "failed"]
  /\ UNCHANGED <<durable, started, relay, dispatched, attempts, stops>>

\* Any statement may throw.
Rollback(r) ==
  /\ state[r] \in Running
  /\ \E c \in Conns : Holds(r, c) /\ conn' = [conn EXCEPT ![c] = Clean]
  /\ state' = [state EXCEPT ![r] = "failed"]
  /\ UNCHANGED <<durable, started, relay, dispatched, attempts, stops>>

FindsNothing(r) == r \in Careless /\ state[r] = "begun"

\* updateTierEntitlement, updateCategoryCeiling and assessAndStore: "return
\* null" after BEGIN gives the connection back with its transaction open.
ReturnEarly(r) ==
  /\ FindsNothing(r)
  /\ \E c \in Conns : Holds(r, c) /\ conn' = [conn EXCEPT ![c].by = Nobody]
  /\ state' = [state EXCEPT ![r] = "empty"]
  /\ UNCHANGED <<durable, started, relay, dispatched, attempts, stops>>

\* pool.query by login, logout, forgotPassword and changePassword (one request
\* here for each statement): answered as done once the statement ran, even in a
\* transaction that was left open.
WritePlainly(r) ==
  /\ r \in Plain
  /\ state[r] = "new"
  /\ Autocommit({Change(r)})
  /\ state' = [state EXCEPT ![r] = "done"]
  /\ UNCHANGED <<started, relay, dispatched, attempts, stops>>

\* The statement fails.  (That it aborts a transaction left open as well is a
\* CloseIdle that follows.)
FailPlainly(r) ==
  /\ r \in Plain
  /\ state[r] = "new"
  /\ Idle # {}
  /\ state' = [state EXCEPT ![r] = "failed"]
  /\ UNCHANGED <<conn, durable, started, relay, dispatched, attempts, stops>>

\* The pool closes a connection that was idle for ten seconds; PostgreSQL rolls
\* its transaction back.
CloseIdle(c) ==
  /\ c \in Idle
  /\ conn[c].open
  /\ conn' = [conn EXCEPT ![c] = Clean]
  /\ UNCHANGED <<durable, state, started, relay, dispatched, attempts, stops>>

-----------------------------------------------------------------------------
(***************************************************************************)
(* The relay: processOutbox.                                               *)
(***************************************************************************)

\* Rows a statement on c sees: the committed ones and its transaction's own.
Visible(c) == durable \cup conn[c].rows

UnpublishedOn(c) ==
  {r \in Requests : Event(r) \in Visible(c) /\ Published(r) \notin Visible(c)}

\* ORDER BY created_at, which is when the transaction began.
Before(r, s) == \E i, j \in DOMAIN started : i < j /\ started[i] = r /\ started[j] = s
Oldest(events) ==
  {r \in events : Cardinality({s \in events : Before(s, r)}) < Batch}

\* fetchUnpublished looks at published_at only, so a failed event is fetched
\* again.
FetchUnpublished(w) ==
  /\ relay[w].pc = "idle"
  /\ \E c \in Idle :
       /\ UnpublishedOn(c) # {}
       /\ relay' = [relay EXCEPT ![w] =
            [pc |-> "dispatching", todo |-> Oldest(UnpublishedOn(c)), sent |-> {}]]
  /\ UNCHANGED <<conn, durable, state, started, dispatched, attempts, stops>>

\* One event after the other.
IsNext(w, r) ==
  r \in relay[w].todo /\ \A s \in relay[w].todo \ {r} : Before(r, s)

Handled(w, r) ==
  [relay EXCEPT ![w] =
     [pc |-> "dispatching", todo |-> @.todo \ {r}, sent |-> @.sent \cup {r}]]
Skipped(w, r) ==
  [relay EXCEPT ![w] = [pc |-> "dispatching", todo |-> @.todo \ {r}, sent |-> @.sent]]

\* Variant (fault model): published before it is dispatched.
DispatchAfterMark(w) ==
  \E r \in Requests :
    /\ IsNext(w, r)
    /\ Autocommit({Published(r)})
    /\ relay' = Skipped(w, r)
    /\ UNCHANGED <<state, started, dispatched, attempts, stops>>

Dispatch(w) ==
  \E r \in Requests :
    /\ IsNext(w, r)
    /\ dispatched' = dispatched \cup {r}
    /\ relay' = Handled(w, r)
    /\ UNCHANGED <<conn, durable, state, started, attempts, stops>>

\* markFailed counts the attempt; the next fetch finds the event again.
MarkFailed(w) ==
  \E r \in Requests :
    /\ IsNext(w, r)
    /\ attempts < MaxFailures
    /\ attempts' = attempts + 1
    /\ Idle # {}
    /\ relay' = Skipped(w, r)
    /\ UNCHANGED <<conn, durable, state, started, dispatched, stops>>

\* One UPDATE for everything that was dispatched.
MarkPublished(w) ==
  /\ relay[w].pc = "dispatching"
  /\ relay[w].todo = {}
  /\ Autocommit({Published(r) : r \in relay[w].sent})
  /\ relay' = [relay EXCEPT ![w] = Resting]
  /\ UNCHANGED <<state, started, dispatched, attempts, stops>>

-----------------------------------------------------------------------------

\* The process stops and starts again: open transactions are rolled back, the
\* relays forget what they dispatched.
Stop ==
  /\ stops < MaxStops
  /\ stops' = stops + 1
  /\ conn' = [c \in Conns |-> Clean]
  /\ state' = [r \in Requests |-> IF state[r] \in Running THEN "failed" ELSE state[r]]
  /\ relay' = [w \in Relays |-> Resting]
  /\ UNCHANGED <<durable, started, dispatched, attempts>>

RequestNext(r) ==
  \/ Begin(r) \/ QueryPool(r) \/ Write(r) \/ Commit(r) \/ Rollback(r) \/ ReturnEarly(r)
  \/ WritePlainly(r) \/ FailPlainly(r)

RelayNext(w) ==
  FetchUnpublished(w) \/ Dispatch(w) \/ MarkFailed(w) \/ MarkPublished(w)

Next ==
  \/ \E r \in Requests : RequestNext(r)
  \/ \E w \in Relays : RelayNext(w)
  \/ \E c \in Conns : CloseIdle(c)
  \/ Stop

Spec == Init /\ [][Next]_vars

\* A request goes on when a connection lets it.  Nothing else has to happen:
\* nobody has to fail, to stop the process or to close an idle connection, and
\* nothing in the repository schedules the relay.
GoesOn(r) ==
  Begin(r) \/ QueryPool(r) \/ Write(r) \/ Commit(r) \/ ReturnEarly(r) \/ WritePlainly(r)

Fairness == \A r \in Requests : WF_vars(GoesOn(r))

FairSpec == Spec /\ Fairness

-----------------------------------------------------------------------------
(***************************************************************************)
(* Properties.                                                             *)
(***************************************************************************)

\* Some request returned with its transaction open.
LeftOpen == \E r \in Requests : state[r] = "empty"

\* What the answer says is what was committed.  A change made in a transaction is
\* durable exactly when its request was answered as done, and so is its event
\* when it has one, also on a connection that was returned with a transaction
\* open: business state and event "commit together or all roll back", which the
\* repository's documentation asks of every write and the silent ones leave out.
\* A statement of pool.query promises less: it may have run inside a transaction
\* somebody left open, and be answered as done and rolled back.
AnswersAreTrue ==
  \A r \in Requests :
    /\ r \notin Silent => (Event(r) \in durable <=> Change(r) \in durable)
    /\ Change(r) \in durable => state[r] = "done"
    /\ state[r] = "done" => Change(r) \in durable \/ (r \in Plain /\ LeftOpen)

\* Consumers only ever observe committed state, and an event is not marked as
\* published before it was handed to them: stops, failures and connections with
\* a transaction left open can repeat an event, never lose or invent one.
DispatchedOnceCommitted ==
  /\ \A r \in dispatched : Event(r) \in durable
  /\ \A r \in Requests :
       (\/ Published(r) \in durable
        \/ \E c \in Conns : Published(r) \in conn[c].rows) => r \in dispatched

\* Every connection is held by a request that waits for another connection.
Exhausted ==
  \A c \in Conns : \E r \in Nesting : Holds(r, c) /\ state[r] = "begun"

\* Every request that arrives ends, unless the requests that need a second
\* connection come to hold the whole pool, where they wait for each other and
\* everybody for them: the pool has no limit on waiting.  Whatever else happens,
\* connections are given back.
RequestsEnd ==
  \A r \in Requests : (state[r] = "new") ~> (state[r] \in Ended \/ Exhausted)

=============================================================================
