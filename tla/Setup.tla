--------------------------------- MODULE Setup ---------------------------------
(***************************************************************************)
(* The scripts that bring a database up: db:migrate, db:seed, the full     *)
(* seed with its nine layers and the demo flow.  Each may be started by    *)
(* several people at once, stop at any point and be run again, except the  *)
(* demo flow, of which one runs at a time.                                 *)
(*                                                                         *)
(* A transaction's statements are separate steps where another script's    *)
(* transaction can come in between; what it wrote is seen by the others    *)
(* when it commits and is gone when the script stops.  The layers that     *)
(* work only on rows of their own run are one step each.  The demo flow's  *)
(* reset of the stock is not modelled.                                     *)
(***************************************************************************)
EXTENDS Naturals, FiniteSets, Sequences

CONSTANTS
  LastMigration,  \* the files of database/migrations are 1..LastMigration
  Migrators,      \* runs of migrate.js
  Seeders,        \* runs of seed.js
  FullSeeders,    \* runs of full-seed.js
  NoMigrator,     \* nobody holds the lock
  MaxQuotes       \* bound: quotations the seeds create

ASSUME MigrationsAssumption == LastMigration \in Nat \ {0}
ASSUME NoMigratorAssumption == NoMigrator \notin Migrators
ASSUME SeedersAssumption == FullSeeders \cap Seeders = {}
ASSUME BoundAssumption == MaxQuotes \in Nat

VARIABLES
  applied,   \* schema_migrations
  lock,      \* holder of the advisory lock
  migrator,  \* what each migrator is doing: todo are the files it will apply
  rows,      \* reference rows without a unique key: how many there are
  present,   \* rows with a unique key that exist: accounts; products and other codes
  seeder,    \* transaction of each seeding run on the reference data
  crossed,   \* history: two runs of full-seed.js were both at the customers
  quotes,    \* quotations in the order of creation, with what hangs on them
  created,   \* createdQuotes of each full seed: the quotation and its target
  layer,     \* next layer of each full seed, 0 when it does not run
  scene,     \* next quotation of the demo flow, 0 when it does not run
  forced     \* history: quotations the demo flow put past a step that waits

schemaVars == <<applied, lock, migrator>>
referenceVars == <<rows, present, seeder, crossed>>
demoVars == <<scene, forced>>
businessVars == <<quotes, created, layer, demoVars>>
setupVars == <<schemaVars, referenceVars, businessVars>>

-----------------------------------------------------------------------------

Migrations == 1..LastMigration
Least(S) == CHOOSE x \in S : \A y \in S : x <= y

Migrator == [pc : {"idle", "locked", "running", "executed", "failed"},
             todo : SUBSET Migrations]

ReferenceRows == {"policy", "customer", "newCustomer", "priceList", "newPriceList"}
Upserted == {"accounts", "products"}

\* What each transaction writes, in its order: the tables it updates on
\* conflict and the rows it inserts where it finds none.
SeedSteps == <<"accounts", "policy", "customer", "products", "priceList">>
UserSteps == <<"accounts">>
CustomerSteps == <<"customer", "newCustomer">>
ProductSteps == <<"products", "priceList", "newPriceList">>

Runs == Seeders \cup FullSeeders
Seeder == [pc : {"idle", "open"}, holds : SUBSET Upserted,
           left : Seq(ReferenceRows \cup Upserted), inserted : SUBSET ReferenceRows]
NoTransaction == [pc |-> "idle", holds |-> {}, left |-> <<>>, inserted |-> {}]

Routes == {"none", "manager", "manager_then_finance"}
Awaiting == {"pending_manager_approval", "pending_finance_approval"}
Negotiable == {"sent_to_customer", "under_negotiation", "customer_confirmed"}
Targets == Awaiting \cup Negotiable \cup {"draft", "approved", "rejected", "expired"}
Statuses == Targets \cup {"paid"}

ManagerStep == [role |-> "sales_manager", status |-> "pending"]
FinanceStep == [role |-> "finance_operations", status |-> "pending"]
Step == [role : {"sales_manager", "finance_operations"},
         status : {"pending", "approved", "superseded"}]
Quote == [status : Statuses, steps : Seq(Step), case : {"none", "open", "resolved"},
          order : {"none", "planned", "allocated"}, invoice : {"none", "issued", "paid"},
          subscribed : BOOLEAN, assessed : BOOLEAN]

Ids == DOMAIN quotes

SetupTypeOK ==
  /\ applied \subseteq Migrations
  /\ lock \in Migrators \cup {NoMigrator}
  /\ migrator \in [Migrators -> Migrator]
  /\ rows \in [ReferenceRows -> Nat]
  /\ present \subseteq Upserted
  /\ seeder \in [Runs -> Seeder]
  /\ crossed \in BOOLEAN
  /\ quotes \in Seq(Quote) /\ Len(quotes) <= MaxQuotes
  /\ created \in [FullSeeders -> SUBSET [id : Ids, target : Targets]]
  /\ layer \in [FullSeeders -> 0..9]
  /\ scene \in 0..5 /\ forced \subseteq Ids

SetupInit ==
  /\ applied = {} /\ lock = NoMigrator
  /\ migrator = [m \in Migrators |-> [pc |-> "idle", todo |-> {}]]
  /\ rows = [k \in ReferenceRows |-> 0] /\ present = {}
  /\ seeder = [s \in Runs |-> NoTransaction] /\ crossed = FALSE
  /\ quotes = <<>>
  /\ created = [s \in FullSeeders |-> {}] /\ layer = [s \in FullSeeders |-> 0]
  /\ scene = 0 /\ forced = {}

-----------------------------------------------------------------------------
(***************************************************************************)
(* migrate.js.                                                             *)
(***************************************************************************)

\* Variant (fault model): pg_try_advisory_lock, its answer not looked at.
LockWithoutWaiting(m) ==
  /\ migrator[m].pc = "idle"
  /\ migrator' = [migrator EXCEPT ![m].pc = "locked"]
  /\ lock' = m
  /\ UNCHANGED <<applied, referenceVars, businessVars>>

\* pg_advisory_lock waits for the session that holds it.
Lock(m) ==
  /\ migrator[m].pc = "idle" /\ lock = NoMigrator
  /\ migrator' = [migrator EXCEPT ![m].pc = "locked"]
  /\ lock' = m
  /\ UNCHANGED <<applied, referenceVars, businessVars>>

ReadApplied(m) ==
  /\ migrator[m].pc = "locked"
  /\ migrator' = [migrator EXCEPT ![m] = [pc |-> "running", todo |-> Migrations \ applied]]
  /\ UNCHANGED <<applied, lock, referenceVars, businessVars>>

\* BEGIN and the file's statements, which create tables and columns and so
\* fail when the file has been applied.
Execute(m) ==
  /\ migrator[m].pc = "running" /\ migrator[m].todo # {}
  /\ migrator' = [migrator EXCEPT ![m].pc =
       IF Least(migrator[m].todo) \in applied THEN "failed" ELSE "executed"]
  /\ UNCHANGED <<applied, lock, referenceVars, businessVars>>

\* The row of schema_migrations, whose key is the file name, and COMMIT.
Record(m) ==
  LET file == Least(migrator[m].todo)
  IN /\ migrator[m].pc = "executed"
     /\ \/ /\ file \in applied
           /\ migrator' = [migrator EXCEPT ![m].pc = "failed"]
           /\ UNCHANGED applied
        \/ /\ file \notin applied
           /\ applied' = applied \cup {file}
           /\ migrator' = [migrator EXCEPT ![m] =
                             [pc |-> "running", todo |-> @.todo \ {file}]]
     /\ UNCHANGED <<lock, referenceVars, businessVars>>

\* The end of the script or of its session gives the lock back.
Release(m) ==
  /\ migrator' = [migrator EXCEPT ![m] = [pc |-> "idle", todo |-> {}]]
  /\ lock' = IF lock = m THEN NoMigrator ELSE lock
  /\ UNCHANGED <<applied, referenceVars, businessVars>>

Finish(m) ==
  /\ \/ migrator[m].pc = "running" /\ migrator[m].todo = {}
     \/ migrator[m].pc = "failed"
  /\ Release(m)

MigratorStops(m) == migrator[m].pc \in {"locked", "running", "executed"} /\ Release(m)

-----------------------------------------------------------------------------
(***************************************************************************)
(* The reference data: seed.js in one transaction, the first three layers  *)
(* of full-seed.js in three.                                               *)
(***************************************************************************)

Migrated == applied = Migrations

Begins(s, steps) ==
  /\ seeder[s].pc = "idle"
  /\ seeder' = [seeder EXCEPT ![s] =
                  [pc |-> "open", holds |-> {}, left |-> steps, inserted |-> {}]]

BeginSeed(s) ==
  /\ Migrated /\ Begins(s, SeedSteps)
  /\ UNCHANGED <<schemaVars, rows, present, crossed, businessVars>>

\* Somebody else has written the table's rows and not committed.
Held(s, table) == \E o \in Runs \ {s} : table \in seeder[o].holds

\* Variant (fault model): ON CONFLICT DO NOTHING, which waits for nobody once
\* the rows are there.
UpsertSkipping(s) ==
  /\ seeder[s].pc = "open" /\ seeder[s].left # <<>>
  /\ LET table == Head(seeder[s].left)
     IN /\ table \in Upserted /\ (Held(s, table) => table \in present)
        /\ seeder' = [seeder EXCEPT ![s].left = Tail(@), ![s].holds = @ \cup {table}]
  /\ UNCHANGED <<schemaVars, rows, present, crossed, businessVars>>

\* INSERT ... ON CONFLICT DO UPDATE, of the accounts or of the products, writes
\* the table's rows and waits for who else has written them.
Upsert(s) ==
  /\ seeder[s].pc = "open" /\ seeder[s].left # <<>>
  /\ LET table == Head(seeder[s].left)
     IN /\ table \in Upserted /\ ~Held(s, table)
        /\ seeder' = [seeder EXCEPT ![s].left = Tail(@), ![s].holds = @ \cup {table}]
  /\ UNCHANGED <<schemaVars, rows, present, crossed, businessVars>>

\* WHERE NOT EXISTS, or a SELECT before the INSERT: sees what is committed.
InsertMissing(s) ==
  /\ seeder[s].pc = "open" /\ seeder[s].left # <<>>
  /\ LET k == Head(seeder[s].left)
     IN /\ k \in ReferenceRows
        /\ seeder' = [seeder EXCEPT
             ![s].left = Tail(@),
             ![s].inserted = IF rows[k] = 0 THEN @ \cup {k} ELSE @]
  /\ UNCHANGED <<schemaVars, rows, present, crossed, businessVars>>

Commits(s) ==
  /\ seeder[s].pc = "open" /\ seeder[s].left = <<>>
  /\ rows' = [k \in ReferenceRows |-> rows[k] + IF k \in seeder[s].inserted THEN 1 ELSE 0]
  /\ present' = present \cup seeder[s].holds
  /\ seeder' = [seeder EXCEPT ![s] = NoTransaction]
  /\ UNCHANGED <<schemaVars, crossed>>

\* With the products come the tiers, categories, warehouses, plans and stock of
\* seed.js, which have unique codes.
CommitSeed(s) == Commits(s) /\ UNCHANGED businessVars

SeedStops(s) ==
  /\ seeder[s].pc = "open"
  /\ seeder' = [seeder EXCEPT ![s] = NoTransaction]
  /\ UNCHANGED <<schemaVars, rows, present, crossed, businessVars>>

SeedUsers(s) ==
  /\ Migrated /\ layer[s] = 0 /\ Begins(s, UserSteps)
  /\ layer' = [layer EXCEPT ![s] = 1]
  /\ UNCHANGED <<schemaVars, rows, present, crossed, quotes, created, demoVars>>

AtCustomers(s) == layer[s] = 2 /\ seeder[s].pc = "open"

\* rowId throws when db:seed has not been run.  Nothing in this transaction
\* waits for another run's.
SeedCustomers(s) ==
  /\ layer[s] = 2 /\ "products" \in present /\ Begins(s, CustomerSteps)
  /\ crossed' = (crossed \/ \E o \in FullSeeders : AtCustomers(o))
  /\ UNCHANGED <<schemaVars, rows, present, businessVars>>

\* Products, stock and plans have unique keys; price lists and rules have not.
SeedProducts(s) ==
  /\ layer[s] = 3 /\ Begins(s, ProductSteps)
  /\ UNCHANGED <<schemaVars, rows, present, crossed, businessVars>>

CommitLayer(s) ==
  /\ Commits(s)
  /\ layer' = [layer EXCEPT ![s] = @ + 1]
  /\ UNCHANGED <<quotes, created, demoVars>>

\* Stopped, or thrown out of: what was committed stays, createdQuotes is lost.
FullSeedStops(s) ==
  /\ layer[s] # 0
  /\ seeder' = [seeder EXCEPT ![s] = NoTransaction]
  /\ layer' = [layer EXCEPT ![s] = 0] /\ created' = [created EXCEPT ![s] = {}]
  /\ UNCHANGED <<schemaVars, rows, present, crossed, quotes, demoVars>>

-----------------------------------------------------------------------------
(***************************************************************************)
(* The quotations: created and routed by the service's own functions, then *)
(* put into the status they are to show.                                   *)
(***************************************************************************)

RoutedSteps(r) == IF r = "none" THEN <<>> ELSE <<ManagerStep>>
RoutedStatus(r) == IF r = "none" THEN "sent_to_customer" ELSE "pending_manager_approval"

Superseded(steps) ==
  [i \in DOMAIN steps |-> IF steps[i].status = "pending"
                          THEN [steps[i] EXCEPT !.status = "superseded"] ELSE steps[i]]

NewQuote(status, steps) ==
  [status |-> status, steps |-> steps, case |-> "none", order |-> "none",
   invoice |-> "none", subscribed |-> FALSE, assessed |-> FALSE]

\* Variant (fault model): the steps of the route stay pending.
MakeQuoteUnsuperseded(target, r) ==
  IF target \in Awaiting
  THEN NewQuote(RoutedStatus(r), RoutedSteps(r))
  ELSE NewQuote(target, RoutedSteps(r))

MakeQuote(target, r) ==
  IF target \in Awaiting
  THEN NewQuote(RoutedStatus(r), RoutedSteps(r))
  ELSE NewQuote(target, Superseded(RoutedSteps(r)))

\* The manager's step approved and Finance's added, when there is one.
PendingFinanceQuote(r) ==
  IF r = "none"
  THEN NewQuote("sent_to_customer", <<>>)
  ELSE NewQuote("pending_finance_approval",
                <<[ManagerStep EXCEPT !.status = "approved"], FinanceStep>>)

SeededQuote(target, r) ==
  IF target = "pending_finance_approval" THEN PendingFinanceQuote(r)
                                         ELSE MakeQuote(target, r)

\* Layer 4: a transaction each; a pending one that fails is left out.
SeedQuote(s, target, r) ==
  /\ layer[s] = 4 /\ Len(quotes) < MaxQuotes
  /\ quotes' = Append(quotes, SeededQuote(target, r))
  /\ created' = [created EXCEPT ![s] = @ \cup {[id |-> Len(quotes) + 1, target |-> target]}]
  /\ UNCHANGED <<schemaVars, referenceVars, layer, demoVars>>

QuotesDone(s) ==
  /\ layer[s] = 4
  /\ layer' = [layer EXCEPT ![s] = 5]
  /\ UNCHANGED <<schemaVars, referenceVars, quotes, created, demoVars>>

Created(s, targets) == {c.id : c \in {x \in created[s] : x.target \in targets}}

\* A layer rewrites the run's quotations in one transaction.
LayerWrites(s, n, Row(_)) ==
  /\ layer[s] = n
  /\ quotes' = [i \in Ids |-> Row(i)]
  /\ layer' = [layer EXCEPT ![s] = IF n = 9 THEN 0 ELSE n + 1]
  /\ created' = [created EXCEPT ![s] = IF n = 9 THEN {} ELSE @]
  /\ UNCHANGED <<schemaVars, referenceVars, demoVars>>

SeedNegotiation(s) ==
  LET Row(i) ==
        IF i \in Created(s, {"customer_confirmed"}) THEN [quotes[i] EXCEPT !.case = "resolved"]
        ELSE IF i \in Created(s, Negotiable) THEN [quotes[i] EXCEPT !.case = "open"]
        ELSE quotes[i]
  IN LayerWrites(s, 5, Row)

SeedOrders(s) ==
  LET Row(i) ==
        IF i \in Created(s, {"customer_confirmed"}) THEN [quotes[i] EXCEPT !.order = "allocated"]
        ELSE IF i \in Created(s, {"approved"}) THEN [quotes[i] EXCEPT !.order = "planned"]
        ELSE quotes[i]
  IN LayerWrites(s, 6, Row)

\* Every other confirmed quotation of the run is paid, the first to begin with.
SeedInvoices(s) ==
  LET confirmed == Created(s, {"customer_confirmed"})
      index(i) == Cardinality({j \in confirmed : j < i})
      Row(i) ==
        IF i \notin confirmed THEN quotes[i]
        ELSE [quotes[i] EXCEPT !.invoice = IF index(i) % 2 = 0 THEN "paid" ELSE "issued"]
  IN LayerWrites(s, 7, Row)

\* Which confirmed quotations have recurring lines depends on the line sets.
SeedSubscriptions(s) ==
  \E recurring \in SUBSET Created(s, {"customer_confirmed"}) :
    LET Row(i) == IF i \in recurring THEN [quotes[i] EXCEPT !.subscribed = TRUE] ELSE quotes[i]
    IN LayerWrites(s, 8, Row)

\* The first twenty that are not drafts, cancelled or expired.
SeedDealHealth(s) ==
  LET active == Created(s, Targets \ {"draft", "expired"})
      Row(i) == IF i \in active THEN [quotes[i] EXCEPT !.assessed = TRUE] ELSE quotes[i]
  IN LayerWrites(s, 9, Row)

-----------------------------------------------------------------------------
(***************************************************************************)
(* demo-flow.js: five quotations, a transaction each.                      *)
(***************************************************************************)

StartDemo ==
  /\ scene = 0 /\ "products" \in present
  /\ scene' = 1
  /\ UNCHANGED <<schemaVars, referenceVars, quotes, created, layer, forced>>

\* The first is left a draft, the second where its route puts it.
OpenDemoQuote(n, r) ==
  CASE n = 1 -> NewQuote("draft", <<>>)
    [] n = 2 -> NewQuote(RoutedStatus(r), RoutedSteps(r))
    [] n = 3 -> PendingFinanceQuote(r)

\* The status is forced whatever the route, and a step that waits is left so:
\* with the ceilings of db:seed nobody has to approve these two.
WonDemoQuote(n, r) ==
  CASE n = 4 -> [NewQuote("approved", RoutedSteps(r)) EXCEPT !.order = "allocated"]
    [] n = 5 -> [NewQuote("paid", RoutedSteps(r)) EXCEPT !.invoice = "paid"]

\* Ceilings and tiers may have been changed since db:seed.  The third has no
\* step to approve when its route is "none": the script throws and stops.
PlayScene(r) ==
  /\ scene # 0 /\ Len(quotes) < MaxQuotes
  /\ scene = 3 => r # "none"
  /\ quotes' = Append(quotes, IF scene <= 3 THEN OpenDemoQuote(scene, r)
                                           ELSE WonDemoQuote(scene, r))
  /\ scene' = (scene + 1) % 6
  /\ forced' = IF scene >= 4 /\ r # "none" THEN forced \cup {Len(quotes) + 1} ELSE forced
  /\ UNCHANGED <<schemaVars, referenceVars, created, layer>>

DemoStops ==
  /\ scene # 0
  /\ scene' = 0
  /\ UNCHANGED <<schemaVars, referenceVars, quotes, created, layer, forced>>

-----------------------------------------------------------------------------

MigratorNext ==
  \E m \in Migrators :
    Lock(m) \/ ReadApplied(m) \/ Execute(m) \/ Record(m) \/ Finish(m) \/ MigratorStops(m)
SeedNext ==
  \E s \in Seeders :
    BeginSeed(s) \/ Upsert(s) \/ InsertMissing(s) \/ CommitSeed(s) \/ SeedStops(s)
FullSeedNext ==
  \E s \in FullSeeders :
    \/ SeedUsers(s) \/ SeedCustomers(s) \/ SeedProducts(s)
    \/ Upsert(s) \/ InsertMissing(s) \/ CommitLayer(s) \/ FullSeedStops(s)
    \/ \E target \in Targets, r \in Routes : SeedQuote(s, target, r)
    \/ QuotesDone(s) \/ SeedNegotiation(s) \/ SeedOrders(s) \/ SeedInvoices(s)
    \/ SeedSubscriptions(s) \/ SeedDealHealth(s)
DemoNext == StartDemo \/ DemoStops \/ \E r \in Routes : PlayScene(r)

SetupNext == MigratorNext \/ SeedNext \/ FullSeedNext \/ DemoNext

SetupSpec == SetupInit /\ [][SetupNext]_setupVars

-----------------------------------------------------------------------------
(***************************************************************************)
(* What the scripts must keep right.                                       *)
(***************************************************************************)

\* Migrators started together, stopped anywhere and started again apply the
\* files in their order, and none of them trips over what another has applied.
MigratorsDoNotCollide ==
  /\ \A f \in applied : 1..f \subseteq applied
  /\ \A m \in Migrators : migrator[m].pc # "failed"

\* Seeding is idempotent, although only accounts and codes have unique keys:
\* whichever seeds run together, stop and run again, no reference row is there
\* twice.  The customers of full-seed.js are the exception: nothing orders two
\* runs there, and only when two were at them together may one be doubled.
ReferenceRowsOnce ==
  \A k \in ReferenceRows : rows[k] <= 1 \/ (k = "newCustomer" /\ crossed)

\* The seeds never leave a quotation the application could not have made: a
\* step waits for somebody exactly when the status says so, and Finance's only
\* after the manager has approved.  The exception are the demo flow's won
\* quotations when somebody had to approve them: the manager's step waits on.
StepsMatchStatus(q) ==
  CASE q.status = "pending_manager_approval" -> q.steps = <<ManagerStep>>
    [] q.status = "pending_finance_approval" ->
         q.steps = <<[ManagerStep EXCEPT !.status = "approved"], FinanceStep>>
    [] OTHER -> \A i \in DOMAIN q.steps : q.steps[i].status # "pending"

SeededQuotesAreLegal ==
  \A i \in Ids : IF i \in forced THEN quotes[i].steps = <<ManagerStep>>
                                ELSE StepsMatchStatus(quotes[i])

=============================================================================
