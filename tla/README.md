# DealFlow360: a verification project

DealFlow360 is a quote-to-cash service: Express handlers over PostgreSQL, a
customer portal and an internal web application. A quotation is drawn up by a
sales representative, approved by a manager and perhaps Finance, negotiated and
accepted by the customer, fulfilled from warehouses, invoiced and paid. Many
people act on the same rows at once, and what keeps them apart is one
optimistic lock (`lock_version`), a few `SELECT ... FOR UPDATE`, a few guarded
`UPDATE`s, foreign keys and a handful of unique indexes. The modules here say
what those are worth.

Source paths below are relative to `src/src/` unless they start with `src/`.

## 1. The system

| Part | State it keeps | Operations | Module |
|---|---|---|---|
| Quotation versions and submission (`interfaces/http/sales-rep/`, `domains/sales-rep/`) | `quotations` (status, current version, lock_version), `quotation_versions`, `risk_assessments` | createQuotation, createRevision, submitQuotation, sendToCustomer, acceptUpsell | QuoteLifecycle (and Intake, Policies) |
| Manager approvals (`domains/approvals/`) | `approval_instances`, `approval_actions`, `approval_policies` | approve, reject, return, escalate, beginCustomerNegotiation, replace the policy | QuoteLifecycle, Policies |
| Finance approval (`domains/finance/approval/`) | the same instances | decideApproval | QuoteLifecycle |
| Customer portal (`domains/customer-portal/`, `interfaces/http/customer-portal/`) | `negotiation_requests`, recurring invoices, `quote_requests` | load, accept, reject, counter, structured negotiation, quote request | QuoteLifecycle, Intake |
| Negotiation cases (`interfaces/http/negotiations/`) | `negotiation_cases` | revise, forward to Finance, resolve | QuoteLifecycle |
| What a quotation promises | none | | Offer (abstract) |
| Payments (`domains/finance/payments/`) | `invoices`, `payments` | applyPayment, voidInvoice | Billing |
| Credit notes (`domains/finance/credit-notes/`) | `credit_notes` | issue, apply | Billing |
| Fulfillment and planning (`domains/finance/fulfillment/`) | `fulfillment_orders`, `fulfillment_allocations`, `inventory_levels` | allocate (suggested, manual), ship, consolidate backorders, adjust stock | Fulfillment |
| Customer tiers (`domains/customers/`) | `customers.tier_id` and its source | evaluate on payment, administrator's override | Tiers |
| Risk and price arithmetic (`domains/sales-rep/quotation.service.js`) | `risk_assessments` | overage, blended risk, route | Policies |
| Outbox, pool and transactions (`infrastructure/events/`, `infrastructure/database/`, `jobs/`) | `outbox_events`, connections | append in the caller's transaction, relay; BEGIN, COMMIT, ROLLBACK, release | Outbox |
| Accounts (`interfaces/http/admin/`) | `users`, sessions | deletion with hand-over of open requests | Intake |
| Web pages (`src/frontend/`) | what a tab shows, requests in flight | portal; quotations/[id], negotiations/[id]; quotations/new | Portal, Desk, Intake |
| Migrations, seeds, demo (`infrastructure/database/`, `src/database/`) | `schema_migrations`, reference rows, seeded quotations | migrate, seed, full seed, demo flow | Setup |
| Deal health, read models, catalogue, HTTP shell, login | see section 13 | | in part or not |

How they interact. There is no message passing inside the service: the parts
meet in the rows of the database. A submission hands the quotation to the
manager by inserting an `approval_instances` row; the manager's approval hands
it to Finance by inserting another; a customer's structured request opens a
`negotiation_cases` row whose owner may revise the offer; the acceptance
inserts an invoice for the recurring lines, and the allocation of the whole
order one for the goods; a payment that settles an invoice evaluates the
customer's tier. Nearly every handler runs in one transaction (the acceptance is
two, and a representative's "save and submit" is two requests of the page).
Events are written to the outbox in the same transaction, and connected pages
are told after COMMIT that something changed.

What is hard. PostgreSQL runs these transactions at READ COMMITTED, so each
*statement* sees what is committed at its own moment. A handler that reads in
one statement and decides in another, with a lock read in a third, is correct
only if its last write compares everything it relied on. Requests carry the
`lock_version` of a page opened minutes ago, and pages refresh parts of
themselves from answers that arrive in any order. A process may stop between
two transactions; a connection may break with an answer on it. Two approvers, a
financier, a customer, two tabs of a representative and an administrator may
all be in the middle of something.

What makes each part correct:

- *Quotation*: nobody decides or accepts terms he has not seen; the sequential
  route is followed; whoever a quotation waits for has something to do.
- *Negotiation case*: never silently handed back.
- *Billing*: no payment lost or counted twice, none beyond what is due, none
  after the invoice is settled; a settled invoice is covered; a credit note
  counts once.
- *Fulfillment*: reserved stock is exactly what live orders hold, no more than
  is on hand; an order is invoiced once; what was promised is not taken away.
- *Tiers and policies*: the override wins; no paid invoice is overlooked; a
  policy is always in force; a route is the one its lines call for.
- *Intake*: every request has somebody, and becomes one quotation of his.
- *Outbox and pool*: an answer is true; no event is lost or invented; requests end.
- *Pages*: a click means what the screen showed; what the stream announced is
  loaded, unless an older list overtakes it; forms come back.
- *Setup*: scripts can be run together, stopped and run again.

The hazards, each at its line, are in `PROJECT.json` with the properties that
would catch them, or with a note on why none does.

## 2. How the modules fit

| Module | One instance is | Proofs | Liveness |
|---|---|---|---|
| QuoteLifecycle | one quotation with everybody who decides it | yes | |
| Offer | what QuoteLifecycle promises its customer (abstract) | the refinement | |
| Billing | one invoice with its credit notes | yes | |
| Fulfillment | the orders of several quotations on shared stock | yes | |
| Portal | one customer's page before his quotations | yes | yes |
| Desk | several tabs of the staff before one quotation | yes | yes |
| Intake | requests, representatives, tabs and their quotations | yes | |
| Outbox | a pool, its requests and the relays of the outbox | yes | yes |
| Tiers | one customer's invoices and tier | yes | |
| Policies | the approval policies and the versions assessed under them | yes | |
| Setup | a database being brought up | yes | |

`MC<Module>` instantiates each for TLC, `<Module>_proofs` holds its theorems,
except that Billing_proofs also holds those about Tiers, Intake_proofs those about
Policies and Outbox_proofs those about Setup. So the names of those three are their
own (`TierSpec`, `PolicySpec`, `SetupSpec`), and each pair shares no state. **Sums**
has the lemmas about finite sums, maxima and minima that these proofs need.
The modules that share a row do so by modelling what the other does to it:
Portal and Desk contain the row's part of QuoteLifecycle's operations, with the
server's answer to a request as one step and its delivery as another;
Fulfillment has the revision, submission and clearing of a quotation; Tiers has
the settling payment of Billing. Definitions marked *Variant (fault model)* are
not part of the system: each is a handler with a plausible mistake in it, used
to check that the property beside it in `PROJECT.json` notices.

The parts of the system a later extension could add: planning by cost for
several lines, and a composition of the acceptance, the order and the invoices
of one quotation (each version billed once).

## 3. QuoteLifecycle

One quotation, for ever. Its variables are the columns: `status`, `version`
(current_version_number), `lock` (lock_version), `route[v]` (the risk
assessment of version v), `steps[v]` (the approval instances of version v in
the order of sequence_number), `negCase`, and `invoices[v]` (recurring invoices
issued on acceptance). The rest is what requests have read and not yet used:
`seen[b]` for a page, `approving[a]` for a manager's decision, `deciding[f]`
for Finance's, `resolving` for an acceptance whose second transaction is due.

The grain. A handler that begins by locking the quotation row holds everybody
else off until it commits and is one action: `CreateRevision`, `AcceptUpsell`,
`SubmitWithoutRisk` and `SubmitForApproval` (the two branches of
routeApproval), `SendToCustomer`, `AcceptQuote`, `RejectQuote`,
`SubmitCounter`, `SubmitStructuredNegotiation`, `ReviseCase`,
`ForwardToFinance`, `BeginCustomerNegotiation`. The two that do not lock first
are split at their statements:

- `/manager/approvals/:id/*`: `ReadApproval`, `ReadLockVersion`, then
  `ApproveQuotation`, `RejectQuotation`, `ReturnForRevision` or
  `EscalateToFinance`, whose update of the approval is unconditional and whose
  update of the quotation compares lock_version;
- Finance's decisions: `FindInstance`, `FindQuote`, `FindCurrentVersion`,
  `FindPriorStep`, then `DecideApproval`, which is guarded twice.

`ApprovalFails` and `FinanceFails` end such a request at any point: a rule that
refuses, a guarded write that finds nothing, a deadlock PostgreSQL breaks, a
crash. Writes of one transaction are one step because READ COMMITTED shows none
of them before COMMIT and a concurrent writer of the same row waits.
Acceptance is two steps, `AcceptQuote` and `ResolveCase`, with
`CrashBeforeResolve` between them.

Left out: who may call what; messages and negotiation_requests, audit and
outbox rows, which nothing here reads back; prices and risk arithmetic, of which
the route is what matters (createQuoteVersion picks one of three, and any is
possible); the statuses from `in_fulfillment` on, which the fulfillment handlers
write and which belong to the composition. The statuses `Uneditable` names are
written by no handler of the repository; the guard that tests them is kept.

**Offer** says what all this is for, without lock_version, approvals, cases or
requests in flight: terms only move on, a page shows the terms of the day it was
loaded, and only a customer whose page shows the current terms can agree to
them, which is also the only thing that bills them. `Promise` is Offer under the
refinement mapping (`Phase` of the status, the version for the terms, the
version each customer's page was loaded at, the recurring invoices for the
bills), and `KeepsPromise` says that every behaviour of QuoteLifecycle is one of
Offer. What that shows is that comparing lock_version, which a submission does
not move, is as good as comparing the terms. Offer does not promise that terms
are billed once: the code does not keep that (below).

| Run | Instance | What it shows |
|---|---|---|
| `quote_core` | 1 customer, 1 internal page, 1 approver, 1 financier, 2 versions, lock_version to 5; 1,053,112 states | TypeOK, TokenIdentifiesVersion, DraftHasNoPendingStep, PendingManagerHasWork, FinanceStepAfterManager, AcceptsSeenTerms, HandoffSticks, FinanceDecisionSound hold; KeepsPromise: it implements Offer |
| `quote_stale_approval` | the same | a decision on an old version approves the new one |

Bounds. `MaxVersion` = 2 gives an old and a current version, which is all any
property or guard distinguishes. `MaxLock` caps the number of guarded writes on
a behaviour: with five, a page can be opened, made stale, and its quotation
revised, decided and accepted. The theorems hold for every value of these
constants, any number of approvers included.

The deviation, *stale approval*. A manager opens an approval of version 1 and
decides while the representative revises. `validateApproverAction` reads the
approval before the revision supersedes it and lock_version after: the decision
passes and the quotation is `approved` at version 2. The same happens without any
race after a negotiation owner's revision, which leaves the old approvals
pending. `src/DATABASE_SCHEMA.md:35` excludes it.

Also in the model are steps that need no run to be seen, each a guard the code
leaves out. `src/MASTER_CONTEXT.md`, the repository's statement of what the system
is to do, asks otherwise of most:

- Of two approvers the second overwrites the first's decision (the write of the
  approval has no `AND status = 'pending'`); `acceptUpsell` and submissions send no
  lock_version. MASTER_CONTEXT.md:272: "Reject stale updates with HTTP 409; never
  silently overwrite concurrent negotiations."
- A declined or confirmed quotation can be submitted, offered, accepted and billed
  again. MASTER_CONTEXT.md:229: "Do not permit an invalid transition".
- A negotiation owner's revision goes out to the customer whatever its route, and
  leaves the approvals of the version before pending (DraftHasNoPendingStep, which
  is about drafts, does not see them). MASTER_CONTEXT.md:129 and :253: what breaches
  policy "must re-enter approval automatically".
- The acceptance is two transactions, and a stop between them leaves the case open.
  MASTER_CONTEXT.md:271: "Every write is one PostgreSQL transaction."
- Finance's endpoint refuses what was escalated to it: escalation leaves `escalated`
  where its rules ask for `approved`.

## 4. Billing

One invoice with its payments and credit notes. Variables: `status`, `paid`
(amount_paid), `lock` (lock_version), `received` (the sum of the payments rows),
`notes`, `applied` (the sum of applied_amount of the notes applied, which is
what the query returns; AppliedIsSumOfNotes compares it with the notes), and `reads[r]`, what each request has read. Requests take no row lock,
so each is split at its reads: `FindCreditNote` (application only),
`FindInvoice`, `FindAppliedCredits`, then one of `ApplyPayment`, `VoidInvoice`,
`IssueCreditNote`, `ApplyCreditNote`, or `RequestFails`. A request that has read
is free to be any of the operations with those reads, which covers them all.

Left out: `overdue` and `draft`, which nothing writes; currencies; the tier
evaluation (Tiers). Amounts are whole units: exact decimals behave like integers
of ten-thousandths, and no operation here divides.

| Run | Instance | What it shows |
|---|---|---|
| `billing_core` | 3 requests, 2 credit notes, 3 units due, amounts 1 to 3; 196,282 states | PaidIsReceived, PaidWithinDue, SettledIsCovered, AppliedIsSumOfNotes, NoMoneyAfterClose, SettledIsFinal hold |
| `billing_below_zero` | 2 requests, 2 notes, 2 units | a credit and a payment that cross exceed the amount due |

No bound on lock_version is needed: each write takes something from what is due
or spends a note. Three requests are two writers and a third that read before
both; three units let two partial amounts and a rest meet.

The deviation: `applyCreditNote` compares the invoice's lock_version only when
the credit changes the invoice's status, so a partial credit is invisible to
whoever read before it. For the same reason a credit and a payment that cross
can cover an invoice which stays open, and an invoice is voided with a credit on
it.

## 5. Fulfillment

Several quotations, each with one physical line per version, on the stock of
several warehouses. Variables: `quote[q]` (status and current version), `lines`
(the quantity each version asks for), `order[q]` (the live order; its allocation
rows added up by warehouse and status), `invoices[q]` (the versions its invoices
were issued for), the inventory rows (`rows`, `onHand`, `reserved`), `adjusted`
(the sum of inventory_adjustments), `left` (a history of what was shipped) and
`tx[r]`, the transactions in progress.

The grain follows the locks. `PlanAllocation` locks the quotation and reads the
stock without locking it; `AllocateFulfillment` reserves, under the guard of
`reserveStock`, and writes everything else. Consolidation locks the order only:
`LockOrder`, then `SuggestMore` (a read) and `ReserveMore` (guarded updates whose
rows stay locked, in `held`) in turns, then `FinishConsolidation`. Meanwhile the
quotation may be revised. `ManualOverride` and `ShipFulfillment` lock the
quotation and the order first and are one step each. An adjustment of a row that
exists is `AdjustStock`; of one that does not, `FindNoStock` and `UpsertStock`.
`CreateRevision`, `SubmitQuotation` and `ClearQuote` are what QuoteLifecycle's
requests do to a quotation that fulfillment can tell: reopen it, with or without
a new version, and clear it. `RequestFails` ends any transaction.

Statuses are grouped: `cleared` is FULFILLABLE_QUOTE_STATUSES. `Splits` is
suggestAllocations for one line under unknown shipping costs: a set of
warehouses none of which can be spared, drained one after the other. Left out:
several products and lines, costs, warehouses taken out of service.

| Run | Instance | What it shows |
|---|---|---|
| `fulfillment_core` | 2 quotations, 2 warehouses, 2 requests, lines to 2, 2 units of stock in all, 1 revision; 419,473 states | ReservedIsAllocated, StockCoversReservations, OrderIsComplete, InvoicedOnce, PromisesKept hold |

Bounds. `MaxStock` bounds the sum of all adjustments, so that stock is short:
two lines of up to two units compete for two units in one warehouse or in two,
and backorders, splits and failed reservations all occur. The lines begin
with the same quantity, one unit or two; one revision among the two quotations
makes them differ and changes the line under an order that exists.

Also seen: the override is refused while a quotation
is in fulfillment, but once it has been revised or submitted again and cleared it
is allowed whatever became of the order; it then cancels rows that have left the
warehouse, and it is the one path to `allocated` without an invoice (so
PromisesKept excepts it). `SELECT ... FOR UPDATE` of a row that does not exist
locks nothing: two first adjustments both count from zero, and the second overwrites
the first, although `admin.controller.js:183` says that stock is "never set by an
unaudited overwrite".

## 6. Pages: Portal and Desk

Both have the same grain. A request is *asked* by a page, *answered* by the server
from what is committed at that moment, and *delivered*; anything may run between,
in any order, and a connection may break with the request or the answer on it.

**Portal** (`src/frontend/app/portal/page.tsx`). Variables: `offer` (the
quotations rows), `asked` and `replies` (what is in flight), and of the page
`rows`, `page` (status, lines and lock_version shown), `submitting`, `error`;
`streaming` is the event stream; `heard`, `shown` and `newest` are histories: up to
which commit changes were announced, which commit the list on the screen is of, and
which the newest list ever shown. The actions are those of the staff (`CreateRevision`, `SubmitQuotation`,
`SendToCustomer`, `ReviseCase`, `ApproveQuotation`, which publishes nothing), the
server's answers, the customer's clicks, the arrivals (`ShowList` merges a list's
row into the opened quotation, `MergeRow`), losses and the stream's connection.
Left out: messages, quote requests (Intake), billing and tier tabs, and of the
acceptance its second transaction.

**Desk** (`src/frontend/app/(internal)/quotations/[id]`, `negotiations/[id]`). Tabs of
representatives load once and save, or save and submit (two requests); tabs of
the negotiation owners load again after every change they hear of, also over what
is being edited. `written` is a history of who wrote each version and from which.
getCaseDetail reads the case, then the quotation: two steps.

| Run | Instance | What it shows |
|---|---|---|
| `portal_core` | 1 quotation, 3 commits, 1 request of the user and 2 list answers in flight at a time; 979,838 states | TokenBelongsToLines, AnswersShownTerms; HeardChangesAreShown, FormComesBack (liveness) |
| `desk_core` | 1 representative's tab, 1 sales manager's tab, lock_version to 4, 1 load of each under way; 486,403 states | RevisionsBuildOnShown; FormsComeBack (liveness) |

Three commits are what it takes to revise, offer again and answer from a stale
page. Two list answers in flight, of before a commit and of after it, may arrive in
either order. Two tabs are the editor and the
one who overtakes him. For more quotations, tabs and requests the safety
properties are theorems.

Fairness. In Portal: the server answers the list, lists arrive, and each of the
two steps of the request form (and of the load behind it) is taken in the end; in
Desk: each page's requests are answered, and the answers delivered. A browser's
fetch always settles, with an answer or an error, and each request is its own, so
one does not starve another; a lost connection is an action of the model (in
Portal once, as nothing clears the error it shows) and needs no fairness. Nobody
has to click, commit or reconnect. HeardChangesAreShown is about announced changes:
what is committed while the stream is down, and what the manager decides, is seen
at the next announcement only.

HeardChangesAreShown has an exception, which the run does reach: `loadQuotes`
(`page.tsx:100-106`) neither aborts the load before nor keeps the answers in order,
so an older list that arrives last replaces the newer one (`Overtaken`), and the page
keeps it until the next announcement. Without an overtaking, and without an error,
an announced change is on the screen in the end.

Also seen: "save and submit" submits without a lock_version, so what goes out may be
somebody else's newer version (MASTER_CONTEXT.md:272); a load of negotiations/[id]
that fails leaves "loading" on the screen.

## 7. Intake

A request for a quotation is assigned to the representative with the fewest open
ones and becomes a quotation on the "New quotation" page, while an administrator
deletes accounts. `SelectRep` and `InsertRequest` are two statements (the foreign
key is what stands between them); a deletion is `LockPending` (FOR UPDATE),
`MoveRequests`, which picks a replacement and moves whatever is open *by then*,
and `RemoveUser`. `CreateQuotation` locks the request. The tabs send *create* and
*submit* and may lose the answer (`AnswerLost`) and save again. Left out: the
terms of the quotation, login, and when accounts are made.

| Run | Instance | What it shows |
|---|---|---|
| `intake_core` | 2 representatives, 2 requests, 1 tab, 2 quotations; 888,602 states | AssignedToSomebody, ConvertedOnce, OwnerIsAssignee hold |

Two representatives are the one deleted and his replacement, who may be deleted
too; a tab that lost its answer and saves again has two requests in flight.
Deadlock is not checked: with no representative left nothing can be asked.
Seen: who has ever converted a request cannot be deleted (error 500), as
`AssignedToSomebody` would otherwise fail.

## 8. Tiers and Policies

**Tiers**: the payment that settles an invoice locks the customer (`LockCustomer`),
adds up the paid invoices it sees (`EvaluateAutomaticTier`: committed ones and its
own) and writes the tier on commit; `OverrideTier` waits for that lock only.
`CreditInvoice` changes the net spend beside it.

**Policies**: an administrator's update locks the newest active policy, a manager's
every active one; a row that was locked is looked at again once it is free, new
rows are not (`LockPolicy`). `CreateQuoteVersion` computes each line's overage and
the route of the blended risk exactly, before anything is rounded to the four
places the column keeps.

| Run | Instance | What it shows |
|---|---|---|
| `tiers_core` | 3 invoices of 3 units, 2 tiers (by spend 5 and 8, by number 2 and 4); 7,736 states | TierKeepsUp, OverrideIsNotUndone hold |
| `policies_core` | 2 updaters, 4 policies, 2 limits; lines of value 60000, 1 and 0; 126,510 states | PolicyNumbersRise, RouteFitsLines hold |

In `tiers_core` one invoice earns nothing, two the first tier by number, three the
second by spend unless credited: two payments at once must see each other.
TierKeepsUp is about a customer with a paid invoice: a tier that asks for nothing
is given at the first payment, not before. In
`policies_core` the second line's excess vanishes in four decimal places beside
the first, and the third is free.

Seen: an administrator's update that had to wait finds no active policy, inserts
one numbered 1 which never comes into force, and answers 200 (an update lost
without a word, where MASTER_CONTEXT.md:119 wants edits "immediately effective" and
:272 stale ones rejected); three managers' updates can leave two active policies of one
number, of which either is read. Changing what a tier asks for evaluates nobody.

## 9. Outbox

Requests, the pool's connections (`conn`: holder, open transaction, its rows) and
the relay. `Begin`, `QueryPool` (a handler that queries the pool while it holds a
connection), `Write`, `Commit`, `Rollback`, and `ReturnEarly`: three functions return
after BEGIN without ending the transaction, and give the connection back with it.
The relay (`FetchUnpublished`, `Dispatch`, `MarkFailed`, `MarkPublished`) runs its
statements on whatever connection is idle, perhaps inside such a transaction. `Stop`
ends everything uncommitted.

Requests are of several kinds, which the constants name:

- most write change, audit and event together;
- `Silent` ones write no event: updateTierEntitlement (`customers/repository.js:31-47`),
  updateCategoryCeiling, assessAndStore (`deal-health/repository.js:52-68`), the
  administrator's tier override (`admin.controller.js:117`), sign-up and password
  reset (`modules/identity/auth.controller.js:59-93` and `:139-150`);
- `Careless` ones are those of them that may return early;
- `Plain` ones are one statement of `pool.query` (login, logout, changePassword,
  forgotPassword: `auth.controller.js:24`, `:41`, `:46`, `:115`, `:161`), which borrows
  whatever connection is idle (`WritePlainly`, `FailPlainly`).

| Run | Instance | What it shows |
|---|---|---|
| `outbox_core` | 2 connections, 4 requests (2 nesting, 1 careless, 1 plain), 2 relays, batches of 2, 1 failed dispatch, 1 stop; 294,394 states | AnswersAreTrue, DispatchedOnceCommitted; RequestsEnd (liveness) |

Two relays dispatch the same event twice; one connection is left open while the
other works, and the plain request and the relays' marks meet it; two nesting
requests can hold both connections and wait for each other.

What the code does not give, and how the properties say so:

- "Business state, audit event, and outbox event commit together or all roll back"
  (`src/MASTER_CONTEXT.md:271`) is asked of every write. AnswersAreTrue has it of the
  requests that write an event; the silent ones leave theirs out.
- A plain request that ran inside a transaction somebody left open is answered as
  done, and undone when the next user of the connection rolls back or the pool
  closes it. AnswersAreTrue excepts it, where a request did return with its
  transaction open (`LeftOpen`), and nothing else.
- Nothing limits how many requests take a second connection (`pool.js` has neither a
  size nor a timeout): with as many of them at once as connections, all wait for one
  more, and everybody for them. RequestsEnd says that this (`Exhausted`) is the only
  way for a request not to end.
- Nothing schedules the relay: `server.js:13-21` runs only the health scan, although
  `jobs/outbox.job.js` asks for "a short interval". So no fairness is assumed of it
  and nothing is claimed about events getting out; DispatchedOnceCommitted is about
  what it does when somebody runs it.

Fairness is that each request goes on when a connection lets it (`GoesOn`): the event
loop resumes a handler whose query was answered. Nobody has to fail, stop the process
or close an idle connection.

## 10. Setup

`migrate.js` under its advisory lock, `seed.js` in one transaction, the nine layers
of `full-seed.js`, and `demo-flow.js`; each but the last may be started by several
people, and all stop anywhere and are run again. A transaction on the reference data
is the list of tables it writes (`SeedSteps`, `UserSteps`, `CustomerSteps`,
`ProductSteps`): an `Upsert` waits for who has written the same rows and not
committed, `InsertMissing` sees what is committed and waits for nobody. Quotations are
seeded through the service's own functions and then forced into a status; `quotes` has
their approval steps.

| Run | Instance | What it shows |
|---|---|---|
| `setup_core` | 2 migration files, 2 migrators, 2 seeds, 2 full seeds, 1 demo flow, 6 quotations; 92,308 states up to symmetry | MigratorsDoNotCollide, ReferenceRowsOnce, SeededQuotesAreLegal hold |

All combinations are beyond TLC, so a behaviour of `MCSetup` exercises one slice: all
the migrators and seeding runs together on the reference data, or the quotations of a
full seed (two of them), or those of the demo flow (six, more than one showing of it).
A script's quotations are its own, and no step of one looks at another's: which is
what the slices rely on, and what the theorems, which know no slices, confirm.

Two deviations, each excepted by a history that records it and nothing else:

- *Customers twice.* `full-seed.js:4` says that reference data is idempotent, but two
  runs that are both at the customers (`crossed`) each SELECT, find nothing and INSERT
  (`ensureCustomer`, `:130-147`); legal_name is not unique and no statement of that
  transaction waits. The accounts and the products have an upsert that does.
- *A step that waits for nothing.* Scenes 4 and 5 of the demo call routeApproval and
  then force the status (`demo-flow.js:181-183`, `:235-236`). With the ceilings of
  db:seed the route is none; after they were lowered, or the customer lost his tier,
  the manager's step stays pending on an approved or a paid quotation (`forced`), and
  as `validateApproverAction` looks at the step only, deciding it moves the quotation
  back. `full-seed.js` supersedes such steps, which is what the property is about.

## 11. What is proved

Every invariant and every action property that a passing run checks, and the
refinement, is also a theorem. The theorems are checked by TLAPS for every number
of browsers, tabs, approvers, requests, notes, invoices, warehouses, migrations and
versions, any amounts and any bound, from the named assumptions of the modules:

- sets that are meant to be apart, or parts of one another, are (SessionsAssumption, PagesAreApart,
  KindsAssumption, SeedersAssumption), and a null value is none of its set
  (NoNoteAssumption, NoQuoteAssumption, QuotesAssumption, NullsAssumption, NobodyAssumption,
  NoMigratorAssumption);
- bounds and amounts are numbers of the sign the code gives them (BoundsAssumption, BoundAssumption,
  MoneyAssumption, BatchAssumption, MigrationsAssumption, TierAssumption,
  PercentAssumption); a line's value is a number and some line has one
  (BaseAssumption), as createQuoteVersion refuses the version otherwise;
- what is added up is finite: the credit notes and the invoices, and the quotations,
  warehouses and requests of Fulfillment (NotesAssumption, InvoicesAssumption,
  FinitenessAssumption). They are rows of a table and connections of a pool.

Most `_proofs` modules have an inductive invariant `IInv`, the theorem Invariant, and
the properties that follow; Tiers, Policies and the three parts of Setup have one
each of their own (`TierInv`, `PolicyInv`, `SchemaInv`, `ReferenceInv`, `QuotesInv`).

**Sums.** The library's sum over a set is a fold, a CHOOSE of a function on the
subsets, so even `SumFunctionOnSet(f, {}) = 0` is something to prove. AddsExists
shows that the function is there, and SumRemove that a sum is the sum without an
element and that element, whichever it is. The rest follows: one term that changes
(SumExcept), sums of sums, comparisons, scaling. The induction is written out without
the library's induction theorems, which take an operator: SmallestPart picks, among
the subsets of a finite set for which a claim fails, a minimal one.

**QuoteLifecycle_proofs.** TypeCorrect is inductive alone. The others follow
from `IInv`, since none is inductive by itself:

- TokenIdentifiesVersion needs nothing but that the version never moves without
  lock_version.
- PendingManagerHasWork fails to be inductive without StepsFollowRoute: a
  submission may write `<<ManagerStep>>` only because versions with route none,
  and versions to come, have no steps, and a manager's step is only ever the first.
- FinanceStepAfterManager and DraftHasNoPendingStep need SessionsNameSteps: an
  approver's request carries a step number from its first read to its commit, and
  the step must still be there, in the same role.
- FinanceReadsStand is the interesting one: while lock_version is the one a
  Finance request read, so is everything it read, although submissions change
  status and approvals without moving lock_version. It holds because a submission
  that could disturb the version Finance decides fails on the unique step number,
  and because the version being decided is the one `SupersedeOthers` keeps.

The proof does not go action by action for each conjunct. One lemma per group of
requests establishes `Effect`, a description of all that a step can do to the
quotation and its steps; `SessionEffects` does the same for what requests have
read; each conjunct is then preserved by any step with such an effect.
AcceptsSeenTerms, FinanceDecisionSound and HandoffSticks are action properties
proved from the same invariant. **PromiseKept** is the refinement: Init maps to
Offer's, and every step to one of Offer's or to a stutter (PromiseInit,
PromiseStep), which needs TokenIdentifiesVersion for an acceptance.

**Billing_proofs.** The invariant adds `ReadsStand` (a request whose
lock_version is current knows the current status and amount; the credits it read
can only have grown; one that found the invoice settled found it covered) and
`NotesHaveAmounts`. From it: NothingLost, NeverOverpaid, SettledMeansCovered,
and the action properties ClosedTakesNoMoney and SettledStaysSettled. CreditsAddUp
says that `applied`, of which all of these speak, is the sum of the applied notes: it
needs that a note is applied once and keeps its amount from then on.

The part about **Tiers** proves TiersKeepUp and OverridesStand from `TierInv`. Its
core is EvaluationStands: the tier an evaluation has found is still enough when its
payment commits, because the customer's lock admits one evaluation at a time
(OneEvaluation), and a credit that comes between only lowers what was spent. The
credit on an invoice does not go beyond what is due (PaymentsPay), so paying it never
lowers the net spend. OverrideIsKept: an evaluation under way found no override, as
an override waits for its lock.

**Fulfillment_proofs.** InvoicesOnce and the action property KeepsPromises. Locks
decide: while an allocation is planned its quotation has no order and nobody else
plans one (PlannedAlone), a consolidation has its order to itself
(ConsolidatesAlone), and an order that does not exist was not invoiced.
NeverOverAllocates is about the stock: what is reserved of a row, with what the one
transaction that holds it has taken and not committed, is on hand. At most one
transaction holds a row, so `StockInv` adds two numbers; StockSuffices draws from it
the run's StockCoversReservations, which adds one per request, the others being zero.

BooksKept is the arithmetic. `BooksInv` says of every order that its rows add up to
its line, and of every consolidation that what it holds in its rows, with what it still
misses, is the backorder of the order it has locked (TransactionsAddUp): without the
second the first would not survive FinishConsolidation. TypeCorrect is part of it,
because that no reservation falls below zero depends on ReservedIsAllocated: what
a shipment or an override takes back is one term of that sum. From it
ReservationsBelongToOrders and OrdersAddUp.

**Portal_proofs** and **Desk_proofs**. TokensFitLines, TermsAreThoseShown and
NobodyIsUndone. The invariant is about pairs *read together*: every lock_version on
a page, in a request or in an answer was the row's once, and if it still is, so is
the version beside it. A commit of the other side keeps that (NewerOffer,
NewerQuote), and a page keeps it because it never takes one of the two without
the other.

**Intake_proofs.** NobodyIsForgotten, OneQuotationEach, OwnersAreAssigned. The
invariant adds that a deletion hands over pending requests only, to another
account that stays (HandedToSomebody): the row locks and the foreign key, which
RemoveUser's guard is.

The part about **Policies** has two ideas. NoOlderPolicyReturns: a number that is
inserted is greater than that of every row its transaction holds (UpdatesStand), and
what a commit takes out of force is held. RoutesFit is algebra: the blended risk,
a quotient of two sums over the lines, is compared with the limit by a product; it
is zero exactly when no line of value exceeds its ceiling, and if every such line
exceeds it by more than the limit, so does their mean.

**Outbox_proofs.** CommitsAreWhole and NothingInvented, for any pool, any kinds of
requests and any early returns: a connection has at most one holder and a request one
connection (OneConnection); uncommitted events, and the changes of who has a
transaction, are the holder's, while a change by pool.query may be on any connection
that was left open (RowsAreHolders); and what a relay holds is committed, what it will
mark was dispatched (RelaysAreHonest).

The part about **Setup**. MigratorsAreSafe: who is not idle holds the advisory lock, so
what it is to apply stays what is missing (LockExcludes, TodoIsMissing), and the
least of what is missing continues a prefix. SeedingIsIdempotent is the longest, as
nothing but the upserts serializes the scripts, which insert some of the same rows.
`ReferenceInv` says that one run at a time has written a table (OneHolds) and, unless
`crossed`, is at the customers (OneAtCustomers); that what a transaction has inserted
is still missing, a customer that may be doubled excepted (InsertedAreMissing); that
each row of seed.js is ahead of its transaction, inserted or there (SeederWorks); and
that the layers which insert follow a committed seed.js (FullSeederWorks), after which
none of its rows is missing (CodesMeanRows). SeedsAreLegal goes through the routes and targets once: the layers after the
fourth write neither status nor steps. SetupTypeCorrect needs all three: what keeps a
full seed from running past its last layer is that it has a transaction open in the
first three only.

## 12. What is only checked

- Liveness, in Portal (HeardChangesAreShown, FormComesBack), Desk (FormsComeBack)
  and Outbox (RequestsEnd): fairness speaks of ENABLED, which the
  prover does not handle. The specifications without liveness are
  `Init /\ [][Next]_vars`, and any request may stop anywhere.
- The two violations.

Deadlock is checked except where the system may stop: Outbox when every request
has ended, Intake without representatives, Desk at the bound of lock_version.

## 13. What is not modelled, and why

- Planning by cost and over several lines: arithmetic without state.
- Deal health's score, computed from rows it does not change (its transaction, with
  the early return, is in Outbox); read models: queries.
- Catalogue and administration beyond what is named above: single rows of
  configuration that no other request races with.
- Login, passwords and roles: every request here is one its caller may send.
- `domains/risk`: no route reaches it; the risk that counts is computed by
  `domains/sales-rep/quotation.service.js`. Prices and taxes of a version.
- Messages between customer and representative; audit rows, written with the change.
- Subscriptions: a stub. HTTP routing, validation, error envelopes.
- The other pages of the frontend, which show what they load; the demo's reset of
  the stock and the values of seeded rows.

## 14. Running it

    for m in quote:QuoteLifecycle billing:Billing fulfillment:Fulfillment \
             portal:Portal desk:Desk intake:Intake outbox:Outbox \
             policies:Policies tiers:Tiers setup:Setup
    do tlc -config ${m%%:*}_core.cfg MC${m##*:}; done
    tlc -config quote_stale_approval.cfg MCQuoteLifecycle
    tlc -config billing_below_zero.cfg MCBilling
    for p in *_proofs.tla; do tlapm $p; done
