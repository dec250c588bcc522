--------------------------- MODULE QuoteLifecycle ---------------------------
(***************************************************************************)
(* One quotation row with its versions, approval instances and             *)
(* negotiation case, and the requests that change them: the sales          *)
(* representative's, the approvers' of the /manager routes, Finance's      *)
(* decision endpoint, the customer portal's and the negotiation owner's.   *)
(*                                                                         *)
(* PostgreSQL runs every transaction at READ COMMITTED.  A transaction     *)
(* that begins with SELECT ... FROM quotations ... FOR UPDATE is one       *)
(* action here: nobody else can write the quotation, its approvals or its  *)
(* case between its lock and its commit.  A request that reads first and   *)
(* writes later under "WHERE lock_version = $n" is one action for each     *)
(* read and one for its commit, with what it read kept in its session.     *)
(***************************************************************************)
EXTENDS Naturals, Sequences

CONSTANTS
  Customers,    \* portal browsers that show the quotation
  Staff,        \* internal browsers that show the quotation
  Approvers,    \* requests on /manager/approvals/:id/{approve,reject,...}
  Financiers,   \* requests on /finance/.../approvals/:id/decisions
  HasRecurring, \* the quotation has a recurring line
  MaxVersion,   \* bound: number of versions of the quotation
  MaxLock       \* bound: value of lock_version

ASSUME SessionsAssumption == Customers \cap Staff = {}
ASSUME BoundsAssumption ==
  /\ MaxVersion \in Nat \ {0}
  /\ MaxLock \in Nat \ {0}
  /\ HasRecurring \in BOOLEAN

VARIABLES
  status,     \* quotations.status
  version,    \* quotations.current_version_number
  lock,       \* quotations.lock_version
  route,      \* risk_assessments.route of each version
  steps,      \* approval_instances of each version, by sequence_number
  negCase,    \* the negotiation_cases row
  invoices,   \* recurring invoices issued on acceptance of each version
  seen,       \* lock_version and version each browser was shown
  resolving,  \* customers whose acceptance committed, case not yet resolved
  approving,  \* what each /manager approval request has read
  deciding    \* what each Finance decision request has read

quoteVars == <<status, version, lock, route>>
sessionVars == <<seen, resolving, approving, deciding>>
vars == <<status, version, lock, route, steps, negCase, invoices,
          seen, resolving, approving, deciding>>

-----------------------------------------------------------------------------
(***************************************************************************)
(* Values of the columns.                                                  *)
(***************************************************************************)

Versions == 1..MaxVersion
Browsers == Customers \cup Staff

\* The statuses these requests write, and those createRevision refuses.
Uneditable == {"paid", "cancelled", "expired", "superseded"}
Statuses == Uneditable \cup
  {"draft", "pending_manager_approval", "pending_finance_approval",
   "approved", "sent_to_customer", "under_negotiation",
   "returned_for_revision", "customer_confirmed", "rejected"}

Acceptable == {"sent_to_customer", "approved"}
Negotiable == Acceptable \cup {"under_negotiation"}
HiddenFromCustomer == {"draft", "cancelled", "superseded"}

Routes == {"none", "manager", "manager_then_finance"}
Step == [role   : {"sales_manager", "finance_operations"},
         status : {"pending", "approved", "rejected", "returned_for_revision",
                   "escalated", "superseded", "cancelled"}]
NegCase == [status : {"none", "open", "resolved"},
            owner  : {"sales_rep", "sales_manager", "finance_operations"}]

ManagerStep == [role |-> "sales_manager", status |-> "pending"]
FinanceStep == [role |-> "finance_operations", status |-> "pending"]

\* lock_version starts at 1, so lock 0 says that nothing has been loaded.
Token == [lock : 0..MaxLock, version : 0..MaxVersion]
NoToken == [lock |-> 0, version |-> 0]

Session == [pc : {"idle", "instance", "quote", "version", "checked"},
            version : 0..MaxVersion, step : Nat, lock : 0..MaxLock]
At(pc, v, i, l) == [pc |-> pc, version |-> v, step |-> i, lock |-> l]
Idle == At("idle", 0, 0, 0)

TypeOK ==
  /\ status \in Statuses
  /\ version \in Versions
  /\ lock \in 1..MaxLock
  /\ route \in [Versions -> Routes]
  /\ steps \in [Versions -> Seq(Step)]
  /\ negCase \in NegCase
  /\ invoices \in [Versions -> Nat]
  /\ seen \in [Browsers -> Token]
  /\ resolving \in SUBSET Customers
  /\ approving \in [Approvers -> Session]
  /\ deciding \in [Financiers -> Session]

-----------------------------------------------------------------------------
(***************************************************************************)
(* Updates several requests share.                                         *)
(***************************************************************************)

\* A quote is decided step by step: sequence_number i of version v.
IsPending(v, i) == i \in DOMAIN steps[v] /\ steps[v][i].status = "pending"

\* UPDATE approval_instances SET status = to WHERE status = 'pending'
ClosePending(s, to) ==
  [i \in DOMAIN s |-> IF s[i].status = "pending"
                      THEN [s[i] EXCEPT !.status = to] ELSE s[i]]

\* ... AND quotation_version_id <> keep
SupersedeOthers(keep) ==
  [v \in Versions |-> IF v = keep THEN steps[v]
                      ELSE ClosePending(steps[v], "superseded")]

\* updateApprovalStatus: WHERE id = $4 and nothing else
SetStep(v, i, to) == [steps[v] EXCEPT ![i] = [@ EXCEPT !.status = to]]

\* SET status = s, lock_version = lock_version + 1
MoveTo(s) ==
  /\ lock < MaxLock
  /\ status' = s
  /\ lock' = lock + 1

\* createQuoteVersion, then the new version becomes the current one.
NewVersion(r, s) ==
  /\ version < MaxVersion
  /\ version' = version + 1
  /\ route' = [route EXCEPT ![version + 1] = r]
  /\ MoveTo(s)

HasCurrentToken(b) == seen[b].lock = lock

Resolved(c) == IF c.status = "open" THEN [c EXCEPT !.status = "resolved"] ELSE c

-----------------------------------------------------------------------------
(***************************************************************************)
(* createQuotation leaves a draft at version 1 whose risk has been         *)
(* assessed; the routes of later versions are set when they are created.   *)
(***************************************************************************)

Init ==
  /\ status = "draft"
  /\ version = 1
  /\ lock = 1
  /\ \E r \in Routes :
       route = [v \in Versions |-> IF v = 1 THEN r ELSE "none"]
  /\ steps = [v \in Versions |-> <<>>]
  /\ negCase = [status |-> "none", owner |-> "sales_rep"]
  /\ invoices = [v \in Versions |-> 0]
  /\ seen = [b \in Browsers |-> NoToken]
  /\ resolving = {}
  /\ approving = [a \in Approvers |-> Idle]
  /\ deciding = [f \in Financiers |-> Idle]

(***************************************************************************)
(* Loading the quotation.  One statement reads lock_version together with  *)
(* current_version_number; the version's lines, read next, never change.   *)
(***************************************************************************)

Load(b) ==
  /\ b \in Customers => status \notin HiddenFromCustomer
  /\ seen' = [seen EXCEPT ![b] = [lock |-> lock, version |-> version]]
  /\ UNCHANGED <<quoteVars, steps, negCase, invoices, resolving, approving, deciding>>

-----------------------------------------------------------------------------
(***************************************************************************)
(* Sales representative.                                                   *)
(***************************************************************************)

\* Variant (fault model): the approvals of older versions are left as they are.
CreateRevisionKeepingApprovals(b, r) ==
  /\ HasCurrentToken(b)
  /\ status \notin Uneditable
  /\ NewVersion(r, "draft")
  /\ UNCHANGED <<steps, negCase, invoices, sessionVars>>

CreateRevision(b, r) ==
  /\ HasCurrentToken(b)
  /\ status \notin Uneditable
  /\ NewVersion(r, "draft")
  /\ steps' = SupersedeOthers(version + 1)
  /\ UNCHANGED <<negCase, invoices, sessionVars>>

\* Variant (fault model): the new version does not move lock_version.
AcceptUpsellKeepingLock(r) ==
  /\ status \notin Uneditable
  /\ version < MaxVersion
  /\ version' = version + 1
  /\ route' = [route EXCEPT ![version + 1] = r]
  /\ status' = "draft"
  /\ steps' = [v \in Versions |-> ClosePending(steps[v], "superseded")]
  /\ UNCHANGED <<lock, negCase, invoices, sessionVars>>

\* expectedLockVersion is optional here: a request without it is not checked.
AcceptUpsell(r) ==
  /\ status \notin Uneditable
  /\ NewVersion(r, "draft")
  /\ steps' = [v \in Versions |-> ClosePending(steps[v], "superseded")]
  /\ UNCHANGED <<negCase, invoices, sessionVars>>

\* No condition on the status; lock_version is left as it is.
SubmitWithoutRisk ==
  /\ route[version] = "none"
  /\ status' = "sent_to_customer"
  /\ steps' = SupersedeOthers(version)
  /\ UNCHANGED <<version, lock, route, negCase, invoices, sessionVars>>

\* Variant (fault model): ON CONFLICT DO NOTHING on the step's insertion.
SubmitIgnoringConflict ==
  /\ route[version] # "none"
  /\ status' = "pending_manager_approval"
  /\ steps' = IF steps[version] = <<>>
              THEN [SupersedeOthers(version) EXCEPT ![version] = <<ManagerStep>>]
              ELSE SupersedeOthers(version)
  /\ UNCHANGED <<version, lock, route, negCase, invoices, sessionVars>>

\* Variant (fault model): both steps of the sequential route at once.
SubmitWithBothSteps ==
  /\ route[version] # "none"
  /\ steps[version] = <<>>
  /\ status' = "pending_manager_approval"
  /\ steps' = [SupersedeOthers(version) EXCEPT
                 ![version] = IF route[version] = "manager" THEN <<ManagerStep>>
                              ELSE <<ManagerStep, FinanceStep>>]
  /\ UNCHANGED <<version, lock, route, negCase, invoices, sessionVars>>

\* UNIQUE (quotation_version_id, sequence_number): a second submission of a
\* version that already has its step 1 fails and rolls back.
SubmitForApproval ==
  /\ route[version] # "none"
  /\ steps[version] = <<>>
  /\ status' = "pending_manager_approval"
  /\ steps' = [SupersedeOthers(version) EXCEPT ![version] = <<ManagerStep>>]
  /\ UNCHANGED <<version, lock, route, negCase, invoices, sessionVars>>

\* Variant (fault model): a status outside the quote_status enumeration.
SendWithUnknownStatus ==
  /\ status = "approved"
  /\ MoveTo("sent")
  /\ UNCHANGED <<version, route, steps, negCase, invoices, sessionVars>>

SendToCustomer ==
  /\ status = "approved"
  /\ MoveTo("sent_to_customer")
  /\ UNCHANGED <<version, route, steps, negCase, invoices, sessionVars>>

-----------------------------------------------------------------------------
(***************************************************************************)
(* The /manager approval routes.  validateApproverAction reads the         *)
(* approval and then, in a statement of its own, the quotation's           *)
(* lock_version; the transaction that decides runs after both.             *)
(***************************************************************************)

ReadApproval(a, v, i) ==
  /\ approving[a].pc = "idle"
  /\ IsPending(v, i)
  /\ approving' = [approving EXCEPT ![a] = At("instance", v, i, 0)]
  /\ UNCHANGED <<quoteVars, steps, negCase, invoices, seen, resolving, deciding>>

ReadLockVersion(a) ==
  /\ approving[a].pc = "instance"
  /\ approving' = [approving EXCEPT ![a] = At("quote", @.version, @.step, lock)]
  /\ UNCHANGED <<quoteVars, steps, negCase, invoices, seen, resolving, deciding>>

\* updateQuotationStatus: WHERE id = $2 AND lock_version = $3
CommitDecision(a, s) ==
  /\ approving[a].pc = "quote"
  /\ approving[a].lock = lock
  /\ MoveTo(s)
  /\ approving' = [approving EXCEPT ![a] = Idle]
  /\ UNCHANGED <<version, route, negCase, invoices, seen, resolving, deciding>>

\* The route is the one assessed for the instance's own version.
NeedsFinance(v, i) ==
  steps[v][i].role = "sales_manager" /\ route[v] = "manager_then_finance"

ApproveQuotation(a) ==
  LET v == approving[a].version
      i == approving[a].step
      approved == SetStep(v, i, "approved")
  IN /\ approving[a].pc = "quote"
     /\ \/ /\ NeedsFinance(v, i)
           /\ CommitDecision(a, "pending_finance_approval")
           /\ steps' = [steps EXCEPT ![v] = Append(approved, FinanceStep)]
        \/ /\ ~NeedsFinance(v, i)
           /\ CommitDecision(a, "approved")
           /\ steps' = [steps EXCEPT ![v] = approved]

RejectQuotation(a) ==
  LET v == approving[a].version
      i == approving[a].step
  IN /\ CommitDecision(a, "rejected")
     /\ steps' = [steps EXCEPT ![v] =
                    ClosePending(SetStep(v, i, "rejected"), "cancelled")]

ReturnForRevision(a) ==
  LET v == approving[a].version
      i == approving[a].step
  IN /\ CommitDecision(a, "returned_for_revision")
     /\ steps' = [steps EXCEPT ![v] = SetStep(v, i, "returned_for_revision")]

EscalateToFinance(a) ==
  LET v == approving[a].version
      i == approving[a].step
  IN /\ CommitDecision(a, "pending_finance_approval")
     /\ steps[v][i].role = "sales_manager"
     /\ steps' = [steps EXCEPT ![v] =
                    Append(SetStep(v, i, "escalated"), FinanceStep)]

\* A refused condition, a lost lock_version race, a rollback or a crash.
ApprovalFails(a) ==
  /\ approving[a].pc # "idle"
  /\ approving' = [approving EXCEPT ![a] = Idle]
  /\ UNCHANGED <<quoteVars, steps, negCase, invoices, seen, resolving, deciding>>

BeginCustomerNegotiation(v, i) ==
  /\ IsPending(v, i)
  /\ steps[v][i].role = "sales_manager"
  /\ MoveTo("under_negotiation")
  /\ steps' = [steps EXCEPT ![v] = SetStep(v, i, "returned_for_revision")]
  /\ negCase' = [status |-> "open", owner |-> "sales_manager"]
  /\ UNCHANGED <<version, route, invoices, sessionVars>>

-----------------------------------------------------------------------------
(***************************************************************************)
(* Finance's decision endpoint: four reads, each seeing what is committed  *)
(* at that moment, then two guarded writes that commit together.  A read   *)
(* whose value the rules refuse ends the request with FinanceFails.        *)
(***************************************************************************)

FindInstance(f, v, i) ==
  /\ deciding[f].pc = "idle"
  /\ IsPending(v, i)
  /\ steps[v][i].role = "finance_operations"
  /\ deciding' = [deciding EXCEPT ![f] = At("instance", v, i, 0)]
  /\ UNCHANGED <<quoteVars, steps, negCase, invoices, seen, resolving, approving>>

FindQuote(f) ==
  /\ deciding[f].pc = "instance"
  /\ status = "pending_finance_approval"
  /\ deciding' = [deciding EXCEPT ![f] = At("quote", @.version, @.step, lock)]
  /\ UNCHANGED <<quoteVars, steps, negCase, invoices, seen, resolving, approving>>

FindCurrentVersion(f) ==
  /\ deciding[f].pc = "quote"
  /\ deciding[f].version = version
  /\ deciding' = [deciding EXCEPT ![f] = At("version", @.version, @.step, @.lock)]
  /\ UNCHANGED <<quoteVars, steps, negCase, invoices, seen, resolving, approving>>

PriorApproved(v, i) == i > 1 => steps[v][i - 1].status = "approved"

FindPriorStep(f) ==
  /\ deciding[f].pc = "version"
  /\ PriorApproved(deciding[f].version, deciding[f].step)
  /\ deciding' = [deciding EXCEPT ![f] = At("checked", @.version, @.step, @.lock)]
  /\ UNCHANGED <<quoteVars, steps, negCase, invoices, seen, resolving, approving>>

\* The quote status each decision leads to is also the step's, by name.
FinanceDecisions == {"approved", "rejected", "returned_for_revision"}

\* Variant (fault model): the quotation is written without its lock_version.
DecideUnguarded(f, decision) ==
  LET v == deciding[f].version
      i == deciding[f].step
  IN /\ deciding[f].pc = "checked"
     /\ IsPending(v, i)
     /\ MoveTo(decision)
     /\ steps' = [steps EXCEPT ![v] = SetStep(v, i, decision)]
     /\ deciding' = [deciding EXCEPT ![f] = Idle]
     /\ UNCHANGED <<version, route, negCase, invoices, seen, resolving, approving>>

DecideApproval(f, decision) ==
  LET v == deciding[f].version
      i == deciding[f].step
  IN /\ deciding[f].pc = "checked"
     /\ IsPending(v, i)
     /\ deciding[f].lock = lock
     /\ MoveTo(decision)
     /\ steps' = [steps EXCEPT ![v] = SetStep(v, i, decision)]
     /\ deciding' = [deciding EXCEPT ![f] = Idle]
     /\ UNCHANGED <<version, route, negCase, invoices, seen, resolving, approving>>

FinanceFails(f) ==
  /\ deciding[f].pc # "idle"
  /\ deciding' = [deciding EXCEPT ![f] = Idle]
  /\ UNCHANGED <<quoteVars, steps, negCase, invoices, seen, resolving, approving>>

-----------------------------------------------------------------------------
(***************************************************************************)
(* Customer portal.  Each request carries the lock_version of the page it  *)
(* was sent from.                                                          *)
(***************************************************************************)

\* Variant (fault model): the page's lock_version is not compared.
AcceptUnseen(c) ==
  /\ status \in Acceptable
  /\ MoveTo("customer_confirmed")
  /\ invoices' = IF HasRecurring THEN [invoices EXCEPT ![version] = @ + 1]
                                 ELSE invoices
  /\ resolving' = resolving \cup {c}
  /\ UNCHANGED <<version, route, steps, negCase, seen, approving, deciding>>

AcceptQuote(c) ==
  /\ status \in Acceptable
  /\ HasCurrentToken(c)
  /\ MoveTo("customer_confirmed")
  /\ invoices' = IF HasRecurring THEN [invoices EXCEPT ![version] = @ + 1]
                                 ELSE invoices
  /\ resolving' = resolving \cup {c}
  /\ UNCHANGED <<version, route, steps, negCase, seen, approving, deciding>>

\* acceptQuotation resolves the case in a second transaction ...
ResolveCase(c) ==
  /\ c \in resolving
  /\ negCase' = Resolved(negCase)
  /\ resolving' = resolving \ {c}
  /\ UNCHANGED <<quoteVars, steps, invoices, seen, approving, deciding>>

\* ... which never runs when the process stops between the two.
CrashBeforeResolve(c) ==
  /\ c \in resolving
  /\ resolving' = resolving \ {c}
  /\ UNCHANGED <<quoteVars, steps, negCase, invoices, seen, approving, deciding>>

RejectQuote(c) ==
  /\ status \in Acceptable
  /\ HasCurrentToken(c)
  /\ MoveTo("rejected")
  /\ negCase' = Resolved(negCase)
  /\ UNCHANGED <<version, route, steps, invoices, sessionVars>>

\* Already under negotiation: only the message is stored.
SubmitCounter(c) ==
  /\ status \in Acceptable
  /\ HasCurrentToken(c)
  /\ MoveTo("under_negotiation")
  /\ UNCHANGED <<version, route, steps, negCase, invoices, sessionVars>>

\* Variant (fault model): every request routes the case anew.
NegotiateReassigningOwner(c, owner) ==
  /\ status \in Negotiable
  /\ HasCurrentToken(c)
  /\ MoveTo("under_negotiation")
  /\ negCase' = [status |-> "open", owner |-> owner]
  /\ UNCHANGED <<version, route, steps, invoices, sessionVars>>

\* owner is the role proposed for a case that is not open: the risk of the
\* requested discount decides it.
SubmitStructuredNegotiation(c, owner) ==
  /\ status \in Negotiable
  /\ HasCurrentToken(c)
  /\ MoveTo("under_negotiation")
  /\ negCase' = [status |-> "open",
                 owner  |-> IF negCase.status = "open" THEN negCase.owner
                                                       ELSE owner]
  /\ UNCHANGED <<version, route, steps, invoices, sessionVars>>

-----------------------------------------------------------------------------
(***************************************************************************)
(* The owner of the negotiation case.                                      *)
(***************************************************************************)

\* The revised offer goes to the customer whatever its route, and pending
\* approvals of older versions stay pending.
ReviseCase(b, r) ==
  /\ negCase.status = "open"
  /\ HasCurrentToken(b)
  /\ NewVersion(r, "sent_to_customer")
  /\ UNCHANGED <<steps, negCase, invoices, sessionVars>>

ForwardToFinance ==
  /\ negCase = [status |-> "open", owner |-> "sales_manager"]
  /\ negCase' = [negCase EXCEPT !.owner = "finance_operations"]
  /\ UNCHANGED <<quoteVars, steps, invoices, sessionVars>>

-----------------------------------------------------------------------------

RepNext ==
  \/ \E b \in Staff, r \in Routes : CreateRevision(b, r)
  \/ \E r \in Routes : AcceptUpsell(r)
  \/ SubmitWithoutRisk
  \/ SubmitForApproval
  \/ SendToCustomer

ApproverNext ==
  \/ \E a \in Approvers :
       \/ \E v \in Versions : \E i \in DOMAIN steps[v] : ReadApproval(a, v, i)
       \/ ReadLockVersion(a)
       \/ ApproveQuotation(a)
       \/ RejectQuotation(a)
       \/ ReturnForRevision(a)
       \/ EscalateToFinance(a)
       \/ ApprovalFails(a)
  \/ \E v \in Versions : \E i \in DOMAIN steps[v] : BeginCustomerNegotiation(v, i)

FinanceNext ==
  \E f \in Financiers :
    \/ \E v \in Versions : \E i \in DOMAIN steps[v] : FindInstance(f, v, i)
    \/ FindQuote(f)
    \/ FindCurrentVersion(f)
    \/ FindPriorStep(f)
    \/ \E d \in FinanceDecisions : DecideApproval(f, d)
    \/ FinanceFails(f)

CustomerNext ==
  \E c \in Customers :
    \/ AcceptQuote(c)
    \/ ResolveCase(c)
    \/ CrashBeforeResolve(c)
    \/ RejectQuote(c)
    \/ SubmitCounter(c)
    \/ \E o \in {"sales_rep", "sales_manager"} : SubmitStructuredNegotiation(c, o)

OwnerNext ==
  \/ \E b \in Staff, r \in Routes : ReviseCase(b, r)
  \/ ForwardToFinance

Next ==
  \/ \E b \in Browsers : Load(b)
  \/ RepNext
  \/ ApproverNext
  \/ FinanceNext
  \/ CustomerNext
  \/ OwnerNext

Spec == Init /\ [][Next]_vars

-----------------------------------------------------------------------------
(***************************************************************************)
(* What the optimistic lock and the routing are there to guarantee.        *)
(***************************************************************************)

\* A browser that still holds the quotation's lock_version was shown the
\* quotation's current version: every path that makes a version current also
\* moves lock_version, and lock_version never comes back to an old value.
TokenIdentifiesVersion ==
  \A b \in Browsers :
    /\ seen[b].lock <= lock
    /\ seen[b].lock = lock => seen[b].version = version

\* The portal never records an acceptance of terms the customer was not
\* looking at, however long the page was open and whoever revised meanwhile;
\* and the recurring invoice that goes with it is for that same version.
AcceptsSeenTerms ==
  [][ (status' = "customer_confirmed" /\ status # "customer_confirmed") =>
        /\ version' = version
        /\ \E c \in Customers : c \in resolving' /\ seen[c].version = version
        /\ \A v \in Versions : invoices'[v] # invoices[v] => v = version ]_vars

\* When Finance's endpoint commits, everything its four separate reads found
\* is still so: the step is a pending Finance step of the current version, the
\* step before it is approved and the quotation waits for Finance.
FinanceDecisionSound ==
  [][ \A f \in Financiers :
        LET v == deciding[f].version
            i == deciding[f].step
        IN (deciding'[f] # deciding[f] /\ steps' # steps) =>
             /\ status = "pending_finance_approval"
             /\ v = version
             /\ steps[v][i] = FinanceStep
             /\ PriorApproved(v, i) ]_vars

\* A quotation never waits for a manager who has nothing to decide: while it
\* is pending manager approval its current version has a pending manager step.
PendingManagerHasWork ==
  status = "pending_manager_approval" =>
    1 \in DOMAIN steps[version] /\ steps[version][1] = ManagerStep

\* Finance's step exists only once the manager has acted on the first step of
\* that version: the route is sequential, whatever races the decisions run.
FinanceStepAfterManager ==
  \A v \in Versions : \A i \in DOMAIN steps[v] :
    steps[v][i].role = "finance_operations" =>
      /\ i > 1
      /\ steps[v][1].role = "sales_manager"
      /\ steps[v][1].status \notin {"pending", "superseded", "cancelled"}

\* A commercial change by Sales leaves no approval of an earlier version
\* actionable, those left behind by a negotiation owner's revision included.
DraftHasNoPendingStep ==
  status = "draft" =>
    \A v \in Versions : \A i \in DOMAIN steps[v] : steps[v][i].status # "pending"

\* An open case handed to a manager or to Finance does not fall back to the
\* sales representative when the customer writes again.
HandoffSticks ==
  [][ (negCase.status = "open" /\ negCase'.status = "open"
         /\ negCase.owner # "sales_rep") => negCase'.owner # "sales_rep" ]_vars

-----------------------------------------------------------------------------
(***************************************************************************)
(* What it all amounts to for the customers.                               *)
(***************************************************************************)

Phase ==
  CASE status = "draft"              -> "drafted"
    [] status \in Acceptable         -> "offered"
    [] status = "under_negotiation"  -> "discussed"
    [] status = "customer_confirmed" -> "agreed"
    [] status = "rejected"           -> "declined"
    [] OTHER                         -> "waiting"

Promise == INSTANCE Offer WITH
  Recurring <- HasRecurring, MaxTerms <- MaxVersion,
  phase <- Phase, terms <- version, bills <- invoices,
  page <- [c \in Customers |-> seen[c].version]

\* The requests keep the promise of Offer: comparing lock_version, although it
\* does not move with every change, is as good as comparing what the customer
\* was shown with what is being agreed to and billed.
KeepsPromise == Promise!Spec

-----------------------------------------------------------------------------
(***************************************************************************)
(* What these guarantees rest on.                                          *)
(***************************************************************************)

\* Versions not yet created have no approval steps, nor has a version whose
\* route is none; the manager's step of a version is its first, and only that.
StepsFollowRoute ==
  \A v \in Versions :
    /\ v > version => steps[v] = <<>>
    /\ route[v] = "none" => steps[v] = <<>>
    /\ \A i \in DOMAIN steps[v] : steps[v][i].role = "sales_manager" <=> i = 1

\* An approval request works on a step that exists, Finance's on a Finance step.
SessionsNameSteps ==
  /\ \A a \in Approvers : approving[a].pc # "idle" =>
       /\ approving[a].version \in Versions
       /\ approving[a].step \in DOMAIN steps[approving[a].version]
  /\ \A f \in Financiers : deciding[f].pc # "idle" =>
       /\ deciding[f].version \in Versions
       /\ deciding[f].step \in DOMAIN steps[deciding[f].version]
       /\ steps[deciding[f].version][deciding[f].step].role = "finance_operations"

\* While lock_version is the one a Finance request read, what the request found
\* in its other reads still stands, although submitting the quotation and
\* superseding approvals do not move lock_version.
FinanceReadsStand ==
  \A f \in Financiers :
    LET s == deciding[f]
    IN /\ s.lock <= lock
       /\ s.pc \in {"quote", "version", "checked"} /\ s.lock = lock =>
            /\ s.version = version => status = "pending_finance_approval"
            /\ s.pc \in {"version", "checked"} => s.version = version
            /\ s.pc = "checked" => PriorApproved(s.version, s.step)

IInv ==
  /\ TypeOK
  /\ TokenIdentifiesVersion
  /\ StepsFollowRoute
  /\ PendingManagerHasWork
  /\ FinanceStepAfterManager
  /\ DraftHasNoPendingStep
  /\ SessionsNameSteps
  /\ FinanceReadsStand

-----------------------------------------------------------------------------
(***************************************************************************)
(* What the documents and comments of the repository say and the code does *)
(* not do; the README tells each story.                                    *)
(***************************************************************************)

HasApprovedStep(v) ==
  \E i \in DOMAIN steps[v] : steps[v][i].status = "approved"

\* An approved quotation is approved at its current version: no decision on an
\* older version carries over to a newer one.
ApprovedVersionIsCurrent == status = "approved" => HasApprovedStep(version)

=============================================================================
