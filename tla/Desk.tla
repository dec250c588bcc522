-------------------------------- MODULE Desk --------------------------------
(***************************************************************************)
(* Several people of the staff in front of one quotation:                  *)
(*   - sales representatives on frontend/app/(internal)/quotations/[id],   *)
(*     which loads once and saves (and submits) the lines it was given;    *)
(*   - the owners of its negotiation case on negotiations/[id], which      *)
(*     loads again after every change it hears of.                         *)
(* A saved revision replaces every line of the quotation, so whatever its  *)
(* author was not shown would be undone by it.                             *)
(*                                                                         *)
(* A request is asked, answered by the server from what is committed then, *)
(* and delivered; anything else may run between any two of these.  What    *)
(* the customer and the approvers do is modelled in QuoteLifecycle; here   *)
(* only what it does to the row and to the case.                           *)
(***************************************************************************)
EXTENDS Naturals, FiniteSets

CONSTANTS
  RepPages,      \* open tabs of quotations/[id]
  ManagerPages,  \* tabs of negotiations/[id], opened by a sales manager
  FinancePages,  \* and by Finance
  MaxLock,       \* bound: lock_version
  MaxLoads       \* bound: loads of one page under way

CasePages == ManagerPages \cup FinancePages
Pages == RepPages \cup CasePages

ASSUME PagesAreApart ==
  RepPages \cap CasePages = {} /\ ManagerPages \cap FinancePages = {}
ASSUME BoundsAssumption == MaxLock \in Nat \ {0} /\ MaxLoads \in Nat \ {0}

VARIABLES
  quote,    \* the quotations row, and whether its version has an approval step
  owner,    \* owner_role of the open negotiation case
  written,  \* history: who wrote each version, and from which one
  page,     \* what each tab shows and is doing
  asked,    \* requests the server has not answered
  replies   \* answers not yet delivered

vars == <<quote, owner, written, page, asked, replies>>

-----------------------------------------------------------------------------

Statuses == {"draft", "pending_manager_approval", "returned_for_revision",
             "approved", "sent_to_customer", "under_negotiation", "rejected"}
REP_EDITABLE == {"draft", "returned_for_revision", "under_negotiation"}
Acceptable == {"sent_to_customer", "approved"}
Nobody == "nobody"
Roles == {"sales_rep", "sales_manager", "finance_operations"}
Proposed == Roles \ {"finance_operations"}   \* without and with a discount to approve
Role(p) == IF p \in ManagerPages THEN "sales_manager" ELSE "finance_operations"

Locks == 1..MaxLock
Quote == [status : Statuses, version : Locks, lock : Locks, stepped : BOOLEAN]

\* A page that shows nothing has version 0.
Page == [at      : {"left", "loading", "open", "busy"},
         version : 0..MaxLock, token : 0..MaxLock, editable : BOOLEAN]
Left == [at |-> "left", version |-> 0, token |-> 0, editable |-> FALSE]
Loading == [Left EXCEPT !.at = "loading"]

\* "own" loads are awaited by the form that asked for them.
LoadRequest(p, own) == [kind |-> "load", from |-> p, own |-> own]
OfferRequest(r, can) ==
  [kind |-> "offer", from |-> r.from, own |-> r.own, can_edit |-> can]
SaveRequest(p, k, submit) ==
  [kind |-> k, from |-> p, expected |-> page[p].token,
   lines |-> page[p].version, submit |-> submit]
PlainRequest(p, k) == [kind |-> k, from |-> p]

Saves == {"revision", "case_revision"}
Reads == {"load", "offer"}
IsRead(r) == r.kind \in Reads

TypeOK ==
  /\ quote \in Quote
  /\ owner \in Roles \cup {Nobody}
  /\ written \in [Locks -> [by : Pages \cup {Nobody}, from : 0..MaxLock]]
  /\ page \in [Pages -> Page]
  /\ \A r \in asked : r.from \in Pages
  /\ \A r \in replies : r.to.from \in Pages

\* From the customer's first dispute on: that is when both kinds of page offer
\* their forms.
Init ==
  /\ quote = [status |-> "under_negotiation", version |-> 1, lock |-> 1, stepped |-> FALSE]
  /\ owner \in Proposed
  /\ written = [v \in Locks |-> [by |-> Nobody, from |-> 0]]
  /\ page = [p \in Pages |-> Left]
  /\ asked = {}
  /\ replies = {}

-----------------------------------------------------------------------------
(***************************************************************************)
(* Commits.  inTransaction publishes after COMMIT; the tabs of the case    *)
(* whose stream is connected at that moment load again.                    *)
(***************************************************************************)

LoadsOf(p) == {r \in asked : IsRead(r) /\ r.from = p}
              \cup {r \in replies : IsRead(r.to) /\ r.to.from = p}

CanHear == {p \in CasePages : page[p].at # "left" /\ Cardinality(LoadsOf(p)) < MaxLoads}

Hear(others) ==
  \E heard \in SUBSET CanHear :
    asked' = others \cup {LoadRequest(p, FALSE) : p \in heard}

MoveTo(s) ==
  /\ quote.lock < MaxLock
  /\ quote' = [quote EXCEPT !.status = s, !.lock = @ + 1]

\* createQuoteVersion and the UPDATE that makes the version current.
NewVersion(s, r) ==
  /\ quote.lock < MaxLock
  /\ quote' = [status |-> s, version |-> quote.version + 1,
               lock |-> quote.lock + 1, stepped |-> FALSE]
  /\ written' = [written EXCEPT ![quote.version + 1] =
                   [by |-> r.from, from |-> r.lines]]

\* The customer disputes the offer (submitStructuredNegotiation): the case keeps
\* the owner it has.
Negotiate(o) ==
  /\ quote.status \in Acceptable \cup {"under_negotiation"}
  /\ MoveTo("under_negotiation")
  /\ owner' = IF owner = Nobody THEN o ELSE owner
  /\ Hear(asked)
  /\ UNCHANGED <<written, page, replies>>

\* The customer declines, which closes the case.  (An acceptance does as much,
\* in two transactions.)
Decline ==
  /\ quote.status \in Acceptable
  /\ MoveTo("rejected")
  /\ owner' = Nobody
  /\ Hear(asked)
  /\ UNCHANGED <<written, page, replies>>

\* The manager answers a pending approval by negotiating with the customer
\* (beginCustomerNegotiation), and has the case from then on.
BeginNegotiation ==
  /\ quote.status = "pending_manager_approval"
  /\ MoveTo("under_negotiation")
  /\ owner' = "sales_manager"
  /\ Hear(asked)
  /\ UNCHANGED <<written, page, replies>>

\* The manager's decisions publish nothing.
Decide ==
  /\ quote.status = "pending_manager_approval"
  /\ \E s \in {"approved", "returned_for_revision", "rejected"} : MoveTo(s)
  /\ UNCHANGED <<owner, written, page, asked, replies>>

-----------------------------------------------------------------------------
(***************************************************************************)
(* The server's side of the pages' requests.                               *)
(***************************************************************************)

Shown(r, edit) == [to |-> r, ok |-> TRUE, version |-> quote.version,
                   token |-> quote.lock, editable |-> edit]
Accepted(r) == [to |-> r, ok |-> TRUE]
Refused(r) == [to |-> r, ok |-> FALSE]
Reply(answer) == replies' = replies \cup {answer}

\* getQuotation: versions never change, so the lines belong to the row read
\* first.
AnswerQuotation(r) ==
  /\ r.kind = "load" /\ r.from \in RepPages
  /\ asked' = asked \ {r}
  /\ Reply(Shown(r, quote.status \in REP_EDITABLE))
  /\ UNCHANGED <<quote, owner, written, page>>

\* getCaseDetail reads the case, then the quotation.
ReadCase(r) ==
  /\ r.kind = "load" /\ r.from \in CasePages
  /\ asked' = (asked \ {r}) \cup {OfferRequest(r, owner = Role(r.from))}
  /\ UNCHANGED <<quote, owner, written, page, replies>>

ReadOffer(r) ==
  /\ r.kind = "offer"
  /\ asked' = asked \ {r}
  /\ Reply(Shown(r, r.can_edit))
  /\ UNCHANGED <<quote, owner, written, page>>

ExpectedLock(r) == quote.lock = r.expected

CreateRevision(r) ==
  /\ r.kind = "revision"
  /\ ExpectedLock(r)
  /\ NewVersion("draft", r)
  /\ Hear(asked \ {r})
  /\ Reply(Accepted(r))
  /\ UNCHANGED <<owner, page>>

\* No lock_version is sent with a submission: it routes the version that is
\* current when it arrives, in any status, once.
SubmitQuotation(r) ==
  /\ r.kind = "submit"
  /\ ~quote.stepped
  /\ \E s \in {"sent_to_customer", "pending_manager_approval"} :
       quote' = [quote EXCEPT !.status = s,
                              !.stepped = (s = "pending_manager_approval")]
  /\ Hear(asked \ {r})
  /\ Reply(Accepted(r))
  /\ UNCHANGED <<owner, written, page>>

\* getCase locks the case and the row before either is looked at.
ReviseCase(r) ==
  /\ r.kind = "case_revision"
  /\ owner = Role(r.from)
  /\ ExpectedLock(r)
  /\ NewVersion("sent_to_customer", r)
  /\ Hear(asked \ {r})
  /\ Reply(Accepted(r))
  /\ UNCHANGED <<owner, page>>

ForwardToFinance(r) ==
  /\ r.kind = "forward"
  /\ owner = "sales_manager"
  /\ owner' = "finance_operations"
  /\ Hear(asked \ {r})
  /\ Reply(Accepted(r))
  /\ UNCHANGED <<quote, written, page>>

Acceptance(r) ==
  \/ CreateRevision(r) \/ SubmitQuotation(r) \/ ReviseCase(r) \/ ForwardToFinance(r)

\* Why each of them refuses; any request may also fail for other reasons
\* (the connection, a validation, the bound of the model).
Refuse(r) ==
  /\ ~IsRead(r)
  /\ asked' = asked \ {r}
  /\ Reply(Refused(r))
  /\ UNCHANGED <<quote, owner, written, page>>

-----------------------------------------------------------------------------
(***************************************************************************)
(* The pages.                                                              *)
(***************************************************************************)

Open(p) ==
  /\ page[p].at = "left"
  /\ Cardinality(LoadsOf(p)) < MaxLoads
  /\ page' = [page EXCEPT ![p] = Loading]
  /\ asked' = asked \cup {LoadRequest(p, FALSE)}
  /\ UNCHANGED <<quote, owner, written, replies>>

Close(p) ==
  /\ page[p].at \in {"loading", "open"}
  /\ page' = [page EXCEPT ![p] = Left]
  /\ asked' = {r \in asked : r.from # p}
  /\ replies' = {r \in replies : r.to.from # p}
  /\ UNCHANGED <<quote, owner, written>>

Ask(p, r) ==
  /\ page[p].at = "open" /\ page[p].editable
  /\ page' = [page EXCEPT ![p].at = "busy"]
  /\ asked' = asked \cup {r}
  /\ UNCHANGED <<quote, owner, written, replies>>

\* "Save Draft" and "Update".
SaveRevision(p, andSubmit) == p \in RepPages /\ Ask(p, SaveRequest(p, "revision", andSubmit))

\* "Send revised offer" and "Forward to Finance".
Send(p) == p \in CasePages /\ Ask(p, SaveRequest(p, "case_revision", FALSE))
Forward(p) == p \in ManagerPages /\ Ask(p, PlainRequest(p, "forward"))

Consume(r) == replies' = replies \ {r}

\* Variant (fault model): a reload refreshes the row and leaves the lines the
\* user is editing.
ShowKeepingEdits(r) ==
  LET p == r.to.from IN
  page' = [page EXCEPT ![p] =
    [at |-> IF @.at = "loading" \/ r.to.own THEN "open" ELSE @.at,
     version |-> IF @.at = "loading" THEN r.version ELSE @.version,
     token |-> r.token, editable |-> r.editable]]

\* load: the row and its lines are set together, whatever was being edited.
Show(r) ==
  LET p == r.to.from IN
  page' = [page EXCEPT ![p] =
    [at |-> IF @.at = "loading" \/ r.to.own THEN "open" ELSE @.at,
     version |-> r.version, token |-> r.token, editable |-> r.editable]]

LoadArrives(r) ==
  /\ IsRead(r.to) /\ r.ok
  /\ Show(r)
  /\ Consume(r)
  /\ UNCHANGED <<quote, owner, written, asked>>

\* A saved draft or a submission leaves the page; a revised offer is followed
\* by a load the form waits for.
Done(r) ==
  LET p == r.to.from IN
  /\ ~IsRead(r.to) /\ r.ok
  /\ CASE r.to.kind = "revision" /\ r.to.submit ->
            /\ asked' = asked \cup {PlainRequest(p, "submit")}
            /\ UNCHANGED page
       [] r.to.kind = "case_revision" ->
            /\ asked' = asked \cup {LoadRequest(p, TRUE)}
            /\ UNCHANGED page
       [] OTHER ->
            /\ page' = [page EXCEPT ![p] = Left]
            /\ asked' = {a \in asked : a.from # p}
  /\ replies' = {a \in replies \ {r} : r.to.kind \in Saves \/ a.to.from # p}
  /\ UNCHANGED <<quote, owner, written>>

\* Variant (fault model): the catch clause only reports.
FailedKeepingBusy(r) == UNCHANGED page

\* The request was refused or lost: the form comes back with what it showed.
\* A load nobody waits for leaves the page as it is: quotations/[id] then says
\* why it is empty, negotiations/[id] goes on saying that it is loading.
Failed(r) ==
  page' = [page EXCEPT ![r.from].at =
             IF @ = "busy" /\ (~IsRead(r) \/ r.own) THEN "open" ELSE @]

Denied(r) ==
  /\ ~r.ok
  /\ Failed(r.to)
  /\ Consume(r)
  /\ UNCHANGED <<quote, owner, written, asked>>

\* A connection breaks.  (A request that never arrives looks like a refusal to
\* its page, and a load that fails like one whose answer is lost.)
ReplyLost(r) ==
  /\ r.ok
  /\ Failed(r.to)
  /\ Consume(r)
  /\ UNCHANGED <<quote, owner, written, asked>>

-----------------------------------------------------------------------------

Elsewhere == (\E o \in Proposed : Negotiate(o)) \/ Decline \/ BeginNegotiation \/ Decide

Answer(r) ==
  AnswerQuotation(r) \/ ReadCase(r) \/ ReadOffer(r) \/ Acceptance(r) \/ Refuse(r)

Arrive(r) == LoadArrives(r) \/ Done(r) \/ Denied(r)

UserNext ==
  \E p \in Pages :
    \/ Open(p) \/ Close(p)
    \/ \E s \in BOOLEAN : SaveRevision(p, s)
    \/ Send(p) \/ Forward(p)

Next ==
  \/ Elsewhere
  \/ UserNext
  \/ \E r \in asked : Answer(r)
  \/ \E r \in replies : Arrive(r) \/ ReplyLost(r)

\* Every request of a page is answered or fails, and nobody has to click.
Fairness ==
  \A p \in Pages :
    /\ WF_vars(\E r \in asked : r.from = p /\ Answer(r))
    /\ WF_vars(\E r \in replies : r.to.from = p /\ Arrive(r))

Spec == Init /\ [][Next]_vars
FairSpec == Spec /\ Fairness

-----------------------------------------------------------------------------
(***************************************************************************)
(* Properties.                                                             *)
(***************************************************************************)

\* Whoever else worked on the quotation meanwhile, and in whatever order the
\* pages' loads arrived, a revision was edited from the lines of the version
\* it replaces: nobody's change is undone by someone who never saw it.
RevisionsBuildOnShown ==
  \A v \in 2..quote.version : written[v].from = v - 1

\* A form that was sent ends: with the page left, or ready to be sent again.
FormsComeBack == \A p \in Pages : (page[p].at = "busy") ~> (page[p].at # "busy")

=============================================================================
