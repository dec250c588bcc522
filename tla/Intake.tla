-------------------------------- MODULE Intake --------------------------------
(***************************************************************************)
(* From a customer's request for a quotation to the quotation: the request *)
(* is given to the sales representative with the fewest open ones, who     *)
(* turns it into a quotation on the "New quotation" page (two requests,    *)
(* create and submit, whose answers may be lost), while an administrator   *)
(* may delete the representative's account and hand the requests over.     *)
(*                                                                         *)
(* READ COMMITTED: assignment is a SELECT and an INSERT; a deletion locks  *)
(* the open requests, moves them and then deletes the account, under the   *)
(* foreign key quote_requests.assigned_sales_rep_id.  What a transaction   *)
(* writes is seen by the others when it commits.                           *)
(***************************************************************************)
EXTENDS Naturals, FiniteSets, Sequences

CONSTANTS
  Reps,        \* accounts with the role sales_rep
  NoRep,       \* NULL
  Requests,    \* rows of quote_requests, by the customer's form that makes them
  NoRequest,   \* a quotation nobody asked for
  Tabs,        \* browser tabs on /quotations/new
  MaxQuotes    \* bound: rows of quotations

ASSUME NullsAssumption == NoRep \notin Reps /\ NoRequest \notin Requests
ASSUME BoundAssumption == MaxQuotes \in Nat

VARIABLES
  users,     \* accounts that exist
  requests,  \* quote_requests: status, representative and quotation
  quotes,    \* quotations in the order of creation: request, owner, status
  sending,   \* the representative each createQuoteRequest has selected
  removal,   \* the transaction that deletes each representative's account
  tabs,      \* what each tab is doing
  asked,     \* requests of the tabs the server has not answered
  answered   \* the answer each tab has not received

deskVars == <<tabs, asked, answered>>
vars == <<users, requests, quotes, sending, removal, tabs, asked, answered>>

-----------------------------------------------------------------------------

QuoteIds == 1..MaxQuotes
NoQuote == 0

Request == [status : {"none", "pending", "converted"},
            rep : Reps \cup {NoRep}, quote : {NoQuote} \cup QuoteIds]
Quote == [request : Requests \cup {NoRequest}, owner : Reps \cup {NoRep},
          status : {"draft", "submitted"}]

\* A deletion holds the rows it locked until it ends; moved are the requests it
\* will give to the replacement when it commits.
Removal == [pc : {"idle", "locked", "moved"}, locked : SUBSET Requests,
            moved : SUBSET Requests, replacement : Reps \cup {NoRep}]
NoRemoval == [pc |-> "idle", locked |-> {}, moved |-> {}, replacement |-> NoRep]

Tab == [pc : {"closed", "form", "creating", "submitting"},
        rep : Reps \cup {NoRep}, request : Requests \cup {NoRequest},
        quote : {NoQuote} \cup QuoteIds]
Sent == [kind : {"create", "submit"}, tab : Tabs, rep : Reps,
         request : Requests \cup {NoRequest}, quote : {NoQuote} \cup QuoteIds]
ClosedTab == [pc |-> "closed", rep |-> NoRep, request |-> NoRequest, quote |-> NoQuote]

\* 0: no answer on its way; otherwise the quotation created, or a refusal.
Waiting == 0
Refused == MaxQuotes + 1

TypeOK ==
  /\ users \subseteq Reps
  /\ requests \in [Requests -> Request]
  /\ quotes \in Seq(Quote) /\ Len(quotes) <= MaxQuotes
  /\ sending \in [Requests -> Reps \cup {NoRep}]
  /\ removal \in [Reps -> Removal]
  /\ tabs \in [Tabs -> Tab]
  /\ asked \subseteq Sent
  /\ answered \in [Tabs -> 0..Refused]

Pending(u) == {q \in Requests : requests[q].status = "pending" /\ requests[q].rep = u}

\* ORDER BY count of pending requests ASC, created_at ASC LIMIT 1.  The
\* accounts' ages are not modelled: any of the least loaded may be first.
LeastLoaded(candidates) ==
  {u \in candidates :
     \A v \in candidates : Cardinality(Pending(u)) <= Cardinality(Pending(v))}

\* SELECT ... FOR UPDATE waits for the transaction that holds the row.
Locked(q) == \E u \in Reps : q \in removal[u].locked \cup removal[u].moved

Init ==
  /\ users = Reps
  /\ requests = [q \in Requests |-> [status |-> "none", rep |-> NoRep, quote |-> NoQuote]]
  /\ quotes = <<>>
  /\ sending = [q \in Requests |-> NoRep]
  /\ removal = [u \in Reps |-> NoRemoval]
  /\ tabs = [t \in Tabs |-> ClosedTab]
  /\ asked = {}
  /\ answered = [t \in Tabs |-> Waiting]

-----------------------------------------------------------------------------
(***************************************************************************)
(* createQuoteRequest.                                                     *)
(***************************************************************************)

SelectRep(q) ==
  /\ requests[q].status = "none" /\ sending[q] = NoRep
  /\ \E u \in LeastLoaded(users) : sending' = [sending EXCEPT ![q] = u]
  /\ UNCHANGED <<users, requests, quotes, removal, deskVars>>

\* Variant (fault model): the column without its foreign key.
InsertUnchecked(q) ==
  /\ sending[q] # NoRep
  /\ requests' = [requests EXCEPT ![q] =
                    [status |-> "pending", rep |-> sending[q], quote |-> NoQuote]]
  /\ sending' = [sending EXCEPT ![q] = NoRep]
  /\ UNCHANGED <<users, quotes, removal, deskVars>>

\* Variant (fault model): a status the column's CHECK does not list.
InsertAsAssigned(q) ==
  /\ sending[q] \in users
  /\ requests' = [requests EXCEPT ![q] =
                    [status |-> "assigned", rep |-> sending[q], quote |-> NoQuote]]
  /\ sending' = [sending EXCEPT ![q] = NoRep]
  /\ UNCHANGED <<users, quotes, removal, deskVars>>

\* REFERENCES users(id): the account must still be there.
InsertRequest(q) ==
  /\ sending[q] \in users
  /\ requests' = [requests EXCEPT ![q] =
                    [status |-> "pending", rep |-> sending[q], quote |-> NoQuote]]
  /\ sending' = [sending EXCEPT ![q] = NoRep]
  /\ UNCHANGED <<users, quotes, removal, deskVars>>

\* The account is gone or the process stops: nothing was written.
RequestFails(q) ==
  /\ sending[q] # NoRep
  /\ sending' = [sending EXCEPT ![q] = NoRep]
  /\ UNCHANGED <<users, requests, quotes, removal, deskVars>>

-----------------------------------------------------------------------------
(***************************************************************************)
(* DELETE /admin/users/:id.                                                *)
(***************************************************************************)

LockPending(u) ==
  /\ u \in users /\ removal[u].pc = "idle"
  /\ \A q \in Pending(u) : ~Locked(q)
  /\ removal' = [removal EXCEPT ![u] = [@ EXCEPT !.pc = "locked", !.locked = Pending(u)]]
  /\ UNCHANGED <<users, requests, quotes, sending, deskVars>>

\* The replacement is looked for only when a request was found; the UPDATE
\* that follows moves whatever is pending by then.
MoveRequests(u) ==
  /\ removal[u].pc = "locked"
  /\ IF removal[u].locked = {}
     THEN removal' = [removal EXCEPT ![u].pc = "moved"]
     ELSE /\ \A q \in Pending(u) \ removal[u].locked : ~Locked(q)
          /\ \E v \in LeastLoaded(users \ {u}) :
               removal' = [removal EXCEPT ![u] =
                 [@ EXCEPT !.pc = "moved", !.moved = Pending(u), !.replacement = v]]
  /\ UNCHANGED <<users, requests, quotes, sending, deskVars>>

\* Rows that still refer to the account when it is deleted: those the
\* transaction has not moved, and those another deletion is moving to it.
StillReferTo(u) ==
  {q \in Requests : requests[q].rep = u /\ q \notin removal[u].moved}
ClaimedFor(u) == {v \in Reps : removal[v].replacement = u}

HandedOver(u) ==
  requests' = [q \in Requests |->
                 IF q \in removal[u].moved
                 THEN [requests[q] EXCEPT !.rep = removal[u].replacement]
                 ELSE requests[q]]

\* owner_user_id is detached from the quotations (owner_display_name remains);
\* the sessions go with the account, so its tabs are logged out.
RemoveUser(u) ==
  /\ removal[u].pc = "moved"
  /\ StillReferTo(u) = {} /\ ClaimedFor(u) = {}
  /\ users' = users \ {u}
  /\ HandedOver(u)
  /\ quotes' = [i \in DOMAIN quotes |->
                  IF quotes[i].owner = u THEN [quotes[i] EXCEPT !.owner = NoRep]
                                         ELSE quotes[i]]
  /\ removal' = [removal EXCEPT ![u] = NoRemoval]
  /\ UNCHANGED <<sending, deskVars>>

\* A foreign key refuses, no replacement is found, two deletions wait for each
\* other and PostgreSQL ends one, or the process stops.
RemovalFails(u) ==
  /\ removal[u].pc # "idle"
  /\ removal' = [removal EXCEPT ![u] = NoRemoval]
  /\ UNCHANGED <<users, requests, quotes, sending, deskVars>>

-----------------------------------------------------------------------------
(***************************************************************************)
(* The page "New quotation": a button of the request list opens it, or it  *)
(* is opened without a request.                                            *)
(***************************************************************************)

Offered(u) == {q \in Requests : requests[q].rep = u /\ requests[q].quote = NoQuote}

OpenForm(t) ==
  /\ tabs[t].pc = "closed"
  /\ \E u \in users : \E q \in Offered(u) \cup {NoRequest} :
       tabs' = [tabs EXCEPT ![t] = [pc |-> "form", rep |-> u, request |-> q, quote |-> NoQuote]]
  /\ UNCHANGED <<users, requests, quotes, sending, removal, asked, answered>>

CloseForm(t) ==
  /\ tabs[t].pc = "form"
  /\ tabs' = [tabs EXCEPT ![t] = ClosedTab]
  /\ UNCHANGED <<users, requests, quotes, sending, removal, asked, answered>>

\* What a tab sends: the rest of the body is the quotation's terms.
SaveRequest(t) == [kind |-> "create", tab |-> t, rep |-> tabs[t].rep,
                   request |-> tabs[t].request, quote |-> NoQuote]
SubmitRequest(t, n) == [SaveRequest(t) EXCEPT !.kind = "submit", !.quote = n]

Save(t) ==
  /\ tabs[t].pc = "form"
  /\ tabs' = [tabs EXCEPT ![t].pc = "creating"]
  /\ asked' = asked \cup {SaveRequest(t)}
  /\ UNCHANGED <<users, requests, quotes, sending, removal, answered>>

\* The answer to a request the browser gave up goes nowhere.
IsAwaited(r) ==
  \/ tabs[r.tab].pc = "creating" /\ r = SaveRequest(r.tab)
  \/ tabs[r.tab].pc = "submitting" /\ r = SubmitRequest(r.tab, tabs[r.tab].quote)
Answer(r, a) ==
  /\ asked' = asked \ {r}
  /\ answered' = IF IsAwaited(r) THEN [answered EXCEPT ![r.tab] = a] ELSE answered

\* The inserted row, and the request's row when there is one.
Converts(r) ==
  /\ Len(quotes) < MaxQuotes
  /\ quotes' = Append(quotes, [request |-> r.request, owner |-> r.rep, status |-> "draft"])
  /\ requests' = IF r.request = NoRequest THEN requests
                 ELSE [requests EXCEPT ![r.request] =
                         [@ EXCEPT !.status = "converted", !.quote = Len(quotes) + 1]]
  /\ Answer(r, Len(quotes) + 1)
  /\ UNCHANGED <<users, sending, removal, tabs>>

IsAssigned(r) == requests[r.request].rep = r.rep
IsOpen(q) == requests[q].status # "converted" /\ requests[q].quote = NoQuote

\* Variant (fault model): the request is read without FOR UPDATE.
CreateQuotationUnlocked(r) ==
  /\ r \in asked /\ r.kind = "create" /\ r.rep \in users
  /\ r.request # NoRequest => IsAssigned(r) /\ IsOpen(r.request)
  /\ Converts(r)

\* Variant (fault model): a request that was converted already is not refused.
CreateQuotationAgain(r) ==
  /\ r \in asked /\ r.kind = "create" /\ r.rep \in users
  /\ r.request # NoRequest => ~Locked(r.request) /\ IsAssigned(r)
  /\ Converts(r)

\* The session's account must exist; the request is locked, and must be
\* assigned to it and not converted.
CreateQuotation(r) ==
  /\ r \in asked /\ r.kind = "create" /\ r.rep \in users
  /\ r.request # NoRequest => ~Locked(r.request) /\ IsAssigned(r) /\ IsOpen(r.request)
  /\ Converts(r)

\* submitQuotation: the owner's, once per version (UNIQUE sequence_number).
SubmitQuotation(r) ==
  /\ r \in asked /\ r.kind = "submit" /\ r.rep \in users
  /\ quotes[r.quote].owner = r.rep /\ quotes[r.quote].status = "draft"
  /\ quotes' = [quotes EXCEPT ![r.quote].status = "submitted"]
  /\ Answer(r, r.quote)
  /\ UNCHANGED <<users, requests, sending, removal, tabs>>

\* A refused condition (401, 403, 409), or a server that fails.
RefuseRequest(r) ==
  /\ r \in asked
  /\ Answer(r, Refused)
  /\ UNCHANGED <<users, requests, quotes, sending, removal, tabs>>

\* "Submit" goes on with the submission; after "Save Draft" the page is left.
Created(t) ==
  /\ tabs[t].pc = "creating" /\ answered[t] \in QuoteIds
  /\ answered' = [answered EXCEPT ![t] = Waiting]
  /\ \/ /\ tabs' = [tabs EXCEPT ![t] = [@ EXCEPT !.pc = "submitting", !.quote = answered[t]]]
        /\ asked' = asked \cup {SubmitRequest(t, answered[t])}
     \/ /\ tabs' = [tabs EXCEPT ![t] = ClosedTab]
        /\ UNCHANGED asked
  /\ UNCHANGED <<users, requests, quotes, sending, removal>>

Submitted(t) ==
  /\ tabs[t].pc = "submitting" /\ answered[t] \in QuoteIds
  /\ answered' = [answered EXCEPT ![t] = Waiting]
  /\ tabs' = [tabs EXCEPT ![t] = ClosedTab]
  /\ UNCHANGED <<users, requests, quotes, sending, removal, asked>>

\* Back to the form with the error; "Save" may be tried again.
BackToForm(t) ==
  /\ tabs' = [tabs EXCEPT ![t] = [@ EXCEPT !.pc = "form", !.quote = NoQuote]]
  /\ answered' = [answered EXCEPT ![t] = Waiting]
  /\ UNCHANGED <<users, requests, quotes, sending, removal, asked>>

SaveRefused(t) == answered[t] = Refused /\ BackToForm(t)

\* The connection fails: the answer is lost, or the browser gives up on a
\* request that the server may still carry out.
AnswerLost(t) == tabs[t].pc \in {"creating", "submitting"} /\ BackToForm(t)

-----------------------------------------------------------------------------

CustomerNext == \E q \in Requests : SelectRep(q) \/ InsertRequest(q) \/ RequestFails(q)
AdminNext ==
  \E u \in Reps : LockPending(u) \/ MoveRequests(u) \/ RemoveUser(u) \/ RemovalFails(u)
RepNext ==
  \E t \in Tabs :
    \/ OpenForm(t) \/ CloseForm(t) \/ Save(t)
    \/ Created(t) \/ Submitted(t) \/ SaveRefused(t) \/ AnswerLost(t)
ServerNext ==
  \E r \in asked : CreateQuotation(r) \/ SubmitQuotation(r) \/ RefuseRequest(r)

Next == CustomerNext \/ AdminNext \/ RepNext \/ ServerNext

Spec == Init /\ [][Next]_vars

-----------------------------------------------------------------------------
(***************************************************************************)
(* What intake must keep right.                                            *)
(***************************************************************************)

\* Whenever accounts are deleted and requests arrive or are handed over, a
\* request the customer was told is assigned has a representative who exists.
AssignedToSomebody ==
  \A q \in Requests : requests[q].status # "none" => requests[q].rep \in users

\* However often "Save" is tried, in how many tabs, and whatever answers are
\* lost, a request becomes at most one quotation, the one its row names.
ConvertedOnce ==
  \A i \in DOMAIN quotes :
    quotes[i].request # NoRequest => requests[quotes[i].request].quote = i

\* Handing requests over never takes one from the representative who has made
\* its quotation: the customer's list names the quotation's owner.
OwnerIsAssignee ==
  \A q \in Requests : requests[q].quote # NoQuote =>
    requests[q].rep = quotes[requests[q].quote].owner

=============================================================================
