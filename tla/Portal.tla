------------------------------- MODULE Portal -------------------------------
(***************************************************************************)
(* The customer's page (frontend/app/portal/page.tsx) in front of the      *)
(* quotations of one customer: the list, the opened quotation, the three   *)
(* answers it can send, and the stream of committed changes that makes it  *)
(* reload the list.                                                        *)
(*                                                                         *)
(* Nothing orders the page's requests.  A request is first asked, then     *)
(* answered by the server from what is committed at that moment, then      *)
(* delivered to the page, and other requests of the page, of the staff and *)
(* of the server may run between any two of these.  Equal requests in      *)
(* flight count once.                                                      *)
(***************************************************************************)
EXTENDS Naturals, FiniteSets

CONSTANTS
  Quotes,      \* the customer's quotations
  NoQuote,     \* nothing is opened
  MaxCommits,  \* bound: transactions that change a quotation
  MaxAsked,    \* bound: requests the user has under way at a time
  MaxReplies   \* bound: list answers on their way

ASSUME QuotesAssumption == NoQuote \notin Quotes
ASSUME BoundsAssumption == {MaxCommits, MaxAsked, MaxReplies} \subseteq Nat \ {0}

VARIABLES
  offer,       \* the quotations rows: status, current version, lock_version
  commits,     \* history: number of transactions that changed a quotation
  streaming,   \* /events/stream is connected
  asked,       \* requests the server has not answered
  replies,     \* answers the page has not received
  rows,        \* quotations of the list on the page
  page,        \* the opened quotation: status, lines and lock_version shown
  submitting,  \* "Request changes" is disabled while one is under way
  error,       \* the page shows an error; nothing clears it
  heard,       \* history: the last commit whose announcement the page heard
  shown,       \* history: the last commit the list on the page was read after
  newest       \* history: the greatest shown so far

serverVars == <<offer, commits>>
pageVars == <<rows, page, submitting, error>>
listVars == <<heard, shown, newest>>
vars == <<offer, commits, streaming, asked, replies, rows, page, submitting,
          error, heard, shown, newest>>

-----------------------------------------------------------------------------

Statuses == {"draft", "pending_manager_approval", "approved",
             "sent_to_customer", "under_negotiation", "customer_confirmed",
             "rejected"}
Hidden == {"draft"}
CanRespond == {"sent_to_customer", "approved"}

Counts == 0..MaxCommits + 1
Offer == [status : Statuses, version : Counts, lock : Counts]
Page == [quote : Quotes, status : Statuses, lines : Counts, token : Counts]
Nothing == [quote |-> NoQuote]

\* The requests of the page: the list, one quotation (opened by a click, or
\* again after an answer was sent), and the three answers.
Answers == {"accept", "reject", "negotiate"}
ListRequest == [kind |-> "list"]
DetailRequest(q, after) == [kind |-> "detail", quote |-> q, after |-> after]
AnswerRequest(k, p) ==
  [kind |-> k, quote |-> p.quote, token |-> p.token, lines |-> p.lines]

Requests == {ListRequest}
  \cup [kind : {"detail"}, quote : Quotes, after : Answers \cup {"click"}]
  \cup [kind : Answers, quote : Quotes, token : Counts, lines : Counts]
Replies ==
       [to : {ListRequest}, offers : [Quotes -> Offer], at : Counts]
  \cup [to : Requests, found : {TRUE}, offer : Offer]
  \cup [to : Requests, found : {FALSE}]
  \cup [to : Requests, ok : BOOLEAN]

TypeOK ==
  /\ offer \in [Quotes -> Offer]
  /\ {commits, heard, shown, newest} \subseteq Counts
  /\ asked \subseteq Requests
  /\ \A r \in replies : r.to \in Requests
  /\ rows \subseteq Quotes
  /\ page \in Page \cup {Nothing}
  /\ {streaming, submitting, error} \subseteq BOOLEAN

Opened == page # Nothing
ListReplies == {r \in replies : r.to.kind = "list"}

-----------------------------------------------------------------------------
(***************************************************************************)
(* The page mounts: the list is asked for while the stream connects.       *)
(***************************************************************************)

Init ==
  /\ offer = [q \in Quotes |-> [status |-> "sent_to_customer", version |-> 1, lock |-> 1]]
  /\ commits = 0
  /\ streaming = FALSE
  /\ asked = {ListRequest}
  /\ replies = {}
  /\ rows = {}
  /\ page = Nothing
  /\ submitting = FALSE
  /\ error = FALSE
  /\ heard = 0 /\ shown = 0 /\ newest = 0

-----------------------------------------------------------------------------
(***************************************************************************)
(* Transactions.  inTransaction publishes after COMMIT, and a page that is *)
(* connected then asks for the list; the decisions of domains/approvals    *)
(* take their connection from the pool themselves and publish nothing.     *)
(***************************************************************************)

Changes(q, o) ==
  /\ commits < MaxCommits
  /\ offer' = [offer EXCEPT ![q] = o]
  /\ commits' = commits + 1

\* Variant (fault model): published before COMMIT, so that the list the page
\* asks for may be read before the change is there.
AnnounceEarly(others, own) ==
  /\ UNCHANGED <<shown, newest>>
  /\ asked' = others
  /\ IF streaming
     THEN /\ heard' = commits + 1
          /\ replies' = replies \cup own \cup
               {[to |-> ListRequest, offers |-> offer, at |-> commits]}
     ELSE /\ replies' = replies \cup own
          /\ UNCHANGED heard

Announce(others, own) ==
  /\ UNCHANGED <<shown, newest>>
  /\ replies' = replies \cup own
  /\ IF streaming
     THEN /\ heard' = commits + 1
          /\ asked' = others \cup {ListRequest}
     ELSE /\ asked' = others
          /\ UNCHANGED heard

Commit(q, o) == Changes(q, o) /\ Announce(asked, {})
CommitSilently(q, o) == Changes(q, o) /\ UNCHANGED <<listVars, asked, replies>>

Moved(o, s) == [o EXCEPT !.status = s, !.lock = @ + 1]
Revised(o, s) == [Moved(o, s) EXCEPT !.version = @ + 1]

\* Sales revises, submits (in any status, lock_version kept) and sends.
CreateRevision(q) ==
  /\ Commit(q, Revised(offer[q], "draft"))
  /\ UNCHANGED <<streaming, pageVars>>

SubmitQuotation(q) ==
  /\ \E s \in {"pending_manager_approval", "sent_to_customer"} :
       Commit(q, [offer[q] EXCEPT !.status = s])
  /\ UNCHANGED <<streaming, pageVars>>

\* Variant (fault model): a status outside the quote_status enumeration.
SendAsSent(q) ==
  /\ offer[q].status = "approved"
  /\ Commit(q, Moved(offer[q], "sent"))
  /\ UNCHANGED <<streaming, pageVars>>

SendToCustomer(q) ==
  /\ offer[q].status = "approved"
  /\ Commit(q, Moved(offer[q], "sent_to_customer"))
  /\ UNCHANGED <<streaming, pageVars>>

\* The negotiation owner answers with a revised offer.
ReviseCase(q) ==
  /\ offer[q].status = "under_negotiation"
  /\ Commit(q, Revised(offer[q], "sent_to_customer"))
  /\ UNCHANGED <<streaming, pageVars>>

ApproveQuotation(q) ==
  /\ offer[q].status = "pending_manager_approval"
  /\ CommitSilently(q, Moved(offer[q], "approved"))
  /\ UNCHANGED <<streaming, pageVars>>

StaffNext ==
  \E q \in Quotes :
    \/ CreateRevision(q)
    \/ SubmitQuotation(q)
    \/ SendToCustomer(q)
    \/ ReviseCase(q)
    \/ ApproveQuotation(q)

-----------------------------------------------------------------------------
(***************************************************************************)
(* The server answers what the page asked.                                 *)
(***************************************************************************)

Visible == {q \in Quotes : offer[q].status \notin Hidden}

AnswerList ==
  /\ ListRequest \in asked
  /\ Cardinality(ListReplies) < MaxReplies
  /\ asked' = asked \ {ListRequest}
  /\ replies' = replies \cup {[to |-> ListRequest, offers |-> offer, at |-> commits]}
  /\ UNCHANGED <<serverVars, streaming, listVars, pageVars>>

AnswerDetail(r) ==
  /\ r \in asked /\ r.kind = "detail"
  /\ asked' = asked \ {r}
  /\ replies' = replies \cup
       {IF r.quote \in Visible THEN [to |-> r, found |-> TRUE, offer |-> offer[r.quote]]
                               ELSE [to |-> r, found |-> FALSE]}
  /\ UNCHANGED <<serverVars, streaming, listVars, pageVars>>

\* acceptQuote, rejectQuote and submitNegotiationRequest under the row's lock.
AnswerStatus == [accept |-> "customer_confirmed", reject |-> "rejected",
                 negotiate |-> "under_negotiation"]
Answerable(kind) ==
  IF kind = "negotiate" THEN CanRespond \cup {"under_negotiation"} ELSE CanRespond

\* Variant (fault model): the token of the page is not compared.
HonoursUnseen(r) == offer[r.quote].status \in Answerable(r.kind)

Honours(r) ==
  /\ offer[r.quote].status \in Answerable(r.kind)
  /\ offer[r.quote].lock = r.token

TakeAnswer(r) ==
  /\ r \in asked /\ r.kind \in Answers
  /\ Honours(r)
  /\ Changes(r.quote, Moved(offer[r.quote], AnswerStatus[r.kind]))
  /\ Announce(asked \ {r}, {[to |-> r, ok |-> TRUE]})
  /\ UNCHANGED <<streaming, pageVars>>

\* A conflict: the handler throws and nothing is written.
RefuseAnswer(r) ==
  /\ r \in asked /\ r.kind \in Answers
  /\ ~Honours(r) \/ commits = MaxCommits
  /\ asked' = asked \ {r}
  /\ replies' = replies \cup {[to |-> r, ok |-> FALSE]}
  /\ UNCHANGED <<serverVars, streaming, listVars, pageVars>>

-----------------------------------------------------------------------------
(***************************************************************************)
(* What the customer does.                                                 *)
(***************************************************************************)

Ask(r) ==
  /\ Cardinality(asked \ {ListRequest}) + Cardinality(replies \ ListReplies) < MaxAsked
  /\ asked' = asked \cup {r}
  /\ UNCHANGED <<serverVars, streaming, replies, rows, page, error, listVars>>

Select(q) ==
  /\ q \in rows
  /\ Ask(DetailRequest(q, "click"))
  /\ UNCHANGED submitting

\* Accept and Decline; the buttons stay enabled while a request is under way.
ClickAnswer(k) ==
  /\ Opened /\ page.status \in CanRespond
  /\ Ask(AnswerRequest(k, page))
  /\ UNCHANGED submitting

ClickNegotiate ==
  /\ Opened /\ page.status \in CanRespond
  /\ ~submitting
  /\ submitting' = TRUE
  /\ Ask(AnswerRequest("negotiate", page))

\* Opening a quotation request closes the quotation.
OpenRequest ==
  /\ Opened
  /\ page' = Nothing
  /\ UNCHANGED <<serverVars, streaming, asked, replies, rows, submitting, error, listVars>>

-----------------------------------------------------------------------------
(***************************************************************************)
(* What arrives at the page.                                               *)
(***************************************************************************)

\* Variant (fault model): the list's rows carry lock_version.
MergeRowWithLock(offers, listed) ==
  IF Opened /\ page.quote \in listed
  THEN [page EXCEPT !.status = offers[page.quote].status,
                    !.token = offers[page.quote].lock] ELSE page

\* The list replaces the rows of the page whatever they were read from: loads
\* are neither cancelled nor put in order, so an older list may come last.
\* Its row is merged into the opened quotation.  The list has no lock_version
\* and no lines; a quotation that left the list stays as it was.
MergeRow(offers, listed) ==
  IF Opened /\ page.quote \in listed
  THEN [page EXCEPT !.status = offers[page.quote].status] ELSE page

ShowList(r) ==
  /\ r \in replies /\ r.to.kind = "list"
  /\ replies' = replies \ {r}
  /\ LET listed == {q \in Quotes : r.offers[q].status \notin Hidden}
     IN /\ rows' = listed
        /\ page' = MergeRow(r.offers, listed)
  /\ shown' = r.at
  /\ newest' = IF r.at > newest THEN r.at ELSE newest
  /\ UNCHANGED <<serverVars, streaming, asked, submitting, error, heard>>

\* After an answer the page opens the quotation again, then loads the list.
Continue(r) ==
  asked' = IF r.after = "click" THEN asked ELSE asked \cup {ListRequest}

FormAfter(kind) ==
  submitting' = IF kind = "negotiate" THEN FALSE ELSE submitting

ShowQuote(r) ==
  /\ r \in replies /\ r.to.kind = "detail"
  /\ replies' = replies \ {r}
  /\ IF r.found
     THEN /\ page' = [quote |-> r.to.quote, status |-> r.offer.status,
                      lines |-> r.offer.version, token |-> r.offer.lock]
          /\ UNCHANGED error
     ELSE /\ error' = TRUE
          /\ UNCHANGED page
  /\ Continue(r.to)
  /\ FormAfter(r.to.after)
  /\ UNCHANGED <<serverVars, streaming, rows, listVars>>

AnswerTaken(r) ==
  /\ r \in replies /\ r.to.kind \in Answers /\ r.ok
  /\ replies' = replies \ {r}
  /\ asked' = asked \cup {DetailRequest(r.to.quote, r.to.kind)}
  /\ UNCHANGED <<serverVars, streaming, pageVars, listVars>>

\* Variant (fault model): the form comes back only when all went well.
AnswerRefusedForGood(r) ==
  /\ r \in replies /\ r.to.kind \in Answers /\ ~r.ok
  /\ replies' = replies \ {r}
  /\ error' = TRUE
  /\ UNCHANGED <<serverVars, streaming, asked, rows, page, submitting, listVars>>

AnswerRefused(r) ==
  /\ r \in replies /\ r.to.kind \in Answers /\ ~r.ok
  /\ replies' = replies \ {r}
  /\ error' = TRUE
  /\ FormAfter(r.to.kind)
  /\ UNCHANGED <<serverVars, streaming, asked, rows, page, listVars>>

\* A connection fails: the request never reaches the server, or its answer
\* never reaches the page.  (Losing the request of a read is the same as losing
\* its answer.)  Bound: none once the page shows an error.
Lost(r) ==
  /\ ~error
  /\ error' = TRUE
  /\ IF r.kind = "detail"
     THEN FormAfter(r.after) /\ Continue(r)
     ELSE FormAfter(r.kind) /\ asked' = asked \ {r}
  /\ UNCHANGED <<serverVars, streaming, rows, page, listVars>>

AnswerLost(r) == r \in asked /\ r.kind \in Answers /\ Lost(r) /\ UNCHANGED replies
ReplyLost(r) == r \in replies /\ Lost(r.to) /\ replies' = replies \ {r}

\* The stream reconnects after a second without loading anything, so what was
\* published meanwhile is not heard.
Connect ==
  /\ ~streaming
  /\ streaming' = TRUE
  /\ UNCHANGED <<serverVars, asked, replies, pageVars, listVars>>

Disconnect ==
  /\ streaming
  /\ streaming' = FALSE
  /\ UNCHANGED <<serverVars, asked, replies, pageVars, listVars>>

-----------------------------------------------------------------------------

ServerNext ==
  \/ AnswerList
  \/ \E r \in asked : AnswerDetail(r) \/ TakeAnswer(r) \/ RefuseAnswer(r)

UserNext ==
  \/ \E q \in Quotes : Select(q)
  \/ \E k \in {"accept", "reject"} : ClickAnswer(k)
  \/ ClickNegotiate
  \/ OpenRequest

Arrives ==
  \E r \in replies : ShowList(r) \/ ShowQuote(r) \/ AnswerTaken(r) \/ AnswerRefused(r)

NetworkNext ==
  \/ \E r \in asked : AnswerLost(r)
  \/ \E r \in replies : ReplyLost(r)
  \/ Connect
  \/ Disconnect

Next == StaffNext \/ ServerNext \/ UserNext \/ Arrives \/ NetworkNext

(***************************************************************************)
(* Every request a browser sends is answered or fails, one kind not        *)
(* starving another; nobody has to click, nor the staff to act.            *)
(***************************************************************************)

OfForm(r) == r.kind = "negotiate" \/ (r.kind = "detail" /\ r.after = "negotiate")

AnswerForm ==
  \E r \in asked : OfForm(r) /\ (AnswerDetail(r) \/ TakeAnswer(r) \/ RefuseAnswer(r))
FormArrives ==
  \E r \in replies :
    OfForm(r.to) /\ (ShowQuote(r) \/ AnswerTaken(r) \/ AnswerRefused(r))
ListArrives == \E r \in replies : ShowList(r)

Fairness ==
  /\ WF_vars(AnswerList)
  /\ WF_vars(ListArrives)
  /\ WF_vars(AnswerForm)
  /\ WF_vars(FormArrives)

Spec == Init /\ [][Next]_vars
FairSpec == Spec /\ Fairness

-----------------------------------------------------------------------------
(***************************************************************************)
(* What the page must keep right.                                          *)
(***************************************************************************)

\* Whatever order lists, quotations and answers arrive in, a token that would
\* still be accepted stands for the lines on the screen: refreshing the row
\* of an opened quotation never lends it the token of terms not shown.
TokenBelongsToLines ==
  /\ Opened => (page.token = offer[page.quote].lock =>
                  page.lines = offer[page.quote].version)
  /\ \A r \in asked : r.kind \in Answers =>
       (r.token = offer[r.quote].lock => r.lines = offer[r.quote].version)

\* End to end, from the click to the row: what the server records as accepted,
\* declined or disputed is the version the customer had on the screen.
AnswersShownTerms ==
  [][ \A r \in asked : (r.kind \in Answers /\ r \notin asked' /\ offer' # offer)
        => /\ r.lines = offer[r.quote].version
           /\ offer'[r.quote].version = r.lines ]_vars

\* The page does not stay behind a change whose announcement it heard, unless
\* it shows an error or an older list overtook a newer one.  The latter does
\* happen, as loadQuotes lets the last list to arrive win, and nothing mends it
\* before the next announcement.
Behind == shown < heard
Overtaken == shown < newest
HeardChangesAreShown == Behind ~> (~Behind \/ Overtaken \/ error)

\* The request form never stays disabled: refused, lost, or followed by a
\* quotation that cannot be opened, the request ends and the form comes back.
FormComesBack == submitting ~> ~submitting

=============================================================================
