----------------------------- MODULE Desk_proofs -----------------------------
(***************************************************************************)
(* Proofs about Desk, for any tabs, any number of loads under way and any  *)
(* bound on lock_version.                                                  *)
(***************************************************************************)
EXTENDS Desk, TLAPS

\* A lock_version and a version read together: the lock_version was the row's,
\* and if it still is, so is the version.
ReadTogether(lock, version) ==
  /\ lock \in Nat
  /\ lock <= quote.lock
  /\ lock = quote.lock => version = quote.version

\* A tab has these four fields, and shows lines with their lock_version.
Tab(t) == t \in [at : {t.at}, version : {t.version}, token : {t.token},
                 editable : {t.editable}]
TabOK(t) == Tab(t) /\ ReadTogether(t.token, t.version)

AskedOK(r) ==
  /\ r.from \in Pages
  /\ r.kind \in Saves => ReadTogether(r.expected, r.lines)
ReplyOK(r) ==
  /\ r.to.from \in Pages
  /\ IsRead(r.to) /\ r.ok => ReadTogether(r.token, r.version)

QuoteOK ==
  /\ quote \in [status : {quote.status}, version : Locks, lock : Locks,
                stepped : {quote.stepped}]
  /\ quote.version <= quote.lock

IInv ==
  /\ QuoteOK
  /\ written = [v \in Locks |-> written[v]]
  /\ page = [p \in Pages |-> page[p]]
  /\ \A p \in Pages : TabOK(page[p])
  /\ \A r \in asked : AskedOK(r)
  /\ \A r \in replies : ReplyOK(r)
  /\ RevisionsBuildOnShown

-----------------------------------------------------------------------------

\* The invariant holds initially.
LEMMA InvInit == Init => IInv
<1> SUFFICES ASSUME Init PROVE IInv
  OBVIOUS
<1>1. QuoteOK
  BY BoundsAssumption DEF Init, QuoteOK, Locks
<1>2. TabOK(Left)
  BY DEF Init, TabOK, Tab, Left, ReadTogether
<1>3. RevisionsBuildOnShown
  BY DEF Init, RevisionsBuildOnShown
<1> QED
  BY <1>1, <1>2, <1>3 DEF Init, IInv

\* The same quotation: what the tabs, the requests and the answers hold must
\* fit it.
LEMMA SameQuote ==
  ASSUME IInv, UNCHANGED <<quote, written>>,
         page' = [p \in Pages |-> page'[p]],
         \A p \in Pages : page'[p] = page[p] \/ TabOK(page'[p]),
         \A r \in asked' : r \in asked \/ AskedOK(r),
         \A r \in replies' : r \in replies \/ ReplyOK(r)
  PROVE  IInv'
<1>1. \A l, v : ReadTogether(l, v)' <=> ReadTogether(l, v)
  BY DEF ReadTogether
<1>2. \A r : AskedOK(r)' <=> AskedOK(r)
  BY <1>1 DEF AskedOK, ReadTogether
<1>3. \A r : ReplyOK(r)' <=> ReplyOK(r)
  BY <1>1 DEF ReplyOK, ReadTogether
<1>4. \A p \in Pages : TabOK(page[p])'
  BY DEF IInv, TabOK, ReadTogether
<1>5. QuoteOK' /\ RevisionsBuildOnShown'
  BY DEF IInv, QuoteOK, RevisionsBuildOnShown
<1> QED
  BY <1>2, <1>3, <1>4, <1>5 DEF IInv

\* The quotation moved on, with a newer lock_version when the version is
\* another, and what is newly asked and answered holds no lines.
Newer == quote'.lock >= quote.lock
         /\ (quote'.lock = quote.lock => quote'.version = quote.version)

\* Nothing the tabs hold is refuted by a newer row.
LEMMA NewerQuote ==
  ASSUME IInv, QuoteOK', Newer, UNCHANGED page,
         written' = [v \in Locks |-> written'[v]], RevisionsBuildOnShown',
         \A r \in asked' : r \in asked \/ (r.from \in Pages /\ r.kind \notin Saves),
         \A r \in replies' : r \in replies \/ (r.to.from \in Pages /\ ~IsRead(r.to))
  PROVE  IInv'
<1>1. ASSUME NEW l, NEW v, ReadTogether(l, v) PROVE ReadTogether(l, v)'
  BY <1>1 DEF ReadTogether, Newer, IInv, QuoteOK, Locks
<1>2. \A p \in Pages : TabOK(page[p])'
  BY <1>1 DEF IInv, TabOK, ReadTogether
<1>3. \A r \in asked' : AskedOK(r)'
  BY <1>1 DEF IInv, AskedOK, ReadTogether
<1>4. \A r \in replies' : ReplyOK(r)'
  <2> SUFFICES ASSUME NEW r \in replies' PROVE ReplyOK(r)'
    OBVIOUS
  <2>1. CASE r \in replies
    <3>1. ReplyOK(r)
      BY <2>1 DEF IInv
    <3> QED
      BY <1>1, <3>1 DEF ReplyOK, ReadTogether
  <2>2. CASE r \notin replies
    BY <2>2 DEF ReplyOK
  <2> QED
    BY <2>1, <2>2
<1> QED
  BY <1>2, <1>3, <1>4 DEF IInv

\* Whoever hears of a commit asks for a load.
LEMMA HeardOnly ==
  ASSUME NEW others, Hear(others)
  PROVE  \A r \in asked' : r \in others \/ (r.from \in Pages /\ r.kind \notin Saves)
<1>1. PICK heard \in SUBSET CanHear :
        asked' = others \cup {LoadRequest(p, FALSE) : p \in heard}
  BY DEF Hear
<1>2. \A p \in heard : p \in Pages
  BY DEF CanHear, Pages
<1> QED
  BY <1>1, <1>2 DEF LoadRequest, Saves

\* A move keeps the version and the history.
LEMMA MoveKeeps ==
  ASSUME IInv, QuoteOK', Newer, quote'.version = quote.version, UNCHANGED <<written, page>>,
         \A r \in asked' : r \in asked \/ (r.from \in Pages /\ r.kind \notin Saves),
         \A r \in replies' : r \in replies \/ (r.to.from \in Pages /\ ~IsRead(r.to))
  PROVE  IInv'
<1>1. RevisionsBuildOnShown'
  BY DEF IInv, RevisionsBuildOnShown
<1>2. written' = [v \in Locks |-> written'[v]]
  BY DEF IInv
<1> QED
  BY <1>1, <1>2, NewerQuote

\* A move raises lock_version.
LEMMA MoveToNewer ==
  ASSUME IInv, NEW s, MoveTo(s)
  PROVE  QuoteOK' /\ Newer /\ quote'.version = quote.version
<1> DEFINE a == [quote EXCEPT !.status = s]
<1>1. quote.lock \in Locks /\ quote.lock < MaxLock /\ quote.version \in Locks
      /\ quote.version <= quote.lock
  BY DEF IInv, QuoteOK, MoveTo
<1>2. a \in [status : {s}, version : {quote.version}, lock : {quote.lock},
             stepped : {quote.stepped}]
  BY DEF IInv, QuoteOK
<1>3. quote' = [a EXCEPT !.lock = quote.lock + 1]
  BY Zenon DEF MoveTo
<1> HIDE DEF a
<1>4. quote' \in [status : {s}, version : {quote.version}, lock : {quote.lock + 1},
                  stepped : {quote.stepped}]
  BY <1>2, <1>3
<1> QED
  BY <1>1, <1>4, BoundsAssumption DEF QuoteOK, Newer, Locks

\* The customer's and the manager's steps move the quotation.
LEMMA ElsewhereKeeps ==
  ASSUME IInv, Elsewhere
  PROVE  IInv'
<1>1. PICK s : MoveTo(s)
  BY DEF Elsewhere, Negotiate, Decline, BeginNegotiation, Decide
<1>2. UNCHANGED <<written, page, replies>>
  BY DEF Elsewhere, Negotiate, Decline, BeginNegotiation, Decide
<1>3. Hear(asked) \/ UNCHANGED asked
  BY DEF Elsewhere, Negotiate, Decline, BeginNegotiation, Decide
<1>4. \A r \in asked' : r \in asked \/ (r.from \in Pages /\ r.kind \notin Saves)
  BY <1>3, HeardOnly
<1> QED
  BY <1>1, <1>2, <1>4, MoveKeeps, MoveToNewer

\* The author of a new version was shown the one it replaces.
LEMMA VersionKeeps ==
  ASSUME IInv, NEW r \in asked, NEW s, r.kind \in Saves, ExpectedLock(r),
         NewVersion(s, r), UNCHANGED page,
         \A a \in asked' : a \in asked \/ (a.from \in Pages /\ a.kind \notin Saves),
         \A a \in replies' : a \in replies \/ (a.to.from \in Pages /\ ~IsRead(a.to))
  PROVE  IInv'
<1>1. r.lines = quote.version
  BY DEF IInv, AskedOK, ReadTogether, ExpectedLock
<1>2. /\ quote.version \in Locks /\ quote.lock \in Locks
      /\ quote.version <= quote.lock /\ quote.lock < MaxLock
      /\ quote'.version = quote.version + 1
      /\ quote'.lock = quote.lock + 1
      /\ quote' \in [status : {s}, version : {quote.version + 1},
                     lock : {quote.lock + 1}, stepped : {FALSE}]
  BY DEF IInv, QuoteOK, NewVersion
<1>3. QuoteOK' /\ Newer
  BY <1>2, BoundsAssumption DEF QuoteOK, Newer, Locks
<1>4. \A v \in Locks : written'[v] = IF v = quote.version + 1
                                     THEN [by |-> r.from, from |-> r.lines] ELSE written[v]
  BY <1>2, BoundsAssumption DEF IInv, NewVersion, Locks
<1>5. written' = [v \in Locks |-> written'[v]]
  BY DEF IInv, NewVersion
<1>6. RevisionsBuildOnShown'
  <2> SUFFICES ASSUME NEW v \in 2..quote.version + 1 PROVE written'[v].from = v - 1
    BY <1>2 DEF RevisionsBuildOnShown
  <2>1. v \in Locks
    BY <1>2, BoundsAssumption DEF Locks
  <2>2. CASE v = quote.version + 1
    BY <1>1, <1>2, <1>4, <2>1, <2>2, BoundsAssumption DEF Locks
  <2>3. CASE v # quote.version + 1
    <3>1. v \in 2..quote.version
      BY <1>2, <2>3, BoundsAssumption DEF Locks
    <3> QED
      BY <1>4, <2>1, <2>3, <3>1 DEF IInv, RevisionsBuildOnShown
  <2> QED
    BY <2>2, <2>3
<1> QED
  BY <1>3, <1>5, <1>6, NewerQuote

-----------------------------------------------------------------------------
(***************************************************************************)
(* The server's answers.                                                   *)
(***************************************************************************)

\* What is shown was read together.
LEMMA ShownOK ==
  ASSUME IInv, NEW r \in asked, NEW edit
  PROVE  ReplyOK(Shown(r, edit))
BY DEF IInv, AskedOK, ReplyOK, Shown, ReadTogether, QuoteOK, Locks

\* The server keeps the invariant.
LEMMA AnswerKeeps ==
  ASSUME IInv, NEW r \in asked, Answer(r)
  PROVE  IInv'
<1>0. r.from \in Pages /\ page = [p \in Pages |-> page[p]]
  BY DEF IInv, AskedOK
<1>1. CASE AnswerQuotation(r)
  <2>1. UNCHANGED <<quote, written, page>> /\ asked' \subseteq asked
        /\ replies' = replies \cup {Shown(r, quote.status \in REP_EDITABLE)}
    BY <1>1 DEF AnswerQuotation, Reply
  <2> QED
    BY <1>0, <2>1, ShownOK, SameQuote
<1>2. CASE ReadCase(r)
  <2>1. UNCHANGED <<quote, written, page, replies>>
        /\ asked' = (asked \ {r}) \cup {OfferRequest(r, owner = Role(r.from))}
    BY <1>2 DEF ReadCase
  <2>2. AskedOK(OfferRequest(r, owner = Role(r.from)))
    BY <1>0 DEF AskedOK, OfferRequest, Saves
  <2> QED
    BY <1>0, <2>1, <2>2, SameQuote
<1>3. CASE ReadOffer(r)
  <2>1. UNCHANGED <<quote, written, page>> /\ asked' \subseteq asked
        /\ replies' = replies \cup {Shown(r, r.can_edit)}
    BY <1>3 DEF ReadOffer, Reply
  <2> QED
    BY <1>0, <2>1, ShownOK, SameQuote
<1>4. CASE Acceptance(r)
  <2>1. /\ r.kind \in {"revision", "submit", "case_revision", "forward"}
        /\ Hear(asked \ {r})
        /\ replies' = replies \cup {Accepted(r)}
        /\ UNCHANGED page
    BY <1>4 DEF Acceptance, CreateRevision, SubmitQuotation, ReviseCase, ForwardToFinance,
                Reply
  <2>2. \A a \in asked' : a \in asked \/ (a.from \in Pages /\ a.kind \notin Saves)
    BY <2>1, HeardOnly
  <2>3. Accepted(r).to = r
    BY DEF Accepted
  <2>4. ~IsRead(r)
    BY <2>1 DEF IsRead, Reads
  <2>5. \A a \in replies' : a \in replies \/ (a.to.from \in Pages /\ ~IsRead(a.to))
    BY <1>0, <2>1, <2>3, <2>4
  <2>6. CASE CreateRevision(r)
    <3>1. r.kind \in Saves /\ ExpectedLock(r) /\ NewVersion("draft", r)
      BY <2>6 DEF CreateRevision, Saves
    <3> QED
      BY <2>1, <2>2, <2>5, <3>1, VersionKeeps
  <2>7. CASE ReviseCase(r)
    <3>1. r.kind \in Saves /\ ExpectedLock(r) /\ NewVersion("sent_to_customer", r)
      BY <2>7 DEF ReviseCase, Saves
    <3> QED
      BY <2>1, <2>2, <2>5, <3>1, VersionKeeps
  <2>8. CASE SubmitQuotation(r)
    <3>1. PICK s, d : quote' = [quote EXCEPT !.status = s, !.stepped = d]
      BY <2>8 DEF SubmitQuotation
    <3> DEFINE a == [quote EXCEPT !.status = s]
    <3>2. a \in [status : {s}, version : {quote.version}, lock : {quote.lock},
                 stepped : {quote.stepped}]
      BY DEF IInv, QuoteOK
    <3>3. quote' = [a EXCEPT !.stepped = d]
      BY <3>1, Zenon
    <3> HIDE DEF a
    <3>4. quote' \in [status : {s}, version : {quote.version}, lock : {quote.lock},
                      stepped : {d}]
      BY <3>2, <3>3
    <3>5. QuoteOK' /\ Newer /\ quote'.version = quote.version
      BY <3>4 DEF QuoteOK, Newer, IInv, Locks
    <3>6. UNCHANGED <<written, page>>
      BY <2>8 DEF SubmitQuotation
    <3> QED
      BY <2>2, <2>5, <3>5, <3>6, MoveKeeps
  <2>9. CASE ForwardToFinance(r)
    <3>1. UNCHANGED <<quote, written, page>>
      BY <2>9 DEF ForwardToFinance
    <3>2. QuoteOK' /\ Newer
      BY <3>1 DEF QuoteOK, Newer, IInv, Locks
    <3> QED
      BY <2>2, <2>5, <3>1, <3>2, MoveKeeps
  <2> QED
    BY <1>4, <2>6, <2>7, <2>8, <2>9 DEF Acceptance
<1>5. CASE Refuse(r)
  <2>1. UNCHANGED <<quote, written, page>> /\ asked' \subseteq asked
        /\ replies' = replies \cup {Refused(r)} /\ ~IsRead(r)
    BY <1>5 DEF Refuse, Reply
  <2>2. ReplyOK(Refused(r))
    BY <1>0 DEF ReplyOK, Refused
  <2> QED
    BY <1>0, <2>1, <2>2, SameQuote
<1> QED
  BY <1>1, <1>2, <1>3, <1>4, <1>5 DEF Answer

-----------------------------------------------------------------------------
(***************************************************************************)
(* The pages.                                                              *)
(***************************************************************************)

\* A tab that only changes what it is doing shows what it did.
LEMMA TabBusy ==
  ASSUME NEW t, TabOK(t), NEW at
  PROVE  TabOK([t EXCEPT !.at = at])
<1>1. /\ Tab([t EXCEPT !.at = at])
      /\ [t EXCEPT !.at = at].token = t.token
      /\ [t EXCEPT !.at = at].version = t.version
  BY DEF TabOK, Tab
<1> QED
  BY <1>1 DEF TabOK

\* A tab without lines has the lock_version 0, which no row has.
LEMMA EmptyTabs ==
  ASSUME IInv
  PROVE  TabOK(Left) /\ TabOK(Loading)
<1>1. TabOK(Left)
  BY DEF IInv, QuoteOK, Locks, TabOK, Tab, Left, ReadTogether
<1> QED
  BY <1>1, TabBusy DEF Loading

\* What a form sends was shown by its tab.
LEMMA AskKeeps ==
  ASSUME IInv, NEW p \in Pages, NEW r, Ask(p, r), AskedOK(r)
  PROVE  IInv'
<1> DEFINE t == [page[p] EXCEPT !.at = "busy"]
<1>1. /\ UNCHANGED <<quote, written, replies>>
      /\ asked' = asked \cup {r}
      /\ page' = [page EXCEPT ![p] = t]
  BY DEF Ask
<1>2. TabOK(t)
  BY TabBusy DEF IInv
<1> HIDE DEF t
<1>3. /\ page' = [q \in Pages |-> page'[q]]
      /\ \A q \in Pages : page'[q] = page[q] \/ TabOK(page'[q])
  BY <1>1, <1>2 DEF IInv
<1> QED
  BY <1>1, <1>3, SameQuote

\* Opening, closing and sending keep the invariant.
LEMMA UserKeeps ==
  ASSUME IInv, UserNext
  PROVE  IInv'
<1>1. PICK p \in Pages : \/ Open(p) \/ Close(p)
                         \/ \E s \in BOOLEAN : SaveRevision(p, s)
                         \/ Send(p) \/ Forward(p)
  BY DEF UserNext
<1>2. page = [q \in Pages |-> page[q]] /\ TabOK(page[p])
  BY DEF IInv
<1>3. CASE Open(p)
  <2>1. /\ UNCHANGED <<quote, written, replies>>
        /\ page' = [page EXCEPT ![p] = Loading]
        /\ asked' = asked \cup {LoadRequest(p, FALSE)}
    BY <1>3 DEF Open
  <2>2. AskedOK(LoadRequest(p, FALSE))
    BY DEF AskedOK, LoadRequest, Saves
  <2>3. /\ page' = [q \in Pages |-> page'[q]]
        /\ \A q \in Pages : page'[q] = page[q] \/ TabOK(page'[q])
    BY <1>2, <2>1, EmptyTabs
  <2> QED
    BY <2>1, <2>2, <2>3, SameQuote
<1>4. CASE Close(p)
  <2>1. /\ UNCHANGED <<quote, written>>
        /\ page' = [page EXCEPT ![p] = Left]
        /\ asked' \subseteq asked /\ replies' \subseteq replies
    BY <1>4 DEF Close
  <2>2. /\ page' = [q \in Pages |-> page'[q]]
        /\ \A q \in Pages : page'[q] = page[q] \/ TabOK(page'[q])
    BY <1>2, <2>1, EmptyTabs
  <2> QED
    BY <2>1, <2>2, SameQuote
<1>5. ASSUME NEW k, NEW s, Ask(p, SaveRequest(p, k, s)) PROVE IInv'
  <2>1. AskedOK(SaveRequest(p, k, s))
    BY <1>2 DEF AskedOK, SaveRequest, TabOK
  <2> QED
    BY <1>5, <2>1, AskKeeps
<1>6. CASE Forward(p)
  <2>1. AskedOK(PlainRequest(p, "forward"))
    BY DEF AskedOK, PlainRequest, Saves
  <2> QED
    BY <1>6, <2>1, AskKeeps DEF Forward
<1> QED
  BY <1>1, <1>3, <1>4, <1>5, <1>6 DEF SaveRevision, Send

\* A load replaces lines and lock_version together.
LEMMA LoadKeeps ==
  ASSUME IInv, NEW r \in replies, LoadArrives(r)
  PROVE  IInv'
<1> DEFINE p == r.to.from
           at == IF page[p].at = "loading" \/ r.to.own THEN "open" ELSE page[p].at
           t == [at |-> at, version |-> r.version, token |-> r.token,
                 editable |-> r.editable]
<1>1. p \in Pages /\ ReadTogether(r.token, r.version)
  BY DEF IInv, ReplyOK, LoadArrives
<1>2. TabOK(t)
  BY <1>1 DEF TabOK, Tab
<1>3. /\ UNCHANGED <<quote, written, asked>>
      /\ replies' \subseteq replies
      /\ page' = [page EXCEPT ![p] = t]
  BY DEF LoadArrives, Show, Consume
<1> HIDE DEF p, t
<1>4. /\ page' = [q \in Pages |-> page'[q]]
      /\ \A q \in Pages : page'[q] = page[q] \/ TabOK(page'[q])
  BY <1>1, <1>2, <1>3 DEF IInv
<1> QED
  BY <1>3, <1>4, SameQuote

\* A saved form leaves its page, or asks for more without any lines.
LEMMA DoneKeeps ==
  ASSUME IInv, NEW r \in replies, Done(r)
  PROVE  IInv'
<1> DEFINE p == r.to.from
<1>1. p \in Pages
  BY DEF IInv, ReplyOK
<1>2. AskedOK(PlainRequest(p, "submit")) /\ AskedOK(LoadRequest(p, TRUE))
  BY <1>1 DEF AskedOK, PlainRequest, LoadRequest, Saves
<1>3. UNCHANGED <<quote, written>> /\ replies' \subseteq replies
  BY DEF Done
<1>4. \A a \in asked' : a \in asked \/ AskedOK(a)
  BY <1>2 DEF Done
<1>5. UNCHANGED page \/ page' = [page EXCEPT ![p] = Left]
  BY DEF Done
<1> HIDE DEF p
<1>6. /\ page' = [q \in Pages |-> page'[q]]
      /\ \A q \in Pages : page'[q] = page[q] \/ TabOK(page'[q])
  BY <1>1, <1>5, EmptyTabs DEF IInv
<1> QED
  BY <1>3, <1>4, <1>6, SameQuote

\* A failure leaves on the page what it showed.
LEMMA FailedKeeps ==
  ASSUME IInv, NEW r \in replies, Failed(r.to), Consume(r), UNCHANGED <<quote, written, asked>>
  PROVE  IInv'
<1> DEFINE p == r.to.from
           at == IF page[p].at = "busy" /\ (~IsRead(r.to) \/ r.to.own)
                 THEN "open" ELSE page[p].at
           t == [page[p] EXCEPT !.at = at]
<1>1. p \in Pages
  BY DEF IInv, ReplyOK
<1>2. TabOK(t)
  BY <1>1, TabBusy DEF IInv
<1>3. page' = [page EXCEPT ![p] = t]
  BY DEF Failed
<1>4. replies' \subseteq replies
  BY DEF Consume
<1> HIDE DEF p, t
<1>5. /\ page' = [q \in Pages |-> page'[q]]
      /\ \A q \in Pages : page'[q] = page[q] \/ TabOK(page'[q])
  BY <1>1, <1>2, <1>3 DEF IInv
<1> QED
  BY <1>4, <1>5, SameQuote

-----------------------------------------------------------------------------

\* Every step keeps the invariant.
LEMMA InvStep == IInv /\ [Next]_vars => IInv'
<1>1. ASSUME IInv, UNCHANGED vars PROVE IInv'
  BY <1>1, SameQuote DEF vars, IInv
<1>2. ASSUME IInv, NEW r \in replies, Arrive(r) \/ ReplyLost(r) PROVE IInv'
  BY <1>2, LoadKeeps, DoneKeeps, FailedKeeps DEF Arrive, Denied, ReplyLost
<1> QED
  BY <1>1, <1>2, ElsewhereKeeps, UserKeeps, AnswerKeeps DEF Next

\* Every lock_version a tab, a request or an answer holds was read together
\* with the version it stands for.
THEOREM Invariant == Spec => []IInv
BY InvInit, InvStep, PTL DEF Spec

\* Whoever saves a revision had the version it replaces on the screen.
THEOREM NobodyIsUndone == Spec => []RevisionsBuildOnShown
<1>1. IInv => RevisionsBuildOnShown
  BY DEF IInv
<1> QED
  BY <1>1, Invariant, PTL

=============================================================================
