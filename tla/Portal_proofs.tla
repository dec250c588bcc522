---------------------------- MODULE Portal_proofs ----------------------------
(***************************************************************************)
(* Proofs about Portal, for any quotations and any number of requests and  *)
(* answers in flight, in any order.                                        *)
(***************************************************************************)
EXTENDS Portal, TLAPS

Offers == [status : Statuses, version : Nat, lock : Nat]

\* A lock_version and a version read together: the lock_version was the
\* quotation's, and if it still is, so is the version.
ReadTogether(q, lock, version) ==
  /\ lock \in Nat
  /\ lock <= offer[q].lock
  /\ lock = offer[q].lock => version = offer[q].version

PageParts(p) ==
  p \in [quote : Quotes, status : {p.status}, lines : {p.lines}, token : Nat]
PageOK(p) == p # Nothing => PageParts(p) /\ ReadTogether(p.quote, p.token, p.lines)

AskedOK(r) ==
  r.kind \in Answers => r.quote \in Quotes /\ ReadTogether(r.quote, r.token, r.lines)

IsListReply(r) ==
  r.to.kind = "list" /\ r \in [to : {r.to}, offers : {r.offers}, at : {r.at}]
ReplyOK(r) ==
  \/ IsListReply(r)
  \/ r.to.kind \in Answers
  \/ /\ r.to.kind = "detail"
     /\ r.found => /\ r.to.quote \in Quotes
                   /\ ReadTogether(r.to.quote, r.offer.lock, r.offer.version)

IInv ==
  /\ offer \in [Quotes -> Offers]
  /\ PageOK(page)
  /\ \A r \in asked : AskedOK(r)
  /\ \A r \in replies : ReplyOK(r)

-----------------------------------------------------------------------------

\* The page's own requests for reads are no answers to an offer.
LEMMA ReadRequests ==
  /\ ListRequest.kind = "list" /\ "list" \notin Answers /\ "detail" \notin Answers
  /\ \A q, after : DetailRequest(q, after).kind = "detail"
BY DEF ListRequest, DetailRequest, Answers

\* The invariant holds initially.
LEMMA InvInit == Init => IInv
BY ReadRequests DEF Init, IInv, Offers, Statuses, PageOK, AskedOK

\* The same offers: what is on the page, asked and answered must fit them.
LEMMA SameOffers ==
  ASSUME IInv, UNCHANGED offer, PageOK(page'),
         \A r \in asked' : r \in asked \/ AskedOK(r),
         \A r \in replies' : r \in replies \/ ReplyOK(r)
  PROVE  IInv'
<1>1. \A r : AskedOK(r)' <=> AskedOK(r)
  BY DEF AskedOK, ReadTogether
<1>2. \A r : ReplyOK(r)' <=> ReplyOK(r)
  BY DEF ReplyOK, ReadTogether, IsListReply
<1>3. PageOK(page)'
  BY DEF PageOK, ReadTogether, PageParts
<1> QED
  BY <1>1, <1>2, <1>3 DEF IInv

\* An offer is replaced by a newer one, with a newer lock_version when the
\* version is another: what was read together before still was.
Newer(o, n) ==
  /\ n \in Offers
  /\ n.lock >= o.lock
  /\ n.lock = o.lock => n.version = o.version

\* Nothing the page holds is refuted by a newer offer.
LEMMA NewerOffer ==
  ASSUME IInv, NEW q \in Quotes, NEW n, Newer(offer[q], n),
         offer' = [offer EXCEPT ![q] = n], UNCHANGED page,
         \A r \in asked' : r \in asked \/ r.kind \notin Answers,
         \A r \in replies' : r \in replies \/ IsListReply(r) \/ r.to.kind \in Answers
  PROVE  IInv'
<1>1. /\ \A p \in Quotes : offer'[p] = IF p = q THEN n ELSE offer[p]
      /\ \A p \in Quotes : offer[p] \in Offers
      /\ n \in Offers
  BY DEF IInv, Newer
<1>2. ASSUME NEW p \in Quotes, NEW l, NEW v, ReadTogether(p, l, v)
      PROVE  ReadTogether(p, l, v)'
  BY <1>1, <1>2 DEF ReadTogether, Newer, Offers
<1>3. offer' \in [Quotes -> Offers]
  BY <1>1 DEF IInv
<1>4. PageOK(page)'
  <2>1. CASE page = Nothing
    BY <2>1 DEF PageOK, Nothing
  <2>2. CASE page # Nothing
    <3>1. PageParts(page) /\ ReadTogether(page.quote, page.token, page.lines)
      BY <2>2 DEF IInv, PageOK
    <3>2. page.quote \in Quotes
      BY <3>1 DEF PageParts
    <3>3. ReadTogether(page.quote, page.token, page.lines)'
      BY <1>2, <3>1, <3>2 DEF ReadTogether
    <3> QED
      BY <3>1, <3>3 DEF PageOK, PageParts
  <2> QED
    BY <2>1, <2>2
<1>5. ASSUME NEW r \in asked' PROVE AskedOK(r)'
  <2>1. CASE r.kind \notin Answers
    BY <2>1 DEF AskedOK
  <2>2. CASE r.kind \in Answers
    <3>1. r.quote \in Quotes /\ ReadTogether(r.quote, r.token, r.lines)
      BY <1>5, <2>2 DEF IInv, AskedOK
    <3> QED
      BY <1>2, <3>1 DEF AskedOK, ReadTogether
  <2> QED
    BY <2>1, <2>2
<1>6. ASSUME NEW r \in replies' PROVE ReplyOK(r)'
  <2>1. CASE IsListReply(r) \/ r.to.kind \in Answers
    BY <2>1 DEF ReplyOK, IsListReply
  <2>2. CASE ~(IsListReply(r) \/ r.to.kind \in Answers)
    <3>1. ReplyOK(r)
      BY <1>6, <2>2 DEF IInv
    <3>2. CASE r.found
      <4>1. /\ r.to.quote \in Quotes
            /\ ReadTogether(r.to.quote, r.offer.lock, r.offer.version)
        BY <2>2, <3>1, <3>2 DEF ReplyOK
      <4> QED
        BY <1>2, <2>2, <3>1, <4>1 DEF ReplyOK, ReadTogether
    <3>3. CASE ~r.found
      BY <2>2, <3>1, <3>3 DEF ReplyOK
    <3> QED
      BY <3>2, <3>3
  <2> QED
    BY <2>1, <2>2
<1> QED
  BY <1>3, <1>4, <1>5, <1>6 DEF IInv

-----------------------------------------------------------------------------
(***************************************************************************)
(* Transactions.                                                           *)
(***************************************************************************)

\* What changes a quotation makes it newer.
LEMMA ChangesAreNewer ==
  ASSUME NEW o \in Offers, NEW s \in Statuses
  PROVE  /\ Moved(o, s) \in Offers
         /\ Moved(o, s).version = o.version
         /\ Newer(o, Moved(o, s))
         /\ Newer(o, Revised(o, s))
         /\ Newer(o, [o EXCEPT !.status = s])
<1>1. /\ Moved(o, s) \in Offers
      /\ Moved(o, s).version = o.version
      /\ Moved(o, s).lock = o.lock + 1
  <2> DEFINE a == [o EXCEPT !.status = s]
  <2>1. a \in Offers /\ a.version = o.version /\ a.lock = o.lock /\ o.lock \in Nat
    BY DEF Offers
  <2>2. Moved(o, s) = [a EXCEPT !.lock = o.lock + 1]
    BY Zenon DEF Moved
  <2> HIDE DEF a
  <2>3. LET m == [a EXCEPT !.lock = o.lock + 1]
        IN  m \in Offers /\ m.version = o.version /\ m.lock = o.lock + 1
    BY <2>1 DEF Offers
  <2> QED
    BY <2>2, <2>3
<1>2. Newer(o, Moved(o, s))
  BY <1>1 DEF Newer, Offers
<1>3. Newer(o, Revised(o, s))
  <2> DEFINE m == Moved(o, s)
  <2>1. m \in Offers /\ m.lock = o.lock + 1
    BY <1>1
  <2> HIDE DEF m
  <2>2. LET v == [m EXCEPT !.version = @ + 1]
        IN  v \in Offers /\ v.lock = o.lock + 1
    BY <2>1 DEF Offers
  <2>3. Newer(o, [m EXCEPT !.version = @ + 1])
    BY <2>1, <2>2 DEF Newer, Offers
  <2> QED
    BY <2>3 DEF Revised, m
<1>4. Newer(o, [o EXCEPT !.status = s])
  BY DEF Newer, Offers
<1> QED
  BY <1>1, <1>2, <1>3, <1>4

\* The stream's announcement makes the page ask for the list and nothing else.
LEMMA AnnouncedOnly ==
  ASSUME NEW others, NEW own, Announce(others, own)
  PROVE  /\ \A r \in asked' : r \in others \/ r.kind \notin Answers
         /\ replies' = replies \cup own
BY ReadRequests DEF Announce

\* A commit that is announced keeps the invariant.
LEMMA CommitKeeps ==
  ASSUME IInv, NEW q \in Quotes, NEW n, Newer(offer[q], n), Commit(q, n), UNCHANGED page
  PROVE  IInv'
<1>1. offer' = [offer EXCEPT ![q] = n] /\ Announce(asked, {})
  BY DEF Commit, Changes
<1>2. /\ \A r \in asked' : r \in asked \/ r.kind \notin Answers
      /\ replies' = replies \cup {}
  BY <1>1, AnnouncedOnly
<1> QED
  BY <1>1, <1>2, NewerOffer

\* The steps of the staff keep the invariant.
LEMMA StaffKeeps ==
  ASSUME IInv, StaffNext
  PROVE  IInv'
<1>1. PICK q \in Quotes : \/ CreateRevision(q) \/ SubmitQuotation(q) \/ SendToCustomer(q)
                          \/ ReviseCase(q) \/ ApproveQuotation(q)
  BY DEF StaffNext
<1>2. offer[q] \in Offers
  BY DEF IInv
<1>3. CASE CreateRevision(q)
  BY <1>2, <1>3, ChangesAreNewer, CommitKeeps DEF CreateRevision, pageVars, Statuses
<1>4. CASE SubmitQuotation(q)
  <2>1. PICK s \in {"pending_manager_approval", "sent_to_customer"} :
          Commit(q, [offer[q] EXCEPT !.status = s])
    BY <1>4 DEF SubmitQuotation
  <2>2. s \in Statuses /\ UNCHANGED page
    BY <1>4 DEF SubmitQuotation, pageVars, Statuses
  <2> QED
    BY <1>2, <2>1, <2>2, ChangesAreNewer, CommitKeeps
<1>5. CASE SendToCustomer(q)
  BY <1>2, <1>5, ChangesAreNewer, CommitKeeps DEF SendToCustomer, pageVars, Statuses
<1>6. CASE ReviseCase(q)
  BY <1>2, <1>6, ChangesAreNewer, CommitKeeps DEF ReviseCase, pageVars, Statuses
<1>7. CASE ApproveQuotation(q)
  <2> DEFINE n == Moved(offer[q], "approved")
  <2>1. /\ offer' = [offer EXCEPT ![q] = n]
        /\ UNCHANGED <<asked, replies, page>>
    BY <1>7 DEF ApproveQuotation, CommitSilently, Changes, pageVars
  <2>2. Newer(offer[q], n)
    BY <1>2, ChangesAreNewer DEF Statuses
  <2> HIDE DEF n
  <2> QED
    BY <2>1, <2>2, NewerOffer
<1> QED
  BY <1>1, <1>3, <1>4, <1>5, <1>6, <1>7

-----------------------------------------------------------------------------
(***************************************************************************)
(* The server, the customer and the network.                               *)
(***************************************************************************)

\* What the server answers fits the offers it read, and the answers it takes
\* make the quotation newer.
LEMMA ServerKeeps ==
  ASSUME IInv, ServerNext
  PROVE  IInv'
<1>0. PageOK(page)
  BY DEF IInv
<1>1. CASE AnswerList
  <2> DEFINE l == [to |-> ListRequest, offers |-> offer, at |-> commits]
  <2>1. IsListReply(l)
    BY ReadRequests DEF IsListReply
  <2>2. /\ UNCHANGED <<offer, page>>
        /\ asked' \subseteq asked
        /\ replies' = replies \cup {l}
    BY <1>1 DEF AnswerList, serverVars, pageVars
  <2> HIDE DEF l
  <2> QED
    BY <1>0, <2>1, <2>2, SameOffers DEF ReplyOK
<1>2. ASSUME NEW r \in asked, AnswerDetail(r) PROVE IInv'
  <2> DEFINE y == [to |-> r, found |-> TRUE, offer |-> offer[r.quote]]
             z == [to |-> r, found |-> FALSE]
  <2>1. /\ UNCHANGED <<offer, page>>
        /\ asked' \subseteq asked
        /\ replies' = replies \cup {IF r.quote \in Visible THEN y ELSE z}
        /\ r.kind = "detail"
    BY <1>2 DEF AnswerDetail, serverVars, pageVars
  <2>2. r.quote \in Visible => ReplyOK(y)
    <3> SUFFICES ASSUME r.quote \in Visible PROVE ReplyOK(y)
      OBVIOUS
    <3>1. r.quote \in Quotes /\ offer[r.quote] \in Offers
      BY DEF Visible, IInv
    <3>2. ReadTogether(r.quote, offer[r.quote].lock, offer[r.quote].version)
      BY <3>1 DEF ReadTogether, Offers
    <3> QED
      BY <2>1, <3>1, <3>2 DEF ReplyOK
  <2>3. ReplyOK(z)
    BY <2>1 DEF ReplyOK
  <2> HIDE DEF y, z
  <2> QED
    BY <1>0, <2>1, <2>2, <2>3, SameOffers
<1>3. ASSUME NEW r \in asked, TakeAnswer(r) PROVE IInv'
  <2> DEFINE n == Moved(offer[r.quote], AnswerStatus[r.kind])
             own == {[to |-> r, ok |-> TRUE]}
  <2>1. r.kind \in Answers /\ r.quote \in Quotes
    BY <1>3 DEF TakeAnswer, IInv, AskedOK
  <2>2. offer[r.quote] \in Offers /\ AnswerStatus[r.kind] \in Statuses
    BY <2>1 DEF IInv, AnswerStatus, Answers, Statuses
  <2>3. Newer(offer[r.quote], n)
    BY <2>2, ChangesAreNewer
  <2>4. /\ offer' = [offer EXCEPT ![r.quote] = n]
        /\ Announce(asked \ {r}, own)
        /\ UNCHANGED page
    BY <1>3 DEF TakeAnswer, Changes, pageVars
  <2>5. \A a \in own : a.to.kind \in Answers
    BY <2>1
  <2> HIDE DEF n, own
  <2>6. /\ \A a \in asked' : a \in asked \/ a.kind \notin Answers
        /\ replies' = replies \cup own
    BY <2>4, AnnouncedOnly
  <2> QED
    BY <2>1, <2>3, <2>4, <2>5, <2>6, NewerOffer
<1>4. ASSUME NEW r \in asked, RefuseAnswer(r) PROVE IInv'
  <2>1. /\ UNCHANGED <<offer, page>>
        /\ asked' \subseteq asked
        /\ replies' = replies \cup {[to |-> r, ok |-> FALSE]}
        /\ r.kind \in Answers
    BY <1>4 DEF RefuseAnswer, serverVars, pageVars
  <2>2. \A a \in replies' : a \in replies \/ ReplyOK(a)
    BY <2>1 DEF ReplyOK
  <2> QED
    BY <1>0, <2>1, <2>2, SameOffers
<1> QED
  BY <1>1, <1>2, <1>3, <1>4 DEF ServerNext

\* An answer is sent with the lock_version and for the lines of the page.
LEMMA UserKeeps ==
  ASSUME IInv, UserNext
  PROVE  IInv'
<1>0. PageOK(page)
  BY DEF IInv
<1>1. ASSUME NEW q, Select(q) PROVE IInv'
  <2>1. /\ UNCHANGED <<offer, page, replies>>
        /\ asked' = asked \cup {DetailRequest(q, "click")}
    BY <1>1 DEF Select, Ask, serverVars
  <2>2. AskedOK(DetailRequest(q, "click"))
    BY ReadRequests DEF AskedOK
  <2> QED
    BY <1>0, <2>1, <2>2, SameOffers
<1>2. ASSUME NEW k, Opened, Ask(AnswerRequest(k, page)) PROVE IInv'
  <2>1. /\ UNCHANGED <<offer, page, replies>>
        /\ asked' = asked \cup {AnswerRequest(k, page)}
    BY <1>2 DEF Ask, serverVars
  <2>2. page.quote \in Quotes /\ ReadTogether(page.quote, page.token, page.lines)
    BY <1>0, <1>2 DEF PageOK, PageParts, Opened
  <2>3. AskedOK(AnswerRequest(k, page))
    BY <2>2 DEF AskedOK, AnswerRequest
  <2> QED
    BY <1>0, <2>1, <2>3, SameOffers
<1>3. CASE OpenRequest
  <2>1. UNCHANGED <<offer, asked, replies>> /\ page' = Nothing
    BY <1>3 DEF OpenRequest, serverVars
  <2>2. PageOK(page')
    BY <2>1 DEF PageOK
  <2> QED
    BY <2>1, <2>2, SameOffers
<1> QED
  BY <1>1, <1>2, <1>3 DEF UserNext, ClickAnswer, ClickNegotiate

\* A list refreshes the status shown and nothing else; a quotation is shown
\* with the lock_version it was read with.
LEMMA ArrivesKeeps ==
  ASSUME IInv, Arrives
  PROVE  IInv'
<1>0. PageOK(page)
  BY DEF IInv
<1>1. ASSUME NEW r \in replies, ShowList(r) PROVE IInv'
  <2>1. PICK listed : /\ UNCHANGED <<offer, asked>>
                      /\ replies' \subseteq replies
                      /\ page' = MergeRow(r.offers, listed)
    BY <1>1 DEF ShowList, serverVars
  <2>2. PageOK(page')
    <3>1. CASE Opened /\ page.quote \in listed
      <4> DEFINE s == r.offers[page.quote].status
      <4>1. page' = [page EXCEPT !.status = s]
        BY <2>1, <3>1 DEF MergeRow
      <4>2. PageParts(page) /\ ReadTogether(page.quote, page.token, page.lines)
        BY <1>0, <3>1 DEF PageOK, Opened
      <4> HIDE DEF s
      <4>3. /\ PageParts([page EXCEPT !.status = s])
            /\ [page EXCEPT !.status = s].quote = page.quote
            /\ [page EXCEPT !.status = s].token = page.token
            /\ [page EXCEPT !.status = s].lines = page.lines
        BY <4>2 DEF PageParts
      <4> QED
        BY <4>1, <4>2, <4>3 DEF PageOK
    <3>2. CASE ~(Opened /\ page.quote \in listed)
      BY <1>0, <2>1, <3>2 DEF MergeRow
    <3> QED
      BY <3>1, <3>2
  <2> QED
    BY <2>1, <2>2, SameOffers
<1>2. ASSUME NEW r \in replies, ShowQuote(r) PROVE IInv'
  <2>1. /\ UNCHANGED offer
        /\ replies' \subseteq replies
        /\ r.to.kind = "detail"
        /\ asked' = asked \/ asked' = asked \cup {ListRequest}
    BY <1>2 DEF ShowQuote, serverVars, Continue
  <2>2. PageOK(page')
    <3>1. CASE r.found
      <4>1. page' = [quote |-> r.to.quote, status |-> r.offer.status,
                     lines |-> r.offer.version, token |-> r.offer.lock]
        BY <1>2, <3>1 DEF ShowQuote
      <4>2. /\ r.to.quote \in Quotes
            /\ ReadTogether(r.to.quote, r.offer.lock, r.offer.version)
        BY <2>1, <3>1 DEF IInv, ReplyOK, IsListReply, Answers
      <4> QED
        BY <4>1, <4>2 DEF PageOK, PageParts, ReadTogether
    <3>2. CASE ~r.found
      BY <1>0, <1>2, <3>2 DEF ShowQuote
    <3> QED
      BY <3>1, <3>2
  <2>3. AskedOK(ListRequest)
    BY ReadRequests DEF AskedOK
  <2> QED
    BY <2>1, <2>2, <2>3, SameOffers
<1>3. ASSUME NEW r \in replies, AnswerTaken(r) PROVE IInv'
  <2>1. /\ UNCHANGED <<offer, page>>
        /\ replies' \subseteq replies
        /\ asked' = asked \cup {DetailRequest(r.to.quote, r.to.kind)}
    BY <1>3 DEF AnswerTaken, serverVars, pageVars
  <2>2. AskedOK(DetailRequest(r.to.quote, r.to.kind))
    BY ReadRequests DEF AskedOK
  <2> QED
    BY <1>0, <2>1, <2>2, SameOffers
<1>4. ASSUME NEW r \in replies, AnswerRefused(r) PROVE IInv'
  <2>1. UNCHANGED <<offer, page, asked>> /\ replies' \subseteq replies
    BY <1>4 DEF AnswerRefused, serverVars
  <2> QED
    BY <1>0, <2>1, SameOffers
<1> QED
  BY <1>1, <1>2, <1>3, <1>4 DEF Arrives

\* A failed connection takes a request or an answer away.
LEMMA NetworkKeeps ==
  ASSUME IInv, NetworkNext
  PROVE  IInv'
<1>0. PageOK(page)
  BY DEF IInv
<1>1. /\ UNCHANGED <<offer, page>>
      /\ replies' \subseteq replies
      /\ asked' \subseteq asked \/ asked' = asked \cup {ListRequest}
  BY DEF NetworkNext, AnswerLost, ReplyLost, Lost, Continue, Connect, Disconnect,
         serverVars, pageVars
<1>2. AskedOK(ListRequest)
  BY ReadRequests DEF AskedOK
<1> QED
  BY <1>0, <1>1, <1>2, SameOffers

-----------------------------------------------------------------------------
(***************************************************************************)
(* The theorems.                                                           *)
(***************************************************************************)

\* Every step keeps the invariant.
LEMMA InvStep == IInv /\ [Next]_vars => IInv'
<1>1. ASSUME IInv, UNCHANGED vars PROVE IInv'
  BY <1>1, SameOffers DEF vars, IInv
<1> QED
  BY <1>1, StaffKeeps, ServerKeeps, UserKeeps, ArrivesKeeps, NetworkKeeps DEF Next

\* Every lock_version on the page, in a request or in an answer was read
\* together with the version it stands for.
THEOREM Invariant == Spec => []IInv
BY InvInit, InvStep, PTL DEF Spec

\* A token that would still be accepted stands for the lines shown.
THEOREM TokensFitLines == Spec => []TokenBelongsToLines
<1>1. IInv => TokenBelongsToLines
  BY DEF IInv, TokenBelongsToLines, PageOK, AskedOK, ReadTogether, Opened
<1> QED
  BY <1>1, Invariant, PTL

\* Nobody but the server takes an answer off, and it records the version the
\* answer was sent for.
LEMMA RecordsShownTerms ==
  ASSUME IInv, Next,
         NEW r \in asked, r.kind \in Answers, r \notin asked', offer' # offer
  PROVE  /\ r.lines = offer[r.quote].version
         /\ offer'[r.quote].version = r.lines
<1>1. CASE StaffNext
  <2>1. asked \subseteq asked'
    BY <1>1 DEF StaffNext, CreateRevision, SubmitQuotation, SendToCustomer, ReviseCase,
                ApproveQuotation, Commit, CommitSilently, Announce
  <2> QED
    BY <2>1
<1>2. CASE ServerNext
  <2>1. PICK a \in asked : TakeAnswer(a)
    BY <1>2 DEF ServerNext, AnswerList, AnswerDetail, RefuseAnswer, serverVars
  <2>2. asked \ {a} \subseteq asked'
    BY <2>1 DEF TakeAnswer, Announce
  <2>3. a = r
    BY <2>2
  <2>4. r.quote \in Quotes /\ ReadTogether(r.quote, r.token, r.lines)
    BY DEF IInv, AskedOK
  <2>5. offer[r.quote] \in Offers /\ AnswerStatus[r.kind] \in Statuses
    BY <2>4 DEF IInv, AnswerStatus, Answers, Statuses
  <2>6. r.lines = offer[r.quote].version
    BY <2>1, <2>3, <2>4 DEF TakeAnswer, Honours, ReadTogether
  <2> DEFINE n == Moved(offer[r.quote], AnswerStatus[r.kind])
  <2>7. n.version = offer[r.quote].version
    BY <2>5, ChangesAreNewer
  <2>8. offer' = [offer EXCEPT ![r.quote] = n]
    BY <2>1, <2>3 DEF TakeAnswer, Changes
  <2> HIDE DEF n
  <2>9. offer'[r.quote] = n
    BY <2>4, <2>8 DEF IInv
  <2> QED
    BY <2>6, <2>7, <2>9
<1>3. CASE UserNext
  BY <1>3 DEF UserNext, Select, ClickAnswer, ClickNegotiate, OpenRequest, Ask, serverVars
<1>4. CASE Arrives
  BY <1>4 DEF Arrives, ShowList, ShowQuote, AnswerTaken, AnswerRefused, serverVars
<1>5. CASE NetworkNext
  BY <1>5 DEF NetworkNext, AnswerLost, ReplyLost, Lost, Connect, Disconnect, serverVars
<1> QED
  BY <1>1, <1>2, <1>3, <1>4, <1>5 DEF Next

\* What is recorded as accepted, declined or disputed is the version the
\* customer had on the screen when the answer was sent.
THEOREM TermsAreThoseShown == Spec => AnswersShownTerms
<1>1. IInv /\ [Next]_vars =>
        [ \A r \in asked : (r.kind \in Answers /\ r \notin asked' /\ offer' # offer)
            => /\ r.lines = offer[r.quote].version
               /\ offer'[r.quote].version = r.lines ]_vars
  BY RecordsShownTerms DEF vars
<1> QED
  BY <1>1, Invariant, PTL DEF Spec, AnswersShownTerms

=============================================================================
