---------------------------- MODULE Intake_proofs ----------------------------
(***************************************************************************)
(* Proofs about Intake, for any accounts, requests and tabs, and about     *)
(* Policies, for any updates, lines and percentages.  How many requests a  *)
(* representative has decides whom LeastLoaded names, and nothing here     *)
(* depends on it: the foreign keys and row locks decide.                   *)
(***************************************************************************)
EXTENDS Intake, Policies, Sums, TLAPS

Asker == Requests \cup {NoRequest}

DeskTypes ==
  /\ tabs \in [Tabs -> Tab]
  /\ \A r \in asked : r.request \in Asker

CoreTypes ==
  /\ users \subseteq Reps
  /\ requests \in [Requests -> Request]
  /\ quotes \in Seq(Quote)
  /\ sending \in [Requests -> Reps \cup {NoRep}]
  /\ removal \in [Reps -> Removal]

\* Only a converted request has a quotation, and it exists; a request that is
\* not made yet has no representative.
QuotesOfRequests ==
  \A q \in Requests :
    /\ requests[q].status # "converted" => requests[q].quote = NoQuote
    /\ requests[q].quote # NoQuote => requests[q].quote \in 1..Len(quotes)
    /\ requests[q].status = "none" => requests[q].rep = NoRep
    /\ sending[q] # NoRep => requests[q].status = "none"

\* The requests a deletion will hand over stay pending, and whom it hands them
\* to is another account that stays.
HandedToSomebody ==
  \A u \in Reps :
    /\ \A q \in removal[u].moved : requests[q].status = "pending"
    /\ removal[u].moved # {} => removal[u].replacement \in users \ {u}

IInv ==
  /\ DeskTypes
  /\ CoreTypes
  /\ QuotesOfRequests
  /\ HandedToSomebody
  /\ AssignedToSomebody
  /\ ConvertedOnce
  /\ OwnerIsAssignee

coreVars == <<users, requests, quotes, sending, removal>>

-----------------------------------------------------------------------------

\* The invariant holds initially.
LEMMA InvInit == Init => IInv
<1> SUFFICES ASSUME Init PROVE IInv
  OBVIOUS
<1>1. DeskTypes
  BY DEF Init, DeskTypes, Tab, ClosedTab
<1>2. CoreTypes
  BY DEF Init, CoreTypes, Request, Removal, NoRemoval
<1>3. QuotesOfRequests /\ HandedToSomebody
  BY DEF Init, QuotesOfRequests, HandedToSomebody, NoRemoval
<1>4. AssignedToSomebody /\ ConvertedOnce /\ OwnerIsAssignee
  BY DEF Init, AssignedToSomebody, ConvertedOnce, OwnerIsAssignee
<1> QED
  BY <1>1, <1>2, <1>3, <1>4 DEF IInv

\* Quotations are rows numbered from one.
LEMMA QuotesFacts ==
  ASSUME CoreTypes
  PROVE  /\ Len(quotes) \in Nat /\ DOMAIN quotes = 1..Len(quotes)
         /\ \A i \in DOMAIN quotes : quotes[i] \in Quote /\ i # NoQuote
BY DEF CoreTypes, NoQuote

\* Steps of the browser.
LEMMA DeskStep ==
  ASSUME IInv, UNCHANGED coreVars, DeskTypes'
  PROVE  IInv'
BY DEF IInv, coreVars, CoreTypes, QuotesOfRequests, HandedToSomebody, Pending,
       AssignedToSomebody, ConvertedOnce, OwnerIsAssignee

\* An answer leaves the requests of the tabs typed.
LEMMA AnswerKeeps ==
  ASSUME DeskTypes, NEW r, NEW a, Answer(r, a), UNCHANGED tabs
  PROVE  DeskTypes'
BY DEF DeskTypes, Answer

\* Steps of a transaction that deletes an account, before its commit.
LEMMA RemovalStep ==
  ASSUME IInv, NEW u \in Reps, NEW m \in Removal, removal' = [removal EXCEPT ![u] = m],
         UNCHANGED <<users, requests, quotes, sending, deskVars>>,
         m.moved \subseteq Pending(u),
         m.moved # {} => m.replacement \in users \ {u}
  PROVE  IInv'
<1>1. \A v \in Reps : removal'[v] = IF v = u THEN m ELSE removal[v]
  BY DEF IInv, CoreTypes
<1>2. DeskTypes' /\ CoreTypes'
  BY DEF IInv, DeskTypes, CoreTypes, deskVars
<1>3. HandedToSomebody'
  BY <1>1 DEF IInv, HandedToSomebody, Pending
<1>4. QuotesOfRequests' /\ AssignedToSomebody' /\ ConvertedOnce' /\ OwnerIsAssignee'
  BY DEF IInv, QuotesOfRequests, AssignedToSomebody, ConvertedOnce, OwnerIsAssignee
<1> QED
  BY <1>2, <1>3, <1>4 DEF IInv

-----------------------------------------------------------------------------
(***************************************************************************)
(* createQuoteRequest.                                                     *)
(***************************************************************************)

\* Selecting a representative writes nothing.
LEMMA SelectKeeps ==
  ASSUME IInv, NEW q \in Requests, SelectRep(q)
  PROVE  IInv'
<1>1. PICK u \in users : sending' = [sending EXCEPT ![q] = u]
  BY DEF SelectRep, LeastLoaded
<1>2. /\ requests[q].status = "none"
      /\ UNCHANGED <<users, requests, quotes, removal, deskVars>>
  BY DEF SelectRep
<1>3. DeskTypes' /\ CoreTypes'
  BY <1>1, <1>2 DEF IInv, DeskTypes, CoreTypes, deskVars
<1>4. QuotesOfRequests'
  BY <1>1, <1>2 DEF IInv, CoreTypes, QuotesOfRequests
<1>5. HandedToSomebody' /\ AssignedToSomebody' /\ ConvertedOnce' /\ OwnerIsAssignee'
  BY <1>2 DEF IInv, HandedToSomebody, AssignedToSomebody, ConvertedOnce, OwnerIsAssignee
<1> QED
  BY <1>3, <1>4, <1>5 DEF IInv

\* A refused request leaves nothing behind.
LEMMA FailKeeps ==
  ASSUME IInv, NEW q \in Requests, RequestFails(q)
  PROVE  IInv'
<1>1. /\ sending' = [sending EXCEPT ![q] = NoRep]
      /\ UNCHANGED <<users, requests, quotes, removal, deskVars>>
  BY DEF RequestFails
<1>2. DeskTypes' /\ CoreTypes'
  BY <1>1 DEF IInv, DeskTypes, CoreTypes, deskVars
<1>3. QuotesOfRequests'
  BY <1>1 DEF IInv, CoreTypes, QuotesOfRequests
<1>4. HandedToSomebody' /\ AssignedToSomebody' /\ ConvertedOnce' /\ OwnerIsAssignee'
  BY <1>1 DEF IInv, HandedToSomebody, AssignedToSomebody, ConvertedOnce, OwnerIsAssignee
<1> QED
  BY <1>2, <1>3, <1>4 DEF IInv

\* The row of a request names a representative that is there: the foreign key.
LEMMA InsertKeeps ==
  ASSUME IInv, NEW q \in Requests, InsertRequest(q)
  PROVE  IInv'
<1> DEFINE row == [status |-> "pending", rep |-> sending[q], quote |-> NoQuote]
<1>1. /\ sending[q] \in users
      /\ requests' = [requests EXCEPT ![q] = row]
      /\ sending' = [sending EXCEPT ![q] = NoRep]
      /\ UNCHANGED <<users, quotes, removal, deskVars>>
  BY DEF InsertRequest
<1>2. requests[q].status = "none" /\ requests[q].quote = NoQuote
  BY <1>1, NullsAssumption DEF IInv, CoreTypes, QuotesOfRequests
<1>3. row \in Request /\ row.status = "pending" /\ row.quote = NoQuote /\ row.rep \in users
  BY <1>1 DEF IInv, CoreTypes, Request
<1>4. \A p \in Requests : requests'[p] = IF p = q THEN row ELSE requests[p]
  BY <1>1 DEF IInv, CoreTypes
<1> HIDE DEF row
<1>5. DeskTypes'
  BY <1>1 DEF IInv, DeskTypes, deskVars
<1>6. CoreTypes'
  BY <1>1, <1>3 DEF IInv, CoreTypes
<1>7. QuotesOfRequests'
  BY <1>1, <1>3, <1>4 DEF IInv, CoreTypes, QuotesOfRequests
<1>8. HandedToSomebody'
  BY <1>1, <1>3, <1>4 DEF IInv, CoreTypes, HandedToSomebody, Removal
<1>9. AssignedToSomebody'
  BY <1>1, <1>3, <1>4 DEF IInv, AssignedToSomebody
<1>10. ConvertedOnce'
  <2>1. \A i \in DOMAIN quotes : i # NoQuote /\ quotes[i].request \in Asker
    BY QuotesFacts DEF IInv, Quote, Asker
  <2> QED
    BY <1>1, <1>2, <1>4, <2>1 DEF IInv, ConvertedOnce, Asker
<1>11. OwnerIsAssignee'
  BY <1>1, <1>3, <1>4 DEF IInv, OwnerIsAssignee
<1> QED
  BY <1>5, <1>6, <1>7, <1>8, <1>9, <1>10, <1>11 DEF IInv

-----------------------------------------------------------------------------
(***************************************************************************)
(* The deletion of an account.                                             *)
(***************************************************************************)

\* A deletion locks the requests it has to hand over.
LEMMA LockKeeps ==
  ASSUME IInv, NEW u \in Reps, LockPending(u)
  PROVE  IInv'
<1> DEFINE m == [removal[u] EXCEPT !.pc = "locked", !.locked = Pending(u)]
<1>1. /\ removal' = [removal EXCEPT ![u] = m]
      /\ UNCHANGED <<users, requests, quotes, sending, deskVars>>
  BY DEF LockPending
<1>2. m \in Removal /\ m.moved = removal[u].moved /\ m.replacement = removal[u].replacement
  <2>1. Pending(u) \subseteq Requests
    BY DEF Pending
  <2> QED
    BY <2>1 DEF IInv, CoreTypes, Removal
<1> HIDE DEF m
<1>3. \A v \in Reps : removal'[v] = IF v = u THEN m ELSE removal[v]
  BY <1>1 DEF IInv, CoreTypes
<1>4. DeskTypes' /\ CoreTypes'
  BY <1>1, <1>2 DEF IInv, DeskTypes, CoreTypes, deskVars
<1>5. HandedToSomebody'
  BY <1>1, <1>2, <1>3 DEF IInv, HandedToSomebody
<1>6. QuotesOfRequests' /\ AssignedToSomebody' /\ ConvertedOnce' /\ OwnerIsAssignee'
  BY <1>1 DEF IInv, QuotesOfRequests, AssignedToSomebody, ConvertedOnce, OwnerIsAssignee
<1> QED
  BY <1>4, <1>5, <1>6 DEF IInv

\* A deletion picks whom it hands its requests to.
LEMMA MoveKeeps ==
  ASSUME IInv, NEW u \in Reps, MoveRequests(u)
  PROVE  IInv'
<1>1. UNCHANGED <<users, requests, quotes, sending, deskVars>>
  BY DEF MoveRequests
<1>2. CASE removal[u].locked = {}
  <2> DEFINE m == [removal[u] EXCEPT !.pc = "moved"]
  <2>1. removal' = [removal EXCEPT ![u] = m]
    BY <1>2 DEF MoveRequests, IInv, CoreTypes
  <2>2. m \in Removal /\ m.moved = removal[u].moved /\ m.replacement = removal[u].replacement
    BY DEF IInv, CoreTypes, Removal
  <2> HIDE DEF m
  <2>3. \A v \in Reps : removal'[v] = IF v = u THEN m ELSE removal[v]
    BY <2>1 DEF IInv, CoreTypes
  <2>4. DeskTypes' /\ CoreTypes'
    BY <1>1, <2>1, <2>2 DEF IInv, DeskTypes, CoreTypes, deskVars
  <2>5. HandedToSomebody'
    BY <1>1, <2>2, <2>3 DEF IInv, HandedToSomebody
  <2>6. QuotesOfRequests' /\ AssignedToSomebody' /\ ConvertedOnce' /\ OwnerIsAssignee'
    BY <1>1 DEF IInv, QuotesOfRequests, AssignedToSomebody, ConvertedOnce, OwnerIsAssignee
  <2> QED
    BY <2>4, <2>5, <2>6 DEF IInv
<1>3. CASE removal[u].locked # {}
  <2>1. PICK v \in users \ {u} :
          removal' = [removal EXCEPT ![u] =
            [removal[u] EXCEPT !.pc = "moved", !.moved = Pending(u), !.replacement = v]]
    BY <1>3 DEF MoveRequests, LeastLoaded
  <2> DEFINE m == [removal[u] EXCEPT !.pc = "moved", !.moved = Pending(u), !.replacement = v]
  <2>2. Pending(u) \subseteq Requests /\ v \in Reps
    BY DEF Pending, IInv, CoreTypes
  <2>3. m \in Removal /\ m.moved = Pending(u) /\ m.replacement = v
    BY <2>2 DEF IInv, CoreTypes, Removal
  <2>4. removal' = [removal EXCEPT ![u] = m]
    BY <2>1
  <2> HIDE DEF m
  <2> QED
    BY <1>1, <2>3, <2>4, RemovalStep
<1> QED
  BY <1>2, <1>3

\* A refused deletion forgets what it picked.
LEMMA RemovalFailsKeeps ==
  ASSUME IInv, NEW u \in Reps, RemovalFails(u)
  PROVE  IInv'
<1>1. NoRemoval \in Removal /\ NoRemoval.moved = {}
  BY DEF NoRemoval, Removal
<1> QED
  BY <1>1, RemovalStep DEF RemovalFails

-----------------------------------------------------------------------------

\* An account goes once no row names it.
LEMMA RemoveKeeps ==
  ASSUME IInv, NEW u \in Reps, RemoveUser(u)
  PROVE  IInv'
<1>1. /\ removal' = [removal EXCEPT ![u] = NoRemoval]
      /\ users' = users \ {u}
      /\ UNCHANGED <<sending, deskVars>>
  BY DEF RemoveUser
<1>2. \A v \in Reps : /\ removal'[v] = IF v = u THEN NoRemoval ELSE removal[v]
                      /\ removal[v].replacement # u
  BY <1>1 DEF RemoveUser, ClaimedFor, IInv, CoreTypes
<1>3. /\ removal[u] \in Removal /\ removal[u].moved \subseteq Requests
      /\ removal[u].replacement \in Reps \cup {NoRep}
      /\ \A q \in Requests : requests[q] \in Request
  BY DEF IInv, CoreTypes, Removal
<1>4. /\ requests' = [q \in Requests |-> requests'[q]]
      /\ \A q \in Requests :
           /\ requests'[q] \in Request
           /\ requests'[q].status = requests[q].status
           /\ requests'[q].quote = requests[q].quote
           /\ requests'[q].rep = IF q \in removal[u].moved THEN removal[u].replacement
                                                         ELSE requests[q].rep
  BY <1>3 DEF RemoveUser, HandedOver, Request
<1>5. \A q \in Requests : q \notin removal[u].moved => requests[q].rep # u
  BY DEF RemoveUser, StillReferTo
<1>6. /\ quotes' \in Seq(Quote) /\ Len(quotes') = Len(quotes)
      /\ DOMAIN quotes' = DOMAIN quotes
      /\ \A i \in DOMAIN quotes :
           /\ quotes'[i].request = quotes[i].request
           /\ quotes[i].owner # u => quotes'[i].owner = quotes[i].owner
  <2> DEFINE Detached(i) == IF quotes[i].owner = u THEN [quotes[i] EXCEPT !.owner = NoRep]
                                                   ELSE quotes[i]
  <2>1. quotes' = [i \in 1..Len(quotes) |-> Detached(i)] /\ Len(quotes) \in Nat
    BY QuotesFacts DEF RemoveUser, IInv
  <2>2. \A i \in 1..Len(quotes) :
          /\ Detached(i) \in Quote /\ Detached(i).request = quotes[i].request
          /\ quotes[i].owner # u => Detached(i).owner = quotes[i].owner
    BY QuotesFacts DEF IInv, Quote
  <2> HIDE DEF Detached
  <2>3. quotes' \in Seq(Quote) /\ Len(quotes') = Len(quotes)
    BY <2>1, <2>2
  <2> QED
    BY <2>1, <2>2, <2>3, QuotesFacts DEF IInv
<1>7. DeskTypes'
  BY <1>1 DEF IInv, DeskTypes, deskVars
<1>8. CoreTypes'
  <2>1. users' \subseteq Reps /\ sending' \in [Requests -> Reps \cup {NoRep}]
    BY <1>1 DEF IInv, CoreTypes
  <2>2. removal' \in [Reps -> Removal]
    BY <1>1 DEF IInv, CoreTypes, NoRemoval, Removal
  <2>3. requests' \in [Requests -> Request]
    BY <1>4
  <2> QED
    BY <1>6, <2>1, <2>2, <2>3 DEF CoreTypes
<1>9. \A q \in removal[u].moved : requests[q].status = "pending"
  BY DEF IInv, HandedToSomebody
<1>10. QuotesOfRequests'
  BY <1>1, <1>3, <1>4, <1>6, <1>9 DEF IInv, QuotesOfRequests
<1>11. HandedToSomebody'
  <2>1. NoRemoval.moved = {}
    BY DEF NoRemoval
  <2>2. \A v \in Reps : removal[v].moved \subseteq Requests
    BY DEF IInv, CoreTypes, Removal
  <2> QED
    BY <1>1, <1>2, <1>4, <2>1, <2>2 DEF IInv, HandedToSomebody
<1>12. AssignedToSomebody'
  BY <1>1, <1>4, <1>5 DEF IInv, AssignedToSomebody, HandedToSomebody
<1>13. ConvertedOnce'
  <2>1. \A i \in DOMAIN quotes : quotes[i].request \in Asker
    BY QuotesFacts DEF IInv, Quote, Asker
  <2> QED
    BY <1>4, <1>6, <2>1 DEF IInv, ConvertedOnce, Asker
<1>14. OwnerIsAssignee'
  <2> SUFFICES ASSUME NEW q \in Requests, requests'[q].quote # NoQuote
               PROVE  requests'[q].rep = quotes'[requests'[q].quote].owner
    BY DEF OwnerIsAssignee
  <2>1. requests[q].quote \in DOMAIN quotes /\ q \notin removal[u].moved
    BY <1>4, <1>9, QuotesFacts DEF IInv, QuotesOfRequests
  <2>2. requests[q].rep = quotes[requests[q].quote].owner
    BY <1>4 DEF IInv, OwnerIsAssignee
  <2> QED
    BY <1>4, <1>5, <1>6, <2>1, <2>2
<1> QED
  BY <1>7, <1>8, <1>10, <1>11, <1>12, <1>13, <1>14 DEF IInv

-----------------------------------------------------------------------------
(***************************************************************************)
(* The server's side of the page "New quotation".                          *)
(***************************************************************************)

\* A quotation is created for a locked pending request, by its assignee.
LEMMA CreateKeeps ==
  ASSUME IInv, NEW r \in asked, CreateQuotation(r)
  PROVE  IInv'
<1> DEFINE n == Len(quotes) + 1
           row == [request |-> r.request, owner |-> r.rep, status |-> "draft"]
<1>1. /\ r.rep \in users /\ r.request \in Asker
      /\ Len(quotes) < MaxQuotes
      /\ quotes' = Append(quotes, row)
      /\ UNCHANGED <<users, sending, removal, tabs>>
  BY DEF CreateQuotation, Converts, IInv, DeskTypes
<1>2. DeskTypes'
  BY <1>1, AnswerKeeps DEF CreateQuotation, Converts, IInv
<1>3. Len(quotes) \in Nat /\ DOMAIN quotes = 1..Len(quotes)
  BY QuotesFacts DEF IInv
<1>4. row \in Quote /\ row.request = r.request /\ row.owner = r.rep
  BY <1>1 DEF Quote, Asker, IInv, CoreTypes
<1> HIDE DEF row
<1>5. /\ quotes' \in Seq(Quote) /\ Len(quotes') = n /\ DOMAIN quotes' = 1..n
      /\ \A i \in 1..Len(quotes) : quotes'[i] = quotes[i]
      /\ quotes'[n] = row
  BY <1>1, <1>3, <1>4 DEF IInv, CoreTypes
<1>6. CASE r.request = NoRequest
  <2>1. UNCHANGED requests
    BY <1>6 DEF CreateQuotation, Converts
  <2>2. CoreTypes' /\ QuotesOfRequests'
    BY <1>1, <1>3, <1>5, <2>1 DEF IInv, CoreTypes, QuotesOfRequests
  <2>3. HandedToSomebody' /\ AssignedToSomebody'
    BY <1>1, <2>1 DEF IInv, HandedToSomebody, AssignedToSomebody
  <2>4. ConvertedOnce'
    <3> SUFFICES ASSUME NEW i \in 1..n, quotes'[i].request # NoRequest
                 PROVE  requests[quotes'[i].request].quote = i
      BY <1>5, <2>1 DEF ConvertedOnce
    <3>1. i \in 1..Len(quotes)
      BY <1>3, <1>4, <1>5, <1>6
    <3> QED
      BY <1>3, <1>5, <3>1 DEF IInv, ConvertedOnce
  <2>5. OwnerIsAssignee'
    BY <1>3, <1>5, <2>1 DEF IInv, OwnerIsAssignee, QuotesOfRequests
  <2> QED
    BY <1>2, <2>2, <2>3, <2>4, <2>5 DEF IInv
<1>7. CASE r.request # NoRequest
  <2>1. PICK q \in Requests : q = r.request
    BY <1>1, <1>7 DEF Asker
  <2> DEFINE new == [requests[q] EXCEPT !.status = "converted", !.quote = n]
  <2>2. /\ requests' = [requests EXCEPT ![q] = new]
        /\ requests[q].rep = r.rep /\ requests[q].quote = NoQuote
        /\ \A u \in Reps : q \notin removal[u].moved
    BY <1>7, <2>1 DEF CreateQuotation, Converts, IsAssigned, IsOpen, Locked
  <2>3. /\ new \in Request /\ new.status = "converted" /\ new.quote = n
        /\ new.rep = requests[q].rep
    <3>1. n \in {NoQuote} \cup QuoteIds /\ requests[q] \in Request
      BY <1>1, <1>3, BoundAssumption DEF IInv, CoreTypes, QuoteIds
    <3> HIDE DEF n
    <3> QED
      BY <3>1 DEF Request
  <2> HIDE DEF new
  <2>4. \A p \in Requests : requests'[p] = IF p = q THEN new ELSE requests[p]
    BY <2>2 DEF IInv, CoreTypes
  <2>5. CoreTypes'
    BY <1>1, <1>5, <2>2, <2>3 DEF IInv, CoreTypes
  <2>6. sending[q] = NoRep
    BY <1>1, <2>2, NullsAssumption DEF IInv, CoreTypes, QuotesOfRequests
  <2>7. QuotesOfRequests'
    BY <1>1, <1>3, <1>5, <2>3, <2>4, <2>6 DEF IInv, QuotesOfRequests
  <2>8. HandedToSomebody'
    <3>1. \A u \in Reps : removal[u].moved \subseteq Requests
      BY DEF IInv, CoreTypes, Removal
    <3> QED
      BY <1>1, <2>2, <2>4, <3>1 DEF IInv, HandedToSomebody
  <2>9. AssignedToSomebody'
    BY <1>1, <2>2, <2>3, <2>4 DEF IInv, AssignedToSomebody
  <2>10. ConvertedOnce'
    <3> SUFFICES ASSUME NEW i \in 1..n, quotes'[i].request # NoRequest
                 PROVE  requests'[quotes'[i].request].quote = i
      BY <1>5 DEF ConvertedOnce
    <3>1. CASE i = n
      BY <1>4, <1>5, <2>1, <2>3, <2>4, <3>1
    <3>2. CASE i # n
      <4>1. i \in DOMAIN quotes /\ quotes'[i] = quotes[i]
        BY <1>3, <1>5, <3>2
      <4>2. quotes[i].request \in Requests /\ i # NoQuote
        BY <4>1, QuotesFacts DEF IInv, Quote
      <4>3. requests[quotes[i].request].quote = i
        BY <4>1 DEF IInv, ConvertedOnce
      <4> QED
        BY <2>2, <2>4, <4>1, <4>2, <4>3
    <3> QED
      BY <3>1, <3>2
  <2>11. OwnerIsAssignee'
    <3> SUFFICES ASSUME NEW p \in Requests, requests'[p].quote # NoQuote
                 PROVE  requests'[p].rep = quotes'[requests'[p].quote].owner
      BY DEF OwnerIsAssignee
    <3>1. CASE p = q
      BY <1>4, <1>5, <2>2, <2>3, <2>4, <3>1
    <3>2. CASE p # q
      BY <1>5, <2>4, <3>2 DEF IInv, OwnerIsAssignee, QuotesOfRequests
    <3> QED
      BY <3>1, <3>2
  <2> QED
    BY <1>2, <2>5, <2>7, <2>8, <2>9, <2>10, <2>11 DEF IInv
<1> QED
  BY <1>6, <1>7

\* A submission changes the status of one quotation and nothing else.
LEMMA SubmitKeeps ==
  ASSUME IInv, NEW r \in asked, SubmitQuotation(r)
  PROVE  IInv'
<1>1. /\ quotes' = [quotes EXCEPT ![r.quote].status = "submitted"]
      /\ UNCHANGED <<users, requests, sending, removal, tabs>>
  BY DEF SubmitQuotation
<1>2. DeskTypes'
  BY <1>1, AnswerKeeps DEF SubmitQuotation, IInv
<1>3. Len(quotes) \in Nat /\ DOMAIN quotes = 1..Len(quotes)
  BY QuotesFacts DEF IInv
<1>4. /\ quotes' \in Seq(Quote) /\ Len(quotes') = Len(quotes)
      /\ DOMAIN quotes' = DOMAIN quotes
      /\ \A i \in DOMAIN quotes : /\ quotes'[i].request = quotes[i].request
                                  /\ quotes'[i].owner = quotes[i].owner
  <2> DEFINE New(i) == IF i = r.quote THEN [quotes[i] EXCEPT !.status = "submitted"]
                                      ELSE quotes[i]
  <2>1. quotes' = [i \in 1..Len(quotes) |-> New(i)]
    BY <1>1, <1>3
  <2>2. \A i \in 1..Len(quotes) :
          /\ New(i) \in Quote /\ New(i).request = quotes[i].request
          /\ New(i).owner = quotes[i].owner
    BY QuotesFacts DEF IInv, Quote
  <2> HIDE DEF New
  <2>3. quotes' \in Seq(Quote) /\ Len(quotes') = Len(quotes)
    BY <1>3, <2>1, <2>2
  <2> QED
    BY <1>3, <2>1, <2>2, <2>3
<1>5. CoreTypes' /\ QuotesOfRequests'
  BY <1>1, <1>4 DEF IInv, CoreTypes, QuotesOfRequests
<1>6. HandedToSomebody' /\ AssignedToSomebody'
  BY <1>1 DEF IInv, HandedToSomebody, AssignedToSomebody
<1>7. ConvertedOnce'
  BY <1>1, <1>4 DEF IInv, ConvertedOnce
<1>8. OwnerIsAssignee'
  BY <1>1, <1>3, <1>4 DEF IInv, OwnerIsAssignee, QuotesOfRequests
<1> QED
  BY <1>2, <1>5, <1>6, <1>7, <1>8 DEF IInv

-----------------------------------------------------------------------------
(***************************************************************************)
(* The browser's side.                                                     *)
(***************************************************************************)

\* What a tab shows is nothing the server relies on.
LEMMA TabKeeps ==
  ASSUME IInv, NEW t \in Tabs,
         \/ OpenForm(t) \/ CloseForm(t) \/ Save(t)
         \/ Created(t) \/ Submitted(t) \/ SaveRefused(t) \/ AnswerLost(t)
  PROVE  IInv'
<1>0. /\ tabs \in [Tabs -> Tab] /\ tabs[t].request \in Asker
      /\ \A r \in asked : r.request \in Asker
  BY DEF IInv, DeskTypes, Tab, Asker
<1>1. CASE OpenForm(t)
  <2>1. PICK u \in users, q \in Asker :
          tabs' = [tabs EXCEPT ![t] =
                     [pc |-> "form", rep |-> u, request |-> q, quote |-> NoQuote]]
    BY <1>1 DEF OpenForm, Offered, Asker
  <2>2. [pc |-> "form", rep |-> u, request |-> q, quote |-> NoQuote] \in Tab
    BY DEF IInv, CoreTypes, Tab, Asker
  <2> QED
    BY <1>0, <1>1, <2>1, <2>2, DeskStep DEF OpenForm, DeskTypes, coreVars
<1>2. CASE CloseForm(t)
  <2>1. ClosedTab \in Tab
    BY DEF ClosedTab, Tab
  <2> QED
    BY <1>0, <1>2, <2>1, DeskStep DEF CloseForm, DeskTypes, coreVars
<1>3. CASE Save(t)
  <2>1. tabs' \in [Tabs -> Tab]
    BY <1>0, <1>3 DEF Save, Tab
  <2>2. \A r \in asked' : r.request \in Asker
    BY <1>0, <1>3 DEF Save, SaveRequest
  <2> QED
    BY <1>3, <2>1, <2>2, DeskStep DEF Save, DeskTypes, coreVars
<1>4. CASE Created(t)
  <2>1. tabs' \in [Tabs -> Tab]
    <3>1. PICK tab : tabs' = [tabs EXCEPT ![t] = tab] /\ tab \in Tab
      <4>1. [tabs[t] EXCEPT !.pc = "submitting", !.quote = answered[t]] \in Tab
        BY <1>0, <1>4 DEF Created, Tab
      <4>2. ClosedTab \in Tab
        BY DEF ClosedTab, Tab
      <4> QED
        BY <1>4, <4>1, <4>2 DEF Created
    <3> QED
      BY <1>0, <3>1
  <2>2. \A n : SubmitRequest(t, n).request \in Asker
    BY <1>0 DEF SubmitRequest, SaveRequest
  <2>3. \A r \in asked' : r.request \in Asker
    BY <1>0, <1>4, <2>2 DEF Created
  <2> QED
    BY <1>4, <2>1, <2>3, DeskStep DEF Created, DeskTypes, coreVars
<1>5. CASE Submitted(t)
  <2>1. ClosedTab \in Tab
    BY DEF ClosedTab, Tab
  <2> QED
    BY <1>0, <1>5, <2>1, DeskStep DEF Submitted, DeskTypes, coreVars
<1>6. CASE SaveRefused(t) \/ AnswerLost(t)
  <2>1. BackToForm(t)
    BY <1>6 DEF SaveRefused, AnswerLost
  <2>2. tabs' \in [Tabs -> Tab]
    BY <1>0, <2>1 DEF BackToForm, Tab
  <2> QED
    BY <1>0, <2>1, <2>2, DeskStep DEF BackToForm, DeskTypes, coreVars
<1> QED
  BY <1>1, <1>2, <1>3, <1>4, <1>5, <1>6

-----------------------------------------------------------------------------

\* The invariant is kept by every step.
LEMMA InvStep == IInv /\ [Next]_vars => IInv'
<1> SUFFICES ASSUME IInv, [Next]_vars PROVE IInv'
  OBVIOUS
<1>1. ASSUME CustomerNext PROVE IInv'
  BY <1>1, SelectKeeps, InsertKeeps, FailKeeps DEF CustomerNext
<1>2. ASSUME AdminNext PROVE IInv'
  BY <1>2, LockKeeps, MoveKeeps, RemoveKeeps, RemovalFailsKeeps DEF AdminNext
<1>3. ASSUME RepNext PROVE IInv'
  BY <1>3, TabKeeps DEF RepNext
<1>4. ASSUME NEW r \in asked, RefuseRequest(r) PROVE IInv'
  BY <1>4, AnswerKeeps, DeskStep DEF RefuseRequest, coreVars, IInv
<1>5. ASSUME ServerNext PROVE IInv'
  BY <1>4, <1>5, CreateKeeps, SubmitKeeps DEF ServerNext
<1>6. CASE UNCHANGED vars
  BY <1>6, DeskStep DEF vars, coreVars, IInv, DeskTypes
<1> QED
  BY <1>1, <1>2, <1>3, <1>5, <1>6 DEF Next

\* What a deletion will hand over stays pending and goes to an account that
\* stays; a request names the quotation it became, if any.
THEOREM Invariant == Spec => []IInv
BY InvInit, InvStep, PTL DEF Spec

\* Requests that arrive while accounts are deleted end with a representative
\* who exists.
THEOREM NobodyIsForgotten == Spec => []AssignedToSomebody
BY Invariant, PTL DEF IInv

\* Retried, in several tabs, with answers lost: one quotation per request.
THEOREM OneQuotationEach == Spec => []ConvertedOnce
BY Invariant, PTL DEF IInv

\* The representative a converted request names is its quotation's owner.
THEOREM OwnersAreAssigned == Spec => []OwnerIsAssignee
BY Invariant, PTL DEF IInv

-----------------------------------------------------------------------------
(***************************************************************************)
(* Policies.                                                               *)
(***************************************************************************)

\* A transaction that replaces the policy, when there are n rows.
UpdateAmong(n) ==
  [pc : {"idle", "locking", "inserted"}, via : {"admin", "manager"}, limit : Limits,
   seen : SUBSET (1..n), held : SUBSET (1..n), version : Nat]

PolicyTypes ==
  /\ policies \in Seq(Policy)
  /\ update \in [Updaters -> UpdateAmong(Len(policies))]
  /\ entitlement \in Entitlements \cup {NotReading}

\* An administrator's transaction holds the one row it found, and a policy that
\* is inserted is numbered after every row its transaction holds.
HoldsOne(p) ==
  p.via = "admin" => /\ p.seen # {} => p.held = {}
                     /\ \A a, b \in p.held : a = b
NumberedAfter(p, rows) ==
  p.pc = "inserted" => \A a \in p.held : p.version > rows[a].version

UpdatesStand ==
  \A u \in Updaters : HoldsOne(update[u]) /\ NumberedAfter(update[u], policies)

PolicyInv ==
  /\ PolicyTypes /\ Active # {} /\ UpdatesStand
  /\ RouteFitsLines

-----------------------------------------------------------------------------

\* Among rows there is one with the highest version.
LEMMA HighestVersion ==
  ASSUME NEW s \in Seq(Policy), NEW rows \in SUBSET DOMAIN s, rows # {}
  PROVE  /\ \E p \in rows : \A q \in rows : s[q].version <= s[p].version
         /\ LET versions == {s[p].version : p \in rows}
            IN Max(versions) \in Nat /\ \A q \in rows : Max(versions) >= s[q].version
<1> DEFINE f == [p \in rows |-> s[p].version]
           V == {f[p] : p \in rows}
<1>1. \A p \in rows : s[p] \in Policy
  OBVIOUS
<1>2. \A p \in rows : f[p] = s[p].version /\ f[p] \in Nat
  BY <1>1 DEF Policy
<1>3. IsFiniteSet(rows)
  <2>1. Len(s) \in Int /\ rows \subseteq 1..Len(s)
    OBVIOUS
  <2>2. IsFiniteSet(1..Len(s))
    BY <2>1, FS_Interval
  <2> QED
    BY <2>1, <2>2, FS_Subset
<1> HIDE DEF f
<1>4. IsFiniteSet(V)
  BY <1>3, ValuesFinite
<1>5. V # {} /\ V \subseteq Nat /\ V \subseteq Int
  BY <1>2
<1>6. Max(V) \in V /\ \A x \in V : Max(V) >= x
  <2> HIDE DEF V
  <2> QED
    BY <1>4, <1>5, MaxFacts
<1>7. V = {s[p].version : p \in rows}
  BY <1>2
<1>8. \A q \in rows : Max(V) >= s[q].version
  BY <1>2, <1>6
<1>9. PICK p \in rows : Max(V) = s[p].version
  BY <1>6, <1>7
<1> QED
  BY <1>5, <1>6, <1>7, <1>8, <1>9

\* No transaction.
LEMMA IdleFacts ==
  ASSUME Limits # {}, NEW n
  PROVE  Idle \in UpdateAmong(n) /\ HoldsOne(Idle) /\ \A rows : NumberedAfter(Idle, rows)
BY DEF Idle, UpdateAmong, HoldsOne, NumberedAfter

LEMMA LimitsFacts == ASSUME PolicyTypes, Active # {} PROVE Limits # {}
BY DEF PolicyTypes, Active, Policy

\* The invariant holds initially: nothing has been assessed.
LEMMA PolicyInvInit == PolicyInit => PolicyInv
<1> SUFFICES ASSUME PolicyInit PROVE PolicyInv
  OBVIOUS
<1>1. PICK limit \in Limits :
        policies = <<[limit |-> limit, version |-> 1, active |-> TRUE]>>
  BY DEF PolicyInit
<1>2. [limit |-> limit, version |-> 1, active |-> TRUE] \in Policy
  BY DEF Policy
<1>3. policies \in Seq(Policy) /\ 1 \in DOMAIN policies /\ policies[1].active
  BY <1>1, <1>2
<1>4. Active # {}
  BY <1>3 DEF Active
<1>5. \A u \in Updaters : update[u] = Idle
  BY DEF PolicyInit
<1>6. update \in [Updaters -> UpdateAmong(Len(policies))] /\ UpdatesStand
  BY <1>1, <1>5, IdleFacts DEF PolicyInit, UpdatesStand
<1> QED
  BY <1>3, <1>4, <1>6 DEF PolicyInit, PolicyInv, PolicyTypes, RouteFitsLines

\* A step of one transaction before its commit.
LEMMA UpdateStep ==
  ASSUME PolicyInv, NEW u \in Updaters, NEW p \in UpdateAmong(Len(policies)),
         update' = [update EXCEPT ![u] = p], UNCHANGED <<policies, quoteVars>>,
         HoldsOne(p), NumberedAfter(p, policies)
  PROVE  PolicyInv'
<1>1. \A o \in Updaters : update'[o] = IF o = u THEN p ELSE update[o]
  BY DEF PolicyInv, PolicyTypes
<1>2. PolicyTypes' /\ Active' = Active
  BY DEF PolicyInv, PolicyTypes, Active, quoteVars
<1>3. UpdatesStand'
  BY <1>1 DEF PolicyInv, UpdatesStand
<1>4. RouteFitsLines'
  BY DEF PolicyInv, RouteFitsLines, quoteVars
<1> QED
  BY <1>2, <1>3, <1>4 DEF PolicyInv

\* The active rows are found.
LEMMA BeginKeeps ==
  ASSUME PolicyInv, NEW u \in Updaters, BeginUpdate(u)
  PROVE  PolicyInv'
<1>1. PICK via \in {"admin", "manager"}, limit \in Limits :
        update' = [update EXCEPT ![u] = [pc |-> "locking", via |-> via, limit |-> limit,
                                         seen |-> Active, held |-> {}, version |-> 0]]
  BY DEF BeginUpdate
<1> DEFINE p == [pc |-> "locking", via |-> via, limit |-> limit,
                 seen |-> Active, held |-> {}, version |-> 0]
<1>2. Active \in SUBSET (1..Len(policies))
  BY DEF Active, PolicyInv, PolicyTypes
<1>3. p \in UpdateAmong(Len(policies)) /\ HoldsOne(p) /\ NumberedAfter(p, policies)
  BY <1>2 DEF UpdateAmong, HoldsOne, NumberedAfter
<1> HIDE DEF p
<1> QED
  BY <1>1, <1>3, UpdateStep DEF BeginUpdate, p

\* The row a transaction comes to is one it found.
LEMMA NextRowFacts ==
  ASSUME PolicyInv, NEW u \in Updaters, update[u].seen # {}
  PROVE  NextRow(u) \subseteq update[u].seen
<1> DEFINE S == update[u].seen
<1>1. S \subseteq 1..Len(policies) /\ Len(policies) \in Int
  BY DEF PolicyInv, PolicyTypes, UpdateAmong
<1>2. IsFiniteSet(S) /\ S \subseteq Int
  <2> HIDE DEF S
  <2>1. IsFiniteSet(1..Len(policies))
    BY <1>1, FS_Interval
  <2>2. S \subseteq Int
    BY <1>1
  <2>3. S \in SUBSET (1..Len(policies))
    BY <1>1
  <2>4. IsFiniteSet(S)
    BY <2>1, <2>3, FS_Subset
  <2> QED
    BY <2>2, <2>4
<1>3. Min(S) \in S
  <2> HIDE DEF S
  <2>1. S # {}
    BY DEF S
  <2> QED
    BY <1>2, <2>1, MinFacts
<1> QED
  BY <1>3 DEF NextRow, Newest

\* A row is locked, or passed over.
LEMMA PolicyLockKeeps ==
  ASSUME PolicyInv, NEW u \in Updaters, LockPolicy(u)
  PROVE  PolicyInv'
<1>1. PICK r \in NextRow(u) :
        update' = [update EXCEPT
          ![u].held = IF policies[r].active THEN @ \cup {r} ELSE @,
          ![u].seen = IF policies[r].active /\ update[u].via = "admin" THEN {}
                      ELSE @ \ {r}]
  BY DEF LockPolicy
<1>2. r \in update[u].seen /\ update[u].pc = "locking"
  BY NextRowFacts DEF LockPolicy
<1>3. update[u] \in UpdateAmong(Len(policies)) /\ HoldsOne(update[u])
  BY DEF PolicyInv, PolicyTypes, UpdatesStand
<1> DEFINE held == IF policies[r].active THEN update[u].held \cup {r} ELSE update[u].held
           seen == IF policies[r].active /\ update[u].via = "admin" THEN {}
                   ELSE update[u].seen \ {r}
           p == [update[u] EXCEPT !.held = held, !.seen = seen]
<1>4. update' = [update EXCEPT ![u] = p]
  BY <1>1 DEF PolicyInv, PolicyTypes
<1>5. held \in SUBSET (1..Len(policies)) /\ seen \in SUBSET (1..Len(policies))
  BY <1>2, <1>3 DEF UpdateAmong
<1>6. /\ update[u].via = "admin" /\ seen # {} => held = {}
      /\ update[u].via = "admin" => \A a, b \in held : a = b
  BY <1>2, <1>3 DEF HoldsOne
<1>7. /\ p \in UpdateAmong(Len(policies))
      /\ p.held = held /\ p.seen = seen /\ p.via = update[u].via /\ p.pc = "locking"
  <2> HIDE DEF held, seen
  <2> QED
    BY <1>2, <1>3, <1>5 DEF UpdateAmong
<1> HIDE DEF p, held, seen
<1>8. HoldsOne(p) /\ NumberedAfter(p, policies)
  BY <1>6, <1>7 DEF HoldsOne, NumberedAfter
<1> QED
  BY <1>4, <1>7, <1>8, UpdateStep DEF LockPolicy

\* The number of the new policy is greater than those of the rows held.
LEMMA NextVersionFacts ==
  ASSUME PolicyInv, NEW u \in Updaters
  PROVE  /\ NextVersion(u) \in Nat
         /\ \A a \in update[u].held : NextVersion(u) > policies[a].version
<1> DEFINE H == update[u].held
<1>1. /\ policies \in Seq(Policy) /\ H \subseteq DOMAIN policies
      /\ \A a \in DOMAIN policies : policies[a].version \in Nat
  <2>1. policies \in Seq(Policy) /\ H \subseteq 1..Len(policies)
    BY DEF PolicyInv, PolicyTypes, UpdateAmong
  <2>2. \A a \in DOMAIN policies : policies[a] \in Policy
    BY <2>1
  <2> QED
    BY <2>1, <2>2 DEF Policy
<1>2. CASE update[u].via = "admin" /\ H = {}
  BY <1>2 DEF NextVersion
<1>3. CASE update[u].via = "admin" /\ H # {}
  <2>1. IsFiniteSet(H) /\ H \subseteq Int
    <3>1. Len(policies) \in Int /\ H \subseteq 1..Len(policies)
      BY <1>1
    <3> HIDE DEF H
    <3>2. IsFiniteSet(1..Len(policies))
      BY <3>1, FS_Interval
    <3>3. H \in SUBSET (1..Len(policies)) /\ H \subseteq Int
      BY <3>1
    <3>4. IsFiniteSet(H)
      BY <3>2, <3>3, FS_Subset
    <3> QED
      BY <3>3, <3>4
  <2>2. Max(H) \in H
    <3> HIDE DEF H
    <3> QED
      BY <1>3, <2>1, MaxFacts
  <2>3. \A a \in H : a = Max(H)
    BY <1>3, <2>2 DEF PolicyInv, UpdatesStand, HoldsOne
  <2>4. NextVersion(u) = policies[Max(H)].version + 1
    BY <1>3 DEF NextVersion
  <2> HIDE DEF H
  <2>5. policies[Max(H)].version \in Nat
    BY <1>1, <2>2
  <2>6. \A a \in H : NextVersion(u) > policies[a].version
    BY <2>3, <2>4, <2>5
  <2> QED
    BY <2>4, <2>5, <2>6 DEF H
<1>4. CASE update[u].via # "admin"
  <2> DEFINE top == Max({policies[p].version : p \in DOMAIN policies})
  <2>1. DOMAIN policies # {}
    BY DEF PolicyInv, Active
  <2>2. top \in Nat /\ \A q \in DOMAIN policies : top >= policies[q].version
    BY <1>1, <2>1, HighestVersion
  <2>3. NextVersion(u) = top + 1
    BY <1>4 DEF NextVersion
  <2> HIDE DEF top
  <2> QED
    BY <1>1, <2>2, <2>3
<1> QED
  BY <1>2, <1>3, <1>4

\* The new policy is inserted.
LEMMA PolicyInsertKeeps ==
  ASSUME PolicyInv, NEW u \in Updaters, InsertPolicy(u)
  PROVE  PolicyInv'
<1> DEFINE v == NextVersion(u)
           p == [update[u] EXCEPT !.pc = "inserted", !.version = v]
<1>1. update' = [update EXCEPT ![u] = p] /\ UNCHANGED <<policies, quoteVars>>
  BY DEF InsertPolicy, PolicyInv, PolicyTypes
<1>2. v \in Nat /\ \A a \in update[u].held : v > policies[a].version
  BY NextVersionFacts
<1>3. update[u] \in UpdateAmong(Len(policies)) /\ HoldsOne(update[u])
  BY DEF PolicyInv, PolicyTypes, UpdatesStand
<1> HIDE DEF v
<1>4. /\ p \in UpdateAmong(Len(policies)) /\ p.version = v
      /\ p.held = update[u].held /\ p.seen = update[u].seen /\ p.via = update[u].via
  BY <1>2, <1>3 DEF UpdateAmong
<1> HIDE DEF p
<1>5. HoldsOne(p) /\ NumberedAfter(p, policies)
  BY <1>2, <1>3, <1>4 DEF HoldsOne, NumberedAfter
<1> QED
  BY <1>1, <1>4, <1>5, UpdateStep

\* What a commit does to the rows: those held are no longer active, and the new
\* one, with a higher number, is.
LEMMA PolicyCommitEffect ==
  ASSUME PolicyInv, NEW u \in Updaters, CommitPolicy(u)
  PROVE  /\ policies' \in Seq(Policy) /\ Len(policies') = Len(policies) + 1
         /\ \A p \in DOMAIN policies :
              /\ policies'[p].version = policies[p].version
              /\ policies'[p].active <=> policies[p].active /\ p \notin update[u].held
         /\ policies'[Len(policies')].active
         /\ \A p \in update[u].held : policies'[Len(policies')].version > policies[p].version
<1> DEFINE kept == [p \in DOMAIN policies |->
                      [policies[p] EXCEPT !.active = @ /\ p \notin update[u].held]]
           new == [limit |-> update[u].limit, version |-> update[u].version, active |-> TRUE]
<1>1. policies' = Append(kept, new) /\ update[u].pc = "inserted"
  BY DEF CommitPolicy
<1>2. /\ policies \in Seq(Policy) /\ update[u] \in UpdateAmong(Len(policies))
      /\ NumberedAfter(update[u], policies)
  BY DEF PolicyInv, PolicyTypes, UpdatesStand
<1>3. new \in Policy /\ new.active /\ new.version = update[u].version
  BY <1>2 DEF UpdateAmong, Policy
<1>4. ASSUME NEW p \in DOMAIN policies
      PROVE  /\ kept[p] \in Policy /\ kept[p].version = policies[p].version
             /\ kept[p].active <=> policies[p].active /\ p \notin update[u].held
  <2>1. policies[p] \in Policy
    BY <1>2
  <2> DEFINE b == policies[p].active /\ p \notin update[u].held
  <2>2. kept[p] = [policies[p] EXCEPT !.active = b] /\ b \in BOOLEAN
    BY <2>1 DEF Policy
  <2> HIDE DEF b
  <2>3. /\ kept[p] \in Policy /\ kept[p].version = policies[p].version
        /\ kept[p].active = b
    BY <2>1, <2>2 DEF Policy
  <2> QED
    BY <2>3 DEF b
<1>5. kept \in Seq(Policy) /\ Len(kept) = Len(policies)
  <2>1. DOMAIN policies = 1..Len(policies) /\ Len(policies) \in Nat
    BY <1>2
  <2>2. DOMAIN kept = 1..Len(policies)
    BY <2>1
  <2>3. kept = [p \in 1..Len(policies) |-> kept[p]]
    BY <2>1
  <2> HIDE DEF kept
  <2> QED
    BY <1>4, <2>1, <2>2, <2>3
<1> HIDE DEF kept, new
<1>6. /\ policies' \in Seq(Policy) /\ Len(policies') = Len(policies) + 1
      /\ \A p \in DOMAIN policies : policies'[p] = kept[p]
      /\ policies'[Len(policies')] = new
  BY <1>1, <1>2, <1>3, <1>5
<1>7. \A p \in update[u].held : new.version > policies[p].version
  BY <1>1, <1>2, <1>3 DEF NumberedAfter
<1> QED
  BY <1>3, <1>4, <1>6, <1>7

LEMMA PolicyCommitKeeps ==
  ASSUME PolicyInv, NEW u \in Updaters, CommitPolicy(u)
  PROVE  PolicyInv'
<1> DEFINE n == Len(policies)
<1>1. policies \in Seq(Policy) /\ n \in Nat /\ DOMAIN policies = 1..n
  BY DEF PolicyInv, PolicyTypes
<1>2. /\ policies' \in Seq(Policy) /\ Len(policies') = n + 1
      /\ \A p \in 1..n : policies'[p].version = policies[p].version
      /\ policies'[n + 1].active
  BY <1>1, PolicyCommitEffect
<1>3. \A o \in Updaters : update'[o] = IF o = u THEN Idle ELSE update[o]
  BY DEF CommitPolicy, PolicyInv, PolicyTypes
<1>4. Idle \in UpdateAmong(n + 1) /\ HoldsOne(Idle) /\ NumberedAfter(Idle, policies')
  BY LimitsFacts, IdleFacts DEF PolicyInv
<1>5. ASSUME NEW o \in Updaters
      PROVE  /\ update'[o] \in UpdateAmong(n + 1)
             /\ HoldsOne(update'[o]) /\ NumberedAfter(update'[o], policies')
  <2>1. CASE o = u
    BY <1>3, <1>4, <2>1
  <2>2. CASE o # u
    <3>1. /\ update'[o] = update[o] /\ update[o] \in UpdateAmong(n)
          /\ HoldsOne(update[o]) /\ NumberedAfter(update[o], policies)
      BY <1>3, <2>2 DEF PolicyInv, PolicyTypes, UpdatesStand
    <3>2. 1..n \subseteq 1..(n + 1)
      BY <1>1
    <3>3. update[o] \in UpdateAmong(n + 1)
      <4> HIDE DEF n
      <4> QED
        BY <3>1, <3>2 DEF UpdateAmong
    <3>4. update[o].held \subseteq 1..n
      BY <3>1 DEF UpdateAmong
    <3>5. NumberedAfter(update[o], policies')
      BY <1>2, <3>1, <3>4 DEF NumberedAfter
    <3> QED
      BY <3>1, <3>3, <3>5
  <2> QED
    BY <2>1, <2>2
<1>6. update' = [o \in Updaters |-> update'[o]]
  BY DEF CommitPolicy, PolicyInv, PolicyTypes
<1>7. UNCHANGED quoteVars
  BY DEF CommitPolicy
<1>8. PolicyTypes'
  <2>1. update' \in [Updaters -> UpdateAmong(n + 1)]
    BY <1>5, <1>6
  <2> QED
    BY <1>2, <1>7, <2>1 DEF PolicyInv, PolicyTypes, quoteVars
<1>9. Active' # {}
  BY <1>1, <1>2 DEF Active
<1>10. UpdatesStand'
  BY <1>5 DEF UpdatesStand
<1>11. RouteFitsLines'
  BY <1>7 DEF PolicyInv, RouteFitsLines, quoteVars
<1> QED
  BY <1>8, <1>9, <1>10, <1>11 DEF PolicyInv

-----------------------------------------------------------------------------
(***************************************************************************)
(* The route.                                                              *)
(***************************************************************************)

\* Two values are finitely many.
LEMMA PairFinite ==
  ASSUME NEW a, NEW b
  PROVE  IsFiniteSet({a, b})
<1>1. IsFiniteSet({a})
  BY FS_Singleton
<1>2. IsFiniteSet({a} \cup {b})
  BY <1>1, FS_AddElement
<1>3. {a, b} = {a} \cup {b}
  OBVIOUS
<1> QED
  BY <1>2, <1>3

\* The smaller of two percentages.
LEMMA MinOfTwo ==
  ASSUME NEW a \in Int, NEW b \in Int
  PROVE  Min({a, b}) \in Int
<1>1. IsFiniteSet({a, b})
  BY PairFinite
<1>2. {a, b} # {} /\ {a, b} \subseteq Int
  OBVIOUS
<1> DEFINE S == {a, b}
<1>3. Min(S) \in S
  <2> HIDE DEF S
  <2> QED
    BY <1>1, <1>2, MinFacts DEF S
<1> QED
  BY <1>2, <1>3

\* What exceeds the limit is never negative.
LEMMA OverageType ==
  ASSUME NEW r \in Int, NEW a \in Int
  PROVE  Overage(r, a) \in Nat
<1> DEFINE S == {0, r - a}
<1>1. IsFiniteSet(S)
  BY PairFinite
<1>2. S # {} /\ S \subseteq Int /\ 0 \in S
  OBVIOUS
<1>3. Max(S) \in S /\ Max(S) >= 0
  <2> HIDE DEF S
  <2> QED
    BY <1>1, <1>2, MaxFacts
<1>4. Max(S) \in Nat
  BY <1>2, <1>3
<1> QED
  BY <1>4 DEF Overage

\* Products of numbers that are not negative.
LEMMA Products ==
  \A a, b, c \in Nat :
    /\ a * b \in Nat
    /\ a * b = 0 <=> a = 0 \/ b = 0
    /\ b <= c => a * b <= a * c
    /\ a > 0 /\ b > c => a * b > a * c
    /\ a * c = c * a
OBVIOUS

\* The route of an excess that the lines' overages add up to is the one the
\* lines call for.
LEMMA RouteFits ==
  ASSUME NEW over \in [Lines -> Nat], NEW limit \in Nat
  PROVE  LET term == [l \in Lines |-> Base[l] * over[l]]
             route == RouteOf(SumFunctionOnSet(term, Lines), TotalOf, limit)
             valued == {l \in Lines : Base[l] > 0}
             beyond(least) == {l \in valued : over[l] > least}
         IN /\ route = "none" <=> beyond(0) = {}
            /\ beyond(limit) = valued => route = "manager_then_finance"
            /\ beyond(limit) = {} => route # "manager_then_finance"
<1> DEFINE term == [l \in Lines |-> Base[l] * over[l]]
           share == [l \in Lines |-> limit * Base[l]]
           excess == SumFunctionOnSet(term, Lines)
           route == RouteOf(excess, TotalOf, limit)
           valued == {l \in Lines : Base[l] > 0}
           beyond(least) == {l \in valued : over[l] > least}
<1>1. \A l \in Lines : Base[l] \in Nat /\ over[l] \in Nat
  BY BaseAssumption DEF Lines
<1>2. IsFiniteSet(Lines)
  <2>1. Len(Base) \in Nat /\ Lines = 1..Len(Base)
    BY BaseAssumption DEF Lines
  <2> QED
    BY <2>1, FS_Interval
<1>3. \A l \in Lines : /\ term[l] = Base[l] * over[l] /\ share[l] = limit * Base[l]
                       /\ share[l] = Base[l] * limit
                       /\ term[l] \in Nat /\ share[l] \in Nat
  BY <1>1, Products
<1> HIDE DEF term, share
<1>4. excess \in Int /\ excess >= 0
  BY <1>2, <1>3, SumType
<1>5. SumFunctionOnSet(share, Lines) = limit * TotalOf
  BY <1>1, <1>2, <1>3, SumScale DEF TotalOf
<1>6. TotalOf \in Int /\ limit * TotalOf \in Int /\ limit * TotalOf >= 0
  <2>1. TotalOf \in Int
    BY <1>1, <1>2, SumType DEF TotalOf
  <2>2. SumFunctionOnSet(share, Lines) \in Int /\ SumFunctionOnSet(share, Lines) >= 0
    BY <1>2, <1>3, SumType
  <2> QED
    BY <1>5, <2>1, <2>2
<1> HIDE DEF excess
<1>7. /\ route = "none" <=> excess = 0
      /\ route = "manager_then_finance" <=> excess # 0 /\ ~(excess <= limit * TotalOf)
  BY <1>4, <1>6 DEF RouteOf
<1> HIDE DEF route
<1>8. excess = 0 <=> beyond(0) = {}
  <2>1. ASSUME excess = 0 PROVE beyond(0) = {}
    <3> SUFFICES ASSUME NEW l \in Lines, Base[l] > 0, over[l] > 0 PROVE FALSE
      OBVIOUS
    <3>1. term[l] <= excess
      BY <1>2, <1>3, SumTerm DEF excess
    <3>2. term[l] > 0
      BY <1>1, <1>3, Products
    <3> QED
      BY <1>3, <2>1, <3>1, <3>2
  <2>2. ASSUME beyond(0) = {} PROVE excess = 0
    <3>1. ASSUME NEW l \in Lines PROVE term[l] = 0
      <4>1. Base[l] = 0 \/ over[l] = 0
        BY <1>1, <2>2
      <4> QED
        BY <1>1, <1>3, <4>1, Products
    <3> QED
      BY <1>2, <3>1, SumZeros DEF excess
  <2> QED
    BY <2>1, <2>2
<1>9. ASSUME beyond(limit) = valued PROVE excess > limit * TotalOf
  <2>1. PICK k \in Lines : Base[k] > 0
    BY BaseAssumption DEF Lines
  <2>2. ASSUME NEW l \in Lines PROVE share[l] <= term[l] /\ (Base[l] > 0 => share[l] < term[l])
    <3>1. CASE Base[l] > 0
      <4>1. over[l] > limit
        BY <1>9, <3>1
      <4> QED
        BY <1>1, <1>3, <4>1, <3>1, Products
    <3>2. CASE ~(Base[l] > 0)
      <4>1. Base[l] = 0
        BY <1>1, <3>2
      <4>2. term[l] = 0 /\ share[l] = 0
        BY <1>1, <1>3, <4>1, Products
      <4> QED
        BY <4>1, <4>2
    <3> QED
      BY <3>1, <3>2
  <2>3. SumFunctionOnSet(share, Lines) < SumFunctionOnSet(term, Lines)
    <3>1. \A l \in Lines : share[l] \in Int /\ term[l] \in Int /\ share[l] <= term[l]
      BY <1>3, <2>2
    <3>2. share[k] < term[k]
      BY <2>1, <2>2
    <3> QED
      BY <1>2, <3>1, <3>2, SumStrict
  <2> QED
    BY <1>4, <1>5, <1>6, <2>3 DEF excess
<1>10. ASSUME beyond(limit) = {} PROVE excess <= limit * TotalOf
  <2>1. ASSUME NEW l \in Lines PROVE term[l] <= share[l]
    <3>1. CASE Base[l] > 0
      <4>1. over[l] <= limit
        BY <1>1, <1>10, <3>1
      <4> QED
        BY <1>1, <1>3, <4>1, Products
    <3>2. CASE ~(Base[l] > 0)
      <4>1. Base[l] = 0
        BY <1>1, <3>2
      <4>2. term[l] = 0 /\ share[l] = 0
        BY <1>1, <1>3, <4>1, Products
      <4> QED
        BY <4>2
    <3> QED
      BY <3>1, <3>2
  <2>2. \A l \in Lines : share[l] \in Int /\ term[l] \in Int /\ term[l] <= share[l]
    BY <1>3, <2>1
  <2>3. SumFunctionOnSet(term, Lines) <= SumFunctionOnSet(share, Lines)
    BY <1>2, <2>2, SumMonotone
  <2> QED
    BY <1>5, <2>3 DEF excess
<1>11. /\ route = "none" <=> beyond(0) = {}
       /\ beyond(limit) = valued => route = "manager_then_finance"
       /\ beyond(limit) = {} => route # "manager_then_finance"
  <2>1. beyond(limit) = valued => excess # 0 /\ ~(excess <= limit * TotalOf)
    <3>1. ASSUME beyond(limit) = valued PROVE excess # 0 /\ ~(excess <= limit * TotalOf)
      <4>1. excess > limit * TotalOf
        BY <1>9, <3>1
      <4> QED
        BY <1>4, <1>6, <4>1
    <3> QED
      BY <3>1
  <2> QED
    BY <1>7, <1>8, <1>10, <2>1
<1> QED
  BY <1>11 DEF route, excess, term

\* A version is assessed by the policy in force.
LEMMA AssessmentKeeps ==
  ASSUME PolicyInv, CreateQuoteVersion
  PROVE  PolicyInv'
<1>1. PICK given \in [Lines -> Requested], p \in InForce :
        assessment' = [route |-> RouteOf(ExcessOf(given), TotalOf, policies[p].limit),
                       limit |-> policies[p].limit,
                       overage |-> [l \in Lines |-> Overage(given[l], AllowedDiscount(l))]]
  BY DEF CreateQuoteVersion
<1> DEFINE over == [l \in Lines |-> Overage(given[l], AllowedDiscount(l))]
           term == [l \in Lines |-> Base[l] * over[l]]
           limit == policies[p].limit
           route == RouteOf(SumFunctionOnSet(term, Lines), TotalOf, limit)
<1>2. limit \in Nat
  <2>1. p \in DOMAIN policies /\ policies \in Seq(Policy)
    BY DEF InForce, Newest, Active, PolicyInv, PolicyTypes
  <2>2. policies[p] \in Policy
    BY <2>1
  <2> QED
    BY <2>2, PercentAssumption DEF Policy
<1>3. over \in [Lines -> Nat]
  <2> SUFFICES ASSUME NEW l \in Lines PROVE Overage(given[l], AllowedDiscount(l)) \in Nat
    OBVIOUS
  <2>1. given[l] \in Int /\ Ceiling[l] \in Int
    <3>1. given[l] \in Requested /\ Ceiling[l] \in Nat
      BY PercentAssumption DEF Lines
    <3>2. \A x \in Requested : x \in Nat
      BY PercentAssumption
    <3>3. given[l] \in Nat
      BY <3>1, <3>2
    <3> QED
      BY <3>1, <3>3
  <2>2. entitlement \in Int
    BY PercentAssumption DEF CreateQuoteVersion, PolicyInv, PolicyTypes
  <2>3. AllowedDiscount(l) \in Int
    BY <2>1, <2>2, MinOfTwo DEF AllowedDiscount
  <2> QED
    BY <2>1, <2>3, OverageType
<1>4. term = [l \in Lines |-> Base[l] * Overage(given[l], AllowedDiscount(l))]
  OBVIOUS
<1>5. assessment' = [route |-> route, limit |-> limit, overage |-> over]
  BY <1>1, <1>4 DEF ExcessOf
<1> HIDE DEF over, limit
<1>6. LET valued == {l \in Lines : Base[l] > 0}
          beyond(least) == {l \in valued : over[l] > least}
      IN /\ route = "none" <=> beyond(0) = {}
         /\ beyond(limit) = valued => route = "manager_then_finance"
         /\ beyond(limit) = {} => route # "manager_then_finance"
  BY <1>2, <1>3, RouteFits
<1> HIDE DEF route
<1>7. assessment'.route = route /\ assessment'.limit = limit /\ assessment'.overage = over
  BY <1>5
<1>8. RouteFitsLines'
  BY <1>6, <1>7 DEF RouteFitsLines
<1>9. UNCHANGED policyVars /\ entitlement' = NotReading
  BY DEF CreateQuoteVersion
<1>10. PolicyTypes' /\ Active' = Active /\ UpdatesStand'
  BY <1>9 DEF policyVars, PolicyInv, PolicyTypes, Active, UpdatesStand
<1> QED
  BY <1>8, <1>10 DEF PolicyInv

-----------------------------------------------------------------------------

\* The invariant is kept by every step.
LEMMA PolicyStep == PolicyInv /\ [PolicyNext]_stateVars => PolicyInv'
<1> SUFFICES ASSUME PolicyInv, [PolicyNext]_stateVars PROVE PolicyInv'
  OBVIOUS
<1>1. CASE UNCHANGED <<policyVars, assessment>> /\ entitlement' \in Entitlements \cup {NotReading}
  BY <1>1 DEF policyVars, PolicyInv, PolicyTypes, Active, UpdatesStand, RouteFitsLines
<1>2. CASE UNCHANGED stateVars
  BY <1>1, <1>2 DEF stateVars, quoteVars, PolicyInv, PolicyTypes
<1>3. CASE ResolveCustomer
  BY <1>1, <1>3 DEF ResolveCustomer
<1>4. ASSUME NEW u \in Updaters, UpdateFails(u) PROVE PolicyInv'
  BY <1>4, LimitsFacts, IdleFacts, UpdateStep DEF UpdateFails, PolicyInv
<1> QED
  BY <1>2, <1>3, <1>4, BeginKeeps, PolicyLockKeeps, PolicyInsertKeeps, PolicyCommitKeeps,
     AssessmentKeeps DEF PolicyNext

\* A policy that is inserted is numbered after those it replaces, and what is
\* assessed fits its lines.
THEOREM PolicyInvariant == PolicySpec => []PolicyInv
BY PolicyInvInit, PolicyStep, PTL DEF PolicySpec

\* The stored route is the one the lines and the policy call for, whatever the
\* lines are worth and the discounts asked.
THEOREM RoutesFit == PolicySpec => []RouteFitsLines
<1>1. PolicyInv => RouteFitsLines
  BY DEF PolicyInv
<1> QED
  BY <1>1, PolicyInvariant, PTL

\* A policy in force gives way only to one with a higher number.
LEMMA NumbersRise ==
  ASSUME PolicyInv, PolicyInv', [PolicyNext]_stateVars
  PROVE  /\ InForce' # {}
         /\ \A p \in InForce, q \in InForce' : policies'[q].version >= policies[p].version
<1>1. /\ policies \in Seq(Policy) /\ policies' \in Seq(Policy)
      /\ Active # {} /\ Active' # {}
  BY DEF PolicyInv, PolicyTypes
<1>2. Active \subseteq DOMAIN policies /\ Active' \subseteq DOMAIN policies'
  BY DEF Active
<1>3. /\ \A p \in DOMAIN policies : policies[p].version \in Nat
      /\ \A p \in DOMAIN policies' : policies'[p].version \in Nat
  <2>1. ASSUME NEW s \in Seq(Policy), NEW p \in DOMAIN s PROVE s[p].version \in Nat
    <3>1. s[p] \in Policy
      OBVIOUS
    <3> QED
      BY <3>1 DEF Policy
  <2> QED
    BY <1>1, <2>1
<1>4. InForce' # {}
  <2>1. PICK p \in Active' : \A q \in Active' : policies'[q].version <= policies'[p].version
    <3> HIDE DEF Active
    <3> QED
      BY <1>1, <1>2, HighestVersion
  <2>2. p \in InForce'
    BY <2>1 DEF InForce, Newest
  <2> QED
    BY <2>2
<1>5. \A p \in Active : \A q \in InForce : policies[p].version <= policies[q].version
  BY DEF InForce, Newest
<1>6. \A p \in Active' : \A q \in InForce' : policies'[p].version <= policies'[q].version
  BY DEF InForce, Newest
<1>7. InForce \subseteq Active /\ InForce' \subseteq Active'
  BY DEF InForce, Newest
<1>8. CASE policies' = policies
  <2>1. Active' = Active
    BY <1>8 DEF Active
  <2> QED
    BY <1>4, <1>6, <1>7, <1>8, <2>1
<1>9. ASSUME NEW u \in Updaters, CommitPolicy(u), NEW p \in InForce, NEW q \in InForce'
      PROVE  policies'[q].version >= policies[p].version
  <2> DEFINE n == Len(policies')
  <2>1. /\ n = Len(policies) + 1 /\ policies'[n].active
        /\ \A a \in DOMAIN policies :
             /\ policies'[a].version = policies[a].version
             /\ policies'[a].active <=> policies[a].active /\ a \notin update[u].held
        /\ \A a \in update[u].held : policies'[n].version > policies[a].version
    BY <1>9, PolicyCommitEffect
  <2>2. p \in DOMAIN policies /\ policies[p].active /\ q \in DOMAIN policies'
    BY <1>2, <1>7 DEF Active
  <2>3. n \in DOMAIN policies' /\ DOMAIN policies \subseteq DOMAIN policies'
    BY <1>1, <2>1
  <2>4. /\ policies[p].version \in Nat /\ policies'[q].version \in Nat
        /\ policies'[n].version \in Nat
    BY <1>3, <2>2, <2>3
  <2>5. CASE p \in update[u].held
    <3>1. n \in Active'
      BY <2>1, <2>3 DEF Active
    <3>2. policies'[n].version <= policies'[q].version
      BY <1>6, <3>1
    <3>3. policies'[n].version > policies[p].version
      BY <2>1, <2>5
    <3> HIDE DEF n
    <3> QED
      BY <2>4, <3>2, <3>3
  <2>6. CASE p \notin update[u].held
    <3>1. p \in Active'
      BY <2>1, <2>2, <2>3, <2>6 DEF Active
    <3>2. policies'[p].version <= policies'[q].version
      BY <1>6, <3>1
    <3> QED
      BY <2>1, <2>2, <2>4, <3>2
  <2> QED
    BY <2>5, <2>6
<1>10. CASE ~\E u \in Updaters : CommitPolicy(u)
  <2>1. policies' = policies
    BY <1>10 DEF PolicyNext, stateVars, policyVars, BeginUpdate, LockPolicy, InsertPolicy,
       UpdateFails, ResolveCustomer, CreateQuoteVersion
  <2> QED
    BY <1>8, <2>1
<1> QED
  BY <1>4, <1>9, <1>10

\* However the updates of the two pages overlap, a policy is in force at all
\* times and no late commit brings an older one back.
THEOREM NoOlderPolicyReturns == PolicySpec => PolicyNumbersRise
<1>1. PolicyInv /\ PolicyInv' /\ [PolicyNext]_stateVars =>
        [InForce' # {} /\ \A p \in InForce, q \in InForce' :
           policies'[q].version >= policies[p].version]_stateVars
  BY NumbersRise
<1> QED
  BY <1>1, PolicyInvariant, PTL DEF PolicySpec, PolicyNumbersRise

=============================================================================
