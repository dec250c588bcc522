-------------------------- MODULE Fulfillment_proofs --------------------------
(***************************************************************************)
(* Proofs about Fulfillment, for any finite sets of quotations, warehouses *)
(* and requests, any quantities and any stock.  First who holds which row, *)
(* which needs no arithmetic; then the stock; then the books, with the     *)
(* sums over warehouses, quotations and requests of Sums.                  *)
(***************************************************************************)
EXTENDS Fulfillment, Sums, TLAPS

\* order, invoices and tx are functions; orders and transactions are records
\* of which the parts the proofs use are typed.
OrderParts(o) ==
  o \in [status : OrderStatuses, version : {o.version}, allocated : Quantities,
         back : {o.back}, shipped : {o.shipped}]

TxParts(t) ==
  t \in [pc : {t.pc}, quote : {t.quote}, plan : Quantities, held : Quantities,
         back : {t.back}]

Shapes ==
  /\ order = [q \in Quotes |-> order[q]]
  /\ invoices = [q \in Quotes |-> invoices[q]]
  /\ tx = [r \in Requests |-> tx[r]]
  /\ \A q \in Quotes : OrderParts(order[q])
  /\ \A r \in Requests : TxParts(tx[r])

Consolidating == {"consolidating", "suggested", "closing"}
Planned(r, q) == tx[r].pc = "planned" /\ tx[r].quote = q
Consolidates(r, q) == tx[r].pc \in Consolidating /\ tx[r].quote = q

\* While an allocation is planned its quotation has no order, and nobody else
\* plans one.
PlannedAlone ==
  \A r \in Requests, q \in Quotes : Planned(r, q) =>
    /\ order[q] = NoOrder
    /\ \A s \in Requests \ {r} : ~Planned(s, q)

\* A consolidation has the order of its quotation to itself.
ConsolidatesAlone ==
  \A r \in Requests, q \in Quotes : Consolidates(r, q) =>
    /\ order[q].status # "none"
    /\ \A s \in Requests \ {r} : ~Consolidates(s, q)

\* Transactions that will write an order are about a quotation.
AboutQuotes ==
  \A r \in Requests : tx[r].pc \in {"planned"} \cup Consolidating => tx[r].quote \in Quotes

\* An order is invoiced only when there is one, and at most once.
InvoicesFollowOrders ==
  \A q \in Quotes :
    /\ invoices[q] = <<>> \/ \E v : invoices[q] = <<v>>
    /\ order[q].status = "none" => order[q] = NoOrder /\ invoices[q] = <<>>

IInv ==
  Shapes /\ PlannedAlone /\ ConsolidatesAlone /\ AboutQuotes /\ InvoicesFollowOrders

-----------------------------------------------------------------------------

\* Nothing is a quantity, and quantities add up to quantities.
LEMMA QuantityFacts ==
  /\ Nothing \in Quantities
  /\ \A f, g \in Quantities : Plus(f, g) \in Quantities
BY DEF Nothing, Quantities, Plus

\* Where there is no order nothing is allocated or missing.
LEMMA NoOrderFacts ==
  /\ OrderParts(NoOrder)
  /\ NoOrder.status = "none" /\ NoOrder.back = 0 /\ NoOrder.allocated = Nothing
BY QuantityFacts DEF NoOrder, OrderParts, OrderStatuses

\* A connection without a transaction keeps nothing.
LEMMA IdleFacts == TxParts(Idle) /\ Idle.pc = "idle"
BY QuantityFacts DEF Idle, TxParts

\* What suggestAllocations returns is a quantity of each warehouse.
LEMMA SplitsAreQuantities ==
  ASSUME NEW available, NEW wanted, NEW take \in Splits(available, wanted)
  PROVE  take \in Quantities
BY BoundsAssumption DEF Splits, Quantities

\* An order is either allocated or partly backordered.
LEMMA OrderStatusFacts ==
  \A back : OrderStatus(back) \in {"allocated", "backordered"}
BY DEF OrderStatus

\* The parts of an order that has shipped.
LEMMA ShippedParts ==
  ASSUME NEW o, OrderParts(o), NEW going
  PROVE  LET n == [o EXCEPT !.status = "shipped", !.allocated = Nothing, !.shipped = going]
         IN OrderParts(n) /\ n.status = "shipped"
BY QuantityFacts DEF OrderParts, OrderStatuses

\* The first invoice.
LEMMA FirstInvoice == \A v : Append(<<>>, v) = <<v>>
OBVIOUS

-----------------------------------------------------------------------------
(***************************************************************************)
(* Steps.  A step begins or goes on with one transaction, or ends one, or  *)
(* writes one order; each preserves the invariant for its own reason.      *)
(***************************************************************************)

\* Steps that leave orders, invoices and transactions alone.
LEMMA QuietStep ==
  ASSUME IInv, UNCHANGED <<order, invoices, tx>>
  PROVE  IInv'
BY DEF IInv, Shapes, OrderParts, TxParts, PlannedAlone, ConsolidatesAlone, AboutQuotes,
       InvoicesFollowOrders, Planned, Consolidates

\* A transaction ends, and nothing is written.
LEMMA EndStep ==
  ASSUME IInv, NEW r \in Requests, End(r), UNCHANGED <<order, invoices>>
  PROVE  IInv'
<1>1. \A s \in Requests : tx'[s] = IF s = r THEN Idle ELSE tx[s]
  BY DEF IInv, Shapes, End
<1>2. Shapes'
  BY <1>1, IdleFacts DEF IInv, Shapes, End, OrderParts, TxParts
<1>3. \A s \in Requests, q \in Quotes :
         /\ Planned(s, q)' => Planned(s, q)
         /\ Consolidates(s, q)' => Consolidates(s, q)
  BY <1>1, IdleFacts DEF Planned, Consolidates, Consolidating
<1>4. PlannedAlone' /\ ConsolidatesAlone'
  BY <1>3 DEF IInv, PlannedAlone, ConsolidatesAlone
<1>5. AboutQuotes'
  BY <1>1, IdleFacts DEF IInv, AboutQuotes, Consolidating
<1>6. InvoicesFollowOrders'
  BY DEF IInv, InvoicesFollowOrders
<1> QED
  BY <1>2, <1>4, <1>5, <1>6 DEF IInv

\* A transaction that plans no allocation and consolidates nothing begins.
LEMMA BeginStep ==
  ASSUME IInv, NEW r \in Requests, NEW t, TxParts(t), Begin(r, t),
         UNCHANGED <<order, invoices>>,
         \/ t.pc = "adjusting"
         \/ /\ t.pc = "planned" /\ t.quote \in Quotes
            /\ ~QuoteLocked(t.quote) /\ order[t.quote].status = "none"
         \/ /\ t.pc = "consolidating" /\ t.quote \in Quotes
            /\ ~OrderLocked(t.quote) /\ order[t.quote].status # "none"
  PROVE  IInv'
<1>1. \A s \in Requests : tx'[s] = IF s = r THEN t ELSE tx[s]
  BY DEF IInv, Shapes, Begin
<1>2. Shapes'
  BY <1>1 DEF IInv, Shapes, Begin, OrderParts, TxParts
<1>3. \A s \in Requests \ {r}, q \in Quotes :
         /\ Planned(s, q)' <=> Planned(s, q)
         /\ Consolidates(s, q)' <=> Consolidates(s, q)
  BY <1>1 DEF Planned, Consolidates
<1>4. \A q \in Quotes : Planned(r, q)' =>
         /\ order[q] = NoOrder
         /\ \A s \in Requests \ {r} : ~Planned(s, q)
  BY <1>1 DEF Planned, QuoteLocked, IInv, InvoicesFollowOrders
<1>5. PlannedAlone'
  BY <1>3, <1>4 DEF IInv, PlannedAlone
<1>6. \A q \in Quotes : Consolidates(r, q)' =>
         /\ order[q].status # "none"
         /\ \A s \in Requests \ {r} : ~Consolidates(s, q)
  BY <1>1 DEF Consolidates, Consolidating, OrderLocked
<1>7. ConsolidatesAlone'
  BY <1>3, <1>6 DEF IInv, ConsolidatesAlone
<1>8. AboutQuotes' /\ InvoicesFollowOrders'
  BY <1>1 DEF IInv, AboutQuotes, InvoicesFollowOrders, Consolidating
<1> QED
  BY <1>2, <1>5, <1>7, <1>8 DEF IInv

\* A consolidation goes on.
LEMMA ConsolidationStep ==
  ASSUME IInv, NEW r \in Requests, NEW t, TxParts(t),
         tx[r].pc \in Consolidating, t.pc \in Consolidating, t.quote = tx[r].quote,
         tx' = [tx EXCEPT ![r] = t], UNCHANGED <<order, invoices>>
  PROVE  IInv'
<1>1. \A s \in Requests : tx'[s] = IF s = r THEN t ELSE tx[s]
  BY DEF IInv, Shapes
<1>2. Shapes'
  BY <1>1 DEF IInv, Shapes, OrderParts, TxParts
<1>3. \A s \in Requests, q \in Quotes :
         /\ Planned(s, q)' => Planned(s, q)
         /\ Consolidates(s, q)' <=> Consolidates(s, q)
  BY <1>1 DEF Planned, Consolidates, Consolidating
<1>4. PlannedAlone' /\ ConsolidatesAlone'
  BY <1>3 DEF IInv, PlannedAlone, ConsolidatesAlone
<1>5. AboutQuotes'
  BY <1>1 DEF IInv, AboutQuotes, Consolidating
<1>6. InvoicesFollowOrders'
  BY DEF IInv, InvoicesFollowOrders
<1> QED
  BY <1>2, <1>4, <1>5, <1>6 DEF IInv

\* An order is written, for which nobody else has anything in flight, and
\* perhaps its first invoice.
LEMMA OrderStep ==
  ASSUME IInv, NEW q \in Quotes, NEW o, OrderParts(o), o.status # "none",
         order' = [order EXCEPT ![q] = o],
         \/ invoices' = invoices
         \/ /\ invoices[q] = <<>>
            /\ \E v : invoices' = [invoices EXCEPT ![q] = Append(@, v)],
         tx' = [s \in Requests |-> tx'[s]],
         \A s \in Requests : tx'[s] = tx[s] \/ tx'[s] = Idle,
         \A s \in Requests : ~Planned(s, q)'
  PROVE  IInv'
<1>1. \A p \in Quotes : order'[p] = IF p = q THEN o ELSE order[p]
  BY DEF IInv, Shapes
<1>2. /\ invoices' = [p \in Quotes |-> invoices'[p]]
      /\ \A p \in Quotes \ {q} : invoices'[p] = invoices[p]
      /\ invoices'[q] = <<>> \/ \E v : invoices'[q] = <<v>>
  <2>1. CASE invoices' = invoices
    BY <2>1 DEF IInv, Shapes, InvoicesFollowOrders
  <2>2. CASE /\ invoices[q] = <<>>
             /\ \E v : invoices' = [invoices EXCEPT ![q] = Append(@, v)]
    <3>1. PICK v : invoices' = [invoices EXCEPT ![q] = Append(@, v)]
      BY <2>2
    <3>2. \A p \in Quotes : invoices'[p] = IF p = q THEN Append(<<>>, v) ELSE invoices[p]
      BY <2>2, <3>1 DEF IInv, Shapes
    <3>3. invoices' = [p \in Quotes |-> invoices'[p]]
      BY <3>1 DEF IInv, Shapes
    <3> QED
      BY <3>2, <3>3, FirstInvoice
  <2> QED
    BY <2>1, <2>2
<1>3. \A s \in Requests : TxParts(tx[s]) /\ TxParts(tx'[s])
  BY IdleFacts DEF IInv, Shapes
<1>4. Shapes'
  <2>1. order' = [p \in Quotes |-> order'[p]]
    BY DEF IInv, Shapes
  <2>2. \A p \in Quotes : OrderParts(order'[p])
    BY <1>1 DEF IInv, Shapes
  <2> QED
    BY <1>2, <1>3, <2>1, <2>2 DEF Shapes, OrderParts, TxParts
<1>5. \A s \in Requests, p \in Quotes :
         /\ Planned(s, p)' => Planned(s, p) /\ p # q
         /\ Consolidates(s, p)' => Consolidates(s, p)
  BY IdleFacts DEF Planned, Consolidates, Consolidating
<1>6. PlannedAlone'
  BY <1>1, <1>5 DEF IInv, PlannedAlone
<1>7. ConsolidatesAlone'
  BY <1>1, <1>5 DEF IInv, ConsolidatesAlone
<1>8. AboutQuotes'
  BY IdleFacts DEF IInv, AboutQuotes, Consolidating
<1>9. InvoicesFollowOrders'
  BY <1>1, <1>2 DEF IInv, InvoicesFollowOrders
<1> QED
  BY <1>4, <1>6, <1>7, <1>8, <1>9 DEF IInv

-----------------------------------------------------------------------------
(***************************************************************************)
(* The actions.                                                            *)
(***************************************************************************)

\* The quotation is free, so no allocation of it is planned.
LEMMA FreeQuote ==
  ASSUME NEW q \in Quotes, ~QuoteLocked(q)
  PROVE  \A s \in Requests : ~Planned(s, q)
BY DEF QuoteLocked, Planned

\* Committing the planned allocation: the planned order is the one created.
LEMMA AllocateKeeps ==
  ASSUME IInv, NEW r \in Requests, AllocateFulfillment(r)
  PROVE  IInv'
<1>1. tx[r].pc = "planned" /\ tx' = [tx EXCEPT ![r] = Idle]
  BY DEF AllocateFulfillment, Allocate, End
<1>2. PICK q \in Quotes : q = tx[r].quote
  BY <1>1 DEF IInv, AboutQuotes
<1> DEFINE o == [status |-> OrderStatus(tx[r].back), version |-> quote[q].version,
                 allocated |-> tx[r].plan, back |-> tx[r].back, shipped |-> Nothing]
<1>3. /\ order' = [order EXCEPT ![q] = o]
      /\ \/ invoices' = invoices
         \/ \E v : invoices' = [invoices EXCEPT ![q] = Append(@, v)]
  BY <1>2 DEF AllocateFulfillment, Allocate
<1>4. invoices[q] = <<>> /\ \A s \in Requests \ {r} : ~Planned(s, q)
  BY <1>1, <1>2, NoOrderFacts DEF IInv, PlannedAlone, InvoicesFollowOrders, Planned
<1>5. OrderParts(o) /\ o.status # "none"
  BY OrderStatusFacts DEF IInv, Shapes, TxParts, OrderParts, OrderStatuses
<1>6. /\ tx' = [s \in Requests |-> tx'[s]]
      /\ \A s \in Requests : tx'[s] = IF s = r THEN Idle ELSE tx[s]
  BY <1>1 DEF IInv, Shapes
<1>7. \A s \in Requests : ~Planned(s, q)'
  BY <1>4, <1>6, IdleFacts DEF Planned
<1> HIDE DEF o
<1> QED
  BY <1>3, <1>4, <1>5, <1>6, <1>7, OrderStep

\* An override rewrites the live order, whatever became of it.
LEMMA OverrideKeeps ==
  ASSUME IInv, NEW q \in Quotes, NEW take \in [Warehouses -> 0..MaxWanted],
         ManualOverride(q, take)
  PROVE  IInv'
<1> DEFINE back == Wanted(q) - Total(take)
           o == [status |-> OrderStatus(back), version |-> quote[q].version,
                 allocated |-> take, back |-> back, shipped |-> Nothing]
<1>1. /\ ~QuoteLocked(q) /\ order' = [order EXCEPT ![q] = o]
      /\ invoices' = invoices /\ tx' = tx
  BY DEF ManualOverride, Override
<1>2. OrderParts(o) /\ o.status # "none"
  BY OrderStatusFacts, BoundsAssumption DEF OrderParts, OrderStatuses, Quantities
<1>3. /\ tx' = [s \in Requests |-> tx'[s]]
      /\ \A s \in Requests : ~Planned(s, q)'
  BY <1>1, FreeQuote DEF IInv, Shapes, Planned
<1> HIDE DEF o, back
<1> QED
  BY <1>1, <1>2, <1>3, OrderStep

\* Shipping moves what is allocated to what is shipped.
LEMMA ShipKeeps ==
  ASSUME IInv, NEW q \in Quotes, ShipFulfillment(q)
  PROVE  IInv'
<1> DEFINE o == [order[q] EXCEPT !.status = "shipped", !.allocated = Nothing,
                                 !.shipped = order[q].allocated]
<1>1. /\ ~QuoteLocked(q) /\ order' = [order EXCEPT ![q] = o]
      /\ invoices' = invoices /\ tx' = tx
  BY DEF ShipFulfillment, Ship
<1>2. OrderParts(o) /\ o.status # "none"
  BY ShippedParts DEF IInv, Shapes
<1>3. /\ tx' = [s \in Requests |-> tx'[s]]
      /\ \A s \in Requests : ~Planned(s, q)'
  BY <1>1, FreeQuote DEF IInv, Shapes, Planned
<1> HIDE DEF o
<1> QED
  BY <1>1, <1>2, <1>3, OrderStep

\* The end of a consolidation writes the status and releases the row.
LEMMA FinishKeeps ==
  ASSUME IInv, NEW r \in Requests, FinishConsolidation(r)
  PROVE  IInv'
<1>1. tx[r].pc = "closing" /\ tx' = [tx EXCEPT ![r] = Idle]
  BY DEF FinishConsolidation, Consolidate, End
<1>2. PICK q \in Quotes : q = tx[r].quote
  BY <1>1 DEF IInv, AboutQuotes, Consolidating
<1> DEFINE st == OrderStatus(tx[r].back)
           allocated == Plus(order[q].allocated, tx[r].held)
           o == [order[q] EXCEPT !.status = st, !.allocated = allocated,
                                 !.back = tx[r].back]
<1>3. /\ order' = [order EXCEPT ![q] = o]
      /\ \/ invoices' = invoices
         \/ /\ invoices[q] = <<>>
            /\ \E v : invoices' = [invoices EXCEPT ![q] = Append(@, v)]
  BY <1>2 DEF FinishConsolidation, Consolidate, WithHeld, NotInvoiced
<1>4. Consolidates(r, q) /\ order[q].status # "none"
  BY <1>1, <1>2 DEF IInv, ConsolidatesAlone, Consolidates, Consolidating
<1>5. \A s \in Requests : ~Planned(s, q)
  BY <1>4, NoOrderFacts DEF IInv, PlannedAlone
<1>6. OrderParts(o) /\ o.status # "none"
  <2>1. st \in {"allocated", "backordered"} /\ allocated \in Quantities
    BY QuantityFacts, OrderStatusFacts DEF IInv, Shapes, TxParts, OrderParts
  <2>2. OrderParts(order[q])
    BY DEF IInv, Shapes
  <2> HIDE DEF st, allocated
  <2> QED
    BY <2>1, <2>2 DEF OrderParts, OrderStatuses
<1>7. /\ tx' = [s \in Requests |-> tx'[s]]
      /\ \A s \in Requests : tx'[s] = IF s = r THEN Idle ELSE tx[s]
  BY <1>1 DEF IInv, Shapes
<1>8. \A s \in Requests : ~Planned(s, q)'
  BY <1>5, <1>7, IdleFacts DEF Planned
<1> HIDE DEF o
<1> QED
  BY <1>3, <1>6, <1>7, <1>8, OrderStep

\* Planning writes nothing to an order.
LEMMA PlanKeeps ==
  ASSUME IInv, NEW r \in Requests, NEW q \in Quotes, PlanAllocation(r, q)
  PROVE  IInv'
<1>1. PICK take \in Splits(Available, Wanted(q)) :
        Begin(r, [pc |-> "planned", quote |-> q, plan |-> take, held |-> Nothing,
                  back |-> Wanted(q) - Total(take)])
  BY DEF PlanAllocation
<1> DEFINE t == [pc |-> "planned", quote |-> q, plan |-> take, held |-> Nothing,
                 back |-> Wanted(q) - Total(take)]
<1>2. ~QuoteLocked(q) /\ order[q].status = "none" /\ UNCHANGED <<order, invoices>>
  BY DEF PlanAllocation
<1>3. TxParts(t) /\ t.pc = "planned" /\ t.quote = q
  BY SplitsAreQuantities, QuantityFacts DEF TxParts
<1> HIDE DEF t
<1> QED
  BY <1>1, <1>2, <1>3, BeginStep DEF t

\* A consolidation starts from the backorder of the row it has locked.
LEMMA LockOrderKeeps ==
  ASSUME IInv, NEW r \in Requests, NEW q \in Quotes, LockOrder(r, q)
  PROVE  IInv'
<1> DEFINE t == [pc |-> "consolidating", quote |-> q, plan |-> Nothing, held |-> Nothing,
                 back |-> order[q].back]
<1>1. ~OrderLocked(q) /\ order[q].back > 0 /\ Begin(r, t) /\ UNCHANGED <<order, invoices>>
  BY DEF LockOrder
<1>2. order[q].status # "none"
  BY <1>1, NoOrderFacts DEF IInv, InvoicesFollowOrders
<1>3. TxParts(t) /\ t.pc = "consolidating" /\ t.quote = q
  BY QuantityFacts DEF TxParts
<1> HIDE DEF t
<1> QED
  BY <1>1, <1>2, <1>3, BeginStep

\* A suggestion for the backorder writes nothing to an order.
LEMMA SuggestKeeps ==
  ASSUME IInv, NEW r \in Requests, SuggestMore(r)
  PROVE  IInv'
<1>1. PICK take \in Splits(Minus(Available, tx[r].held), tx[r].back) :
        tx' = [tx EXCEPT ![r] =
                 [tx[r] EXCEPT !.pc = IF take = Nothing THEN "closing" ELSE "suggested",
                               !.plan = take]]
  BY DEF SuggestMore
<1> DEFINE pc == IF take = Nothing THEN "closing" ELSE "suggested"
           t == [tx[r] EXCEPT !.pc = pc, !.plan = take]
<1>2. tx[r].pc = "consolidating" /\ UNCHANGED <<order, invoices>>
  BY DEF SuggestMore
<1>3. take \in Quantities /\ tx' = [tx EXCEPT ![r] = t] /\ pc \in {"closing", "suggested"}
  BY <1>1, SplitsAreQuantities
<1>4. TxParts(t) /\ t.pc = pc /\ t.quote = tx[r].quote
  <2>1. TxParts(tx[r]) /\ tx[r].held \in Quantities
    BY DEF IInv, Shapes, TxParts
  <2> HIDE DEF pc
  <2> QED
    BY <1>3, <2>1 DEF TxParts
<1> HIDE DEF t, pc
<1> QED
  BY <1>2, <1>3, <1>4, ConsolidationStep DEF Consolidating

\* A consolidation adds to the allocation what it takes off the backorder.
LEMMA ReserveKeeps ==
  ASSUME IInv, NEW r \in Requests, ReserveMore(r)
  PROVE  IInv'
<1> DEFINE back == tx[r].back - Total(tx[r].plan)
           pc == IF back = 0 THEN "closing" ELSE "consolidating"
           held == Plus(tx[r].held, tx[r].plan)
           t == [tx[r] EXCEPT !.pc = pc, !.plan = Nothing, !.held = held, !.back = back]
<1>1. tx[r].pc = "suggested" /\ tx' = [tx EXCEPT ![r] = t] /\ UNCHANGED <<order, invoices>>
  BY DEF ReserveMore
<1>2. pc \in {"closing", "consolidating"} /\ held \in Quantities
  BY QuantityFacts DEF IInv, Shapes, TxParts
<1>3. TxParts(t) /\ t.pc = pc /\ t.quote = tx[r].quote
  <2>1. TxParts(tx[r]) /\ Nothing \in Quantities
    BY QuantityFacts DEF IInv, Shapes
  <2> HIDE DEF back, pc, held
  <2> QED
    BY <1>2, <2>1 DEF TxParts
<1> HIDE DEF t, pc
<1> QED
  BY <1>1, <1>2, <1>3, ConsolidationStep DEF Consolidating

\* A first adjustment begins a transaction that is about no order.
LEMMA FindNoStockKeeps ==
  ASSUME IInv, NEW r \in Requests, NEW w \in Warehouses, NEW delta \in 1..MaxStock,
         FindNoStock(r, w, delta)
  PROVE  IInv'
<1> DEFINE plan == [Nothing EXCEPT ![w] = delta]
           t == [Idle EXCEPT !.pc = "adjusting", !.plan = plan]
<1>1. Begin(r, t) /\ UNCHANGED <<order, invoices>>
  BY DEF FindNoStock
<1>2. plan \in Quantities
  BY BoundsAssumption DEF Nothing, Quantities
<1>3. TxParts(t) /\ t.pc = "adjusting"
  <2> HIDE DEF plan
  <2> QED
    BY <1>2, IdleFacts DEF TxParts
<1> HIDE DEF t
<1> QED
  BY <1>1, <1>3, BeginStep

-----------------------------------------------------------------------------

\* The invariant holds initially.
LEMMA InvInit == Init => IInv
<1> SUFFICES ASSUME Init PROVE IInv
  OBVIOUS
<1>1. \A r \in Requests : tx[r] = Idle
  BY DEF Init
<1>2. \A q \in Quotes : order[q] = NoOrder /\ invoices[q] = <<>>
  BY DEF Init
<1>3. Shapes
  BY <1>1, <1>2, IdleFacts, NoOrderFacts DEF Init, Shapes
<1>4. PlannedAlone /\ ConsolidatesAlone /\ AboutQuotes
  BY <1>1, IdleFacts
     DEF PlannedAlone, ConsolidatesAlone, AboutQuotes, Planned, Consolidates, Consolidating
<1>5. InvoicesFollowOrders
  BY <1>2 DEF InvoicesFollowOrders
<1> QED
  BY <1>3, <1>4, <1>5 DEF IInv

\* Every step keeps the invariant.
LEMMA InvStep == IInv /\ [Next]_vars => IInv'
<1> SUFFICES ASSUME IInv, [Next]_vars PROVE IInv'
  OBVIOUS
<1>1. ASSUME NEW q \in Quotes, NEW n \in 0..MaxWanted, CreateRevision(q, n) PROVE IInv'
  BY <1>1, QuietStep DEF CreateRevision
<1>2. ASSUME NEW q \in Quotes, SubmitQuotation(q) PROVE IInv'
  BY <1>2, QuietStep DEF SubmitQuotation
<1>3. ASSUME NEW q \in Quotes, ClearQuote(q) PROVE IInv'
  BY <1>3, QuietStep DEF ClearQuote
<1>4. ASSUME NEW q \in Quotes, NEW take \in [Warehouses -> 0..MaxWanted],
             ManualOverride(q, take)
      PROVE IInv'
  BY <1>4, OverrideKeeps
<1>5. ASSUME NEW q \in Quotes, ShipFulfillment(q) PROVE IInv'
  BY <1>5, ShipKeeps
<1>6. ASSUME NEW r \in Requests, NEW q \in Quotes, PlanAllocation(r, q) PROVE IInv'
  BY <1>6, PlanKeeps
<1>7. ASSUME NEW r \in Requests, NEW q \in Quotes, LockOrder(r, q) PROVE IInv'
  BY <1>7, LockOrderKeeps
<1>8. ASSUME NEW r \in Requests, AllocateFulfillment(r) PROVE IInv'
  BY <1>8, AllocateKeeps
<1>9. ASSUME NEW r \in Requests, SuggestMore(r) PROVE IInv'
  BY <1>9, SuggestKeeps
<1>10. ASSUME NEW r \in Requests, ReserveMore(r) PROVE IInv'
  BY <1>10, ReserveKeeps
<1>11. ASSUME NEW r \in Requests, FinishConsolidation(r) PROVE IInv'
  BY <1>11, FinishKeeps
<1>12. ASSUME NEW r \in Requests, RequestFails(r) PROVE IInv'
  BY <1>12, EndStep DEF RequestFails
<1>13. ASSUME NEW r \in Requests, NEW w \in Warehouses, NEW delta \in 1..MaxStock,
              FindNoStock(r, w, delta)
       PROVE IInv'
  BY <1>13, FindNoStockKeeps
<1>14. ASSUME NEW r \in Requests, UpsertStock(r) PROVE IInv'
  BY <1>14, EndStep DEF UpsertStock
<1>15. ASSUME NEW w \in Warehouses, NEW delta \in Deltas, AdjustStock(w, delta) PROVE IInv'
  BY <1>15, QuietStep DEF AdjustStock
<1>16. CASE UNCHANGED vars
  BY <1>16, QuietStep DEF vars
<1> QED
  BY <1>1, <1>2, <1>3, <1>4, <1>5, <1>6, <1>7, <1>8, <1>9, <1>10, <1>11, <1>12, <1>13,
     <1>14, <1>15, <1>16 DEF Next

\* Allocations are planned for quotations without an order, one at a time;
\* consolidations have their order to themselves; invoices follow orders.
THEOREM Invariant == Spec => []IInv
BY InvInit, InvStep, PTL DEF Spec

\* No interleaving of allocations, overrides and consolidations invoices an
\* order twice, although consolidation locks no quotation.
THEOREM InvoicesOnce == Spec => []InvoicedOnce
<1>1. IInv => InvoicedOnce
  <2> SUFFICES ASSUME IInv, NEW q \in Quotes PROVE Len(invoices[q]) <= 1
    BY DEF InvoicedOnce
  <2>1. CASE invoices[q] = <<>>
    BY <2>1
  <2>2. CASE invoices[q] # <<>>
    <3>1. PICK v : invoices[q] = <<v>>
      BY <2>2 DEF IInv, InvoicesFollowOrders
    <3> QED
      BY <3>1
  <2> QED
    BY <2>1, <2>2
<1> QED
  BY <1>1, Invariant, PTL

-----------------------------------------------------------------------------

\* Adding a quantity takes nothing away.
LEMMA PlusKeeps ==
  \A f, g \in Quantities : \A w \in Warehouses : Plus(f, g)[w] >= f[w]
BY DEF Quantities, Plus

\* A quantity keeps itself.
LEMMA QuantityKeeps ==
  \A f \in Quantities : \A w \in Warehouses : f[w] >= f[w] /\ f[w] >= Nothing[w]
BY DEF Quantities, Nothing

\* While a quotation is not cleared again for an override, whatever other
\* requests do its order gives back nothing it was promised before it ships.
THEOREM KeepsPromises == Spec => PromisesKept
<1> DEFINE Keeps(q) ==
      quote[q].status # "cleared" =>
        \/ order'[q].status = "shipped"
        \/ \A w \in Warehouses : order'[q].allocated[w] >= order[q].allocated[w]
<1>1. ASSUME IInv, [Next]_vars PROVE \A q \in Quotes : Keeps(q)
  <2> SUFFICES ASSUME NEW q \in Quotes PROVE Keeps(q)
    OBVIOUS
  <2>0. /\ order = [p \in Quotes |-> order[p]]
        /\ \A p \in Quotes : order[p].allocated \in Quantities
        /\ \A r \in Requests : tx[r].plan \in Quantities /\ tx[r].held \in Quantities
    BY <1>1 DEF IInv, Shapes, OrderParts, TxParts
  <2>1. CASE order' = order
    BY <2>0, <2>1, QuantityKeeps
  <2>2. ASSUME NEW p \in Quotes, NEW take, ManualOverride(p, take) PROVE Keeps(q)
    <3>1. CASE p = q
      BY <2>2, <3>1 DEF ManualOverride, Override
    <3>2. CASE p # q
      <4>1. order'[q] = order[q]
        BY <2>0, <2>2, <3>2 DEF ManualOverride, Override
      <4> QED
        BY <2>0, <4>1, QuantityKeeps
    <3> QED
      BY <3>1, <3>2
  <2>3. ASSUME NEW p \in Quotes, ShipFulfillment(p) PROVE Keeps(q)
    <3>1. order'[q] = order[q] \/ order'[q].status = "shipped"
      BY <1>1, <2>0, <2>3, ShippedParts DEF ShipFulfillment, Ship, IInv, Shapes
    <3> QED
      BY <2>0, <3>1, QuantityKeeps
  <2>4. ASSUME NEW r \in Requests, AllocateFulfillment(r) PROVE Keeps(q)
    <3>1. CASE tx[r].quote = q
      <4>1. order[q].allocated = Nothing
        BY <1>1, <2>4, <3>1, NoOrderFacts
           DEF IInv, PlannedAlone, Planned, AllocateFulfillment, Allocate
      <4>2. order'[q].allocated = tx[r].plan
        BY <2>0, <2>4, <3>1 DEF AllocateFulfillment, Allocate
      <4> QED
        BY <2>0, <4>1, <4>2, QuantityKeeps
    <3>2. CASE tx[r].quote # q
      <4>1. order'[q] = order[q]
        BY <2>0, <2>4, <3>2 DEF AllocateFulfillment, Allocate
      <4> QED
        BY <2>0, <4>1, QuantityKeeps
    <3> QED
      BY <3>1, <3>2
  <2>5. ASSUME NEW r \in Requests, FinishConsolidation(r) PROVE Keeps(q)
    <3>1. CASE tx[r].quote = q
      <4> DEFINE a == Plus(order[q].allocated, tx[r].held)
                 st == OrderStatus(tx[r].back)
                 o == [order[q] EXCEPT !.status = st, !.allocated = a, !.back = tx[r].back]
      <4>1. order'[q] = o
        BY <2>0, <2>5, <3>1 DEF FinishConsolidation, Consolidate, WithHeld
      <4>2. o.allocated = a
        <5>1. st \in {"allocated", "backordered"} /\ a \in Quantities
          BY <2>0, OrderStatusFacts, QuantityFacts
        <5>2. OrderParts(order[q])
          BY <1>1 DEF IInv, Shapes
        <5> HIDE DEF a, st
        <5> QED
          BY <5>1, <5>2 DEF OrderParts, OrderStatuses
      <4> HIDE DEF o
      <4> QED
        BY <2>0, <4>1, <4>2, PlusKeeps
    <3>2. CASE tx[r].quote # q
      <4>1. order'[q] = order[q]
        BY <2>0, <2>5, <3>2 DEF FinishConsolidation, Consolidate
      <4> QED
        BY <2>0, <4>1, QuantityKeeps
    <3> QED
      BY <3>1, <3>2
  <2>6. \/ order' = order
        \/ \E p \in Quotes : \/ \E take : ManualOverride(p, take)
                             \/ ShipFulfillment(p)
        \/ \E r \in Requests : AllocateFulfillment(r) \/ FinishConsolidation(r)
    BY <1>1 DEF Next, vars, CreateRevision, SubmitQuotation, ClearQuote, PlanAllocation,
       LockOrder, SuggestMore, ReserveMore, RequestFails, FindNoStock, UpsertStock,
       AdjustStock
  <2> QED
    BY <2>1, <2>2, <2>3, <2>4, <2>5, <2>6
<1>2. IInv /\ [Next]_vars => [\A q \in Quotes : Keeps(q)]_vars
  BY <1>1
<1> QED
  BY <1>2, Invariant, PTL DEF Spec, PromisesKept

-----------------------------------------------------------------------------
(***************************************************************************)
(* The stock.  At most one request holds an inventory row, so no sum over  *)
(* the requests is needed to say that nothing is reserved that is not      *)
(* there; StockSuffices, below, says it with the sum.                      *)
(***************************************************************************)

\* An inventory row is held by one transaction at a time, and what is reserved,
\* with what that transaction has reserved and not committed, is on hand.
StockInv ==
  /\ reserved \in Quantities
  /\ onHand \in Quantities
  /\ \A r \in Requests, w \in Warehouses :
       tx[r].held[w] > 0 => \A s \in Requests \ {r} : tx[s].held[w] = 0
  /\ \A r \in Requests, w \in Warehouses : reserved[w] + tx[r].held[w] <= onHand[w]
  /\ \A w \in Warehouses : reserved[w] <= onHand[w]

\* What a transaction holds is a quantity of each warehouse.
LEMMA HeldFacts ==
  ASSUME IInv, NEW r \in Requests
  PROVE  /\ tx[r].held \in Quantities /\ tx[r].plan \in Quantities
         /\ \A w \in Warehouses : tx[r].held[w] \in Nat /\ tx[r].plan[w] \in Nat
BY DEF IInv, Shapes, TxParts, Quantities

\* The transactions hold what they held, or nothing any more.
LEMMA SameStock ==
  ASSUME IInv, IInv', StockInv, UNCHANGED <<reserved, onHand>>,
         \A r \in Requests : tx'[r].held = tx[r].held \/ tx'[r].held = Nothing
  PROVE  StockInv'
<1>1. \A r \in Requests, w \in Warehouses :
        /\ tx[r].held[w] \in Nat
        /\ tx'[r].held[w] = tx[r].held[w] \/ tx'[r].held[w] = 0
  BY HeldFacts DEF Nothing
<1>2. \A w \in Warehouses : reserved[w] \in Nat /\ onHand[w] \in Nat
  BY DEF StockInv, Quantities
<1> QED
  BY <1>1, <1>2 DEF StockInv

\* A transaction that has reserved takes, at each warehouse, from what nobody
\* else holds and what is there.
LEMMA ReserveStock ==
  ASSUME IInv, StockInv, NEW r \in Requests, CanReserve(r, tx[r].plan)
  PROVE  \A w \in Warehouses :
           /\ reserved[w] + tx[r].held[w] + tx[r].plan[w] <= onHand[w]
           /\ tx[r].plan[w] > 0 => \A s \in Requests \ {r} : tx[s].held[w] = 0
<1> SUFFICES ASSUME NEW w \in Warehouses
             PROVE  /\ reserved[w] + tx[r].held[w] + tx[r].plan[w] <= onHand[w]
                    /\ tx[r].plan[w] > 0 => \A s \in Requests \ {r} : tx[s].held[w] = 0
  OBVIOUS
<1>1. /\ reserved[w] \in Nat /\ onHand[w] \in Nat
      /\ tx[r].held[w] \in Nat /\ tx[r].plan[w] \in Nat
      /\ reserved[w] + tx[r].held[w] <= onHand[w]
  BY HeldFacts DEF StockInv, Quantities
<1>2. CASE tx[r].plan[w] > 0
  BY <1>1, <1>2 DEF CanReserve, Used, StockFree
<1>3. CASE tx[r].plan[w] = 0
  BY <1>1, <1>3
<1> QED
  BY <1>1, <1>2, <1>3

\* Committing an allocation turns its plan into reservations.
LEMMA AllocateStock ==
  ASSUME IInv, StockInv, NEW r \in Requests, AllocateFulfillment(r)
  PROVE  StockInv'
<1>1. /\ CanReserve(r, tx[r].plan) /\ UNCHANGED onHand
      /\ reserved' = Plus(reserved, tx[r].plan)
      /\ tx' = [tx EXCEPT ![r] = Idle]
  BY DEF AllocateFulfillment, Allocate, End
<1>2. \A s \in Requests : tx'[s] = IF s = r THEN Idle ELSE tx[s]
  BY <1>1 DEF IInv, Shapes
<1>3. reserved' \in Quantities /\ onHand' \in Quantities
  BY <1>1, HeldFacts, QuantityFacts DEF StockInv
<1>4. \A w \in Warehouses :
        /\ reserved'[w] = reserved[w] + tx[r].plan[w]
        /\ reserved[w] \in Nat /\ onHand[w] \in Nat
        /\ \A s \in Requests : tx[s].held[w] \in Nat /\ tx[s].plan[w] \in Nat
        /\ Idle.held[w] = 0
  BY <1>1, HeldFacts DEF StockInv, Quantities, Plus, Idle, Nothing
<1>5. \A w \in Warehouses :
        /\ reserved[w] + tx[r].held[w] + tx[r].plan[w] <= onHand[w]
        /\ tx[r].plan[w] > 0 => \A s \in Requests \ {r} : tx[s].held[w] = 0
  BY <1>1, ReserveStock
<1> QED
  BY <1>1, <1>2, <1>3, <1>4, <1>5 DEF StockInv

\* Consolidation reserves more, first in its own transaction ...
LEMMA ReserveMoreStock ==
  ASSUME IInv, StockInv, NEW r \in Requests, ReserveMore(r)
  PROVE  StockInv'
<1> DEFINE back == tx[r].back - Total(tx[r].plan)
           pc == IF back = 0 THEN "closing" ELSE "consolidating"
           held == Plus(tx[r].held, tx[r].plan)
           t == [tx[r] EXCEPT !.pc = pc, !.plan = Nothing, !.held = held, !.back = back]
<1>1. CanReserve(r, tx[r].plan) /\ UNCHANGED <<reserved, onHand>>
      /\ tx' = [tx EXCEPT ![r] = t]
  BY DEF ReserveMore, stockVars
<1>2. t.held = held
  <2>1. TxParts(tx[r])
    BY DEF IInv, Shapes
  <2> HIDE DEF back, pc, held
  <2> QED
    BY <2>1 DEF TxParts
<1>3. \A w \in Warehouses :
        /\ held[w] = tx[r].held[w] + tx[r].plan[w]
        /\ reserved[w] \in Nat /\ onHand[w] \in Nat
        /\ \A s \in Requests : tx[s].held[w] \in Nat /\ tx[s].plan[w] \in Nat
  BY HeldFacts DEF StockInv, Quantities, Plus
<1> HIDE DEF t, held
<1>4. \A s \in Requests : tx'[s] = IF s = r THEN t ELSE tx[s]
  BY <1>1 DEF IInv, Shapes
<1>5. \A w \in Warehouses :
        /\ reserved[w] + tx[r].held[w] + tx[r].plan[w] <= onHand[w]
        /\ tx[r].plan[w] > 0 => \A s \in Requests \ {r} : tx[s].held[w] = 0
  BY <1>1, ReserveStock
<1> QED
  BY <1>1, <1>2, <1>3, <1>4, <1>5 DEF StockInv

\* ... then for everybody, when it commits.
LEMMA FinishStock ==
  ASSUME IInv, StockInv, NEW r \in Requests, FinishConsolidation(r)
  PROVE  StockInv'
<1>1. /\ reserved' = Plus(reserved, tx[r].held) /\ UNCHANGED onHand
      /\ tx' = [tx EXCEPT ![r] = Idle]
  BY DEF FinishConsolidation, Consolidate, End
<1>2. \A s \in Requests : tx'[s] = IF s = r THEN Idle ELSE tx[s]
  BY <1>1 DEF IInv, Shapes
<1>3. reserved' \in Quantities /\ onHand' \in Quantities
  BY <1>1, HeldFacts, QuantityFacts DEF StockInv
<1>4. \A w \in Warehouses :
        /\ reserved'[w] = reserved[w] + tx[r].held[w]
        /\ reserved[w] \in Nat /\ onHand[w] \in Nat
        /\ \A s \in Requests : tx[s].held[w] \in Nat
        /\ Idle.held[w] = 0
  BY <1>1, HeldFacts DEF StockInv, Quantities, Plus, Idle, Nothing
<1> QED
  BY <1>1, <1>2, <1>3, <1>4 DEF StockInv

\* An override releases what the order had and reserves from rows nobody holds.
LEMMA OverrideStock ==
  ASSUME IInv, StockInv, NEW q \in Quotes, NEW take \in [Warehouses -> 0..MaxWanted],
         ManualOverride(q, take)
  PROVE  StockInv'
<1> DEFINE released == Released(order[q].allocated)
<1>1. /\ reserved' = Plus(released, take) /\ UNCHANGED <<onHand, tx>>
      /\ \A w \in Used(take) :
           ~StockLocked(w) /\ take[w] <= onHand[w] - released[w]
  BY DEF ManualOverride, Override
<1>2. \A w \in Warehouses :
        /\ reserved[w] \in Nat /\ onHand[w] \in Nat /\ take[w] \in Nat
        /\ order[q].allocated[w] \in Nat
        /\ \A s \in Requests : tx[s].held[w] \in Nat
  BY HeldFacts, BoundsAssumption
     DEF StockInv, IInv, Shapes, OrderParts, Quantities
<1>3. released \in Quantities /\ \A w \in Warehouses : released[w] <= reserved[w]
  BY <1>2 DEF Released, Quantities
<1> HIDE DEF released
<1>4. /\ take \in Quantities /\ reserved' \in Quantities
      /\ \A w \in Warehouses : reserved'[w] = released[w] + take[w] /\ released[w] \in Nat
  BY <1>1, <1>2, <1>3, QuantityFacts DEF Quantities, Plus
<1>5. \A w \in Warehouses :
        \/ take[w] = 0
        \/ /\ \A s \in Requests : tx[s].held[w] = 0
           /\ reserved'[w] <= onHand[w]
  BY <1>1, <1>2, <1>4 DEF Used, StockLocked
<1> QED
  BY <1>1, <1>2, <1>3, <1>4, <1>5 DEF StockInv

\* What leaves was reserved, and nobody holds its row.
LEMMA ShipStock ==
  ASSUME IInv, StockInv, NEW q \in Quotes, ShipFulfillment(q)
  PROVE  StockInv'
<1> DEFINE going == order[q].allocated
<1>1. /\ onHand' = Minus(onHand, going) /\ reserved' = Minus(reserved, going)
      /\ UNCHANGED tx
      /\ \A w \in Used(going) : onHand[w] >= going[w] /\ reserved[w] >= going[w]
  BY DEF ShipFulfillment, Ship
<1>2. \A w \in Warehouses :
        /\ reserved[w] \in Nat /\ onHand[w] \in Nat /\ going[w] \in Nat
        /\ \A s \in Requests : tx[s].held[w] \in Nat
  BY HeldFacts DEF StockInv, IInv, Shapes, OrderParts, Quantities
<1> HIDE DEF going
<1>3. \A w \in Warehouses : onHand[w] >= going[w] /\ reserved[w] >= going[w]
  BY <1>1, <1>2 DEF Used
<1>4. /\ reserved' \in Quantities /\ onHand' \in Quantities
      /\ \A w \in Warehouses : /\ reserved'[w] = reserved[w] - going[w]
                               /\ onHand'[w] = onHand[w] - going[w]
  BY <1>1, <1>2, <1>3 DEF Minus, Quantities
<1> QED
  BY <1>1, <1>2, <1>4 DEF StockInv

\* The stock of one warehouse is corrected, not below what is reserved there,
\* while nobody holds its row.
LEMMA CorrectStock ==
  ASSUME IInv, StockInv, NEW w \in Warehouses, ~StockLocked(w),
         NEW n \in Int, reserved[w] <= n, onHand' = [onHand EXCEPT ![w] = n],
         UNCHANGED reserved,
         \A r \in Requests : tx'[r].held = tx[r].held \/ tx'[r].held = Nothing
  PROVE  StockInv'
<1>1. \A v \in Warehouses : reserved[v] \in Nat /\ onHand[v] \in Nat
  BY DEF StockInv, Quantities
<1>2. /\ onHand' \in Quantities
      /\ \A v \in Warehouses : onHand'[v] = IF v = w THEN n ELSE onHand[v]
  BY <1>1 DEF StockInv, Quantities
<1>3. \A r \in Requests, v \in Warehouses :
        /\ tx[r].held[v] \in Nat
        /\ tx'[r].held[v] = tx[r].held[v] \/ tx'[r].held[v] = 0
        /\ tx[r].held[w] = 0
  BY HeldFacts DEF Nothing, StockLocked
<1> QED
  BY <1>1, <1>2, <1>3 DEF StockInv

\* Every step keeps the stock above its reservations.
LEMMA StockStep == IInv /\ IInv' /\ StockInv /\ [Next]_vars => StockInv'
<1> SUFFICES ASSUME IInv, IInv', StockInv, [Next]_vars PROVE StockInv'
  OBVIOUS
<1> USE DEF stockVars
<1>0. ASSUME NEW r \in Requests, NEW t, tx' = [tx EXCEPT ![r] = t],
             t.held = tx[r].held \/ t.held = Nothing
      PROVE  \A s \in Requests : tx'[s].held = tx[s].held \/ tx'[s].held = Nothing
  BY <1>0 DEF IInv, Shapes
<1>1. CASE UNCHANGED <<reserved, onHand, tx>>
  BY <1>1, SameStock
<1>2. ASSUME NEW q \in Quotes, NEW take \in [Warehouses -> 0..MaxWanted],
             ManualOverride(q, take)
      PROVE StockInv'
  BY <1>2, OverrideStock
<1>3. ASSUME NEW q \in Quotes, ShipFulfillment(q) PROVE StockInv'
  BY <1>3, ShipStock
<1>4. ASSUME NEW r \in Requests, NEW q \in Quotes,
             PlanAllocation(r, q) \/ LockOrder(r, q)
      PROVE StockInv'
  <2>1. UNCHANGED <<reserved, onHand>>
    BY <1>4 DEF PlanAllocation, LockOrder
  <2>2. CASE PlanAllocation(r, q)
    <3>1. PICK take : Begin(r, [pc |-> "planned", quote |-> q, plan |-> take,
                                held |-> Nothing, back |-> Wanted(q) - Total(take)])
      BY <2>2 DEF PlanAllocation
    <3> DEFINE t == [pc |-> "planned", quote |-> q, plan |-> take,
                     held |-> Nothing, back |-> Wanted(q) - Total(take)]
    <3>2. t.held = Nothing /\ tx' = [tx EXCEPT ![r] = t]
      BY <3>1 DEF Begin
    <3> HIDE DEF t
    <3> QED
      BY <1>0, <2>1, <3>2, SameStock
  <2>3. CASE LockOrder(r, q)
    <3> DEFINE t == [pc |-> "consolidating", quote |-> q, plan |-> Nothing,
                     held |-> Nothing, back |-> order[q].back]
    <3>1. t.held = Nothing /\ tx' = [tx EXCEPT ![r] = t]
      BY <2>3 DEF LockOrder, Begin
    <3> HIDE DEF t
    <3> QED
      BY <1>0, <2>1, <3>1, SameStock
  <2> QED
    BY <1>4, <2>2, <2>3
<1>5. ASSUME NEW r \in Requests, SuggestMore(r) PROVE StockInv'
  <2>1. PICK pc, take : tx' = [tx EXCEPT ![r] = [tx[r] EXCEPT !.pc = pc, !.plan = take]]
    BY <1>5 DEF SuggestMore
  <2>2. [tx[r] EXCEPT !.pc = pc, !.plan = take].held = tx[r].held
    BY DEF IInv, Shapes, TxParts
  <2>3. UNCHANGED <<reserved, onHand>>
    BY <1>5 DEF SuggestMore
  <2> QED
    BY <1>0, <2>1, <2>2, <2>3, SameStock
<1>6. ASSUME NEW r \in Requests, NEW w \in Warehouses, NEW delta \in 1..MaxStock,
             FindNoStock(r, w, delta)
      PROVE StockInv'
  <2>1. PICK plan : Begin(r, [Idle EXCEPT !.pc = "adjusting", !.plan = plan])
    BY <1>6 DEF FindNoStock
  <2>2. [Idle EXCEPT !.pc = "adjusting", !.plan = plan].held = Nothing
    BY DEF Idle
  <2>3. UNCHANGED <<reserved, onHand>>
    BY <1>6 DEF FindNoStock
  <2> QED
    BY <1>0, <2>1, <2>2, <2>3, SameStock DEF Begin
<1>7. Idle.held = Nothing
  BY DEF Idle
<1>8. ASSUME NEW r \in Requests, RequestFails(r) PROVE StockInv'
  BY <1>0, <1>7, <1>8, SameStock DEF RequestFails, End
<1>9. ASSUME NEW r \in Requests, UpsertStock(r) PROVE StockInv'
  <2>1. PICK w \in Used(tx[r].plan) :
          /\ ~StockLocked(w) /\ reserved[w] <= tx[r].plan[w]
          /\ onHand' = [onHand EXCEPT ![w] = tx[r].plan[w]]
          /\ End(r) /\ UNCHANGED reserved
    BY <1>9 DEF UpsertStock
  <2>2. w \in Warehouses /\ tx[r].plan[w] \in Int
    BY HeldFacts DEF Used
  <2> QED
    BY <1>0, <1>7, <2>1, <2>2, CorrectStock DEF End
<1>10. ASSUME NEW w \in Warehouses, NEW delta \in Deltas, AdjustStock(w, delta)
       PROVE StockInv'
  <2>1. /\ ~StockLocked(w) /\ reserved[w] <= onHand[w] + delta
        /\ onHand' = [onHand EXCEPT ![w] = onHand[w] + delta]
        /\ UNCHANGED <<reserved, tx>>
    BY <1>10 DEF AdjustStock, StockInv, Quantities, Deltas
  <2>2. onHand[w] + delta \in Int
    BY BoundsAssumption DEF StockInv, Quantities, Deltas
  <2> QED
    BY <2>1, <2>2, CorrectStock
<1>11. CASE \E q \in Quotes : \/ \E n \in 0..MaxWanted : CreateRevision(q, n)
                              \/ SubmitQuotation(q) \/ ClearQuote(q)
  BY <1>1, <1>11 DEF CreateRevision, SubmitQuotation, ClearQuote
<1>12. CASE UNCHANGED vars
  BY <1>1, <1>12 DEF vars
<1> QED
  BY <1>2, <1>3, <1>4, <1>5, <1>6, <1>8, <1>9, <1>10, <1>11, <1>12,
     AllocateStock, ReserveMoreStock, FinishStock DEF Next

\* However many allocations plan on the same stock, and whatever overrides,
\* consolidations, shipments and adjustments run beside them, nothing is
\* reserved that is not on hand.
THEOREM NeverOverAllocates == Spec => []StockInv
<1>1. Init => StockInv
  BY IdleFacts DEF Init, StockInv, Nothing, Quantities, Idle
<1> QED
  BY <1>1, StockStep, Invariant, PTL DEF Spec

-----------------------------------------------------------------------------
(***************************************************************************)
(* The books.  Of each order the allocated, backordered and shipped        *)
(* quantities add up, over the warehouses, to the line; of each warehouse  *)
(* the reserved quantity is the sum, over the orders, of the allocated.    *)
(***************************************************************************)

\* A plan and what it leaves backordered add up to the line; what a
\* consolidation has taken and what it leaves add up to the backorder, which is
\* still the order's, and it takes no more than is left.
TxAddsUp(t) ==
  /\ t.pc = "planned" => Total(t.plan) + t.back = Wanted(t.quote)
  /\ t.pc \in Consolidating =>
       Total(t.held) + t.back = order[t.quote].back /\ order[t.quote].back > 0
  /\ t.pc = "suggested" => Total(t.plan) <= t.back

TransactionsAddUp == \A r \in Requests : TxAddsUp(tx[r])

\* Books of one order: it is for a version the quotation has had, and nothing
\* is shipped until everything is.
OrderAddsUp(q, o) ==
  /\ o.version <= quote[q].version
  /\ o.status = "backordered" <=> o.back > 0
  /\ o.status # "shipped" => o.shipped = Nothing
  /\ o.status # "none" =>
       /\ o.version \in Versions
       /\ Total(o.allocated) + o.back + Total(o.shipped) = lines[q][o.version]

BooksInv ==
  /\ TypeOK
  /\ \A q \in Quotes : OrderAddsUp(q, order[q])
  /\ TransactionsAddUp
  /\ ReservedIsAllocated

\* The total of a quantity is a sum over the warehouses.
LEMMA TotalFacts ==
  ASSUME NEW f \in Quantities
  PROVE  /\ Total(f) = SumFunctionOnSet(f, Warehouses)
         /\ Total(f) \in Nat
<1>1. DOMAIN f = Warehouses /\ \A w \in Warehouses : f[w] \in Int /\ f[w] >= 0
  BY DEF Quantities
<1>2. Total(f) = SumFunctionOnSet(f, Warehouses)
  BY <1>1 DEF Total, SumFunction
<1>3. /\ SumFunctionOnSet(f, Warehouses) \in Int
      /\ SumFunctionOnSet(f, Warehouses) >= 0
  BY <1>1, SumType, FinitenessAssumption
<1> QED
  BY <1>2, <1>3

\* Nothing adds up to nothing.
LEMMA TotalNothing == Total(Nothing) = 0
<1>1. Total(Nothing) = SumFunctionOnSet(Nothing, Warehouses)
  BY TotalFacts, QuantityFacts
<1>2. \A w \in Warehouses : Nothing[w] = 0
  BY DEF Nothing
<1> QED
  BY <1>1, <1>2, SumZeros, FinitenessAssumption

\* The total of two quantities together.
LEMMA TotalPlus ==
  ASSUME NEW f \in Quantities, NEW g \in Quantities
  PROVE  Total(Plus(f, g)) = Total(f) + Total(g)
<1>1. \A w \in Warehouses :
        f[w] \in Int /\ g[w] \in Int /\ Plus(f, g)[w] = f[w] + g[w]
  BY DEF Quantities, Plus
<1>2. SumFunctionOnSet(Plus(f, g), Warehouses)
        = SumFunctionOnSet(f, Warehouses) + SumFunctionOnSet(g, Warehouses)
  BY <1>1, SumPlus, FinitenessAssumption
<1> QED
  BY <1>2, TotalFacts, QuantityFacts

\* What each order has allocated at a warehouse.
AllocatedAt(orders, w) == [q \in Quotes |-> orders[q].allocated[w]]

\* It is a sum over the quotations, of which each order is a part.
LEMMA AllocatedFacts ==
  ASSUME NEW orders \in [Quotes -> Order], NEW w \in Warehouses
  PROVE  LET f == AllocatedAt(orders, w)
         IN  /\ SumFunction(f) = SumFunctionOnSet(f, Quotes)
             /\ \A q \in Quotes : /\ f[q] = orders[q].allocated[w]
                                  /\ f[q] \in Nat /\ f[q] <= SumFunctionOnSet(f, Quotes)
<1> DEFINE f == AllocatedAt(orders, w)
<1>1. DOMAIN f = Quotes
  BY DEF AllocatedAt
<1>2. ASSUME NEW q \in Quotes PROVE f[q] \in Nat /\ f[q] = orders[q].allocated[w]
  BY DEF AllocatedAt, Order, Quantities
<1> HIDE DEF f
<1>3. SumFunction(f) = SumFunctionOnSet(f, Quotes)
  BY <1>1 DEF SumFunction
<1>4. \A q \in Quotes : f[q] <= SumFunctionOnSet(f, Quotes)
  BY <1>2, SumTerm, FinitenessAssumption
<1> QED
  BY <1>2, <1>3, <1>4 DEF f

\* It changes with the order that is rewritten, by what that order changes.
LEMMA OneOrderRewritten ==
  ASSUME NEW before \in [Quotes -> Order], NEW after \in [Quotes -> Order],
         NEW q \in Quotes, \A p \in Quotes \ {q} : after[p] = before[p],
         NEW w \in Warehouses
  PROVE  SumFunction(AllocatedAt(after, w)) =
           SumFunction(AllocatedAt(before, w))
             - before[q].allocated[w] + after[q].allocated[w]
<1> DEFINE f == AllocatedAt(before, w)
           g == AllocatedAt(after, w)
<1>1. /\ SumFunction(f) = SumFunctionOnSet(f, Quotes)
      /\ \A p \in Quotes : f[p] = before[p].allocated[w] /\ f[p] \in Nat
  BY AllocatedFacts
<1>2. /\ SumFunction(g) = SumFunctionOnSet(g, Quotes)
      /\ \A p \in Quotes : g[p] = after[p].allocated[w] /\ g[p] \in Nat
  BY AllocatedFacts
<1> HIDE DEF f, g
<1>3. /\ IsFiniteSet(Quotes)
      /\ \A p \in Quotes : f[p] \in Int /\ g[p] \in Int
      /\ \A p \in Quotes \ {q} : g[p] = f[p]
  BY <1>1, <1>2, FinitenessAssumption
<1>4. SumFunctionOnSet(g, Quotes) = SumFunctionOnSet(f, Quotes) - f[q] + g[q]
  BY <1>3, SumExcept
<1> QED
  BY <1>1, <1>2, <1>4 DEF f, g

\* One order is written, and the reservations with it; nobody who goes on
\* consolidates it.
LEMMA OrderBooks ==
  ASSUME IInv, BooksInv, TypeOK', NEW q \in Quotes, NEW o, OrderAddsUp(q, o),
         order' = [order EXCEPT ![q] = o], UNCHANGED lines,
         \A p \in Quotes : quote'[p].version = quote[p].version,
         \A w \in Warehouses :
           reserved'[w] = reserved[w] - order[q].allocated[w] + o.allocated[w],
         \A r \in Requests : tx'[r] = Idle \/ (tx'[r] = tx[r] /\ ~Consolidates(r, q))
  PROVE  BooksInv'
<1>1. \A p \in Quotes : order'[p] = IF p = q THEN o ELSE order[p]
  BY DEF BooksInv, TypeOK
<1>2. \A p \in Quotes : OrderAddsUp(p, order[p])'
  BY <1>1 DEF BooksInv, OrderAddsUp
<1>3. TransactionsAddUp'
  <2> SUFFICES ASSUME NEW r \in Requests PROVE TxAddsUp(tx[r])'
    BY DEF TransactionsAddUp
  <2>1. CASE tx'[r] = Idle
    BY <2>1 DEF TxAddsUp, Idle, Consolidating
  <2>2. CASE tx'[r] = tx[r] /\ ~Consolidates(r, q)
    <3>1. TxAddsUp(tx[r])
      BY DEF BooksInv, TransactionsAddUp
    <3>2. /\ tx[r].pc = "planned" => tx[r].quote \in Quotes
          /\ tx[r].pc \in Consolidating => tx[r].quote \in Quotes /\ tx[r].quote # q
      BY <2>2 DEF IInv, AboutQuotes, Consolidates
    <3>3. tx[r].pc = "planned" => Wanted(tx[r].quote)' = Wanted(tx[r].quote)
      BY <2>2, <3>2 DEF Wanted
    <3>4. tx[r].pc \in Consolidating => order'[tx[r].quote] = order[tx[r].quote]
      BY <1>1, <3>2
    <3> QED
      BY <2>2, <3>1, <3>3, <3>4 DEF TxAddsUp
  <2> QED
    BY <2>1, <2>2
<1>4. ReservedIsAllocated'
  <2> SUFFICES ASSUME NEW w \in Warehouses
               PROVE  reserved'[w] = SumFunction(AllocatedAt(order', w))
    BY DEF ReservedIsAllocated, AllocatedAt
  <2>1. order \in [Quotes -> Order] /\ order' \in [Quotes -> Order]
    BY DEF BooksInv, TypeOK
  <2>2. /\ reserved[w] = SumFunction(AllocatedAt(order, w))
        /\ reserved[w] \in Int /\ order[q].allocated[w] \in Int
    BY DEF BooksInv, ReservedIsAllocated, AllocatedAt, TypeOK, Quantities, Order
  <2>3. SumFunction(AllocatedAt(order', w)) =
          SumFunction(AllocatedAt(order, w)) - order[q].allocated[w] + o.allocated[w]
    <3>1. order'[q] = o /\ \A p \in Quotes \ {q} : order'[p] = order[p]
      BY <1>1
    <3> DEFINE after == order'
    <3>2. after \in [Quotes -> Order] /\ \A p \in Quotes \ {q} : after[p] = order[p]
      BY <2>1, <3>1
    <3> HIDE DEF after
    <3>3. SumFunction(AllocatedAt(after, w)) =
            SumFunction(AllocatedAt(order, w)) - order[q].allocated[w] + after[q].allocated[w]
      BY ONLY <2>1, <3>2, OneOrderRewritten, q \in Quotes, w \in Warehouses
    <3> QED
      BY <3>1, <3>3 DEF after
  <2> QED
    BY <2>2, <2>3
<1> QED
  BY <1>2, <1>3, <1>4 DEF BooksInv

\* Orders, lines and versions stay, and so do transactions unless they add up.
LEMMA SameBooks ==
  ASSUME BooksInv, TypeOK', IInv', UNCHANGED <<order, lines, reserved>>,
         \A p \in Quotes : quote'[p].version = quote[p].version,
         \A r \in Requests : tx'[r] = tx[r] \/ TxAddsUp(tx'[r])
  PROVE  BooksInv'
<1>1. \A p \in Quotes : OrderAddsUp(p, order[p])'
  BY DEF BooksInv, OrderAddsUp
<1>2. TransactionsAddUp'
  <2> SUFFICES ASSUME NEW r \in Requests PROVE TxAddsUp(tx[r])'
    BY DEF TransactionsAddUp
  <2>1. TxAddsUp(tx'[r])
    BY DEF BooksInv, TransactionsAddUp
  <2>2. tx'[r].pc = "planned" => tx'[r].quote \in Quotes
    BY DEF IInv, AboutQuotes
  <2>3. tx'[r].pc = "planned" => Wanted(tx[r].quote)' = Wanted(tx'[r].quote)
    BY <2>2 DEF Wanted
  <2> QED
    BY <2>1, <2>3 DEF TxAddsUp
<1>3. ReservedIsAllocated'
  BY DEF BooksInv, ReservedIsAllocated
<1> QED
  BY <1>1, <1>2, <1>3 DEF BooksInv

\* No transaction, nothing to add up.
LEMMA IdleAddsUp == TxAddsUp(Idle) /\ Idle \in Tx
BY QuantityFacts DEF TxAddsUp, Idle, Consolidating, Tx

\* A plan takes no more than is wanted.
LEMMA SplitTotals ==
  ASSUME NEW available, NEW wanted \in Nat, NEW take \in Splits(available, wanted)
  PROVE  /\ take \in Quantities /\ Total(take) \in Nat /\ Total(take) <= wanted
         /\ wanted - Total(take) \in Nat
<1>1. take \in Quantities /\ Total(take) \in Nat
  BY SplitsAreQuantities, TotalFacts
<1>2. Total(take) <= wanted
  BY DEF Splits
<1> QED
  BY <1>1, <1>2

\* The line of the current version is a quantity.
LEMMA WantedFacts ==
  ASSUME TypeOK, NEW q \in Quotes
  PROVE  Wanted(q) \in Nat /\ quote[q].version \in Versions
BY DEF TypeOK, Wanted

\* A revision adds a line; no plan is about the one before, no order about it.
LEMMA RevisionBooks ==
  ASSUME IInv, BooksInv, StockInv, NEW q \in Quotes, NEW n \in 0..MaxWanted, CreateRevision(q, n)
  PROVE  BooksInv'
<1> USE DEF stockVars
<1> DEFINE v == quote[q].version + 1
           ages == [p \in Quotes |-> quote[p].version - 1]
<1>1. \A p \in Quotes : ages[p] \in Int /\ ages[p] >= 0
  BY BoundsAssumption DEF BooksInv, TypeOK, Versions
<1>2. SumFunction(ages) < MaxRevisions /\ SumFunction(ages) = SumFunctionOnSet(ages, Quotes)
  BY DEF CreateRevision, SumFunction
<1>3. ages[q] < MaxRevisions
  <2> HIDE DEF ages
  <2>1. ages[q] <= SumFunctionOnSet(ages, Quotes) /\ SumFunctionOnSet(ages, Quotes) \in Int
    BY <1>1, SumTerm, SumType, FinitenessAssumption
  <2> QED
    BY <1>1, <1>2, <2>1, BoundsAssumption
<1>4. v \in Versions /\ quote[q].version \in Nat
  BY <1>3, BoundsAssumption DEF BooksInv, TypeOK, Versions
<1>5. /\ quote' = [quote EXCEPT ![q] = [status |-> "open", version |-> v]]
      /\ lines' = [lines EXCEPT ![q][v] = n]
      /\ UNCHANGED <<order, invoices, rows, onHand, reserved, adjusted, tx>>
      /\ ~QuoteLocked(q)
  BY DEF CreateRevision
<1> HIDE DEF v, ages
<1>6. quote' \in [Quotes -> [status : QuoteStatuses, version : Versions]]
  BY <1>4, <1>5 DEF BooksInv, TypeOK, QuoteStatuses
<1>7. lines' \in [Quotes -> [Versions -> Nat]]
  BY <1>4, <1>5, BoundsAssumption DEF BooksInv, TypeOK
<1>8. TypeOK'
  BY <1>5, <1>6, <1>7 DEF BooksInv, TypeOK
<1>9. \A p \in Quotes : OrderAddsUp(p, order[p])'
  <2> SUFFICES ASSUME NEW p \in Quotes PROVE OrderAddsUp(p, order[p])'
    OBVIOUS
  <2>1. OrderAddsUp(p, order[p])
    BY DEF BooksInv
  <2>2. quote[p].version <= quote'[p].version
    BY <1>4, <1>5 DEF BooksInv, TypeOK, Versions, v
  <2>3. order[p].version <= quote'[p].version
    <3>1. order[p].version \in Int
      BY BoundsAssumption DEF BooksInv, TypeOK, Order, Versions
    <3>2. \A x \in Versions : x \in Int
      BY BoundsAssumption DEF Versions
    <3>3. quote[p].version \in Versions
      BY DEF BooksInv, TypeOK
    <3>4. quote'[p].version \in Versions
      BY <1>6
    <3>5. quote[p].version \in Int /\ quote'[p].version \in Int
      BY <3>2, <3>3, <3>4
    <3> QED
      BY <2>1, <2>2, <3>1, <3>5 DEF OrderAddsUp
  <2>4. order[p].status # "none" => lines'[p][order[p].version] = lines[p][order[p].version]
    BY <1>4, <1>5, <2>1 DEF OrderAddsUp, BooksInv, TypeOK, v, Versions
  <2> QED
    BY <1>5, <2>1, <2>3, <2>4 DEF OrderAddsUp
<1>10. TransactionsAddUp'
  <2> SUFFICES ASSUME NEW r \in Requests PROVE TxAddsUp(tx[r])'
    BY DEF TransactionsAddUp
  <2>1. TxAddsUp(tx[r])
    BY DEF BooksInv, TransactionsAddUp
  <2>2. tx[r].pc = "planned" => tx[r].quote \in Quotes /\ tx[r].quote # q
    BY <1>5 DEF IInv, AboutQuotes, QuoteLocked
  <2>3. tx[r].pc = "planned" => Wanted(tx[r].quote)' = Wanted(tx[r].quote)
    BY <1>5, <2>2 DEF Wanted, BooksInv, TypeOK
  <2> QED
    BY <1>5, <2>1, <2>3 DEF TxAddsUp
<1>11. ReservedIsAllocated'
  BY <1>5 DEF BooksInv, ReservedIsAllocated
<1> QED
  BY <1>8, <1>9, <1>10, <1>11 DEF BooksInv

\* The quotation's status moves.
LEMMA StatusBooks ==
  ASSUME BooksInv, IInv', NEW q \in Quotes, SubmitQuotation(q) \/ ClearQuote(q)
  PROVE  BooksInv'
<1> USE DEF stockVars
<1>1. PICK s \in QuoteStatuses :
        /\ quote' = [quote EXCEPT ![q].status = s]
        /\ UNCHANGED <<lines, order, invoices, rows, onHand, reserved, adjusted, tx>>
  BY DEF SubmitQuotation, ClearQuote, QuoteStatuses
<1>2. /\ quote' \in [Quotes -> [status : QuoteStatuses, version : Versions]]
      /\ \A p \in Quotes : quote'[p].version = quote[p].version
  BY <1>1 DEF BooksInv, TypeOK
<1>3. TypeOK'
  BY <1>1, <1>2 DEF BooksInv, TypeOK
<1> QED
  BY <1>1, <1>2, <1>3, SameBooks

\* A transaction begins, goes on or ends, and nothing is written.
LEMMA TxBooks ==
  ASSUME BooksInv, IInv', NEW r \in Requests, NEW t \in Tx, TxAddsUp(t),
         tx' = [tx EXCEPT ![r] = t], UNCHANGED <<quote, lines, order, invoices, stockVars>>
  PROVE  BooksInv'
<1> USE DEF stockVars
<1>1. /\ tx' \in [Requests -> Tx]
      /\ \A s \in Requests : tx'[s] = IF s = r THEN t ELSE tx[s]
  BY DEF BooksInv, TypeOK
<1>2. TypeOK'
  BY <1>1 DEF BooksInv, TypeOK
<1> QED
  BY <1>1, <1>2, SameBooks

\* A plan and its backorder are the line.
LEMMA PlanBooks ==
  ASSUME BooksInv, IInv', NEW r \in Requests, NEW q \in Quotes, PlanAllocation(r, q)
  PROVE  BooksInv'
<1>1. PICK take \in Splits(Available, Wanted(q)) :
        Begin(r, [pc |-> "planned", quote |-> q, plan |-> take, held |-> Nothing,
                  back |-> Wanted(q) - Total(take)])
  BY DEF PlanAllocation
<1> DEFINE back == Wanted(q) - Total(take)
           t == [pc |-> "planned", quote |-> q, plan |-> take, held |-> Nothing, back |-> back]
<1>2. Wanted(q) \in Nat
  BY WantedFacts DEF BooksInv
<1>3. /\ take \in Quantities /\ Total(take) \in Nat /\ back \in Nat
      /\ Total(take) + back = Wanted(q)
  BY <1>2, SplitTotals
<1>4. tx' = [tx EXCEPT ![r] = t] /\ UNCHANGED <<quote, lines, order, invoices, stockVars>>
  BY <1>1 DEF PlanAllocation, Begin
<1> HIDE DEF back
<1>5. t \in Tx /\ TxAddsUp(t)
  BY <1>3, QuantityFacts DEF Tx, TxAddsUp, Consolidating
<1> HIDE DEF t
<1> QED
  BY <1>4, <1>5, TxBooks

\* A consolidation starts with nothing taken.
LEMMA LockOrderBooks ==
  ASSUME BooksInv, IInv', NEW r \in Requests, NEW q \in Quotes, LockOrder(r, q)
  PROVE  BooksInv'
<1> DEFINE t == [pc |-> "consolidating", quote |-> q, plan |-> Nothing, held |-> Nothing,
                 back |-> order[q].back]
<1>1. tx' = [tx EXCEPT ![r] = t] /\ UNCHANGED <<quote, lines, order, invoices, stockVars>>
  BY DEF LockOrder, Begin
<1>2. order[q].back \in Nat /\ order[q].back > 0
  BY DEF LockOrder, BooksInv, TypeOK, Order
<1>3. t \in Tx /\ TxAddsUp(t)
  BY <1>2, QuantityFacts, TotalNothing DEF Tx, TxAddsUp, Consolidating
<1> HIDE DEF t
<1> QED
  BY <1>1, <1>3, TxBooks

\* It is suggested no more than is missing.
LEMMA SuggestBooks ==
  ASSUME BooksInv, IInv', NEW r \in Requests, SuggestMore(r)
  PROVE  BooksInv'
<1>1. PICK take \in Splits(Minus(Available, tx[r].held), tx[r].back) :
        tx' = [tx EXCEPT ![r] =
                 [tx[r] EXCEPT !.pc = IF take = Nothing THEN "closing" ELSE "suggested",
                               !.plan = take]]
  BY DEF SuggestMore
<1> DEFINE pc == IF take = Nothing THEN "closing" ELSE "suggested"
           t == [tx[r] EXCEPT !.pc = pc, !.plan = take]
<1>2. tx[r] \in Tx /\ TxAddsUp(tx[r]) /\ tx[r].pc = "consolidating"
  BY DEF SuggestMore, BooksInv, TypeOK, TransactionsAddUp
<1>3. take \in Quantities /\ Total(take) <= tx[r].back
  BY <1>2, SplitTotals DEF Tx
<1>4. tx' = [tx EXCEPT ![r] = t] /\ UNCHANGED <<quote, lines, order, invoices, stockVars>>
  BY <1>1 DEF SuggestMore
<1>5. pc \in {"closing", "suggested"}
  OBVIOUS
<1> HIDE DEF pc
<1>6. /\ t \in Tx /\ t.pc = pc /\ t.plan = take
      /\ t.held = tx[r].held /\ t.back = tx[r].back /\ t.quote = tx[r].quote
  BY <1>2, <1>3, <1>5 DEF Tx
<1> HIDE DEF t
<1>7. TxAddsUp(t)
  BY <1>2, <1>3, <1>5, <1>6 DEF TxAddsUp, Consolidating
<1> QED
  BY <1>4, <1>6, <1>7, TxBooks

\* What it takes is no longer missing.
LEMMA ReserveMoreBooks ==
  ASSUME BooksInv, IInv', NEW r \in Requests, ReserveMore(r)
  PROVE  BooksInv'
<1> DEFINE back == tx[r].back - Total(tx[r].plan)
           pc == IF back = 0 THEN "closing" ELSE "consolidating"
           held == Plus(tx[r].held, tx[r].plan)
           t == [tx[r] EXCEPT !.pc = pc, !.plan = Nothing, !.held = held, !.back = back]
<1>1. tx[r] \in Tx /\ TxAddsUp(tx[r]) /\ tx[r].pc = "suggested"
  BY DEF ReserveMore, BooksInv, TypeOK, TransactionsAddUp
<1>2. tx' = [tx EXCEPT ![r] = t] /\ UNCHANGED <<quote, lines, order, invoices, stockVars>>
  BY DEF ReserveMore
<1>3. /\ tx[r].held \in Quantities /\ tx[r].plan \in Quantities /\ tx[r].back \in Nat
      /\ held \in Quantities
  BY <1>1, QuantityFacts DEF Tx
<1>4. /\ Total(held) = Total(tx[r].held) + Total(tx[r].plan)
      /\ Total(tx[r].held) \in Nat /\ Total(tx[r].plan) \in Nat
  BY <1>3, TotalPlus, TotalFacts
<1>5. back \in Nat /\ Total(held) + back = order[tx[r].quote].back /\ order[tx[r].quote].back > 0
  BY <1>1, <1>3, <1>4 DEF TxAddsUp, Consolidating
<1>6. pc \in {"closing", "consolidating"}
  OBVIOUS
<1> HIDE DEF pc, back, held
<1>7. t \in Tx /\ t.pc = pc /\ t.held = held /\ t.back = back /\ t.quote = tx[r].quote
  BY <1>1, <1>3, <1>5, <1>6, QuantityFacts DEF Tx
<1> HIDE DEF t
<1>8. TxAddsUp(t)
  BY <1>5, <1>6, <1>7 DEF TxAddsUp, Consolidating
<1> QED
  BY <1>2, <1>7, <1>8, TxBooks

\* An adjustment has no part in the books.
LEMMA FindNoStockBooks ==
  ASSUME BooksInv, IInv', NEW r \in Requests, NEW w \in Warehouses, NEW delta \in 1..MaxStock,
         FindNoStock(r, w, delta)
  PROVE  BooksInv'
<1> DEFINE plan == [Nothing EXCEPT ![w] = delta]
           t == [Idle EXCEPT !.pc = "adjusting", !.plan = plan]
<1>1. tx' = [tx EXCEPT ![r] = t] /\ UNCHANGED <<quote, lines, order, invoices, stockVars>>
  BY DEF FindNoStock, Begin
<1>2. plan \in Quantities
  BY BoundsAssumption DEF Nothing, Quantities
<1> HIDE DEF plan
<1>3. t \in Tx /\ t.pc = "adjusting"
  BY <1>2, IdleAddsUp DEF Tx
<1> HIDE DEF t
<1>4. TxAddsUp(t)
  BY <1>3 DEF TxAddsUp, Consolidating
<1> QED
  BY <1>1, <1>3, <1>4, TxBooks

\* What the status of an order says about its backorder.
LEMMA StatusAddsUp ==
  ASSUME NEW back \in Nat
  PROVE  /\ OrderStatus(back) \in OrderStatuses \ {"none"}
         /\ OrderStatus(back) = "backordered" <=> back > 0
         /\ OrderStatus(back) # "shipped"
BY DEF OrderStatus, OrderStatuses

\* An order created or replaced for the current version.
LEMMA CurrentOrder ==
  ASSUME TypeOK, NEW q \in Quotes, NEW take \in Quantities, NEW back \in Nat,
         Total(take) + back = Wanted(q)
  PROVE  LET o == [status |-> OrderStatus(back), version |-> quote[q].version,
                   allocated |-> take, back |-> back, shipped |-> Nothing]
         IN o \in Order /\ OrderAddsUp(q, o)
<1> DEFINE st == OrderStatus(back)
           o == [status |-> st, version |-> quote[q].version,
                 allocated |-> take, back |-> back, shipped |-> Nothing]
<1>1. st \in OrderStatuses /\ (st = "backordered" <=> back > 0) /\ st # "shipped"
  BY StatusAddsUp
<1>2. quote[q].version \in Versions /\ quote[q].version \in Int
  BY WantedFacts, BoundsAssumption DEF Versions
<1> HIDE DEF st
<1>3. o \in Order
  BY <1>1, <1>2, QuantityFacts DEF Order
<1>4. Total(take) \in Nat /\ Wanted(q) = lines[q][quote[q].version]
  BY TotalFacts DEF Wanted
<1>5. OrderAddsUp(q, o)
  BY <1>1, <1>2, <1>4, TotalNothing DEF OrderAddsUp
<1> QED
  BY <1>3, <1>5 DEF st

\* The types, when an order is written and one transaction may end.
LEMMA OrderTypes ==
  ASSUME TypeOK, StockInv', NEW q \in Quotes, NEW o \in Order,
         order' = [order EXCEPT ![q] = o],
         UNCHANGED <<lines, rows, adjusted>>,
         quote' \in [Quotes -> [status : QuoteStatuses, version : Versions]],
         \/ invoices' = invoices
         \/ invoices' = [invoices EXCEPT ![q] = Append(@, quote[q].version)],
         \/ tx' = tx
         \/ \E r \in Requests : tx' = [tx EXCEPT ![r] = Idle]
  PROVE  TypeOK'
<1>1. order' \in [Quotes -> Order]
  BY DEF TypeOK
<1>2. invoices' \in [Quotes -> Seq(Versions)]
  <2>1. invoices[q] \in Seq(Versions) /\ quote[q].version \in Versions
    BY DEF TypeOK
  <2>2. Append(invoices[q], quote[q].version) \in Seq(Versions)
    BY <2>1
  <2> QED
    BY <2>2 DEF TypeOK
<1>3. tx' \in [Requests -> Tx]
  BY IdleAddsUp DEF TypeOK
<1> QED
  BY <1>1, <1>2, <1>3 DEF TypeOK, StockInv

\* The planned order is created, and its plan reserved.
LEMMA AllocateBooks ==
  ASSUME IInv, BooksInv, StockInv', NEW r \in Requests, AllocateFulfillment(r)
  PROVE  BooksInv'
<1>1. tx[r].pc = "planned" /\ tx' = [tx EXCEPT ![r] = Idle]
  BY DEF AllocateFulfillment, Allocate, End
<1>2. PICK q \in Quotes : q = tx[r].quote
  BY <1>1 DEF IInv, AboutQuotes
<1> DEFINE o == [status |-> OrderStatus(tx[r].back), version |-> quote[q].version,
                 allocated |-> tx[r].plan, back |-> tx[r].back, shipped |-> Nothing]
<1>3. /\ order' = [order EXCEPT ![q] = o] /\ UNCHANGED <<lines, rows, adjusted>>
      /\ reserved' = Plus(reserved, tx[r].plan)
      /\ quote' = [quote EXCEPT ![q].status = "in_fulfillment"]
      /\ \/ invoices' = invoices
         \/ invoices' = [invoices EXCEPT ![q] = Append(@, quote[q].version)]
  BY <1>2 DEF AllocateFulfillment, Allocate
<1>4. /\ tx[r].plan \in Quantities /\ tx[r].back \in Nat
      /\ Total(tx[r].plan) + tx[r].back = Wanted(q)
  BY <1>1, <1>2 DEF BooksInv, TypeOK, Tx, TransactionsAddUp, TxAddsUp
<1>5. o \in Order /\ OrderAddsUp(q, o) /\ o.allocated = tx[r].plan
  BY <1>4, CurrentOrder DEF BooksInv
<1> HIDE DEF o
<1>6. /\ quote' \in [Quotes -> [status : QuoteStatuses, version : Versions]]
      /\ \A p \in Quotes : quote'[p].version = quote[p].version
  <2>1. quote' = [quote EXCEPT ![q].status = "in_fulfillment"]
    BY <1>3
  <2> QED
    BY <2>1 DEF BooksInv, TypeOK, QuoteStatuses
<1>7. TypeOK'
  BY <1>1, <1>3, <1>5, <1>6, OrderTypes DEF BooksInv
<1>8. order[q].allocated = Nothing /\ \A s \in Requests : ~Consolidates(s, q)
  BY <1>1, <1>2, NoOrderFacts DEF IInv, PlannedAlone, Planned, ConsolidatesAlone
<1>9. \A w \in Warehouses :
        reserved'[w] = reserved[w] - order[q].allocated[w] + o.allocated[w]
  BY <1>3, <1>4, <1>5, <1>8 DEF Plus, Nothing, BooksInv, TypeOK, Quantities
<1>10. \A s \in Requests : tx'[s] = Idle \/ (tx'[s] = tx[s] /\ ~Consolidates(s, q))
  BY <1>1, <1>8 DEF BooksInv, TypeOK
<1> QED
  BY <1>3, <1>5, <1>6, <1>7, <1>9, <1>10, OrderBooks

\* The override's floor at zero is never reached: the other orders' allocations
\* stay reserved, this one's are released in full.
LEMMA OverrideBooks ==
  ASSUME IInv, BooksInv, StockInv', NEW q \in Quotes, NEW take \in [Warehouses -> 0..MaxWanted],
         ManualOverride(q, take)
  PROVE  BooksInv'
<1> DEFINE back == Wanted(q) - Total(take)
           o == [status |-> OrderStatus(back), version |-> quote[q].version,
                 allocated |-> take, back |-> back, shipped |-> Nothing]
<1>1. /\ ~OrderLocked(q) /\ Total(take) \in 1..Wanted(q)
      /\ order' = [order EXCEPT ![q] = o]
      /\ UNCHANGED <<quote, lines, invoices, rows, adjusted, tx>>
      /\ reserved' = Plus(Released(order[q].allocated), take)
  BY DEF ManualOverride, Override
<1>2. take \in Quantities /\ Wanted(q) \in Nat /\ order \in [Quotes -> Order]
  BY BoundsAssumption, WantedFacts DEF Quantities, BooksInv, TypeOK
<1>3. back \in Nat /\ Total(take) + back = Wanted(q)
  BY <1>1, <1>2, TotalFacts
<1> HIDE DEF back
<1>4. o \in Order /\ OrderAddsUp(q, o) /\ o.allocated = take
  BY <1>2, <1>3, CurrentOrder DEF BooksInv
<1> HIDE DEF o
<1>5. TypeOK'
  BY <1>1, <1>4, OrderTypes DEF BooksInv, TypeOK
<1>6. \A s \in Requests : tx'[s] = tx[s] /\ ~Consolidates(s, q)
  BY <1>1 DEF OrderLocked, Consolidates, Consolidating
<1>7. ASSUME NEW w \in Warehouses
      PROVE  reserved'[w] = reserved[w] - order[q].allocated[w] + o.allocated[w]
  <2> DEFINE f == AllocatedAt(order, w)
  <2>1. /\ SumFunction(f) = SumFunctionOnSet(f, Quotes)
        /\ f[q] = order[q].allocated[w]
        /\ f[q] <= SumFunctionOnSet(f, Quotes)
    BY <1>2, AllocatedFacts
  <2>2. reserved[w] = SumFunction(f)
    BY DEF BooksInv, ReservedIsAllocated, AllocatedAt
  <2> HIDE DEF f
  <2>3. order[q].allocated[w] <= reserved[w]
    BY <2>1, <2>2
  <2>4. /\ reserved[w] \in Nat /\ order[q].allocated[w] \in Nat /\ take[w] \in Nat
    BY <1>2 DEF BooksInv, TypeOK, Order, Quantities
  <2>5. reserved'[w] = Released(order[q].allocated)[w] + take[w]
    BY <1>1 DEF Plus
  <2>6. Released(order[q].allocated)[w] = reserved[w] - order[q].allocated[w]
    BY <2>3, <2>4 DEF Released
  <2> QED
    BY <1>4, <2>5, <2>6
<1> QED
  BY <1>1, <1>4, <1>5, <1>6, <1>7, OrderBooks

\* What was allocated is shipped; an order that ships misses nothing.
LEMMA ShipBooks ==
  ASSUME IInv, BooksInv, StockInv', NEW q \in Quotes, ShipFulfillment(q)
  PROVE  BooksInv'
<1> DEFINE going == order[q].allocated
           o == [order[q] EXCEPT !.status = "shipped", !.allocated = Nothing,
                                 !.shipped = going]
<1>1. /\ ~OrderLocked(q) /\ order[q].status = "allocated"
      /\ order' = [order EXCEPT ![q] = o]
      /\ quote' = [quote EXCEPT ![q].status = "fulfilled"]
      /\ UNCHANGED <<lines, invoices, rows, adjusted, tx>>
      /\ reserved' = Minus(reserved, going)
  BY DEF ShipFulfillment, Ship
<1>2. order[q] \in Order /\ OrderAddsUp(q, order[q])
  BY DEF BooksInv, TypeOK
<1>3. /\ o \in Order /\ o.status = "shipped" /\ o.allocated = Nothing /\ o.shipped = going
      /\ o.back = order[q].back /\ o.version = order[q].version
  BY <1>2, QuantityFacts DEF Order, OrderStatuses
<1>4. order[q].back = 0 /\ Total(going) \in Nat
  BY <1>1, <1>2, TotalFacts DEF OrderAddsUp, Order
<1> HIDE DEF o
<1>5. OrderAddsUp(q, o)
  <2>1. order[q].shipped = Nothing /\ order[q].version \in Versions
    BY <1>1, <1>2 DEF OrderAddsUp
  <2>2. Total(going) + 0 + Total(Nothing) = lines[q][o.version]
    BY <1>1, <1>2, <1>3, <1>4, <2>1 DEF OrderAddsUp
  <2>3. Total(Nothing) + 0 + Total(going) = lines[q][o.version]
    BY <1>4, <2>2, TotalNothing
  <2> QED
    BY <1>1, <1>2, <1>3, <1>4, <2>1, <2>3 DEF OrderAddsUp
<1>6. /\ quote' \in [Quotes -> [status : QuoteStatuses, version : Versions]]
      /\ \A p \in Quotes : quote'[p].version = quote[p].version
  BY <1>1 DEF BooksInv, TypeOK, QuoteStatuses
<1>7. TypeOK'
  BY <1>1, <1>3, <1>6, OrderTypes DEF BooksInv
<1>8. \A s \in Requests : tx'[s] = tx[s] /\ ~Consolidates(s, q)
  BY <1>1 DEF OrderLocked, Consolidates, Consolidating
<1>9. \A w \in Warehouses :
        reserved'[w] = reserved[w] - order[q].allocated[w] + o.allocated[w]
  BY <1>1, <1>2, <1>3 DEF Minus, Nothing, BooksInv, TypeOK, Order, Quantities
<1> QED
  BY <1>1, <1>3, <1>5, <1>6, <1>7, <1>8, <1>9, OrderBooks

\* A consolidation adds what it took to what was allocated, and leaves of the
\* backorder what it could not take.
LEMMA FinishBooks ==
  ASSUME IInv, BooksInv, StockInv', NEW r \in Requests, FinishConsolidation(r)
  PROVE  BooksInv'
<1>1. tx[r].pc = "closing" /\ tx' = [tx EXCEPT ![r] = Idle]
  BY DEF FinishConsolidation, Consolidate, End
<1>2. PICK q \in Quotes : q = tx[r].quote
  BY <1>1 DEF IInv, AboutQuotes, Consolidating
<1> DEFINE st == OrderStatus(tx[r].back)
           allocated == Plus(order[q].allocated, tx[r].held)
           o == [order[q] EXCEPT !.status = st, !.allocated = allocated,
                                 !.back = tx[r].back]
<1>3. /\ order' = [order EXCEPT ![q] = o] /\ UNCHANGED <<quote, lines, rows, adjusted>>
      /\ reserved' = Plus(reserved, tx[r].held)
      /\ \/ invoices' = invoices
         \/ invoices' = [invoices EXCEPT ![q] = Append(@, quote[q].version)]
  BY <1>2 DEF FinishConsolidation, Consolidate, WithHeld
<1>4. /\ order[q] \in Order /\ OrderAddsUp(q, order[q])
      /\ order[q].allocated \in Quantities /\ order[q].shipped \in Quantities
      /\ order[q].version \in Int
  BY BoundsAssumption DEF BooksInv, TypeOK, Order, Versions
<1>5. /\ tx[r].held \in Quantities /\ tx[r].back \in Nat
      /\ Total(tx[r].held) + tx[r].back = order[q].back /\ order[q].back > 0
  BY <1>1, <1>2 DEF BooksInv, TypeOK, Tx, TransactionsAddUp, TxAddsUp, Consolidating
<1>6. /\ allocated \in Quantities /\ st \in OrderStatuses \ {"none"} /\ st # "shipped"
      /\ st = "backordered" <=> tx[r].back > 0
      /\ Total(allocated) = Total(order[q].allocated) + Total(tx[r].held)
      /\ Total(order[q].allocated) \in Nat /\ Total(tx[r].held) \in Nat
      /\ Total(order[q].shipped) \in Nat
  BY <1>4, <1>5, QuantityFacts, StatusAddsUp, TotalPlus, TotalFacts
<1> HIDE DEF st
<1>7. \A w \in Warehouses :
        allocated[w] = order[q].allocated[w] + tx[r].held[w]
  BY DEF Plus
<1> HIDE DEF allocated
<1>8. /\ o \in Order /\ o.status = st /\ o.allocated = allocated /\ o.back = tx[r].back
      /\ o.version = order[q].version /\ o.shipped = order[q].shipped
  BY <1>4, <1>5, <1>6 DEF Order
<1> HIDE DEF o
<1>9. OrderAddsUp(q, o)
  <2>1. order[q].status = "backordered"
    BY <1>4, <1>5 DEF OrderAddsUp
  <2>2. /\ order[q].version \in Versions /\ order[q].shipped = Nothing
        /\ order[q].version <= quote[q].version
        /\ Total(order[q].allocated) + order[q].back + Total(order[q].shipped)
             = lines[q][order[q].version]
    BY <1>4, <2>1 DEF OrderAddsUp
  <2>3. Total(o.allocated) + o.back + Total(o.shipped) = lines[q][o.version]
    BY <1>5, <1>6, <1>8, <2>2
  <2> QED
    BY <1>6, <1>8, <2>2, <2>3 DEF OrderAddsUp
<1>10. TypeOK'
  <2>1. quote' \in [Quotes -> [status : QuoteStatuses, version : Versions]]
    BY <1>3 DEF BooksInv, TypeOK
  <2> QED
    BY <1>1, <1>3, <1>8, <2>1, OrderTypes DEF BooksInv
<1>11. \A s \in Requests \ {r} : ~Consolidates(s, q)
  BY <1>1, <1>2 DEF IInv, ConsolidatesAlone, Consolidates, Consolidating
<1>12. \A s \in Requests : tx'[s] = Idle \/ (tx'[s] = tx[s] /\ ~Consolidates(s, q))
  BY <1>1, <1>11 DEF BooksInv, TypeOK
<1>13. ASSUME NEW w \in Warehouses
       PROVE  reserved'[w] = reserved[w] - order[q].allocated[w] + o.allocated[w]
  <2>1. /\ reserved[w] \in Nat /\ order[q].allocated[w] \in Nat /\ tx[r].held[w] \in Nat
    BY <1>4, <1>5 DEF BooksInv, TypeOK, Quantities
  <2>2. reserved'[w] = reserved[w] + tx[r].held[w]
    BY <1>3 DEF Plus
  <2> QED
    BY <1>7, <1>8, <2>1, <2>2
<1>14. \A p \in Quotes : quote'[p].version = quote[p].version
  BY <1>3
<1> QED
  BY <1>3, <1>8, <1>9, <1>10, <1>12, <1>13, <1>14, OrderBooks

\* The stock is counted anew: no order is written, nothing is reserved.
LEMMA CountedBooks ==
  ASSUME BooksInv, IInv', StockInv', UNCHANGED <<quote, lines, order, invoices, reserved>>,
         rows' \subseteq Warehouses, adjusted' \in [Warehouses -> Int],
         tx' = tx \/ \E r \in Requests : tx' = [tx EXCEPT ![r] = Idle]
  PROVE  BooksInv'
<1>1. /\ tx' \in [Requests -> Tx]
      /\ \A r \in Requests : tx'[r] = tx[r] \/ tx'[r] = Idle
  BY IdleAddsUp DEF BooksInv, TypeOK
<1>2. TypeOK'
  BY <1>1 DEF BooksInv, TypeOK, StockInv
<1> QED
  BY <1>1, <1>2, IdleAddsUp, SameBooks

\* Nothing is ordered and nothing is reserved initially.
LEMMA BooksInit == Init => BooksInv
<1> SUFFICES ASSUME Init PROVE BooksInv
  OBVIOUS
<1>1. 1 \in Versions
  BY BoundsAssumption DEF Versions
<1>2. NoOrder \in Order
  BY QuantityFacts DEF NoOrder, Order, OrderStatuses
<1>3. TypeOK
  <2>1. quote \in [Quotes -> [status : QuoteStatuses, version : Versions]]
    BY <1>1 DEF Init, QuoteStatuses
  <2>2. lines \in [Quotes -> [Versions -> Nat]]
    <3>1. PICK n \in 1..MaxWanted :
            lines = [q \in Quotes |-> [v \in Versions |-> IF v = 1 THEN n ELSE 0]]
      BY DEF Init
    <3>2. n \in Nat
      BY BoundsAssumption
    <3> QED
      BY <3>1, <3>2
  <2>3. invoices \in [Quotes -> Seq(Versions)]
    BY DEF Init
  <2>4. order \in [Quotes -> Order] /\ tx \in [Requests -> Tx]
    BY <1>2, IdleAddsUp DEF Init
  <2>5. onHand \in Quantities /\ reserved \in Quantities /\ adjusted \in [Warehouses -> Int]
    BY DEF Init, Nothing, Quantities
  <2> QED
    BY <2>1, <2>2, <2>3, <2>4, <2>5 DEF Init, TypeOK
<1>4. ASSUME NEW q \in Quotes PROVE OrderAddsUp(q, order[q])
  <2>1. order[q] = NoOrder /\ quote[q].version = 1
    BY DEF Init
  <2> QED
    BY <2>1 DEF OrderAddsUp, NoOrder
<1>5. TransactionsAddUp
  BY IdleAddsUp DEF Init, TransactionsAddUp, TxAddsUp, Idle, Consolidating
<1>6. ASSUME NEW w \in Warehouses
      PROVE  reserved[w] = SumFunction(AllocatedAt(order, w))
  <2> DEFINE f == AllocatedAt(order, w)
  <2>1. SumFunction(f) = SumFunctionOnSet(f, Quotes)
    BY <1>3, AllocatedFacts DEF TypeOK
  <2>2. \A q \in Quotes : f[q] = 0
    BY DEF AllocatedAt, Init, NoOrder, Nothing
  <2> HIDE DEF f
  <2>3. SumFunctionOnSet(f, Quotes) = 0
    BY <2>2, SumZeros, FinitenessAssumption
  <2> QED
    BY <2>1, <2>3 DEF Init, Nothing, f
<1>7. ReservedIsAllocated
  BY <1>6 DEF ReservedIsAllocated, AllocatedAt
<1> QED
  BY <1>3, <1>4, <1>5, <1>7 DEF BooksInv

\* Every step keeps the books.
LEMMA BooksStep ==
  IInv /\ IInv' /\ StockInv /\ StockInv' /\ BooksInv /\ [Next]_vars => BooksInv'
<1> SUFFICES ASSUME IInv, IInv', StockInv, StockInv', BooksInv, [Next]_vars PROVE BooksInv'
  OBVIOUS
<1> USE DEF stockVars
<1>1. ASSUME NEW r \in Requests, RequestFails(r) PROVE BooksInv'
  <2>1. /\ tx' = [tx EXCEPT ![r] = Idle]
        /\ UNCHANGED <<quote, lines, order, invoices, rows, reserved, adjusted>>
    BY <1>1 DEF RequestFails, End
  <2> QED
    BY <2>1, CountedBooks DEF BooksInv, TypeOK
<1>2. ASSUME NEW r \in Requests, UpsertStock(r) PROVE BooksInv'
  <2>1. PICK w \in Used(tx[r].plan) :
          /\ rows' = rows \cup {w}
          /\ adjusted' = [adjusted EXCEPT ![w] = @ + tx[r].plan[w]]
          /\ tx' = [tx EXCEPT ![r] = Idle]
          /\ UNCHANGED <<quote, lines, order, invoices, reserved>>
    BY <1>2 DEF UpsertStock, End
  <2>2. w \in Warehouses /\ tx[r].plan[w] \in Int /\ adjusted[w] \in Int
    BY HeldFacts DEF Used, BooksInv, TypeOK
  <2>3. rows' \subseteq Warehouses /\ adjusted' \in [Warehouses -> Int]
    BY <2>1, <2>2 DEF BooksInv, TypeOK
  <2> QED
    BY <2>1, <2>3, CountedBooks
<1>3. ASSUME NEW w \in Warehouses, NEW delta \in Deltas, AdjustStock(w, delta)
      PROVE BooksInv'
  <2>1. /\ adjusted' = [adjusted EXCEPT ![w] = @ + delta]
        /\ UNCHANGED <<quote, lines, order, invoices, rows, reserved, tx>>
    BY <1>3 DEF AdjustStock
  <2>2. delta \in Int /\ adjusted[w] \in Int
    BY BoundsAssumption DEF Deltas, BooksInv, TypeOK
  <2>3. rows' \subseteq Warehouses /\ adjusted' \in [Warehouses -> Int]
    BY <2>1, <2>2 DEF BooksInv, TypeOK
  <2> QED
    BY <2>1, <2>3, CountedBooks
<1>4. CASE UNCHANGED vars
  BY <1>4, CountedBooks DEF vars, BooksInv, TypeOK
<1> QED
  BY <1>1, <1>2, <1>3, <1>4, RevisionBooks, StatusBooks, OverrideBooks, ShipBooks, PlanBooks,
     LockOrderBooks, AllocateBooks, SuggestBooks, ReserveMoreBooks, FinishBooks, FindNoStockBooks
  DEF Next

\* The books are kept whatever runs beside what.
THEOREM BooksKept == Spec => []BooksInv
BY BooksInit, BooksStep, Invariant, NeverOverAllocates, PTL DEF Spec

\* Every variable keeps its type.
THEOREM TypeCorrect == Spec => []TypeOK
<1>1. BooksInv => TypeOK
  BY DEF BooksInv
<1> QED
  BY <1>1, BooksKept, PTL

\* Through overrides, consolidations and shipments of all orders, nothing stays
\* reserved for nobody and no order counts on what is not reserved.
THEOREM ReservationsBelongToOrders == Spec => []ReservedIsAllocated
<1>1. BooksInv => ReservedIsAllocated
  BY DEF BooksInv
<1> QED
  BY <1>1, BooksKept, PTL

\* The rows of an order add up to the line they are for, and its status says
\* whether something is missing.
THEOREM OrdersAddUp == Spec => []OrderIsComplete
<1>1. BooksInv => OrderIsComplete
  BY DEF BooksInv, OrderAddsUp, OrderIsComplete
<1> QED
  BY <1>1, BooksKept, PTL

\* What all transactions together hold of an inventory row is what one of them
\* holds, or nothing.
LEMMA HeldTogether ==
  ASSUME IInv, StockInv, NEW w \in Warehouses
  PROVE  reserved[w] + SumFunction([r \in Requests |-> tx[r].held[w]]) <= onHand[w]
<1> DEFINE f == [r \in Requests |-> tx[r].held[w]]
<1>1. \A r \in Requests : f[r] = tx[r].held[w] /\ f[r] \in Nat
  BY HeldFacts
<1>2. SumFunction(f) = SumFunctionOnSet(f, Requests)
  BY DEF SumFunction
<1>3. reserved[w] \in Nat /\ onHand[w] \in Nat /\ reserved[w] <= onHand[w]
  BY DEF StockInv, Quantities
<1> HIDE DEF f
<1>4. CASE \A r \in Requests : f[r] = 0
  <2>1. SumFunctionOnSet(f, Requests) = 0
    BY <1>4, SumZeros, FinitenessAssumption
  <2> QED
    BY <1>2, <1>3, <2>1 DEF f
<1>5. CASE \E r \in Requests : f[r] # 0
  <2>1. PICK r \in Requests : f[r] # 0
    BY <1>5
  <2>2. \A s \in Requests \ {r} : f[s] = 0
    BY <1>1, <2>1 DEF StockInv
  <2>3. SumFunctionOnSet(f, Requests) = f[r]
    BY <1>1, <2>2, SumOne, FinitenessAssumption
  <2>4. reserved[w] + f[r] <= onHand[w]
    BY <1>1 DEF StockInv
  <2> QED
    BY <1>2, <2>3, <2>4 DEF f
<1> QED
  BY <1>4, <1>5

\* Plans are made on stock that other requests are taking meanwhile; still what
\* is reserved, committed or not, is on hand.
THEOREM StockSuffices == Spec => []StockCoversReservations
<1>1. IInv /\ StockInv => StockCoversReservations
  BY HeldTogether DEF StockCoversReservations
<1> QED
  BY <1>1, Invariant, NeverOverAllocates, PTL

=============================================================================
