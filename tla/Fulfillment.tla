----------------------------- MODULE Fulfillment -----------------------------
(***************************************************************************)
(* The fulfillment orders of some quotations, the stock they share, and    *)
(* the administrator's adjustments of it.  One product, one physical line  *)
(* per quotation version.                                                  *)
(*                                                                         *)
(* Allocation locks the quotation and, before its writes, reads the stock  *)
(* in a statement that locks nothing.  Consolidation locks the order       *)
(* only, and reads and reserves in turns: an inventory row it has updated  *)
(* is its own until it commits, and nobody sees the new amount before.     *)
(* Shipping and the manual override begin by locking the quotation and     *)
(* the order and are one step each, when both are free.                    *)
(***************************************************************************)
EXTENDS Integers, Sequences, FiniteSets, Functions

CONSTANTS
  Quotes,     \* quotations with physical lines
  Warehouses, \* active warehouses
  Requests,   \* allocations, consolidations and adjustments in flight
  NoQuote,    \* "this request is not about a quotation"
  MaxRevisions, \* bound: revisions of all quotations together
  MaxWanted,  \* bound: quantity of the physical line
  MaxStock    \* bound: sum of all adjustments

ASSUME FinitenessAssumption ==
  IsFiniteSet(Quotes) /\ IsFiniteSet(Warehouses) /\ IsFiniteSet(Requests)
ASSUME NoQuoteAssumption == NoQuote \notin Quotes
ASSUME BoundsAssumption ==
  /\ MaxRevisions \in Nat
  /\ MaxWanted \in Nat \ {0}
  /\ MaxStock \in Nat \ {0}

VARIABLES
  quote,    \* quotations: status, current version
  lines,    \* quantity of the physical line of each version
  order,    \* the live fulfillment order and its allocation rows
  invoices, \* the versions for which the order's invoices were issued
  rows,     \* warehouses that have an inventory_levels row
  onHand,   \* quantity_on_hand
  reserved, \* quantity_reserved, as committed
  adjusted, \* SUM(inventory_adjustments.delta_quantity)
  tx        \* transactions that have begun and not ended

stockVars == <<rows, onHand, reserved, adjusted>>
vars == <<quote, lines, order, invoices, stockVars, tx>>

-----------------------------------------------------------------------------

Versions == 1..MaxRevisions + 1
Quantities == [Warehouses -> Nat]
Nothing == [w \in Warehouses |-> 0]
Total(f) == SumFunction(f)
Plus(f, g) == [w \in Warehouses |-> f[w] + g[w]]
Minus(f, g) == [w \in Warehouses |-> f[w] - g[w]]

\* 'cleared' stands for FULFILLABLE_QUOTE_STATUSES, 'open' for every status a
\* quotation has before or instead of them.
QuoteStatuses == {"open", "cleared", "in_fulfillment", "fulfilled"}

\* Allocation rows of one status are added up by warehouse; cancelled ones are
\* no rows.  'version' is that of the quotation_line_id they refer to.
OrderStatuses == {"none", "allocated", "backordered", "shipped"}
Order == [status : OrderStatuses, version : Versions \cup {0},
          allocated : Quantities, back : Nat, shipped : Quantities]
NoOrder == [status |-> "none", version |-> 0,
            allocated |-> Nothing, back |-> 0, shipped |-> Nothing]

Tx == [pc : {"idle", "planned", "consolidating", "suggested", "closing", "adjusting"},
       quote : Quotes \cup {NoQuote},
       plan : Quantities, \* what it is about to reserve, or to set on hand
       held : Quantities, \* what it has reserved and not committed
       back : Nat]        \* what stays backordered
Idle == [pc |-> "idle", quote |-> NoQuote, plan |-> Nothing, held |-> Nothing, back |-> 0]

TypeOK ==
  /\ quote \in [Quotes -> [status : QuoteStatuses, version : Versions]]
  /\ lines \in [Quotes -> [Versions -> Nat]]
  /\ order \in [Quotes -> Order]
  /\ invoices \in [Quotes -> Seq(Versions)]
  /\ rows \subseteq Warehouses
  /\ onHand \in Quantities
  /\ reserved \in Quantities
  /\ adjusted \in [Warehouses -> Int]
  /\ tx \in [Requests -> Tx]

\* The line of the current version.
Wanted(q) == lines[q][quote[q].version]

\* Rows that are locked until their transaction ends.
QuoteLocked(q) == \E r \in Requests : tx[r].pc = "planned" /\ tx[r].quote = q
OrderLocked(q) ==
  \E r \in Requests :
    tx[r].pc \in {"consolidating", "suggested", "closing"} /\ tx[r].quote = q
StockLocked(w) == \E r \in Requests : tx[r].held[w] > 0
StockFree(r, w) == \A s \in Requests \ {r} : tx[s].held[w] = 0

Available == [w \in Warehouses |-> IF w \in rows THEN onHand[w] - reserved[w] ELSE 0]

\* suggestAllocations: the line, or all there is, from a cheapest set of
\* warehouses, each drained before the next is used.  Shipping costs decide
\* which; whatever they are, no warehouse of the set can be spared and at most
\* one is not drained.
Used(take) == {w \in Warehouses : take[w] > 0}
Splits(available, wanted) ==
  {take \in [Warehouses -> 0..MaxWanted] :
     /\ \A w \in Warehouses : take[w] <= available[w]
     /\ Total(take) <= wanted
     /\ Total(take) = wanted \/ take = available
     /\ \A w \in Used(take) :
          SumFunctionOnSet(available, Used(take) \ {w}) < wanted
     /\ Cardinality({w \in Used(take) : take[w] < available[w]}) <= 1}

\* Bound: the quotations begin with lines of one quantity; a revision may differ.
Init ==
  /\ \E n \in 1..MaxWanted :
       lines = [q \in Quotes |-> [v \in Versions |-> IF v = 1 THEN n ELSE 0]]
  /\ quote = [q \in Quotes |-> [status |-> "open", version |-> 1]]
  /\ order = [q \in Quotes |-> NoOrder]
  /\ invoices = [q \in Quotes |-> <<>>]
  /\ rows = {}
  /\ onHand = Nothing
  /\ reserved = Nothing
  /\ adjusted = Nothing
  /\ tx = [r \in Requests |-> Idle]

-----------------------------------------------------------------------------
(***************************************************************************)
(* The quotation, as the other handlers move it.  They update its row, so  *)
(* they wait while an allocation holds it.                                 *)
(***************************************************************************)

\* createRevision: any status but the four nobody writes.
CreateRevision(q, n) ==
  /\ ~QuoteLocked(q)
  /\ SumFunction([p \in Quotes |-> quote[p].version - 1]) < MaxRevisions
  /\ quote' = [quote EXCEPT ![q] = [status |-> "open", version |-> @.version + 1]]
  /\ lines' = [lines EXCEPT ![q][quote[q].version + 1] = n]
  /\ UNCHANGED <<order, invoices, stockVars, tx>>

\* submitQuotation: whatever the status, and with the same version.
SubmitQuotation(q) ==
  /\ ~QuoteLocked(q)
  /\ quote[q].status # "open"
  /\ quote' = [quote EXCEPT ![q].status = "open"]
  /\ UNCHANGED <<lines, order, invoices, stockVars, tx>>

\* An approval, or the customer's acceptance.
ClearQuote(q) ==
  /\ ~QuoteLocked(q)
  /\ quote[q].status = "open"
  /\ quote' = [quote EXCEPT ![q].status = "cleared"]
  /\ UNCHANGED <<lines, order, invoices, stockVars, tx>>

-----------------------------------------------------------------------------
(***************************************************************************)
(* Transactions.                                                           *)
(***************************************************************************)

Begin(r, t) == tx[r].pc = "idle" /\ tx' = [tx EXCEPT ![r] = t]
End(r) == tx' = [tx EXCEPT ![r] = Idle]

\* reserveStock of each warehouse of a plan: the row must be free, and hold
\* enough beyond what is reserved, this transaction's own reservations included.
CanReserve(r, take) ==
  \A w \in Used(take) :
    /\ w \in rows
    /\ StockFree(r, w)
    /\ onHand[w] - reserved[w] - tx[r].held[w] >= take[w]

OrderStatus(back) == IF back > 0 THEN "backordered" ELSE "allocated"

\* A rule refuses, a reservation finds too little, PostgreSQL breaks a
\* deadlock, or the process stops: nothing of the transaction remains.
RequestFails(r) ==
  /\ tx[r].pc # "idle"
  /\ End(r)
  /\ UNCHANGED <<quote, lines, order, invoices, stockVars>>

-----------------------------------------------------------------------------
(***************************************************************************)
(* allocateFulfillment, mode 'suggested'.                                  *)
(***************************************************************************)

PlanAllocation(r, q) ==
  /\ ~QuoteLocked(q)
  /\ quote[q].status = "cleared"
  /\ Wanted(q) > 0
  /\ order[q].status = "none"
  /\ \E take \in Splits(Available, Wanted(q)) :
       Begin(r, [pc |-> "planned", quote |-> q, plan |-> take, held |-> Nothing,
                 back |-> Wanted(q) - Total(take)])
  /\ UNCHANGED <<quote, lines, order, invoices, stockVars>>

\* The order, its rows, the quotation's status and the invoice that follows
\* when nothing is missing.
Allocate(r) ==
  LET t == tx[r]
      q == t.quote
  IN /\ t.pc = "planned"
     /\ reserved' = Plus(reserved, t.plan)
     /\ order' = [order EXCEPT ![q] =
          [status |-> OrderStatus(t.back), version |-> quote[q].version,
           allocated |-> t.plan, back |-> t.back, shipped |-> Nothing]]
     /\ quote' = [quote EXCEPT ![q].status = "in_fulfillment"]
     /\ invoices' = IF t.back = 0
                    THEN [invoices EXCEPT ![q] = Append(@, quote[q].version)]
                    ELSE invoices
     /\ End(r)
     /\ UNCHANGED <<lines, rows, onHand, adjusted>>

\* Variant (fault model): the reservation does not compare with the stock.
AllocateUnguarded(r) ==
  /\ \A w \in Used(tx[r].plan) : StockFree(r, w)
  /\ Allocate(r)

AllocateFulfillment(r) == CanReserve(r, tx[r].plan) /\ Allocate(r)

-----------------------------------------------------------------------------
(***************************************************************************)
(* allocateFulfillment, mode 'manual': it replaces the rows of the live    *)
(* order, whatever their status and the order's, for the current version.  *)
(* It issues no invoice and leaves the quotation's status alone.           *)
(***************************************************************************)

Override(q, take, released) ==
  /\ ~QuoteLocked(q)
  /\ ~OrderLocked(q)
  /\ quote[q].status = "cleared"
  /\ Wanted(q) > 0
  /\ order[q].status # "none"
  /\ Total(take) \in 1..Wanted(q)
  /\ \A w \in Used(take) \cup Used(order[q].allocated) : ~StockLocked(w)
  /\ \A w \in Used(take) : w \in rows /\ take[w] <= onHand[w] - released[w]
  /\ reserved' = Plus(released, take)
  /\ LET back == Wanted(q) - Total(take)
     IN order' = [order EXCEPT ![q] =
          [status |-> OrderStatus(back), version |-> quote[q].version,
           allocated |-> take, back |-> back, shipped |-> Nothing]]
  /\ UNCHANGED <<quote, lines, invoices, rows, onHand, adjusted, tx>>

\* Variant (fault model): the rows are cancelled, their stock stays reserved.
OverrideKeepingReservations(q, take) == Override(q, take, reserved)

\* releaseStock of every allocated row, with its floor at zero.
Released(allocated) ==
  [w \in Warehouses |->
     IF reserved[w] > allocated[w] THEN reserved[w] - allocated[w] ELSE 0]

ManualOverride(q, take) == Override(q, take, Released(order[q].allocated))

-----------------------------------------------------------------------------

\* shipFulfillment: no condition on the quotation's status or version.
Ship(q, quoteStatus) ==
  LET going == order[q].allocated
  IN /\ ~QuoteLocked(q)
     /\ ~OrderLocked(q)
     /\ order[q].status = "allocated"
     /\ Used(going) # {}
     /\ \A w \in Used(going) :
          ~StockLocked(w) /\ onHand[w] >= going[w] /\ reserved[w] >= going[w]
     /\ onHand' = Minus(onHand, going)
     /\ reserved' = Minus(reserved, going)
     /\ order' = [order EXCEPT ![q] = [@ EXCEPT !.status = "shipped",
                                                !.allocated = Nothing,
                                                !.shipped = going]]
     /\ quote' = [quote EXCEPT ![q].status = quoteStatus]
     /\ UNCHANGED <<lines, invoices, rows, adjusted, tx>>

\* Variant (fault model): the order's status, which is not one of a quotation.
ShipAsOrder(q) == Ship(q, "shipped")

ShipFulfillment(q) == Ship(q, "fulfilled")

-----------------------------------------------------------------------------
(***************************************************************************)
(* consolidateBackorders.                                                  *)
(***************************************************************************)

\* The quotation is read, not locked.  An order without backorders is left alone.
LockOrder(r, q) ==
  /\ ~OrderLocked(q)
  /\ order[q].back > 0
  /\ Begin(r, [pc |-> "consolidating", quote |-> q, plan |-> Nothing, held |-> Nothing,
               back |-> order[q].back])
  /\ UNCHANGED <<quote, lines, order, invoices, stockVars>>

SuggestMore(r) ==
  LET t == tx[r]
  IN /\ t.pc = "consolidating"
     /\ \E take \in Splits(Minus(Available, t.held), t.back) :
          tx' = [tx EXCEPT ![r] =
                   [t EXCEPT !.pc = IF take = Nothing THEN "closing" ELSE "suggested",
                             !.plan = take]]
     /\ UNCHANGED <<quote, lines, order, invoices, stockVars>>

ReserveMore(r) ==
  LET t == tx[r]
      back == t.back - Total(t.plan)
  IN /\ t.pc = "suggested"
     /\ CanReserve(r, t.plan)
     /\ tx' = [tx EXCEPT ![r] =
                 [t EXCEPT !.pc = IF back = 0 THEN "closing" ELSE "consolidating",
                           !.plan = Nothing,
                           !.held = Plus(t.held, t.plan),
                           !.back = back]]
     /\ UNCHANGED <<quote, lines, order, invoices, stockVars>>

\* The quotation's current version, if it still has physical lines, is what the
\* invoice is for.
Consolidate(r, allocated, back, mayInvoice) ==
  LET t == tx[r]
      q == t.quote
  IN /\ t.pc = "closing"
     /\ reserved' = Plus(reserved, t.held)
     /\ order' = [order EXCEPT ![q] = [@ EXCEPT !.status = OrderStatus(t.back),
                                                !.allocated = allocated,
                                                !.back = back]]
     /\ invoices' = IF t.back = 0 /\ mayInvoice /\ Wanted(q) > 0
                    THEN [invoices EXCEPT ![q] = Append(@, quote[q].version)]
                    ELSE invoices
     /\ End(r)
     /\ UNCHANGED <<quote, lines, rows, onHand, adjusted>>

NotInvoiced(q) == invoices[q] = <<>>
WithHeld(r) == Plus(order[tx[r].quote].allocated, tx[r].held)

\* Variant (fault model): what was allocated before is replaced.
ConsolidateReplacing(r) ==
  Consolidate(r, tx[r].held, tx[r].back, NotInvoiced(tx[r].quote))

\* Variant (fault model): the backordered row keeps its quantity.
ConsolidateKeepingBackorder(r) ==
  Consolidate(r, WithHeld(r), order[tx[r].quote].back, NotInvoiced(tx[r].quote))

\* Variant (fault model): nobody looks for an invoice of the order.
ConsolidateInvoicingAgain(r) == Consolidate(r, WithHeld(r), tx[r].back, TRUE)

FinishConsolidation(r) ==
  Consolidate(r, WithHeld(r), tx[r].back, NotInvoiced(tx[r].quote))

-----------------------------------------------------------------------------
(***************************************************************************)
(* The administrator's inventory adjustments.                              *)
(***************************************************************************)

\* The row exists: SELECT ... FOR UPDATE holds it to the end.
AdjustStock(w, delta) ==
  /\ w \in rows
  /\ ~StockLocked(w)
  /\ Total(adjusted) + delta <= MaxStock
  /\ onHand[w] + delta >= reserved[w]
  /\ onHand' = [onHand EXCEPT ![w] = @ + delta]
  /\ adjusted' = [adjusted EXCEPT ![w] = @ + delta]
  /\ UNCHANGED <<quote, lines, order, invoices, rows, reserved, tx>>

\* There is no row to lock: the new quantity is computed from zero.
FindNoStock(r, w, delta) ==
  /\ w \notin rows
  /\ Total(adjusted) + delta <= MaxStock
  /\ Begin(r, [Idle EXCEPT !.pc = "adjusting", !.plan = [Nothing EXCEPT ![w] = delta]])
  /\ UNCHANGED <<quote, lines, order, invoices, stockVars>>

\* INSERT ... ON CONFLICT DO UPDATE SET quantity_on_hand = EXCLUDED...; the
\* table's CHECK refuses less than is reserved.
UpsertStock(r) ==
  \E w \in Used(tx[r].plan) :
    LET delta == tx[r].plan[w]
    IN /\ tx[r].pc = "adjusting"
       /\ ~StockLocked(w)
       /\ reserved[w] <= delta
       /\ Total(adjusted) + delta <= MaxStock
       /\ rows' = rows \cup {w}
       /\ onHand' = [onHand EXCEPT ![w] = delta]
       /\ adjusted' = [adjusted EXCEPT ![w] = @ + delta]
       /\ End(r)
       /\ UNCHANGED <<quote, lines, order, invoices, reserved>>

-----------------------------------------------------------------------------

Deltas == (-MaxStock..MaxStock) \ {0}

Next ==
  \/ \E q \in Quotes :
       \/ \E n \in 0..MaxWanted : CreateRevision(q, n)
       \/ SubmitQuotation(q)
       \/ ClearQuote(q)
       \/ \E take \in [Warehouses -> 0..MaxWanted] : ManualOverride(q, take)
       \/ ShipFulfillment(q)
  \/ \E r \in Requests :
       \/ \E q \in Quotes : PlanAllocation(r, q) \/ LockOrder(r, q)
       \/ AllocateFulfillment(r)
       \/ SuggestMore(r)
       \/ ReserveMore(r)
       \/ FinishConsolidation(r)
       \/ RequestFails(r)
       \/ \E w \in Warehouses, delta \in 1..MaxStock : FindNoStock(r, w, delta)
       \/ UpsertStock(r)
  \/ \E w \in Warehouses, delta \in Deltas : AdjustStock(w, delta)

Spec == Init /\ [][Next]_vars

-----------------------------------------------------------------------------
(***************************************************************************)
(* What holds.                                                             *)
(***************************************************************************)

\* What is reserved in a warehouse is what the live orders have allocated there,
\* through overrides, consolidations and shipments of all of them: nothing stays
\* reserved for nobody, no order counts on what is not reserved.
ReservedIsAllocated ==
  \A w \in Warehouses :
    reserved[w] = SumFunction([q \in Quotes |-> order[q].allocated[w]])

\* Plans are made on stock that other requests are taking meanwhile; still what
\* is reserved, committed or not, is on hand ("never over-allocates").
StockCoversReservations ==
  \A w \in Warehouses :
    reserved[w] + SumFunction([r \in Requests |-> tx[r].held[w]]) <= onHand[w]

\* The rows of an order add up to the line they are for, and its status says
\* whether something is missing.
OrderIsComplete ==
  \A q \in Quotes : order[q].status # "none" =>
    LET o == order[q]
    IN /\ Total(o.allocated) + o.back + Total(o.shipped) = lines[q][o.version]
       /\ o.status = "backordered" <=> o.back > 0

\* An order is invoiced at most once, although an override may reopen its
\* backorders after the invoice and consolidation then close them again.
InvoicedOnce == \A q \in Quotes : Len(invoices[q]) <= 1

\* "Existing 'allocated' rows and their stock reservations are never cancelled or
\* released" while the quotation is not cleared again for an override: until it
\* ships, an order keeps every unit it was promised.
PromisesKept ==
  [][ \A q \in Quotes :
        quote[q].status # "cleared" =>
          \/ order'[q].status = "shipped"
          \/ \A w \in Warehouses : order'[q].allocated[w] >= order[q].allocated[w] ]_vars

=============================================================================
