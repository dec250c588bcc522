-------------------------------- MODULE Tiers --------------------------------
(***************************************************************************)
(* The customer's tier, which paying an invoice earns and an administrator *)
(* may override.  The payment that settles an invoice evaluates the tier   *)
(* in its own transaction: it locks the customer, adds up the paid         *)
(* invoices it sees and writes the highest tier they earn.                 *)
(*                                                                         *)
(* READ COMMITTED: each statement sees what is committed when it starts    *)
(* and what its own transaction wrote; FOR UPDATE and UPDATE wait for the  *)
(* transaction that holds the row.  What one invoice goes through before   *)
(* it is paid is Billing's: here it is credited in part, and paid.         *)
(***************************************************************************)
EXTENDS Integers, FiniteSets, Sequences, FiniteSetsExt, Functions

CONSTANTS
  Invoices,       \* the customer's invoices
  AmountDue,      \* amount_due of each
  QualifySpend,   \* qualification_spend of each tier, the lowest first
  QualifyOrders   \* qualification_order_count of each tier

ASSUME InvoicesAssumption == IsFiniteSet(Invoices) /\ AmountDue \in [Invoices -> Nat]
ASSUME TierAssumption ==
  /\ QualifySpend \in Seq(Nat) /\ QualifyOrders \in Seq(Nat)
  /\ Len(QualifyOrders) = Len(QualifySpend)

VARIABLES
  invoices,  \* status of each invoice, what was paid and what was credited
  payment,   \* the transaction that settles each invoice
  customer   \* the customer's tier_id and tier_assignment_source

tierVars == <<invoices, payment, customer>>

-----------------------------------------------------------------------------

NoTier == 0
Tiers == 1..Len(QualifySpend)

Invoice == [status : {"issued", "paid"}, paid : Nat, credit : Nat]

\* tier is what the transaction will leave in customers.tier_id.
Payment == [pc : {"idle", "paid", "evaluating", "evaluated"}, amount : Nat,
            tier : {NoTier} \cup Tiers]
NotPaying == [pc |-> "idle", amount |-> 0, tier |-> NoTier]

Customer == [tier : {NoTier} \cup Tiers, source : {"automatic", "admin_override"}]

TierTypeOK ==
  /\ invoices \in [Invoices -> Invoice]
  /\ payment \in [Invoices -> Payment]
  /\ customer \in Customer

\* Registration gives no tier; an administrator's customer may come with one,
\* as an override; the seeded customers have theirs as if it had been earned.
TierInit ==
  /\ invoices = [i \in Invoices |-> [status |-> "issued", paid |-> 0, credit |-> 0]]
  /\ payment = [i \in Invoices |-> NotPaying]
  /\ \/ \E t \in {NoTier} \cup Tiers : customer = [tier |-> t, source |-> "automatic"]
     \/ \E t \in Tiers : customer = [tier |-> t, source |-> "admin_override"]

-----------------------------------------------------------------------------

\* A credit that leaves something to pay: no status changes, nothing is locked.
CreditInvoice(i) ==
  /\ invoices[i].status = "issued" /\ invoices[i].credit + 1 < AmountDue[i]
  /\ invoices' = [invoices EXCEPT ![i].credit = @ + 1]
  /\ UNCHANGED <<payment, customer>>

\* The last payment of an invoice.  The transaction holds the invoice's row.
SettleInvoice(i) ==
  /\ invoices[i].status = "issued" /\ payment[i].pc = "idle"
  /\ payment' = [payment EXCEPT
       ![i].pc = "paid", ![i].amount = AmountDue[i] - invoices[i].credit]
  /\ UNCHANGED <<invoices, customer>>

\* Variant (fault model): SELECT without FOR UPDATE.
CustomerNotLocked == FALSE

CustomerLocked == \E i \in Invoices : payment[i].pc \in {"evaluating", "evaluated"}

\* What the locked row says: an override ends the evaluation.
FoundCustomer(i) ==
  payment' = [payment EXCEPT
    ![i].pc = IF customer.source = "admin_override" THEN "evaluated" ELSE "evaluating",
    ![i].tier = customer.tier]

LockCustomer(i) ==
  /\ payment[i].pc = "paid" /\ ~CustomerLocked
  /\ FoundCustomer(i)
  /\ UNCHANGED <<invoices, customer>>

Paid == {i \in Invoices : invoices[i].status = "paid"}
NetPaid == [i \in Invoices |-> invoices[i].paid - invoices[i].credit]
NetSpend == SumFunctionOnSet(NetPaid, Paid)

Earns(t, netSpend, completedOrders) ==
  netSpend >= QualifySpend[t] \/ completedOrders >= QualifyOrders[t]

HighestEligibleTier(netSpend, completedOrders) ==
  Max({NoTier} \cup {t \in Tiers : Earns(t, netSpend, completedOrders)})

\* Variant (fault model): the totals are asked of the pool, so the payment's
\* own invoice is not among them.
EvaluateThroughPool(i) ==
  /\ payment[i].pc = "evaluating"
  /\ payment' = [payment EXCEPT ![i].pc = "evaluated", ![i].tier =
       HighestEligibleTier(NetSpend, Cardinality(Paid))]
  /\ UNCHANGED <<invoices, customer>>

\* The invoices others have committed as paid, and the transaction's own.
EvaluateAutomaticTier(i) ==
  /\ payment[i].pc = "evaluating"
  /\ payment' = [payment EXCEPT ![i].pc = "evaluated", ![i].tier =
       HighestEligibleTier(
         NetSpend + payment[i].amount - invoices[i].credit, Cardinality(Paid) + 1)]
  /\ UNCHANGED <<invoices, customer>>

CommitPayment(i) ==
  /\ payment[i].pc = "evaluated"
  /\ invoices' = [invoices EXCEPT ![i].status = "paid", ![i].paid = payment[i].amount]
  /\ customer' = [customer EXCEPT !.tier = payment[i].tier]
  /\ payment' = [payment EXCEPT ![i] = NotPaying]

\* ROLLBACK, or the connection is lost: neither the payment nor the tier stays.
PaymentFails(i) ==
  /\ payment[i].pc # "idle"
  /\ payment' = [payment EXCEPT ![i] = NotPaying]
  /\ UNCHANGED <<invoices, customer>>

\* PUT /customers/:id/tier.  Its UPDATE waits for the evaluation's lock; the
\* tier it records as the previous one is left out.
OverrideTier(t) ==
  /\ ~CustomerLocked
  /\ customer' = [tier |-> t, source |-> "admin_override"]
  /\ UNCHANGED <<invoices, payment>>

-----------------------------------------------------------------------------

TierNext ==
  \/ \E i \in Invoices :
       CreditInvoice(i) \/ SettleInvoice(i) \/ LockCustomer(i)
         \/ EvaluateAutomaticTier(i) \/ CommitPayment(i) \/ PaymentFails(i)
  \/ \E t \in {NoTier} \cup Tiers : OverrideTier(t)

TierSpec == TierInit /\ [][TierNext]_tierVars

-----------------------------------------------------------------------------
(***************************************************************************)
(* Properties.                                                             *)
(***************************************************************************)

\* Payments of two invoices at once do not overlook each other: as soon as an
\* invoice is paid, the customer has every tier that the paid invoices earn.
\* (Before the first nobody asks, whatever a tier requires.)
TierKeepsUp ==
  customer.source = "automatic" /\ Paid # {} =>
    \A t \in Tiers : Earns(t, NetSpend, Cardinality(Paid)) => customer.tier >= t

\* A tier an administrator has set is changed by administrators only, also
\* when the override comes between a payment and its evaluation of the tier.
OverrideIsNotUndone ==
  [][customer.source = "admin_override" /\ customer' # customer
       => \E t \in {NoTier} \cup Tiers : OverrideTier(t)]_tierVars

=============================================================================
