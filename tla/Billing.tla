------------------------------- MODULE Billing -------------------------------
(***************************************************************************)
(* One invoice, its payments and its credit notes, and the Finance         *)
(* requests that change them.                                              *)
(*                                                                         *)
(* Every request of payments/service.js and credit-notes/service.js reads  *)
(* the invoice, then the sum of the applied credits, in two statements     *)
(* that take no lock, and writes in the same transaction.  At READ         *)
(* COMMITTED each read sees what is committed at its own moment, and the   *)
(* writes appear together: one action for each read, one for the writes.   *)
(* Amounts are counted in units of money.                                  *)
(***************************************************************************)
EXTENDS Naturals, FiniteSetsExt, Functions

CONSTANTS
  Requests,  \* requests in flight
  Notes,     \* credit notes that may be issued
  NoNote,    \* "this request is not about a credit note"
  Due,       \* invoices.amount_due
  Amounts    \* amounts a payment or a credit note may have

ASSUME NoNoteAssumption == NoNote \notin Notes
ASSUME NotesAssumption == IsFiniteSet(Notes)
ASSUME MoneyAssumption == Due \in Nat /\ Amounts \subseteq Nat \ {0}

VARIABLES
  status,   \* invoices.status
  paid,     \* invoices.amount_paid
  lock,     \* invoices.lock_version
  received, \* SUM(payments.amount)
  notes,    \* the credit_notes rows
  applied,  \* SUM(credit_notes.applied_amount) of the applied notes
  reads     \* what each request has read so far

invoiceVars == <<status, paid, lock, received>>
vars == <<status, paid, lock, received, notes, applied, reads>>

-----------------------------------------------------------------------------

\* Invoices are inserted as issued; nothing in the code writes 'overdue'.
Statuses == {"issued", "partially_paid", "paid", "void", "credited"}
PAYABLE_STATUSES == {"issued", "partially_paid"}
Settled == {"paid", "credited"}

Note == [status : {"none", "issued", "applied"}, amount : Amounts \cup {0}]
NotIssued == [status |-> "none", amount |-> 0]

Read == [pc : {"idle", "note", "invoice", "credits"},
         note : Notes \cup {NoNote},
         status : Statuses, paid : Nat, lock : Nat, credits : Nat]
At(pc, n, s, p, l, c) ==
  [pc |-> pc, note |-> n, status |-> s, paid |-> p, lock |-> l, credits |-> c]
Idle == At("idle", NoNote, "issued", 0, 0, 0)

TypeOK ==
  /\ status \in Statuses
  /\ paid \in Nat
  /\ lock \in Nat \ {0}
  /\ received \in Nat
  /\ notes \in [Notes -> Note]
  /\ applied \in Nat
  /\ reads \in [Requests -> Read]

Init ==
  /\ status = "issued"
  /\ paid = 0
  /\ lock = 1
  /\ received = 0
  /\ notes = [n \in Notes |-> NotIssued]
  /\ applied = 0
  /\ reads = [r \in Requests |-> Idle]

-----------------------------------------------------------------------------
(***************************************************************************)
(* The reads.                                                              *)
(***************************************************************************)

\* Applying a credit note reads the note first; it must still be issued.
FindCreditNote(r, n) ==
  /\ reads[r].pc = "idle"
  /\ notes[n].status = "issued"
  /\ reads' = [reads EXCEPT ![r] = At("note", n, "issued", 0, 0, 0)]
  /\ UNCHANGED <<invoiceVars, notes, applied>>

FindInvoice(r) ==
  /\ reads[r].pc \in {"idle", "note"}
  /\ reads' = [reads EXCEPT ![r] = At("invoice", @.note, status, paid, lock, 0)]
  /\ UNCHANGED <<invoiceVars, notes, applied>>

FindAppliedCredits(r) ==
  /\ reads[r].pc = "invoice"
  /\ reads' = [reads EXCEPT ![r] =
                 At("credits", @.note, @.status, @.paid, @.lock, applied)]
  /\ UNCHANGED <<invoiceVars, notes, applied>>

\* A rule refuses, a guarded write finds nothing, the transaction is rolled
\* back or the process stops.
RequestFails(r) ==
  /\ reads[r].pc # "idle"
  /\ reads' = [reads EXCEPT ![r] = Idle]
  /\ UNCHANGED <<invoiceVars, notes, applied>>

-----------------------------------------------------------------------------
(***************************************************************************)
(* The writes.                                                             *)
(***************************************************************************)

Outstanding(s) ==
  IF Due > s.paid + s.credits THEN Due - (s.paid + s.credits) ELSE 0

\* All reads done, for a request that names credit note n or none.
Ready(r, n) == reads[r].pc = "credits" /\ reads[r].note = n

Done(r) == reads' = [reads EXCEPT ![r] = Idle]

\* UPDATE invoices ... WHERE lock_version = the one read
UpdateInvoice(r, s, p) ==
  /\ reads[r].lock = lock
  /\ status' = s
  /\ paid' = p
  /\ lock' = lock + 1

StatusAfterPayment(s, amount) ==
  IF s.paid + amount + s.credits >= Due THEN "paid" ELSE "partially_paid"

\* Variant (fault model): the invoice is written without its lock_version.
ApplyPaymentUnguarded(r, amount) ==
  LET s == reads[r]
  IN /\ Ready(r, NoNote)
     /\ s.status \in PAYABLE_STATUSES
     /\ amount <= Outstanding(s)
     /\ status' = StatusAfterPayment(s, amount)
     /\ paid' = s.paid + amount
     /\ lock' = lock + 1
     /\ received' = received + amount
     /\ Done(r)
     /\ UNCHANGED <<notes, applied>>

\* Variant (fault model): the payment is not compared with the balance.
ApplyPaymentUnchecked(r, amount) ==
  LET s == reads[r]
  IN /\ Ready(r, NoNote)
     /\ s.status \in PAYABLE_STATUSES
     /\ UpdateInvoice(r, StatusAfterPayment(s, amount), s.paid + amount)
     /\ received' = received + amount
     /\ Done(r)
     /\ UNCHANGED <<notes, applied>>

\* Variant (fault model): the status of the invoice is not looked at.
ApplyPaymentToAny(r, amount) ==
  LET s == reads[r]
  IN /\ Ready(r, NoNote)
     /\ amount <= Outstanding(s)
     /\ UpdateInvoice(r, StatusAfterPayment(s, amount), s.paid + amount)
     /\ received' = received + amount
     /\ Done(r)
     /\ UNCHANGED <<notes, applied>>

ApplyPayment(r, amount) ==
  LET s == reads[r]
  IN /\ Ready(r, NoNote)
     /\ s.status \in PAYABLE_STATUSES
     /\ amount <= Outstanding(s)
     /\ UpdateInvoice(r, StatusAfterPayment(s, amount), s.paid + amount)
     /\ received' = received + amount
     /\ Done(r)
     /\ UNCHANGED <<notes, applied>>

\* Variant (fault model): a status the CHECK of the invoices table does not list.
VoidAsCancelled(r) ==
  LET s == reads[r]
  IN /\ Ready(r, NoNote)
     /\ s.paid = 0
     /\ s.credits = 0
     /\ s.status = "issued"
     /\ UpdateInvoice(r, "cancelled", paid)
     /\ Done(r)
     /\ UNCHANGED <<received, notes, applied>>

VoidInvoice(r) ==
  LET s == reads[r]
  IN /\ Ready(r, NoNote)
     /\ s.paid = 0
     /\ s.credits = 0
     /\ s.status = "issued"
     /\ UpdateInvoice(r, "void", paid)
     /\ Done(r)
     /\ UNCHANGED <<received, notes, applied>>

\* Only the amount is checked, against the credits already applied: notes that
\* are issued and not applied do not count, nor does the invoice's status.
IssueCreditNote(r, n, amount) ==
  LET s == reads[r]
  IN /\ Ready(r, NoNote)
     /\ notes[n] = NotIssued
     /\ s.paid + s.credits + amount <= Due
     /\ notes' = [notes EXCEPT ![n] = [status |-> "issued", amount |-> amount]]
     /\ Done(r)
     /\ UNCHANGED <<invoiceVars, applied>>

\* invoiceStatusAfterCredit
Covers(s, amount) == s.paid + s.credits + amount >= Due

\* Variant (fault model): the note's UPDATE without AND status = 'issued'.
ApplyCreditNoteTwice(r, n) ==
  LET s == reads[r]
      amount == notes[n].amount
  IN /\ Ready(r, n)
     /\ s.paid + s.credits + amount <= Due
     /\ notes' = [notes EXCEPT ![n] = [@ EXCEPT !.status = "applied"]]
     /\ applied' = IF notes[n].status = "applied" THEN applied ELSE applied + amount
     /\ IF Covers(s, amount) /\ s.status # "credited"
          THEN UpdateInvoice(r, "credited", paid)
          ELSE UNCHANGED <<status, paid, lock>>
     /\ Done(r)
     /\ UNCHANGED received

\* Variant (fault model): applied_amount is left at zero.
ApplyCreditNoteWithoutAmount(r, n) ==
  LET s == reads[r]
      amount == notes[n].amount
  IN /\ Ready(r, n)
     /\ s.paid + s.credits + amount <= Due
     /\ notes[n].status = "issued"
     /\ notes' = [notes EXCEPT ![n] = [@ EXCEPT !.status = "applied"]]
     /\ IF Covers(s, amount) /\ s.status # "credited"
          THEN UpdateInvoice(r, "credited", paid)
          ELSE UNCHANGED <<status, paid, lock>>
     /\ Done(r)
     /\ UNCHANGED <<received, applied>>

\* Variant (fault model): the invoice is written without its lock_version.
ApplyCreditNoteUnguarded(r, n) ==
  LET s == reads[r]
      amount == notes[n].amount
  IN /\ Ready(r, n)
     /\ s.paid + s.credits + amount <= Due
     /\ notes[n].status = "issued"
     /\ notes' = [notes EXCEPT ![n] = [@ EXCEPT !.status = "applied"]]
     /\ applied' = applied + amount
     /\ status' = IF Covers(s, amount) THEN "credited" ELSE status
     /\ lock' = lock + 1
     /\ Done(r)
     /\ UNCHANGED <<paid, received>>

\* The invoice is written, and its lock_version compared, only when the credit
\* changes its status.
ApplyCreditNote(r, n) ==
  LET s == reads[r]
      amount == notes[n].amount
  IN /\ Ready(r, n)
     /\ s.paid + s.credits + amount <= Due
     /\ notes[n].status = "issued"
     /\ notes' = [notes EXCEPT ![n] = [@ EXCEPT !.status = "applied"]]
     /\ applied' = applied + amount
     /\ \/ /\ Covers(s, amount) /\ s.status # "credited"
           /\ UpdateInvoice(r, "credited", paid)
        \/ /\ ~(Covers(s, amount) /\ s.status # "credited")
           /\ UNCHANGED <<status, paid, lock>>
     /\ Done(r)
     /\ UNCHANGED received

-----------------------------------------------------------------------------

Next ==
  \E r \in Requests :
    \/ \E n \in Notes : FindCreditNote(r, n)
    \/ FindInvoice(r)
    \/ FindAppliedCredits(r)
    \/ RequestFails(r)
    \/ \E amount \in Amounts : ApplyPayment(r, amount)
    \/ VoidInvoice(r)
    \/ \E n \in Notes, amount \in Amounts : IssueCreditNote(r, n, amount)
    \/ \E n \in Notes : ApplyCreditNote(r, n)

Spec == Init /\ [][Next]_vars

-----------------------------------------------------------------------------
(***************************************************************************)
(* What lock_version guarantees.                                           *)
(***************************************************************************)

\* The invoice's running total is what was received: no payment overwrites a
\* concurrent one, and none is recorded without being counted.
PaidIsReceived == paid = received

\* Payments never exceed the amount due, whatever is paid at the same time
\* (the CHECK of the invoices table is never what stops a payment).
PaidWithinDue == paid <= Due

\* A payment is never taken for an invoice that was settled or voided while the
\* payment was on its way.
NoMoneyAfterClose ==
  [][ (status \in Settled \cup {"void"}) => UNCHANGED received ]_vars

\* An invoice shown as paid or credited is covered by what was received and the
\* credits applied to it, although the credits are read without a lock.
SettledIsCovered == status \in Settled => paid + applied >= Due

\* The sum the code computes is the one the notes add up to: a note that was
\* applied counts, once, with its whole amount, and no other note does.
AppliedNotes == {n \in Notes : notes[n].status = "applied"}
AppliedIsSumOfNotes ==
  applied = SumFunctionOnSet([n \in Notes |-> notes[n].amount], AppliedNotes)

\* A paid or credited invoice never becomes anything else: in particular no
\* late credit turns a paid invoice into a credited one.
SettledIsFinal == [][ (status \in Settled) => UNCHANGED status ]_vars

-----------------------------------------------------------------------------
(***************************************************************************)
(* What these rest on.                                                     *)
(***************************************************************************)

\* While lock_version is the one a request read, so are the status and the
\* amount paid; the credits it read can only have grown.  A request that found
\* the invoice settled found it covered.
ReadsStand ==
  \A r \in Requests :
    LET s == reads[r]
    IN /\ s.pc \in {"invoice", "credits"} =>
            /\ s.lock <= lock
            /\ s.lock = lock => s.status = status /\ s.paid = paid
       /\ s.pc = "invoice" /\ s.status \in Settled => s.paid + applied >= Due
       /\ s.pc = "credits" =>
            /\ s.credits <= applied
            /\ s.status \in Settled => s.paid + s.credits >= Due

\* A note that has been issued has an amount.
NotesHaveAmounts ==
  /\ \A n \in Notes : notes[n].status # "none" => notes[n].amount \in Amounts
  /\ \A r \in Requests : reads[r].note \in Notes => notes[reads[r].note].status # "none"

IInv ==
  /\ TypeOK
  /\ PaidIsReceived
  /\ PaidWithinDue
  /\ SettledIsCovered
  /\ ReadsStand
  /\ NotesHaveAmounts

-----------------------------------------------------------------------------
(***************************************************************************)
(* What the comments of these files say and the code does not do.          *)
(***************************************************************************)

\* Credits never take the invoice below zero net.
NeverBelowZeroNet == paid + applied <= Due

=============================================================================
