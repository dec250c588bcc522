--------------------------- MODULE Billing_proofs ---------------------------
(***************************************************************************)
(* Proofs about Billing, for any set of requests, any finite set of credit *)
(* notes, any amount due and any amounts of payments and credits; and      *)
(* about Tiers, for any finite set of invoices, any dues and any tiers.    *)
(* The two share no state: Tiers takes up a payment where Billing's ends.  *)
(***************************************************************************)
EXTENDS Billing, Tiers, Sums, TLAPS

\* The fields of what a request has read.
LEMMA AtFields ==
  \A pc, n, s, p, l, c :
    /\ At(pc, n, s, p, l, c).pc = pc
    /\ At(pc, n, s, p, l, c).note = n
    /\ At(pc, n, s, p, l, c).status = s
    /\ At(pc, n, s, p, l, c).paid = p
    /\ At(pc, n, s, p, l, c).lock = l
    /\ At(pc, n, s, p, l, c).credits = c
BY DEF At

\* What a request has read is well typed when its parts are.
LEMMA AtType ==
  ASSUME NEW pc \in {"idle", "note", "invoice", "credits"},
         NEW n \in Notes \cup {NoNote}, NEW s \in Statuses,
         NEW p \in Nat, NEW l \in Nat, NEW c \in Nat
  PROVE  At(pc, n, s, p, l, c) \in Read
BY DEF At, Read

\* A request that has read nothing is well typed and names no credit note.
LEMMA IdleType == Idle \in Read /\ Idle.pc = "idle" /\ Idle.note = NoNote
<1>1. "issued" \in Statuses
  BY DEF Statuses
<1> QED
  BY <1>1, AtType, AtFields DEF Idle

-----------------------------------------------------------------------------
(***************************************************************************)
(* The effect of each write.                                               *)
(***************************************************************************)

\* What a write other than Issue changes, as the invariant sees it: either the
\* lock_version was the one read and moves, or the invoice is left alone and
\* credits are added.
InvoiceEffect ==
  /\ paid \in Nat /\ paid' \in Nat /\ applied' \in Nat /\ applied <= applied'
  /\ \/ status' = status /\ paid' = paid /\ lock' = lock
     \/ lock' = lock + 1

\* What a request that has read everything knows.
LEMMA ReadyFacts ==
  ASSUME IInv, NEW r \in Requests, NEW n, Ready(r, n)
  PROVE  LET s == reads[r]
         IN /\ s \in Read /\ s.paid \in Nat /\ s.credits \in Nat
            /\ s.note = n
            /\ s.lock = lock => s.status = status /\ s.paid = paid
            /\ s.credits <= applied
            /\ s.status \in Settled => s.paid + s.credits >= Due
BY DEF IInv, TypeOK, ReadsStand, Ready, Read

\* A payment within the outstanding balance leaves the total within the amount
\* due, and one that pays the invoice covers it.
LEMMA ApplyPaymentEffect ==
  ASSUME IInv, NEW r \in Requests, NEW amount \in Amounts, ApplyPayment(r, amount)
  PROVE  /\ InvoiceEffect
         /\ status \in PAYABLE_STATUSES /\ status' \in {"paid", "partially_paid"}
         /\ received' \in Nat /\ paid' = received' /\ paid' <= Due
         /\ status' \in Settled => paid' + applied' >= Due
<1> DEFINE s == reads[r]
<1>1. TypeOK /\ PaidIsReceived /\ PaidWithinDue
  BY DEF IInv
<1>2. /\ s.status \in PAYABLE_STATUSES /\ amount <= Outstanding(s)
      /\ s.lock = lock /\ lock' = lock + 1
      /\ paid' = s.paid + amount
      /\ status' = StatusAfterPayment(s, amount)
      /\ received' = received + amount /\ applied' = applied
      /\ Ready(r, NoNote)
  BY DEF ApplyPayment, UpdateInvoice
<1>3. /\ s.paid \in Nat /\ s.credits \in Nat
      /\ s.status = status /\ s.paid = paid /\ s.credits <= applied
  BY <1>2, ReadyFacts
<1>4. /\ paid \in Nat /\ received \in Nat /\ applied \in Nat
      /\ amount \in Nat \ {0} /\ Due \in Nat /\ paid = received
  BY <1>1, MoneyAssumption DEF TypeOK, PaidIsReceived
<1>5. paid' <= Due
  BY <1>2, <1>3, <1>4 DEF Outstanding
<1>6. /\ status' \in {"paid", "partially_paid"}
      /\ status' \in Settled => paid' + applied' >= Due
  BY <1>2, <1>3, <1>4 DEF StatusAfterPayment, Settled
<1> HIDE DEF s
<1> QED
  BY <1>2, <1>3, <1>4, <1>5, <1>6 DEF InvoiceEffect

\* A credit counts with its amount; it settles the invoice only when it covers
\* it, and it is refused when the request found it settled.
LEMMA ApplyCreditNoteEffect ==
  ASSUME IInv, NEW r \in Requests, NEW n \in Notes, ApplyCreditNote(r, n)
  PROVE  /\ InvoiceEffect
         /\ received' = received /\ paid' = paid
         /\ \/ status' = status
            \/ /\ status \notin Settled /\ status' = "credited"
               /\ paid' + applied' >= Due
<1> DEFINE s == reads[r]
           amount == notes[n].amount
<1>1. TypeOK /\ NotesHaveAmounts
  BY DEF IInv
<1>2. /\ Ready(r, n) /\ notes[n].status = "issued"
      /\ s.paid + s.credits + amount <= Due
      /\ applied' = applied + amount
      /\ received' = received
  BY DEF ApplyCreditNote
<1>3. /\ s.paid \in Nat /\ s.credits \in Nat
      /\ s.lock = lock => s.status = status /\ s.paid = paid
      /\ s.credits <= applied
      /\ s.status \in Settled => s.paid + s.credits >= Due
  BY <1>2, ReadyFacts
<1>4. /\ paid \in Nat /\ applied \in Nat /\ Due \in Nat
      /\ amount \in Nat \ {0}
  BY <1>1, <1>2, MoneyAssumption DEF TypeOK, NotesHaveAmounts
<1>5. CASE UNCHANGED <<status, paid, lock>>
  <2> HIDE DEF s, amount
  <2> QED
    BY <1>2, <1>4, <1>5 DEF InvoiceEffect
<1>6. CASE Covers(s, amount) /\ UpdateInvoice(r, "credited", paid)
  <2>1. /\ s.lock = lock /\ lock' = lock + 1 /\ paid' = paid
        /\ status' = "credited" /\ s.paid + s.credits + amount >= Due
    BY <1>6 DEF UpdateInvoice, Covers
  <2> HIDE DEF s, amount
  <2>2. status \notin Settled
    BY <1>2, <1>3, <1>4, <2>1
  <2> QED
    BY <1>2, <1>3, <1>4, <2>1, <2>2 DEF InvoiceEffect
<1> QED
  BY <1>5, <1>6 DEF ApplyCreditNote

\* An invoice is voided when the request found it unpaid, uncredited and issued.
LEMMA VoidInvoiceEffect ==
  ASSUME IInv, NEW r \in Requests, VoidInvoice(r)
  PROVE  /\ InvoiceEffect
         /\ status = "issued" /\ status' = "void"
         /\ paid' = paid /\ received' = received /\ applied' = applied
<1>1. Ready(r, NoNote) /\ reads[r].lock = lock /\ reads[r].status = "issued"
      /\ lock' = lock + 1 /\ status' = "void" /\ paid' = paid
      /\ received' = received /\ applied' = applied
  BY DEF VoidInvoice, UpdateInvoice
<1>2. status = "issued"
  BY <1>1, ReadyFacts
<1>3. paid \in Nat /\ applied \in Nat
  BY DEF IInv, TypeOK
<1> QED
  BY <1>1, <1>2, <1>3 DEF InvoiceEffect

-----------------------------------------------------------------------------
(***************************************************************************)
(* The inductive invariant.                                                *)
(***************************************************************************)

\* Whatever a write does to the invoice, what the other requests read stands.
LEMMA WriteKeepsReads ==
  ASSUME IInv, NEW r \in Requests, InvoiceEffect, Done(r)
  PROVE  /\ reads' \in [Requests -> Read]
         /\ lock' \in Nat \ {0}
         /\ ReadsStand'
<1>1. TypeOK /\ ReadsStand
  BY DEF IInv
<1>2. reads' = [reads EXCEPT ![r] = Idle] /\ reads \in [Requests -> Read]
  BY <1>1 DEF Done, TypeOK
<1>3. reads' \in [Requests -> Read]
  BY <1>2, IdleType
<1>4. lock \in Nat \ {0} /\ lock' \in Nat \ {0}
      /\ applied \in Nat /\ applied' \in Nat /\ applied <= applied' /\ Due \in Nat
  BY <1>1, MoneyAssumption DEF TypeOK, InvoiceEffect
<1> SUFFICES ASSUME NEW q \in Requests, reads'[q].pc \in {"invoice", "credits"}
             PROVE  LET s == reads'[q]
                    IN /\ s.lock <= lock'
                       /\ s.lock = lock' => s.status = status' /\ s.paid = paid'
                       /\ s.pc = "invoice" /\ s.status \in Settled =>
                            s.paid + applied' >= Due
                       /\ s.pc = "credits" =>
                            /\ s.credits <= applied'
                            /\ s.status \in Settled => s.paid + s.credits >= Due
  BY <1>3, <1>4 DEF ReadsStand
<1> DEFINE s == reads[q]
<1>5. reads'[q] = s
  BY <1>2, IdleType
<1>6. /\ s.lock \in Nat /\ s.paid \in Nat /\ s.credits \in Nat
      /\ s.lock <= lock
      /\ s.lock = lock => s.status = status /\ s.paid = paid
      /\ s.pc = "invoice" /\ s.status \in Settled => s.paid + applied >= Due
      /\ s.pc = "credits" =>
           /\ s.credits <= applied
           /\ s.status \in Settled => s.paid + s.credits >= Due
  BY <1>1, <1>5 DEF ReadsStand, TypeOK, Read
<1>7. /\ s.lock <= lock'
      /\ s.lock = lock' => s.status = status' /\ s.paid = paid'
  <2> HIDE DEF s
  <2> QED
    BY <1>4, <1>6 DEF InvoiceEffect
<1>8. /\ s.pc = "invoice" /\ s.status \in Settled => s.paid + applied' >= Due
      /\ s.pc = "credits" =>
           /\ s.credits <= applied'
           /\ s.status \in Settled => s.paid + s.credits >= Due
  <2> HIDE DEF s
  <2> QED
    BY <1>4, <1>6
<1> QED
  BY <1>5, <1>7, <1>8

\* A read changes the reads of one request.
LEMMA ReadKeepsInvariant ==
  ASSUME IInv, NEW r \in Requests, NEW s \in Read,
         reads' = [reads EXCEPT ![r] = s],
         UNCHANGED <<invoiceVars, notes, applied>>,
         s.note \in Notes => notes[s.note].status # "none",
         s.pc \in {"invoice", "credits"} =>
            /\ s.lock <= lock
            /\ s.lock = lock => s.status = status /\ s.paid = paid,
         s.pc = "invoice" /\ s.status \in Settled => s.paid + applied >= Due,
         s.pc = "credits" =>
            /\ s.credits <= applied
            /\ s.status \in Settled => s.paid + s.credits >= Due
  PROVE  IInv'
<1>1. TypeOK /\ ReadsStand /\ NotesHaveAmounts
  BY DEF IInv
<1>2. TypeOK'
  BY <1>1 DEF TypeOK, invoiceVars
<1>3. \A q \in Requests : reads'[q] = IF q = r THEN s ELSE reads[q]
  BY <1>1 DEF TypeOK
<1>4. ReadsStand'
  BY <1>1, <1>3 DEF ReadsStand, invoiceVars
<1>5. NotesHaveAmounts'
  BY <1>1, <1>3 DEF NotesHaveAmounts
<1> QED
  BY <1>2, <1>4, <1>5
     DEF IInv, PaidIsReceived, PaidWithinDue, SettledIsCovered, invoiceVars

\* The invariant holds of an invoice that has just been issued.
LEMMA InitInvariant ==
  ASSUME Init
  PROVE  IInv
<1>1. NotIssued \in Note /\ NotIssued.status = "none"
  BY DEF NotIssued, Note
<1>2. TypeOK
  BY <1>1, IdleType DEF Init, TypeOK, Statuses
<1>3. ReadsStand
  BY IdleType DEF Init, ReadsStand
<1>4. NotesHaveAmounts
  BY <1>1, IdleType, NoNoteAssumption DEF Init, NotesHaveAmounts
<1> QED
  BY <1>2, <1>3, <1>4, MoneyAssumption
     DEF Init, IInv, PaidIsReceived, PaidWithinDue, SettledIsCovered, Settled

\* Every request keeps the invariant: the reads by ReadKeepsInvariant, the
\* writes because UpdateInvoice compares the lock_version they read.
LEMMA StepInvariant ==
  ASSUME IInv, [Next]_vars
  PROVE  IInv'
<1>1. /\ TypeOK /\ PaidIsReceived /\ PaidWithinDue /\ SettledIsCovered
      /\ ReadsStand /\ NotesHaveAmounts
  BY DEF IInv
<1>2. /\ paid \in Nat /\ applied \in Nat /\ lock \in Nat /\ status \in Statuses
      /\ received \in Nat /\ Due \in Nat
  BY <1>1, MoneyAssumption DEF TypeOK
<1>3. ASSUME NEW r \in Requests, NEW n \in Notes, FindCreditNote(r, n)
      PROVE  IInv'
  <2> DEFINE s == At("note", n, "issued", 0, 0, 0)
  <2>1. s \in Read /\ s.pc = "note" /\ s.note = n
    BY AtType, AtFields DEF Statuses
  <2>2. /\ reads' = [reads EXCEPT ![r] = s] /\ notes[n].status = "issued"
        /\ UNCHANGED <<invoiceVars, notes, applied>>
    BY <1>3 DEF FindCreditNote
  <2> HIDE DEF s
  <2> QED
    BY <2>1, <2>2, ReadKeepsInvariant
<1>4. ASSUME NEW r \in Requests, FindInvoice(r)
      PROVE  IInv'
  <2> DEFINE s == At("invoice", reads[r].note, status, paid, lock, 0)
  <2>1. reads[r].note \in Notes \cup {NoNote}
    BY <1>1 DEF TypeOK, Read
  <2>2. /\ s \in Read /\ s.pc = "invoice" /\ s.note = reads[r].note
        /\ s.status = status /\ s.paid = paid /\ s.lock = lock
    BY <1>2, <2>1 DEF At, Read
  <2>3. /\ reads' = [reads EXCEPT ![r] = s]
        /\ UNCHANGED <<invoiceVars, notes, applied>>
    BY <1>4 DEF FindInvoice
  <2>4. s.note \in Notes => notes[s.note].status # "none"
    BY <1>1, <2>2 DEF NotesHaveAmounts
  <2> HIDE DEF s
  <2>5. /\ s.lock <= lock
        /\ s.status \in Settled => s.paid + applied >= Due
    BY <1>1, <1>2, <2>2 DEF SettledIsCovered
  <2> QED
    BY <2>2, <2>3, <2>4, <2>5, ReadKeepsInvariant
<1>5. ASSUME NEW r \in Requests, FindAppliedCredits(r)
      PROVE  IInv'
  <2> DEFINE q == reads[r]
             s == At("credits", q.note, q.status, q.paid, q.lock, applied)
  <2>1. q \in Read /\ q.pc = "invoice"
    BY <1>1, <1>5 DEF TypeOK, FindAppliedCredits
  <2>2. /\ s \in Read /\ s.pc = "credits" /\ s.note = q.note
        /\ s.status = q.status /\ s.paid = q.paid /\ s.lock = q.lock
        /\ s.credits = applied
    <3>1. /\ q.note \in Notes \cup {NoNote} /\ q.status \in Statuses
          /\ q.paid \in Nat /\ q.lock \in Nat
      BY <2>1 DEF Read
    <3> HIDE DEF q
    <3> QED
      BY <1>2, <3>1 DEF At, Read
  <2>3. /\ reads' = [reads EXCEPT ![r] = s]
        /\ UNCHANGED <<invoiceVars, notes, applied>>
    BY <1>5 DEF FindAppliedCredits
  <2>4. /\ q.lock <= lock
        /\ q.lock = lock => q.status = status /\ q.paid = paid
        /\ q.status \in Settled => q.paid + applied >= Due
        /\ q.note \in Notes => notes[q.note].status # "none"
    BY <1>1, <2>1 DEF ReadsStand, NotesHaveAmounts
  <2> HIDE DEF q, s
  <2>5. /\ s.lock <= lock
        /\ s.lock = lock => s.status = status /\ s.paid = paid
        /\ s.credits <= applied
        /\ s.status \in Settled => s.paid + s.credits >= Due
        /\ s.note \in Notes => notes[s.note].status # "none"
    BY <1>2, <2>2, <2>4
  <2> QED
    BY <2>2, <2>3, <2>5, ReadKeepsInvariant
<1>6. ASSUME NEW r \in Requests, RequestFails(r)
      PROVE  IInv'
  BY <1>6, IdleType, NoNoteAssumption, ReadKeepsInvariant DEF RequestFails
<1>7. ASSUME NEW r \in Requests, NEW amount \in Amounts, ApplyPayment(r, amount)
      PROVE  IInv'
  <2>1. /\ InvoiceEffect /\ Done(r) /\ notes' = notes
        /\ status' \in {"paid", "partially_paid"}
        /\ received' \in Nat /\ paid' = received' /\ paid' <= Due
        /\ status' \in Settled => paid' + applied' >= Due
    BY <1>7, ApplyPaymentEffect DEF ApplyPayment
  <2>2. reads' \in [Requests -> Read] /\ lock' \in Nat \ {0} /\ ReadsStand'
    BY <2>1, WriteKeepsReads
  <2>3. TypeOK'
    BY <1>1, <2>1, <2>2 DEF TypeOK, Statuses, InvoiceEffect
  <2>4. NotesHaveAmounts'
    BY <1>1, <2>1, IdleType, NoNoteAssumption DEF NotesHaveAmounts, Done, TypeOK
  <2> QED
    BY <2>1, <2>2, <2>3, <2>4
       DEF IInv, PaidIsReceived, PaidWithinDue, SettledIsCovered
<1>8. ASSUME NEW r \in Requests, VoidInvoice(r)
      PROVE  IInv'
  <2>1. /\ InvoiceEffect /\ Done(r) /\ notes' = notes
        /\ status' = "void" /\ paid' = paid /\ received' = received
        /\ applied' = applied
    BY <1>8, VoidInvoiceEffect DEF VoidInvoice
  <2>2. reads' \in [Requests -> Read] /\ lock' \in Nat \ {0} /\ ReadsStand'
    BY <2>1, WriteKeepsReads
  <2>3. TypeOK'
    BY <1>1, <2>1, <2>2 DEF TypeOK, Statuses
  <2>4. NotesHaveAmounts'
    BY <1>1, <2>1, IdleType, NoNoteAssumption DEF NotesHaveAmounts, Done, TypeOK
  <2> QED
    BY <1>1, <2>1, <2>2, <2>3, <2>4
       DEF IInv, PaidIsReceived, PaidWithinDue, SettledIsCovered, Settled
<1>9. ASSUME NEW r \in Requests, NEW n \in Notes, NEW amount \in Amounts,
             IssueCreditNote(r, n, amount)
      PROVE  IInv'
  <2>1. /\ UNCHANGED <<invoiceVars, applied>> /\ Done(r)
        /\ notes' = [notes EXCEPT ![n] = [status |-> "issued", amount |-> amount]]
    BY <1>9 DEF IssueCreditNote
  <2>2. InvoiceEffect
    BY <1>2, <2>1 DEF InvoiceEffect, invoiceVars
  <2>3. reads' \in [Requests -> Read] /\ ReadsStand'
    BY <2>1, <2>2, WriteKeepsReads
  <2>4. notes' \in [Notes -> Note]
    BY <1>1, <2>1 DEF TypeOK, Note
  <2>5. NotesHaveAmounts'
    BY <1>1, <2>1, IdleType, NoNoteAssumption DEF NotesHaveAmounts, Done, TypeOK
  <2> QED
    BY <1>1, <2>1, <2>3, <2>4, <2>5
       DEF IInv, TypeOK, PaidIsReceived, PaidWithinDue, SettledIsCovered, invoiceVars
<1>10. ASSUME NEW r \in Requests, NEW n \in Notes, ApplyCreditNote(r, n)
       PROVE  IInv'
  <2>1. /\ InvoiceEffect /\ Done(r)
        /\ notes[n].status = "issued"
        /\ notes' = [notes EXCEPT ![n] = [notes[n] EXCEPT !.status = "applied"]]
        /\ paid' = paid /\ received' = received
        /\ \/ status' = status
           \/ status' = "credited" /\ paid' + applied' >= Due
    BY <1>10, ApplyCreditNoteEffect DEF ApplyCreditNote
  <2>2. reads' \in [Requests -> Read] /\ lock' \in Nat \ {0} /\ ReadsStand'
    BY <2>1, WriteKeepsReads
  <2>3. [notes[n] EXCEPT !.status = "applied"] \in Note
        /\ [notes[n] EXCEPT !.status = "applied"].amount = notes[n].amount
        /\ [notes[n] EXCEPT !.status = "applied"].status = "applied"
    BY <1>1 DEF TypeOK, Note
  <2>4. NotesHaveAmounts'
    BY <1>1, <2>1, <2>3, IdleType, NoNoteAssumption
       DEF NotesHaveAmounts, Done, TypeOK
  <2>5. TypeOK'
    BY <1>1, <2>1, <2>2, <2>3 DEF TypeOK, Statuses, InvoiceEffect
  <2>6. SettledIsCovered'
    BY <1>1, <1>2, <2>1 DEF SettledIsCovered, InvoiceEffect
  <2> QED
    BY <1>1, <2>1, <2>2, <2>4, <2>5, <2>6 DEF IInv, PaidIsReceived, PaidWithinDue
<1>11. CASE UNCHANGED vars
  BY <1>1, <1>11 DEF vars, IInv, TypeOK, PaidIsReceived, PaidWithinDue,
     SettledIsCovered, ReadsStand, NotesHaveAmounts
<1> QED
  BY <1>3, <1>4, <1>5, <1>6, <1>7, <1>8, <1>9, <1>10, <1>11 DEF Next

-----------------------------------------------------------------------------
(***************************************************************************)
(* The theorems.                                                           *)
(***************************************************************************)

\* The inductive invariant: what a request read stands while lock_version does.
THEOREM Invariant == Spec => []IInv
BY InitInvariant, StepInvariant, PTL DEF Spec

\* amount_paid is the sum of the payments received.
THEOREM NothingLost == Spec => []PaidIsReceived
<1>1. IInv => PaidIsReceived
  BY DEF IInv
<1> QED
  BY <1>1, Invariant, PTL

\* Payments alone never exceed the amount due.
THEOREM NeverOverpaid == Spec => []PaidWithinDue
<1>1. IInv => PaidWithinDue
  BY DEF IInv
<1> QED
  BY <1>1, Invariant, PTL

\* A paid or credited invoice is covered by payments and applied credits.
THEOREM SettledMeansCovered == Spec => []SettledIsCovered
<1>1. IInv => SettledIsCovered
  BY DEF IInv
<1> QED
  BY <1>1, Invariant, PTL

\* No payment is taken for an invoice that is settled or void.
THEOREM ClosedTakesNoMoney == Spec => NoMoneyAfterClose
<1> DEFINE A == (status \in Settled \cup {"void"}) => UNCHANGED received
<1>1. ASSUME IInv, [Next]_vars
      PROVE  [A]_vars
  <2>1. ASSUME NEW r \in Requests, NEW amount \in Amounts, ApplyPayment(r, amount)
        PROVE  A
    <3>1. status \in PAYABLE_STATUSES
      BY <1>1, <2>1, ApplyPaymentEffect
    <3> QED
      BY <3>1 DEF PAYABLE_STATUSES, Settled
  <2>2. (\A r \in Requests, amount \in Amounts : ~ApplyPayment(r, amount))
          => received' = received
    BY <1>1 DEF Next, vars, invoiceVars, FindCreditNote, FindInvoice,
       FindAppliedCredits, RequestFails, VoidInvoice, IssueCreditNote, ApplyCreditNote
  <2> QED
    BY <2>1, <2>2
<1> QED
  BY <1>1, Invariant, PTL DEF Spec, NoMoneyAfterClose

\* A settled invoice keeps its status.
THEOREM SettledStaysSettled == Spec => SettledIsFinal
<1> DEFINE A == (status \in Settled) => UNCHANGED status
<1>1. ASSUME IInv, [Next]_vars
      PROVE  [A]_vars
  <2> SUFFICES ASSUME status \in Settled PROVE status' = status
    OBVIOUS
  <2>1. \A r \in Requests, amount \in Amounts : ~ApplyPayment(r, amount)
    BY <1>1, ApplyPaymentEffect DEF PAYABLE_STATUSES, Settled
  <2>2. \A r \in Requests : ~VoidInvoice(r)
    BY <1>1, VoidInvoiceEffect DEF Settled
  <2>3. ASSUME NEW r \in Requests, NEW n \in Notes, ApplyCreditNote(r, n)
        PROVE  status' = status
    BY <1>1, <2>3, ApplyCreditNoteEffect
  <2> QED
    BY <1>1, <2>1, <2>2, <2>3 DEF Next, vars, invoiceVars, FindCreditNote,
       FindInvoice, FindAppliedCredits, RequestFails, IssueCreditNote
<1> QED
  BY <1>1, Invariant, PTL DEF Spec, SettledIsFinal

-----------------------------------------------------------------------------
(***************************************************************************)
(* The applied credits.                                                    *)
(***************************************************************************)

\* Notes that count the same, with the same amounts, add up to the same.
LEMMA CreditsAgree ==
  ASSUME TypeOK, AppliedIsSumOfNotes, applied' = applied,
         \A n \in Notes : notes'[n].status = "applied" <=> notes[n].status = "applied",
         \A n \in AppliedNotes : notes'[n].amount = notes[n].amount
  PROVE  AppliedIsSumOfNotes'
<1> DEFINE f == [n \in Notes |-> notes[n].amount]
           g == [n \in Notes |-> notes'[n].amount]
<1>1. AppliedNotes' = AppliedNotes /\ IsFiniteSet(AppliedNotes) /\ AppliedNotes \subseteq Notes
  BY NotesAssumption, FS_Subset DEF AppliedNotes
<1>2. \A n \in AppliedNotes : f[n] = g[n]
  BY <1>1
<1>3. SumFunctionOnSet(f, AppliedNotes) = SumFunctionOnSet(g, AppliedNotes)
  <2> HIDE DEF f, g
  <2> QED
    BY <1>1, <1>2, SumAgree
<1> QED
  BY <1>1, <1>3 DEF AppliedIsSumOfNotes

\* The sum is kept: a note is issued with nothing applied, and its amount is
\* added in the step in which it begins to count.
LEMMA CreditsStep ==
  ASSUME TypeOK, AppliedIsSumOfNotes, [Next]_vars
  PROVE  AppliedIsSumOfNotes'
<1>1. CASE UNCHANGED <<notes, applied>>
  BY <1>1, CreditsAgree
<1>2. ASSUME NEW r \in Requests, NEW n \in Notes, NEW amount \in Amounts,
             IssueCreditNote(r, n, amount)
      PROVE  AppliedIsSumOfNotes'
  <2>1. /\ \A k \in Notes \ {n} : notes'[k] = notes[k]
        /\ notes'[n] = [status |-> "issued", amount |-> amount]
        /\ notes[n] = NotIssued /\ applied' = applied
    BY <1>2 DEF IssueCreditNote, TypeOK
  <2>2. notes[n].status = "none" /\ notes'[n].status = "issued"
    BY <2>1 DEF NotIssued
  <2>3. \A k \in Notes : notes'[k].status = "applied" <=> notes[k].status = "applied"
    BY <2>1, <2>2
  <2>4. \A k \in AppliedNotes : notes'[k].amount = notes[k].amount
    BY <2>1, <2>2 DEF AppliedNotes
  <2> QED
    BY <2>1, <2>3, <2>4, CreditsAgree
<1>3. ASSUME NEW r \in Requests, NEW n \in Notes, ApplyCreditNote(r, n)
      PROVE  AppliedIsSumOfNotes'
  <2> DEFINE f == [k \in Notes |-> notes[k].amount]
             g == [k \in Notes |-> notes'[k].amount]
  <2>1. /\ \A k \in Notes \ {n} : notes'[k] = notes[k]
        /\ notes'[n] = [notes[n] EXCEPT !.status = "applied"]
        /\ notes[n].status = "issued" /\ applied' = applied + notes[n].amount
    BY <1>3 DEF ApplyCreditNote, TypeOK
  <2>2. notes'[n].status = "applied" /\ notes'[n].amount = notes[n].amount
    BY <2>1 DEF TypeOK, Note
  <2>3. AppliedNotes' = AppliedNotes \cup {n} /\ n \notin AppliedNotes
    BY <2>1, <2>2 DEF AppliedNotes
  <2>4. IsFiniteSet(AppliedNotes) /\ AppliedNotes \subseteq Notes
    BY NotesAssumption, FS_Subset DEF AppliedNotes
  <2>5. \A k \in Notes : f[k] = notes[k].amount /\ g[k] = f[k] /\ f[k] \in Nat
    <3>1. \A k \in Notes : notes[k].amount \in Nat
      <4>1. ASSUME NEW k \in Notes PROVE notes[k] \in Note
        BY DEF TypeOK
      <4>2. Amounts \cup {0} \subseteq Nat
        BY MoneyAssumption
      <4> QED
        BY <4>1, <4>2 DEF Note
    <3> QED
      BY <2>1, <2>2, <3>1
  <2> HIDE DEF f, g
  <2>6. SumFunctionOnSet(f, AppliedNotes \cup {n}) = f[n] + SumFunctionOnSet(f, AppliedNotes)
    <3>1. \A k \in AppliedNotes \cup {n} : f[k] \in Int
      BY <2>4, <2>5
    <3> HIDE DEF AppliedNotes
    <3> QED
      BY <2>3, <2>4, <3>1, SumAdd
  <2>7. SumFunctionOnSet(g, AppliedNotes \cup {n}) = SumFunctionOnSet(f, AppliedNotes \cup {n})
    BY <2>4, <2>5, FS_AddElement, SumAgree
  <2>8. applied = SumFunctionOnSet(f, AppliedNotes) /\ applied \in Nat
    BY DEF AppliedIsSumOfNotes, TypeOK, f
  <2>9. applied' = SumFunctionOnSet(g, AppliedNotes \cup {n})
    BY <2>1, <2>5, <2>6, <2>7, <2>8
  <2> QED
    BY <2>3, <2>9 DEF AppliedIsSumOfNotes, g
<1> QED
  BY <1>1, <1>2, <1>3 DEF Next, vars, FindCreditNote, FindInvoice, FindAppliedCredits,
     RequestFails, ApplyPayment, VoidInvoice

\* SUM(applied_amount) is what the applied notes add up to, however the
\* requests that issue and apply them interleave.
THEOREM CreditsAddUp == Spec => []AppliedIsSumOfNotes
<1>1. Init => AppliedIsSumOfNotes
  <2> SUFFICES ASSUME Init PROVE AppliedIsSumOfNotes
    OBVIOUS
  <2>1. AppliedNotes = {} /\ applied = 0
    BY DEF Init, AppliedNotes, NotIssued
  <2>2. SumFunctionOnSet([n \in Notes |-> notes[n].amount], {}) = 0
    BY SumEmpty
  <2> QED
    BY <2>1, <2>2 DEF AppliedIsSumOfNotes
<1>2. IInv /\ AppliedIsSumOfNotes /\ [Next]_vars => AppliedIsSumOfNotes'
  BY CreditsStep DEF IInv
<1> QED
  BY <1>1, <1>2, Invariant, PTL DEF Spec

-----------------------------------------------------------------------------
(***************************************************************************)
(* Tiers: any invoices and any requirements of the tiers.                  *)
(***************************************************************************)

\* A tier is evaluated for a customer without an override, and an evaluation
\* that has found one leaves the tier as it is.
OverrideIsKept ==
  \A i \in Invoices :
    /\ payment[i].pc = "evaluating" => customer.source = "automatic"
    /\ payment[i].pc = "evaluated" /\ customer.source = "admin_override"
         => payment[i].tier = customer.tier

\* The lock on the customer admits one evaluation at a time.
Evaluates(p) == p.pc \in {"evaluating", "evaluated"}
OneEvaluation == \A i, j \in Invoices : Evaluates(payment[i]) /\ Evaluates(payment[j]) => i = j

\* The payment that settles an invoice finds something to pay and finds it issued.
PaymentsPay ==
  \A i \in Invoices :
    /\ invoices[i].credit <= AmountDue[i]
    /\ payment[i].pc # "idle" => invoices[i].status = "issued"

\* What the evaluation of one payment found stands until it commits: nothing
\* is paid meanwhile, and a credit only lowers what was spent.
EvaluationStands ==
  \A i \in Invoices : payment[i].pc = "evaluated" /\ customer.source = "automatic" =>
    \A t \in Tiers :
      Earns(t, NetSpend + payment[i].amount - invoices[i].credit, Cardinality(Paid) + 1)
        => payment[i].tier >= t

TierInv ==
  /\ TierTypeOK /\ PaymentsPay
  /\ OverrideIsKept /\ OneEvaluation
  /\ EvaluationStands /\ TierKeepsUp

-----------------------------------------------------------------------------

\* No transaction.
LEMMA NotPayingFacts == NotPaying \in Payment /\ NotPaying.pc = "idle"
BY DEF NotPaying, Payment

\* The totals are numbers.
LEMMA SpendType ==
  ASSUME TierTypeOK
  PROVE  /\ IsFiniteSet(Paid) /\ Paid \subseteq Invoices /\ Cardinality(Paid) \in Nat
         /\ \A i \in Invoices : NetPaid[i] = invoices[i].paid - invoices[i].credit
         /\ \A i \in Invoices : NetPaid[i] \in Int
         /\ NetSpend \in Int
<1>1. IsFiniteSet(Paid) /\ Paid \subseteq Invoices /\ Cardinality(Paid) \in Nat
  BY InvoicesAssumption, FS_Subset, FS_CardinalityType DEF Paid
<1>2. \A i \in Invoices : NetPaid[i] = invoices[i].paid - invoices[i].credit
  BY DEF NetPaid
<1>3. \A i \in Invoices : NetPaid[i] \in Int
  BY <1>2 DEF TierTypeOK, Invoice
<1>4. \A i \in Paid : NetPaid[i] \in Int
  BY <1>1, <1>3
<1>5. NetSpend \in Int
  <2> HIDE DEF Paid
  <2> QED
    BY <1>1, <1>4, SumType DEF NetSpend
<1> QED
  BY <1>1, <1>2, <1>3, <1>5

\* The totals are over paid invoices only.
LEMMA SpendKept ==
  ASSUME TierTypeOK, TierTypeOK', Paid' = Paid, \A i \in Paid : invoices'[i] = invoices[i]
  PROVE  NetSpend' = NetSpend
<1>1. \A i \in Paid : NetPaid[i] = NetPaid'[i]
  BY SpendType DEF NetPaid
<1>2. SumFunctionOnSet(NetPaid, Paid) = SumFunctionOnSet(NetPaid', Paid)
  BY <1>1, SpendType, SumAgree
<1> QED
  BY <1>2 DEF NetSpend

\* An invoice that is paid adds what was paid and not credited.
LEMMA SpendGrows ==
  ASSUME TierTypeOK, TierTypeOK', NEW i \in Invoices, i \notin Paid, Paid' = Paid \cup {i},
         \A j \in Paid : invoices'[j] = invoices[j]
  PROVE  /\ NetSpend' = NetSpend + invoices'[i].paid - invoices'[i].credit
         /\ Cardinality(Paid') = Cardinality(Paid) + 1
<1>1. /\ IsFiniteSet(Paid) /\ Paid \subseteq Invoices /\ NetSpend \in Int
      /\ \A j \in Invoices : NetPaid[j] = invoices[j].paid - invoices[j].credit
      /\ \A j \in Invoices : NetPaid'[j] = invoices'[j].paid - invoices'[j].credit
      /\ \A j \in Invoices : NetPaid'[j] \in Int
  <2>1. \A j \in Invoices : NetPaid'[j] = invoices'[j].paid - invoices'[j].credit
    BY DEF NetPaid
  <2>2. \A j \in Invoices : NetPaid'[j] \in Int
    BY <2>1 DEF TierTypeOK, Invoice
  <2> QED
    BY <2>1, <2>2, SpendType
<1>2. \A j \in Paid \cup {i} : NetPaid'[j] \in Int
  BY <1>1
<1>3. SumFunctionOnSet(NetPaid', Paid \cup {i}) = NetPaid'[i] + SumFunctionOnSet(NetPaid', Paid)
  <2> HIDE DEF Paid, NetPaid
  <2> QED
    BY <1>1, <1>2, SumAdd
<1>4. \A j \in Paid : NetPaid[j] = NetPaid'[j]
  BY <1>1
<1>5. SumFunctionOnSet(NetPaid, Paid) = SumFunctionOnSet(NetPaid', Paid)
  BY <1>1, <1>4, SumAgree
<1>6. NetSpend' = NetPaid'[i] + NetSpend
  BY <1>3, <1>5 DEF NetSpend
<1>7. invoices'[i].paid \in Int /\ invoices'[i].credit \in Int
  BY DEF TierTypeOK, Invoice
<1>8. Cardinality(Paid \cup {i}) = Cardinality(Paid) + 1
  <2> HIDE DEF Paid
  <2> QED
    BY <1>1, FS_AddElement
<1>9. NetSpend' = NetSpend + invoices'[i].paid - invoices'[i].credit
  <2>1. NetPaid'[i] = invoices'[i].paid - invoices'[i].credit
    BY <1>1
  <2> QED
    BY <1>1, <1>6, <1>7, <2>1
<1> QED
  BY <1>8, <1>9

\* Whoever has spent more has earned no less.
LEMMA EarnsMore ==
  ASSUME NEW t \in Tiers, NEW m \in Int, NEW n \in Int, m <= n, NEW c, Earns(t, m, c)
  PROVE  Earns(t, n, c)
<1>1. QualifySpend[t] \in Nat
  BY TierAssumption DEF Tiers
<1> QED
  BY <1>1 DEF Earns

\* The tier found is the highest earned.
LEMMA HighestFacts ==
  ASSUME NEW n, NEW c
  PROVE  LET h == HighestEligibleTier(n, c)
         IN h \in {NoTier} \cup Tiers /\ \A t \in Tiers : Earns(t, n, c) => h >= t
<1> DEFINE S == {NoTier} \cup {t \in Tiers : Earns(t, n, c)}
<1>1. Len(QualifySpend) \in Nat
  BY TierAssumption
<1>2. IsFiniteSet(Tiers) /\ Tiers \subseteq Int
  BY <1>1, FS_Interval DEF Tiers
<1>3. IsFiniteSet({t \in Tiers : Earns(t, n, c)})
  BY <1>2, FS_Subset
<1>4. IsFiniteSet(S)
  <2>1. S = {t \in Tiers : Earns(t, n, c)} \cup {NoTier}
    OBVIOUS
  <2> QED
    BY <1>3, <2>1, FS_AddElement
<1>5. S # {} /\ S \subseteq Int
  <2> HIDE DEF Tiers
  <2>1. NoTier \in Int
    BY DEF NoTier
  <2> QED
    BY <1>2, <2>1
<1>6. Max(S) \in S /\ \A x \in S : Max(S) >= x
  <2> HIDE DEF S
  <2> QED
    BY <1>4, <1>5, MaxFacts
<1> QED
  BY <1>6 DEF HighestEligibleTier

-----------------------------------------------------------------------------

\* The invariant holds initially.
LEMMA TierInvInit == TierInit => TierInv
<1> SUFFICES ASSUME TierInit PROVE TierInv
  OBVIOUS
<1>1. \A i \in Invoices : payment[i] = NotPaying
  BY DEF TierInit
<1>2. \A i \in Invoices : invoices[i] = [status |-> "issued", paid |-> 0, credit |-> 0]
  BY DEF TierInit
<1>3. TierTypeOK
  <2>1. customer \in Customer
    BY DEF TierInit, Customer
  <2>2. [status |-> "issued", paid |-> 0, credit |-> 0] \in Invoice
    BY DEF Invoice
  <2> QED
    BY <2>1, <2>2, NotPayingFacts DEF TierInit, TierTypeOK
<1>4. PaymentsPay
  <2>1. \A i \in Invoices : AmountDue[i] \in Nat /\ invoices[i].credit = 0
    BY <1>2, InvoicesAssumption
  <2> QED
    BY <1>1, <2>1, NotPayingFacts DEF PaymentsPay
<1>5. Paid = {}
  BY <1>2 DEF Paid
<1>6. OverrideIsKept /\ OneEvaluation /\ EvaluationStands
  BY <1>1, NotPayingFacts DEF OverrideIsKept, OneEvaluation, Evaluates, EvaluationStands
<1> QED
  BY <1>3, <1>4, <1>5, <1>6 DEF TierInv, TierKeepsUp

\* A step of one payment that leaves the invoices and the customer alone.
LEMMA PaymentStep ==
  ASSUME TierInv, NEW i \in Invoices, NEW p \in Payment,
         payment' = [payment EXCEPT ![i] = p], UNCHANGED <<invoices, customer>>,
         p.pc # "idle" => invoices[i].status = "issued",
         p.pc = "evaluating" => customer.source = "automatic",
         p.pc = "evaluated" /\ customer.source = "admin_override" => p.tier = customer.tier,
         Evaluates(p) => \A j \in Invoices \ {i} : ~Evaluates(payment[j]),
         p.pc = "evaluated" /\ customer.source = "automatic" =>
           \A t \in Tiers :
             Earns(t, NetSpend + p.amount - invoices[i].credit, Cardinality(Paid) + 1)
               => p.tier >= t
  PROVE  TierInv'
<1>1. \A j \in Invoices : payment'[j] = IF j = i THEN p ELSE payment[j]
  BY DEF TierInv, TierTypeOK
<1>2. Paid' = Paid /\ NetSpend' = NetSpend
  BY DEF Paid, NetSpend, NetPaid
<1>3. TierTypeOK'
  BY DEF TierInv, TierTypeOK
<1>4. PaymentsPay' /\ OverrideIsKept'
  BY <1>1 DEF TierInv, PaymentsPay, OverrideIsKept
<1>5. OneEvaluation'
  BY <1>1 DEF TierInv, OneEvaluation, Evaluates
<1>6. EvaluationStands'
  BY <1>1, <1>2 DEF TierInv, EvaluationStands
<1>7. TierKeepsUp'
  BY <1>2 DEF TierInv, TierKeepsUp
<1> QED
  BY <1>3, <1>4, <1>5, <1>6, <1>7 DEF TierInv

\* The payment of an invoice begins.
LEMMA SettleStep ==
  ASSUME TierInv, NEW i \in Invoices, SettleInvoice(i)
  PROVE  TierInv'
<1> DEFINE d == AmountDue[i] - invoices[i].credit
           p == [payment[i] EXCEPT !.pc = "paid", !.amount = d]
<1>1. payment' = [payment EXCEPT ![i] = p] /\ UNCHANGED <<invoices, customer>>
  BY DEF SettleInvoice, TierInv, TierTypeOK
<1>2. d \in Nat
  <2>1. AmountDue[i] \in Nat /\ invoices[i].credit \in Nat
    BY InvoicesAssumption DEF TierInv, TierTypeOK, Invoice
  <2>2. invoices[i].credit <= AmountDue[i]
    BY DEF TierInv, PaymentsPay
  <2> QED
    BY <2>1, <2>2
<1>3. p \in Payment /\ p.pc = "paid"
  <2> HIDE DEF d
  <2> QED
    BY <1>2 DEF TierInv, TierTypeOK, Payment
<1>4. invoices[i].status = "issued"
  BY DEF SettleInvoice
<1> HIDE DEF p
<1> QED
  BY <1>1, <1>3, <1>4, PaymentStep DEF Evaluates

\* The customer is locked, and an override ends the evaluation.
LEMMA LockStep ==
  ASSUME TierInv, NEW i \in Invoices, LockCustomer(i)
  PROVE  TierInv'
<1> DEFINE pc == IF customer.source = "admin_override" THEN "evaluated" ELSE "evaluating"
           p == [payment[i] EXCEPT !.pc = pc, !.tier = customer.tier]
<1>1. payment' = [payment EXCEPT ![i] = p] /\ UNCHANGED <<invoices, customer>>
  BY DEF LockCustomer, FoundCustomer, TierInv, TierTypeOK
<1>2. pc \in {"evaluated", "evaluating"}
  OBVIOUS
<1>3. p \in Payment /\ p.pc = pc /\ p.tier = customer.tier
  <2>1. payment[i] \in Payment /\ customer.tier \in {NoTier} \cup Tiers
    BY DEF TierInv, TierTypeOK, Customer
  <2> HIDE DEF pc
  <2> QED
    BY <1>2, <2>1 DEF Payment
<1>4. /\ customer.source \in {"automatic", "admin_override"}
      /\ invoices[i].status = "issued"
      /\ \A j \in Invoices : ~Evaluates(payment[j])
  BY DEF TierInv, TierTypeOK, Customer, PaymentsPay, LockCustomer, CustomerLocked, Evaluates
<1>5. /\ pc = "evaluating" => customer.source = "automatic"
      /\ pc = "evaluated" => customer.source = "admin_override"
  BY <1>4
<1>6. customer.source = "automatic" => pc # "evaluated"
  BY <1>5
<1> HIDE DEF p, pc
<1> QED
  BY <1>1, <1>3, <1>4, <1>5, <1>6, PaymentStep

\* The tier is evaluated from what is paid and the payment's own invoice.
LEMMA EvaluateStep ==
  ASSUME TierInv, NEW i \in Invoices, EvaluateAutomaticTier(i)
  PROVE  TierInv'
<1> DEFINE h == HighestEligibleTier(
                  NetSpend + payment[i].amount - invoices[i].credit, Cardinality(Paid) + 1)
           p == [payment[i] EXCEPT !.pc = "evaluated", !.tier = h]
<1>1. payment' = [payment EXCEPT ![i] = p] /\ UNCHANGED <<invoices, customer>>
  BY DEF EvaluateAutomaticTier, TierInv, TierTypeOK
<1>2. /\ h \in {NoTier} \cup Tiers
      /\ \A t \in Tiers :
           Earns(t, NetSpend + payment[i].amount - invoices[i].credit, Cardinality(Paid) + 1)
             => h >= t
  BY HighestFacts
<1>3. p \in Payment /\ p.pc = "evaluated" /\ p.tier = h /\ p.amount = payment[i].amount
  <2>1. payment[i] \in Payment
    BY DEF TierInv, TierTypeOK
  <2> HIDE DEF h
  <2> QED
    BY <1>2, <2>1 DEF Payment
<1>4. payment[i].pc = "evaluating"
  BY DEF EvaluateAutomaticTier
<1>5. /\ customer.source = "automatic" /\ invoices[i].status = "issued"
      /\ \A j \in Invoices \ {i} : ~Evaluates(payment[j])
  BY <1>4 DEF TierInv, OverrideIsKept, PaymentsPay, OneEvaluation, Evaluates
<1> HIDE DEF p, h
<1> QED
  BY <1>1, <1>2, <1>3, <1>5, PaymentStep

\* A credit leaves the totals of the paid invoices, and what its own invoice
\* will add to them becomes less.
LEMMA CreditStep ==
  ASSUME TierInv, NEW i \in Invoices, CreditInvoice(i)
  PROVE  TierInv'
<1>1. /\ invoices' = [invoices EXCEPT ![i] = [invoices[i] EXCEPT !.credit = @ + 1]]
      /\ UNCHANGED <<payment, customer>>
      /\ invoices[i].status = "issued" /\ invoices[i].credit + 1 < AmountDue[i]
  BY DEF CreditInvoice, TierInv, TierTypeOK
<1> DEFINE v == [invoices[i] EXCEPT !.credit = @ + 1]
<1>2. invoices[i] \in Invoice /\ \A j \in Invoices : invoices[j].credit \in Nat
  BY DEF TierInv, TierTypeOK, Invoice
<1>3. v \in Invoice /\ v.status = "issued" /\ v.credit = invoices[i].credit + 1
  BY <1>1, <1>2 DEF Invoice
<1> HIDE DEF v
<1>4. \A j \in Invoices : invoices'[j] = IF j = i THEN v ELSE invoices[j]
  BY <1>1 DEF TierInv, TierTypeOK, v
<1>5. TierTypeOK'
  BY <1>1, <1>3 DEF TierInv, TierTypeOK, v
<1>6. Paid' = Paid /\ i \notin Paid
  BY <1>1, <1>3, <1>4 DEF Paid
<1>7. NetSpend' = NetSpend
  <2>1. \A j \in Paid : invoices'[j] = invoices[j]
    BY <1>4, <1>6 DEF Paid
  <2> QED
    BY <1>5, <1>6, <2>1, SpendKept DEF TierInv
<1>8. PaymentsPay'
  <2>1. ASSUME NEW j \in Invoices
        PROVE  /\ invoices'[j].credit <= AmountDue[j]
               /\ payment'[j].pc # "idle" => invoices'[j].status = "issued"
    <3>1. /\ invoices[j].credit <= AmountDue[j] /\ AmountDue[j] \in Nat
          /\ payment[j].pc # "idle" => invoices[j].status = "issued"
      BY InvoicesAssumption DEF TierInv, PaymentsPay
    <3> QED
      BY <1>1, <1>2, <1>3, <1>4, <3>1
  <2> QED
    BY <2>1 DEF PaymentsPay
<1>9. OverrideIsKept' /\ OneEvaluation' /\ TierKeepsUp'
  BY <1>1, <1>6, <1>7 DEF TierInv, OverrideIsKept, OneEvaluation, TierKeepsUp
<1>10. EvaluationStands'
  <2> SUFFICES ASSUME NEW j \in Invoices,
                      payment[j].pc = "evaluated", customer.source = "automatic",
                      NEW t \in Tiers,
                      Earns(t, NetSpend + payment[j].amount - invoices'[j].credit,
                            Cardinality(Paid) + 1)
               PROVE  payment[j].tier >= t
    BY <1>1, <1>6, <1>7 DEF EvaluationStands
  <2> DEFINE m == NetSpend + payment[j].amount - invoices'[j].credit
             n == NetSpend + payment[j].amount - invoices[j].credit
  <2>1. m \in Int /\ n \in Int /\ m <= n
    <3>1. NetSpend \in Int /\ payment[j].amount \in Nat
      BY SpendType DEF TierInv, TierTypeOK, Payment
    <3>2. invoices[j].credit \in Nat /\ v.credit \in Nat
      BY <1>2, <1>3 DEF Invoice
    <3> QED
      BY <1>2, <1>3, <1>4, <3>1, <3>2
  <2>2. Earns(t, n, Cardinality(Paid) + 1)
    <3> HIDE DEF m, n
    <3>1. Earns(t, m, Cardinality(Paid) + 1)
      BY DEF m
    <3> QED
      BY <2>1, <3>1, EarnsMore
  <2> QED
    BY <2>2 DEF TierInv, EvaluationStands
<1> QED
  BY <1>5, <1>8, <1>9, <1>10 DEF TierInv

\* The payment commits: its invoice is among the paid ones, and the customer
\* has the tier that was found.
LEMMA CommitStep ==
  ASSUME TierInv, NEW i \in Invoices, CommitPayment(i)
  PROVE  TierInv'
<1> DEFINE v == [invoices[i] EXCEPT !.status = "paid", !.paid = payment[i].amount]
           k == [customer EXCEPT !.tier = payment[i].tier]
<1>1. /\ invoices' = [invoices EXCEPT ![i] = v]
      /\ customer' = k /\ payment' = [payment EXCEPT ![i] = NotPaying]
      /\ payment[i].pc = "evaluated" /\ invoices[i].status = "issued"
  BY DEF CommitPayment, TierInv, TierTypeOK, PaymentsPay
<1>2. invoices[i] \in Invoice /\ payment[i] \in Payment /\ customer \in Customer
  BY DEF TierInv, TierTypeOK
<1>3. /\ v \in Invoice /\ v.status = "paid" /\ v.paid = payment[i].amount
      /\ v.credit = invoices[i].credit
  <2>1. payment[i].amount \in Nat
    BY <1>2 DEF Payment
  <2> QED
    BY <1>2, <2>1 DEF Invoice
<1>4. k \in Customer /\ k.tier = payment[i].tier /\ k.source = customer.source
  <2>1. payment[i].tier \in {NoTier} \cup Tiers
    BY <1>2 DEF Payment
  <2> QED
    BY <1>2, <2>1 DEF Customer
<1> HIDE DEF v, k
<1>5. /\ \A j \in Invoices : invoices'[j] = IF j = i THEN v ELSE invoices[j]
      /\ \A j \in Invoices : payment'[j] = IF j = i THEN NotPaying ELSE payment[j]
  BY <1>1 DEF TierInv, TierTypeOK
<1>6. TierTypeOK'
  BY <1>1, <1>3, <1>4, NotPayingFacts DEF TierInv, TierTypeOK
<1>7. Paid' = Paid \cup {i} /\ i \notin Paid
  BY <1>1, <1>3, <1>5 DEF Paid
<1>8. /\ NetSpend' = NetSpend + payment[i].amount - invoices[i].credit
      /\ Cardinality(Paid') = Cardinality(Paid) + 1
  <2>1. \A j \in Paid : invoices'[j] = invoices[j]
    BY <1>5, <1>7 DEF Paid
  <2>2. TierTypeOK /\ invoices'[i] = v
    BY <1>5 DEF TierInv
  <2> QED
    BY <1>3, <1>6, <1>7, <2>1, <2>2, SpendGrows
<1>9. PaymentsPay'
  BY <1>3, <1>5, NotPayingFacts DEF TierInv, PaymentsPay
<1>10. \A j \in Invoices : ~Evaluates(payment'[j])
  BY <1>1, <1>5, NotPayingFacts DEF TierInv, OneEvaluation, Evaluates
<1>11. OverrideIsKept' /\ OneEvaluation' /\ EvaluationStands'
  BY <1>10 DEF Evaluates, OverrideIsKept, OneEvaluation, EvaluationStands
<1>12. TierKeepsUp'
  <2> SUFFICES ASSUME customer.source = "automatic", NEW t \in Tiers,
                      Earns(t, NetSpend', Cardinality(Paid'))
               PROVE  payment[i].tier >= t
    BY <1>1, <1>4 DEF TierKeepsUp
  <2>1. Earns(t, NetSpend + payment[i].amount - invoices[i].credit, Cardinality(Paid) + 1)
    BY <1>8
  <2> QED
    BY <1>1, <2>1 DEF TierInv, EvaluationStands
<1> QED
  BY <1>6, <1>9, <1>11, <1>12 DEF TierInv

\* An administrator's UPDATE finds no evaluation under way.
LEMMA OverrideStep ==
  ASSUME TierInv, NEW t \in {NoTier} \cup Tiers, OverrideTier(t)
  PROVE  TierInv'
<1>1. /\ customer' = [tier |-> t, source |-> "admin_override"]
      /\ UNCHANGED <<invoices, payment>>
      /\ \A i \in Invoices : ~Evaluates(payment[i])
  BY DEF OverrideTier, CustomerLocked, Evaluates
<1>2. customer' \in Customer /\ customer'.source = "admin_override"
  BY <1>1 DEF Customer
<1>3. TierTypeOK' /\ PaymentsPay'
  BY <1>1, <1>2 DEF TierInv, TierTypeOK, PaymentsPay
<1>4. OverrideIsKept' /\ OneEvaluation'
  BY <1>1 DEF Evaluates, OverrideIsKept, OneEvaluation
<1>5. EvaluationStands' /\ TierKeepsUp'
  BY <1>2 DEF EvaluationStands, TierKeepsUp
<1> QED
  BY <1>3, <1>4, <1>5 DEF TierInv

\* The invariant is kept by every step.
LEMMA TierStep == TierInv /\ [TierNext]_tierVars => TierInv'
<1> SUFFICES ASSUME TierInv, [TierNext]_tierVars PROVE TierInv'
  OBVIOUS
<1>1. CASE UNCHANGED tierVars
  BY <1>1 DEF tierVars, TierInv, TierTypeOK, PaymentsPay, OverrideIsKept, OneEvaluation,
     EvaluationStands, TierKeepsUp, NetSpend, NetPaid, Paid
<1>2. ASSUME NEW i \in Invoices, PaymentFails(i) PROVE TierInv'
  BY <1>2, NotPayingFacts, PaymentStep DEF PaymentFails, Evaluates
<1> QED
  BY <1>1, <1>2, CreditStep, SettleStep, LockStep, EvaluateStep, CommitStep, OverrideStep
     DEF TierNext

\* What evaluations under way have found stands until they commit.
THEOREM TierInvariant == TierSpec => []TierInv
BY TierInvInit, TierStep, PTL DEF TierSpec

\* However the payments of several invoices and credits interleave, a customer
\* without an override has every tier the paid invoices earn.
THEOREM TiersKeepUp == TierSpec => []TierKeepsUp
<1>1. TierInv => TierKeepsUp
  BY DEF TierInv
<1> QED
  BY <1>1, TierInvariant, PTL

\* However payments and overrides interleave, an override is only changed by
\* another one.
THEOREM OverridesStand == TierSpec => OverrideIsNotUndone
<1>1. TierInv /\ [TierNext]_tierVars =>
        [customer.source = "admin_override" /\ customer' # customer
           => \E t \in {NoTier} \cup Tiers : OverrideTier(t)]_tierVars
  <2> SUFFICES ASSUME TierInv, TierNext, customer.source = "admin_override",
                      customer' # customer
               PROVE  \E t \in {NoTier} \cup Tiers : OverrideTier(t)
    BY DEF tierVars
  <2>1. ASSUME NEW i \in Invoices, CommitPayment(i) PROVE customer' = customer
    BY <2>1 DEF CommitPayment, TierInv, TierTypeOK, Customer, OverrideIsKept
  <2> QED
    BY <2>1 DEF TierNext, CreditInvoice, SettleInvoice, LockCustomer, EvaluateAutomaticTier,
       PaymentFails
<1> QED
  BY <1>1, TierInvariant, PTL DEF TierSpec, OverrideIsNotUndone

=============================================================================
