-------------------------------- MODULE Offer --------------------------------
(***************************************************************************)
(* What a quotation promises its customers, without lock_version,          *)
(* approvals, negotiation cases or requests in flight: terms that only     *)
(* ever move on, pages that show the terms of the day they were loaded,    *)
(* and agreement to an offer by a customer whose page shows its terms,     *)
(* which is also the only thing that bills them.                           *)
(***************************************************************************)
EXTENDS Naturals

CONSTANTS
  Customers,  \* those who may agree
  Recurring,  \* agreeing to the terms bills them
  MaxTerms    \* bound: how often the terms may move on

VARIABLES
  phase,  \* what may be done with the offer
  terms,  \* its current terms, numbered as they are made
  page,   \* the terms each customer's page shows, 0 for none
  bills   \* how often each terms have been billed

offerVars == <<phase, terms, page, bills>>

Phases == {"drafted", "waiting", "offered", "discussed", "agreed", "declined"}

Init ==
  /\ phase = "drafted"
  /\ terms = 1
  /\ page = [c \in Customers |-> 0]
  /\ bills = [t \in 1..MaxTerms |-> 0]

\* A draft is not shown.
Show(c) ==
  /\ phase # "drafted"
  /\ page' = [page EXCEPT ![c] = terms]
  /\ UNCHANGED <<phase, terms, bills>>

\* New terms are prepared, or offered at once; what pages show stays as it was.
Revise ==
  /\ terms < MaxTerms
  /\ terms' = terms + 1
  /\ phase' \in {"drafted", "offered"}
  /\ UNCHANGED <<page, bills>>

\* Anything else anybody does to an offer agrees to nothing and bills nothing,
\* and does not make a draft of it.
Proceed ==
  /\ phase' \in Phases \ {"agreed", "drafted"}
  /\ UNCHANGED <<terms, page, bills>>

Agree(c) ==
  /\ phase = "offered"
  /\ page[c] = terms
  /\ phase' = "agreed"
  /\ bills' = IF Recurring THEN [bills EXCEPT ![terms] = @ + 1] ELSE bills
  /\ UNCHANGED <<terms, page>>

Next ==
  \/ \E c \in Customers : Show(c) \/ Agree(c)
  \/ Revise
  \/ Proceed

Spec == Init /\ [][Next]_offerVars

=============================================================================
