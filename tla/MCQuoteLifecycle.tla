-------------------------- MODULE MCQuoteLifecycle --------------------------
(***************************************************************************)
(* Small instances of QuoteLifecycle for TLC.  Requests of one kind are    *)
(* interchangeable, so their identifiers are symmetric.                    *)
(***************************************************************************)
EXTENDS QuoteLifecycle, TLC

Symmetry == Permutations(Customers) \cup Permutations(Staff)
              \cup Permutations(Approvers) \cup Permutations(Financiers)

=============================================================================
