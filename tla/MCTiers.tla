------------------------------- MODULE MCTiers -------------------------------
(***************************************************************************)
(* A small instance: two tiers and three invoices.  One invoice earns      *)
(* nothing, two earn the first tier, by their number even when credited,   *)
(* and all three the second, by what was paid, unless too much was         *)
(* credited.                                                               *)
(***************************************************************************)
EXTENDS Tiers, TLC

Interchangeable == Permutations(Invoices)

MCAmountDue == [i \in Invoices |-> 3]
MCQualifySpend == <<5, 8>>
MCQualifyOrders == <<2, 4>>

=============================================================================
