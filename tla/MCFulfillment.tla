---------------------------- MODULE MCFulfillment ----------------------------
(***************************************************************************)
(* Small instances of Fulfillment for TLC.  Quotations, warehouses and     *)
(* requests are interchangeable.                                           *)
(***************************************************************************)
EXTENDS Fulfillment, TLC

Symmetry ==
  Permutations(Quotes) \cup Permutations(Warehouses) \cup Permutations(Requests)

=============================================================================
