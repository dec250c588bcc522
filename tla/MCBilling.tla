------------------------------ MODULE MCBilling ------------------------------
(***************************************************************************)
(* Small instances of Billing for TLC.  Requests and notes are             *)
(* interchangeable.  No bound is needed: every write takes a part of Due   *)
(* or ends a note, so amounts and lock_version stay small by themselves.   *)
(***************************************************************************)
EXTENDS Billing, TLC

Symmetry == Permutations(Requests) \cup Permutations(Notes)

=============================================================================
