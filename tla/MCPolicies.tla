------------------------------ MODULE MCPolicies ------------------------------
(***************************************************************************)
(* A small instance.  The quotation's second line is so small beside the   *)
(* first that its excess vanishes in the four places a blended risk is     *)
(* stored with; the third is free.                                         *)
(***************************************************************************)
EXTENDS Policies, TLC

Interchangeable == Permutations(Updaters)

MCBase == <<60000, 1, 0>>
MCCeiling == <<1, 9, 1>>

=============================================================================
