------------------------------- MODULE MCIntake -------------------------------
(***************************************************************************)
(* Intake for TLC.  The representatives' ages and the names of requests    *)
(* and tabs do not matter, so each set may be permuted.                    *)
(***************************************************************************)
EXTENDS Intake, TLC

Interchangeable == Permutations(Reps) \cup Permutations(Requests) \cup Permutations(Tabs)

=============================================================================
