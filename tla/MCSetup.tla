-------------------------------- MODULE MCSetup --------------------------------
(* A small instance: two migrators, two runs of seed.js, two of full-seed.js *)
(* and one demo flow.  The scripts' quotations are their own, so a behaviour *)
(* exercises one part of the scripts: the reference data, by all the runs    *)
(* together, or the quotations of either script, the scripts one by one.     *)
EXTENDS Setup, TLC

VARIABLE slice

Interchangeable ==
  Permutations(Migrators) \cup Permutations(Seeders) \cup Permutations(FullSeeders)

NoQuotations == quotes = <<>> /\ scene = 0

Active == {m \in Migrators : migrator[m].pc # "idle"}
          \cup {s \in Seeders : seeder[s].pc # "idle"}
          \cup {s \in FullSeeders : layer[s] # 0}
OneByOne == Cardinality(Active) <= 1

\* Bounds: two quotations of the full seed, or six of the demo flow.
SeededOnly == OneByOne /\ scene = 0 /\ Len(quotes) <= 2
DemoOnly == OneByOne /\ \A s \in FullSeeders : layer[s] = 0

InSlice ==
  CASE slice = "reference" -> NoQuotations
    [] slice = "seeded" -> SeededOnly
    [] slice = "demo" -> DemoOnly

MCInit == SetupInit /\ slice \in {"reference", "seeded", "demo"}
MCNext == SetupNext /\ UNCHANGED slice /\ InSlice'
MCSpec == MCInit /\ [][MCNext]_<<setupVars, slice>>

=============================================================================
