--------------------------- MODULE MCUroamEngine ---------------------------
(* Machines for the engine: an AI server; a game beside as many ordinary       *)
(* processes, a tie; a build; one with nothing to do that has swapped.         *)
EXTENDS UroamEngine

Counts(f) == [w \in Workload |-> IF w \in DOMAIN f THEN f[w] ELSE 0]

MCMachines ==
  {[counts |-> Counts([AiInference |-> 2, General |-> 1]), low |-> FALSE, swapped |-> FALSE],
   [counts |-> Counts([Gaming |-> 1, General |-> 1]), low |-> FALSE, swapped |-> TRUE],
   [counts |-> Counts([Gaming |-> 2]), low |-> TRUE, swapped |-> FALSE],
   [counts |-> Counts([Compilation |-> 2]), low |-> FALSE, swapped |-> FALSE],
   [counts |-> Counts([Interactive |-> 1]), low |-> TRUE, swapped |-> TRUE],
   [counts |-> Counts([General |-> 1]), low |-> TRUE, swapped |-> TRUE]}
=============================================================================
