-------------------------- MODULE MCGenerationTask --------------------------
(* GenerationTask for TLC: every task costs more than one pack holds.      *)
EXTENDS GenerationTask

PackLives == [p \in 1..NumPacks |-> Forever]

Costs == [t \in Task |-> Grant + 1]

=============================================================================
