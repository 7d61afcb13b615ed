------------------------- MODULE MCAgentTurnLifecycle -------------------------
(* AgentTurnLifecycle for TLC: the promised lifecycle names no Attempt,    *)
(* Operation or Effect, so these are interchangeable.                      *)
EXTENDS AgentTurnLifecycle, TLC

Symmetry == Permutations(Attempt) \cup Permutations(Operation) \cup Permutations(Effect)

=============================================================================
