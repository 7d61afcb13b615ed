--------------------------- MODULE MCEffectOutbox ---------------------------
(* EffectOutbox for TLC: identifiers and dispatchers are interchangeable.  *)
EXTENDS EffectOutbox, TLC

Symmetry == Permutations(Attempt) \cup Permutations(Operation)
              \cup Permutations(Effect) \cup Permutations(Dispatcher)

=============================================================================
