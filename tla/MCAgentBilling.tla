--------------------------- MODULE MCAgentBilling ---------------------------
(* AgentBilling for TLC: metered Turns may be claimed twice, the others    *)
(* once.  The later a pack was made the sooner it expires, and the first   *)
(* one never does.                                                         *)
EXTENDS AgentBilling

PackLives == [p \in 1..NumPacks |-> IF p = 1 THEN Forever ELSE NumPacks - p + 1]

Fences == [t \in Turn |-> IF t \in Metered THEN 2 ELSE 1]

=============================================================================
