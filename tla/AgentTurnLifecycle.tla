-------------------------- MODULE AgentTurnLifecycle --------------------------
(***************************************************************************)
(* The kernel as an implementation of TurnLifecycle: an Attempt is an      *)
(* epoch, a non-terminal receipt is work, the ledger's entry is the bill.  *)
(***************************************************************************)
EXTENDS AgentTurn

Life ==
  [t \in Turn |->
     [phase     |-> turn[t].status,
      cancelled |-> turn[t].cancel,
      epoch     |-> turn[t].fence,
      length    |-> turn[t].seq,
      worked    |-> \E r \in operation : r.turn = t /\ r.status = "running",
      bill      |-> {k \in Intent \cup {"review"} :
                       \E l \in ledger : l.turn = t /\ l.kind = k}]]

Lifecycle == INSTANCE TurnLifecycle
               WITH Budget <- MaxTurnAttempts, Billed <- (Authority # "none"), life <- Life

(* Every command of the store is one step of the promised lifecycle of one *)
(* Turn, or none at all: claims, takeovers, racing commits and retirements *)
(* never show a caller a Turn that is half ended, or ended and unbilled.   *)
ImplementsLifecycle == Lifecycle!Spec

=============================================================================
