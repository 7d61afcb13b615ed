----------------------------- MODULE MCServices -----------------------------
(***************************************************************************)
(* The services that share nothing but the process they run in, for TLC:   *)
(* a behaviour is one of RefreshChain, AccountPool, ProviderEvents or      *)
(* LoginTransaction, chosen at the start, and the variables of the others  *)
(* stay as they began.  Their state spaces add up instead of multiplying.  *)
(***************************************************************************)
EXTENDS RefreshChain, AccountPool, ProviderEvents, LoginTransaction

CONSTANT Part   \* the services of this run

VARIABLE part

servicesVars == <<chainVars, poolVars, inboxVars, loginVars, part>>

(* The account with the smaller number is preferred.                       *)
ByNumber == [a \in Account |-> a]

ServicesInit ==
  /\ ChainInit /\ PoolInit /\ InboxInit /\ LoginInit
  /\ part \in Part

ServicesNext ==
  \/ part = "chain" /\ ChainNext /\ UNCHANGED <<poolVars, inboxVars, loginVars, part>>
  \/ part = "pool" /\ PoolNext /\ UNCHANGED <<chainVars, inboxVars, loginVars, part>>
  \/ part = "inbox" /\ InboxNext /\ UNCHANGED <<chainVars, poolVars, loginVars, part>>
  \/ part = "login" /\ LoginNext /\ UNCHANGED <<chainVars, poolVars, inboxVars, part>>

(* The fairness of PoolSpec and of InboxSpec, each in its own part.        *)
ServicesSpec ==
  /\ ServicesInit /\ [][ServicesNext]_servicesVars
  /\ WF_poolVars(part = "pool" /\ PoolTick)
  /\ \A r \in Request : WF_poolVars(part = "pool" /\ Reports(r))
  /\ SF_poolVars(part = "pool" /\ \E r \in Request : GetAccountForModelTier(r, Enabled, {}))
  /\ WF_inboxVars(part = "inbox" /\ InboxTick)
  /\ WF_inboxVars(part = "inbox" /\ (ReconcileOnce \/ NextRow \/ Process1(Reconciler)))

=============================================================================
