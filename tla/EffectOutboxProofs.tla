------------------------- MODULE EffectOutboxProofs -------------------------
(***************************************************************************)
(* Theorems about EffectOutbox, for any number of dispatchers, effects,    *)
(* Turns, losses and claims.  Dispatchers write nothing of the kernel but  *)
(* rows of the outbox, so the kernel's invariant survives them; what a     *)
(* dispatcher still holds in memory is told apart by dispatch tokens.      *)
(***************************************************************************)
EXTENDS EffectOutbox, AgentTurnProofs, FiniteSetTheorems, WellFoundedInduction

(* The SMT solver may take up to 30 seconds over a leaf, and is called     *)
(* again when its first call fails.                                        *)
USE SMTT(30), Z3T(30)

(* Every set of natural numbers that is not empty has a least element.     *)
LEMMA LeastNumber ==
  ASSUME NEW S \in SUBSET Nat, S # {}
  PROVE  \E m \in S : \A n \in S : m <= n
<1>1. PICK x \in S : \A y \in S : ~ (<<y, x>> \in OpToRel(<, Nat))
  BY WFMin, NatLessThanWellFounded, Zenon
<1>2. \A y \in S : ~ (y < x)
  BY <1>1, Zenon DEF OpToRel
<1> QED
  BY <1>2

(* A bounded one has a greatest.                                           *)
LEMMA GreatestNumber ==
  ASSUME NEW S \in SUBSET Nat, S # {}, NEW b \in Nat, \A n \in S : n <= b
  PROVE  Max(S) \in S
<1> DEFINE T == {k \in Nat : \E n \in S : k = b - n}
<1>1. PICK x \in S : TRUE
  BY Zenon
<1>2. b - x \in T
  BY <1>1
<1>3. T \in SUBSET Nat /\ T # {}
  BY <1>2, Zenon
<1>4. PICK k \in T : \A n \in T : k <= n
  BY <1>3, LeastNumber, Zenon
<1>5. PICK m \in S : k = b - m
  BY <1>4
<1>6. ASSUME NEW n \in S PROVE m >= n
  <2>1. b - n \in T
    OBVIOUS
  <2>2. b - m <= b - n
    BY <1>4, <1>5, <2>1, Zenon
  <2> QED
    BY <1>5, <2>2
<1>7. \E y \in S : \A n \in S : y >= n
  BY <1>5, <1>6
<1> QED
  BY <1>7, Zenon DEF Max

(* The delay of a retry is a time.                                         *)
LEMMA RetryDelayType ==
  ASSUME NEW attempts, NEW hint \in Nat
  PROVE  RetryDelay(attempts, hint) \in Nat
<1> DEFINE P(n) == n <= hint \/ n <= RetryBackoff * 2 ^ (attempts - 1)
           S == {n \in 0..MaxRetryBackoff : P(n)}
<1>1. MaxRetryBackoff \in Nat
  BY OutboxAssumption
<1>2. P(0)
  OBVIOUS
<1>3. RetryDelay(attempts, hint) = Max(S)
  BY DEF RetryDelay
<1> HIDE DEF P
<1>4. S \in SUBSET Nat /\ S # {} /\ \A n \in S : n <= MaxRetryBackoff
  BY <1>1, <1>2
<1>5. Max(S) \in S
  BY <1>1, <1>4, GreatestNumber, Zenon
<1> QED
  BY <1>3, <1>4, <1>5

-----------------------------------------------------------------------------
Delivery == [effect : Effect, token : Nat]

DispatchType ==
  /\ phase \in [Dispatcher -> {"idle", "claiming", "calling", "reporting"}]
  /\ found \in [Dispatcher -> SUBSET Effect]
  /\ batch \in [Dispatcher -> Seq(Delivery)]
  /\ report \in [Dispatcher -> Report \cup {NoReport}]
  /\ patience \in [Dispatcher -> Nat]
  /\ uncertain \in [Effect -> BOOLEAN]
  /\ losses \in Nat

(* A dispatcher in or after a call has the delivery it called for, and a   *)
(* report once the call is over.                                           *)
PhasesMatch ==
  \A d \in Dispatcher : /\ phase[d] \in {"calling", "reporting"} => batch[d] # <<>>
                        /\ phase[d] = "reporting" => report[d] \in Report

(* A row written by a dispatcher: by a claim or by an accepted report.     *)
Wrote(e, row) ==
  /\ effect' = [effect EXCEPT ![e] = row]
  /\ effect[e].status \in {"pending", "delivering"}
  /\ row.status \in {"pending", "delivering", "delivered", "dead_letter"}
  /\ row.turn = effect[e].turn /\ row.token \in {effect[e].token, effect[e].token + 1}
  /\ UNCHANGED <<turn, attempt, operation, event, ledger>>

(* The rows a claim and a report make.                                     *)
LEMMA LeaseRow ==
  ASSUME NEW row \in EffectRow
  PROVE  /\ Lease(row) \in EffectRow /\ Lease(row).status = "delivering"
         /\ Lease(row).turn = row.turn /\ Lease(row).token = row.token + 1
         /\ Lease(row).timer = EffectLeaseTTL
<1>1. EffectLeaseTTL \in Nat
  BY OutboxAssumption
<1>2. row.attempts + 1 \in Nat /\ row.token + 1 \in Nat
  BY DEF EffectRow
<1>3. Lease(row) \in EffectRow
  BY <1>1, <1>2, Zenon DEF Lease, EffectRow, EffectStatus
<1> QED
  BY <1>3 DEF Lease, EffectRow

LEMMA ResolvedRow ==
  ASSUME NEW row \in EffectRow, NEW r \in Report
  PROVE  /\ Resolved(row, r) \in EffectRow
         /\ Resolved(row, r).status \in {"pending", "delivered", "dead_letter"}
         /\ Resolved(row, r).turn = row.turn /\ Resolved(row, r).token = row.token
         /\ r.outcome = "unknown" /\ ~r.safe => Resolved(row, r).status = "dead_letter"
<1>1. r.hint \in Nat /\ r.outcome \in Outcome /\ r.safe \in BOOLEAN
  BY OutboxAssumption, Zenon DEF Report
<1> DEFINE delay == RetryDelay(row.attempts, r.hint)
<1>2. delay \in Nat
  BY <1>1, RetryDelayType
<1>3. \E s \in {"pending", "delivered", "dead_letter"}, n \in Nat :
        /\ Resolved(row, r) = [row EXCEPT !.status = s, !.timer = n]
        /\ r.outcome = "unknown" /\ ~r.safe => s = "dead_letter"
  <2>1. CASE Resolved(row, r) = [row EXCEPT !.status = "delivered", !.timer = 0] /\ r.outcome = "delivered"
    BY <2>1, Zenon
  <2>2. CASE /\ Resolved(row, r) = [row EXCEPT !.status = "pending", !.timer = delay]
             /\ r.outcome = "retry" \/ (r.outcome = "unknown" /\ r.safe)
    BY <1>2, <2>2, Zenon
  <2>3. CASE Resolved(row, r) = [row EXCEPT !.status = "dead_letter", !.timer = 0]
    BY <2>3, Zenon
  <2> QED
    BY <2>1, <2>2, <2>3, Zenon DEF Resolved
<1>4. PICK s \in {"pending", "delivered", "dead_letter"}, n \in Nat :
        /\ Resolved(row, r) = [row EXCEPT !.status = s, !.timer = n]
        /\ r.outcome = "unknown" /\ ~r.safe => s = "dead_letter"
  BY <1>3, Zenon
<1>5. Resolved(row, r) \in EffectRow
  BY <1>4, Zenon DEF EffectRow, EffectStatus
<1>6. Resolved(row, r).status = s /\ Resolved(row, r).turn = row.turn
      /\ Resolved(row, r).token = row.token
  BY <1>4 DEF EffectRow
<1> QED
  BY <1>4, <1>5, <1>6

-----------------------------------------------------------------------------
DispatchInv == KernelInv /\ ReviewHoldsEffects /\ DispatchType /\ PhasesMatch

(* The first of a dispatcher's deliveries, and the rest of them.           *)
LEMMA FirstDelivery ==
  ASSUME DispatchType, NEW d \in Dispatcher, batch[d] # <<>>
  PROVE  /\ Head(batch[d]) \in Delivery /\ Head(batch[d]) = batch[d][1] /\ 1 \in DOMAIN batch[d]
         /\ Head(batch[d]).effect \in Effect /\ Head(batch[d]).token \in Nat
         /\ Tail(batch[d]) \in Seq(Delivery)
<1>1. batch[d] \in Seq(Delivery)
  BY DEF DispatchType
<1>2. Head(batch[d]) \in Delivery /\ Head(batch[d]) = batch[d][1] /\ 1 \in DOMAIN batch[d]
      /\ Tail(batch[d]) \in Seq(Delivery)
  BY <1>1
<1> QED
  BY <1>2 DEF Delivery

(* What the dispatchers do to the tables: a step of the kernel, or one row *)
(* of the outbox is claimed or resolved.                                   *)
LEMMA OutboxOnKernel ==
  ASSUME DispatchInv, [OutboxNext]_outboxVars
  PROVE  [Next]_vars \/ \E e \in Effect, row \in EffectRow : Wrote(e, row)
<1>a. effect \in [Effect -> EffectRow] /\ DispatchType /\ PhasesMatch
  BY DEF DispatchInv, KernelInv, OwnerInv, TypeOK
<1>1. CASE Command /\ UNCHANGED dispatch
  BY <1>1 DEF Next
<1>2. CASE OutboxTick
  BY <1>2 DEF OutboxTick, Next
<1>3. ASSUME NEW d \in Dispatcher, NEW e \in Effect, ClaimEffect(d, e)
      PROVE  [Next]_vars \/ \E f \in Effect, row \in EffectRow : Wrote(f, row)
  <2>1. CASE Claimable(e) /\ ~Reviewed(effect[e].turn)
    <3>1. effect[e] \in EffectRow
      BY <1>a
    <3>2. Wrote(e, Lease(effect[e]))
      BY <1>3, <2>1, <3>1, LeaseRow, Zenon DEF ClaimEffect, Claimable, Wrote
    <3> QED
      BY <3>1, <3>2, LeaseRow
  <2>2. CASE ~(Claimable(e) /\ ~Reviewed(effect[e].turn))
    BY <1>3, <2>2 DEF ClaimEffect, vars
  <2> QED
    BY <2>1, <2>2
<1>4. ASSUME NEW d \in Dispatcher, CompleteEffect(d)
      PROVE  [Next]_vars \/ \E f \in Effect, row \in EffectRow : Wrote(f, row)
  <2> DEFINE delivery == Head(batch[d])
             e == delivery.effect
             row == Resolved(effect[e], report[d])
  <2>1. phase[d] = "reporting" /\ batch[d] # <<>> /\ report[d] \in Report
    BY <1>a, <1>4 DEF CompleteEffect, PhasesMatch
  <2>2. e \in Effect /\ effect[e] \in EffectRow
    BY <1>a, <2>1, FirstDelivery
  <2>3. CASE Accepts(effect[e], delivery)
    <3>1. effect' = [effect EXCEPT ![e] = row] /\ effect[e].status = "delivering"
          /\ UNCHANGED <<turn, attempt, operation, event, ledger>>
      BY <1>4, <2>3, Zenon DEF CompleteEffect, Accepts
    <3>2. /\ row \in EffectRow /\ row.status \in {"pending", "delivered", "dead_letter"}
          /\ row.turn = effect[e].turn /\ row.token = effect[e].token
      BY <2>1, <2>2, ResolvedRow
    <3> HIDE DEF row
    <3>3. Wrote(e, row)
      BY <3>1, <3>2 DEF Wrote
    <3> QED
      BY <2>2, <3>2, <3>3
  <2>4. CASE ~Accepts(effect[e], delivery)
    BY <1>4, <2>4 DEF CompleteEffect, vars
  <2> QED
    BY <2>3, <2>4, Zenon
<1>5. ASSUME NEW d \in Dispatcher,
             \/ ScanEffects(d) \/ Rest(d) \/ StartDelivery(d) \/ EndDelivery(d)
             \/ FailCompletion(d) \/ Lose(d)
      PROVE  UNCHANGED vars
  BY <1>5 DEF ScanEffects, Rest, StartDelivery, EndDelivery, FailCompletion, Lose
<1>6. CASE UNCHANGED outboxVars
  BY <1>6 DEF outboxVars
<1> QED
  BY <1>1, <1>2, <1>3, <1>4, <1>5, <1>6 DEF OutboxNext, Step

(* What a dispatcher writes leaves the kernel's invariant alone.           *)
LEMMA WroteKeepsKernel ==
  ASSUME KernelInv, ReviewHoldsEffects, NEW e \in Effect, NEW row \in EffectRow, Wrote(e, row)
  PROVE  KernelInv' /\ ReviewHoldsEffects'
<1>a. /\ UNCHANGED <<turn, attempt, operation, event, ledger>> /\ TypeOK
      /\ effect' = [effect EXCEPT ![e] = row]
  BY DEF Wrote, KernelInv, OwnerInv
<1>1. TypeOK'
  BY <1>a DEF TypeOK
<1>2. OwnerInv' /\ CommercialOutcome' /\ NoAuthorityNoBill'
  BY <1>a, <1>1 DEF KernelInv, OwnerInv, SingleOwner, ActiveRuns, CommercialOutcome, NoAuthorityNoBill
<1>3. ReviewHoldsEffects'
  <2> DEFINE Rev(u) == \E l \in ledger' : l.kind = "review" /\ l.turn = u
  <2>1. ASSUME NEW f \in Effect
        PROVE  /\ Rev(effect[f].turn) => effect[f].status \notin {"pending", "delivering"}
               /\ effect[f].status = "review_hold" => Rev(effect[f].turn)
    BY <1>a DEF ReviewHoldsEffects
  <2>2. /\ effect[e].status \in {"pending", "delivering"} /\ row.turn = effect[e].turn
        /\ row.status \in {"pending", "delivering", "delivered", "dead_letter"}
    BY DEF Wrote
  <2>3. \A f \in Effect : effect'[f] = IF f = e THEN row ELSE effect[f]
    BY <1>a DEF TypeOK
  <2> HIDE DEF Rev
  <2>4. ASSUME NEW f \in Effect
        PROVE  /\ Rev(effect'[f].turn) => effect'[f].status \notin {"pending", "delivering"}
               /\ effect'[f].status = "review_hold" => Rev(effect'[f].turn)
    BY <2>1, <2>2, <2>3
  <2> QED
    BY <2>4 DEF ReviewHoldsEffects, Rev
<1> QED
  BY <1>2, <1>3 DEF KernelInv

LEMMA KernelKept ==
  ASSUME DispatchInv, [OutboxNext]_outboxVars
  PROVE  KernelInv' /\ ReviewHoldsEffects'
<1>1. CASE [Next]_vars
  <2>1. OwnerInv' /\ CommercialOutcome' /\ NoAuthorityNoBill'
    BY <1>1, TypeStep, OwnerStep, CommercialStep, NoBillStep DEF DispatchInv, KernelInv, OwnerInv
  <2> QED
    BY <1>1, <2>1, HoldStep DEF DispatchInv, KernelInv
<1>2. ASSUME NEW e \in Effect, NEW row \in EffectRow, Wrote(e, row)
      PROVE  KernelInv' /\ ReviewHoldsEffects'
  BY <1>2, WroteKeepsKernel DEF DispatchInv
<1> QED
  BY <1>1, <1>2, OutboxOnKernel

(* Every step of a dispatcher keeps its memory well formed.                *)
LEMMA DispatchStep ==
  ASSUME DispatchInv, [OutboxNext]_outboxVars
  PROVE  DispatchType' /\ PhasesMatch'
<1>a. /\ phase \in [Dispatcher -> {"idle", "claiming", "calling", "reporting"}]
      /\ found \in [Dispatcher -> SUBSET Effect] /\ batch \in [Dispatcher -> Seq(Delivery)]
      /\ report \in [Dispatcher -> Report \cup {NoReport}] /\ patience \in [Dispatcher -> Nat]
      /\ uncertain \in [Effect -> BOOLEAN] /\ losses \in Nat
      /\ DispatchType /\ PhasesMatch /\ effect \in [Effect -> EffectRow] /\ DeliveryTimeout \in Nat
  BY OutboxAssumption DEF DispatchInv, DispatchType, KernelInv, OwnerInv, TypeOK
<1>c. ASSUME UNCHANGED dispatch PROVE DispatchType' /\ PhasesMatch'
  BY <1>a, <1>c DEF dispatch, DispatchType, PhasesMatch
<1>1. CASE OutboxTick
  <2>1. patience' \in [Dispatcher -> Nat]
    BY <1>a, <1>1, SoonerType DEF OutboxTick
  <2> QED
    BY <1>a, <1>1, <2>1 DEF OutboxTick, DispatchType, PhasesMatch
<1>2. ASSUME NEW d \in Dispatcher, ScanEffects(d) PROVE DispatchType' /\ PhasesMatch'
  <2>1. found' \in [Dispatcher -> SUBSET Effect]
    BY <1>a, <1>2 DEF ScanEffects, kSubset
  <2>2. phase' = [phase EXCEPT ![d] = "claiming"] /\ UNCHANGED <<batch, report, patience, uncertain, losses>>
    BY <1>2 DEF ScanEffects
  <2> QED
    BY <1>a, <2>1, <2>2 DEF DispatchType, PhasesMatch
<1>3. ASSUME NEW d \in Dispatcher, NEW e \in Effect, ClaimEffect(d, e) PROVE DispatchType' /\ PhasesMatch'
  <2>1. phase[d] = "claiming" /\ UNCHANGED <<phase, report, patience, uncertain, losses>>
        /\ found' = [found EXCEPT ![d] = @ \ {e}]
    BY <1>3 DEF ClaimEffect
  <2>2. found' \in [Dispatcher -> SUBSET Effect]
    BY <1>a, <2>1, Zenon
  <2>3. batch' \in [Dispatcher -> Seq(Delivery)] /\ \A f \in Dispatcher : f # d => batch'[f] = batch[f]
    <3>1. CASE batch' = batch
      BY <1>a, <3>1
    <3>2. CASE batch' = [batch EXCEPT ![d] =
                           Append(@, [effect |-> e, token |-> Lease(effect[e]).token])]
      <4>1. Lease(effect[e]).token \in Nat
        BY <1>a, LeaseRow DEF EffectRow
      <4>2. [effect |-> e, token |-> Lease(effect[e]).token] \in Delivery
        BY <4>1 DEF Delivery
      <4>3. Append(batch[d], [effect |-> e, token |-> Lease(effect[e]).token]) \in Seq(Delivery)
        BY <1>a, <4>2
      <4> QED
        BY <1>a, <3>2, <4>3
    <3> QED
      BY <1>3, <3>1, <3>2 DEF ClaimEffect
  <2> QED
    BY <1>a, <2>1, <2>2, <2>3, Zenon DEF DispatchType, PhasesMatch
<1>4. ASSUME NEW d \in Dispatcher, Rest(d) PROVE DispatchType' /\ PhasesMatch'
  BY <1>a, <1>4 DEF Rest, DispatchType, PhasesMatch
<1>5. ASSUME NEW d \in Dispatcher, StartDelivery(d) PROVE DispatchType' /\ PhasesMatch'
  BY <1>a, <1>5, Zenon DEF StartDelivery, DispatchType, PhasesMatch
<1>6. ASSUME NEW d \in Dispatcher, EndDelivery(d) PROVE DispatchType' /\ PhasesMatch'
  <2>1. PICK r \in Report : report' = [report EXCEPT ![d] = r]
    BY <1>6, Zenon DEF EndDelivery
  <2>2. /\ phase[d] = "calling" /\ phase' = [phase EXCEPT ![d] = "reporting"]
        /\ patience' = [patience EXCEPT ![d] = 0] /\ UNCHANGED <<found, batch, uncertain, losses>>
    BY <1>6 DEF EndDelivery
  <2> QED
    BY <1>a, <2>1, <2>2 DEF DispatchType, PhasesMatch
<1>d. ASSUME NEW d \in Dispatcher, phase[d] = "reporting", phase' = [phase EXCEPT ![d] = "claiming"],
             batch' = [batch EXCEPT ![d] = Tail(@)], report' = [report EXCEPT ![d] = NoReport],
             UNCHANGED <<found, patience>>, uncertain' \in [Effect -> BOOLEAN], losses' \in Nat
      PROVE  DispatchType' /\ PhasesMatch'
  <2>1. Tail(batch[d]) \in Seq(Delivery)
    BY <1>a, <1>d, FirstDelivery DEF PhasesMatch
  <2>2. batch' \in [Dispatcher -> Seq(Delivery)] /\ \A f \in Dispatcher : f # d => batch'[f] = batch[f]
    BY <1>a, <1>d, <2>1
  <2> QED
    BY <1>a, <1>d, <2>2 DEF DispatchType, PhasesMatch
<1>7. ASSUME NEW d \in Dispatcher, CompleteEffect(d) PROVE DispatchType' /\ PhasesMatch'
  <2> DEFINE e == Head(batch[d]).effect
             b == IF Accepts(effect[e], Head(batch[d]))
                  THEN report[d].outcome = "unknown" /\ ~report[d].safe ELSE uncertain[e]
  <2>1. uncertain' = [uncertain EXCEPT ![e] = b]
    BY <1>7, Zenon DEF CompleteEffect
  <2>2. e \in Effect
    BY <1>a, <1>7, FirstDelivery DEF CompleteEffect, PhasesMatch
  <2>3. b \in BOOLEAN
    BY <1>a, <2>2, Zenon
  <2> HIDE DEF e, b
  <2>4. uncertain' \in [Effect -> BOOLEAN]
    BY <1>a, <2>1, <2>3, Zenon
  <2> QED
    BY <1>a, <1>d, <1>7, <2>4, Zenon DEF CompleteEffect
<1>8. ASSUME NEW d \in Dispatcher, FailCompletion(d) PROVE DispatchType' /\ PhasesMatch'
  <2>1. losses' \in Nat /\ uncertain' \in [Effect -> BOOLEAN] /\ UNCHANGED <<found, patience>>
    BY <1>a, <1>8 DEF FailCompletion
  <2>2. /\ phase[d] = "reporting" /\ phase' = [phase EXCEPT ![d] = "claiming"]
        /\ batch' = [batch EXCEPT ![d] = Tail(@)] /\ report' = [report EXCEPT ![d] = NoReport]
    BY <1>8 DEF FailCompletion
  <2> QED
    BY <1>d, <2>1, <2>2, Zenon
<1>9. ASSUME NEW d \in Dispatcher, Lose(d) PROVE DispatchType' /\ PhasesMatch'
  <2>1. /\ phase' \in [Dispatcher -> {"idle", "claiming", "calling", "reporting"}]
        /\ found' \in [Dispatcher -> SUBSET Effect] /\ batch' \in [Dispatcher -> Seq(Delivery)]
    BY <1>a, <1>9 DEF Lose
  <2>2. /\ report' \in [Dispatcher -> Report \cup {NoReport}] /\ patience' \in [Dispatcher -> Nat]
        /\ losses' \in Nat /\ uncertain' = uncertain
    BY <1>a, <1>9 DEF Lose
  <2>3. PhasesMatch'
    BY <1>a, <1>9, Zenon DEF Lose, PhasesMatch
  <2> QED
    BY <1>a, <2>1, <2>2, <2>3 DEF DispatchType
<1>10. CASE UNCHANGED outboxVars
  BY <1>c, <1>10 DEF outboxVars
<1> QED
  BY <1>c, <1>1, <1>2, <1>3, <1>4, <1>5, <1>6, <1>7, <1>8, <1>9, <1>10, Zenon DEF OutboxNext, Step

LEMMA DispatchInit == OutboxInit => DispatchInv
<1> SUFFICES ASSUME OutboxInit PROVE DispatchInv
  BY Zenon
<1>1. KernelInv /\ ReviewHoldsEffects
  BY OwnerInit DEF OutboxInit, Init, KernelInv, CommercialOutcome, NoAuthorityNoBill,
                   ReviewHoldsEffects, TerminalStatus
<1>2. DispatchType /\ PhasesMatch
  BY DEF OutboxInit, DispatchType, PhasesMatch
<1> QED
  BY <1>1, <1>2 DEF DispatchInv

(* Whatever dispatchers do and lose, the tables of the kernel stay as its  *)
(* commands make them: owned, billed and held, and the dispatchers' memory *)
(* is well formed.                                                         *)
THEOREM DispatchInvariant == OutboxSpec => []DispatchInv
<1>1. DispatchInv /\ [OutboxNext]_outboxVars => DispatchInv'
  BY KernelKept, DispatchStep DEF DispatchInv
<1> QED
  BY <1>1, DispatchInit, PTL DEF OutboxSpec

(* Dispatchers beside the kernel give a Turn no second owner and no second *)
(* bill, and no effect of a Turn under review is pending or leased:        *)
(* claimEffect and CompleteEffect re-check under the row locks what their  *)
(* scan and their lease told them.                                         *)
THEOREM ReviewHoldsDispatchers ==
  OutboxSpec => [](ReviewHoldsEffects /\ SingleOwner /\ CommercialOutcome)
<1>1. DispatchInv => ReviewHoldsEffects /\ SingleOwner /\ CommercialOutcome
  BY DEF DispatchInv, KernelInv, OwnerInv
<1> QED
  BY <1>1, DispatchInvariant, PTL

-----------------------------------------------------------------------------
(* A token in a dispatcher's memory was handed out, so the row is at least *)
(* as far.                                                                 *)
TokensWereDrawn ==
  \A d \in Dispatcher : \A i \in DOMAIN batch[d] :
    batch[d][i].token <= effect[batch[d][i].effect].token

(* No two deliveries in memory, of one or of two dispatchers, are for the  *)
(* same effect under the same token.                                       *)
TokensDiffer ==
  \A d, f \in Dispatcher : \A i \in DOMAIN batch[d], j \in DOMAIN batch[f] :
    batch[d][i].effect = batch[f][j].effect /\ batch[d][i].token = batch[f][j].token
    => d = f /\ i = j

TokenInv == DispatchInv /\ TokensWereDrawn /\ TokensDiffer

(* Steps that add no delivery: what is in memory after the step was there  *)
(* before, `gone' places further back, and no row lost a token.            *)
LEMMA NoNewDelivery ==
  ASSUME TokenInv, DispatchType', NEW gone \in [Dispatcher -> Nat],
         \A d \in Dispatcher : \A i \in DOMAIN batch'[d] :
            i \in Nat /\ i + gone[d] \in DOMAIN batch[d] /\ batch'[d][i] = batch[d][i + gone[d]],
         \A e \in Effect : effect'[e].token \in Nat /\ effect[e].token <= effect'[e].token
  PROVE  TokensWereDrawn' /\ TokensDiffer'
<1>a. ASSUME NEW d \in Dispatcher, NEW i \in DOMAIN batch[d]
      PROVE  batch[d][i].effect \in Effect /\ batch[d][i].token \in Nat
             /\ effect[batch[d][i].effect].token \in Nat
  <2>1. batch[d] \in Seq(Delivery) /\ effect \in [Effect -> EffectRow]
    BY DEF TokenInv, DispatchInv, DispatchType, KernelInv, OwnerInv, TypeOK
  <2>2. batch[d][i] \in Delivery
    BY <2>1
  <2>3. batch[d][i].effect \in Effect /\ batch[d][i].token \in Nat
    BY <2>2 DEF Delivery
  <2>4. effect[batch[d][i].effect] \in EffectRow
    BY <2>1, <2>3, Zenon
  <2> QED
    BY <2>3, <2>4, Zenon DEF EffectRow
<1>1. TokensWereDrawn'
  <2> SUFFICES ASSUME NEW d \in Dispatcher, NEW i \in DOMAIN batch'[d]
               PROVE  batch'[d][i].token <= effect'[batch'[d][i].effect].token
    BY Zenon DEF TokensWereDrawn
  <2> DEFINE j == i + gone[d]
  <2>1. j \in DOMAIN batch[d] /\ batch'[d][i] = batch[d][j]
    BY Zenon
  <2> HIDE DEF j
  <2>2. batch[d][j].token <= effect[batch[d][j].effect].token
    BY <2>1, Zenon DEF TokenInv, TokensWereDrawn
  <2>3. batch[d][j].effect \in Effect /\ batch[d][j].token \in Nat
        /\ effect[batch[d][j].effect].token \in Nat
    BY <1>a, <2>1, Zenon
  <2> QED
    BY <2>1, <2>2, <2>3
<1>2. TokensDiffer'
  <2> SUFFICES ASSUME NEW d \in Dispatcher, NEW f \in Dispatcher,
                      NEW i \in DOMAIN batch'[d], NEW j \in DOMAIN batch'[f],
                      batch'[d][i].effect = batch'[f][j].effect, batch'[d][i].token = batch'[f][j].token
               PROVE  d = f /\ i = j
    BY DEF TokensDiffer
  <2>1. /\ i \in Nat /\ i + gone[d] \in DOMAIN batch[d] /\ batch'[d][i] = batch[d][i + gone[d]]
        /\ j \in Nat /\ j + gone[f] \in DOMAIN batch[f] /\ batch'[f][j] = batch[f][j + gone[f]]
        /\ gone[d] \in Nat
    BY Zenon
  <2>2. d = f /\ i + gone[d] = j + gone[f]
    BY <2>1 DEF TokenInv, TokensDiffer
  <2> QED
    BY <2>1, <2>2
<1> QED
  BY <1>1, <1>2, Zenon

(* A claim draws the next token of its row.                                *)
LEMMA NewDelivery ==
  ASSUME TokenInv, NEW d \in Dispatcher, NEW e \in Effect, NEW new \in Delivery,
         new.effect = e, new.token = effect[e].token + 1,
         batch' = [batch EXCEPT ![d] = Append(@, new)],
         effect' = [effect EXCEPT ![e] = Lease(effect[e])]
  PROVE  TokensWereDrawn' /\ TokensDiffer'
<1>a. /\ batch \in [Dispatcher -> Seq(Delivery)] /\ effect \in [Effect -> EffectRow]
      /\ TokensWereDrawn /\ TokensDiffer
  BY Zenon DEF TokenInv, DispatchInv, DispatchType, KernelInv, OwnerInv, TypeOK
<1>b. ASSUME NEW f \in Dispatcher, NEW i \in DOMAIN batch[f]
      PROVE  /\ batch[f][i].effect \in Effect /\ batch[f][i].token \in Nat
             /\ effect[batch[f][i].effect].token \in Nat
             /\ batch[f][i].token <= effect[batch[f][i].effect].token
  <2>1. batch[f][i] \in Delivery
    BY <1>a
  <2> QED
    BY <1>a, <2>1 DEF Delivery, EffectRow, TokensWereDrawn
<1>c. ASSUME NEW f \in Effect
      PROVE  effect[f].token \in Nat /\ effect'[f].token = IF f = e THEN effect[f].token + 1 ELSE effect[f].token
  <2>1. effect[f] \in EffectRow
    BY <1>a, Zenon
  <2> QED
    BY <1>a, <2>1, LeaseRow, Zenon DEF EffectRow
<1>d. ASSUME NEW f \in Dispatcher, NEW i \in DOMAIN batch'[f]
      PROVE  \/ i \in DOMAIN batch[f] /\ batch'[f][i] = batch[f][i]
             \/ f = d /\ i = Len(batch[d]) + 1 /\ i \notin DOMAIN batch[d] /\ batch'[f][i] = new
  <2>1. CASE f # d
    BY <1>a, <2>1, Zenon
  <2>2. CASE f = d
    <3>1. batch'[f] = Append(batch[d], new) /\ batch[d] \in Seq(Delivery)
      BY <1>a, <2>2, Zenon
    <3> QED
      BY <2>2, <3>1
  <2> QED
    BY <2>1, <2>2, Zenon
<1>1. TokensWereDrawn'
  <2> SUFFICES ASSUME NEW f \in Dispatcher, NEW i \in DOMAIN batch'[f]
               PROVE  batch'[f][i].token <= effect'[batch'[f][i].effect].token
    BY Zenon DEF TokensWereDrawn
  <2>1. CASE i \in DOMAIN batch[f] /\ batch'[f][i] = batch[f][i]
    BY <1>b, <1>c, <2>1
  <2>2. CASE batch'[f][i] = new
    BY <1>c, <2>2
  <2> QED
    BY <1>d, <2>1, <2>2, Zenon
<1>2. ASSUME NEW f \in Dispatcher, NEW i \in DOMAIN batch[f], batch[f][i].effect = e
      PROVE  batch[f][i].token # new.token
  BY <1>b, <1>c, <1>2
<1>3. TokensDiffer'
  <2> SUFFICES ASSUME NEW g \in Dispatcher, NEW f \in Dispatcher,
                      NEW i \in DOMAIN batch'[g], NEW j \in DOMAIN batch'[f],
                      batch'[g][i].effect = batch'[f][j].effect, batch'[g][i].token = batch'[f][j].token
               PROVE  g = f /\ i = j
    BY DEF TokensDiffer
  <2> QED
    BY <1>a, <1>d, <1>2 DEF TokensDiffer
<1> QED
  BY <1>1, <1>3

(* What a command of the kernel does to a row of the outbox: nothing, or   *)
(* it inserts it, or it holds one that is not delivered yet.               *)
LEMMA CommandOnEffects ==
  ASSUME TypeOK, Command, NEW e \in Effect
  PROVE  \/ effect'[e] = effect[e]
         \/ /\ effect'[e].token = effect[e].token
            /\ \/ effect[e].status = "absent"
               \/ effect[e].status \in {"pending", "delivering"} /\ effect'[e].status = "review_hold"
<1>a. effect[e] \in EffectRow
  BY DEF TypeOK
<1> DEFINE Goal == \/ effect'[e] = effect[e]
                   \/ /\ effect'[e].token = effect[e].token
                      /\ \/ effect[e].status = "absent"
                         \/ effect[e].status \in {"pending", "delivering"} /\ effect'[e].status = "review_hold"
<1>b. ASSUME NEW t, NEW effects, NEW review, effect' = Enqueued(t, effects, review),
             e \in effects => effect[e].status = "absent"
      PROVE  Goal
  <2>1. effect'[e] =
          IF e \in effects
          THEN [effect[e] EXCEPT !.turn = t, !.status = IF review THEN "review_hold" ELSE "pending"]
          ELSE IF review /\ effect[e].turn = t /\ effect[e].status \in {"pending", "delivering"}
               THEN [effect[e] EXCEPT !.status = "review_hold", !.timer = 0]
               ELSE effect[e]
    BY <1>b, Zenon DEF Enqueued
  <2> QED
    BY <1>a, <1>b, <2>1 DEF EffectRow
<1>1. ASSUME NEW t \in Turn, Admit(t) \/ RequestCancel(t) PROVE Goal
  BY <1>1 DEF Admit, RequestCancel
<1>2. ASSUME NEW t \in Turn, NEW a \in Attempt, ClaimAttempt(t, a) PROVE Goal
  BY <1>2 DEF ClaimAttempt
<1>3. ASSUME NEW a \in Attempt, HeartbeatAttempt(a) PROVE Goal
  BY <1>3 DEF HeartbeatAttempt
<1>4. ASSUME NEW a \in Attempt, NEW o \in Operation, NEW effects \in SUBSET Effect,
             CommitOperation(a, o, effects)
      PROVE  Goal
  <2>1. effect' = Enqueued(attempt[a].turn, effects, FALSE) /\ (e \in effects => effect[e].status = "absent")
    BY <1>4, Zenon DEF CommitOperation, Fresh
  <2> QED
    BY <1>b, <2>1, Zenon
<1>5. ASSUME NEW a \in Attempt, NEW o \in Operation, NEW effects \in SUBSET Effect,
             NEW status \in TerminalStatus, NEW intent \in Intent,
             CommitTerminal(a, o, effects, status, intent)
      PROVE  Goal
  <2>1. \E review : effect' = Enqueued(attempt[a].turn, effects, review)
    BY <1>5 DEF CommitTerminal
  <2>2. e \in effects => effect[e].status = "absent"
    BY <1>5, Zenon DEF CommitTerminal, Fresh
  <2> QED
    BY <1>b, <2>1, <2>2, Zenon
<1>6. ASSUME NEW t \in Turn, NEW reason \in ReclaimReason, ReconcileTerminal(t, reason) PROVE Goal
  <2>1. \E review : effect' = Enqueued(t, {}, review)
    BY <1>6 DEF ReconcileTerminal
  <2> QED
    BY <1>b, <2>1
<1> HIDE DEF Goal
<1>7. Goal
  BY <1>1, <1>2, <1>3, <1>4, <1>5, <1>6, Zenon DEF Command
<1> QED
  BY <1>7 DEF Goal

(* Time changes no column of a row but its timer.                          *)
LEMMA TickOnEffects ==
  ASSUME TypeOK, Tick, NEW e \in Effect
  PROVE  /\ effect'[e].status = effect[e].status /\ effect'[e].token = effect[e].token
         /\ effect'[e].turn = effect[e].turn /\ effect'[e].timer = Sooner(effect[e].timer)
<1>1. effect[e] \in EffectRow /\ effect'[e] = [effect[e] EXCEPT !.timer = Sooner(effect[e].timer)]
  BY Zenon DEF TypeOK, Tick
<1> QED
  BY <1>1 DEF EffectRow

(* No step takes a token back.                                             *)
LEMMA TokensOnlyGrow ==
  ASSUME DispatchInv, [OutboxNext]_outboxVars, NEW e \in Effect
  PROVE  effect[e].token \in Nat /\ effect'[e].token \in Nat /\ effect[e].token <= effect'[e].token
<1>a. TypeOK /\ effect[e] \in EffectRow /\ effect[e].token \in Nat
  BY DEF DispatchInv, KernelInv, OwnerInv, TypeOK, EffectRow
<1>1. CASE Command
  BY <1>a, <1>1, CommandOnEffects
<1>2. CASE Tick
  BY <1>a, <1>2, TickOnEffects
<1>3. CASE UNCHANGED vars
  BY <1>a, <1>3 DEF vars
<1>4. ASSUME NEW f \in Effect, NEW row \in EffectRow, Wrote(f, row)
      PROVE  effect'[e].token \in Nat /\ effect[e].token <= effect'[e].token
  BY <1>a, <1>4 DEF Wrote, TypeOK
<1> QED
  BY <1>a, <1>1, <1>2, <1>3, <1>4, OutboxOnKernel, Zenon DEF Next

(* No step leaves two deliveries of one effect under one token.            *)
LEMMA TokenStep == TokenInv /\ [OutboxNext]_outboxVars => TokenInv'
<1> SUFFICES ASSUME TokenInv, [OutboxNext]_outboxVars PROVE TokenInv'
  BY Zenon
<1>a. /\ DispatchInv /\ DispatchInv' /\ DispatchType /\ DispatchType' /\ PhasesMatch
      /\ batch \in [Dispatcher -> Seq(Delivery)] /\ effect \in [Effect -> EffectRow]
  BY KernelKept, DispatchStep, Zenon DEF TokenInv, DispatchInv, DispatchType, KernelInv, OwnerInv, TypeOK
<1>b. \A e \in Effect : effect'[e].token \in Nat /\ effect[e].token <= effect'[e].token
  BY <1>a, TokensOnlyGrow
<1>c. ASSUME batch' = batch PROVE TokensWereDrawn' /\ TokensDiffer'
  <2> DEFINE gone == [d \in Dispatcher |-> 0]
  <2>1. ASSUME NEW d \in Dispatcher, NEW i \in DOMAIN batch'[d]
        PROVE  i \in Nat /\ i + gone[d] \in DOMAIN batch[d] /\ batch'[d][i] = batch[d][i + gone[d]]
    <3>1. batch[d] \in Seq(Delivery) /\ i \in DOMAIN batch[d] /\ gone[d] = 0
      BY <1>a, <1>c
    <3> HIDE DEF gone
    <3>2. i \in Nat /\ i + gone[d] = i
      BY <3>1
    <3> QED
      BY <1>c, <3>1, <3>2
  <2>2. gone \in [Dispatcher -> Nat]
    BY Zenon
  <2> HIDE DEF gone
  <2> QED
    BY <1>a, <1>b, <2>1, <2>2, NoNewDelivery, Zenon
<1>d. ASSUME NEW d \in Dispatcher, batch[d] # <<>>, batch' = [batch EXCEPT ![d] = Tail(@)]
      PROVE  TokensWereDrawn' /\ TokensDiffer'
  <2> DEFINE gone == [f \in Dispatcher |-> IF f = d THEN 1 ELSE 0]
  <2>1. ASSUME NEW f \in Dispatcher, NEW i \in DOMAIN batch'[f]
        PROVE  i \in Nat /\ i + gone[f] \in DOMAIN batch[f] /\ batch'[f][i] = batch[f][i + gone[f]]
    <3>1. CASE f = d
      <4>1. batch[d] \in Seq(Delivery) /\ batch'[d] = Tail(batch[d]) /\ gone[f] = 1
        BY <1>a, <1>d, <3>1, Zenon
      <4> HIDE DEF gone
      <4>2. i \in DOMAIN Tail(batch[d])
        BY <3>1, <4>1
      <4>3. i \in Nat /\ i + 1 \in DOMAIN batch[d] /\ Tail(batch[d])[i] = batch[d][i + 1]
        BY <1>d, <4>1, <4>2
      <4> QED
        BY <3>1, <4>1, <4>3
    <3>2. CASE f # d
      <4>1. batch[f] \in Seq(Delivery) /\ batch'[f] = batch[f] /\ gone[f] = 0
        BY <1>a, <1>d, <3>2
      <4> HIDE DEF gone
      <4>2. i \in Nat /\ i + gone[f] = i
        BY <4>1
      <4> QED
        BY <4>1, <4>2
    <3> QED
      BY <3>1, <3>2, Zenon
  <2>2. gone \in [Dispatcher -> Nat]
    BY Zenon
  <2> HIDE DEF gone
  <2> QED
    BY <1>a, <1>b, <2>1, <2>2, NoNewDelivery, Zenon
<1>1. ASSUME NEW d \in Dispatcher, NEW e \in Effect, ClaimEffect(d, e)
      PROVE  TokensWereDrawn' /\ TokensDiffer'
  <2>1. CASE batch' = batch
    BY <1>c, <2>1
  <2>2. CASE Claimable(e) /\ ~Reviewed(effect[e].turn)
    <3> DEFINE new == [effect |-> e, token |-> Lease(effect[e]).token]
    <3>1. /\ batch' = [batch EXCEPT ![d] = Append(@, new)]
          /\ effect' = [effect EXCEPT ![e] = Lease(effect[e])]
      BY <1>1, <2>2 DEF ClaimEffect
    <3>2. effect[e] \in EffectRow /\ Lease(effect[e]).token = effect[e].token + 1
      BY <1>a, LeaseRow, Zenon
    <3>3. new \in Delivery /\ new.effect = e /\ new.token = effect[e].token + 1
      BY <3>2 DEF Delivery, EffectRow
    <3> HIDE DEF new
    <3> QED
      BY <3>1, <3>3, NewDelivery, Zenon
  <2> QED
    BY <1>1, <2>1, <2>2 DEF ClaimEffect
<1>2. ASSUME NEW d \in Dispatcher, CompleteEffect(d) \/ FailCompletion(d)
      PROVE  TokensWereDrawn' /\ TokensDiffer'
  <2>1. batch[d] # <<>> /\ batch' = [batch EXCEPT ![d] = Tail(@)]
    BY <1>a, <1>2, Zenon DEF CompleteEffect, FailCompletion, PhasesMatch
  <2> QED
    BY <1>d, <2>1, Zenon
<1>3. ASSUME NEW d \in Dispatcher, Lose(d) PROVE TokensWereDrawn' /\ TokensDiffer'
  <2> DEFINE gone == [f \in Dispatcher |-> 0]
  <2>1. ASSUME NEW f \in Dispatcher, NEW i \in DOMAIN batch'[f]
        PROVE  i \in Nat /\ i + gone[f] \in DOMAIN batch[f] /\ batch'[f][i] = batch[f][i + gone[f]]
    <3>1. f # d /\ batch'[f] = batch[f] /\ batch[f] \in Seq(Delivery) /\ gone[f] = 0
      BY <1>a, <1>3 DEF Lose
    <3> HIDE DEF gone
    <3>2. i \in Nat /\ i + gone[f] = i
      BY <3>1
    <3> QED
      BY <3>1, <3>2
  <2>2. gone \in [Dispatcher -> Nat]
    BY Zenon
  <2> HIDE DEF gone
  <2> QED
    BY <1>a, <1>b, <2>1, <2>2, NoNewDelivery, Zenon
<1>4. ASSUME NEW d \in Dispatcher, ScanEffects(d) \/ Rest(d) \/ StartDelivery(d) \/ EndDelivery(d)
      PROVE  batch' = batch
  BY <1>4 DEF ScanEffects, Rest, StartDelivery, EndDelivery
<1>5. (Command /\ UNCHANGED dispatch) \/ OutboxTick \/ UNCHANGED outboxVars => batch' = batch
  BY DEF dispatch, OutboxTick, outboxVars
<1>6. TokensWereDrawn' /\ TokensDiffer'
  BY <1>c, <1>1, <1>2, <1>3, <1>4, <1>5 DEF OutboxNext, Step
<1> QED
  BY <1>a, <1>6 DEF TokenInv

(* TokenInv holds in every state of the outbox.                            *)
THEOREM TokenInvariant == OutboxSpec => []TokenInv
<1>1. OutboxInit => TokenInv
  BY DispatchInit DEF OutboxInit, TokenInv, TokensWereDrawn, TokensDiffer
<1> QED
  BY <1>1, TokenStep, PTL DEF OutboxSpec

(* At most one delivery in the memory of all the dispatchers can still     *)
(* record the outcome of an effect, however many dispatchers claimed it    *)
(* after its lease lapsed: claimEffect draws a new dispatch token and      *)
(* CompleteEffect compares it.                                             *)
THEOREM OneHolderAlways == OutboxSpec => []OneHolder
<1>1. TokenInv => OneHolder
  <2> SUFFICES ASSUME TokenInv, NEW e \in Effect, NEW d \in Dispatcher, NEW f \in Dispatcher
               PROVE  /\ Cardinality(Deliveries(d, e)) <= 1
                      /\ Deliveries(d, e) # {} /\ Deliveries(f, e) # {} => d = f
    BY DEF OneHolder
  <2>1. \A i \in Deliveries(d, e), j \in Deliveries(f, e) : d = f
    BY DEF Deliveries, TokenInv, TokensDiffer
  <2>2. Cardinality(Deliveries(d, e)) <= 1
    <3>1. CASE Deliveries(d, e) = {}
      BY <3>1, FS_EmptySet
    <3>2. ASSUME NEW i \in Deliveries(d, e) PROVE Cardinality(Deliveries(d, e)) <= 1
      <4>1. \A j \in Deliveries(d, e) : j = i
        BY <3>2 DEF Deliveries, TokenInv, TokensDiffer
      <4>2. Deliveries(d, e) = {i}
        BY <3>2, <4>1
      <4>3. Cardinality({i}) = 1
        BY FS_Singleton
      <4> QED
        BY <4>2, <4>3
    <3> QED
      BY <3>1, <3>2
  <2> QED
    BY <2>1, <2>2
<1> QED
  BY <1>1, TokenInvariant, PTL

-----------------------------------------------------------------------------
(* What is delivered, dead-lettered or held stays so, whatever dispatchers *)
(* report afterwards: a claim wants a row that is pending or leased, a     *)
(* report one that is leased, and the kernel holds only those.             *)
THEOREM FinalEffectsStayFinal == OutboxSpec => FinalEffectsStay
<1>1. ASSUME DispatchInv, [OutboxNext]_outboxVars, NEW e \in Effect,
             effect[e].status \in {"delivered", "dead_letter", "review_hold"}
      PROVE  effect'[e].status = effect[e].status
  <2>a. TypeOK /\ effect \in [Effect -> EffectRow]
    BY <1>1 DEF DispatchInv, KernelInv, OwnerInv, TypeOK
  <2>1. CASE Command
    BY <1>1, <2>a, <2>1, CommandOnEffects, Zenon
  <2>2. CASE Tick
    BY <2>a, <2>2, TickOnEffects
  <2>3. CASE UNCHANGED vars
    BY <2>3 DEF vars
  <2>4. ASSUME NEW f \in Effect, NEW row \in EffectRow, Wrote(f, row)
        PROVE  effect'[e].status = effect[e].status
    BY <1>1, <2>a, <2>4, Zenon DEF Wrote
  <2> QED
    BY <1>1, <2>1, <2>2, <2>3, <2>4, OutboxOnKernel, Zenon DEF Next
<1>2. DispatchInv /\ [OutboxNext]_outboxVars
      => [\A e \in Effect : effect[e].status \in {"delivered", "dead_letter", "review_hold"}
            => effect'[e].status = effect[e].status]_outboxVars
  BY <1>1, Zenon
<1> QED
  BY <1>2, DispatchInvariant, PTL DEF OutboxSpec, FinalEffectsStay

-----------------------------------------------------------------------------
(* Prompt dispatchers.  The rows of a batch are leased together and        *)
(* delivered one after the other, each call bounded by DeliveryTimeout; if *)
(* that many calls fit into one lease, nobody can claim a row that is      *)
(* still in a dispatcher's memory.                                         *)

(* An upper bound on the time until delivery i of d is over.               *)
TimeAhead(d, i) ==
  CASE phase[d] = "calling" -> patience[d] + (i - 1) * DeliveryTimeout
    [] phase[d] = "reporting" -> (i - 1) * DeliveryTimeout
    [] OTHER -> i * DeliveryTimeout

(* Delivery i of d has the current token of its row, which is leased for   *)
(* longer than the delivery takes or held by a review.                     *)
Leased(d, i) ==
  LET row == effect[batch[d][i].effect]
  IN  /\ row.token = batch[d][i].token /\ row.status \in {"delivering", "review_hold"}
      /\ row.status = "delivering" => row.timer > TimeAhead(d, i)

LeasesLast == \A d \in Dispatcher : \A i \in DOMAIN batch[d] : Leased(d, i)

BatchesFit ==
  \A d \in Dispatcher : /\ Cardinality(found[d]) + Len(batch[d]) <= BatchLimit
                        /\ phase[d] = "idle" => batch[d] = <<>>

LeaseInv == TokenInv /\ BatchesFit /\ LeasesLast

(* Products of numbers are numbers.                                        *)
LEMMA ProductType == \A m, n \in Nat : m * n \in Nat
  OBVIOUS

(* The three times that may be ahead of the n-th delivery are numbers.     *)
LEMMA TimesAreNumbers ==
  ASSUME NEW n \in Nat \ {0}, NEW p \in Nat
  PROVE  /\ n * DeliveryTimeout \in Nat /\ (n - 1) * DeliveryTimeout \in Nat
         /\ p + (n - 1) * DeliveryTimeout \in Nat
<1>1. DeliveryTimeout \in Nat /\ n - 1 \in Nat
  BY OutboxAssumption
<1>2. n * DeliveryTimeout \in Nat /\ (n - 1) * DeliveryTimeout \in Nat
  BY <1>1, ProductType, Zenon
<1> QED
  BY <1>2

(* What is known of a delivery in memory.                                  *)
LEMMA InMemory ==
  ASSUME DispatchInv, NEW d \in Dispatcher, NEW i \in DOMAIN batch[d]
  PROVE  /\ i \in Nat \ {0} /\ i <= Len(batch[d]) /\ batch[d][i].effect \in Effect
         /\ effect[batch[d][i].effect] \in EffectRow /\ effect[batch[d][i].effect].timer \in Nat
         /\ TimeAhead(d, i) \in Nat
<1>1. batch[d] \in Seq(Delivery) /\ effect \in [Effect -> EffectRow] /\ patience[d] \in Nat
  BY DEF DispatchInv, DispatchType, KernelInv, OwnerInv, TypeOK
<1>2. batch[d][i] \in Delivery /\ i \in Nat \ {0} /\ i <= Len(batch[d])
  BY <1>1
<1>3. batch[d][i].effect \in Effect
  BY <1>2 DEF Delivery
<1>4. effect[batch[d][i].effect] \in EffectRow
  BY <1>1, <1>3
<1>5. TimeAhead(d, i) \in Nat
  BY <1>1, <1>2, TimesAreNumbers, Zenon DEF TimeAhead
<1> QED
  BY <1>2, <1>3, <1>4, <1>5, Zenon DEF EffectRow

(* Two deliveries in memory are for two effects.                           *)
LEMMA NoTwoLeased ==
  ASSUME LeaseInv, NEW d \in Dispatcher, NEW f \in Dispatcher,
         NEW i \in DOMAIN batch[d], NEW j \in DOMAIN batch[f],
         batch[d][i].effect = batch[f][j].effect
  PROVE  d = f /\ i = j
<1>1. Leased(d, i) /\ Leased(f, j)
  BY Zenon DEF LeaseInv, LeasesLast
<1> QED
  BY <1>1 DEF Leased, LeaseInv, TokenInv, TokensDiffer

(* The first delivery of d is for another effect than any other delivery.  *)
LEMMA FirstIsAlone ==
  ASSUME LeaseInv, NEW d \in Dispatcher, 1 \in DOMAIN batch[d],
         NEW f \in Dispatcher, NEW i \in DOMAIN batch[f], f # d \/ i # 1
  PROVE  batch[f][i].effect # batch[d][1].effect
BY NoTwoLeased

(* What can be claimed is in no dispatcher's memory.                       *)
LEMMA ClaimableIsFree ==
  ASSUME LeaseInv, NEW d \in Dispatcher, NEW i \in DOMAIN batch[d], NEW e, Claimable(e)
  PROVE  batch[d][i].effect # e
<1>1. Leased(d, i) /\ TimeAhead(d, i) \in Nat
  BY InMemory DEF LeaseInv, LeasesLast, TokenInv
<1> QED
  BY <1>1 DEF Leased, Claimable

(* A scan returns no more rows than asked for.                             *)
LEMMA ScanIsBounded ==
  ASSUME NEW ready \in SUBSET Effect, NEW rows \in kSubset(Min({BatchLimit, Cardinality(ready)}), ready)
  PROVE  Cardinality(rows) \in Nat /\ Cardinality(rows) <= BatchLimit
<1> DEFINE n == Cardinality(ready)
<1>1. n \in Nat /\ BatchLimit \in Nat
  BY OutboxAssumption, FS_Subset, FS_CardinalityType, Zenon
<1>2. Cardinality(rows) = Min({BatchLimit, n})
  BY DEF kSubset
<1> HIDE DEF n
<1>3. \E x \in {BatchLimit, n} : \A y \in {BatchLimit, n} : x <= y
  BY <1>1
<1>4. Min({BatchLimit, n}) \in {BatchLimit, n} /\ \A y \in {BatchLimit, n} : Min({BatchLimit, n}) <= y
  BY <1>3, Zenon DEF Min
<1> QED
  BY <1>1, <1>2, <1>4, Zenon

LEMMA FitStep ==
  ASSUME DispatchInv, BatchesFit, [OutboxNext]_outboxVars
  PROVE  BatchesFit'
<1>a. /\ found \in [Dispatcher -> SUBSET Effect] /\ batch \in [Dispatcher -> Seq(Delivery)]
      /\ phase \in [Dispatcher -> {"idle", "claiming", "calling", "reporting"}]
      /\ DispatchType /\ PhasesMatch /\ BatchLimit \in Nat
  BY OutboxAssumption, Zenon DEF DispatchInv, DispatchType
<1>b. \A d \in Dispatcher : /\ Len(batch[d]) \in Nat /\ IsFiniteSet(found[d]) /\ Cardinality(found[d]) \in Nat
                            /\ Cardinality(found[d]) + Len(batch[d]) <= BatchLimit
  BY <1>a, OutboxAssumption, FS_Subset, FS_CardinalityType DEF BatchesFit
<1>c. ASSUME NEW d \in Dispatcher,
             \A f \in Dispatcher \ {d} : UNCHANGED <<found[f], batch[f], phase[f]>>,
             Cardinality(found'[d]) + Len(batch'[d]) <= BatchLimit,
             phase'[d] = "idle" => batch'[d] = <<>>
      PROVE  BatchesFit'
  BY <1>c, Zenon DEF BatchesFit
<1>1. ASSUME NEW d \in Dispatcher, ScanEffects(d) PROVE BatchesFit'
  <2>1. PICK rows : /\ rows \in kSubset(Min({BatchLimit, Cardinality({e \in Effect : Claimable(e)})}),
                                        {e \in Effect : Claimable(e)})
                    /\ found' = [found EXCEPT ![d] = rows]
    BY <1>1, Zenon DEF ScanEffects
  <2>2. Cardinality(rows) \in Nat /\ Cardinality(rows) <= BatchLimit
    BY <2>1, ScanIsBounded, Zenon
  <2>3. phase[d] = "idle" /\ phase' = [phase EXCEPT ![d] = "claiming"] /\ batch' = batch
    BY <1>1 DEF ScanEffects
  <2>4. Len(batch[d]) = 0
    BY <2>3 DEF BatchesFit
  <2> QED
    BY <1>a, <1>c, <2>1, <2>2, <2>3, <2>4
<1>2. ASSUME NEW d \in Dispatcher, NEW e \in Effect, ClaimEffect(d, e) PROVE BatchesFit'
  <2>1. /\ found'[d] = found[d] \ {e} /\ e \in found[d] /\ phase' = phase /\ phase[d] = "claiming"
        /\ \A f \in Dispatcher \ {d} : UNCHANGED <<found[f], batch[f]>>
    BY <1>a, <1>2 DEF ClaimEffect
  <2>2. Cardinality(found'[d]) = Cardinality(found[d]) - 1
    BY <1>b, <2>1, FS_RemoveElement, Zenon
  <2>3. Len(batch'[d]) \in Nat /\ Len(batch'[d]) <= Len(batch[d]) + 1
    <3>1. batch'[d] = batch[d] \/ \E new : batch'[d] = Append(batch[d], new)
      BY <1>a, <1>2, Zenon DEF ClaimEffect
    <3>2. batch[d] \in Seq(Delivery)
      BY <1>a, Zenon
    <3> QED
      BY <3>1, <3>2
  <2>4. Cardinality(found'[d]) + Len(batch'[d]) <= BatchLimit
    BY <1>a, <1>b, <2>2, <2>3
  <2>5. phase'[d] # "idle" /\ \A f \in Dispatcher \ {d} : UNCHANGED <<found[f], batch[f], phase[f]>>
    BY <2>1, Zenon
  <2> QED
    BY <1>c, <2>4, <2>5, Zenon
<1>3. ASSUME NEW d \in Dispatcher, CompleteEffect(d) \/ FailCompletion(d) PROVE BatchesFit'
  <2>1. /\ phase[d] = "reporting" /\ phase' = [phase EXCEPT ![d] = "claiming"]
        /\ batch' = [batch EXCEPT ![d] = Tail(@)] /\ found' = found
    BY <1>3, Zenon DEF CompleteEffect, FailCompletion
  <2>2. batch[d] # <<>> /\ batch[d] \in Seq(Delivery)
    BY <1>a, <2>1, Zenon DEF PhasesMatch
  <2>3. Len(Tail(batch[d])) = Len(batch[d]) - 1
    BY <2>2
  <2> QED
    BY <1>a, <1>b, <1>c, <2>1, <2>3
<1>4. ASSUME NEW d \in Dispatcher, Rest(d) \/ StartDelivery(d) \/ EndDelivery(d) PROVE BatchesFit'
  BY <1>a, <1>b, <1>c, <1>4, Zenon DEF Rest, StartDelivery, EndDelivery
<1>5. ASSUME NEW d \in Dispatcher, Lose(d) PROVE BatchesFit'
  <2>1. found'[d] = {} /\ batch'[d] = <<>> /\ \A f \in Dispatcher \ {d} : UNCHANGED <<found[f], batch[f], phase[f]>>
    BY <1>a, <1>5, Zenon DEF Lose
  <2>2. Cardinality(found'[d]) = 0 /\ Len(batch'[d]) = 0
    BY <2>1, FS_EmptySet, Zenon
  <2>3. Cardinality(found'[d]) + Len(batch'[d]) <= BatchLimit
    BY <1>a, <2>2
  <2> QED
    BY <1>c, <2>1, <2>3, Zenon
<1>6. CASE UNCHANGED <<found, batch, phase>>
  BY <1>6, Zenon DEF BatchesFit
<1> QED
  BY <1>1, <1>2, <1>3, <1>4, <1>5, <1>6, Zenon DEF OutboxNext, Step, OutboxTick, outboxVars, dispatch

(* A delivery stays leased when its row is left alone or held and its end  *)
(* comes no later.                                                         *)
LEMMA StaysLeased ==
  ASSUME LeaseInv, DispatchInv', NEW d \in Dispatcher, NEW i \in DOMAIN batch'[d], NEW j \in DOMAIN batch[d],
         batch'[d][i] = batch[d][j], TimeAhead(d, i)' <= TimeAhead(d, j),
         LET e == batch[d][j].effect
         IN  \/ effect'[e] = effect[e]
             \/ effect'[e].token = effect[e].token /\ effect'[e].status = "review_hold"
  PROVE  Leased(d, i)'
<1> DEFINE e == batch[d][j].effect
           now == TimeAhead(d, j)
           then == TimeAhead(d, i)'
<1>1. /\ effect[e].token = batch[d][j].token /\ effect[e].status \in {"delivering", "review_hold"}
      /\ effect[e].status = "delivering" => effect[e].timer > now
  BY Zenon DEF LeaseInv, LeasesLast, Leased
<1>2. now \in Nat /\ effect[e].timer \in Nat
  BY InMemory, Zenon DEF LeaseInv, TokenInv
<1>3. i \in Nat \ {0} /\ patience'[d] \in Nat
  <2>1. batch'[d] \in Seq(Delivery) /\ patience'[d] \in Nat
    BY Zenon DEF DispatchInv, DispatchType
  <2> QED
    BY <2>1
<1>4. then \in Nat
  BY <1>3, TimesAreNumbers, Zenon DEF TimeAhead
<1>5. batch'[d][i].effect = e /\ batch'[d][i].token = batch[d][j].token /\ then <= now
  BY Zenon
<1> HIDE DEF e, now, then
<1>6. \/ effect'[e] = effect[e]
      \/ effect'[e].token = effect[e].token /\ effect'[e].status = "review_hold"
  BY Zenon DEF e
<1>7. /\ effect'[e].token = batch[d][j].token /\ effect'[e].status \in {"delivering", "review_hold"}
      /\ effect'[e].status = "delivering" => effect'[e].timer > then
  BY <1>1, <1>2, <1>4, <1>5, <1>6
<1> QED
  BY <1>5, <1>7 DEF Leased, then

(* A tick takes one unit off a call's patience and at most one off the     *)
(* lease of its row.                                                       *)
LEMMA TickLeavesTime ==
  ASSUME NEW n \in Nat, NEW m \in {n, Sooner(n)}, NEW p \in Nat, NEW k \in Int, n > p + k
  PROVE  m > (p - 1) + k
BY DEF Sooner

(* The call that starts takes the place of the first delivery in the time  *)
(* ahead; the call that ends takes what is left of its patience off it.    *)
LEMMA CallTakesItsTurn ==
  ASSUME NEW n \in Nat, NEW p \in Nat
  PROVE  /\ DeliveryTimeout + (n - 1) * DeliveryTimeout <= n * DeliveryTimeout
         /\ (n - 1) * DeliveryTimeout <= p + (n - 1) * DeliveryTimeout
<1>1. DeliveryTimeout \in Nat
  BY OutboxAssumption
<1> QED
  BY <1>1

(* The deliveries of a batch that fits take less time than a lease.        *)
LEMMA BatchFitsLease ==
  ASSUME BatchLimit * DeliveryTimeout < EffectLeaseTTL,
         NEW c \in Nat, NEW last \in Nat, c + last <= BatchLimit
  PROVE  EffectLeaseTTL > last * DeliveryTimeout
<1>1. BatchLimit \in Nat /\ DeliveryTimeout \in Nat /\ EffectLeaseTTL \in Nat /\ last <= BatchLimit
  BY OutboxAssumption
<1>2. last * DeliveryTimeout <= BatchLimit * DeliveryTimeout
  BY <1>1
<1>3. last * DeliveryTimeout \in Nat /\ BatchLimit * DeliveryTimeout \in Nat
  BY <1>1
<1> QED
  BY <1>1, <1>2, <1>3

(* With prompt dispatchers whose batches fit into a lease, no step leaves  *)
(* a delivery in memory without its lease.                                 *)
LEMMA LeaseStep ==
  ASSUME Prompt, BatchLimit * DeliveryTimeout < EffectLeaseTTL, LeaseInv, [OutboxNext]_outboxVars
  PROVE  LeasesLast'
<1>a. /\ DispatchInv /\ DispatchInv' /\ DispatchType /\ PhasesMatch /\ BatchesFit' /\ TypeOK
      /\ batch \in [Dispatcher -> Seq(Delivery)] /\ effect \in [Effect -> EffectRow]
      /\ phase \in [Dispatcher -> {"idle", "claiming", "calling", "reporting"}]
      /\ patience \in [Dispatcher -> Nat] /\ DeliveryTimeout \in Nat /\ EffectLeaseTTL \in Nat
      /\ BatchLimit \in Nat
  BY KernelKept, DispatchStep, FitStep, OutboxAssumption
     DEF LeaseInv, TokenInv, DispatchInv, DispatchType, KernelInv, OwnerInv, TypeOK
<1>b. ASSUME NEW d \in Dispatcher, UNCHANGED <<phase[d], patience[d]>>, NEW i
      PROVE  TimeAhead(d, i)' = TimeAhead(d, i)
  BY <1>b DEF TimeAhead
<1>c. ASSUME NEW d \in Dispatcher, UNCHANGED <<phase[d], patience[d], batch[d]>>, NEW i \in DOMAIN batch'[d],
             \/ effect'[batch[d][i].effect] = effect[batch[d][i].effect]
             \/ /\ effect'[batch[d][i].effect].token = effect[batch[d][i].effect].token
                /\ effect'[batch[d][i].effect].status = "review_hold"
      PROVE  Leased(d, i)'
  <2>1. TimeAhead(d, i)' = TimeAhead(d, i) /\ TimeAhead(d, i) \in Nat
    BY <1>a, <1>b, <1>c, InMemory, Zenon
  <2>2. TimeAhead(d, i)' <= TimeAhead(d, i)
    BY <2>1
  <2> QED
    BY <1>a, <1>c, <2>2, StaysLeased, Zenon
<1>1. CASE Command /\ UNCHANGED dispatch
  <2> SUFFICES ASSUME NEW d \in Dispatcher, NEW i \in DOMAIN batch'[d] PROVE Leased(d, i)'
    BY Zenon DEF LeasesLast
  <2> DEFINE e == batch[d][i].effect
  <2>1. e \in Effect /\ effect[e].status \in {"delivering", "review_hold"}
    BY <1>1, <1>a, InMemory, Zenon DEF LeaseInv, LeasesLast, Leased, dispatch
  <2>2. \/ effect'[e] = effect[e]
        \/ effect'[e].token = effect[e].token /\ effect'[e].status = "review_hold"
    BY <1>1, <1>a, <2>1, CommandOnEffects, Zenon
  <2> QED
    BY <1>1, <1>c, <2>2, Zenon DEF dispatch
<1>2. CASE OutboxTick
  <2> SUFFICES ASSUME NEW d \in Dispatcher, NEW i \in DOMAIN batch'[d] PROVE Leased(d, i)'
    BY DEF LeasesLast
  <2> DEFINE e == batch[d][i].effect
  <2>1. batch' = batch /\ phase' = phase /\ i \in DOMAIN batch[d] /\ patience'[d] = Sooner(patience[d])
    BY <1>2, Zenon DEF OutboxTick
  <2>2. phase[d] \in {"idle", "calling"} /\ (phase[d] = "calling" => patience[d] > 0)
    BY <1>2, Zenon DEF OutboxTick
  <2>3. phase[d] = "calling"
    BY <2>1, <2>2 DEF LeaseInv, BatchesFit
  <2>4. /\ i \in Nat \ {0} /\ e \in Effect /\ effect[e].timer \in Nat /\ patience[d] \in Nat
        /\ patience'[d] = patience[d] - 1 /\ (i - 1) * DeliveryTimeout \in Int
    BY <1>a, <2>1, <2>2, <2>3, InMemory DEF Sooner
  <2>5. /\ TimeAhead(d, i) = patience[d] + (i - 1) * DeliveryTimeout
        /\ TimeAhead(d, i)' = patience'[d] + (i - 1) * DeliveryTimeout
    BY <2>1, <2>3, Zenon DEF TimeAhead
  <2>6. /\ effect[e].token = batch[d][i].token /\ effect[e].status \in {"delivering", "review_hold"}
        /\ effect[e].status = "delivering" => effect[e].timer > TimeAhead(d, i)
        /\ TimeAhead(d, i) \in Nat
    BY <1>a, <2>1, InMemory, Zenon DEF LeaseInv, LeasesLast, Leased
  <2>7. /\ effect'[e].status = effect[e].status /\ effect'[e].token = effect[e].token
        /\ effect'[e].timer \in {effect[e].timer, Sooner(effect[e].timer)}
    BY <1>2, <1>a, <2>4, TickOnEffects, Zenon DEF OutboxTick, vars
  <2>8. effect[e].status = "delivering" => effect'[e].timer > TimeAhead(d, i)'
    <3> HIDE DEF e
    <3> SUFFICES ASSUME effect[e].status = "delivering" PROVE effect'[e].timer > TimeAhead(d, i)'
      BY Zenon
    <3>1. effect[e].timer > patience[d] + (i - 1) * DeliveryTimeout
      BY <2>5, <2>6, Zenon
    <3>2. effect'[e].timer > (patience[d] - 1) + (i - 1) * DeliveryTimeout
      BY <2>4, <2>7, <3>1, TickLeavesTime, Zenon
    <3> QED
      BY <2>4, <2>5, <3>2, Zenon
  <2> QED
    BY <2>1, <2>6, <2>7, <2>8, Zenon DEF Leased
<1>3. ASSUME NEW d \in Dispatcher, ScanEffects(d) \/ Rest(d) \/ StartDelivery(d) \/ EndDelivery(d) \/ Lose(d)
      PROVE  LeasesLast'
  <2>1. /\ effect' = effect
        /\ \A f \in Dispatcher \ {d} : UNCHANGED <<phase[f], patience[f], batch[f]>>
    BY <1>3, <1>a DEF ScanEffects, Rest, StartDelivery, EndDelivery, Lose, vars
  <2>2. ASSUME NEW i \in DOMAIN batch'[d] PROVE Leased(d, i)'
    <3>1. StartDelivery(d) \/ EndDelivery(d)
      BY <1>3, <1>a, <2>2 DEF ScanEffects, Rest, Lose, LeaseInv, BatchesFit
    <3>2. /\ batch' = batch /\ i \in DOMAIN batch[d]
          /\ \/ phase[d] = "claiming" /\ phase'[d] = "calling" /\ patience'[d] = DeliveryTimeout
             \/ phase[d] = "calling" /\ phase'[d] = "reporting"
      BY <1>a, <2>2, <3>1, Zenon DEF StartDelivery, EndDelivery
    <3>3. i \in Nat /\ patience[d] \in Nat
      BY <1>a, <3>2, InMemory, Zenon
    <3>4. TimeAhead(d, i)' <= TimeAhead(d, i)
      <4>1. CASE phase[d] = "claiming" /\ phase'[d] = "calling" /\ patience'[d] = DeliveryTimeout
        <5>1. TimeAhead(d, i) = i * DeliveryTimeout /\ TimeAhead(d, i)' = DeliveryTimeout + (i - 1) * DeliveryTimeout
          BY <4>1, Zenon DEF TimeAhead
        <5> QED
          BY <3>3, <5>1, CallTakesItsTurn, Zenon
      <4>2. CASE phase[d] = "calling" /\ phase'[d] = "reporting"
        <5>1. /\ TimeAhead(d, i) = patience[d] + (i - 1) * DeliveryTimeout
              /\ TimeAhead(d, i)' = (i - 1) * DeliveryTimeout
          BY <4>2, Zenon DEF TimeAhead
        <5> QED
          BY <3>3, <5>1, CallTakesItsTurn, Zenon
      <4> QED
        BY <3>2, <4>1, <4>2, Zenon
    <3> QED
      BY <1>a, <2>1, <3>2, <3>4, StaysLeased, Zenon
  <2> QED
    BY <1>c, <2>1, <2>2, Zenon DEF LeasesLast
<1>4. ASSUME NEW d \in Dispatcher, CompleteEffect(d) \/ FailCompletion(d) PROVE LeasesLast'
  <2> DEFINE e == Head(batch[d]).effect
  <2>1. /\ phase[d] = "reporting" /\ phase'[d] = "claiming" /\ batch' = [batch EXCEPT ![d] = Tail(@)]
        /\ \A f \in Dispatcher \ {d} : UNCHANGED <<phase[f], patience[f], batch[f]>>
    BY <1>4, <1>a, Zenon DEF CompleteEffect, FailCompletion
  <2>2. batch[d] # <<>> /\ e = batch[d][1].effect /\ 1 \in DOMAIN batch[d] /\ e \in Effect
    BY <1>a, <2>1, FirstDelivery, Zenon DEF PhasesMatch
  <2>3. \A f \in Effect \ {e} : effect'[f] = effect[f]
    BY <1>4, <1>a, Zenon DEF CompleteEffect, FailCompletion, vars
  <2>4. ASSUME NEW f \in Dispatcher, NEW j \in DOMAIN batch[f], f # d \/ j # 1
        PROVE  effect'[batch[f][j].effect] = effect[batch[f][j].effect]
    <3>1. batch[f][j].effect \in Effect
      BY <1>a, InMemory, Zenon
    <3> QED
      BY <2>2, <2>3, <2>4, <3>1, FirstIsAlone, Zenon
  <2>5. ASSUME NEW i \in DOMAIN batch'[d] PROVE Leased(d, i)'
    <3>1. batch[d] \in Seq(Delivery) /\ batch'[d] = Tail(batch[d])
      BY <1>a, <2>1, Zenon
    <3>2. i \in DOMAIN Tail(batch[d])
      BY <2>5, <3>1, Zenon
    <3>3. /\ i \in Nat \ {0} /\ i + 1 \in DOMAIN batch[d] /\ i + 1 # 1
          /\ batch'[d][i] = batch[d][i + 1]
      BY <2>2, <3>1, <3>2
    <3>4. TimeAhead(d, i)' = i * DeliveryTimeout /\ TimeAhead(d, i + 1) = ((i + 1) - 1) * DeliveryTimeout
      BY <2>1, Zenon DEF TimeAhead
    <3>5. TimeAhead(d, i)' <= TimeAhead(d, i + 1)
      BY <1>a, <3>3, <3>4
    <3> QED
      BY <1>a, <2>4, <2>5, <3>3, <3>5, StaysLeased, Zenon
  <2>6. ASSUME NEW f \in Dispatcher \ {d}, NEW i \in DOMAIN batch'[f] PROVE Leased(f, i)'
    BY <1>c, <2>1, <2>4, <2>6, Zenon
  <2> QED
    BY <2>5, <2>6 DEF LeasesLast
<1>5. ASSUME NEW d \in Dispatcher, NEW e \in Effect, ClaimEffect(d, e) PROVE LeasesLast'
  <2>1. phase' = phase /\ patience' = patience /\ phase[d] = "claiming"
    BY <1>5, Zenon DEF ClaimEffect
  <2>2. CASE batch' = batch /\ effect' = effect
    BY <1>c, <2>1, <2>2, Zenon DEF LeasesLast
  <2>3. CASE /\ Claimable(e) /\ effect' = [effect EXCEPT ![e] = Lease(effect[e])]
             /\ batch' = [batch EXCEPT ![d] = Append(@, [effect |-> e, token |-> Lease(effect[e]).token])]
    <3> DEFINE new == [effect |-> e, token |-> Lease(effect[e]).token]
    <3>1. ASSUME NEW f \in Dispatcher, NEW j \in DOMAIN batch[f], j \in DOMAIN batch'[f],
                 batch'[f][j] = batch[f][j]
          PROVE  Leased(f, j)'
      <4>1. batch[f][j].effect # e /\ batch[f][j].effect \in Effect
        BY <1>a, <2>3, ClaimableIsFree, InMemory, Zenon
      <4>2. effect'[batch[f][j].effect] = effect[batch[f][j].effect]
        BY <1>a, <2>3, <4>1, Zenon
      <4>3. TimeAhead(f, j)' <= TimeAhead(f, j)
        BY <1>a, <1>b, <2>1, InMemory
      <4> QED
        BY <1>a, <3>1, <4>2, <4>3, StaysLeased, Zenon
    <3>2. batch[d] \in Seq(Delivery) /\ batch'[d] = Append(batch[d], new)
      BY <1>a, <2>3, Zenon
    <3>3. /\ effect'[e].token = new.token /\ effect'[e].status = "delivering"
          /\ effect'[e].timer = EffectLeaseTTL /\ new.effect = e
      BY <1>a, <2>3, LeaseRow, Zenon
    <3> HIDE DEF new
    <3>l. PICK last \in Nat : last = Len(batch[d]) + 1
      BY <3>2
    <3>4. last \in Nat /\ batch'[d][last] = new /\ Len(batch'[d]) = last
      BY <3>2, <3>l
    <3>5. Leased(d, last)'
      <4>1. found'[d] \in SUBSET Effect /\ Cardinality(found'[d]) + last <= BatchLimit
        BY <1>a, <3>4, Zenon DEF BatchesFit, DispatchInv, DispatchType
      <4>2. Cardinality(found'[d]) \in Nat
        BY <4>1, OutboxAssumption, FS_Subset, FS_CardinalityType, Zenon
      <4>5. TimeAhead(d, last)' = last * DeliveryTimeout
        BY <2>1 DEF TimeAhead
      <4>6. EffectLeaseTTL > TimeAhead(d, last)'
        BY <3>4, <4>1, <4>2, <4>5, BatchFitsLease, Zenon
      <4> QED
        BY <3>3, <3>4, <4>6, Zenon DEF Leased
    <3>6. ASSUME NEW f \in Dispatcher, NEW i \in DOMAIN batch'[f]
          PROVE  (i \in DOMAIN batch[f] /\ batch'[f][i] = batch[f][i]) \/ (f = d /\ i = last)
      <4>1. CASE f # d
        BY <1>a, <2>3, <4>1, Zenon
      <4>2. CASE f = d
        <5>1. i \in DOMAIN Append(batch[d], new)
          BY <3>2, <4>2, Zenon
        <5> QED
          BY <3>2, <3>l, <4>2, <5>1
      <4> QED
        BY <4>1, <4>2, Zenon
    <3> QED
      BY <3>1, <3>5, <3>6, Zenon DEF LeasesLast
  <2> QED
    BY <1>5, <2>2, <2>3, Zenon DEF ClaimEffect
<1>6. CASE UNCHANGED outboxVars
  BY <1>c, <1>6, Zenon DEF outboxVars, dispatch, vars, LeasesLast
<1> QED
  BY <1>1, <1>2, <1>3, <1>4, <1>5, <1>6, Zenon DEF OutboxNext, Step

LEMMA LeaseInvStep ==
  ASSUME Prompt, BatchLimit * DeliveryTimeout < EffectLeaseTTL
  PROVE  LeaseInv /\ [OutboxNext]_outboxVars => LeaseInv'
BY LeaseStep, FitStep, TokenStep DEF LeaseInv, TokenInv

LEMMA LeaseInvInit == OutboxInit => LeaseInv
<1> SUFFICES ASSUME OutboxInit PROVE LeaseInv
  OBVIOUS
<1>1. TokenInv /\ LeasesLast
  BY DispatchInit DEF OutboxInit, TokenInv, TokensWereDrawn, TokensDiffer, LeasesLast
<1>2. \A d \in Dispatcher : Cardinality(found[d]) = 0 /\ Len(batch[d]) = 0 /\ batch[d] = <<>>
  BY FS_EmptySet, Zenon DEF OutboxInit
<1>3. BatchesFit
  BY <1>2, OutboxAssumption DEF BatchesFit
<1> QED
  BY <1>1, <1>3, Zenon DEF LeaseInv

(* Prompt dispatchers whose batch of calls fits into one lease never call  *)
(* the provider for the same effect at once.  The code bounds one call by  *)
(* the lease (Validate), so a batch of one always fits; a longer one fits  *)
(* when BatchLimit calls do, which nothing in the code demands.            *)
THEOREM OneInFlightWhenBatchesFit ==
  ASSUME Prompt, BatchLimit * DeliveryTimeout < EffectLeaseTTL
  PROVE  OutboxSpec => []OneInFlight
<1>1. LeaseInv => OneInFlight
  <2> SUFFICES ASSUME LeaseInv, NEW d \in Dispatcher, NEW f \in Dispatcher,
                      phase[d] = "calling", phase[f] = "calling",
                      Head(batch[d]).effect = Head(batch[f]).effect
               PROVE  d = f
    BY Zenon DEF OneInFlight
  <2>1. /\ Head(batch[d]) = batch[d][1] /\ 1 \in DOMAIN batch[d]
        /\ Head(batch[f]) = batch[f][1] /\ 1 \in DOMAIN batch[f]
    BY FirstDelivery DEF LeaseInv, TokenInv, DispatchInv, PhasesMatch
  <2> QED
    BY <2>1, NoTwoLeased
<1> QED
  BY <1>1, LeaseInvInit, LeaseInvStep, PTL DEF OutboxSpec

(* A batch of one fits whatever the timeouts.                              *)
THEOREM OneInFlightOneByOne ==
  ASSUME Prompt, BatchLimit = 1
  PROVE  OutboxSpec => []OneInFlight
<1>1. BatchLimit * DeliveryTimeout < EffectLeaseTTL
  BY OutboxAssumption
<1> QED
  BY <1>1, OneInFlightWhenBatchesFit, Zenon

-----------------------------------------------------------------------------
(* d made the call for the first of its deliveries.                        *)
Called(d) == phase[d] \in {"calling", "reporting"}

(* A delivery that is still to be called for has nothing uncertain behind  *)
(* it; an uncertain call is the one in progress, or its row is final.      *)
NothingInDoubt ==
  \A d \in Dispatcher : \A i \in DOMAIN batch[d] :
    ~Called(d) \/ i > 1 => ~uncertain[batch[d][i].effect]

DoubtIsHeld ==
  \A e \in Effect : uncertain[e] =>
    /\ effect[e].status # "absent"
    /\ effect[e].status \in {"pending", "delivering"} =>
         \E d \in Dispatcher : Called(d) /\ Head(batch[d]).effect = e

CallsKnown == losses = 0 => NothingInDoubt /\ DoubtIsHeld

(* Steps that start and finish no call.                                    *)
LEMMA KnownKept ==
  ASSUME NothingInDoubt, DoubtIsHeld, UNCHANGED <<batch, uncertain>>,
         \A d \in Dispatcher : Called(d)' <=> Called(d),
         \A e \in Effect : effect[e].status # "absent" =>
            effect'[e].status \in {effect[e].status, "review_hold"}
  PROVE  NothingInDoubt' /\ DoubtIsHeld'
<1>1. NothingInDoubt'
  BY Zenon DEF NothingInDoubt
<1>2. ASSUME NEW e \in Effect, uncertain'[e]
      PROVE  /\ effect'[e].status # "absent"
             /\ effect'[e].status \in {"pending", "delivering"} =>
                  \E d \in Dispatcher : Called(d)' /\ Head(batch'[d]).effect = e
  BY <1>2, Zenon DEF DoubtIsHeld
<1> QED
  BY <1>1, <1>2, Zenon DEF DoubtIsHeld

LEMMA KnownStep ==
  ASSUME LeaseInv, CallsKnown, [OutboxNext]_outboxVars, losses' = 0
  PROVE  NothingInDoubt' /\ DoubtIsHeld'
<1>a. /\ DispatchInv /\ DispatchType /\ PhasesMatch /\ TypeOK /\ losses \in Nat
      /\ batch \in [Dispatcher -> Seq(Delivery)] /\ effect \in [Effect -> EffectRow]
      /\ phase \in [Dispatcher -> {"idle", "claiming", "calling", "reporting"}]
      /\ uncertain \in [Effect -> BOOLEAN]
  BY DEF LeaseInv, TokenInv, DispatchInv, DispatchType, KernelInv, OwnerInv, TypeOK
<1>b. losses = 0
  <2>1. ASSUME NEW d \in Dispatcher, Step(d) PROVE losses' = losses
    BY <2>1, Zenon DEF Step, ScanEffects, ClaimEffect, Rest, StartDelivery, EndDelivery, CompleteEffect
  <2>2. ASSUME NEW d \in Dispatcher, FailCompletion(d) \/ Lose(d) PROVE losses' = losses + 1
    BY <2>2, Zenon DEF FailCompletion, Lose
  <2>3. losses' = losses \/ losses' = losses + 1
    BY <2>1, <2>2 DEF OutboxNext, OutboxTick, outboxVars, dispatch
  <2> QED
    BY <1>a, <2>3
<1>c. NothingInDoubt /\ DoubtIsHeld
  BY <1>b DEF CallsKnown
<1>1. CASE Command /\ UNCHANGED dispatch
  <2>1. \A e \in Effect : effect[e].status # "absent" =>
            effect'[e].status \in {effect[e].status, "review_hold"}
    BY <1>a, <1>1, CommandOnEffects
  <2> QED
    BY <1>1, <1>c, <2>1, KnownKept, Zenon DEF dispatch, Called
<1>2. CASE OutboxTick
  <2>1. \A e \in Effect : effect'[e].status = effect[e].status
    BY <1>2, <1>a, TickOnEffects, Zenon DEF OutboxTick, vars
  <2> QED
    BY <1>2, <1>c, <2>1, KnownKept, Zenon DEF OutboxTick, Called
<1>3. ASSUME NEW d \in Dispatcher, ScanEffects(d) \/ Rest(d) \/ EndDelivery(d)
      PROVE  NothingInDoubt' /\ DoubtIsHeld'
  <2>1. /\ UNCHANGED <<effect, batch, uncertain>>
        /\ \A f \in Dispatcher : Called(f)' <=> Called(f)
    BY <1>3, <1>a, Zenon DEF ScanEffects, Rest, EndDelivery, vars, Called
  <2> QED
    BY <1>c, <2>1, KnownKept, Zenon
<1>4. ASSUME NEW d \in Dispatcher, StartDelivery(d) PROVE NothingInDoubt' /\ DoubtIsHeld'
  <2> DEFINE e == Head(batch[d]).effect
  <2>1. /\ e \in Effect /\ e = batch[d][1].effect /\ 1 \in DOMAIN batch[d]
        /\ effect[e].status \in {"delivering", "review_hold"}
    BY <1>4, <1>a, FirstDelivery, Zenon DEF StartDelivery, LeaseInv, LeasesLast, Leased
  <2>2. /\ ~Called(d) /\ Called(d)' /\ \A f \in Dispatcher \ {d} : Called(f)' <=> Called(f)
        /\ UNCHANGED <<effect, batch>> /\ uncertain' = [uncertain EXCEPT ![e] = TRUE]
    BY <1>4, <1>a, Zenon DEF StartDelivery, Called, vars
  <2>3. ASSUME NEW f \in Dispatcher, NEW i \in DOMAIN batch'[f], ~Called(f)' \/ i > 1
        PROVE  ~uncertain'[batch'[f][i].effect]
    <3>1. i \in DOMAIN batch[f] /\ batch[f][i].effect \in Effect
      <4>1. i \in DOMAIN batch[f]
        BY <2>2, <2>3, Zenon
      <4> QED
        BY <1>a, <4>1, InMemory, Zenon
    <3>2. batch[f][i].effect # e
      <4>1. f # d \/ i # 1
        BY <2>2, <2>3
      <4> QED
        BY <2>1, <3>1, <4>1, FirstIsAlone, Zenon
    <3>3. ~uncertain[batch[f][i].effect]
      BY <1>c, <2>2, <2>3, <3>1, Zenon DEF NothingInDoubt
    <3> QED
      BY <1>a, <2>2, <3>1, <3>2, <3>3, Zenon
  <2>4. ASSUME NEW g \in Effect, uncertain'[g]
        PROVE  /\ effect'[g].status # "absent"
               /\ effect'[g].status \in {"pending", "delivering"} =>
                    \E f \in Dispatcher : Called(f)' /\ Head(batch'[f]).effect = g
    <3>1. CASE g = e
      BY <2>1, <2>2, <3>1, Zenon
    <3>2. CASE g # e
      <4>1. uncertain[g]
        BY <1>a, <2>2, <2>4, <3>2, Zenon
      <4> QED
        BY <1>c, <2>2, <4>1, Zenon DEF DoubtIsHeld
    <3> QED
      BY <3>1, <3>2, Zenon
  <2> QED
    BY <2>3, <2>4, Zenon DEF NothingInDoubt, DoubtIsHeld
<1>5. ASSUME NEW d \in Dispatcher, NEW e \in Effect, ClaimEffect(d, e)
      PROVE  NothingInDoubt' /\ DoubtIsHeld'
  <2>1. phase' = phase /\ uncertain' = uncertain /\ phase[d] = "claiming"
    BY <1>5, Zenon DEF ClaimEffect
  <2>2. CASE batch' = batch /\ effect' = effect
    BY <1>c, <2>1, <2>2, KnownKept, Zenon DEF Called
  <2>3. CASE /\ Claimable(e) /\ effect' = [effect EXCEPT ![e] = Lease(effect[e])]
             /\ batch' = [batch EXCEPT ![d] = Append(@, [effect |-> e, token |-> Lease(effect[e]).token])]
    <3> DEFINE new == [effect |-> e, token |-> Lease(effect[e]).token]
    <3>1. ~uncertain[e]
      <4> SUFFICES ASSUME uncertain[e] PROVE FALSE
        BY Zenon
      <4>1. PICK f \in Dispatcher : Called(f) /\ Head(batch[f]).effect = e
        BY <1>c, <2>3, Zenon DEF DoubtIsHeld, Claimable
      <4>2. 1 \in DOMAIN batch[f] /\ batch[f][1].effect = e
        BY <1>a, <4>1, FirstDelivery, Zenon DEF Called, PhasesMatch
      <4> QED
        BY <2>3, <4>2, ClaimableIsFree, Zenon
    <3>2. ASSUME NEW f \in Dispatcher, NEW i \in DOMAIN batch'[f]
          PROVE  (i \in DOMAIN batch[f] /\ batch'[f][i] = batch[f][i]) \/ batch'[f][i].effect = e
      <4>1. CASE f # d
        BY <1>a, <2>3, <4>1, Zenon
      <4>2. CASE f = d
        <5>1. batch'[f] = Append(batch[d], new) /\ batch[d] \in Seq(Delivery) /\ new.effect = e
          BY <1>a, <2>3, <4>2, Zenon
        <5> HIDE DEF new
        <5>2. i \in DOMAIN Append(batch[d], new)
          BY <5>1, Zenon
        <5> QED
          BY <4>2, <5>1, <5>2
      <4> QED
        BY <4>1, <4>2, Zenon
    <3>3. NothingInDoubt'
      BY <1>c, <2>1, <3>1, <3>2, Zenon DEF NothingInDoubt, Called
    <3>4. ASSUME NEW g \in Effect, uncertain'[g]
          PROVE  /\ effect'[g].status # "absent"
                 /\ effect'[g].status \in {"pending", "delivering"} =>
                      \E f \in Dispatcher : Called(f)' /\ Head(batch'[f]).effect = g
      <4>1. g # e /\ effect'[g] = effect[g] /\ uncertain[g]
        BY <1>a, <2>1, <2>3, <3>1, <3>4, Zenon
      <4>2. \A f \in Dispatcher : Called(f) => Called(f)' /\ batch'[f] = batch[f]
        BY <1>a, <2>1, <2>3, Zenon DEF Called
      <4> QED
        BY <1>c, <4>1, <4>2, Zenon DEF DoubtIsHeld
    <3> QED
      BY <3>3, <3>4, Zenon DEF DoubtIsHeld
  <2> QED
    BY <1>5, <2>2, <2>3, Zenon DEF ClaimEffect
<1>6. ASSUME NEW d \in Dispatcher, CompleteEffect(d) PROVE NothingInDoubt' /\ DoubtIsHeld'
  <2> DEFINE e == Head(batch[d]).effect
             accepted == Accepts(effect[e], Head(batch[d]))
             b == IF accepted THEN report[d].outcome = "unknown" /\ ~report[d].safe ELSE uncertain[e]
  <2>1. /\ phase[d] = "reporting" /\ phase'[d] = "claiming" /\ batch' = [batch EXCEPT ![d] = Tail(@)]
        /\ \A f \in Dispatcher \ {d} : (Called(f)' <=> Called(f)) /\ batch'[f] = batch[f]
        /\ Called(d) /\ ~Called(d)'
    BY <1>6, <1>a, Zenon DEF CompleteEffect, Called
  <2>2. /\ batch[d] # <<>> /\ e = batch[d][1].effect /\ 1 \in DOMAIN batch[d] /\ e \in Effect
        /\ report[d] \in Report
    BY <1>a, <2>1, FirstDelivery, Zenon DEF PhasesMatch
  <2>3. /\ \A g \in Effect \ {e} : effect'[g] = effect[g] /\ uncertain'[g] = uncertain[g]
        /\ uncertain'[e] = b
        /\ accepted => effect'[e] = Resolved(effect[e], report[d])
        /\ ~accepted => effect'[e] = effect[e]
    BY <1>6, <1>a, <2>2, Zenon DEF CompleteEffect
  <2>4. ASSUME NEW f \in Dispatcher, NEW i \in DOMAIN batch'[f]
        PROVE  \E j \in DOMAIN batch[f] : batch'[f][i] = batch[f][j] /\ j >= i /\ (f = d => j > 1)
    <3>1. CASE f # d
      <4>1. i \in DOMAIN batch[f] /\ batch'[f] = batch[f] /\ i \in Nat
        BY <1>a, <2>1, <3>1, InMemory, Zenon
      <4> QED
        BY <3>1, <4>1
    <3>2. CASE f = d
      <4>1. batch[d] \in Seq(Delivery) /\ batch'[d] = Tail(batch[d])
        BY <1>a, <2>1, Zenon
      <4>2. i \in DOMAIN Tail(batch[d])
        BY <3>2, <4>1, Zenon
      <4>3. i \in Nat \ {0} /\ i + 1 \in DOMAIN batch[d] /\ batch'[d][i] = batch[d][i + 1]
        BY <2>2, <4>1, <4>2
      <4>4. i + 1 >= i /\ i + 1 > 1
        BY <4>3
      <4> QED
        BY <3>2, <4>3, <4>4, Zenon
    <3> QED
      BY <3>1, <3>2, Zenon
  <2>5. ASSUME NEW f \in Dispatcher, NEW i \in DOMAIN batch'[f], ~Called(f)' \/ i > 1
        PROVE  ~uncertain'[batch'[f][i].effect]
    <3>1. PICK j \in DOMAIN batch[f] : batch'[f][i] = batch[f][j] /\ j >= i /\ (f = d => j > 1)
      BY <2>4, Zenon
    <3>2. j \in Nat /\ i \in Nat /\ batch[f][j].effect \in Effect
      <4>1. batch'[f] \in Seq(Delivery)
        BY <1>a, <2>1, <2>2
      <4> QED
        BY <1>a, <4>1, InMemory
    <3>3. ~Called(f) \/ j > 1
      BY <2>1, <2>5, <3>1, <3>2
    <3>4. ~uncertain[batch[f][j].effect]
      BY <1>c, <3>3, Zenon DEF NothingInDoubt
    <3>5. batch[f][j].effect # e
      <4>1. f # d \/ j # 1
        BY <3>1, <3>2
      <4> QED
        BY <2>2, <3>1, <4>1, FirstIsAlone, Zenon
    <3> QED
      BY <2>3, <3>1, <3>2, <3>4, <3>5, Zenon
  <2>6. ASSUME NEW g \in Effect, uncertain'[g]
        PROVE  /\ effect'[g].status # "absent"
               /\ effect'[g].status \in {"pending", "delivering"} =>
                    \E f \in Dispatcher : Called(f)' /\ Head(batch'[f]).effect = g
    <3>1. CASE g # e
      <4>1. uncertain[g] /\ effect'[g] = effect[g]
        BY <2>3, <2>6, <3>1, Zenon
      <4> QED
        BY <1>c, <2>1, <3>1, <4>1, Zenon DEF DoubtIsHeld
    <3>2. CASE g = e
      <4>1. CASE accepted
        <5>1. report[d].outcome = "unknown" /\ ~report[d].safe
          BY <2>3, <2>6, <3>2, <4>1, Zenon
        <5>2. effect'[e].status = "dead_letter"
          <6>1. effect[e] \in EffectRow /\ report[d] \in Report
            BY <1>a, <2>2, Zenon
          <6>2. Resolved(effect[e], report[d]).status = "dead_letter"
            BY <5>1, <6>1, ResolvedRow, Zenon
          <6> QED
            BY <2>3, <4>1, <6>2, Zenon
        <5> QED
          BY <3>2, <5>2, Zenon
      <4>2. CASE ~accepted
        <5>1. effect[e].status = "review_hold"
          BY <2>2, <4>2 DEF LeaseInv, LeasesLast, Leased, Accepts
        <5> QED
          BY <2>3, <3>2, <4>2, <5>1, Zenon
      <4> QED
        BY <4>1, <4>2, Zenon
    <3> QED
      BY <3>1, <3>2, Zenon
  <2> QED
    BY <2>5, <2>6 DEF NothingInDoubt, DoubtIsHeld
<1>7. ASSUME NEW d \in Dispatcher, FailCompletion(d) \/ Lose(d) PROVE FALSE
  BY <1>7, <1>a DEF FailCompletion, Lose
<1>8. CASE UNCHANGED outboxVars
  BY <1>8, <1>c, KnownKept, Zenon DEF outboxVars, dispatch, vars, Called
<1> QED
  BY <1>1, <1>2, <1>3, <1>4, <1>5, <1>6, <1>7, <1>8, Zenon DEF OutboxNext, Step

(* Prompt dispatchers whose batches fit into a lease call the provider     *)
(* again only when the previous call is known not to have been applied or  *)
(* was declared idempotent, as long as none lost its memory or a report.   *)
THEOREM UnknownNotResentWhenBatchesFit ==
  ASSUME Prompt, BatchLimit * DeliveryTimeout < EffectLeaseTTL
  PROVE  OutboxSpec => UnknownNotResent
<1> DEFINE Inv == LeaseInv /\ CallsKnown
<1>1. OutboxInit => Inv
  BY LeaseInvInit DEF OutboxInit, CallsKnown, NothingInDoubt, DoubtIsHeld
<1>2. Inv /\ [OutboxNext]_outboxVars => Inv'
  BY LeaseInvStep, KnownStep, Zenon DEF CallsKnown
<1>3. Inv /\ [OutboxNext]_outboxVars =>
        [\A d \in Dispatcher : losses = 0 /\ phase[d] # "calling" /\ phase'[d] = "calling"
           => ~uncertain[Head(batch[d]).effect]]_outboxVars
  <2> SUFFICES ASSUME Inv, OutboxNext, NEW d \in Dispatcher,
                      losses = 0, phase[d] # "calling", phase'[d] = "calling"
               PROVE  ~uncertain[Head(batch[d]).effect]
    OBVIOUS
  <2>a. DispatchType /\ phase \in [Dispatcher -> {"idle", "claiming", "calling", "reporting"}]
    BY DEF LeaseInv, TokenInv, DispatchInv, DispatchType
  <2>1. phase[d] = "claiming" /\ batch[d] # <<>>
    BY <2>a, Zenon DEF OutboxNext, Step, OutboxTick, dispatch, ScanEffects, ClaimEffect, Rest,
                StartDelivery, EndDelivery, CompleteEffect, FailCompletion, Lose
  <2>2. Head(batch[d]) = batch[d][1] /\ 1 \in DOMAIN batch[d] /\ ~Called(d)
    BY <2>a, <2>1, FirstDelivery, Zenon DEF Called
  <2> QED
    BY <2>2, Zenon DEF CallsKnown, NothingInDoubt
<1> HIDE DEF Inv
<1> QED
  BY <1>1, <1>2, <1>3, PTL DEF OutboxSpec, UnknownNotResent

=============================================================================
