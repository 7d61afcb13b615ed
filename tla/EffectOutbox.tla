----------------------------- MODULE EffectOutbox -----------------------------
(***************************************************************************)
(* The effect outbox and its dispatchers (effect_outbox.go,                *)
(* effect_dispatcher.go), composed with the kernel whose commits fill the  *)
(* outbox and whose reviews hold it.                                       *)
(*                                                                         *)
(* A dispatcher scans, claims its candidates one transaction at a time,    *)
(* then calls the provider for one delivery after the other and records    *)
(* each report.  Scan, claims, call and report are separate steps, and a   *)
(* dispatcher may lose everything it holds in memory at any of them.       *)
(***************************************************************************)
EXTENDS AgentTurn, Sequences, FiniteSets, FiniteSetsExt

CONSTANTS
  Dispatcher,
  EffectLeaseTTL,      \* life of a delivery lease, in ticks
  DeliveryTimeout,     \* bound on one provider call, in ticks
  BatchLimit,          \* rows one scan returns
  MaxDeliveryAttempts, \* delivery budget (default 5)
  RetryBackoff,        \* first retry delay, doubled at every attempt
  MaxRetryBackoff,     \* its cap, which a provider's hint cannot exceed either
  RetryHint,           \* the RetryAfter hints a provider gives
  Prompt,              \* dispatchers take no time except in provider calls
  MaxDispatchToken,    \* bound of the model: claims of one row
  MaxLosses            \* bound of the model: losses of a dispatcher's memory or report

(* EffectDispatcherOptions.Validate demands DeliveryTimeout < lease; an    *)
(* effect identifier is a string of bounded length.                        *)
ASSUME OutboxAssumption ==
  /\ IsFiniteSet(Effect)
  /\ EffectLeaseTTL \in Nat /\ DeliveryTimeout \in 1..(EffectLeaseTTL - 1)
  /\ BatchLimit \in Nat \ {0} /\ MaxDeliveryAttempts \in Nat \ {0}
  /\ RetryBackoff \in Nat \ {0} /\ MaxRetryBackoff \in Nat
  /\ RetryHint \subseteq Nat /\ Prompt \in BOOLEAN
  /\ MaxDispatchToken \in Nat /\ MaxLosses \in Nat

VARIABLES
  phase,      \* where each dispatcher is in DispatchOnce
  found,      \* candidates of its scan it has not tried to claim yet
  batch,      \* deliveries it claimed and has not finished, oldest first
  report,     \* what the provider answered, while it is being recorded
  patience,   \* time left to the provider call in flight
  uncertain,  \* history: the last provider call for an effect may have been applied,
              \*   nobody recorded that it was not, and nobody called a repeat safe
  losses      \* history: how often a dispatcher lost its memory or a report

dispatch == <<phase, found, batch, report, patience, uncertain, losses>>
outboxVars == <<vars, dispatch>>

Outcome == {"delivered", "retry", "permanent", "unknown"}

(* A DeliveryReport: the outcome, the provider's hint, and whether the     *)
(* deliverer declared a retry idempotent, which only "unknown" asks for.   *)
Report == {r \in [outcome : Outcome, hint : RetryHint, safe : BOOLEAN] :
             r.safe => r.outcome = "unknown"}

NoReport == [outcome |-> "none", hint |-> 0, safe |-> FALSE]

OutboxInit ==
  /\ Init
  /\ phase = [d \in Dispatcher |-> "idle"]
  /\ found = [d \in Dispatcher |-> {}]
  /\ batch = [d \in Dispatcher |-> <<>>]
  /\ report = [d \in Dispatcher |-> NoReport]
  /\ patience = [d \in Dispatcher |-> 0]
  /\ uncertain = [e \in Effect |-> FALSE]
  /\ losses = 0

-----------------------------------------------------------------------------
Claimable_PendingOnly(e) == effect[e].status = "pending" /\ effect[e].timer = 0
Claimable_IgnoresTimer(e) == effect[e].status \in {"pending", "delivering"}

(* Pending and due, or leased to a dispatcher that let the lease lapse.    *)
Claimable(e) == effect[e].status \in {"pending", "delivering"} /\ effect[e].timer = 0

Reviewed(t) == \E l \in ledger : l.turn = t /\ l.kind = "review"

(* scanClaimableEffects: an unlocked read of at most BatchLimit rows.      *)
ScanEffects(d) ==
  LET ready == {e \in Effect : Claimable(e)}
  IN  /\ phase[d] = "idle"
      /\ ready # {}
      /\ \E rows \in kSubset(Min({BatchLimit, Cardinality(ready)}), ready) :
            found' = [found EXCEPT ![d] = rows]
      /\ phase' = [phase EXCEPT ![d] = "claiming"]
      /\ UNCHANGED <<vars, batch, report, patience, uncertain, losses>>

Lease_SameToken(row) ==
  [row EXCEPT !.status = "delivering", !.attempts = row.attempts + 1, !.timer = EffectLeaseTTL]

Lease(row) ==
  [row EXCEPT !.status = "delivering", !.attempts = row.attempts + 1,
              !.token = row.token + 1, !.timer = EffectLeaseTTL]

(* claimEffect: under the Turn's and the row's locks the candidate is      *)
(* checked again; another dispatcher may have won it, or a review held it. *)
ClaimEffect(d, e) ==
  /\ phase[d] = "claiming"
  /\ e \in found[d]
  /\ found' = [found EXCEPT ![d] = @ \ {e}]
  /\ IF Claimable(e) /\ ~Reviewed(effect[e].turn)
     THEN /\ effect[e].token < MaxDispatchToken
          /\ effect' = [effect EXCEPT ![e] = Lease(effect[e])]
          /\ batch' = [batch EXCEPT ![d] =
                         Append(@, [effect |-> e, token |-> Lease(effect[e]).token])]
     ELSE UNCHANGED <<effect, batch>>
  /\ UNCHANGED <<turn, attempt, operation, event, ledger,
                 phase, report, patience, uncertain, losses>>

(* DispatchOnce returns: nothing is left to deliver.                       *)
Rest(d) ==
  /\ phase[d] = "claiming" /\ found[d] = {} /\ batch[d] = <<>>
  /\ phase' = [phase EXCEPT ![d] = "idle"]
  /\ UNCHANGED <<vars, found, batch, report, patience, uncertain, losses>>

(* dispatch: the provider call for the oldest delivery begins, bounded by  *)
(* DeliveryTimeout from now, however long ago the row was leased.          *)
StartDelivery(d) ==
  /\ phase[d] = "claiming" /\ found[d] = {} /\ batch[d] # <<>>
  /\ phase' = [phase EXCEPT ![d] = "calling"]
  /\ patience' = [patience EXCEPT ![d] = DeliveryTimeout]
  /\ uncertain' = [uncertain EXCEPT ![Head(batch[d]).effect] = TRUE]
  /\ UNCHANGED <<vars, found, batch, report, losses>>

(* The call returns with any report; an error counts as "unknown".         *)
EndDelivery(d) ==
  /\ phase[d] = "calling"
  /\ \E r \in Report : report' = [report EXCEPT ![d] = r]
  /\ phase' = [phase EXCEPT ![d] = "reporting"]
  /\ patience' = [patience EXCEPT ![d] = 0]
  /\ UNCHANGED <<vars, found, batch, uncertain, losses>>

(* effectRetryDelay: the longest delay within the cap that the provider's  *)
(* hint or the back-off, doubled at every attempt, asks for.               *)
RetryDelay(attempts, hint) ==
  Max({n \in 0..MaxRetryBackoff : n <= hint \/ n <= RetryBackoff * 2 ^ (attempts - 1)})

Exhausted(row) == row.attempts >= MaxDeliveryAttempts

Resolved_RetriesUnknown(row, r) ==
  IF r.outcome = "delivered" THEN [row EXCEPT !.status = "delivered", !.timer = 0]
  ELSE IF r.outcome \in {"retry", "unknown"} /\ ~Exhausted(row)
       THEN [row EXCEPT !.status = "pending", !.timer = RetryDelay(row.attempts, r.hint)]
       ELSE [row EXCEPT !.status = "dead_letter", !.timer = 0]

(* resolveEffectCompletion: the row after a report.                        *)
Resolved(row, r) ==
  LET retry == \/ r.outcome = "retry" /\ ~Exhausted(row)
               \/ r.outcome = "unknown" /\ r.safe /\ ~Exhausted(row)
  IN  IF r.outcome = "delivered" THEN [row EXCEPT !.status = "delivered", !.timer = 0]
      ELSE IF retry
           THEN [row EXCEPT !.status = "pending", !.timer = RetryDelay(row.attempts, r.hint)]
           ELSE [row EXCEPT !.status = "dead_letter", !.timer = 0]

Accepts_TokenOnly(row, delivery) == row.token = delivery.token

(* CompleteEffect takes the report of the current token on a row still     *)
(* being delivered; it does not look at the lease.                         *)
Accepts(row, delivery) == row.token = delivery.token /\ row.status = "delivering"

CompleteEffect(d) ==
  LET delivery == Head(batch[d])
      e        == delivery.effect
      accepted == Accepts(effect[e], delivery)
  IN  /\ phase[d] = "reporting"
      /\ effect' = IF accepted THEN [effect EXCEPT ![e] = Resolved(effect[e], report[d])]
                   ELSE effect
      /\ uncertain' = [uncertain EXCEPT ![e] =
                         IF accepted THEN report[d].outcome = "unknown" /\ ~report[d].safe
                         ELSE @]
      /\ phase' = [phase EXCEPT ![d] = "claiming"]
      /\ batch' = [batch EXCEPT ![d] = Tail(@)]
      /\ report' = [report EXCEPT ![d] = NoReport]
      /\ UNCHANGED <<turn, attempt, operation, event, ledger, found, patience, losses>>

(* Recording the report fails; the row stays leased and the batch goes on. *)
FailCompletion(d) ==
  /\ phase[d] = "reporting"
  /\ losses < MaxLosses
  /\ losses' = losses + 1
  /\ phase' = [phase EXCEPT ![d] = "claiming"]
  /\ batch' = [batch EXCEPT ![d] = Tail(@)]
  /\ report' = [report EXCEPT ![d] = NoReport]
  /\ UNCHANGED <<vars, found, patience, uncertain>>

(* The process dies, its context is cancelled, or a claim in the middle of *)
(* the batch fails and DispatchOnce drops the deliveries claimed so far.   *)
Lose(d) ==
  /\ phase[d] # "idle"
  /\ losses < MaxLosses
  /\ losses' = losses + 1
  /\ phase' = [phase EXCEPT ![d] = "idle"]
  /\ found' = [found EXCEPT ![d] = {}]
  /\ batch' = [batch EXCEPT ![d] = <<>>]
  /\ report' = [report EXCEPT ![d] = NoReport]
  /\ patience' = [patience EXCEPT ![d] = 0]
  /\ UNCHANGED <<vars, uncertain>>

(* Time passes, never past a provider call's deadline and, when            *)
(* dispatchers are prompt, only while each of them is idle or in a call.   *)
OutboxTick ==
  /\ \A d \in Dispatcher : phase[d] = "calling" => patience[d] > 0
  /\ Prompt => \A d \in Dispatcher : phase[d] \in {"idle", "calling"}
  /\ Tick \/ (UNCHANGED vars /\ \E d \in Dispatcher : patience[d] > 0)
  /\ patience' = [d \in Dispatcher |-> Sooner(patience[d])]
  /\ UNCHANGED <<phase, found, batch, report, uncertain, losses>>

Step(d) ==
  \/ ScanEffects(d) \/ (\E e \in Effect : ClaimEffect(d, e)) \/ Rest(d)
  \/ StartDelivery(d) \/ EndDelivery(d) \/ CompleteEffect(d)

OutboxNext ==
  \/ Command /\ UNCHANGED dispatch
  \/ OutboxTick
  \/ \E d \in Dispatcher : Step(d) \/ FailCompletion(d) \/ Lose(d)

OutboxSpec == OutboxInit /\ [][OutboxNext]_outboxVars

(* A dispatcher's loop runs on, and time passes.                           *)
FairOutboxSpec ==
  OutboxSpec /\ WF_outboxVars(OutboxTick) /\ \A d \in Dispatcher : WF_outboxVars(Step(d))

-----------------------------------------------------------------------------
Deliveries(d, e) == {i \in DOMAIN batch[d] : batch[d][i].effect = e
                                             /\ batch[d][i].token = effect[e].token}

(* However often a row is leased again, at most one delivery in any        *)
(* dispatcher's memory carries its current dispatch token: only one of the *)
(* dispatchers that ever claimed an effect can still record its outcome.   *)
OneHolder ==
  \A e \in Effect, d, f \in Dispatcher :
    /\ Cardinality(Deliveries(d, e)) <= 1
    /\ Deliveries(d, e) # {} /\ Deliveries(f, e) # {} => d = f

(* Delivered, dead-lettered and held effects stay so: a dispatcher that    *)
(* reports late, or under a token that a review outlived, changes nothing. *)
FinalEffectsStay ==
  [][\A e \in Effect : effect[e].status \in {"delivered", "dead_letter", "review_hold"}
        => effect'[e].status = effect[e].status]_outboxVars

(* "A delivery allowed to outlast its lease would let a superseded         *)
(* dispatcher and its replacement both be in flight at the provider": two  *)
(* dispatchers never call the provider for the same effect at once.        *)
OneInFlight ==
  \A d, f \in Dispatcher :
    phase[d] = "calling" /\ phase[f] = "calling" /\ d # f
    => Head(batch[d]).effect # Head(batch[f]).effect

(* "An unknown outcome is never resolved by guessing.  It is retried only  *)
(* when the Deliverer declared the retry idempotent": as long as no        *)
(* dispatcher lost memory or report, the provider is not called for an     *)
(* effect whose previous call ended, or may yet end, in an unknown outcome. *)
UnknownNotResent ==
  [][\A d \in Dispatcher : losses = 0 /\ phase[d] # "calling" /\ phase'[d] = "calling"
        => ~uncertain[Head(batch[d]).effect]]_outboxVars

(* Every effect that enters the outbox is in the end delivered,            *)
(* dead-lettered or held, whatever the provider answers and although       *)
(* dispatchers lose their memory.                                          *)
EffectsSettle ==
  \A e \in Effect : effect[e].status \in {"pending", "delivering"}
     ~> effect[e].status \in {"delivered", "dead_letter", "review_hold"}

=============================================================================
