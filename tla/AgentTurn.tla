------------------------------ MODULE AgentTurn ------------------------------
(***************************************************************************)
(* The durable Agent Turn kernel (server/service/agentturn): the tables of *)
(* the SQL store and the transactions that write them.                     *)
(*                                                                         *)
(* Every command of the store takes the Turn's row lock and runs as one    *)
(* transaction, so one command is one action.  The model has no worker: a  *)
(* command names an Attempt, and whoever holds that Attempt may issue it   *)
(* at any later time, however stale it has become.                         *)
(*                                                                         *)
(* Every expiry decision is taken against one clock, the database's, read  *)
(* under the row lock.  The model keeps the time that REMAINS on each      *)
(* deadline, so "deadline.After(now)" is "remaining > 0", and Tick lets a  *)
(* unit of time pass on all of them at once.                               *)
(***************************************************************************)
EXTENDS Naturals

CONSTANTS
  Turn,               \* Turn identifiers
  Attempt,            \* execution-epoch identifiers, supplied by workers
  Operation,          \* operation identifiers, supplied by workers
  Effect,             \* outbox row identifiers
  NoAttempt,          \* a NULL active_attempt_id
  NoTurn,             \* the Turn of a row that does not exist
  NoOperation,        \* the Operation of an outcome that has none
  MaxTurnAttempts,    \* the attempt budget (default 3)
  MaxDurableSequence, \* the largest event sequence number and fence
  LeaseTTL,           \* life of an Attempt's lease, in ticks
  ReservationTTL,     \* life of a Turn's Credits reservation, in ticks
  Authority,          \* the installed settlement authority, see below
  ReservationAware    \* whether that authority also guards execution by reservation

(***************************************************************************)
(* A definition whose name carries a suffix, as in Vacant_IgnoresLease, is *)
(* the definition it precedes with one plausible slip in it.  Nothing in   *)
(* the specification uses these: they show, one at a time, that the        *)
(* properties notice the slip.                                             *)
(***************************************************************************)

(***************************************************************************)
(* "none": no authority, nothing is settled.  "settle": a plain            *)
(* SettlementAuthority.  "review": it can also hold an outcome for review. *)
(* "usage": a completed Turn always waits for the trusted meter.           *)
(* "provider": every terminal Turn waits for the provider usage journal.   *)
(***************************************************************************)
AuthorityKind == {"none", "settle", "review", "usage", "provider"}

ASSUME ConstantsAssumption ==
  /\ NoAttempt \notin Attempt
  /\ NoTurn \notin Turn
  /\ NoOperation \notin Operation
  /\ MaxTurnAttempts \in Nat \ {0}
  /\ MaxDurableSequence \in Nat
  /\ MaxDurableSequence > MaxTurnAttempts
  /\ LeaseTTL \in Nat \ {0}
  /\ ReservationTTL \in Nat \ {0}
  /\ Authority \in AuthorityKind
  /\ ReservationAware \in BOOLEAN
  /\ ReservationAware => Authority # "none"

VARIABLES
  turn,       \* the Turn table, one row per identifier
  attempt,    \* the Attempt table
  operation,  \* the immutable Operation receipts
  event,      \* the event log
  effect,     \* the effect outbox
  ledger      \* what the settlement authority was told, and reviews opened

vars == <<turn, attempt, operation, event, effect, ledger>>

-----------------------------------------------------------------------------
TerminalStatus == {"completed", "stopped", "failed", "timeout"}
TurnStatus     == {"queued", "running"} \cup TerminalStatus
AttemptStatus  == {"running", "expired"} \cup TerminalStatus
EffectStatus   == {"pending", "delivering", "delivered", "dead_letter", "review_hold"}
EventKind      == TurnStatus \cup {"output", "cancel"}
Intent         == {"finalize", "release"}

TurnRow == [status : TurnStatus \cup {"absent"}, cancel : BOOLEAN, fence : Nat,
            active : Attempt \cup {NoAttempt}, seq : Nat, ttl : Nat]

AttemptRow == [status : AttemptStatus \cup {"absent"}, turn : Turn \cup {NoTurn},
               fence : Nat, lease : Nat]

OperationRow == [turn : Turn, id : Operation, attempt : Attempt, fence : Nat,
                 seq : Nat, status : TurnStatus]

EventRow == [turn : Turn, seq : Nat, kind : EventKind]

(* `timer` is available_at of a pending row and lease_expires_at of a      *)
(* delivering one; `token` is the dispatch fence, independent of the       *)
(* Turn's.                                                                 *)
EffectRow == [status : EffectStatus \cup {"absent"}, turn : Turn \cup {NoTurn},
              attempts : Nat, token : Nat, timer : Nat]

(* The settlement key is a digest of the Operation that authorised the     *)
(* outcome or, for a reconciled Turn, of the fence that retired it.        *)
LedgerRow == [turn : Turn, kind : Intent \cup {"review"},
              by : Operation \cup {NoOperation}, fence : Nat]

Init ==
  /\ turn = [t \in Turn |-> [status |-> "absent", cancel |-> FALSE, fence |-> 0,
                             active |-> NoAttempt, seq |-> 0, ttl |-> 0]]
  /\ attempt = [a \in Attempt |-> [status |-> "absent", turn |-> NoTurn,
                                   fence |-> 0, lease |-> 0]]
  /\ operation = {}
  /\ event = {}
  /\ effect = [e \in Effect |-> [status |-> "absent", turn |-> NoTurn,
                                 attempts |-> 0, token |-> 0, timer |-> 0]]
  /\ ledger = {}

-----------------------------------------------------------------------------
CanTransition(from, to) ==
  \/ from = to
  \/ from = "queued" /\ to \in TurnStatus \ {"completed"}
  \/ from = "running" /\ to \in TerminalStatus

Live(a) == attempt[a].lease > 0

(* rowOwnsFence: the Turn row still names this epoch and this token.       *)
OwnsFence(a) ==
  LET t == attempt[a].turn
  IN  turn[t].active = a /\ turn[t].fence = attempt[a].fence

Vacant_IgnoresLease(t) == TRUE

(* expiredActiveAttempt: the row the Turn points to may be taken from its  *)
(* owner, or there is none.                                                *)
Vacant(t) ==
  turn[t].active # NoAttempt => /\ turn[t].status = "running"
                                /\ ~Live(turn[t].active)

Unfinished(t) == turn[t].status \in {"queued", "running"}

(* ErrAttemptCancelled: a cancelled Turn opens no epoch and takes no work.  *)
Uncancelled_Unchecked(t) == TRUE
Uncancelled(t) == ~turn[t].cancel

WithinBudget(t) == turn[t].fence < MaxTurnAttempts

HasSequence(t) == turn[t].seq < MaxDurableSequence

Logged(t, kind) == event \cup {[turn |-> t, seq |-> turn[t].seq + 1, kind |-> kind]}

Expired_Forgotten(t) == attempt

(* Retiring the epoch a Turn points to, if it points to one.               *)
Expired(t) ==
  [a \in Attempt |-> IF a = turn[t].active
                     THEN [attempt[a] EXCEPT !.status = "expired"]
                     ELSE attempt[a]]

Ambiguous_PriorOnly(t, effects) ==
  (\E r \in operation : r.turn = t) \/ (\E e \in Effect : effect[e].turn = t)

(* Durable evidence that something ran: receipts or outbox rows already    *)
(* there, or the effects of the command itself.                            *)
Ambiguous(t, effects) ==
  \/ \E r \in operation : r.turn = t
  \/ \E e \in Effect : effect[e].turn = t
  \/ effects # {}

OpensReview(t, status, intent, effects) ==
  \/ Authority = "provider"
  \/ Authority = "usage" /\ status = "completed"
  \/ /\ Authority \in {"review", "usage"}
     /\ intent = "release"
     /\ Ambiguous(t, effects)

(* ErrSettlementUsageUnknown: a release would discard possible usage and   *)
(* nobody can adjudicate it.                                               *)
UsageUnknown(t, intent, effects) ==
  Authority = "settle" /\ intent = "release" /\ Ambiguous(t, effects)

Settled_OperationOnly(t, kind, by, fence) ==
  IF Authority = "none" \/ by = NoOperation THEN ledger
  ELSE ledger \cup {[turn |-> t, kind |-> kind, by |-> by, fence |-> fence]}

Settled(t, kind, by, fence) ==
  IF Authority = "none" THEN ledger
  ELSE ledger \cup {[turn |-> t, kind |-> kind, by |-> by, fence |-> fence]}

Enqueued_HoldsPriorOnly(t, effects, review) ==
  [e \in Effect |->
     IF e \in effects THEN [effect[e] EXCEPT !.turn = t, !.status = "pending"]
     ELSE IF review /\ effect[e].turn = t /\ effect[e].status \in {"pending", "delivering"}
          THEN [effect[e] EXCEPT !.status = "review_hold", !.timer = 0]
          ELSE effect[e]]

(* The outbox after `effects` are inserted for t and, under review, every  *)
(* undelivered row of t is held.                                           *)
Enqueued(t, effects, review) ==
  [e \in Effect |->
     IF e \in effects
     THEN [effect[e] EXCEPT !.turn = t, !.status = IF review THEN "review_hold" ELSE "pending"]
     ELSE IF review /\ effect[e].turn = t /\ effect[e].status \in {"pending", "delivering"}
          THEN [effect[e] EXCEPT !.status = "review_hold", !.timer = 0]
          ELSE effect[e]]

-----------------------------------------------------------------------------
(* Admit: insert the Turn and its first event, with a live reservation.    *)
Admit(t) ==
  /\ turn[t].status = "absent"
  /\ turn' = [turn EXCEPT ![t] = [@ EXCEPT
                  !.status = "queued", !.seq = 1,
                  !.ttl = IF ReservationAware THEN ReservationTTL ELSE 0]]
  /\ event' = Logged(t, "queued")
  /\ UNCHANGED <<attempt, operation, effect, ledger>>

RequestCancel(t) ==
  /\ Unfinished(t)
  /\ ~turn[t].cancel
  /\ HasSequence(t)
  /\ turn' = [turn EXCEPT ![t] = [@ EXCEPT !.cancel = TRUE, !.seq = turn[t].seq + 1]]
  /\ event' = Logged(t, "cancel")
  /\ UNCHANGED <<attempt, operation, effect, ledger>>

(* What ClaimAttempt demands of a Turn: nobody owns it, it is neither      *)
(* finished nor cancelled, and it has budget and a live reservation left.  *)
MayOpenEpoch(t) ==
  /\ Unfinished(t)
  /\ Uncancelled(t)
  /\ WithinBudget(t)
  /\ turn[t].fence > 0 => turn[t].active # NoAttempt
  /\ Vacant(t)
  /\ ReservationAware => turn[t].ttl > 0
  /\ turn[t].status = "queued" => HasSequence(t)

(* ClaimAttempt: open the next epoch of a Turn, expiring the one it        *)
(* replaces.  Only the first epoch of a queued Turn logs.                  *)
ClaimAttempt(t, a) ==
  /\ attempt[a].status = "absent"
  /\ MayOpenEpoch(t)
  /\ attempt' = [Expired(t) EXCEPT ![a] = [status |-> "running", turn |-> t,
                                           fence |-> turn[t].fence + 1, lease |-> LeaseTTL]]
  /\ turn' = [turn EXCEPT ![t] = [@ EXCEPT
                  !.status = "running", !.active = a, !.fence = turn[t].fence + 1,
                  !.seq = IF turn[t].status = "queued" THEN turn[t].seq + 1 ELSE turn[t].seq]]
  /\ event' = IF turn[t].status = "queued" THEN Logged(t, "running") ELSE event
  /\ UNCHANGED <<operation, effect, ledger>>

Holds_AttemptExists(a) ==
  attempt[a].status # "absent" /\ Unfinished(attempt[a].turn)

(* What HeartbeatAttempt and CommitAttempt both demand of their caller.    *)
Holds(a) ==
  /\ attempt[a].status = "running"
  /\ OwnsFence(a)
  /\ Unfinished(attempt[a].turn)
  /\ Live(a)

HeartbeatAttempt(a) ==
  /\ Holds(a)
  /\ attempt' = [attempt EXCEPT ![a].lease = LeaseTTL]
  /\ UNCHANGED <<turn, operation, event, effect, ledger>>

(* A command whose receipt exists is answered from the receipt and writes  *)
(* nothing, so only a fresh operation identifier commits.                  *)
Fresh(t, o, effects) ==
  /\ \A r \in operation : ~(r.turn = t /\ r.id = o)
  /\ \A e \in effects : effect[e].status = "absent"

Receipt_PriorSequence(a, o, status) ==
  [turn |-> attempt[a].turn, id |-> o, attempt |-> a, fence |-> attempt[a].fence,
   seq |-> turn[attempt[a].turn].seq, status |-> status]

Receipt(a, o, status) ==
  LET t == attempt[a].turn
  IN  [turn |-> t, id |-> o, attempt |-> a, fence |-> attempt[a].fence,
       seq |-> turn[t].seq + 1, status |-> status]

(* CommitAttempt without a terminal status: one event, one receipt and the *)
(* effects, refused once cancellation is requested.                        *)
CommitOperation(a, o, effects) ==
  LET t == attempt[a].turn
  IN  /\ Holds(a)
      /\ Fresh(t, o, effects)
      /\ Uncancelled(t)
      /\ HasSequence(t)
      /\ event' = Logged(t, "output")
      /\ operation' = operation \cup {Receipt(a, o, turn[t].status)}
      /\ effect' = Enqueued(t, effects, FALSE)
      /\ turn' = [turn EXCEPT ![t].seq = @ + 1]
      /\ UNCHANGED <<attempt, ledger>>

(* CommitAttempt with a terminal status: the same, and the Turn ends, its  *)
(* epoch ends, and the outcome is settled or held in the same transaction. *)
(* Under a trusted meter the caller's own intent is refused.               *)
CommitTerminal(a, o, effects, status, intent) ==
  LET t      == attempt[a].turn
      review == OpensReview(t, status, intent, effects)
  IN  /\ Holds(a)
      /\ Fresh(t, o, effects)
      /\ turn[t].cancel <=> status = "stopped"
      /\ CanTransition(turn[t].status, status)
      /\ (Authority = "provider" \/ (Authority = "usage" /\ status = "completed"))
            => intent = (IF status = "completed" THEN "finalize" ELSE "release")
      /\ ~UsageUnknown(t, intent, effects)
      /\ HasSequence(t)
      /\ event' = Logged(t, status)
      /\ operation' = operation \cup {Receipt(a, o, status)}
      /\ effect' = Enqueued(t, effects, review)
      /\ attempt' = [attempt EXCEPT ![a].status = status]
      /\ turn' = [turn EXCEPT ![t] = [@ EXCEPT
                      !.status = status, !.active = NoAttempt, !.seq = turn[t].seq + 1]]
      /\ ledger' = Settled(t, IF review THEN "review" ELSE intent, o, attempt[a].fence)

ReclaimReason == {"cancellation_pending", "attempts_exhausted", "reservation_expired"}

ReasonStatus(reason) == IF reason = "cancellation_pending" THEN "stopped" ELSE "timeout"

(* verifyReconcilePrecondition, re-checked under the row lock.             *)
Reconcilable(t, reason) ==
  /\ Vacant(t)
  /\ turn[t].cancel <=> reason = "cancellation_pending"
  /\ reason = "attempts_exhausted" => turn[t].fence >= MaxTurnAttempts
  /\ reason = "reservation_expired" =>
       /\ ReservationAware /\ turn[t].ttl = 0
       /\ \/ turn[t].status = "queued" /\ turn[t].fence = 0 /\ turn[t].active = NoAttempt
          \/ turn[t].status = "running" /\ turn[t].fence > 0 /\ turn[t].active # NoAttempt

MayRetire(t, reason) ==
  /\ Unfinished(t)
  /\ Reconcilable(t, reason)
  /\ CanTransition(turn[t].status, ReasonStatus(reason))
  /\ ~UsageUnknown(t, "release", {})
  /\ turn[t].fence < MaxDurableSequence
  /\ HasSequence(t)

(* ReconcileTerminal: retire an abandoned Turn under a new fence.          *)
ReconcileTerminal(t, reason) ==
  LET status == ReasonStatus(reason)
      review == OpensReview(t, status, "release", {})
  IN  /\ MayRetire(t, reason)
      /\ attempt' = Expired(t)
      /\ event' = Logged(t, status)
      /\ turn' = [turn EXCEPT ![t] = [@ EXCEPT
                      !.status = status, !.active = NoAttempt,
                      !.fence = turn[t].fence + 1, !.seq = turn[t].seq + 1]]
      /\ effect' = Enqueued(t, {}, review)
      /\ ledger' = Settled(t, IF review THEN "review" ELSE "release", NoOperation,
                           turn[t].fence + 1)
      /\ UNCHANGED operation

Sooner(n) == IF n > 0 THEN n - 1 ELSE 0

(* One unit of database time passes on every deadline.                     *)
Tick ==
  /\ \/ \E a \in Attempt : attempt[a].lease > 0
     \/ \E t \in Turn : turn[t].ttl > 0
     \/ \E e \in Effect : effect[e].timer > 0
  /\ attempt' = [a \in Attempt |-> [attempt[a] EXCEPT !.lease = Sooner(attempt[a].lease)]]
  /\ turn' = [t \in Turn |-> [turn[t] EXCEPT !.ttl = Sooner(turn[t].ttl)]]
  /\ effect' = [e \in Effect |-> [effect[e] EXCEPT !.timer = Sooner(effect[e].timer)]]
  /\ UNCHANGED <<operation, event, ledger>>

Command ==
  \/ \E t \in Turn : Admit(t) \/ RequestCancel(t)
  \/ \E t \in Turn, a \in Attempt : ClaimAttempt(t, a)
  \/ \E a \in Attempt : HeartbeatAttempt(a)
  \/ \E a \in Attempt, o \in Operation, effects \in SUBSET Effect :
        \/ CommitOperation(a, o, effects)
        \/ \E status \in TerminalStatus, intent \in Intent :
              CommitTerminal(a, o, effects, status, intent)
  \/ \E t \in Turn, reason \in ReclaimReason : ReconcileTerminal(t, reason)

Next == Command \/ Tick

Spec == Init /\ [][Next]_vars

-----------------------------------------------------------------------------
(* The unfenced commands of the original Store interface, still exported   *)
(* by Service.  Both refuse a Turn that any epoch ever owned.              *)
AppendEvent(t) ==
  /\ Unfinished(t)
  /\ turn[t].fence = 0
  /\ HasSequence(t)
  /\ turn' = [turn EXCEPT ![t].seq = @ + 1]
  /\ event' = Logged(t, "output")
  /\ UNCHANGED <<attempt, operation, effect, ledger>>

Transition(t, to) ==
  /\ Unfinished(t)
  /\ turn[t].fence = 0
  /\ to # turn[t].status
  /\ CanTransition(turn[t].status, to)
  /\ to = "stopped" => turn[t].cancel
  /\ HasSequence(t)
  /\ turn' = [turn EXCEPT ![t] = [@ EXCEPT !.status = to, !.seq = turn[t].seq + 1]]
  /\ event' = Logged(t, to)
  /\ UNCHANGED <<attempt, operation, effect, ledger>>

LegacyNext ==
  \E t \in Turn : AppendEvent(t) \/ \E to \in TurnStatus : Transition(t, to)

-----------------------------------------------------------------------------
(* Every row keeps its type.                                               *)
TypeOK ==
  /\ turn \in [Turn -> TurnRow]
  /\ attempt \in [Attempt -> AttemptRow]
  /\ operation \subseteq OperationRow
  /\ event \subseteq EventRow
  /\ effect \in [Effect -> EffectRow]
  /\ ledger \subseteq LedgerRow

(* A running epoch is the one its running Turn points to, under the Turn's *)
(* current fence: claim, reclaim, commit and reconcile together never      *)
(* leave two epochs that both believe they own a Turn.                     *)
SingleOwner ==
  \A a \in Attempt : attempt[a].status = "running" =>
     LET t == attempt[a].turn
     IN  /\ t \in Turn
         /\ turn[t].status = "running"
         /\ turn[t].active = a
         /\ turn[t].fence = attempt[a].fence

(* The fencing guarantee: in log order the receipts of a Turn carry        *)
(* non-decreasing fences, so no epoch commits after one that replaced it,  *)
(* and two epochs never share a fence.                                     *)
NoStaleCommit ==
  /\ \A r, s \in operation :
        r.turn = s.turn /\ r.seq < s.seq => r.fence <= s.fence
  /\ \A r, s \in operation :
        r.turn = s.turn /\ r.fence = s.fence => r.attempt = s.attempt

(* The event log of a Turn is the gap-free sequence 1..last_event_sequence *)
(* with one row per number, so a cursor replay misses and repeats nothing. *)
LogContiguous ==
  /\ \A t \in Turn : {e.seq : e \in {f \in event : f.turn = t}} = 1..turn[t].seq
  /\ \A e, f \in event : e.turn = f.turn /\ e.seq = f.seq => e = f

(* Each receipt names an event of its own: the event a replayed commit     *)
(* returns is the one that commit wrote.                                   *)
ReceiptsMatchLog ==
  /\ \A r \in operation :
        [turn |-> r.turn, seq |-> r.seq,
         kind |-> IF r.status = "running" THEN "output" ELSE r.status] \in event
  /\ \A r, s \in operation :
        r.turn = s.turn /\ (r.seq = s.seq \/ r.id = s.id) => r = s

(* "There is no window in which a Turn is finished but unbilled, and no    *)
(* second process that could bill it twice": with an authority installed a *)
(* Turn has an outcome exactly when it is terminal, and only one.          *)
CommercialOutcome ==
  Authority # "none" =>
    /\ \A t \in Turn :
         turn[t].status \in TerminalStatus <=> \E l \in ledger : l.turn = t
    /\ \A k, l \in ledger : k.turn = l.turn => k = l

(* A reservation is released only where nothing durable says anything ran: *)
(* no receipt but the releasing one, and no outbox row at all, then or     *)
(* later.                                                                  *)
ReleaseProvesEmpty ==
  \A l \in ledger : l.kind = "release" =>
    /\ \A r \in operation : r.turn = l.turn => r.id = l.by
    /\ \A e \in Effect : effect[e].turn # l.turn

(* While an outcome waits for review no effect of that Turn is available   *)
(* to a dispatcher or leased by one, and nothing is held without a review. *)
ReviewHoldsEffects ==
  \A e \in Effect :
    LET reviewed == \E l \in ledger : l.kind = "review" /\ l.turn = effect[e].turn
    IN  /\ reviewed => effect[e].status \notin {"pending", "delivering"}
        /\ effect[e].status = "review_hold" => reviewed

(* A Turn ends stopped exactly when its cancellation was requested first:  *)
(* no racing commit or retirement loses a recorded cancellation.           *)
CancelledEndsStopped ==
  \A t \in Turn : turn[t].status \in TerminalStatus =>
    (turn[t].cancel <=> turn[t].status = "stopped")

(* A Turn is executed at most MaxTurnAttempts times, and only retirement   *)
(* may take its fence one past the budget.                                 *)
AttemptBudget ==
  /\ \A a \in Attempt : attempt[a].fence <= MaxTurnAttempts
  /\ \A a, b \in Attempt :
        /\ attempt[a].status # "absent" /\ attempt[a].turn = attempt[b].turn
        /\ attempt[a].fence = attempt[b].fence
        => a = b
  /\ \A t \in Turn : turn[t].fence <= MaxTurnAttempts + 1

(* Nothing about a finished Turn changes: not its row, its epochs, its     *)
(* receipts, its log or its outcome.                                       *)
TerminalIsFinal ==
  [][\A t \in Turn : turn[t].status \in TerminalStatus =>
       /\ turn'[t] = [turn[t] EXCEPT !.ttl = turn'[t].ttl]
       /\ \A a \in Attempt : attempt'[a].turn = t => attempt'[a].status = attempt[a].status
       /\ \A r \in operation' : r.turn = t => r \in operation
       /\ \A e \in event' : e.turn = t => e \in event
       /\ \A l \in ledger' : l.turn = t => l \in ledger]_vars

(* An epoch with a live lease ends only by its own terminal commit: no     *)
(* claim, reconciliation or passage of time takes a Turn from its owner.   *)
LiveLeaseRespected ==
  [][\A a \in Attempt :
       attempt[a].status = "running" /\ Live(a) /\ attempt'[a].status # "running"
       => \E r \in operation' \ operation :
             r.attempt = a /\ r.status \in TerminalStatus]_vars

(* Once cancellation is requested no new epoch opens and nothing but the   *)
(* final stopped event is added to the Turn's log.                         *)
CancelStopsWork ==
  [][\A t \in Turn : turn[t].cancel =>
       /\ \A a \in Attempt : attempt'[a].turn = t => attempt[a].turn = t
       /\ \A e \in event' \ event : e.turn = t => e.kind = "stopped"]_vars

=============================================================================
