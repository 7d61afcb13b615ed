--------------------------- MODULE ProviderEvents ---------------------------
(***************************************************************************)
(* The durable inbox of payment-provider events (service/commerce/         *)
(* provider_event_service.go) with its two users: the webhook, which       *)
(* stores an event and processes it inline, and the reconciler, which      *)
(* scans for events nobody finished.  Processing claims the row, prepares  *)
(* outside any transaction and commits the business change, the outbox     *)
(* rows and the new status together.                                       *)
(*                                                                         *)
(* An event is known by its row id, so a new one takes the next id.  The   *)
(* payload and its digests are left out, and with them a delivery that     *)
(* contradicts the stored one, which is refused.  All webhooks share one   *)
(* worker name.  A process may be slower than any lease.                   *)
(***************************************************************************)
EXTENDS FiniteSetsExt

CONSTANTS
  Event,            \* row ids, 1..n
  Webhook, Reconciler,
  MaxAttempts, LeaseTTL, BaseBackoff, MaxBackoff, BatchLimit,
  MaxLosses         \* bound on processes that die and calls that fail

ASSUME InboxAssumption ==
  /\ Event = 1..Cardinality(Event) /\ Reconciler \notin Webhook
  /\ MaxAttempts \in Nat \ {0} /\ LeaseTTL \in Nat \ {0} /\ BatchLimit \in Nat \ {0}
  /\ BaseBackoff \in Nat \ {0} /\ MaxBackoff \in Nat /\ BaseBackoff <= MaxBackoff

VARIABLES
  event,      \* the rows of the inbox
  run,        \* where each process is in ProcessEvent
  page,       \* the rows the reconciler's pass has left
  applied,    \* how often the business change of an event was committed
  notified,   \* how often its AfterCommit hook ran
  losses

inboxVars == <<event, run, page, applied, notified, losses>>

Process == Webhook \cup {Reconciler}

Terminal == {"processed", "ignored"}

EventStatus == {"absent", "received", "processing", "retry_wait", "manual_review"} \cup Terminal

WorkerID(p) == IF p = Reconciler THEN "reconciler" ELSE "webhook"

Idle == [at |-> "idle", event |-> 0, fence |-> 0, retryable |-> FALSE]

InboxInit ==
  /\ event = [e \in Event |-> [status |-> "absent", attempts |-> 0, version |-> 0,
                               owner |-> "nobody", lease |-> 0, next |-> 0]]
  /\ run = [p \in Process |-> Idle]
  /\ page = {}
  /\ applied = [e \in Event |-> 0] /\ notified = [e \in Event |-> 0]
  /\ losses = 0

(* Ingest, the first half of the webhook; a repeated delivery finds the row. *)
Ingest(p, e) ==
  /\ run[p] = Idle
  /\ \A d \in 1..(e - 1) : event[d].status # "absent"
  /\ event' = [event EXCEPT ![e].status = IF @ = "absent" THEN "received" ELSE @]
  /\ run' = [run EXCEPT ![p] = [Idle EXCEPT !.at = "claim", !.event = e]]
  /\ UNCHANGED <<page, applied, notified, losses>>

(* What the reconciler's query selects, and what claimEvent lets through. *)
Due_NeverLapses(e) ==
  event[e].status = "received" \/ (event[e].status = "retry_wait" /\ event[e].next = 0)

Due_Repeats(e) ==
  \/ event[e].status \in {"received", "processed"}
  \/ event[e].status = "retry_wait" /\ event[e].next = 0
  \/ event[e].status = "processing" /\ event[e].lease = 0

Due(e) ==
  \/ event[e].status = "received"
  \/ event[e].status = "retry_wait" /\ event[e].next = 0
  \/ event[e].status = "processing" /\ event[e].lease = 0

(* ReconcileOnce reads the first due rows without a lock ... *)
ReconcileOnce ==
  LET due == {e \in Event : Due(e)} IN
  /\ run[Reconciler] = Idle /\ page = {} /\ due # {}
  /\ page' = {e \in due : Cardinality({d \in due : d < e}) < BatchLimit}
  /\ UNCHANGED <<event, run, applied, notified, losses>>

(* ... and processes them one after the other, in their order. *)
NextRow ==
  /\ run[Reconciler] = Idle
  /\ \E e \in page :
       /\ \A d \in page : e <= d
       /\ run' = [run EXCEPT ![Reconciler] = [Idle EXCEPT !.at = "claim", !.event = e]]
       /\ page' = page \ {e}
  /\ UNCHANGED <<event, applied, notified, losses>>

Parked(row, status, next) ==
  [row EXCEPT !.status = status, !.owner = "nobody", !.lease = 0, !.next = next]

HasAttempts(row) == row.attempts < MaxAttempts

(* claimEvent: take the row, park it when its budget is used up, or leave. *)
claimEvent(p) ==
  LET e == run[p].event
      row == event[e]
      taken == Due(e) /\ HasAttempts(row)
  IN  /\ run[p].at = "claim"
      /\ event' = [event EXCEPT ![e] =
           IF taken THEN [row EXCEPT !.status = "processing", !.attempts = @ + 1, !.version = @ + 1,
                                     !.owner = WorkerID(p), !.lease = LeaseTTL, !.next = 0]
           ELSE IF Due(e) THEN Parked(row, "manual_review", 0) ELSE row]
      /\ run' = [run EXCEPT ![p] =
           IF taken THEN [@ EXCEPT !.at = "prepare", !.fence = row.version + 1] ELSE Idle]
      /\ UNCHANGED <<page, applied, notified, losses>>

(* Prepare reads from the provider; it may fail either way or panic. *)
Prepare(p) ==
  /\ run[p].at = "prepare"
  /\ \/ run' = [run EXCEPT ![p].at = "complete"]
     \/ \E retryable \in BOOLEAN :
          run' = [run EXCEPT ![p].at = "fail", ![p].retryable = retryable]
  /\ UNCHANGED <<event, page, applied, notified, losses>>

(* lockClaim. *)
HoldsClaim(p) ==
  LET row == event[run[p].event] IN
  /\ row.status = "processing" /\ row.version = run[p].fence /\ row.owner = WorkerID(p)
  /\ row.lease > 0

(***************************************************************************)
(* completeClaim commits the outcome; the caller may see the commit fail   *)
(* although it stands.  A claim that is no longer held, or an Apply that   *)
(* fails, rolls everything back.                                           *)
(***************************************************************************)
completeClaim(p) ==
  LET e == run[p].event IN
  /\ run[p].at = "complete"
  /\ \/ /\ HoldsClaim(p)
        /\ \E outcome \in Terminal, seen \in BOOLEAN :
             /\ event' = [event EXCEPT ![e] = Parked(@, outcome, 0)]
             /\ applied' = [applied EXCEPT ![e] = IF outcome = "processed" THEN @ + 1 ELSE @]
             /\ run' = [run EXCEPT ![p] = IF seen /\ outcome = "processed"
                                          THEN [@ EXCEPT !.at = "notify"] ELSE [@ EXCEPT !.at = "fail"]]
     \/ /\ \E retryable \in BOOLEAN :
             run' = [run EXCEPT ![p].at = "fail", ![p].retryable = retryable]
        /\ UNCHANGED <<event, applied>>
  /\ UNCHANGED <<page, notified, losses>>

(* retryDelay: doubling, up to the limit. *)
retryDelay[n \in 1..MaxAttempts] ==
  IF n = 1 THEN BaseBackoff ELSE Min({2 * retryDelay[n - 1], MaxBackoff})

(* failClaim, after readTerminalResult found no terminal status. *)
failClaim(p) ==
  LET e == run[p].event
      row == event[e]
  IN  /\ run[p].at = "fail"
      /\ event' = IF ~HoldsClaim(p) THEN event
                  ELSE [event EXCEPT ![e] =
                         IF run[p].retryable /\ HasAttempts(row)
                         THEN Parked(row, "retry_wait", retryDelay[row.attempts])
                         ELSE Parked(row, "manual_review", 0)]
      /\ run' = [run EXCEPT ![p] = Idle]
      /\ UNCHANGED <<page, applied, notified, losses>>

(* AfterCommit, by the process that saw its own commit. *)
invokeAfterCommit(p) ==
  /\ run[p].at = "notify"
  /\ notified' = [notified EXCEPT ![run[p].event] = @ + 1]
  /\ run' = [run EXCEPT ![p] = Idle]
  /\ UNCHANGED <<event, page, applied, losses>>

(* The process dies, or its statement fails and the handler gives up. *)
Lose(p) ==
  /\ losses < MaxLosses
  /\ run[p] # Idle
  /\ run' = [run EXCEPT ![p] = Idle]
  /\ page' = IF p = Reconciler THEN {} ELSE page
  /\ losses' = losses + 1
  /\ UNCHANGED <<event, applied, notified>>

Less(t) == IF t = 0 THEN 0 ELSE t - 1

InboxTick ==
  /\ event' = [e \in Event |-> [event[e] EXCEPT !.lease = Less(@), !.next = Less(@)]]
  /\ UNCHANGED <<run, page, applied, notified, losses>>

Process1(p) ==
  claimEvent(p) \/ Prepare(p) \/ completeClaim(p) \/ failClaim(p) \/ invokeAfterCommit(p)

InboxNext ==
  \/ \E p \in Webhook, e \in Event : Ingest(p, e)
  \/ ReconcileOnce \/ NextRow
  \/ \E p \in Process : Process1(p) \/ Lose(p)
  \/ InboxTick

(***************************************************************************)
(* Time passes; the reconciler's ticker runs its passes for ever and every *)
(* call it makes returns, because each is under a timeout.  Webhooks may   *)
(* stop anywhere.                                                          *)
(***************************************************************************)
InboxSpec ==
  /\ InboxInit /\ [][InboxNext]_inboxVars
  /\ WF_inboxVars(InboxTick)
  /\ WF_inboxVars(ReconcileOnce \/ NextRow \/ Process1(Reconciler))

-----------------------------------------------------------------------------

(* The row is well formed, has an owner exactly while it is claimed, and   *)
(* is never claimed more often than its budget allows.                     *)
InboxTypeOK ==
  \A e \in Event :
    /\ event[e].status \in EventStatus /\ event[e].attempts \in 0..MaxAttempts
    /\ (event[e].status = "processing") = (event[e].owner # "nobody")

(***************************************************************************)
(* The business change of an event is committed exactly once, when its     *)
(* status becomes processed, and the best-effort hook runs at most once    *)
(* and never for a change that is not there: redelivered webhooks, lapsed  *)
(* leases, commits whose answer was lost and the reconciler included.      *)
(***************************************************************************)
AppliedOnce ==
  \A e \in Event :
    /\ applied[e] = (IF event[e].status = "processed" THEN 1 ELSE 0)
    /\ notified[e] <= applied[e]

(***************************************************************************)
(* The reconciler is "the runtime safety net for durable provider events   *)
(* that were accepted but not completed": every stored event is in the end *)
(* processed, ignored or parked for manual review.                         *)
(***************************************************************************)
EventsSettled ==
  \A e \in Event :
    event[e].status = "received" ~> event[e].status \in Terminal \cup {"manual_review"}
=============================================================================
