----------------------------- MODULE TurnRecovery -----------------------------
(***************************************************************************)
(* Discovery: the loops that find Turns to execute or to retire.  Each one *)
(* reads a bounded page without a lock and then tries its rows one by one  *)
(* through the kernel, which decides again under the Turn's lock.          *)
(*                                                                         *)
(*   ClaimNext (sql_claim_next.go): oldest claimable Turns first           *)
(*   Reconciler (reconcile.go): oldest reclaimable Turns first             *)
(*   ExpiredReservationReconciler (agentbilling): a cursor over bindings   *)
(***************************************************************************)
EXTENDS AgentTurn, Sequences, FiniteSets, FiniteSetsExt

CONSTANTS
  ScanLimit,   \* page of ClaimNext
  BatchLimit,  \* page of the Reconciler
  SweepLimit   \* page of the expired-reservation reconciler

ASSUME RecoveryAssumption ==
  ScanLimit \in Nat \ {0} /\ BatchLimit \in Nat \ {0} /\ SweepLimit \in Nat \ {0}

(* A row is known by its position in `order`; a page is a set of rows, the *)
(* least of which is tried first.                                          *)
VARIABLES
  order,       \* Turns by (created_at, id); the binding row id is the position
  candidates,  \* per Attempt identifier: the rest of its ClaimNext page
  page,        \* the rest of the Reconciler's page, with the reasons it read
  sweep        \* the expired-reservation cursor and the rest of its page

recovery == <<order, candidates, page, sweep>>
recoveryVars == <<vars, recovery>>

NoSweep == [row |-> 0, high |-> 0, rows |-> {}, exhausted |-> FALSE]

RecoveryInit ==
  /\ Init
  /\ order = <<>>
  /\ candidates = [a \in Attempt |-> {}]
  /\ page = {}
  /\ sweep = NoSweep

FirstRows_OffByOne(S, limit) == {i \in S : Cardinality({j \in S : j < i}) < limit - 1}

(* ORDER BY ... LIMIT                                                      *)
FirstRows(S, limit) == {i \in S : Cardinality({j \in S : j < i}) < limit}

-----------------------------------------------------------------------------
AdmitInOrder(t) ==
  /\ Admit(t)
  /\ order' = Append(order, t)
  /\ UNCHANGED <<candidates, page, sweep>>

(* scanClaimableTurns: it knows nothing of reservations.                   *)
Discoverable(t) ==
  /\ Unfinished(t)
  /\ ~turn[t].cancel
  /\ turn[t].fence < MaxTurnAttempts
  /\ \/ turn[t].status = "queued" /\ turn[t].active = NoAttempt
     \/ turn[t].status = "running" /\ turn[t].active # NoAttempt /\ ~Live(turn[t].active)

ScanClaimable(a) ==
  LET rows == {i \in DOMAIN order : Discoverable(order[i])}
  IN  /\ attempt[a].status = "absent"
      /\ candidates[a] = {}
      /\ rows # {}
      /\ candidates' = [candidates EXCEPT ![a] = FirstRows(rows, ScanLimit)]
      /\ UNCHANGED <<vars, order, page, sweep>>

(* ClaimNext tries its candidates in order until one is claimed.           *)
ClaimNext(a) ==
  /\ \E i \in candidates[a] :
       /\ \A j \in candidates[a] : i <= j
       /\ IF MayOpenEpoch(order[i])
          THEN ClaimAttempt(order[i], a) /\ candidates' = [candidates EXCEPT ![a] = {}]
          ELSE UNCHANGED vars /\ candidates' = [candidates EXCEPT ![a] = @ \ {i}]
  /\ UNCHANGED <<order, page, sweep>>

Reclaimable_OwnedOnly(t) ==
  Unfinished(t) /\ turn[t].active # NoAttempt /\ ~Live(turn[t].active)

(* ListReclaimableTurns: Turns without a live owner that are cancelled,    *)
(* out of budget or abandoned by an epoch.                                 *)
Reclaimable(t) ==
  /\ Unfinished(t)
  /\ turn[t].active # NoAttempt => ~Live(turn[t].active)
  /\ turn[t].cancel \/ turn[t].fence >= MaxTurnAttempts \/ turn[t].active # NoAttempt

(* toReclaimableTurn: the most specific reason.                            *)
Candidate(i) ==
  [id |-> i, reason |-> IF turn[order[i]].cancel THEN "cancellation_pending"
                        ELSE IF turn[order[i]].fence >= MaxTurnAttempts THEN "attempts_exhausted"
                        ELSE "lease_expired"]

(* A lapsed lease with budget left is ordinary retry traffic.              *)
Actionable(c) == c.reason # "lease_expired"

(* The page is cut before the rows that are not actionable are dropped.    *)
ReclaimPage ==
  LET rows == FirstRows({i \in DOMAIN order : Reclaimable(order[i])}, BatchLimit)
  IN  {c \in {Candidate(i) : i \in rows} : Actionable(c)}

ScanReclaimable ==
  /\ page = {}
  /\ ReclaimPage # {}
  /\ page' = ReclaimPage
  /\ UNCHANGED <<vars, order, candidates, sweep>>

(* ReconcileOnce goes on to the next row whatever becomes of this one.     *)
ReconcileNext ==
  /\ \E c \in page :
       /\ \A d \in page : c.id <= d.id
       /\ IF MayRetire(order[c.id], c.reason) THEN ReconcileTerminal(order[c.id], c.reason)
          ELSE UNCHANGED vars
       /\ page' = page \ {c}
  /\ UNCHANGED <<order, candidates, sweep>>

Due_RunningOnly(i) == turn[order[i]].status = "running" /\ turn[order[i]].ttl = 0

(* expiredReservationBaseQuery: unfinished Turns whose hold is due.        *)
Due(i) == Unfinished(order[i]) /\ turn[order[i]].ttl = 0

DueRows(from, to) == {i \in DOMAIN order : from < i /\ i <= to /\ Due(i)}

(* A row is worth trying unless the scan saw it owned or cancelled.        *)
DueRow(i) == [id |-> i, ready |-> Vacant(order[i]) /\ ~turn[order[i]].cancel]

(* DiscoverExpiredReservations: a cycle fixes its high-water mark once and *)
(* walks towards it page by page.                                          *)
ScanExpired ==
  LET high == IF sweep.high > 0 THEN sweep.high ELSE Max(DueRows(0, Len(order)) \cup {0})
      ids  == FirstRows(DueRows(sweep.row, high), SweepLimit)
  IN  /\ ReservationAware
      /\ sweep.rows = {}
      /\ high > 0
      /\ sweep' = IF ids = {} THEN NoSweep
                  ELSE [row |-> sweep.row, high |-> high, rows |-> {DueRow(i) : i \in ids},
                        exhausted |-> Cardinality(ids) < SweepLimit \/ \E i \in ids : i >= high]
      /\ UNCHANGED <<vars, order, candidates, page>>

(* One row of the pass: the cursor moves past it whether it is retired or  *)
(* left to a later cycle; the pass that exhausts a cycle starts a new one. *)
SweepNext ==
  /\ \E c \in sweep.rows :
       /\ \A d \in sweep.rows : c.id <= d.id
       /\ IF c.ready /\ MayRetire(order[c.id], "reservation_expired")
          THEN ReconcileTerminal(order[c.id], "reservation_expired")
          ELSE UNCHANGED vars
       /\ sweep' = IF sweep.rows = {c} /\ sweep.exhausted THEN NoSweep
                   ELSE [sweep EXCEPT !.row = c.id, !.rows = @ \ {c}]
  /\ UNCHANGED <<order, candidates, page>>

(* What the owner of an epoch and the user of a Turn do meanwhile.         *)
Execute ==
  /\ \/ \E t \in Turn : RequestCancel(t)
     \/ \E a \in Attempt : HeartbeatAttempt(a)
     \/ \E a \in Attempt, o \in Operation :
           \/ CommitOperation(a, o, {})
           \/ \E status \in TerminalStatus : CommitTerminal(a, o, {}, status, "finalize")
     \/ Tick
  /\ UNCHANGED recovery

Claiming == \E a \in Attempt : ScanClaimable(a) \/ ClaimNext(a)
Reconciling == ScanReclaimable \/ ReconcileNext
Sweeping == ScanExpired \/ SweepNext

RecoveryNext ==
  \/ \E t \in Turn : AdmitInOrder(t)
  \/ Claiming \/ Reconciling \/ Sweeping \/ Execute

(* A worker process runs two loops, claiming and reconciling, for as long  *)
(* as it runs.  Nothing is assumed of executors, users or the clock.       *)
RecoverySpec ==
  /\ RecoveryInit /\ [][RecoveryNext]_recoveryVars
  /\ WF_recoveryVars(Claiming) /\ WF_recoveryVars(Reconciling)

(* The expired-reservation pass "owns no scheduler": no process of the     *)
(* repository runs it.  Where reservations bind Turns, the properties that *)
(* need it say so, as a premise on whoever schedules it.                   *)
ExpiryScheduled == ReservationAware => WF_recoveryVars(Sweeping)

-----------------------------------------------------------------------------
(* No executor may take it again, and nobody has it now.                   *)
Stuck(t) ==
  /\ Unfinished(t) /\ Vacant(t)
  /\ turn[t].cancel \/ turn[t].fence >= MaxTurnAttempts

(* "One poisoned row must not stall reconciliation for every other stuck   *)
(* Turn": no Turn that no executor may take again stays so forever, unless *)
(* it is itself one whose usage nobody can adjudicate.  Where reservations *)
(* bind Turns this takes the expired-reservation pass: a lapsed Turn whose *)
(* hold ran out can be neither claimed nor retired by the Reconciler.      *)
StuckTurnsRetire ==
  ExpiryScheduled => \A t \in Turn : []<>(Stuck(t) => UsageUnknown(t, "release", {}))

(* "FIFO ordering is the starvation guard": no Turn stays queued forever,  *)
(* whatever happens to the Turns before it.  One whose hold ran out leaves *)
(* the queue only through the expired-reservation pass.                    *)
QueuedTurnsMove == ExpiryScheduled => \A t \in Turn : []<>(turn[t].status # "queued")

(* Nobody owns the Turn, and its reservation ran out.                      *)
Overdue(t) == Unfinished(t) /\ Vacant(t) /\ turn[t].ttl = 0

(* Wherever the expired-reservation pass is scheduled, no such Turn stays  *)
(* unfinished forever, so Credits are not held for work that can no longer *)
(* run: the cursor comes back to every row it had to leave.                *)
ExpiredHoldsEnd ==
  ReservationAware /\ ExpiryScheduled => \A t \in Turn : []<>~Overdue(t)

=============================================================================
