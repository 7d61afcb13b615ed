---------------------------- MODULE AgentBilling ----------------------------
(***************************************************************************)
(* How an Agent Turn is paid for: the Credits authority bound to the Turn  *)
(* (server/service/agentbilling), the provider usage journal, the usage    *)
(* evidence and the resolution of a settlement Review                      *)
(* (server/service/agentturn), over the reservation ledger.                *)
(*                                                                         *)
(* Every operation takes the Turn's row lock first and runs as one         *)
(* transaction.  Of the Turn only its status and its fence are kept:       *)
(* AgentTurn says when it is claimed and how it ends.  A Turn's reservation*)
(* goes by the Turn's name; the other reservations of the ledger belong to *)
(* callers that left them behind, for the generic sweeper to find.         *)
(***************************************************************************)
EXTENDS CreditLedger

CONSTANTS
  Turn,            \* Agent Turns, a subset of Reservation
  Receipt,         \* provider usage events, one unit of usage each
  ReservedUnits,   \* Credits reserved at admission
  MaxFence,        \* bound on the claims of each Turn
  Metered,         \* Turns whose usage the provider reports, for a Review to measure
  PassLimit,       \* rows per pass of the pending-refund reconciler
  Broken           \* Turns whose reconciliation always fails

ASSUME BillingAssumption ==
  /\ Turn \subseteq Reservation /\ "none" \notin Turn
  /\ ReservedUnits \in Nat
  /\ MaxFence \in [Turn -> Nat]
  /\ Metered \subseteq Turn
  /\ PassLimit \in Nat \ {0}
  /\ Broken \subseteq Turn

VARIABLES
  turn,      \* status and fence of each Turn
  review,    \* settlement Review of each Turn
  journal,   \* the Turn and fence each provider receipt was recorded under
  evidence,  \* receipts frozen as the usage evidence of each Turn's Review
  outcome,   \* settlement outcome rows
  pass       \* the reconciler: cursor, cycle high watermark, rows of its page left

billing == <<turn, review, journal, evidence, outcome>>

billingVars == <<ledgerVars, billing, pass>>

NoReceipt == [turn |-> "none", fence |-> 0]

NoOutcome == [row |-> 0, intent |-> "none", status |-> "none", used |-> 0, version |-> 0]

NoPass == [at |-> "idle", row |-> 0, high |-> 0, page |-> {}, exhausted |-> FALSE]

Bound == {t \in Turn : turn[t].status # "absent"}

BillingInit ==
  /\ LedgerInit
  /\ turn = [t \in Turn |-> [status |-> "absent", fence |-> 0]]
  /\ review = [t \in Turn |-> "none"]
  /\ journal = [e \in Receipt |-> NoReceipt]
  /\ evidence = [t \in Turn |-> {}]
  /\ outcome = [t \in Turn |-> NoOutcome]
  /\ pass = NoPass

-----------------------------------------------------------------------------
(***************************************************************************)
(* state_version counts the state changes of a reservation row.  For a     *)
(* bound row, which the sweeper never extends, the count follows from what *)
(* the row shows: held, queued, tries and ended are one change each.       *)
(***************************************************************************)
Version(row) ==
  LET queued == row.status = "refund_pending" \/ (row.status \in Terminal /\ row.used < row.reserved)
      one(b) == IF b THEN 1 ELSE 0
  IN  one(row.held) + one(queued) + row.tries + one(row.status \in Terminal)

OutcomeStatus(row) == IF row.status = "review_hold" THEN "review_held" ELSE row.status

NextRow == 1 + Max({outcome[t].row : t \in Turn} \cup {0})

(***************************************************************************)
(* The outcome row as the reservation's row after the transaction has it   *)
(* (outcomeFromSnapshot, heldOutcome, persistOutcome).                     *)
(***************************************************************************)
Mirrored(t, intent, used, row) ==
  [row     |-> IF outcome[t].row = 0 THEN NextRow ELSE outcome[t].row,
   intent  |-> intent,
   status  |-> OutcomeStatus(row),
   used    |-> used,
   version |-> Version(row)]

Publish(t, intent, used) ==
  outcome' = [outcome EXCEPT ![t] = Mirrored(t, intent, used, resv'[t])]

(***************************************************************************)
(* Admission: the Turn, its reservation and the binding between them are   *)
(* created in one transaction (ReserveAndBindTurn).                        *)
(***************************************************************************)
AdmitTurn(t) ==
  /\ turn[t].status = "absent"
  /\ Reserve(t, ReservedUnits, FALSE, ReservationTTL)
  /\ turn' = [turn EXCEPT ![t].status = "queued"]
  /\ UNCHANGED <<sweep, review, journal, evidence, outcome, pass>>

(***************************************************************************)
(* A claim opens a new execution epoch while the reservation is reserved   *)
(* and unexpired (AuthorizeTurnExecution).                                 *)
(***************************************************************************)
ClaimTurn(t) ==
  /\ turn[t].status \in {"queued", "running"}
  /\ turn[t].fence < MaxFence[t]
  /\ resv[t].status = "reserved" /\ resv[t].ttl > 0
  /\ turn' = [turn EXCEPT ![t].status = "running", ![t].fence = @ + 1]
  /\ UNCHANGED <<ledgerVars, review, journal, evidence, outcome, pass>>

(***************************************************************************)
(* The Turn ends, and in the same transaction its outcome is settled by    *)
(* the authority, or handed to a Review whose hold freezes the reservation.*)
(***************************************************************************)
SettleTurn(t) ==
  /\ turn[t].status \in {"queued", "running"}
  /\ resv[t].status = "reserved"
  /\ turn' = [turn EXCEPT ![t].status = "ended"]
  /\ \/ /\ turn[t].status = "running"
        /\ \E used \in 1..ReservedUnits :
             Finalize(t, used, FALSE, FALSE) /\ Publish(t, "finalize", used)
     \/ Release(t, FALSE) /\ Publish(t, "release", 0)
  /\ UNCHANGED <<sweep, review, journal, evidence, pass>>

OpenReview(t) ==
  /\ t \in Metered
  /\ turn[t].status \in {"queued", "running"}
  /\ turn' = [turn EXCEPT ![t].status = "ended"]
  /\ review' = [review EXCEPT ![t] = "pending_usage"]
  /\ HoldForReview(t, FALSE)
  /\ Publish(t, "review", 0)
  /\ UNCHANGED <<sweep, journal, evidence, pass>>

(***************************************************************************)
(* AppendAttested: a provider event is recorded once, under the epoch that *)
(* caused it.  While the Turn runs only the current epoch may report; once *)
(* it has ended any of its epochs may, until the evidence is captured.     *)
(***************************************************************************)
MayReport_AfterCapture(t, fence) ==
  \/ turn[t].status = "running" /\ fence = turn[t].fence
  \/ turn[t].status = "ended" /\ review[t] # "none" /\ fence <= turn[t].fence

MayReport(t, fence) ==
  \/ turn[t].status = "running" /\ fence = turn[t].fence
  \/ turn[t].status = "ended" /\ review[t] = "pending_usage" /\ fence <= turn[t].fence

AppendAttested(e, t, fence) ==
  /\ t \in Metered
  /\ journal[e] = NoReceipt
  /\ MayReport(t, fence)
  /\ journal' = [journal EXCEPT ![e] = [turn |-> t, fence |-> fence]]
  /\ UNCHANGED <<ledgerVars, turn, review, evidence, outcome, pass>>

Reported(t) == {e \in Receipt : journal[e].turn = t}

(***************************************************************************)
(* CaptureSettlementReviewUsageEvidence: all receipts of the Turn, or none.*)
(***************************************************************************)
CaptureUsage(t) ==
  /\ review[t] = "pending_usage"
  /\ Reported(t) # {}
  /\ Reported(t) \cap UNION {evidence[u] : u \in Turn} = {}
  /\ evidence' = [evidence EXCEPT ![t] = Reported(t)]
  /\ review' = [review EXCEPT ![t] = "metered_held"]
  /\ UNCHANGED <<ledgerVars, turn, journal, outcome, pass>>

(***************************************************************************)
(* ResolveSettlementReview: charges what the evidence measured, against    *)
(* the hold, and closes the Review; a queued refund counts as success.     *)
(* Usage above the reservation is refused, and then nothing changes.       *)
(***************************************************************************)
MeasuredUsage_Reserved(t) == resv[t].reserved

MeasuredUsage(t) == Cardinality(evidence[t])

ResolveReview(t) ==
  /\ review[t] = "metered_held"
  /\ Finalize(t, MeasuredUsage(t), TRUE, FALSE)
  /\ Publish(t, "review", MeasuredUsage(t))
  /\ review' = [review EXCEPT ![t] = "finalized_held"]
  /\ UNCHANGED <<sweep, turn, journal, evidence, pass>>

-----------------------------------------------------------------------------
(***************************************************************************)
(* The pending-refund reconciler.  A pass reads one page of due rows above *)
(* its cursor and at or below the high watermark of the current cycle, and *)
(* moves the cursor over every row it tried, failed or not; when the range *)
(* is exhausted the next pass starts a new cycle from the bottom.          *)
(***************************************************************************)
DuePending == {t \in Turn : outcome[t].status = "refund_pending" /\ resv[t].wait = 0}

RowsOf(S) == {outcome[t].row : t \in S}

FirstRows(S) ==
  {t \in S : Cardinality({u \in S : outcome[u].row < outcome[t].row}) < PassLimit}

StartPass ==
  /\ pass.at = "idle"
  /\ LET high == IF pass.high = 0 THEN Max(RowsOf(DuePending) \cup {0}) ELSE pass.high
         from == IF pass.high = 0 /\ pass.row >= high THEN 0 ELSE pass.row
         page == FirstRows({t \in DuePending : from < outcome[t].row /\ outcome[t].row <= high})
     IN  /\ high > 0
         /\ pass' = [at |-> "page", row |-> from, high |-> high, page |-> page,
                     exhausted |-> \/ Cardinality(page) < PassLimit
                                   \/ \E t \in page : outcome[t].row >= high]
  /\ UNCHANGED <<ledgerVars, billing>>

(***************************************************************************)
(* ReconcilePending replays the decision frozen in the outcome row, never  *)
(* another one; for a row that is no longer pending it changes nothing.    *)
(***************************************************************************)
ReconcilePending(t) ==
  \/ /\ outcome[t].status = "refund_pending"
     /\ \/ outcome[t].intent = "release" /\ Release(t, FALSE)
        \/ outcome[t].intent # "release"
             /\ Finalize(t, outcome[t].used, outcome[t].intent = "review", FALSE)
     /\ Publish(t, outcome[t].intent, outcome[t].used)
  \/ /\ outcome[t].status # "refund_pending"
     /\ UNCHANGED <<ledger, outcome>>

ReconcileRow_KeepsCursor(t) ==
  IF t \in Broken
  THEN pass' = [NoPass EXCEPT !.row = pass.row, !.high = pass.high] /\ UNCHANGED <<ledger, outcome>>
  ELSE ReconcilePending(t) /\ pass' = [pass EXCEPT !.row = outcome[t].row, !.page = @ \ {t}]

ReconcileRow(t) ==
  /\ pass' = [pass EXCEPT !.row = outcome[t].row, !.page = @ \ {t}]
  /\ IF t \in Broken THEN UNCHANGED <<ledger, outcome>> ELSE ReconcilePending(t)

ReconcileNext ==
  /\ pass.at = "page"
  /\ \E t \in pass.page :
       /\ \A u \in pass.page : outcome[t].row <= outcome[u].row
       /\ ReconcileRow(t)
  /\ UNCHANGED <<sweep, turn, review, journal, evidence>>

EndPass ==
  /\ pass.at = "page" /\ pass.page = {}
  /\ pass' = IF pass.exhausted THEN NoPass
             ELSE [NoPass EXCEPT !.row = pass.row, !.high = pass.high]
  /\ UNCHANGED <<ledgerVars, billing>>

(***************************************************************************)
(* A pass stops early when its context ends: the rows it has not tried are *)
(* left for the next one.                                                  *)
(***************************************************************************)
AbandonPass ==
  /\ pass.at = "page" /\ pass.page # {}
  /\ pass' = [NoPass EXCEPT !.row = pass.row, !.high = pass.high]
  /\ UNCHANGED <<ledgerVars, billing>>

-----------------------------------------------------------------------------
(***************************************************************************)
(* Reservations of other callers, left behind by a process that died.      *)
(***************************************************************************)
ReserveElsewhere(r) ==
  /\ \E n \in Amount : Reserve(r, n, FALSE, ReservationTTL)
  /\ UNCHANGED <<sweep, billing, pass>>

SweepStep ==
  /\ ScanReservations(Bound) \/ SweepOne(FALSE)
  /\ UNCHANGED <<billing, pass>>

BillingTick == LedgerTick /\ UNCHANGED <<billing, pass>>

BillingNext ==
  \/ \E t \in Turn :
       \/ AdmitTurn(t) \/ ClaimTurn(t) \/ SettleTurn(t) \/ OpenReview(t)
       \/ CaptureUsage(t) \/ ResolveReview(t)
       \/ \E e \in Receipt, fence \in 1..turn[t].fence : AppendAttested(e, t, fence)
  \/ StartPass \/ ReconcileNext \/ EndPass \/ AbandonPass
  \/ \E r \in Reservation \ Turn : ReserveElsewhere(r)
  \/ SweepStep
  \/ BillingTick

BillingSpec == BillingInit /\ [][BillingNext]_billingVars

(***************************************************************************)
(* The scheduler that drives the reconciler runs pass after pass, not      *)
(* every one of them is abandoned, and time passes.                        *)
(***************************************************************************)
BillingFairness ==
  /\ WF_billingVars(StartPass)
  /\ SF_billingVars(ReconcileNext)
  /\ WF_billingVars(EndPass)
  /\ WF_billingVars(BillingTick)

FairBillingSpec == BillingSpec /\ BillingFairness

-----------------------------------------------------------------------------
(***************************************************************************)
(* OutcomeMirrorsLedger.  A bound reservation has left "reserved" exactly  *)
(* when the Turn has an outcome, and the outcome says what the reservation *)
(* says: same status, charge and version.  GetOutcome reports drift        *)
(* otherwise, and no later replay could repair it.                         *)
(***************************************************************************)
OutcomeMirrorsLedger ==
  \A t \in Bound :
    /\ outcome[t].row = 0 <=> resv[t].status = "reserved"
    /\ outcome[t].row # 0 =>
         /\ outcome[t].status = OutcomeStatus(resv[t])
         /\ outcome[t].version = Version(resv[t])
         /\ outcome[t].used = IF resv[t].status = "refund_pending" THEN resv[t].targetUsed
                              ELSE resv[t].used

(***************************************************************************)
(* ReviewDecides.  A Review owns the only commercial decision of its Turn: *)
(* until it is resolved the Credits are frozen, neither charged nor        *)
(* returned, and after it exactly the measured usage is charged.           *)
(***************************************************************************)
ReviewDecides ==
  \A t \in Turn :
    /\ review[t] \in {"pending_usage", "metered_held"} => resv[t].status = "review_hold"
    /\ review[t] = "finalized_held" =>
         \/ /\ resv[t].status = "finalized"
            /\ resv[t].used = Cardinality(evidence[t])
         \/ IntentMatches(resv[t], "finalized", Cardinality(evidence[t]))

(***************************************************************************)
(* UsageCountedOnce.  The evidence of a measured Review is all the usage   *)
(* the journal holds for the Turn, of every epoch: nothing is recorded     *)
(* behind it, and no receipt is evidence for two Turns.                    *)
(***************************************************************************)
UsageCountedOnce ==
  \A t \in Turn :
    /\ review[t] \in {"metered_held", "finalized_held"} => evidence[t] = Reported(t)
    /\ \A u \in Turn \ {t} : evidence[t] \cap evidence[u] = {}

(***************************************************************************)
(* PendingRefundsConverge.  A refund that failed is retried until it is    *)
(* done, also while a row that always fails shares the reconciler's pages  *)
(* with it.                                                                *)
(***************************************************************************)
PendingRefundsConverge ==
  \A t \in Turn \ Broken :
    outcome[t].status = "refund_pending" ~> outcome[t].status \in Terminal

=============================================================================
