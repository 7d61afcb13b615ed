---------------------------- MODULE CreditLedger ----------------------------
(***************************************************************************)
(* The prepaid Credits ledger (server/service/account): reservations, the  *)
(* Credits packs they draw on, the project budget they count against, the  *)
(* refund intents that survive a failed refund, and the sweeper that ends  *)
(* abandoned reservations.                                                 *)
(*                                                                         *)
(* Every operation runs in a transaction that locks the reservation's row, *)
(* so one operation is one action.  An operation that returns an error     *)
(* rolls back and is not a step.  The one failure that does leave a trace, *)
(* a refund that fails behind its savepoint, is a disjunct of its own.     *)
(*                                                                         *)
(* The operations are written for callers: a component that reserves and   *)
(* settles inside its own transaction conjoins them with its own updates.  *)
(***************************************************************************)
EXTENDS Integers, Sequences, FiniteSetsExt

CONSTANTS
  Reservation,        \* idempotency keys: one reservation row each
  NumPacks,           \* Credits packs are 1..NumPacks, their row ids
  Grant,              \* Credits a pack is created with
  PackLife,           \* ticks until each pack expires, or Forever
  Purchased,          \* the packs that came with an order
  Forever,            \* the life of a pack with no expiry
  Amount,             \* sizes of reservation callers ask for
  ProjectCap,         \* the project's budget cap
  ReservationTTL,     \* ticks a reservation lives
  SweepMargin,        \* grace past the expiry before the sweeper acts
  TaskExtension,      \* ticks the sweeper grants a task still active
  MaxRefundFailures   \* bound on failed refund attempts per reservation

(* An idempotency key is a string of bounded length.                       *)
ASSUME LedgerAssumption ==
  /\ IsFiniteSet(Reservation)
  /\ NumPacks \in Nat
  /\ Grant \in Nat
  /\ Forever \in Nat
  /\ PackLife \in [1..NumPacks -> 1..Forever]
  /\ Purchased \subseteq 1..NumPacks
  /\ Amount \subseteq Nat
  /\ ProjectCap \in Nat
  /\ ReservationTTL \in Nat \ {0}
  /\ SweepMargin \in Nat
  /\ TaskExtension \in Nat \ {0}
  /\ MaxRefundFailures \in Nat

VARIABLES
  resv,     \* credit_reservations rows, with their allocation rows
  pack,     \* credits_packs rows
  spent,    \* the project's budget_credits_used
  sweep     \* the page of candidates the sweeper has read, in order

ledger == <<resv, pack, spent>>

ledgerVars == <<resv, pack, spent, sweep>>

Pack == 1..NumPacks

Terminal == {"finalized", "released", "expired"}

NoTarget == "none"

(***************************************************************************)
(* Handing n out in order: what falls to x once those before it have had   *)
(* theirs, and no more than it can take.                                   *)
(***************************************************************************)
Share(capacity, before, n, x) ==
  Max({0, Min({capacity[x], n - SumFunctionOnSet(capacity, before)})})

(***************************************************************************)
(* Choosing the packs of a new reservation: soonest expiry first, packs    *)
(* without expiry last, then by row id (ReserveCreditsDetailedAtTx).  An   *)
(* allocation's priority is the number of allocations made before it.      *)
(***************************************************************************)
Free == [p \in Pack |-> pack[p].total - pack[p].used]

Spendable == {p \in Pack : pack[p].life > 0 /\ Free[p] > 0}

SpentBefore_ById(p, q) == p < q

SpentBefore(p, q) ==
  \/ pack[p].life < pack[q].life
  \/ pack[p].life = pack[q].life /\ p < q

Affordable(n) == n <= SumFunctionOnSet(Free, Spendable)

Earlier(p) == {q \in Spendable : SpentBefore(q, p)}

Taken(p, n) == IF p \in Spendable THEN Share(Free, Earlier(p), n, p) ELSE 0

Allocation(n) ==
  [credits  |-> [p \in Pack |-> Taken(p, n)],
   priority |-> [p \in Pack |-> IF Taken(p, n) > 0 THEN Cardinality(Earlier(p)) ELSE 0]]

NoAllocation == [credits |-> [p \in Pack |-> 0], priority |-> [p \in Pack |-> 0]]

(***************************************************************************)
(* Dividing a refund over the allocations: the pack drawn on last gets its *)
(* Credits back first (buildRefundAllocationPlan).                         *)
(***************************************************************************)
Drawn(alloc) == {p \in Pack : alloc.credits[p] > 0}

RefundTo(alloc, due, p) ==
  Share(alloc.credits, {q \in Drawn(alloc) : alloc.priority[q] > alloc.priority[p]}, due, p)

-----------------------------------------------------------------------------
NoRow ==
  [status |-> "absent", reserved |-> 0, used |-> 0, ttl |-> 0, held |-> FALSE,
   project |-> FALSE, target |-> NoTarget, targetUsed |-> 0, wait |-> 0,
   tries |-> 0, alloc |-> NoAllocation]

NewRow(n, inProject, ttl) ==
  [NoRow EXCEPT !.status = "reserved", !.reserved = n, !.ttl = ttl,
                !.project = inProject, !.alloc = Allocation(n)]

LedgerInit ==
  /\ resv = [r \in Reservation |-> NoRow]
  /\ pack = [p \in Pack |-> [total |-> Grant, used |-> 0, life |-> PackLife[p]]]
  /\ spent = 0
  /\ sweep = <<>>

(***************************************************************************)
(* Reserve.  The insert of the unique (uid, idempotency key) decides who   *)
(* creates the row; a repeat with the same parameters replays it, a repeat *)
(* with others is refused, and neither is a step.  The project's cap is    *)
(* checked, then its spend and the packs are charged.                      *)
(***************************************************************************)
Reserve(r, n, inProject, ttl) ==
  /\ resv[r].status = "absent"
  /\ inProject => spent + n <= ProjectCap
  /\ Affordable(n)
  /\ resv' = [resv EXCEPT ![r] = NewRow(n, inProject, ttl)]
  /\ pack' = [p \in Pack |-> [pack[p] EXCEPT !.used = @ + Taken(p, n)]]
  /\ spent' = IF inProject THEN spent + n ELSE spent

(***************************************************************************)
(* The terminal write, and the durable refund intent that precedes it when *)
(* Credits must go back.                                                   *)
(***************************************************************************)
Ended(row, status, used) ==
  [row EXCEPT !.status = status, !.used = used, !.target = NoTarget,
              !.targetUsed = 0, !.wait = 0]

Queued(row, target, used) ==
  [row EXCEPT !.status = "refund_pending", !.target = target,
              !.targetUsed = used, !.wait = 0]

(***************************************************************************)
(* Minutes until the next attempt: one, doubled at every try, at most 60.  *)
(***************************************************************************)
Backoff(tries) == Max({n \in 1..60 : n = 1 \/ n <= 2 ^ (tries - 1)})

Due(row) == row.reserved - row.targetUsed

(***************************************************************************)
(* The allocations make up the reservation, and the financial rows are     *)
(* sound and hold what it took out of them (refundAllocationsTx,           *)
(* RefundBudgetSpentExact).                                                *)
(***************************************************************************)
RefundFits(row) ==
  /\ SumFunction(row.alloc.credits) = row.reserved
  /\ \A p \in Drawn(row.alloc) :
       row.alloc.credits[p] <= pack[p].used /\ pack[p].used <= pack[p].total
  /\ row.project => Due(row) <= spent

ProjectAfter_Unchanged(row) == spent

ProjectAfter(row) == IF row.project THEN spent - Due(row) ELSE spent

(***************************************************************************)
(* One refund attempt.  It succeeds and ends the row as its intent says,   *)
(* or it fails behind the savepoint: the intent, one more try and the time *)
(* of the next one are what commits (attemptPendingRefundLocked).          *)
(***************************************************************************)
AttemptRefund(r, row) ==
  \/ /\ RefundFits(row)
     /\ pack' = [p \in Pack |->
                   [pack[p] EXCEPT !.used = @ - RefundTo(row.alloc, Due(row), p)]]
     /\ spent' = ProjectAfter(row)
     /\ resv' = [resv EXCEPT ![r] = Ended(row, row.target, row.targetUsed)]
  \/ /\ row.tries < MaxRefundFailures
     /\ resv' = [resv EXCEPT ![r] = [row EXCEPT !.tries = @ + 1,
                                                !.wait = Backoff(row.tries + 1)]]
     /\ UNCHANGED <<pack, spent>>

(***************************************************************************)
(* Whether a caller's hold tuple may settle the row (enforceReservationHold)*)
(***************************************************************************)
HoldPermits(row, hold) == row.held = hold

IntentMatches(row, target, used) ==
  /\ row.status = "refund_pending"
  /\ row.target = target
  /\ row.targetUsed = used

FinalizeAccepts(row, used, hold, unexpired) ==
  /\ HoldPermits(row, hold)
  /\ used <= row.reserved
  /\ \/ row.status = "finalized" /\ row.used = used
     \/ IntentMatches(row, "finalized", used)
     \/ row.status = "reserved" /\ (unexpired => row.ttl > 0)
     \/ row.status = "review_hold"

ReleaseAccepts(row, hold) ==
  /\ HoldPermits(row, hold)
  /\ \/ row.status = "released"
     \/ IntentMatches(row, "released", 0)
     \/ row.status \in {"reserved", "review_hold"}

(***************************************************************************)
(* What Finalize and Release do to a row that accepts them: replay an      *)
(* ended row, retry an intent whose time has come, or settle a live row.   *)
(***************************************************************************)
Settle(r, target, used) ==
  LET row == resv[r]
  IN  \/ /\ row.status = target \/ (row.status = "refund_pending" /\ row.wait > 0)
         /\ UNCHANGED ledger
      \/ /\ row.status = "refund_pending" /\ row.wait = 0
         /\ AttemptRefund(r, row)
      \/ /\ row.status \in {"reserved", "review_hold"}
         /\ IF used = row.reserved
            THEN /\ resv' = [resv EXCEPT ![r] = Ended(row, target, used)]
                 /\ UNCHANGED <<pack, spent>>
            ELSE AttemptRefund(r, Queued(row, target, used))

Finalize(r, used, hold, unexpired) ==
  /\ FinalizeAccepts(resv[r], used, hold, unexpired)
  /\ Settle(r, "finalized", used)

Release(r, hold) ==
  /\ ReleaseAccepts(resv[r], hold)
  /\ Settle(r, "released", 0)

(***************************************************************************)
(* HoldForReview: only a reserved row can be frozen, and the review path   *)
(* requires it unexpired unless the Turn had been authorized before.       *)
(***************************************************************************)
HoldForReview(r, unexpired) ==
  /\ resv[r].status = "reserved"
  /\ unexpired => resv[r].ttl > 0
  /\ resv' = [resv EXCEPT ![r].status = "review_hold", ![r].held = TRUE]
  /\ UNCHANGED <<pack, spent>>

-----------------------------------------------------------------------------
(***************************************************************************)
(* The sweeper.  A pass reads one page of candidates without a lock, the   *)
(* pending refunds first, then the longest expired; it then takes them one *)
(* by one, each in a transaction that looks again.  "Owned" reservations   *)
(* are bound to an Agent Turn and belong to another reconciler.            *)
(***************************************************************************)
Abandoned_AnyStatus(row) == row.ttl < -SweepMargin

Abandoned(row) == row.status = "reserved" /\ row.ttl < -SweepMargin

RefundDue(row) == row.status = "refund_pending" /\ row.wait = 0

SweptFirst(r, s) ==
  \/ resv[r].status = "refund_pending" /\ resv[s].status # "refund_pending"
  \/ resv[r].status = resv[s].status /\ resv[r].ttl < resv[s].ttl

Candidates_TakesOwned(Owned) ==
  {r \in Reservation : Abandoned(resv[r]) \/ RefundDue(resv[r])}

Candidates(Owned) ==
  {r \in Reservation \ Owned : Abandoned(resv[r]) \/ RefundDue(resv[r])}

ScanReservations(Owned) ==
  /\ sweep = <<>>
  /\ Candidates(Owned) # {}
  /\ \E page \in Bijection(1..Cardinality(Candidates(Owned)), Candidates(Owned)) :
       /\ \A i, j \in 1..Len(page) : i < j => ~SweptFirst(page[j], page[i])
       /\ sweep' = page
  /\ UNCHANGED ledger

(***************************************************************************)
(* sweepOne under the task and reservation locks.  A row another caller    *)
(* ended, extended or rescheduled since the scan is left alone; "active"   *)
(* says that the generation task under the same key is still pending or    *)
(* processing.                                                             *)
(***************************************************************************)
SweepOne(active) ==
  /\ sweep # <<>>
  /\ sweep' = Tail(sweep)
  /\ LET r   == Head(sweep)
         row == resv[r]
     IN  CASE RefundDue(row) -> AttemptRefund(r, row)
           [] Abandoned(row) /\ active ->
                /\ resv' = [resv EXCEPT ![r].ttl = TaskExtension]
                /\ UNCHANGED <<pack, spent>>
           [] Abandoned(row) /\ ~active /\ row.reserved = 0 ->
                /\ resv' = [resv EXCEPT ![r] = Ended(row, "expired", 0)]
                /\ UNCHANGED <<pack, spent>>
           [] Abandoned(row) /\ ~active /\ row.reserved > 0 ->
                AttemptRefund(r, Queued(row, "expired", 0))
           [] OTHER -> UNCHANGED ledger

(***************************************************************************)
(* A refunded order takes back what its pack has left, also of one that    *)
(* has expired or was revoked before (RevokeOrderCreditsTx).               *)
(***************************************************************************)
RevokePack(p) ==
  /\ pack' = [pack EXCEPT ![p].total = pack[p].used, ![p].life = 0]
  /\ UNCHANGED <<resv, spent, sweep>>

(***************************************************************************)
(* One unit of time passes on the deadlines that can still matter.         *)
(***************************************************************************)
LedgerTick ==
  /\ resv' = [r \in Reservation |->
       [resv[r] EXCEPT
          !.ttl  = IF resv[r].status = "absent" THEN @ ELSE Max({@ - 1, -SweepMargin - 1}),
          !.wait = Max({@ - 1, 0})]]
  /\ pack' = [p \in Pack |->
       [pack[p] EXCEPT !.life = IF @ \in {0, Forever} THEN @ ELSE @ - 1]]
  /\ UNCHANGED <<spent, sweep>>

-----------------------------------------------------------------------------
(***************************************************************************)
(* What the row has taken out of pack p and out of the project and not     *)
(* given back.                                                             *)
(***************************************************************************)
Charged(row, p) ==
  CASE row.status \in {"reserved", "review_hold", "refund_pending"} -> row.alloc.credits[p]
    [] row.status \in Terminal ->
         row.alloc.credits[p] - RefundTo(row.alloc, row.reserved - row.used, p)
    [] OTHER -> 0

Outstanding(row) == IF row.status \in Terminal THEN row.used ELSE row.reserved

(***************************************************************************)
(* BooksBalance.  At every moment each pack's used Credits, and the        *)
(* project's spend, are exactly what the reservations account for: no      *)
(* Credits are charged twice, refunded twice or lost, whatever mixture of  *)
(* settlement, failed refund, sweep and revocation came before.            *)
(***************************************************************************)
BooksBalance ==
  /\ \A p \in Pack :
       /\ pack[p].used = SumFunction([r \in Reservation |-> Charged(resv[r], p)])
       /\ pack[p].used <= pack[p].total
  /\ spent = SumFunction([r \in Reservation |-> IF resv[r].project THEN Outstanding(resv[r]) ELSE 0])
  /\ spent <= ProjectCap
  /\ \A r \in Reservation :
       Outstanding(resv[r]) = SumFunction([p \in Pack |-> Charged(resv[r], p)])

(***************************************************************************)
(* SoonestFirst.  Credits that expire sooner are spent sooner, and stay    *)
(* spent.  A step that charges a pack leaves nothing in any live pack that *)
(* expires before it, and a step that ends a reservation gives nothing     *)
(* back to a pack unless every pack of the reservation that expires later  *)
(* got back all it had given: a partial refund never costs the account its *)
(* longest-lived Credits.  This is about the packs' balances and expiry    *)
(* dates, not about the order that the allocations record.                 *)
(***************************************************************************)
SpendsSoonest ==
  \A p, q \in Pack :
    PackLife[p] < PackLife[q] /\ pack'[q].used > pack[q].used /\ pack[p].life > 0
      => pack'[p].used = pack'[p].total

ReturnsLatest ==
  \A r \in Reservation :
    resv[r].status \notin Terminal /\ resv'[r].status \in Terminal =>
      \A p, q \in Pack :
        PackLife[p] < PackLife[q] /\ pack'[p].used < pack[p].used
          => pack'[q].used = pack[q].used - resv[r].alloc.credits[q]

SoonestFirst == [][SpendsSoonest /\ ReturnsLatest]_ledgerVars

(***************************************************************************)
(* DecisionsStand.  A settlement decision is never reversed or revised: an *)
(* ended row keeps its status and charge, and a row with a queued refund   *)
(* keeps its target and charge until it ends exactly so, however many      *)
(* attempts fail and whoever retries.                                      *)
(***************************************************************************)
KeepsDecision(r) ==
  /\ resv[r].status \in Terminal =>
       resv'[r].status = resv[r].status /\ resv'[r].used = resv[r].used
  /\ resv[r].status = "refund_pending" =>
       \/ /\ resv'[r].status = "refund_pending"
          /\ resv'[r].target = resv[r].target
          /\ resv'[r].targetUsed = resv[r].targetUsed
       \/ /\ resv'[r].status = resv[r].target
          /\ resv'[r].used = resv[r].targetUsed

DecisionsStand == [][\A r \in Reservation : KeepsDecision(r)]_ledgerVars

=============================================================================
