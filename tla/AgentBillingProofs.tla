-------------------------- MODULE AgentBillingProofs --------------------------
(***************************************************************************)
(* Proofs about the billing of Agent Turns, for every set of Turns, packs  *)
(* and provider receipts: billing is a caller of the ledger, the outcome   *)
(* row of a Turn mirrors its reservation, a Review alone decides on the    *)
(* Credits it holds, and usage is counted once.                            *)
(***************************************************************************)
EXTENDS AgentBilling, CreditLedgerProofs

(* The SMT solver may take up to 30 seconds over a leaf, and is called     *)
(* again when its first call fails.                                        *)
USE SMTT(30), Z3T(30)

TurnRow == [status : {"absent", "queued", "running", "ended"}, fence : Nat]

ReviewState == {"none", "pending_usage", "metered_held", "finalized_held"}

ReceiptRow == [turn : Turn \cup {"none"}, fence : Nat]

OutcomeRow ==
  [row : Nat, intent : {"none", "finalize", "release", "review"},
   status : {"none", "absent", "reserved", "review_held", "refund_pending"} \cup Terminal,
   used : Nat, version : Nat]

PassState ==
  [at : {"idle", "page"}, row : Nat, high : Nat, page : SUBSET Turn, exhausted : BOOLEAN]

BillingTypes ==
  /\ turn \in [Turn -> TurnRow]
  /\ review \in [Turn -> ReviewState]
  /\ journal \in [Receipt -> ReceiptRow]
  /\ evidence \in [Turn -> SUBSET Receipt]
  /\ outcome \in [Turn -> OutcomeRow]
  /\ pass \in PassState
  /\ sweep \in Seq(Reservation \ Turn)

(***************************************************************************)
(* The receipts recorded so far.                                           *)
(***************************************************************************)
Recorded == {e \in Receipt : journal[e] # NoReceipt}

EvidenceSound ==
  /\ IsFiniteSet(Recorded)
  /\ \A t \in Turn : evidence[t] \subseteq Recorded

(***************************************************************************)
(* A Turn, its reservation and its outcome row go together: reserved while *)
(* the Turn may run, settled or held with its outcome once it has ended.   *)
(***************************************************************************)
TurnSound(t) ==
  /\ turn[t].status = "absent" <=> resv[t].status = "absent"
  /\ turn[t].status \in {"queued", "running"} <=> resv[t].status = "reserved"
  /\ turn[t].status # "ended" => review[t] = "none"
  /\ turn[t].status = "ended" <=> outcome[t].row # 0
  /\ outcome[t].row = 0 => outcome[t].status = "none"
  /\ resv[t].status \in {"absent", "reserved", "review_hold"} => resv[t].used = 0

Mirrors(t) ==
  /\ outcome[t].status = OutcomeStatus(resv[t])
  /\ outcome[t].version = Version(resv[t])
  /\ outcome[t].used = IF resv[t].status = "refund_pending" THEN resv[t].targetUsed
                       ELSE resv[t].used

(***************************************************************************)
(* ReviewDecides, of one Turn.                                             *)
(***************************************************************************)
Decides(t) ==
  /\ review[t] \in {"pending_usage", "metered_held"} => resv[t].status = "review_hold"
  /\ review[t] = "finalized_held" => Decided(resv[t], "finalized", Cardinality(evidence[t]))

Settled(t) == TurnSound(t) /\ (outcome[t].row # 0 => Mirrors(t)) /\ Decides(t)

UsageSound == EvidenceSound /\ UsageCountedOnce

BillingInv == BillingTypes /\ UsageSound /\ \A t \in Turn : Settled(t)

(***************************************************************************)
(* NothingBound.  Before the first admission the invariant holds.          *)
(***************************************************************************)
LEMMA NothingBound == BillingInit => BillingInv
<1> SUFFICES ASSUME BillingInit PROVE BillingInv
  OBVIOUS
<1>1. BillingTypes
  <2>1. turn \in [Turn -> TurnRow] /\ review \in [Turn -> ReviewState]
    BY DEF BillingInit, TurnRow, ReviewState
  <2>2. journal \in [Receipt -> ReceiptRow] /\ evidence \in [Turn -> SUBSET Receipt]
    BY DEF BillingInit, ReceiptRow, NoReceipt
  <2>3. outcome \in [Turn -> OutcomeRow]
    BY DEF BillingInit, OutcomeRow, NoOutcome
  <2>4. pass \in PassState /\ sweep \in Seq(Reservation \ Turn)
    BY DEF BillingInit, PassState, NoPass, LedgerInit
  <2> QED
    BY <2>1, <2>2, <2>3, <2>4 DEF BillingTypes
<1>2. UsageSound
  <2>1. Recorded = {} /\ \A t \in Turn : evidence[t] = {} /\ review[t] = "none"
    BY DEF BillingInit, Recorded
  <2> QED
    BY <2>1, FS_EmptySet DEF UsageSound, EvidenceSound, UsageCountedOnce
<1>3. ASSUME NEW t \in Turn PROVE Settled(t)
  <2>1. turn[t].status = "absent" /\ review[t] = "none" /\ outcome[t].row = 0 /\ outcome[t].status = "none"
    BY DEF BillingInit, NoOutcome
  <2>2. resv[t].status = "absent" /\ resv[t].used = 0
    BY BillingAssumption DEF BillingInit, LedgerInit, NoRow
  <2> QED
    BY <2>1, <2>2 DEF Settled, TurnSound, Decides
<1> QED
  BY <1>1, <1>2, <1>3 DEF BillingInv

-----------------------------------------------------------------------------
(***************************************************************************)
(* EvidenceCounts.  A Turn's evidence is a finite set of receipts.         *)
(***************************************************************************)
LEMMA EvidenceCounts ==
  ASSUME BillingInv, NEW t \in Turn
  PROVE  Cardinality(evidence[t]) \in Nat
<1>1. IsFiniteSet(evidence[t])
  BY FS_Subset DEF BillingInv, UsageSound, EvidenceSound
<1> QED
  BY <1>1, FS_CardinalityType

(***************************************************************************)
(* BillingMove.  What a step of Agent billing does to the ledger is a step *)
(* of the ledger under arbitrary callers.                                  *)
(***************************************************************************)
LEMMA BillingMove ==
  ASSUME BillingInv, [BillingNext]_billingVars
  PROVE  [LedgerNext]_ledgerVars
<1>1. Turn \subseteq Reservation /\ ReservedUnits \in Nat /\ ReservationTTL \in Nat /\ Amount \subseteq Nat
  BY BillingAssumption, LedgerAssumption
<1>2. ASSUME NEW r \in Reservation, NEW n \in Nat, Reserve(r, n, FALSE, ReservationTTL), UNCHANGED sweep
      PROVE  LedgerNext
  BY <1>1, <1>2, Zenon DEF LedgerNext, CallerStep
<1>3. ASSUME NEW t \in Turn, NEW used \in Nat, NEW hold \in BOOLEAN,
             Finalize(t, used, hold, FALSE), UNCHANGED sweep
      PROVE  LedgerNext
  BY <1>1, <1>3, Zenon DEF LedgerNext, CallerStep
<1>4. ASSUME NEW t \in Turn, Release(t, FALSE), UNCHANGED sweep PROVE LedgerNext
  BY <1>1, <1>4, Zenon DEF LedgerNext, CallerStep
<1>5. ASSUME NEW t \in Turn, AdmitTurn(t) PROVE LedgerNext
  BY <1>1, <1>2, <1>5, Zenon DEF AdmitTurn
<1>6. ASSUME NEW t \in Turn, SettleTurn(t) PROVE LedgerNext
  <2>1. CASE \E used \in 1..ReservedUnits : Finalize(t, used, FALSE, FALSE)
    <3>1. PICK used \in 1..ReservedUnits : Finalize(t, used, FALSE, FALSE)
      BY <2>1, Zenon
    <3>2. used \in Nat /\ sweep' = sweep
      BY <1>1, <1>6 DEF SettleTurn
    <3> QED
      BY <1>3, <3>1, <3>2, Zenon
  <2>2. CASE Release(t, FALSE)
    BY <1>4, <1>6, <2>2, Zenon DEF SettleTurn
  <2> QED
    BY <1>6, <2>1, <2>2, Zenon DEF SettleTurn
<1>7. ASSUME NEW t \in Turn, OpenReview(t) PROVE LedgerNext
  BY <1>1, <1>7, Zenon DEF OpenReview, LedgerNext, CallerStep
<1>8. ASSUME NEW t \in Turn, ResolveReview(t) PROVE LedgerNext
  BY <1>3, <1>8, EvidenceCounts, Zenon DEF ResolveReview, MeasuredUsage
<1>9. CASE ReconcileNext
  <2>1. PICK t \in pass.page : ReconcileRow(t)
    BY <1>9 DEF ReconcileNext
  <2>2. t \in Turn /\ outcome[t].used \in Nat /\ sweep' = sweep
    BY <1>9 DEF BillingInv, BillingTypes, PassState, OutcomeRow, ReconcileNext
  <2>3. CASE UNCHANGED ledger
    BY <2>2, <2>3 DEF ledger, ledgerVars
  <2>4. CASE Release(t, FALSE)
    BY <1>4, <2>2, <2>4, Zenon
  <2>5. CASE Finalize(t, outcome[t].used, outcome[t].intent = "review", FALSE)
    <3>1. (outcome[t].intent = "review") \in BOOLEAN
      OBVIOUS
    <3> QED
      BY <1>3, <2>2, <2>5, <3>1, Zenon
  <2> QED
    BY <2>1, <2>3, <2>4, <2>5, Zenon DEF ReconcileRow, ReconcilePending
<1>10. ASSUME NEW r \in Reservation \ Turn, ReserveElsewhere(r) PROVE LedgerNext
  BY <1>1, <1>2, <1>10, Zenon DEF ReserveElsewhere
<1>11. CASE SweepStep
  <2>1. Bound \in SUBSET Reservation
    BY <1>1 DEF Bound
  <2> QED
    BY <1>11, <2>1, Zenon DEF SweepStep, LedgerNext
<1>12. CASE BillingTick
  BY <1>12 DEF BillingTick, LedgerNext
<1>13. CASE UNCHANGED ledgerVars
  BY <1>13
<1>14. ASSUME NEW t \in Turn, ClaimTurn(t) \/ CaptureUsage(t) \/ \E e \in Receipt, fence \in 1..turn[t].fence : AppendAttested(e, t, fence)
       PROVE  UNCHANGED ledgerVars
  BY <1>14 DEF ClaimTurn, CaptureUsage, AppendAttested
<1>15. CASE StartPass \/ EndPass \/ AbandonPass \/ UNCHANGED billingVars
  BY <1>15 DEF StartPass, EndPass, AbandonPass, billingVars
<1> QED
  BY <1>5, <1>6, <1>7, <1>8, <1>9, <1>10, <1>11, <1>12, <1>13, <1>14, <1>15, Zenon DEF BillingNext

(***************************************************************************)
(* BillingLedgerStep.  So the ledger's invariant and its decisions stand.  *)
(***************************************************************************)
LEMMA BillingLedgerStep ==
  ASSUME BillingInv, LedgerInv, [BillingNext]_billingVars
  PROVE  /\ LedgerInv'
         /\ \A r \in Reservation : KeepsDecision(r)
<1>1. [LedgerNext]_ledgerVars
  BY BillingMove
<1> QED
  BY <1>1, LedgerStep, DecisionsKept, Zenon

-----------------------------------------------------------------------------
(***************************************************************************)
(* TurnUntouched.  A step that leaves a Turn, its Review and its outcome   *)
(* alone, and at most runs its reservation's clocks, keeps it sound.       *)
(***************************************************************************)
LEMMA TurnUntouched ==
  ASSUME NEW t \in Turn, Settled(t), resv[t] \in Row,
         turn'[t].status = turn[t].status, review'[t] = review[t],
         review[t] = "finalized_held" => evidence'[t] = evidence[t],
         outcome'[t] = outcome[t],
         resv'[t] = resv[t] \/ \E ttl, wait : resv'[t] = [resv[t] EXCEPT !.ttl = ttl, !.wait = wait]
  PROVE  Settled(t)'
<1>1. /\ resv'[t].status = resv[t].status /\ resv'[t].used = resv[t].used
      /\ resv'[t].target = resv[t].target /\ resv'[t].targetUsed = resv[t].targetUsed
      /\ resv'[t].held = resv[t].held /\ resv'[t].tries = resv[t].tries
      /\ resv'[t].reserved = resv[t].reserved
  <2>1. CASE resv'[t] = resv[t]
    BY <2>1
  <2>2. CASE \E ttl, wait : resv'[t] = [resv[t] EXCEPT !.ttl = ttl, !.wait = wait]
    <3>1. PICK ttl, wait : resv'[t] = [resv[t] EXCEPT !.ttl = ttl, !.wait = wait]
      BY <2>2, Zenon
    <3> QED
      BY <3>1, Zenon DEF Row
  <2> QED
    BY <2>1, <2>2, Zenon
<1>2. TurnSound(t)'
  BY <1>1, Zenon DEF Settled, TurnSound
<1>3. (outcome[t].row # 0 => Mirrors(t))'
  <2>1. Version(resv'[t]) = Version(resv[t])
    BY <1>1, Zenon DEF Version
  <2>2. OutcomeStatus(resv'[t]) = OutcomeStatus(resv[t])
    BY <1>1, Zenon DEF OutcomeStatus
  <2>3. Version(resv[t])' = Version(resv'[t]) /\ OutcomeStatus(resv[t])' = OutcomeStatus(resv'[t])
    BY Zenon DEF Version, OutcomeStatus
  <2> QED
    BY <1>1, <2>1, <2>2, <2>3, Zenon DEF Settled, Mirrors
<1>4. Decides(t)'
  BY <1>1, Zenon DEF Settled, Decides, Decided, IntentMatches
<1> QED
  BY <1>2, <1>3, <1>4, Zenon DEF Settled

(***************************************************************************)
(* RowsCounted.  There is a greatest row id among outcomes, or none.       *)
(***************************************************************************)
LEMMA RowsCounted ==
  ASSUME BillingInv, NEW S \in SUBSET Turn
  PROVE  Max(RowsOf(S) \cup {0}) \in Nat
<1> DEFINE R == RowsOf(S) \cup {0}
<1>1. R \subseteq Int /\ R # {} /\ R \subseteq Nat
  BY DEF BillingInv, BillingTypes, OutcomeRow, RowsOf
<1>2. IsFiniteSet(R)
  <2>1. IsFiniteSet(S)
    BY BillingAssumption, LedgerAssumption, FS_Subset
  <2>2. IsFiniteSet(RowsOf(S))
    <3>1. [t \in S |-> outcome[t].row] \in Surjection(S, RowsOf(S))
      BY DEF RowsOf, Surjection
    <3> QED
      BY <2>1, <3>1, FS_Surjection
  <2> QED
    BY <2>2, FS_AddElement
<1> HIDE DEF R
<1>3. Max(R) \in R
  BY <1>1, <1>2, GreatestNumber, Zenon
<1> QED
  BY <1>1, <1>3 DEF R

(***************************************************************************)
(* OutcomePublished.  The outcome row that a settlement writes has a row   *)
(* id and mirrors the reservation after the transaction.                   *)
(***************************************************************************)
LEMMA OutcomePublished ==
  ASSUME BillingInv, NEW t \in Turn, NEW intent \in {"none", "finalize", "release", "review"},
         NEW used \in Nat, resv'[t] \in Row, Publish(t, intent, used)
  PROVE  /\ outcome' \in [Turn -> OutcomeRow]
         /\ \A u \in Turn \ {t} : outcome'[u] = outcome[u]
         /\ outcome'[t].row # 0
         /\ outcome'[t].status = OutcomeStatus(resv'[t])
         /\ outcome'[t].version = Version(resv'[t])
         /\ outcome'[t].used = used
         /\ outcome'[t].intent = intent
<1> DEFINE new == Mirrored(t, intent, used, resv'[t])
<1>1. NextRow \in Nat \ {0}
  <2>1. Max(RowsOf(Turn) \cup {0}) \in Nat
    BY RowsCounted
  <2>2. NextRow = 1 + Max(RowsOf(Turn) \cup {0})
    BY DEF NextRow, RowsOf
  <2> QED
    BY <2>1, <2>2
<1>2. outcome \in [Turn -> OutcomeRow] /\ outcome[t].row \in Nat
  BY DEF BillingInv, BillingTypes, OutcomeRow
<1>3. Version(resv'[t]) \in Nat
  <2> DEFINE row == resv'[t]
  <2>1. row \in Row /\ row.tries \in Nat
    BY DEF Row
  <2> HIDE DEF row
  <2>2. Version(row) \in Nat
    BY <2>1 DEF Version
  <2> QED
    BY <2>2 DEF row
<1>4. OutcomeStatus(resv'[t]) \in {"absent", "reserved", "review_held", "refund_pending"} \cup Terminal
  BY DEF OutcomeStatus, Row
<1>5. /\ new.row \in Nat /\ new.row # 0
      /\ new.intent = intent /\ new.used = used
      /\ new.status = OutcomeStatus(resv'[t]) /\ new.version = Version(resv'[t])
  BY <1>1, <1>2 DEF Mirrored
<1>6. new \in OutcomeRow
  BY <1>1, <1>2, <1>3, <1>4, Zenon DEF Mirrored, OutcomeRow
<1>7. outcome' = [outcome EXCEPT ![t] = new]
  BY DEF Publish
<1> HIDE DEF new
<1> QED
  BY <1>2, <1>5, <1>6, <1>7

-----------------------------------------------------------------------------
Measured == {"metered_held", "finalized_held"}

(***************************************************************************)
(* UsageUntouched.  Usage is counted once as long as neither the journal   *)
(* nor the evidence is written and no Review becomes measured.             *)
(***************************************************************************)
LEMMA UsageUntouched ==
  ASSUME UsageSound, UNCHANGED <<journal, evidence>>,
         \A t \in Turn : review'[t] \in Measured => review[t] \in Measured
  PROVE  UsageSound'
<1>1. Recorded' = Recorded
  BY DEF Recorded
<1>2. EvidenceSound'
  BY <1>1 DEF UsageSound, EvidenceSound
<1>3. UsageCountedOnce'
  <2>1. \A t \in Turn : Reported(t)' = Reported(t)
    BY DEF Reported
  <2>2. \A t \in Turn : review'[t] \in Measured => evidence'[t] = Reported(t)'
    BY <2>1 DEF UsageSound, UsageCountedOnce, Measured
  <2>3. \A t \in Turn : \A u \in Turn \ {t} : evidence'[t] \cap evidence'[u] = {}
    BY DEF UsageSound, UsageCountedOnce
  <2> QED
    BY <2>2, <2>3 DEF UsageCountedOnce, Measured
<1> QED
  BY <1>2, <1>3 DEF UsageSound

(***************************************************************************)
(* ReportCounted.  A receipt is recorded once, and only for a Turn whose   *)
(* usage has not been measured yet.                                        *)
(***************************************************************************)
LEMMA ReportCounted ==
  ASSUME BillingInv, NEW e \in Receipt, NEW t \in Turn, NEW fence, AppendAttested(e, t, fence)
  PROVE  UsageSound'
<1> DEFINE new == [turn |-> t, fence |-> fence]
<1>1. journal \in [Receipt -> ReceiptRow] /\ "none" \notin Turn
  BY BillingAssumption DEF BillingInv, BillingTypes
<1>2. journal' = [journal EXCEPT ![e] = new] /\ journal[e] = NoReceipt /\ UNCHANGED <<evidence, review>>
  BY DEF AppendAttested
<1>3. new.turn = t /\ NoReceipt.turn = "none"
  BY DEF NoReceipt
<1> HIDE DEF new
<1>4. journal'[e] = new /\ \A d \in Receipt \ {e} : journal'[d] = journal[d]
  BY <1>1, <1>2
<1>5. IsFiniteSet(Recorded')
  <2>1. Recorded' \subseteq Recorded \cup {e}
    BY <1>4 DEF Recorded
  <2>2. IsFiniteSet(Recorded \cup {e})
    BY FS_AddElement DEF BillingInv, UsageSound, EvidenceSound
  <2> QED
    BY <2>1, <2>2, FS_Subset, Zenon
<1>6. Recorded \subseteq Recorded'
  BY <1>2, <1>4 DEF Recorded
<1>7. EvidenceSound'
  BY <1>2, <1>5, <1>6, Zenon DEF BillingInv, UsageSound, EvidenceSound
<1>8. review[t] \notin Measured
  <2>1. turn[t].status # "ended" => review[t] = "none"
    BY DEF BillingInv, Settled, TurnSound
  <2> QED
    BY <2>1, Zenon DEF AppendAttested, MayReport, Measured
<1>9. \A u \in Turn \ {t} : Reported(u)' = Reported(u)
  BY <1>1, <1>2, <1>3, <1>4, Zenon DEF Reported
<1>10. \A u \in Turn : review'[u] \in Measured => evidence'[u] = Reported(u)'
  BY <1>2, <1>8, <1>9, Zenon DEF BillingInv, UsageSound, UsageCountedOnce, Measured
<1>11. \A u \in Turn : \A v \in Turn \ {u} : evidence'[u] \cap evidence'[v] = {}
  BY <1>2 DEF BillingInv, UsageSound, UsageCountedOnce
<1>12. UsageCountedOnce'
  BY <1>10, <1>11 DEF UsageCountedOnce, Measured
<1> QED
  BY <1>7, <1>12 DEF UsageSound

(***************************************************************************)
(* CaptureCounted.  A capture freezes all the receipts of its Turn, and    *)
(* none that are evidence already.                                         *)
(***************************************************************************)
LEMMA CaptureCounted ==
  ASSUME BillingInv, NEW t \in Turn, CaptureUsage(t)
  PROVE  UsageSound'
<1>1. evidence \in [Turn -> SUBSET Receipt] /\ review \in [Turn -> ReviewState] /\ "none" \notin Turn
  BY BillingAssumption DEF BillingInv, BillingTypes
<1>2. /\ evidence'[t] = Reported(t) /\ \A u \in Turn \ {t} : evidence'[u] = evidence[u]
      /\ \A u \in Turn \ {t} : review'[u] = review[u]
      /\ journal' = journal
  BY <1>1 DEF CaptureUsage
<1>3. Recorded' = Recorded /\ \A u \in Turn : Reported(u)' = Reported(u)
  BY <1>2 DEF Recorded, Reported
<1>4. Reported(t) \subseteq Recorded
  BY <1>1 DEF Reported, Recorded, NoReceipt
<1>5. EvidenceSound'
  BY <1>2, <1>3, <1>4, Zenon DEF BillingInv, UsageSound, EvidenceSound
<1>6. \A u \in Turn : review'[u] \in Measured => evidence'[u] = Reported(u)'
  BY <1>2, <1>3 DEF BillingInv, UsageSound, UsageCountedOnce, Measured
<1>7. \A u \in Turn : Reported(t) \cap evidence[u] = {}
  BY Zenon DEF CaptureUsage
<1>8. ASSUME NEW u \in Turn, NEW v \in Turn \ {u} PROVE evidence'[u] \cap evidence'[v] = {}
  <2>1. CASE u = t
    BY <1>2, <1>7, <2>1, Zenon
  <2>2. CASE v = t
    BY <1>2, <1>7, <2>2, Zenon
  <2>3. CASE u # t /\ v # t
    BY <1>2, <2>3, Zenon DEF BillingInv, UsageSound, UsageCountedOnce
  <2> QED
    BY <2>1, <2>2, <2>3, Zenon
<1>9. UsageCountedOnce'
  BY <1>6, <1>8, Zenon DEF UsageCountedOnce, Measured
<1> QED
  BY <1>5, <1>9 DEF UsageSound

-----------------------------------------------------------------------------
(***************************************************************************)
(* SettledNow.  The transaction that decides on a Turn's Credits leaves    *)
(* the Turn ended and its outcome row like its reservation.                *)
(***************************************************************************)
LEMMA SettledNow ==
  ASSUME BillingInv, NEW t \in Turn, NEW target \in Terminal, NEW used \in Nat,
         NEW intent \in {"none", "finalize", "release", "review"},
         resv'[t] \in Row, Decided(resv'[t], target, used), Publish(t, intent, used),
         turn'[t].status = "ended",
         \/ review'[t] = "none"
         \/ review'[t] = "finalized_held" /\ target = "finalized" /\ used = Cardinality(evidence'[t])
  PROVE  Settled(t)'
<1>1. /\ outcome'[t].row # 0
      /\ outcome'[t].status = OutcomeStatus(resv'[t])
      /\ outcome'[t].version = Version(resv'[t])
      /\ outcome'[t].used = used
  BY OutcomePublished, Zenon
<1>2. \/ resv'[t].status = target /\ resv'[t].used = used
      \/ resv'[t].status = "refund_pending" /\ resv'[t].targetUsed = used
  BY Zenon DEF Decided, IntentMatches
<1>3. TurnSound(t)'
  BY <1>1, <1>2, Zenon DEF TurnSound, Terminal
<1>4. Mirrors(t)'
  <2>1. Version(resv[t])' = Version(resv'[t]) /\ OutcomeStatus(resv[t])' = OutcomeStatus(resv'[t])
    BY Zenon DEF Version, OutcomeStatus
  <2>2. used = IF resv'[t].status = "refund_pending" THEN resv'[t].targetUsed ELSE resv'[t].used
    BY <1>2, Zenon DEF Terminal
  <2> QED
    BY <1>1, <2>1, <2>2, Zenon DEF Mirrors
<1>5. Decides(t)'
  BY DEF Decides, Decided, IntentMatches
<1> QED
  BY <1>3, <1>4, <1>5, Zenon DEF Settled

(***************************************************************************)
(* AdmitSound.  Admission binds a fresh reservation to a new Turn.         *)
(***************************************************************************)
LEMMA AdmitSound ==
  ASSUME BillingInv, LedgerInv, NEW t \in Turn, AdmitTurn(t)
  PROVE  BillingInv'
<1>1. BillingTypes /\ UsageSound /\ \A u \in Turn : Settled(u)
  BY DEF BillingInv
<1>2. resv \in [Reservation -> Row] /\ Turn \subseteq Reservation
  BY BillingAssumption DEF LedgerInv
<1>3. UNCHANGED <<sweep, review, journal, evidence, outcome, pass>>
  BY DEF AdmitTurn
<1>4. turn' \in [Turn -> TurnRow] /\ turn'[t].status = "queued" /\ \A u \in Turn \ {t} : turn'[u] = turn[u]
  BY <1>1, Zenon DEF AdmitTurn, BillingTypes, TurnRow
<1>5. BillingTypes'
  BY <1>1, <1>3, <1>4 DEF BillingTypes
<1>6. UsageSound'
  BY <1>1, <1>3, UsageUntouched, Zenon
<1>7. PICK new : resv' = [resv EXCEPT ![t] = new] /\ new = NewRow(ReservedUnits, FALSE, ReservationTTL)
  BY Zenon DEF AdmitTurn, Reserve
<1>8. new.status = "reserved" /\ new.used = 0
  BY <1>7 DEF NewRow, NoRow
<1>9. resv'[t] = new /\ \A u \in Turn \ {t} : resv'[u] = resv[u]
  BY <1>2, <1>7, Zenon
<1>10. Settled(t)'
  <2>1. turn[t].status = "absent"
    BY Zenon DEF AdmitTurn
  <2>2. outcome[t].row = 0 /\ outcome[t].status = "none" /\ review[t] = "none"
    BY <1>1, <2>1 DEF Settled, TurnSound
  <2>3. resv'[t].status = "reserved" /\ resv'[t].used = 0
    BY <1>8, <1>9, Zenon
  <2>4. outcome'[t].row = 0 /\ outcome'[t].status = "none" /\ review'[t] = "none"
    BY <1>3, <2>2
  <2> QED
    BY <1>4, <2>3, <2>4, Zenon DEF Settled, TurnSound, Decides
<1>11. ASSUME NEW u \in Turn \ {t} PROVE Settled(u)'
  BY <1>1, <1>2, <1>3, <1>4, <1>9, TurnUntouched, Zenon
<1> QED
  BY <1>5, <1>6, <1>10, <1>11, Zenon DEF BillingInv

(***************************************************************************)
(* ClaimSound.  A claim changes the Turn's epoch, nothing of its billing.  *)
(***************************************************************************)
LEMMA ClaimSound ==
  ASSUME BillingInv, LedgerInv, NEW t \in Turn, ClaimTurn(t)
  PROVE  BillingInv'
<1>1. BillingTypes /\ UsageSound /\ \A u \in Turn : Settled(u)
  BY DEF BillingInv
<1>2. UNCHANGED <<resv, sweep, review, journal, evidence, outcome, pass>>
  BY DEF ClaimTurn, ledgerVars
<1>3. turn' \in [Turn -> TurnRow] /\ turn'[t].status = "running" /\ \A u \in Turn \ {t} : turn'[u] = turn[u]
  <2> DEFINE n == turn[t].fence + 1
             new == [turn[t] EXCEPT !.status = "running", !.fence = n]
  <2>1. turn[t] \in TurnRow /\ turn \in [Turn -> TurnRow]
    BY <1>1, Zenon DEF BillingTypes
  <2>2. n \in Nat
    BY <2>1 DEF TurnRow
  <2>3. turn' = [turn EXCEPT ![t] = new]
    BY <2>1, Zenon DEF ClaimTurn
  <2> HIDE DEF n
  <2>4. new \in TurnRow /\ new.status = "running"
    BY <2>1, <2>2, Zenon DEF TurnRow
  <2> HIDE DEF new
  <2> QED
    BY <2>1, <2>3, <2>4, Zenon
<1>4. BillingTypes'
  BY <1>1, <1>2, <1>3, Zenon DEF BillingTypes
<1>5. UsageSound'
  BY <1>1, <1>2, UsageUntouched, Zenon
<1>6. \A u \in Turn : resv[u] \in Row
  BY BillingAssumption DEF LedgerInv
<1>7. ASSUME NEW u \in Turn \ {t} PROVE Settled(u)'
  BY <1>1, <1>2, <1>3, <1>6, TurnUntouched, Zenon
<1>8. Settled(t)'
  <2>1. turn[t].status \in {"queued", "running"}
    BY DEF ClaimTurn
  <2>2. Settled(t)
    BY <1>1, Zenon
  <2>3. TurnSound(t)'
    BY <1>2, <1>3, <2>1, <2>2, Zenon DEF Settled, TurnSound
  <2>4. Mirrors(t)' = Mirrors(t) /\ Decides(t)' = Decides(t) /\ outcome'[t].row = outcome[t].row
    BY <1>2, Zenon DEF Mirrors, Decides, Version, OutcomeStatus, Decided, IntentMatches
  <2> QED
    BY <2>2, <2>3, <2>4, Zenon DEF Settled
<1> QED
  BY <1>4, <1>5, <1>7, <1>8, Zenon DEF BillingInv

(***************************************************************************)
(* Deciding.  A transaction on one Turn that ends it, or finds it ended,   *)
(* and publishes its outcome: what it must leave alone, and what it must   *)
(* leave behind.                                                           *)
(***************************************************************************)
LEMMA Deciding ==
  ASSUME BillingInv, LedgerInv, LedgerInv', NEW t \in Turn,
         NEW intent \in {"none", "finalize", "release", "review"}, NEW used \in Nat,
         Publish(t, intent, used), Settled(t)',
         turn' \in [Turn -> TurnRow], review' \in [Turn -> ReviewState], pass' \in PassState,
         \A u \in Turn \ {t} : turn'[u] = turn[u] /\ review'[u] = review[u] /\ resv'[u] = resv[u],
         review'[t] \in Measured => review[t] \in Measured,
         UNCHANGED <<sweep, journal, evidence>>
  PROVE  BillingInv'
<1>1. BillingTypes /\ UsageSound /\ \A u \in Turn : Settled(u)
  BY DEF BillingInv
<1>2. \A u \in Turn : resv[u] \in Row /\ resv'[u] \in Row
  BY BillingAssumption, Zenon DEF LedgerInv
<1>3. outcome' \in [Turn -> OutcomeRow] /\ \A u \in Turn \ {t} : outcome'[u] = outcome[u]
  BY <1>2, OutcomePublished, Zenon
<1>4. BillingTypes'
  BY <1>1, <1>3, Zenon DEF BillingTypes
<1>5. UsageSound'
  <2>1. \A u \in Turn : review'[u] \in Measured => review[u] \in Measured
    OBVIOUS
  <2> QED
    BY <1>1, <2>1, UsageUntouched, Zenon
<1>6. ASSUME NEW u \in Turn \ {t} PROVE Settled(u)'
  BY <1>1, <1>2, <1>3, TurnUntouched, Zenon
<1> QED
  BY <1>4, <1>5, <1>6, Zenon DEF BillingInv

(***************************************************************************)
(* SettleTurnSound.  A Turn that ends without a Review is settled with its *)
(* own transaction.                                                        *)
(***************************************************************************)
LEMMA SettleTurnSound ==
  ASSUME BillingInv, LedgerInv, LedgerInv', NEW t \in Turn, SettleTurn(t)
  PROVE  BillingInv'
<1>1. BillingTypes /\ Settled(t)
  BY DEF BillingInv
<1>2. resv' \in [Reservation -> Row] /\ Turn \subseteq Reservation /\ resv[t].reserved \in Nat
  BY BillingAssumption, Zenon DEF LedgerInv, Row
<1>3. UNCHANGED <<sweep, review, journal, evidence, pass>>
  BY DEF SettleTurn
<1>4. turn' \in [Turn -> TurnRow] /\ turn'[t].status = "ended" /\ \A u \in Turn \ {t} : turn'[u] = turn[u]
  BY <1>1, Zenon DEF SettleTurn, BillingTypes, TurnRow
<1>5. review[t] = "none" /\ resv[t].status = "reserved"
  BY <1>1 DEF SettleTurn, Settled, TurnSound
<1>6. PICK target \in Terminal, used \in Nat, intent \in {"finalize", "release"} :
        used <= resv[t].reserved /\ Settle(t, target, used) /\ Publish(t, intent, used)
  <2>1. CASE \E used \in 1..ReservedUnits : Finalize(t, used, FALSE, FALSE) /\ Publish(t, "finalize", used)
    <3>1. PICK used \in 1..ReservedUnits : Finalize(t, used, FALSE, FALSE) /\ Publish(t, "finalize", used)
      BY <2>1, Zenon
    <3>2. used \in Nat /\ "finalized" \in Terminal
      BY BillingAssumption DEF Terminal
    <3>3. used <= resv[t].reserved /\ Settle(t, "finalized", used)
      BY <3>1 DEF Finalize, FinalizeAccepts
    <3> QED
      BY <3>1, <3>2, <3>3
  <2>2. CASE Release(t, FALSE) /\ Publish(t, "release", 0)
    <3>1. Settle(t, "released", 0) /\ 0 <= resv[t].reserved /\ "released" \in Terminal
      BY <1>2, <2>2 DEF Release, Terminal
    <3> QED
      BY <2>2, <3>1, Zenon
  <2> QED
    BY <2>1, <2>2, Zenon DEF SettleTurn
<1>7. Decided(resv'[t], target, used) /\ \A r \in Reservation \ {t} : resv'[r] = resv[r]
  BY <1>2, <1>5, <1>6, SettleDecides, Zenon
<1>8. Settled(t)'
  BY <1>2, <1>3, <1>4, <1>5, <1>6, <1>7, SettledNow, Zenon
<1>9. /\ review' \in [Turn -> ReviewState] /\ pass' \in PassState
      /\ \A u \in Turn \ {t} : turn'[u] = turn[u] /\ review'[u] = review[u] /\ resv'[u] = resv[u]
  BY <1>1, <1>2, <1>3, <1>4, <1>7, Zenon DEF BillingTypes
<1> QED
  BY <1>3, <1>4, <1>6, <1>8, <1>9, Deciding, Zenon

(***************************************************************************)
(* OpenReviewSound.  A Turn that ends in a Review has its Credits frozen,  *)
(* uncharged.                                                              *)
(***************************************************************************)
LEMMA OpenReviewSound ==
  ASSUME BillingInv, LedgerInv, LedgerInv', NEW t \in Turn, OpenReview(t)
  PROVE  BillingInv'
<1>1. BillingTypes /\ Settled(t)
  BY DEF BillingInv
<1>2. resv \in [Reservation -> Row] /\ resv' \in [Reservation -> Row] /\ Turn \subseteq Reservation
  BY BillingAssumption DEF LedgerInv
<1>3. UNCHANGED <<sweep, journal, evidence, pass>> /\ Publish(t, "review", 0)
  BY DEF OpenReview
<1>4. turn' \in [Turn -> TurnRow] /\ turn'[t].status = "ended" /\ \A u \in Turn \ {t} : turn'[u] = turn[u]
  BY <1>1, Zenon DEF OpenReview, BillingTypes, TurnRow
<1>5. /\ review' \in [Turn -> ReviewState] /\ review'[t] = "pending_usage"
      /\ \A u \in Turn \ {t} : review'[u] = review[u]
  BY <1>1 DEF OpenReview, BillingTypes, ReviewState
<1>6. resv'[t].status = "review_hold" /\ resv'[t].used = 0 /\ \A u \in Turn \ {t} : resv'[u] = resv[u]
  <2> DEFINE row == [resv[t] EXCEPT !.status = "review_hold", !.held = TRUE]
  <2>1. resv[t].used = 0 /\ resv[t] \in Row
    BY <1>1, <1>2 DEF OpenReview, HoldForReview, Settled, TurnSound
  <2>2. row.status = "review_hold" /\ row.used = 0
    BY <2>1 DEF Row
  <2>3. resv' = [resv EXCEPT ![t] = row]
    BY <1>2, Zenon DEF OpenReview, HoldForReview
  <2> HIDE DEF row
  <2> QED
    BY <1>2, <2>2, <2>3
<1>7. Settled(t)'
  <2>1. /\ outcome'[t].row # 0 /\ outcome'[t].used = 0
        /\ outcome'[t].status = OutcomeStatus(resv'[t])
        /\ outcome'[t].version = Version(resv'[t])
    BY <1>2, <1>3, OutcomePublished, Zenon
  <2>2. Version(resv[t])' = Version(resv'[t]) /\ OutcomeStatus(resv[t])' = OutcomeStatus(resv'[t])
    BY Zenon DEF Version, OutcomeStatus
  <2>3. Mirrors(t)'
    BY <1>6, <2>1, <2>2, Zenon DEF Mirrors
  <2>4. TurnSound(t)' /\ Decides(t)'
    BY <1>4, <1>5, <1>6, <2>1, Zenon DEF TurnSound, Decides
  <2> QED
    BY <2>3, <2>4, Zenon DEF Settled
<1>8. pass' \in PassState /\ (review'[t] \in Measured => review[t] \in Measured)
      /\ \A u \in Turn \ {t} : turn'[u] = turn[u] /\ review'[u] = review[u] /\ resv'[u] = resv[u]
  BY <1>1, <1>3, <1>4, <1>5, <1>6, Zenon DEF BillingTypes, Measured
<1> QED
  BY <1>3, <1>4, <1>5, <1>7, <1>8, Deciding, Zenon

(***************************************************************************)
(* UsageStepsSound.  Recording a receipt and capturing the evidence touch  *)
(* no reservation; the capture leaves the Credits frozen.                  *)
(***************************************************************************)
LEMMA UsageStepsSound ==
  ASSUME BillingInv, LedgerInv, NEW t \in Turn,
         CaptureUsage(t) \/ \E e \in Receipt, fence \in 1..turn[t].fence : AppendAttested(e, t, fence)
  PROVE  BillingInv'
<1>1. BillingTypes /\ \A u \in Turn : Settled(u)
  BY DEF BillingInv
<1>2. \A u \in Turn : resv[u] \in Row
  BY BillingAssumption DEF LedgerInv
<1>3. UNCHANGED <<resv, sweep, turn, outcome, pass>>
  BY DEF CaptureUsage, AppendAttested, ledgerVars
<1>4. CASE CaptureUsage(t)
  <2>1. evidence' \in [Turn -> SUBSET Receipt] /\ \A u \in Turn \ {t} : evidence'[u] = evidence[u]
    <3>1. Reported(t) \subseteq Receipt
      BY DEF Reported
    <3> QED
      BY <1>1, <1>4, <3>1 DEF CaptureUsage, BillingTypes
  <2>2. /\ review' \in [Turn -> ReviewState] /\ review'[t] = "metered_held" /\ journal' = journal
        /\ \A u \in Turn \ {t} : review'[u] = review[u]
    BY <1>1, <1>4 DEF CaptureUsage, BillingTypes, ReviewState
  <2>3. BillingTypes'
    BY <1>1, <1>3, <2>1, <2>2, Zenon DEF BillingTypes
  <2>4. UsageSound'
    BY <1>4, CaptureCounted
  <2>5. ASSUME NEW u \in Turn \ {t} PROVE Settled(u)'
    BY <1>1, <1>2, <1>3, <2>1, <2>2, TurnUntouched, Zenon
  <2>6. Settled(t)'
    <3>1. review[t] = "pending_usage" /\ Settled(t)
      BY <1>1, <1>4, Zenon DEF CaptureUsage
    <3>2. TurnSound(t)' /\ Decides(t)'
      BY <1>3, <2>2, <3>1, Zenon DEF Settled, TurnSound, Decides
    <3>3. Mirrors(t)' = Mirrors(t) /\ outcome'[t].row = outcome[t].row
      BY <1>3 DEF Mirrors, Version, OutcomeStatus
    <3> QED
      BY <3>1, <3>2, <3>3, Zenon DEF Settled
  <2> QED
    BY <2>3, <2>4, <2>5, <2>6, Zenon DEF BillingInv
<1>5. ASSUME NEW e \in Receipt, NEW fence \in 1..turn[t].fence, AppendAttested(e, t, fence)
      PROVE  BillingInv'
  <2> DEFINE new == [turn |-> t, fence |-> fence]
  <2>1. fence \in Nat
    BY <1>1 DEF BillingTypes, TurnRow
  <2>2. new \in ReceiptRow
    BY <2>1 DEF ReceiptRow
  <2>3. journal' = [journal EXCEPT ![e] = new] /\ UNCHANGED <<review, evidence>>
    BY <1>5 DEF AppendAttested
  <2> HIDE DEF new
  <2>4. BillingTypes'
    BY <1>1, <1>3, <2>2, <2>3, Zenon DEF BillingTypes
  <2>5. UsageSound'
    BY <1>5, ReportCounted
  <2>6. ASSUME NEW u \in Turn PROVE Settled(u)'
    BY <1>1, <1>2, <1>3, <2>3, TurnUntouched, Zenon
  <2> QED
    BY <2>4, <2>5, <2>6 DEF BillingInv
<1> QED
  BY <1>4, <1>5

(***************************************************************************)
(* ResolveSound.  The resolution charges what the evidence measured.       *)
(***************************************************************************)
LEMMA ResolveSound ==
  ASSUME BillingInv, LedgerInv, LedgerInv', NEW t \in Turn, ResolveReview(t)
  PROVE  BillingInv'
<1> DEFINE used == MeasuredUsage(t)
<1>1. BillingTypes /\ Settled(t)
  BY DEF BillingInv
<1>2. resv' \in [Reservation -> Row] /\ Turn \subseteq Reservation
  BY BillingAssumption DEF LedgerInv
<1>3. UNCHANGED <<sweep, turn, journal, evidence, pass>> /\ Publish(t, "review", used)
  BY DEF ResolveReview
<1>4. used \in Nat /\ used = Cardinality(evidence'[t]) /\ "finalized" \in Terminal
  BY <1>3, EvidenceCounts DEF MeasuredUsage, Terminal
<1>5. /\ review' \in [Turn -> ReviewState] /\ review'[t] = "finalized_held"
      /\ review[t] = "metered_held"
      /\ \A u \in Turn \ {t} : review'[u] = review[u]
  BY <1>1, Zenon DEF ResolveReview, BillingTypes, ReviewState
<1>6. turn[t].status = "ended" /\ resv[t].status = "review_hold"
  <2>1. turn[t].status \in {"absent", "queued", "running", "ended"}
    BY <1>1, Zenon DEF BillingTypes, TurnRow
  <2> QED
    BY <1>1, <1>5, <2>1 DEF Settled, TurnSound, Decides
<1>7. used <= resv[t].reserved /\ Settle(t, "finalized", used)
  BY Zenon DEF ResolveReview, Finalize, FinalizeAccepts
<1> HIDE DEF used
<1>8. Decided(resv'[t], "finalized", used) /\ \A r \in Reservation \ {t} : resv'[r] = resv[r]
  BY <1>2, <1>4, <1>6, <1>7, SettleDecides, Zenon
<1>9. Settled(t)'
  BY <1>2, <1>3, <1>4, <1>5, <1>6, <1>8, SettledNow, Zenon
<1>10. pass' \in PassState /\ turn' \in [Turn -> TurnRow] /\ review[t] \in Measured
       /\ \A u \in Turn \ {t} : turn'[u] = turn[u] /\ review'[u] = review[u] /\ resv'[u] = resv[u]
  BY <1>1, <1>2, <1>3, <1>5, <1>8, Zenon DEF BillingTypes, Measured
<1> QED
  BY <1>3, <1>4, <1>5, <1>9, <1>10, Deciding, Zenon

(***************************************************************************)
(* ReconcileSound.  The reconciler carries out the decision of the row it  *)
(* tries, which is the one its outcome has frozen.                         *)
(***************************************************************************)
LEMMA ReconcileSound ==
  ASSUME BillingInv, LedgerInv, LedgerInv', ReconcileNext
  PROVE  BillingInv'
<1>1. BillingTypes /\ UsageSound /\ \A u \in Turn : Settled(u)
  BY DEF BillingInv
<1>2. /\ resv \in [Reservation -> Row] /\ resv' \in [Reservation -> Row] /\ Turn \subseteq Reservation
      /\ \A r \in Reservation : RowSound(resv[r])
  BY BillingAssumption DEF LedgerInv
<1>3. UNCHANGED <<sweep, turn, review, journal, evidence>>
  BY DEF ReconcileNext
<1>4. PICK t \in pass.page : ReconcileRow(t)
  BY DEF ReconcileNext
<1>5. t \in Turn
  BY <1>1 DEF BillingTypes, PassState
<1>6. pass' \in PassState
  <2> DEFINE row == outcome[t].row
             page == pass.page \ {t}
  <2>1. row \in Nat /\ page \in SUBSET Turn /\ pass \in PassState
    BY <1>1, <1>5 DEF BillingTypes, OutcomeRow, PassState
  <2>2. pass' = [pass EXCEPT !.row = row, !.page = page]
    BY <1>4, <2>1 DEF ReconcileRow, PassState
  <2> HIDE DEF row, page
  <2> QED
    BY <2>1, <2>2, Zenon DEF PassState
<1>7. CASE UNCHANGED <<ledger, outcome>>
  <2>1. BillingTypes'
    BY <1>1, <1>3, <1>6, <1>7, Zenon DEF BillingTypes
  <2>2. UsageSound'
    BY <1>1, <1>3, UsageUntouched, Zenon
  <2>3. ASSUME NEW u \in Turn PROVE Settled(u)'
    <3>1. resv'[u] = resv[u] /\ resv[u] \in Row
      BY <1>2, <1>7, Zenon DEF ledger
    <3> QED
      BY <1>1, <1>3, <1>7, <3>1, TurnUntouched, Zenon
  <2> QED
    BY <2>1, <2>2, <2>3, Zenon DEF BillingInv
<1>8. ASSUME outcome[t].status = "refund_pending", NEW target \in {"finalized", "released"},
             NEW used \in Nat, used <= resv[t].reserved, Settle(t, target, used),
             Publish(t, outcome[t].intent, outcome[t].used)
      PROVE  BillingInv'
  <2> DEFINE row == resv[t]
  <2>1. outcome[t] \in OutcomeRow /\ Settled(t) /\ row \in Row /\ RowSound(row) /\ target \in Terminal
    BY <1>1, <1>2, <1>5, Zenon DEF BillingTypes, Terminal
  <2>2. outcome[t].row # 0 /\ Mirrors(t)
    BY <1>8, <2>1, Zenon DEF Settled, TurnSound
  <2>3. row.status = "refund_pending" /\ outcome[t].used = row.targetUsed
    BY <1>8, <2>2, Zenon DEF Mirrors, OutcomeStatus
  <2>4. /\ Decided(resv'[t], row.target, row.targetUsed)
        /\ \A r \in Reservation \ {t} : resv'[r] = resv[r]
    BY <1>2, <1>5, <1>8, <2>1, <2>3, SettleDecides, Zenon
  <2>5. row.target \in Terminal /\ row.targetUsed \in Nat
        /\ outcome[t].intent \in {"none", "finalize", "release", "review"}
    BY <2>1, <2>3, Zenon DEF RowSound, Row, OutcomeRow
  <2>6. turn'[t].status = "ended"
    BY <1>3, <2>1, <2>2, Zenon DEF Settled, TurnSound
  <2>7. \/ review'[t] = "none"
        \/ /\ review'[t] = "finalized_held" /\ row.target = "finalized"
           /\ row.targetUsed = Cardinality(evidence'[t])
    <3>1. review[t] \in ReviewState
      BY <1>1, <1>5, Zenon DEF BillingTypes
    <3>2. review[t] \notin {"pending_usage", "metered_held"}
      BY <2>1, <2>3, Zenon DEF Settled, Decides
    <3>3. review[t] = "finalized_held" => row.target = "finalized" /\ row.targetUsed = Cardinality(evidence[t])
      BY <2>1, <2>3, Zenon DEF Settled, Decides, Decided, IntentMatches
    <3> QED
      BY <1>3, <3>1, <3>2, <3>3, Zenon DEF ReviewState
  <2>8. Publish(t, outcome[t].intent, row.targetUsed)
    BY <1>8, <2>3, Zenon
  <2>9. Settled(t)'
    BY <1>2, <1>5, <2>4, <2>5, <2>6, <2>7, <2>8, SettledNow, Zenon
  <2>10. /\ turn' \in [Turn -> TurnRow] /\ review' \in [Turn -> ReviewState]
         /\ \A u \in Turn \ {t} : turn'[u] = turn[u] /\ review'[u] = review[u] /\ resv'[u] = resv[u]
    BY <1>1, <1>2, <1>3, <2>4, Zenon DEF BillingTypes
  <2> QED
    BY <1>3, <1>5, <1>6, <2>5, <2>8, <2>9, <2>10, Deciding, Zenon
<1>9. resv[t].reserved \in Nat /\ outcome[t].used \in Nat
  BY <1>1, <1>2, <1>5, Zenon DEF Row, BillingTypes, OutcomeRow
<1>10. CASE /\ outcome[t].status = "refund_pending" /\ Release(t, FALSE)
            /\ Publish(t, outcome[t].intent, outcome[t].used)
  <2>1. Settle(t, "released", 0) /\ 0 <= resv[t].reserved
    BY <1>9, <1>10 DEF Release
  <2> QED
    BY <1>8, <1>10, <2>1
<1>11. CASE /\ outcome[t].status = "refund_pending"
            /\ Finalize(t, outcome[t].used, outcome[t].intent = "review", FALSE)
            /\ Publish(t, outcome[t].intent, outcome[t].used)
  <2>1. Settle(t, "finalized", outcome[t].used) /\ outcome[t].used <= resv[t].reserved
    BY <1>11 DEF Finalize, FinalizeAccepts
  <2> QED
    BY <1>8, <1>9, <1>11, <2>1, Zenon
<1> QED
  BY <1>4, <1>7, <1>10, <1>11, Zenon DEF ReconcileRow, ReconcilePending

-----------------------------------------------------------------------------
(***************************************************************************)
(* BillingUntouched.  A step of the reconciler's cursor, of the sweeper or *)
(* of time, that changes nothing a Turn can see.                           *)
(***************************************************************************)
LEMMA BillingUntouched ==
  ASSUME BillingInv, LedgerInv, UNCHANGED billing, pass' \in PassState,
         sweep' \in Seq(Reservation \ Turn),
         \A u \in Turn : \/ resv'[u] = resv[u]
                         \/ \E ttl, wait : resv'[u] = [resv[u] EXCEPT !.ttl = ttl, !.wait = wait]
  PROVE  BillingInv'
<1>1. BillingTypes /\ UsageSound /\ \A u \in Turn : Settled(u)
  BY Zenon DEF BillingInv
<1>2. UNCHANGED <<turn, review, journal, evidence, outcome>>
  BY Zenon DEF billing
<1>3. BillingTypes'
  BY <1>1, <1>2, Zenon DEF BillingTypes
<1>4. UsageSound'
  BY <1>1, <1>2, UsageUntouched, Zenon
<1>5. ASSUME NEW u \in Turn PROVE Settled(u)'
  <2>1. resv[u] \in Row
    BY BillingAssumption, Zenon DEF LedgerInv
  <2>2. turn'[u] = turn[u] /\ review'[u] = review[u] /\ evidence'[u] = evidence[u] /\ outcome'[u] = outcome[u]
    BY <1>2, Zenon
  <2>3. \/ resv'[u] = resv[u]
        \/ \E ttl, wait : resv'[u] = [resv[u] EXCEPT !.ttl = ttl, !.wait = wait]
    BY Zenon
  <2> QED
    BY <1>1, <2>1, <2>2, <2>3, TurnUntouched, Zenon
<1> QED
  BY <1>3, <1>4, <1>5, Zenon DEF BillingInv

(***************************************************************************)
(* PassSound.  Starting, ending or abandoning a pass moves only the cursor.*)
(***************************************************************************)
LEMMA PassSound ==
  ASSUME BillingInv, LedgerInv, StartPass \/ EndPass \/ AbandonPass
  PROVE  BillingInv'
<1>1. pass \in PassState /\ sweep \in Seq(Reservation \ Turn)
  BY DEF BillingInv, BillingTypes
<1>2. UNCHANGED <<billing, sweep, resv>>
  BY Zenon DEF StartPass, EndPass, AbandonPass, ledgerVars
<1>3. CASE StartPass
  <2> DEFINE high == IF pass.high = 0 THEN Max(RowsOf(DuePending) \cup {0}) ELSE pass.high
             from == IF pass.high = 0 /\ pass.row >= high THEN 0 ELSE pass.row
             page == FirstRows({t \in DuePending : from < outcome[t].row /\ outcome[t].row <= high})
             done == \/ Cardinality(page) < PassLimit
                     \/ \E t \in page : outcome[t].row >= high
  <2>1. high \in Nat
    <3>1. DuePending \in SUBSET Turn
      BY DEF DuePending
    <3>2. Max(RowsOf(DuePending) \cup {0}) \in Nat
      BY <3>1, RowsCounted
    <3> QED
      BY <1>1, <3>2, Zenon DEF PassState
  <2>2. from \in Nat
    BY <1>1, Zenon DEF PassState
  <2>3. page \in SUBSET Turn
    BY DEF FirstRows, DuePending
  <2>4. done \in BOOLEAN
    OBVIOUS
  <2>5. pass' = [at |-> "page", row |-> from, high |-> high, page |-> page, exhausted |-> done]
    BY <1>3, Zenon DEF StartPass
  <2> HIDE DEF high, from, page, done
  <2>6. pass' \in PassState
    BY <2>1, <2>2, <2>3, <2>4, <2>5, Zenon DEF PassState
  <2> QED
    BY <1>1, <1>2, <2>6, BillingUntouched, Zenon
<1>4. CASE EndPass \/ AbandonPass
  <2> DEFINE left == [NoPass EXCEPT !.row = pass.row, !.high = pass.high]
  <2>1. NoPass \in PassState /\ left \in PassState
    BY <1>1, Zenon DEF NoPass, PassState
  <2> HIDE DEF left
  <2>2. pass' \in PassState
    <3>1. pass' = NoPass \/ pass' = left
      BY <1>4 DEF EndPass, AbandonPass, left
    <3> QED
      BY <2>1, <3>1
  <2> QED
    BY <1>1, <1>2, <2>2, BillingUntouched
<1> QED
  BY <1>3, <1>4

(***************************************************************************)
(* ElsewhereSound.  Another caller's reservation is not a Turn's.          *)
(***************************************************************************)
LEMMA ElsewhereSound ==
  ASSUME BillingInv, LedgerInv, NEW r \in Reservation \ Turn, ReserveElsewhere(r)
  PROVE  BillingInv'
<1>1. pass' \in PassState /\ sweep' \in Seq(Reservation \ Turn) /\ UNCHANGED billing
  BY DEF ReserveElsewhere, BillingInv, BillingTypes
<1>2. ASSUME NEW u \in Turn PROVE resv'[u] = resv[u]
  <2>1. PICK new : resv' = [resv EXCEPT ![r] = new]
    BY Zenon DEF ReserveElsewhere, Reserve
  <2> QED
    BY <2>1, BillingAssumption DEF LedgerInv
<1> QED
  BY <1>1, <1>2, BillingUntouched, Zenon

(***************************************************************************)
(* SweepStepSound.  The generic sweeper never selects a bound reservation, *)
(* and a Turn without one has no row to select.                            *)
(***************************************************************************)
LEMMA SweepStepSound ==
  ASSUME BillingInv, LedgerInv, SweepStep
  PROVE  BillingInv'
<1>1. pass' \in PassState /\ sweep \in Seq(Reservation \ Turn) /\ UNCHANGED billing
  BY DEF SweepStep, BillingInv, BillingTypes
<1>2. CASE ScanReservations(Bound)
  <2> DEFINE C == Candidates(Bound)
             n == Cardinality(C)
  <2>1. C \in SUBSET Reservation
    BY DEF Candidates
  <2>2. ASSUME NEW t \in C, t \in Turn PROVE FALSE
    <3>1. resv[t].status # "absent"
      BY DEF Candidates, Abandoned, RefundDue
    <3>2. turn[t].status # "absent"
      BY <2>2, <3>1, Zenon DEF BillingInv, Settled, TurnSound
    <3> QED
      BY <2>2, <3>2, Zenon DEF Candidates, Bound
  <2>3. n \in Nat
    BY <2>1, LedgerAssumption, FS_Subset, FS_CardinalityType, Zenon
  <2>4. sweep' \in [1..n -> C]
    BY <1>2 DEF ScanReservations, Bijection, Injection, Surjection
  <2> HIDE DEF n, C
  <2>5. C \subseteq Reservation \ Turn
    BY <2>1, <2>2
  <2>6. sweep' \in Seq(Reservation \ Turn)
    BY <2>3, <2>4, <2>5
  <2>7. resv' = resv
    BY <1>2 DEF ScanReservations, ledger
  <2> QED
    BY <1>1, <2>6, <2>7, BillingUntouched
<1>3. CASE SweepOne(FALSE)
  <2>1. Head(sweep) \in Reservation \ Turn /\ sweep' \in Seq(Reservation \ Turn)
    BY <1>1, <1>3 DEF SweepOne
  <2>2. ASSUME NEW u \in Turn PROVE resv'[u] = resv[u]
    BY <1>3, <2>1, BillingAssumption, SweepOthers, Zenon
  <2> QED
    BY <1>1, <2>1, <2>2, BillingUntouched, Zenon
<1> QED
  BY <1>2, <1>3, Zenon DEF SweepStep

(***************************************************************************)
(* BillingStep.  Every step of Agent billing keeps the invariant.          *)
(***************************************************************************)
LEMMA BillingStep ==
  ASSUME BillingInv, LedgerInv, [BillingNext]_billingVars
  PROVE  BillingInv'
<1>1. LedgerInv'
  BY BillingLedgerStep
<1>2. CASE \E t \in Turn : AdmitTurn(t)
  BY <1>1, <1>2, AdmitSound
<1>3. CASE \E t \in Turn : ClaimTurn(t)
  BY <1>1, <1>3, ClaimSound, Zenon
<1>4. CASE \E t \in Turn : SettleTurn(t)
  BY <1>1, <1>4, SettleTurnSound
<1>5. CASE \E t \in Turn : OpenReview(t)
  BY <1>1, <1>5, OpenReviewSound, Zenon
<1>6. CASE \E t \in Turn :
             CaptureUsage(t) \/ \E e \in Receipt, fence \in 1..turn[t].fence : AppendAttested(e, t, fence)
  BY <1>6, UsageStepsSound, Zenon
<1>7. CASE \E t \in Turn : ResolveReview(t)
  BY <1>1, <1>7, ResolveSound
<1>8. CASE ReconcileNext
  BY <1>1, <1>8, ReconcileSound
<1>9. CASE StartPass \/ EndPass \/ AbandonPass
  BY <1>9, PassSound
<1>10. CASE \E r \in Reservation \ Turn : ReserveElsewhere(r)
  BY <1>10, ElsewhereSound
<1>11. CASE SweepStep
  BY <1>11, SweepStepSound
<1>12. CASE BillingTick
  <2>1. LedgerTick /\ UNCHANGED <<billing, pass>>
    BY <1>12 DEF BillingTick
  <2>2. pass' \in PassState /\ sweep' \in Seq(Reservation \ Turn)
    BY <2>1, Zenon DEF LedgerTick, BillingInv, BillingTypes
  <2>3. \A u \in Turn : \E ttl, wait : resv'[u] = [resv[u] EXCEPT !.ttl = ttl, !.wait = wait]
    BY <2>1, BillingAssumption, TimePasses, Zenon
  <2> QED
    BY <2>1, <2>2, <2>3, BillingUntouched, Zenon
<1>13. CASE UNCHANGED billingVars
  <2>1. UNCHANGED <<billing, pass, sweep, resv>>
    BY <1>13 DEF billingVars, ledgerVars
  <2>2. pass' \in PassState /\ sweep' \in Seq(Reservation \ Turn)
    BY <2>1 DEF BillingInv, BillingTypes
  <2> QED
    BY <2>1, <2>2, BillingUntouched
<1> QED
  BY <1>2, <1>3, <1>4, <1>5, <1>6, <1>7, <1>8, <1>9, <1>10, <1>11, <1>12, <1>13, Zenon DEF BillingNext

-----------------------------------------------------------------------------
(***************************************************************************)
(* BillingCallsTheLedger.  Agent billing, its reconciler and the generic   *)
(* sweeper together are callers of the ledger, and both invariants hold    *)
(* for every set of Turns, receipts, packs and other reservations.         *)
(***************************************************************************)
THEOREM BillingCallsTheLedger == BillingSpec => LedgerSpec /\ [](BillingInv /\ LedgerInv)
<1>1. BillingInit => LedgerInit /\ BillingInv /\ LedgerInv
  BY NothingBound, EmptyBooks DEF BillingInit
<1>2. BillingInv /\ LedgerInv /\ [BillingNext]_billingVars => [LedgerNext]_ledgerVars
  BY BillingMove
<1>3. BillingInv /\ LedgerInv /\ [BillingNext]_billingVars => BillingInv' /\ LedgerInv'
  BY BillingStep, BillingLedgerStep
<1> QED
  BY <1>1, <1>2, <1>3, PTL DEF BillingSpec, LedgerSpec

(***************************************************************************)
(* OutcomeAlwaysMirrors.  The outcome row of a bound Turn never drifts     *)
(* from its reservation, for any interleaving of settlement, Review,       *)
(* reconciler and sweeper: GetOutcome has no drift to report.              *)
(***************************************************************************)
THEOREM OutcomeAlwaysMirrors == BillingSpec => []OutcomeMirrorsLedger
<1>1. BillingInv => OutcomeMirrorsLedger
  <2> SUFFICES ASSUME BillingInv, NEW t \in Bound
               PROVE  /\ outcome[t].row = 0 <=> resv[t].status = "reserved"
                      /\ outcome[t].row # 0 => Mirrors(t)
    BY DEF OutcomeMirrorsLedger, Mirrors
  <2>1. t \in Turn /\ turn[t].status # "absent" /\ turn[t] \in TurnRow
    BY Zenon DEF Bound, BillingInv, BillingTypes
  <2>2. Settled(t)
    BY <2>1, Zenon DEF BillingInv
  <2> QED
    BY <2>1, <2>2, Zenon DEF Settled, TurnSound, TurnRow
<1> QED
  BY <1>1, BillingCallsTheLedger, PTL

(***************************************************************************)
(* ReviewAlwaysDecides.  The Credits a Review holds are frozen until it is *)
(* resolved, and then exactly the measured usage is charged.               *)
(***************************************************************************)
THEOREM ReviewAlwaysDecides == BillingSpec => []ReviewDecides
<1>1. BillingInv => ReviewDecides
  BY DEF BillingInv, Settled, Decides, Decided, ReviewDecides
<1> QED
  BY <1>1, BillingCallsTheLedger, PTL

(***************************************************************************)
(* UsageAlwaysCountedOnce.  What a Review charges for is all the usage the *)
(* journal holds for its Turn, and is charged to no other Turn.            *)
(***************************************************************************)
THEOREM UsageAlwaysCountedOnce == BillingSpec => []UsageCountedOnce
<1>1. BillingInv => UsageCountedOnce
  BY DEF BillingInv, UsageSound
<1> QED
  BY <1>1, BillingCallsTheLedger, PTL

(***************************************************************************)
(* TurnsPayInOrder.  Agent Turns, too, spend the Credits that expire       *)
(* sooner first, and when part of a charge comes back it goes to the packs *)
(* that expire later, whichever of settlement, Review and the two          *)
(* reconcilers returns it.                                                 *)
(***************************************************************************)
THEOREM TurnsPayInOrder == BillingSpec => SoonestFirst
BY BillingCallsTheLedger, SoonestAlwaysFirst, PTL

(***************************************************************************)
(* TurnBooksBalance.  No Turn's Credits are charged twice, refunded twice  *)
(* or lost between settlement, Review and reconciler.                      *)
(***************************************************************************)
THEOREM TurnBooksBalance == BillingSpec => []BooksBalance
BY BillingCallsTheLedger, BooksAlwaysBalance, PTL

(***************************************************************************)
(* TurnDecisionsStand.  The reconciler and a Review's resolution never     *)
(* revise a settlement that has been decided.                              *)
(***************************************************************************)
THEOREM TurnDecisionsStand == BillingSpec => DecisionsStand
BY BillingCallsTheLedger, DecisionsAlwaysStand, PTL

=============================================================================
