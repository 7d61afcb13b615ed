----------------------- MODULE AgentTurnLifecycleProofs -----------------------
(***************************************************************************)
(* The kernel implements TurnLifecycle: under the mapping Life every       *)
(* command is a step of one Turn's promised lifecycle, or no step.  The    *)
(* argument needs the ownership invariant, without which a commit could    *)
(* end a Turn that is not its own, and CommercialOutcome, without which an *)
(* ending Turn could already have a bill.                                  *)
(*                                                                         *)
(* The discovery loops of TurnRecovery implement the kernel, and with it   *)
(* the lifecycle: however stale a page is, trying its rows takes steps of  *)
(* the kernel only.                                                        *)
(***************************************************************************)
EXTENDS AgentTurnLifecycle, AgentTurnProofs, TurnRecovery, WellFoundedInduction

(* The SMT solver may take up to 30 seconds over a leaf, and is called     *)
(* again when its first call fails.                                        *)
USE SMTT(30), Z3T(30)

Worked(t) == \E r \in operation : r.turn = t /\ r.status = "running"

Bill(t) == {k \in Intent \cup {"review"} : \E l \in ledger : l.turn = t /\ l.kind = k}

LifeRow(t) ==
  [phase |-> turn[t].status, cancelled |-> turn[t].cancel, epoch |-> turn[t].fence,
   length |-> turn[t].seq, worked |-> Worked(t), bill |-> Bill(t)]

LifeType ==
  [phase : TurnStatus \cup {"absent"}, cancelled : BOOLEAN, epoch : Nat,
   length : Nat, worked : BOOLEAN, bill : SUBSET (Intent \cup {"review"})]

(* The columns of a row of the mapping, before and after a step.           *)
LEMMA Columns ==
  ASSUME TypeOK, NEW t \in Turn
  PROVE  /\ LifeRow(t) \in LifeType
         /\ LifeRow(t).phase = turn[t].status /\ LifeRow(t).cancelled = turn[t].cancel
         /\ LifeRow(t).epoch = turn[t].fence /\ LifeRow(t).length = turn[t].seq
         /\ LifeRow(t).worked = Worked(t) /\ LifeRow(t).bill = Bill(t)
<1>1. turn[t] \in TurnRow /\ Worked(t) \in BOOLEAN /\ Bill(t) \in SUBSET (Intent \cup {"review"})
  BY DEF TypeOK, Worked, Bill
<1> QED
  BY <1>1, TurnColumns DEF LifeRow, LifeType

LEMMA NextColumns ==
  ASSUME TypeOK', NEW t \in Turn
  PROVE  /\ LifeRow(t)' \in LifeType
         /\ LifeRow(t)'.phase = turn'[t].status /\ LifeRow(t)'.cancelled = turn'[t].cancel
         /\ LifeRow(t)'.epoch = turn'[t].fence /\ LifeRow(t)'.length = turn'[t].seq
         /\ LifeRow(t)'.worked = Worked(t)' /\ LifeRow(t)'.bill = Bill(t)'
<1>1. turn'[t] \in TurnRow /\ Worked(t)' \in BOOLEAN /\ Bill(t)' \in SUBSET (Intent \cup {"review"})
  BY DEF TypeOK, Worked, Bill
<1> QED
  BY <1>1, TurnColumns DEF LifeRow, LifeType

(* A row is known by its columns: one lemma for each update of TurnLifecycle. *)
LEMMA Submitted ==
  ASSUME NEW row \in LifeType, NEW new \in LifeType, NEW p \in TurnStatus, NEW n \in Nat,
         new.phase = p, new.length = n, new.cancelled = row.cancelled, new.epoch = row.epoch,
         new.worked = row.worked, new.bill = row.bill
  PROVE  new = [row EXCEPT !.phase = p, !.length = n]
  BY Zenon DEF LifeType

LEMMA Cancelled ==
  ASSUME NEW row \in LifeType, NEW new \in LifeType, NEW n \in Nat,
         new.cancelled = TRUE, new.length = n, new.phase = row.phase, new.epoch = row.epoch,
         new.worked = row.worked, new.bill = row.bill
  PROVE  new = [row EXCEPT !.cancelled = TRUE, !.length = n]
  BY Zenon DEF LifeType

LEMMA Taken ==
  ASSUME NEW row \in LifeType, NEW new \in LifeType, NEW k \in Nat, NEW n \in Nat,
         new.phase = "running", new.epoch = k, new.length = n, new.cancelled = row.cancelled,
         new.worked = row.worked, new.bill = row.bill
  PROVE  new = [row EXCEPT !.phase = "running", !.epoch = k, !.length = n]
  BY Zenon DEF LifeType, TurnStatus

LEMMA WorkedOn ==
  ASSUME NEW row \in LifeType, NEW new \in LifeType, NEW n \in Nat,
         new.worked = TRUE, new.length = n, new.phase = row.phase, new.cancelled = row.cancelled,
         new.epoch = row.epoch, new.bill = row.bill
  PROVE  new = [row EXCEPT !.worked = TRUE, !.length = n]
  BY Zenon DEF LifeType

LEMMA EndedBy ==
  ASSUME NEW row \in LifeType, NEW new \in LifeType,
         new.cancelled = row.cancelled, new.worked = row.worked
  PROVE  new = [row EXCEPT !.phase = new.phase, !.length = new.length,
                           !.epoch = new.epoch, !.bill = new.bill]
  BY Zenon DEF LifeType

(* The mapping, row by row.                                                *)
LEMMA LifeRows == Life = [t \in Turn |-> LifeRow(t)]
  BY DEF Life, LifeRow, Worked, Bill

(* A command that shows in one Turn changes one row of the mapping.        *)
LEMMA OneLife ==
  ASSUME NEW t \in Turn, \A u \in Turn \ {t} : LifeRow(u)' = LifeRow(u)
  PROVE  Life' = [Life EXCEPT ![t] = LifeRow(t)']
<1>1. Life' = [u \in Turn |-> LifeRow(u)']
  BY DEF Life, LifeRow, Worked, Bill
<1>2. [Life EXCEPT ![t] = LifeRow(t)'] = [u \in Turn |-> IF u = t THEN LifeRow(t)' ELSE LifeRow(u)]
  BY LifeRows
<1> QED
  BY <1>1, <1>2

(* A command that shows in no Turn leaves the mapping alone.               *)
LEMMA SameLife ==
  ASSUME \A u \in Turn : LifeRow(u)' = LifeRow(u)
  PROVE  Life' = Life
<1>1. Life' = [u \in Turn |-> LifeRow(u)']
  BY DEF Life, LifeRow, Worked, Bill
<1> QED
  BY <1>1, LifeRows

(* The part of a row the command does not touch.                           *)
LEMMA SameRow ==
  ASSUME NEW u \in Turn, turn'[u].status = turn[u].status, turn'[u].cancel = turn[u].cancel,
         turn'[u].fence = turn[u].fence, turn'[u].seq = turn[u].seq,
         Worked(u)' = Worked(u), Bill(u)' = Bill(u)
  PROVE  LifeRow(u)' = LifeRow(u)
  BY DEF LifeRow

(* An open Turn has no bill yet, and without an authority none ever has.   *)
LEMMA OpenUnbilled ==
  ASSUME KernelInv, NEW t \in Turn, Unfinished(t)
  PROVE  Bill(t) = {}
<1>1. \A l \in ledger : l.turn # t
  BY DEF KernelInv, CommercialOutcome, NoAuthorityNoBill, Unfinished, TerminalStatus
<1> QED
  BY <1>1 DEF Bill

(* The empty store is the initial lifecycle.                               *)
LEMMA LifeInit == Init => Lifecycle!Init
<1> SUFFICES ASSUME Init PROVE Lifecycle!Init
  OBVIOUS
<1>1. ASSUME NEW t \in Turn
      PROVE  LifeRow(t) = [phase |-> "absent", cancelled |-> FALSE, epoch |-> 0,
                           length |-> 0, worked |-> FALSE, bill |-> {}]
  <2>1. Worked(t) = FALSE /\ Bill(t) = {}
    BY DEF Init, Worked, Bill
  <2>2. turn[t].status = "absent" /\ turn[t].fence = 0 /\ turn[t].seq = 0
    BY DEF Init
  <2>3. turn[t].cancel = FALSE
    BY DEF Init
  <2> QED
    BY <2>1, <2>2, <2>3, Zenon DEF LifeRow
<1> QED
  BY <1>1, LifeRows DEF Lifecycle!Init

-----------------------------------------------------------------------------
(* Admit is Submit.                                                        *)
LEMMA AdmitSubmits ==
  ASSUME KernelInv, KernelInv', NEW t \in Turn, Admit(t)
  PROVE  Lifecycle!Submit(t)
<1>0. TypeOK /\ TypeOK'
  BY DEF KernelInv, OwnerInv
<1>1. turn \in [Turn -> TurnRow]
  BY <1>0 DEF TypeOK
<1>2. \A u \in Turn : Worked(u)' = Worked(u) /\ Bill(u)' = Bill(u)
  BY DEF Admit, Worked, Bill
<1>3. \A u \in Turn \ {t} : LifeRow(u)' = LifeRow(u)
  <2>1. \A u \in Turn \ {t} : turn'[u] = turn[u]
    BY <1>1 DEF Admit
  <2> QED
    BY <1>2, <2>1, SameRow
<1>4. LifeRow(t)' = [LifeRow(t) EXCEPT !.phase = "queued", !.length = 1]
  <2>1. /\ turn'[t].status = "queued" /\ turn'[t].cancel = turn[t].cancel
        /\ turn'[t].fence = turn[t].fence /\ turn'[t].seq = 1
    BY <1>1 DEF Admit, TurnRow
  <2>2. "queued" \in TurnStatus /\ 1 \in Nat
    BY DEF TurnStatus
  <2>3. /\ LifeRow(t) \in LifeType /\ LifeRow(t)' \in LifeType
        /\ LifeRow(t)'.phase = "queued"
        /\ LifeRow(t)'.length = 1
        /\ LifeRow(t)'.cancelled = LifeRow(t).cancelled
        /\ LifeRow(t)'.epoch = LifeRow(t).epoch
        /\ LifeRow(t)'.worked = LifeRow(t).worked
        /\ LifeRow(t)'.bill = LifeRow(t).bill
    BY <1>0, <1>2, <2>1, <2>2, Columns, NextColumns
  <2> QED
    BY <2>2, <2>3, Submitted, Zenon
<1>5. Life[t] = LifeRow(t) /\ LifeRow(t).phase = "absent"
  BY LifeRows, <1>0, Columns DEF Admit
<1>6. Life' = [Life EXCEPT ![t] = [Life[t] EXCEPT !.phase = "queued", !.length = 1]]
  BY <1>3, <1>4, <1>5, OneLife
<1> QED
  BY <1>5, <1>6 DEF Lifecycle!Submit

(* RequestCancel is Cancel.                                                *)
LEMMA RequestCancels ==
  ASSUME KernelInv, KernelInv', NEW t \in Turn, RequestCancel(t)
  PROVE  Lifecycle!Cancel(t)
<1>0. TypeOK /\ TypeOK'
  BY DEF KernelInv, OwnerInv
<1>1. turn \in [Turn -> TurnRow]
  BY <1>0 DEF TypeOK
<1>2. \A u \in Turn : Worked(u)' = Worked(u) /\ Bill(u)' = Bill(u)
  BY DEF RequestCancel, Worked, Bill
<1>3. \A u \in Turn \ {t} : LifeRow(u)' = LifeRow(u)
  <2>1. \A u \in Turn \ {t} : turn'[u] = turn[u]
    BY <1>1 DEF RequestCancel
  <2> QED
    BY <1>2, <2>1, SameRow
<1>4. LifeRow(t)' = [LifeRow(t) EXCEPT !.cancelled = TRUE, !.length = turn[t].seq + 1]
  <2>1. /\ turn'[t].status = turn[t].status /\ turn'[t].cancel = TRUE
        /\ turn'[t].fence = turn[t].fence /\ turn'[t].seq = turn[t].seq + 1
    BY <1>1 DEF RequestCancel, TurnRow
  <2>2. turn[t].seq + 1 \in Nat
    BY <1>1, TurnColumns
  <2>3. /\ LifeRow(t) \in LifeType /\ LifeRow(t)' \in LifeType
        /\ LifeRow(t)'.cancelled = TRUE
        /\ LifeRow(t)'.length = turn[t].seq + 1
        /\ LifeRow(t)'.phase = LifeRow(t).phase
        /\ LifeRow(t)'.epoch = LifeRow(t).epoch
        /\ LifeRow(t)'.worked = LifeRow(t).worked
        /\ LifeRow(t)'.bill = LifeRow(t).bill
    BY <1>0, <1>2, <2>1, <2>2, Columns, NextColumns
  <2> QED
    BY <2>2, <2>3, Cancelled, Zenon
<1>5. /\ Life[t] = LifeRow(t) /\ LifeRow(t).length = turn[t].seq
      /\ LifeRow(t).phase \in {"queued", "running"} /\ ~LifeRow(t).cancelled
  BY LifeRows, <1>0, Columns DEF RequestCancel, Unfinished
<1>6. Life' = [Life EXCEPT ![t] = [Life[t] EXCEPT !.cancelled = TRUE, !.length = Life[t].length + 1]]
  BY <1>3, <1>4, <1>5, OneLife
<1> QED
  BY <1>5, <1>6, Zenon DEF Lifecycle!Cancel, Lifecycle!Open

(* ClaimAttempt is Take.                                                   *)
LEMMA ClaimTakes ==
  ASSUME KernelInv, KernelInv', NEW t \in Turn, NEW a \in Attempt, ClaimAttempt(t, a)
  PROVE  Lifecycle!Take(t)
<1>0. TypeOK /\ TypeOK'
  BY DEF KernelInv, OwnerInv
<1>1. turn \in [Turn -> TurnRow]
  BY <1>0 DEF TypeOK
<1>2. \A u \in Turn : Worked(u)' = Worked(u) /\ Bill(u)' = Bill(u)
  BY DEF ClaimAttempt, Worked, Bill
<1>3. \A u \in Turn \ {t} : LifeRow(u)' = LifeRow(u)
  <2>1. \A u \in Turn \ {t} : turn'[u] = turn[u]
    BY <1>1 DEF ClaimAttempt
  <2> QED
    BY <1>2, <2>1, SameRow
<1> DEFINE length == IF turn[t].status = "queued" THEN turn[t].seq + 1 ELSE turn[t].seq
<1>4. LifeRow(t)' = [LifeRow(t) EXCEPT !.phase = "running", !.epoch = turn[t].fence + 1, !.length = length]
  <2>1. /\ turn'[t].status = "running" /\ turn'[t].cancel = turn[t].cancel
        /\ turn'[t].fence = turn[t].fence + 1 /\ turn'[t].seq = length
    BY <1>1 DEF ClaimAttempt, TurnRow
  <2> HIDE DEF length
  <2>2. turn[t].fence + 1 \in Nat /\ length \in Nat
    BY <1>1, TurnColumns DEF length
  <2>3. /\ LifeRow(t) \in LifeType /\ LifeRow(t)' \in LifeType
        /\ LifeRow(t)'.phase = "running"
        /\ LifeRow(t)'.epoch = turn[t].fence + 1
        /\ LifeRow(t)'.length = length
        /\ LifeRow(t)'.cancelled = LifeRow(t).cancelled
        /\ LifeRow(t)'.worked = LifeRow(t).worked
        /\ LifeRow(t)'.bill = LifeRow(t).bill
    BY <1>0, <1>2, <2>1, <2>2, Columns, NextColumns
  <2> QED
    BY <2>2, <2>3, Taken, Zenon
<1>5. /\ Life[t] = LifeRow(t) /\ LifeRow(t).phase = turn[t].status
      /\ LifeRow(t).epoch = turn[t].fence /\ LifeRow(t).length = turn[t].seq
  BY LifeRows, <1>0, Columns
<1>6. /\ turn[t].status \in {"queued", "running"} /\ ~LifeRow(t).cancelled
      /\ turn[t].fence < MaxTurnAttempts
  BY <1>0, Columns DEF ClaimAttempt, MayOpenEpoch, Unfinished, Uncancelled, WithinBudget
<1>7. Life' = [Life EXCEPT ![t] = [Life[t] EXCEPT
                 !.phase = "running", !.epoch = turn[t].fence + 1, !.length = length]]
  <2> HIDE DEF length
  <2> QED
    BY <1>3, <1>4, <1>5, OneLife
<1> QED
  BY <1>5, <1>6, <1>7 DEF Lifecycle!Take, Lifecycle!Open

(* A non-terminal commit is Work.                                          *)
LEMMA CommitWorks ==
  ASSUME KernelInv, KernelInv', NEW a \in Attempt, NEW o \in Operation, NEW effects \in SUBSET Effect,
         CommitOperation(a, o, effects), NEW t \in Turn, attempt[a].turn = t
  PROVE  Lifecycle!Work(t)
<1>0. TypeOK /\ TypeOK'
  BY DEF KernelInv, OwnerInv
<1>1. turn \in [Turn -> TurnRow] /\ turn[t].status = "running" /\ ~turn[t].cancel
  BY <1>0 DEF TypeOK, KernelInv, OwnerInv, SingleOwner, CommitOperation, Holds, Uncancelled
<1>2. Worked(t)' = TRUE /\ \A u \in Turn : Bill(u)' = Bill(u)
  <2> DEFINE r == Receipt(a, o, turn[t].status)
  <2>1. r \in operation' /\ r.turn = t /\ r.status = "running"
    BY <1>1 DEF CommitOperation, Receipt
  <2>2. Worked(t)'
    BY <2>1 DEF Worked
  <2>3. Worked(t)' \in BOOLEAN
    BY DEF Worked
  <2>4. \A u \in Turn : Bill(u)' = Bill(u)
    BY DEF CommitOperation, Bill
  <2> QED
    BY <2>2, <2>3, <2>4
<1>3. \A u \in Turn \ {t} : LifeRow(u)' = LifeRow(u)
  <2>1. \A u \in Turn \ {t} : turn'[u] = turn[u]
    BY <1>1 DEF CommitOperation
  <2>2. \A u \in Turn \ {t} : Worked(u)' = Worked(u)
    <3> DEFINE r == Receipt(a, o, turn[t].status)
    <3>1. operation' = operation \cup {r} /\ r.turn = t
      BY DEF CommitOperation, Receipt
    <3> HIDE DEF r
    <3> QED
      BY <3>1 DEF Worked
  <2> QED
    BY <1>2, <2>1, <2>2, SameRow
<1>4. LifeRow(t)' = [LifeRow(t) EXCEPT !.worked = TRUE, !.length = turn[t].seq + 1]
  <2>1. /\ turn'[t].status = turn[t].status /\ turn'[t].cancel = turn[t].cancel
        /\ turn'[t].fence = turn[t].fence /\ turn'[t].seq = turn[t].seq + 1
    BY <1>1 DEF CommitOperation, TurnRow
  <2>2. turn[t].seq + 1 \in Nat
    BY <1>1, TurnColumns
  <2>3. /\ LifeRow(t) \in LifeType /\ LifeRow(t)' \in LifeType
        /\ LifeRow(t)'.worked = TRUE
        /\ LifeRow(t)'.length = turn[t].seq + 1
        /\ LifeRow(t)'.phase = LifeRow(t).phase
        /\ LifeRow(t)'.cancelled = LifeRow(t).cancelled
        /\ LifeRow(t)'.epoch = LifeRow(t).epoch
        /\ LifeRow(t)'.bill = LifeRow(t).bill
    BY <1>0, <1>1, <1>2, <2>1, <2>2, Columns, NextColumns
  <2> QED
    BY <2>2, <2>3, WorkedOn, Zenon
<1>5. /\ Life[t] = LifeRow(t) /\ LifeRow(t).length = turn[t].seq
      /\ LifeRow(t).phase = "running" /\ ~LifeRow(t).cancelled
  BY LifeRows, <1>0, <1>1, Columns
<1>6. Life' = [Life EXCEPT ![t] = [Life[t] EXCEPT !.worked = TRUE, !.length = Life[t].length + 1]]
  BY <1>1, <1>3, <1>4, <1>5, OneLife
<1> QED
  BY <1>5, <1>6, Zenon DEF Lifecycle!Work

(* A command that ends a Turn and settles it in the same step is End.      *)
LEMMA Ends ==
  ASSUME KernelInv, KernelInv', NEW t \in Turn, NEW status \in TerminalStatus,
         NEW kind \in Intent \cup {"review"}, NEW imposed \in BOOLEAN, NEW by, NEW fence,
         Unfinished(t), turn[t].cancel <=> status = "stopped",
         status = "completed" => turn[t].status = "running" /\ ~imposed,
         Authority # "none" /\ kind = "release" => ~Worked(t),
         turn'[t].status = status, turn'[t].cancel = turn[t].cancel,
         turn'[t].fence = IF imposed THEN turn[t].fence + 1 ELSE turn[t].fence,
         turn'[t].seq = turn[t].seq + 1,
         \A u \in Turn \ {t} : turn'[u] = turn[u],
         \A u \in Turn : Worked(u)' = Worked(u),
         ledger' = Settled(t, kind, by, fence)
  PROVE  Lifecycle!End(t, status, kind, imposed)
<1>0. TypeOK /\ TypeOK'
  BY DEF KernelInv, OwnerInv
<1> DEFINE bill == IF Authority # "none" THEN {kind} ELSE {}
           epoch == IF imposed THEN turn[t].fence + 1 ELSE turn[t].fence
<1>1. Bill(t)' = bill /\ \A u \in Turn \ {t} : Bill(u)' = Bill(u)
  <2>1. CASE Authority = "none"
    <3>1. Bill(t) = {}
      BY OpenUnbilled
    <3>2. ledger' = ledger
      BY <2>1 DEF Settled
    <3> QED
      BY <2>1, <3>1, <3>2 DEF Bill
  <2>2. CASE Authority # "none"
    <3> DEFINE new == [turn |-> t, kind |-> kind, by |-> by, fence |-> fence]
    <3>1. ledger' = ledger \cup {new} /\ new.turn = t /\ new.kind = kind
      BY <2>2 DEF Settled
    <3>2. \A l \in ledger : l.turn # t
      BY <2>2 DEF KernelInv, CommercialOutcome, Unfinished, TerminalStatus
    <3> HIDE DEF new
    <3>3. Bill(t)' = {kind}
      BY <3>1, <3>2 DEF Bill
    <3>4. \A u \in Turn \ {t} : Bill(u)' = Bill(u)
      BY <3>1 DEF Bill
    <3> QED
      BY <2>2, <3>3, <3>4
  <2> QED
    BY <2>1, <2>2
<1>2. \A u \in Turn \ {t} : LifeRow(u)' = LifeRow(u)
  BY <1>1, SameRow
<1>3. LifeRow(t)' = [LifeRow(t) EXCEPT !.phase = status, !.length = turn[t].seq + 1,
                                      !.epoch = epoch, !.bill = bill]
  <2>3. epoch = turn'[t].fence
    OBVIOUS
  <2> HIDE DEF epoch, bill
  <2>4. /\ LifeRow(t) \in LifeType /\ LifeRow(t)' \in LifeType
        /\ LifeRow(t)'.phase = status
        /\ LifeRow(t)'.length = turn[t].seq + 1
        /\ LifeRow(t)'.epoch = epoch
        /\ LifeRow(t)'.bill = bill
        /\ LifeRow(t)'.cancelled = LifeRow(t).cancelled
        /\ LifeRow(t)'.worked = LifeRow(t).worked
    BY <1>0, <1>1, <2>3, Columns, NextColumns
  <2>5. LifeRow(t)' = [LifeRow(t) EXCEPT !.phase = LifeRow(t)'.phase, !.length = LifeRow(t)'.length,
                                        !.epoch = LifeRow(t)'.epoch, !.bill = LifeRow(t)'.bill]
    BY <2>4, EndedBy, Zenon
  <2> QED
    BY <2>4, <2>5
<1>4. /\ Life[t] = LifeRow(t) /\ LifeRow(t).length = turn[t].seq /\ LifeRow(t).epoch = turn[t].fence
      /\ LifeRow(t).phase = turn[t].status /\ LifeRow(t).cancelled = turn[t].cancel
      /\ LifeRow(t).worked = Worked(t)
  BY LifeRows, <1>0, Columns
<1>5. Life' = [Life EXCEPT ![t] = [Life[t] EXCEPT
                 !.phase = status, !.length = Life[t].length + 1, !.epoch = epoch, !.bill = bill]]
  <2> HIDE DEF epoch, bill
  <2> QED
    BY <1>2, <1>3, <1>4, OneLife
<1>6. /\ Life[t].phase \in {"queued", "running"} /\ (Life[t].cancelled <=> status = "stopped")
      /\ status = "completed" => Life[t].phase = "running" /\ ~imposed
      /\ Authority # "none" /\ kind = "release" => ~Life[t].worked
      /\ epoch = IF imposed THEN Life[t].epoch + 1 ELSE Life[t].epoch
  BY <1>4 DEF Unfinished
<1> QED
  BY <1>5, <1>6, Zenon DEF Lifecycle!End, Lifecycle!Open

(* A terminal commit is End, by the Turn's own epoch.                      *)
LEMMA TerminalEnds ==
  ASSUME KernelInv, KernelInv', NEW a \in Attempt, NEW o \in Operation, NEW effects \in SUBSET Effect,
         NEW status \in TerminalStatus, NEW intent \in Intent,
         CommitTerminal(a, o, effects, status, intent), NEW t \in Turn, attempt[a].turn = t
  PROVE  \E kind \in Intent \cup {"review"} : Lifecycle!End(t, status, kind, FALSE)
<1> DEFINE kind == IF OpensReview(t, status, intent, effects) THEN "review" ELSE intent
           r == Receipt(a, o, status)
<1>1. turn \in [Turn -> TurnRow] /\ turn[t].status = "running" /\ Unfinished(t)
  BY DEF KernelInv, OwnerInv, TypeOK, SingleOwner, CommitTerminal, Holds
<1>2. /\ turn'[t].status = status /\ turn'[t].cancel = turn[t].cancel
      /\ turn'[t].fence = turn[t].fence /\ turn'[t].seq = turn[t].seq + 1
      /\ \A u \in Turn \ {t} : turn'[u] = turn[u]
  BY <1>1 DEF CommitTerminal, TurnRow
<1>3. (turn[t].cancel <=> status = "stopped") /\ ledger' = Settled(t, kind, o, attempt[a].fence)
  BY DEF CommitTerminal
<1>4. \A u \in Turn : Worked(u)' = Worked(u)
  <2>1. operation' = operation \cup {r} /\ r.status = status /\ status # "running"
    BY DEF CommitTerminal, Receipt, TerminalStatus
  <2> HIDE DEF r
  <2> QED
    BY <2>1 DEF Worked
<1>5. Authority # "none" /\ kind = "release" => ~Worked(t)
  <2> SUFFICES ASSUME Authority # "none", kind = "release" PROVE ~Worked(t)
    OBVIOUS
  <2>1. intent = "release" /\ ~OpensReview(t, status, intent, effects) /\ ~UsageUnknown(t, intent, effects)
    BY DEF CommitTerminal
  <2>2. ~Ambiguous(t, effects)
    BY <2>1, ConstantsAssumption DEF OpensReview, UsageUnknown, AuthorityKind
  <2> QED
    BY <2>2 DEF Ambiguous, Worked
<1>6. kind \in Intent \cup {"review"}
  OBVIOUS
<1> HIDE DEF kind
<1>7. Lifecycle!End(t, status, kind, FALSE)
  BY <1>1, <1>2, <1>3, <1>4, <1>5, <1>6, Ends, Zenon
<1> QED
  BY <1>6, <1>7, Zenon

(* A retirement is End, imposed from outside.                              *)
LEMMA RetirementEnds ==
  ASSUME KernelInv, KernelInv', NEW t \in Turn, NEW reason \in ReclaimReason, ReconcileTerminal(t, reason)
  PROVE  \E status \in TerminalStatus, kind \in Intent \cup {"review"} :
            Lifecycle!End(t, status, kind, TRUE)
<1> DEFINE status == ReasonStatus(reason)
           kind == IF OpensReview(t, status, "release", {}) THEN "review" ELSE "release"
<1>1. turn \in [Turn -> TurnRow] /\ Unfinished(t)
  BY DEF KernelInv, OwnerInv, TypeOK, ReconcileTerminal, MayRetire
<1>2. /\ turn'[t].status = status /\ turn'[t].cancel = turn[t].cancel
      /\ turn'[t].fence = turn[t].fence + 1 /\ turn'[t].seq = turn[t].seq + 1
      /\ \A u \in Turn \ {t} : turn'[u] = turn[u]
  BY <1>1 DEF ReconcileTerminal, TurnRow
<1>3. /\ turn[t].cancel <=> status = "stopped"
      /\ status \in TerminalStatus /\ status # "completed"
      /\ ledger' = Settled(t, kind, NoOperation, turn[t].fence + 1)
  BY DEF ReconcileTerminal, MayRetire, Reconcilable, ReasonStatus, TerminalStatus
<1>4. \A u \in Turn : Worked(u)' = Worked(u)
  BY DEF ReconcileTerminal, Worked
<1>5. Authority # "none" /\ kind = "release" => ~Worked(t)
  <2> SUFFICES ASSUME Authority # "none", kind = "release" PROVE ~Worked(t)
    OBVIOUS
  <2>1. ~OpensReview(t, status, "release", {}) /\ ~UsageUnknown(t, "release", {})
    BY DEF ReconcileTerminal, MayRetire
  <2>2. ~Ambiguous(t, {})
    BY <2>1, ConstantsAssumption DEF OpensReview, UsageUnknown, AuthorityKind
  <2> QED
    BY <2>2 DEF Ambiguous, Worked
<1>6. kind \in Intent \cup {"review"}
  BY DEF Intent
<1> HIDE DEF kind, status
<1>7. Lifecycle!End(t, status, kind, TRUE)
  BY <1>1, <1>2, <1>3, <1>4, <1>5, <1>6, Ends, Zenon
<1> QED
  BY <1>3, <1>6, <1>7, Zenon

(* A heartbeat and the passage of time show in no Turn.                    *)
LEMMA QuietLife ==
  ASSUME KernelInv, (\E a \in Attempt : HeartbeatAttempt(a)) \/ Tick \/ UNCHANGED vars
  PROVE  Life' = Life
<1>1. turn \in [Turn -> TurnRow]
  BY DEF KernelInv, OwnerInv, TypeOK
<1>2. \A u \in Turn : Worked(u)' = Worked(u) /\ Bill(u)' = Bill(u)
  BY DEF HeartbeatAttempt, Tick, vars, Worked, Bill
<1>3. \A u \in Turn : /\ turn'[u].status = turn[u].status /\ turn'[u].cancel = turn[u].cancel
                      /\ turn'[u].fence = turn[u].fence /\ turn'[u].seq = turn[u].seq
  BY <1>1 DEF HeartbeatAttempt, Tick, vars, TurnRow
<1> QED
  BY <1>2, <1>3, SameRow, SameLife

(* Every command is a step of the lifecycle, or none.                      *)
LEMMA LifeStep == KernelInv /\ KernelInv' /\ [Next]_vars => [Lifecycle!Next]_Life
<1> SUFFICES ASSUME KernelInv, KernelInv', [Next]_vars PROVE Lifecycle!Next \/ Life' = Life
  OBVIOUS
<1>1. ASSUME NEW t \in Turn, Admit(t) \/ RequestCancel(t) PROVE Lifecycle!Next
  BY <1>1, AdmitSubmits, RequestCancels DEF Lifecycle!Next
<1>2. ASSUME NEW t \in Turn, NEW a \in Attempt, ClaimAttempt(t, a) PROVE Lifecycle!Next
  BY <1>2, ClaimTakes DEF Lifecycle!Next
<1>3. ASSUME NEW a \in Attempt, Holds(a) PROVE attempt[a].turn \in Turn
  BY <1>3 DEF KernelInv, OwnerInv, SingleOwner, Holds
<1>4. ASSUME NEW a \in Attempt, NEW o \in Operation, NEW effects \in SUBSET Effect,
             CommitOperation(a, o, effects)
      PROVE  Lifecycle!Next
  <2>1. PICK t \in Turn : attempt[a].turn = t
    BY <1>3, <1>4 DEF CommitOperation
  <2> QED
    BY <1>4, <2>1, CommitWorks DEF Lifecycle!Next
<1>5. ASSUME NEW a \in Attempt, NEW o \in Operation, NEW effects \in SUBSET Effect,
             NEW status \in TerminalStatus, NEW intent \in Intent,
             CommitTerminal(a, o, effects, status, intent)
      PROVE  Lifecycle!Next
  <2>1. PICK t \in Turn : attempt[a].turn = t
    BY <1>3, <1>5 DEF CommitTerminal
  <2>2. PICK kind \in Intent \cup {"review"} : Lifecycle!End(t, status, kind, FALSE)
    BY <1>5, <2>1, TerminalEnds, Zenon
  <2>3. status \in Lifecycle!Ended /\ kind \in {"finalize", "release", "review"}
    BY DEF TerminalStatus, Lifecycle!Ended, Intent
  <2> QED
    BY <2>2, <2>3, Zenon DEF Lifecycle!Next
<1>6. ASSUME NEW t \in Turn, NEW reason \in ReclaimReason, ReconcileTerminal(t, reason)
      PROVE  Lifecycle!Next
  <2>1. PICK status \in TerminalStatus, kind \in Intent \cup {"review"} :
               Lifecycle!End(t, status, kind, TRUE)
    BY <1>6, RetirementEnds, Zenon
  <2>2. status \in Lifecycle!Ended /\ kind \in {"finalize", "release", "review"}
    BY DEF TerminalStatus, Lifecycle!Ended, Intent
  <2> QED
    BY <2>1, <2>2, Zenon DEF Lifecycle!Next
<1>7. ASSUME (\E a \in Attempt : HeartbeatAttempt(a)) \/ Tick \/ UNCHANGED vars PROVE Life' = Life
  BY <1>7, QuietLife
<1> QED
  BY <1>1, <1>2, <1>4, <1>5, <1>6, <1>7, Zenon DEF Next, Command

(* The store of Turns, Attempts, leases, receipts and outcomes implements  *)
(* the promised lifecycle: a caller never sees a Turn half ended, ended    *)
(* and unbilled, billed twice, or charged nothing for work it did.         *)
THEOREM KernelImplementsLifecycle == Spec => ImplementsLifecycle
<1>1. Spec => Lifecycle!Init
  BY LifeInit DEF Spec
<1>2. Spec => [][Lifecycle!Next]_Life
  BY KernelInvariant, LifeStep, PTL DEF Spec
<1> QED
  BY <1>1, <1>2, PTL DEF ImplementsLifecycle, Lifecycle!Spec

-----------------------------------------------------------------------------
(* The table as the loops see it: its rows in order, each existing Turn in *)
(* exactly one of them; what the loops have read: only rows, with reasons  *)
(* to retire; and the sweep's cursor: behind every row still to be tried,  *)
(* none of which is tried twice or lies beyond the mark of the cycle.      *)
Row == DOMAIN order

RowsCoverTurns ==
  /\ \A i, j \in Row : order[i] = order[j] => i = j
  /\ \A t \in Turn : turn[t].status # "absent" <=> \E i \in Row : order[i] = t

SweepRow == [id : Nat, ready : BOOLEAN]

SweepInv ==
  /\ sweep \in [row : Nat, high : Nat, rows : SUBSET SweepRow, exhausted : BOOLEAN]
  /\ sweep.high <= Len(order)
  /\ \A c \in sweep.rows : sweep.row < c.id /\ c.id <= sweep.high
  /\ \A c, d \in sweep.rows : c.id = d.id => c = d

DiscoveryInv ==
  /\ order \in Seq(Turn)
  /\ RowsCoverTurns
  /\ candidates \in [Attempt -> SUBSET Row]
  /\ page \subseteq [id : Row, reason : ReclaimReason]
  /\ SweepInv

(* A set of numbers that is not empty has a least one.                     *)
LEMMA LeastNumber ==
  ASSUME NEW S \in SUBSET Nat, S # {}
  PROVE  \E m \in S : \A n \in S : m <= n
<1>1. PICK x \in S : \A y \in S : ~ (<<y, x>> \in OpToRel(<, Nat))
  BY WFMin, NatLessThanWellFounded, Zenon
<1>2. \A y \in S : ~ (y < x)
  BY <1>1, Zenon DEF OpToRel
<1> QED
  BY <1>2

(* A bounded one has a greatest: the high-water mark of a sweep exists.    *)
LEMMA GreatestNumber ==
  ASSUME NEW S \in SUBSET Nat, S # {}, NEW b \in Nat, \A n \in S : n <= b
  PROVE  Max(S) \in S
<1> DEFINE T == {k \in Nat : \E n \in S : k = b - n}
<1>1. T # {}
  <2>1. PICK x \in S : TRUE
    BY Zenon
  <2>2. b - x \in T
    BY <2>1
  <2> QED
    BY <2>2, Zenon
<1>2. PICK k \in T : \A n \in T : k <= n
  BY <1>1, LeastNumber, Zenon
<1>3. PICK m \in S : k = b - m
  BY <1>2
<1>4. ASSUME NEW n \in S PROVE m >= n
  <2>1. b - n \in T
    OBVIOUS
  <2> QED
    BY <1>2, <1>3, <2>1
<1> QED
  BY <1>3, <1>4, Zenon DEF Max

(* A page is cut from the rows that match.                                 *)
LEMMA PageOfRows == \A S, limit : FirstRows(S, limit) \subseteq S
  BY Zenon DEF FirstRows

(* Apart from Admit no command of the kernel makes a Turn or unmakes one.  *)
LEMMA ExistenceKept ==
  ASSUME OwnerInv,
         \/ \E t \in Turn : RequestCancel(t)
         \/ \E t \in Turn, a \in Attempt : ClaimAttempt(t, a)
         \/ \E a \in Attempt : HeartbeatAttempt(a)
         \/ \E a \in Attempt, o \in Operation, effects \in SUBSET Effect :
              \/ CommitOperation(a, o, effects)
              \/ \E status \in TerminalStatus, intent \in Intent :
                    CommitTerminal(a, o, effects, status, intent)
         \/ \E t \in Turn, reason \in ReclaimReason : ReconcileTerminal(t, reason)
         \/ Tick
         \/ UNCHANGED vars
  PROVE  \A u \in Turn : turn'[u].status = "absent" <=> turn[u].status = "absent"
<1> SUFFICES ASSUME NEW u \in Turn PROVE turn'[u].status = "absent" <=> turn[u].status = "absent"
  OBVIOUS
<1>0. turn[u] \in TurnRow /\ turn \in [Turn -> TurnRow]
  BY DEF OwnerInv, TypeOK
<1>1. ASSUME NEW t \in Turn, RequestCancel(t) PROVE turn'[u].status = turn[u].status
  BY <1>0, <1>1, Zenon DEF RequestCancel, TurnRow
<1>2. ASSUME NEW t \in Turn, NEW a \in Attempt, ClaimAttempt(t, a)
      PROVE  turn'[u].status = "absent" <=> turn[u].status = "absent"
  BY <1>0, <1>2, Zenon DEF ClaimAttempt, MayOpenEpoch, Unfinished, TurnRow
<1>3. ASSUME NEW a \in Attempt, HeartbeatAttempt(a) PROVE turn'[u].status = turn[u].status
  BY <1>3, Zenon DEF HeartbeatAttempt
<1>4. ASSUME NEW a \in Attempt, NEW o \in Operation, NEW effects \in SUBSET Effect,
             CommitOperation(a, o, effects)
      PROVE  turn'[u].status = turn[u].status
  BY <1>0, <1>4 DEF CommitOperation, TurnRow
<1>5. ASSUME NEW a \in Attempt, NEW o \in Operation, NEW effects \in SUBSET Effect,
             NEW status \in TerminalStatus, NEW intent \in Intent,
             CommitTerminal(a, o, effects, status, intent)
      PROVE  turn'[u].status = "absent" <=> turn[u].status = "absent"
  BY <1>0, <1>5, Zenon DEF CommitTerminal, Holds, Unfinished, TerminalStatus, TurnRow
<1>6. ASSUME NEW t \in Turn, NEW reason \in ReclaimReason, ReconcileTerminal(t, reason)
      PROVE  turn'[u].status = "absent" <=> turn[u].status = "absent"
  BY <1>0, <1>6, Zenon DEF ReconcileTerminal, MayRetire, Unfinished, ReasonStatus, TurnRow
<1>7. ASSUME Tick PROVE turn'[u].status = turn[u].status
  BY <1>0, <1>7 DEF Tick, TurnRow
<1>8. ASSUME UNCHANGED vars PROVE turn'[u].status = turn[u].status
  BY <1>8 DEF vars
<1> QED
  BY <1>1, <1>2, <1>3, <1>4, <1>5, <1>6, <1>7, <1>8, Zenon

(* Admit gives a new Turn the next row and leaves the others where they    *)
(* are, so what the loops have read still names rows.                      *)
LEMMA AdmitKeeps ==
  ASSUME OwnerInv, DiscoveryInv, NEW t \in Turn, AdmitInOrder(t)
  PROVE  DiscoveryInv'
<1> USE DEF AdmitInOrder
<1>1. /\ order' \in Seq(Turn) /\ Len(order') = Len(order) + 1
      /\ Row = 1..Len(order) /\ Row' = 1..Len(order')
      /\ order'[Len(order) + 1] = t /\ \A i \in Row : order'[i] = order[i]
  BY DEF DiscoveryInv, Row
<1>2. turn[t].status = "absent" /\ turn'[t].status # "absent"
  <2>1. turn \in [Turn -> TurnRow] /\ turn[t] \in TurnRow
    BY DEF OwnerInv, TypeOK
  <2> QED
    BY <2>1 DEF Admit, TurnRow
<1>3. \A u \in Turn \ {t} : turn'[u] = turn[u]
  BY DEF Admit, OwnerInv, TypeOK
<1>4. \A i \in Row : order[i] # t /\ order[i] \in Turn
  BY <1>2, <1>1 DEF DiscoveryInv, RowsCoverTurns
<1>5. \A i, j \in Row' : order'[i] = order'[j] => i = j
  BY <1>1, <1>4 DEF DiscoveryInv, RowsCoverTurns
<1>6. ASSUME NEW u \in Turn PROVE turn'[u].status # "absent" <=> \E i \in Row' : order'[i] = u
  <2>1. CASE u = t
    BY <1>1, <1>2, <2>1
  <2>2. CASE u # t
    BY <1>1, <1>3, <2>2 DEF DiscoveryInv, RowsCoverTurns
  <2> QED
    BY <2>1, <2>2, Zenon
<1>7. Row \subseteq Row'
  BY <1>1 DEF DiscoveryInv
<1>8. candidates' \in [Attempt -> SUBSET Row'] /\ page' \subseteq [id : Row', reason : ReclaimReason]
  BY <1>7 DEF DiscoveryInv
<1>9. SweepInv'
  BY <1>1 DEF DiscoveryInv, SweepInv
<1> QED
  BY <1>1, <1>5, <1>6, <1>8, <1>9, Zenon DEF DiscoveryInv, RowsCoverTurns

(* A command that admits nobody keeps the rows as they are.                *)
LEMMA RowsKept ==
  ASSUME RowsCoverTurns, order' = order,
         \A u \in Turn : turn'[u].status = "absent" <=> turn[u].status = "absent"
  PROVE  RowsCoverTurns'
  BY DEF RowsCoverTurns, Row

(* scanClaimableTurns reads rows, and changes nothing of the kernel's.     *)
LEMMA ScanClaimableKeeps ==
  ASSUME DiscoveryInv, NEW a \in Attempt, ScanClaimable(a)
  PROVE  DiscoveryInv' /\ UNCHANGED vars
<1> DEFINE rows == {i \in DOMAIN order : Discoverable(order[i])}
<1>1. FirstRows(rows, ScanLimit) \in SUBSET Row
  BY PageOfRows DEF Row
<1>2. candidates' = [candidates EXCEPT ![a] = FirstRows(rows, ScanLimit)]
  BY DEF ScanClaimable
<1> HIDE DEF rows
<1>3. candidates' \in [Attempt -> SUBSET Row]
  BY <1>1, <1>2 DEF DiscoveryInv
<1>4. UNCHANGED <<turn, order, page, sweep>> /\ UNCHANGED vars
  BY DEF ScanClaimable, vars
<1> QED
  BY <1>3, <1>4 DEF DiscoveryInv, RowsCoverTurns, SweepInv, Row

(* ClaimNext claims the Turn of a row it has read, or drops the row.       *)
LEMMA ClaimNextKeeps ==
  ASSUME OwnerInv, DiscoveryInv, NEW a \in Attempt, ClaimNext(a)
  PROVE  DiscoveryInv' /\ [Next]_vars
<1>1. PICK i \in candidates[a] :
         IF MayOpenEpoch(order[i])
         THEN ClaimAttempt(order[i], a) /\ candidates' = [candidates EXCEPT ![a] = {}]
         ELSE UNCHANGED vars /\ candidates' = [candidates EXCEPT ![a] = @ \ {i}]
  BY DEF ClaimNext
<1>2. i \in Row /\ order[i] \in Turn
  BY <1>1 DEF DiscoveryInv, Row
<1>3. (\E t \in Turn : ClaimAttempt(t, a)) \/ UNCHANGED vars
  BY <1>1, <1>2, Zenon
<1>4. [Next]_vars
  BY <1>3 DEF Next, Command
<1>5. candidates' \in [Attempt -> SUBSET Row]
  BY <1>1, Zenon DEF DiscoveryInv
<1>6. RowsCoverTurns'
  BY <1>3, ExistenceKept, RowsKept, Zenon DEF ClaimNext, DiscoveryInv
<1> QED
  BY <1>4, <1>5, <1>6, Zenon DEF DiscoveryInv, SweepInv, Row, ClaimNext

(* ListReclaimableTurns reads rows, and keeps those with a reason to       *)
(* retire: an ordinary lapsed lease never reaches ReconcileTerminal.       *)
LEMMA ScanReclaimableKeeps ==
  ASSUME DiscoveryInv, ScanReclaimable
  PROVE  DiscoveryInv' /\ UNCHANGED vars
<1> DEFINE rows == FirstRows({i \in DOMAIN order : Reclaimable(order[i])}, BatchLimit)
<1>1. rows \subseteq Row
  BY PageOfRows DEF Row
<1> HIDE DEF rows
<1>2. page' = {c \in {Candidate(i) : i \in rows} : Actionable(c)}
  BY DEF ScanReclaimable, ReclaimPage, rows
<1>3. ASSUME NEW c \in page' PROVE c \in [id : Row, reason : ReclaimReason]
  <2>1. PICK i \in rows : c = Candidate(i)
    BY <1>2
  <2>2. c.reason # "lease_expired"
    BY <1>2 DEF Actionable
  <2> QED
    BY <1>1, <2>1, <2>2 DEF Candidate, ReclaimReason
<1>4. UNCHANGED <<turn, order, candidates, sweep>> /\ UNCHANGED vars
  BY DEF ScanReclaimable, vars
<1> QED
  BY <1>3, <1>4 DEF DiscoveryInv, RowsCoverTurns, SweepInv, Row

(* ReconcileOnce retires the Turn of a row for the reason it has read, if  *)
(* the kernel still agrees, and drops the row.                             *)
LEMMA ReconcileNextKeeps ==
  ASSUME OwnerInv, DiscoveryInv, ReconcileNext
  PROVE  DiscoveryInv' /\ [Next]_vars
<1>1. PICK c \in page :
        /\ IF MayRetire(order[c.id], c.reason) THEN ReconcileTerminal(order[c.id], c.reason)
           ELSE UNCHANGED vars
        /\ page' = page \ {c}
  BY DEF ReconcileNext
<1>2. order[c.id] \in Turn /\ c.reason \in ReclaimReason
  BY <1>1 DEF DiscoveryInv, Row
<1>3. (\E t \in Turn, reason \in ReclaimReason : ReconcileTerminal(t, reason)) \/ UNCHANGED vars
  BY <1>1, <1>2
<1>4. [Next]_vars
  BY <1>3, Zenon DEF Next, Command
<1>5. RowsCoverTurns'
  BY <1>3, ExistenceKept, RowsKept DEF ReconcileNext, DiscoveryInv
<1> QED
  BY <1>1, <1>4, <1>5 DEF DiscoveryInv, SweepInv, Row, ReconcileNext

(* The mark of a cycle is a row: it is fixed once, at the last row due.    *)
LEMMA HighWaterMark ==
  ASSUME order \in Seq(Turn)
  PROVE  /\ Max(DueRows(0, Len(order)) \cup {0}) \in Nat
         /\ Max(DueRows(0, Len(order)) \cup {0}) <= Len(order)
<1> DEFINE S == DueRows(0, Len(order)) \cup {0}
<1>1. S \in SUBSET Nat /\ S # {} /\ Len(order) \in Nat /\ \A n \in S : n <= Len(order)
  BY DEF DueRows
<1>2. Max(S) \in S
  <2> HIDE DEF S
  <2> QED
    BY <1>1, GreatestNumber, Zenon
<1> QED
  BY <1>1, <1>2

(* DiscoverExpiredReservations reads rows between the cursor and the mark. *)
LEMMA ScanExpiredKeeps ==
  ASSUME DiscoveryInv, ScanExpired
  PROVE  DiscoveryInv' /\ UNCHANGED vars
<1> DEFINE high == IF sweep.high > 0 THEN sweep.high ELSE Max(DueRows(0, Len(order)) \cup {0})
           ids  == FirstRows(DueRows(sweep.row, high), SweepLimit)
           rows == {DueRow(i) : i \in ids}
           exhausted == Cardinality(ids) < SweepLimit \/ \E i \in ids : i >= high
<1>1. sweep.row \in Nat /\ sweep.high \in Nat /\ sweep.high <= Len(order) /\ order \in Seq(Turn)
  BY DEF DiscoveryInv, SweepInv
<1>2. high \in Nat /\ high <= Len(order)
  BY <1>1, HighWaterMark
<1>3. exhausted \in BOOLEAN
  BY Zenon
<1>4. sweep' = IF ids = {} THEN NoSweep
               ELSE [row |-> sweep.row, high |-> high, rows |-> rows, exhausted |-> exhausted]
  BY DEF ScanExpired
<1> HIDE DEF high, exhausted
<1>5. \A i \in ids : i \in Nat /\ sweep.row < i /\ i <= high
  BY <1>1, PageOfRows DEF DueRows
<1> HIDE DEF ids
<1>6. /\ rows \in SUBSET SweepRow
      /\ \A c \in rows : sweep.row < c.id /\ c.id <= high
      /\ \A c, d \in rows : c.id = d.id => c = d
  <2>1. ASSUME NEW c \in rows
        PROVE  c \in SweepRow /\ c.id \in ids /\ c = DueRow(c.id)
    <3>1. PICK i \in ids : c = DueRow(i)
      OBVIOUS
    <3>2. (Vacant(order[i]) /\ ~turn[order[i]].cancel) \in BOOLEAN
      OBVIOUS
    <3>3. c.id = i
      BY <3>1, Zenon DEF DueRow
    <3> QED
      BY <1>5, <3>1, <3>2, <3>3 DEF DueRow, SweepRow
  <2> HIDE DEF rows
  <2> QED
    BY <1>5, <2>1, Zenon
<1> HIDE DEF rows
<1>7. UNCHANGED <<turn, order, candidates, page>> /\ UNCHANGED vars
  BY DEF ScanExpired, vars
<1>8. SweepInv'
  <2>1. CASE ids = {}
    BY <1>1, <1>4, <1>7, <2>1 DEF SweepInv, NoSweep
  <2>2. CASE ids # {}
    BY <1>1, <1>2, <1>3, <1>4, <1>6, <1>7, <2>2, Zenon DEF SweepInv
  <2> QED
    BY <2>1, <2>2, Zenon
<1> QED
  BY <1>7, <1>8 DEF DiscoveryInv, RowsCoverTurns, Row

(* A pass retires the Turn of the least row it has read, if the kernel     *)
(* still agrees, and moves the cursor there; the other rows lie beyond.    *)
LEMMA SweepNextKeeps ==
  ASSUME OwnerInv, DiscoveryInv, SweepNext
  PROVE  DiscoveryInv' /\ [Next]_vars /\ (sweep.row < sweep'.row \/ sweep' = NoSweep)
<1>1. PICK c \in sweep.rows :
        /\ \A d \in sweep.rows : c.id <= d.id
        /\ IF c.ready /\ MayRetire(order[c.id], "reservation_expired")
           THEN ReconcileTerminal(order[c.id], "reservation_expired")
           ELSE UNCHANGED vars
        /\ sweep' = IF sweep.rows = {c} /\ sweep.exhausted THEN NoSweep
                    ELSE [sweep EXCEPT !.row = c.id, !.rows = @ \ {c}]
  BY Zenon DEF SweepNext
<1>2. /\ c \in SweepRow /\ c.id \in Nat /\ sweep.row \in Nat /\ sweep.high \in Nat
      /\ sweep.row < c.id /\ c.id <= sweep.high /\ sweep.high <= Len(order)
  BY <1>1 DEF DiscoveryInv, SweepInv, SweepRow
<1>3. c.id \in Row /\ order[c.id] \in Turn
  BY <1>2 DEF DiscoveryInv, Row
<1>4. (\E t \in Turn, reason \in ReclaimReason : ReconcileTerminal(t, reason)) \/ UNCHANGED vars
  BY <1>1, <1>3, Zenon DEF ReclaimReason
<1>5. [Next]_vars
  BY <1>4 DEF Next, Command
<1>6. UNCHANGED <<order, candidates, page>>
  BY Zenon DEF SweepNext
<1>7. RowsCoverTurns'
  BY <1>4, <1>6, ExistenceKept, RowsKept, Zenon DEF DiscoveryInv
<1>8. SweepInv' /\ (sweep.row < sweep'.row \/ sweep' = NoSweep)
  <2>1. CASE sweep.rows = {c} /\ sweep.exhausted
    BY <1>1, <1>2, <1>6, <2>1 DEF SweepInv, NoSweep, DiscoveryInv
  <2>2. CASE ~(sweep.rows = {c} /\ sweep.exhausted)
    <3>1. /\ sweep' \in [row : Nat, high : Nat, rows : SUBSET SweepRow, exhausted : BOOLEAN]
          /\ sweep'.row = c.id /\ sweep'.high = sweep.high /\ sweep'.rows = sweep.rows \ {c}
      BY <1>1, <1>2, <2>2, Zenon DEF DiscoveryInv, SweepInv
    <3>2. ASSUME NEW d \in sweep.rows \ {c} PROVE c.id < d.id /\ d.id <= sweep.high
      BY <1>1, <1>2 DEF DiscoveryInv, SweepInv, SweepRow
    <3> QED
      BY <1>2, <1>6, <3>1, <3>2 DEF DiscoveryInv, SweepInv
  <2> QED
    BY <2>1, <2>2
<1> QED
  BY <1>5, <1>6, <1>7, <1>8 DEF DiscoveryInv, Row

(* What executors and users do are kernel steps that admit nobody.         *)
LEMMA ExecuteKeeps ==
  ASSUME OwnerInv, DiscoveryInv, Execute
  PROVE  DiscoveryInv' /\ [Next]_vars
<1>1. /\ {} \in SUBSET Effect /\ "finalize" \in Intent
      /\ UNCHANGED <<order, candidates, page, sweep>>
  BY DEF Intent, Execute, recovery
<1>2. \/ \E t \in Turn : RequestCancel(t)
      \/ \E a \in Attempt : HeartbeatAttempt(a)
      \/ \E a \in Attempt, o \in Operation, effects \in SUBSET Effect :
           \/ CommitOperation(a, o, effects)
           \/ \E status \in TerminalStatus, intent \in Intent :
                 CommitTerminal(a, o, effects, status, intent)
      \/ Tick
  BY <1>1, Zenon DEF Execute
<1>3. [Next]_vars
  BY <1>2, Zenon DEF Next, Command
<1>4. \A u \in Turn : turn'[u].status = "absent" <=> turn[u].status = "absent"
  BY <1>2, ExistenceKept, Zenon
<1> QED
  BY <1>1, <1>3, <1>4, RowsKept DEF DiscoveryInv, SweepInv, Row

(* The loops over the kernel keep their invariant, take kernel steps only, *)
(* and never move the sweep's cursor back within a cycle.                  *)
CursorStep == sweep.row <= sweep'.row \/ sweep' = NoSweep

LEMMA DiscoveryStep ==
  OwnerInv /\ DiscoveryInv /\ [RecoveryNext]_recoveryVars
    => DiscoveryInv' /\ [Next]_vars /\ CursorStep
<1> SUFFICES ASSUME OwnerInv, DiscoveryInv, [RecoveryNext]_recoveryVars
             PROVE  DiscoveryInv' /\ [Next]_vars /\ CursorStep
  OBVIOUS
<1>0. ASSUME sweep' = sweep PROVE CursorStep
  BY <1>0 DEF CursorStep, DiscoveryInv, SweepInv
<1>1. ASSUME NEW t \in Turn, AdmitInOrder(t) PROVE DiscoveryInv' /\ [Next]_vars /\ CursorStep
  <2>1. DiscoveryInv'
    BY <1>1, AdmitKeeps
  <2>2. [Next]_vars
    BY <1>1, Zenon DEF AdmitInOrder, Next, Command
  <2> QED
    BY <1>0, <1>1, <2>1, <2>2 DEF AdmitInOrder
<1>2. ASSUME NEW a \in Attempt, ScanClaimable(a) PROVE DiscoveryInv' /\ [Next]_vars /\ CursorStep
  BY <1>0, <1>2, ScanClaimableKeeps, Zenon DEF ScanClaimable
<1>3. ASSUME NEW a \in Attempt, ClaimNext(a) PROVE DiscoveryInv' /\ [Next]_vars /\ CursorStep
  BY <1>0, <1>3, ClaimNextKeeps DEF ClaimNext
<1>4. ASSUME ScanReclaimable PROVE DiscoveryInv' /\ [Next]_vars /\ CursorStep
  BY <1>0, <1>4, ScanReclaimableKeeps, Zenon DEF ScanReclaimable
<1>5. ASSUME ReconcileNext PROVE DiscoveryInv' /\ [Next]_vars /\ CursorStep
  BY <1>0, <1>5, ReconcileNextKeeps DEF ReconcileNext
<1>6. ASSUME ScanExpired PROVE DiscoveryInv' /\ [Next]_vars /\ CursorStep
  <2>1. sweep' = NoSweep \/ sweep'.row = sweep.row
    BY <1>6, Zenon DEF ScanExpired
  <2>2. CursorStep
    BY <2>1 DEF CursorStep, DiscoveryInv, SweepInv
  <2> QED
    BY <1>6, <2>2, ScanExpiredKeeps
<1>7. ASSUME SweepNext PROVE DiscoveryInv' /\ [Next]_vars /\ CursorStep
  <2>1. DiscoveryInv' /\ [Next]_vars /\ (sweep.row < sweep'.row \/ sweep' = NoSweep)
    BY <1>7, SweepNextKeeps
  <2>2. CursorStep
    BY <2>1 DEF CursorStep, DiscoveryInv, SweepInv
  <2> QED
    BY <2>1, <2>2
<1>8. ASSUME Execute PROVE DiscoveryInv' /\ [Next]_vars /\ CursorStep
  BY <1>0, <1>8, ExecuteKeeps, Zenon DEF Execute, recovery
<1>9. ASSUME UNCHANGED recoveryVars PROVE DiscoveryInv' /\ [Next]_vars /\ CursorStep
  <2>1. UNCHANGED <<vars, order, candidates, page, sweep>> /\ UNCHANGED turn
    BY <1>9 DEF recoveryVars, recovery, vars
  <2> QED
    BY <1>0, <2>1 DEF DiscoveryInv, RowsCoverTurns, SweepInv, Row
<1> QED
  BY <1>1, <1>2, <1>3, <1>4, <1>5, <1>6, <1>7, <1>8, <1>9, Zenon
     DEF RecoveryNext, Claiming, Reconciling, Sweeping

(* At first there is no row, and no loop has read anything.                *)
LEMMA DiscoveryStart == RecoveryInit => OwnerInv /\ DiscoveryInv
<1> SUFFICES ASSUME RecoveryInit PROVE OwnerInv /\ DiscoveryInv
  OBVIOUS
<1>1. OwnerInv
  BY OwnerInit DEF RecoveryInit
<1>2. order \in Seq(Turn) /\ Row = {} /\ Len(order) = 0
  BY DEF RecoveryInit, Row
<1>3. RowsCoverTurns
  BY <1>2 DEF RecoveryInit, Init, RowsCoverTurns
<1>4. SweepInv
  BY <1>2 DEF RecoveryInit, NoSweep, SweepInv, SweepRow
<1> QED
  BY <1>1, <1>2, <1>3, <1>4 DEF RecoveryInit, DiscoveryInv

(* ClaimNext, the Reconciler and the expired-reservation sweep, reading    *)
(* pages without a lock, always hold pages of rows that exist, in which    *)
(* every admitted Turn has exactly one row, each with a reason the kernel  *)
(* retires for.                                                            *)
THEOREM DiscoveryInvariant == RecoverySpec => [](OwnerInv /\ DiscoveryInv)
<1>1. OwnerInv /\ DiscoveryInv /\ [RecoveryNext]_recoveryVars => OwnerInv' /\ DiscoveryInv'
  <2> SUFFICES ASSUME OwnerInv, DiscoveryInv, [RecoveryNext]_recoveryVars
               PROVE  OwnerInv' /\ DiscoveryInv'
    OBVIOUS
  <2>1. DiscoveryInv' /\ [Next]_vars
    BY DiscoveryStep
  <2>2. OwnerInv'
    BY <2>1, TypeStep, OwnerStep DEF OwnerInv
  <2> QED
    BY <2>1, <2>2
<1> QED
  BY <1>1, DiscoveryStart, PTL DEF RecoverySpec

(* The loops implement the kernel: a row that was claimed, cancelled or    *)
(* retired after the page was read costs a refused try and nothing else.   *)
THEOREM DiscoveryImplementsKernel == RecoverySpec => Spec
<1>1. RecoveryInit => Init
  BY DEF RecoveryInit
<1>2. OwnerInv /\ DiscoveryInv /\ [RecoveryNext]_recoveryVars => [Next]_vars
  BY DiscoveryStep
<1>3. RecoverySpec => RecoveryInit /\ [][RecoveryNext]_recoveryVars
  BY PTL DEF RecoverySpec
<1>4. RecoverySpec => [][Next]_vars
  BY <1>2, <1>3, DiscoveryInvariant, PTL
<1> QED
  BY <1>1, <1>3, <1>4, PTL DEF Spec

(* With the loops running, a caller still sees the promised lifecycle.     *)
THEOREM DiscoveryKeepsLifecycle == RecoverySpec => ImplementsLifecycle
  BY DiscoveryImplementsKernel, KernelImplementsLifecycle, PTL

(* The expired-reservation cursor only moves forward until its cycle ends: *)
(* however the passes interleave with claims, commits and admissions, no   *)
(* row is tried twice in a cycle.                                          *)
THEOREM CursorMovesForward == RecoverySpec => [][CursorStep]_recoveryVars
<1>1. OwnerInv /\ DiscoveryInv /\ [RecoveryNext]_recoveryVars => CursorStep
  BY DiscoveryStep
<1>2. RecoverySpec => [][RecoveryNext]_recoveryVars
  BY PTL DEF RecoverySpec
<1> QED
  BY <1>1, <1>2, DiscoveryInvariant, PTL

-----------------------------------------------------------------------------
(***************************************************************************)
(* What TLC checks of the loops is that no Turn stays abandoned forever.   *)
(* That no step but its retirement ends that state is proved here; the two *)
(* together say that every abandoned Turn is retired.                      *)
(***************************************************************************)

(* Nothing of the row of t that decides about its owner changes, and its   *)
(* cancellation and the end of its reservation stay.                       *)
LeftAlone(t) ==
  /\ turn'[t].status = turn[t].status /\ turn'[t].active = turn[t].active
  /\ turn'[t].fence = turn[t].fence
  /\ turn[t].cancel => turn'[t].cancel
  /\ turn[t].ttl = 0 => turn'[t].ttl = 0
  /\ turn[t].active # NoAttempt => (Live(turn[t].active)' => Live(turn[t].active))

NoEpochLeft(t) ==
  turn[t].cancel \/ turn[t].fence >= MaxTurnAttempts \/ (ReservationAware /\ turn[t].ttl = 0)

(* A Turn without an owner that may open no epoch either is left alone by  *)
(* every command of the kernel but its own retirement: its last epoch can  *)
(* neither renew its lease nor commit.                                     *)
LEMMA AbandonedStep ==
  ASSUME OwnerInv, [Next]_vars, NEW t \in Turn, Unfinished(t), Vacant(t), NoEpochLeft(t)
  PROVE  LeftAlone(t) \/ turn'[t].status \in TerminalStatus
<1>a. /\ turn \in [Turn -> TurnRow] /\ attempt \in [Attempt -> AttemptRow]
      /\ SingleOwner /\ ActiveRuns
  BY DEF OwnerInv, TypeOK
<1>b. /\ turn[t].active \in Attempt \cup {NoAttempt} /\ NoAttempt \notin Attempt
      /\ turn[t].fence \in Nat /\ MaxTurnAttempts \in Nat /\ turn[t].ttl \in Nat
  BY <1>a, TurnColumns, ConstantsAssumption
<1>c. ASSUME turn'[t] = turn[t],
             turn[t].active # NoAttempt =>
               attempt'[turn[t].active].lease = attempt[turn[t].active].lease
      PROVE  LeftAlone(t)
  BY <1>c, Zenon DEF LeftAlone, Live
<1>d. ASSUME NEW u \in Turn
      PROVE  turn[t].active # NoAttempt =>
               Expired(u)[turn[t].active].lease = attempt[turn[t].active].lease
  <2>1. \A a \in Attempt : Expired(u)[a].lease = attempt[a].lease
    BY <1>a DEF Expired, AttemptRow
  <2> QED
    BY <1>b, <2>1, Zenon
<1>e. ASSUME NEW a \in Attempt, Holds(a) PROVE attempt[a].turn \in Turn \ {t} /\ a # turn[t].active
  BY <1>a, <1>b, <1>e DEF Holds, OwnsFence, SingleOwner, Vacant, Live, ActiveRuns
<1>1. ASSUME NEW u \in Turn, Admit(u) PROVE LeftAlone(t)
  <2>1. u # t
    BY <1>1 DEF Admit, Unfinished
  <2> QED
    BY <1>1, <1>a, <1>c, <2>1, Zenon DEF Admit
<1>2. ASSUME NEW u \in Turn, RequestCancel(u) PROVE LeftAlone(t)
  <2>1. /\ turn'[t].status = turn[t].status /\ turn'[t].active = turn[t].active
        /\ turn'[t].fence = turn[t].fence /\ turn'[t].ttl = turn[t].ttl
        /\ turn[t].cancel => turn'[t].cancel
    BY <1>2, <1>a DEF RequestCancel, TurnRow
  <2> QED
    BY <1>2, <2>1, Zenon DEF RequestCancel, LeftAlone, Live
<1>3. ASSUME NEW u \in Turn, NEW a \in Attempt, ClaimAttempt(u, a) PROVE LeftAlone(t)
  <2>1. u # t
    BY <1>3, <1>b DEF ClaimAttempt, MayOpenEpoch, Uncancelled, WithinBudget, NoEpochLeft
  <2>2. a # turn[t].active
    BY <1>3, <1>a, <1>b DEF ClaimAttempt, ActiveRuns
  <2>3. turn'[t] = turn[t]
    BY <1>3, <1>a, <2>1, Zenon DEF ClaimAttempt
  <2>4. turn[t].active # NoAttempt => attempt'[turn[t].active] = Expired(u)[turn[t].active]
    BY <1>3, <1>b, <2>2, Zenon DEF ClaimAttempt, Expired
  <2> QED
    BY <1>c, <1>d, <2>3, <2>4, Zenon
<1>4. ASSUME NEW a \in Attempt, HeartbeatAttempt(a) PROVE LeftAlone(t)
  <2>1. a # turn[t].active
    BY <1>4, <1>e, Zenon DEF HeartbeatAttempt
  <2> QED
    BY <1>4, <1>a, <1>b, <1>c, <2>1 DEF HeartbeatAttempt
<1>5. ASSUME NEW a \in Attempt, NEW o \in Operation, NEW effects \in SUBSET Effect,
             CommitOperation(a, o, effects)
      PROVE  LeftAlone(t)
  <2>1. attempt[a].turn \in Turn \ {t}
    BY <1>5, <1>e, Zenon DEF CommitOperation
  <2> QED
    BY <1>5, <1>a, <1>c, <2>1 DEF CommitOperation
<1>6. ASSUME NEW a \in Attempt, NEW o \in Operation, NEW effects \in SUBSET Effect,
             NEW status \in TerminalStatus, NEW intent \in Intent,
             CommitTerminal(a, o, effects, status, intent)
      PROVE  LeftAlone(t)
  <2>1. attempt[a].turn \in Turn \ {t} /\ a # turn[t].active
    BY <1>6, <1>e, Zenon DEF CommitTerminal
  <2>2. turn'[t] = turn[t]
    BY <1>6, <1>a, <2>1, Zenon DEF CommitTerminal
  <2>3. attempt' = [attempt EXCEPT ![a].status = status]
    BY <1>6, Zenon DEF CommitTerminal
  <2> QED
    BY <1>a, <1>b, <1>c, <2>1, <2>2, <2>3
<1>7. ASSUME NEW u \in Turn, NEW reason \in ReclaimReason, ReconcileTerminal(u, reason)
      PROVE  LeftAlone(t) \/ turn'[t].status \in TerminalStatus
  <2>1. CASE u = t
    <3>1. turn'[t].status = ReasonStatus(reason)
      BY <1>7, <1>a, <2>1 DEF ReconcileTerminal, TurnRow
    <3> QED
      BY <3>1 DEF ReasonStatus, TerminalStatus
  <2>2. CASE u # t
    <3>1. turn'[t] = turn[t] /\ attempt' = Expired(u)
      BY <1>7, <1>a, <2>2, Zenon DEF ReconcileTerminal
    <3> QED
      BY <1>c, <1>d, <3>1, Zenon
  <2> QED
    BY <2>1, <2>2
<1>8. ASSUME Tick PROVE LeftAlone(t)
  <2>1. /\ turn'[t].status = turn[t].status /\ turn'[t].active = turn[t].active
        /\ turn'[t].fence = turn[t].fence /\ turn'[t].cancel = turn[t].cancel
        /\ turn'[t].ttl = Sooner(turn[t].ttl)
    BY <1>8, <1>a DEF Tick, TurnRow
  <2>2. \A a \in Attempt : attempt'[a].lease = Sooner(attempt[a].lease) /\ attempt[a].lease \in Nat
    BY <1>8, <1>a DEF Tick, AttemptRow
  <2>3. turn[t].active # NoAttempt => (Live(turn[t].active)' => Live(turn[t].active))
    BY <1>b, <2>1, <2>2 DEF Live, Sooner
  <2>4. turn[t].ttl = 0 => turn'[t].ttl = 0
    BY <2>1 DEF Sooner
  <2> QED
    BY <2>1, <2>3, <2>4, Zenon DEF LeftAlone
<1>9. ASSUME UNCHANGED vars PROVE LeftAlone(t)
  BY <1>9, <1>c, Zenon DEF vars
<1> QED
  BY <1>1, <1>2, <1>3, <1>4, <1>5, <1>6, <1>7, <1>8, <1>9, Zenon DEF Next, Command

(* A Turn that no executor may take again, and one whose reservation ran   *)
(* out while nobody owned it, stay so until they are retired.              *)
Retired(t) == turn[t].status \in TerminalStatus

UntilRetired(t) ==
  /\ Stuck(t) => Stuck(t)' \/ Retired(t)'
  /\ ReservationAware /\ Overdue(t) => Overdue(t)' \/ Retired(t)'

StayUntilRetired == \A t \in Turn : UntilRetired(t)

(* Retirement is the only way out for both: no claim, heartbeat or late    *)
(* commit of the last epoch, and no passage of time, brings such a Turn    *)
(* back to an executor.                                                    *)
THEOREM AbandonedUntilRetired == Spec => [][StayUntilRetired]_vars
<1>1. OwnerInv /\ [Next]_vars => StayUntilRetired
  <2> SUFFICES ASSUME OwnerInv, [Next]_vars, NEW t \in Turn PROVE UntilRetired(t)
    BY Zenon DEF StayUntilRetired
  <2>1. ASSUME Unfinished(t), Vacant(t), LeftAlone(t) PROVE Unfinished(t)' /\ Vacant(t)'
    BY <2>1, Zenon DEF LeftAlone, Unfinished, Vacant
  <2>2. ASSUME Stuck(t) PROVE Stuck(t)' \/ Retired(t)'
    <3>1. Unfinished(t) /\ Vacant(t) /\ NoEpochLeft(t)
      BY <2>2, Zenon DEF Stuck, NoEpochLeft
    <3>2. ASSUME LeftAlone(t) PROVE Stuck(t)'
      BY <2>1, <2>2, <3>1, <3>2, Zenon DEF LeftAlone, Stuck
    <3> QED
      BY <3>1, <3>2, AbandonedStep, Zenon DEF Retired
  <2>3. ASSUME ReservationAware, Overdue(t)
        PROVE  Overdue(t)' \/ Retired(t)'
    <3>1. Unfinished(t) /\ Vacant(t) /\ NoEpochLeft(t) /\ turn[t].ttl = 0
      BY <2>3, Zenon DEF Overdue, NoEpochLeft
    <3>2. ASSUME LeftAlone(t) PROVE Overdue(t)'
      BY <2>1, <3>1, <3>2, Zenon DEF LeftAlone, Overdue
    <3> QED
      BY <3>1, <3>2, AbandonedStep, Zenon DEF Retired
  <2> QED
    BY <2>2, <2>3, Zenon DEF UntilRetired
<1> QED
  BY <1>1, Ownership, PTL DEF Spec

(* A Turn that is stuck is retired, unless nobody can adjudicate its       *)
(* usage: where the loops and whoever schedules the expired-reservation    *)
(* pass leave none stuck for good, the state ends the way it should.       *)
THEOREM StuckLeadsToRetired ==
  RecoverySpec /\ ExpiryScheduled /\ StuckTurnsRetire =>
    \A t \in Turn : Stuck(t) ~> (Retired(t) \/ UsageUnknown(t, "release", {}))
<1> SUFFICES ASSUME NEW t \in Turn
             PROVE  RecoverySpec /\ ExpiryScheduled /\ StuckTurnsRetire =>
                      (Stuck(t) ~> (Retired(t) \/ UsageUnknown(t, "release", {})))
  OBVIOUS
<1>1. ExpiryScheduled /\ StuckTurnsRetire => []<>(Stuck(t) => UsageUnknown(t, "release", {}))
  BY DEF StuckTurnsRetire
<1>2. [StayUntilRetired]_vars => (Stuck(t) => Stuck(t)' \/ Retired(t)')
  <2>1. UNCHANGED vars => (Stuck(t) => Stuck(t)')
    BY Zenon DEF vars, Stuck, Unfinished, Vacant, Live
  <2> QED
    BY <2>1, Zenon DEF StayUntilRetired, UntilRetired
<1> QED
  BY <1>1, <1>2, DiscoveryImplementsKernel, AbandonedUntilRetired, PTL

=============================================================================
