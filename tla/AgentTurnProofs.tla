-------------------------- MODULE AgentTurnProofs ---------------------------
(***************************************************************************)
(* Theorems about AgentTurn, for every set of Turns, Attempts, Operations  *)
(* and Effects, every budget and TTL and every settlement authority.       *)
(***************************************************************************)
EXTENDS AgentTurn, TLAPS

(* The SMT solver may take up to 30 seconds over a leaf, and is called     *)
(* again when its first call fails.                                        *)
USE SMTT(30), Z3T(30)

(* An active pointer names a running epoch of that very Turn, and only a   *)
(* running Turn has one.  SingleOwner speaks of running epochs; this is    *)
(* the converse, without which a claim could expire somebody else's epoch. *)
ActiveRuns ==
  \A t \in Turn : turn[t].active # NoAttempt =>
     /\ turn[t].status = "running"
     /\ attempt[turn[t].active].status = "running"
     /\ attempt[turn[t].active].turn = t

OwnerInv == TypeOK /\ SingleOwner /\ ActiveRuns

-----------------------------------------------------------------------------
(* The columns of a Turn row have their types.                             *)
LEMMA TurnColumns ==
  ASSUME NEW row \in TurnRow
  PROVE  /\ row.status \in TurnStatus \cup {"absent"} /\ row.cancel \in BOOLEAN
         /\ row.fence \in Nat /\ row.active \in Attempt \cup {NoAttempt}
         /\ row.seq \in Nat /\ row.ttl \in Nat
  BY DEF TurnRow

(* The column updates the commands make keep a Turn row a Turn row.        *)
LEMMA TurnUpdates ==
  ASSUME NEW row \in TurnRow, NEW s \in TurnStatus, NEW x \in Attempt \cup {NoAttempt},
         NEW f \in Nat, NEW n \in Nat
  PROVE  /\ [row EXCEPT !.status = s, !.seq = n, !.ttl = f] \in TurnRow
         /\ [row EXCEPT !.cancel = TRUE, !.seq = n] \in TurnRow
         /\ [row EXCEPT !.status = s, !.active = x, !.fence = f, !.seq = n] \in TurnRow
         /\ [row EXCEPT !.status = s, !.active = x, !.seq = n] \in TurnRow
  BY Zenon DEF TurnRow

(* A deadline that came closer is still a time.                            *)
LEMMA SoonerType == \A n \in Nat : Sooner(n) \in Nat
  BY DEF Sooner

(* New effects and held ones are rows of the outbox.                       *)
LEMMA EnqueuedType ==
  ASSUME effect \in [Effect -> EffectRow], NEW t \in Turn, NEW effects, NEW review
  PROVE  Enqueued(t, effects, review) \in [Effect -> EffectRow]
<1> SUFFICES ASSUME NEW e \in Effect PROVE Enqueued(t, effects, review)[e] \in EffectRow
  BY Zenon DEF Enqueued
<1>1. effect[e] \in EffectRow
  OBVIOUS
<1>2. \A status \in {"pending", "review_hold"} :
        [effect[e] EXCEPT !.turn = t, !.status = status] \in EffectRow
  BY <1>1, Zenon DEF EffectRow, EffectStatus
<1>3. [effect[e] EXCEPT !.status = "review_hold", !.timer = 0] \in EffectRow
  BY <1>1, Zenon DEF EffectRow, EffectStatus
<1>4. [effect[e] EXCEPT !.turn = t, !.status = IF review THEN "review_hold" ELSE "pending"] \in EffectRow
  BY <1>2, Zenon
<1> QED
  BY <1>1, <1>3, <1>4 DEF Enqueued

(* Every command of the kernel preserves the types of all six tables.      *)
LEMMA TypeStep == TypeOK /\ SingleOwner /\ [Next]_vars => TypeOK'
<1> SUFFICES ASSUME TypeOK, SingleOwner, [Next]_vars PROVE TypeOK'
  OBVIOUS
<1>a. /\ turn \in [Turn -> TurnRow]
      /\ attempt \in [Attempt -> AttemptRow]
      /\ operation \subseteq OperationRow
      /\ event \subseteq EventRow
      /\ effect \in [Effect -> EffectRow]
      /\ ledger \subseteq LedgerRow
  BY DEF TypeOK
<1>1. ASSUME NEW t \in Turn, Admit(t) PROVE TypeOK'
  <2>1. turn' \in [Turn -> TurnRow]
    <3>1. [turn[t] EXCEPT !.status = "queued", !.seq = 1,
                          !.ttl = IF ReservationAware THEN ReservationTTL ELSE 0] \in TurnRow
      BY <1>a, ConstantsAssumption, Zenon DEF TurnRow, TurnStatus
    <3> QED
      BY <1>1, <1>a, <3>1 DEF Admit
  <2>2. event' \subseteq EventRow
    BY <1>1, <1>a DEF Admit, Logged, EventRow, TurnRow, EventKind, TurnStatus
  <2> QED
    BY <1>1, <1>a, <2>1, <2>2 DEF Admit, TypeOK
<1>2. ASSUME NEW t \in Turn, RequestCancel(t) PROVE TypeOK'
  <2>1. turn' \in [Turn -> TurnRow]
    <3>1. [turn[t] EXCEPT !.cancel = TRUE, !.seq = turn[t].seq + 1] \in TurnRow
      <4>1. turn[t] \in TurnRow /\ turn[t].seq + 1 \in Nat
        BY <1>a, TurnColumns
      <4> QED
        BY <4>1, TurnUpdates, Zenon DEF TurnStatus
    <3> QED
      BY <1>2, <1>a, <3>1 DEF RequestCancel
  <2>2. event' \subseteq EventRow
    BY <1>2, <1>a DEF RequestCancel, Logged, EventRow, TurnRow, EventKind
  <2> QED
    BY <1>2, <1>a, <2>1, <2>2 DEF RequestCancel, TypeOK
<1>3. ASSUME NEW t \in Turn, NEW a \in Attempt, ClaimAttempt(t, a) PROVE TypeOK'
  <2>1. turn' \in [Turn -> TurnRow]
    <3>1. [turn[t] EXCEPT !.status = "running", !.active = a, !.fence = turn[t].fence + 1,
                          !.seq = IF turn[t].status = "queued" THEN turn[t].seq + 1
                                  ELSE turn[t].seq] \in TurnRow
      <4>1. turn[t] \in TurnRow /\ turn[t].fence + 1 \in Nat
            /\ (IF turn[t].status = "queued" THEN turn[t].seq + 1 ELSE turn[t].seq) \in Nat
        BY <1>a, TurnColumns
      <4> QED
        BY <4>1, TurnUpdates, Zenon DEF TurnStatus
    <3> QED
      BY <1>3, <1>a, <3>1 DEF ClaimAttempt
  <2>2. attempt' \in [Attempt -> AttemptRow]
    <3>1. Expired(t) \in [Attempt -> AttemptRow]
      BY <1>a DEF Expired, AttemptRow, AttemptStatus
    <3>2. [status |-> "running", turn |-> t, fence |-> turn[t].fence + 1, lease |-> LeaseTTL]
             \in AttemptRow
      BY <1>a, ConstantsAssumption DEF AttemptRow, AttemptStatus, TurnRow
    <3> QED
      BY <1>3, <3>1, <3>2 DEF ClaimAttempt
  <2>3. event' \subseteq EventRow
    BY <1>3, <1>a DEF ClaimAttempt, Logged, EventRow, TurnRow, EventKind, TurnStatus
  <2> QED
    BY <1>3, <1>a, <2>1, <2>2, <2>3 DEF ClaimAttempt, TypeOK
<1>4. ASSUME NEW a \in Attempt, HeartbeatAttempt(a) PROVE TypeOK'
  <2>1. attempt' \in [Attempt -> AttemptRow]
    BY <1>4, <1>a, ConstantsAssumption DEF HeartbeatAttempt, AttemptRow
  <2> QED
    BY <1>4, <1>a, <2>1 DEF HeartbeatAttempt, TypeOK
<1>b. ASSUME NEW a \in Attempt, Holds(a)
      PROVE  /\ attempt[a].turn \in Turn
             /\ turn[attempt[a].turn] \in TurnRow
             /\ attempt[a].fence \in Nat
             /\ turn[attempt[a].turn].status = "running"
  BY <1>a, <1>b DEF Holds, SingleOwner, AttemptRow
<1>5. ASSUME NEW a \in Attempt, NEW o \in Operation, NEW effects \in SUBSET Effect,
             CommitOperation(a, o, effects)
      PROVE  TypeOK'
  <2> DEFINE t == attempt[a].turn
  <2>1. t \in Turn /\ turn[t] \in TurnRow /\ attempt[a].fence \in Nat
    BY <1>5, <1>b DEF CommitOperation
  <2>2. turn' \in [Turn -> TurnRow]
    BY <1>5, <1>a, <2>1 DEF CommitOperation, TurnRow
  <2>3. event' \subseteq EventRow
    BY <1>5, <1>a, <2>1 DEF CommitOperation, Logged, EventRow, EventKind, TurnRow
  <2>4. operation' \subseteq OperationRow
    <3>1. Receipt(a, o, turn[t].status) \in OperationRow
      BY <1>5, <1>b, <2>1 DEF CommitOperation, Receipt, OperationRow, TurnRow, TurnStatus
    <3> QED
      BY <1>5, <1>a, <3>1 DEF CommitOperation
  <2>5. effect' \in [Effect -> EffectRow]
    BY <1>5, <1>a, <2>1, EnqueuedType, Zenon DEF CommitOperation
  <2> QED
    BY <1>5, <1>a, <2>2, <2>3, <2>4, <2>5, Zenon DEF CommitOperation, TypeOK
<1>6. ASSUME NEW a \in Attempt, NEW o \in Operation, NEW effects \in SUBSET Effect,
             NEW status \in TerminalStatus, NEW intent \in Intent,
             CommitTerminal(a, o, effects, status, intent)
      PROVE  TypeOK'
  <2> DEFINE t == attempt[a].turn
             review == OpensReview(t, status, intent, effects)
  <2>1. t \in Turn /\ turn[t] \in TurnRow /\ attempt[a].fence \in Nat
    BY <1>6, <1>b DEF CommitTerminal
  <2>2. turn' \in [Turn -> TurnRow]
    <3>1. [turn[t] EXCEPT !.status = status, !.active = NoAttempt, !.seq = turn[t].seq + 1] \in TurnRow
      <4>1. turn[t] \in TurnRow /\ turn[t].fence + 1 \in Nat /\ turn[t].seq + 1 \in Nat
        BY <2>1, TurnColumns
      <4> QED
        BY <2>1, <4>1, TurnUpdates, Zenon DEF TurnStatus
    <3> QED
      BY <1>6, <1>a, <2>1, <3>1 DEF CommitTerminal
  <2>3. event' \subseteq EventRow
    BY <1>6, <1>a, <2>1 DEF CommitTerminal, Logged, EventRow, EventKind, TurnRow, TurnStatus
  <2>4. operation' \subseteq OperationRow
    <3>1. Receipt(a, o, status) \in OperationRow
      BY <2>1 DEF Receipt, OperationRow, TurnRow, TurnStatus
    <3> QED
      BY <1>6, <1>a, <3>1 DEF CommitTerminal
  <2>5. effect' \in [Effect -> EffectRow]
    BY <1>6, <1>a, <2>1, EnqueuedType DEF CommitTerminal
  <2>6. attempt' \in [Attempt -> AttemptRow]
    BY <1>6, <1>a DEF CommitTerminal, AttemptRow, AttemptStatus
  <2>7. ledger' \subseteq LedgerRow
    BY <1>6, <1>a, <2>1 DEF CommitTerminal, Settled, LedgerRow
  <2> QED
    BY <2>2, <2>3, <2>4, <2>5, <2>6, <2>7 DEF TypeOK
<1>7. ASSUME NEW t \in Turn, NEW reason \in ReclaimReason, ReconcileTerminal(t, reason)
      PROVE  TypeOK'
  <2> DEFINE status == ReasonStatus(reason)
  <2>1. status \in TerminalStatus /\ turn[t] \in TurnRow
    BY <1>a DEF ReasonStatus, TerminalStatus
  <2>2. turn' \in [Turn -> TurnRow]
    <3>1. [turn[t] EXCEPT !.status = status, !.active = NoAttempt,
                          !.fence = turn[t].fence + 1, !.seq = turn[t].seq + 1] \in TurnRow
      <4>1. turn[t] \in TurnRow /\ turn[t].fence + 1 \in Nat /\ turn[t].seq + 1 \in Nat
        BY <2>1, TurnColumns
      <4> QED
        BY <2>1, <4>1, TurnUpdates, Zenon DEF TurnStatus
    <3> QED
      BY <1>7, <1>a, <3>1 DEF ReconcileTerminal
  <2>3. event' \subseteq EventRow
    BY <1>7, <1>a, <2>1 DEF ReconcileTerminal, Logged, EventRow, EventKind, TurnRow, TurnStatus
  <2>4. effect' \in [Effect -> EffectRow]
    BY <1>7, <1>a, EnqueuedType DEF ReconcileTerminal
  <2>5. attempt' \in [Attempt -> AttemptRow]
    BY <1>7, <1>a DEF ReconcileTerminal, Expired, AttemptRow, AttemptStatus
  <2>6. ledger' \subseteq LedgerRow
    BY <1>7, <1>a, <2>1 DEF ReconcileTerminal, Settled, LedgerRow, TurnRow, Intent
  <2> QED
    BY <1>7, <1>a, <2>2, <2>3, <2>4, <2>5, <2>6 DEF ReconcileTerminal, TypeOK
<1>8. ASSUME Tick PROVE TypeOK'
  <2>1. turn' \in [Turn -> TurnRow]
    BY <1>8, <1>a, SoonerType, Zenon DEF Tick, TurnRow
  <2>2. attempt' \in [Attempt -> AttemptRow]
    BY <1>8, <1>a, SoonerType, Zenon DEF Tick, AttemptRow
  <2>3. effect' \in [Effect -> EffectRow]
    BY <1>8, <1>a, SoonerType, Zenon DEF Tick, EffectRow
  <2> QED
    BY <1>8, <1>a, <2>1, <2>2, <2>3 DEF Tick, TypeOK
<1>9. ASSUME UNCHANGED vars PROVE TypeOK'
  BY <1>9 DEF vars, TypeOK
<1> QED
  BY <1>1, <1>2, <1>3, <1>4, <1>5, <1>6, <1>7, <1>8, <1>9 DEF Next, Command

-----------------------------------------------------------------------------
(* No command leaves a Turn with two owners, or pointing to an epoch that  *)
(* is over.                                                                *)
LEMMA OwnerStep == OwnerInv /\ [Next]_vars => SingleOwner' /\ ActiveRuns'
<1> SUFFICES ASSUME OwnerInv, [Next]_vars PROVE SingleOwner' /\ ActiveRuns'
  OBVIOUS
<1>a. /\ turn \in [Turn -> TurnRow] /\ attempt \in [Attempt -> AttemptRow]
      /\ SingleOwner /\ ActiveRuns
  BY DEF OwnerInv, TypeOK
<1>b. \A t \in Turn : turn[t].active \in Attempt \cup {NoAttempt}
  BY <1>a, TurnColumns
<1>1. ASSUME NEW t \in Turn, Admit(t) PROVE SingleOwner' /\ ActiveRuns'
  <2>1. attempt' = attempt /\ turn[t].status = "absent"
    BY <1>1 DEF Admit
  <2>2. \A u \in Turn : u # t => turn'[u] = turn[u]
    BY <1>1, <1>a DEF Admit
  <2>3. turn'[t].active = turn[t].active
    BY <1>1, <1>a DEF Admit, TurnRow
  <2> QED
    BY <1>a, <2>1, <2>2, <2>3 DEF SingleOwner, ActiveRuns
<1>2. ASSUME NEW t \in Turn, RequestCancel(t) PROVE SingleOwner' /\ ActiveRuns'
  <2>1. attempt' = attempt
    BY <1>2 DEF RequestCancel
  <2>2. \A u \in Turn : /\ turn'[u].active = turn[u].active
                        /\ turn'[u].status = turn[u].status
                        /\ turn'[u].fence = turn[u].fence
    BY <1>2, <1>a DEF RequestCancel, TurnRow
  <2> QED
    BY <1>a, <2>1, <2>2 DEF SingleOwner, ActiveRuns
<1>3. ASSUME NEW t \in Turn, NEW a \in Attempt, ClaimAttempt(t, a)
      PROVE  SingleOwner' /\ ActiveRuns'
  <2>1. /\ turn'[t].status = "running" /\ turn'[t].active = a
        /\ turn'[t].fence = turn[t].fence + 1
        /\ \A u \in Turn : u # t => turn'[u] = turn[u]
    BY <1>3, <1>a DEF ClaimAttempt, TurnRow
  <2>2. /\ attempt[a].status = "absent"
        /\ attempt'[a].status = "running" /\ attempt'[a].turn = t
        /\ attempt'[a].fence = turn[t].fence + 1
    BY <1>3 DEF ClaimAttempt, Expired
  <2>3. \A b \in Attempt : b # a /\ b # turn[t].active => attempt'[b] = attempt[b]
    BY <1>3 DEF ClaimAttempt, Expired
  <2>4. \A b \in Attempt : b # a /\ b = turn[t].active => attempt'[b].status = "expired"
    BY <1>3, <1>a DEF ClaimAttempt, Expired, AttemptRow
  <2>5. SingleOwner'
    <3> SUFFICES ASSUME NEW b \in Attempt, attempt'[b].status = "running", b # a
                 PROVE  LET u == attempt'[b].turn
                        IN  /\ u \in Turn /\ turn'[u].status = "running"
                            /\ turn'[u].active = b /\ turn'[u].fence = attempt'[b].fence
      BY <2>1, <2>2 DEF SingleOwner
    <3>1. b # turn[t].active /\ attempt'[b] = attempt[b]
      BY <2>3, <2>4
    <3>2. attempt[b].turn \in Turn \ {t}
      BY <3>1, <1>a DEF SingleOwner
    <3> QED
      BY <3>1, <3>2, <2>1, <1>a DEF SingleOwner
  <2>6. ActiveRuns'
    <3> SUFFICES ASSUME NEW u \in Turn, turn'[u].active # NoAttempt, u # t
                 PROVE  /\ turn'[u].status = "running"
                        /\ attempt'[turn'[u].active].status = "running"
                        /\ attempt'[turn'[u].active].turn = u
      BY <2>1, <2>2 DEF ActiveRuns
    <3>1. turn[u].active \in Attempt /\ turn[u].active # a /\ turn[u].active # turn[t].active
      BY <1>a, <1>b, <2>1, <2>2 DEF ActiveRuns
    <3> QED
      BY <3>1, <2>1, <2>3, <1>a DEF ActiveRuns
  <2> QED
    BY <2>5, <2>6
<1>4. ASSUME NEW a \in Attempt, HeartbeatAttempt(a) PROVE SingleOwner' /\ ActiveRuns'
  <2>1. turn' = turn
    BY <1>4 DEF HeartbeatAttempt
  <2>2. \A b \in Attempt : /\ attempt'[b].status = attempt[b].status
                           /\ attempt'[b].turn = attempt[b].turn
                           /\ attempt'[b].fence = attempt[b].fence
    BY <1>4, <1>a DEF HeartbeatAttempt, AttemptRow
  <2> QED
    BY <1>a, <1>b, <2>1, <2>2 DEF SingleOwner, ActiveRuns
<1>5. ASSUME NEW a \in Attempt, NEW o \in Operation, NEW effects \in SUBSET Effect,
             CommitOperation(a, o, effects)
      PROVE  SingleOwner' /\ ActiveRuns'
  <2>1. attempt' = attempt
    BY <1>5 DEF CommitOperation
  <2>2. \A u \in Turn : /\ turn'[u].active = turn[u].active
                        /\ turn'[u].status = turn[u].status
                        /\ turn'[u].fence = turn[u].fence
    BY <1>5, <1>a DEF CommitOperation, TurnRow
  <2> QED
    BY <1>a, <2>1, <2>2 DEF SingleOwner, ActiveRuns
<1>6. ASSUME NEW a \in Attempt, NEW o \in Operation, NEW effects \in SUBSET Effect,
             NEW status \in TerminalStatus, NEW intent \in Intent,
             CommitTerminal(a, o, effects, status, intent)
      PROVE  SingleOwner' /\ ActiveRuns'
  <2> DEFINE t == attempt[a].turn
  <2>1. t \in Turn /\ turn[t].active = a
    BY <1>6, <1>a DEF CommitTerminal, Holds, SingleOwner
  <2>2. /\ turn'[t].active = NoAttempt
        /\ \A u \in Turn : u # t => turn'[u] = turn[u]
    BY <1>6, <1>a, <2>1 DEF CommitTerminal, TurnRow
  <2>3. /\ attempt'[a].status = status
        /\ \A b \in Attempt : b # a => attempt'[b] = attempt[b]
    BY <1>6, <1>a DEF CommitTerminal, AttemptRow
  <2>4. status # "running"
    BY DEF TerminalStatus
  <2> QED
    BY <1>a, <1>b, <2>1, <2>2, <2>3, <2>4 DEF SingleOwner, ActiveRuns
<1>7. ASSUME NEW t \in Turn, NEW reason \in ReclaimReason, ReconcileTerminal(t, reason)
      PROVE  SingleOwner' /\ ActiveRuns'
  <2>1. /\ turn'[t].active = NoAttempt
        /\ \A u \in Turn : u # t => turn'[u] = turn[u]
    BY <1>7, <1>a DEF ReconcileTerminal, TurnRow
  <2>2. \A b \in Attempt : /\ b # turn[t].active => attempt'[b] = attempt[b]
                           /\ b = turn[t].active => attempt'[b].status = "expired"
    BY <1>7, <1>a DEF ReconcileTerminal, Expired, AttemptRow
  <2> QED
    BY <1>a, <1>b, <2>1, <2>2 DEF SingleOwner, ActiveRuns
<1>8. ASSUME Tick PROVE SingleOwner' /\ ActiveRuns'
  <2>1. \A u \in Turn : /\ turn'[u].active = turn[u].active
                        /\ turn'[u].status = turn[u].status
                        /\ turn'[u].fence = turn[u].fence
    BY <1>8, <1>a DEF Tick, TurnRow
  <2>2. \A b \in Attempt : /\ attempt'[b].status = attempt[b].status
                           /\ attempt'[b].turn = attempt[b].turn
                           /\ attempt'[b].fence = attempt[b].fence
    BY <1>8, <1>a DEF Tick, AttemptRow
  <2> QED
    BY <1>a, <1>b, <2>1, <2>2 DEF SingleOwner, ActiveRuns
<1>9. ASSUME UNCHANGED vars PROVE SingleOwner' /\ ActiveRuns'
  BY <1>9, <1>a DEF vars, SingleOwner, ActiveRuns
<1> QED
  BY <1>1, <1>2, <1>3, <1>4, <1>5, <1>6, <1>7, <1>8, <1>9 DEF Next, Command

(* The empty store satisfies the ownership invariant.                      *)
LEMMA OwnerInit == Init => OwnerInv
<1> SUFFICES ASSUME Init PROVE OwnerInv
  OBVIOUS
<1>1. TypeOK
  <2>1. turn \in [Turn -> TurnRow]
    BY DEF Init, TurnRow
  <2>2. attempt \in [Attempt -> AttemptRow]
    BY DEF Init, AttemptRow
  <2>3. effect \in [Effect -> EffectRow]
    BY DEF Init, EffectRow
  <2> QED
    BY <2>1, <2>2, <2>3, Zenon DEF Init, TypeOK
<1>2. SingleOwner /\ ActiveRuns
  BY DEF Init, SingleOwner, ActiveRuns
<1> QED
  BY <1>1, <1>2 DEF OwnerInv

(* The ownership invariant holds of every reachable store.                 *)
THEOREM Ownership == Spec => []OwnerInv
<1>1. OwnerInv /\ [Next]_vars => OwnerInv'
  BY TypeStep, OwnerStep DEF OwnerInv
<1> QED
  BY <1>1, OwnerInit, PTL DEF Spec

(* Every reachable row of every table has its type.                        *)
THEOREM TypeCorrect == Spec => []TypeOK
<1>1. OwnerInv => TypeOK
  BY DEF OwnerInv
<1> QED
  BY <1>1, Ownership, PTL

(* At most one epoch owns a Turn, and it is the one the Turn points to,    *)
(* under the Turn's fence: ClaimAttempt, CommitAttempt and                 *)
(* ReconcileTerminal together never let two workers own one Turn.          *)
THEOREM OneOwner == Spec => []SingleOwner
<1>1. OwnerInv => SingleOwner
  BY DEF OwnerInv
<1> QED
  BY <1>1, Ownership, PTL

-----------------------------------------------------------------------------
(* A command leaves outcomes alone, or it finishes one Turn and gives that *)
(* Turn one outcome.                                                       *)
KeepsOutcomes ==
  /\ ledger' = ledger
  /\ \A u \in Turn : turn'[u].status \in TerminalStatus <=> turn[u].status \in TerminalStatus

Finishes(t) ==
  /\ Unfinished(t) /\ turn'[t].status \in TerminalStatus
  /\ \A u \in Turn \ {t} : turn'[u] = turn[u]
  /\ \E row \in ledger' : row.turn = t /\ ledger' = ledger \cup {row}

(* With an authority installed, settling a Turn adds one row about it.     *)
LEMMA SettledAdds ==
  ASSUME Authority # "none", NEW t \in Turn, NEW kind, NEW by, NEW fence,
         ledger' = Settled(t, kind, by, fence)
  PROVE  \E row \in ledger' : row.turn = t /\ ledger' = ledger \cup {row}
<1> DEFINE new == [turn |-> t, kind |-> kind, by |-> by, fence |-> fence]
<1>1. ledger' = ledger \cup {new} /\ new.turn = t
  BY DEF Settled
<1> HIDE DEF new
<1> QED
  BY <1>1, Zenon

(* No command finishes a Turn without an outcome, or gives one to a Turn   *)
(* that goes on.                                                           *)
LEMMA OutcomeStep ==
  ASSUME OwnerInv, [Next]_vars, Authority # "none"
  PROVE  KeepsOutcomes \/ \E t \in Turn : Finishes(t)
<1>a. turn \in [Turn -> TurnRow] /\ SingleOwner
  BY DEF OwnerInv, TypeOK
<1>1. ASSUME NEW t \in Turn, Admit(t) PROVE KeepsOutcomes
  BY <1>1, <1>a DEF Admit, TurnRow, TerminalStatus, KeepsOutcomes
<1>2. ASSUME NEW t \in Turn, RequestCancel(t) PROVE KeepsOutcomes
  BY <1>2, <1>a DEF RequestCancel, TurnRow, KeepsOutcomes
<1>3. ASSUME NEW t \in Turn, NEW a \in Attempt, ClaimAttempt(t, a) PROVE KeepsOutcomes
  BY <1>3, <1>a DEF ClaimAttempt, MayOpenEpoch, Unfinished, TurnRow, TerminalStatus, KeepsOutcomes
<1>4. ASSUME NEW a \in Attempt, HeartbeatAttempt(a) PROVE KeepsOutcomes
  BY <1>4 DEF HeartbeatAttempt, KeepsOutcomes
<1>5. ASSUME NEW a \in Attempt, NEW o \in Operation, NEW effects \in SUBSET Effect,
             CommitOperation(a, o, effects)
      PROVE  KeepsOutcomes
  BY <1>5, <1>a DEF CommitOperation, TurnRow, KeepsOutcomes
<1>6. ASSUME NEW a \in Attempt, NEW o \in Operation, NEW effects \in SUBSET Effect,
             NEW status \in TerminalStatus, NEW intent \in Intent,
             CommitTerminal(a, o, effects, status, intent)
      PROVE  \E t \in Turn : Finishes(t)
  <2> DEFINE t == attempt[a].turn
             kind == IF OpensReview(t, status, intent, effects) THEN "review" ELSE intent
  <2>1. t \in Turn /\ Unfinished(t) /\ ledger' = Settled(t, kind, o, attempt[a].fence)
    BY <1>6, <1>a DEF CommitTerminal, Holds, SingleOwner
  <2>2. turn'[t].status = status /\ \A u \in Turn : u # t => turn'[u] = turn[u]
    BY <1>6, <1>a, <2>1 DEF CommitTerminal, TurnRow
  <2> HIDE DEF t, kind
  <2>3. \E row \in ledger' : row.turn = t /\ ledger' = ledger \cup {row}
    BY <2>1, SettledAdds, Zenon
  <2> QED
    BY <2>1, <2>2, <2>3, Zenon DEF Finishes
<1>7. ASSUME NEW t \in Turn, NEW reason \in ReclaimReason, ReconcileTerminal(t, reason)
      PROVE  Finishes(t)
  <2> DEFINE kind == IF OpensReview(t, ReasonStatus(reason), "release", {})
                     THEN "review" ELSE "release"
  <2>1. Unfinished(t) /\ ledger' = Settled(t, kind, NoOperation, turn[t].fence + 1)
    BY <1>7 DEF ReconcileTerminal, MayRetire
  <2>2. turn'[t].status = ReasonStatus(reason) /\ \A u \in Turn : u # t => turn'[u] = turn[u]
    BY <1>7, <1>a DEF ReconcileTerminal, TurnRow
  <2>3. ReasonStatus(reason) \in TerminalStatus
    BY DEF ReasonStatus, TerminalStatus
  <2> HIDE DEF kind
  <2>4. \E row \in ledger' : row.turn = t /\ ledger' = ledger \cup {row}
    BY <2>1, SettledAdds, Zenon
  <2> QED
    BY <2>1, <2>2, <2>3, <2>4, Zenon DEF Finishes
<1>8. ASSUME Tick PROVE KeepsOutcomes
  BY <1>8, <1>a DEF Tick, TurnRow, KeepsOutcomes
<1>9. ASSUME UNCHANGED vars PROVE KeepsOutcomes
  BY <1>9, Zenon DEF vars, KeepsOutcomes
<1> QED
  BY <1>1, <1>2, <1>3, <1>4, <1>5, <1>6, <1>7, <1>8, <1>9, Zenon DEF Next, Command

(* No command gives a Turn a second outcome either.                        *)
LEMMA CommercialStep == OwnerInv /\ CommercialOutcome /\ [Next]_vars => CommercialOutcome'
<1> SUFFICES ASSUME OwnerInv, CommercialOutcome, [Next]_vars, Authority # "none"
             PROVE  CommercialOutcome'
  BY DEF CommercialOutcome
<1>1. CASE KeepsOutcomes
  BY <1>1 DEF CommercialOutcome, KeepsOutcomes
<1>2. ASSUME NEW t \in Turn, Finishes(t) PROVE CommercialOutcome'
  <2>1. PICK row \in ledger' : row.turn = t /\ ledger' = ledger \cup {row}
    BY <1>2, Zenon DEF Finishes
  <2>2. \A l \in ledger : l.turn # t
    BY <1>2 DEF Finishes, CommercialOutcome, Unfinished, TerminalStatus
  <2>3. \A u \in Turn : turn'[u].status \in TerminalStatus <=> \E l \in ledger' : l.turn = u
    BY <1>2, <2>1 DEF Finishes, CommercialOutcome
  <2>4. \A k, l \in ledger' : k.turn = l.turn => k = l
    BY <2>1, <2>2 DEF CommercialOutcome
  <2> QED
    BY <2>3, <2>4, Zenon DEF CommercialOutcome
<1> QED
  BY <1>1, <1>2, OutcomeStep, Zenon

(* Whatever authority is installed, a Turn is finished exactly when it has *)
(* a commercial outcome, and it never has two: a commit racing a           *)
(* reconciliation, a retry or a takeover bills a Turn once.                *)
THEOREM BilledOnce == Spec => []CommercialOutcome
<1>1. Init => CommercialOutcome
  BY DEF Init, CommercialOutcome, TerminalStatus
<1> QED
  BY <1>1, CommercialStep, Ownership, PTL DEF Spec

(* Without an authority nothing is ever billed.                            *)
NoAuthorityNoBill == Authority = "none" => ledger = {}

KernelInv == OwnerInv /\ CommercialOutcome /\ NoAuthorityNoBill

(* Only the authority's step writes the ledger, and none has none.         *)
LEMMA NoBillStep == NoAuthorityNoBill /\ [Next]_vars => NoAuthorityNoBill'
<1> SUFFICES ASSUME Authority = "none", [Next]_vars PROVE ledger' = ledger
  BY DEF NoAuthorityNoBill
<1>1. \A t \in Turn : Admit(t) \/ RequestCancel(t) => ledger' = ledger
  BY DEF Admit, RequestCancel
<1>2. \A t \in Turn, a \in Attempt : ClaimAttempt(t, a) => ledger' = ledger
  BY DEF ClaimAttempt
<1>3. \A a \in Attempt : HeartbeatAttempt(a) => ledger' = ledger
  BY DEF HeartbeatAttempt
<1>4. \A a \in Attempt, o \in Operation, effects \in SUBSET Effect :
        CommitOperation(a, o, effects) => ledger' = ledger
  BY DEF CommitOperation
<1>5. \A a \in Attempt, o \in Operation, effects \in SUBSET Effect,
        status \in TerminalStatus, intent \in Intent :
        CommitTerminal(a, o, effects, status, intent) => ledger' = ledger
  BY DEF CommitTerminal, Settled
<1>6. \A t \in Turn, reason \in ReclaimReason : ReconcileTerminal(t, reason) => ledger' = ledger
  BY DEF ReconcileTerminal, Settled
<1>7. Tick \/ UNCHANGED vars => ledger' = ledger
  BY DEF Tick, vars
<1> QED
  BY <1>1, <1>2, <1>3, <1>4, <1>5, <1>6, <1>7 DEF Next, Command

(* Ownership and billing together, on which the rest of this module and    *)
(* the refinements rest.                                                   *)
THEOREM KernelInvariant == Spec => []KernelInv
<1>1. Init => NoAuthorityNoBill
  BY DEF Init, NoAuthorityNoBill
<1> QED
  BY <1>1, NoBillStep, Ownership, BilledOnce, PTL DEF Spec, KernelInv

(* An open Turn has no outcome yet.                                        *)
LEMMA OpenNotBilled ==
  ASSUME KernelInv, NEW t \in Turn, Unfinished(t)
  PROVE  \A l \in ledger : l.turn # t
  BY DEF KernelInv, CommercialOutcome, NoAuthorityNoBill, Unfinished, TerminalStatus

-----------------------------------------------------------------------------
(* Effects under review: what a step does to an outbox row that is neither *)
(* inserted nor held by it.                                                *)
LEMMA HoldKept ==
  ASSUME ReviewHoldsEffects, ledger' = ledger,
         \A e \in Effect : effect'[e].status = effect[e].status /\ effect'[e].turn = effect[e].turn
  PROVE  ReviewHoldsEffects'
  BY DEF ReviewHoldsEffects

(* A step that enqueues effects of an open Turn and, if it ends the Turn   *)
(* under review, holds them.                                               *)
LEMMA HoldBilled ==
  ASSUME TypeOK, ReviewHoldsEffects, NEW t \in Turn, \A l \in ledger : l.turn # t,
         NEW effects \in SUBSET Effect, NEW review \in BOOLEAN, NEW new,
         effect' = Enqueued(t, effects, review),
         review => ledger' = ledger \cup {new} /\ new.turn = t /\ new.kind = "review",
         ~review => ledger' = ledger \/ (ledger' = ledger \cup {new} /\ new.turn = t /\ new.kind # "review")
  PROVE  ReviewHoldsEffects'
<1> DEFINE Rev(u) == \E l \in ledger : l.kind = "review" /\ l.turn = u
           RevNext(u) == \E l \in ledger' : l.kind = "review" /\ l.turn = u
<1>1. \A u : u # t => (Rev(u) <=> RevNext(u))
  OBVIOUS
<1>2. ~Rev(t) /\ (RevNext(t) <=> review)
  OBVIOUS
<1>3. ASSUME NEW e \in Effect
      PROVE  /\ effect'[e].turn = IF e \in effects THEN t ELSE effect[e].turn
             /\ e \in effects => effect'[e].status = IF review THEN "review_hold" ELSE "pending"
             /\ e \notin effects =>
                  \/ effect'[e].status = effect[e].status
                     /\ ~(review /\ effect[e].turn = t /\ effect[e].status \in {"pending", "delivering"})
                  \/ review /\ effect[e].turn = t /\ effect'[e].status = "review_hold"
  <2>1. effect[e] \in EffectRow
    BY DEF TypeOK
  <2>2. effect'[e] =
          IF e \in effects
          THEN [effect[e] EXCEPT !.turn = t, !.status = IF review THEN "review_hold" ELSE "pending"]
          ELSE IF review /\ effect[e].turn = t /\ effect[e].status \in {"pending", "delivering"}
               THEN [effect[e] EXCEPT !.status = "review_hold", !.timer = 0]
               ELSE effect[e]
    BY Zenon DEF Enqueued
  <2>3. CASE e \in effects
    BY <2>1, <2>2, <2>3 DEF EffectRow
  <2>4. CASE e \notin effects
    BY <2>1, <2>2, <2>4 DEF EffectRow
  <2> QED
    BY <2>3, <2>4
<1>4. ASSUME NEW e \in Effect
      PROVE  /\ Rev(effect[e].turn) => effect[e].status \notin {"pending", "delivering"}
             /\ effect[e].status = "review_hold" => Rev(effect[e].turn)
  BY DEF ReviewHoldsEffects
<1> HIDE DEF Rev, RevNext
<1>5. ASSUME NEW e \in Effect
      PROVE  /\ RevNext(effect'[e].turn) => effect'[e].status \notin {"pending", "delivering"}
             /\ effect'[e].status = "review_hold" => RevNext(effect'[e].turn)
  <2>1. CASE e \in effects
    BY <1>2, <1>3, <2>1
  <2>2. CASE e \notin effects
    BY <1>1, <1>2, <1>3, <1>4, <2>2
  <2> QED
    BY <2>1, <2>2
<1> QED
  BY <1>5 DEF ReviewHoldsEffects, RevNext

(* The ledger after an outcome, with or without an authority.              *)
LEMMA SettledRow ==
  ASSUME NEW t, NEW kind, NEW by, NEW fence, ledger' = Settled(t, kind, by, fence)
  PROVE  \E new : /\ new.turn = t /\ new.kind = kind
                  /\ IF Authority = "none" THEN ledger' = ledger ELSE ledger' = ledger \cup {new}
<1> DEFINE new == [turn |-> t, kind |-> kind, by |-> by, fence |-> fence]
<1>1. new.turn = t /\ new.kind = kind
  OBVIOUS
<1>2. IF Authority = "none" THEN ledger' = ledger ELSE ledger' = ledger \cup {new}
  BY DEF Settled
<1> HIDE DEF new
<1> QED
  BY <1>1, <1>2

(* No command leaves an effect of a Turn under review to a dispatcher, or  *)
(* holds one of a Turn that is not.                                        *)
LEMMA HoldStep == KernelInv /\ ReviewHoldsEffects /\ [Next]_vars => ReviewHoldsEffects'
<1> SUFFICES ASSUME KernelInv, ReviewHoldsEffects, [Next]_vars PROVE ReviewHoldsEffects'
  OBVIOUS
<1>a. TypeOK /\ SingleOwner /\ effect \in [Effect -> EffectRow]
  BY DEF KernelInv, OwnerInv, TypeOK
<1>c. ASSUME UNCHANGED <<effect, ledger>> PROVE ReviewHoldsEffects'
  BY <1>c, HoldKept
<1>1. ASSUME NEW t \in Turn, Admit(t) \/ RequestCancel(t) PROVE ReviewHoldsEffects'
  BY <1>1, <1>c DEF Admit, RequestCancel
<1>2. ASSUME NEW t \in Turn, NEW a \in Attempt, ClaimAttempt(t, a) PROVE ReviewHoldsEffects'
  BY <1>2, <1>c DEF ClaimAttempt
<1>3. ASSUME NEW a \in Attempt, HeartbeatAttempt(a) PROVE ReviewHoldsEffects'
  BY <1>3, <1>c DEF HeartbeatAttempt
<1>d. ASSUME NEW a \in Attempt, Holds(a) PROVE attempt[a].turn \in Turn /\ Unfinished(attempt[a].turn)
  BY <1>a, <1>d DEF Holds, SingleOwner
<1>4. ASSUME NEW a \in Attempt, NEW o \in Operation, NEW effects \in SUBSET Effect,
             CommitOperation(a, o, effects)
      PROVE  ReviewHoldsEffects'
  <2>1. PICK t \in Turn : attempt[a].turn = t /\ Unfinished(t)
    BY <1>4, <1>d DEF CommitOperation
  <2>2. effect' = Enqueued(t, effects, FALSE) /\ ledger' = ledger
    BY <1>4, <2>1 DEF CommitOperation
  <2> QED
    BY <1>a, <2>1, <2>2, OpenNotBilled, HoldBilled, Zenon
<1>5. ASSUME NEW t \in Turn, Unfinished(t), NEW effects \in SUBSET Effect, NEW status,
             NEW intent \in Intent, NEW by, NEW fence,
             effect' = Enqueued(t, effects, OpensReview(t, status, intent, effects)),
             ledger' = Settled(t, IF OpensReview(t, status, intent, effects) THEN "review" ELSE intent,
                               by, fence)
      PROVE  ReviewHoldsEffects'
  <2> DEFINE review == OpensReview(t, status, intent, effects)
  <2>1. review \in BOOLEAN /\ (review => Authority # "none") /\ intent # "review"
    BY DEF OpensReview, Intent
  <2>2. PICK new : /\ new.turn = t /\ new.kind = IF review THEN "review" ELSE intent
                   /\ IF Authority = "none" THEN ledger' = ledger ELSE ledger' = ledger \cup {new}
    BY <1>5, SettledRow
  <2>3. effect' = Enqueued(t, effects, review) /\ \A l \in ledger : l.turn # t
    BY <1>5, OpenNotBilled
  <2> HIDE DEF review
  <2> QED
    BY <1>a, <2>1, <2>2, <2>3, HoldBilled
<1>6. ASSUME NEW a \in Attempt, NEW o \in Operation, NEW effects \in SUBSET Effect,
             NEW status \in TerminalStatus, NEW intent \in Intent,
             CommitTerminal(a, o, effects, status, intent)
      PROVE  ReviewHoldsEffects'
  <2>1. PICK t \in Turn : attempt[a].turn = t /\ Unfinished(t)
    BY <1>6, <1>d DEF CommitTerminal
  <2>2. /\ effect' = Enqueued(t, effects, OpensReview(t, status, intent, effects))
        /\ ledger' = Settled(t, IF OpensReview(t, status, intent, effects) THEN "review" ELSE intent,
                             o, attempt[a].fence)
    BY <1>6, <2>1 DEF CommitTerminal
  <2> QED
    BY <1>5, <2>1, <2>2, Zenon
<1>7. ASSUME NEW t \in Turn, NEW reason \in ReclaimReason, ReconcileTerminal(t, reason)
      PROVE  ReviewHoldsEffects'
  <2> DEFINE status == ReasonStatus(reason)
  <2>1. /\ Unfinished(t) /\ "release" \in Intent /\ {} \in SUBSET Effect
        /\ effect' = Enqueued(t, {}, OpensReview(t, status, "release", {}))
        /\ ledger' = Settled(t, IF OpensReview(t, status, "release", {}) THEN "review" ELSE "release",
                             NoOperation, turn[t].fence + 1)
    BY <1>7 DEF ReconcileTerminal, MayRetire, Intent
  <2> HIDE DEF status
  <2> QED
    BY <1>5, <2>1, Zenon
<1>8. ASSUME Tick PROVE ReviewHoldsEffects'
  BY <1>8, <1>a, HoldKept DEF Tick, EffectRow
<1>9. ASSUME UNCHANGED vars PROVE ReviewHoldsEffects'
  BY <1>9, <1>c DEF vars
<1> QED
  BY <1>1, <1>2, <1>3, <1>4, <1>6, <1>7, <1>8, <1>9 DEF Next, Command

(* While an outcome waits for review no effect of its Turn is pending or   *)
(* leased, and only a review holds effects: CommitAttempt and              *)
(* ReconcileTerminal insert, hold and open the review in one transaction.  *)
THEOREM HeldUnderReview == Spec => []ReviewHoldsEffects
<1>1. Init => ReviewHoldsEffects
  BY DEF Init, ReviewHoldsEffects
<1> QED
  BY <1>1, HoldStep, KernelInvariant, PTL DEF Spec

-----------------------------------------------------------------------------

(***************************************************************************)
(* What single commands of AgentTurn may never do, and how a Turn ends,    *)
(* proved from the ownership invariant.                                    *)
(***************************************************************************)

(* The body of LiveLeaseRespected: a live epoch that ends has committed.   *)
LiveStep ==
  \A a \in Attempt :
    attempt[a].status = "running" /\ Live(a) /\ attempt'[a].status # "running"
    => \E r \in operation' \ operation : r.attempt = a /\ r.status \in TerminalStatus

(* Only its own terminal commit ends an epoch whose lease is live.         *)
LEMMA LiveLemma == OwnerInv /\ [Next]_vars => LiveStep
<1> SUFFICES ASSUME OwnerInv, [Next]_vars,
                    NEW b \in Attempt, attempt[b].status = "running", Live(b),
                    attempt'[b].status # "running"
             PROVE  \E r \in operation' \ operation :
                       r.attempt = b /\ r.status \in TerminalStatus
  BY DEF LiveStep
<1>a. /\ attempt \in [Attempt -> AttemptRow] /\ SingleOwner /\ ActiveRuns
  BY DEF OwnerInv, TypeOK
<1>b. ASSUME NEW t \in Turn, Vacant(t) PROVE b # turn[t].active
  BY <1>a, <1>b, ConstantsAssumption DEF Vacant
<1>1. ASSUME NEW t \in Turn, Admit(t) \/ RequestCancel(t) PROVE FALSE
  BY <1>1 DEF Admit, RequestCancel
<1>2. ASSUME NEW t \in Turn, NEW a \in Attempt, ClaimAttempt(t, a) PROVE FALSE
  <2>1. b # a /\ b # turn[t].active
    BY <1>2, <1>b DEF ClaimAttempt, MayOpenEpoch
  <2> QED
    BY <1>2, <2>1 DEF ClaimAttempt, Expired
<1>3. ASSUME NEW a \in Attempt, HeartbeatAttempt(a) PROVE FALSE
  BY <1>3, <1>a DEF HeartbeatAttempt, AttemptRow
<1>4. ASSUME NEW a \in Attempt, NEW o \in Operation, NEW effects \in SUBSET Effect,
             CommitOperation(a, o, effects)
      PROVE  FALSE
  BY <1>4 DEF CommitOperation
<1>5. ASSUME NEW a \in Attempt, NEW o \in Operation, NEW effects \in SUBSET Effect,
             NEW status \in TerminalStatus, NEW intent \in Intent,
             CommitTerminal(a, o, effects, status, intent)
      PROVE  \E r \in operation' \ operation : r.attempt = b /\ r.status \in TerminalStatus
  <2> DEFINE r == Receipt(a, o, status)
  <2>1. b = a
    BY <1>5, <1>a, Zenon DEF CommitTerminal
  <2>2. r.attempt = a /\ r.status = status /\ r.turn = attempt[a].turn /\ r.id = o
    BY DEF Receipt
  <2>3. r \in operation'
    BY <1>5 DEF CommitTerminal
  <2>4. \A s \in operation : ~(s.turn = attempt[a].turn /\ s.id = o)
    BY <1>5 DEF CommitTerminal, Fresh
  <2> HIDE DEF r
  <2> QED
    BY <2>1, <2>2, <2>3, <2>4
<1>6. ASSUME NEW t \in Turn, NEW reason \in ReclaimReason, ReconcileTerminal(t, reason)
      PROVE  FALSE
  <2>1. b # turn[t].active
    BY <1>6, <1>b DEF ReconcileTerminal, MayRetire, Reconcilable
  <2> QED
    BY <1>6, <2>1 DEF ReconcileTerminal, Expired
<1>7. ASSUME Tick PROVE FALSE
  BY <1>7, <1>a DEF Tick, AttemptRow
<1>8. ASSUME UNCHANGED vars PROVE FALSE
  BY <1>8 DEF vars
<1> QED
  BY <1>1, <1>2, <1>3, <1>4, <1>5, <1>6, <1>7, <1>8 DEF Next, Command

(* Whatever claims, retirements and ticks race with it, an epoch that      *)
(* keeps its lease alive loses its Turn only by its own terminal commit.   *)
THEOREM LeaseProtects == Spec => LiveLeaseRespected
<1>1. OwnerInv /\ [Next]_vars => [LiveStep]_vars
  BY LiveLemma
<1> QED
  BY <1>1, Ownership, PTL DEF Spec, LiveLeaseRespected, LiveStep

-----------------------------------------------------------------------------
(* No command ends a cancelled Turn other than stopped, stops one that was *)
(* not cancelled, or cancels one that has ended.                           *)
LEMMA CancelLemma ==
  OwnerInv /\ CancelledEndsStopped /\ [Next]_vars => CancelledEndsStopped'
<1> SUFFICES ASSUME OwnerInv, CancelledEndsStopped, [Next]_vars
             PROVE  CancelledEndsStopped'
  OBVIOUS
<1>a. turn \in [Turn -> TurnRow] /\ SingleOwner
  BY DEF OwnerInv, TypeOK
<1>b. ASSUME NEW t \in Turn,
             turn'[t].status \in TerminalStatus => (turn'[t].cancel <=> turn'[t].status = "stopped"),
             \A u \in Turn : u # t => turn'[u] = turn[u]
      PROVE  CancelledEndsStopped'
  BY <1>b DEF CancelledEndsStopped
<1>c. ASSUME \A u \in Turn : turn'[u].status = turn[u].status /\ turn'[u].cancel = turn[u].cancel
      PROVE  CancelledEndsStopped'
  BY <1>c DEF CancelledEndsStopped
<1>1. ASSUME NEW t \in Turn, Admit(t) PROVE CancelledEndsStopped'
  BY <1>1, <1>a, <1>b DEF Admit, TurnRow, TerminalStatus
<1>2. ASSUME NEW t \in Turn, RequestCancel(t) PROVE CancelledEndsStopped'
  BY <1>2, <1>a, <1>b DEF RequestCancel, Unfinished, TurnRow, TerminalStatus
<1>3. ASSUME NEW t \in Turn, NEW a \in Attempt, ClaimAttempt(t, a)
      PROVE  CancelledEndsStopped'
  BY <1>3, <1>a, <1>b DEF ClaimAttempt, TurnRow, TerminalStatus
<1>4. ASSUME NEW a \in Attempt, HeartbeatAttempt(a) PROVE CancelledEndsStopped'
  BY <1>4, <1>c DEF HeartbeatAttempt
<1>5. ASSUME NEW a \in Attempt, NEW o \in Operation, NEW effects \in SUBSET Effect,
             CommitOperation(a, o, effects)
      PROVE  CancelledEndsStopped'
  BY <1>5, <1>a, <1>c DEF CommitOperation, TurnRow
<1>6. ASSUME NEW a \in Attempt, NEW o \in Operation, NEW effects \in SUBSET Effect,
             NEW status \in TerminalStatus, NEW intent \in Intent,
             CommitTerminal(a, o, effects, status, intent)
      PROVE  CancelledEndsStopped'
  <2> DEFINE t == attempt[a].turn
  <2>1. t \in Turn /\ (turn[t].cancel <=> status = "stopped")
    BY <1>6, <1>a DEF CommitTerminal, Holds, SingleOwner
  <2>2. /\ turn'[t].status = status /\ turn'[t].cancel = turn[t].cancel
        /\ \A u \in Turn : u # t => turn'[u] = turn[u]
    BY <1>6, <1>a, <2>1 DEF CommitTerminal, TurnRow
  <2> HIDE DEF t
  <2> QED
    BY <2>1, <2>2, <1>b
<1>7. ASSUME NEW t \in Turn, NEW reason \in ReclaimReason, ReconcileTerminal(t, reason)
      PROVE  CancelledEndsStopped'
  <2>1. turn[t].cancel <=> ReasonStatus(reason) = "stopped"
    BY <1>7 DEF ReconcileTerminal, MayRetire, Reconcilable, ReasonStatus
  <2>2. /\ turn'[t].status = ReasonStatus(reason) /\ turn'[t].cancel = turn[t].cancel
        /\ \A u \in Turn : u # t => turn'[u] = turn[u]
    BY <1>7, <1>a DEF ReconcileTerminal, TurnRow
  <2> QED
    BY <2>1, <2>2, <1>b
<1>8. ASSUME Tick PROVE CancelledEndsStopped'
  BY <1>8, <1>a, <1>c DEF Tick, TurnRow
<1>9. ASSUME UNCHANGED vars PROVE CancelledEndsStopped'
  BY <1>9, <1>c DEF vars
<1> QED
  BY <1>1, <1>2, <1>3, <1>4, <1>5, <1>6, <1>7, <1>8, <1>9 DEF Next, Command

(* A Turn ends stopped exactly when its cancellation was recorded first,   *)
(* whether its executor, the Reconciler or the reservation sweeper ends it.*)
THEOREM CancellationKept == Spec => []CancelledEndsStopped
<1>1. Init => CancelledEndsStopped
  BY DEF Init, CancelledEndsStopped, TerminalStatus
<1> QED
  BY <1>1, CancelLemma, Ownership, PTL DEF Spec

-----------------------------------------------------------------------------
(* A Turn that was never admitted was never cancelled.                     *)
AbsentUncancelled == \A t \in Turn : turn[t].status = "absent" => ~turn[t].cancel

(* The body of CancelStopsWork.                                            *)
CancelStep ==
  \A t \in Turn : turn[t].cancel =>
    /\ \A a \in Attempt : attempt'[a].turn = t => attempt[a].turn = t
    /\ \A e \in event' \ event : e.turn = t => e.kind = "stopped"

(* RequestCancel finds an admitted Turn, and no command removes one.       *)
LEMMA AbsentLemma == OwnerInv /\ AbsentUncancelled /\ [Next]_vars => AbsentUncancelled'
<1> SUFFICES ASSUME OwnerInv, AbsentUncancelled, [Next]_vars,
                    NEW u \in Turn, turn'[u].status = "absent"
             PROVE  turn'[u].cancel = turn[u].cancel /\ turn[u].status = "absent"
  BY DEF AbsentUncancelled
<1>a. turn \in [Turn -> TurnRow] /\ SingleOwner
  BY DEF OwnerInv, TypeOK
<1> DEFINE Goal == turn'[u].cancel = turn[u].cancel /\ turn[u].status = "absent"
<1>1. ASSUME NEW t \in Turn, Admit(t) PROVE Goal
  BY <1>1, <1>a DEF Admit, TurnRow
<1>2. ASSUME NEW t \in Turn, RequestCancel(t) PROVE Goal
  BY <1>2, <1>a, Zenon DEF RequestCancel, Unfinished, TurnRow
<1>3. ASSUME NEW t \in Turn, NEW a \in Attempt, ClaimAttempt(t, a) PROVE Goal
  BY <1>3, <1>a DEF ClaimAttempt, TurnRow
<1>4. ASSUME NEW a \in Attempt, HeartbeatAttempt(a) PROVE Goal
  BY <1>4 DEF HeartbeatAttempt
<1>5. ASSUME NEW a \in Attempt, NEW o \in Operation, NEW effects \in SUBSET Effect,
             CommitOperation(a, o, effects)
      PROVE  Goal
  BY <1>5, <1>a DEF CommitOperation, TurnRow
<1>6. ASSUME NEW a \in Attempt, NEW o \in Operation, NEW effects \in SUBSET Effect,
             NEW status \in TerminalStatus, NEW intent \in Intent,
             CommitTerminal(a, o, effects, status, intent)
      PROVE  Goal
  BY <1>6, <1>a DEF CommitTerminal, TurnRow, TerminalStatus
<1>7. ASSUME NEW t \in Turn, NEW reason \in ReclaimReason, ReconcileTerminal(t, reason)
      PROVE  Goal
  BY <1>7, <1>a DEF ReconcileTerminal, ReasonStatus, TurnRow
<1>8. ASSUME Tick PROVE Goal
  BY <1>8, <1>a DEF Tick, TurnRow
<1>9. ASSUME UNCHANGED vars PROVE Goal
  BY <1>9 DEF vars
<1> QED
  BY <1>1, <1>2, <1>3, <1>4, <1>5, <1>6, <1>7, <1>8, <1>9 DEF Next, Command

(* What each command adds to a cancelled Turn.                             *)
LEMMA CancelStepLemma == OwnerInv /\ AbsentUncancelled /\ [Next]_vars => CancelStep
<1> SUFFICES ASSUME OwnerInv, AbsentUncancelled, [Next]_vars, NEW u \in Turn, turn[u].cancel
             PROVE  /\ \A a \in Attempt : attempt'[a].turn = u => attempt[a].turn = u
                    /\ \A e \in event' \ event : e.turn = u => e.kind = "stopped"
  BY DEF CancelStep
<1>a. attempt \in [Attempt -> AttemptRow] /\ turn[u].status # "absent"
  BY DEF OwnerInv, TypeOK, AbsentUncancelled
<1> DEFINE Epochs == \A a \in Attempt : attempt'[a].turn = u => attempt[a].turn = u
           Log    == \A e \in event' \ event : e.turn = u => e.kind = "stopped"
<1>1. ASSUME NEW t \in Turn, Admit(t) PROVE Epochs /\ Log
  BY <1>1, <1>a DEF Admit, Logged
<1>2. ASSUME NEW t \in Turn, RequestCancel(t) PROVE Epochs /\ Log
  BY <1>2 DEF RequestCancel, Logged
<1>3. ASSUME NEW t \in Turn, NEW a \in Attempt, ClaimAttempt(t, a) PROVE Epochs /\ Log
  <2>1. t # u
    BY <1>3 DEF ClaimAttempt, MayOpenEpoch, Uncancelled
  <2>2. Epochs
    BY <1>3, <1>a, <2>1 DEF ClaimAttempt, Expired, AttemptRow
  <2>3. Log
    BY <1>3, <2>1 DEF ClaimAttempt, Logged
  <2> QED
    BY <2>2, <2>3
<1>4. ASSUME NEW a \in Attempt, HeartbeatAttempt(a) PROVE Epochs /\ Log
  BY <1>4, <1>a DEF HeartbeatAttempt, AttemptRow
<1>5. ASSUME NEW a \in Attempt, NEW o \in Operation, NEW effects \in SUBSET Effect,
             CommitOperation(a, o, effects)
      PROVE  Epochs /\ Log
  BY <1>5 DEF CommitOperation, Uncancelled, Logged
<1>6. ASSUME NEW a \in Attempt, NEW o \in Operation, NEW effects \in SUBSET Effect,
             NEW status \in TerminalStatus, NEW intent \in Intent,
             CommitTerminal(a, o, effects, status, intent)
      PROVE  Epochs /\ Log
  <2>1. Epochs
    BY <1>6, <1>a DEF CommitTerminal, AttemptRow
  <2>2. Log
    BY <1>6 DEF CommitTerminal, Logged
  <2> QED
    BY <2>1, <2>2
<1>7. ASSUME NEW t \in Turn, NEW reason \in ReclaimReason, ReconcileTerminal(t, reason)
      PROVE  Epochs /\ Log
  <2>1. Epochs
    BY <1>7, <1>a DEF ReconcileTerminal, Expired, AttemptRow
  <2>2. t = u => ReasonStatus(reason) = "stopped"
    BY <1>7 DEF ReconcileTerminal, MayRetire, Reconcilable, ReasonStatus
  <2>3. Log
    BY <1>7, <2>2 DEF ReconcileTerminal, Logged
  <2> QED
    BY <2>1, <2>3
<1>8. ASSUME Tick PROVE Epochs /\ Log
  BY <1>8, <1>a DEF Tick, AttemptRow
<1>9. ASSUME UNCHANGED vars PROVE Epochs /\ Log
  BY <1>9 DEF vars
<1> QED
  BY <1>1, <1>2, <1>3, <1>4, <1>5, <1>6, <1>7, <1>8, <1>9, Zenon DEF Next, Command

(* After a recorded cancellation no epoch of the Turn opens and its log    *)
(* gains nothing but the stopped event, however late a commit arrives.     *)
THEOREM CancellationStops == Spec => CancelStopsWork
<1>1. Init => AbsentUncancelled
  BY DEF Init, AbsentUncancelled
<1>2. OwnerInv /\ AbsentUncancelled /\ [Next]_vars => [CancelStep]_vars
  BY CancelStepLemma
<1> QED
  BY <1>1, <1>2, AbsentLemma, Ownership, PTL DEF Spec, CancelStopsWork, CancelStep

-----------------------------------------------------------------------------
(* The body of TerminalIsFinal.                                            *)
FinalStep ==
  \A t \in Turn : turn[t].status \in TerminalStatus =>
    /\ turn'[t] = [turn[t] EXCEPT !.ttl = turn'[t].ttl]
    /\ \A a \in Attempt : attempt'[a].turn = t => attempt'[a].status = attempt[a].status
    /\ \A r \in operation' : r.turn = t => r \in operation
    /\ \A e \in event' : e.turn = t => e \in event
    /\ \A l \in ledger' : l.turn = t => l \in ledger

(* No command touches a finished Turn: each finds its own Turn unfinished, *)
(* and the epoch it ends belongs to that Turn.                             *)
LEMMA FinalLemma == OwnerInv /\ [Next]_vars => FinalStep
<1> SUFFICES ASSUME OwnerInv, [Next]_vars, NEW u \in Turn, turn[u].status \in TerminalStatus
             PROVE  /\ turn'[u] = [turn[u] EXCEPT !.ttl = turn'[u].ttl]
                    /\ \A a \in Attempt : attempt'[a].turn = u => attempt'[a].status = attempt[a].status
                    /\ \A r \in operation' : r.turn = u => r \in operation
                    /\ \A e \in event' : e.turn = u => e \in event
                    /\ \A l \in ledger' : l.turn = u => l \in ledger
  BY DEF FinalStep
<1>a. /\ turn \in [Turn -> TurnRow] /\ attempt \in [Attempt -> AttemptRow]
      /\ SingleOwner /\ ActiveRuns
  BY DEF OwnerInv, TypeOK
<1>b. ~Unfinished(u) /\ turn[u].status # "absent"
  BY DEF Unfinished, TerminalStatus
<1> DEFINE Row    == turn'[u] = [turn[u] EXCEPT !.ttl = turn'[u].ttl]
           Epochs == \A a \in Attempt : attempt'[a].turn = u => attempt'[a].status = attempt[a].status
           Books  == /\ \A r \in operation' : r.turn = u => r \in operation
                     /\ \A e \in event' : e.turn = u => e \in event
                     /\ \A l \in ledger' : l.turn = u => l \in ledger
<1>c. ASSUME turn'[u] = turn[u] PROVE Row
  BY <1>a, <1>c DEF TurnRow
<1>d. ASSUME NEW t \in Turn, t # u, NEW a \in Attempt, a = turn[t].active
      PROVE  attempt[a].turn = t
  BY <1>a, <1>d, ConstantsAssumption DEF ActiveRuns
<1>1. ASSUME NEW t \in Turn, Admit(t) PROVE Row /\ Epochs /\ Books
  <2>1. t # u /\ turn'[u] = turn[u]
    BY <1>1, <1>a, <1>b DEF Admit
  <2> QED
    BY <1>1, <2>1, <1>c DEF Admit, Logged
<1>2. ASSUME NEW t \in Turn, RequestCancel(t) PROVE Row /\ Epochs /\ Books
  <2>1. t # u /\ turn'[u] = turn[u]
    BY <1>2, <1>a, <1>b DEF RequestCancel
  <2> QED
    BY <1>2, <2>1, <1>c DEF RequestCancel, Logged
<1>3. ASSUME NEW t \in Turn, NEW a \in Attempt, ClaimAttempt(t, a)
      PROVE  Row /\ Epochs /\ Books
  <2>1. t # u /\ turn'[u] = turn[u]
    BY <1>3, <1>a, <1>b DEF ClaimAttempt, MayOpenEpoch
  <2>2. Epochs
    BY <1>3, <1>a, <1>d, <2>1 DEF ClaimAttempt, Expired, AttemptRow
  <2>3. Books
    BY <1>3, <2>1 DEF ClaimAttempt, Logged
  <2> QED
    BY <2>1, <2>2, <2>3, <1>c
<1>4. ASSUME NEW a \in Attempt, HeartbeatAttempt(a) PROVE Row /\ Epochs /\ Books
  <2>1. Epochs
    BY <1>4, <1>a DEF HeartbeatAttempt, AttemptRow
  <2> QED
    BY <1>4, <2>1, <1>c DEF HeartbeatAttempt
<1>e. ASSUME NEW a \in Attempt, Holds(a) PROVE attempt[a].turn \in Turn \ {u}
  BY <1>a, <1>b, <1>e DEF Holds, SingleOwner
<1>5. ASSUME NEW a \in Attempt, NEW o \in Operation, NEW effects \in SUBSET Effect,
             CommitOperation(a, o, effects)
      PROVE  Row /\ Epochs /\ Books
  <2>1. attempt[a].turn \in Turn \ {u}
    BY <1>5, <1>e DEF CommitOperation
  <2>2. turn'[u] = turn[u]
    BY <1>5, <1>a, <2>1 DEF CommitOperation
  <2>3. Epochs
    BY <1>5 DEF CommitOperation
  <2>4. Books
    BY <1>5, <2>1 DEF CommitOperation, Logged, Receipt
  <2> QED
    BY <2>2, <2>3, <2>4, <1>c
<1>6. ASSUME NEW a \in Attempt, NEW o \in Operation, NEW effects \in SUBSET Effect,
             NEW status \in TerminalStatus, NEW intent \in Intent,
             CommitTerminal(a, o, effects, status, intent)
      PROVE  Row /\ Epochs /\ Books
  <2>1. attempt[a].turn \in Turn \ {u}
    BY <1>6, <1>e DEF CommitTerminal
  <2>2. turn'[u] = turn[u]
    BY <1>6, <1>a, <2>1 DEF CommitTerminal
  <2>3. Epochs
    BY <1>6, <1>a, <2>1 DEF CommitTerminal, AttemptRow
  <2>4. Books
    BY <1>6, <2>1 DEF CommitTerminal, Logged, Receipt, Settled
  <2> QED
    BY <2>2, <2>3, <2>4, <1>c
<1>7. ASSUME NEW t \in Turn, NEW reason \in ReclaimReason, ReconcileTerminal(t, reason)
      PROVE  Row /\ Epochs /\ Books
  <2>1. t # u /\ turn'[u] = turn[u]
    BY <1>7, <1>a, <1>b DEF ReconcileTerminal, MayRetire
  <2>2. Epochs
    BY <1>7, <1>a, <1>d, <2>1 DEF ReconcileTerminal, Expired, AttemptRow
  <2>3. Books
    BY <1>7, <2>1 DEF ReconcileTerminal, Logged, Settled
  <2> QED
    BY <2>1, <2>2, <2>3, <1>c
<1>8. ASSUME Tick PROVE Row /\ Epochs /\ Books
  <2>1. Row
    BY <1>8, <1>a DEF Tick, TurnRow
  <2>2. Epochs
    BY <1>8, <1>a DEF Tick, AttemptRow
  <2> QED
    BY <1>8, <2>1, <2>2 DEF Tick
<1>9. ASSUME UNCHANGED vars PROVE Row /\ Epochs /\ Books
  BY <1>9, <1>c DEF vars
<1> QED
  BY <1>1, <1>2, <1>3, <1>4, <1>5, <1>6, <1>7, <1>8, <1>9, Zenon DEF Next, Command

(* A finished Turn stays as it is: no late commit, takeover, cancellation  *)
(* or retirement changes its row, epochs, receipts, log or outcome.        *)
THEOREM FinishedIsFinal == Spec => TerminalIsFinal
<1>1. OwnerInv /\ [Next]_vars => [FinalStep]_vars
  BY FinalLemma
<1> QED
  BY <1>1, Ownership, PTL DEF Spec, TerminalIsFinal, FinalStep

-----------------------------------------------------------------------------
(* Nothing durable says that Turn t ran, but a receipt of operation o.     *)
EmptyBut(t, o) ==
  /\ \A r \in operation : r.turn = t => r.id = o
  /\ \A e \in Effect : effect[e].turn # t

(* A step that leaves the receipts and effects of billed Turns alone.      *)
LEMMA EmptyKept ==
  ASSUME ReleaseProvesEmpty, ledger' = ledger,
         \A l \in ledger : /\ \A r \in operation' : r.turn = l.turn => r \in operation
                           /\ \A e \in Effect : effect'[e].turn = l.turn => effect[e].turn = l.turn
  PROVE  ReleaseProvesEmpty'
  BY DEF ReleaseProvesEmpty

(* A step that ends Turn t, and bills it free only when it is empty.       *)
LEMMA EmptyBilled ==
  ASSUME ReleaseProvesEmpty, NEW t \in Turn, NEW kind, NEW by, NEW fence,
         ledger' = Settled(t, kind, by, fence),
         Authority # "none" /\ kind = "release" => EmptyBut(t, by)',
         \A l \in ledger : l.turn # t,
         \A u : u # t => /\ \A r \in operation' : r.turn = u => r \in operation
                        /\ \A e \in Effect : effect'[e].turn = u => effect[e].turn = u
  PROVE  ReleaseProvesEmpty'
<1> DEFINE new == [turn |-> t, kind |-> kind, by |-> by, fence |-> fence]
<1>1. \A l \in ledger : l.kind = "release" =>
        /\ \A r \in operation' : r.turn = l.turn => r.id = l.by
        /\ \A e \in Effect : effect'[e].turn # l.turn
  BY DEF ReleaseProvesEmpty
<1>2. CASE Authority = "none"
  <2>1. ledger' = ledger
    BY <1>2 DEF Settled
  <2> QED
    BY <1>1, <2>1 DEF ReleaseProvesEmpty
<1>3. CASE Authority # "none"
  <2>1. ledger' = ledger \cup {new} /\ new.turn = t /\ new.kind = kind /\ new.by = by
    BY <1>3 DEF Settled
  <2> HIDE DEF new
  <2>2. kind = "release" => /\ \A r \in operation' : r.turn = t => r.id = by
                            /\ \A e \in Effect : effect'[e].turn # t
    BY <1>3 DEF EmptyBut
  <2> QED
    BY <1>1, <2>1, <2>2 DEF ReleaseProvesEmpty
<1> QED
  BY <1>2, <1>3

(* No command releases a reservation of a Turn that left durable evidence, *)
(* or adds evidence to one that was released.                              *)
LEMMA EmptyStep ==
  ASSUME OwnerInv, CommercialOutcome, Authority = "none" => ledger = {},
         ReleaseProvesEmpty, [Next]_vars
  PROVE  ReleaseProvesEmpty'
<1>a. SingleOwner /\ effect \in [Effect -> EffectRow] /\ Authority \in AuthorityKind
  BY ConstantsAssumption DEF OwnerInv, TypeOK
<1>b. \A t \in Turn : Unfinished(t) => \A l \in ledger : l.turn # t
  BY DEF CommercialOutcome, Unfinished, TerminalStatus
<1>c. ASSUME UNCHANGED <<operation, effect, ledger>> PROVE ReleaseProvesEmpty'
  BY <1>c, EmptyKept
<1>d. \A t \in Turn : \A effects \in SUBSET Effect : \A review \in BOOLEAN :
        \A e \in Effect :
          Enqueued(t, effects, review)[e].turn = IF e \in effects THEN t ELSE effect[e].turn
  BY <1>a DEF Enqueued, EffectRow
<1>1. ASSUME NEW t \in Turn, Admit(t) \/ RequestCancel(t) PROVE ReleaseProvesEmpty'
  BY <1>1, <1>c DEF Admit, RequestCancel
<1>2. ASSUME NEW t \in Turn, NEW a \in Attempt, ClaimAttempt(t, a) PROVE ReleaseProvesEmpty'
  BY <1>2, <1>c DEF ClaimAttempt
<1>3. ASSUME NEW a \in Attempt, HeartbeatAttempt(a) PROVE ReleaseProvesEmpty'
  BY <1>3, <1>c DEF HeartbeatAttempt
<1>4. ASSUME NEW a \in Attempt, NEW o \in Operation, NEW effects \in SUBSET Effect,
             CommitOperation(a, o, effects)
      PROVE  ReleaseProvesEmpty'
  <2> DEFINE t == attempt[a].turn
             r == Receipt(a, o, turn[t].status)
  <2>1. t \in Turn /\ \A l \in ledger : l.turn # t
    BY <1>4, <1>a, <1>b DEF CommitOperation, Holds, SingleOwner
  <2>2. r.turn = t /\ operation' = operation \cup {r} /\ ledger' = ledger
    BY <1>4 DEF CommitOperation, Receipt
  <2>3. \A e \in Effect : effect'[e].turn = IF e \in effects THEN t ELSE effect[e].turn
    <3>1. PICK u \in Turn : u = t
      BY <2>1
    <3>2. effect' = Enqueued(u, effects, FALSE)
      BY <1>4, <3>1 DEF CommitOperation
    <3>3. \A e \in Effect :
            Enqueued(u, effects, FALSE)[e].turn = IF e \in effects THEN u ELSE effect[e].turn
      BY <1>d, Zenon
    <3> QED
      BY <3>1, <3>2, <3>3, Zenon
  <2> HIDE DEF t, r
  <2> QED
    BY <2>1, <2>2, <2>3, EmptyKept
<1>5. ASSUME NEW a \in Attempt, NEW o \in Operation, NEW effects \in SUBSET Effect,
             NEW status \in TerminalStatus, NEW intent \in Intent,
             CommitTerminal(a, o, effects, status, intent)
      PROVE  ReleaseProvesEmpty'
  <2>1. PICK t \in Turn : attempt[a].turn = t
    BY <1>5, <1>a DEF CommitTerminal, Holds, SingleOwner
  <2> DEFINE r == Receipt(a, o, status)
             review == OpensReview(t, status, intent, effects)
             kind == IF review THEN "review" ELSE intent
  <2>2. \A l \in ledger : l.turn # t
    BY <1>5, <1>b, <2>1 DEF CommitTerminal, Holds
  <2>3. /\ r.turn = t /\ r.id = o /\ operation' = operation \cup {r}
        /\ ledger' = Settled(t, kind, o, attempt[a].fence)
        /\ effect' = Enqueued(t, effects, review)
    BY <1>5, <2>1 DEF CommitTerminal, Receipt
  <2>4. \A e \in Effect : effect'[e].turn = IF e \in effects THEN t ELSE effect[e].turn
    <3>1. review \in BOOLEAN
      BY DEF OpensReview
    <3> HIDE DEF review
    <3> QED
      BY <1>d, <2>3, <3>1
  <2>5. Authority # "none" /\ kind = "release" => ~Ambiguous(t, effects)
    BY <1>5, <1>a, <2>1 DEF CommitTerminal, OpensReview, UsageUnknown, AuthorityKind
  <2> HIDE DEF r, kind
  <2>6. Authority # "none" /\ kind = "release" => EmptyBut(t, o)'
    BY <2>3, <2>4, <2>5, Zenon DEF Ambiguous, EmptyBut
  <2> QED
    BY <2>2, <2>3, <2>4, <2>6, EmptyBilled
<1>6. ASSUME NEW t \in Turn, NEW reason \in ReclaimReason, ReconcileTerminal(t, reason)
      PROVE  ReleaseProvesEmpty'
  <2> DEFINE review == OpensReview(t, ReasonStatus(reason), "release", {})
             kind == IF review THEN "review" ELSE "release"
  <2>1. \A l \in ledger : l.turn # t
    BY <1>6, <1>b DEF ReconcileTerminal, MayRetire
  <2>2. /\ operation' = operation /\ ledger' = Settled(t, kind, NoOperation, turn[t].fence + 1)
        /\ effect' = Enqueued(t, {}, review)
    BY <1>6 DEF ReconcileTerminal
  <2>3. \A e \in Effect : effect'[e].turn = effect[e].turn
    <3>1. review \in BOOLEAN
      BY DEF OpensReview
    <3> HIDE DEF review
    <3> QED
      BY <1>d, <2>2, <3>1
  <2>4. Authority # "none" /\ kind = "release" => ~Ambiguous(t, {})
    BY <1>6, <1>a, Zenon DEF ReconcileTerminal, MayRetire, OpensReview, UsageUnknown, AuthorityKind
  <2> HIDE DEF kind
  <2>5. Authority # "none" /\ kind = "release" => EmptyBut(t, NoOperation)'
    BY <2>2, <2>3, <2>4 DEF Ambiguous, EmptyBut
  <2> QED
    BY <2>1, <2>2, <2>3, <2>5, EmptyBilled
<1>7. ASSUME Tick PROVE ReleaseProvesEmpty'
  <2>1. /\ UNCHANGED <<operation, ledger>>
        /\ \A e \in Effect : effect'[e].turn = effect[e].turn
    BY <1>7, <1>a DEF Tick, EffectRow
  <2> QED
    BY <2>1, EmptyKept
<1>8. ASSUME UNCHANGED vars PROVE ReleaseProvesEmpty'
  BY <1>8, <1>c DEF vars
<1> QED
  BY <1>1, <1>2, <1>3, <1>4, <1>5, <1>6, <1>7, <1>8 DEF Next, Command

(* Whatever authority is installed, a Turn's reservation is released only  *)
(* when nothing durable says that the Turn ran, and nothing is recorded    *)
(* for it afterwards: neither a commit nor a reconciliation frees a Turn   *)
(* whose worker left a receipt or an effect behind.                        *)
THEOREM FreeOnlyWhenEmpty == Spec => []ReleaseProvesEmpty
<1>1. Init => ReleaseProvesEmpty
  BY DEF Init, ReleaseProvesEmpty
<1>2. KernelInv /\ ReleaseProvesEmpty /\ [Next]_vars => ReleaseProvesEmpty'
  BY EmptyStep DEF KernelInv, NoAuthorityNoBill
<1> QED
  BY <1>1, <1>2, KernelInvariant, PTL DEF Spec

-----------------------------------------------------------------------------

(***************************************************************************)
(* Fencing: no epoch commits after the one that replaced it, and a Turn is *)
(* never executed more often than its budget allows.  From the same        *)
(* invariant: the log has no gaps, and every receipt names its own event.  *)
(***************************************************************************)

(* An epoch's fence was its Turn's fence when it opened, so it is never    *)
(* ahead of it; only retirement takes a fence past the budget; and no two  *)
(* epochs of a Turn share a fence.                                         *)
EpochFences ==
  /\ \A a \in Attempt : attempt[a].status = "absent" =>
        attempt[a].fence = 0 /\ attempt[a].turn = NoTurn
  /\ \A a \in Attempt : attempt[a].status # "absent" =>
        /\ attempt[a].turn \in Turn
        /\ attempt[a].fence <= turn[attempt[a].turn].fence
        /\ attempt[a].fence <= MaxTurnAttempts
  /\ \A t \in Turn : /\ turn[t].fence <= MaxTurnAttempts + 1
                     /\ turn[t].status \notin TerminalStatus => turn[t].fence <= MaxTurnAttempts
  /\ \A a, b \in Attempt :
        /\ attempt[a].status # "absent" /\ attempt[a].turn = attempt[b].turn
        /\ attempt[a].fence = attempt[b].fence
        => a = b

(* A receipt was written by the epoch it names, under that epoch's fence,  *)
(* and is not ahead of its Turn's log, which starts with admission.        *)
ReceiptFences ==
  /\ \A t \in Turn : turn[t].status = "absent" => turn[t].seq = 0
  /\ \A r \in operation : /\ attempt[r.attempt].status # "absent"
                          /\ attempt[r.attempt].turn = r.turn
                          /\ attempt[r.attempt].fence = r.fence
                          /\ r.seq <= turn[r.turn].seq
  /\ \A r, s \in operation : r.turn = s.turn /\ r.seq < s.seq => r.fence <= s.fence

FenceInv == OwnerInv /\ EpochFences /\ ReceiptFences

-----------------------------------------------------------------------------
(* A claim numbers its epoch past every earlier one of the Turn, and       *)
(* nothing else gives an epoch a fence.                                    *)
LEMMA EpochStep == OwnerInv /\ EpochFences /\ [Next]_vars => EpochFences'
<1> SUFFICES ASSUME OwnerInv, EpochFences, [Next]_vars PROVE EpochFences'
  OBVIOUS
<1>a. /\ turn \in [Turn -> TurnRow] /\ attempt \in [Attempt -> AttemptRow] /\ SingleOwner
  BY DEF OwnerInv, TypeOK
<1>b. /\ \A t \in Turn : turn[t].fence \in Nat
      /\ \A a \in Attempt : attempt[a].fence \in Nat
      /\ MaxTurnAttempts \in Nat
  BY <1>a, ConstantsAssumption DEF TurnRow, AttemptRow
<1>c. ASSUME \A a \in Attempt : /\ attempt'[a].status = "absent" <=> attempt[a].status = "absent"
                               /\ attempt'[a].turn = attempt[a].turn
                               /\ attempt'[a].fence = attempt[a].fence,
             \A t \in Turn : turn'[t].fence = turn[t].fence,
             \A t \in Turn : turn[t].status \in TerminalStatus => turn'[t].status \in TerminalStatus
      PROVE  EpochFences'
  BY <1>b, <1>c DEF EpochFences
<1>1. ASSUME NEW t \in Turn, Admit(t) PROVE EpochFences'
  <2>1. attempt' = attempt /\ turn[t].status \notin TerminalStatus
    BY <1>1 DEF Admit, TerminalStatus
  <2>2. \A u \in Turn : turn'[u].fence = turn[u].fence /\ (u # t => turn'[u] = turn[u])
    BY <1>1, <1>a DEF Admit, TurnRow
  <2> QED
    BY <2>1, <2>2, <1>c
<1>2. ASSUME NEW t \in Turn, RequestCancel(t) PROVE EpochFences'
  <2>1. attempt' = attempt
    BY <1>2 DEF RequestCancel
  <2>2. \A u \in Turn : turn'[u].fence = turn[u].fence /\ turn'[u].status = turn[u].status
    BY <1>2, <1>a DEF RequestCancel, TurnRow
  <2> QED
    BY <2>1, <2>2, <1>c
<1>3. ASSUME NEW t \in Turn, NEW a \in Attempt, ClaimAttempt(t, a) PROVE EpochFences'
  <2>1. /\ turn'[t].fence = turn[t].fence + 1 /\ turn[t].fence + 1 <= MaxTurnAttempts
        /\ \A u \in Turn : u # t => turn'[u] = turn[u]
    BY <1>3, <1>a, <1>b DEF ClaimAttempt, MayOpenEpoch, WithinBudget, TurnRow
  <2>2. /\ attempt[a].status = "absent" /\ attempt'[a].status = "running"
        /\ attempt'[a].turn = t /\ attempt'[a].fence = turn[t].fence + 1
    BY <1>3 DEF ClaimAttempt, Expired
  <2>3. \A b \in Attempt : b # a => /\ attempt'[b].turn = attempt[b].turn
                                   /\ attempt'[b].fence = attempt[b].fence
    BY <1>3, <1>a DEF ClaimAttempt, Expired, AttemptRow
  <2>4. \A b \in Attempt : b # a => (attempt'[b].status = "absent" <=> attempt[b].status = "absent")
    <3>1. \A b \in Attempt : b = turn[t].active => attempt[b].status # "absent"
      BY ConstantsAssumption DEF OwnerInv, ActiveRuns
    <3> QED
      BY <1>3, <1>a, <3>1 DEF ClaimAttempt, Expired, AttemptRow
  <2>5. \A b \in Attempt : b # a /\ attempt[b].turn = t => attempt[b].fence < turn[t].fence + 1
    BY <1>b, ConstantsAssumption DEF EpochFences
  <2>6. \A b \in Attempt : attempt'[b].status = "absent" =>
           attempt'[b].fence = 0 /\ attempt'[b].turn = NoTurn
    BY <2>2, <2>3, <2>4 DEF EpochFences
  <2>7. \A b \in Attempt : attempt'[b].status # "absent" =>
           /\ attempt'[b].turn \in Turn
           /\ attempt'[b].fence <= turn'[attempt'[b].turn].fence
           /\ attempt'[b].fence <= MaxTurnAttempts
    BY <1>b, <2>1, <2>2, <2>3, <2>4 DEF EpochFences
  <2>8. \A u \in Turn : /\ turn'[u].fence <= MaxTurnAttempts + 1
                        /\ turn'[u].status \notin TerminalStatus => turn'[u].fence <= MaxTurnAttempts
    BY <1>b, <2>1 DEF EpochFences
  <2>9. \A b, c \in Attempt :
          /\ attempt'[b].status # "absent" /\ attempt'[b].turn = attempt'[c].turn
          /\ attempt'[b].fence = attempt'[c].fence
          => b = c
    BY <1>b, <2>2, <2>3, <2>4, <2>5 DEF EpochFences
  <2> QED
    BY <2>6, <2>7, <2>8, <2>9 DEF EpochFences
<1>4. ASSUME NEW a \in Attempt, HeartbeatAttempt(a) PROVE EpochFences'
  BY <1>4, <1>a, <1>c DEF HeartbeatAttempt, AttemptRow
<1>5. ASSUME NEW a \in Attempt, NEW o \in Operation, NEW effects \in SUBSET Effect,
             CommitOperation(a, o, effects)
      PROVE  EpochFences'
  BY <1>5, <1>a, <1>c, Zenon DEF CommitOperation, TurnRow
<1>6. ASSUME NEW a \in Attempt, NEW o \in Operation, NEW effects \in SUBSET Effect,
             NEW status \in TerminalStatus, NEW intent \in Intent,
             CommitTerminal(a, o, effects, status, intent)
      PROVE  EpochFences'
  <2>1. \A b \in Attempt : /\ attempt'[b].status = "absent" <=> attempt[b].status = "absent"
                           /\ attempt'[b].turn = attempt[b].turn
                           /\ attempt'[b].fence = attempt[b].fence
    BY <1>6, <1>a DEF CommitTerminal, Holds, TerminalStatus, AttemptRow
  <2>2. \A u \in Turn : turn'[u].fence = turn[u].fence
    BY <1>6, <1>a DEF CommitTerminal, TurnRow
  <2>3. \A u \in Turn : turn'[u].status \in {turn[u].status, status}
    BY <1>6, <1>a, Zenon DEF CommitTerminal, TurnRow
  <2> QED
    BY <2>1, <2>2, <2>3, <1>c
<1>7. ASSUME NEW t \in Turn, NEW reason \in ReclaimReason, ReconcileTerminal(t, reason)
      PROVE  EpochFences'
  <2>1. /\ turn'[t].fence = turn[t].fence + 1 /\ turn'[t].status \in TerminalStatus
        /\ turn[t].status \notin TerminalStatus
        /\ \A u \in Turn : u # t => turn'[u] = turn[u]
    BY <1>7, <1>a DEF ReconcileTerminal, MayRetire, Unfinished, ReasonStatus, TerminalStatus, TurnRow
  <2>2. \A b \in Attempt : /\ attempt'[b].turn = attempt[b].turn
                           /\ attempt'[b].fence = attempt[b].fence
    BY <1>7, <1>a DEF ReconcileTerminal, Expired, AttemptRow
  <2>3. \A b \in Attempt : attempt'[b].status = "absent" <=> attempt[b].status = "absent"
    <3>1. \A b \in Attempt : b = turn[t].active => attempt[b].status # "absent"
      BY ConstantsAssumption DEF OwnerInv, ActiveRuns
    <3> QED
      BY <1>7, <1>a, <3>1 DEF ReconcileTerminal, Expired, AttemptRow
  <2> QED
    BY <1>b, <2>1, <2>2, <2>3 DEF EpochFences
<1>8. ASSUME Tick PROVE EpochFences'
  <2>1. \A u \in Turn : turn'[u].fence = turn[u].fence /\ turn'[u].status = turn[u].status
    BY <1>8, <1>a DEF Tick, TurnRow
  <2>2. \A b \in Attempt : /\ attempt'[b].status = attempt[b].status
                           /\ attempt'[b].turn = attempt[b].turn
                           /\ attempt'[b].fence = attempt[b].fence
    BY <1>8, <1>a DEF Tick, AttemptRow
  <2> QED
    BY <2>1, <2>2, <1>c
<1>9. ASSUME UNCHANGED vars PROVE EpochFences'
  BY <1>9, <1>c DEF vars
<1> QED
  BY <1>1, <1>2, <1>3, <1>4, <1>5, <1>6, <1>7, <1>8, <1>9 DEF Next, Command

(* A new receipt carries the Turn's fence and the next sequence number, so *)
(* it is behind no earlier one; nothing rewrites the epochs receipts name. *)
LEMMA ReceiptStep == FenceInv /\ [Next]_vars => ReceiptFences'
<1> SUFFICES ASSUME FenceInv, [Next]_vars PROVE ReceiptFences'
  OBVIOUS
<1>a. /\ turn \in [Turn -> TurnRow] /\ attempt \in [Attempt -> AttemptRow]
      /\ operation \subseteq OperationRow
      /\ SingleOwner /\ ActiveRuns /\ EpochFences /\ ReceiptFences
  BY DEF FenceInv, OwnerInv, TypeOK
<1>b. /\ \A t \in Turn : turn[t].seq \in Nat /\ turn[t].fence \in Nat
      /\ \A a \in Attempt : attempt[a].fence \in Nat
      /\ \A r \in operation : r.turn \in Turn /\ r.attempt \in Attempt /\ r.seq \in Nat /\ r.fence \in Nat
  BY <1>a DEF TurnRow, AttemptRow, OperationRow
<1> DEFINE Kept == \A b \in Attempt : attempt[b].status # "absent" =>
                     /\ attempt'[b].status # "absent" /\ attempt'[b].turn = attempt[b].turn
                     /\ attempt'[b].fence = attempt[b].fence
           Grown == \A u \in Turn :
                      /\ turn'[u].seq \in Nat /\ turn[u].seq <= turn'[u].seq
                      /\ turn'[u].status = "absent" =>
                           turn[u].status = "absent" /\ turn'[u].seq = turn[u].seq
<1>c. ASSUME Kept, Grown, operation' = operation PROVE ReceiptFences'
  BY <1>a, <1>b, <1>c DEF ReceiptFences
<1>d. ASSUME NEW a \in Attempt, NEW o \in Operation, NEW status, Holds(a), Kept, Grown,
             turn'[attempt[a].turn].seq = turn[attempt[a].turn].seq + 1,
             operation' = operation \cup {Receipt(a, o, status)}
      PROVE  ReceiptFences'
  <2> DEFINE t == attempt[a].turn
             new == Receipt(a, o, status)
  <2>1. /\ t \in Turn /\ attempt[a].status # "absent" /\ attempt[a].fence = turn[t].fence
    BY <1>a, <1>d, Zenon DEF Holds, SingleOwner
  <2>2. /\ new.turn = t /\ new.attempt = a /\ new.fence = turn[t].fence
        /\ new.seq = turn[t].seq + 1
    BY <2>1, Zenon DEF Receipt
  <2>3. \A r \in operation : r.turn = t => r.fence <= turn[t].fence /\ r.seq <= turn[t].seq
    BY <1>a, <1>b DEF ReceiptFences, EpochFences
  <2>4. operation' = operation \cup {new} /\ turn'[t].seq = turn[t].seq + 1
    BY <1>d
  <2>5. /\ attempt'[a].status # "absent" /\ attempt'[a].turn = t
        /\ attempt'[a].fence = turn[t].fence
    BY <1>d, <2>1
  <2> HIDE DEF new, t
  <2>6. \A r \in operation' : /\ attempt'[r.attempt].status # "absent"
                              /\ attempt'[r.attempt].turn = r.turn
                              /\ attempt'[r.attempt].fence = r.fence
                              /\ r.seq <= turn'[r.turn].seq
    <3>1. ASSUME NEW r \in operation
          PROVE  /\ attempt'[r.attempt].status # "absent"
                 /\ attempt'[r.attempt].turn = r.turn
                 /\ attempt'[r.attempt].fence = r.fence
                 /\ r.seq <= turn'[r.turn].seq
      BY <1>a, <1>b, <1>d DEF ReceiptFences
    <3>2. new.seq <= turn'[new.turn].seq
      BY <1>b, <2>1, <2>2, <2>4
    <3> QED
      BY <3>1, <3>2, <2>2, <2>4, <2>5, Zenon
  <2>7. \A r, s \in operation' : r.turn = s.turn /\ r.seq < s.seq => r.fence <= s.fence
    BY <1>a, <1>b, <2>1, <2>2, <2>3, <2>4 DEF ReceiptFences
  <2>8. \A u \in Turn : turn'[u].status = "absent" => turn'[u].seq = 0
    BY <1>a, <1>d, Zenon DEF ReceiptFences
  <2> QED
    BY <2>6, <2>7, <2>8, Zenon DEF ReceiptFences
<1>1. ASSUME NEW t \in Turn, Admit(t) PROVE ReceiptFences'
  <2>1. Kept /\ operation' = operation
    BY <1>1 DEF Admit
  <2>2. turn[t].seq = 0
    BY <1>1, <1>a DEF Admit, ReceiptFences
  <2>3. Grown
    BY <1>1, <1>a, <1>b, <2>2 DEF Admit, TurnRow
  <2> QED
    BY <2>1, <2>3, <1>c
<1>2. ASSUME NEW t \in Turn, RequestCancel(t) PROVE ReceiptFences'
  <2>1. Kept /\ operation' = operation
    BY <1>2 DEF RequestCancel
  <2>2. Grown
    BY <1>2, <1>a, <1>b DEF RequestCancel, Unfinished, TurnRow
  <2> QED
    BY <2>1, <2>2, <1>c
<1>3. ASSUME NEW t \in Turn, NEW a \in Attempt, ClaimAttempt(t, a) PROVE ReceiptFences'
  <2>1. Kept
    BY <1>3, <1>a DEF ClaimAttempt, Expired, AttemptRow
  <2>2. Grown
    BY <1>3, <1>a, <1>b DEF ClaimAttempt, TurnRow
  <2> QED
    BY <1>3, <2>1, <2>2, <1>c DEF ClaimAttempt
<1>4. ASSUME NEW a \in Attempt, HeartbeatAttempt(a) PROVE ReceiptFences'
  <2>1. Kept
    BY <1>4, <1>a DEF HeartbeatAttempt, AttemptRow
  <2>2. Grown /\ operation' = operation
    BY <1>4, <1>b DEF HeartbeatAttempt
  <2> QED
    BY <2>1, <2>2, <1>c
<1>5. ASSUME NEW a \in Attempt, NEW o \in Operation, NEW effects \in SUBSET Effect,
             CommitOperation(a, o, effects)
      PROVE  ReceiptFences'
  <2> DEFINE t == attempt[a].turn
  <2>1. Holds(a) /\ operation' = operation \cup {Receipt(a, o, turn[t].status)} /\ Kept
    BY <1>5, Zenon DEF CommitOperation
  <2>2. t \in Turn
    BY <1>a, <2>1 DEF Holds, SingleOwner
  <2>3. Grown /\ turn'[t].seq = turn[t].seq + 1
    BY <1>5, <1>a, <1>b, <2>1, <2>2 DEF CommitOperation, Holds, Unfinished, TurnRow
  <2> QED
    BY <2>1, <2>3, <1>d
<1>6. ASSUME NEW a \in Attempt, NEW o \in Operation, NEW effects \in SUBSET Effect,
             NEW status \in TerminalStatus, NEW intent \in Intent,
             CommitTerminal(a, o, effects, status, intent)
      PROVE  ReceiptFences'
  <2> DEFINE t == attempt[a].turn
  <2>1. Holds(a) /\ operation' = operation \cup {Receipt(a, o, status)}
    BY <1>6, Zenon DEF CommitTerminal
  <2>2. t \in Turn
    BY <1>a, <2>1 DEF Holds, SingleOwner
  <2>3. Grown /\ turn'[t].seq = turn[t].seq + 1
    BY <1>6, <1>a, <1>b, <2>2 DEF CommitTerminal, TerminalStatus, TurnRow
  <2>4. Kept
    BY <1>6, <1>a DEF CommitTerminal, TerminalStatus, AttemptRow
  <2> QED
    BY <2>1, <2>3, <2>4, <1>d
<1>7. ASSUME NEW t \in Turn, NEW reason \in ReclaimReason, ReconcileTerminal(t, reason)
      PROVE  ReceiptFences'
  <2>1. Kept
    BY <1>7, <1>a DEF ReconcileTerminal, Expired, AttemptRow
  <2>2. Grown
    BY <1>7, <1>a, <1>b DEF ReconcileTerminal, ReasonStatus, TurnRow
  <2> QED
    BY <1>7, <2>1, <2>2, <1>c DEF ReconcileTerminal
<1>8. ASSUME Tick PROVE ReceiptFences'
  <2>1. Kept
    BY <1>8, <1>a DEF Tick, AttemptRow
  <2>2. Grown
    BY <1>8, <1>a, <1>b DEF Tick, TurnRow
  <2> QED
    BY <1>8, <2>1, <2>2, <1>c, Zenon DEF Tick
<1>9. ASSUME UNCHANGED vars PROVE ReceiptFences'
  BY <1>9, <1>b, <1>c DEF vars
<1> QED
  BY <1>1, <1>2, <1>3, <1>4, <1>5, <1>6, <1>7, <1>8, <1>9 DEF Next, Command

(* The fencing invariant holds of every reachable store.                   *)
THEOREM Fencing == Spec => []FenceInv
<1>1. Init => FenceInv
  <2>1. Init => EpochFences /\ ReceiptFences
    BY ConstantsAssumption DEF Init, EpochFences, ReceiptFences
  <2> QED
    BY <2>1, OwnerInit, Zenon DEF FenceInv
<1>2. FenceInv /\ [Next]_vars => FenceInv'
  BY TypeStep, OwnerStep, EpochStep, ReceiptStep, Zenon DEF FenceInv, OwnerInv
<1> QED
  BY <1>1, <1>2, PTL DEF Spec

(* What the fencing invariant says of receipts and of budgets.             *)
LEMMA FencedReceipts == FenceInv => NoStaleCommit
<1> SUFFICES ASSUME FenceInv PROVE NoStaleCommit
  OBVIOUS
<1>1. \A r \in operation : r.attempt \in Attempt
  BY Zenon DEF FenceInv, OwnerInv, TypeOK, OperationRow
<1> QED
  BY <1>1 DEF FenceInv, ReceiptFences, EpochFences, NoStaleCommit

(* A fence never passes the budget but by retirement.                      *)
LEMMA FencedBudget == FenceInv => AttemptBudget
<1> SUFFICES ASSUME FenceInv PROVE AttemptBudget
  OBVIOUS
<1>1. \A a \in Attempt : attempt[a].fence <= MaxTurnAttempts
  BY ConstantsAssumption DEF FenceInv, EpochFences
<1> QED
  BY <1>1 DEF FenceInv, EpochFences, AttemptBudget

(* Fencing works: in the log of a Turn no commit of an epoch follows one   *)
(* of the epoch that replaced it, however long the first was paused.       *)
THEOREM StaleNeverCommits == Spec => []NoStaleCommit
  BY FencedReceipts, Fencing, PTL

(* A Turn is executed at most MaxTurnAttempts times, with a fence of its   *)
(* own for every epoch, whatever the workers and the Reconciler do.        *)
THEOREM BudgetKept == Spec => []AttemptBudget
  BY FencedBudget, Fencing, PTL

-----------------------------------------------------------------------------
(* A command adds one event to the log of one Turn, or none to any.        *)
Appends(t, kind) ==
  /\ event' = Logged(t, kind) /\ turn'[t].seq = turn[t].seq + 1
  /\ \A u \in Turn \ {t} : turn'[u].seq = turn[u].seq

KeepsLog == event' = event /\ \A u \in Turn : turn'[u].seq = turn[u].seq

(* Appending the next number keeps the log gap-free.                       *)
LEMMA AppendedLog ==
  ASSUME TypeOK, LogContiguous, NEW t \in Turn, NEW kind, Appends(t, kind)
  PROVE  LogContiguous'
<1> DEFINE new == [turn |-> t, seq |-> turn[t].seq + 1, kind |-> kind]
           Seqs(u) == {e.seq : e \in {f \in event : f.turn = u}}
           Seqs1(u) == {e.seq : e \in {f \in event' : f.turn = u}}
<1>1. turn[t].seq \in Nat /\ event' = event \cup {new} /\ new.turn = t /\ new.seq = turn[t].seq + 1
  BY TurnColumns DEF TypeOK, Appends, Logged
<1> HIDE DEF new
<1>2. \A u \in Turn : Seqs(u) = 1..turn[u].seq
  BY DEF LogContiguous
<1>3. \A e \in event : e.turn = t => e.seq \in 1..turn[t].seq
  BY <1>2
<1>4. Seqs1(t) = Seqs(t) \cup {turn[t].seq + 1}
  BY <1>1
<1>5. Seqs1(t) = 1..turn'[t].seq
  <2>1. (1..turn[t].seq) \cup {turn[t].seq + 1} = 1..(turn[t].seq + 1)
    BY <1>1
  <2> HIDE DEF Seqs, Seqs1
  <2> QED
    BY <1>2, <1>4, <2>1, Zenon DEF Appends
<1>6. \A u \in Turn \ {t} : Seqs1(u) = 1..turn'[u].seq
  <2>1. \A u \in Turn \ {t} : Seqs1(u) = Seqs(u)
    BY <1>1
  <2> HIDE DEF Seqs, Seqs1
  <2> QED
    BY <1>2, <2>1 DEF Appends
<1>7. \A e, f \in event' : e.turn = f.turn /\ e.seq = f.seq => e = f
  <2>1. \A e \in event : e.turn = t => e.seq # turn[t].seq + 1
    BY <1>1, <1>3
  <2> QED
    BY <1>1, <2>1 DEF LogContiguous
<1> QED
  BY <1>5, <1>6, <1>7, Zenon DEF LogContiguous

(* A command without an event keeps it too.                                *)
LEMMA KeptLog ==
  ASSUME LogContiguous, KeepsLog
  PROVE  LogContiguous'
  BY DEF LogContiguous, KeepsLog

(* What each command does to the logs.                                     *)
LEMMA LogStep ==
  ASSUME FenceInv, [Next]_vars
  PROVE  KeepsLog \/ \E t \in Turn, kind \in EventKind : Appends(t, kind)
<1>a. /\ turn \in [Turn -> TurnRow] /\ SingleOwner
      /\ \A t \in Turn : turn[t].status = "absent" => turn[t].seq = 0
  BY DEF FenceInv, OwnerInv, TypeOK, ReceiptFences
<1>b. {"queued", "running", "output", "cancel"} \cup TerminalStatus \subseteq EventKind
  BY DEF EventKind, TurnStatus
<1>1. ASSUME NEW t \in Turn, Admit(t) PROVE Appends(t, "queued")
  BY <1>1, <1>a DEF Admit, Appends, TurnRow
<1>2. ASSUME NEW t \in Turn, RequestCancel(t) PROVE Appends(t, "cancel")
  BY <1>2, <1>a DEF RequestCancel, Appends, TurnRow
<1>3. ASSUME NEW t \in Turn, NEW a \in Attempt, ClaimAttempt(t, a)
      PROVE  KeepsLog \/ Appends(t, "running")
  BY <1>3, <1>a DEF ClaimAttempt, Appends, KeepsLog, TurnRow
<1>4. ASSUME NEW a \in Attempt, HeartbeatAttempt(a) PROVE KeepsLog
  BY <1>4 DEF HeartbeatAttempt, KeepsLog
<1>5. ASSUME NEW a \in Attempt, NEW o \in Operation, NEW effects \in SUBSET Effect,
             CommitOperation(a, o, effects)
      PROVE  attempt[a].turn \in Turn /\ Appends(attempt[a].turn, "output")
  <2>1. attempt[a].turn \in Turn
    BY <1>5, <1>a DEF CommitOperation, Holds, SingleOwner
  <2> QED
    BY <1>5, <1>a, <2>1 DEF CommitOperation, Appends, TurnRow
<1>6. ASSUME NEW a \in Attempt, NEW o \in Operation, NEW effects \in SUBSET Effect,
             NEW status \in TerminalStatus, NEW intent \in Intent,
             CommitTerminal(a, o, effects, status, intent)
      PROVE  attempt[a].turn \in Turn /\ Appends(attempt[a].turn, status)
  <2>1. attempt[a].turn \in Turn
    BY <1>6, <1>a DEF CommitTerminal, Holds, SingleOwner
  <2> QED
    BY <1>6, <1>a, <2>1 DEF CommitTerminal, Appends, TurnRow
<1>7. ASSUME NEW t \in Turn, NEW reason \in ReclaimReason, ReconcileTerminal(t, reason)
      PROVE  ReasonStatus(reason) \in TerminalStatus /\ Appends(t, ReasonStatus(reason))
  <2>1. ReasonStatus(reason) \in TerminalStatus
    BY DEF ReasonStatus, TerminalStatus
  <2> QED
    BY <1>7, <1>a, <2>1 DEF ReconcileTerminal, Appends, TurnRow
<1>8. ASSUME Tick PROVE KeepsLog
  BY <1>8, <1>a DEF Tick, KeepsLog, TurnRow
<1>9. ASSUME UNCHANGED vars PROVE KeepsLog
  BY <1>9, Zenon DEF vars, KeepsLog
<1> QED
  BY <1>b, <1>1, <1>2, <1>3, <1>4, <1>5, <1>6, <1>7, <1>8, <1>9 DEF Next, Command

(* So every command keeps the log gap-free.                                *)
LEMMA GapFreeStep == FenceInv /\ LogContiguous /\ [Next]_vars => LogContiguous'
<1> SUFFICES ASSUME FenceInv, LogContiguous, [Next]_vars PROVE LogContiguous'
  OBVIOUS
<1>1. TypeOK
  BY Zenon DEF FenceInv, OwnerInv
<1> QED
  BY <1>1, LogStep, AppendedLog, KeptLog

(* The log of a Turn is 1..last_event_sequence with one row per number,    *)
(* whatever admissions, claims, commits, cancellations and retirements     *)
(* race to append to it: a cursor misses and repeats nothing.              *)
THEOREM LogHasNoGaps == Spec => []LogContiguous
<1>1. Init => LogContiguous
  BY DEF Init, LogContiguous
<1> QED
  BY <1>1, GapFreeStep, Fencing, PTL DEF Spec

-----------------------------------------------------------------------------
EventOf(r) == [turn |-> r.turn, seq |-> r.seq,
               kind |-> IF r.status = "running" THEN "output" ELSE r.status]

(* A commit that writes its event and its receipt together.                *)
Writes(r) ==
  /\ r.turn \in Turn /\ r.seq = turn[r.turn].seq + 1
  /\ operation' = operation \cup {r} /\ event' = event \cup {EventOf(r)}
  /\ \A s \in operation : ~(s.turn = r.turn /\ s.id = r.id)

(* Such a commit keeps receipts and events together.                       *)
LEMMA ReceiptWritten ==
  ASSUME FenceInv, ReceiptsMatchLog, NEW r, Writes(r)
  PROVE  ReceiptsMatchLog'
<1>1. \A s \in operation : s.turn = r.turn => s.seq \in Nat /\ s.seq <= turn[r.turn].seq
  BY DEF FenceInv, ReceiptFences, OwnerInv, TypeOK, OperationRow
<1>2. turn[r.turn].seq \in Nat
  BY TurnColumns DEF FenceInv, OwnerInv, TypeOK, Writes
<1>3. \A s \in operation : s.turn = r.turn => s.seq # r.seq /\ s.id # r.id
  BY <1>1, <1>2 DEF Writes
<1>4. \A s \in operation' : EventOf(s) \in event'
  BY Zenon DEF ReceiptsMatchLog, EventOf, Writes
<1>5. \A q, s \in operation' : q.turn = s.turn /\ (q.seq = s.seq \/ q.id = s.id) => q = s
  BY <1>3 DEF ReceiptsMatchLog, Writes
<1> QED
  BY <1>4, <1>5, Zenon DEF ReceiptsMatchLog, EventOf

(* Every command keeps its receipts and its events together.               *)
LEMMA HonestStep == FenceInv /\ ReceiptsMatchLog /\ [Next]_vars => ReceiptsMatchLog'
<1> SUFFICES ASSUME FenceInv, ReceiptsMatchLog, [Next]_vars PROVE ReceiptsMatchLog'
  OBVIOUS
<1>a. SingleOwner /\ ReceiptFences
  BY Zenon DEF FenceInv, OwnerInv
<1>b. ASSUME operation' = operation, event \subseteq event' PROVE ReceiptsMatchLog'
  BY <1>b, Zenon DEF ReceiptsMatchLog
<1>1. ASSUME NEW t \in Turn, Admit(t) \/ RequestCancel(t) PROVE ReceiptsMatchLog'
  BY <1>1, <1>b, Zenon DEF Admit, RequestCancel, Logged
<1>2. ASSUME NEW t \in Turn, NEW a \in Attempt, ClaimAttempt(t, a) PROVE ReceiptsMatchLog'
  BY <1>2, <1>b, Zenon DEF ClaimAttempt, Logged
<1>3. ASSUME NEW a \in Attempt, HeartbeatAttempt(a) PROVE ReceiptsMatchLog'
  BY <1>3, <1>b, Zenon DEF HeartbeatAttempt
<1>4. ASSUME NEW a \in Attempt, NEW o \in Operation, NEW effects \in SUBSET Effect,
             CommitOperation(a, o, effects)
      PROVE  ReceiptsMatchLog'
  <2> DEFINE t == attempt[a].turn
             r == Receipt(a, o, turn[t].status)
  <2>1. t \in Turn /\ turn[t].status = "running"
    BY <1>4, <1>a, Zenon DEF CommitOperation, Holds, SingleOwner
  <2>2. r.turn = t /\ r.id = o /\ r.seq = turn[t].seq + 1 /\ r.status = "running"
    BY <2>1, Zenon DEF Receipt
  <2>3. operation' = operation \cup {r} /\ \A s \in operation : ~(s.turn = t /\ s.id = o)
    BY <1>4, Zenon DEF CommitOperation, Fresh
  <2>4. event' = Logged(t, "output")
    BY <1>4, Zenon DEF CommitOperation
  <2> HIDE DEF t, r
  <2>5. event' = event \cup {EventOf(r)}
    BY <2>2, <2>4, Zenon DEF Logged, EventOf
  <2>6. Writes(r)
    BY <2>1, <2>2, <2>3, <2>5, Zenon DEF Writes
  <2> QED
    BY <2>6, ReceiptWritten, Zenon
<1>5. ASSUME NEW a \in Attempt, NEW o \in Operation, NEW effects \in SUBSET Effect,
             NEW status \in TerminalStatus, NEW intent \in Intent,
             CommitTerminal(a, o, effects, status, intent)
      PROVE  ReceiptsMatchLog'
  <2> DEFINE t == attempt[a].turn
             r == Receipt(a, o, status)
  <2>1. t \in Turn /\ status # "running"
    BY <1>5, <1>a, Zenon DEF CommitTerminal, Holds, SingleOwner, TerminalStatus
  <2>2. r.turn = t /\ r.id = o /\ r.seq = turn[t].seq + 1
    BY Zenon DEF Receipt
  <2>3. operation' = operation \cup {r} /\ \A s \in operation : ~(s.turn = t /\ s.id = o)
    BY <1>5, Zenon DEF CommitTerminal, Fresh
  <2>4. event' = Logged(t, status) /\ r.status = status
    BY <1>5, Zenon DEF CommitTerminal, Receipt
  <2> HIDE DEF t, r
  <2>5. event' = event \cup {EventOf(r)}
    BY <2>1, <2>2, <2>4, Zenon DEF Logged, EventOf
  <2>6. Writes(r)
    BY <2>1, <2>2, <2>3, <2>5, Zenon DEF Writes
  <2> QED
    BY <2>6, ReceiptWritten, Zenon
<1>6. ASSUME NEW t \in Turn, NEW reason \in ReclaimReason, ReconcileTerminal(t, reason)
      PROVE  ReceiptsMatchLog'
  BY <1>6, <1>b, Zenon DEF ReconcileTerminal, Logged
<1>7. ASSUME Tick \/ UNCHANGED vars PROVE ReceiptsMatchLog'
  BY <1>7, <1>b, Zenon DEF Tick, vars
<1> QED
  BY <1>1, <1>2, <1>3, <1>4, <1>5, <1>6, <1>7, Zenon DEF Next, Command

(* Every receipt names an event of its own, written by the very commit the *)
(* receipt records: CommitAttempt answers a replay with what it did.       *)
THEOREM ReceiptsAreHonest == Spec => []ReceiptsMatchLog
<1>1. Init => ReceiptsMatchLog
  BY DEF Init, ReceiptsMatchLog
<1> QED
  BY <1>1, HonestStep, Fencing, PTL DEF Spec

-----------------------------------------------------------------------------

(***************************************************************************)
(* The whole Store: Service still exports the unfenced AppendEvent and     *)
(* Transition beside the fenced commands, on the same tables.              *)
(***************************************************************************)

StoreSpec == Init /\ [][Next \/ LegacyNext]_vars

(* A fence of zero means that no epoch of the Turn was ever opened.  It is *)
(* what the unfenced commands rely on.                                     *)
EpochsNumbered == \A a \in Attempt : attempt[a].status # "absent" => attempt[a].fence > 0

(* What is left of CommercialOutcome beside commands that finish a Turn    *)
(* without asking the authority: an outcome belongs to a finished Turn, is *)
(* its only one, and no Turn that was ever executed finishes without one.  *)
FencedOutcome ==
  Authority # "none" =>
    /\ \A t \in Turn : (\E l \in ledger : l.turn = t) => turn[t].status \in TerminalStatus
    /\ \A t \in Turn : turn[t].status \in TerminalStatus /\ turn[t].fence > 0
                       => \E l \in ledger : l.turn = t
    /\ \A k, l \in ledger : k.turn = l.turn => k = l

MixedInv == FenceInv /\ EpochsNumbered /\ LogContiguous /\ ReceiptsMatchLog /\ FencedOutcome

(* What an unfenced command does: one event for one unfinished Turn that   *)
(* no epoch ever owned, whose row it leaves unfinished or finishes.        *)
Unfenced(t, kind) ==
  /\ Unfinished(t) /\ turn[t].fence = 0
  /\ turn' \in [Turn -> TurnRow] /\ Appends(t, kind)
  /\ turn'[t].status \in TurnStatus /\ turn'[t].active = turn[t].active /\ turn'[t].fence = 0
  /\ \A u \in Turn \ {t} : turn'[u] = turn[u]
  /\ UNCHANGED <<attempt, operation, effect, ledger>>

(* Both unfenced commands are of that form.                                *)
LEMMA LegacyIsUnfenced ==
  ASSUME TypeOK, LegacyNext
  PROVE  \E t \in Turn, kind \in EventKind : Unfenced(t, kind)
<1>a. turn \in [Turn -> TurnRow]
  BY DEF TypeOK
<1>1. ASSUME NEW t \in Turn, AppendEvent(t) PROVE Unfenced(t, "output") /\ "output" \in EventKind
  <2>1. turn[t] \in TurnRow /\ turn[t].seq + 1 \in Nat /\ turn[t].status \in TurnStatus
    BY <1>1, <1>a, TurnColumns DEF AppendEvent, Unfinished, TurnStatus
  <2>2. turn' = [turn EXCEPT ![t] = [turn[t] EXCEPT !.seq = turn[t].seq + 1]]
    BY <1>1, <1>a DEF AppendEvent
  <2>3. turn' \in [Turn -> TurnRow]
    BY <2>1, <2>2, <1>a DEF TurnRow
  <2>4. /\ turn'[t].seq = turn[t].seq + 1 /\ turn'[t].status = turn[t].status
        /\ turn'[t].active = turn[t].active /\ turn'[t].fence = turn[t].fence
        /\ \A u \in Turn \ {t} : turn'[u] = turn[u]
    BY <2>1, <2>2, <1>a DEF TurnRow
  <2>5. Appends(t, "output")
    BY <1>1, <2>4, Zenon DEF AppendEvent, Appends
  <2> QED
    BY <1>1, <2>1, <2>3, <2>4, <2>5, Zenon DEF AppendEvent, Unfenced, EventKind
<1>2. ASSUME NEW t \in Turn, NEW to \in TurnStatus, Transition(t, to)
      PROVE  Unfenced(t, to) /\ to \in EventKind
  <2> DEFINE n == turn[t].seq + 1
             row == [turn[t] EXCEPT !.status = to, !.seq = n]
  <2>1. turn[t] \in TurnRow /\ n \in Nat
    BY <1>a, TurnColumns
  <2>2. turn' = [turn EXCEPT ![t] = row]
    BY <1>2, <1>a DEF Transition
  <2>3. turn' \in [Turn -> TurnRow]
    <3> HIDE DEF n
    <3>1. row \in TurnRow
      BY <2>1, Zenon DEF TurnRow
    <3> HIDE DEF row
    <3> QED
      BY <2>2, <3>1, <1>a
  <2>4. /\ turn'[t].seq = turn[t].seq + 1 /\ turn'[t].status = to
        /\ turn'[t].active = turn[t].active /\ turn'[t].fence = turn[t].fence
        /\ \A u \in Turn \ {t} : turn'[u] = turn[u]
    BY <2>1, <2>2, <1>a DEF TurnRow
  <2>5. Appends(t, to)
    BY <1>2, <2>4, Zenon DEF Transition, Appends
  <2> QED
    BY <1>2, <2>3, <2>4, <2>5, Zenon DEF Transition, Unfenced, EventKind
<1> QED
  BY <1>1, <1>2, Zenon DEF LegacyNext

(* A Turn whose fence is zero has no epoch, and so nobody to disturb.      *)
LEMMA NobodyOwns ==
  ASSUME FenceInv, EpochsNumbered, NEW t \in Turn, turn[t].fence = 0
  PROVE  /\ turn[t].active = NoAttempt
         /\ \A a \in Attempt : attempt[a].status # "absent" => attempt[a].turn # t
<1>1. \A a \in Attempt : attempt[a].status # "absent" => attempt[a].turn # t
  <2>1. \A a \in Attempt : attempt[a].fence \in Nat
    BY DEF FenceInv, OwnerInv, TypeOK, AttemptRow
  <2> QED
    BY <2>1 DEF FenceInv, EpochFences, EpochsNumbered
<1>2. turn[t].active \in Attempt \cup {NoAttempt}
  BY TurnColumns DEF FenceInv, OwnerInv, TypeOK
<1> QED
  BY <1>1, <1>2 DEF FenceInv, OwnerInv, ActiveRuns

(* So an unfenced command keeps the fencing invariant: it moves a Turn     *)
(* that no epoch, and hence no receipt, points to.                         *)
LEMMA UnfencedFences ==
  ASSUME FenceInv, EpochsNumbered, NEW t \in Turn, NEW kind \in EventKind, Unfenced(t, kind)
  PROVE  FenceInv' /\ EpochsNumbered'
<1>a. TypeOK /\ SingleOwner /\ ActiveRuns /\ EpochFences /\ ReceiptFences
  BY DEF FenceInv, OwnerInv
<1>b. /\ turn[t].active = NoAttempt
      /\ \A a \in Attempt : attempt[a].status # "absent" => attempt[a].turn # t
  BY NobodyOwns, Zenon DEF Unfenced
<1>c. /\ attempt' = attempt /\ operation' = operation /\ effect' = effect /\ ledger' = ledger
      /\ turn' \in [Turn -> TurnRow] /\ \A u \in Turn \ {t} : turn'[u] = turn[u]
      /\ turn'[t].active = NoAttempt /\ turn'[t].fence = 0 /\ turn'[t].status # "absent"
  BY <1>b, Zenon DEF Unfenced, TurnStatus, TerminalStatus
<1>d. /\ turn \in [Turn -> TurnRow] /\ \A u \in Turn : turn[u].seq \in Nat
      /\ turn'[t].seq = turn[t].seq + 1
      /\ MaxTurnAttempts \in Nat
  BY <1>a, TurnColumns, ConstantsAssumption DEF TypeOK, Unfenced, Appends
<1>1. TypeOK'
  <2>1. event' \subseteq EventRow
    <3>1. event' = event \cup {[turn |-> t, seq |-> turn[t].seq + 1, kind |-> kind]}
      BY Zenon DEF Unfenced, Appends, Logged
    <3>2. turn[t].seq + 1 \in Nat /\ event \subseteq EventRow
      BY <1>a, <1>d DEF TypeOK
    <3> QED
      BY <3>1, <3>2 DEF EventRow
  <2> QED
    BY <1>a, <1>c, <2>1, Zenon DEF TypeOK
<1>2. SingleOwner'
  <2>1. \A a \in Attempt : attempt[a].status = "running" => attempt[a].turn \in Turn \ {t}
    BY <1>a, <1>b DEF SingleOwner
  <2> QED
    BY <1>a, <1>c, <2>1, Zenon DEF SingleOwner
<1>3. ActiveRuns'
  BY <1>a, <1>c, Zenon DEF ActiveRuns
<1>4. EpochFences'
  <2>1. \A a \in Attempt : attempt[a].status # "absent" => attempt[a].turn \in Turn \ {t}
    BY <1>a, <1>b, Zenon DEF EpochFences
  <2> QED
    BY <1>a, <1>c, <1>d, <2>1 DEF EpochFences
<1>5. ReceiptFences'
  <2>1. \A u \in Turn : turn[u].seq <= turn'[u].seq
    BY <1>c, <1>d
  <2>2. \A r \in operation : r.turn \in Turn /\ r.seq \in Nat
    BY <1>a, Zenon DEF TypeOK, OperationRow
  <2>3. \A u \in Turn : turn'[u].seq \in Nat
    BY <1>c, TurnColumns
  <2>4. \A r \in operation : r.seq <= turn'[r.turn].seq
    <3>1. \A r \in operation : r.seq <= turn[r.turn].seq
      BY <1>a, Zenon DEF ReceiptFences
    <3> QED
      BY <1>d, <2>1, <2>2, <2>3, <3>1
  <2>5. \A u \in Turn : turn'[u].status = "absent" => turn'[u].seq = 0
    BY <1>a, <1>c, Zenon DEF ReceiptFences
  <2> QED
    BY <1>a, <1>c, <2>4, <2>5, Zenon DEF ReceiptFences
<1> QED
  BY <1>1, <1>2, <1>3, <1>4, <1>5, <1>c, Zenon DEF FenceInv, OwnerInv, EpochsNumbered

(* Every command of the Store keeps an epoch's fence positive.             *)
LEMMA NumberedStep == FenceInv /\ EpochsNumbered /\ [Next]_vars => EpochsNumbered'
<1> SUFFICES ASSUME FenceInv, EpochsNumbered, [Next]_vars PROVE EpochsNumbered'
  OBVIOUS
<1>a. attempt \in [Attempt -> AttemptRow] /\ turn \in [Turn -> TurnRow]
  BY DEF FenceInv, OwnerInv, TypeOK
<1>1. ASSUME NEW t \in Turn, Admit(t) \/ RequestCancel(t) PROVE EpochsNumbered'
  BY <1>1, Zenon DEF Admit, RequestCancel, EpochsNumbered
<1>2. ASSUME NEW t \in Turn, NEW a \in Attempt, ClaimAttempt(t, a) PROVE EpochsNumbered'
  <2>1. turn[t].fence + 1 > 0
    BY <1>a, TurnColumns
  <2>2. \A b \in Attempt : Expired(t)[b].fence = attempt[b].fence
                           /\ (b # a => attempt'[b] = Expired(t)[b])
    BY <1>2, <1>a DEF ClaimAttempt, Expired, AttemptRow
  <2>3. \A b \in Attempt : Expired(t)[b].status # "absent" /\ attempt[b].status = "absent"
                           => b = turn[t].active
    BY DEF Expired
  <2>4. turn[t].active # NoAttempt => attempt[turn[t].active].status = "running"
    BY DEF FenceInv, OwnerInv, ActiveRuns
  <2>5. attempt'[a].fence = turn[t].fence + 1
    BY <1>2, <1>a DEF ClaimAttempt, Expired
  <2> QED
    BY <2>1, <2>2, <2>3, <2>4, <2>5, ConstantsAssumption DEF EpochsNumbered
<1>3. ASSUME NEW a \in Attempt, HeartbeatAttempt(a) PROVE EpochsNumbered'
  BY <1>3, <1>a DEF HeartbeatAttempt, EpochsNumbered, AttemptRow
<1>4. ASSUME NEW a \in Attempt, NEW o \in Operation, NEW effects \in SUBSET Effect,
             CommitOperation(a, o, effects)
      PROVE  EpochsNumbered'
  BY <1>4 DEF CommitOperation, EpochsNumbered
<1>5. ASSUME NEW a \in Attempt, NEW o \in Operation, NEW effects \in SUBSET Effect,
             NEW status \in TerminalStatus, NEW intent \in Intent,
             CommitTerminal(a, o, effects, status, intent)
      PROVE  EpochsNumbered'
  BY <1>5, <1>a DEF CommitTerminal, Holds, EpochsNumbered, AttemptRow
<1>6. ASSUME NEW t \in Turn, NEW reason \in ReclaimReason, ReconcileTerminal(t, reason)
      PROVE  EpochsNumbered'
  <2>1. \A b \in Attempt : attempt'[b].fence = attempt[b].fence
    BY <1>6, <1>a DEF ReconcileTerminal, Expired, AttemptRow
  <2>2. \A b \in Attempt : attempt'[b].status # "absent" /\ attempt[b].status = "absent"
                           => b = turn[t].active
    BY <1>6 DEF ReconcileTerminal, Expired
  <2>3. turn[t].active # NoAttempt => attempt[turn[t].active].status = "running"
    BY DEF FenceInv, OwnerInv, ActiveRuns
  <2> QED
    BY <2>1, <2>2, <2>3, ConstantsAssumption DEF EpochsNumbered
<1>7. ASSUME Tick \/ UNCHANGED vars PROVE EpochsNumbered'
  BY <1>7, <1>a DEF Tick, vars, EpochsNumbered, AttemptRow
<1> QED
  BY <1>1, <1>2, <1>3, <1>4, <1>5, <1>6, <1>7, Zenon DEF Next, Command

(* A fenced command keeps outcomes as FencedOutcome wants them: a finished *)
(* Turn keeps its fence, and a Turn that it finishes gets its outcome.     *)
LEMMA FencedOutcomeStep == FenceInv /\ FencedOutcome /\ [Next]_vars => FencedOutcome'
<1> SUFFICES ASSUME FenceInv, FencedOutcome, [Next]_vars, Authority # "none"
             PROVE  FencedOutcome'
  BY DEF FencedOutcome
<1>a. OwnerInv /\ FinalStep /\ turn \in [Turn -> TurnRow]
  BY FinalLemma DEF FenceInv, OwnerInv, TypeOK
<1>b. ASSUME NEW u \in Turn, turn[u].status \in TerminalStatus PROVE turn'[u].fence = turn[u].fence
  <2>1. turn'[u] = [turn[u] EXCEPT !.ttl = turn'[u].ttl] /\ turn[u] \in TurnRow
    BY <1>a, <1>b, Zenon DEF FinalStep
  <2> QED
    BY <2>1 DEF TurnRow
<1>1. CASE KeepsOutcomes
  BY <1>1, <1>b DEF FencedOutcome, KeepsOutcomes
<1>2. ASSUME NEW t \in Turn, Finishes(t) PROVE FencedOutcome'
  <2>1. PICK row \in ledger' : row.turn = t /\ ledger' = ledger \cup {row}
    BY <1>2, Zenon DEF Finishes
  <2>2. \A l \in ledger : l.turn # t
    BY <1>2 DEF Finishes, FencedOutcome, Unfinished, TerminalStatus
  <2>3. \A u \in Turn : (\E l \in ledger' : l.turn = u) => turn'[u].status \in TerminalStatus
    BY <1>2, <2>1 DEF Finishes, FencedOutcome
  <2>4. \A u \in Turn : turn'[u].status \in TerminalStatus /\ turn'[u].fence > 0
                        => \E l \in ledger' : l.turn = u
    BY <1>2, <2>1 DEF Finishes, FencedOutcome
  <2>5. \A k, l \in ledger' : k.turn = l.turn => k = l
    BY <2>1, <2>2 DEF FencedOutcome
  <2> QED
    BY <2>3, <2>4, <2>5, Zenon DEF FencedOutcome
<1> QED
  BY <1>1, <1>2, <1>a, OutcomeStep, Zenon

(* Every command of the Store, fenced or not, keeps the invariant and does *)
(* to finished Turns and live epochs what the fenced ones alone may do.    *)
LEMMA MixedStep ==
  ASSUME MixedInv, [Next \/ LegacyNext]_vars
  PROVE  MixedInv' /\ LiveStep /\ FinalStep
<1>a. FenceInv /\ EpochsNumbered /\ LogContiguous /\ ReceiptsMatchLog /\ FencedOutcome
  BY DEF MixedInv
<1>b. OwnerInv /\ TypeOK /\ turn \in [Turn -> TurnRow]
  BY <1>a DEF FenceInv, OwnerInv, TypeOK
<1>1. CASE [Next]_vars
  <2>1. FenceInv'
    BY <1>1, <1>a, TypeStep, OwnerStep, EpochStep, ReceiptStep, Zenon DEF FenceInv, OwnerInv
  <2> QED
    BY <1>1, <1>a, <1>b, <2>1, NumberedStep, GapFreeStep, HonestStep, FencedOutcomeStep,
       LiveLemma, FinalLemma, Zenon DEF MixedInv
<1>2. CASE LegacyNext
  <2>1. PICK t \in Turn, kind \in EventKind : Unfenced(t, kind)
    BY <1>2, <1>b, LegacyIsUnfenced, Zenon
  <2>2. FenceInv' /\ EpochsNumbered'
    BY <1>a, <2>1, UnfencedFences, Zenon
  <2>3. /\ attempt' = attempt /\ operation' = operation /\ ledger' = ledger
        /\ event' = event \cup {[turn |-> t, seq |-> turn[t].seq + 1, kind |-> kind]}
        /\ turn'[t].fence = 0 /\ turn[t].status \notin TerminalStatus
        /\ \A u \in Turn \ {t} : turn'[u] = turn[u]
    BY <2>1 DEF Unfenced, Appends, Logged, Unfinished, TerminalStatus
  <2>4. LogContiguous'
    BY <1>a, <1>b, <2>1, AppendedLog, Zenon DEF Unfenced
  <2>5. ReceiptsMatchLog'
    BY <1>a, <2>3, Zenon DEF ReceiptsMatchLog
  <2>6. FencedOutcome'
    BY <1>a, <2>3 DEF FencedOutcome
  <2>7. LiveStep
    BY <2>3, Zenon DEF LiveStep
  <2>8. FinalStep
    <3> SUFFICES ASSUME NEW u \in Turn, turn[u].status \in TerminalStatus
                 PROVE  /\ turn'[u] = [turn[u] EXCEPT !.ttl = turn'[u].ttl]
                        /\ \A e \in event' : e.turn = u => e \in event
      BY <2>3, Zenon DEF FinalStep
    <3>1. u # t /\ turn'[u] = turn[u]
      BY <2>3
    <3>2. turn[u] = [turn[u] EXCEPT !.ttl = turn[u].ttl]
      BY <1>b DEF TurnRow
    <3> QED
      BY <2>3, <3>1, <3>2
  <2> QED
    BY <2>2, <2>4, <2>5, <2>6, <2>7, <2>8, Zenon DEF MixedInv
<1> QED
  BY <1>1, <1>2, Zenon

(* The invariant holds of every store that both kinds of command reach.    *)
LEMMA MixedInvariant == StoreSpec => []MixedInv
<1>1. Init => MixedInv
  <2>1. Init => FenceInv
    <3>1. Init => EpochFences /\ ReceiptFences
      BY ConstantsAssumption DEF Init, EpochFences, ReceiptFences
    <3> QED
      BY <3>1, OwnerInit, Zenon DEF FenceInv
  <2>2. Init => EpochsNumbered /\ LogContiguous /\ ReceiptsMatchLog /\ FencedOutcome
    BY DEF Init, EpochsNumbered, LogContiguous, ReceiptsMatchLog, FencedOutcome, TerminalStatus
  <2> QED
    BY <2>1, <2>2, Zenon DEF MixedInv
<1>2. MixedInv /\ [Next \/ LegacyNext]_vars => MixedInv'
  BY MixedStep, Zenon
<1> QED
  BY <1>1, <1>2, PTL DEF StoreSpec

(* The unfenced commands of the original Store, called on any Turn at any  *)
(* time between the fenced ones, break no fence: the Store keeps one owner *)
(* per Turn, refuses stale commits, keeps its logs gap-free and its        *)
(* receipts honest, bills at most once, and bills every Turn that finishes *)
(* after an epoch was opened.                                              *)
THEOREM MixedStore ==
  StoreSpec => [](/\ SingleOwner /\ NoStaleCommit /\ AttemptBudget
                  /\ LogContiguous /\ ReceiptsMatchLog /\ FencedOutcome)
<1>1. MixedInv => /\ SingleOwner /\ NoStaleCommit /\ AttemptBudget
                  /\ LogContiguous /\ ReceiptsMatchLog /\ FencedOutcome
  BY FencedReceipts, FencedBudget, Zenon DEF MixedInv, FenceInv, OwnerInv
<1> QED
  BY <1>1, MixedInvariant, PTL

(* Beside the unfenced commands, too, a live epoch ends only by its own    *)
(* commit and a finished Turn never changes.                               *)
THEOREM MixedStoreSteps == StoreSpec => LiveLeaseRespected /\ TerminalIsFinal
<1>1. MixedInv /\ [Next \/ LegacyNext]_vars => [LiveStep]_vars /\ [FinalStep]_vars
  BY MixedStep, Zenon
<1> QED
  BY <1>1, MixedInvariant, PTL DEF StoreSpec, LiveLeaseRespected, LiveStep, TerminalIsFinal, FinalStep

=============================================================================
