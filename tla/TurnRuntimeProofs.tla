------------------------- MODULE TurnRuntimeProofs --------------------------
(***************************************************************************)
(* TurnWorker for any number of workers, Turns and crashes: the terminal   *)
(* commit races nothing of its own epoch, and whatever the goroutines of   *)
(* the workers do, the store sees a behaviour of AgentTurn, so that every  *)
(* theorem about the store holds of the workers on top of it.  And         *)
(* TurnEventStream for any number of observers, pages and reconnections.   *)
(***************************************************************************)
EXTENDS TurnWorker, TurnEventStream, AgentTurnProofs, FiniteSetTheorems

(* The SMT solver may take up to 30 seconds over a leaf, and is called     *)
(* again when its first call fails.                                        *)
USE SMTT(30), Z3T(30)

(* A worker beyond its claim knows its epoch; one whose executor is back   *)
(* knows the status it will commit, and before the commit it is back.      *)
WorkerKnows ==
  \A w \in Worker :
    /\ worker[w].at # "idle" => worker[w].attempt \in Attempt
    /\ worker[w].emit # NoOperation \/ worker[w].executor # "none" \/ worker[w].beats
       => worker[w].at # "idle"
    /\ worker[w].executor = "returned" => worker[w].final \in TerminalStatus

WorkerInv == WorkerTypeOK /\ WorkerKnows /\ QuietCommit

(* What one worker's row must satisfy.                                     *)
RowOK(row) ==
  /\ row \in WorkerRow
  /\ row.at # "idle" => row.attempt \in Attempt
  /\ row.emit # NoOperation \/ row.executor # "none" \/ row.beats => row.at # "idle"
  /\ row.executor = "returned" => row.final \in TerminalStatus
  /\ row.at = "commit" => row.executor = "returned" /\ row.emit = NoOperation

(* The invariant is about each worker's row on its own.                    *)
LEMMA RowByRow ==
  WorkerInv <=> /\ worker \in [Worker -> WorkerRow] /\ crashes \in 0..MaxCrashes
                /\ \A w \in Worker : RowOK(worker[w])
  BY DEF WorkerInv, WorkerTypeOK, WorkerKnows, QuietCommit, RowOK

LEMMA IdleRow == RowOK(Idle)
  BY ConstantsAssumption DEF RowOK, WorkerRow, Idle

(* A step of one worker.                                                   *)
LEMMA OneRow ==
  ASSUME WorkerInv, NEW w \in Worker, NEW row, RowOK(row), worker' = [worker EXCEPT ![w] = row],
         crashes' \in 0..MaxCrashes
  PROVE  WorkerInv'
<1>1. worker' \in [Worker -> WorkerRow] /\ \A v \in Worker : RowOK(worker'[v])
  BY RowByRow DEF RowOK
<1> QED
  BY <1>1 DEF WorkerInv, WorkerTypeOK, WorkerKnows, QuietCommit, RowOK

LEMMA WorkerInitInv == WorkerInit => WorkerInv
<1> SUFFICES ASSUME WorkerInit PROVE WorkerInv
  OBVIOUS
<1>1. Idle \in WorkerRow
  BY IdleRow DEF RowOK
<1> QED
  BY <1>1, IdleRow, RowByRow, WorkerAssumption DEF WorkerInit

LEMMA WorkerStepInv == WorkerInv /\ [WorkerNext]_workerVars => WorkerInv'
<1> SUFFICES ASSUME WorkerInv, [WorkerNext]_workerVars PROVE WorkerInv'
  OBVIOUS
<1>a. /\ worker \in [Worker -> WorkerRow] /\ crashes \in 0..MaxCrashes
      /\ \A w \in Worker : RowOK(worker[w])
  BY RowByRow
<1>b. ASSUME worker' = worker, crashes' = crashes PROVE WorkerInv'
  BY <1>b DEF WorkerInv, WorkerTypeOK, WorkerKnows, QuietCommit
<1>c. {"completed", "failed", "stopped", "timeout"} \subseteq TerminalStatus
  BY DEF TerminalStatus
<1>1. ASSUME NEW w \in Worker, NEW t \in Turn, NEW a \in Attempt, Claim(w, t, a) PROVE WorkerInv'
  <2> DEFINE row == [Idle EXCEPT !.at = "run", !.attempt = a, !.executor = "running", !.beats = TRUE]
  <2>1. RowOK(row)
    BY <1>1, IdleRow, Zenon DEF RowOK, WorkerRow, Idle
  <2>2. worker' = [worker EXCEPT ![w] = row] /\ crashes' = crashes
    BY <1>1 DEF Claim
  <2> HIDE DEF row
  <2> QED
    BY <2>1, <2>2, <1>a, OneRow, Zenon
<1>2. ASSUME NEW w \in Worker, NEW o \in Emittable, StartEmit(w, o) PROVE WorkerInv'
  <2> DEFINE row == [worker[w] EXCEPT !.emit = o]
  <2>1. RowOK(row)
    BY <1>2, <1>a DEF StartEmit, EmitAllowed, RowOK, WorkerRow
  <2>2. worker' = [worker EXCEPT ![w] = row] /\ crashes' = crashes
    BY <1>2 DEF StartEmit
  <2> HIDE DEF row
  <2> QED
    BY <2>1, <2>2, <1>a, OneRow, Zenon
<1>3. ASSUME NEW w \in Worker, FinishEmit(w) PROVE WorkerInv'
  <2> DEFINE done == [worker[w] EXCEPT !.emit = NoOperation]
             lost == [worker[w] EXCEPT !.emit = NoOperation, !.lost = TRUE]
  <2>1. RowOK(done) /\ RowOK(lost)
    BY <1>a, Zenon DEF RowOK, WorkerRow
  <2>2. /\ \/ worker' = [worker EXCEPT ![w].emit = NoOperation]
           \/ worker' = [worker EXCEPT ![w].emit = NoOperation, ![w].lost = TRUE]
        /\ crashes' = crashes
    BY <1>3 DEF FinishEmit
  <2>3. /\ worker' = [worker EXCEPT ![w] = done] \/ worker' = [worker EXCEPT ![w] = lost]
    BY <2>2, <1>a DEF RowOK, WorkerRow
  <2> HIDE DEF done, lost
  <2> QED
    BY <2>1, <2>2, <2>3, <1>a, OneRow
<1>4. ASSUME NEW w \in Worker, Heartbeat(w) PROVE WorkerInv'
  <2> DEFINE told == [worker[w] EXCEPT !.cancelled = TRUE, !.beats = FALSE]
             lost == [worker[w] EXCEPT !.lost = TRUE, !.beats = FALSE]
  <2>1. RowOK(told) /\ RowOK(lost)
    BY <1>a, Zenon DEF RowOK, WorkerRow
  <2>2. /\ \/ worker' = worker
           \/ worker' = [worker EXCEPT ![w].cancelled = TRUE, ![w].beats = FALSE]
           \/ worker' = [worker EXCEPT ![w].lost = TRUE, ![w].beats = FALSE]
        /\ crashes' = crashes
    BY <1>4, Zenon DEF Heartbeat
  <2>3. \/ worker' = worker
        \/ worker' = [worker EXCEPT ![w] = told] \/ worker' = [worker EXCEPT ![w] = lost]
    BY <2>2, <1>a, Zenon DEF RowOK, WorkerRow
  <2> HIDE DEF told, lost
  <2> QED
    BY <2>1, <2>2, <2>3, <1>a, <1>b, OneRow, Zenon
<1>5. ASSUME NEW w \in Worker, ExecutorReturns(w) PROVE WorkerInv'
  <2> DEFINE row(s) == [worker[w] EXCEPT !.executor = "returned", !.final = s]
  <2>1. \A s \in TerminalStatus : RowOK(row(s))
    <3> SUFFICES ASSUME NEW s \in TerminalStatus PROVE RowOK(row(s))
      BY Zenon
    <3>1. RowOK(worker[w]) /\ worker[w].executor = "running"
      BY <1>5, <1>a DEF ExecutorReturns
    <3>2. /\ row(s) \in WorkerRow
          /\ row(s).executor = "returned" /\ row(s).final = s
          /\ row(s).at = worker[w].at /\ row(s).attempt = worker[w].attempt
          /\ row(s).emit = worker[w].emit /\ row(s).beats = worker[w].beats
      BY <3>1, Zenon DEF RowOK, WorkerRow
    <3> HIDE DEF row
    <3> QED
      BY <3>1, <3>2 DEF RowOK
  <2>2. PICK status \in {"completed", "failed"} :
          worker' = [worker EXCEPT ![w].executor = "returned",
                                   ![w].final = IF @ = "timeout" THEN @ ELSE status]
    BY <1>5, Zenon DEF ExecutorReturns
  <2>3. \E s \in TerminalStatus : worker' = [worker EXCEPT ![w] = row(s)]
    <3> DEFINE s == IF worker[w].final = "timeout" THEN "timeout" ELSE status
    <3>1. s \in TerminalStatus
      BY <1>c
    <3>2. worker' = [worker EXCEPT ![w] = row(s)]
      BY <2>2, <1>a, Zenon DEF RowOK, WorkerRow
    <3> QED
      BY <3>1, <3>2, Zenon
  <2>4. crashes' = crashes
    BY <1>5 DEF ExecutorReturns
  <2> HIDE DEF row
  <2> QED
    BY <2>1, <2>3, <2>4, <1>a, OneRow, Zenon
<1>6. ASSUME NEW w \in Worker, StopExecutor(w) PROVE WorkerInv'
  <2> DEFINE row(s) == [worker[w] EXCEPT !.at = "stop", !.final = s]
  <2>1. RowOK(row(worker[w].final)) /\ RowOK(row("timeout"))
    BY <1>6, <1>a, <1>c, Zenon DEF StopExecutor, RowOK, WorkerRow
  <2>2. /\ \/ worker' = [worker EXCEPT ![w] = row(worker[w].final)]
           \/ worker' = [worker EXCEPT ![w] = row("timeout")]
        /\ crashes' = crashes
    BY <1>6, <1>a, Zenon DEF StopExecutor, RowOK, WorkerRow
  <2> HIDE DEF row
  <2> QED
    BY <2>1, <2>2, <1>a, OneRow
<1>7. ASSUME NEW w \in Worker, Poison(w) PROVE WorkerInv'
  <2> DEFINE row == [worker[w] EXCEPT !.at = "poisoned", !.beats = FALSE]
  <2>1. RowOK(row)
    BY <1>7, <1>a, Zenon DEF Poison, RowOK, WorkerRow
  <2>2. worker' = [worker EXCEPT ![w] = row] /\ crashes' = crashes
    BY <1>7, <1>a, Zenon DEF Poison, RowOK, WorkerRow
  <2> HIDE DEF row
  <2> QED
    BY <2>1, <2>2, <1>a, OneRow, Zenon
<1>8. ASSUME NEW w \in Worker, Quiesce(w) PROVE WorkerInv'
  <2> DEFINE final == IF worker[w].cancelled THEN "stopped" ELSE worker[w].final
             row == [worker[w] EXCEPT !.at = "commit", !.final = final]
  <2>1. crashes' = crashes
    BY <1>8 DEF Quiesce
  <2>2. CASE worker[w].lost
    <3>1. worker' = [worker EXCEPT ![w] = Idle]
      BY <1>8, <2>2 DEF Quiesce
    <3> QED
      BY <2>1, <3>1, <1>a, IdleRow, OneRow, Zenon
  <2>3. CASE ~worker[w].lost
    <3>1. worker' = [worker EXCEPT ![w] = row]
      BY <1>8, <2>3 DEF Quiesce
    <3>2. final \in TerminalStatus
      BY <1>8, <1>a, <1>c DEF Quiesce, Quiet, RowOK
    <3> HIDE DEF final
    <3>3. RowOK(row)
      BY <1>8, <3>2, <1>a, Zenon DEF Quiesce, Quiet, RowOK, WorkerRow
    <3> HIDE DEF row
    <3> QED
      BY <2>1, <3>1, <3>3, <1>a, OneRow, Zenon
  <2> QED
    BY <2>2, <2>3
<1>9. ASSUME NEW w \in Worker, CommitFinal(w) PROVE WorkerInv'
  <2> DEFINE row == [worker[w] EXCEPT !.final = "stopped"]
  <2>1. RowOK(row)
    BY <1>a, <1>c DEF RowOK, WorkerRow
  <2>2. /\ worker' = [worker EXCEPT ![w] = Idle] \/ worker' = [worker EXCEPT ![w] = row]
        /\ crashes' = crashes
    BY <1>9 DEF CommitFinal
  <2> HIDE DEF row
  <2> QED
    BY <2>1, <2>2, <1>a, IdleRow, OneRow
<1>10. ASSUME NEW w \in Worker, Restart(w) PROVE WorkerInv'
  <2>1. worker' = [worker EXCEPT ![w] = Idle]
    BY <1>10 DEF Restart
  <2>2. crashes' \in 0..MaxCrashes
    BY <1>10, <1>a, WorkerAssumption DEF Restart
  <2> QED
    BY <2>1, <2>2, IdleRow, OneRow, Zenon
<1>11. ASSUME Client \/ Retire \/ Clock PROVE WorkerInv'
  BY <1>11, <1>b DEF Client, Retire, Clock
<1>12. ASSUME UNCHANGED workerVars PROVE WorkerInv'
  BY <1>12, <1>b DEF workerVars
<1> QED
  BY <1>1, <1>2, <1>3, <1>4, <1>5, <1>6, <1>7, <1>8, <1>9, <1>10, <1>11, <1>12, Zenon
     DEF WorkerNext, WorkerStep

(* The inductive invariant holds throughout.                               *)
THEOREM WorkerInvariant == WorkerSpec => []WorkerInv
  BY WorkerInitInv, WorkerStepInv, PTL DEF WorkerSpec

(* When a worker makes its terminal commit its executor has returned and   *)
(* no Emit is in flight, whatever stopped it: nothing of the epoch races   *)
(* with its end.                                                           *)
THEOREM CommitsAreQuiet == WorkerSpec => []QuietCommit
<1>1. WorkerInv => QuietCommit
  BY DEF WorkerInv
<1> QED
  BY <1>1, WorkerInvariant, PTL

(* A step of a worker is a command it may issue, or none.                  *)
LEMMA WorkerRefines == WorkerInv /\ [WorkerNext]_workerVars => [Next]_vars
<1> SUFFICES ASSUME WorkerInv, [WorkerNext]_workerVars PROVE [Next]_vars
  OBVIOUS
<1>a. \A w \in Worker : RowOK(worker[w])
  BY RowByRow
<1>1. ASSUME NEW w \in Worker, NEW t \in Turn, NEW a \in Attempt, Claim(w, t, a) PROVE Next
  BY <1>1 DEF Claim, Next, Command
<1>2. ASSUME NEW w \in Worker, FinishEmit(w) PROVE [Next]_vars
  <2>1. CASE UNCHANGED vars
    BY <2>1
  <2>2. ASSUME NEW effects \in SUBSET Effect, CommitOperation(worker[w].attempt, worker[w].emit, effects)
        PROVE  Next
    <3>1. worker[w].attempt \in Attempt /\ worker[w].emit \in Operation
      BY <1>2, <1>a DEF FinishEmit, RowOK, WorkerRow, Emittable
    <3> QED
      BY <2>2, <3>1, Zenon DEF Next, Command
  <2> QED
    BY <1>2, <2>1, <2>2 DEF FinishEmit
<1>3. ASSUME NEW w \in Worker, Heartbeat(w) PROVE [Next]_vars
  <2>1. worker[w].attempt \in Attempt
    BY <1>3, <1>a DEF Heartbeat, RowOK
  <2>2. UNCHANGED vars \/ HeartbeatAttempt(worker[w].attempt)
    BY <1>3 DEF Heartbeat
  <2> QED
    BY <2>1, <2>2 DEF Next, Command
<1>4. ASSUME NEW w \in Worker, CommitFinal(w) PROVE [Next]_vars
  <2> DEFINE a == worker[w].attempt
             status == worker[w].final
             intent == DefaultSettlementIntent(status)
  <2>1. a \in Attempt /\ status \in TerminalStatus
    BY <1>4, <1>a DEF CommitFinal, RowOK
  <2>2. TerminalOperation[a] \in Operation /\ {} \in SUBSET Effect
    BY <2>1, WorkerAssumption
  <2>3. intent \in Intent
    BY DEF DefaultSettlementIntent, Intent
  <2>4. UNCHANGED vars \/ CommitTerminal(a, TerminalOperation[a], {}, status, intent)
    BY <1>4 DEF CommitFinal
  <2> HIDE DEF a, status, intent
  <2> QED
    BY <2>1, <2>2, <2>3, <2>4, Zenon DEF Next, Command
<1>5. ASSUME NEW w \in Worker,
             \/ StopExecutor(w) \/ Quiesce(w) \/ Poison(w) \/ Restart(w) \/ ExecutorReturns(w)
             \/ \E o \in Emittable : StartEmit(w, o)
      PROVE  UNCHANGED vars
  BY <1>5 DEF StopExecutor, Quiesce, Poison, Restart, ExecutorReturns, StartEmit
<1>6. ASSUME Client \/ Retire \/ Clock PROVE Next
  BY <1>6 DEF Client, Retire, Clock, Next, Command
<1>7. ASSUME UNCHANGED workerVars PROVE UNCHANGED vars
  BY <1>7 DEF workerVars
<1> QED
  BY <1>1, <1>2, <1>3, <1>4, <1>5, <1>6, <1>7, Zenon DEF WorkerNext, WorkerStep

(* Seen from the store, workers with their goroutines, crashes and         *)
(* poisoned processes behave like some client of AgentTurn: the abstract   *)
(* client of that module covers the real one.                              *)
THEOREM WorkersImplementTurns == WorkerSpec => Spec
<1>1. WorkerInit => Init
  BY DEF WorkerInit
<1> QED
  BY <1>1, WorkerInvariant, WorkerRefines, PTL DEF WorkerSpec, Spec

(* Hence, with real workers too, a Turn has one owner at a time and is     *)
(* billed exactly when it ends, and once.                                  *)
THEOREM WorkersOwnAndBill == WorkerSpec => [](SingleOwner /\ CommercialOutcome)
  BY WorkersImplementTurns, OneOwner, BilledOnce, PTL

-----------------------------------------------------------------------------
(***************************************************************************)
(* The event stream.  Its writers are all commands of the Store, fenced or *)
(* not.  An observer needs little of them: the log has no gap, and the     *)
(* sequence of a Turn that has ended stands still.                         *)
(***************************************************************************)
HasLogged(t, n) == \E e \in event : e.turn = t /\ e.seq = n

StoreInv ==
  /\ turn \in [Turn -> TurnRow]
  /\ \A t \in Turn : turn[t].status = "absent" => turn[t].seq = 0
  /\ \A t \in Turn, n \in Nat : n \in 1..turn[t].seq => HasLogged(t, n)

(***************************************************************************)
(* What a step of the store may do to a Turn an observer reads: nothing    *)
(* the observer can see, or one more event, of a Turn that had not ended.  *)
(***************************************************************************)
SameToReader(t) == turn'[t].status = turn[t].status /\ turn'[t].seq = turn[t].seq

OneMoreEvent(t) ==
  /\ ~Ended(t)
  /\ turn'[t].seq = turn[t].seq + 1
  /\ turn'[t].status # "absent"
  /\ HasLogged(t, turn[t].seq)'

SubRow ==
  [at : {"off", "ready", "watching", "waiting", "eof"}, turn : Turn \cup {NoTurn},
   cursor : Nat, buffer : SUBSET Nat, latest : Nat, terminal : BOOLEAN, detached : Nat]

(***************************************************************************)
(* An attached subscription: the buffer continues the cursor without a gap *)
(* inside the log, and what it remembers of the Turn's end is still true.  *)
(***************************************************************************)
Attached(r) ==
  /\ r.turn \in Turn
  /\ r.cursor <= turn[r.turn].seq
  /\ r.latest <= turn[r.turn].seq
  /\ \A n \in r.buffer : /\ r.cursor < n /\ n <= turn[r.turn].seq
                         /\ \A m \in Nat : r.cursor < m /\ m <= n => m \in r.buffer
  /\ r.terminal => Ended(r.turn) /\ r.latest = turn[r.turn].seq
  /\ r.at \in {"watching", "waiting"} => r.buffer = {}
  /\ r.at = "eof" => r.terminal /\ r.latest <= r.cursor

StreamInv ==
  /\ StoreInv
  /\ sub \in [Observer -> SubRow]
  /\ \A s \in Observer : sub[s].at # "off" => Attached(sub[s])

(* Rewriting one Turn's row while logging its next event: the shape of     *)
(* every command that writes the log.                                      *)
LEMMA Appended ==
  ASSUME StoreInv, NEW t \in Turn, NEW kind, ~Ended(t), NEW row \in TurnRow,
         turn' = [turn EXCEPT ![t] = row], row.seq = turn[t].seq + 1, row.status # "absent",
         event' = Logged(t, kind)
  PROVE  /\ turn' \in [Turn -> TurnRow] /\ event \subseteq event'
         /\ \A u \in Turn : SameToReader(u) \/ OneMoreEvent(u)
<1>1. turn \in [Turn -> TurnRow]
  BY DEF StoreInv
<1>2. turn' \in [Turn -> TurnRow] /\ event \subseteq event'
  BY <1>1 DEF Logged
<1>3. OneMoreEvent(t)
  <2> DEFINE e == [turn |-> t, seq |-> turn[t].seq + 1, kind |-> kind]
  <2>1. HasLogged(t, turn[t].seq)'
    <3>1. e \in event' /\ e.turn = t /\ e.seq = turn'[t].seq
      BY <1>1 DEF Logged
    <3> HIDE DEF e
    <3> QED
      BY <3>1 DEF HasLogged
  <2> QED
    BY <1>1, <2>1 DEF OneMoreEvent
<1>4. \A u \in Turn \ {t} : SameToReader(u)
  BY <1>1 DEF SameToReader
<1> QED
  BY <1>2, <1>3, <1>4

(* Rewriting a row of the Turn table without its sequence or its status.   *)
LEMMA Unseen ==
  ASSUME StoreInv, turn' \in [Turn -> TurnRow], event \subseteq event',
         \A u \in Turn : turn'[u].seq = turn[u].seq /\ turn'[u].status = turn[u].status
  PROVE  /\ turn' \in [Turn -> TurnRow] /\ event \subseteq event'
         /\ \A u \in Turn : SameToReader(u) \/ OneMoreEvent(u)
BY DEF SameToReader

(* OpenTurn.  A Turn that is unfinished can be written to.                 *)
LEMMA OpenTurn ==
  ASSUME StoreInv, NEW t \in Turn, Unfinished(t)
  PROVE  /\ turn[t] \in TurnRow /\ turn[t].seq + 1 \in Nat /\ turn[t].fence + 1 \in Nat
         /\ ~Ended(t) /\ turn[t].status # "absent"
<1>1. turn[t] \in TurnRow
  BY DEF StoreInv
<1> QED
  BY <1>1, TurnColumns DEF Unfinished, Ended, TerminalStatus

(* StoreMoves.  Every command of the store, fenced or not, looks like that *)
(* to the observer of a Turn.                                              *)
LEMMA StoreMoves ==
  ASSUME StoreInv, Next \/ LegacyNext
  PROVE  /\ turn' \in [Turn -> TurnRow] /\ event \subseteq event'
         /\ \A u \in Turn : SameToReader(u) \/ OneMoreEvent(u)
<1> DEFINE Goal == /\ turn' \in [Turn -> TurnRow] /\ event \subseteq event'
                   /\ \A u \in Turn : SameToReader(u) \/ OneMoreEvent(u)
<1>0. turn \in [Turn -> TurnRow] /\ \A t \in Turn : turn[t].status = "absent" => turn[t].seq = 0
  BY DEF StoreInv
<1>1. ASSUME NEW t \in Turn, Admit(t) PROVE Goal
  <2> DEFINE ttl == IF ReservationAware THEN ReservationTTL ELSE 0
             row == [turn[t] EXCEPT !.status = "queued", !.seq = 1, !.ttl = ttl]
  <2>1. turn' = [turn EXCEPT ![t] = row] /\ event' = Logged(t, "queued")
    BY <1>1 DEF Admit
  <2>2. turn[t] \in TurnRow /\ turn[t].seq + 1 = 1 /\ ~Ended(t)
    BY <1>0, <1>1 DEF Admit, TerminalStatus, Ended
  <2>3. "queued" \in TurnStatus /\ ttl \in Nat
    BY ConstantsAssumption DEF TurnStatus
  <2> HIDE DEF ttl
  <2>4. row \in TurnRow /\ row.seq = 1 /\ row.status # "absent"
    BY <2>2, <2>3, Zenon DEF TurnRow
  <2> HIDE DEF row
  <2> QED
    BY <2>1, <2>2, <2>4, Appended, Zenon
<1>2. ASSUME NEW t \in Turn, RequestCancel(t) PROVE Goal
  <2> DEFINE n == turn[t].seq + 1
             row == [turn[t] EXCEPT !.cancel = TRUE, !.seq = n]
  <2>1. turn' = [turn EXCEPT ![t] = row] /\ event' = Logged(t, "cancel") /\ Unfinished(t)
    BY <1>2 DEF RequestCancel
  <2>2. turn[t] \in TurnRow /\ n \in Nat /\ turn[t].status # "absent" /\ ~Ended(t)
    BY <2>1, OpenTurn
  <2>3. row \in TurnRow /\ row.seq = n /\ row.status # "absent"
    <3> HIDE DEF n
    <3> QED
      BY <2>2, Zenon DEF TurnRow
  <2> HIDE DEF row
  <2> QED
    BY <2>1, <2>2, <2>3, Appended, Zenon
<1>3. ASSUME NEW t \in Turn, NEW a \in Attempt, ClaimAttempt(t, a) PROVE Goal
  <2> DEFINE n == turn[t].seq + 1
             f == turn[t].fence + 1
  <2>1. Unfinished(t)
    BY <1>3 DEF ClaimAttempt, MayOpenEpoch
  <2>2. turn[t] \in TurnRow /\ n \in Nat /\ f \in Nat /\ ~Ended(t) /\ "running" \in TurnStatus
    BY <2>1, OpenTurn DEF TurnStatus
  <2>3. CASE turn[t].status = "queued"
    <3> DEFINE row == [turn[t] EXCEPT !.status = "running", !.active = a, !.fence = f, !.seq = n]
    <3>1. turn' = [turn EXCEPT ![t] = row] /\ event' = Logged(t, "running")
      BY <1>3, <2>3 DEF ClaimAttempt
    <3>2. row \in TurnRow /\ row.seq = n /\ row.status # "absent"
      <4> HIDE DEF n, f
      <4> QED
        BY <2>2, Zenon DEF TurnRow
    <3> HIDE DEF row
    <3> QED
      BY <2>2, <3>1, <3>2, Appended, Zenon
  <2>4. CASE turn[t].status = "running"
    <3> DEFINE row == [turn[t] EXCEPT !.status = "running", !.active = a, !.fence = f, !.seq = turn[t].seq]
    <3>1. turn' = [turn EXCEPT ![t] = row] /\ event' = event
      BY <1>3, <2>4 DEF ClaimAttempt
    <3>2. row \in TurnRow /\ row.seq = turn[t].seq /\ row.status = turn[t].status
      <4> HIDE DEF n, f
      <4> QED
        BY <2>2, <2>4, Zenon DEF TurnRow
    <3> HIDE DEF row
    <3> QED
      BY <1>0, <3>1, <3>2, Unseen, Zenon
  <2> QED
    BY <2>1, <2>3, <2>4 DEF Unfinished
<1>4. ASSUME NEW a \in Attempt, NEW o \in Operation, NEW effects \in SUBSET Effect,
             CommitOperation(a, o, effects)
      PROVE  Goal
  <2> DEFINE t == attempt[a].turn
             n == turn[t].seq + 1
             row == [turn[t] EXCEPT !.seq = n]
  <2>1. Unfinished(t) /\ event' = Logged(t, "output") /\ turn' = [turn EXCEPT ![t] = row]
    BY <1>4 DEF CommitOperation, Holds
  <2> HIDE DEF t
  <2>2. CASE t \in Turn
    <3>1. turn[t] \in TurnRow /\ n \in Nat /\ turn[t].status # "absent" /\ ~Ended(t)
      BY <2>1, <2>2, OpenTurn
    <3>2. row \in TurnRow /\ row.seq = n /\ row.status # "absent"
      <4> HIDE DEF n
      <4> QED
        BY <3>1 DEF TurnRow
    <3> HIDE DEF row
    <3> QED
      BY <2>1, <2>2, <3>1, <3>2, Appended, Zenon
  <2>3. CASE t \notin Turn
    <3>1. turn' = turn /\ event \subseteq event'
      BY <1>0, <2>1, <2>3, Zenon DEF Logged
    <3> QED
      BY <1>0, <3>1, Unseen
  <2> QED
    BY <2>2, <2>3, Zenon
<1>5. ASSUME NEW a \in Attempt, NEW o \in Operation, NEW effects \in SUBSET Effect,
             NEW status \in TerminalStatus, NEW intent \in Intent,
             CommitTerminal(a, o, effects, status, intent)
      PROVE  Goal
  <2> DEFINE t == attempt[a].turn
             n == turn[t].seq + 1
             row == [turn[t] EXCEPT !.status = status, !.active = NoAttempt, !.seq = n]
  <2>1. Unfinished(t) /\ event' = Logged(t, status) /\ turn' = [turn EXCEPT ![t] = row]
    BY <1>5 DEF CommitTerminal, Holds
  <2> HIDE DEF t
  <2>2. CASE t \in Turn
    <3>1. turn[t] \in TurnRow /\ n \in Nat /\ ~Ended(t)
      BY <2>1, <2>2, OpenTurn, Zenon
    <3>2. status \in TurnStatus /\ status # "absent"
      BY DEF TurnStatus, TerminalStatus
    <3>3. row \in TurnRow /\ row.seq = n /\ row.status # "absent"
      <4> HIDE DEF n
      <4> QED
        BY <3>1, <3>2, Zenon DEF TurnRow
    <3> HIDE DEF row
    <3> QED
      BY <2>1, <2>2, <3>1, <3>3, Appended, Zenon
  <2>3. CASE t \notin Turn
    <3>1. turn' = turn /\ event \subseteq event'
      BY <1>0, <2>1, <2>3, Zenon DEF Logged
    <3> QED
      BY <1>0, <3>1, Unseen
  <2> QED
    BY <2>2, <2>3, Zenon
<1>6. ASSUME NEW t \in Turn, NEW reason \in ReclaimReason, ReconcileTerminal(t, reason) PROVE Goal
  <2> DEFINE status == ReasonStatus(reason)
             n == turn[t].seq + 1
             f == turn[t].fence + 1
             row == [turn[t] EXCEPT !.status = status, !.active = NoAttempt, !.fence = f, !.seq = n]
  <2>1. Unfinished(t) /\ event' = Logged(t, status) /\ turn' = [turn EXCEPT ![t] = row]
    BY <1>6 DEF ReconcileTerminal, MayRetire
  <2>2. status \in TurnStatus /\ status # "absent"
    BY DEF ReasonStatus, TurnStatus, TerminalStatus
  <2>3. turn[t] \in TurnRow /\ n \in Nat /\ f \in Nat /\ ~Ended(t)
    BY <2>1, OpenTurn
  <2> HIDE DEF status
  <2>4. row \in TurnRow /\ row.seq = n /\ row.status # "absent"
    <3> HIDE DEF n, f
    <3> QED
      BY <2>2, <2>3, Zenon DEF TurnRow
  <2> HIDE DEF row
  <2> QED
    BY <2>1, <2>3, <2>4, Appended, Zenon
<1>7. CASE Tick
  <2>1. ASSUME NEW u \in Turn
        PROVE  turn'[u] \in TurnRow /\ turn'[u].seq = turn[u].seq /\ turn'[u].status = turn[u].status
    <3>1. turn'[u] = [turn[u] EXCEPT !.ttl = Sooner(turn[u].ttl)] /\ turn[u] \in TurnRow
      BY <1>0, <1>7 DEF Tick
    <3>2. Sooner(turn[u].ttl) \in Nat
      BY <3>1, SoonerType, Zenon DEF TurnRow
    <3> QED
      BY <3>1, <3>2, Zenon DEF TurnRow
  <2>2. turn' = [u \in Turn |-> turn'[u]] /\ event' = event
    BY <1>7 DEF Tick
  <2>3. turn' \in [Turn -> TurnRow]
    BY ONLY <2>1, <2>2
  <2> QED
    BY <2>1, <2>2, <2>3, Unseen
<1>8. ASSUME NEW t \in Turn, AppendEvent(t) PROVE Goal
  <2> DEFINE n == turn[t].seq + 1
             row == [turn[t] EXCEPT !.seq = n]
  <2>1. turn' = [turn EXCEPT ![t] = row] /\ event' = Logged(t, "output") /\ Unfinished(t)
    BY <1>8 DEF AppendEvent
  <2>2. turn[t] \in TurnRow /\ n \in Nat /\ turn[t].status # "absent" /\ ~Ended(t)
    BY <2>1, OpenTurn
  <2>3. row \in TurnRow /\ row.seq = n /\ row.status # "absent"
    <3> HIDE DEF n
    <3> QED
      BY <2>2 DEF TurnRow
  <2> HIDE DEF row
  <2> QED
    BY <2>1, <2>2, <2>3, Appended, Zenon
<1>9. ASSUME NEW t \in Turn, NEW to \in TurnStatus, Transition(t, to) PROVE Goal
  <2> DEFINE n == turn[t].seq + 1
             row == [turn[t] EXCEPT !.status = to, !.seq = n]
  <2>1. turn' = [turn EXCEPT ![t] = row] /\ event' = Logged(t, to) /\ Unfinished(t)
    BY <1>9 DEF Transition
  <2>2. turn[t] \in TurnRow /\ n \in Nat /\ ~Ended(t) /\ to # "absent"
    BY <2>1, OpenTurn DEF TurnStatus, TerminalStatus
  <2>3. row \in TurnRow /\ row.seq = n /\ row.status # "absent"
    <3> HIDE DEF n
    <3> QED
      BY <2>2, Zenon DEF TurnRow
  <2> HIDE DEF row
  <2> QED
    BY <2>1, <2>2, <2>3, Appended, Zenon
<1>10. ASSUME NEW a \in Attempt, HeartbeatAttempt(a) PROVE Goal
  <2>1. turn' = turn /\ event' = event
    BY <1>10 DEF HeartbeatAttempt
  <2> QED
    BY <1>0, <2>1, Unseen, Zenon
<1> QED
  BY <1>1, <1>2, <1>3, <1>4, <1>5, <1>6, <1>7, <1>8, <1>9, <1>10, Zenon DEF Next, Command, LegacyNext

(* StoreKept.  So the log stays without a gap.                             *)
LEMMA StoreKept ==
  ASSUME StoreInv, turn' \in [Turn -> TurnRow], event \subseteq event',
         \A u \in Turn : SameToReader(u) \/ OneMoreEvent(u)
  PROVE  StoreInv'
<1> SUFFICES ASSUME NEW t \in Turn
             PROVE  /\ turn'[t].status = "absent" => turn'[t].seq = 0
                    /\ \A n \in Nat : n \in 1..turn'[t].seq => HasLogged(t, n)'
  BY DEF StoreInv
<1>1. /\ turn[t].status = "absent" => turn[t].seq = 0
      /\ \A n \in Nat : n \in 1..turn[t].seq => HasLogged(t, n)
      /\ turn[t].seq \in Nat
  BY DEF StoreInv, TurnRow
<1>2. \A n \in Nat : HasLogged(t, n) => HasLogged(t, n)'
  BY DEF HasLogged
<1>3. CASE SameToReader(t)
  BY <1>1, <1>2, <1>3, Zenon DEF SameToReader
<1>4. CASE OneMoreEvent(t)
  <2>1. turn'[t].seq = turn[t].seq + 1 /\ turn'[t].status # "absent" /\ HasLogged(t, turn[t].seq)'
    BY <1>4 DEF OneMoreEvent
  <2>2. ASSUME NEW n \in Nat, n \in 1..turn'[t].seq PROVE HasLogged(t, n)'
    <3>1. n \in 1..turn[t].seq \/ n = turn'[t].seq
      BY <1>1, <2>1, <2>2
    <3>2. CASE n = turn'[t].seq
      BY <2>1, <3>2, Zenon DEF HasLogged
    <3> QED
      BY <1>1, <1>2, <3>1, <3>2, Zenon
  <2> QED
    BY <2>1, <2>2, Zenon
<1> QED
  BY <1>3, <1>4, Zenon

(* WritersKeepSubscriptions.  An attached subscription stays sound while   *)
(* others write: its Turn's log only grows, and not at all once the Turn   *)
(* has ended.                                                              *)
LEMMA WritersKeepSubscriptions ==
  ASSUME StoreInv, StoreInv', NEW r \in SubRow, Attached(r),
         \A u \in Turn : SameToReader(u) \/ OneMoreEvent(u)
  PROVE  Attached(r)'
<1> DEFINE t == r.turn
<1>1. t \in Turn /\ turn[t].seq \in Nat /\ turn'[t].seq \in Nat
  BY DEF Attached, StoreInv, TurnRow
<1>2. turn[t].seq <= turn'[t].seq
  BY <1>1 DEF SameToReader, OneMoreEvent
<1>3. Ended(t) => Ended(t)' /\ turn'[t].seq = turn[t].seq
  BY <1>1 DEF SameToReader, OneMoreEvent, Ended
<1>4. r.cursor \in Nat /\ r.latest \in Nat /\ r.buffer \subseteq Nat
  BY Zenon DEF SubRow
<1> HIDE DEF t
<1>5. r.cursor <= turn'[t].seq /\ r.latest <= turn'[t].seq
  BY <1>1, <1>2, <1>4 DEF Attached, t
<1>6. \A n \in r.buffer : n <= turn'[t].seq
  BY <1>1, <1>2, <1>4 DEF Attached, t
<1> QED
  BY <1>1, <1>3, <1>5, <1>6, Zenon DEF Attached, t

(* PageContinues.  A page read from a cursor continues it without a gap    *)
(* and stays inside the log.                                               *)
LEMMA PageContinues ==
  ASSUME StoreInv, NEW t \in Turn, NEW c \in Nat
  PROVE  /\ Page(t, c) \in SUBSET Nat
         /\ \A n \in Page(t, c) : /\ c < n /\ n <= turn[t].seq
                                  /\ \A m \in Nat : c < m /\ m <= n => m \in Page(t, c)
<1> DEFINE rows == LoggedAfter(t, c)
           before(n) == {m \in rows : m < n}
<1>1. turn[t].seq \in Nat /\ rows \subseteq 1..turn[t].seq /\ \A n \in rows : c < n
  BY DEF StoreInv, TurnRow, LoggedAfter
<1>2. \A m \in Nat : c < m /\ m <= turn[t].seq => m \in rows
  <2> SUFFICES ASSUME NEW m \in Nat, c < m, m <= turn[t].seq PROVE m \in rows
    OBVIOUS
  <2>1. m \in 1..turn[t].seq
    BY <1>1
  <2>2. HasLogged(t, m)
    BY <2>1 DEF StoreInv
  <2> QED
    BY <2>1, <2>2 DEF HasLogged, LoggedAfter
<1>3. Page(t, c) = {n \in rows : Cardinality(before(n)) < PageLimit}
  BY DEF Page
<1>4. ASSUME NEW n \in Page(t, c)
      PROVE  n \in rows /\ n \in Nat /\ c < n /\ n <= turn[t].seq /\ Cardinality(before(n)) < PageLimit
  <2>1. n \in rows /\ Cardinality(before(n)) < PageLimit
    BY <1>3, Zenon
  <2> HIDE DEF rows, before
  <2> QED
    BY <1>1, <2>1
<1> HIDE DEF rows
<1>5. ASSUME NEW n \in Page(t, c), NEW m \in Nat, c < m, m <= n PROVE m \in Page(t, c)
  <2>1. n \in Nat /\ n <= turn[t].seq /\ Cardinality(before(n)) < PageLimit
    BY <1>4
  <2>2. m \in rows
    BY <1>1, <1>2, <1>5, <2>1
  <2>3. before(m) \subseteq before(n) /\ before(n) \subseteq 1..turn[t].seq
    <3>1. ASSUME NEW k \in rows, k < m PROVE k < n
      BY <1>1, <1>5, <2>1, <3>1
    <3> QED
      BY <1>1, <3>1, Zenon
  <2>4. IsFiniteSet(1..turn[t].seq)
    BY <1>1, FS_Interval
  <2>5. IsFiniteSet(before(n))
    BY <2>3, <2>4, FS_Subset, Zenon
  <2>6. Cardinality(before(m)) <= Cardinality(before(n))
        /\ Cardinality(before(m)) \in Nat /\ Cardinality(before(n)) \in Nat
    BY <2>3, <2>5, FS_Subset, FS_CardinalityType, Zenon
  <2>7. Cardinality(before(m)) < PageLimit
    BY <2>1, <2>6, StreamAssumption
  <2> QED
    BY <1>3, <2>2, <2>7
<1> QED
  BY <1>4, <1>5, Zenon

(* OneSubscription.  A step of one observer rewrites its own row; its      *)
(* cursor stays or moves on to the next event.                             *)
SeenStep == \A s \in Observer : sub'[s].cursor # sub[s].cursor => sub'[s].cursor = sub[s].cursor + 1

LEMMA OneSubscription ==
  ASSUME StreamInv, NEW s \in Observer, NEW row \in SubRow,
         sub' = [sub EXCEPT ![s] = row], UNCHANGED vars,
         row.at # "off" => Attached(row),
         row.cursor \in {sub[s].cursor, sub[s].cursor + 1}
  PROVE  StreamInv' /\ SeenStep
<1>1. sub \in [Observer -> SubRow] /\ StoreInv /\ \A o \in Observer : sub[o].at # "off" => Attached(sub[o])
  BY DEF StreamInv
<1>2. turn' = turn /\ event' = event
  BY DEF vars
<1>3. StoreInv'
  BY <1>1, <1>2 DEF StoreInv, HasLogged
<1>4. sub' \in [Observer -> SubRow] /\ sub'[s] = row /\ \A o \in Observer \ {s} : sub'[o] = sub[o]
  BY <1>1, Zenon
<1>5. \A r \in SubRow : Attached(r) => Attached(r)'
  BY <1>2, Zenon DEF Attached, Ended
<1>6. ASSUME NEW o \in Observer, sub'[o].at # "off" PROVE Attached(sub[o])'
  <2>1. Attached(sub'[o]) /\ sub'[o] \in SubRow
    BY <1>1, <1>4, <1>6, Zenon
  <2> QED
    BY <1>2, <2>1, Zenon DEF Attached, Ended
<1>7. SeenStep
  BY <1>4 DEF SeenStep
<1> QED
  BY <1>3, <1>4, <1>6, <1>7, Zenon DEF StreamInv

(* ReplaySound.  What Subscribe and advance leave behind: a page read from *)
(* the cursor into an empty buffer, with the Turn as it is now.            *)
LEMMA ReplaySound ==
  ASSUME StreamInv, NEW s \in Observer, NEW t \in Turn, NEW at \in {"ready", "waiting"},
         NEW buffer, buffer = Page(t, sub[s].cursor), at = "waiting" => buffer = {},
         sub[s].cursor <= turn[t].seq, UNCHANGED vars,
         sub' = [sub EXCEPT ![s] = [sub[s] EXCEPT !.at = at, !.turn = t, !.buffer = buffer,
                                                  !.latest = turn[t].seq, !.terminal = Ended(t)]]
  PROVE  StreamInv' /\ SeenStep
<1> DEFINE c == sub[s].cursor
           seq == turn[t].seq
           ended == Ended(t)
           row == [sub[s] EXCEPT !.at = at, !.turn = t, !.buffer = buffer,
                                 !.latest = seq, !.terminal = ended]
<1>1. sub[s] \in SubRow /\ StoreInv
  BY DEF StreamInv
<1>2. c \in Nat /\ seq \in Nat /\ ended \in BOOLEAN
  BY <1>1 DEF SubRow, StoreInv, TurnRow, Ended
<1>3. buffer \in SUBSET Nat
      /\ \A n \in buffer : /\ c < n /\ n <= seq
                           /\ \A m \in Nat : c < m /\ m <= n => m \in buffer
  BY <1>1, <1>2, PageContinues, Zenon
<1>4. c <= seq /\ seq <= seq /\ (ended => Ended(t))
  BY <1>2
<1>5. sub' = [sub EXCEPT ![s] = row]
  OBVIOUS
<1>6. /\ row \in SubRow /\ row.at = at /\ row.turn = t /\ row.cursor = c /\ row.buffer = buffer
      /\ row.latest = seq /\ row.terminal = ended
  <2> HIDE DEF seq, ended
  <2> QED
    BY <1>1, <1>2, <1>3, Zenon DEF SubRow, c
<1> HIDE DEF row
<1>7. Attached(row)
  BY <1>3, <1>4, <1>6 DEF Attached
<1> QED
  BY <1>5, <1>6, <1>7, OneSubscription, Zenon

(* PopSound.  The least buffered event is the one after the cursor.        *)
LEMMA PopSound ==
  ASSUME StreamInv, NEW s \in Observer, Pop(s)
  PROVE  StreamInv' /\ SeenStep
<1>1. sub[s] \in SubRow /\ Attached(sub[s]) /\ sub[s].at = "ready"
  BY DEF StreamInv, Pop
<1>2. PICK n \in sub[s].buffer :
        /\ \A m \in sub[s].buffer : n <= m
        /\ sub' = [sub EXCEPT ![s].buffer = @ \ {n}, ![s].cursor = IF n > @ THEN n ELSE @]
  BY Zenon DEF Pop
<1> DEFINE c == sub[s].cursor
           rest == sub[s].buffer \ {n}
           row == [sub[s] EXCEPT !.buffer = rest, !.cursor = n]
<1>3. c \in Nat /\ n \in Nat /\ sub[s].buffer \subseteq Nat /\ turn[sub[s].turn].seq \in Nat
  BY <1>1 DEF SubRow, Attached, StreamInv, StoreInv, TurnRow
<1>4. n = c + 1
  <2>1. c < n /\ \A m \in Nat : c < m /\ m <= n => m \in sub[s].buffer
    BY <1>1 DEF Attached
  <2>2. c + 1 \in sub[s].buffer
    BY <1>3, <2>1
  <2> QED
    BY <1>2, <1>3, <2>1, <2>2
<1>5. sub' = [sub EXCEPT ![s] = row]
  <2>1. (IF n > c THEN n ELSE c) = n
    BY <1>3, <1>4
  <2> QED
    BY <1>2, <2>1, Zenon DEF StreamInv
<1>6. /\ row \in SubRow /\ row.at = "ready" /\ row.turn = sub[s].turn /\ row.cursor = n
      /\ row.buffer = rest /\ row.latest = sub[s].latest /\ row.terminal = sub[s].terminal
  <2>1. rest \in SUBSET Nat
    BY <1>3, Zenon
  <2> HIDE DEF rest
  <2> QED
    BY <1>1, <1>3, <2>1, Zenon DEF SubRow
<1>7. \A k \in rest : /\ n < k /\ k <= turn[sub[s].turn].seq
                      /\ \A m \in Nat : n < m /\ m <= k => m \in rest
  <2> SUFFICES ASSUME NEW k \in rest
               PROVE  /\ n < k /\ k <= turn[sub[s].turn].seq
                      /\ \A m \in Nat : n < m /\ m <= k => m \in rest
    BY Zenon
  <2>1. /\ k \in Nat /\ k # n /\ n <= k /\ k <= turn[sub[s].turn].seq
        /\ \A m \in Nat : c < m /\ m <= k => m \in sub[s].buffer
    BY <1>1, <1>2, <1>3, Zenon DEF Attached
  <2> QED
    BY <1>3, <1>4, <2>1
<1> HIDE DEF rest, row
<1>8. n <= turn[sub[s].turn].seq
  BY <1>1, Zenon DEF Attached
<1>9. Attached(row)
  BY <1>1, <1>6, <1>7, <1>8, Zenon DEF Attached
<1>10. UNCHANGED vars
  BY DEF Pop
<1> QED
  BY <1>4, <1>5, <1>6, <1>9, <1>10, OneSubscription, Zenon

(* MoveSound.  The steps that only change where a subscription is.         *)
LEMMA MoveSound ==
  ASSUME StreamInv, NEW s \in Observer, EndOfStream(s) \/ Watch(s) \/ Wake(s)
  PROVE  StreamInv' /\ SeenStep
<1> DEFINE old == sub[s]
<1>1. old \in SubRow /\ Attached(old) /\ UNCHANGED vars
  BY DEF StreamInv, EndOfStream, Watch, Wake
<1>2. PICK at \in {"eof", "watching", "ready"} :
        /\ sub' = [sub EXCEPT ![s].at = at]
        /\ at = "eof" => Finished(s)
        /\ at = "watching" => old.buffer = {}
  BY DEF EndOfStream, Watch, Wake
<1> DEFINE row == [old EXCEPT !.at = at]
<1>3. /\ row \in SubRow /\ row.at = at /\ row.turn = old.turn /\ row.cursor = old.cursor
      /\ row.buffer = old.buffer /\ row.latest = old.latest /\ row.terminal = old.terminal
  BY <1>1 DEF SubRow
<1>4. sub' = [sub EXCEPT ![s] = row]
  BY <1>2
<1> HIDE DEF row
<1>5. at = "eof" => old.terminal /\ old.latest <= old.cursor
  BY <1>1, <1>2, Zenon DEF Finished, SubRow
<1>6. Attached(row)
  BY <1>1, <1>2, <1>3, <1>5, Zenon DEF Attached
<1> QED
  BY <1>1, <1>3, <1>4, <1>6, OneSubscription, Zenon

(* ReadSound.  Attaching, and reading the next page.                       *)
LEMMA ReadSound ==
  ASSUME StreamInv, NEW s \in Observer, Advance(s) \/ \E t \in Turn : Subscribe(s, t)
  PROVE  StreamInv' /\ SeenStep
<1>1. sub \in [Observer -> SubRow] /\ sub[s] \in SubRow
  BY DEF StreamInv
<1>2. ASSUME NEW t \in Turn, Subscribe(s, t) PROVE StreamInv' /\ SeenStep
  <2> DEFINE buffer == Page(t, sub[s].cursor)
  <2>1. /\ sub[s].cursor <= turn[t].seq /\ UNCHANGED vars
        /\ sub' = [sub EXCEPT ![s] = [sub[s] EXCEPT !.at = "ready", !.turn = t, !.buffer = buffer,
                                                    !.latest = turn[t].seq, !.terminal = Ended(t)]]
    BY <1>2, Zenon DEF Subscribe
  <2> HIDE DEF buffer
  <2>2. buffer = Page(t, sub[s].cursor)
    BY DEF buffer
  <2> QED
    BY <2>1, <2>2, ReplaySound, Zenon
<1>3. CASE Advance(s)
  <2> DEFINE t == sub[s].turn
             buffer == Page(t, sub[s].cursor)
             at == IF buffer = {} THEN "waiting" ELSE "ready"
  <2>1. Attached(sub[s]) /\ sub[s].at = "watching" /\ UNCHANGED vars
    BY <1>3, Zenon DEF Advance, StreamInv
  <2>2. t \in Turn /\ sub[s].cursor <= turn[t].seq /\ sub[s].buffer = {}
    BY <2>1 DEF Attached
  <2>3. sub' = [sub EXCEPT ![s] = [sub[s] EXCEPT !.at = at, !.buffer = buffer,
                                                 !.latest = turn[t].seq, !.terminal = Ended(t)]]
    <3>1. sub[s].buffer \cup buffer = buffer
      BY <2>2
    <3> QED
      BY <1>3, <3>1, Zenon DEF Advance, ReadFrom
  <2>4. at \in {"ready", "waiting"} /\ (at = "waiting" => buffer = {}) /\ buffer = Page(t, sub[s].cursor)
    OBVIOUS
  <2> DEFINE seq == turn[t].seq
             ended == Ended(t)
  <2> HIDE DEF buffer, at, seq, ended
  <2>5. [sub[s] EXCEPT !.at = at, !.buffer = buffer, !.latest = seq, !.terminal = ended]
        = [sub[s] EXCEPT !.at = at, !.turn = t, !.buffer = buffer, !.latest = seq, !.terminal = ended]
    BY <1>1, Zenon DEF SubRow
  <2> HIDE DEF t
  <2>6. sub' = [sub EXCEPT ![s] = [sub[s] EXCEPT !.at = at, !.turn = t, !.buffer = buffer,
                                                 !.latest = turn[t].seq, !.terminal = Ended(t)]]
    BY <2>3, <2>5, Zenon DEF seq, ended
  <2> QED
    BY <2>1, <2>2, <2>4, <2>6, ReplaySound, Zenon
<1> QED
  BY <1>2, <1>3

(* DetachSound.  A client that goes away keeps its cursor.                 *)
LEMMA DetachSound ==
  ASSUME StreamInv, NEW s \in Observer, Detach(s)
  PROVE  StreamInv' /\ SeenStep
<1> DEFINE old == sub[s]
           tries == old.detached + 1
           row == [NoSubscription EXCEPT !.turn = old.turn, !.cursor = old.cursor, !.detached = tries]
<1>1. old \in SubRow /\ UNCHANGED vars
  BY DEF StreamInv, Detach
<1>2. sub' = [sub EXCEPT ![s] = row]
  BY DEF Detach
<1>3. tries \in Nat
  BY <1>1 DEF SubRow
<1> HIDE DEF tries
<1>4. row \in SubRow /\ row.at = "off" /\ row.cursor = old.cursor
  BY <1>1, <1>3, Zenon DEF SubRow, NoSubscription
<1> HIDE DEF row
<1> QED
  BY <1>1, <1>2, <1>4, OneSubscription, Zenon

(* StreamStep.  Every step of observers and writers keeps the invariant,   *)
(* and moves each cursor by one event at most.                             *)
LEMMA StreamStep ==
  ASSUME StreamInv, [StreamNext]_streamVars
  PROVE  StreamInv' /\ SeenStep
<1>1. sub \in [Observer -> SubRow] /\ StoreInv /\ \A s \in Observer : sub[s].at # "off" => Attached(sub[s])
  BY DEF StreamInv
<1>2. CASE (Next \/ LegacyNext) /\ sub' = sub
  <2>1. /\ turn' \in [Turn -> TurnRow] /\ event \subseteq event'
        /\ \A u \in Turn : SameToReader(u) \/ OneMoreEvent(u)
    BY <1>1, <1>2, StoreMoves
  <2>2. StoreInv'
    BY <1>1, <2>1, StoreKept, Zenon
  <2>3. ASSUME NEW s \in Observer, sub'[s].at # "off" PROVE Attached(sub[s])'
    <3> DEFINE r == sub[s]
    <3>1. r \in SubRow /\ Attached(r) /\ sub'[s] = r
      BY <1>1, <1>2, <2>3
    <3> HIDE DEF r
    <3>2. \A q \in SubRow : Attached(q) => Attached(q)'
      BY <1>1, <2>1, <2>2, WritersKeepSubscriptions
    <3> QED
      BY <1>2, <3>1, <3>2 DEF Attached, Ended, r
  <2> QED
    BY <1>1, <1>2, <2>2, <2>3 DEF StreamInv, SeenStep
<1>3. CASE \E s \in Observer : NextEvent(s) \/ Detach(s) \/ \E t \in Turn : Subscribe(s, t)
  BY <1>3, PopSound, MoveSound, ReadSound, DetachSound, Zenon DEF NextEvent
<1>4. CASE UNCHANGED streamVars
  <2>1. turn' = turn /\ event' = event /\ sub' = sub
    BY <1>4 DEF streamVars, vars
  <2>2. StoreInv'
    BY <1>1, <2>1 DEF StoreInv, HasLogged
  <2> QED
    BY <1>1, <2>1, <2>2 DEF StreamInv, SeenStep, Attached, Ended
<1> QED
  BY <1>2, <1>3, <1>4 DEF StreamNext

(* StreamStart.  Nobody has subscribed and nothing is logged.              *)
LEMMA StreamStart == StreamInit => StreamInv
<1> SUFFICES ASSUME StreamInit PROVE StreamInv
  OBVIOUS
<1>1. StoreInv
  BY DEF StreamInit, Init, StoreInv, TurnRow
<1>2. sub \in [Observer -> SubRow] /\ \A s \in Observer : sub[s].at = "off"
  BY DEF StreamInit, NoSubscription, SubRow
<1> QED
  BY <1>1, <1>2, Zenon DEF StreamInv

(* StreamInvariant.  For any number of Turns, observers and reconnections, *)
(* any page size and any writers, the unfenced commands included, what an  *)
(* attached observer has buffered continues its cursor inside the log.     *)
THEOREM StreamInvariant == StreamInit /\ [][StreamNext]_streamVars => []StreamInv
<1>1. StreamInv /\ [StreamNext]_streamVars => StreamInv'
  BY StreamStep
<1> QED
  BY <1>1, StreamStart, PTL

(* NothingIsDropped.  A stream that ended has handed out the whole log of  *)
(* a Turn that is over: io.EOF is never early.                             *)
THEOREM NothingIsDropped == StreamSpec => []NothingDropped
<1>1. StreamInv => NothingDropped
  <2> SUFFICES ASSUME StreamInv, NEW s \in Observer, sub[s].at = "eof"
               PROVE  Ended(sub[s].turn) /\ sub[s].cursor = turn[sub[s].turn].seq
    BY DEF NothingDropped
  <2>1. Attached(sub[s]) /\ sub[s] \in SubRow /\ StoreInv
    BY DEF StreamInv
  <2>2. sub[s].cursor \in Nat /\ sub[s].latest \in Nat
    BY <2>1, Zenon DEF SubRow
  <2>3. sub[s].turn \in Turn /\ turn[sub[s].turn].seq \in Nat
    BY <2>1 DEF Attached, StoreInv, TurnRow
  <2> QED
    BY <2>1, <2>2, <2>3 DEF Attached
<1> QED
  BY <1>1, StreamInvariant, PTL DEF StreamSpec

(* EventsSeenInOrder.  No observer skips or repeats an event, across pages,*)
(* polls and reconnections, for any page size.                             *)
THEOREM EventsSeenInOrder == StreamSpec => SeenInOrder
<1>1. StreamInv /\ [StreamNext]_streamVars => [SeenStep]_streamVars
  BY StreamStep
<1> QED
  BY <1>1, StreamInvariant, PTL DEF StreamSpec, SeenInOrder, SeenStep

(* StreamsOnlyRead.  Observers write nothing: beside any number of them    *)
(* the Store is the one of AgentTurnProofs, fenced and unfenced commands   *)
(* on the same tables.                                                     *)
THEOREM StreamsOnlyRead == StreamSpec => StoreSpec
<1>1. StreamInit => Init
  BY DEF StreamInit
<1>2. [StreamNext]_streamVars => [Next \/ LegacyNext]_vars
  BY Zenon DEF StreamNext, NextEvent, Pop, EndOfStream, Watch, Advance, Wake, Detach, Subscribe,
     streamVars
<1> QED
  BY <1>1, <1>2, PTL DEF StreamSpec, StoreSpec

=============================================================================
