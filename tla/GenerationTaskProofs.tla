------------------------ MODULE GenerationTaskProofs ------------------------
(***************************************************************************)
(* Proofs about generation tasks, for every set of tasks and workers, every*)
(* queue size and any number of crashes: the task queue is a caller of the *)
(* ledger, so the ledger's theorems hold of it; no task is run twice; what *)
(* a task says about its refund is true; and a task that waits or runs is  *)
(* paid for.                                                               *)
(***************************************************************************)
EXTENDS GenerationTask, CreditLedgerProofs

(* The SMT solver may take up to 30 seconds over a leaf, and is called     *)
(* again when its first call fails.                                        *)
USE SMTT(30), Z3T(30)

TaskRow ==
  [status : {"absent", "pending", "processing", "completed", "failed", "cancelled"},
   refunded : BOOLEAN, age : Nat, abortable : BOOLEAN]

WorkerState ==
  [at : {"idle", "register", "run", "finalize", "refund", "leave"}, task : Task \cup {NoTask}]

RecoveryState == [at : {"off", "scan", "load", "mark", "refund"}, tasks : Seq(Task)]

SubmitState == {"none", "created", "sending", "release", "fail", "rejected", "done"}

CancelState == {"none", "pending", "processing", "abort", "untold", "missed"}

GenTypes ==
  /\ task \in [Task -> TaskRow]
  /\ queue \in Seq(Task)
  /\ mutex \in Task \cup {NoTask}
  /\ worker \in [Worker -> WorkerState]
  /\ submit \in [Task -> SubmitState]
  /\ cancel \in [Task -> CancelState]
  /\ recovery \in RecoveryState
  /\ crashes \in Nat

Waiting == {"absent", "pending"}

(***************************************************************************)
(* A worker has a task exactly while it is not idle, it has moved that     *)
(* task's row out of pending, and before it charges the task's Credits the *)
(* row has ended.                                                          *)
(***************************************************************************)
WorkersOwn ==
  \A w \in Worker :
    /\ worker[w].at = "idle" <=> worker[w].task = NoTask
    /\ worker[w].task # NoTask => task[worker[w].task].status \notin Waiting
    /\ worker[w].at = "finalize" => TaskEnded(worker[w].task)

GenInv == GenTypes /\ WorkersOwn /\ OneRunner

(***************************************************************************)
(* A row never goes back: what has left pending does not wait again, what  *)
(* has ended stays so, and what was created keeps its provider.            *)
(***************************************************************************)
Forward ==
  \A t \in Task :
    /\ task[t].status \notin Waiting => task'[t].status \notin Waiting
    /\ TaskEnded(t) => TaskEnded(t)'
    /\ task[t].status # "absent" => task'[t].status # "absent" /\ task'[t].abortable = task[t].abortable

(***************************************************************************)
(* NothingRuns.  The initial state satisfies the invariant.                *)
(***************************************************************************)
LEMMA NothingRuns == GenInit => GenInv
<1> SUFFICES ASSUME GenInit PROVE GenInv
  OBVIOUS
<1>1. GenTypes
  <2>1. task \in [Task -> TaskRow]
    BY DEF GenInit, NewTask, TaskRow
  <2>2. worker \in [Worker -> WorkerState]
    BY DEF GenInit, WorkerState, Idle
  <2>3. recovery \in RecoveryState
    <3>1. recovery = [at |-> "scan", tasks |-> <<>>]
      BY DEF GenInit, NoRecovery
    <3> QED
      BY <3>1 DEF RecoveryState
  <2>4. queue \in Seq(Task) /\ mutex \in Task \cup {NoTask} /\ crashes \in Nat
    BY DEF GenInit
  <2>5. submit \in [Task -> SubmitState] /\ cancel \in [Task -> CancelState]
    BY DEF GenInit, SubmitState, CancelState
  <2> QED
    BY <2>1, <2>2, <2>3, <2>4, <2>5, Zenon DEF GenTypes
<1>2. \A w \in Worker : worker[w].at = "idle" /\ worker[w].task = NoTask
  BY DEF GenInit, Idle
<1>3. WorkersOwn /\ OneRunner
  BY <1>2 DEF WorkersOwn, OneRunner
<1> QED
  BY <1>1, <1>3 DEF GenInv

(***************************************************************************)
(* WorkersGoOn.  A step that leaves the workers where they are, and takes  *)
(* no row back, keeps the invariant.                                       *)
(***************************************************************************)
LEMMA WorkersGoOn ==
  ASSUME GenInv, GenTypes', Forward, worker' = worker
  PROVE  GenInv'
<1>1. \A w \in Worker : worker[w].task \in Task \/ worker[w].task = NoTask
  BY DEF GenInv, GenTypes, WorkerState
<1>2. \A w \in Worker : worker[w].at = "finalize" => worker[w].task \in Task
  BY <1>1 DEF GenInv, WorkersOwn
<1>3. WorkersOwn'
  BY <1>1, <1>2 DEF GenInv, WorkersOwn, Forward, TaskEnded
<1>4. OneRunner'
  BY DEF GenInv, OneRunner
<1> QED
  BY <1>3, <1>4 DEF GenInv

(***************************************************************************)
(* WorkerMoves.  A busy worker goes on with the same task, to the charge   *)
(* only once the row has ended.                                            *)
(***************************************************************************)
LEMMA WorkerMoves ==
  ASSUME GenInv, GenTypes', Forward, NEW w \in Worker, NEW at, at # "idle",
         worker[w].at # "idle", worker' = [worker EXCEPT ![w].at = at],
         at = "finalize" => TaskEnded(worker[w].task)'
  PROVE  GenInv'
<1>1. \A v \in Worker : worker[v].task \in Task \/ worker[v].task = NoTask
  BY DEF GenInv, GenTypes, WorkerState
<1>2. \A v \in Worker : worker'[v].task = worker[v].task
  BY DEF GenInv, GenTypes, WorkerState
<1>3. \A v \in Worker : worker'[v].at = IF v = w THEN at ELSE worker[v].at
  BY DEF GenInv, GenTypes, WorkerState
<1>4. ASSUME NEW v \in Worker
      PROVE  /\ worker'[v].at = "idle" <=> worker'[v].task = NoTask
             /\ worker'[v].task # NoTask => task'[worker'[v].task].status \notin Waiting
             /\ worker'[v].at = "finalize" => TaskEnded(worker[v].task)'
  <2>1. worker'[v].at = "idle" <=> worker'[v].task = NoTask
    BY <1>2, <1>3, Zenon DEF GenInv, WorkersOwn
  <2>2. worker'[v].task # NoTask => task'[worker'[v].task].status \notin Waiting
    BY <1>1, <1>2 DEF GenInv, WorkersOwn, Forward
  <2>3. worker'[v].at = "finalize" => TaskEnded(worker[v].task)'
    <3>1. CASE v = w
      BY <3>1, <1>2, <1>3, Zenon DEF TaskEnded
    <3>2. CASE v # w
      <4>1. worker[v].at = "finalize" => worker[v].task \in Task /\ TaskEnded(worker[v].task)
        BY <1>1 DEF GenInv, WorkersOwn
      <4> QED
        BY <3>2, <4>1, <1>2, <1>3, Zenon DEF Forward, TaskEnded
    <3> QED
      BY <3>1, <3>2, Zenon
  <2> QED
    BY <2>1, <2>2, <2>3
<1>5. WorkersOwn'
  BY <1>4 DEF WorkersOwn
<1>6. OneRunner'
  BY <1>2 DEF GenInv, OneRunner
<1> QED
  BY <1>5, <1>6 DEF GenInv

(***************************************************************************)
(* RowsStay.  A step that does not write the task rows takes none back.    *)
(***************************************************************************)
LEMMA RowsStay ==
  ASSUME task' = task
  PROVE  Forward
BY DEF Forward, TaskEnded

(***************************************************************************)
(* RowWritten.  Writing one row so that it moves forwards.                 *)
(***************************************************************************)
LEMMA RowWritten ==
  ASSUME GenTypes, NEW t \in Task, NEW row \in TaskRow,
         task' = [task EXCEPT ![t] = row],
         row.status = "pending" => task[t].status = "absent",
         row.status = "processing" => ~TaskEnded(t),
         row.status # "absent",
         task[t].status # "absent" => row.abortable = task[t].abortable
  PROVE  /\ task' \in [Task -> TaskRow]
         /\ Forward
         /\ task'[t] = row
<1>1. \A s \in Task : task[s] \in TaskRow
  BY DEF GenTypes
<1>2. task' \in [Task -> TaskRow] /\ task'[t] = row
  BY DEF GenTypes
<1>3. \A s \in Task \ {t} : task'[s] = task[s]
  BY DEF GenTypes
<1>4. row.status \notin Waiting \/ task[t].status = "absent"
  BY DEF Waiting
<1>5. TaskEnded(t) => row.status \in {"completed", "failed", "cancelled"}
  BY DEF TaskEnded, TaskRow
<1>6. ASSUME NEW s \in Task
      PROVE  /\ task[s].status \notin Waiting => task'[s].status \notin Waiting
             /\ TaskEnded(s) => TaskEnded(s)'
             /\ task[s].status # "absent" => task'[s].status # "absent" /\ task'[s].abortable = task[s].abortable
  <2>1. CASE s = t
    BY <2>1, <1>2, <1>4, <1>5, Zenon DEF TaskEnded, Waiting
  <2>2. CASE s # t
    BY <2>2, <1>3 DEF TaskEnded
  <2> QED
    BY <2>1, <2>2
<1>7. Forward
  BY <1>6 DEF Forward
<1> QED
  BY <1>2, <1>7

(***************************************************************************)
(* StatusWritten.  The same for a write of the status alone.               *)
(***************************************************************************)
LEMMA StatusWritten ==
  ASSUME GenTypes, NEW t \in Task,
         NEW status \in {"pending", "processing", "completed", "failed", "cancelled"},
         task' = [task EXCEPT ![t].status = status],
         status = "pending" => task[t].status = "absent",
         status = "processing" => ~TaskEnded(t)
  PROVE  /\ task' \in [Task -> TaskRow]
         /\ Forward
         /\ task'[t].status = status
<1> DEFINE row == [task[t] EXCEPT !.status = status]
<1>1. task[t] \in TaskRow
  BY DEF GenTypes
<1>2. row \in TaskRow /\ row.status = status /\ row.abortable = task[t].abortable
  BY <1>1 DEF TaskRow
<1>3. task' = [task EXCEPT ![t] = row]
  OBVIOUS
<1> HIDE DEF row
<1> QED
  BY <1>2, <1>3, RowWritten, Zenon

(***************************************************************************)
(* SubmitSound.  A step of a submit handler keeps the invariant.           *)
(***************************************************************************)
LEMMA SubmitSound ==
  ASSUME GenInv, NEW t \in Task, Submit(t) \/ SubmitStep(t)
  PROVE  GenInv' /\ Forward
<1>1. GenTypes
  BY DEF GenInv
<1>2. \A s \in SubmitState : [submit EXCEPT ![t] = s] \in [Task -> SubmitState]
  BY <1>1 DEF GenTypes
<1>3. CASE Submit(t)
  <2>1. PICK a \in BOOLEAN : task' = [task EXCEPT ![t].status = "pending", ![t].abortable = a]
    BY <1>3, Zenon DEF Submit
  <2> DEFINE row == [task[t] EXCEPT !.status = "pending", !.abortable = a]
  <2>2. task' \in [Task -> TaskRow] /\ Forward
    <3>1. task[t] \in TaskRow /\ task[t].status = "absent"
      BY <1>1, <1>3, Zenon DEF GenTypes, Submit
    <3>2. row \in TaskRow /\ row.status = "pending"
      BY <2>1, <3>1, Zenon DEF TaskRow
    <3>3. task' = [task EXCEPT ![t] = row]
      BY <1>1, <2>1, Zenon DEF GenTypes
    <3> HIDE DEF row
    <3> QED
      BY <1>1, <3>1, <3>2, <3>3, RowWritten, Zenon
  <2>3. submit' \in [Task -> SubmitState]
    BY <1>2, <1>3 DEF Submit, SubmitState
  <2>4. GenTypes' /\ worker' = worker
    BY <1>1, <1>3, <2>2, <2>3, Zenon DEF GenTypes, Submit
  <2> QED
    BY <2>2, <2>4, WorkersGoOn
<1>4. CASE CheckRoom(t)
  <2>1. submit' \in [Task -> SubmitState]
    BY <1>2, <1>4, Zenon DEF CheckRoom, SubmitState
  <2>2. GenTypes' /\ worker' = worker /\ task' = task
    BY <1>1, <1>4, <2>1, Zenon DEF GenTypes, CheckRoom
  <2> QED
    BY <2>2, WorkersGoOn, RowsStay, Zenon
<1>5. CASE Send(t)
  <2>1. submit' \in [Task -> SubmitState]
    BY <1>2, <1>5 DEF Send, SubmitState
  <2>2. queue' \in Seq(Task)
    BY <1>1, <1>5 DEF GenTypes, Send
  <2>3. GenTypes' /\ worker' = worker /\ task' = task
    BY <1>1, <1>5, <2>1, <2>2, Zenon DEF GenTypes, Send
  <2> QED
    BY <2>3, WorkersGoOn, RowsStay
<1>6. CASE ReleaseRejected(t)
  <2>1. submit' \in [Task -> SubmitState]
    BY <1>2, <1>6 DEF ReleaseRejected, SubmitState
  <2>2. GenTypes' /\ worker' = worker /\ task' = task
    BY <1>1, <1>6, <2>1, Zenon DEF GenTypes, ReleaseRejected
  <2> QED
    BY <2>2, WorkersGoOn, RowsStay
<1>7. CASE FailRejected(t)
  <2>1. task' = [task EXCEPT ![t].status = "failed"] \/ task' = task
    BY <1>7 DEF FailRejected
  <2>2. task' \in [Task -> TaskRow] /\ Forward
    BY <1>1, <2>1, StatusWritten, RowsStay, Zenon DEF GenTypes
  <2>3. submit' \in [Task -> SubmitState]
    BY <1>2, <1>7 DEF FailRejected, SubmitState
  <2>4. GenTypes' /\ worker' = worker
    BY <1>1, <1>7, <2>2, <2>3 DEF GenTypes, FailRejected
  <2> QED
    BY <2>2, <2>4, WorkersGoOn
<1> QED
  BY <1>3, <1>4, <1>5, <1>6, <1>7, Zenon DEF SubmitStep

(***************************************************************************)
(* CancelSound.  A step of a cancel handler keeps the invariant.           *)
(***************************************************************************)
LEMMA CancelSound ==
  ASSUME GenInv, NEW t \in Task, CancelStep(t)
  PROVE  GenInv' /\ Forward
<1>1. GenTypes
  BY DEF GenInv
<1>2. ASSUME NEW s \in CancelState, cancel' = [cancel EXCEPT ![t] = s] PROVE cancel' \in [Task -> CancelState]
  BY <1>1, <1>2 DEF GenTypes
<1>3. CASE ReadForCancel(t)
  <2>1. cancel' = [cancel EXCEPT ![t] = task[t].status] /\ task[t].status \in Active
    BY <1>3 DEF ReadForCancel
  <2>2. cancel' \in [Task -> CancelState]
    <3>1. task[t].status \in CancelState
      BY <2>1 DEF CancelState, Active
    <3> QED
      BY <1>2, <2>1, <3>1, Zenon
  <2>3. GenTypes' /\ worker' = worker /\ task' = task
    BY <1>1, <1>3, <2>2, Zenon DEF GenTypes, ReadForCancel
  <2> QED
    BY <2>3, WorkersGoOn, RowsStay
<1>4. CASE CancelTask(t)
  <2>1. worker' = worker /\ UNCHANGED <<queue, mutex, submit, recovery, crashes>>
    BY <1>4, Zenon DEF CancelTask
  <2>2. CASE cancel' = [cancel EXCEPT ![t] = "none"] /\ task' = task
    <3>1. cancel' \in [Task -> CancelState]
      BY <1>2, <2>2, Zenon DEF CancelState
    <3>2. GenTypes'
      BY <1>1, <2>1, <2>2, <3>1, Zenon DEF GenTypes
    <3> QED
      BY <2>1, <2>2, <3>2, WorkersGoOn, RowsStay, Zenon
  <2>3. CASE /\ task' = [task EXCEPT ![t].status = "cancelled", ![t].refunded = TRUE]
             /\ cancel' = [cancel EXCEPT ![t] = IF @ = "processing" THEN "abort" ELSE "untold"]
    <3> DEFINE row == [task[t] EXCEPT !.status = "cancelled", !.refunded = TRUE]
    <3>1. task[t] \in TaskRow
      BY <1>1 DEF GenTypes
    <3>2. row \in TaskRow /\ row.status = "cancelled" /\ row.abortable = task[t].abortable
      BY <3>1, Zenon DEF TaskRow
    <3>3. task' = [task EXCEPT ![t] = row]
      BY <1>1, <2>3, Zenon DEF GenTypes
    <3> HIDE DEF row
    <3>4. task' \in [Task -> TaskRow] /\ Forward
      BY <1>1, <3>2, <3>3, RowWritten, Zenon
    <3>5. PICK s \in {"abort", "untold"} : cancel' = [cancel EXCEPT ![t] = s]
      BY <2>3, Zenon
    <3>6. cancel' \in [Task -> CancelState]
      BY <1>2, <3>5, Zenon DEF CancelState
    <3>7. GenTypes'
      BY <1>1, <2>1, <3>4, <3>6, Zenon DEF GenTypes
    <3> QED
      BY <2>1, <3>4, <3>7, WorkersGoOn
  <2> QED
    BY <1>4, <2>2, <2>3, Zenon DEF CancelTask
<1>5. CASE CancelActiveTask(t)
  <2>1. PICK s \in {"missed", "none"} : cancel' = [cancel EXCEPT ![t] = s]
    BY <1>5, Zenon DEF CancelActiveTask
  <2>2. cancel' \in [Task -> CancelState]
    BY <1>2, <2>1, Zenon DEF CancelState
  <2>3. \A v \in Worker : worker'[v] = worker[v] \/ (worker[v].at = "run" /\ worker'[v] = [worker[v] EXCEPT !.at = "leave"])
    <3>1. \A v \in Registered(t) : worker[v].at = "run"
      BY DEF Registered
    <3> QED
      BY <1>5, <3>1, Zenon DEF CancelActiveTask
  <2>4. \A v \in Worker : /\ worker'[v] \in WorkerState /\ worker'[v].task = worker[v].task
                          /\ worker'[v].at = worker[v].at \/ (worker[v].at = "run" /\ worker'[v].at = "leave")
    <3> SUFFICES ASSUME NEW v \in Worker
                 PROVE  /\ worker'[v] \in WorkerState /\ worker'[v].task = worker[v].task
                        /\ worker'[v].at = worker[v].at \/ (worker[v].at = "run" /\ worker'[v].at = "leave")
      OBVIOUS
    <3>1. worker[v] \in WorkerState
      BY <1>1 DEF GenTypes
    <3>2. CASE worker'[v] = worker[v]
      BY <3>1, <3>2
    <3>3. CASE worker[v].at = "run" /\ worker'[v] = [worker[v] EXCEPT !.at = "leave"]
      BY <3>1, <3>3, Zenon DEF WorkerState
    <3> QED
      BY <2>3, <3>2, <3>3
  <2>5. worker' \in [Worker -> WorkerState]
    <3>1. worker' = [v \in Worker |-> worker'[v]]
      BY <1>5, Zenon DEF CancelActiveTask
    <3> QED
      BY <2>4, <3>1
  <2>6. GenTypes' /\ task' = task
    BY <1>1, <1>5, <2>2, <2>5, Zenon DEF GenTypes, CancelActiveTask
  <2>7. WorkersOwn'
    BY <2>4, <2>6 DEF GenInv, WorkersOwn, TaskEnded
  <2>8. OneRunner'
    BY <2>4, Zenon DEF GenInv, OneRunner
  <2> QED
    BY <2>6, <2>7, <2>8, RowsStay, Zenon DEF GenInv
<1> QED
  BY <1>3, <1>4, <1>5, Zenon DEF CancelStep

(***************************************************************************)
(* StartSound.  A worker that takes a pending task is its only worker: any *)
(* other worker's task has left pending.                                   *)
(***************************************************************************)
LEMMA StartSound ==
  ASSUME GenInv, NEW w \in Worker, StartTask(w)
  PROVE  GenInv' /\ Forward
<1> DEFINE t == Head(queue)
           new == [at |-> "register", task |-> t]
<1>1. GenTypes
  BY DEF GenInv
<1>2. queue' \in Seq(Task) /\ t \in Task
  BY <1>1 DEF GenTypes, StartTask
<1>3. UNCHANGED <<mutex, submit, cancel, recovery, crashes>>
  BY DEF StartTask
<1>4. CASE /\ MayStart(t)
           /\ task' = [task EXCEPT ![t].status = "processing"]
           /\ worker' = [worker EXCEPT ![w] = new]
  <2>1. task' = [task EXCEPT ![t].status = "processing"] /\ worker' = [worker EXCEPT ![w] = new]
    BY <1>4
  <2>2. new \in WorkerState /\ new.at = "register" /\ new.task = t
    BY <1>2 DEF WorkerState
  <2> HIDE DEF t, new
  <2>3. task[t].status = "pending"
    BY <1>4 DEF MayStart
  <2>4. ~TaskEnded(t)
    BY <2>3 DEF TaskEnded
  <2>5. task' \in [Task -> TaskRow] /\ Forward /\ task'[t].status = "processing"
    BY <1>1, <1>2, <2>1, <2>4, StatusWritten, Zenon
  <2>6. worker' \in [Worker -> WorkerState] /\ worker'[w] = new
        /\ \A v \in Worker \ {w} : worker'[v] = worker[v]
    BY <1>1, <2>1, <2>2 DEF GenTypes
  <2>7. GenTypes'
    BY <1>1, <1>2, <1>3, <2>5, <2>6, Zenon DEF GenTypes
  <2>8. \A v \in Worker : worker[v].task \in Task \/ worker[v].task = NoTask
    BY <1>1 DEF GenTypes, WorkerState
  <2>9. \A v \in Worker : worker[v].task # t
    BY <1>2, <2>3, GenerationAssumption, Zenon DEF GenInv, WorkersOwn, Waiting
  <2>10. ASSUME NEW v \in Worker
         PROVE  /\ worker'[v].at = "idle" <=> worker'[v].task = NoTask
                /\ worker'[v].task # NoTask => task'[worker'[v].task].status \notin Waiting
                /\ worker'[v].at = "finalize" => TaskEnded(worker[v].task)'
    <3>1. CASE v = w
      BY <3>1, <1>2, <2>2, <2>5, <2>6, GenerationAssumption, Zenon DEF Waiting
    <3>2. CASE v # w
      <4>1. worker'[v] = worker[v]
        BY <3>2, <2>6
      <4>2. worker[v].at = "finalize" => worker[v].task \in Task /\ TaskEnded(worker[v].task)
        BY <2>8 DEF GenInv, WorkersOwn
      <4>3. worker'[v].at = "finalize" => TaskEnded(worker[v].task)'
        BY <4>1, <4>2, <2>5, Zenon DEF Forward, TaskEnded
      <4> QED
        BY <4>1, <4>3, <2>5, <2>8, Zenon DEF GenInv, WorkersOwn, Forward
    <3> QED
      BY <3>1, <3>2, Zenon
  <2>11. WorkersOwn'
    BY <2>10 DEF WorkersOwn
  <2>12. OneRunner'
    BY <2>2, <2>6, <2>9 DEF GenInv, OneRunner
  <2> QED
    BY <2>5, <2>7, <2>11, <2>12 DEF GenInv
<1>5. CASE UNCHANGED <<task, worker>>
  <2>1. GenTypes'
    BY <1>1, <1>2, <1>3, <1>5, Zenon DEF GenTypes
  <2> QED
    BY <1>5, <2>1, WorkersGoOn, RowsStay
<1> QED
  BY <1>4, <1>5, Zenon DEF StartTask

(***************************************************************************)
(* BusyTask.  A busy worker's task is a task.                              *)
(***************************************************************************)
LEMMA BusyTask ==
  ASSUME GenInv, NEW w \in Worker, worker[w].at # "idle"
  PROVE  worker[w].task \in Task
BY DEF GenInv, GenTypes, WorkersOwn, WorkerState

(***************************************************************************)
(* RefundWritten.  The refund of a failed task writes its mark, or nothing.*)
(***************************************************************************)
LEMMA RefundWritten ==
  ASSUME GenTypes, NEW t \in Task, RefundTask(t)
  PROVE  task' \in [Task -> TaskRow] /\ Forward
<1> DEFINE row == [task[t] EXCEPT !.refunded = TRUE]
<1>1. CASE task' = task
  BY <1>1, RowsStay DEF GenTypes
<1>2. CASE MayRefund(t) /\ task' = [task EXCEPT ![t].refunded = TRUE]
  <2>1. task[t] \in TaskRow
    BY DEF GenTypes
  <2>2. row \in TaskRow /\ row.status = "failed" /\ row.abortable = task[t].abortable
    BY <1>2, <2>1, Zenon DEF TaskRow, MayRefund
  <2>3. task' = [task EXCEPT ![t] = row]
    BY <1>2
  <2> HIDE DEF row
  <2> QED
    BY <2>2, <2>3, RowWritten, Zenon
<1> QED
  BY <1>1, <1>2, Zenon DEF RefundTask

(***************************************************************************)
(* WorkerSound.  A worker's step keeps the invariant.                      *)
(***************************************************************************)
LEMMA WorkerSound ==
  ASSUME GenInv, NEW w \in Worker, WorkerStep(w)
  PROVE  GenInv' /\ Forward
<1> DEFINE t == worker[w].task
<1>1. GenTypes
  BY DEF GenInv
<1>2. ASSUME NEW at \in {"run", "finalize", "refund", "leave"}, worker' = [worker EXCEPT ![w].at = at]
      PROVE  worker' \in [Worker -> WorkerState]
  BY <1>1, <1>2 DEF GenTypes, WorkerState
<1>3. CASE RegisterCancel(w)
  <2>1. worker' = [worker EXCEPT ![w].at = "run"] /\ task' = task /\ worker[w].at # "idle"
    BY <1>3 DEF RegisterCancel
  <2>2. GenTypes'
    BY <1>1, <1>2, <1>3, <2>1, Zenon DEF GenTypes, RegisterCancel
  <2>3. PICK at \in {"run"} : worker' = [worker EXCEPT ![w].at = at]
    BY <2>1
  <2> QED
    BY <2>1, <2>2, <2>3, RowsStay, WorkerMoves, Zenon
<1>4. CASE FinishTask(w)
  <2>1. t \in Task /\ worker[w].at # "idle"
    BY <1>4, BusyTask, Zenon DEF FinishTask
  <2>2. CASE \E outcome \in {"completed", "failed"} :
               /\ task' = [task EXCEPT ![t].status = outcome]
               /\ worker' = [worker EXCEPT ![w].at =
                               IF outcome = "completed" THEN "finalize" ELSE "refund"]
    <3>1. PICK outcome \in {"completed", "failed"} :
            /\ task' = [task EXCEPT ![t].status = outcome]
            /\ worker' = [worker EXCEPT ![w].at =
                            IF outcome = "completed" THEN "finalize" ELSE "refund"]
      BY <2>2, Zenon
    <3>2. PICK at \in {"finalize", "refund"} : worker' = [worker EXCEPT ![w].at = at]
      BY <3>1, Zenon
    <3>3. task' \in [Task -> TaskRow] /\ Forward /\ task'[t].status = outcome
      BY <1>1, <2>1, <3>1, StatusWritten, Zenon
    <3>4. GenTypes'
      BY <1>1, <1>2, <1>4, <3>2, <3>3, Zenon DEF GenTypes, FinishTask
    <3>5. worker'[w].task = t
      BY <1>1, <3>2, Zenon DEF GenTypes, WorkerState
    <3>6. TaskEnded(worker[w].task)'
      BY <3>3, <3>5 DEF TaskEnded
    <3> QED
      BY <2>1, <3>2, <3>3, <3>4, <3>6, WorkerMoves, Zenon
  <2>3. CASE worker' = [worker EXCEPT ![w].at = "leave"] /\ task' = task
    <3>1. GenTypes'
      BY <1>1, <1>2, <1>4, <2>3, Zenon DEF GenTypes, FinishTask
    <3>2. PICK at \in {"leave"} : worker' = [worker EXCEPT ![w].at = at]
      BY <2>3
    <3> QED
      BY <2>1, <2>3, <3>1, <3>2, RowsStay, WorkerMoves, Zenon
  <2> QED
    BY <1>4, <2>2, <2>3, Zenon DEF FinishTask
<1>5. CASE FinalizeTask(w)
  <2>1. worker' = [worker EXCEPT ![w].at = "leave"] /\ task' = task /\ worker[w].at # "idle"
    BY <1>5, Zenon DEF FinalizeTask
  <2>2. GenTypes'
    BY <1>1, <1>2, <1>5, <2>1, Zenon DEF GenTypes, FinalizeTask
  <2>3. PICK at \in {"leave"} : worker' = [worker EXCEPT ![w].at = at]
    BY <2>1
  <2> QED
    BY <2>1, <2>2, <2>3, RowsStay, WorkerMoves, Zenon
<1>6. CASE RefundFailed(w)
  <2>1. worker' = [worker EXCEPT ![w].at = "leave"] /\ worker[w].at # "idle" /\ RefundTask(t)
    BY <1>6, Zenon DEF RefundFailed
  <2>2. task' \in [Task -> TaskRow] /\ Forward
    BY <1>1, <2>1, BusyTask, RefundWritten, Zenon
  <2>3. GenTypes'
    BY <1>1, <1>2, <1>6, <2>1, <2>2, Zenon DEF GenTypes, RefundFailed
  <2>4. PICK at \in {"leave"} : worker' = [worker EXCEPT ![w].at = at]
    BY <2>1, Zenon
  <2> QED
    BY <2>1, <2>2, <2>3, <2>4, WorkerMoves, Zenon
<1>7. CASE UnregisterCancel(w)
  <2>1. worker' = [worker EXCEPT ![w] = Idle] /\ task' = task
    BY <1>7 DEF UnregisterCancel
  <2>2. Idle \in WorkerState /\ Idle.at = "idle" /\ Idle.task = NoTask
    BY DEF Idle, WorkerState
  <2>3. worker' \in [Worker -> WorkerState] /\ worker'[w] = Idle
        /\ \A v \in Worker \ {w} : worker'[v] = worker[v]
    BY <1>1, <2>1, <2>2, Zenon DEF GenTypes
  <2>4. GenTypes'
    BY <1>1, <1>7, <2>3, Zenon DEF GenTypes, UnregisterCancel
  <2>5. WorkersOwn'
    BY <2>1, <2>2, <2>3, Zenon DEF GenInv, WorkersOwn, TaskEnded
  <2>6. OneRunner'
    BY <2>2, <2>3 DEF GenInv, OneRunner
  <2> QED
    BY <2>1, <2>4, <2>5, <2>6, RowsStay DEF GenInv
<1> QED
  BY <1>3, <1>4, <1>5, <1>6, <1>7, StartSound, Zenon DEF WorkerStep

(***************************************************************************)
(* PageType.  A page of the recovery pass is a sequence of tasks.          *)
(***************************************************************************)
LEMMA PageType ==
  ASSUME NEW S, S \subseteq Task, NEW page \in Pages(S)
  PROVE  page \in Seq(Task)
<1>1. Cardinality(S) \in Nat
  BY LedgerAssumption, FS_Subset, FS_CardinalityType DEF Task
<1>2. page \in [1..Cardinality(S) -> S]
  BY DEF Pages, Bijection, Injection, Surjection
<1>3. page \in [1..Cardinality(S) -> Task]
  BY <1>2
<1> QED
  BY <1>1, <1>3

(***************************************************************************)
(* RecoverySound.  A step of the recovery pass keeps the invariant.        *)
(***************************************************************************)
LEMMA RecoverySound ==
  ASSUME GenInv, RecoveryStep
  PROVE  GenInv' /\ Forward
<1>1. GenTypes
  BY DEF GenInv
<1>2. worker' = worker /\ UNCHANGED <<mutex, submit, cancel, crashes>>
  BY DEF RecoveryStep, ScanPending, RecoverTask, FindExpired, MarkExpired, RefundExpired, EndRecovery
<1>3. ASSUME recovery' \in RecoveryState, queue' \in Seq(Task), task' = task
      PROVE  GenInv' /\ Forward
  <2>1. GenTypes'
    BY <1>1, <1>2, <1>3 DEF GenTypes
  <2> QED
    BY <1>2, <1>3, <2>1, RowsStay, WorkersGoOn, Zenon
<1>4. ASSUME NEW ages
      PROVE  PendingTasks(ages) \subseteq Task
  BY DEF PendingTasks
<1>5. NoRecovery \in RecoveryState
  BY DEF NoRecovery, RecoveryState
<1>6. CASE ScanPending
  <2>1. ASSUME NEW page \in Pages(PendingTasks(0..(RecoverAge - 1))), recovery' = [at |-> "load", tasks |-> page]
        PROVE  recovery' \in RecoveryState
    <3>1. page \in Seq(Task)
      BY <1>4, PageType, Zenon
    <3> QED
      BY <2>1, <3>1 DEF RecoveryState
  <2>2. recovery' \in RecoveryState
    BY <1>5, <1>6, <2>1, Zenon DEF ScanPending
  <2> QED
    BY <1>1, <1>3, <1>6, <2>2, Zenon DEF ScanPending, GenTypes
<1>7. CASE RecoverTask
  <2>1. recovery.tasks \in Seq(Task) /\ recovery.tasks # <<>> /\ queue \in Seq(Task)
    BY <1>1, <1>7 DEF GenTypes, RecoveryState, RecoverTask
  <2>2. Tail(recovery.tasks) \in Seq(Task) /\ Head(recovery.tasks) \in Task
    BY <2>1
  <2>3. queue' \in Seq(Task)
    BY <1>7, <2>1, <2>2 DEF RecoverTask
  <2>4. recovery' \in RecoveryState
    BY <1>1, <1>7, <2>2, Zenon DEF RecoverTask, GenTypes, RecoveryState
  <2> QED
    BY <1>3, <1>7, <2>3, <2>4, Zenon DEF RecoverTask
<1>8. CASE FindExpired
  <2>1. PICK page \in Pages(PendingTasks(Old)) \cup {<<>>} : recovery' = [at |-> "mark", tasks |-> page]
    BY <1>8 DEF FindExpired
  <2>2. page \in Seq(Task)
    <3>1. CASE page \in Pages(PendingTasks(Old))
      BY <1>4, <3>1, PageType
    <3>2. CASE page = <<>>
      BY <3>2
    <3> QED
      BY <2>1, <3>1, <3>2
  <2>3. recovery' \in RecoveryState
    BY <2>1, <2>2 DEF RecoveryState
  <2> QED
    BY <1>1, <1>3, <1>8, <2>3, Zenon DEF FindExpired, GenTypes
<1>9. CASE MarkExpired
  <2> DEFINE S == IF task' = task THEN {} ELSE PendingTasks(Old)
  <2>1. \A t \in S : t \in Task /\ task[t].status = "pending"
    BY DEF PendingTasks
  <2>2. task' = [t \in Task |-> IF t \in S THEN [task[t] EXCEPT !.status = "failed"] ELSE task[t]]
    <3>1. CASE task' = task
      BY <1>1, <3>1 DEF GenTypes
    <3>2. CASE task' # task
      BY <1>9, <3>2 DEF MarkExpired
    <3> QED
      BY <3>1, <3>2
  <2>3. recovery' \in RecoveryState
    <3>1. [recovery EXCEPT !.at = "refund"] \in RecoveryState
      BY <1>1, Zenon DEF GenTypes, RecoveryState
    <3> QED
      BY <1>5, <1>9, <3>1 DEF MarkExpired
  <2> HIDE DEF S
  <2>4. ASSUME NEW t \in Task
        PROVE  /\ task'[t] \in TaskRow
               /\ task[t].status \notin Waiting => task'[t].status \notin Waiting
               /\ TaskEnded(t) => TaskEnded(t)'
               /\ task[t].status # "absent" => task'[t].status # "absent" /\ task'[t].abortable = task[t].abortable
    <3>1. task[t] \in TaskRow
      BY <1>1 DEF GenTypes
    <3>2. CASE t \in S
      <4>1. task'[t] = [task[t] EXCEPT !.status = "failed"]
        BY <2>2, <3>2
      <4>2. task'[t] \in TaskRow /\ task'[t].status = "failed" /\ task'[t].abortable = task[t].abortable
        BY <3>1, <4>1 DEF TaskRow
      <4> QED
        BY <4>2 DEF TaskEnded, Waiting
    <3>3. CASE t \notin S
      BY <2>2, <3>1, <3>3 DEF TaskEnded
    <3> QED
      BY <3>2, <3>3
  <2>5. task' \in [Task -> TaskRow]
    <3>1. task' = [t \in Task |-> task'[t]]
      BY <2>2
    <3>2. \A t \in Task : task'[t] \in TaskRow
      BY <2>4
    <3> QED
      BY ONLY <3>1, <3>2
  <2>6. Forward
    BY <2>4 DEF Forward
  <2>7. GenTypes'
    BY <1>1, <1>2, <1>9, <2>3, <2>5, Zenon DEF GenTypes, MarkExpired
  <2> QED
    BY <1>2, <2>6, <2>7, WorkersGoOn, Zenon
<1>10. CASE RefundExpired
  <2>1. recovery.tasks \in Seq(Task) /\ recovery.tasks # <<>>
    BY <1>1, <1>10 DEF GenTypes, RecoveryState, RefundExpired
  <2>2. Tail(recovery.tasks) \in Seq(Task) /\ Head(recovery.tasks) \in Task
    BY <2>1
  <2>3. recovery' \in RecoveryState
    BY <1>1, <1>10, <2>2, Zenon DEF RefundExpired, GenTypes, RecoveryState
  <2>4. task' \in [Task -> TaskRow] /\ Forward
    BY <1>1, <1>10, <2>2, RefundWritten, Zenon DEF RefundExpired
  <2>5. GenTypes'
    BY <1>1, <1>2, <1>10, <2>3, <2>4, Zenon DEF GenTypes, RefundExpired
  <2> QED
    BY <1>2, <2>4, <2>5, WorkersGoOn, Zenon
<1>11. CASE EndRecovery
  BY <1>1, <1>3, <1>5, <1>11, Zenon DEF EndRecovery, GenTypes
<1> QED
  BY <1>6, <1>7, <1>8, <1>9, <1>10, <1>11, Zenon DEF RecoveryStep

(***************************************************************************)
(* RestartSound.  A new process starts with idle workers.                  *)
(***************************************************************************)
LEMMA RestartSound ==
  ASSUME GenInv, CrashAndRestart
  PROVE  GenInv' /\ Forward
<1>1. GenTypes
  BY DEF GenInv
<1>2. \A w \in Worker : worker'[w].at = "idle" /\ worker'[w].task = NoTask
  BY DEF CrashAndRestart, Idle
<1>3. worker' \in [Worker -> WorkerState]
  BY DEF CrashAndRestart, Idle, WorkerState
<1>4. recovery' \in RecoveryState
  <2>1. recovery' = [at |-> "scan", tasks |-> <<>>]
    BY DEF CrashAndRestart, NoRecovery
  <2> QED
    BY <2>1 DEF RecoveryState
<1>5. submit' \in [Task -> SubmitState] /\ cancel' \in [Task -> CancelState]
  BY DEF CrashAndRestart, SubmitState, CancelState, LeftBehind
<1>6. crashes' \in Nat /\ queue' \in Seq(Task) /\ mutex' \in Task \cup {NoTask} /\ task' = task
  BY <1>1 DEF GenTypes, CrashAndRestart
<1>7. GenTypes'
  BY <1>1, <1>3, <1>4, <1>5, <1>6, Zenon DEF GenTypes
<1>8. WorkersOwn' /\ OneRunner'
  BY <1>2 DEF WorkersOwn, OneRunner
<1> QED
  BY <1>6, <1>7, <1>8, RowsStay DEF GenInv

(***************************************************************************)
(* AgeSound.  A pending task ages, and keeps its status.                   *)
(***************************************************************************)
LEMMA AgeSound ==
  ASSUME GenInv, GenTick
  PROVE  /\ GenInv' /\ Forward
         /\ \A t \in Task : task'[t].status = task[t].status /\ task'[t].refunded = task[t].refunded
<1>1. GenTypes
  BY DEF GenInv
<1>2. ASSUME NEW t \in Task
      PROVE  /\ task'[t] \in TaskRow
             /\ task'[t].status = task[t].status
             /\ task'[t].refunded = task[t].refunded
             /\ task'[t].abortable = task[t].abortable
  <2> DEFINE age == IF task[t].status = "pending" THEN Min({task[t].age + 1, ExpireAge}) ELSE task[t].age
  <2>1. task[t] \in TaskRow /\ task[t].age \in Nat
    BY <1>1 DEF GenTypes, TaskRow
  <2>2. task[t].age + 1 \in Int /\ ExpireAge \in Int /\ ExpireAge \in Nat
    BY <2>1, GenerationAssumption
  <2>3. Min({task[t].age + 1, ExpireAge}) \in {task[t].age + 1, ExpireAge}
    BY <2>2, MinOfTwo, Zenon
  <2>4. age \in Nat
    BY <2>1, <2>2, <2>3
  <2>5. task'[t] = [task[t] EXCEPT !.age = age]
    BY DEF GenTick
  <2> HIDE DEF age
  <2> QED
    BY <2>1, <2>4, <2>5, Zenon DEF TaskRow
<1>3. task' \in [Task -> TaskRow]
  <2>1. task' = [t \in Task |-> task'[t]]
    BY DEF GenTick
  <2>2. \A t \in Task : task'[t] \in TaskRow
    BY <1>2
  <2> QED
    BY ONLY <2>1, <2>2
<1>4. Forward
  BY <1>2 DEF Forward, TaskEnded
<1>5. GenTypes' /\ worker' = worker
  BY <1>1, <1>3, Zenon DEF GenTypes, GenTick, process
<1> QED
  BY <1>2, <1>4, <1>5, WorkersGoOn, Zenon

(***************************************************************************)
(* GenStep.  Every step keeps the invariant and takes no row back.         *)
(***************************************************************************)
LEMMA GenStep ==
  ASSUME GenInv, [GenNext]_genVars
  PROVE  GenInv' /\ Forward
<1>1. ASSUME UNCHANGED <<task, process, crashes>>
      PROVE  GenInv' /\ Forward
  <2>1. GenTypes' /\ worker' = worker
    BY <1>1 DEF GenInv, GenTypes, process
  <2> QED
    BY <1>1, <2>1, RowsStay, WorkersGoOn, Zenon
<1>2. CASE \E t \in Task : Submit(t) \/ SubmitStep(t) \/ CancelStep(t)
  BY <1>2, SubmitSound, CancelSound
<1>3. CASE \E w \in Worker : WorkerStep(w)
  BY <1>3, WorkerSound
<1>4. CASE ScanForSweep \/ SweepReservation \/ RevokeOrder \/ UNCHANGED genVars
  BY <1>1, <1>4 DEF ScanForSweep, SweepReservation, RevokeOrder, genVars
<1> QED
  BY <1>2, <1>3, <1>4, RecoverySound, RestartSound, AgeSound, Zenon DEF GenNext

(***************************************************************************)
(* GenInvariant.  The invariant of the tasks, the queue and its workers.   *)
(***************************************************************************)
THEOREM GenInvariant == GenSpec => []GenInv
<1>1. GenInit => GenInv
  BY NothingRuns
<1>2. GenInv /\ [GenNext]_genVars => GenInv'
  BY GenStep
<1> QED
  BY <1>1, <1>2, PTL DEF GenSpec

(***************************************************************************)
(* NeverTwoRunners.  OneRunner, for every number of tasks and workers and  *)
(* every queue size: although the recovery pass and a submit handler can   *)
(* both put a task in the channel, no two workers ever have it.            *)
(***************************************************************************)
THEOREM NeverTwoRunners == GenSpec => []OneRunner
<1>1. GenInv => OneRunner
  BY DEF GenInv
<1> QED
  BY <1>1, GenInvariant, PTL

-----------------------------------------------------------------------------
(***************************************************************************)
(* RefundCalls.  The refund of a failed task is one Release, or nothing.   *)
(***************************************************************************)
LEMMA RefundCalls ==
  ASSUME NEW t \in Task, RefundTask(t), UNCHANGED sweep
  PROVE  [LedgerNext]_ledgerVars
BY Zenon DEF RefundTask, LedgerNext, CallerStep, ledgerVars, ledger, Task

(***************************************************************************)
(* LedgerMove.  What a step of the task queue does to the ledger is a step *)
(* of the ledger under arbitrary callers.                                  *)
(***************************************************************************)
LEMMA LedgerMove ==
  ASSUME GenInv, LedgerInv, [GenNext]_genVars
  PROVE  [LedgerNext]_ledgerVars
<1>1. ASSUME NEW t \in Task, Submit(t) PROVE [LedgerNext]_ledgerVars
  <2>1. Cost[t] \in Nat /\ ReservationTTL \in Nat
    BY GenerationAssumption, LedgerAssumption
  <2>2. \E inProject \in BOOLEAN : Reserve(t, Cost[t], inProject, ReservationTTL)
    <3>1. Reserve(t, Cost[t], t \in FromProject, ReservationTTL)
      BY <1>1, Zenon DEF Submit
    <3> WITNESS (t \in FromProject) \in BOOLEAN
    <3> QED
      BY <3>1
  <2>3. UNCHANGED sweep
    BY <1>1 DEF Submit
  <2>4. CallerStep(t)
    BY <2>1, <2>2, <2>3 DEF CallerStep
  <2> QED
    BY <2>4 DEF LedgerNext, Task
<1>2. ASSUME NEW t \in Task, SubmitStep(t) PROVE [LedgerNext]_ledgerVars
  <2>1. CASE UNCHANGED ledgerVars
    BY <2>1
  <2>2. CASE ReleaseRejected(t)
    BY <2>2, Zenon DEF ReleaseRejected, LedgerNext, CallerStep, ledgerVars, ledger, Task
  <2> QED
    BY <1>2, <2>1, <2>2 DEF SubmitStep, CheckRoom, Send, FailRejected
<1>3. ASSUME NEW t \in Task, CancelStep(t) PROVE [LedgerNext]_ledgerVars
  BY <1>3, Zenon
  DEF CancelStep, ReadForCancel, CancelTask, CancelActiveTask, LedgerNext, CallerStep, ledgerVars, ledger, Task
<1>4. ASSUME NEW w \in Worker, WorkerStep(w) PROVE [LedgerNext]_ledgerVars
  <2>1. CASE UNCHANGED ledgerVars
    BY <2>1
  <2>2. CASE FinalizeTask(w)
    <3> DEFINE t == worker[w].task
    <3>1. t \in Task
      BY <2>2, BusyTask DEF FinalizeTask
    <3>2. resv[t].reserved \in Nat
      BY <3>1 DEF LedgerInv, Row, Task
    <3>3. Finalize(t, resv[t].reserved, FALSE, TRUE) \/ UNCHANGED ledger
      BY <2>2, Zenon DEF FinalizeTask
    <3>4. UNCHANGED sweep
      BY <2>2 DEF FinalizeTask
    <3> HIDE DEF t
    <3>5. CASE Finalize(t, resv[t].reserved, FALSE, TRUE)
      <4>1. CallerStep(t)
        BY <3>2, <3>4, <3>5, Zenon DEF CallerStep
      <4> QED
        BY <3>1, <4>1 DEF LedgerNext, Task
    <3>6. CASE UNCHANGED ledger
      BY <3>4, <3>6 DEF ledgerVars, ledger
    <3> QED
      BY <3>3, <3>5, <3>6, Zenon
  <2>3. CASE RefundFailed(w)
    <3>1. worker[w].task \in Task /\ RefundTask(worker[w].task) /\ UNCHANGED sweep
      BY <2>3, BusyTask DEF RefundFailed
    <3> QED
      BY <3>1, RefundCalls
  <2> QED
    BY <1>4, <2>1, <2>2, <2>3, Zenon
    DEF WorkerStep, StartTask, RegisterCancel, FinishTask, UnregisterCancel
<1>5. CASE RecoveryStep
  <2>1. CASE UNCHANGED ledgerVars
    BY <2>1
  <2>2. CASE RefundExpired
    <3>1. recovery.tasks \in Seq(Task) /\ recovery.tasks # <<>>
      BY <2>2 DEF GenInv, GenTypes, RecoveryState, RefundExpired
    <3>2. Head(recovery.tasks) \in Task
      BY <3>1
    <3> QED
      BY <2>2, <3>2, RefundCalls DEF RefundExpired
  <2> QED
    BY <1>5, <2>1, <2>2 DEF RecoveryStep, ScanPending, RecoverTask, FindExpired, MarkExpired, EndRecovery
<1>6. CASE CrashAndRestart
  BY <1>6 DEF CrashAndRestart, LedgerNext, LosePage
<1>7. CASE ScanForSweep
  <2>1. ScanReservations({}) /\ {} \in SUBSET Reservation
    BY <1>7 DEF ScanForSweep
  <2> QED
    BY <2>1 DEF LedgerNext
<1>8. CASE SweepReservation
  <2>1. SweepOne(OwnerActive(Head(sweep))) /\ OwnerActive(Head(sweep)) \in BOOLEAN
    BY <1>8 DEF SweepReservation, OwnerActive
  <2> QED
    BY <2>1 DEF LedgerNext
<1>9. CASE RevokeOrder
  BY <1>9, LedgerAssumption DEF RevokeOrder, LedgerNext, Pack
<1>10. CASE GenTick
  BY <1>10 DEF GenTick, LedgerNext
<1>11. CASE UNCHANGED genVars
  BY <1>11 DEF genVars, ledgerVars
<1> QED
  BY <1>1, <1>2, <1>3, <1>4, <1>5, <1>6, <1>7, <1>8, <1>9, <1>10, <1>11, Zenon DEF GenNext

(***************************************************************************)
(* TasksCallTheLedger.  The task queue with its sweeper implements the     *)
(* ledger under arbitrary callers.                                         *)
(***************************************************************************)
THEOREM TasksCallTheLedger == GenSpec => LedgerSpec /\ [](GenInv /\ LedgerInv)
<1>1. GenInit => LedgerInit /\ LedgerInv
  BY EmptyBooks DEF GenInit
<1>2. GenInv /\ LedgerInv /\ [GenNext]_genVars => [LedgerNext]_ledgerVars
  BY LedgerMove
<1>3. GenInv /\ LedgerInv /\ [GenNext]_genVars => LedgerInv'
  BY <1>2, LedgerStep
<1> QED
  BY <1>1, <1>2, <1>3, GenInvariant, PTL DEF GenSpec, LedgerSpec

(***************************************************************************)
(* TaskBooksBalance.  No generation task's Credits are charged twice,      *)
(* refunded twice or lost, however submission, cancel, workers, recovery,  *)
(* sweeper, order refunds and crashes interleave.                          *)
(***************************************************************************)
THEOREM TaskBooksBalance == GenSpec => []BooksBalance
BY TasksCallTheLedger, BooksAlwaysBalance, PTL

(***************************************************************************)
(* TaskDecisionsStand.  No part of the task queue revises the settlement   *)
(* another part of it has decided on.                                      *)
(***************************************************************************)
THEOREM TaskDecisionsStand == GenSpec => DecisionsStand
BY TasksCallTheLedger, DecisionsAlwaysStand, PTL

-----------------------------------------------------------------------------
(***************************************************************************)
(* RefundStays.  A refund that is made or queued is not taken back.        *)
(***************************************************************************)
LEMMA RefundStays ==
  ASSUME NEW r, KeepsDecision(r), Refunding(r)
  PROVE  Refunding(r)'
BY DEF KeepsDecision, Refunding, Terminal

(***************************************************************************)
(* ReleaseRefunds.  A Release that is accepted has released the row, or    *)
(* has queued its release, and has changed no other row.                   *)
(***************************************************************************)
LEMMA ReleaseRefunds ==
  ASSUME LedgerInv, NEW r \in Reservation, NEW hold \in BOOLEAN, Release(r, hold)
  PROVE  /\ Refunding(r)'
         /\ \A s \in Reservation \ {r} : resv'[s] = resv[s]
<1> DEFINE row == resv[r]
<1>1. "released" \in Terminal /\ 0 <= row.reserved
  BY DEF LedgerInv, Terminal, Row
<1>2. Settle(r, "released", 0) /\ ReleaseAccepts(row, hold)
  BY DEF Release
<1>3. /\ \A s \in Reservation \ {r} : resv'[s] = resv[s]
      /\ row.status \in {"reserved", "review_hold"} => Decided(resv'[r], "released", 0)
      /\ row.status = "refund_pending" => Decided(resv'[r], row.target, row.targetUsed)
      /\ row.status \notin Live => resv' = resv
  BY <1>1, <1>2, SettleDecides, Zenon
<1>4. CASE row.status = "released"
  BY <1>3, <1>4, Zenon DEF Refunding, Live
<1>5. CASE row.status # "released"
  <2>1. Decided(resv'[r], "released", 0)
    BY <1>2, <1>3, <1>5, Zenon DEF ReleaseAccepts, IntentMatches
  <2> QED
    BY <1>3, <2>1, Zenon DEF Refunding, Decided, IntentMatches
<1> QED
  BY <1>4, <1>5

(***************************************************************************)
(* MarksAreReal.  A step that marks a task refunded, or cancels it, has    *)
(* released the task's Credits or queued their release.                    *)
(***************************************************************************)
LEMMA MarksAreReal ==
  ASSUME GenInv, LedgerInv, [GenNext]_genVars, NEW t \in Task,
         task'[t].refunded \/ task'[t].status = "cancelled"
  PROVE  task[t].refunded \/ task[t].status = "cancelled" \/ Refunding(t)'
<1>1. task \in [Task -> TaskRow] /\ \A s \in Task : task[s] \in TaskRow
  BY DEF GenInv, GenTypes
<1>2. CASE task' = task
  BY <1>2
<1>3. ASSUME NEW s \in Task, NEW status, status # "cancelled", task' = [task EXCEPT ![s].status = status]
      PROVE  task[t].refunded \/ task[t].status = "cancelled"
  <2>1. task'[t].refunded = task[t].refunded /\ (t # s => task'[t].status = task[t].status)
    BY <1>1, <1>3 DEF TaskRow
  <2>2. t = s => task'[t].status = status
    BY <1>1, <1>3 DEF TaskRow
  <2> QED
    BY <1>3, <2>1, <2>2
<1>4. ASSUME NEW s \in Task, RefundTask(s) PROVE task[t].refunded \/ task[t].status = "cancelled" \/ Refunding(t)'
  <2>1. CASE task' = task
    BY <2>1, Zenon
  <2>2. CASE Release(s, FALSE) /\ task' = [task EXCEPT ![s].refunded = TRUE]
    <3>1. Refunding(s)'
      BY <2>2, ReleaseRefunds, Zenon DEF Task
    <3>2. t # s => task'[t] = task[t]
      BY <1>1, <2>2
    <3> QED
      BY <3>1, <3>2
  <2> QED
    BY <1>4, <2>1, <2>2, Zenon DEF RefundTask
<1>5. ASSUME NEW s \in Task, Submit(s) \/ SubmitStep(s)
      PROVE  task[t].refunded \/ task[t].status = "cancelled"
  <2>1. CASE Submit(s)
    <3>1. PICK a : task' = [task EXCEPT ![s].status = "pending", ![s].abortable = a]
      BY <2>1, Zenon DEF Submit
    <3>2. t # s => task'[t] = task[t]
      BY <1>1, <3>1
    <3>3. t = s => task'[t].refunded = task[t].refunded /\ task'[t].status = "pending"
      BY <1>1, <3>1 DEF TaskRow
    <3> QED
      BY <3>2, <3>3
  <2>2. CASE SubmitStep(s)
    <3>1. \/ task' = task
          \/ \E status \in {"failed"} : task' = [task EXCEPT ![s].status = status]
      BY <2>2, Zenon DEF SubmitStep, CheckRoom, Send, ReleaseRejected, FailRejected
    <3> QED
      BY <1>3, <3>1
  <2> QED
    BY <1>5, <2>1, <2>2
<1>6. ASSUME NEW s \in Task, CancelStep(s)
      PROVE  task[t].refunded \/ task[t].status = "cancelled" \/ Refunding(t)'
  <2>1. \/ task' = task
        \/ Release(s, FALSE) /\ \E row : task' = [task EXCEPT ![s] = row]
    <3>1. CASE task' = task
      BY <3>1
    <3>2. CASE Release(s, FALSE) /\ task' = [task EXCEPT ![s].status = "cancelled", ![s].refunded = TRUE]
      <4>1. task' = [task EXCEPT ![s] = [task[s] EXCEPT !.status = "cancelled", !.refunded = TRUE]]
        BY <1>1, <3>2, Zenon
      <4> QED
        BY <3>2, <4>1, Zenon
    <3> QED
      BY <1>6, <3>1, <3>2, Zenon DEF CancelStep, ReadForCancel, CancelTask, CancelActiveTask
  <2>2. CASE Release(s, FALSE) /\ \E row : task' = [task EXCEPT ![s] = row]
    <3>1. PICK row : task' = [task EXCEPT ![s] = row]
      BY <2>2, Zenon
    <3>2. Refunding(s)'
      BY <2>2, ReleaseRefunds, Zenon DEF Task
    <3>3. t # s => task'[t] = task[t]
      BY <1>1, <3>1
    <3> QED
      BY <3>2, <3>3
  <2> QED
    BY <2>1, <2>2, Zenon
<1>7. ASSUME NEW w \in Worker, WorkerStep(w)
      PROVE  task[t].refunded \/ task[t].status = "cancelled" \/ Refunding(t)'
  <2>1. CASE StartTask(w)
    <3>1. Head(queue) \in Task
      BY <2>1 DEF StartTask, GenInv, GenTypes
    <3>2. \/ task' = task
          \/ \E status \in {"processing"} : task' = [task EXCEPT ![Head(queue)].status = status]
      BY <2>1 DEF StartTask
    <3> QED
      BY <1>3, <3>1, <3>2, Zenon
  <2>2. CASE FinishTask(w)
    <3>1. worker[w].task \in Task
      BY <2>2, BusyTask DEF FinishTask
    <3>2. \/ task' = task
          \/ \E status \in {"completed", "failed"} : task' = [task EXCEPT ![worker[w].task].status = status]
      BY <2>2, Zenon DEF FinishTask
    <3> QED
      BY <1>3, <3>1, <3>2, Zenon
  <2>3. CASE RefundFailed(w)
    BY <1>4, <2>3, BusyTask, Zenon DEF RefundFailed
  <2>4. CASE task' = task
    BY <2>4
  <2> QED
    BY <1>7, <2>1, <2>2, <2>3, <2>4, Zenon DEF WorkerStep, RegisterCancel, FinalizeTask, UnregisterCancel
<1>8. CASE RecoveryStep
  <2>1. CASE RefundExpired
    <3>1. recovery.tasks \in Seq(Task) /\ recovery.tasks # <<>>
      BY <2>1 DEF GenInv, GenTypes, RecoveryState, RefundExpired
    <3>2. Head(recovery.tasks) \in Task
      BY <3>1
    <3> QED
      BY <1>4, <2>1, <3>2 DEF RefundExpired
  <2>2. CASE MarkExpired
    <3>1. task'[t] = task[t] \/ task'[t] = [task[t] EXCEPT !.status = "failed"]
      BY <2>2 DEF MarkExpired
    <3> QED
      BY <1>1, <3>1 DEF TaskRow
  <2>3. CASE task' = task
    BY <2>3
  <2> QED
    BY <1>8, <2>1, <2>2, <2>3, Zenon DEF RecoveryStep, ScanPending, RecoverTask, FindExpired, EndRecovery
<1>9. CASE GenTick
  BY <1>9, AgeSound
<1>10. CASE CrashAndRestart \/ ScanForSweep \/ SweepReservation \/ RevokeOrder \/ UNCHANGED genVars
  BY <1>10, <1>2 DEF CrashAndRestart, ScanForSweep, SweepReservation, RevokeOrder, genVars
<1> QED
  BY <1>5, <1>6, <1>7, <1>8, <1>9, <1>10, Zenon DEF GenNext

(***************************************************************************)
(* RefundsAreAlwaysReal.  A task that says refunded or cancelled is never  *)
(* charged: its release is done, or queued and never overtaken by another  *)
(* settlement.                                                             *)
(***************************************************************************)
THEOREM RefundsAreAlwaysReal == GenSpec => []RefundsAreReal
<1>1. GenInit => RefundsAreReal
  BY DEF GenInit, NewTask, RefundsAreReal
<1>2. ASSUME GenInv, LedgerInv, RefundsAreReal, [GenNext]_genVars PROVE RefundsAreReal'
  <2> SUFFICES ASSUME NEW t \in Task, task'[t].refunded \/ task'[t].status = "cancelled"
               PROVE  Refunding(t)'
    BY DEF RefundsAreReal, Refunding
  <2>1. \A r \in Reservation : KeepsDecision(r)
    <3>1. [LedgerNext]_ledgerVars
      BY <1>2, LedgerMove, Zenon
    <3> QED
      BY <1>2, <3>1, DecisionsKept, Zenon
  <2>2. CASE Refunding(t)
    BY <2>1, <2>2, RefundStays, Zenon DEF Task
  <2>3. CASE ~Refunding(t)
    <3>1. ~(task[t].refunded \/ task[t].status = "cancelled")
      BY <1>2, <2>3 DEF RefundsAreReal
    <3> QED
      BY <1>2, <3>1, MarksAreReal, Zenon
  <2> QED
    BY <2>2, <2>3, Zenon
<1>3. GenInv /\ LedgerInv /\ RefundsAreReal /\ [GenNext]_genVars => RefundsAreReal'
  BY <1>2
<1> QED
  BY <1>1, <1>3, TasksCallTheLedger, PTL DEF GenSpec

Funded(t) ==
  \/ resv[t].status = "reserved"
  \/ Refunding(t) /\ Rejected(t)

(***************************************************************************)
(* StillFunded.  A funded task stays so if its reservation is not settled, *)
(* and if a rejection is not forgotten.                                    *)
(***************************************************************************)
LEMMA StillFunded ==
  ASSUME NEW t, Funded(t), KeepsDecision(t),
         resv[t].status = "reserved" => resv'[t].status = "reserved",
         Rejected(t) => Rejected(t)'
  PROVE  Funded(t)'
BY RefundStays DEF Funded

(***************************************************************************)
(* SweepLeavesActive.  The sweeper settles no reserved row whose task is   *)
(* active, whatever its page said.                                         *)
(***************************************************************************)
LEMMA SweepLeavesActive ==
  ASSUME LedgerInv, NEW t \in Task, SweepReservation, task[t].status \in Active,
         resv[t].status = "reserved"
  PROVE  resv'[t].status = "reserved"
<1> DEFINE r == Head(sweep)
           row == resv[r]
<1>1. r \in Reservation /\ resv \in [Reservation -> Row] /\ t \in Reservation
  BY DEF LedgerInv, SweepReservation, Task
<1>2. row \in Row /\ RowSound(row) /\ row.reserved \in Nat
  BY <1>1, Zenon DEF LedgerInv, Row
<1>3. SweepOne(OwnerActive(r))
  BY DEF SweepReservation
<1>4. CASE t # r
  <2>1. OwnerActive(r) \in BOOLEAN
    BY DEF OwnerActive
  <2> QED
    BY <1>1, <1>3, <1>4, <2>1, SweepOthers, Zenon
<1>5. CASE t = r
  <2>1. OwnerActive(r) /\ ~RefundDue(row)
    BY <1>5 DEF OwnerActive, RefundDue
  <2>2. resv' = [resv EXCEPT ![r].ttl = TaskExtension] \/ UNCHANGED ledger
    BY <1>3, <2>1 DEF SweepOne
  <2>3. CASE resv' = [resv EXCEPT ![r].ttl = TaskExtension]
    <3>1. resv'[r] = [row EXCEPT !.ttl = TaskExtension]
      BY <1>1, <2>3
    <3> QED
      BY <1>2, <1>5, <3>1 DEF Row
  <2>4. CASE UNCHANGED ledger
    BY <2>4, Zenon DEF ledger
  <2> QED
    BY <2>2, <2>3, <2>4
<1> QED
  BY <1>4, <1>5

(***************************************************************************)
(* FundingStep.  An active task is funded after a step if it was before:   *)
(* only its own rejected submission, or the end of the task, settles it.   *)
(***************************************************************************)
LEMMA FundingStep ==
  ASSUME GenInv, LedgerInv, [GenNext]_genVars, NEW t \in Task, KeepsDecision(t),
         task[t].status \in Active => Funded(t), task'[t].status \in Active
  PROVE  Funded(t)'
<1>1. /\ task \in [Task -> TaskRow] /\ \A s \in Task : task[s] \in TaskRow
      /\ submit \in [Task -> SubmitState]
  BY Zenon DEF GenInv, GenTypes
<1>2. resv \in [Reservation -> Row] /\ t \in Reservation
  BY DEF LedgerInv, Task
<1>3. ASSUME task[t].status \in Active, resv[t].status = "reserved" => resv'[t].status = "reserved",
             Rejected(t) => Rejected(t)'
      PROVE  Funded(t)'
  BY <1>3, StillFunded
<1>0. submit'[t] = submit[t] => (Rejected(t) => Rejected(t)')
  BY DEF Rejected
<1>4. ASSUME NEW s \in Task, Submit(s) PROVE Funded(t)'
  <2>1. PICK a : task' = [task EXCEPT ![s].status = "pending", ![s].abortable = a]
    BY <1>4, Zenon DEF Submit
  <2>2. PICK new, inProject : resv' = [resv EXCEPT ![s] = new] /\ new = NewRow(Cost[s], inProject, ReservationTTL)
    BY <1>4, Zenon DEF Submit, Reserve
  <2>3. CASE s = t
    <3>1. new.status = "reserved"
      BY <2>2, Zenon DEF NewRow, NoRow
    <3> QED
      BY <1>2, <2>2, <2>3, <3>1 DEF Funded
  <2>4. CASE s # t
    <3>1. resv'[t] = resv[t] /\ task'[t] = task[t]
      BY <1>1, <1>2, <2>1, <2>2, <2>4
    <3>2. submit'[t] = submit[t]
      BY <1>1, <1>4, <2>4, Zenon DEF Submit
    <3> QED
      BY <1>0, <1>3, <3>1, <3>2, Zenon
  <2> QED
    BY <2>3, <2>4
<1>5. ASSUME NEW s \in Task, CheckRoom(s) \/ Send(s) \/ ReadForCancel(s) \/ CancelActiveTask(s) PROVE Funded(t)'
  <2>1. UNCHANGED <<resv, task>>
    BY <1>5, Zenon DEF CheckRoom, Send, ReadForCancel, CancelActiveTask, ledgerVars
  <2>2. Rejected(t) => Rejected(t)'
    <3>1. CASE submit'[t] = submit[t]
      BY <1>0, <3>1
    <3>2. CASE submit[t] \in {"created", "sending"}
      BY <3>2 DEF Rejected
    <3> QED
      BY <1>1, <1>5, <3>1, <3>2 DEF CheckRoom, Send, ReadForCancel, CancelActiveTask
  <2> QED
    BY <1>3, <2>1, <2>2, Zenon
<1>6. ASSUME NEW s \in Task, ReleaseRejected(s) PROVE Funded(t)'
  <2>1. task' = task /\ submit'[s] = "fail" /\ (s # t => submit'[t] = submit[t])
    BY <1>1, <1>6 DEF ReleaseRejected
  <2>2. Rejected(t) => Rejected(t)'
    BY <2>1 DEF Rejected
  <2>3. CASE resv' = resv
    BY <1>3, <2>1, <2>2, <2>3, Zenon
  <2>4. CASE Release(s, FALSE)
    <3>1. Refunding(s)' /\ (s # t => resv'[t] = resv[t])
      BY <1>2, <2>4, ReleaseRefunds, Zenon DEF Task
    <3>2. CASE s = t
      BY <2>1, <3>1, <3>2, Zenon DEF Funded, Rejected
    <3>3. CASE s # t
      BY <1>3, <2>1, <2>2, <3>1, <3>3, Zenon
    <3> QED
      BY <3>2, <3>3
  <2> QED
    BY <1>6, <2>3, <2>4, Zenon DEF ReleaseRejected, ledger
<1>7. ASSUME NEW s \in Task, FailRejected(s) PROVE Funded(t)'
  <2>1. resv' = resv /\ submit'[s] = "rejected" /\ (s # t => submit'[t] = submit[t])
    BY <1>1, <1>7 DEF FailRejected, ledgerVars
  <2>2. task'[t] = task[t]
    <3>1. CASE task' = task
      BY <3>1
    <3>2. CASE task' = [task EXCEPT ![s].status = "failed"]
      <4>1. s # t
        BY <1>1, <3>2 DEF TaskRow, Active
      <4> QED
        BY <1>1, <3>2, <4>1
    <3> QED
      BY <1>7, <3>1, <3>2 DEF FailRejected
  <2>3. Rejected(t) => Rejected(t)'
    BY <2>1 DEF Rejected
  <2> QED
    BY <1>3, <2>1, <2>2, <2>3, Zenon
<1>8. ASSUME NEW s \in Task, CancelTask(s) PROVE Funded(t)'
  <2>1. Rejected(t) => Rejected(t)'
    BY <1>8 DEF CancelTask, Rejected
  <2>2. CASE UNCHANGED <<ledger, task>>
    BY <1>3, <2>1, <2>2, Zenon DEF ledger
  <2>3. CASE Release(s, FALSE) /\ task' = [task EXCEPT ![s].status = "cancelled", ![s].refunded = TRUE]
    <3> DEFINE row == [task[s] EXCEPT !.status = "cancelled", !.refunded = TRUE]
    <3>1. task' = [task EXCEPT ![s] = row] /\ row.status = "cancelled"
      BY <1>1, <2>3, Zenon DEF TaskRow
    <3> HIDE DEF row
    <3>2. s # t
      BY <1>1, <3>1 DEF Active
    <3>3. task'[t] = task[t]
      BY <1>1, <3>1, <3>2
    <3>4. resv'[t] = resv[t]
      BY <1>2, <2>3, <3>2, ReleaseRefunds, Zenon DEF Task
    <3> QED
      BY <1>3, <2>1, <3>3, <3>4, Zenon
  <2> QED
    BY <1>8, <2>2, <2>3, Zenon DEF CancelTask
<1>9. ASSUME NEW s \in Task, RefundTask(s), Rejected(t) => Rejected(t)' PROVE Funded(t)'
  <2>1. CASE UNCHANGED <<ledger, task>>
    BY <1>3, <1>9, <2>1, Zenon DEF ledger
  <2>2. CASE MayRefund(s) /\ Release(s, FALSE) /\ task' = [task EXCEPT ![s].refunded = TRUE]
    <3>1. task'[s].status = "failed" /\ (s # t => task'[t] = task[t])
      BY <1>1, <2>2 DEF TaskRow, MayRefund
    <3>2. s # t
      BY <3>1 DEF Active
    <3>3. resv'[t] = resv[t]
      BY <1>2, <2>2, <3>2, ReleaseRefunds, Zenon DEF Task
    <3> QED
      BY <1>3, <1>9, <3>1, <3>2, <3>3
  <2> QED
    BY <1>9, <2>1, <2>2, Zenon DEF RefundTask
<1>10. ASSUME NEW w \in Worker, WorkerStep(w) PROVE Funded(t)'
  <2>1. Rejected(t) => Rejected(t)'
    BY <1>10, Zenon DEF Rejected, WorkerStep, StartTask, RegisterCancel, FinishTask, FinalizeTask, RefundFailed, UnregisterCancel
  <2>2. CASE StartTask(w)
    <3>1. Head(queue) \in Task /\ resv' = resv
      BY <2>2 DEF StartTask, GenInv, GenTypes, ledgerVars
    <3>2. task[t].status \in Active
      <4>1. CASE MayStart(Head(queue)) /\ task' = [task EXCEPT ![Head(queue)].status = "processing"]
        BY <1>1, <3>1, <4>1 DEF MayStart, Active
      <4>2. CASE task' = task
        BY <4>2, Zenon
      <4> QED
        BY <2>2, <4>1, <4>2 DEF StartTask
    <3> QED
      BY <1>3, <2>1, <3>1, <3>2, Zenon
  <2>3. CASE FinishTask(w)
    <3>1. worker[w].task \in Task /\ resv' = resv
      BY <2>3, BusyTask DEF FinishTask, ledgerVars
    <3>2. task[t].status \in Active
      <4>1. CASE MayEnd(worker[w].task)
        BY <1>1, <2>3, <3>1, <4>1, Zenon DEF FinishTask, MayEnd
      <4>2. CASE task' = task
        BY <4>2
      <4> QED
        BY <2>3, <4>1, <4>2, Zenon DEF FinishTask
    <3> QED
      BY <1>3, <2>1, <3>1, <3>2, Zenon
  <2>4. CASE FinalizeTask(w)
    <3> DEFINE s == worker[w].task
    <3>1. s \in Task /\ TaskEnded(s) /\ task' = task
      BY <2>4, BusyTask DEF FinalizeTask, GenInv, WorkersOwn
    <3>2. Finalize(s, resv[s].reserved, FALSE, TRUE) \/ UNCHANGED ledger
      BY <2>4, Zenon DEF FinalizeTask
    <3> HIDE DEF s
    <3>3. s # t
      BY <3>1, Zenon DEF TaskEnded, Active
    <3>4. CASE Finalize(s, resv[s].reserved, FALSE, TRUE)
      <4>1. resv[s].reserved \in Nat /\ "finalized" \in Terminal
        BY <1>2, <3>1, Zenon DEF Row, Terminal, Task
      <4>2. Settle(s, "finalized", resv[s].reserved) /\ resv[s].reserved <= resv[s].reserved
        BY <3>4, <4>1 DEF Finalize
      <4>3. \A r \in Reservation \ {s} : resv'[r] = resv[r]
        BY <3>1, <4>1, <4>2, SettleDecides, Zenon DEF Task
      <4> QED
        BY <1>2, <1>3, <2>1, <3>1, <3>3, <4>3, Zenon
    <3>5. CASE UNCHANGED ledger
      BY <1>3, <2>1, <3>1, <3>5, Zenon DEF ledger
    <3> QED
      BY <3>2, <3>4, <3>5, Zenon
  <2>5. CASE RefundFailed(w)
    BY <1>9, <2>1, <2>5, BusyTask, Zenon DEF RefundFailed
  <2>6. CASE RegisterCancel(w) \/ UnregisterCancel(w)
    BY <1>3, <2>1, <2>6 DEF RegisterCancel, UnregisterCancel, ledgerVars
  <2> QED
    BY <1>10, <2>2, <2>3, <2>4, <2>5, <2>6, Zenon DEF WorkerStep
<1>11. CASE RecoveryStep
  <2>1. Rejected(t) => Rejected(t)'
    BY <1>11, Zenon DEF Rejected, RecoveryStep, ScanPending, RecoverTask, FindExpired, MarkExpired, RefundExpired, EndRecovery
  <2>2. CASE RefundExpired
    <3>1. recovery.tasks \in Seq(Task) /\ recovery.tasks # <<>>
      BY <2>2 DEF GenInv, GenTypes, RecoveryState, RefundExpired
    <3>2. Head(recovery.tasks) \in Task
      BY <3>1
    <3> QED
      BY <1>9, <2>1, <2>2, <3>2, Zenon DEF RefundExpired
  <2>3. CASE MarkExpired
    <3>1. resv' = resv /\ (task'[t] = task[t] \/ task'[t] = [task[t] EXCEPT !.status = "failed"])
      BY <2>3 DEF MarkExpired, ledgerVars
    <3>2. task'[t] = task[t]
      BY <1>1, <3>1, Zenon DEF TaskRow, Active
    <3> QED
      BY <1>3, <2>1, <3>1, <3>2
  <2>4. CASE UNCHANGED <<ledgerVars, task>>
    BY <1>3, <2>1, <2>4, Zenon DEF ledgerVars
  <2> QED
    BY <1>11, <2>2, <2>3, <2>4, Zenon DEF RecoveryStep, ScanPending, RecoverTask, FindExpired, EndRecovery
<1>12. CASE CrashAndRestart
  <2>1. resv' = resv /\ task' = task
    BY <1>12 DEF CrashAndRestart, ledger
  <2>2. Rejected(t) => Rejected(t)'
    BY <1>12 DEF CrashAndRestart, LeftBehind, Rejected
  <2> QED
    BY <1>3, <2>1, <2>2, Zenon
<1>13. CASE SweepReservation
  <2>1. UNCHANGED <<task, submit>>
    BY <1>13 DEF SweepReservation, process
  <2> QED
    BY <1>0, <1>3, <1>13, <2>1, SweepLeavesActive, Zenon
<1>14. CASE ScanForSweep \/ RevokeOrder \/ UNCHANGED genVars
  <2>1. UNCHANGED <<task, submit, resv>>
    BY <1>14, Zenon DEF ScanForSweep, ScanReservations, RevokeOrder, RevokePack, process, ledger, genVars, ledgerVars
  <2> QED
    BY <1>0, <1>3, <2>1
<1>15. CASE GenTick
  <2>1. task'[t].status = task[t].status /\ submit' = submit
    BY <1>15, AgeSound DEF GenTick, process
  <2>2. PICK x, y : resv'[t] = [resv[t] EXCEPT !.ttl = x, !.wait = y]
    BY <1>2, <1>15, TimePasses, Zenon DEF GenTick
  <2>3. resv'[t].status = resv[t].status
    BY <1>2, <2>2 DEF Row
  <2> QED
    BY <1>0, <1>3, <2>1, <2>3
<1> QED
  BY <1>4, <1>5, <1>6, <1>7, <1>8, <1>10, <1>11, <1>12, <1>13, <1>14, <1>15, Zenon
  DEF GenNext, SubmitStep, CancelStep

-----------------------------------------------------------------------------
(***************************************************************************)
(* Why a worker is at work on a task: its row says so; or the submission   *)
(* was rejected; or the task was cancelled and nobody has told the worker. *)
(***************************************************************************)
Unheard == {"untold", "abort", "missed"}

AtWork(w) == worker[w].at \in {"register", "run"}

Explained(t) ==
  \/ task[t].status = "processing"
  \/ Rejected(t)
  \/ task[t].status = "cancelled" /\ cancel[t] \in Unheard

(***************************************************************************)
(* A cancel handler that read "processing" was not refused, and the task's *)
(* provider is still the one it had then.                                  *)
(***************************************************************************)
CancelsAllowed ==
  \A t \in Task :
    cancel[t] # "none" =>
      /\ task[t].status # "absent"
      /\ cancel[t] \in {"processing", "abort", "missed"} => task[t].abortable

WorkInv == CancelsAllowed /\ \A w \in Worker : AtWork(w) => Explained(worker[w].task)

(***************************************************************************)
(* CancelsStayAllowed.  Every step keeps CancelsAllowed.                   *)
(***************************************************************************)
LEMMA CancelsStayAllowed ==
  ASSUME GenInv, [GenNext]_genVars, Forward, CancelsAllowed
  PROVE  CancelsAllowed'
<1> SUFFICES ASSUME NEW t \in Task, cancel'[t] # "none"
             PROVE  /\ task'[t].status # "absent"
                    /\ cancel'[t] \in {"processing", "abort", "missed"} => task'[t].abortable
  BY DEF CancelsAllowed
<1>1. cancel \in [Task -> CancelState]
  BY DEF GenInv, GenTypes
<1>2. CASE cancel'[t] = cancel[t]
  BY <1>2 DEF CancelsAllowed, Forward
<1>3. CASE ReadForCancel(t)
  <2>1. cancel'[t] = task[t].status /\ task[t].status # "absent" /\ (task[t].status = "processing" => task[t].abortable)
    BY <1>1, <1>3 DEF ReadForCancel, Active
  <2>2. task[t].status \in {"pending", "processing"}
    BY <1>3 DEF ReadForCancel, Active
  <2> QED
    BY <2>1, <2>2 DEF Forward
<1>4. CASE CancelTask(t)
  <2>1. cancel[t] \in {"pending", "processing"}
    BY <1>4 DEF CancelTask, Active
  <2>2. \/ cancel' = [cancel EXCEPT ![t] = IF @ = "processing" THEN "abort" ELSE "untold"]
        \/ cancel' = [cancel EXCEPT ![t] = "none"]
    BY <1>4, Zenon DEF CancelTask
  <2>3. cancel'[t] \in {"processing", "abort", "missed"} => cancel[t] = "processing"
    BY <1>1, <2>2
  <2> QED
    BY <2>1, <2>3 DEF CancelsAllowed, Forward
<1>5. CASE CancelActiveTask(t)
  BY <1>5 DEF CancelActiveTask, CancelsAllowed, Forward
<1>6. CASE CrashAndRestart
  BY <1>6 DEF CrashAndRestart
<1>7. ASSUME NEW s \in Task, CancelStep(s), s # t PROVE cancel'[t] = cancel[t]
  <2>1. \E c : cancel' = [cancel EXCEPT ![s] = c]
    BY <1>7, Zenon DEF CancelStep, ReadForCancel, CancelTask, CancelActiveTask
  <2> QED
    BY <1>1, <1>7, <2>1, Zenon
<1>8. ASSUME NEW s \in Task, Submit(s) \/ SubmitStep(s) PROVE cancel' = cancel
  BY <1>8, Zenon DEF SubmitStep, Submit, CheckRoom, Send, ReleaseRejected, FailRejected
<1>9. ASSUME NEW w \in Worker, WorkerStep(w) PROVE cancel' = cancel
  BY <1>9, Zenon DEF WorkerStep, StartTask, RegisterCancel, FinishTask, FinalizeTask, RefundFailed, UnregisterCancel
<1>10. CASE RecoveryStep
  <2>1. cancel' = cancel
    BY <1>10, Zenon DEF RecoveryStep, ScanPending, RecoverTask, FindExpired, MarkExpired, RefundExpired, EndRecovery
  <2> QED
    BY <1>2, <2>1, Zenon
<1>11. CASE ScanForSweep \/ SweepReservation \/ RevokeOrder \/ GenTick \/ UNCHANGED genVars
  <2>1. cancel' = cancel
    BY <1>11, Zenon DEF ScanForSweep, SweepReservation, RevokeOrder, GenTick, genVars, process
  <2> QED
    BY <1>2, <2>1, Zenon
<1>12. ASSUME NEW s \in Task, Submit(s) \/ SubmitStep(s) \/ CancelStep(s)
       PROVE  cancel'[t] = cancel[t] \/ ReadForCancel(t) \/ CancelTask(t) \/ CancelActiveTask(t)
  BY <1>7, <1>8, <1>12, Zenon DEF CancelStep
<1> QED
  BY <1>2, <1>3, <1>4, <1>5, <1>6, <1>9, <1>10, <1>11, <1>12, Zenon DEF GenNext

(***************************************************************************)
(* WorkBegins.  A worker is at work because it was, on the same task, or   *)
(* because it has just moved the task's row to processing.                 *)
(***************************************************************************)
LEMMA WorkBegins ==
  ASSUME GenInv, [GenNext]_genVars, NEW w \in Worker, AtWork(w)'
  PROVE  \/ AtWork(w) /\ worker'[w].task = worker[w].task
         \/ Explained(worker[w].task)'
<1>1. worker \in [Worker -> WorkerState] /\ task \in [Task -> TaskRow] /\ queue \in Seq(Task)
  BY DEF GenInv, GenTypes
<1>2. CASE worker'[w] = worker[w]
  BY <1>2 DEF AtWork
<1>3. ASSUME NEW v \in Worker, NEW at, worker' = [worker EXCEPT ![v].at = at],
             worker[v].at = "register" \/ at \notin {"register", "run"}
      PROVE  AtWork(w) /\ worker'[w].task = worker[w].task
  <2>1. worker'[w].task = worker[w].task /\ (w # v => worker'[w] = worker[w]) /\ (w = v => worker'[w].at = at)
    BY <1>1, <1>3 DEF WorkerState
  <2> QED
    BY <1>3, <2>1, Zenon DEF AtWork
<1>4. ASSUME NEW v \in Worker, StartTask(v)
      PROVE  worker'[w] = worker[w] \/ Explained(worker[w].task)'
  <2> DEFINE h == Head(queue)
             new == [at |-> "register", task |-> h]
  <2>1. h \in Task
    BY <1>1, <1>4 DEF StartTask
  <2>2. CASE worker' = worker
    BY <2>2
  <2>3. CASE task' = [task EXCEPT ![h].status = "processing"] /\ worker' = [worker EXCEPT ![v] = new]
    <3>1. task'[h].status = "processing"
      BY <1>1, <2>1, <2>3 DEF TaskRow
    <3>2. w = v => worker'[w].task = h
      BY <1>1, <2>3
    <3>3. w # v => worker'[w] = worker[w]
      BY <1>1, <2>3
    <3> QED
      BY <3>1, <3>2, <3>3 DEF Explained
  <2> QED
    BY <1>4, <2>2, <2>3, Zenon DEF StartTask
<1>5. ASSUME NEW v \in Worker, WorkerStep(v)
      PROVE  \/ AtWork(w) /\ worker'[w].task = worker[w].task
             \/ Explained(worker[w].task)'
  <2>1. CASE StartTask(v)
    BY <1>2, <1>4, <2>1, Zenon
  <2>2. CASE UnregisterCancel(v)
    <3>1. worker' = [worker EXCEPT ![v] = Idle] /\ Idle.at = "idle"
      BY <2>2 DEF UnregisterCancel, Idle
    <3>2. w # v
      BY <1>1, <3>1 DEF AtWork
    <3>3. worker'[w] = worker[w]
      BY <1>1, <3>1, <3>2
    <3> QED
      BY <1>2, <3>3, Zenon
  <2>3. CASE RegisterCancel(v)
    BY <1>3, <2>3, Zenon DEF RegisterCancel
  <2>4. CASE FinishTask(v)
    <3>1. PICK at \in {"finalize", "refund", "leave"} : worker' = [worker EXCEPT ![v].at = at]
      BY <2>4, Zenon DEF FinishTask
    <3>2. at \notin {"register", "run"}
      OBVIOUS
    <3> QED
      BY <1>3, <3>1, <3>2, Zenon
  <2>5. CASE FinalizeTask(v) \/ RefundFailed(v)
    <3>1. PICK at \in {"leave"} : worker' = [worker EXCEPT ![v].at = at]
      BY <2>5, Zenon DEF FinalizeTask, RefundFailed
    <3>2. at \notin {"register", "run"}
      OBVIOUS
    <3> QED
      BY <1>3, <3>1, <3>2, Zenon
  <2> QED
    BY <1>5, <2>1, <2>2, <2>3, <2>4, <2>5, Zenon DEF WorkerStep
<1>6. ASSUME NEW t \in Task, CancelActiveTask(t) PROVE worker'[w] = worker[w]
  <2>1. CASE w \in Registered(t)
    <3>1. worker'[w] = [worker[w] EXCEPT !.at = "leave"] /\ worker[w] \in WorkerState
      BY <1>1, <1>6, <2>1, Zenon DEF CancelActiveTask
    <3>2. worker'[w].at = "leave"
      BY <3>1 DEF WorkerState
    <3> QED
      BY <3>2 DEF AtWork
  <2>2. CASE w \notin Registered(t)
    BY <1>6, <2>2, Zenon DEF CancelActiveTask
  <2> QED
    BY <2>1, <2>2
<1>7. ASSUME NEW t \in Task, Submit(t) \/ SubmitStep(t) \/ CancelStep(t) PROVE worker'[w] = worker[w]
  <2>1. worker' = worker \/ CancelActiveTask(t)
    BY <1>7, Zenon
    DEF SubmitStep, Submit, CheckRoom, Send, ReleaseRejected, FailRejected, CancelStep, ReadForCancel, CancelTask
  <2> QED
    BY <1>6, <2>1, Zenon
<1>8. ~CrashAndRestart
  BY DEF CrashAndRestart, Idle, AtWork
<1>9. CASE RecoveryStep
  <2>1. worker' = worker
    BY <1>9, Zenon DEF RecoveryStep, ScanPending, RecoverTask, FindExpired, MarkExpired, RefundExpired, EndRecovery
  <2> QED
    BY <1>2, <2>1, Zenon
<1>10. CASE ScanForSweep \/ SweepReservation \/ RevokeOrder \/ GenTick \/ UNCHANGED genVars
  <2>1. worker' = worker
    BY <1>10, Zenon DEF ScanForSweep, SweepReservation, RevokeOrder, GenTick, genVars, process
  <2> QED
    BY <1>2, <2>1, Zenon
<1> QED
  BY <1>2, <1>5, <1>7, <1>8, <1>9, <1>10, Zenon DEF GenNext

(***************************************************************************)
(* WorkStaysExplained.  As long as a worker stays at work its work stays   *)
(* explained: a worker that CancelActiveTask finds is the only one with    *)
(* the task, and it leaves.                                                *)
(***************************************************************************)
LEMMA WorkStaysExplained ==
  ASSUME GenInv, [GenNext]_genVars, NEW w \in Worker, AtWork(w), AtWork(w)',
         NEW t \in Task, worker[w].task = t, Explained(t)
  PROVE  Explained(t)'
<1>1. /\ task \in [Task -> TaskRow] /\ submit \in [Task -> SubmitState] /\ cancel \in [Task -> CancelState]
      /\ worker \in [Worker -> WorkerState] /\ queue \in Seq(Task)
  BY DEF GenInv, GenTypes
<1>2. task[t] \in TaskRow /\ task[t].status \notin Waiting /\ t # NoTask
  BY <1>1, GenerationAssumption DEF GenInv, WorkersOwn
<1>3. \A v \in Worker : worker[v].task = t => v = w
  BY <1>2 DEF GenInv, OneRunner
<1>4. ASSUME task'[t].status = task[t].status, Rejected(t) => Rejected(t)',
             cancel[t] \in Unheard => cancel'[t] \in Unheard
      PROVE  Explained(t)'
  BY <1>4 DEF Explained
<1>5. ASSUME task'[t].status = task[t].status, submit'[t] = submit[t], cancel'[t] = cancel[t]
      PROVE  Explained(t)'
  BY <1>5 DEF Explained, Rejected
<1>6. ASSUME NEW s \in Task, Submit(s) PROVE Explained(t)'
  <2>1. PICK a : task' = [task EXCEPT ![s].status = "pending", ![s].abortable = a]
    BY <1>6, Zenon DEF Submit
  <2>2. s # t
    BY <1>2, <1>6, Zenon DEF Submit, Waiting
  <2>3. task'[t] = task[t]
    BY <1>1, <2>1, <2>2
  <2>4. submit'[t] = submit[t] /\ cancel' = cancel
    BY <1>1, <1>6, <2>2, Zenon DEF Submit
  <2> QED
    BY <1>5, <2>3, <2>4
<1>7. ASSUME NEW s \in Task, CheckRoom(s) \/ Send(s) \/ ReleaseRejected(s) PROVE Explained(t)'
  <2>1. task' = task /\ cancel' = cancel
    BY <1>7, Zenon DEF CheckRoom, Send, ReleaseRejected
  <2>2. submit'[t] = submit[t] \/ submit[t] \in {"created", "sending", "release"}
    <3>1. submit[s] \in {"created", "sending", "release"} /\ \E c : submit' = [submit EXCEPT ![s] = c]
      BY <1>7, Zenon DEF CheckRoom, Send, ReleaseRejected
    <3>2. s # t => submit'[t] = submit[t]
      BY <1>1, <3>1, Zenon
    <3> QED
      BY <3>1, <3>2
  <2>3. Rejected(t) => Rejected(t)'
    BY <2>2 DEF Rejected
  <2> QED
    BY <1>4, <2>1, <2>3
<1>8. ASSUME NEW s \in Task, FailRejected(s) PROVE Explained(t)'
  <2>1. cancel' = cancel /\ submit'[s] = "rejected" /\ (s # t => submit'[t] = submit[t])
    BY <1>1, <1>8 DEF FailRejected
  <2>2. CASE s = t
    BY <2>1, <2>2 DEF Explained, Rejected
  <2>3. CASE s # t
    <3>1. task'[t] = task[t]
      BY <1>1, <1>8, <2>3 DEF FailRejected
    <3> QED
      BY <1>5, <2>1, <2>3, <3>1
  <2> QED
    BY <2>2, <2>3
<1>9. ASSUME NEW s \in Task, ReadForCancel(s) PROVE Explained(t)'
  <2>1. task' = task /\ submit' = submit /\ cancel[s] = "none" /\ (s # t => cancel'[t] = cancel[t])
    BY <1>1, <1>9 DEF ReadForCancel
  <2>2. (Rejected(t) => Rejected(t)') /\ (cancel[t] \in Unheard => cancel'[t] \in Unheard)
    BY <2>1 DEF Rejected, Unheard
  <2> QED
    BY <1>4, <2>1, <2>2
<1>10. ASSUME NEW s \in Task, CancelTask(s) PROVE Explained(t)'
  <2>1. submit' = submit /\ cancel[s] \in Active
    BY <1>10, Zenon DEF CancelTask
  <2>2. Rejected(t) => Rejected(t)'
    BY <2>1 DEF Rejected
  <2>3. CASE cancel' = [cancel EXCEPT ![s] = "none"] /\ task' = task
    <3>1. cancel[t] \in Unheard => cancel'[t] \in Unheard
      BY <1>1, <2>1, <2>3 DEF Unheard, Active
    <3> QED
      BY <1>4, <2>2, <2>3, <3>1
  <2>4. CASE /\ task' = [task EXCEPT ![s].status = "cancelled", ![s].refunded = TRUE]
             /\ cancel' = [cancel EXCEPT ![s] = IF @ = "processing" THEN "abort" ELSE "untold"]
    <3>1. CASE s = t
      <4>1. cancel'[t] \in Unheard
        BY <1>1, <2>4, <3>1 DEF Unheard
      <4>2. task'[t] = [task[t] EXCEPT !.status = "cancelled", !.refunded = TRUE]
        BY <1>1, <2>4, <3>1, Zenon
      <4>3. task'[t].status = "cancelled"
        BY <1>2, <4>2, Zenon DEF TaskRow
      <4> QED
        BY <4>1, <4>3 DEF Explained
    <3>2. CASE s # t
      <4>1. task'[t] = task[t] /\ cancel'[t] = cancel[t]
        BY <1>1, <2>4, <3>2, Zenon
      <4> QED
        BY <1>4, <2>2, <4>1
    <3> QED
      BY <3>1, <3>2
  <2> QED
    BY <1>10, <2>3, <2>4, Zenon DEF CancelTask
<1>11. ASSUME NEW s \in Task, CancelActiveTask(s) PROVE Explained(t)'
  <2>1. task' = task /\ submit' = submit
    BY <1>11, Zenon DEF CancelActiveTask
  <2>2. CASE s = t
    <3>1. Registered(t) = {}
      <4> SUFFICES ASSUME NEW v \in Registered(t) PROVE FALSE
        OBVIOUS
      <4>1. v \in Worker /\ worker[v].task = t
        BY DEF Registered
      <4>2. w \in Registered(t)
        BY <1>3, <4>1
      <4>3. worker'[w] = [worker[w] EXCEPT !.at = "leave"] /\ worker[w] \in WorkerState
        BY <1>1, <1>11, <2>2, <4>2, Zenon DEF CancelActiveTask
      <4>4. worker'[w].at = "leave"
        BY <4>3 DEF WorkerState
      <4> QED
        BY <4>4 DEF AtWork
    <3>2. cancel'[t] = "missed"
      BY <1>1, <1>11, <2>2, <3>1 DEF CancelActiveTask
    <3>3. (Rejected(t) => Rejected(t)') /\ cancel'[t] \in Unheard
      BY <2>1, <3>2 DEF Rejected, Unheard
    <3> QED
      BY <1>4, <2>1, <3>3
  <2>3. CASE s # t
    <3>1. cancel'[t] = cancel[t]
      BY <1>1, <1>11, <2>3 DEF CancelActiveTask
    <3> QED
      BY <1>5, <2>1, <3>1
  <2> QED
    BY <2>2, <2>3
<1>12. ASSUME NEW s \in Task, RefundTask(s) PROVE task'[t].status = task[t].status
  <2>1. CASE task' = task
    BY <2>1
  <2>2. CASE task' = [task EXCEPT ![s].refunded = TRUE]
    BY <1>1, <1>2, <2>2 DEF TaskRow
  <2> QED
    BY <1>12, <2>1, <2>2, Zenon DEF RefundTask
<1>13. ASSUME NEW v \in Worker, WorkerStep(v) PROVE Explained(t)'
  <2>1. submit' = submit /\ cancel' = cancel
    BY <1>13, Zenon DEF WorkerStep, StartTask, RegisterCancel, FinishTask, FinalizeTask, RefundFailed, UnregisterCancel
  <2>2. CASE StartTask(v)
    <3> DEFINE h == Head(queue)
    <3>1. h \in Task
      BY <1>1, <2>2 DEF StartTask
    <3>2. task'[t].status = task[t].status
      <4>1. CASE task' = task
        BY <4>1
      <4>2. CASE MayStart(h) /\ task' = [task EXCEPT ![h].status = "processing"]
        <5>1. h # t
          BY <1>2, <4>2, Zenon DEF MayStart, Waiting
        <5> HIDE DEF h
        <5> QED
          BY <1>1, <4>2, <5>1
      <4> QED
        BY <2>2, <4>1, <4>2, Zenon DEF StartTask
    <3> QED
      BY <1>5, <2>1, <3>2
  <2>3. CASE FinishTask(v)
    <3>1. \E at \in {"finalize", "refund", "leave"} : worker' = [worker EXCEPT ![v].at = at]
      BY <2>3, Zenon DEF FinishTask
    <3>2. v # w
      BY <1>1, <3>1 DEF AtWork, WorkerState
    <3>3. worker[v].task # t
      BY <1>3, <3>2
    <3>4. task' = task \/ \E status : task' = [task EXCEPT ![worker[v].task].status = status]
      BY <2>3, Zenon DEF FinishTask
    <3>5. task'[t] = task[t]
      BY <1>1, <3>3, <3>4, Zenon
    <3> QED
      BY <1>5, <2>1, <3>5
  <2>4. CASE RefundFailed(v)
    BY <1>5, <1>12, <2>1, <2>4, BusyTask, Zenon DEF RefundFailed
  <2>5. CASE task' = task
    BY <1>5, <2>1, <2>5, Zenon
  <2> QED
    BY <1>13, <2>2, <2>3, <2>4, <2>5, Zenon DEF WorkerStep, RegisterCancel, FinalizeTask, UnregisterCancel
<1>14. CASE RecoveryStep
  <2>1. submit' = submit /\ cancel' = cancel
    BY <1>14, Zenon DEF RecoveryStep, ScanPending, RecoverTask, FindExpired, MarkExpired, RefundExpired, EndRecovery
  <2>2. CASE RefundExpired
    <3>1. recovery.tasks \in Seq(Task) /\ recovery.tasks # <<>>
      BY <2>2 DEF GenInv, GenTypes, RecoveryState, RefundExpired
    <3>2. Head(recovery.tasks) \in Task
      BY <3>1
    <3> QED
      BY <1>5, <1>12, <2>1, <2>2, <3>2, Zenon DEF RefundExpired
  <2>3. CASE MarkExpired
    <3>1. t \notin PendingTasks(Old)
      BY <1>2 DEF PendingTasks, Waiting
    <3>2. task'[t] = task[t]
      BY <2>3, <3>1 DEF MarkExpired
    <3> QED
      BY <1>5, <2>1, <3>2
  <2>4. CASE task' = task
    BY <1>5, <2>1, <2>4, Zenon
  <2> QED
    BY <1>14, <2>2, <2>3, <2>4, Zenon DEF RecoveryStep, ScanPending, RecoverTask, FindExpired, EndRecovery
<1>15. ~CrashAndRestart
  BY DEF CrashAndRestart, Idle, AtWork
<1>16. CASE GenTick
  <2>1. task'[t].status = task[t].status /\ submit' = submit /\ cancel' = cancel
    BY <1>16, AgeSound DEF GenTick, process
  <2> QED
    BY <1>5, <2>1
<1>17. CASE ScanForSweep \/ SweepReservation \/ RevokeOrder \/ UNCHANGED genVars
  <2>1. UNCHANGED <<task, submit, cancel>>
    BY <1>17, Zenon DEF ScanForSweep, SweepReservation, RevokeOrder, genVars, process
  <2> QED
    BY <1>5, <2>1
<1> QED
  BY <1>6, <1>7, <1>8, <1>9, <1>10, <1>11, <1>13, <1>14, <1>15, <1>16, <1>17, Zenon
  DEF GenNext, SubmitStep, CancelStep

(***************************************************************************)
(* WorkInvariant.  Every worker at work has a reason to be.                *)
(***************************************************************************)
THEOREM WorkInvariant == GenSpec => []WorkInv
<1>1. GenInit => WorkInv
  <2> SUFFICES ASSUME GenInit PROVE WorkInv
    OBVIOUS
  <2>1. \A w \in Worker : ~AtWork(w)
    BY DEF GenInit, Idle, AtWork
  <2>2. CancelsAllowed
    BY DEF GenInit, CancelsAllowed
  <2> QED
    BY <2>1, <2>2, Zenon DEF WorkInv
<1>2. ASSUME GenInv, WorkInv, [GenNext]_genVars PROVE WorkInv'
  <2>1. GenInv' /\ Forward
    BY <1>2, GenStep
  <2>2. CancelsAllowed'
    BY <1>2, <2>1, CancelsStayAllowed DEF WorkInv
  <2>3. ASSUME NEW w \in Worker, AtWork(w)' PROVE Explained(worker[w].task)'
    <3>1. CASE AtWork(w) /\ worker'[w].task = worker[w].task
      <4>1. worker[w].task \in Task
        BY <1>2, <3>1, BusyTask DEF AtWork
      <4>2. PICK t \in Task : t = worker[w].task
        BY <4>1
      <4>3. Explained(t)
        BY <1>2, <3>1, <4>2 DEF WorkInv
      <4>4. Explained(t)'
        BY <1>2, <2>3, <3>1, <4>2, <4>3, WorkStaysExplained, Zenon
      <4>5. t = worker'[w].task
        BY <3>1, <4>2
      <4> QED
        BY <4>4, <4>5, Zenon DEF Explained, Rejected
    <3> QED
      BY <1>2, <2>3, <3>1, WorkBegins, Zenon
  <2> QED
    BY <2>2, <2>3, Zenon DEF WorkInv
<1>3. GenInv /\ WorkInv /\ [GenNext]_genVars => WorkInv'
  BY <1>2
<1> QED
  BY <1>1, <1>3, GenInvariant, PTL DEF GenSpec

(***************************************************************************)
(* FundedWork.  Work on a funded row is funded, and so is, but for the     *)
(* named gaps, all other work.                                             *)
(***************************************************************************)
RowsFunded == \A t \in Task : task[t].status \in Active => Funded(t)

LEMMA FundedWork ==
  ASSUME GenInv, WorkInv, RefundsAreReal, RowsFunded
  PROVE  RunningIsFunded
<1>1. ASSUME NEW w \in Worker, NEW t, t = worker[w].task, worker[w].at \in {"register", "run"}
      PROVE  \/ resv[t].status = "reserved"
             \/ Rejected(t)
             \/ Refunding(t) /\ cancel[t] = "untold"
             \/ Refunding(t) /\ cancel[t] \in {"abort", "missed"} /\ task[t].abortable
  <2>1. t \in Task
    BY <1>1, BusyTask
  <2>2. Explained(t)
    BY <1>1 DEF WorkInv, AtWork
  <2>3. CASE task[t].status = "processing"
    BY <2>1, <2>3 DEF RowsFunded, Funded, Active
  <2>4. CASE Rejected(t)
    BY <2>4
  <2>5. CASE task[t].status = "cancelled" /\ cancel[t] \in Unheard
    <3>1. Refunding(t)
      BY <2>1, <2>5 DEF RefundsAreReal
    <3>2. cancel[t] \in {"abort", "missed"} => task[t].abortable
      BY <2>1 DEF WorkInv, CancelsAllowed
    <3> QED
      BY <2>5, <3>1, <3>2 DEF Unheard
  <2> QED
    BY <2>2, <2>3, <2>4, <2>5, Zenon DEF Explained
<1> QED
  BY <1>1, Zenon DEF RunningIsFunded, RowsFunded, Funded

(***************************************************************************)
(* RunningIsAlwaysFunded.  For every number of tasks, workers and crashes, *)
(* with any write outside a transaction free to fail: the Credits of a row *)
(* that waits or runs stay reserved unless its submission was rejected,    *)
(* and no worker works on for Credits that went back, but in the gaps of   *)
(* the cancel handler that RunningIsFunded names.                          *)
(***************************************************************************)
THEOREM RunningIsAlwaysFunded == GenSpec => []RunningIsFunded
<1>1. GenInit => RowsFunded
  BY DEF GenInit, NewTask, RowsFunded, Active
<1>2. ASSUME GenInv, LedgerInv, RowsFunded, [GenNext]_genVars PROVE RowsFunded'
  <2>1. \A r \in Reservation : KeepsDecision(r)
    <3>1. [LedgerNext]_ledgerVars
      BY <1>2, LedgerMove
    <3> QED
      BY <1>2, <3>1, DecisionsKept
  <2>2. ASSUME NEW t \in Task, task'[t].status \in Active PROVE Funded(t)'
    <3>1. task[t].status \in Active => Funded(t)
      BY <1>2 DEF RowsFunded
    <3> QED
      BY <1>2, <2>1, <2>2, <3>1, FundingStep DEF Task
  <2> QED
    BY <2>2, Zenon DEF RowsFunded
<1>3. GenInv /\ LedgerInv /\ RowsFunded /\ [GenNext]_genVars => RowsFunded'
  BY <1>2
<1>4. GenInv /\ WorkInv /\ RefundsAreReal /\ RowsFunded => RunningIsFunded
  BY FundedWork
<1> QED
  BY <1>1, <1>3, <1>4, TasksCallTheLedger, WorkInvariant, RefundsAreAlwaysReal, PTL DEF GenSpec

=============================================================================
