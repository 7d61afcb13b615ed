--------------------------- MODULE GenerationTask ---------------------------
(***************************************************************************)
(* Generation tasks and the Credits they hold: the submit and cancel       *)
(* handlers (server/api/pro/tools/generator_api.go), the in-process task   *)
(* queue with its workers and its one recovery pass per start              *)
(* (server/service/tools/task_queue.go), and, over the same rows, the      *)
(* reservation ledger and its sweeper.                                     *)
(*                                                                         *)
(* A task's reservation has the task's id as its key, so Task is the       *)
(* ledger's Reservation.  Each database transaction is one action.  What   *)
(* happens between two transactions, or under no lock, is a phase of the   *)
(* handler or worker that is there; a crash forgets every phase, the queue *)
(* and the queue's mutex, and keeps the rows.  A write outside a           *)
(* transaction may fail: the code logs or ignores it and goes on.          *)
(***************************************************************************)
EXTENDS CreditLedger

CONSTANTS
  Worker,        \* worker goroutines
  QueueSize,     \* capacity of the queue's channel
  Cost,          \* Credits each task costs
  FromProject,   \* tasks submitted from a project
  RecoverAge,    \* a pending task younger than this is re-enqueued at start
  ExpireAge,     \* a pending task this old is failed at start
  MaxCrashes,    \* bound on the crashes of a behaviour
  NoTask         \* no task

Task == Reservation

ASSUME GenerationAssumption ==
  /\ QueueSize \in Nat \ {0}
  /\ Cost \in [Task -> Nat \ {0}]
  /\ FromProject \subseteq Task
  /\ RecoverAge \in Nat /\ ExpireAge \in Nat /\ RecoverAge <= ExpireAge
  /\ MaxCrashes \in Nat
  /\ NoTask \notin Task

VARIABLES
  task,      \* w_generation_task rows
  queue,     \* the channel of the running process
  mutex,     \* the submission that holds q.mu, or NoTask
  worker,    \* where each worker is, and with which task
  submit,    \* where each task's submit handler is
  cancel,    \* where each task's cancel handler is
  recovery,  \* the recovery pass of the running process
  crashes    \* crashes so far

process == <<queue, mutex, worker, submit, cancel, recovery>>

genVars == <<ledgerVars, task, process, crashes>>

Active == {"pending", "processing"}

TaskEnded(t) == task[t].status \in {"completed", "failed", "cancelled"}

(* "abortable": the task's provider can abort a running request.           *)
NewTask == [status |-> "absent", refunded |-> FALSE, age |-> 0, abortable |-> FALSE]

Idle == [at |-> "idle", task |-> NoTask]

NoRecovery == [at |-> "off", tasks |-> <<>>]

GenInit ==
  /\ LedgerInit
  /\ task = [t \in Task |-> NewTask]
  /\ queue = <<>>
  /\ mutex = NoTask
  /\ worker = [w \in Worker |-> Idle]
  /\ submit = [t \in Task |-> "none"]
  /\ cancel = [t \in Task |-> "none"]
  /\ recovery = [NoRecovery EXCEPT !.at = "scan"]
  /\ crashes = 0

-----------------------------------------------------------------------------
(***************************************************************************)
(* The submit handler.  One transaction creates the task and reserves its  *)
(* Credits.  EnqueueMany then checks the channel's room under q.mu and     *)
(* sends while it still holds it.  Without room the handler releases the   *)
(* Credits (a failure is only logged) and then writes "failed" over        *)
(* whatever the row says, ignoring a failure of that write.  That it was   *)
(* rejected is remembered, also across a crash, for the properties.        *)
(***************************************************************************)
Submit(t) ==
  /\ task[t].status = "absent"
  /\ Reserve(t, Cost[t], t \in FromProject, ReservationTTL)
  /\ \E abortable \in BOOLEAN :
       task' = [task EXCEPT ![t].status = "pending", ![t].abortable = abortable]
  /\ submit' = [submit EXCEPT ![t] = "created"]
  /\ UNCHANGED <<sweep, queue, mutex, worker, cancel, recovery, crashes>>

CheckRoom(t) ==
  /\ submit[t] = "created"
  /\ mutex = NoTask
  /\ IF Len(queue) < QueueSize
     THEN submit' = [submit EXCEPT ![t] = "sending"] /\ mutex' = t
     ELSE submit' = [submit EXCEPT ![t] = "release"] /\ UNCHANGED mutex
  /\ UNCHANGED <<ledgerVars, task, queue, worker, cancel, recovery, crashes>>

Send(t) ==
  /\ submit[t] = "sending"
  /\ Len(queue) < QueueSize
  /\ queue' = Append(queue, t)
  /\ mutex' = NoTask
  /\ submit' = [submit EXCEPT ![t] = "done"]
  /\ UNCHANGED <<ledgerVars, task, worker, cancel, recovery, crashes>>

ReleaseRejected(t) ==
  /\ submit[t] = "release"
  /\ Release(t, FALSE) \/ UNCHANGED ledger
  /\ submit' = [submit EXCEPT ![t] = "fail"]
  /\ UNCHANGED <<sweep, task, queue, mutex, worker, cancel, recovery, crashes>>

FailRejected(t) ==
  /\ submit[t] = "fail"
  /\ task' = [task EXCEPT ![t].status = "failed"] \/ UNCHANGED task
  /\ submit' = [submit EXCEPT ![t] = "rejected"]
  /\ UNCHANGED <<ledgerVars, queue, mutex, worker, cancel, recovery, crashes>>

-----------------------------------------------------------------------------
(***************************************************************************)
(* The cancel handler reads the row without a lock and refuses a task      *)
(* already at a provider that cannot abort; from then on it goes by the    *)
(* status it read.  One transaction ends the task, releases its Credits    *)
(* and marks it refunded, whether the row is by then pending or            *)
(* processing.  A failure to cancel at the provider, or of the             *)
(* transaction, ends the handler.                                          *)
(***************************************************************************)
ReadForCancel(t) ==
  /\ cancel[t] = "none"
  /\ task[t].status \in Active
  /\ task[t].status = "processing" => task[t].abortable
  /\ cancel' = [cancel EXCEPT ![t] = task[t].status]
  /\ UNCHANGED <<ledgerVars, task, queue, mutex, worker, submit, recovery, crashes>>

CancelTask(t) ==
  /\ cancel[t] \in Active
  /\ \/ /\ task[t].status \in Active
        /\ Release(t, FALSE)
        /\ task' = [task EXCEPT ![t].status = "cancelled", ![t].refunded = TRUE]
        /\ cancel' = [cancel EXCEPT ![t] = IF @ = "processing" THEN "abort" ELSE "untold"]
     \/ /\ cancel' = [cancel EXCEPT ![t] = "none"]
        /\ UNCHANGED <<ledger, task>>
  /\ UNCHANGED <<sweep, queue, mutex, worker, submit, recovery, crashes>>

(***************************************************************************)
(* CancelActiveTask, only after a task that was read as processing: under  *)
(* q.mu it finds the cancel function that a running worker registered, and *)
(* that worker returns without writing the row; or nobody hears of it, and *)
(* the task is "missed".                                                   *)
(***************************************************************************)
Registered(t) == {w \in Worker : worker[w] = [at |-> "run", task |-> t]}

CancelActiveTask(t) ==
  /\ cancel[t] = "abort"
  /\ mutex = NoTask
  /\ cancel' = [cancel EXCEPT ![t] = IF Registered(t) = {} THEN "missed" ELSE "none"]
  /\ worker' = [w \in Worker |->
                  IF w \in Registered(t) THEN [worker[w] EXCEPT !.at = "leave"] ELSE worker[w]]
  /\ UNCHANGED <<ledgerVars, task, queue, mutex, submit, recovery, crashes>>

-----------------------------------------------------------------------------
(***************************************************************************)
(* A worker.  It takes a task from the channel and moves the row from      *)
(* pending to processing, or drops a task that is no longer pending or     *)
(* whose row it cannot write.  The registration of the cancel function     *)
(* before the run, and its removal after everything else, both need q.mu.  *)
(***************************************************************************)
MayStart_Any(t) == TRUE

MayStart(t) == task[t].status = "pending"

StartTask(w) ==
  /\ worker[w].at = "idle"
  /\ queue # <<>>
  /\ queue' = Tail(queue)
  /\ LET t == Head(queue)
     IN  \/ /\ MayStart(t)
            /\ task' = [task EXCEPT ![t].status = "processing"]
            /\ worker' = [worker EXCEPT ![w] = [at |-> "register", task |-> t]]
         \/ UNCHANGED <<task, worker>>
  /\ UNCHANGED <<ledgerVars, mutex, submit, cancel, recovery, crashes>>

RegisterCancel(w) ==
  /\ worker[w].at = "register"
  /\ mutex = NoTask
  /\ worker' = [worker EXCEPT ![w].at = "run"]
  /\ UNCHANGED <<ledgerVars, task, queue, mutex, submit, cancel, recovery, crashes>>

(***************************************************************************)
(* The generation ends, after its retries: it succeeds, fails, or is cut   *)
(* off because the row was cancelled.  The terminal write is guarded by    *)
(* the row still being active, and only a write that took effect is        *)
(* followed by the accounting; after one that failed the row stays as it   *)
(* is and the worker leaves.                                               *)
(***************************************************************************)
MayEnd(t) == task[t].status \in Active

FinishTask(w) ==
  /\ worker[w].at = "run"
  /\ LET t == worker[w].task
     IN  \/ /\ MayEnd(t)
            /\ \E outcome \in {"completed", "failed"} :
                 /\ task' = [task EXCEPT ![t].status = outcome]
                 /\ worker' = [worker EXCEPT ![w].at =
                                 IF outcome = "completed" THEN "finalize" ELSE "refund"]
         \/ worker' = [worker EXCEPT ![w].at = "leave"] /\ UNCHANGED task
  /\ UNCHANGED <<ledgerVars, queue, mutex, submit, cancel, recovery, crashes>>

(***************************************************************************)
(* finalizeTaskReservation: a transaction of its own, whose refusal or     *)
(* failure is only logged.                                                 *)
(***************************************************************************)
FinalizeTask(w) ==
  /\ worker[w].at = "finalize"
  /\ LET t == worker[w].task
     IN  Finalize(t, resv[t].reserved, FALSE, TRUE) \/ UNCHANGED ledger
  /\ worker' = [worker EXCEPT ![w].at = "leave"]
  /\ UNCHANGED <<sweep, task, queue, mutex, submit, cancel, recovery, crashes>>

(***************************************************************************)
(* refundCreditsForTask: nothing unless the row is failed and not yet      *)
(* marked; a refusal rolls back and is only logged.                        *)
(***************************************************************************)
MayRefund(t) == task[t].status = "failed" /\ ~task[t].refunded

RefundTask_MarksAlways(t) ==
  \/ /\ MayRefund(t)
     /\ Release(t, FALSE) \/ UNCHANGED ledger
     /\ task' = [task EXCEPT ![t].refunded = TRUE]
  \/ UNCHANGED <<ledger, task>>

RefundTask(t) ==
  \/ /\ MayRefund(t)
     /\ Release(t, FALSE)
     /\ task' = [task EXCEPT ![t].refunded = TRUE]
  \/ UNCHANGED <<ledger, task>>

RefundFailed(w) ==
  /\ worker[w].at = "refund"
  /\ RefundTask(worker[w].task)
  /\ worker' = [worker EXCEPT ![w].at = "leave"]
  /\ UNCHANGED <<sweep, queue, mutex, submit, cancel, recovery, crashes>>

UnregisterCancel(w) ==
  /\ worker[w].at = "leave"
  /\ mutex = NoTask
  /\ worker' = [worker EXCEPT ![w] = Idle]
  /\ UNCHANGED <<ledgerVars, task, queue, mutex, submit, cancel, recovery, crashes>>

-----------------------------------------------------------------------------
(***************************************************************************)
(* The recovery pass, once per start: read the young pending tasks, push   *)
(* each into the channel without q.mu (giving up on one when the channel   *)
(* stays full), read the pending tasks that are too old, fail those that   *)
(* are too old by then, and refund the ones it read.  A first read or a    *)
(* write that fails ends the pass, a second read that fails finds nothing. *)
(* Rows left in "processing" are nobody's business.                        *)
(***************************************************************************)
PendingTasks(ages) == {t \in Task : task[t].status = "pending" /\ task[t].age \in ages}

Pages(S) == Bijection(1..Cardinality(S), S)

ScanPending ==
  /\ recovery.at = "scan"
  /\ \/ \E page \in Pages(PendingTasks(0..(RecoverAge - 1))) :
          /\ \A i, j \in 1..Len(page) : i < j => task[page[i]].age >= task[page[j]].age
          /\ recovery' = [at |-> "load", tasks |-> page]
     \/ recovery' = NoRecovery
  /\ UNCHANGED <<ledgerVars, task, queue, mutex, worker, submit, cancel, crashes>>

RecoverTask ==
  /\ recovery.at = "load" /\ recovery.tasks # <<>>
  /\ recovery' = [recovery EXCEPT !.tasks = Tail(@)]
  /\ IF Len(queue) < QueueSize
     THEN queue' = Append(queue, Head(recovery.tasks))
     ELSE UNCHANGED queue
  /\ UNCHANGED <<ledgerVars, task, mutex, worker, submit, cancel, crashes>>

(* An age stops counting at the limit. *)
Old == {ExpireAge}

FindExpired ==
  /\ recovery.at = "load" /\ recovery.tasks = <<>>
  /\ \E page \in Pages(PendingTasks(Old)) \cup {<<>>} :
       recovery' = [at |-> "mark", tasks |-> page]
  /\ UNCHANGED <<ledgerVars, task, queue, mutex, worker, submit, cancel, crashes>>

MarkExpired ==
  /\ recovery.at = "mark"
  /\ \/ /\ PendingTasks(Old) # {}
        /\ task' = [t \in Task |-> IF t \in PendingTasks(Old)
                                    THEN [task[t] EXCEPT !.status = "failed"] ELSE task[t]]
        /\ recovery' = [recovery EXCEPT !.at = "refund"]
     \/ recovery' = NoRecovery /\ UNCHANGED task
  /\ UNCHANGED <<ledgerVars, queue, mutex, worker, submit, cancel, crashes>>

RefundExpired ==
  /\ recovery.at = "refund" /\ recovery.tasks # <<>>
  /\ RefundTask(Head(recovery.tasks))
  /\ recovery' = [recovery EXCEPT !.tasks = Tail(@)]
  /\ UNCHANGED <<sweep, queue, mutex, worker, submit, cancel, crashes>>

EndRecovery ==
  /\ recovery.at = "refund" /\ recovery.tasks = <<>>
  /\ recovery' = NoRecovery
  /\ UNCHANGED <<ledgerVars, task, queue, mutex, worker, submit, cancel, crashes>>

(***************************************************************************)
(* The process dies at any point and starts again with an empty channel.   *)
(* A graceful Stop leaves the same rows behind: it cancels the workers'    *)
(* contexts, and a worker whose context is cancelled returns without       *)
(* writing its task's row.                                                 *)
(***************************************************************************)
LeftBehind(phase) ==
  CASE phase = "none" -> "none"
    [] phase \in {"release", "fail", "rejected"} -> "rejected"
    [] OTHER -> "done"

CrashAndRestart ==
  /\ crashes < MaxCrashes
  /\ crashes' = crashes + 1
  /\ queue' = <<>>
  /\ mutex' = NoTask
  /\ worker' = [w \in Worker |-> Idle]
  /\ submit' = [t \in Task |-> LeftBehind(submit[t])]
  /\ cancel' = [t \in Task |-> "none"]
  /\ recovery' = [NoRecovery EXCEPT !.at = "scan"]
  /\ sweep' = <<>>
  /\ UNCHANGED <<ledger, task>>

-----------------------------------------------------------------------------
(***************************************************************************)
(* The sweeper, told by the task's row whether its owner is still active.  *)
(***************************************************************************)
ScanForSweep == ScanReservations({}) /\ UNCHANGED <<task, process, crashes>>

OwnerActive_PendingOnly(t) == task[t].status = "pending"

OwnerActive_AnyTask(t) == task[t].status # "absent"

OwnerActive(t) == task[t].status \in Active

SweepReservation ==
  /\ sweep # <<>>
  /\ SweepOne(OwnerActive(Head(sweep)))
  /\ UNCHANGED <<task, process, crashes>>

RevokeOrder == (\E p \in Purchased : RevokePack(p)) /\ UNCHANGED <<task, process, crashes>>

GenTick ==
  /\ LedgerTick
  /\ task' = [t \in Task |->
       [task[t] EXCEPT !.age = IF task[t].status = "pending" THEN Min({@ + 1, ExpireAge}) ELSE @]]
  /\ UNCHANGED <<process, crashes>>

SubmitStep(t) == CheckRoom(t) \/ Send(t) \/ ReleaseRejected(t) \/ FailRejected(t)

CancelStep(t) == ReadForCancel(t) \/ CancelTask(t) \/ CancelActiveTask(t)

WorkerStep(w) ==
  \/ StartTask(w) \/ RegisterCancel(w) \/ FinishTask(w)
  \/ FinalizeTask(w) \/ RefundFailed(w) \/ UnregisterCancel(w)

RecoveryStep ==
  ScanPending \/ RecoverTask \/ FindExpired \/ MarkExpired \/ RefundExpired \/ EndRecovery

GenNext ==
  \/ \E t \in Task : Submit(t) \/ SubmitStep(t) \/ CancelStep(t)
  \/ \E w \in Worker : WorkerStep(w)
  \/ RecoveryStep
  \/ CrashAndRestart
  \/ ScanForSweep
  \/ SweepReservation
  \/ RevokeOrder
  \/ GenTick

GenSpec == GenInit /\ [][GenNext]_genVars

(***************************************************************************)
(* The sweeper's timer keeps firing and time passes.  Nothing is assumed   *)
(* of handlers, workers and the recovery pass, which may stop anywhere.    *)
(***************************************************************************)
GenFairness ==
  /\ WF_genVars(ScanForSweep)
  /\ WF_genVars(SweepReservation)
  /\ WF_genVars(GenTick)

FairGenSpec == GenSpec /\ GenFairness

-----------------------------------------------------------------------------
(***************************************************************************)
(* RefundsAreReal.  A task that tells its user "refunded" has a released   *)
(* reservation, or one whose release is queued; a cancelled task always    *)
(* does (the cancel handler: "no credits are ever left reserved against a  *)
(* cancelled task"); and neither is ever charged afterwards.               *)
(***************************************************************************)
Refunding(r) ==
  \/ resv[r].status = "released"
  \/ resv[r].status = "refund_pending" /\ resv[r].target = "released"

RefundsAreReal ==
  \A t \in Task :
    task[t].refunded \/ task[t].status = "cancelled" => Refunding(t)

(* The submission was rejected after its row and reservation were made.    *)
Rejected(t) == submit[t] \in {"fail", "rejected"}

(***************************************************************************)
(* RunningIsFunded.  While a task waits or runs, its Credits stay reserved:*)
(* neither the sweeper, nor a stale page of it, nor a cancel that lost its *)
(* race gives them back.                                                   *)
(*                                                                         *)
(* Of the row: it is unfunded only where the full queue rejected the       *)
(* submission.  That handler releases first and fails the row second, so   *)
(* the row is unfunded in between, and stays so when the process dies      *)
(* there or the second write fails.                                        *)
(*                                                                         *)
(* Of the work: a worker that is told of a cancellation works on no longer,*)
(* and where the provider cannot abort, no work goes on whose Credits are  *)
(* back ("we refuse the cancel so the user doesn't lose credits on a       *)
(* request we can't actually stop").  Left out are rejected submissions    *)
(* and two gaps of the cancel handler: it read the task as pending before  *)
(* the worker started it, so that it neither refuses nor tells anyone      *)
(* ("untold"), or it looked for the worker before that had registered      *)
(* ("missed").                                                             *)
(***************************************************************************)
RunningIsFunded ==
  /\ \A t \in Task :
       task[t].status \in Active =>
         resv[t].status = "reserved" \/ (Refunding(t) /\ Rejected(t))
  /\ \A w \in Worker :
       LET t == worker[w].task
       IN  worker[w].at \in {"register", "run"} =>
             \/ resv[t].status = "reserved"
             \/ Rejected(t)
             \/ Refunding(t) /\ cancel[t] = "untold"
             \/ Refunding(t) /\ cancel[t] \in {"abort", "missed"} /\ task[t].abortable

(***************************************************************************)
(* OneRunner.  Recovery and submission may both put a task in the channel; *)
(* still no two workers ever run it.                                       *)
(***************************************************************************)
OneRunner ==
  \A v, w \in Worker :
    v # w /\ worker[v].task = worker[w].task => worker[v].task = NoTask

(***************************************************************************)
(* EndedTasksSettle.  Once a task has ended, its Credits are eventually    *)
(* charged or returned for good, although the accounting that follows the  *)
(* end may be lost to a crash or to a worker that hangs, refused or fail:  *)
(* the sweeper makes up for it.                                            *)
(***************************************************************************)
EndedTasksSettle ==
  \A t \in Task : TaskEnded(t) ~> resv[t].status \in Terminal

(***************************************************************************)
(* SubmissionsHaveRoom.  EnqueueMany checks the channel's room and sends   *)
(* under one mutex so that the check is atomic with the sends: a submission*)
(* that passed it never finds the channel full.                            *)
(***************************************************************************)
SubmissionsHaveRoom ==
  \A t \in Task : submit[t] = "sending" => Len(queue) < QueueSize

=============================================================================
