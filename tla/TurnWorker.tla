----------------------------- MODULE TurnWorker -----------------------------
(***************************************************************************)
(* The Turn worker (server/service/agentturn/worker.go) over the store:    *)
(* what the goroutines of one epoch do between their transactions.  The    *)
(* run loop claims a Turn, starts its executor and its heartbeat, stops    *)
(* the executor when it returns, hits a limit or is told to, waits for it  *)
(* and for an Emit in flight, and makes the one terminal commit.           *)
(*                                                                         *)
(* AgentTurn lets anybody who knows an Attempt issue any command; here the *)
(* commands of an Attempt are the ones its worker issues.                  *)
(***************************************************************************)
EXTENDS AgentTurn

CONSTANTS
  Worker,             \* worker processes, each running one Turn at a time
  TerminalOperation,  \* terminalOperationID: the operation of an epoch's end
  MaxCrashes          \* bound on the worker crashes of a behaviour

ASSUME WorkerAssumption ==
  /\ TerminalOperation \in [Attempt -> Operation]
  /\ \A a, b \in Attempt : TerminalOperation[a] = TerminalOperation[b] => a = b
  /\ MaxCrashes \in Nat

VARIABLES
  worker,   \* each worker's run loop, its executor and its heartbeat
  crashes   \* worker crashes so far

workerVars == <<vars, worker, crashes>>

Emittable == Operation \ {TerminalOperation[a] : a \in Attempt}

(* `emit` is the operation of an Emit that has passed the last checks and  *)
(* holds the permit; `final` is the status the terminal commit will carry. *)
Idle == [at |-> "idle", attempt |-> NoAttempt, executor |-> "none", beats |-> FALSE,
         emit |-> NoOperation, cancelled |-> FALSE, lost |-> FALSE, final |-> "none"]

WorkerRow ==
  [at : {"idle", "run", "stop", "commit", "poisoned"}, attempt : Attempt \cup {NoAttempt},
   executor : {"none", "running", "returned"}, beats : BOOLEAN,
   emit : Emittable \cup {NoOperation}, cancelled : BOOLEAN, lost : BOOLEAN,
   final : TerminalStatus \cup {"none"}]

WorkerTypeOK == worker \in [Worker -> WorkerRow] /\ crashes \in 0..MaxCrashes

WorkerInit == Init /\ worker = [w \in Worker |-> Idle] /\ crashes = 0

-----------------------------------------------------------------------------
(* runOnce up to the start of the executor.                                *)
Claim(w, t, a) ==
  /\ worker[w].at = "idle"
  /\ ClaimAttempt(t, a)
  /\ worker' = [worker EXCEPT ![w] = [Idle EXCEPT !.at = "run", !.attempt = a,
                                                  !.executor = "running", !.beats = TRUE]]
  /\ UNCHANGED crashes

(* The checks an Emit repeats once it holds the permit: the session is not *)
(* closed and the fence is not known to be lost.                           *)
EmitAllowed(w) == worker[w].at = "run" /\ ~worker[w].lost

StartEmit(w, o) ==
  /\ worker[w].executor # "none"
  /\ worker[w].emit = NoOperation
  /\ EmitAllowed(w)
  /\ worker' = [worker EXCEPT ![w].emit = o]
  /\ UNCHANGED <<vars, crashes>>

(* The Emit's transaction, and the release of the permit.  A refusal that  *)
(* proves the epoch is no longer ours is remembered; a cancelled epoch     *)
(* also aborts the call before it writes.                                  *)
FinishEmit(w) ==
  LET a == worker[w].attempt
      o == worker[w].emit
  IN  /\ o # NoOperation
      /\ \/ /\ \E effects \in SUBSET Effect : CommitOperation(a, o, effects)
            /\ worker' = [worker EXCEPT ![w].emit = NoOperation]
         \/ /\ ~Holds(a)
            /\ worker' = [worker EXCEPT ![w].emit = NoOperation, ![w].lost = TRUE]
            /\ UNCHANGED vars
         \/ /\ Holds(a)
            /\ \/ worker[w].at # "run" \/ ~worker[w].beats
               \/ ~Uncancelled(attempt[a].turn)
               \/ ~Fresh(attempt[a].turn, o, {})
               \/ ~HasSequence(attempt[a].turn)
            /\ worker' = [worker EXCEPT ![w].emit = NoOperation]
            /\ UNCHANGED vars
      /\ UNCHANGED crashes

(* The heartbeat goroutine.  It is shut out of the terminal commit by      *)
(* leaseMu, and it ends once it has seen a cancellation or a lost fence,   *)
(* which stops the executor.                                               *)
Heartbeat(w) ==
  LET a == worker[w].attempt
  IN  /\ worker[w].beats
      /\ worker[w].at \in {"run", "stop"}
      /\ IF Holds(a)
         THEN /\ HeartbeatAttempt(a)
              /\ worker' = IF Uncancelled(attempt[a].turn) THEN worker
                           ELSE [worker EXCEPT ![w].cancelled = TRUE, ![w].beats = FALSE]
         ELSE /\ worker' = [worker EXCEPT ![w].lost = TRUE, ![w].beats = FALSE]
              /\ UNCHANGED vars
      /\ UNCHANGED crashes

(* Execute returns, in good time, late, or after it was told to stop.  An  *)
(* error, and a status it may not report, count as failed; a limit that    *)
(* has passed stays the reason.  An executor that itself reports a timeout *)
(* is left out: it ends like one that ran into its limit.                  *)
ExecutorReturns(w) ==
  /\ worker[w].executor = "running"
  /\ \E status \in {"completed", "failed"} :
       worker' = [worker EXCEPT ![w].executor = "returned",
                                ![w].final = IF @ = "timeout" THEN @ ELSE status]
  /\ UNCHANGED <<vars, crashes>>

LimitPassed_Never(w) == FALSE

(* The idle or the overall limit; an executor may hit it at any time.      *)
LimitPassed(w) == worker[w].executor = "running"

(* waitForWorkerExecutor ends and the session is closed: the executor is   *)
(* back, the heartbeat has cancelled the epoch, or a limit has passed.     *)
StopExecutor(w) ==
  /\ worker[w].at = "run"
  /\ \/ /\ worker[w].executor = "returned" \/ ~worker[w].beats
        /\ worker' = [worker EXCEPT ![w].at = "stop"]
     \/ /\ LimitPassed(w)
        /\ worker' = [worker EXCEPT ![w].at = "stop", ![w].final = "timeout"]
  /\ UNCHANGED <<vars, crashes>>

Quiet_ExecutorOnly(w) == worker[w].executor = "returned"

Quiet(w) == worker[w].executor = "returned" /\ worker[w].emit = NoOperation

(* The stop grace is over and something still runs: the epoch is left to   *)
(* its lease and this process claims no more.                              *)
Poison(w) ==
  /\ worker[w].at = "stop"
  /\ ~Quiet(w)
  /\ worker' = [worker EXCEPT ![w].at = "poisoned", ![w].beats = FALSE]
  /\ UNCHANGED <<vars, crashes>>

(* Under leaseMu: the last look at what the heartbeat has seen.            *)
Quiesce(w) ==
  /\ worker[w].at = "stop"
  /\ Quiet(w)
  /\ worker' = [worker EXCEPT ![w] =
       IF worker[w].lost THEN Idle
       ELSE [@ EXCEPT !.at = "commit",
                      !.final = IF worker[w].cancelled THEN "stopped" ELSE worker[w].final]]
  /\ UNCHANGED <<vars, crashes>>

DefaultSettlementIntent(status) == IF status = "completed" THEN "finalize" ELSE "release"

(* The terminal commit.  A cancellation that arrived after the last        *)
(* heartbeat refuses it, and the same operation is repeated as stopped;    *)
(* any other refusal leaves the epoch to its lease.                        *)
CommitFinal(w) ==
  LET a      == worker[w].attempt
      t      == attempt[a].turn
      status == worker[w].final
  IN  /\ worker[w].at = "commit"
      /\ \/ /\ CommitTerminal(a, TerminalOperation[a], {}, status, DefaultSettlementIntent(status))
            /\ worker' = [worker EXCEPT ![w] = Idle]
         \/ /\ Holds(a) /\ turn[t].cancel /\ status # "stopped"
            /\ worker' = [worker EXCEPT ![w].final = "stopped"]
            /\ UNCHANGED vars
         \/ /\ ~Holds(a) \/ UsageUnknown(t, DefaultSettlementIntent(status), {}) \/ ~HasSequence(t)
            /\ worker' = [worker EXCEPT ![w] = Idle]
            /\ UNCHANGED vars
      /\ UNCHANGED crashes

(* A worker process dies, or a poisoned one is replaced.                   *)
Restart(w) ==
  /\ \/ worker[w].at = "poisoned" /\ UNCHANGED crashes
     \/ worker[w].at # "idle" /\ crashes < MaxCrashes /\ crashes' = crashes + 1
  /\ worker' = [worker EXCEPT ![w] = Idle]
  /\ UNCHANGED vars

WorkerStep(w) ==
  \/ \E t \in Turn, a \in Attempt : Claim(w, t, a)
  \/ StopExecutor(w) \/ Quiesce(w) \/ CommitFinal(w)

(* What happens to a Turn without a worker.                                *)
Client ==
  /\ \E t \in Turn : Admit(t) \/ RequestCancel(t)
  /\ UNCHANGED <<worker, crashes>>

Retire ==
  /\ \E t \in Turn, reason \in ReclaimReason : ReconcileTerminal(t, reason)
  /\ UNCHANGED <<worker, crashes>>

Clock == Tick /\ UNCHANGED <<worker, crashes>>

WorkerNext ==
  \/ \E w \in Worker :
       \/ WorkerStep(w) \/ Poison(w) \/ Restart(w)
       \/ ExecutorReturns(w) \/ Heartbeat(w) \/ FinishEmit(w)
       \/ \E o \in Emittable : StartEmit(w, o)
  \/ Client \/ Retire \/ Clock

(* A worker's loop goes on and its timers fire, poisoned processes are     *)
(* replaced, the Reconciler runs and time passes.  Nothing is asked of the *)
(* executor, which may hang, of its Emits or of the heartbeat.             *)
WorkerFairness ==
  /\ \A w \in Worker :
       /\ WF_workerVars(WorkerStep(w))
       /\ WF_workerVars(Poison(w))
       /\ WF_workerVars(worker[w].at = "poisoned" /\ Restart(w))
  /\ WF_workerVars(Retire)
  /\ WF_workerVars(Clock)

WorkerSpec == WorkerInit /\ [][WorkerNext]_workerVars /\ WorkerFairness

-----------------------------------------------------------------------------
(* QuietCommit.  When the terminal commit is made nothing else of the      *)
(* epoch can write any more: the executor has returned and no Emit is in   *)
(* flight ("a terminal write must not race that Operation").               *)
QuietCommit ==
  \A w \in Worker :
    worker[w].at = "commit" => worker[w].executor = "returned" /\ worker[w].emit = NoOperation

(* TurnsEnd.  Every admitted Turn ends, although executors hang, workers   *)
(* crash and are poisoned, and epochs lose their lease.                    *)
TurnsEnd == \A t \in Turn : Unfinished(t) ~> turn[t].status \in TerminalStatus

=============================================================================
