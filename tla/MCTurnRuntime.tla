---------------------------- MODULE MCTurnRuntime ----------------------------
(***************************************************************************)
(* The two readers and writers around the Turn store for TLC: a behaviour  *)
(* is one of TurnWorker or one of TurnEventStream, chosen at the start.    *)
(* The variables of the part not chosen stay as they began.                *)
(***************************************************************************)
EXTENDS TurnWorker, TurnEventStream, TLC

CONSTANTS a1, a2, o1, o2

VARIABLE part

runtimeVars == <<workerVars, sub, part>>

EndOf == (a1 :> o1) @@ (a2 :> o2)

RuntimeInit ==
  /\ WorkerInit /\ StreamInit
  /\ part \in {"worker", "stream"}

(* Bounds of the stream's part: one Attempt and one Operation write.       *)
OneWriter == attempt'[a2].status = "absent" /\ \A op \in operation' : op.id = o1

RuntimeNext ==
  \/ part = "worker" /\ WorkerNext /\ UNCHANGED <<sub, part>>
  \/ part = "stream" /\ StreamNext /\ OneWriter /\ UNCHANGED <<worker, crashes, part>>

(* WorkerFairness and the fairness of StreamSpec, each in its own part.    *)
RuntimeSpec ==
  /\ RuntimeInit /\ [][RuntimeNext]_runtimeVars
  /\ \A w \in Worker :
       /\ WF_workerVars(part = "worker" /\ WorkerStep(w))
       /\ WF_workerVars(part = "worker" /\ Poison(w))
       /\ WF_workerVars(part = "worker" /\ worker[w].at = "poisoned" /\ Restart(w))
  /\ WF_workerVars(part = "worker" /\ Retire)
  /\ WF_workerVars(part = "worker" /\ Clock)
  /\ \A s \in Observer : WF_streamVars(part = "stream" /\ NextEvent(s))

(* Every admitted Turn ends (TurnsEnd of TurnWorker) where workers and the *)
(* Reconciler run; a behaviour of the stream's part may leave one idle.    *)
WorkedTurnsEnd ==
  \A t \in Turn : (part = "worker" /\ Unfinished(t)) ~> turn[t].status \in TerminalStatus

=============================================================================
