---------------------------- MODULE TurnLifecycle ----------------------------
(***************************************************************************)
(* What the Agent Turn kernel promises a caller who sees no Attempt, lease *)
(* or reservation: each Turn is queued, taken by one execution epoch after *)
(* another, and ended once, and the step that ends it also bills it.       *)
(***************************************************************************)
EXTENDS Naturals

CONSTANTS
  Turn,
  Budget,  \* how many epochs may take one Turn
  Billed   \* whether an ended Turn has a commercial outcome

VARIABLE life

Ended == {"completed", "stopped", "failed", "timeout"}

Init ==
  life = [t \in Turn |-> [phase |-> "absent", cancelled |-> FALSE, epoch |-> 0,
                          length |-> 0, worked |-> FALSE, bill |-> {}]]

Open(t) == life[t].phase \in {"queued", "running"}

Submit(t) ==
  /\ life[t].phase = "absent"
  /\ life' = [life EXCEPT ![t] = [@ EXCEPT !.phase = "queued", !.length = 1]]

Cancel(t) ==
  /\ Open(t) /\ ~life[t].cancelled
  /\ life' = [life EXCEPT ![t] = [@ EXCEPT !.cancelled = TRUE, !.length = life[t].length + 1]]

(* The next epoch takes the Turn; only the first one is an event.          *)
Take(t) ==
  /\ Open(t) /\ ~life[t].cancelled
  /\ life[t].epoch < Budget
  /\ life' = [life EXCEPT ![t] = [@ EXCEPT
                 !.phase = "running", !.epoch = life[t].epoch + 1,
                 !.length = IF life[t].phase = "queued" THEN life[t].length + 1
                                                        ELSE life[t].length]]

Work(t) ==
  /\ life[t].phase = "running" /\ ~life[t].cancelled
  /\ life' = [life EXCEPT ![t] = [@ EXCEPT !.worked = TRUE, !.length = life[t].length + 1]]

(* The Turn ends stopped exactly if it was cancelled, completed only if it *)
(* ran, and free of charge only if it did no work.  An end imposed from    *)
(* outside counts as an epoch of its own.                                  *)
End(t, status, kind, imposed) ==
  /\ Open(t)
  /\ life[t].cancelled <=> status = "stopped"
  /\ status = "completed" => life[t].phase = "running" /\ ~imposed
  /\ Billed /\ kind = "release" => ~life[t].worked
  /\ life' = [life EXCEPT ![t] = [@ EXCEPT
                 !.phase = status, !.length = life[t].length + 1,
                 !.epoch = IF imposed THEN life[t].epoch + 1 ELSE life[t].epoch,
                 !.bill = IF Billed THEN {kind} ELSE {}]]

Next ==
  \E t \in Turn :
    \/ Submit(t) \/ Cancel(t) \/ Take(t) \/ Work(t)
    \/ \E status \in Ended, kind \in {"finalize", "release", "review"}, imposed \in BOOLEAN :
          End(t, status, kind, imposed)

Spec == Init /\ [][Next]_life

=============================================================================
