--------------------------- MODULE ServicesProofs ---------------------------
(***************************************************************************)
(* Theorems about the services that share nothing but their process:       *)
(* ProviderEvents, RefreshChain, LoginTransaction and AccountPool, in that *)
(* order.                                                                  *)
(***************************************************************************)
EXTENDS ProviderEvents, RefreshChain, LoginTransaction, AccountPool,
        FiniteSetTheorems, WellFoundedInduction, TLAPS

(* The SMT solver may take up to 30 seconds over a leaf, and is called     *)
(* again when its first call fails.                                        *)
USE SMTT(30), Z3T(30)

(***************************************************************************)
(* The provider-event inbox applies every event once, for any number of    *)
(* events, webhooks, attempts and losses.  A commit requires the status    *)
(* processing and leaves it for good, so the inductive invariant pairs the *)
(* number of applications with the status, and says of a process on its    *)
(* way to the AfterCommit hook that it is the only one for its event and   *)
(* that the hook has not run.                                              *)
(***************************************************************************)

(* The delay of a retry is a recursive function of the attempts; nothing   *)
(* here depends on its value, so `next' is only known to be a field.       *)
EventRow(next) ==
  [status : EventStatus, attempts : 0..MaxAttempts, version : Nat,
   owner : {"nobody", "webhook", "reconciler"}, lease : Nat, next : {next}]

RunRow ==
  [at : {"idle", "claim", "prepare", "complete", "fail", "notify"},
   event : Event \cup {0}, fence : Nat, retryable : BOOLEAN]

RowOK(row) ==
  /\ row \in EventRow(row.next)
  /\ row.status = "processing" <=> row.owner # "nobody"

RowsOK ==
  /\ DOMAIN event = Event /\ event = [e \in Event |-> event[e]]
  /\ \A e \in Event : RowOK(event[e])

RunsOK ==
  /\ run \in [Process -> RunRow]
  /\ \A p \in Process : run[p].at # "idle" => run[p].event \in Event
  /\ page \subseteq Event

CountsOK ==
  /\ applied \in [Event -> Nat] /\ notified \in [Event -> Nat]
  /\ \A e \in Event : applied[e] = (IF event[e].status = "processed" THEN 1 ELSE 0)
  /\ \A e \in Event : notified[e] <= applied[e]

NotifiersOK ==
  /\ \A p \in Process : run[p].at = "notify" =>
       event[run[p].event].status = "processed" /\ notified[run[p].event] = 0
  /\ \A p, q \in Process :
       run[p].at = "notify" /\ run[q].at = "notify" /\ run[p].event = run[q].event => p = q

InboxInv == RowsOK /\ RunsOK /\ CountsOK /\ NotifiersOK

(* The initial state satisfies the invariant.                              *)
LEMMA InboxInitInv == InboxInit => InboxInv
<1> SUFFICES ASSUME InboxInit PROVE InboxInv
  OBVIOUS
<1>1. MaxAttempts \in Nat
  BY InboxAssumption
<1>2. RowsOK
  <2>1. \A e \in Event :
          event[e] = [status |-> "absent", attempts |-> 0, version |-> 0, owner |-> "nobody",
                      lease |-> 0, next |-> 0]
    BY DEF InboxInit
  <2>2. DOMAIN event = Event /\ event = [e \in Event |-> event[e]]
    BY DEF InboxInit
  <2>3. "absent" \in EventStatus
    BY DEF EventStatus
  <2>4. \A e \in Event : event[e] \in EventRow(event[e].next)
    BY <2>1, <2>3, <1>1 DEF EventRow
  <2>5. \A e \in Event : event[e].status # "processing" /\ event[e].owner = "nobody"
    BY <2>1
  <2> QED
    BY <2>2, <2>4, <2>5 DEF RowsOK, RowOK
<1>3. RunsOK
  <2>1. Idle \in RunRow /\ Idle.at = "idle"
    BY DEF RunRow, Idle
  <2>2. run = [p \in Process |-> Idle] /\ page = {}
    BY DEF InboxInit
  <2> QED
    BY <2>1, <2>2 DEF RunsOK
<1>4. CountsOK
  <2>1. applied = [e \in Event |-> 0] /\ notified = [e \in Event |-> 0]
    BY DEF InboxInit
  <2>2. \A e \in Event : event[e].status # "processed"
    BY DEF InboxInit
  <2> QED
    BY <2>1, <2>2 DEF CountsOK
<1>5. NotifiersOK
  BY DEF InboxInit, NotifiersOK, Idle
<1> QED
  BY <1>2, <1>3, <1>4, <1>5 DEF InboxInv

(* One row of the inbox changes to a well-formed one.                      *)
LEMMA OneEventRow ==
  ASSUME RowsOK, NEW e \in Event, NEW row, RowOK(row), event' = [event EXCEPT ![e] = row]
  PROVE  RowsOK'
<1>1. DOMAIN event' = Event /\ event' = [d \in Event |-> event'[d]]
  BY DEF RowsOK
<1>2. \A d \in Event : event'[d] = IF d = e THEN row ELSE event[d]
  BY DEF RowsOK
<1>3. \A d \in Event : RowOK(event'[d])
  BY <1>2 DEF RowsOK
<1> QED
  BY <1>1, <1>3 DEF RowsOK, RowOK, EventRow

(* One process moves to a well-formed place.                               *)
LEMMA OneRun ==
  ASSUME RunsOK, NEW p \in Process, NEW row \in RunRow, row.at # "idle" => row.event \in Event,
         run' = [run EXCEPT ![p] = row], page' \subseteq Event
  PROVE  RunsOK'
  BY DEF RunsOK

SameApplied ==
  \A e \in Event : event'[e].status = "processed" <=> event[e].status = "processed"

NoNewNotifier ==
  \A p \in Process : run'[p].at = "notify" => run[p].at = "notify" /\ run'[p].event = run[p].event

(* A step that commits nothing and runs no hook keeps the counts.          *)
LEMMA NothingCommitted ==
  ASSUME InboxInv, SameApplied, NoNewNotifier, UNCHANGED <<applied, notified>>
  PROVE  CountsOK' /\ NotifiersOK'
<1>1. CountsOK'
  BY DEF InboxInv, CountsOK, SameApplied
<1>2. NotifiersOK'
  BY DEF InboxInv, NotifiersOK, RunsOK, SameApplied, NoNewNotifier
<1> QED
  BY <1>1, <1>2

(* The idle place is well formed.                                          *)
LEMMA IdleRun == Idle \in RunRow /\ Idle.at = "idle" /\ Idle.event = 0
  BY DEF RunRow, Idle

(* Parking a row releases it.                                              *)
LEMMA ParkedRow ==
  ASSUME NEW row, RowOK(row), NEW status \in EventStatus \ {"processing"}, NEW next
  PROVE  RowOK(Parked(row, status, next)) /\ Parked(row, status, next).status = status
<1> DEFINE parked == Parked(row, status, next)
<1>1. parked \in EventRow(next)
  BY Zenon DEF RowOK, EventRow, Parked
<1>2. parked.status = status /\ parked.owner = "nobody" /\ parked.next = next
  BY DEF RowOK, EventRow, Parked
<1> HIDE DEF parked
<1>3. RowOK(parked)
  BY <1>1, <1>2 DEF RowOK
<1> QED
  BY <1>2, <1>3 DEF parked

(* Storing a delivery.                                                     *)
LEMMA IngestInv ==
  ASSUME InboxInv, NEW p \in Webhook, NEW e \in Event, Ingest(p, e)
  PROVE  InboxInv'
<1> DEFINE row == [event[e] EXCEPT !.status = IF @ = "absent" THEN "received" ELSE @]
           place == [Idle EXCEPT !.at = "claim", !.event = e]
<1>1. RowOK(event[e]) /\ p \in Process
  BY DEF InboxInv, RowsOK, Process
<1>2. RowOK(row) /\ (row.status = "processed" <=> event[e].status = "processed")
  <2>1. CASE event[e].status = "absent"
    <3>1. row = [event[e] EXCEPT !.status = "received"]
      BY <2>1
    <3>2. "received" \in EventStatus
      BY DEF EventStatus
    <3> QED
      BY <1>1, <2>1, <3>1, <3>2 DEF RowOK, EventRow
  <2>2. CASE event[e].status # "absent"
    BY <1>1, <2>2 DEF RowOK, EventRow
  <2> QED
    BY <2>1, <2>2
<1>3. event' = [event EXCEPT ![e] = row]
  BY <1>1 DEF Ingest
<1> HIDE DEF row
<1>4. RowsOK'
  BY <1>2, <1>3, OneEventRow, Zenon DEF InboxInv
<1>5. place \in RunRow /\ place.at = "claim" /\ place.event = e
  BY Zenon DEF RunRow, Idle
<1>6. run' = [run EXCEPT ![p] = place]
  BY DEF Ingest
<1> HIDE DEF place
<1>7. RunsOK'
  BY <1>1, <1>5, <1>6, OneRun DEF InboxInv, Ingest, RunsOK
<1>8. SameApplied
  BY <1>2, <1>3 DEF InboxInv, RowsOK, SameApplied
<1>9. NoNewNotifier
  BY <1>1, <1>5, <1>6 DEF InboxInv, RunsOK, NoNewNotifier
<1> QED
  BY <1>4, <1>7, <1>8, <1>9, NothingCommitted DEF Ingest, InboxInv

(* Reading a page of due rows, and taking one from it.                     *)
LEMMA PageInv ==
  ASSUME InboxInv, ReconcileOnce \/ NextRow
  PROVE  InboxInv'
<1>1. CASE ReconcileOnce
  <2>1. page' \subseteq Event /\ UNCHANGED <<event, run, applied, notified>>
    BY <1>1 DEF ReconcileOnce
  <2> QED
    BY <2>1 DEF InboxInv, RowsOK, RowOK, EventRow, RunsOK, CountsOK, NotifiersOK
<1>2. CASE NextRow
  <2>1. PICK e \in page : /\ run' = [run EXCEPT ![Reconciler] = [Idle EXCEPT !.at = "claim", !.event = e]]
                          /\ page' = page \ {e}
    BY <1>2, Zenon DEF NextRow
  <2> DEFINE place == [Idle EXCEPT !.at = "claim", !.event = e]
  <2>2. e \in Event /\ page' \subseteq Event /\ Reconciler \in Process
    BY <2>1 DEF InboxInv, RunsOK, Process
  <2>3. place \in RunRow /\ place.at = "claim" /\ place.event = e
    BY <2>2, Zenon DEF RunRow, Idle
  <2>4. run' = [run EXCEPT ![Reconciler] = place]
    BY <2>1
  <2> HIDE DEF place
  <2>5. RunsOK'
    BY <2>2, <2>3, <2>4, OneRun, Zenon DEF InboxInv
  <2>6. UNCHANGED <<event, applied, notified>>
    BY <1>2, Zenon DEF NextRow
  <2>7. RowsOK' /\ SameApplied
    BY <2>6 DEF InboxInv, RowsOK, RowOK, EventRow, SameApplied
  <2>8. NoNewNotifier
    BY <2>2, <2>3, <2>4 DEF InboxInv, RunsOK, NoNewNotifier
  <2> QED
    BY <2>5, <2>6, <2>7, <2>8, NothingCommitted DEF InboxInv
<1> QED
  BY <1>1, <1>2

(* claimEvent takes a row that is not finished, or parks it.               *)
LEMMA ClaimInv ==
  ASSUME InboxInv, NEW p \in Process, claimEvent(p)
  PROVE  InboxInv'
<1> DEFINE e == run[p].event
           version == event[e].version + 1
           attempts == event[e].attempts + 1
           taken == [event[e] EXCEPT !.status = "processing", !.attempts = attempts, !.version = version,
                                     !.owner = WorkerID(p), !.lease = LeaseTTL, !.next = 0]
           place == [run[p] EXCEPT !.at = "prepare", !.fence = version]
<1>1. e \in Event /\ RowOK(event[e]) /\ run[p] \in RunRow
  BY DEF InboxInv, RowsOK, RunsOK, claimEvent
<1>2. version \in Nat
  BY <1>1 DEF RowOK, EventRow
<1>3. page' \subseteq Event /\ UNCHANGED <<applied, notified>>
  BY DEF InboxInv, RunsOK, claimEvent
<1>4. CASE Due(e) /\ HasAttempts(event[e])
  <2>1. attempts \in 0..MaxAttempts
    <3>1. event[e].attempts \in 0..MaxAttempts
      BY <1>1 DEF RowOK, EventRow
    <3>2. event[e].attempts < MaxAttempts
      BY <1>4 DEF HasAttempts
    <3>3. MaxAttempts \in Nat
      BY InboxAssumption
    <3> HIDE DEF e
    <3> QED
      BY <3>1, <3>2, <3>3
  <2>2. event' = [event EXCEPT ![e] = taken] /\ run' = [run EXCEPT ![p] = place]
    BY <1>4 DEF claimEvent
  <2>3. event[e].status # "processed"
    BY <1>4 DEF Due
  <2> HIDE DEF version, attempts
  <2>4. taken.status = "processing" /\ RowOK(taken)
    <3>1. "processing" \in EventStatus
      BY DEF EventStatus
    <3>2. WorkerID(p) \in {"nobody", "webhook", "reconciler"} /\ WorkerID(p) # "nobody"
      BY DEF WorkerID
    <3>3. LeaseTTL \in Nat
      BY InboxAssumption
    <3>4. taken \in EventRow(0) /\ taken.next = 0 /\ taken.status = "processing" /\ taken.owner = WorkerID(p)
      BY <1>1, <1>2, <2>1, <3>1, <3>2, <3>3, Zenon DEF RowOK, EventRow
    <3> HIDE DEF taken
    <3> QED
      BY <3>2, <3>4 DEF RowOK
  <2>5. place \in RunRow /\ place.at = "prepare" /\ place.event = e
    BY <1>1, <1>2, Zenon DEF RunRow
  <2> HIDE DEF taken, place
  <2>6. RowsOK'
    BY <1>1, <2>2, <2>4, OneEventRow, Zenon DEF InboxInv
  <2>7. RunsOK'
    BY <1>1, <1>3, <2>2, <2>5, OneRun, Zenon DEF InboxInv
  <2>8. SameApplied
    BY <1>1, <2>2, <2>3, <2>4 DEF InboxInv, RowsOK, SameApplied
  <2>9. NoNewNotifier
    BY <2>2, <2>5 DEF InboxInv, RunsOK, NoNewNotifier
  <2> QED
    BY <1>3, <2>6, <2>7, <2>8, <2>9, NothingCommitted DEF InboxInv
<1>5. CASE ~(Due(e) /\ HasAttempts(event[e]))
  <2> DEFINE row == IF Due(e) THEN Parked(event[e], "manual_review", 0) ELSE event[e]
  <2>1. event' = [event EXCEPT ![e] = row] /\ run' = [run EXCEPT ![p] = Idle]
    BY <1>5, Zenon DEF claimEvent
  <2>2. "manual_review" \in EventStatus \ {"processing"}
    BY DEF EventStatus
  <2>3. RowOK(row) /\ (row.status = "processed" <=> event[e].status = "processed")
    <3>1. CASE Due(e)
      <4>1. event[e].status # "processed"
        BY <3>1 DEF Due
      <4> QED
        BY <1>1, <2>2, <3>1, <4>1, ParkedRow
    <3>2. CASE ~Due(e)
      BY <1>1, <3>2
    <3> QED
      BY <3>1, <3>2
  <2> HIDE DEF row
  <2>4. RowsOK'
    BY <1>1, <2>1, <2>3, OneEventRow, Zenon DEF InboxInv
  <2>5. RunsOK'
    BY <1>3, <2>1, IdleRun, OneRun, Zenon DEF InboxInv
  <2>6. SameApplied
    BY <1>1, <2>1, <2>3 DEF InboxInv, RowsOK, SameApplied
  <2>7. NoNewNotifier
    BY <2>1, IdleRun DEF InboxInv, RunsOK, NoNewNotifier
  <2> QED
    BY <1>3, <2>4, <2>5, <2>6, <2>7, NothingCommitted DEF InboxInv
<1> QED
  BY <1>4, <1>5

(* Steps of a process that leave the rows alone and reach no hook.         *)
LEMMA QuietStepInv ==
  ASSUME InboxInv, NEW p \in Process, NEW row \in RunRow,
         row.at # "idle" => row.event \in Event, row.at # "notify",
         run' = [run EXCEPT ![p] = row], page' \subseteq Event, UNCHANGED <<event, applied, notified>>
  PROVE  InboxInv'
<1>1. RowsOK' /\ SameApplied
  BY DEF InboxInv, RowsOK, RowOK, EventRow, SameApplied
<1>2. RunsOK'
  BY OneRun, Zenon DEF InboxInv
<1>3. NoNewNotifier
  BY DEF InboxInv, RunsOK, NoNewNotifier
<1> QED
  BY <1>1, <1>2, <1>3, NothingCommitted DEF InboxInv

(* Preparing, which may fail, and giving up.                               *)
LEMMA PrepareInv ==
  ASSUME InboxInv, NEW p \in Process, Prepare(p) \/ Lose(p)
  PROVE  InboxInv'
<1>1. run[p] \in RunRow /\ (run[p].at # "idle" => run[p].event \in Event)
  BY DEF InboxInv, RunsOK
<1>2. CASE Prepare(p)
  <2> DEFINE ready == [run[p] EXCEPT !.at = "complete"]
             failed(r) == [run[p] EXCEPT !.at = "fail", !.retryable = r]
  <2>1. \/ run' = [run EXCEPT ![p] = ready]
        \/ \E r \in BOOLEAN : run' = [run EXCEPT ![p] = failed(r)]
    BY <1>2, <1>1, Zenon DEF Prepare, RunRow
  <2>2. ready \in RunRow /\ ready.at = "complete" /\ ready.event \in Event
    BY <1>1, <1>2 DEF RunRow, Prepare
  <2>3. \A r \in BOOLEAN : failed(r) \in RunRow /\ failed(r).at = "fail" /\ failed(r).event \in Event
    BY <1>1, <1>2, Zenon DEF RunRow, Prepare
  <2>4. page' \subseteq Event /\ UNCHANGED <<event, applied, notified>>
    BY <1>2 DEF Prepare, InboxInv, RunsOK
  <2> HIDE DEF ready, failed
  <2>5. CASE run' = [run EXCEPT ![p] = ready]
    BY <2>2, <2>4, <2>5, QuietStepInv, Zenon
  <2>6. CASE \E r \in BOOLEAN : run' = [run EXCEPT ![p] = failed(r)]
    BY <2>3, <2>4, <2>6, QuietStepInv, Zenon
  <2> QED
    BY <2>1, <2>5, <2>6
<1>3. CASE Lose(p)
  <2>1. run' = [run EXCEPT ![p] = Idle] /\ page' \subseteq Event /\ UNCHANGED <<event, applied, notified>>
    BY <1>3 DEF Lose, InboxInv, RunsOK
  <2> QED
    BY <2>1, IdleRun, QuietStepInv, Zenon
<1> QED
  BY <1>2, <1>3

(* completeClaim counts one application of an event that had none.         *)
LEMMA CompleteInv ==
  ASSUME InboxInv, NEW p \in Process, completeClaim(p)
  PROVE  InboxInv'
<1> DEFINE e == run[p].event
           failed(r) == [run[p] EXCEPT !.at = "fail", !.retryable = r]
<1>1. e \in Event /\ RowOK(event[e]) /\ run[p] \in RunRow /\ run[p].at = "complete"
  BY DEF InboxInv, RowsOK, RunsOK, completeClaim
<1>2. page' \subseteq Event /\ UNCHANGED notified
  BY DEF InboxInv, RunsOK, completeClaim
<1>3. CASE \E r \in BOOLEAN : run' = [run EXCEPT ![p] = failed(r)] /\ UNCHANGED <<event, applied>>
  <2>1. \A r \in BOOLEAN : failed(r) \in RunRow /\ failed(r).at = "fail" /\ failed(r).event \in Event
    BY <1>1, Zenon DEF RunRow
  <2> HIDE DEF failed
  <2> QED
    BY <1>2, <1>3, <2>1, QuietStepInv, Zenon
<1>4. ASSUME HoldsClaim(p), NEW outcome \in Terminal, NEW seen \in BOOLEAN,
             event' = [event EXCEPT ![e] = Parked(event[e], outcome, 0)],
             applied' = [applied EXCEPT ![e] = IF outcome = "processed" THEN applied[e] + 1 ELSE applied[e]],
             run' = [run EXCEPT ![p] = IF seen /\ outcome = "processed"
                                       THEN [run[p] EXCEPT !.at = "notify"] ELSE [run[p] EXCEPT !.at = "fail"]]
      PROVE  InboxInv'
  <2> DEFINE row == Parked(event[e], outcome, 0)
             place == IF seen /\ outcome = "processed"
                      THEN [run[p] EXCEPT !.at = "notify"] ELSE [run[p] EXCEPT !.at = "fail"]
  <2>1. outcome \in EventStatus \ {"processing"}
    BY <1>4 DEF EventStatus, Terminal
  <2>2. RowOK(row) /\ row.status = outcome
    BY <1>1, <2>1, ParkedRow
  <2>3. event[e].status = "processing"
    BY <1>4 DEF HoldsClaim
  <2>4. /\ place \in RunRow /\ place.event = e
        /\ place.at = "notify" => outcome = "processed"
        /\ place.at # "idle"
    <3>1. CASE seen /\ outcome = "processed"
      BY <1>1, <3>1 DEF RunRow
    <3>2. CASE ~(seen /\ outcome = "processed")
      BY <1>1, <3>2 DEF RunRow
    <3> QED
      BY <3>1, <3>2
  <2>5. event' = [event EXCEPT ![e] = row] /\ run' = [run EXCEPT ![p] = place]
    BY <1>4
  <2> HIDE DEF row, place
  <2>6. RowsOK'
    BY <1>1, <2>2, <2>5, OneEventRow, Zenon DEF InboxInv
  <2>7. RunsOK'
    BY <1>1, <1>2, <2>4, <2>5, OneRun, Zenon DEF InboxInv
  <2>8. /\ event'[e].status = outcome
        /\ \A d \in Event \ {e} : event'[d] = event[d]
    BY <1>1, <2>2, <2>5 DEF InboxInv, RowsOK
  <2>9. applied[e] = 0 /\ notified[e] = 0
    BY <1>1, <2>3 DEF InboxInv, CountsOK
  <2>10. CountsOK'
    <3>1. applied' \in [Event -> Nat] /\ notified' \in [Event -> Nat]
      BY <1>1, <1>2, <1>4 DEF InboxInv, CountsOK
    <3>2. /\ applied'[e] = IF outcome = "processed" THEN 1 ELSE 0
          /\ \A d \in Event \ {e} : applied'[d] = applied[d]
      BY <1>1, <1>4, <2>9 DEF InboxInv, CountsOK
    <3>3. \A d \in Event : applied'[d] = IF event'[d].status = "processed" THEN 1 ELSE 0
      BY <2>8, <3>2 DEF InboxInv, CountsOK
    <3>4. \A d \in Event : notified'[d] <= applied'[d]
      <4>1. notified'[e] <= applied'[e]
        BY <1>2, <2>9, <3>2
      <4>2. \A d \in Event \ {e} : notified'[d] <= applied'[d]
        BY <1>2, <3>2 DEF InboxInv, CountsOK
      <4> QED
        BY <4>1, <4>2
    <3> QED
      BY <3>1, <3>3, <3>4 DEF CountsOK
  <2>11. NotifiersOK'
    <3>1. \A q \in Process \ {p} : run'[q] = run[q]
      BY <2>5 DEF InboxInv, RunsOK
    <3>2. run'[p] = place
      BY <2>5 DEF InboxInv, RunsOK
    <3>3. \A q \in Process : run[q].at = "notify" => run[q].event \in Event \ {e}
      BY <1>1, <2>3 DEF InboxInv, RunsOK, NotifiersOK
    <3>4. \A q \in Process : run'[q].at = "notify" =>
            event'[run'[q].event].status = "processed" /\ notified'[run'[q].event] = 0
      BY <1>2, <2>4, <2>8, <2>9, <3>1, <3>2, <3>3 DEF InboxInv, NotifiersOK
    <3>5. \A q, r \in Process :
            run'[q].at = "notify" /\ run'[r].at = "notify" /\ run'[q].event = run'[r].event => q = r
      BY <2>4, <3>1, <3>2, <3>3 DEF InboxInv, NotifiersOK
    <3> QED
      BY <3>4, <3>5 DEF NotifiersOK
  <2> QED
    BY <2>6, <2>7, <2>10, <2>11 DEF InboxInv
<1>5. \/ \E r \in BOOLEAN : run' = [run EXCEPT ![p] = failed(r)] /\ UNCHANGED <<event, applied>>
      \/ /\ HoldsClaim(p)
         /\ \E outcome \in Terminal, seen \in BOOLEAN :
              /\ event' = [event EXCEPT ![e] = Parked(event[e], outcome, 0)]
              /\ applied' = [applied EXCEPT ![e] = IF outcome = "processed" THEN applied[e] + 1 ELSE applied[e]]
              /\ run' = [run EXCEPT ![p] = IF seen /\ outcome = "processed"
                                           THEN [run[p] EXCEPT !.at = "notify"] ELSE [run[p] EXCEPT !.at = "fail"]]
  BY <1>1, Zenon DEF completeClaim, RunRow
<1> QED
  BY <1>3, <1>4, <1>5, Zenon

(* failClaim parks the row of a claim that is still held.                  *)
LEMMA FailInv ==
  ASSUME InboxInv, NEW p \in Process, failClaim(p)
  PROVE  InboxInv'
<1> DEFINE e == run[p].event
           row == IF run[p].retryable /\ HasAttempts(event[e])
                  THEN Parked(event[e], "retry_wait", retryDelay[event[e].attempts])
                  ELSE Parked(event[e], "manual_review", 0)
<1>1. e \in Event /\ RowOK(event[e])
  BY DEF InboxInv, RowsOK, RunsOK, failClaim
<1>2. page' \subseteq Event /\ UNCHANGED <<applied, notified>> /\ run' = [run EXCEPT ![p] = Idle]
  BY DEF InboxInv, RunsOK, failClaim
<1>3. CASE ~HoldsClaim(p)
  <2>1. event' = event
    BY <1>3 DEF failClaim
  <2> QED
    BY <1>2, <2>1, IdleRun, QuietStepInv, Zenon
<1>4. CASE HoldsClaim(p)
  <2>1. event' = [event EXCEPT ![e] = row] /\ event[e].status = "processing"
    BY <1>4, Zenon DEF failClaim, HoldsClaim
  <2>2. RowOK(row) /\ row.status # "processed"
    <3>1. {"retry_wait", "manual_review"} \subseteq EventStatus \ {"processing"}
      BY DEF EventStatus
    <3>2. /\ RowOK(Parked(event[e], "manual_review", 0))
          /\ Parked(event[e], "manual_review", 0).status = "manual_review"
      BY <1>1, <3>1, ParkedRow
    <3>3. \A n : /\ RowOK(Parked(event[e], "retry_wait", n))
                 /\ Parked(event[e], "retry_wait", n).status = "retry_wait"
      BY <1>1, <3>1, ParkedRow
    <3> QED
      BY <3>2, <3>3
  <2> HIDE DEF row
  <2>3. RowsOK'
    BY <1>1, <2>1, <2>2, OneEventRow, Zenon DEF InboxInv
  <2>4. RunsOK'
    BY <1>2, IdleRun, OneRun, Zenon DEF InboxInv
  <2>5. SameApplied
    BY <1>1, <2>1, <2>2 DEF InboxInv, RowsOK, SameApplied
  <2>6. NoNewNotifier
    BY <1>2, IdleRun DEF InboxInv, RunsOK, NoNewNotifier
  <2> QED
    BY <1>2, <2>3, <2>4, <2>5, <2>6, NothingCommitted, Zenon DEF InboxInv
<1> QED
  BY <1>3, <1>4

(* The hook runs once, in the only process on its way to it.               *)
LEMMA NotifyInv ==
  ASSUME InboxInv, NEW p \in Process, invokeAfterCommit(p)
  PROVE  InboxInv'
<1> DEFINE e == run[p].event
<1>1. e \in Event /\ run[p].at = "notify" /\ notified[e] = 0 /\ applied[e] = 1
  BY DEF InboxInv, RunsOK, invokeAfterCommit, NotifiersOK, CountsOK
<1>2. /\ page' \subseteq Event /\ UNCHANGED <<event, applied>> /\ run' = [run EXCEPT ![p] = Idle]
      /\ notified' = [notified EXCEPT ![e] = notified[e] + 1]
  BY DEF InboxInv, RunsOK, invokeAfterCommit
<1>3. RowsOK'
  BY <1>2 DEF InboxInv, RowsOK, RowOK, EventRow
<1>4. RunsOK'
  BY <1>2, IdleRun, OneRun, Zenon DEF InboxInv
<1>5. /\ notified' \in [Event -> Nat] /\ notified'[e] = 1
      /\ \A d \in Event \ {e} : notified'[d] = notified[d]
  BY <1>1, <1>2 DEF InboxInv, CountsOK
<1>6. CountsOK'
  BY <1>1, <1>2, <1>5 DEF InboxInv, CountsOK
<1>7. NotifiersOK'
  <2>1. \A q \in Process : run'[q].at = "notify" => q # p /\ run'[q] = run[q] /\ run[q].event \in Event \ {e}
    BY <1>1, <1>2, IdleRun DEF InboxInv, RunsOK, NotifiersOK
  <2> QED
    BY <1>2, <1>5, <2>1 DEF InboxInv, NotifiersOK
<1> QED
  BY <1>3, <1>4, <1>6, <1>7 DEF InboxInv

(* Time runs down the leases and the delays and nothing else.              *)
LEMMA TickInv ==
  ASSUME InboxInv, InboxTick
  PROVE  InboxInv'
<1>1. ASSUME NEW e \in Event PROVE RowOK(event'[e]) /\ event'[e].status = event[e].status
  <2> DEFINE lease == Less(event[e].lease)
             next == Less(event[e].next)
             row == [event[e] EXCEPT !.lease = lease, !.next = next]
  <2>1. event'[e] = row
    BY Zenon DEF InboxTick
  <2>2. RowOK(event[e])
    BY DEF InboxInv, RowsOK
  <2>3. lease \in Nat
    BY <2>2 DEF RowOK, EventRow, Less
  <2> HIDE DEF lease, next
  <2>4. row \in EventRow(next) /\ row.next = next /\ row.status = event[e].status /\ row.owner = event[e].owner
    BY <2>2, <2>3, Zenon DEF RowOK, EventRow
  <2> HIDE DEF row
  <2>5. RowOK(row)
    BY <2>2, <2>4 DEF RowOK
  <2> QED
    BY <2>1, <2>4, <2>5
<1>2. DOMAIN event' = Event /\ event' = [e \in Event |-> event'[e]]
  BY Zenon DEF InboxTick
<1>3. \A e \in Event : RowOK(event'[e]) /\ event'[e].status = event[e].status
  BY <1>1
<1>4. RowsOK'
  BY <1>2, <1>3 DEF RowsOK, RowOK, EventRow
<1>5. SameApplied
  BY <1>3 DEF SameApplied
<1>6. UNCHANGED <<run, page, applied, notified>>
  BY Zenon DEF InboxTick
<1>7. RunsOK' /\ NoNewNotifier
  BY <1>6 DEF InboxInv, RunsOK, NoNewNotifier
<1> QED
  BY <1>4, <1>5, <1>6, <1>7, NothingCommitted DEF InboxInv

(* Every step keeps the invariant.                                         *)
LEMMA InboxStepInv == InboxInv /\ [InboxNext]_inboxVars => InboxInv'
<1> SUFFICES ASSUME InboxInv, [InboxNext]_inboxVars PROVE InboxInv'
  BY Zenon
<1>1. CASE UNCHANGED inboxVars
  BY <1>1 DEF inboxVars, InboxInv, RowsOK, RowOK, EventRow, RunsOK, CountsOK, NotifiersOK
<1>2. CASE InboxNext
  BY <1>2, IngestInv, PageInv, ClaimInv, PrepareInv, CompleteInv, FailInv, NotifyInv, TickInv, Zenon
     DEF InboxNext, Process1
<1> QED
  BY <1>1, <1>2

(* The inductive invariant holds throughout.                               *)
THEOREM InboxInvariant == InboxSpec => []InboxInv
  BY InboxInitInv, InboxStepInv, PTL DEF InboxSpec

(* Rows keep their type, have an owner exactly while they are claimed, and *)
(* claimEvent never exceeds the budget of attempts.                        *)
THEOREM InboxTypeCorrect == InboxSpec => []InboxTypeOK
<1>1. InboxInv => InboxTypeOK
  BY Zenon DEF InboxInv, RowsOK, RowOK, EventRow, InboxTypeOK
<1> QED
  BY <1>1, InboxInvariant, PTL

(* completeClaim commits the business change of an event exactly once, and *)
(* the AfterCommit hook runs at most once and only for a change that is    *)
(* there.                                                                  *)
THEOREM AppliedExactlyOnce == InboxSpec => []AppliedOnce
<1>1. InboxInv => AppliedOnce
  BY DEF InboxInv, CountsOK, AppliedOnce
<1> QED
  BY <1>1, InboxInvariant, PTL

-----------------------------------------------------------------------------

(***************************************************************************)
(* RefreshChain for any number of chains, tokens and concurrent requests:  *)
(* a token is traded in once, a chain has one usable token at most, and a  *)
(* chain without one stays without.                                        *)
(***************************************************************************)

(* A token that has a child was traded in for it, by the rotation that     *)
(* made the child.                                                         *)
ParentsRotated ==
  \A k \in Token : token[k].state # "absent" /\ token[k].parent # NoToken
                   => token[k].parent \in Token /\ token[token[k].parent].state = "rotated"

(* A request beyond its lookup holds the row of a drawn token.             *)
RequestsKnow ==
  \A r \in Refresh : refresh[r].at # "idle"
                     => refresh[r].token \in Token /\ token[refresh[r].token].state # "absent"

(* Every token that was drawn belongs to a chain.                          *)
DrawnHaveChain == \A k \in Token : token[k].state # "absent" => token[k].chain \in Chain

ChainInv == ChainTypeOK /\ OneSuccessor /\ ParentsRotated /\ RequestsKnow /\ DrawnHaveChain

LEMMA ChainInitInv == ChainInit => ChainInv
<1> SUFFICES ASSUME ChainInit PROVE ChainInv
  OBVIOUS
<1>1. ChainTypeOK
  BY ChainAssumption DEF ChainInit, ChainTypeOK, TokenRow, TokenState, Reason, RequestRow, IdleRequest
<1>2. OneSuccessor
  BY DEF ChainInit, OneSuccessor, LiveTokens, Known
<1>3. ParentsRotated /\ RequestsKnow /\ DrawnHaveChain
  BY DEF ChainInit, ParentsRotated, RequestsKnow, DrawnHaveChain, IdleRequest
<1> QED
  BY <1>1, <1>2, <1>3, Zenon DEF ChainInv

(* An UPDATE over a chain only takes live tokens out of use.               *)
LEMMA RevokePreserves ==
  ASSUME ChainInv, NEW c, NEW reason \in Reason \ {"rotated"}, token' = RevokedRows(c, reason),
         refresh' \in [Refresh -> RequestRow],
         \A r \in Refresh : refresh'[r] = refresh[r] \/ refresh'[r] = IdleRequest
  PROVE  ChainInv'
<1>a. /\ token \in [Token -> TokenRow] /\ OneSuccessor /\ ParentsRotated
      /\ RequestsKnow /\ DrawnHaveChain
  BY DEF ChainInv, ChainTypeOK
<1>1. \A k \in Token : /\ token'[k].chain = token[k].chain /\ token'[k].parent = token[k].parent
                       /\ token'[k].state = "absent" <=> token[k].state = "absent"
                       /\ token'[k].state = "live" => token[k].state = "live"
                       /\ token[k].state = "rotated" => token'[k].state = "rotated"
                       /\ token'[k] \in TokenRow
  BY <1>a, Zenon DEF RevokedRows, LiveTokens, Known, TokenRow, TokenState, Reason
<1>2. ChainTypeOK'
  BY <1>1 DEF ChainTypeOK, RevokedRows
<1>3. OneSuccessor'
  BY <1>1, <1>a DEF OneSuccessor, LiveTokens, Known
<1>4. ParentsRotated'
  BY <1>1, <1>a DEF ParentsRotated
<1>5. RequestsKnow'
  BY <1>1, <1>a DEF RequestsKnow, IdleRequest
<1>6. DrawnHaveChain'
  BY <1>1, <1>a DEF DrawnHaveChain
<1> QED
  BY <1>2, <1>3, <1>4, <1>5, <1>6 DEF ChainInv

(* A step that leaves the rows of tokens alone.                            *)
LEMMA RequestPreserves ==
  ASSUME ChainInv, token' = token, refresh' \in [Refresh -> RequestRow],
         \A r \in Refresh : \/ refresh'[r] = refresh[r] \/ refresh'[r] = IdleRequest
                            \/ refresh'[r].token \in Token /\ token[refresh'[r].token].state # "absent"
  PROVE  ChainInv'
<1>1. ChainTypeOK'
  BY Zenon DEF ChainInv, ChainTypeOK
<1>2. OneSuccessor' /\ ParentsRotated' /\ DrawnHaveChain'
  BY DEF ChainInv, OneSuccessor, LiveTokens, Known, ParentsRotated, DrawnHaveChain
<1>3. RequestsKnow'
  BY DEF ChainInv, RequestsKnow, IdleRequest
<1> QED
  BY <1>1, <1>2, <1>3 DEF ChainInv

LEMMA ChainStep == ChainInv /\ [ChainNext]_chainVars => ChainInv'
<1> SUFFICES ASSUME ChainInv, [ChainNext]_chainVars PROVE ChainInv'
  OBVIOUS
<1>a. /\ token \in [Token -> TokenRow] /\ refresh \in [Refresh -> RequestRow]
      /\ OneSuccessor /\ ParentsRotated /\ RequestsKnow /\ DrawnHaveChain
  BY DEF ChainInv, ChainTypeOK
<1>b. IdleRequest \in RequestRow
  BY DEF IdleRequest, RequestRow
<1>c. \A c \in Chain, p \in Token \cup {NoToken} :
        /\ NewRow(c, p) \in TokenRow /\ NewRow(c, p).state = "live"
        /\ NewRow(c, p).chain = c /\ NewRow(c, p).parent = p
  BY ChainAssumption DEF NewRow, TokenRow, TokenState
<1>1. ASSUME NEW c \in Chain, NEW k \in Token, Issue(c, k) PROVE ChainInv'
  <2>1. /\ token'[k] = NewRow(c, NoToken) /\ token[k].state = "absent" /\ Known(c) = {}
        /\ \A l \in Token : l # k => token'[l] = token[l]
        /\ refresh' = refresh
    BY <1>1, <1>a DEF Issue
  <2>2. ChainTypeOK'
    BY <1>1, <1>a, <1>c, Zenon DEF Issue, ChainTypeOK
  <2>3. OneSuccessor'
    BY <2>1, <1>a, <1>c DEF OneSuccessor, LiveTokens, Known
  <2>4. ParentsRotated'
    BY <2>1, <1>a, <1>c DEF ParentsRotated
  <2>5. RequestsKnow' /\ DrawnHaveChain'
    BY <2>1, <1>a, <1>c DEF RequestsKnow, DrawnHaveChain
  <2> QED
    BY <2>2, <2>3, <2>4, <2>5 DEF ChainInv
<1>2. ASSUME NEW r \in Refresh, NEW k \in Token, Present(r, k) PROVE ChainInv'
  <2>1. /\ token' = token /\ refresh' \in [Refresh -> RequestRow]
        /\ \A q \in Refresh : q # r => refresh'[q] = refresh[q]
        /\ refresh'[r].token = k /\ token[k].state # "absent"
    BY <1>2, <1>a DEF Present, RequestRow
  <2> QED
    BY <2>1, RequestPreserves
<1>3. ASSUME NEW r \in Refresh, NEW child \in Token, Rotate(r, child) PROVE ChainInv'
  <2> DEFINE k == refresh[r].token
  <2>1. k \in Token /\ refresh' \in [Refresh -> RequestRow]
        /\ \A q \in Refresh : q # r => refresh'[q] = refresh[q]
    BY <1>3, <1>a, <1>b DEF Rotate, RequestsKnow
  <2>2. refresh'[r] = IdleRequest /\ token[child].state = "absent"
    BY <1>3, <1>a DEF Rotate
  <2>3. CASE ~Rotatable(k)
    BY <1>3, <2>1, <2>2, <2>3, RequestPreserves, Zenon DEF Rotate
  <2>4. CASE Rotatable(k)
    <3>1. /\ k # child /\ token[k].state = "live" /\ token[k].chain \in Chain
      BY <2>1, <2>2, <2>4, <1>a DEF Rotatable, DrawnHaveChain
    <3>2. token' = [token EXCEPT ![k].state = "rotated", ![child] = NewRow(token[k].chain, k)]
      BY <1>3, <2>4, Zenon DEF Rotate
    <3>3. /\ token'[child] = NewRow(token[k].chain, k)
          /\ token'[k].state = "rotated" /\ token'[k].chain = token[k].chain
          /\ token'[k].parent = token[k].parent /\ token'[k] \in TokenRow
          /\ \A l \in Token \ {k, child} : token'[l] = token[l]
      BY <3>1, <3>2, <2>1, <1>a, Zenon DEF TokenRow, TokenState, Reason
    <3>4. ChainTypeOK'
      BY <3>1, <3>2, <3>3, <2>1, <1>a, <1>c, Zenon DEF ChainTypeOK
    <3> HIDE DEF k
    <3>5. OneSuccessor'
      <4>1. ASSUME NEW c \in Chain, NEW x \in LiveTokens(c)', NEW y \in LiveTokens(c)'
            PROVE  x = y
        BY <4>1, <3>1, <3>3, <2>1, <1>a, <1>c DEF OneSuccessor, LiveTokens, Known
      <4>2. ASSUME NEW x \in Token, NEW y \in Token, token'[x].state # "absent",
                   token'[y].state # "absent", token'[x].parent = token'[y].parent,
                   token'[x].parent # NoToken
            PROVE  x = y
        <5>1. ASSUME NEW z \in Token, z # child, token'[z].state # "absent" PROVE token'[z].parent # k
          BY <5>1, <3>1, <3>3, <2>1, <1>a, ChainAssumption DEF ParentsRotated
        <5>2. token'[child].parent = k
          BY <3>1, <3>3, <2>1, <1>c
        <5>3. CASE x = child \/ y = child
          BY <5>1, <5>2, <5>3, <4>2, Zenon
        <5>4. CASE x # child /\ y # child
          BY <5>4, <4>2, <3>1, <3>3, <1>a DEF OneSuccessor
        <5> QED
          BY <5>3, <5>4, Zenon
      <4> QED
        BY <4>1, <4>2, Zenon DEF OneSuccessor
    <3>6. ParentsRotated'
      BY <3>1, <3>3, <2>1, <2>2, <1>a, <1>c DEF ParentsRotated
    <3>7. RequestsKnow' /\ DrawnHaveChain'
      BY <3>1, <3>3, <2>1, <2>2, <1>a, <1>c DEF RequestsKnow, DrawnHaveChain, IdleRequest
    <3> QED
      BY <3>4, <3>5, <3>6, <3>7 DEF ChainInv
  <2> QED
    BY <2>3, <2>4
<1>4. ASSUME NEW r \in Refresh, sweepChainAsReplay(r) PROVE ChainInv'
  BY <1>4, <1>a, <1>b, RevokePreserves DEF sweepChainAsReplay, Reason
<1>5. ASSUME NEW r \in Refresh, Abandon(r) PROVE ChainInv'
  BY <1>5, <1>a, <1>b, RequestPreserves DEF Abandon
<1>6. ASSUME NEW c \in Chain, Revoke(c) PROVE ChainInv'
  BY <1>6, <1>a, RevokePreserves DEF Revoke, Reason
<1>7. ASSUME ChainTick PROVE ChainInv'
  <2>1. /\ token' \in [Token -> TokenRow] /\ refresh' = refresh
        /\ \A k \in Token : /\ token'[k].state = token[k].state /\ token'[k].chain = token[k].chain
                            /\ token'[k].parent = token[k].parent
    BY <1>7, <1>a DEF ChainTick, TokenRow
  <2>2. ChainTypeOK' /\ ParentsRotated' /\ RequestsKnow' /\ DrawnHaveChain'
    BY <2>1, <1>a DEF ChainTypeOK, ParentsRotated, RequestsKnow, DrawnHaveChain
  <2>3. OneSuccessor'
    BY <2>1, <1>a DEF OneSuccessor, LiveTokens, Known
  <2> QED
    BY <2>2, <2>3 DEF ChainInv
<1>8. ASSUME UNCHANGED chainVars PROVE ChainInv'
  BY <1>8, <1>a, RequestPreserves DEF chainVars
<1> QED
  BY <1>1, <1>2, <1>3, <1>4, <1>5, <1>6, <1>7, <1>8, Zenon DEF ChainNext

(* The inductive invariant holds throughout.                               *)
THEOREM ChainInvariant == ChainSpec => []ChainInv
  BY ChainInitInv, ChainStep, PTL DEF ChainSpec

(* However many requests saw a refresh token as live, Rotate trades it in  *)
(* once, and one token of a chain at most is usable.                       *)
THEOREM TradedInOnce == ChainSpec => []OneSuccessor
<1>1. ChainInv => OneSuccessor
  BY DEF ChainInv
<1> QED
  BY <1>1, ChainInvariant, PTL

(* The body of EndedChainsStay.                                            *)
EndedStep == \A c \in Chain : Known(c) # {} /\ LiveTokens(c) = {} => LiveTokens(c)' = {}

LEMMA EndedLemma == ChainInv /\ [ChainNext]_chainVars => EndedStep
<1> SUFFICES ASSUME ChainInv, [ChainNext]_chainVars, NEW c \in Chain,
                    Known(c) # {}, LiveTokens(c) = {}
             PROVE  LiveTokens(c)' = {}
  BY DEF EndedStep
<1>a. /\ token \in [Token -> TokenRow] /\ RequestsKnow
  BY DEF ChainInv, ChainTypeOK
<1>b. ASSUME \A k \in Token : token'[k].state = "live" => token[k].state = "live" /\ token'[k].chain = token[k].chain
      PROVE  LiveTokens(c)' = {}
  BY <1>b DEF LiveTokens, Known
<1>c. ASSUME NEW d, NEW reason \in Reason, token' = RevokedRows(d, reason) PROVE LiveTokens(c)' = {}
  BY <1>a, <1>b, <1>c, Zenon DEF RevokedRows, LiveTokens, Known, TokenRow, Reason
<1>1. ASSUME NEW d \in Chain, NEW k \in Token, Issue(d, k) PROVE LiveTokens(c)' = {}
  BY <1>1, <1>a, Zenon DEF Issue, LiveTokens, Known, NewRow
<1>2. ASSUME NEW r \in Refresh, NEW k \in Token, Present(r, k) PROVE LiveTokens(c)' = {}
  BY <1>2, <1>b DEF Present
<1>3. ASSUME NEW r \in Refresh, NEW child \in Token, Rotate(r, child) PROVE LiveTokens(c)' = {}
  <2> DEFINE k == refresh[r].token
  <2>1. k \in Token
    BY <1>3, <1>a DEF Rotate, RequestsKnow
  <2>2. CASE ~Rotatable(k)
    BY <1>3, <2>2, <1>b DEF Rotate
  <2>3. CASE Rotatable(k)
    <3>1. token[k].chain # c /\ k # child
      BY <1>3, <2>1, <2>3 DEF Rotate, Rotatable, LiveTokens, Known
    <3>2. token' = [token EXCEPT ![k].state = "rotated", ![child] = NewRow(token[k].chain, k)]
      BY <1>3, <2>3, Zenon DEF Rotate
    <3>3. /\ token'[child].chain # c /\ token'[k].state # "live"
          /\ \A l \in Token \ {k, child} : token'[l] = token[l]
      BY <3>1, <3>2, <2>1, <1>a, Zenon DEF NewRow, TokenRow
    <3> HIDE DEF k
    <3> QED
      BY <3>3 DEF LiveTokens, Known
  <2> QED
    BY <2>2, <2>3
<1>4. ASSUME NEW r \in Refresh, sweepChainAsReplay(r) \/ Abandon(r) PROVE LiveTokens(c)' = {}
  BY <1>4, <1>b, <1>c DEF sweepChainAsReplay, Abandon, Reason
<1>5. ASSUME NEW d \in Chain, Revoke(d) PROVE LiveTokens(c)' = {}
  BY <1>5, <1>c DEF Revoke, Reason
<1>6. ASSUME ChainTick PROVE LiveTokens(c)' = {}
  BY <1>6, <1>a, <1>b DEF ChainTick, TokenRow
<1>7. ASSUME UNCHANGED chainVars PROVE LiveTokens(c)' = {}
  BY <1>7, <1>b DEF chainVars
<1> QED
  BY <1>1, <1>2, <1>3, <1>4, <1>5, <1>6, <1>7, Zenon DEF ChainNext

(* A chain that was swept as a replay or signed out never has a usable     *)
(* token again, whichever rotations had looked theirs up before.           *)
THEOREM EndedForGood == ChainSpec => EndedChainsStay
<1>1. ChainInv /\ [ChainNext]_chainVars => [EndedStep]_chainVars
  BY EndedLemma
<1> QED
  BY <1>1, ChainInvariant, PTL DEF ChainSpec, EndedChainsStay, EndedStep

-----------------------------------------------------------------------------

(***************************************************************************)
(* LoginTransaction for any number of concurrent requests, any lifetime    *)
(* and any budget of passwords: one code, one call of Google, no way back. *)
(***************************************************************************)

LoginRow == [state : LoginState, version : Nat, failures : Nat, ttl : Nat]

CallerRow ==
  [at : {"idle", "loaded", "authenticate", "complete", "release"},
   op : Operation \cup {"none"}, version : Nat, rejected : BOOLEAN]

(* Only a login, not a start or an exchange, gets as far as a claim.       *)
ClaimsAreLogins ==
  \A p \in Caller : caller[p].at \in {"authenticate", "complete", "release"}
                     => caller[p].op \in {"password", "callback"}

LoginRows ==
  login \in LoginRow /\ caller \in [Caller -> CallerRow] /\ codes \in Nat /\ adapterRuns \in Nat

(* The states before the provider's state is consumed.                     *)
Early == {"pending", "password_authenticating", "google_pending"}

(* p is about to run the Google adapter.                                   *)
Asking(p) == caller[p].at = "authenticate" /\ caller[p].op = "callback"

(* Google is asked only once the transaction has left its early states for *)
(* good, by the one request whose swap took it out of them.                *)
AskedOnce ==
  /\ login.state \in Early => adapterRuns = 0 /\ \A p \in Caller : ~Asking(p)
  /\ \A p, q \in Caller : Asking(p) => adapterRuns = 0 /\ (Asking(q) => p = q)

(* A password is still allowed in an early state, and the last write of    *)
(* all can only be an expiry.                                              *)
BudgetsKept ==
  /\ login.failures <= MaxPasswordFailures /\ login.ttl <= TTL
  /\ login.state \in Early => login.failures < MaxPasswordFailures
  /\ 1 <= login.version /\ login.version <= MaxVersion + 1
  /\ login.state # "expired" => login.version <= MaxVersion

LoginInv == LoginRows /\ ClaimsAreLogins /\ OneCodePerLogin /\ AskedOnce /\ BudgetsKept

(* The record after a write with a new version.                            *)
Written(row, state, failures) ==
  [row EXCEPT !.state = state, !.failures = failures, !.version = @ + 1]

LEMMA WrittenRow ==
  ASSUME NEW row \in LoginRow, NEW state \in LoginState, NEW failures \in Nat
  PROVE  /\ Written(row, state, failures) \in LoginRow
         /\ Written(row, state, failures).version = row.version + 1
         /\ Written(row, state, failures).ttl = row.ttl
         /\ Written(row, state, failures).state = state
         /\ Written(row, state, failures).failures = failures
<1> DEFINE v == row.version + 1
           next == [row EXCEPT !.state = state, !.failures = failures, !.version = v]
<1>1. v \in Nat /\ Written(row, state, failures) = next
  BY DEF LoginRow, Written
<1> HIDE DEF v
<1>2. next \in LoginRow
  BY <1>1, Zenon DEF LoginRow
<1>3. next.version = v /\ next.ttl = row.ttl /\ next.state = state /\ next.failures = failures
  BY <1>1 DEF LoginRow
<1> QED
  BY <1>1, <1>2, <1>3 DEF v

(* CompareAndSwap expires a record that is past its time and writes what   *)
(* was asked of it otherwise.                                              *)
LEMMA SwapWrites ==
  ASSUME login \in LoginRow, NEW p, NEW state \in LoginState, NEW failures \in Nat,
         \/ Swap(p, [login EXCEPT !.failures = failures, !.state = state])
         \/ Swap(p, [login EXCEPT !.state = state]) /\ failures = login.failures
  PROVE  /\ login' \in LoginRow /\ login'.version = login.version + 1 /\ login'.ttl = login.ttl
         /\ Lapsed => login'.state = "expired" /\ login'.failures = login.failures
         /\ ~Lapsed => login'.state = state /\ login'.failures = failures
<1>1. "expired" \in LoginState /\ login.failures \in Nat
  BY DEF LoginState, LoginRow
<1>2. CASE Lapsed
  <2>1. login' = Written(login, "expired", login.failures)
    BY <1>2, Zenon DEF Swap, Written, LoginRow
  <2> QED
    BY <1>1, <1>2, <2>1, WrittenRow
<1>3. CASE ~Lapsed
  <2>1. login' = Written(login, state, failures)
    BY <1>3, Zenon DEF Swap, Written, LoginRow
  <2> QED
    BY <1>3, <2>1, WrittenRow
<1> QED
  BY <1>2, <1>3

LEMMA LoginInitInv == LoginInit => LoginInv
<1> SUFFICES ASSUME LoginInit PROVE LoginInv
  OBVIOUS
<1>1. LoginRows /\ ClaimsAreLogins
  BY LoginAssumption DEF LoginInit, LoginRows, ClaimsAreLogins, LoginRow, CallerRow, LoginState, Operation, Away
<1>2. OneCodePerLogin /\ AskedOnce
  BY DEF LoginInit, OneCodePerLogin, AskedOnce, Early, Asking, Away
<1>3. BudgetsKept
  BY LoginAssumption DEF LoginInit, BudgetsKept, Early
<1> QED
  BY <1>1, <1>2, <1>3 DEF LoginInv

(* Only the request of p moves, and it starts no call of the adapter.      *)
CallerMoves(p) ==
  /\ caller' \in [Caller -> CallerRow] /\ \A q \in Caller : q # p => caller'[q] = caller[q]
  /\ caller'[p].at \in {"authenticate", "complete", "release"} => caller'[p].op \in {"password", "callback"}
  /\ ~(caller'[p].at = "authenticate" /\ caller'[p].op = "callback")

LEMMA CallerSet ==
  ASSUME caller \in [Caller -> CallerRow], NEW p \in Caller, NEW row \in CallerRow,
         caller' = [caller EXCEPT ![p] = row],
         row.at \in {"authenticate", "complete", "release"} => row.op \in {"password", "callback"},
         ~(row.at = "authenticate" /\ row.op = "callback")
  PROVE  CallerMoves(p)
  BY DEF CallerMoves

(* A request that stops asking, or never did, disturbs nobody.             *)
LEMMA CallerOnly ==
  ASSUME LoginInv, NEW p \in Caller, login' = login, codes' = codes, adapterRuns' = adapterRuns,
         CallerMoves(p)
  PROVE  LoginInv'
<1>a. LoginRows /\ ClaimsAreLogins /\ OneCodePerLogin /\ AskedOnce /\ BudgetsKept
  BY DEF LoginInv
<1>1. LoginRows' /\ ClaimsAreLogins' /\ OneCodePerLogin' /\ BudgetsKept'
  BY <1>a, Zenon DEF CallerMoves, LoginRows, ClaimsAreLogins, OneCodePerLogin, BudgetsKept
<1>2. AskedOnce'
  BY <1>a DEF CallerMoves, AskedOnce, Asking
<1> QED
  BY <1>1, <1>2 DEF LoginInv

(* A write of the record moves it forward: from a state that is not final, *)
(* never back into an early one, with its budgets kept.                    *)
RecordMoves ==
  /\ login' \in LoginRow /\ login'.version = login.version + 1 /\ login'.ttl = login.ttl
  /\ login'.failures <= MaxPasswordFailures
  /\ login'.state \in Early => login.state \in Early /\ login'.failures < MaxPasswordFailures
  /\ login.state \notin {"exchanged", "expired"}
  /\ login'.state = "expired" \/ login.version < MaxVersion

LEMMA RecordAndCaller ==
  ASSUME LoginInv, NEW p \in Caller, CallerMoves(p), RecordMoves, adapterRuns' = adapterRuns,
         codes' = IF login'.state = "exchanged" THEN codes + 1 ELSE codes
  PROVE  LoginInv'
<1>a. LoginRows /\ ClaimsAreLogins /\ OneCodePerLogin /\ AskedOnce /\ BudgetsKept
  BY DEF LoginInv
<1>1. codes' \in Nat /\ codes = 0
  BY <1>a DEF LoginRows, OneCodePerLogin, RecordMoves
<1>2. LoginRows' /\ ClaimsAreLogins' /\ OneCodePerLogin'
  BY <1>a, <1>1 DEF LoginRows, ClaimsAreLogins, OneCodePerLogin, CallerMoves, RecordMoves
<1>3. BudgetsKept'
  BY <1>a, LoginAssumption DEF BudgetsKept, LoginRows, LoginRow, RecordMoves
<1>4. AskedOnce'
  BY <1>a DEF AskedOnce, Asking, CallerMoves, RecordMoves
<1> QED
  BY <1>2, <1>3, <1>4 DEF LoginInv

LEMMA LoginStep == LoginInv /\ [LoginNext]_loginVars => LoginInv'
<1> SUFFICES ASSUME LoginInv, [LoginNext]_loginVars PROVE LoginInv'
  OBVIOUS
<1>a. /\ LoginRows /\ ClaimsAreLogins /\ OneCodePerLogin /\ AskedOnce /\ BudgetsKept
      /\ login \in LoginRow /\ caller \in [Caller -> CallerRow]
  BY DEF LoginInv, LoginRows
<1>b. Away \in CallerRow /\ Away.at = "idle"
  BY DEF Away, CallerRow
<1>c. Lapsed => login.state \notin {"exchanged", "failed", "expired"}
  BY DEF Lapsed, stateCanExpire
<1>g. "expired" \in LoginState
  BY DEF LoginState
<1>e. ASSUME NEW p \in Caller, NEW state \in LoginState, Swap(p, [login EXCEPT !.state = state])
      PROVE  /\ login' \in LoginRow /\ login'.version = login.version + 1 /\ login'.ttl = login.ttl
             /\ login'.failures = login.failures
             /\ login'.state = IF Lapsed THEN "expired" ELSE state
  <2>1. login.failures \in Nat
    BY <1>a DEF LoginRow
  <2> QED
    BY <2>1, <1>a, <1>e, SwapWrites, Zenon
<1>f. login.failures <= MaxPasswordFailures
      /\ (login.state \in Early => login.failures < MaxPasswordFailures)
  BY <1>a DEF BudgetsKept
<1>h. \A p \in Caller : caller' = [caller EXCEPT ![p] = Away] => CallerMoves(p)
  BY <1>a, <1>b, CallerSet, Zenon
<1>1. ASSUME NEW p \in Caller, NEW op \in Operation, Load(p, op) PROVE LoginInv'
  <2>1. CASE Lapsed
    <3>1. /\ login' = [login EXCEPT !.state = "expired", !.version = @ + 1]
          /\ caller' = caller /\ caller[p] = Away /\ codes' = codes /\ adapterRuns' = adapterRuns
      BY <1>1, <2>1 DEF Load
    <3>2. login.failures \in Nat /\ login' = Written(login, "expired", login.failures)
      BY <3>1, <1>a, Zenon DEF LoginRow, Written
    <3>3. RecordMoves /\ login'.state = "expired"
      BY <2>1, <3>2, <1>a, <1>c, <1>f, <1>g, WrittenRow DEF RecordMoves, Early
    <3>4. CallerMoves(p)
      BY <3>1, <1>a, <1>b DEF CallerMoves
    <3> QED
      BY <3>1, <3>3, <3>4, RecordAndCaller
  <2>2. CASE ~Lapsed
    <3> DEFINE row == [Away EXCEPT !.at = "loaded", !.op = op, !.version = login.version]
    <3>1. row \in CallerRow /\ row.at = "loaded"
      BY <1>a, Zenon DEF Away, CallerRow, LoginRow
    <3>2. caller' = [caller EXCEPT ![p] = row] /\ login' = login /\ codes' = codes /\ adapterRuns' = adapterRuns
      BY <1>1, <2>2 DEF Load
    <3> HIDE DEF row
    <3>3. CallerMoves(p)
      BY <3>1, <3>2, <1>a, CallerSet, Zenon
    <3> QED
      BY <3>2, <3>3, CallerOnly
  <2> QED
    BY <2>1, <2>2
<1>2. ASSUME NEW p \in Caller, Claim(p) PROVE LoginInv'
  <2> DEFINE op == caller[p].op
             row == [caller[p] EXCEPT !.at = "authenticate", !.version = login.version + 1]
  <2>1. /\ op \in {"password", "callback"} /\ Becomes(op) \in LoginState
        /\ Becomes(op) \in {"password_authenticating", "google_exchanging"}
        /\ Swap(p, [login EXCEPT !.state = Becomes(op)])
        /\ login.version < MaxVersion /\ codes' = codes /\ adapterRuns' = adapterRuns
        /\ ~Lapsed => login.state \in Early
    BY <1>2 DEF Claim, Becomes, From, LoginState, Early
  <2>2. row \in CallerRow /\ row.at = "authenticate" /\ row.op = op
    <3> DEFINE v == login.version + 1
    <3>1. v \in Nat /\ caller[p] \in CallerRow
      BY <1>a DEF LoginRow
    <3> HIDE DEF v
    <3>2. [caller[p] EXCEPT !.at = "authenticate", !.version = v] \in CallerRow
      BY <3>1, Zenon DEF CallerRow
    <3> QED
      BY <3>1, <3>2 DEF v, CallerRow
  <2>3. /\ login' \in LoginRow /\ login'.version = login.version + 1 /\ login'.ttl = login.ttl
        /\ login'.failures = login.failures
        /\ login'.state = IF Lapsed THEN "expired" ELSE Becomes(op)
    BY <2>1, <1>e
  <2>4. RecordMoves /\ login'.state # "exchanged"
    BY <2>1, <2>3, <1>c, <1>f DEF RecordMoves, Early
  <2>5. CASE Lapsed
    <3>1. CallerMoves(p)
      BY <1>2, <2>5, <1>h, Zenon DEF Claim
    <3> QED
      BY <2>1, <2>4, <3>1, RecordAndCaller
  <2>6. CASE ~Lapsed
    <3>1. caller' = [caller EXCEPT ![p] = row] /\ login'.state = Becomes(op)
      BY <1>2, <2>3, <2>6, Zenon DEF Claim
    <3> HIDE DEF row
    <3>2. CASE op = "password"
      <4>1. CallerMoves(p)
        BY <2>2, <3>1, <3>2, <1>a, CallerSet, Zenon
      <4> QED
        BY <2>1, <2>4, <4>1, RecordAndCaller
    <3>3. CASE op = "callback"
      <4>1. /\ login'.state = "google_exchanging"
            /\ caller'[p] = row /\ \A q \in Caller : q # p => caller'[q] = caller[q]
            /\ caller' \in [Caller -> CallerRow]
        BY <3>1, <3>3, <2>2, <1>a DEF Becomes
      <4>2. codes = 0
        BY <2>1, <2>6, <1>a DEF OneCodePerLogin, Early
      <4>3. adapterRuns = 0 /\ \A q \in Caller : ~Asking(q)
        BY <2>1, <2>6, <1>a DEF AskedOnce
      <4>4. LoginRows' /\ ClaimsAreLogins' /\ OneCodePerLogin'
        BY <4>1, <4>2, <4>3, <2>1, <2>2, <2>3, <1>a, Zenon DEF LoginRows, ClaimsAreLogins, OneCodePerLogin
      <4>5. BudgetsKept'
        BY <4>1, <2>1, <2>3, <1>a, LoginAssumption DEF BudgetsKept, LoginRow, Early
      <4>6. AskedOnce'
        BY <4>1, <4>3, <2>1 DEF AskedOnce, Asking, Early
      <4> QED
        BY <4>4, <4>5, <4>6 DEF LoginInv
    <3> QED
      BY <2>1, <3>2, <3>3
  <2> QED
    BY <2>5, <2>6
<1>3. ASSUME NEW p \in Caller, StartGoogle(p) PROVE LoginInv'
  <2>1. /\ Swap(p, [login EXCEPT !.state = "google_pending"]) /\ "google_pending" \in LoginState
        /\ login.version < MaxVersion /\ codes' = codes /\ adapterRuns' = adapterRuns
        /\ caller' = [caller EXCEPT ![p] = Away] /\ (Lapsed \/ login.state = "pending")
    BY <1>3 DEF StartGoogle, Becomes, From, LoginState
  <2>2. /\ login' \in LoginRow /\ login'.version = login.version + 1 /\ login'.ttl = login.ttl
        /\ login'.failures = login.failures
        /\ login'.state = IF Lapsed THEN "expired" ELSE "google_pending"
    BY <2>1, <1>e
  <2>3. RecordMoves /\ login'.state # "exchanged"
    BY <2>1, <2>2, <1>c, <1>f DEF RecordMoves, Early
  <2> QED
    BY <2>1, <2>3, <1>h, RecordAndCaller, Zenon
<1>4. ASSUME NEW p \in Caller, Authenticate(p) PROVE LoginInv'
  <2>1. PICK verdict \in {"accepted", "refused", "unavailable"} :
          caller' = [caller EXCEPT ![p].at = IF verdict = "accepted" THEN "complete" ELSE "release",
                                   ![p].rejected = verdict = "refused"]
    BY <1>4, Zenon DEF Authenticate
  <2>2. /\ caller'[p].at \in {"complete", "release"} /\ caller'[p].op = caller[p].op
        /\ \A q \in Caller : q # p => caller'[q] = caller[q]
        /\ caller' \in [Caller -> CallerRow]
    <3> DEFINE at == IF verdict = "accepted" THEN "complete" ELSE "release"
               rejected == verdict = "refused"
    <3>1. at \in {"complete", "release"} /\ rejected \in BOOLEAN
      OBVIOUS
    <3>2. caller' = [caller EXCEPT ![p] = [caller[p] EXCEPT !.at = at, !.rejected = rejected]]
      BY <2>1, <1>a, Zenon DEF CallerRow
    <3> HIDE DEF at, rejected
    <3>3. /\ [caller[p] EXCEPT !.at = at, !.rejected = rejected] \in CallerRow
          /\ [caller[p] EXCEPT !.at = at, !.rejected = rejected].at = at
          /\ [caller[p] EXCEPT !.at = at, !.rejected = rejected].op = caller[p].op
      BY <3>1, <1>a, Zenon DEF CallerRow
    <3> QED
      BY <3>1, <3>2, <3>3, <1>a
  <2>3. /\ login' = login /\ codes' = codes
        /\ adapterRuns' = IF caller[p].op = "callback" THEN adapterRuns + 1 ELSE adapterRuns
        /\ caller[p].op \in {"password", "callback"}
        /\ caller[p].op = "callback" => Asking(p)
    BY <1>4, <1>a DEF Authenticate, Asking, ClaimsAreLogins
  <2>4. adapterRuns' \in Nat /\ adapterRuns' <= 1
    BY <2>3, <1>a DEF LoginRows, OneCodePerLogin, AskedOnce
  <2>5. LoginRows' /\ ClaimsAreLogins' /\ OneCodePerLogin'
    BY <2>2, <2>3, <2>4, <1>a, Zenon DEF LoginRows, ClaimsAreLogins, OneCodePerLogin
  <2>6. BudgetsKept'
    BY <2>3, <1>a, Zenon DEF BudgetsKept
  <2>7. AskedOnce'
    BY <2>2, <2>3, <1>a DEF AskedOnce, Asking
  <2> QED
    BY <2>5, <2>6, <2>7 DEF LoginInv
<1>5. ASSUME NEW p \in Caller, completeAuthentication(p) PROVE LoginInv'
  <2>1. codes' = codes /\ adapterRuns' = adapterRuns /\ caller[p].op \in {"password", "callback"}
    BY <1>5, <1>a DEF completeAuthentication, ClaimsAreLogins
  <2>2. CallerMoves(p)
    <3>1. CASE caller' = [caller EXCEPT ![p] = Away]
      BY <3>1, <1>h, Zenon
    <3>2. CASE caller' = [caller EXCEPT ![p].at = "release"]
      BY <3>2, <2>1, <1>a, Zenon DEF CallerMoves, CallerRow
    <3> QED
      BY <1>5, <3>1, <3>2 DEF completeAuthentication
  <2>3. CASE login' = login
    BY <2>1, <2>2, <2>3, CallerOnly, Zenon
  <2>4. CASE /\ Claimed(p) /\ login.version < MaxVersion
             /\ Swap(p, [login EXCEPT !.state = "authenticated"])
    <3>1. /\ "authenticated" \in LoginState
          /\ login.state \in {"password_authenticating", "google_exchanging"}
      BY <2>1, <2>4 DEF LoginState, Claimed, Becomes
    <3>2. /\ login' \in LoginRow /\ login'.version = login.version + 1 /\ login'.ttl = login.ttl
          /\ login'.failures = login.failures
          /\ login'.state = IF Lapsed THEN "expired" ELSE "authenticated"
      BY <2>4, <3>1, <1>e
    <3>3. RecordMoves /\ login'.state # "exchanged"
      BY <2>4, <3>1, <3>2, <1>c, <1>f DEF RecordMoves, Early
    <3> QED
      BY <2>1, <2>2, <3>3, RecordAndCaller
  <2> QED
    BY <1>5, <2>3, <2>4 DEF completeAuthentication
<1>6. ASSUME NEW p \in Caller, releasePasswordClaim(p) PROVE LoginInv'
  <2> DEFINE failures == login.failures + IF caller[p].rejected THEN 1 ELSE 0
             state == IF Spent(failures) THEN "failed" ELSE "pending"
  <2>1. /\ Swap(p, [login EXCEPT !.failures = failures, !.state = state])
        /\ login.version < MaxVersion /\ codes' = codes /\ adapterRuns' = adapterRuns
        /\ caller' = [caller EXCEPT ![p] = Away] /\ login.state = "password_authenticating"
    BY <1>6 DEF releasePasswordClaim, Claimed, Becomes
  <2>2. failures \in Nat /\ failures <= MaxPasswordFailures
    BY <2>1, <1>a, <1>f, LoginAssumption DEF LoginRow, Early
  <2>3. state \in LoginState /\ state \in {"failed", "pending"}
        /\ (state = "pending" => failures < MaxPasswordFailures)
    BY <2>2, LoginAssumption DEF Spent, LoginState
  <2> HIDE DEF failures, state
  <2>4. /\ login' \in LoginRow /\ login'.version = login.version + 1 /\ login'.ttl = login.ttl
        /\ Lapsed => login'.state = "expired" /\ login'.failures = login.failures
        /\ ~Lapsed => login'.state = state /\ login'.failures = failures
    BY <2>1, <2>2, <2>3, <1>a, SwapWrites, Zenon
  <2>5. RecordMoves /\ login'.state # "exchanged"
    BY <2>1, <2>2, <2>3, <2>4, <1>f DEF RecordMoves, Early
  <2> QED
    BY <2>1, <2>5, <1>h, RecordAndCaller, Zenon
<1>7. ASSUME NEW p \in Caller, failGoogleClaim(p) PROVE LoginInv'
  <2>1. /\ Swap(p, [login EXCEPT !.state = "failed"]) /\ "failed" \in LoginState
        /\ login.version < MaxVersion /\ codes' = codes /\ adapterRuns' = adapterRuns
        /\ caller' = [caller EXCEPT ![p] = Away] /\ login.state = "google_exchanging"
    BY <1>7 DEF failGoogleClaim, Claimed, Becomes, LoginState
  <2>2. /\ login' \in LoginRow /\ login'.version = login.version + 1 /\ login'.ttl = login.ttl
        /\ login'.failures = login.failures
        /\ login'.state = IF Lapsed THEN "expired" ELSE "failed"
    BY <2>1, <1>e
  <2>3. RecordMoves /\ login'.state # "exchanged"
    BY <2>1, <2>2, <1>f DEF RecordMoves, Early
  <2> QED
    BY <2>1, <2>3, <1>h, RecordAndCaller, Zenon
<1>8. ASSUME NEW p \in Caller, ExchangeAndIssue(p) PROVE LoginInv'
  <2>1. /\ Swap(p, [login EXCEPT !.state = "exchanged"]) /\ "exchanged" \in LoginState
        /\ login.version < MaxVersion /\ codes' = codes + 1 /\ adapterRuns' = adapterRuns
        /\ caller' = [caller EXCEPT ![p] = Away] /\ login.state = "authenticated" /\ ~Lapsed
    BY <1>8 DEF ExchangeAndIssue, From, Becomes, LoginState
  <2>2. /\ login' \in LoginRow /\ login'.version = login.version + 1 /\ login'.ttl = login.ttl
        /\ login'.failures = login.failures /\ login'.state = "exchanged"
    BY <2>1, <1>e
  <2>3. RecordMoves
    BY <2>1, <2>2, <1>f DEF RecordMoves, Early
  <2> QED
    BY <2>1, <2>2, <2>3, <1>h, RecordAndCaller, Zenon
<1>9. ASSUME NEW p \in Caller, GiveUp(p) PROVE LoginInv'
  BY <1>9, <1>h, CallerOnly, Zenon DEF GiveUp
<1>10. ASSUME LoginTick PROVE LoginInv'
  <2>1. /\ login.ttl > 0 /\ login' = [login EXCEPT !.ttl = @ - 1]
        /\ caller' = caller /\ codes' = codes /\ adapterRuns' = adapterRuns
    BY <1>10 DEF LoginTick
  <2>2. /\ login' \in LoginRow /\ login'.state = login.state /\ login'.version = login.version
        /\ login'.failures = login.failures /\ login'.ttl <= login.ttl
    BY <2>1, <1>a DEF LoginRow
  <2>3. LoginRows' /\ ClaimsAreLogins' /\ OneCodePerLogin' /\ AskedOnce'
    BY <2>1, <2>2, <1>a, Zenon DEF LoginRows, ClaimsAreLogins, OneCodePerLogin, AskedOnce, Asking
  <2>4. BudgetsKept'
    BY <2>2, <1>a, LoginAssumption DEF BudgetsKept, LoginRow
  <2> QED
    BY <2>3, <2>4 DEF LoginInv
<1>11. ASSUME UNCHANGED loginVars PROVE LoginInv'
  BY <1>11, <1>a, Zenon DEF loginVars, LoginInv, LoginRows, ClaimsAreLogins, OneCodePerLogin, AskedOnce,
                     Asking, BudgetsKept
<1> QED
  BY <1>1, <1>2, <1>3, <1>4, <1>5, <1>6, <1>7, <1>8, <1>9, <1>10, <1>11, Zenon DEF LoginNext

(* The inductive invariant holds throughout.                               *)
THEOREM LoginInvariant == LoginSpec => []LoginInv
  BY LoginInitInv, LoginStep, PTL DEF LoginSpec

(* The row is well formed and the budget of rejected passwords is kept,    *)
(* whichever requests of whichever servers spend it.                       *)
THEOREM LoginTypeCorrect == LoginSpec => []LoginTypeOK
<1>1. LoginInv => LoginTypeOK
  BY LoginAssumption DEF LoginInv, LoginTypeOK, LoginRows, LoginRow, CallerRow, BudgetsKept
<1> QED
  BY <1>1, LoginInvariant, PTL

(* Whatever requests race, ExchangeAndIssue issues one authorization code  *)
(* at most and CompleteGoogle runs the identity adapter once at most.      *)
THEOREM CodeIssuedOnce == LoginSpec => []OneCodePerLogin
<1>1. LoginInv => OneCodePerLogin
  BY DEF LoginInv
<1> QED
  BY <1>1, LoginInvariant, PTL

(* The body of LoginsOnlyAdvance.                                          *)
AdvanceStep ==
  /\ login.state \in {"exchanged", "failed", "expired"} => login'.state = login.state
  /\ login.state = "authenticated" => login'.state \in {"authenticated", "exchanged", "expired"}

LEMMA AdvanceLemma == LoginInv /\ [LoginNext]_loginVars => AdvanceStep
<1> SUFFICES ASSUME LoginInv, [LoginNext]_loginVars PROVE AdvanceStep
  OBVIOUS
<1>a. login \in LoginRow /\ ClaimsAreLogins
  BY DEF LoginInv, LoginRows
<1>b. Lapsed => login.state \notin {"exchanged", "failed", "expired"}
  BY DEF Lapsed, stateCanExpire
<1>c. ASSUME login'.state = login.state PROVE AdvanceStep
  BY <1>c DEF AdvanceStep
<1>d. ASSUME NEW p, NEW next, Swap(p, next), Lapsed PROVE AdvanceStep
  BY <1>a, <1>b, <1>d DEF Swap, LoginRow, AdvanceStep
<1>1. ASSUME NEW p \in Caller, NEW op \in Operation, Load(p, op) PROVE AdvanceStep
  <2>1. CASE Lapsed
    BY <1>1, <2>1, <1>a, <1>b, Zenon DEF Load, LoginRow, AdvanceStep
  <2>2. CASE ~Lapsed
    BY <1>1, <2>2, <1>c DEF Load
  <2> QED
    BY <2>1, <2>2
<1>2. ASSUME NEW p \in Caller, Claim(p) \/ StartGoogle(p) PROVE AdvanceStep
  <2>1. CASE Lapsed
    BY <1>2, <2>1, <1>d DEF Claim, StartGoogle
  <2>2. CASE ~Lapsed
    BY <1>2, <2>2 DEF Claim, StartGoogle, From, AdvanceStep
  <2> QED
    BY <2>1, <2>2
<1>3. ASSUME NEW p \in Caller,
             completeAuthentication(p) \/ releasePasswordClaim(p) \/ failGoogleClaim(p)
      PROVE  AdvanceStep
  <2>1. caller[p].op \in {"password", "callback"}
    BY <1>3, <1>a DEF completeAuthentication, releasePasswordClaim, failGoogleClaim, ClaimsAreLogins
  <2>2. CASE login' = login
    BY <2>2, <1>c
  <2>3. CASE Claimed(p)
    BY <2>1, <2>3 DEF Claimed, Becomes, AdvanceStep
  <2> QED
    BY <1>3, <2>2, <2>3 DEF completeAuthentication, releasePasswordClaim, failGoogleClaim
<1>4. ASSUME NEW p \in Caller, ExchangeAndIssue(p) PROVE AdvanceStep
  <2>1. /\ login.state = "authenticated"
        /\ login' = [[login EXCEPT !.state = "exchanged"] EXCEPT !.version = @ + 1]
    BY <1>4 DEF ExchangeAndIssue, Swap, From, Becomes
  <2>2. login'.state = "exchanged"
    BY <2>1, <1>a DEF LoginRow
  <2> QED
    BY <2>1, <2>2 DEF AdvanceStep
<1>5. ASSUME NEW p \in Caller, Authenticate(p) \/ GiveUp(p) PROVE AdvanceStep
  BY <1>5, <1>c DEF Authenticate, GiveUp
<1>6. ASSUME LoginTick PROVE AdvanceStep
  BY <1>6, <1>a, <1>c DEF LoginTick, LoginRow
<1>7. ASSUME UNCHANGED loginVars PROVE AdvanceStep
  BY <1>7, <1>c DEF loginVars
<1> QED
  BY <1>1, <1>2, <1>3, <1>4, <1>5, <1>6, <1>7, Zenon DEF LoginNext

(* No late completion, release or expiry takes a login back: a finished    *)
(* one stays as it ended, an authenticated one is only exchanged or lost.  *)
THEOREM NoWayBack == LoginSpec => LoginsOnlyAdvance
<1>1. LoginInv /\ [LoginNext]_loginVars => [AdvanceStep]_loginVars
  BY AdvanceLemma
<1> QED
  BY <1>1, LoginInvariant, PTL DEF LoginSpec, LoginsOnlyAdvance, AdvanceStep

-----------------------------------------------------------------------------

(***************************************************************************)
(* AccountPool for any number of accounts, requests and administrators:    *)
(* one young probe per account.  What CanAttempt grants depends on the     *)
(* breaker's timer alone, so the inductive invariant compares the timer    *)
(* with the age of the probe: while a probe is young its breaker is closed *)
(* or must wait at least as long as the probe stays young.                 *)
(***************************************************************************)

AccountRow == [active : BOOLEAN, enabled : BOOLEAN, deleted : BOOLEAN]

BreakerRow == [state : {"closed", "open", "half-open"}, failures : Nat, wait : Nat]

OutRow == [at : {"idle", "out"}, account : Account \cup {NoAccount}, young : Nat]

PoolRows ==
  /\ account \in [Account -> AccountRow] /\ breaker \in [Account -> BreakerRow]
  /\ request \in [Request -> OutRow]

(* The breaker of a deleted account is gone, and so is what it knew.       *)
DeletedAreClosed == \A a \in Account : account[a].deleted => breaker[a].state = "closed"

(* A young probe belongs to an account whose breaker waits for it, unless  *)
(* another report has closed that breaker meanwhile.                       *)
ProbesAreWaitedFor ==
  \A r \in Request : request[r].young > 0 =>
    /\ request[r].account \in Account /\ request[r].young <= HalfOpenProbeTTL
    /\ \/ breaker[request[r].account].state = "closed"
       \/ request[r].young <= breaker[request[r].account].wait

YoungAreAlone ==
  \A r, q \in Request :
    request[r].young > 0 /\ request[q].young > 0 /\ request[r].account = request[q].account => r = q

PoolInv == PoolRows /\ DeletedAreClosed /\ ProbesAreWaitedFor /\ YoungAreAlone

(* Every set of natural numbers that is not empty has a least element.     *)
LEMMA LeastNumber ==
  ASSUME NEW S \in SUBSET Nat, S # {}
  PROVE  \E m \in S : \A n \in S : m <= n
<1>1. PICK x \in S : \A y \in S : ~ (<<y, x>> \in OpToRel(<, Nat))
  BY WFMin, NatLessThanWellFounded, Zenon
<1>2. \A y \in S : ~ (y < x)
  BY <1>1, Zenon DEF OpToRel
<1> QED
  BY <1>2

(* The smaller of two numbers, as RecordFailure caps its count.            *)
LEMMA LesserOfTwo ==
  ASSUME NEW m \in Nat, NEW n \in Nat
  PROVE  Min({m, n}) \in Nat
<1>1. \E x \in {m, n} : \A y \in {m, n} : x <= y
  OBVIOUS
<1>2. Min({m, n}) \in {m, n}
  BY <1>1, Zenon DEF Min
<1> QED
  BY <1>2

(* The account that answers is one of the pool, passes, and was asked.     *)
LEMMA PickIsAsked ==
  ASSUME NEW pool \in SUBSET Account, NEW first, NEW ok,
         Asked(pool, first, ok).pick # NoAccount
  PROVE  /\ Asked(pool, first, ok).pick \in pool \cap ok
         /\ Asked(pool, first, ok).pick \in Asked(pool, first, ok).asked
<1> DEFINE met == pool \cap ok
           places == {Place(first, a) : a \in met}
<1>1. ASSUME NEW a \in Account PROVE Place(first, a) \in Nat
  <2>1. \E i \in DOMAIN Priority : Priority[i] = a
    BY PoolAssumption DEF Range
  <2>2. DOMAIN Priority \subseteq Nat
    BY PoolAssumption
  <2> QED
    BY <2>1, <2>2, Zenon DEF Place
<1>2. met # {}
  BY Zenon DEF Asked
<1>3. places \in SUBSET Nat /\ places # {}
  BY <1>1, <1>2
<1>4. PICK m \in places : \A n \in places : m <= n
  BY <1>3, LeastNumber, Zenon
<1>5. \E a \in met : \A b \in met : Place(first, a) <= Place(first, b)
  BY <1>4, Zenon
<1> DEFINE pick == CHOOSE a \in met : \A b \in met : Place(first, a) <= Place(first, b)
<1>6. pick \in met
  BY <1>5, Zenon
<1>7. Asked(pool, first, ok) = [pick |-> pick, asked |-> {a \in pool : Place(first, a) <= Place(first, pick)}]
  BY <1>2, Zenon DEF Asked
<1> HIDE DEF pick
<1>8. Place(first, pick) <= Place(first, pick)
  BY <1>1, <1>6
<1> QED
  BY <1>6, <1>7, <1>8

LEMMA PoolInitInv == PoolInit => PoolInv
  BY PoolAssumption DEF PoolInit, PoolInv, PoolRows, AccountRow, BreakerRow, OutRow,
     DeletedAreClosed, ProbesAreWaitedFor, YoungAreAlone, NewCircuitBreaker, Free, NoAccount

(* What a breaker is after it was asked: never less time to wait for a     *)
(* probe that is out.                                                      *)
LEMMA AttemptedRow ==
  ASSUME NEW b \in BreakerRow
  PROVE  /\ Attempted(b) \in BreakerRow
         /\ b.state = "closed" => Attempted(b).state = "closed"
         /\ b.wait <= Attempted(b).wait
         /\ b.state = "open" /\ b.wait = 0 => Attempted(b).wait = HalfOpenProbeTTL
<1>a. HalfOpenProbeTTL \in Nat /\ RecoveryTimeout \in Nat
  BY PoolAssumption
<1>1. CASE b.state = "open" /\ b.wait = 0
  <2>1. Attempted(b) = [b EXCEPT !.state = "half-open", !.wait = HalfOpenProbeTTL]
    BY <1>1 DEF Attempted
  <2>2. /\ Attempted(b).state = "half-open" /\ Attempted(b).wait = HalfOpenProbeTTL
        /\ Attempted(b) \in BreakerRow
    BY <1>a, <2>1, Zenon DEF BreakerRow
  <2> QED
    BY <1>a, <1>1, <2>2
<1>2. CASE b.state = "half-open" /\ b.wait = 0
  <2>1. Attempted(b) = Opened(b)
    BY <1>2 DEF Attempted
  <2>2. /\ Attempted(b).state = "open" /\ Attempted(b).wait = RecoveryTimeout
        /\ Attempted(b) \in BreakerRow
    BY <1>a, <2>1, Zenon DEF Opened, BreakerRow
  <2> QED
    BY <1>a, <1>2, <2>2
<1>3. CASE ~(b.state = "open" /\ b.wait = 0) /\ ~(b.state = "half-open" /\ b.wait = 0)
  <2>1. Attempted(b) = b
    BY <1>3 DEF Attempted
  <2> QED
    BY <1>3, <2>1 DEF BreakerRow
<1> QED
  BY <1>1, <1>2, <1>3, Zenon

LEMMA FailedRow ==
  ASSUME NEW b \in BreakerRow
  PROVE  /\ Failed(b) \in BreakerRow
         /\ \/ Failed(b).state = b.state /\ Failed(b).wait = b.wait
            \/ Failed(b).wait = RecoveryTimeout
<1>1. Min({b.failures + 1, FailureThreshold}) \in Nat
  BY LesserOfTwo, PoolAssumption DEF BreakerRow
<1> QED
  BY <1>1, PoolAssumption, Zenon DEF Failed, Opened, BreakerRow

(* The rows of one request change, and the timers of breakers do not fall  *)
(* behind the other probes that are out.                                   *)
BreakersKeep ==
  \A r \in Request :
    LET a == request[r].account IN
    request[r].young > 0 =>
      \/ breaker'[a].state = "closed"
      \/ breaker[a].state # "closed" /\ breaker[a].wait <= breaker'[a].wait
      \/ breaker'[a].wait = RecoveryTimeout

(* A step that frees a request and lets no breaker forget its probes.      *)
LEMMA ReportKeepsProbes ==
  ASSUME PoolInv, PoolRows', NEW r \in Request,
         request' = request \/ request' = [request EXCEPT ![r] = Free], BreakersKeep
  PROVE  ProbesAreWaitedFor' /\ YoungAreAlone'
<1>a. request \in [Request -> OutRow] /\ breaker' \in [Account -> BreakerRow]
      /\ breaker \in [Account -> BreakerRow]
      /\ ProbesAreWaitedFor /\ YoungAreAlone
      /\ HalfOpenProbeTTL \in Nat /\ RecoveryTimeout \in Nat /\ HalfOpenProbeTTL <= RecoveryTimeout
  BY PoolAssumption DEF PoolInv, PoolRows
<1>1. ASSUME NEW q \in Request, request'[q].young > 0
      PROVE  request'[q] = request[q]
  BY <1>a, <1>1 DEF Free
<1>2. ProbesAreWaitedFor'
  <2> SUFFICES ASSUME NEW q \in Request, request'[q].young > 0
               PROVE  /\ request'[q].account \in Account /\ request'[q].young <= HalfOpenProbeTTL
                      /\ \/ breaker'[request'[q].account].state = "closed"
                         \/ request'[q].young <= breaker'[request'[q].account].wait
    BY DEF ProbesAreWaitedFor
  <2> DEFINE a == request[q].account
  <2>1. request'[q] = request[q]
    BY <1>1
  <2>2. /\ a \in Account /\ request[q].young \in Nat /\ request[q].young <= HalfOpenProbeTTL
        /\ breaker[a].state = "closed" \/ request[q].young <= breaker[a].wait
    BY <1>a, <2>1, Zenon DEF ProbesAreWaitedFor, OutRow
  <2>3. \/ breaker'[a].state = "closed"
        \/ breaker[a].state # "closed" /\ breaker[a].wait <= breaker'[a].wait
        \/ breaker'[a].wait = RecoveryTimeout
    BY <2>1 DEF BreakersKeep
  <2>4. breaker[a].wait \in Nat /\ breaker'[a].wait \in Nat
    BY <1>a, <2>2 DEF BreakerRow
  <2> QED
    BY <1>a, <2>1, <2>2, <2>3, <2>4
<1>3. YoungAreAlone'
  BY <1>a, <1>1 DEF YoungAreAlone
<1> QED
  BY <1>2, <1>3

(* Asking some accounts keeps the breakers' types and their waiting.       *)
LEMMA AskingKeeps ==
  ASSUME PoolInv, NEW asked, breaker' = BreakersAsked(asked), account' = account
  PROVE  breaker' \in [Account -> BreakerRow] /\ DeletedAreClosed' /\ BreakersKeep
<1>a. breaker \in [Account -> BreakerRow] /\ DeletedAreClosed /\ ProbesAreWaitedFor
  BY Zenon DEF PoolInv, PoolRows
<1>1. ASSUME NEW a \in Account
      PROVE  /\ breaker'[a] = breaker[a] \/ (breaker'[a] = Attempted(breaker[a]) /\ HasBreaker(a))
             /\ breaker'[a] \in BreakerRow
             /\ breaker[a].state = "closed" => breaker'[a].state = "closed"
             /\ breaker[a].wait <= breaker'[a].wait
  <2>1. breaker'[a] = breaker[a] \/ (breaker'[a] = Attempted(breaker[a]) /\ HasBreaker(a))
    BY DEF BreakersAsked
  <2>2. breaker[a] \in BreakerRow /\ breaker[a].wait <= breaker[a].wait
    BY <1>a DEF BreakerRow
  <2> QED
    BY <2>1, <2>2, AttemptedRow, Zenon
<1>2. breaker' \in [Account -> BreakerRow]
  BY <1>1, Zenon DEF BreakersAsked
<1>3. DeletedAreClosed'
  BY <1>a, <1>1, Zenon DEF DeletedAreClosed
<1>4. BreakersKeep
  <2> SUFFICES ASSUME NEW r \in Request, request[r].young > 0
               PROVE  LET a == request[r].account IN
                      \/ breaker'[a].state = "closed"
                      \/ breaker[a].state # "closed" /\ breaker[a].wait <= breaker'[a].wait
                      \/ breaker'[a].wait = RecoveryTimeout
    BY Zenon DEF BreakersKeep
  <2>1. request[r].account \in Account
    BY <1>a DEF ProbesAreWaitedFor
  <2> QED
    BY <1>1, <2>1, Zenon
<1> QED
  BY <1>2, <1>3, <1>4

(* A breaker that waits longer than before, or for a whole period, waits   *)
(* as long as a probe is young.                                            *)
LEMMA WaitsAsLong ==
  ASSUME NEW n \in Nat, NEW w \in Nat, NEW v \in Nat, n <= HalfOpenProbeTTL,
         (n <= w /\ w <= v) \/ v = RecoveryTimeout
  PROVE  n <= v
  BY PoolAssumption

(* A request that is sent out is alone with its probe, if it is one.       *)
LEMMA SentOut ==
  ASSUME PoolInv, NEW r \in Request, NEW pool \in SUBSET Account, NEW fits \in SUBSET Account,
         GetAccountForModelTier(r, pool, fits)
  PROVE  PoolInv'
<1> DEFINE active == ActiveAccounts \cap pool
           first == IF active = {} THEN NoAccount ELSE Min(active)
           ok == {a \in fits : CanAttempt(breaker[a])}
           found == Asked(pool, first, ok)
           p == found.pick
           y == IF breaker[p].state = "open" THEN HalfOpenProbeTTL ELSE 0
<1>a. /\ PoolRows /\ DeletedAreClosed /\ ProbesAreWaitedFor /\ YoungAreAlone
      /\ HalfOpenProbeTTL \in Nat
  BY PoolAssumption DEF PoolInv
<1>b. /\ breaker' = BreakersAsked(found.asked) /\ account' = account
      /\ request' = IF p = NoAccount THEN request
                    ELSE [request EXCEPT ![r] = [at |-> "out", account |-> p, young |-> y]]
  BY Zenon DEF GetAccountForModelTier
<1>c. p # NoAccount => p \in pool \cap ok /\ p \in found.asked
  BY PickIsAsked, Zenon
<1> HIDE DEF found
<1>1. breaker' \in [Account -> BreakerRow] /\ DeletedAreClosed' /\ BreakersKeep
  BY <1>b, AskingKeeps, Zenon
<1>2. CASE p = NoAccount
  <2>1. request' = request
    BY <1>b, <1>2, Zenon
  <2>2. PoolRows'
    BY <1>a, <1>b, <1>1, <2>1, Zenon DEF PoolRows
  <2> QED
    BY <1>1, <2>1, <2>2, ReportKeepsProbes, Zenon DEF PoolInv
<1>3. CASE p # NoAccount
  <2>1. p \in Account /\ CanAttempt(breaker[p]) /\ p \in found.asked /\ y \in Nat
    BY <1>a, <1>c, <1>3
  <2>2. request' = [request EXCEPT ![r] = [at |-> "out", account |-> p, young |-> y]]
    BY <1>b, <1>3, Zenon
  <2> HIDE DEF p, y
  <2>3. request \in [Request -> OutRow] /\ request' \in [Request -> OutRow]
    BY <1>a, <2>1, <2>2, Zenon DEF PoolRows, OutRow
  <2>4. PoolRows'
    BY <1>a, <1>b, <1>1, <2>3, Zenon DEF PoolRows
  <2>5. ASSUME y > 0
        PROVE  /\ y = HalfOpenProbeTTL /\ breaker'[p].wait = HalfOpenProbeTTL
               /\ \A q \in Request : request[q].young > 0 => request[q].account # p
    <3>1. y = HalfOpenProbeTTL /\ breaker[p].state = "open"
      BY <2>5 DEF y
    <3>2. breaker[p].state = "open" /\ breaker[p].wait = 0
      BY <2>1, <3>1, Zenon DEF CanAttempt
    <3>3. HasBreaker(p)
      BY <1>a, <2>1, <3>2, Zenon DEF DeletedAreClosed, HasBreaker
    <3>4. breaker'[p] = Attempted(breaker[p])
      BY <1>b, <2>1, <3>3, Zenon DEF BreakersAsked
    <3>5. breaker'[p].wait = HalfOpenProbeTTL
      BY <1>a, <2>1, <3>2, <3>4, AttemptedRow, Zenon DEF PoolRows
    <3>6. ASSUME NEW q \in Request, request[q].young > 0 PROVE request[q].account # p
      BY <1>a, <2>3, <3>2, <3>6 DEF ProbesAreWaitedFor, OutRow
    <3> QED
      BY <3>1, <3>5, <3>6, Zenon
  <2>6. ProbesAreWaitedFor'
    <3> SUFFICES ASSUME NEW q \in Request, request'[q].young > 0
                 PROVE  /\ request'[q].account \in Account /\ request'[q].young <= HalfOpenProbeTTL
                        /\ \/ breaker'[request'[q].account].state = "closed"
                           \/ request'[q].young <= breaker'[request'[q].account].wait
      BY Zenon DEF ProbesAreWaitedFor
    <3>1. CASE q = r
      BY <1>a, <2>1, <2>2, <2>3, <2>5, <3>1
    <3>2. CASE q # r
      <4> DEFINE a == request[q].account
      <4>1. request'[q] = request[q]
        BY <2>2, <2>3, <3>2, Zenon
      <4>2. /\ a \in Account /\ request[q].young \in Nat /\ request[q].young <= HalfOpenProbeTTL
            /\ breaker[a].state = "closed" \/ request[q].young <= breaker[a].wait
        BY <1>a, <2>3, <4>1, Zenon DEF ProbesAreWaitedFor, OutRow
      <4>3. \/ breaker'[a].state = "closed"
            \/ breaker[a].state # "closed" /\ breaker[a].wait <= breaker'[a].wait
            \/ breaker'[a].wait = RecoveryTimeout
        BY <1>1, <4>1, Zenon DEF BreakersKeep
      <4>4. breaker[a].wait \in Nat /\ breaker'[a].wait \in Nat
        BY <1>a, <1>1, <4>2, Zenon DEF BreakerRow, PoolRows
      <4>5. breaker'[a].state = "closed" \/ request[q].young <= breaker'[a].wait
        BY <4>2, <4>3, <4>4, WaitsAsLong, Zenon
      <4> QED
        BY <4>1, <4>2, <4>5, Zenon
    <3> QED
      BY <3>1, <3>2, Zenon
  <2>7. YoungAreAlone'
    <3> SUFFICES ASSUME NEW q \in Request, NEW o \in Request, request'[q].young > 0,
                        request'[o].young > 0, request'[q].account = request'[o].account
                 PROVE  q = o
      BY Zenon DEF YoungAreAlone
    <3>1. ASSUME NEW x \in Request, x # r PROVE request'[x] = request[x]
      BY <2>2, <2>3, <3>1, Zenon
    <3>2. request'[r].account = p /\ request'[r].young = y
      BY <2>2, <2>3
    <3> QED
      BY <1>a, <2>5, <3>1, <3>2, Zenon DEF YoungAreAlone
  <2> QED
    BY <1>1, <2>4, <2>6, <2>7, Zenon DEF PoolInv
<1> QED
  BY <1>2, <1>3

(* A report frees its request, and its breaker closes or starts its period *)
(* again; without a report only the request is freed.                      *)
LEMMA Reported ==
  ASSUME PoolInv, NEW r \in Request, Reports(r)
  PROVE  PoolInv'
<1> DEFINE a == request[r].account
<1>a. /\ PoolRows /\ DeletedAreClosed /\ ProbesAreWaitedFor /\ account' = account
      /\ request' = [request EXCEPT ![r] = Free] /\ RecoveryTimeout \in Nat
  BY PoolAssumption, Zenon DEF PoolInv, Reports, EndSilently, RecordSuccess, RecordFailure
<1>b. request' \in [Request -> OutRow]
  BY <1>a, Zenon DEF PoolRows, OutRow, Free, NoAccount
<1>1. \/ breaker' = breaker
      \/ HasBreaker(a) /\ breaker' = [breaker EXCEPT ![a] = NewCircuitBreaker]
      \/ HasBreaker(a) /\ breaker' = [breaker EXCEPT ![a] = Failed(breaker[a])]
  BY Zenon DEF Reports, EndSilently, RecordSuccess, RecordFailure
<1>2. ASSUME NEW x \in Account
      PROVE  /\ breaker[x] \in BreakerRow /\ breaker'[x] \in BreakerRow
             /\ \/ breaker'[x] = breaker[x]
                \/ HasBreaker(x) /\ \/ breaker'[x].state = "closed"
                                    \/ breaker'[x].state = breaker[x].state /\ breaker'[x].wait = breaker[x].wait
                                    \/ breaker'[x].wait = RecoveryTimeout
  <2>1. breaker \in [Account -> BreakerRow] /\ breaker[x] \in BreakerRow
    BY <1>a DEF PoolRows
  <2>2. NewCircuitBreaker \in BreakerRow /\ NewCircuitBreaker.state = "closed"
    BY Zenon DEF NewCircuitBreaker, BreakerRow
  <2>3. CASE x # a
    BY <1>1, <2>1, <2>3, Zenon
  <2>4. CASE x = a
    BY <1>1, <2>1, <2>2, <2>4, FailedRow, Zenon
  <2> QED
    BY <2>3, <2>4, Zenon
<1>3. breaker' \in [Account -> BreakerRow] /\ PoolRows'
  BY <1>a, <1>b, <1>1, <1>2, Zenon DEF PoolRows
<1>4. DeletedAreClosed'
  BY <1>a, <1>2, Zenon DEF DeletedAreClosed, HasBreaker
<1>5. BreakersKeep
  <2> SUFFICES ASSUME NEW q \in Request, request[q].young > 0
               PROVE  LET x == request[q].account IN
                      \/ breaker'[x].state = "closed"
                      \/ breaker[x].state # "closed" /\ breaker[x].wait <= breaker'[x].wait
                      \/ breaker'[x].wait = RecoveryTimeout
    BY Zenon DEF BreakersKeep
  <2>1. request[q].account \in Account
    BY <1>a, Zenon DEF ProbesAreWaitedFor
  <2>2. breaker[request[q].account].wait \in Nat
    BY <1>2, <2>1 DEF BreakerRow
  <2> QED
    BY <1>2, <2>1, <2>2
<1> QED
  BY <1>a, <1>3, <1>4, <1>5, ReportKeepsProbes, Zenon DEF PoolInv

(* A deletion takes the breaker away; every other write of an account row  *)
(* leaves breakers and requests alone.                                     *)
LEMMA RowsWritten ==
  ASSUME PoolInv, request' = request,
         \/ /\ account' \in [Account -> AccountRow] /\ breaker' = breaker
            /\ \A a \in Account : account'[a].deleted = account[a].deleted
         \/ \E d : /\ account' = [account EXCEPT ![d].deleted = TRUE]
                  /\ breaker' = [breaker EXCEPT ![d] = NewCircuitBreaker]
  PROVE  PoolInv'
<1>a. /\ account \in [Account -> AccountRow] /\ breaker \in [Account -> BreakerRow]
      /\ request \in [Request -> OutRow]
      /\ DeletedAreClosed /\ ProbesAreWaitedFor /\ YoungAreAlone
  BY DEF PoolInv, PoolRows
<1>1. CASE /\ account' \in [Account -> AccountRow] /\ breaker' = breaker
           /\ \A a \in Account : account'[a].deleted = account[a].deleted
  BY <1>a, <1>1 DEF PoolInv, PoolRows, DeletedAreClosed, ProbesAreWaitedFor, YoungAreAlone
<1>2. ASSUME NEW d, account' = [account EXCEPT ![d].deleted = TRUE],
             breaker' = [breaker EXCEPT ![d] = NewCircuitBreaker]
      PROVE  PoolInv'
  <2>1. account' \in [Account -> AccountRow]
    BY <1>a, <1>2, Zenon DEF AccountRow
  <2>2. breaker' \in [Account -> BreakerRow]
    BY <1>a, <1>2, Zenon DEF BreakerRow, NewCircuitBreaker
  <2>3. DeletedAreClosed'
    BY <1>a, <1>2 DEF DeletedAreClosed, NewCircuitBreaker
  <2>4. ProbesAreWaitedFor'
    BY <1>a, <1>2 DEF ProbesAreWaitedFor, NewCircuitBreaker
  <2>5. YoungAreAlone'
    BY <1>a DEF YoungAreAlone
  <2> QED
    BY <1>a, <2>1, <2>2, <2>3, <2>4, <2>5 DEF PoolInv, PoolRows
<1> QED
  BY <1>1, <1>2

(* Time takes as much from a probe's youth as from the breaker's wait.     *)
LEMMA PoolAges == PoolInv /\ PoolTick => PoolInv'
<1> SUFFICES ASSUME PoolInv, PoolTick PROVE PoolInv'
  OBVIOUS
<1>a. /\ breaker \in [Account -> BreakerRow] /\ request \in [Request -> OutRow]
      /\ account' = account /\ account \in [Account -> AccountRow]
      /\ DeletedAreClosed /\ ProbesAreWaitedFor /\ YoungAreAlone /\ HalfOpenProbeTTL \in Nat
  BY PoolAssumption DEF PoolInv, PoolRows, PoolTick
<1>1. ASSUME NEW n \in Nat
      PROVE  Sooner(n) \in Nat /\ Sooner(n) <= n /\ (Sooner(n) > 0 => Sooner(n) = n - 1 /\ n > 0)
  BY DEF Sooner
<1>2. ASSUME NEW a \in Account
      PROVE  /\ breaker'[a] \in BreakerRow /\ breaker'[a].state = breaker[a].state
             /\ breaker'[a].wait = Sooner(breaker[a].wait) /\ breaker[a].wait \in Nat
  <2>1. breaker'[a] = [breaker[a] EXCEPT !.wait = Sooner(breaker[a].wait)]
    BY DEF PoolTick
  <2>2. breaker[a] \in BreakerRow /\ breaker[a].wait \in Nat
    BY <1>a DEF BreakerRow
  <2> QED
    BY <1>1, <2>1, <2>2 DEF BreakerRow
<1>3. ASSUME NEW r \in Request
      PROVE  /\ request'[r] \in OutRow /\ request'[r].account = request[r].account
             /\ request'[r].young = Sooner(request[r].young) /\ request[r].young \in Nat
  <2>1. request'[r] = [request[r] EXCEPT !.young = Sooner(request[r].young)]
    BY DEF PoolTick
  <2>2. request[r] \in OutRow /\ request[r].young \in Nat
    BY <1>a DEF OutRow
  <2> QED
    BY <1>1, <2>1, <2>2 DEF OutRow
<1>4. PoolRows'
  BY <1>a, <1>2, <1>3, Zenon DEF PoolRows, PoolTick
<1>5. DeletedAreClosed'
  BY <1>a, <1>2, Zenon DEF DeletedAreClosed
<1>6. ProbesAreWaitedFor'
  <2> SUFFICES ASSUME NEW q \in Request, request'[q].young > 0
               PROVE  /\ request'[q].account \in Account /\ request'[q].young <= HalfOpenProbeTTL
                      /\ \/ breaker'[request'[q].account].state = "closed"
                         \/ request'[q].young <= breaker'[request'[q].account].wait
    BY Zenon DEF ProbesAreWaitedFor
  <2> DEFINE a == request[q].account
             n == request[q].young
             w == breaker[a].wait
  <2>1. /\ n \in Nat /\ n > 0 /\ request'[q].young = n - 1 /\ request'[q].account = a
    BY <1>1, <1>3, Zenon
  <2>2. a \in Account /\ n <= HalfOpenProbeTTL /\ (breaker[a].state = "closed" \/ n <= w)
    BY <1>a, <2>1, Zenon DEF ProbesAreWaitedFor
  <2>3. /\ breaker'[a].state = breaker[a].state /\ breaker'[a].wait = Sooner(w) /\ w \in Nat
    BY <1>2, <2>2, Zenon
  <2>4. n <= w => n - 1 <= Sooner(w)
    BY <2>1, <2>3 DEF Sooner
  <2> HIDE DEF a, n, w
  <2> QED
    BY <1>a, <2>1, <2>2, <2>3, <2>4
<1>7. YoungAreAlone'
  <2>1. ASSUME NEW q \in Request, request'[q].young > 0
        PROVE  request[q].young > 0 /\ request'[q].account = request[q].account
    BY <1>1, <1>3, <2>1, Zenon
  <2> QED
    BY <1>a, <2>1, Zenon DEF YoungAreAlone
<1> QED
  BY <1>4, <1>5, <1>6, <1>7 DEF PoolInv

LEMMA PoolStep == PoolInv /\ [PoolNext]_poolVars => PoolInv'
<1> SUFFICES ASSUME PoolInv, [PoolNext]_poolVars PROVE PoolInv'
  OBVIOUS
<1>a. account \in [Account -> AccountRow]
  BY DEF PoolInv, PoolRows
<1>1. ASSUME NEW r \in Request, NEW pool \in {Enabled, Enabled \cap Premium},
             NEW fits \in SUBSET Account, GetAccountForModelTier(r, pool, fits)
      PROVE  PoolInv'
  <2>1. pool \in SUBSET Account
    BY DEF Enabled
  <2> QED
    BY <1>1, <2>1, SentOut, Zenon
<1>2. ASSUME NEW r \in Request, Reports(r) PROVE PoolInv'
  BY <1>2, Reported
<1>3. CASE AutoRead
  BY <1>a, <1>3, RowsWritten, Zenon DEF AutoRead
<1>4. CASE selectBestAvailableAccount
  <2>1. PICK asked : breaker' = BreakersAsked(asked)
    BY <1>4, Zenon DEF selectBestAvailableAccount
  <2>2. account' = account /\ request' = request
    BY <1>4 DEF selectBestAvailableAccount
  <2>3. breaker' \in [Account -> BreakerRow] /\ DeletedAreClosed' /\ BreakersKeep
    BY <2>1, <2>2, AskingKeeps
  <2>4. PoolRows'
    BY <2>2, <2>3, Zenon DEF PoolInv, PoolRows
  <2>5. CASE Request = {}
    BY <2>3, <2>4, <2>5, Zenon DEF PoolInv, ProbesAreWaitedFor, YoungAreAlone
  <2>6. ASSUME NEW r \in Request PROVE ProbesAreWaitedFor' /\ YoungAreAlone'
    BY <2>2, <2>3, <2>4, ReportKeepsProbes
  <2> QED
    BY <2>3, <2>4, <2>5, <2>6 DEF PoolInv
<1>5. ASSUME NEW old, NEW new, account' = Switched(old, new), breaker' = breaker, request' = request
      PROVE  PoolInv'
  <2>1. ASSUME NEW x \in Account
        PROVE  account'[x] \in AccountRow /\ account'[x].deleted = account[x].deleted
    <3> DEFINE b == (x = new) \/ (account[x].active /\ x # old)
    <3>1. account'[x] = [account[x] EXCEPT !.active = b]
      BY <1>5 DEF Switched
    <3>2. b \in BOOLEAN
      OBVIOUS
    <3> HIDE DEF b
    <3> QED
      BY <1>a, <3>1, <3>2 DEF AccountRow
  <2>2. account' \in [Account -> AccountRow]
    BY <1>5, <2>1, Zenon DEF Switched
  <2> QED
    BY <1>5, <2>1, <2>2, RowsWritten
<1>6. CASE AutoCommit
  BY <1>5, <1>6 DEF AutoCommit
<1>7. ASSUME NEW x \in Admin, NEW a \in Account, SwitchToAccount(x, a) \/ DeleteAccount(x, a)
      PROVE  PoolInv'
  BY <1>a, <1>7, RowsWritten, Zenon DEF SwitchToAccount, DeleteAccount
<1>8. ASSUME NEW x \in Admin, AdminCommit(x) PROVE PoolInv'
  BY <1>5, <1>8 DEF AdminCommit
<1>9. ASSUME NEW x \in Admin, DeleteCommit(x) PROVE PoolInv'
  <2>1. \E d : /\ account' = [account EXCEPT ![d].deleted = TRUE]
              /\ breaker' = [breaker EXCEPT ![d] = NewCircuitBreaker]
    BY <1>9, Zenon DEF DeleteCommit
  <2> QED
    BY <1>9, <2>1, RowsWritten, Zenon DEF DeleteCommit
<1>10. ASSUME NEW a \in Account, UpdateAgentAccount(a) PROVE PoolInv'
  <2>1. /\ account' \in [Account -> AccountRow]
        /\ \A x \in Account : account'[x].deleted = account[x].deleted
    BY <1>a, <1>10, Zenon DEF UpdateAgentAccount, AccountRow
  <2> QED
    BY <1>10, <2>1, RowsWritten DEF UpdateAgentAccount
<1>11. CASE PoolTick
  BY <1>11, PoolAges
<1>12. CASE UNCHANGED poolVars
  BY <1>a, <1>12, RowsWritten DEF poolVars
<1> QED
  BY <1>1, <1>2, <1>3, <1>4, <1>6, <1>7, <1>8, <1>9, <1>10, <1>11, <1>12, Zenon DEF PoolNext

(* PoolInv holds in every state of the pool: a breaker waits at least as   *)
(* long as the probe it let out is young.                                  *)
THEOREM PoolInvariant == PoolSpec => []PoolInv
  BY PoolInitInv, PoolStep, PTL DEF PoolSpec

(* CanAttempt hands out one probe at a time: of the requests that are out  *)
(* for an account at most one is a young probe, however late other reports *)
(* arrive and whatever administrators do.                                  *)
THEOREM ProbeIsAlone == PoolSpec => []OneProbe
<1>1. PoolInv => OneProbe
  <2> SUFFICES ASSUME PoolInv, NEW a \in Account
               PROVE  Cardinality({r \in Request : request[r].account = a /\ request[r].young > 0}) <= 1
    BY Zenon DEF OneProbe
  <2> DEFINE P == {r \in Request : request[r].account = a /\ request[r].young > 0}
  <2>1. CASE P = {}
    BY <2>1, FS_EmptySet
  <2>2. ASSUME NEW r \in P PROVE Cardinality(P) <= 1
    <3>1. P = {r}
      BY Zenon DEF PoolInv, YoungAreAlone
    <3>2. Cardinality(P) = 1
      BY <3>1, FS_Singleton
    <3> QED
      BY <3>2
  <2> QED
    BY <2>1, <2>2, Zenon
<1> QED
  BY <1>1, PoolInvariant, PTL

=============================================================================
