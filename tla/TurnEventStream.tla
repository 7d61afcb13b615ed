--------------------------- MODULE TurnEventStream ---------------------------
(***************************************************************************)
(* Observers of a Turn's event log (server/service/agentturn/              *)
(* event_stream.go): a subscription reads the log forward from its cursor  *)
(* page by page, hands the events out one at a time and ends when the Turn *)
(* is terminal and its tail is handed out.  Writers are everything that    *)
(* writes the log, the unfenced commands of the original Store included.   *)
(*                                                                         *)
(* A Replay is one read-only transaction, hence one action.  A client that *)
(* loses its connection attaches again with the cursor it has reached.     *)
(***************************************************************************)
EXTENDS AgentTurn, FiniteSets

CONSTANTS
  Observer,    \* subscriptions
  PageLimit,   \* events of one Replay page
  MaxDetach    \* bound on how often a client loses its connection

ASSUME StreamAssumption ==
  /\ PageLimit \in Nat \ {0}
  /\ MaxDetach \in Nat

VARIABLE sub   \* each observer's subscription

streamVars == <<vars, sub>>

(* `watching`: registered with the broker and about to read; `waiting`:    *)
(* found nothing new and waits for a signal or the poll timer.  `buffer`   *)
(* is the set of sequence numbers that are read and not yet handed out.    *)
NoSubscription == [at |-> "off", turn |-> NoTurn, cursor |-> 0, buffer |-> {},
                   latest |-> 0, terminal |-> FALSE, detached |-> 0]

StreamInit == Init /\ sub = [s \in Observer |-> NoSubscription]

-----------------------------------------------------------------------------
(* Replay: the first PageLimit sequence numbers logged after a cursor,     *)
(* with the Turn's last sequence and status as of the same snapshot.       *)
LoggedAfter(t, after) == {n \in 1..turn[t].seq : n > after /\ \E e \in event : e.turn = t /\ e.seq = n}

Page(t, after) ==
  LET rows == LoggedAfter(t, after)
  IN  {n \in rows : Cardinality({m \in rows : m < n}) < PageLimit}

Ended(t) == turn[t].status \in TerminalStatus

(* Subscribe, with the cursor the client has.                              *)
Subscribe(s, t) ==
  /\ sub[s].at = "off"
  /\ sub[s].turn \in {NoTurn, t}
  /\ turn[t].status # "absent"
  /\ sub[s].cursor <= turn[t].seq
  /\ sub' = [sub EXCEPT ![s] = [@ EXCEPT !.at = "ready", !.turn = t,
               !.buffer = Page(t, sub[s].cursor), !.latest = turn[t].seq, !.terminal = Ended(t)]]
  /\ UNCHANGED vars

(* pop: the first buffered event is handed out, or dropped if the cursor   *)
(* is beyond it.                                                           *)
Pop(s) ==
  /\ sub[s].at = "ready"
  /\ \E n \in sub[s].buffer :
       /\ \A m \in sub[s].buffer : n <= m
       /\ sub' = [sub EXCEPT ![s].buffer = @ \ {n}, ![s].cursor = IF n > @ THEN n ELSE @]
  /\ UNCHANGED vars

Finished_StatusOnly(s) == sub[s].terminal /\ sub[s].buffer = {}

Finished_Beyond(s) == sub[s].terminal /\ sub[s].buffer = {} /\ sub[s].cursor > sub[s].latest

Finished(s) == sub[s].terminal /\ sub[s].buffer = {} /\ sub[s].cursor >= sub[s].latest

EndOfStream(s) ==
  /\ sub[s].at = "ready"
  /\ Finished(s)
  /\ sub' = [sub EXCEPT ![s].at = "eof"]
  /\ UNCHANGED vars

Watch(s) ==
  /\ sub[s].at = "ready"
  /\ sub[s].buffer = {}
  /\ ~Finished(s)
  /\ sub' = [sub EXCEPT ![s].at = "watching"]
  /\ UNCHANGED vars

ReadFrom_Latest(s) == sub[s].latest

ReadFrom(s) == sub[s].cursor

(* advance: one Replay from the cursor.  Only an empty page makes Next     *)
(* wait.                                                                   *)
Advance(s) ==
  LET t    == sub[s].turn
      page == Page(t, ReadFrom(s))
  IN  /\ sub[s].at = "watching"
      /\ sub' = [sub EXCEPT ![s] = [@ EXCEPT
                   !.at = IF page = {} THEN "waiting" ELSE "ready",
                   !.buffer = sub[s].buffer \cup page,
                   !.latest = turn[t].seq, !.terminal = Ended(t)]]
      /\ UNCHANGED vars

(* The poll timer fires, or the broker's signal comes first: a signal may  *)
(* be lost or come twice, so it only shortens the wait.                    *)
Wake(s) ==
  /\ sub[s].at = "waiting"
  /\ sub' = [sub EXCEPT ![s].at = "ready"]
  /\ UNCHANGED vars

(* Close, or a lost connection: what is buffered is gone, the client keeps *)
(* the cursor.                                                             *)
Detach(s) ==
  /\ sub[s].at \in {"ready", "watching", "waiting"}
  /\ sub[s].detached < MaxDetach
  /\ sub' = [sub EXCEPT ![s] = [NoSubscription EXCEPT !.turn = sub[s].turn,
               !.cursor = sub[s].cursor, !.detached = sub[s].detached + 1]]
  /\ UNCHANGED vars

NextEvent(s) == Pop(s) \/ EndOfStream(s) \/ Watch(s) \/ Advance(s) \/ Wake(s)

StreamNext ==
  \/ (Next \/ LegacyNext) /\ UNCHANGED sub
  \/ \E s \in Observer : NextEvent(s) \/ Detach(s) \/ \E t \in Turn : Subscribe(s, t)

(* A client that is attached keeps calling Next.                           *)
StreamSpec ==
  /\ StreamInit /\ [][StreamNext]_streamVars
  /\ \A s \in Observer : WF_streamVars(NextEvent(s))

-----------------------------------------------------------------------------
(* SeenInOrder.  An observer gets the events of its Turn one by one in     *)
(* sequence order, without a gap or a repeat, across pages, polls and      *)
(* reconnections ("no gap and no duplicate at the seam").                  *)
SeenInOrder ==
  [][\A s \in Observer : sub'[s].cursor # sub[s].cursor =>
       sub'[s].cursor = sub[s].cursor + 1]_streamVars

(* NothingDropped.  A stream that ended has handed out the whole log of a  *)
(* Turn that is over ("terminal state is not permission to drop the tail   *)
(* of the log").                                                           *)
NothingDropped ==
  \A s \in Observer :
    sub[s].at = "eof" => Ended(sub[s].turn) /\ sub[s].cursor = turn[sub[s].turn].seq

(* StreamsEnd.  The stream of a Turn that has ended ends, unless its       *)
(* client goes away.                                                       *)
StreamsEnd ==
  \A s \in Observer, t \in Turn :
    (sub[s].turn = t /\ Ended(t)) ~> sub[s].at \in {"eof", "off"}

=============================================================================
