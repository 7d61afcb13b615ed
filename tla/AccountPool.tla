----------------------------- MODULE AccountPool -----------------------------
(***************************************************************************)
(* The pool of model-gateway accounts and their circuit breakers           *)
(* (service/tools/workagent/agent_account_pool*.go, circuit_breaker.go).   *)
(* Requests are routed to an account whose breaker lets them through and   *)
(* report back later, or never; repeated failures start a switch of the    *)
(* active account beside the administrator's own switches and deletions.   *)
(* A switch or a deletion reads a row in one statement and writes in a     *)
(* later one.                                                              *)
(*                                                                         *)
(* A breaker is guarded by its own lock.  lastFailureTime is read only     *)
(* while it is open and halfOpenSince only while it is half-open, so one   *)
(* timer, "wait", is what is left of the period that matters; the failure  *)
(* count stops at the threshold it is compared with.  The monthly budget   *)
(* is whether an account fits a request.  Statistics are left out.         *)
(***************************************************************************)
EXTENDS Integers, Sequences, FiniteSetsExt

CONSTANTS
  Account,            \* account ids
  Priority,           \* the accounts, highest priority first
  Premium,            \* the accounts a work-plus request may use
  Request, Admin,
  FailureThreshold, RecoveryTimeout, HalfOpenProbeTTL,
  MaxAdminCalls       \* bound on what administrators do

ASSUME PoolAssumption ==
  /\ Account \subseteq Nat \ {0} /\ Premium \subseteq Account
  /\ IsFiniteSet(Account) /\ Priority \in Seq(Account)
  /\ Range(Priority) = Account /\ Len(Priority) = Cardinality(Account)
  /\ FailureThreshold \in Nat \ {0} /\ RecoveryTimeout \in Nat \ {0}
  /\ HalfOpenProbeTTL \in 1..RecoveryTimeout

VARIABLES
  account,    \* the rows of w_workagent_account
  breaker,    \* circuitBreakers, for the accounts that still have one
  request,    \* what is out, with the time for which it is a young probe
  switch, admin, adminCalls

poolVars == <<account, breaker, request, switch, admin, adminCalls>>

NoAccount == 0

NewCircuitBreaker == [state |-> "closed", failures |-> 0, wait |-> 0]

Free == [at |-> "idle", account |-> NoAccount, young |-> 0]

Rest == [at |-> "idle", old |-> NoAccount, new |-> NoAccount]

PoolInit ==
  /\ account = [a \in Account |-> [active |-> a = Head(Priority), enabled |-> TRUE, deleted |-> FALSE]]
  /\ breaker = [a \in Account |-> NewCircuitBreaker]
  /\ request = [r \in Request |-> Free]
  /\ switch = Rest
  /\ admin = [x \in Admin |-> Rest]
  /\ adminCalls = 0

ActiveAccounts == {a \in Account : account[a].active /\ ~account[a].deleted}

Enabled == {a \in Account : account[a].enabled /\ ~account[a].deleted}

-----------------------------------------------------------------------------
(* The breaker. *)

Opened(b) == [b EXCEPT !.state = "open", !.wait = RecoveryTimeout]

Failed_OldWindow(b) ==
  LET f == Min({b.failures + 1, FailureThreshold}) IN
  IF f = FailureThreshold THEN [b EXCEPT !.state = "open", !.failures = f]
  ELSE [b EXCEPT !.failures = f]

Failed(b) ==
  LET f == Min({b.failures + 1, FailureThreshold}) IN
  IF f = FailureThreshold THEN [Opened(b) EXCEPT !.failures = f] ELSE [b EXCEPT !.failures = f]

CanAttempt(b) == b.state = "closed" \/ (b.state = "open" /\ b.wait = 0)

(* What CanAttempt leaves behind. *)
Attempted_NoProbeTTL(b) ==
  IF b.state = "open" /\ b.wait = 0
  THEN [b EXCEPT !.state = "half-open", !.wait = HalfOpenProbeTTL] ELSE b

Attempted(b) ==
  CASE b.state = "open" /\ b.wait = 0 -> [b EXCEPT !.state = "half-open", !.wait = HalfOpenProbeTTL]
    [] b.state = "half-open" /\ b.wait = 0 -> Opened(b)
    [] OTHER -> b

HasBreaker(a) == ~account[a].deleted

(* The active account is asked first and then the others by priority.      *)
Place(first, a) == IF a = first THEN 0 ELSE CHOOSE i \in DOMAIN Priority : Priority[i] = a

(***************************************************************************)
(* The accounts of pool are asked in order until one is among ok.  Asking  *)
(* the active account a second time in one call never changes the answer,  *)
(* so each is asked once.                                                  *)
(***************************************************************************)
Asked(pool, first, ok) ==
  LET met == pool \cap ok
      pick == CHOOSE a \in met : \A b \in met : Place(first, a) <= Place(first, b)
  IN  IF met = {} THEN [pick |-> NoAccount, asked |-> pool]
      ELSE [pick |-> pick, asked |-> {a \in pool : Place(first, a) <= Place(first, pick)}]

BreakersAsked(asked) ==
  [a \in Account |-> IF a \in asked /\ HasBreaker(a) THEN Attempted(breaker[a]) ELSE breaker[a]]

-----------------------------------------------------------------------------

GetAccountForModelTier(r, pool, fits) ==
  LET active == ActiveAccounts \cap pool
      first == IF active = {} THEN NoAccount ELSE Min(active)
      found == Asked(pool, first, {a \in fits : CanAttempt(breaker[a])})
  IN  /\ request[r].at = "idle"
      /\ breaker' = BreakersAsked(found.asked)
      /\ request' = IF found.pick = NoAccount THEN request
                    ELSE [request EXCEPT ![r] =
                           [at |-> "out", account |-> found.pick,
                            young |-> IF breaker[found.pick].state = "open" THEN HalfOpenProbeTTL ELSE 0]]
      /\ UNCHANGED <<account, switch, admin, adminCalls>>

(* The request ends without a report: cancelled, throttled, or lost. *)
EndSilently(r) ==
  /\ request[r].at = "out"
  /\ request' = [request EXCEPT ![r] = Free]
  /\ UNCHANGED <<account, breaker, switch, admin, adminCalls>>

RecordSuccess(r) ==
  LET a == request[r].account IN
  /\ request[r].at = "out"
  /\ breaker' = IF HasBreaker(a) THEN [breaker EXCEPT ![a] = NewCircuitBreaker] ELSE breaker
  /\ request' = [request EXCEPT ![r] = Free]
  /\ UNCHANGED <<account, switch, admin, adminCalls>>

(* autoSwitchInProgress lets one switch run at a time. *)
RecordFailure(r) ==
  LET a == request[r].account
      b == Failed(breaker[a])
  IN  /\ request[r].at = "out"
      /\ breaker' = IF HasBreaker(a) THEN [breaker EXCEPT ![a] = b] ELSE breaker
      /\ switch' = IF HasBreaker(a) /\ b.failures = FailureThreshold /\ switch.at = "idle"
                   THEN [Rest EXCEPT !.at = "read"] ELSE switch
      /\ request' = [request EXCEPT ![r] = Free]
      /\ UNCHANGED <<account, admin, adminCalls>>

Reports(r) == EndSilently(r) \/ RecordSuccess(r) \/ RecordFailure(r)

(* AutoSwitchAccount reads the active account ... *)
AutoRead ==
  /\ switch.at = "read"
  /\ switch' = IF ActiveAccounts = {} THEN Rest
               ELSE [Rest EXCEPT !.at = "select", !.old = Min(ActiveAccounts)]
  /\ UNCHANGED <<account, breaker, request, admin, adminCalls>>

(* ... selectBestAvailableAccount asks the others ... *)
selectBestAvailableAccount ==
  LET found == Asked(Enabled \ {switch.old}, NoAccount, {a \in Account : CanAttempt(breaker[a])})
  IN  /\ switch.at = "select"
      /\ breaker' = BreakersAsked(found.asked)
      /\ switch' = IF found.pick = NoAccount THEN Rest
                   ELSE [switch EXCEPT !.at = "commit", !.new = found.pick]
      /\ UNCHANGED <<account, request, admin, adminCalls>>

(* ... and switchToAccountInternal writes both rows in one transaction. *)
Switched(old, new) ==
  [a \in Account |-> [account[a] EXCEPT !.active = (a = new) \/ (@ /\ a # old)]]

AutoCommit ==
  /\ switch.at = "commit"
  /\ account' = Switched(switch.old, switch.new)
  /\ switch' = Rest
  /\ UNCHANGED <<breaker, request, admin, adminCalls>>

(* SwitchToAccount checks its target and reads the active account first. *)
SwitchToAccount(x, target) ==
  /\ admin[x].at = "idle" /\ adminCalls < MaxAdminCalls
  /\ target \in Enabled
  /\ \E old \in IF ActiveAccounts = {} THEN {NoAccount} ELSE ActiveAccounts :
       admin' = [admin EXCEPT ![x] = [at |-> "commit", old |-> old, new |-> target]]
  /\ adminCalls' = adminCalls + 1
  /\ UNCHANGED <<account, breaker, request, switch>>

AdminCommit(x) ==
  /\ admin[x].at = "commit"
  /\ account' = Switched(admin[x].old, admin[x].new)
  /\ admin' = [admin EXCEPT ![x] = Rest]
  /\ UNCHANGED <<breaker, request, switch, adminCalls>>

(* DeleteAccount refuses an account it reads as active. *)
DeleteAccount(x, a) ==
  /\ admin[x].at = "idle" /\ adminCalls < MaxAdminCalls
  /\ ~account[a].deleted /\ ~account[a].active
  /\ admin' = [admin EXCEPT ![x] = [Rest EXCEPT !.at = "delete", !.old = a]]
  /\ adminCalls' = adminCalls + 1
  /\ UNCHANGED <<account, breaker, request, switch>>

DeleteCommit(x) ==
  /\ admin[x].at = "delete"
  /\ account' = [account EXCEPT ![admin[x].old].deleted = TRUE]
  /\ breaker' = [breaker EXCEPT ![admin[x].old] = NewCircuitBreaker]
  /\ admin' = [admin EXCEPT ![x] = Rest]
  /\ UNCHANGED <<request, switch, adminCalls>>

(* UpdateAgentAccount writes the columns it was given, here the status. *)
UpdateAgentAccount(a) ==
  /\ adminCalls < MaxAdminCalls
  /\ account' = [account EXCEPT ![a].enabled = ~@]
  /\ adminCalls' = adminCalls + 1
  /\ UNCHANGED <<breaker, request, switch, admin>>

Sooner(t) == IF t = 0 THEN 0 ELSE t - 1

PoolTick ==
  /\ breaker' = [a \in Account |-> [breaker[a] EXCEPT !.wait = Sooner(@)]]
  /\ request' = [r \in Request |-> [request[r] EXCEPT !.young = Sooner(@)]]
  /\ UNCHANGED <<account, switch, admin, adminCalls>>

PoolNext ==
  \/ \E r \in Request, pool \in {Enabled, Enabled \cap Premium}, fits \in SUBSET Account :
       GetAccountForModelTier(r, pool, fits)
  \/ \E r \in Request : Reports(r)
  \/ AutoRead \/ selectBestAvailableAccount \/ AutoCommit
  \/ \E x \in Admin, a \in Account : SwitchToAccount(x, a) \/ DeleteAccount(x, a)
  \/ \E x \in Admin : AdminCommit(x) \/ DeleteCommit(x)
  \/ \E a \in Account : UpdateAgentAccount(a)
  \/ PoolTick

(***************************************************************************)
(* Time passes, and a request ends: the gateway bounds each by a timeout.  *)
(* Traffic is the premise of ProbesResolve, not a promise of the code: now *)
(* and then a request is put through the whole list.                       *)
(***************************************************************************)
Traffic == SF_poolVars(\E r \in Request : GetAccountForModelTier(r, Enabled, {}))

PoolSpec ==
  /\ PoolInit /\ [][PoolNext]_poolVars
  /\ WF_poolVars(PoolTick)
  /\ \A r \in Request : WF_poolVars(Reports(r))
  /\ Traffic

-----------------------------------------------------------------------------

(***************************************************************************)
(* CanAttempt grants "one probe in flight": of the probes of an account    *)
(* that have not reported, at most one is younger than halfOpenProbeTTL,   *)
(* although late reports of other requests reopen and close the breaker    *)
(* and a probe that never reports is given up.                             *)
(***************************************************************************)
OneProbe ==
  \A a \in Account :
    Cardinality({r \in Request : request[r].account = a /\ request[r].young > 0}) <= 1

(***************************************************************************)
(* NewCircuitBreaker: without the limit on a probe, one "whose result      *)
(* never reports back (network partition, caller crash before              *)
(* RecordSuccess/Failure) pins the breaker in half-open forever".  As long *)
(* as requests keep being put through the whole list, an account that      *)
(* stays enabled leaves the half-open state.                               *)
(***************************************************************************)
ProbesResolve ==
  \A a \in Account :
    breaker[a].state = "half-open" ~> breaker[a].state # "half-open" \/ a \notin Enabled

(***************************************************************************)
(* switchToAccountInternal: "The transaction guarantees the system is      *)
(* never in an "two active" or "zero active" state when seen from a fresh  *)
(* DB query".                                                              *)
(***************************************************************************)
OneActive == Cardinality(ActiveAccounts) = 1
=============================================================================
