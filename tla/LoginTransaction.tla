-------------------------- MODULE LoginTransaction --------------------------
(***************************************************************************)
(* One desktop login transaction (service/desktop/logintransaction):       *)
(* pending, claimed by a password check or by Google, authenticated, and   *)
(* exchanged for one authorization code.  Every operation reads the record *)
(* without a lock, calls an identity provider in the middle where it needs *)
(* one, and writes with a compare-and-swap on the record's version.        *)
(*                                                                         *)
(* Transactions do not touch each other, so there is one.  Callers hold    *)
(* the secrets they present; a wrong one changes nothing.  Expiry is lazy: *)
(* the row says so only after somebody looked.                             *)
(***************************************************************************)
EXTENDS Naturals

CONSTANTS
  Caller,               \* concurrent requests, of any server instance
  TTL, MaxPasswordFailures,
  MaxVersion            \* bound on the number of writes

ASSUME LoginAssumption ==
  TTL \in Nat \ {0} /\ MaxPasswordFailures \in Nat \ {0} /\ MaxVersion \in Nat \ {0}

VARIABLES
  login,      \* the record
  caller,     \* what each request is doing, with the version it read
  codes,      \* authorization codes issued
  adapterRuns \* calls of the Google identity adapter

loginVars == <<login, caller, codes, adapterRuns>>

LoginState == {"pending", "password_authenticating", "google_pending", "google_exchanging",
               "authenticated", "exchanged", "failed", "expired"}

stateCanExpire_Ended(s) == s \notin {"exchanged", "expired"}

stateCanExpire(s) == s \notin {"exchanged", "failed", "expired"}

Operation == {"password", "start", "callback", "exchange"}

Away == [at |-> "idle", op |-> "none", version |-> 0, rejected |-> FALSE]

LoginInit ==
  /\ login = [state |-> "pending", version |-> 1, failures |-> 0, ttl |-> TTL]
  /\ caller = [p \in Caller |-> Away]
  /\ codes = 0 /\ adapterRuns = 0

Lapsed == stateCanExpire(login.state) /\ login.ttl = 0

(* CompareAndSwap against the version read, with expireDuringMutation. *)
Swap(p, next) ==
  /\ caller[p].version = login.version
  /\ login' = IF Lapsed THEN [login EXCEPT !.state = "expired", !.version = @ + 1]
              ELSE [next EXCEPT !.version = @ + 1]

(* The states from which an operation's first swap may leave. *)
From(op) == CASE op \in {"password", "start"} -> "pending"
              [] op = "callback" -> "google_pending"
              [] op = "exchange" -> "authenticated"

Becomes(op) == CASE op = "password" -> "password_authenticating"
                 [] op = "start" -> "google_pending"
                 [] op = "callback" -> "google_exchanging"
                 [] op = "exchange" -> "exchanged"

(***************************************************************************)
(* loadRecord and ensureFresh.  A record past its time is expired on the   *)
(* spot, except under ExchangeAndIssue, whose transaction is rolled back   *)
(* with the error.                                                         *)
(***************************************************************************)
Load(p, op) ==
  /\ caller[p] = Away
  /\ IF Lapsed
     THEN /\ op # "exchange"
          /\ login' = [login EXCEPT !.state = "expired", !.version = @ + 1]
          /\ UNCHANGED caller
     ELSE /\ login.state # "expired"
          /\ op \in {"callback", "exchange"} => login.state = From(op)
          /\ caller' = [caller EXCEPT ![p] =
               [Away EXCEPT !.at = "loaded", !.op = op, !.version = login.version]]
          /\ UNCHANGED login
  /\ UNCHANGED <<codes, adapterRuns>>

(* CompletePassword and CompleteGoogle claim before they authenticate. *)
Claim(p) ==
  /\ caller[p].at = "loaded" /\ caller[p].op \in {"password", "callback"}
  /\ Lapsed \/ login.state = From(caller[p].op)
  /\ login.version < MaxVersion
  /\ Swap(p, [login EXCEPT !.state = Becomes(caller[p].op)])
  /\ caller' = [caller EXCEPT ![p] =
       IF Lapsed THEN Away ELSE [@ EXCEPT !.at = "authenticate", !.version = login.version + 1]]
  /\ UNCHANGED <<codes, adapterRuns>>

StartGoogle(p) ==
  /\ caller[p].at = "loaded" /\ caller[p].op = "start"
  /\ Lapsed \/ login.state = From("start")
  /\ login.version < MaxVersion
  /\ Swap(p, [login EXCEPT !.state = Becomes("start")])
  /\ caller' = [caller EXCEPT ![p] = Away]
  /\ UNCHANGED <<codes, adapterRuns>>

(* The password service or the Google adapter answers. *)
Authenticate(p) ==
  /\ caller[p].at = "authenticate"
  /\ \E verdict \in {"accepted", "refused", "unavailable"} :
       caller' = [caller EXCEPT ![p].at = IF verdict = "accepted" THEN "complete" ELSE "release",
                                ![p].rejected = verdict = "refused"]
  /\ adapterRuns' = IF caller[p].op = "callback" THEN adapterRuns + 1 ELSE adapterRuns
  /\ UNCHANGED <<login, codes>>

Claimed(p) == login.state = Becomes(caller[p].op)

(***************************************************************************)
(* completeAuthentication.  An error goes on to release the claim, also    *)
(* when the write was committed and only its answer was lost.              *)
(***************************************************************************)
completeAuthentication(p) ==
  /\ caller[p].at = "complete"
  /\ \/ /\ Claimed(p) /\ login.version < MaxVersion
        /\ Swap(p, [login EXCEPT !.state = "authenticated"])
        /\ caller' \in {[caller EXCEPT ![p] = Away], [caller EXCEPT ![p].at = "release"]}
     \/ /\ caller' = [caller EXCEPT ![p].at = "release"]
        /\ UNCHANGED login
  /\ UNCHANGED <<codes, adapterRuns>>

Spent(failures) == failures >= MaxPasswordFailures

(* releasePasswordClaim gives the transaction back or ends it. *)
releasePasswordClaim(p) ==
  LET failures == login.failures + IF caller[p].rejected THEN 1 ELSE 0 IN
  /\ caller[p].at = "release" /\ caller[p].op = "password"
  /\ Claimed(p) /\ login.version < MaxVersion
  /\ Swap(p, [login EXCEPT !.failures = failures,
                !.state = IF Spent(failures) THEN "failed" ELSE "pending"])
  /\ caller' = [caller EXCEPT ![p] = Away]
  /\ UNCHANGED <<codes, adapterRuns>>

(* failGoogleClaim ends it: the provider's code may be used up. *)
failGoogleClaim_Retries(p) ==
  /\ caller[p].at = "release" /\ caller[p].op = "callback"
  /\ Claimed(p) /\ login.version < MaxVersion
  /\ Swap(p, [login EXCEPT !.state = "google_pending"])
  /\ caller' = [caller EXCEPT ![p] = Away]
  /\ UNCHANGED <<codes, adapterRuns>>

failGoogleClaim(p) ==
  /\ caller[p].at = "release" /\ caller[p].op = "callback"
  /\ Claimed(p) /\ login.version < MaxVersion
  /\ Swap(p, [login EXCEPT !.state = "failed"])
  /\ caller' = [caller EXCEPT ![p] = Away]
  /\ UNCHANGED <<codes, adapterRuns>>

(* ExchangeAndIssue: Exchange and the code's row in one transaction. *)
ExchangeAndIssue(p) ==
  /\ caller[p].at = "loaded" /\ caller[p].op = "exchange"
  /\ login.state = From("exchange") /\ ~Lapsed
  /\ login.version < MaxVersion
  /\ Swap(p, [login EXCEPT !.state = Becomes("exchange")])
  /\ codes' = codes + 1
  /\ caller' = [caller EXCEPT ![p] = Away]
  /\ UNCHANGED adapterRuns

(* A lost swap, a wrong state, a failed write, a cancelled or dead request. *)
GiveUp(p) ==
  /\ caller[p] # Away
  /\ caller' = [caller EXCEPT ![p] = Away]
  /\ UNCHANGED <<login, codes, adapterRuns>>

LoginTick ==
  /\ login.ttl > 0
  /\ login' = [login EXCEPT !.ttl = @ - 1]
  /\ UNCHANGED <<caller, codes, adapterRuns>>

LoginNext ==
  \/ \E p \in Caller, op \in Operation : Load(p, op)
  \/ \E p \in Caller :
       \/ Claim(p) \/ StartGoogle(p) \/ Authenticate(p) \/ completeAuthentication(p)
       \/ releasePasswordClaim(p) \/ failGoogleClaim(p) \/ ExchangeAndIssue(p) \/ GiveUp(p)
  \/ LoginTick

LoginSpec == LoginInit /\ [][LoginNext]_loginVars

-----------------------------------------------------------------------------

(* The row is well formed, and the budget of rejected passwords recorded   *)
(* on it is kept whichever requests and servers spent it.                  *)
LoginTypeOK ==
  /\ login.state \in LoginState /\ login.version \in 1..(MaxVersion + 1)
  /\ login.failures \in 0..MaxPasswordFailures /\ login.ttl \in 0..TTL
  /\ \A p \in Caller : caller[p].op \in Operation \cup {"none"}

(***************************************************************************)
(* "Exchange returns it exactly once" and CompleteGoogle consumes the      *)
(* provider's state first "so concurrent or replayed callbacks cannot run  *)
(* the identity adapter twice": one transaction yields one authorization   *)
(* code at most, exactly when it is exchanged, and one call of Google.     *)
(***************************************************************************)
OneCodePerLogin ==
  /\ codes = (IF login.state = "exchanged" THEN 1 ELSE 0)
  /\ adapterRuns <= 1

(***************************************************************************)
(* A login that failed, expired or was exchanged stays so, whatever an     *)
(* earlier claim or a cleanup of it still writes, and an authenticated one *)
(* is not given back.                                                      *)
(***************************************************************************)
LoginsOnlyAdvance ==
  [][/\ login.state \in {"exchanged", "failed", "expired"} => login'.state = login.state
     /\ login.state = "authenticated" => login'.state \in {"authenticated", "exchanged", "expired"}]_loginVars
=============================================================================
