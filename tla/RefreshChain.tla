---------------------------- MODULE RefreshChain ----------------------------
(***************************************************************************)
(* Rotation of desktop refresh tokens (service/desktop/oauth/              *)
(* refresh_chain.go).  The tokens of one sign-in form a chain.  Presenting *)
(* the live one trades it for its child; presenting one that was already   *)
(* traded in or revoked ends the chain.  A request looks the token up      *)
(* without a lock and acts on what it saw in a later statement, so other   *)
(* requests come in between.                                               *)
(*                                                                         *)
(* The random token string is its row, so a row that is "absent" has not   *)
(* been drawn yet.  A lookup that misses, a token of another client and    *)
(* an expired token change nothing and are not actions.  Each UPDATE over  *)
(* a chain is one step.                                                    *)
(***************************************************************************)
EXTENDS Integers

CONSTANTS Chain, Token, NoToken, Refresh, RefreshTokenTTL

ASSUME ChainAssumption == RefreshTokenTTL \in Nat /\ NoToken \notin Token \cup Chain

VARIABLES token, refresh

chainVars == <<token, refresh>>

Reason == {"rotated", "replay_detected", "user_revoked"}

TokenState == {"absent", "live"} \cup Reason

TokenRow == [state : TokenState, chain : Chain \cup {NoToken}, parent : Token \cup {NoToken}, ttl : Int]

RequestRow == [at : {"idle", "sweep", "rotate"}, token : Token \cup {NoToken}]

IdleRequest == [at |-> "idle", token |-> NoToken]

ChainInit ==
  /\ token = [k \in Token |-> [state |-> "absent", chain |-> NoToken, parent |-> NoToken, ttl |-> 0]]
  /\ refresh = [r \in Refresh |-> IdleRequest]

Known(c) == {k \in Token : token[k].state # "absent" /\ token[k].chain = c}

LiveTokens(c) == {k \in Known(c) : token[k].state = "live"}

(* insertNewTx: the row of a token drawn for chain c. *)
NewRow(c, p) == [state |-> "live", chain |-> c, parent |-> p, ttl |-> RefreshTokenTTL]

(* UPDATE ... WHERE chain_id = c AND revoked = false. *)
RevokedRows(c, reason) ==
  [k \in Token |-> IF k \in LiveTokens(c) THEN [token[k] EXCEPT !.state = reason] ELSE token[k]]

(* The authorization_code grant starts a chain under a fresh identifier. *)
Issue(c, k) ==
  /\ Known(c) = {}
  /\ token[k].state = "absent"
  /\ token' = [token EXCEPT ![k] = NewRow(c, NoToken)]
  /\ UNCHANGED refresh

(* Rotate, steps 1 to 3: the lookup decides what the request does next. *)
Present(r, k) ==
  /\ refresh[r].at = "idle"
  /\ token[k].state # "absent"
  /\ token[k].state = "live" => token[k].ttl >= 0
  /\ refresh' = [refresh EXCEPT ![r] =
       [at |-> IF token[k].state = "live" THEN "rotate" ELSE "sweep", token |-> k]]
  /\ UNCHANGED token

(* Rotate, step 2, outside any transaction. *)
sweepChainAsReplay(r) ==
  /\ refresh[r].at = "sweep"
  /\ token' = RevokedRows(token[refresh[r].token].chain, "replay_detected")
  /\ refresh' = [refresh EXCEPT ![r] = IdleRequest]

(* The compare-and-set of the rotation's UPDATE. *)
Rotatable_NotRotated(k) == token[k].state # "rotated"

Rotatable_Again(k) == token[k].state \in {"live", "rotated"}

Rotatable(k) == token[k].state = "live"

(* Rotate, step 4: mark the token and insert its child, or refuse. *)
Rotate(r, child) ==
  LET k == refresh[r].token IN
  /\ refresh[r].at = "rotate"
  /\ token[child].state = "absent"
  /\ token' = IF Rotatable(k)
              THEN [token EXCEPT ![k].state = "rotated", ![child] = NewRow(token[k].chain, k)]
              ELSE token
  /\ refresh' = [refresh EXCEPT ![r] = IdleRequest]

(* Revoke and RevokeByToken: the user signs a device out. *)
Revoke(c) ==
  /\ LiveTokens(c) # {}
  /\ token' = RevokedRows(c, "user_revoked")
  /\ UNCHANGED refresh

(* The process or the connection dies; what was committed stays. *)
Abandon(r) ==
  /\ refresh[r].at # "idle"
  /\ refresh' = [refresh EXCEPT ![r] = IdleRequest]
  /\ UNCHANGED token

(* Time; -1 stands for every moment after ExpiresAt. *)
ChainTick ==
  /\ \E k \in Token : token[k].state = "live" /\ token[k].ttl >= 0
  /\ token' = [k \in Token |-> IF token[k].state = "live" /\ token[k].ttl >= 0
                               THEN [token[k] EXCEPT !.ttl = @ - 1] ELSE token[k]]
  /\ UNCHANGED refresh

ChainNext ==
  \/ \E c \in Chain, k \in Token : Issue(c, k)
  \/ \E r \in Refresh, k \in Token : Present(r, k) \/ Rotate(r, k)
  \/ \E r \in Refresh : sweepChainAsReplay(r) \/ Abandon(r)
  \/ \E c \in Chain : Revoke(c)
  \/ ChainTick

ChainSpec == ChainInit /\ [][ChainNext]_chainVars

-----------------------------------------------------------------------------

ChainTypeOK == token \in [Token -> TokenRow] /\ refresh \in [Refresh -> RequestRow]

(***************************************************************************)
(* refresh_chain.go promises that "a concurrent rotation cannot produce    *)
(* two children": whatever requests saw a token as live, it is traded in   *)
(* once, and of a whole chain one token at most can still be used.         *)
(***************************************************************************)
OneSuccessor ==
  /\ \A c \in Chain : \A k, l \in LiveTokens(c) : k = l
  /\ \A k, l \in Token : token[k].state # "absent" /\ token[l].state # "absent"
                         /\ token[k].parent = token[l].parent /\ token[k].parent # NoToken => k = l

(***************************************************************************)
(* A chain that was swept as a replay or signed out has no usable token    *)
(* again: no rotation that looked its token up before the sweep brings it  *)
(* back.                                                                   *)
(***************************************************************************)
EndedChainsStay ==
  [][\A c \in Chain : Known(c) # {} /\ LiveTokens(c) = {} => LiveTokens(c)' = {}]_chainVars
=============================================================================
