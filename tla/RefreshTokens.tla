---------------------------- MODULE RefreshTokens ----------------------------
(***************************************************************************)
(* Sessions of auth/routes: a login stores a refresh token that starts a   *)
(* family, /refresh exchanges a token for a new one of the same family in  *)
(* four statements that other requests may come between, and a token that  *)
(* was exchanged before and comes back revokes its family.  A request may  *)
(* present any token that was ever issued (two tabs share a cookie, an     *)
(* answer is lost and the old token is used again, a copy was taken), and  *)
(* may die between two statements.                                         *)
(***************************************************************************)
EXTENDS Integers, FiniteSets

CONSTANTS
  Tokens,    \* refresh tokens that may be generated
  Requests,  \* requests to /refresh under way at the same time
  NoToken

ASSUME TokenConstants == NoToken \notin Tokens

VARIABLES
  tokenState,  \* refresh_tokens: not there, live, or with revokedAt set
  family,      \* familyId, named after the token of the login
  expired,     \* tokens whose expiresAt has passed
  refresh      \* where each request is, and the token it presents

tokenVars == <<tokenState, family, expired, refresh>>

IdleRefresh == [step |-> "idle", token |-> NoToken]

(* Types of the state. *)
TokenTypeOK ==
  /\ tokenState \in [Tokens -> {"none", "live", "revoked"}]
  /\ family \in [Tokens -> Tokens \cup {NoToken}]
  /\ expired \subseteq Tokens
  /\ refresh \in [Requests -> [step : {"idle", "claim", "reuse", "insert"},
                               token : Tokens \cup {NoToken}]]

TokenInit ==
  /\ tokenState = [t \in Tokens |-> "none"]
  /\ family = [t \in Tokens |-> NoToken]
  /\ expired = {}
  /\ refresh = [r \in Requests |-> IdleRefresh]

Issued == {t \in Tokens : tokenState[t] # "none"}
LiveIn(f) == {t \in Tokens : tokenState[t] = "live" /\ family[t] = f}

InsertToken(t, f) ==
  /\ tokenState[t] = "none"
  /\ tokenState' = [tokenState EXCEPT ![t] = "live"]
  /\ family' = [family EXCEPT ![t] = f]

-----------------------------------------------------------------------------
(* A login, with Google or in development, starts a family. *)
GoogleCallback(t) ==
  /\ InsertToken(t, t)
  /\ UNCHANGED <<expired, refresh>>

DevLogin(t) ==
  /\ InsertToken(t, t)
  /\ UNCHANGED <<expired, refresh>>

(* The request finds its token, and the token has not expired. *)
StartRefresh(r, t) ==
  /\ refresh[r] = IdleRefresh
  /\ t \in Issued \ expired
  /\ refresh' = [refresh EXCEPT ![r] = [step |-> "claim", token |-> t]]
  /\ UNCHANGED <<tokenState, family, expired>>

(* Mutated form of Claim: the token is not revoked by it. *)
ClaimWithoutRevoking(r) ==
  /\ refresh[r].step = "claim"
  /\ refresh' = [refresh EXCEPT ![r].step =
       IF tokenState[refresh[r].token] = "live" THEN "insert" ELSE "reuse"]
  /\ UNCHANGED <<tokenState, family, expired>>

(* Mutated form of Claim: a revoked token is claimed as well. *)
ClaimUnguarded(r) ==
  /\ refresh[r].step = "claim"
  /\ tokenState' = [tokenState EXCEPT ![refresh[r].token] = "revoked"]
  /\ refresh' = [refresh EXCEPT ![r].step = "insert"]
  /\ UNCHANGED <<family, expired>>

(* UPDATE ... WHERE revoked_at IS NULL: one of several requests gets it. *)
Claim(r) ==
  LET t == refresh[r].token IN
  /\ refresh[r].step = "claim"
  /\ IF tokenState[t] = "live"
     THEN /\ tokenState' = [tokenState EXCEPT ![t] = "revoked"]
          /\ refresh' = [refresh EXCEPT ![r].step = "insert"]
     ELSE /\ refresh' = [refresh EXCEPT ![r].step = "reuse"]
          /\ UNCHANGED tokenState
  /\ UNCHANGED <<family, expired>>

(* Reuse: every live token of the family is revoked. *)
RevokeFamily(r) ==
  /\ refresh[r].step = "reuse"
  /\ tokenState' = [t \in Tokens |-> IF t \in LiveIn(family[refresh[r].token])
                                     THEN "revoked" ELSE tokenState[t]]
  /\ refresh' = [refresh EXCEPT ![r] = IdleRefresh]
  /\ UNCHANGED <<family, expired>>

(* The rotation stays inside the family. *)
InsertRotated(r, t) ==
  /\ refresh[r].step = "insert"
  /\ InsertToken(t, family[refresh[r].token])
  /\ refresh' = [refresh EXCEPT ![r] = IdleRefresh]
  /\ UNCHANGED expired

(* A statement fails or the process dies. *)
RefreshDies(r) ==
  /\ refresh[r] # IdleRefresh
  /\ refresh' = [refresh EXCEPT ![r] = IdleRefresh]
  /\ UNCHANGED <<tokenState, family, expired>>

(* /logout revokes the token it is given and no other. *)
Logout(t) ==
  /\ tokenState[t] = "live"
  /\ tokenState' = [tokenState EXCEPT ![t] = "revoked"]
  /\ UNCHANGED <<family, expired, refresh>>

Expires(t) ==
  /\ t \in Issued \ expired
  /\ expired' = expired \cup {t}
  /\ UNCHANGED <<tokenState, family, refresh>>

TokenNext ==
  \/ \E t \in Tokens : GoogleCallback(t) \/ DevLogin(t) \/ Logout(t) \/ Expires(t)
  \/ \E r \in Requests : \/ Claim(r) \/ RevokeFamily(r) \/ RefreshDies(r)
                         \/ \E t \in Tokens : StartRefresh(r, t) \/ InsertRotated(r, t)

TokenSpec == TokenInit /\ [][TokenNext]_tokenVars

-----------------------------------------------------------------------------
(* Properties. *)

(* However requests with the same token race, fail or are replayed, a      *)
(* session has at most one live refresh token: a rotation never leaves two *)
(* chains, of which one could be used unnoticed next to the other.         *)
OneLivePerFamily ==
  \A t, u \in Tokens :
    tokenState[t] = "live" /\ tokenState[u] = "live" /\ family[t] = family[u]
      => t = u

Inserting(f) == \E r \in Requests : refresh[r].step = "insert"
                                    /\ family[refresh[r].token] = f
Dead(f) == f \in Issued /\ LiveIn(f) = {} /\ ~Inserting(f)

(* A session that was ended, by a logout, by a detected reuse or by a      *)
(* rotation that died half way, stays ended.  A rotation that has claimed  *)
(* its token when the family is revoked is not caught: its insert comes    *)
(* after the revocation, so the session is only dead once it is through.   *)
FamilyStaysDead == [][\A f \in Tokens : Dead(f) => Dead(f)']_tokenVars

=============================================================================
