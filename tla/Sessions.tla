------------------------------ MODULE Sessions ------------------------------
(* The sessions of one account (internal/auth, handlers/auth*.go): refresh     *)
(* tokens that are rotated on use, with a grace window for tabs that refresh   *)
(* together, and revoked by logout, by the owner, by an admin or by a replay.  *)
(* Every SQL statement is a step of its own. Accounts are independent: every   *)
(* statement is scoped to one user or one token.                               *)
EXTENDS Naturals, FiniteSets

CONSTANTS
  Browsers,
  Tabs,        \* <<browser, n>>: the tabs of a browser share its stored token
  Tokens,      \* bound: refresh tokens in use at once
  NoToken      \* no token

ASSUME SessionsAssumption ==
  /\ NoToken \notin Tokens
  /\ \A t \in Tabs : t[1] \in Browsers

VARIABLES
  account,     \* users.status, or "deleted"
  token,       \* refresh_tokens: no usable row, unused, consumed within / before the grace window
  kept,        \* the refresh token in the browser's localStorage
  req,         \* each tab's call to /auth/login or /auth/refresh
  disabling    \* SetUserStatus has disabled the account and not yet revoked its sessions

sessionVars == <<account, token, kept, req, disabling>>

Quiet == [at |-> "idle", uses |-> NoToken, verdict |-> "none", user |-> "none"]

SessionsTypeOK ==
  /\ account \in {"active", "pending", "disabled", "deleted"}
  /\ token \in [Tokens -> {"none", "unused", "consumed", "past"}]
  /\ kept \in [Browsers -> Tokens \union {NoToken}]
  /\ req \in [Tabs -> [at : {"idle", "sent", "found", "consuming", "deciding", "issuing", "answered"},
                       uses : Tokens \union {NoToken},
                       verdict : {"none", "unused", "grace", "reuse", "refused"},
                       user : {"none", "active", "pending", "disabled"}]]
  /\ disabling \in BOOLEAN

SessionsInit ==
  /\ account \in {"active", "pending"}
  /\ token = [t \in Tokens |-> "none"]
  /\ kept = [b \in Browsers |-> NoToken]
  /\ req = [t \in Tabs |-> Quiet]
  /\ disabling = FALSE

Without(gone) == [t \in Tokens |-> IF t \in gone THEN "none" ELSE token[t]]
Unknown(t) == token[t] = "none" /\ (\A b \in Browsers : kept[b] # t) /\ (\A x \in Tabs : req[x].uses # t)
Step(t, r) == req' = [req EXCEPT ![t] = r]
Issuing == [Quiet EXCEPT !.at = "issuing"]
Refused == [Quiet EXCEPT !.at = "answered", !.verdict = "refused"]

(***************************************************************************)
(* Signing in and refreshing.                                              *)
(***************************************************************************)

(* The password, passkey or OAuth login has read the account and let it pass. *)
LogIn(t) ==
  /\ req[t] = Quiet /\ kept[t[1]] = NoToken /\ account = "active"
  /\ Step(t, Issuing)
  /\ UNCHANGED <<account, token, kept, disabling>>

SendRefresh(t) ==
  /\ req[t] = Quiet /\ kept[t[1]] # NoToken
  /\ Step(t, [Quiet EXCEPT !.at = "sent", !.uses = kept[t[1]]])
  /\ UNCHANGED <<account, token, kept, disabling>>

verdictOn(row) == CASE row = "unused" -> "unused" [] row = "consumed" -> "grace" [] row = "past" -> "reuse"

(* RotateRefreshToken: the token's row, then its user, then the conditional update. *)
FindToken(t) ==
  LET row == token[req[t].uses] IN
  /\ req[t].at = "sent"
  /\ Step(t, IF row = "none" THEN Refused ELSE [req[t] EXCEPT !.at = "found", !.verdict = verdictOn(row)])
  /\ UNCHANGED <<account, token, kept, disabling>>

\* The lookup of a deleted user is an error, which the browser retries.
FindUser(t) ==
  /\ req[t].at = "found"
  /\ Step(t, IF account = "deleted" THEN [Quiet EXCEPT !.at = "sent", !.uses = req[t].uses]
             ELSE [req[t] EXCEPT !.user = account,
                                 !.at = IF req[t].verdict = "unused" THEN "consuming" ELSE "deciding"])
  /\ UNCHANGED <<account, token, kept, disabling>>

(* mutant: the UPDATE has no `consumed_at IS NULL' *)
consumableAlways(row) == row # "none"
consumable(row) == row = "unused"

\* Winning and losing the update (RefreshRotated, RefreshGraceReissue) are answered alike.
Consume(t) ==
  LET old == req[t].uses IN
  /\ req[t].at = "consuming"
  /\ IF consumable(token[old])
     THEN token' = [token EXCEPT ![old] = "consumed"]
     ELSE UNCHANGED token
  /\ Step(t, [req[t] EXCEPT !.at = "deciding", !.verdict = "grace"])
  /\ UNCHANGED <<account, kept, disabling>>

(* mutant: a refresh does not look at the account's status *)
mayRenewAny(status) == TRUE
mayRenew(status) == status = "active"

(* refreshOutcomeOK *)
Decide(t) ==
  /\ req[t].at = "deciding"
  /\ IF req[t].verdict # "reuse" /\ mayRenew(req[t].user)
     THEN /\ Step(t, Issuing)
          /\ UNCHANGED token
     ELSE /\ token' = Without(Tokens)
          /\ Step(t, Refused)
  /\ UNCHANGED <<account, kept, disabling>>

(* issueTokens, issueTokenPair: the insert fails once the user is deleted. *)
Issue(t) ==
  /\ req[t].at = "issuing" /\ account # "deleted"
  /\ \E new \in Tokens :
       /\ Unknown(new)
       /\ token' = [token EXCEPT ![new] = "unused"]
       /\ Step(t, [Quiet EXCEPT !.at = "answered", !.uses = new])
  /\ UNCHANGED <<account, kept, disabling>>

IssueFails(t) ==
  /\ req[t].at = "issuing" /\ account = "deleted"
  /\ Step(t, Quiet)
  /\ UNCHANGED <<account, token, kept, disabling>>

(***************************************************************************)
(* The browser.                                                            *)
(***************************************************************************)

\* A rejection in one tab logs the whole browser out, whatever token it holds by now.
Receive(t) ==
  LET b == t[1] IN
  /\ req[t].at = "answered"
  /\ IF req[t].verdict = "refused"
     THEN kept' = [kept EXCEPT ![b] = NoToken] /\ token' = Without({kept[b]})
     ELSE kept' = [kept EXCEPT ![b] = req[t].uses] /\ UNCHANGED token
  /\ Step(t, Quiet)
  /\ UNCHANGED <<account, disabling>>

\* The answer is lost: the tab gives up, and refreshes later with what is stored.
Lose(t) ==
  /\ req[t].at = "answered"
  /\ Step(t, Quiet)
  /\ UNCHANGED <<account, token, kept, disabling>>

Logout(b) ==
  /\ kept[b] # NoToken
  /\ token' = Without({kept[b]}) /\ kept' = [kept EXCEPT ![b] = NoToken]
  /\ UNCHANGED <<account, req, disabling>>

RevokeOtherSessions(b) ==
  /\ kept[b] # NoToken
  /\ token' = Without(Tokens \ {kept[b]})
  /\ UNCHANGED <<account, kept, req, disabling>>

RevokeSession(t) ==
  /\ token[t] = "unused"
  /\ token' = Without({t})
  /\ UNCHANGED <<account, kept, req, disabling>>

(***************************************************************************)
(* The admin.                                                              *)
(***************************************************************************)

SetUserStatus ==
  /\ account # "deleted" /\ ~disabling
  /\ account' \in {"active", "pending", "disabled"}
  /\ disabling' = (account' = "disabled")
  /\ UNCHANGED <<token, kept, req>>

DisableRevokes ==
  /\ disabling
  /\ token' = Without(Tokens) /\ disabling' = FALSE
  /\ UNCHANGED <<account, kept, req>>

\* Also the end of an admin's password reset.
RevokeAllSessions ==
  /\ \E t \in Tokens : token[t] # "none"
  /\ token' = Without(Tokens)
  /\ UNCHANGED <<account, kept, req, disabling>>

DeleteUser ==
  /\ account # "deleted"
  /\ account' = "deleted" /\ token' = Without(Tokens)
  /\ UNCHANGED <<kept, req, disabling>>

(***************************************************************************)
(* Time.                                                                   *)
(***************************************************************************)

GraceEnds(t) ==
  /\ token[t] = "consumed"
  /\ token' = [token EXCEPT ![t] = "past"]
  /\ UNCHANGED <<account, kept, req, disabling>>

\* Past its time to live a row is refused like one that is not there.
Expire(t) ==
  /\ token[t] = "unused"
  /\ token' = Without({t})
  /\ UNCHANGED <<account, kept, req, disabling>>

CleanupExpired ==
  /\ \E t \in Tokens : token[t] = "past"
  /\ token' = Without({t \in Tokens : token[t] = "past"})
  /\ UNCHANGED <<account, kept, req, disabling>>

Handling(t) == FindToken(t) \/ FindUser(t) \/ Consume(t) \/ Decide(t) \/ Issue(t) \/ IssueFails(t)

SessionsNext ==
  \/ \E t \in Tabs : LogIn(t) \/ SendRefresh(t) \/ Handling(t) \/ Receive(t) \/ Lose(t)
  \/ \E b \in Browsers : Logout(b) \/ RevokeOtherSessions(b)
  \/ \E t \in Tokens : RevokeSession(t) \/ GraceEnds(t) \/ Expire(t)
  \/ SetUserStatus \/ DisableRevokes \/ RevokeAllSessions \/ DeleteUser \/ CleanupExpired

(* Requests end, time passes and the hourly cleanup runs; nobody has to come   *)
(* back, to log out, or to revoke anything.                                    *)
SessionsFairness ==
  /\ \A t \in Tabs : WF_sessionVars(Handling(t)) /\ WF_sessionVars(Receive(t) \/ Lose(t))
  /\ \A t \in Tokens : WF_sessionVars(GraceEnds(t)) /\ WF_sessionVars(Expire(t))
  /\ WF_sessionVars(DisableRevokes) /\ WF_sessionVars(CleanupExpired)

SessionsSpec == SessionsInit /\ [][SessionsNext]_sessionVars /\ SessionsFairness

(***************************************************************************)
(* Properties.                                                             *)
(***************************************************************************)

(* A refresh token whose grace window is over never becomes usable again: two  *)
(* tabs may have read it unused, and the slower one must not restart its       *)
(* window, or a replay of it would be taken for a tab that refreshed late.     *)
PastStaysPast == [][\A t \in Tokens : token[t] = "past" => token'[t] \in {"past", "none"}]_sessionVars

(* An account that stays inactive ends up with no session: the refresh or      *)
(* login that read it active and issued its token after the revocation has one *)
(* turn left at most, however often its browser comes back.                    *)
InactiveEndsSessions ==
  <>[](account # "active") => <>[](\A t \in Tokens : token[t] # "unused")
=============================================================================
