------------------------------- MODULE Sessions -------------------------------
(* The refresh tokens of one user.  A login issues one; a refresh reads it,    *)
(* revokes it, reads the user and issues the next; a revoked token that comes  *)
(* back ends every session; so do a logout, a reset password and an            *)
(* administrator.  The tabs of a browser share its cookie and refresh on their *)
(* own; a phone makes one call at a time.  Access tokens carry no state of the *)
(* server and are left out, and so are the thirty days a token lives.          *)
EXTENDS Integers, FiniteSets

CONSTANTS
  Tabs,           \* callers: tabs of browsers, and phones
  Cookie,         \* the cookie jar of each
  MaxTokens,      \* bound: tokens ever issued
  MaxEndings      \* bound: times every session is ended

ASSUME SessionAssumption == IsFiniteSet(Tabs) /\ {MaxTokens, MaxEndings} \subseteq Nat

Jars == {Cookie[t] : t \in Tabs}
Tokens == 1 .. MaxTokens         \* numbered by created_at; 0 is no token

VARIABLES
  active,       \* is_active of the user
  token,        \* refresh_tokens by number
  issued,       \* how many tokens exist or existed
  jar,          \* the token in each cookie
  request,         \* the call of each tab, by its awaited statement
  admin,        \* the administrator's call: none, or sessions still to end
  unfinished,   \* history: the administrator's call died before it ended them
  allowance,    \* history: logins, and refreshes of a token revoked meanwhile
  endings       \* history: times every session was ended

sessionVars ==
  <<active, token, issued, jar, request, admin, unfinished, allowance, endings>>

NoCall == [op |-> "idle"]

(* A live token belongs to an open session, or slipped past the end of its     *)
(* session because its call was under way, or (it should not) to one ended.    *)
Tags == {"open", "slipped", "ended"}

SessionTypeOK ==
  /\ active \in BOOLEAN
  /\ token \in [Tokens -> {"none", "revoked", "deleted"} \cup Tags]
  /\ issued \in 0 .. MaxTokens
  /\ jar \in [Jars -> 0 .. MaxTokens]
  /\ request \in [Tabs -> {NoCall} \cup
       [op : {"purge", "issue login", "rotate", "user", "issue", "end", "drop", "keep"},
        at : 0 .. MaxTokens, tag : Tags]]
  /\ admin \in {"idle", "end"}
  /\ unfinished \in BOOLEAN
  /\ allowance \in Nat
  /\ endings \in 0 .. MaxEndings

SessionInit ==
  /\ active = TRUE
  /\ token = [k \in Tokens |-> "none"]
  /\ issued = 0
  /\ jar = [j \in Jars |-> 0]
  /\ request = [t \in Tabs |-> NoCall]
  /\ admin = "idle"
  /\ unfinished = FALSE
  /\ allowance = 0 /\ endings = 0

Live(k) == token[k] \in Tags
Waiting(t, op) == request[t].op = op
Proceed(t, op) == request' = [request EXCEPT ![t].op = op]
Finish(t) == request' = [request EXCEPT ![t] = NoCall]
Begin(t, op, k, tag) == request' = [request EXCEPT ![t] = [op |-> op, at |-> k, tag |-> tag]]

(* A new row and the cookie the response sets, if it arrives; the new session  *)
(* is as open as the call that issues it.                                      *)
Issue(t) ==
  /\ issued < MaxTokens
  /\ issued' = issued + 1
  /\ token' = [token EXCEPT ![issued + 1] = request[t].tag]
  /\ \E arrives \in BOOLEAN :
       jar' = IF arrives THEN [jar EXCEPT ![Cookie[t]] = issued + 1] ELSE jar

(* updateMany over the user's tokens that are not revoked.  The other logins   *)
(* and refreshes under way slip by.                                            *)
Issuing == {"purge", "issue login", "rotate", "user", "issue"}

EndAll(except) ==
  /\ endings < MaxEndings
  /\ endings' = endings + 1
  /\ token' = [k \in Tokens |-> IF Live(k) THEN "revoked" ELSE token[k]]
  /\ request' = [t \in Tabs |->
       IF t \in except THEN NoCall
       ELSE IF request[t].op \in Issuing THEN [request[t] EXCEPT !.tag = "slipped"]
       ELSE request[t]]
  /\ unfinished' = FALSE

------------------------------------------------------------------------------
(* login: validateUser refuses a user who is not active; the tokens already    *)
(* revoked are deleted, or not if that fails; a token is issued.               *)

LoginCheck(t) ==
  /\ Waiting(t, "idle") /\ active
  /\ Begin(t, "purge", 0, "open")
  /\ UNCHANGED <<active, token, issued, jar, admin, unfinished, allowance, endings>>

LoginPurge(t) ==
  /\ Waiting(t, "purge")
  /\ \E succeeds \in BOOLEAN :
       token' = [k \in Tokens |-> IF succeeds /\ token[k] = "revoked" THEN "deleted" ELSE token[k]]
  /\ Proceed(t, "issue login")
  /\ UNCHANGED <<active, issued, jar, admin, unfinished, allowance, endings>>

LoginIssue(t) ==
  /\ Waiting(t, "issue login")
  /\ Issue(t) /\ Finish(t)
  /\ allowance' = allowance + 1
  /\ UNCHANGED <<active, admin, unfinished, endings>>

------------------------------------------------------------------------------
(* Mutant: a revoked token is taken for a live one.                            *)
RefreshReadRevoked(t) ==
  /\ Waiting(t, "idle")
  /\ LET k == jar[Cookie[t]]
     IN  /\ k # 0 /\ (Live(k) \/ token[k] = "revoked")
         /\ Begin(t, "rotate", k, IF Live(k) THEN token[k] ELSE "ended")
  /\ UNCHANGED <<active, token, issued, jar, admin, unfinished, allowance, endings>>

(* refresh: look the cookie's token up; a revoked one ends every session, one  *)
(* that is not there is refused.                                               *)
RefreshRead(t) ==
  /\ Waiting(t, "idle")
  /\ LET k == jar[Cookie[t]]
     IN  /\ k # 0 /\ (Live(k) \/ token[k] = "revoked")
         /\ IF Live(k) THEN Begin(t, "rotate", k, token[k]) ELSE Begin(t, "end", 0, "ended")
  /\ UNCHANGED <<active, token, issued, jar, admin, unfinished, allowance, endings>>

(* Mutant: the next token is issued and the old one left as it is.             *)
RefreshKeepsOld(t) ==
  /\ Waiting(t, "rotate")
  /\ request' = [request EXCEPT ![t].op = "user", ![t].at = 0]
  /\ UNCHANGED <<active, token, issued, jar, admin, unfinished, allowance, endings>>

(* The update finds the row by its id, revoked or not by now, and fails if a   *)
(* login deleted it.                                                           *)
RefreshRotate(t) ==
  /\ Waiting(t, "rotate")
  /\ LET k == request[t].at
     IN  IF token[k] = "deleted"
         THEN Finish(t) /\ UNCHANGED <<token, allowance>>
         ELSE /\ token' = [token EXCEPT ![k] = "revoked"]
              /\ allowance' = IF Live(k) THEN allowance ELSE allowance + 1
              /\ request' = [request EXCEPT ![t].op = "user", ![t].at = 0]
  /\ UNCHANGED <<active, issued, jar, admin, unfinished, endings>>

RefreshUser(t) ==
  /\ Waiting(t, "user")
  /\ IF active THEN Proceed(t, "issue") ELSE Begin(t, "end", 0, "ended")
  /\ UNCHANGED <<active, token, issued, jar, admin, unfinished, allowance, endings>>

RefreshIssue(t) ==
  /\ Waiting(t, "issue")
  /\ Issue(t) /\ Finish(t)
  /\ UNCHANGED <<active, admin, unfinished, allowance, endings>>

------------------------------------------------------------------------------
(* logout: the guard is not on this route, so the cookie tells whose sessions  *)
(* to end; the cookie is cleared in any case.                                  *)
Logout(t) ==
  /\ Waiting(t, "idle")
  /\ LET k == jar[Cookie[t]]
     IN  /\ k # 0
         /\ IF token[k] = "deleted" THEN UNCHANGED request ELSE Begin(t, "end", 0, "ended")
  /\ jar' = [jar EXCEPT ![Cookie[t]] = 0]
  /\ UNCHANGED <<active, token, issued, admin, unfinished, allowance, endings>>

(* The last statement of logout, of a reused token and of an inactive user.    *)
EndSessions(t) ==
  /\ Waiting(t, "end")
  /\ EndAll({t})
  /\ UNCHANGED <<active, issued, jar, admin, allowance>>

(* resetPassword of a link: the password, the link and the sessions in one     *)
(* transaction.                                                                *)
ResetPassword ==
  /\ issued > 0
  /\ EndAll({})
  /\ UNCHANGED <<active, issued, jar, admin, allowance>>

(* revokeSession drops one session the user picked in the list; changePassword *)
(* keeps the latest one it reads, whichever device asked, and drops the rest.  *)
Drop(t, k) ==
  /\ Waiting(t, "idle") /\ Live(k)
  /\ Begin(t, "drop", k, "ended")
  /\ UNCHANGED <<active, token, issued, jar, admin, unfinished, allowance, endings>>

ChangePassword(t) ==
  LET live == {k \in Tokens : Live(k)}
  IN  /\ Waiting(t, "idle") /\ Cardinality(live) > 1
      /\ \E k \in live : /\ \A j \in live : j <= k
                         /\ Begin(t, "keep", k, "ended")
      /\ UNCHANGED <<active, token, issued, jar, admin, unfinished, allowance,
                     endings>>

Revoke(t) ==
  /\ \/ Waiting(t, "drop") /\ token[request[t].at] # "deleted"
     \/ Waiting(t, "keep")
  /\ token' = [k \in Tokens |->
       IF Live(k) /\ (Waiting(t, "drop") <=> k = request[t].at)
       THEN "revoked" ELSE token[k]]
  /\ Finish(t)
  /\ UNCHANGED <<active, issued, jar, admin, unfinished, allowance, endings>>

------------------------------------------------------------------------------
(* users.remove, update and resetPassword: the user's row is written, then     *)
(* revokeUserSessions is called.                                               *)
AdminWrites(becomes) ==
  /\ admin = "idle" /\ issued > 0
  /\ active' = becomes
  /\ admin' = "end"
  /\ UNCHANGED <<token, issued, jar, request, unfinished, allowance, endings>>

AdminEnds ==
  /\ admin = "end"
  /\ admin' = "idle"
  /\ EndAll({})
  /\ UNCHANGED <<active, issued, jar, allowance>>

(* update with is_active true: nothing is revoked.                             *)
Reactivate ==
  /\ admin = "idle" /\ ~active
  /\ active' = TRUE
  /\ UNCHANGED <<token, issued, jar, request, admin, unfinished, allowance, endings>>

(* A statement fails, or the server dies: a call stops where it is.            *)
CallFails(t) ==
  /\ ~Waiting(t, "idle")
  /\ Finish(t)
  /\ UNCHANGED <<active, token, issued, jar, admin, unfinished, allowance, endings>>

AdminFails ==
  /\ admin = "end"
  /\ admin' = "idle"
  /\ unfinished' = TRUE
  /\ UNCHANGED <<active, token, issued, jar, request, allowance, endings>>

------------------------------------------------------------------------------
TabStep(t) ==
  \/ LoginCheck(t) \/ LoginPurge(t) \/ LoginIssue(t)
  \/ RefreshRead(t) \/ RefreshRotate(t) \/ RefreshUser(t) \/ RefreshIssue(t)
  \/ Logout(t) \/ EndSessions(t)
  \/ ChangePassword(t) \/ \E k \in Tokens : Drop(t, k)
  \/ Revoke(t)
  \/ CallFails(t)

SessionNext ==
  \/ \E t \in Tabs : TabStep(t)
  \/ ResetPassword
  \/ \E becomes \in {active, FALSE} : AdminWrites(becomes)
  \/ AdminEnds \/ AdminFails \/ Reactivate

SessionSpec == SessionInit /\ [][SessionNext]_sessionVars

------------------------------------------------------------------------------
(* Rotation keeps the number of sessions: every live token, and every refresh  *)
(* that revoked one and has not issued the next, is paid for by a login or by  *)
(* a refresh whose token was revoked under its hands.  That is the price of    *)
(* reading revoked_at in one statement and writing it in another.              *)
SessionsDoNotMultiply ==
  Cardinality({k \in Tokens : Live(k)})
    + Cardinality({t \in Tabs : request[t].op \in {"user", "issue"}})
  <= allowance

(* What was ended stays ended: no live token goes back to one revoked by a     *)
(* rotation, a logout, a reset, an administrator or a reuse, but those of      *)
(* calls under way; and once an administrator has locked a user out and ended  *)
(* the sessions, only such a token is left.                                    *)
EndedStaysEnded ==
  \A k \in Tokens : Live(k) =>
    /\ token[k] # "ended"
    /\ ~active /\ admin = "idle" /\ ~unfinished => token[k] = "slipped"
==============================================================================
