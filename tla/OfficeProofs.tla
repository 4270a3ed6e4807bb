----------------------------- MODULE OfficeProofs -----------------------------
(*****************************************************************************)
(* Proofs about the workshop's office: Sessions, for any tabs, cookie jars   *)
(* and bounds, DeferredDesk, for any items, users and reminders, and         *)
(* Billing, for any admins, plans and counters.                              *)
(*****************************************************************************)
EXTENDS Sessions, DeferredDesk, Billing, FiniteSetTheorems, SequenceTheorems, TLAPS

-------------------------------------------------------------------------------
(*****************************************************************************)
(* Sessions.                                                                 *)
(*****************************************************************************)

Calls ==
  [op : {"purge", "issue login", "rotate", "user", "issue", "end", "drop", "keep"},
   at : 0 .. MaxTokens, tag : Tags]

TokenStates == {"none", "revoked", "deleted"} \cup Tags

Between == {"user", "issue"}        \* a token revoked, the next not yet issued

LiveTokens == {k \in Tokens : Live(k)}
Flights == {t \in Tabs : request[t].op \in Between}

(* Only a call under way when its sessions ended can still issue a token to a  *)
(* user who is locked out.                                                     *)
LockedOut == ~active /\ admin = "idle" /\ ~unfinished

NothingEndedLives ==
  /\ \A k \in Tokens : Live(k) =>
       token[k] # "ended" /\ (LockedOut => token[k] = "slipped")
  /\ \A t \in Tabs : request[t].op \in Issuing =>
       request[t].tag # "ended" /\ (LockedOut => request[t].tag = "slipped")

RotatesToken ==
  \A t \in Tabs : request[t].op = "rotate" => request[t].at \in Tokens

SessionSound ==
  SessionTypeOK /\ RotatesToken /\ NothingEndedLives /\ SessionsDoNotMultiply

------------------------------------------------------------------------------
(* Counting sessions.                                                          *)

LEMMA CountsAreNumbers ==
  /\ IsFiniteSet(LiveTokens) /\ Cardinality(LiveTokens) \in Nat
  /\ IsFiniteSet(Flights) /\ Cardinality(Flights) \in Nat
<1>1. IsFiniteSet(Tokens)  BY SessionAssumption, FS_Interval DEF Tokens
<1>2. LiveTokens \in SUBSET Tokens /\ Flights \in SUBSET Tabs  BY DEF LiveTokens, Flights
<1> QED BY <1>1, <1>2, SessionAssumption, FS_Subset, FS_CardinalityType

LEMMA CountsByName ==
  SessionsDoNotMultiply <=> Cardinality(LiveTokens) + Cardinality(Flights) <= allowance
BY DEF SessionsDoNotMultiply, LiveTokens, Flights, Between

LEMMA CountsByNameNext ==
  SessionsDoNotMultiply' <=> Cardinality(LiveTokens') + Cardinality(Flights') <= allowance'
BY DEF SessionsDoNotMultiply, LiveTokens, Flights, Between, Live

\* Fewer tokens and fewer calls between two statements are paid for already.
LEMMA FewerIsPaidFor ==
  ASSUME SessionTypeOK, SessionsDoNotMultiply,
         LiveTokens' \subseteq LiveTokens, Flights' \subseteq Flights,
         allowance' = allowance
  PROVE  SessionsDoNotMultiply'
<1>1. Cardinality(LiveTokens') \in Nat /\ Cardinality(LiveTokens') <= Cardinality(LiveTokens)
  BY CountsAreNumbers, FS_Subset, FS_CardinalityType
<1>2. Cardinality(Flights') \in Nat /\ Cardinality(Flights') <= Cardinality(Flights)
  BY CountsAreNumbers, FS_Subset, FS_CardinalityType
<1>4. Cardinality(LiveTokens) + Cardinality(Flights) <= allowance  BY CountsByName
<1>5. allowance \in Nat  BY DEF SessionTypeOK
<1>6. Cardinality(LiveTokens') + Cardinality(Flights') <= allowance'
  BY <1>1, <1>2, <1>4, <1>5, CountsAreNumbers
<1> QED BY <1>6, CountsByNameNext

------------------------------------------------------------------------------
(* Steps of a tab that issue nothing.                                          *)

(* The call of t becomes c; whoever may issue a token was allowed to before,   *)
(* has the tag of a live token, or logs in a user who is active.               *)
QuietStep(t, c) ==
  /\ request' = [request EXCEPT ![t] = c]
  /\ c \in {NoCall} \cup Calls
  /\ c.op \in Between => request[t].op \in Between
  /\ c.op = "rotate" => c.at \in Tokens
  /\ c.op \in Issuing =>
       \/ request[t].op \in Issuing /\ c.tag = request[t].tag
       \/ \E k \in Tokens : Live(k) /\ c.tag = token[k]
       \/ active /\ c.tag = "open"
  /\ token' \in [Tokens -> TokenStates]
  /\ \A k \in Tokens : token'[k] \in Tags => token'[k] = token[k]
  /\ jar' \in [Jars -> 0 .. MaxTokens]
  /\ UNCHANGED <<active, issued, admin, unfinished, allowance, endings>>

\* A call in flight has a token's number and a tag.
LEMMA SessionCallInFlight ==
  ASSUME SessionTypeOK, NEW t \in Tabs, request[t].op # "idle"
  PROVE  request[t] \in Calls
<1>1. request[t] \in {NoCall} \cup Calls  BY DEF SessionTypeOK, Calls
<1> QED BY <1>1 DEF NoCall

LEMMA QuietKeepsSound ==
  ASSUME SessionSound, NEW t \in Tabs, NEW c, QuietStep(t, c)
  PROVE  SessionSound'
<1>1. /\ request' \in [Tabs -> {NoCall} \cup Calls]
      /\ request'[t] = c /\ \A u \in Tabs \ {t} : request'[u] = request[u]
  BY DEF QuietStep, SessionSound, SessionTypeOK, Calls
<1>2. SessionTypeOK'
  BY <1>1 DEF QuietStep, SessionSound, SessionTypeOK, Calls, TokenStates
<1>3. \A k \in Tokens : Live(k)' => Live(k) /\ token'[k] = token[k]
  BY DEF QuietStep, Live
<1>4. LockedOut' = LockedOut  BY DEF QuietStep, LockedOut
<1>5. NothingEndedLives'
  <2>1. ASSUME NEW k \in Tokens, Live(k)'
        PROVE  token'[k] # "ended" /\ (LockedOut' => token'[k] = "slipped")
    BY <1>3, <1>4, <2>1 DEF SessionSound, NothingEndedLives
  <2>2. ASSUME c.op \in Issuing
        PROVE  c.tag # "ended" /\ (LockedOut => c.tag = "slipped")
    <3>1. CASE request[t].op \in Issuing /\ c.tag = request[t].tag
      BY <3>1 DEF SessionSound, NothingEndedLives
    <3>2. CASE \E k \in Tokens : Live(k) /\ c.tag = token[k]
      BY <3>2 DEF SessionSound, NothingEndedLives
    <3>3. CASE active /\ c.tag = "open"
      BY <3>3 DEF LockedOut
    <3> QED BY <2>2, <3>1, <3>2, <3>3 DEF QuietStep
  <2>3. ASSUME NEW u \in Tabs, request'[u].op \in Issuing
        PROVE  request'[u].tag # "ended" /\ (LockedOut' => request'[u].tag = "slipped")
    <3>1. CASE u = t  BY <1>1, <1>4, <2>2, <2>3, <3>1
    <3>2. CASE u # t
      BY <1>1, <1>4, <2>3, <3>2 DEF SessionSound, NothingEndedLives
    <3> QED BY <3>1, <3>2
  <2> QED BY <2>1, <2>3 DEF NothingEndedLives
<1>6. LiveTokens' \subseteq LiveTokens  BY <1>3 DEF LiveTokens
<1>7. Flights' \subseteq Flights  BY <1>1 DEF Flights, QuietStep
<1>8. SessionsDoNotMultiply'
  BY <1>6, <1>7, FewerIsPaidFor DEF SessionSound, QuietStep
<1>9. RotatesToken'  BY <1>1 DEF RotatesToken, QuietStep, SessionSound
<1> QED BY <1>2, <1>5, <1>8, <1>9 DEF SessionSound

LEMMA LoginIsQuiet ==
  ASSUME SessionSound, NEW t \in Tabs, LoginCheck(t) \/ LoginPurge(t)
  PROVE  \E c : QuietStep(t, c)
<1>1. CASE LoginCheck(t)
  <2> DEFINE c == [op |-> "purge", at |-> 0, tag |-> "open"]
  <2>1. c \in Calls  BY SessionAssumption DEF Calls, Tags
  <2> QED BY <1>1, <2>1
     DEF LoginCheck, Begin, QuietStep, Between, SessionSound, SessionTypeOK, TokenStates
<1>2. CASE LoginPurge(t)
  <2> DEFINE c == [request[t] EXCEPT !.op = "issue login"]
  <2>1. request[t] \in Calls /\ request[t].op = "purge"
    BY <1>2, SessionCallInFlight DEF LoginPurge, Waiting, SessionSound
  <2>2. c \in Calls /\ c.op = "issue login" /\ c.tag = request[t].tag  BY <2>1 DEF Calls
  <2>3. request' = [request EXCEPT ![t] = c]  BY <1>2 DEF LoginPurge, Proceed
  <2>4. /\ token' \in [Tokens -> TokenStates]
        /\ \A k \in Tokens : token'[k] \in Tags => token'[k] = token[k]
    BY <1>2 DEF LoginPurge, SessionSound, SessionTypeOK, TokenStates, Tags
  <2>5. jar' \in [Jars -> 0 .. MaxTokens]
    BY <1>2 DEF LoginPurge, SessionSound, SessionTypeOK
  <2> HIDE DEF c
  <2> QED BY <1>2, <2>1, <2>2, <2>3, <2>4, <2>5 DEF LoginPurge, QuietStep, Between, Issuing
<1> QED BY <1>1, <1>2

\* A call that stops or drops to a last statement, and writes nothing.
LEMMA StopIsQuiet ==
  ASSUME SessionSound, NEW t \in Tabs, NEW c \in {NoCall} \cup Calls,
         c.op \notin Issuing, request' = [request EXCEPT ![t] = c],
         UNCHANGED <<active, token, issued, jar, admin, unfinished, allowance, endings>>
  PROVE  QuietStep(t, c)
BY DEF QuietStep, Issuing, Between, SessionSound, SessionTypeOK, TokenStates

LEMMA RefreshIsQuiet ==
  ASSUME SessionSound, NEW t \in Tabs, RefreshRead(t) \/ RefreshUser(t)
  PROVE  \E c : QuietStep(t, c)
<1> DEFINE last == [op |-> "end", at |-> 0, tag |-> "ended"]
<1>1. last \in Calls /\ last.op \notin Issuing  BY SessionAssumption DEF Calls, Tags, Issuing
<1>2. UNCHANGED <<active, token, issued, jar, admin, unfinished, allowance, endings>>
  BY DEF RefreshRead, RefreshUser
<1>3. token' \in [Tokens -> TokenStates] /\ jar' \in [Jars -> 0 .. MaxTokens]
  BY <1>2 DEF SessionSound, SessionTypeOK, TokenStates
<1>4. CASE request' = [request EXCEPT ![t] = last]
  BY <1>1, <1>2, <1>4, StopIsQuiet
<1>5. CASE RefreshRead(t) /\ request' # [request EXCEPT ![t] = last]
  <2> DEFINE k == jar[Cookie[t]]
             c == [op |-> "rotate", at |-> k, tag |-> token[k]]
  <2>1. k \in 0 .. MaxTokens  BY DEF SessionSound, SessionTypeOK, Jars
  <2>2. Live(k) /\ k # 0 /\ request' = [request EXCEPT ![t] = c]
    BY <1>5 DEF RefreshRead, Begin
  <2>3. k \in Tokens  BY <2>1, <2>2, SessionAssumption DEF Tokens
  <2>4. c \in Calls /\ c.op = "rotate" /\ c.at = k /\ c.tag = token[k]
    BY <2>1, <2>2 DEF Calls, Live
  <2> HIDE DEF c, k
  <2> QED BY <1>2, <1>3, <2>2, <2>3, <2>4 DEF QuietStep, Between
<1>6. CASE RefreshUser(t) /\ request' # [request EXCEPT ![t] = last]
  <2> DEFINE c == [request[t] EXCEPT !.op = "issue"]
  <2>1. request[t] \in Calls /\ request[t].op = "user"
    BY <1>6, SessionCallInFlight DEF RefreshUser, Waiting, SessionSound
  <2>2. c \in Calls /\ c.op = "issue" /\ c.tag = request[t].tag  BY <2>1 DEF Calls
  <2>3. request' = [request EXCEPT ![t] = c]  BY <1>6 DEF RefreshUser, Proceed, Begin
  <2> HIDE DEF c
  <2> QED BY <1>2, <1>3, <2>1, <2>2, <2>3 DEF QuietStep, Between, Issuing
<1> QED BY <1>4, <1>5, <1>6

LEMMA EndingCallIsQuiet ==
  ASSUME SessionSound, NEW t \in Tabs,
         \/ Logout(t) \/ ChangePassword(t) \/ CallFails(t)
         \/ \E k \in Tokens : Drop(t, k)
  PROVE  \E c : QuietStep(t, c)
<1>1. CASE CallFails(t)
  BY <1>1, StopIsQuiet DEF CallFails, Finish, NoCall, Issuing
<1>2. ASSUME NEW k \in Tokens, Drop(t, k)
      PROVE  \E c : QuietStep(t, c)
  <2> DEFINE c == [op |-> "drop", at |-> k, tag |-> "ended"]
  <2>1. c \in Calls /\ c.op \notin Issuing
    BY SessionAssumption DEF Calls, Tags, Tokens, Issuing
  <2> QED BY <1>2, <2>1, StopIsQuiet DEF Drop, Begin
<1>3. CASE ChangePassword(t)
  <2>1. PICK k \in Tokens : Begin(t, "keep", k, "ended")
    BY <1>3 DEF ChangePassword
  <2> DEFINE c == [op |-> "keep", at |-> k, tag |-> "ended"]
  <2>2. c \in Calls /\ c.op \notin Issuing
    BY SessionAssumption DEF Calls, Tags, Tokens, Issuing
  <2> QED BY <1>3, <2>1, <2>2, StopIsQuiet DEF ChangePassword, Begin
<1>4. CASE Logout(t)
  <2> DEFINE last == [op |-> "end", at |-> 0, tag |-> "ended"]
  <2>1. last \in Calls /\ last.op \notin Issuing  BY SessionAssumption DEF Calls, Tags, Issuing
  <2>2. request[t] \in {NoCall} \cup Calls /\ request[t].op \notin Issuing
    BY <1>4 DEF Logout, Waiting, Issuing, SessionSound, SessionTypeOK, Calls
  <2>3. PICK c \in {NoCall} \cup Calls :
          request' = [request EXCEPT ![t] = c] /\ c.op \notin Issuing
    <3>1. request = [request EXCEPT ![t] = request[t]]  BY DEF SessionSound, SessionTypeOK
    <3>2. request' = request \/ request' = [request EXCEPT ![t] = last]
      BY <1>4 DEF Logout, Begin
    <3> QED BY <2>1, <2>2, <3>1, <3>2
  <2>4. jar' \in [Jars -> 0 .. MaxTokens]
    <3>1. 0 \in 0 .. MaxTokens  BY SessionAssumption
    <3> QED BY <1>4, <3>1 DEF Logout, SessionSound, SessionTypeOK
  <2>5. token' = token /\ token \in [Tokens -> TokenStates]
    BY <1>4 DEF Logout, SessionSound, SessionTypeOK, TokenStates
  <2>6. c.op \notin Between /\ c.op # "rotate"  BY <2>3 DEF Between, Issuing
  <2> QED BY <1>4, <2>3, <2>4, <2>5, <2>6 DEF Logout, QuietStep
<1> QED BY <1>1, <1>2, <1>3, <1>4

LEMMA RevokeIsQuiet ==
  ASSUME SessionSound, NEW t \in Tabs, Revoke(t)
  PROVE  QuietStep(t, NoCall)
<1>1. request' = [request EXCEPT ![t] = NoCall]  BY DEF Revoke, Finish
<1>2. NoCall.op \notin Issuing /\ NoCall.op \notin Between /\ NoCall.op # "rotate"
  BY DEF NoCall, Issuing, Between
<1>3. UNCHANGED <<active, issued, jar, admin, unfinished, allowance, endings>>  BY DEF Revoke
<1>4. jar' \in [Jars -> 0 .. MaxTokens]  BY <1>3 DEF SessionSound, SessionTypeOK
<1>5. \A k \in Tokens : token'[k] \in {"revoked", token[k]}  BY DEF Revoke
<1>6. token' = [k \in Tokens |-> token'[k]]  BY DEF Revoke
<1>7. token' \in [Tokens -> TokenStates]
  BY <1>5, <1>6 DEF SessionSound, SessionTypeOK, TokenStates
<1>8. \A k \in Tokens : token'[k] \in Tags => token'[k] = token[k]
  BY <1>5 DEF Tags
<1> QED BY <1>1, <1>2, <1>3, <1>4, <1>7, <1>8 DEF QuietStep

------------------------------------------------------------------------------
(* Steps that issue, rotate or end.                                            *)

\* Rotation trades a live token for a call that owes the next one, or is paid
\* for by the revocation that came between its two statements.
LEMMA RotateKeepsSound ==
  ASSUME SessionSound, NEW t \in Tabs, RefreshRotate(t)
  PROVE  SessionSound'
<1> DEFINE c == [request[t] EXCEPT !.op = "user", !.at = 0]
<1>1. request[t] \in Calls /\ request[t].op = "rotate"
  BY SessionCallInFlight DEF RefreshRotate, Waiting, SessionSound
<1> PICK k \in Tokens : request[t].at = k  BY <1>1 DEF SessionSound, RotatesToken
<1>2. CASE token[k] = "deleted"
  <2>1. QuietStep(t, NoCall)
    BY <1>2, StopIsQuiet DEF RefreshRotate, Finish, NoCall, Issuing
  <2> QED BY <2>1, QuietKeepsSound
<1>3. CASE token[k] # "deleted"
  <2>0. 0 \in 0 .. MaxTokens  BY SessionAssumption
  <2>1. c \in Calls /\ c.op = "user" /\ c.tag = request[t].tag
    BY <1>1, <2>0 DEF Calls
  <2>2. /\ token' = [token EXCEPT ![k] = "revoked"]
        /\ allowance' = IF Live(k) THEN allowance ELSE allowance + 1
        /\ request' = [request EXCEPT ![t] = c]
        /\ UNCHANGED <<active, issued, jar, admin, unfinished, endings>>
    BY <1>1, <1>3 DEF RefreshRotate, SessionSound, SessionTypeOK
  <2> HIDE DEF c
  <2>3. /\ request'[t] = c /\ \A u \in Tabs \ {t} : request'[u] = request[u]
        /\ request' \in [Tabs -> {NoCall} \cup Calls]
    BY <2>1, <2>2 DEF SessionSound, SessionTypeOK, Calls
  <2>4. /\ token' \in [Tokens -> TokenStates]
        /\ \A j \in Tokens : token'[j] = IF j = k THEN "revoked" ELSE token[j]
    BY <2>2 DEF SessionSound, SessionTypeOK, TokenStates
  <2>5. allowance' \in {allowance, allowance + 1} /\ allowance \in Nat
    BY <2>2 DEF SessionSound, SessionTypeOK
  <2>5a. allowance' \in Nat  BY <2>5
  <2>6. SessionTypeOK'
    BY <2>2, <2>3, <2>4, <2>5a DEF SessionSound, SessionTypeOK, Calls, TokenStates
  <2>7. NothingEndedLives'
    <3>1. LockedOut' = LockedOut  BY <2>2 DEF LockedOut
    <3>2. \A j \in Tokens : Live(j)' => Live(j) /\ token'[j] = token[j]
      BY <2>4 DEF Live, Tags
    <3>3. "rotate" \in Issuing /\ "user" \in Issuing  BY DEF Issuing
    <3> QED BY <1>1, <2>1, <2>3, <3>1, <3>2, <3>3 DEF SessionSound, NothingEndedLives
  <2>8. LiveTokens' = LiveTokens \ {k} /\ (k \in LiveTokens <=> Live(k))
    BY <2>4 DEF LiveTokens, Live, Tags
  <2>9. Flights' = Flights \cup {t} /\ t \notin Flights
    BY <1>1, <2>1, <2>3 DEF Flights, Between
  <2>10. Cardinality(Flights') = Cardinality(Flights) + 1
    BY <2>9, CountsAreNumbers, FS_AddElement
  <2>11. Cardinality(LiveTokens') =
           IF k \in LiveTokens THEN Cardinality(LiveTokens) - 1 ELSE Cardinality(LiveTokens)
    BY <2>8, CountsAreNumbers, FS_RemoveElement
  <2>12. Cardinality(LiveTokens) + Cardinality(Flights) <= allowance
    BY CountsByName DEF SessionSound
  <2>13. Cardinality(LiveTokens') + Cardinality(Flights') <= allowance'
    BY <2>2, <2>5, <2>8, <2>10, <2>11, <2>12, CountsAreNumbers
  <2>14. SessionsDoNotMultiply'  BY <2>13, CountsByNameNext
  <2>15. RotatesToken'  BY <2>1, <2>3 DEF SessionSound, RotatesToken
  <2> QED BY <2>6, <2>7, <2>14, <2>15 DEF SessionSound
<1> QED BY <1>2, <1>3

\* A login pays for the token it issues; a refresh gives up its place for it.
LEMMA IssueKeepsSound ==
  ASSUME SessionSound, NEW t \in Tabs, LoginIssue(t) \/ RefreshIssue(t)
  PROVE  SessionSound'
<1>1. request[t] \in Calls /\ request[t].op \in Issuing
  BY SessionCallInFlight DEF LoginIssue, RefreshIssue, Waiting, SessionSound, Issuing
<1>2. /\ Issue(t) /\ request' = [request EXCEPT ![t] = NoCall]
      /\ UNCHANGED <<active, admin, unfinished, endings>>
  BY DEF LoginIssue, RefreshIssue, Finish
<1> DEFINE k == issued + 1
<1>a. issued \in 0 .. MaxTokens /\ issued < MaxTokens /\ MaxTokens \in Nat
  BY <1>2, SessionAssumption DEF Issue, SessionSound, SessionTypeOK
<1>b. k \in Tokens /\ k \in 0 .. MaxTokens  BY <1>a DEF Tokens
<1>3. request[t].tag \in Tags /\ request[t].tag \in TokenStates  BY <1>1 DEF Calls, TokenStates
<1>4. /\ issued' = k /\ k \in 0 .. MaxTokens
      /\ token' = [token EXCEPT ![k] = request[t].tag]
  BY <1>2, <1>b DEF Issue
<1> HIDE DEF k
<1>5. /\ token' \in [Tokens -> TokenStates]
      /\ token'[k] = request[t].tag /\ \A j \in Tokens \ {k} : token'[j] = token[j]
  BY <1>3, <1>4, <1>b DEF SessionSound, SessionTypeOK, TokenStates
<1>6. jar' \in [Jars -> 0 .. MaxTokens]
  <2>1. jar' = jar \/ jar' = [jar EXCEPT ![Cookie[t]] = k]  BY <1>2 DEF Issue, k
  <2> QED BY <1>4, <2>1 DEF SessionSound, SessionTypeOK
<1>7. /\ request' \in [Tabs -> {NoCall} \cup Calls]
      /\ request'[t] = NoCall /\ \A u \in Tabs \ {t} : request'[u] = request[u]
  BY <1>2 DEF SessionSound, SessionTypeOK, Calls
<1>8. allowance \in Nat /\ allowance' \in {allowance, allowance + 1}
  BY DEF LoginIssue, RefreshIssue, SessionSound, SessionTypeOK
<1>8a. allowance' \in Nat  BY <1>8
<1>9. SessionTypeOK'
  BY <1>2, <1>4, <1>5, <1>6, <1>7, <1>8a DEF SessionSound, SessionTypeOK, Calls, TokenStates
<1>10. NoCall.op \notin Issuing /\ NoCall.op # "rotate" /\ NoCall.op \notin Between
  BY DEF NoCall, Issuing, Between
<1>11. NothingEndedLives'
  <2>1. LockedOut' = LockedOut  BY <1>2 DEF LockedOut
  <2> QED BY <1>1, <1>5, <1>7, <1>10, <2>1 DEF SessionSound, NothingEndedLives, Live
<1>12. RotatesToken'  BY <1>7, <1>10 DEF SessionSound, RotatesToken
<1>13. LiveTokens' = LiveTokens \cup {k}
  BY <1>3, <1>5, <1>b DEF LiveTokens, Live
<1>14. Cardinality(LiveTokens') <= Cardinality(LiveTokens) + 1 /\ Cardinality(LiveTokens') \in Nat
  <2>1. Cardinality(LiveTokens') \in {Cardinality(LiveTokens), Cardinality(LiveTokens) + 1}
    BY <1>13, CountsAreNumbers, FS_AddElement
  <2> QED BY <2>1, CountsAreNumbers
<1>15. Flights' = Flights \ {t}  BY <1>7, <1>10 DEF Flights
<1>16. Cardinality(Flights') = IF t \in Flights THEN Cardinality(Flights) - 1 ELSE Cardinality(Flights)
  BY <1>15, CountsAreNumbers, FS_RemoveElement
<1>17. t \in Flights \/ allowance' = allowance + 1
  BY DEF LoginIssue, RefreshIssue, Waiting, Flights, Between
<1>18. t \in Flights => allowance' >= allowance  BY <1>8
<1>19. Cardinality(LiveTokens) + Cardinality(Flights) <= allowance
  BY CountsByName DEF SessionSound
<1>20. Cardinality(LiveTokens') + Cardinality(Flights') <= allowance'
  BY <1>8, <1>14, <1>16, <1>17, <1>18, <1>19, CountsAreNumbers
<1>21. SessionsDoNotMultiply'  BY <1>20, CountsByNameNext
<1> QED BY <1>9, <1>11, <1>12, <1>21 DEF SessionSound

\* Ending every session leaves no live token, and only slipped calls to issue.
LEMMA EndAllKeepsSound ==
  ASSUME SessionSound, NEW except \in SUBSET Tabs, EndAll(except),
         UNCHANGED <<active, issued, jar, allowance>>, admin' \in {admin, "idle"}
  PROVE  SessionSound'
<1>1. /\ token' = [k \in Tokens |-> IF Live(k) THEN "revoked" ELSE token[k]]
      /\ unfinished' = FALSE /\ endings' = endings + 1 /\ endings < MaxEndings
      /\ request' = [t \in Tabs |->
           IF t \in except THEN NoCall
           ELSE IF request[t].op \in Issuing THEN [request[t] EXCEPT !.tag = "slipped"]
           ELSE request[t]]
  BY DEF EndAll
<1>2. token' \in [Tokens -> TokenStates] /\ \A k \in Tokens : token'[k] \notin Tags
  BY <1>1 DEF SessionSound, SessionTypeOK, TokenStates, Live, Tags
<1>3. ASSUME NEW t \in Tabs
      PROVE  /\ request'[t] \in {NoCall} \cup Calls
             /\ request'[t].op \in Issuing => request'[t].tag = "slipped"
             /\ request'[t].op \in {"idle", request[t].op}
             /\ request'[t].op = "rotate" => request'[t].at = request[t].at
  <2>1. NoCall.op = "idle" /\ "idle" \notin Issuing  BY DEF NoCall, Issuing
  <2>2. CASE t \in except
    <3>1. request'[t] = NoCall  BY <1>1, <2>2
    <3> QED BY <2>1, <3>1
  <2>3. CASE t \notin except /\ request[t].op \in Issuing
    <3> DEFINE slipped == [request[t] EXCEPT !.tag = "slipped"]
    <3>1. request'[t] = slipped  BY <1>1, <2>3
    <3>2. request[t] \in Calls
      BY <2>1, <2>3, SessionCallInFlight DEF SessionSound
    <3>3. /\ slipped \in Calls /\ slipped.tag = "slipped"
          /\ slipped.op = request[t].op /\ slipped.at = request[t].at
      BY <3>2 DEF Calls, Tags
    <3> QED BY <3>1, <3>3
  <2>4. CASE t \notin except /\ request[t].op \notin Issuing
    <3>1. request'[t] = request[t]  BY <1>1, <2>4
    <3> QED BY <2>4, <3>1 DEF SessionSound, SessionTypeOK, Calls
  <2> QED BY <2>2, <2>3, <2>4
<1>4. request' \in [Tabs -> {NoCall} \cup Calls]
  <2> DEFINE next(t) ==
        IF t \in except THEN NoCall
        ELSE IF request[t].op \in Issuing THEN [request[t] EXCEPT !.tag = "slipped"]
        ELSE request[t]
  <2>1. request' = [t \in Tabs |-> next(t)]  BY <1>1
  <2> HIDE DEF next
  <2>2. \A t \in Tabs : next(t) \in {NoCall} \cup Calls  BY <1>3, <2>1
  <2> QED BY <2>1, <2>2
<1>5. endings' \in 0 .. MaxEndings
  <2>1. endings \in 0 .. MaxEndings /\ MaxEndings \in Nat
    BY SessionAssumption DEF SessionSound, SessionTypeOK
  <2>2. endings' = endings + 1 /\ endings < MaxEndings  BY <1>1
  <2> QED BY <2>1, <2>2
<1>6. SessionTypeOK'
  BY <1>1, <1>2, <1>4, <1>5 DEF SessionSound, SessionTypeOK, Calls, TokenStates
<1>7. NothingEndedLives'  BY <1>2, <1>3 DEF NothingEndedLives, Live
<1>8. RotatesToken'  BY <1>3 DEF SessionSound, RotatesToken
<1>9. LiveTokens' \subseteq LiveTokens  BY <1>2 DEF LiveTokens, Live
<1>10. Flights' \subseteq Flights  BY <1>3 DEF Flights, Between
<1>11. SessionsDoNotMultiply'  BY <1>9, <1>10, FewerIsPaidFor DEF SessionSound
<1> QED BY <1>6, <1>7, <1>8, <1>11 DEF SessionSound

\* The administrator's first statement, its failure, and a user let in again.
LEMMA AdminKeepsSound ==
  ASSUME SessionSound,
         \/ \E becomes \in {active, FALSE} : AdminWrites(becomes)
         \/ AdminFails \/ Reactivate
  PROVE  SessionSound'
<1>1. UNCHANGED <<token, issued, jar, request, allowance, endings>>
  BY DEF AdminWrites, AdminFails, Reactivate
<1>2. /\ active' \in BOOLEAN /\ unfinished' \in BOOLEAN /\ admin' \in {"idle", "end"}
      /\ ~LockedOut'
  BY DEF AdminWrites, AdminFails, Reactivate, SessionSound, SessionTypeOK, LockedOut
<1>3. SessionTypeOK'  BY <1>1, <1>2 DEF SessionSound, SessionTypeOK
<1>4. NothingEndedLives'  BY <1>1, <1>2 DEF SessionSound, NothingEndedLives, Live
<1>5. RotatesToken'  BY <1>1 DEF SessionSound, RotatesToken
<1>6. SessionsDoNotMultiply'
  BY <1>1 DEF SessionSound, SessionsDoNotMultiply, Live
<1> QED BY <1>3, <1>4, <1>5, <1>6 DEF SessionSound

LEMMA SessionStarts == SessionInit => SessionSound
<1> SUFFICES ASSUME SessionInit  PROVE SessionSound
  OBVIOUS
<1> USE DEF SessionInit
<1>1. SessionTypeOK
  <2>1. 0 \in 0 .. MaxTokens /\ 0 \in 0 .. MaxEndings  BY SessionAssumption
  <2> QED BY <2>1 DEF SessionTypeOK
<1>2. \A t \in Tabs : request[t].op = "idle"  BY DEF NoCall
<1>3. \A k \in Tokens : ~Live(k)  BY DEF Live, Tags
<1>4. RotatesToken  BY <1>2 DEF RotatesToken
<1>5. NothingEndedLives  BY <1>2, <1>3 DEF NothingEndedLives, Issuing
<1>6. LiveTokens = {} /\ Flights = {}  BY <1>2, <1>3 DEF LiveTokens, Flights, Between
<1>7. SessionsDoNotMultiply  BY <1>6, CountsByName, FS_EmptySet
<1> QED BY <1>1, <1>4, <1>5, <1>7 DEF SessionSound

LEMMA SessionKeepsSound ==
  ASSUME SessionSound, [SessionNext]_sessionVars
  PROVE  SessionSound'
<1>1. ASSUME NEW t \in Tabs, TabStep(t)
      PROVE  SessionSound'
  <2>1. CASE EndSessions(t)
    BY <2>1, EndAllKeepsSound DEF EndSessions
  <2>2. CASE LoginIssue(t) \/ RefreshIssue(t)  BY <2>2, IssueKeepsSound
  <2>3. CASE RefreshRotate(t)  BY <2>3, RotateKeepsSound
  <2>4. CASE \/ LoginCheck(t) \/ LoginPurge(t) \/ RefreshRead(t) \/ RefreshUser(t)
             \/ Logout(t) \/ ChangePassword(t) \/ CallFails(t) \/ Revoke(t)
             \/ \E k \in Tokens : Drop(t, k)
    <3>1. \E c : QuietStep(t, c)
      BY <2>4, LoginIsQuiet, RefreshIsQuiet, EndingCallIsQuiet, RevokeIsQuiet
    <3> QED BY <3>1, QuietKeepsSound
  <2> QED BY <1>1, <2>1, <2>2, <2>3, <2>4 DEF TabStep
<1>2. CASE ResetPassword  BY <1>2, EndAllKeepsSound DEF ResetPassword
<1>3. CASE AdminEnds  BY <1>3, EndAllKeepsSound DEF AdminEnds
<1>4. CASE UNCHANGED sessionVars
  <2> USE <1>4 DEF sessionVars
  <2>1. SessionTypeOK'  BY DEF SessionSound, SessionTypeOK
  <2>2. NothingEndedLives' /\ RotatesToken'
    BY DEF SessionSound, NothingEndedLives, RotatesToken, Live, LockedOut
  <2>3. SessionsDoNotMultiply'  BY DEF SessionSound, SessionsDoNotMultiply, Live
  <2> QED BY <2>1, <2>2, <2>3 DEF SessionSound
<1> QED BY <1>1, <1>2, <1>3, <1>4, AdminKeepsSound DEF SessionNext

LEMMA SoundEnds == SessionSound => EndedStaysEnded
BY DEF SessionSound, NothingEndedLives, LockedOut, EndedStaysEnded

(* Every state of every run has its types.                                     *)
THEOREM SessionTyping == SessionSpec => []SessionTypeOK
<1>1. SessionInit => SessionSound  BY SessionStarts
<1>2. SessionSound /\ [SessionNext]_sessionVars => SessionSound'  BY SessionKeepsSound
<1>3. SessionSound => SessionTypeOK  BY DEF SessionSound
<1> QED BY <1>1, <1>2, <1>3, PTL DEF SessionSpec

(* Rotation keeps the number of sessions, for any number of tabs that share    *)
(* cookies and refresh at will: what is live beyond the logins is paid for by  *)
(* refreshes whose token was revoked between their two statements.             *)
THEOREM SessionsPaidFor == SessionSpec => []SessionsDoNotMultiply
<1>1. SessionInit => SessionSound  BY SessionStarts
<1>2. SessionSound /\ [SessionNext]_sessionVars => SessionSound'  BY SessionKeepsSound
<1>3. SessionSound => SessionsDoNotMultiply  BY DEF SessionSound
<1> QED BY <1>1, <1>2, <1>3, PTL DEF SessionSpec

(* No live token comes of an ended session, and a user who was locked out and  *)
(* whose sessions were ended has only those of calls that were under way.      *)
THEOREM EndingsHold == SessionSpec => []EndedStaysEnded
<1>1. SessionInit => SessionSound  BY SessionStarts
<1>2. SessionSound /\ [SessionNext]_sessionVars => SessionSound'  BY SessionKeepsSound
<1> QED BY <1>1, <1>2, SoundEnds, PTL DEF SessionSpec

-------------------------------------------------------------------------------
(*****************************************************************************)
(* The desk of deferred items.                                               *)
(*****************************************************************************)

Ops == {"book", "remind"}

DeskCalls == [op : Ops, on : Deferred, status : Statuses, count : Nat]

ItemRows == [status : Statuses, job : Jobs, count : Nat]

DeskShapes ==
  /\ item \in [Deferred -> ItemRows]
  /\ booked \in [Deferred -> Nat] /\ reminders \in [Deferred -> Nat]
  /\ desk \in [Staff -> {Free} \cup DeskCalls]
  /\ deskCrowd \in [Deferred -> [book : Nat, remind : Nat]]

(* Every job made of an item, and every booking still under way, was there     *)
(* when the most of them overlapped: a booking begins only before the first.   *)
BookingsOverlapped ==
  \A d \in Deferred :
    /\ booked[d] + Cardinality(Under("book", d)) <= deskCrowd[d].book
    /\ item[d].job = "none" => booked[d] = 0
    /\ item[d].job = "made" => booked[d] > 0

(* The count is at most the reminders sent, also where it is about to be       *)
(* written back; without overlaps it is exact.                                 *)
CountBehind ==
  \A d \in Deferred :
    /\ item[d].count <= reminders[d]
    /\ \A s \in Under("remind", d) : desk[s].count <= reminders[d]
    /\ Cardinality(Under("remind", d)) <= deskCrowd[d].remind
    /\ deskCrowd[d].remind <= 1 =>
         /\ item[d].count = reminders[d]
         /\ \A s \in Under("remind", d) : desk[s].count = item[d].count

DeskSound == DeskShapes /\ BookingsOverlapped /\ CountBehind

\* The users at work on an item are finitely many.
LEMMA UnderFinite ==
  ASSUME NEW op, NEW d
  PROVE  IsFiniteSet(Under(op, d)) /\ Cardinality(Under(op, d)) \in Nat
<1>1. Under(op, d) \in SUBSET Staff  BY DEF Under
<1> QED BY <1>1, DeskAssumption, FS_Subset, FS_CardinalityType

\* Two users at work on an item are two.
LEMMA UnderTwo ==
  ASSUME NEW op, NEW d, NEW s \in Under(op, d), NEW t \in Under(op, d), s # t
  PROVE  Cardinality(Under(op, d)) >= 2
<1>1. IsFiniteSet({s}) /\ Cardinality({s}) = 1  BY FS_Singleton
<1>2. IsFiniteSet({s} \cup {t}) /\ Cardinality({s} \cup {t}) = 2  BY <1>1, FS_AddElement
<1>3. ({s} \cup {t}) \in SUBSET Under(op, d)  OBVIOUS
<1> QED BY <1>2, <1>3, UnderFinite, FS_Subset

\* A call that reads joins those at work on its item, and no others.
LEMMA ReadJoins ==
  ASSUME DeskShapes, NEW s \in Staff, NEW op \in Ops, NEW d \in Deferred, Read(s, op, d)
  PROVE  /\ Under(op, d)' = Under(op, d) \cup {s} /\ s \notin Under(op, d)
         /\ Cardinality(Under(op, d)') = Cardinality(Under(op, d)) + 1
         /\ \A o \in Ops, e \in Deferred : <<o, e>> # <<op, d>> => Under(o, e)' = Under(o, e)
         /\ \A t \in Staff \ {s} : desk'[t] = desk[t]
         /\ desk'[s].count = item[d].count
<1> DEFINE read == [op |-> op, on |-> d, status |-> item[d].status, count |-> item[d].count]
<1>1. desk[s].op \notin Ops  BY DEF Read, Free, Ops
<1>2. desk' = [desk EXCEPT ![s] = read] /\ desk \in [Staff -> {Free} \cup DeskCalls]
  BY DEF Read, DeskShapes
<1>3. read.op = op /\ read.on = d  OBVIOUS
<1>4. desk'[s] = read /\ \A t \in Staff \ {s} : desk'[t] = desk[t]  BY <1>2
<1> HIDE DEF read
<1>5. Under(op, d)' = Under(op, d) \cup {s} /\ s \notin Under(op, d)
  BY <1>1, <1>3, <1>4 DEF Under
<1>6. \A o \in Ops, e \in Deferred : <<o, e>> # <<op, d>> => Under(o, e)' = Under(o, e)
  BY <1>1, <1>3, <1>4 DEF Under
<1>7. Cardinality(Under(op, d)') = Cardinality(Under(op, d)) + 1
  BY <1>5, UnderFinite, FS_AddElement
<1> QED BY <1>4, <1>5, <1>6, <1>7 DEF read

\* A call that is answered leaves those at work on its item.
LEMMA AnsweredLeaves ==
  ASSUME DeskShapes, NEW s \in Staff, desk[s] \in DeskCalls, Answered(s)
  PROVE  /\ \A o \in Ops, e \in Deferred : Under(o, e)' = Under(o, e) \ {s}
         /\ \A o \in Ops, e \in Deferred :
              Cardinality(Under(o, e)') =
                IF s \in Under(o, e) THEN Cardinality(Under(o, e)) - 1
                                     ELSE Cardinality(Under(o, e))
         /\ \A t \in Staff \ {s} : desk'[t] = desk[t]
         /\ desk' \in [Staff -> {Free} \cup DeskCalls]
<1>1. desk'[s] = Free /\ \A t \in Staff \ {s} : desk'[t] = desk[t]
  BY DEF Answered, DeskShapes
<1>2. Free.op \notin Ops  BY DEF Free, Ops
<1>3. \A o \in Ops, e \in Deferred : Under(o, e)' = Under(o, e) \ {s}
  BY <1>1, <1>2 DEF Under
<1>4. \A o \in Ops, e \in Deferred :
        Cardinality(Under(o, e)') =
          IF s \in Under(o, e) THEN Cardinality(Under(o, e)) - 1 ELSE Cardinality(Under(o, e))
  BY <1>3, UnderFinite, FS_RemoveElement
<1>5. desk' \in [Staff -> {Free} \cup DeskCalls]  BY DEF Answered, DeskShapes
<1> QED BY <1>1, <1>3, <1>4, <1>5

\* A call in flight, by what it is.
LEMMA DeskCallInFlight ==
  ASSUME DeskShapes, NEW s \in Staff, desk[s] # Free
  PROVE  desk[s] \in DeskCalls
BY DEF DeskShapes

LEMMA DeskStarts == DeskInit => DeskSound
<1> SUFFICES ASSUME DeskInit  PROVE DeskSound
  OBVIOUS
<1> USE DEF DeskInit
<1>1. DeskShapes
  <2>1. [status |-> "pending", job |-> "none", count |-> 0] \in ItemRows
    BY DEF ItemRows, Statuses, Jobs
  <2> QED BY <2>1 DEF DeskShapes
<1>2. ASSUME NEW op \in Ops, NEW d \in Deferred
      PROVE  Under(op, d) = {} /\ Cardinality(Under(op, d)) = 0
  <2>1. Under(op, d) = {}  BY DEF Under, Free, Ops
  <2> QED BY <2>1, FS_EmptySet
<1>3. BookingsOverlapped  BY <1>2 DEF BookingsOverlapped, Ops
<1>4. CountBehind  BY <1>2 DEF CountBehind, Ops
<1> QED BY <1>1, <1>3, <1>4 DEF DeskSound

\* Reading an item raises the peak if there were never so many.
LEMMA ReadKeepsShapes ==
  ASSUME DeskShapes, NEW s \in Staff, NEW op \in Ops, NEW d \in Deferred, Read(s, op, d)
  PROVE  /\ DeskShapes'
         /\ UNCHANGED <<item, booked, reminders>>
         /\ \A e \in Deferred \ {d} : deskCrowd'[e] = deskCrowd[e]
         /\ \A o \in Ops \ {op} : deskCrowd'[d][o] = deskCrowd[d][o]
         /\ deskCrowd'[d][op] >= deskCrowd[d][op]
         /\ deskCrowd'[d][op] >= Cardinality(Under(op, d)) + 1
<1> DEFINE now == Cardinality(Under(op, d)) + 1
           peak == Larger(deskCrowd[d][op], now)
<1>1. now \in Nat  BY UnderFinite
<1>2. deskCrowd[d] \in [book : Nat, remind : Nat]  BY DEF DeskShapes
<1>3. deskCrowd[d][op] \in Nat  BY <1>2 DEF Ops
<1>4. peak \in Nat /\ peak >= now /\ peak >= deskCrowd[d][op]
  BY <1>1, <1>3 DEF Larger
<1> DEFINE seen == [deskCrowd[d] EXCEPT ![op] = peak]
<1>5. deskCrowd' = [deskCrowd EXCEPT ![d] = seen]  BY DEF Read
<1> HIDE DEF peak
<1>6. /\ seen \in [book : Nat, remind : Nat]
      /\ seen[op] = peak /\ \A o \in Ops \ {op} : seen[o] = deskCrowd[d][o]
  BY <1>2, <1>4 DEF Ops
<1> HIDE DEF seen
<1>7. /\ deskCrowd' \in [Deferred -> [book : Nat, remind : Nat]]
      /\ deskCrowd'[d] = seen /\ \A e \in Deferred \ {d} : deskCrowd'[e] = deskCrowd[e]
  BY <1>5, <1>6 DEF DeskShapes
<1>8. UNCHANGED <<item, booked, reminders>>  BY DEF Read
<1>9. item[d].status \in Statuses /\ item[d].count \in Nat  BY DEF DeskShapes, ItemRows
<1>10. desk' \in [Staff -> {Free} \cup DeskCalls]
  BY <1>9 DEF DeskShapes, DeskCalls, Read
<1> QED BY <1>4, <1>6, <1>7, <1>8, <1>10 DEF DeskShapes

LEMMA BookReadKeepsSound ==
  ASSUME DeskSound, NEW s \in Staff, NEW d \in Deferred, BookRead(s, d)
  PROVE  DeskSound'
<1>1. Read(s, "book", d) /\ item[d].job = "none" /\ DeskShapes  BY DEF BookRead, DeskSound
<1>2. DeskShapes' /\ UNCHANGED <<item, booked, reminders>>
  BY <1>1, ReadKeepsShapes DEF Ops
<1>3. BookingsOverlapped'
  <2>1. ASSUME NEW e \in Deferred
        PROVE  booked[e] + Cardinality(Under("book", e)') <= deskCrowd'[e].book
    <3>1. booked[e] + Cardinality(Under("book", e)) <= deskCrowd[e].book
      BY DEF DeskSound, BookingsOverlapped
    <3>2. CASE e = d
      <4>1. booked[d] = 0
        BY <1>1 DEF DeskSound, BookingsOverlapped, DeskShapes
      <4>2. Cardinality(Under("book", d)') = Cardinality(Under("book", d)) + 1
        BY <1>1, ReadJoins DEF Ops
      <4>3. deskCrowd'[d].book >= Cardinality(Under("book", d)) + 1
        BY <1>1, ReadKeepsShapes DEF Ops
      <4> QED BY <3>2, <4>1, <4>2, <4>3, UnderFinite
    <3>3. CASE e # d
      <4>1. Under("book", e)' = Under("book", e)  BY <1>1, <3>3, ReadJoins DEF Ops
      <4>2. deskCrowd'[e] = deskCrowd[e]  BY <1>1, <3>3, ReadKeepsShapes DEF Ops
      <4> QED BY <3>1, <4>1, <4>2
    <3> QED BY <3>2, <3>3
  <2> QED BY <1>2, <2>1 DEF DeskSound, BookingsOverlapped
<1>4. CountBehind'
  <2>1. \A e \in Deferred : Under("remind", e)' = Under("remind", e)
    BY <1>1, ReadJoins DEF Ops
  <2>2. \A e \in Deferred : deskCrowd'[e].remind = deskCrowd[e].remind
    BY <1>1, ReadKeepsShapes DEF Ops
  <2>3. \A e \in Deferred : \A t \in Under("remind", e) : desk'[t] = desk[t]
    <3>1. desk[s] = Free  BY <1>1 DEF Read
    <3>2. \A e \in Deferred : \A t \in Under("remind", e) : t \in Staff \ {s}
      BY <3>1 DEF Under, Free
    <3> QED BY <1>1, <3>2, ReadJoins DEF Ops
  <2> QED BY <1>2, <2>1, <2>2, <2>3 DEF DeskSound, CountBehind
<1> QED BY <1>2, <1>3, <1>4 DEF DeskSound

LEMMA RemindReadKeepsSound ==
  ASSUME DeskSound, NEW s \in Staff, NEW d \in Deferred, RemindRead(s, d)
  PROVE  DeskSound'
<1>1. Read(s, "remind", d) /\ DeskShapes  BY DEF RemindRead, DeskSound
<1>2. DeskShapes' /\ UNCHANGED <<item, booked, reminders>>
  BY <1>1, ReadKeepsShapes DEF Ops
<1>3. BookingsOverlapped'
  <2>1. \A e \in Deferred : Under("book", e)' = Under("book", e)
    BY <1>1, ReadJoins DEF Ops
  <2>2. \A e \in Deferred : deskCrowd'[e].book = deskCrowd[e].book
    BY <1>1, ReadKeepsShapes DEF Ops
  <2> QED BY <1>2, <2>1, <2>2 DEF DeskSound, BookingsOverlapped
<1>4. ASSUME NEW e \in Deferred
      PROVE  /\ \A t \in Under("remind", e)' :
                  \/ t \in Under("remind", e) /\ desk'[t] = desk[t]
                  \/ e = d /\ desk'[t].count = item[e].count
             /\ Cardinality(Under("remind", e)') <= deskCrowd'[e].remind
             /\ deskCrowd[e].remind <= deskCrowd'[e].remind
  <2>1. CASE e = d
    <3>1. /\ Under("remind", d)' = Under("remind", d) \cup {s}
          /\ s \notin Under("remind", d)
          /\ Cardinality(Under("remind", d)') = Cardinality(Under("remind", d)) + 1
          /\ \A t \in Staff \ {s} : desk'[t] = desk[t]
      BY <1>1, ReadJoins DEF Ops
    <3>4. desk'[s].count = item[d].count  BY <1>1, ReadJoins DEF Ops
    <3>2. \A t \in Under("remind", d) : t \in Staff \ {s}  BY <3>1 DEF Under
    <3>3. /\ deskCrowd'[d].remind >= Cardinality(Under("remind", d)) + 1
          /\ deskCrowd'[d].remind >= deskCrowd[d].remind
      BY <1>1, ReadKeepsShapes DEF Ops
    <3> QED BY <2>1, <3>1, <3>2, <3>3, <3>4
  <2>2. CASE e # d
    <3>1. Under("remind", e)' = Under("remind", e)  BY <1>1, <2>2, ReadJoins DEF Ops
    <3>2. deskCrowd'[e] = deskCrowd[e]  BY <1>1, <2>2, ReadKeepsShapes DEF Ops
    <3>3. desk[s] = Free  BY <1>1 DEF Read
    <3>4. \A t \in Under("remind", e) : t \in Staff \ {s}  BY <3>3 DEF Under, Free
    <3>5. \A t \in Under("remind", e) : desk'[t] = desk[t]
      BY <1>1, <3>4, ReadJoins DEF Ops
    <3>6. deskCrowd[e].remind \in Nat  BY <1>1 DEF DeskShapes
    <3> QED BY <3>1, <3>2, <3>5, <3>6 DEF DeskSound, CountBehind
  <2> QED BY <2>1, <2>2
<1>5. CountBehind'
  <2> SUFFICES ASSUME NEW e \in Deferred
               PROVE  /\ item[e].count <= reminders[e]
                      /\ \A t \in Under("remind", e)' : desk'[t].count <= reminders[e]
                      /\ Cardinality(Under("remind", e)') <= deskCrowd'[e].remind
                      /\ deskCrowd'[e].remind <= 1 =>
                           /\ item[e].count = reminders[e]
                           /\ \A t \in Under("remind", e)' : desk'[t].count = item[e].count
    BY <1>2 DEF CountBehind
  <2>1. deskCrowd[e].remind \in Nat /\ deskCrowd'[e].remind \in Nat
    BY <1>1, <1>2 DEF DeskShapes
  <2>2. deskCrowd'[e].remind <= 1 => deskCrowd[e].remind <= 1  BY <1>4, <2>1
  <2> QED BY <1>4, <2>2 DEF DeskSound, CountBehind
<1> QED BY <1>2, <1>3, <1>5 DEF DeskSound

\* A call that fails leaves its item as it is.
LEMMA FailKeepsSound ==
  ASSUME DeskSound, NEW s \in Staff, DeskFails(s)
  PROVE  DeskSound'
<1>1. desk[s] \in DeskCalls /\ Answered(s) /\ UNCHANGED <<item, booked, reminders, deskCrowd>>
  BY DeskCallInFlight DEF DeskFails, DeskSound
<1>2. /\ \A o \in Ops, e \in Deferred : Under(o, e)' = Under(o, e) \ {s}
      /\ \A o \in Ops, e \in Deferred : Cardinality(Under(o, e)') <= Cardinality(Under(o, e))
      /\ \A o \in Ops, e \in Deferred : Cardinality(Under(o, e)') \in Nat
      /\ \A t \in Staff \ {s} : desk'[t] = desk[t]
  <2>1. /\ \A o \in Ops, e \in Deferred : Under(o, e)' = Under(o, e) \ {s}
        /\ \A o \in Ops, e \in Deferred :
             Cardinality(Under(o, e)') =
               IF s \in Under(o, e) THEN Cardinality(Under(o, e)) - 1
                                    ELSE Cardinality(Under(o, e))
        /\ \A t \in Staff \ {s} : desk'[t] = desk[t]
    BY <1>1, AnsweredLeaves DEF DeskSound
  <2>2. ASSUME NEW o \in Ops, NEW e \in Deferred
        PROVE  /\ Cardinality(Under(o, e)') <= Cardinality(Under(o, e))
               /\ Cardinality(Under(o, e)') \in Nat
    <3>1. Cardinality(Under(o, e)) \in Nat  BY UnderFinite
    <3>2. Under(o, e)' \in SUBSET Under(o, e)  BY <2>1
    <3> QED BY <3>1, <3>2, UnderFinite, FS_Subset, FS_CardinalityType
  <2> QED BY <2>1, <2>2
<1>3. DeskShapes'  BY <1>1, AnsweredLeaves DEF DeskSound, DeskShapes
<1>4. BookingsOverlapped'
  BY <1>1, <1>2, <1>3, UnderFinite DEF DeskSound, DeskShapes, BookingsOverlapped, Ops
<1>5. CountBehind'
  <2>1. \A e \in Deferred : \A t \in Under("remind", e)' :
          t \in Under("remind", e) /\ desk'[t] = desk[t]
    BY <1>2 DEF Under, Ops
  <2>2. \A e \in Deferred : Cardinality(Under("remind", e)') <= deskCrowd'[e].remind
    BY <1>1, <1>2, UnderFinite DEF DeskSound, DeskShapes, CountBehind, Ops
  <2> QED BY <1>1, <2>1, <2>2 DEF DeskSound, CountBehind
<1> QED BY <1>3, <1>4, <1>5 DEF DeskSound

\* The booking that was under way becomes the job it made.
LEMMA BookWriteKeepsSound ==
  ASSUME DeskSound, NEW s \in Staff, BookWrite(s)
  PROVE  DeskSound'
<1>1. desk[s] \in DeskCalls /\ desk[s].op = "book" /\ Answered(s)
  BY DeskCallInFlight DEF BookWrite, Free, DeskSound
<1> PICK d \in Deferred : desk[s].on = d  BY <1>1 DEF DeskCalls
<1>2. s \in Under("book", d)  BY <1>1 DEF Under
<1> DEFINE marked == [item[d] EXCEPT !.status = "booked", !.job = "made"]
<1>3. /\ booked' = [booked EXCEPT ![d] = @ + 1]
      /\ UNCHANGED <<reminders, deskCrowd>>
  BY DEF BookWrite
<1>4. item[d] \in ItemRows  BY <1>2 DEF DeskSound, DeskShapes
<1>5. marked \in ItemRows /\ marked.job = "made" /\ marked.count = item[d].count
  BY <1>4 DEF ItemRows, Statuses, Jobs
<1>6. item' = [item EXCEPT ![d] = marked]
  BY <1>2 DEF BookWrite, DeskSound, DeskShapes
<1> HIDE DEF marked
<1>7. item'[d] = marked /\ \A e \in Deferred \ {d} : item'[e] = item[e]
  BY <1>2, <1>6 DEF DeskSound, DeskShapes
<1>8. DeskShapes'
  BY <1>1, <1>2, <1>3, <1>5, <1>6, AnsweredLeaves DEF DeskSound, DeskShapes
<1>9. /\ \A e \in Deferred \ {d} : Under("book", e)' = Under("book", e)
      /\ Cardinality(Under("book", d)') = Cardinality(Under("book", d)) - 1
      /\ \A e \in Deferred : Under("remind", e)' = Under("remind", e)
      /\ \A e \in Deferred : \A t \in Under("remind", e) : desk'[t] = desk[t]
  <2>1. \A e \in Deferred \ {d} : s \notin Under("book", e)  BY DEF Under
  <2>2. \A e \in Deferred : s \notin Under("remind", e)  BY <1>1 DEF Under
  <2>3. \A e \in Deferred : Under("remind", e) \subseteq Staff  BY DEF Under
  <2>4. /\ \A o \in Ops, e \in Deferred : Under(o, e)' = Under(o, e) \ {s}
        /\ \A o \in Ops, e \in Deferred :
             Cardinality(Under(o, e)') =
               IF s \in Under(o, e) THEN Cardinality(Under(o, e)) - 1
                                    ELSE Cardinality(Under(o, e))
        /\ \A t \in Staff \ {s} : desk'[t] = desk[t]
    BY <1>1, AnsweredLeaves DEF DeskSound
  <2>5. \A e \in Deferred : \A t \in Under("remind", e) : desk'[t] = desk[t]
    BY <2>2, <2>3, <2>4
  <2>6. ASSUME NEW e \in Deferred \ {d}  PROVE Under("book", e)' = Under("book", e)
    <3>1. Under("book", e)' = Under("book", e) \ {s}  BY <2>4 DEF Ops
    <3>2. s \notin Under("book", e)  BY <2>1
    <3> QED BY <3>1, <3>2
  <2>7. ASSUME NEW e \in Deferred  PROVE Under("remind", e)' = Under("remind", e)
    <3>1. Under("remind", e)' = Under("remind", e) \ {s}  BY <2>4 DEF Ops
    <3>2. s \notin Under("remind", e)  BY <2>2
    <3> QED BY <3>1, <3>2
  <2>8. Cardinality(Under("book", d)') = Cardinality(Under("book", d)) - 1
    BY <1>2, <2>4 DEF Ops
  <2> QED BY <2>5, <2>6, <2>7, <2>8
<1>10. BookingsOverlapped'
  <2> SUFFICES ASSUME NEW e \in Deferred
               PROVE  /\ booked'[e] + Cardinality(Under("book", e)') <= deskCrowd'[e].book
                      /\ item'[e].job = "none" => booked'[e] = 0
                      /\ item'[e].job = "made" => booked'[e] > 0
    BY DEF BookingsOverlapped
  <2>1. CASE e = d
    <3>1. booked'[d] = booked[d] + 1 /\ booked[d] \in Nat
      BY <1>2, <1>3 DEF DeskSound, DeskShapes
    <3>2. booked[d] + Cardinality(Under("book", d)) <= deskCrowd[d].book
      BY <1>2 DEF DeskSound, BookingsOverlapped
    <3>3. booked'[d] + Cardinality(Under("book", d)') <= deskCrowd'[d].book
      BY <1>3, <1>9, <3>1, <3>2, UnderFinite
    <3>4. item'[d].job = "made" /\ booked'[d] > 0  BY <1>5, <1>7, <3>1
    <3> QED BY <2>1, <3>3, <3>4
  <2>2. CASE e # d
    BY <1>3, <1>7, <1>9, <2>2 DEF DeskSound, DeskShapes, BookingsOverlapped
  <2> QED BY <2>1, <2>2
<1>11. CountBehind'
  <2>1. \A e \in Deferred : item'[e].count = item[e].count  BY <1>5, <1>7
  <2> QED BY <1>3, <1>9, <2>1 DEF DeskSound, CountBehind
<1> QED BY <1>8, <1>10, <1>11 DEF DeskSound

\* Alone, a reminder writes back a count one more than the one that holds.
LEMMA RemindWriteKeepsSound ==
  ASSUME DeskSound, NEW s \in Staff, RemindWrite(s)
  PROVE  DeskSound'
<1>1. desk[s] \in DeskCalls /\ desk[s].op = "remind" /\ Answered(s)
  BY DeskCallInFlight DEF RemindWrite, Free, DeskSound
<1> PICK d \in Deferred : desk[s].on = d  BY <1>1 DEF DeskCalls
<1>2. s \in Under("remind", d)  BY <1>1 DEF Under
<1> DEFINE next == IF desk[s].status = "pending" THEN "reminded" ELSE desk[s].status
           back == [item[d] EXCEPT !.count = desk[s].count + 1, !.status = next]
<1>3. /\ reminders' = [reminders EXCEPT ![d] = @ + 1]
      /\ UNCHANGED <<booked, deskCrowd>>
  BY DEF RemindWrite
<1>4. item[d] \in ItemRows /\ next \in Statuses /\ desk[s].count \in Nat
  BY <1>1 DEF DeskSound, DeskShapes, DeskCalls, Statuses
<1>5. item' = [item EXCEPT ![d] = back]
  BY <1>2 DEF RemindWrite, DeskSound, DeskShapes
<1> HIDE DEF next
<1>6. back \in ItemRows /\ back.job = item[d].job /\ back.count = desk[s].count + 1
  <2>1. desk[s].count + 1 \in Nat  BY <1>4
  <2>2. back \in ItemRows  BY <1>4, <2>1 DEF ItemRows
  <2>3. back.count = desk[s].count + 1  BY <1>4 DEF ItemRows
  <2>4. back.job = item[d].job  BY <1>4 DEF ItemRows
  <2> QED BY <2>2, <2>3, <2>4
<1> HIDE DEF back
<1>7. item'[d] = back /\ \A e \in Deferred \ {d} : item'[e] = item[e]
  BY <1>2, <1>5 DEF DeskSound, DeskShapes
<1>8. DeskShapes'
  BY <1>1, <1>2, <1>3, <1>5, <1>6, AnsweredLeaves DEF DeskSound, DeskShapes
<1>9. /\ \A e \in Deferred \ {d} : Under("remind", e)' = Under("remind", e)
      /\ Under("remind", d)' = Under("remind", d) \ {s}
      /\ Cardinality(Under("remind", d)') = Cardinality(Under("remind", d)) - 1
      /\ \A e \in Deferred : Under("book", e)' = Under("book", e)
      /\ \A e \in Deferred : \A t \in Under("remind", e)' : desk'[t] = desk[t]
  <2>1. \A e \in Deferred \ {d} : s \notin Under("remind", e)  BY DEF Under
  <2>2. \A e \in Deferred : s \notin Under("book", e)  BY <1>1 DEF Under
  <2>3. \A e \in Deferred : Under("remind", e) \subseteq Staff  BY DEF Under
  <2>4. /\ \A o \in Ops, e \in Deferred : Under(o, e)' = Under(o, e) \ {s}
        /\ \A o \in Ops, e \in Deferred :
             Cardinality(Under(o, e)') =
               IF s \in Under(o, e) THEN Cardinality(Under(o, e)) - 1
                                    ELSE Cardinality(Under(o, e))
        /\ \A t \in Staff \ {s} : desk'[t] = desk[t]
    BY <1>1, AnsweredLeaves DEF DeskSound
  <2>5. \A e \in Deferred : \A t \in Under("remind", e)' : desk'[t] = desk[t]
    BY <2>3, <2>4 DEF Ops
  <2>6. ASSUME NEW e \in Deferred \ {d}  PROVE Under("remind", e)' = Under("remind", e)
    <3>1. Under("remind", e)' = Under("remind", e) \ {s}  BY <2>4 DEF Ops
    <3>2. s \notin Under("remind", e)  BY <2>1
    <3> QED BY <3>1, <3>2
  <2>7. ASSUME NEW e \in Deferred  PROVE Under("book", e)' = Under("book", e)
    <3>1. Under("book", e)' = Under("book", e) \ {s}  BY <2>4 DEF Ops
    <3>2. s \notin Under("book", e)  BY <2>2
    <3> QED BY <3>1, <3>2
  <2>8. Under("remind", d)' = Under("remind", d) \ {s}  BY <2>4 DEF Ops
  <2>9. Cardinality(Under("remind", d)') = Cardinality(Under("remind", d)) - 1
    BY <1>2, <2>4 DEF Ops
  <2> QED BY <2>5, <2>6, <2>7, <2>8, <2>9
<1>10. BookingsOverlapped'
  <2>1. \A e \in Deferred : item'[e].job = item[e].job  BY <1>6, <1>7
  <2> QED BY <1>3, <1>9, <2>1 DEF DeskSound, BookingsOverlapped
<1>11. CountBehind'
  <2> SUFFICES ASSUME NEW e \in Deferred
               PROVE  /\ item'[e].count <= reminders'[e]
                      /\ \A t \in Under("remind", e)' : desk'[t].count <= reminders'[e]
                      /\ Cardinality(Under("remind", e)') <= deskCrowd'[e].remind
                      /\ deskCrowd'[e].remind <= 1 =>
                           /\ item'[e].count = reminders'[e]
                           /\ \A t \in Under("remind", e)' : desk'[t].count = item'[e].count
    BY DEF CountBehind
  <2>1. CASE e # d
    <3>1. item'[e] = item[e] /\ reminders'[e] = reminders[e] /\ deskCrowd' = deskCrowd
      BY <1>3, <1>7, <2>1 DEF DeskSound, DeskShapes
    <3>2. /\ Under("remind", e)' = Under("remind", e)
          /\ \A t \in Under("remind", e)' : desk'[t] = desk[t]
      BY <1>9, <2>1
    <3> QED BY <3>1, <3>2 DEF DeskSound, CountBehind
  <2>2. CASE e = d
    <3>1. reminders'[d] = reminders[d] + 1 /\ reminders[d] \in Nat
      BY <1>2, <1>3 DEF DeskSound, DeskShapes
    <3>2. desk[s].count <= reminders[d] /\ item'[d].count = desk[s].count + 1
      BY <1>2, <1>6, <1>7 DEF DeskSound, CountBehind
    <3>3. \A t \in Under("remind", d)' : desk'[t].count <= reminders'[d]
      <4> SUFFICES ASSUME NEW t \in Under("remind", d)'
                   PROVE  desk'[t].count <= reminders'[d]
        OBVIOUS
      <4>1. t \in Under("remind", d) /\ desk'[t] = desk[t]  BY <1>2, <1>9
      <4>2. desk[t].count <= reminders[d]  BY <1>2, <4>1 DEF DeskSound, CountBehind
      <4>3. t \in Staff /\ desk[t].op = "remind"  BY <4>1 DEF Under
      <4>4. desk[t] \in DeskCalls
        BY <4>3, DeskCallInFlight DEF DeskSound, Free
      <4>5. desk[t].count \in Nat  BY <4>4 DEF DeskCalls
      <4> QED BY <3>1, <4>1, <4>2, <4>5
    <3>4. Cardinality(Under("remind", d)') <= deskCrowd'[d].remind
      <4>1. Cardinality(Under("remind", d)) <= deskCrowd[d].remind
        BY <1>2 DEF DeskSound, CountBehind
      <4>2. deskCrowd[d].remind \in Nat  BY <1>2 DEF DeskSound, DeskShapes
      <4> QED BY <1>3, <1>9, <4>1, <4>2, UnderFinite
    <3>5. ASSUME deskCrowd'[d].remind <= 1
          PROVE  item'[d].count = reminders'[d] /\ Under("remind", d)' = {}
      <4>1. deskCrowd[d].remind <= 1  BY <1>3, <3>5
      <4>2. item[d].count = reminders[d] /\ desk[s].count = item[d].count
        BY <1>2, <4>1 DEF DeskSound, CountBehind
      <4>3. Cardinality(Under("remind", d)) <= deskCrowd[d].remind
        BY <1>2 DEF DeskSound, CountBehind
      <4>4. Cardinality(Under("remind", d)) <= 1
        BY <1>2, <4>1, <4>3, UnderFinite DEF DeskSound, DeskShapes
      <4>5. ASSUME NEW t \in Under("remind", d), t # s  PROVE FALSE
        <5>1. Cardinality(Under("remind", d)) >= 2  BY <1>2, <4>5, UnderTwo
        <5> QED BY <4>4, <5>1, UnderFinite
      <4>6. Under("remind", d)' = {}  BY <1>9, <4>5
      <4> QED BY <3>1, <3>2, <4>2, <4>6
    <3> QED BY <1>4, <2>2, <3>1, <3>2, <3>3, <3>4, <3>5
  <2> QED BY <2>1, <2>2
<1> QED BY <1>8, <1>10, <1>11 DEF DeskSound

\* What a PATCH may write for the job of an item.
LEMMA UpdateKeepsSound ==
  ASSUME DeskSound, NEW d \in Deferred, NEW status \in Statuses,
         NEW job \in {item[d].job, "none", "other"}, Update(d, status, job)
  PROVE  DeskSound'
<1> DEFINE edited == [item[d] EXCEPT !.status = status, !.job = job]
           kept == IF job = "none" THEN 0 ELSE booked[d]
<1>1. item[d] \in ItemRows /\ booked[d] \in Nat  BY DEF DeskSound, DeskShapes
<1>2. job \in Jobs /\ edited \in ItemRows /\ edited.job = job /\ edited.count = item[d].count
  BY <1>1 DEF ItemRows, Jobs
<1>3. /\ item' = [item EXCEPT ![d] = edited] /\ booked' = [booked EXCEPT ![d] = kept]
      /\ UNCHANGED <<reminders, desk, deskCrowd>>
  <2>1. booked' = [booked EXCEPT ![d] = kept]  BY DEF Update, DeskSound, DeskShapes
  <2> QED BY <2>1 DEF Update
<1>4. kept \in Nat /\ kept <= booked[d] /\ (job = "none" => kept = 0)
      /\ (job # "none" => kept = booked[d])
  BY <1>1
<1> HIDE DEF edited, kept
<1>5. DeskShapes'  BY <1>2, <1>3, <1>4 DEF DeskSound, DeskShapes
<1>6. /\ item'[d] = edited /\ booked'[d] = kept
      /\ \A e \in Deferred \ {d} : item'[e] = item[e] /\ booked'[e] = booked[e]
  BY <1>3 DEF DeskSound, DeskShapes
<1>7. \A o, e : Under(o, e)' = Under(o, e)  BY <1>3 DEF Under
<1>8. BookingsOverlapped'
  <2> SUFFICES ASSUME NEW e \in Deferred
               PROVE  /\ booked'[e] + Cardinality(Under("book", e)) <= deskCrowd[e].book
                      /\ item'[e].job = "none" => booked'[e] = 0
                      /\ item'[e].job = "made" => booked'[e] > 0
    BY <1>3, <1>7 DEF BookingsOverlapped
  <2>1. /\ booked[e] + Cardinality(Under("book", e)) <= deskCrowd[e].book
        /\ item[e].job = "none" => booked[e] = 0
        /\ item[e].job = "made" => booked[e] > 0
    BY DEF DeskSound, BookingsOverlapped
  <2>2. CASE e # d  BY <1>6, <2>1, <2>2
  <2>3. CASE e = d
    <3>1. job = "made" => item[d].job = "made"  OBVIOUS
    <3>2. deskCrowd[d].book \in Nat  BY DEF DeskSound, DeskShapes
    <3>3. kept + Cardinality(Under("book", d)) <= deskCrowd[d].book
      BY <1>1, <1>4, <2>1, <2>3, <3>2, UnderFinite
    <3> QED BY <1>2, <1>4, <1>6, <2>1, <2>3, <3>1, <3>3
  <2> QED BY <2>2, <2>3
<1>9. \A e \in Deferred : item'[e].count = item[e].count  BY <1>2, <1>6
<1>10. CountBehind'  BY <1>3, <1>7, <1>9 DEF DeskSound, CountBehind
<1> QED BY <1>5, <1>8, <1>10 DEF DeskSound

LEMMA DeskKeepsSound ==
  ASSUME DeskSound, [DeskNext]_deskVars
  PROVE  DeskSound'
<1>1. CASE UNCHANGED deskVars
  BY <1>1 DEF deskVars, DeskSound, DeskShapes, BookingsOverlapped, CountBehind, Under
<1>2. CASE DeskNext
  BY <1>2, BookReadKeepsSound, RemindReadKeepsSound, BookWriteKeepsSound,
     RemindWriteKeepsSound, FailKeepsSound, UpdateKeepsSound DEF DeskNext
<1> QED BY <1>1, <1>2

LEMMA SoundBooksOnce == DeskSound => BookedOncePerClick
<1> SUFFICES ASSUME DeskSound, NEW d \in Deferred
             PROVE  /\ booked[d] <= deskCrowd[d].book
                    /\ item[d].job = "none" => booked[d] = 0
                    /\ item[d].job = "made" => booked[d] > 0
                    /\ item[d].count <= reminders[d]
                    /\ deskCrowd[d].remind <= 1 => item[d].count = reminders[d]
  BY DEF BookedOncePerClick
<1>1. booked[d] \in Nat /\ deskCrowd[d].book \in Nat  BY DEF DeskSound, DeskShapes
<1>2. booked[d] + Cardinality(Under("book", d)) <= deskCrowd[d].book
  BY DEF DeskSound, BookingsOverlapped
<1>3. booked[d] <= deskCrowd[d].book  BY <1>1, <1>2, UnderFinite
<1> QED BY <1>3 DEF DeskSound, BookingsOverlapped, CountBehind

(* Until its booked_job_id is cleared by hand an item becomes no more jobs     *)
(* than clicks on it overlapped, and the count of its reminders falls behind   *)
(* only if reminders overlapped, for any number of users, items and calls,     *)
(* whatever is written in and whatever fails between them.                     *)
THEOREM ItemsBookedOnce == DeskSpec => []BookedOncePerClick
<1>1. DeskInit => DeskSound  BY DeskStarts
<1>2. DeskSound /\ [DeskNext]_deskVars => DeskSound'  BY DeskKeepsSound
<1> QED BY <1>1, <1>2, SoundBooksOnce, PTL DEF DeskSpec

(* The bounds of the desk: reminders sent and under way, users at work at      *)
(* once, and counts that were read from rows within theirs.                    *)
DeskBounds ==
  /\ \A d \in Deferred :
       /\ reminders[d] + Cardinality(Under("remind", d)) <= MaxReminders
       /\ deskCrowd[d].book <= Cardinality(Staff) /\ deskCrowd[d].remind <= Cardinality(Staff)
  /\ \A s \in Staff : desk[s] # Free => desk[s].count <= MaxReminders

LEMMA DeskBoundsType == DeskSound /\ DeskBounds => DeskTypeOK
<1> SUFFICES ASSUME DeskSound, DeskBounds  PROVE DeskTypeOK
  OBVIOUS
<1>1. Cardinality(Staff) \in Nat /\ MaxReminders \in Nat /\ DeskShapes
  BY DeskAssumption, FS_CardinalityType DEF DeskSound
<1>2. ASSUME NEW d \in Deferred
      PROVE  /\ item[d] \in [status : Statuses, job : Jobs, count : 0 .. MaxReminders]
             /\ booked[d] \in 0 .. Cardinality(Staff) /\ reminders[d] \in 0 .. MaxReminders
             /\ deskCrowd[d] \in [book : 0 .. Cardinality(Staff), remind : 0 .. Cardinality(Staff)]
  <2>1. /\ item[d] \in ItemRows /\ booked[d] \in Nat /\ reminders[d] \in Nat
        /\ deskCrowd[d] \in [book : Nat, remind : Nat]
    BY <1>1 DEF DeskShapes
  <2>2. Cardinality(Under("remind", d)) \in Nat /\ Cardinality(Under("book", d)) \in Nat
    BY UnderFinite
  <2>3. reminders[d] <= MaxReminders /\ item[d].count <= reminders[d]
    BY <1>1, <2>1, <2>2 DEF DeskBounds, DeskSound, CountBehind
  <2>4. deskCrowd[d].book <= Cardinality(Staff) /\ deskCrowd[d].remind <= Cardinality(Staff)
    BY DEF DeskBounds
  <2>5. booked[d] + Cardinality(Under("book", d)) <= deskCrowd[d].book
    BY DEF DeskSound, BookingsOverlapped
  <2>6. booked[d] \in 0 .. Cardinality(Staff)
    BY <1>1, <2>1, <2>2, <2>4, <2>5
  <2>7. deskCrowd[d] \in [book : 0 .. Cardinality(Staff), remind : 0 .. Cardinality(Staff)]
    BY <1>1, <2>1, <2>4
  <2>8. item[d] \in [status : Statuses, job : Jobs, count : 0 .. MaxReminders]
    BY <1>1, <2>1, <2>3 DEF ItemRows
  <2> QED BY <1>1, <2>1, <2>3, <2>6, <2>7, <2>8
<1>3. ASSUME NEW s \in Staff
      PROVE  desk[s] \in {Free} \cup [op : {"book", "remind"}, on : Deferred,
                                      status : Statuses, count : 0 .. MaxReminders]
  <2>1. CASE desk[s] # Free
    <3>1. desk[s] \in DeskCalls /\ desk[s].count <= MaxReminders
      BY <1>1, <2>1, DeskCallInFlight DEF DeskBounds
    <3> QED BY <1>1, <3>1 DEF DeskCalls, Ops
  <2> QED BY <2>1
<1> QED BY <1>1, <1>2, <1>3 DEF DeskShapes, DeskTypeOK

\* A call that begins is one more of the users there are.
LEMMA ReadKeepsBounds ==
  ASSUME DeskSound, DeskBounds, NEW s \in Staff, NEW op \in Ops, NEW d \in Deferred,
         Read(s, op, d),
         op = "remind" => reminders[d] + Cardinality(Under("remind", d)) < MaxReminders
  PROVE  DeskBounds'
<1>1. /\ DeskShapes /\ Cardinality(Staff) \in Nat /\ MaxReminders \in Nat /\ IsFiniteSet(Staff)
      /\ reminders' = reminders /\ reminders \in [Deferred -> Nat]
  BY DeskAssumption, FS_CardinalityType DEF DeskSound, DeskShapes, Read
<1>2. Cardinality(Under(op, d)) + 1 <= Cardinality(Staff)
  <2>1. /\ s \notin Under(op, d) /\ Under(op, d)' = Under(op, d) \cup {s}
        /\ Cardinality(Under(op, d)') = Cardinality(Under(op, d)) + 1
    BY <1>1, ReadJoins
  <2>2. Under(op, d)' \in SUBSET Staff
    BY DEF Under
  <2> QED BY <1>1, <2>1, <2>2, FS_Subset
<1>3. ASSUME NEW e \in Deferred
      PROVE  deskCrowd'[e].book <= Cardinality(Staff) /\ deskCrowd'[e].remind <= Cardinality(Staff)
  <2>1. /\ deskCrowd[e].book <= Cardinality(Staff) /\ deskCrowd[e].remind <= Cardinality(Staff)
        /\ deskCrowd[d] \in [book : Nat, remind : Nat]
    BY <1>1 DEF DeskBounds, DeskShapes
  <2>2. CASE e # d
    BY <1>1, <2>1, <2>2 DEF Read, DeskShapes
  <2>3. CASE e = d
    <3>1. PICK peak : /\ peak = Larger(deskCrowd[d][op], Cardinality(Under(op, d)) + 1)
                      /\ deskCrowd' = [deskCrowd EXCEPT ![d] = [deskCrowd[d] EXCEPT ![op] = peak]]
      BY <1>1 DEF Read, DeskShapes
    <3>2. deskCrowd[d][op] <= Cardinality(Staff)
      BY <2>1, <2>3 DEF Ops
    <3>3. peak <= Cardinality(Staff)
      BY <1>2, <3>1, <3>2 DEF Larger
    <3>4. deskCrowd'[d] = [deskCrowd[d] EXCEPT ![op] = peak]
      BY <1>1, <3>1 DEF DeskShapes
    <3> QED BY <2>1, <2>3, <3>3, <3>4 DEF Ops
  <2> QED BY <2>2, <2>3
<1>4. ASSUME NEW e \in Deferred
      PROVE  reminders'[e] + Cardinality(Under("remind", e)') <= MaxReminders
  <2>1. reminders[e] + Cardinality(Under("remind", e)) <= MaxReminders /\ reminders[e] \in Nat
        /\ Cardinality(Under("remind", e)) \in Nat
    BY <1>1, UnderFinite DEF DeskBounds
  <2>2. CASE <<"remind", e>> = <<op, d>>
    <3>1. Cardinality(Under("remind", e)') = Cardinality(Under("remind", e)) + 1
      BY <1>1, <2>2, ReadJoins
    <3> QED BY <1>1, <2>1, <2>2, <3>1
  <2>3. CASE <<"remind", e>> # <<op, d>>
    <3>1. Under("remind", e)' = Under("remind", e)
      BY <1>1, <2>3, ReadJoins DEF Ops
    <3> QED BY <1>1, <2>1, <3>1
  <2> QED BY <2>2, <2>3
<1>5. ASSUME NEW t \in Staff, desk'[t] # Free
      PROVE  desk'[t].count <= MaxReminders
  <2>1. item[d].count <= MaxReminders
    BY DeskBoundsType DEF DeskTypeOK
  <2>2. desk'[s].count = item[d].count /\ \A u \in Staff \ {s} : desk'[u] = desk[u]
    BY <1>1, ReadJoins
  <2> QED BY <1>5, <2>1, <2>2 DEF DeskBounds
<1> QED BY <1>3, <1>4, <1>5 DEF DeskBounds

\* A call that ends leaves room for another.
LEMMA AnsweredKeepsBounds ==
  ASSUME DeskSound, DeskBounds, NEW s \in Staff,
         BookWrite(s) \/ RemindWrite(s) \/ DeskFails(s)
  PROVE  DeskBounds'
<1>1. /\ DeskShapes /\ desk[s] \in DeskCalls /\ Answered(s) /\ deskCrowd' = deskCrowd
      /\ reminders \in [Deferred -> Nat] /\ MaxReminders \in Nat
  BY DeskCallInFlight, DeskAssumption
     DEF DeskSound, DeskShapes, BookWrite, RemindWrite, DeskFails, Free
<1>2. ASSUME NEW e \in Deferred
      PROVE  /\ Cardinality(Under("remind", e)') = IF s \in Under("remind", e)
                  THEN Cardinality(Under("remind", e)) - 1 ELSE Cardinality(Under("remind", e))
             /\ Cardinality(Under("remind", e)) \in Nat
             /\ reminders[e] + Cardinality(Under("remind", e)) <= MaxReminders
             /\ reminders[e] \in Nat
  BY <1>1, AnsweredLeaves, UnderFinite DEF Ops, DeskBounds
<1>3. ASSUME NEW e \in Deferred
      PROVE  reminders'[e] + Cardinality(Under("remind", e)') <= MaxReminders
  <2>1. CASE RemindWrite(s)
    <3>1. desk[s].op = "remind" /\ reminders' = [reminders EXCEPT ![desk[s].on] = @ + 1]
      BY <2>1 DEF RemindWrite
    <3>2. s \in Under("remind", e) <=> desk[s].on = e
      BY <3>1 DEF Under
    <3>3. reminders'[e] = IF desk[s].on = e THEN reminders[e] + 1 ELSE reminders[e]
      BY <1>1, <3>1
    <3> QED BY <1>1, <1>2, <3>2, <3>3
  <2>2. CASE BookWrite(s) \/ DeskFails(s)
    <3>1. reminders' = reminders
      BY <2>2 DEF BookWrite, DeskFails
    <3> QED BY <1>1, <1>2, <3>1
  <2> QED BY <2>1, <2>2
<1>4. \A t \in Staff : desk'[t] # Free => desk'[t] = desk[t]
  BY <1>1 DEF Answered, DeskShapes
<1> QED BY <1>1, <1>3, <1>4 DEF DeskBounds

LEMMA DeskKeepsBounds ==
  ASSUME DeskSound, DeskBounds, [DeskNext]_deskVars
  PROVE  DeskBounds'
<1>1. ASSUME NEW s \in Staff, NEW d \in Deferred, BookRead(s, d) \/ RemindRead(s, d)
      PROVE  DeskBounds'
  BY <1>1, ReadKeepsBounds DEF BookRead, RemindRead, Ops
<1>2. CASE \/ UNCHANGED deskVars
           \/ \E d \in Deferred : \E status \in Statuses, job \in {item[d].job, "none", "other"} :
                Update(d, status, job)
  <2>1. UNCHANGED <<reminders, desk, deskCrowd>>
    BY <1>2 DEF deskVars, Update
  <2> QED BY <2>1 DEF DeskBounds, Under
<1> QED BY <1>1, <1>2, AnsweredKeepsBounds DEF DeskNext

(* The desk's tables keep their types.                                         *)
THEOREM DeskTyping == DeskSpec => []DeskTypeOK
<1>1. DeskInit => DeskSound /\ DeskBounds
  <2> SUFFICES ASSUME DeskInit  PROVE DeskBounds
    BY DeskStarts
  <2>1. \A d \in Deferred : Under("remind", d) = {}
    BY DEF DeskInit, Under, Free
  <2>2. Cardinality(Staff) \in Nat /\ MaxReminders \in Nat
    BY DeskAssumption, FS_CardinalityType
  <2>3. Cardinality({}) = 0
    BY FS_EmptySet
  <2>4. /\ \A d \in Deferred : reminders[d] = 0 /\ deskCrowd[d].book = 0 /\ deskCrowd[d].remind = 0
        /\ \A s \in Staff : desk[s] = Free
    BY DEF DeskInit
  <2>5. \A d \in Deferred : Cardinality(Under("remind", d)) = 0
    BY <2>1, <2>3
  <2> QED BY <2>2, <2>4, <2>5 DEF DeskBounds
<1>2. DeskSound /\ DeskBounds /\ [DeskNext]_deskVars => (DeskSound /\ DeskBounds)'
  BY DeskKeepsSound, DeskKeepsBounds
<1> QED BY <1>1, <1>2, DeskBoundsType, PTL DEF DeskSpec

-------------------------------------------------------------------------------
(*****************************************************************************)
(* The subscription, its payments and the month's usage.                     *)
(*****************************************************************************)

Subscriptions == [plan : Plans \cup {FreeTrial}, live : BOOLEAN, asked : BOOLEAN]

BillingCalls ==
  {Off} \cup [op : {"replace", "create", "plan"}, to : Plans, asked : BOOLEAN]
        \cup [op : {"pay"}]

BillingShapes ==
  /\ subs \in Seq(Subscriptions)
  /\ paid \in BOOLEAN /\ payments \in Nat
  /\ billing \in [Admins -> BillingCalls]
  /\ usage \in {NoRecord} \cup Nat
  /\ counter \in [Counters -> {"idle", "update", "create", "over"}]
  /\ counted \in Nat /\ missed \in Nat
  /\ billingCrowd \in [activate : Nat, pay : Nat, count : Nat]
  /\ broken \in BOOLEAN

Stage(ops) == {a \in Admins : billing[a].op \in ops}     \* calls by statement
Phase(ops) == {c \in Counters : counter[c] \in ops}      \* increments likewise

Steps == {"replace", "create", "plan"}

InForceOf(k) == {i \in {k} : subs[i].asked}             \* subscription k if in force

InStep == LiveSubs = InForceOf(Len(subs)) /\ subs[Len(subs)].plan = plan

(* Whoever may still create a subscription has seen the old ones replaced, and *)
(* was at work, like whoever created one since, at the last replacement.       *)
InForce ==
  /\ Cardinality(Stage(Steps)) <= billingCrowd.activate
  /\ Cardinality(LiveSubs) + Cardinality(Stage({"create"})) <= Peak(1, billingCrowd.activate)

(* Where a lone activation stands tells what is in force.                      *)
LoneActivation ==
  billingCrowd.activate <= 1 /\ ~broken =>
    /\ Stage({"create", "plan"}) = {} => InStep
    /\ \A a \in Stage({"create"}) : LiveSubs = {}
    /\ \A a \in Stage({"plan"}) :
         LiveSubs = InForceOf(Len(subs)) /\ subs[Len(subs)].plan = billing[a].to

(* Payments made and under way began before the first of them was written.     *)
PaymentsOverlapped ==
  /\ payments + Cardinality(Stage({"pay"})) <= billingCrowd.pay
  /\ paid <=> payments > 0

(* Only increments that failed, or that found no record, all of these but the  *)
(* first, can be lost.                                                         *)
LostRacedToCreate ==
  /\ Cardinality(Phase({"update", "create"})) <= billingCrowd.count
  /\ IF usage = NoRecord
     THEN /\ counted = 0 /\ Phase({"update"}) = {}
          /\ Cardinality(Phase({"over"})) <= missed
     ELSE /\ usage = counted /\ counted > 0
          /\ Cardinality(Phase({"over"})) + Cardinality(Phase({"create"}))
               <= counted + billingCrowd.count - 1 + missed

BillingSound ==
  BillingShapes /\ InForce /\ LoneActivation /\ PaymentsOverlapped /\ LostRacedToCreate

LEMMA StageFinite ==
  ASSUME NEW ops
  PROVE  /\ IsFiniteSet(Stage(ops)) /\ Cardinality(Stage(ops)) \in Nat
         /\ IsFiniteSet(Phase(ops)) /\ Cardinality(Phase(ops)) \in Nat
<1>1. Stage(ops) \in SUBSET Admins /\ Phase(ops) \in SUBSET Counters  BY DEF Stage, Phase
<1> QED BY <1>1, BillingAssumption, FS_Subset, FS_CardinalityType

LEMMA LiveFinite ==
  ASSUME BillingShapes
  PROVE  IsFiniteSet(LiveSubs) /\ Cardinality(LiveSubs) \in Nat
<1>1. DOMAIN subs = 1 .. Len(subs) /\ Len(subs) \in Nat  BY LenProperties DEF BillingShapes
<1>2. IsFiniteSet(1 .. Len(subs))  BY <1>1, FS_Interval
<1>3. LiveSubs \in SUBSET (1 .. Len(subs))  BY <1>1 DEF LiveSubs
<1> QED BY <1>2, <1>3, FS_Subset, FS_CardinalityType

\* A set that gains or loses one element, or neither.
LEMMA OneMoves ==
  ASSUME NEW A, NEW B, NEW x, IsFiniteSet(A), B \in {A \cup {x}, A \ {x}}
  PROVE  Cardinality(B) =
           Cardinality(A) + (IF x \in B THEN 1 ELSE 0) - (IF x \in A THEN 1 ELSE 0)
<1>1. Cardinality(A) \in Nat  BY FS_CardinalityType
<1>2. CASE B = A \cup {x}
  <2>1. Cardinality(B) = IF x \in A THEN Cardinality(A) ELSE Cardinality(A) + 1
    BY <1>2, FS_AddElement
  <2> QED BY <1>1, <1>2, <2>1
<1>3. CASE B = A \ {x}
  <2>1. Cardinality(B) = IF x \in A THEN Cardinality(A) - 1 ELSE Cardinality(A)
    BY <1>3, FS_RemoveElement
  <2> QED BY <1>1, <1>3, <2>1
<1> QED BY <1>2, <1>3

\* A call that moves on changes the count of a stage by itself alone.
LEMMA StageMoves ==
  ASSUME BillingShapes, NEW ops, NEW a \in Admins, NEW c,
         billing' = [billing EXCEPT ![a] = c]
  PROVE  /\ Stage(ops)' \in {Stage(ops) \cup {a}, Stage(ops) \ {a}}
         /\ Cardinality(Stage(ops)') = Cardinality(Stage(ops))
              + (IF c.op \in ops THEN 1 ELSE 0) - (IF billing[a].op \in ops THEN 1 ELSE 0)
<1>1. billing'[a] = c /\ \A b \in Admins \ {a} : billing'[b] = billing[b]
  BY DEF BillingShapes
<1>2. Stage(ops)' \in {Stage(ops) \cup {a}, Stage(ops) \ {a}}  BY <1>1 DEF Stage
<1>3. (a \in Stage(ops)' <=> c.op \in ops) /\ (a \in Stage(ops) <=> billing[a].op \in ops)
  BY <1>1 DEF Stage
<1>4. Cardinality(Stage(ops)') = Cardinality(Stage(ops))
        + (IF a \in Stage(ops)' THEN 1 ELSE 0) - (IF a \in Stage(ops) THEN 1 ELSE 0)
  BY <1>2, StageFinite, OneMoves
<1> QED BY <1>2, <1>3, <1>4

LEMMA PhaseMoves ==
  ASSUME BillingShapes, NEW ops, NEW c \in Counters, NEW next,
         counter' = [counter EXCEPT ![c] = next]
  PROVE  /\ Phase(ops)' \in {Phase(ops) \cup {c}, Phase(ops) \ {c}}
         /\ Cardinality(Phase(ops)') = Cardinality(Phase(ops))
              + (IF next \in ops THEN 1 ELSE 0) - (IF counter[c] \in ops THEN 1 ELSE 0)
<1>1. counter'[c] = next /\ \A b \in Counters \ {c} : counter'[b] = counter[b]
  BY DEF BillingShapes
<1>2. Phase(ops)' \in {Phase(ops) \cup {c}, Phase(ops) \ {c}}  BY <1>1 DEF Phase
<1>3. (c \in Phase(ops)' <=> next \in ops) /\ (c \in Phase(ops) <=> counter[c] \in ops)
  BY <1>1 DEF Phase
<1>4. Cardinality(Phase(ops)') = Cardinality(Phase(ops))
        + (IF c \in Phase(ops)' THEN 1 ELSE 0) - (IF c \in Phase(ops) THEN 1 ELSE 0)
  BY <1>2, StageFinite, OneMoves
<1> QED BY <1>2, <1>3, <1>4

\* Two activations at once are two.
LEMMA LoneIsAlone ==
  ASSUME BillingSound, billingCrowd.activate <= 1,
         NEW a \in Stage(Steps), NEW b \in Stage(Steps)
  PROVE  a = b
<1>1. SUFFICES ASSUME a # b PROVE FALSE  OBVIOUS
<1>2. IsFiniteSet({a}) /\ Cardinality({a}) = 1  BY FS_Singleton
<1>3. Cardinality({a} \cup {b}) = 2
  <2>1. b \notin {a}  BY <1>1
  <2>2. Cardinality({a} \cup {b}) = Cardinality({a}) + 1  BY ONLY <1>2, <2>1, FS_AddElement
  <2> QED BY <1>2, <2>2
<1>4. ({a} \cup {b}) \in SUBSET Stage(Steps)  OBVIOUS
<1>5. Cardinality(Stage(Steps)) >= 2  BY <1>3, <1>4, StageFinite, FS_Subset
<1> QED BY <1>5, StageFinite DEF BillingSound, BillingShapes, InForce

LEMMA BillingStarts == BillingInit => BillingSound
<1> SUFFICES ASSUME BillingInit  PROVE BillingSound
  OBVIOUS
<1> USE DEF BillingInit
<1>1. BillingShapes
  <2>1. [plan |-> FreeTrial, live |-> TRUE, asked |-> TRUE] \in Subscriptions  BY DEF Subscriptions
  <2>2. subs \in Seq(Subscriptions)  BY <2>1
  <2> QED BY <2>2 DEF BillingShapes, BillingCalls, NoRecord
<1>2. \A ops : "idle" \notin ops => Stage(ops) = {} /\ Phase(ops) = {}
  BY DEF Stage, Phase, Off
<1>3. Len(subs) = 1 /\ DOMAIN subs = {1} /\ subs[1] = [plan |-> FreeTrial, live |-> TRUE, asked |-> TRUE]
  OBVIOUS
<1>4. LiveSubs = {1} /\ InForceOf(1) = {1}  BY <1>3 DEF LiveSubs, InForceOf
<1>5. /\ Stage(Steps) = {} /\ Stage({"create"}) = {} /\ Stage({"plan"}) = {}
      /\ Stage({"pay"}) = {} /\ Phase({"update", "create"}) = {}
      /\ Phase({"update"}) = {} /\ Phase({"over"}) = {}
  BY <1>2 DEF Steps
<1>6. InForce
  <2>1. Cardinality(LiveSubs) = 1  BY <1>4, FS_Singleton
  <2>2. Cardinality(Stage(Steps)) = 0 /\ Cardinality(Stage({"create"})) = 0
    BY <1>5, FS_EmptySet
  <2> QED BY <2>1, <2>2 DEF InForce, Peak
<1>7. LoneActivation  BY <1>3, <1>4, <1>5 DEF LoneActivation, InStep
<1>8. PaymentsOverlapped  BY <1>5, FS_EmptySet DEF PaymentsOverlapped
<1>9. LostRacedToCreate  BY <1>5, FS_EmptySet DEF LostRacedToCreate
<1> QED BY <1>1, <1>6, <1>7, <1>8, <1>9 DEF BillingSound

\* Subscriptions that rest are in force as they were.
LEMMA ForceRests ==
  ASSUME UNCHANGED subs
  PROVE  /\ LiveSubs' = LiveSubs /\ InForceOf(Len(subs))' = InForceOf(Len(subs))
BY DEF LiveSubs, InForceOf

\* A call of an administrator leaves the usage of the month alone.
LEMMA UsageRests ==
  ASSUME LostRacedToCreate, UNCHANGED <<usage, counter, counted, missed>>,
         billingCrowd'.count = billingCrowd.count
  PROVE  LostRacedToCreate'
BY DEF LostRacedToCreate, Phase

\* A call in flight, by the statement it awaits.
LEMMA BillingCallInFlight ==
  ASSUME BillingShapes, NEW a \in Admins
  PROVE  /\ billing[a] \in BillingCalls
         /\ billing[a].op \in Steps =>
              billing[a] \in [op : {"replace", "create", "plan"}, to : Plans, asked : BOOLEAN]
         /\ billing[a].op = "pay" => billing[a] = [op |-> "pay"]
<1>1. billing[a] \in BillingCalls  BY DEF BillingShapes
<1> QED BY <1>1 DEF BillingCalls, Off, Steps

\* An activation begins.
LEMMA ActivateKeepsSound ==
  ASSUME BillingSound, NEW a \in Admins, NEW to \in Plans, NEW asked \in BOOLEAN, Activate(a, to, asked)
  PROVE  BillingSound'
<1> DEFINE c == [op |-> "replace", to |-> to, asked |-> asked]
<1>1. /\ billing[a].op = "idle" /\ billing' = [billing EXCEPT ![a] = c]
      /\ c \in BillingCalls /\ c.op = "replace" /\ BillingShapes
      /\ UNCHANGED <<subs, plan, paid, payments, broken, usage, counter, counted, missed>>
      /\ billingCrowd' = [billingCrowd EXCEPT !.activate = Peak(@, Cardinality(Activating) + 1)]
  BY DEF Activate, Off, BillingSound, BillingCalls, unchangedUsage
<1> HIDE DEF c
<1>2. Activating = Stage(Steps)  BY DEF Activating, Stage, Steps
<1>3. /\ billingCrowd'.activate = Peak(billingCrowd.activate, Cardinality(Stage(Steps)) + 1)
      /\ billingCrowd'.pay = billingCrowd.pay /\ billingCrowd'.count = billingCrowd.count
      /\ billingCrowd' \in [activate : Nat, pay : Nat, count : Nat]
      /\ billingCrowd'.activate \in Nat /\ billingCrowd.activate \in Nat
      /\ billingCrowd'.activate >= billingCrowd.activate
      /\ billingCrowd'.activate >= Cardinality(Stage(Steps)) + 1
  <2> DEFINE n == Cardinality(Stage(Steps)) + 1
  <2>1. n \in Nat  BY StageFinite
  <2>2. billingCrowd \in [activate : Nat, pay : Nat, count : Nat]  BY <1>1 DEF BillingShapes
  <2>3. billingCrowd' = [billingCrowd EXCEPT !.activate = Peak(@, n)]  BY <1>1, <1>2
  <2> HIDE DEF n
  <2>4. /\ Peak(billingCrowd.activate, n) \in Nat
        /\ Peak(billingCrowd.activate, n) >= billingCrowd.activate
        /\ Peak(billingCrowd.activate, n) >= n
    BY <2>1, <2>2 DEF Peak
  <2>5. /\ billingCrowd'.activate = Peak(billingCrowd.activate, n)
        /\ billingCrowd'.pay = billingCrowd.pay /\ billingCrowd'.count = billingCrowd.count
        /\ billingCrowd' \in [activate : Nat, pay : Nat, count : Nat]
    BY <2>2, <2>3, <2>4
  <2> USE DEF n
  <2> QED BY <2>2, <2>4, <2>5
<1>4. BillingShapes'  BY <1>1, <1>3 DEF BillingShapes
<1>5. Cardinality(Stage(Steps)') = Cardinality(Stage(Steps)) + 1
  <2>1. c.op \in Steps /\ billing[a].op \notin Steps  BY <1>1 DEF Steps
  <2>2. Cardinality(Stage(Steps)') = Cardinality(Stage(Steps))
          + (IF c.op \in Steps THEN 1 ELSE 0) - (IF billing[a].op \in Steps THEN 1 ELSE 0)
    BY <1>1, StageMoves
  <2> QED BY <2>1, <2>2, StageFinite
<1>6. \A ops : "replace" \notin ops /\ "idle" \notin ops => Stage(ops)' = Stage(ops)
  BY <1>1 DEF Stage, BillingShapes
<1>7. LiveSubs' = LiveSubs /\ InForceOf(Len(subs))' = InForceOf(Len(subs))
  BY <1>1, ForceRests
<1>8. Stage({"create"})' = Stage({"create"}) /\ Stage({"plan"})' = Stage({"plan"})
      /\ Stage({"create", "plan"})' = Stage({"create", "plan"}) /\ Stage({"pay"})' = Stage({"pay"})
  BY <1>6
<1>9. InForce'
  <2>1. Cardinality(Stage(Steps)') <= billingCrowd'.activate  BY <1>3, <1>5
  <2>2. /\ Peak(1, billingCrowd'.activate) >= Peak(1, billingCrowd.activate)
        /\ Peak(1, billingCrowd'.activate) \in Nat /\ Peak(1, billingCrowd.activate) \in Nat
    BY <1>3 DEF Peak
  <2>3. Cardinality(LiveSubs) + Cardinality(Stage({"create"})) <= Peak(1, billingCrowd.activate)
    BY DEF BillingSound, InForce
  <2>4. /\ Cardinality(LiveSubs) \in Nat /\ Cardinality(Stage({"create"})) \in Nat
        /\ Cardinality(LiveSubs') = Cardinality(LiveSubs)
        /\ Cardinality(Stage({"create"})') = Cardinality(Stage({"create"}))
    BY <1>1, <1>7, <1>8, LiveFinite, StageFinite
  <2>5. Cardinality(LiveSubs') + Cardinality(Stage({"create"})') <= Peak(1, billingCrowd'.activate)
    BY <2>2, <2>3, <2>4
  <2> QED BY <2>1, <2>5 DEF InForce
<1>10. LoneActivation'
  <2>1. \A b \in Stage({"plan"}) : billing'[b].to = billing[b].to
    BY <1>1 DEF Stage, BillingShapes
  <2> QED BY <1>1, <1>3, <1>7, <1>8, <2>1 DEF BillingSound, LoneActivation, InStep
<1>11. PaymentsOverlapped'  BY <1>1, <1>3, <1>8 DEF BillingSound, PaymentsOverlapped
<1>12. LostRacedToCreate'  BY <1>1, <1>3, UsageRests DEF BillingSound
<1> QED BY <1>4, <1>9, <1>10, <1>11, <1>12 DEF BillingSound

\* A call that leaves a stage, or never was in it, adds nobody to it.
LEMMA StageShrinks ==
  ASSUME BillingShapes, NEW ops, NEW a \in Admins, NEW c,
         billing' = [billing EXCEPT ![a] = c], c.op \in ops => billing[a].op \in ops
  PROVE  /\ Stage(ops)' \subseteq Stage(ops)
         /\ Cardinality(Stage(ops)') \in Nat
         /\ Cardinality(Stage(ops)') <= Cardinality(Stage(ops))
<1>1. Stage(ops)' \subseteq Stage(ops)  BY DEF Stage, BillingShapes
<1> QED BY <1>1, StageFinite, FS_Subset, FS_CardinalityType

\* An activation that ends leaves what is in force within its bound.
LEMMA EndedKeepsInForce ==
  ASSUME BillingSound, NEW a \in Admins, NEW c, billing' = [billing EXCEPT ![a] = c],
         c.op \notin Steps, UNCHANGED subs, billingCrowd'.activate = billingCrowd.activate
  PROVE  InForce'
<1>1. BillingShapes /\ InForce  BY DEF BillingSound
<1>2. Cardinality(Stage(Steps)') \in Nat /\ Cardinality(Stage(Steps)') <= Cardinality(Stage(Steps))
  BY <1>1, StageShrinks
<1>3. /\ Cardinality(Stage({"create"})') \in Nat
      /\ Cardinality(Stage({"create"})') <= Cardinality(Stage({"create"}))
  <2>1. c.op \notin {"create"}  BY DEF Steps
  <2> QED BY <1>1, <2>1, StageShrinks
<1>4. LiveSubs' = LiveSubs  BY DEF LiveSubs
<1>5. billingCrowd.activate \in Nat /\ Peak(1, billingCrowd.activate) \in Nat
  BY <1>1 DEF BillingShapes, Peak
<1>6. Peak(1, billingCrowd'.activate) = Peak(1, billingCrowd.activate)  OBVIOUS
<1>7. Cardinality(Stage(Steps)') <= billingCrowd'.activate
  BY <1>1, <1>2, <1>5, StageFinite DEF InForce
<1>8. Cardinality(LiveSubs') + Cardinality(Stage({"create"})') <= Peak(1, billingCrowd'.activate)
  BY <1>1, <1>3, <1>4, <1>5, <1>6, LiveFinite, StageFinite DEF InForce
<1> QED BY <1>7, <1>8 DEF InForce

\* Calls that do not touch what is in force.
LEMMA ActivationsRest ==
  ASSUME BillingSound, NEW a \in Admins, NEW c, billing' = [billing EXCEPT ![a] = c],
         c.op \notin Steps, billing[a].op \notin {"create", "plan"},
         UNCHANGED <<subs, plan>>, billingCrowd'.activate = billingCrowd.activate,
         broken => broken'
  PROVE  InForce' /\ LoneActivation'
<1>1. InForce'  BY EndedKeepsInForce
<1>2. \A ops \in SUBSET {"create", "plan"} : Stage(ops)' = Stage(ops)
  BY DEF Stage, Steps, BillingSound, BillingShapes
<1>3. /\ Stage({"create"})' = Stage({"create"}) /\ Stage({"plan"})' = Stage({"plan"})
      /\ Stage({"create", "plan"})' = Stage({"create", "plan"})
  <2>1. /\ {"create"} \in SUBSET {"create", "plan"} /\ {"plan"} \in SUBSET {"create", "plan"}
        /\ {"create", "plan"} \in SUBSET {"create", "plan"}
    OBVIOUS
  <2> QED BY <1>2, <2>1
<1>4. \A b \in Stage({"plan"}) : billing'[b] = billing[b]
  BY DEF Stage, BillingSound, BillingShapes
<1>5. LiveSubs' = LiveSubs /\ InForceOf(Len(subs))' = InForceOf(Len(subs))  BY ForceRests
<1>6. LoneActivation'  BY <1>3, <1>4, <1>5 DEF BillingSound, LoneActivation, InStep
<1> QED BY <1>1, <1>6

\* Calls that do not pay.
LEMMA PaymentsRest ==
  ASSUME BillingSound, NEW a \in Admins, NEW c, billing' = [billing EXCEPT ![a] = c],
         c.op # "pay", UNCHANGED <<paid, payments>>, billingCrowd'.pay = billingCrowd.pay
  PROVE  PaymentsOverlapped'
<1>1. BillingShapes /\ PaymentsOverlapped  BY DEF BillingSound
<1>2. c.op \notin {"pay"}  OBVIOUS
<1>3. /\ Cardinality(Stage({"pay"})') \in Nat
      /\ Cardinality(Stage({"pay"})') <= Cardinality(Stage({"pay"}))
  BY <1>1, <1>2, StageShrinks
<1>4. billingCrowd.pay \in Nat /\ payments \in Nat  BY <1>1 DEF BillingShapes
<1>5. payments' + Cardinality(Stage({"pay"})') <= billingCrowd'.pay
  BY <1>1, <1>3, <1>4, StageFinite DEF PaymentsOverlapped
<1> QED BY <1>1, <1>5 DEF PaymentsOverlapped

LEMMA ReplaceKeepsSound ==
  ASSUME BillingSound, NEW a \in Admins, ReplaceOld(a)
  PROVE  BillingSound'
<1> DEFINE c == [billing[a] EXCEPT !.op = "create"]
<1>1. BillingShapes /\ a \in Stage(Steps) /\ billing[a].op = "replace"
  BY DEF ReplaceOld, BillingSound, Stage, Steps
<1>2. billing[a] \in [op : {"replace", "create", "plan"}, to : Plans, asked : BOOLEAN]
  BY <1>1, BillingCallInFlight DEF Steps
<1>3. /\ billing' = [billing EXCEPT ![a] = c]
      /\ c \in BillingCalls /\ c.op = "create"
  BY <1>1, <1>2 DEF ReplaceOld, BillingCalls
<1>4. UNCHANGED <<plan, paid, payments, billingCrowd, broken, usage, counter, counted, missed>>
  BY DEF ReplaceOld, unchangedUsage
<1> HIDE DEF c
<1>5. DOMAIN subs = 1 .. Len(subs) /\ Len(subs) \in Nat /\ \A k \in DOMAIN subs : subs[k] \in Subscriptions
  BY <1>1, LenProperties, ElementOfSeq DEF BillingShapes
<1>6. subs' \in Seq(Subscriptions) /\ LiveSubs' = {}
  <2> DEFINE old(k) == [subs[k] EXCEPT !.live = FALSE]
  <2>1. \A k \in 1 .. Len(subs) : old(k) \in Subscriptions /\ old(k).live = FALSE
    BY <1>5 DEF Subscriptions
  <2>2. subs' = [k \in 1 .. Len(subs) |-> old(k)]  BY <1>5 DEF ReplaceOld
  <2> HIDE DEF old
  <2>3. subs' \in [1 .. Len(subs) -> Subscriptions]  BY <2>1, <2>2
  <2>4. subs' \in Seq(Subscriptions)  BY <1>5, <2>3
  <2>5. \A k \in DOMAIN subs' : ~subs'[k].live  BY <2>1, <2>2
  <2> QED BY <2>4, <2>5 DEF LiveSubs
<1>7. BillingShapes'  BY <1>1, <1>3, <1>4, <1>6 DEF BillingShapes
<1>8. InForce'
  <2>1. "create" \in Steps /\ c.op \in Steps /\ billing[a].op \in Steps  BY <1>1, <1>3 DEF Steps
  <2>2. /\ Cardinality(Stage(Steps)') \in Nat
        /\ Cardinality(Stage(Steps)') <= Cardinality(Stage(Steps))
    BY <1>1, <1>3, <2>1, StageShrinks
  <2>3. Stage({"create"})' \in SUBSET (Stage(Steps)')  BY <2>1 DEF Stage
  <2>4. Stage(Steps)' \subseteq Admins  BY DEF Stage
  <2>5. IsFiniteSet(Stage(Steps)')  BY <2>4, BillingAssumption, FS_Subset
  <2>6. /\ Cardinality(Stage({"create"})') <= Cardinality(Stage(Steps)')
        /\ Cardinality(Stage({"create"})') \in Nat
    BY <2>3, <2>5, FS_Subset, FS_CardinalityType
  <2>7. Cardinality(Stage(Steps)) <= billingCrowd.activate /\ billingCrowd.activate \in Nat
    BY <1>1 DEF BillingSound, InForce, BillingShapes
  <2>8. Cardinality(LiveSubs') = 0  BY <1>6, FS_EmptySet
  <2>9. Peak(1, billingCrowd'.activate) >= billingCrowd.activate /\ Peak(1, billingCrowd'.activate) \in Nat
    BY <1>4, <2>7 DEF Peak
  <2>10. Cardinality(Stage(Steps)') <= billingCrowd'.activate
    BY <1>4, <2>2, <2>7, StageFinite
  <2>11. Cardinality(LiveSubs') + Cardinality(Stage({"create"})') <= Peak(1, billingCrowd'.activate)
    BY <2>2, <2>6, <2>7, <2>8, <2>9, StageFinite
  <2> QED BY <2>10, <2>11 DEF InForce
<1>9. LoneActivation'
  <2> SUFFICES ASSUME billingCrowd.activate <= 1
               PROVE  /\ a \in Stage({"create", "plan"})'
                      /\ Stage({"plan"})' = {}
    BY <1>4, <1>6 DEF LoneActivation
  <2>1. a \in Stage({"create", "plan"})' /\ a \notin Stage({"plan"})'
    BY <1>1, <1>3 DEF Stage, BillingShapes
  <2>2. Stage({"plan"})' \subseteq Stage(Steps) \cup {a}
    BY <1>3 DEF Stage, Steps, BillingSound, BillingShapes
  <2> QED BY <1>1, <2>1, <2>2, LoneIsAlone
<1>10. PaymentsOverlapped'
  BY <1>3, <1>4, PaymentsRest
<1>11. LostRacedToCreate'  BY <1>4, UsageRests DEF BillingSound
<1> QED BY <1>7, <1>8, <1>9, <1>10, <1>11 DEF BillingSound

LEMMA CreateKeepsSound ==
  ASSUME BillingSound, NEW a \in Admins, CreateSub(a)
  PROVE  BillingSound'
<1> DEFINE c == [billing[a] EXCEPT !.op = "plan"]
           new == [plan |-> billing[a].to, live |-> billing[a].asked, asked |-> billing[a].asked]
           n == Len(subs) + 1
<1>1. BillingShapes /\ a \in Stage(Steps) /\ billing[a].op = "create"
  BY DEF CreateSub, BillingSound, Stage, Steps
<1>2. billing[a] \in [op : {"replace", "create", "plan"}, to : Plans, asked : BOOLEAN]
  BY <1>1, BillingCallInFlight DEF Steps
<1>3. /\ billing' = [billing EXCEPT ![a] = c]
      /\ c \in BillingCalls /\ c.op = "plan" /\ c.to = billing[a].to
  BY <1>1, <1>2 DEF CreateSub, BillingCalls
<1>4. UNCHANGED <<plan, paid, payments, billingCrowd, broken, usage, counter, counted, missed>>
  BY DEF CreateSub, unchangedUsage
<1>5. /\ subs' = Append(subs, new) /\ new \in Subscriptions /\ new.live = new.asked
      /\ new.plan = billing[a].to
  BY <1>2 DEF CreateSub, Subscriptions
<1> HIDE DEF c, new
<1>6. /\ subs' \in Seq(Subscriptions) /\ Len(subs') = n /\ subs'[n] = new
      /\ \A k \in 1 .. Len(subs) : subs'[k] = subs[k]
      /\ DOMAIN subs' = 1 .. n /\ DOMAIN subs = 1 .. Len(subs) /\ Len(subs) \in Nat
  BY <1>1, <1>5 DEF BillingShapes
<1>7. /\ LiveSubs' = LiveSubs \cup InForceOf(Len(subs))' /\ n \notin LiveSubs
      /\ InForceOf(Len(subs))' = IF new.asked THEN {n} ELSE {}
  BY <1>5, <1>6 DEF LiveSubs, InForceOf
<1>8. BillingShapes'  BY <1>1, <1>3, <1>4, <1>6 DEF BillingShapes
<1>9. InForce'
  <2>1. c.op \in Steps /\ billing[a].op \in Steps  BY <1>1, <1>3 DEF Steps
  <2>2. Cardinality(Stage(Steps)') <= Cardinality(Stage(Steps)) /\ Cardinality(Stage(Steps)') \in Nat
    BY <1>1, <1>3, <2>1, StageShrinks
  <2>3. Cardinality(Stage({"create"})') = Cardinality(Stage({"create"})) - 1
    <3>1. Cardinality(Stage({"create"})') = Cardinality(Stage({"create"}))
            + (IF c.op \in {"create"} THEN 1 ELSE 0) - (IF billing[a].op \in {"create"} THEN 1 ELSE 0)
      BY <1>1, <1>3, StageMoves
    <3> QED BY <1>1, <1>3, <3>1, StageFinite
  <2>4. /\ Cardinality(LiveSubs') <= Cardinality(LiveSubs) + 1
        /\ Cardinality(LiveSubs') \in Nat /\ Cardinality(LiveSubs) \in Nat
    <3>1. IsFiniteSet(LiveSubs) /\ Cardinality(LiveSubs) \in Nat  BY <1>1, LiveFinite
    <3>2. CASE InForceOf(Len(subs))' = {}
      <4>1. LiveSubs' = LiveSubs  BY <1>7, <3>2
      <4>2. Cardinality(LiveSubs') = Cardinality(LiveSubs)  BY <4>1
      <4> QED BY <3>1, <4>2
    <3>3. CASE InForceOf(Len(subs))' = {n}
      <4>1. LiveSubs' = LiveSubs \cup {n}  BY <1>7, <3>3
      <4>2. Cardinality(LiveSubs \cup {n}) = Cardinality(LiveSubs) + 1
        BY <1>7, <3>1, FS_AddElement
      <4>3. Cardinality(LiveSubs') = Cardinality(LiveSubs) + 1  BY <4>1, <4>2
      <4> QED BY <3>1, <4>3
    <3> QED BY <1>7, <3>2, <3>3
  <2>5. billingCrowd.activate \in Nat /\ Peak(1, billingCrowd.activate) \in Nat
    BY <1>1 DEF BillingShapes, Peak
  <2>6. Cardinality(Stage(Steps)') <= billingCrowd'.activate
    BY <1>4, <2>2, <2>5, StageFinite DEF BillingSound, InForce
  <2>7. Cardinality(LiveSubs') + Cardinality(Stage({"create"})') <= Peak(1, billingCrowd'.activate)
    BY <1>1, <1>4, <2>3, <2>4, <2>5, LiveFinite, StageFinite DEF BillingSound, InForce
  <2> QED BY <2>6, <2>7 DEF InForce
<1>10. LoneActivation'
  <2> SUFFICES ASSUME billingCrowd.activate <= 1, ~broken
               PROVE  /\ a \in Stage({"plan"})' /\ a \in Stage({"create", "plan"})'
                      /\ Stage({"create"})' = {} /\ Stage({"plan"})' \subseteq {a}
                      /\ LiveSubs' = InForceOf(Len(subs))' /\ billing'[a].to = new.plan
    BY <1>4, <1>6 DEF LoneActivation, InForceOf
  <2>1. /\ a \in Stage({"plan"})' /\ a \in Stage({"create", "plan"})'
        /\ a \notin Stage({"create"})' /\ billing'[a] = c
    BY <1>1, <1>3 DEF Stage, BillingShapes
  <2>2. Stage({"plan"})' \cup Stage({"create"})' \subseteq Stage(Steps) \cup {a}
    BY <1>3 DEF Stage, Steps, BillingSound, BillingShapes
  <2>3. a \in Stage({"create"})  BY <1>1 DEF Stage
  <2>4. LiveSubs = {}  BY <2>3 DEF BillingSound, LoneActivation
  <2> QED BY <1>1, <1>3, <1>5, <1>7, <2>1, <2>2, <2>4, LoneIsAlone
<1>11. PaymentsOverlapped'  BY <1>3, <1>4, PaymentsRest
<1>12. LostRacedToCreate'  BY <1>4, UsageRests DEF BillingSound
<1> QED BY <1>8, <1>9, <1>10, <1>11, <1>12 DEF BillingSound

LEMMA SetPlanKeepsSound ==
  ASSUME BillingSound, NEW a \in Admins, SetPlan(a)
  PROVE  BillingSound'
<1>1. BillingShapes /\ a \in Stage(Steps) /\ billing[a].op = "plan"
  BY DEF SetPlan, BillingSound, Stage, Steps
<1>2. /\ billing' = [billing EXCEPT ![a] = Off] /\ plan' = billing[a].to
      /\ UNCHANGED <<subs, paid, payments, billingCrowd, broken, usage, counter, counted, missed>>
  BY DEF SetPlan, unchangedUsage
<1>3. Off \in BillingCalls /\ Off.op = "idle" /\ Off.op \notin Steps  BY DEF Off, BillingCalls, Steps
<1>4. BillingShapes'  BY <1>1, <1>2, <1>3 DEF BillingShapes
<1>5. InForce'  BY <1>2, <1>3, EndedKeepsInForce
<1>6. LoneActivation'
  <2> SUFFICES ASSUME billingCrowd.activate <= 1, ~broken
               PROVE  /\ Stage({"create"})' = {} /\ Stage({"plan"})' = {}
                      /\ LiveSubs' = InForceOf(Len(subs)) /\ subs[Len(subs)].plan = plan'
    BY <1>2, ForceRests DEF LoneActivation, InStep
  <2>1. a \in Stage({"plan"})  BY <1>1 DEF Stage
  <2>2. LiveSubs = InForceOf(Len(subs)) /\ subs[Len(subs)].plan = billing[a].to
    BY <2>1 DEF BillingSound, LoneActivation
  <2>3. Stage({"plan"})' \cup Stage({"create"})' \subseteq Stage(Steps) \ {a}
    BY <1>2, <1>3 DEF Stage, Steps, BillingSound, BillingShapes
  <2>4. LiveSubs' = LiveSubs  BY <1>2, ForceRests
  <2> QED BY <1>1, <1>2, <2>2, <2>3, <2>4, LoneIsAlone
<1>7. PaymentsOverlapped'
  <2>1. Off.op # "pay"  BY DEF Off
  <2> QED BY <1>2, <2>1, PaymentsRest
<1>8. LostRacedToCreate'  BY <1>2, UsageRests DEF BillingSound
<1> QED BY <1>4, <1>5, <1>6, <1>7, <1>8 DEF BillingSound

\* An activation that breaks off once it has replaced the old subscription is
\* told from one that has not begun.
LEMMA FailingKeepsSound ==
  ASSUME BillingSound, NEW a \in Admins, BillingFails(a)
  PROVE  BillingSound'
<1>1. /\ billing' = [billing EXCEPT ![a] = Off]
      /\ broken' = (broken \/ billing[a].op \in {"create", "plan"})
      /\ UNCHANGED <<subs, plan, paid, payments, billingCrowd, usage, counter, counted, missed>>
      /\ BillingShapes
  BY DEF BillingFails, unchangedUsage, BillingSound
<1>2. Off \in BillingCalls /\ Off.op \notin Steps /\ Off.op # "pay"  BY DEF Off, BillingCalls, Steps
<1>3. broken' \in BOOLEAN /\ (broken => broken')  BY <1>1 DEF BillingShapes
<1>4. BillingShapes'  BY <1>1, <1>2, <1>3 DEF BillingShapes
<1>5. InForce'  BY <1>1, <1>2, EndedKeepsInForce
<1>6. LoneActivation'
  <2>1. CASE billing[a].op \in {"create", "plan"}  BY <1>1, <2>1 DEF LoneActivation
  <2>2. CASE billing[a].op \notin {"create", "plan"}
    BY <1>1, <1>2, <1>3, <2>2, ActivationsRest
  <2> QED BY <2>1, <2>2
<1>7. PaymentsOverlapped'  BY <1>1, <1>2, PaymentsRest
<1>8. LostRacedToCreate'  BY <1>1, UsageRests DEF BillingSound
<1> QED BY <1>4, <1>5, <1>6, <1>7, <1>8 DEF BillingSound

\* A payment begins only before the first is written.
LEMMA PayReadKeepsSound ==
  ASSUME BillingSound, NEW a \in Admins, PayRead(a)
  PROVE  BillingSound'
<1> DEFINE c == [op |-> "pay"]
<1>1. /\ billing[a].op = "idle" /\ ~paid /\ BillingShapes
      /\ billing' = [billing EXCEPT ![a] = c]
      /\ UNCHANGED <<subs, plan, paid, payments, broken, usage, counter, counted, missed>>
      /\ billingCrowd' = [billingCrowd EXCEPT !.pay = Peak(@, Cardinality(Paying) + 1)]
  BY DEF PayRead, Off, BillingSound, unchangedUsage
<1>2. c \in BillingCalls /\ c.op \notin Steps /\ c.op \in {"pay"}  BY DEF BillingCalls, Steps
<1> HIDE DEF c
<1>3. Paying = Stage({"pay"})  BY DEF Paying, Stage
<1>4. /\ billingCrowd'.pay = Peak(billingCrowd.pay, Cardinality(Stage({"pay"})) + 1)
      /\ billingCrowd'.activate = billingCrowd.activate /\ billingCrowd'.count = billingCrowd.count
      /\ billingCrowd' \in [activate : Nat, pay : Nat, count : Nat]
      /\ billingCrowd'.pay \in Nat
      /\ billingCrowd'.pay >= Cardinality(Stage({"pay"})) + 1
  BY <1>1, <1>3, StageFinite DEF BillingShapes, Peak
<1>5. BillingShapes'  BY <1>1, <1>2, <1>4 DEF BillingShapes
<1>6. InForce' /\ LoneActivation'
  <2>1. billing[a].op \notin {"create", "plan"} /\ (broken => broken')  BY <1>1
  <2> QED BY <1>1, <1>2, <1>4, <2>1, ActivationsRest
<1>7. PaymentsOverlapped'
  <2>1. payments = 0  BY <1>1 DEF BillingSound, PaymentsOverlapped, BillingShapes
  <2>2. billing[a].op \notin {"pay"}  BY <1>1
  <2>3. Cardinality(Stage({"pay"})') = Cardinality(Stage({"pay"}))
          + (IF c.op \in {"pay"} THEN 1 ELSE 0) - (IF billing[a].op \in {"pay"} THEN 1 ELSE 0)
    BY <1>1, StageMoves
  <2>4. Cardinality(Stage({"pay"})') = Cardinality(Stage({"pay"})) + 1
    BY <1>2, <2>2, <2>3, StageFinite
  <2>5. payments' + Cardinality(Stage({"pay"})') <= billingCrowd'.pay
    BY <1>1, <1>4, <2>1, <2>4, StageFinite
  <2>6. paid' <=> payments' > 0  BY <1>1 DEF BillingSound, PaymentsOverlapped
  <2> QED BY <2>5, <2>6 DEF PaymentsOverlapped
<1>8. LostRacedToCreate'  BY <1>1, <1>4, UsageRests DEF BillingSound
<1> QED BY <1>5, <1>6, <1>7, <1>8 DEF BillingSound

LEMMA PayWriteKeepsSound ==
  ASSUME BillingSound, NEW a \in Admins, PayWrite(a)
  PROVE  BillingSound'
<1>1. /\ billing[a].op = "pay" /\ BillingShapes
      /\ paid' = TRUE /\ payments' = payments + 1
      /\ billing' = [billing EXCEPT ![a] = Off]
      /\ UNCHANGED <<subs, plan, billingCrowd, broken, usage, counter, counted, missed>>
  BY DEF PayWrite, BillingSound, unchangedUsage
<1>2. Off \in BillingCalls /\ Off.op \notin Steps /\ Off.op \notin {"pay"}
  BY DEF Off, BillingCalls, Steps
<1>3. payments \in Nat /\ payments' \in Nat  BY <1>1 DEF BillingShapes
<1>4. BillingShapes'  BY <1>1, <1>2, <1>3 DEF BillingShapes
<1>5. InForce' /\ LoneActivation'
  <2>1. billing[a].op \notin {"create", "plan"} /\ (broken => broken')  BY <1>1
  <2> QED BY <1>1, <1>2, <2>1, ActivationsRest
<1>6. PaymentsOverlapped'
  <2>1. Cardinality(Stage({"pay"})') = Cardinality(Stage({"pay"}))
          + (IF Off.op \in {"pay"} THEN 1 ELSE 0) - (IF billing[a].op \in {"pay"} THEN 1 ELSE 0)
    BY <1>1, StageMoves
  <2>2. Cardinality(Stage({"pay"})') = Cardinality(Stage({"pay"})) - 1
    BY <1>1, <1>2, <2>1, StageFinite
  <2>3. payments' + Cardinality(Stage({"pay"})') <= billingCrowd'.pay
    BY <1>1, <1>3, <2>2, StageFinite DEF BillingSound, PaymentsOverlapped, BillingShapes
  <2> QED BY <1>1, <1>3, <2>3 DEF PaymentsOverlapped
<1>7. LostRacedToCreate'  BY <1>1, UsageRests DEF BillingSound
<1> QED BY <1>4, <1>5, <1>6, <1>7 DEF BillingSound

\* An increment leaves subscriptions and payments alone.
LEMMA AdminsRest ==
  ASSUME BillingSound, UNCHANGED <<subs, plan, paid, payments, billing, broken>>,
         billingCrowd'.activate = billingCrowd.activate, billingCrowd'.pay = billingCrowd.pay
  PROVE  InForce' /\ LoneActivation' /\ PaymentsOverlapped'
<1>1. /\ LiveSubs' = LiveSubs /\ InForceOf(Len(subs))' = InForceOf(Len(subs))
      /\ \A ops : Stage(ops)' = Stage(ops)
  BY ForceRests DEF Stage
<1>2. /\ Stage(Steps)' = Stage(Steps) /\ Stage({"create"})' = Stage({"create"})
      /\ Stage({"plan"})' = Stage({"plan"}) /\ Stage({"pay"})' = Stage({"pay"})
      /\ Stage({"create", "plan"})' = Stage({"create", "plan"})
  BY <1>1
<1>3. InForce'  BY <1>1, <1>2 DEF BillingSound, InForce
<1>4. LoneActivation'  BY <1>1, <1>2 DEF BillingSound, LoneActivation, InStep
<1>5. PaymentsOverlapped'  BY <1>2 DEF BillingSound, PaymentsOverlapped
<1> QED BY <1>3, <1>4, <1>5

LEMMA RecordKeepsSound ==
  ASSUME BillingSound, NEW c \in Counters, FindRecord(c)
  PROVE  BillingSound'
<1> DEFINE next == IF usage = NoRecord THEN "create" ELSE "update"
<1>1. /\ counter[c] = "idle" /\ counter' = [counter EXCEPT ![c] = next] /\ BillingShapes
      /\ UNCHANGED <<subs, plan, paid, payments, billing, usage, counted, missed, broken>>
      /\ billingCrowd' = [billingCrowd EXCEPT !.count = Peak(@, Cardinality(Counting) + 1)]
  BY DEF FindRecord, BillingSound
<1>2. /\ next \in {"update", "create"} /\ (next = "create" <=> usage = NoRecord)
      /\ next \notin {"over"}
  OBVIOUS
<1> HIDE DEF next
<1>3. Counting = Phase({"update", "create"})  BY DEF Counting, Phase
<1>4. /\ billingCrowd'.activate = billingCrowd.activate /\ billingCrowd'.pay = billingCrowd.pay
      /\ billingCrowd' \in [activate : Nat, pay : Nat, count : Nat]
      /\ billingCrowd'.count \in Nat /\ billingCrowd.count \in Nat
      /\ billingCrowd'.count >= billingCrowd.count
      /\ billingCrowd'.count >= Cardinality(Phase({"update", "create"})) + 1
  BY <1>1, <1>3, StageFinite DEF BillingShapes, Peak
<1>5. BillingShapes'  BY <1>1, <1>2, <1>4 DEF BillingShapes
<1>6. InForce' /\ LoneActivation' /\ PaymentsOverlapped'  BY <1>1, <1>4, AdminsRest
<1>7. LostRacedToCreate'
  <2>1. \A ops : Cardinality(Phase(ops)') = Cardinality(Phase(ops))
          + (IF next \in ops THEN 1 ELSE 0) - (IF counter[c] \in ops THEN 1 ELSE 0)
    BY <1>1, PhaseMoves
  <2>2. Cardinality(Phase({"update", "create"})') = Cardinality(Phase({"update", "create"})) + 1
    BY <1>1, <1>2, <2>1, StageFinite
  <2>3. Cardinality(Phase({"update", "create"})') <= billingCrowd'.count
    BY <1>4, <2>2, StageFinite
  <2>4. counter'[c] = next /\ \A d \in Counters \ {c} : counter'[d] = counter[d]
    BY <1>1 DEF BillingShapes
  <2>5. Cardinality(Phase({"over"})') = Cardinality(Phase({"over"}))
    BY <1>1, <1>2, <2>1, StageFinite
  <2>6. CASE usage = NoRecord
    <3>1. counted = 0 /\ Phase({"update"}) = {} /\ Cardinality(Phase({"over"})) <= missed
      BY <2>6 DEF BillingSound, LostRacedToCreate
    <3>2. Phase({"update"})' = {}  BY <1>2, <2>4, <2>6, <3>1 DEF Phase
    <3> QED BY <1>1, <2>3, <2>5, <2>6, <3>1, <3>2 DEF LostRacedToCreate
  <2>7. CASE usage # NoRecord
    <3>1. Cardinality(Phase({"create"})') = Cardinality(Phase({"create"}))
      BY <1>1, <1>2, <2>1, <2>7, StageFinite
    <3>2. /\ usage = counted /\ counted > 0
          /\ Cardinality(Phase({"over"})) + Cardinality(Phase({"create"}))
               <= counted + billingCrowd.count - 1 + missed
      BY <2>7 DEF BillingSound, LostRacedToCreate
    <3>3. counted \in Nat /\ missed \in Nat  BY <1>1 DEF BillingShapes
    <3>4. Cardinality(Phase({"over"})') + Cardinality(Phase({"create"})')
            <= counted' + billingCrowd'.count - 1 + missed'
      BY <1>1, <1>4, <2>5, <3>1, <3>2, <3>3, StageFinite
    <3> QED BY <1>1, <2>3, <2>7, <3>2, <3>4 DEF LostRacedToCreate
  <2> QED BY <2>6, <2>7
<1> QED BY <1>5, <1>6, <1>7 DEF BillingSound

LEMMA CountKeepsSound ==
  ASSUME BillingSound, NEW c \in Counters, UpdateRecord(c) \/ CreateRecord(c)
  PROVE  BillingSound'
<1>1. /\ counter[c] \in {"update", "create"} /\ counter' = [counter EXCEPT ![c] = "over"]
      /\ UNCHANGED <<subs, plan, paid, payments, billing, missed, billingCrowd, broken>>
      /\ BillingShapes /\ counted \in Nat /\ missed \in Nat /\ billingCrowd.count \in Nat
  BY DEF UpdateRecord, CreateRecord, BillingSound, BillingShapes
<1>2. /\ usage = NoRecord =>
           /\ counted = 0 /\ Phase({"update"}) = {}
           /\ Cardinality(Phase({"over"})) <= missed
      /\ usage # NoRecord =>
           /\ usage = counted /\ counted > 0
           /\ Cardinality(Phase({"over"})) + Cardinality(Phase({"create"}))
                <= counted + billingCrowd.count - 1 + missed
      /\ Cardinality(Phase({"update", "create"})) <= billingCrowd.count
  BY DEF BillingSound, LostRacedToCreate
<1>3. counter[c] = "update" => usage # NoRecord  BY <1>2 DEF Phase
<1>4. \/ usage # NoRecord /\ counter[c] = "update" /\ usage' = usage + 1 /\ counted' = counted + 1
      \/ usage = NoRecord /\ counter[c] = "create" /\ usage' = 1 /\ counted' = counted + 1
      \/ usage # NoRecord /\ counter[c] = "create" /\ usage' = usage /\ counted' = counted
  BY <1>3 DEF UpdateRecord, CreateRecord
<1>5. usage' \in Nat /\ counted' \in Nat /\ usage' # NoRecord /\ usage' = counted' /\ counted' > 0
  BY <1>1, <1>2, <1>4 DEF NoRecord, BillingShapes
<1>6. BillingShapes'  BY <1>1, <1>5 DEF BillingShapes
<1>7. InForce' /\ LoneActivation' /\ PaymentsOverlapped'  BY <1>1, AdminsRest
<1>8. LostRacedToCreate'
  <2>1. \A ops : Cardinality(Phase(ops)') = Cardinality(Phase(ops))
          + (IF "over" \in ops THEN 1 ELSE 0) - (IF counter[c] \in ops THEN 1 ELSE 0)
    BY <1>1, PhaseMoves
  <2>2. /\ Cardinality(Phase({"update", "create"})') = Cardinality(Phase({"update", "create"})) - 1
        /\ Cardinality(Phase({"over"})') = Cardinality(Phase({"over"})) + 1
        /\ Cardinality(Phase({"create"})') =
             Cardinality(Phase({"create"})) - (IF counter[c] = "create" THEN 1 ELSE 0)
    BY <1>1, <2>1, StageFinite
  <2>3. Cardinality(Phase({"update", "create"})') <= billingCrowd'.count
    BY <1>1, <1>2, <2>2, StageFinite
  <2>4. Cardinality(Phase({"over"})') + Cardinality(Phase({"create"})')
          <= counted' + billingCrowd'.count - 1 + missed'
    <3>1. CASE usage # NoRecord  BY <1>1, <1>2, <1>4, <2>2, <3>1, StageFinite
    <3>2. CASE usage = NoRecord
      <4>1. Phase({"create"}) = Phase({"update", "create"})
        BY <1>2, <3>2 DEF Phase
      <4> QED BY <1>1, <1>2, <1>4, <2>2, <3>2, <4>1, StageFinite
    <3> QED BY <3>1, <3>2
  <2> QED BY <1>5, <2>3, <2>4 DEF LostRacedToCreate
<1> QED BY <1>6, <1>7, <1>8 DEF BillingSound

\* An increment that fails is over and missed.
LEMMA MissKeepsSound ==
  ASSUME BillingSound, NEW c \in Counters, CounterFails(c)
  PROVE  BillingSound'
<1>1. /\ counter[c] # "over" /\ counter' = [counter EXCEPT ![c] = "over"] /\ missed' = missed + 1
      /\ UNCHANGED <<subs, plan, paid, payments, billing, usage, counted, billingCrowd, broken>>
      /\ BillingShapes /\ counted \in Nat /\ missed \in Nat /\ billingCrowd.count \in Nat
  BY DEF CounterFails, BillingSound, BillingShapes
<1>2. BillingShapes'  BY <1>1 DEF BillingShapes
<1>3. InForce' /\ LoneActivation' /\ PaymentsOverlapped'  BY <1>1, AdminsRest
<1>4. LostRacedToCreate'
  <2>1. \A ops : Cardinality(Phase(ops)') = Cardinality(Phase(ops))
          + (IF "over" \in ops THEN 1 ELSE 0) - (IF counter[c] \in ops THEN 1 ELSE 0)
    BY <1>1, PhaseMoves
  <2>2. /\ Cardinality(Phase({"update", "create"})') <= Cardinality(Phase({"update", "create"}))
        /\ Cardinality(Phase({"update", "create"})') \in Int
        /\ Cardinality(Phase({"over"})') = Cardinality(Phase({"over"})) + 1
        /\ Cardinality(Phase({"create"})') <= Cardinality(Phase({"create"}))
        /\ Cardinality(Phase({"create"})') \in Int
    BY <1>1, <2>1, StageFinite
  <2>3. Cardinality(Phase({"update", "create"})') <= billingCrowd'.count
    BY <1>1, <2>2, StageFinite DEF BillingSound, LostRacedToCreate
  <2>4. CASE usage = NoRecord
    <3>1. counted = 0 /\ Phase({"update"}) = {} /\ Cardinality(Phase({"over"})) <= missed
      BY <2>4 DEF BillingSound, LostRacedToCreate
    <3>2. Phase({"update"})' = {}  BY <1>1, <3>1 DEF Phase, BillingShapes
    <3>3. Cardinality(Phase({"over"})') <= missed'  BY <1>1, <2>2, <3>1, StageFinite
    <3> QED BY <1>1, <2>3, <2>4, <3>1, <3>2, <3>3 DEF LostRacedToCreate
  <2>5. CASE usage # NoRecord
    <3>1. /\ usage = counted /\ counted > 0
          /\ Cardinality(Phase({"over"})) + Cardinality(Phase({"create"}))
               <= counted + billingCrowd.count - 1 + missed
      BY <2>5 DEF BillingSound, LostRacedToCreate
    <3>2. Cardinality(Phase({"over"})') + Cardinality(Phase({"create"})')
            <= counted' + billingCrowd'.count - 1 + missed'
      BY <1>1, <2>2, <3>1, StageFinite
    <3> QED BY <1>1, <2>3, <2>5, <3>1, <3>2 DEF LostRacedToCreate
  <2> QED BY <2>4, <2>5
<1> QED BY <1>2, <1>3, <1>4 DEF BillingSound

LEMMA BillingKeepsSound ==
  ASSUME BillingSound, [BillingNext]_billingVars
  PROVE  BillingSound'
<1>1. CASE UNCHANGED billingVars
  <2> USE <1>1 DEF billingVars
  <2>1. BillingShapes'  BY DEF BillingSound, BillingShapes
  <2>2. InForce' /\ LoneActivation' /\ PaymentsOverlapped'  BY AdminsRest
  <2>3. LostRacedToCreate'  BY UsageRests DEF BillingSound
  <2> QED BY <2>1, <2>2, <2>3 DEF BillingSound
<1> QED
  BY <1>1, ActivateKeepsSound, ReplaceKeepsSound, CreateKeepsSound, SetPlanKeepsSound,
     FailingKeepsSound, PayReadKeepsSound, PayWriteKeepsSound, RecordKeepsSound,
     CountKeepsSound, MissKeepsSound DEF BillingNext

LEMMA SoundBillsOnce == BillingSound => BilledOnce
<1> SUFFICES ASSUME BillingSound  PROVE BilledOnce
  OBVIOUS
<1>1. BillingShapes  BY DEF BillingSound
<1>2. Cardinality(LiveSubs) <= Peak(1, billingCrowd.activate)
  <2>1. Peak(1, billingCrowd.activate) \in Nat  BY <1>1 DEF BillingShapes, Peak
  <2> QED BY <1>1, <2>1, LiveFinite, StageFinite DEF BillingSound, InForce
<1>3. payments <= billingCrowd.pay /\ (paid <=> payments > 0)
  BY <1>1, StageFinite DEF BillingSound, PaymentsOverlapped, BillingShapes
<1>4. billingCrowd.activate <= 1 /\ ~broken /\ Activating = {} =>
        LiveSubs = InForceOf(Len(subs)) /\ subs[Len(subs)].plan = plan
  <2>1. Activating = {} => Stage({"create", "plan"}) = {}  BY DEF Activating, Stage
  <2> QED BY <2>1 DEF BillingSound, LoneActivation, InStep
<1> DEFINE over == Cardinality(Phase({"over"}))
<1>5. /\ usage = IF counted = 0 THEN NoRecord ELSE counted
      /\ over - counted <= Peak(0, billingCrowd.count - 1) + missed
  <2>1. over \in Nat /\ counted \in Nat /\ missed \in Nat /\ billingCrowd.count \in Nat
    BY <1>1, StageFinite DEF BillingShapes
  <2>2. CASE usage = NoRecord
    <3>1. over <= missed /\ counted = 0
      BY <2>2 DEF BillingSound, LostRacedToCreate
    <3> QED BY <2>1, <2>2, <3>1 DEF Peak
  <2>3. CASE usage # NoRecord
    <3>1. /\ usage = counted /\ counted > 0
          /\ over + Cardinality(Phase({"create"})) <= counted + billingCrowd.count - 1 + missed
      BY <2>3 DEF BillingSound, LostRacedToCreate
    <3> QED BY <2>1, <3>1, StageFinite DEF Peak
  <2> QED BY <2>2, <2>3
<1>6. over = Cardinality({c \in Counters : counter[c] = "over"})
  <2>1. Phase({"over"}) = {c \in Counters : counter[c] = "over"}  BY DEF Phase
  <2> QED BY <2>1
<1> QED BY <1>2, <1>3, <1>4, <1>5, <1>6 DEF BilledOnce, InForceOf

(* Whatever the administrators do at once, a workshop has no more than as many *)
(* subscriptions in force and payments of an invoice as calls overlapped, is   *)
(* in step with the latest after activations that did not overlap nor break    *)
(* off, whatever status each was made with, and loses no increment but those   *)
(* that failed or raced to create the month's record.                          *)
THEOREM WorkshopBilledOnce == BillingSpec => []BilledOnce
<1>1. BillingInit => BillingSound  BY BillingStarts
<1>2. BillingSound /\ [BillingNext]_billingVars => BillingSound'  BY BillingKeepsSound
<1> QED BY <1>1, <1>2, SoundBillsOnce, PTL DEF BillingSpec

(* The bounds of billing: administrators and increments at work at once, and   *)
(* increments counted among those that are over.                               *)
BillingBounds ==
  /\ plan \in Plans \cup {FreeTrial}
  /\ billingCrowd.activate <= Cardinality(Admins) /\ billingCrowd.pay <= Cardinality(Admins)
  /\ billingCrowd.count <= Cardinality(Counters)
  /\ counted + missed <= Cardinality(Phase({"over"}))

LEMMA CrowdsFinite ==
  /\ IsFiniteSet(Admins) /\ Cardinality(Admins) \in Nat
  /\ IsFiniteSet(Counters) /\ Cardinality(Counters) \in Nat
BY BillingAssumption, FS_CardinalityType

LEMMA BillingBoundsType == BillingSound /\ BillingBounds => BillingTypeOK
<1> SUFFICES ASSUME BillingSound, BillingBounds  PROVE BillingTypeOK
  OBVIOUS
<1>1. BillingShapes /\ payments \in Nat /\ counted \in Nat /\ missed \in Nat
      /\ billingCrowd \in [activate : Nat, pay : Nat, count : Nat]
  BY DEF BillingSound, BillingShapes
<1>2. payments <= billingCrowd.pay /\ billingCrowd.pay \in Nat
  BY <1>1, StageFinite DEF BillingSound, PaymentsOverlapped
<1>3. Cardinality(Phase({"over"})) <= Cardinality(Counters)
  <2>1. Phase({"over"}) \in SUBSET Counters
    BY DEF Phase
  <2> QED BY <2>1, CrowdsFinite, FS_Subset
<1>4. counted \in 0 .. Cardinality(Counters) /\ missed \in 0 .. Cardinality(Counters)
  BY <1>1, <1>3, CrowdsFinite, StageFinite DEF BillingBounds
<1>5. usage \in {NoRecord} \cup 0 .. Cardinality(Counters)
  BY <1>1, <1>4 DEF BillingSound, LostRacedToCreate
<1>6. payments \in 0 .. Cardinality(Admins)
  BY <1>1, <1>2, CrowdsFinite DEF BillingBounds
<1>7. billingCrowd \in [activate : 0 .. Cardinality(Admins), pay : 0 .. Cardinality(Admins),
                        count : 0 .. Cardinality(Counters)]
  BY <1>1, CrowdsFinite DEF BillingBounds
<1> QED BY <1>1, <1>4, <1>5, <1>6, <1>7
        DEF BillingShapes, BillingBounds, BillingTypeOK, Subscriptions, BillingCalls

\* Whoever is about to join a stage is not in it yet.
LEMMA RoomForOne ==
  /\ \A ops : \A a \in Admins \ Stage(ops) : Cardinality(Stage(ops)) + 1 <= Cardinality(Admins)
  /\ \A ops : \A c \in Counters \ Phase(ops) :
       Cardinality(Phase(ops)) + 1 <= Cardinality(Counters)
<1>1. ASSUME NEW a \in Admins, NEW ops, a \notin Stage(ops)
      PROVE  Cardinality(Stage(ops)) + 1 <= Cardinality(Admins)
  <2>1. Cardinality(Stage(ops) \cup {a}) = Cardinality(Stage(ops)) + 1
    BY <1>1, StageFinite, FS_AddElement
  <2>2. (Stage(ops) \cup {a}) \in SUBSET Admins
    BY DEF Stage
  <2> QED BY <2>1, <2>2, CrowdsFinite, FS_Subset
<1>2. ASSUME NEW c \in Counters, NEW ops, c \notin Phase(ops)
      PROVE  Cardinality(Phase(ops)) + 1 <= Cardinality(Counters)
  <2>1. Cardinality(Phase(ops) \cup {c}) = Cardinality(Phase(ops)) + 1
    BY <1>2, StageFinite, FS_AddElement
  <2>2. (Phase(ops) \cup {c}) \in SUBSET Counters
    BY DEF Phase
  <2> QED BY <2>1, <2>2, CrowdsFinite, FS_Subset
<1> QED BY <1>1, <1>2

\* The calls of administrators.
LEMMA AdminKeepsBounds ==
  ASSUME BillingSound, BillingBounds, NEW a \in Admins,
         \/ \E to \in Plans, asked \in BOOLEAN : Activate(a, to, asked)
         \/ ReplaceOld(a) \/ CreateSub(a) \/ SetPlan(a) \/ BillingFails(a)
         \/ PayRead(a) \/ PayWrite(a)
  PROVE  BillingBounds'
<1>1. BillingShapes /\ billingCrowd \in [activate : Nat, pay : Nat, count : Nat]
  BY DEF BillingSound, BillingShapes
<1>2. counted' = counted /\ missed' = missed /\ counter' = counter
  BY DEF Activate, ReplaceOld, CreateSub, SetPlan, BillingFails, PayRead, PayWrite, unchangedUsage
<1>3. counted' + missed' <= Cardinality(Phase({"over"})')
  BY <1>2 DEF BillingBounds, Phase
<1>4. CASE \E to \in Plans, asked \in BOOLEAN : Activate(a, to, asked)
  <2>1. /\ billing[a] = Off /\ plan' = plan
        /\ billingCrowd' = [billingCrowd EXCEPT !.activate = Peak(@, Cardinality(Activating) + 1)]
    BY <1>4 DEF Activate
  <2>2. Activating = Stage(Steps) /\ a \notin Stage(Steps)
    BY <2>1 DEF Activating, Stage, Steps, Off
  <2>3. Cardinality(Activating) + 1 <= Cardinality(Admins)
    BY <2>2, RoomForOne
  <2>4. Peak(billingCrowd.activate, Cardinality(Activating) + 1) <= Cardinality(Admins)
    BY <2>3 DEF Peak, BillingBounds
  <2> QED BY <1>1, <1>3, <2>1, <2>4 DEF BillingBounds
<1>5. CASE PayRead(a)
  <2>1. /\ billing[a] = Off /\ plan' = plan
        /\ billingCrowd' = [billingCrowd EXCEPT !.pay = Peak(@, Cardinality(Paying) + 1)]
    BY <1>5 DEF PayRead
  <2>2. Paying = Stage({"pay"}) /\ a \notin Stage({"pay"})
    BY <2>1 DEF Paying, Stage, Off
  <2>3. Cardinality(Paying) + 1 <= Cardinality(Admins)
    BY <2>2, RoomForOne
  <2>4. Peak(billingCrowd.pay, Cardinality(Paying) + 1) <= Cardinality(Admins)
    BY <2>3 DEF Peak, BillingBounds
  <2> QED BY <1>1, <1>3, <2>1, <2>4 DEF BillingBounds
<1>6. CASE SetPlan(a)
  <2>1. plan' = billing[a].to /\ billing[a].op = "plan" /\ billingCrowd' = billingCrowd
    BY <1>6 DEF SetPlan
  <2>2. plan' \in Plans
    BY <1>1, <2>1, BillingCallInFlight DEF Steps
  <2> QED BY <1>3, <2>1, <2>2 DEF BillingBounds
<1>7. CASE ReplaceOld(a) \/ CreateSub(a) \/ BillingFails(a) \/ PayWrite(a)
  <2>1. UNCHANGED <<plan, billingCrowd>>
    BY <1>7 DEF ReplaceOld, CreateSub, BillingFails, PayWrite
  <2> QED BY <1>3, <2>1 DEF BillingBounds
<1> QED BY <1>4, <1>5, <1>6, <1>7

\* The increments.
LEMMA CounterKeepsBounds ==
  ASSUME BillingSound, BillingBounds, NEW c \in Counters,
         FindRecord(c) \/ UpdateRecord(c) \/ CreateRecord(c) \/ CounterFails(c)
  PROVE  BillingBounds'
<1>1. /\ BillingShapes /\ billingCrowd \in [activate : Nat, pay : Nat, count : Nat]
      /\ counted \in Nat /\ missed \in Nat /\ plan' = plan
  BY DEF BillingSound, BillingShapes, FindRecord, UpdateRecord, CreateRecord, CounterFails
<1>2. CASE FindRecord(c)
  <2>1. PICK next \in {"create", "update"} : counter' = [counter EXCEPT ![c] = next]
    BY <1>2 DEF FindRecord
  <2>2. /\ counter[c] = "idle" /\ counted' = counted /\ missed' = missed
        /\ billingCrowd' = [billingCrowd EXCEPT !.count = Peak(@, Cardinality(Counting) + 1)]
    BY <1>2 DEF FindRecord
  <2>3. Counting = Phase({"update", "create"}) /\ c \notin Phase({"update", "create"})
    BY <2>2 DEF Counting, Phase
  <2>4. Cardinality(Counting) + 1 <= Cardinality(Counters)
    BY <2>3, RoomForOne
  <2>5. Peak(billingCrowd.count, Cardinality(Counting) + 1) <= Cardinality(Counters)
    BY <2>4 DEF Peak, BillingBounds
  <2>6. Phase({"over"})' = Phase({"over"})
    BY <1>1, <2>1, <2>2 DEF Phase, BillingShapes
  <2> QED BY <1>1, <2>2, <2>5, <2>6 DEF BillingBounds
<1>3. CASE UpdateRecord(c) \/ CreateRecord(c) \/ CounterFails(c)
  <2>1. /\ counter[c] # "over" /\ counter' = [counter EXCEPT ![c] = "over"]
        /\ \/ counted' \in {counted, counted + 1} /\ missed' = missed
           \/ counted' = counted /\ missed' = missed + 1
        /\ billingCrowd' = billingCrowd
    BY <1>3 DEF UpdateRecord, CreateRecord, CounterFails
  <2>2. Cardinality(Phase({"over"})') = Cardinality(Phase({"over"})) + 1
    <3>1. Cardinality(Phase({"over"})') = Cardinality(Phase({"over"}))
            + (IF "over" \in {"over"} THEN 1 ELSE 0) - (IF counter[c] \in {"over"} THEN 1 ELSE 0)
      BY <1>1, <2>1, PhaseMoves
    <3> QED BY <2>1, <3>1, StageFinite
  <2>3. counted' + missed' <= Cardinality(Phase({"over"})')
    BY <1>1, <2>1, <2>2, StageFinite DEF BillingBounds
  <2> QED BY <1>1, <2>1, <2>3 DEF BillingBounds
<1> QED BY <1>2, <1>3

(* The tables of billing keep their types.                                     *)
THEOREM BillingTyping == BillingSpec => []BillingTypeOK
<1>1. BillingInit => BillingSound /\ BillingBounds
  <2> SUFFICES ASSUME BillingInit  PROVE BillingBounds
    BY BillingStarts
  <2> QED BY CrowdsFinite, StageFinite DEF BillingInit, BillingBounds
<1>2. BillingSound /\ BillingBounds /\ [BillingNext]_billingVars => (BillingSound /\ BillingBounds)'
  <2> SUFFICES ASSUME BillingSound, BillingBounds, [BillingNext]_billingVars  PROVE BillingBounds'
    BY BillingKeepsSound
  <2>1. CASE UNCHANGED billingVars
    BY <2>1 DEF billingVars, BillingBounds, Phase
  <2> QED BY <2>1, AdminKeepsBounds, CounterKeepsBounds DEF BillingNext
<1> QED BY <1>1, <1>2, BillingBoundsType, PTL DEF BillingSpec
===============================================================================
