---------------------------- MODULE ApprovalProofs ----------------------------
(***************************************************************************)
(* Proofs about ApprovalPortal, for any lines, links, customers and        *)
(* advisors.                                                               *)
(***************************************************************************)
EXTENDS ApprovalPortal, TLAPS

\* A request in flight is replaced by one its actor can carry.
LEMMA AwaitType ==
  ASSUME TypeOK, NEW r \in Customers \cup Advisors, NEW pending, Await(r, pending),
         r \in Customers => pending \in {Idle} \cup Answering \cup Deciding,
         r \in Advisors => pending \in {Idle} \cup Saving \cup Resetting \cup Removing
  PROVE  /\ req' \in [Customers \cup Advisors ->
                       {Idle} \cup Answering \cup Deciding \cup Saving \cup Resetting \cup Removing]
         /\ \A c \in Customers : req'[c] \in {Idle} \cup Answering \cup Deciding
         /\ \A a \in Advisors : req'[a] \in {Idle} \cup Saving \cup Resetting \cup Removing
BY PortalAssumption DEF TypeOK, Await

\* What a request in flight carries, by the statement it awaits.
LEMMA AnswerInFlight ==
  ASSUME TypeOK, NEW c \in Customers
  PROVE  /\ req[c].op \in {"check", "begin"} => req[c] \in Answering
         /\ req[c].op = "decide" => req[c] \in Deciding
<1>1. req[c] \in {Idle} \cup Answering \cup Deciding  BY DEF TypeOK
<1> QED BY <1>1 DEF Idle, Answering, Deciding

LEMMA EditInFlight ==
  ASSUME TypeOK, NEW a \in Advisors
  PROVE  /\ req[a].op = "save" => req[a] \in Saving
         /\ req[a].op = "reset" => req[a] \in Resetting
         /\ req[a].op = "remove" => req[a] \in Removing
<1>1. req[a] \in {Idle} \cup Saving \cup Resetting \cup Removing  BY DEF TypeOK
<1> QED BY <1>1 DEF Idle, Saving, Resetting, Removing

\* An answer maps some lines to verdicts.
LEMMA AnswerShape ==
  ASSUME NEW answer \in Answers
  PROVE  /\ DOMAIN answer \subseteq Lines
         /\ \A l \in DOMAIN answer : answer[l] \in Verdicts
BY DEF Answers

LEMMA RowsType ==
  ASSUME NEW t \in Links, NEW answer \in Answers
  PROVE  RowsOf(t, answer) \subseteq Decisions
BY AnswerShape DEF RowsOf, Decision, Decisions

\* The state of each line after a save.
LEMMA SavedLine ==
  ASSUME TypeOK, NEW a \in Advisors, CommitSave(a)
  PROVE  /\ line' \in [Lines -> LineStates]
         /\ req[a].body \cap Lines \subseteq Stored'
         /\ Stored \ req[a].delete \subseteq Stored'
         /\ \A l \in Lines : line'[l] = "detached" =>
              line[l] = "detached" \/ l \in req[a].detach
BY DEF CommitSave, Save, Put, TypeOK, LineStates, Stored

-----------------------------------------------------------------------------
(* Type correctness *)

LEMMA InitType == Init => TypeOK
BY PortalAssumption DEF Init, TypeOK, LineStates, Stored

LEMMA TypeStep == TypeOK /\ [Next]_vars => TypeOK'
<1> SUFFICES ASSUME TypeOK, [Next]_vars PROVE TypeOK'
  OBVIOUS
<1> USE PortalAssumption
<1> DEFINE Requests == {Idle} \cup Answering \cup Deciding \cup Saving \cup Resetting \cup Removing
           ReqOK == /\ req \in [Customers \cup Advisors -> Requests]
                    /\ \A c \in Customers : req[c] \in {Idle} \cup Answering \cup Deciding
                    /\ \A a \in Advisors : req[a] \in {Idle} \cup Saving \cup Resetting \cup Removing
<1>1. ASSUME NEW t \in Links, IssueLink(t) \/ ExpireLink(t) PROVE TypeOK'
  BY <1>1 DEF IssueLink, ExpireLink, TypeOK, Stored
<1>2. ASSUME NEW c \in Customers, NEW t \in Links, NEW answer \in Answers,
             OpenLink(c, t, answer)
      PROVE  TypeOK'
  <2>1. [op |-> "check", link |-> t, answer |-> answer] \in Answering
    BY DEF Answering
  <2>2. ReqOK'  BY <1>2, <2>1, AwaitType DEF OpenLink
  <2> QED BY <1>2, <2>2 DEF OpenLink, TypeOK, Stored
<1>3. ASSUME NEW c \in Customers, CheckUndecided(c) PROVE TypeOK'
  <2>1. req[c] \in Answering  BY <1>3, AnswerInFlight DEF CheckUndecided
  <2>2. [req[c] EXCEPT !.op = "begin"] \in Answering  BY <2>1 DEF Answering
  <2>3. ReqOK'  BY <1>3, <2>2, AwaitType DEF CheckUndecided
  <2> QED BY <1>3, <2>3 DEF CheckUndecided, TypeOK, Stored
<1>4. ASSUME NEW c \in Customers, BeginDecide(c) PROVE TypeOK'
  <2>1. req[c] \in Answering  BY <1>4, AnswerInFlight DEF BeginDecide
  <2>2. req[c].answer \in Answers /\ req[c].link \in Links  BY <2>1 DEF Answering
  <2>3. NeedWork(req[c].answer) \in SUBSET Lines  BY <2>2, AnswerShape DEF NeedWork
  <2>4. [op |-> "decide", link |-> req[c].link, answer |-> req[c].answer,
         work |-> NeedWork(req[c].answer)] \in Deciding
    BY <2>2, <2>3 DEF Deciding
  <2>5. ReqOK'  BY <1>4, <2>4, AwaitType DEF BeginDecide
  <2> QED BY <1>4, <2>5 DEF BeginDecide, TypeOK, Stored
<1>5. ASSUME NEW c \in Customers, CommitDecide(c) PROVE TypeOK'
  <2>1. req[c] \in Deciding  BY <1>5, AnswerInFlight DEF CommitDecide
  <2>2. req[c].answer \in Answers /\ req[c].link \in Links  BY <2>1 DEF Deciding
  <2>3. decided' \subseteq Decisions  BY <1>5, <2>2, RowsType DEF CommitDecide, TypeOK
  <2>4. work' \in [Lines -> Nat]  BY <1>5 DEF CommitDecide, TypeOK
  <2>5. used' \subseteq Links  BY <1>5, <2>2 DEF CommitDecide, TypeOK
  <2>6. ReqOK'  BY <1>5, AwaitType DEF CommitDecide
  <2> QED BY <1>5, <2>3, <2>4, <2>5, <2>6 DEF CommitDecide, TypeOK, Stored
<1>6. ASSUME NEW a \in Advisors, ReadConcernLines(a) PROVE TypeOK'
  <2>1. [op |-> "reset", lines |-> inConcern] \in Resetting
    BY DEF Resetting, TypeOK, Stored
  <2>2. ReqOK'  BY <1>6, <2>1, AwaitType DEF ReadConcernLines
  <2> QED BY <1>6, <2>2 DEF ReadConcernLines, TypeOK, Stored
<1>7. ASSUME NEW a \in Advisors, ResetConcern(a) PROVE TypeOK'
  <2>1. ReqOK'  BY <1>7, AwaitType DEF ResetConcern
  <2> QED BY <1>7, <2>1 DEF ResetConcern, TypeOK, Stored
<1>8. ASSUME NEW a \in Advisors, UnlinkConcern(a) PROVE TypeOK'
  <2>1. [op |-> "remove"] \in Removing  BY DEF Removing
  <2>2. ReqOK'  BY <1>8, <2>1, AwaitType DEF UnlinkConcern
  <2> QED BY <1>8, <2>2 DEF UnlinkConcern, TypeOK, Stored
<1>9. ASSUME NEW a \in Advisors, DeleteConcern(a) PROVE TypeOK'
  <2>1. ReqOK'  BY <1>9, AwaitType DEF DeleteConcern
  <2> QED BY <1>9, <2>1 DEF DeleteConcern, TypeOK, Stored
<1>10. ASSUME NEW a \in Advisors, NEW l \in Lines, NEW under \in BOOLEAN, AddLine(a, l, under)
       PROVE  TypeOK'
  BY <1>10 DEF AddLine, TypeOK, Stored, LineStates
<1>11. ASSUME NEW a \in Advisors, NEW l \in Lines, EditLine(a, l) \/ LinkPart(a, l)
       PROVE  TypeOK'
  BY <1>11 DEF EditLine, LinkPart, TypeOK, Stored, Active
<1>12. ASSUME NEW a \in Advisors, NEW l \in Lines, RemoveLine(a, l) PROVE TypeOK'
  BY <1>12 DEF RemoveLine, TypeOK, Stored, LineStates, Referenced
<1>13. ASSUME NEW a \in Advisors, NEW body \in SUBSET Lines, NEW under \in SUBSET body,
              ReadForSave(a, body, under)
       PROVE  TypeOK'
  <2>1. [op |-> "save", body |-> body, under |-> under, new |-> body \ Active,
         detach |-> (Active \ body) \cap Referenced,
         delete |-> (Active \ body) \ Referenced] \in Saving
    BY DEF Saving, Active
  <2>2. ReqOK'  BY <1>13, <2>1, AwaitType DEF ReadForSave
  <2> QED BY <1>13, <2>2 DEF ReadForSave, TypeOK, Stored
<1>14. ASSUME NEW a \in Advisors, CommitSave(a) PROVE TypeOK'
  <2>1. req[a] \in Saving  BY <1>14, EditInFlight DEF CommitSave
  <2>2. req[a].body \subseteq Lines /\ req[a].under \subseteq req[a].body
    BY <2>1 DEF Saving
  <2>3. line' \in [Lines -> LineStates]
    BY <1>14, SavedLine, <2>2 DEF CommitSave, Save, TypeOK, LineStates
  <2>4. Stored \ req[a].delete \subseteq Stored' /\ req[a].body \subseteq Stored'
    BY <1>14, <2>2, SavedLine
  <2>5. inConcern' \subseteq Stored'
    BY <1>14, <2>2, <2>4 DEF CommitSave, Save, TypeOK
  <2>6. edited' \subseteq Stored'
    BY <1>14, <2>4 DEF CommitSave, TypeOK, Referenced
  <2>7. ReqOK'  BY <1>14, AwaitType DEF CommitSave
  <2> QED BY <1>14, <2>3, <2>5, <2>6, <2>7 DEF CommitSave, TypeOK
<1>15. ASSUME NEW r \in Customers \cup Advisors, Fail(r) PROVE TypeOK'
  <2>1. ReqOK'  BY <1>15, AwaitType DEF Fail
  <2> QED BY <1>15, <2>1 DEF Fail, TypeOK, Stored
<1>16. CASE UNCHANGED vars
  BY <1>16 DEF vars, TypeOK, Stored
<1> QED
  BY <1>1, <1>2, <1>3, <1>4, <1>5, <1>6, <1>7, <1>8, <1>9, <1>10, <1>11, <1>12, <1>13,
     <1>14, <1>15, <1>16 DEF Next

\* Every column and every request in flight of the portal keeps its type.
THEOREM Typing == Spec => []TypeOK
BY InitType, TypeStep, PTL DEF Spec

-----------------------------------------------------------------------------
(* What a step changes *)

\* Decisions and deferred work change with an answer or a reset only.
LEMMA DecisionSteps ==
  ASSUME [Next]_vars
  PROVE  \/ UNCHANGED <<decided, work>>
         \/ \E c \in Customers : CommitDecide(c)
         \/ \E a \in Advisors : ResetConcern(a)
BY DEF Next, vars, IssueLink, ExpireLink, OpenLink, CheckUndecided, BeginDecide,
       ReadConcernLines, UnlinkConcern, DeleteConcern, AddLine, EditLine, LinkPart,
       RemoveLine, ReadForSave, CommitSave, Fail

\* A customer's request moves in decideFromPortal, or ends.
LEMMA CustomerSteps ==
  ASSUME TypeOK, [Next]_vars, NEW c \in Customers
  PROVE  \/ req'[c] = req[c]
         \/ req'[c] = Idle
         \/ req'[c].op = "check"
         \/ CheckUndecided(c)
         \/ BeginDecide(c)
<1> USE PortalAssumption DEF TypeOK, Await
<1>1. ASSUME NEW t \in Links, IssueLink(t) \/ ExpireLink(t) PROVE req'[c] = req[c]
  BY <1>1 DEF IssueLink, ExpireLink
<1>2. ASSUME NEW d \in Customers, NEW t \in Links, NEW answer \in Answers, OpenLink(d, t, answer)
      PROVE  req'[c] = req[c] \/ req'[c].op = "check"
  BY <1>2 DEF OpenLink
<1>3. ASSUME NEW d \in Customers, CheckUndecided(d) PROVE req'[c] = req[c] \/ CheckUndecided(c)
  BY <1>3 DEF CheckUndecided
<1>4. ASSUME NEW d \in Customers, BeginDecide(d) PROVE req'[c] = req[c] \/ BeginDecide(c)
  BY <1>4 DEF BeginDecide
<1>5. ASSUME NEW d \in Customers, CommitDecide(d) PROVE req'[c] = req[c] \/ req'[c] = Idle
  BY <1>5 DEF CommitDecide
<1>6. ASSUME NEW a \in Advisors,
             \/ ReadConcernLines(a) \/ ResetConcern(a) \/ UnlinkConcern(a) \/ DeleteConcern(a)
             \/ \E l \in Lines : AddLine(a, l, TRUE) \/ AddLine(a, l, FALSE)
             \/ \E l \in Lines : EditLine(a, l) \/ LinkPart(a, l) \/ RemoveLine(a, l)
             \/ \E body \in SUBSET Lines : \E under \in SUBSET body : ReadForSave(a, body, under)
             \/ CommitSave(a)
      PROVE  req'[c] = req[c]
  BY <1>6 DEF ReadConcernLines, ResetConcern, UnlinkConcern, DeleteConcern, AddLine, EditLine,
              LinkPart, RemoveLine, ReadForSave, CommitSave
<1>7. ASSUME NEW r \in Customers \cup Advisors, Fail(r) PROVE req'[c] = req[c] \/ req'[c] = Idle
  BY <1>7 DEF Fail
<1>8. CASE UNCHANGED vars  BY <1>8 DEF vars
<1> QED BY <1>1, <1>2, <1>3, <1>4, <1>5, <1>6, <1>7, <1>8 DEF Next

-----------------------------------------------------------------------------
(* Refused lines are followed up *)

\* An answer about to be committed brings the deferred work of each line it
\* refuses, or the line has it.
WorkPlanned ==
  \A c \in Customers : req[c].op = "decide" =>
    \A l \in DOMAIN req[c].answer :
      req[c].answer[l] \in Refusals => l \in req[c].work \/ work[l] > 0

FollowInv == TypeOK /\ WorkPlanned /\ RefusalsFollowedUp

LEMMA WorkStays ==
  ASSUME TypeOK, [Next]_vars
  PROVE  \A l \in Lines : work[l] > 0 => work'[l] > 0
<1>1. ASSUME NEW c \in Customers, CommitDecide(c)
      PROVE  \A l \in Lines : work[l] > 0 => work'[l] > 0
  BY <1>1 DEF CommitDecide, TypeOK
<1>2. ASSUME NEW a \in Advisors, ResetConcern(a) PROVE work' = work
  BY <1>2 DEF ResetConcern
<1> QED BY <1>1, <1>2, DecisionSteps

LEMMA FollowStep == FollowInv /\ [Next]_vars => FollowInv'
<1> SUFFICES ASSUME FollowInv, [Next]_vars PROVE FollowInv'
  OBVIOUS
<1> USE DEF FollowInv
<1>1. TypeOK'  BY TypeStep
<1>2. WorkPlanned'
  <2> SUFFICES ASSUME NEW c \in Customers, req'[c].op = "decide",
                      NEW l \in DOMAIN req'[c].answer, req'[c].answer[l] \in Refusals
               PROVE  l \in req'[c].work \/ work'[l] > 0
    BY DEF WorkPlanned
  <2>1. CASE req'[c] = req[c]
    <3>1. l \in Lines  BY <2>1, AnswerInFlight, AnswerShape DEF Deciding
    <3> QED BY <2>1, <3>1, WorkStays DEF WorkPlanned
  <2>2. CASE BeginDecide(c)
    <3>1. req[c] \in Answering  BY <2>2, AnswerInFlight DEF BeginDecide
    <3>2. req'[c].answer = req[c].answer /\ req'[c].work = NeedWork(req[c].answer) /\ work' = work
      BY <2>2 DEF BeginDecide, Await, TypeOK
    <3>3. l \in Lines  BY <3>1, <3>2, AnswerShape DEF Answering
    <3> QED BY <3>2, <3>3 DEF NeedWork, TypeOK
  <2>3. CASE CheckUndecided(c)
    BY <2>3 DEF CheckUndecided, Await, TypeOK, Idle
  <2> QED BY <2>1, <2>2, <2>3, CustomerSteps DEF Idle
<1>3. RefusalsFollowedUp'
  <2>1. CASE UNCHANGED <<decided, work>>
    BY <2>1 DEF RefusalsFollowedUp
  <2>2. ASSUME NEW c \in Customers, CommitDecide(c) PROVE RefusalsFollowedUp'
    <3> SUFFICES ASSUME NEW d \in decided', d.verdict \in Refusals PROVE work'[d.line] > 0
      BY DEF RefusalsFollowedUp
    <3>1. req[c] \in Deciding  BY <2>2, AnswerInFlight DEF CommitDecide
    <3>2. CASE d \in decided
      BY <3>2, WorkStays DEF RefusalsFollowedUp, TypeOK, Decisions
    <3>3. CASE d \in RowsOf(req[c].link, req[c].answer)
      <4>1. PICK l \in DOMAIN req[c].answer : d = Decision(req[c].link, l, req[c].answer[l])
        BY <3>3 DEF RowsOf
      <4>2. l \in Lines /\ d.line = l /\ req[c].answer[l] \in Refusals
        BY <3>1, <4>1, AnswerShape DEF Deciding, Decision
      <4> QED BY <2>2, <4>2 DEF WorkPlanned, CommitDecide, TypeOK
    <3> QED BY <2>2, <3>2, <3>3 DEF CommitDecide
  <2>3. ASSUME NEW a \in Advisors, ResetConcern(a) PROVE RefusalsFollowedUp'
    BY <2>3 DEF ResetConcern, RefusalsFollowedUp
  <2> QED BY <2>1, <2>2, <2>3, DecisionSteps
<1> QED BY <1>1, <1>2, <1>3

\* Whatever answers, resets and saves interleave, a line that a customer
\* declined or deferred has a deferred_work row.
THEOREM RefusedIsFollowed == Spec => []RefusalsFollowedUp
<1>1. Init => FollowInv
  BY InitType, PortalAssumption DEF Init, FollowInv, WorkPlanned, RefusalsFollowedUp, Idle
<1>2. FollowInv => RefusalsFollowedUp  BY DEF FollowInv
<1> QED BY <1>1, <1>2, FollowStep, PTL DEF Spec

-----------------------------------------------------------------------------
(* With one answer in flight at a time *)

OneCustomer == \A c, d \in Customers : c = d

\* What the check found still holds when the answer is committed: no line of
\* it is decided, and the lines it brings deferred work for are refused and have
\* none.
CheckHolds ==
  \A c \in Customers :
    /\ req[c].op \in {"begin", "decide"} => Decided \cap DOMAIN req[c].answer = {}
    /\ req[c].op = "decide" => \A l \in req[c].work :
         work[l] = 0 /\ l \in DOMAIN req[c].answer /\ req[c].answer[l] \in Refusals

FinalInv == TypeOK /\ CheckHolds /\ DecidedOnce /\ FollowedUpOnce

\* The lines decided after an answer and after a reset.
LEMMA DecidedAfter ==
  ASSUME TypeOK
  PROVE  /\ \A c \in Customers :
               CommitDecide(c) => Decided' = Decided \cup DOMAIN req[c].answer
         /\ \A a \in Advisors : ResetConcern(a) => Decided' \subseteq Decided
<1>1. ASSUME NEW c \in Customers, CommitDecide(c)
      PROVE  Decided' = Decided \cup DOMAIN req[c].answer
  <2> DEFINE R == RowsOf(req[c].link, req[c].answer)
  <2>1. \A d \in R : d.line \in DOMAIN req[c].answer
    BY DEF RowsOf, Decision
  <2>2. ASSUME NEW l \in DOMAIN req[c].answer PROVE \E d \in R : d.line = l
    <3>1. Decision(req[c].link, l, req[c].answer[l]) \in R  BY DEF RowsOf
    <3>2. Decision(req[c].link, l, req[c].answer[l]).line = l  BY DEF Decision
    <3> QED BY <3>1, <3>2
  <2>3. decided' = decided \cup R  BY <1>1 DEF CommitDecide
  <2> HIDE DEF R
  <2>4. Decided' \subseteq Decided \cup DOMAIN req[c].answer
    BY <2>1, <2>3 DEF Decided
  <2>5. Decided \cup DOMAIN req[c].answer \subseteq Decided'
    BY <2>2, <2>3 DEF Decided
  <2> QED BY <2>4, <2>5
<1>2. ASSUME NEW a \in Advisors, ResetConcern(a) PROVE Decided' \subseteq Decided
  BY <1>2 DEF ResetConcern, Decided
<1> QED BY <1>1, <1>2

LEMMA FinalStep ==
  ASSUME OneCustomer
  PROVE  FinalInv /\ [Next]_vars => FinalInv'
<1> SUFFICES ASSUME FinalInv, [Next]_vars PROVE FinalInv'
  OBVIOUS
<1> USE DEF FinalInv
<1>1. TypeOK'  BY TypeStep
<1>2. CheckHolds'
  <2> SUFFICES ASSUME NEW c \in Customers, req'[c].op \in {"begin", "decide"}
               PROVE  /\ Decided' \cap DOMAIN req'[c].answer = {}
                      /\ req'[c].op = "decide" => \A l \in req'[c].work :
                           /\ work'[l] = 0
                           /\ l \in DOMAIN req'[c].answer /\ req'[c].answer[l] \in Refusals
    BY DEF CheckHolds
  <2>1. ~CommitDecide(c)
    BY DEF CommitDecide, Await, TypeOK, Idle
  <2>2. \A d \in Customers : ~CommitDecide(d)
    BY <2>1 DEF OneCustomer
  <2>3. work' = work /\ Decided' \subseteq Decided
    <3>1. CASE UNCHANGED <<decided, work>>  BY <3>1 DEF Decided
    <3>2. ASSUME NEW a \in Advisors, ResetConcern(a)
          PROVE  work' = work /\ Decided' \subseteq Decided
      BY <3>2, DecidedAfter DEF ResetConcern
    <3> QED BY <2>2, <3>1, <3>2, DecisionSteps
  <2>4. CASE req'[c] = req[c]
    BY <2>3, <2>4 DEF CheckHolds
  <2>5. CASE CheckUndecided(c)
    <3>1. Decided \cap DOMAIN req[c].answer = {} /\ req'[c] = [req[c] EXCEPT !.op = "begin"]
      BY <2>5 DEF CheckUndecided, Await, TypeOK, Idle
    <3>2. req[c] \in Answering  BY <2>5, AnswerInFlight DEF CheckUndecided
    <3>3. req'[c].answer = req[c].answer /\ req'[c].op = "begin"
      BY <3>1, <3>2 DEF Answering
    <3> QED BY <2>3, <3>1, <3>3
  <2>6. CASE BeginDecide(c)
    <3>1. req[c].op = "begin" /\ req'[c].answer = req[c].answer
          /\ req'[c].work = NeedWork(req[c].answer)
      BY <2>6 DEF BeginDecide, Await, TypeOK
    <3> QED BY <2>3, <3>1 DEF CheckHolds, NeedWork
  <2> QED BY <2>4, <2>5, <2>6, CustomerSteps DEF Idle
<1>3. DecidedOnce'
  <2>1. CASE UNCHANGED <<decided, work>>  BY <2>1 DEF DecidedOnce
  <2>2. ASSUME NEW c \in Customers, CommitDecide(c) PROVE DecidedOnce'
    <3>1. \A d \in decided : d.line \notin DOMAIN req[c].answer
      BY <2>2 DEF CheckHolds, CommitDecide, Decided
    <3>2. \A d \in RowsOf(req[c].link, req[c].answer) :
            d.line \in DOMAIN req[c].answer
            /\ d = Decision(req[c].link, d.line, req[c].answer[d.line])
      BY DEF RowsOf, Decision
    <3> QED BY <2>2, <3>1, <3>2 DEF CommitDecide, DecidedOnce
  <2>3. ASSUME NEW a \in Advisors, ResetConcern(a) PROVE DecidedOnce'
    BY <2>3 DEF ResetConcern, DecidedOnce
  <2> QED BY <2>1, <2>2, <2>3, DecisionSteps
<1>4. FollowedUpOnce'
  <2>1. CASE UNCHANGED <<decided, work>>  BY <2>1 DEF FollowedUpOnce
  <2>2. ASSUME NEW c \in Customers, CommitDecide(c) PROVE FollowedUpOnce'
    <3>1. \A l \in req[c].work : work[l] = 0  BY <2>2 DEF CheckHolds, CommitDecide
    <3> QED BY <2>2, <3>1 DEF CommitDecide, FollowedUpOnce, TypeOK
  <2>3. ASSUME NEW a \in Advisors, ResetConcern(a) PROVE FollowedUpOnce'
    BY <2>3 DEF ResetConcern, FollowedUpOnce
  <2> QED BY <2>1, <2>2, <2>3, DecisionSteps
<1> QED BY <1>1, <1>2, <1>3, <1>4

LEMMA InitFinal == Init => FinalInv
BY InitType, PortalAssumption
   DEF Init, FinalInv, CheckHolds, DecidedOnce, FollowedUpOnce, Decided, Idle

\* With one answer in flight at a time no line is decided twice, whatever the
\* advisor does meanwhile and however many links there are.
THEOREM LineDecidedOnce ==
  ASSUME OneCustomer
  PROVE  Spec => []DecidedOnce
<1>1. FinalInv => DecidedOnce  BY DEF FinalInv
<1> QED BY <1>1, InitFinal, FinalStep, PTL DEF Spec

\* Nor is it followed up twice, even when it is answered again after a reset.
THEOREM LineFollowedOnce ==
  ASSUME OneCustomer
  PROVE  Spec => []FollowedUpOnce
<1>1. FinalInv => FollowedUpOnce  BY DEF FinalInv
<1> QED BY <1>1, InitFinal, FinalStep, PTL DEF Spec

-----------------------------------------------------------------------------
(* The portal implements LineAnswers *)

LEMMA PromiseInit == Init => Promise!Init
BY DEF Init, Promise!Init, AnswerPairs, FollowedLines

\* A committed answer is an abstract answer to open lines.
LEMMA AnswerRefines ==
  ASSUME FinalInv, FollowInv, NEW c \in Customers, CommitDecide(c)
  PROVE  Promise!Next
<1> DEFINE answer == req[c].answer
           R == RowsOf(req[c].link, answer)
<1>1. req[c] \in Deciding  BY AnswerInFlight DEF CommitDecide, FinalInv
<1>2. answer \in Answers /\ DOMAIN answer \in SUBSET Lines
  BY <1>1, AnswerShape DEF Deciding
<1>3. answer \in [DOMAIN answer -> Promise!Verdicts]
  BY <1>2 DEF Answers, Verdicts, Promise!Verdicts
<1>4. DOMAIN answer \cap Promise!Answered = {}
  <2>1. Decided \cap DOMAIN answer = {}  BY DEF FinalInv, CheckHolds, CommitDecide
  <2>2. \A p \in AnswerPairs : p[1] \in Decided  BY DEF AnswerPairs, Decided
  <2> QED BY <2>1, <2>2 DEF Promise!Answered
<1>5. AnswerPairs' = AnswerPairs \cup {<<l, answer[l]>> : l \in DOMAIN answer}
  <2>1. decided' = decided \cup R  BY DEF CommitDecide
  <2>2. {<<d.line, d.verdict>> : d \in R} = {<<l, answer[l]>> : l \in DOMAIN answer}
    <3>1. ASSUME NEW d \in R PROVE \E l \in DOMAIN answer : <<d.line, d.verdict>> = <<l, answer[l]>>
      BY DEF RowsOf, Decision
    <3>2. ASSUME NEW l \in DOMAIN answer
          PROVE  \E d \in R : <<l, answer[l]>> = <<d.line, d.verdict>>
      <4>1. Decision(req[c].link, l, answer[l]) \in R  BY DEF RowsOf
      <4>2. /\ Decision(req[c].link, l, answer[l]).line = l
            /\ Decision(req[c].link, l, answer[l]).verdict = answer[l]
        BY DEF Decision
      <4> QED BY <4>1, <4>2
    <3> HIDE DEF R, answer
    <3> QED BY <3>1, <3>2
  <2> HIDE DEF R, answer
  <2> QED BY <2>1, <2>2 DEF AnswerPairs
<1>6. FollowedLines' = FollowedLines \cup {l \in DOMAIN answer : answer[l] \in Promise!Refusals}
  <2>1. work' = [l \in Lines |-> IF l \in req[c].work THEN work[l] + 1 ELSE work[l]]
    BY DEF CommitDecide
  <2>2. \A l \in req[c].work : l \in DOMAIN answer /\ answer[l] \in Refusals
    BY DEF FinalInv, CheckHolds, CommitDecide
  <2>3. \A l \in DOMAIN answer : answer[l] \in Refusals => l \in req[c].work \/ work[l] > 0
    BY DEF FollowInv, WorkPlanned, CommitDecide
  <2>4. \A l \in Lines : work[l] \in Nat  BY DEF FinalInv, TypeOK
  <2>5. \A l \in Lines : l \in FollowedLines' <=> l \in FollowedLines \/ l \in req[c].work
    BY <2>1, <2>4 DEF FollowedLines
  <2>6. FollowedLines \subseteq Lines /\ FollowedLines' \subseteq Lines  BY DEF FollowedLines
  <2>7. \A l \in DOMAIN answer :
          answer[l] \in Refusals => l \in FollowedLines \/ l \in req[c].work
    BY <1>2, <2>3 DEF FollowedLines
  <2> HIDE DEF answer
  <2> QED BY <1>2, <2>2, <2>5, <2>6, <2>7 DEF Refusals, Promise!Refusals
<1>7. Promise!Answer(DOMAIN answer, answer)
  BY <1>4, <1>5, <1>6 DEF Promise!Answer
<1> QED BY <1>2, <1>3, <1>7 DEF Promise!Next

\* A reset asks again about the lines it read.
LEMMA ResetRefines ==
  ASSUME TypeOK, NEW a \in Advisors, ResetConcern(a)
  PROVE  Promise!Next
<1>1. req[a].lines \in SUBSET Lines
  BY EditInFlight DEF ResetConcern, Resetting
<1>2. AnswerPairs' = {p \in AnswerPairs : p[1] \notin req[a].lines}
  BY DEF ResetConcern, AnswerPairs
<1>3. FollowedLines' = FollowedLines
  BY DEF ResetConcern, FollowedLines
<1>4. Promise!AskAgain(req[a].lines)
  BY <1>2, <1>3 DEF Promise!AskAgain
<1> QED BY <1>1, <1>4 DEF Promise!Next

\* With one answer in flight at a time the portal keeps the promise made of its
\* lines: every step is an answer to open lines, a question asked again, or
\* nothing.
THEOREM PortalKeepsPromise ==
  ASSUME OneCustomer
  PROVE  Spec => ImplementsPromise
<1>1. FinalInv /\ FollowInv /\ [Next]_vars => [Promise!Next]_(Promise!vars)
  <2> SUFFICES ASSUME FinalInv, FollowInv, [Next]_vars
               PROVE  Promise!Next \/ UNCHANGED Promise!vars
    OBVIOUS
  <2>1. CASE UNCHANGED <<decided, work>>
    BY <2>1 DEF Promise!vars, AnswerPairs, FollowedLines
  <2> QED BY <2>1, AnswerRefines, ResetRefines, DecisionSteps DEF FinalInv
<1>2. Init => FollowInv
  BY InitFinal, PortalAssumption
     DEF Init, FinalInv, FollowInv, WorkPlanned, RefusalsFollowedUp, Idle
<1> QED BY <1>1, <1>2, InitFinal, FinalStep, FollowStep, PromiseInit, PTL
        DEF Spec, ImplementsPromise, Promise!Spec

-----------------------------------------------------------------------------
(* With one advisor at a time *)

OneAdvisor == \A a, b \in Advisors : a = b

\* What the advisor read is still so: the lines to reset are under the concern
\* and those a save detaches are referred to.  A detached line that an edit put
\* under the concern has a history.
AdvisorInv ==
  /\ TypeOK
  /\ \A a \in Advisors :
       /\ req[a].op = "reset" => req[a].lines \subseteq inConcern
       /\ req[a].op = "save" => req[a].detach \subseteq Referenced
  /\ \A l \in inConcern : line[l] = "detached" => l \in edited
  /\ DetachedHasReason

\* An advisor's request starts with a read; the lines it reads stay as they are
\* until it ends.
LEMMA AdvisorSteps ==
  ASSUME TypeOK, OneAdvisor, [Next]_vars, NEW a \in Advisors
  PROVE  \/ req'[a] = Idle
         \/ req'[a].op = "remove"
         \/ ReadConcernLines(a)
         \/ \E body \in SUBSET Lines : \E under \in SUBSET body : ReadForSave(a, body, under)
         \/ /\ req'[a] = req[a] /\ decided \subseteq decided'
            /\ UNCHANGED <<line, inConcern, edited>>
<1> USE PortalAssumption DEF TypeOK, Await
<1> DEFINE Same == /\ req'[a] = req[a] /\ decided \subseteq decided'
                   /\ UNCHANGED <<line, inConcern, edited>>
<1>1. ASSUME NEW t \in Links, IssueLink(t) \/ ExpireLink(t) PROVE Same
  BY <1>1 DEF IssueLink, ExpireLink
<1>2. ASSUME NEW c \in Customers,
             \/ \E t \in Links, answer \in Answers : OpenLink(c, t, answer)
             \/ CheckUndecided(c) \/ BeginDecide(c) \/ CommitDecide(c)
      PROVE  Same
  BY <1>2 DEF OpenLink, CheckUndecided, BeginDecide, CommitDecide
<1>3. ASSUME NEW b \in Advisors, ResetConcern(b) \/ DeleteConcern(b) \/ CommitSave(b)
      PROVE  req'[a] = Idle
  BY <1>3 DEF OneAdvisor, ResetConcern, DeleteConcern, CommitSave
<1>4. ASSUME NEW b \in Advisors, UnlinkConcern(b) PROVE req'[a].op = "remove"
  BY <1>4 DEF OneAdvisor, UnlinkConcern
<1>5. ASSUME NEW b \in Advisors, NEW l \in Lines,
             AddLine(b, l, TRUE) \/ AddLine(b, l, FALSE) \/ EditLine(b, l)
             \/ LinkPart(b, l) \/ RemoveLine(b, l)
      PROVE  req'[a] = Idle
  BY <1>5 DEF OneAdvisor, AddLine, EditLine, LinkPart, RemoveLine, Free
<1>6. ASSUME NEW r \in Customers \cup Advisors, Fail(r) PROVE req'[a] = Idle \/ Same
  BY <1>6 DEF Fail
<1>7. CASE UNCHANGED vars  BY <1>7 DEF vars
<1>8. \A b \in Advisors : b = a  BY DEF OneAdvisor
<1> HIDE DEF Same
<1> QED BY <1>1, <1>2, <1>3, <1>4, <1>5, <1>6, <1>7, <1>8 DEF Next, Same

\* What is referred to goes only by a reset.
LEMMA ReferencesStay ==
  ASSUME TypeOK, [Next]_vars
  PROVE  /\ edited \subseteq edited'
         /\ decided \subseteq decided' => Referenced \subseteq Referenced'
         /\ (\A a \in Advisors : ~ResetConcern(a)) => decided \subseteq decided'
<1>1. edited \subseteq edited'
  BY DEF Next, vars, IssueLink, ExpireLink, OpenLink, CheckUndecided, BeginDecide, CommitDecide,
         ReadConcernLines, ResetConcern, UnlinkConcern, DeleteConcern, AddLine, EditLine,
         LinkPart, RemoveLine, ReadForSave, CommitSave, Fail
<1>2. ASSUME decided \subseteq decided' PROVE Decided \subseteq Decided'
  BY <1>2 DEF Decided
<1>3. (\A a \in Advisors : ~ResetConcern(a)) => decided \subseteq decided'
  BY DecisionSteps DEF CommitDecide
<1> QED BY <1>1, <1>2, <1>3, WorkStays DEF Referenced

\* What a reset removes was decided about lines under the concern.
LEMMA ResetOwnLines ==
  ASSUME AdvisorInv, [Next]_vars
  PROVE  \A d \in decided \ decided' : d.line \in inConcern
<1>1. ASSUME NEW a \in Advisors, ResetConcern(a)
      PROVE  \A d \in decided \ decided' : d.line \in inConcern
  BY <1>1 DEF ResetConcern, AdvisorInv
<1> QED BY <1>1, ReferencesStay DEF AdvisorInv

\* A line is detached by a save, and then it is referred to and under no concern;
\* a detached line comes under the concern by an edit only.
LEMMA LineSteps ==
  ASSUME AdvisorInv, [Next]_vars, NEW l \in Lines, line'[l] = "detached"
  PROVE  /\ line[l] = "detached" \/ (l \in Referenced /\ l \notin inConcern')
         /\ l \in inConcern' => l \in inConcern \/ l \in edited'
<1> USE DEF AdvisorInv
<1> DEFINE Concl == /\ line[l] = "detached" \/ (l \in Referenced /\ l \notin inConcern')
                    /\ l \in inConcern' => l \in inConcern \/ l \in edited'
<1>1. CASE UNCHANGED line /\ inConcern' \subseteq inConcern
  BY <1>1
<1>2. ASSUME NEW a \in Advisors, NEW k \in Lines, NEW under \in BOOLEAN, AddLine(a, k, under)
      PROVE  Concl
  BY <1>2 DEF AddLine, TypeOK
<1>3. ASSUME NEW a \in Advisors, NEW k \in Lines, EditLine(a, k) \/ LinkPart(a, k) PROVE Concl
  BY <1>3 DEF EditLine, LinkPart, Active, TypeOK
<1>4. ASSUME NEW a \in Advisors, NEW k \in Lines, RemoveLine(a, k) PROVE Concl
  BY <1>4 DEF RemoveLine, TypeOK
<1>5. ASSUME NEW a \in Advisors, CommitSave(a) PROVE Concl
  <2>1. req[a] \in Saving  BY <1>5, EditInFlight DEF CommitSave
  <2>2. req[a].under \subseteq req[a].body /\ req[a].body \subseteq Lines
    BY <2>1 DEF Saving
  <2>3. l \notin req[a].body
    BY <1>5 DEF CommitSave, Save, Put, TypeOK
  <2>4. line[l] = "detached" \/ l \in req[a].detach
    BY <1>5, SavedLine
  <2>5. req[a].detach \subseteq Referenced
    BY <1>5 DEF CommitSave
  <2>6. inConcern' = (inConcern \ (req[a].body \cup req[a].detach \cup req[a].delete)) \cup req[a].under
    BY <1>5 DEF CommitSave, Save
  <2> QED BY <2>2, <2>3, <2>4, <2>5, <2>6
<1>6. \/ UNCHANGED line /\ inConcern' \subseteq inConcern
      \/ \E a \in Advisors :
           \/ \E k \in Lines : \E under \in BOOLEAN : AddLine(a, k, under)
           \/ \E k \in Lines : EditLine(a, k) \/ LinkPart(a, k) \/ RemoveLine(a, k)
           \/ CommitSave(a)
  BY DEF Next, vars, IssueLink, ExpireLink, OpenLink, CheckUndecided, BeginDecide, CommitDecide,
         ReadConcernLines, ResetConcern, UnlinkConcern, DeleteConcern, ReadForSave, Fail
<1> HIDE DEF Concl
<1> QED BY <1>1, <1>2, <1>3, <1>4, <1>5, <1>6 DEF Concl

LEMMA AdvisorStep ==
  ASSUME OneAdvisor
  PROVE  AdvisorInv /\ [Next]_vars => AdvisorInv'
<1> SUFFICES ASSUME AdvisorInv, [Next]_vars PROVE AdvisorInv'
  OBVIOUS
<1>1. TypeOK /\ TypeOK'  BY TypeStep DEF AdvisorInv
<1>2. ASSUME NEW a \in Advisors
      PROVE  /\ req'[a].op = "reset" => req'[a].lines \subseteq inConcern'
             /\ req'[a].op = "save" => req'[a].detach \subseteq Referenced'
  <2>1. CASE ReadConcernLines(a)
    BY <1>1, <2>1 DEF ReadConcernLines, Await, TypeOK
  <2>2. ASSUME NEW body \in SUBSET Lines, NEW under \in SUBSET body, ReadForSave(a, body, under)
        PROVE  req'[a].op = "save" /\ req'[a].detach \subseteq Referenced'
    <3>1. req'[a].op = "save" /\ req'[a].detach \subseteq Referenced
      BY <1>1, <2>2 DEF ReadForSave, Await, TypeOK
    <3>2. Referenced' = Referenced
      BY <2>2 DEF ReadForSave, Referenced, Decided
    <3> QED BY <3>1, <3>2
  <2>3. CASE req'[a] = req[a] /\ decided \subseteq decided' /\ UNCHANGED <<line, inConcern, edited>>
    BY <1>1, <2>3, ReferencesStay DEF AdvisorInv
  <2>4. CASE req'[a] = Idle \/ req'[a].op = "remove"
    BY <2>4 DEF Idle
  <2>5. \/ req'[a] = Idle \/ req'[a].op = "remove" \/ ReadConcernLines(a)
        \/ \E body \in SUBSET Lines : \E under \in SUBSET body : ReadForSave(a, body, under)
        \/ /\ req'[a] = req[a] /\ decided \subseteq decided'
           /\ UNCHANGED <<line, inConcern, edited>>
    BY <1>1, AdvisorSteps
  <2> QED BY <2>1, <2>2, <2>3, <2>4, <2>5
<1>3. \A l \in inConcern' : line'[l] = "detached" => l \in edited'
  <2> SUFFICES ASSUME NEW l \in inConcern', line'[l] = "detached" PROVE l \in edited'
    OBVIOUS
  <2>1. l \in Lines  BY <1>1 DEF TypeOK, Stored
  <2> QED BY <1>1, <2>1, LineSteps, ReferencesStay DEF AdvisorInv
<1>4. DetachedHasReason'
  <2> SUFFICES ASSUME NEW l \in Lines, line'[l] = "detached" PROVE l \in Referenced'
    BY DEF DetachedHasReason
  <2>1. l \in Referenced
    BY LineSteps DEF AdvisorInv, DetachedHasReason
  <2>2. CASE decided \subseteq decided'
    BY <1>1, <2>1, <2>2, ReferencesStay
  <2>3. ASSUME NEW a \in Advisors, ResetConcern(a) PROVE l \in Referenced'
    <3>1. line' = line /\ edited' = edited /\ work' = work
      BY <2>3 DEF ResetConcern
    <3>2. CASE l \in inConcern
      BY <3>1, <3>2 DEF AdvisorInv, Referenced
    <3>3. CASE l \notin inConcern
      <4>1. l \in Decided => l \in Decided'  BY <3>3, ResetOwnLines DEF Decided
      <4> QED BY <2>1, <3>1, <4>1 DEF Referenced
    <3> QED BY <3>2, <3>3
  <2> QED BY <1>1, <2>2, <2>3, ReferencesStay
<1> QED BY <1>1, <1>2, <1>3, <1>4 DEF AdvisorInv

LEMMA InitAdvisor == Init => AdvisorInv
BY InitType, PortalAssumption DEF Init, AdvisorInv, DetachedHasReason, Idle

\* With one advisor at a time, and any number of customers, a line kept outside
\* the job is one that something refers to.
THEOREM DetachedForReason ==
  ASSUME OneAdvisor
  PROVE  Spec => []DetachedHasReason
<1>1. AdvisorInv => DetachedHasReason  BY DEF AdvisorInv
<1> QED BY <1>1, InitAdvisor, AdvisorStep, PTL DEF Spec

\* With one advisor at a time, and any number of customers, a decision goes only
\* when its own concern is reset.
THEOREM DecisionsSurvive ==
  ASSUME OneAdvisor
  PROVE  Spec => DecisionsAreFinal
<1>1. AdvisorInv /\ [Next]_vars => [\A d \in decided \ decided' : d.line \in inConcern]_vars
  BY ResetOwnLines
<1> QED BY <1>1, InitAdvisor, AdvisorStep, PTL DEF Spec, DecisionsAreFinal
==============================================================================
