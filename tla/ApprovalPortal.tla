---------------------------- MODULE ApprovalPortal ----------------------------
(***************************************************************************)
(* A customer approves the estimate of one job, line by line, while the    *)
(* advisor goes on editing it: the authorisation service's links and       *)
(* decisions, the deferred work they leave, and the estimate lines they    *)
(* refer to.  What these handlers do to the job itself is in JobLifecycle. *)
(*                                                                         *)
(* Customers and advisors act concurrently; each has one request in flight *)
(* at a time, a chain of awaited statements.                               *)
(***************************************************************************)
EXTENDS Naturals

CONSTANTS
  Lines,     \* estimate_lines ids, new and old
  Links,     \* approval_tokens ids
  Customers, \* people submitting decisions
  Advisors   \* people editing the estimate

ASSUME PortalAssumption == Customers \cap Advisors = {}

VARIABLES
  line,      \* [Lines -> state of the row of estimate_lines]
  concern,   \* "open", or "none" once the concern is removed
  inConcern, \* lines whose concern_id is set
  edited,    \* lines with a row in estimate_line_history
  link,      \* [Links -> "none", "live" or "expired"]
  used,      \* links with used_at
  decided,   \* rows of authorisation_decisions
  work,      \* [Lines -> number of deferred_work rows]
  req        \* [Customers \cup Advisors -> the request in flight]

vars == <<line, concern, inConcern, edited, link, used, decided, work, req>>

-----------------------------------------------------------------------------
(* Rows *)

\* An active line belongs to the job; a detached one has job_id null.
LineStates == {"none", "active", "detached", "deleted"}

Verdicts == {"approved", "declined", "deferred"}

Refusals == {"declined", "deferred"}

Decision(t, l, v) == [link |-> t, line |-> l, verdict |-> v]
Decisions == [link : Links, line : Lines, verdict : Verdicts]

Active == {l \in Lines : line[l] = "active"}
Stored == {l \in Lines : line[l] \in {"active", "detached"}}
Decided == {d.line : d \in decided}

\* Lines a row of another table refers to: they cannot be deleted
\* (onDelete: Restrict).
Referenced == Decided \cup {l \in Lines : work[l] > 0} \cup edited

\* The decision rows of an answer: answer maps lines to verdicts.
RowsOf(t, answer) == {Decision(t, l, answer[l]) : l \in DOMAIN answer}

-----------------------------------------------------------------------------
(* Requests: op names the statement awaited; lines is what was read.         *)

Idle == [op |-> "idle"]

Free(r) == req[r] = Idle

Await(r, pending) == req' = [req EXCEPT ![r] = pending]

\* Any request may fail, or its transaction roll back, where it stands.
Fail(r) ==
  /\ ~Free(r)
  /\ Await(r, Idle)
  /\ UNCHANGED <<line, concern, inConcern, edited, link, used, decided, work>>

-----------------------------------------------------------------------------
(* AuthorisationService: links *)

\* requestAuthorisation or releasePortalUpdate: the link leaves in the reply.
IssueLink(t) ==
  /\ link[t] = "none"
  /\ link' = [link EXCEPT ![t] = "live"]
  /\ UNCHANGED <<line, concern, inConcern, edited, used, decided, work, req>>

\* Seven days pass.
ExpireLink(t) ==
  /\ link[t] = "live"
  /\ link' = [link EXCEPT ![t] = "expired"]
  /\ UNCHANGED <<line, concern, inConcern, edited, used, decided, work, req>>

-----------------------------------------------------------------------------
(* decideFromPortal *)

\* The token is read with the job's lines; whether it was used is not asked.
OpenLink(c, t, answer) ==
  /\ Free(c)
  /\ link[t] = "live"
  /\ DOMAIN answer # {} /\ DOMAIN answer \subseteq Active
  /\ Await(c, [op |-> "check", link |-> t, answer |-> answer])
  /\ UNCHANGED <<line, concern, inConcern, edited, link, used, decided, work>>

\* Mutant: only the decisions taken through this link are looked at.
CheckUndecidedOnLink(c) ==
  /\ req[c].op = "check"
  /\ Await(c, IF {d.line : d \in {e \in decided : e.link = req[c].link}}
                   \cap DOMAIN req[c].answer # {}
              THEN Idle ELSE [req[c] EXCEPT !.op = "begin"])
  /\ UNCHANGED <<line, concern, inConcern, edited, link, used, decided, work>>

\* A line decided through any link of the job refuses the whole answer.
CheckUndecided(c) ==
  /\ req[c].op = "check"
  /\ Await(c, IF Decided \cap DOMAIN req[c].answer # {}
              THEN Idle ELSE [req[c] EXCEPT !.op = "begin"])
  /\ UNCHANGED <<line, concern, inConcern, edited, link, used, decided, work>>

\* Mutants: declined lines are forgotten; no look at what is there already;
\* approved lines too.
NeedWorkDeferredOnly(answer) ==
  {l \in DOMAIN answer : answer[l] = "deferred" /\ work[l] = 0}
NeedWorkAlways(answer) == {l \in DOMAIN answer : answer[l] \in Refusals}
NeedWorkApproved(answer) == {l \in DOMAIN answer : work[l] = 0}

\* The refused lines of an answer that the transaction's snapshot shows no
\* deferred work for.
NeedWork(answer) == {l \in DOMAIN answer : answer[l] \in Refusals /\ work[l] = 0}

BeginDecide(c) ==
  /\ req[c].op = "begin"
  /\ Await(c, [op |-> "decide", link |-> req[c].link, answer |-> req[c].answer,
               work |-> NeedWork(req[c].answer)])
  /\ UNCHANGED <<line, concern, inConcern, edited, link, used, decided, work>>

\* Fails when a line is gone (foreign key) or has a decision through this
\* link (unique key).
CommitDecide(c) ==
  LET t == req[c].link
      answer == req[c].answer
  IN  /\ req[c].op = "decide"
      /\ DOMAIN answer \subseteq Stored
      /\ \A d \in decided : d.link = t => d.line \notin DOMAIN answer
      /\ decided' = decided \cup RowsOf(t, answer)
      /\ work' = [l \in Lines |-> IF l \in req[c].work THEN work[l] + 1 ELSE work[l]]
      /\ used' = used \cup {t}
      /\ Await(c, Idle)
      /\ UNCHANGED <<line, concern, inConcern, edited, link>>

-----------------------------------------------------------------------------
(* resetConcernApproval, removeConcern *)

\* Mutant: every line of the job is reset.
ReadConcernLinesOfJob(a) ==
  /\ Free(a) /\ concern = "open"
  /\ Await(a, [op |-> "reset", lines |-> Active])
  /\ UNCHANGED <<line, concern, inConcern, edited, link, used, decided, work>>

ReadConcernLines(a) ==
  /\ Free(a)
  /\ concern = "open"
  /\ Await(a, [op |-> "reset", lines |-> inConcern])
  /\ UNCHANGED <<line, concern, inConcern, edited, link, used, decided, work>>

\* The decisions go, the deferred work they left stays.
ResetConcern(a) ==
  /\ req[a].op = "reset"
  /\ decided' = {d \in decided : d.line \notin req[a].lines}
  /\ Await(a, Idle)
  /\ UNCHANGED <<line, concern, inConcern, edited, link, used, work>>

\* Its lines are unlinked, then the row is deleted, which unlinks the rest.
UnlinkConcern(a) ==
  /\ Free(a)
  /\ concern = "open"
  /\ inConcern' = {}
  /\ Await(a, [op |-> "remove"])
  /\ UNCHANGED <<line, concern, edited, link, used, decided, work>>

DeleteConcern(a) ==
  /\ req[a].op = "remove"
  /\ concern = "open"
  /\ concern' = "none"
  /\ inConcern' = {}
  /\ Await(a, Idle)
  /\ UNCHANGED <<line, edited, link, used, decided, work>>

-----------------------------------------------------------------------------
(* EstimatesService *)

\* create, and the line reserveForJob makes for a part.
AddLine(a, l, under) ==
  /\ Free(a)
  /\ line[l] = "none"
  /\ under => concern = "open"
  /\ line' = [line EXCEPT ![l] = "active"]
  /\ inConcern' = IF under THEN inConcern \cup {l} ELSE inConcern
  /\ UNCHANGED <<concern, edited, link, used, decided, work, req>>

\* reserveForJob given a line of the job that has no concern yet.
LinkPart(a, l) ==
  /\ Free(a)
  /\ l \in Active \ inConcern
  /\ concern = "open"
  /\ inConcern' = inConcern \cup {l}
  /\ UNCHANGED <<line, concern, edited, link, used, decided, work, req>>

\* update: the row as it was goes to the history first; the body may move the
\* line, even a detached one, into the concern or out of it.
EditLine(a, l) ==
  /\ Free(a)
  /\ l \in Stored
  /\ edited' = edited \cup {l}
  /\ inConcern' \in {inConcern, inConcern \ {l}} \cup
                   IF concern = "open" THEN {inConcern \cup {l}} ELSE {}
  /\ UNCHANGED <<line, concern, link, used, decided, work, req>>

\* Mutant: the history does not keep the line.
RemoveLineAnyway(a, l) ==
  /\ Free(a)
  /\ l \in Stored \ (Decided \cup {x \in Lines : work[x] > 0})
  /\ line' = [line EXCEPT ![l] = "deleted"]
  /\ inConcern' = inConcern \ {l}
  /\ UNCHANGED <<concern, edited, link, used, decided, work, req>>

\* Deletes the row; a row that is referred to stays and the call fails.
RemoveLine(a, l) ==
  /\ Free(a)
  /\ l \in Stored \ Referenced
  /\ line' = [line EXCEPT ![l] = "deleted"]
  /\ inConcern' = inConcern \ {l}
  /\ UNCHANGED <<concern, edited, link, used, decided, work, req>>

\* bulkReplace reads the job's lines and which of them are referred to; the
\* body keeps some of them, adds new ones, and puts some under the concern.
ReadForSave(a, body, under) ==
  /\ Free(a)
  /\ under \subseteq body /\ (under # {} => concern = "open")
  /\ \A l \in body : line[l] \in {"none", "active"}
  /\ Await(a, [op |-> "save", body |-> body, under |-> under, new |-> body \ Active,
               detach |-> (Active \ body) \cap Referenced,
               delete |-> (Active \ body) \ Referenced])
  /\ UNCHANGED <<line, concern, inConcern, edited, link, used, decided, work>>

\* The states of the lines with those in lines set to state.
Put(states, lines, state) == [l \in Lines |-> IF l \in lines THEN state ELSE states[l]]

\* Mutant: a detached line keeps its concern.
SaveKeepsConcern(a) ==
  LET s == req[a]
  IN  /\ line' = Put(Put(Put(line, s.delete, "deleted"), s.detach, "detached"), s.body, "active")
      /\ inConcern' = (inConcern \ (s.body \cup s.delete)) \cup s.under

\* The lines of the body belong to the job, each under the concern or not as the
\* body says; a detached or deleted line is under none.
Save(a) ==
  LET s == req[a]
  IN  /\ line' = Put(Put(Put(line, s.delete, "deleted"), s.detach, "detached"), s.body, "active")
      /\ inConcern' = (inConcern \ (s.body \cup s.detach \cup s.delete)) \cup s.under

\* Fails when a line to delete is referred to by now (foreign key), when a line
\* it writes or the concern is gone, or when a new line's id is taken.
CommitSave(a) ==
  /\ req[a].op = "save"
  /\ req[a].detach \subseteq Stored
  /\ req[a].delete \subseteq Stored \ Referenced
  /\ \A l \in req[a].body : IF l \in req[a].new THEN line[l] = "none" ELSE l \in Stored
  /\ req[a].under # {} => concern = "open"
  /\ Save(a)
  /\ Await(a, Idle)
  /\ UNCHANGED <<concern, edited, link, used, decided, work>>

-----------------------------------------------------------------------------
Init ==
  /\ line = [l \in Lines |-> "none"]
  /\ concern = "open"
  /\ inConcern = {}
  /\ edited = {}
  /\ link = [t \in Links |-> "none"]
  /\ used = {}
  /\ decided = {}
  /\ work = [l \in Lines |-> 0]
  /\ req = [r \in Customers \cup Advisors |-> Idle]

\* The answers a form of the portal can send: some lines, each with a verdict.
Answers == UNION {[lines -> Verdicts] : lines \in (SUBSET Lines) \ {{}}}

Next ==
  \/ \E t \in Links : IssueLink(t) \/ ExpireLink(t)
  \/ \E c \in Customers :
       \/ \E t \in Links, answer \in Answers : OpenLink(c, t, answer)
       \/ CheckUndecided(c)
       \/ BeginDecide(c)
       \/ CommitDecide(c)
  \/ \E a \in Advisors :
       \/ ReadConcernLines(a) \/ ResetConcern(a)
       \/ UnlinkConcern(a) \/ DeleteConcern(a)
       \/ \E l \in Lines : AddLine(a, l, TRUE) \/ AddLine(a, l, FALSE)
       \/ \E l \in Lines : EditLine(a, l) \/ LinkPart(a, l) \/ RemoveLine(a, l)
       \/ \E body \in SUBSET Lines : \E under \in SUBSET body : ReadForSave(a, body, under)
       \/ CommitSave(a)
  \/ \E r \in Customers \cup Advisors : Fail(r)

Spec == Init /\ [][Next]_vars

-----------------------------------------------------------------------------
(* Correctness *)

Answering == [op : {"check", "begin"}, link : Links, answer : Answers]
Deciding == [op : {"decide"}, link : Links, answer : Answers, work : SUBSET Lines]
Saving ==
  {s \in [op : {"save"}, body : SUBSET Lines, under : SUBSET Lines, new : SUBSET Lines,
           detach : SUBSET Lines, delete : SUBSET Lines] : s.under \subseteq s.body}
Resetting == [op : {"reset"}, lines : SUBSET Lines]
Removing == [op : {"remove"}]

\* Every column holds a value its table admits, and every request in flight
\* one its handler can carry; only a stored line is under the concern.
TypeOK ==
  /\ line \in [Lines -> LineStates]
  /\ concern \in {"open", "none"}
  /\ inConcern \subseteq Stored
  /\ edited \subseteq Stored
  /\ link \in [Links -> {"none", "live", "expired"}]
  /\ used \subseteq Links
  /\ decided \subseteq Decisions
  /\ work \in [Lines -> Nat]
  /\ req \in [Customers \cup Advisors ->
               {Idle} \cup Answering \cup Deciding \cup Saving \cup Resetting \cup Removing]
  /\ \A c \in Customers : req[c] \in {Idle} \cup Answering \cup Deciding
  /\ \A a \in Advisors : req[a] \in {Idle} \cup Saving \cup Resetting \cup Removing

\* A customer's decision for a line is final: it is not taken again, through
\* the same link or another (decideFromPortal's check and unique key).
DecidedOnce == \A d, e \in decided : d.line = e.line => d = e

\* A line the customer refused is followed up, however the answer, a reset and
\* a save of the estimate interleave (decideFromPortal's deferred_work row).
RefusalsFollowedUp ==
  \A d \in decided : d.verdict \in Refusals => work[d.line] > 0

\* It is followed up once, even when it is answered again after a reset.
FollowedUpOnce == \A l \in Lines : work[l] <= 1

\* A line leaves the job only when a decision, deferred work or its history
\* needs it (bulkReplace): the workshop keeps no line without a reason.
DetachedHasReason == \A l \in Lines : line[l] = "detached" => l \in Referenced

\* A decision goes only while its line is under the concern that is reset:
\* a customer's answer about other lines survives whatever the advisor does.
DecisionsAreFinal == [][\A d \in decided \ decided' : d.line \in inConcern]_vars

AnswerPairs == {<<d.line, d.verdict>> : d \in decided}
FollowedLines == {l \in Lines : work[l] > 0}

Promise == INSTANCE LineAnswers WITH answers <- AnswerPairs, followed <- FollowedLines

\* The lines behave as LineAnswers promises: each is answered once, an answer
\* counts whole or not at all, and what is refused, no more, is followed up.
ImplementsPromise == Promise!Spec

\* What docs/backend-request-flows.md:228 says: a token that was used is
\* rejected.  The code asks only whether it was revoked or has expired.
UsedLinkDecidesNothing == [][\A d \in decided' \ decided : d.link \notin used]_vars
==============================================================================
