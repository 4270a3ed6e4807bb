---------------------------- MODULE JobLifecycle ----------------------------
(***************************************************************************)
(* The life of a job row, written by every endpoint that moves it: the     *)
(* jobs, inspections, QC-checklist and authorisation services and the      *)
(* scheduler.                                                              *)
(*                                                                         *)
(* A handler reads the row, decides, and writes later: between the await   *)
(* of its read and the await of its write any other request may run.  Here *)
(* the read is an action Start... that leaves the write it decided on in   *)
(* req[r], and the write is an action of its own.  A write names the       *)
(* columns it sets and keeps the others (Prisma's `data`), so two handlers *)
(* that touch different columns both survive.                              *)
(***************************************************************************)
EXTENDS Naturals, Sequences, JobStates

CONSTANTS
  Jobs,        \* job ids
  Reqs,        \* requests that may be in flight together
  Ops,         \* the endpoints exercised
  Patches,     \* the bodies PATCH /jobs/:id is called with
  HistoryBound \* no handler starts on a job with this many history rows

Keep == "keep"   \* a column a write leaves alone

\* workshop_stage, its six in-workshop values taken as one, "shop".
Stages == {"null", "shop", "quality_check", "ready_handover"}

\* parts_status; "ordered" is order_parts, waiting_warehouse, backorder, issued.
PartsStatuses == {"no_parts", "ordered", "parts_ready"}

\* A nullable timestamp column.
Stamps == {"null", "set"}

AllOps ==
  {"create", "import", "transition", "patch", "assign", "archive",
   "unarchive", "remove", "removeAll", "inspect", "qc", "link", "decide",
   "nightlyArchive", "noShow", "abort"}

\* What UpdateJobDto and the workflow configuration can put in a PATCH: lane
\* is the systemStatus of the stage that workflow_stage_key resolves to.
PatchBodies ==
  [status : Statuses \cup {Keep}, lane : Statuses \cup {Keep},
   stage : (Stages \ {"null"}) \cup {Keep}, parts : PartsStatuses \cup {Keep}]

ASSUME LifecycleAssumption ==
  /\ Ops \subseteq AllOps
  /\ Patches \subseteq PatchBodies
  /\ HistoryBound \in Nat

VARIABLES
  job,        \* [Jobs -> row of table jobs], status "none" before it exists
  history,    \* [Jobs -> rows of job_status_history, in commit order]
  inspection, \* jobs with a row in inspections (job_id is unique there)
  qc,         \* [Jobs -> [status, result]], the row of qc_checklists
  linked,     \* jobs a customer holds an approval link for
  req         \* [Reqs -> the handler in flight and the write it still owes]

vars == <<job, history, inspection, qc, linked, req>>

-----------------------------------------------------------------------------
(* Rows and writes *)

Rows ==
  [status : Statuses \cup {"none"}, stage : Stages, parts : PartsStatuses,
   arrived : Stamps, completed : Stamps, invoiced : Stamps,
   archived : Stamps, deleted : {"no", "yes"}]

NoWrite ==
  [status |-> Keep, stage |-> Keep, parts |-> Keep, arrived |-> Keep,
   completed |-> Keep, invoiced |-> Keep, archived |-> Keep]

Writes ==
  [status : Statuses \cup {Keep}, stage : Stages \cup {Keep},
   parts : PartsStatuses \cup {Keep}, arrived : Stamps \cup {Keep},
   completed : Stamps \cup {Keep}, invoiced : Stamps \cup {Keep},
   archived : Stamps \cup {Keep}]

Over(new, old) == IF new = Keep THEN old ELSE new

Put(row, w) ==
  [status    |-> Over(w.status, row.status),
   stage     |-> Over(w.stage, row.stage),
   parts     |-> Over(w.parts, row.parts),
   arrived   |-> Over(w.arrived, row.arrived),
   completed |-> Over(w.completed, row.completed),
   invoiced  |-> Over(w.invoiced, row.invoiced),
   archived  |-> Over(w.archived, row.archived),
   deleted   |-> row.deleted]

\* A history row, and the absence of one.
Entry(from, to) == [from |-> from, to |-> to]
NoEntry == Entry("none", "none")
Entries == [from : Statuses \cup {"null"}, to : Statuses]

Log(h, e) == IF e = NoEntry THEN h ELSE Append(h, e)

NewJob(stage) ==
  [status |-> "booked", stage |-> stage, parts |-> "no_parts",
   arrived |-> "null", completed |-> "null", invoiced |-> "null",
   archived |-> "null", deleted |-> "no"]

\* workshop_stage as transition, QC and the portal set it with a status.
StageFor(status) ==
  CASE status = "in_progress"   -> "shop"
    [] status = "quality_check" -> "quality_check"
    [] status = "ready"         -> "ready_handover"
    [] OTHER                    -> "null"

TransitionWrite(seen, to) ==
  [status    |-> to,
   stage     |-> StageFor(to),
   parts     |-> CASE to = "waiting_parts" /\ seen.parts # "ordered" -> "ordered"
                   [] to = "in_progress" /\ seen.parts = "parts_ready" -> "no_parts"
                   [] OTHER -> Keep,
   arrived   |-> CASE to = "checking" /\ seen.arrived = "null" -> "set"
                   [] to = "booked" -> "null"
                   [] OTHER -> Keep,
   completed |-> CASE to = "ready" -> "set"
                   [] seen.status = "ready" /\ to # "closed" -> "null"
                   [] OTHER -> Keep,
   invoiced  |-> CASE to = "closed" -> "set"
                   [] seen.status = "closed" -> "null"
                   [] OTHER -> Keep,
   archived  |-> IF seen.status = "closed" THEN "null" ELSE Keep]

\* The status a PATCH ends up with: workshop_stage wins over the lane, the
\* lane over dto.status.
PatchStatus(p) ==
  CASE p.stage = "quality_check"  -> "quality_check"
    [] p.stage = "ready_handover" -> "ready"
    [] p.stage = "shop"           -> "in_progress"
    [] OTHER                      -> Over(p.lane, p.status)

\* Mutant: parts that arrive do not requeue the car.
PatchWriteNoRequeue(p) ==
  [NoWrite EXCEPT
     !.status = PatchStatus(p), !.parts = p.parts,
     !.stage  = IF p.lane # Keep THEN StageFor(p.lane) ELSE p.stage]

PatchWrite(p) ==
  [NoWrite EXCEPT
     !.status = PatchStatus(p),
     !.stage  = IF p.parts = "parts_ready" THEN "shop"
                ELSE IF p.lane # Keep THEN StageFor(p.lane) ELSE p.stage,
     !.parts  = p.parts]

\* Mutants: a history row only for a status in the body; a row that names the
\* body's status whatever the update set.
PatchEntryBodyOnly(seen, p) ==
  IF p.status \in {Keep, seen.status} THEN NoEntry ELSE Entry(seen.status, p.status)

PatchEntryOfBody(seen, p) ==
  IF PatchStatus(p) \in {Keep, seen.status} THEN NoEntry
  ELSE Entry(seen.status, p.status)

PatchEntry(seen, p) ==
  IF PatchStatus(p) \in {Keep, seen.status} THEN NoEntry
  ELSE Entry(seen.status, PatchStatus(p))

-----------------------------------------------------------------------------
(* Requests *)

Idle == [op |-> "idle", job |-> "none", write |-> NoWrite,
         entry |-> NoEntry, result |-> "none"]

\* Ops that still owe a step: "batch" one transaction of an update and perhaps
\* a history row; the others are named for the statement they await.
PendingOps ==
  {"batch", "inspectRead", "inspectBatch", "inspectInsert", "qcRead",
   "qcBatch", "qcInsert", "qcStore", "qcVerdict", "linkStatus", "linkEntry",
   "linkSend"}

Pending ==
  [op : PendingOps, job : Jobs, write : Writes, entry : Entries \cup {NoEntry},
   result : {"none", "pass", "fail"}]

Awaiting(op, j, w, e) ==
  [op |-> op, job |-> j, write |-> w, entry |-> e, result |-> "none"]

Exists(j) == job[j].status # "none"
Visible(j) == Exists(j) /\ job[j].deleted = "no"

\* Request r is free to serve endpoint op.
Free(r, op) == op \in Ops /\ req[r] = Idle

\* A handler that may add a history row starts only below the bound.
Room(j) == Len(history[j]) < HistoryBound

Await(r, pending) == req' = [req EXCEPT ![r] = pending]

OnlyRequests == UNCHANGED <<job, history, inspection, qc, linked>>

\* The update and the history row of one $transaction([...]).
Commit(r) ==
  LET j == req[r].job
  IN  /\ job' = [job EXCEPT ![j] = Put(@, req[r].write)]
      /\ history' = [history EXCEPT ![j] = Log(@, req[r].entry)]

-----------------------------------------------------------------------------
(* Creation *)

\* JobsService.create: the row and its first history row in one transaction.
Create(j) ==
  /\ "create" \in Ops
  /\ ~Exists(j)
  /\ job' = [job EXCEPT ![j] = NewJob("null")]
  /\ history' = [history EXCEPT ![j] = Append(@, Entry("null", "booked"))]
  /\ UNCHANGED <<inspection, qc, linked, req>>

\* A deferred item booked into a new job, or a row of a booking import: no
\* history row, and workshop_stage takes the schema's default.
CreateUnlogged(j) ==
  /\ "import" \in Ops
  /\ ~Exists(j)
  /\ job' = [job EXCEPT ![j] = NewJob("shop")]
  /\ UNCHANGED <<history, inspection, qc, linked, req>>

-----------------------------------------------------------------------------
(* JobsService handlers: findOne, then one write *)

\* Mutant: any status but the present one is accepted.
StartTransitionAnywhere(r, j, to) ==
  /\ Free(r, "transition") /\ Room(j) /\ Visible(j) /\ to # job[j].status
  /\ Await(r, Awaiting("batch", j, TransitionWrite(job[j], to),
                       Entry(job[j].status, to)))
  /\ OnlyRequests

StartTransition(r, j, to) ==
  /\ Free(r, "transition") /\ Room(j)
  /\ Visible(j)
  /\ CanTransition(job[j].status, to)
  /\ Await(r, Awaiting("batch", j, TransitionWrite(job[j], to),
                       Entry(job[j].status, to)))
  /\ OnlyRequests

StartUpdate(r, j, p) ==
  /\ Free(r, "patch") /\ Room(j)
  /\ Visible(j)
  /\ p.status \in {Keep, job[j].status} \/ CanTransition(job[j].status, p.status)
  /\ Await(r, Awaiting("batch", j, PatchWrite(p), PatchEntry(job[j], p)))
  /\ OnlyRequests

\* Mutant: completed_at is written back too, as it was read.
StartAssignStampsToo(r, j, unassign) ==
  /\ Free(r, "assign") /\ Visible(j)
  /\ Await(r, Awaiting("batch", j,
       [NoWrite EXCEPT !.stage = job[j].stage, !.completed = job[j].completed], NoEntry))
  /\ OnlyRequests

\* Writes back the stage it read, or the queue stage when a technician is
\* taken off a job in progress.
StartAssign(r, j, unassign) ==
  /\ Free(r, "assign")
  /\ Visible(j)
  /\ LET stage == IF unassign /\ job[j].status = "in_progress"
                  THEN "shop" ELSE job[j].stage
     IN  Await(r, Awaiting("batch", j, [NoWrite EXCEPT !.stage = stage], NoEntry))
  /\ OnlyRequests

\* Mutant: archive without the closed check.
StartArchiveAny(r, j) ==
  /\ Free(r, "archive") /\ Visible(j)
  /\ Await(r, Awaiting("batch", j, [NoWrite EXCEPT !.archived = "set"], NoEntry))
  /\ OnlyRequests

StartArchive(r, j) ==
  /\ Free(r, "archive")
  /\ Visible(j)
  /\ job[j].status = "closed"
  /\ Await(r, Awaiting("batch", j, [NoWrite EXCEPT !.archived = "set"], NoEntry))
  /\ OnlyRequests

StartUnarchive(r, j) ==
  /\ Free(r, "unarchive")
  /\ Exists(j)
  /\ job[j].archived = "set"
  /\ Await(r, Awaiting("batch", j, [NoWrite EXCEPT !.archived = "null"], NoEntry))
  /\ OnlyRequests

\* The transaction at the end of transition, update, assign, (un)archive and
\* of the portal's decision.
CommitBatch(r) ==
  /\ req[r].op = "batch"
  /\ Commit(r)
  /\ Await(r, Idle)
  /\ UNCHANGED <<inspection, qc, linked>>

\* remove: is_deleted is set whatever the row became since it was read, so the
\* read and the write are one step.
Remove(j) ==
  /\ "remove" \in Ops
  /\ Visible(j)
  /\ job' = [job EXCEPT ![j].deleted = "yes"]
  /\ UNCHANGED <<history, inspection, qc, linked, req>>

\* removeAll: one updateMany over the booked jobs.
RemoveAll ==
  /\ "removeAll" \in Ops
  /\ job' = [j \in Jobs |-> IF Visible(j) /\ job[j].status = "booked"
                            THEN [job[j] EXCEPT !.deleted = "yes"] ELSE job[j]]
  /\ UNCHANGED <<history, inspection, qc, linked, req>>

-----------------------------------------------------------------------------
(* Inspections: create *)

\* Mutant: the inspection is inserted without checking the job in.
StartInspectionOnly(r, j) ==
  /\ Free(r, "inspect") /\ Room(j) /\ Exists(j) /\ j \notin inspection
  /\ Await(r, Awaiting("inspectInsert", j, NoWrite, NoEntry))
  /\ OnlyRequests

StartInspection(r, j) ==
  /\ Free(r, "inspect") /\ Room(j)
  /\ Exists(j)
  /\ j \notin inspection
  /\ Await(r, Awaiting("inspectRead", j, NoWrite, NoEntry))
  /\ OnlyRequests

CheckInWrite ==
  [NoWrite EXCEPT !.status = "checking", !.stage = "null", !.arrived = "set"]

ReadJobForInspection(r) ==
  LET j == req[r].job
  IN  /\ req[r].op = "inspectRead"
      /\ Await(r, IF job[j].status = "booked"
                  THEN Awaiting("inspectBatch", j, CheckInWrite,
                                Entry("booked", "checking"))
                  ELSE Awaiting("inspectInsert", j, NoWrite, NoEntry))
      /\ OnlyRequests

CheckInBatch(r) ==
  /\ req[r].op = "inspectBatch"
  /\ Commit(r)
  /\ Await(r, Awaiting("inspectInsert", req[r].job, NoWrite, NoEntry))
  /\ UNCHANGED <<inspection, qc, linked>>

\* inspections.job_id is unique: the loser of two creates gets an error.
InsertInspection(r) ==
  /\ req[r].op = "inspectInsert"
  /\ inspection' = inspection \cup {req[r].job}
  /\ Await(r, Idle)
  /\ UNCHANGED <<job, history, qc, linked>>

-----------------------------------------------------------------------------
(* QC checklists: create, submit, reopen *)

StartQc(r, j) ==
  /\ Free(r, "qc") /\ Room(j)
  /\ Exists(j)
  /\ qc[j].status = "none"
  /\ Await(r, Awaiting("qcRead", j, NoWrite, NoEntry))
  /\ OnlyRequests

QcWrite == [NoWrite EXCEPT !.status = "quality_check", !.stage = "quality_check"]

\* Mutant: the history row always says in_progress.
ReadJobForQcFixedFrom(r) ==
  LET j == req[r].job
  IN  /\ req[r].op = "qcRead"
      /\ Await(r, IF job[j].status \in {"in_progress", "waiting_parts"}
                  THEN Awaiting("qcBatch", j, QcWrite,
                                Entry("in_progress", "quality_check"))
                  ELSE Awaiting("qcInsert", j, NoWrite, NoEntry))
      /\ OnlyRequests

ReadJobForQc(r) ==
  LET j == req[r].job
  IN  /\ req[r].op = "qcRead"
      /\ Await(r, IF job[j].status \in {"in_progress", "waiting_parts"}
                  THEN Awaiting("qcBatch", j, QcWrite,
                                Entry(job[j].status, "quality_check"))
                  ELSE Awaiting("qcInsert", j, NoWrite, NoEntry))
      /\ OnlyRequests

QcBatch(r) ==
  /\ req[r].op = "qcBatch"
  /\ Commit(r)
  /\ Await(r, Awaiting("qcInsert", req[r].job, NoWrite, NoEntry))
  /\ UNCHANGED <<inspection, qc, linked>>

InsertQc(r) ==
  LET j == req[r].job
  IN  /\ req[r].op = "qcInsert"
      /\ qc' = IF qc[j].status # "none" THEN qc
               ELSE [qc EXCEPT ![j].status = "in_progress"]
      /\ Await(r, Idle)
      /\ UNCHANGED <<job, history, inspection, linked>>

\* submit reads the checklist and computes overall_result from its responses;
\* "na" (no responses) is taken with "fail": neither is a pass.
StartQcSubmit(r, j, result) ==
  /\ Free(r, "qc") /\ Room(j)
  /\ qc[j].status = "in_progress"
  /\ Await(r, [Awaiting("qcStore", j, NoWrite, NoEntry) EXCEPT !.result = result])
  /\ OnlyRequests

StoreResult(r) ==
  LET j == req[r].job
  IN  /\ req[r].op = "qcStore"
      /\ qc' = [qc EXCEPT ![j] = [status |-> "submitted", result |-> req[r].result]]
      /\ Await(r, [req[r] EXCEPT !.op = "qcVerdict"])
      /\ UNCHANGED <<job, history, inspection, linked>>

VerdictWrite(result) ==
  IF result = "pass"
  THEN [NoWrite EXCEPT !.status = "ready", !.stage = "ready_handover",
                       !.completed = "set"]
  ELSE [NoWrite EXCEPT !.status = "in_progress", !.stage = "shop",
                       !.completed = "null"]

\* Mutant: only a pass moves the job.
ReadJobForVerdictPassOnly(r) ==
  LET j == req[r].job
      w == VerdictWrite(req[r].result)
  IN  /\ req[r].op = "qcVerdict"
      /\ Await(r, IF job[j].status = "quality_check" /\ req[r].result = "pass"
                  THEN Awaiting("batch", j, w, Entry("quality_check", w.status))
                  ELSE Idle)
      /\ OnlyRequests

ReadJobForVerdict(r) ==
  LET j == req[r].job
      w == VerdictWrite(req[r].result)
  IN  /\ req[r].op = "qcVerdict"
      /\ Await(r, IF job[j].status = "quality_check"
                  THEN Awaiting("batch", j, w, Entry("quality_check", w.status))
                  ELSE Idle)
      /\ OnlyRequests

\* reopen: the update does not depend on what was read.
ReopenQc(j) ==
  /\ "qc" \in Ops
  /\ qc[j].status = "submitted"
  /\ qc' = [qc EXCEPT ![j].status = "in_progress"]
  /\ UNCHANGED <<job, history, inspection, linked, req>>

-----------------------------------------------------------------------------
(* Authorisation: an approval link, and the customer's answer *)

\* Mutant: the workshop lane is left alone.
LinkWriteKeepsLane == [NoWrite EXCEPT !.status = "estimate_sent"]

LinkWrite == [NoWrite EXCEPT !.status = "estimate_sent", !.stage = "null"]

StartLink(r, j) ==
  /\ Free(r, "link") /\ Room(j)
  /\ Exists(j)
  /\ Await(r, IF job[j].status \in Terminal \cup {"estimate_sent"}
              THEN Awaiting("linkSend", j, NoWrite, NoEntry)
              ELSE Awaiting("linkStatus", j, LinkWrite,
                            Entry(job[j].status, "estimate_sent")))
  /\ OnlyRequests

\* moveJobToEstimateSent: the update and the history row are two statements
\* with no transaction around them.
LinkStatus(r) ==
  /\ req[r].op = "linkStatus"
  /\ job' = [job EXCEPT ![req[r].job] = Put(@, req[r].write)]
  /\ Await(r, [req[r] EXCEPT !.op = "linkEntry", !.write = NoWrite])
  /\ UNCHANGED <<history, inspection, qc, linked>>

LinkEntry(r) ==
  /\ req[r].op = "linkEntry"
  /\ history' = [history EXCEPT ![req[r].job] = Log(@, req[r].entry)]
  /\ Await(r, Awaiting("linkSend", req[r].job, NoWrite, NoEntry))
  /\ UNCHANGED <<job, inspection, qc, linked>>

\* The snapshot is released and the raw token leaves in the reply.
SendLink(r) ==
  /\ req[r].op = "linkSend"
  /\ linked' = linked \cup {req[r].job}
  /\ Await(r, Idle)
  /\ UNCHANGED <<job, history, inspection, qc>>

\* releasePortalUpdate hands out a link and leaves the status alone.
ReleasePortalUpdate(j) ==
  /\ "link" \in Ops
  /\ Exists(j)
  /\ linked' = linked \cup {j}
  /\ UNCHANGED <<job, history, inspection, qc, req>>

\* decideFromPortal: the job's status is the one read with the token, before
\* the transaction.  A job read as approved gets no history row.
ApproveWrite == [NoWrite EXCEPT !.status = "approved", !.stage = "null"]

\* Mutant: an answer moves a closed job too.
StartDecideAlways(r, j) ==
  LET seen == job[j].status
  IN  /\ Free(r, "decide") /\ Room(j) /\ j \in linked /\ Exists(j)
      /\ Await(r, Awaiting("batch", j, ApproveWrite,
                           IF seen = "approved" THEN NoEntry
                           ELSE Entry(seen, "approved")))
      /\ OnlyRequests

StartDecide(r, j) ==
  LET seen == job[j].status
  IN  /\ Free(r, "decide") /\ Room(j)
      /\ j \in linked /\ Exists(j)
      /\ seen \notin Terminal
      /\ Await(r, Awaiting("batch", j, ApproveWrite,
                           IF seen = "approved" THEN NoEntry
                           ELSE Entry(seen, "approved")))
      /\ OnlyRequests

-----------------------------------------------------------------------------
(* SchedulerService: one updateMany each *)

\* Mutant: cars at handover are archived with the closed ones.
ArchiveClosedAndReady ==
  /\ "nightlyArchive" \in Ops
  /\ job' = [j \in Jobs |-> IF job[j].status \in {"ready", "closed"}
                            THEN [job[j] EXCEPT !.archived = "set"] ELSE job[j]]
  /\ UNCHANGED <<history, inspection, qc, linked, req>>

ArchiveClosed ==
  /\ "nightlyArchive" \in Ops
  /\ job' = [j \in Jobs |-> IF job[j].status = "closed"
                            THEN [job[j] EXCEPT !.archived = "set"] ELSE job[j]]
  /\ UNCHANGED <<history, inspection, qc, linked, req>>

MarkNoShow ==
  /\ "noShow" \in Ops
  /\ job' = [j \in Jobs |->
               IF job[j].status = "booked" /\ job[j].arrived = "null"
               THEN [job[j] EXCEPT !.status = "no_show", !.stage = "null"]
               ELSE job[j]]
  /\ UNCHANGED <<history, inspection, qc, linked, req>>

\* A statement fails or the process dies: what the request still owed is lost.
Abort(r) ==
  /\ "abort" \in Ops
  /\ req[r] # Idle
  /\ Await(r, Idle)
  /\ OnlyRequests

-----------------------------------------------------------------------------
Init ==
  /\ job = [j \in Jobs |-> [NewJob("null") EXCEPT !.status = "none"]]
  /\ history = [j \in Jobs |-> <<>>]
  /\ inspection = {}
  /\ qc = [j \in Jobs |-> [status |-> "none", result |-> "none"]]
  /\ linked = {}
  /\ req = [r \in Reqs |-> Idle]

\* What one awaited statement of request r does when it resolves.
Step(r) ==
  \/ CommitBatch(r)
  \/ ReadJobForInspection(r) \/ CheckInBatch(r) \/ InsertInspection(r)
  \/ ReadJobForQc(r) \/ QcBatch(r) \/ InsertQc(r)
  \/ StoreResult(r) \/ ReadJobForVerdict(r)
  \/ LinkStatus(r) \/ LinkEntry(r) \/ SendLink(r)

Start(r, j) ==
  \/ \E to \in Statuses : StartTransition(r, j, to)
  \/ \E p \in Patches : StartUpdate(r, j, p)
  \/ \E unassign \in BOOLEAN : StartAssign(r, j, unassign)
  \/ StartArchive(r, j) \/ StartUnarchive(r, j)
  \/ StartInspection(r, j) \/ StartQc(r, j)
  \/ \E result \in {"pass", "fail"} : StartQcSubmit(r, j, result)
  \/ StartLink(r, j) \/ StartDecide(r, j)

AtOnce(j) ==
  \/ Create(j) \/ CreateUnlogged(j) \/ Remove(j)
  \/ ReopenQc(j) \/ ReleasePortalUpdate(j)

Next ==
  \/ \E j \in Jobs : AtOnce(j)
  \/ \E r \in Reqs, j \in Jobs : Start(r, j)
  \/ \E r \in Reqs : Step(r) \/ Abort(r)
  \/ RemoveAll \/ ArchiveClosed \/ MarkNoShow

Spec == Init /\ [][Next]_vars

\* Every awaited statement of a request in flight resolves: the event loop runs
\* its continuation.
Fairness == \A r \in Reqs : WF_vars(Step(r))

FairSpec == Spec /\ Fairness

-----------------------------------------------------------------------------
(* Properties *)

\* Every variable has the type its declaration gives it.
TypeOK ==
  /\ job \in [Jobs -> Rows]
  /\ history \in [Jobs -> Seq(Entries)]
  /\ inspection \subseteq Jobs
  /\ qc \in [Jobs -> [status : {"none", "in_progress", "submitted"},
                      result : {"none", "pass", "fail"}]]
  /\ linked \subseteq Jobs
  /\ req \in [Reqs -> Pending \cup {Idle}]

\* History h shows a move to status s.
Shows(h, s) == \E i \in 1..Len(h) : h[i].to = s

\* The statuses every endpoint writes together with a history row, or over a
\* row that was already there: not booked (an imported booking has no row), not
\* no_show (the scheduler writes none), not estimate_sent (the link's row
\* follows in a statement of its own).
Recorded == Statuses \ {"booked", "no_show", "estimate_sent"}

\* Whatever requests interleave, a job stands in a recorded status only if its
\* history shows it being moved there (the batches of jobs, inspections,
\* qc-checklists and the portal's transaction).
TrailCoversStatus ==
  \A j \in Jobs : job[j].status \in Recorded => Shows(history[j], job[j].status)

\* A job that is archived, by the endpoint or by the scheduler, was closed at
\* some time and its history shows it (archiveJob, archiveOldClosedJobs).
ArchivedWasClosed ==
  \A j \in Jobs : job[j].archived = "set" => Shows(history[j], "closed")

\* Without the PATCH endpoint no interleaving leaves a ready job without
\* completed_at, though the handlers that set and clear it, and the assignment
\* that writes beside them, act on a row that has moved on since they read it.
ReadyIsCompleted ==
  \A j \in Jobs : job[j].status = "ready" => job[j].completed = "set"

\* Likewise a closed job always has invoiced_at, and so has every archived one.
ClosedOrArchivedIsInvoiced ==
  \A j \in Jobs : job[j].status = "closed" \/ job[j].archived = "set"
                    => job[j].invoiced = "set"

\* An inspection in existence means its job is no longer waiting to be checked
\* in: create moves the job first and inserts the inspection last.
InspectionMeansCheckedIn ==
  \A j \in inspection : job[j].status # "booked"

\* Every recorded move is one the table or a forced move allows, though the
\* row may have been decided on from a status that had changed meanwhile.
RecordedMovesAreLegal ==
  \A j \in Jobs : \A i \in 1..Len(history[j]) :
    LET e == history[j][i]
    IN  e = Entry("null", "booked") \/ LegalMove(e.from, e.to)

\* With one request at a time the trail is a chain that ends at the status:
\* each row starts where the one before ended.
TrailIsChain ==
  \A j \in Jobs :
    /\ \A i \in 2..Len(history[j]) : history[j][i].from = history[j][i - 1].to
    /\ \A r \in Reqs : req[r].op # "linkEntry" /\ history[j] # <<>>
         => history[j][Len(history[j])].to = job[j].status

\* With one request at a time the two boards agree on the QC and handover
\* lanes: a car shown there has that status (transition, QC, portal, assign).
LanesAgree ==
  \A j \in Jobs : job[j].stage \in {"quality_check", "ready_handover"}
                    => job[j].stage = StageFor(job[j].status)

\* With one request at a time a car whose parts have arrived while it waits
\* for them is back in the workshop queue.
ReadyPartsAreQueued ==
  \A j \in Jobs : job[j].status = "waiting_parts" /\ job[j].parts = "parts_ready"
                    => job[j].stage = "shop"

\* With one request at a time, job statuses follow the abstract machine.
Machine == INSTANCE JobStatusMachine WITH status <- [j \in Jobs |-> job[j].status]
FollowsMachine == Machine!Spec

\* What the docs say of a reopened job: whichever endpoint takes it out of
\* closed clears invoiced_at and archived_at.
ReopenClearsStamps ==
  [][\A j \in Jobs : job[j].status = "closed" /\ job'[j].status # "closed"
       => job'[j].invoiced = "null" /\ job'[j].archived = "null"]_vars

\* A stored verdict is acted on: while its request runs, the job leaves
\* quality_check.
VerdictMovesJob ==
  \A j \in Jobs :
    (job[j].status = "quality_check" /\ \E r \in Reqs :
       req[r].op = "qcVerdict" /\ req[r].job = j)
    ~> job[j].status # "quality_check"
==============================================================================
