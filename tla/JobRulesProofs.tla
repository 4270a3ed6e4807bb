---------------------------- MODULE JobRulesProofs ----------------------------
(***************************************************************************)
(* The rules of a job row that hold for some sets of endpoints and PATCH   *)
(* bodies and not for others, each proved under the weakest condition on   *)
(* Ops and Patches found for it, for any jobs, requests and history bound. *)
(*                                                                         *)
(* Every step of JobLifecycle is first described as what it does to one    *)
(* job and to one request; a rule is then proved from those descriptions.  *)
(***************************************************************************)
EXTENDS JobLifecycleProofs

-----------------------------------------------------------------------------
(* Conditions on the endpoints and the PATCH bodies *)

\* No PATCH body moves a job to a status in S.
PatchesLeave(S) == "patch" \in Ops => \A p \in Patches : PatchStatus(p) \notin S

\* No PATCH body names a lane or a workshop stage, the two ways past the table.
PatchesByTable ==
  "patch" \in Ops => \A p \in Patches : p.lane = Keep /\ p.stage = Keep

\* A PATCH body places the car by a lane or by a stage, not by both, and sends
\* no status without one of them; arrived parts place it in the queue.
PatchesPlaceCar ==
  "patch" \in Ops => \A p \in Patches :
    \/ p.parts = "parts_ready"
    \/ /\ p.lane = Keep \/ p.stage = Keep
       /\ p.status # Keep => p.lane # Keep \/ p.stage # Keep

\* Requests are served one at a time.
OneRequest == \A r, q \in Reqs : r = q

-----------------------------------------------------------------------------
(* What a step does to one job *)

\* The statements that write a row and its history together.
Batches == {"batch", "inspectBatch", "qcBatch"}

\* What a request awaits when its batch is committed.
AfterBatch(q) ==
  CASE q.op = "inspectBatch" -> Awaiting("inspectInsert", q.job, NoWrite, NoEntry)
    [] q.op = "qcBatch" -> Awaiting("qcInsert", q.job, NoWrite, NoEntry)
    [] OTHER -> Idle

BatchMoves(r) ==
  /\ req[r].op \in Batches
  /\ Commit(r)
  /\ req'[r] = AfterBatch(req[r])

LinkMoves(r) ==
  /\ req[r].op = "linkStatus"
  /\ job' = [job EXCEPT ![req[r].job] = Put(@, req[r].write)]
  /\ history' = history
  /\ req'[r] = [req[r] EXCEPT !.op = "linkEntry", !.write = NoWrite]

LinkLogs(r) ==
  /\ req[r].op = "linkEntry"
  /\ job' = job
  /\ history' = [history EXCEPT ![req[r].job] = Log(@, req[r].entry)]
  /\ req'[r] = Awaiting("linkSend", req[r].job, NoWrite, NoEntry)

\* A row appears, with its history row or, imported, without one.
Appears(j) ==
  /\ ~Exists(j)
  /\ \/ /\ job' = [job EXCEPT ![j] = NewJob("null")]
        /\ history' = [history EXCEPT ![j] = Append(@, Entry("null", "booked"))]
     \/ /\ "import" \in Ops
        /\ job' = [job EXCEPT ![j] = NewJob("shop")]
        /\ history' = history

\* Job j keeps its columns but for the flags that remove, removeAll and the
\* scheduler set.
Flagged(j) ==
  /\ history' = history
  /\ \/ job'[j] = job[j]
     \/ Exists(j) /\ job'[j] = [job[j] EXCEPT !.deleted = "yes"]
     \/ job[j].status = "closed" /\ job'[j] = [job[j] EXCEPT !.archived = "set"]

NotShown(j) ==
  /\ "noShow" \in Ops
  /\ history' = history
  /\ job[j].status = "booked"
  /\ job'[j] = [job[j] EXCEPT !.status = "no_show", !.stage = "null"]

\* The kinds of step; all but the last two are steps of one job.
Moves ==
  \/ \E r \in Reqs : BatchMoves(r) \/ LinkMoves(r) \/ LinkLogs(r)
  \/ \E j \in Jobs : Appears(j)
  \/ \A j \in Jobs : Flagged(j)
  \/ \A j \in Jobs : Flagged(j) \/ NotShown(j)

-----------------------------------------------------------------------------
(* What a step does to one request *)

\* Request q is a statement that a handler may await after it has read job j.
Awaits(q, op, w, e) == q.op = op /\ q.write = w /\ q.entry = e

Decides(j, q) ==
  LET s == job[j].status
  IN  /\ q.job = j
      /\ Exists(j)
      /\ \/ /\ q.op \notin Batches \cup {"linkStatus", "linkEntry"}
            /\ q.write = NoWrite /\ q.entry = NoEntry
            /\ q.op = "inspectInsert" => s # "booked"
         \/ \E to \in Statuses :
              /\ CanTransition(s, to)
              /\ Awaits(q, "batch", TransitionWrite(job[j], to), Entry(s, to))
         \/ \E p \in Patches :
              /\ "patch" \in Ops
              /\ p.status \in {Keep, s} \/ CanTransition(s, p.status)
              /\ Awaits(q, "batch", PatchWrite(p), PatchEntry(job[j], p))
         \/ \E stage \in Stages :
              /\ stage = job[j].stage \/ stage = "shop"
              /\ Awaits(q, "batch", [NoWrite EXCEPT !.stage = stage], NoEntry)
         \/ /\ s = "closed"
            /\ Awaits(q, "batch", [NoWrite EXCEPT !.archived = "set"], NoEntry)
         \/ Awaits(q, "batch", [NoWrite EXCEPT !.archived = "null"], NoEntry)
         \/ /\ s = "booked"
            /\ Awaits(q, "inspectBatch", CheckInWrite, Entry("booked", "checking"))
         \/ /\ s \in {"in_progress", "waiting_parts"}
            /\ Awaits(q, "qcBatch", QcWrite, Entry(s, "quality_check"))
         \/ /\ s = "quality_check"
            /\ \E v \in {"none", "pass", "fail"} :
                 Awaits(q, "batch", VerdictWrite(v), Entry(s, VerdictWrite(v).status))
         \/ /\ s \notin Terminal
            /\ s # "estimate_sent"
            /\ Awaits(q, "linkStatus", LinkWrite, Entry(s, "estimate_sent"))
         \/ /\ s \notin Terminal
            /\ Awaits(q, "batch", ApproveWrite,
                      IF s = "approved" THEN NoEntry ELSE Entry(s, "approved"))

\* A request stays as it is, ends, decides on what it has just read, goes on
\* after its statement, or has its verdict stored.
GoesOn(r) ==
  \/ req'[r] = req[r]
  \/ req'[r] = Idle
  \/ OnlyRequests /\ \E j \in Jobs : Decides(j, req'[r])
  \/ BatchMoves(r) \/ LinkMoves(r) \/ LinkLogs(r)
  \/ /\ req[r].op = "qcStore"
     /\ req'[r] = [req[r] EXCEPT !.op = "qcVerdict"]
     /\ UNCHANGED <<job, history>>

\* One that owes the history row of a link it has sent writes it, unless it is
\* aborted.
RequestMoves(r) ==
  /\ GoesOn(r)
  /\ req[r].op = "linkEntry"
       => req'[r] = req[r] \/ LinkLogs(r) \/ "abort" \in Ops

\* A request in flight, and a checklist, belong to a job that exists.
InFlightExists ==
  /\ \A r \in Reqs : req[r].op # "idle" => Exists(req[r].job)
  /\ \A j \in Jobs : qc[j].status # "none" => Exists(j)

Base == TypeOK /\ InFlightExists

-----------------------------------------------------------------------------
(* Every step is one of those *)

\* A handler that reads a job and decides moves only its request.
LEMMA DecisionMoves ==
  ASSUME TypeOK, NEW r \in Reqs, NEW j \in Jobs, NEW q, Await(r, q), OnlyRequests,
         req[r].op # "linkEntry", Decides(j, q) \/ q = Idle
  PROVE  Moves /\ \A p \in Reqs : RequestMoves(p)
<1>1. job' = job /\ history' = history
  BY DEF OnlyRequests
<1>2. \A p \in Reqs : req'[p] = IF p = r THEN q ELSE req[p]
  BY DEF Await, TypeOK
<1>3. Moves
  BY <1>1 DEF Moves, Flagged
<1>4. \A p \in Reqs : RequestMoves(p)
  BY <1>2 DEF RequestMoves, GoesOn
<1> QED BY <1>3, <1>4

\* A step that keeps every request.
LEMMA RequestsKept ==
  ASSUME req' = req
  PROVE  \A r \in Reqs : RequestMoves(r)
BY DEF RequestMoves, GoesOn

\* The handlers' first step decides on the row it reads.
LEMMA StartMoves ==
  ASSUME TypeOK, InFlightExists, NEW r \in Reqs, NEW j \in Jobs, Start(r, j)
  PROVE  Moves /\ \A q \in Reqs : RequestMoves(q)
<1> USE DEF Awaits, Awaiting
<1>0. \A op : Free(r, op) => req[r].op # "linkEntry"
  BY DEF Free, Idle
<1>1. ASSUME NEW to \in Statuses, StartTransition(r, j, to)
      PROVE  Moves /\ \A q \in Reqs : RequestMoves(q)
  <2> DEFINE q == Awaiting("batch", j, TransitionWrite(job[j], to), Entry(job[j].status, to))
  <2>1. Decides(j, q)
    BY <1>1 DEF StartTransition, Visible, Decides
  <2> QED BY <1>1, <2>1, <1>0, DecisionMoves DEF StartTransition
<1>2. ASSUME NEW p \in Patches, StartUpdate(r, j, p)
      PROVE  Moves /\ \A q \in Reqs : RequestMoves(q)
  <2> DEFINE q == Awaiting("batch", j, PatchWrite(p), PatchEntry(job[j], p))
  <2>1. Decides(j, q)
    BY <1>2 DEF StartUpdate, Visible, Decides, Free
  <2> QED BY <1>2, <2>1, <1>0, DecisionMoves DEF StartUpdate
<1>3. ASSUME NEW unassign \in BOOLEAN, StartAssign(r, j, unassign)
      PROVE  Moves /\ \A q \in Reqs : RequestMoves(q)
  <2> DEFINE stage == IF unassign /\ job[j].status = "in_progress"
                      THEN "shop" ELSE job[j].stage
             q == Awaiting("batch", j, [NoWrite EXCEPT !.stage = stage], NoEntry)
  <2>1. stage \in Stages /\ (stage = job[j].stage \/ stage = "shop")
    BY DEF TypeOK, Rows, Stages
  <2>2. Exists(j) /\ Await(r, q) /\ OnlyRequests /\ Free(r, "assign")
    BY <1>3 DEF StartAssign, Visible
  <2>3. Decides(j, q)
    BY <2>1, <2>2 DEF Decides
  <2> QED BY <2>2, <2>3, <1>0, DecisionMoves
<1>4. CASE StartArchive(r, j)
  <2> DEFINE q == Awaiting("batch", j, [NoWrite EXCEPT !.archived = "set"], NoEntry)
  <2>1. Decides(j, q)
    BY <1>4 DEF StartArchive, Visible, Decides
  <2> QED BY <1>4, <2>1, <1>0, DecisionMoves DEF StartArchive
<1>5. CASE StartUnarchive(r, j)
  <2> DEFINE q == Awaiting("batch", j, [NoWrite EXCEPT !.archived = "null"], NoEntry)
  <2>1. Decides(j, q)
    BY <1>5 DEF StartUnarchive, Decides
  <2> QED BY <1>5, <2>1, <1>0, DecisionMoves DEF StartUnarchive
<1>6. CASE StartInspection(r, j)
  <2>1. Decides(j, Awaiting("inspectRead", j, NoWrite, NoEntry))
    BY <1>6 DEF StartInspection, Decides, Batches
  <2> QED BY <1>6, <2>1, <1>0, DecisionMoves DEF StartInspection
<1>7. CASE StartQc(r, j)
  <2>1. Decides(j, Awaiting("qcRead", j, NoWrite, NoEntry))
    BY <1>7 DEF StartQc, Decides, Batches
  <2> QED BY <1>7, <2>1, <1>0, DecisionMoves DEF StartQc
<1>8. ASSUME NEW result \in {"pass", "fail"}, StartQcSubmit(r, j, result)
      PROVE  Moves /\ \A q \in Reqs : RequestMoves(q)
  <2> DEFINE q == [Awaiting("qcStore", j, NoWrite, NoEntry) EXCEPT !.result = result]
  <2>1. Exists(j)
    BY <1>8 DEF StartQcSubmit, InFlightExists
  <2>2. q.op = "qcStore" /\ q.job = j /\ q.write = NoWrite /\ q.entry = NoEntry
    OBVIOUS
  <2>3. Decides(j, q)
    BY <2>1, <2>2 DEF Decides, Batches
  <2> QED BY <1>8, <2>3, <1>0, DecisionMoves DEF StartQcSubmit
<1>9. CASE StartLink(r, j)
  <2> DEFINE q == IF job[j].status \in Terminal \cup {"estimate_sent"}
                  THEN Awaiting("linkSend", j, NoWrite, NoEntry)
                  ELSE Awaiting("linkStatus", j, LinkWrite,
                                Entry(job[j].status, "estimate_sent"))
  <2>1. Exists(j) /\ Await(r, q) /\ OnlyRequests /\ Free(r, "link")
    BY <1>9 DEF StartLink
  <2>2. Decides(j, q)
    BY <2>1 DEF Decides, Batches
  <2> QED BY <2>1, <2>2, <1>0, DecisionMoves
<1>10. CASE StartDecide(r, j)
  <2> DEFINE q == Awaiting("batch", j, ApproveWrite,
                           IF job[j].status = "approved" THEN NoEntry
                           ELSE Entry(job[j].status, "approved"))
  <2>1. /\ Exists(j) /\ job[j].status \notin Terminal
        /\ Await(r, q) /\ OnlyRequests /\ Free(r, "decide")
    BY <1>10 DEF StartDecide
  <2>2. Decides(j, q)
    BY <2>1 DEF Decides
  <2> QED BY <2>1, <2>2, <1>0, DecisionMoves
<1> QED
  BY <1>1, <1>2, <1>3, <1>4, <1>5, <1>6, <1>7, <1>8, <1>9, <1>10 DEF Start

\* A step of request r that moves the job by its batch or its link's statements.
LEMMA WrittenMoves ==
  ASSUME NEW r \in Reqs, BatchMoves(r) \/ LinkMoves(r) \/ LinkLogs(r),
         \A q \in Reqs : q # r => req'[q] = req[q]
  PROVE  Moves /\ \A q \in Reqs : RequestMoves(q)
<1>1. Moves
  BY DEF Moves
<1>2. RequestMoves(r)
  BY DEF RequestMoves, GoesOn, BatchMoves, LinkMoves, Batches
<1>3. \A q \in Reqs : q # r => RequestMoves(q)
  BY DEF RequestMoves, GoesOn
<1> QED BY <1>1, <1>2, <1>3

\* A statement that resolves.
LEMMA StepMoves ==
  ASSUME TypeOK, InFlightExists, NEW r \in Reqs, Step(r)
  PROVE  Moves /\ \A q \in Reqs : RequestMoves(q)
<1> DEFINE j == req[r].job
<1> USE DEF Awaits, Awaiting
<1>0. req[r].op # "idle"
  BY DEF Step, CommitBatch, ReadJobForInspection, CheckInBatch, InsertInspection,
         ReadJobForQc, QcBatch, InsertQc, StoreResult, ReadJobForVerdict,
         LinkStatus, LinkEntry, SendLink
<1>1. /\ j \in Jobs /\ Exists(j) /\ req[r].result \in {"none", "pass", "fail"}
      /\ req[r] \in Pending
  BY <1>0, OwedType DEF InFlightExists
<1>2. ASSUME NEW q, Await(r, q)
      PROVE  req'[r] = q /\ \A p \in Reqs : p # r => req'[p] = req[p]
  BY <1>2 DEF Await, TypeOK
<1>3. CASE CommitBatch(r) \/ CheckInBatch(r) \/ QcBatch(r)
  <2>1. req[r].op \in Batches /\ Commit(r) /\ Await(r, AfterBatch(req[r]))
    BY <1>3 DEF CommitBatch, CheckInBatch, QcBatch, Batches, AfterBatch
  <2>2. BatchMoves(r)
    BY <1>2, <2>1 DEF BatchMoves
  <2> QED BY <1>2, <2>1, <2>2, WrittenMoves
<1>4. CASE ReadJobForInspection(r)
  <2> DEFINE q == IF job[j].status = "booked"
                  THEN Awaiting("inspectBatch", j, CheckInWrite,
                                Entry("booked", "checking"))
                  ELSE Awaiting("inspectInsert", j, NoWrite, NoEntry)
  <2>1. Await(r, q) /\ OnlyRequests
    BY <1>4 DEF ReadJobForInspection
  <2>0. req[r].op # "linkEntry"
    BY <1>4 DEF ReadJobForInspection
  <2>2. Decides(j, q)
    BY <1>1 DEF Decides, Batches
  <2> QED BY <1>1, <2>1, <2>2, <2>0, DecisionMoves
<1>5. CASE ReadJobForQc(r)
  <2> DEFINE q == IF job[j].status \in {"in_progress", "waiting_parts"}
                  THEN Awaiting("qcBatch", j, QcWrite,
                                Entry(job[j].status, "quality_check"))
                  ELSE Awaiting("qcInsert", j, NoWrite, NoEntry)
  <2>1. Await(r, q) /\ OnlyRequests
    BY <1>5 DEF ReadJobForQc
  <2>0. req[r].op # "linkEntry"
    BY <1>5 DEF ReadJobForQc
  <2>2. Decides(j, q)
    BY <1>1 DEF Decides, Batches
  <2> QED BY <1>1, <2>1, <2>2, <2>0, DecisionMoves
<1>6. CASE ReadJobForVerdict(r)
  <2> DEFINE w == VerdictWrite(req[r].result)
             q == IF job[j].status = "quality_check"
                  THEN Awaiting("batch", j, w, Entry("quality_check", w.status))
                  ELSE Idle
  <2>1. Await(r, q) /\ OnlyRequests
    BY <1>6 DEF ReadJobForVerdict
  <2>0. req[r].op # "linkEntry"
    BY <1>6 DEF ReadJobForVerdict
  <2>2. Decides(j, q) \/ q = Idle
    BY <1>1 DEF Decides
  <2> QED BY <1>1, <2>1, <2>2, <2>0, DecisionMoves
<1>7. CASE LinkStatus(r)
  <2>1. LinkMoves(r) /\ \A p \in Reqs : p # r => req'[p] = req[p]
    BY <1>2, <1>7 DEF LinkStatus, LinkMoves
  <2> QED BY <2>1, WrittenMoves
<1>8. CASE LinkEntry(r)
  <2>1. LinkLogs(r) /\ \A p \in Reqs : p # r => req'[p] = req[p]
    BY <1>2, <1>8 DEF LinkEntry, LinkLogs
  <2> QED BY <2>1, WrittenMoves
<1>9. CASE StoreResult(r)
  <2>1. /\ req[r].op = "qcStore" /\ job' = job /\ history' = history
        /\ Await(r, [req[r] EXCEPT !.op = "qcVerdict"])
    BY <1>9 DEF StoreResult
  <2>2. Moves
    BY <2>1 DEF Moves, Flagged
  <2>3. RequestMoves(r)
    BY <1>2, <2>1 DEF RequestMoves, GoesOn
  <2>4. \A p \in Reqs : p # r => RequestMoves(p)
    BY <1>2, <2>1 DEF RequestMoves, GoesOn
  <2> QED BY <2>2, <2>3, <2>4
<1>10. CASE InsertInspection(r) \/ InsertQc(r) \/ SendLink(r)
  <2>1. job' = job /\ history' = history /\ Await(r, Idle)
    BY <1>10 DEF InsertInspection, InsertQc, SendLink
  <2>2. Moves
    BY <2>1 DEF Moves, Flagged
  <2>3. \A p \in Reqs : RequestMoves(p)
    BY <1>2, <1>10, <2>1
    DEF RequestMoves, GoesOn, InsertInspection, InsertQc, SendLink
  <2> QED BY <2>2, <2>3
<1> QED
  BY <1>3, <1>4, <1>5, <1>6, <1>7, <1>8, <1>9, <1>10 DEF Step

\* The handlers that read and write in one step, and the scheduler.
LEMMA AtOnceMoves ==
  ASSUME TypeOK,
         \/ \E j \in Jobs : AtOnce(j)
         \/ \E r \in Reqs : Abort(r)
         \/ RemoveAll \/ ArchiveClosed \/ MarkNoShow \/ UNCHANGED vars
  PROVE  Moves /\ \A q \in Reqs : RequestMoves(q)
<1>1. ASSUME NEW j \in Jobs, Create(j) \/ CreateUnlogged(j)
      PROVE  Moves /\ \A q \in Reqs : RequestMoves(q)
  <2>1. Appears(j) /\ req' = req
    BY <1>1 DEF Create, CreateUnlogged, Appears
  <2> QED BY <2>1, RequestsKept DEF Moves
<1>2. ASSUME NEW j \in Jobs, Remove(j)
      PROVE  Moves /\ \A q \in Reqs : RequestMoves(q)
  <2>1. Exists(j) /\ req' = req /\ history' = history
    BY <1>2 DEF Remove, Visible
  <2>2. \A k \in Jobs : job'[k] = IF k = j THEN [job[j] EXCEPT !.deleted = "yes"]
                                  ELSE job[k]
    BY <1>2 DEF Remove, TypeOK
  <2>3. \A k \in Jobs : Flagged(k)
    BY <2>1, <2>2 DEF Flagged
  <2> QED BY <2>1, <2>3, RequestsKept DEF Moves
<1>3. ASSUME NEW j \in Jobs, ReopenQc(j) \/ ReleasePortalUpdate(j)
      PROVE  Moves /\ \A q \in Reqs : RequestMoves(q)
  <2>1. job' = job /\ history' = history /\ req' = req
    BY <1>3 DEF ReopenQc, ReleasePortalUpdate
  <2> QED BY <2>1, RequestsKept DEF Moves, Flagged
<1>4. ASSUME NEW r \in Reqs, Abort(r)
      PROVE  Moves /\ \A q \in Reqs : RequestMoves(q)
  <2>1. job' = job /\ history' = history /\ Await(r, Idle) /\ "abort" \in Ops
    BY <1>4 DEF Abort, OnlyRequests
  <2>2. \A q \in Reqs : req'[q] = IF q = r THEN Idle ELSE req[q]
    BY <2>1 DEF Await, TypeOK
  <2> QED BY <2>1, <2>2 DEF Moves, Flagged, RequestMoves, GoesOn
<1>5. CASE RemoveAll
  <2>1. req' = req /\ \A k \in Jobs : Flagged(k)
    BY <1>5 DEF RemoveAll, Flagged, Visible
  <2> QED BY <2>1, RequestsKept DEF Moves
<1>6. CASE ArchiveClosed
  <2>1. req' = req /\ \A k \in Jobs : Flagged(k)
    BY <1>6 DEF ArchiveClosed, Flagged
  <2> QED BY <2>1, RequestsKept DEF Moves
<1>7. CASE MarkNoShow
  <2>1. req' = req /\ \A k \in Jobs : Flagged(k) \/ NotShown(k)
    BY <1>7 DEF MarkNoShow, Flagged, NotShown
  <2> QED BY <2>1, RequestsKept DEF Moves
<1>8. CASE UNCHANGED vars
  BY <1>8, RequestsKept DEF Moves, Flagged, vars
<1> QED
  BY <1>1, <1>2, <1>3, <1>4, <1>5, <1>6, <1>7, <1>8 DEF AtOnce

LEMMA NextMoves ==
  ASSUME TypeOK, InFlightExists, [Next]_vars
  PROVE  Moves /\ \A q \in Reqs : RequestMoves(q)
<1>1. CASE \E r \in Reqs, j \in Jobs : Start(r, j)
  BY <1>1, StartMoves
<1>2. CASE \E r \in Reqs : Step(r)
  BY <1>2, StepMoves
<1> QED BY <1>1, <1>2, AtOnceMoves DEF Next

\* One job's columns and history after a step: the cases every rule goes through.
JobMoves(j) ==
  \/ job'[j] = job[j] /\ history'[j] = history[j]
  \/ \E r \in Reqs :
       /\ req[r].job = j
       /\ \/ /\ BatchMoves(r)
             /\ job'[j] = Put(job[j], req[r].write)
             /\ history'[j] = Log(history[j], req[r].entry)
          \/ /\ LinkMoves(r)
             /\ job'[j] = Put(job[j], req[r].write) /\ history'[j] = history[j]
          \/ /\ LinkLogs(r)
             /\ job'[j] = job[j] /\ history'[j] = Log(history[j], req[r].entry)
  \/ /\ ~Exists(j)
     /\ \/ /\ job'[j] = NewJob("null")
           /\ history'[j] = Append(history[j], Entry("null", "booked"))
        \/ "import" \in Ops /\ job'[j] = NewJob("shop") /\ history'[j] = history[j]
  \/ history'[j] = history[j] /\ (Flagged(j) \/ NotShown(j))

LEMMA EachJobMoves ==
  ASSUME TypeOK, Moves, NEW j \in Jobs
  PROVE  JobMoves(j)
<1>1. ASSUME NEW r \in Reqs, BatchMoves(r) \/ LinkMoves(r) \/ LinkLogs(r)
      PROVE  JobMoves(j)
  <2>1. req[r].op # "idle"
    BY <1>1 DEF BatchMoves, LinkMoves, LinkLogs, Batches
  <2>2. req[r].job \in Jobs
    BY <2>1, OwedType
  <2>3. CASE req[r].job = j
    <3>1. CASE BatchMoves(r)
      <4>1. /\ job'[j] = Put(job[j], req[r].write)
            /\ history'[j] = Log(history[j], req[r].entry)
        BY <2>3, <3>1 DEF BatchMoves, Commit, TypeOK
      <4> QED BY <2>3, <3>1, <4>1 DEF JobMoves
    <3>2. CASE LinkMoves(r)
      <4>1. job'[j] = Put(job[j], req[r].write) /\ history'[j] = history[j]
        BY <2>3, <3>2 DEF LinkMoves, TypeOK
      <4> QED BY <2>3, <3>2, <4>1 DEF JobMoves
    <3>3. CASE LinkLogs(r)
      <4>1. job'[j] = job[j] /\ history'[j] = Log(history[j], req[r].entry)
        BY <2>3, <3>3 DEF LinkLogs, TypeOK
      <4> QED BY <2>3, <3>3, <4>1 DEF JobMoves
    <3> QED BY <1>1, <3>1, <3>2, <3>3
  <2>4. CASE req[r].job # j
    <3>1. job'[j] = job[j] /\ history'[j] = history[j]
      BY <1>1, <2>2, <2>4 DEF BatchMoves, LinkMoves, LinkLogs, Commit, TypeOK
    <3> QED BY <3>1 DEF JobMoves
  <2> QED BY <2>3, <2>4
<1>2. ASSUME NEW k \in Jobs, Appears(k)
      PROVE  JobMoves(j)
  <2>1. CASE k = j
    <3>1. ~Exists(j)
      BY <1>2, <2>1 DEF Appears
    <3>2. \/ /\ job'[j] = NewJob("null")
             /\ history'[j] = Append(history[j], Entry("null", "booked"))
          \/ "import" \in Ops /\ job'[j] = NewJob("shop") /\ history'[j] = history[j]
      BY <1>2, <2>1 DEF Appears, TypeOK
    <3> QED BY <3>1, <3>2 DEF JobMoves
  <2>2. CASE k # j
    <3>1. job'[j] = job[j] /\ history'[j] = history[j]
      BY <1>2, <2>2 DEF Appears, TypeOK
    <3> QED BY <3>1 DEF JobMoves
  <2> QED BY <2>1, <2>2
<1>3. ASSUME Flagged(j) \/ NotShown(j)
      PROVE  JobMoves(j)
  <2>1. history'[j] = history[j]
    BY <1>3 DEF Flagged, NotShown
  <2> QED BY <1>3, <2>1 DEF JobMoves
<1> QED BY <1>1, <1>2, <1>3 DEF Moves

\* A row that exists goes on existing.
LEMMA StillExists ==
  ASSUME Base, NEW j \in Jobs, JobMoves(j), Exists(j)
  PROVE  Exists(j)'
<1>1. job[j] \in Rows /\ job[j].status # "none"
  BY DEF Base, TypeOK, Exists
<1>2. ASSUME NEW r \in Reqs, req[r].op # "idle", job'[j] = Put(job[j], req[r].write)
      PROVE  job'[j].status # "none"
  <2>1. req[r].write \in Writes
    BY <1>2, OwedType DEF Base
  <2>2. req[r].write.status # "none"
    BY <2>1 DEF Writes, Statuses, Keep
  <2> QED BY <1>1, <1>2, <2>2 DEF Put, Over
<1>3. ASSUME NEW r \in Reqs, BatchMoves(r) \/ LinkMoves(r)
      PROVE  req[r].op # "idle"
  BY <1>3 DEF BatchMoves, LinkMoves, Batches
<1>4. CASE Flagged(j) \/ NotShown(j)
  BY <1>1, <1>4 DEF Flagged, NotShown, Exists, Rows
<1>5. CASE NewJob("null") = job'[j] \/ NewJob("shop") = job'[j]
  BY <1>5 DEF NewJob, Exists
<1>6. CASE job'[j] = job[j]
  BY <1>1, <1>6 DEF Exists
<1> QED BY <1>2, <1>3, <1>4, <1>5, <1>6 DEF JobMoves, Exists

\* The job of a request in flight: where a request goes on, it is the same job.
LEMMA RequestJob ==
  ASSUME Base, NEW r \in Reqs, RequestMoves(r), req'[r].op # "idle"
  PROVE  \/ \E j \in Jobs : OnlyRequests /\ Decides(j, req'[r])
         \/ req[r].op # "idle" /\ req'[r].job = req[r].job
<1>1. CASE req'[r] = req[r]
  BY <1>1
<1>2. CASE req'[r] = Idle
  BY <1>2 DEF Idle
<1>3. CASE BatchMoves(r)
  BY <1>3 DEF BatchMoves, AfterBatch, Awaiting, Batches, Idle
<1>4. CASE \/ LinkMoves(r)
           \/ req'[r] = [req[r] EXCEPT !.op = "qcVerdict"] /\ req[r].op = "qcStore"
  <2>1. req[r].op # "idle"
    BY <1>4 DEF LinkMoves
  <2>2. req[r] \in Pending
    BY <2>1, OwedType DEF Base
  <2> QED BY <1>4, <2>1, <2>2 DEF LinkMoves, Pending
<1>5. CASE LinkLogs(r)
  BY <1>5 DEF LinkLogs, Awaiting
<1> QED BY <1>1, <1>2, <1>3, <1>4, <1>5 DEF RequestMoves, GoesOn

\* A checklist appears only on behalf of a request in flight.
LEMMA ChecklistMoves ==
  ASSUME Base, [Next]_vars, NEW j \in Jobs, qc'[j].status # "none"
  PROVE  Exists(j)
<1>1. \A r \in Reqs : req[r].op # "idle" => Exists(req[r].job) /\ req[r].job \in Jobs
  BY OwedType DEF Base, InFlightExists
<1>2. CASE qc[j].status # "none"
  BY <1>2 DEF Base, InFlightExists
<1>3. CASE qc' = qc
  BY <1>2, <1>3
<1>4. ASSUME NEW r \in Reqs, InsertQc(r) \/ StoreResult(r), j # req[r].job
      PROVE  qc'[j] = qc[j]
  BY <1>1, <1>4 DEF InsertQc, StoreResult, Base, TypeOK
<1>5. ASSUME NEW r \in Reqs, Step(r) PROVE Exists(j)
  <2>1. CASE InsertQc(r) \/ StoreResult(r)
    BY <1>1, <1>2, <1>4, <2>1 DEF InsertQc, StoreResult
  <2>2. CASE ~(InsertQc(r) \/ StoreResult(r))
    <3>1. qc' = qc
      BY <1>5, <2>2
      DEF Step, CommitBatch, ReadJobForInspection, CheckInBatch, InsertInspection,
          ReadJobForQc, QcBatch, ReadJobForVerdict, LinkStatus, LinkEntry, SendLink,
          OnlyRequests
    <3> QED BY <1>3, <3>1
  <2> QED BY <2>1, <2>2
<1>6. ASSUME NEW k \in Jobs, ReopenQc(k) PROVE Exists(j)
  <2>1. qc[k].status # "none" /\ \A i \in Jobs : i # k => qc'[i] = qc[i]
    BY <1>6 DEF ReopenQc, Base, TypeOK
  <2> QED BY <1>2, <2>1
<1>7. ASSUME NEW k \in Jobs, AtOnce(k), ~ReopenQc(k) PROVE qc' = qc
  BY <1>7 DEF AtOnce, Create, CreateUnlogged, Remove, ReleasePortalUpdate
<1>8. ASSUME NEW r \in Reqs, NEW k \in Jobs, Start(r, k) PROVE qc' = qc
  BY <1>8
  DEF Start, StartTransition, StartUpdate, StartAssign, StartArchive, StartUnarchive,
      StartInspection, StartQc, StartQcSubmit, StartLink, StartDecide, OnlyRequests
<1>9. ASSUME (\E r \in Reqs : Abort(r)) \/ RemoveAll \/ ArchiveClosed \/ MarkNoShow
             \/ UNCHANGED vars
      PROVE  qc' = qc
  BY <1>9 DEF Abort, OnlyRequests, RemoveAll, ArchiveClosed, MarkNoShow, vars
<1> QED BY <1>3, <1>5, <1>6, <1>7, <1>8, <1>9 DEF Next

\* Requests in flight and checklists always belong to a job that exists.
THEOREM BaseInvariant == Spec => []Base
<1>1. Init => InFlightExists
  BY DEF Init, InFlightExists, Idle
<1>2. TypeOK /\ TypeOK' /\ InFlightExists /\ [Next]_vars => InFlightExists'
  <2> SUFFICES ASSUME TypeOK, TypeOK', InFlightExists, [Next]_vars
               PROVE  InFlightExists'
    OBVIOUS
  <2>0. Base /\ Moves /\ \A r \in Reqs : RequestMoves(r)
    BY NextMoves DEF Base
  <2>1. \A j \in Jobs : Exists(j) => Exists(j)'
    BY <2>0, EachJobMoves, StillExists DEF Base
  <2>2. ASSUME NEW r \in Reqs, req'[r].op # "idle"
        PROVE  job'[req'[r].job].status # "none"
    <3>1. CASE \E j \in Jobs : Decides(j, req'[r])
      BY <2>1, <3>1 DEF Decides, Exists
    <3>2. CASE req[r].op # "idle" /\ req'[r].job = req[r].job
      <4>1. req[r].job \in Jobs /\ Exists(req[r].job)
        BY <3>2, OwedType DEF InFlightExists
      <4> QED BY <2>1, <3>2, <4>1 DEF Exists
    <3> QED BY <2>0, <2>2, <3>1, <3>2, RequestJob
  <2>3. ASSUME NEW j \in Jobs, qc'[j].status # "none" PROVE job'[j].status # "none"
    BY <2>0, <2>1, <2>3, ChecklistMoves DEF Exists
  <2> QED BY <2>2, <2>3 DEF InFlightExists, Exists
<1> QED BY <1>1, <1>2, Typing, PTL DEF Spec, Base

\* A request owes what it owed, or nothing, or what it has just decided.
LEMMA OwesOrDecides ==
  ASSUME Base, NEW r \in Reqs, RequestMoves(r)
  PROVE  \/ \E j \in Jobs : OnlyRequests /\ Decides(j, req'[r])
         \/ /\ req'[r].write \in {req[r].write, NoWrite}
            /\ req'[r].entry \in {req[r].entry, NoEntry}
<1>1. CASE req'[r] = req[r] \/ req'[r] = Idle
  BY <1>1 DEF Idle
<1>2. CASE BatchMoves(r)
  BY <1>2 DEF BatchMoves, AfterBatch, Awaiting, Idle
<1>3. CASE \/ LinkMoves(r)
           \/ req'[r] = [req[r] EXCEPT !.op = "qcVerdict"] /\ req[r].op = "qcStore"
  <2>1. req[r] \in Pending
    BY <1>3, OwedType DEF Base, LinkMoves
  <2> QED BY <1>3, <2>1 DEF LinkMoves, Pending
<1>4. CASE LinkLogs(r)
  BY <1>4 DEF LinkLogs, Awaiting
<1> QED BY <1>1, <1>2, <1>3, <1>4 DEF RequestMoves, GoesOn

\* Job j's row keeps its columns, but that a closed one may be archived.
Kept(j) ==
  /\ job'[j].status = job[j].status /\ job'[j].stage = job[j].stage
  /\ job'[j].parts = job[j].parts /\ job'[j].completed = job[j].completed
  /\ job'[j].invoiced = job[j].invoiced
  /\ \/ job'[j].archived = job[j].archived
     \/ job[j].status = "closed" /\ job'[j].archived = "set"

\* Job j's row after a batch or a link's statement of request r.
Written(r, j) ==
  /\ req[r].op \in Batches \cup {"linkStatus"}
  /\ req[r].job = j /\ req[r].write \in Writes
  /\ req'[r].op \notin Batches \cup {"linkStatus"} /\ req'[r].write = NoWrite
  /\ job'[j] = Put(job[j], req[r].write)

\* What a step does to the columns of one row.
LEMMA RowMoves ==
  ASSUME Base, NEW j \in Jobs, JobMoves(j)
  PROVE  /\ job[j] \in Rows
         /\ \/ Kept(j)
            \/ \E r \in Reqs : Written(r, j)
            \/ /\ ~Exists(j)
               /\ job'[j].status = "booked" /\ job'[j].stage \in {"null", "shop"}
               /\ job'[j].parts = "no_parts" /\ job'[j].completed = "null"
               /\ job'[j].invoiced = "null" /\ job'[j].archived = "null"
            \/ /\ "noShow" \in Ops
               /\ job[j].status = "booked"
               /\ job'[j].status = "no_show" /\ job'[j].stage = "null"
               /\ job'[j].parts = job[j].parts /\ job'[j].completed = job[j].completed
               /\ job'[j].invoiced = job[j].invoiced
               /\ job'[j].archived = job[j].archived
<1>1. job[j] \in Rows
  BY DEF Base, TypeOK
<1>2. ASSUME NEW r \in Reqs, req[r].job = j, BatchMoves(r) \/ LinkMoves(r),
             job'[j] = Put(job[j], req[r].write)
      PROVE  Written(r, j)
  <2>1. req[r].op \in Batches \cup {"linkStatus"} /\ req[r].op # "idle"
    BY <1>2 DEF BatchMoves, LinkMoves, Batches
  <2>2. req[r].write \in Writes /\ req[r] \in Pending
    BY <2>1, OwedType DEF Base
  <2>3. req'[r].op \notin Batches \cup {"linkStatus"} /\ req'[r].write = NoWrite
    <3>1. CASE BatchMoves(r)
      BY <3>1 DEF BatchMoves, AfterBatch, Awaiting, Idle, Batches
    <3>2. CASE LinkMoves(r)
      BY <2>2, <3>2 DEF LinkMoves, Batches, Pending
    <3> QED BY <1>2, <3>1, <3>2
  <2> QED BY <1>2, <2>1, <2>2, <2>3 DEF Written
<1>3. CASE job'[j] = job[j]
  BY <1>1, <1>3 DEF Kept
<1>4. CASE job'[j] = [job[j] EXCEPT !.deleted = "yes"]
  BY <1>1, <1>4 DEF Kept, Rows
<1>5. CASE job[j].status = "closed" /\ job'[j] = [job[j] EXCEPT !.archived = "set"]
  BY <1>1, <1>5 DEF Kept, Rows
<1>6. CASE ~Exists(j) /\ job'[j] \in {NewJob("null"), NewJob("shop")}
  BY <1>1, <1>6 DEF NewJob
<1>7. CASE NotShown(j)
  BY <1>1, <1>7 DEF NotShown, Rows
<1> QED BY <1>1, <1>2, <1>3, <1>4, <1>5, <1>6, <1>7 DEF JobMoves, Flagged

LEMMA LoggedOrSame ==
  ASSUME Base, NEW j \in Jobs, JobMoves(j)
  PROVE  /\ history[j] \in Seq(Entries)
         /\ \/ history'[j] = history[j]
            \/ \E r \in Reqs : /\ req[r].entry \in Entries \cup {NoEntry}
                               /\ history'[j] = Log(history[j], req[r].entry)
            \/ ~Exists(j) /\ history'[j] = Append(history[j], Entry("null", "booked"))
<1>1. history[j] \in Seq(Entries)
  BY DEF Base, TypeOK
<1>2. ASSUME NEW r \in Reqs, BatchMoves(r) \/ LinkLogs(r)
      PROVE  req[r].entry \in Entries \cup {NoEntry}
  <2>1. req[r].op # "idle"
    BY <1>2 DEF BatchMoves, LinkLogs, Batches
  <2> QED BY <2>1, OwedType DEF Base
<1> QED BY <1>1, <1>2 DEF JobMoves

-----------------------------------------------------------------------------
(* A ready job is completed.  Inductive with what every write in flight      *)
(* keeps true of the row it meets: it stamps completed_at with ready, and    *)
(* clears it only while it moves the job elsewhere.                          *)

CompletesReady(w) ==
  /\ w.status = "ready" => w.completed = "set"
  /\ w.completed = "null" => w.status \notin {"ready", Keep}

CompletedInv ==
  ReadyIsCompleted /\ \A r \in Reqs : CompletesReady(req[r].write)

LEMMA DecidesCompletion ==
  ASSUME PatchesLeave({"ready"}), NEW j, NEW q, Decides(j, q)
  PROVE  CompletesReady(q.write)
<1> USE DEF CompletesReady, Awaits
<1>1. CASE q.write = NoWrite
  BY <1>1 DEF NoWrite, Keep
<1>2. ASSUME NEW to \in Statuses, CanTransition(job[j].status, to),
             q.write = TransitionWrite(job[j], to)
      PROVE  CompletesReady(q.write)
  BY <1>2 DEF TransitionWrite, Keep, CanTransition, Statuses
<1>3. ASSUME NEW p \in Patches, "patch" \in Ops, q.write = PatchWrite(p)
      PROVE  CompletesReady(q.write)
  BY <1>3 DEF PatchesLeave, PatchWrite, NoWrite, Keep
<1>4. CASE \/ \E stage \in Stages : q.write = [NoWrite EXCEPT !.stage = stage]
           \/ \E stamp \in Stamps : q.write = [NoWrite EXCEPT !.archived = stamp]
  BY <1>4 DEF NoWrite, Keep
<1>5. CASE q.write \in {CheckInWrite, QcWrite, LinkWrite, ApproveWrite}
  BY <1>5 DEF CheckInWrite, QcWrite, LinkWrite, ApproveWrite, NoWrite, Keep
<1>6. ASSUME NEW v, q.write = VerdictWrite(v)
      PROVE  CompletesReady(q.write)
  BY <1>6 DEF VerdictWrite, NoWrite, Keep
<1> QED BY <1>1, <1>2, <1>3, <1>4, <1>5, <1>6 DEF Decides, Stamps

\* Whatever endpoints interleave, a ready job has completed_at, as long as no
\* PATCH body moves a job to ready (update does not stamp it).
THEOREM ReadyCompleted ==
  ASSUME PatchesLeave({"ready"})
  PROVE  Spec => []ReadyIsCompleted
<1>1. Init => CompletedInv
  BY DEF Init, CompletedInv, ReadyIsCompleted, CompletesReady, NewJob, Idle, NoWrite, Keep
<1>2. Base /\ CompletedInv /\ [Next]_vars => CompletedInv'
  <2> SUFFICES ASSUME Base, CompletedInv, [Next]_vars PROVE CompletedInv'
    OBVIOUS
  <2>0. Moves /\ \A r \in Reqs : RequestMoves(r)
    BY NextMoves DEF Base
  <2>1. ASSUME NEW j \in Jobs, job'[j].status = "ready"
        PROVE  job'[j].completed = "set"
    <3>1. job[j] \in Rows /\ (job[j].status = "ready" => job[j].completed = "set")
      BY DEF Base, TypeOK, CompletedInv, ReadyIsCompleted
    <3>2. ASSUME NEW r \in Reqs, Written(r, j)
          PROVE  job'[j].completed = "set"
      <4>1. CompletesReady(req[r].write)
        BY DEF CompletedInv
      <4> QED
        BY <2>1, <3>1, <3>2, <4>1 DEF Written, CompletesReady, Put, Over, Writes, Stamps, Keep
    <3> QED BY <2>0, <2>1, <3>1, <3>2, EachJobMoves, RowMoves DEF Base, Kept
  <2>2. ASSUME NEW r \in Reqs PROVE CompletesReady(req'[r].write)
    <3>1. CompletesReady(req[r].write) /\ CompletesReady(NoWrite)
      BY DEF CompletedInv, CompletesReady, NoWrite, Keep
    <3> QED BY <2>0, <3>1, OwesOrDecides, DecidesCompletion
  <2> QED BY <2>1, <2>2 DEF CompletedInv, ReadyIsCompleted
<1>3. CompletedInv => ReadyIsCompleted
  BY DEF CompletedInv
<1> QED BY <1>1, <1>2, <1>3, BaseInvariant, PTL DEF Spec

-----------------------------------------------------------------------------
(* A closed or archived job is invoiced.  Nothing in flight clears           *)
(* invoiced_at, since no handler that read a closed job moves it; and an     *)
(* archiving in flight read a job that was closed, which had invoiced_at.    *)

KeepsInvoice(w) ==
  w.invoiced # "null" /\ (w.status = "closed" => w.invoiced = "set")

InvoicedInv ==
  /\ ClosedOrArchivedIsInvoiced
  /\ \A r \in Reqs :
       /\ KeepsInvoice(req[r].write)
       /\ req[r].op # "idle" /\ req[r].write.archived = "set"
            => job[req[r].job].invoiced = "set"

LEMMA DecidesInvoice ==
  ASSUME PatchesLeave({"closed"}), NEW j \in Jobs, NEW q, Decides(j, q),
         job[j].status = "closed" => job[j].invoiced = "set"
  PROVE  /\ KeepsInvoice(q.write)
         /\ q.write.archived = "set" => job[j].invoiced = "set"
<1> USE DEF KeepsInvoice, Awaits
<1>1. CASE q.write = NoWrite
  BY <1>1 DEF NoWrite, Keep
<1>2. ASSUME NEW to \in Statuses, CanTransition(job[j].status, to),
             q.write = TransitionWrite(job[j], to)
      PROVE  KeepsInvoice(q.write) /\ q.write.archived # "set"
  <2>1. job[j].status # "closed"
    BY <1>2 DEF CanTransition, Transitions
  <2> QED BY <1>2, <2>1 DEF TransitionWrite, Keep
<1>3. ASSUME NEW p \in Patches, "patch" \in Ops, q.write = PatchWrite(p)
      PROVE  KeepsInvoice(q.write) /\ q.write.archived # "set"
  BY <1>3 DEF PatchesLeave, PatchWrite, NoWrite, Keep
<1>4. CASE \E stage \in Stages : q.write = [NoWrite EXCEPT !.stage = stage]
  BY <1>4 DEF NoWrite, Keep
<1>5. CASE \/ job[j].status = "closed" /\ q.write = [NoWrite EXCEPT !.archived = "set"]
           \/ q.write = [NoWrite EXCEPT !.archived = "null"]
  BY <1>5 DEF NoWrite, Keep
<1>6. CASE q.write \in {CheckInWrite, QcWrite, LinkWrite, ApproveWrite}
  BY <1>6 DEF CheckInWrite, QcWrite, LinkWrite, ApproveWrite, NoWrite, Keep
<1>7. ASSUME NEW v, q.write = VerdictWrite(v)
      PROVE  KeepsInvoice(q.write) /\ q.write.archived # "set"
  BY <1>7 DEF VerdictWrite, NoWrite, Keep
<1> QED BY <1>1, <1>2, <1>3, <1>4, <1>5, <1>6, <1>7 DEF Decides

\* Whatever endpoints interleave, a closed job and an archived one have
\* invoiced_at, as long as no PATCH body moves a job to closed.
THEOREM ClosedInvoiced ==
  ASSUME PatchesLeave({"closed"})
  PROVE  Spec => []ClosedOrArchivedIsInvoiced
<1>1. Init => InvoicedInv
  BY DEF Init, InvoicedInv, ClosedOrArchivedIsInvoiced, KeepsInvoice, NewJob, Idle,
         NoWrite, Keep
<1>2. Base /\ InvoicedInv /\ [Next]_vars => InvoicedInv'
  <2> SUFFICES ASSUME Base, InvoicedInv, [Next]_vars PROVE InvoicedInv'
    OBVIOUS
  <2>0. Moves /\ \A r \in Reqs : RequestMoves(r)
    BY NextMoves DEF Base
  <2>1. ASSUME NEW j \in Jobs
        PROVE  /\ job'[j].status = "closed" \/ job'[j].archived = "set"
                    => job'[j].invoiced = "set"
               /\ Exists(j) /\ job[j].invoiced = "set" => job'[j].invoiced = "set"
    <3>1. job[j] \in Rows
      BY DEF Base, TypeOK
    <3>2. job[j].status = "closed" \/ job[j].archived = "set" => job[j].invoiced = "set"
      BY DEF InvoicedInv, ClosedOrArchivedIsInvoiced
    <3>3. ASSUME NEW r \in Reqs, Written(r, j)
          PROVE  /\ job'[j].status = "closed" \/ job'[j].archived = "set"
                      => job'[j].invoiced = "set"
                 /\ job[j].invoiced = "set" => job'[j].invoiced = "set"
      <4>1. /\ KeepsInvoice(req[r].write)
            /\ req[r].write.archived = "set" => job[j].invoiced = "set"
        BY <3>3 DEF InvoicedInv, Written, Batches
      <4> QED
        BY <3>1, <3>2, <3>3, <4>1 DEF Written, KeepsInvoice, Put, Over, Writes, Stamps, Keep
    <3> QED BY <2>0, <3>2, <3>3, EachJobMoves, RowMoves DEF Base, Kept
  <2>2. ASSUME NEW r \in Reqs
        PROVE  /\ KeepsInvoice(req'[r].write)
               /\ req'[r].op # "idle" /\ req'[r].write.archived = "set"
                    => job'[req'[r].job].invoiced = "set"
    <3>1. CASE \E j \in Jobs : OnlyRequests /\ Decides(j, req'[r])
      <4>1. PICK j \in Jobs : OnlyRequests /\ Decides(j, req'[r])
        BY <3>1
      <4>2. job[j].status = "closed" => job[j].invoiced = "set"
        BY DEF InvoicedInv, ClosedOrArchivedIsInvoiced
      <4>3. req'[r].job = j /\ job' = job
        BY <4>1 DEF Decides, OnlyRequests
      <4> QED BY <4>1, <4>2, <4>3, DecidesInvoice
    <3>2. CASE ~\E j \in Jobs : OnlyRequests /\ Decides(j, req'[r])
      <4>1. req'[r].write \in {req[r].write, NoWrite}
        BY <2>0, <3>2, OwesOrDecides
      <4>2. KeepsInvoice(req[r].write) /\ KeepsInvoice(NoWrite) /\ NoWrite.archived # "set"
        BY DEF InvoicedInv, KeepsInvoice, NoWrite, Keep
      <4>3. ASSUME req'[r].op # "idle", req'[r].write.archived = "set"
            PROVE  job'[req'[r].job].invoiced = "set"
        <5>1. req[r].op # "idle" /\ req'[r].job = req[r].job
          BY <2>0, <3>2, <4>3, RequestJob
        <5>2. req[r].job \in Jobs /\ Exists(req[r].job)
          BY <5>1, OwedType DEF Base, InFlightExists
        <5>3. job[req[r].job].invoiced = "set"
          BY <4>1, <4>2, <4>3, <5>1 DEF InvoicedInv
        <5> QED BY <2>1, <5>1, <5>2, <5>3
      <4> QED BY <4>1, <4>2, <4>3
    <3> QED BY <3>1, <3>2
  <2> QED BY <2>1, <2>2 DEF InvoicedInv, ClosedOrArchivedIsInvoiced
<1>3. InvoicedInv => ClosedOrArchivedIsInvoiced
  BY DEF InvoicedInv
<1> QED BY <1>1, <1>2, <1>3, BaseInvariant, PTL DEF Spec

-----------------------------------------------------------------------------
(* An inspection belongs to a job that was checked in: no write in flight    *)
(* puts a job back to booked, and the request that is about to insert one    *)
(* has seen its job past booked, or has just moved it.                       *)

CheckedInInv ==
  /\ \A j \in inspection : job[j].status \notin {"booked", "none"}
  /\ \A r \in Reqs :
       /\ req[r].write.status # "booked"
       /\ req[r].op = "inspectBatch" => req[r].write = CheckInWrite
       /\ req[r].op = "inspectInsert" => job[req[r].job].status # "booked"

LEMMA DecidesCheckIn ==
  ASSUME TypeOK, PatchesLeave({"booked"}), NEW j \in Jobs, NEW q, Decides(j, q)
  PROVE  /\ q.write.status # "booked"
         /\ q.op = "inspectBatch" => q.write = CheckInWrite
         /\ q.op = "inspectInsert" => job[j].status # "booked"
<1> USE DEF Awaits
<1>1. ASSUME q.write = NoWrite PROVE q.write.status # "booked"
  BY <1>1 DEF NoWrite, Keep
<1>2. ASSUME NEW to \in Statuses, CanTransition(job[j].status, to),
             q.write = TransitionWrite(job[j], to)
      PROVE  q.write.status # "booked"
  <2>1. job[j].status \in Statuses
    BY DEF TypeOK, Rows, Decides, Exists
  <2>2. to # "booked"
    BY <1>2, <2>1 DEF CanTransition, Transitions, Statuses
  <2> QED BY <1>2, <2>2 DEF TransitionWrite
<1>3. ASSUME NEW p \in Patches, "patch" \in Ops, q.write = PatchWrite(p)
      PROVE  q.write.status # "booked"
  BY <1>3 DEF PatchesLeave, PatchWrite, NoWrite
<1>4. ASSUME \/ \E stage \in Stages : q.write = [NoWrite EXCEPT !.stage = stage]
             \/ q.write = [NoWrite EXCEPT !.archived = "set"]
             \/ q.write = [NoWrite EXCEPT !.archived = "null"]
      PROVE  q.write.status # "booked"
  BY <1>4 DEF NoWrite, Keep
<1>5. ASSUME q.write \in {CheckInWrite, QcWrite, LinkWrite, ApproveWrite}
      PROVE  q.write.status # "booked"
  BY <1>5 DEF CheckInWrite, QcWrite, LinkWrite, ApproveWrite, NoWrite, Keep
<1>6. ASSUME NEW v, q.write = VerdictWrite(v)
      PROVE  q.write.status # "booked"
  BY <1>6 DEF VerdictWrite, NoWrite, Keep
<1>7. q.write.status # "booked"
  BY <1>1, <1>2, <1>3, <1>4, <1>5, <1>6 DEF Decides
<1>8. /\ q.op = "inspectBatch" => q.write = CheckInWrite
      /\ q.op = "inspectInsert" => job[j].status # "booked"
  BY DEF Decides, Batches
<1> QED BY <1>7, <1>8

\* An inspection is inserted by a request that has the job checked in.
LEMMA InspectionMoves ==
  ASSUME [Next]_vars, NEW j \in inspection'
  PROVE  j \in inspection \/ \E r \in Reqs : req[r].op = "inspectInsert" /\ req[r].job = j
<1>1. ASSUME NEW r \in Reqs, InsertInspection(r)
      PROVE  j \in inspection \/ \E q \in Reqs : req[q].op = "inspectInsert" /\ req[q].job = j
  BY <1>1 DEF InsertInspection
<1>2. ASSUME NEW r \in Reqs, Step(r), ~InsertInspection(r) PROVE inspection' = inspection
  BY <1>2
  DEF Step, CommitBatch, ReadJobForInspection, CheckInBatch, ReadJobForQc, QcBatch,
      InsertQc, StoreResult, ReadJobForVerdict, LinkStatus, LinkEntry, SendLink,
      OnlyRequests
<1>3. ASSUME NEW r \in Reqs, NEW k \in Jobs, Start(r, k) PROVE inspection' = inspection
  BY <1>3
  DEF Start, StartTransition, StartUpdate, StartAssign, StartArchive, StartUnarchive,
      StartInspection, StartQc, StartQcSubmit, StartLink, StartDecide, OnlyRequests
<1>4. ASSUME \/ \E k \in Jobs : AtOnce(k)
             \/ \E r \in Reqs : Abort(r)
             \/ RemoveAll \/ ArchiveClosed \/ MarkNoShow \/ UNCHANGED vars
      PROVE  inspection' = inspection
  BY <1>4
  DEF AtOnce, Create, CreateUnlogged, Remove, ReopenQc, ReleasePortalUpdate, Abort,
      OnlyRequests, RemoveAll, ArchiveClosed, MarkNoShow, vars
<1> QED BY <1>1, <1>2, <1>3, <1>4 DEF Next

\* Whatever endpoints interleave, a job with an inspection is not waiting to be
\* checked in, as long as no PATCH body moves a job back to booked.
THEOREM InspectedIsCheckedIn ==
  ASSUME PatchesLeave({"booked"})
  PROVE  Spec => []InspectionMeansCheckedIn
<1>1. Init => CheckedInInv
  BY DEF Init, CheckedInInv, Idle, NoWrite, Keep
<1>2. Base /\ CheckedInInv /\ [Next]_vars => CheckedInInv'
  <2> SUFFICES ASSUME Base, CheckedInInv, [Next]_vars PROVE CheckedInInv'
    OBVIOUS
  <2>0. Moves /\ \A r \in Reqs : RequestMoves(r)
    BY NextMoves DEF Base
  <2>1. ASSUME NEW j \in Jobs, job[j].status \notin {"booked", "none"}
        PROVE  job'[j].status \notin {"booked", "none"}
    <3>1. ASSUME NEW r \in Reqs, Written(r, j)
          PROVE  job'[j].status \notin {"booked", "none"}
      <4>1. req[r].write.status \notin {"booked", "none"}
        BY <3>1 DEF CheckedInInv, Written, Writes, Statuses, Keep
      <4> QED BY <2>1, <3>1, <4>1 DEF Written, Put, Over
    <3> QED BY <2>0, <2>1, <3>1, EachJobMoves, RowMoves DEF Base, Kept, Exists
  <2>2. ASSUME NEW r \in Reqs, req[r].op = "inspectInsert"
        PROVE  req[r].job \in Jobs /\ job[req[r].job].status \notin {"booked", "none"}
    BY <2>2, OwedType DEF Base, InFlightExists, Exists, CheckedInInv
  <2>3. ASSUME NEW j \in inspection'
        PROVE  job'[j].status \notin {"booked", "none"}
    <3>1. j \in Jobs /\ job[j].status \notin {"booked", "none"}
      BY <2>2, InspectionMoves DEF CheckedInInv, Base, TypeOK
    <3> QED BY <2>1, <3>1
  <2>4. ASSUME NEW r \in Reqs
        PROVE  /\ req'[r].write.status # "booked"
               /\ req'[r].op = "inspectBatch" => req'[r].write = CheckInWrite
               /\ req'[r].op = "inspectInsert" => job'[req'[r].job].status # "booked"
    <3>0. req[r].write.status # "booked" /\ NoWrite.status # "booked"
      BY DEF CheckedInInv, NoWrite, Keep
    <3>1. ASSUME NEW j \in Jobs, OnlyRequests, Decides(j, req'[r])
          PROVE  /\ req'[r].write.status # "booked"
                 /\ req'[r].op = "inspectBatch" => req'[r].write = CheckInWrite
                 /\ req'[r].op = "inspectInsert" => job'[req'[r].job].status # "booked"
      <4>1. req'[r].job = j /\ job' = job
        BY <3>1 DEF Decides, OnlyRequests
      <4> QED BY <3>1, <4>1, DecidesCheckIn DEF Base
    <3>2. CASE req'[r] = req[r]
      BY <2>1, <2>2, <3>2 DEF CheckedInInv
    <3>3. CASE req'[r] = Idle
      BY <3>0, <3>3 DEF Idle
    <3>4. CASE BatchMoves(r)
      <4>1. req'[r].write = NoWrite /\ req'[r].op # "inspectBatch"
        BY <3>4 DEF BatchMoves, AfterBatch, Awaiting, Idle, Batches
      <4>2. ASSUME req'[r].op = "inspectInsert"
            PROVE  job'[req'[r].job].status # "booked"
        <5>1. req[r].op = "inspectBatch" /\ req'[r].job = req[r].job
          BY <3>4, <4>2 DEF BatchMoves, AfterBatch, Awaiting, Idle, Batches
        <5>2. req[r].job \in Jobs /\ req[r].write = CheckInWrite
          BY <5>1, OwedType DEF Base, CheckedInInv
        <5>3. job'[req[r].job] = Put(job[req[r].job], CheckInWrite)
          BY <3>4, <5>2 DEF BatchMoves, Commit, Base, TypeOK
        <5> QED BY <5>1, <5>3 DEF Put, Over, CheckInWrite, NoWrite, Keep
      <4> QED BY <3>0, <4>1, <4>2
    <3>5. CASE LinkMoves(r) \/ LinkLogs(r)
      <4>1. ASSUME LinkMoves(r)
            PROVE  req'[r].write = NoWrite /\ req'[r].op = "linkEntry"
        <5>1. req[r] \in Pending
          BY <4>1, OwedType DEF Base, LinkMoves
        <5> QED BY <4>1, <5>1 DEF LinkMoves, Pending
      <4>2. ASSUME LinkLogs(r)
            PROVE  req'[r].write = NoWrite /\ req'[r].op = "linkSend"
        BY <4>2 DEF LinkLogs, Awaiting
      <4> QED BY <3>0, <3>5, <4>1, <4>2
    <3>6. CASE req[r].op = "qcStore" /\ req'[r] = [req[r] EXCEPT !.op = "qcVerdict"]
      <4>1. req[r] \in Pending
        BY <3>6, OwedType DEF Base
      <4>2. req'[r].write = req[r].write /\ req'[r].op = "qcVerdict"
        BY <3>6, <4>1 DEF Pending
      <4> QED BY <3>0, <4>2
    <3> QED BY <2>0, <3>1, <3>2, <3>3, <3>4, <3>5, <3>6 DEF RequestMoves, GoesOn
  <2> QED BY <2>3, <2>4 DEF CheckedInInv
<1>3. CheckedInInv => InspectionMeansCheckedIn
  BY DEF CheckedInInv, InspectionMeansCheckedIn
<1> QED BY <1>1, <1>2, <1>3, BaseInvariant, PTL DEF Spec

-----------------------------------------------------------------------------
(* A recorded move is legal: it is decided with the write, from the status   *)
(* the handler read, and logged as decided.                                  *)

LegalEntry(e) == e = Entry("null", "booked") \/ LegalMove(e.from, e.to)

LegalInv ==
  /\ RecordedMovesAreLegal
  /\ \A r \in Reqs : req[r].entry = NoEntry \/ LegalEntry(req[r].entry)

LEMMA DecidesLegally ==
  ASSUME LifecycleAssumption, TypeOK, PatchesByTable,
         NEW j \in Jobs, NEW q, Decides(j, q)
  PROVE  q.entry = NoEntry \/ LegalEntry(q.entry)
<1> USE DEF Awaits, LegalEntry, Entry
<1>0. job[j].status \in Statuses
  BY DEF TypeOK, Rows, Decides, Exists
<1>1. ASSUME NEW to \in Statuses, CanTransition(job[j].status, to),
             q.entry = Entry(job[j].status, to)
      PROVE  LegalEntry(q.entry)
  BY <1>1 DEF LegalMove
<1>2. ASSUME NEW p \in Patches, "patch" \in Ops,
             p.status \in {Keep, job[j].status} \/ CanTransition(job[j].status, p.status),
             q.entry = PatchEntry(job[j], p)
      PROVE  q.entry = NoEntry \/ LegalEntry(q.entry)
  <2>1. PatchStatus(p) = p.status
    BY <1>2 DEF PatchesByTable, PatchStatus, Over, Keep
  <2> QED BY <1>2, <2>1 DEF PatchEntry, LegalMove
<1>3. CASE job[j].status = "booked" /\ q.entry = Entry("booked", "checking")
  BY <1>3 DEF LegalMove, CanTransition, Transitions
<1>4. CASE /\ job[j].status \in {"in_progress", "waiting_parts"}
           /\ q.entry = Entry(job[j].status, "quality_check")
  BY <1>4 DEF LegalMove, ForcedMove, CanTransition, Transitions
<1>5. ASSUME NEW v, q.entry = Entry("quality_check", VerdictWrite(v).status)
      PROVE  LegalEntry(q.entry)
  <2>1. VerdictWrite(v).status \in {"ready", "in_progress"}
    BY DEF VerdictWrite, NoWrite
  <2> QED BY <1>5, <2>1 DEF LegalMove, CanTransition, Transitions
<1>6. CASE /\ job[j].status \notin Terminal
           /\ \E to \in {"estimate_sent", "approved"} : q.entry = Entry(job[j].status, to)
  BY <1>6 DEF LegalMove, ForcedMove
<1> QED BY <1>1, <1>2, <1>3, <1>4, <1>5, <1>6 DEF Decides

\* Whatever endpoints interleave, every recorded move is one that the table or
\* a forced move allows, as long as no PATCH body names a lane or a stage.
THEOREM MovesLegal ==
  ASSUME PatchesByTable
  PROVE  Spec => []RecordedMovesAreLegal
<1>1. Init => LegalInv
  BY DEF Init, LegalInv, RecordedMovesAreLegal, Idle
<1>2. Base /\ LegalInv /\ [Next]_vars => LegalInv'
  <2> SUFFICES ASSUME Base, LegalInv, [Next]_vars PROVE LegalInv'
    OBVIOUS
  <2>0. Moves /\ \A r \in Reqs : RequestMoves(r)
    BY NextMoves DEF Base
  <2>1. ASSUME NEW j \in Jobs, NEW i \in 1..Len(history'[j])
        PROVE  LegalEntry(history'[j][i])
    <3>1. history[j] \in Seq(Entries) /\ \A k \in 1..Len(history[j]) : LegalEntry(history[j][k])
      BY DEF Base, TypeOK, LegalInv, RecordedMovesAreLegal, LegalEntry
    <3>2. ASSUME NEW e \in Entries, LegalEntry(e), history'[j] = Append(history[j], e)
          PROVE  LegalEntry(history'[j][i])
      <4>1. /\ Len(history'[j]) = Len(history[j]) + 1 /\ Len(history[j]) \in Nat
            /\ \A k \in 1..Len(history[j]) : history'[j][k] = history[j][k]
            /\ history'[j][Len(history[j]) + 1] = e
        BY <3>1, <3>2
      <4> QED BY <3>1, <3>2, <4>1
    <3>3. Entry("null", "booked") \in Entries /\ LegalEntry(Entry("null", "booked"))
      BY DEF Entry, Entries, Statuses, LegalEntry
    <3>4. \A r \in Reqs : req[r].entry = NoEntry \/ LegalEntry(req[r].entry)
      BY DEF LegalInv
    <3>5. \/ history'[j] = history[j]
          \/ \E r \in Reqs : /\ req[r].entry \in Entries \cup {NoEntry}
                             /\ history'[j] = Log(history[j], req[r].entry)
          \/ history'[j] = Append(history[j], Entry("null", "booked"))
      BY <2>0, EachJobMoves, LoggedOrSame DEF Base
    <3> QED BY <3>1, <3>2, <3>3, <3>4, <3>5 DEF Log
  <2>2. ASSUME NEW r \in Reqs
        PROVE  req'[r].entry = NoEntry \/ LegalEntry(req'[r].entry)
    BY <2>0, OwesOrDecides, DecidesLegally, LifecycleAssumption DEF LegalInv, Base
  <2> QED BY <2>1, <2>2 DEF LegalInv, RecordedMovesAreLegal, LegalEntry
<1>3. LegalInv => RecordedMovesAreLegal
  BY DEF LegalInv
<1> QED BY <1>1, <1>2, <1>3, BaseInvariant, PTL DEF Spec

-----------------------------------------------------------------------------
(* One request at a time.  While it is in flight nothing but the scheduler   *)
(* and the removals touch its row, so what it owes still fits the row.       *)

\* The scheduler made a no-show of job j.
MadeNoShow(j) ==
  /\ "noShow" \in Ops
  /\ job[j].status = "booked"
  /\ job'[j].status = "no_show" /\ job'[j].stage = "null"
  /\ job'[j].parts = job[j].parts

\* What request r owes is what it owed, and nobody wrote its job meanwhile.
StillOwes(r) ==
  /\ req[r].op # "idle" /\ req[r].job \in Jobs
  /\ req'[r].job = req[r].job
  /\ req'[r].write = req[r].write /\ req'[r].entry = req[r].entry
  /\ req[r].op = "linkEntry" <=> req'[r].op = "linkEntry"
  /\ req[r].op = "linkStatus" <=> req'[r].op = "linkStatus"
  /\ history'[req[r].job] = history[req[r].job]
  /\ Kept(req[r].job) \/ MadeNoShow(req[r].job)

LEMMA OneAtATime ==
  ASSUME OneRequest, Base, Moves, NEW r \in Reqs, RequestMoves(r), req'[r].op # "idle"
  PROVE  \/ \E j \in Jobs : OnlyRequests /\ Decides(j, req'[r])
         \/ /\ req'[r].write = NoWrite /\ req'[r].entry = NoEntry
            /\ req'[r].op \notin {"linkStatus", "linkEntry"}
         \/ LinkMoves(r)
         \/ StillOwes(r)
<1> DEFINE j == req[r].job
<1>1. CASE req'[r] = req[r]
  <2>1. req[r].op # "idle" /\ j \in Jobs /\ Exists(j)
    BY <1>1, OwedType DEF Base, InFlightExists
  <2>2. ASSUME NEW q \in Reqs PROVE ~BatchMoves(q) /\ ~LinkMoves(q) /\ ~LinkLogs(q)
    <3>1. q = r
      BY DEF OneRequest
    <3>2. ASSUME BatchMoves(r) PROVE FALSE
      BY <1>1, <3>2 DEF BatchMoves, AfterBatch, Awaiting, Idle, Batches
    <3>3. ASSUME LinkMoves(r) PROVE FALSE
      <4>1. req[r] \in Pending
        BY <2>1, OwedType DEF Base
      <4> QED BY <1>1, <3>3, <4>1 DEF LinkMoves, Pending
    <3>4. ASSUME LinkLogs(r) PROVE FALSE
      BY <1>1, <3>4 DEF LinkLogs, Awaiting
    <3> QED BY <3>1, <3>2, <3>3, <3>4
  <2>3. history'[j] = history[j]
    BY <2>1, <2>2, EachJobMoves DEF JobMoves, Base
  <2>4. ASSUME NEW q \in Reqs PROVE ~Written(q, j)
    <3>1. q = r
      BY DEF OneRequest
    <3> QED BY <1>1, <3>1 DEF Written
  <2>5. Kept(j) \/ MadeNoShow(j)
    BY <2>1, <2>4, EachJobMoves, RowMoves DEF Base, MadeNoShow
  <2> QED BY <1>1, <2>1, <2>3, <2>5 DEF StillOwes
<1>2. CASE req'[r] = Idle
  BY <1>2 DEF Idle
<1>3. CASE BatchMoves(r)
  BY <1>3 DEF BatchMoves, AfterBatch, Awaiting, Idle, Batches
<1>4. CASE LinkLogs(r)
  BY <1>4 DEF LinkLogs, Awaiting
<1>5. CASE /\ req[r].op = "qcStore"
           /\ req'[r] = [req[r] EXCEPT !.op = "qcVerdict"]
           /\ UNCHANGED <<job, history>>
  <2>1. req[r] \in Pending /\ j \in Jobs
    BY <1>5, OwedType DEF Base
  <2>2. /\ req'[r].op = "qcVerdict" /\ req'[r].job = j
        /\ req'[r].write = req[r].write /\ req'[r].entry = req[r].entry
    BY <1>5, <2>1 DEF Pending
  <2> QED BY <1>5, <2>1, <2>2 DEF StillOwes, Kept
<1> QED BY <1>1, <1>2, <1>3, <1>4, <1>5 DEF RequestMoves, GoesOn

-----------------------------------------------------------------------------
(* The two boards.  A write in flight that moves the status names the        *)
(* workshop lane of the new status, and one that keeps the status may at     *)
(* most put back the QC or handover lane it read.                            *)

Lanes == {"quality_check", "ready_handover"}

FitsLane(w, row) ==
  /\ w.stage = Keep => w.status = Keep
  /\ w.stage \in Lanes
       => IF w.status = Keep THEN w.stage = row.stage
                             ELSE w.stage = StageFor(w.status)

LanesInv ==
  /\ LanesAgree
  /\ \A r \in Reqs : req[r].op # "idle" => FitsLane(req[r].write, job[req[r].job])

LEMMA DecidesLane ==
  ASSUME LifecycleAssumption, TypeOK, PatchesPlaceCar, NEW j \in Jobs, NEW q,
         Decides(j, q)
  PROVE  FitsLane(q.write, job[j])
<1> USE DEF FitsLane, Awaits, Lanes
<1>1. CASE q.write = NoWrite
  BY <1>1 DEF NoWrite, Keep
<1>2. ASSUME NEW to \in Statuses, q.write = TransitionWrite(job[j], to)
      PROVE  FitsLane(q.write, job[j])
  BY <1>2 DEF TransitionWrite, StageFor, Statuses, Keep
<1>3. ASSUME NEW p \in Patches, "patch" \in Ops, q.write = PatchWrite(p)
      PROVE  FitsLane(q.write, job[j])
  <2>1. /\ p \in PatchBodies
        /\ q.write.status = PatchStatus(p)
        /\ q.write.stage = IF p.parts = "parts_ready" THEN "shop"
                           ELSE IF p.lane # Keep THEN StageFor(p.lane) ELSE p.stage
    BY <1>3 DEF LifecycleAssumption, PatchWrite, NoWrite
  <2>2. CASE p.parts = "parts_ready"
    BY <2>1, <2>2 DEF Keep
  <2>3. CASE p.parts # "parts_ready" /\ p.lane # Keep
    <3>1. p.stage = Keep /\ PatchStatus(p) = p.lane
      BY <1>3, <2>3 DEF PatchesPlaceCar, PatchStatus, Over, Keep
    <3> QED BY <2>1, <2>3, <3>1 DEF StageFor, Keep
  <2>4. CASE p.parts # "parts_ready" /\ p.lane = Keep /\ p.stage # Keep
    BY <2>1, <2>4 DEF PatchStatus, PatchBodies, Stages, StageFor, Keep
  <2>5. CASE p.parts # "parts_ready" /\ p.lane = Keep /\ p.stage = Keep
    <3>1. p.status = Keep
      BY <1>3, <2>5 DEF PatchesPlaceCar
    <3> QED BY <2>1, <2>5, <3>1 DEF PatchStatus, Over, Keep
  <2> QED BY <2>2, <2>3, <2>4, <2>5
<1>4. ASSUME NEW stage \in Stages, stage = job[j].stage \/ stage = "shop",
             q.write = [NoWrite EXCEPT !.stage = stage]
      PROVE  FitsLane(q.write, job[j])
  BY <1>4 DEF NoWrite, Stages, Keep
<1>5. CASE \E stamp \in Stamps : q.write = [NoWrite EXCEPT !.archived = stamp]
  BY <1>5 DEF NoWrite, Keep
<1>6. CASE q.write \in {CheckInWrite, QcWrite, LinkWrite, ApproveWrite}
  BY <1>6 DEF CheckInWrite, QcWrite, LinkWrite, ApproveWrite, NoWrite, Keep, StageFor
<1>7. ASSUME NEW v, q.write = VerdictWrite(v)
      PROVE  FitsLane(q.write, job[j])
  BY <1>7 DEF VerdictWrite, NoWrite, Keep, StageFor
<1> QED BY <1>1, <1>2, <1>3, <1>4, <1>5, <1>6, <1>7 DEF Decides, Stamps

\* With one request at a time the QC and handover lanes of the two boards
\* agree, as long as every PATCH body that moves the status places the car too.
THEOREM LanesAgreeAlone ==
  ASSUME OneRequest, PatchesPlaceCar
  PROVE  Spec => []LanesAgree
<1>1. Init => LanesInv
  BY DEF Init, LanesInv, LanesAgree, NewJob, Idle
<1>2. Base /\ LanesInv /\ [Next]_vars => LanesInv'
  <2> SUFFICES ASSUME Base, LanesInv, [Next]_vars PROVE LanesInv'
    OBVIOUS
  <2>0. Moves /\ \A r \in Reqs : RequestMoves(r)
    BY NextMoves DEF Base
  <2>1. ASSUME NEW j \in Jobs, job'[j].stage \in Lanes
        PROVE  job'[j].stage = StageFor(job'[j].status)
    <3>1. /\ job[j] \in Rows
          /\ job[j].stage \in Lanes => job[j].stage = StageFor(job[j].status)
      BY DEF Base, TypeOK, LanesInv, LanesAgree, Lanes
    <3>2. ASSUME NEW r \in Reqs, Written(r, j)
          PROVE  job'[j].stage = StageFor(job'[j].status)
      <4>1. FitsLane(req[r].write, job[j])
        BY <3>2 DEF LanesInv, Written, Batches
      <4> QED BY <2>1, <3>1, <3>2, <4>1 DEF Written, FitsLane, Put, Over
    <3> QED BY <2>0, <2>1, <3>1, <3>2, EachJobMoves, RowMoves DEF Base, Kept, Lanes
  <2>2. ASSUME NEW r \in Reqs, req'[r].op # "idle"
        PROVE  FitsLane(req'[r].write, job'[req'[r].job])
    <3>1. ASSUME NEW j \in Jobs, OnlyRequests, Decides(j, req'[r])
          PROVE  FitsLane(req'[r].write, job'[req'[r].job])
      <4>1. req'[r].job = j /\ job' = job
        BY <3>1 DEF Decides, OnlyRequests
      <4> QED BY <3>1, <4>1, DecidesLane, LifecycleAssumption DEF Base
    <3>2. CASE req'[r].write = NoWrite
      BY <3>2 DEF FitsLane, NoWrite, Lanes, Keep
    <3>3. CASE LinkMoves(r)
      <4>1. req'[r].write = NoWrite
        <5>1. req[r] \in Pending
          BY <3>3, OwedType DEF Base, LinkMoves
        <5> QED BY <3>3, <5>1 DEF LinkMoves, Pending
      <4> QED BY <3>2, <4>1
    <3>4. CASE StillOwes(r)
      <4> DEFINE j == req[r].job
      <4>1. /\ j \in Jobs /\ FitsLane(req[r].write, job[j])
            /\ req'[r].write = req[r].write /\ req'[r].job = j
        BY <3>4 DEF StillOwes, LanesInv
      <4>2. CASE Kept(j)
        BY <4>1, <4>2 DEF Kept, FitsLane
      <4>3. CASE MadeNoShow(j)
        <5>1. job[j].stage \notin Lanes
          BY <4>1, <4>3 DEF LanesInv, LanesAgree, MadeNoShow, StageFor, Lanes
        <5> QED BY <4>1, <5>1 DEF FitsLane
      <4> QED BY <3>4, <4>2, <4>3 DEF StillOwes
    <3> QED BY <2>0, <2>2, <3>1, <3>2, <3>3, <3>4, OneAtATime
  <2> QED BY <2>1, <2>2 DEF LanesInv, LanesAgree, Lanes
<1>3. LanesInv => LanesAgree
  BY DEF LanesInv
<1> QED BY <1>1, <1>2, <1>3, BaseInvariant, PTL DEF Spec

-----------------------------------------------------------------------------
(* Parts that have arrived.  A write in flight that parks the car for parts  *)
(* marks them ordered; one that keeps its status leaves it in the queue, and *)
(* puts it there when it reports the parts.                                  *)

FitsParts(w, row) ==
  /\ w.status = "waiting_parts"
       => w.parts = "ordered" \/ (w.parts = Keep /\ row.parts = "ordered")
  /\ w.status = Keep
       => /\ w.parts = "parts_ready" => w.stage = "shop"
          /\ \/ w.stage \in {Keep, "shop", row.stage}
             \/ row.status # "waiting_parts"

PartsInv ==
  /\ ReadyPartsAreQueued
  /\ \A r \in Reqs : req[r].op # "idle" => FitsParts(req[r].write, job[req[r].job])

LEMMA DecidesParts ==
  ASSUME LifecycleAssumption, TypeOK, PatchesLeave({"waiting_parts"}),
         NEW j \in Jobs, NEW q, Decides(j, q)
  PROVE  FitsParts(q.write, job[j])
<1> USE DEF FitsParts, Awaits
<1>1. CASE q.write = NoWrite
  BY <1>1 DEF NoWrite, Keep
<1>2. ASSUME NEW to \in Statuses, q.write = TransitionWrite(job[j], to)
      PROVE  FitsParts(q.write, job[j])
  BY <1>2 DEF TransitionWrite, Statuses, Keep
<1>3. ASSUME NEW p \in Patches, "patch" \in Ops, q.write = PatchWrite(p)
      PROVE  FitsParts(q.write, job[j])
  <2>1. /\ p \in PatchBodies
        /\ q.write.status = PatchStatus(p) /\ PatchStatus(p) # "waiting_parts"
        /\ q.write.parts = p.parts
        /\ q.write.stage = IF p.parts = "parts_ready" THEN "shop"
                           ELSE IF p.lane # Keep THEN StageFor(p.lane) ELSE p.stage
    BY <1>3 DEF LifecycleAssumption, PatchWrite, NoWrite, PatchesLeave
  <2>2. CASE PatchStatus(p) # Keep
    BY <2>1, <2>2 DEF Keep
  <2>3. CASE PatchStatus(p) = Keep
    <3>1. p.lane = Keep /\ p.stage = Keep
      BY <2>1, <2>3 DEF PatchStatus, PatchBodies, Stages, Over, Keep
    <3> QED BY <2>1, <2>3, <3>1 DEF Keep
  <2> QED BY <2>2, <2>3
<1>4. ASSUME NEW stage \in Stages, stage = job[j].stage \/ stage = "shop",
             q.write = [NoWrite EXCEPT !.stage = stage]
      PROVE  FitsParts(q.write, job[j])
  BY <1>4 DEF NoWrite, Keep
<1>5. CASE \E stamp \in Stamps : q.write = [NoWrite EXCEPT !.archived = stamp]
  BY <1>5 DEF NoWrite, Keep
<1>6. CASE q.write \in {CheckInWrite, QcWrite, LinkWrite, ApproveWrite}
  BY <1>6 DEF CheckInWrite, QcWrite, LinkWrite, ApproveWrite, NoWrite, Keep
<1>7. ASSUME NEW v, q.write = VerdictWrite(v)
      PROVE  FitsParts(q.write, job[j])
  BY <1>7 DEF VerdictWrite, NoWrite, Keep
<1> QED BY <1>1, <1>2, <1>3, <1>4, <1>5, <1>6, <1>7 DEF Decides, Stamps

\* The statement that links a job leaves its request with no further write.
LEMMA LinkMovesOn ==
  ASSUME Base, NEW r \in Reqs, LinkMoves(r)
  PROVE  /\ req[r].op = "linkStatus" /\ req'[r].op = "linkEntry"
         /\ req[r].job \in Jobs /\ req'[r].job = req[r].job
         /\ req'[r].write = NoWrite /\ req'[r].entry = req[r].entry
         /\ req[r].write \in Writes
         /\ job'[req[r].job] = Put(job[req[r].job], req[r].write)
         /\ history' = history
<1>1. req[r] \in Pending /\ req[r].job \in Jobs /\ req[r].write \in Writes
  BY OwedType DEF Base, LinkMoves
<1> QED BY <1>1 DEF LinkMoves, Pending, Base, TypeOK

\* With one request at a time a car whose parts have arrived is back in the
\* workshop queue, as long as no PATCH body parks a car for parts.
THEOREM PartsQueuedAlone ==
  ASSUME OneRequest, PatchesLeave({"waiting_parts"})
  PROVE  Spec => []ReadyPartsAreQueued
<1>1. Init => PartsInv
  BY DEF Init, PartsInv, ReadyPartsAreQueued, NewJob, Idle
<1>2. Base /\ PartsInv /\ [Next]_vars => PartsInv'
  <2> SUFFICES ASSUME Base, PartsInv, [Next]_vars PROVE PartsInv'
    OBVIOUS
  <2>0. Moves /\ \A r \in Reqs : RequestMoves(r)
    BY NextMoves DEF Base
  <2>1. ASSUME NEW j \in Jobs, job'[j].status = "waiting_parts",
               job'[j].parts = "parts_ready"
        PROVE  job'[j].stage = "shop"
    <3>1. /\ job[j] \in Rows
          /\ job[j].status = "waiting_parts" /\ job[j].parts = "parts_ready"
               => job[j].stage = "shop"
      BY DEF Base, TypeOK, PartsInv, ReadyPartsAreQueued
    <3>2. ASSUME NEW r \in Reqs, Written(r, j)
          PROVE  job'[j].stage = "shop"
      <4>1. FitsParts(req[r].write, job[j])
        BY <3>2 DEF PartsInv, Written, Batches
      <4>2. CASE req[r].write.status = Keep
        BY <2>1, <3>1, <3>2, <4>1, <4>2 DEF Written, FitsParts, Put, Over, Keep
      <4>3. CASE req[r].write.status # Keep
        BY <2>1, <3>1, <3>2, <4>1, <4>3 DEF Written, FitsParts, Put, Over, Keep
      <4> QED BY <4>2, <4>3
    <3> QED BY <2>0, <2>1, <3>1, <3>2, EachJobMoves, RowMoves DEF Base, Kept
  <2>2. ASSUME NEW r \in Reqs, req'[r].op # "idle"
        PROVE  FitsParts(req'[r].write, job'[req'[r].job])
    <3>1. ASSUME NEW j \in Jobs, OnlyRequests, Decides(j, req'[r])
          PROVE  FitsParts(req'[r].write, job'[req'[r].job])
      <4>1. req'[r].job = j /\ job' = job
        BY <3>1 DEF Decides, OnlyRequests
      <4> QED BY <3>1, <4>1, DecidesParts, LifecycleAssumption DEF Base
    <3>2. CASE req'[r].write = NoWrite
      BY <3>2 DEF FitsParts, NoWrite, Keep
    <3>3. CASE StillOwes(r)
      <4> DEFINE j == req[r].job
      <4>1. /\ j \in Jobs /\ FitsParts(req[r].write, job[j])
            /\ req'[r].write = req[r].write /\ req'[r].job = j
        BY <3>3 DEF StillOwes, PartsInv
      <4>2. CASE Kept(j)
        BY <4>1, <4>2 DEF Kept, FitsParts
      <4>3. CASE MadeNoShow(j)
        BY <4>1, <4>3 DEF MadeNoShow, FitsParts
      <4> QED BY <3>3, <4>2, <4>3 DEF StillOwes
    <3> QED BY <2>0, <2>2, <3>1, <3>2, <3>3, OneAtATime, LinkMovesOn
  <2> QED BY <2>1, <2>2 DEF PartsInv, ReadyPartsAreQueued
<1>3. PartsInv => ReadyPartsAreQueued
  BY DEF PartsInv
<1> QED BY <1>1, <1>2, <1>3, BaseInvariant, PTL DEF Spec

-----------------------------------------------------------------------------
(* The abstract machine.  With one request at a time the status a handler    *)
(* read is the status its write meets, so what it decided is a move of the   *)
(* machine, or leaves the status as it is.                                   *)

FitsMachine(w, row) ==
  w.status \in {Keep, row.status} \/ LegalMove(row.status, w.status)

MachineInv ==
  \A r \in Reqs : req[r].op # "idle" => FitsMachine(req[r].write, job[req[r].job])

LEMMA DecidesMachine ==
  ASSUME TypeOK, PatchesByTable, NEW j \in Jobs, NEW q, Decides(j, q)
  PROVE  FitsMachine(q.write, job[j])
<1> USE DEF FitsMachine, Awaits
<1>1. CASE q.write = NoWrite
  BY <1>1 DEF NoWrite, Keep
<1>2. ASSUME NEW to \in Statuses, CanTransition(job[j].status, to),
             q.write = TransitionWrite(job[j], to)
      PROVE  FitsMachine(q.write, job[j])
  BY <1>2 DEF TransitionWrite, LegalMove
<1>3. ASSUME NEW p \in Patches, "patch" \in Ops, q.write = PatchWrite(p),
             p.status \in {Keep, job[j].status} \/ CanTransition(job[j].status, p.status)
      PROVE  FitsMachine(q.write, job[j])
  <2>1. q.write.status = p.status
    BY <1>3 DEF PatchesByTable, PatchWrite, NoWrite, PatchStatus, Over, Keep
  <2> QED BY <1>3, <2>1 DEF LegalMove
<1>4. CASE \/ \E stage \in Stages : q.write = [NoWrite EXCEPT !.stage = stage]
           \/ \E stamp \in Stamps : q.write = [NoWrite EXCEPT !.archived = stamp]
  BY <1>4 DEF NoWrite
<1>5. CASE job[j].status = "booked" /\ q.write = CheckInWrite
  BY <1>5 DEF CheckInWrite, NoWrite, LegalMove, CanTransition, Transitions
<1>6. CASE job[j].status \in {"in_progress", "waiting_parts"} /\ q.write = QcWrite
  BY <1>6 DEF QcWrite, NoWrite, LegalMove, ForcedMove, CanTransition, Transitions
<1>7. CASE job[j].status \notin Terminal /\ q.write \in {LinkWrite, ApproveWrite}
  BY <1>7 DEF LinkWrite, ApproveWrite, NoWrite, LegalMove, ForcedMove
<1>8. ASSUME NEW v, job[j].status = "quality_check", q.write = VerdictWrite(v)
      PROVE  FitsMachine(q.write, job[j])
  BY <1>8 DEF VerdictWrite, NoWrite, LegalMove, CanTransition, Transitions
<1> QED BY <1>1, <1>2, <1>3, <1>4, <1>5, <1>6, <1>7, <1>8 DEF Decides, Stamps

\* With one request at a time and no scheduler, the statuses of the jobs are
\* those of the abstract machine: every step is one of its moves or a stutter,
\* as long as no PATCH body names a lane or a stage.
THEOREM FollowsMachineAlone ==
  ASSUME OneRequest, PatchesByTable, "noShow" \notin Ops
  PROVE  Spec => FollowsMachine
<1> DEFINE st == [j \in Jobs |-> job[j].status]
<1>1. Init => Machine!Init
  BY DEF Init, Machine!Init, NewJob
<1>2. Init => MachineInv
  BY DEF Init, MachineInv, Idle
<1>3. Base /\ MachineInv /\ [Next]_vars => MachineInv'
  <2> SUFFICES ASSUME Base, MachineInv, [Next]_vars,
                      NEW r \in Reqs, req'[r].op # "idle"
               PROVE  FitsMachine(req'[r].write, job'[req'[r].job])
    BY DEF MachineInv
  <2>0. Moves /\ RequestMoves(r)
    BY NextMoves DEF Base
  <2>1. ASSUME NEW j \in Jobs, OnlyRequests, Decides(j, req'[r])
        PROVE  FitsMachine(req'[r].write, job'[req'[r].job])
    <3>1. req'[r].job = j /\ job' = job
      BY <2>1 DEF Decides, OnlyRequests
    <3> QED BY <2>1, <3>1, DecidesMachine DEF Base
  <2>2. CASE req'[r].write = NoWrite
    BY <2>2 DEF FitsMachine, NoWrite
  <2>3. CASE StillOwes(r)
    <3>1. /\ FitsMachine(req[r].write, job[req[r].job])
          /\ req'[r].write = req[r].write /\ req'[r].job = req[r].job
          /\ Kept(req[r].job)
      BY <2>3 DEF StillOwes, MachineInv, MadeNoShow
    <3> QED BY <3>1 DEF Kept, FitsMachine
  <2> QED BY <2>0, <2>1, <2>2, <2>3, OneAtATime, LinkMovesOn
<1>4. Base /\ Base' /\ MachineInv /\ [Next]_vars => [Machine!Next]_st
  <2> SUFFICES ASSUME Base, Base', MachineInv, [Next]_vars PROVE [Machine!Next]_st
    OBVIOUS
  <2>0. Moves
    BY NextMoves DEF Base
  <2>1. ASSUME NEW r \in Reqs, BatchMoves(r) \/ LinkMoves(r)
        PROVE  [Machine!Next]_st
    <3> DEFINE j == req[r].job
               w == req[r].write
    <3>1. req[r].op # "idle"
      BY <2>1 DEF BatchMoves, LinkMoves, Batches
    <3>2. j \in Jobs /\ Exists(j) /\ w \in Writes /\ FitsMachine(w, job[j])
      BY <3>1, OwedType DEF Base, InFlightExists, MachineInv
    <3>3. job' = [job EXCEPT ![j] = Put(job[j], w)]
      BY <2>1 DEF BatchMoves, LinkMoves, Commit
    <3>4. st' = [st EXCEPT ![j] = Over(w.status, job[j].status)]
      BY <3>2, <3>3 DEF Base, TypeOK, Put
    <3>5. CASE w.status \in {Keep, job[j].status}
      BY <3>2, <3>4, <3>5 DEF Over
    <3>6. CASE w.status \notin {Keep, job[j].status}
      <4>1. /\ job[j].status \in Statuses /\ w.status \in Statuses
            /\ LegalMove(job[j].status, w.status)
        <5>1. job[j] \in Rows /\ job[j].status # "none"
          BY <3>2 DEF Base, TypeOK, Exists
        <5> QED BY <3>2, <3>6, <5>1 DEF FitsMachine, Rows, Writes
      <4>2. st[j] = job[j].status /\ st' = [st EXCEPT ![j] = w.status]
        BY <3>2, <3>4, <3>6 DEF Over
      <4>3. /\ st[j] \in Machine!Statuses /\ w.status \in Machine!Statuses
            /\ Machine!LegalMove(st[j], w.status)
        BY <4>1, <4>2 DEF Machine!Statuses, Machine!LegalMove, Machine!ForcedMove,
             Machine!CanTransition, Machine!Transitions, Machine!Terminal, Statuses,
             LegalMove, ForcedMove, CanTransition, Transitions, Terminal
      <4>4. PICK k \in Jobs : k = j
        BY <3>2
      <4>5. PICK to \in Machine!Statuses : to = w.status
        BY <4>3
      <4>6. Machine!Move(k, to)
        BY <4>2, <4>3, <4>4, <4>5 DEF Machine!Move
      <4> QED BY <4>6 DEF Machine!Next
    <3> QED BY <3>5, <3>6
  <2>2. ASSUME NEW j \in Jobs, Appears(j) PROVE [Machine!Next]_st
    <3>1. PICK stage \in {"null", "shop"} : job' = [job EXCEPT ![j] = NewJob(stage)]
      BY <2>2 DEF Appears
    <3>2. NewJob(stage).status = "booked" /\ job[j].status = "none"
      BY <2>2 DEF NewJob, Appears, Exists
    <3>3. \A k \in Jobs : job'[k].status = IF k = j THEN "booked" ELSE job[k].status
      BY <3>1, <3>2 DEF Base, TypeOK
    <3>4. st' = [st EXCEPT ![j] = "booked"] /\ st[j] = "none"
      BY <3>2, <3>3
    <3>5. Machine!Book(j)
      BY <3>4 DEF Machine!Book
    <3> QED BY <3>5 DEF Machine!Next
  <2>3. CASE \/ \E r \in Reqs : LinkLogs(r)
             \/ \A j \in Jobs : Flagged(j) \/ NotShown(j)
    <3>1. ASSUME NEW j \in Jobs PROVE job'[j].status = job[j].status
      <4>1. job[j] \in Rows
        BY DEF Base, TypeOK
      <4> QED BY <2>3, <4>1 DEF LinkLogs, Flagged, NotShown, Rows
    <3> QED BY <3>1
  <2> QED BY <2>0, <2>1, <2>2, <2>3 DEF Moves
<1> QED BY <1>1, <1>2, <1>3, <1>4, BaseInvariant, PTL DEF Spec, FollowsMachine, Machine!Spec

-----------------------------------------------------------------------------
(* The trail as a chain.  With one request at a time a move in flight starts *)
(* at the status of its row, which is where the last history row ended;      *)
(* between the two statements of a link the row is ahead of its history by   *)
(* exactly the entry still owed.                                             *)

LastTo(h) == h[Len(h)].to

Chained(h) == \A i \in 2..Len(h) : h[i].from = h[i - 1].to

\* Job j waits for the history row of its link.
Trailing(j) == \E r \in Reqs : req[r].op = "linkEntry" /\ req[r].job = j

\* What request q owes continues a history h of a job with status s.
Continues(q, s, h) ==
  IF q.op = "linkEntry"
  THEN q.entry \in Entries /\ q.entry.from = LastTo(h) /\ q.entry.to = s
  ELSE \/ q.entry = NoEntry /\ q.write.status \in {Keep, s} /\ q.op # "linkStatus"
       \/ q.entry \in Entries /\ q.entry.from = s /\ q.entry.to = q.write.status

ChainOf(j) ==
  /\ Chained(history[j])
  /\ Exists(j) <=> history[j] # <<>>
  /\ Exists(j) /\ ~Trailing(j) => LastTo(history[j]) = job[j].status

ChainInv ==
  /\ \A j \in Jobs : ChainOf(j)
  /\ \A r \in Reqs : req[r].op # "idle"
       => Continues(req[r], job[req[r].job].status, history[req[r].job])

\* A row that starts where the last one ended continues the chain.
LEMMA ChainAppend ==
  ASSUME NEW h \in Seq(Entries), Chained(h), NEW e \in Entries,
         h # <<>> => e.from = LastTo(h)
  PROVE  /\ Chained(Append(h, e)) /\ Append(h, e) # <<>>
         /\ LastTo(Append(h, e)) = e.to
<1>1. /\ Append(h, e) \in Seq(Entries) /\ Len(Append(h, e)) = Len(h) + 1 /\ Len(h) \in Nat
      /\ \A i \in 1..Len(h) : Append(h, e)[i] = h[i]
      /\ Append(h, e)[Len(h) + 1] = e
  OBVIOUS
<1>2. ASSUME NEW i \in 2..(Len(h) + 1)
      PROVE  Append(h, e)[i].from = Append(h, e)[i - 1].to
  <2>1. CASE i = Len(h) + 1
    <3>1. h # <<>> /\ i - 1 = Len(h) /\ i - 1 \in 1..Len(h)
      BY <1>1, <2>1
    <3> QED BY <1>1, <2>1, <3>1 DEF LastTo
  <2>2. CASE i # Len(h) + 1
    <3>1. i \in 2..Len(h) /\ i \in 1..Len(h) /\ i - 1 \in 1..Len(h)
      BY <1>1, <2>2
    <3> QED BY <1>1, <3>1 DEF Chained
  <2> QED BY <2>1, <2>2
<1>3. Append(h, e) # <<>>
  BY <1>1
<1> QED BY <1>1, <1>2, <1>3 DEF Chained, LastTo

\* What a handler decides on the row it has just read continues its history.
LEMMA DecidesChain ==
  ASSUME LifecycleAssumption, TypeOK, NEW j \in Jobs, NEW q, NEW h, Decides(j, q),
         q.entry \in Entries \cup {NoEntry}
  PROVE  Continues(q, job[j].status, h)
<1> DEFINE s == job[j].status
<1> USE DEF Awaits
<1>0. s \in Statuses /\ s # "none" /\ q.op # "linkEntry"
  <2>1. s \in Statuses /\ s # "none"
    BY DEF TypeOK, Rows, Decides, Exists
  <2>2. q.op # "linkEntry"
    BY DEF Decides
  <2> QED BY <2>1, <2>2
<1>1. ASSUME NEW to, q.entry = Entry(s, to), q.write.status = to
      PROVE  Continues(q, s, h)
  <2>1. q.entry # NoEntry
    BY <1>0, <1>1 DEF Entry, NoEntry
  <2> QED BY <1>0, <1>1, <2>1 DEF Continues, Entry
<1>2. ASSUME q.entry = NoEntry, q.write.status \in {Keep, s}, q.op # "linkStatus"
      PROVE  Continues(q, s, h)
  BY <1>0, <1>2 DEF Continues
<1>3. NoWrite.status = Keep
  BY DEF NoWrite
<1>4. ASSUME NEW to \in Statuses, q.write = TransitionWrite(job[j], to)
      PROVE  q.write.status = to
  BY <1>4 DEF TransitionWrite
<1>5. ASSUME NEW p \in Patches, q.op = "batch", q.write = PatchWrite(p),
             q.entry = PatchEntry(job[j], p)
      PROVE  Continues(q, s, h)
  <2>1. q.write.status = PatchStatus(p)
    BY <1>5 DEF PatchWrite, NoWrite
  <2>2. CASE PatchStatus(p) \in {Keep, s}
    BY <1>2, <1>5, <2>1, <2>2 DEF PatchEntry
  <2>3. CASE PatchStatus(p) \notin {Keep, s}
    BY <1>1, <1>5, <2>1, <2>3 DEF PatchEntry
  <2> QED BY <2>2, <2>3
<1>6. \A stage : [NoWrite EXCEPT !.stage = stage].status = Keep
  BY DEF NoWrite
<1>7. \A stamp : [NoWrite EXCEPT !.archived = stamp].status = Keep
  BY DEF NoWrite
<1>8. /\ CheckInWrite.status = "checking" /\ QcWrite.status = "quality_check"
      /\ LinkWrite.status = "estimate_sent" /\ ApproveWrite.status = "approved"
  BY DEF CheckInWrite, QcWrite, LinkWrite, ApproveWrite, NoWrite
<1>9. CASE q.write = NoWrite /\ q.entry = NoEntry /\ q.op # "linkStatus"
  BY <1>2, <1>3, <1>9
<1>10. CASE /\ q.op = "batch" /\ q.entry = NoEntry
            /\ \/ \E stage \in Stages : q.write = [NoWrite EXCEPT !.stage = stage]
               \/ \E stamp \in Stamps : q.write = [NoWrite EXCEPT !.archived = stamp]
  BY <1>2, <1>6, <1>7, <1>10
<1>11. CASE \E to \in Statuses : /\ q.write = TransitionWrite(job[j], to)
                                 /\ q.entry = Entry(s, to)
  BY <1>1, <1>4, <1>11
<1>12. CASE \/ s = "booked" /\ q.write = CheckInWrite /\ q.entry = Entry("booked", "checking")
            \/ q.write = QcWrite /\ q.entry = Entry(s, "quality_check")
            \/ q.write = LinkWrite /\ q.entry = Entry(s, "estimate_sent")
            \/ \E v \in {"none", "pass", "fail"} :
                 q.write = VerdictWrite(v) /\ q.entry = Entry(s, VerdictWrite(v).status)
  BY <1>1, <1>8, <1>12
<1>13. CASE /\ q.op = "batch" /\ q.write = ApproveWrite
            /\ q.entry = IF s = "approved" THEN NoEntry ELSE Entry(s, "approved")
  BY <1>1, <1>2, <1>8, <1>13
<1> QED BY <1>5, <1>9, <1>10, <1>11, <1>12, <1>13 DEF Decides, Stamps, Batches

\* With one request at a time the history of a job is a chain of moves that
\* ends at its status, where nothing is written behind the handlers' backs:
\* no scheduler, no aborted request and no unlogged import.
THEOREM ChainAlone ==
  ASSUME OneRequest, {"noShow", "abort", "import"} \cap Ops = {}
  PROVE  Spec => []TrailIsChain
<1>1. Init => ChainInv
  BY DEF Init, ChainInv, ChainOf, Chained, Exists, NewJob, Idle
<1>2. Base /\ Base' /\ ChainInv /\ [Next]_vars => ChainInv'
  <2> SUFFICES ASSUME Base, Base', ChainInv, [Next]_vars PROVE ChainInv'
    OBVIOUS
  <2>0. Moves /\ \A r \in Reqs : RequestMoves(r)
    BY NextMoves DEF Base
  <2>1. ASSUME NEW j \in Jobs, ~\E r \in Reqs : BatchMoves(r) \/ LinkMoves(r) \/ LinkLogs(r)
        PROVE  ChainOf(j)'
    <3>1. JobMoves(j) /\ ChainOf(j) /\ history[j] \in Seq(Entries) /\ job[j] \in Rows
      BY <2>0, EachJobMoves DEF Base, TypeOK, ChainInv
    <3>2. Trailing(j) => Trailing(j)'
      BY <2>0, <2>1 DEF Trailing, RequestMoves
    <3>3. CASE job'[j].status = job[j].status /\ history'[j] = history[j]
      BY <3>1, <3>2, <3>3 DEF ChainOf, Exists
    <3>4. CASE /\ ~Exists(j) /\ job'[j] = NewJob("null")
               /\ history'[j] = Append(history[j], Entry("null", "booked"))
      <4>1. Entry("null", "booked") \in Entries /\ Entry("null", "booked").to = "booked"
        BY DEF Entry, Entries, Statuses
      <4>2. history[j] = <<>> /\ Chained(history[j])
        BY <3>1, <3>4 DEF ChainOf
      <4>3. /\ Chained(history'[j]) /\ history'[j] # <<>>
            /\ LastTo(history'[j]) = "booked"
        BY <3>1, <3>4, <4>1, <4>2, ChainAppend
      <4> QED BY <3>4, <4>3 DEF ChainOf, NewJob, Exists
    <3>5. CASE Flagged(j) /\ history'[j] = history[j]
      BY <3>1, <3>3, <3>5 DEF Flagged, Rows
    <3> QED BY <2>1, <3>1, <3>3, <3>4, <3>5 DEF JobMoves, NotShown
  <2>2. ASSUME NEW r \in Reqs, BatchMoves(r) \/ LinkMoves(r) \/ LinkLogs(r),
               NEW k \in Jobs
        PROVE  ChainOf(k)'
    <3> DEFINE j == req[r].job
               e == req[r].entry
               w == req[r].write
    <3>1. req[r].op # "idle"
      BY <2>2 DEF BatchMoves, LinkMoves, LinkLogs, Batches
    <3>2. /\ j \in Jobs /\ Exists(j) /\ w \in Writes /\ e \in Entries \cup {NoEntry}
          /\ Continues(req[r], job[j].status, history[j])
          /\ ChainOf(j) /\ ChainOf(k)
          /\ history[j] \in Seq(Entries) /\ history[j] # <<>>
      BY <3>1, OwedType DEF Base, InFlightExists, ChainInv, TypeOK, ChainOf
    <3>3. \A i : Trailing(i) <=> req[r].op = "linkEntry" /\ i = j
      BY DEF Trailing, OneRequest
    <3>4. \A i : Trailing(i)' <=> req'[r].op = "linkEntry" /\ i = req'[r].job
      BY DEF Trailing, OneRequest
    <3>5. CASE k # j
      <4>1. job'[k] = job[k] /\ history'[k] = history[k]
        BY <2>2, <3>2, <3>5 DEF BatchMoves, LinkMoves, LinkLogs, Commit, Base, TypeOK
      <4> QED BY <3>2, <3>3, <3>5, <4>1 DEF ChainOf, Exists
    <3>6. CASE k = j /\ BatchMoves(r)
      <4>1. ~Trailing(j) /\ LastTo(history[j]) = job[j].status
        BY <3>2, <3>3, <3>6 DEF BatchMoves, Batches, ChainOf
      <4>2. job'[j] = Put(job[j], w) /\ history'[j] = Log(history[j], e)
        BY <3>2, <3>6 DEF BatchMoves, Commit, Base, TypeOK
      <4>3. CASE e = NoEntry
        <5>1. w.status \in {Keep, job[j].status}
          BY <3>2, <3>6, <4>3 DEF Continues, BatchMoves, Batches, NoEntry, Entry, Entries, Statuses
        <5>2. job'[j].status = job[j].status /\ history'[j] = history[j]
          BY <4>2, <4>3, <5>1 DEF Put, Over, Log
        <5> QED BY <3>2, <3>6, <4>1, <5>2 DEF ChainOf, Exists
      <4>4. CASE e # NoEntry
        <5>1. e \in Entries /\ e.from = job[j].status /\ e.to = w.status
          BY <3>2, <3>6, <4>4 DEF Continues, BatchMoves, Batches
        <5>2. /\ job'[j].status = e.to /\ e.to # "none"
              /\ history'[j] = Append(history[j], e)
          <6>1. e.to # "none" /\ e.to # Keep
            BY <5>1 DEF Entries, Statuses, Keep
          <6>2. job'[j].status = Over(w.status, job[j].status)
            BY <4>2 DEF Put
          <6>3. history'[j] = Append(history[j], e)
            BY <4>2, <4>4 DEF Log
          <6> QED BY <5>1, <6>1, <6>2, <6>3 DEF Over
        <5>3. Chained(history'[j]) /\ history'[j] # <<>> /\ LastTo(history'[j]) = e.to
          BY <3>2, <4>1, <5>1, <5>2, ChainAppend DEF ChainOf
        <5> QED BY <3>6, <5>2, <5>3 DEF ChainOf, Exists
      <4> QED BY <4>3, <4>4
    <3>7. CASE k = j /\ LinkMoves(r)
      <4>1. history'[j] = history[j] /\ job'[j] = Put(job[j], w)
        BY <3>2, <3>7, LinkMovesOn
      <4>2. job'[j].status # "none"
        BY <3>2, <4>1 DEF Put, Over, Writes, Statuses, Exists, Keep
      <4>3. Trailing(k)'
        BY <3>2, <3>4, <3>7, LinkMovesOn
      <4>4. Chained(history'[k]) /\ history'[k] # <<>> /\ job'[k].status # "none"
        BY <3>2, <3>7, <4>1, <4>2 DEF ChainOf
      <4> QED BY <4>3, <4>4 DEF ChainOf, Exists
    <3>8. CASE k = j /\ LinkLogs(r)
      <4>1. /\ e \in Entries /\ e.from = LastTo(history[j]) /\ e.to = job[j].status
            /\ job'[j] = job[j] /\ history'[j] = Log(history[j], e)
        BY <3>2, <3>8 DEF LinkLogs, Continues, Base, TypeOK
      <4>2. history'[j] = Append(history[j], e)
        BY <4>1 DEF Log, NoEntry, Entry, Entries, Statuses
      <4>3. Chained(history'[j]) /\ history'[j] # <<>> /\ LastTo(history'[j]) = e.to
        BY <3>2, <4>1, <4>2, ChainAppend DEF ChainOf
      <4> QED BY <3>2, <3>8, <4>1, <4>3 DEF ChainOf, Exists
    <3> QED BY <2>2, <3>5, <3>6, <3>7, <3>8
  <2>3. ASSUME NEW r \in Reqs, req'[r].op # "idle"
        PROVE  Continues(req'[r], job'[req'[r].job].status, history'[req'[r].job])
    <3>1. ASSUME NEW j \in Jobs, OnlyRequests, Decides(j, req'[r])
          PROVE  Continues(req'[r], job'[req'[r].job].status, history'[req'[r].job])
      <4>1. req'[r].job = j /\ job' = job
        BY <3>1 DEF Decides, OnlyRequests
      <4>2. req'[r].entry \in Entries \cup {NoEntry}
        BY <2>3 DEF Base, TypeOK, Pending, Idle
      <4> QED BY <3>1, <4>1, <4>2, DecidesChain, LifecycleAssumption DEF Base
    <3>2. CASE /\ req'[r].write = NoWrite /\ req'[r].entry = NoEntry
               /\ req'[r].op \notin {"linkStatus", "linkEntry"}
      BY <3>2 DEF Continues, NoWrite
    <3>3. CASE LinkMoves(r)
      <4> DEFINE j == req[r].job
      <4>1. /\ req[r].op = "linkStatus" /\ req'[r].op = "linkEntry"
            /\ j \in Jobs /\ req'[r].job = j /\ req'[r].entry = req[r].entry
            /\ req[r].write \in Writes
            /\ job'[j] = Put(job[j], req[r].write) /\ history' = history
        BY <3>3, LinkMovesOn
      <4>2. /\ req[r].entry \in Entries /\ req[r].entry.from = job[j].status
            /\ req[r].entry.to = req[r].write.status
        BY <4>1 DEF ChainInv, Continues
      <4>3. job'[j].status = req[r].write.status
        BY <4>1, <4>2 DEF Put, Over, Entries, Statuses, Keep
      <4>4. Exists(j) /\ ~Trailing(j)
        BY <4>1 DEF Base, InFlightExists, Trailing, OneRequest
      <4>5. LastTo(history[j]) = job[j].status
        BY <4>1, <4>4 DEF ChainInv, ChainOf
      <4> QED BY <4>1, <4>2, <4>3, <4>5 DEF Continues
    <3>4. CASE StillOwes(r)
      <4> DEFINE j == req[r].job
      <4>1. /\ Continues(req[r], job[j].status, history[j]) /\ Kept(j)
            /\ req'[r].job = j /\ history'[j] = history[j]
        BY <3>4 DEF StillOwes, ChainInv, MadeNoShow
      <4> QED BY <3>4, <4>1 DEF Continues, Kept, StillOwes
    <3> QED BY <2>0, <2>3, <3>1, <3>2, <3>3, <3>4, OneAtATime
  <2>4. \A j \in Jobs : ChainOf(j)'
    BY <2>1, <2>2
  <2> QED BY <2>3, <2>4 DEF ChainInv
<1>3. ChainInv => TrailIsChain
  <2> SUFFICES ASSUME ChainInv, NEW j \in Jobs
               PROVE  /\ Chained(history[j])
                      /\ \A r \in Reqs : req[r].op # "linkEntry" /\ history[j] # <<>>
                           => history[j][Len(history[j])].to = job[j].status
    BY DEF TrailIsChain, Chained
  <2>1. ChainOf(j)
    BY DEF ChainInv
  <2>2. ASSUME NEW r \in Reqs, req[r].op # "linkEntry" PROVE ~Trailing(j)
    BY <2>2 DEF Trailing, OneRequest
  <2> QED BY <2>1, <2>2 DEF ChainOf, LastTo
<1> QED BY <1>1, <1>2, <1>3, BaseInvariant, PTL DEF Spec
==============================================================================
