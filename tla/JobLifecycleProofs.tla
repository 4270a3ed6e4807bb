------------------------- MODULE JobLifecycleProofs -------------------------
(***************************************************************************)
(* Proofs about JobLifecycle, for any sets of jobs and of requests in      *)
(* flight, any endpoints and PATCH bodies, and any bound on the history.   *)
(***************************************************************************)
EXTENDS JobLifecycle, SequenceTheorems, TLAPS

-----------------------------------------------------------------------------
(* The values the handlers compute *)

\* Writing any columns over a row leaves a row (Prisma update).
LEMMA PutType ==
  ASSUME NEW row \in Rows, NEW w \in Writes
  PROVE  Put(row, w) \in Rows
BY DEF Put, Over, Rows, Writes, Keep, Statuses, Stages, PartsStatuses, Stamps

\* Adding an entry, or none, leaves a history.
LEMMA LogType ==
  ASSUME NEW h \in Seq(Entries), NEW e \in Entries \cup {NoEntry}
  PROVE  Log(h, e) \in Seq(Entries)
BY DEF Log

\* A transition writes values of the columns' types.
LEMMA TransitionWriteType ==
  ASSUME NEW seen \in Rows, NEW to \in Statuses
  PROVE  TransitionWrite(seen, to) \in Writes
BY DEF TransitionWrite, StageFor, Writes, Statuses, Stages, PartsStatuses, Stamps

\* So does a PATCH, and its history entry names two statuses.
LEMMA PatchWriteType ==
  ASSUME NEW p \in PatchBodies, NEW seen \in Rows, seen.status # "none"
  PROVE  /\ PatchWrite(p) \in Writes
         /\ PatchEntry(seen, p) \in Entries \cup {NoEntry}
<1>1. PatchStatus(p) \in Statuses \cup {Keep}
  BY DEF PatchStatus, PatchBodies, Over, Statuses
<1>2. PatchWrite(p) \in Writes
  BY <1>1 DEF PatchWrite, PatchBodies, NoWrite, Writes, StageFor, Stages
<1>3. PatchEntry(seen, p) \in Entries \cup {NoEntry}
  BY <1>1 DEF PatchEntry, Entry, Entries, Rows
<1> QED BY <1>2, <1>3

\* The fixed writes of the other handlers.
LEMMA FixedWriteTypes ==
  /\ NoWrite \in Writes /\ CheckInWrite \in Writes /\ QcWrite \in Writes
  /\ LinkWrite \in Writes /\ ApproveWrite \in Writes
  /\ \A result : VerdictWrite(result) \in Writes
BY DEF NoWrite, CheckInWrite, QcWrite, LinkWrite, ApproveWrite, VerdictWrite, Writes,
       Statuses, Stages, Stamps

-----------------------------------------------------------------------------
(* Type correctness *)

\* What a request owes is typed, and a request with a pending op is not idle.
LEMMA OwedType ==
  ASSUME TypeOK, NEW r \in Reqs, req[r].op # "idle"
  PROVE  /\ req[r] \in Pending
         /\ req[r].job \in Jobs /\ req[r].write \in Writes
         /\ req[r].entry \in Entries \cup {NoEntry}
         /\ req[r].result \in {"none", "pass", "fail"}
BY DEF TypeOK, Pending, Idle

\* Leaving a request awaiting a typed statement keeps req typed.
LEMMA AwaitType ==
  ASSUME TypeOK, NEW r \in Reqs, NEW p \in Pending \cup {Idle}, Await(r, p)
  PROVE  req' \in [Reqs -> Pending \cup {Idle}]
BY DEF TypeOK, Await

LEMMA AwaitingType ==
  ASSUME NEW op \in PendingOps, NEW j \in Jobs, NEW w \in Writes,
         NEW e \in Entries \cup {NoEntry}
  PROVE  Awaiting(op, j, w, e) \in Pending
BY DEF Awaiting, Pending

\* A handler that only reads, and then awaits a typed statement or ends.
LEMMA ReadOnlyType ==
  ASSUME TypeOK, NEW r \in Reqs, NEW p \in Pending \cup {Idle}, Await(r, p),
         OnlyRequests
  PROVE  TypeOK'
<1>1. req' \in [Reqs -> Pending \cup {Idle}]
  BY AwaitType
<1> QED BY <1>1 DEF TypeOK, OnlyRequests

\* A committed batch leaves a typed job row and history.
LEMMA CommitType ==
  ASSUME TypeOK, NEW r \in Reqs, req[r].op # "idle", Commit(r)
  PROVE  job' \in [Jobs -> Rows] /\ history' \in [Jobs -> Seq(Entries)]
<1> DEFINE j == req[r].job
<1>1. j \in Jobs /\ req[r].write \in Writes /\ req[r].entry \in Entries \cup {NoEntry}
  BY OwedType
<1>2. Put(job[j], req[r].write) \in Rows
  BY <1>1, PutType DEF TypeOK
<1>3. Log(history[j], req[r].entry) \in Seq(Entries)
  BY <1>1, LogType DEF TypeOK
<1> QED BY <1>1, <1>2, <1>3 DEF TypeOK, Commit

\* The handlers' first step: read, decide, await the write.
LEMMA StartType ==
  ASSUME TypeOK, LifecycleAssumption, NEW r \in Reqs, NEW j \in Jobs, Start(r, j)
  PROVE  TypeOK'
<1> USE FixedWriteTypes
<1>0. job[j] \in Rows /\ (Exists(j) => job[j].status \in Statuses)
  BY DEF TypeOK, Rows, Exists
<1>1. ASSUME NEW to \in Statuses, StartTransition(r, j, to) PROVE TypeOK'
  <2>1. TransitionWrite(job[j], to) \in Writes
    BY <1>0, TransitionWriteType
  <2>2. Entry(job[j].status, to) \in Entries
    BY <1>0, <1>1 DEF StartTransition, Visible, Entry, Entries
  <2>3. Awaiting("batch", j, TransitionWrite(job[j], to), Entry(job[j].status, to)) \in Pending
    BY <2>1, <2>2, AwaitingType DEF PendingOps
  <2> QED BY <1>1, <2>3, ReadOnlyType DEF StartTransition
<1>2. ASSUME NEW p \in Patches, StartUpdate(r, j, p) PROVE TypeOK'
  <2>1. p \in PatchBodies /\ job[j].status # "none"
    BY <1>2 DEF LifecycleAssumption, StartUpdate, Visible, Exists
  <2>2. PatchWrite(p) \in Writes /\ PatchEntry(job[j], p) \in Entries \cup {NoEntry}
    BY <1>0, <2>1, PatchWriteType
  <2>3. Awaiting("batch", j, PatchWrite(p), PatchEntry(job[j], p)) \in Pending
    BY <2>2, AwaitingType DEF PendingOps
  <2> QED BY <1>2, <2>3, ReadOnlyType DEF StartUpdate
<1>3. ASSUME NEW unassign \in BOOLEAN, StartAssign(r, j, unassign) PROVE TypeOK'
  <2> DEFINE stage == IF unassign /\ job[j].status = "in_progress"
                      THEN "shop" ELSE job[j].stage
             w == [NoWrite EXCEPT !.stage = stage]
  <2>1. stage \in Stages
    BY <1>0 DEF Rows, Stages
  <2>2. w \in Writes
    BY <2>1 DEF NoWrite, Writes
  <2>3. Awaiting("batch", j, w, NoEntry) \in Pending
    BY <2>2, AwaitingType DEF PendingOps
  <2>4. Await(r, Awaiting("batch", j, w, NoEntry)) /\ OnlyRequests
    BY <1>3 DEF StartAssign
  <2> QED BY <2>3, <2>4, ReadOnlyType
<1>4. CASE StartArchive(r, j)
  <2>1. [NoWrite EXCEPT !.archived = "set"] \in Writes
    BY DEF NoWrite, Writes, Stamps
  <2>2. Awaiting("batch", j, [NoWrite EXCEPT !.archived = "set"], NoEntry) \in Pending
    BY <2>1, AwaitingType DEF PendingOps
  <2> QED BY <1>4, <2>2, ReadOnlyType DEF StartArchive
<1>5. CASE StartUnarchive(r, j)
  <2>1. [NoWrite EXCEPT !.archived = "null"] \in Writes
    BY DEF NoWrite, Writes, Stamps
  <2>2. Awaiting("batch", j, [NoWrite EXCEPT !.archived = "null"], NoEntry) \in Pending
    BY <2>1, AwaitingType DEF PendingOps
  <2> QED BY <1>5, <2>2, ReadOnlyType DEF StartUnarchive
<1>6. CASE StartInspection(r, j)
  <2>1. Awaiting("inspectRead", j, NoWrite, NoEntry) \in Pending
    BY AwaitingType DEF PendingOps
  <2> QED BY <1>6, <2>1, ReadOnlyType DEF StartInspection
<1>7. CASE StartQc(r, j)
  <2>1. Awaiting("qcRead", j, NoWrite, NoEntry) \in Pending
    BY AwaitingType DEF PendingOps
  <2> QED BY <1>7, <2>1, ReadOnlyType DEF StartQc
<1>8. ASSUME NEW result \in {"pass", "fail"}, StartQcSubmit(r, j, result) PROVE TypeOK'
  <2>1. [Awaiting("qcStore", j, NoWrite, NoEntry) EXCEPT !.result = result] \in Pending
    BY DEF Awaiting, Pending, PendingOps
  <2> QED BY <1>8, <2>1, ReadOnlyType DEF StartQcSubmit
<1>9. CASE StartLink(r, j)
  <2>1. Awaiting("linkSend", j, NoWrite, NoEntry) \in Pending
    BY AwaitingType DEF PendingOps
  <2>2. Exists(j) => Entry(job[j].status, "estimate_sent") \in Entries
    BY <1>0 DEF Entry, Entries, Statuses
  <2>3. Exists(j) => Awaiting("linkStatus", j, LinkWrite,
                              Entry(job[j].status, "estimate_sent")) \in Pending
    BY <2>2, AwaitingType DEF PendingOps
  <2> QED BY <1>9, <2>1, <2>3, ReadOnlyType DEF StartLink
<1>10. CASE StartDecide(r, j)
  <2> DEFINE e == IF job[j].status = "approved" THEN NoEntry
                  ELSE Entry(job[j].status, "approved")
  <2>1. e \in Entries \cup {NoEntry}
    BY <1>0, <1>10 DEF StartDecide, Entry, Entries, Statuses
  <2>2. Awaiting("batch", j, ApproveWrite, e) \in Pending
    BY <2>1, AwaitingType DEF PendingOps
  <2>3. Await(r, Awaiting("batch", j, ApproveWrite, e)) /\ OnlyRequests
    BY <1>10 DEF StartDecide
  <2> QED BY <2>2, <2>3, ReadOnlyType
<1> QED
  BY <1>1, <1>2, <1>3, <1>4, <1>5, <1>6, <1>7, <1>8, <1>9, <1>10 DEF Start

\* The handlers' later steps: a statement resolves.
LEMMA StepType ==
  ASSUME TypeOK, NEW r \in Reqs, Step(r)
  PROVE  TypeOK'
<1> DEFINE j == req[r].job
<1> USE FixedWriteTypes
<1>0. /\ req[r].op # "idle" /\ j \in Jobs /\ req[r] \in Pending
      /\ req[r].entry \in Entries \cup {NoEntry}
      /\ req[r].result \in {"none", "pass", "fail"} /\ req[r].write \in Writes
  <2>1. req[r].op # "idle"
    BY DEF Step, CommitBatch, ReadJobForInspection, CheckInBatch, InsertInspection,
           ReadJobForQc, QcBatch, InsertQc, StoreResult, ReadJobForVerdict,
           LinkStatus, LinkEntry, SendLink
  <2> QED BY <2>1, OwedType
<1>1. CASE CommitBatch(r)
  BY <1>0, <1>1, CommitType, AwaitType DEF CommitBatch, TypeOK
<1>2. CASE ReadJobForInspection(r)
  <2>2. Entry("booked", "checking") \in Entries
    BY DEF Entry, Entries, Statuses
  <2>3. Awaiting("inspectBatch", j, CheckInWrite, Entry("booked", "checking")) \in Pending
    BY <1>0, <2>2, AwaitingType DEF PendingOps
  <2>4. Awaiting("inspectInsert", j, NoWrite, NoEntry) \in Pending
    BY <1>0, AwaitingType DEF PendingOps
  <2> QED BY <1>2, <2>3, <2>4, ReadOnlyType DEF ReadJobForInspection
<1>3. CASE CheckInBatch(r)
  <2>1. Awaiting("inspectInsert", j, NoWrite, NoEntry) \in Pending
    BY <1>0, AwaitingType DEF PendingOps
  <2> QED BY <1>0, <1>3, <2>1, CommitType, AwaitType DEF CheckInBatch, TypeOK
<1>4. CASE InsertInspection(r)
  BY <1>0, <1>4, AwaitType DEF InsertInspection, TypeOK
<1>5. CASE ReadJobForQc(r)
  <2>1. job[j].status \in {"in_progress", "waiting_parts"}
          => Entry(job[j].status, "quality_check") \in Entries
    BY DEF Entry, Entries, Statuses
  <2>2. job[j].status \in {"in_progress", "waiting_parts"}
          => Awaiting("qcBatch", j, QcWrite, Entry(job[j].status, "quality_check")) \in Pending
    BY <1>0, <2>1, AwaitingType DEF PendingOps
  <2>3. Awaiting("qcInsert", j, NoWrite, NoEntry) \in Pending
    BY <1>0, AwaitingType DEF PendingOps
  <2> QED BY <1>5, <2>2, <2>3, ReadOnlyType DEF ReadJobForQc
<1>6. CASE QcBatch(r)
  <2>1. Awaiting("qcInsert", j, NoWrite, NoEntry) \in Pending
    BY <1>0, AwaitingType DEF PendingOps
  <2> QED BY <1>0, <1>6, <2>1, CommitType, AwaitType DEF QcBatch, TypeOK
<1>7. CASE InsertQc(r)
  <2>1. req' \in [Reqs -> Pending \cup {Idle}]
    BY <1>7, AwaitType DEF InsertQc
  <2> QED BY <1>0, <1>7, <2>1 DEF InsertQc, TypeOK
<1>8. CASE StoreResult(r)
  <2>1. [req[r] EXCEPT !.op = "qcVerdict"] \in Pending
    BY <1>0 DEF Pending, PendingOps
  <2>2. req' \in [Reqs -> Pending \cup {Idle}]
    BY <1>8, <2>1, AwaitType DEF StoreResult
  <2> QED BY <1>0, <1>8, <2>2 DEF StoreResult, TypeOK
<1>9. CASE ReadJobForVerdict(r)
  <2> DEFINE w == VerdictWrite(req[r].result)
  <2>1. w \in Writes
    BY DEF Writes
  <2>2. Entry("quality_check", w.status) \in Entries
    BY DEF Entry, Entries, Statuses, VerdictWrite, NoWrite
  <2>3. Awaiting("batch", j, w, Entry("quality_check", w.status)) \in Pending
    BY <1>0, <2>1, <2>2, AwaitingType DEF PendingOps
  <2> QED BY <1>9, <2>3, ReadOnlyType DEF ReadJobForVerdict
<1>10. CASE LinkStatus(r)
  <2>1. [req[r] EXCEPT !.op = "linkEntry", !.write = NoWrite] \in Pending
    BY <1>0 DEF Pending, PendingOps
  <2>2. Put(job[j], req[r].write) \in Rows
    BY <1>0, PutType DEF TypeOK
  <2>3. req' \in [Reqs -> Pending \cup {Idle}]
    BY <1>10, <2>1, AwaitType DEF LinkStatus
  <2> QED BY <1>0, <1>10, <2>2, <2>3 DEF LinkStatus, TypeOK
<1>11. CASE LinkEntry(r)
  <2>1. Awaiting("linkSend", j, NoWrite, NoEntry) \in Pending
    BY <1>0, AwaitingType DEF PendingOps
  <2>2. Log(history[j], req[r].entry) \in Seq(Entries)
    BY <1>0, LogType DEF TypeOK
  <2>3. req' \in [Reqs -> Pending \cup {Idle}]
    BY <1>11, <2>1, AwaitType DEF LinkEntry
  <2> QED BY <1>0, <1>11, <2>2, <2>3 DEF LinkEntry, TypeOK
<1>12. CASE SendLink(r)
  BY <1>0, <1>12, AwaitType DEF SendLink, TypeOK
<1> QED
  BY <1>1, <1>2, <1>3, <1>4, <1>5, <1>6, <1>7, <1>8, <1>9, <1>10, <1>11, <1>12
  DEF Step

\* The handlers that read and write in one step, and the scheduler.
LEMMA AtOnceType ==
  ASSUME TypeOK,
         \/ \E j \in Jobs : AtOnce(j)
         \/ \E r \in Reqs : Abort(r)
         \/ RemoveAll \/ ArchiveClosed \/ MarkNoShow
  PROVE  TypeOK'
<1>1. ASSUME NEW j \in Jobs, Create(j) PROVE TypeOK'
  <2>1. Entry("null", "booked") \in Entries /\ NewJob("null") \in Rows
    BY DEF Entry, Entries, Statuses, NewJob, Rows, Stages, PartsStatuses, Stamps
  <2>2. Append(history[j], Entry("null", "booked")) \in Seq(Entries)
    BY <2>1 DEF TypeOK
  <2> QED BY <1>1, <2>1, <2>2 DEF Create, TypeOK
<1>2. ASSUME NEW j \in Jobs, CreateUnlogged(j) PROVE TypeOK'
  <2>1. NewJob("shop") \in Rows
    BY DEF NewJob, Rows, Statuses, Stages, PartsStatuses, Stamps
  <2> QED BY <1>2, <2>1 DEF CreateUnlogged, TypeOK
<1>3. ASSUME NEW j \in Jobs, Remove(j) PROVE TypeOK'
  <2>1. job[j] \in Rows
    BY DEF TypeOK
  <2>2. [job[j] EXCEPT !.deleted = "yes"] \in Rows
    BY <2>1 DEF Rows
  <2> QED BY <1>3, <2>2 DEF Remove, TypeOK
<1>4. ASSUME NEW j \in Jobs, ReopenQc(j) \/ ReleasePortalUpdate(j) PROVE TypeOK'
  BY <1>4 DEF ReopenQc, ReleasePortalUpdate, TypeOK
<1>5. ASSUME NEW r \in Reqs, Abort(r) PROVE TypeOK'
  BY <1>5, AwaitType, ReadOnlyType DEF Abort
<1>6. CASE RemoveAll
  <2>1. ASSUME NEW j \in Jobs PROVE [job[j] EXCEPT !.deleted = "yes"] \in Rows
    <3>1. job[j] \in Rows
      BY DEF TypeOK
    <3> QED BY <3>1 DEF Rows
  <2> QED BY <1>6, <2>1 DEF RemoveAll, TypeOK
<1>7. CASE ArchiveClosed
  <2>1. ASSUME NEW j \in Jobs PROVE [job[j] EXCEPT !.archived = "set"] \in Rows
    <3>1. job[j] \in Rows
      BY DEF TypeOK
    <3> QED BY <3>1 DEF Rows, Stamps
  <2> QED BY <1>7, <2>1 DEF ArchiveClosed, TypeOK
<1>8. CASE MarkNoShow
  <2>1. ASSUME NEW j \in Jobs PROVE [job[j] EXCEPT !.status = "no_show", !.stage = "null"] \in Rows
    <3>1. job[j] \in Rows
      BY DEF TypeOK
    <3> QED BY <3>1 DEF Rows, Statuses, Stages
  <2> QED BY <1>8, <2>1 DEF MarkNoShow, TypeOK
<1> QED
  BY <1>1, <1>2, <1>3, <1>4, <1>5, <1>6, <1>7, <1>8 DEF AtOnce

\* Every endpoint, in any interleaving, keeps the tables typed.
THEOREM Typing == Spec => []TypeOK
<1>1. Init => TypeOK
  BY DEF Init, TypeOK, NewJob, Rows, Statuses, Stages, PartsStatuses, Stamps
<1>2. TypeOK /\ [Next]_vars => TypeOK'
  <2> SUFFICES ASSUME TypeOK, [Next]_vars PROVE TypeOK'
    OBVIOUS
  <2>1. CASE \E r \in Reqs, j \in Jobs : Start(r, j)
    BY <2>1, StartType, LifecycleAssumption
  <2>2. CASE \E r \in Reqs : Step(r)
    BY <2>2, StepType
  <2>3. CASE UNCHANGED vars
    BY <2>3 DEF vars, TypeOK
  <2> QED BY <2>1, <2>2, <2>3, AtOnceType DEF Next
<1> QED BY <1>1, <1>2, PTL DEF Spec

-----------------------------------------------------------------------------
(* The trail.  That a job's status is in its history is not inductive by    *)
(* itself: a request in flight may hold a status it read long ago.  What    *)
(* makes it so is that a write a request owes either brings its own history *)
(* entry or writes a status that the history already shows.                 *)

Owes(q, h) ==
  /\ q.write.status \in Recorded
       => q.entry.to = q.write.status \/ Shows(h[q.job], q.write.status)
  /\ q.write.archived = "set" => Shows(h[q.job], "closed")

\* The statement of an approval link that writes without an entry writes
\* estimate_sent.
TrailInv ==
  /\ TypeOK /\ TrailCoversStatus /\ ArchivedWasClosed
  /\ \A r \in Reqs : /\ Owes(req[r], history)
                     /\ req[r].op = "linkStatus" => req[r].write = LinkWrite

\* Logging an entry keeps what a history shows and shows the entry's status.
LEMMA LogShows ==
  ASSUME NEW h \in Seq(Entries), NEW e \in Entries \cup {NoEntry}, NEW s
  PROVE  /\ Shows(h, s) => Shows(Log(h, e), s)
         /\ e \in Entries => Shows(Log(h, e), e.to)
<1>1. CASE e = NoEntry
  <2>1. e \notin Entries
    BY <1>1 DEF NoEntry, Entry, Entries, Statuses
  <2> QED BY <1>1, <2>1 DEF Log
<1>2. CASE e # NoEntry
  <2>1. e \in Entries /\ Log(h, e) = Append(h, e)
    BY <1>2 DEF Log
  <2>2. /\ Len(Append(h, e)) = Len(h) + 1 /\ Len(h) \in Nat
        /\ \A i \in 1..Len(h) : Append(h, e)[i] = h[i]
        /\ Append(h, e)[Len(h) + 1] = e
    BY <2>1
  <2> QED BY <2>1, <2>2 DEF Shows
<1> QED BY <1>1, <1>2

\* A request that owes nothing that a trail must cover.
LEMMA OwesNothing ==
  ASSUME NEW q, q.write = NoWrite \/ q.write = LinkWrite, NEW h
  PROVE  Owes(q, h)
<1>1. NoWrite.status = "keep" /\ NoWrite.archived = "keep"
  BY DEF NoWrite, Keep
<1>2. LinkWrite.status = "estimate_sent" /\ LinkWrite.archived = "keep"
  BY DEF LinkWrite, NoWrite, Keep
<1>3. "keep" \notin Recorded /\ "estimate_sent" \notin Recorded
  BY DEF Recorded, Statuses
<1> QED BY <1>1, <1>2, <1>3 DEF Owes

\* Longer histories cover what the shorter ones did.
LEMMA OwesMonotone ==
  ASSUME NEW q, NEW g, NEW h, Owes(q, g),
         \A s : Shows(g[q.job], s) => Shows(h[q.job], s)
  PROVE  Owes(q, h)
BY DEF Owes

\* A handler that reads and then owes a covered write keeps the invariant.
LEMMA TrailRead ==
  ASSUME TrailInv, TypeOK', NEW r \in Reqs, NEW p, Await(r, p), OnlyRequests,
         Owes(p, history), p.op = "linkStatus" => p.write = LinkWrite
  PROVE  TrailInv'
<1>1. /\ job' = job /\ history' = history
      /\ \A q \in Reqs : req'[q] = IF q = r THEN p ELSE req[q]
  BY DEF OnlyRequests, Await, TrailInv, TypeOK
<1>2. TrailCoversStatus' /\ ArchivedWasClosed'
  BY <1>1 DEF TrailInv, TrailCoversStatus, ArchivedWasClosed
<1>3. \A q \in Reqs : /\ Owes(req'[q], history')
                      /\ req'[q].op = "linkStatus" => req'[q].write = LinkWrite
  BY <1>1 DEF TrailInv
<1> QED BY <1>2, <1>3 DEF TrailInv

\* A committed batch keeps the trail covering the job it wrote.
LEMMA TrailCommit ==
  ASSUME TrailInv, TypeOK', NEW r \in Reqs, req[r].op # "idle", Commit(r), NEW p,
         Await(r, p), p.write = NoWrite, p.op # "linkStatus"
  PROVE  TrailInv'
<1> DEFINE j == req[r].job
           w == req[r].write
           e == req[r].entry
<1> USE DEF TrailInv
<1>1. j \in Jobs /\ w \in Writes /\ e \in Entries \cup {NoEntry}
  BY OwedType
<1>2. /\ \A k \in Jobs : history'[k] = IF k = j THEN Log(history[j], e) ELSE history[k]
      /\ \A k \in Jobs : job'[k] = IF k = j THEN Put(job[j], w) ELSE job[k]
      /\ \A q \in Reqs : req'[q] = IF q = r THEN p ELSE req[q]
  BY <1>1 DEF Commit, Await, TypeOK
<1>3. ASSUME NEW k \in Jobs, NEW s, Shows(history[k], s) PROVE Shows(history'[k], s)
  <2>1. history[j] \in Seq(Entries)
    BY <1>1 DEF TypeOK
  <2>2. CASE k = j
    BY <1>1, <1>2, <1>3, <2>1, <2>2, LogShows
  <2>3. CASE k # j
    BY <1>2, <1>3, <2>3
  <2> QED BY <2>2, <2>3
<1>4. w.status \in Recorded => Shows(history'[j], w.status)
  <2>1. ASSUME w.status \in Recorded, e.to = w.status PROVE Shows(history'[j], w.status)
    <3>1. e \in Entries
      BY <1>1, <2>1 DEF NoEntry, Entry, Recorded, Statuses
    <3> QED BY <1>1, <1>2, <2>1, <3>1, LogShows DEF TypeOK
  <2> QED BY <1>1, <1>3, <2>1 DEF Owes
<1>5. /\ Put(job[j], w).status \in {w.status, job[j].status}
      /\ w.archived # "set" /\ Put(job[j], w).archived = "set" => job[j].archived = "set"
  BY <1>1 DEF Put, Over
<1>6. TrailCoversStatus'
  BY <1>1, <1>2, <1>3, <1>4, <1>5 DEF TrailCoversStatus
<1>7. ArchivedWasClosed'
  BY <1>1, <1>2, <1>3, <1>5 DEF ArchivedWasClosed, Owes
<1>8. \A q \in Reqs : Owes(req'[q], history')
  <2>1. ASSUME NEW q \in Reqs, q # r PROVE Owes(req[q], history')
    <3>1. CASE req[q].op = "idle"
      <4>1. req[q].write = NoWrite
        <5>1. req[q] \in Pending \cup {Idle}
          BY DEF TypeOK
        <5>2. req[q] \notin Pending
          BY <3>1 DEF Pending, PendingOps
        <5> QED BY <5>1, <5>2 DEF Idle
      <4> QED BY <4>1, OwesNothing
    <3>2. CASE req[q].op # "idle"
      <4>1. req[q].job \in Jobs
        BY <3>2, OwedType
      <4> QED BY <1>3, <4>1, OwesMonotone
    <3> QED BY <3>1, <3>2
  <2> QED BY <1>2, <2>1, OwesNothing
<1> QED BY <1>2, <1>6, <1>7, <1>8

\* What a PATCH owes: its entry names the status it writes, unless it writes
\* the status it read.
LEMMA PatchOwes ==
  ASSUME NEW p \in PatchBodies, NEW seen
  PROVE  /\ PatchWrite(p).status = PatchStatus(p)
         /\ PatchWrite(p).archived = Keep
         /\ PatchStatus(p) \in Recorded
              => PatchEntry(seen, p).to = PatchStatus(p) \/ PatchStatus(p) = seen.status
<1>1. PatchWrite(p).status = PatchStatus(p) /\ PatchWrite(p).archived = Keep
  BY DEF PatchWrite, NoWrite
<1>2. Keep \notin Recorded
  BY DEF Keep, Recorded, Statuses
<1>3. PatchStatus(p) \in Recorded
        => PatchEntry(seen, p).to = PatchStatus(p) \/ PatchStatus(p) = seen.status
  BY <1>2 DEF PatchEntry, Entry
<1> QED BY <1>1, <1>3

\* Whatever a handler decides from the row it reads is a covered write.
LEMMA TrailStart ==
  ASSUME TrailInv, TypeOK', LifecycleAssumption, NEW r \in Reqs, NEW j \in Jobs,
         Start(r, j)
  PROVE  TrailInv'
<1> USE DEF Awaiting
<1>0. job[j].status \in Recorded => Shows(history[j], job[j].status)
  BY DEF TrailInv, TrailCoversStatus
<1>1. ASSUME NEW to \in Statuses, StartTransition(r, j, to) PROVE TrailInv'
  <2> DEFINE p == Awaiting("batch", j, TransitionWrite(job[j], to),
                           Entry(job[j].status, to))
  <2>1. p.write.status = to /\ p.entry.to = to
    BY DEF TransitionWrite, Entry
  <2>2. p.write.archived # "set"
    BY DEF TransitionWrite, Keep
  <2>3. Owes(p, history) /\ p.op # "linkStatus"
    BY <2>1, <2>2 DEF Owes
  <2> QED BY <1>1, <2>3, TrailRead DEF StartTransition
<1>2. ASSUME NEW p \in Patches, StartUpdate(r, j, p) PROVE TrailInv'
  <2> DEFINE q == Awaiting("batch", j, PatchWrite(p), PatchEntry(job[j], p))
  <2>1. p \in PatchBodies
    BY DEF LifecycleAssumption
  <2>2. Owes(q, history) /\ q.op # "linkStatus"
    BY <1>0, <2>1, PatchOwes DEF Owes, Keep
  <2> QED BY <1>2, <2>2, TrailRead DEF StartUpdate
<1>3. ASSUME NEW unassign \in BOOLEAN, StartAssign(r, j, unassign) PROVE TrailInv'
  <2> DEFINE stage == IF unassign /\ job[j].status = "in_progress"
                      THEN "shop" ELSE job[j].stage
             p == Awaiting("batch", j, [NoWrite EXCEPT !.stage = stage], NoEntry)
  <2>1. p.write.status = "keep" /\ p.write.archived = "keep"
    BY DEF NoWrite, Keep
  <2>2. Owes(p, history) /\ p.op # "linkStatus"
    BY <2>1 DEF Owes, Recorded, Statuses
  <2>3. Await(r, p) /\ OnlyRequests
    BY <1>3 DEF StartAssign
  <2> QED BY <2>2, <2>3, TrailRead
<1>4. CASE StartArchive(r, j)
  <2> DEFINE p == Awaiting("batch", j, [NoWrite EXCEPT !.archived = "set"], NoEntry)
  <2>1. p.write.status = "keep"
    BY DEF NoWrite, Keep
  <2>2. Shows(history[j], "closed")
    BY <1>0, <1>4 DEF StartArchive, Recorded, Statuses
  <2>3. Owes(p, history) /\ p.op # "linkStatus"
    BY <2>1, <2>2 DEF Owes, Recorded, Statuses
  <2> QED BY <1>4, <2>3, TrailRead DEF StartArchive
<1>5. CASE StartUnarchive(r, j)
  <2> DEFINE p == Awaiting("batch", j, [NoWrite EXCEPT !.archived = "null"], NoEntry)
  <2>1. p.write.status = "keep" /\ p.write.archived = "null"
    BY DEF NoWrite, Keep
  <2>2. Owes(p, history) /\ p.op # "linkStatus"
    BY <2>1 DEF Owes, Recorded, Statuses
  <2> QED BY <1>5, <2>2, TrailRead DEF StartUnarchive
<1>6. CASE StartInspection(r, j)
  BY <1>6, OwesNothing, TrailRead DEF StartInspection
<1>7. CASE StartQc(r, j)
  BY <1>7, OwesNothing, TrailRead DEF StartQc
<1>8. ASSUME NEW result \in {"pass", "fail"}, StartQcSubmit(r, j, result) PROVE TrailInv'
  BY <1>8, OwesNothing, TrailRead DEF StartQcSubmit
<1>9. CASE StartLink(r, j)
  <2> DEFINE p == IF job[j].status \in Terminal \cup {"estimate_sent"}
                  THEN Awaiting("linkSend", j, NoWrite, NoEntry)
                  ELSE Awaiting("linkStatus", j, LinkWrite,
                                Entry(job[j].status, "estimate_sent"))
  <2>1. Owes(p, history) /\ (p.op = "linkStatus" => p.write = LinkWrite)
    BY OwesNothing
  <2>2. Await(r, p) /\ OnlyRequests
    BY <1>9 DEF StartLink
  <2> QED BY <2>1, <2>2, TrailRead
<1>10. CASE StartDecide(r, j)
  <2> DEFINE e == IF job[j].status = "approved" THEN NoEntry
                  ELSE Entry(job[j].status, "approved")
             p == Awaiting("batch", j, ApproveWrite, e)
  <2>1. p.write.status = "approved" /\ p.write.archived = "keep"
    BY DEF ApproveWrite, NoWrite, Keep
  <2>2. job[j].status # "approved" => e.to = "approved"
    BY DEF Entry
  <2>3. Owes(p, history) /\ p.op # "linkStatus"
    BY <1>0, <2>1, <2>2 DEF Owes
  <2>4. Await(r, p) /\ OnlyRequests
    BY <1>10 DEF StartDecide
  <2> QED BY <2>3, <2>4, TrailRead
<1> QED
  BY <1>1, <1>2, <1>3, <1>4, <1>5, <1>6, <1>7, <1>8, <1>9, <1>10 DEF Start

\* A step that changes no job's status or archived_at, shortens no history and
\* leaves each request as it was or owing nothing keeps the invariant.
LEMMA TrailQuiet ==
  ASSUME TrailInv, TypeOK',
         \A j \in Jobs : /\ job'[j].status = job[j].status
                         /\ job'[j].archived = job[j].archived
                         /\ \A s : Shows(history[j], s) => Shows(history'[j], s),
         \A r \in Reqs : \/ req'[r] = req[r]
                         \/ req'[r].op # "linkStatus" /\ req'[r].write = NoWrite
  PROVE  TrailInv'
<1>1. TrailCoversStatus' /\ ArchivedWasClosed'
  BY DEF TrailInv, TrailCoversStatus, ArchivedWasClosed
<1>2. ASSUME NEW r \in Reqs
      PROVE  Owes(req'[r], history') /\ (req'[r].op = "linkStatus" => req'[r].write = LinkWrite)
  <2>1. CASE req'[r].op # "linkStatus" /\ req'[r].write = NoWrite
    BY <2>1, OwesNothing
  <2>2. CASE req'[r] = req[r] /\ req[r].op = "idle"
    <3>1. req[r] \in Pending \cup {Idle} /\ req[r] \notin Pending
      BY <2>2 DEF TrailInv, TypeOK, Pending, PendingOps
    <3> QED BY <2>2, <3>1, OwesNothing DEF Idle
  <2>3. CASE req'[r] = req[r] /\ req[r].op # "idle"
    <3>1. req[r].job \in Jobs
      BY <2>3, OwedType DEF TrailInv
    <3> QED BY <2>3, <3>1, OwesMonotone DEF TrailInv
  <2> QED BY <2>1, <2>2, <2>3
<1> QED BY <1>1, <1>2 DEF TrailInv

\* A statement that resolves keeps the trail covering every job.
LEMMA TrailStep ==
  ASSUME TrailInv, TypeOK', NEW r \in Reqs, Step(r)
  PROVE  TrailInv'
<1> DEFINE j == req[r].job
<1> USE DEF Awaiting
<1>0. TypeOK
  BY DEF TrailInv
<1>1. CASE CommitBatch(r)
  BY <1>1, TrailCommit DEF CommitBatch, Idle
<1>2. CASE ReadJobForInspection(r)
  <2> DEFINE p == IF job[j].status = "booked"
                  THEN Awaiting("inspectBatch", j, CheckInWrite,
                                Entry("booked", "checking"))
                  ELSE Awaiting("inspectInsert", j, NoWrite, NoEntry)
  <2>1. CheckInWrite.status = "checking" /\ CheckInWrite.archived = "keep"
    BY DEF CheckInWrite, NoWrite, Keep
  <2>2. Owes(p, history) /\ p.op # "linkStatus"
    BY <2>1, OwesNothing DEF Owes, Entry
  <2>3. Await(r, p) /\ OnlyRequests
    BY <1>2 DEF ReadJobForInspection
  <2> QED BY <2>2, <2>3, TrailRead
<1>3. CASE CheckInBatch(r)
  BY <1>3, TrailCommit DEF CheckInBatch
<1>4. CASE InsertInspection(r)
  BY <1>0, <1>4, TrailQuiet DEF InsertInspection, Await, Idle, TypeOK
<1>5. CASE ReadJobForQc(r)
  <2> DEFINE p == IF job[j].status \in {"in_progress", "waiting_parts"}
                  THEN Awaiting("qcBatch", j, QcWrite,
                                Entry(job[j].status, "quality_check"))
                  ELSE Awaiting("qcInsert", j, NoWrite, NoEntry)
  <2>1. QcWrite.status = "quality_check" /\ QcWrite.archived = "keep"
    BY DEF QcWrite, NoWrite, Keep
  <2>2. Owes(p, history) /\ p.op # "linkStatus"
    BY <2>1, OwesNothing DEF Owes, Entry
  <2>3. Await(r, p) /\ OnlyRequests
    BY <1>5 DEF ReadJobForQc
  <2> QED BY <2>2, <2>3, TrailRead
<1>6. CASE QcBatch(r)
  BY <1>6, TrailCommit DEF QcBatch
<1>7. CASE InsertQc(r)
  BY <1>0, <1>7, TrailQuiet DEF InsertQc, Await, Idle, TypeOK
<1>8. CASE StoreResult(r)
  <2>1. req' = [req EXCEPT ![r] = [req[r] EXCEPT !.op = "qcVerdict"]]
        /\ UNCHANGED <<job, history>>
    BY <1>8 DEF StoreResult, Await
  <2>2. Owes(req'[r], history') /\ req'[r].op # "linkStatus"
    <3>1. /\ req'[r].op = "qcVerdict" /\ req'[r].write = req[r].write
          /\ req'[r].entry = req[r].entry /\ req'[r].job = req[r].job
      BY <1>0, <1>8, <2>1, OwedType DEF StoreResult, TypeOK, Pending
    <3>2. Owes(req[r], history)
      BY DEF TrailInv
    <3> QED BY <2>1, <3>1, <3>2 DEF Owes
  <2>3. \A q \in Reqs : q # r => req'[q] = req[q]
    BY <1>0, <2>1 DEF TypeOK
  <2>4. \A q \in Reqs : /\ Owes(req'[q], history')
                        /\ req'[q].op = "linkStatus" => req'[q].write = LinkWrite
    BY <2>1, <2>2, <2>3 DEF TrailInv
  <2> QED BY <2>1, <2>4 DEF TrailInv, TrailCoversStatus, ArchivedWasClosed
<1>9. CASE ReadJobForVerdict(r)
  <2> DEFINE w == VerdictWrite(req[r].result)
             p == IF job[j].status = "quality_check"
                  THEN Awaiting("batch", j, w, Entry("quality_check", w.status))
                  ELSE Idle
  <2>1. w.archived = "keep"
    BY DEF VerdictWrite, NoWrite, Keep
  <2>2. Owes(p, history) /\ p.op # "linkStatus"
    BY <2>1, OwesNothing DEF Owes, Entry, Idle
  <2>3. Await(r, p) /\ OnlyRequests
    BY <1>9 DEF ReadJobForVerdict
  <2> QED BY <2>2, <2>3, TrailRead
<1>10. CASE LinkStatus(r)
  <2>1. req[r].op # "idle" /\ req[r].write = LinkWrite
    BY <1>10 DEF LinkStatus, TrailInv
  <2>2. j \in Jobs /\ req[r] \in Pending
    BY <1>0, <2>1, OwedType
  <2>3. /\ history' = history
        /\ \A k \in Jobs : job'[k] = IF k = j THEN Put(job[j], LinkWrite) ELSE job[k]
        /\ \A q \in Reqs : q # r => req'[q] = req[q]
        /\ req'[r] = [req[r] EXCEPT !.op = "linkEntry", !.write = NoWrite]
    BY <1>0, <1>10, <2>1, <2>2 DEF LinkStatus, Await, TypeOK
  <2>4. /\ Put(job[j], LinkWrite).status = "estimate_sent"
        /\ Put(job[j], LinkWrite).archived = job[j].archived
    BY DEF Put, Over, LinkWrite, NoWrite, Keep
  <2>5. TrailCoversStatus' /\ ArchivedWasClosed'
    BY <2>2, <2>3, <2>4
    DEF TrailInv, TrailCoversStatus, ArchivedWasClosed, Recorded, Statuses
  <2>6. req'[r].op # "linkStatus" /\ req'[r].write = NoWrite
    BY <2>2, <2>3 DEF Pending
  <2>7. \A q \in Reqs : /\ Owes(req'[q], history')
                        /\ req'[q].op = "linkStatus" => req'[q].write = LinkWrite
    BY <2>3, <2>6, OwesNothing DEF TrailInv
  <2> QED BY <2>5, <2>7 DEF TrailInv
<1>11. CASE LinkEntry(r)
  <2>1. j \in Jobs /\ req[r].entry \in Entries \cup {NoEntry}
    BY <1>0, <1>11, OwedType DEF LinkEntry
  <2>2. /\ job' = job
        /\ \A k \in Jobs : history'[k] = IF k = j THEN Log(history[j], req[r].entry)
                                         ELSE history[k]
        /\ \A q \in Reqs : req'[q] = IF q = r THEN Awaiting("linkSend", j, NoWrite, NoEntry)
                                     ELSE req[q]
    BY <1>0, <1>11, <2>1 DEF LinkEntry, Await, TypeOK
  <2>3. \A k \in Jobs : history[k] \in Seq(Entries)
    BY <1>0 DEF TypeOK
  <2>4. ASSUME NEW k \in Jobs, NEW s, Shows(history[k], s) PROVE Shows(history'[k], s)
    <3>1. CASE k = j
      BY <2>1, <2>2, <2>3, <2>4, <3>1, LogShows
    <3>2. CASE k # j
      BY <2>2, <2>4, <3>2
    <3> QED BY <3>1, <3>2
  <2> QED BY <2>2, <2>4, TrailQuiet
<1>12. CASE SendLink(r)
  BY <1>0, <1>12, TrailQuiet DEF SendLink, Await, Idle, TypeOK
<1> QED
  BY <1>1, <1>2, <1>3, <1>4, <1>5, <1>6, <1>7, <1>8, <1>9, <1>10, <1>11, <1>12
  DEF Step

\* So do the one-step handlers and the scheduler.
LEMMA TrailAtOnce ==
  ASSUME TrailInv, TypeOK',
         \/ \E j \in Jobs : AtOnce(j)
         \/ \E r \in Reqs : Abort(r)
         \/ RemoveAll \/ ArchiveClosed \/ MarkNoShow
  PROVE  TrailInv'
<1>0. TypeOK /\ TrailCoversStatus /\ ArchivedWasClosed
  BY DEF TrailInv
<1>1. ASSUME NEW j \in Jobs, Create(j) PROVE TrailInv'
  <2> DEFINE e == Entry("null", "booked")
  <2>1. e \in Entries /\ e \in Entries \cup {NoEntry} /\ Log(history[j], e) = Append(history[j], e)
    BY DEF Entry, Entries, Statuses, Log, NoEntry
  <2>2. /\ \A k \in Jobs : history'[k] = IF k = j THEN Log(history[j], e) ELSE history[k]
        /\ \A k \in Jobs : job'[k] = IF k = j THEN NewJob("null") ELSE job[k]
        /\ req' = req
    BY <1>0, <1>1, <2>1 DEF Create, TypeOK
  <2>3. ASSUME NEW k \in Jobs, NEW s, Shows(history[k], s) PROVE Shows(history'[k], s)
    <3>1. CASE k = j
      BY <1>0, <2>1, <2>2, <2>3, <3>1, LogShows DEF TypeOK
    <3>2. CASE k # j
      BY <2>2, <2>3, <3>2
    <3> QED BY <3>1, <3>2
  <2>4. TrailCoversStatus' /\ ArchivedWasClosed'
    BY <1>0, <2>2, <2>3
    DEF TrailCoversStatus, ArchivedWasClosed, NewJob, Recorded, Statuses
  <2>5. ASSUME NEW r \in Reqs PROVE Owes(req[r], history')
    <3>1. CASE req[r].op = "idle"
      <4>1. req[r] \in Pending \cup {Idle} /\ req[r] \notin Pending
        BY <1>0, <3>1 DEF TypeOK, Pending, PendingOps
      <4> QED BY <4>1, OwesNothing DEF Idle
    <3>2. CASE req[r].op # "idle"
      <4>1. req[r].job \in Jobs /\ Owes(req[r], history)
        BY <1>0, <3>2, OwedType DEF TrailInv
      <4> QED BY <2>3, <4>1, OwesMonotone
    <3> QED BY <3>1, <3>2
  <2> QED BY <2>2, <2>4, <2>5 DEF TrailInv
<1>2. ASSUME NEW j \in Jobs, CreateUnlogged(j) PROVE TrailInv'
  <2>1. /\ \A k \in Jobs : job'[k] = IF k = j THEN NewJob("shop") ELSE job[k]
        /\ req' = req /\ history' = history
    BY <1>0, <1>2 DEF CreateUnlogged, TypeOK
  <2>2. TrailCoversStatus' /\ ArchivedWasClosed'
    BY <1>0, <2>1 DEF TrailCoversStatus, ArchivedWasClosed, NewJob, Recorded, Statuses
  <2> QED BY <2>1, <2>2 DEF TrailInv
<1>3. ASSUME NEW j \in Jobs, Remove(j) PROVE TrailInv'
  <2>1. \A k \in Jobs : job'[k] = IF k = j THEN [job[j] EXCEPT !.deleted = "yes"]
                                  ELSE job[k]
    BY <1>0, <1>3 DEF Remove, TypeOK
  <2>2. job[j] \in Rows
    BY <1>0 DEF TypeOK
  <2>3. \A k \in Jobs : job'[k].status = job[k].status /\ job'[k].archived = job[k].archived
    BY <2>1, <2>2 DEF Rows
  <2> QED BY <1>3, <2>3, TrailQuiet DEF Remove
<1>4. ASSUME NEW j \in Jobs, ReopenQc(j) \/ ReleasePortalUpdate(j) PROVE TrailInv'
  BY <1>4, TrailQuiet DEF ReopenQc, ReleasePortalUpdate
<1>5. ASSUME NEW r \in Reqs, Abort(r) PROVE TrailInv'
  BY <1>5, OwesNothing, TrailRead DEF Abort, Idle
<1>6. CASE RemoveAll
  <2>1. ASSUME NEW k \in Jobs
        PROVE  job'[k].status = job[k].status /\ job'[k].archived = job[k].archived
    <3>1. job[k] \in Rows /\ job'[k] \in {[job[k] EXCEPT !.deleted = "yes"], job[k]}
      BY <1>0, <1>6 DEF RemoveAll, TypeOK
    <3> QED BY <3>1 DEF Rows
  <2> QED BY <1>6, <2>1, TrailQuiet DEF RemoveAll
<1>7. CASE ArchiveClosed
  <2>1. \A k \in Jobs : job[k] \in Rows
    BY <1>0 DEF TypeOK
  <2>2. \A k \in Jobs : /\ job'[k].status = job[k].status
                        /\ job'[k].archived = "set"
                             => job[k].status = "closed" \/ job[k].archived = "set"
    BY <1>7, <2>1 DEF ArchiveClosed, Rows
  <2>3. TrailCoversStatus' /\ ArchivedWasClosed'
    BY <1>0, <1>7, <2>2
    DEF ArchiveClosed, TrailCoversStatus, ArchivedWasClosed, Recorded, Statuses
  <2> QED BY <1>7, <2>3 DEF ArchiveClosed, TrailInv
<1>8. CASE MarkNoShow
  <2>1. \A k \in Jobs : job[k] \in Rows
    BY <1>0 DEF TypeOK
  <2>2. \A k \in Jobs : /\ job'[k].status \in {job[k].status, "no_show"}
                        /\ job'[k].archived = job[k].archived
    BY <1>8, <2>1 DEF MarkNoShow, Rows
  <2>3. TrailCoversStatus' /\ ArchivedWasClosed'
    BY <1>0, <1>8, <2>2
    DEF MarkNoShow, TrailCoversStatus, ArchivedWasClosed, Recorded
  <2> QED BY <1>8, <2>3 DEF MarkNoShow, TrailInv
<1> QED
  BY <1>1, <1>2, <1>3, <1>4, <1>5, <1>6, <1>7, <1>8 DEF AtOnce

\* The inductive invariant of the trail.
THEOREM TrailInvariant == Spec => []TrailInv
<1>1. Init => TrailInv
  <2> SUFFICES ASSUME Init PROVE TrailInv
    OBVIOUS
  <2>1. TypeOK
    BY DEF Init, TypeOK, NewJob, Rows, Statuses, Stages, PartsStatuses, Stamps
  <2>2. \A j \in Jobs : job[j].status = "none" /\ job[j].archived = "null"
    BY DEF Init, NewJob
  <2>3. TrailCoversStatus /\ ArchivedWasClosed
    BY <2>2 DEF TrailCoversStatus, ArchivedWasClosed, Recorded, Statuses
  <2>4. \A r \in Reqs : req[r].op = "idle" /\ req[r].write = NoWrite
    BY DEF Init, Idle
  <2> QED BY <2>1, <2>3, <2>4, OwesNothing DEF TrailInv
<1>2. TrailInv /\ TypeOK' /\ [Next]_vars => TrailInv'
  <2> SUFFICES ASSUME TrailInv, TypeOK', [Next]_vars PROVE TrailInv'
    OBVIOUS
  <2>1. CASE \E r \in Reqs, j \in Jobs : Start(r, j)
    BY <2>1, TrailStart, LifecycleAssumption
  <2>2. CASE \E r \in Reqs : Step(r)
    BY <2>2, TrailStep
  <2>3. CASE UNCHANGED vars
    BY <2>3, TrailQuiet DEF vars
  <2> QED BY <2>1, <2>2, <2>3, TrailAtOnce DEF Next
<1> QED BY <1>1, <1>2, Typing, PTL DEF Spec

\* Any interleaving of any endpoints keeps a job's recorded status in its
\* history.
THEOREM TrailCovers == Spec => []TrailCoversStatus
<1>1. TrailInv => TrailCoversStatus
  BY DEF TrailInv
<1> QED BY <1>1, TrailInvariant, PTL

\* Nothing is ever archived that its history does not show as closed.
THEOREM ArchivedAfterClosed == Spec => []ArchivedWasClosed
<1>1. TrailInv => ArchivedWasClosed
  BY DEF TrailInv
<1> QED BY <1>1, TrailInvariant, PTL
==============================================================================
