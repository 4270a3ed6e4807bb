# SuperFlow in TLA+

SuperFlow (PrioraFlow) runs a car workshop: a NestJS backend over MySQL
(`src/src`, Prisma), a web client, a mobile client, Redis/BullMQ for
notifications and S3 for media. This directory models where things can go wrong
between two requests: the life of a job, the stock of parts, the customer's
approval of an estimate, and nine services around the job, from the delivery of
notifications to the board a browser shows.

Nothing in the backend takes a lock. A handler awaits a read, decides, and
awaits a write; between the two any other request may run, on the same Node
process or another. Most writes set absolute values by id, so what a handler
overwrites it may never have seen. That is what the models are about.

## 1. Inventory

| Component | State | Operations | Talks to | What is hard |
|---|---|---|---|---|
| Job lifecycle (`jobs/`) | `jobs`: status, workshop_stage, parts_status, four timestamps, is_deleted; `job_status_history` | create, PATCH (update), transition, assign, archive, unarchive, remove, removeAll | read by every other service, and moved by five | stale reads; PATCH bypasses the transition table; the trail |
| Inspections | one row per job, its responses | create (checks the car in), saveResponses, submit, reopen | moves the job, creates concerns, notifies | insert after the move, in another statement |
| QC checklists | one row per job, responses, overall_result | create (pulls the car into QC), saveResponses, submit (verdict), reopen | moves the job | the verdict is stored first and applied later |
| Authorisation, portal | approval_tokens, authorisation_decisions, customer_portal_snapshots | request, release, load, decide, reset | moves the job, creates deferred work, notifies | links stay valid for 7 days; the customer answers late, twice, or through two links |
| Estimates | estimate_lines, their history, quote groups | create, update, remove, bulkReplace | lines are what decisions refer to | a bulk save against a decision in flight |
| Deferred work | deferred_work, reminders | update, remindNow, book (a new job) | created by the portal | booking twice |
| Scheduler | MySQL advisory locks | nightly archive, no-show sweep, cleanups, trial warnings | updateMany over jobs, per workshop | runs against live requests; lock and pool |
| Inventory | inventory (on hand, reserved, available), stock_movements | adjust, transfer | shared with the next two | lost updates on derived columns |
| Job parts | job_parts: memo, reserved, used, returned, cancelled | memo, reserve, consume, return, cancel | writes inventory | partial quantities, double consumption |
| Purchase orders | orders and items | create, updateStatus, receiveItem, cancel | writes inventory | order status against item quantities |
| Notifications | notifications rows, a BullMQ queue | enqueue, requeue poll, deliver, retry, provider reports | providers | duplicate and lost delivery |
| Authentication | refresh_tokens, lockout counters | login, refresh, logout, reset, change password, deactivate | its cookie is shared by a browser's tabs | rotation and reuse detection |
| Media | media_files, S3 objects, media_count | direct and presigned upload, confirm, remove, sweep | counts on inspection and QC answers | two stores; four writers of one counter |
| Billing, usage | subscriptions, invoices, usage_records | activate, pay, increment | | no transaction; find-then-create |
| Web client: jobs board | a list, optimistic moves, polls | drag, fetch | the job's endpoints | answers in any order |
| Web and mobile forms | a copy of the whole inspection | open, edit, save, submit, reopen | the inspection's endpoints | stale copies |
| Blockers, priority, workflow configuration, tenant scoping | see `PROJECT.json` | | | none of their own |
| Master data, administration, other screens | single rows, forms, views | | | none of their own |

What makes each core component correct:

- *Job*: a job is born booked and moves only along moves somebody allowed; its
  history explains its status; timestamps agree with the status (a ready job has
  completed_at, a closed or archived one invoiced_at); the overall board and the
  workshop board show the same lane; a QC verdict is acted on.
- *Stock*: available is on hand less reserved; the movements explain the
  columns; reserved stock covers the open reservations; an order's status agrees
  with what was received; a call takes effect as a whole or not at all.
- *Approval*: a line is decided once; a refused or deferred line becomes
  deferred work once; what a decision refers to stays; what was released is what
  the customer sees.
- *Services*: a message goes out once unless a fault costs a second delivery, and
  none waits for ever; a finding reaches the advisor; counters follow what they
  count; a session that ended stays ended; an item is booked, a workshop billed and
  a customer warned once; a screen shows what the server said.

The hazards, each at its line, are in `PROJECT.json` under `hazards`, with the
properties that watch over them.

## 2. Plan

1. **Job lifecycle** (done): `JobStates`, the abstract `JobStatusMachine`,
   `JobLifecycle`, its proofs.
2. **Stock** (done): the atomic `StockLedger`, `StockRequests` with
   interleavings, which implements the ledger when calls do not overlap, its proofs.
3. **ApprovalPortal** (done): links, decisions, the deferred work they leave and
   the estimate lines they refer to, against the abstract `LineAnswers`; proofs of
   every property the runs check.
4. **Services** (done): `NotificationDelivery`, `InspectionForm` with
   `TrafficLight`, `MediaFiles`, `Sessions`, `DeferredDesk`, `Billing`,
   `TrialWarnings`, `PortalReleases`, `JobsBoard`, composed by `Services`.
5. **Proofs** (done for every invariant and refinement that a passing run checks):
   - `JobLifecycleProofs`: what holds of a job whatever endpoints there are;
     `JobRulesProofs`: what holds under a condition on the endpoints.
   - `StockProofs`: the ledger, and the calls that are split.
   - `ApprovalProofs`: the portal.
   - `BackgroundProofs`: `NotificationDelivery`, `TrialWarnings`, `MediaFiles`.
   - `OfficeProofs`: `Sessions`, `DeferredDesk`, `Billing`.
   - `ScreenProofs`: `PortalReleases`, `JobsBoard`, `InspectionForm`, `TrafficLight`.
   - `ServicesProofs`: the nine services together.
6. Left: what racing stock calls do preserve beyond types and received quantities;
   the QC form with its photos.

## 3. The job

`JobStates` holds the statuses and the table of `jobs.state-machine.ts`, and the
*forced moves* three services make on top of it: starting a QC checklist, a new
approval link, a customer's answer. `JobStatusMachine` is the abstract promise: a
job is booked once, moves along legal moves and never leaves closed or no_show.

`JobLifecycle` models every endpoint that touches a job's status, lane, parts
status or timestamps.

| Variable | Code |
|---|---|
| `job[j]` | the row of `jobs`; `"none"` before it exists. The six in-workshop values of workshop_stage are one, `"shop"`; the four parts statuses between ordering and arrival are one, `"ordered"`; timestamps are null or set |
| `history[j]` | the rows of `job_status_history`, in commit order |
| `inspection`, `qc[j]` | whether the job has an inspection; status and result of its checklist |
| `linked` | jobs for which a customer holds a link (links are valid 7 days and never revoked by the code) |
| `req[r]` | a request in flight: the statement it awaits and the write it decided on |

A handler `Start...` reads and decides; `CommitBatch` and the named steps
(`CheckInBatch`, `InsertInspection`, `QcBatch`, `InsertQc`, `StoreResult`,
`ReadJobForVerdict`, `LinkStatus`, `LinkEntry`, `SendLink`) are its later
statements, in the code's order. A write is a record over the columns with `"keep"`
for those the code does not name, so two writes merge by column as Prisma's
updates do. Handlers whose write does not depend on the read (`Remove`,
`ReopenQc`) and `updateMany` sweeps are one step. `Abort` is a failed statement or
a dead process.

The lane that a `workflow_stage_key` resolves to depends on the workshop's
configuration: a PATCH body of the model carries the stage's systemStatus.

Runs (`MCJobLifecycle`, one job: no handler touches two jobs except the sweeps,
which treat each alike):

| Run | Instance | Shows |
|---|---|---|
| `job_every` | 2 requests in flight, every endpoint but assign (which moves no job), PATCH bodies that bypass the table, crashes; no handler starts on a job with 2 history rows | what survives everything: `TrailCoversStatus`, `ArchivedWasClosed`, `InspectionMeansCheckedIn` |
| `job_guarded` | 2 requests of the handlers that stamp a timestamp on the status they read (transition, QC, archive and its sweep), the customer's, and assign; no PATCH; bound 4 | `ReadyIsCompleted`, `ClosedOrArchivedIsInvoiced`, `RecordedMovesAreLegal` |
| `job_serial` (`MCProgress`) | 1 request, all endpoints but crash, import and no-show; bound 6, enough for a full pass through the flow and back | `TrailIsChain`, `LanesAgree`, `ReadyPartsAreQueued`, refinement `FollowsMachine`, liveness `VerdictMovesJob`; and `NoRowStuck` of the delivery (section 6) |
| `job_race` (violation) | 2 transitions | two requests that read one status both commit: the trail is no chain |
| `job_reopen` (violation) | 1 request, PATCH with a lane | a closed job is reopened with invoiced_at kept, against `docs/backend-business-rules.md:36` |

Two requests are enough for the hazards listed: each needs one read that one other
write makes stale. The history bound counts rows when a handler starts, so the
two in flight may still add two each. An imported job is ready after three rows, so
in `job_guarded` handlers start on ready cars, two at once, and their writes land on
rows that have moved since: the stale reads that `ReadyIsCompleted` is about. Every
job has at most one inspection and one checklist by unique keys.

`Progress` runs the job beside `NotificationDelivery`, one of the two at a time, as
`Services` does with its nine: the two liveness properties are checked there, each
under the fairness of its own specification. Deadlock is not checked in that run,
for a delivery with nothing left to send may rest.

Fairness: only `WF_vars(Step(r))` for the request in flight. An awaited database
statement resolves and the event loop runs its continuation; nothing obliges a
user to send a request. `VerdictMovesJob` is checked without crashes, for a crash
after `StoreResult` does leave the job in quality_check with a submitted checklist
(its hazard says so; nothing in the repository claims otherwise).

Why some properties need one request at a time: `TrailIsChain` and the refinement
fail when two reads overlap (`job_race`). `LanesAgree` fails because
assignTechnician writes back a stale lane. What is claimed of interleavings is in
the first two runs.

### What is proved

`JobLifecycleProofs`, for any jobs, requests, endpoints, bodies and bound that
satisfy `LifecycleAssumption`:

- `Typing`: `Spec => []TypeOK`.
- `TrailInvariant`, `TrailCovers`, `ArchivedAfterClosed`. `TrailCoversStatus` is not
  inductive: a batch in flight may install any status. The strengthening says of
  each request in flight that the history row it carries names the status it
  writes, or that the job's history already shows that status, and that an
  archive write was decided on a job whose history shows closed. Histories only
  grow, so a stale decision still has its evidence.

`JobRulesProofs` proves the properties of `job_guarded` and `job_serial`, which
hold for some endpoints and bodies and not for others. Every step is first
described as what it does to one job and to one request (`Moves`, `RequestMoves`:
a batch committed, an inspection inserted, the two writes of a link, a verdict, a
sweep), and `Decides` as what a handler may have decided from the row it read; a
rule is then proved from these, once for each. `BaseInvariant` says that
requests and checklists belong to a job that exists.

| Theorem | For any jobs, requests in flight and | Argument |
|---|---|---|
| `ReadyCompleted` (`ReadyIsCompleted`) | no PATCH body that moves to ready | a write in flight that sets ready sets completed_at, and none clears it without leaving ready |
| `ClosedInvoiced` (`ClosedOrArchivedIsInvoiced`) | no PATCH body that moves to closed | the same of invoiced_at; an archive write was decided on a closed job, and nothing clears the stamp |
| `InspectedIsCheckedIn` (`InspectionMeansCheckedIn`) | no PATCH body that moves to booked | no write in flight sets booked |
| `MovesLegal` (`RecordedMovesAreLegal`) | no PATCH body with a lane or a stage | a row in flight names a move that was legal when it was read, which is what the property says |
| `LanesAgreeAlone` (`LanesAgree`) | one request; PATCH bodies place the car when they move the status | a write in flight fits the lane of the row as it still is |
| `PartsQueuedAlone` (`ReadyPartsAreQueued`) | one request; no PATCH body that parks a car for parts | the same |
| `FollowsMachineAlone` (`FollowsMachine`) | one request; no lane or stage in a PATCH; no no-show sweep | a write in flight is a legal move from the status as it still is, so each step is one of `JobStatusMachine` or a stutter |
| `ChainAlone` (`TrailIsChain`) | one request; no no-show sweep, abort or unlogged import | the row in flight starts where the history ends |

The conditions exclude what the code really lets through. update stamps no
timestamp, and does not hold a lane or a stage to the table, so a body that moves
a job to ready or closed, or a lane that leads back to booked, breaks the first
three (`job_reopen` shows what a lane does). The no-show sweep and an
import write a status without history, and an aborted link leaves a status
without its row. The runs satisfy the conditions, so they check on an instance what
the theorems say of all.

## 4. The stock

`StockLedger` takes a call as one step. Each call is a pair: `Can...`, what it
checks, and `...Change`, the columns it writes as a record of partial functions,
with movements added. One catalogue part stands for all: the handlers never
touch inventory rows of two parts in one call. `StockRequests` splits a call into
a `Read...` step, which computes the change from the state it sees, and `Commit`
or `Rollback`: the code runs in `prisma.$transaction(async tx => ...)`, whose plain
SELECTs take no lock under InnoDB's default isolation and all see one snapshot.
An inventory row inserted by two calls makes the later commit fail on
`uk_inventory_part_warehouse`.

| Variable | Code |
|---|---|
| `rows`, `onHand`, `reserved`, `available` | the `inventory` row of each warehouse |
| `moved` | the `stock_movements`, summed by warehouse and type; consumptions and returns of a negative quantity apart from the others |
| `part[p]` | a `job_parts` row: status, place and quantity; place is a warehouse, `"unplaced"` (catalogue part without one) or `"adhoc"` |
| `order`, `ordered`, `received` | purchase order status, and its items' quantities |

| Run | Instance | Shows |
|---|---|---|
| `stock_serial` | one call in flight, 2 warehouses, 2 job parts, one order of 2 items, parts of 1 and 2, amounts of 1, 2 and -1 in a consumption or a return, lots of 1, at most 2 brought into a warehouse | the invariants of the ledger, among them that an order fills up exactly and its status says so (`OrdersFillUp`), and `ImplementsLedger`: the split calls implement the atomic ledger (every step that changes the stock is a call of it) |
| `stock_race` (violation) | two calls in flight, one warehouse | a reservation and an adjustment overlap: available is no longer on hand less reserved |

consumeForJob and returnForJob check only that the quantity is not more than the
part's (`CanConsume`, `CanReturn`), so `Amounts` are integers. A negative return
raises what is reserved and may leave available below zero with nothing adjusted:
`OversoldIsAccountedFor` says that stock is short by no more than the adjustments
out and the negative returns together, so that reserving and transferring, which do
check what is available, never add to it.

`StockBound` caps what is brought into a warehouse; quantities 1 and 2 against
lots of 1 make partial consumption and return, insufficient stock, a transfer of
reserved stock and an order received in steps all happen. Deadlock is not checked
in these runs: job parts and orders are finite and end used, cancelled or received,
and the bound stops the receipts, so the model may legitimately stop.

### What is proved

`StockProofs`, for any warehouses, job parts and orders, and any integers consumed and returned:
`StockTyping`; `LedgerSound` (type correctness with `ColumnsSound`: in each
warehouse available is on hand less reserved, and the movements explain both);
from it `AvailableDerived`, `LedgerComplete` and `OversoldExplained` (`OversoldIsAccountedFor`).
`OrdersComplete` (`OrdersFillUp`), `ReceiptsBooked` (`ReceiptsReachStock`) and
`ReservationsHeld` (`ReservationsBacked`) are about sums over items, warehouses
and job parts. A sum of quantities is stated as the number of its single units,
`Cardinality(Units(f))`, where `Units(f)` has f[x] pairs for each x: what a call adds
to one place and to another is then counted by lemmas about finite sets
(`UnitsOfOne`, `UnitsMore`, `UnitsWithout`) instead of by induction over a fold, which the prover
cannot do. `StockAssumption` has the tables finite for that. `OrdersFillUp` is
strengthened by one fact: nothing of an order that was not placed is received.

Of the calls that are split, `OneCallIsLedger` proves that with one call in flight
(`OneCall`), `RSpec` implies the ledger's `Spec`, so all of the above holds of it, and
`OneCallImplementsLedger` states that as the refinement `ImplementsLedger`. The
invariant is `Fresh`: a call in flight would compute the same change if it read
now. Where calls overlap that is what is lost, as `stock_race` shows.
`RacesNeverOverReceive` is what any number of racing calls do keep: the types, and
`received <= ordered`. A receipt writes the quantity it computed from what it read;
what was ordered does not change, so its check still holds when it commits
(`RacesSound`).

## 5. The approval

`ApprovalPortal` follows one job: customers answer its lines through links while
advisors edit the estimate and reset a concern. A request awaits one statement
after another (`req`): decideFromPortal is `OpenLink` (token and lines),
`CheckUndecided` (outside the transaction), `BeginDecide` (the transaction's
snapshot, which decides what deferred work is missing) and `CommitDecide`;
bulkReplace is `ReadForSave` and `CommitSave`; resetConcernApproval
`ReadConcernLines` and `ResetConcern`; removeConcern `UnlinkConcern` and
`DeleteConcern`. Calls that write one row are one step, and so is the estimate
line of `reserveForJob`. `Fail` ends any request where it stands.

| Variable | Code |
|---|---|
| `line[l]` | the row of `estimate_lines`: none yet, active, detached (job_id null), deleted |
| `concern`, `inConcern` | a concern of the job and the lines whose concern_id is set to it |
| `edited` | lines with rows in `estimate_line_history` |
| `link`, `used` | `approval_tokens`: live until it expires; used_at |
| `decided` | the rows of `authorisation_decisions` |
| `work[l]` | how many `deferred_work` rows refer to the line |

The database is modelled by what its constraints refuse at commit: a decision on a
deleted line, a second one through the same link (`idx_ad_token_line`), the
deletion of a line that is referred to. Which of two conflicting transactions goes
first is left open; under InnoDB their row locks settle it, or a deadlock ends one.

`LineAnswers` is the promise: a line is answered once, an answer counts whole or
not at all, a refused line and no other is followed up, and asking again leaves
the follow-up. The mapping forgets links and counts.

| Run | Instance | Shows |
|---|---|---|
| `portal` | 2 lines, 2 links, one customer and one advisor, concurrent | the invariants, `DecisionsAreFinal`, and the refinement `ImplementsPromise` |
| `portal_race` (violation) | 2 customers, 2 links, 1 line | both answers pass the check: the line is decided twice, against the comment at `authorisation.service.ts:853` |
| `portal_used` (violation) | 1 customer, 1 link | a used link decides another line, against `docs/backend-request-flows.md:228` |

Two lines are enough for answers that overlap in part, for a save that keeps one
line and drops the other, and for a line outside the concern that is reset. Nothing
is bounded but these sets. Deadlock is not checked: lines and links are used up.

### What is proved

`ApprovalProofs`, for any lines, links, customers and advisors:

- `Typing` and `RefusedIsFollowed` hold of any interleaving. The latter needs to
  know of each answer about to be committed that every line it refuses is in the
  deferred work it brings, or has some: true in the snapshot, and deferred work is
  never deleted.
- `LineDecidedOnce`, `LineFollowedOnce` and the refinement `PortalKeepsPromise`
  assume one customer request at a time (`OneCustomer`), and need it, as
  `portal_race` shows: what the check saw (`CheckHolds`) must still hold at commit.
  Advisors are any number. A second customer may break `FollowedUpOnce` the same way.
- `DetachedForReason` and `DecisionsSurvive` assume one advisor (`OneAdvisor`) and
  any customers: with two, a reset may take the decision that was the reason for
  which a save, already past its read, keeps a line.

## 6. The services

Nine modules, one per service. They share tables with the job and with each
other by key and, but for one, not the columns modelled here, so their product has
no behaviour that one of them could tell from its own. The exception is an advisor
who removes a concern that an inspection made (`ApprovalPortal`'s removeConcern):
`InspectionForm` counts the concerns made, not those still there. `Services`
composes them as a sum: its variable `subject` says which one runs while the others
rest, and the run `services` checks the invariants of all of them for the sum of
their state spaces, 1.5 million states. The one liveness property, `NoRowStuck`, is
checked in `job_serial`, where the graph to search for cycles is a third of that. Each action that crosses an `await` is split there; the
transactions of `prisma.$transaction([...])` are one step.

### NotificationDelivery

| Variable | Code |
|---|---|
| `row`, `msgId` | status and provider_message_id of a row of `notifications` |
| `bull` | the BullMQ job of the same id: state, attemptsMade, stalled count |
| `enq` | an `enqueueExisting` between its `queue.add` and its update |
| `worker` | `process`, between the provider's answer and `markSent` |
| `verdicts` | what the `failed` listener has still to write |
| `delivered`, `upsets` | messages the provider took; faults the row met |

BullMQ's retries, stalled jobs and removal of finished jobs are external. With 2
rows (one on a channel without provider), 2 attempts, a poll of 1 row and 2
faults, `SecondDeliveryExplained` says that only a fault (lost answer, failed
`markSent`, crash, an answer without id, an evicted job) costs a second delivery.
The poll of 1 stands for the code's 100: what matters is that queued rows behind
it exist. The queue's memory, 100 finished jobs, is `Evict`, which may forget any.

`NoRowStuck`, under weak fairness of the enqueuer (the five-second timer), the
worker, the listener and BullMQ's retries: a server that is up takes these steps
without anybody asking. Callers, faults, eviction and provider reports have no
fairness. The exception in the property is real: a row put back to queued while
BullMQ keeps its finished job is never added again, for `queue.add` with a known
id does nothing, and enough of these fill every poll.

### InspectionForm and TrafficLight

| Variable | Code |
|---|---|
| `locked`, `answer`, `concerns` | the inspection's status, its responses, the concerns the sync made of each |
| `page`, `detail`, `draft` | what a screen shows; what a phone has fetched, and its local draft |
| `call` | the handler in flight: `write`, `submit`, `sync`, `find`, `put`, `reopen` |

`TrafficLight` has the four computations of an answer's colour (server, browser
and phone, and the QC pair); `LightsAgree` compares them over every kind, value and
urgency and is a part of `FindingsBecomeConcerns`: what a screen shows amber or red
becomes a concern, once the calls are over, unless the submit died after it
locked the form or a save checked before the lock and wrote after it. `history`
records just these. One browser, one phone, one item and two findings suffice: the
races need two screens on one answer.

The run `phone_form` (violation) has one phone and two inspections: the phone's
form is one for the whole app and is filled only if the inspection was fetched
before, so the answers of one car are shown, and saved, on another.

### The other services

| Module | State and actions | Property | Bounds |
|---|---|---|---|
| `MediaFiles` | media_files, objects, media_count; uploads, confirm, removal, the form that overwrites the count, the sweep: its read, one object after another, the rows, and where it may break off | `CountFollowsPhotos`, `ListedHasContent` | 2 files on 1 answer, 1 remover |
| `Sessions` | refresh tokens, the cookie of a browser's tabs, the administrator's two statements | `SessionsDoNotMultiply`: every live token is paid for by a login or by a refresh whose token was revoked under its hands; `EndedStaysEnded` | 2 tabs with one cookie, 2 tokens, sessions ended twice |
| `DeferredDesk` | deferred_work; book, remindNow, update with any status and booked_job_id | `BookedOncePerClick`: until booked_job_id is cleared by hand, more jobs than one only for clicks that overlap | 1 item, 2 users, 3 reminders |
| `Billing` | subscriptions, workshop plan, invoice, usage record | `BilledOnce`: doubles only for activations or payments that overlap, a stale plan only after one that stopped half way; a lone activation is in force if its status is (any string may be asked for); increments are missed only if a statement failed or the create was raced | 2 administrators, 2 plans, 2 increments, 3 subscriptions |
| `TrialWarnings` | the advisory lock, the connections of each pool, the task's runs | `WarnedOnce`: unless a lock's connection closes under a running task | 2 instances of 2 connections, 2 workshops, 3 firings |
| `PortalReleases` | editions of the estimate, snapshots by version, releases and pages under way | `ReleasesReachThePortal`: a page shows nothing older than the estimate was when the release began, or the first of those that overlapped | 2 releasers, 1 customer, 3 editions, 3 releases |
| `JobsBoard` | cards, optimistic moves with the list kept for a rollback, fetches | `BoardShowsRealStatuses`, with the moves each screen offers against the server's table | 1 job from quality_check, 2 moves, 1 fetch, 1 change on the server |

Where the code lets two clicks do a thing twice, the invariant says how often at
most, and of what: it is as strong as the code allows, and its mutant shows
that it breaks when the check that is there is dropped. Two of each actor are the
least that overlap, and no handler of these looks at a third. Deadlock is not
checked: tokens, subscriptions, reminders and firings are bounded.

Facts of the code met on the way, which no run states because nothing in the
repository says otherwise:

- A save that checked the lock before a submit writes after it
  (`history.late`), against the manual's "locked".
- A phone that loaded answers keeps their `id`, which the validation pipe refuses:
  such a save never gets through (`Send`).
- `changePassword` keeps the latest session, not the caller's.
- The presigned upload is never counted, but its removal counts down.
- An upload confirmed without a size looks abandoned and is swept after a day.
- `activateSubscription` that stops after its first statement, or is asked for a
  status that is none of the five it counts as active, leaves no subscription in force.
- A PATCH that clears `booked_job_id` lets the item be booked again, and one that
  sets it marks the item booked with no job made.
- A negative `quantity` to return reserves more of a part than there is, and one to
  consume puts stock on the shelf.
- A sweep of uploads that breaks off leaves rows on view whose objects it deleted.
- The phone offers Close Job during quality check, which the server refuses.
- A release that fails leaves its link good, and the customer then sees the estimate
  as it is, not as released.

### What is proved

The eleven invariants of the nine services hold for every value of the constants,
each from an inductive invariant (`...Sound`, and `MediaFits` for `ListedHasContent`)
that its proof module states before the lemmas, with the reason for its parts:

| Theorem | Why it holds | Assumed |
|---|---|---|
| `DeliveriesExplained` (`SecondDeliveryExplained`) | Deliveries stay within a budget: the faults met, and one more while the row is settled (an attempt past its delivery, or a completed job the queue still keeps). Only a row that is not settled is sent, and only a fault unsettles it. | `DeliveryAssumption` |
| `SessionsPaidFor` (`SessionsDoNotMultiply`) | Issuing trades a refresh between its two statements for a live token; revoking does the opposite, or is paid for by the revocation that came between. Ending sessions only takes away. | finitely many tabs |
| `EndingsHold` (`EndedStaysEnded`) | Strengthened by the calls that may still issue: once a user is locked out, each of them slipped past the end of its session. A login that saw the user active has the tag of an open session until then. | the same |
| `CustomersWarnedOnce` (`WarnedOnce`) | Unless a connection was cut, a run at work holds the lock through a connection of its own instance, so no other run is, and what it looked up is still so when it queues. | pools of different instances share no connection |
| `ItemsBookedOnce` (`BookedOncePerClick`) | Jobs made of an item and bookings under way together never exceed the most that overlapped, since a booking begins only before the first job; a PATCH that leaves the item without a job starts the count of its jobs anew. A reminder's count is never ahead of the reminders sent, and equal to them while none overlapped. | finitely many users |
| `WorkshopBilledOnce` (`BilledOnce`) | Subscriptions in force and activations about to create one together never exceed the most that overlapped; how far a lone activation is tells what is in force. Payments and admins about to pay are bounded alike. An increment is lost only between a find that saw no row and the create, or by a statement that failed. | finitely many admins and increments |
| `PhotosOpen` (`ListedHasContent`) | How far an upload is tells whether its file has a row and an object; a photo on view that is whole has its object, or a sweep that has come to it holds its row, or one broke off after it. | `MediaAssumption` |
| `PhotosCounted` (`CountFollowsPhotos`) | The equation, with what is still to be counted in or out, is kept by each step, once it is known (`MediaFits`) that uploads and removals under way refer to rows and that a sweep holds no photo that was counted. | finitely many files and removers |
| `FindingsReachTheAdvisor` (`FindingsBecomeConcerns`) | For each answer of a locked form that is a finding, the concern is there or a sync that will make it is on its way, unless one of the three excuses holds; where no two submits overlapped, the sync saw the answers there are, since a locked form keeps its answers. Concerns made and being made together never exceed the most submits that overlapped. That the four colours agree is proved by cases of `TrafficLight`. | finitely many browsers and phones |
| `BoardIsReal` (`BoardShowsRealStatuses`) | Every list the board shows, keeps for a rollback or has fetched carries offers made for a status the job had; while moves never overlapped, so do its statuses, but for the one job a move under way shows ahead of the server. | the first status is one of the table's; finitely many moves |
| `ReleasedIsShown` (`ReleasesReachThePortal`) | What a release carries is at least the floor (the edition when the first of the overlapping releases began), and what was promised at most; so whichever wins the next version keeps the promise, and a page loads the latest. | finitely many releasers |

The types are theorems too (`...Typing`, and with the two properties in
`BoardIsReal` and `FindingsReachTheAdvisor`). Where a counter has a range, the type
needs a reason of its own: a job that may still be attempted has an attempt to
spare (`AttemptsLeft`); a lock is taken at most as often as its task fired
(`LockCounted`); a release that was begun is under way or left at most one snapshot
(`EachLeavesOne`); increments counted are over (`BillingBounds`); reminders sent and
under way stay within their bound together (`DeskBounds`).

`ServicesProofs` puts them together. `EachServiceAsSpecified`: the composition
implements the specification of each service, the fairness of the delivery
included, for a step of the whole is a step of one service and leaves the others
alone. Hence `ServicesTyped` and `ServicesKeepPromises`: what the run `services`
checks of the whole holds for every value of its constants, but for `NoRowStuck`.

The assumptions are on constants only, and each is what the code has: finite
tables and finitely many callers, bounds that are numbers, pools that share no
connection. The bounds in the guards (tokens, endings, editions, firings,
faults) are of any size.

## 7. Only model-checked, and not modelled

- Every safety property that a passing run checks has a theorem, some under
  conditions that sections 3 to 5 give with their reasons. The two liveness
  properties, `VerdictMovesJob` and `NoRowStuck`, are checked with TLC alone: temporal
  proofs under fairness, and anything that needs ENABLED, are out of the proof
  system's reach. The runs also show what the proofs cannot: that every action
  does happen.
- Abstracted: people, prices, text, times (null or set), the workflow
  configuration beyond the systemStatus a key resolves to, tenancy (everything
  happens inside one workshop), authorization of the caller.
- In the approval: the job's own columns (they are in `JobLifecycle`), prices,
  quote groups, reminders, and the advisor's decision recorded on a concern.
- In the services: access tokens and expiry times, lockout counters, signup and
  the choice of a workshop; the sessions a suspended workshop ends
  (`revokeWorkshopSessions`); downloads and file policy; the QC form (the
  inspection's code again, without concerns) and its photo counts; the phone's
  photo queue; the odometer; templates and wording.
- Two thirds of the implementation's lines are screens: layout, tables, filters and
  forms over the HTTP API. They keep no state of record, and what they could get
  wrong between two requests is in `JobsBoard` and `InspectionForm`. Most of the
  remaining backend is single-row create, read, update with its DTOs, and
  analytics that only read; a model of these would restate them.
- `JobsService.archiveOldClosedJobs` is called from nowhere; the scheduler's
  method of that name is the one modelled.
- Components with status `not_modelled` in `PROJECT.json` carry their reason there.
