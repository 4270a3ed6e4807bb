------------------------ MODULE NotificationDelivery -------------------------
(* The rows of `notifications' and how they leave the system: enqueue puts a    *)
(* row and a BullMQ job of the same id, a worker sends the message and marks   *)
(* the row in another statement, a listener writes failures, a poll puts back  *)
(* the rows still queued, and the provider reports what became of a message.   *)
(* Rows are numbered in the order of queued_at.  BullMQ (jobs kept by id,       *)
(* attempts, stalled jobs) is external.                                        *)
EXTENDS Integers, FiniteSets

CONSTANTS
  Notes,           \* the rows, numbered by queued_at
  Unconfigured,    \* the rows whose channel has no provider
  MaxAttempts,     \* attempts of a job (5 in the code)
  PollBatch,       \* rows a poll takes, oldest first (100 in the code)
  MaxUpsets        \* bound: lost replies and writes, crashes and evictions

ASSUME DeliveryAssumption ==
  /\ Notes \subseteq Nat /\ IsFiniteSet(Notes)
  /\ Unconfigured \subseteq Notes
  /\ {MaxAttempts, PollBatch} \subseteq Nat \ {0}
  /\ MaxUpsets \in Nat

VARIABLES
  row,         \* status of each row
  msgId,       \* provider_message_id: NoId, JobId, or the number of a message
  bull,        \* the BullMQ job of each row: state, attemptsMade, stalls
  enq,         \* the enqueueExisting at work on each row, by its awaited call
  worker,      \* the attempt at work on each job
  verdicts,    \* what the failed listener has still to write on each row
  delivered,   \* how many times the provider took each message
  upsets       \* history: the faults each row met

deliveryVars ==
  <<row, msgId, bull, enq, worker, verdicts, delivered, upsets>>

NoJob == [state |-> "none", made |-> 0, stalls |-> 0]
Fresh == [state |-> "waiting", made |-> 0, stalls |-> 0]

(* provider_message_id: none, the BullMQ job's, or that of the k-th message.   *)
NoId == -1
JobId == 0
MsgIds == Nat \cup {NoId}

DeliveryTypeOK ==
  /\ row \in [Notes -> {"none", "queued", "sent", "delivered", "failed"}]
  /\ msgId \in [Notes -> MsgIds]
  /\ bull \in [Notes -> [state : {"none", "waiting", "active", "delayed",
                                  "completed", "failed"},
                         made : 0 .. MaxAttempts, stalls : 0 .. 1]]
  /\ enq \in [Notes -> {"idle", "add", "stamp"}]
  /\ worker \in [Notes -> {"idle", "send", "mark", "complete"} \X MsgIds]
  /\ verdicts \in [Notes -> SUBSET {"queued", "failed"}]
  /\ delivered \in [Notes -> Nat]
  /\ upsets \in [Notes -> 0 .. MaxUpsets]

DeliveryInit ==
  /\ row = [n \in Notes |-> "none"]
  /\ msgId = [n \in Notes |-> NoId]
  /\ bull = [n \in Notes |-> NoJob]
  /\ enq = [n \in Notes |-> "idle"]
  /\ worker = [n \in Notes |-> <<"idle", NoId>>]
  /\ verdicts = [n \in Notes |-> {}]
  /\ delivered = [n \in Notes |-> 0]
  /\ upsets = [n \in Notes |-> 0]

(* The faults met so far, those of a row by their number.                      *)
Faults == {f \in Notes \X (1 .. MaxUpsets) : f[2] <= upsets[f[1]]}

(* One more fault met by row n, within the bound on all of them.               *)
Upset(n) ==
  /\ Cardinality(Faults) < MaxUpsets
  /\ upsets' = [upsets EXCEPT ![n] = @ + 1]

------------------------------------------------------------------------------
(* Callers: enqueue creates the row, then calls enqueueExisting.  Inspections, *)
(* QC checklists and the trial warnings only create the row.                   *)

Enqueue(n, throughQueue) ==
  /\ row[n] = "none"
  /\ \A m \in Notes : m < n => row[m] # "none"
  /\ row' = [row EXCEPT ![n] = "queued"]
  /\ enq' = [enq EXCEPT ![n] = IF throughQueue THEN "add" ELSE @]
  /\ UNCHANGED <<msgId, bull, worker, verdicts, delivered, upsets>>

(* Mutant: the poll cuts its batch off before it looks at the status.           *)
WindowBeforeFilter ==
  {n \in Notes : row[n] = "queued" /\ Cardinality({m \in Notes : m < n}) < PollBatch}

(* The rows a poll takes: the oldest queued ones.                              *)
Window ==
  LET queued == {n \in Notes : row[n] = "queued"}
  IN  {n \in queued : Cardinality({m \in queued : m < n}) < PollBatch}

(* requeuePendingDbNotifications, at startup and every five seconds, reaches a *)
(* row and enqueueExisting reads it again: still queued.                       *)
Requeue(n) ==
  /\ enq[n] = "idle"
  /\ n \in Window
  /\ enq' = [enq EXCEPT ![n] = "add"]
  /\ UNCHANGED <<row, msgId, bull, worker, verdicts, delivered, upsets>>

(* Mutant: the job is added under an id of its own.                            *)
AddUnderNewId(n) ==
  /\ enq[n] = "add"
  /\ bull' = [bull EXCEPT ![n] = Fresh]
  /\ enq' = [enq EXCEPT ![n] = "stamp"]
  /\ UNCHANGED <<row, msgId, worker, verdicts, delivered, upsets>>

(* queue.add with the row's id as job id: nothing happens while a job of that  *)
(* id is kept, finished or not.                                                *)
Add(n) ==
  /\ enq[n] = "add"
  /\ bull' = [bull EXCEPT ![n] = IF @.state = "none" THEN Fresh ELSE @]
  /\ enq' = [enq EXCEPT ![n] = "stamp"]
  /\ UNCHANGED <<row, msgId, worker, verdicts, delivered, upsets>>

(* The job's id is then written over whatever id the row has by now.           *)
Stamp(n) ==
  /\ enq[n] = "stamp"
  /\ msgId' = [msgId EXCEPT ![n] = JobId]
  /\ enq' = [enq EXCEPT ![n] = "idle"]
  /\ UNCHANGED <<row, bull, worker, verdicts, delivered, upsets>>

------------------------------------------------------------------------------
(* The worker.  process reads the row and sends, whatever the row's status.    *)

Take(n) ==
  /\ bull[n].state = "waiting"
  /\ bull' = [bull EXCEPT ![n].state = "active"]
  /\ worker' = [worker EXCEPT ![n] = <<"send", msgId[n]>>]
  /\ UNCHANGED <<row, msgId, enq, verdicts, delivered, upsets>>

(* Mutant: one attempt more than the queue allows.                             *)
AttemptFailsOnceMore(n) ==
  LET made == bull[n].made + 1
      terminal == made > MaxAttempts
  IN  /\ bull' = [bull EXCEPT ![n] = [@ EXCEPT !.made = made,
                     !.state = IF terminal THEN "failed" ELSE "delayed"]]
      /\ verdicts' = [verdicts EXCEPT ![n] =
                        @ \cup {IF terminal THEN "failed" ELSE "queued"}]
      /\ worker' = [worker EXCEPT ![n] = <<"idle", NoId>>]

(* The attempt throws: the job waits for its next attempt or is failed, and    *)
(* the failed listener is called.                                              *)
AttemptFails(n) ==
  LET made == bull[n].made + 1
      terminal == made >= MaxAttempts
  IN  /\ bull' = [bull EXCEPT ![n] = [@ EXCEPT !.made = made,
                     !.state = IF terminal THEN "failed" ELSE "delayed"]]
      /\ verdicts' = [verdicts EXCEPT ![n] =
                        @ \cup {IF terminal THEN "failed" ELSE "queued"}]
      /\ worker' = [worker EXCEPT ![n] = <<"idle", NoId>>]

ProviderTakes(n) == delivered' = [delivered EXCEPT ![n] = @ + 1]

SendAccepted(n) ==
  /\ worker[n][1] = "send" /\ n \notin Unconfigured
  /\ ProviderTakes(n)
  /\ worker' = [worker EXCEPT ![n] = <<"mark", delivered[n] + 1>>]
  /\ UNCHANGED <<row, msgId, bull, enq, verdicts, upsets>>

(* No provider for the channel: the row keeps its id and is marked sent.       *)
SendNoop(n) ==
  /\ worker[n][1] = "send" /\ n \in Unconfigured
  /\ worker' = [worker EXCEPT ![n] = <<"mark", @[2]>>]
  /\ UNCHANGED <<row, msgId, bull, enq, verdicts, delivered, upsets>>

(* The provider's answer names no message: the row passes for one it did not   *)
(* take, and goes on to the channel's webhook or is marked sent as it is.      *)
SendUnnamed(n) ==
  /\ worker[n][1] = "send" /\ n \notin Unconfigured
  /\ Upset(n)
  /\ ProviderTakes(n)
  /\ worker' \in {worker, [worker EXCEPT ![n][1] = "mark"]}
  /\ UNCHANGED <<row, msgId, bull, enq, verdicts>>

SendRefused(n) ==
  /\ worker[n][1] = "send" /\ n \notin Unconfigured
  /\ AttemptFails(n)
  /\ UNCHANGED <<row, msgId, enq, delivered, upsets>>

(* The ten seconds run out after the provider took the message.                *)
SendReplyLost(n) ==
  /\ worker[n][1] = "send" /\ n \notin Unconfigured
  /\ Upset(n)
  /\ ProviderTakes(n)
  /\ AttemptFails(n)
  /\ UNCHANGED <<row, msgId, enq>>

Mark(n) ==
  /\ worker[n][1] = "mark"
  /\ row' = [row EXCEPT ![n] = "sent"]
  /\ msgId' = [msgId EXCEPT ![n] = worker[n][2]]
  /\ worker' = [worker EXCEPT ![n] = <<"complete", NoId>>]
  /\ UNCHANGED <<bull, enq, verdicts, delivered, upsets>>

MarkFails(n) ==
  /\ worker[n][1] = "mark"
  /\ Upset(n)
  /\ AttemptFails(n)
  /\ UNCHANGED <<row, msgId, enq, delivered>>

Complete(n) ==
  /\ worker[n][1] = "complete"
  /\ bull' = [bull EXCEPT ![n].state = "completed"]
  /\ worker' = [worker EXCEPT ![n] = <<"idle", NoId>>]
  /\ UNCHANGED <<row, msgId, enq, verdicts, delivered, upsets>>

(* The listener's write sets the status whatever the row says by now; an error *)
(* of the write is logged and forgotten.                                       *)
FailedListener(n) ==
  \E v \in verdicts[n] :
    /\ row' = [row EXCEPT ![n] = v]
    /\ verdicts' = [verdicts EXCEPT ![n] = @ \ {v}]
    /\ UNCHANGED <<msgId, bull, enq, worker, delivered, upsets>>

FailedListenerFails(n) ==
  /\ Upset(n)
  /\ \E v \in verdicts[n] : verdicts' = [verdicts EXCEPT ![n] = @ \ {v}]
  /\ UNCHANGED <<row, msgId, bull, enq, worker, delivered>>

------------------------------------------------------------------------------
(* BullMQ on its own, and the server's crash.                                  *)

Retry(n) ==
  /\ bull[n].state = "delayed"
  /\ bull' = [bull EXCEPT ![n].state = "waiting"]
  /\ UNCHANGED <<row, msgId, enq, worker, verdicts, delivered, upsets>>

(* A job left active by a crash is tried again once; the second time it is     *)
(* failed with attempts to spare, so the listener takes it for a retry.        *)
Stalled(n) ==
  /\ bull[n].state = "active" /\ worker[n][1] = "idle"
  /\ IF bull[n].stalls = 0
     THEN /\ bull' = [bull EXCEPT ![n].state = "waiting", ![n].stalls = 1]
          /\ UNCHANGED verdicts
     ELSE /\ bull' = [bull EXCEPT ![n].state = "failed"]
          /\ verdicts' = [verdicts EXCEPT ![n] =
               @ \cup {IF bull[n].made >= MaxAttempts THEN "failed" ELSE "queued"}]
  /\ UNCHANGED <<row, msgId, enq, worker, delivered, upsets>>

(* removeOnComplete and removeOnFail keep the last hundred finished jobs.      *)
Evict(n) ==
  /\ bull[n].state \in {"completed", "failed"}
  /\ Upset(n)
  /\ bull' = [bull EXCEPT ![n] = NoJob]
  /\ UNCHANGED <<row, msgId, enq, worker, verdicts, delivered>>

(* The process dies and is started again: what it had in memory is gone.       *)
Crash ==
  /\ LET hit == {n \in Notes : worker[n][1] # "idle" \/ enq[n] # "idle"
                                \/ verdicts[n] # {}}
     IN  /\ hit # {}
         /\ Cardinality(Faults) + Cardinality(hit) <= MaxUpsets
         /\ upsets' = [n \in Notes |-> upsets[n] + (IF n \in hit THEN 1 ELSE 0)]
  /\ enq' = [n \in Notes |-> "idle"]
  /\ worker' = [n \in Notes |-> <<"idle", NoId>>]
  /\ verdicts' = [n \in Notes |-> {}]
  /\ UNCHANGED <<row, msgId, bull, delivered>>

(* processStatuses: the provider reports on a message it took, in any order    *)
(* and as often as it likes; updateMany reaches the rows that carry that       *)
(* message's id and a report that finds none is dropped.                       *)
ProcessStatus(n) ==
  /\ msgId[n] \in 1 .. delivered[n]
  /\ \E status \in {"sent", "delivered", "failed"} : row' = [row EXCEPT ![n] = status]
  /\ UNCHANGED <<msgId, bull, enq, worker, verdicts, delivered, upsets>>

------------------------------------------------------------------------------
Attempt(n) == SendAccepted(n) \/ SendNoop(n) \/ SendRefused(n)
Enqueuer(n) == Requeue(n) \/ Add(n) \/ Stamp(n)

DeliveryNext ==
  \/ \E n \in Notes :
       \/ \E throughQueue \in BOOLEAN : Enqueue(n, throughQueue)
       \/ Enqueuer(n)
       \/ Take(n) \/ Attempt(n) \/ SendUnnamed(n) \/ SendReplyLost(n)
       \/ Mark(n) \/ MarkFails(n) \/ Complete(n)
       \/ FailedListener(n) \/ FailedListenerFails(n)
       \/ Retry(n) \/ Stalled(n) \/ Evict(n)
       \/ ProcessStatus(n)
  \/ Crash

(* The server's timers, its queue and its worker go on; callers, faults,       *)
(* eviction and the provider's reports are under no obligation.                *)
DeliveryFairness ==
  \A n \in Notes :
    /\ WF_deliveryVars(Enqueuer(n))
    /\ WF_deliveryVars(Take(n))
    /\ WF_deliveryVars(Attempt(n))
    /\ WF_deliveryVars(Mark(n))
    /\ WF_deliveryVars(Complete(n))
    /\ WF_deliveryVars(FailedListener(n))
    /\ WF_deliveryVars(Retry(n))
    /\ WF_deliveryVars(Stalled(n))

DeliverySpec == DeliveryInit /\ [][DeliveryNext]_deliveryVars /\ DeliveryFairness

------------------------------------------------------------------------------
(* A row whose finished job is still kept: queue.add does nothing for it.      *)
Shadowed(n) == row[n] = "queued" /\ bull[n].state \in {"completed", "failed"}

(* The poll cannot help n: its own job is kept, or such rows fill the batch.   *)
BeyondThePoll(n) ==
  \/ Shadowed(n)
  \/ Cardinality({m \in Notes : m < n /\ Shadowed(m)}) >= PollBatch

(* A message goes out twice only for a reason: every delivery after the first  *)
(* is paid for by a lost reply or write, an answer that named no message, a    *)
(* crash in the attempt, or a job evicted while its row was queued.  The poll, *)
(* which reads, adds and stamps in three statements, never sends a message     *)
(* twice by itself.                                                            *)
SecondDeliveryExplained ==
  \A n \in Notes : delivered[n] <= 1 + upsets[n]

(* No row is left queued for ever, unless finished jobs the queue keeps shadow *)
(* it, or a whole poll batch before it, for ever: the safety net looks at the  *)
(* oldest rows only and adds jobs that already exist.                          *)
NoRowStuck ==
  \A n \in Notes : []<>(row[n] # "queued") \/ <>[]BeyondThePoll(n)
==============================================================================
