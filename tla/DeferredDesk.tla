----------------------------- MODULE DeferredDesk -----------------------------
(* Deferred work at the desk: an item may be reminded of, edited and booked as *)
(* a new job.  Booking and reminding read the item first and write what they   *)
(* computed from it in a later transaction.                                    *)
EXTENDS Integers, FiniteSets

CONSTANTS
  Deferred,        \* items of deferred_work
  Staff,           \* users at the desk
  MaxReminders     \* bound: reminders of an item

ASSUME DeskAssumption == IsFiniteSet(Staff) /\ MaxReminders \in Nat

VARIABLES
  item,         \* each item: status, the job of its booked_job_id, remind_count
  booked,       \* jobs made from each item since its booked_job_id was last cleared
  reminders,    \* rows of deferred_work_reminders, each with its notification
  desk,         \* the call of each user, by what it read
  deskCrowd         \* history: the most bookings, and reminders, of an item at once

deskVars == <<item, booked, reminders, desk, deskCrowd>>

Statuses == {"pending", "reminded", "booked", "closed", "expired", "null"}
Jobs == {"none", "made", "other"}  \* no job, one made from the item, one written in
Free == [op |-> "idle"]
Under(op, d) == {s \in Staff : desk[s].op = op /\ desk[s].on = d}

DeskTypeOK ==
  /\ item \in [Deferred -> [status : Statuses, job : Jobs, count : 0 .. MaxReminders]]
  /\ booked \in [Deferred -> 0 .. Cardinality(Staff)]
  /\ reminders \in [Deferred -> 0 .. MaxReminders]
  /\ desk \in [Staff -> {Free} \cup
       [op : {"book", "remind"}, on : Deferred, status : Statuses, count : 0 .. MaxReminders]]
  /\ deskCrowd \in [Deferred -> [book : 0 .. Cardinality(Staff), remind : 0 .. Cardinality(Staff)]]

(* A customer who declines or defers a line leaves the item pending.           *)
DeskInit ==
  /\ item = [d \in Deferred |-> [status |-> "pending", job |-> "none", count |-> 0]]
  /\ booked = [d \in Deferred |-> 0]
  /\ reminders = [d \in Deferred |-> 0]
  /\ desk = [s \in Staff |-> Free]
  /\ deskCrowd = [d \in Deferred |-> [book |-> 0, remind |-> 0]]

Larger(a, b) == IF a > b THEN a ELSE b

Read(s, op, d) ==
  /\ desk[s] = Free
  /\ desk' = [desk EXCEPT ![s] =
       [op |-> op, on |-> d, status |-> item[d].status, count |-> item[d].count]]
  /\ deskCrowd' = [deskCrowd EXCEPT ![d][op] = Larger(@, Cardinality(Under(op, d)) + 1)]
  /\ UNCHANGED <<item, booked, reminders>>

Answered(s) == desk' = [desk EXCEPT ![s] = Free]

(* Mutant: the item's job is not looked at.                                    *)
BookReadBlind(s, d) == Read(s, "book", d)

(* book: refused once the item has a job, whatever its status.                 *)
BookRead(s, d) ==
  /\ item[d].job = "none"
  /\ Read(s, "book", d)

(* The transaction: the job, a copy of the line, and the item marked.          *)
BookWrite(s) ==
  /\ desk[s].op = "book"
  /\ LET d == desk[s].on
     IN  /\ booked' = [booked EXCEPT ![d] = @ + 1]
         /\ item' = [item EXCEPT ![d].status = "booked", ![d].job = "made"]
  /\ Answered(s)
  /\ UNCHANGED <<reminders, deskCrowd>>

(* remindNow: no status is refused.                                            *)
RemindRead(s, d) ==
  /\ reminders[d] + Cardinality(Under("remind", d)) < MaxReminders
  /\ Read(s, "remind", d)

(* The transaction writes back what was read: the status, or "reminded" if it  *)
(* was pending, and the count plus one.                                        *)
RemindWrite(s) ==
  /\ desk[s].op = "remind"
  /\ LET d == desk[s].on
         seen == desk[s].status
     IN  /\ reminders' = [reminders EXCEPT ![d] = @ + 1]
         /\ item' = [item EXCEPT ![d].count = desk[s].count + 1,
              ![d].status = IF seen = "pending" THEN "reminded" ELSE seen]
  /\ Answered(s)
  /\ UNCHANGED <<booked, deskCrowd>>

(* A transaction that fails leaves nothing.                                    *)
DeskFails(s) ==
  /\ desk[s] # Free
  /\ Answered(s)
  /\ UNCHANGED <<item, booked, reminders, deskCrowd>>

(* PATCH: any status at any time, and any job for booked_job_id, or null.      *)
Update(d, status, job) ==
  /\ item' = [item EXCEPT ![d].status = status, ![d].job = job]
  /\ booked' = IF job = "none" THEN [booked EXCEPT ![d] = 0] ELSE booked
  /\ UNCHANGED <<reminders, desk, deskCrowd>>

DeskNext ==
  \/ \E s \in Staff, d \in Deferred : BookRead(s, d) \/ RemindRead(s, d)
  \/ \E s \in Staff : BookWrite(s) \/ RemindWrite(s) \/ DeskFails(s)
  \/ \E d \in Deferred : \E status \in Statuses, job \in {item[d].job, "none", "other"} :
       Update(d, status, job)

DeskSpec == DeskInit /\ [][DeskNext]_deskVars

(* Until somebody clears its booked_job_id by hand an item becomes one job,    *)
(* however often it is reminded of, edited and clicked again; only clicks that *)
(* overlap make as many jobs as overlapped.  It shows a job while it has one,  *)
(* and one of its own only if that was made.  Likewise the count of reminders  *)
(* is short of those sent only if some overlapped.                             *)
BookedOncePerClick ==
  \A d \in Deferred :
    /\ booked[d] <= deskCrowd[d].book
    /\ item[d].job = "none" => booked[d] = 0
    /\ item[d].job = "made" => booked[d] > 0
    /\ item[d].count <= reminders[d]
    /\ deskCrowd[d].remind <= 1 => item[d].count = reminders[d]
==============================================================================
