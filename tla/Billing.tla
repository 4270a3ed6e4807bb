------------------------------- MODULE Billing --------------------------------
(* What a workshop pays for: its subscriptions, one invoice, and the usage of  *)
(* the month.  activateSubscription is three statements in no transaction,     *)
(* markInvoicePaid reads the invoice and then writes it in one, and a usage is *)
(* counted in a call nobody waits for.                                         *)
EXTENDS Integers, Sequences, FiniteSets

CONSTANTS
  Admins,        \* platform administrators
  Plans,
  Counters,      \* usage increments set off by jobs and messages
  MaxSubs        \* bound: subscriptions ever made

ASSUME BillingAssumption == IsFiniteSet(Admins) /\ IsFiniteSet(Counters)

VARIABLES
  subs,         \* subscriptions in the order of created_at: plan, whether in
                \* force, and whether made with a status that is
  plan,         \* plan_id of the workshop
  paid,         \* the invoice's status is paid
  payments,     \* its rows in payments
  billing,      \* the call of each administrator, by its awaited statement
  usage,        \* the month's usage_records row: none (-1) or its count
  counter,      \* each increment: not yet, the statement it waits for, or over
  counted,      \* history: increments that were counted
  missed,       \* history: increments of which a statement failed
  billingCrowd,        \* history: the most activations, and payments, at once
  broken        \* history: an activation stopped half way

billingVars ==
  <<subs, plan, paid, payments, billing, usage, counter, counted, missed, billingCrowd, broken>>

Off == [op |-> "idle"]
NoRecord == -1
FreeTrial == "free_trial"

BillingTypeOK ==
  /\ subs \in Seq([plan : Plans \cup {FreeTrial}, live : BOOLEAN, asked : BOOLEAN])
  /\ plan \in Plans \cup {FreeTrial}
  /\ paid \in BOOLEAN
  /\ payments \in 0 .. Cardinality(Admins)
  /\ billing \in [Admins -> {Off} \cup
       [op : {"replace", "create", "plan"}, to : Plans, asked : BOOLEAN] \cup [op : {"pay"}]]
  /\ usage \in {NoRecord} \cup 0 .. Cardinality(Counters)
  /\ counter \in [Counters -> {"idle", "update", "create", "over"}]
  /\ counted \in 0 .. Cardinality(Counters) /\ missed \in 0 .. Cardinality(Counters)
  /\ billingCrowd \in [activate : 0 .. Cardinality(Admins), pay : 0 .. Cardinality(Admins),
                count : 0 .. Cardinality(Counters)]
  /\ broken \in BOOLEAN

(* signup made the trial; createInvoice a draft.                               *)
BillingInit ==
  /\ subs = <<[plan |-> FreeTrial, live |-> TRUE, asked |-> TRUE]>>
  /\ plan = FreeTrial
  /\ paid = FALSE /\ payments = 0
  /\ billing = [a \in Admins |-> Off]
  /\ usage = NoRecord
  /\ counter = [c \in Counters |-> "idle"]
  /\ counted = 0 /\ missed = 0
  /\ billingCrowd = [activate |-> 0, pay |-> 0, count |-> 0]
  /\ broken = FALSE

Peak(a, b) == IF a > b THEN a ELSE b
Activating == {a \in Admins : billing[a].op \in {"replace", "create", "plan"}}
Paying == {a \in Admins : billing[a].op = "pay"}
LiveSubs == {k \in DOMAIN subs : subs[k].live}
unchangedUsage == UNCHANGED <<usage, counter, counted, missed>>

------------------------------------------------------------------------------
(* activateSubscription.  The status is the caller's, of any wording: asked if *)
(* it is one of the five that are in force, or left out.                       *)

Activate(a, to, asked) ==
  /\ billing[a] = Off
  /\ Len(subs) + Cardinality(Activating) < MaxSubs
  /\ billing' = [billing EXCEPT ![a] = [op |-> "replace", to |-> to, asked |-> asked]]
  /\ billingCrowd' = [billingCrowd EXCEPT !.activate = Peak(@, Cardinality(Activating) + 1)]
  /\ UNCHANGED <<subs, plan, paid, payments, broken>> /\ unchangedUsage

ReplaceOld(a) ==
  /\ billing[a].op = "replace"
  /\ subs' = [k \in DOMAIN subs |-> [subs[k] EXCEPT !.live = FALSE]]
  /\ billing' = [billing EXCEPT ![a].op = "create"]
  /\ UNCHANGED <<plan, paid, payments, billingCrowd, broken>> /\ unchangedUsage

CreateSub(a) ==
  /\ billing[a].op = "create"
  /\ subs' = Append(subs, [plan |-> billing[a].to,
                           live |-> billing[a].asked, asked |-> billing[a].asked])
  /\ billing' = [billing EXCEPT ![a].op = "plan"]
  /\ UNCHANGED <<plan, paid, payments, billingCrowd, broken>> /\ unchangedUsage

SetPlan(a) ==
  /\ billing[a].op = "plan"
  /\ plan' = billing[a].to
  /\ billing' = [billing EXCEPT ![a] = Off]
  /\ UNCHANGED <<subs, paid, payments, billingCrowd, broken>> /\ unchangedUsage

(* A statement fails: an activation stays where it is, and is tried again only *)
(* by hand, from the start.                                                    *)
BillingFails(a) ==
  /\ billing[a] # Off
  /\ broken' = (broken \/ billing[a].op \in {"create", "plan"})
  /\ billing' = [billing EXCEPT ![a] = Off]
  /\ UNCHANGED <<subs, plan, paid, payments, billingCrowd>> /\ unchangedUsage

------------------------------------------------------------------------------
(* markInvoicePaid: the status is read; the invoice and its payment are        *)
(* written in a transaction that does not look at it again.                    *)

(* Mutant: the invoice's status is not looked at.                              *)
PayReadBlind(a) ==
  /\ billing[a] = Off
  /\ billing' = [billing EXCEPT ![a] = [op |-> "pay"]]
  /\ billingCrowd' = [billingCrowd EXCEPT !.pay = Peak(@, Cardinality(Paying) + 1)]
  /\ UNCHANGED <<subs, plan, paid, payments, broken>> /\ unchangedUsage

PayRead(a) ==
  /\ billing[a] = Off /\ ~paid
  /\ billing' = [billing EXCEPT ![a] = [op |-> "pay"]]
  /\ billingCrowd' = [billingCrowd EXCEPT !.pay = Peak(@, Cardinality(Paying) + 1)]
  /\ UNCHANGED <<subs, plan, paid, payments, broken>> /\ unchangedUsage

PayWrite(a) ==
  /\ billing[a].op = "pay"
  /\ paid' = TRUE
  /\ payments' = payments + 1
  /\ billing' = [billing EXCEPT ![a] = Off]
  /\ UNCHANGED <<subs, plan, billingCrowd, broken>> /\ unchangedUsage

------------------------------------------------------------------------------
(* increment: find the month's row, then add to it or create it.  The row is   *)
(* unique: whoever creates it second fails, and the caller never hears of it.  *)

Counting == {c \in Counters : counter[c] \in {"update", "create"}}

FindRecord(c) ==
  /\ counter[c] = "idle"
  /\ counter' = [counter EXCEPT ![c] = IF usage = NoRecord THEN "create" ELSE "update"]
  /\ billingCrowd' = [billingCrowd EXCEPT !.count = Peak(@, Cardinality(Counting) + 1)]
  /\ UNCHANGED <<subs, plan, paid, payments, billing, usage, counted, missed, broken>>

UpdateRecord(c) ==
  /\ counter[c] = "update"
  /\ usage' = usage + 1 /\ counted' = counted + 1
  /\ counter' = [counter EXCEPT ![c] = "over"]
  /\ UNCHANGED <<subs, plan, paid, payments, billing, missed, billingCrowd, broken>>

CreateRecord(c) ==
  /\ counter[c] = "create"
  /\ IF usage = NoRecord THEN usage' = 1 /\ counted' = counted + 1
                         ELSE UNCHANGED <<usage, counted>>
  /\ counter' = [counter EXCEPT ![c] = "over"]
  /\ UNCHANGED <<subs, plan, paid, payments, billing, missed, billingCrowd, broken>>

(* A statement fails, and the caller logs it at most.                          *)
CounterFails(c) ==
  /\ counter[c] # "over"
  /\ missed' = missed + 1
  /\ counter' = [counter EXCEPT ![c] = "over"]
  /\ UNCHANGED <<subs, plan, paid, payments, billing, usage, counted, billingCrowd, broken>>

------------------------------------------------------------------------------
BillingNext ==
  \/ \E a \in Admins :
       \/ \E to \in Plans, asked \in BOOLEAN : Activate(a, to, asked)
       \/ ReplaceOld(a) \/ CreateSub(a) \/ SetPlan(a)
       \/ BillingFails(a)
       \/ PayRead(a) \/ PayWrite(a)
  \/ \E c \in Counters :
       FindRecord(c) \/ UpdateRecord(c) \/ CreateRecord(c) \/ CounterFails(c)

BillingSpec == BillingInit /\ [][BillingNext]_billingVars

------------------------------------------------------------------------------
(* A workshop is billed once.  There are no more subscriptions in force, and   *)
(* no more payments of an invoice, than administrators were at it at once; if  *)
(* no two activations overlapped and none stopped half way, the latest is on   *)
(* the workshop's plan and alone in force, or none is if it was made with some *)
(* other status; and a month's usage misses no increment but those that failed *)
(* or raced to create its row.                                                 *)
BilledOnce ==
  /\ Cardinality(LiveSubs) <= Peak(1, billingCrowd.activate)
  /\ payments <= billingCrowd.pay
  /\ paid <=> payments > 0
  /\ billingCrowd.activate <= 1 /\ ~broken /\ Activating = {} =>
       /\ LiveSubs = {k \in {Len(subs)} : subs[k].asked}
       /\ subs[Len(subs)].plan = plan
  /\ usage = IF counted = 0 THEN NoRecord ELSE counted
  /\ LET over == Cardinality({c \in Counters : counter[c] = "over"})
     IN  over - counted <= Peak(0, billingCrowd.count - 1) + missed
==============================================================================
