---------------------------- MODULE InspectionForm ----------------------------
(* Inspections as they are filled in: the rows of the server, the pages and    *)
(* phones that hold a copy of the whole form and send all of it, and the       *)
(* concerns a submitted inspection leaves on the job.  A handler is split at   *)
(* its awaited statements; the transaction of saveResponses is one step.       *)
EXTENDS TrafficLight, Integers, Sequences, FiniteSets

CONSTANTS
  Inspections,    \* inspections of one template, one per job
  Items, Kind,    \* the template's items and the input type of each
  Answers,        \* what a technician may answer: [value, urgency]
  Browsers, Phones

ASSUME FormAssumption == IsFiniteSet(Browsers) /\ IsFiniteSet(Phones)

Screens == Browsers \cup Phones

NoRow == [value |-> "no row", urgency |-> "none"]
Rows == Answers \cup {NoRow}
Forms == [Items -> Rows]
Empty == [i \in Items |-> NoRow]

Finding(i, a) ==
  a # NoRow /\ IsFinding(ServerLight(a.value, a.urgency, Kind[i]))

VARIABLES
  locked,      \* status is submitted, reviewed or approved
  answer,      \* inspection_responses by inspection and item
  concerns,    \* job_concerns of each response: the answers they were made from
  page,        \* what each screen shows: whose inspection, and the form
  detail,      \* what each phone has fetched of each inspection
  draft,       \* the phone's local draft of each inspection
  call,        \* the call of each screen in flight, by its awaited statement
  history      \* what made a later surprise possible

formVars == <<locked, answer, concerns, page, detail, draft, call, history>>

Idle == [op |-> "idle"]
Nothing == [op |-> "none"]
Held(form) == [op |-> "held", form |-> form]

FormTypeOK ==
  /\ locked \in [Inspections -> BOOLEAN]
  /\ answer \in [Inspections -> Forms]
  /\ \A n \in Inspections, i \in Items : concerns[n][i] \in Seq(Answers)
  /\ page \in [Screens -> [on : Inspections, form : Forms, withId : SUBSET Items,
                           origin : [Items -> Inspections]]]
  /\ detail \in [Phones -> [Inspections -> {Nothing} \cup [op : {"held"}, form : Forms]]]
  /\ draft \in [Phones -> [Inspections -> {Nothing} \cup [op : {"held"}, form : Forms]]]
  /\ \A s \in Screens : call[s].op \in {"idle", "write", "submit", "sync", "find",
                                         "put", "reopen"}
  /\ history \in [broken : SUBSET Inspections, late : SUBSET Inspections,
                  crowd : 0 .. Cardinality(Screens)]

FormInit ==
  /\ locked = [n \in Inspections |-> FALSE]
  /\ answer = [n \in Inspections |-> Empty]
  /\ concerns = [n \in Inspections |-> [i \in Items |-> <<>>]]
  /\ \E n \in Inspections :
       page = [s \in Screens |-> [on |-> n, form |-> Empty, withId |-> {},
                                 origin |-> [i \in Items |-> n]]]
  /\ detail = [p \in Phones |-> [n \in Inspections |-> Nothing]]
  /\ draft = [p \in Phones |-> [n \in Inspections |-> Nothing]]
  /\ call = [s \in Screens |-> Idle]
  /\ history = [broken |-> {}, late |-> {}, crowd |-> 0]

Calling(s, op) == call[s].op = op
Goto(s, op) == call' = [call EXCEPT ![s].op = op]
Done(s) == call' = [call EXCEPT ![s] = Idle]

------------------------------------------------------------------------------
(* The screens.                                                                *)

(* The browser reads the inspection and keeps its own copy from then on.       *)
OpenBrowser(s, n) ==
  /\ s \in Browsers /\ Calling(s, "idle")
  /\ page' = [page EXCEPT ![s] = [on |-> n, form |-> answer[n], withId |-> {},
                                  origin |-> [i \in Items |-> n]]]
  /\ UNCHANGED <<locked, answer, concerns, detail, draft, call, history>>

(* The phone shows an inspection.  _loadExistingResponses runs once, after the *)
(* first frame: what was fetched before, then a draft over it; and nothing if  *)
(* the inspection is still being fetched, which leaves the one form of the     *)
(* whole app as the last inspection left it.                                   *)
OpenPhone(p, n) ==
  /\ p \in Phones /\ Calling(p, "idle")
  /\ LET own == [i \in Items |-> n]
         loaded == {i \in Items : detail[p][n].form[i] # NoRow}
     IN  page' = [page EXCEPT ![p] =
           CASE detail[p][n] = Nothing -> [@ EXCEPT !.on = n]
             [] detail[p][n] # Nothing /\ draft[p][n] = Nothing ->
                  [on |-> n, form |-> detail[p][n].form, withId |-> loaded, origin |-> own]
             [] OTHER ->
                  [on |-> n, form |-> draft[p][n].form, withId |-> {}, origin |-> own]]
  /\ UNCHANGED <<locked, answer, concerns, detail, draft, call, history>>

(* The fetch of a first visit arrives, or the technician pulls to refresh.     *)
Fetch(p) ==
  /\ p \in Phones /\ Calling(p, "idle")
  /\ detail' = [detail EXCEPT ![p][page[p].on] = Held(answer[page[p].on])]
  /\ UNCHANGED <<locked, answer, concerns, page, draft, call, history>>

Edit(s, i, a) ==
  /\ Calling(s, "idle")
  /\ page' = [page EXCEPT ![s].form[i] = a, ![s].origin[i] = page[s].on]
  /\ UNCHANGED <<locked, answer, concerns, detail, draft, call, history>>

(* Save and Submit send the whole form.  The validation pipe refuses an entry  *)
(* with a field the DTO does not have, such as the id a phone loaded; then     *)
(* saveResponses reads the lock.  A refused call changes nothing.              *)
Send(s, thenSubmit) ==
  /\ Calling(s, "idle")
  /\ \A i \in page[s].withId : page[s].form[i] = NoRow
  /\ ~locked[page[s].on]
  /\ call' = [call EXCEPT ![s] =
       [op |-> "write", on |-> page[s].on, batch |-> page[s].form,
        origin |-> page[s].origin, submit |-> thenSubmit]]
  /\ UNCHANGED <<locked, answer, concerns, page, detail, draft, history>>

------------------------------------------------------------------------------
(* The transaction of saveResponses: every entry of the form becomes the row's *)
(* answer.  A phone that only saves fetches the inspection and keeps the batch *)
(* as its draft; a submit goes on to submit, which reads the lock first.       *)
SaveWrite(s) ==
  LET c == call[s]
      sent == {i \in Items : c.batch[i] # NoRow}
  IN  /\ Calling(s, "write")
      /\ answer' = [answer EXCEPT ![c.on] =
           [i \in Items |-> IF i \in sent THEN c.batch[i] ELSE @[i]]]
      /\ history' = [history EXCEPT !.late =
           IF locked[c.on] /\ sent # {} THEN @ \cup {c.on} ELSE @]
      /\ IF s \in Phones /\ ~c.submit
         THEN /\ detail' = [detail EXCEPT ![s][c.on] = Held(answer'[c.on])]
              /\ draft' = [draft EXCEPT ![s][c.on] = Held(c.batch)]
         ELSE UNCHANGED <<detail, draft>>
      /\ IF c.submit /\ ~locked[c.on]
         THEN call' = [call EXCEPT ![s] = [op |-> "submit", on |-> c.on]]
         ELSE Done(s)
      /\ UNCHANGED <<locked, concerns, page>>

------------------------------------------------------------------------------
(* submit and syncActionableResponsesToConcerns.                               *)

Syncing(n) == {s \in Screens : call[s].op \in {"sync", "find", "put"} /\ call[s].on = n}

SubmitLock(s) ==
  /\ Calling(s, "submit")
  /\ locked' = [locked EXCEPT ![call[s].on] = TRUE]
  /\ Goto(s, "sync")
  /\ history' = [history EXCEPT !.crowd =
       LET now == Cardinality(Syncing(call[s].on)) + 1
       IN  IF now > @ THEN now ELSE @]
  /\ UNCHANGED <<answer, concerns, page, detail, draft>>

(* The phone that submitted forgets its draft and fetches the inspection.      *)
SubmitDone(s, n) ==
  /\ Done(s)
  /\ IF s \in Phones
     THEN /\ draft' = [draft EXCEPT ![s][n] = Nothing]
          /\ detail' = [detail EXCEPT ![s][n] = Held(answer[n])]
     ELSE UNCHANGED <<draft, detail>>

(* The answers are read once; only the amber and red ones are followed up.     *)
SyncRead(s) ==
  LET n == call[s].on
      todo == {i \in Items : Finding(i, answer[n][i])}
  IN  /\ Calling(s, "sync")
      /\ IF todo = {} THEN SubmitDone(s, n)
         ELSE /\ call' = [call EXCEPT ![s] =
                    [op |-> "find", on |-> n, todo |-> todo, seen |-> answer[n]]]
              /\ UNCHANGED <<detail, draft>>
      /\ UNCHANGED <<locked, answer, concerns, page, history>>

(* Mutant: a concern is made without looking for the one that is there.        *)
SyncFindNothing(s) ==
  LET c == call[s]
  IN  /\ Calling(s, "find")
      /\ \E i \in c.todo :
           call' = [call EXCEPT ![s] =
             [op |-> "put", on |-> c.on, todo |-> c.todo, seen |-> c.seen,
              item |-> i, at |-> 0]]
      /\ UNCHANGED <<locked, answer, concerns, page, detail, draft, history>>

(* findFirst: some concern of this response, or none (0).                      *)
SyncFind(s) ==
  LET c == call[s]
  IN  /\ Calling(s, "find")
      /\ \E i \in c.todo :
           LET made == DOMAIN concerns[c.on][i]
           IN  \E k \in IF made = {} THEN {0} ELSE made :
                 call' = [call EXCEPT ![s] =
                   [op |-> "put", on |-> c.on, todo |-> c.todo, seen |-> c.seen,
                    item |-> i, at |-> k]]
      /\ UNCHANGED <<locked, answer, concerns, page, detail, draft, history>>

SyncPut(s) ==
  LET c == call[s]
      left == c.todo \ {c.item}
  IN  /\ Calling(s, "put")
      /\ concerns' = [concerns EXCEPT ![c.on][c.item] =
           IF c.at = 0 THEN Append(@, c.seen[c.item])
           ELSE [@ EXCEPT ![c.at] = c.seen[c.item]]]
      /\ IF left = {} THEN SubmitDone(s, c.on)
         ELSE /\ call' = [call EXCEPT ![s] =
                    [op |-> "find", on |-> c.on, todo |-> left, seen |-> c.seen]]
              /\ UNCHANGED <<detail, draft>>
      /\ UNCHANGED <<locked, answer, page, history>>

(* The server or the database fails a call between two statements.             *)
CallDies(s) ==
  /\ ~Calling(s, "idle")
  /\ Done(s)
  /\ history' = [history EXCEPT !.broken =
       IF call[s].op \in {"sync", "find", "put"} THEN @ \cup {call[s].on} ELSE @]
  /\ UNCHANGED <<locked, answer, concerns, page, detail, draft>>

(* reopen reads the lock and, in another statement, takes it off.              *)
ReopenCheck(s) ==
  /\ Calling(s, "idle") /\ locked[page[s].on]
  /\ call' = [call EXCEPT ![s] = [op |-> "reopen", on |-> page[s].on]]
  /\ UNCHANGED <<locked, answer, concerns, page, detail, draft, history>>

Reopen(s) ==
  /\ Calling(s, "reopen")
  /\ locked' = [locked EXCEPT ![call[s].on] = FALSE]
  /\ history' = [history EXCEPT !.broken = @ \ {call[s].on}, !.late = @ \ {call[s].on}]
  /\ Done(s)
  /\ UNCHANGED <<answer, concerns, page, detail, draft>>

------------------------------------------------------------------------------
ScreenStep(s) ==
  \/ \E n \in Inspections : OpenBrowser(s, n) \/ OpenPhone(s, n)
  \/ Fetch(s)
  \/ \E i \in Items, a \in Answers : Edit(s, i, a)
  \/ \E thenSubmit \in BOOLEAN : Send(s, thenSubmit)
  \/ ReopenCheck(s)

CallStep(s) ==
  \/ SaveWrite(s)
  \/ SubmitLock(s) \/ SyncRead(s) \/ SyncFind(s) \/ SyncPut(s)
  \/ Reopen(s)
  \/ CallDies(s)

FormNext == \E s \in Screens : ScreenStep(s) \/ CallStep(s)

FormSpec == FormInit /\ [][FormNext]_formVars

------------------------------------------------------------------------------
Quiet(n) == \A s \in Screens : call[s].op = "idle" \/ call[s].on # n

(* A submitted inspection hides no finding from the advisor: once the calls    *)
(* are over, every answer a screen shows amber or red has a concern, and one   *)
(* made from that answer unless two submits overlapped.  Excepted is what the  *)
(* code cannot repair: a submit that died after the lock, and a save that      *)
(* checked before the lock and wrote after it.  And since a response's concern *)
(* is looked for before one is made, there are no more of them than submits    *)
(* ran at once, however often the inspection is reopened and submitted.        *)
FindingsBecomeConcerns ==
  /\ LightsAgree
  /\ \A n \in Inspections, i \in Items :
       /\ locked[n] /\ Quiet(n) /\ n \notin history.broken \cup history.late
       /\ Finding(i, answer[n][i])
       => /\ concerns[n][i] # <<>>
          /\ history.crowd <= 1 =>
               \E k \in DOMAIN concerns[n][i] : concerns[n][i][k] = answer[n][i]
  /\ \A n \in Inspections, i \in Items : Len(concerns[n][i]) <= history.crowd

(* What the server takes for an inspection was answered on that inspection, or *)
(* loaded from it.                                                             *)
SavedForItsOwnInspection ==
  \A s \in Screens : Calling(s, "write") =>
    \A i \in Items : call[s].batch[i] # NoRow => call[s].origin[i] = call[s].on
==============================================================================
