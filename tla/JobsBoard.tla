------------------------------- MODULE JobsBoard -------------------------------
(* The jobs as the screens show them.  The board of the browser moves a card   *)
(* before the server has answered, keeps the whole list as it was to put it    *)
(* back if the server refuses, and fetches the list again and again; answers   *)
(* come in any order.  And every screen has its own idea of the moves a job    *)
(* may make, to tell what to offer.                                            *)
EXTENDS Integers, Sequences, FiniteSets

CONSTANTS
  BoardJobs,
  First,            \* the status the jobs start from
  Lanes,            \* the statuses of the lanes of the workshop and workflow boards
  Moves, Fetches,   \* moves and fetches a board may have under way
  MaxChanges        \* bound: changes of a status on the server

Table == INSTANCE JobStates

ASSUME BoardAssumption ==
  /\ First \in Table!Statuses
  /\ IsFiniteSet(Moves)
  /\ MaxChanges \in Nat

VARIABLES
  real,        \* jobs.status on the server
  had,         \* history: the statuses each job had there
  shown,       \* the board: the status of each card, and the moves it offers
  move,        \* each move under way: the job, where to, and the list before it
  fetch,       \* each fetch under way: the list the server read
  changes,     \* changes made on the server
  atOnce       \* history: the most moves the board had under way

boardVars == <<real, had, shown, move, fetch, changes, atOnce>>

NoMove == [op |-> "idle"]
Cards == [BoardJobs -> [status : Table!Statuses, offers : SUBSET Table!Statuses]]

BoardTypeOK ==
  /\ real \in [BoardJobs -> Table!Statuses]
  /\ had \in [BoardJobs -> SUBSET Table!Statuses]
  /\ shown \in Cards
  /\ move \in [Moves -> {NoMove} \cup
       [op : {"sent", "done", "refused"}, job : BoardJobs, to : Table!Statuses,
        lane : BOOLEAN, before : Cards]]
  /\ fetch \in [Fetches -> {<<>>} \cup Cards]
  /\ changes \in 0 .. MaxChanges
  /\ atOnce \in 0 .. Cardinality(Moves)

(* A card as the server sends it: the status and, in meta, the moves its table *)
(* allows from there.                                                          *)
Card(status) == [status |-> status, offers |-> Table!Transitions[status]]
ServerList == [j \in BoardJobs |-> Card(real[j])]

(* getValidTransitions of the browser: what the server said, and if that is    *)
(* nothing, its own copy of the table for the status the card shows.           *)
Offered(card) ==
  IF card.offers # {} THEN card.offers ELSE Table!Transitions[card.status]

BoardInit ==
  /\ real = [j \in BoardJobs |-> First]
  /\ had = [j \in BoardJobs |-> {First}]
  /\ shown = [j \in BoardJobs |-> Card(First)]
  /\ move = [m \in Moves |-> NoMove]
  /\ fetch = [f \in Fetches |-> <<>>]
  /\ changes = 0 /\ atOnce = 0

Change(j, to) ==
  /\ changes < MaxChanges
  /\ changes' = changes + 1
  /\ real' = [real EXCEPT ![j] = to]
  /\ had' = [had EXCEPT ![j] = @ \cup {to}]

(* Another screen, a portal answer or a sweep moves the job.                   *)
OthersMove(j) ==
  /\ \E to \in Table!Statuses : Table!LegalMove(real[j], to) /\ Change(j, to)
  /\ UNCHANGED <<shown, move, fetch, atOnce>>

------------------------------------------------------------------------------
(* The buttons of the phone, which has a table of its own.                     *)
PhoneOffers ==
  [booked        |-> {"no_show"},
   checking      |-> {"approved", "estimate_sent", "closed"},
   estimate_sent |-> {"approved", "closed"},
   approved      |-> {"in_progress", "closed"},
   in_progress   |-> {"quality_check", "waiting_parts", "closed"},
   waiting_parts |-> {"in_progress", "closed"},
   quality_check |-> {"ready", "in_progress", "closed"},
   ready         |-> {"closed"},
   closed        |-> {},
   no_show       |-> {}]

------------------------------------------------------------------------------
(* moveJobToStatus, moveJobToWorkshopStage, moveJobToWorkflowStage: only the   *)
(* first asks what the card offers.  The card is moved at once; what it offers *)
(* stays what the server said of the status before.                            *)
Drag(m, j, to, lane) ==
  /\ move[m] = NoMove /\ shown[j].status # to
  /\ IF lane THEN to \in Lanes ELSE to \in Offered(shown[j])
  /\ move' = [move EXCEPT ![m] =
       [op |-> "sent", job |-> j, to |-> to, lane |-> lane, before |-> shown]]
  /\ shown' = [shown EXCEPT ![j].status = to]
  /\ LET now == 1 + Cardinality({n \in Moves : move[n] # NoMove})
     IN  atOnce' = IF now > atOnce THEN now ELSE atOnce
  /\ UNCHANGED <<real, had, fetch, changes>>

(* The server makes a move its table allows, and puts a job in any lane.       *)
ServerMoves(m) ==
  /\ move[m].op = "sent"
  /\ move[m].lane \/ Table!CanTransition(real[move[m].job], move[m].to)
  /\ Change(move[m].job, move[m].to)
  /\ move' = [move EXCEPT ![m].op = "done"]
  /\ UNCHANGED <<shown, fetch, atOnce>>

ServerRefuses(m) ==
  /\ move[m].op = "sent"
  /\ move' = [move EXCEPT ![m].op = "refused"]
  /\ UNCHANGED <<real, had, shown, fetch, changes, atOnce>>

(* The answer: a success is followed by a fetch of its own.                    *)
MoveSucceeds(m) ==
  /\ move[m].op = "done"
  /\ \E f \in Fetches : fetch[f] = <<>> /\ fetch' = [fetch EXCEPT ![f] = ServerList]
  /\ move' = [move EXCEPT ![m] = NoMove]
  /\ UNCHANGED <<real, had, shown, changes, atOnce>>

(* Mutant: a refused move leaves the card where it was dropped.                *)
MoveStays(m) ==
  /\ move[m].op \in {"done", "refused"}
  /\ move' = [move EXCEPT ![m] = NoMove]
  /\ UNCHANGED <<real, had, shown, fetch, changes, atOnce>>

(* A refusal, or an answer that is lost: the list is put back as it was.       *)
MoveUndone(m) ==
  /\ move[m].op \in {"done", "refused"}
  /\ shown' = move[m].before
  /\ move' = [move EXCEPT ![m] = NoMove]
  /\ UNCHANGED <<real, had, fetch, changes, atOnce>>

------------------------------------------------------------------------------
(* fetchJobs, on a timer and on focus: the server reads, the answer replaces   *)
(* the list whenever it arrives, or is lost.                                   *)
FetchRead(f) ==
  /\ fetch[f] = <<>>
  /\ fetch' = [fetch EXCEPT ![f] = ServerList]
  /\ UNCHANGED <<real, had, shown, move, changes, atOnce>>

FetchArrives(f) ==
  /\ fetch[f] # <<>>
  /\ shown' \in {fetch[f], shown}
  /\ fetch' = [fetch EXCEPT ![f] = <<>>]
  /\ UNCHANGED <<real, had, move, changes, atOnce>>

BoardNext ==
  \/ \E j \in BoardJobs : OthersMove(j)
  \/ \E m \in Moves :
       \/ \E j \in BoardJobs, to \in Table!Statuses, lane \in BOOLEAN : Drag(m, j, to, lane)
       \/ ServerMoves(m) \/ ServerRefuses(m)
       \/ MoveSucceeds(m) \/ MoveUndone(m)
  \/ \E f \in Fetches : FetchRead(f) \/ FetchArrives(f)

BoardSpec == BoardInit /\ [][BoardNext]_boardVars

------------------------------------------------------------------------------
(* The board shows of a job a status it had, or one it is being moved to, in   *)
(* whatever order polls, refusals and lost answers arrive; a refused move      *)
(* outlives its refusal only in the list that an overlapping move kept and put *)
(* back.  And what a screen offers is legal for a status the job had: the      *)
(* moves of a card always, and the buttons of the phone for the status it      *)
(* shows, but for Close Job during quality check.                              *)
BoardShowsRealStatuses ==
  /\ \A j \in BoardJobs :
       /\ atOnce <= 1 =>
            shown[j].status \in had[j] \cup {move[m].to : m \in {n \in Moves :
                                            move[n] # NoMove /\ move[n].job = j}}
       /\ \E s \in had[j] : shown[j].offers = Table!Transitions[s]
  /\ \A s \in Table!Statuses : PhoneOffers[s] \subseteq
       Table!Transitions[s] \cup (IF s = "quality_check" THEN {"closed"} ELSE {})
==============================================================================
