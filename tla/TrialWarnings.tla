---------------------------- MODULE TrialWarnings -----------------------------
(* A daily task of the scheduler on every instance of the server: take an      *)
(* advisory lock of the database, do the work, release the lock.  The lock     *)
(* belongs to a connection; an instance has a pool of them, and each statement *)
(* goes through any one that is free.  The task here is the trial warning,     *)
(* which looks for a warning of the last week before it queues one.            *)
EXTENDS Integers, FiniteSets

CONSTANTS
  Instances,
  Pool,           \* the connections of each instance
  Due,            \* workshops whose trial is about to end, with an address
  MaxFirings      \* bound: times the task fires, over all instances

Connections == UNION {Pool[i] : i \in Instances}
Nobody == "nobody"

ASSUME PoolAssumption ==
  /\ Nobody \notin Connections
  /\ \A i, j \in Instances : i # j => Pool[i] \cap Pool[j] = {}
  /\ MaxFirings \in Nat

VARIABLES
  lock,        \* the connection that holds the lock, and how many times over
  run,         \* each instance's run: its awaited call and the workshops left
  warned,      \* warnings queued for each workshop
  firings,     \* how many times the task fired
  cut          \* history: the lock's connection went while its run went on

lockVars == <<lock, run, warned, firings, cut>>

Resting == [op |-> "idle"]
Unlocked == [by |-> Nobody, depth |-> 0]

WarningTypeOK ==
  /\ lock \in [by : Connections \cup {Nobody}, depth : 0 .. MaxFirings]
  /\ run \in [Instances -> {Resting} \cup
       [op : {"lookup", "queue", "release"}, left : SUBSET Due, next : SUBSET Due,
        by : Connections]]
  /\ warned \in [Due -> Nat]
  /\ firings \in 0 .. MaxFirings
  /\ cut \in BOOLEAN

WarningInit ==
  /\ lock = Unlocked
  /\ run = [i \in Instances |-> Resting]
  /\ warned = [w \in Due |-> 0]
  /\ firings = 0
  /\ cut = FALSE

(* Mutant: the answer of GET_LOCK is not looked at.                            *)
GrantAnyone(c) == TRUE

(* GET_LOCK with no wait: granted if the lock is free or already held by the   *)
(* very connection the statement goes through; else the firing is skipped.     *)
Grant(c) == lock.by \in {Nobody, c}

Fire(i) ==
  /\ run[i] = Resting /\ firings < MaxFirings
  /\ firings' = firings + 1
  /\ \E c \in Pool[i] :
       IF Grant(c)
       THEN /\ lock' = [by |-> c, depth |-> lock.depth + 1]
            /\ run' = [run EXCEPT ![i] = [op |-> "lookup", left |-> Due, next |-> {}, by |-> c]]
       ELSE UNCHANGED <<lock, run>>
  /\ UNCHANGED <<warned, cut>>

(* findFirst for the next workshop: one warned this week is passed over.       *)
Lookup(i) ==
  /\ run[i].op = "lookup" /\ run[i].left # {}
  /\ \E w \in run[i].left :
       run' = [run EXCEPT ![i].left = @ \ {w},
                          ![i].op = IF warned[w] > 0 THEN "lookup" ELSE "queue",
                          ![i].next = IF warned[w] > 0 THEN {} ELSE {w}]
  /\ UNCHANGED <<lock, warned, firings, cut>>

Queue(i) ==
  /\ run[i].op = "queue"
  /\ warned' = [w \in Due |-> warned[w] + (IF w \in run[i].next THEN 1 ELSE 0)]
  /\ run' = [run EXCEPT ![i].op = "lookup", ![i].next = {}]
  /\ UNCHANGED <<lock, firings, cut>>

(* An error ends the loop; it is logged, and the lock released all the same.   *)
LoopEnds(i) ==
  /\ run[i].op \in {"lookup", "queue"}
  /\ run' = [run EXCEPT ![i] = [@ EXCEPT !.op = "release", !.left = {},
                                                      !.next = {}]]
  /\ UNCHANGED <<lock, warned, firings, cut>>

(* RELEASE_LOCK through any connection of the pool: nothing happens unless it  *)
(* is the holder, and the lock then stays held until that connection closes.   *)
Release(i) ==
  /\ run[i].op = "release"
  /\ \E c \in Pool[i] :
       lock' = CASE lock.by # c -> lock
                 [] lock.by = c /\ lock.depth = 1 -> Unlocked
                 [] OTHER -> [lock EXCEPT !.depth = @ - 1]
  /\ run' = [run EXCEPT ![i] = Resting]
  /\ UNCHANGED <<warned, firings, cut>>

(* The holder's connection closes: the database frees the lock.                *)
ConnectionCloses ==
  /\ lock.by # Nobody
  /\ cut' = (cut \/ \E i \in Instances :
               run[i].op \in {"lookup", "queue"} /\ run[i].by = lock.by)
  /\ lock' = Unlocked
  /\ UNCHANGED <<run, warned, firings>>

(* The instance dies with its runs and its connections.                        *)
InstanceDies(i) ==
  /\ run[i] # Resting
  /\ run' = [run EXCEPT ![i] = Resting]
  /\ lock' = IF lock.by \in Pool[i] THEN Unlocked ELSE lock
  /\ UNCHANGED <<warned, firings, cut>>

WarningNext ==
  \/ \E i \in Instances :
       \/ Fire(i) \/ Lookup(i) \/ Queue(i) \/ LoopEnds(i) \/ Release(i)
       \/ InstanceDies(i)
  \/ ConnectionCloses

WarningSpec == WarningInit /\ [][WarningNext]_lockVars

(* However many instances fire, and wherever a run breaks off, a workshop gets *)
(* one warning: only a lock lost under a running task lets two of them look    *)
(* before either queues.  And until then no two runs are at work at once.      *)
WarnedOnce ==
  ~cut =>
    /\ \A w \in Due : warned[w] <= 1
    /\ \A i, j \in Instances :
         run[i].op \in {"lookup", "queue"} /\ run[j].op \in {"lookup", "queue"} => i = j
==============================================================================
