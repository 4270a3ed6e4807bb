--------------------------- MODULE BackgroundProofs ---------------------------
(*****************************************************************************)
(* Proofs about what runs in the background of the requests: TrialWarnings,  *)
(* for any instances of the server, pools of connections, workshops and      *)
(* number of firings; MediaFiles, whose sweep the scheduler starts, for any  *)
(* files, targets and removers; and NotificationDelivery, for any rows,      *)
(* attempts, poll batch and bound on the faults.                             *)
(*****************************************************************************)
EXTENDS TrialWarnings, MediaFiles, NotificationDelivery, FiniteSetTheorems, TLAPS

-------------------------------------------------------------------------------
(*****************************************************************************)
(* The warnings before a trial ends.                                         *)
(*****************************************************************************)

Runs ==
  {Resting} \cup [op : {"lookup", "queue", "release"}, left : SUBSET Due,
                  next : SUBSET Due, by : Connections]

WarningShapes ==
  /\ lock \in [by : Connections \cup {Nobody}, depth : Int]
  /\ run \in [Instances -> Runs]
  /\ warned \in [Due -> Nat]
  /\ cut \in BOOLEAN

Working(i) == run[i].op \in {"lookup", "queue"}

(* A run at work holds the lock through a connection of its own instance.      *)
WorkerHoldsLock ==
  \A i \in Instances : Working(i) => run[i].by \in Pool[i] /\ lock.by = run[i].by

(* A run about to queue a warning still sees none of it.                       *)
QueuesTheFirst ==
  \A i \in Instances : run[i].op = "queue" => \A w \in run[i].next : warned[w] = 0

WarningSound ==
  /\ WarningShapes
  /\ ~cut => /\ WorkerHoldsLock
             /\ QueuesTheFirst
             /\ \A w \in Due : warned[w] <= 1

LEMMA WarningStarts == WarningInit => WarningSound
<1> SUFFICES ASSUME WarningInit  PROVE WarningSound
  OBVIOUS
<1> USE DEF WarningInit
<1>1. WarningShapes
  <2>1. lock \in [by : Connections \cup {Nobody}, depth : Int]  BY DEF Unlocked
  <2>2. run \in [Instances -> Runs] /\ warned \in [Due -> Nat]  BY DEF Runs
  <2> QED BY <2>1, <2>2 DEF WarningShapes
<1>2. \A i \in Instances : run[i].op = "idle"  BY DEF Resting
<1>3. WorkerHoldsLock /\ QueuesTheFirst  BY <1>2 DEF WorkerHoldsLock, QueuesTheFirst, Working
<1>4. \A w \in Due : warned[w] <= 1  OBVIOUS
<1> QED BY <1>1, <1>3, <1>4 DEF WarningSound

\* Pools are disjoint, so two runs at work are one.
LEMMA OneWorker ==
  ASSUME WarningShapes, WorkerHoldsLock,
         NEW i \in Instances, NEW j \in Instances, Working(i), Working(j)
  PROVE  i = j
BY PoolAssumption DEF WorkerHoldsLock

\* A run that is not at rest has a connection and workshops left.
LEMMA RunInFlight ==
  ASSUME WarningShapes, NEW i \in Instances, run[i].op \in {"lookup", "queue", "release"}
  PROVE  run[i] \in [op : {"lookup", "queue", "release"}, left : SUBSET Due,
                     next : SUBSET Due, by : Connections]
BY DEF WarningShapes, Runs, Resting

\* GET_LOCK is granted only if no other run is at work.
LEMMA FireKeepsSound ==
  ASSUME WarningSound, NEW i \in Instances, Fire(i)
  PROVE  WarningSound'
<1> DEFINE begun(c) == [op |-> "lookup", left |-> Due, next |-> {}, by |-> c]
<1>1. UNCHANGED <<warned, cut>> /\ run[i] = Resting  BY DEF Fire
<1>2. PICK c \in Pool[i] :
        IF Grant(c)
        THEN /\ lock' = [by |-> c, depth |-> lock.depth + 1]
             /\ run' = [run EXCEPT ![i] = begun(c)]
        ELSE UNCHANGED <<lock, run>>
  BY DEF Fire
<1>3. CASE ~Grant(c)
  BY <1>1, <1>2, <1>3
     DEF WarningSound, WarningShapes, WorkerHoldsLock, QueuesTheFirst, Working
<1>4. CASE Grant(c)
  <2>1. c \in Connections  BY DEF Connections
  <2>2. lock' = [by |-> c, depth |-> lock.depth + 1]  BY <1>2, <1>4
  <2>3. run' = [run EXCEPT ![i] = begun(c)]  BY <1>2, <1>4
  <2>4. begun(c) \in Runs /\ begun(c).op = "lookup" /\ begun(c).by = c
    BY <2>1 DEF Runs
  <2> HIDE DEF begun
  <2>5. WarningShapes'
    <3>1. lock' \in [by : Connections \cup {Nobody}, depth : Int]
      BY <2>1, <2>2 DEF WarningSound, WarningShapes
    <3> QED BY <1>1, <2>3, <2>4, <3>1 DEF WarningSound, WarningShapes
  <2>6. run'[i] = begun(c) /\ \A j \in Instances \ {i} : run'[j] = run[j]
    BY <2>3 DEF WarningSound, WarningShapes
  <2>7. ASSUME ~cut
        PROVE  WorkerHoldsLock' /\ QueuesTheFirst'
    <3>1. \A j \in Instances \ {i} : ~Working(j)
      <4> SUFFICES ASSUME NEW j \in Instances \ {i}, Working(j)  PROVE FALSE
        OBVIOUS
      <4>1. lock.by \in Pool[j] /\ lock.by # Nobody
        BY <2>7, PoolAssumption DEF WarningSound, WorkerHoldsLock, Connections
      <4> QED BY <1>4, <4>1, PoolAssumption DEF Grant
    <3>2. WorkerHoldsLock'
      BY <2>2, <2>4, <2>6, <3>1 DEF WorkerHoldsLock, Working
    <3>3. QueuesTheFirst'
      BY <2>4, <2>6, <3>1 DEF QueuesTheFirst, Working
    <3> QED BY <3>2, <3>3
  <2> QED BY <1>1, <2>5, <2>7 DEF WarningSound
<1> QED BY <1>3, <1>4

\* A workshop that was warned is passed over.
LEMMA LookupKeepsSound ==
  ASSUME WarningSound, NEW i \in Instances, Lookup(i)
  PROVE  WarningSound'
<1>1. UNCHANGED <<lock, warned, cut>> /\ run[i].op = "lookup"  BY DEF Lookup
<1>2. PICK w \in run[i].left :
        run' = [run EXCEPT ![i].left = @ \ {w},
                           ![i].op = IF warned[w] > 0 THEN "lookup" ELSE "queue",
                           ![i].next = IF warned[w] > 0 THEN {} ELSE {w}]
  BY DEF Lookup
<1> DEFINE seen == warned[w] > 0
           next == [run[i] EXCEPT !.left = @ \ {w},
                      !.op = IF seen THEN "lookup" ELSE "queue",
                      !.next = IF seen THEN {} ELSE {w}]
<1>3. run[i] \in [op : {"lookup", "queue", "release"}, left : SUBSET Due,
                  next : SUBSET Due, by : Connections]
  BY <1>1, RunInFlight DEF WarningSound
<1>4. w \in Due /\ warned[w] \in Nat  BY <1>3 DEF WarningSound, WarningShapes
<1>5. next \in Runs /\ next.op \in {"lookup", "queue"} /\ next.by = run[i].by
  BY <1>3, <1>4 DEF Runs
<1>6. next.op = "queue" => \A v \in next.next : warned[v] = 0
  BY <1>3, <1>4
<1>7. run' = [run EXCEPT ![i] = next]  BY <1>2, <1>3 DEF WarningSound, WarningShapes
<1> HIDE DEF next
<1>8. WarningShapes'  BY <1>1, <1>5, <1>7 DEF WarningSound, WarningShapes
<1>9. run'[i] = next /\ \A j \in Instances \ {i} : run'[j] = run[j]
  BY <1>7 DEF WarningSound, WarningShapes
<1>10. WorkerHoldsLock => WorkerHoldsLock'
  BY <1>1, <1>5, <1>9 DEF WorkerHoldsLock, Working
<1>11. QueuesTheFirst => QueuesTheFirst'
  BY <1>1, <1>6, <1>9 DEF QueuesTheFirst
<1> QED BY <1>1, <1>8, <1>10, <1>11 DEF WarningSound

\* The only run at work queues a warning nobody queued.
LEMMA QueueKeepsSound ==
  ASSUME WarningSound, NEW i \in Instances, Queue(i)
  PROVE  WarningSound'
<1>1. UNCHANGED <<lock, cut>> /\ run[i].op = "queue"  BY DEF Queue
<1> DEFINE looked == [run[i] EXCEPT !.op = "lookup", !.next = {}]
<1>2. run[i] \in [op : {"lookup", "queue", "release"}, left : SUBSET Due,
                  next : SUBSET Due, by : Connections]
  BY <1>1, RunInFlight DEF WarningSound
<1>3. looked \in Runs /\ looked.op = "lookup" /\ looked.by = run[i].by
  BY <1>2 DEF Runs
<1>4. run' = [run EXCEPT ![i] = looked]  BY <1>2 DEF Queue, WarningSound, WarningShapes
<1> HIDE DEF looked
<1>5. warned' = [w \in Due |-> warned[w] + (IF w \in run[i].next THEN 1 ELSE 0)]
  BY DEF Queue
<1>6. WarningShapes'  BY <1>1, <1>3, <1>4, <1>5 DEF WarningSound, WarningShapes
<1>7. run'[i] = looked /\ \A j \in Instances \ {i} : run'[j] = run[j]
  BY <1>4 DEF WarningSound, WarningShapes
<1>8. ASSUME ~cut
      PROVE  WorkerHoldsLock' /\ QueuesTheFirst' /\ \A w \in Due : warned'[w] <= 1
  <2>1. WorkerHoldsLock /\ QueuesTheFirst /\ \A w \in Due : warned[w] <= 1
    BY <1>8 DEF WarningSound
  <2>2. WorkerHoldsLock'
    BY <1>1, <1>3, <1>7, <2>1 DEF WorkerHoldsLock, Working
  <2>3. \A j \in Instances \ {i} : run[j].op # "queue"
    BY <1>1, <2>1, OneWorker DEF WarningSound, Working
  <2>4. QueuesTheFirst'  BY <1>3, <1>7, <2>3 DEF QueuesTheFirst
  <2>5. ASSUME NEW w \in Due  PROVE warned'[w] <= 1
    <3>1. w \in run[i].next => warned[w] = 0  BY <1>1, <2>1 DEF QueuesTheFirst
    <3>2. warned[w] \in Nat /\ warned[w] <= 1
      BY <2>1 DEF WarningSound, WarningShapes
    <3> QED BY <1>5, <3>1, <3>2
  <2> QED BY <2>2, <2>4, <2>5
<1> QED BY <1>1, <1>6, <1>8 DEF WarningSound

\* A run that breaks off, or an instance that dies, leaves the others the lock.
LEMMA EndKeepsSound ==
  ASSUME WarningSound, NEW i \in Instances, LoopEnds(i) \/ Release(i) \/ InstanceDies(i)
  PROVE  WarningSound'
<1>1. UNCHANGED <<warned, cut>>  BY DEF LoopEnds, Release, InstanceDies
<1>2. PICK over \in Runs :
        run' = [run EXCEPT ![i] = over] /\ over.op \notin {"lookup", "queue"}
  <2>1. CASE LoopEnds(i)
    <3> DEFINE over == [run[i] EXCEPT !.op = "release", !.left = {}, !.next = {}]
    <3>1. run[i] \in [op : {"lookup", "queue", "release"}, left : SUBSET Due,
                      next : SUBSET Due, by : Connections]
      BY <2>1, RunInFlight DEF LoopEnds, WarningSound
    <3>2. over \in Runs /\ over.op = "release"  BY <3>1 DEF Runs
    <3>3. run' = [run EXCEPT ![i] = over]  BY <2>1 DEF LoopEnds
    <3> QED BY <3>2, <3>3
  <2>2. CASE Release(i) \/ InstanceDies(i)
    BY <2>2 DEF Release, InstanceDies, Runs, Resting
  <2> QED BY <2>1, <2>2
<1>3. /\ lock' \in [by : Connections \cup {Nobody}, depth : Int]
      /\ lock.by \notin Pool[i] => lock'.by = lock.by
      /\ LoopEnds(i) => lock' = lock
  <2>1. CASE LoopEnds(i)  BY <2>1 DEF LoopEnds, WarningSound, WarningShapes
  <2>2. CASE Release(i)
    <3>1. PICK c \in Pool[i] :
            lock' = CASE lock.by # c -> lock
                      [] lock.by = c /\ lock.depth = 1 -> Unlocked
                      [] OTHER -> [lock EXCEPT !.depth = @ - 1]
      BY <2>2 DEF Release
    <3>2. CASE lock.by # c
      BY <2>2, <3>1, <3>2 DEF WarningSound, WarningShapes, Release, LoopEnds
    <3>3. CASE lock.by = c
      <4>1. lock' = Unlocked \/ lock' = [lock EXCEPT !.depth = @ - 1]  BY <3>1, <3>3
      <4>2. run[i].op = "release"  BY <2>2 DEF Release
      <4> QED BY <3>3, <4>1, <4>2 DEF WarningSound, WarningShapes, Unlocked, LoopEnds
    <3> QED BY <3>2, <3>3
  <2>3. CASE InstanceDies(i) /\ ~LoopEnds(i)
    BY <2>3 DEF InstanceDies, WarningSound, WarningShapes, Unlocked
  <2> QED BY <2>1, <2>2, <2>3
<1>4. WarningShapes'  BY <1>1, <1>2, <1>3 DEF WarningSound, WarningShapes
<1>5. run'[i] = over /\ \A j \in Instances \ {i} : run'[j] = run[j]
  BY <1>2 DEF WarningSound, WarningShapes
<1>6. ASSUME ~cut
      PROVE  WorkerHoldsLock' /\ QueuesTheFirst'
  <2>1. WorkerHoldsLock /\ QueuesTheFirst  BY <1>6 DEF WarningSound
  <2>2. ASSUME NEW j \in Instances, Working(j)'
        PROVE  run'[j].by \in Pool[j] /\ lock'.by = run'[j].by
    <3>1. j # i /\ run'[j] = run[j]  BY <1>2, <1>5, <2>2 DEF Working
    <3>2. run[j].by \in Pool[j] /\ lock.by = run[j].by
      BY <2>1, <2>2, <3>1 DEF WorkerHoldsLock, Working
    <3>3. lock.by \notin Pool[i]  BY <3>1, <3>2, PoolAssumption
    <3> QED BY <1>3, <3>1, <3>2, <3>3
  <2>3. QueuesTheFirst'  BY <1>1, <1>2, <1>5, <2>1 DEF QueuesTheFirst
  <2> QED BY <2>2, <2>3 DEF WorkerHoldsLock
<1> QED BY <1>1, <1>4, <1>6 DEF WarningSound

\* A connection that closes under no running task takes a lock nobody uses.
LEMMA CloseKeepsSound ==
  ASSUME WarningSound, ConnectionCloses
  PROVE  WarningSound'
<1>1. lock' = Unlocked /\ UNCHANGED <<run, warned>>  BY DEF ConnectionCloses
<1>2. cut' = (cut \/ \E i \in Instances : Working(i) /\ run[i].by = lock.by)
  BY DEF ConnectionCloses, Working
<1>3. cut' \in BOOLEAN  BY <1>2
<1>4. WarningShapes'  BY <1>1, <1>3 DEF WarningSound, WarningShapes, Unlocked
<1>5. ASSUME ~cut'
      PROVE  WorkerHoldsLock' /\ QueuesTheFirst' /\ \A w \in Due : warned'[w] <= 1
  <2>1. ~cut /\ \A i \in Instances : ~(Working(i) /\ run[i].by = lock.by)
    BY <1>2, <1>5
  <2>2. WorkerHoldsLock /\ QueuesTheFirst /\ \A w \in Due : warned[w] <= 1
    BY <2>1 DEF WarningSound
  <2>3. \A i \in Instances : ~Working(i)'
    BY <1>1, <2>1, <2>2 DEF WorkerHoldsLock, Working
  <2> QED BY <1>1, <2>2, <2>3 DEF WorkerHoldsLock, QueuesTheFirst
<1> QED BY <1>4, <1>5 DEF WarningSound

LEMMA WarningKeepsSound ==
  ASSUME WarningSound, [WarningNext]_lockVars
  PROVE  WarningSound'
<1>1. CASE UNCHANGED lockVars
  BY <1>1 DEF lockVars, WarningSound, WarningShapes, WorkerHoldsLock, QueuesTheFirst, Working
<1> QED
  BY <1>1, FireKeepsSound, LookupKeepsSound, QueueKeepsSound, EndKeepsSound, CloseKeepsSound
     DEF WarningNext

LEMMA SoundWarnsOnce == WarningSound => WarnedOnce
BY OneWorker DEF WarningSound, WarnedOnce, Working

(* However many instances share the database, and wherever their runs break    *)
(* off, a customer is warned once and no two runs are at work together, as     *)
(* long as no lock's connection closes under a running task: a leaked lock     *)
(* costs a firing, never a second warning.                                     *)
THEOREM CustomersWarnedOnce == WarningSpec => []WarnedOnce
<1>1. WarningInit => WarningSound  BY WarningStarts
<1>2. WarningSound /\ [WarningNext]_lockVars => WarningSound'  BY WarningKeepsSound
<1> QED BY <1>1, <1>2, SoundWarnsOnce, PTL DEF WarningSpec

(* A lock is taken as many times over as its task fired through it, at most,   *)
(* and is nobody's exactly when it is not taken.                               *)
LockCounted ==
  /\ firings \in 0 .. MaxFirings
  /\ lock.depth \in 0 .. firings
  /\ lock.by # Nobody => lock.depth >= 1

LEMMA LockCountedTypes == WarningSound /\ LockCounted => WarningTypeOK
BY PoolAssumption DEF WarningSound, WarningShapes, LockCounted, WarningTypeOK, Runs

\* The lock goes from hand to hand as GET_LOCK, RELEASE_LOCK and a closing
\* connection leave it.
LEMMA LockStep ==
  ASSUME WarningSound, LockCounted, NEW i \in Instances,
         Fire(i) \/ Release(i) \/ InstanceDies(i)
  PROVE  LockCounted'
<1>1. /\ MaxFirings \in Nat /\ firings \in 0 .. MaxFirings
      /\ lock \in [by : Connections \cup {Nobody}, depth : Int]
      /\ lock.depth \in 0 .. firings /\ (lock.by # Nobody => lock.depth >= 1)
  BY PoolAssumption DEF WarningSound, WarningShapes, LockCounted
<1> USE DEF LockCounted, Unlocked
<1>2. CASE Fire(i)
  <2>1. firings < MaxFirings /\ firings' = firings + 1
    BY <1>2 DEF Fire
  <2>2. PICK c \in Pool[i] : IF Grant(c) THEN lock' = [by |-> c, depth |-> lock.depth + 1]
                                        ELSE lock' = lock
    BY <1>2 DEF Fire
  <2>3. CASE Grant(c)
    <3>1. lock' = [by |-> c, depth |-> lock.depth + 1]
      BY <2>2, <2>3
    <3> QED BY <3>1, <2>1, <1>1
  <2>4. CASE ~Grant(c)
    BY <2>1, <2>2, <2>4, <1>1
  <2> QED BY <2>3, <2>4
<1>3. CASE Release(i)
  <2>1. firings' = firings
    BY <1>3 DEF Release
  <2>2. PICK c \in Pool[i] : lock' = CASE lock.by # c -> lock
                                      [] lock.by = c /\ lock.depth = 1 -> Unlocked
                                      [] OTHER -> [lock EXCEPT !.depth = @ - 1]
    BY <1>3 DEF Release
  <2>3. CASE lock.by # c
    BY <2>1, <2>2, <2>3, <1>1
  <2>4. CASE lock.by = c /\ lock.depth = 1
    BY <2>1, <2>2, <2>4, <1>1
  <2>5. CASE lock.by = c /\ lock.depth # 1
    <3>1. lock' = [by |-> lock.by, depth |-> lock.depth - 1]
      BY <2>2, <2>5, <1>1
    <3>2. lock.by # Nobody
      BY <2>5, PoolAssumption DEF Connections
    <3> QED BY <3>1, <3>2, <2>1, <2>5, <1>1
  <2> QED BY <2>3, <2>4, <2>5
<1>4. CASE InstanceDies(i)
  <2>1. firings' = firings /\ lock' \in {lock, Unlocked}
    BY <1>4 DEF InstanceDies
  <2> QED BY <2>1, <1>1
<1> QED BY <1>2, <1>3, <1>4

LEMMA LockCountedHolds ==
  ASSUME WarningSound, LockCounted, [WarningNext]_lockVars
  PROVE  LockCounted'
<1>1. CASE UNCHANGED lockVars
  BY <1>1 DEF lockVars, LockCounted
<1>2. ASSUME NEW i \in Instances, Lookup(i) \/ Queue(i) \/ LoopEnds(i)
      PROVE  lock' = lock /\ firings' = firings
  BY <1>2 DEF Lookup, Queue, LoopEnds
<1>3. CASE \E i \in Instances : Lookup(i) \/ Queue(i) \/ LoopEnds(i)
  BY <1>2, <1>3 DEF LockCounted
<1>4. CASE \E i \in Instances : Fire(i) \/ Release(i) \/ InstanceDies(i)
  BY <1>4, LockStep
<1>5. CASE ConnectionCloses
  BY <1>5 DEF ConnectionCloses, Unlocked, LockCounted
<1> QED BY <1>1, <1>3, <1>4, <1>5 DEF WarningNext

(* The tables of the warning task keep their types; a lock is never released   *)
(* more often than it was taken.                                               *)
THEOREM WarningTyping == WarningSpec => []WarningTypeOK
<1>1. WarningInit => WarningSound /\ LockCounted
  BY WarningStarts, PoolAssumption DEF WarningInit, LockCounted, Unlocked
<1>2. WarningSound /\ LockCounted /\ [WarningNext]_lockVars => (WarningSound /\ LockCounted)'
  BY WarningKeepsSound, LockCountedHolds
<1> QED BY <1>1, <1>2, LockCountedTypes, PTL DEF WarningSpec

-------------------------------------------------------------------------------
(*****************************************************************************)
(* The photos: uploads, removals, forms and the sweep.                       *)
(*****************************************************************************)

FileRows ==
  [state : {"listed", "deleted"}, on : Targets, counted : BOOLEAN,
   sized : BOOLEAN, whole : BOOLEAN]

Uploads ==
  [op : {"resolve", "placeholder", "put", "insert", "count", "confirm", "over"},
   on : Targets, direct : BOOLEAN]

HasContent(f) == f \in object \cup (sweep.found \ sweep.left) \cup lost

(* How far an upload is tells whether its file has a row and an object; no     *)
(* sweep can have seen a file without a row.                                   *)
UploadFits(f) ==
  /\ upload[f].op \in {"idle", "resolve", "placeholder", "insert"} => media[f] = NoFile
  /\ upload[f].op = "insert" /\ upload[f].direct => f \in object
  /\ upload[f].op = "put" => IF upload[f].direct THEN media[f] = NoFile ELSE media[f] \in FileRows
  /\ upload[f].op = "count" => media[f] \in FileRows /\ media[f].on = upload[f].on
  /\ upload[f].op = "confirm" => media[f] \in FileRows /\ (Listed(f) => HasContent(f))

(* Only a photo with a size is counted; a whole one on view has its object.    *)
FileFits(f) ==
  media[f] \in FileRows =>
    /\ media[f].counted => media[f].sized
    /\ media[f].whole /\ Listed(f) => HasContent(f)

(* A sweep holds rows without a size, and so never one that was counted.       *)
SweepFits ==
  /\ sweep.left \subseteq sweep.found
  /\ \A f \in sweep.found : media[f] \in FileRows /\ ~media[f].counted

RemovalsFit == \A r \in Removers : removal[r] # NoUpload => media[removal[r].file] \in FileRows

MediaFits ==
  /\ MediaTypeOK
  /\ \A f \in Files : UploadFits(f) /\ FileFits(f)
  /\ SweepFits
  /\ RemovalsFit

LEMMA UploadInFlight ==
  ASSUME MediaTypeOK, NEW f \in Files, upload[f].op # "idle"
  PROVE  upload[f] \in Uploads
<1>1. upload[f] \in {NoUpload} \cup Uploads  BY DEF MediaTypeOK, Uploads
<1> QED BY <1>1 DEF NoUpload

LEMMA ListedHasRow ==
  ASSUME MediaTypeOK, NEW f \in Files
  PROVE  /\ media[f] \in {NoFile} \cup FileRows
         /\ Listed(f) => media[f] \in FileRows
         /\ ~(NoFile \in FileRows)
<1>1. media[f] \in {NoFile} \cup FileRows  BY DEF MediaTypeOK, FileRows
<1>2. ~(NoFile \in FileRows)  BY DEF NoFile, FileRows
<1> QED BY <1>1, <1>2 DEF NoFile, Listed

\* An upload that moves between its calls and writes no row and no object.
LEMMA MoveFits ==
  ASSUME MediaFits, NEW f \in Files, NEW u \in Uploads,
         upload' = [upload EXCEPT ![f] = u], exists' \subseteq Targets,
         mediaCount' \in [Targets -> Int], miscounted' \subseteq Targets,
         UNCHANGED <<media, object, removal, sweep, lost>>, UploadFits(f)'
  PROVE  MediaFits'
<1>1. MediaTypeOK'
  BY DEF MediaFits, MediaTypeOK, Uploads
<1>2. \A g \in Files \ {f} : upload'[g] = upload[g]  BY DEF MediaFits, MediaTypeOK
<1>3. \A g \in Files : UploadFits(g)'
  BY <1>2 DEF MediaFits, UploadFits, Listed, HasContent
<1>4. \A g \in Files : FileFits(g)'
  BY DEF MediaFits, FileFits, Listed, HasContent
<1>5. SweepFits' /\ RemovalsFit'  BY DEF MediaFits, SweepFits, RemovalsFit
<1> QED BY <1>1, <1>3, <1>4, <1>5 DEF MediaFits

LEMMA UploadMovesFit ==
  ASSUME MediaFits, NEW f \in Files,
         \/ \E t \in Targets, direct \in BOOLEAN : StartUpload(f, t, direct)
         \/ Resolve(f) \/ Placeholder(f) \/ CountUp(f) \/ UploadFails(f)
  PROVE  MediaFits'
<1> USE DEF Uploading, UploadGoto
<1>1. MediaTypeOK /\ UploadFits(f) /\ UNCHANGED <<media, object, removal, sweep, lost>>
  BY DEF MediaFits, StartUpload, Resolve, Placeholder, CountUp, UploadFails
<1>2. exists' \subseteq Targets
  <2>1. CASE Placeholder(f)
    <3>1. upload[f] \in Uploads  BY <1>1, <2>1, UploadInFlight DEF Placeholder
    <3> QED BY <1>1, <2>1, <3>1 DEF Placeholder, MediaTypeOK, Uploads
  <2> QED BY <1>1, <2>1 DEF StartUpload, Resolve, CountUp, UploadFails, MediaTypeOK
<1>3. mediaCount' \in [Targets -> Int]
  BY <1>1 DEF StartUpload, Resolve, Placeholder, CountUp, UploadFails, MediaTypeOK
<1>4. miscounted' \subseteq Targets
  <2>1. CASE UploadFails(f)
    <3>1. upload[f] \in Uploads  BY <1>1, <2>1, UploadInFlight DEF UploadFails
    <3> QED BY <1>1, <2>1, <3>1 DEF UploadFails, MediaTypeOK, Uploads
  <2> QED BY <1>1, <2>1 DEF StartUpload, Resolve, CountUp, Placeholder, MediaTypeOK
<1>5. ASSUME NEW t \in Targets, NEW direct \in BOOLEAN, StartUpload(f, t, direct)
      PROVE  MediaFits'
  <2> DEFINE u == [op |-> "resolve", on |-> t, direct |-> direct]
  <2>1. u \in Uploads /\ u.op = "resolve"  BY DEF Uploads
  <2>2. upload' = [upload EXCEPT ![f] = u]  BY <1>5 DEF StartUpload
  <2> HIDE DEF u
  <2>3. upload'[f] = u  BY <1>1, <2>2 DEF MediaTypeOK
  <2>4. UploadFits(f)'  BY <1>1, <1>5, <2>1, <2>3 DEF StartUpload, UploadFits
  <2> QED BY <1>1, <1>2, <1>3, <1>4, <2>1, <2>2, <2>4, MoveFits
<1>6. ASSUME Resolve(f) \/ Placeholder(f) \/ CountUp(f) \/ UploadFails(f)
      PROVE  MediaFits'
  <2>1. upload[f] \in Uploads
    BY <1>1, <1>6, UploadInFlight DEF Resolve, Placeholder, CountUp, UploadFails
  <2>2. PICK op \in {"placeholder", "put", "insert", "over"} :
          /\ upload' = [upload EXCEPT ![f].op = op]
          /\ op = "placeholder" => upload[f].op = "resolve"
          /\ op = "put" => upload[f].op \in {"resolve", "placeholder"} /\ upload[f].direct
          /\ op = "insert" => upload[f].op \in {"resolve", "placeholder"} /\ ~upload[f].direct
    BY <1>6, <2>1 DEF Resolve, Placeholder, CountUp, UploadFails, AfterResolve, Uploads
  <2> DEFINE u == [upload[f] EXCEPT !.op = op]
  <2>3. u \in Uploads /\ u.op = op /\ u.direct = upload[f].direct  BY <2>1 DEF Uploads
  <2>4. upload' = [upload EXCEPT ![f] = u]  BY <2>2
  <2> HIDE DEF u
  <2>5. upload'[f] = u  BY <1>1, <2>4 DEF MediaTypeOK
  <2>6. UploadFits(f)'  BY <1>1, <2>2, <2>3, <2>5 DEF UploadFits
  <2> QED BY <1>1, <1>2, <1>3, <1>4, <2>3, <2>4, <2>6, MoveFits
<1> QED BY <1>5, <1>6

LEMMA PutFits ==
  ASSUME MediaFits, NEW f \in Files, Put(f)
  PROVE  MediaFits'
<1> DEFINE op == IF upload[f].direct THEN "insert" ELSE "confirm"
           u == [upload[f] EXCEPT !.op = op]
<1>1. upload[f] \in Uploads /\ upload[f].op = "put" /\ MediaTypeOK
  BY UploadInFlight DEF Put, Uploading, MediaFits
<1>2. /\ u \in Uploads /\ u.direct = upload[f].direct
      /\ u.op = IF u.direct THEN "insert" ELSE "confirm"
      /\ upload' = [upload EXCEPT ![f] = u] /\ object' = object \cup {f}
      /\ UNCHANGED <<exists, mediaCount, media, removal, sweep, lost, miscounted>>
  BY <1>1 DEF Put, UploadGoto, Uploads
<1> HIDE DEF u, op
<1>3. upload'[f] = u /\ \A g \in Files \ {f} : upload'[g] = upload[g]
  BY <1>1, <1>2 DEF MediaTypeOK
<1>4. MediaTypeOK'  BY <1>1, <1>2 DEF MediaTypeOK, Uploads
<1>5. \A g \in Files : HasContent(g) => HasContent(g)'  BY <1>2 DEF HasContent
<1>6. HasContent(f)' /\ f \in object'  BY <1>2 DEF HasContent
<1>7. UploadFits(f) /\ UploadFits(f)'
  BY <1>1, <1>2, <1>3, <1>6 DEF MediaFits, UploadFits
<1>8. \A g \in Files : UploadFits(g)'
  BY <1>2, <1>3, <1>5, <1>7 DEF MediaFits, UploadFits, Listed
<1>9. \A g \in Files : FileFits(g)'  BY <1>2, <1>5 DEF MediaFits, FileFits, Listed
<1>10. SweepFits' /\ RemovalsFit'  BY <1>2 DEF MediaFits, SweepFits, RemovalsFit
<1> QED BY <1>4, <1>8, <1>9, <1>10 DEF MediaFits

LEMMA InsertFits ==
  ASSUME MediaFits, NEW f \in Files, Insert(f)
  PROVE  MediaFits'
<1> DEFINE direct == upload[f].direct
<1>1. upload[f] \in Uploads /\ upload[f].op = "insert" /\ MediaTypeOK /\ media[f] = NoFile
  BY UploadInFlight DEF Insert, Uploading, MediaFits, UploadFits
<1>2. PICK sized \in {TRUE, direct} :
        media' = [media EXCEPT ![f] =
          [state |-> "listed", on |-> upload[f].on, counted |-> direct,
           sized |-> sized, whole |-> direct]]
  BY DEF Insert
<1> DEFINE fileRow == [state |-> "listed", on |-> upload[f].on, counted |-> direct,
                   sized |-> sized, whole |-> direct]
           u == [upload[f] EXCEPT !.op = IF direct THEN "count" ELSE "put"]
<1>3. /\ fileRow \in FileRows /\ fileRow.on = upload[f].on /\ (fileRow.counted => fileRow.sized)
      /\ fileRow.whole = direct /\ fileRow.counted = direct
  BY <1>1, <1>2 DEF FileRows, Uploads
<1>4. /\ u \in Uploads /\ u.direct = direct /\ u.op = (IF direct THEN "count" ELSE "put")
      /\ u.on = upload[f].on
      /\ upload' = [upload EXCEPT ![f] = u]
  BY <1>1 DEF Insert, UploadGoto, Uploads
<1>5. media' = [media EXCEPT ![f] = fileRow]
      /\ UNCHANGED <<exists, mediaCount, object, removal, sweep, lost, miscounted>>
  BY <1>2 DEF Insert
<1> HIDE DEF fileRow, u
<1>6. /\ upload'[f] = u /\ \A g \in Files \ {f} : upload'[g] = upload[g]
      /\ media'[f] = fileRow /\ \A g \in Files \ {f} : media'[g] = media[g]
  BY <1>1, <1>4, <1>5 DEF MediaTypeOK
<1>7. MediaTypeOK'  BY <1>1, <1>3, <1>4, <1>5 DEF MediaTypeOK, Uploads, FileRows
<1>8. \A g \in Files : HasContent(g)' = HasContent(g)  BY <1>5 DEF HasContent
<1>9. direct => f \in object  BY <1>1 DEF MediaFits, UploadFits
<1>10. UploadFits(f)'  BY <1>3, <1>4, <1>6 DEF UploadFits
<1>11. \A g \in Files : UploadFits(g)'
  BY <1>5, <1>6, <1>8, <1>10 DEF MediaFits, UploadFits, Listed
<1>12. FileFits(f)'  BY <1>3, <1>5, <1>6, <1>8, <1>9 DEF FileFits, HasContent
<1>13. \A g \in Files : FileFits(g)'
  BY <1>6, <1>8, <1>12 DEF MediaFits, FileFits, Listed
<1>14. SweepFits' /\ RemovalsFit'
  <2>1. f \notin sweep.found  BY <1>1, ListedHasRow DEF MediaFits, SweepFits
  <2>2. sweep.found \subseteq Files  BY <1>1 DEF MediaTypeOK
  <2>3. SweepFits'  BY <1>5, <1>6, <2>1, <2>2 DEF MediaFits, SweepFits
  <2>4. \A r \in Removers : removal[r] # NoUpload => removal[r].file \in Files
    BY <1>1 DEF MediaTypeOK
  <2>5. RemovalsFit'  BY <1>3, <1>5, <1>6, <2>4 DEF MediaFits, RemovalsFit
  <2> QED BY <2>3, <2>5
<1> QED BY <1>7, <1>11, <1>13, <1>14 DEF MediaFits

LEMMA ConfirmFits ==
  ASSUME MediaFits, NEW f \in Files, Confirm(f)
  PROVE  MediaFits'
<1>1. /\ upload[f] \in Uploads /\ upload[f].op = "confirm" /\ MediaTypeOK
      /\ Listed(f) /\ media[f] \in FileRows /\ HasContent(f)
  BY UploadInFlight DEF Confirm, Uploading, MediaFits, UploadFits
<1>2. PICK sized \in {TRUE, media[f].sized} :
        media' = [media EXCEPT ![f].sized = sized, ![f].whole = TRUE]
  BY DEF Confirm
<1> DEFINE fileRow == [media[f] EXCEPT !.sized = sized, !.whole = TRUE]
           u == [upload[f] EXCEPT !.op = "over"]
<1>3. /\ fileRow \in FileRows /\ fileRow.on = media[f].on /\ fileRow.counted = media[f].counted
      /\ fileRow.sized = sized
  BY <1>1, <1>2 DEF FileRows
<1>4. u \in Uploads /\ u.op = "over" /\ upload' = [upload EXCEPT ![f] = u]
  BY <1>1 DEF Confirm, UploadGoto, Uploads
<1>5. media' = [media EXCEPT ![f] = fileRow]
      /\ UNCHANGED <<exists, mediaCount, object, removal, sweep, lost, miscounted>>
  BY <1>1, <1>2 DEF Confirm, MediaTypeOK
<1> HIDE DEF fileRow, u
<1>6. /\ upload'[f] = u /\ \A g \in Files \ {f} : upload'[g] = upload[g]
      /\ media'[f] = fileRow /\ \A g \in Files \ {f} : media'[g] = media[g]
  BY <1>1, <1>4, <1>5 DEF MediaTypeOK
<1>7. MediaTypeOK'  BY <1>1, <1>3, <1>4, <1>5 DEF MediaTypeOK, Uploads, FileRows
<1>8. \A g \in Files : HasContent(g)' = HasContent(g)  BY <1>5 DEF HasContent
<1>9. UploadFits(f)'  BY <1>4, <1>6 DEF UploadFits
<1>10. \A g \in Files : UploadFits(g)'
  BY <1>5, <1>6, <1>8, <1>9 DEF MediaFits, UploadFits, Listed
<1>11. FileFits(f)'
  BY <1>1, <1>2, <1>3, <1>6, <1>8 DEF MediaFits, FileFits
<1>12. \A g \in Files : FileFits(g)'
  BY <1>6, <1>8, <1>11 DEF MediaFits, FileFits, Listed
<1>13. SweepFits' /\ RemovalsFit'
  <2>1. sweep.found \subseteq Files  BY <1>1 DEF MediaTypeOK
  <2>2. SweepFits'  BY <1>3, <1>5, <1>6, <2>1 DEF MediaFits, SweepFits
  <2>3. \A r \in Removers : removal[r] # NoUpload => removal[r].file \in Files
    BY <1>1 DEF MediaTypeOK
  <2>4. RemovalsFit'  BY <1>3, <1>5, <1>6, <2>3 DEF MediaFits, RemovalsFit
  <2> QED BY <2>2, <2>4
<1> QED BY <1>7, <1>10, <1>12, <1>13 DEF MediaFits

\* Marking rows deleted, as a removal or the sweep does.
LEMMA DeletedFits ==
  ASSUME MediaFits, NEW D \in SUBSET Files, \A f \in D : media[f] \in FileRows,
         \A f \in D : media'[f] = [media[f] EXCEPT !.state = "deleted"],
         \A f \in Files \ D : media'[f] = media[f],
         media' = [f \in Files |-> media'[f]],
         UNCHANGED upload, object \subseteq object',
         \A f \in Files \ D : HasContent(f) => HasContent(f)'
  PROVE  /\ media' \in [Files -> {NoFile} \cup FileRows]
         /\ \A f \in Files : UploadFits(f)' /\ FileFits(f)'
         /\ \A f \in Files : media[f] \in FileRows =>
              media'[f] \in FileRows /\ media'[f].counted = media[f].counted
                /\ media'[f].on = media[f].on
<1>1. ASSUME NEW f \in D
      PROVE  /\ media'[f] \in FileRows /\ media'[f].state = "deleted"
             /\ media'[f].counted = media[f].counted /\ media'[f].sized = media[f].sized
             /\ media'[f].on = media[f].on
             /\ ~Listed(f)'
  BY DEF FileRows, Listed
<1>2. \A f \in Files : media[f] \in {NoFile} \cup FileRows
  BY ListedHasRow DEF MediaFits
<1>3. media' \in [Files -> {NoFile} \cup FileRows]
  <2>1. \A f \in Files : media'[f] \in {NoFile} \cup FileRows  BY <1>1, <1>2
  <2> QED BY <2>1
<1>4. ASSUME NEW f \in Files
      PROVE  UploadFits(f)' /\ FileFits(f)'
  <2>1. CASE f \in D
    <3>1. media[f] # NoFile  BY <2>1, ListedHasRow DEF MediaFits
    <3> QED BY <1>1, <2>1, <3>1 DEF MediaFits, UploadFits, FileFits
  <2>2. CASE f \notin D
    BY <2>2 DEF MediaFits, UploadFits, FileFits, Listed
  <2> QED BY <2>1, <2>2
<1>5. \A f \in Files : media[f] \in FileRows =>
        media'[f] \in FileRows /\ media'[f].counted = media[f].counted
          /\ media'[f].on = media[f].on
  BY <1>1
<1> QED BY <1>3, <1>4, <1>5

\* A removal in flight names a file.
LEMMA RemovalInFlight ==
  ASSUME MediaFits, NEW r \in Removers, removal[r].op \in {"delete", "uncount"}
  PROVE  /\ removal[r] \in [op : {"delete", "uncount"}, file : Files]
         /\ removal[r] # NoUpload
         /\ media[removal[r].file] \in FileRows /\ media[removal[r].file].on \in Targets
<1>1. removal[r] \in {NoUpload} \cup [op : {"delete", "uncount"}, file : Files]
  BY DEF MediaFits, MediaTypeOK
<1>2. removal[r] # NoUpload  BY DEF NoUpload
<1> QED BY <1>1, <1>2 DEF MediaFits, RemovalsFit, FileRows

LEMMA RemovalFits ==
  ASSUME MediaFits, NEW r \in Removers,
         (\E f \in Files : RemoveRead(r, f)) \/ RemoveMark(r) \/ RemoveUncount(r)
  PROVE  MediaFits'
<1>1. MediaTypeOK /\ UNCHANGED <<exists, object, upload, sweep, lost>>
  BY DEF MediaFits, RemoveRead, RemoveMark, RemoveUncount
<1>2. ASSUME NEW f \in Files, RemoveRead(r, f)
      PROVE  MediaFits'
  <2> DEFINE c == [op |-> "delete", file |-> f]
  <2>1. /\ removal' = [removal EXCEPT ![r] = c] /\ media[f] \in FileRows
        /\ c \in [op : {"delete", "uncount"}, file : Files] /\ c.file = f
        /\ UNCHANGED <<mediaCount, media, miscounted>>
    BY <1>1, <1>2, ListedHasRow DEF RemoveRead
  <2> HIDE DEF c
  <2>2. MediaTypeOK'  BY <1>1, <2>1 DEF MediaTypeOK
  <2>3. removal'[r] = c /\ \A o \in Removers \ {r} : removal'[o] = removal[o]
    BY <1>1, <2>1 DEF MediaTypeOK
  <2>4. RemovalsFit'  BY <2>1, <2>3 DEF MediaFits, RemovalsFit
  <2>5. /\ SweepFits'
        /\ \A g \in Files : UploadFits(g)' /\ FileFits(g)'
    BY <1>1, <2>1 DEF MediaFits, SweepFits, UploadFits, FileFits, Listed, HasContent
  <2> QED BY <2>2, <2>4, <2>5 DEF MediaFits
<1>3. CASE RemoveMark(r)
  <2> DEFINE f == removal[r].file
             c == [removal[r] EXCEPT !.op = "uncount"]
  <2>1. /\ f \in Files /\ media[f] \in FileRows /\ media[f].on \in Targets
        /\ removal[r] \in [op : {"delete", "uncount"}, file : Files]
    BY <1>3, RemovalInFlight DEF RemoveMark
  <2>2. /\ c \in [op : {"delete", "uncount"}, file : Files] /\ c.file = f
        /\ removal' = [removal EXCEPT ![r] = c]
    BY <1>3, <2>1 DEF RemoveMark
  <2> HIDE DEF c
  <2>3. /\ media' = [media EXCEPT ![f].state = "deleted"]
        /\ miscounted' \subseteq miscounted \cup {media[f].on}
        /\ UNCHANGED mediaCount
    BY <1>3 DEF RemoveMark
  <2> HIDE DEF f
  <2>4. /\ media'[f] = [media[f] EXCEPT !.state = "deleted"]
        /\ \A g \in Files \ {f} : media'[g] = media[g]
        /\ media' = [g \in Files |-> media'[g]]
    BY <1>1, <2>1, <2>3 DEF MediaTypeOK
  <2>5. \A g \in Files : HasContent(g)' = HasContent(g)  BY <1>1 DEF HasContent
  <2>6. /\ media' \in [Files -> {NoFile} \cup FileRows]
        /\ \A g \in Files : UploadFits(g)' /\ FileFits(g)'
        /\ \A g \in Files : media[g] \in FileRows =>
             media'[g] \in FileRows /\ media'[g].counted = media[g].counted
               /\ media'[g].on = media[g].on
    <3>1. {f} \in SUBSET Files  BY <2>1
    <3> QED BY <1>1, <2>1, <2>4, <2>5, <3>1, DeletedFits
  <2>7. MediaTypeOK'
    BY <1>1, <2>1, <2>2, <2>3, <2>6 DEF MediaTypeOK, FileRows
  <2>8. sweep.found \subseteq Files  BY <1>1 DEF MediaTypeOK
  <2>9. SweepFits'  BY <1>1, <2>6, <2>8 DEF MediaFits, SweepFits
  <2>10. RemovalsFit'
    <3>1. removal'[r] = c /\ \A o \in Removers \ {r} : removal'[o] = removal[o]
      BY <1>1, <2>2 DEF MediaTypeOK
    <3>2. \A o \in Removers : removal[o] # NoUpload => removal[o].file \in Files
      BY <1>1 DEF MediaTypeOK
    <3> QED BY <2>1, <2>2, <2>6, <3>1, <3>2 DEF MediaFits, RemovalsFit
  <2> QED BY <2>6, <2>7, <2>9, <2>10 DEF MediaFits
<1>4. CASE RemoveUncount(r)
  <2>1. media[removal[r].file].on \in Targets
    BY <1>4, RemovalInFlight DEF RemoveUncount
  <2>2. /\ removal' = [removal EXCEPT ![r] = NoUpload] /\ UNCHANGED <<media, miscounted>>
        /\ mediaCount' \in [Targets -> Int]
    BY <1>1, <1>4, <2>1 DEF RemoveUncount, MediaTypeOK
  <2>3. MediaTypeOK'  BY <1>1, <2>2 DEF MediaTypeOK
  <2>4. RemovalsFit'  BY <1>1, <2>2 DEF MediaFits, MediaTypeOK, RemovalsFit
  <2>5. /\ SweepFits'
        /\ \A g \in Files : UploadFits(g)' /\ FileFits(g)'
    BY <1>1, <2>2 DEF MediaFits, SweepFits, UploadFits, FileFits, Listed, HasContent
  <2> QED BY <2>3, <2>4, <2>5 DEF MediaFits
<1> QED BY <1>2, <1>3, <1>4

LEMMA FormFits ==
  ASSUME MediaFits, NEW t \in Targets, NEW shown \in 0 .. Cardinality(Files), SaveForm(t, shown)
  PROVE  MediaFits'
<1>1. UNCHANGED <<media, object, upload, removal, sweep, lost>>  BY DEF SaveForm
<1>2. shown \in Int  BY MediaAssumption, FS_CardinalityType
<1>3. MediaTypeOK'  BY <1>1, <1>2 DEF SaveForm, MediaFits, MediaTypeOK
<1> QED BY <1>1, <1>3
      DEF MediaFits, SweepFits, RemovalsFit, UploadFits, FileFits, Listed, HasContent

LEMMA SweepKeepsFits ==
  ASSUME MediaFits, SweepRead \/ (\E f \in Files : SweepObject(f)) \/ SweepRows \/ SweepFails
  PROVE  MediaFits'
<1>1. MediaTypeOK /\ UNCHANGED <<exists, mediaCount, upload, removal, miscounted>>
      /\ sweep.found \subseteq Files
  BY DEF MediaFits, MediaTypeOK, SweepRead, SweepObject, SweepRows, SweepFails
<1>2. CASE SweepRead
  <2>1. PICK old \in SUBSET {f \in Files : Listed(f) /\ ~media[f].sized} :
          sweep' = [found |-> old, left |-> old]
    BY <1>2 DEF SweepRead
  <2>2. UNCHANGED <<media, object, lost>> /\ sweep = NoSweep  BY <1>2 DEF SweepRead
  <2>3. MediaTypeOK'  BY <1>1, <2>1, <2>2 DEF MediaTypeOK
  <2>4. \A f \in Files : HasContent(f) => HasContent(f)'
    BY <2>2 DEF HasContent, NoSweep
  <2>5. \A f \in Files : UploadFits(f)' /\ FileFits(f)'
    BY <1>1, <2>2, <2>4 DEF MediaFits, UploadFits, FileFits, Listed
  <2>6. SweepFits'
    <3>1. \A f \in old : f \in Files /\ media[f] \in FileRows /\ ~media[f].sized
      BY <1>1, <2>1, ListedHasRow
    <3>2. \A f \in old : ~media[f].counted  BY <3>1 DEF MediaFits, FileFits
    <3> QED BY <2>1, <2>2, <3>1, <3>2 DEF SweepFits
  <2>7. RemovalsFit'  BY <1>1, <2>2 DEF MediaFits, RemovalsFit
  <2> QED BY <2>3, <2>5, <2>6, <2>7 DEF MediaFits
<1>3. ASSUME NEW x \in Files, SweepObject(x) PROVE MediaFits'
  <2>1. /\ object' \in {object, object \ {x}} /\ x \in sweep.left /\ UNCHANGED <<media, lost>>
        /\ sweep'.found = sweep.found /\ sweep'.left = sweep.left \ {x} /\ MediaTypeOK'
    BY <1>1, <1>3 DEF SweepObject, MediaTypeOK
  <2>2. x \in sweep.found /\ media[x] # NoFile
    BY <1>1, <2>1, ListedHasRow DEF MediaFits, SweepFits
  <2>3. \A f \in Files : HasContent(f) => HasContent(f)'
    BY <2>1, <2>2 DEF HasContent
  <2>4. ASSUME NEW f \in Files PROVE UploadFits(f)' /\ FileFits(f)'
    <3>1. FileFits(f)'  BY <2>1, <2>3 DEF MediaFits, FileFits, Listed
    <3>2. media[f] = NoFile => (f \in object => f \in object')
      BY <2>1, <2>2
    <3>3. UploadFits(f)'
      BY <1>1, <2>1, <2>3, <3>2 DEF MediaFits, UploadFits, Listed
    <3> QED BY <3>1, <3>3
  <2>5. SweepFits' /\ RemovalsFit'
    BY <1>1, <2>1 DEF MediaFits, SweepFits, RemovalsFit
  <2> QED BY <2>1, <2>4, <2>5 DEF MediaFits
<1>4. CASE SweepRows
  <2>1. /\ media' = [f \in Files |-> IF f \in sweep.found
                        THEN [media[f] EXCEPT !.state = "deleted"] ELSE media[f]]
        /\ sweep' = NoSweep /\ UNCHANGED <<object, lost>>
    BY <1>4 DEF SweepRows
  <2>2. \A f \in sweep.found : media'[f] = [media[f] EXCEPT !.state = "deleted"]
    BY <1>1, <2>1
  <2>3. \A f \in Files \ sweep.found : media'[f] = media[f]  BY <2>1
  <2>4. media' = [f \in Files |-> media'[f]]
    <3> DEFINE next(f) == IF f \in sweep.found
                          THEN [media[f] EXCEPT !.state = "deleted"] ELSE media[f]
    <3>1. media' = [f \in Files |-> next(f)]  BY <2>1
    <3> HIDE DEF next
    <3> QED BY <3>1
  <2>5. \A f \in Files \ sweep.found : HasContent(f) => HasContent(f)'
    BY <2>1 DEF HasContent
  <2>6. /\ media' \in [Files -> {NoFile} \cup FileRows]
        /\ \A f \in Files : UploadFits(f)' /\ FileFits(f)'
        /\ \A f \in Files : media[f] \in FileRows =>
             media'[f] \in FileRows /\ media'[f].counted = media[f].counted
               /\ media'[f].on = media[f].on
    <3>1. \A f \in sweep.found : media[f] \in FileRows  BY DEF MediaFits, SweepFits
    <3> QED BY <1>1, <2>1, <2>2, <2>3, <2>4, <2>5, <3>1, DeletedFits
  <2>7. MediaTypeOK'  BY <1>1, <2>1, <2>6 DEF MediaTypeOK, FileRows, NoSweep
  <2>8. SweepFits'  BY <2>1 DEF SweepFits, NoSweep
  <2>9. RemovalsFit'
    <3>1. \A o \in Removers : removal[o] # NoUpload => removal[o].file \in Files
      BY <1>1 DEF MediaTypeOK
    <3> QED BY <1>1, <2>6, <3>1 DEF MediaFits, RemovalsFit
  <2> QED BY <2>6, <2>7, <2>8, <2>9 DEF MediaFits
<1>5. CASE SweepFails
  <2>1. /\ UNCHANGED <<media, object>> /\ sweep' = NoSweep
        /\ lost' = lost \cup (sweep.found \ sweep.left)
    BY <1>5 DEF SweepFails
  <2>2. MediaTypeOK'  BY <1>1, <2>1 DEF MediaTypeOK, NoSweep
  <2>3. \A f \in Files : HasContent(f) => HasContent(f)'
    BY <2>1 DEF HasContent
  <2>4. \A f \in Files : UploadFits(f)' /\ FileFits(f)'
    BY <1>1, <2>1, <2>3 DEF MediaFits, UploadFits, FileFits, Listed
  <2>5. SweepFits' /\ RemovalsFit'
    BY <1>1, <2>1 DEF MediaFits, SweepFits, RemovalsFit, NoSweep
  <2> QED BY <2>2, <2>4, <2>5 DEF MediaFits
<1> QED BY <1>2, <1>3, <1>4, <1>5

LEMMA MediaStarts == MediaInit => MediaFits
BY DEF MediaInit, MediaFits, MediaTypeOK, SweepFits, RemovalsFit, UploadFits, FileFits,
       NoUpload, NoFile, NoSweep, FileRows

LEMMA MediaKeepsFits ==
  ASSUME MediaFits, [MediaNext]_mediaVars
  PROVE  MediaFits'
<1>1. CASE UNCHANGED mediaVars
  BY <1>1 DEF mediaVars, MediaFits, MediaTypeOK, SweepFits, RemovalsFit, UploadFits,
              FileFits, Listed, HasContent
<1> QED
  BY <1>1, UploadMovesFit, PutFits, InsertFits, ConfirmFits, RemovalFits, FormFits,
     SweepKeepsFits DEF MediaNext

(* A photo on view whose upload was completed can be opened, or is about to go *)
(* from view with the sweep that took its object, or a sweep that took it was  *)
(* broken off: for any files, answers and users, wherever uploads and sweeps   *)
(* stop and removals overlap them.                                             *)
THEOREM PhotosOpen == MediaSpec => []ListedHasContent
<1>1. MediaInit => MediaFits  BY MediaStarts
<1>2. MediaFits /\ [MediaNext]_mediaVars => MediaFits'  BY MediaKeepsFits
<1>3. MediaFits => ListedHasContent
  BY ListedHasRow DEF MediaFits, FileFits, HasContent, ListedHasContent
<1> QED BY <1>1, <1>2, <1>3, PTL DEF MediaSpec

(* The media tables keep their types.                                          *)
THEOREM MediaTyping == MediaSpec => []MediaTypeOK
<1>1. MediaInit => MediaFits  BY MediaStarts
<1>2. MediaFits /\ [MediaNext]_mediaVars => MediaFits'  BY MediaKeepsFits
<1>3. MediaFits => MediaTypeOK  BY DEF MediaFits
<1> QED BY <1>1, <1>2, <1>3, PTL DEF MediaSpec

------------------------------------------------------------------------------
(* Counting photos: those on view, those whose upload has still to count them, *)
(* and the removals that have still to count theirs out.                       *)

OnView(t) == {f \in Files : Listed(f) /\ media[f].counted /\ media[f].on = t}
Pending(t) == {f \in Files : Uploading(f, "count") /\ media[f].on = t}
Leaving(t) ==
  {r \in Removers : removal[r].op = "uncount" /\ media[removal[r].file].on = t}

CountFits(t) ==
  mediaCount[t] =
    Cardinality(OnView(t)) - Cardinality(Pending(t)) + Cardinality(Leaving(t))

MediaSound == MediaFits /\ \A t \in Targets \ miscounted : CountFits(t)

LEMMA PhotosFinite ==
  ASSUME NEW t
  PROVE  /\ IsFiniteSet(OnView(t)) /\ Cardinality(OnView(t)) \in Nat
         /\ IsFiniteSet(Pending(t)) /\ Cardinality(Pending(t)) \in Nat
         /\ IsFiniteSet(Leaving(t)) /\ Cardinality(Leaving(t)) \in Nat
<1>1. OnView(t) \in SUBSET Files /\ Pending(t) \in SUBSET Files /\ Leaving(t) \in SUBSET Removers
  BY DEF OnView, Pending, Leaving
<1> QED BY <1>1, MediaAssumption, FS_Subset, FS_CardinalityType

\* Steps that change no set of an answer that is still counted on.
LEMMA CountRests ==
  ASSUME MediaSound, NEW t \in Targets \ miscounted, mediaCount'[t] = mediaCount[t],
         OnView(t)' = OnView(t), Pending(t)' = Pending(t), Leaving(t)' = Leaving(t)
  PROVE  CountFits(t)'
BY DEF MediaSound, CountFits

\* The files of removals have rows, and uploads that have none are not counted.
LEMMA QuietFilesKeepSets ==
  ASSUME MediaFits, NEW t \in Targets,
         \A f \in Files : media[f] \in FileRows =>
           /\ media'[f] \in FileRows /\ media'[f].on = media[f].on
           /\ media'[f].counted = media[f].counted
           /\ media[f].counted => media'[f].state = media[f].state,
         \A f \in Files : ~(media[f] \in FileRows) /\ Listed(f)' => ~media'[f].counted
  PROVE  /\ OnView(t)' = OnView(t)
         /\ (\A f \in Files : Uploading(f, "count")' = Uploading(f, "count")) =>
              Pending(t)' = Pending(t)
         /\ UNCHANGED removal => Leaving(t)' = Leaving(t)
<1>1. \A f \in Files : media[f] \in FileRows \/ ~Listed(f)  BY ListedHasRow DEF MediaFits
<1>2. OnView(t)' = OnView(t)
  <2>1. ASSUME NEW f \in Files
        PROVE  f \in OnView(t)' <=> f \in OnView(t)
    <3>1. CASE media[f] \in FileRows
      BY <3>1 DEF OnView, Listed, FileRows
    <3>2. CASE ~(media[f] \in FileRows)  BY <1>1, <3>2 DEF OnView
    <3> QED BY <3>1, <3>2
  <2> QED BY <2>1 DEF OnView
<1>3. ASSUME \A f \in Files : Uploading(f, "count")' = Uploading(f, "count")
      PROVE  Pending(t)' = Pending(t)
  <2>1. \A f \in Files : Uploading(f, "count") => media[f] \in FileRows
    BY DEF MediaFits, UploadFits, Uploading
  <2> QED BY <1>3, <2>1 DEF Pending
<1>4. ASSUME UNCHANGED removal
      PROVE  Leaving(t)' = Leaving(t)
  <2>1. \A r \in Removers : removal[r].op = "uncount" =>
          removal[r].file \in Files /\ media[removal[r].file] \in FileRows
    BY RemovalInFlight
  <2> QED BY <1>4, <2>1 DEF Leaving
<1> QED BY <1>2, <1>3, <1>4

LEMMA UploadsKeepCount ==
  ASSUME MediaSound, NEW f \in Files, NEW t \in Targets \ miscounted', miscounted \subseteq miscounted',
         \/ \E u \in Targets, direct \in BOOLEAN : StartUpload(f, u, direct)
         \/ Resolve(f) \/ Placeholder(f) \/ Put(f) \/ UploadFails(f) \/ Confirm(f)
  PROVE  CountFits(t)'
<1> USE DEF UploadGoto
<1>1. MediaFits /\ MediaTypeOK /\ t \in Targets \ miscounted /\ UploadFits(f)
      /\ UNCHANGED <<mediaCount, removal>>
  BY DEF MediaSound, MediaFits, StartUpload, Resolve, Placeholder, Put, UploadFails, Confirm
<1>2. \A g \in Files \ {f} : upload'[g] = upload[g]
  BY <1>1 DEF MediaTypeOK, StartUpload, Resolve, Placeholder, Put, UploadFails, Confirm
<1>3. upload'[f].op # "count"
  <2>1. ASSUME NEW u \in Targets, NEW direct \in BOOLEAN, StartUpload(f, u, direct)
        PROVE  upload'[f].op # "count"
    BY <1>1, <2>1 DEF MediaTypeOK, StartUpload
  <2>2. ASSUME Resolve(f) \/ Placeholder(f) \/ Put(f) \/ UploadFails(f) \/ Confirm(f)
        PROVE  upload'[f].op # "count"
    <3>1. upload[f] \in Uploads
      BY <1>1, <2>2, UploadInFlight
         DEF Resolve, Placeholder, Put, UploadFails, Confirm, Uploading
    <3>2. PICK op \in {"placeholder", "put", "insert", "confirm", "over"} :
            upload' = [upload EXCEPT ![f].op = op]
      BY <2>2 DEF Resolve, Placeholder, Put, UploadFails, Confirm, AfterResolve
    <3> QED BY <1>1, <3>1, <3>2 DEF MediaTypeOK, Uploads
  <2> QED BY <2>1, <2>2
<1>4. CASE UNCHANGED media
  <2>1. OnView(t)' = OnView(t)  BY <1>4 DEF OnView, Listed
  <2>2. Leaving(t)' = Leaving(t)  BY <1>1, <1>4 DEF Leaving
  <2>3. f \notin Pending(t)
    <3>1. CASE upload[f].op = "count"
      <4>1. UploadFails(f)
        BY <3>1 DEF StartUpload, Resolve, Placeholder, Put, UploadFails, Confirm, Uploading
      <4>2. upload[f].on \in miscounted'  BY <3>1, <4>1 DEF UploadFails, Uploading
      <4> QED BY <1>1, <3>1, <4>2 DEF Pending, UploadFits
    <3>2. CASE upload[f].op # "count"  BY <3>2 DEF Pending, Uploading
    <3> QED BY <3>1, <3>2
  <2>4. Pending(t)' = Pending(t)  BY <1>2, <1>3, <1>4, <2>3 DEF Pending, Uploading
  <2> QED BY <1>1, <2>1, <2>2, <2>4, CountRests
<1>5. CASE Confirm(f)
  <2>1. upload[f].op = "confirm" /\ media[f] \in FileRows
    BY <1>1, <1>5 DEF Confirm, Uploading, UploadFits
  <2>2. PICK sized \in {TRUE, media[f].sized} :
          media' = [media EXCEPT ![f].sized = sized, ![f].whole = TRUE]
    BY <1>5 DEF Confirm
  <2> DEFINE fileRow == [media[f] EXCEPT !.sized = sized, !.whole = TRUE]
  <2>3. /\ fileRow \in FileRows /\ fileRow.on = media[f].on /\ fileRow.counted = media[f].counted
        /\ fileRow.state = media[f].state
    BY <2>1, <2>2 DEF FileRows
  <2>4. media'[f] = fileRow /\ \A g \in Files \ {f} : media'[g] = media[g]
    BY <1>1, <2>2 DEF MediaTypeOK
  <2> HIDE DEF fileRow
  <2>5. \A g \in Files : Uploading(g, "count")' = Uploading(g, "count")
    BY <1>2, <1>3, <2>1 DEF Uploading
  <2>6. \A g \in Files : media[g] \in FileRows =>
          /\ media'[g] \in FileRows /\ media'[g].on = media[g].on
          /\ media'[g].counted = media[g].counted /\ media'[g].state = media[g].state
    BY <2>3, <2>4
  <2>7. \A g \in Files : ~(media[g] \in FileRows) /\ Listed(g)' => ~media'[g].counted
    <3>1. \A g \in Files : ~(media[g] \in FileRows) => ~Listed(g)  BY <1>1, ListedHasRow
    <3> QED BY <2>1, <2>4, <3>1 DEF Listed
  <2>8. /\ OnView(t)' = OnView(t) /\ Pending(t)' = Pending(t) /\ Leaving(t)' = Leaving(t)
    BY <1>1, <2>5, <2>6, <2>7, QuietFilesKeepSets
  <2> QED BY <1>1, <2>8, CountRests
<1> QED BY <1>4, <1>5 DEF StartUpload, Resolve, Placeholder, Put, UploadFails

\* A direct upload puts its photo on view and still has to count it.
LEMMA InsertKeepsCount ==
  ASSUME MediaSound, NEW f \in Files, NEW t \in Targets \ miscounted', Insert(f)
  PROVE  CountFits(t)'
<1>1. /\ MediaFits /\ MediaTypeOK /\ upload[f] \in Uploads /\ upload[f].op = "insert"
      /\ media[f] = NoFile /\ t \in Targets \ miscounted
      /\ UNCHANGED <<mediaCount, removal, miscounted>>
  BY UploadInFlight DEF MediaSound, MediaFits, Insert, Uploading, UploadFits
<1> DEFINE direct == upload[f].direct
<1>2. PICK sized \in {TRUE, direct} :
        media' = [media EXCEPT ![f] =
          [state |-> "listed", on |-> upload[f].on, counted |-> direct,
           sized |-> sized, whole |-> direct]]
  BY DEF Insert
<1>3. /\ media'[f].state = "listed" /\ media'[f].on = upload[f].on
      /\ media'[f].counted = direct /\ \A g \in Files \ {f} : media'[g] = media[g]
  BY <1>1, <1>2 DEF MediaTypeOK
<1>4. /\ upload'[f].op = (IF direct THEN "count" ELSE "put")
      /\ \A g \in Files \ {f} : upload'[g] = upload[g]
  BY <1>1 DEF Insert, UploadGoto, MediaTypeOK, Uploads
<1>5. Leaving(t)' = Leaving(t)
  <2>1. \A r \in Removers : removal[r].op = "uncount" =>
          removal[r].file \in Files /\ media[removal[r].file] \in FileRows
    BY <1>1, RemovalInFlight
  <2>2. ~(media[f] \in FileRows)  BY <1>1, ListedHasRow
  <2> QED BY <1>1, <1>3, <2>1, <2>2 DEF Leaving
<1>6. f \notin OnView(t) /\ f \notin Pending(t)
  BY <1>1 DEF OnView, Pending, Listed, NoFile, Uploading
<1>7. CASE direct /\ upload[f].on = t
  <2>1. OnView(t)' = OnView(t) \cup {f}  BY <1>3, <1>7 DEF OnView, Listed
  <2>2. Pending(t)' = Pending(t) \cup {f}
    BY <1>3, <1>4, <1>7 DEF Pending, Uploading
  <2>3. /\ Cardinality(OnView(t)') = Cardinality(OnView(t)) + 1
        /\ Cardinality(Pending(t)') = Cardinality(Pending(t)) + 1
    BY <1>6, <2>1, <2>2, PhotosFinite, FS_AddElement
  <2>4. CountFits(t)  BY <1>1 DEF MediaSound
  <2>5. Cardinality(Leaving(t)') = Cardinality(Leaving(t)) /\ mediaCount'[t] = mediaCount[t]
    BY <1>1, <1>5
  <2>6. mediaCount'[t] = Cardinality(OnView(t)') - Cardinality(Pending(t)') + Cardinality(Leaving(t)')
    BY <2>3, <2>4, <2>5, PhotosFinite DEF CountFits
  <2> QED BY <2>6 DEF CountFits
<1>8. CASE ~(direct /\ upload[f].on = t)
  <2>1. OnView(t)' = OnView(t)  BY <1>3, <1>6, <1>8 DEF OnView, Listed
  <2>2. Pending(t)' = Pending(t)  BY <1>3, <1>4, <1>6, <1>8 DEF Pending, Uploading
  <2> QED BY <1>1, <1>5, <2>1, <2>2, CountRests
<1> QED BY <1>7, <1>8

LEMMA CountUpKeepsCount ==
  ASSUME MediaSound, NEW f \in Files, NEW t \in Targets \ miscounted', CountUp(f)
  PROVE  CountFits(t)'
<1>1. /\ MediaFits /\ MediaTypeOK /\ upload[f] \in Uploads /\ upload[f].op = "count"
      /\ media[f].on = upload[f].on /\ t \in Targets \ miscounted
      /\ UNCHANGED <<media, removal, miscounted>>
      /\ mediaCount' = [mediaCount EXCEPT ![upload[f].on] = @ + 1]
  BY UploadInFlight DEF MediaSound, MediaFits, CountUp, Uploading, UploadFits
<1>2. upload'[f].op = "over" /\ \A g \in Files \ {f} : upload'[g] = upload[g]
  BY <1>1 DEF CountUp, UploadGoto, MediaTypeOK, Uploads
<1>3. OnView(t)' = OnView(t) /\ Leaving(t)' = Leaving(t)
  BY <1>1 DEF OnView, Leaving, Listed
<1>4. CASE upload[f].on = t
  <2>1. Pending(t)' = Pending(t) \ {f} /\ f \in Pending(t)
    BY <1>1, <1>2, <1>4 DEF Pending, Uploading
  <2>2. Cardinality(Pending(t)') = Cardinality(Pending(t)) - 1
    BY <2>1, PhotosFinite, FS_RemoveElement
  <2>3. mediaCount'[t] = mediaCount[t] + 1 /\ mediaCount[t] \in Int
    BY <1>1, <1>4 DEF MediaTypeOK
  <2>4. CountFits(t)  BY <1>1 DEF MediaSound
  <2>5. mediaCount'[t] = Cardinality(OnView(t)') - Cardinality(Pending(t)') + Cardinality(Leaving(t)')
    BY <1>3, <2>2, <2>3, <2>4, PhotosFinite DEF CountFits
  <2> QED BY <2>5 DEF CountFits
<1>5. CASE upload[f].on # t
  <2>1. Pending(t)' = Pending(t)  BY <1>1, <1>2, <1>5 DEF Pending, Uploading
  <2>2. mediaCount'[t] = mediaCount[t]  BY <1>1, <1>5 DEF MediaTypeOK
  <2> QED BY <1>1, <1>3, <2>1, <2>2, CountRests
<1> QED BY <1>4, <1>5

\* A counted photo goes from view and to those whose removal has to count it.
LEMMA RemoveMarkKeepsCount ==
  ASSUME MediaSound, NEW r \in Removers, NEW t \in Targets \ miscounted', RemoveMark(r)
  PROVE  CountFits(t)'
<1> DEFINE f == removal[r].file
<1>1. /\ MediaFits /\ MediaTypeOK /\ removal[r].op = "delete"
      /\ f \in Files /\ media[f] \in FileRows
      /\ removal[r] \in [op : {"delete", "uncount"}, file : Files]
  BY RemovalInFlight DEF MediaSound, MediaFits, RemoveMark
<1>2. /\ media' = [media EXCEPT ![f].state = "deleted"]
      /\ miscounted' = IF Listed(f) /\ media[f].counted THEN miscounted
                       ELSE miscounted \cup {media[f].on}
      /\ UNCHANGED <<mediaCount, upload>>
      /\ removal' = [removal EXCEPT ![r].op = "uncount"]
  BY DEF RemoveMark
<1>3. /\ removal'[r].op = "uncount" /\ removal'[r].file = f
      /\ \A o \in Removers \ {r} : removal'[o] = removal[o]
  BY <1>1, <1>2 DEF MediaTypeOK
<1> HIDE DEF f
<1>4. /\ media'[f] = [media[f] EXCEPT !.state = "deleted"]
      /\ \A g \in Files \ {f} : media'[g] = media[g]
  BY <1>1, <1>2 DEF MediaTypeOK
<1>5. /\ media'[f].state = "deleted" /\ media'[f].on = media[f].on
      /\ \A g \in Files : media'[g].on = media[g].on
  <2>1. [media[f] EXCEPT !.state = "deleted"].state = "deleted"
        /\ [media[f] EXCEPT !.state = "deleted"].on = media[f].on
    BY <1>1 DEF FileRows
  <2>2. media'[f].state = "deleted" /\ media'[f].on = media[f].on  BY <1>4, <2>1
  <2>3. ASSUME NEW g \in Files
        PROVE  media'[g].on = media[g].on
    BY <1>4, <2>2
  <2> QED BY <2>2, <2>3
<1>6. t \in Targets \ miscounted  BY <1>2
<1>7. Pending(t)' = Pending(t)
  BY <1>2, <1>4, <1>5 DEF Pending, Uploading
<1>8. \A o \in Removers : removal[o].op = "uncount" => removal[o].file \in Files
  BY <1>1, RemovalInFlight
<1>9. CASE media[f].on = t
  <2>1. Listed(f) /\ media[f].counted  BY <1>2, <1>9
  <2>2. OnView(t)' = OnView(t) \ {f} /\ f \in OnView(t)
    <3>1. f \in OnView(t)  BY <1>1, <1>9, <2>1 DEF OnView
    <3>2. f \notin OnView(t)'  BY <1>5 DEF OnView, Listed
    <3>3. ASSUME NEW g \in Files \ {f}
          PROVE  g \in OnView(t)' <=> g \in OnView(t)
      BY <1>4, <3>3 DEF OnView, Listed
    <3>4. OnView(t) \subseteq Files /\ OnView(t)' \subseteq Files  BY DEF OnView
    <3> QED BY <3>1, <3>2, <3>3, <3>4
  <2>3. Leaving(t)' = Leaving(t) \cup {r} /\ r \notin Leaving(t)
    BY <1>1, <1>3, <1>4, <1>5, <1>8, <1>9 DEF Leaving
  <2>4. /\ Cardinality(OnView(t)') = Cardinality(OnView(t)) - 1
        /\ Cardinality(Leaving(t)') = Cardinality(Leaving(t)) + 1
    <3>1. IsFiniteSet(OnView(t)) /\ IsFiniteSet(Leaving(t))  BY PhotosFinite
    <3>2. Cardinality(OnView(t) \ {f}) = Cardinality(OnView(t)) - 1
      BY ONLY <2>2, <3>1, FS_RemoveElement
    <3>3. Cardinality(Leaving(t) \cup {r}) = Cardinality(Leaving(t)) + 1
      BY ONLY <2>3, <3>1, FS_AddElement
    <3> QED BY <2>2, <2>3, <3>2, <3>3
  <2>5. CountFits(t)  BY <1>6 DEF MediaSound
  <2>6. mediaCount'[t] = Cardinality(OnView(t)') - Cardinality(Pending(t)') + Cardinality(Leaving(t)')
    BY <1>2, <1>7, <2>4, <2>5, PhotosFinite DEF CountFits
  <2> QED BY <2>6 DEF CountFits
<1>10. CASE media[f].on # t
  <2>1. OnView(t)' = OnView(t)  BY <1>4, <1>5, <1>10 DEF OnView, Listed
  <2>2. Leaving(t)' = Leaving(t)
    BY <1>1, <1>3, <1>4, <1>5, <1>8, <1>10 DEF Leaving
  <2> QED BY <1>2, <1>6, <1>7, <2>1, <2>2, CountRests
<1> QED BY <1>9, <1>10

LEMMA RemoveUncountKeepsCount ==
  ASSUME MediaSound, NEW r \in Removers, NEW t \in Targets \ miscounted', RemoveUncount(r)
  PROVE  CountFits(t)'
<1> DEFINE on == media[removal[r].file].on
<1>1. /\ MediaFits /\ MediaTypeOK /\ removal[r].op = "uncount" /\ on \in Targets
      /\ UNCHANGED <<media, upload, miscounted>> /\ t \in Targets \ miscounted
  BY RemovalInFlight DEF MediaSound, MediaFits, RemoveUncount
<1>2. /\ mediaCount' = [mediaCount EXCEPT ![on] = @ - 1]
      /\ removal' = [removal EXCEPT ![r] = NoUpload]
  BY DEF RemoveUncount
<1>3. r \in Leaving(t) <=> on = t  BY <1>1 DEF Leaving
<1> HIDE DEF on
<1>4. removal'[r].op = "idle" /\ \A o \in Removers \ {r} : removal'[o] = removal[o]
  BY <1>1, <1>2 DEF MediaTypeOK, NoUpload
<1>5. OnView(t)' = OnView(t) /\ Pending(t)' = Pending(t)
  BY <1>1 DEF OnView, Pending, Listed, Uploading
<1>6. Leaving(t)' = Leaving(t) \ {r}  BY <1>1, <1>4 DEF Leaving
<1>7. CASE on = t
  <2>1. Cardinality(Leaving(t)') = Cardinality(Leaving(t)) - 1
    BY <1>3, <1>6, <1>7, PhotosFinite, FS_RemoveElement
  <2>2. mediaCount'[t] = mediaCount[t] - 1 /\ mediaCount[t] \in Int
    BY <1>1, <1>2, <1>7 DEF MediaTypeOK
  <2>3. CountFits(t)  BY <1>1 DEF MediaSound
  <2>4. mediaCount'[t] = Cardinality(OnView(t)') - Cardinality(Pending(t)') + Cardinality(Leaving(t)')
    BY <1>5, <2>1, <2>2, <2>3, PhotosFinite DEF CountFits
  <2> QED BY <2>4 DEF CountFits
<1>8. CASE on # t
  <2>1. Leaving(t)' = Leaving(t)  BY <1>3, <1>6, <1>8
  <2>2. mediaCount'[t] = mediaCount[t]  BY <1>1, <1>2, <1>8 DEF MediaTypeOK
  <2> QED BY <1>1, <1>5, <2>1, <2>2, CountRests
<1> QED BY <1>7, <1>8

\* Forms, the sweep, and a removal that only reads.
LEMMA OthersKeepCount ==
  ASSUME MediaSound, NEW t \in Targets \ miscounted',
         \/ \E u \in Targets, shown \in 0 .. Cardinality(Files) : SaveForm(u, shown)
         \/ SweepRead \/ (\E f \in Files : SweepObject(f)) \/ SweepRows \/ SweepFails
         \/ \E r \in Removers, f \in Files : RemoveRead(r, f)
  PROVE  CountFits(t)'
<1>1. MediaFits /\ MediaTypeOK /\ UNCHANGED upload
  BY DEF MediaSound, MediaFits, SaveForm, SweepRead, SweepObject, SweepRows, SweepFails, RemoveRead
<1>2. t \in Targets \ miscounted /\ mediaCount'[t] = mediaCount[t]
  BY <1>1 DEF MediaTypeOK, SaveForm, SweepRead, SweepObject, SweepRows, SweepFails, RemoveRead
<1>3. CASE SweepRows
  <2>1. media' = [f \in Files |-> IF f \in sweep.found
                    THEN [media[f] EXCEPT !.state = "deleted"] ELSE media[f]]
    BY <1>3 DEF SweepRows
  <2>2. ASSUME NEW f \in Files, media[f] \in FileRows
        PROVE  /\ media'[f] \in FileRows /\ media'[f].on = media[f].on
               /\ media'[f].counted = media[f].counted
               /\ media[f].counted => media'[f].state = media[f].state
    <3>1. CASE f \in sweep.found
      <4>1. media'[f] = [media[f] EXCEPT !.state = "deleted"]  BY <2>1, <3>1
      <4>2. ~media[f].counted  BY <1>1, <3>1 DEF MediaFits, SweepFits
      <4> QED BY <2>2, <4>1, <4>2 DEF FileRows
    <3>2. CASE f \notin sweep.found  BY <2>1, <2>2, <3>2
    <3> QED BY <3>1, <3>2
  <2>3. \A f \in Files : ~(media[f] \in FileRows) => media'[f] = media[f]
    BY <1>1, <2>1 DEF MediaFits, SweepFits
  <2>4. \A f \in Files : ~(media[f] \in FileRows) => ~Listed(f)'
    BY <1>1, <2>3, ListedHasRow DEF Listed
  <2>5. \A f \in Files : Uploading(f, "count")' = Uploading(f, "count")  BY <1>1 DEF Uploading
  <2>6. UNCHANGED removal  BY <1>3 DEF SweepRows
  <2>7. OnView(t)' = OnView(t) /\ Pending(t)' = Pending(t) /\ Leaving(t)' = Leaving(t)
    BY <1>1, <2>2, <2>4, <2>5, <2>6, QuietFilesKeepSets
  <2> QED BY <1>2, <2>7, CountRests
<1>4. ASSUME NEW r \in Removers, NEW f \in Files, RemoveRead(r, f)
      PROVE  CountFits(t)'
  <2>1. /\ removal[r] = NoUpload /\ UNCHANGED media
        /\ removal'[r].op = "delete" /\ \A o \in Removers \ {r} : removal'[o] = removal[o]
    BY <1>1, <1>4 DEF RemoveRead, MediaTypeOK
  <2>2. OnView(t)' = OnView(t) /\ Pending(t)' = Pending(t)
    BY <1>1, <2>1 DEF OnView, Pending, Listed, Uploading
  <2>3. Leaving(t)' = Leaving(t)  BY <2>1 DEF Leaving, NoUpload
  <2> QED BY <1>2, <2>2, <2>3, CountRests
<1>5. CASE UNCHANGED <<media, removal>>
  <2>1. OnView(t)' = OnView(t) /\ Pending(t)' = Pending(t) /\ Leaving(t)' = Leaving(t)
    BY <1>1, <1>5 DEF OnView, Pending, Leaving, Listed, Uploading
  <2> QED BY <1>2, <2>1, CountRests
<1> QED BY <1>3, <1>4, <1>5 DEF SaveForm, SweepRead, SweepObject, SweepFails

LEMMA MediaSoundStarts == MediaInit => MediaSound
<1> SUFFICES ASSUME MediaInit  PROVE MediaSound
  OBVIOUS
<1>1. MediaFits  BY MediaStarts
<1>2. ASSUME NEW t \in Targets
      PROVE  CountFits(t)
  <2>1. OnView(t) = {} /\ Pending(t) = {} /\ Leaving(t) = {}
    BY DEF MediaInit, OnView, Pending, Leaving, Listed, Uploading, NoFile, NoUpload
  <2>2. mediaCount[t] = 0  BY DEF MediaInit
  <2> QED BY <2>1, <2>2, FS_EmptySet DEF CountFits
<1> QED BY <1>1, <1>2 DEF MediaSound

LEMMA MediaKeepsSound ==
  ASSUME MediaSound, [MediaNext]_mediaVars
  PROVE  MediaSound'
<1>1. MediaFits'  BY MediaKeepsFits DEF MediaSound
<1>2. ASSUME NEW t \in Targets \ miscounted'
      PROVE  CountFits(t)'
  <2>1. CASE UNCHANGED mediaVars
    BY <2>1 DEF mediaVars, MediaSound, CountFits, OnView, Pending, Leaving, Listed, Uploading
  <2>2. ASSUME NEW f \in Files,
               \/ \E u \in Targets, direct \in BOOLEAN : StartUpload(f, u, direct)
               \/ Resolve(f) \/ Placeholder(f) \/ Put(f) \/ UploadFails(f) \/ Confirm(f)
        PROVE  CountFits(t)'
    <3>1. miscounted \subseteq miscounted'
      BY <2>2 DEF StartUpload, Resolve, Placeholder, Put, UploadFails, Confirm
    <3> QED BY <2>2, <3>1, UploadsKeepCount
  <2> QED
    BY <2>1, <2>2, InsertKeepsCount, CountUpKeepsCount, RemoveMarkKeepsCount,
       RemoveUncountKeepsCount, OthersKeepCount DEF MediaNext
<1> QED BY <1>1, <1>2 DEF MediaSound

LEMMA CountByName ==
  MediaSound => CountFollowsPhotos
BY DEF MediaSound, CountFits, OnView, Pending, Leaving, CountFollowsPhotos

(* The count of an answer follows its photos, for any files, answers and users *)
(* and however uploads, removals, forms and the sweep overlap and stop, save   *)
(* for the answers whose count a form, a failure or a removal put wrong.       *)
THEOREM PhotosCounted == MediaSpec => []CountFollowsPhotos
<1>1. MediaInit => MediaSound  BY MediaSoundStarts
<1>2. MediaSound /\ [MediaNext]_mediaVars => MediaSound'  BY MediaKeepsSound
<1> QED BY <1>1, <1>2, CountByName, PTL DEF MediaSpec

-------------------------------------------------------------------------------
(*****************************************************************************)
(* The delivery of notifications.                                            *)
(*****************************************************************************)

(***************************************************************************)
(* A row is settled while an attempt is past its delivery, and for as long *)
(* as the queue keeps its completed job.  Only a fault unsettles a row,    *)
(* and only a row that is not settled is sent.                             *)
(***************************************************************************)
Settled(n) == worker[n][1] \in {"mark", "complete"} \/ bull[n].state = "completed"

Budget(n) == upsets[n] + (IF Settled(n) THEN 1 ELSE 0)

BullStates == {"none", "waiting", "active", "delayed", "completed", "failed"}

Shapes ==
  /\ msgId \in [Notes -> Int]
  /\ bull \in [Notes -> [state : BullStates, made : Nat, stalls : Nat]]
  /\ worker \in [Notes -> {"idle", "send", "mark", "complete"} \X Int]
  /\ delivered \in [Notes -> Nat]
  /\ upsets \in [Notes -> Nat]

DeliverySound ==
  /\ Shapes
  /\ \A n \in Notes : worker[n][1] # "idle" => bull[n].state = "active"
  /\ \A n \in Notes : delivered[n] <= Budget(n)

LEMMA DeliveryStarts == DeliveryInit => DeliverySound
BY DEF DeliveryInit, DeliverySound, Shapes, Budget, Settled, NoJob, NoId, BullStates

\* An attempt that throws leaves its job failed or delayed, and no worker.
LEMMA AttemptEnds ==
  ASSUME Shapes, NEW n \in Notes, AttemptFails(n)
  PROVE  /\ bull' \in [Notes -> [state : BullStates, made : Nat, stalls : Nat]]
         /\ worker' \in [Notes -> {"idle", "send", "mark", "complete"} \X Int]
         /\ worker'[n][1] = "idle" /\ bull'[n].state \in {"failed", "delayed"}
         /\ \A m \in Notes \ {n} : bull'[m] = bull[m] /\ worker'[m] = worker[m]
<1> DEFINE made == bull[n].made + 1
           state == IF made >= MaxAttempts THEN "failed" ELSE "delayed"
           job == [bull[n] EXCEPT !.made = made, !.state = state]
<1>1. bull[n] \in [state : BullStates, made : Nat, stalls : Nat]  BY DEF Shapes
<1>2. made \in Nat /\ state \in {"failed", "delayed"}  BY <1>1
<1>3. job \in [state : BullStates, made : Nat, stalls : Nat] /\ job.state = state
  BY <1>1, <1>2 DEF BullStates
<1>4. bull' = [bull EXCEPT ![n] = job] /\ worker' = [worker EXCEPT ![n] = <<"idle", NoId>>]
  BY DEF AttemptFails
<1> HIDE DEF job
<1>5. bull'[n] = job /\ worker'[n] = <<"idle", NoId>>  BY <1>4 DEF Shapes
<1> QED BY <1>2, <1>3, <1>4, <1>5 DEF Shapes, NoId

\* A stalled job is waiting again or failed.
LEMMA StalledEnds ==
  ASSUME Shapes, NEW n \in Notes, Stalled(n)
  PROVE  /\ bull' \in [Notes -> [state : BullStates, made : Nat, stalls : Nat]]
         /\ bull'[n].state \in {"waiting", "failed"}
         /\ \A m \in Notes \ {n} : bull'[m] = bull[m]
<1>1. bull[n] \in [state : BullStates, made : Nat, stalls : Nat]  BY DEF Shapes
<1>2. CASE bull[n].stalls = 0
  <2> DEFINE job == [bull[n] EXCEPT !.state = "waiting", !.stalls = 1]
  <2>1. job \in [state : BullStates, made : Nat, stalls : Nat] /\ job.state = "waiting"
    BY <1>1 DEF BullStates
  <2>2. bull' = [bull EXCEPT ![n] = job]  BY <1>2 DEF Stalled, Shapes
  <2> HIDE DEF job
  <2> QED BY <2>1, <2>2 DEF Shapes
<1>3. CASE bull[n].stalls # 0
  <2> DEFINE job == [bull[n] EXCEPT !.state = "failed"]
  <2>1. job \in [state : BullStates, made : Nat, stalls : Nat] /\ job.state = "failed"
    BY <1>1 DEF BullStates
  <2>2. bull' = [bull EXCEPT ![n] = job]  BY <1>3 DEF Stalled
  <2> HIDE DEF job
  <2> QED BY <2>1, <2>2 DEF Shapes
<1> QED BY <1>2, <1>3

\* The server's own steps, which need no fault.
LEMMA RoutineKeepsSound ==
  ASSUME DeliverySound, NEW n \in Notes,
         \/ \E throughQueue \in BOOLEAN : Enqueue(n, throughQueue)
         \/ Requeue(n) \/ Add(n) \/ Stamp(n) \/ Take(n)
         \/ Mark(n) \/ Complete(n) \/ FailedListener(n)
         \/ Retry(n) \/ Stalled(n) \/ ProcessStatus(n)
  PROVE  DeliverySound'
<1> USE DEF DeliverySound, Shapes, Budget, Settled, BullStates
<1>1. CASE \E throughQueue \in BOOLEAN : Enqueue(n, throughQueue)
  BY <1>1 DEF Enqueue
<1>2. CASE Requeue(n)  BY <1>2 DEF Requeue
<1>3. CASE Add(n)  BY <1>3 DEF Add, Fresh
<1>4. CASE Stamp(n)  BY <1>4 DEF Stamp, JobId
<1>5. CASE Take(n)  BY <1>5 DEF Take
<1>6. CASE Mark(n)  BY <1>6 DEF Mark, NoId
<1>7. CASE Complete(n)
  <2>1. /\ worker' = [worker EXCEPT ![n] = <<"idle", NoId>>] /\ worker[n][1] = "complete"
        /\ bull' = [bull EXCEPT ![n].state = "completed"]
        /\ UNCHANGED <<msgId, delivered, upsets>>
    BY <1>7 DEF Complete
  <2>2. Settled(n) /\ Settled(n)'  BY <2>1
  <2>3. \A m \in Notes : Budget(m)' = Budget(m)  BY <2>1, <2>2
  <2>4. [bull[n] EXCEPT !.state = "completed"] \in [state : BullStates, made : Nat, stalls : Nat]
    <3>1. bull[n] \in [state : BullStates, made : Nat, stalls : Nat]  OBVIOUS
    <3> QED BY ONLY <3>1 DEF BullStates
  <2>5. Shapes'  BY <2>1, <2>4 DEF NoId
  <2> QED BY <2>1, <2>3, <2>5
<1>8. CASE FailedListener(n)  BY <1>8 DEF FailedListener
<1>9. CASE Retry(n)  BY <1>9 DEF Retry
<1>10. CASE Stalled(n)  
  <2>1. UNCHANGED <<msgId, worker, delivered, upsets>> /\ worker[n][1] = "idle"
    BY <1>10 DEF Stalled
  <2>2. ~Settled(n) /\ ~Settled(n)'  BY <1>10, <2>1, StalledEnds DEF Stalled
  <2>3. \A m \in Notes : Budget(m)' = Budget(m)  BY <1>10, <2>1, <2>2, StalledEnds
  <2> QED BY <1>10, <2>1, <2>3, StalledEnds
<1>11. CASE ProcessStatus(n)  BY <1>11 DEF ProcessStatus
<1> QED BY <1>1, <1>2, <1>3, <1>4, <1>5, <1>6, <1>7, <1>8, <1>9, <1>10, <1>11

\* The outcomes of sending: only an accepted message settles the row for free.
LEMMA SendingKeepsSound ==
  ASSUME DeliverySound, NEW n \in Notes,
         SendAccepted(n) \/ SendNoop(n) \/ SendRefused(n) \/ SendUnnamed(n) \/ SendReplyLost(n)
  PROVE  DeliverySound'
<1> USE DEF DeliverySound, Shapes, Budget, Settled, BullStates
<1>1. CASE SendAccepted(n)  BY <1>1 DEF SendAccepted, ProviderTakes
<1>2. CASE SendNoop(n)  BY <1>2 DEF SendNoop
<1>3. CASE SendRefused(n)  
  <2>1. UNCHANGED <<msgId, delivered, upsets>> /\ ~Settled(n)
    BY <1>3 DEF SendRefused
  <2>2. ~Settled(n)'  BY <1>3, AttemptEnds DEF SendRefused
  <2>3. \A m \in Notes : Budget(m)' = Budget(m)  BY <1>3, <2>1, <2>2, AttemptEnds DEF SendRefused
  <2>4. Shapes'  BY <1>3, <2>1, AttemptEnds DEF SendRefused
  <2>5. \A m \in Notes : worker'[m][1] # "idle" => bull'[m].state = "active"
    <3>1. AttemptFails(n)  BY <1>3 DEF SendRefused
    <3>2. /\ worker'[n][1] = "idle"
          /\ \A m \in Notes \ {n} : bull'[m] = bull[m] /\ worker'[m] = worker[m]
      BY ONLY <3>1, DeliverySound, AttemptEnds, n \in Notes DEF DeliverySound
    <3> QED BY ONLY <3>2, DeliverySound DEF DeliverySound
  <2> QED BY <2>1, <2>3, <2>4, <2>5
<1>4. CASE SendUnnamed(n)  
  <2>1. delivered' = [delivered EXCEPT ![n] = @ + 1] /\ upsets' = [upsets EXCEPT ![n] = @ + 1]
    BY <1>4 DEF SendUnnamed, ProviderTakes, Upset
  <2>2. CASE worker' = worker  BY <1>4, <2>1, <2>2 DEF SendUnnamed
  <2>3. CASE worker' = [worker EXCEPT ![n][1] = "mark"]  BY <1>4, <2>1, <2>3 DEF SendUnnamed
  <2> QED BY <1>4, <2>2, <2>3 DEF SendUnnamed
<1>5. CASE SendReplyLost(n)
  <2>1. delivered' = [delivered EXCEPT ![n] = @ + 1] /\ upsets' = [upsets EXCEPT ![n] = @ + 1]
    BY <1>5 DEF SendReplyLost, ProviderTakes, Upset
  <2>2. msgId' = msgId /\ ~Settled(n)  BY <1>5 DEF SendReplyLost
  <2>3. ~Settled(n)'  BY <1>5, AttemptEnds DEF SendReplyLost
  <2>4. \A m \in Notes \ {n} : Budget(m)' = Budget(m)
    BY <1>5, <2>1, AttemptEnds DEF SendReplyLost
  <2>5. Budget(n)' = Budget(n) + 1  BY <2>1, <2>2, <2>3
  <2>6. Shapes'  BY <1>5, <2>1, <2>2, AttemptEnds DEF SendReplyLost
  <2>7. \A m \in Notes : worker'[m][1] # "idle" => bull'[m].state = "active"
    <3>1. AttemptFails(n)  BY <1>5 DEF SendReplyLost
    <3>2. /\ worker'[n][1] = "idle"
          /\ \A m \in Notes \ {n} : bull'[m] = bull[m] /\ worker'[m] = worker[m]
      BY ONLY <3>1, DeliverySound, AttemptEnds, n \in Notes DEF DeliverySound
    <3> QED BY ONLY <3>2, DeliverySound DEF DeliverySound
  <2>8. \A m \in Notes : delivered'[m] <= Budget(m)'
    BY <2>1, <2>4, <2>5
  <2> QED BY <2>6, <2>7, <2>8
<1> QED BY <1>1, <1>2, <1>3, <1>4, <1>5

\* The faults: each pays for the row it unsettles.
LEMMA FaultsKeepSound ==
  ASSUME DeliverySound,
         Crash \/ \E n \in Notes : MarkFails(n) \/ FailedListenerFails(n) \/ Evict(n)
  PROVE  DeliverySound'
<1> USE DEF DeliverySound, Shapes, Budget, Settled, BullStates
<1>1. CASE Crash
  <2>1. /\ worker' = [m \in Notes |-> <<"idle", NoId>>]
        /\ UNCHANGED <<msgId, bull, delivered>>
    BY <1>1 DEF Crash
  <2>2. PICK hit \in SUBSET Notes :
          /\ \A m \in Notes : worker[m][1] # "idle" => m \in hit
          /\ upsets' = [m \in Notes |-> upsets[m] + (IF m \in hit THEN 1 ELSE 0)]
    <3> DEFINE struck == {m \in Notes : worker[m][1] # "idle" \/ enq[m] # "idle"
                                          \/ verdicts[m] # {}}
    <3> QED BY <1>1 DEF Crash
  <2>3. Shapes'  BY <2>1, <2>2 DEF NoId
  <2>4. \A m \in Notes : worker'[m][1] = "idle"  BY <2>1
  <2>5. ASSUME NEW m \in Notes
        PROVE  Budget(m) <= Budget(m)'
    <3>1. CASE m \in hit  BY <2>1, <2>2, <3>1
    <3>2. CASE m \notin hit  BY <2>1, <2>2, <2>4, <3>2
    <3> QED BY <3>1, <3>2
  <2> QED BY <2>1, <2>3, <2>4, <2>5
<1>2. ASSUME NEW n \in Notes, MarkFails(n)
      PROVE  DeliverySound'
  BY <1>2, AttemptEnds DEF MarkFails, Upset
<1>3. ASSUME NEW n \in Notes, FailedListenerFails(n)
      PROVE  DeliverySound'
  BY <1>3 DEF FailedListenerFails, Upset
<1>4. ASSUME NEW n \in Notes, Evict(n)
      PROVE  DeliverySound'
  BY <1>4 DEF Evict, Upset, NoJob
<1> QED BY <1>1, <1>2, <1>3, <1>4

LEMMA DeliveryKeepsSound ==
  ASSUME DeliverySound, [DeliveryNext]_deliveryVars
  PROVE  DeliverySound'
<1>1. CASE DeliveryNext
  BY <1>1, RoutineKeepsSound, SendingKeepsSound, FaultsKeepSound
     DEF DeliveryNext, Enqueuer, Attempt
<1>2. CASE UNCHANGED deliveryVars
  BY <1>2 DEF deliveryVars, DeliverySound, Shapes, Budget, Settled
<1> QED BY <1>1, <1>2

LEMMA SoundExplains == DeliverySound => SecondDeliveryExplained
BY DEF DeliverySound, Shapes, Budget, SecondDeliveryExplained

(* Every delivery of a message after the first is paid for by a fault its row  *)
(* met: the polls, retries and reports of the provider, in whatever order and  *)
(* number, never send a message again by themselves.                           *)
THEOREM DeliveriesExplained == DeliverySpec => []SecondDeliveryExplained
<1>1. DeliveryInit => DeliverySound  BY DeliveryStarts
<1>2. DeliverySound /\ [DeliveryNext]_deliveryVars => DeliverySound'
  BY DeliveryKeepsSound
<1> QED BY <1>1, <1>2, SoundExplains, PTL DEF DeliverySpec

(***************************************************************************)
(* The types of the delivery.  A job that may still be attempted has an    *)
(* attempt to spare, so the count of attempts keeps its range.             *)
(***************************************************************************)
AttemptsLeft ==
  \A n \in Notes :
    bull[n].state \in {"waiting", "active", "delayed"} => bull[n].made < MaxAttempts

DeliveryTyped == DeliverySound /\ DeliveryTypeOK /\ AttemptsLeft

BullJobs == [state : BullStates, made : 0 .. MaxAttempts, stalls : 0 .. 1]

\* The faults of a row are some of all the faults.
LEMMA RowHasItsFaults ==
  ASSUME DeliveryTypeOK, NEW n \in Notes
  PROVE  /\ IsFiniteSet(Faults) /\ Cardinality(Faults) \in Nat
         /\ upsets[n] <= Cardinality(Faults)
<1>1. /\ MaxUpsets \in Nat /\ IsFiniteSet(Notes) /\ upsets \in [Notes -> 0 .. MaxUpsets]
      /\ upsets[n] \in Nat /\ upsets[n] <= MaxUpsets
  BY DeliveryAssumption DEF DeliveryTypeOK
<1>2. IsFiniteSet(1 .. MaxUpsets)
  BY <1>1, FS_Interval
<1>3. IsFiniteSet(Notes \X (1 .. MaxUpsets))
  BY <1>1, <1>2, FS_Product
<1>4. Faults \in SUBSET (Notes \X (1 .. MaxUpsets))
  BY DEF Faults
<1>5. IsFiniteSet(Faults)
  BY <1>3, <1>4, FS_Subset
<1> DEFINE mine == {n} \X (1 .. upsets[n])
<1>6. mine \in SUBSET Faults
  <2> SUFFICES ASSUME NEW m \in mine  PROVE m \in Faults
    OBVIOUS
  <2>1. PICK k \in 1 .. upsets[n] : m = <<n, k>>
    OBVIOUS
  <2> QED BY <1>1, <2>1 DEF Faults
<1>7. IsFiniteSet({n}) /\ Cardinality({n}) = 1
  BY FS_Singleton
<1>8. IsFiniteSet(1 .. upsets[n]) /\ Cardinality(1 .. upsets[n]) = upsets[n]
  BY <1>1, FS_Interval
<1>9. Cardinality({n} \X (1 .. upsets[n])) = Cardinality({n}) * Cardinality(1 .. upsets[n])
  BY <1>7, <1>8, FS_Product
<1>10. Cardinality(mine) = upsets[n]
  BY <1>1, <1>7, <1>8, <1>9
<1> HIDE DEF mine
<1> QED BY <1>5, <1>6, <1>10, FS_Subset, FS_CardinalityType

\* A fault more is one the bound had room for.
LEMMA UpsetFits ==
  ASSUME DeliveryTypeOK, NEW n \in Notes, Upset(n)
  PROVE  upsets' \in [Notes -> 0 .. MaxUpsets]
<1>1. upsets[n] <= Cardinality(Faults) /\ Cardinality(Faults) \in Nat
  BY RowHasItsFaults
<1>2. upsets[n] \in 0 .. MaxUpsets /\ MaxUpsets \in Nat
  BY DeliveryAssumption DEF DeliveryTypeOK
<1>3. upsets[n] + 1 \in 0 .. MaxUpsets
  BY <1>1, <1>2 DEF Upset
<1> QED BY <1>3 DEF Upset, DeliveryTypeOK

\* A job that is changed keeps its type if its new self has it.
LEMMA JobChanges ==
  ASSUME DeliveryTypeOK, AttemptsLeft, NEW n \in Notes, NEW job \in BullJobs,
         bull' = [bull EXCEPT ![n] = job],
         job.state \in {"waiting", "active", "delayed"} => job.made < MaxAttempts
  PROVE  bull' \in [Notes -> BullJobs] /\ AttemptsLeft'
BY DEF DeliveryTypeOK, AttemptsLeft, BullJobs, BullStates

\* An attempt that throws had one to spare.
LEMMA AttemptFits ==
  ASSUME DeliveryTyped, NEW n \in Notes, AttemptFails(n), worker[n][1] # "idle"
  PROVE  /\ bull' \in [Notes -> BullJobs] /\ AttemptsLeft'
         /\ worker' \in [Notes -> {"idle", "send", "mark", "complete"} \X MsgIds]
         /\ verdicts' \in [Notes -> SUBSET {"queued", "failed"}]
<1> DEFINE made == bull[n].made + 1
           state == IF made >= MaxAttempts THEN "failed" ELSE "delayed"
           job == [bull[n] EXCEPT !.made = made, !.state = state]
<1>1. bull[n] \in BullJobs /\ MaxAttempts \in Nat
  BY DeliveryAssumption DEF DeliveryTyped, DeliveryTypeOK, BullJobs, BullStates
<1>2. bull[n].made \in Nat /\ bull[n].made < MaxAttempts
  BY <1>1 DEF DeliveryTyped, DeliverySound, AttemptsLeft, BullJobs
<1>3. made \in 0 .. MaxAttempts /\ state \in {"failed", "delayed"}
      /\ (state = "delayed" => made < MaxAttempts)
  BY <1>1, <1>2
<1>4. bull' = [bull EXCEPT ![n] = job] /\ worker' = [worker EXCEPT ![n] = <<"idle", NoId>>]
  BY DEF AttemptFails
<1>5. verdicts' \in [Notes -> SUBSET {"queued", "failed"}]
  BY DEF AttemptFails, DeliveryTyped, DeliveryTypeOK
<1>6. job \in BullJobs /\ job.state = state /\ job.made = made
  BY <1>1, <1>3 DEF BullJobs, BullStates
<1> HIDE DEF job, made, state
<1>7. job.state \in {"waiting", "active", "delayed"} => job.made < MaxAttempts
  BY <1>3, <1>6
<1>8. bull' \in [Notes -> BullJobs] /\ AttemptsLeft'
  BY <1>4, <1>6, <1>7, JobChanges DEF DeliveryTyped
<1>9. worker' \in [Notes -> {"idle", "send", "mark", "complete"} \X MsgIds]
  BY <1>4 DEF DeliveryTyped, DeliveryTypeOK, MsgIds, NoId
<1> QED BY <1>5, <1>8, <1>9

\* The parts of the type invariant that a step of one row disturbs.
Typed ==
  /\ row \in [Notes -> {"none", "queued", "sent", "delivered", "failed"}]
  /\ msgId \in [Notes -> MsgIds]
  /\ bull \in [Notes -> BullJobs]
  /\ enq \in [Notes -> {"idle", "add", "stamp"}]
  /\ worker \in [Notes -> {"idle", "send", "mark", "complete"} \X MsgIds]
  /\ verdicts \in [Notes -> SUBSET {"queued", "failed"}]
  /\ delivered \in [Notes -> Nat]
  /\ upsets \in [Notes -> 0 .. MaxUpsets]

LEMMA TypedIs == DeliveryTypeOK <=> Typed
BY DEF DeliveryTypeOK, Typed, BullJobs, BullStates

\* The steps of callers, polls and listeners leave the queue's jobs alone.
LEMMA RowStepFits ==
  ASSUME DeliveryTyped, NEW n \in Notes,
         \/ \E throughQueue \in BOOLEAN : Enqueue(n, throughQueue)
         \/ Requeue(n) \/ Stamp(n) \/ SendAccepted(n) \/ SendNoop(n) \/ SendUnnamed(n)
         \/ Mark(n) \/ FailedListener(n) \/ FailedListenerFails(n) \/ ProcessStatus(n)
  PROVE  Typed' /\ AttemptsLeft'
<1>1. Typed /\ AttemptsLeft
  BY TypedIs DEF DeliveryTyped
<1>2. bull' = bull
  BY DEF Enqueue, Requeue, Stamp, SendAccepted, SendNoop, SendUnnamed, Mark, FailedListener,
         FailedListenerFails, ProcessStatus
<1>3. AttemptsLeft' /\ bull' \in [Notes -> BullJobs]
  BY <1>1, <1>2 DEF AttemptsLeft, Typed
<1>4. CASE \/ \E throughQueue \in BOOLEAN : Enqueue(n, throughQueue)
           \/ Requeue(n)
  BY <1>1, <1>3, <1>4 DEF Typed, Enqueue, Requeue
<1>5. CASE Stamp(n)
  BY <1>1, <1>3, <1>5 DEF Typed, Stamp, MsgIds, JobId
<1>6. CASE SendAccepted(n)
  BY <1>1, <1>3, <1>6 DEF Typed, SendAccepted, ProviderTakes, MsgIds
<1>7. CASE SendNoop(n)
  BY <1>1, <1>3, <1>7 DEF Typed, SendNoop
<1>8. CASE SendUnnamed(n)
  <2>1. upsets' \in [Notes -> 0 .. MaxUpsets]
    BY <1>8, UpsetFits DEF SendUnnamed, DeliveryTyped
  <2>2. delivered' \in [Notes -> Nat]
    BY <1>1, <1>8 DEF Typed, SendUnnamed, ProviderTakes
  <2>3. worker[n] \in {"idle", "send", "mark", "complete"} \X MsgIds
    BY <1>1 DEF Typed
  <2>4. [worker[n] EXCEPT ![1] = "mark"] \in {"idle", "send", "mark", "complete"} \X MsgIds
    BY <2>3
  <2>5. worker' \in {worker, [worker EXCEPT ![n] = [worker[n] EXCEPT ![1] = "mark"]]}
    BY <1>8 DEF SendUnnamed
  <2>6. worker' \in [Notes -> {"idle", "send", "mark", "complete"} \X MsgIds]
    BY <1>1, <2>4, <2>5 DEF Typed
  <2> QED BY <1>1, <1>3, <1>8, <2>1, <2>2, <2>6 DEF Typed, SendUnnamed
<1>9. CASE Mark(n)
  BY <1>1, <1>3, <1>9 DEF Typed, Mark, MsgIds, NoId
<1>10. CASE FailedListener(n)
  BY <1>1, <1>3, <1>10 DEF Typed, FailedListener
<1>11. CASE FailedListenerFails(n)
  <2>1. upsets' \in [Notes -> 0 .. MaxUpsets]
    BY <1>11, UpsetFits DEF FailedListenerFails, DeliveryTyped
  <2>2. PICK v \in verdicts[n] : verdicts' = [verdicts EXCEPT ![n] = verdicts[n] \ {v}]
    BY <1>11 DEF FailedListenerFails
  <2>3. verdicts' \in [Notes -> SUBSET {"queued", "failed"}]
    BY <1>1, <2>2 DEF Typed
  <2> QED BY <1>1, <1>3, <1>11, <2>1, <2>3 DEF Typed, FailedListenerFails
<1>12. CASE ProcessStatus(n)
  BY <1>1, <1>3, <1>12 DEF Typed, ProcessStatus
<1> QED BY <1>4, <1>5, <1>6, <1>7, <1>8, <1>9, <1>10, <1>11, <1>12

\* The steps that change a job of the queue.
LEMMA JobStepFits ==
  ASSUME DeliveryTyped, NEW n \in Notes,
         \/ Add(n) \/ Take(n) \/ Complete(n) \/ Retry(n) \/ Stalled(n) \/ Evict(n)
         \/ SendRefused(n) \/ SendReplyLost(n) \/ MarkFails(n)
  PROVE  Typed' /\ AttemptsLeft'
<1>1. Typed /\ AttemptsLeft /\ MaxAttempts \in Nat \ {0}
  BY TypedIs, DeliveryAssumption DEF DeliveryTyped
<1>2. /\ bull[n] \in BullJobs /\ bull \in [Notes -> BullJobs]
      /\ bull[n].state \in {"waiting", "active", "delayed"} => bull[n].made < MaxAttempts
  BY <1>1 DEF Typed, AttemptsLeft
<1>3. ASSUME NEW job \in BullJobs, bull' = [bull EXCEPT ![n] = job],
             job.state \in {"waiting", "active", "delayed"} => job.made < MaxAttempts
      PROVE  bull' \in [Notes -> BullJobs] /\ AttemptsLeft'
  BY <1>3, JobChanges DEF DeliveryTyped
<1>4. CASE Add(n)
  <2>1. Fresh \in BullJobs /\ Fresh.made < MaxAttempts
    BY <1>1 DEF Fresh, BullJobs, BullStates
  <2>2. PICK job \in {bull[n], Fresh} : bull' = [bull EXCEPT ![n] = job]
    BY <1>4 DEF Add
  <2>3. bull' \in [Notes -> BullJobs] /\ AttemptsLeft'
    BY <1>2, <1>3, <2>1, <2>2
  <2> QED BY <1>1, <1>4, <2>3 DEF Typed, Add
<1>5. CASE Take(n)
  <2>1. PICK job : job = [bull[n] EXCEPT !.state = "active"]
    OBVIOUS
  <2>2. job \in BullJobs /\ job.made < MaxAttempts /\ bull' = [bull EXCEPT ![n] = job]
    BY <1>2, <1>5, <2>1 DEF Take, BullJobs, BullStates
  <2>3. bull' \in [Notes -> BullJobs] /\ AttemptsLeft'
    BY <1>3, <2>2
  <2> QED BY <1>1, <1>5, <2>3 DEF Typed, Take
<1>6. CASE Complete(n)
  <2>1. PICK job : job = [bull[n] EXCEPT !.state = "completed"]
    OBVIOUS
  <2>2. job \in BullJobs /\ job.state = "completed" /\ bull' = [bull EXCEPT ![n] = job]
    BY <1>2, <1>6, <2>1 DEF Complete, BullJobs, BullStates
  <2>3. bull' \in [Notes -> BullJobs] /\ AttemptsLeft'
    BY <1>3, <2>2
  <2> QED BY <1>1, <1>6, <2>3 DEF Typed, Complete, MsgIds, NoId
<1>7. CASE Retry(n)
  <2>1. PICK job : job = [bull[n] EXCEPT !.state = "waiting"]
    OBVIOUS
  <2>2. job \in BullJobs /\ job.made < MaxAttempts /\ bull' = [bull EXCEPT ![n] = job]
    BY <1>2, <1>7, <2>1 DEF Retry, BullJobs, BullStates
  <2>3. bull' \in [Notes -> BullJobs] /\ AttemptsLeft'
    BY <1>3, <2>2
  <2> QED BY <1>1, <1>7, <2>3 DEF Typed, Retry
<1>8. CASE Stalled(n)
  <2>1. PICK job : job = IF bull[n].stalls = 0
                         THEN [bull[n] EXCEPT !.state = "waiting", !.stalls = 1]
                         ELSE [bull[n] EXCEPT !.state = "failed"]
    OBVIOUS
  <2>2. job \in BullJobs /\ (job.state \in {"waiting", "active", "delayed"} => job.made < MaxAttempts)
    BY <1>2, <1>8, <2>1 DEF Stalled, BullJobs, BullStates
  <2>3. bull' = [bull EXCEPT ![n] = job]
    BY <1>2, <1>8, <2>1 DEF Stalled
  <2>4. bull' \in [Notes -> BullJobs] /\ AttemptsLeft'
    BY <1>3, <2>2, <2>3
  <2>5. \E more \in SUBSET {"queued", "failed"} :
          verdicts' = [verdicts EXCEPT ![n] = @ \cup more] \/ verdicts' = verdicts
    BY <1>8 DEF Stalled
  <2>6. ASSUME NEW more \in SUBSET {"queued", "failed"},
               verdicts' = [verdicts EXCEPT ![n] = verdicts[n] \cup more]
        PROVE  verdicts' \in [Notes -> SUBSET {"queued", "failed"}]
    <3>1. verdicts[n] \cup more \in SUBSET {"queued", "failed"}
      BY <1>1 DEF Typed
    <3> QED BY <1>1, <2>6, <3>1 DEF Typed
  <2>7. verdicts' \in [Notes -> SUBSET {"queued", "failed"}]
    BY <1>1, <2>5, <2>6 DEF Typed
  <2> QED BY <1>1, <1>8, <2>4, <2>7 DEF Typed, Stalled
<1>9. CASE Evict(n)
  <2>1. upsets' \in [Notes -> 0 .. MaxUpsets]
    BY <1>9, UpsetFits DEF Evict, DeliveryTyped
  <2>2. NoJob \in BullJobs /\ NoJob.state = "none" /\ bull' = [bull EXCEPT ![n] = NoJob]
    BY <1>1, <1>9 DEF Evict, NoJob, BullJobs, BullStates
  <2>3. bull' \in [Notes -> BullJobs] /\ AttemptsLeft'
    BY <1>3, <2>2
  <2> QED BY <1>1, <1>9, <2>1, <2>3 DEF Typed, Evict
<1>10. CASE SendRefused(n) \/ SendReplyLost(n) \/ MarkFails(n)
  <2>1. AttemptFails(n) /\ worker[n][1] # "idle"
    BY <1>10 DEF SendRefused, SendReplyLost, MarkFails
  <2>2. upsets' \in [Notes -> 0 .. MaxUpsets]
    BY <1>1, <1>10, UpsetFits DEF SendRefused, SendReplyLost, MarkFails, DeliveryTyped, Typed
  <2>3. delivered' \in [Notes -> Nat]
    BY <1>1, <1>10 DEF SendRefused, SendReplyLost, MarkFails, ProviderTakes, Typed
  <2>4. UNCHANGED <<row, msgId, enq>>
    BY <1>10 DEF SendRefused, SendReplyLost, MarkFails
  <2> QED BY <1>1, <2>1, <2>2, <2>3, <2>4, AttemptFits DEF Typed
<1> QED BY <1>4, <1>5, <1>6, <1>7, <1>8, <1>9, <1>10

\* The bound has room for a fault of every row that a crash hits.
LEMMA CrashFits ==
  ASSUME DeliveryTyped, Crash
  PROVE  Typed' /\ AttemptsLeft'
<1>1. Typed /\ AttemptsLeft /\ MaxUpsets \in Nat /\ IsFiniteSet(Notes)
  BY TypedIs, DeliveryAssumption DEF DeliveryTyped
<1>2. PICK hit \in SUBSET Notes :
        /\ Cardinality(Faults) + Cardinality(hit) <= MaxUpsets
        /\ upsets' = [n \in Notes |-> upsets[n] + (IF n \in hit THEN 1 ELSE 0)]
  <2> DEFINE struck == {n \in Notes : worker[n][1] # "idle" \/ enq[n] # "idle"
                                        \/ verdicts[n] # {}}
  <2> QED BY DEF Crash
<1>3. ASSUME NEW n \in Notes
      PROVE  upsets'[n] \in 0 .. MaxUpsets
  <2>1. upsets[n] \in 0 .. MaxUpsets /\ upsets[n] <= Cardinality(Faults)
        /\ Cardinality(Faults) \in Nat
    BY <1>1, RowHasItsFaults DEF DeliveryTyped, Typed
  <2>2. IsFiniteSet(hit) /\ Cardinality(hit) \in Nat
    BY <1>1, FS_Subset, FS_CardinalityType
  <2>3. n \in hit => Cardinality(hit) # 0
    BY <2>2, FS_EmptySet
  <2>4. CASE n \in hit
    BY <1>1, <1>2, <2>1, <2>2, <2>3, <2>4
  <2>5. CASE n \notin hit
    BY <1>1, <1>2, <2>1, <2>5
  <2> QED BY <2>4, <2>5
<1>4. upsets' \in [Notes -> 0 .. MaxUpsets]
  BY <1>2, <1>3
<1>5. /\ worker' = [n \in Notes |-> <<"idle", NoId>>] /\ enq' = [n \in Notes |-> "idle"]
      /\ verdicts' = [n \in Notes |-> {}]
      /\ UNCHANGED <<row, msgId, bull, delivered>>
  BY DEF Crash
<1> QED BY <1>1, <1>4, <1>5 DEF Typed, AttemptsLeft, MsgIds, NoId

(* The tables of the delivery keep their types: a job never runs more attempts *)
(* than the queue allows, whatever crashes and stalls come in between.         *)
THEOREM DeliveryTyping == DeliverySpec => []DeliveryTypeOK
<1>1. DeliveryInit => DeliveryTyped
  <2> SUFFICES ASSUME DeliveryInit  PROVE DeliveryTyped
    OBVIOUS
  <2>1. NoJob \in BullJobs /\ NoJob.state = "none"
    BY DeliveryAssumption DEF NoJob, BullJobs, BullStates
  <2>2. Typed
    BY <2>1, DeliveryAssumption DEF DeliveryInit, Typed, MsgIds, NoId
  <2>3. AttemptsLeft
    BY <2>1 DEF DeliveryInit, AttemptsLeft
  <2> QED BY <2>2, <2>3, TypedIs, DeliveryStarts DEF DeliveryTyped
<1>2. DeliveryTyped /\ [DeliveryNext]_deliveryVars => DeliveryTyped'
  <2> SUFFICES ASSUME DeliveryTyped, [DeliveryNext]_deliveryVars
               PROVE  Typed' /\ AttemptsLeft'
    BY DeliveryKeepsSound, TypedIs DEF DeliveryTyped, DeliveryTypeOK, Typed, BullJobs, BullStates
  <2>1. CASE UNCHANGED deliveryVars
    BY <2>1, TypedIs DEF deliveryVars, DeliveryTyped, Typed, AttemptsLeft
  <2> QED BY <2>1, RowStepFits, JobStepFits, CrashFits DEF DeliveryNext, Enqueuer, Attempt
<1>3. DeliveryTyped => DeliveryTypeOK
  BY DEF DeliveryTyped
<1> QED BY <1>1, <1>2, <1>3, PTL DEF DeliverySpec
===============================================================================
