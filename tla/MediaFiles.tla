------------------------------ MODULE MediaFiles ------------------------------
(* Photos: their rows in media_files, their objects in the store, and the      *)
(* media_count of the answer each is attached to.  Four writers share them:    *)
(* direct uploads, presigned uploads that are confirmed later, removals, and   *)
(* the sweep of abandoned uploads.  The form of the answers, sent as a whole,  *)
(* overwrites the counts.  Every handler is split at its awaited calls.        *)
EXTENDS Integers, FiniteSets

CONSTANTS
  Files,        \* media files
  Targets,      \* answers (inspection_responses by inspection and item)
  Removers      \* users who remove photos

ASSUME MediaAssumption == IsFiniteSet(Files) /\ IsFiniteSet(Removers)

VARIABLES
  exists,       \* the answers that have a row
  mediaCount,   \* their media_count
  media,        \* media_files: the row of each file
  object,       \* the files whose object is in the store
  upload,       \* the upload at work on each file, by its awaited call
  removal,      \* the removal at work by each user
  sweep,        \* the sweep: the files it found, those whose objects are left to delete
  lost,         \* history: files a sweep took the object of, and then broke off
  miscounted    \* history: answers whose count was overwritten or went wrong

mediaVars == <<exists, mediaCount, media, object, upload, removal, sweep, lost, miscounted>>

NoUpload == [op |-> "idle"]
NoFile == [state |-> "none"]
NoSweep == [found |-> {}, left |-> {}]

MediaTypeOK ==
  /\ exists \subseteq Targets
  /\ mediaCount \in [Targets -> Int]
  /\ media \in [Files -> {NoFile} \cup
       [state : {"listed", "deleted"}, on : Targets, counted : BOOLEAN,
        sized : BOOLEAN, whole : BOOLEAN]]
  /\ object \subseteq Files
  /\ upload \in [Files -> {NoUpload} \cup
       [op : {"resolve", "placeholder", "put", "insert", "count", "confirm", "over"},
        on : Targets, direct : BOOLEAN]]
  /\ removal \in [Removers -> {NoUpload} \cup [op : {"delete", "uncount"}, file : Files]]
  /\ sweep \in [found : SUBSET Files, left : SUBSET Files] /\ lost \subseteq Files
  /\ miscounted \subseteq Targets

MediaInit ==
  /\ exists = {}
  /\ mediaCount = [t \in Targets |-> 0]
  /\ media = [f \in Files |-> NoFile]
  /\ object = {}
  /\ upload = [f \in Files |-> NoUpload]
  /\ removal = [r \in Removers |-> NoUpload]
  /\ sweep = NoSweep
  /\ lost = {}
  /\ miscounted = {}

Listed(f) == media[f].state = "listed"
Uploading(f, op) == upload[f].op = op
UploadGoto(f, op) == upload' = [upload EXCEPT ![f].op = op]

------------------------------------------------------------------------------
(* uploadDirect: find the answer's row or create a blank one, put the object,  *)
(* insert the file's row, add one to the count.                                *)
(* presign: find or create the answer's row and insert the file's row with no  *)
(* count, and with its size only if the client says it; the client puts the    *)
(* object and confirms it, again with its size or without.                     *)

StartUpload(f, t, direct) ==
  /\ Uploading(f, "idle")
  /\ upload' = [upload EXCEPT ![f] = [op |-> "resolve", on |-> t, direct |-> direct]]
  /\ UNCHANGED <<exists, mediaCount, media, object, removal, sweep, lost, miscounted>>

AfterResolve(f) == IF upload[f].direct THEN "put" ELSE "insert"

Resolve(f) ==
  /\ Uploading(f, "resolve")
  /\ UploadGoto(f, IF upload[f].on \in exists THEN AfterResolve(f) ELSE "placeholder")
  /\ UNCHANGED <<exists, mediaCount, media, object, removal, sweep, lost, miscounted>>

(* One row per inspection and item: the create fails if another came first.    *)
Placeholder(f) ==
  /\ Uploading(f, "placeholder")
  /\ IF upload[f].on \in exists
     THEN UploadGoto(f, "over") /\ UNCHANGED exists
     ELSE UploadGoto(f, AfterResolve(f)) /\ exists' = exists \cup {upload[f].on}
  /\ UNCHANGED <<mediaCount, media, object, removal, sweep, lost, miscounted>>

Put(f) ==
  /\ Uploading(f, "put")
  /\ object' = object \cup {f}
  /\ UploadGoto(f, IF upload[f].direct THEN "insert" ELSE "confirm")
  /\ UNCHANGED <<exists, mediaCount, media, removal, sweep, lost, miscounted>>

Insert(f) ==
  /\ Uploading(f, "insert")
  /\ LET direct == upload[f].direct
     IN  /\ \E sized \in {TRUE, direct} :
              media' = [media EXCEPT ![f] =
                [state |-> "listed", on |-> upload[f].on, counted |-> direct,
                 sized |-> sized, whole |-> direct]]
         /\ UploadGoto(f, IF direct THEN "count" ELSE "put")
  /\ UNCHANGED <<exists, mediaCount, object, removal, sweep, lost, miscounted>>

(* Mutant: the count is set where it should be incremented.                    *)
CountIsOne(f) ==
  /\ Uploading(f, "count")
  /\ mediaCount' = [mediaCount EXCEPT ![upload[f].on] = 1]
  /\ UploadGoto(f, "over")
  /\ UNCHANGED <<exists, media, object, removal, sweep, lost, miscounted>>

CountUp(f) ==
  /\ Uploading(f, "count")
  /\ mediaCount' = [mediaCount EXCEPT ![upload[f].on] = @ + 1]
  /\ UploadGoto(f, "over")
  /\ UNCHANGED <<exists, media, object, removal, sweep, lost, miscounted>>

(* confirm reads a row that is not deleted and then writes the size; a row     *)
(* deleted in between keeps is_deleted, so the two statements are one step.    *)
Confirm(f) ==
  /\ Uploading(f, "confirm") /\ Listed(f)
  /\ \E sized \in {TRUE, media[f].sized} :
       media' = [media EXCEPT ![f].sized = sized, ![f].whole = TRUE]
  /\ UploadGoto(f, "over")
  /\ UNCHANGED <<exists, mediaCount, object, removal, sweep, lost, miscounted>>

(* The client goes away or a statement fails: the upload stops where it is.    *)
(* An error of the count alone is swallowed, and the answer's count is wrong.  *)
UploadFails(f) ==
  /\ upload[f].op \notin {"idle", "over"}
  /\ UploadGoto(f, "over")
  /\ miscounted' = IF Uploading(f, "count") THEN miscounted \cup {upload[f].on} ELSE miscounted
  /\ UNCHANGED <<exists, mediaCount, media, object, removal, sweep, lost>>

------------------------------------------------------------------------------
(* softDelete: read the row, mark it deleted, take one off the count, whether  *)
(* or not the file was ever counted.  The object stays in the store.           *)
RemoveRead(r, f) ==
  /\ removal[r] = NoUpload /\ Listed(f)
  /\ removal' = [removal EXCEPT ![r] = [op |-> "delete", file |-> f]]
  /\ UNCHANGED <<exists, mediaCount, media, object, upload, sweep, lost, miscounted>>

RemoveMark(r) ==
  /\ removal[r].op = "delete"
  /\ LET f == removal[r].file
     IN  /\ media' = [media EXCEPT ![f].state = "deleted"]
         /\ miscounted' = IF Listed(f) /\ media[f].counted THEN miscounted
                          ELSE miscounted \cup {media[f].on}
  /\ removal' = [removal EXCEPT ![r].op = "uncount"]
  /\ UNCHANGED <<exists, mediaCount, object, upload, sweep, lost>>

RemoveUncount(r) ==
  /\ removal[r].op = "uncount"
  /\ mediaCount' = [mediaCount EXCEPT ![media[removal[r].file].on] = @ - 1]
  /\ removal' = [removal EXCEPT ![r] = NoUpload]
  /\ UNCHANGED <<exists, media, object, upload, sweep, lost, miscounted>>

------------------------------------------------------------------------------
(* saveResponses writes the count the form shows (a browser: the files it sees *)
(* now or saw before; a phone: none) over whatever the count is.               *)
SaveForm(t, shown) ==
  /\ mediaCount' = [mediaCount EXCEPT ![t] = shown]
  /\ miscounted' = IF mediaCount[t] # shown THEN miscounted \cup {t} ELSE miscounted
  /\ exists' = exists \cup {t}
  /\ UNCHANGED <<media, object, upload, removal, sweep, lost>>

(* cleanupAbandonedPendingUploads: read the rows a day old that were never     *)
(* sized, delete their objects one after the other, whatever the store says,   *)
(* then mark those rows, as read, deleted.                                     *)
SweepRead ==
  /\ sweep = NoSweep
  /\ LET pending == {f \in Files : Listed(f) /\ ~media[f].sized}
     IN  \E old \in SUBSET pending \ {{}} : sweep' = [found |-> old, left |-> old]
  /\ UNCHANGED <<exists, mediaCount, media, object, upload, removal, lost, miscounted>>

SweepObject(f) ==
  /\ f \in sweep.left
  /\ object' \in {object, object \ {f}}
  /\ sweep' = [sweep EXCEPT !.left = @ \ {f}]
  /\ UNCHANGED <<exists, mediaCount, media, upload, removal, lost, miscounted>>

(* Mutant: the rows are chosen again by their size, not as they were read.     *)
SweepRowsAgain ==
  /\ sweep.found # {} /\ sweep.left = {}
  /\ media' = [f \in Files |-> IF f \in sweep.found /\ ~media[f].sized
                               THEN [media[f] EXCEPT !.state = "deleted"] ELSE media[f]]
  /\ sweep' = NoSweep
  /\ UNCHANGED <<exists, mediaCount, object, upload, removal, lost, miscounted>>

SweepRows ==
  /\ sweep.found # {} /\ sweep.left = {}
  /\ media' = [f \in Files |-> IF f \in sweep.found
                               THEN [media[f] EXCEPT !.state = "deleted"] ELSE media[f]]
  /\ sweep' = NoSweep
  /\ UNCHANGED <<exists, mediaCount, object, upload, removal, lost, miscounted>>

(* A crash, or the last statement fails: the rows stay as they are, and what   *)
(* was deleted of the store stays deleted.                                     *)
SweepFails ==
  /\ sweep.found # {}
  /\ sweep' = NoSweep
  /\ lost' = lost \cup (sweep.found \ sweep.left)
  /\ UNCHANGED <<exists, mediaCount, media, object, upload, removal, miscounted>>

------------------------------------------------------------------------------
MediaNext ==
  \/ \E f \in Files :
       \/ \E t \in Targets, direct \in BOOLEAN : StartUpload(f, t, direct)
       \/ Resolve(f) \/ Placeholder(f) \/ Put(f) \/ Insert(f) \/ CountUp(f)
       \/ Confirm(f) \/ UploadFails(f)
  \/ \E r \in Removers :
       \/ \E f \in Files : RemoveRead(r, f)
       \/ RemoveMark(r) \/ RemoveUncount(r)
  \/ \E t \in Targets, shown \in 0 .. Cardinality(Files) : SaveForm(t, shown)
  \/ SweepRead \/ (\E f \in Files : SweepObject(f)) \/ SweepRows \/ SweepFails

MediaSpec == MediaInit /\ [][MediaNext]_mediaVars

------------------------------------------------------------------------------
(* The count of an answer is the number of its photos on view, give or take    *)
(* the uploads and removals that have not counted yet; excepted are answers    *)
(* whose count a form overwrote, whose counting statement failed, or that lost *)
(* one photo twice or a presigned one, which was never counted in.             *)
CountFollowsPhotos ==
  \A t \in Targets \ miscounted :
    mediaCount[t] =
      Cardinality({f \in Files : Listed(f) /\ media[f].counted /\ media[f].on = t})
      - Cardinality({f \in Files : Uploading(f, "count") /\ media[f].on = t})
      + Cardinality({r \in Removers :
          removal[r].op = "uncount" /\ media[removal[r].file].on = t})

(* A photo on view whose upload was completed (whole) can be opened: the       *)
(* sweep, which deletes objects first and rows later from what it read, leaves *)
(* no row on view without its object, even if the upload is confirmed while it *)
(* is at work or was confirmed without a size and so looks abandoned; only a   *)
(* sweep that breaks off between the two leaves the rows it had come to.       *)
ListedHasContent ==
  \A f \in Files :
    Listed(f) /\ media[f].whole => f \in object \cup (sweep.found \ sweep.left) \cup lost
==============================================================================
