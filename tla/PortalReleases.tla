---------------------------- MODULE PortalReleases ----------------------------
(* What a customer's portal shows of an estimate: not the estimate but the     *)
(* latest snapshot released of it.  A release (a new approval link or an       *)
(* update of the portal) loads the estimate, reads the latest version and      *)
(* inserts the snapshot under the next one, in three statements; versions are  *)
(* unique.  An estimate is the number of its edition: any edit makes the next. *)
EXTENDS Integers, Sequences, FiniteSets

CONSTANTS
  Releasers, Readers,     \* advisors who release, customers who look
  MaxEditions,            \* bound: editions of the estimate
  MaxSnapshots            \* bound: releases begun

ASSUME PortalAssumption ==
  /\ IsFiniteSet(Releasers)
  /\ MaxEditions \in Nat \ {0} /\ MaxSnapshots \in Nat

VARIABLES
  edition,      \* the estimate as it is
  released,     \* customer_portal_snapshots by version: the edition of each
  release,      \* the release of each advisor, by its awaited statement
  view,         \* what each customer's page holds
  begun,        \* releases ever begun
  floor,        \* the edition when the releases now under way began
  promised      \* history: what a page opened from now on must at least show

portalVars == <<edition, released, release, view, begun, floor, promised>>

Editions == 1 .. MaxEditions
NoRelease == [op |-> "idle"]
NoView == [op |-> "closed"]

PortalTypeOK ==
  /\ edition \in Editions
  /\ released \in Seq(Editions) /\ Len(released) <= MaxSnapshots
  /\ release \in [Releasers -> {NoRelease}
       \cup [op : {"load"}]
       \cup [op : {"number"}, shows : Editions]
       \cup [op : {"insert"}, shows : Editions, version : 1 .. MaxSnapshots]]
  /\ view \in [Readers -> {NoView}
       \cup [op : {"opening", "open"}, shows : Editions, due : 0 .. MaxEditions]]
  /\ begun \in 0 .. MaxSnapshots
  /\ {floor, promised} \subseteq 0 .. MaxEditions

PortalInit ==
  /\ edition = 1
  /\ released = <<>>
  /\ release = [r \in Releasers |-> NoRelease]
  /\ view = [c \in Readers |-> NoView]
  /\ begun = 0 /\ floor = 0 /\ promised = 0

Latest == released[Len(released)]

EditEstimate ==
  /\ edition < MaxEditions
  /\ edition' = edition + 1
  /\ UNCHANGED <<released, release, view, begun, floor, promised>>

------------------------------------------------------------------------------
(* requestAuthorisation and releasePortalUpdate: the job is read and a link    *)
(* made; whatever fails later, the link stays good.                            *)
BeginRelease(r) ==
  /\ release[r] = NoRelease /\ begun < MaxSnapshots
  /\ begun' = begun + 1
  /\ release' = [release EXCEPT ![r] = [op |-> "load"]]
  /\ floor' = IF \A o \in Releasers : release[o] = NoRelease THEN edition ELSE floor
  /\ UNCHANGED <<edition, released, view, promised>>

(* Mutant: the payload is loaded as a customer's page would load it.           *)
LoadReleased(r) ==
  /\ release[r].op = "load"
  /\ release' = [release EXCEPT ![r] =
       [op |-> "number", shows |-> IF released = <<>> THEN edition ELSE Latest]]
  /\ UNCHANGED <<edition, released, view, begun, floor, promised>>

(* loadPortal without snapshots: the estimate as it is.                        *)
LoadEstimate(r) ==
  /\ release[r].op = "load"
  /\ release' = [release EXCEPT ![r] = [op |-> "number", shows |-> edition]]
  /\ UNCHANGED <<edition, released, view, begun, floor, promised>>

(* The latest version plus one; a read that fails counts as none.              *)
ReadVersion(r) ==
  /\ release[r].op = "number"
  /\ \E version \in {1, Len(released) + 1} :
       release' = [release EXCEPT ![r] =
         [op |-> "insert", shows |-> @.shows, version |-> version]]
  /\ UNCHANGED <<edition, released, view, begun, floor, promised>>

(* A version that is taken by now fails the release; what was promised by an   *)
(* advisor's success is the estimate as it was when the first of the releases  *)
(* under way began.                                                            *)
InsertSnapshot(r) ==
  /\ release[r].op = "insert"
  /\ IF release[r].version = Len(released) + 1
     THEN /\ released' = Append(released, release[r].shows)
          /\ promised' = floor
     ELSE UNCHANGED <<released, promised>>
  /\ release' = [release EXCEPT ![r] = NoRelease]
  /\ UNCHANGED <<edition, view, begun, floor>>

ReleaseFails(r) ==
  /\ release[r] # NoRelease
  /\ release' = [release EXCEPT ![r] = NoRelease]
  /\ UNCHANGED <<edition, released, view, begun, floor, promised>>

------------------------------------------------------------------------------
(* A customer opens the link: loadPortal reads the token with the estimate as  *)
(* it is, then the latest snapshot, and shows the estimate if there is none or *)
(* that read fails.                                                            *)
OpenPortal(c) ==
  /\ view' = [view EXCEPT ![c] =
       [op |-> "opening", shows |-> edition, due |-> promised]]
  /\ UNCHANGED <<edition, released, release, begun, floor, promised>>

ShowPortal(c) ==
  /\ view[c].op = "opening"
  /\ \E found \in BOOLEAN :
       view' = [view EXCEPT ![c].op = "open",
         ![c].shows = IF found /\ released # <<>> THEN Latest ELSE @]
  /\ UNCHANGED <<edition, released, release, begun, floor, promised>>

PortalNext ==
  \/ EditEstimate
  \/ \E r \in Releasers :
       \/ BeginRelease(r) \/ LoadEstimate(r) \/ ReadVersion(r) \/ InsertSnapshot(r)
       \/ ReleaseFails(r)
  \/ \E c \in Readers : OpenPortal(c) \/ ShowPortal(c)

PortalSpec == PortalInit /\ [][PortalNext]_portalVars

------------------------------------------------------------------------------
(* What an advisor released reaches the customer: a page opened after a        *)
(* release succeeded shows the estimate no older than it was when that release *)
(* began, or, if releases overlapped and the slower one's older payload took   *)
(* the later version, than when the first of them began.                       *)
ReleasesReachThePortal ==
  \A c \in Readers : view[c].op = "open" => view[c].shows >= view[c].due
==============================================================================
