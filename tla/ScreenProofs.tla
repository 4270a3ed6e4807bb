---------------------------- MODULE ScreenProofs ------------------------------
(***************************************************************************)
(* Proofs about the copies that screens hold: PortalReleases, for any      *)
(* advisors and customers and any number of editions and releases;         *)
(* JobsBoard, for any jobs, moves and fetches; and InspectionForm, for any *)
(* inspections, items, answers, browsers and phones.                       *)
(***************************************************************************)
EXTENDS PortalReleases, JobsBoard, InspectionForm, SequenceTheorems,
        FiniteSetTheorems, TLAPS

-----------------------------------------------------------------------------
(* The releases of the portal. *)

Releases ==
  {NoRelease} \cup [op : {"load"}] \cup [op : {"number"}, shows : Nat]
    \cup [op : {"insert"}, shows : Nat, version : Nat]

Views == {NoView} \cup [op : {"opening", "open"}, shows : Nat, due : Nat]

ReleaseShapes ==
  /\ edition \in Nat /\ floor \in Nat /\ promised \in Nat /\ begun \in Nat
  /\ released \in Seq(Nat)
  /\ release \in [Releasers -> Releases]
  /\ view \in [Readers -> Views]

(* Nothing older than the floor is on its way in, and what is promised is at   *)
(* most the floor: whichever release wins the next version keeps the promise.  *)
CarriesNothingOlder ==
  /\ promised <= floor /\ floor <= edition
  /\ \A r \in Releasers : release[r].op \in {"number", "insert"} => release[r].shows >= floor

LatestKeepsPromise ==
  IF released = <<>> THEN promised = 0 ELSE Latest >= promised

PagesKeepPromise ==
  \A c \in Readers : view[c] # NoView =>
    view[c].due <= promised /\ view[c].due <= view[c].shows

ReleaseSound ==
  ReleaseShapes /\ CarriesNothingOlder /\ LatestKeepsPromise /\ PagesKeepPromise

LEMMA ReleaseStarts == PortalInit => ReleaseSound
BY DEF PortalInit, ReleaseSound, ReleaseShapes, CarriesNothingOlder, LatestKeepsPromise,
       PagesKeepPromise, Releases, Views, NoRelease

\* What a release under way carries, by the statement it awaits.
LEMMA ReleaseInFlight ==
  ASSUME ReleaseShapes, NEW r \in Releasers
  PROVE  /\ release[r].op = "number" => release[r] \in [op : {"number"}, shows : Nat]
         /\ release[r].op = "insert" => release[r] \in [op : {"insert"}, shows : Nat, version : Nat]
<1>1. release[r] \in Releases  BY DEF ReleaseShapes
<1> QED BY <1>1 DEF Releases, NoRelease

\* A page that is opening or open has an edition and what it was due.
LEMMA PageInHand ==
  ASSUME ReleaseShapes, NEW c \in Readers, view[c].op \in {"opening", "open"}
  PROVE  view[c] # NoView /\ view[c] \in [op : {"opening", "open"}, shows : Nat, due : Nat]
BY DEF ReleaseShapes, Views, NoView

\* A release begins when the promise is at most the estimate as it is.
LEMMA BeginKeepsSound ==
  ASSUME ReleaseSound, NEW r \in Releasers, BeginRelease(r)
  PROVE  ReleaseSound'
<1> USE DEF ReleaseSound, BeginRelease
<1>1. ReleaseShapes'  BY DEF ReleaseShapes, Releases
<1>2. CarriesNothingOlder'
  <2>1. promised' <= floor' /\ floor' <= edition'
    BY DEF ReleaseShapes, CarriesNothingOlder
  <2>2. ASSUME NEW o \in Releasers, release'[o].op \in {"number", "insert"}
        PROVE  release'[o].shows >= floor'
    <3>1. o # r /\ release'[o] = release[o]  BY <2>2 DEF ReleaseShapes
    <3>2. release[o] # NoRelease  BY <2>2, <3>1 DEF NoRelease
    <3>3. floor' = floor  BY <3>2
    <3> QED BY <2>2, <3>1, <3>3 DEF CarriesNothingOlder
  <2> QED BY <2>1, <2>2 DEF CarriesNothingOlder
<1>3. LatestKeepsPromise' /\ PagesKeepPromise'
  BY DEF LatestKeepsPromise, Latest, PagesKeepPromise
<1> QED BY <1>1, <1>2, <1>3

\* The estimate loaded is no older than the floor, and keeps its edition.
LEMMA LoadKeepsSound ==
  ASSUME ReleaseSound, NEW r \in Releasers, LoadEstimate(r) \/ ReadVersion(r)
  PROVE  ReleaseSound'
<1>1. LatestKeepsPromise' /\ PagesKeepPromise'
  BY DEF ReleaseSound, LoadEstimate, ReadVersion, LatestKeepsPromise, Latest, PagesKeepPromise
<1>2. CASE LoadEstimate(r)
  <2>1. ReleaseShapes'
    BY <1>2 DEF ReleaseSound, LoadEstimate, ReleaseShapes, Releases
  <2>2. CarriesNothingOlder'
    BY <1>2 DEF ReleaseSound, LoadEstimate, ReleaseShapes, CarriesNothingOlder
  <2> QED BY <1>1, <2>1, <2>2 DEF ReleaseSound
<1>3. CASE ReadVersion(r)
  <2>1. release[r] \in [op : {"number"}, shows : Nat]
    BY <1>3, ReleaseInFlight DEF ReleaseSound, ReadVersion
  <2>2. PICK version \in {1, Len(released) + 1} :
          release' = [release EXCEPT ![r] =
            [op |-> "insert", shows |-> release[r].shows, version |-> version]]
    BY <1>3 DEF ReadVersion
  <2>3. version \in Nat  BY DEF ReleaseSound, ReleaseShapes
  <2>4. ReleaseShapes'
    BY <1>3, <2>1, <2>2, <2>3 DEF ReleaseSound, ReadVersion, ReleaseShapes, Releases
  <2>5. CarriesNothingOlder'
    BY <1>3, <2>1, <2>2 DEF ReleaseSound, ReadVersion, ReleaseShapes, CarriesNothingOlder
  <2> QED BY <1>1, <2>4, <2>5 DEF ReleaseSound
<1> QED BY <1>2, <1>3

\* The snapshot that is inserted is no older than what is promised from then on.
LEMMA InsertKeepsSound ==
  ASSUME ReleaseSound, NEW r \in Releasers, InsertSnapshot(r)
  PROVE  ReleaseSound'
<1>1. release[r] \in [op : {"insert"}, shows : Nat, version : Nat]
  BY ReleaseInFlight DEF ReleaseSound, InsertSnapshot
<1>2. release[r].shows >= floor  BY DEF ReleaseSound, CarriesNothingOlder, InsertSnapshot
<1>3. release' = [release EXCEPT ![r] = NoRelease] /\ UNCHANGED <<edition, view, begun, floor>>
  BY DEF InsertSnapshot
<1>4. \/ UNCHANGED <<released, promised>>
      \/ released' = Append(released, release[r].shows) /\ promised' = floor
  BY DEF InsertSnapshot
<1>5. promised <= promised' /\ promised' <= floor'
  BY <1>3, <1>4 DEF ReleaseSound, ReleaseShapes, CarriesNothingOlder
<1>6. ReleaseShapes'
  <2>1. release' \in [Releasers -> Releases]
    BY <1>3 DEF ReleaseSound, ReleaseShapes, Releases
  <2>2. release[r].shows \in Nat /\ released \in Seq(Nat)
    BY <1>1 DEF ReleaseSound, ReleaseShapes
  <2>3. Append(released, release[r].shows) \in Seq(Nat)  BY <2>2
  <2>4. released' \in Seq(Nat) /\ promised' \in Nat
    BY <1>4, <2>3 DEF ReleaseSound, ReleaseShapes
  <2> QED BY <1>3, <2>1, <2>4 DEF ReleaseSound, ReleaseShapes
<1>7. CarriesNothingOlder'
  BY <1>3, <1>5 DEF ReleaseSound, ReleaseShapes, CarriesNothingOlder, NoRelease
<1>8. LatestKeepsPromise'
  <2>1. CASE UNCHANGED <<released, promised>>
    BY <2>1 DEF ReleaseSound, LatestKeepsPromise, Latest
  <2>2. CASE released' = Append(released, release[r].shows) /\ promised' = floor
    <3>1. released' # <<>> /\ released'[Len(released')] = release[r].shows
      <4>1. release[r].shows \in Nat /\ released \in Seq(Nat)
        BY <1>1 DEF ReleaseSound, ReleaseShapes
      <4> QED BY ONLY <2>2, <4>1
    <3> QED BY <1>2, <2>2, <3>1 DEF LatestKeepsPromise, Latest
  <2> QED BY <1>4, <2>1, <2>2
<1>9. PagesKeepPromise'
  <2> SUFFICES ASSUME NEW c \in Readers, view[c] # NoView
               PROVE  view[c].due <= promised' /\ view[c].due <= view[c].shows
    BY <1>3 DEF PagesKeepPromise
  <2>1. view[c].due \in Nat  BY DEF ReleaseSound, ReleaseShapes, Views
  <2> QED BY <1>5, <1>6, <2>1 DEF ReleaseSound, ReleaseShapes, PagesKeepPromise
<1> QED BY <1>6, <1>7, <1>8, <1>9 DEF ReleaseSound

\* A page is due what is promised when its token is read, and shows no less.
LEMMA PageKeepsSound ==
  ASSUME ReleaseSound, NEW c \in Readers, OpenPortal(c) \/ ShowPortal(c)
  PROVE  ReleaseSound'
<1>1. CarriesNothingOlder' /\ LatestKeepsPromise'
  BY DEF ReleaseSound, OpenPortal, ShowPortal, CarriesNothingOlder, LatestKeepsPromise, Latest
<1>2. CASE OpenPortal(c)
  <2>1. ReleaseShapes'
    BY <1>2 DEF ReleaseSound, OpenPortal, ReleaseShapes, Views
  <2>2. PagesKeepPromise'
    BY <1>2 DEF ReleaseSound, OpenPortal, ReleaseShapes, PagesKeepPromise, CarriesNothingOlder
  <2> QED BY <1>1, <2>1, <2>2 DEF ReleaseSound
<1>3. CASE ShowPortal(c)
  <2>1. /\ view[c] # NoView
        /\ view[c] \in [op : {"opening", "open"}, shows : Nat, due : Nat]
    BY <1>3, PageInHand DEF ReleaseSound, ShowPortal
  <2>2. PICK shows \in Nat :
          /\ view' = [view EXCEPT ![c] = [view[c] EXCEPT !.op = "open", !.shows = shows]]
          /\ shows >= view[c].due
    <3>1. PICK found \in BOOLEAN :
            view' = [view EXCEPT ![c].op = "open",
              ![c].shows = IF found /\ released # <<>> THEN Latest ELSE @]
      BY <1>3 DEF ShowPortal
    <3> DEFINE shows == IF found /\ released # <<>> THEN Latest ELSE view[c].shows
    <3>2. released # <<>> => Latest \in Nat /\ Latest >= promised
      BY DEF ReleaseSound, ReleaseShapes, LatestKeepsPromise, Latest
    <3>3. view[c].due <= promised /\ view[c].due <= view[c].shows
      BY <2>1 DEF ReleaseSound, PagesKeepPromise
    <3>4. shows \in Nat /\ shows >= view[c].due
      BY <2>1, <3>2, <3>3 DEF ReleaseSound, ReleaseShapes
    <3>5. view' = [view EXCEPT ![c] = [view[c] EXCEPT !.op = "open", !.shows = shows]]
      BY <3>1, <2>1 DEF ReleaseSound, ReleaseShapes
    <3> QED BY <3>4, <3>5
  <2>3. /\ view'[c] = [view[c] EXCEPT !.op = "open", !.shows = shows]
        /\ \A d \in Readers \ {c} : view'[d] = view[d]
    BY <2>2 DEF ReleaseSound, ReleaseShapes
  <2>4. ReleaseShapes'
    BY <1>3, <2>1, <2>2 DEF ReleaseSound, ShowPortal, ReleaseShapes, Views
  <2>5. PagesKeepPromise'
    <3>1. view'[c].due = view[c].due /\ view'[c].shows = shows  BY <2>1, <2>3
    <3>2. promised' = promised  BY <1>3 DEF ShowPortal
    <3>3. view[c].due <= promised  BY <2>1 DEF ReleaseSound, PagesKeepPromise
    <3>4. view'[c].due <= promised' /\ view'[c].due <= view'[c].shows
      BY <2>1, <2>2, <3>1, <3>2, <3>3
    <3> QED BY <2>3, <3>2, <3>4 DEF ReleaseSound, PagesKeepPromise
  <2> QED BY <1>1, <2>4, <2>5 DEF ReleaseSound
<1> QED BY <1>2, <1>3

LEMMA ReleaseKeepsSound ==
  ASSUME ReleaseSound, [PortalNext]_portalVars
  PROVE  ReleaseSound'
<1>1. CASE EditEstimate
  BY <1>1 DEF EditEstimate, ReleaseSound, ReleaseShapes, CarriesNothingOlder,
              LatestKeepsPromise, Latest, PagesKeepPromise
<1>2. ASSUME NEW r \in Releasers, ReleaseFails(r)
      PROVE  ReleaseSound'
  BY <1>2 DEF ReleaseFails, ReleaseSound, ReleaseShapes, CarriesNothingOlder, Releases,
              NoRelease, LatestKeepsPromise, Latest, PagesKeepPromise
<1>3. CASE UNCHANGED portalVars
  BY <1>3 DEF portalVars, ReleaseSound, ReleaseShapes, CarriesNothingOlder,
              LatestKeepsPromise, Latest, PagesKeepPromise
<1> QED
  BY <1>1, <1>2, <1>3, BeginKeepsSound, LoadKeepsSound, InsertKeepsSound, PageKeepsSound
     DEF PortalNext

LEMMA SoundReaches == ReleaseSound => ReleasesReachThePortal
<1> SUFFICES ASSUME ReleaseSound, NEW c \in Readers, view[c].op = "open"
             PROVE  view[c].shows >= view[c].due
  BY DEF ReleasesReachThePortal
<1>1. view[c] # NoView /\ view[c] \in [op : {"opening", "open"}, shows : Nat, due : Nat]
  BY PageInHand DEF ReleaseSound
<1> QED BY <1>1 DEF ReleaseSound, PagesKeepPromise

(* What an advisor was told is released reaches the customer, whatever the     *)
(* order in which any number of releases, edits and visits overlap and fail.   *)
THEOREM ReleasedIsShown == PortalSpec => []ReleasesReachThePortal
<1>1. PortalInit => ReleaseSound  BY ReleaseStarts
<1>2. ReleaseSound /\ [PortalNext]_portalVars => ReleaseSound'  BY ReleaseKeepsSound
<1> QED BY <1>1, <1>2, SoundReaches, PTL DEF PortalSpec

(* The types of the portal.  A release begun is under way, has left at most    *)
(* one snapshot or has failed, so versions stay within the releases begun.     *)
ReleasesOpen == {r \in Releasers : release[r] # NoRelease}

EachLeavesOne == Cardinality(ReleasesOpen) + Len(released) <= begun

ReleaseCalls ==
  {NoRelease} \cup [op : {"load"}] \cup [op : {"number"}, shows : Editions]
    \cup [op : {"insert"}, shows : Editions, version : 1 .. MaxSnapshots]

PortalPages == {NoView} \cup [op : {"opening", "open"}, shows : Editions, due : 0 .. MaxEditions]

PortalTyped == PortalTypeOK /\ EachLeavesOne

LEMMA ReleasesFinite ==
  /\ IsFiniteSet(ReleasesOpen) /\ Cardinality(ReleasesOpen) \in Nat
  /\ IsFiniteSet(ReleasesOpen') /\ Cardinality(ReleasesOpen') \in Nat
<1>1. IsFiniteSet(Releasers) /\ ReleasesOpen \in SUBSET Releasers /\ ReleasesOpen' \in SUBSET Releasers
  BY PortalAssumption DEF ReleasesOpen
<1> QED BY <1>1, FS_Subset, FS_CardinalityType

\* What is under way while a release begins, goes on or ends.
LEMMA ReleaseMoves ==
  ASSUME PortalTypeOK, NEW r \in Releasers, NEW next \in ReleaseCalls,
         release' = [release EXCEPT ![r] = next]
  PROVE  /\ release' \in [Releasers -> ReleaseCalls]
         /\ release[r] = NoRelease /\ next # NoRelease =>
              Cardinality(ReleasesOpen') = Cardinality(ReleasesOpen) + 1
         /\ release[r] # NoRelease /\ next = NoRelease =>
              Cardinality(ReleasesOpen') = Cardinality(ReleasesOpen) - 1
         /\ release[r] # NoRelease /\ next # NoRelease => ReleasesOpen' = ReleasesOpen
<1>1. release \in [Releasers -> ReleaseCalls]
  BY DEF PortalTypeOK, ReleaseCalls
<1>2. release' \in [Releasers -> ReleaseCalls] /\ release'[r] = next
      /\ \A o \in Releasers \ {r} : release'[o] = release[o]
  BY <1>1
<1>3. CASE release[r] = NoRelease /\ next # NoRelease
  <2>1. ReleasesOpen' = ReleasesOpen \cup {r} /\ r \notin ReleasesOpen
    BY <1>2, <1>3 DEF ReleasesOpen
  <2>2. Cardinality(ReleasesOpen') = Cardinality(ReleasesOpen) + 1
    BY <2>1, ReleasesFinite, FS_AddElement
  <2> QED BY <1>2, <1>3, <2>2
<1>4. CASE release[r] # NoRelease /\ next = NoRelease
  <2>1. ReleasesOpen' = ReleasesOpen \ {r} /\ r \in ReleasesOpen
    BY <1>2, <1>4 DEF ReleasesOpen
  <2>2. Cardinality(ReleasesOpen') = Cardinality(ReleasesOpen) - 1
    BY <2>1, ReleasesFinite, FS_RemoveElement
  <2> QED BY <1>2, <1>4, <2>2
<1>5. CASE (release[r] = NoRelease) = (next = NoRelease)
  <2>1. ReleasesOpen' = ReleasesOpen
    BY <1>2, <1>5 DEF ReleasesOpen
  <2> QED BY <1>2, <1>5, <2>1
<1> QED BY <1>3, <1>4, <1>5

\* A release that is neither loading nor at rest carries an edition.
LEMMA ReleaseCarries ==
  ASSUME PortalTypeOK, NEW r \in Releasers
  PROVE  /\ release[r].op = "number" => release[r].shows \in Editions
         /\ release[r].op = "insert" => release[r].shows \in Editions
         /\ release[r].op \in {"load", "number", "insert"} => release[r] # NoRelease
BY DEF PortalTypeOK, NoRelease

LEMMA ReleaseKeepsTypes ==
  ASSUME PortalTyped, NEW r \in Releasers,
         BeginRelease(r) \/ LoadEstimate(r) \/ ReadVersion(r) \/ InsertSnapshot(r)
           \/ ReleaseFails(r)
  PROVE  PortalTyped'
<1>1. /\ edition \in Editions /\ begun \in 0 .. MaxSnapshots
      /\ released \in Seq(Editions) /\ Len(released) <= MaxSnapshots
      /\ release \in [Releasers -> ReleaseCalls] /\ view \in [Readers -> PortalPages]
      /\ floor \in 0 .. MaxEditions /\ promised \in 0 .. MaxEditions
      /\ MaxEditions \in Nat \ {0} /\ MaxSnapshots \in Nat
  BY PortalAssumption DEF PortalTyped, PortalTypeOK, ReleaseCalls, PortalPages
<1>2. /\ Cardinality(ReleasesOpen) \in Nat /\ Cardinality(ReleasesOpen') \in Nat
      /\ Len(released) \in Nat /\ begun \in Nat
      /\ Cardinality(ReleasesOpen) + Len(released) <= begun
  BY <1>1, ReleasesFinite DEF PortalTyped, EachLeavesOne
<1>3. r \in ReleasesOpen => Cardinality(ReleasesOpen) # 0
  BY ReleasesFinite, FS_EmptySet
<1>4. CASE BeginRelease(r)
  <2>1. /\ release' = [release EXCEPT ![r] = [op |-> "load"]] /\ release[r] = NoRelease
        /\ begun' = begun + 1 /\ begun < MaxSnapshots
        /\ floor' \in {floor, edition} /\ UNCHANGED <<edition, released, view, promised>>
    BY <1>4 DEF BeginRelease
  <2>2. [op |-> "load"] \in ReleaseCalls /\ [op |-> "load"] # NoRelease
    BY DEF ReleaseCalls, NoRelease
  <2>3. release' \in [Releasers -> ReleaseCalls]
        /\ Cardinality(ReleasesOpen') = Cardinality(ReleasesOpen) + 1
    BY <2>1, <2>2, ReleaseMoves DEF PortalTyped
  <2>4. floor' \in 0 .. MaxEditions
    BY <1>1, <2>1 DEF Editions
  <2> QED BY <1>1, <1>2, <2>1, <2>3, <2>4
          DEF PortalTyped, PortalTypeOK, EachLeavesOne, ReleaseCalls, PortalPages
<1>5. CASE LoadEstimate(r)
  <2>1. PICK next : next = [op |-> "number", shows |-> edition]
    OBVIOUS
  <2>2. next \in ReleaseCalls /\ next # NoRelease /\ release' = [release EXCEPT ![r] = next]
    BY <1>1, <1>5, <2>1 DEF ReleaseCalls, NoRelease, LoadEstimate
  <2>3. release' \in [Releasers -> ReleaseCalls] /\ ReleasesOpen' = ReleasesOpen
    BY <1>5, <2>2, ReleaseMoves, ReleaseCarries DEF PortalTyped, LoadEstimate
  <2> QED BY <1>1, <1>2, <1>5, <2>3
          DEF PortalTyped, PortalTypeOK, EachLeavesOne, ReleaseCalls, PortalPages, LoadEstimate
<1>6. CASE ReadVersion(r)
  <2>1. release[r].op = "number" /\ release[r].shows \in Editions /\ release[r] # NoRelease
    BY <1>6, ReleaseCarries DEF ReadVersion, PortalTyped
  <2>2. r \in ReleasesOpen
    BY <2>1 DEF ReleasesOpen
  <2>3. Len(released) + 1 <= MaxSnapshots
    BY <1>1, <1>2, <1>3, <2>2
  <2>4. PICK version \in {1, Len(released) + 1} :
          release' = [release EXCEPT ![r] =
            [op |-> "insert", shows |-> @.shows, version |-> version]]
    BY <1>6 DEF ReadVersion
  <2>5. PICK next : next = [op |-> "insert", shows |-> release[r].shows, version |-> version]
    OBVIOUS
  <2>6. next \in ReleaseCalls /\ next # NoRelease
    BY <1>2, <1>1, <2>1, <2>3, <2>5 DEF ReleaseCalls, NoRelease
  <2>7. release' = [release EXCEPT ![r] = next]
    BY <2>4, <2>5, <1>1
  <2>8. release' \in [Releasers -> ReleaseCalls] /\ ReleasesOpen' = ReleasesOpen
    BY <2>1, <2>6, <2>7, ReleaseMoves DEF PortalTyped
  <2> QED BY <1>1, <1>2, <1>6, <2>8
          DEF PortalTyped, PortalTypeOK, EachLeavesOne, ReleaseCalls, PortalPages, ReadVersion
<1>7. CASE InsertSnapshot(r) \/ ReleaseFails(r)
  <2>1. /\ release' = [release EXCEPT ![r] = NoRelease] /\ release[r] # NoRelease
        /\ UNCHANGED <<edition, view, begun, floor>>
    BY <1>7, ReleaseCarries DEF InsertSnapshot, ReleaseFails, PortalTyped
  <2>2. r \in ReleasesOpen /\ NoRelease \in ReleaseCalls
    BY <2>1 DEF ReleasesOpen, ReleaseCalls
  <2>3. release' \in [Releasers -> ReleaseCalls]
        /\ Cardinality(ReleasesOpen') = Cardinality(ReleasesOpen) - 1
    BY <2>1, <2>2, ReleaseMoves DEF PortalTyped
  <2>4. promised' \in {promised, floor}
    BY <1>7 DEF InsertSnapshot, ReleaseFails
  <2>5. released' \in Seq(Editions) /\ Len(released') <= Len(released) + 1 /\ Len(released') \in Nat
    <3>1. CASE released' = released
      BY <1>1, <1>2, <3>1
    <3>2. CASE released' # released
      <4>1. release[r].shows \in Editions /\ released' = Append(released, release[r].shows)
        BY <1>7, <3>2, ReleaseCarries DEF InsertSnapshot, ReleaseFails, PortalTyped
      <4> QED BY <1>1, <1>2, <4>1
    <3> QED BY <3>1, <3>2
  <2>6. Cardinality(ReleasesOpen') + Len(released') <= begun' /\ Len(released') <= MaxSnapshots
    BY <1>1, <1>2, <1>3, <2>1, <2>2, <2>3, <2>5
  <2> QED BY <1>1, <2>1, <2>3, <2>4, <2>5, <2>6
          DEF PortalTyped, PortalTypeOK, EachLeavesOne, ReleaseCalls, PortalPages
<1> QED BY <1>4, <1>5, <1>6, <1>7

\* Edits and customers leave the releases alone.
LEMMA OthersKeepTypes ==
  ASSUME PortalTyped,
         EditEstimate \/ (\E c \in Readers : OpenPortal(c) \/ ShowPortal(c)) \/ UNCHANGED portalVars
  PROVE  PortalTyped'
<1>1. /\ edition \in Editions /\ view \in [Readers -> PortalPages] /\ promised \in 0 .. MaxEditions
      /\ released \in Seq(Editions) /\ MaxEditions \in Nat \ {0}
  BY PortalAssumption DEF PortalTyped, PortalTypeOK, PortalPages
<1>2. UNCHANGED <<released, release, begun, floor, promised>>
  BY DEF EditEstimate, OpenPortal, ShowPortal, portalVars
<1>3. EachLeavesOne'
  BY <1>2 DEF PortalTyped, EachLeavesOne, ReleasesOpen
<1>4. edition' \in Editions
  <2>1. CASE EditEstimate
    BY <1>1, <2>1 DEF EditEstimate, Editions
  <2>2. CASE ~EditEstimate
    BY <1>1, <2>2 DEF OpenPortal, ShowPortal, portalVars
  <2> QED BY <2>1, <2>2
<1>5. view' \in [Readers -> PortalPages]
  <2>1. ASSUME NEW c \in Readers, OpenPortal(c)
        PROVE  view' \in [Readers -> PortalPages]
    BY <1>1, <2>1 DEF OpenPortal, PortalPages
  <2>2. ASSUME NEW c \in Readers, ShowPortal(c)
        PROVE  view' \in [Readers -> PortalPages]
    <3>1. view[c] \in [op : {"opening", "open"}, shows : Editions, due : 0 .. MaxEditions]
      BY <1>1, <2>2 DEF ShowPortal, PortalPages, NoView
    <3>2. released # <<>> => Latest \in Editions
      BY <1>1 DEF Latest
    <3>3. PICK found \in BOOLEAN :
            view' = [view EXCEPT ![c].op = "open",
              ![c].shows = IF found /\ released # <<>> THEN Latest ELSE @]
      BY <2>2 DEF ShowPortal
    <3>4. PICK shows \in Editions : shows = IF found /\ released # <<>> THEN Latest ELSE view[c].shows
      BY <3>1, <3>2
    <3>5. view' = [view EXCEPT ![c] = [view[c] EXCEPT !.op = "open", !.shows = shows]]
      BY <1>1, <3>1, <3>3, <3>4
    <3>6. [view[c] EXCEPT !.op = "open", !.shows = shows] \in PortalPages
      BY <3>1 DEF PortalPages
    <3> QED BY <1>1, <3>5, <3>6
  <2> QED BY <1>1, <2>1, <2>2 DEF EditEstimate, portalVars
<1> QED BY <1>2, <1>3, <1>4, <1>5 DEF PortalTyped, PortalTypeOK, PortalPages

(* The portal's tables keep their types: no more versions than releases begun. *)
THEOREM PortalTyping == PortalSpec => []PortalTypeOK
<1>1. PortalInit => PortalTyped
  <2> SUFFICES ASSUME PortalInit  PROVE PortalTyped
    OBVIOUS
  <2>1. ReleasesOpen = {} /\ Len(released) = 0
    BY DEF PortalInit, ReleasesOpen
  <2>2. EachLeavesOne
    BY <2>1, FS_EmptySet DEF PortalInit, EachLeavesOne
  <2> QED BY <2>1, <2>2, PortalAssumption DEF PortalInit, PortalTyped, PortalTypeOK, Editions
<1>2. PortalTyped /\ [PortalNext]_portalVars => PortalTyped'
  BY ReleaseKeepsTypes, OthersKeepTypes DEF PortalNext
<1>3. PortalTyped => PortalTypeOK
  BY DEF PortalTyped
<1> QED BY <1>1, <1>2, <1>3, PTL DEF PortalSpec

-----------------------------------------------------------------------------
(* The board. *)

UnderWay(m) == move[m] # NoMove

(* Every list the board holds or may put back shows offers the server made for *)
(* a status the job had.                                                       *)
OffersHad(list) ==
  \A j \in BoardJobs : \E s \in had[j] : list[j].offers = Table!Transitions[s]

ShowsHad(list) == \A j \in BoardJobs : list[j].status \in had[j]

BoardSound ==
  /\ BoardTypeOK
  /\ \A j \in BoardJobs : real[j] \in had[j]
  /\ OffersHad(shown)
  /\ \A f \in Fetches : fetch[f] # <<>> => OffersHad(fetch[f]) /\ ShowsHad(fetch[f])
  /\ \A m \in Moves : UnderWay(m) => OffersHad(move[m].before)
  /\ \A m \in Moves : move[m].op = "done" => move[m].to \in had[move[m].job]
  /\ atOnce <= 1 =>
       /\ \A m, n \in Moves : UnderWay(m) /\ UnderWay(n) => m = n
       /\ \A m \in Moves : UnderWay(m) => ShowsHad(move[m].before)
       /\ \A j \in BoardJobs :
            shown[j].status \in had[j] \/ \E m \in Moves :
              UnderWay(m) /\ move[m].job = j /\ shown[j].status = move[m].to

UnderWayMoves ==
  [op : {"sent", "done", "refused"}, job : BoardJobs, to : Table!Statuses,
   lane : BOOLEAN, before : Cards]

LEMMA BoardStarts == BoardInit => BoardSound
<1> SUFFICES ASSUME BoardInit PROVE BoardSound
  OBVIOUS
<1>1. First \in Table!Statuses /\ IsFiniteSet(Moves) /\ MaxChanges \in Nat
  BY BoardAssumption
<1>2. Table!Transitions[First] \in SUBSET Table!Statuses
  BY <1>1 DEF Table!Transitions, Table!Statuses
<1>3. Cardinality(Moves) \in Nat
  BY <1>1, FS_CardinalityType
<1>4. BoardTypeOK
  BY <1>1, <1>2, <1>3 DEF BoardTypeOK, BoardInit, Cards, Card
<1> QED
  BY <1>4 DEF BoardInit, BoardSound, OffersHad, ShowsHad, UnderWay, NoMove, Card

(* A move under way has all its fields; the others are idle.                   *)
LEMMA MoveFields ==
  ASSUME BoardSound, NEW m \in Moves
  PROVE  /\ move[m] = NoMove \/ move[m] \in UnderWayMoves
         /\ UnderWay(m) <=> move[m].op # "idle"
         /\ UnderWay(m) => /\ move[m].op \in {"sent", "done", "refused"}
                           /\ move[m].job \in BoardJobs /\ move[m].to \in Table!Statuses
                           /\ move[m].before \in Cards
<1>1. move[m] = NoMove \/ move[m] \in UnderWayMoves
  BY DEF BoardSound, BoardTypeOK, UnderWayMoves
<1> QED BY <1>1 DEF UnderWayMoves, UnderWay, NoMove

(* What the server reads is the status each job has, with its offers.          *)
LEMMA ServerListHad ==
  ASSUME BoardSound
  PROVE  ServerList \in Cards /\ OffersHad(ServerList) /\ ShowsHad(ServerList)
<1>1. \A s \in Table!Statuses : Table!Transitions[s] \in SUBSET Table!Statuses
  BY DEF Table!Transitions, Table!Statuses
<1>2. \A j \in BoardJobs : real[j] \in Table!Statuses /\ real[j] \in had[j]
  BY DEF BoardSound, BoardTypeOK
<1>3. ServerList \in Cards
  BY <1>1, <1>2 DEF ServerList, Card, Cards
<1> QED BY <1>2, <1>3 DEF ServerList, Card, OffersHad, ShowsHad

(* A status the server gives a job takes away none the job had.                *)
LEMMA ChangeHad ==
  ASSUME BoardSound, NEW k \in BoardJobs, NEW to \in Table!Statuses, Change(k, to)
  PROVE  /\ real' \in [BoardJobs -> Table!Statuses]
         /\ had' \in [BoardJobs -> SUBSET Table!Statuses]
         /\ changes' \in 0 .. MaxChanges
         /\ \A j \in BoardJobs : real'[j] \in had'[j] /\ had[j] \subseteq had'[j]
         /\ to \in had'[k]
         /\ \A list : OffersHad(list) => OffersHad(list)'
         /\ \A list : ShowsHad(list) => ShowsHad(list)'
<1>1. /\ real' \in [BoardJobs -> Table!Statuses]
      /\ had' \in [BoardJobs -> SUBSET Table!Statuses]
      /\ \A j \in BoardJobs : real'[j] \in had'[j] /\ had[j] \subseteq had'[j]
      /\ to \in had'[k]
  BY DEF Change, BoardSound, BoardTypeOK
<1>2. changes' \in 0 .. MaxChanges
  BY BoardAssumption DEF Change, BoardSound, BoardTypeOK
<1>3. ASSUME NEW list, OffersHad(list) PROVE OffersHad(list)'
  BY <1>1, <1>3 DEF OffersHad
<1>4. ASSUME NEW list, ShowsHad(list) PROVE ShowsHad(list)'
  BY <1>1, <1>4 DEF ShowsHad
<1> QED BY <1>1, <1>2, <1>3, <1>4

(* A step that leaves the screen and the requests alone, or adds to what jobs  *)
(* had, keeps the board sound.                                                 *)
LEMMA OthersKeepBoard ==
  ASSUME BoardSound, NEW k \in BoardJobs, OthersMove(k)
  PROVE  BoardSound'
<1>1. PICK to \in Table!Statuses : Change(k, to)
  BY DEF OthersMove
<1>2. /\ shown' = shown /\ move' = move /\ fetch' = fetch /\ atOnce' = atOnce
  BY DEF OthersMove
<1>3. BoardTypeOK'
  BY <1>1, <1>2, ChangeHad DEF BoardSound, BoardTypeOK
<1>4. \A j \in BoardJobs : real'[j] \in had'[j] /\ had[j] \subseteq had'[j]
  BY <1>1, ChangeHad
<1>5. /\ \A list : OffersHad(list) => \A j \in BoardJobs : \E s \in had'[j] :
                                        list[j].offers = Table!Transitions[s]
      /\ \A list : ShowsHad(list) => \A j \in BoardJobs : list[j].status \in had'[j]
  BY <1>4 DEF OffersHad, ShowsHad
<1>6. /\ OffersHad(shown)'
      /\ \A f \in Fetches : fetch'[f] # <<>> => OffersHad(fetch[f])' /\ ShowsHad(fetch[f])'
      /\ \A m \in Moves : UnderWay(m)' => OffersHad(move[m].before)'
  BY <1>2, <1>5 DEF BoardSound, OffersHad, ShowsHad, UnderWay
<1>7. \A m \in Moves : move'[m].op = "done" => move'[m].to \in had'[move'[m].job]
  <2>1. ASSUME NEW m \in Moves, move[m].op = "done" PROVE move[m].job \in BoardJobs
    BY <2>1, MoveFields
  <2> QED BY <1>2, <1>4, <2>1 DEF BoardSound
<1>8. atOnce' <= 1 =>
        /\ \A m, n \in Moves : UnderWay(m)' /\ UnderWay(n)' => m = n
        /\ \A m \in Moves : UnderWay(m)' => ShowsHad(move[m].before)'
        /\ \A j \in BoardJobs :
             shown'[j].status \in had'[j] \/ \E m \in Moves :
               UnderWay(m)' /\ move'[m].job = j /\ shown'[j].status = move'[m].to
  <2> SUFFICES ASSUME atOnce' <= 1
               PROVE  /\ \A m, n \in Moves : UnderWay(m)' /\ UnderWay(n)' => m = n
                      /\ \A m \in Moves : UnderWay(m)' => ShowsHad(move[m].before)'
                      /\ \A j \in BoardJobs :
                           shown'[j].status \in had'[j] \/ \E m \in Moves :
                             UnderWay(m)' /\ move'[m].job = j /\ shown'[j].status = move'[m].to
    OBVIOUS
  <2>1. \A m \in Moves : UnderWay(m)' <=> UnderWay(m)
    BY <1>2 DEF UnderWay
  <2>2. \A m, n \in Moves : UnderWay(m)' /\ UnderWay(n)' => m = n
    BY <1>2, <2>1 DEF BoardSound
  <2>3. \A m \in Moves : UnderWay(m)' => ShowsHad(move[m].before)'
    BY <1>2, <1>5, <2>1 DEF BoardSound, ShowsHad
  <2>4. ASSUME NEW j \in BoardJobs
        PROVE  shown'[j].status \in had'[j] \/ \E m \in Moves :
                 UnderWay(m)' /\ move'[m].job = j /\ shown'[j].status = move'[m].to
    BY <1>2, <1>4, <2>1 DEF BoardSound
  <2> QED BY <2>2, <2>3, <2>4
<1> QED BY <1>3, <1>4, <1>6, <1>7, <1>8 DEF BoardSound

(* A drag is the only move under way if no more than one ever is; the list it  *)
(* keeps shows what the jobs had, and the card it moves is its own.            *)
LEMMA DragKeepsBoard ==
  ASSUME BoardSound, NEW m \in Moves, NEW k \in BoardJobs, NEW to \in Table!Statuses,
         NEW lane \in BOOLEAN, Drag(m, k, to, lane)
  PROVE  BoardSound'
<1> DEFINE active == {n \in Moves : UnderWay(n)}
           now == 1 + Cardinality(active)
           new == [op |-> "sent", job |-> k, to |-> to, lane |-> lane, before |-> shown]
<1>1. /\ ~UnderWay(m)
      /\ move' = [move EXCEPT ![m] = new]
      /\ shown' = [shown EXCEPT ![k].status = to]
      /\ atOnce' = IF now > atOnce THEN now ELSE atOnce
      /\ UNCHANGED <<real, had, fetch, changes>>
  BY DEF Drag, UnderWay
<1>2. /\ IsFiniteSet(active) /\ Cardinality(active) \in Nat /\ now <= Cardinality(Moves)
      /\ Cardinality(Moves) \in Nat
  <2>1. IsFiniteSet(Moves) /\ active \subseteq Moves \ {m}
    BY <1>1, BoardAssumption
  <2>2. /\ IsFiniteSet(Moves \ {m}) /\ Cardinality(Moves \ {m}) = Cardinality(Moves) - 1
    BY <2>1, FS_RemoveElement
  <2>3. IsFiniteSet(active) /\ Cardinality(active) <= Cardinality(Moves \ {m})
    BY <2>1, <2>2, FS_Subset
  <2> QED BY <2>1, <2>2, <2>3, FS_CardinalityType
<1>3. new \in UnderWayMoves /\ new # NoMove
  BY DEF UnderWayMoves, BoardSound, BoardTypeOK, NoMove
<1>4. atOnce' \in 0 .. Cardinality(Moves) /\ atOnce' >= now /\ atOnce' >= atOnce
      /\ atOnce \in Int
  BY <1>1, <1>2 DEF BoardSound, BoardTypeOK
<1>5. shown' \in Cards
  BY <1>1 DEF BoardSound, BoardTypeOK, Cards
<1>6. BoardTypeOK'
  BY <1>1, <1>3, <1>4, <1>5 DEF BoardSound, BoardTypeOK, UnderWayMoves
<1>7. /\ move'[m] = new /\ \A n \in Moves \ {m} : move'[n] = move[n]
      /\ \A j \in BoardJobs : shown'[j].offers = shown[j].offers
      /\ shown'[k].status = to
      /\ \A j \in BoardJobs \ {k} : shown'[j].status = shown[j].status
  BY <1>1 DEF BoardSound, BoardTypeOK, Cards
<1>8. OffersHad(shown)'
  BY <1>1, <1>7 DEF BoardSound, OffersHad
<1>9. \A f \in Fetches : fetch'[f] # <<>> => OffersHad(fetch[f])' /\ ShowsHad(fetch[f])'
  BY <1>1 DEF BoardSound, OffersHad, ShowsHad
<1>10. ASSUME NEW n \in Moves, UnderWay(n)' PROVE OffersHad(move[n].before)'
  <2>1. CASE n = m
    BY <1>1, <1>7, <2>1 DEF BoardSound, OffersHad
  <2>2. CASE n # m
    BY <1>1, <1>7, <1>10, <2>2 DEF BoardSound, OffersHad, UnderWay
  <2> QED BY <2>1, <2>2
<1>11. \A n \in Moves : move'[n].op = "done" => move'[n].to \in had'[move'[n].job]
  BY <1>1, <1>7 DEF BoardSound
<1>12. ASSUME atOnce' <= 1
       PROVE  /\ \A a, b \in Moves : UnderWay(a)' /\ UnderWay(b)' => a = b
              /\ \A n \in Moves : UnderWay(n)' => ShowsHad(move[n].before)'
              /\ \A j \in BoardJobs :
                   shown'[j].status \in had'[j] \/ \E n \in Moves :
                     UnderWay(n)' /\ move'[n].job = j /\ shown'[j].status = move'[n].to
  <2>1. Cardinality(active) = 0 /\ atOnce <= 1
    BY <1>2, <1>4, <1>12
  <2>2. active = {}
    BY <1>2, <2>1, FS_EmptySet
  <2>3. \A n \in Moves : ~UnderWay(n)
    BY <2>2
  <2>4. \A n \in Moves : UnderWay(n)' <=> n = m
    BY <1>3, <1>7, <2>3 DEF UnderWay
  <2>5. ShowsHad(shown)
    BY <2>1, <2>3 DEF BoardSound, ShowsHad
  <2>6. \A n \in Moves : UnderWay(n)' => ShowsHad(move[n].before)'
    BY <1>1, <1>7, <2>4, <2>5 DEF ShowsHad
  <2>7. ASSUME NEW j \in BoardJobs
        PROVE  shown'[j].status \in had'[j] \/ \E n \in Moves :
                 UnderWay(n)' /\ move'[n].job = j /\ shown'[j].status = move'[n].to
    BY <1>1, <1>7, <2>4, <2>5 DEF ShowsHad
  <2> QED BY <2>4, <2>6, <2>7
<1>13. \A j \in BoardJobs : real'[j] \in had'[j]
  BY <1>1 DEF BoardSound
<1> QED BY <1>6, <1>8, <1>9, <1>10, <1>11, <1>12, <1>13 DEF BoardSound

(* The server makes or refuses a move: the card stays where the screen put it, *)
(* and what was done to a job is a status it had.                              *)
LEMMA ServerMoveKeepsBoard ==
  ASSUME BoardSound, NEW m \in Moves, ServerMoves(m)
  PROVE  BoardSound'
<1> DEFINE k == move[m].job
           to == move[m].to
<1>1. /\ move[m].op = "sent" /\ Change(k, to)
      /\ move' = [move EXCEPT ![m].op = "done"]
      /\ shown' = shown /\ fetch' = fetch /\ atOnce' = atOnce
  BY DEF ServerMoves
<1>2. /\ UnderWay(m) /\ move[m] \in UnderWayMoves
      /\ k \in BoardJobs /\ to \in Table!Statuses
  BY <1>1, MoveFields DEF UnderWay
<1>3. /\ real' \in [BoardJobs -> Table!Statuses]
      /\ had' \in [BoardJobs -> SUBSET Table!Statuses]
      /\ changes' \in 0 .. MaxChanges
      /\ \A j \in BoardJobs : real'[j] \in had'[j] /\ had[j] \subseteq had'[j]
      /\ to \in had'[k]
  <2> HIDE DEF k, to
  <2> QED BY <1>1, <1>2, ChangeHad
<1>4. /\ move'[m] = [move[m] EXCEPT !.op = "done"]
      /\ \A n \in Moves \ {m} : move'[n] = move[n]
  BY <1>1 DEF BoardSound, BoardTypeOK
<1>5. /\ move'[m] \in UnderWayMoves /\ move'[m].op = "done"
      /\ move'[m].job = k /\ move'[m].to = to /\ move'[m].before = move[m].before
  BY <1>2, <1>4 DEF UnderWayMoves
<1>6. BoardTypeOK'
  <2>1. move' \in [Moves -> {NoMove} \cup UnderWayMoves]
    BY <1>1, <1>5 DEF BoardSound, BoardTypeOK, UnderWayMoves
  <2> QED BY <1>1, <1>3, <2>1 DEF BoardSound, BoardTypeOK, UnderWayMoves
<1>7. \A n \in Moves : /\ UnderWay(n)' <=> UnderWay(n)
                       /\ UnderWay(n) => /\ move'[n].job = move[n].job
                                         /\ move'[n].to = move[n].to
                                         /\ move'[n].before = move[n].before
  <2> TAKE n \in Moves
  <2>1. move'[m] # NoMove
    BY <1>4, <1>5 DEF NoMove
  <2>2. CASE n = m
    BY <1>2, <1>4, <1>5, <2>1, <2>2 DEF UnderWay
  <2>3. CASE n # m
    BY <1>4, <1>5, <2>3 DEF UnderWay
  <2> QED BY <2>2, <2>3
<1>8. /\ \A list : OffersHad(list) => \A j \in BoardJobs : \E s \in had'[j] :
                                        list[j].offers = Table!Transitions[s]
      /\ \A list : ShowsHad(list) => \A j \in BoardJobs : list[j].status \in had'[j]
  BY <1>3 DEF OffersHad, ShowsHad
<1>9. OffersHad(shown)'
  BY <1>1, <1>8 DEF BoardSound, OffersHad
<1>10. ASSUME NEW f \in Fetches, fetch'[f] # <<>>
       PROVE  OffersHad(fetch[f])' /\ ShowsHad(fetch[f])'
  BY <1>1, <1>8, <1>10 DEF BoardSound, OffersHad, ShowsHad
<1>11. ASSUME NEW n \in Moves, UnderWay(n)' PROVE OffersHad(move[n].before)'
  BY <1>7, <1>8, <1>11 DEF BoardSound, OffersHad
<1>12. ASSUME NEW n \in Moves, move'[n].op = "done"
       PROVE  move'[n].to \in had'[move'[n].job]
  <2>1. CASE n = m
    BY <1>3, <1>5, <2>1
  <2>2. CASE n # m
    BY <1>3, <1>4, <1>12, <2>2, MoveFields DEF BoardSound
  <2> QED BY <2>1, <2>2
<1>13. ASSUME atOnce' <= 1
       PROVE  /\ \A a, b \in Moves : UnderWay(a)' /\ UnderWay(b)' => a = b
              /\ \A n \in Moves : UnderWay(n)' => ShowsHad(move[n].before)'
              /\ \A j \in BoardJobs :
                   shown'[j].status \in had'[j] \/ \E n \in Moves :
                     UnderWay(n)' /\ move'[n].job = j /\ shown'[j].status = move'[n].to
  <2>1. atOnce <= 1
    BY <1>1, <1>13
  <2>2. \A a, b \in Moves : UnderWay(a)' /\ UnderWay(b)' => a = b
    BY <1>7, <2>1 DEF BoardSound
  <2>3. \A n \in Moves : UnderWay(n)' => ShowsHad(move[n].before)'
    BY <1>7, <1>8, <2>1 DEF BoardSound, ShowsHad
  <2>4. ASSUME NEW j \in BoardJobs
        PROVE  shown'[j].status \in had'[j] \/ \E n \in Moves :
                 UnderWay(n)' /\ move'[n].job = j /\ shown'[j].status = move'[n].to
    <3>1. \/ shown[j].status \in had[j]
          \/ \E n \in Moves : UnderWay(n) /\ move[n].job = j /\ shown[j].status = move[n].to
      BY <2>1 DEF BoardSound
    <3> QED BY <1>1, <1>3, <1>7, <3>1
  <2> QED BY <2>2, <2>3, <2>4
<1> QED BY <1>3, <1>6, <1>9, <1>10, <1>11, <1>12, <1>13 DEF BoardSound

LEMMA RefusalKeepsBoard ==
  ASSUME BoardSound, NEW m \in Moves, ServerRefuses(m)
  PROVE  BoardSound'
<1>1. /\ move[m].op = "sent"
      /\ move' = [move EXCEPT ![m].op = "refused"]
      /\ UNCHANGED <<real, had, shown, fetch, changes, atOnce>>
  BY DEF ServerRefuses
<1>2. UnderWay(m) /\ move[m] \in UnderWayMoves
  BY <1>1, MoveFields DEF UnderWay
<1>3. /\ move'[m] = [move[m] EXCEPT !.op = "refused"]
      /\ \A n \in Moves \ {m} : move'[n] = move[n]
  BY <1>1 DEF BoardSound, BoardTypeOK
<1>4. /\ move'[m] \in UnderWayMoves /\ move'[m].op = "refused"
      /\ move'[m].job = move[m].job /\ move'[m].to = move[m].to
      /\ move'[m].before = move[m].before
  BY <1>2, <1>3 DEF UnderWayMoves
<1>5. BoardTypeOK'
  <2>1. move' \in [Moves -> {NoMove} \cup UnderWayMoves]
    BY <1>1, <1>4 DEF BoardSound, BoardTypeOK, UnderWayMoves
  <2> QED BY <1>1, <2>1 DEF BoardSound, BoardTypeOK, UnderWayMoves
<1>6. \A n \in Moves : /\ UnderWay(n)' <=> UnderWay(n)
                       /\ UnderWay(n) => /\ move'[n].job = move[n].job
                                         /\ move'[n].to = move[n].to
                                         /\ move'[n].before = move[n].before
  <2> TAKE n \in Moves
  <2>1. move'[m] # NoMove
    BY <1>3, <1>4 DEF NoMove
  <2>2. CASE n = m
    BY <1>2, <1>3, <1>4, <2>1, <2>2 DEF UnderWay
  <2>3. CASE n # m
    BY <1>3, <1>4, <2>3 DEF UnderWay
  <2> QED BY <2>2, <2>3
<1>7. /\ OffersHad(shown)'
      /\ \A f \in Fetches : fetch'[f] # <<>> => OffersHad(fetch[f])' /\ ShowsHad(fetch[f])'
      /\ \A j \in BoardJobs : real'[j] \in had'[j]
  BY <1>1 DEF BoardSound, OffersHad, ShowsHad
<1>8. \A n \in Moves : UnderWay(n)' => OffersHad(move[n].before)'
  BY <1>1, <1>6 DEF BoardSound, OffersHad
<1>9. \A n \in Moves : move'[n].op = "done" => move'[n].to \in had'[move'[n].job]
  BY <1>1, <1>3, <1>4 DEF BoardSound
<1>10. ASSUME atOnce' <= 1
       PROVE  /\ \A a, b \in Moves : UnderWay(a)' /\ UnderWay(b)' => a = b
              /\ \A n \in Moves : UnderWay(n)' => ShowsHad(move[n].before)'
              /\ \A j \in BoardJobs :
                   shown'[j].status \in had'[j] \/ \E n \in Moves :
                     UnderWay(n)' /\ move'[n].job = j /\ shown'[j].status = move'[n].to
  <2>1. \A a, b \in Moves : UnderWay(a)' /\ UnderWay(b)' => a = b
    BY <1>1, <1>6, <1>10 DEF BoardSound
  <2>2. \A n \in Moves : UnderWay(n)' => ShowsHad(move[n].before)'
    BY <1>1, <1>6, <1>10 DEF BoardSound, ShowsHad
  <2>3. ASSUME NEW j \in BoardJobs
        PROVE  shown'[j].status \in had'[j] \/ \E n \in Moves :
                 UnderWay(n)' /\ move'[n].job = j /\ shown'[j].status = move'[n].to
    BY <1>1, <1>6, <1>10 DEF BoardSound
  <2> QED BY <2>1, <2>2, <2>3
<1> QED BY <1>5, <1>7, <1>8, <1>9, <1>10 DEF BoardSound

(* The answer to a move takes it off the screen: the list that follows a       *)
(* success is what the server read, and the list an undone move puts back is   *)
(* the one it kept.                                                            *)
LEMMA MoveLeavesBoard ==
  ASSUME BoardSound, NEW m \in Moves, MoveSucceeds(m) \/ MoveUndone(m)
  PROVE  BoardSound'
<1>1. /\ move[m].op \in {"done", "refused"}
      /\ move' = [move EXCEPT ![m] = NoMove]
      /\ UNCHANGED <<real, had, changes, atOnce>>
  BY DEF MoveSucceeds, MoveUndone
<1>2. /\ UnderWay(m) /\ move[m].before \in Cards /\ move[m].job \in BoardJobs
      /\ OffersHad(move[m].before)
      /\ atOnce <= 1 => ShowsHad(move[m].before)
  BY <1>1, MoveFields DEF BoardSound
<1>3. \/ shown' = shown /\ move[m].op = "done"
      \/ shown' = move[m].before
  BY DEF MoveSucceeds, MoveUndone
<1>4. \A f \in Fetches : fetch'[f] \in {fetch[f], ServerList}
  <2>1. fetch \in [Fetches -> {<<>>} \cup Cards]
    BY DEF BoardSound, BoardTypeOK
  <2> QED BY <2>1 DEF MoveSucceeds, MoveUndone
<1>5. fetch' \in [Fetches -> {<<>>} \cup Cards]
  <2>1. fetch \in [Fetches -> {<<>>} \cup Cards] /\ ServerList \in Cards
    BY ServerListHad DEF BoardSound, BoardTypeOK
  <2> QED BY <2>1 DEF MoveSucceeds, MoveUndone
<1>6. BoardTypeOK'
  <2>1. shown' \in Cards
    BY <1>2, <1>3 DEF BoardSound, BoardTypeOK
  <2>2. move' \in [Moves -> {NoMove} \cup UnderWayMoves]
    BY <1>1 DEF BoardSound, BoardTypeOK, UnderWayMoves
  <2> QED BY <1>1, <1>5, <2>1, <2>2 DEF BoardSound, BoardTypeOK, UnderWayMoves
<1>7. move'[m] = NoMove /\ \A n \in Moves \ {m} : move'[n] = move[n]
  BY <1>1 DEF BoardSound, BoardTypeOK
<1>8. \A n \in Moves : UnderWay(n)' <=> n # m /\ UnderWay(n)
  BY <1>7 DEF UnderWay
<1>9. OffersHad(shown)'
  BY <1>1, <1>2, <1>3 DEF BoardSound, OffersHad
<1>10. ASSUME NEW f \in Fetches, fetch'[f] # <<>>
       PROVE  OffersHad(fetch[f])' /\ ShowsHad(fetch[f])'
  <2>1. OffersHad(fetch'[f]) /\ ShowsHad(fetch'[f])
    BY <1>4, <1>10, ServerListHad DEF BoardSound
  <2> QED BY <1>1, <2>1 DEF OffersHad, ShowsHad
<1>11. \A n \in Moves : UnderWay(n)' => OffersHad(move[n].before)'
  BY <1>1, <1>7, <1>8 DEF BoardSound, OffersHad
<1>12. ASSUME NEW n \in Moves, move'[n].op = "done"
       PROVE  move'[n].to \in had'[move'[n].job]
  <2>1. n # m
    BY <1>7, <1>12 DEF NoMove
  <2> QED BY <1>1, <1>7, <1>12, <2>1 DEF BoardSound
<1>13. ASSUME atOnce' <= 1
       PROVE  /\ \A a, b \in Moves : UnderWay(a)' /\ UnderWay(b)' => a = b
              /\ \A n \in Moves : UnderWay(n)' => ShowsHad(move[n].before)'
              /\ \A j \in BoardJobs :
                   shown'[j].status \in had'[j] \/ \E n \in Moves :
                     UnderWay(n)' /\ move'[n].job = j /\ shown'[j].status = move'[n].to
  <2>1. \A n \in Moves : ~UnderWay(n)'
    BY <1>1, <1>2, <1>8, <1>13 DEF BoardSound
  <2>2. ShowsHad(shown')
    <3>1. CASE shown' = move[m].before
      BY <1>1, <1>2, <1>13, <3>1
    <3>2. CASE shown' = shown /\ move[m].op = "done"
      <4>1. move[m].to \in had[move[m].job]
        BY <3>2 DEF BoardSound
      <4>2. \A j \in BoardJobs :
              shown[j].status \in had[j] \/ \E n \in Moves :
                UnderWay(n) /\ move[n].job = j /\ shown[j].status = move[n].to
        BY <1>1, <1>13 DEF BoardSound
      <4>3. \A n \in Moves : UnderWay(n) => n = m
        BY <1>1, <1>2, <1>13 DEF BoardSound
      <4> QED BY <3>2, <4>1, <4>2, <4>3 DEF ShowsHad
    <3> QED BY <1>3, <3>1, <3>2
  <2> QED BY <1>1, <2>1, <2>2 DEF ShowsHad
<1>14. \A j \in BoardJobs : real'[j] \in had'[j]
  BY <1>1 DEF BoardSound
<1> QED BY <1>6, <1>9, <1>10, <1>11, <1>12, <1>13, <1>14 DEF BoardSound

(* A fetch shows the list the server read, however late it comes.              *)
LEMMA FetchKeepsBoard ==
  ASSUME BoardSound, NEW f \in Fetches, FetchRead(f) \/ FetchArrives(f)
  PROVE  BoardSound'
<1>1. UNCHANGED <<real, had, move, changes, atOnce>>
  BY DEF FetchRead, FetchArrives
<1>2. fetch \in [Fetches -> {<<>>} \cup Cards] /\ ServerList \in Cards /\ shown \in Cards
  BY ServerListHad DEF BoardSound, BoardTypeOK
<1>3. /\ fetch' \in [Fetches -> {<<>>} \cup Cards]
      /\ \A g \in Fetches : fetch'[g] \in {fetch[g], ServerList, <<>>}
  BY <1>2 DEF FetchRead, FetchArrives
<1>4. \/ shown' = shown
      \/ fetch[f] # <<>> /\ shown' = fetch[f]
  BY DEF FetchRead, FetchArrives
<1>5. BoardTypeOK'
  <2>1. shown' \in Cards
    BY <1>2, <1>4
  <2> QED BY <1>1, <1>3, <2>1 DEF BoardSound, BoardTypeOK
<1>6. OffersHad(shown') /\ (ShowsHad(shown') \/ shown' = shown)
  BY <1>4 DEF BoardSound
<1>7. ASSUME NEW g \in Fetches, fetch'[g] # <<>>
      PROVE  OffersHad(fetch[g])' /\ ShowsHad(fetch[g])'
  <2>1. OffersHad(fetch'[g]) /\ ShowsHad(fetch'[g])
    BY <1>3, <1>7, ServerListHad DEF BoardSound
  <2> QED BY <1>1, <2>1 DEF OffersHad, ShowsHad
<1>8. \A m \in Moves : UnderWay(m)' <=> UnderWay(m)
  BY <1>1 DEF UnderWay
<1>9. /\ OffersHad(shown)'
      /\ \A m \in Moves : UnderWay(m)' => OffersHad(move[m].before)'
      /\ \A m \in Moves : move'[m].op = "done" => move'[m].to \in had'[move'[m].job]
      /\ \A j \in BoardJobs : real'[j] \in had'[j]
  BY <1>1, <1>6, <1>8 DEF BoardSound, OffersHad
<1>10. ASSUME atOnce' <= 1
       PROVE  /\ \A a, b \in Moves : UnderWay(a)' /\ UnderWay(b)' => a = b
              /\ \A n \in Moves : UnderWay(n)' => ShowsHad(move[n].before)'
              /\ \A j \in BoardJobs :
                   shown'[j].status \in had'[j] \/ \E n \in Moves :
                     UnderWay(n)' /\ move'[n].job = j /\ shown'[j].status = move'[n].to
  <2>1. /\ \A a, b \in Moves : UnderWay(a)' /\ UnderWay(b)' => a = b
        /\ \A n \in Moves : UnderWay(n)' => ShowsHad(move[n].before)'
    BY <1>1, <1>8, <1>10 DEF BoardSound, ShowsHad
  <2>2. CASE ShowsHad(shown')
    BY <1>1, <2>1, <2>2 DEF ShowsHad
  <2>3. CASE shown' = shown
    BY <1>1, <1>8, <1>10, <2>1, <2>3 DEF BoardSound
  <2> QED BY <1>6, <2>2, <2>3
<1> QED BY <1>5, <1>7, <1>9, <1>10 DEF BoardSound

LEMMA BoardKeepsSound == BoardSound /\ [BoardNext]_boardVars => BoardSound'
<1> SUFFICES ASSUME BoardSound, [BoardNext]_boardVars PROVE BoardSound'
  OBVIOUS
<1>1. ASSUME NEW j \in BoardJobs, OthersMove(j) PROVE BoardSound'
  BY <1>1, OthersKeepBoard
<1>2. ASSUME NEW m \in Moves, NEW j \in BoardJobs, NEW to \in Table!Statuses,
             NEW lane \in BOOLEAN, Drag(m, j, to, lane)
      PROVE  BoardSound'
  BY <1>2, DragKeepsBoard
<1>3. ASSUME NEW m \in Moves, ServerMoves(m) PROVE BoardSound'
  BY <1>3, ServerMoveKeepsBoard
<1>4. ASSUME NEW m \in Moves, ServerRefuses(m) PROVE BoardSound'
  BY <1>4, RefusalKeepsBoard
<1>5. ASSUME NEW m \in Moves, MoveSucceeds(m) \/ MoveUndone(m) PROVE BoardSound'
  BY <1>5, MoveLeavesBoard
<1>6. ASSUME NEW f \in Fetches, FetchRead(f) \/ FetchArrives(f) PROVE BoardSound'
  BY <1>6, FetchKeepsBoard
<1>7. CASE UNCHANGED boardVars
  BY <1>7 DEF boardVars, BoardSound, BoardTypeOK, OffersHad, ShowsHad, UnderWay
<1> QED BY <1>1, <1>2, <1>3, <1>4, <1>5, <1>6, <1>7 DEF BoardNext

(* The buttons of the phone are moves of the table, but for Close Job during   *)
(* quality check.                                                              *)
LEMMA PhoneKnowsTheTable ==
  ASSUME NEW s \in Table!Statuses
  PROVE  PhoneOffers[s] \subseteq
           Table!Transitions[s] \cup (IF s = "quality_check" THEN {"closed"} ELSE {})
BY DEF PhoneOffers, Table!Transitions, Table!Statuses

LEMMA SoundShowsReal == BoardSound => BoardShowsRealStatuses
<1> SUFFICES ASSUME BoardSound PROVE BoardShowsRealStatuses
  OBVIOUS
<1>1. ASSUME NEW j \in BoardJobs, atOnce <= 1
      PROVE  shown[j].status \in had[j] \cup {move[m].to : m \in {n \in Moves :
                                        move[n] # NoMove /\ move[n].job = j}}
  BY <1>1 DEF BoardSound, UnderWay
<1>2. \A j \in BoardJobs : \E s \in had[j] : shown[j].offers = Table!Transitions[s]
  BY DEF BoardSound, OffersHad
<1> QED BY <1>1, <1>2, PhoneKnowsTheTable DEF BoardShowsRealStatuses

(* In whatever order polls, refusals and lost answers come, the board shows a  *)
(* status the job had or is being moved to, and what it offers was legal for a *)
(* status the job had (BoardShowsRealStatuses): for any number of jobs, moves  *)
(* and fetches.                                                                *)
THEOREM BoardIsReal == BoardSpec => [](BoardTypeOK /\ BoardShowsRealStatuses)
<1>1. BoardInit => BoardSound  BY BoardStarts
<1>2. BoardSound /\ [BoardNext]_boardVars => BoardSound'  BY BoardKeepsSound
<1>3. BoardSound => BoardTypeOK /\ BoardShowsRealStatuses
  BY SoundShowsReal DEF BoardSound
<1> QED BY <1>1, <1>2, <1>3, PTL DEF BoardSpec

-----------------------------------------------------------------------------
(* The inspection form. *)

(* What a call in flight holds, by the statement it awaits.                    *)
FormCall(c) ==
  /\ c.op \in {"idle", "write", "submit", "sync", "find", "put", "reopen"}
  /\ c.op # "idle" => c.on \in Inspections
  /\ c.op = "write" => c.batch \in Forms
  /\ c.op = "submit" => c = [op |-> "submit", on |-> c.on]
  /\ c.op \in {"find", "put"} => /\ c.todo \subseteq Items /\ c.seen \in Forms
                                 /\ \A i \in c.todo : c.seen[i] \in Answers
  /\ c.op = "put" => c.item \in c.todo

FormTyped ==
  /\ FormTypeOK
  /\ concerns \in [Inspections -> [Items -> Seq(Answers)]]
  /\ call = [s \in Screens |-> call[s]]
  /\ \A s \in Screens : FormCall(call[s])

LEMMA ScreensFinite == IsFiniteSet(Screens) /\ Cardinality(Screens) \in Nat
BY FormAssumption, FS_Union, FS_CardinalityType DEF Screens

LEMMA FormStarts == FormInit => FormTyped
<1> SUFFICES ASSUME FormInit PROVE FormTyped
  OBVIOUS
<1>1. Empty \in Forms
  BY DEF Empty, Forms, Rows
<1>2. FormTypeOK
  <2>1. history \in [broken : SUBSET Inspections, late : SUBSET Inspections,
                     crowd : 0 .. Cardinality(Screens)]
    BY ScreensFinite DEF FormInit
  <2>2. page \in [Screens -> [on : Inspections, form : Forms, withId : SUBSET Items,
                              origin : [Items -> Inspections]]]
    BY <1>1 DEF FormInit
  <2> QED BY <1>1, <2>1, <2>2 DEF FormInit, FormTypeOK, Idle
<1>3. concerns \in [Inspections -> [Items -> Seq(Answers)]]
  BY DEF FormInit
<1> QED BY <1>2, <1>3 DEF FormInit, FormTyped, FormCall, Idle

(* A screen step opens a form, changes it, or begins a call.                   *)
LEMMA ScreenKeepsTypes ==
  ASSUME FormTyped, NEW s \in Screens, ScreenStep(s)
  PROVE  /\ FormTyped'
         /\ UNCHANGED <<locked, answer, concerns, draft, history>>
         /\ \A t \in Screens : call'[t] = call[t] \/ t = s
         /\ call[s].op = "idle" /\ call'[s].op \in {"idle", "write", "reopen"}
<1> DEFINE Goal == /\ FormTyped'
                   /\ UNCHANGED <<locked, answer, concerns, draft, history>>
                   /\ \A t \in Screens : call'[t] = call[t] \/ t = s
                   /\ call[s].op = "idle" /\ call'[s].op \in {"idle", "write", "reopen"}
           Pages == [on : Inspections, form : Forms, withId : SUBSET Items,
                     origin : [Items -> Inspections]]
<1>1. /\ page \in [Screens -> Pages] /\ answer \in [Inspections -> Forms]
      /\ detail \in [Phones -> [Inspections -> {Nothing} \cup [op : {"held"}, form : Forms]]]
      /\ draft \in [Phones -> [Inspections -> {Nothing} \cup [op : {"held"}, form : Forms]]]
      /\ call = [t \in Screens |-> call[t]]
  BY DEF FormTyped, FormTypeOK
<1>2. ASSUME NEW n \in Inspections, OpenBrowser(s, n) PROVE Goal
  <2>1. page' \in [Screens -> Pages]
    BY <1>1, <1>2 DEF OpenBrowser
  <2> QED BY <1>2, <2>1 DEF OpenBrowser, Calling, FormTyped, FormTypeOK
<1>3. ASSUME NEW n \in Inspections, OpenPhone(s, n) PROVE Goal
  <2>1. page' \in [Screens -> Pages]
    <3>1. CASE detail[s][n] = Nothing
      <4>1. page' = [page EXCEPT ![s] = [page[s] EXCEPT !.on = n]]
        BY <1>1, <1>3, <3>1 DEF OpenPhone
      <4>2. page[s] \in Pages
        BY <1>1
      <4>3. [page[s] EXCEPT !.on = n] \in Pages
        BY <4>2
      <4> QED BY <1>1, <4>1, <4>3
    <3>2. CASE detail[s][n] # Nothing
      <4>1. s \in Phones /\ detail[s][n].form \in Forms
        BY <1>1, <1>3, <3>2 DEF OpenPhone
      <4>2. draft[s][n] # Nothing => draft[s][n].form \in Forms
        BY <1>1, <4>1
      <4> QED BY <1>1, <1>3, <3>2, <4>1, <4>2 DEF OpenPhone
    <3> QED BY <3>1, <3>2
  <2> QED BY <1>3, <2>1 DEF OpenPhone, Calling, FormTyped, FormTypeOK
<1>4. ASSUME Fetch(s) PROVE Goal
  <2>1. Held(answer[page[s].on]) \in [op : {"held"}, form : Forms]
    BY <1>1 DEF Held
  <2>2. detail' \in [Phones -> [Inspections -> {Nothing} \cup [op : {"held"}, form : Forms]]]
    BY <1>1, <1>4, <2>1 DEF Fetch
  <2> QED BY <1>4, <2>2 DEF Fetch, Calling, FormTyped, FormTypeOK
<1>5. ASSUME NEW i \in Items, NEW a \in Answers, Edit(s, i, a) PROVE Goal
  <2>1. page' = [page EXCEPT ![s] = [page[s] EXCEPT
                   !.form = [@ EXCEPT ![i] = a], !.origin = [@ EXCEPT ![i] = page[s].on]]]
    <3>1. page' = [page EXCEPT ![s].form[i] = a, ![s].origin[i] = page[s].on]
      BY <1>5 DEF Edit
    <3>2. page \in [Screens -> Pages] /\ page[s] \in Pages
      BY <1>1
    <3> QED BY ONLY <3>1, <3>2, s \in Screens
  <2>2. [page[s].form EXCEPT ![i] = a] \in Forms
    BY <1>1 DEF Forms, Rows
  <2>3. page[s] \in Pages /\ [page[s].origin EXCEPT ![i] = page[s].on] \in [Items -> Inspections]
    BY <1>1
  <2>4. [page[s] EXCEPT !.form = [@ EXCEPT ![i] = a],
                        !.origin = [@ EXCEPT ![i] = page[s].on]] \in Pages
    BY <2>2, <2>3
  <2>5. page' \in [Screens -> Pages]
    BY <1>1, <2>1, <2>4
  <2> QED BY <1>5, <2>5 DEF Edit, Calling, FormTyped, FormTypeOK
<1>6. ASSUME NEW submit \in BOOLEAN, Send(s, submit) PROVE Goal
  <2>1. /\ call' = [call EXCEPT ![s] = [op |-> "write", on |-> page[s].on,
                      batch |-> page[s].form, origin |-> page[s].origin, submit |-> submit]]
        /\ UNCHANGED <<locked, answer, concerns, page, detail, draft, history>>
        /\ call[s].op = "idle"
    BY <1>6 DEF Send, Calling
  <2>2. FormCall(call'[s]) /\ call'[s].op = "write"
    BY <1>1, <2>1 DEF FormCall
  <2> QED BY <1>1, <2>1, <2>2 DEF FormTyped, FormTypeOK, FormCall
<1>7. ASSUME ReopenCheck(s) PROVE Goal
  <2>1. /\ call' = [call EXCEPT ![s] = [op |-> "reopen", on |-> page[s].on]]
        /\ UNCHANGED <<locked, answer, concerns, page, detail, draft, history>>
        /\ call[s].op = "idle"
    BY <1>7 DEF ReopenCheck, Calling
  <2>2. FormCall(call'[s]) /\ call'[s].op = "reopen"
    BY <1>1, <2>1 DEF FormCall
  <2> QED BY <1>1, <2>1, <2>2 DEF FormTyped, FormTypeOK, FormCall
<1> QED BY <1>2, <1>3, <1>4, <1>5, <1>6, <1>7 DEF ScreenStep

(* What ends a call or moves it on leaves the other calls alone.               *)
LEMMA CallMoves ==
  ASSUME FormTyped, NEW s \in Screens, NEW c, FormCall(c), call' = [call EXCEPT ![s] = c]
  PROVE  /\ call' = [t \in Screens |-> call'[t]]
         /\ \A t \in Screens : FormCall(call'[t])
         /\ call'[s] = c /\ \A t \in Screens \ {s} : call'[t] = call[t]
<1>1. /\ call = [t \in Screens |-> call[t]]
      /\ \A t \in Screens : FormCall(call[t])
  BY DEF FormTyped
<1>2. /\ call' = [t \in Screens |-> call'[t]]
      /\ call'[s] = c /\ \A t \in Screens \ {s} : call'[t] = call[t]
  BY <1>1
<1> HIDE DEF FormCall
<1> QED BY <1>1, <1>2

LEMMA IdleCall == FormCall(Idle)
BY DEF FormCall, Idle

LEMMA SaveKeepsTypes ==
  ASSUME FormTyped, NEW s \in Screens, SaveWrite(s)
  PROVE  /\ FormTyped'
         /\ UNCHANGED <<locked, concerns>>
         /\ \A t \in Screens : call'[t] = call[t] \/ t = s
         /\ call[s].op = "write" /\ call'[s].op \in {"idle", "submit"}
         /\ history'.broken = history.broken /\ history'.crowd = history.crowd
         /\ history.late \subseteq history'.late
         /\ \A n \in Inspections : locked[n] /\ n \notin history'.late => answer'[n] = answer[n]
<1> DEFINE c == call[s]
           sent == {i \in Items : c.batch[i] # NoRow}
           n == c.on
           merged == [i \in Items |-> IF i \in sent THEN c.batch[i] ELSE answer[n][i]]
           Copies == [Phones -> [Inspections -> {Nothing} \cup [op : {"held"}, form : Forms]]]
<1>1. /\ c.op = "write" /\ n \in Inspections /\ c.batch \in Forms
  BY DEF SaveWrite, Calling, FormTyped, FormCall
<1>2. /\ answer \in [Inspections -> Forms] /\ locked \in [Inspections -> BOOLEAN]
      /\ detail \in Copies /\ draft \in Copies
      /\ history \in [broken : SUBSET Inspections, late : SUBSET Inspections,
                      crowd : 0 .. Cardinality(Screens)]
  BY DEF FormTyped, FormTypeOK
<1>3. merged \in Forms
  BY <1>1, <1>2 DEF Forms
<1>4. answer' = [answer EXCEPT ![n] = merged] /\ UNCHANGED <<locked, concerns, page>>
  BY DEF SaveWrite
<1>5. answer' \in [Inspections -> Forms]
  BY <1>2, <1>3, <1>4
<1>6. detail' \in Copies /\ draft' \in Copies
  <2>1. Held(answer'[n]) \in [op : {"held"}, form : Forms]
    BY <1>1, <1>5 DEF Held
  <2>2. Held(c.batch) \in [op : {"held"}, form : Forms]
    BY <1>1 DEF Held
  <2>3. CASE s \in Phones /\ ~c.submit
    <3>1. /\ detail' = [detail EXCEPT ![s][n] = Held(answer'[n])]
          /\ draft' = [draft EXCEPT ![s][n] = Held(c.batch)]
      BY <2>3 DEF SaveWrite
    <3>2. ASSUME NEW held \in [op : {"held"}, form : Forms], NEW store \in Copies
          PROVE  [store EXCEPT ![s][n] = held] \in Copies
      BY <1>1, <2>3
    <3> HIDE DEF n, c, Copies
    <3> QED BY <1>2, <2>1, <2>2, <3>1, <3>2
  <2>4. CASE ~(s \in Phones /\ ~c.submit)
    BY <1>2, <2>4 DEF SaveWrite
  <2> QED BY <2>3, <2>4
<1>7. /\ history' = [history EXCEPT !.late =
           IF locked[n] /\ sent # {} THEN @ \cup {n} ELSE @]
  BY DEF SaveWrite
<1>8. /\ history' \in [broken : SUBSET Inspections, late : SUBSET Inspections,
                       crowd : 0 .. Cardinality(Screens)]
      /\ history'.broken = history.broken /\ history'.crowd = history.crowd
      /\ history'.late = IF locked[n] /\ sent # {} THEN history.late \cup {n} ELSE history.late
  BY <1>1, <1>2, <1>7
<1>9. PICK d : FormCall(d) /\ d.op \in {"idle", "submit"} /\ call' = [call EXCEPT ![s] = d]
  <2>1. CASE c.submit /\ ~locked[n]
    <3>1. FormCall([op |-> "submit", on |-> n])
      BY <1>1 DEF FormCall
    <3> QED BY <2>1, <3>1 DEF SaveWrite
  <2>2. CASE ~(c.submit /\ ~locked[n])
    BY <2>2, IdleCall DEF SaveWrite, Done, Idle
  <2> QED BY <2>1, <2>2
<1>10. /\ call' = [t \in Screens |-> call'[t]]
       /\ \A t \in Screens : FormCall(call'[t])
       /\ call'[s] = d /\ \A t \in Screens \ {s} : call'[t] = call[t]
  BY <1>9, CallMoves
<1>11. \A m \in Inspections : locked[m] /\ m \notin history'.late => answer'[m] = answer[m]
  <2>1. ASSUME NEW m \in Inspections, locked[m], m \notin history'.late
        PROVE  answer'[m] = answer[m]
    <3>1. CASE m # n
      BY <1>2, <1>4, <3>1
    <3>2. CASE m = n
      <4>1. sent = {}
        BY <1>8, <2>1, <3>2
      <4>2. merged = answer[n]
        BY <1>1, <1>2, <4>1 DEF Forms
      <4> QED BY <1>2, <1>4, <3>2, <4>2
    <3> QED BY <3>1, <3>2
  <2> QED BY <2>1
<1>12. FormTypeOK'
  BY <1>4, <1>5, <1>6, <1>8, <1>10 DEF FormTyped, FormTypeOK, FormCall
<1> QED BY <1>1, <1>4, <1>8, <1>9, <1>10, <1>11, <1>12 DEF FormTyped

(* The screens that are bringing concerns up to date with an inspection.       *)
LEMMA SyncingFinite ==
  ASSUME NEW n
  PROVE  IsFiniteSet(Syncing(n)) /\ Cardinality(Syncing(n)) \in Nat
BY ScreensFinite, FS_Subset, FS_CardinalityType DEF Syncing

LEMMA LockKeepsTypes ==
  ASSUME FormTyped, NEW s \in Screens, SubmitLock(s)
  PROVE  /\ FormTyped'
         /\ UNCHANGED <<answer, concerns>>
         /\ locked' = [locked EXCEPT ![call[s].on] = TRUE]
         /\ call[s].op = "submit" /\ call[s].on \in Inspections
         /\ call'[s] = [op |-> "sync", on |-> call[s].on]
         /\ \A t \in Screens \ {s} : call'[t] = call[t]
         /\ history'.broken = history.broken /\ history'.late = history.late
         /\ history'.crowd \in Nat /\ history'.crowd >= history.crowd
         /\ history'.crowd >= Cardinality(Syncing(call[s].on)) + 1
<1> DEFINE n == call[s].on
           now == Cardinality(Syncing(n)) + 1
           after == [op |-> "sync", on |-> n]
<1>1. /\ call[s].op = "submit" /\ call[s] = [op |-> "submit", on |-> n] /\ n \in Inspections
  BY DEF SubmitLock, Calling, FormTyped, FormCall
<1>2. /\ locked' = [locked EXCEPT ![n] = TRUE]
      /\ call' = [call EXCEPT ![s].op = "sync"]
      /\ history' = [history EXCEPT !.crowd = IF now > @ THEN now ELSE @]
      /\ UNCHANGED <<answer, concerns, page, detail, draft>>
  BY DEF SubmitLock, Goto
<1>3. history \in [broken : SUBSET Inspections, late : SUBSET Inspections,
                   crowd : 0 .. Cardinality(Screens)]
  BY DEF FormTyped, FormTypeOK
<1>4. now \in Nat /\ now <= Cardinality(Screens) /\ Cardinality(Screens) \in Nat
  <2>1. Syncing(n) \subseteq Screens \ {s}
    BY <1>1 DEF Syncing
  <2>2. IsFiniteSet(Screens \ {s}) /\ Cardinality(Screens \ {s}) = Cardinality(Screens) - 1
    BY ScreensFinite, FS_RemoveElement
  <2>3. Cardinality(Syncing(n)) <= Cardinality(Screens \ {s})
    BY <2>1, <2>2, FS_Subset
  <2> QED BY <2>2, <2>3, ScreensFinite, SyncingFinite
<1>5. /\ history' \in [broken : SUBSET Inspections, late : SUBSET Inspections,
                       crowd : 0 .. Cardinality(Screens)]
      /\ history'.broken = history.broken /\ history'.late = history.late
      /\ history'.crowd \in Nat /\ history'.crowd >= history.crowd /\ history'.crowd >= now
  <2> HIDE DEF now
  <2> QED BY <1>2, <1>3, <1>4
<1>6. call' = [call EXCEPT ![s] = after]
  <2>1. [call[s] EXCEPT !.op = "sync"] = after
    BY <1>1
  <2> QED BY <1>2, <2>1
<1>7. FormCall(after)
  BY <1>1 DEF FormCall
<1>8. /\ call' = [t \in Screens |-> call'[t]]
      /\ \A t \in Screens : FormCall(call'[t])
      /\ call'[s] = after /\ \A t \in Screens \ {s} : call'[t] = call[t]
  <2> HIDE DEF after
  <2> QED BY <1>6, <1>7, CallMoves
<1>9. FormTypeOK'
  BY <1>1, <1>2, <1>5, <1>8 DEF FormTyped, FormTypeOK, FormCall
<1> QED BY <1>1, <1>2, <1>5, <1>8, <1>9 DEF FormTyped

LEMMA SubmitDoneKeepsTypes ==
  ASSUME FormTyped, NEW s \in Screens, NEW n \in Inspections, SubmitDone(s, n)
  PROVE  /\ detail' \in [Phones -> [Inspections -> {Nothing} \cup [op : {"held"}, form : Forms]]]
         /\ draft' \in [Phones -> [Inspections -> {Nothing} \cup [op : {"held"}, form : Forms]]]
         /\ call' = [call EXCEPT ![s] = Idle]
<1> DEFINE Kept == {Nothing} \cup [op : {"held"}, form : Forms]
           Copies == [Phones -> [Inspections -> Kept]]
<1>1. detail \in Copies /\ draft \in Copies /\ answer \in [Inspections -> Forms]
  BY DEF FormTyped, FormTypeOK
<1>2. Held(answer[n]) \in Kept /\ Nothing \in Kept
  BY <1>1 DEF Held
<1>3. ASSUME NEW held \in Kept, NEW store \in Copies, s \in Phones
      PROVE  [store EXCEPT ![s][n] = held] \in Copies
  <2> HIDE DEF Kept
  <2> QED BY <1>3
<1>4. CASE s \in Phones
  <2>1. /\ detail' = [detail EXCEPT ![s][n] = Held(answer[n])]
        /\ draft' = [draft EXCEPT ![s][n] = Nothing]
    BY <1>4 DEF SubmitDone
  <2>2. detail' \in Copies /\ draft' \in Copies
    <3> HIDE DEF Kept, Copies
    <3> QED BY <1>1, <1>2, <1>3, <1>4, <2>1
  <2> QED BY <2>2 DEF SubmitDone, Done
<1>5. CASE s \notin Phones
  BY <1>1, <1>5 DEF SubmitDone, Done
<1> QED BY <1>4, <1>5

(* The answers a submit follows up are the ones it read.                       *)
LEMMA ReadKeepsTypes ==
  ASSUME FormTyped, NEW s \in Screens, SyncRead(s)
  PROVE  LET n == call[s].on
             todo == {i \in Items : Finding(i, answer[n][i])}
         IN  /\ FormTyped'
             /\ UNCHANGED <<locked, answer, concerns, history>>
             /\ call[s].op = "sync" /\ n \in Inspections
             /\ \A t \in Screens \ {s} : call'[t] = call[t]
             /\ \/ todo = {} /\ call'[s] = Idle
                \/ call'[s] = [op |-> "find", on |-> n, todo |-> todo, seen |-> answer[n]]
<1> DEFINE n == call[s].on
           todo == {i \in Items : Finding(i, answer[n][i])}
           next == [op |-> "find", on |-> n, todo |-> todo, seen |-> answer[n]]
<1>1. /\ call[s].op = "sync" /\ n \in Inspections /\ answer[n] \in Forms
      /\ UNCHANGED <<locked, answer, concerns, page, history>>
  BY DEF SyncRead, Calling, FormTyped, FormTypeOK, FormCall
<1>2. FormCall(next)
  <2>1. \A i \in todo : answer[n][i] \in Answers
    BY <1>1 DEF Finding, Forms, Rows
  <2> QED BY <1>1, <2>1 DEF FormCall
<1>3. CASE todo = {}
  <2>1. SubmitDone(s, n)
    BY <1>3 DEF SyncRead
  <2>2. /\ call' = [t \in Screens |-> call'[t]]
        /\ \A t \in Screens : FormCall(call'[t])
        /\ call'[s] = Idle /\ \A t \in Screens \ {s} : call'[t] = call[t]
    BY <1>1, <2>1, SubmitDoneKeepsTypes, IdleCall, CallMoves
  <2>3. FormTypeOK'
    BY <1>1, <2>1, <2>2, SubmitDoneKeepsTypes DEF FormTyped, FormTypeOK, FormCall
  <2> QED BY <1>1, <1>3, <2>2, <2>3 DEF FormTyped
<1>4. CASE todo # {}
  <2>1. call' = [call EXCEPT ![s] = next] /\ UNCHANGED <<detail, draft>>
    BY <1>4 DEF SyncRead
  <2>2. /\ call' = [t \in Screens |-> call'[t]]
        /\ \A t \in Screens : FormCall(call'[t])
        /\ call'[s] = next /\ \A t \in Screens \ {s} : call'[t] = call[t]
    <3> HIDE DEF next
    <3> QED BY <1>2, <2>1, CallMoves
  <2>3. FormTypeOK'
    BY <1>1, <2>1, <2>2 DEF FormTyped, FormTypeOK, FormCall
  <2> QED BY <1>1, <2>2, <2>3 DEF FormTyped
<1> QED BY <1>3, <1>4

(* What was found is a concern that is there, or that there was none.          *)
LEMMA FindKeepsTypes ==
  ASSUME FormTyped, NEW s \in Screens, SyncFind(s)
  PROVE  LET c == call[s]
         IN  /\ FormTyped'
             /\ UNCHANGED <<locked, answer, concerns, history>>
             /\ c.op = "find" /\ c.on \in Inspections
             /\ \A t \in Screens \ {s} : call'[t] = call[t]
             /\ \E i \in c.todo : \E k \in {0} \cup DOMAIN concerns[c.on][i] :
                  /\ k = 0 => concerns[c.on][i] = <<>>
                  /\ call'[s] = [op |-> "put", on |-> c.on, todo |-> c.todo,
                                 seen |-> c.seen, item |-> i, at |-> k]
<1> DEFINE c == call[s]
           next(i, k) == [op |-> "put", on |-> c.on, todo |-> c.todo, seen |-> c.seen,
                          item |-> i, at |-> k]
<1>1. /\ c.op = "find" /\ c.on \in Inspections /\ FormCall(c) /\ c.todo \subseteq Items
      /\ UNCHANGED <<locked, answer, concerns, page, detail, draft, history>>
  BY DEF SyncFind, Calling, FormTyped, FormCall
<1>2. PICK i \in c.todo :
        \E k \in IF DOMAIN concerns[c.on][i] = {} THEN {0} ELSE DOMAIN concerns[c.on][i] :
          call' = [call EXCEPT ![s] = next(i, k)]
  BY DEF SyncFind
<1>3. concerns[c.on][i] \in Seq(Answers)
  BY <1>1, <1>2 DEF FormTyped
<1>4. PICK k \in {0} \cup DOMAIN concerns[c.on][i] :
        /\ k = 0 => concerns[c.on][i] = <<>>
        /\ call' = [call EXCEPT ![s] = next(i, k)]
  <2> DEFINE made == DOMAIN concerns[c.on][i]
  <2> HIDE DEF next
  <2>1. 0 \notin made /\ (made = {} => concerns[c.on][i] = <<>>)
    <3> DEFINE list == concerns[c.on][i]
    <3>1. list \in Seq(Answers) /\ made = 1 .. Len(list) /\ Len(list) \in Nat
      BY <1>3
    <3>2. \A n \in Nat : 0 \notin 1 .. n /\ (n # 0 => 1 \in 1 .. n)
      OBVIOUS
    <3>3. 0 \notin made /\ (made = {} => Len(list) = 0)
      BY <3>1, <3>2
    <3> QED BY <3>1, <3>3, EmptySeq
  <2>2. CASE made = {}
    BY <1>2, <2>1, <2>2
  <2>3. CASE made # {}
    BY <1>2, <2>1, <2>3
  <2> QED BY <2>2, <2>3
<1>5. FormCall(next(i, k))
  BY <1>1, <1>2 DEF FormCall
<1>6. /\ call' = [t \in Screens |-> call'[t]]
      /\ \A t \in Screens : FormCall(call'[t])
      /\ call'[s] = next(i, k) /\ \A t \in Screens \ {s} : call'[t] = call[t]
  <2> HIDE DEF next
  <2> QED BY <1>4, <1>5, CallMoves
<1>7. FormTypeOK'
  BY <1>1, <1>6 DEF FormTyped, FormTypeOK, FormCall
<1> QED BY <1>1, <1>2, <1>4, <1>6, <1>7 DEF FormTyped

(* A concern is added after the last, or takes the place of the one found.     *)
LEMMA PutKeepsTypes ==
  ASSUME FormTyped, NEW s \in Screens, SyncPut(s),
         call[s].at \in {0} \cup DOMAIN concerns[call[s].on][call[s].item]
  PROVE  LET c == call[s]
             old == concerns[c.on][c.item]
             new == IF c.at = 0 THEN Append(old, c.seen[c.item])
                    ELSE [old EXCEPT ![c.at] = c.seen[c.item]]
         IN  /\ FormTyped'
             /\ UNCHANGED <<locked, answer, history>>
             /\ c.op = "put" /\ c.on \in Inspections /\ c.item \in c.todo /\ c.todo \subseteq Items
             /\ concerns' = [concerns EXCEPT ![c.on][c.item] = new]
             /\ Len(new) = IF c.at = 0 THEN Len(old) + 1 ELSE Len(old)
             /\ \E k \in DOMAIN new : new[k] = c.seen[c.item]
             /\ \A t \in Screens \ {s} : call'[t] = call[t]
             /\ \/ c.todo = {c.item} /\ call'[s] = Idle
                \/ call'[s] = [op |-> "find", on |-> c.on, todo |-> c.todo \ {c.item},
                               seen |-> c.seen]
<1> DEFINE c == call[s]
           old == concerns[c.on][c.item]
           seen == c.seen[c.item]
           new == IF c.at = 0 THEN Append(old, seen) ELSE [old EXCEPT ![c.at] = seen]
           left == c.todo \ {c.item}
           next == [op |-> "find", on |-> c.on, todo |-> left, seen |-> c.seen]
<1>1. /\ c.op = "put" /\ c.on \in Inspections /\ FormCall(c)
      /\ c.item \in c.todo /\ c.todo \subseteq Items
      /\ seen \in Answers /\ old \in Seq(Answers)
      /\ concerns \in [Inspections -> [Items -> Seq(Answers)]]
  BY DEF SyncPut, Calling, FormTyped, FormCall
<1>2. /\ concerns' = [concerns EXCEPT ![c.on][c.item] = new]
      /\ UNCHANGED <<locked, answer, page, history>>
  BY DEF SyncPut
<1>3. /\ new \in Seq(Answers) /\ Len(new) = IF c.at = 0 THEN Len(old) + 1 ELSE Len(old)
      /\ \E k \in DOMAIN new : new[k] = seen
  <2> HIDE DEF c, old, seen
  <2>1. CASE c.at = 0
    <3>1. new = Append(old, seen) /\ new \in Seq(Answers) /\ Len(new) = Len(old) + 1
      BY <1>1, <2>1, AppendProperties
    <3>2. Len(old) + 1 \in DOMAIN new /\ new[Len(old) + 1] = seen
      BY <1>1, <3>1, AppendProperties
    <3> QED BY <2>1, <3>1, <3>2
  <2>2. CASE c.at # 0
    <3>1. c.at \in DOMAIN old
      BY <2>2 DEF c, old
    <3>2. new = [old EXCEPT ![c.at] = seen] /\ new \in Seq(Answers) /\ Len(new) = Len(old)
      BY <1>1, <2>2, <3>1, ExceptSeq
    <3>3. c.at \in DOMAIN new /\ new[c.at] = seen
      BY <3>1, <3>2
    <3> QED BY <2>2, <3>2, <3>3
  <2> QED BY <2>1, <2>2
<1>4. concerns' \in [Inspections -> [Items -> Seq(Answers)]]
  <2> HIDE DEF new
  <2> QED BY <1>1, <1>2, <1>3
<1>5. FormCall(next)
  BY <1>1 DEF FormCall
<1>6. CASE left = {}
  <2>1. SubmitDone(s, c.on) /\ c.todo = {c.item}
    BY <1>1, <1>6 DEF SyncPut
  <2>2. /\ call' = [t \in Screens |-> call'[t]]
        /\ \A t \in Screens : FormCall(call'[t])
        /\ call'[s] = Idle /\ \A t \in Screens \ {s} : call'[t] = call[t]
    BY <1>1, <2>1, SubmitDoneKeepsTypes, IdleCall, CallMoves
  <2>3. FormTypeOK'
    <3>1. /\ detail' \in [Phones -> [Inspections -> {Nothing} \cup [op : {"held"}, form : Forms]]]
          /\ draft' \in [Phones -> [Inspections -> {Nothing} \cup [op : {"held"}, form : Forms]]]
      BY <1>1, <2>1, SubmitDoneKeepsTypes
    <3>2. \A n \in Inspections, i \in Items : concerns'[n][i] \in Seq(Answers)
      BY <1>4
    <3> HIDE DEF new
    <3> QED BY <1>2, <2>2, <3>1, <3>2 DEF FormTyped, FormTypeOK, FormCall
  <2> QED BY <1>1, <1>2, <1>3, <1>4, <2>1, <2>2, <2>3 DEF FormTyped
<1>7. CASE left # {}
  <2>1. call' = [call EXCEPT ![s] = next] /\ UNCHANGED <<detail, draft>>
    BY <1>7 DEF SyncPut
  <2>2. /\ call' = [t \in Screens |-> call'[t]]
        /\ \A t \in Screens : FormCall(call'[t])
        /\ call'[s] = next /\ \A t \in Screens \ {s} : call'[t] = call[t]
    <3> HIDE DEF next
    <3> QED BY <1>5, <2>1, CallMoves
  <2>3. FormTypeOK'
    <3>1. \A n \in Inspections, i \in Items : concerns'[n][i] \in Seq(Answers)
      BY <1>4
    <3> HIDE DEF new, next
    <3> QED BY <1>2, <2>1, <2>2, <3>1 DEF FormTyped, FormTypeOK, FormCall
  <2> QED BY <1>1, <1>2, <1>3, <1>4, <2>2, <2>3 DEF FormTyped
<1> QED BY <1>6, <1>7

LEMMA ReopenKeepsTypes ==
  ASSUME FormTyped, NEW s \in Screens, Reopen(s)
  PROVE  /\ FormTyped'
         /\ UNCHANGED <<answer, concerns>>
         /\ locked' = [locked EXCEPT ![call[s].on] = FALSE]
         /\ call[s].op = "reopen" /\ call[s].on \in Inspections
         /\ call'[s] = Idle /\ \A t \in Screens \ {s} : call'[t] = call[t]
         /\ history'.broken = history.broken \ {call[s].on}
         /\ history'.late = history.late \ {call[s].on}
         /\ history'.crowd = history.crowd
<1>1. /\ call[s].op = "reopen" /\ call[s].on \in Inspections
      /\ locked' = [locked EXCEPT ![call[s].on] = FALSE]
      /\ history' = [history EXCEPT !.broken = @ \ {call[s].on}, !.late = @ \ {call[s].on}]
      /\ call' = [call EXCEPT ![s] = Idle]
      /\ UNCHANGED <<answer, concerns, page, detail, draft>>
  BY DEF Reopen, Calling, Done, FormTyped, FormCall
<1>2. /\ call' = [t \in Screens |-> call'[t]]
      /\ \A t \in Screens : FormCall(call'[t])
      /\ call'[s] = Idle /\ \A t \in Screens \ {s} : call'[t] = call[t]
  BY <1>1, IdleCall, CallMoves
<1>3. FormTypeOK'
  BY <1>1, <1>2 DEF FormTyped, FormTypeOK, FormCall
<1>4. /\ history'.broken = history.broken \ {call[s].on}
      /\ history'.late = history.late \ {call[s].on}
      /\ history'.crowd = history.crowd
  BY <1>1 DEF FormTyped, FormTypeOK
<1> QED BY <1>1, <1>2, <1>3, <1>4 DEF FormTyped

LEMMA DeathKeepsTypes ==
  ASSUME FormTyped, NEW s \in Screens, CallDies(s)
  PROVE  /\ FormTyped'
         /\ UNCHANGED <<locked, answer, concerns>>
         /\ call[s].op # "idle" /\ call[s].on \in Inspections
         /\ call'[s] = Idle /\ \A t \in Screens \ {s} : call'[t] = call[t]
         /\ history.broken \subseteq history'.broken
         /\ call[s].op \in {"sync", "find", "put"} => call[s].on \in history'.broken
         /\ history'.late = history.late /\ history'.crowd = history.crowd
<1>1. /\ call[s].op # "idle" /\ call[s].on \in Inspections
      /\ history' = [history EXCEPT !.broken =
           IF call[s].op \in {"sync", "find", "put"} THEN @ \cup {call[s].on} ELSE @]
      /\ call' = [call EXCEPT ![s] = Idle]
      /\ UNCHANGED <<locked, answer, concerns, page, detail, draft>>
  BY DEF CallDies, Calling, Done, FormTyped, FormCall
<1>2. /\ call' = [t \in Screens |-> call'[t]]
      /\ \A t \in Screens : FormCall(call'[t])
      /\ call'[s] = Idle /\ \A t \in Screens \ {s} : call'[t] = call[t]
  BY <1>1, IdleCall, CallMoves
<1>3. FormTypeOK'
  BY <1>1, <1>2 DEF FormTyped, FormTypeOK, FormCall
<1>4. /\ history.broken \subseteq history'.broken
      /\ call[s].op \in {"sync", "find", "put"} => call[s].on \in history'.broken
      /\ history'.late = history.late /\ history'.crowd = history.crowd
  BY <1>1 DEF FormTyped, FormTypeOK
<1> QED BY <1>1, <1>2, <1>3, <1>4 DEF FormTyped

(* The calls that found no concern of a response and are about to make one.    *)
Making(n, i) == {s \in Screens : /\ call[s].op = "put" /\ call[s].on = n
                                 /\ call[s].item = i /\ call[s].at = 0}

FoundIsThere ==
  \A s \in Screens : call[s].op = "put" =>
    call[s].at \in {0} \cup DOMAIN concerns[call[s].on][call[s].item]

(* The most submits that ran at once bound those that run, and the concerns of *)
(* a response with those about to be made.                                     *)
CrowdBounds ==
  /\ \A n \in Inspections : Cardinality(Syncing(n)) <= history.crowd
  /\ \A n \in Inspections, i \in Items :
       Len(concerns[n][i]) + Cardinality(Making(n, i)) <= history.crowd

(* A call that has yet to bring the concern of an answer up to date.           *)
Follows(s, n, i) ==
  /\ call[s].op \in {"sync", "find", "put"} /\ call[s].on = n
  /\ call[s].op # "sync" => i \in call[s].todo

FindingsFollowed ==
  \A n \in Inspections, i \in Items :
    locked[n] /\ n \notin history.broken \cup history.late /\ Finding(i, answer[n][i])
      => concerns[n][i] # <<>> \/ \E s \in Screens : Follows(s, n, i)

(* Where no two submits ran at once, the one that runs saw the answers there   *)
(* are, since a locked inspection keeps its answers.                           *)
AnswersFollowed ==
  history.crowd <= 1 => \A n \in Inspections : locked[n] /\ n \notin history.late =>
    /\ \A s \in Screens : call[s].op \in {"find", "put"} /\ call[s].on = n
         => call[s].seen = answer[n]
    /\ \A i \in Items : n \notin history.broken /\ Finding(i, answer[n][i]) =>
         \/ \E k \in DOMAIN concerns[n][i] : concerns[n][i][k] = answer[n][i]
         \/ \E s \in Screens : Follows(s, n, i)

FormSound ==
  FormTyped /\ FoundIsThere /\ CrowdBounds /\ FindingsFollowed /\ AnswersFollowed

LEMMA MakingFinite ==
  ASSUME NEW n, NEW i
  PROVE  /\ Making(n, i) \subseteq Syncing(n)
         /\ IsFiniteSet(Making(n, i)) /\ Cardinality(Making(n, i)) \in Nat
         /\ Cardinality(Making(n, i)) <= Cardinality(Syncing(n))
<1>1. Making(n, i) \subseteq Syncing(n)
  BY DEF Making, Syncing
<1> QED BY <1>1, SyncingFinite, FS_Subset, FS_CardinalityType

LEMMA FormTypes ==
  ASSUME FormTyped
  PROVE  /\ history.crowd \in Nat /\ history.crowd <= Cardinality(Screens)
         /\ \A n \in Inspections, i \in Items :
              concerns[n][i] \in Seq(Answers) /\ Len(concerns[n][i]) \in Nat
<1>1. history.crowd \in 0 .. Cardinality(Screens)
  BY DEF FormTyped, FormTypeOK
<1> QED BY <1>1, ScreensFinite DEF FormTyped

LEMMA FormStartsSound == FormInit => FormSound
<1> SUFFICES ASSUME FormInit PROVE FormSound
  OBVIOUS
<1>1. FormTyped
  BY FormStarts
<1>2. \A s \in Screens : call[s].op = "idle"
  BY DEF FormInit, Idle
<1>3. \A n \in Inspections, i \in Items : concerns[n][i] = <<>> /\ ~locked[n]
  BY DEF FormInit
<1>4. CrowdBounds
  <2>1. \A n : Syncing(n) = {} /\ \A i : Making(n, i) = {}
    BY <1>2 DEF Syncing, Making
  <2>2. history.crowd = 0
    BY DEF FormInit
  <2>3. Cardinality({}) = 0
    BY FS_EmptySet
  <2>4. \A n \in Inspections, i \in Items : Len(concerns[n][i]) = 0
    BY <1>3
  <2>5. \A n \in Inspections : Cardinality(Syncing(n)) <= history.crowd
    BY <2>1, <2>2, <2>3
  <2>6. ASSUME NEW n \in Inspections, NEW i \in Items
        PROVE  Len(concerns[n][i]) + Cardinality(Making(n, i)) <= history.crowd
    <3>1. Len(concerns[n][i]) = 0 /\ Cardinality(Making(n, i)) = 0
      BY <2>1, <2>3, <2>4
    <3> QED BY <2>2, <3>1
  <2> QED BY <2>5, <2>6 DEF CrowdBounds
<1> QED BY <1>1, <1>2, <1>3, <1>4
        DEF FormSound, FoundIsThere, FindingsFollowed, AnswersFollowed

(* What begins no sync and moves none on: the screens, a save, a reopening and *)
(* a call that dies, which leaves its inspection broken.                       *)
LEMMA RestKeepsSound ==
  ASSUME FormSound, FormTyped', concerns' = concerns,
         \A t \in Screens :
           \/ call'[t] = call[t]
           \/ /\ call'[t].op \notin {"sync", "find", "put"}
              /\ call[t].op \in {"sync", "find", "put"} => call[t].on \in history'.broken,
         history'.crowd = history.crowd,
         \A n \in Inspections : locked'[n] /\ n \notin history'.late =>
           /\ locked[n] /\ n \notin history.late /\ answer'[n] = answer[n]
           /\ n \in history.broken => n \in history'.broken
  PROVE  FormSound'
<1>1. \A t \in Screens : call'[t].op \in {"sync", "find", "put"} => call'[t] = call[t]
  OBVIOUS
<1>2. FoundIsThere'
  BY <1>1 DEF FormSound, FoundIsThere
<1>3. CrowdBounds'
  <2>1. \A n : /\ Syncing(n)' \subseteq Syncing(n)
               /\ \A i : Making(n, i)' \subseteq Making(n, i)
    BY <1>1 DEF Syncing, Making
  <2>2. ASSUME NEW n \in Inspections PROVE Cardinality(Syncing(n)') <= history'.crowd
    <3>1. Cardinality(Syncing(n)') <= Cardinality(Syncing(n))
      BY <2>1, SyncingFinite, FS_Subset
    <3>2. Cardinality(Syncing(n)) <= history.crowd /\ Cardinality(Syncing(n)) \in Nat
      BY SyncingFinite DEF FormSound, CrowdBounds
    <3>3. Cardinality(Syncing(n)') \in Nat /\ history.crowd \in Nat
      BY <2>1, SyncingFinite, FS_Subset, FS_CardinalityType, FormTypes DEF FormSound
    <3> QED BY <3>1, <3>2, <3>3
  <2>3. ASSUME NEW n \in Inspections, NEW i \in Items
        PROVE  Len(concerns'[n][i]) + Cardinality(Making(n, i)') <= history'.crowd
    <3>1. Cardinality(Making(n, i)') <= Cardinality(Making(n, i))
      BY <2>1, MakingFinite, FS_Subset
    <3>2. Len(concerns[n][i]) + Cardinality(Making(n, i)) <= history.crowd
      BY DEF FormSound, CrowdBounds
    <3>3. Cardinality(Making(n, i)') \in Nat /\ Cardinality(Making(n, i)) \in Nat
      BY <2>1, MakingFinite, FS_Subset, FS_CardinalityType
    <3>4. Len(concerns[n][i]) \in Nat /\ history.crowd \in Nat
      BY FormTypes DEF FormSound
    <3> QED BY <3>1, <3>2, <3>3, <3>4
  <2> QED BY <2>2, <2>3 DEF CrowdBounds
<1>4. \A t \in Screens, n \in Inspections, i \in Items :
        n \notin history'.broken /\ Follows(t, n, i) => Follows(t, n, i)'
  BY DEF Follows
<1>5. FindingsFollowed'
  BY <1>4 DEF FormSound, FindingsFollowed
<1>6. AnswersFollowed'
  <2> SUFFICES ASSUME history'.crowd <= 1, NEW n \in Inspections,
                      locked'[n], n \notin history'.late
               PROVE  /\ \A s \in Screens :
                           call'[s].op \in {"find", "put"} /\ call'[s].on = n
                             => call'[s].seen = answer'[n]
                      /\ \A i \in Items :
                           n \notin history'.broken /\ Finding(i, answer'[n][i]) =>
                             \/ \E k \in DOMAIN concerns'[n][i] :
                                  concerns'[n][i][k] = answer'[n][i]
                             \/ \E s \in Screens : Follows(s, n, i)'
    BY DEF AnswersFollowed
  <2>1. \A s \in Screens : call'[s].op \in {"find", "put"} /\ call'[s].on = n
          => call'[s].seen = answer'[n]
    BY <1>1 DEF FormSound, AnswersFollowed
  <2>2. ASSUME NEW i \in Items, n \notin history'.broken, Finding(i, answer'[n][i])
        PROVE  \/ \E k \in DOMAIN concerns'[n][i] : concerns'[n][i][k] = answer'[n][i]
               \/ \E s \in Screens : Follows(s, n, i)'
    BY <1>4, <2>2 DEF FormSound, AnswersFollowed
  <2> QED BY <2>1, <2>2
<1> QED BY <1>2, <1>3, <1>5, <1>6 DEF FormSound

(* A submit takes the lock: what was left unfollowed before, its own sync will *)
(* follow, and it is one more that runs.                                       *)
LEMMA LockKeepsSound ==
  ASSUME FormSound, NEW s \in Screens, SubmitLock(s)
  PROVE  FormSound'
<1>0. PICK m : m = call[s].on
  OBVIOUS
<1>1. /\ FormTyped'
      /\ answer' = answer /\ concerns' = concerns
      /\ locked' = [locked EXCEPT ![m] = TRUE]
      /\ call[s].op = "submit" /\ m \in Inspections
      /\ call'[s] = [op |-> "sync", on |-> m]
      /\ \A t \in Screens \ {s} : call'[t] = call[t]
      /\ history'.broken = history.broken /\ history'.late = history.late
      /\ history'.crowd \in Nat /\ history'.crowd >= history.crowd
      /\ history'.crowd >= Cardinality(Syncing(m)) + 1
  BY <1>0, LockKeepsTypes DEF FormSound
<1>2. /\ \A n : n # m => Syncing(n)' = Syncing(n)
      /\ Syncing(m)' = Syncing(m) \cup {s} /\ s \notin Syncing(m)
      /\ \A n, i : Making(n, i)' = Making(n, i)
  BY <1>1 DEF Syncing, Making
<1>3. CrowdBounds'
  <2>1. history.crowd \in Nat
    BY FormTypes DEF FormSound
  <2>2. ASSUME NEW n \in Inspections PROVE Cardinality(Syncing(n)') <= history'.crowd
    <3>1. CASE n = m
      <4>1. Cardinality(Syncing(m)') = Cardinality(Syncing(m)) + 1
        BY <1>2, SyncingFinite, FS_AddElement
      <4> QED BY <1>1, <3>1, <4>1, SyncingFinite
    <3>2. CASE n # m
      <4>1. Cardinality(Syncing(n)) <= history.crowd
        BY DEF FormSound, CrowdBounds
      <4> QED BY <1>1, <1>2, <2>1, <3>2, <4>1, SyncingFinite
    <3> QED BY <3>1, <3>2
  <2>3. ASSUME NEW n \in Inspections, NEW i \in Items
        PROVE  Len(concerns'[n][i]) + Cardinality(Making(n, i)') <= history'.crowd
    <3>1. Len(concerns[n][i]) + Cardinality(Making(n, i)) <= history.crowd
      BY DEF FormSound, CrowdBounds
    <3>2. Len(concerns[n][i]) \in Nat /\ Cardinality(Making(n, i)) \in Nat
      BY MakingFinite, FormTypes DEF FormSound
    <3> QED BY <1>1, <1>2, <2>1, <3>1, <3>2
  <2> QED BY <2>2, <2>3 DEF CrowdBounds
<1>4. FoundIsThere'
  BY <1>1 DEF FormSound, FoundIsThere
<1>5. \A t \in Screens, n \in Inspections, i \in Items :
        Follows(t, n, i) => Follows(t, n, i)'
  BY <1>1 DEF Follows
<1>6. \A i : Follows(s, m, i)'
  BY <1>1 DEF Follows
<1>7. \A n \in Inspections : n # m => locked'[n] = locked[n]
  BY <1>1 DEF FormSound, FormTyped, FormTypeOK
<1>8. FindingsFollowed'
  BY <1>1, <1>5, <1>6, <1>7 DEF FormSound, FindingsFollowed
<1>9. AnswersFollowed'
  <2> SUFFICES ASSUME history'.crowd <= 1, NEW n \in Inspections,
                      locked'[n], n \notin history'.late
               PROVE  /\ \A t \in Screens :
                           call'[t].op \in {"find", "put"} /\ call'[t].on = n
                             => call'[t].seen = answer'[n]
                      /\ \A i \in Items :
                           n \notin history'.broken /\ Finding(i, answer'[n][i]) =>
                             \/ \E k \in DOMAIN concerns'[n][i] :
                                  concerns'[n][i][k] = answer'[n][i]
                             \/ \E t \in Screens : Follows(t, n, i)'
    BY DEF AnswersFollowed
  <2>1. history.crowd <= 1
    BY <1>1, FormTypes DEF FormSound
  <2>2. CASE n = m
    <3>1. Syncing(m) = {}
      <4>1. Cardinality(Syncing(m)) = 0
        BY <1>1, SyncingFinite
      <4> QED BY <4>1, SyncingFinite, FS_EmptySet
    <3>2. \A t \in Screens : ~(call'[t].op \in {"find", "put"} /\ call'[t].on = n)
      BY <1>1, <2>2, <3>1 DEF Syncing
    <3> QED BY <1>6, <2>2, <3>2 DEF Follows
  <2>3. CASE n # m
    <3>1. locked[n] /\ n \notin history.late
      BY <1>1, <1>7, <2>3
    <3>2. \A t \in Screens : call'[t].op \in {"find", "put"} /\ call'[t].on = n
            => call'[t].seen = answer'[n]
      BY <1>1, <2>1, <3>1 DEF FormSound, AnswersFollowed
    <3>3. ASSUME NEW i \in Items, n \notin history'.broken, Finding(i, answer'[n][i])
          PROVE  \/ \E k \in DOMAIN concerns'[n][i] : concerns'[n][i][k] = answer'[n][i]
                 \/ \E t \in Screens : Follows(t, n, i)'
      BY <1>1, <1>5, <2>1, <3>1, <3>3 DEF FormSound, AnswersFollowed
    <3> QED BY <3>2, <3>3
  <2> QED BY <2>2, <2>3
<1> QED BY <1>1, <1>3, <1>4, <1>8, <1>9 DEF FormSound

(* The answers are read: all that are findings are now the call's to follow.   *)
LEMMA ReadKeepsSound ==
  ASSUME FormSound, NEW s \in Screens, SyncRead(s)
  PROVE  FormSound'
<1>0. PICK m : m = call[s].on
  OBVIOUS
<1> DEFINE todo == {i \in Items : Finding(i, answer[m][i])}
<1>1. /\ FormTyped'
      /\ UNCHANGED <<locked, answer, concerns, history>>
      /\ call[s].op = "sync" /\ m \in Inspections
      /\ \A t \in Screens \ {s} : call'[t] = call[t]
      /\ \/ todo = {} /\ call'[s] = Idle
         \/ call'[s] = [op |-> "find", on |-> m, todo |-> todo, seen |-> answer[m]]
  BY <1>0, ReadKeepsTypes DEF FormSound
<1>2. \A n : /\ Syncing(n)' \subseteq Syncing(n)
             /\ \A i : Making(n, i)' = Making(n, i)
  BY <1>0, <1>1 DEF Syncing, Making, Idle
<1>3. CrowdBounds'
  <2>1. ASSUME NEW n \in Inspections PROVE Cardinality(Syncing(n)') <= history'.crowd
    <3>1. Cardinality(Syncing(n)') <= Cardinality(Syncing(n)) /\ IsFiniteSet(Syncing(n)')
      BY <1>2, SyncingFinite, FS_Subset
    <3>2. Cardinality(Syncing(n)) <= history.crowd /\ history.crowd \in Nat
      BY FormTypes DEF FormSound, CrowdBounds
    <3>3. Cardinality(Syncing(n)') \in Nat /\ history'.crowd = history.crowd
      BY <1>1, <3>1, FS_CardinalityType
    <3> QED BY <3>1, <3>2, <3>3, SyncingFinite
  <2> QED BY <1>1, <1>2, <2>1 DEF FormSound, CrowdBounds
<1>4. FoundIsThere'
  BY <1>1 DEF FormSound, FoundIsThere, Idle
<1>5. ASSUME NEW n \in Inspections, NEW i \in Items, NEW t \in Screens,
             Follows(t, n, i), Finding(i, answer[n][i])
      PROVE  Follows(t, n, i)'
  <2>1. CASE t # s
    BY <1>1, <1>5, <2>1 DEF Follows
  <2>2. CASE t = s
    <3>1. n = m /\ i \in todo
      BY <1>0, <1>5, <2>2 DEF Follows
    <3> QED BY <1>1, <2>2, <3>1 DEF Follows
  <2> QED BY <2>1, <2>2
<1>6. FindingsFollowed'
  BY <1>1, <1>5 DEF FormSound, FindingsFollowed
<1>7. AnswersFollowed'
  <2> SUFFICES ASSUME history.crowd <= 1, NEW n \in Inspections,
                      locked[n], n \notin history.late
               PROVE  /\ \A t \in Screens :
                           call'[t].op \in {"find", "put"} /\ call'[t].on = n
                             => call'[t].seen = answer[n]
                      /\ \A i \in Items :
                           n \notin history.broken /\ Finding(i, answer[n][i]) =>
                             \/ \E k \in DOMAIN concerns[n][i] : concerns[n][i][k] = answer[n][i]
                             \/ \E t \in Screens : Follows(t, n, i)'
    BY <1>1 DEF AnswersFollowed
  <2>1. \A t \in Screens : call'[t].op \in {"find", "put"} /\ call'[t].on = n
          => call'[t].seen = answer[n]
    BY <1>1 DEF FormSound, AnswersFollowed, Idle
  <2>2. ASSUME NEW i \in Items, n \notin history.broken, Finding(i, answer[n][i])
        PROVE  \/ \E k \in DOMAIN concerns[n][i] : concerns[n][i][k] = answer[n][i]
               \/ \E t \in Screens : Follows(t, n, i)'
    BY <1>5, <2>2 DEF FormSound, AnswersFollowed
  <2> QED BY <2>1, <2>2
<1> QED BY <1>1, <1>3, <1>4, <1>6, <1>7 DEF FormSound

(* The concern of an answer is looked for: none may be made but where none is. *)
LEMMA FindKeepsSound ==
  ASSUME FormSound, NEW s \in Screens, SyncFind(s)
  PROVE  FormSound'
<1> DEFINE c == call[s]
<1>1. /\ FormTyped'
      /\ UNCHANGED <<locked, answer, concerns, history>>
      /\ c.op = "find" /\ c.on \in Inspections
      /\ \A t \in Screens \ {s} : call'[t] = call[t]
      /\ \E i \in c.todo : \E k \in {0} \cup DOMAIN concerns[c.on][i] :
           /\ k = 0 => concerns[c.on][i] = <<>>
           /\ call'[s] = [op |-> "put", on |-> c.on, todo |-> c.todo,
                          seen |-> c.seen, item |-> i, at |-> k]
  BY FindKeepsTypes DEF FormSound
<1>2. PICK i0 \in c.todo : \E k \in {0} \cup DOMAIN concerns[c.on][i0] :
        /\ k = 0 => concerns[c.on][i0] = <<>>
        /\ call'[s] = [op |-> "put", on |-> c.on, todo |-> c.todo,
                       seen |-> c.seen, item |-> i0, at |-> k]
  BY <1>1
<1>3. /\ call'[s].op = "put" /\ call'[s].on = c.on /\ call'[s].todo = c.todo
      /\ call'[s].seen = c.seen /\ call'[s].item = i0
      /\ call'[s].at \in {0} \cup DOMAIN concerns[c.on][i0]
      /\ call'[s].at = 0 => concerns[c.on][i0] = <<>>
  BY <1>2
<1>4. \A n : Syncing(n)' = Syncing(n)
  BY <1>1, <1>3 DEF Syncing
<1>5. FoundIsThere'
  BY <1>1, <1>3 DEF FormSound, FoundIsThere
<1>6. CrowdBounds'
  <2>1. ASSUME NEW n \in Inspections, NEW i \in Items
        PROVE  Len(concerns'[n][i]) + Cardinality(Making(n, i)') <= history'.crowd
    <3>1. /\ Len(concerns[n][i]) + Cardinality(Making(n, i)) <= history.crowd
          /\ Len(concerns[n][i]) \in Nat /\ history.crowd \in Nat
      BY FormTypes DEF FormSound, CrowdBounds
    <3>2. CASE n = c.on /\ i = i0 /\ call'[s].at = 0
      <4>1. Making(n, i)' \subseteq Syncing(n)
        BY <1>4 DEF Making, Syncing
      <4>2. Cardinality(Making(n, i)') <= Cardinality(Syncing(n))
        BY <4>1, SyncingFinite, FS_Subset
      <4>3. Cardinality(Making(n, i)') \in Nat
        BY <4>1, SyncingFinite, FS_Subset, FS_CardinalityType
      <4>4. Cardinality(Syncing(n)) <= history.crowd
        BY DEF FormSound, CrowdBounds
      <4>5. Len(concerns'[n][i]) = 0
        BY <1>1, <1>3, <3>2
      <4> QED BY <1>1, <3>1, <4>2, <4>3, <4>4, <4>5, SyncingFinite
    <3>3. CASE ~(n = c.on /\ i = i0 /\ call'[s].at = 0)
      <4>1. Making(n, i)' = Making(n, i)
        BY <1>1, <1>3, <3>3 DEF Making
      <4> QED BY <1>1, <3>1, <4>1
    <3> QED BY <3>2, <3>3
  <2> QED BY <1>1, <1>4, <2>1 DEF FormSound, CrowdBounds
<1>7. \A n, i : \A t \in Screens : Follows(t, n, i)' <=> Follows(t, n, i)
  BY <1>1, <1>3 DEF Follows
<1>8. FindingsFollowed'
  BY <1>1, <1>7 DEF FormSound, FindingsFollowed
<1>9. AnswersFollowed'
  <2>1. \A n : \A t \in Screens :
          call'[t].op \in {"find", "put"} /\ call'[t].on = n <=>
          call[t].op \in {"find", "put"} /\ call[t].on = n
    BY <1>1, <1>3
  <2>2. \A t \in Screens : call'[t].op \in {"find", "put"} => call'[t].seen = call[t].seen
    BY <1>1, <1>3
  <2> QED BY <1>1, <1>7, <2>1, <2>2 DEF FormSound, AnswersFollowed
<1> QED BY <1>1, <1>5, <1>6, <1>8, <1>9 DEF FormSound

(* A concern is made or brought up to date with what the call saw: it makes    *)
(* one only where it counted as about to.                                      *)
LEMMA PutKeepsSound ==
  ASSUME FormSound, NEW s \in Screens, SyncPut(s)
  PROVE  FormSound'
<1>0. PICK c : c = call[s]
  OBVIOUS
<1> DEFINE old == concerns[c.on][c.item]
           new == IF c.at = 0 THEN Append(old, c.seen[c.item])
                  ELSE [old EXCEPT ![c.at] = c.seen[c.item]]
<1>1. call[s].op = "put" /\ call[s].at \in {0} \cup DOMAIN concerns[call[s].on][call[s].item]
  BY DEF SyncPut, Calling, FormSound, FoundIsThere
<1>2. /\ FormTyped'
      /\ UNCHANGED <<locked, answer, history>>
      /\ c.op = "put" /\ c.on \in Inspections /\ c.item \in c.todo /\ c.todo \subseteq Items
      /\ concerns' = [concerns EXCEPT ![c.on][c.item] = new]
      /\ Len(new) = IF c.at = 0 THEN Len(old) + 1 ELSE Len(old)
      /\ \E k \in DOMAIN new : new[k] = c.seen[c.item]
      /\ \A t \in Screens \ {s} : call'[t] = call[t]
      /\ \/ c.todo = {c.item} /\ call'[s] = Idle
         \/ call'[s] = [op |-> "find", on |-> c.on, todo |-> c.todo \ {c.item},
                        seen |-> c.seen]
  BY <1>0, <1>1, PutKeepsTypes DEF FormSound
<1>3. /\ concerns'[c.on][c.item] = new
      /\ \A n \in Inspections, i \in Items :
           n # c.on \/ i # c.item => concerns'[n][i] = concerns[n][i]
  BY <1>2 DEF FormSound, FormTyped
<1> HIDE DEF new
<1>4. \A n : Syncing(n)' \subseteq Syncing(n)
  BY <1>0, <1>2 DEF Syncing, Idle
<1>5. \A n, i : Making(n, i)' = Making(n, i) \ {s}
  BY <1>0, <1>2 DEF Making, Idle
<1>6. \A n \in Inspections, i \in Items :
        /\ Len(concerns[n][i]) \in Nat /\ concerns[n][i] \in Seq(Answers)
        /\ concerns'[n][i] \in Seq(Answers)
        /\ DOMAIN concerns[n][i] \subseteq DOMAIN concerns'[n][i]
  <2> SUFFICES ASSUME NEW n \in Inspections, NEW i \in Items
               PROVE  /\ Len(concerns[n][i]) \in Nat /\ concerns[n][i] \in Seq(Answers)
                      /\ concerns'[n][i] \in Seq(Answers)
                      /\ DOMAIN concerns[n][i] \subseteq DOMAIN concerns'[n][i]
    OBVIOUS
  <2>1. concerns[n][i] \in Seq(Answers) /\ concerns'[n][i] \in Seq(Answers)
    BY <1>2 DEF FormSound, FormTyped
  <2>2. Len(concerns[n][i]) \in Nat /\ Len(concerns'[n][i]) \in Nat
    BY <2>1
  <2>3. Len(concerns[n][i]) <= Len(concerns'[n][i])
    BY <1>2, <1>3, <2>2
  <2> QED BY <2>1, <2>2, <2>3
<1>7. FoundIsThere'
  <2>1. ASSUME NEW t \in Screens, call'[t].op = "put"
        PROVE  call'[t].at \in {0} \cup DOMAIN concerns'[call'[t].on][call'[t].item]
    <3>1. call'[t] = call[t]
      BY <1>2, <2>1 DEF Idle
    <3>2. call[t].at \in {0} \cup DOMAIN concerns[call[t].on][call[t].item]
      BY <2>1, <3>1 DEF FormSound, FoundIsThere
    <3>3. call[t].on \in Inspections /\ call[t].item \in Items
      BY <2>1, <3>1 DEF FormSound, FormTyped, FormCall
    <3> QED BY <1>6, <3>1, <3>2, <3>3
  <2> QED BY <2>1 DEF FoundIsThere
<1>8. CrowdBounds'
  <2>1. ASSUME NEW n \in Inspections PROVE Cardinality(Syncing(n)') <= history'.crowd
    <3>1. Cardinality(Syncing(n)') <= Cardinality(Syncing(n)) /\ IsFiniteSet(Syncing(n)')
      BY <1>4, SyncingFinite, FS_Subset
    <3>2. Cardinality(Syncing(n)) <= history.crowd /\ history.crowd \in Nat
      BY FormTypes DEF FormSound, CrowdBounds
    <3>3. Cardinality(Syncing(n)') \in Nat /\ history'.crowd = history.crowd
      BY <1>2, <3>1, FS_CardinalityType
    <3> QED BY <3>1, <3>2, <3>3, SyncingFinite
  <2>2. ASSUME NEW n \in Inspections, NEW i \in Items
        PROVE  Len(concerns'[n][i]) + Cardinality(Making(n, i)') <= history'.crowd
    <3>1. /\ Len(concerns[n][i]) + Cardinality(Making(n, i)) <= history.crowd
          /\ Len(concerns[n][i]) \in Nat /\ history.crowd \in Nat
          /\ history' = history
      BY <1>2, FormTypes DEF FormSound, CrowdBounds
    <3>2. CASE n = c.on /\ i = c.item /\ c.at = 0
      <4>1. s \in Making(n, i)
        BY <1>0, <1>2, <3>2 DEF Making
      <4>2. Cardinality(Making(n, i)') = Cardinality(Making(n, i)) - 1
        BY <1>5, <4>1, MakingFinite, FS_RemoveElement
      <4>3. Len(concerns'[n][i]) = Len(concerns[n][i]) + 1
        BY <1>2, <1>3, <3>2
      <4>4. Cardinality(Making(n, i)) \in Nat
        BY MakingFinite
      <4> QED BY <3>1, <4>2, <4>3, <4>4
    <3>3. CASE ~(n = c.on /\ i = c.item /\ c.at = 0)
      <4>1. s \notin Making(n, i)
        BY <1>0, <3>3 DEF Making
      <4>2. Making(n, i)' = Making(n, i)
        BY <1>5, <4>1
      <4>3. Len(concerns'[n][i]) = Len(concerns[n][i])
        BY <1>2, <1>3, <3>3
      <4> QED BY <3>1, <4>2, <4>3
    <3> QED BY <3>2, <3>3
  <2> QED BY <2>1, <2>2 DEF CrowdBounds
<1>9. ASSUME NEW n \in Inspections, NEW i \in Items, NEW t \in Screens, Follows(t, n, i),
             n # c.on \/ i # c.item
      PROVE  Follows(t, n, i)'
  <2>1. CASE t # s
    BY <1>2, <1>9, <2>1 DEF Follows
  <2>2. CASE t = s
    <3>1. n = c.on /\ i \in c.todo \ {c.item}
      BY <1>0, <1>2, <1>9, <2>2 DEF Follows
    <3>2. call'[s] = [op |-> "find", on |-> c.on, todo |-> c.todo \ {c.item}, seen |-> c.seen]
      BY <1>2, <3>1
    <3> QED BY <2>2, <3>1, <3>2 DEF Follows
  <2> QED BY <2>1, <2>2
<1>10. FindingsFollowed'
  <2> SUFFICES ASSUME NEW n \in Inspections, NEW i \in Items, locked[n],
                      n \notin history.broken \cup history.late, Finding(i, answer[n][i])
               PROVE  concerns'[n][i] # <<>> \/ \E t \in Screens : Follows(t, n, i)'
    BY <1>2 DEF FindingsFollowed
  <2>1. CASE n = c.on /\ i = c.item
    BY <1>2, <1>3, <2>1
  <2>2. CASE ~(n = c.on /\ i = c.item)
    BY <1>3, <1>9, <2>2 DEF FormSound, FindingsFollowed
  <2> QED BY <2>1, <2>2
<1>11. AnswersFollowed'
  <2> SUFFICES ASSUME history.crowd <= 1, NEW n \in Inspections,
                      locked[n], n \notin history.late
               PROVE  /\ \A t \in Screens :
                           call'[t].op \in {"find", "put"} /\ call'[t].on = n
                             => call'[t].seen = answer[n]
                      /\ \A i \in Items :
                           n \notin history.broken /\ Finding(i, answer[n][i]) =>
                             \/ \E k \in DOMAIN concerns'[n][i] :
                                  concerns'[n][i][k] = answer[n][i]
                             \/ \E t \in Screens : Follows(t, n, i)'
    BY <1>2 DEF AnswersFollowed
  <2>1. \A t \in Screens : call[t].op \in {"find", "put"} /\ call[t].on = n
          => call[t].seen = answer[n]
    BY DEF FormSound, AnswersFollowed
  <2>2. \A t \in Screens : call'[t].op \in {"find", "put"} /\ call'[t].on = n
          => call'[t].seen = answer[n]
    BY <1>0, <1>2, <2>1 DEF Idle
  <2>3. ASSUME NEW i \in Items, n \notin history.broken, Finding(i, answer[n][i])
        PROVE  \/ \E k \in DOMAIN concerns'[n][i] : concerns'[n][i][k] = answer[n][i]
               \/ \E t \in Screens : Follows(t, n, i)'
    <3>1. CASE n = c.on /\ i = c.item
      BY <1>0, <1>2, <1>3, <2>1, <3>1
    <3>2. CASE ~(n = c.on /\ i = c.item)
      BY <1>3, <1>9, <2>3, <3>2 DEF FormSound, AnswersFollowed
    <3> QED BY <3>1, <3>2
  <2> QED BY <2>2, <2>3
<1> QED BY <1>2, <1>7, <1>8, <1>10, <1>11 DEF FormSound

LEMMA FormKeepsSound == FormSound /\ [FormNext]_formVars => FormSound'
<1> SUFFICES ASSUME FormSound, [FormNext]_formVars PROVE FormSound'
  OBVIOUS
<1>1. ASSUME NEW s \in Screens, ScreenStep(s) PROVE FormSound'
  BY <1>1, ScreenKeepsTypes, RestKeepsSound DEF FormSound
<1>2. ASSUME NEW s \in Screens, SaveWrite(s) PROVE FormSound'
  BY <1>2, SaveKeepsTypes, RestKeepsSound DEF FormSound
<1>3. ASSUME NEW s \in Screens, Reopen(s) PROVE FormSound'
  <2>1. \A n \in Inspections : locked'[n] => n # call[s].on /\ locked[n]
    BY <1>3, ReopenKeepsTypes DEF FormSound, FormTyped, FormTypeOK
  <2> QED BY <1>3, <2>1, ReopenKeepsTypes, RestKeepsSound DEF FormSound, Idle
<1>4. ASSUME NEW s \in Screens, CallDies(s) PROVE FormSound'
  BY <1>4, DeathKeepsTypes, RestKeepsSound DEF FormSound, Idle
<1>5. ASSUME NEW s \in Screens, SubmitLock(s) PROVE FormSound'
  BY <1>5, LockKeepsSound
<1>6. ASSUME NEW s \in Screens, SyncRead(s) PROVE FormSound'
  BY <1>6, ReadKeepsSound
<1>7. ASSUME NEW s \in Screens, SyncFind(s) PROVE FormSound'
  BY <1>7, FindKeepsSound
<1>8. ASSUME NEW s \in Screens, SyncPut(s) PROVE FormSound'
  BY <1>8, PutKeepsSound
<1>9. CASE UNCHANGED formVars
  <2>1. /\ UNCHANGED <<locked, answer, concerns, page, detail, draft, call, history>>
    BY <1>9 DEF formVars
  <2>2. FormTyped'
    BY <2>1 DEF FormSound, FormTyped, FormTypeOK
  <2> QED BY <2>1, <2>2, RestKeepsSound DEF FormSound
<1> QED BY <1>1, <1>2, <1>3, <1>4, <1>5, <1>6, <1>7, <1>8, <1>9 DEF FormNext, CallStep

(* The four light tables paint the same answers amber or red.                  *)
LEMMA TablesAgree == LightsAgree
<1>1. ASSUME NEW kind \in Kinds, NEW value \in Values, NEW urgency \in Urgencies
      PROVE  /\ IsFinding(BrowserLight(value, urgency, kind))
                  <=> IsFinding(ServerLight(value, urgency, kind))
             /\ IsFinding(PhoneLight(value)) /\ ~Informational(kind)
                  => IsFinding(ServerLight(value, urgency, kind))
  <2>1. CASE Informational(kind)
    <3>1. BrowserLight(value, urgency, kind) \in {"green", "none"}
      BY <2>1 DEF BrowserLight, Informational
    <3>2. ServerLight(value, urgency, kind) \in {"green", "none"}
      BY <2>1 DEF ServerLight, Informational
    <3> QED BY <2>1, <3>1, <3>2 DEF IsFinding
  <2>2. CASE ~Informational(kind)
    <3>1. kind \notin {"odometer", "fuel_level"}
      BY <2>2 DEF Informational
    <3>2. CASE ValueLight(value) # "none"
      <4>1. BrowserLight(value, urgency, kind) = ValueLight(value)
        BY <2>2, <3>1, <3>2 DEF BrowserLight
      <4>2. ServerLight(value, urgency, kind) = ValueLight(value)
        BY <2>2, <3>1, <3>2 DEF ServerLight
      <4>3. PhoneLight(value) \in {"none", ValueLight(value)}
        BY <3>2 DEF PhoneLight
      <4> QED BY <4>1, <4>2, <4>3 DEF IsFinding
    <3>3. CASE ValueLight(value) = "none"
      <4>1. BrowserLight(value, urgency, kind) = UrgencyLight(urgency)
        BY <2>2, <3>1, <3>3 DEF BrowserLight
      <4>2. ServerLight(value, urgency, kind) =
              IF UrgencyLight(urgency) # "none" THEN UrgencyLight(urgency)
              ELSE IF value = "" THEN "none" ELSE "green"
        BY <2>2, <3>1, <3>3 DEF ServerLight
      <4>3. ~IsFinding(PhoneLight(value))
        BY <3>3 DEF PhoneLight, IsFinding
      <4> QED BY <4>1, <4>2, <4>3 DEF IsFinding
    <3> QED BY <3>2, <3>3
  <2> QED BY <2>1, <2>2
<1>2. ASSUME NEW value \in Values
      PROVE  IsFinding(QcBrowserLight(value)) <=> IsFinding(QcServerLight(value))
  BY DEF Values, IsFinding, QcBrowserLight, QcServerLight
<1> QED BY <1>1, <1>2 DEF LightsAgree

LEMMA SoundFindings == FormSound => FindingsBecomeConcerns
<1> SUFFICES ASSUME FormSound PROVE FindingsBecomeConcerns
  OBVIOUS
<1>1. ASSUME NEW n \in Inspections, NEW i \in Items, locked[n], Quiet(n),
             n \notin history.broken \cup history.late, Finding(i, answer[n][i])
      PROVE  /\ concerns[n][i] # <<>>
             /\ history.crowd <= 1 =>
                  \E k \in DOMAIN concerns[n][i] : concerns[n][i][k] = answer[n][i]
  <2>1. \A s \in Screens : ~Follows(s, n, i)
    BY <1>1 DEF Quiet, Follows
  <2> QED BY <1>1, <2>1 DEF FormSound, FindingsFollowed, AnswersFollowed
<1>2. ASSUME NEW n \in Inspections, NEW i \in Items
      PROVE  Len(concerns[n][i]) <= history.crowd
  <2>1. Len(concerns[n][i]) + Cardinality(Making(n, i)) <= history.crowd
    BY DEF FormSound, CrowdBounds
  <2>2. Len(concerns[n][i]) \in Nat /\ history.crowd \in Nat
    BY FormTypes DEF FormSound
  <2> QED BY <2>1, <2>2, MakingFinite
<1> QED BY <1>1, <1>2, TablesAgree DEF FindingsBecomeConcerns

(* However many screens save, submit and reopen an inspection, in any order of *)
(* their statements and with any of them dying, a locked inspection hides no   *)
(* finding from the advisor and has no more concerns of an answer than submits *)
(* ran at once (FindingsBecomeConcerns).                                       *)
THEOREM FindingsReachTheAdvisor == FormSpec => [](FormTypeOK /\ FindingsBecomeConcerns)
<1>1. FormInit => FormSound  BY FormStartsSound
<1>2. FormSound /\ [FormNext]_formVars => FormSound'  BY FormKeepsSound
<1>3. FormSound => FormTypeOK /\ FindingsBecomeConcerns
  BY SoundFindings DEF FormSound, FormTyped
<1> QED BY <1>1, <1>2, <1>3, PTL DEF FormSpec
==============================================================================
