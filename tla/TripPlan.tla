------------------------------- MODULE TripPlan -------------------------------
(***************************************************************************)
(* The trips layout of the wizard (gui/core/trips_plan.cpp) and the form   *)
(* in which a session keeps it (gui/core/trip_edits.cpp).  No state here:  *)
(* the wizard keeps a clustering and the edits, and every query works out  *)
(* the layout from the two (Wizard).                                       *)
(*                                                                         *)
(* A clustering is a set of trips [id, members, legs, folder, slug, place],*)
(* the legs of a trip are a set of [place, slug, members].  Dates,         *)
(* positions and the order of presentation are left out.  Edits are        *)
(* [membership, trips, names, organize]: the trip a photo was moved to,    *)
(* the trips made by hand, the folder names typed by trip id, and the      *)
(* switch for folders.                                                     *)
(***************************************************************************)
EXTENDS Integers, FiniteSets, Sequences, SequencesExt

CONSTANTS
  Photos,      (* the ids of the index                                        *)
  Dated,       (* those of them that carry a date                             *)
  Labels,      (* what places, folders and slugs may be called                *)
  Slugged      (* those of them that have a letter or a digit to make a slug  *)

Unassigned == -1          \* unassigned_trip
FirstUserTrip == 1000000  \* first_user_trip_id
NoName == ""
OneOf(S) == CHOOSE x \in S : TRUE

ASSUME LabelsAssumption == {NoName, "leg-1", "Trip", "New trip"} \cup Slugged \subseteq Labels

NoEdits(organize) ==
  [membership |-> <<>>, trips |-> <<>>, names |-> <<>>, organize |-> organize]

LegRecords == [place : Labels, slug : Labels, members : SUBSET Photos]
TripRecords == [id : Int, members : SUBSET Photos, legs : SUBSET LegRecords,
                folder : Labels, slug : Labels, place : Labels]

\* legs.size() > 1
Several(legs) == Cardinality(legs) > 1

\* What the trips pass hands over: trips with numbers of their own, no photo in two of
\* them, and where a trip has several legs, each of its photos in one leg.
IsClustering(trips) ==
  /\ trips \subseteq TripRecords
  /\ \A t \in trips : t.id \in 0 .. FirstUserTrip - 1
  /\ \A t, u \in trips : t # u => t.id # u.id /\ t.members \cap u.members = {}
  /\ \A t \in trips : Several(t.legs) =>
       \A p \in t.members : \E leg \in t.legs : \A l \in t.legs : p \in l.members <=> l = leg

------------------------------------------------------------------------------
(* The layout.                                                                *)

AllTrips(clustering, e) == clustering \cup Range(e.trips)

\* effective_member_ids: what was not moved away, what was moved here, and nothing
\* that is deleted.
Members(base, e, deleted) ==
  LET stay == {p \in base.members :
                 p \in DOMAIN e.membership => e.membership[p] = base.id}
      came == {p \in DOMAIN e.membership : e.membership[p] = base.id}
  IN (stay \cup came) \ deleted

\* Mutant: a trip that only lost photos keeps the legs of those left, and drops a leg
\* that lost any.
RebuildWholeLegs(base, ids) ==
  IF ids = base.members THEN base
  ELSE [base EXCEPT !.members = ids, !.legs = {l \in @ : l.members \subseteq ids}]

\* rebuild: an untouched trip is the back end's; one that only lost photos keeps its
\* legs without them; any other becomes one leg.
Rebuild(base, ids) ==
  LET lean == {[l EXCEPT !.members = @ \cap ids] : l \in base.legs}
      whole == [place |-> base.place,
                slug |-> IF base.slug = NoName THEN "leg-1" ELSE base.slug,
                members |-> ids]
  IN CASE ids = base.members -> base
       [] ids # base.members /\ ids \subseteq base.members /\ Several(base.legs) ->
            [base EXCEPT !.members = ids, !.legs = {l \in lean : l.members # {}}]
       [] OTHER -> [base EXCEPT !.members = ids, !.legs = {whole}]

EffectiveTrips(clustering, e, deleted) ==
  {Rebuild(base, Members(base, e, deleted)) :
     base \in {b \in AllTrips(clustering, e) : Members(b, e, deleted) # {}}}

EffectiveFolder(trip, e) ==
  IF trip.id \in DOMAIN e.names THEN e.names[trip.id] ELSE trip.folder

\* folders: the trips by the folder name they share.
Folders(clustering, e, deleted) ==
  LET trips == EffectiveTrips(clustering, e, deleted)
  IN [name \in {EffectiveFolder(t, e) : t \in trips} |->
        {t \in trips : EffectiveFolder(t, e) = name}]

PhotosOf(trips) == UNION {t.members : t \in trips}

UnassignedPhotos(clustering, e, deleted, index) ==
  index \ (PhotosOf(EffectiveTrips(clustering, e, deleted)) \cup deleted)

\* slugify: a name without a letter or a digit leaves nothing.
Slugify(name) == IF name \in Slugged THEN name ELSE NoName

TripSlug(trip, e) ==
  IF trip.id \in DOMAIN e.names THEN Slugify(e.names[trip.id])
  ELSE IF trip.slug # NoName THEN trip.slug
  ELSE Slugify(EffectiveFolder(trip, e))

\* The sub-folder of a leg.
LegSlug(leg) == IF leg.slug = NoName THEN "leg" ELSE Slugify(leg.slug)

LegsApart(legs) == \A l, m \in legs : l # m => LegSlug(l) # LegSlug(m)

TripWith(trips, p) == CHOOSE t \in trips : p \in t.members

\* Where the photo of a trip is copied to: a photo in several legs would go to the last.
FolderOf(trip, p, e) ==
  LET with == {l \in trip.legs : p \in l.members}
  IN <<TripSlug(trip, e),
       IF Several(trip.legs) /\ with # {} THEN LegSlug(OneOf(with)) ELSE NoName>>

\* commit_folder_plan: the folder and the sub-folder of every photo that gets one.
FolderPlan(clustering, e, deleted) ==
  LET trips == {t \in EffectiveTrips(clustering, e, deleted) : TripSlug(t, e) # NoName}
  IN IF e.organize THEN [p \in PhotosOf(trips) |-> FolderOf(TripWith(trips, p), p, e)] ELSE <<>>

------------------------------------------------------------------------------
(* The edits.                                                                 *)

Moved(e, ids, trip) ==
  [e EXCEPT !.membership =
     [p \in DOMAIN @ \cup ids |-> IF p \in ids THEN trip ELSE @[p]]]

\* known_place_of: by the leg, else by the trip.
KnownPlace(clustering, p) ==
  LET homes == {t \in clustering : p \in t.members}
      legs == {l \in UNION {t.legs : t \in homes} :
                 p \in l.members /\ l.place # NoName}
      places == IF legs # {} THEN {l.place : l \in legs} ELSE {t.place : t \in homes}
  IN IF places = {} THEN NoName ELSE CHOOSE n \in places : TRUE

\* The place most of the photos were clustered under; any of those that tie.
PlacesFor(clustering, ids) ==
  LET known == {p \in ids : KnownPlace(clustering, p) # NoName}
      At(n) == Cardinality({p \in known : KnownPlace(clustering, p) = n})
      places == {KnownPlace(clustering, p) : p \in known}
  IN IF places = {} THEN {NoName}
     ELSE {n \in places : \A m \in places : At(n) >= At(m)}

NextUserTrip(e) == FirstUserTrip + Len(e.trips)

\* create_trip: named for the place, else for the date, else as new.
HandMade(e, ids, place) ==
  [id |-> NextUserTrip(e), members |-> {}, legs |-> {}, slug |-> NoName,
   place |-> place,
   folder |-> IF place # NoName THEN place
              ELSE IF ids \cap Dated # {} THEN "Trip" ELSE "New trip"]

Created(e, ids, place) ==
  Moved([e EXCEPT !.trips = Append(@, HandMade(e, ids, place))], ids, NextUserTrip(e))

Renamed(e, trip, name) ==
  [e EXCEPT !.names = [t \in DOMAIN @ \cup {trip} |-> IF t = trip THEN name ELSE @[t]]]

GeneratedFolder(clustering, e, id) ==
  LET named == {t \in AllTrips(clustering, e) : t.id = id}
  IN IF named = {} THEN NoName ELSE OneOf(named).folder

------------------------------------------------------------------------------
(* Saved edits: a text that is empty when nothing was edited, or a record in  *)
(* which each typed name stands beside the generated one it replaced.         *)

NoText == [text |-> FALSE]

Encode(clustering, e) ==
  IF e = NoEdits(TRUE) THEN NoText
  ELSE [text |-> TRUE, membership |-> e.membership, trips |-> e.trips,
        renames |-> {[id |-> t, from |-> GeneratedFolder(clustering, e, t),
                      name |-> e.names[t]] : t \in DOMAIN e.names},
        organize |-> e.organize]

KnownTrips(clustering, trips) == {t.id : t \in clustering \cup Range(trips)}

\* The moves of photos and to trips that there are.
MovesBack(moves, known, index) ==
  [p \in {q \in DOMAIN moves : q \in index /\ moves[q] \in known \cup {Unassigned}} |-> moves[p]]

NamesBack(renames) ==
  [t \in {r.id : r \in renames} |-> (CHOOSE r \in renames : r.id = t).name]

\* Mutant: the moves are laid back before the trips made by hand are known.
ApplyMovesFirst(saved, clustering, index) ==
  LET with == [membership |-> MovesBack(saved.membership, KnownTrips(clustering, <<>>), index),
               trips |-> saved.trips, names |-> <<>>, organize |-> saved.organize]
      fits == {r \in saved.renames : r.from = GeneratedFolder(clustering, with, r.id)}
  IN [with EXCEPT !.names = NamesBack(fits)]

\* apply_edits over edits that are empty: what no longer fits is dropped.
ApplyEdits(saved, clustering, index) ==
  LET known == KnownTrips(clustering, saved.trips)
      with == [membership |-> MovesBack(saved.membership, known, index),
               trips |-> saved.trips, names |-> <<>>, organize |-> saved.organize]
      fits == {r \in saved.renames :
                 r.id \in known /\ r.from = GeneratedFolder(clustering, with, r.id)}
  IN [with EXCEPT !.names = NamesBack(fits)]

------------------------------------------------------------------------------
(* What a layout promises, for any clustering of the index and any edits.     *)

\* Each photo that is not deleted is in exactly one trip or in none and then listed as
\* such; a trip of several legs has each of its photos in one of them, and photos of a
\* trip are copied into the same folder just when they share a leg of it (as far as its
\* legs have slugs of their own: LegSlugsUnique of Library).
Lays(clustering, e, deleted, index) ==
  LET trips == EffectiveTrips(clustering, e, deleted)
      spare == UnassignedPhotos(clustering, e, deleted, index)
      plan == FolderPlan(clustering, e, deleted)
      Times(p) == Cardinality({t \in trips : p \in t.members})
      Together(t, p, q) == Several(t.legs) => \E l \in t.legs : {p, q} \subseteq l.members
  IN /\ \A p \in index \ deleted : IF p \in spare THEN Times(p) = 0 ELSE Times(p) = 1
     /\ \A p \in deleted : Times(p) = 0 /\ p \notin spare
     /\ \A t \in trips : Several(t.legs) =>
          \A p \in t.members : Cardinality({l \in t.legs : p \in l.members}) = 1
     /\ \A t \in trips : e.organize /\ TripSlug(t, e) # NoName /\ LegsApart(t.legs) =>
          \A p, q \in t.members : plan[p] = plan[q] <=> Together(t, p, q)
===============================================================================
