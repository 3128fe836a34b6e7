--------------------------------- MODULE Trips ---------------------------------
(***************************************************************************)
(* The trips pass:  it sorts the photos by time, finds the homes, groups   *)
(* the photos away from home into trips and the others into months, and    *)
(* splits each trip into legs (backend/src/pass/trips.cpp, with the        *)
(* request's parameters from backend/src/service/trips_pass.cpp).          *)
(*                                                                         *)
(* The globe is a line and the calendar a number of days.  A centroid is a *)
(* sum and a count, so that its distances compare exactly.                 *)
(***************************************************************************)
EXTENDS Integers, Sequences, FiniteSetsExt, SequencesExt

CONSTANTS
  NoTime, NoGps,
  Default,      (* what a parameter that is not positive means                *)
  MonthOf(_),   (* the calendar month of a time                               *)
  CellSize,     (* the cells that photos are counted in, for a home           *)
  HomeCount,    (* a home's cell holds at least so many                       *)
  HomeSpan,     (* ... over at least so long                                  *)
  Cities,       (* place_index: the cities' names, by their place             *)
  CountryOf(_)

VARIABLES
  library,      (* the session's photos                                       *)
  params,       (* the parameters of the last pass                            *)
  trips,        (* its result                                                 *)
  unassigned,   (* how many photos have no time                               *)
  ran           (* whether there is one                                       *)

vars == <<library, params, trips, unassigned, ran>>

Dated == {p \in DOMAIN library : library[p].at # NoTime}
At(p) == library[p].at
HasGps(p) == library[p].pos # NoGps

\* std::ranges::sort of the members of a set.
InOrder(S, Before(_, _)) == SortSeq(FoldSet(LAMBDA x, seq : Append(seq, x), <<>>, S), Before)

\* find_trips sorts by time, and by id among equals.
Sorted == InOrder(Dated, LAMBDA p, q : At(p) < At(q) \/ (At(p) = At(q) /\ p < q))

------------------------------------------------------------------------------
(* Centroids                                                                  *)

Nowhere == [sum |-> 0, count |-> 0]
Adding(c, p) == IF HasGps(p) THEN [sum |-> c.sum + library[p].pos, count |-> c.count + 1] ELSE c
Centroid(photos) == FoldLeft(Adding, Nowhere, photos)

Distance(c, x) == LET d == c.sum - x * c.count IN IF d < 0 THEN -d ELSE d
Beyond(c, p, radius) == Distance(c, library[p].pos) > radius * c.count

\* Photos without a position, and groups that have none yet, are never far apart.
Strays(c, p, radius) == HasGps(p) /\ c.count > 0 /\ Beyond(c, p, radius)

------------------------------------------------------------------------------
(* Home and away                                                              *)

Cell(p) == library[p].pos \div CellSize
Span(photos) == IF photos = <<>> THEN 0 ELSE At(Last(photos)) - At(Head(photos))

\* detect_homes
Homes ==
  LET located == SelectSeq(Sorted, HasGps)
      In(k) == SelectSeq(located, LAMBDA p : Cell(p) = k)
      IsHome(photos) ==
        /\ Len(photos) >= HomeCount /\ 20 * Len(photos) >= Len(located)
        /\ Span(photos) >= HomeSpan /\ 2 * Span(photos) >= Max({1, Span(located)})
  IN {Centroid(In(k)) : k \in {j \in {Cell(p) : p \in Range(located)} : IsHome(In(j))}}

\* is_away: a photo without a position is where the one before it was.
AwayFlags(photos, given) ==
  LET homes == Homes
      away[i \in 0 .. Len(photos)] ==
        IF i = 0 THEN TRUE
        ELSE IF HasGps(photos[i]) THEN \A h \in homes : Beyond(h, photos[i], given.home)
             ELSE away[i - 1]
  IN away

------------------------------------------------------------------------------
(* Trips and legs                                                             *)

\* Mutant: the trip that is closed leaves its centroid to the next.
StartAfterwards(open, p) == [ids |-> <<p>>, mean |-> Adding(open.mean, p)]

\* flush_away resets the trip under construction.
StartTrip(open, p) == [ids |-> <<p>>, mean |-> Adding(Nowhere, p)]

\* Mutant: the gap is counted from the start of the trip.
StaysFromStart(open, p, given) ==
  /\ At(p) - At(Head(open.ids)) <= given.gap
  /\ ~Strays(open.mean, p, given.distance)

\* within_time, within_drift
Stays(open, p, given) ==
  /\ At(p) - At(Last(open.ids)) <= given.gap
  /\ ~Strays(open.mean, p, given.distance)

NoTrip == [ids |-> <<>>, mean |-> Nowhere]

\* The loop of find_trips over one photo, `away` or at home.
Visit(acc, p, away, given) ==
  LET open == acc.open
      Closed == IF open.ids = <<>> THEN acc.closed ELSE Append(acc.closed, open.ids)
  IN CASE ~away -> [closed |-> Closed, open |-> NoTrip]
       [] away /\ open.ids # <<>> /\ Stays(open, p, given) ->
            [acc EXCEPT !.open = [ids |-> Append(open.ids, p), mean |-> Adding(open.mean, p)]]
       [] OTHER -> [closed |-> Closed, open |-> StartTrip(open, p)]

AwayTrips(photos, given) ==
  LET away == AwayFlags(photos, given)
      last == FoldLeft(LAMBDA acc, i : Visit(acc, photos[i], away[i], given),
                       [closed |-> <<>>, open |-> NoTrip], [i \in 1 .. Len(photos) |-> i])
  IN Range(last.closed) \cup ({last.open.ids} \ {<<>>})

HomeMonths(photos, given) ==
  LET away == AwayFlags(photos, given)
      atHome == {i \in 1 .. Len(photos) : ~away[i]}
      In(m) == InOrder({i \in atHome : MonthOf(At(photos[i])) = m}, <)
  IN {[i \in 1 .. Len(In(m)) |-> photos[In(m)[i]]] : m \in {MonthOf(At(photos[i])) : i \in atHome}}

\* A home trip's start is 0 as long as no photo has set it.
HomeStart(ids) ==
  LET later == {At(p) : p \in Range(ids)} \ {0}
  IN IF At(Head(ids)) = 0 /\ later # {} THEN Min(later) ELSE At(Head(ids))

\* build_legs
Legs(ids, given) ==
  FoldLeft(LAMBDA legs, p :
             IF legs = <<>> \/ Strays(Last(legs).mean, p, given.leg)
             THEN Append(legs, [ids |-> <<p>>, mean |-> Adding(Nowhere, p)])
             ELSE Append(Front(legs), [ids |-> Append(Last(legs).ids, p),
                                       mean |-> Adding(Last(legs).mean, p)]),
           <<>>, ids)

\* place_index::nearest, for a leg that has a position.
City(leg) ==
  LET nearest == {x \in DOMAIN Cities : \A y \in DOMAIN Cities :
                    Distance(leg.mean, x) <= Distance(leg.mean, y)}
  IN IF leg.mean.count = 0 \/ nearest = {} THEN {} ELSE {Cities[Min(nearest)]}

Slug(legs, i) == IF City(legs[i]) = {} THEN <<"leg", i>> ELSE <<"city", City(legs[i])>>

\* name_away_trip: what a folder's name and slug are made of, with the month.
Named(legs) ==
  LET places == SelectSeq([i \in 1 .. Len(legs) |-> City(legs[i])], LAMBDA c : c # {})
      cities == UNION Range(places)
      countries == {CountryOf(c) : c \in cities}
  IN CASE cities = {} -> <<>>
       [] Cardinality(cities) = 1 -> <<"city", Head(places)>>
       [] OTHER -> <<"countries", countries>>

AwayTrip(ids, given) ==
  LET legs == Legs(ids, given) IN
  [ids |-> ids, start |-> At(Head(ids)), end |-> At(Last(ids)), mean |-> Centroid(ids),
   home |-> FALSE, legs |-> [i \in 1 .. Len(legs) |-> [ids |-> legs[i].ids, slug |-> Slug(legs, i)]],
   folder |-> <<Named(legs), MonthOf(At(Head(ids)))>>]

HomeTrip(ids) ==
  [ids |-> ids, start |-> HomeStart(ids), end |-> At(Last(ids)), mean |-> Centroid(ids),
   home |-> TRUE, legs |-> <<>>, folder |-> <<"home", MonthOf(HomeStart(ids))>>]

\* The trips by their start, and by their ids among equals;  a trip's id is its place.
FindTrips(given) ==
  LET photos == Sorted
  IN InOrder({AwayTrip(ids, given) : ids \in AwayTrips(photos, given)}
                    \cup {HomeTrip(ids) : ids \in HomeMonths(photos, given)},
       LAMBDA t, u : t.start < u.start \/ (t.start = u.start /\ Head(t.ids) < Head(u.ids)))

------------------------------------------------------------------------------
Init ==
  /\ library = [p \in {} |-> [at |-> NoTime, pos |-> NoGps]]
  /\ params = Default /\ trips = <<>> /\ unassigned = 0 /\ ran = FALSE

\* run_trips_pass.  A pass that runs again computes all from the library again, so
\* one run per library and request shows what every run does.
RunTripsPass(request) ==
  /\ ~ran /\ ran' = TRUE
  /\ params' = [f \in DOMAIN Default |-> IF request[f] > 0 THEN request[f] ELSE Default[f]]
  /\ trips' = FindTrips(params')
  /\ unassigned' = Cardinality(DOMAIN library \ Dated)
  /\ UNCHANGED library

------------------------------------------------------------------------------
Away == {i \in DOMAIN trips : ~trips[i].home}
Home == DOMAIN trips \ Away
TripOf(p) == CHOOSE i \in DOMAIN trips : p \in Range(trips[i].ids)

\* proto.md: every dated photo is in exactly one trip, the others are counted, and
\* each away trip's photos are, leg by leg, the trip's photos in their order.
EveryPhotoOnce ==
  ran => /\ \A p \in DOMAIN library :
              Cardinality({<<i, k>> \in (DOMAIN trips) \X (1 .. Cardinality(DOMAIN library)) :
                             k <= Len(trips[i].ids) /\ trips[i].ids[k] = p})
              = IF p \in Dated THEN 1 ELSE 0
         /\ unassigned + Cardinality(Dated) = Cardinality(DOMAIN library)
         /\ \A i \in Away : FlattenSeq([k \in DOMAIN trips[i].legs |-> trips[i].legs[k].ids]) = trips[i].ids

\* The away trips cut the timeline where there is a reason to, and only there: two
\* photos that follow each other are in one trip unless one is at home, the gap
\* between them is too long, or the later one is too far from where the trip had
\* been on average until then (trips.h, find_trips).
TripsBreakForAReason ==
  LET photos == Sorted IN
  ran => \A k \in 1 .. Len(photos) - 1 :
    LET p == photos[k]
        q == photos[k + 1]
        i == TripOf(p)
        soFar == SelectSeq(trips[i].ids, LAMBDA r : r \in {photos[j] : j \in 1 .. k})
    IN i \in Away /\ TripOf(q) \in Away =>
         (TripOf(q) = i <=> /\ At(q) - At(p) <= params.gap
                            /\ ~Strays(Centroid(soFar), q, params.distance))

\* A photo near a home is in a home's month and one far from every home is not; one
\* that does not say where it was goes with the photo before it.  No away trip
\* reaches over a photo at home (find_trips: flush_away before the home photo).
HomeIsNotAway ==
  LET photos == Sorted IN
  ran => /\ \A p \in Dated : HasGps(p) =>
              (TripOf(p) \in Home <=> \E h \in Homes : ~Beyond(h, p, params.home))
         /\ \A k \in 1 .. Len(photos) : ~HasGps(photos[k]) =>
              (TripOf(photos[k]) \in Home <=> k > 1 /\ TripOf(photos[k - 1]) \in Home)
         /\ \A i \in Away : \A k \in 2 .. Len(photos) - 1 :
              TripOf(photos[k - 1]) = i /\ TripOf(photos[k + 1]) = i => TripOf(photos[k]) = i

\* trips.h, proto.md: a leg's slug is unique in its trip.
LegSlugsUnique ==
  ran => \A i \in Away : \A k, l \in DOMAIN trips[i].legs :
    trips[i].legs[k].slug = trips[i].legs[l].slug => k = l
==============================================================================
