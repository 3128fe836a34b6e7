-------------------------------- MODULE Library --------------------------------
(***************************************************************************)
(* The session's index from the scan to the trips:  repair passes rewrite  *)
(* the dates and positions that the trips pass then reads (spec/proto.md,  *)
(* RunRepairPass: after ScanFolder and before RunTripsPass).               *)
(***************************************************************************)
EXTENDS Repair

CONSTANTS TripRequests, DefaultTrip, MonthOf(_), CellSize, HomeCount, HomeSpan, Cities, CountryOf(_)

ASSUME TripAssumption ==
  /\ \A f \in DOMAIN DefaultTrip : DefaultTrip[f] \in Nat \ {0}
  /\ CellSize \in Nat \ {0} /\ HomeCount \in Nat \ {0}

VARIABLES params, trips, unassigned, ran

tripVars == <<params, trips, unassigned, ran>>
vars == <<repairVars, tripVars>>

\* What the trips pass reads of a row (get_image_records).
Trips == INSTANCE Trips WITH
  library <- [p \in DOMAIN rows |-> [at |-> rows[p].at, pos |-> rows[p].pos]],
  Default <- DefaultTrip

Init == RepairInit /\ Trips!Init

\* The passes run one at a time (OnePassAtATime of module PassStream), and the trips
\* are the end of a behaviour: a trips pass that runs again finds what it found.
RunTrips(request) ==
  /\ Idle /\ UNCHANGED repairVars
  /\ Trips!RunTripsPass(request)

\* Scans and repairs, before the trips.
Before == ~ran /\ UNCHANGED tripVars

\* Every dated photo is in one trip; the away trips cut the timeline where there is a
\* reason to and nowhere else; home's months hold what was taken near a home, and no
\* away trip reaches over it (module Trips says when that is; find_trips).
TripsBreakForAReason ==
  Trips!EveryPhotoOnce /\ Trips!TripsBreakForAReason /\ Trips!HomeIsNotAway

\* trips.h, proto.md: a leg's slug is unique in its trip.
LegSlugsUnique == Trips!LegSlugsUnique

\* What repair_metadata lends is what find_trips needs: a photo that borrowed its
\* position is at home if the donor is, and in the donor's trip otherwise, unless a
\* photo that was elsewhere comes between them, or a position is lent for longer
\* than a trip may pause.
BorrowersTravelTogether ==
  ran => LET order == Trips!Sorted
             Elsewhere(k, l, pos) == \E j \in (k + 1 .. l - 1) \cup (l + 1 .. k - 1) : rows[order[j]].pos # pos
         IN \A k, l \in DOMAIN order :
              LET p == order[k]
                  d == order[l]
                  i == Trips!TripOf(p)
                  j == Trips!TripOf(d)
              IN /\ rows[p].gpsSource = "inferred" /\ d \in OwnGps /\ files[d].gps = rows[p].pos
                 /\ Apart(p, d) <= Min({repaired.request.window, params.gap})
                 /\ ~Elsewhere(k, l, rows[p].pos)
                 => trips[i].home = trips[j].home /\ (~trips[i].home => i = j)
==============================================================================
