------------------------------- MODULE MCWizard -------------------------------
(* Small instances of Wizard for TLC.                                         *)
EXTENDS Wizard, TLC

CONSTANTS p1, p2, p3

Leg(place, slug, members) == [place |-> place, slug |-> slug, members |-> members]
TripOf(id, legs, members, folder, slug, place) ==
  [id |-> id, members |-> members, legs |-> legs, folder |-> folder, slug |-> slug,
   place |-> place]

\* With a short gap: two trips, the first in two legs.
Apart ==
  {TripOf(0, {Leg("Rome", "rome", {p1}), Leg("Siena", "siena", {p2})}, {p1, p2},
          "Italy", "2024-italy", "Italy"),
   TripOf(1, {Leg("", "leg-1", {p3})}, {p3}, "Home", "2024-home", "")}

\* With a long one: the ids are given to other photos, and one photo is in no trip.
Joined ==
  {TripOf(0, {Leg("Rome", "rome", {p1}), Leg("", "leg-2", {p3})}, {p1, p3},
          "Tour", "2024-tour", "Rome")}

ByGap == [short |-> Apart, long |-> Joined]
Gaps == {"short", "long"}
==============================================================================
