------------------------------- MODULE MCLibrary -------------------------------
(* Small instances of Library for TLC.                                        *)
EXTENDS Library, TLC

CONSTANTS noTime, noGps, noCamera, noName

Month(t) == t \div 4
Country(c) == IF c = "Nice" THEN "France" ELSE "Italy"
CityTable == (0 :> "Turin") @@ (2 :> "Rome") @@ (9 :> "Nice")
MCCameras == {"phone", "slr", noCamera}

\* A day, and 5 apart, is in one trip;  2 apart is another leg.
Usual == [gap |-> 1, distance |-> 5, home |-> 1, leg |-> 1]
Unset == [gap |-> 0, distance |-> 0, home |-> 0, leg |-> 0]
Wide == [gap |-> 3, distance |-> 9, home |-> 2, leg |-> 4]
MCTripRequests == {Unset, Wide}

File(camera, exif, gps, name, modified) ==
  [camera |-> camera, exif |-> exif, gps |-> gps, name |-> name, modified |-> modified]
Plain(time, gps) == File("phone", time, gps, noName, 0)
Phones == {Plain(t, x) : t \in {0, 1, 2, 5}, x \in {0, 9}} \cup {Plain(1, 2), Plain(2, 2)}
Reflex == {File("slr", t, noGps, noName, 0) : t \in {2, 4, 5}}
Named == {File(noCamera, noTime, noGps, [day |-> 0, time |-> t], 0) : t \in {1, noTime}}
Bare == {File(noCamera, noTime, noGps, noName, 1)}
Late == {f \in Phones \cup Reflex : f.exif >= 2 /\ f.gps # 2 /\ (f.camera = "slr" => f.exif = 5)}
MCFiles == Phones \cup Reflex \cup Named \cup Bare

Offset(n) == [c \in MCCameras |-> IF c = "slr" THEN n ELSE 0]
Leave == [offsets |-> Offset(0), window |-> 0]
Move == [offsets |-> Offset(-2), window |-> 2]
MCRepairRequests == {Leave, Move}

\* The photos are found in the order of their ids, and those of a camera in the
\* order of their times:  an id decides among photos of one time alone.
MCScan(p, file) ==
  /\ p = Cardinality(DOMAIN rows) + 1
  /\ \A q \in DOMAIN files : files[q].camera = file.camera /\ noTime \notin {files[q].exif, file.exif}
                              => files[q].exif <= file.exif
  /\ p = 4 => file \in Late
  /\ Scan(p, file)

\* Four photos are repaired once, fewer twice.
MCBeginRepair(request) == repairs + Cardinality(DOMAIN rows) <= 4 /\ BeginRepair(request)

\* Only a file without any other date is worth touching, and only between repairs.
MCTouch(p, time) ==
  /\ repairs > 0 /\ p \in DOMAIN rows /\ rows[p].exif = noTime /\ files[p].name = noName
  /\ Touch(p, time)

\* A file that is touched changes nothing before the next repair.
MCRunTrips(request) ==
  /\ repaired # None => \A p \in DOMAIN files : files[p].modified = repaired.inputs[p].modified
  /\ RunTrips(request)

Next ==
  \/ \E p \in Ids, file \in Files : Before /\ MCScan(p, file)
  \/ \E p \in Ids, time \in ModifiedTimes : Before /\ MCTouch(p, time)
  \/ \E request \in RepairRequests : Before /\ MCBeginRepair(request)
  \/ Before /\ WriteRepairs
  \/ Before /\ StopRepair
  \/ \E request \in TripRequests : MCRunTrips(request)

Spec == Init /\ [][Next]_vars
==============================================================================
