-------------------------------- MODULE Repair --------------------------------
(***************************************************************************)
(* The metadata repair pass:  it dates the photos whose file has no EXIF   *)
(* time, moves the times of cameras whose clock was off, lends positions   *)
(* to photos without one, and proposes clock corrections                   *)
(* (backend/src/pass/repair.cpp, backend/src/service/repair_pass.cpp).     *)
(*                                                                         *)
(* A time is a number of minutes, a position a place on a line.            *)
(***************************************************************************)
EXTENDS Integers, FiniteSets, FiniteSetsExt, SequencesExt

CONSTANTS
  Ids,
  Files,            (* what the scan may find in a photo's file               *)
  NoTime, NoGps, NoCamera, NoName,
  Cameras,
  ModifiedTimes,    (* what a file's modification time may become             *)
  RepairRequests,   (* [offsets : [Cameras -> Int], window : Int]             *)
  DefaultWindow,    (* gps_window_minutes of a request that names none        *)
  AmbiguousGap,     (* k_ambiguous_gps_km                                     *)
  DayLength, Noon,
  MaxShift,         (* k_max_shift_minutes                                    *)
  MatchWindow,      (* k_match_window_minutes                                 *)
  Snap,             (* a quarter of an hour                                   *)
  MinPhotos,        (* photos a camera needs for a suggestion                 *)
  MinHits,          (* ... and how many of them must match                    *)
  MaxRepairs        (* bound: passes that write                               *)

ASSUME SizesAssumption ==
  /\ {DefaultWindow, MinPhotos, MinHits, Snap, DayLength} \subseteq Nat \ {0}
  /\ {AmbiguousGap, Noon, MaxShift, MatchWindow, MaxRepairs} \subseteq Nat

Times == Int \cup {NoTime}
FileData == [camera : Cameras, exif : Times, gps : Int \cup {NoGps},
             name : [day : Int, time : Times] \cup {NoName}, modified : Times]

ASSUME FilesAssumption ==
  /\ NoTime \notin Int /\ NoGps \notin Int /\ NoCamera \in Cameras
  /\ Files \subseteq FileData /\ ModifiedTimes \subseteq Times
ASSUME RequestsAssumption ==
  \A request \in RepairRequests : request \in [offsets : [Cameras -> Int], window : Int]

VARIABLES
  files,      (* the photos' files, as far as they have been scanned          *)
  rows,       (* images: at, pos, date_source, gps_source, taken_exif_ms      *)
  pass,       (* the pass that runs: what it asks for and what it has read    *)
  repaired,   (* ghost: the last pass that wrote, with what it had read       *)
  repairs     (* how many passes have written                                 *)

repairVars == <<files, rows, pass, repaired, repairs>>

None == [request |-> [window |-> 0], inputs |-> <<>>, offers |-> {}]

------------------------------------------------------------------------------
(* Dates                                                                      *)

\* parse_filename_date: a name with a date alone stands for noon.
NameTime(name) == name.day * DayLength + (IF name.time = NoTime THEN Noon ELSE name.time)

Shifted(i, offsets) == i.camera # NoCamera /\ offsets[i.camera] # 0

\* The first part of repair_metadata.
Date(i, offsets) ==
  CASE i.exif # NoTime /\ Shifted(i, offsets) ->
         [at |-> i.exif + offsets[i.camera], source |-> "exif+offset", trusted |-> TRUE]
    [] i.exif # NoTime /\ ~Shifted(i, offsets) ->
         [at |-> i.exif, source |-> "exif", trusted |-> TRUE]
    [] i.exif = NoTime /\ i.name # NoName ->
         [at |-> NameTime(i.name), source |-> "filename", trusted |-> i.name.time # NoTime]
    [] i.exif = NoTime /\ i.name = NoName /\ i.modified # NoTime ->
         [at |-> i.modified, source |-> "modified", trusted |-> FALSE]
    [] OTHER -> [at |-> NoTime, source |-> "none", trusted |-> FALSE]

------------------------------------------------------------------------------
(* Positions                                                                  *)

Abs(n) == IF n < 0 THEN -n ELSE n
Ambiguous(x, y) == Abs(x - y) > AmbiguousGap

Donors(inputs, dates) == {d \in DOMAIN inputs : inputs[d].gps # NoGps /\ dates[d].trusted}

\* The donors are sorted by their time alone: of several at one time any may come
\* first or last, though the same one for every photo of a pass.
Latest(donors, dates) == {d \in donors : \A e \in donors : dates[e].at <= dates[d].at}
Earliest(donors, dates) == {d \in donors : \A e \in donors : dates[d].at <= dates[e].at}
FirstOf(ties) == CHOOSE d \in ties : TRUE
LastOf(ties) == CHOOSE d \in ties : ties = {d} \/ d # FirstOf(ties)

Gap(d, t, dates) == Abs(dates[d].at - t)

\* lower_bound finds the first donor that is not earlier than t, the one before it is the
\* other side;  on either there may be none, or none within the window.
Following(donors, t, dates, window) ==
  LET later == {d \in donors : dates[d].at >= t}
      next == {FirstOf(S) : S \in {Earliest(later, dates)} \ {{}}}
  IN {d \in next : Gap(d, t, dates) <= window}
Preceding(donors, t, dates, window) ==
  LET earlier == {d \in donors : dates[d].at < t}
      prev == {LastOf(S) : S \in {Latest(earlier, dates)} \ {{}}}
  IN {d \in prev : Gap(d, t, dates) <= window}

\* Mutant: one neighbour within the window is enough, whatever the other side says.
LenderIgnoresOtherSide(donors, t, dates, inputs, window) ==
  LET prev == Preceding(donors, t, dates, window)
      next == Following(donors, t, dates, window)
  IN {d \in prev : \A e \in next : Gap(d, t, dates) <= Gap(e, t, dates)}
       \cup {e \in next : \A d \in prev : Gap(e, t, dates) < Gap(d, t, dates)}

\* The donor whose position a photo taken at t borrows, if there is one.
Lender(donors, t, dates, inputs, window) ==
  LET prev == Preceding(donors, t, dates, window)
      next == Following(donors, t, dates, window)
      disputed == \E d \in prev, e \in next : Ambiguous(inputs[d].gps, inputs[e].gps)
  IN IF disputed THEN {}
     ELSE {d \in prev : \A e \in next : Gap(d, t, dates) <= Gap(e, t, dates)}
            \cup {e \in next : \A d \in prev : Gap(e, t, dates) < Gap(d, t, dates)}

\* repair_metadata
RepairMetadata(inputs, request) ==
  LET dates == [p \in DOMAIN inputs |-> Date(inputs[p], request.offsets)]
      donors == Donors(inputs, dates)
      Lent(date) == IF date.trusted THEN Lender(donors, date.at, dates, inputs, request.window) ELSE {}
      Repaired(date, own, lent) ==
        [at |-> date.at, dateSource |-> date.source,
         pos |-> IF own # NoGps \/ lent = {} THEN own ELSE inputs[CHOOSE d \in lent : TRUE].gps,
         gpsSource |-> IF own # NoGps THEN "exif" ELSE IF lent = {} THEN "none" ELSE "inferred"]
  IN [p \in DOMAIN inputs |-> Repaired(dates[p], inputs[p].gps, Lent(dates[p]))]

------------------------------------------------------------------------------
(* Clock offsets                                                              *)

Timed(inputs, c) == {p \in DOMAIN inputs : inputs[p].camera = c /\ inputs[p].exif # NoTime}
MostlyLocated(inputs, c) ==
  2 * Cardinality({p \in Timed(inputs, c) : inputs[p].gps # NoGps}) >= Cardinality(Timed(inputs, c))

Reference(inputs) ==
  UNION {{inputs[p].exif : p \in Timed(inputs, c)} :
           c \in {k \in Cameras \ {NoCamera} : MostlyLocated(inputs, k)}}

\* near_reference, and how many of a camera's photos are near after a shift.
Hits(inputs, c, shift) ==
  Cardinality({p \in Timed(inputs, c) : \E t \in Reference(inputs) :
                 Abs(inputs[p].exif + shift - t) <= MatchWindow})

Truncated(n, d) == IF n < 0 THEN -(-n \div d) ELSE n \div d
Rounded(n, d) == IF n < 0 THEN -((-2 * n + d) \div (2 * d)) ELSE (2 * n + d) \div (2 * d)

Shifts == -MaxShift .. MaxShift

\* The middle of the first plateau of the best score, snapped to a quarter hour that
\* scores nearly as well.
BestShift(hits) ==
  LET most == Max({hits[s] : s \in Shifts \ {0}})
      first == Min({s \in Shifts \ {0} : hits[s] = most})
      last == Min({s \in Shifts : s >= first /\ (s = MaxShift \/ hits[s + 1] # most)})
      middle == Truncated(first + last, 2)
      snapped == Rounded(middle, Snap) * Snap
  IN IF middle # 0 /\ snapped # 0 /\ snapped \in Shifts /\ 10 * hits[snapped] >= 9 * most
     THEN snapped ELSE middle

Median(hits) ==
  CHOOSE m \in {hits[s] : s \in Shifts} :
    /\ Cardinality({s \in Shifts : hits[s] < m}) <= MaxShift
    /\ Cardinality({s \in Shifts : hits[s] <= m}) > MaxShift

\* detect_clock_offsets for one camera: no suggestion, or one.
Suggestion(inputs, c) ==
  LET count == Cardinality(Timed(inputs, c))
      hits == [s \in Shifts |-> Hits(inputs, c, s)]
      best == BestShift(hits)
      clearWinner ==
        /\ best # 0 /\ hits[best] >= MinHits /\ 5 * hits[best] >= 2 * count
        /\ hits[best] >= hits[0] + Max({MinHits, count \div 4})
        /\ 2 * hits[best] >= 3 * Median(hits)
  IN IF count >= MinPhotos /\ clearWinner
     THEN {[camera |-> c, offset |-> best, photos |-> count,
            matched |-> hits[best], unshifted |-> hits[0]]} ELSE {}

Suggestions(inputs) ==
  IF Reference(inputs) = {} THEN {}
  ELSE UNION {Suggestion(inputs, c) : c \in {k \in Cameras \ {NoCamera} : ~MostlyLocated(inputs, k)}}

------------------------------------------------------------------------------
\* insert_images: what a scan stores of a file.
Row(file) ==
  [at |-> file.exif, dateSource |-> IF file.exif = NoTime THEN "none" ELSE "exif",
   pos |-> file.gps, gpsSource |-> IF file.gps = NoGps THEN "none" ELSE "exif",
   exif |-> file.exif, camera |-> file.camera]

\* Mutant: a borrowed position is taken for the file's own.
InputOwnsAll(row, file) ==
  [exif |-> row.exif, camera |-> row.camera, name |-> file.name, modified |-> file.modified,
   gps |-> row.pos]

\* A repaired position is not the file's own.
Input(row, file) ==
  [exif |-> row.exif, camera |-> row.camera, name |-> file.name, modified |-> file.modified,
   gps |-> IF row.gpsSource = "inferred" THEN NoGps ELSE row.pos]

RepairInit ==
  /\ files = [p \in {} |-> NoTime] /\ rows = [p \in {} |-> NoTime]
  /\ pass = None /\ repaired = None /\ repairs = 0

Idle == pass = None

\* scan_folder finds another photo.
Scan(p, file) ==
  /\ Idle /\ repairs = 0 /\ p \notin DOMAIN rows
  /\ files' = [q \in DOMAIN rows \cup {p} |-> IF q = p THEN file ELSE files[q]]
  /\ rows' = [q \in DOMAIN rows \cup {p} |-> IF q = p THEN Row(file) ELSE rows[q]]
  /\ UNCHANGED <<pass, repaired, repairs>>

\* Something else writes to a file, or moves it away.
Touch(p, time) ==
  /\ p \in DOMAIN files /\ files[p].modified # time
  /\ files' = [files EXCEPT ![p].modified = time]
  /\ UNCHANGED <<rows, pass, repaired, repairs>>

\* run_repair_pass: the rows are read before the producer starts.
BeginRepair(request) ==
  /\ Idle /\ repairs < MaxRepairs
  /\ pass' = [request |-> [request EXCEPT !.window = IF @ > 0 THEN @ ELSE DefaultWindow],
              inputs |-> [p \in DOMAIN rows |-> Input(rows[p], files[p])], offers |-> {}]
  /\ UNCHANGED <<files, rows, repaired, repairs>>

Updated(row, now) ==
  [at |-> now.at, dateSource |-> now.dateSource, pos |-> now.pos, gpsSource |-> now.gpsSource,
   exif |-> row.exif, camera |-> row.camera]

Offered(p) ==
  {[suggestion |-> s, applied |-> p.request.offsets[s.camera] = s.offset] : s \in Suggestions(p.inputs)}

\* update_image_metadata: one transaction for all rows, then the suggestions.
WriteRepairs ==
  /\ ~Idle /\ pass' = None /\ repairs' = repairs + 1
  /\ LET now == RepairMetadata(pass.inputs, pass.request) IN
     rows' = [p \in DOMAIN rows |-> Updated(rows[p], now[p])]
  /\ repaired' = [pass EXCEPT !.offers = Offered(pass)]
  /\ UNCHANGED files

\* The client cancels, or the database refuses: nothing is written.
StopRepair ==
  /\ ~Idle /\ pass' = None
  /\ UNCHANGED <<files, rows, repaired, repairs>>

RepairNext ==
  \/ \E p \in Ids, file \in Files : Scan(p, file)
  \/ \E p \in Ids, time \in ModifiedTimes : Touch(p, time)
  \/ \E request \in RepairRequests : BeginRepair(request)
  \/ WriteRepairs
  \/ StopRepair

RepairSpec == RepairInit /\ [][RepairNext]_repairVars

------------------------------------------------------------------------------
Done == Idle /\ repaired # None

\* What the files say, with the modification times that the last repair has read.
AsScanned == [p \in DOMAIN rows |-> [Input(Row(files[p]), files[p])
                                       EXCEPT !.modified = repaired.inputs[p].modified]]

\* proto.md: every run starts from the values of the scan.  Whatever repairs came
\* before, and however they ended, the rows and the suggestions are those of the
\* last repair over a library that was never repaired: offsets do not add up, one
\* that is taken back leaves no trace, and a borrowed position is never lent on.
RepairForgetsRepairs ==
  Done => /\ repaired.inputs = AsScanned
          /\ LET now == RepairMetadata(AsScanned, repaired.request) IN
             \A p \in DOMAIN rows : rows[p] = Updated(Row(files[p]), now[p])
          /\ repaired.offers = Offered([repaired EXCEPT !.inputs = AsScanned])

\* The photos whose position is their own and whose time is precise.
Trusted(p) == rows[p].dateSource \in {"exif", "exif+offset"} \/
              (rows[p].dateSource = "filename" /\ files[p].name.time # NoTime)
OwnGps == {d \in DOMAIN rows : files[d].gps # NoGps /\ Trusted(d)}
Apart(p, d) == Abs(rows[p].at - rows[d].at)

\* proto.md: a photo without a position borrows that of a nearest donor within the
\* window, unless the donors next to it on its two sides are too far from each other,
\* and one with donors that agree never goes without.
BorrowsFromNearest ==
  Done => \A p \in DOMAIN rows :
    LET near == {d \in OwnGps : Apart(p, d) <= repaired.request.window}
        Nearest(S) == {d \in S : \A e \in S : Apart(p, d) <= Apart(p, e)}
        before == Nearest({d \in near : rows[d].at < rows[p].at})
        after == Nearest({d \in near : rows[d].at >= rows[p].at})
        Disputed(d, e) == Ambiguous(files[d].gps, files[e].gps)
    IN files[p].gps = NoGps =>
         IF rows[p].gpsSource = "inferred"
         THEN /\ Trusted(p)
              /\ before = {} \/ after = {} \/ \E d \in before, e \in after : ~Disputed(d, e)
              /\ \E d \in Nearest(near) : rows[p].pos = files[d].gps
         ELSE ~Trusted(p) \/ near = {} \/ \E d \in before, e \in after : Disputed(d, e)

==============================================================================
