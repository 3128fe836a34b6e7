-------------------------------- MODULE Analysis --------------------------------
(***************************************************************************)
(* What the analysis passes leave in the session and what a resume reads   *)
(* of it:  the quality, similar, junk and video passes, one at a time over *)
(* all items or those of a batch, stopped, failing and run again, the      *)
(* preview of thresholds, and GetSessionResults (backend/src/service:      *)
(* quality_pass, similar_pass, junk_pass, video_pass, session_resume).     *)
(*                                                                         *)
(* How a pass is called, streamed and cancelled is module PassStream's; a  *)
(* run here is what its producer does.                                     *)
(***************************************************************************)
EXTENDS Measures

CONSTANTS
  Libraries,     (* sequences of items: what the scan may have found           *)
  Requests,      (* [kind, scope, key, skip, thresholds]                       *)
  FaceModel,     (* whether the face detector's file is there                  *)
  Checkpoint,    (* k_checkpoint_batch                                         *)
  MaxRuns,       (* bound: passes                                              *)
  MaxLosses      (* bound: crashes and failures of the database                *)

ASSUME AnalysisAssumption ==
  FaceModel \in BOOLEAN /\ Checkpoint \in Nat \ {0} /\ MaxRuns \in Nat /\ MaxLosses \in Nat
ASSUME LibrariesAssumption ==
  \A l \in Libraries : /\ Len(l) \in Nat /\ DOMAIN l = 1 .. Len(l)
                       /\ \A p \in DOMAIN l : l[p].kind = "photo" => l[p].features \in Features
ASSUME KindsAssumption == \A request \in Requests : request.kind \in {"quality", "similar", "junk", "video"}

VARIABLES
  library,       (* the index, in the order in which it is read                *)
  vision,        (* the vision model's files are there                         *)
  quality,       (* quality_flags: [item -> row or none]                       *)
  groups,        (* similar_groups: id, members with their scores, keeper       *)
  junk, videos,  (* junk_flags and video_flags: [item -> reason, none or row-less] *)
  stamps,        (* pass_<step>_complete and batch_pass:<step>:<key>           *)
  run,           (* the pass that runs                                         *)
  last,          (* ghost: of each kind the last run, if it ended well         *)
  times, losses, (* ghost: how often the classifier looked at an item, and how often that was lost *)
  runs, failures (* ghost: the bounds' counters                                *)

session == <<quality, groups, junk, videos, stamps>>
ghosts == <<last, times, losses>>
analysisVars == <<library, vision, session, run, ghosts, runs, failures>>

Items == DOMAIN library
Kinds == {"quality", "similar", "junk", "video"}
NoRow == "no row"
NoRun == [kind |-> "idle"]
Resting == run = NoRun

AnalysisInit ==
  /\ library \in Libraries /\ vision \in BOOLEAN
  /\ quality = [p \in Items |-> <<>>] /\ groups = {}
  /\ junk = [p \in Items |-> NoRow] /\ videos = [p \in Items |-> NoRow]
  /\ stamps = {} /\ run = NoRun
  /\ last = [k \in Kinds |-> NoRun]
  /\ times = [p \in Items |-> 0] /\ losses = [p \in Items |-> 0]
  /\ runs = 0 /\ failures = 0

------------------------------------------------------------------------------
\* The paths of a run: an empty scope is the whole session.  The similar pass takes
\* videos along, which it cannot read.
Covers(request) ==
  LET wanted == CASE request.kind = "similar" -> {"photo", "video"}
                  [] request.kind = "video" -> {"video"}
                  [] OTHER -> {"photo"}
  IN {p \in Items : library[p].kind \in wanted /\ (request.scope = {} \/ p \in request.scope)}

\* classified_ids, classified_video_ids and what the user has marked.
AlreadyDone(request) ==
  request.skip \cup CASE request.kind = "junk" -> {p \in Items : junk[p] # NoRow}
                      [] request.kind = "video" -> {p \in Items : videos[p] # NoRow}
                      [] OTHER -> {}

\* get_quality_scores
Scores == [p \in Items |-> IF quality[p] = <<>> THEN <<>> ELSE <<quality[p][1].lap>>]

\* SELECT COALESCE(MAX(group_id) + 1, 0)
GroupBase == Max({0} \cup {g.id + 1 : g \in groups})

\* The part of a run_*_pass before its producer starts.  The junk pass cannot do without
\* the model.
BeginAnalysis(request) ==
  /\ Resting /\ runs < MaxRuns /\ runs' = runs + 1
  /\ request.kind = "junk" => vision
  /\ run' = [kind |-> request.kind, request |-> request, paths |-> Covers(request),
             done |-> AlreadyDone(request), scores |-> Scores, base |-> GroupBase, vision |-> vision,
             seen |-> {}, pending |-> {}, events |-> <<>>, stopped |-> FALSE]
  /\ last' = [last EXCEPT ![request.kind] = NoRun]
  /\ UNCHANGED <<library, vision, session, times, losses, failures>>

\* The client cancels: stream_pass returns and asks the producer to stop.
Stop ==
  /\ ~Resting /\ ~run.stopped
  /\ run' = [run EXCEPT !.stopped = TRUE]
  /\ UNCHANGED <<library, vision, session, ghosts, runs, failures>>

Unseen == run.paths \ run.seen
AllSeen == Unseen = {}

\* A run that ends: the session's rows are written, and the run is stamped if its stream
\* ended well (record_run_complete).
Ends(whole) ==
  /\ run' = NoRun
  /\ IF whole
     THEN /\ stamps' = stamps \cup {<<run.kind, run.request.key>>}
          /\ last' = [last EXCEPT ![run.kind] = run]
     ELSE UNCHANGED <<stamps, last>>
  /\ UNCHANGED <<library, vision, times, runs>>

------------------------------------------------------------------------------
(* Quality: the measures are taken by a pool of threads, then written at once.*)

Flag(p, t) ==
  LET m == Metrics(library[p])
  IN [item |-> p, reasons |-> QualityReasons(m, t), sharpness |-> m.peak, exposure |-> ExposureScore(m.under, m.over)]

\* analyze_images: a thread that finds the stop leaves its photo unmeasured.
Measure(p) ==
  /\ run.kind = "quality" /\ p \in Unseen /\ ~run.stopped
  /\ LET flag == Flag(p, run.request.thresholds)
         flagged == library[p].readable /\ flag.reasons # {}
     IN run' = [run EXCEPT !.seen = @ \cup {p}, !.events = IF flagged THEN Append(@, flag) ELSE @]
  /\ UNCHANGED <<library, vision, session, ghosts, runs, failures>>

\* Mutant: the sharpness of the frame is stored for that of its peak.
RowOfTheFrame(p, t) ==
  LET m == Metrics(library[p])
  IN [lap |-> m.lap, under |-> m.under, over |-> m.over, peak |-> m.lap,
      mask |-> ReasonsBitmask(QualityReasons(m, t))]

QualityRow(p, t) ==
  LET m == Metrics(library[p])
  IN [lap |-> m.lap, under |-> m.under, over |-> m.over, peak |-> m.peak,
      mask |-> ReasonsBitmask(QualityReasons(m, t))]

\* Only photos that were measured get a row, those that cannot be read keep theirs.
WriteQuality ==
  /\ run.kind = "quality" /\ (AllSeen \/ run.stopped)
  /\ quality' = [p \in Items |-> IF p \in run.seen /\ library[p].readable
                                 THEN <<QualityRow(p, run.request.thresholds)>> ELSE quality[p]]
  /\ Ends(~run.stopped)
  /\ UNCHANGED <<groups, junk, videos, losses, failures>>

------------------------------------------------------------------------------
(* Similar photos: the producer never looks at the stop.                      *)

Scored(p) == [item |-> p, score |-> BlendedScore(library[p], run.scores[p], FaceModel)]

\* The members come best first, those that score the same by their paths: an order that
\* their scores give.
Better(m, n) == m.score > n.score \/ (m.score = n.score /\ m.item < n.item)
Keeper(members) == (CHOOSE m \in members : \A n \in members \ {m} : Better(m, n)).item

\* A cluster without what was marked; it is a group if two or more remain.
Kept(cluster) == ToSet(cluster) \ run.request.skip
Survivors(clusters) == {i \in DOMAIN clusters : Cardinality(Kept(clusters[i])) >= 2}

\* The events and the rows, numbered on from the highest group that there was.
NewGroups ==
  LET clusters == FindSimilarImages(run.paths, library)
      Before(i) == {j \in Survivors(clusters) : j < i}
      Members(i) == {Scored(p) : p \in Kept(clusters[i])}
  IN {[id |-> run.base + Cardinality(Before(i)), members |-> Members(i), keeper |-> Keeper(Members(i))] :
        i \in Survivors(clusters)}

\* Mutant: a run on a batch leaves the groups that reach out of it.
StaleInside(g) == run.request.scope = {} \/ \A m \in g.members : m.item \in run.request.scope

\* The groups that a run replaces: all, or those that touch its scope.
Stale(g) == run.request.scope = {} \/ \E m \in g.members : m.item \in run.request.scope

WriteGroups ==
  /\ run.kind = "similar"
  /\ groups' = {g \in groups : ~Stale(g)} \cup NewGroups
  /\ LET whole == [run EXCEPT !.events = NewGroups] IN
     /\ run' = NoRun
     /\ IF run.stopped THEN UNCHANGED <<stamps, last>>
        ELSE /\ stamps' = stamps \cup {<<run.kind, run.request.key>>}
             /\ last' = [last EXCEPT !.similar = whole]
  /\ UNCHANGED <<library, vision, quality, junk, videos, times, losses, runs, failures>>

------------------------------------------------------------------------------
(* Junk and videos: one item after the other, with checkpoints.               *)

OneByOne == ~Resting /\ run.kind \in {"junk", "video"}

\* What the classifier, or analyze_video, says of an item;  a photo may have no answer.
Verdict(a, p) ==
  IF a.kind = "junk" THEN IF library[p].readable THEN library[p].class ELSE NoRow
  ELSE VideoReason(library[p], a.vision)

Flushed(rows, pending) == [p \in Items |-> IF p \in pending THEN Verdict(run, p) ELSE rows[p]]
Flush(pending) ==
  IF run.kind = "junk" THEN junk' = Flushed(junk, pending) /\ UNCHANGED videos
  ELSE videos' = Flushed(videos, pending) /\ UNCHANGED junk

IsFlag(reason) == reason \notin {NoRow, "none", "real"}

\* One turn of the loop.
Look(p) ==
  /\ OneByOne /\ ~run.stopped /\ p \in Unseen /\ \A q \in Unseen : p <= q
  /\ IF p \in run.done \/ Verdict(run, p) = NoRow
     THEN run' = [run EXCEPT !.seen = @ \cup {p}] /\ UNCHANGED <<junk, videos, times>>
     ELSE LET verdict == Verdict(run, p)
              pending == run.pending \cup {p}
              full == Cardinality(pending) >= Checkpoint
          IN /\ times' = [times EXCEPT ![p] = @ + 1]
             /\ IF full THEN Flush(pending) ELSE UNCHANGED <<junk, videos>>
             /\ run' = [run EXCEPT !.seen = @ \cup {p}, !.pending = IF full THEN {} ELSE pending,
                  !.events = IF IsFlag(verdict) THEN Append(@, [item |-> p, reason |-> verdict]) ELSE @]
  /\ UNCHANGED <<library, vision, quality, groups, stamps, last, losses, runs, failures>>

\* Mutant: a stop leaves the loop at once.
FinishLooks ==
  /\ OneByOne /\ (AllSeen \/ run.stopped)
  /\ IF run.stopped THEN UNCHANGED <<junk, videos>> ELSE Flush(run.pending)
  /\ Ends(~run.stopped)
  /\ UNCHANGED <<quality, groups, losses, failures>>

\* After the loop, and when it finds the stop, what is left is flushed.
Finish ==
  /\ OneByOne /\ (AllSeen \/ run.stopped)
  /\ Flush(run.pending)
  /\ Ends(~run.stopped)
  /\ UNCHANGED <<quality, groups, losses, failures>>

------------------------------------------------------------------------------
\* The write fails or the process ends:  the transaction is rolled back, what waits to be
\* written is lost, and the database keeps what was committed.
Fail ==
  /\ ~Resting /\ failures < MaxLosses /\ failures' = failures + 1
  /\ losses' = [p \in Items |-> IF p \in run.pending THEN losses[p] + 1 ELSE losses[p]]
  /\ Ends(FALSE)
  /\ UNCHANGED <<quality, groups, junk, videos>>

\* EnsureModel has brought the model; it may do so under any pass.
ModelArrives ==
  /\ ~vision /\ vision' = TRUE
  /\ UNCHANGED <<library, session, run, ghosts, runs, failures>>

AnalysisNext ==
  \/ \E request \in Requests : BeginAnalysis(request)
  \/ \E p \in Items : Measure(p) \/ Look(p)
  \/ Stop \/ WriteQuality \/ WriteGroups \/ Finish \/ Fail \/ ModelArrives

AnalysisSpec == AnalysisInit /\ [][AnalysisNext]_analysisVars

------------------------------------------------------------------------------
\* preview_quality_thresholds: how many photos of the scope, and how many for each reason.
Preview(scope, t) ==
  LET rows == {p \in Items : quality[p] # <<>> /\ (scope = {} \/ p \in scope)}
      With(r) == {p \in rows : r \in QualityReasons(quality[p][1], t)}
  IN [total |-> Cardinality(rows), flagged |-> Cardinality(UNION {With(r) : r \in DOMAIN Bit}),
      reasons |-> [r \in DOMAIN Bit |-> Cardinality(With(r))]]

\* get_session_results
Results ==
  [quality |-> {[item |-> p, reasons |-> ReasonsOf(quality[p][1].mask), sharpness |-> quality[p][1].peak,
                 exposure |-> ExposureScore(quality[p][1].under, quality[p][1].over)] :
                  p \in {q \in Items : quality[q] # <<>> /\ quality[q][1].mask # 0}},
   similar |-> groups,
   junk |-> {[item |-> p, reason |-> junk[p]] : p \in {q \in Items : IsFlag(junk[q])}},
   video |-> {[item |-> p, reason |-> videos[p]] : p \in {q \in Items : IsFlag(videos[q])}},
   passes |-> stamps]

------------------------------------------------------------------------------
Flags(k) == Results[k]
Told(k) == IF k = "similar" THEN last[k].events ELSE ToSet(last[k].events)
Looked(k) == last[k].paths \ (IF k = "quality" THEN {} ELSE last[k].done)

\* What GetSessionResults gives back is what the passes have streamed: a resumed review
\* shows the flags, reasons, scores, groups and group numbers of the last run, as long as
\* no later run has started on them.
ResumeShowsTheStream ==
  \A k \in Kinds : last[k] # NoRun =>
    IF k = "similar"
    THEN Told(k) = {g \in Flags(k) : \E m \in g.members : m.item \in last[k].paths}
    ELSE Told(k) = {flag \in Flags(k) : flag.item \in Looked(k)}

\* The preview over the stored measures says of a scope what a run with those thresholds
\* has found in it.
PreviewCountsTheRun ==
  last["quality"] # NoRun =>
    LET request == last["quality"].request
        preview == Preview(request.scope, request.thresholds)
        found == last["quality"].events
    IN /\ preview.flagged = Len(found)
       /\ \A r \in DOMAIN Bit : preview.reasons[r] = Cardinality({i \in DOMAIN found : r \in found[i].reasons})

\* A stop loses no classification and none is made twice: what the classifier has said is
\* in the database or among the fewer than Checkpoint that wait, unless the process died
\* or the write failed.
WorkIsKept ==
  /\ \A p \in Items :
       times[p] = losses[p] + (IF junk[p] # NoRow \/ videos[p] # NoRow THEN 1 ELSE 0)
                            + (IF ~Resting /\ p \in run.pending THEN 1 ELSE 0)
  /\ ~Resting => Cardinality(run.pending) < Checkpoint

\* The triangle inequality as a search past the leader f relies on it to find g from h.
Straight(f, g, h) ==
  /\ Distance(f, h) <= Distance(f, g) + Distance(g, h)
  /\ Distance(f, g) <= Distance(f, h) + Distance(g, h)

\* The search tree misses a leader within the radius only if an older leader, where it
\* turns off, breaks the triangle inequality with the two:  other leaders are apart.
\* Every photo is in one cluster, near its leader.
LeadersAreApart ==
  LET clusters == FindSimilarImages(Items, library)
      Leader(i) == library[clusters[i][1]]
      Near(p, q) == Distance(library[p], library[q]) <= Radius
  IN /\ \A j \in DOMAIN clusters : \A i \in 1 .. j - 1 :
          Near(clusters[i][1], clusters[j][1]) =>
            \E k \in 1 .. i - 1 : ~Straight(Leader(k), Leader(i), Leader(j))
     /\ \A i \in DOMAIN clusters : \A k \in DOMAIN clusters[i] : Near(clusters[i][k], clusters[i][1])
     /\ \A p \in Items : library[p].kind = "photo" /\ library[p].readable =>
          Cardinality({i \in DOMAIN clusters : p \in ToSet(clusters[i])}) = 1

\* vantage_point_tree.h, find_similar:  the search finds a leader within the radius
\* whenever there is one, so that two leaders are never within it.
LeadersAlwaysApart ==
  LET clusters == FindSimilarImages(Items, library)
  IN \A i, j \in DOMAIN clusters :
       i # j => Distance(library[clusters[i][1]], library[clusters[j][1]]) > Radius

\* proto.md, RunSimilarPass: a photo that is marked "is excluded from grouping": the
\* groups are those that there would be without it.
MarkedDoNotGroup ==
  last["similar"] # NoRun =>
    LET r == last["similar"]
        clusters == FindSimilarImages(r.paths \ r.request.skip, library)
        members(g) == {m.item : m \in g.members}
    IN {members(g) : g \in r.events} = {ToSet(clusters[i]) : i \in {j \in DOMAIN clusters : Len(clusters[j]) >= 2}}
==============================================================================
