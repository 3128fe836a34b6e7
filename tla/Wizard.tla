-------------------------------- MODULE Wizard --------------------------------
(***************************************************************************)
(* The wizard from choosing a folder to the copy (gui/core/                *)
(* wizard_controller*.cpp), what it saves of its position and of the trip  *)
(* edits as it goes, and what a resume makes of that.                      *)
(*                                                                         *)
(* The UI thread takes one action at a time.  Saves and questions to the   *)
(* session are tasks of the app's worker_pool of two threads: the first    *)
(* two tasks of the queue may take effect in either order, and the queue   *)
(* dies with the process, except that closing the app lets it run dry.     *)
(* The passes run from the batch menu are Review's subject: here they only *)
(* mark photos.  What a copy does is Commit's.                             *)
(***************************************************************************)
EXTENDS TripPlan

CONSTANTS
  Params,     (* the settings of the trips pass                               *)
  Default,    (* the settings of a new launch                                 *)
  Cluster,    (* what the trips pass makes of the index, by its settings      *)
  Names,      (* what the user types as a folder name                         *)
  Picks,      (* bound: the selections of photos that are moved together      *)
  Glimpses,   (* bound: what may come of a resumed scan whose end is lost     *)
  MaxScans,   (* bound: scans, fresh or resumed                               *)
  MaxEvents,  (* bound: edits, marks and other settings, and with them failing  *)
              (* calls and saves, overtaken tasks, calls cancelled before they  *)
              (* record their step, exits and crashes                         *)
  MaxTasks    (* bound: tasks waiting in the pool                             *)

ASSUME PicksAssumption == Picks \subseteq SUBSET Photos /\ Names \subseteq Labels
ASSUME PhotosAssumption == Photos # {} /\ Glimpses \subseteq SUBSET Photos
ASSUME ParamsAssumption == Default \in Params
ASSUME ClusterAssumption == \A at \in Params : IsClustering(Cluster[at])

\* index_of(wizard_step): the steps that are told apart here.
Select == 0
Quality == 1
TripsStep == 5
Copy == 6
NoStep == -1

VARIABLES
  phase,      (* phase_; "closed" between two launches                        *)
  back,       (* return_phase_; "start" when there is none                    *)
  index,      (* images_                                                      *)
  params,     (* the trips part of tunables_                                  *)
  clustering, edits,   (* plan_                                               *)
  marked,     (* deleted_ids_                                                 *)
  batchMode, batches,  (* batch_mode_ and batches_, as sets of photos         *)
  pending,    (* pending_trip_edits_                                          *)
  target,     (* resume_target_step_                                          *)
  resuming,   (* resuming_                                                    *)
  call,       (* the pass the wizard listens to: "none", "asked", "working"   *)
  late,       (* the steps that calls nobody listens to have yet to record    *)
  tasks,      (* worker_pool: what waits                                      *)
  answer,     (* an answer on its way to the UI thread                        *)
  stored,     (* the session database                                         *)
  disordered, (* history: a write took effect after a younger one             *)
  missed,     (* history: of position and edits, those the session is behind  *)
              (* in, until they are saved again                               *)
  scans, events  (* counted for the bounds                                    *)

planVars == <<params, clustering, edits>>
batchVars == <<batchMode, batches>>
resumeVars == <<pending, target, resuming>>
callVars == <<call, late>>
poolVars == <<tasks, answer>>
historyVars == <<disordered, missed>>
boundVars == <<scans, events>>
vars == <<phase, back, index, planVars, marked, batchVars, resumeVars, callVars,
          poolVars, stored, historyVars, boundVars>>

NoPending == [none |-> TRUE]
NoAnswer == [kind |-> "none"]
\* What the wizard saves of itself.
Parts == {"position", "edits"}
Fresh(has, at) == [has |-> has, step |-> Select, params |-> at, edits |-> NoText,
                   marks |-> {}]

Init ==
  /\ phase = "start" /\ back = "start" /\ index = {}
  /\ params = Default /\ clustering = {} /\ edits = NoEdits(TRUE)
  /\ marked = {} /\ batchMode = FALSE /\ batches = {}
  /\ pending = NoPending /\ target = NoStep /\ resuming = FALSE
  /\ call = "none" /\ late = {} /\ tasks = <<>> /\ answer = NoAnswer
  /\ stored = Fresh(FALSE, params) /\ disordered = FALSE /\ missed = {}
  /\ scans = 0 /\ events = 0

------------------------------------------------------------------------------
(* Pieces of the handlers.                                                    *)

\* step_index_of.
StepOf(p) ==
  CASE p \in {"tripsRunning", "tripsReview"} -> TripsStep
    [] p \in {"menu", "deletionReview"} -> Quality
    [] p \in {"summary", "committing"} -> Copy
    [] p = "done" -> Copy + 1
    [] OTHER -> Select

Resting == {"confirm", "tripsReview", "menu", "deletionReview", "summary"}

\* The next generation of the scope: a question that waits in the pool is still asked, but
\* nobody hears the answer.
Unheard(queue) ==
  [i \in DOMAIN queue |-> IF queue[i].kind \in Parts THEN queue[i]
                          ELSE [kind |-> "unheard"]]

Position(p, at) == [kind |-> "position", step |-> StepOf(p), params |-> at]
EditsTask(text) == [kind |-> "edits", text |-> text]

\* set_phase: a resting screen saves the position, unless a resume is under way.
Submits(p, isResuming, aim, at) ==
  IF p \in Resting /\ ~isResuming /\ aim = NoStep THEN <<Position(p, at)>> ELSE <<>>

Show(p) ==
  /\ phase' = p
  /\ tasks' = tasks \o Submits(p, resuming, target, params)

\* One more of what the bound counts: the user changes something, or something goes wrong.
Event == events < MaxEvents /\ events' = events + 1

\* Room for what one action submits.
Room == Len(tasks) + 2 <= MaxTasks

\* A cancelled pass records its step all the same if it has not yet.
LeaveCall ==
  /\ call' = "none"
  /\ late' = IF call = "asked" THEN late \cup {StepOf(phase)} ELSE late
CancelCall == LeaveCall /\ IF call = "asked" THEN Event ELSE UNCHANGED events

\* clear_results.
ClearResults ==
  /\ LeaveCall
  /\ answer' = NoAnswer
  /\ index' = {} /\ clustering' = {} /\ edits' = NoEdits(TRUE) /\ marked' = {}
  /\ batchMode' = FALSE /\ batches' = {}
  /\ pending' = NoPending /\ target' = NoStep /\ resuming' = FALSE

------------------------------------------------------------------------------
(* The folder.                                                                *)

\* select_folder: the phase stays while the pool asks about a saved session.
SelectFolder ==
  /\ phase = "start" /\ Room /\ scans < MaxScans
  /\ \A i \in DOMAIN tasks : tasks[i].kind # "probe"
  /\ ClearResults
  /\ back' = "start"
  /\ tasks' = Append(Unheard(tasks), [kind |-> "probe"])
  /\ UNCHANGED <<phase, params, stored, historyVars, boundVars>>

\* begin_scan of a folder anew: the engine opens the session and resets it.
BeginFresh ==
  /\ phase' = "scanning" /\ resuming' = FALSE
  /\ stored' = Fresh(stored.has, params) /\ missed' = {}
  /\ scans' = scans + 1

\* The answer to the probe.
Probed ==
  /\ answer.kind = "probe" /\ phase = "start"
  /\ answer' = NoAnswer
  /\ \/ answer.is.has /\ phase' = "restore" /\ UNCHANGED <<resuming, stored, missed, scans>>
     \/ ~answer.is.has /\ BeginFresh
  /\ UNCHANGED <<back, index, planVars, marked, batchVars, pending, target, callVars,
                 tasks, disordered, events>>

StartFresh ==
  /\ phase = "restore" /\ scans < MaxScans
  /\ LeaveCall /\ answer' = NoAnswer
  /\ index' = {} /\ clustering' = {} /\ edits' = NoEdits(TRUE) /\ marked' = {}
  /\ batchMode' = FALSE /\ batches' = {} /\ pending' = NoPending /\ target' = NoStep
  /\ back' = "start"
  /\ BeginFresh
  /\ UNCHANGED <<params, tasks, disordered, events>>

ResumeSession ==
  /\ phase = "restore" /\ scans < MaxScans
  /\ LeaveCall /\ answer' = NoAnswer
  /\ index' = {} /\ clustering' = {} /\ edits' = NoEdits(TRUE) /\ marked' = {}
  /\ batchMode' = FALSE /\ batches' = {} /\ pending' = NoPending /\ target' = NoStep
  /\ phase' = "scanning" /\ resuming' = TRUE
  /\ scans' = scans + 1
  /\ UNCHANGED <<back, params, tasks, stored, historyVars, events>>

\* on_scan_done; a folder without photos has a screen of its own.
ScanDone ==
  /\ phase = "scanning" /\ ~resuming /\ Room
  /\ \/ index' = Photos /\ stored' = [stored EXCEPT !.has = TRUE] /\ Show("confirm")
     \/ index' = {} /\ stored' = [stored EXCEPT !.has = FALSE] /\ Show("noImages")
  /\ UNCHANGED <<back, planVars, marked, batchVars, resumeVars, callVars, answer,
                 historyVars, boundVars>>

\* on_resume_scan_done: the photos are back, and the pool asks for the results.
ResumeScanDone ==
  /\ phase = "scanning" /\ resuming /\ index = {} /\ Room
  /\ index' = Photos
  /\ tasks' = Append(tasks, [kind |-> "results"])
  /\ UNCHANGED <<phase, back, planVars, marked, batchVars, resumeVars, callVars, answer,
                 stored, historyVars, boundVars>>

\* The same when the end of the stream was lost, or a resume finds no photo:  the wizard
\* confirms those that came, and saves that position over the session's.  The edits the
\* session has are on no screen.  A scan anew without its end never leaves its screen.
ResumeCutShort ==
  /\ phase = "scanning" /\ resuming /\ index = {} /\ Room
  /\ \A i \in DOMAIN tasks : tasks[i].kind # "results"
  /\ index' \in Glimpses
  /\ resuming' = FALSE /\ phase' = "confirm"
  /\ tasks' = tasks \o Submits("confirm", FALSE, target, params)
  /\ missed' = missed \cup {"edits"}
  /\ UNCHANGED <<back, planVars, marked, batchVars, pending, target, callVars, answer,
                 stored, disordered, boundVars>>

CancelScan ==
  /\ phase = "scanning"
  /\ answer' = NoAnswer /\ tasks' = Unheard(tasks)
  /\ resuming' = FALSE /\ phase' = "start"
  /\ UNCHANGED <<back, index, planVars, marked, batchVars, pending, target, callVars,
                 stored, historyVars, boundVars>>

BackFromConfirm ==
  /\ phase = "confirm"
  /\ ClearResults
  /\ phase' = "start" /\ tasks' = Unheard(tasks)
  /\ UNCHANGED <<back, params, stored, historyVars, boundVars>>

\* reset_to_start: from the screen without photos and from the end.
ResetToStart ==
  /\ phase \in {"noImages", "done"}
  /\ ClearResults
  /\ phase' = "start" /\ back' = "start" /\ tasks' = Unheard(tasks)
  /\ UNCHANGED <<params, stored, historyVars, boundVars>>

------------------------------------------------------------------------------
(* Trips.                                                                     *)

\* Mutant: a resumed trips pass saves the edits it has just emptied.
StartTripsAlways(aim, held, at, organize) ==
  /\ clustering' = {} /\ edits' = NoEdits(organize)
  /\ tasks' = Append(Unheard(tasks), EditsTask(Encode({}, NoEdits(organize))))
  /\ answer' = NoAnswer /\ phase' = "tripsRunning" /\ call' = "asked"
  /\ pending' = held /\ target' = aim /\ params' = at

\* start_trips_pass: the edits start empty, and are saved so unless a resume holds some.
StartTrips(aim, held, at, organize) ==
  /\ clustering' = {} /\ edits' = NoEdits(organize)
  /\ tasks' = IF held # NoPending THEN Unheard(tasks)
              ELSE Append(Unheard(tasks), EditsTask(Encode({}, NoEdits(organize))))
  /\ answer' = NoAnswer /\ phase' = "tripsRunning" /\ call' = "asked"
  /\ pending' = held /\ target' = aim /\ params' = at

\* apply_session_results.  The parts of a session that missed a save may not fit together.
ResultsApplied ==
  /\ answer.kind = "results" /\ phase = "scanning" /\ resuming /\ Room
  /\ marked' = answer.is.marks
  /\ resuming' = FALSE
  /\ \/ /\ answer.is.step < Quality
        /\ pending' = NoPending /\ params' = answer.is.params /\ answer' = NoAnswer
        /\ phase' = "confirm"
        /\ tasks' = tasks \o Submits("confirm", FALSE, NoStep, answer.is.params)
        /\ UNCHANGED <<back, clustering, edits, target, call>>
     \/ /\ answer.is.step >= Quality
        /\ back' = "confirm"
        /\ StartTrips(answer.is.step, answer.is.edits, answer.is.params, edits.organize)
  /\ missed' = IF missed = {} THEN {} ELSE Parts
  /\ UNCHANGED <<index, batchVars, late, stored, disordered, boundVars>>

ContinueFromConfirm ==
  /\ phase = "confirm" /\ Room
  /\ back' = "confirm"
  /\ StartTrips(target, pending, params, edits.organize)
  /\ UNCHANGED <<index, marked, batchVars, resuming, late, stored, historyVars, boundVars>>

\* enter_batch_mode with build_batches: a batch per folder, and one of the photos in none.
BatchesOf(c, e, gone) ==
  LET folders == Folders(c, e, gone)
      sets == {PhotosOf(folders[n]) \cap index : n \in DOMAIN folders}
  IN sets \cup ({UnassignedPhotos(c, e, gone, index)} \ {{}})

\* The trips that came of those the pass made:  they come by number, and stream_pass may
\* say ok with the last of them unread (PassStream).
Came(trips) ==
  {some \in SUBSET trips : \A t \in some : \A u \in trips : u.id < t.id => u \in some}

\* on_trips_done, with the trips that came before it.  Edits that are laid over some of
\* their trips only are no longer what the session has.
TripsDone ==
  /\ phase = "tripsRunning" /\ call = "working" /\ Room
  /\ clustering' \in Came(Cluster[params]) /\ call' = "none" /\ pending' = NoPending
  /\ edits' = IF pending = NoPending \/ pending = NoText THEN edits
              ELSE ApplyEdits(pending, clustering', index)
  /\ missed' = IF clustering' # Cluster[params] /\ pending # NoPending
               THEN missed \cup {"edits"} ELSE missed
  /\ target' = NoStep
  /\ IF target # NoStep
     THEN /\ batchMode' = TRUE /\ batches' = BatchesOf(clustering', edits', marked)
          /\ phase' = IF target = Copy THEN "summary" ELSE "menu"
          /\ tasks' = tasks \o Submits(phase', resuming, NoStep, params)
     ELSE Show("tripsReview") /\ UNCHANGED batchVars
  /\ UNCHANGED <<back, index, params, marked, resuming, late, answer, stored, disordered,
                 boundVars>>

\* cancel_trips.
CancelTrips ==
  /\ phase = "tripsRunning" /\ Room
  /\ CancelCall /\ answer' = NoAnswer
  /\ pending' = NoPending /\ target' = NoStep
  /\ phase' = back
  /\ tasks' = Unheard(tasks) \o Submits(back, resuming, NoStep, params)
  /\ UNCHANGED <<back, index, planVars, marked, batchVars, resuming, stored, historyVars,
                 scans>>

BackFromTrips ==
  /\ phase = "tripsReview" /\ Room
  /\ Show(back)
  /\ UNCHANGED <<back, index, planVars, marked, batchVars, resumeVars, callVars, answer,
                 stored, historyVars, boundVars>>

RerunTrips ==
  /\ phase = "tripsReview" /\ Room /\ Event
  /\ \E at \in Params : StartTrips(target, pending, at, edits.organize)
  /\ UNCHANGED <<back, index, marked, batchVars, resuming, late, stored, historyVars,
                 scans>>

\* persist_trip_edits after an edit, and the review shown again.
Edited(e) ==
  /\ phase = "tripsReview" /\ Room /\ Event
  /\ edits' = e
  /\ tasks' = tasks \o <<EditsTask(Encode(clustering, e)), Position(phase, params)>>
  /\ UNCHANGED <<phase, back, index, params, clustering, marked, batchVars, resumeVars,
                 callVars, answer, stored, historyVars, scans>>

MoveImages ==
  /\ phase = "tripsReview"
  /\ \E ids \in Picks :
    \E trip \in {t.id : t \in EffectiveTrips(clustering, edits, marked)} \cup {Unassigned} :
      Edited(Moved(edits, ids, trip))

CreateTrip ==
  /\ phase = "tripsReview"
  /\ \E ids \in Picks : \E place \in PlacesFor(clustering, ids) :
    Edited(Created(edits, ids, place))

RenameFolder ==
  /\ phase = "tripsReview"
  /\ \E t \in EffectiveTrips(clustering, edits, marked), name \in Names :
    Edited(Renamed(edits, t.id, name))

SetOrganize == Edited([edits EXCEPT !.organize = ~@])

------------------------------------------------------------------------------
(* Batches and the copy.                                                      *)

\* continue_from_trips.
ContinueFromTrips ==
  /\ phase = "tripsReview" /\ Room
  /\ batchMode' = TRUE /\ batches' = BatchesOf(clustering, edits, marked)
  /\ Show("menu")
  /\ UNCHANGED <<back, index, planVars, marked, resumeVars, callVars, answer, stored,
                 historyVars, boundVars>>

\* reopen_organize.
ReopenOrganize ==
  /\ phase = "menu" /\ Room
  /\ batchMode' = FALSE
  /\ Show("tripsReview")
  /\ UNCHANGED <<back, index, planVars, marked, batches, resumeVars, callVars, answer,
                 stored, historyVars, boundVars>>

\* A pass of the menu or the user marks a photo, or the user keeps one again.  Saving it
\* may fail.
MarkPhoto(p) ==
  /\ phase \in {"menu", "deletionReview"} /\ Event
  /\ marked' = IF p \in marked THEN marked \ {p} ELSE marked \cup {p}
  /\ stored' \in {stored, [stored EXCEPT !.marks = marked']}
  /\ UNCHANGED <<phase, back, index, planVars, batchVars, resumeVars, callVars, poolVars,
                 historyVars, scans>>

Move(from, to) ==
  /\ phase = from /\ Room /\ Show(to)
  /\ UNCHANGED <<back, index, planVars, marked, batchVars, resumeVars, callVars, answer,
                 stored, historyVars, boundVars>>

ContinueFromBatches == Move("menu", "deletionReview")
BackFromDeletionReview == Move("deletionReview", "menu")
ContinueFromDeletionReview == Move("deletionReview", "summary")

BackFromSummary ==
  \/ batchMode /\ Move("summary", "deletionReview")
  \/ ~batchMode /\ Move("summary", "tripsReview")

StartCommit ==
  /\ phase = "summary"
  /\ back' = "summary" /\ phase' = "committing" /\ call' = "asked"
  /\ UNCHANGED <<index, planVars, marked, batchVars, resumeVars, late, poolVars, stored,
                 historyVars, boundVars>>

CommitDone ==
  /\ phase = "committing" /\ call = "working"
  /\ phase' = "done" /\ call' = "none"
  /\ UNCHANGED <<back, index, planVars, marked, batchVars, resumeVars, late, poolVars,
                 stored, historyVars, boundVars>>

CancelCommit ==
  /\ phase = "committing" /\ Room
  /\ CancelCall /\ Show("summary")
  /\ UNCHANGED <<back, index, planVars, marked, batchVars, resumeVars, answer, stored,
                 historyVars, scans>>

------------------------------------------------------------------------------
(* Failures.                                                                  *)

\* fail: a scan, the saved results, the trips pass or the copy.
Fail ==
  /\ phase \in {"scanning", "tripsRunning", "committing"} /\ Event
  /\ phase' = "failed" /\ call' = "none" /\ resuming' = FALSE
  /\ answer' = NoAnswer /\ tasks' = Unheard(tasks)
  /\ UNCHANGED <<back, index, planVars, marked, batchVars, pending, target, late, stored,
                 historyVars, scans>>

\* go_back_from_error.
GoBackFromError ==
  /\ phase = "failed" /\ Room
  /\ \/ /\ batchMode /\ batches # {}
        /\ Show("menu") /\ LeaveCall /\ answer' = NoAnswer
        /\ UNCHANGED <<index, clustering, edits, marked, batchVars, resumeVars>>
     \/ /\ ~(batchMode /\ batches # {})
        /\ ClearResults
        /\ phase' = back
        /\ tasks' = tasks \o Submits(back, FALSE, NoStep, params)
  /\ UNCHANGED <<back, params, stored, historyVars, boundVars>>

------------------------------------------------------------------------------
(* The engine and the pool.                                                   *)

\* record_step at the start of a pass, which goes on if that fails.
RecordStep ==
  /\ call = "asked" /\ call' = "working"
  /\ \/ stored' = [stored EXCEPT !.step = StepOf(phase)] /\ UNCHANGED events
     \/ UNCHANGED stored /\ Event
  /\ UNCHANGED <<phase, back, index, planVars, marked, batchVars, resumeVars, late,
                 poolVars, historyVars, scans>>

\* The same in a call that was cancelled meanwhile.
RecordLate ==
  \E s \in late :
    /\ late' = late \ {s}
    /\ \/ stored' = [stored EXCEPT !.step = s] /\ disordered' = TRUE /\ UNCHANGED events
       \/ Event /\ UNCHANGED <<stored, disordered>>
    /\ UNCHANGED <<phase, back, index, planVars, marked, batchVars, resumeVars, call,
                   poolVars, missed, scans>>

\* What a task does to the session.
Effect(t, session) ==
  CASE t.kind = "position" -> [session EXCEPT !.step = t.step, !.params = t.params]
    [] t.kind = "edits" -> [session EXCEPT !.edits = t.text]
    [] OTHER -> session

\* A task takes effect: the oldest, or the one after it on the other thread.
RunTask ==
  \E i \in DOMAIN tasks \cap 1 .. 2 :
    LET t == tasks[i] IN
    /\ IF i = 1 THEN UNCHANGED events ELSE Event
    /\ tasks' = RemoveAt(tasks, i)
    /\ stored' = Effect(t, stored)
    /\ answer' = IF t.kind \in {"probe", "results"} THEN [kind |-> t.kind, is |-> stored]
                 ELSE answer
    /\ disordered' = (disordered \/ i = 2) /\ missed' = missed \ {t.kind}
    /\ UNCHANGED <<phase, back, index, planVars, marked, batchVars, resumeVars, callVars,
                   scans>>

\* A save is best effort, and a folder that cannot be asked counts as one without a
\* session.  Results that cannot be read are an error of the scan (Fail).
TaskFails ==
  \E i \in DOMAIN tasks \cap 1 .. 2 :
    LET t == tasks[i] IN
    /\ t.kind # "results"
    /\ events + i <= MaxEvents /\ events' = events + i
    /\ tasks' = RemoveAt(tasks, i)
    /\ answer' = IF t.kind = "probe"
                 THEN [kind |-> "probe", is |-> [stored EXCEPT !.has = FALSE]] ELSE answer
    /\ disordered' = (disordered \/ i = 2)
    /\ missed' = missed \cup ({t.kind} \cap Parts)
    /\ UNCHANGED <<phase, back, index, planVars, marked, batchVars, resumeVars, callVars,
                   stored, scans>>

Forget ==
  /\ index' = {} /\ clustering' = {} /\ edits' = NoEdits(TRUE) /\ marked' = {}
  /\ batchMode' = FALSE /\ batches' = {} /\ call' = "none" /\ answer' = NoAnswer
  /\ pending' = NoPending /\ target' = NoStep /\ resuming' = FALSE
  /\ back' = "start" /\ params' = Default

\* Exit app: passes are cancelled and write what they have to, and the pool runs dry.
Exit ==
  /\ phase # "closed" /\ Event
  /\ phase' = "closed" /\ tasks' = Unheard(tasks)
  /\ late' = IF call = "asked" THEN late \cup {StepOf(phase)} ELSE late
  /\ Forget
  /\ UNCHANGED <<stored, historyVars, scans>>

Launch ==
  /\ phase = "closed" /\ tasks = <<>> /\ late = {}
  /\ phase' = "start"
  /\ UNCHANGED <<back, index, planVars, marked, batchVars, resumeVars, callVars, poolVars,
                 stored, historyVars, boundVars>>

\* The process dies and is started again.
Crash ==
  /\ Event
  /\ phase' = "start" /\ tasks' = <<>> /\ late' = {}
  /\ Forget
  /\ UNCHANGED <<stored, historyVars, scans>>

Next ==
  \/ SelectFolder \/ Probed \/ StartFresh \/ ResumeSession
  \/ ScanDone \/ ResumeScanDone \/ ResumeCutShort \/ CancelScan
  \/ BackFromConfirm \/ ResetToStart
  \/ ResultsApplied \/ ContinueFromConfirm \/ TripsDone \/ CancelTrips \/ BackFromTrips
  \/ RerunTrips \/ MoveImages \/ CreateTrip \/ RenameFolder \/ SetOrganize
  \/ ContinueFromTrips \/ ReopenOrganize \/ \E p \in index : MarkPhoto(p)
  \/ ContinueFromBatches \/ BackFromDeletionReview \/ ContinueFromDeletionReview
  \/ BackFromSummary \/ StartCommit \/ CommitDone \/ CancelCommit
  \/ Fail \/ GoBackFromError \/ RecordStep \/ RecordLate \/ RunTask \/ TaskFails
  \/ Exit \/ Launch \/ Crash

Spec == Init /\ [][Next]_vars
------------------------------------------------------------------------------
(* Properties.                                                                *)

Settled == tasks = <<>> /\ call = "none" /\ late = {}

Planned == {"tripsReview", "menu", "deletionReview", "summary", "committing"}

\* Whatever was clustered, moved, made by hand, marked or laid back by a resume: each
\* photo that is not marked is in one trip or listed as being in none, the legs of a
\* trip share out its photos, and no photo is in two batches (effective_trips,
\* unassigned_image_ids, build_batches).
EveryPhotoPlaced ==
  /\ phase \in Planned /\ index # {} => Lays(clustering, edits, marked, index)
  /\ \A a, b \in batches : a # b => a \cap b = {}

\* On a resting screen, once the pool is idle, the session holds that screen's step, the
\* settings and, where there is a plan, its edits.  A part whose save failed is behind until
\* the next save of it - "the next resting screen tries again" - and so are the edits where
\* the end of a resumed scan or of its trips was lost.  Left out is a session in which one
\* write overtook another, and a screen whose index an error emptied, for which see
\* ConfirmHasPhotos (persist_progress, persist_trip_edits, record_step).
DiskFollowsScreen ==
  Settled /\ phase \in Resting /\ index # {} /\ ~disordered =>
    /\ "position" \notin missed => stored.step = StepOf(phase) /\ stored.params = params
    /\ phase \in Planned /\ "edits" \notin missed =>
         stored.edits = Encode(clustering, edits)

\* A resume that lands shows the trips with the edits that the session holds, and the
\* photos that were marked - unless the session lacks a save, one write overtook another
\* before, or some of the trips were lost on the way (apply_edits after the trips pass,
\* and nothing saved over the edits on the way).
ResumeBringsBack ==
  [][ phase = "tripsRunning" /\ target # NoStep /\ phase' \in {"menu", "summary"}
      /\ ~disordered /\ missed' = {} =>
        Encode(clustering', edits') = stored.edits /\ marked' = stored.marks ]_vars

\* The final review lists every marked photo (marked_by_batch).
EveryMarkIsListed == phase = "deletionReview" => marked \subseteq UNION batches

\* The screen that says how many photos were found has them (go_back_from_error).
ConfirmHasPhotos == phase = "confirm" => index # {}
===============================================================================
