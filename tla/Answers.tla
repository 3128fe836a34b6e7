-------------------------------- MODULE Answers --------------------------------
(***************************************************************************)
(* The two questions the wizard asks the engine beside its passes: how     *)
(* many photos the thresholds under the sliders would flag                 *)
(* (refresh_quality_preview), and whether the copy fits its destination    *)
(* (request_estimate_now).  Each is a task of the app's worker_pool, whose *)
(* answer is posted back to the UI thread; by then the sliders, the        *)
(* destination, the photos that are kept or the screen may be others.      *)
(*                                                                         *)
(* A next_generation of the wizard's scope takes back what is in flight:   *)
(* an answer that would be dropped later is left out at once.  What the    *)
(* counts are is the subject of Analysis and Commit.                       *)
(***************************************************************************)
EXTENDS Naturals, Sequences, FiniteSets, SequencesExt

CONSTANTS
  Batches,   (* the batches of the menu                                       *)
  Settings,  (* the positions of the sliders                                  *)
  Default,   (* ... where they start                                          *)
  Places,    (* the destinations the user types                               *)
  Suggested, (* suggested_destination: beside the source folder               *)
  KeepSets,  (* the sets of photos that may be kept                           *)
  Workers,   (* threads of the worker_pool                                    *)
  None,
  MaxPasses, (* bound: passes and copies                                      *)
  MaxTurns   (* bound: slider moves, destinations, choices, visits            *)

Kinds == {"preview", "estimate"}
Questions ==
  [kind : {"preview"}, no : Nat, batch : Batches, sliders : Settings]
    \cup [kind : {"estimate"}, no : Nat, place : Places \cup {Suggested}, kept : KeepSets]

ASSUME WorkersAssumption == Workers \in Nat \ {0}
ASSUME BoundAssumption == MaxPasses \in Nat /\ MaxTurns \in Nat
ASSUME NoneAssumption == None \notin Settings /\ None \notin Places /\ None \notin Questions
ASSUME SettingsAssumption == Default \in Settings

VARIABLES
  screen, step, batch,  (* phase_, its pass, and active_batch_                *)
  done,      (* the batches whose quality pass ended (progress_)              *)
  sliders,   (* tunables_                                                     *)
  lastRun,   (* last_run_                                                     *)
  asked,     (* preview_seq_, and the number of the last estimate             *)
  preview,   (* preview_flagged_: what it was counted for                     *)
  typed,     (* commit_destination_                                           *)
  kept,      (* what deletion_changed leaves                                  *)
  estimate,  (* commit_estimate_, and commit_estimate_for_ as its place       *)
  timer,     (* estimate_timer_                                               *)
  pool, busy,  (* the tasks that wait, and those in the hands of a thread     *)
  posts,     (* ui_queue                                                      *)
  missed,    (* history: the kinds whose last question got no answer          *)
  newest,    (* history: the number of the newest estimate shown so far       *)
  passes, turns  (* counted for the bounds                                    *)

screenVars == <<screen, step, batch, done>>
previewVars == <<sliders, lastRun, preview>>
commitVars == <<typed, kept, estimate, timer, newest>>
flightVars == <<pool, busy, posts>>
askVars == <<asked, missed>>
boundVars == <<passes, turns>>
vars == <<screenVars, previewVars, commitVars, flightVars, askVars, boundVars>>

TypeOK ==
  /\ screen \in {"menu", "running", "review", "final", "summary", "committing"}
  /\ step \in {"quality", "other"} /\ batch \in Batches \cup {None}
  /\ done \subseteq Batches
  /\ sliders \in Settings /\ lastRun \in Settings \cup {None}
  /\ asked \in [Kinds -> Nat]
  /\ preview \in Questions \cup {None} /\ estimate \in Questions \cup {None}
  /\ typed \in Places \cup {None} /\ kept \in KeepSets /\ timer \in BOOLEAN
  /\ pool \in Seq(Questions) /\ busy \subseteq Questions /\ posts \in Seq(Questions)
  /\ Cardinality(busy) <= Workers
  /\ missed \subseteq Kinds /\ newest \in Nat
  /\ passes \in 0 .. MaxPasses /\ turns \in 0 .. MaxTurns

Init ==
  /\ screen = "menu" /\ step = "other" /\ batch = None /\ done = {}
  /\ sliders = Default /\ lastRun = None /\ preview = None
  /\ typed = None /\ kept \in KeepSets /\ estimate = None /\ timer = FALSE
  /\ newest = 0
  /\ pool = <<>> /\ busy = {} /\ posts = <<>>
  /\ asked = [k \in Kinds |-> 0] /\ missed = {}
  /\ passes = 0 /\ turns = 0

Pass == passes < MaxPasses /\ passes' = passes + 1 /\ UNCHANGED turns
Turn == turns < MaxTurns /\ turns' = turns + 1 /\ UNCHANGED passes

------------------------------------------------------------------------------
(* Asking.                                                                    *)

InFlight == ToSet(pool) \cup busy \cup ToSet(posts)

\* Leaves waiting the tasks of the queue given.
Ask(kind, question, queue) ==
  /\ asked' = [asked EXCEPT ![kind] = @ + 1]
  /\ missed' = missed \ {kind}
  /\ pool' = Append(queue, question)

\* refresh_quality_preview.
AskPreview(at) ==
  /\ Ask("preview", [kind |-> "preview", no |-> asked["preview"] + 1,
                     batch |-> batch, sliders |-> at], pool)
  /\ UNCHANGED <<busy, posts>>

\* effective_destination.
Destination == IF typed = None THEN Suggested ELSE typed

Estimate == [kind |-> "estimate", no |-> asked["estimate"] + 1,
             place |-> Destination, kept |-> kept]

\* request_estimate_now.
AskEstimate(queue) ==
  /\ Ask("estimate", Estimate, queue)

\* scope_.next_generation: a preview on its way is dropped with the rest.
NextGeneration ==
  /\ pool' = <<>> /\ busy' = {} /\ posts' = <<>>
  /\ missed' = missed \cup {q.kind : q \in {r \in InFlight : r.kind = "preview"}}
  /\ UNCHANGED asked

------------------------------------------------------------------------------
(* Passes and the sliders of the quality review.                              *)

\* start_quality_pass keeps its thresholds before it has run.
Start(s, b) ==
  /\ Pass
  /\ screen' = "running" /\ step' = s /\ batch' = b
  /\ lastRun' = IF s = "quality" THEN sliders ELSE lastRun
  /\ NextGeneration
  /\ UNCHANGED <<done, sliders, preview, commitVars>>

StartBatchPass(s, b) == screen = "menu" /\ Start(s, b)

\* rerun_quality_pass, when thresholds_changed.
RerunQualityPass ==
  /\ screen = "review" /\ step = "quality" /\ lastRun \notin {None, sliders}
  /\ Start("quality", batch)

ReturnToBatchMenu == screen' = "menu" /\ batch' = None

\* on_done, to the review or, at the end of a run on all batches, to the menu.
FinishPass ==
  /\ screen = "running"
  /\ IF step = "quality"
     THEN done' = done \cup {batch} /\ lastRun' = sliders /\ preview' = None
     ELSE UNCHANGED <<done, lastRun, preview>>
  /\ ReturnToBatchMenu \/ (screen' = "review" /\ UNCHANGED batch)
  /\ UNCHANGED <<step, sliders, commitVars, flightVars, askVars, boundVars>>

\* cancel_pass, or go_back_from_error after a pass or a copy that failed.
LeavePass ==
  /\ screen \in {"running", "committing"}
  /\ ReturnToBatchMenu
  /\ NextGeneration
  /\ UNCHANGED <<step, done, previewVars, commitVars, boundVars>>

\* set_*_threshold and reset_thresholds.
MoveSlider(to) ==
  /\ screen = "review" /\ step = "quality" /\ to # sliders
  /\ Turn
  /\ sliders' = to
  /\ AskPreview(to)
  /\ UNCHANGED <<screenVars, lastRun, preview, commitVars>>

ReviewBatchPass(b) ==
  /\ screen = "menu" /\ b \in done
  /\ Turn
  /\ screen' = "review" /\ step' = "quality" /\ batch' = b
  /\ UNCHANGED <<done, previewVars, commitVars, flightVars, askVars>>

CloseBatchReview ==
  /\ screen = "review"
  /\ ReturnToBatchMenu
  /\ UNCHANGED <<step, done, previewVars, commitVars, flightVars, askVars, boundVars>>

\* keep_image, mark_image and the like; deletion_changed.
Choose(set) ==
  /\ screen \in {"review", "final"} /\ set # kept
  /\ Turn
  /\ kept' = set
  /\ UNCHANGED <<screenVars, previewVars, typed, estimate, timer, newest, flightVars,
                 askVars>>

------------------------------------------------------------------------------
(* The summary before the copy.                                               *)

ContinueFromBatches ==
  /\ screen = "menu"
  /\ screen' = "final"
  /\ UNCHANGED <<step, batch, done, previewVars, commitVars, flightVars, askVars, boundVars>>

BackFromDeletionReview ==
  /\ screen = "final"
  /\ screen' = "menu"
  /\ UNCHANGED <<step, batch, done, previewVars, commitVars, flightVars, askVars, boundVars>>

ContinueFromDeletionReview ==
  /\ screen = "final"
  /\ Turn
  /\ screen' = "summary"
  /\ AskEstimate(pool)
  /\ UNCHANGED <<step, batch, done, previewVars, typed, kept, estimate, timer, newest,
                 busy, posts>>

\* set_commit_destination and refresh_commit_estimate: the pause starts anew.
SetDestination(value) ==
  /\ screen = "summary" /\ value # typed
  /\ Turn
  /\ typed' = value /\ timer' = TRUE
  /\ UNCHANGED <<screenVars, previewVars, kept, estimate, newest, flightVars, askVars>>

\* run_due finds the pause over.
TimerRuns ==
  /\ timer /\ timer' = FALSE
  /\ AskEstimate(pool)
  /\ UNCHANGED <<screenVars, previewVars, typed, kept, estimate, newest, busy, posts,
                 boundVars>>

BackFromSummary ==
  /\ screen = "summary"
  /\ screen' = "final" /\ timer' = FALSE
  /\ UNCHANGED <<step, batch, done, previewVars, typed, kept, estimate, newest,
                 flightVars, askVars, boundVars>>

\* commit_summary_phase: the estimate of another destination is not shown.
Shown == IF estimate # None /\ estimate.place = Destination THEN estimate ELSE None

\* start_commit: the button waits for an estimate (can_copy).
StartCommit ==
  /\ screen = "summary" /\ Shown # None
  /\ Pass
  /\ screen' = "committing" /\ timer' = FALSE
  /\ NextGeneration
  /\ UNCHANGED <<step, batch, done, previewVars, typed, kept, estimate, newest>>

\* Mutant: the summary comes back without a question.
CancelCommitAsksNothing ==
  /\ screen = "committing"
  /\ screen' = "summary"
  /\ NextGeneration
  /\ UNCHANGED <<step, batch, done, previewVars, commitVars, boundVars>>

CancelCommit ==
  /\ screen = "committing"
  /\ screen' = "summary"
  /\ AskEstimate(<<>>) /\ busy' = {} /\ posts' = <<>>
  /\ UNCHANGED <<step, batch, done, previewVars, typed, kept, estimate, timer, newest,
                 boundVars>>

------------------------------------------------------------------------------
(* The pool and the UI queue.                                                 *)

Take ==
  /\ pool # <<>> /\ Cardinality(busy) < Workers
  /\ busy' = busy \cup {Head(pool)} /\ pool' = Tail(pool)
  /\ UNCHANGED <<screenVars, previewVars, commitVars, posts, askVars, boundVars>>

Answer(q) ==
  /\ q \in busy
  /\ busy' = busy \ {q} /\ posts' = Append(posts, q)
  /\ UNCHANGED <<screenVars, previewVars, commitVars, pool, askVars, boundVars>>

\* The call fails, and nobody is told.
AnswerFails(q) ==
  /\ q \in busy
  /\ busy' = busy \ {q}
  /\ missed' = IF q.no = asked[q.kind] THEN missed \cup {q.kind} ELSE missed
  /\ UNCHANGED <<screenVars, previewVars, commitVars, pool, posts, asked, boundVars>>

\* Mutant: any answer is published.
PublishAnyPreview ==
  /\ posts # <<>> /\ Head(posts).kind = "preview"
  /\ posts' = Tail(posts)
  /\ preview' = Head(posts)
  /\ UNCHANGED <<screenVars, sliders, lastRun, commitVars, pool, busy, askVars, boundVars>>

\* Only the answer to the newest question is published.
PublishPreview ==
  /\ posts # <<>> /\ Head(posts).kind = "preview"
  /\ posts' = Tail(posts)
  /\ preview' = IF Head(posts).no = asked["preview"] THEN Head(posts) ELSE preview
  /\ UNCHANGED <<screenVars, sliders, lastRun, commitVars, pool, busy, askVars, boundVars>>

\* Published on the summary if it is for the destination that is there now.
PublishEstimate ==
  /\ posts # <<>> /\ Head(posts).kind = "estimate"
  /\ posts' = Tail(posts)
  /\ LET q == Head(posts)
     IN IF screen = "summary" /\ q.place = Destination
        THEN /\ estimate' = q
             /\ newest' = IF q.no > newest THEN q.no ELSE newest
        ELSE UNCHANGED <<estimate, newest>>
  /\ UNCHANGED <<screenVars, previewVars, typed, kept, timer, pool, busy, askVars, boundVars>>

Next ==
  \/ \E s \in {"quality", "other"}, b \in Batches : StartBatchPass(s, b)
  \/ RerunQualityPass \/ FinishPass \/ LeavePass
  \/ \E to \in Settings : MoveSlider(to)
  \/ \E b \in Batches : ReviewBatchPass(b)
  \/ CloseBatchReview
  \/ \E set \in KeepSets : Choose(set)
  \/ ContinueFromBatches \/ BackFromDeletionReview \/ ContinueFromDeletionReview
  \/ \E value \in Places \cup {None} : SetDestination(value)
  \/ TimerRuns \/ BackFromSummary \/ StartCommit \/ CancelCommit
  \/ Take \/ \E q \in busy : Answer(q) \/ AnswerFails(q)
  \/ PublishPreview \/ PublishEstimate

Spec == Init /\ [][Next]_vars

------------------------------------------------------------------------------
(* Properties.                                                                *)

Quiet == InFlight = {} /\ ~timer

\* Whatever was moved while counts were under way on two threads: once they are in, the
\* line under the sliders is for where the sliders are, or for the last run, which was
\* made there - unless the last question got no answer (preview_seq_, and the reset when
\* a pass ends).
PreviewFollowsSliders ==
  screen = "review" /\ step = "quality" /\ Quiet /\ "preview" \notin missed =>
    IF preview = None THEN lastRun = sliders ELSE preview.sliders = sliders

\* The estimate that is there is older than one that was shown before.
Overtaken == estimate # None /\ estimate.no < newest

\* Whatever was typed, kept, started and cancelled on the way: once the answers are in,
\* the summary shows an estimate, and it is for its destination and for the photos that
\* are kept now - unless the last call failed, or an older answer came last
\* (request_estimate_now, refresh_commit_estimate, commit_summary_phase).
EstimateFollowsSummary ==
  screen = "summary" /\ Quiet /\ "estimate" \notin missed /\ ~Overtaken =>
    Shown # None /\ Shown.kept = kept

\* frontend.md: the line shows how many images the sliders would flag in this batch.
PreviewIsOfThisBatch ==
  screen = "review" /\ step = "quality" /\ preview # None => preview.batch = batch

\* frontend.md: [Copy] is disabled until space availability is confirmed.
EstimateIsOfThisCopy == screen = "summary" /\ Quiet /\ Shown # None => Shown.kept = kept
===============================================================================
