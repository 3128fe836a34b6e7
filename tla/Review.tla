-------------------------------- MODULE Review --------------------------------
(***************************************************************************)
(* The batch menu of the wizard (gui/core/wizard_controller_batches.cpp),  *)
(* the passes it runs on one batch or on all of them, the choices made in  *)
(* their reviews, and what the four passes leave in the session database   *)
(* (backend/src/service/*_pass.cpp) for a later launch to resume from.     *)
(*                                                                         *)
(* How a stream travels is StreamClient's and PassStream's subject.  Here  *)
(* a call is a request that the engine takes, works off, stores and ends,  *)
(* while its flags reach the wizard one at a time and later; a call that   *)
(* was cancelled goes on in the engine, unheard.                           *)
(***************************************************************************)
EXTENDS Deletion, FiniteSets, SequencesExt

CONSTANTS
  Videos,      (* the videos among Photos                                     *)
  Keys, Place, (* the batch keys, and the place of each in batch order        *)
  NoKey,
  Lookalikes,  (* the photos that are similar to one another: disjoint sets   *)
  Layouts,     (* the ways photos are laid out in trip folders, by batch key  *)
  Steps,       (* the passes that are run                                     *)
  Workers,     (* threads of the app's worker_pool                            *)
  Faults,      (* whether passes are cancelled or fail                        *)
  Resumes,     (* whether the app is closed and the session resumed           *)
  MaxRuns,     (* bound: runs the user starts                                 *)
  MaxChoices   (* bound: choices the user makes                               *)

StepNames == {"quality", "duplicates", "junk", "video"}
NoStep == "none"

ASSUME GroupIdAssumption == GroupIds = 0 .. Cardinality(GroupIds) - 1
ASSUME LayoutAssumption ==
  /\ Videos \subseteq Photos
  /\ NoKey \notin Keys /\ Place \in [Keys -> Nat]
  /\ \A l \in Layouts : \A k, m \in Keys :
       l[k] \subseteq Photos /\ (k # m => l[k] \cap l[m] = {})
  /\ \A l, m \in Lookalikes : l \subseteq Photos /\ (l # m => l \cap m = {})
ASSUME StepAssumption == Steps \subseteq StepNames
ASSUME BoundAssumption ==
  Workers \in Nat \ {0} /\ MaxRuns \in Nat /\ MaxChoices \in Nat

VARIABLES
  screen,    (* the phase                                                     *)
  step,      (* the pass of a running, prep or review phase                   *)
  active,    (* active_batch_                                                 *)
  queue,     (* run_all_queue_: batches, taken in batch order                 *)
  runAll,    (* run_all_step_                                                 *)
  plan,      (* the trip folders and the photos in no trip                    *)
  batches,   (* batches_: {} where a key has no batch                         *)
  flags,     (* flags_                                                        *)
  intent,    (* intent_                                                       *)
  marked,    (* deleted_ids_                                                  *)
  progress,  (* progress_.batches                                             *)
  model,     (* model_ready_                                                  *)
  calls,     (* the pass calls not yet over                                   *)
  saves,     (* persist_decisions tasks of the pool, oldest first             *)
  store,     (* the session database                                          *)
  runs, choices,  (* counted for the bounds                                   *)
  covered,   (* history: the photos of the finished runs of each pass         *)
  unread     (* history: flags of runs that ended well that nobody was told   *)

menuVars == <<screen, step, active, queue, runAll, batches>>
resultVars == <<flags, intent, marked, progress>>
boundVars == <<runs, choices>>
vars == <<menuVars, plan, resultVars, model, calls, saves, store, boundVars, covered, unread>>

Batches == {k \in Keys : batches[k] # {}}
Done(s, k) == <<s, k>> \in progress

CallRecords ==
  [step : StepNames, key : Keys, scope : SUBSET Photos, skip : SUBSET Photos,
   heard : BOOLEAN, state : {"asked", "working", "stored", "ended", "error"},
   work : SUBSET Photos, whole : BOOLEAN, found : SUBSET (Photos \cup Groups),
   todo : SUBSET (Photos \cup Groups)]

TypeOK ==
  /\ screen \in {"trips", "menu", "running", "prep", "review", "final", "failed"}
  /\ step \in StepNames \cup {NoStep}
  /\ active \in Keys \cup {NoKey}
  /\ queue \subseteq Keys
  /\ runAll \in StepNames \cup {NoStep}
  /\ plan \in Layouts
  /\ batches \in [Keys -> SUBSET Photos]
  /\ flags \in Flags /\ intent \in Intents /\ marked \subseteq Photos
  /\ progress \subseteq StepNames \X Keys
  /\ model \in BOOLEAN
  /\ calls \subseteq CallRecords
  /\ \A c, d \in calls : c.heard /\ d.heard => c = d
  /\ saves \in Seq(Intents)
  /\ store \in [flags : Flags, seen : SUBSET Photos, intent : Intents,
               done : SUBSET (StepNames \X Keys)]
  /\ runs \in 0 .. MaxRuns /\ choices \in 0 .. MaxChoices
  /\ covered \in [StepNames -> SUBSET Photos]
  /\ unread \in Flags

EmptyStore == [flags |-> NoFlags, seen |-> {}, intent |-> Undecided, done |-> {}]

Init ==
  /\ screen = "trips" /\ step = NoStep
  /\ active = NoKey /\ queue = {} /\ runAll = NoStep
  /\ plan \in Layouts
  /\ batches = [k \in Keys |-> {}]
  /\ flags = NoFlags /\ intent = Undecided /\ marked = {} /\ progress = {}
  /\ model \in BOOLEAN
  /\ calls = {} /\ saves = <<>> /\ store = EmptyStore
  /\ runs = 0 /\ choices = 0
  /\ covered = [s \in StepNames |-> {}]
  /\ unread = NoFlags

------------------------------------------------------------------------------
(* Batches.                                                                   *)

\* enter_batch_mode: marked photos have left their trips (trips_plan).
EnterBatchMode(gone) ==
  /\ batches' = [k \in Keys |-> plan[k] \ gone]
  /\ active' = NoKey /\ queue' = {} /\ runAll' = NoStep

ReturnToMenu ==
  /\ screen' = "menu" /\ step' = NoStep
  /\ active' = NoKey /\ queue' = {} /\ runAll' = NoStep

ContinueFromTrips ==
  /\ screen = "trips"
  /\ EnterBatchMode(marked)
  /\ screen' = "menu" /\ step' = NoStep
  /\ UNCHANGED <<plan, resultVars, model, calls, saves, store, boundVars, covered, unread>>

\* Photos are moved between trips by hand.
EditTrips ==
  /\ screen = "trips"
  /\ plan' \in Layouts
  /\ UNCHANGED <<menuVars, resultVars, model, calls, saves, store, boundVars, covered, unread>>

\* Mutant: the finished passes stay finished for the new batches.
ReopenKeepsProgress ==
  /\ screen = "menu"
  /\ screen' = "trips" /\ active' = NoKey
  /\ UNCHANGED <<step, queue, runAll, batches, plan, resultVars, model, calls,
                 saves, store, boundVars, covered, unread>>

ReopenOrganize ==
  /\ screen = "menu"
  /\ screen' = "trips" /\ active' = NoKey /\ progress' = {}
  /\ UNCHANGED <<step, queue, runAll, batches, plan, flags, intent, marked, model,
                 calls, saves, store, boundVars, covered, unread>>

------------------------------------------------------------------------------
(* Starting a pass.                                                           *)

\* The flags a pass fills.
FlagsOf(s) == IF s = "duplicates" THEN "similar" ELSE s

Touching(groups, scope) == {g \in groups : g.members \cap scope # {}}

\* Mutant: a group goes only when all of its photos are in the batch.
ClearedInside(fl, s, scope) ==
  CASE s = "quality"    -> [fl EXCEPT !.quality = @ \ scope]
    [] s = "duplicates" ->
         [fl EXCEPT !.similar = @ \ {g \in @ : g.members \subseteq scope}]
    [] OTHER            -> fl

\* Quality and duplicates work their batch off anew; the flags of the other two
\* stay, as do the rows that spare them the work.
ClearedFor(fl, s, scope) ==
  CASE s = "quality"    -> [fl EXCEPT !.quality = @ \ scope]
    [] s = "duplicates" -> [fl EXCEPT !.similar = @ \ Touching(@, scope)]
    [] OTHER            -> fl

SkipFor(s, fl) ==
  CASE s = "quality"    -> {}
    [] s = "duplicates" -> DeletedBeforeSimilar(intent, fl)
    [] s = "junk"       -> DeletedBeforeJunk(intent, fl)
    [] s = "video"      -> DeletedBeforeVideo(intent, fl)

\* start_*_pass on the batch k, beside the calls that go on.
Launch(s, k, others) ==
  LET scope == batches[k]
      fl == ClearedFor(flags, s, scope)
  IN  /\ screen' = "running"
      /\ flags' = fl /\ unread' = ClearedFor(unread, s, scope)
      /\ calls' = others \cup
           {[step |-> s, key |-> k, scope |-> scope, skip |-> SkipFor(s, fl),
             heard |-> TRUE, state |-> "asked", work |-> {}, whole |-> FALSE,
             found |-> {}, todo |-> {}]}

\* begin_pass: the junk pass may have to wait for the model.
BeginPass(s, k, others) ==
  /\ step' = s /\ active' = k
  /\ IF s = "junk" /\ ~model
     THEN screen' = "prep" /\ calls' = others /\ UNCHANGED <<flags, unread>>
     ELSE Launch(s, k, others)

UserStarts == runs < MaxRuns /\ runs' = runs + 1

\* start_batch_pass, with the select_batch before it.
StartBatchPass(s, k) ==
  /\ screen = "menu" /\ k \in Batches
  /\ UserStarts
  /\ queue' = {} /\ runAll' = NoStep
  /\ BeginPass(s, k, calls)
  /\ UNCHANGED <<batches, plan, intent, marked, progress, model, saves, store,
                 choices, covered>>

\* The first in batch order of a set of batches.
FirstOf(keys) == CHOOSE k \in keys : \A m \in keys : Place[k] <= Place[m]

StartOnAll(s, pending, rest) ==
  /\ screen = "menu" /\ pending # {}
  /\ UserStarts
  /\ runAll' = s /\ queue' = rest
  /\ BeginPass(s, FirstOf(pending), calls)
  /\ UNCHANGED <<batches, plan, intent, marked, progress, model, saves, store,
                 choices, covered>>

\* Mutant: the queue starts one batch too far.
StartOnAllSkipsOne(s) ==
  LET pending == {k \in Batches : ~Done(s, k)}
      rest == pending \ {FirstOf(pending)}
  IN  StartOnAll(s, pending, rest \ {FirstOf(rest)})

StartPassOnAllBatches(s) ==
  LET pending == {k \in Batches : ~Done(s, k)}
  IN  StartOnAll(s, pending, pending \ {FirstOf(pending)})

\* rerun_quality_pass, after a threshold moved.
RerunQualityPass ==
  /\ screen = "review" /\ step = "quality"
  /\ UserStarts
  /\ Launch("quality", active, calls)
  /\ UNCHANGED <<step, active, queue, runAll, batches, plan, intent, marked,
                 progress, model, saves, store, choices, covered>>

\* set_model_ready: a junk pass that waits starts.
SetModelReady ==
  /\ ~model /\ model' = TRUE
  /\ IF screen = "prep" THEN Launch("junk", active, calls)
     ELSE UNCHANGED <<screen, flags, calls, unread>>
  /\ UNCHANGED <<step, active, queue, runAll, batches, plan, intent, marked,
                 progress, saves, store, boundVars, covered>>

CancelJunkPrep ==
  /\ screen = "prep"
  /\ ReturnToMenu
  /\ UNCHANGED <<batches, plan, resultVars, model, calls, saves, store, boundVars,
                 covered, unread>>

------------------------------------------------------------------------------
(* The engine's side of a call.                                               *)

Becomes(c, d) == calls' = (calls \ {c}) \cup {d}

\* The pass that has the lock: a call that is stored but not over still does.
Working == {c \in calls : c.state \in {"working", "stored"}}

\* The photos whose verdict the pass works out.  A photo with a row in junk_flags
\* or video_flags is not classified again.
WorkOf(c) ==
  CASE c.step = "quality"    -> c.scope \ Videos
    [] c.step = "duplicates" -> c.scope \ c.skip
    [] c.step = "junk"       -> (c.scope \ Videos) \ (store.seen \cup c.skip)
    [] c.step = "video"      -> (c.scope \cap Videos) \ (store.seen \cup c.skip)

\* Group ids number on from the highest id stored.
FirstGroupId(groups) ==
  IF groups = {} THEN 0 ELSE Max({g.id : g \in groups}) + 1

\* find_similar_images among the photos, numbered from base, each with the member
\* that scored best: scores come from sharpness and faces and are left open.
Groupings(photos, base) ==
  LET kin == {l \cap photos : l \in Lookalikes} \ ({{}} \cup {{p} : p \in photos})
      keeps == {k \in [kin -> photos] : \A m \in kin : k[m] \in m}
      Numbered(n) ==
        {{[id |-> base + n[m], members |-> m, keep |-> k[m]] : m \in kin} : k \in keeps}
  IN  UNION {Numbered(n) : n \in Injection(kin, 0 .. Cardinality(kin) - 1)}

\* What the pass can find in its work: flagged photos or groups.
Findings(c, work) ==
  IF c.step = "duplicates"
  THEN {G \in Groupings(work, FirstGroupId(store.flags.similar)) : \A g \in G : g.id \in GroupIds}
  ELSE SUBSET work

EngineStep ==
  UNCHANGED <<menuVars, plan, resultVars, model, saves, boundVars, covered>>

\* The single-pass lock is free: the request is taken.
Accept(c) ==
  /\ c.state = "asked" /\ Working = {}
  /\ \E found \in Findings(c, WorkOf(c)) :
       Becomes(c, [c EXCEPT !.state = "working", !.work = WorkOf(c),
                            !.found = found, !.todo = found])
  /\ UNCHANGED <<store, unread>> /\ EngineStep

\* Mutant: the duplicate pass leaves the batch's old groups in the table.
StoredBesideOldGroups(c, rows) ==
  IF c.step = "quality"
  THEN [store EXCEPT !.flags.quality = (@ \ rows) \cup (c.found \cap rows)]
  ELSE IF c.step = "duplicates"
  THEN [store EXCEPT !.flags.similar = @ \cup c.found]
  ELSE [store EXCEPT !.flags[c.step] = @ \cup (c.found \cap rows), !.seen = @ \cup rows]

\* What the rows of some of the work make of the database.
Stored(c, rows) ==
  IF c.step = "quality"
  THEN [store EXCEPT !.flags.quality = (@ \ rows) \cup (c.found \cap rows)]
  ELSE IF c.step = "duplicates"
  THEN [store EXCEPT !.flags.similar = (@ \ Touching(@, c.scope)) \cup c.found]
  ELSE [store EXCEPT !.flags[c.step] = @ \cup (c.found \cap rows), !.seen = @ \cup rows]

\* Junk and video rows are written as the pass goes ...
Checkpoint(c) ==
  /\ c.state = "working" /\ c.step \in {"junk", "video"}
  /\ \E rows \in SUBSET c.work :
       rows # {} /\ ~(rows \subseteq store.seen) /\ store' = Stored(c, rows)
  /\ UNCHANGED <<calls, unread>> /\ EngineStep

\* ... and the results of a run at its end: all of them, or what a cancelled run
\* got to.  The duplicate pass does not look at its stop token.
StoreResults(c) ==
  /\ c.state = "working"
  /\ \E rows \in SUBSET c.work :
       /\ c.heard \/ c.step = "duplicates" => rows = c.work
       /\ store' = Stored(c, rows)
       /\ Becomes(c, [c EXCEPT !.state = "stored", !.whole = c.heard])
  /\ UNCHANGED unread /\ EngineStep

\* The call is over: a run that ended well is stamped.  A cancelled one is too
\* when the cancel came after its stream had ended.  stream_pass may say ok with
\* events still in its queue (PassStream): nobody reads those.
EndCall(c) ==
  /\ c.state = "stored"
  /\ \E stamp \in BOOLEAN :
       /\ c.heard => stamp
       /\ stamp => c.whole
       /\ store' = IF stamp THEN [store EXCEPT !.done = @ \cup {<<c.step, c.key>>}]
                   ELSE store
  /\ IF c.heard
     THEN \E lost \in SUBSET c.todo :
            /\ Becomes(c, [c EXCEPT !.state = "ended", !.todo = @ \ lost])
            /\ unread' = [unread EXCEPT ![FlagsOf(c.step)] = @ \cup lost]
     ELSE calls' = calls \ {c} /\ UNCHANGED unread
  /\ EngineStep

\* The lock is taken, or the pass fails after some of its events.
FailCall(c) ==
  /\ \/ c.state = "asked" /\ Working # {}
     \/ c.state = "working" /\ Faults
  /\ IF c.heard
     THEN \E sent \in SUBSET c.todo :
            Becomes(c, [c EXCEPT !.state = "error", !.todo = sent])
     ELSE calls' = calls \ {c}
  /\ UNCHANGED <<store, unread>> /\ EngineStep

Engine ==
  \E c \in calls :
    Accept(c) \/ Checkpoint(c) \/ StoreResults(c) \/ EndCall(c) \/ FailCall(c)

------------------------------------------------------------------------------
(* What the wizard hears of its call.                                         *)

\* Assigning the new subscription joins the old one's worker on the UI thread.
Waiting == screen = "running" /\ \E c \in calls : ~c.heard

DeliverFlag(c, f) ==
  /\ c.heard /\ f \in c.todo
  /\ screen = "running" /\ ~Waiting
  /\ flags' = [flags EXCEPT ![FlagsOf(c.step)] = @ \cup {f}]
  /\ Becomes(c, [c EXCEPT !.todo = @ \ {f}])
  /\ UNCHANGED <<menuVars, plan, intent, marked, progress, model, saves, store,
                 boundVars, covered, unread>>

\* finish_batch_run: record it, then the next queued batch, the menu at the end
\* of a run on all batches, or the review.
FinishBatchRun(c, others) ==
  /\ progress' = progress \cup {<<c.step, active>>}
  /\ IF runAll # c.step
     THEN screen' = "review" /\ calls' = others
          /\ UNCHANGED <<step, active, queue, runAll, flags, unread>>
     ELSE IF queue # {}
     THEN BeginPass(c.step, FirstOf(queue), others)
          /\ queue' = queue \ {FirstOf(queue)} /\ UNCHANGED runAll
     ELSE ReturnToMenu /\ calls' = others /\ UNCHANGED <<flags, unread>>

\* A pass's on_done without an error, after its events.
OnDone(c) ==
  /\ c.heard /\ c.state = "ended" /\ c.todo = {}
  /\ screen = "running" /\ ~Waiting
  /\ marked' = DeletedIds(intent, flags)
  /\ FinishBatchRun(c, calls \ {c})
  /\ covered' = [covered EXCEPT ![c.step] = @ \cup c.scope]
  /\ UNCHANGED <<batches, plan, intent, model, saves, store, boundVars>>

\* fail: the run on all batches is not given up before the user goes back.
OnError(c) ==
  /\ c.heard /\ c.state = "error" /\ c.todo = {}
  /\ screen = "running" /\ ~Waiting
  /\ screen' = "failed" /\ calls' = calls \ {c}
  /\ UNCHANGED <<step, active, queue, runAll, batches, plan, resultVars, model,
                 saves, store, boundVars, covered, unread>>

GoBackFromError ==
  /\ screen = "failed"
  /\ ReturnToMenu
  /\ UNCHANGED <<batches, plan, resultVars, model, calls, saves, store, boundVars,
                 covered, unread>>

\* cancel_pass: nothing more is heard of the call; the flags stay as they are.
CancelPass ==
  /\ Faults
  /\ screen = "running" /\ ~Waiting
  /\ ReturnToMenu
  /\ calls' = {[c EXCEPT !.heard = FALSE, !.todo = {}] :
                  c \in {d \in calls : d.state \notin {"ended", "error"}}}
  /\ UNCHANGED <<batches, plan, resultVars, model, saves, store, boundVars, covered, unread>>

Listen ==
  \E c \in calls : OnDone(c) \/ OnError(c) \/ \E f \in c.todo : DeliverFlag(c, f)

------------------------------------------------------------------------------
(* Reviews and choices.                                                       *)

\* The menu offers the review of a pass that the batch has finished.
ReviewBatchPass(s, k) ==
  /\ screen = "menu" /\ k \in Batches /\ Done(s, k)
  /\ screen' = "review" /\ step' = s /\ active' = k
  /\ UNCHANGED <<queue, runAll, batches, plan, resultVars, model, calls, saves,
                 store, boundVars, covered, unread>>

CloseBatchReview ==
  /\ screen = "review"
  /\ ReturnToMenu
  /\ UNCHANGED <<batches, plan, resultVars, model, calls, saves, store, boundVars,
                 covered, unread>>

ContinueFromBatches ==
  /\ screen = "menu"
  /\ screen' = "final" /\ active' = NoKey
  /\ UNCHANGED <<step, queue, runAll, batches, plan, resultVars, model, calls,
                 saves, store, boundVars, covered, unread>>

BackFromDeletionReview ==
  /\ screen = "final"
  /\ screen' = "menu"
  /\ UNCHANGED <<step, active, queue, runAll, batches, plan, resultVars, model,
                 calls, saves, store, boundVars, covered, unread>>

\* deletion_changed: recompute, and hand the whole intent to the pool.
Choose(new) ==
  /\ choices < MaxChoices /\ choices' = choices + 1
  /\ intent' = new
  /\ marked' = DeletedIds(new, flags)
  /\ saves' = Append(saves, new)
  /\ UNCHANGED <<menuVars, plan, flags, progress, model, calls, store, runs, covered, unread>>

\* marked_by_batch: what the final review lists.
Listed == marked \cap UNION {batches[k] : k \in Keys}

FlaggedInScope ==
  IF step = "duplicates" THEN {} ELSE flags[step] \cap batches[active]

KeepImage ==
  \E p \in IF screen = "final" THEN Listed ELSE batches[active] :
    Choose(WithKept(intent, p))
MarkImage ==
  screen = "review" /\ \E p \in batches[active] : Choose(WithMarked(intent, p))
KeepAllFlagged == screen = "review" /\ Choose(WithKeepAll(intent, FlaggedInScope))
MarkAllFlagged == screen = "review" /\ Choose(WithMarkAll(intent, FlaggedInScope))
SetGroupKeeper ==
  /\ screen = "review" /\ step = "duplicates"
  /\ \E g \in Touching(flags.similar, batches[active]) : \E p \in g.members :
       Choose(WithKeeper(intent, g.id, p))

UserChooses ==
  \/ screen \in {"review", "final"} /\ KeepImage
  \/ MarkImage \/ KeepAllFlagged \/ MarkAllFlagged \/ SetGroupKeeper

\* A thread of the pool runs one of the tasks it took off the front; with two
\* threads the later one may be first.  Group keepers are saved when there are
\* any, and none is ever taken back.
RunSave ==
  /\ \E i \in 1 .. Len(saves) :
       /\ i <= Workers
       /\ saves' = RemoveAt(saves, i)
       /\ store' = [store EXCEPT !.intent = saves[i]]
  /\ UNCHANGED <<menuVars, plan, resultVars, model, calls, boundVars, covered, unread>>

------------------------------------------------------------------------------
\* The app is closed, which runs the queued tasks, and opened again, and the
\* session resumed: apply_session_results and on_trips_done.
Resume ==
  /\ Resumes /\ saves = <<>>
  /\ calls' = {}
  /\ flags' = store.flags /\ intent' = store.intent /\ progress' = store.done
  /\ marked' = DeletedIds(intent', flags')
  /\ EnterBatchMode(marked')
  /\ screen' = "menu" /\ step' = NoStep
  /\ model' = FALSE /\ unread' = NoFlags
  /\ UNCHANGED <<plan, saves, store, boundVars, covered>>

Menu ==
  \/ ContinueFromTrips \/ EditTrips \/ ReopenOrganize
  \/ \E s \in Steps : \/ StartPassOnAllBatches(s)
                      \/ \E k \in Keys : StartBatchPass(s, k) \/ ReviewBatchPass(s, k)
  \/ RerunQualityPass \/ CancelJunkPrep \/ GoBackFromError \/ CancelPass
  \/ CloseBatchReview \/ ContinueFromBatches \/ BackFromDeletionReview

Next ==
  Menu \/ SetModelReady \/ UserChooses \/ RunSave \/ Engine \/ Listen \/ Resume

Spec == Init /\ [][Next]_vars

------------------------------------------------------------------------------
\* Whatever the passes flag, in whatever order they run, are cancelled and are
\* run again: a photo the user kept is not among the deleted and one the user
\* marked is (deletion.h, the order of rules; recompute_deleted).
ChoicesWin == intent.kept \cap marked = {} /\ intent.deleted \subseteq marked

\* similar_keeper_map can keep one keeper for a photo, so no photo may be in two
\* of the groups shown, nor in two of those stored, when batches are laid out
\* anew and runs are cancelled half way (start_similar_pass, run_similar_pass).
DisjointGroups(groups) ==
  \A g, h \in groups : g # h => g.members \cap h.members = {}
GroupsDisjoint == DisjointGroups(flags.similar) /\ DisjointGroups(store.flags.similar)

\* A run on all batches forgets none: until it is over, every batch has finished
\* the pass, is in it or is queued (start_pass_on_all_batches, finish_batch_run).
RunAllForgetsNone ==
  runAll # NoStep =>
    \A k \in Batches : Done(runAll, k) \/ k = active \/ k \in queue

\* A batch the menu calls finished had each of its photos in a run that ended,
\* after trips were edited too (pass_progress, reopen_organize).
DoneMeansCovered ==
  screen \notin {"trips"} =>
    \A k \in Batches : \A s \in StepNames : Done(s, k) => batches[k] \subseteq covered[s]

\* When no pass is under way and none was cancelled or failed, the screen shows no
\* flag that a resume would not bring back, and lacks only those that the stream of
\* a run that ended well left unread, until the batch is run again or the session
\* resumed.
ShownIsStored ==
  calls = {} => \A x \in {"quality", "junk", "video", "similar"} :
    /\ flags[x] \subseteq store.flags[x]
    /\ store.flags[x] \subseteq flags[x] \cup unread[x]

\* similar_pass.cpp: "Group ids stay unique across batch runs".  So a keeper
\* chosen for one group never applies to another, and a group keeps a photo.
GroupKeepsOne ==
  \A g \in flags.similar : KeeperOf(intent, g) \in g.members

===============================================================================
