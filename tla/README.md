# A formal model of Kustavi

Kustavi is a photo curation wizard. One process holds a GUI and, linked into it, an
engine that scans a folder, runs analysis passes over its photos, keeps their results and
the user's decisions in a session database, and copies what is kept to a destination.
This directory holds TLA+ modules of its logic, the TLC configurations that check them on
small instances, and TLAPS proofs.

## The system

| component | state | operations | hard behaviour | modules |
|---|---|---|---|---|
| streaming calls (`backend/include/engine.h`, `event_queue.h`, `status.h`) | single-pass lock, per call an event queue, a stop source, an exception, a request context | begin, produce, push, wait, write, cancel, close, join, stamp | two threads per call, a third that cancels, an end that races the last events | `PassStream`, `OrderedStream` |
| session database (`backend/src/store`) | tables of one folder, one connection for every thread | open, close, BEGIN, COMMIT, ROLLBACK, statements | a transaction belongs to the connection and not to a thread; crashes between statements; reopening under a running save | `SessionStore` |
| scan and resume (`scan_folder.cpp`, `session_resume.cpp`, `downscaler.cpp`) | active session, its folder | scan afresh, resume, stop, save, read results | a failing step of several; partial index | `SessionStore`, `Analysis`, `Wizard` |
| analysis passes (`quality`, `similar`, `junk`, `video`) | rows per photo, stamps, groups | run over all or one batch, skip, checkpoint, stop, preview | runs that replace, keep or cut short what others left | `Analysis`, `Measures` |
| trips and repair passes (`pass/trips.cpp`, `pass/repair.cpp`) | dates, positions, clusters | run, stop | repairs of repairs; sequential grouping at its edges | `Repair`, `Trips`, `Library` |
| commit (`commit_pass.cpp`, `pass/commit.cpp`, `related_files.cpp`) | destination tree | estimate, copy, merge | copies that fail one by one, colliding names, repeated commits | `Commit` |
| model download (`junk_pass.cpp`, `net/model_download.cpp`, `gui/core/model_status.cpp`) | model mutex, files and `.part` files, what the screen shows | ensure, resume, verify, install, cancel, retry | a mutex held through a download; partial files of a crash | `ModelDownload` |
| engine client (`gui/core/engine_client`, `kustavi_client`, `ui_queue`, `ui_scope`) | subscription, control block, task queue, generation | start, cancel, replace, post, drain | worker against UI thread; posts of operations that are over | `StreamClient` |
| wizard (`gui/core/wizard_controller*`) | phase, plan, batches, results, intents, sliders, destination | every user action and every event | long sequences of legal actions; cancel, errors, resume | `Wizard`, `Review`, `Answers` |
| deletion rules, batches, trip plan and edits (`gui/core`) | intents, groups, plan | toggle, keep, mark, move, rename, save, lay back | combinations of rules; edits over another clustering | `Deletion`, `TripPlan`, `Review` |
| worker pool and timer (`gui/core`) | task queue, one timer | submit, run, run dry, fire | order of saves, late answers | `Review`, `Wizard`, `Answers` |
| image analysis, EXIF, places | none | pure computations | the rules on what is measured | `Measures` |
| GUI application (`gui/app`), build, packaging | widgets | presentation | none here | |

They interact like this. The wizard, on the UI thread, starts a pass through the client.
The client's worker makes the engine call; the call takes the lock, starts a producer
thread and drains the producer's queue into a writer, which hands every event to the
wizard's handlers; the handlers post to the UI queue, and the UI thread drains that. The
producer writes its results to the session database over the one connection, which saves
of the wizard, on a pool of two threads, use at the same time. Previews and estimates are
questions that go through the same pool and come back as posts.

What makes each part correct:

* Streaming calls: one pass at a time, until its producer is gone; no event lost,
  repeated or reordered; a stamp only for a whole run; every call returns.
* Session database: a transaction is ended by the thread that began it; decisions are
  replaced as a whole; stamps vouch for rows; a crash never leaves half an index; the
  decisions of a folder stay in it.
* Client: the wizard applies the events of the pass it shows and of no other; a pass
  that reports done is done; a cancel reaches only a live context; the UI thread is never
  stuck in a join.
* Review and deletion rules: a photo the user kept is never deleted; a run on all batches
  covers all of them; a batch that counts as finished was looked at; no photo is in two
  duplicate groups; a resume brings back what was shown.
* The wizard around it: every photo has its place in the plan; the session on disk follows
  the screen; a resume brings the edits back.
* Answers: what is shown is for what is set, once the answers are in.
* Passes: what a resume reads is what was streamed; a preview counts what a run finds; a
  stop loses nothing; the search tree misses no neighbour unless the distances break the
  triangle inequality.
* Repair and trips: a repair is a function of the files and not of earlier repairs; a
  position is borrowed from a nearest photo; trips are cut where there is a reason to.
* Commit: whole files are never touched; what the summary counts is there; related files
  come along; a commit run again heals what others left.
* Model download: the junk pass starts with verified files, is answered, and the wait ends
  unless its last event is left unread.

## The modules

| module | models | extends or uses |
|---|---|---|
| `OrderedStream` | what a reader of a stream is promised: events in order, none after the end | |
| `PassStream` | a streaming call: lock, calling thread, producer thread, queue | `OrderedStream` by refinement |
| `SessionStore` | the folders' databases, the shared connection, scans, an analysis, saves, crashes | |
| `StreamClient` | the wizard's stream, its workers, the UI queue and the scope | |
| `Deletion` | the rules that decide which photos are deleted or skipped; no state | |
| `Review` | the batch menu, runs on one or all batches, reviews, choices, what the passes store, resume | `Deletion` |
| `TripPlan` | the trip layout, its edits and the form a session keeps them in; no state | |
| `Wizard` | the wizard from the folder to the copy, saves, resume, errors, closing and crashes | `TripPlan` |
| `Answers` | previews and estimates: asking, two threads, late answers | |
| `Measures` | what the analysis passes decide from measures: reasons, search tree, clusters, scores; no state | |
| `Analysis` | the four analysis passes over the session's rows, and reading them back | `Measures` |
| `Repair` | the repair pass | |
| `Trips` | the trips pass | |
| `Library` | repairs, then trips, over one index | `Repair`; instantiates `Trips` |
| `Commit` | the commit pass over a destination that earlier ones filled | |
| `ModelDownload` | `ensure_model`, its files, the wait for it, the junk pass that needs it | |
| `MC*` | small instances: `MCPassStream`, `MCSessionStore`, `MCStreamClient`, `MCReview`, `MCWizard`, `MCAnswers`, `MCAnalysis`, `MCLibrary`, `MCCommit`, `MCModelDownload` | the module each is named after |
| `PassProofs` | theorems about a pass: the call that runs it, what it writes, what is read of it | `PassStream`, `Repair`, `Analysis`, `TLAPS` |
| `SessionStoreProofs`, `StreamClientProofs`, `ReviewProofs`, `CommitProofs`, `ModelDownloadProofs`, `AnswersProofs`, `WizardProofs` | theorems | the module each is named after, `TLAPS` |

`PassStream`, `SessionStore` and `StreamClient` work out threads statement by statement.
The others stand one level above them: in `Review`, `Wizard` and `Answers` a call is a
record or a task that goes through the states those three allow (it is asked, it works, it
is heard or no longer heard, it ends late), and a pass in `Analysis`, `Repair`, `Trips` and
`Commit` is what its producer does.

Every module keeps beside its actions the mutants of them that its properties are tried
against; a mutant is marked as such and takes no part in `Next`. No module declares a
RECURSIVE operator: the search tree is an array of nodes in the order of their insertion, and
what the code does by recursion is a recursive function over their numbers.

### PassStream

`passActive` is `engine::pass_active_`. Per call, `pc` and `ppc` say where the calling
thread and the producer are, `queue` and `closed` are the `event_queue`, `ev` is the local
of `stream_pass`, `stop`, `failed` and `cancelled` are the stop source, the exception and
the request context. `Wait`, `SeeCancel`, `CheckContext`, `Write`, `WriteRefused` and
`CheckClosed` are the visits of one turn of `stream_pass`'s loop to the queue, the context
and the writer: other threads run between any two of them. `wait` returns nothing both
when the queue is closed and after 200 ms, so the model lets it return nothing whenever the
queue is empty. What a pass computes is `Push` (an event), `Persist` (its commit),
`PushComplete`, `StopEarly` and `Throw`. `Passes` are the calls that take the lock,
`ensure_model` is the one that does not, and `Recording` are the passes that end in
`record_run_complete`.

### SessionStore

`disk` is what each folder's database holds after a crash, `work` what the connection
sees, `tx` the thread whose `BEGIN` is open. One action is one SQL statement, because the
connection is in serialized mode. A statement outside a transaction commits at once, and
one inside another thread's transaction shares its fate. A statement that fails leaves the open
transaction as it was, or SQLite rolls it back by itself, as it does for a full disk, an I/O
error or no memory, whose ever it is (`Fails`; `undone` remembers it). The thread whose
transaction that was goes on all the same: its `ROLLBACK`, or the rows and the `COMMIT` that
it still has to write, then meet no transaction or another thread's.

`due` are the photos that an analysis has to store a row for: those of its scope that it does
not skip and that turn out to be readable. Any subset of the index may be due. The analysis
stands for the quality, junk and video passes; what the similar pass stores, groups and no row
per photo, is in `Analysis`. `stamped` is what the stamps say: the photos that the runs
stamped had due. `StartScan` is `database::close`: it ends the open transaction, and a save that
had its insert statement prepared goes on writing to a handle that is already dead (`orphan`).
`OpenDatabase`, `ResetImages`, `ResetState` and `Activate` follow `scan_folder`. The foreign
keys take a photo's rows with it and refuse a decision about a photo that is not indexed. The
thresholds, trip parameters and keepers that are saved like the step are left out, and so are
the schema migrations.

Two switches are assumptions and not code. `Overlap` says whether a scan may start while a save
is still running: nothing in the code prevents it, the wizard only stops *submitting* saves
before a scan (`persist_decisions`). `Faults` says whether a statement may fail by itself (a
full disk, an I/O error, a locked database).

### StreamClient

`op` is what the wizard shows, `held` its `pass_`, `generation` that of its `ui_scope`. In
`LaunchPass` the new stream's worker starts before the subscription is moved into `pass_`;
`AssignCancels` and `AssignJoins` are the two halves of `operator=`. `Drain` takes all
tasks of the queue and `RunTask` runs them one at a time, each of which may start the next
pass (a run on all batches). The engine's side is the lock and an arbitrary end.

### Deletion and Review

`Deletion` has `deletion.cpp` as operators: an intent is what the user decided (`kept`,
`deleted`, the keeper per group id), flags are what the passes found, `IsMarked` is the
order of the rules. `with_toggle` is a `WithKept` or a `WithMarked`.

In `Review`, `screen`, `step` and `active` are the wizard's phase and `active_batch_`;
`queue` and `runAll` are `run_all_queue_` and `run_all_step_` (the queue is always in batch
order, so a set with `FirstOf` is enough); `flags`, `intent`, `marked` and `progress` are
`flags_`, `intent_`, `deleted_ids_` and `progress_.batches`. `store` is what a resume reads:
the flag tables, the rows that say a photo was classified (`seen`), the saved intent and the
stamps. A call is one streamed pass: `asked`, then `working` with the lock, `stored`, and
`ended` or `error`; `todo` are its events that the wizard has not applied, `heard` becomes
false with a cancel. A run that ends well may still leave some of `todo` unread, as `PassStream`
has it: the screen then lacks flags that are stored (`unread`), until the batch is run again
or the session is resumed. A call that is not heard goes on in the engine, as in `PassStream`,
and keeps the next one out, as in `StreamClient`. `saves` is the pool's queue of
`persist_decisions` tasks and `Workers` its threads.

`plan` is the outcome of trips and of edits to them: which photos lie in which trip. Which
photos a pass flags is a choice of `Accept`; which photos are similar is fixed by `Lookalikes`,
so that a second run finds the same groups again, while scores and so the recommended keeper are
open. Group ids are numbered as in `run_similar_pass`, from the highest stored. Left out: photos
that cannot be read and classifications that fail (`Analysis` has them), the stamps of runs over
the whole session (the wizard runs batches), failing or torn saves (`SessionStore`, `Wizard`),
the copy step, the thresholds (`Answers`). `Faults` switches cancels and failing passes on and
`Resumes` the restart.

### TripPlan and Wizard

`TripPlan` has `trips_plan.cpp` and `trip_edits.cpp` as operators: `EffectiveTrips` and
`Rebuild` are the layout of a clustering with edits, `Encode` and its inverse the saved
text (as a value, not as characters). Edits name a trip by its number, as in the code, and so
are laid on whatever trip has that number after a rerun. Legs are a set, since only which
photos share one matters. `Labels` are the names and slugs that there are: it has to have
those of the clusterings, those that a user types and what `Slugify` makes of them
(`LabelsAssumption`, `ClusterAssumption`, `PicksAssumption`).

Trips are numbered from 0, as in `find_trips`, and those made by hand from `FirstUserTrip`.

`Wizard` has the phases from the folder to the copy; the batch menu is one phase in which
photos are marked. `tasks` is the pool's queue: `RunTask` may take either of the first two
tasks, because there are two threads, and `disordered` remembers that a write took effect
after a younger one. `pending`, `target` and `resuming` are `pending_trip_edits_`,
`resume_target_step_` and `resuming_`; saving is off while they are set. `late` are calls
that were cancelled and have yet to record their step (`trips_pass.cpp:33`). `Exit` lets
the pool run dry, `Crash` does not. A question that belongs to an earlier generation of the
scope keeps its place in the pool, since the call is made all the same, but its answer is
dropped (`Unheard`).

A save is best effort: a task may fail (`TaskFails`), and so may the `record_step` of a pass,
and nobody is told. `missed` has the `Parts` of the session, its position and its edits, that
are behind the screen for that reason; the next save of a part that succeeds puts it right. A
folder whose probe fails counts as one without a session, so the wizard scans it afresh and the
scan resets it. The streams of the scan and of the trips pass may end without their last events.
Of the trips, which come by number, some first ones are there then (`Came`), and the edits of a
resume are laid over those. A resumed scan without its end shows what came (`Glimpses`), on the
confirm screen, and saves that position over the session's (`ResumeCutShort`); a fresh one stays
on its screen. A scan that finds photos finds all of `Photos`; one that finds none is
`noImages`, so `Photos` is not empty (`PhotosAssumption`).

### Answers

`pool`, `busy` and `posts` are where a question is: waiting, with a thread, or answered and
waiting for the UI thread. A question carries what it was asked for, and the answer is shown as
that, so that "the count for these sliders" can be compared with the sliders. `asked` is
`preview_seq_` and the like, `timer` the pause before an estimate; it fires when the model lets
it. `newest` remembers the youngest estimate that was shown; an older one that is shown after it
has overtaken it (`Overtaken`). `NextGeneration` drops what is in flight as the scope would.

### Measures and Analysis

A photo is the measures that `compute_metrics`, the signals of a keeper and the classifiers
take of it, as whole numbers: variances as they are, ratios in hundredths. `Measures` has
the rules on them. Tree and clusters are `vantage_point_tree.h` and `find_similar_images`;
the distance of two photos is a table of their features (`Difference`), of which nothing is
assumed but that it is symmetric and 0 between equals. The code's distance, 0.4 times one minus a
correlation plus 0.6 times a share of differing bits, is that much and does not obey the
triangle inequality. Frames of a video are compared by the `Hamming` distance of two hashes,
which does, on a line. A `vp_node` is a place in `tree`, its children are
places further on (0 for none), and the photo of a node leads the group of the same number
(`cluster_idx`). `Insert` changes the nodes on the photo's way (`OnTheWay`), `FindSimilar` gives
for each node what a search from there returns, `Clusters` is the loop over the photos. 

In `Analysis`, `quality`, `groups`, `junk` and `videos` are the tables, `stamps` the completed
runs, `run` the pass under way with what it has measured and not yet written (`pending`).
`Measure`, `Look`, `WriteQuality`, `WriteGroups` and `Finish` are the steps between which a stop
is seen or a write can fail; the similar pass does not look at the stop, as in the code. An
empty scope is the whole session. `last`, `times` and `losses` are history.

### Repair, Trips and Library

`Repair` has `repair_metadata` and the pass around it: the rows as the scan wrote them, a
request with clock offsets and a window, the dates by source (EXIF, file name, modification
time), the lent positions, the suggested offsets. Times are minutes and a file name is what
can be read of it. `Trips` has `find_trips`: homes, the walk over the sorted photos, months
at home, legs and slugs. Positions lie on a line, the calendar is `MonthOf`, a centroid is
a sum and a count. `Library` runs repairs and then the trips pass over the same rows.

### Commit

`disk` is the destination, a file is `[bytes, whole]`, a path its directory, stem, number
and extension, so `IMG-2.jpg` is number 2 of `IMG`. A copy is two steps, `CopyPhoto` and its end,
between which it can fail (the file is removed) or the process can die (it stays, torn).
`placed`, `outcome`, `errors` are the summary's. `sources` is the set of photos that are
still to come and `Here` the first of them: the code goes through them in the order of
`Place`. `Before` is a library that is there
already. `Subdir` has the folder plan with its directories merged by case; `Outside` is a
plan that would climb out of the destination. What `find_companions` finds is `Siblings`.

### ModelDownload

Per asset, `dest` is the installed file and `part` the partial one, as a length and whether
its bytes are right. A transfer resumes or starts over, as the server decides. `mutex` is
`model_mutex_`; `Junk` takes it too. `inbox` is the UI queue, `generation` the call that
`model_status` follows, `joined` the call whose thread the UI thread joins. `Ready` pushes the last
event and frees the mutex, `Deliver` is what `stream_pass` makes of that event: it posts it, or
ends and leaves it in the queue (`unread`). `AnyStart` lets
`model_status::start` come at any time, as its comment allows; without it, only where the
app calls it.

## The runs

| run | instance | shows |
|---|---|---|
| `pass_streams` | two passes, two events each | they overlap, fail and are cancelled in every order: `OnePassAtATime`, `StampedRunsAreWhole`; each implements `OrderedStream` (`DeliversInOrder`) and returns |
| `store_beside` | one folder, two photos, two saves, failing statements with or without a rollback by SQLite, crashes | `TransactionsHaveOwners`, `DecisionsWhole`, `StampVouchesForRows`, `IndexWholeUnlessStopped` |
| `store_folders` | two folders, one save, scans also under it, crashes but no failing statement | `SessionIsConnected`, `DecisionsStayInFolder` |
| `client_cancel` | three streams | started, cancelled and replaced at any moment: `CancelFindsContext`, `AppliesCurrentPass`, `DoneMeansDone`, `JoinEnds`, `PassReports` |
| `review_batches` | the duplicates pass, two batches, two layouts, two runs, one choice | `ChoicesWin`, `GroupsDisjoint`, `RunAllForgetsNone`, `DoneMeansCovered` |
| `review_resume` | all four passes, three layouts, two runs, restarts | `ShownIsStored` |
| `commit` | three commits of up to four photos, one of which the session does not know, over a library of four files | `CountedIsThere`, `SiblingsFollow`, `RecommitHeals`, `WholeFilesStay` |
| `wizard` | three photos, two clusterings, three scans, two events | `EveryPhotoPlaced`, `DiskFollowsScreen`, `ResumeBringsBack` |
| `library` | up to four photos out of some twenty files, two repairs, two sets of trip parameters | `RepairForgetsRepairs`, `BorrowsFromNearest`, `BorrowersTravelTogether`, `TripsBreakForAReason` |
| `model` | two files of two chunks, three calls | `JunkPassHasModel`, `JunkIsAnswered`, `PrepEnds` |
| `analysis` | three or four items out of some 250 libraries, two passes, one loss | `ResumeShowsTheStream`, `PreviewCountsTheRun`, `WorkIsKept`, `LeadersAreApart` |
| `answers` | two batches, two slider positions, two destinations and the suggested one, two threads | `PreviewFollowsSliders`, `EstimateFollowsSummary` |

**Bounds.** Two passes, since exclusion is a matter of two; two events of a kind and the
`Complete`, so that a loss and a swap with the end show. Two photos in a store, the least for a
half-written set, and two saves because the pool has two threads; both save the same decision,
and a mixture of the two shows as a set with a photo missing, since each begins by deleting all;
the run with two folders has one save, for its size. Three streams: one that runs, one that
winds down and one that wound down; the last has two events, for their order. `review_batches`
has three similar photos in two batches and two ways to lay them out, so that a pair can come
apart and a batch can get a photo that no run has seen; its one pass is the one with groups.
`review_resume` has all four passes, a video and a layout with everything in one batch; it has
no cancels, because `ShownIsStored` does not hold with them (below), and no choices, because
saves are checked in `store_beside`. Three commits: one that dies, one that leaves its mark on
what the first left, one that heals; the library holds one photo under another name, a folder in
another case, a file in the way of a suffix and one of a photo's size under its name. `wizard`
has two photos with a date and one without, two settings that cluster them differently under the
same trip numbers, three scans (one to fill the session, one to resume it, one more to resume
what that left) and two events, where an edit, a mark, a failing call or save, an overtaken
task, an exit and a crash each count as one (with two scans and three events, 5.5 million
states, the three properties hold too). `library` has times and places on either side of each
limit. `analysis` enumerates items at and around each threshold; its photos are at places on a
line, but for two pairs that are nearer than their places say, so that a search can be led
astray, and one library has four photos, the least for a leader that is missed among others. A
file of two chunks has a whole, a partial and an empty `.part`.

**Fairness.** `PassStream` assumes that both threads of a call are scheduled, and a producer is:
it ends because a pass is a finite computation (`MaxEvents` bounds it here). Nobody has to make
or cancel a call. `StreamClient` assumes that the event loop drains the queue and that workers
run and passes end; no user action is assumed. `ModelDownload` assumes that a call under way
goes on (a transfer ends, if only by failing, because the code times it out), that a joined
thread is waited for, that the event loop runs, and that the junk pass gets its turn at the
mutex. `EveryCallReturns`, `JoinEnds`, `PassReports`, `JunkIsAnswered` and `PrepEnds` rest on
that and on nothing else. Fairness makes a call end; it does not make it read its last event, so
`PrepEnds` excepts a call that left it unread. The other modules state safety only.

**Deadlock** is checked in the `store_*` and `review_*` runs. It is off elsewhere:
every call may have returned, every stream may have ended, and behaviours end where a bound
on passes, edits, commits or answers is reached.

## Promises that the code does not keep

Each of these configurations checks one property, which says what a document or a comment
of the repository says, and TLC finds it violated. They are not among the runs above. To see
one, run TLC on the `MC` module with the configuration.

* `MCPassStreamTail.cfg` (`SuccessEndsWithComplete`). `stream_pass` waits, finds nothing,
  and asks `is_closed` afterwards. If the producer pushes its last events and closes the
  queue in between, the call returns `ok` and those events stay in the queue.
  `spec/proto.md` promises the `*Complete`. For a scan the wizard then waits for a
  `pending_complete_` that never comes.
* `MCStreamClientRefused.cfg` (`NoPassRefused`). A cancelled pass keeps the lock until its
  worker has wound down, and the new worker starts before `operator=` joins the old one: the
  pass after a cancel may be refused.
* `MCReviewKeeper.cfg` (`GroupKeepsOne`). `similar_pass.cpp:57` and `proto.md:466` say that
  group ids stay unique across runs. They are numbered on from the highest id that is still
  *stored*: when a rerun removes the groups with the highest ids and finds none, those ids are
  given again. The wizard keeps the user's keeper by id and never takes one back, so another
  group can have a keeper that is not one of its members, and `similar_keeper_map` then marks
  every member. This takes no cancel and no restart.
* `MCCommitRelated.cfg` (`RelatedFilesKept`). A photo whose bytes are in the library under
  another name than the planned one counts as present and its related files are not copied
  (`commit.cpp:279`); a commit that took a suffix and died before the related files leaves
  exactly that. `proto.md:624` says that each item comes with its related files.
* `MCWizardError.cfg` (`ConfirmHasPhotos`). Outside batch mode, `go_back_from_error` clears
  the index and returns to the screen before the failure; the confirm screen then stands
  over no photos, and its Continue starts a trips pass.
* `MCModelPrep.cfg` (`PrepHasDownload`). After `cancel_junk_prep` a second start of the junk
  pass shows the waiting screen without a download and without a retry button.
* `MCModelTail.cfg` (`WaitEnds`). `model_ready_evt` goes through the queue of `stream_pass`, and
  may be the event that is left there when the call says `ok`. `on_done` without an error posts
  nothing (`model_status.cpp:29`), so the state stays *downloading* and the waiting screen
  waits on, although the model is there, until it is cancelled or the app started again.
* `MCAnalysisDistance.cfg` (`LeadersAlwaysApart`). The search tree prunes by the triangle
  inequality, which the distance of two photos (`image_features.h:25`) does not obey. A photo
  within the radius of a leader can be led past it, and leads a cluster of its own.
* `MCAnalysisMarked.cfg` (`MarkedDoNotGroup`). Photos marked for deletion take part in the
  clustering and are dropped afterwards (`similar_pass.cpp:138`); `proto.md:534` says that they
  are excluded from grouping.
* `MCLibrarySlugs.cfg` (`LegSlugsUnique`). A second leg in a city gets a number, and the
  result is not compared with the other slugs: `rome`, `rome-2` by number and a city called
  *Rome 2* collide. `trips.h:25` says unique.
* `MCAnswersPreview.cfg` (`PreviewIsOfThisBatch`). The count under the sliders stays when the
  review of another batch opens (`frontend.md:239`).
* `MCAnswersEstimate.cfg` (`EstimateIsOfThisCopy`). Of two estimates for the same
  destination the older may come last and stay, and Copy is enabled by it
  (`frontend.md:267`).

Behaviours that the models have, and that no passing property can exclude:

* `engine.h` lets unary calls run beside a pass, and the connection is shared. A save's
  `BEGIN` throws while a pass's transaction is open, and a pass's throws while a save's is;
  a plain statement joins the other's transaction and is lost when that rolls back
  although its call returned `ok`.
* After SQLite has rolled a transaction back by itself, the thread that had begun it does not know.
  Another can begin one, and the first one's `ROLLBACK` (`store.cpp:299`, `quality_pass.cpp:188`)
  ends it: the second goes on with statements that commit one by one, so that two saves may
  mix and a pass may be stamped without its rows. `TransactionsHaveOwners`, `DecisionsWhole`
  and `StampVouchesForRows` therefore speak of the time until that happens (`undone`);
  `IndexWholeUnlessStopped` does not, and holds throughout.
* With `Overlap`, a save that is still running when the next folder is opened goes on in
  that folder's database, because a save carries no folder. `DecisionsStayInFolder` therefore
  speaks of sessions in which no scan was started beside a save.
* `scan_folder` changes the connection before it knows that it can have the session. With
  `Faults` and two folders, `SessionIsConnected` fails: a scan that throws in `open` or in
  the reset leaves the old session active over the new folder's database, or over none.
* A handler may start after `cancel` has returned: the check and the call are not one step.
  The generation check on the UI thread (`AppliesCurrentPass`) makes it harmless.
* Starting a quality or duplicates pass erases the flags of the batch, and a cancel does not
  bring them back; `frontend.md:337` says that a cancelled pass leaves the earlier results as
  they were. After a cancelled rerun of the quality pass the sliders count as unchanged, so
  Rerun is not offered, and the count that was shown before the rerun stays beside other
  sliders.
* The final review lists the marked photos that are in a batch. A photo that was marked when
  the batches were built is in none; `frontend.md:257` says that every marked photo is
  listed (`EveryMarkIsListed` of `Wizard`, which TLC refutes).
* The stamps of batches stay in the database when trips are edited, so after a resume a
  batch can count as finished with photos that no run has seen. `DoneMeansCovered` is
  therefore checked and proved for one launch.
* `stream_pass` may say `ok` with events unread, also where no cancel and no failure is near. Flags
  of a finished batch are then missing on the screen until it is run again or resumed;
  a trips pass may lack its last trips; a resumed scan that loses its `Complete` lands on the
  confirm screen with the photos that came and saves step *Select* over the session's.
* A save that fails leaves the session behind the screen until the next save of that part. A
  failed save of the emptied edits that is followed by one of new parameters leaves edits of
  trips that the saved parameters do not give. A failed `inspect_session` makes the wizard
  scan afresh, which resets the session.
* Saves run on two threads; the older of two can be stored last (`disordered`). A cancelled trips
  pass can record its step after the wizard has saved another.
* Edits name trips by number. After a rerun with other settings they apply to whatever trip
  has that number; `EveryPhotoPlaced` says only that no photo is lost or doubled by it.
* `start_commit` overwrites `return_phase_`, so Back from an error of a copy leads to the
  summary and never further.
* A whole file of a photo's size under its planned name counts as that photo
  (`commit.cpp:273`, and `commit.h` says so).
* A server that refuses ranges makes every retry of a download fail as long as its `.part` file
  stays; a finished file is checked by its size alone when the app starts, where `proto.md:493`
  speaks of a checksum.
* Videos classified while the vision model was missing are never classified again; a quality
  rerun that is cut short leaves reasons of two threshold settings side by side; the
  duplicates pass persists its groups after a cancel.

## What is proved

`PassProofs`, of `PassStream`, for every set of calls, every set of events and every bound, from
the three named assumptions on the constants:

* `InductiveInvariant` — `IInv`, the strengthening that the rest follows from. By itself
  `OnePassAtATime` is not inductive: one has to know that the lock is taken exactly while
  a pass is between `Begin` and `Release`, that the producer lives only while its call is
  in between, and that `Release` comes after the join. `StampedRunsAreWhole` needs that a
  call that saw the end of its stream without a failure had a producer that persisted.
* `TypeCorrect`, `PassesExclude`, `QueueIsFaithful`, `StampIsSound` — types and invariants.
* `Refinement` — every call implements `OrderedStream`.

The proofs go action by action (`TypeStep`, `LockStep`, `EndsStep`, `QueueStep`), with
lemmas about sequences (`TakeHead`, `HandOver`, `PushAtEnd`) under them.

`PassProofs`, of `Repair`, for any photos, files and requests, from the three assumptions
on sizes, files and requests. `Library` leaves `Repair`'s variables alone where it does not
take one of its steps, so what is proved of `RepairSpec` holds there.

* `RepairsForgotten` — a run starts from the values of the scan. The invariant, `RepairInv`, says
  what a row keeps of its file under any number of repairs (`RowOfFile`: the EXIF time, the camera,
  and the position unless it is marked as inferred), what the pass under way has read
  (`ReadsFiles`: what a scan would give, though a modification time may be an older one), and that
  the rows are those of the last repair that wrote (`LastRepairStands`). Without the second
  part nothing is known of what `WriteRepairs` writes.
* `BorrowersAreNear` — from the same invariant and from facts on the two neighbours of a time:
  `PrecedingIsNearest` and `FollowingIsNearest` say that of the donors on a side the one next in
  time is found if any is within the window, whichever the sort puts first among equals
  (`TiesAreBroken`).

`PassProofs`, of `Analysis`, for any libraries, requests, thresholds, checkpoint and bounds:

* `WorkKept`, `PreviewsAreTrue`, `ResumesAreTrue` — all from `AnalysisInv`. `RunInv` is the account
  of the run under way: it tells once of each photo that it has seen and has something to tell
  of (`Streamed`), and for a pass that goes item by item, what it has seen is in the rows or waits
  (`Settled`). `LastInv` is that account for the last whole run of each kind, which no step
  disturbs until a run of that kind begins; `RowsInv` says which items have rows at all. None
  is inductive alone: what a resume shows after `Finish` is what `Look` had put aside before,
  and that a preview counts right rests on the measures in the rows being those the run
  judged. `ResumeShowsTheStream` then needs that a mask gives back its reasons
  (`MaskGivesReasons`), the preview that a stream names no item twice (`StreamCounts`).
* `LeadersApart` — about the search tree, for every radius, number of photos and symmetric
  distance. `TreeOf` is its invariant: each node knows which photos have passed it, and each of
  those went on to the side of its threshold on which it lies. `SearchFinds` shows that a search
  among them misses one that is near only if one of the nodes above the two does not stand to
  them as the triangle inequality wants (`Straight`). `InsertKeepsTree`, that an insertion keeps
  the invariant, rests on the photo being at a distance from the leaders on its way, or a
  threshold of zero would be taken for an unset one; without the inequality that needs
  `SearchGoesTheWay`: a search that found nothing has been to every node on the photo's way.
  `Partition` is the loop's invariant over the photos (`PhotoLeads`, `PhotoFollows`). Where the
  distances of a library do obey the inequality, no two leaders are near each other.

`SessionStoreProofs`, for any folders, photos, savers and choices:

* `TypeCorrect` and `InductiveInvariant`. The invariant has two parts beside the types, both as
  long as no scan has started beside a save. `Base` is what holds even after SQLite has rolled
  back a transaction by itself; `Inner`, until it does, is what everybody may count on:
  `LinkInv` (what the connection sees of what is on disk, by who has the transaction),
  `TablesInv` (every table whole, but for decisions in the middle of a save), `ScanInv`,
  `IngestInv`, `AnalysisInv`, `SavesInv` (how far each thread is with what it writes). There is
  one lemma per action.
* `OwnTransactionsOnly`, `SavesAreAtomic`, `StampsVouch`, `IndexesAreWhole` — the four
  invariants of `store_beside`, with failing statements and crashes, from `~Overlap`. The first
  three hold until a transaction is undone, but that none outlives its thread holds always.
* `Connected`, `DecisionsStay` — the invariants of `store_folders`, from `~Faults`.
  `HomeInv` adds that every decision in hand or in the open transaction is of the folder
  it is written to.

`~Overlap` and `~Faults` are not guaranteed by the code; they delimit what it guarantees.

`StreamClientProofs`, for any number of passes and events:

* `InductiveInvariant`. `Flight` is what was posted and has not run yet. `ContextInv` ties
  workers to contexts and the lock; `AliveInv` says that only the newest worker and the one it
  replaces are alive; `GenerationInv` that only the newest stream can be of the current
  generation; `OrderInv` that the tasks of a stream are in order, its end last; `AppliedInv`
  that what was applied and what is in flight together are what was sent.
* `TypeCorrect`, `CancelIsSafe`, `AppliesInOrder`, `ReportedIsComplete` — the safety
  properties of `client_cancel`, and `OneWindsDown`, that at most two workers are alive.

`ReviewProofs`, for any photos, batches, layouts, passes and bounds, from the named
assumptions on the constants (batches of a layout are disjoint, and so are the sets of
similar photos; group ids are numbers):

* `InShape` — the strengthening of `TypeOK`. `Control` ties the screen to the pass and the
  batch, and says that no run on all batches is left over on other screens; `CallsInv`
  ties the call that is heard to the running screen and its scope to the active batch. Without
  them, `OnDone` could record the wrong batch and a launch could leave two listeners.
  `SoundChoices` says that no intent contradicts itself, in hand, queued or stored;
  with it every recomputation of `marked` obeys the user (`DeletedObeys`).
* `TypeCorrect`, `UserDecides`, `NoneForgotten` — without any assumption about cancels,
  failures or resumes.
* `FinishedIsCovered` — from `~Resumes`, for the reason above. `DoneInv` adds that nothing
  counts as finished while trips are edited.
* `GroupsStayDisjoint` — `GroupsInv` adds what the invariant rests on: the groups a call found
  are disjoint and inside its scope, and a group on the screen is either the call's own or
  does not meet its scope. So both erasures, the wizard's at the start and the engine's
  at the end, are needed, and they are enough when batches change in between.

* `NothingIsUnstored` — `ShownIsStored`, from `~Faults`, for any number of resumes and
  changed layouts. `StoredInv` says how screen and session differ at each moment of a call
  (`Tells`): the flags of other steps agree; of its own step, what is shown and what has yet
  to be heard together are what the call found and what it left untouched, but for the flags that
  an earlier call left unread.

`CommitProofs`, for any photos, names, libraries, plans, failures and crashes:

* `InductiveInvariant` — the file under way was not there before and is not whole until its
  copy is, so no step that finishes or removes it meets another file.
* `CommitTouchesNoWholeFile`, `CommitCountsWhatIsThere` — `WholeFilesStay` and
  `CountedIsThere`.
* `GroupsInductiveInvariant`, `SiblingsAlwaysFollow` — `GroupInv` follows a photo from its
  turn to its last related file: nothing is known of those that have not had theirs; a name
  with a suffix is free for the photo *and* for all its related files when it is taken, and
  stays so until they are written; each related file is to come, under way, beside the photo,
  or reported. It needs `CompanionAssumption`: no related file has the photo's own
  extension, so no two of its files go to one name (`find_companions`).
* `RecommitAlwaysHeals` — `NamesInv` says that what is at its planned name keeps that name as
  long as the commit is not disturbed. The planned name depends on the directories that are
  there (`MatchExisting`), and a commit makes directories, so one needs that a
  directory which matches keeps being the match (`Merge`), and `NoAlias`: no photo without a folder
  goes back to a directory that is a trip's folder in other letters. Where one
  does, a second commit may write the trip's photos once more, into the other directory.

`ModelDownloadProofs`, for any files, sizes, numbers of calls, and starts of the app:

* `DownloadInductiveInvariant` — `OrderInv` says that calls start one after the other,
  `MutexInv` that the mutex is with the call that downloads; `CallInv` has what a call knows
  of the disk, which holds only because no other can touch the files meanwhile; `ReadyInv`
  that whoever says the model is there (the engine, a message on its way, the screen) is right.
* `OneCallDownloads` — of a call that is cancelled and its successor, one at most touches
  the files. `NothingBadIsInstalled` — a file of the right size and the wrong contents
  never gets its name, after any number of partial downloads. `JunkPassAlwaysHasModel`.

`AnswersProofs`, for any number of worker threads, batches, sliders and destinations:

* `AnswersInductiveInvariant`, `AnswersTypeCorrect`. `NumberInv` bounds every question and every
  answer by the last number given out; `PreviewInv` and `EstimateInv` that the newest one on its
  way is for what is set now, or, if there is none on its way, that what is shown is.
* `PreviewAlwaysFollowsSliders`, `EstimateAlwaysFollowsSummary`. The count is taken only from
  the newest question (`preview_seq_`), so nothing can overtake it. An estimate is taken
  whenever its destination fits, so the second theorem says *unless overtaken*.

`WizardProofs`, for any photos, clusterings (whose trips are disjoint and whose legs share out
their photos, `ClusterAssumption`), names, sets of moved photos and bounds:

* `WizardInductiveInvariant`. `PlanInv` says that edits name only trips that there are: every
  rerun throws the edits away, and a resume drops what does not fit. `PhaseInv` says which parts
  of the state go with which screen, above all where `pending_trip_edits_` and
  `resume_target_step_` can be set. `QuestionInv` says that one question is under way at a time,
  and only on the screen that waits for it. `OrderedInv` is about the session and holds until a
  write overtakes another: `AskedLast` (a question stands behind every save, so that its answer
  has them), `PositionInv` (the last position in the queue, or else the session's, is the
  screen's) and `EditsInv`. Since saves may fail, the last two are about a session that no
  database holds: what the stored one would be had every save succeeded. It differs from the
  stored one only in the parts of `missed` (`MeantStep`, `Meant`), and a save that succeeds
  makes the two agree in its part again.
* `EditsInv` is the heart of it. The session must be readable whenever the process dies, so the
  invariant is about the sequence of sessions that the queue leads through (`Follows`): after
  each task that waits, the edits that are saved are edits of the trips that the saved
  parameters give (`Says`), and at the end they are those on the screen (`Matches`). That a
  crash between any two saves leaves edits that fit the parameters beside them is then
  `SessionAlwaysReadable`, as long as no save is missing.
* `EveryPhotoAlwaysPlaced` — from `PlanInv` by `EveryLayoutLays`, which is about the
  operators of `TripPlan` alone. `DiskAlwaysFollowsScreen`, `ResumeAlwaysBringsBack` — for the
  parts that are not missed. The latter rests on the lemma that encoding edits, laying them
  back and encoding them again gives the same text. The writes that break them, in the wrong order or not made, are excluded by
  `~disordered` and `missed`; that there are such is a behaviour of the code, listed above.

What the proofs found. `EstimateFollowsSummary` had been stated with a history variable that
was right for two threads only; with three it could miss that an older answer had come
last, which is why there is `newest` now. `RecommitHeals` had been stated without
`NoAlias`, and without it is false in libraries larger than TLC's. The wizard's invariant
failed for an empty set of photos, where a resumed scan that has found its photos cannot be told
from one that has not; hence `PhotosAssumption`.

A theorem that a recursive function has the values its definition says takes an induction over
its arguments, and no induction theorem of the library can be instantiated here.
`LeastNumber` stands in for them: of a set of numbers one is the least, so the least argument
at which a claim fails is followed down by one. That a recursive function exists at
all is shown so (`ClustersGrow`, `SearchGoesDown`, `WayGoesDown`), and then what it computes.

Liveness under fairness and `ENABLED` are out of the prover's reach and stay with TLC:
`EveryCallReturns`, `JoinEnds`, `PassReports`, `JunkIsAnswered` and `PrepEnds`. So do the two
properties of `Library` about trips, `TripsBreakForAReason` and `BorrowersTravelTogether`, and
all of `Trips`: it sorts, folds and filters sequences with the operators of the community
modules, of which the library has no theorems, and the claims are about what those compute. Each
strengthened invariant was checked with TLC on the instances above, with `Says` over the edits
that can be reached there, before it was proved.

## Plan

1. `find_trips` as a recursive function over the ranks of the photos, in place of folds over a
   sorted sequence; then `TripsBreakForAReason` can be proved as `LeadersApart` was.
2. The stored thresholds, trip parameters and keepers beside the step (`session_resume.cpp`).

## What is not modelled

Image processing, the classifiers themselves, EXIF parsing and the place index are numeric
or pure lookups: `Measures`, `Repair` and `Trips` take their results as inputs. The schema
migrations run before anything else, one transaction each. `inspect_session` is
reduced to whether a folder can be resumed. The screens and widgets (`gui/app`) only show
the wizard's state. Progress figures, timing profiles and the order of presentation are left
out. Of dates, only their order and their distance matter; time zones and the calendar do not.

Memory safety is not modelled: `open` writes the connection's pointer without a lock while a
save may read it, which is undefined behaviour in C++, and the model only gives the outcomes
in which each statement runs on the old or on the new connection. A loss of power may lose
the last commits (`synchronous = NORMAL`); `Crash` is the end of the process, which does not.
The installation of a downloaded file is a rename, taken as atomic.
