----------------------------- MODULE ModelDownload -----------------------------
(***************************************************************************)
(* The vision model's way to the disk:  the EnsureModel calls, which       *)
(* download two files one after the other, resume what an earlier call or  *)
(* run of the app has left and verify it (backend/src/service/             *)
(* junk_pass.cpp, backend/src/net/model_download.cpp), what the GUI shows  *)
(* of them (gui/core/model_status.cpp), and the junk pass that waits.      *)
(*                                                                         *)
(* A file is a number of chunks, all of them right or not.                 *)
(***************************************************************************)
EXTENDS Naturals, Sequences, FiniteSets

CONSTANTS
  MaxCalls,    (* bound: EnsureModel calls of one run of the app               *)
  Size,        (* chunks of a file                                             *)
  AnyStart     (* whether model_status::start comes at any time, as its        *)
               (* comment allows, or only when the app calls it                *)

ASSUME BoundAssumption == MaxCalls \in Nat \ {0} /\ Size \in Nat \ {0} /\ AnyStart \in BOOLEAN

Calls == 1 .. MaxCalls
Assets == 1 .. 2      (* the text model, the projector                         *)
Nobody == 0
Junk == MaxCalls + 1  (* run_junk_pass, among those who lock model_mutex_      *)

VARIABLES
  dest,        (* each asset's file: none, good or bad                         *)
  part,        (* ... and its .part file: how long, and whether it is right    *)
  pc, at,      (* where each call is, and at which asset                       *)
  stop,        (* the calls that were cancelled                                *)
  mutex,       (* who holds model_mutex_                                       *)
  engineReady, (* engine::model_ready_                                         *)
  state,       (* model_status::state_, and with it the wizard's model_ready_  *)
  generation,  (* of the model_status' ui_scope: the call it follows, or none  *)
  joined,      (* the call whose thread the UI thread is joining               *)
  inbox,       (* the ui_queue                                                 *)
  unread,      (* history: the calls that ended with their last event unread   *)
  screen,      (* menu, the wait for the model, or the junk pass               *)
  junk         (* the RunJunkPass call: none, asked, accepted or refused       *)

disk == <<dest, part>>
engine == <<pc, at, mutex, engineReady>>
gui == <<state, generation, joined, screen>>
news == <<inbox, unread>>
vars == <<disk, engine, stop, gui, news, junk>>

Started == {c \in Calls : pc[c] # "off"}
Alive == {c \in Started : pc[c] # "done"}
None == [len |-> 0, ok |-> TRUE]

Volatile ==
  /\ pc = [c \in Calls |-> "off"] /\ at = [c \in Calls |-> 1] /\ stop = {}
  /\ mutex = Nobody /\ engineReady = FALSE
  /\ state = "unknown" /\ generation = 0 /\ joined = Nobody /\ inbox = <<>>
  /\ unread = {} /\ screen = "menu" /\ junk = "none"

Init == Volatile /\ dest = [a \in Assets |-> "none"] /\ part = [a \in Assets |-> None]

Goto(c, from, to) == pc[c] = from /\ pc' = [pc EXCEPT ![c] = to]
Post(c, new) == inbox' = Append(inbox, [call |-> c, state |-> new])

------------------------------------------------------------------------------
(* ensure_model.                                                              *)

\* Mutant: ensure_model without the lock.
LockUnchecked(c) ==
  /\ Goto(c, "lock", "probe") /\ mutex' = c
  /\ UNCHANGED <<disk, at, engineReady, stop, gui, news, junk>>

\* try_lock, between two sleeps.
Lock(c) ==
  /\ mutex = Nobody /\ mutex' = c
  /\ Goto(c, "lock", "probe")
  /\ UNCHANGED <<disk, at, engineReady, stop, gui, news, junk>>

LockCancelled(c) ==
  /\ c \in stop
  /\ Goto(c, "lock", "done")
  /\ UNCHANGED <<disk, at, mutex, engineReady, stop, gui, news, junk>>

\* asset_ready looks at the size alone.
AssetReady(a) == dest[a] # "none"

Probe(c) ==
  /\ IF ~AssetReady(at[c]) THEN Goto(c, "probe", "open") /\ UNCHANGED at
     ELSE IF at[c] + 1 \in Assets
     THEN pc[c] = "probe" /\ at' = [at EXCEPT ![c] = @ + 1] /\ UNCHANGED pc
     ELSE Goto(c, "probe", "ready") /\ UNCHANGED at
  /\ UNCHANGED <<disk, mutex, engineReady, stop, gui, news, junk>>

\* download_asset: a shorter .part is appended to, another is removed first.
Open(c) ==
  /\ \/ /\ Goto(c, "open", "transfer")
        /\ part' = [part EXCEPT ![at[c]] = IF @.len < Size THEN @ ELSE None]
     \/ Goto(c, "open", "failed") /\ UNCHANGED part
  /\ UNCHANGED <<dest, at, mutex, engineReady, stop, gui, news, junk>>

\* write_cb, and xfer_cb's progress at times.  Whoever serves the file may send
\* something else, and more of it than there should be.
Receive(c) ==
  /\ pc[c] = "transfer" /\ part[at[c]].len <= Size
  /\ \E right \in BOOLEAN :
       part' = [part EXCEPT ![at[c]] = [len |-> @.len + 1, ok |-> @.ok /\ right]]
  /\ \/ UNCHANGED inbox
     \/ (\A i \in DOMAIN inbox : inbox[i].call # c) /\ Post(c, "downloading")
  /\ UNCHANGED <<dest, engine, stop, gui, unread, junk>>

\* curl_easy_perform returns: the transfer is over, was aborted by xfer_cb, or broke,
\* was refused or was too slow for CURLOPT_LOW_SPEED_TIME.
EndTransfer(c) ==
  /\ \/ Goto(c, "transfer", "verify")
     \/ Goto(c, "transfer", "failed")
  /\ UNCHANGED <<disk, at, mutex, engineReady, stop, gui, news, junk>>

\* The size and the checksum; what does not match is removed.
Verify(c) ==
  /\ IF part[at[c]].len = Size /\ part[at[c]].ok
     THEN Goto(c, "verify", "install") /\ UNCHANGED part
     ELSE Goto(c, "verify", "failed") /\ part' = [part EXCEPT ![at[c]] = None]
  /\ UNCHANGED <<dest, at, mutex, engineReady, stop, gui, news, junk>>

\* rename: the next look at the asset finds it.
Install(c) ==
  /\ \/ /\ Goto(c, "install", "probe")
        /\ dest' = [dest EXCEPT ![at[c]] = IF part[at[c]] = [len |-> Size, ok |-> TRUE]
                                           THEN "good" ELSE "bad"]
        /\ part' = [part EXCEPT ![at[c]] = None]
     \/ Goto(c, "install", "failed") /\ UNCHANGED disk
  /\ UNCHANGED <<at, mutex, engineReady, stop, gui, news, junk>>

\* Mutant: the lock is given back by hand, and not on this way out.
ReadyLocked(c) ==
  /\ Goto(c, "ready", "sent")
  /\ engineReady' = TRUE
  /\ UNCHANGED <<disk, at, mutex, stop, gui, news, junk>>

\* The producer pushes model_ready_evt and ends: the lock is free before the client hears
\* of it.
Ready(c) ==
  /\ Goto(c, "ready", "sent")
  /\ engineReady' = TRUE /\ mutex' = Nobody
  /\ UNCHANGED <<disk, at, stop, gui, news, junk>>

\* stream_pass passes the event on, or ends - cancelled, or with an ok - and leaves it in
\* the queue (PassStream);  an on_done without an error posts nothing.
Deliver(c) ==
  /\ Goto(c, "sent", "done")
  /\ \/ Post(c, "ready") /\ UNCHANGED unread
     \/ unread' = unread \cup {c} /\ UNCHANGED inbox
  /\ UNCHANGED <<disk, at, mutex, engineReady, stop, gui, junk>>

\* A download that fails after a cancel is no failure, the others are thrown.
Fail(c) ==
  /\ Goto(c, "failed", IF c \in stop THEN "done" ELSE "tell")
  /\ mutex' = Nobody
  /\ UNCHANGED <<disk, at, engineReady, stop, gui, news, junk>>

\* on_done.  A cancel between its check and the post leaves the post in the queue.
Tell(c) ==
  /\ Goto(c, "tell", "done")
  /\ Post(c, "failed")
  /\ UNCHANGED <<disk, at, mutex, engineReady, stop, gui, unread, junk>>

Step(c) ==
  \/ Lock(c) \/ LockCancelled(c) \/ Probe(c) \/ Open(c) \/ Receive(c) \/ EndTransfer(c)
  \/ Verify(c) \/ Install(c) \/ Ready(c) \/ Deliver(c) \/ Fail(c)
  \/ Tell(c)

------------------------------------------------------------------------------
(* model_status and the wizard, on the UI thread, which blocks in a join.     *)

FreeUi == joined = Nobody
LastCall == Cardinality(Started)

\* model_status::start:  main's at the start of the app, and the retry button of the
\* screen that waits.  The subscription's old worker is joined when it gets the new one.
Start(c) ==
  /\ FreeUi /\ c = LastCall + 1
  /\ AnyStart \/ LastCall = 0 \/ (screen = "prep" /\ state = "failed")
  /\ stop' = stop \cup Started
  /\ generation' = c /\ state' = "unknown"
  /\ pc' = [pc EXCEPT ![c] = "lock"]
  /\ joined' = IF LastCall \in Alive THEN LastCall ELSE Nobody
  /\ UNCHANGED <<disk, at, mutex, engineReady, news, screen, junk>>

EndJoin ==
  /\ joined # Nobody /\ joined \notin Alive /\ joined' = Nobody
  /\ UNCHANGED <<disk, engine, stop, state, generation, screen, news, junk>>

\* Mutant: set_model_ready starts no pass.
HandleReadyOnly ==
  /\ FreeUi /\ inbox # <<>>
  /\ inbox' = Tail(inbox)
  /\ state' = IF Head(inbox).call = generation THEN Head(inbox).state ELSE state
  /\ UNCHANGED <<disk, engine, stop, generation, joined, unread, screen, junk>>

\* ui_queue::drain, set_state and, by on_change, set_model_ready: the wizard that
\* waits for the model starts its pass.
HandleMessage ==
  /\ FreeUi /\ inbox # <<>>
  /\ inbox' = Tail(inbox)
  /\ IF Head(inbox).call = generation
     THEN /\ state' = Head(inbox).state
          /\ IF state' = "ready" /\ screen = "prep"
             THEN screen' = "junk" /\ junk' = "asked"
             ELSE UNCHANGED <<screen, junk>>
     ELSE UNCHANGED <<state, screen, junk>>
  /\ UNCHANGED <<disk, engine, stop, generation, joined, unread>>

\* begin_pass(junk).  main has started the first call before there is a menu.
RunJunk ==
  /\ FreeUi /\ screen = "menu" /\ LastCall > 0
  /\ IF state = "ready" THEN screen' = "junk" /\ junk' = "asked"
     ELSE screen' = "prep" /\ UNCHANGED junk
  /\ UNCHANGED <<disk, engine, stop, state, generation, joined, news>>

\* cancel_junk_prep and model_status::cancel_download.
CancelPrep ==
  /\ FreeUi /\ screen = "prep" /\ screen' = "menu"
  /\ stop' = stop \cup Started /\ state' = "unknown" /\ generation' = 0
  /\ UNCHANGED <<disk, engine, joined, news, junk>>

\* run_junk_pass waits for the lock without looking at its context.  The pass that is
\* accepted is the last step of this model's run of the app.
JunkAnswer ==
  /\ junk = "asked" /\ mutex = Nobody
  /\ IF engineReady \/ \A a \in Assets : AssetReady(a)
     THEN junk' = "accepted" /\ engineReady' = TRUE
     ELSE junk' = "refused" /\ UNCHANGED engineReady
  /\ UNCHANGED <<disk, pc, at, mutex, stop, gui, news>>

\* The process ends, also between two flushes of the .part file it writes.
Crash ==
  /\ LastCall > 0
  /\ pc' = [c \in Calls |-> "off"] /\ at' = [c \in Calls |-> 1] /\ stop' = {}
  /\ mutex' = Nobody /\ engineReady' = FALSE
  /\ state' = "unknown" /\ generation' = 0 /\ joined' = Nobody /\ inbox' = <<>>
  /\ unread' = {} /\ screen' = "menu" /\ junk' = "none"
  /\ \/ UNCHANGED part
     \/ \E c \in Calls, n \in 0 .. Size :
          /\ pc[c] = "transfer" /\ n < part[at[c]].len
          /\ \E right \in {part[at[c]].ok, TRUE} :
               part' = [part EXCEPT ![at[c]] = [len |-> n, ok |-> right \/ n = 0]]
  /\ UNCHANGED dest

Next ==
  \/ \E c \in Calls : Step(c) \/ Start(c)
  \/ EndJoin \/ HandleMessage \/ RunJunk \/ CancelPrep \/ JunkAnswer \/ Crash

\* A transfer ends (CURLOPT_LOW_SPEED_TIME), threads run, and the UI thread comes back
\* to its queue.
Fairness ==
  /\ \A c \in Calls : WF_vars(Step(c))
  /\ WF_vars(EndJoin) /\ WF_vars(HandleMessage) /\ WF_vars(JunkAnswer)

Spec == Init /\ [][Next]_vars /\ Fairness

------------------------------------------------------------------------------
\* The wizard asks for the junk pass only when both files are there, and the engine, which
\* remembers that they were, accepts it (begin_pass, set_model_ready; run_junk_pass).
JunkPassHasModel == junk # "none" => junk # "refused" /\ \A a \in Assets : dest[a] = "good"

\* RunJunkPass, which sees no cancel while it waits for model_mutex_, gets it.
JunkIsAnswered == junk = "asked" ~> junk # "asked"

\* As long as a call is followed, the screen that waits for the model ends in the pass or
\* in a failure that can be retried - unless the event that says that the model is there
\* was left unread, after which nobody tells the screen (stream_pass, model_status::start).
PrepEnds ==
  (screen = "prep" /\ generation # 0) ~>
    (screen # "prep" \/ state = "failed" \/ generation \in unread)

\* What the screen promises:  the wait ends without such an exception.
WaitEnds ==
  (screen = "prep" /\ generation # 0) ~> (screen # "prep" \/ state = "failed")

\* "[Cancel] ... The next `start` resumes":  the screen that says that the model is being
\* downloaded, or shows the retry button, is never without either.
PrepHasDownload ==
  screen = "prep" =>
    \/ state = "failed" \/ generation \in Alive
    \/ \E i \in DOMAIN inbox : inbox[i].call = generation
================================================================================
