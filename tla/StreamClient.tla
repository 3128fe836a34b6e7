----------------------------- MODULE StreamClient -----------------------------
(***************************************************************************)
(* A wizard and its passes:  the stream_subscription that it holds, the    *)
(* worker thread of each stream (gui/core/engine_client.cpp), the ui_queue *)
(* that the workers post to, and the ui_scope that drops the posts of      *)
(* operations which are over.                                              *)
(*                                                                         *)
(* The engine's side of a call is reduced to the single-pass lock, events  *)
(* and an end;  module PassStream has the whole of it.  An event is its    *)
(* number in its stream.                                                   *)
(***************************************************************************)
EXTENDS Naturals, Sequences

CONSTANTS
  MaxStreams,  (* bound: the passes the wizard starts                         *)
  MaxEvents    (* bound: the events of each of them                           *)

Streams == 1 .. MaxStreams

ASSUME BoundAssumption == MaxStreams \in Nat \ {0} /\ MaxEvents \in [Streams -> Nat]
None == 0

VARIABLES
  op,          (* what the wizard shows: resting, running a pass, or an error *)
  ui,          (* where the UI thread is in stream_subscription::operator=    *)
  held,        (* the stream of pass_, None at first                          *)
  arriving,    (* the stream being moved into pass_                           *)
  made,        (* how many streams were started                               *)
  generation,  (* ui_scope's                                                  *)
  born,        (* the generation each stream's handlers captured              *)
  queue,       (* ui_queue::tasks_                                            *)
  batch,       (* what drain took out of it and has not run yet               *)
  applied,     (* history: the current operation's events that were applied   *)
  at,          (* where each worker is                                        *)
  cancelled,   (* control::cancelled                                          *)
  callable,    (* control::cancel_call is set                                 *)
  stopped,     (* the call's request_context is cancelled                     *)
  lock,        (* the stream whose call holds the engine's single-pass lock   *)
  result,      (* how each call ended                                         *)
  sent         (* how many events each stream's handler was given             *)

wizardVars == <<op, ui, held, arriving, made, generation, born, batch, applied>>
workerVars == <<at, callable, lock, result, sent>>
vars == <<wizardVars, queue, workerVars, cancelled, stopped>>

Task == [stream : Streams, kind : {"event"}, number : Nat \ {0}]
        \cup [stream : Streams, kind : {"done"}, ok : BOOLEAN]

TypeOK ==
  /\ op \in {"resting", "running", "failed"}
  /\ ui \in {"free", "assign", "join"}
  /\ held \in Streams \cup {None} /\ arriving \in Streams \cup {None}
  /\ made \in 0 .. MaxStreams
  /\ generation \in Nat
  /\ born \in [Streams -> Nat]
  /\ queue \in Seq(Task) /\ batch \in Seq(Task)
  /\ applied \in Seq(Streams \X (Nat \ {0}))
  /\ at \in [Streams -> {"none", "start", "call", "pass", "event", "leave",
                         "clear", "last", "done", "exited"}]
  /\ cancelled \in [Streams -> BOOLEAN]
  /\ callable \in [Streams -> BOOLEAN]
  /\ stopped \in [Streams -> BOOLEAN]
  /\ lock \in Streams \cup {None}
  /\ result \in [Streams -> {"none", "ok", "cancelled", "refused", "internal"}]
  /\ sent \in [Streams -> Nat] /\ \A s \in Streams : sent[s] <= MaxEvents[s]

Init ==
  /\ op = "resting" /\ ui = "free"
  /\ held = None /\ arriving = None /\ made = 0
  /\ generation = 0 /\ born = [s \in Streams |-> 0]
  /\ queue = <<>> /\ batch = <<>> /\ applied = <<>>
  /\ at = [s \in Streams |-> "none"]
  /\ cancelled = [s \in Streams |-> FALSE]
  /\ callable = [s \in Streams |-> FALSE]
  /\ stopped = [s \in Streams |-> FALSE]
  /\ lock = None
  /\ result = [s \in Streams |-> "none"]
  /\ sent = [s \in Streams |-> 0]

------------------------------------------------------------------------------
(* The UI thread.                                                             *)

\* control::cancel, under the control's mutex.
CancelStream(s) ==
  /\ cancelled' = IF s = None THEN cancelled ELSE [cancelled EXCEPT ![s] = TRUE]
  /\ stopped' = IF s # None /\ callable[s] THEN [stopped EXCEPT ![s] = TRUE] ELSE stopped

\* make_handlers and client_->run_..._pass:  the worker starts before its
\* subscription is moved into pass_.
LaunchPass ==
  /\ made < MaxStreams
  /\ made' = made + 1 /\ arriving' = made'
  /\ generation' = generation + 1
  /\ born' = [born EXCEPT ![made'] = generation']
  /\ at' = [at EXCEPT ![made'] = "start"]
  /\ ui' = "assign" /\ op' = "running" /\ applied' = <<>>

StartPass ==
  /\ ui = "free" /\ batch = <<>> /\ op = "resting"
  /\ LaunchPass
  /\ UNCHANGED <<held, queue, batch, cancelled, callable, stopped, lock, result, sent>>

\* operator=:  cancel the old stream ...
AssignCancels ==
  /\ ui = "assign" /\ ui' = "join"
  /\ CancelStream(held)
  /\ UNCHANGED <<op, held, arriving, made, generation, born, queue, batch, applied,
                 workerVars>>

\* ... and join its worker, before the new one takes its place.
AssignJoins ==
  /\ ui = "join" /\ ui' = "free"
  /\ held # None => at[held] = "exited"
  /\ held' = arriving /\ arriving' = None
  /\ UNCHANGED <<op, made, generation, born, queue, batch, applied, workerVars,
                 cancelled, stopped>>

\* cancel_pass, cancel_scan and go_back_from_error do not wait for the worker.
CancelPass ==
  /\ ui = "free" /\ batch = <<>> /\ op \in {"running", "failed"}
  /\ CancelStream(held)
  /\ generation' = generation + 1
  /\ op' = "resting" /\ applied' = <<>>
  /\ UNCHANGED <<ui, held, arriving, made, born, queue, batch, workerVars>>

\* ui_queue::drain takes all tasks and then runs them one by one.
Drain ==
  /\ ui = "free" /\ batch = <<>> /\ queue # <<>>
  /\ batch' = queue /\ queue' = <<>>
  /\ UNCHANGED <<op, ui, held, arriving, made, generation, born, applied, workerVars,
                 cancelled, stopped>>

NextTask(t) == ui = "free" /\ batch # <<>> /\ t = Head(batch) /\ batch' = Tail(batch)

\* Mutant: the poster does not compare generations.
AnyGeneration(t) == TRUE

Current(t) == born[t.stream] = generation

\* ui_scope's poster drops a task of an older generation.
DropTask(t) ==
  /\ NextTask(t) /\ ~Current(t)
  /\ UNCHANGED <<op, ui, held, arriving, made, generation, born, queue, applied,
                 workerVars, cancelled, stopped>>

ApplyEvent(t) ==
  /\ NextTask(t) /\ Current(t) /\ t.kind = "event"
  /\ applied' = Append(applied, <<t.stream, t.number>>)
  /\ UNCHANGED <<op, ui, held, arriving, made, generation, born, queue, workerVars,
                 cancelled, stopped>>

\* on_done: the wizard shows the result or the error ...
ApplyDone(t) ==
  /\ NextTask(t) /\ Current(t) /\ t.kind = "done"
  /\ op' = IF t.ok THEN "resting" ELSE "failed"
  /\ UNCHANGED <<ui, held, arriving, made, generation, born, queue, applied,
                 workerVars, cancelled, stopped>>

\* ... or goes straight on to the next batch of a run on all of them.
ApplyDoneThenStart(t) ==
  /\ NextTask(t) /\ Current(t) /\ t.kind = "done" /\ t.ok
  /\ LaunchPass
  /\ UNCHANGED <<held, queue, cancelled, callable, stopped, lock, result, sent>>

RunTask ==
  \E t \in {batch[i] : i \in 1 .. Len(batch)} :
    DropTask(t) \/ ApplyEvent(t) \/ ApplyDone(t) \/ ApplyDoneThenStart(t)

------------------------------------------------------------------------------
(* A worker.                                                                  *)

Goto(s, from, to) == at[s] = from /\ at' = [at EXCEPT ![s] = to]

\* Mutant: the newest task first.
PostInFront(t) == queue' = <<t>> \o queue

Post(t) == queue' = Append(queue, t)

\* A stream that was cancelled before its worker ran makes no call.
EnterCall(s) ==
  /\ Goto(s, "start", IF cancelled[s] THEN "exited" ELSE "call")
  /\ callable' = [callable EXCEPT ![s] = ~cancelled[s]]
  /\ UNCHANGED <<wizardVars, queue, lock, result, sent, cancelled, stopped>>

\* Mutant: a refused call ends without on_done.
RefuseSilently(s) ==
  /\ Goto(s, "call", IF lock = None THEN "pass" ELSE "exited")
  /\ lock' = IF lock = None THEN s ELSE lock
  /\ UNCHANGED <<wizardVars, queue, callable, result, sent, cancelled, stopped>>

\* try_begin_pass.
BeginPass(s) ==
  /\ Goto(s, "call", IF lock = None THEN "pass" ELSE "clear")
  /\ IF lock = None
     THEN lock' = s /\ UNCHANGED result
     ELSE result' = [result EXCEPT ![s] = "refused"] /\ UNCHANGED lock
  /\ UNCHANGED <<wizardVars, queue, callable, sent, cancelled, stopped>>

\* The writer asks whether the stream was cancelled, and then calls the handler
\* without the control's lock.
OfferEvent(s) ==
  /\ sent[s] < MaxEvents[s]
  /\ Goto(s, "pass", IF cancelled[s] THEN "leave" ELSE "event")
  /\ result' = IF cancelled[s] THEN [result EXCEPT ![s] = "cancelled"] ELSE result
  /\ UNCHANGED <<wizardVars, queue, callable, lock, sent, cancelled, stopped>>

OnEvent(s) ==
  /\ Goto(s, "event", "pass")
  /\ sent' = [sent EXCEPT ![s] = @ + 1]
  /\ Post([stream |-> s, kind |-> "event", number |-> sent'[s]])
  /\ UNCHANGED <<wizardVars, callable, lock, result, cancelled, stopped>>

EndPass(s) ==
  /\ Goto(s, "pass", "leave")
  /\ \E r \in IF stopped[s] THEN {"cancelled", "internal"} ELSE {"ok", "internal"} :
       result' = [result EXCEPT ![s] = r]
  /\ UNCHANGED <<wizardVars, queue, callable, lock, sent, cancelled, stopped>>

\* The producer is joined and the lock is given back:  the call returns.
LeavePass(s) ==
  /\ Goto(s, "leave", "clear")
  /\ lock' = None
  /\ UNCHANGED <<wizardVars, queue, callable, result, sent, cancelled, stopped>>

\* Mutant: cancel_call is not cleared.
ClearNothing(s) ==
  /\ Goto(s, "clear", "last")
  /\ UNCHANGED <<wizardVars, queue, callable, lock, result, sent, cancelled, stopped>>

\* Mutant: operator= joins with the control's mutex held.
ClearBlocked(s) ==
  /\ ui # "join"
  /\ Goto(s, "clear", "last")
  /\ callable' = [callable EXCEPT ![s] = FALSE]
  /\ UNCHANGED <<wizardVars, queue, lock, result, sent, cancelled, stopped>>

\* Under the control's mutex, before the context goes out of scope.
ClearCall(s) ==
  /\ Goto(s, "clear", "last")
  /\ callable' = [callable EXCEPT ![s] = FALSE]
  /\ UNCHANGED <<wizardVars, queue, lock, result, sent, cancelled, stopped>>

LastLook(s) ==
  /\ Goto(s, "last", IF cancelled[s] THEN "exited" ELSE "done")
  /\ UNCHANGED <<wizardVars, queue, callable, lock, result, sent, cancelled, stopped>>

OnDone(s) ==
  /\ Goto(s, "done", "exited")
  /\ Post([stream |-> s, kind |-> "done", ok |-> result[s] = "ok"])
  /\ UNCHANGED <<wizardVars, callable, lock, result, sent, cancelled, stopped>>

------------------------------------------------------------------------------
Wizard == StartPass \/ CancelPass
UiThread == AssignCancels \/ AssignJoins \/ Drain \/ RunTask
Worker(s) ==
  \/ EnterCall(s) \/ BeginPass(s) \/ OfferEvent(s) \/ OnEvent(s) \/ EndPass(s)
  \/ LeavePass(s) \/ ClearCall(s) \/ LastLook(s) \/ OnDone(s)

Next == Wizard \/ UiThread \/ \E s \in Streams : Worker(s)

Spec == Init /\ [][Next]_vars

\* The event loop drains the queue and the workers run;  passes end by themselves.
FairSpec ==
  Spec /\ WF_vars(UiThread) /\ \A s \in Streams : WF_vars(Worker(s))

------------------------------------------------------------------------------
ContextAlive(s) == at[s] \in {"call", "pass", "event", "leave", "clear"}

\* Cancelling reaches into the request_context on the worker's stack.  The worker
\* forgets cancel_call before the context is gone, so no cancel, however late,
\* touches a dead one.
CancelFindsContext == \A s \in Streams : callable[s] => ContextAlive(s)

\* The wizard applies the events of the pass it shows, and of no other, in their
\* order and without a gap, whatever older streams still post.
AppliesCurrentPass ==
  \E s \in Streams :
    applied = [i \in 1 .. Len(applied) |-> <<s, i>>] /\ (applied # <<>> => s = made)

\* A pass that was reported done is done:  its call gave the lock back, and all
\* its events were applied before.
DoneMeansDone ==
  [][op = "running" /\ op' # "running" /\ generation' = generation
     => /\ lock # made /\ at[made] = "exited"
        /\ Len(applied) = sent[made]]_vars

\* Cancelled streams wind down one at a time:  beside the newest worker at most
\* one other is alive, because operator= joins the old one.
Alive(s) == at[s] \notin {"none", "exited"}
OneLeftOver ==
  \A s, t \in Streams : Alive(s) /\ Alive(t) /\ s # t => made \in {s, t}

\* The UI thread comes back from every join, and a pass that is not cancelled
\* brings the wizard to a result or to an error.
JoinEnds == ui = "join" ~> ui = "free"
PassReports == op = "running" ~> op # "running"

\* frontend.md: the GUI must not start a new pass stream until the previous one
\* has completed.  The pass the user sees is never refused because
\* the one before it is still there.
NoPassRefused == made # None => result[made] # "refused"
==============================================================================
