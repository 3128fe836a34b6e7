------------------------------ MODULE PassStream ------------------------------
(***************************************************************************)
(* The streaming calls of the engine (backend/include/engine.h):  the      *)
(* single-pass lock, the producer thread that run_producer starts, the     *)
(* event_queue between the two threads, and stream_pass, which drains the  *)
(* queue into the caller's event_writer.                                   *)
(*                                                                         *)
(* Every streaming call has this shape, whatever it computes:  take the    *)
(* lock, check the request, start the producer, stream, join, record that  *)
(* the run is complete, give the lock back.  Calls may overlap: each one   *)
(* runs on a thread of its caller's.                                       *)
(***************************************************************************)
EXTENDS Naturals, Sequences

CONSTANTS
  Calls,      (* the streaming calls made, each on its caller's thread        *)
  Passes,     (* those that take the single-pass lock; ensure_model does not  *)
  Recording,  (* the passes that end in record_run_complete                   *)
  Item,       (* progress, flag and result events                             *)
  Complete,   (* the *Complete event a pass ends with                         *)
  NoEvent,    (* the std::nullopt of event_queue::wait                        *)
  MaxEvents   (* bound: the events a pass produces before its Complete        *)

ASSUME CallsAssumption == Recording \subseteq Passes /\ Passes \subseteq Calls
ASSUME EventAssumption ==
  /\ Complete \notin Item
  /\ NoEvent \notin Item \cup {Complete}
ASSUME BoundAssumption == MaxEvents \in Nat

Event == Item \cup {Complete}

\* The status codes of an early return between the lock and the producer.
RejectCode == {"invalid_argument", "not_found", "internal"}
Status == RejectCode \cup {"none", "ok", "cancelled", "failed_precondition"}

VARIABLES
  passActive,  (* engine::pass_active_                                        *)
  pc,          (* where the calling thread is                                 *)
  outcome,     (* the status the call returns, once it is known               *)
  ev,          (* stream_pass's local `ev`                                    *)
  queue,       (* event_queue::queue_                                         *)
  closed,      (* event_queue::closed_                                        *)
  ppc,         (* where the producer thread is                                *)
  stop,        (* the stop_source was asked to stop                           *)
  failed,      (* the producer's exception_ptr is set                         *)
  cancelled,   (* request_context::cancelled_                                 *)
  persisted,   (* the run's results are committed to the session database     *)
  recorded,    (* the run is stamped complete in the session database         *)
  pushed,      (* history: every event pushed                                 *)
  delivered    (* history: every event the writer took                        *)

consumerVars == <<pc, outcome, ev>>
producerVars == <<ppc, failed, persisted, pushed>>
vars == <<passActive, pc, outcome, ev, queue, closed, ppc, stop, failed,
          cancelled, persisted, recorded, pushed, delivered>>

Streaming == {"wait", "woken", "write", "poll"}

TypeOK ==
  /\ passActive \in BOOLEAN
  /\ pc \in [Calls -> Streaming \cup {"idle", "setup", "join", "release", "returned"}]
  /\ outcome \in [Calls -> Status]
  /\ ev \in [Calls -> Event \cup {NoEvent}]
  /\ queue \in [Calls -> Seq(Event)]
  /\ closed \in [Calls -> BOOLEAN]
  /\ ppc \in [Calls -> {"none", "running", "saved", "closing", "exited"}]
  /\ stop \in [Calls -> BOOLEAN]
  /\ failed \in [Calls -> BOOLEAN]
  /\ cancelled \in [Calls -> BOOLEAN]
  /\ persisted \in [Calls -> BOOLEAN]
  /\ recorded \in [Calls -> BOOLEAN]
  /\ pushed \in [Calls -> Seq(Event)]
  /\ delivered \in [Calls -> Seq(Event)]

Init ==
  /\ passActive = FALSE
  /\ pc = [c \in Calls |-> "idle"]
  /\ outcome = [c \in Calls |-> "none"]
  /\ ev = [c \in Calls |-> NoEvent]
  /\ queue = [c \in Calls |-> <<>>]
  /\ closed = [c \in Calls |-> FALSE]
  /\ ppc = [c \in Calls |-> "none"]
  /\ stop = [c \in Calls |-> FALSE]
  /\ failed = [c \in Calls |-> FALSE]
  /\ cancelled = [c \in Calls |-> FALSE]
  /\ persisted = [c \in Calls |-> FALSE]
  /\ recorded = [c \in Calls |-> FALSE]
  /\ pushed = [c \in Calls |-> <<>>]
  /\ delivered = [c \in Calls |-> <<>>]

Goto(c, from, to) ==
  /\ pc[c] = from
  /\ pc' = [pc EXCEPT ![c] = to]

ProducerGoto(c, from, to) ==
  /\ ppc[c] = from
  /\ ppc' = [ppc EXCEPT ![c] = to]

------------------------------------------------------------------------------
(* The calling thread: lock, setup, join, release.                            *)

\* try_begin_pass succeeds, or the call has no use for the lock.
Begin(c) ==
  /\ c \in Passes => ~passActive
  /\ Goto(c, "idle", "setup")
  /\ passActive' = (passActive \/ c \in Passes)
  /\ UNCHANGED <<outcome, ev, queue, closed, stop, cancelled, recorded,
                 delivered, producerVars>>

\* try_begin_pass fails: no guard was made, so nothing is released.
Refuse(c) ==
  /\ c \in Passes /\ passActive
  /\ Goto(c, "idle", "returned")
  /\ outcome' = [outcome EXCEPT ![c] = "failed_precondition"]
  /\ UNCHANGED <<passActive, ev, queue, closed, stop, cancelled, recorded,
                 delivered, producerVars>>

\* An argument or the session cannot be used: return before the producer starts.
Reject(c) ==
  /\ Goto(c, "setup", "release")
  /\ \E code \in RejectCode : outcome' = [outcome EXCEPT ![c] = code]
  /\ UNCHANGED <<passActive, ev, queue, closed, stop, cancelled, recorded,
                 delivered, producerVars>>

StartProducer(c) ==
  /\ Goto(c, "setup", "wait")
  /\ ProducerGoto(c, "none", "running")
  /\ UNCHANGED <<passActive, outcome, ev, queue, closed, stop, failed, cancelled,
                 persisted, recorded, pushed, delivered>>

\* Mutant: returns without producer.join().
JoinTooSoon(c) ==
  /\ Goto(c, "join", "release")
  /\ UNCHANGED <<passActive, outcome, ev, queue, closed, stop, cancelled,
                 recorded, delivered, producerVars>>

\* Mutant: does not ask producer_error_status before it stamps the run.
JoinIgnoresFailure(c) ==
  /\ ppc[c] = "exited"
  /\ Goto(c, "join", "release")
  /\ recorded' = [recorded EXCEPT ![c] = outcome[c] = "ok"]
  /\ UNCHANGED <<passActive, outcome, ev, queue, closed, stop, cancelled,
                 delivered, producerVars>>

\* producer.join(), producer_error_status and, for an ok run, the best-effort
\* completion stamp, which may fail without failing the call.
Join(c) ==
  /\ ppc[c] = "exited"
  /\ Goto(c, "join", "release")
  /\ outcome' = [outcome EXCEPT ![c] = IF failed[c] THEN "internal" ELSE @]
  /\ \/ UNCHANGED recorded
     \/ /\ outcome'[c] = "ok" /\ c \in Recording
        /\ recorded' = [recorded EXCEPT ![c] = TRUE]
  /\ UNCHANGED <<passActive, ev, queue, closed, stop, cancelled, delivered,
                 producerVars>>

\* The pass_guard goes out of scope.
Release(c) ==
  /\ Goto(c, "release", "returned")
  /\ passActive' = IF c \in Passes THEN FALSE ELSE passActive
  /\ UNCHANGED <<outcome, ev, queue, closed, stop, cancelled, recorded,
                 delivered, producerVars>>

------------------------------------------------------------------------------
(* stream_pass, one step per visit to the queue, the context or the writer.   *)

\* Mutant: reads the front of the queue and leaves it there.
WaitWithoutPop(c) ==
  /\ Goto(c, "wait", "woken")
  /\ ev' = [ev EXCEPT ![c] = IF queue[c] = <<>> THEN NoEvent ELSE Head(queue[c])]
  /\ UNCHANGED <<passActive, outcome, queue, closed, stop, cancelled, recorded,
                 delivered, producerVars>>

\* queue.wait returns an event, or nothing: closed, or 200 ms went by.
Wait(c) ==
  /\ Goto(c, "wait", "woken")
  /\ IF queue[c] = <<>>
     THEN ev' = [ev EXCEPT ![c] = NoEvent] /\ UNCHANGED queue
     ELSE /\ ev' = [ev EXCEPT ![c] = Head(queue[c])]
          /\ queue' = [queue EXCEPT ![c] = Tail(@)]
  /\ UNCHANGED <<passActive, outcome, closed, stop, cancelled, recorded,
                 delivered, producerVars>>

\* Stop the producer, close the queue and end with `cancelled`.
Abandon(c, from) ==
  /\ Goto(c, from, "join")
  /\ stop' = [stop EXCEPT ![c] = TRUE]
  /\ closed' = [closed EXCEPT ![c] = TRUE]
  /\ outcome' = [outcome EXCEPT ![c] = "cancelled"]
  /\ UNCHANGED <<passActive, ev, queue, cancelled, recorded, delivered,
                 producerVars>>

\* The context is cancelled: an event already taken is dropped.
SeeCancel(c) == cancelled[c] /\ Abandon(c, "woken")

CheckContext(c) ==
  /\ ~cancelled[c]
  /\ Goto(c, "woken", IF ev[c] = NoEvent THEN "poll" ELSE "write")
  /\ UNCHANGED <<passActive, outcome, ev, queue, closed, stop, cancelled,
                 recorded, delivered, producerVars>>

\* write_one: the writer takes the event ...
Write(c) ==
  /\ Goto(c, "write", "wait")
  /\ delivered' = [delivered EXCEPT ![c] = Append(@, ev[c])]
  /\ ev' = [ev EXCEPT ![c] = NoEvent]
  /\ UNCHANGED <<passActive, outcome, queue, closed, stop, cancelled, recorded,
                 producerVars>>

\* ... or refuses it.
WriteRefused(c) == Abandon(c, "write")

\* No event came: the stream is over when the queue is closed.
CheckClosed(c) ==
  /\ Goto(c, "poll", IF closed[c] THEN "join" ELSE "wait")
  /\ outcome' = [outcome EXCEPT ![c] = IF closed[c] THEN "ok" ELSE @]
  /\ UNCHANGED <<passActive, ev, queue, closed, stop, cancelled, recorded,
                 delivered, producerVars>>

------------------------------------------------------------------------------
(* The producer thread.                                                       *)

PushEvent(c, e) ==
  /\ queue' = [queue EXCEPT ![c] = Append(@, e)]
  /\ pushed' = [pushed EXCEPT ![c] = Append(@, e)]

Push(c) ==
  /\ ppc[c] = "running"
  /\ Len(pushed[c]) < MaxEvents
  /\ \E e \in Item : PushEvent(c, e)
  /\ UNCHANGED <<passActive, closed, ppc, stop, failed, cancelled, persisted,
                 recorded, delivered, consumerVars>>

\* The pass writes its results in a transaction.
Persist(c) ==
  /\ ProducerGoto(c, "running", "saved")
  /\ persisted' = [persisted EXCEPT ![c] = TRUE]
  /\ UNCHANGED <<passActive, queue, closed, stop, failed, cancelled, recorded,
                 pushed, delivered, consumerVars>>

PushComplete(c) ==
  /\ ProducerGoto(c, "saved", "closing")
  /\ PushEvent(c, Complete)
  /\ UNCHANGED <<passActive, closed, stop, failed, cancelled, persisted,
                 recorded, delivered, consumerVars>>

\* A pass that looks at its stop token returns without a Complete.
StopEarly(c) ==
  /\ stop[c]
  /\ ProducerGoto(c, "running", "closing")
  /\ UNCHANGED <<passActive, queue, closed, stop, failed, cancelled, persisted,
                 recorded, pushed, delivered, consumerVars>>

\* Mutant: the exception leaves the thread before queue.close().
ThrowPastClose(c) ==
  /\ ProducerGoto(c, "running", "exited")
  /\ failed' = [failed EXCEPT ![c] = TRUE]
  /\ UNCHANGED <<passActive, queue, closed, stop, cancelled, persisted, recorded,
                 pushed, delivered, consumerVars>>

\* The pass throws; run_producer keeps the exception.
Throw(c) ==
  /\ ProducerGoto(c, "running", "closing")
  /\ failed' = [failed EXCEPT ![c] = TRUE]
  /\ UNCHANGED <<passActive, queue, closed, stop, cancelled, persisted, recorded,
                 pushed, delivered, consumerVars>>

\* run_producer closes the queue however the pass ended.
Close(c) ==
  /\ ProducerGoto(c, "closing", "exited")
  /\ closed' = [closed EXCEPT ![c] = TRUE]
  /\ UNCHANGED <<passActive, queue, stop, failed, cancelled, persisted, recorded,
                 pushed, delivered, consumerVars>>

------------------------------------------------------------------------------
\* request_context::cancel, from another thread, at any time in the call.
Cancel(c) ==
  /\ pc[c] \notin {"idle", "returned"} /\ ~cancelled[c]
  /\ cancelled' = [cancelled EXCEPT ![c] = TRUE]
  /\ UNCHANGED <<passActive, queue, closed, stop, recorded, delivered,
                 consumerVars, producerVars>>

Stream(c) ==
  \/ Wait(c) \/ SeeCancel(c) \/ CheckContext(c)
  \/ Write(c) \/ WriteRefused(c) \/ CheckClosed(c)
Consumer(c) ==
  Reject(c) \/ StartProducer(c) \/ Stream(c) \/ Join(c) \/ Release(c)
Producer(c) ==
  Push(c) \/ Persist(c) \/ PushComplete(c) \/ StopEarly(c) \/ Throw(c) \/ Close(c)

Next ==
  \E c \in Calls :
    Begin(c) \/ Refuse(c) \/ Consumer(c) \/ Producer(c) \/ Cancel(c)

Spec == Init /\ [][Next]_vars

\* Both threads of a call are scheduled.  Nobody has to make or cancel a call.
FairSpec ==
  /\ Spec
  /\ \A c \in Calls : WF_vars(Consumer(c)) /\ WF_vars(Producer(c))

------------------------------------------------------------------------------
ProducerAlive(c) == ppc[c] \in {"running", "saved", "closing"}
InHand(c) == IF ev[c] = NoEvent THEN <<>> ELSE <<ev[c]>>

\* A pass works on the session database until its producer is gone, even after
\* its caller was told the stream is over.  No two of the passes ever do so at
\* once (try_begin_pass, the pass_guard and the join before it goes).
OnePassAtATime ==
  \A c, d \in Passes :
    (pc[c] \notin {"idle", "returned"} \/ ProducerAlive(c))
      /\ (pc[d] \notin {"idle", "returned"} \/ ProducerAlive(d)) => c = d

\* The queue between the threads neither loses, repeats nor reorders: what was
\* handed over, what stream_pass holds and what waits is what was pushed.
NothingLostInQueue ==
  \A c \in Calls : delivered[c] \o InHand(c) \o queue[c] = pushed[c]

\* A resume trusts the completion stamp instead of running the pass again, so
\* only a run that committed its results and failed nowhere may be stamped,
\* however a cancel, an exception and the end of the stream fall together.
StampedRunsAreWhole ==
  \A c \in Calls :
    recorded[c] => persisted[c] /\ ~failed[c] /\ ~stop[c] /\ outcome[c] = "ok"

Outline(c) == INSTANCE OrderedStream
                WITH sent <- pushed[c], got <- delivered[c],
                     ended <- pc[c] \in {"join", "release", "returned"}

\* Each call implements OrderedStream: its reader sees the pass's events in order
\* without a gap, and none after stream_pass has returned.
DeliversInOrder ==
  /\ \A c \in Calls : Outline(c)!Init
  /\ [][\A c \in Calls : [Outline(c)!Next]_(Outline(c)!vars)]_vars

\* Every call returns, cancelled or not, and a pass gives the lock back.
EveryCallReturns ==
  \A c \in Calls : pc[c] = "setup" ~> pc[c] = "returned"

\* proto.md: every pass stream ends with a *Complete event on success.
SuccessEndsWithComplete ==
  \A c \in Calls :
    pc[c] = "returned" /\ outcome[c] = "ok" =>
      delivered[c] # <<>> /\ delivered[c][Len(delivered[c])] = Complete
==============================================================================
