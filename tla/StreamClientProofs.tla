-------------------------- MODULE StreamClientProofs --------------------------
(* What TLAPS proves of StreamClient for any number of streams and events.    *)
EXTENDS StreamClient, SequenceTheorems, TLAPS

(***************************************************************************)
(* The inductive invariant.  Flight is what was posted and has not run     *)
(* yet, in the order in which it will.                                     *)
(***************************************************************************)
Flight == batch \o queue

ContextInv ==
  \A s \in Streams :
    /\ callable[s] => ContextAlive(s)
    /\ at[s] \in {"pass", "event", "leave"} <=> lock = s
    /\ at[s] = "event" => sent[s] < MaxEvents[s]

\* Who is alive: the newest stream and, before its join, the one it replaces.
AliveInv ==
  /\ \A s \in Streams : s > made => at[s] = "none" /\ sent[s] = 0
  /\ \A s \in Streams : Alive(s) => s = made \/ (ui \in {"assign", "join"} /\ s = held)
  /\ ui \in {"assign", "join"} => arriving = made
  /\ ui = "free" => held = made

\* Only the newest stream can be of the current generation.
GenerationInv ==
  /\ \A s \in Streams : s < made => born[s] < generation
  /\ \A s \in Streams : s <= made => born[s] <= generation
  /\ op = "running" => made # None /\ born[made] = generation

\* What was posted comes from streams that were started, a done from one that is over;
\* each stream's tasks are in order, its done is the last.
OrderInv ==
  \A i \in 1 .. Len(Flight) :
    /\ Flight[i].stream <= made
    /\ Flight[i].kind = "event" => Flight[i].number <= sent[Flight[i].stream]
    /\ Flight[i].kind = "done" => at[Flight[i].stream] = "exited"
    /\ \A j \in 1 .. i - 1 : Flight[j].stream = Flight[i].stream =>
         /\ Flight[j].kind = "event"
         /\ Flight[i].kind = "event" => Flight[j].number < Flight[i].number

\* Of the current operation's events, those that were not applied are in flight.
AppliedInv ==
  IF made # None /\ born[made] = generation
  THEN /\ Len(applied) <= sent[made]
       /\ \A i \in 1 .. Len(applied) : applied[i] = <<made, i>>
       /\ \A n \in Nat : n > Len(applied) /\ n <= sent[made] =>
            \E i \in 1 .. Len(Flight) :
              Flight[i].stream = made /\ Flight[i].kind = "event" /\ Flight[i].number = n
       /\ \A i \in 1 .. Len(Flight) :
            Flight[i].stream = made /\ Flight[i].kind = "event" =>
              Flight[i].number > Len(applied)
  ELSE applied = <<>>

IInv == TypeOK /\ ContextInv /\ AliveInv /\ GenerationInv /\ OrderInv /\ AppliedInv

------------------------------------------------------------------------------
\* The tasks in flight are tasks.
LEMMA FlightTyped ==
  ASSUME TypeOK
  PROVE  /\ Flight \in Seq(Task) /\ Len(Flight) \in Nat
         /\ \A i \in 1 .. Len(Flight) : Flight[i] \in Task
<1>1. batch \in Seq(Task) /\ queue \in Seq(Task)
  BY DEF TypeOK
<1>2. Flight \in Seq(Task)
  BY <1>1, ConcatProperties DEF Flight
<1> QED BY <1>2, ElementOfSeq, LenProperties

\* drain changes nothing about what is in flight.
LEMMA FlightDrained ==
  ASSUME TypeOK, Drain
  PROVE  Flight' = Flight
<1>1. batch = <<>> /\ batch' = queue /\ queue' = <<>> /\ queue \in Seq(Task)
  BY DEF TypeOK, Drain
<1> QED BY <1>1, ConcatEmptySeq DEF Flight

\* The task that runs is the first in flight.
LEMMA FlightTaken ==
  ASSUME TypeOK, NEW t, NextTask(t), queue' = queue
  PROVE  /\ 1 \in 1 .. Len(Flight) /\ t = Flight[1]
         /\ Len(Flight') = Len(Flight) - 1
         /\ \A i \in 1 .. Len(Flight') : Flight'[i] = Flight[i + 1]
<1>1. batch \in Seq(Task) /\ queue \in Seq(Task) /\ batch # <<>>
  BY DEF TypeOK, NextTask
<1>2. batch' = Tail(batch) /\ t = Head(batch)
  BY DEF NextTask
<1>3. /\ batch' \in Seq(Task) /\ Len(batch') = Len(batch) - 1 /\ t = batch[1]
      /\ \A i \in 1 .. Len(batch') : batch'[i] = batch[i + 1]
  BY <1>1, <1>2, HeadTailProperties
<1>4. Len(batch) \in Nat /\ Len(batch) # 0 /\ Len(queue) \in Nat
  BY <1>1, LenProperties, EmptySeq
<1>5. /\ Len(Flight) = Len(batch) + Len(queue)
      /\ \A i \in 1 .. Len(Flight) :
           Flight[i] = IF i <= Len(batch) THEN batch[i] ELSE queue[i - Len(batch)]
  BY <1>1, ConcatProperties DEF Flight
<1>6. /\ Len(Flight') = Len(batch') + Len(queue)
      /\ \A i \in 1 .. Len(Flight') :
           Flight'[i] = IF i <= Len(batch') THEN batch'[i] ELSE queue[i - Len(batch')]
  <2>1. Flight' = batch' \o queue
    BY DEF Flight
  <2> QED BY <1>1, <1>3, <2>1, ConcatProperties
<1>7. 1 \in 1 .. Len(Flight) /\ Len(Flight') = Len(Flight) - 1
  BY <1>3, <1>4, <1>5, <1>6
<1>8. t = Flight[1]
  BY <1>3, <1>4, <1>5, <1>7
<1>9. ASSUME NEW i \in 1 .. Len(Flight')
      PROVE  Flight'[i] = Flight[i + 1]
  <2>1. i + 1 \in 1 .. Len(Flight) /\ i + 1 - Len(batch) = i - Len(batch')
    BY <1>3, <1>4, <1>5, <1>7
  <2>2. i <= Len(batch') <=> i + 1 <= Len(batch)
    BY <1>3, <1>4, <1>5, <1>7
  <2>3. CASE i <= Len(batch')
    BY <2>1, <2>2, <2>3, <1>3, <1>4, <1>5, <1>6
  <2>4. CASE ~(i <= Len(batch'))
    BY <2>1, <2>2, <2>4, <1>5, <1>6
  <2> QED BY <2>3, <2>4
<1> QED BY <1>7, <1>8, <1>9

\* What a worker posts is the last in flight.
LEMMA FlightPosted ==
  ASSUME TypeOK, NEW t \in Task, Post(t), batch' = batch
  PROVE  /\ Len(Flight') = Len(Flight) + 1
         /\ Flight'[Len(Flight) + 1] = t
         /\ \A i \in 1 .. Len(Flight) : Flight'[i] = Flight[i]
<1>1. batch \in Seq(Task) /\ queue \in Seq(Task) /\ queue' = Append(queue, t)
  BY DEF TypeOK, Post
<1>2. /\ queue' \in Seq(Task) /\ Len(queue') = Len(queue) + 1
      /\ \A i \in 1 .. Len(queue) : queue'[i] = queue[i]
      /\ queue'[Len(queue) + 1] = t
  BY <1>1, AppendProperties
<1>3. Len(batch) \in Nat /\ Len(queue) \in Nat
  BY <1>1, LenProperties
<1>4. /\ Len(Flight) = Len(batch) + Len(queue)
      /\ \A i \in 1 .. Len(Flight) :
           Flight[i] = IF i <= Len(batch) THEN batch[i] ELSE queue[i - Len(batch)]
  BY <1>1, ConcatProperties DEF Flight
<1>5. /\ Len(Flight') = Len(batch) + Len(queue')
      /\ \A i \in 1 .. Len(Flight') :
           Flight'[i] = IF i <= Len(batch) THEN batch[i] ELSE queue'[i - Len(batch)]
  BY <1>1, <1>2, ConcatProperties DEF Flight
<1>6. Len(Flight') = Len(Flight) + 1
  BY <1>2, <1>3, <1>4, <1>5
<1>7. Flight'[Len(Flight) + 1] = t
  BY <1>2, <1>3, <1>4, <1>5, <1>6
<1>8. ASSUME NEW i \in 1 .. Len(Flight)
      PROVE  Flight'[i] = Flight[i]
  <2>1. i \in 1 .. Len(Flight')
    BY <1>3, <1>4, <1>6
  <2>2. CASE i <= Len(batch)
    BY <2>1, <2>2, <1>4, <1>5
  <2>3. CASE ~(i <= Len(batch))
    <3>1. i - Len(batch) \in 1 .. Len(queue)
      BY <2>3, <1>3, <1>4
    <3> QED BY <3>1, <2>1, <2>3, <1>2, <1>4, <1>5
  <2> QED BY <2>2, <2>3
<1> QED BY <1>6, <1>7, <1>8

------------------------------------------------------------------------------
(* Types.                                                                     *)

\* Starting a pass keeps the wizard's types.
LEMMA LaunchTypes ==
  ASSUME TypeOK, LaunchPass
  PROVE  /\ op' = "running" /\ ui' = "assign" /\ applied' = <<>>
         /\ made' \in Streams /\ made' \in 0 .. MaxStreams /\ arriving' = made'
         /\ generation' \in Nat /\ born' \in [Streams -> Nat]
         /\ at' = [at EXCEPT ![made'] = "start"]
BY BoundAssumption, SMTT(30) DEF TypeOK, LaunchPass, Streams

\* Cancelling a stream keeps the types.
LEMMA CancelTypes ==
  ASSUME TypeOK, NEW s \in Streams \cup {None}, CancelStream(s)
  PROVE  cancelled' \in [Streams -> BOOLEAN] /\ stopped' \in [Streams -> BOOLEAN]
BY DEF TypeOK, CancelStream, None

\* TypeOK is kept by every step.
LEMMA TypeStep ==
  ASSUME TypeOK, ContextInv, [Next]_vars
  PROVE  TypeOK'
<1>1. CASE UNCHANGED vars
  BY <1>1 DEF vars, wizardVars, workerVars, TypeOK
<1>2. CASE StartPass
  <2>1. LaunchPass
    BY <1>2 DEF StartPass
  <2>2. applied' \in Seq(Streams \X (Nat \ {0}))
    BY <2>1, LaunchTypes, EmptySeq
  <2>3. at' \in [Streams -> {"none", "start", "call", "pass", "event", "leave",
                            "clear", "last", "done", "exited"}]
    BY <2>1, LaunchTypes DEF TypeOK
  <2> QED BY <1>2, <2>1, <2>2, <2>3, LaunchTypes DEF StartPass, TypeOK
<1>3. CASE CancelPass
  <2>1. cancelled' \in [Streams -> BOOLEAN] /\ stopped' \in [Streams -> BOOLEAN]
    BY <1>3, CancelTypes DEF CancelPass, TypeOK
  <2> QED BY <1>3, <2>1, EmptySeq DEF CancelPass, TypeOK, workerVars
<1>4. CASE AssignCancels
  <2>1. cancelled' \in [Streams -> BOOLEAN] /\ stopped' \in [Streams -> BOOLEAN]
    BY <1>4, CancelTypes DEF AssignCancels, TypeOK
  <2> QED BY <1>4, <2>1 DEF AssignCancels, TypeOK, workerVars
<1>5. CASE AssignJoins
  BY <1>5 DEF AssignJoins, TypeOK, workerVars, None
<1>6. CASE Drain
  BY <1>6, EmptySeq DEF Drain, TypeOK, workerVars
<1>7. CASE RunTask
  <2>1. PICK t : DropTask(t) \/ ApplyEvent(t) \/ ApplyDone(t) \/ ApplyDoneThenStart(t)
    BY <1>7 DEF RunTask
  <2>2. NextTask(t) /\ queue' = queue
    BY <2>1 DEF DropTask, ApplyEvent, ApplyDone, ApplyDoneThenStart
  <2>3. t \in Task
    BY <2>2, FlightTaken, FlightTyped
  <2>4. batch' \in Seq(Task)
    BY <2>2, HeadTailProperties DEF NextTask, TypeOK
  <2>5. CASE DropTask(t)
    BY <2>4, <2>5 DEF DropTask, TypeOK, workerVars
  <2>6. CASE ApplyEvent(t)
    <3>1. <<t.stream, t.number>> \in Streams \X (Nat \ {0})
      BY <2>3, <2>6 DEF ApplyEvent, Task
    <3>2. applied' \in Seq(Streams \X (Nat \ {0}))
      BY <3>1, <2>6, AppendProperties DEF ApplyEvent, TypeOK
    <3> QED BY <2>4, <2>6, <3>2 DEF ApplyEvent, TypeOK, workerVars
  <2>7. CASE ApplyDone(t)
    BY <2>4, <2>7 DEF ApplyDone, TypeOK, workerVars
  <2>8. CASE ApplyDoneThenStart(t)
    <3>1. LaunchPass
      BY <2>8 DEF ApplyDoneThenStart
    <3> QED BY <2>4, <2>8, <3>1, LaunchTypes, EmptySeq, ZenonT(60) DEF ApplyDoneThenStart, TypeOK
  <2> QED BY <2>1, <2>5, <2>6, <2>7, <2>8
<1>8. ASSUME NEW s \in Streams, Worker(s)
      PROVE  TypeOK'
  <2> USE DEF TypeOK, wizardVars, Goto
  <2>1. CASE EnterCall(s)
    BY <2>1 DEF EnterCall
  <2>2. CASE BeginPass(s)
    BY <2>2 DEF BeginPass
  <2>3. CASE OfferEvent(s)
    BY <2>3 DEF OfferEvent
  <2>4. CASE OnEvent(s)
    <3>1. sent[s] < MaxEvents[s] /\ sent' = [sent EXCEPT ![s] = @ + 1]
      BY <2>4 DEF OnEvent, ContextInv
    <3>2. sent' \in [Streams -> Nat] /\ \A u \in Streams : sent'[u] <= MaxEvents[u]
      <4>1. \A u \in Streams : sent[u] \in Nat /\ MaxEvents[u] \in Nat
        BY BoundAssumption
      <4>2. sent[s] + 1 \in Nat /\ sent[s] + 1 <= MaxEvents[s]
        BY <3>1, <4>1
      <4> HIDE DEF TypeOK
      <4>3. sent \in [Streams -> Nat] /\ \A u \in Streams : sent[u] <= MaxEvents[u]
        BY DEF TypeOK
      <4> QED BY <3>1, <4>2, <4>3
    <3>3. [stream |-> s, kind |-> "event", number |-> sent'[s]] \in Task
      BY <3>1 DEF Task
    <3>4. queue' \in Seq(Task)
      BY <2>4, <3>3, AppendProperties DEF OnEvent, Post
    <3> QED BY <2>4, <3>2, <3>4 DEF OnEvent
  <2>5. CASE EndPass(s)
    BY <2>5 DEF EndPass
  <2>6. CASE LeavePass(s)
    BY <2>6 DEF LeavePass
  <2>7. CASE ClearCall(s)
    BY <2>7 DEF ClearCall
  <2>8. CASE LastLook(s)
    BY <2>8 DEF LastLook
  <2>9. CASE OnDone(s)
    <3>1. [stream |-> s, kind |-> "done", ok |-> result[s] = "ok"] \in Task
      BY DEF Task
    <3>2. queue' \in Seq(Task)
      BY <2>9, <3>1, AppendProperties DEF OnDone, Post
    <3> QED BY <2>9, <3>2 DEF OnDone
  <2> QED BY <1>8, <2>1, <2>2, <2>3, <2>4, <2>5, <2>6, <2>7, <2>8, <2>9 DEF Worker
<1> QED BY <1>1, <1>2, <1>3, <1>4, <1>5, <1>6, <1>7, <1>8 DEF Next, Wizard, UiThread

------------------------------------------------------------------------------
(* The control of the workers and of the wizard.                              *)

\* A worker changes nothing of the wizard's and nothing of another worker's.
LEMMA WorkerShape ==
  ASSUME TypeOK, NEW s \in Streams, Worker(s)
  PROVE  /\ UNCHANGED wizardVars
         /\ Alive(s)
         /\ \A u \in Streams : u # s => at'[u] = at[u] /\ sent'[u] = sent[u]
<1> USE DEF TypeOK, Goto, Alive, wizardVars
<1>1. CASE EnterCall(s)
  BY <1>1 DEF EnterCall
<1>2. CASE BeginPass(s)
  BY <1>2 DEF BeginPass
<1>3. CASE OfferEvent(s)
  BY <1>3 DEF OfferEvent
<1>4. CASE OnEvent(s)
  BY <1>4 DEF OnEvent
<1>5. CASE EndPass(s)
  BY <1>5 DEF EndPass
<1>6. CASE LeavePass(s)
  BY <1>6 DEF LeavePass
<1>7. CASE ClearCall(s)
  BY <1>7 DEF ClearCall
<1>8. CASE LastLook(s)
  BY <1>8 DEF LastLook
<1>9. CASE OnDone(s)
  BY <1>9 DEF OnDone
<1> QED BY <1>1, <1>2, <1>3, <1>4, <1>5, <1>6, <1>7, <1>8, <1>9 DEF Worker

\* What the UI thread does leaves the workers alone, but for the one it starts.
LEMMA UiShape ==
  ASSUME TypeOK, StartPass \/ CancelPass \/ AssignCancels \/ AssignJoins \/ Drain \/ RunTask
  PROVE  /\ UNCHANGED <<callable, lock, result, sent>>
         /\ UNCHANGED <<at, made, born>> \/ (LaunchPass /\ ui = "free" /\ UNCHANGED held)
<1>1. CASE RunTask
  <2>1. PICK t : DropTask(t) \/ ApplyEvent(t) \/ ApplyDone(t) \/ ApplyDoneThenStart(t)
    BY <1>1 DEF RunTask
  <2> QED BY <2>1 DEF DropTask, ApplyEvent, ApplyDone, ApplyDoneThenStart, NextTask, workerVars
<1> QED BY <1>1 DEF StartPass, CancelPass, AssignCancels, AssignJoins, Drain, workerVars

\* Each worker's hold on the context and the lock survives every step.
LEMMA ContextStep ==
  ASSUME TypeOK, ContextInv, AliveInv, [Next]_vars
  PROVE  ContextInv'
<1> USE DEF ContextInv, ContextAlive
<1>1. CASE UNCHANGED vars
  BY <1>1 DEF vars, workerVars
<1>2. CASE StartPass \/ CancelPass \/ AssignCancels \/ AssignJoins \/ Drain \/ RunTask
  <2>1. CASE UNCHANGED <<at, made, born>>
    BY <1>2, <2>1, UiShape
  <2>2. CASE LaunchPass
    <3>1. made + 1 \in Streams /\ at[made + 1] = "none" /\ at' = [at EXCEPT ![made + 1] = "start"]
      BY <2>2, BoundAssumption DEF LaunchPass, AliveInv, TypeOK, Streams
    <3> QED BY <1>2, <3>1, UiShape DEF TypeOK
  <2> QED BY <1>2, <2>1, <2>2, UiShape
<1>3. ASSUME NEW s \in Streams, Worker(s)
      PROVE  ContextInv'
  <2> USE DEF TypeOK, Goto, None, Streams
  <2>1. CASE EnterCall(s)
    BY <2>1 DEF EnterCall
  <2>2. CASE BeginPass(s)
    BY <2>2 DEF BeginPass
  <2>3. CASE OfferEvent(s)
    BY <2>3 DEF OfferEvent
  <2>4. CASE OnEvent(s)
    BY <2>4 DEF OnEvent
  <2>5. CASE EndPass(s)
    BY <2>5 DEF EndPass
  <2>6. CASE LeavePass(s)
    BY <2>6 DEF LeavePass
  <2>7. CASE ClearCall(s)
    BY <2>7 DEF ClearCall
  <2>8. CASE LastLook(s)
    BY <2>8 DEF LastLook
  <2>9. CASE OnDone(s)
    BY <2>9 DEF OnDone
  <2> QED BY <1>3, <2>1, <2>2, <2>3, <2>4, <2>5, <2>6, <2>7, <2>8, <2>9 DEF Worker
<1> QED BY <1>1, <1>2, <1>3 DEF Next, Wizard, UiThread

\* At most the newest worker and the one it replaces are alive, after every step.
LEMMA AliveStep ==
  ASSUME TypeOK, AliveInv, [Next]_vars
  PROVE  AliveInv'
<1> USE DEF AliveInv, Alive
<1>1. CASE UNCHANGED vars
  BY <1>1 DEF vars, wizardVars, workerVars
<1>2. CASE StartPass
  BY <1>2, LaunchTypes, BoundAssumption DEF StartPass, LaunchPass, TypeOK, Streams
<1>3. CASE CancelPass
  BY <1>3 DEF CancelPass, workerVars
<1>4. CASE AssignCancels
  BY <1>4 DEF AssignCancels, workerVars
<1>5. CASE AssignJoins
  BY <1>5 DEF AssignJoins, workerVars, None, TypeOK, Streams
<1>6. CASE Drain
  BY <1>6 DEF Drain, workerVars
<1>7. CASE RunTask
  <2>1. PICK t : DropTask(t) \/ ApplyEvent(t) \/ ApplyDone(t) \/ ApplyDoneThenStart(t)
    BY <1>7 DEF RunTask
  <2>2. CASE DropTask(t) \/ ApplyEvent(t) \/ ApplyDone(t)
    BY <2>2 DEF DropTask, ApplyEvent, ApplyDone, workerVars
  <2>3. CASE ApplyDoneThenStart(t)
    BY <2>3, BoundAssumption, SMTT(30) DEF ApplyDoneThenStart, NextTask, LaunchPass, TypeOK, Streams
  <2> QED BY <2>1, <2>2, <2>3
<1>8. ASSUME NEW s \in Streams, Worker(s)
      PROVE  AliveInv'
  BY <1>8, WorkerShape DEF wizardVars, TypeOK, Streams
<1> QED BY <1>1, <1>2, <1>3, <1>4, <1>5, <1>6, <1>7, <1>8 DEF Next, Wizard, UiThread

\* Generations only grow, and only the newest stream can have the current one.
LEMMA GenerationStep ==
  ASSUME TypeOK, GenerationInv, [Next]_vars
  PROVE  GenerationInv'
<1> USE DEF GenerationInv
<1>1. ASSUME LaunchPass
      PROVE  GenerationInv'
  <2>1. /\ made' = made + 1 /\ made' \in Streams /\ made \in Nat
        /\ generation' = generation + 1 /\ generation \in Nat
        /\ born' = [born EXCEPT ![made'] = generation'] /\ born \in [Streams -> Nat]
    BY <1>1, BoundAssumption, SMTT(30) DEF LaunchPass, TypeOK, Streams
  <2>2. born'[made'] = generation' /\ made' # None
    BY <2>1 DEF None
  <2>3. ASSUME NEW s \in Streams, s < made'
        PROVE  born'[s] < generation'
    <3>1. s <= made /\ born'[s] = born[s] /\ born[s] \in Nat
      BY <2>1, <2>3 DEF Streams
    <3> QED BY <3>1, <2>1
  <2>4. \A s \in Streams : s <= made' => born'[s] <= generation'
    BY <2>1, <2>2, <2>3 DEF Streams
  <2> QED BY <2>2, <2>3, <2>4
<1>2. CASE UNCHANGED vars
  BY <1>2 DEF vars, wizardVars
<1>3. CASE StartPass
  BY <1>1, <1>3 DEF StartPass
<1>4. CASE CancelPass
  BY <1>4 DEF CancelPass, TypeOK
<1>5. CASE AssignCancels \/ AssignJoins \/ Drain
  BY <1>5 DEF AssignCancels, AssignJoins, Drain
<1>6. CASE RunTask
  <2>1. PICK t : DropTask(t) \/ ApplyEvent(t) \/ ApplyDone(t) \/ ApplyDoneThenStart(t)
    BY <1>6 DEF RunTask
  <2> QED BY <1>1, <2>1 DEF DropTask, ApplyEvent, ApplyDone, ApplyDoneThenStart
<1>7. ASSUME NEW s \in Streams, Worker(s)
      PROVE  GenerationInv'
  BY <1>7, WorkerShape DEF wizardVars
<1> QED BY <1>2, <1>3, <1>4, <1>5, <1>6, <1>7 DEF Next, Wizard, UiThread

------------------------------------------------------------------------------
(* What is in flight.                                                         *)

\* The stream of a task that runs in the current generation is the newest one.
LEMMA CurrentIsNewest ==
  ASSUME TypeOK, GenerationInv, OrderInv, NEW t, NextTask(t), queue' = queue, Current(t)
  PROVE  t.stream = made /\ made \in Streams /\ t \in Task /\ t = Flight[1]
<1>1. 1 \in 1 .. Len(Flight) /\ t = Flight[1] /\ t \in Task
  BY FlightTaken, FlightTyped
<1>2. t.stream \in Streams /\ t.stream <= made
  BY <1>1 DEF OrderInv, Task
<1>3. ~(t.stream < made)
  <2>1. born[t.stream] = generation /\ generation \in Nat
    BY DEF Current, TypeOK
  <2> QED BY <1>2, <2>1 DEF GenerationInv
<1>4. t.stream = made
  BY <1>2, <1>3 DEF TypeOK, Streams
<1> QED BY <1>1, <1>2, <1>4

\* Of the steps that take the first task, each leaves the rest in order.
LEMMA OrderTaken ==
  ASSUME TypeOK, OrderInv, NEW t, NextTask(t), queue' = queue,
         made' >= made, made' \in Nat, sent' = sent,
         \A u \in Streams : at[u] = "exited" /\ u <= made => at'[u] = "exited"
  PROVE  OrderInv'
<1>1. /\ Len(Flight') = Len(Flight) - 1 /\ Len(Flight) \in Nat
      /\ \A i \in 1 .. Len(Flight') : Flight'[i] = Flight[i + 1]
      /\ \A i \in 1 .. Len(Flight) : Flight[i] \in Task
  BY FlightTaken, FlightTyped
<1> SUFFICES ASSUME NEW i \in 1 .. Len(Flight')
             PROVE  /\ Flight'[i].stream <= made'
                    /\ Flight'[i].kind = "event" => Flight'[i].number <= sent'[Flight'[i].stream]
                    /\ Flight'[i].kind = "done" => at'[Flight'[i].stream] = "exited"
                    /\ \A j \in 1 .. i - 1 : Flight'[j].stream = Flight'[i].stream =>
                         /\ Flight'[j].kind = "event"
                         /\ Flight'[i].kind = "event" => Flight'[j].number < Flight'[i].number
  BY DEF OrderInv
<1>2. i + 1 \in 1 .. Len(Flight) /\ Flight'[i] = Flight[i + 1] /\ Flight[i + 1].stream \in Streams
  BY <1>1 DEF Task
<1>3. ASSUME NEW j \in 1 .. i - 1, Flight'[j].stream = Flight'[i].stream
      PROVE  /\ Flight'[j].kind = "event"
             /\ Flight'[i].kind = "event" => Flight'[j].number < Flight'[i].number
  <2>1. j + 1 \in 1 .. (i + 1) - 1 /\ Flight'[j] = Flight[j + 1]
    BY <1>1, <1>2
  <2> QED BY <1>2, <1>3, <2>1 DEF OrderInv
<1>4. /\ Flight[i + 1].stream <= made
      /\ Flight[i + 1].kind = "event" => Flight[i + 1].number <= sent[Flight[i + 1].stream]
      /\ Flight[i + 1].kind = "done" => at[Flight[i + 1].stream] = "exited"
  BY <1>2 DEF OrderInv
<1>5. Flight'[i].stream <= made'
  BY <1>2, <1>4 DEF TypeOK, Streams
<1>6. Flight'[i].kind = "event" => Flight'[i].number <= sent'[Flight'[i].stream]
  BY <1>2, <1>4
<1>7. Flight'[i].kind = "done" => at'[Flight'[i].stream] = "exited"
  BY <1>2, <1>4
<1> QED BY <1>3, <1>5, <1>6, <1>7

\* A task posted by a stream that is not over comes last and in order.
LEMMA OrderPosted ==
  ASSUME TypeOK, OrderInv, AliveInv, NEW s \in Streams, NEW t \in Task, Post(t),
         UNCHANGED wizardVars, t.stream = s, Alive(s),
         t.kind = "event" => t.number > sent[s] /\ t.number <= sent'[s],
         t.kind = "done" => at'[s] = "exited",
         sent'[s] >= sent[s], sent' \in [Streams -> Nat],
         \A u \in Streams : u # s => at'[u] = at[u] /\ sent'[u] = sent[u]
  PROVE  OrderInv'
<1>1. /\ Len(Flight') = Len(Flight) + 1 /\ Len(Flight) \in Nat
      /\ Flight'[Len(Flight) + 1] = t
      /\ \A i \in 1 .. Len(Flight) : Flight'[i] = Flight[i] /\ Flight[i] \in Task
  BY FlightPosted, FlightTyped DEF wizardVars
<1>2. made' = made /\ s <= made
  BY DEF wizardVars, AliveInv, Alive, TypeOK, Streams
<1> SUFFICES ASSUME NEW i \in 1 .. Len(Flight')
             PROVE  /\ Flight'[i].stream <= made'
                    /\ Flight'[i].kind = "event" => Flight'[i].number <= sent'[Flight'[i].stream]
                    /\ Flight'[i].kind = "done" => at'[Flight'[i].stream] = "exited"
                    /\ \A j \in 1 .. i - 1 : Flight'[j].stream = Flight'[i].stream =>
                         /\ Flight'[j].kind = "event"
                         /\ Flight'[i].kind = "event" => Flight'[j].number < Flight'[i].number
  BY DEF OrderInv
<1>3. CASE i \in 1 .. Len(Flight)
  <2>1. Flight'[i] = Flight[i] /\ Flight[i] \in Task /\ Flight[i].stream \in Streams
    BY <1>1, <1>3 DEF Task
  <2>2. Flight[i].kind = "event" => Flight[i].number \in Nat
    BY <2>1 DEF Task
  <2>3. Flight[i].stream = s => Flight[i].kind # "done"
    BY <1>3, <2>1 DEF OrderInv, Alive
  <2>4. ASSUME NEW j \in 1 .. i - 1
        PROVE  j \in 1 .. Len(Flight) /\ Flight'[j] = Flight[j]
    BY <1>1, <1>3
  <2>5. \A j \in 1 .. i - 1 : Flight'[j].stream = Flight'[i].stream =>
          /\ Flight'[j].kind = "event"
          /\ Flight'[i].kind = "event" => Flight'[j].number < Flight'[i].number
    BY <1>3, <2>1, <2>4 DEF OrderInv
  <2>6. /\ Flight[i].stream <= made'
        /\ Flight[i].kind = "event" => Flight[i].number <= sent'[Flight[i].stream]
        /\ Flight[i].kind = "done" => at'[Flight[i].stream] = "exited"
    <3>1. Flight[i].stream <= made'
      BY <1>2, <1>3 DEF OrderInv
    <3>2. Flight[i].kind = "done" => at'[Flight[i].stream] = "exited"
      BY <1>3, <2>1, <2>3 DEF OrderInv
    <3>3. ASSUME Flight[i].kind = "event"
          PROVE  Flight[i].number <= sent'[Flight[i].stream]
      <4>1. Flight[i].number <= sent[Flight[i].stream] /\ Flight[i].number \in Nat
        BY <1>3, <2>2, <3>3 DEF OrderInv
      <4>2. /\ sent[Flight[i].stream] \in Nat /\ sent'[Flight[i].stream] \in Nat
            /\ sent[Flight[i].stream] <= sent'[Flight[i].stream]
        <5>1. sent \in [Streams -> Nat] /\ Flight[i].stream \in Streams
          BY <2>1 DEF TypeOK
        <5>2. CASE Flight[i].stream = s
          BY <5>1, <5>2
        <5>3. CASE Flight[i].stream # s
          BY <5>1, <5>3
        <5> QED BY <5>2, <5>3
      <4> QED BY <4>1, <4>2
    <3> QED BY <3>1, <3>2, <3>3
  <2> QED BY <2>1, <2>5, <2>6
<1>4. CASE i = Len(Flight) + 1
  <2>1. Flight'[i] = t
    BY <1>1, <1>4
  <2>2. ASSUME NEW j \in 1 .. i - 1, Flight'[j].stream = s
        PROVE  /\ Flight'[j].kind = "event"
               /\ t.kind = "event" => Flight'[j].number < t.number
    <3>1. j \in 1 .. Len(Flight) /\ Flight'[j] = Flight[j] /\ Flight[j] \in Task
      BY <1>1, <1>4
    <3>2. Flight[j].kind = "event"
      BY <2>2, <3>1 DEF OrderInv, Alive, Task
    <3>3. Flight[j].number <= sent[s] /\ Flight[j].number \in Nat /\ sent[s] \in Nat
      BY <2>2, <3>1, <3>2, ZenonT(60) DEF OrderInv, Task, TypeOK
    <3>4. t.kind = "event" => t.number \in Nat
      BY DEF Task
    <3> QED BY <3>1, <3>2, <3>3, <3>4
  <2> QED BY <1>2, <2>1, <2>2
<1> QED BY <1>1, <1>3, <1>4

\* A worker posts an event or its done, or nothing.
LEMMA WorkerPosts ==
  ASSUME TypeOK, NEW s \in Streams, Worker(s)
  PROVE  \/ UNCHANGED <<queue, sent>>
         \/ OnEvent(s)
         \/ OnDone(s)
BY DEF Worker, EnterCall, BeginPass, OfferEvent, EndPass, LeavePass, ClearCall, LastLook

\* The order in flight is kept by every step.
LEMMA OrderStep ==
  ASSUME TypeOK, TypeOK', ContextInv, AliveInv, GenerationInv, OrderInv, [Next]_vars
  PROVE  OrderInv'
<1>1. ASSUME UNCHANGED <<Flight, made, sent>>,
             \A u \in Streams : at[u] = "exited" /\ u <= made => at'[u] = "exited"
      PROVE  OrderInv'
  <2>1. \A i \in 1 .. Len(Flight) : Flight[i].stream \in Streams
    BY FlightTyped DEF Task
  <2> QED BY <1>1, <2>1 DEF OrderInv
<1>2. CASE UNCHANGED vars
  BY <1>1, <1>2 DEF vars, wizardVars, workerVars, Flight
<1>3. CASE StartPass
  <2>1. /\ made' = made + 1 /\ made \in Nat /\ sent' = sent /\ Flight' = Flight
        /\ \A u \in Streams : u <= made => at'[u] = at[u]
    BY <1>3 DEF StartPass, LaunchPass, TypeOK, Streams, Flight
  <2>2. \A i \in 1 .. Len(Flight) : Flight[i].stream \in Streams
    BY FlightTyped DEF Task
  <2> QED BY <2>1, <2>2 DEF OrderInv, Streams
<1>4. CASE CancelPass \/ AssignCancels \/ AssignJoins
  BY <1>1, <1>4 DEF CancelPass, AssignCancels, AssignJoins, workerVars, Flight
<1>5. CASE Drain
  BY <1>1, <1>5, FlightDrained DEF Drain, workerVars
<1>6. CASE RunTask
  <2>1. PICK t : DropTask(t) \/ ApplyEvent(t) \/ ApplyDone(t) \/ ApplyDoneThenStart(t)
    BY <1>6 DEF RunTask
  <2>2. NextTask(t) /\ queue' = queue /\ sent' = sent
    BY <2>1 DEF DropTask, ApplyEvent, ApplyDone, ApplyDoneThenStart, workerVars
  <2>3. made' \in Nat /\ made' >= made /\ \A u \in Streams : u <= made => at'[u] = at[u]
    <3>1. CASE DropTask(t) \/ ApplyEvent(t) \/ ApplyDone(t)
      BY <3>1 DEF DropTask, ApplyEvent, ApplyDone, workerVars, TypeOK
    <3>2. CASE ApplyDoneThenStart(t)
      BY <3>2 DEF ApplyDoneThenStart, LaunchPass, TypeOK, Streams
    <3> QED BY <2>1, <3>1, <3>2
  <2> QED BY <2>2, <2>3, OrderTaken
<1>7. ASSUME NEW s \in Streams, Worker(s)
      PROVE  OrderInv'
  <2>1. CASE UNCHANGED <<queue, sent>>
    BY <1>1, <1>7, <2>1, WorkerShape DEF wizardVars, Flight, Alive
  <2>2. CASE OnEvent(s)
    <3> DEFINE t == [stream |-> s, kind |-> "event", number |-> sent'[s]]
    <3>1. /\ sent'[s] = sent[s] + 1 /\ sent[s] \in Nat /\ sent' \in [Streams -> Nat]
          /\ Post(t)
      BY <2>2 DEF OnEvent, TypeOK
    <3>2. t \in Task
      BY <3>1 DEF Task
    <3> QED BY <1>7, <3>1, <3>2, WorkerShape, OrderPosted
  <2>3. CASE OnDone(s)
    <3> DEFINE t == [stream |-> s, kind |-> "done", ok |-> result[s] = "ok"]
    <3>1. /\ sent'[s] = sent[s] /\ sent[s] \in Nat /\ sent' \in [Streams -> Nat]
          /\ Post(t) /\ at'[s] = "exited"
      BY <2>3 DEF OnDone, TypeOK, Goto
    <3>2. t \in Task
      BY DEF Task
    <3> QED BY <1>7, <3>1, <3>2, WorkerShape, OrderPosted
  <2> QED BY <1>7, <2>1, <2>2, <2>3, WorkerPosts
<1> QED BY <1>2, <1>3, <1>4, <1>5, <1>6, <1>7 DEF Next, Wizard, UiThread

------------------------------------------------------------------------------
(* What was applied.                                                          *)

\* The wizard shows the pass that it started last.
Shows == made # None /\ born[made] = generation

\* The events of the shown pass that are in flight are those not applied yet.
Waiting(n) ==
  \E i \in 1 .. Len(Flight) :
    Flight[i].stream = made /\ Flight[i].kind = "event" /\ Flight[i].number = n

\* AppliedInv, in the terms that the steps below use.
LEMMA AppliedShown ==
  ASSUME AppliedInv, Shows
  PROVE  /\ Len(applied) <= sent[made]
         /\ \A i \in 1 .. Len(applied) : applied[i] = <<made, i>>
         /\ \A n \in Nat : n > Len(applied) /\ n <= sent[made] => Waiting(n)
         /\ \A i \in 1 .. Len(Flight) :
              Flight[i].stream = made /\ Flight[i].kind = "event" =>
                Flight[i].number > Len(applied)
BY DEF AppliedInv, Shows, Waiting

\* The number of what was applied, and of what was sent, is a number.
LEMMA AppliedTyped ==
  ASSUME TypeOK
  PROVE  /\ Len(applied) \in Nat
         /\ \A s \in Streams : sent[s] \in Nat
         /\ made # None => made \in Streams
<1>1. applied \in Seq(Streams \X (Nat \ {0})) /\ sent \in [Streams -> Nat]
  BY DEF TypeOK
<1>2. made # None => made \in Streams
  BY BoundAssumption DEF TypeOK, Streams, None
<1> QED BY <1>1, <1>2, LenProperties

\* A pass that was just started has nothing in flight.
LEMMA AppliedLaunched ==
  ASSUME TypeOK, AliveInv, LaunchPass, sent' = sent,
         \A i \in 1 .. Len(Flight') : Flight'[i].stream <= made
  PROVE  AppliedInv'
<1>1. /\ made' = made + 1 /\ made \in Nat /\ made' \in Streams /\ applied' = <<>>
  BY BoundAssumption DEF LaunchPass, TypeOK, Streams
<1>2. sent'[made'] = 0
  BY <1>1 DEF AliveInv
<1>3. Len(applied') = 0
  BY <1>1, EmptySeq
<1>4. \A i \in 1 .. Len(Flight') : Flight'[i].stream # made'
  <2>1. \A i \in 1 .. Len(Flight') : Flight'[i].stream <= made
    OBVIOUS
  <2> QED BY <1>1, <2>1
<1> QED BY <1>1, <1>2, <1>3, <1>4 DEF AppliedInv

\* Taking a task that is no event of the shown pass applies nothing.
LEMMA AppliedTaken ==
  ASSUME TypeOK, AppliedInv, NEW t, NextTask(t), queue' = queue,
         UNCHANGED <<made, born, generation, applied, sent>>,
         Shows => ~(t.stream = made /\ t.kind = "event")
  PROVE  AppliedInv'
<1>1. /\ 1 \in 1 .. Len(Flight) /\ t = Flight[1]
      /\ Len(Flight') = Len(Flight) - 1 /\ Len(Flight) \in Nat
      /\ \A i \in 1 .. Len(Flight') : Flight'[i] = Flight[i + 1]
  BY FlightTaken, FlightTyped
<1>2. CASE ~Shows
  BY <1>2 DEF AppliedInv, Shows
<1>3. CASE Shows
  <2>1. ASSUME NEW n \in Nat, n > Len(applied), n <= sent[made]
        PROVE  \E i \in 1 .. Len(Flight') : /\ Flight'[i].stream = made
                                            /\ Flight'[i].kind = "event"
                                            /\ Flight'[i].number = n
    <3>1. PICK i \in 1 .. Len(Flight) :
            Flight[i].stream = made /\ Flight[i].kind = "event" /\ Flight[i].number = n
      BY <1>3, <2>1, AppliedShown DEF Waiting
    <3>2. i # 1
      BY <1>1, <1>3, <3>1
    <3>3. i - 1 \in 1 .. Len(Flight') /\ Flight'[i - 1] = Flight[i]
      BY <1>1, <3>2
    <3> QED BY <3>1, <3>3
  <2>2. ASSUME NEW i \in 1 .. Len(Flight'), Flight'[i].stream = made, Flight'[i].kind = "event"
        PROVE  Flight'[i].number > Len(applied)
    <3>1. i + 1 \in 1 .. Len(Flight) /\ Flight'[i] = Flight[i + 1]
      BY <1>1
    <3> QED BY <1>3, <2>2, <3>1, AppliedShown
  <2> QED BY <1>3, <2>1, <2>2, AppliedShown DEF AppliedInv, Shows
<1> QED BY <1>2, <1>3

\* The first event in flight of the shown pass is the next one to apply.
LEMMA AppliedNext ==
  ASSUME TypeOK, OrderInv, AppliedInv, Shows, NEW t, NextTask(t), queue' = queue,
         t.stream = made, t.kind = "event"
  PROVE  t.number = Len(applied) + 1 /\ t.number <= sent[made]
<1>1. 1 \in 1 .. Len(Flight) /\ t = Flight[1] /\ t \in Task
  BY FlightTaken, FlightTyped
<1>2. t.number \in Nat /\ Len(applied) \in Nat /\ t.number > Len(applied)
  BY <1>1, AppliedShown, AppliedTyped DEF Task
<1>3. t.number <= sent[made] /\ sent[made] \in Nat
  BY <1>1, AppliedTyped DEF OrderInv, Shows
<1>4. ASSUME t.number > Len(applied) + 1
      PROVE  FALSE
  <2>1. Waiting(Len(applied) + 1)
    BY <1>2, <1>3, <1>4, AppliedShown
  <2>2. PICK i \in 1 .. Len(Flight) : /\ Flight[i].stream = made
                                      /\ Flight[i].kind = "event"
                                      /\ Flight[i].number = Len(applied) + 1
    BY <2>1 DEF Waiting
  <2>3. i # 1
    BY <1>1, <1>2, <1>4, <2>2
  <2>4. 1 \in 1 .. i - 1
    BY <2>3
  <2>5. Flight[1].number < Flight[i].number
    BY <1>1, <2>2, <2>4 DEF OrderInv
  <2> QED BY <1>1, <1>2, <1>4, <2>2, <2>5
<1> QED BY <1>2, <1>3, <1>4

\* Applying it leaves the rest waiting.
LEMMA AppliedEvent ==
  ASSUME TypeOK, GenerationInv, OrderInv, AppliedInv, NEW t, ApplyEvent(t)
  PROVE  AppliedInv'
<1>1. /\ NextTask(t) /\ queue' = queue /\ Current(t) /\ t.kind = "event"
      /\ UNCHANGED <<made, born, generation, sent>>
      /\ applied' = Append(applied, <<t.stream, t.number>>)
  BY DEF ApplyEvent, workerVars
<1>2. t.stream = made /\ made \in Streams /\ t \in Task
  BY <1>1, CurrentIsNewest
<1>3. Shows
  BY <1>1, <1>2 DEF Shows, Current, None, Streams
<1>4. t.number = Len(applied) + 1 /\ t.number <= sent[made]
  BY <1>1, <1>2, <1>3, AppliedNext
<1>5. /\ 1 \in 1 .. Len(Flight) /\ t = Flight[1]
      /\ Len(Flight') = Len(Flight) - 1 /\ Len(Flight) \in Nat
      /\ \A i \in 1 .. Len(Flight') : Flight'[i] = Flight[i + 1]
      /\ \A i \in 1 .. Len(Flight) : Flight[i] \in Task
  BY <1>1, FlightTaken, FlightTyped
<1>6. /\ Len(applied') = Len(applied) + 1 /\ Len(applied) \in Nat
      /\ applied'[Len(applied) + 1] = <<made, Len(applied) + 1>>
      /\ \A i \in 1 .. Len(applied) : applied'[i] = applied[i]
  <2>1. <<t.stream, t.number>> \in Streams \X (Nat \ {0})
    BY <1>1, <1>2 DEF Task
  <2>2. applied \in Seq(Streams \X (Nat \ {0}))
    BY DEF TypeOK
  <2> QED BY <1>1, <1>2, <1>4, <2>1, <2>2, AppendProperties, LenProperties
<1>7. \A i \in 1 .. Len(applied') : applied'[i] = <<made, i>>
  <2>1. \A i \in 1 .. Len(applied) : applied[i] = <<made, i>>
    BY <1>3, AppliedShown
  <2> QED BY <1>6, <2>1
<1>8. ASSUME NEW n \in Nat, n > Len(applied'), n <= sent[made]
      PROVE  \E i \in 1 .. Len(Flight') : /\ Flight'[i].stream = made
                                          /\ Flight'[i].kind = "event"
                                          /\ Flight'[i].number = n
  <2>1. n > Len(applied)
    BY <1>6, <1>8
  <2>2. PICK i \in 1 .. Len(Flight) :
          Flight[i].stream = made /\ Flight[i].kind = "event" /\ Flight[i].number = n
    BY <1>3, <1>8, <2>1, AppliedShown DEF Waiting
  <2>3. i # 1
    BY <1>4, <1>5, <1>6, <1>8, <2>2
  <2>4. i - 1 \in 1 .. Len(Flight') /\ Flight'[i - 1] = Flight[i]
    BY <1>5, <2>3
  <2> QED BY <2>2, <2>4
<1>9. ASSUME NEW i \in 1 .. Len(Flight'), Flight'[i].stream = made, Flight'[i].kind = "event"
      PROVE  Flight'[i].number > Len(applied')
  <2>1. i + 1 \in 1 .. Len(Flight) /\ Flight'[i] = Flight[i + 1] /\ 1 \in 1 .. (i + 1) - 1
    BY <1>5
  <2>2. Flight[1].number < Flight[i + 1].number
    BY <1>1, <1>2, <1>5, <1>9, <2>1 DEF OrderInv
  <2> QED BY <1>4, <1>5, <1>6, <2>1, <2>2
<1>10. Len(applied') <= sent[made]
  BY <1>4, <1>6
<1>11. made' # None /\ born'[made'] = generation' /\ made' = made /\ sent' = sent
  BY <1>1, <1>3 DEF Shows
<1> QED BY <1>7, <1>8, <1>9, <1>10, <1>11 DEF AppliedInv

\* A posted task waits behind the others.
LEMMA AppliedPosted ==
  ASSUME TypeOK, AliveInv, AppliedInv, NEW s \in Streams, NEW t \in Task, Post(t),
         UNCHANGED wizardVars, t.stream = s,
         \/ t.kind = "event" /\ t.number = sent'[s] /\ sent' = [sent EXCEPT ![s] = @ + 1]
         \/ t.kind = "done" /\ sent' = sent
  PROVE  AppliedInv'
<1>1. /\ Len(Flight') = Len(Flight) + 1 /\ Len(Flight) \in Nat
      /\ Flight'[Len(Flight) + 1] = t
      /\ \A i \in 1 .. Len(Flight) : Flight'[i] = Flight[i]
  BY FlightPosted, FlightTyped DEF wizardVars
<1>2. UNCHANGED <<made, born, generation, applied>>
  BY DEF wizardVars
<1>3. CASE ~Shows
  BY <1>2, <1>3 DEF AppliedInv, Shows
<1>4. CASE Shows
  <2>0. /\ made \in Streams /\ Len(applied) \in Nat /\ sent[made] \in Nat
        /\ Len(applied) <= sent[made] /\ sent \in [Streams -> Nat]
    BY <1>4, AppliedShown, AppliedTyped DEF Shows, TypeOK
  <2>1. sent'[made] = sent[made] \/ (s = made /\ t.kind = "event" /\ sent'[made] = sent[made] + 1)
    BY <2>0
  <2>2. ASSUME NEW n \in Nat, n > Len(applied), n <= sent'[made]
        PROVE  \E i \in 1 .. Len(Flight') : /\ Flight'[i].stream = made
                                            /\ Flight'[i].kind = "event"
                                            /\ Flight'[i].number = n
    <3>1. CASE n <= sent[made]
      <4>1. PICK i \in 1 .. Len(Flight) :
              Flight[i].stream = made /\ Flight[i].kind = "event" /\ Flight[i].number = n
        BY <1>4, <2>2, <3>1, AppliedShown DEF Waiting
      <4> QED BY <1>1, <4>1
    <3>2. CASE n > sent[made]
      <4>1. s = made /\ t.kind = "event" /\ t.number = sent'[s] /\ sent'[made] = sent[made] + 1
        BY <2>0, <2>1, <2>2, <3>2
      <4>2. n = t.number
        BY <2>0, <2>2, <3>2, <4>1
      <4>3. Len(Flight) + 1 \in 1 .. Len(Flight')
        BY <1>1
      <4> QED BY <1>1, <4>1, <4>2, <4>3
    <3> QED BY <2>0, <3>1, <3>2
  <2>3. ASSUME NEW i \in 1 .. Len(Flight'), Flight'[i].stream = made, Flight'[i].kind = "event"
        PROVE  Flight'[i].number > Len(applied)
    <3>1. CASE i \in 1 .. Len(Flight)
      BY <1>1, <1>4, <2>3, <3>1, AppliedShown
    <3>2. CASE i = Len(Flight) + 1
      <4>1. t.kind = "event" /\ s = made
        BY <1>1, <2>3, <3>2
      <4>2. t.number = sent'[made] /\ sent'[made] = sent[made] + 1
        BY <2>0, <4>1
      <4> QED BY <1>1, <2>0, <3>2, <4>2
    <3> QED BY <1>1, <3>1, <3>2
  <2>4. \A i \in 1 .. Len(applied) : applied[i] = <<made, i>>
    BY <1>4, AppliedShown
  <2>5. Len(applied) <= sent'[made]
    BY <2>0, <2>1
  <2> QED BY <1>2, <1>4, <2>2, <2>3, <2>4, <2>5 DEF AppliedInv, Shows
<1> QED BY <1>3, <1>4

\* What was applied and what waits are kept in step by every step.
LEMMA AppliedStep ==
  ASSUME TypeOK, TypeOK', IInv, [Next]_vars
  PROVE  AppliedInv'
<1>0. ContextInv /\ AliveInv /\ GenerationInv /\ OrderInv /\ AppliedInv
  BY DEF IInv
<1>1. ASSUME UNCHANGED <<Flight, made, born, generation, applied, sent>>
      PROVE  AppliedInv'
  BY <1>0, <1>1 DEF AppliedInv
<1>2. CASE UNCHANGED vars
  BY <1>1, <1>2 DEF vars, wizardVars, workerVars, Flight
<1>3. CASE StartPass
  <2>1. LaunchPass /\ sent' = sent /\ Flight' = Flight
    BY <1>3 DEF StartPass, Flight
  <2> QED BY <1>0, <2>1, AppliedLaunched DEF OrderInv
<1>4. CASE CancelPass
  <2>1. /\ applied' = <<>> /\ UNCHANGED <<made, born>> /\ generation' = generation + 1
    BY <1>4 DEF CancelPass
  <2>2. made # None => born[made] <= generation /\ born[made] \in Nat /\ generation \in Nat
    BY <1>0, AppliedTyped DEF GenerationInv, TypeOK
  <2>3. ~(made' # None /\ born'[made'] = generation')
    BY <2>1, <2>2
  <2> QED BY <2>1, <2>3 DEF AppliedInv
<1>5. CASE AssignCancels \/ AssignJoins
  BY <1>1, <1>5 DEF AssignCancels, AssignJoins, workerVars, Flight
<1>6. CASE Drain
  BY <1>1, <1>6, FlightDrained DEF Drain, workerVars
<1>7. CASE RunTask
  <2>1. PICK t : DropTask(t) \/ ApplyEvent(t) \/ ApplyDone(t) \/ ApplyDoneThenStart(t)
    BY <1>7 DEF RunTask
  <2>2. CASE DropTask(t)
    <3>1. /\ NextTask(t) /\ queue' = queue /\ ~Current(t)
          /\ UNCHANGED <<made, born, generation, applied, sent>>
      BY <2>2 DEF DropTask, workerVars
    <3>2. Shows => t.stream # made
      BY <3>1 DEF Shows, Current
    <3> QED BY <1>0, <3>1, <3>2, AppliedTaken
  <2>3. CASE ApplyEvent(t)
    BY <1>0, <2>3, AppliedEvent
  <2>4. CASE ApplyDone(t)
    <3>1. /\ NextTask(t) /\ queue' = queue /\ t.kind # "event"
          /\ UNCHANGED <<made, born, generation, applied, sent>>
      BY <2>4 DEF ApplyDone, workerVars
    <3> QED BY <1>0, <3>1, AppliedTaken
  <2>5. CASE ApplyDoneThenStart(t)
    <3>1. NextTask(t) /\ queue' = queue /\ LaunchPass /\ sent' = sent
      BY <2>5 DEF ApplyDoneThenStart
    <3>2. /\ Len(Flight') = Len(Flight) - 1 /\ Len(Flight) \in Nat
          /\ \A i \in 1 .. Len(Flight') : Flight'[i] = Flight[i + 1]
      BY <3>1, FlightTaken, FlightTyped
    <3>3. \A i \in 1 .. Len(Flight') : Flight'[i].stream <= made
      BY <1>0, <3>2 DEF OrderInv
    <3> QED BY <1>0, <3>1, <3>3, AppliedLaunched
  <2> QED BY <2>1, <2>2, <2>3, <2>4, <2>5
<1>8. ASSUME NEW s \in Streams, Worker(s)
      PROVE  AppliedInv'
  <2>0. UNCHANGED wizardVars
    BY <1>8, WorkerShape
  <2>1. CASE UNCHANGED <<queue, sent>>
    BY <1>1, <2>0, <2>1 DEF wizardVars, Flight
  <2>2. CASE OnEvent(s)
    <3> DEFINE t == [stream |-> s, kind |-> "event", number |-> sent'[s]]
    <3>1. sent' = [sent EXCEPT ![s] = @ + 1] /\ Post(t)
      BY <2>2 DEF OnEvent
    <3>2. t \in Task
      <4>1. sent'[s] \in Nat \ {0}
        BY <3>1 DEF TypeOK
      <4> QED BY <4>1 DEF Task
    <3> QED BY <1>0, <2>0, <3>1, <3>2, AppliedPosted
  <2>3. CASE OnDone(s)
    <3> DEFINE t == [stream |-> s, kind |-> "done", ok |-> result[s] = "ok"]
    <3>1. sent' = sent /\ Post(t)
      BY <2>3 DEF OnDone
    <3>2. t \in Task
      BY DEF Task
    <3> QED BY <1>0, <2>0, <3>1, <3>2, AppliedPosted
  <2> QED BY <1>8, <2>1, <2>2, <2>3, WorkerPosts
<1> QED BY <1>2, <1>3, <1>4, <1>5, <1>6, <1>7, <1>8 DEF Next, Wizard, UiThread

------------------------------------------------------------------------------
(* The theorems.                                                              *)

\* Nothing runs at first.
LEMMA InitInv == Init => IInv
<1> SUFFICES ASSUME Init
             PROVE  IInv
  OBVIOUS
<1>1. TypeOK
  <2>1. <<>> \in Seq(Task) /\ <<>> \in Seq(Streams \X (Nat \ {0}))
    BY EmptySeq
  <2>2. \A s \in Streams : MaxEvents[s] \in Nat
    BY BoundAssumption
  <2> QED BY <2>1, <2>2, BoundAssumption DEF Init, TypeOK, None
<1>2. ContextInv
  BY DEF Init, ContextInv, None, Streams
<1>3. AliveInv
  <2>1. \A s \in Streams : at[s] = "none" /\ sent[s] = 0
    BY DEF Init
  <2>2. ui = "free" /\ held = made
    BY DEF Init, None
  <2> QED BY <2>1, <2>2 DEF AliveInv, Alive
<1>4. GenerationInv
  BY DEF Init, GenerationInv, Streams, None
<1>5. Len(Flight) = 0
  BY EmptySeq, ConcatEmptySeq DEF Init, Flight
<1>6. OrderInv
  BY <1>5 DEF OrderInv
<1>7. AppliedInv
  BY DEF Init, AppliedInv, None
<1> QED BY <1>1, <1>2, <1>3, <1>4, <1>6, <1>7 DEF IInv

\* The invariant is inductive.
LEMMA InvStep == IInv /\ [Next]_vars => IInv'
<1> SUFFICES ASSUME IInv, [Next]_vars
             PROVE  IInv'
  OBVIOUS
<1>1. TypeOK /\ ContextInv /\ AliveInv /\ GenerationInv /\ OrderInv
  BY DEF IInv
<1>2. TypeOK'
  BY <1>1, TypeStep
<1>3. ContextInv' /\ AliveInv' /\ GenerationInv'
  BY <1>1, ContextStep, AliveStep, GenerationStep
<1>4. OrderInv'
  BY <1>1, <1>2, OrderStep
<1>5. AppliedInv'
  BY <1>1, <1>2, AppliedStep
<1> QED BY <1>2, <1>3, <1>4, <1>5 DEF IInv

\* Workers, generations and what is in flight stay in step, for every number of
\* passes and of events.
THEOREM InductiveInvariant == Spec => []IInv
BY InitInv, InvStep, PTL DEF Spec

\* Every variable keeps its type.
THEOREM TypeCorrect == Spec => []TypeOK
<1>1. IInv => TypeOK
  BY DEF IInv
<1> QED BY <1>1, InductiveInvariant, PTL

\* No cancel reaches into a request_context that is gone.
THEOREM CancelIsSafe == Spec => []CancelFindsContext
<1>1. IInv => CancelFindsContext
  BY DEF IInv, ContextInv, CancelFindsContext
<1> QED BY <1>1, InductiveInvariant, PTL

\* Beside the newest worker at most the one that it replaces is alive.
THEOREM OneWindsDown == Spec => []OneLeftOver
<1>1. IInv => OneLeftOver
  BY DEF IInv, AliveInv, OneLeftOver
<1> QED BY <1>1, InductiveInvariant, PTL

\* The wizard applies the events of the pass it shows, in order and without a gap.
THEOREM AppliesInOrder == Spec => []AppliesCurrentPass
<1>1. ASSUME IInv
      PROVE  AppliesCurrentPass
  <2>1. TypeOK /\ AppliedInv /\ applied \in Seq(Streams \X (Nat \ {0}))
    BY <1>1 DEF IInv, TypeOK
  <2>2. CASE Shows
    <3>1. made \in Streams /\ \A i \in 1 .. Len(applied) : applied[i] = <<made, i>>
      BY <2>1, <2>2, AppliedShown, AppliedTyped DEF Shows
    <3>2. applied = [i \in 1 .. Len(applied) |-> <<made, i>>]
      BY <2>1, <3>1
    <3> QED BY <3>1, <3>2 DEF AppliesCurrentPass
  <2>3. CASE ~Shows
    <3>1. applied = <<>>
      BY <2>1, <2>3 DEF AppliedInv, Shows
    <3>2. 1 \in Streams
      BY BoundAssumption DEF Streams
    <3>3. applied = [i \in 1 .. Len(applied) |-> <<1, i>>]
      BY <3>1, EmptySeq
    <3> QED BY <3>1, <3>2, <3>3 DEF AppliesCurrentPass
  <2> QED BY <2>2, <2>3
<1> QED BY <1>1, InductiveInvariant, PTL

\* A pass that the wizard reports done gave the lock back, and all its events
\* were applied before.
THEOREM ReportedIsComplete == Spec => DoneMeansDone
<1>1. ASSUME IInv, [Next]_vars, op = "running", op' # "running", generation' = generation
      PROVE  lock # made /\ at[made] = "exited" /\ Len(applied) = sent[made]
  <2>0. TypeOK /\ ContextInv /\ GenerationInv /\ OrderInv /\ AppliedInv
    BY <1>1 DEF IInv
  <2>1. PICK t : ApplyDone(t)
    <3>1. ~UNCHANGED vars
      BY <1>1 DEF vars, wizardVars
    <3>2. ~StartPass /\ ~CancelPass
      BY <1>1, <2>0 DEF StartPass, LaunchPass, CancelPass, TypeOK
    <3>3. ~AssignCancels /\ ~AssignJoins /\ ~Drain
      BY <1>1 DEF AssignCancels, AssignJoins, Drain
    <3>4. \A s \in Streams : ~Worker(s)
      BY <1>1, <2>0, WorkerShape DEF wizardVars
    <3>5. PICK t : DropTask(t) \/ ApplyEvent(t) \/ ApplyDone(t) \/ ApplyDoneThenStart(t)
      BY <1>1, <3>1, <3>2, <3>3, <3>4 DEF Next, Wizard, UiThread, RunTask
    <3> QED BY <1>1, <3>5 DEF DropTask, ApplyEvent, ApplyDoneThenStart, LaunchPass
  <2>2. NextTask(t) /\ queue' = queue /\ Current(t) /\ t.kind = "done"
    BY <2>1 DEF ApplyDone
  <2>3. t.stream = made /\ made \in Streams /\ t \in Task /\ t = Flight[1]
    BY <2>0, <2>2, CurrentIsNewest
  <2>4. 1 \in 1 .. Len(Flight)
    BY <2>0, <2>2, FlightTaken
  <2>5. Shows
    BY <2>2, <2>3 DEF Shows, Current, None, Streams
  <2>6. at[made] = "exited"
    BY <2>0, <2>2, <2>3, <2>4 DEF OrderInv
  <2>7. lock # made
    BY <2>0, <2>3, <2>6 DEF ContextInv
  <2>8. ASSUME Len(applied) # sent[made]
        PROVE  FALSE
    <3>1. Len(applied) < sent[made] /\ sent[made] \in Nat
      BY <2>0, <2>3, <2>5, <2>8, AppliedShown, AppliedTyped
    <3>2. Waiting(sent[made])
      BY <2>0, <2>5, <3>1, AppliedShown
    <3>3. PICK i \in 1 .. Len(Flight) : Flight[i].stream = made /\ Flight[i].kind = "event"
      BY <3>2 DEF Waiting
    <3>4. i # 1 /\ 1 \in 1 .. i - 1
      BY <2>2, <2>3, <3>3
    <3> QED BY <2>0, <2>2, <2>3, <3>3, <3>4 DEF OrderInv
  <2> QED BY <2>6, <2>7, <2>8
<1>2. IInv /\ [Next]_vars =>
        (op = "running" /\ op' # "running" /\ generation' = generation
           => lock # made /\ at[made] = "exited" /\ Len(applied) = sent[made])
  BY <1>1
<1> QED BY <1>2, InductiveInvariant, PTL DEF Spec, DoneMeansDone
==============================================================================
