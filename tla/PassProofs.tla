------------------------------ MODULE PassProofs ------------------------------
(* What TLAPS proves of the passes:  of the call that runs one (PassStream), of what *)
(* the repair pass writes (Repair) and of what the analysis passes leave (Analysis), *)
(* for every library, request, set of calls and bound.                               *)
EXTENDS PassStream, Repair, Analysis,
        SequenceTheorems, FiniteSetTheorems, WellFoundedInduction, TLAPS

\* A set of numbers has a least one.
LEMMA LeastNumber ==
  ASSUME NEW S \in SUBSET Nat, S # {}
  PROVE  \E n \in S : \A m \in S : n <= m
<1>1. PICK n \in S : \A m \in S : ~ (<<m, n>> \in OpToRel(<, Nat))
  BY WFMin, NatLessThanWellFounded
<1>2. \A m \in S : n <= m
  <2> SUFFICES ASSUME NEW m \in S, m < n PROVE FALSE
    OBVIOUS
  <2>1. <<m, n>> \in Nat \X Nat /\ <<m, n>>[1] < <<m, n>>[2]
    OBVIOUS
  <2>2. <<m, n>> \in OpToRel(<, Nat)
    BY <2>1, Zenon DEF OpToRel
  <2> QED BY <1>1, <2>2
<1> QED BY <1>2

------------------------------------------------------------------------------

(***************************************************************************)
(* Four facts about the sequences of NothingLostInQueue, one per way that  *)
(* a step moves an event along it.                                         *)
(***************************************************************************)

\* queue.wait moves the head of the queue to `ev`.
LEMMA TakeHead ==
  ASSUME NEW S, NEW d \in Seq(S), NEW q \in Seq(S), q # <<>>
  PROVE  /\ Head(q) \in S /\ Tail(q) \in Seq(S)
         /\ d \o <<>> \o q = d \o <<Head(q)>> \o Tail(q)
<1>1. Head(q) \in S /\ Tail(q) \in Seq(S)
  BY HeadTailProperties
<1>2. q = <<Head(q)>> \o Tail(q)
  OBVIOUS
<1>3. d \o (<<Head(q)>> \o Tail(q)) = d \o <<Head(q)>> \o Tail(q)
  BY <1>1, ConcatAssociative
<1>4. d \o <<>> = d
  BY ConcatEmptySeq
<1> QED BY <1>1, <1>2, <1>3, <1>4

\* The writer takes `ev`.
LEMMA HandOver ==
  ASSUME NEW S, NEW d \in Seq(S), NEW q \in Seq(S), NEW e \in S
  PROVE  Append(d, e) \o <<>> \o q = d \o <<e>> \o q
<1>1. Append(d, e) = d \o <<e>> /\ Append(d, e) \in Seq(S)
  BY AppendIsConcat, AppendProperties
<1>2. Append(d, e) \o <<>> = Append(d, e)
  BY <1>1, ConcatEmptySeq
<1> QED BY <1>1, <1>2

\* The producer pushes.
LEMMA PushAtEnd ==
  ASSUME NEW S, NEW x \in Seq(S), NEW q \in Seq(S), NEW e \in S
  PROVE  x \o Append(q, e) = Append(x \o q, e)
<1>1. x \o q \in Seq(S) /\ <<e>> \in Seq(S)
  BY ConcatProperties
<1>2. Append(q, e) = q \o <<e>> /\ Append(x \o q, e) = (x \o q) \o <<e>>
  BY <1>1, AppendIsConcat
<1> QED BY <1>1, <1>2, ConcatAssociative

\* The event in hand is the one after those delivered.
LEMMA NextEvent ==
  ASSUME NEW S, NEW d \in Seq(S), NEW q \in Seq(S), NEW e \in S
  PROVE  /\ Len(d) < Len(d \o <<e>> \o q)
         /\ (d \o <<e>> \o q)[Len(d) + 1] = e
<1>1. <<e>> \in Seq(S) /\ d \o <<e>> \in Seq(S)
  BY ConcatProperties
<1>2. Len(d \o <<e>>) = Len(d) + 1 /\ (d \o <<e>>)[Len(d) + 1] = e
  BY <1>1, ConcatProperties
<1> QED BY <1>1, <1>2, ConcatProperties

------------------------------------------------------------------------------
(***************************************************************************)
(* The inductive invariant, in layers that are proved one after the other: *)
(* TypeOK does not hold by itself, since Write appends `ev`, which must    *)
(* then be an event.                                                       *)
(***************************************************************************)

\* `ev` holds an event exactly where stream_pass's code can still use one.
HandMatchesPc ==
  \A c \in Calls :
    /\ pc[c] \in {"idle", "setup", "wait", "poll"} => ev[c] = NoEvent
    /\ pc[c] = "write" => ev[c] # NoEvent

\* The lock is set while a pass's call is under way, by that call alone, and a
\* producer never outlives the call that started it.
LockHeld ==
  /\ \A c \in Passes : pc[c] \notin {"idle", "returned"} => passActive
  /\ \A c, d \in Passes :
       pc[c] \notin {"idle", "returned"} /\ pc[d] \notin {"idle", "returned"}
         => c = d
  /\ \A c \in Calls : ProducerAlive(c) => pc[c] \in Streaming \cup {"join"}

\* Why a stamp can be trusted: who closed the queue, and why.
EndsMatch ==
  \A c \in Calls :
    /\ pc[c] \in {"idle", "setup"} => ppc[c] = "none" /\ ~closed[c]
    /\ pc[c] \in Streaming \cup {"idle", "setup"} => ~stop[c] /\ outcome[c] = "none"
    /\ outcome[c] = "ok" =>
         closed[c] /\ ~stop[c] /\ pc[c] \in {"join", "release", "returned"}
    /\ closed[c] /\ ~stop[c] => ppc[c] = "exited"
    /\ failed[c] => ppc[c] \in {"closing", "exited"}
    /\ ppc[c] = "saved" => persisted[c]
    /\ ppc[c] \in {"closing", "exited"} => failed[c] \/ stop[c] \/ persisted[c]
    /\ recorded[c] => pc[c] \in {"release", "returned"} /\ ppc[c] = "exited"

IInv ==
  TypeOK /\ HandMatchesPc /\ LockHeld /\ EndsMatch /\ NothingLostInQueue
    /\ StampedRunsAreWhole

\* Every step keeps the types, and the event in hand with its step.
LEMMA TypeStep ==
  ASSUME TypeOK, HandMatchesPc, [Next]_vars
  PROVE  TypeOK' /\ HandMatchesPc'
<1> USE EventAssumption DEF TypeOK, HandMatchesPc, Goto, ProducerGoto,
      consumerVars, producerVars, Streaming
<1>1. Complete \in Event /\ Item \subseteq Event /\ NoEvent \notin Event
  BY DEF Event
<1>2. /\ \A code \in RejectCode : code \in Status
      /\ "ok" \in Status /\ "cancelled" \in Status
      /\ "failed_precondition" \in Status /\ "internal" \in Status
  BY DEF Status, RejectCode
<1>3. ASSUME NEW c \in Calls, Begin(c) PROVE TypeOK' /\ HandMatchesPc'
  BY <1>3 DEF Begin
<1>4. ASSUME NEW c \in Calls, Refuse(c) \/ Reject(c)
      PROVE  TypeOK' /\ HandMatchesPc'
  <2>1. CASE Refuse(c)
    BY <1>2, <2>1 DEF Refuse
  <2>2. CASE Reject(c)
    BY <1>2, <2>2 DEF Reject
  <2> QED BY <1>4, <2>1, <2>2
<1>5. ASSUME NEW c \in Calls, StartProducer(c) \/ Release(c) \/ Cancel(c)
      PROVE  TypeOK' /\ HandMatchesPc'
  BY <1>5, ZenonT(60) DEF StartProducer, Release, Cancel
<1>6. ASSUME NEW c \in Calls, Join(c) PROVE TypeOK' /\ HandMatchesPc'
  BY <1>2, <1>6 DEF Join
<1>7. ASSUME NEW c \in Calls, Wait(c) PROVE TypeOK' /\ HandMatchesPc'
  <2>1. queue[c] # <<>> => Head(queue[c]) \in Event /\ Tail(queue[c]) \in Seq(Event)
    BY HeadTailProperties
  <2> QED BY <1>1, <1>7, <2>1, ZenonT(60) DEF Wait
<1>8. ASSUME NEW c \in Calls, Write(c) PROVE TypeOK' /\ HandMatchesPc'
  <2>1. ev[c] \in Event
    BY <1>8 DEF Write
  <2> QED BY <1>1, <1>8, <2>1 DEF Write
<1>9. ASSUME NEW c \in Calls, SeeCancel(c) \/ WriteRefused(c)
      PROVE  TypeOK' /\ HandMatchesPc'
  <2>1. CASE SeeCancel(c)
    BY <1>2, <2>1 DEF SeeCancel, Abandon
  <2>2. CASE WriteRefused(c)
    BY <1>2, <2>2 DEF WriteRefused, Abandon
  <2> QED BY <1>9, <2>1, <2>2
<1>10. ASSUME NEW c \in Calls, CheckContext(c) \/ CheckClosed(c)
       PROVE  TypeOK' /\ HandMatchesPc'
  <2>1. CASE CheckContext(c)
    BY <2>1 DEF CheckContext
  <2>2. CASE CheckClosed(c)
    BY <1>2, <2>2 DEF CheckClosed
  <2> QED BY <1>10, <2>1, <2>2
<1>11. ASSUME NEW c \in Calls, Push(c) \/ PushComplete(c)
       PROVE  TypeOK' /\ HandMatchesPc'
  <2>1. \A e \in Event : Append(queue[c], e) \in Seq(Event)
                         /\ Append(pushed[c], e) \in Seq(Event)
    BY AppendProperties
  <2>2. CASE Push(c)
    BY <1>1, <2>1, <2>2 DEF Push, PushEvent
  <2>3. CASE PushComplete(c)
    BY <1>1, <2>1, <2>3 DEF PushComplete, PushEvent
  <2> QED BY <1>11, <2>2, <2>3
<1>12. ASSUME NEW c \in Calls, Persist(c) \/ StopEarly(c) \/ Throw(c) \/ Close(c)
       PROVE  TypeOK' /\ HandMatchesPc'
  BY <1>12 DEF Persist, StopEarly, Throw, Close
<1>13. CASE UNCHANGED vars
  BY <1>13 DEF vars
<1> QED BY <1>3, <1>4, <1>5, <1>6, <1>7, <1>8, <1>9, <1>10, <1>11, <1>12, <1>13
        DEF Next, Consumer, Stream, Producer

\* Every step keeps the pass lock with the call that runs.
LEMMA LockStep ==
  ASSUME TypeOK, LockHeld, [Next]_vars
  PROVE  LockHeld'
<1> USE CallsAssumption DEF TypeOK, LockHeld, ProducerAlive, Goto, ProducerGoto,
      consumerVars, producerVars, Streaming
<1>1. ASSUME NEW c \in Calls, Begin(c) PROVE LockHeld'
  BY <1>1 DEF Begin
<1>2. ASSUME NEW c \in Calls, Refuse(c) PROVE LockHeld'
  BY <1>2 DEF Refuse
<1>3. ASSUME NEW c \in Calls, Reject(c) PROVE LockHeld'
  BY <1>3 DEF Reject
<1>4. ASSUME NEW c \in Calls, StartProducer(c) PROVE LockHeld'
  BY <1>4 DEF StartProducer
<1>5. ASSUME NEW c \in Calls, Join(c) PROVE LockHeld'
  BY <1>5 DEF Join
<1>6. ASSUME NEW c \in Calls, Release(c) PROVE LockHeld'
  BY <1>6 DEF Release
<1>7. ASSUME NEW c \in Calls, Wait(c) PROVE LockHeld'
  BY <1>7 DEF Wait
<1>8. ASSUME NEW c \in Calls, SeeCancel(c) PROVE LockHeld'
  BY <1>8 DEF SeeCancel, Abandon
<1>9. ASSUME NEW c \in Calls, CheckContext(c) PROVE LockHeld'
  BY <1>9 DEF CheckContext
<1>10. ASSUME NEW c \in Calls, Write(c) PROVE LockHeld'
  BY <1>10 DEF Write
<1>11. ASSUME NEW c \in Calls, WriteRefused(c) PROVE LockHeld'
  BY <1>11 DEF WriteRefused, Abandon
<1>12. ASSUME NEW c \in Calls, CheckClosed(c) PROVE LockHeld'
  BY <1>12 DEF CheckClosed
<1>13. ASSUME NEW c \in Calls, Producer(c) PROVE LockHeld'
  <2>1. pc' = pc /\ passActive' = passActive
    BY <1>13 DEF Producer, Push, Persist, PushComplete, StopEarly, Throw, Close
  <2>2. \A d \in Calls : ProducerAlive(d)' => ProducerAlive(d)
    BY <1>13 DEF Producer, Push, Persist, PushComplete, StopEarly, Throw, Close
  <2> QED BY <2>1, <2>2
<1>14. ASSUME NEW c \in Calls, Cancel(c) PROVE LockHeld'
  BY <1>14 DEF Cancel
<1>15. CASE UNCHANGED vars
  BY <1>15 DEF vars
<1> QED BY <1>1, <1>2, <1>3, <1>4, <1>5, <1>6, <1>7, <1>8, <1>9, <1>10, <1>11,
           <1>12, <1>13, <1>14, <1>15 DEF Next, Consumer, Stream, Producer

\* Every step keeps both ends of a stream at steps that fit, and stamped runs whole.
LEMMA EndsStep ==
  ASSUME TypeOK, LockHeld, EndsMatch, StampedRunsAreWhole, [Next]_vars
  PROVE  EndsMatch' /\ StampedRunsAreWhole'
<1> DEFINE Goal == EndsMatch' /\ StampedRunsAreWhole'
<1> USE CallsAssumption
    DEF TypeOK, LockHeld, ProducerAlive, EndsMatch, StampedRunsAreWhole, Goto,
        ProducerGoto, consumerVars, producerVars, Streaming
<1>1. ASSUME NEW c \in Calls, Begin(c) PROVE Goal
  BY <1>1 DEF Begin
<1>2. ASSUME NEW c \in Calls, Refuse(c) PROVE Goal
  BY <1>2 DEF Refuse
<1>3. ASSUME NEW c \in Calls, Reject(c) PROVE Goal
  BY <1>3 DEF Reject, RejectCode
<1>4. ASSUME NEW c \in Calls, StartProducer(c) PROVE Goal
  BY <1>4 DEF StartProducer
<1>5. ASSUME NEW c \in Calls, Join(c) PROVE Goal
  BY <1>5 DEF Join
<1>6. ASSUME NEW c \in Calls, Release(c) PROVE Goal
  BY <1>6 DEF Release
<1>7. ASSUME NEW c \in Calls, Wait(c) PROVE Goal
  BY <1>7 DEF Wait
<1>8. ASSUME NEW c \in Calls, SeeCancel(c) PROVE Goal
  BY <1>8 DEF SeeCancel, Abandon
<1>9. ASSUME NEW c \in Calls, CheckContext(c) PROVE Goal
  BY <1>9 DEF CheckContext
<1>10. ASSUME NEW c \in Calls, Write(c) PROVE Goal
  BY <1>10 DEF Write
<1>11. ASSUME NEW c \in Calls, WriteRefused(c) PROVE Goal
  BY <1>11 DEF WriteRefused, Abandon
<1>12. ASSUME NEW c \in Calls, CheckClosed(c) PROVE Goal
  BY <1>12 DEF CheckClosed
<1>13. ASSUME NEW c \in Calls, Push(c) PROVE Goal
  BY <1>13 DEF Push
<1>14. ASSUME NEW c \in Calls, Persist(c) PROVE Goal
  BY <1>14 DEF Persist
<1>15. ASSUME NEW c \in Calls, PushComplete(c) PROVE Goal
  BY <1>15 DEF PushComplete
<1>16. ASSUME NEW c \in Calls, StopEarly(c) PROVE Goal
  BY <1>16 DEF StopEarly
<1>17. ASSUME NEW c \in Calls, Throw(c) PROVE Goal
  BY <1>17 DEF Throw
<1>18. ASSUME NEW c \in Calls, Close(c) PROVE Goal
  BY <1>18 DEF Close
<1>19. ASSUME NEW c \in Calls, Cancel(c) PROVE Goal
  BY <1>19 DEF Cancel
<1>20. CASE UNCHANGED vars
  BY <1>20 DEF vars
<1> QED BY <1>1, <1>2, <1>3, <1>4, <1>5, <1>6, <1>7, <1>8, <1>9, <1>10, <1>11,
           <1>12, <1>13, <1>14, <1>15, <1>16, <1>17, <1>18, <1>19, <1>20
        DEF Next, Consumer, Stream, Producer

\* No step loses an event between the producer and the stream.
LEMMA QueueStep ==
  ASSUME TypeOK, HandMatchesPc, NothingLostInQueue, [Next]_vars
  PROVE  NothingLostInQueue'
<1> USE DEF TypeOK, HandMatchesPc, NothingLostInQueue, InHand, Goto,
      ProducerGoto, consumerVars, producerVars
<1>1. Complete \in Event /\ Item \subseteq Event /\ NoEvent \notin Event
  BY EventAssumption DEF Event
<1>2. ASSUME NEW c \in Calls, Wait(c) PROVE NothingLostInQueue'
  <2>1. CASE queue[c] = <<>>
    BY <1>2, <2>1 DEF Wait
  <2>2. CASE queue[c] # <<>>
    <3>1. /\ Head(queue[c]) \in Event
          /\ delivered[c] \o <<>> \o queue[c]
               = delivered[c] \o <<Head(queue[c])>> \o Tail(queue[c])
      BY <2>2, TakeHead
    <3>2. delivered[c] \o <<>> \o queue[c] = pushed[c]
      BY <1>2 DEF Wait
    <3> QED BY <1>1, <1>2, <2>2, <3>1, <3>2, ZenonT(60) DEF Wait
  <2> QED BY <2>1, <2>2
<1>3. ASSUME NEW c \in Calls, Write(c) PROVE NothingLostInQueue'
  <2>1. ev[c] \in Event
    BY <1>3 DEF Write
  <2>2. delivered[c] \o <<ev[c]>> \o queue[c] = pushed[c]
    BY <1>1, <2>1
  <2>3. Append(delivered[c], ev[c]) \o <<>> \o queue[c] = pushed[c]
    BY <2>1, <2>2, HandOver
  <2> QED BY <1>3, <2>3 DEF Write
<1>4. ASSUME NEW c \in Calls, Push(c) \/ PushComplete(c)
      PROVE  NothingLostInQueue'
  <2>1. PICK e \in Event : PushEvent(c, e)
    BY <1>1, <1>4 DEF Push, PushComplete
  <2>2. InHand(c) \in Seq(Event)
    BY <1>1
  <2>3. delivered[c] \o InHand(c) \in Seq(Event)
    BY <2>2, ConcatProperties
  <2>4. (delivered[c] \o InHand(c)) \o Append(queue[c], e) = Append(pushed[c], e)
    <3>1. (delivered[c] \o InHand(c)) \o queue[c] = pushed[c]
      OBVIOUS
    <3>2. \A x, q \in Seq(Event) : x \o Append(q, e) = Append(x \o q, e)
      BY PushAtEnd
    <3> HIDE DEF InHand
    <3> QED BY <2>3, <3>1, <3>2
  <2>5. ev' = ev /\ delivered' = delivered
    BY <1>4 DEF Push, PushComplete
  <2> QED BY <2>1, <2>4, <2>5 DEF PushEvent
<1>5. ASSUME NEW c \in Calls, Consumer(c), ~Wait(c), ~Write(c)
      PROVE  UNCHANGED <<delivered, ev, queue, pushed>>
  BY <1>5 DEF Consumer, Stream, Reject, StartProducer, Join, Release, SeeCancel,
              CheckContext, WriteRefused, CheckClosed, Abandon
<1>6. ASSUME NEW c \in Calls,
             Begin(c) \/ Refuse(c) \/ Cancel(c)
               \/ Persist(c) \/ StopEarly(c) \/ Throw(c) \/ Close(c)
      PROVE  UNCHANGED <<delivered, ev, queue, pushed>>
  BY <1>6 DEF Begin, Refuse, Cancel, Persist, StopEarly, Throw, Close
<1>7. CASE UNCHANGED <<delivered, ev, queue, pushed>>
  BY <1>7
<1>8. CASE UNCHANGED vars
  BY <1>7, <1>8 DEF vars
<1> QED BY <1>2, <1>3, <1>4, <1>5, <1>6, <1>7, <1>8 DEF Next, Producer

\* The invariants of PassStream, proved together because TypeOK needs HandMatchesPc
\* and the stamp needs the lock's and the queue's history.
THEOREM InductiveInvariant == Spec => []IInv
<1>1. Init => IInv
  <2> SUFFICES ASSUME Init PROVE IInv
    OBVIOUS
  <2>1. <<>> \in Seq(Event) /\ <<>> \o <<>> \o <<>> = <<>>
    BY ConcatEmptySeq
  <2>2. TypeOK
    <3>1. "none" \in Status
      BY DEF Status
    <3> QED BY <2>1, <3>1 DEF Init, TypeOK, Streaming
  <2>3. HandMatchesPc /\ LockHeld
    BY CallsAssumption DEF Init, HandMatchesPc, LockHeld, ProducerAlive
  <2>4. EndsMatch /\ StampedRunsAreWhole
    BY DEF Init, EndsMatch, StampedRunsAreWhole
  <2>5. NothingLostInQueue
    BY <2>1 DEF Init, NothingLostInQueue, InHand
  <2> QED BY <2>2, <2>3, <2>4, <2>5 DEF IInv
<1>2. IInv /\ [Next]_vars => IInv'
  BY TypeStep, LockStep, EndsStep, QueueStep DEF IInv
<1> QED BY <1>1, <1>2, PTL DEF Spec

\* Every variable keeps its type.
THEOREM TypeCorrect == Spec => []TypeOK
<1>1. IInv => TypeOK
  BY DEF IInv
<1> QED BY <1>1, InductiveInvariant, PTL

\* try_begin_pass, the pass_guard and producer.join together keep any two passes
\* apart, their producer threads included, for any number of callers.
THEOREM PassesExclude == Spec => []OnePassAtATime
<1>1. IInv => OnePassAtATime
  BY CallsAssumption DEF IInv, LockHeld, OnePassAtATime, Streaming
<1> QED BY <1>1, InductiveInvariant, PTL

\* event_queue and stream_pass neither lose, repeat nor reorder an event between
\* a pass and the point where the stream gives up on it.
THEOREM QueueIsFaithful == Spec => []NothingLostInQueue
<1>1. IInv => NothingLostInQueue
  BY DEF IInv
<1> QED BY <1>1, InductiveInvariant, PTL

\* A run is stamped complete only when it wrote its results, threw nothing and
\* was not stopped, however cancels and exceptions fall.
THEOREM StampIsSound == Spec => []StampedRunsAreWhole
<1>1. IInv => StampedRunsAreWhole
  BY DEF IInv
<1> QED BY <1>1, InductiveInvariant, PTL

\* Each call implements OrderedStream.
THEOREM Refinement == Spec => DeliversInOrder
<1> DEFINE Step == \A c \in Calls : [Outline(c)!Next]_(Outline(c)!vars)
           Ended(c) == pc[c] \in {"join", "release", "returned"}
<1>1. Init => \A c \in Calls : Outline(c)!Init
  <2> SUFFICES ASSUME Init, NEW c \in Calls PROVE Outline(c)!Init
    OBVIOUS
  <2>1. pushed[c] = <<>> /\ delivered[c] = <<>> /\ pc[c] = "idle"
    BY DEF Init
  <2>2. Ended(c) = FALSE
    BY <2>1
  <2> QED BY <2>1, <2>2 DEF Outline!Init
<1>2. IInv /\ [Next]_vars => Step
  <2> SUFFICES ASSUME IInv, [Next]_vars, NEW c \in Calls
               PROVE  [Outline(c)!Next]_(Outline(c)!vars)
    OBVIOUS
  <2>1. CASE Write(c)
    <3>1. /\ delivered[c] \in Seq(Event) /\ queue[c] \in Seq(Event) /\ ev[c] \in Event
          /\ delivered[c] \o <<ev[c]>> \o queue[c] = pushed[c]
      BY <2>1 DEF IInv, TypeOK, HandMatchesPc, NothingLostInQueue, InHand, Write, Goto
    <3>2. Len(delivered[c]) < Len(pushed[c]) /\ pushed[c][Len(delivered[c]) + 1] = ev[c]
      <4>1. \A d, q \in Seq(Event), e \in Event :
              /\ Len(d) < Len(d \o <<e>> \o q)
              /\ (d \o <<e>> \o q)[Len(d) + 1] = e
        BY NextEvent
      <4>2. /\ Len(delivered[c]) < Len(delivered[c] \o <<ev[c]>> \o queue[c])
            /\ (delivered[c] \o <<ev[c]>> \o queue[c])[Len(delivered[c]) + 1] = ev[c]
        BY <3>1, <4>1
      <4> QED BY <3>1, <4>2, Zenon
    <3>3. delivered'[c] = Append(delivered[c], ev[c]) /\ pushed' = pushed
      BY <2>1 DEF Write, IInv, TypeOK, producerVars
    <3>4. Ended(c) = FALSE /\ Ended(c)' = FALSE
      BY <2>1 DEF Write, IInv, TypeOK, Goto
    <3>5. Outline(c)!Deliver
      BY <3>2, <3>3, <3>4, Zenon DEF Outline!Deliver
    <3> QED BY <3>5 DEF Outline!Next
  <2>2. CASE Push(c) \/ PushComplete(c)
    <3>1. PICK e \in Event : PushEvent(c, e)
      BY <2>2 DEF Push, PushComplete, Event
    <3>2. pushed'[c] = Append(pushed[c], e)
      BY <3>1 DEF PushEvent, IInv, TypeOK
    <3>3. delivered' = delivered /\ pc' = pc
      BY <2>2 DEF Push, PushComplete, consumerVars
    <3>4. Outline(c)!Produce
      BY <3>1, <3>2, <3>3, Zenon DEF Outline!Produce
    <3> QED BY <3>4 DEF Outline!Next
  <2>3. CASE ~Write(c) /\ ~Push(c) /\ ~PushComplete(c)
    <3>1. delivered'[c] = delivered[c] /\ pushed'[c] = pushed[c]
          /\ (Ended(c) => Ended(c)')
      <4> DEFINE Frame == delivered'[c] = delivered[c] /\ pushed'[c] = pushed[c]
                          /\ (Ended(c) => Ended(c)')
      <4> USE DEF IInv, TypeOK, Goto, ProducerGoto, consumerVars, producerVars,
                  Streaming
      <4>1. ASSUME NEW d \in Calls, Begin(d) \/ Refuse(d) \/ Cancel(d) PROVE Frame
        BY <4>1 DEF Begin, Refuse, Cancel
      <4>2. ASSUME NEW d \in Calls, Reject(d) \/ StartProducer(d) \/ Release(d)
            PROVE  Frame
        BY <4>2 DEF Reject, StartProducer, Release
      <4>3. ASSUME NEW d \in Calls, Join(d) PROVE Frame
        BY <4>3 DEF Join
      <4>4. ASSUME NEW d \in Calls, Wait(d) \/ CheckContext(d) \/ CheckClosed(d)
            PROVE  Frame
        BY <4>4 DEF Wait, CheckContext, CheckClosed
      <4>5. ASSUME NEW d \in Calls, SeeCancel(d) \/ WriteRefused(d) PROVE Frame
        BY <4>5 DEF SeeCancel, WriteRefused, Abandon
      <4>6. ASSUME NEW d \in Calls, Write(d) PROVE Frame
        BY <2>3, <4>6 DEF Write
      <4>7. ASSUME NEW d \in Calls, Push(d) \/ PushComplete(d) PROVE Frame
        BY <2>3, <4>7 DEF Push, PushComplete, PushEvent
      <4>8. ASSUME NEW d \in Calls, Persist(d) \/ StopEarly(d) \/ Throw(d) \/ Close(d)
            PROVE  Frame
        BY <4>8 DEF Persist, StopEarly, Throw, Close
      <4>9. CASE UNCHANGED vars
        BY <4>9 DEF vars
      <4> QED BY <4>1, <4>2, <4>3, <4>4, <4>5, <4>6, <4>7, <4>8, <4>9
              DEF Next, Consumer, Stream, Producer
    <3>2. CASE Ended(c) = Ended(c)'
      BY <3>1, <3>2, Zenon DEF Outline!vars
    <3>3. CASE ~Ended(c) /\ Ended(c)'
      <4>1. Outline(c)!End
        BY <3>1, <3>3, Zenon DEF Outline!End
      <4> QED BY <4>1 DEF Outline!Next
    <3> QED BY <3>1, <3>2, <3>3
  <2> QED BY <2>1, <2>2, <2>3
<1> QED BY <1>1, <1>2, InductiveInvariant, PTL DEF Spec, DeliversInOrder
------------------------------------------------------------------------------
(* Repair: the neighbours in time of a photo.                                 *)

\* Of finitely many numbers one is the greatest.
LEMMA GreatestExists ==
  ASSUME NEW S, IsFiniteSet(S), S # {}, NEW f, \A s \in S : f[s] \in Int
  PROVE  \E m \in S : \A s \in S : f[s] <= f[m]
<1> DEFINE Topped(T) == \E m \in T : \A s \in T : f[s] <= f[m]
           sizes == {Cardinality(T) : T \in {U \in SUBSET S : U # {} /\ ~Topped(U)}}
<1> SUFFICES ASSUME ~Topped(S) PROVE FALSE
  OBVIOUS
<1>1. \A T \in SUBSET S : IsFiniteSet(T) /\ Cardinality(T) \in Nat
  BY FS_Subset, FS_CardinalityType
<1>2. sizes \in SUBSET Nat /\ sizes # {}
  BY <1>1
<1>3. PICK n \in sizes : \A m \in sizes : n <= m
  BY <1>2, LeastNumber
<1>4. PICK T \in SUBSET S : T # {} /\ ~Topped(T) /\ n = Cardinality(T)
  BY <1>3
<1>5. PICK x \in T : TRUE
  BY <1>4
<1>6. IsFiniteSet(T \ {x}) /\ Cardinality(T \ {x}) = n - 1 /\ n \in Nat
  BY <1>1, <1>4, <1>5, FS_RemoveElement
<1>7. CASE T \ {x} = {}
  <2>1. \A s \in T : s = x /\ f[x] \in Int
    BY <1>5, <1>7
  <2> QED BY <1>4, <1>5, <2>1
<1>8. CASE T \ {x} # {}
  <2>1. Topped(T \ {x})
    <3> SUFFICES ASSUME ~Topped(T \ {x}) PROVE FALSE
      OBVIOUS
    <3>1. T \ {x} \in {U \in SUBSET S : U # {} /\ ~Topped(U)}
      BY <1>8, Zenon
    <3>2. Cardinality(T \ {x}) \in sizes
      BY <3>1
    <3> HIDE DEF sizes
    <3> QED BY <1>3, <1>6, <3>2
  <2>2. PICK m \in T \ {x} : \A s \in T \ {x} : f[s] <= f[m]
    BY <2>1
  <2>3. f[m] \in Int /\ f[x] \in Int
    BY <1>5, <2>2
  <2>4. CASE f[x] <= f[m]
    <3>1. \A s \in T : f[s] <= f[m]
      BY <2>2, <2>4
    <3> QED BY <1>4, <2>2, <3>1
  <2>5. CASE f[m] < f[x]
    <3>1. \A s \in T : f[s] <= f[x]
      BY <2>2, <2>3, <2>5
    <3> QED BY <1>4, <1>5, <3>1
  <2> QED BY <2>3, <2>4, <2>5
<1> QED BY <1>7, <1>8

\* The donors at the latest time, and at the earliest, are some if there are donors.
LEMMA LatestExists ==
  ASSUME NEW donors, IsFiniteSet(donors), donors # {},
         NEW dates, \A d \in donors : dates[d].at \in Int
  PROVE  Latest(donors, dates) # {} /\ Earliest(donors, dates) # {}
<1> DEFINE at == [d \in donors |-> dates[d].at]
           before == [d \in donors |-> -dates[d].at]
<1>1. \A s \in donors : at[s] \in Int /\ before[s] \in Int
  OBVIOUS
<1> HIDE DEF at, before
<1>2. PICK m \in donors : \A s \in donors : at[s] <= at[m]
  BY <1>1, GreatestExists
<1>3. PICK n \in donors : \A s \in donors : before[s] <= before[n]
  BY <1>1, GreatestExists
<1>4. m \in Latest(donors, dates)
  BY <1>2 DEF Latest, at
<1>5. n \in Earliest(donors, dates)
  BY <1>3 DEF Earliest, before
<1> QED BY <1>4, <1>5

\* One of some donors comes first, and one last.
LEMMA TiesAreBroken ==
  ASSUME NEW ties, ties # {}
  PROVE  FirstOf(ties) \in ties /\ LastOf(ties) \in ties
<1>1. FirstOf(ties) \in ties
  BY DEF FirstOf
<1>2. \E d \in ties : ties = {d} \/ d # FirstOf(ties)
  OBVIOUS
<1> QED BY <1>1, <1>2 DEF LastOf

\* Those next to a time, of the donors within the window: the one found on a side is a
\* nearest on its side, and there is one if any is within the window.
LEMMA PrecedingIsNearest ==
  ASSUME NEW donors, IsFiniteSet(donors), NEW t \in Int, NEW window \in Int,
         NEW dates, \A d \in donors : dates[d].at \in Int
  PROVE  LET prev == Preceding(donors, t, dates, window) IN
         /\ prev = {} \/ \E d \in donors : prev = {d}
         /\ \A d \in prev : /\ dates[d].at < t /\ Gap(d, t, dates) <= window
                            /\ \A e \in donors : dates[e].at < t
                                   => Gap(d, t, dates) <= Gap(e, t, dates)
         /\ \A e \in donors : dates[e].at < t /\ Gap(e, t, dates) <= window => prev # {}
<1> DEFINE earlier == {d \in donors : dates[d].at < t}
           b == LastOf(Latest(earlier, dates))
<1>1. CASE earlier = {}
  BY <1>1 DEF Preceding, Latest
<1>2. CASE earlier # {}
  <2>1. IsFiniteSet(earlier)
    BY FS_Subset
  <2>2. Latest(earlier, dates) # {}
    BY <1>2, <2>1, LatestExists
  <2>3. b \in Latest(earlier, dates)
    BY <2>2, TiesAreBroken
  <2> HIDE DEF b
  <2>4. b \in donors /\ dates[b].at < t /\ \A e \in donors : dates[e].at < t
            => dates[e].at <= dates[b].at
    BY <2>3 DEF Latest
  <2>5. \A e \in donors : dates[e].at < t => Gap(b, t, dates) <= Gap(e, t, dates)
    BY <2>4 DEF Gap, Abs
  <2>6. \A e \in donors : dates[e].at < t => Gap(e, t, dates) \in Int
    BY DEF Gap, Abs
  <2>7. Preceding(donors, t, dates, window) = {d \in {b} : Gap(d, t, dates) <= window}
    BY <2>2 DEF Preceding, b
  <2> QED BY <2>4, <2>5, <2>6, <2>7
<1> QED BY <1>1, <1>2

\* The donor that is found from the time on is a nearest one there.
LEMMA FollowingIsNearest ==
  ASSUME NEW donors, IsFiniteSet(donors), NEW t \in Int, NEW window \in Int,
         NEW dates, \A d \in donors : dates[d].at \in Int
  PROVE  LET next == Following(donors, t, dates, window) IN
         /\ next = {} \/ \E d \in donors : next = {d}
         /\ \A d \in next : /\ dates[d].at >= t /\ Gap(d, t, dates) <= window
                            /\ \A e \in donors : dates[e].at >= t
                                   => Gap(d, t, dates) <= Gap(e, t, dates)
         /\ \A e \in donors : dates[e].at >= t /\ Gap(e, t, dates) <= window => next # {}
<1> DEFINE later == {d \in donors : dates[d].at >= t}
           a == FirstOf(Earliest(later, dates))
<1>1. CASE later = {}
  BY <1>1 DEF Following, Earliest
<1>2. CASE later # {}
  <2>1. IsFiniteSet(later)
    BY FS_Subset
  <2>2. Earliest(later, dates) # {}
    BY <1>2, <2>1, LatestExists
  <2>3. a \in Earliest(later, dates)
    BY <2>2, TiesAreBroken
  <2> HIDE DEF a
  <2>4. a \in donors /\ dates[a].at >= t /\ \A e \in donors : dates[e].at >= t
            => dates[a].at <= dates[e].at
    BY <2>3 DEF Earliest
  <2>5. \A e \in donors : dates[e].at >= t => Gap(a, t, dates) <= Gap(e, t, dates)
    BY <2>4 DEF Gap, Abs
  <2>6. \A e \in donors : dates[e].at >= t => Gap(e, t, dates) \in Int
    BY DEF Gap, Abs
  <2>7. Following(donors, t, dates, window) = {d \in {a} : Gap(d, t, dates) <= window}
    BY <2>2 DEF Following, a
  <2> QED BY <2>4, <2>5, <2>6, <2>7
<1> QED BY <1>1, <1>2

------------------------------------------------------------------------------
(* Repair: what a pass reads and writes.                                      *)

\* The input that a file gives, whatever the repairs before have made of its row.
FromFile(f, modified) ==
  [exif |-> f.exif, camera |-> f.camera, name |-> f.name, modified |-> modified, gps |-> f.gps]

RowOfFile(p) ==
  /\ rows[p].exif = files[p].exif /\ rows[p].camera = files[p].camera
  /\ Input(rows[p], files[p]) = FromFile(files[p], files[p].modified)

ReadsFiles(a) ==
  /\ a = [request |-> a.request, inputs |-> a.inputs, offers |-> a.offers]
  /\ a.request \in [offsets : [Cameras -> Int], window : Int]
  /\ a.inputs = [p \in DOMAIN rows |-> FromFile(files[p], a.inputs[p].modified)]
  /\ \A p \in DOMAIN rows : a.inputs[p].modified \in Times

LastRepairStands ==
  /\ ReadsFiles(repaired) /\ repairs > 0
  /\ repaired.offers = Offered(repaired)
  /\ \A p \in DOMAIN rows :
       rows[p] = Updated(Row(files[p]), RepairMetadata(repaired.inputs, repaired.request)[p])

RepairInv ==
  /\ IsFiniteSet(DOMAIN rows) /\ repairs \in Nat
  /\ files \in [DOMAIN rows -> FileData]
  /\ \A p \in DOMAIN rows : RowOfFile(p)
  /\ pass # None => ReadsFiles(pass)
  /\ repaired # None => LastRepairStands

\* The four values that a repair computes for a photo.
Dates(inputs, request) == [p \in DOMAIN inputs |-> Date(inputs[p], request.offsets)]
LentTo(p, inputs, request) ==
  LET dates == Dates(inputs, request)
  IN IF dates[p].trusted
     THEN Lender(Donors(inputs, dates), dates[p].at, dates, inputs, request.window) ELSE {}

\* What a repair says of a photo:  its date, and its own position or what it is lent.
LEMMA RepairedIs ==
  ASSUME NEW inputs, NEW request, NEW p \in DOMAIN inputs
  PROVE  LET now == RepairMetadata(inputs, request)[p]
             own == inputs[p].gps
             lent == LentTo(p, inputs, request)
         IN /\ now.at = Dates(inputs, request)[p].at
            /\ now.dateSource = Dates(inputs, request)[p].source
            /\ now.pos = IF own # NoGps \/ lent = {} THEN own
                   ELSE inputs[CHOOSE d \in lent : TRUE].gps
            /\ now.gpsSource = IF own # NoGps THEN "exif" ELSE IF lent = {} THEN "none"
                   ELSE "inferred"
BY DEF RepairMetadata, LentTo, Dates

\* A row that no repair has touched gives its file's input.
LEMMA ScannedRow ==
  ASSUME NEW f
  PROVE  Input(Row(f), f) = FromFile(f, f.modified)
BY DEF Input, Row, FromFile

\* What a repair leaves of a row is what it would leave of the scanned one, and its own
\* position can be told from a borrowed one afterwards.
LEMMA UpdatedRow ==
  ASSUME NEW p, RowOfFile(p), NEW inputs, NEW request, p \in DOMAIN inputs,
         inputs[p].gps = files[p].gps,
         NEW now, now = RepairMetadata(inputs, request)[p]
  PROVE  /\ Updated(rows[p], now) = Updated(Row(files[p]), now)
         /\ Updated(rows[p], now).exif = files[p].exif
         /\ Updated(rows[p], now).camera = files[p].camera
         /\ Input(Updated(rows[p], now), files[p]) = FromFile(files[p], files[p].modified)
<1> DEFINE lent == LentTo(p, inputs, request)
           own == inputs[p].gps
<1>1. Updated(rows[p], now) = Updated(Row(files[p]), now)
  BY DEF Updated, RowOfFile, Row
<1>2. /\ Updated(rows[p], now).exif = files[p].exif
      /\ Updated(rows[p], now).camera = files[p].camera
      /\ Updated(rows[p], now).pos = now.pos
      /\ Updated(rows[p], now).gpsSource = now.gpsSource
  BY DEF Updated, RowOfFile
<1>3. /\ now.gpsSource = IF own # NoGps THEN "exif" ELSE IF lent = {} THEN "none" ELSE "inferred"
      /\ now.pos = IF own # NoGps \/ lent = {} THEN own ELSE inputs[CHOOSE d \in lent : TRUE].gps
  BY RepairedIs
<1> HIDE DEF lent
<1>4. (IF now.gpsSource = "inferred" THEN NoGps ELSE now.pos) = files[p].gps
  BY <1>3
<1>5. Input(Updated(rows[p], now), files[p]) = FromFile(files[p], files[p].modified)
  BY <1>2, <1>4 DEF Input, FromFile
<1> QED BY <1>1, <1>2, <1>5

\* It holds before the first scan.
LEMMA RepairStarts == RepairInit => RepairInv
<1> SUFFICES ASSUME RepairInit PROVE RepairInv
  OBVIOUS
<1>1. DOMAIN rows = {} /\ DOMAIN files = {}
  BY DEF RepairInit
<1> QED BY <1>1, FS_EmptySet DEF RepairInit, RepairInv

\* scan_folder reads files as they are, before any repair.
LEMMA ScanStep ==
  ASSUME RepairInv, NEW q, NEW file \in Files, Scan(q, file)
  PROVE  RepairInv'
<1>1. /\ pass' = None /\ repaired' = repaired /\ repairs' = 0 /\ repairs = 0
      /\ DOMAIN rows' = DOMAIN rows \cup {q} /\ q \notin DOMAIN rows
      /\ \A p \in DOMAIN rows' : /\ rows'[p] = IF p = q THEN Row(file) ELSE rows[p]
                               /\ files'[p] = IF p = q THEN file ELSE files[p]
      /\ DOMAIN files' = DOMAIN rows'
      /\ files' = [p \in DOMAIN rows' |-> files'[p]]
  BY DEF Scan, Idle
<1>2. file \in FileData
  BY FilesAssumption
<1>3. repaired' = None
  BY <1>1 DEF RepairInv, LastRepairStands
<1>4. IsFiniteSet(DOMAIN rows')
  BY <1>1, FS_AddElement DEF RepairInv
<1>5. ASSUME NEW p \in DOMAIN rows' PROVE RowOfFile(p)'
  <2>1. CASE p = q
    <3>1. Row(file).exif = file.exif /\ Row(file).camera = file.camera
      BY DEF Row
    <3> QED BY <1>1, <2>1, <3>1, ScannedRow DEF RowOfFile
  <2>2. CASE p # q
    BY <1>1, <2>2 DEF RowOfFile, RepairInv
  <2> QED BY <2>1, <2>2
<1>6. files' \in [DOMAIN rows' -> FileData]
  BY <1>1, <1>2 DEF RepairInv
<1> QED BY <1>1, <1>3, <1>4, <1>5, <1>6 DEF RepairInv

\* A file that changes keeps what the passes read of it, but for its modification time.
LEMMA TouchStep ==
  ASSUME RepairInv, NEW q, NEW time \in ModifiedTimes, Touch(q, time)
  PROVE  RepairInv'
<1>1. /\ UNCHANGED <<rows, pass, repaired, repairs>>
      /\ files' = [files EXCEPT ![q].modified = time] /\ q \in DOMAIN files /\ time \in Times
  BY FilesAssumption DEF Touch
<1>2. ASSUME NEW p \in DOMAIN rows
      PROVE  /\ files'[p] \in FileData /\ files'[p].exif = files[p].exif
             /\ files'[p].camera = files[p].camera /\ files'[p].gps = files[p].gps
             /\ files'[p].name = files[p].name
  BY <1>1 DEF RepairInv, FileData
<1>3. files' \in [DOMAIN rows -> FileData]
  BY <1>1, <1>2 DEF RepairInv
<1>4. \A p \in DOMAIN rows : RowOfFile(p)'
  BY <1>1, <1>2 DEF RepairInv, RowOfFile, Input, FromFile
<1>5. \A a : ReadsFiles(a) => ReadsFiles(a)'
  BY <1>1, <1>2 DEF ReadsFiles, FromFile
<1>6. \A p \in DOMAIN rows : Row(files'[p]) = Row(files[p])
  BY <1>2 DEF Row
<1> QED BY <1>1, <1>3, <1>4, <1>5, <1>6 DEF RepairInv, LastRepairStands

\* run_repair_pass reads each photo's row as its file would have it.
LEMMA BeginRepairStep ==
  ASSUME RepairInv, NEW request \in RepairRequests, BeginRepair(request)
  PROVE  RepairInv'
<1> DEFINE asked == [request EXCEPT !.window = IF @ > 0 THEN @ ELSE DefaultWindow]
           read == [p \in DOMAIN rows |-> Input(rows[p], files[p])]
<1>1. /\ UNCHANGED <<files, rows, repaired, repairs>>
      /\ pass' = [request |-> asked, inputs |-> read, offers |-> {}]
  BY DEF BeginRepair
<1>2. asked \in [offsets : [Cameras -> Int], window : Int]
  BY RequestsAssumption, SizesAssumption
<1>3. \A p \in DOMAIN rows : /\ read[p] = FromFile(files[p], files[p].modified)
                            /\ read[p].modified = files[p].modified /\ files[p].modified \in Times
  BY DEF RepairInv, RowOfFile, FromFile, FileData
<1>4. read = [p \in DOMAIN rows |-> FromFile(files[p], read[p].modified)]
  BY <1>3
<1> HIDE DEF asked, read
<1>5. ReadsFiles(pass')
  BY <1>1, <1>2, <1>3, <1>4 DEF ReadsFiles
<1> QED BY <1>1, <1>5 DEF RepairInv, RowOfFile, LastRepairStands, ReadsFiles

\* update_image_metadata: the rows are those of one repair of the scanned ones.
LEMMA WriteRepairsStep ==
  ASSUME RepairInv, WriteRepairs
  PROVE  RepairInv'
<1> DEFINE now(p) == RepairMetadata(pass.inputs, pass.request)[p]
<1>1. /\ files' = files /\ pass' = None /\ repairs' = repairs + 1 /\ repairs \in Nat
      /\ DOMAIN rows' = DOMAIN rows
      /\ \A p \in DOMAIN rows : rows'[p] = Updated(rows[p], now(p))
      /\ repaired' = [pass EXCEPT !.offers = Offered(pass)]
  BY DEF WriteRepairs, RepairInv
<1>2. ReadsFiles(pass)
  BY DEF WriteRepairs, RepairInv, Idle
<1>3. \A p \in DOMAIN rows : p \in DOMAIN pass.inputs /\ pass.inputs[p].gps = files[p].gps
  BY <1>2 DEF ReadsFiles, FromFile
<1>4. repaired' = [request |-> pass.request, inputs |-> pass.inputs, offers |-> Offered(pass)]
  BY <1>1, <1>2 DEF ReadsFiles
<1>5. Offered(pass) = Offered(repaired')
  BY <1>4 DEF Offered
<1>6. ReadsFiles(repaired)'
  BY <1>1, <1>2, <1>4 DEF ReadsFiles
<1>7. ASSUME NEW p \in DOMAIN rows
      PROVE  /\ rows'[p] = Updated(Row(files[p]), now(p))
             /\ RowOfFile(p)'
  <2>1. RowOfFile(p)
    BY DEF RepairInv
  <2> HIDE DEF now
  <2>2. now(p) = RepairMetadata(pass.inputs, pass.request)[p]
    BY DEF now
  <2>3. /\ Updated(rows[p], now(p)) = Updated(Row(files[p]), now(p))
        /\ Updated(rows[p], now(p)).exif = files[p].exif
        /\ Updated(rows[p], now(p)).camera = files[p].camera
        /\ Input(Updated(rows[p], now(p)), files[p]) = FromFile(files[p], files[p].modified)
    BY <1>3, <2>1, <2>2, UpdatedRow
  <2>4. rows'[p] = Updated(rows[p], now(p))
    BY <1>1
  <2> QED BY <1>1, <2>3, <2>4 DEF RowOfFile
<1>8. LastRepairStands'
  BY <1>1, <1>4, <1>5, <1>6, <1>7 DEF LastRepairStands
<1> QED BY <1>1, <1>7, <1>8 DEF RepairInv

\* Every step keeps it.
LEMMA RepairStep == RepairInv /\ [RepairNext]_repairVars => RepairInv'
<1> SUFFICES ASSUME RepairInv, [RepairNext]_repairVars PROVE RepairInv'
  OBVIOUS
<1>1. CASE StopRepair \/ UNCHANGED repairVars
  <2>1. UNCHANGED <<files, rows, repaired, repairs>> /\ (pass' = None \/ pass' = pass)
    BY <1>1 DEF StopRepair, repairVars
  <2> QED BY <2>1 DEF RepairInv, RowOfFile, LastRepairStands, ReadsFiles
<1> QED BY <1>1, ScanStep, TouchStep, BeginRepairStep, WriteRepairsStep DEF RepairNext

\* It is an invariant.
LEMMA RepairInvariant == RepairSpec => []RepairInv
BY RepairStarts, RepairStep, PTL DEF RepairSpec

\* Whatever repairs came before, rows and suggestions are those of the last one over the
\* library as it was scanned (run_repair_pass).
THEOREM RepairsForgotten == RepairSpec => []RepairForgetsRepairs
<1>1. ASSUME RepairInv PROVE RepairForgetsRepairs
  <2> SUFFICES ASSUME repaired # None PROVE RepairForgetsRepairs
    BY DEF RepairForgetsRepairs, Done
  <2>1. LastRepairStands
    BY <1>1 DEF RepairInv
  <2>3. \A p \in DOMAIN rows : [Input(Row(files[p]), files[p]) EXCEPT !.modified =
                                 repaired.inputs[p].modified]
                              = FromFile(files[p], repaired.inputs[p].modified)
    BY ScannedRow DEF FromFile
  <2>4. AsScanned = repaired.inputs
    BY <2>1, <2>3 DEF AsScanned, LastRepairStands, ReadsFiles
  <2>5. Offered([repaired EXCEPT !.inputs = AsScanned]) = Offered(repaired)
    <3>1. [repaired EXCEPT !.inputs = repaired.inputs] = repaired
      BY <2>1 DEF LastRepairStands, ReadsFiles
    <3> QED BY <2>4, <3>1
  <2> QED BY <2>1, <2>4, <2>5 DEF RepairForgetsRepairs, LastRepairStands
<1> QED BY <1>1, RepairInvariant, PTL

------------------------------------------------------------------------------
(* Repair: whose position a photo borrows.                                    *)

\* The times that are trusted are those of the file and those of a full name.
LEMMA TrustedDates ==
  ASSUME NEW f \in FileData, NEW m \in Times, NEW offsets \in [Cameras -> Int]
  PROVE  LET date == Date(FromFile(f, m), offsets) IN
         /\ date.trusted \in BOOLEAN
         /\ date.trusted => date.at \in Int
         /\ date.trusted <=> \/ date.source \in {"exif", "exif+offset"}
                             \/ date.source = "filename" /\ f.name.time # NoTime
<1> DEFINE i == FromFile(f, m)
           date == Date(i, offsets)
<1> SUFFICES /\ date.trusted \in BOOLEAN
             /\ date.trusted => date.at \in Int
             /\ date.trusted <=> \/ date.source \in {"exif", "exif+offset"}
                                 \/ date.source = "filename" /\ f.name.time # NoTime
  OBVIOUS
<1>1. /\ i.exif = f.exif /\ i.camera = f.camera /\ i.name = f.name /\ i.modified = m
      /\ f.exif \in Times /\ f.camera \in Cameras
  BY DEF FromFile, FileData
<1> HIDE DEF i
<1>2. CASE i.exif # NoTime /\ Shifted(i, offsets)
  <2>1. date = [at |-> i.exif + offsets[i.camera], source |-> "exif+offset", trusted |-> TRUE]
    BY <1>2 DEF Date
  <2>2. i.exif + offsets[i.camera] \in Int
    BY <1>1, <1>2 DEF Times
  <2>3. date.trusted = TRUE /\ date.at \in Int /\ date.source = "exif+offset"
    BY <2>1, <2>2
  <2> QED BY <2>3
<1>3. CASE i.exif # NoTime /\ ~Shifted(i, offsets)
  <2>1. date = [at |-> i.exif, source |-> "exif", trusted |-> TRUE]
    BY <1>3 DEF Date
  <2>2. i.exif \in Int
    BY <1>1, <1>3 DEF Times
  <2>3. date.trusted = TRUE /\ date.at \in Int /\ date.source = "exif"
    BY <2>1, <2>2
  <2> QED BY <2>3
<1>4. CASE i.exif = NoTime /\ i.name # NoName
  <2>1. date = [at |-> NameTime(i.name), source |-> "filename", trusted |-> i.name.time # NoTime]
    BY <1>4 DEF Date
  <2>2. i.name.day \in Int /\ i.name.time \in Times
    BY <1>1, <1>4 DEF FileData
  <2>3. NameTime(i.name) \in Int
    BY <2>2, SizesAssumption DEF NameTime, Times
  <2>4. date.trusted = (f.name.time # NoTime) /\ date.at \in Int /\ date.source = "filename"
    BY <1>1, <2>1, <2>3
  <2> QED BY <2>4
<1>5. CASE i.exif = NoTime /\ i.name = NoName /\ i.modified # NoTime
  <2>1. date = [at |-> i.modified, source |-> "modified", trusted |-> FALSE]
    BY <1>5 DEF Date
  <2>2. date.trusted = FALSE /\ date.source = "modified"
    BY <2>1
  <2> QED BY <2>2
<1>6. CASE i.exif = NoTime /\ i.name = NoName /\ i.modified = NoTime
  <2>1. date = [at |-> NoTime, source |-> "none", trusted |-> FALSE]
    BY <1>6 DEF Date
  <2>2. date.trusted = FALSE
    BY <2>1
  <2>3. date.source = "none"
    BY <2>1
  <2> QED BY <2>2, <2>3
<1> QED BY <1>2, <1>3, <1>4, <1>5, <1>6

\* The rows that a repair leaves show what it computed: the times, which of them are
\* trusted, the donors, and of a photo without a position of its own what it was lent.
LEMMA RowsShowRepair ==
  ASSUME RepairInv, LastRepairStands, NEW p \in DOMAIN rows
  PROVE  LET inputs == repaired.inputs
             dates == Dates(inputs, repaired.request)
             lent == LentTo(p, inputs, repaired.request)
         IN /\ p \in DOMAIN inputs /\ inputs[p].gps = files[p].gps
            /\ rows[p].at = dates[p].at
            /\ Trusted(p) <=> dates[p].trusted
            /\ dates[p].trusted => dates[p].at \in Int
            /\ files[p].gps = NoGps =>
                 /\ rows[p].gpsSource = IF lent = {} THEN "none" ELSE "inferred"
                 /\ lent # {} => rows[p].pos = inputs[CHOOSE d \in lent : TRUE].gps
<1> DEFINE inputs == repaired.inputs
           request == repaired.request
           dates == Dates(inputs, request)
           lent == LentTo(p, inputs, request)
           m == inputs[p].modified
<1>1. /\ p \in DOMAIN inputs /\ request.offsets \in [Cameras -> Int] /\ m \in Times
      /\ inputs[p] = FromFile(files[p], m)
  BY DEF LastRepairStands, ReadsFiles
<1>2. rows[p] = Updated(Row(files[p]), RepairMetadata(inputs, request)[p])
  BY DEF LastRepairStands
<1>3. files[p] \in FileData
  BY DEF RepairInv
<1> HIDE DEF inputs, request, m
<1>4. inputs[p].gps = files[p].gps
  BY <1>1 DEF FromFile
<1>5. LET now == RepairMetadata(inputs, request)[p]
          own == inputs[p].gps
      IN /\ now.at = dates[p].at
         /\ now.dateSource = dates[p].source
         /\ now.pos = IF own # NoGps \/ lent = {} THEN own ELSE inputs[CHOOSE d \in lent : TRUE].gps
         /\ now.gpsSource = IF own # NoGps THEN "exif" ELSE IF lent = {} THEN "none" ELSE "inferred"
  BY <1>1, RepairedIs
<1>6. dates[p] = Date(FromFile(files[p], m), request.offsets)
  BY <1>1 DEF Dates
<1> HIDE DEF lent, dates
<1> DEFINE now == RepairMetadata(inputs, request)[p]
<1> HIDE DEF now
<1>7. /\ rows[p].at = dates[p].at
      /\ rows[p].dateSource = dates[p].source
      /\ files[p].gps = NoGps =>
           /\ rows[p].gpsSource = IF lent = {} THEN "none" ELSE "inferred"
           /\ lent # {} => rows[p].pos = inputs[CHOOSE d \in lent : TRUE].gps
  <2>1. /\ rows[p].at = now.at /\ rows[p].dateSource = now.dateSource
        /\ rows[p].pos = now.pos /\ rows[p].gpsSource = now.gpsSource
    BY <1>2 DEF Updated, now
  <2>2. /\ now.at = dates[p].at /\ now.dateSource = dates[p].source
        /\ files[p].gps = NoGps =>
             /\ now.pos = IF lent = {} THEN NoGps ELSE inputs[CHOOSE d \in lent : TRUE].gps
             /\ now.gpsSource = IF lent = {} THEN "none" ELSE "inferred"
    BY <1>4, <1>5 DEF now
  <2> QED BY <2>1, <2>2
<1>8. /\ dates[p].trusted => dates[p].at \in Int
      /\ dates[p].trusted <=> \/ dates[p].source \in {"exif", "exif+offset"}
                              \/ dates[p].source = "filename" /\ files[p].name.time # NoTime
  BY <1>1, <1>3, <1>6, TrustedDates
<1>9. Trusted(p) <=> dates[p].trusted
  BY <1>7, <1>8 DEF Trusted
<1> QED BY <1>1, <1>4, <1>7, <1>8, <1>9 DEF inputs, request, dates, lent

\* The donors within the window of a time, and the nearest of some.
Reach(donors, t, dates, window) == {d \in donors : Gap(d, t, dates) <= window}
NearestTo(S, t, dates) == {d \in S : \A e \in S : Gap(d, t, dates) <= Gap(e, t, dates)}
NearestBefore(donors, t, dates, window) ==
  NearestTo({d \in Reach(donors, t, dates, window) : dates[d].at < t}, t, dates)
NearestAfter(donors, t, dates, window) ==
  NearestTo({d \in Reach(donors, t, dates, window) : dates[d].at >= t}, t, dates)

\* A photo borrows from a nearest donor on its two sides, and from none only if there is
\* none or the two sides are too far from each other.
LEMMA LenderIsNearest ==
  ASSUME NEW donors, IsFiniteSet(donors), NEW t \in Int, NEW window \in Int,
         NEW dates, \A d \in donors : dates[d].at \in Int, NEW inputs
  PROVE  LET lent == Lender(donors, t, dates, inputs, window)
             near == Reach(donors, t, dates, window)
             before == NearestBefore(donors, t, dates, window)
             after == NearestAfter(donors, t, dates, window)
             Disputed(d, e) == Ambiguous(inputs[d].gps, inputs[e].gps)
         IN /\ lent \subseteq NearestTo(near, t, dates)
            /\ lent # {} => before = {} \/ after = {} \/ \E d \in before, e \in after :
                   ~Disputed(d, e)
            /\ lent = {} => near = {} \/ \E d \in before, e \in after : Disputed(d, e)
<1> DEFINE lent == Lender(donors, t, dates, inputs, window)
           near == Reach(donors, t, dates, window)
           before == NearestBefore(donors, t, dates, window)
           after == NearestAfter(donors, t, dates, window)
           Disputed(d, e) == Ambiguous(inputs[d].gps, inputs[e].gps)
           prev == Preceding(donors, t, dates, window)
           next == Following(donors, t, dates, window)
           disputed == \E d \in prev, e \in next : Disputed(d, e)
           G(d) == Gap(d, t, dates)
<1>1. /\ prev = {} \/ \E d \in donors : prev = {d}
      /\ \A d \in prev : /\ dates[d].at < t /\ G(d) <= window
                         /\ \A e \in donors : dates[e].at < t => G(d) <= G(e)
      /\ \A e \in donors : dates[e].at < t /\ G(e) <= window => prev # {}
  BY PrecedingIsNearest
<1>2. /\ next = {} \/ \E d \in donors : next = {d}
      /\ \A d \in next : /\ dates[d].at >= t /\ G(d) <= window
                         /\ \A e \in donors : dates[e].at >= t => G(d) <= G(e)
      /\ \A e \in donors : dates[e].at >= t /\ G(e) <= window => next # {}
  BY FollowingIsNearest
<1>3. \A d \in donors : G(d) \in Int /\ (dates[d].at < t \/ dates[d].at >= t)
  BY DEF Gap, Abs
<1>4. lent = IF disputed THEN {}
             ELSE {d \in prev : \A e \in next : G(d) <= G(e)}
                    \cup {e \in next : \A d \in prev : G(e) < G(d)}
  BY DEF Lender
<1>5. near = {d \in donors : G(d) <= window}
  BY DEF Reach
<1>6. /\ before = {d \in near : dates[d].at < t /\ \A e \in near : dates[e].at < t => G(d) <= G(e)}
      /\ after = {d \in near : dates[d].at >= t /\ \A e \in near : dates[e].at >= t => G(d) <= G(e)}
  BY DEF NearestBefore, NearestAfter, NearestTo
<1> HIDE DEF prev, next, lent, near, before, after, G, Disputed
<1>7. prev \subseteq before /\ next \subseteq after
  BY <1>1, <1>2, <1>5, <1>6
<1>8. ASSUME NEW d \in lent, NEW e \in near PROVE d \in near /\ G(d) <= G(e)
  <2>1. CASE d \in prev /\ \A b \in next : G(d) <= G(b)
    <3>1. CASE dates[e].at < t
      BY <1>1, <1>5, <2>1, <3>1
    <3>2. CASE dates[e].at >= t
      <4>1. PICK b \in next : b \in donors /\ G(b) <= G(e)
        BY <1>2, <1>5, <3>2
      <4>2. G(d) <= G(b) /\ d \in near
        BY <1>1, <1>5, <2>1, <4>1
      <4> QED BY <1>3, <1>5, <4>1, <4>2
    <3> QED BY <1>3, <1>5, <3>1, <3>2
  <2>2. CASE d \in next /\ \A b \in prev : G(d) < G(b)
    <3>1. CASE dates[e].at >= t
      BY <1>2, <1>5, <2>2, <3>1
    <3>2. CASE dates[e].at < t
      <4>1. PICK b \in prev : b \in donors /\ G(b) <= G(e)
        BY <1>1, <1>5, <3>2
      <4>2. G(d) < G(b) /\ d \in near
        BY <1>2, <1>5, <2>2, <4>1
      <4> QED BY <1>3, <1>5, <4>1, <4>2
    <3> QED BY <1>3, <1>5, <3>1, <3>2
  <2> QED BY <1>4, <2>1, <2>2
<1>9. ASSUME lent # {} PROVE before = {} \/ after = {} \/ \E d \in before, e \in after :
          ~Disputed(d, e)
  <2>1. ~disputed
    BY <1>4, <1>9
  <2>2. CASE prev = {}
    BY <1>1, <1>5, <1>6, <2>2
  <2>3. CASE next = {}
    BY <1>2, <1>5, <1>6, <2>3
  <2> QED BY <1>7, <2>1, <2>2, <2>3
<1>10. ASSUME lent = {}, near # {} PROVE \E d \in before, e \in after : Disputed(d, e)
  <2>1. prev # {} \/ next # {}
    BY <1>1, <1>2, <1>3, <1>5, <1>10
  <2>2. disputed
    <3> SUFFICES ASSUME ~disputed PROVE FALSE
      OBVIOUS
    <3>1. /\ \A d \in prev : \E e \in next : ~(G(d) <= G(e))
          /\ \A e \in next : \E d \in prev : ~(G(e) < G(d))
      BY <1>4, <1>10
    <3>2. PICK d \in donors, e \in donors : prev = {d} /\ next = {e}
      BY <1>1, <1>2, <2>1, <3>1
    <3> QED BY <1>3, <3>1, <3>2
  <2> QED BY <1>7, <2>2
<1>11. lent \subseteq NearestTo(near, t, dates)
  <2>1. lent \subseteq near
    BY <1>1, <1>2, <1>4, <1>5
  <2> QED BY <1>8, <2>1 DEF NearestTo, G
<1> QED BY <1>9, <1>10, <1>11 DEF lent, near, before, after, Disputed

\* repair_metadata: a photo without a position borrows that of a nearest donor, whenever
\* the donors on its two sides agree, and of no other.
THEOREM BorrowersAreNear == RepairSpec => []BorrowsFromNearest
<1>1. ASSUME RepairInv PROVE BorrowsFromNearest
  <2> SUFFICES ASSUME repaired # None, NEW p \in DOMAIN rows, files[p].gps = NoGps
               PROVE  LET near == {d \in OwnGps : Apart(p, d) <= repaired.request.window}
                          Nearest(S) == {d \in S : \A e \in S : Apart(p, d) <= Apart(p, e)}
                          before == Nearest({d \in near : rows[d].at < rows[p].at})
                          after == Nearest({d \in near : rows[d].at >= rows[p].at})
                          Disputed(d, e) == Ambiguous(files[d].gps, files[e].gps)
                      IN IF rows[p].gpsSource = "inferred"
                         THEN /\ Trusted(p)
                              /\ before = {} \/ after = {} \/ \E d \in before, e \in after :
                                     ~Disputed(d, e)
                              /\ \E d \in Nearest(near) : rows[p].pos = files[d].gps
                         ELSE ~Trusted(p) \/ near = {} \/ \E d \in before, e \in after :
                             Disputed(d, e)
    BY DEF BorrowsFromNearest, Done
  <2> DEFINE inputs == repaired.inputs
             request == repaired.request
             window == request.window
             dates == Dates(inputs, request)
             donors == Donors(inputs, dates)
             lent == LentTo(p, inputs, request)
             t == dates[p].at
             near == {d \in OwnGps : Apart(p, d) <= window}
             Nearest(S) == {d \in S : \A e \in S : Apart(p, d) <= Apart(p, e)}
             before == Nearest({d \in near : rows[d].at < rows[p].at})
             after == Nearest({d \in near : rows[d].at >= rows[p].at})
  <2>1. LastRepairStands
    BY <1>1 DEF RepairInv
  <2>2. /\ DOMAIN inputs = DOMAIN rows /\ window \in Int
    BY <2>1 DEF LastRepairStands, ReadsFiles
  <2>3. \A q \in DOMAIN rows :
          /\ inputs[q].gps = files[q].gps /\ rows[q].at = dates[q].at
          /\ Trusted(q) <=> dates[q].trusted
          /\ dates[q].trusted => dates[q].at \in Int
    BY <1>1, <2>1, RowsShowRepair
  <2>4. /\ rows[p].gpsSource = IF lent = {} THEN "none" ELSE "inferred"
        /\ lent # {} => rows[p].pos = inputs[CHOOSE d \in lent : TRUE].gps
    BY <1>1, <2>1, RowsShowRepair
  <2>5. /\ OwnGps = donors
        /\ donors \subseteq DOMAIN rows /\ \A d \in donors : dates[d].at \in Int
    BY <2>2, <2>3 DEF OwnGps, Donors
  <2>6. lent = IF dates[p].trusted THEN Lender(donors, t, dates, inputs, window) ELSE {}
    BY DEF LentTo
  <2>7. CASE ~Trusted(p)
    <3>1. lent = {}
      BY <2>3, <2>6, <2>7
    <3> QED BY <2>4, <2>7, <3>1
  <2>8. CASE Trusted(p)
    <3>1. t \in Int /\ rows[p].at = t /\ lent = Lender(donors, t, dates, inputs, window)
      BY <2>3, <2>6, <2>8
    <3>2. IsFiniteSet(donors)
      BY <1>1, <2>5, FS_Subset DEF RepairInv
    <3> HIDE DEF inputs, request, window, dates, donors, lent, t
    <3>3. \A d \in donors : rows[d].at = dates[d].at /\ inputs[d].gps = files[d].gps
      BY <2>3, <2>5
    <3>4. \A d \in donors : Apart(p, d) = Gap(d, t, dates)
      BY <2>5, <3>1, <3>3 DEF Apart, Gap, Abs
    <3>5. near = Reach(donors, t, dates, window) /\ near \subseteq donors
      BY <2>5, <3>4 DEF Reach
    <3> HIDE DEF near
    <3>6. /\ Nearest(near) = NearestTo(near, t, dates)
          /\ before = NearestBefore(donors, t, dates, window)
          /\ after = NearestAfter(donors, t, dates, window)
      BY <3>1, <3>3, <3>4, <3>5 DEF NearestTo, NearestBefore, NearestAfter
    <3>7. /\ lent \subseteq Nearest(near)
          /\ lent # {} => before = {} \/ after = {} \/ \E d \in before, e \in after :
                 ~Ambiguous(inputs[d].gps, inputs[e].gps)
          /\ lent = {} => near = {} \/ \E d \in before, e \in after :
                 Ambiguous(inputs[d].gps, inputs[e].gps)
      BY <2>2, <2>5, <3>1, <3>2, <3>5, <3>6, LenderIsNearest
    <3>8. before \subseteq donors /\ after \subseteq donors /\ Nearest(near) \subseteq donors
      BY <3>5
    <3>9. CASE lent = {}
      BY <2>4, <3>3, <3>7, <3>8, <3>9 DEF near, window, request
    <3>10. CASE lent # {}
      <4>1. PICK d \in lent : rows[p].pos = inputs[d].gps
        BY <2>4, <3>10
      <4>2. d \in Nearest(near) /\ rows[p].pos = files[d].gps
        BY <3>3, <3>7, <3>8, <4>1
      <4>3. before = {} \/ after = {} \/ \E d1 \in before, e \in after :
                ~Ambiguous(files[d1].gps, files[e].gps)
        BY <3>3, <3>7, <3>8, <3>10
      <4> QED BY <2>4, <2>8, <3>10, <4>2, <4>3 DEF near, window, request
    <3> QED BY <3>9, <3>10
  <2> QED BY <2>7, <2>8
<1> QED BY <1>1, RepairInvariant, PTL
------------------------------------------------------------------------------
(* Similar photos: the loop over the photos.                                  *)

\* Which photos the loop looks at.
Taken(n, paths, lib) == n \in paths /\ lib[n].readable /\ lib[n].kind = "photo"

\* The loop, as a recursion: there is one function that it defines.
LEMMA ClustersGrow ==
  ASSUME NEW paths, NEW lib, Len(lib) \in Nat
  PROVE  LET C == Clusters(paths, lib)
         IN C = [n \in 0 .. Len(lib) |-> IF n = 0 THEN NoClusters
                   ELSE IF Taken(n, paths, lib) THEN JoinGroup(C[n - 1], n, lib) ELSE C[n - 1]]
<1> DEFINE Turn(c, n) == IF Taken(n, paths, lib) THEN JoinGroup(c, n, lib) ELSE c
           Loop(f, k) == f = [n \in 0 .. k |-> IF n = 0 THEN NoClusters ELSE Turn(f[n - 1], n)]
           Looped(k) == \E f : Loop(f, k)
           Wrong == {k \in 0 .. Len(lib) : ~Looped(k)}
<1>1. Looped(0)
  <2> DEFINE f == [n \in 0 .. 0 |-> NoClusters]
  <2>1. f = [n \in 0 .. 0 |-> IF n = 0 THEN NoClusters ELSE Turn(f[n - 1], n)]
    OBVIOUS
  <2> HIDE DEF f, Turn
  <2> QED BY <2>1
<1>2. ASSUME NEW k \in 1 .. Len(lib), Looped(k - 1) PROVE Looped(k)
  <2> HIDE DEF Turn
  <2>1. PICK f : Loop(f, k - 1)
    BY <1>2
  <2> DEFINE g == [n \in 0 .. k |-> IF n = k THEN Turn(f[k - 1], k) ELSE f[n]]
  <2>2. \A n \in 0 .. k : g[n] = IF n = 0 THEN NoClusters ELSE Turn(g[n - 1], n)
    BY <2>1
  <2>3. g = [n \in 0 .. k |-> g[n]]
    OBVIOUS
  <2> HIDE DEF g
  <2>4. Loop(g, k)
    BY <2>2, <2>3
  <2> QED BY <2>4
<1>3. Wrong = {}
  <2> SUFFICES ASSUME Wrong # {} PROVE FALSE
    OBVIOUS
  <2> HIDE DEF Looped
  <2>1. Wrong \in SUBSET Nat /\ Wrong \subseteq 0 .. Len(lib)
    OBVIOUS
  <2>2. PICK k \in Wrong : \A m \in Wrong : k <= m
    BY <2>1, LeastNumber, Zenon
  <2>3. k \in 0 .. Len(lib) /\ ~Looped(k) /\ k # 0
    BY <1>1
  <2>4. k \in 1 .. Len(lib) /\ k - 1 \in 0 .. Len(lib) /\ ~(k <= k - 1)
    BY <2>3
  <2>5. Looped(k - 1)
    BY <2>2, <2>4
  <2> QED BY <1>2, <2>3, <2>4, <2>5
<1>4. PICK f : Loop(f, Len(lib))
  BY <1>3
<1>5. Clusters(paths, lib) = CHOOSE joined : Loop(joined, Len(lib))
  BY Zenon DEF Clusters, Taken
<1>6. Loop(Clusters(paths, lib), Len(lib))
  <2> HIDE DEF Loop
  <2> QED BY <1>4, <1>5
<1> QED BY <1>6

\* A change at a place of a sequence, if it is one of its places.
LEMMA ChangeAt ==
  ASSUME NEW S, NEW s \in Seq(S), NEW i, NEW e, i \in 1 .. Len(s) => e \in S
  PROVE  /\ [s EXCEPT ![i] = e] \in Seq(S)
         /\ Len([s EXCEPT ![i] = e]) = Len(s)
         /\ \A k \in 1 .. Len(s) : [s EXCEPT ![i] = e][k] = IF k = i THEN e ELSE s[k]
<1>1. s = [k \in 1 .. Len(s) |-> s[k]] /\ Len(s) \in Nat /\ \A k \in 1 .. Len(s) : s[k] \in S
  BY LenProperties, ElementOfSeq
<1>2. [s EXCEPT ![i] = e] = [k \in 1 .. Len(s) |-> IF k = i THEN e ELSE s[k]]
  BY <1>1
<1>3. \A k \in 1 .. Len(s) : (IF k = i THEN e ELSE s[k]) \in S
  BY <1>1
<1> DEFINE changed == [k \in 1 .. Len(s) |-> IF k = i THEN e ELSE s[k]]
<1>4. changed \in Seq(S) /\ Len(changed) = Len(s)
  BY <1>1, <1>3
<1> QED BY <1>2, <1>4

\* The groups are of the photos that the pass covers.
LEMMA ClustersAreOfThePaths ==
  ASSUME NEW paths, NEW lib, Len(lib) \in Nat
  PROVE  \A n \in 0 .. Len(lib) : Clusters(paths, lib)[n].groups \in Seq(Seq(paths))
<1> DEFINE C == Clusters(paths, lib)
           Wrong == {k \in 0 .. Len(lib) : C[k].groups \notin Seq(Seq(paths))}
<1>1. C = [n \in 0 .. Len(lib) |-> IF n = 0 THEN NoClusters
             ELSE IF Taken(n, paths, lib) THEN JoinGroup(C[n - 1], n, lib) ELSE C[n - 1]]
  BY ClustersGrow
<1> HIDE DEF C
<1>2. C[0].groups \in Seq(Seq(paths))
  <2>1. C[0] = NoClusters
    BY <1>1
  <2>2. NoClusters.groups = <<>>
    BY DEF NoClusters
  <2> DEFINE S == Seq(paths)
  <2> HIDE DEF S
  <2>3. <<>> \in Seq(S)
    OBVIOUS
  <2> QED BY <2>1, <2>2, <2>3 DEF S
<1>3. ASSUME NEW k \in 1 .. Len(lib), C[k - 1].groups \in Seq(Seq(paths))
      PROVE  C[k].groups \in Seq(Seq(paths))
  <2> DEFINE before == C[k - 1].groups
             match == IF C[k - 1].tree = <<>> THEN 0 ELSE FindSimilar(C[k - 1], k, lib)[1]
             joined == [before EXCEPT ![match] = Append(before[match], k)]
  <2>1. k \in paths => <<k>> \in Seq(paths)
    OBVIOUS
  <2> HIDE DEF match
  <2>2. k \in paths => joined \in Seq(Seq(paths))
    <3> DEFINE S == Seq(paths)
    <3>1. k \in paths /\ match \in 1 .. Len(before) => Append(before[match], k) \in S
      <4> SUFFICES ASSUME k \in paths, match \in 1 .. Len(before)
              PROVE Append(before[match], k) \in S
        OBVIOUS
      <4>1. before[match] \in S
        BY <1>3, ElementOfSeq
      <4> QED BY <4>1, AppendProperties
    <3> HIDE DEF S
    <3>2. before \in Seq(S)
      BY <1>3 DEF S
    <3> HIDE DEF before
    <3> QED BY <3>1, <3>2, ChangeAt DEF S
  <2>3. k \in paths => Append(before, <<k>>) \in Seq(Seq(paths))
    BY <1>3, <2>1
  <2>4. JoinGroup(C[k - 1], k, lib).groups = IF match = 0 THEN Append(before, <<k>>) ELSE joined
    BY Zenon DEF JoinGroup, match
  <2>5. C[k] = IF Taken(k, paths, lib) THEN JoinGroup(C[k - 1], k, lib) ELSE C[k - 1]
    BY <1>1
  <2> HIDE DEF joined
  <2> QED BY <1>3, <2>2, <2>3, <2>4, <2>5 DEF Taken
<1>4. Wrong = {}
  <2> SUFFICES ASSUME Wrong # {} PROVE FALSE
    OBVIOUS
  <2>1. Wrong \in SUBSET Nat
    OBVIOUS
  <2>2. PICK k \in Wrong : \A m \in Wrong : k <= m
    BY <2>1, LeastNumber, Zenon
  <2>3. k # 0
    BY <1>2
  <2>4. k \in 1 .. Len(lib) /\ k - 1 \in 0 .. Len(lib) /\ ~(k <= k - 1)
    BY <2>3
  <2>5. C[k - 1].groups \in Seq(Seq(paths))
    BY <2>2, <2>4
  <2> QED BY <1>3, <2>4, <2>5
<1> QED BY <1>4 DEF C
------------------------------------------------------------------------------
(* Similar photos: the search tree.                                           *)

\* The children of a node come after it.
ChildrenFollow(tree) ==
  \A k \in 1 .. Len(tree) : /\ tree[k].left = 0 \/ tree[k].left \in k + 1 .. Len(tree)
                            /\ tree[k].right = 0 \/ tree[k].right \in k + 1 .. Len(tree)

\* What a node answers to a search, given what its children do.
Answer(node, k, d, left, right) ==
  IF d <= Radius THEN k
  ELSE IF d - Radius <= node.threshold /\ left # 0 THEN left
  ELSE IF d + Radius >= node.threshold THEN right ELSE 0

\* The search, as a recursion: there is one function that it defines.
LEMMA SearchGoesDown ==
  ASSUME NEW c, NEW p, NEW lib, Len(c.tree) \in Nat, ChildrenFollow(c.tree)
  PROVE  LET found == FindSimilar(c, p, lib)
             tree == c.tree
         IN found = [k \in 0 .. Len(tree) |-> IF k = 0 THEN 0
              ELSE Answer(tree[k], k, FromLeader(c, k, p, lib),
                          found[tree[k].left], found[tree[k].right])]
<1> DEFINE tree == c.tree
           N == Len(tree)
           Body(f, k) == IF k = 0 THEN 0
             ELSE Answer(tree[k], k, FromLeader(c, k, p, lib), f[tree[k].left], f[tree[k].right])
           Loop(f) == f = [k \in 0 .. N |-> Body(f, k)]
           Source(f) == f = [k \in 0 .. N |->
             LET d == FromLeader(c, k, p, lib)
                 left == IF d - Radius <= tree[k].threshold THEN f[tree[k].left] ELSE 0
                 right == IF d + Radius >= tree[k].threshold THEN f[tree[k].right] ELSE 0
             IN CASE k = 0 -> 0
                  [] k # 0 /\ d <= Radius -> k
                  [] OTHER -> IF left # 0 THEN left ELSE right]
           Defined(i) == \E f : /\ f = [k \in 0 .. N |-> f[k]] /\ f[0] = 0
                             /\ \A k \in 1 .. N : N - i < k => f[k] = Body(f, k)
           Wrong == {i \in 0 .. N : ~Defined(i)}
<1>1. FindSimilar(c, p, lib) = CHOOSE f : Source(f)
  BY Zenon DEF FindSimilar
<1>2. \A f : Source(f) <=> Loop(f)
  <2> TAKE f
  <2> DEFINE d(k) == FromLeader(c, k, p, lib)
             left(k) == IF d(k) - Radius <= tree[k].threshold THEN f[tree[k].left] ELSE 0
             right(k) == IF d(k) + Radius >= tree[k].threshold THEN f[tree[k].right] ELSE 0
             Given(k) == CASE k = 0 -> 0
                           [] k # 0 /\ d(k) <= Radius -> k
                           [] OTHER -> IF left(k) # 0 THEN left(k) ELSE right(k)
  <2>1. \A k \in 0 .. N : Given(k) = Body(f, k)
    <3> TAKE k \in 0 .. N
    <3>1. CASE k = 0
      BY <3>1
    <3>2. CASE k # 0 /\ d(k) <= Radius
      BY <3>2 DEF Answer
    <3>3. CASE k # 0 /\ ~(d(k) <= Radius)
      <4>1. Given(k) = IF left(k) # 0 THEN left(k) ELSE right(k)
        BY <3>3
      <4> QED BY <3>3, <4>1 DEF Answer
    <3> QED BY <3>1, <3>2, <3>3
  <2>2. Source(f) <=> f = [k \in 0 .. N |-> Given(k)]
    BY Zenon
  <2> HIDE DEF Given, Body
  <2> QED BY <2>1, <2>2
<1>3. Defined(0)
  <2> DEFINE f == [k \in 0 .. N |-> 0]
  <2>1. f[0] = 0 /\ f = [k \in 0 .. N |-> f[k]] /\ \A k \in 1 .. N : ~(N - 0 < k)
    OBVIOUS
  <2> HIDE DEF f, Body
  <2> QED BY <2>1
<1>4. ASSUME NEW i \in 1 .. N, Defined(i - 1) PROVE Defined(i)
  <2> HIDE DEF Body
  <2>1. PICK f : /\ f = [k \in 0 .. N |-> f[k]] /\ f[0] = 0
                 /\ \A k \in 1 .. N : N - (i - 1) < k => f[k] = Body(f, k)
    BY <1>4
  <2> DEFINE m == N - i + 1
             g == [k \in 0 .. N |-> IF k = m THEN Body(f, m) ELSE f[k]]
  <2>2. m \in 1 .. N /\ N \in Nat
    OBVIOUS
  <2>3. /\ g = [k \in 0 .. N |-> g[k]] /\ g[0] = 0 /\ g[m] = Body(f, m)
        /\ \A k \in 0 .. N : k # m => g[k] = f[k]
    BY <2>1, <2>2
  <2> HIDE DEF g
  <2>4. \A k \in m .. N : Body(g, k) = Body(f, k)
    <3> TAKE k \in m .. N
    <3>1. /\ tree[k].left \in 0 .. N /\ tree[k].left # m
          /\ tree[k].right \in 0 .. N /\ tree[k].right # m
      <4>1. k \in 1 .. N
        BY <2>2
      <4>2. /\ tree[k].left = 0 \/ tree[k].left \in k + 1 .. N
            /\ tree[k].right = 0 \/ tree[k].right \in k + 1 .. N
        BY <4>1, Zenon DEF ChildrenFollow
      <4>3. 0 \in 0 .. N /\ 0 # m /\ \A j \in k + 1 .. N : j \in 0 .. N /\ j # m
        <5> HIDE DEF N
        <5> QED BY <2>2, <4>1
      <4> QED BY <4>2, <4>3, Zenon
    <3>2. g[tree[k].left] = f[tree[k].left] /\ g[tree[k].right] = f[tree[k].right]
      BY <2>3, <3>1
    <3> QED BY <3>2, Zenon DEF Body
  <2>5. \A k \in 1 .. N : N - i < k => g[k] = Body(g, k)
    <3> TAKE k \in 1 .. N
    <3>1. CASE k = m
      BY <2>2, <2>3, <2>4, <3>1
    <3>2. CASE k # m /\ N - i < k
      <4>1. k \in m .. N /\ k \in 0 .. N /\ N - (i - 1) < k
        BY <3>2
      <4>2. g[k] = f[k] /\ f[k] = Body(f, k)
        BY <2>1, <2>3, <3>2, <4>1
      <4> QED BY <2>4, <4>1, <4>2
    <3> QED BY <3>1, <3>2
  <2> QED BY <2>3, <2>5
<1>5. Wrong = {}
  <2> SUFFICES ASSUME Wrong # {} PROVE FALSE
    OBVIOUS
  <2> HIDE DEF Defined
  <2>1. Wrong \in SUBSET Nat /\ Wrong \subseteq 0 .. N
    OBVIOUS
  <2>2. PICK k \in Wrong : \A m \in Wrong : k <= m
    BY <2>1, LeastNumber, Zenon
  <2>3. k \in 0 .. N /\ ~Defined(k) /\ k # 0
    BY <1>3
  <2>4. k \in 1 .. N /\ k - 1 \in 0 .. N /\ ~(k <= k - 1)
    BY <2>3
  <2>5. Defined(k - 1)
    BY <2>2, <2>4
  <2> QED BY <1>4, <2>3, <2>4, <2>5
<1>6. \E f : Loop(f)
  <2>1. Defined(N)
    <3> HIDE DEF Defined
    <3> QED BY <1>5
  <2> HIDE DEF Body
  <2>2. PICK f : /\ f = [k \in 0 .. N |-> f[k]] /\ f[0] = 0
                 /\ \A k \in 1 .. N : N - N < k => f[k] = Body(f, k)
    BY <2>1
  <2>3. \A k \in 0 .. N : f[k] = Body(f, k)
    <3>1. Body(f, 0) = 0
      BY DEF Body
    <3> QED BY <2>2, <3>1
  <2>4. f = [k \in 0 .. N |-> Body(f, k)]
    BY <2>2, <2>3
  <2> QED BY <2>4
<1>7. Loop(FindSimilar(c, p, lib))
  <2> HIDE DEF Source, Loop
  <2> QED BY <1>1, <1>2, <1>6
<1> QED BY <1>7

\* The child of a node on the side of a photo.
ChildOnSide(c, j, p, lib) ==
  IF FromLeader(c, j, p, lib) <= c.tree[j].threshold THEN c.tree[j].left ELSE c.tree[j].right

\* The way of a photo through the tree, as a recursion.
LEMMA WayGoesDown ==
  ASSUME NEW c, NEW p, NEW lib, c.tree \in Seq([threshold : Nat, left : Nat, right : Nat])
  PROVE  \A k \in 1 .. Len(c.tree) : OnTheWay(c, p, lib)[k] <=>
           (k = 1 \/ \E j \in 1 .. k - 1 : OnTheWay(c, p, lib)[j] /\ ChildOnSide(c, j, p, lib) = k)
<1> DEFINE tree == c.tree
           N == Len(tree)
           Child(j) == IF FromLeader(c, j, p, lib) <= tree[j].threshold THEN tree[j].left
               ELSE tree[j].right
           Body(f, k) == k = 1 \/ \E j \in 1 .. k - 1 : f[j] /\ Child(j) = k
           Loop(f) == f = [k \in 1 .. N |-> Body(f, k)]
           Defined(i) == \E f \in [1 .. N -> BOOLEAN] : \A k \in 1 .. i : f[k] <=> Body(f, k)
           Wrong == {i \in 0 .. N : ~Defined(i)}
<1>0. N \in Nat /\ DOMAIN tree = 1 .. N
  BY LenProperties
<1>1. OnTheWay(c, p, lib) = CHOOSE f : Loop(f)
  BY <1>0, Zenon DEF OnTheWay
<1>2. Defined(0)
  <2> DEFINE f == [k \in 1 .. N |-> TRUE]
  <2>1. f \in [1 .. N -> BOOLEAN] /\ \A k \in 1 .. 0 : f[k] <=> Body(f, k)
    OBVIOUS
  <2> HIDE DEF f, Body
  <2> QED BY <2>1
<1>3. ASSUME NEW i \in 1 .. N, Defined(i - 1) PROVE Defined(i)
  <2>1. PICK f \in [1 .. N -> BOOLEAN] : \A k \in 1 .. i - 1 : f[k] <=> Body(f, k)
    BY <1>3
  <2> DEFINE g == [k \in 1 .. N |-> IF k = i THEN Body(f, i) ELSE f[k]]
  <2>2. g \in [1 .. N -> BOOLEAN] /\ (g[i] <=> Body(f, i))
    <3> HIDE DEF Child
    <3> QED BY Zenon
  <2>3. \A k \in 1 .. N : k # i => (g[k] <=> f[k])
    BY Zenon
  <2> HIDE DEF g
  <2>4. \A k \in 1 .. i : Body(g, k) <=> Body(f, k)
    <3> TAKE k \in 1 .. i
    <3>1. \A j \in 1 .. k - 1 : j \in 1 .. N /\ j # i
      <4>1. \A n \in Nat : \A a \in 1 .. n : \A b \in 1 .. a : \A j \in 1 .. b - 1 :
                j \in 1 .. n /\ j # a
        OBVIOUS
      <4> QED BY <1>0, <4>1, Zenon
    <3>2. \A j \in 1 .. k - 1 : g[j] <=> f[j]
      BY <2>3, <3>1, Zenon
    <3> HIDE DEF Child
    <3> QED BY <3>2, Zenon
  <2>5. \A k \in 1 .. i : g[k] <=> Body(g, k)
    <3> TAKE k \in 1 .. i
    <3>1. k \in 1 .. N /\ (k = i \/ k \in 1 .. i - 1)
      BY <1>0
    <3> HIDE DEF Body
    <3>2. CASE k = i
      BY <2>2, <2>4, <3>2, Zenon
    <3>3. CASE k # i
      BY <2>1, <2>3, <2>4, <3>1, <3>3, Zenon
    <3> QED BY <3>2, <3>3
  <2> HIDE DEF Body
  <2> QED BY <2>2, <2>5
<1>4. Wrong = {}
  <2> SUFFICES ASSUME Wrong # {} PROVE FALSE
    OBVIOUS
  <2> HIDE DEF Defined
  <2>1. Wrong \in SUBSET Nat /\ Wrong \subseteq 0 .. N
    BY <1>0
  <2>2. PICK k \in Wrong : \A m \in Wrong : k <= m
    BY <2>1, LeastNumber, Zenon
  <2>3. k \in 0 .. N /\ ~Defined(k) /\ k # 0
    BY <1>2
  <2>4. k \in 1 .. N /\ k - 1 \in 0 .. N /\ ~(k <= k - 1)
    BY <1>0, <2>3
  <2>5. Defined(k - 1)
    BY <2>2, <2>4
  <2> QED BY <1>3, <2>3, <2>4, <2>5
<1>5. \E f : Loop(f)
  <2>1. Defined(N)
    <3> HIDE DEF Defined
    <3> QED BY <1>0, <1>4
  <2>2. PICK f \in [1 .. N -> BOOLEAN] : \A k \in 1 .. N : f[k] <=> Body(f, k)
    BY <2>1
  <2>3. \A k \in 1 .. N : f[k] = Body(f, k)
    <3> TAKE k \in 1 .. N
    <3>1. f[k] \in BOOLEAN /\ Body(f, k) \in BOOLEAN
      BY Zenon
    <3>2. f[k] <=> Body(f, k)
      BY <2>2, Zenon
    <3> QED BY <3>1, <3>2, Zenon
  <2>4. f = [k \in 1 .. N |-> f[k]]
    OBVIOUS
  <2> HIDE DEF Body
  <2>5. f = [k \in 1 .. N |-> Body(f, k)]
    BY <2>3, <2>4, Zenon
  <2> QED BY <2>5
<1>6. Loop(OnTheWay(c, p, lib))
  <2> HIDE DEF Loop
  <2> QED BY <1>1, <1>5
<1>7. \A f : Loop(f) => \A k \in 1 .. N : f[k] <=> Body(f, k)
  <2> SUFFICES ASSUME NEW f, Loop(f), NEW k \in 1 .. N PROVE f[k] <=> Body(f, k)
    BY Zenon
  <2> HIDE DEF Child
  <2>1. f[k] = Body(f, k)
    BY Zenon
  <2> QED BY <2>1, Zenon
<1> HIDE DEF Loop
<1>8. \A k \in 1 .. N : OnTheWay(c, p, lib)[k] <=> Body(OnTheWay(c, p, lib), k)
  BY <1>6, <1>7, Zenon
<1> QED BY <1>8, Zenon DEF ChildOnSide

\* The distance of two leaders.
Between(c, j, k, lib) == FromLeader(c, k, c.groups[j][1], lib)

\* The tree, with the nodes T[k] that went past node k on their way or are it:  they are
\* on the side of its threshold where they are searched for.
TreeOf(c, T, lib) ==
  /\ c.tree \in Seq([threshold : Nat, left : Nat, right : Nat]) /\ ChildrenFollow(c.tree)
  /\ T \in [1 .. Len(c.tree) -> SUBSET (1 .. Len(c.tree))]
  /\ 1 \in 1 .. Len(c.tree) => T[1] = 1 .. Len(c.tree)
  /\ \A k \in 1 .. Len(c.tree) :
       /\ c.tree[k].threshold = 0 => c.tree[k].left = 0 /\ c.tree[k].right = 0
       /\ \A j \in T[k] : k <= j
       /\ \A j \in T[k] \ {k} :
            IF Between(c, j, k, lib) <= c.tree[k].threshold
            THEN c.tree[k].left # 0 /\ j \in T[c.tree[k].left]
            ELSE c.tree[k].right # 0 /\ j \in T[c.tree[k].right]

\* The leaders of the clusters can be compared.
Led(c, lib) ==
  /\ c.groups \in Seq(Seq(Nat)) /\ Len(c.groups) = Len(c.tree)
  /\ \A k \in 1 .. Len(c.tree) : lib[c.groups[k][1]].features \in Features

\* Distances are natural numbers, the same both ways, and 0 from a photo to itself.
LEMMA DistancesOfFeatures ==
  ASSUME NEW f, NEW g, f.features \in Features, g.features \in Features
  PROVE  Distance(f, g) \in Nat /\ Distance(f, g) = Distance(g, f) /\ Distance(f, f) = 0
BY DifferenceAssumption DEF Distance

\* The leader of a cluster.
Lead(c, k, lib) == lib[c.groups[k][1]]

\* No leader before j breaks the triangle inequality with it and a photo.
StraightTo(c, j, p, lib) == \A m \in 1 .. j - 1 : Straight(Lead(c, m, lib), Lead(c, j, lib), lib[p])

\* A search finds a leader within the radius if there is one that no leader before it
\* hides, from each node among those that went past it.
LEMMA SearchFinds ==
  ASSUME NEW c, NEW T, NEW lib, TreeOf(c, T, lib), Led(c, lib), NEW p, lib[p].features \in Features
  PROVE  LET found == FindSimilar(c, p, lib)
         IN \A k \in 1 .. Len(c.tree) :
              /\ found[k] \in 0 .. Len(c.tree)
              /\ found[k] # 0 => FromLeader(c, found[k], p, lib) <= Radius
              /\ (\E j \in T[k] : FromLeader(c, j, p, lib) <= Radius /\ StraightTo(c, j, p, lib))
                   => found[k] # 0
<1> DEFINE tree == c.tree
           N == Len(tree)
           found == FindSimilar(c, p, lib)
           d(k) == FromLeader(c, k, p, lib)
           Good(k) == /\ found[k] \in 0 .. N
                      /\ found[k] # 0 => d(found[k]) <= Radius
                      /\ (\E j \in T[k] : d(j) <= Radius /\ StraightTo(c, j, p, lib))
                           => found[k] # 0
           Wrong == {i \in 0 .. N - 1 : ~Good(N - i)}
<1>1. /\ N \in Nat /\ tree \in Seq([threshold : Nat, left : Nat, right : Nat]) /\ Radius \in Nat
      /\ \A k \in 1 .. N : /\ tree[k].threshold \in Nat
                           /\ tree[k].left = 0 \/ tree[k].left \in k + 1 .. N
                           /\ tree[k].right = 0 \/ tree[k].right \in k + 1 .. N
  <2>1. tree \in Seq([threshold : Nat, left : Nat, right : Nat]) /\ ChildrenFollow(tree)
    BY DEF TreeOf
  <2>2. \A k \in 1 .. N : tree[k] \in [threshold : Nat, left : Nat, right : Nat]
    BY <2>1, ElementOfSeq
  <2> QED BY <2>1, <2>2, LenProperties, RadiusAssumption DEF ChildrenFollow
<1>2. /\ found[0] = 0
      /\ \A k \in 1 .. N :
           found[k] = Answer(tree[k], k, d(k), found[tree[k].left], found[tree[k].right])
  <2>1. found = [k \in 0 .. N |-> IF k = 0 THEN 0
              ELSE Answer(tree[k], k, d(k), found[tree[k].left], found[tree[k].right])]
    BY <1>1, SearchGoesDown DEF TreeOf
  <2> HIDE DEF found, d
  <2>2. \A k \in 0 .. N : found[k] = IF k = 0 THEN 0
              ELSE Answer(tree[k], k, d(k), found[tree[k].left], found[tree[k].right])
    BY <2>1
  <2>3. 0 \in 0 .. N /\ \A k \in 1 .. N : k \in 0 .. N /\ k # 0
    BY <1>1
  <2> QED BY <2>2, <2>3
<1>3. /\ \A k \in 1 .. N : d(k) \in Nat
      /\ \A j, k \in 1 .. N : Between(c, j, k, lib) \in Nat
      /\ \A j, k \in 1 .. N : Straight(Lead(c, k, lib), Lead(c, j, lib), lib[p]) =>
           d(k) <= Between(c, j, k, lib) + d(j) /\ Between(c, j, k, lib) <= d(k) + d(j)
  <2> SUFFICES ASSUME NEW j \in 1 .. N, NEW k \in 1 .. N
      PROVE  /\ d(k) \in Nat /\ Between(c, j, k, lib) \in Nat
             /\ Straight(Lead(c, k, lib), Lead(c, j, lib), lib[p]) =>
                  d(k) <= Between(c, j, k, lib) + d(j) /\ Between(c, j, k, lib) <= d(k) + d(j)
    BY <1>1
  <2>1. Lead(c, j, lib).features \in Features /\ Lead(c, k, lib).features \in Features
    BY DEF Led, Lead
  <2>2. /\ d(k) = Distance(Lead(c, k, lib), lib[p]) /\ d(j) = Distance(Lead(c, j, lib), lib[p])
        /\ Between(c, j, k, lib) = Distance(Lead(c, k, lib), Lead(c, j, lib))
    BY Zenon DEF FromLeader, Between, Lead
  <2> HIDE DEF d
  <2>3. d(k) \in Nat /\ Between(c, j, k, lib) \in Nat
    BY <2>1, <2>2, DistancesOfFeatures
  <2> QED BY <2>2, <2>3, Zenon DEF Straight
<1>4. \A k \in 1 .. N : /\ T[k] \subseteq 1 .. N /\ \A j \in T[k] : k <= j
                        /\ \A j \in T[k] \ {k} :
                             IF Between(c, j, k, lib) <= tree[k].threshold
                             THEN tree[k].left # 0 /\ j \in T[tree[k].left]
                             ELSE tree[k].right # 0 /\ j \in T[tree[k].right]
  BY DEF TreeOf
<1> HIDE DEF d, found
<1>5. ASSUME NEW k \in 1 .. N, \A m \in k + 1 .. N : Good(m) PROVE Good(k)
  <2> DEFINE left == found[tree[k].left]
             right == found[tree[k].right]
  <2>1. /\ left \in 0 .. N /\ right \in 0 .. N
        /\ left # 0 => d(left) <= Radius
        /\ right # 0 => d(right) <= Radius
    <3>1. left \in 0 .. N /\ (left # 0 => d(left) <= Radius)
      <4>1. CASE tree[k].left = 0
        BY <1>1, <1>2, <4>1
      <4>2. CASE tree[k].left \in k + 1 .. N
        <5>1. Good(tree[k].left)
          <6> HIDE DEF Good
          <6> QED BY <1>5, <4>2
        <5> QED BY <5>1
      <4> QED BY <1>1, <4>1, <4>2
    <3>2. right \in 0 .. N /\ (right # 0 => d(right) <= Radius)
      <4>1. CASE tree[k].right = 0
        BY <1>1, <1>2, <4>1
      <4>2. CASE tree[k].right \in k + 1 .. N
        <5>1. Good(tree[k].right)
          <6> HIDE DEF Good
          <6> QED BY <1>5, <4>2
        <5> QED BY <5>1
      <4> QED BY <1>1, <4>1, <4>2
    <3> QED BY <3>1, <3>2, Zenon
  <2>2. found[k] = Answer(tree[k], k, d(k), left, right)
    BY <1>2
  <2>3. found[k] \in 0 .. N /\ (found[k] # 0 => d(found[k]) <= Radius)
    BY <1>1, <2>1, <2>2 DEF Answer
  <2>4. ASSUME NEW j \in T[k], d(j) <= Radius, StraightTo(c, j, p, lib) PROVE found[k] # 0
    <3>1. CASE d(k) <= Radius
      BY <2>2, <3>1 DEF Answer
    <3>2. CASE ~(d(k) <= Radius)
      <4>1. j \in T[k] \ {k} /\ j \in 1 .. N
        BY <1>4, <2>4, <3>2
      <4>5. k \in 1 .. j - 1
        BY <1>1, <1>4, <4>1
      <4>2. d(k) \in Nat /\ d(j) \in Nat /\ Between(c, j, k, lib) \in Nat
            /\ d(k) <= Between(c, j, k, lib) + d(j) /\ Between(c, j, k, lib) <= d(k) + d(j)
        <5>1. Straight(Lead(c, k, lib), Lead(c, j, lib), lib[p])
          BY <2>4, <4>5, Zenon DEF StraightTo
        <5> QED BY <1>3, <4>1, <5>1, Zenon
      <4>3. CASE Between(c, j, k, lib) <= tree[k].threshold
        <5>1. tree[k].left # 0 /\ j \in T[tree[k].left]
          BY <1>4, <4>1, <4>3
        <5>2. left # 0
          BY <1>1, <1>5, <2>4, <5>1
        <5>3. d(k) - Radius <= tree[k].threshold
          <6>1. \A x, y, z, r, t \in Nat : x <= z + y /\ y <= r /\ z <= t => x - r <= t
            OBVIOUS
          <6>2. d(j) <= Radius /\ Radius \in Nat /\ tree[k].threshold \in Nat
            BY <1>1, <2>4
          <6> QED BY <4>2, <4>3, <6>1, <6>2, Zenon
        <5> QED BY <2>2, <3>2, <5>2, <5>3 DEF Answer
      <4>4. CASE ~(Between(c, j, k, lib) <= tree[k].threshold)
        <5>1. tree[k].right # 0 /\ j \in T[tree[k].right]
          BY <1>4, <4>1, <4>4
        <5>2. right # 0
          BY <1>1, <1>5, <2>4, <5>1
        <5>3. d(k) + Radius >= tree[k].threshold
          <6>1. \A x, y, z, r, t \in Nat : z <= x + y /\ y <= r /\ ~(z <= t) => x + r >= t
            OBVIOUS
          <6>2. d(j) <= Radius /\ Radius \in Nat /\ tree[k].threshold \in Nat
            BY <1>1, <2>4
          <6> QED BY <4>2, <4>4, <6>1, <6>2, Zenon
        <5> QED BY <1>1, <2>2, <3>2, <5>2, <5>3 DEF Answer
      <4> QED BY <4>3, <4>4
    <3> QED BY <3>1, <3>2
  <2> QED BY <2>3, <2>4
<1>6. Wrong = {}
  <2> SUFFICES ASSUME Wrong # {} PROVE FALSE
    OBVIOUS
  <2> HIDE DEF Good
  <2>1. Wrong \in SUBSET Nat
    BY <1>1
  <2>2. PICK i \in Wrong : \A m \in Wrong : i <= m
    BY <2>1, LeastNumber, Zenon
  <2>3. i \in 0 .. N - 1 /\ ~Good(N - i) /\ N - i \in 1 .. N
    BY <1>1
  <2>4. \A m \in N - i + 1 .. N : Good(m)
    <3> TAKE m \in N - i + 1 .. N
    <3> DEFINE Counts(n) == \A a \in 0 .. n - 1 : \A b \in n - a + 1 .. n :
                 n - b \in 0 .. n - 1 /\ ~(a <= n - b) /\ n - (n - b) = b
    <3>0. \A n \in Nat : Counts(n)
      OBVIOUS
    <3>1. N - m \in 0 .. N - 1 /\ ~(i <= N - m) /\ N - (N - m) = m
      <4>1. Counts(N)
        <5> HIDE DEF Counts
        <5> QED BY <1>1, <3>0, Zenon
      <4> QED BY <2>3, <4>1, Zenon
    <3>2. N - m \notin Wrong
      BY <2>2, <3>1
    <3>3. Good(N - (N - m))
      BY <3>1, <3>2
    <3> QED BY <3>1, <3>3
  <2> QED BY <1>5, <2>3, <2>4
<1>7. \A k \in 1 .. N : Good(k)
  <2> HIDE DEF Good
  <2> TAKE k \in 1 .. N
  <2>1. N - k \in 0 .. N - 1 /\ N - (N - k) = k
    BY <1>1
  <2>2. Good(N - (N - k))
    BY <1>6, <2>1
  <2> QED BY <2>1, <2>2
<1> QED BY <1>7 DEF d, found

\* A search that finds nothing has been everywhere on the way of the photo:  the leaders
\* that it passed are apart from it.
LEMMA SearchGoesTheWay ==
  ASSUME NEW c, NEW T, NEW lib, TreeOf(c, T, lib), Led(c, lib), NEW p, lib[p].features \in Features,
         FindSimilar(c, p, lib)[1] = 0
  PROVE  \A k \in 1 .. Len(c.tree) : OnTheWay(c, p, lib)[k] => FromLeader(c, k, p, lib) > Radius
<1> DEFINE tree == c.tree
           N == Len(tree)
           found == FindSimilar(c, p, lib)
           way == OnTheWay(c, p, lib)
           d(k) == FromLeader(c, k, p, lib)
           Missed == {k \in 1 .. N : way[k] /\ found[k] # 0}
<1>1. /\ N \in Nat /\ tree \in Seq([threshold : Nat, left : Nat, right : Nat]) /\ Radius \in Nat
      /\ ChildrenFollow(tree) /\ \A k \in 1 .. N : tree[k].threshold \in Nat
  <2>1. tree \in Seq([threshold : Nat, left : Nat, right : Nat]) /\ ChildrenFollow(tree)
    BY DEF TreeOf
  <2>2. \A k \in 1 .. N : tree[k] \in [threshold : Nat, left : Nat, right : Nat]
    BY <2>1, ElementOfSeq
  <2> QED BY <2>1, <2>2, LenProperties, RadiusAssumption
<1>2. \A k \in 1 .. N :
        found[k] = Answer(tree[k], k, d(k), found[tree[k].left], found[tree[k].right])
  <2>1. found = [k \in 0 .. N |-> IF k = 0 THEN 0
              ELSE Answer(tree[k], k, d(k), found[tree[k].left], found[tree[k].right])]
    BY <1>1, SearchGoesDown
  <2> HIDE DEF found, d
  <2>2. \A k \in 0 .. N : found[k] = IF k = 0 THEN 0
              ELSE Answer(tree[k], k, d(k), found[tree[k].left], found[tree[k].right])
    BY <2>1
  <2>3. \A k \in 1 .. N : k \in 0 .. N /\ k # 0
    BY <1>1
  <2> QED BY <2>2, <2>3
<1>3. \A k \in 1 .. N : d(k) \in Nat
  <2> TAKE k \in 1 .. N
  <2>1. lib[c.groups[k][1]].features \in Features
    BY DEF Led
  <2> QED BY <2>1, DistancesOfFeatures DEF FromLeader
<1>4. \A k \in 1 .. N :
        way[k] <=> (k = 1 \/ \E j \in 1 .. k - 1 : way[j] /\ ChildOnSide(c, j, p, lib) = k)
  <2>1. \A k \in 1 .. Len(c.tree) : OnTheWay(c, p, lib)[k] <=>
          (k = 1 \/ \E j \in 1 .. k - 1 : OnTheWay(c, p, lib)[j] /\ ChildOnSide(c, j, p, lib) = k)
    BY <1>1, WayGoesDown, SMTT(30)
  <2> QED BY <2>1, Zenon
<1>5. \A j \in 1 .. N : ChildOnSide(c, j, p, lib) =
        IF d(j) <= tree[j].threshold THEN tree[j].left ELSE tree[j].right
  BY Zenon DEF ChildOnSide
<1>6. found[1] = 0
  OBVIOUS
<1> HIDE DEF found, way, d
\* Where nothing is found, nothing is near and nothing is found on the photo's side.
<1>7. ASSUME NEW j \in 1 .. N, found[j] = 0
      PROVE  d(j) > Radius /\ \A k \in 1 .. N : ChildOnSide(c, j, p, lib) = k => found[k] = 0
  <2> DEFINE left == found[tree[j].left]
             right == found[tree[j].right]
  <2>1. Answer(tree[j], j, d(j), left, right) = 0 /\ j # 0
    BY <1>2, <1>7
  <2>2. d(j) \in Nat /\ tree[j].threshold \in Nat /\ Radius \in Nat
    BY <1>1, <1>3
  <2> HIDE DEF left, right
  <2>3. ~(d(j) <= Radius)
    BY <2>1 DEF Answer
  <2>4. \A e, r \in Nat : ~(e <= r) => e > r
    OBVIOUS
  <2>7. \A e, t, r \in Nat : e <= t => e - r <= t
    OBVIOUS
  <2>8. \A e, t, r \in Nat : ~(e <= t) => e + r >= t
    OBVIOUS
  <2>5. CASE d(j) <= tree[j].threshold
    <3>1. left = 0
      <4>1. d(j) - Radius <= tree[j].threshold
        BY <2>2, <2>5, <2>7, Zenon
      <4> QED BY <2>1, <2>3, <4>1 DEF Answer
    <3> QED BY <1>5, <2>2, <2>3, <2>4, <2>5, <3>1, Zenon DEF left
  <2>6. CASE ~(d(j) <= tree[j].threshold)
    <3>1. right = 0
      <4>1. d(j) + Radius >= tree[j].threshold
        BY <2>2, <2>6, <2>8, Zenon
      <4>2. ~(d(j) - Radius <= tree[j].threshold /\ left # 0)
        BY <2>1, <2>3 DEF Answer, left
      <4> QED BY <2>1, <2>3, <4>1, <4>2 DEF Answer
    <3> QED BY <1>5, <2>2, <2>3, <2>4, <2>6, <3>1, Zenon DEF right
  <2> QED BY <2>5, <2>6
<1>8. Missed = {}
  <2> SUFFICES ASSUME Missed # {} PROVE FALSE
    OBVIOUS
  <2>1. Missed \in SUBSET Nat
    BY <1>1
  <2>2. PICK k \in Missed : \A m \in Missed : k <= m
    BY <2>1, LeastNumber, Zenon
  <2>3. k \in 1 .. N /\ way[k] /\ found[k] # 0 /\ k # 1
    BY <1>6
  <2>4. PICK j \in 1 .. k - 1 : way[j] /\ ChildOnSide(c, j, p, lib) = k
    BY <1>4, <2>3, Zenon
  <2>5. j \in 1 .. N /\ ~(k <= j)
    BY <1>1, <2>3
  <2>6. found[j] = 0
    BY <2>2, <2>4, <2>5
  <2> QED BY <1>7, <2>3, <2>4, <2>5, <2>6, Zenon
<1>9. \A k \in 1 .. N : way[k] => d(k) > Radius
  <2>1. \A k \in 1 .. N : way[k] => found[k] = 0
    BY <1>8
  <2> QED BY <1>7, <2>1
<1> QED BY <1>9 DEF way, d

\* The numbers up to one more.
LEMMA OneMore ==
  ASSUME NEW n \in Nat
  PROVE  /\ n + 1 \in 1 .. n + 1
         /\ \A k \in 1 .. n + 1 : k = n + 1 \/ (k \in 1 .. n /\ k # n + 1)
         /\ \A k \in 1 .. n : k \in 1 .. n + 1 /\ k # n + 1
OBVIOUS

\* What a node is after the way of a photo has passed it.
LEMMA PassedIs ==
  ASSUME NEW node \in [threshold : Nat, left : Nat, right : Nat], NEW d \in Nat, NEW new \in Nat
  PROVE  LET after == Passed(node, d, new)
             threshold == IF node.threshold = 0 THEN d ELSE node.threshold
         IN /\ after \in [threshold : Nat, left : Nat, right : Nat]
            /\ after.threshold = threshold
            /\ after.left = IF d <= threshold /\ node.left = 0 THEN new ELSE node.left
            /\ after.right = IF d > threshold /\ node.right = 0 THEN new ELSE node.right
BY DEF Passed

\* The tree stays one to search in when a photo is inserted that is apart from all the
\* leaders on its way.
LEMMA InsertKeepsTree ==
  ASSUME NEW c, NEW T, NEW lib, TreeOf(c, T, lib), Led(c, lib),
         NEW p \in Nat, lib[p].features \in Features,
         \A k \in 1 .. Len(c.tree) : OnTheWay(c, p, lib)[k] => FromLeader(c, k, p, lib) > Radius
  PROVE  LET after == [tree |-> Insert(c, p, lib), groups |-> Append(c.groups, <<p>>)]
         IN Led(after, lib) /\ \E U : TreeOf(after, U, lib)
<1> DEFINE tree == c.tree
           N == Len(tree)
           new == N + 1
           way == OnTheWay(c, p, lib)
           d(k) == FromLeader(c, k, p, lib)
           grown == Insert(c, p, lib)
           after == [tree |-> Insert(c, p, lib), groups |-> Append(c.groups, <<p>>)]
           Nodes == [threshold : Nat, left : Nat, right : Nat]
           Past(k) == IF k = new THEN {new} ELSE IF way[k] THEN T[k] \cup {new} ELSE T[k]
           U == [k \in 1 .. new |-> Past(k)]
           From(j, k) == Between(c, j, k, lib)
<1>1. /\ N \in Nat /\ tree \in Seq(Nodes) /\ Radius \in Nat /\ new \in Nat
      /\ \A k \in 1 .. N : tree[k] \in Nodes
  <2>1. tree \in Seq(Nodes)
    BY DEF TreeOf
  <2>2. \A k \in 1 .. N : tree[k] \in Nodes
    BY <2>1, ElementOfSeq
  <2> QED BY <2>1, <2>2, LenProperties, RadiusAssumption
<1>2. \A k \in 1 .. N : /\ tree[k].left = 0 \/ tree[k].left \in k + 1 .. N
                        /\ tree[k].right = 0 \/ tree[k].right \in k + 1 .. N
                        /\ T[k] \subseteq 1 .. N /\ \A j \in T[k] : k <= j
                        /\ tree[k].threshold = 0 => tree[k].left = 0 /\ tree[k].right = 0
  BY DEF TreeOf, ChildrenFollow
<1>19. \A k \in 1 .. N : /\ \A m \in k + 1 .. N : m \in 1 .. N /\ m \in k + 1 .. new /\ m # 0
                         /\ k \in 1 .. new /\ new \in k + 1 .. new /\ k # new
  <2>1. \A n \in Nat : \A a \in 1 .. n :
          /\ \A b \in a + 1 .. n : b \in 1 .. n /\ b \in a + 1 .. n + 1 /\ b # 0
          /\ a \in 1 .. n + 1 /\ n + 1 \in a + 1 .. n + 1 /\ a # n + 1
    OBVIOUS
  <2> QED BY <1>1, <2>1, Zenon
<1>20. \A k \in 1 .. N :
         /\ tree[k].left = 0 \/ (tree[k].left \in k + 1 .. N /\ tree[k].left \in 1 .. N)
         /\ tree[k].right = 0 \/ (tree[k].right \in k + 1 .. N /\ tree[k].right \in 1 .. N)
  BY <1>2, <1>19, Zenon
<1>3. \A k \in 1 .. N : \A j \in T[k] \ {k} :
        IF From(j, k) <= tree[k].threshold
        THEN tree[k].left # 0 /\ j \in T[tree[k].left]
        ELSE tree[k].right # 0 /\ j \in T[tree[k].right]
  BY DEF TreeOf
<1>4. N > 0 => T[1] = 1 .. N
  BY <1>1 DEF TreeOf
<1>5. \A k \in 1 .. N : d(k) \in Nat /\ (way[k] => d(k) # 0)
  <2> TAKE k \in 1 .. N
  <2>1. lib[c.groups[k][1]].features \in Features /\ (way[k] => d(k) > Radius)
    BY DEF Led
  <2>2. d(k) \in Nat
    BY <2>1, DistancesOfFeatures DEF FromLeader
  <2> HIDE DEF d, way
  <2> QED BY <1>1, <2>1, <2>2
<1>6. \A k \in 1 .. N : \A m \in k + 1 .. N :
        /\ way[k] /\ d(k) <= tree[k].threshold /\ tree[k].left = m => way[m]
        /\ way[k] /\ ~(d(k) <= tree[k].threshold) /\ tree[k].right = m => way[m]
  <2> DEFINE Child(j) == ChildOnSide(c, j, p, lib)
  <2>0. c.tree \in Seq([threshold : Nat, left : Nat, right : Nat])
    BY <1>1
  <2>1. \A k \in 1 .. N : way[k] <=> (k = 1 \/ \E j \in 1 .. k - 1 : way[j] /\ Child(j) = k)
    <3>1. \A k \in 1 .. Len(c.tree) : OnTheWay(c, p, lib)[k] <=>
            (k = 1 \/ \E j \in 1 .. k - 1 : OnTheWay(c, p, lib)[j] /\ ChildOnSide(c, j, p, lib) = k)
      BY <2>0, WayGoesDown, SMTT(30)
    <3> QED BY <3>1, Zenon
  <2> HIDE DEF way
  <2> TAKE k \in 1 .. N
  <2> TAKE m \in k + 1 .. N
  <2>2. m \in 1 .. N /\ k \in 1 .. m - 1
    <3>1. \A n \in Nat : \A a \in 1 .. n : \A b \in a + 1 .. n : b \in 1 .. n /\ a \in 1 .. b - 1
      OBVIOUS
    <3> QED BY <1>1, <3>1, Zenon
  <2>3. way[k] /\ Child(k) = m => way[m]
    <3> HIDE DEF Child
    <3> QED BY <2>1, <2>2
  <2>4. Child(k) = IF d(k) <= tree[k].threshold THEN tree[k].left ELSE tree[k].right
    BY Zenon DEF ChildOnSide
  <2> HIDE DEF Child, d
  <2> QED BY <2>3, <2>4
<1>7. N > 0 => way[1]
  <2>1. 1 \in 1 .. N => way[1]
    BY <1>1, WayGoesDown
  <2> HIDE DEF way
  <2> QED BY <1>1, <2>1
<1>8. /\ grown \in Seq(Nodes) /\ Len(grown) = new /\ grown[new] = Leaf
      /\ \A k \in 1 .. N : grown[k] = IF way[k] THEN Passed(tree[k], d(k), new) ELSE tree[k]
  <2> DEFINE Now(k) == IF way[k] THEN Passed(tree[k], d(k), new) ELSE tree[k]
             Place(k) == IF k = new THEN Leaf ELSE Now(k)
  <2>1. grown = [k \in 1 .. new |-> Place(k)]
    BY Zenon DEF Insert
  <2>2. \A k \in 1 .. N : Now(k) \in Nodes
    <3> HIDE DEF way, d
    <3> QED BY <1>1, <1>5, PassedIs
  <2>3. Leaf \in Nodes
    BY DEF Leaf
  <2>4. \A k \in 1 .. new : Place(k) \in Nodes
    <3>1. \A k \in 1 .. new : k = new \/ (k \in 1 .. N /\ k # new)
      BY <1>1, OneMore, Zenon
    <3> HIDE DEF Now, Nodes
    <3> QED BY <2>2, <2>3, <3>1, Zenon
  <2>5. Place(new) = Leaf /\ \A k \in 1 .. N : Place(k) = Now(k) /\ k \in 1 .. new
    <3> HIDE DEF Now
    <3> QED BY <1>1
  <2> HIDE DEF grown, Place, Nodes
  <2>6. grown \in [1 .. new -> Nodes]
    BY <2>1, <2>4, Zenon
  <2>7. grown \in Seq(Nodes) /\ Len(grown) = new
    BY <1>1, <2>6
  <2>8. \A k \in 1 .. new : grown[k] = Place(k)
    BY <2>1, Zenon
  <2> QED BY <1>1, <2>5, <2>7, <2>8 DEF Now
<1> DEFINE thr(k) == IF tree[k].threshold = 0 THEN d(k) ELSE tree[k].threshold
<1>9. \A k \in 1 .. N :
        /\ ~way[k] => grown[k] = tree[k]
        /\ way[k] => /\ grown[k].threshold = thr(k)
                     /\ grown[k].left = IF d(k) <= thr(k) /\ tree[k].left = 0 THEN new
                            ELSE tree[k].left
                     /\ grown[k].right = IF d(k) > thr(k) /\ tree[k].right = 0 THEN new
                            ELSE tree[k].right
  <2> HIDE DEF way, d, grown
  <2> TAKE k \in 1 .. N
  <2>1. tree[k] \in [threshold : Nat, left : Nat, right : Nat] /\ d(k) \in Nat /\ new \in Nat
    BY <1>1, <1>5
  <2>2. grown[k] = IF way[k] THEN Passed(tree[k], d(k), new) ELSE tree[k]
    BY <1>8
  <2> HIDE DEF tree, new
  <2> DEFINE node == tree[k]
             e == d(k)
  <2> HIDE DEF node, e
  <2>3. /\ Passed(node, e, new).threshold = IF node.threshold = 0 THEN e ELSE node.threshold
        /\ Passed(node, e, new).left =
             IF e <= (IF node.threshold = 0 THEN e ELSE node.threshold) /\ node.left = 0 THEN new
                 ELSE node.left
        /\ Passed(node, e, new).right =
             IF e > (IF node.threshold = 0 THEN e ELSE node.threshold) /\ node.right = 0 THEN new
                 ELSE node.right
    BY Zenon DEF Passed
  <2> QED BY <2>2, <2>3, Zenon DEF node, e
<1>10. /\ after.tree = grown /\ after.groups \in Seq(Seq(Nat)) /\ Len(after.groups) = new
       /\ after.groups[new] = <<p>> /\ \A k \in 1 .. N : after.groups[k] = c.groups[k]
  <2>1. c.groups \in Seq(Seq(Nat)) /\ Len(c.groups) = N /\ <<p>> \in Seq(Nat)
    BY DEF Led
  <2> HIDE DEF grown, N
  <2>2. after.groups = Append(c.groups, <<p>>) /\ after.tree = grown
    BY DEF grown
  <2> HIDE DEF after
  <2> QED BY <2>1, <2>2, AppendProperties
<1> HIDE DEF after, grown, way
<1>11. Led(after, lib)
  <2>1. \A k \in 1 .. new : lib[after.groups[k][1]].features \in Features
    <3> TAKE k \in 1 .. new
    <3>1. CASE k = new
      BY <1>10, <3>1
    <3>2. CASE k # new
      <4>1. k \in 1 .. N
        BY <1>1, <3>2
      <4> QED BY <1>10, <4>1 DEF Led
    <3> QED BY <3>1, <3>2
  <2> QED BY <1>8, <1>10, <2>1 DEF Led
<1>12. /\ \A j, k \in 1 .. N : Between(after, j, k, lib) = From(j, k)
       /\ \A k \in 1 .. N : Between(after, new, k, lib) = d(k)
  <2>1. <<p>>[1] = p
    OBVIOUS
  <2> QED BY <1>10, <2>1, Zenon DEF Between, FromLeader
<1> HIDE DEF d, From
<1>13. ChildrenFollow(grown)
  <2> SUFFICES ASSUME NEW k \in 1 .. new
               PROVE  /\ grown[k].left = 0 \/ grown[k].left \in k + 1 .. new
                      /\ grown[k].right = 0 \/ grown[k].right \in k + 1 .. new
    BY <1>8 DEF ChildrenFollow
  <2>1. CASE k = new
    BY <1>8, <2>1 DEF Leaf
  <2>2. CASE k # new
    <3>0. k \in 1 .. N
      BY <1>1, <2>2
    <3>1. k \in 1 .. N /\ new \in k + 1 .. new /\ \A m : m \in k + 1 .. N => m \in k + 1 .. new
      BY <1>19, <3>0, Zenon
    <3>2. CASE way[k]
      BY <1>2, <1>9, <3>1, <3>2
    <3>3. CASE ~way[k]
      BY <1>2, <1>9, <3>1, <3>3
    <3> QED BY <3>2, <3>3
  <2> QED BY <2>1, <2>2
<1>14. /\ U \in [1 .. new -> SUBSET (1 .. new)]
       /\ U[new] = {new} /\ \A k \in 1 .. N : U[k] = IF way[k] THEN T[k] \cup {new} ELSE T[k]
       /\ U[1] = 1 .. new
  <2>1. \A k \in 1 .. new : k = new \/ (k \in 1 .. N /\ k # new)
    BY <1>1, OneMore, Zenon
  <2>2. new \in 1 .. new /\ 1 \in 1 .. new /\ 1 .. N \subseteq 1 .. new
    BY <1>1
  <2>3. \A k \in 1 .. new : Past(k) \in SUBSET (1 .. new)
    BY <1>2, <2>1, <2>2, Zenon
  <2>4. U[new] = {new} /\ \A k \in 1 .. N : U[k] = IF way[k] THEN T[k] \cup {new} ELSE T[k]
    <3>1. \A k \in 1 .. N : k \in 1 .. new /\ k # new
      <4> SUFFICES ASSUME NEW k \in 1 .. N PROVE k \in 1 .. new /\ k # new
        OBVIOUS
      <4>1. N \in Nat /\ new = N + 1
        BY <1>1
      <4> HIDE DEF N, new
      <4> QED BY <4>1
    <3> QED BY <2>2, <3>1, Zenon
  <2>5. U[1] = 1 .. new
    <3>1. CASE N = 0
      BY <2>4, <3>1
    <3>2. CASE N # 0
      <4>1. N > 0 /\ 1 \in 1 .. N /\ 1 .. new = (1 .. N) \cup {new}
        BY <1>1, <3>2
      <4> QED BY <1>4, <1>7, <2>4, <4>1
    <3> QED BY <3>1, <3>2
  <2>6. U \in [1 .. new -> SUBSET (1 .. new)]
    <3> HIDE DEF Past
    <3> QED BY <2>3
  <2> QED BY <2>4, <2>5, <2>6
<1> HIDE DEF U
<1>15. ASSUME NEW k \in 1 .. N PROVE grown[k].threshold = 0
           => grown[k].left = 0 /\ grown[k].right = 0
  BY <1>2, <1>5, <1>9
<1>16. ASSUME NEW k \in 1 .. N, NEW j \in U[k] \ {k}
       PROVE  IF Between(after, j, k, lib) <= grown[k].threshold
              THEN grown[k].left # 0 /\ j \in U[grown[k].left]
              ELSE grown[k].right # 0 /\ j \in U[grown[k].right]
  <2>1. \A m \in 1 .. N : T[m] \subseteq U[m] /\ (way[m] => new \in U[m])
    BY <1>14
  <2>2. CASE j \in T[k]
    <3>1. j \in 1 .. N /\ j \in T[k] \ {k} /\ Between(after, j, k, lib) = From(j, k)
      BY <1>2, <1>12, <2>2
    <3>2. tree[k].threshold # 0
      BY <1>2, <1>3, <3>1
    <3>3. /\ grown[k].threshold = tree[k].threshold
          /\ tree[k].left # 0 => grown[k].left = tree[k].left
          /\ tree[k].right # 0 => grown[k].right = tree[k].right
      BY <1>9, <3>2
    <3>4. CASE From(j, k) <= tree[k].threshold
      <4>1. tree[k].left # 0 /\ j \in T[tree[k].left]
        BY <1>3, <3>1, <3>4
      <4>2. tree[k].left \in 1 .. N
        BY <1>20, <4>1, Zenon
      <4> QED BY <2>1, <3>1, <3>3, <3>4, <4>1, <4>2
    <3>5. CASE ~(From(j, k) <= tree[k].threshold)
      <4>1. tree[k].right # 0 /\ j \in T[tree[k].right]
        BY <1>3, <3>1, <3>5
      <4>2. tree[k].right \in 1 .. N
        BY <1>20, <4>1, Zenon
      <4> QED BY <2>1, <3>1, <3>3, <3>5, <4>1, <4>2
    <3> QED BY <3>4, <3>5
  <2>3. CASE j \notin T[k]
    <3>1. way[k] /\ j = new /\ Between(after, j, k, lib) = d(k)
      BY <1>12, <1>14, <2>3
    <3>2. /\ grown[k].threshold = thr(k)
          /\ grown[k].left = IF d(k) <= thr(k) /\ tree[k].left = 0 THEN new ELSE tree[k].left
          /\ grown[k].right = IF d(k) > thr(k) /\ tree[k].right = 0 THEN new ELSE tree[k].right
      BY <1>9, <3>1
    <3>3. CASE d(k) <= thr(k)
      <4>1. CASE tree[k].left = 0
        <5> HIDE DEF thr
        <5>0. new # 0
          BY <1>1
        <5>1. grown[k].left = new /\ new # 0 /\ Between(after, j, k, lib) <= grown[k].threshold
          BY <3>1, <3>2, <3>3, <4>1, <5>0, Zenon
        <5> QED BY <1>14, <3>1, <5>1, Zenon
      <4>2. CASE tree[k].left # 0
        <5>1. tree[k].left \in k + 1 .. N /\ tree[k].left \in 1 .. N
          BY <1>20, <4>2, Zenon
        <5>3. thr(k) = tree[k].threshold
          BY <1>2, <4>2, Zenon
        <5>2. way[tree[k].left]
          BY <1>6, <3>1, <3>3, <5>1, <5>3
        <5> QED BY <2>1, <3>1, <3>2, <3>3, <4>2, <5>1, <5>2
      <4> QED BY <4>1, <4>2
    <3>4. CASE ~(d(k) <= thr(k))
      <4>0. d(k) > thr(k)
        <5>1. thr(k) \in Nat /\ d(k) \in Nat
          BY <1>1, <1>5
        <5> HIDE DEF thr
        <5> QED BY <3>4, <5>1
      <4>1. CASE tree[k].right = 0
        <5> HIDE DEF thr
        <5>0. new # 0
          BY <1>1
        <5>1. grown[k].right = new /\ new # 0 /\ ~(Between(after, j, k, lib) <= grown[k].threshold)
          BY <3>1, <3>2, <3>4, <4>0, <4>1, <5>0, Zenon
        <5> QED BY <1>14, <3>1, <5>1, Zenon
      <4>2. CASE tree[k].right # 0
        <5>1. tree[k].right \in k + 1 .. N /\ tree[k].right \in 1 .. N
          BY <1>20, <4>2, Zenon
        <5>3. thr(k) = tree[k].threshold
          BY <1>2, <4>2, Zenon
        <5>2. way[tree[k].right]
          BY <1>6, <3>1, <3>4, <5>1, <5>3
        <5> QED BY <2>1, <3>1, <3>2, <3>4, <4>2, <5>1, <5>2
      <4> QED BY <4>1, <4>2
    <3> QED BY <3>3, <3>4
  <2> QED BY <2>2, <2>3
<1>17. \A j \in U[new] \ {new} : FALSE
  BY <1>14
<1>21. \A k \in 1 .. new : \A j \in U[k] : k <= j
  <2> TAKE k \in 1 .. new
  <2>1. CASE k = new
    BY <1>1, <1>14, <2>1
  <2>2. CASE k # new
    <3>1. k \in 1 .. N /\ k <= new
      BY <1>1, <2>2
    <3> QED BY <1>2, <1>14, <3>1, Zenon
  <2> QED BY <2>1, <2>2
<1>18. TreeOf(after, U, lib)
  <2> SUFFICES ASSUME NEW k \in 1 .. new
      PROVE  /\ grown[k].threshold = 0 => grown[k].left = 0 /\ grown[k].right = 0
             /\ \A j \in U[k] \ {k} :
                  IF Between(after, j, k, lib) <= grown[k].threshold
                  THEN grown[k].left # 0 /\ j \in U[grown[k].left]
                  ELSE grown[k].right # 0 /\ j \in U[grown[k].right]
    BY <1>8, <1>10, <1>13, <1>14, <1>21, Zenon DEF TreeOf
  <2>1. CASE k = new
    <3>1. grown[k].left = 0 /\ grown[k].right = 0
      BY <1>8, <2>1 DEF Leaf
    <3> QED BY <1>17, <2>1, <3>1, Zenon
  <2>2. CASE k # new
    <3>1. k \in 1 .. N
      BY <1>1, <2>2
    <3> QED BY <1>15, <1>16, <3>1, Zenon
  <2> QED BY <2>1, <2>2
<1> QED BY <1>11, <1>18 DEF after

Member(c, p, k) == \E i \in 1 .. Len(c.groups[k]) : c.groups[k][i] = p

\* Leader j is apart from leader k, unless a leader before it has hidden it.
ApartOrHidden(c, j, k, lib) ==
  Between(c, k, j, lib) <= Radius =>
    \E m \in 1 .. j - 1 : ~Straight(Lead(c, m, lib), Lead(c, j, lib), Lead(c, k, lib))

\* The clusters after the first n photos:  a photo that is taken is in one of them, near
\* its leader, and leaders that are not hidden are apart.
Partition(c, n, paths, lib) ==
  /\ Led(c, lib) /\ \E T : TreeOf(c, T, lib)
  /\ \A k \in 1 .. Len(c.groups) :
       /\ Len(c.groups[k]) > 0
       /\ \A q : Member(c, q, k) =>
            q \in 1 .. n /\ lib[q].features \in Features /\ FromLeader(c, k, q, lib) <= Radius
  /\ \A k \in 1 .. Len(c.groups) : \A j \in 1 .. k - 1 : ApartOrHidden(c, j, k, lib)
  /\ \A q \in 1 .. n : Taken(q, paths, lib) =>
       \E k \in 1 .. Len(c.groups) :
         Member(c, q, k) /\ \A j \in 1 .. Len(c.groups) : Member(c, q, j) => j = k

\* A photo that is apart from the leaders on its way and those that are not hidden leads a
\* cluster.
LEMMA PhotoLeads ==
  ASSUME NEW c, NEW n \in Nat, NEW paths, NEW lib, Partition(c, n, paths, lib),
         lib[n + 1].features \in Features,
         \A k \in 1 .. Len(c.tree) :
           /\ OnTheWay(c, n + 1, lib)[k] => FromLeader(c, k, n + 1, lib) > Radius
           /\ FromLeader(c, k, n + 1, lib) <= Radius => ~StraightTo(c, k, n + 1, lib)
  PROVE  Partition([tree |-> Insert(c, n + 1, lib), groups |-> Append(c.groups, <<n + 1>>)],
                   n + 1, paths, lib)
<1> DEFINE p == n + 1
           after == [tree |-> Insert(c, p, lib), groups |-> Append(c.groups, <<p>>)]
           N == Len(c.groups)
           new == N + 1
           G == after.groups
<1>1. /\ Led(c, lib) /\ N = Len(c.tree) /\ N \in Nat /\ new \in Nat /\ c.groups \in Seq(Seq(Nat))
      /\ \A k \in 1 .. N : c.groups[k] \in Seq(Nat) /\ lib[c.groups[k][1]].features \in Features
  BY LenProperties, ElementOfSeq DEF Partition, Led
<1>2. Led(after, lib) /\ \E U : TreeOf(after, U, lib)
  <2>1. PICK T : TreeOf(c, T, lib)
    BY DEF Partition
  <2>2. p \in Nat /\ lib[p].features \in Features
    OBVIOUS
  <2>3. \A k \in 1 .. Len(c.tree) : OnTheWay(c, p, lib)[k] => FromLeader(c, k, p, lib) > Radius
    OBVIOUS
  <2> HIDE DEF p
  <2> QED BY <1>1, <2>1, <2>2, <2>3, InsertKeepsTree
<1>3. Len(G) = new /\ G[new] = <<p>> /\ \A k \in 1 .. N : G[k] = c.groups[k]
  <2>1. G = Append(c.groups, <<p>>) /\ <<p>> \in Seq(Nat)
    OBVIOUS
  <2> HIDE DEF after, p
  <2> QED BY <1>1, <2>1, AppendProperties
<1> HIDE DEF after, G, p
<1>4. \A k \in 1 .. new : k = new \/ (k \in 1 .. N /\ k # new)
  BY <1>1, OneMore, Zenon
<1>5. new \in 1 .. new /\ \A k \in 1 .. N : k \in 1 .. new /\ k # new
  BY <1>1, OneMore, Zenon
<1>6. <<p>>[1] = p /\ Len(<<p>>) = 1 /\ 1 .. 1 = {1}
  OBVIOUS
<1>7. /\ \A q : \A k \in 1 .. N : Member(after, q, k) <=> Member(c, q, k)
      /\ \A q : Member(after, q, new) <=> q = p
  <2>1. \A q : \A k \in 1 .. N : Member(after, q, k) <=> Member(c, q, k)
    BY <1>3, Zenon DEF Member, G
  <2>2. \A q : Member(after, q, new) <=> q = p
    BY <1>3, <1>6, Zenon DEF Member, G
  <2> QED BY <2>1, <2>2
<1>8. /\ \A q : \A k \in 1 .. N : FromLeader(after, k, q, lib) = FromLeader(c, k, q, lib)
      /\ \A q : FromLeader(after, new, q, lib) = Distance(lib[p], lib[q])
  BY <1>3, <1>6, Zenon DEF FromLeader, G
<1>9. /\ \A j, k \in 1 .. N : Between(after, j, k, lib) = Between(c, j, k, lib)
      /\ \A k \in 1 .. N : Between(after, new, k, lib) = FromLeader(c, k, p, lib)
      /\ \A k \in 1 .. N : Lead(after, k, lib) = Lead(c, k, lib)
      /\ Lead(after, new, lib) = lib[p]
  <2>1. \A j, k \in 1 .. N : Between(after, j, k, lib) = Between(c, j, k, lib)
    BY <1>3, <1>8, Zenon DEF Between, G
  <2>2. \A k \in 1 .. N : Between(after, new, k, lib) = FromLeader(c, k, p, lib)
    BY <1>3, <1>6, <1>8, Zenon DEF Between, G
  <2> QED BY <1>3, <1>6, <2>1, <2>2, Zenon DEF Lead, G
<1>10. /\ \A k \in 1 .. N : /\ Len(c.groups[k]) > 0
                            /\ \A q : Member(c, q, k) =>
                                 /\ q \in 1 .. n /\ lib[q].features \in Features
                                 /\ FromLeader(c, k, q, lib) <= Radius
       /\ \A k \in 1 .. N : \A j \in 1 .. k - 1 : ApartOrHidden(c, j, k, lib)
       /\ \A q \in 1 .. n : Taken(q, paths, lib) =>
            \E k \in 1 .. N : Member(c, q, k) /\ \A j \in 1 .. N : Member(c, q, j) => j = k
  BY Zenon DEF Partition
<1>11. /\ \A q \in 1 .. n : q \in 1 .. p /\ q # p
       /\ p \in 1 .. p /\ \A q \in 1 .. p : q = p \/ q \in 1 .. n
  BY DEF p
<1>12. \A k \in 1 .. new :
         /\ Len(G[k]) > 0
         /\ \A q : Member(after, q, k) =>
              q \in 1 .. p /\ lib[q].features \in Features /\ FromLeader(after, k, q, lib) <= Radius
  <2> TAKE k \in 1 .. new
  <2>1. CASE k = new
    <3>1. FromLeader(after, new, p, lib) <= Radius
      <4>1. Distance(lib[p], lib[p]) = 0
        BY DistancesOfFeatures DEF p
      <4> QED BY <1>8, <4>1, RadiusAssumption
    <3>2. Len(G[k]) > 0
      <4>1. 1 > 0
        OBVIOUS
      <4> QED BY <1>3, <1>6, <2>1, <4>1, Zenon
    <3>3. lib[p].features \in Features
      BY DEF p
    <3> QED BY <1>7, <1>11, <2>1, <3>1, <3>2, <3>3, Zenon
  <2>2. CASE k # new
    BY <1>3, <1>4, <1>7, <1>8, <1>10, <1>11, <2>2, Zenon
  <2> QED BY <2>1, <2>2
<1>13. \A k \in 1 .. new : \A j \in 1 .. k - 1 : ApartOrHidden(after, j, k, lib)
  <2> TAKE k \in 1 .. new
  <2> TAKE j \in 1 .. k - 1
  <2>1. j \in 1 .. N /\ \A m \in 1 .. j - 1 : m \in 1 .. N
    BY <1>1
  <2>2. CASE k = new
    <3>1. FromLeader(c, j, p, lib) <= Radius => ~StraightTo(c, j, p, lib)
      BY <1>1, <2>1 DEF p
    <3>2. Between(after, k, j, lib) = FromLeader(c, j, p, lib)
      BY <1>9, <2>1, <2>2, Zenon
    <3> QED BY <1>9, <2>1, <2>2, <3>1, <3>2, Zenon DEF ApartOrHidden, StraightTo
  <2>3. CASE k # new
    <3>1. k \in 1 .. N
      BY <1>4, <2>3, Zenon
    <3>2. ApartOrHidden(c, j, k, lib)
      BY <1>10, <3>1, Zenon
    <3> QED BY <1>9, <2>1, <3>1, <3>2, Zenon DEF ApartOrHidden
  <2> QED BY <2>2, <2>3
<1>14. \A q \in 1 .. p : Taken(q, paths, lib) =>
         \E k \in 1 .. new : Member(after, q, k) /\ \A j \in 1 .. new : Member(after, q, j) => j = k
  <2> TAKE q \in 1 .. p
  <2>1. CASE q = p
    <3>1. \A j \in 1 .. N : ~Member(after, q, j)
      BY <1>7, <1>10, <1>11, <2>1, Zenon
    <3> QED BY <1>4, <1>5, <1>7, <2>1, <3>1, Zenon
  <2>2. CASE q # p
    <3>1. q \in 1 .. n
      BY <1>11, <2>2
    <3> SUFFICES ASSUME Taken(q, paths, lib)
                 PROVE  \E k \in 1 .. new : Member(after, q, k) /\ \A j \in 1 .. new :
                     Member(after, q, j) => j = k
      OBVIOUS
    <3>2. PICK k \in 1 .. N : Member(c, q, k) /\ \A j \in 1 .. N : Member(c, q, j) => j = k
      BY <1>10, <3>1, Zenon
    <3>3. k \in 1 .. new /\ Member(after, q, k)
      BY <1>5, <1>7, <3>2, Zenon
    <3>4. \A j \in 1 .. new : Member(after, q, j) => j = k
      BY <1>4, <1>7, <2>2, <3>2, Zenon
    <3> QED BY <3>3, <3>4, Zenon
  <2> QED BY <2>1, <2>2
<1>15. Partition(after, p, paths, lib)
  <2>1. Len(after.groups) = new
    BY <1>3 DEF G
  <2> QED BY <1>2, <1>12, <1>13, <1>14, <2>1, Zenon DEF Partition, G
<1> QED BY <1>15 DEF after, p

\* A photo that is near a leader joins its cluster.
LEMMA PhotoFollows ==
  ASSUME NEW c, NEW n \in Nat, NEW paths, NEW lib, Partition(c, n, paths, lib),
         lib[n + 1].features \in Features,
         NEW match \in 1 .. Len(c.groups), FromLeader(c, match, n + 1, lib) <= Radius
  PROVE  Partition([tree |-> c.tree,
                    groups |-> [c.groups EXCEPT ![match] = Append(c.groups[match], n + 1)]],
                   n + 1, paths, lib)
<1> DEFINE p == n + 1
           joined == [c.groups EXCEPT ![match] = Append(c.groups[match], p)]
           after == [tree |-> c.tree, groups |-> joined]
           N == Len(c.groups)
           G == after.groups
<1>1. /\ Led(c, lib) /\ N = Len(c.tree) /\ N \in Nat /\ c.groups \in Seq(Seq(Nat)) /\ p \in Nat
      /\ \A k \in 1 .. N : /\ c.groups[k] \in Seq(Nat) /\ lib[c.groups[k][1]].features \in Features
                           /\ Len(c.groups[k]) \in Nat
  <2>1. Led(c, lib)
    BY Zenon DEF Partition
  <2>2. c.groups \in Seq(Seq(Nat)) /\ N = Len(c.tree) /\ N \in Nat /\ p \in Nat
    BY <2>1, LenProperties DEF Led
  <2>3. \A k \in 1 .. N : c.groups[k] \in Seq(Nat)
    BY <2>2, ElementOfSeq
  <2>4. \A k \in 1 .. N : lib[c.groups[k][1]].features \in Features
    BY <2>1, <2>2, Zenon DEF Led
  <2>5. \A k \in 1 .. N : Len(c.groups[k]) \in Nat
    BY <2>3, LenProperties
  <2> QED BY <2>1, <2>2, <2>3, <2>4, <2>5
<1>2. /\ \A k \in 1 .. N : /\ Len(c.groups[k]) > 0
                           /\ \A q : Member(c, q, k) =>
                                q \in 1 .. n /\ lib[q].features \in Features /\ FromLeader(c, k, q, lib) <= Radius
      /\ \A k \in 1 .. N : \A j \in 1 .. k - 1 : ApartOrHidden(c, j, k, lib)
      /\ \A q \in 1 .. n : Taken(q, paths, lib) =>
           \E k \in 1 .. N : Member(c, q, k) /\ \A j \in 1 .. N : Member(c, q, j) => j = k
  BY Zenon DEF Partition
<1>3. /\ G \in Seq(Seq(Nat)) /\ Len(G) = N /\ after.tree = c.tree
      /\ \A k \in 1 .. N : G[k] = IF k = match THEN Append(c.groups[match], p) ELSE c.groups[k]
  <2> DEFINE S == Seq(Nat)
  <2>1. Append(c.groups[match], p) \in S
    BY <1>1, AppendProperties
  <2>2. c.groups \in Seq(S)
    BY <1>1
  <2> HIDE DEF S, p
  <2>3. /\ joined \in Seq(S) /\ Len(joined) = N
        /\ \A k \in 1 .. N : joined[k] = IF k = match THEN Append(c.groups[match], p)
               ELSE c.groups[k]
    BY <2>1, <2>2, ChangeAt
  <2>4. G = joined /\ after.tree = c.tree
    OBVIOUS
  <2> QED BY <2>3, <2>4 DEF S
<1>4. \A k \in 1 .. N : /\ Len(G[k]) > 0 /\ G[k][1] = c.groups[k][1]
                        /\ \A q : (\E i \in 1 .. Len(G[k]) : G[k][i] = q) <=>
                             (\E i \in 1 .. Len(c.groups[k]) : c.groups[k][i] = q)
                             \/ (k = match /\ q = p)
  <2> HIDE DEF G, p
  <2> TAKE k \in 1 .. N
  <2>1. CASE k = match
    <3> DEFINE s == c.groups[match]
    <3>1. s \in Seq(Nat) /\ Len(s) \in Nat /\ Len(s) > 0 /\ G[k] = Append(s, p)
      BY <1>1, <1>2, <1>3, <2>1
    <3> HIDE DEF s
    <3>2. /\ Len(Append(s, p)) = Len(s) + 1 /\ Append(s, p)[Len(s) + 1] = p
          /\ \A i \in 1 .. Len(s) : Append(s, p)[i] = s[i]
      BY <1>1, <3>1, AppendProperties
    <3>3. 1 \in 1 .. Len(s) /\ Len(s) + 1 > 0
      BY <3>1
    <3>4. /\ \A i \in 1 .. Len(s) + 1 : i = Len(s) + 1 \/ i \in 1 .. Len(s)
          /\ Len(s) + 1 \in 1 .. Len(s) + 1 /\ \A i \in 1 .. Len(s) : i \in 1 .. Len(s) + 1
      BY <3>1
    <3>5. \A q : (\E i \in 1 .. Len(Append(s, p)) : Append(s, p)[i] = q) <=>
                 (\E i \in 1 .. Len(s) : s[i] = q) \/ q = p
      BY <3>2, <3>4, Zenon
    <3>6. c.groups[k] = s
      BY <2>1 DEF s
    <3>7. Len(G[k]) > 0
      BY <3>1, <3>2, <3>3, Zenon
    <3>8. G[k][1] = c.groups[k][1]
      <4>1. Append(s, p)[1] = s[1]
        BY <3>2, <3>3, Zenon
      <4>2. G[k] = Append(s, p)
        BY <3>1, Zenon
      <4> QED BY <3>6, <4>1, <4>2
    <3>9. \A q : (\E i \in 1 .. Len(G[k]) : G[k][i] = q)
              <=> (\E i \in 1 .. Len(s) : s[i] = q) \/ q = p
      BY <3>1, <3>5, Zenon
    <3> QED BY <2>1, <3>6, <3>7, <3>8, <3>9, Zenon
  <2>2. CASE k # match
    BY <1>2, <1>3, <2>2, Zenon
  <2> QED BY <2>1, <2>2
<1> HIDE DEF after, G, p
<1>5. \A q : \A k \in 1 .. N : Member(after, q, k) <=> Member(c, q, k) \/ (k = match /\ q = p)
  BY <1>4, Zenon DEF Member, G
<1>6. /\ \A q : \A k \in 1 .. N : FromLeader(after, k, q, lib) = FromLeader(c, k, q, lib)
      /\ \A j, k \in 1 .. N : Between(after, j, k, lib) = Between(c, j, k, lib)
      /\ \A k \in 1 .. N : Lead(after, k, lib) = Lead(c, k, lib)
  BY <1>4, Zenon DEF FromLeader, Between, Lead, G
<1>7. Led(after, lib)
  <2>1. \A k \in 1 .. N : lib[after.groups[k][1]].features \in Features
    BY <1>1, <1>4, Zenon DEF G
  <2> QED BY <1>1, <1>3, <2>1, Zenon DEF Led, G
<1>8. \E T : TreeOf(after, T, lib)
  <2>1. PICK T : TreeOf(c, T, lib)
    BY Zenon DEF Partition
  <2>2. T \in [1 .. N -> SUBSET (1 .. N)]
    BY <1>1, <2>1, Zenon DEF TreeOf
  <2>3. \A k \in 1 .. N : T[k] \subseteq 1 .. N
    BY <2>2
  <2>4. \A k \in 1 .. N : \A j \in T[k] \ {k} :
          IF Between(after, j, k, lib) <= c.tree[k].threshold
          THEN c.tree[k].left # 0 /\ j \in T[c.tree[k].left]
          ELSE c.tree[k].right # 0 /\ j \in T[c.tree[k].right]
    <3> TAKE k \in 1 .. N
    <3> TAKE j \in T[k] \ {k}
    <3>1. j \in 1 .. N
      BY <2>3
    <3>2. Between(after, j, k, lib) = Between(c, j, k, lib)
      BY <1>6, <3>1, Zenon
    <3> QED BY <1>1, <2>1, <3>2, Zenon DEF TreeOf
  <2>5. Len(after.tree) = Len(c.tree) /\ after.tree = c.tree /\ Len(c.tree) = N
    BY <1>1, <1>3, Zenon
  <2>6. TreeOf(after, T, lib)
    BY <2>1, <2>4, <2>5, Zenon DEF TreeOf
  <2> QED BY <2>6
<1>9. /\ \A q \in 1 .. n : q \in 1 .. p /\ q # p
      /\ p \in 1 .. p /\ \A q \in 1 .. p : q = p \/ q \in 1 .. n
  BY DEF p
<1>10. FromLeader(c, match, p, lib) <= Radius /\ lib[p].features \in Features
  BY DEF p
<1>11. \A k \in 1 .. N :
         /\ Len(G[k]) > 0
         /\ \A q : Member(after, q, k) =>
              q \in 1 .. p /\ lib[q].features \in Features /\ FromLeader(after, k, q, lib) <= Radius
  <2> TAKE k \in 1 .. N
  <2>1. ASSUME NEW q, Member(after, q, k)
        PROVE  q \in 1 .. p /\ lib[q].features \in Features /\ FromLeader(after, k, q, lib) <= Radius
    <3>1. FromLeader(after, k, q, lib) = FromLeader(c, k, q, lib)
      BY <1>6, Zenon
    <3>2. Member(c, q, k) \/ (k = match /\ q = p)
      BY <1>5, <2>1, Zenon
    <3>3. CASE Member(c, q, k)
      BY <1>2, <1>9, <3>1, <3>3, Zenon
    <3>4. CASE k = match /\ q = p
      BY <1>9, <1>10, <3>1, <3>4, Zenon
    <3> QED BY <3>2, <3>3, <3>4
  <2> QED BY <1>4, <2>1, Zenon
<1>12. \A k \in 1 .. N : \A j \in 1 .. k - 1 : ApartOrHidden(after, j, k, lib)
  <2> TAKE k \in 1 .. N
  <2> TAKE j \in 1 .. k - 1
  <2>1. j \in 1 .. N /\ \A m \in 1 .. j - 1 : m \in 1 .. N
    BY <1>1
  <2>2. ApartOrHidden(c, j, k, lib)
    BY <1>2, Zenon
  <2> QED BY <1>6, <2>1, <2>2, Zenon DEF ApartOrHidden
<1>13. \A q \in 1 .. p : Taken(q, paths, lib) =>
         \E k \in 1 .. N : Member(after, q, k) /\ \A j \in 1 .. N : Member(after, q, j) => j = k
  <2> TAKE q \in 1 .. p
  <2>1. CASE q = p
    <3>1. \A j \in 1 .. N : ~Member(c, q, j)
      BY <1>2, <1>9, <2>1, Zenon
    <3> QED BY <1>5, <2>1, <3>1, Zenon
  <2>2. CASE q # p
    <3>1. q \in 1 .. n
      BY <1>9, <2>2
    <3> QED BY <1>2, <1>5, <2>2, <3>1, Zenon
  <2> QED BY <2>1, <2>2
<1>14. Partition(after, p, paths, lib)
  <2>1. Len(after.groups) = N
    BY <1>3 DEF G
  <2> QED BY <1>7, <1>8, <1>11, <1>12, <1>13, <2>1, Zenon DEF Partition, G
<1> QED BY <1>14 DEF after, p

\* A photo of the loop joins a cluster or leads one.
LEMMA PhotoJoins ==
  ASSUME NEW c, NEW n \in Nat, NEW paths, NEW lib, Partition(c, n, paths, lib), lib[n + 1].features \in Features
  PROVE  Partition(JoinGroup(c, n + 1, lib), n + 1, paths, lib)
<1> DEFINE p == n + 1
           match == IF c.tree = <<>> THEN 0 ELSE FindSimilar(c, p, lib)[1]
           joined == [c.groups EXCEPT ![match] = Append(c.groups[match], p)]
           d(k) == FromLeader(c, k, p, lib)
           N == Len(c.tree)
<1>1. PICK T : TreeOf(c, T, lib)
  BY Zenon DEF Partition
<1>2. /\ Led(c, lib) /\ Len(c.groups) = N /\ N \in Nat /\ (N > 0 => T[1] = 1 .. N)
      /\ c.tree = <<>> <=> N = 0
  <2>1. Led(c, lib)
    BY Zenon DEF Partition
  <2>2. c.tree \in Seq([threshold : Nat, left : Nat, right : Nat])
        /\ (1 \in 1 .. N => T[1] = 1 .. N)
    BY <1>1, Zenon DEF TreeOf
  <2>3. N \in Nat /\ (c.tree = <<>> <=> N = 0)
    BY <2>2, LenProperties, EmptySeq
  <2>4. N > 0 => 1 \in 1 .. N
    BY <2>3
  <2> QED BY <2>1, <2>2, <2>3, <2>4 DEF Led
<1>3. /\ match = 0 => \A k \in 1 .. N : /\ OnTheWay(c, p, lib)[k] => d(k) > Radius
                                        /\ d(k) <= Radius => ~StraightTo(c, k, p, lib)
      /\ match # 0 => match \in 1 .. N /\ d(match) <= Radius
  <2>1. CASE N = 0
    BY <1>2, <2>1
  <2>2. CASE N # 0
    <3> DEFINE found == FindSimilar(c, p, lib)
    <3>1. lib[p].features \in Features
      OBVIOUS
    <3> HIDE DEF p
    <3>2. \A k \in 1 .. N : /\ found[k] \in 0 .. N
                            /\ found[k] # 0 => d(found[k]) <= Radius
                            /\ (\E j \in T[k] : d(j) <= Radius /\ StraightTo(c, j, p, lib))
                                 => found[k] # 0
      BY <1>1, <1>2, <3>1, SearchFinds
    <3>3. match = found[1] /\ 1 \in 1 .. N /\ T[1] = 1 .. N
      BY <1>2, <2>2
    <3>4. found[1] = 0 => \A k \in 1 .. N : OnTheWay(c, p, lib)[k] => d(k) > Radius
      BY <1>1, <1>2, <3>1, SearchGoesTheWay
    <3> HIDE DEF found, match, d
    <3>5. /\ match \in 0 .. N /\ (match # 0 => d(match) <= Radius)
          /\ (\E j \in 1 .. N : d(j) <= Radius /\ StraightTo(c, j, p, lib)) => match # 0
      BY <3>2, <3>3, Zenon
    <3>6. \A m \in 0 .. N : m # 0 => m \in 1 .. N
      BY <1>2
    <3> QED BY <3>3, <3>4, <3>5, <3>6, Zenon
  <2> QED BY <2>1, <2>2
<1>4. JoinGroup(c, p, lib) = IF match = 0
          THEN [tree |-> Insert(c, p, lib), groups |-> Append(c.groups, <<p>>)]
                            ELSE [tree |-> c.tree, groups |-> joined]
  BY Zenon DEF JoinGroup
<1> HIDE DEF match
<1>5. CASE match = 0
  <2>1. \A k \in 1 .. N : /\ OnTheWay(c, n + 1, lib)[k] => FromLeader(c, k, n + 1, lib) > Radius
                          /\ FromLeader(c, k, n + 1, lib) <= Radius => ~StraightTo(c, k, n + 1, lib)
    BY <1>3, <1>5, Zenon
  <2>2. JoinGroup(c, p, lib) =
          [tree |-> Insert(c, n + 1, lib), groups |-> Append(c.groups, <<n + 1>>)]
    BY <1>4, <1>5, Zenon
  <2>3. Partition([tree |-> Insert(c, n + 1, lib), groups |-> Append(c.groups, <<n + 1>>)],
                  n + 1, paths, lib)
    BY <2>1, PhotoLeads
  <2> QED BY <2>2, <2>3, Zenon
<1>6. CASE match # 0
  <2>1. match \in 1 .. Len(c.groups) /\ FromLeader(c, match, n + 1, lib) <= Radius
    BY <1>2, <1>3, <1>6
  <2>2. JoinGroup(c, p, lib) = [tree |-> c.tree,
          groups |-> [c.groups EXCEPT ![match] = Append(c.groups[match], n + 1)]]
    BY <1>4, <1>6, Zenon
  <2>3. Partition([tree |-> c.tree,
                   groups |-> [c.groups EXCEPT ![match] = Append(c.groups[match], n + 1)]],
                  n + 1, paths, lib)
    BY <2>1, PhotoFollows
  <2> QED BY <2>2, <2>3, Zenon
<1> QED BY <1>5, <1>6

\* The clusters are such a partition all along the loop.
LEMMA ClustersPartition ==
  ASSUME NEW paths, NEW lib, Len(lib) \in Nat,
         \A q \in 1 .. Len(lib) : lib[q].kind = "photo" => lib[q].features \in Features
  PROVE  \A n \in 0 .. Len(lib) : Partition(Clusters(paths, lib)[n], n, paths, lib)
<1> DEFINE C == Clusters(paths, lib)
           Wrong == {k \in 0 .. Len(lib) : ~Partition(C[k], k, paths, lib)}
<1>1. C = [n \in 0 .. Len(lib) |-> IF n = 0 THEN NoClusters
             ELSE IF Taken(n, paths, lib) THEN JoinGroup(C[n - 1], n, lib) ELSE C[n - 1]]
  BY ClustersGrow
<1> HIDE DEF C
<1>2. Partition(C[0], 0, paths, lib)
  <2>1. C[0] = NoClusters /\ NoClusters.tree = <<>> /\ NoClusters.groups = <<>> /\ Len(<<>>) = 0
    BY <1>1 DEF NoClusters
  <2>2. /\ \A S : <<>> \in Seq(S)
        /\ 1 .. 0 = {} /\ 1 \notin 1 .. 0
    OBVIOUS
  <2>3. Led(NoClusters, lib)
    <3>1. <<>> \in Seq(Seq(Nat))
      BY <2>2, Zenon
    <3> QED BY <2>1, <2>2, <3>1, Zenon DEF Led
  <2> DEFINE T == [k \in 1 .. 0 |-> {}]
  <2>4. T \in [1 .. 0 -> SUBSET (1 .. 0)]
    BY Zenon
  <2> HIDE DEF T
  <2>5. ChildrenFollow(<<>>)
    BY <2>1, <2>2, Zenon DEF ChildrenFollow
  <2>6. TreeOf(NoClusters, T, lib)
    BY <2>1, <2>2, <2>4, <2>5, Zenon DEF TreeOf
  <2>7. Partition(NoClusters, 0, paths, lib)
    BY <2>1, <2>2, <2>3, <2>6, Zenon DEF Partition
  <2> QED BY <2>1, <2>7, Zenon
<1>3. ASSUME NEW k \in 1 .. Len(lib), Partition(C[k - 1], k - 1, paths, lib)
      PROVE  Partition(C[k], k, paths, lib)
  <2> DEFINE m == k - 1
  <2>1. m \in Nat /\ k = m + 1 /\ k \in 1 .. Len(lib)
    OBVIOUS
  <2>2. C[k] = IF Taken(k, paths, lib) THEN JoinGroup(C[m], k, lib) ELSE C[m]
    BY <1>1
  <2>3. Partition(C[m], m, paths, lib)
    BY <1>3
  <2> HIDE DEF m
  <2>4. CASE Taken(k, paths, lib)
    <3>1. lib[m + 1].features \in Features
      BY <2>1, <2>4 DEF Taken
    <3>2. Partition(JoinGroup(C[m], m + 1, lib), m + 1, paths, lib)
      BY <2>1, <2>3, <3>1, PhotoJoins
    <3> QED BY <2>1, <2>2, <2>4, <3>2
  <2>5. CASE ~Taken(k, paths, lib)
    <3>1. \A q \in 1 .. k : q = k \/ q \in 1 .. m
      BY <2>1
    <3>2. \A q \in 1 .. m : q \in 1 .. k
      BY <2>1
    <3>3. Partition(C[m], k, paths, lib)
      BY <2>3, <2>5, <3>1, <3>2, Zenon DEF Partition
    <3> QED BY <2>2, <2>5, <3>3
  <2> QED BY <2>4, <2>5
<1>4. Wrong = {}
  <2> SUFFICES ASSUME Wrong # {} PROVE FALSE
    OBVIOUS
  <2>1. Wrong \in SUBSET Nat
    OBVIOUS
  <2>2. PICK k \in Wrong : \A m \in Wrong : k <= m
    BY <2>1, LeastNumber, Zenon
  <2>3. k \in 0 .. Len(lib) /\ ~Partition(C[k], k, paths, lib) /\ k # 0
    BY <1>2
  <2>4. k \in 1 .. Len(lib) /\ k - 1 \in 0 .. Len(lib) /\ ~(k <= k - 1)
    BY <2>3
  <2>5. Partition(C[k - 1], k - 1, paths, lib)
    BY <2>2, <2>4
  <2> QED BY <1>3, <2>3, <2>4, <2>5
<1> QED BY <1>4 DEF C

\* The clusters that the similar pass finds in a library are those the property is about.
LEMMA LeadersOfALibrary ==
  ASSUME library \in Libraries
  PROVE  LeadersAreApart
<1> DEFINE n == Len(library)
           c == Clusters(Items, library)[n]
           G == FindSimilarImages(Items, library)
           Near(p, q) == Distance(library[p], library[q]) <= Radius
<1>1. n \in Nat /\ Items = 1 .. n /\ \A q \in 1 .. n : library[q].kind = "photo"
          => library[q].features \in Features
  BY LibrariesAssumption, Zenon DEF Items
<1>2. Partition(c, n, Items, library)
  <2>1. \A m \in 0 .. n : Partition(Clusters(Items, library)[m], m, Items, library)
    BY <1>1, ClustersPartition
  <2> QED BY <1>1, <2>1
<1>3. G = c.groups
  BY Zenon DEF FindSimilarImages
<1> HIDE DEF c, G, n
<1>4. /\ G \in Seq(Seq(Nat)) /\ Len(G) \in Nat /\ DOMAIN G = 1 .. Len(G)
      /\ \A k \in 1 .. Len(G) : /\ G[k] \in Seq(Nat) /\ Len(G[k]) \in Nat
                                /\ DOMAIN G[k] = 1 .. Len(G[k])
                                /\ G[k][1] \in Nat /\ library[G[k][1]].features \in Features
  <2>1. G \in Seq(Seq(Nat)) /\ Len(G) = Len(c.tree) /\ Led(c, library)
    BY <1>2, <1>3, Zenon DEF Partition, Led
  <2>2. Len(G) \in Nat /\ DOMAIN G = 1 .. Len(G)
    BY <2>1, LenProperties
  <2>3. \A k \in 1 .. Len(G) : G[k] \in Seq(Nat)
    BY <2>1, ElementOfSeq
  <2>4. \A k \in 1 .. Len(G) : Len(G[k]) \in Nat /\ DOMAIN G[k] = 1 .. Len(G[k])
    BY <2>3, LenProperties
  <2>5. \A k \in 1 .. Len(G) : Len(G[k]) > 0
    BY <1>2, <1>3, Zenon DEF Partition
  <2>6. \A k \in 1 .. Len(G) : G[k][1] \in Nat
    <3> TAKE k \in 1 .. Len(G)
    <3>1. 1 \in 1 .. Len(G[k])
      BY <2>4, <2>5
    <3> QED BY <2>3, <3>1, ElementOfSeq
  <2>7. \A k \in 1 .. Len(G) : library[G[k][1]].features \in Features
    BY <1>3, <2>1, Zenon DEF Led
  <2> QED BY <2>1, <2>2, <2>3, <2>4, <2>6, <2>7
<1>5. \A j \in DOMAIN G : \A i \in 1 .. j - 1 : Near(G[i][1], G[j][1]) =>
        \E k \in 1 .. i - 1 : ~Straight(library[G[k][1]], library[G[i][1]], library[G[j][1]])
  <2> TAKE j \in DOMAIN G
  <2> TAKE i \in 1 .. j - 1
  <2>1. ApartOrHidden(c, i, j, library)
    BY <1>2, <1>3, <1>4, Zenon DEF Partition
  <2> QED BY <1>3, <2>1, Zenon DEF ApartOrHidden, Between, FromLeader, Lead
<1>6. ASSUME NEW i \in DOMAIN G, NEW k \in DOMAIN G[i] PROVE Near(G[i][k], G[i][1])
  <2>1. Member(c, G[i][k], i)
    BY <1>3, <1>4, Zenon DEF Member
  <2>2. library[G[i][k]].features \in Features /\ Distance(library[G[i][1]], library[G[i][k]]) <= Radius
    BY <1>2, <1>3, <1>4, <2>1, Zenon DEF Partition, FromLeader
  <2>3. Distance(library[G[i][1]], library[G[i][k]]) = Distance(library[G[i][k]], library[G[i][1]])
    BY <1>4, <2>2, DistancesOfFeatures
  <2> QED BY <2>2, <2>3, Zenon
<1>7. ASSUME NEW p \in Items, library[p].kind = "photo" /\ library[p].readable
      PROVE  Cardinality({i \in DOMAIN G : p \in ToSet(G[i])}) = 1
  <2>1. Taken(p, Items, library) /\ p \in 1 .. n
    BY <1>1, <1>7 DEF Taken
  <2>2. PICK k \in 1 .. Len(G) : Member(c, p, k) /\ \A j \in 1 .. Len(G) : Member(c, p, j) => j = k
    BY <1>2, <1>3, <2>1, Zenon DEF Partition
  <2>3. \A i \in DOMAIN G : p \in ToSet(G[i]) <=> Member(c, p, i)
    BY <1>3, <1>4, Zenon DEF ToSet, Member
  <2>4. {i \in DOMAIN G : p \in ToSet(G[i])} = {k}
    BY <1>4, <2>2, <2>3
  <2> QED BY <2>4, FS_Singleton
<1> QED BY <1>3, <1>5, <1>6, <1>7, Zenon DEF LeadersAreApart, G
------------------------------------------------------------------------------
(***************************************************************************)
(* Analysis: the inductive invariant.  A run keeps its account while it    *)
(* goes on -- what it has told, what it has looked at and what waits to be *)
(* written -- and the last whole run of a kind keeps it until the next     *)
(* run of that kind begins.                                                *)
(***************************************************************************)

\* A run that has begun.
RunShape(r) ==
  /\ r = [kind |-> r.kind, request |-> r.request, paths |-> r.paths, done |-> r.done,
          scores |-> r.scores, base |-> r.base, vision |-> r.vision, seen |-> r.seen,
          pending |-> r.pending, events |-> r.events, stopped |-> r.stopped]
  /\ r.kind \in Kinds /\ r.request.kind = r.kind /\ r.paths = Covers(r.request)
  /\ r.seen \subseteq r.paths

\* What a run tells of an item, and of which items it does.
Report(r, p) ==
  IF r.kind = "quality" THEN Flag(p, r.request.thresholds)
  ELSE [item |-> p, reason |-> Verdict(r, p)]
Reports(r) == {Report(r, p) : p \in r.paths}
Tells(r, p) ==
  IF r.kind = "quality" THEN library[p].readable /\ Flag(p, r.request.thresholds).reasons # {}
  ELSE p \notin r.done /\ IsFlag(Verdict(r, p))

\* The stream of a run tells once of each of those it has seen.
Streamed(r) ==
  /\ r.events \in Seq(Reports(r))
  /\ \A i \in DOMAIN r.events : \E p \in r.seen : Tells(r, p) /\ r.events[i] = Report(r, p)
  /\ \A p \in r.seen : Tells(r, p) => \E i \in DOMAIN r.events : r.events[i] = Report(r, p)
  /\ \A i, j \in DOMAIN r.events : r.events[i].item = r.events[j].item => i = j

\* What a run that goes item by item has looked at is in the rows, or waits.
Settled(r, marks) ==
  /\ IsFiniteSet(r.pending) /\ Cardinality(r.pending) < Checkpoint
  /\ r.pending \subseteq r.seen \ r.done
  /\ \A p \in r.pending : marks[p] = NoRow /\ Verdict(r, p) # NoRow
  /\ \A p \in r.seen \ (r.done \cup r.pending) : marks[p] = Verdict(r, p)
  /\ \A p \in r.paths \ (r.done \cup r.seen) : marks[p] = NoRow

RunInv ==
  ~Resting => /\ RunShape(run)
              /\ run.kind # "similar" => Streamed(run)
              /\ run.kind = "junk" => Settled(run, junk)
              /\ run.kind = "video" => Settled(run, videos)
              /\ run.kind \in {"quality", "similar"} => run.pending = {}

\* The groups that reach among some photos.
Reaching(paths) == {g \in groups : \E m \in g.members : m.item \in paths}

LastInv(k) ==
  last[k] # NoRun =>
    /\ RunShape(last[k]) /\ last[k].kind = k
    /\ ~Resting => run.kind # k
    /\ k = "similar" => last[k].events = Reaching(last[k].paths)
    /\ k # "similar" => Streamed(last[k]) /\ last[k].seen = last[k].paths
    /\ k = "quality" => \A p \in last[k].paths : library[p].readable =>
                           quality[p] = <<QualityRow(p, last[k].request.thresholds)>>
    /\ k = "junk" => \A p \in last[k].paths \ last[k].done : junk[p] = Verdict(last[k], p)
    /\ k = "video" => \A p \in last[k].paths \ last[k].done : videos[p] = Verdict(last[k], p)

\* Only photos that can be read are measured, and a classifier has its own kind of item.
RowsInv ==
  \A p \in Items :
    /\ quality[p] # <<>> => /\ library[p].kind = "photo" /\ library[p].readable
                            /\ \E t : quality[p] = <<QualityRow(p, t)>>
    /\ junk[p] # NoRow => library[p].kind = "photo"
    /\ videos[p] # NoRow => library[p].kind = "video"

AnalysisInv ==
  /\ library \in Libraries /\ DOMAIN last = Kinds
  /\ times \in [Items -> Nat] /\ losses \in [Items -> Nat]
  /\ RowsInv /\ RunInv /\ WorkIsKept
  /\ \A k \in Kinds : LastInv(k)

------------------------------------------------------------------------------
(* What changes of a run.                                                     *)

Onward(r, seen, pending, events, stopped) ==
  [kind |-> r.kind, request |-> r.request, paths |-> r.paths, done |-> r.done,
   scores |-> r.scores, base |-> r.base, vision |-> r.vision, seen |-> seen,
   pending |-> pending, events |-> events, stopped |-> stopped]

\* The ways in which the steps change a run.
LEMMA ChangesOfARun ==
  ASSUME NEW r, RunShape(r)
  PROVE  /\ \A s, e : [r EXCEPT !.seen = s, !.events = e] = Onward(r, s, r.pending, e, r.stopped)
         /\ \A s, q, e : [r EXCEPT !.seen = s, !.pending = q,
                          !.events = e] = Onward(r, s, q, e, r.stopped)
         /\ \A s : [r EXCEPT !.seen = s] = Onward(r, s, r.pending, r.events, r.stopped)
         /\ [r EXCEPT !.stopped = TRUE] = Onward(r, r.seen, r.pending, r.events, TRUE)
         /\ \A e : [r EXCEPT !.events = e] = Onward(r, r.seen, r.pending, e, r.stopped)
<1> DEFINE shape == Onward(r, r.seen, r.pending, r.events, r.stopped)
<1>1. r = shape
  BY Zenon DEF RunShape, Onward
<1>2. \A s : [shape EXCEPT !.seen = s] = Onward(r, s, r.pending, r.events, r.stopped)
  BY DEF Onward
<1>3. \A s, q : [Onward(r, s, r.pending, r.events, r.stopped) EXCEPT !.pending = q]
                  = Onward(r, s, q, r.events, r.stopped)
  BY DEF Onward
<1>4. \A s, q, e : [Onward(r, s, q, r.events, r.stopped) EXCEPT !.events = e] =
          Onward(r, s, q, e, r.stopped)
  BY DEF Onward
<1>5. \A st : [shape EXCEPT !.stopped = st] = Onward(r, r.seen, r.pending, r.events, st)
  BY DEF Onward
<1> HIDE DEF shape
<1>6. \A s, e : [r EXCEPT !.seen = s, !.events = e] = [[r EXCEPT !.seen = s] EXCEPT !.events = e]
  BY Zenon
<1>7. \A s, q, e : [r EXCEPT !.seen = s, !.pending = q, !.events = e]
                     = [[[r EXCEPT !.seen = s] EXCEPT !.pending = q] EXCEPT !.events = e]
  BY Zenon
<1>8. \A s : [r EXCEPT !.seen = s] = Onward(r, s, r.pending, r.events, r.stopped)
  BY <1>1, <1>2, Zenon
<1>9. \A e : [r EXCEPT !.events = e] = Onward(r, r.seen, r.pending, e, r.stopped)
  BY <1>1, <1>4, Zenon DEF shape
<1>10. [r EXCEPT !.stopped = TRUE] = Onward(r, r.seen, r.pending, r.events, TRUE)
  BY <1>1, <1>5, Zenon
<1>11. \A s, e : [r EXCEPT !.seen = s, !.events = e] = Onward(r, s, r.pending, e, r.stopped)
  BY <1>4, <1>6, <1>8, Zenon
<1>12. \A s, q, e : [r EXCEPT !.seen = s, !.pending = q,
                     !.events = e] = Onward(r, s, q, e, r.stopped)
  <2> TAKE s, q, e
  <2>1. [[r EXCEPT !.seen = s] EXCEPT !.pending = q] = Onward(r, s, q, r.events, r.stopped)
    BY <1>3, <1>8, Zenon
  <2> QED BY <1>4, <1>7, <2>1, Zenon
<1> QED BY <1>8, <1>9, <1>10, <1>11, <1>12, Zenon

\* What is left of a run as it goes on.
LEMMA OnwardFields ==
  ASSUME NEW r, NEW s, NEW q, NEW e, NEW st
  PROVE  LET n == Onward(r, s, q, e, st)
         IN /\ n.kind = r.kind /\ n.request = r.request /\ n.paths = r.paths /\ n.done = r.done
            /\ n.scores = r.scores /\ n.base = r.base /\ n.vision = r.vision
            /\ n.seen = s /\ n.pending = q /\ n.events = e /\ n.stopped = st
BY DEF Onward

\* It keeps its shape, its verdicts and what it tells.
LEMMA OnwardTells ==
  ASSUME NEW r, RunShape(r), NEW s \in SUBSET r.paths, NEW q, NEW e, NEW st
  PROVE  LET n == Onward(r, s, q, e, st)
         IN /\ RunShape(n) /\ n # NoRun
            /\ \A p : Verdict(n, p) = Verdict(r, p) /\ Report(n, p) = Report(r, p)
            /\ \A p : Tells(n, p) <=> Tells(r, p)
            /\ Reports(n) = Reports(r)
<1> DEFINE n == Onward(r, s, q, e, st)
<1>1. /\ n.kind = r.kind /\ n.request = r.request /\ n.paths = r.paths /\ n.done = r.done
      /\ n.scores = r.scores /\ n.base = r.base /\ n.vision = r.vision
      /\ n.seen = s /\ n.pending = q /\ n.events = e /\ n.stopped = st
  BY DEF Onward
<1>2. n = Onward(n, n.seen, n.pending, n.events, n.stopped)
  BY <1>1, Zenon DEF Onward
<1> HIDE DEF n
<1>3. RunShape(n)
  BY <1>1, <1>2, Zenon DEF RunShape, Onward
<1>4. n # NoRun
  BY <1>1 DEF RunShape, Kinds, NoRun
<1>5. \A p : Verdict(n, p) = Verdict(r, p)
  BY <1>1 DEF Verdict
<1>6. \A p : Report(n, p) = Report(r, p)
  BY <1>1, <1>5 DEF Report
<1>7. \A p : Tells(n, p) <=> Tells(r, p)
  BY <1>1, <1>5 DEF Tells
<1>8. Reports(n) = Reports(r)
  BY <1>1, <1>6 DEF Reports
<1> QED BY <1>3, <1>4, <1>5, <1>6, <1>7, <1>8 DEF n

------------------------------------------------------------------------------
(* A run that has looked at one item more.                                    *)

\* The items are numbers, and a run covers those of its kind.
LEMMA CoversItems ==
  ASSUME library \in Libraries
  PROVE  /\ Items \subseteq Nat /\ IsFiniteSet(Items) /\ Len(library) \in Nat
              /\ Items = 1 .. Len(library)
         /\ \A r : RunShape(r) => /\ r.paths \subseteq Items
                                  /\ r.kind \in {"quality", "junk"}
                                         => \A p \in r.paths : library[p].kind = "photo"
                                  /\ r.kind = "video"
                                         => \A p \in r.paths : library[p].kind = "video"
<1>1. Len(library) \in Nat /\ Items = 1 .. Len(library)
  BY LibrariesAssumption DEF Items
<1>2. Items \subseteq Nat /\ IsFiniteSet(Items)
  BY <1>1, FS_Interval
<1>3. ASSUME NEW r, RunShape(r)
      PROVE  /\ r.paths \subseteq Items
             /\ r.kind \in {"quality", "junk"} => \A p \in r.paths : library[p].kind = "photo"
             /\ r.kind = "video" => \A p \in r.paths : library[p].kind = "video"
  <2>1. r.paths = Covers(r.request) /\ r.request.kind = r.kind
    BY <1>3, Zenon DEF RunShape
  <2>2. r.paths \subseteq Items
    BY <2>1 DEF Covers
  <2>3. CASE r.kind \in {"quality", "junk"}
    BY <2>1, <2>2, <2>3 DEF Covers
  <2>4. CASE r.kind = "video"
    BY <2>1, <2>2, <2>4 DEF Covers
  <2> QED BY <2>2, <2>3, <2>4
<1> QED BY <1>1, <1>2, <1>3

\* Its stream goes on.
LEMMA StreamGoesOn ==
  ASSUME NEW r, RunShape(r), Streamed(r), NEW p \in r.paths \ r.seen, NEW q, NEW st
  PROVE  /\ Tells(r, p) =>
              Streamed(Onward(r, r.seen \cup {p}, q, Append(r.events, Report(r, p)), st))
         /\ ~Tells(r, p) => Streamed(Onward(r, r.seen \cup {p}, q, r.events, st))
<1>1. r.seen \cup {p} \in SUBSET r.paths
  BY Zenon DEF RunShape
<1>2. \A e : LET n == Onward(r, r.seen \cup {p}, q, e, st)
             IN /\ n.seen = r.seen \cup {p} /\ n.events = e
                /\ \A x : Report(n, x) = Report(r, x)
                /\ \A x : Tells(n, x) <=> Tells(r, x)
                /\ Reports(n) = Reports(r)
  <2> TAKE e
  <2> QED BY <1>1, OnwardFields, OnwardTells
<1> DEFINE old == r.events
           S == Reports(r)
<1>3. \A x : Report(r, x).item = x
  BY DEF Report, Flag
<1>4. /\ old \in Seq(S) /\ DOMAIN old = 1 .. Len(old) /\ Len(old) \in Nat
      /\ \A i \in DOMAIN old : \E x \in r.seen : Tells(r, x) /\ old[i] = Report(r, x)
      /\ \A x \in r.seen : Tells(r, x) => \E i \in DOMAIN old : old[i] = Report(r, x)
      /\ \A i, j \in DOMAIN old : old[i].item = old[j].item => i = j
  <2>1. old \in Seq(S)
    BY DEF Streamed
  <2> QED BY <2>1, LenProperties DEF Streamed
<1>5. \A i \in DOMAIN old : old[i].item \in r.seen
  BY <1>3, <1>4
<1>6. Report(r, p) \in S
  BY DEF Reports
<1> HIDE DEF S, old
<1>7. ASSUME ~Tells(r, p)
      PROVE  Streamed(Onward(r, r.seen \cup {p}, q, old, st))
  <2> DEFINE n == Onward(r, r.seen \cup {p}, q, old, st)
  <2> SUFFICES Streamed(n)
    OBVIOUS
  <2>1. /\ n.seen = r.seen \cup {p} /\ n.events = old /\ Reports(n) = S
        /\ \A x : Report(n, x) = Report(r, x)
        /\ \A x : Tells(n, x) <=> Tells(r, x)
    BY <1>2 DEF S
  <2> HIDE DEF n
  <2> QED BY <1>4, <1>7, <2>1 DEF Streamed
<1>8. ASSUME Tells(r, p)
      PROVE  Streamed(Onward(r, r.seen \cup {p}, q, Append(old, Report(r, p)), st))
  <2> DEFINE e == Append(old, Report(r, p))
             n == Onward(r, r.seen \cup {p}, q, e, st)
             new == Len(old) + 1
  <2> SUFFICES Streamed(n)
    OBVIOUS
  <2>1. /\ n.seen = r.seen \cup {p} /\ n.events = e /\ Reports(n) = S
        /\ \A x : Report(n, x) = Report(r, x)
        /\ \A x : Tells(n, x) <=> Tells(r, x)
    BY <1>2 DEF S
  <2>2. /\ e \in Seq(S) /\ Len(e) = Len(old) + 1
        /\ \A i \in 1 .. Len(old) : e[i] = old[i]
        /\ e[Len(old) + 1] = Report(r, p)
    BY <1>4, <1>6, AppendProperties
  <2> HIDE DEF e, n
  <2>3. DOMAIN e = 1 .. Len(e)
    BY <2>2, LenProperties
  <2>4. /\ DOMAIN e = DOMAIN old \cup {new} /\ new \notin DOMAIN old
        /\ \A i \in DOMAIN old : e[i] = old[i]
    BY <1>4, <2>2, <2>3
  <2> HIDE DEF new
  <2>5. e[new] = Report(r, p) /\ e[new].item = p
    BY <1>3, <2>2 DEF new
  <2>6. \A i \in DOMAIN e : \E x \in r.seen \cup {p} : Tells(r, x) /\ e[i] = Report(r, x)
    BY <1>4, <1>8, <2>4, <2>5
  <2>7. \A x \in r.seen \cup {p} : Tells(r, x) => \E i \in DOMAIN e : e[i] = Report(r, x)
    <3> SUFFICES ASSUME NEW x \in r.seen \cup {p}, Tells(r, x)
            PROVE \E i \in DOMAIN e : e[i] = Report(r, x)
      OBVIOUS
    <3>1. CASE x = p
      BY <2>4, <2>5, <3>1
    <3>2. CASE x \in r.seen
      BY <1>4, <2>4, <3>2
    <3> QED BY <3>1, <3>2
  <2>8. \A i, j \in DOMAIN e : e[i].item = e[j].item => i = j
    <3>1. \A i \in DOMAIN old : e[i].item # p /\ e[i].item = old[i].item
      BY <1>5, <2>4
    <3>2. TAKE i, j \in DOMAIN e
    <3>3. CASE i \in DOMAIN old /\ j \in DOMAIN old
      BY <1>4, <3>1, <3>3
    <3>4. CASE i = new \/ j = new
      BY <2>4, <2>5, <3>1, <3>4
    <3> QED BY <2>4, <3>3, <3>4
  <2> QED BY <2>1, <2>2, <2>6, <2>7, <2>8 DEF Streamed
<1> QED BY <1>7, <1>8 DEF old

\* It stays what it was when the run is stopped, or is written.
LEMMA StreamStays ==
  ASSUME NEW r, RunShape(r), Streamed(r), NEW q, NEW st
  PROVE  Streamed(Onward(r, r.seen, q, r.events, st))
<1> DEFINE n == Onward(r, r.seen, q, r.events, st)
<1>1. r.seen \in SUBSET r.paths
  BY Zenon DEF RunShape
<1>2. n.seen = r.seen /\ n.events = r.events
  BY OnwardFields
<1>3. /\ \A x : Report(n, x) = Report(r, x)
      /\ \A x : Tells(n, x) <=> Tells(r, x)
      /\ Reports(n) = Reports(r)
  BY <1>1, OnwardTells
<1> HIDE DEF n
<1> QED BY <1>2, <1>3 DEF Streamed, n

\* An item that is done, or has no verdict, is passed by.
LEMMA SettledPassedBy ==
  ASSUME NEW r, RunShape(r), NEW marks, Settled(r, marks), NEW p \in r.paths \ r.seen, NEW e, NEW st,
         p \in r.done \/ Verdict(r, p) = NoRow
  PROVE  Settled(Onward(r, r.seen \cup {p}, r.pending, e, st), marks)
<1> DEFINE n == Onward(r, r.seen \cup {p}, r.pending, e, st)
<1>1. r.seen \cup {p} \in SUBSET r.paths
  BY Zenon DEF RunShape
<1>2. n.seen = r.seen \cup {p} /\ n.pending = r.pending /\ n.done = r.done /\ n.paths = r.paths
  BY OnwardFields
<1>3. \A x : Verdict(n, x) = Verdict(r, x)
  BY <1>1, OnwardTells
<1> HIDE DEF n
<1> QED BY <1>2, <1>3 DEF Settled, n

\* One that was looked at waits.
LEMMA SettledWaits ==
  ASSUME NEW r, RunShape(r), NEW marks, Settled(r, marks), NEW p \in r.paths \ r.seen, NEW e, NEW st,
         p \notin r.done, Verdict(r, p) # NoRow, Cardinality(r.pending \cup {p}) < Checkpoint
  PROVE  Settled(Onward(r, r.seen \cup {p}, r.pending \cup {p}, e, st), marks)
<1>1. r.seen \cup {p} \in SUBSET r.paths
  BY Zenon DEF RunShape
<1>2. IsFiniteSet(r.pending \cup {p}) /\ p \notin r.pending /\ marks[p] = NoRow
  BY FS_AddElement DEF Settled
<1> DEFINE n == Onward(r, r.seen \cup {p}, r.pending \cup {p}, e, st)
<1>3. n.seen = r.seen \cup {p}
      /\ n.pending = r.pending \cup {p} /\ n.done = r.done /\ n.paths = r.paths
  BY OnwardFields
<1>4. \A x : Verdict(n, x) = Verdict(r, x)
  BY <1>1, OnwardTells
<1> HIDE DEF n
<1> QED BY <1>2, <1>3, <1>4 DEF Settled, n

\* Or it is written with those that wait.
LEMMA SettledLooks ==
  ASSUME NEW r, RunShape(r), NEW marks, Settled(r, marks), NEW p \in r.paths \ r.seen, NEW e, NEW st,
         NEW new, \A x \in r.paths : new[x] = IF x \in r.pending \cup {p} THEN Verdict(r, x)
             ELSE marks[x]
  PROVE  Settled(Onward(r, r.seen \cup {p}, {}, e, st), new)
<1>1. r.seen \cup {p} \in SUBSET r.paths
  BY Zenon DEF RunShape
<1> DEFINE n == Onward(r, r.seen \cup {p}, {}, e, st)
<1>2. n.seen = r.seen \cup {p} /\ n.pending = {} /\ n.done = r.done /\ n.paths = r.paths
  BY OnwardFields
<1>3. \A x : Verdict(n, x) = Verdict(r, x)
  BY <1>1, OnwardTells
<1>4. IsFiniteSet({}) /\ Cardinality({}) < Checkpoint
  BY FS_EmptySet, AnalysisAssumption
<1>5. \A x \in (r.seen \cup {p}) \ r.done : new[x] = Verdict(r, x)
  BY <1>1 DEF Settled
<1>6. \A x \in r.paths \ (r.done \cup r.seen \cup {p}) : new[x] = NoRow
  BY DEF Settled
<1> HIDE DEF n
<1> QED BY <1>2, <1>3, <1>4, <1>5, <1>6 DEF Settled, n

\* A run that is stopped has settled what it had.
LEMMA SettledStays ==
  ASSUME NEW r, RunShape(r), NEW marks, Settled(r, marks), NEW e, NEW st
  PROVE  Settled(Onward(r, r.seen, r.pending, e, st), marks)
<1> DEFINE n == Onward(r, r.seen, r.pending, e, st)
<1>1. r.seen \in SUBSET r.paths
  BY Zenon DEF RunShape
<1>2. n.seen = r.seen /\ n.pending = r.pending /\ n.done = r.done /\ n.paths = r.paths
  BY OnwardFields
<1>3. \A x : Verdict(n, x) = Verdict(r, x)
  BY <1>1, OnwardTells
<1> HIDE DEF n
<1> QED BY <1>2, <1>3 DEF Settled, n

\* What is written at the end settles all that was looked at.
LEMMA SettledWritten ==
  ASSUME NEW r, RunShape(r), NEW marks, Settled(r, marks), NEW new,
         \A x \in r.paths : new[x] = IF x \in r.pending THEN Verdict(r, x) ELSE marks[x]
  PROVE  \A x \in r.seen \ r.done : new[x] = Verdict(r, x)
BY DEF Settled, RunShape

------------------------------------------------------------------------------
(* Analysis: each step keeps the invariant.                                   *)

\* What is said of a run depends on the library, which stays.
LEMMA LibraryStays ==
  ASSUME library' = library
  PROVE  /\ Items' = Items
         /\ \A r : (RunShape(r))' <=> RunShape(r)
         /\ \A r : (Streamed(r))' <=> Streamed(r)
         /\ \A r, marks : (Settled(r, marks))' <=> Settled(r, marks)
         /\ \A r, p : (Verdict(r, p))' = Verdict(r, p)
         /\ \A p, t : (QualityRow(p, t))' = QualityRow(p, t)
<1>1. Items' = Items
  BY DEF Items
<1>2. \A r : (Covers(r))' = Covers(r)
  BY <1>1, Zenon DEF Covers
<1>3. \A r : (RunShape(r))' <=> RunShape(r)
  BY <1>2, Zenon DEF RunShape, Kinds
<1>4. \A r, p : (Verdict(r, p))' = Verdict(r, p)
  BY Zenon DEF Verdict, NoRow
<1>5. \A p, t : (QualityRow(p, t))' = QualityRow(p, t) /\ (Flag(p, t))' = Flag(p, t)
  BY Zenon DEF QualityRow, Flag
<1>6. \A r, p : (Report(r, p))' = Report(r, p)
  BY <1>4, <1>5, Zenon DEF Report
<1>7. \A r, p : (Tells(r, p))' <=> Tells(r, p)
  BY <1>4, <1>5, Zenon DEF Tells, IsFlag, NoRow
<1>8. \A r : (Reports(r))' = Reports(r)
  BY <1>6, Zenon DEF Reports
<1>9. \A r : (Streamed(r))' <=> Streamed(r)
  BY <1>6, <1>7, <1>8, Zenon DEF Streamed
<1>10. \A r, marks : (Settled(r, marks))' <=> Settled(r, marks)
  BY <1>4, Zenon DEF Settled, NoRow
<1> QED BY <1>1, <1>3, <1>4, <1>5, <1>9, <1>10

\* What the last whole runs have left stays as long as the rows of their kinds do.
LEMMA LastRunsStay ==
  ASSUME library' = library, NEW k \in Kinds, LastInv(k), last'[k] = last[k],
         Resting' \/ run'.kind # k,
         k = "quality" => quality' = quality,
         k = "similar" => groups' = groups,
         k = "junk" => junk' = junk,
         k = "video" => videos' = videos
  PROVE  LastInv(k)'
<1>1. CASE last[k] = NoRun
  BY <1>1 DEF LastInv, NoRun
<1>2. CASE last[k] # NoRun
  <2>0. PICK r : r = last[k]
    OBVIOUS
  <2>1. /\ RunShape(r) /\ r.kind = k /\ (k = "similar" => r.events = Reaching(r.paths))
        /\ k # "similar" => Streamed(r) /\ r.seen = r.paths
        /\ k = "quality" => \A p \in r.paths : library[p].readable
               => quality[p] = <<QualityRow(p, r.request.thresholds)>>
        /\ k = "junk" => \A p \in r.paths \ r.done : junk[p] = Verdict(r, p)
        /\ k = "video" => \A p \in r.paths \ r.done : videos[p] = Verdict(r, p)
    BY <1>2, <2>0, Zenon DEF LastInv
  <2>2. k = "similar" => \A paths : (Reaching(paths))' = Reaching(paths)
    BY Zenon DEF Reaching
  <2>3. (RunShape(r))' /\ (k = "similar" => r.events = (Reaching(r.paths))')
    BY <2>1, <2>2, LibraryStays, Zenon
  <2>4. k # "similar" => (Streamed(r))' /\ r.seen = r.paths
    BY <2>1, LibraryStays, Zenon
  <2>5. k = "quality" => \A p \in r.paths : (library[p].readable)' =>
           quality'[p] = <<(QualityRow(p, r.request.thresholds))'>>
    <3> SUFFICES ASSUME k = "quality", NEW p \in r.paths, (library[p].readable)'
                 PROVE  quality'[p] = <<(QualityRow(p, r.request.thresholds))'>>
      BY Zenon
    <3>1. (QualityRow(p, r.request.thresholds))' = QualityRow(p, r.request.thresholds)
      BY LibraryStays, Zenon
    <3>2. library[p].readable
      BY Zenon
    <3>3. quality[p] = <<QualityRow(p, r.request.thresholds)>>
      BY <2>1, <3>2, Zenon
    <3> QED BY <3>1, <3>3, Zenon
  <2>6. k = "junk" => \A p \in r.paths \ r.done : junk'[p] = (Verdict(r, p))'
    BY <2>1, LibraryStays, Zenon
  <2>7. k = "video" => \A p \in r.paths \ r.done : videos'[p] = (Verdict(r, p))'
    BY <2>1, LibraryStays, Zenon
  <2>8. last'[k] = r /\ r.kind = k
    BY <2>0, <2>1
  <2> QED BY <2>3, <2>4, <2>5, <2>6, <2>7, <2>8, Zenon DEF LastInv, Resting
<1> QED BY <1>1, <1>2

\* No row changes.
LEMMA RowsStay ==
  ASSUME library' = library, quality' = quality, junk' = junk, videos' = videos, RowsInv
  PROVE  RowsInv'
<1>1. Items' = Items
  BY DEF Items
<1> SUFFICES ASSUME NEW p \in Items
    PROVE  /\ quality[p] # <<>> => /\ library[p].kind = "photo" /\ library[p].readable
                                   /\ \E t : quality[p] = <<(QualityRow(p, t))'>>
           /\ junk[p] # NoRow => library[p].kind = "photo"
           /\ videos[p] # NoRow => library[p].kind = "video"
  BY <1>1, Zenon DEF RowsInv, NoRow
<1> QED BY LibraryStays, Zenon DEF RowsInv

\* The account of the work, if no row is written and the same items wait.
LEMMA WorkStays ==
  ASSUME library' = library, times' = times, losses' = losses, junk' = junk,
         videos' = videos, WorkIsKept,
         \A p \in Items : (~Resting' /\ p \in run'.pending) <=> (~Resting /\ p \in run.pending),
         ~Resting' => Cardinality(run'.pending) < Checkpoint
  PROVE  WorkIsKept'
<1>1. Items' = Items
  BY DEF Items
<1>2. \A p \in Items :
        times[p] = losses[p] + (IF junk[p] # NoRow \/ videos[p] # NoRow THEN 1 ELSE 0)
                             + (IF ~Resting' /\ p \in run'.pending THEN 1 ELSE 0)
  BY Zenon DEF WorkIsKept
<1> QED BY <1>1, <1>2, Zenon DEF WorkIsKept, NoRow

\* A run begins.
LEMMA BeginStep ==
  ASSUME AnalysisInv, NEW request \in Requests, BeginAnalysis(request)
  PROVE  AnalysisInv'
<1> DEFINE kind == request.kind
<1>1. /\ library' = library /\ quality' = quality /\ groups' = groups /\ junk' = junk
           /\ videos' = videos
      /\ times' = times /\ losses' = losses /\ run = NoRun
      /\ last' = [last EXCEPT ![kind] = NoRun]
  BY Zenon DEF BeginAnalysis, session, Resting
<1>2. PICK R : R = run'
  OBVIOUS
<1>3. R = [kind |-> kind, request |-> request, paths |-> Covers(request),
           done |-> AlreadyDone(request), scores |-> Scores, base |-> GroupBase, vision |-> vision,
           seen |-> {}, pending |-> {}, events |-> <<>>, stopped |-> FALSE]
  BY <1>2, Zenon DEF BeginAnalysis
<1>4. /\ R.kind = kind /\ R.request = request /\ R.paths = Covers(request)
           /\ R.done = AlreadyDone(request)
      /\ R.scores = Scores /\ R.base = GroupBase /\ R.vision = vision
      /\ R.seen = {} /\ R.pending = {} /\ R.events = <<>>
  BY <1>3
<1>5. kind \in Kinds
  BY KindsAssumption DEF Kinds
<1>6. RunShape(R) /\ R # NoRun
  <2>1. R = [kind |-> R.kind, request |-> R.request, paths |-> R.paths, done |-> R.done,
             scores |-> R.scores, base |-> R.base, vision |-> R.vision, seen |-> R.seen,
             pending |-> R.pending, events |-> R.events, stopped |-> R.stopped]
    BY <1>3
  <2>2. R.kind # "idle"
    BY <1>4, <1>5 DEF Kinds
  <2>3. NoRun.kind = "idle"
    BY DEF NoRun
  <2> QED BY <1>4, <1>5, <2>1, <2>2, <2>3, Zenon DEF RunShape
<1>7. Streamed(R)
  <2>1. <<>> \in Seq(Reports(R)) /\ DOMAIN <<>> = {}
    OBVIOUS
  <2> QED BY <1>4, <2>1 DEF Streamed
<1>8. IsFiniteSet({}) /\ Cardinality({}) = 0 /\ Cardinality({}) < Checkpoint
  BY FS_EmptySet, AnalysisAssumption
<1>9. R.paths \subseteq Items
  BY <1>6, CoversItems DEF AnalysisInv
<1>10. kind = "junk" => Settled(R, junk)
  <2> SUFFICES ASSUME kind = "junk" PROVE Settled(R, junk)
    OBVIOUS
  <2>1. \A p \in Items \ R.done : junk[p] = NoRow
    BY <1>4 DEF AlreadyDone
  <2> QED BY <1>4, <1>8, <1>9, <2>1 DEF Settled
<1>11. kind = "video" => Settled(R, videos)
  <2> SUFFICES ASSUME kind = "video" PROVE Settled(R, videos)
    OBVIOUS
  <2>1. \A p \in Items \ R.done : videos[p] = NoRow
    BY <1>4 DEF AlreadyDone
  <2> QED BY <1>4, <1>8, <1>9, <2>1 DEF Settled
<1>12. RunInv'
  <2>1. (RunShape(R))' /\ (Streamed(R))'
    BY <1>1, <1>6, <1>7, LibraryStays, Zenon
  <2>2. kind = "junk" => (Settled(R, junk))'
    BY <1>1, <1>10, LibraryStays, Zenon
  <2>3. kind = "video" => (Settled(R, videos))'
    BY <1>1, <1>11, LibraryStays, Zenon
  <2> HIDE DEF kind
  <2> QED BY <1>2, <1>4, <2>1, <2>2, <2>3, Zenon DEF RunInv
<1>13. RowsInv'
  BY <1>1, RowsStay, Zenon DEF AnalysisInv
<1>14. WorkIsKept'
  <2>1. \A p \in Items : (~Resting' /\ p \in run'.pending) <=> (~Resting /\ p \in run.pending)
    BY <1>1, <1>2, <1>4, Zenon DEF Resting
  <2>2. Cardinality(run'.pending) < Checkpoint
    BY <1>2, <1>4, <1>8, Zenon
  <2> QED BY <1>1, <2>1, <2>2, WorkStays, Zenon DEF AnalysisInv
<1>15. \A k \in Kinds : LastInv(k)'
  <2> TAKE k \in Kinds
  <2>1. CASE k = kind
    <3>1. last'[k] = NoRun
      BY <1>1, <2>1 DEF AnalysisInv
    <3> QED BY <3>1, Zenon DEF LastInv, NoRun
  <2>2. CASE k # kind
    <3>1. last'[k] = last[k]
      BY <1>1, <2>2 DEF AnalysisInv
    <3>2. run'.kind # k
      BY <1>2, <1>4, <2>2, Zenon
    <3>3. LastInv(k)
      BY Zenon DEF AnalysisInv
    <3> HIDE DEF kind
    <3> QED BY <1>1, <3>1, <3>2, <3>3, LastRunsStay, Zenon
  <2> QED BY <2>1, <2>2
<1>16. DOMAIN last' = Kinds
  BY <1>1 DEF AnalysisInv
<1>17. (Items' = Items) /\ (Kinds' = Kinds)
  BY <1>1, Zenon DEF Items, Kinds
<1> QED BY <1>1, <1>12, <1>13, <1>14, <1>15, <1>16, <1>17, Zenon DEF AnalysisInv

\* The run has changed, but in what waits to be written.
LEMMA RunGoesOn ==
  ASSUME AnalysisInv, ~Resting, NEW R, R = run', R # NoRun, R.kind = run.kind,
         R.pending = run.pending,
         RunShape(R), R.kind # "similar" => Streamed(R),
         R.kind = "junk" => Settled(R, junk), R.kind = "video" => Settled(R, videos),
         library' = library, quality' = quality, groups' = groups, junk' = junk, videos' = videos,
         last' = last, times' = times, losses' = losses
  PROVE  AnalysisInv'
<1>1. RunInv'
  <2>1. (RunShape(R))' /\ (R.kind # "similar" => (Streamed(R))')
    BY LibraryStays, Zenon
  <2>2. R.kind = "junk" => (Settled(R, junk))'
    BY LibraryStays, Zenon
  <2>3. R.kind = "video" => (Settled(R, videos))'
    BY LibraryStays, Zenon
  <2>4. R.kind \in {"quality", "similar"} => R.pending = {}
    BY Zenon DEF AnalysisInv, RunInv
  <2> QED BY <2>1, <2>2, <2>3, <2>4, Zenon DEF RunInv
<1>2. RowsInv'
  BY RowsStay, Zenon DEF AnalysisInv
<1>3. ~Resting'
  BY Zenon DEF Resting, NoRun
<1>4. WorkIsKept'
  <2>1. \A p \in Items : (~Resting' /\ p \in run'.pending) <=> (~Resting /\ p \in run.pending)
    BY <1>3, Zenon
  <2>2. Cardinality(run'.pending) < Checkpoint
    BY Zenon DEF AnalysisInv, WorkIsKept
  <2> QED BY <2>1, <2>2, WorkStays, Zenon DEF AnalysisInv
<1>5. \A k \in Kinds : LastInv(k)'
  <2> TAKE k \in Kinds
  <2>1. LastInv(k)
    BY Zenon DEF AnalysisInv
  <2>2. CASE last[k] = NoRun
    BY <2>2, Zenon DEF LastInv, NoRun
  <2>3. CASE last[k] # NoRun
    <3>1. run'.kind # k
      BY <2>1, <2>3, Zenon DEF LastInv
    <3> QED BY <2>1, <3>1, LastRunsStay, Zenon
  <2> QED BY <2>2, <2>3
<1>6. (Items' = Items) /\ (Kinds' = Kinds)
  BY Zenon DEF Items, Kinds
<1> QED BY <1>1, <1>2, <1>4, <1>5, <1>6, Zenon DEF AnalysisInv

\* Nothing that the invariant speaks of changes.
LEMMA UnchangedStep ==
  ASSUME AnalysisInv, library' = library, quality' = quality, groups' = groups, junk' = junk,
         videos' = videos, last' = last, times' = times, losses' = losses, run' = run
  PROVE  AnalysisInv'
<1>1. CASE Resting
  <2>1. Resting'
    BY <1>1, Zenon DEF Resting, NoRun
  <2>2. RunInv' /\ RowsInv'
    BY <2>1, RowsStay, Zenon DEF RunInv, AnalysisInv
  <2>3. \A k \in Kinds : LastInv(k)'
    BY <2>1, LastRunsStay, Zenon DEF AnalysisInv
  <2>4. WorkIsKept'
    BY <1>1, <2>1, WorkStays, Zenon DEF AnalysisInv
  <2>5. (Items' = Items) /\ (Kinds' = Kinds)
    BY Zenon DEF Items, Kinds
  <2> QED BY <2>2, <2>3, <2>4, <2>5, Zenon DEF AnalysisInv
<1>2. CASE ~Resting
  <2>1. PICK R : R = run'
    OBVIOUS
  <2>2. /\ R # NoRun /\ RunShape(R) /\ (R.kind # "similar" => Streamed(R))
        /\ R.kind = "junk" => Settled(R, junk)
        /\ R.kind = "video" => Settled(R, videos)
    BY <1>2, <2>1, Zenon DEF Resting, AnalysisInv, RunInv
  <2> QED BY <1>2, <2>1, <2>2, RunGoesOn, Zenon
<1> QED BY <1>1, <1>2

\* A run is stopped.
LEMMA StopStep ==
  ASSUME AnalysisInv, Stop
  PROVE  AnalysisInv'
<1>1. ~Resting /\ RunInv
  BY Zenon DEF Stop, AnalysisInv
<1>2. PICK r : r = run
  OBVIOUS
<1>3. RunShape(r) /\ r.seen \in SUBSET r.paths
  BY <1>1, <1>2, Zenon DEF RunInv, RunShape
<1>4. PICK R : R = Onward(r, r.seen, r.pending, r.events, TRUE)
  OBVIOUS
<1>5. R = run'
  BY <1>2, <1>3, <1>4, ChangesOfARun, Zenon DEF Stop
<1>6. R.kind = r.kind /\ R.pending = r.pending
  BY <1>4 DEF Onward
<1>7. RunShape(R) /\ R # NoRun
  BY <1>3, <1>4, OnwardTells, Zenon
<1>8. R.kind # "similar" => Streamed(R)
  BY <1>1, <1>2, <1>3, <1>4, <1>6, StreamStays, Zenon DEF RunInv
<1>9. R.kind = "junk" => Settled(R, junk)
  BY <1>1, <1>2, <1>3, <1>4, <1>6, SettledStays, Zenon DEF RunInv
<1>10. R.kind = "video" => Settled(R, videos)
  BY <1>1, <1>2, <1>3, <1>4, <1>6, SettledStays, Zenon DEF RunInv
<1>11. /\ library' = library /\ quality' = quality /\ groups' = groups /\ junk' = junk
            /\ videos' = videos
       /\ last' = last /\ times' = times /\ losses' = losses
  BY Zenon DEF Stop, session, ghosts
<1> QED BY <1>1, <1>2, <1>5, <1>6, <1>7, <1>8, <1>9, <1>10, <1>11, RunGoesOn, Zenon

\* A photo is measured.
LEMMA MeasureStep ==
  ASSUME AnalysisInv, NEW p \in Items, Measure(p)
  PROVE  AnalysisInv'
<1>1. ~Resting /\ RunInv /\ run.kind = "quality" /\ p \in run.paths \ run.seen
  <2>1. run.kind = "quality" /\ p \in run.paths \ run.seen
    BY Zenon DEF Measure, Unseen
  <2>2. NoRun.kind = "idle"
    BY DEF NoRun
  <2> QED BY <2>1, <2>2 DEF Resting, AnalysisInv
<1>2. PICK r : r = run
  OBVIOUS
<1>3. RunShape(r) /\ Streamed(r) /\ r.kind = "quality" /\ r.seen \cup {p} \in SUBSET r.paths
  BY <1>1, <1>2, Zenon DEF RunInv, RunShape
<1>4. PICK e : e = IF Tells(r, p) THEN Append(r.events, Report(r, p)) ELSE r.events
  OBVIOUS
<1>5. PICK R : R = Onward(r, r.seen \cup {p}, r.pending, e, r.stopped)
  OBVIOUS
<1>6. R = run'
  <2>1. Report(r, p) = Flag(p, r.request.thresholds)
    BY <1>3, Zenon DEF Report
  <2>2. Tells(r, p) <=> library[p].readable /\ Flag(p, r.request.thresholds).reasons # {}
    BY <1>3, Zenon DEF Tells
  <2>3. run' = [r EXCEPT !.seen = r.seen \cup {p}, !.events = e]
    BY <1>2, <1>4, <2>1, <2>2, Zenon DEF Measure
  <2> QED BY <1>3, <1>5, <2>3, ChangesOfARun, Zenon
<1>7. R.kind = r.kind /\ R.pending = r.pending
  BY <1>5 DEF Onward
<1>8. RunShape(R) /\ R # NoRun
  BY <1>3, <1>5, OnwardTells, Zenon
<1>9. Streamed(R)
  BY <1>1, <1>2, <1>3, <1>4, <1>5, StreamGoesOn, Zenon
<1>10. /\ library' = library /\ quality' = quality /\ groups' = groups /\ junk' = junk
            /\ videos' = videos
       /\ last' = last /\ times' = times /\ losses' = losses
  BY Zenon DEF Measure, session, ghosts
<1>11. R.kind # "junk" /\ R.kind # "video"
  BY <1>3, <1>7
<1> QED BY <1>1, <1>2, <1>6, <1>7, <1>8, <1>9, <1>10, <1>11, RunGoesOn, Zenon

\* The model arrives.
LEMMA ModelStep ==
  ASSUME AnalysisInv, ModelArrives
  PROVE  AnalysisInv'
<1>1. /\ library' = library /\ quality' = quality /\ groups' = groups /\ junk' = junk
           /\ videos' = videos
      /\ last' = last /\ times' = times /\ losses' = losses /\ run' = run
  BY Zenon DEF ModelArrives, session, ghosts
<1> QED BY <1>1, UnchangedStep, Zenon

\* The write fails, or the process ends.
LEMMA FailStep ==
  ASSUME AnalysisInv, Fail
  PROVE  AnalysisInv'
<1>1. /\ library' = library /\ quality' = quality /\ groups' = groups /\ junk' = junk
           /\ videos' = videos
      /\ last' = last /\ times' = times /\ run' = NoRun /\ ~Resting
      /\ losses' = [p \in Items |-> IF p \in run.pending THEN losses[p] + 1 ELSE losses[p]]
  BY Zenon DEF Fail, Ends
<1>2. Resting'
  BY <1>1, Zenon DEF Resting, NoRun
<1>3. RunInv' /\ RowsInv'
  BY <1>1, <1>2, RowsStay, Zenon DEF RunInv, AnalysisInv
<1>4. \A k \in Kinds : LastInv(k)'
  BY <1>1, <1>2, LastRunsStay, Zenon DEF AnalysisInv
<1>5. losses' \in [Items -> Nat]
  BY <1>1 DEF AnalysisInv
<1>6. (Items' = Items) /\ (Kinds' = Kinds)
  BY <1>1, Zenon DEF Items, Kinds
<1>7. WorkIsKept'
  <2> DEFINE kept(p) == IF junk[p] # NoRow \/ videos[p] # NoRow THEN 1 ELSE 0
  <2>1. \A p \in Items : times[p] = losses[p] + kept(p) + (IF p \in run.pending THEN 1 ELSE 0)
    BY <1>1 DEF AnalysisInv, WorkIsKept
  <2>2. \A p \in Items : times[p] \in Nat /\ losses[p] \in Nat /\ kept(p) \in Nat
    BY DEF AnalysisInv
  <2> HIDE DEF kept
  <2>3. \A p \in Items : times'[p] = losses'[p] + kept(p) + 0
    BY <1>1, <2>1, <2>2
  <2>4. \A p \in Items : times'[p] = losses'[p] + (IF junk'[p] # NoRow \/ videos'[p] # NoRow
                                                    THEN 1 ELSE 0)
                                       + (IF ~Resting' /\ p \in run'.pending THEN 1 ELSE 0)
    BY <1>1, <1>2, <2>3, Zenon DEF kept
  <2> QED BY <1>2, <1>6, <2>4, Zenon DEF WorkIsKept, NoRow
<1> QED BY <1>1, <1>3, <1>4, <1>5, <1>6, <1>7, Zenon DEF AnalysisInv

\* A run ends: what it leaves, if it is whole, is the account of its kind.
LEMMA RunEnds ==
  ASSUME AnalysisInv, ~Resting, library' = library, run' = NoRun, times' = times, losses' = losses,
         NEW kind, kind = run.kind,
         NEW r, last' = last \/ (last' = [last EXCEPT ![kind] = r]
                                 /\ (r = last'[kind] => LastInv(kind)')),
         RowsInv', WorkIsKept',
         kind # "quality" => quality' = quality, kind # "similar" => groups' = groups,
         kind # "junk" => junk' = junk, kind # "video" => videos' = videos
  PROVE  AnalysisInv'
<1>1. Resting' /\ RunInv'
  BY Zenon DEF Resting, RunInv, NoRun
<1>2. DOMAIN last = Kinds /\ kind \in Kinds
  BY Zenon DEF AnalysisInv, RunInv, RunShape
<1>3. DOMAIN last' = Kinds /\ \A k \in Kinds \ {kind} : last'[k] = last[k]
  BY <1>2
<1>4. last'[kind] = last[kind] \/ (last'[kind] = r /\ LastInv(kind)')
  BY <1>2
<1>5. \A k \in Kinds : LastInv(k)'
  <2> TAKE k \in Kinds
  <2>1. LastInv(k)
    BY Zenon DEF AnalysisInv
  <2>2. CASE k # kind
    <3>1. last'[k] = last[k]
      BY <1>3, <2>2, Zenon
    <3> QED BY <1>1, <2>1, <2>2, <3>1, LastRunsStay, Zenon
  <2>3. CASE k = kind
    <3>1. last[kind] = NoRun
      BY <2>1, <2>3, Zenon DEF LastInv
    <3>2. last'[kind] = NoRun => LastInv(kind)'
      BY Zenon DEF LastInv, NoRun
    <3> QED BY <1>4, <2>3, <3>1, <3>2, Zenon
  <2> QED BY <2>2, <2>3
<1>6. (Items' = Items) /\ (Kinds' = Kinds)
  BY Zenon DEF Items, Kinds
<1> QED BY <1>1, <1>3, <1>5, <1>6, Zenon DEF AnalysisInv

\* What there is to know of a run that is under way.
LEMMA RunUnderWay ==
  ASSUME AnalysisInv, run.kind \in Kinds
  PROVE  /\ ~Resting /\ RunShape(run) /\ run.paths \subseteq Items /\ run.seen \in SUBSET run.paths
         /\ run.kind # "similar" => Streamed(run)
         /\ run.kind = "junk" => Settled(run, junk)
              /\ \A p \in run.paths : library[p].kind = "photo"
         /\ run.kind = "video" => Settled(run, videos)
              /\ \A p \in run.paths : library[p].kind = "video"
         /\ run.kind \in {"quality", "similar"} => run.pending = {}
         /\ run.kind = "quality" => \A p \in run.paths : library[p].kind = "photo"
<1>1. ~Resting
  BY DEF Resting, NoRun, Kinds
<1>2. /\ RunShape(run) /\ run.seen \subseteq run.paths
      /\ run.kind # "similar" => Streamed(run)
      /\ run.kind = "junk" => Settled(run, junk)
      /\ run.kind = "video" => Settled(run, videos)
      /\ run.kind \in {"quality", "similar"} => run.pending = {}
  BY <1>1, Zenon DEF AnalysisInv, RunInv, RunShape
<1>3. library \in Libraries
  BY Zenon DEF AnalysisInv
<1>4. /\ run.paths \subseteq Items
      /\ run.kind \in {"quality", "junk"} => \A p \in run.paths : library[p].kind = "photo"
      /\ run.kind = "video" => \A p \in run.paths : library[p].kind = "video"
  BY <1>2, <1>3, CoversItems
<1> QED BY <1>1, <1>2, <1>4

\* The measures are written.
LEMMA WriteQualityStep ==
  ASSUME AnalysisInv, WriteQuality
  PROVE  AnalysisInv'
<1>1. run.kind = "quality"
  BY Zenon DEF WriteQuality
<1>2. PICK r : r = run
  OBVIOUS
<1>3. /\ ~Resting /\ RunShape(r) /\ r.paths \subseteq Items /\ r.seen \in SUBSET r.paths
      /\ Streamed(r) /\ r.pending = {} /\ \A p \in r.paths : library[p].kind = "photo"
  BY <1>1, <1>2, RunUnderWay DEF Kinds
<1>4. /\ library' = library /\ groups' = groups /\ junk' = junk /\ videos' = videos
      /\ times' = times /\ losses' = losses /\ run' = NoRun
  BY Zenon DEF WriteQuality, Ends
<1>5. last' = last \/ (last' = [last EXCEPT !["quality"] = r] /\ r.seen = r.paths)
  <2>1. ~r.stopped => r.seen = r.paths
    BY <1>2, <1>3 DEF WriteQuality, AllSeen, Unseen
  <2>2. last' = last \/ (last' = [last EXCEPT !["quality"] = r] /\ ~r.stopped)
    BY <1>1, <1>2, Zenon DEF WriteQuality, Ends
  <2> QED BY <2>1, <2>2, Zenon
<1>6. /\ \A p \in Items : p \in r.seen /\ library[p].readable
                            => quality'[p] = <<QualityRow(p, r.request.thresholds)>>
      /\ \A p \in Items : ~(p \in r.seen /\ library[p].readable) => quality'[p] = quality[p]
  BY <1>2 DEF WriteQuality
<1>7. Items' = Items
  BY <1>4, Zenon DEF Items
<1>8. RowsInv'
  <2> SUFFICES ASSUME NEW p \in Items
      PROVE  /\ quality'[p] # <<>> => /\ library[p].kind = "photo" /\ library[p].readable
                                      /\ \E t : quality'[p] = <<(QualityRow(p, t))'>>
             /\ junk[p] # NoRow => library[p].kind = "photo"
             /\ videos[p] # NoRow => library[p].kind = "video"
    BY <1>4, <1>7, Zenon DEF RowsInv, NoRow
  <2>1. /\ quality[p] # <<>> => /\ library[p].kind = "photo" /\ library[p].readable
                                /\ \E t : quality[p] = <<QualityRow(p, t)>>
        /\ junk[p] # NoRow => library[p].kind = "photo"
        /\ videos[p] # NoRow => library[p].kind = "video"
    BY Zenon DEF AnalysisInv, RowsInv
  <2>2. \A t : (QualityRow(p, t))' = QualityRow(p, t)
    BY <1>4, LibraryStays, Zenon
  <2>3. CASE p \in r.seen /\ library[p].readable
    <3>1. quality'[p] = <<(QualityRow(p, r.request.thresholds))'>>
      BY <1>6, <2>2, <2>3, Zenon
    <3>2. library[p].kind = "photo"
      BY <1>3, <2>3, Zenon
    <3> QED BY <2>1, <2>3, <3>1, <3>2, Zenon
  <2>4. CASE ~(p \in r.seen /\ library[p].readable)
    <3>1. quality'[p] = quality[p]
      BY <1>6, <2>4, Zenon
    <3> QED BY <2>1, <2>2, <3>1, Zenon
  <2> QED BY <2>3, <2>4, Zenon
<1>9. WorkIsKept'
  <2>1. \A p \in Items : (~Resting' /\ p \in run'.pending) <=> (~Resting /\ p \in run.pending)
    BY <1>2, <1>3, <1>4, Zenon DEF Resting, NoRun
  <2>2. Resting'
    BY <1>4, Zenon DEF Resting, NoRun
  <2> QED BY <1>4, <2>1, <2>2, WorkStays, Zenon DEF AnalysisInv
<1>10. r = last'["quality"] => (r.seen = r.paths => LastInv("quality")')
  <2> SUFFICES ASSUME r = last'["quality"], r.seen = r.paths PROVE LastInv("quality")'
    BY Zenon
  <2>1. (RunShape(r))' /\ (Streamed(r))'
    BY <1>3, <1>4, LibraryStays, Zenon
  <2>2. \A p \in r.paths : (library[p].readable)'
            => quality'[p] = <<(QualityRow(p, r.request.thresholds))'>>
    <3> SUFFICES ASSUME NEW p \in r.paths, library[p].readable
                 PROVE  quality'[p] = <<(QualityRow(p, r.request.thresholds))'>>
      BY <1>4, Zenon
    <3>1. (QualityRow(p, r.request.thresholds))' = QualityRow(p, r.request.thresholds)
      BY <1>4, LibraryStays, Zenon
    <3> QED BY <1>3, <1>6, <3>1, Zenon
  <2>3. Resting' /\ "quality" # "similar" /\ "quality" # "junk" /\ "quality" # "video"
    BY <1>4, Zenon DEF Resting, NoRun
  <2> QED BY <1>1, <1>2, <2>1, <2>2, <2>3, Zenon DEF LastInv
<1>11. last' = last \/ (last' = [last EXCEPT !["quality"] = r]
                        /\ (r = last'["quality"] => LastInv("quality")'))
  BY <1>5, <1>10, Zenon
<1> QED BY <1>1, <1>3, <1>4, <1>8, <1>9, <1>11, RunEnds, Zenon

\* The rows of a kind, as the loop writes them, are of items of its kind.
LEMMA RowsAfterFlush ==
  ASSUME AnalysisInv, NEW r, r = run, r.kind \in {"junk", "video"}, NEW pending \in SUBSET r.paths,
         Flush(pending), library' = library, quality' = quality
  PROVE  /\ RowsInv'
         /\ r.kind = "junk" => /\ videos' = videos
                               /\ \A p \in Items : junk'[p] = IF p \in pending THEN Verdict(r, p)
                                      ELSE junk[p]
         /\ r.kind = "video" => /\ junk' = junk
                                /\ \A p \in Items : videos'[p] = IF p \in pending
                                       THEN Verdict(r, p) ELSE videos[p]
<1>1. /\ r.paths \subseteq Items
      /\ r.kind = "junk" => \A p \in r.paths : library[p].kind = "photo"
      /\ r.kind = "video" => \A p \in r.paths : library[p].kind = "video"
  BY RunUnderWay DEF Kinds
<1>2. library \in Libraries /\ RowsInv
  BY Zenon DEF AnalysisInv
<1>3. \A marks : \A p \in Items : Flushed(marks, pending)[p] = IF p \in pending THEN Verdict(r, p)
          ELSE marks[p]
  BY DEF Flushed
<1>4. r.kind = "junk" => /\ videos' = videos
                         /\ \A p \in Items : junk'[p] = IF p \in pending THEN Verdict(r, p)
                                ELSE junk[p]
  BY <1>3, Zenon DEF Flush
<1>5. r.kind = "video" => /\ junk' = junk
                          /\ \A p \in Items : videos'[p] = IF p \in pending THEN Verdict(r, p)
                                 ELSE videos[p]
  <2>1. r.kind = "video" => r.kind # "junk"
    OBVIOUS
  <2> QED BY <1>3, <2>1, Zenon DEF Flush
<1>6. Items' = Items
  BY Zenon DEF Items
<1>7. RowsInv'
  <2> SUFFICES ASSUME NEW p \in Items
      PROVE  /\ quality[p] # <<>> => /\ library[p].kind = "photo" /\ library[p].readable
                                     /\ \E t : quality[p] = <<(QualityRow(p, t))'>>
             /\ junk'[p] # NoRow => library[p].kind = "photo"
             /\ videos'[p] # NoRow => library[p].kind = "video"
    BY <1>6, Zenon DEF RowsInv, NoRow
  <2>1. /\ quality[p] # <<>> => /\ library[p].kind = "photo" /\ library[p].readable
                                /\ \E t : quality[p] = <<QualityRow(p, t)>>
        /\ junk[p] # NoRow => library[p].kind = "photo"
        /\ videos[p] # NoRow => library[p].kind = "video"
    BY <1>2, Zenon DEF RowsInv
  <2>2. \A t : (QualityRow(p, t))' = QualityRow(p, t)
    BY LibraryStays, Zenon
  <2>3. junk'[p] # NoRow => library[p].kind = "photo"
    BY <1>1, <1>4, <1>5, <2>1
  <2>4. videos'[p] # NoRow => library[p].kind = "video"
    BY <1>1, <1>4, <1>5, <2>1
  <2> QED BY <2>1, <2>2, <2>3, <2>4, Zenon
<1> QED BY <1>4, <1>5, <1>7

\* Work that waited is kept when it is written.
LEMMA WorkAfterFlush ==
  ASSUME AnalysisInv, NEW r, r = run, r.kind \in {"junk", "video"}, NEW pending \in SUBSET r.paths,
         Flush(pending), library' = library, quality' = quality,
         \A x \in pending : Verdict(r, x) # NoRow /\ (IF r.kind = "junk" THEN junk[x]
                                                       ELSE videos[x]) = NoRow
  PROVE  \A x \in Items :
           (IF junk'[x] # NoRow \/ videos'[x] # NoRow THEN 1 ELSE 0)
             = (IF junk[x] # NoRow \/ videos[x] # NoRow THEN 1 ELSE 0) + (IF x \in pending THEN 1
                                                                           ELSE 0)
<1>1. /\ r.kind = "junk" => /\ videos' = videos
                            /\ \A p \in Items : junk'[p] = IF p \in pending THEN Verdict(r, p)
                                   ELSE junk[p]
      /\ r.kind = "video" => /\ junk' = junk
                             /\ \A p \in Items : videos'[p] = IF p \in pending THEN Verdict(r, p)
                                    ELSE videos[p]
  BY RowsAfterFlush
<1>2. /\ r.kind = "junk" => \A p \in r.paths : library[p].kind = "photo"
      /\ r.kind = "video" => \A p \in r.paths : library[p].kind = "video"
  BY RunUnderWay DEF Kinds
<1>3. \A p \in Items : /\ junk[p] # NoRow => library[p].kind = "photo"
                       /\ videos[p] # NoRow => library[p].kind = "video"
  BY Zenon DEF AnalysisInv, RowsInv
<1> TAKE x \in Items
<1>4. CASE x \notin pending
  <2>1. junk'[x] = junk[x] /\ videos'[x] = videos[x]
    BY <1>1, <1>4
  <2> QED BY <1>4, <2>1
<1>5. CASE x \in pending
  <2>1. junk[x] = NoRow /\ videos[x] = NoRow
    BY <1>2, <1>3, <1>5
  <2>2. junk'[x] # NoRow \/ videos'[x] # NoRow
    BY <1>1, <1>5
  <2> QED BY <1>5, <2>1, <2>2
<1> QED BY <1>4, <1>5

\* The loop is over: what waited is written.
LEMMA FinishStep ==
  ASSUME AnalysisInv, Finish
  PROVE  AnalysisInv'
<1>1. run.kind \in {"junk", "video"}
  BY Zenon DEF Finish, OneByOne
<1>2. PICK r : r = run
  OBVIOUS
<1>3. /\ ~Resting /\ RunShape(r) /\ r.paths \subseteq Items /\ r.seen \in SUBSET r.paths /\ Streamed(r)
      /\ r.kind = "junk" => Settled(r, junk)
      /\ r.kind = "video" => Settled(r, videos)
  BY <1>1, <1>2, RunUnderWay DEF Kinds
<1>4. /\ library' = library /\ quality' = quality /\ groups' = groups
      /\ times' = times /\ losses' = losses /\ run' = NoRun /\ Flush(r.pending)
  BY <1>2, Zenon DEF Finish, Ends
<1>5. last' = last \/ (last' = [last EXCEPT ![r.kind] = r] /\ r.seen = r.paths)
  <2>1. ~r.stopped => r.seen = r.paths
    BY <1>2, <1>3 DEF Finish, AllSeen, Unseen
  <2>2. last' = last \/ (last' = [last EXCEPT ![r.kind] = r] /\ ~r.stopped)
    BY <1>2, Zenon DEF Finish, Ends
  <2> QED BY <2>1, <2>2, Zenon
<1>6. /\ r.pending \in SUBSET r.paths
      /\ \A x \in r.pending : Verdict(r, x) # NoRow /\ (IF r.kind = "junk" THEN junk[x]
                                                         ELSE videos[x]) = NoRow
  BY <1>1, <1>2, <1>3 DEF Settled
<1>7. /\ RowsInv'
      /\ r.kind = "junk" => /\ videos' = videos
                            /\ \A p \in Items : junk'[p] = IF p \in r.pending THEN Verdict(r, p)
                                   ELSE junk[p]
      /\ r.kind = "video" => /\ junk' = junk
                             /\ \A p \in Items : videos'[p] = IF p \in r.pending
                                    THEN Verdict(r, p) ELSE videos[p]
  BY <1>1, <1>2, <1>4, <1>6, RowsAfterFlush
<1>8. Resting' /\ (Items' = Items)
  BY <1>4, Zenon DEF Resting, NoRun, Items
<1>9. WorkIsKept'
  <2> DEFINE kept(x) == IF junk[x] # NoRow \/ videos[x] # NoRow THEN 1 ELSE 0
             next(x) == IF junk'[x] # NoRow \/ videos'[x] # NoRow THEN 1 ELSE 0
             waits(x) == IF x \in r.pending THEN 1 ELSE 0
  <2>1. \A x \in Items : next(x) = kept(x) + waits(x)
    BY <1>1, <1>2, <1>4, <1>6, WorkAfterFlush
  <2>2. \A x \in Items : times[x] = losses[x] + kept(x) + waits(x)
    BY <1>2, <1>3, Zenon DEF AnalysisInv, WorkIsKept
  <2>3. \A x \in Items : losses[x] \in Nat /\ kept(x) \in Nat /\ waits(x) \in Nat
    BY DEF AnalysisInv
  <2> HIDE DEF kept, next, waits
  <2>4. \A x \in Items : times[x] = losses[x] + next(x) + 0
    BY <2>1, <2>2, <2>3
  <2>5. \A x \in Items : times'[x] = losses'[x] + (IF junk'[x] # NoRow \/ videos'[x] # NoRow
                                                    THEN 1 ELSE 0)
                                       + (IF ~Resting' /\ x \in run'.pending THEN 1 ELSE 0)
    BY <1>4, <1>8, <2>4, Zenon DEF next
  <2> QED BY <1>8, <2>5, Zenon DEF WorkIsKept, NoRow
<1>10. r = last'[r.kind] => (r.seen = r.paths => LastInv(r.kind)')
  <2> SUFFICES ASSUME r = last'[r.kind], r.seen = r.paths PROVE LastInv(r.kind)'
    BY Zenon
  <2>1. (RunShape(r))' /\ (Streamed(r))'
    BY <1>3, <1>4, LibraryStays, Zenon
  <2>2. \A p \in r.paths : (Verdict(r, p))' = Verdict(r, p)
    BY <1>4, LibraryStays, Zenon
  <2>3. r.kind = "junk" => \A p \in r.paths \ r.done : junk'[p] = (Verdict(r, p))'
    <3>1. r.kind = "junk" => \A p \in r.seen \ r.done : junk'[p] = Verdict(r, p)
      BY <1>3, <1>7, SettledWritten
    <3> QED BY <2>2, <3>1, Zenon
  <2>4. r.kind = "video" => \A p \in r.paths \ r.done : videos'[p] = (Verdict(r, p))'
    <3>1. r.kind = "video" => \A p \in r.seen \ r.done : videos'[p] = Verdict(r, p)
      BY <1>3, <1>7, SettledWritten
    <3> QED BY <2>2, <3>1, Zenon
  <2>5. r.kind # "similar" /\ r.kind # "quality"
    BY <1>1, <1>2
  <2> QED BY <1>8, <2>1, <2>3, <2>4, <2>5, Zenon DEF LastInv
<1>11. last' = last \/ (last' = [last EXCEPT ![r.kind] = r]
                        /\ (r = last'[r.kind] => LastInv(r.kind)'))
  BY <1>5, <1>10, Zenon
<1>12. r.kind # "junk" => junk' = junk
  BY <1>1, <1>2, <1>7
<1>13. r.kind # "video" => videos' = videos
  BY <1>1, <1>2, <1>7
<1> QED BY <1>2, <1>3, <1>4, <1>7, <1>9, <1>11, <1>12, <1>13, RunEnds, Zenon

\* The loop has gone on to another item.
LEMMA LoopGoesOn ==
  ASSUME AnalysisInv, ~Resting, NEW R, R = run', R # NoRun,
         R.kind = run.kind, R.kind \in {"junk", "video"},
         RunShape(R), Streamed(R), R.kind = "junk" => Settled(R, junk'), R.kind = "video"
             => Settled(R, videos'),
         library' = library, quality' = quality, groups' = groups, last' = last, losses' = losses,
         R.kind # "junk" => junk' = junk, R.kind # "video" => videos' = videos,
         times' \in [Items -> Nat], RowsInv', WorkIsKept'
  PROVE  AnalysisInv'
<1>1. RunInv'
  <2>1. (RunShape(R))' /\ (Streamed(R))'
    BY LibraryStays, Zenon
  <2>2. R.kind = "junk" => (Settled(run, junk))'
    BY LibraryStays, Zenon
  <2>3. R.kind = "video" => (Settled(run, videos))'
    BY LibraryStays, Zenon
  <2>4. R.kind \notin {"quality", "similar"}
    OBVIOUS
  <2> QED BY <2>1, <2>2, <2>3, <2>4, Zenon DEF RunInv
<1>2. \A k \in Kinds : LastInv(k)'
  <2> TAKE k \in Kinds
  <2>1. LastInv(k)
    BY Zenon DEF AnalysisInv
  <2>2. CASE last[k] = NoRun
    BY <2>2, Zenon DEF LastInv, NoRun
  <2>3. CASE last[k] # NoRun
    <3>1. R.kind # k
      BY <2>1, <2>3, Zenon DEF LastInv
    <3> QED BY <2>1, <3>1, LastRunsStay, Zenon
  <2> QED BY <2>2, <2>3
<1>3. (Items' = Items) /\ (Kinds' = Kinds)
  BY Zenon DEF Items, Kinds
<1> QED BY <1>1, <1>2, <1>3, Zenon DEF AnalysisInv

\* The loop looks at an item, or passes it by.
LEMMA LookStep ==
  ASSUME AnalysisInv, NEW p \in Items, Look(p)
  PROVE  AnalysisInv'
<1>1. run.kind \in {"junk", "video"} /\ p \in run.paths \ run.seen
  BY Zenon DEF Look, OneByOne, Unseen
<1>2. PICK r : r = run
  OBVIOUS
<1>3. /\ ~Resting /\ RunShape(r) /\ r.paths \subseteq Items /\ r.seen \in SUBSET r.paths /\ Streamed(r)
      /\ r.kind = "junk" => Settled(r, junk)
      /\ r.kind = "video" => Settled(r, videos)
      /\ r.kind \in {"junk", "video"} /\ p \in r.paths \ r.seen
           /\ r.seen \cup {p} \in SUBSET r.paths
  BY <1>1, <1>2, RunUnderWay DEF Kinds
<1>4. PICK marks : marks = IF r.kind = "junk" THEN junk ELSE videos
  OBVIOUS
<1>5. Settled(r, marks)
  BY <1>3, <1>4
<1>6. /\ library' = library /\ quality' = quality /\ groups' = groups /\ last' = last
           /\ losses' = losses
  BY Zenon DEF Look
<1>7. Tells(r, p) <=> p \notin r.done /\ IsFlag(Verdict(r, p))
  BY <1>3 DEF Tells
<1>8. Report(r, p) = [item |-> p, reason |-> Verdict(r, p)]
  BY <1>3 DEF Report
<1>9. (Items' = Items) /\ library \in Libraries
  BY <1>6, Zenon DEF Items, AnalysisInv
<1>10. CASE p \in r.done \/ Verdict(r, p) = NoRow
  <2>1. junk' = junk /\ videos' = videos /\ times' = times
        /\ run' = [r EXCEPT !.seen = r.seen \cup {p}]
    BY <1>2, <1>10, Zenon DEF Look
  <2>2. PICK R : R = Onward(r, r.seen \cup {p}, r.pending, r.events, r.stopped)
    OBVIOUS
  <2>3. R = run'
    BY <1>3, <2>1, <2>2, ChangesOfARun, Zenon
  <2>4. R.kind = r.kind /\ R.pending = r.pending
    BY <2>2 DEF Onward
  <2>5. RunShape(R) /\ R # NoRun
    BY <1>3, <2>2, OnwardTells, Zenon
  <2>6. ~Tells(r, p)
    BY <1>7, <1>10 DEF IsFlag
  <2>7. Streamed(R)
    BY <1>3, <2>2, <2>6, StreamGoesOn, Zenon
  <2>8. Settled(R, marks)
    BY <1>3, <1>5, <1>10, <2>2, SettledPassedBy, Zenon
  <2>9. (R.kind = "junk" => Settled(R, junk)) /\ (R.kind = "video" => Settled(R, videos))
    BY <1>4, <2>4, <2>8
  <2> QED BY <1>2, <1>3, <1>6, <2>1, <2>3, <2>4, <2>5, <2>7, <2>9, RunGoesOn, Zenon
<1>11. CASE ~(p \in r.done \/ Verdict(r, p) = NoRow)
  <2> DEFINE pending == r.pending \cup {p}
             kept(x) == IF junk[x] # NoRow \/ videos[x] # NoRow THEN 1 ELSE 0
             waits(x) == IF x \in r.pending THEN 1 ELSE 0
             looked(x) == IF x = p THEN 1 ELSE 0
  <2>1. PICK e : e = IF IsFlag(Verdict(r, p)) THEN Append(r.events, Report(r, p)) ELSE r.events
    OBVIOUS
  <2>0. PICK q : q = IF Cardinality(pending) >= Checkpoint THEN {} ELSE pending
    OBVIOUS
  <2>2. /\ times' = [times EXCEPT ![p] = @ + 1]
        /\ IF Cardinality(pending) >= Checkpoint THEN Flush(pending)
               ELSE junk' = junk /\ videos' = videos
        /\ run' = Onward(r, r.seen \cup {p}, q, e, r.stopped)
    <3>1. run' = [r EXCEPT !.seen = r.seen \cup {p}, !.pending = q, !.events = e]
      BY <1>2, <1>8, <1>11, <2>0, <2>1, Zenon DEF Look
    <3>2. run' = Onward(r, r.seen \cup {p}, q, e, r.stopped)
      <4>1. \A a, b, c : [r EXCEPT !.seen = a, !.pending = b,
                          !.events = c] = Onward(r, a, b, c, r.stopped)
        BY <1>3, ChangesOfARun
      <4> QED BY <3>1, <4>1, Zenon
    <3> QED BY <1>2, <1>8, <1>11, <2>0, <2>1, <3>2, Zenon DEF Look
  <2>3. /\ IsFiniteSet(pending) /\ p \notin r.pending /\ marks[p] = NoRow
        /\ pending \in SUBSET r.paths /\ Cardinality(pending) \in Nat
    <3>1. IsFiniteSet(pending) /\ p \notin r.pending /\ marks[p] = NoRow
      BY <1>3, <1>5, <1>11, FS_AddElement DEF Settled
    <3>2. pending \in SUBSET r.paths
      BY <1>3, <1>5 DEF Settled
    <3> QED BY <3>1, <3>2, FS_CardinalityType
  <2>4. \A w : Streamed(Onward(r, r.seen \cup {p}, w, e, r.stopped))
    <3> TAKE w
    <3>1. CASE Tells(r, p)
      <4>1. e = Append(r.events, Report(r, p))
        BY <1>7, <2>1, <3>1, Zenon
      <4> QED BY <1>3, <3>1, <4>1, StreamGoesOn, Zenon
    <3>2. CASE ~Tells(r, p)
      <4>1. e = r.events
        BY <1>7, <1>11, <2>1, <3>2, Zenon
      <4> QED BY <1>3, <3>2, <4>1, StreamGoesOn, Zenon
    <3> QED BY <3>1, <3>2
  <2>5. \A w : /\ RunShape(Onward(r, r.seen \cup {p}, w, e, r.stopped))
               /\ Onward(r, r.seen \cup {p}, w, e, r.stopped) # NoRun
    BY <1>3, OnwardTells, Zenon
  <2>6. /\ times' \in [Items -> Nat]
        /\ \A x \in Items : times'[x] = times[x] + looked(x)
    BY <2>2 DEF AnalysisInv
  <2>7. \A x \in Items : times[x] = losses[x] + kept(x) + waits(x)
    BY <1>2, <1>3, Zenon DEF AnalysisInv, WorkIsKept
  <2>8. \A x \in Items : times[x] \in Nat /\ losses[x] \in Nat /\ kept(x) \in Nat /\ waits(x) \in Nat /\ looked(x) \in Nat
    BY DEF AnalysisInv
  <2>9. \A x \in Items : (IF x \in pending THEN 1 ELSE 0) = waits(x) + looked(x)
    BY <2>3
  <2>10. CASE Cardinality(pending) >= Checkpoint
    <3>1. PICK R : R = Onward(r, r.seen \cup {p}, {}, e, r.stopped)
      OBVIOUS
    <3>2. R = run'
      BY <2>0, <2>2, <2>10, <3>1, Zenon
    <3>3. R.kind = r.kind /\ R.pending = {}
      BY <3>1 DEF Onward
    <3>4. Flush(pending)
      BY <2>2, <2>10, Zenon
    <3> HIDE DEF pending
    <3>5. /\ RowsInv'
          /\ r.kind = "junk" => /\ videos' = videos
                                /\ \A x \in Items : junk'[x] = IF x \in pending THEN Verdict(r, x)
                                       ELSE junk[x]
          /\ r.kind = "video" => /\ junk' = junk
                                 /\ \A x \in Items : videos'[x] = IF x \in pending
                                        THEN Verdict(r, x) ELSE videos[x]
      BY <1>2, <1>3, <1>6, <2>3, <3>4, RowsAfterFlush
    <3>6. \A new : (\A x \in r.paths : new[x] = IF x \in pending THEN Verdict(r, x) ELSE marks[x])
              => Settled(R, new)
      <4> SUFFICES ASSUME NEW new, \A x \in r.paths : new[x] = IF x \in r.pending \cup {p}
              THEN Verdict(r, x) ELSE marks[x]
                   PROVE  Settled(Onward(r, r.seen \cup {p}, {}, e, r.stopped), new)
        BY <3>1, Zenon DEF pending
      <4>1. p \notin r.done /\ Verdict(r, p) # NoRow
        BY <1>11
      <4> QED BY <1>3, <1>5, <4>1, SettledLooks
    <3>7. r.kind = "junk" => Settled(R, junk')
      BY <1>3, <1>4, <3>5, <3>6
    <3>8. r.kind = "video" => Settled(R, videos')
      BY <1>3, <1>4, <3>5, <3>6
    <3>9. \A x \in pending : Verdict(r, x) # NoRow /\ (IF r.kind = "junk" THEN junk[x]
                                                        ELSE videos[x]) = NoRow
      <4>1. \A x \in pending : Verdict(r, x) # NoRow /\ marks[x] = NoRow
        BY <1>5, <1>11, <2>3 DEF Settled, pending
      <4> QED BY <1>4, <4>1
    <3> DEFINE next(x) == IF junk'[x] # NoRow \/ videos'[x] # NoRow THEN 1 ELSE 0
    <3>10. \A x \in Items : next(x) = kept(x) + (IF x \in pending THEN 1 ELSE 0)
      BY <1>2, <1>3, <1>6, <2>3, <3>4, <3>9, WorkAfterFlush
    <3> HIDE DEF kept, waits, looked, next
    <3>11. \A x \in Items : times'[x] = losses[x] + next(x) + 0
      <4> TAKE x \in Items
      <4>1. next(x) = kept(x) + (waits(x) + looked(x))
        BY <2>9, <3>10, Zenon
      <4> QED BY <2>6, <2>7, <2>8, <4>1
    <3>12. ~Resting' /\ run'.pending = {} /\ Cardinality({}) < Checkpoint
      <4>1. Cardinality({}) < Checkpoint
        BY FS_EmptySet, AnalysisAssumption
      <4> QED BY <2>5, <3>1, <3>2, <3>3, <4>1, Zenon DEF Resting, NoRun
    <3>13. WorkIsKept'
      <4>1. \A x \in Items : times'[x] = losses'[x] + (IF junk'[x] # NoRow \/ videos'[x] # NoRow
                                                        THEN 1 ELSE 0)
                                           + (IF ~Resting' /\ x \in run'.pending THEN 1 ELSE 0)
        <5> TAKE x \in Items
        <5>1. ~(~Resting' /\ x \in run'.pending)
          BY <3>12
        <5> QED BY <1>6, <3>11, <5>1, Zenon DEF next
      <4> QED BY <1>9, <3>12, <4>1, Zenon DEF WorkIsKept, NoRow
    <3>14. (R.kind # "junk" => junk' = junk) /\ (R.kind # "video" => videos' = videos)
      BY <1>3, <3>3, <3>5
    <3>15. Streamed(R) /\ RunShape(R) /\ R # NoRun
      BY <2>4, <2>5, <3>1, Zenon
    <3> QED BY <1>2, <1>3, <1>6, <2>6, <3>2, <3>3, <3>5, <3>7, <3>8, <3>13, <3>14, <3>15,
         LoopGoesOn, Zenon
  <2>11. CASE ~(Cardinality(pending) >= Checkpoint)
    <3>1. PICK R : R = Onward(r, r.seen \cup {p}, pending, e, r.stopped)
      OBVIOUS
    <3>2. R = run'
      BY <2>0, <2>2, <2>11, <3>1, Zenon
    <3>3. R.kind = r.kind /\ R.pending = pending
      BY <3>1 DEF Onward
    <3>4. junk' = junk /\ videos' = videos
      BY <2>2, <2>11, Zenon
    <3>5. Cardinality(pending) < Checkpoint
      BY <2>3, <2>11, AnalysisAssumption
    <3>6. Settled(R, marks)
      BY <1>3, <1>5, <1>11, <3>1, <3>5, SettledWaits, Zenon
    <3>7. (r.kind = "junk" => Settled(R, junk')) /\ (r.kind = "video" => Settled(R, videos'))
      BY <1>4, <3>4, <3>6
    <3>8. RowsInv'
      BY <1>6, <3>4, RowsStay, Zenon DEF AnalysisInv
    <3>9. ~Resting'
      BY <2>5, <3>1, <3>2, Zenon DEF Resting, NoRun
    <3>10. WorkIsKept'
      <4> HIDE DEF kept, waits, looked
      <4>1. \A x \in Items : times'[x] = losses[x] + kept(x) + (IF x \in pending THEN 1 ELSE 0)
        <5> TAKE x \in Items
        <5>1. PICK n : n = IF x \in pending THEN 1 ELSE 0
          OBVIOUS
        <5>2. n = waits(x) + looked(x)
          BY <2>9, <5>1, Zenon
        <5>3. times'[x] = losses[x] + kept(x) + n
          BY <2>6, <2>7, <2>8, <5>2
        <5> QED BY <5>1, <5>3, Zenon
      <4>2. \A x \in Items : times'[x] = losses'[x] + (IF junk'[x] # NoRow \/ videos'[x] # NoRow
                                                        THEN 1 ELSE 0)
                                           + (IF ~Resting' /\ x \in run'.pending THEN 1 ELSE 0)
        BY <1>6, <3>2, <3>3, <3>4, <3>9, <4>1, Zenon DEF kept
      <4> QED BY <1>9, <3>2, <3>3, <3>5, <4>2, Zenon DEF WorkIsKept, NoRow
    <3>11. Streamed(R) /\ RunShape(R) /\ R # NoRun
      BY <2>4, <2>5, <3>1, Zenon
    <3> QED BY <1>2, <1>3, <1>6, <2>6, <3>2, <3>3, <3>4, <3>7, <3>8, <3>10, <3>11, LoopGoesOn, Zenon
  <2> QED BY <2>10, <2>11
<1> QED BY <1>10, <1>11

\* Each group of a run has a photo that the run covers.
LEMMA NewGroupsReach ==
  ASSUME library \in Libraries
  PROVE  \A g \in NewGroups : \E m \in g.members : m.item \in run.paths
<1> DEFINE clusters == FindSimilarImages(run.paths, library)
<1>1. Len(library) \in Nat
  BY CoversItems
<1>2. clusters \in Seq(Seq(run.paths))
  <2>1. Len(library) \in 0 .. Len(library)
    BY <1>1
  <2> QED BY <1>1, <2>1, ClustersAreOfThePaths DEF FindSimilarImages
<1> HIDE DEF clusters
<1> SUFFICES ASSUME NEW g \in NewGroups PROVE \E m \in g.members : m.item \in run.paths
  OBVIOUS
<1>3. PICK i \in Survivors(clusters) : g.members = {Scored(p) : p \in Kept(clusters[i])}
  <2>1. PICK i \in Survivors(clusters) : \E n, k :
          g = [id |-> n, members |-> {Scored(p) : p \in Kept(clusters[i])}, keeper |-> k]
    BY Zenon DEF NewGroups, clusters
  <2>2. g.members = {Scored(p) : p \in Kept(clusters[i])}
    BY <2>1
  <2> QED BY <2>2
<1>4. i \in DOMAIN clusters /\ Cardinality(Kept(clusters[i])) >= 2
  BY DEF Survivors
<1>5. clusters[i] \in Seq(run.paths)
  BY <1>2, <1>4, LenProperties, ElementOfSeq
<1>6. Kept(clusters[i]) \subseteq run.paths
  BY <1>5, LenProperties, ElementOfSeq DEF Kept, ToSet
<1>7. Kept(clusters[i]) # {}
  BY <1>4, FS_EmptySet
<1>8. PICK p \in Kept(clusters[i]) : TRUE
  BY <1>7
<1>9. Scored(p).item = p
  BY DEF Scored
<1> QED BY <1>3, <1>6, <1>8, <1>9

\* The groups are written.
LEMMA WriteGroupsStep ==
  ASSUME AnalysisInv, WriteGroups
  PROVE  AnalysisInv'
<1>1. run.kind = "similar"
  BY Zenon DEF WriteGroups
<1>2. PICK r : r = run
  OBVIOUS
<1>3. ~Resting /\ RunShape(r) /\ r.seen \in SUBSET r.paths /\ r.pending = {} /\ r.kind = "similar"
  BY <1>1, <1>2, RunUnderWay DEF Kinds
<1>4. PICK new : new = NewGroups
  OBVIOUS
<1>5. PICK whole : whole = Onward(r, r.seen, r.pending, new, r.stopped)
  OBVIOUS
<1>6. RunShape(whole) /\ whole.kind = "similar" /\ whole.paths = r.paths /\ whole.events = new
  <2>1. whole.kind = r.kind /\ whole.paths = r.paths /\ whole.events = new
    BY <1>5 DEF Onward
  <2> QED BY <1>3, <1>5, <2>1, OnwardTells, Zenon
<1>7. /\ library' = library /\ quality' = quality /\ junk' = junk /\ videos' = videos
      /\ times' = times /\ losses' = losses /\ run' = NoRun
      /\ groups' = {g \in groups : ~Stale(g)} \cup new
  BY <1>4, Zenon DEF WriteGroups
<1>8. last' = last \/ last' = [last EXCEPT !["similar"] = whole]
  <2>1. [r EXCEPT !.events = new] = whole
    BY <1>3, <1>5, ChangesOfARun, Zenon
  <2>2. last' = last \/ last' = [last EXCEPT !["similar"] = [r EXCEPT !.events = new]]
    BY <1>2, <1>4, Zenon DEF WriteGroups
  <2> QED BY <2>1, <2>2, Zenon
<1>9. Resting'
  BY <1>7, Zenon DEF Resting, NoRun
<1>10. RowsInv' /\ WorkIsKept'
  <2>1. \A p \in Items : (~Resting' /\ p \in run'.pending) <=> (~Resting /\ p \in run.pending)
    BY <1>2, <1>3, <1>9, Zenon
  <2> QED BY <1>7, <1>9, <2>1, RowsStay, WorkStays, Zenon DEF AnalysisInv
<1>11. (Reaching(r.paths))' = new
  <2>1. \A g \in new : \E m \in g.members : m.item \in r.paths
    BY <1>2, <1>4, NewGroupsReach, Zenon DEF AnalysisInv
  <2>2. \A g \in groups : ~Stale(g) => ~ \E m \in g.members : m.item \in r.paths
    <3>1. r.request.scope = {} \/ r.paths \subseteq r.request.scope
      <4>1. r.paths = Covers(r.request)
        BY <1>3, Zenon DEF RunShape
      <4> QED BY <4>1 DEF Covers
    <3> QED BY <1>2, <3>1 DEF Stale
  <2>3. (Reaching(r.paths))' = {g \in groups' : \E m \in g.members : m.item \in r.paths}
    BY Zenon DEF Reaching
  <2> QED BY <1>7, <2>1, <2>2, <2>3
<1>12. whole = last'["similar"] => LastInv("similar")'
  <2>1. (RunShape(whole))'
    BY <1>6, <1>7, LibraryStays, Zenon
  <2>2. (Reaching(whole.paths))' = whole.events
    BY <1>6, <1>11, Zenon
  <2>3. "similar" # "quality" /\ "similar" # "junk" /\ "similar" # "video"
    OBVIOUS
  <2> QED BY <1>6, <1>9, <2>1, <2>2, <2>3, Zenon DEF LastInv
<1>13. last' = last \/ (last' = [last EXCEPT !["similar"] = whole]
                        /\ (whole = last'["similar"] => LastInv("similar")'))
  BY <1>8, <1>12, Zenon
<1> QED BY <1>1, <1>3, <1>7, <1>10, <1>13, RunEnds, Zenon

\* The invariant holds from the start and every step keeps it.
LEMMA AnalysisInvariant == AnalysisSpec => []AnalysisInv
<1>1. AnalysisInit => AnalysisInv
  <2> SUFFICES ASSUME AnalysisInit PROVE AnalysisInv
    OBVIOUS
  <2>1. Resting /\ \A k \in Kinds : last[k] = NoRun
    BY DEF AnalysisInit, Resting
  <2>2. RunInv /\ \A k \in Kinds : LastInv(k)
    BY <2>1, Zenon DEF RunInv, LastInv
  <2>3. RowsInv
    BY DEF AnalysisInit, RowsInv
  <2>4. WorkIsKept
    BY <2>1 DEF AnalysisInit, WorkIsKept
  <2> QED BY <2>2, <2>3, <2>4 DEF AnalysisInit, AnalysisInv
<1>2. AnalysisInv /\ [AnalysisNext]_analysisVars => AnalysisInv'
  <2> SUFFICES ASSUME AnalysisInv, [AnalysisNext]_analysisVars PROVE AnalysisInv'
    OBVIOUS
  <2>1. ASSUME NEW request \in Requests, BeginAnalysis(request) PROVE AnalysisInv'
    BY <2>1, BeginStep
  <2>2. ASSUME NEW p \in Items, Measure(p) \/ Look(p) PROVE AnalysisInv'
    BY <2>2, MeasureStep, LookStep
  <2>3. CASE Stop \/ WriteQuality \/ WriteGroups \/ Finish \/ Fail \/ ModelArrives
    BY <2>3, StopStep, WriteQualityStep, WriteGroupsStep, FinishStep, FailStep, ModelStep
  <2>4. CASE UNCHANGED analysisVars
    <3>1. /\ library' = library /\ quality' = quality /\ groups' = groups
               /\ junk' = junk /\ videos' = videos
          /\ last' = last /\ times' = times /\ losses' = losses /\ run' = run
      BY <2>4, Zenon DEF analysisVars, session, ghosts
    <3> QED BY <3>1, UnchangedStep, Zenon
  <2> QED BY <2>1, <2>2, <2>3, <2>4, Zenon DEF AnalysisNext
<1> QED BY <1>1, <1>2, PTL DEF AnalysisSpec

\* WorkIsKept for every library, request and checkpoint: a stop loses no classification,
\* none is made twice, and fewer than a checkpoint wait.
THEOREM WorkKept == AnalysisSpec => []WorkIsKept
<1>1. AnalysisInv => WorkIsKept
  BY Zenon DEF AnalysisInv
<1> QED BY <1>1, AnalysisInvariant, PTL

------------------------------------------------------------------------------
(* Analysis: what a resume shows, and what a preview counts.                  *)

\* The bits of a row give back the reasons that they were made of.
LEMMA MaskGivesReasons ==
  ASSUME NEW R \in SUBSET {"blurry", "under", "over"}
  PROVE  /\ ReasonsOf(ReasonsBitmask(R)) = R
         /\ ReasonsBitmask(R) = 0 <=> R = {}
<1>1. Bit["blurry"] = 1 /\ Bit["under"] = 2 /\ Bit["over"] = 4
      /\ DOMAIN Bit = {"blurry", "under", "over"}
  BY DEF Bit
<1> DEFINE b == IF "blurry" \in R THEN 1 ELSE 0
           u == IF "under" \in R THEN 2 ELSE 0
           o == IF "over" \in R THEN 4 ELSE 0
           n == b + u + o
<1>2. ReasonsBitmask(R) = n
  BY <1>1 DEF ReasonsBitmask
<1>3. b \in {0, 1} /\ u \in {0, 2} /\ o \in {0, 4}
  OBVIOUS
<1>4. ("blurry" \in R <=> b = 1) /\ ("under" \in R <=> u = 2) /\ ("over" \in R <=> o = 4)
  OBVIOUS
<1> HIDE DEF b, u, o
<1>5. n = 0 <=> b = 0 /\ u = 0 /\ o = 0
  BY <1>3
<1>6. /\ (n \div 1) % 2 = 1 <=> b = 1
      /\ (n \div 2) % 2 = 1 <=> u = 2
      /\ (n \div 4) % 2 = 1 <=> o = 4
  BY <1>3
<1>7. n = 0 <=> R = {}
  <2>1. R = {} <=> "blurry" \notin R /\ "under" \notin R /\ "over" \notin R
    OBVIOUS
  <2> QED BY <1>3, <1>4, <1>5, <2>1
<1> HIDE DEF n
<1>8. ReasonsOf(n) = R
  <2>1. \A r \in {"blurry", "under", "over"} : (n \div Bit[r]) % 2 = 1 <=> r \in R
    BY <1>1, <1>4, <1>6
  <2>2. ReasonsOf(n) = {r \in {"blurry", "under", "over"} : (n \div Bit[r]) % 2 = 1}
    BY <1>1, Zenon DEF ReasonsOf
  <2> QED BY <2>1, <2>2
<1> QED BY <1>2, <1>7, <1>8

\* A stored row has the measures of its photo, which give the same reasons.
LEMMA RowsHaveTheMeasures ==
  ASSUME NEW p, NEW t0
  PROVE  LET row == QualityRow(p, t0)
             m == Metrics(library[p])
         IN /\ row.under = m.under /\ row.over = m.over /\ row.peak = m.peak
            /\ row.mask = ReasonsBitmask(QualityReasons(m, t0))
            /\ \A t : QualityReasons(row, t) = QualityReasons(m, t)
            /\ \A t : QualityReasons(m, t) \in SUBSET {"blurry", "under", "over"}
<1> DEFINE row == QualityRow(p, t0)
           m == Metrics(library[p])
<1>1. /\ row.lap = m.lap /\ row.under = m.under /\ row.over = m.over /\ row.peak = m.peak
      /\ row.mask = ReasonsBitmask(QualityReasons(m, t0))
  BY DEF QualityRow
<1> HIDE DEF row, m
<1>2. ASSUME NEW t
      PROVE  /\ IsUnderexposed(row, t) <=> IsUnderexposed(m, t)
             /\ IsOverexposed(row, t) <=> IsOverexposed(m, t)
  BY <1>1, Zenon DEF IsUnderexposed, IsOverexposed
<1>3. \A t : IsBlurry(row, t) <=> IsBlurry(m, t)
  BY <1>1, <1>2, Zenon DEF IsBlurry
<1>4. \A t : QualityReasons(row, t) = QualityReasons(m, t)
  BY <1>2, <1>3, Zenon DEF QualityReasons
<1>5. \A t : QualityReasons(m, t) \in SUBSET {"blurry", "under", "over"}
  BY Zenon DEF QualityReasons
<1> QED BY <1>1, <1>4, <1>5 DEF row, m

\* What is known of the rows under the last whole run of the quality pass.
LEMMA RowsOfTheQualityRun ==
  ASSUME AnalysisInv, last["quality"] # NoRun, NEW r, r = last["quality"]
  PROVE  /\ r.kind = "quality" /\ Streamed(r) /\ r.seen = r.paths
         /\ r.paths = {p \in Items : library[p].kind = "photo"
                       /\ (r.request.scope = {} \/ p \in r.request.scope)}
         /\ \A p \in r.paths : quality[p] # <<>> <=> library[p].readable
         /\ \A p \in r.paths : library[p].readable
                => quality[p] = <<QualityRow(p, r.request.thresholds)>>
         /\ \A p \in Items : quality[p] # <<>> => library[p].kind = "photo"
<1>1. LastInv("quality") /\ RowsInv
  BY Zenon DEF AnalysisInv, Kinds
<1>2. /\ RunShape(r) /\ r.kind = "quality" /\ Streamed(r) /\ r.seen = r.paths
      /\ \A p \in r.paths : library[p].readable
             => quality[p] = <<QualityRow(p, r.request.thresholds)>>
  <2>1. "quality" # "similar"
    OBVIOUS
  <2> QED BY <1>1, <2>1, Zenon DEF LastInv
<1>3. r.paths = {p \in Items : library[p].kind = "photo"
                 /\ (r.request.scope = {} \/ p \in r.request.scope)}
  <2>1. r.paths = Covers(r.request) /\ r.request.kind = "quality"
    BY <1>2, Zenon DEF RunShape
  <2> DEFINE wanted == CASE r.request.kind = "similar" -> {"photo", "video"}
                         [] r.request.kind = "video" -> {"video"}
                         [] OTHER -> {"photo"}
  <2>2. wanted = {"photo"}
    BY <2>1
  <2>3. Covers(r.request) = {p \in Items : library[p].kind \in wanted
                                            /\ (r.request.scope = {} \/ p \in r.request.scope)}
    BY Zenon DEF Covers
  <2> HIDE DEF wanted
  <2> QED BY <2>1, <2>2, <2>3
<1>4. \A p \in r.paths : quality[p] # <<>> <=> library[p].readable
  <2> TAKE p \in r.paths
  <2>1. p \in Items
    BY <1>3
  <2>2. quality[p] # <<>> => library[p].readable
    BY <1>1, <2>1, Zenon DEF RowsInv
  <2>3. \A x : <<x>> # <<>>
    OBVIOUS
  <2> QED BY <1>2, <2>2, <2>3
<1> QED BY <1>1, <1>2, <1>3, <1>4 DEF RowsInv

\* A function that is one to one counts.
LEMMA OneToOneCounts ==
  ASSUME NEW S, IsFiniteSet(S), NEW T, NEW f \in [S -> T],
         \A i, j \in S : f[i] = f[j] => i = j, \A t \in T : \E i \in S : f[i] = t
  PROVE  Cardinality(T) = Cardinality(S)
<1>1. f \in Bijection(S, T)
  BY DEF Bijection, Injection, Surjection, IsInjective
<1> QED BY <1>1, FS_Bijection DEF ExistsBijection

\* The stream of a run has one event for each item it tells of.
LEMMA StreamCounts ==
  ASSUME NEW r, Streamed(r), NEW T \in SUBSET r.seen, \A p \in T : Tells(r, p)
  PROVE  Cardinality(T) = Cardinality({i \in DOMAIN r.events : r.events[i].item \in T})
<1> DEFINE I == {i \in DOMAIN r.events : r.events[i].item \in T}
           f == [i \in I |-> r.events[i].item]
<1>1. \A p : Report(r, p).item = p
  BY DEF Report, Flag
<1>2. DOMAIN r.events = 1 .. Len(r.events) /\ Len(r.events) \in Nat
  <2>1. r.events \in Seq(Reports(r))
    BY DEF Streamed
  <2> QED BY <2>1, LenProperties
<1>3. IsFiniteSet(I)
  <2>1. IsFiniteSet(1 .. Len(r.events)) /\ I \subseteq 1 .. Len(r.events)
    BY <1>2, FS_Interval
  <2> QED BY <2>1, FS_Subset
<1>4. \A i, j \in I : f[i] = f[j] => i = j
  BY DEF Streamed
<1>5. \A t \in T : \E i \in I : f[i] = t
  BY <1>1 DEF Streamed
<1>6. f \in [I -> T]
  OBVIOUS
<1> HIDE DEF f, I
<1>7. Cardinality(T) = Cardinality(I)
  BY <1>3, <1>4, <1>5, <1>6, OneToOneCounts
<1> QED BY <1>7 DEF I

\* The preview over the stored rows counts what the run has told.
LEMMA PreviewIsOfTheRun == AnalysisInv => PreviewCountsTheRun
<1> SUFFICES ASSUME AnalysisInv, last["quality"] # NoRun PROVE PreviewCountsTheRun
  BY DEF PreviewCountsTheRun
<1>1. PICK r : r = last["quality"]
  OBVIOUS
<1> DEFINE t == r.request.thresholds
           scope == r.request.scope
           marks == {p \in Items : quality[p] # <<>> /\ (scope = {} \/ p \in scope)}
           reasons(p) == QualityReasons(Metrics(library[p]), t)
           With(x) == {p \in marks : x \in QualityReasons(quality[p][1], t)}
           preview == Preview(scope, t)
<1>2. /\ r.kind = "quality" /\ Streamed(r) /\ r.seen = r.paths
      /\ r.paths = {p \in Items : library[p].kind = "photo" /\ (scope = {} \/ p \in scope)}
      /\ \A p \in r.paths : quality[p] # <<>> <=> library[p].readable
      /\ \A p \in r.paths : library[p].readable => quality[p] = <<QualityRow(p, t)>>
      /\ \A p \in Items : quality[p] # <<>> => library[p].kind = "photo"
  BY <1>1, RowsOfTheQualityRun, Zenon
<1>3. marks = {p \in r.paths : library[p].readable}
  BY <1>2
<1>4. /\ preview.flagged = Cardinality(UNION {With(x) : x \in DOMAIN Bit})
      /\ \A x \in DOMAIN Bit : preview.reasons[x] = Cardinality(With(x))
  BY DEF Preview
<1>5. \A x : With(x) = {p \in marks : x \in reasons(p)}
  <2>1. \A p \in marks : QualityReasons(quality[p][1], t) = reasons(p)
    <3> TAKE p \in marks
    <3>1. quality[p][1] = QualityRow(p, t)
      <4>1. quality[p] = <<QualityRow(p, t)>>
        BY <1>2, <1>3
      <4> HIDE DEF t
      <4> QED BY <4>1
    <3>2. \A a, b : QualityReasons(QualityRow(p, a), b) = QualityReasons(Metrics(library[p]), b)
      BY RowsHaveTheMeasures
    <3>3. QualityReasons(QualityRow(p, t), t) = reasons(p)
      BY <3>2
    <3> HIDE DEF t, reasons
    <3> QED BY <3>1, <3>3
  <2> HIDE DEF marks, reasons
  <2> QED BY <2>1
<1>6. /\ DOMAIN Bit = {"blurry", "under", "over"}
      /\ \A p : reasons(p) \in SUBSET {"blurry", "under", "over"}
  <2>1. \A p : reasons(p) \in SUBSET {"blurry", "under", "over"}
    BY RowsHaveTheMeasures, Zenon
  <2> QED BY <2>1 DEF Bit
<1>7. \A p : Tells(r, p) <=> library[p].readable /\ reasons(p) # {}
  BY <1>2 DEF Tells, Flag
<1>8. \A p : Report(r, p).item = p /\ Report(r, p).reasons = reasons(p)
  BY <1>2 DEF Report, Flag
<1> HIDE DEF marks, reasons, t, scope
<1> DEFINE found == r.events
           told == {p \in marks : reasons(p) # {}}
<1>9. told = UNION {With(x) : x \in DOMAIN Bit}
  <2> HIDE DEF With
  <2>1. \A p : p \in told <=> \E x \in DOMAIN Bit : p \in With(x)
    BY <1>5, <1>6
  <2> QED BY <2>1, Zenon
<1>10. \A T \in SUBSET told : Cardinality(T) = Cardinality({i \in DOMAIN found :
                                                             found[i].item \in T})
  <2> TAKE T \in SUBSET told
  <2>1. T \in SUBSET r.seen /\ \A p \in T : Tells(r, p)
    BY <1>2, <1>3, <1>7
  <2> QED BY <1>2, <2>1, StreamCounts
<1>11. \A i \in DOMAIN found : \E p \in told : found[i].item = p /\ found[i].reasons = reasons(p)
  <2> TAKE i \in DOMAIN found
  <2>1. PICK p \in r.seen : Tells(r, p) /\ found[i] = Report(r, p)
    BY <1>2, Zenon DEF Streamed
  <2> QED BY <1>2, <1>3, <1>7, <1>8, <2>1
<1>12. preview.flagged = Len(found)
  <2>1. DOMAIN found = 1 .. Len(found) /\ Len(found) \in Nat
    <3>1. found \in Seq(Reports(r))
      BY <1>2 DEF Streamed
    <3> QED BY <3>1, LenProperties
  <2>2. {i \in DOMAIN found : found[i].item \in told} = DOMAIN found
    BY <1>11
  <2> HIDE DEF found, told
  <2>3. Cardinality(1 .. Len(found)) = Len(found)
    <3>1. PICK n \in Nat : n = Len(found)
      BY <2>1
    <3>2. Cardinality(1 .. n) = IF 1 > n THEN 0 ELSE n - 1 + 1
      BY FS_Interval
    <3> QED BY <3>1, <3>2
  <2> QED BY <1>4, <1>9, <1>10, <2>1, <2>2, <2>3
<1>13. \A x \in DOMAIN Bit : preview.reasons[x] = Cardinality({i \in DOMAIN found :
                                                                x \in found[i].reasons})
  <2> TAKE x \in DOMAIN Bit
  <2>1. With(x) \in SUBSET told
    BY <1>5
  <2>2. {i \in DOMAIN found : found[i].item \in With(x)} = {i \in DOMAIN found :
                                                             x \in found[i].reasons}
    BY <1>5, <1>11
  <2> HIDE DEF With, told, found
  <2> QED BY <1>4, <1>10, <2>1, <2>2
<1> QED BY <1>1, <1>12, <1>13, Zenon DEF PreviewCountsTheRun, t, scope

\* PreviewCountsTheRun for every library and every thresholds: the preview over the stored
\* measures says of a scope what a run with those thresholds has found in it.
THEOREM PreviewsAreTrue == AnalysisSpec => []PreviewCountsTheRun
BY AnalysisInvariant, PreviewIsOfTheRun, PTL

\* What the rows of the quality pass give back is what its last run told.
LEMMA QualityResumes ==
  ASSUME AnalysisInv, last["quality"] # NoRun
  PROVE  Told("quality") = {flag \in Flags("quality") : flag.item \in Looked("quality")}
<1>1. PICK r : r = last["quality"]
  OBVIOUS
<1> DEFINE t == r.request.thresholds
           Shown(p) == [item |-> p, reasons |-> ReasonsOf(quality[p][1].mask), sharpness |-> quality[p][1].peak,
                        exposure |-> ExposureScore(quality[p][1].under, quality[p][1].over)]
           marked == {q \in Items : quality[q] # <<>> /\ quality[q][1].mask # 0}
<1>2. /\ r.kind = "quality" /\ Streamed(r) /\ r.seen = r.paths
      /\ r.paths \subseteq Items
      /\ \A p \in r.paths : quality[p] # <<>> <=> library[p].readable
      /\ \A p \in r.paths : library[p].readable => quality[p] = <<QualityRow(p, t)>>
  <2>1. r.paths = {p \in Items : library[p].kind = "photo"
                   /\ (r.request.scope = {} \/ p \in r.request.scope)}
    BY <1>1, RowsOfTheQualityRun, Zenon
  <2>2. r.paths \subseteq Items
    BY <2>1
  <2> QED BY <1>1, <2>2, RowsOfTheQualityRun, Zenon
<1>3. Flags("quality") = {Shown(p) : p \in marked}
  BY DEF Flags, Results
<1>4. Told("quality") = {r.events[i] : i \in DOMAIN r.events} /\ Looked("quality") = r.paths
  BY <1>1 DEF Told, Looked, ToSet
<1>5. \A p \in r.paths : library[p].readable =>
        /\ quality[p][1].mask # 0 <=> Flag(p, t).reasons # {}
        /\ Shown(p) = Flag(p, t)
  <2> SUFFICES ASSUME NEW p \in r.paths, library[p].readable
               PROVE  /\ quality[p][1].mask # 0 <=> Flag(p, t).reasons # {}
                      /\ Shown(p) = Flag(p, t)
    OBVIOUS
  <2> DEFINE m == Metrics(library[p])
             reasons == QualityReasons(m, t)
             row == QualityRow(p, t)
  <2>1. quality[p][1] = row
    <3>1. quality[p] = <<row>>
      BY <1>2
    <3> HIDE DEF row
    <3> QED BY <3>1
  <2>2. /\ row.under = m.under /\ row.over = m.over /\ row.peak = m.peak
        /\ row.mask = ReasonsBitmask(reasons) /\ reasons \in SUBSET {"blurry", "under", "over"}
    BY RowsHaveTheMeasures, Zenon
  <2>3. ReasonsOf(row.mask) = reasons /\ (row.mask = 0 <=> reasons = {})
    <3> HIDE DEF row, reasons
    <3> QED BY <2>2, MaskGivesReasons
  <2>4. Flag(p, t) = [item |-> p, reasons |-> reasons, sharpness |-> m.peak, exposure |-> ExposureScore(m.under, m.over)]
    BY Zenon DEF Flag
  <2> HIDE DEF row, reasons, m, t
  <2>5. Shown(p) = Flag(p, t)
    BY <2>1, <2>2, <2>3, <2>4
  <2>6. Flag(p, t).reasons = reasons
    BY <2>4
  <2> QED BY <2>1, <2>3, <2>5, <2>6
<1>6. \A p : Tells(r, p) <=> library[p].readable /\ Flag(p, t).reasons # {}
  BY <1>2, Zenon DEF Tells
<1>7. \A p : Report(r, p) = Flag(p, t)
  BY <1>2, Zenon DEF Report
<1>8. \A p \in r.paths : p \in marked <=> Tells(r, p)
  BY <1>2, <1>5, <1>6
<1>9. \A p : Shown(p).item = p
  OBVIOUS
<1>10. \A p \in r.paths : Tells(r, p) => Shown(p) = Report(r, p)
  BY <1>5, <1>6, <1>7, Zenon
<1> HIDE DEF Shown, marked, t
<1>11. \A e : e \in {r.events[i] : i \in DOMAIN r.events}
           <=> \E p \in r.paths : Tells(r, p) /\ e = Report(r, p)
  BY <1>2 DEF Streamed
<1>12. \A e : e \in {flag \in {Shown(p) : p \in marked} : flag.item \in r.paths}
                <=> \E p \in r.paths : Tells(r, p) /\ e = Report(r, p)
  <2> TAKE e
  <2>1. ASSUME NEW p \in marked, e = Shown(p), e.item \in r.paths
        PROVE  \E q \in r.paths : Tells(r, q) /\ e = Report(r, q)
    BY <1>8, <1>9, <1>10, <2>1
  <2>2. ASSUME NEW p \in r.paths, Tells(r, p), e = Report(r, p)
        PROVE  e \in {flag \in {Shown(q) : q \in marked} : flag.item \in r.paths}
    BY <1>8, <1>9, <1>10, <2>2
  <2> QED BY <2>1, <2>2
<1> QED BY <1>3, <1>4, <1>11, <1>12

\* What the rows of the junk and video passes give back is what their last runs told.
LEMMA LoopsResume ==
  ASSUME AnalysisInv, NEW k \in {"junk", "video"}, last[k] # NoRun
  PROVE  Told(k) = {flag \in Flags(k) : flag.item \in Looked(k)}
<1>1. PICK r : r = last[k]
  OBVIOUS
<1>2. PICK marks : marks = IF k = "junk" THEN junk ELSE videos
  OBVIOUS
<1> DEFINE Shown(p) == [item |-> p, reason |-> marks[p]]
           marked == {q \in Items : IsFlag(marks[q])}
<1>3. /\ r.kind = k /\ Streamed(r) /\ r.seen = r.paths /\ RunShape(r)
      /\ \A p \in r.paths \ r.done : marks[p] = Verdict(r, p)
  <2>1. LastInv(k)
    BY DEF AnalysisInv, Kinds
  <2>2. k # "similar" /\ k # "quality"
    OBVIOUS
  <2>3. /\ r.kind = k /\ Streamed(r) /\ r.seen = r.paths /\ RunShape(r)
        /\ k = "junk" => \A p \in r.paths \ r.done : junk[p] = Verdict(r, p)
        /\ k = "video" => \A p \in r.paths \ r.done : videos[p] = Verdict(r, p)
    BY <1>1, <2>1, <2>2, Zenon DEF LastInv
  <2> QED BY <1>2, <2>3
<1>4. r.paths \subseteq Items
  BY <1>3, CoversItems DEF AnalysisInv
<1>5. Flags(k) = {Shown(p) : p \in marked}
  <2>1. CASE k = "junk"
    BY <1>2, <2>1 DEF Flags, Results
  <2>2. CASE k = "video"
    BY <1>2, <2>2 DEF Flags, Results
  <2> QED BY <2>1, <2>2
<1>6. Told(k) = {r.events[i] : i \in DOMAIN r.events} /\ Looked(k) = r.paths \ r.done
  BY <1>1 DEF Told, Looked, ToSet
<1>7. \A p : Tells(r, p) <=> p \notin r.done /\ IsFlag(Verdict(r, p))
  BY <1>3 DEF Tells
<1>8. \A p : Report(r, p) = [item |-> p, reason |-> Verdict(r, p)]
  BY <1>3 DEF Report
<1>9. \A p \in r.paths : p \in marked /\ p \notin r.done <=> Tells(r, p)
  BY <1>3, <1>4, <1>7
<1>10. \A p : Shown(p).item = p
  OBVIOUS
<1>11. \A p \in r.paths : Tells(r, p) => Shown(p) = Report(r, p)
  BY <1>3, <1>7, <1>8
<1> HIDE DEF Shown, marked
<1>12. \A e : e \in {r.events[i] : i \in DOMAIN r.events}
           <=> \E p \in r.paths : Tells(r, p) /\ e = Report(r, p)
  BY <1>3 DEF Streamed
<1>13. \A e : e \in {flag \in {Shown(p) : p \in marked} : flag.item \in r.paths \ r.done}
                <=> \E p \in r.paths : Tells(r, p) /\ e = Report(r, p)
  <2> TAKE e
  <2>1. ASSUME NEW p \in marked, e = Shown(p), e.item \in r.paths \ r.done
        PROVE  \E q \in r.paths : Tells(r, q) /\ e = Report(r, q)
    BY <1>9, <1>10, <1>11, <2>1
  <2>2. ASSUME NEW p \in r.paths, Tells(r, p), e = Report(r, p)
        PROVE  e \in {flag \in {Shown(q) : q \in marked} : flag.item \in r.paths \ r.done}
    BY <1>9, <1>10, <1>11, <2>2
  <2> QED BY <2>1, <2>2
<1> QED BY <1>5, <1>6, <1>12, <1>13

\* ResumeShowsTheStream for every library, request and checkpoint: a resumed review shows
\* of each pass what its last whole run has streamed.
THEOREM ResumesAreTrue == AnalysisSpec => []ResumeShowsTheStream
<1>1. AnalysisInv => ResumeShowsTheStream
  <2> SUFFICES ASSUME AnalysisInv, NEW k \in Kinds, last[k] # NoRun
      PROVE  IF k = "similar"
             THEN Told(k) = {g \in Flags(k) : \E m \in g.members : m.item \in last[k].paths}
             ELSE Told(k) = {flag \in Flags(k) : flag.item \in Looked(k)}
    BY Zenon DEF ResumeShowsTheStream
  <2>1. CASE k = "similar"
    <3>1. last[k].events = Reaching(last[k].paths)
      BY <2>1, Zenon DEF AnalysisInv, LastInv
    <3>2. Told(k) = last[k].events /\ Flags(k) = groups
      BY <2>1 DEF Told, Flags, Results
    <3> QED BY <2>1, <3>1, <3>2, Zenon DEF Reaching
  <2>2. CASE k = "quality"
    BY <2>2, QualityResumes
  <2>3. CASE k \in {"junk", "video"}
    BY <2>3, LoopsResume
  <2> QED BY <2>1, <2>2, <2>3 DEF Kinds
<1> QED BY <1>1, AnalysisInvariant, PTL

\* LeadersAreApart for every library and distance: of the clusters that the search tree
\* gives, each photo is in one, near its leader, and two leaders are near each other only
\* where an older one breaks the triangle inequality with the two.
THEOREM LeadersApart == AnalysisSpec => []LeadersAreApart
<1>1. AnalysisInv => LeadersAreApart
  BY LeadersOfALibrary, Zenon DEF AnalysisInv
<1> QED BY <1>1, AnalysisInvariant, PTL
==============================================================================
