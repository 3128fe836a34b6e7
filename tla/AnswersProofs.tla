----------------------------- MODULE AnswersProofs -----------------------------
(* What TLAPS proves of Answers for any number of threads, batches, settings   *)
(* and destinations:  once the answers are in, the line under the sliders is   *)
(* for the sliders, and the summary's estimate is for what would be copied.    *)
EXTENDS Answers, SequenceTheorems, FiniteSetTheorems, TLAPS

(***************************************************************************)
(* The inductive invariant.  A question is told from a later one by its    *)
(* number; so it is enough to follow the last one of each kind, from the   *)
(* moment it is asked to its answer, its loss, or the next one.            *)
(***************************************************************************)
Newest(q) == q.no = asked[q.kind]
Due(kind) == \E q \in InFlight : q.kind = kind /\ Newest(q)

\* Numbers only grow.
NumberInv ==
  /\ \A q \in InFlight : q.no <= asked[q.kind]
  /\ newest <= asked["estimate"]
  /\ estimate # None => estimate.no <= newest

\* The batch of a pass and of a review is one of the batches, and a quality review is one
\* of a batch that has been through the pass.
PlaceInv ==
  /\ screen \in {"running", "review"} => batch \in Batches
  /\ screen = "review" /\ step = "quality" => done # {}

\* No count is under way during a copy, and the pause before an estimate ends with the
\* screen that shows it.
ScreenInv ==
  /\ screen = "committing" => \A q \in InFlight : q.kind # "preview"
  /\ timer => screen = "summary"

\* The last count on its way is for the sliders as they are; without one, the count that
\* is there, or the run that made it superfluous, is.
PreviewInv ==
  /\ \A q \in InFlight : q.kind = "preview" /\ Newest(q) => q.sliders = sliders
  /\ done # {} =>
       \/ "preview" \in missed \/ Due("preview")
       \/ IF preview = None THEN lastRun = sliders ELSE preview.sliders = sliders

\* Is the question about the copy that the summary would start?
Meant(q) == q.place = Destination /\ q.kept = kept

\* The last estimate on its way is meant; without one, the one that was shown last, unless
\* an older one was shown after it.
EstimateInv ==
  screen = "summary" /\ ~timer =>
    /\ \A q \in InFlight : q.kind = "estimate" /\ Newest(q) => Meant(q)
    /\ estimate # None /\ estimate.no = asked["estimate"] => Meant(estimate)
    /\ \/ "estimate" \in missed \/ Due("estimate")
       \/ estimate # None /\ newest = asked["estimate"]

IInv ==
  /\ TypeOK /\ IsFiniteSet(busy)
  /\ PlaceInv /\ ScreenInv /\ NumberInv /\ PreviewInv /\ EstimateInv

------------------------------------------------------------------------------
(* Questions, and the queues they go through.                                 *)

\* A question has a kind and a number.
LEMMA QuestionTypes == \A q \in Questions : q.kind \in Kinds /\ q.no \in Nat
BY DEF Questions, Kinds

\* What a queue holds after something was put in.
LEMMA SetOfAppend ==
  ASSUME NEW S, NEW s \in Seq(S), NEW e \in S
  PROVE  Append(s, e) \in Seq(S) /\ ToSet(Append(s, e)) = ToSet(s) \cup {e}
<1>1. /\ Append(s, e) \in Seq(S) /\ Len(Append(s, e)) = Len(s) + 1
      /\ \A i \in 1 .. Len(s) : Append(s, e)[i] = s[i]
      /\ Append(s, e)[Len(s) + 1] = e
  BY AppendProperties
<1>2. /\ Len(s) \in Nat /\ DOMAIN s = 1 .. Len(s)
      /\ DOMAIN Append(s, e) = 1 .. Len(Append(s, e))
  BY <1>1, LenProperties
<1> QED BY <1>1, <1>2 DEF ToSet

\* What a queue holds before something was taken out.
LEMMA SetOfTail ==
  ASSUME NEW S, NEW s \in Seq(S), s # <<>>
  PROVE  Head(s) \in S /\ Tail(s) \in Seq(S) /\ ToSet(s) = {Head(s)} \cup ToSet(Tail(s))
<1>1. /\ Head(s) \in S /\ Tail(s) \in Seq(S) /\ Len(Tail(s)) = Len(s) - 1
      /\ \A i \in 1 .. Len(Tail(s)) : Tail(s)[i] = s[i + 1]
      /\ Head(s) = s[1]
  BY HeadTailProperties
<1>2. /\ Len(s) \in Nat /\ Len(s) # 0 /\ DOMAIN s = 1 .. Len(s)
      /\ DOMAIN Tail(s) = 1 .. Len(Tail(s))
  BY <1>1, LenProperties, EmptySeq
<1>3. \A i \in DOMAIN s : i = 1 \/ (i - 1 \in DOMAIN Tail(s) /\ Tail(s)[i - 1] = s[i])
  BY <1>1, <1>2
<1>4. \A i \in DOMAIN Tail(s) : i + 1 \in DOMAIN s /\ Tail(s)[i] = s[i + 1]
  BY <1>1, <1>2
<1>5. 1 \in DOMAIN s
  BY <1>2
<1>6. ToSet(s) \subseteq {Head(s)} \cup ToSet(Tail(s))
  <2> SUFFICES ASSUME NEW i \in DOMAIN s, s[i] # Head(s)
               PROVE  s[i] \in ToSet(Tail(s))
    BY DEF ToSet
  <2>1. i - 1 \in DOMAIN Tail(s) /\ Tail(s)[i - 1] = s[i]
    BY <1>1, <1>3
  <2> QED BY <2>1 DEF ToSet
<1>7. {Head(s)} \cup ToSet(Tail(s)) \subseteq ToSet(s)
  BY <1>1, <1>4, <1>5 DEF ToSet
<1> QED BY <1>1, <1>6, <1>7

\* A queue holds what it is made of.
LEMMA SetOfSeq ==
  ASSUME NEW S, NEW s \in Seq(S)
  PROVE  ToSet(s) \subseteq S
<1>1. s \in [1 .. Len(s) -> S] /\ DOMAIN s = 1 .. Len(s)
  BY LenProperties
<1>2. \A i \in DOMAIN s : s[i] \in S
  BY <1>1
<1> QED BY <1>2 DEF ToSet

\* An empty queue holds nothing.
LEMMA SetOfEmpty == ToSet(<<>>) = {}
BY DEF ToSet

\* What is in flight are questions.
LEMMA FlightTypes ==
  ASSUME TypeOK
  PROVE  /\ InFlight \subseteq Questions
         /\ \A q \in InFlight : q.kind \in Kinds /\ q.no \in Nat
<1>1. InFlight \subseteq Questions
  BY SetOfSeq DEF TypeOK, InFlight
<1> QED BY <1>1, QuestionTypes

\* A thread that takes a task, or answers it, moves it on.
LEMMA MovedOn ==
  ASSUME TypeOK, Take \/ \E q \in busy : Answer(q)
  PROVE  /\ InFlight' = InFlight
         /\ pool' \in Seq(Questions) /\ posts' \in Seq(Questions) /\ busy' \subseteq Questions
<1>1. CASE Take
  <2>1. /\ Head(pool) \in Questions /\ Tail(pool) \in Seq(Questions)
        /\ ToSet(pool) = {Head(pool)} \cup ToSet(Tail(pool))
    BY <1>1, SetOfTail DEF TypeOK, Take
  <2> QED BY <1>1, <2>1 DEF Take, TypeOK, InFlight
<1>2. ASSUME NEW q \in busy, Answer(q)
      PROVE  /\ InFlight' = InFlight
             /\ pool' \in Seq(Questions) /\ posts' \in Seq(Questions) /\ busy' \subseteq Questions
  <2>1. q \in Questions
    BY <1>2 DEF TypeOK
  <2>2. /\ Append(posts, q) \in Seq(Questions)
        /\ ToSet(Append(posts, q)) = ToSet(posts) \cup {q}
    BY <2>1, SetOfAppend DEF TypeOK
  <2> QED BY <1>2, <2>1, <2>2 DEF Answer, TypeOK, InFlight
<1> QED BY <1>1, <1>2

\* A call that fails takes its question with it.
LEMMA TakenAway ==
  ASSUME TypeOK, NEW q \in busy, AnswerFails(q)
  PROVE  /\ q \in InFlight /\ InFlight' \subseteq InFlight /\ InFlight \subseteq InFlight' \cup {q}
         /\ pool' \in Seq(Questions) /\ posts' \in Seq(Questions) /\ busy' \subseteq Questions
BY DEF AnswerFails, TypeOK, InFlight

\* The UI thread takes one answer from its queue.
LEMMA TakenIn ==
  ASSUME TypeOK, PublishPreview \/ PublishEstimate
  PROVE  /\ Head(posts) \in InFlight /\ Head(posts) \in Questions
         /\ InFlight' \subseteq InFlight /\ InFlight \subseteq InFlight' \cup {Head(posts)}
         /\ pool' = pool /\ busy' = busy /\ posts' \in Seq(Questions) /\ asked' = asked
         /\ missed' = missed
<1>1. posts # <<>> /\ posts' = Tail(posts) /\ pool' = pool /\ busy' = busy /\ asked' = asked
      /\ missed' = missed
  BY DEF PublishPreview, PublishEstimate, askVars
<1>2. /\ Head(posts) \in Questions /\ Tail(posts) \in Seq(Questions)
      /\ ToSet(posts) = {Head(posts)} \cup ToSet(Tail(posts))
  BY <1>1, SetOfTail DEF TypeOK
<1> QED BY <1>1, <1>2 DEF InFlight

\* A question is asked, of whoever is left in the queue.
LEMMA Asked ==
  ASSUME TypeOK, NEW kind \in Kinds, NEW q \in Questions, NEW queue \in Seq(Questions),
         Ask(kind, q, queue)
  PROVE  /\ InFlight' = ToSet(queue) \cup busy' \cup ToSet(posts') \cup {q}
         /\ pool' \in Seq(Questions)
         /\ asked' \in [Kinds -> Nat] /\ asked'[kind] = asked[kind] + 1
         /\ \A k \in Kinds \ {kind} : asked'[k] = asked[k]
         /\ missed' = missed \ {kind}
<1>1. pool' = Append(queue, q) /\ asked' = [asked EXCEPT ![kind] = @ + 1]
      /\ missed' = missed \ {kind}
  BY DEF Ask
<1>2. Append(queue, q) \in Seq(Questions) /\ ToSet(Append(queue, q)) = ToSet(queue) \cup {q}
  BY SetOfAppend
<1> QED BY <1>1, <1>2 DEF InFlight, TypeOK

\* next_generation leaves nothing in flight, and remembers which count it took away.
LEMMA Dropped ==
  ASSUME TypeOK, NextGeneration
  PROVE  /\ InFlight' = {} /\ pool' = <<>> /\ busy' = {} /\ posts' = <<>> /\ asked' = asked
         /\ missed \subseteq missed' /\ missed' \subseteq Kinds
         /\ \A q \in InFlight : q.kind = "preview" => "preview" \in missed'
BY SetOfEmpty DEF NextGeneration, InFlight, TypeOK, Kinds

\* The questions the wizard asks are questions.
LEMMA NewQuestions ==
  ASSUME TypeOK
  PROVE  /\ \A at \in Settings : batch \in Batches =>
              [kind |-> "preview", no |-> asked["preview"] + 1, batch |-> batch, sliders |-> at]
                \in Questions
         /\ Estimate \in Questions
<1>1. asked["preview"] + 1 \in Nat /\ asked["estimate"] + 1 \in Nat
  BY DEF TypeOK, Kinds
<1>2. Destination \in Places \cup {Suggested}
  BY DEF Destination, TypeOK
<1> QED BY <1>1, <1>2 DEF Questions, Estimate, TypeOK

------------------------------------------------------------------------------
(* Types.                                                                     *)

\* What the actions do to the queues, as far as types go.
LEMMA FlightStays ==
  ASSUME TypeOK, UNCHANGED <<flightVars, askVars>>
  PROVE  /\ pool' \in Seq(Questions) /\ busy' \subseteq Questions /\ posts' \in Seq(Questions)
         /\ asked' \in [Kinds -> Nat] /\ missed' \subseteq Kinds /\ InFlight' = InFlight
BY DEF TypeOK, flightVars, askVars, InFlight

\* The number of busy threads stays within the pool.
LEMMA NextBusy ==
  ASSUME TypeOK, IsFiniteSet(busy), Next
  PROVE  IsFiniteSet(busy') /\ Cardinality(busy') <= Workers
<1>1. IsFiniteSet({}) /\ Cardinality({}) = 0 /\ Workers \in Nat /\ Cardinality(busy) \in Nat
      /\ Cardinality(busy) <= Workers
  BY FS_EmptySet, FS_CardinalityType, WorkersAssumption DEF TypeOK
<1>2. CASE busy' = busy \/ busy' = {}
  BY <1>1, <1>2
<1>3. CASE Take
  <2>1. busy' = busy \cup {Head(pool)} /\ Cardinality(busy) < Workers
    BY <1>3 DEF Take
  <2> QED BY <1>1, <2>1, FS_AddElement
<1>4. ASSUME NEW q \in busy, busy' = busy \ {q}
      PROVE  IsFiniteSet(busy') /\ Cardinality(busy') <= Workers
  <2>1. IsFiniteSet(busy \ {q}) /\ Cardinality(busy \ {q}) = Cardinality(busy) - 1
    BY FS_RemoveElement
  <2> QED BY <1>1, <1>4, <2>1
<1>5. Take \/ busy' = busy \/ busy' = {} \/ \E q \in busy : busy' = busy \ {q}
  BY DEF Next, StartBatchPass, RerunQualityPass, Start, FinishPass, LeavePass, MoveSlider,
    AskPreview, ReviewBatchPass, CloseBatchReview, Choose, ContinueFromBatches, BackFromDeletionReview,
    ContinueFromDeletionReview, SetDestination, TimerRuns, BackFromSummary, StartCommit,
    CancelCommit, Take, Answer, AnswerFails, PublishPreview, PublishEstimate, NextGeneration,
    flightVars
<1> QED BY <1>2, <1>3, <1>4, <1>5


\* What the screens are about keeps its types.
LEMMA NextPlace ==
  ASSUME TypeOK, PlaceInv, [Next]_vars
  PROVE  /\ PlaceInv' /\ done' \subseteq Batches /\ batch' \in Batches \cup {None}
         /\ screen' \in {"menu", "running", "review", "final", "summary", "committing"}
         /\ step' \in {"quality", "other"}
<1> USE DEF PlaceInv, TypeOK
<1>1. ASSUME NEW s \in {"quality", "other"}, NEW b \in Batches, StartBatchPass(s, b)
      PROVE  /\ PlaceInv' /\ done' \subseteq Batches /\ batch' \in Batches \cup {None}
             /\ screen' = "running" /\ step' = s
  BY <1>1 DEF StartBatchPass, Start
<1>2. CASE RerunQualityPass
  BY <1>2 DEF RerunQualityPass, Start
<1>3. CASE FinishPass \/ LeavePass \/ CloseBatchReview
  BY <1>3 DEF FinishPass, LeavePass, CloseBatchReview, ReturnToBatchMenu
<1>4. ASSUME NEW b \in Batches, ReviewBatchPass(b)
      PROVE  /\ PlaceInv' /\ done' = done /\ batch' = b /\ screen' = "review" /\ step' = "quality"
  BY <1>4 DEF ReviewBatchPass
<1>5. CASE UNCHANGED screenVars
  BY <1>5 DEF screenVars
<1>6. CASE \/ ContinueFromBatches \/ BackFromDeletionReview \/ ContinueFromDeletionReview
           \/ BackFromSummary \/ StartCommit \/ CancelCommit
  BY <1>6 DEF ContinueFromBatches, BackFromDeletionReview, ContinueFromDeletionReview,
    BackFromSummary, StartCommit, CancelCommit
<1>7. CASE \/ \E to \in Settings : MoveSlider(to)
           \/ \E set \in KeepSets : Choose(set)
           \/ \E value \in Places \cup {None} : SetDestination(value)
           \/ TimerRuns \/ Take \/ (\E q \in busy : Answer(q) \/ AnswerFails(q))
           \/ PublishPreview \/ PublishEstimate \/ UNCHANGED vars
  <2>1. UNCHANGED screenVars
    BY <1>7 DEF MoveSlider, Choose, SetDestination, TimerRuns, Take, Answer, AnswerFails,
      PublishPreview, PublishEstimate, vars
  <2> QED BY <1>5, <2>1
<1> QED BY <1>1, <1>2, <1>3, <1>4, <1>6, <1>7 DEF Next


QueueTypes ==
  /\ pool \in Seq(Questions) /\ busy \subseteq Questions /\ posts \in Seq(Questions)
  /\ asked \in [Kinds -> Nat] /\ missed \subseteq Kinds

\* The steps that ask the engine nothing, and hear nothing from it.
Aside ==
  \/ \E b \in Batches : ReviewBatchPass(b)
  \/ \E set \in KeepSets : Choose(set)
  \/ \E value \in Places \cup {None} : SetDestination(value)
  \/ FinishPass \/ CloseBatchReview \/ ContinueFromBatches \/ BackFromDeletionReview
  \/ BackFromSummary

\* The steps that take back what was asked.
Break ==
  \/ \E s \in {"quality", "other"}, b \in Batches : StartBatchPass(s, b)
  \/ RerunQualityPass \/ LeavePass \/ StartCommit

\* The steps that ask for an estimate.
AsksEstimate == ContinueFromDeletionReview \/ TimerRuns \/ CancelCommit

\* All steps there are.
LEMMA StepCases ==
  ASSUME [Next]_vars
  PROVE  \/ Aside \/ Break \/ AsksEstimate
         \/ \E to \in Settings : MoveSlider(to)
         \/ Take \/ \E q \in busy : Answer(q)
         \/ \E q \in busy : AnswerFails(q)
         \/ PublishPreview \/ PublishEstimate \/ UNCHANGED vars
BY DEF Next, Aside, Break, AsksEstimate

\* What the steps aside leave alone.
LEMMA AsideFrame ==
  ASSUME Aside \/ UNCHANGED vars
  PROVE  UNCHANGED <<flightVars, askVars, newest, estimate>>
BY DEF Aside, ReviewBatchPass, Choose, SetDestination, FinishPass, CloseBatchReview,
  ContinueFromBatches, BackFromDeletionReview, BackFromSummary, commitVars, vars

\* A break drops what is in flight.
LEMMA BreakFrame ==
  ASSUME Break
  PROVE  NextGeneration /\ UNCHANGED <<sliders, preview, typed, kept, estimate, newest>>
BY DEF Break, StartBatchPass, RerunQualityPass, Start, LeavePass, StartCommit, commitVars,
  previewVars

\* The question for a count, about the batch that is reviewed.
LEMMA AskPreviewFrame ==
  ASSUME TypeOK, PlaceInv, NEW to \in Settings, MoveSlider(to)
  PROVE  \E q \in Questions :
           /\ q.kind = "preview" /\ q.no = asked["preview"] + 1 /\ q.sliders = to
           /\ InFlight' = InFlight \cup {q}
           /\ asked' \in [Kinds -> Nat] /\ asked'["preview"] = asked["preview"] + 1
           /\ asked'["estimate"] = asked["estimate"]
           /\ missed' = missed \ {"preview"}
           /\ pool' \in Seq(Questions) /\ busy' = busy /\ posts' = posts
<1> DEFINE q == [kind |-> "preview", no |-> asked["preview"] + 1, batch |-> batch,
                 sliders |-> to]
<1>1. q \in Questions
  BY NewQuestions DEF MoveSlider, PlaceInv
<1>2. Ask("preview", q, pool) /\ busy' = busy /\ posts' = posts
  BY DEF MoveSlider, AskPreview
<1>3. pool \in Seq(Questions) /\ "preview" \in Kinds /\ "estimate" \in Kinds \ {"preview"}
  BY DEF TypeOK, Kinds
<1> HIDE DEF q
<1>4. /\ InFlight' = ToSet(pool) \cup busy' \cup ToSet(posts') \cup {q}
      /\ pool' \in Seq(Questions)
      /\ asked' \in [Kinds -> Nat] /\ asked'["preview"] = asked["preview"] + 1
      /\ asked'["estimate"] = asked["estimate"]
      /\ missed' = missed \ {"preview"}
  BY <1>1, <1>2, <1>3, Asked
<1>5. InFlight' = InFlight \cup {q}
  BY <1>2, <1>4 DEF InFlight
<1>6. q.kind = "preview" /\ q.no = asked["preview"] + 1 /\ q.sliders = to
  BY DEF q
<1> QED BY <1>1, <1>2, <1>4, <1>5, <1>6

\* The question for an estimate is the one that is meant.
LEMMA AskEstimateFrame ==
  ASSUME TypeOK, AsksEstimate
  PROVE  /\ Estimate \in Questions
         /\ Estimate.kind = "estimate" /\ Estimate.no = asked["estimate"] + 1 /\ Meant(Estimate)
         /\ Estimate \in InFlight' /\ InFlight' \subseteq InFlight \cup {Estimate}
         /\ screen = "committing" \/ InFlight \subseteq InFlight'
         /\ asked' \in [Kinds -> Nat] /\ asked'["estimate"] = asked["estimate"] + 1
         /\ asked'["preview"] = asked["preview"]
         /\ missed' = missed \ {"estimate"}
         /\ pool' \in Seq(Questions) /\ busy' \subseteq Questions /\ posts' \in Seq(Questions)
         /\ UNCHANGED <<typed, kept, estimate, newest, previewVars, done>>
<1>1. "estimate" \in Kinds /\ "preview" \in Kinds \ {"estimate"}
  BY DEF Kinds
<1>2. pool \in Seq(Questions) /\ <<>> \in Seq(Questions) /\ Estimate \in Questions
  BY NewQuestions, EmptySeq DEF TypeOK
<1>3. Estimate.kind = "estimate" /\ Estimate.no = asked["estimate"] + 1 /\ Meant(Estimate)
  BY DEF Estimate, Meant
<1>4. UNCHANGED <<typed, kept, estimate, newest, previewVars, done>>
  BY DEF AsksEstimate, ContinueFromDeletionReview, TimerRuns, CancelCommit, screenVars
<1>5. CASE ContinueFromDeletionReview \/ TimerRuns
  <2>1. Ask("estimate", Estimate, pool) /\ busy' = busy /\ posts' = posts
    BY <1>5 DEF ContinueFromDeletionReview, TimerRuns, AskEstimate
  <2>2. /\ InFlight' = ToSet(pool) \cup busy' \cup ToSet(posts') \cup {Estimate}
        /\ pool' \in Seq(Questions)
        /\ asked' \in [Kinds -> Nat] /\ asked'["estimate"] = asked["estimate"] + 1
        /\ asked'["preview"] = asked["preview"]
        /\ missed' = missed \ {"estimate"}
    BY <1>1, <1>2, <2>1, Asked
  <2>3. InFlight' = InFlight \cup {Estimate}
    BY <2>1, <2>2 DEF InFlight
  <2> QED BY <1>2, <1>3, <1>4, <2>1, <2>2, <2>3 DEF TypeOK
<1>6. CASE CancelCommit
  <2>1. /\ Ask("estimate", Estimate, <<>>) /\ busy' = {} /\ posts' = <<>>
        /\ screen = "committing"
    BY <1>6 DEF CancelCommit, AskEstimate
  <2>2. /\ InFlight' = ToSet(<<>>) \cup busy' \cup ToSet(posts') \cup {Estimate}
        /\ pool' \in Seq(Questions)
        /\ asked' \in [Kinds -> Nat] /\ asked'["estimate"] = asked["estimate"] + 1
        /\ asked'["preview"] = asked["preview"]
        /\ missed' = missed \ {"estimate"}
    BY <1>1, <1>2, <2>1, Asked
  <2>3. InFlight' = {Estimate}
    BY <2>1, <2>2, SetOfEmpty
  <2> QED BY <1>2, <1>3, <1>4, <2>1, <2>2, <2>3
<1> QED BY <1>5, <1>6 DEF AsksEstimate

\* Every step leaves questions in the queues.
LEMMA NextQueues ==
  ASSUME TypeOK, PlaceInv, [Next]_vars
  PROVE  QueueTypes'
<1> USE DEF QueueTypes
<1>1. CASE Aside \/ UNCHANGED vars
  <2>1. UNCHANGED <<flightVars, askVars>>
    BY <1>1, AsideFrame
  <2> QED BY <2>1, FlightStays
<1>2. CASE Break
  BY <1>2, BreakFrame, Dropped, EmptySeq DEF TypeOK
<1>3. CASE AsksEstimate
  BY <1>3, AskEstimateFrame DEF TypeOK
<1>4. ASSUME NEW to \in Settings, MoveSlider(to) PROVE QueueTypes'
  BY <1>4, AskPreviewFrame DEF TypeOK
<1>5. CASE Take \/ \E q \in busy : Answer(q)
  <2>1. UNCHANGED askVars
    BY <1>5 DEF Take, Answer
  <2> QED BY <1>5, <2>1, MovedOn DEF TypeOK, askVars
<1>6. ASSUME NEW q \in busy, AnswerFails(q) PROVE QueueTypes'
  <2>1. q.kind \in Kinds /\ asked' = asked
    BY <1>6, QuestionTypes DEF TypeOK, AnswerFails
  <2> QED BY <1>6, <2>1, TakenAway DEF TypeOK, AnswerFails
<1>7. CASE PublishPreview \/ PublishEstimate
  BY <1>7, TakenIn DEF TypeOK
<1> QED BY <1>1, <1>2, <1>3, <1>4, <1>5, <1>6, <1>7, StepCases

\* And the sliders, the answers and the counters keep theirs.
LEMMA NextTypes ==
  ASSUME TypeOK, IsFiniteSet(busy), PlaceInv, [Next]_vars
  PROVE  TypeOK' /\ IsFiniteSet(busy') /\ PlaceInv'
<1>1. QueueTypes'
  BY NextQueues
<1>2. /\ PlaceInv' /\ done' \subseteq Batches /\ batch' \in Batches \cup {None}
      /\ screen' \in {"menu", "running", "review", "final", "summary", "committing"}
      /\ step' \in {"quality", "other"}
  BY NextPlace
<1>3. IsFiniteSet(busy') /\ Cardinality(busy') <= Workers
  <2>1. CASE Next
    BY <2>1, NextBusy
  <2>2. CASE UNCHANGED vars
    BY <2>2 DEF vars, flightVars, TypeOK
  <2> QED BY <2>1, <2>2
<1>4. sliders' \in Settings /\ lastRun' \in Settings \cup {None}
  BY StepCases DEF TypeOK, Aside, Break, AsksEstimate, ReviewBatchPass, Choose, SetDestination,
    FinishPass, CloseBatchReview, ContinueFromBatches, BackFromDeletionReview, BackFromSummary,
    StartBatchPass, RerunQualityPass, Start, LeavePass, StartCommit, ContinueFromDeletionReview,
    TimerRuns, CancelCommit, MoveSlider, Take, Answer, AnswerFails, PublishPreview,
    PublishEstimate, previewVars, vars
<1>5. typed' \in Places \cup {None} /\ kept' \in KeepSets /\ timer' \in BOOLEAN
  BY StepCases DEF TypeOK, Aside, Break, AsksEstimate, ReviewBatchPass, Choose, SetDestination,
    FinishPass, CloseBatchReview, ContinueFromBatches, BackFromDeletionReview, BackFromSummary,
    StartBatchPass, RerunQualityPass, Start, LeavePass, StartCommit, ContinueFromDeletionReview,
    TimerRuns, CancelCommit, MoveSlider, Take, Answer, AnswerFails, PublishPreview,
    PublishEstimate, commitVars, vars
<1>6. preview' \in Questions \cup {None}
  <2>1. CASE PublishPreview
    BY <2>1, TakenIn DEF PublishPreview, TypeOK
  <2>2. CASE ~PublishPreview
    BY <2>2, StepCases DEF TypeOK, Aside, Break, AsksEstimate, ReviewBatchPass, Choose,
      SetDestination, FinishPass, CloseBatchReview, ContinueFromBatches,
      BackFromDeletionReview, BackFromSummary, StartBatchPass, RerunQualityPass, Start,
      LeavePass, StartCommit, ContinueFromDeletionReview, TimerRuns, CancelCommit, MoveSlider,
      Take, Answer, AnswerFails, PublishEstimate, previewVars, vars
  <2> QED BY <2>1, <2>2
<1>7. estimate' \in Questions \cup {None} /\ newest' \in Nat
  <2>1. CASE PublishEstimate
    <3>1. Head(posts).no \in Nat
      BY <2>1, TakenIn, QuestionTypes
    <3> QED BY <2>1, <3>1, TakenIn DEF PublishEstimate, TypeOK
  <2>2. CASE ~PublishEstimate
    BY <2>2, StepCases, AsideFrame, BreakFrame, AskEstimateFrame
    DEF TypeOK, MoveSlider, Take, Answer, AnswerFails, PublishPreview, commitVars
  <2> QED BY <2>1, <2>2
<1>8. Pass \/ Turn \/ UNCHANGED boundVars
  BY StepCases DEF Aside, Break, AsksEstimate, ReviewBatchPass, Choose, SetDestination,
    FinishPass, CloseBatchReview, ContinueFromBatches, BackFromDeletionReview, BackFromSummary,
    StartBatchPass, RerunQualityPass, Start, LeavePass, StartCommit, ContinueFromDeletionReview,
    TimerRuns, CancelCommit, MoveSlider, Take, Answer, AnswerFails, PublishPreview,
    PublishEstimate, vars
<1>9. passes' \in 0 .. MaxPasses /\ turns' \in 0 .. MaxTurns
  BY <1>8, BoundAssumption DEF TypeOK, Pass, Turn, boundVars
<1> QED BY <1>1, <1>2, <1>3, <1>4, <1>5, <1>6, <1>7, <1>9 DEF TypeOK, QueueTypes

------------------------------------------------------------------------------
(* Numbers, and what is under way where.                                      *)

\* No question is newer than the last one, and no estimate shown newer than the newest.
LEMMA NextNumbers ==
  ASSUME TypeOK, PlaceInv, NumberInv, [Next]_vars
  PROVE  NumberInv'
<1> USE DEF NumberInv
<1>a. /\ \A q \in InFlight : q.kind \in {"preview", "estimate"} /\ q.no \in Nat
      /\ asked["preview"] \in Nat /\ asked["estimate"] \in Nat /\ newest \in Nat
      /\ estimate # None => estimate.no \in Nat
  BY FlightTypes, QuestionTypes DEF TypeOK, Kinds
<1>1. CASE Aside \/ UNCHANGED vars
  <2>1. UNCHANGED <<flightVars, askVars, newest, estimate>> /\ InFlight' = InFlight
    BY <1>1, AsideFrame, FlightStays
  <2> QED BY <2>1 DEF askVars
<1>2. CASE Break
  BY <1>2, BreakFrame, Dropped
<1>3. CASE AsksEstimate
  <2>1. /\ InFlight' \subseteq InFlight \cup {Estimate}
        /\ Estimate.kind = "estimate" /\ Estimate.no = asked["estimate"] + 1
        /\ asked'["estimate"] = asked["estimate"] + 1 /\ asked'["preview"] = asked["preview"]
        /\ UNCHANGED <<estimate, newest>>
    BY <1>3, AskEstimateFrame
  <2>2. \A q \in InFlight : q.no <= asked'[q.kind]
    BY <1>a, <2>1
  <2>3. Estimate.no <= asked'[Estimate.kind]
    BY <1>a, <2>1
  <2>4. \A q \in InFlight' : q.no <= asked'[q.kind]
    BY <2>1, <2>2, <2>3
  <2>5. newest <= asked'["estimate"]
    BY <1>a, <2>1
  <2>6. newest' = newest /\ estimate' = estimate
    BY <2>1
  <2> QED BY <2>4, <2>5, <2>6
<1>4. ASSUME NEW to \in Settings, MoveSlider(to) PROVE NumberInv'
  <2>1. UNCHANGED <<estimate, newest>>
    BY <1>4 DEF MoveSlider, commitVars
  <2>2. PICK q \in Questions :
          /\ q.kind = "preview" /\ q.no = asked["preview"] + 1
          /\ InFlight' = InFlight \cup {q}
          /\ asked'["preview"] = asked["preview"] + 1 /\ asked'["estimate"] = asked["estimate"]
    BY <1>4, AskPreviewFrame
  <2>3. \A r \in InFlight : r.no <= asked'[r.kind]
    BY <1>a, <2>2
  <2>4. q.no <= asked'[q.kind]
    BY <1>a, <2>2
  <2>5. \A r \in InFlight' : r.no <= asked'[r.kind]
    BY <2>2, <2>3, <2>4
  <2>6. newest <= asked'["estimate"] /\ newest' = newest /\ estimate' = estimate
    BY <2>1, <2>2
  <2> QED BY <2>5, <2>6
<1>5. CASE Take \/ \E q \in busy : Answer(q)
  <2>1. InFlight' = InFlight /\ UNCHANGED <<asked, newest, estimate>>
    BY <1>5, MovedOn DEF Take, Answer, askVars, commitVars
  <2> QED BY <2>1
<1>6. ASSUME NEW q \in busy, AnswerFails(q) PROVE NumberInv'
  <2>1. InFlight' \subseteq InFlight /\ UNCHANGED <<asked, newest, estimate>>
    BY <1>6, TakenAway DEF AnswerFails, commitVars
  <2> QED BY <2>1
<1>7. CASE PublishPreview
  <2>1. InFlight' \subseteq InFlight /\ UNCHANGED <<asked, newest, estimate>>
    BY <1>7, TakenIn DEF PublishPreview, commitVars
  <2> QED BY <2>1
<1>8. CASE PublishEstimate
  <2>1. /\ InFlight' \subseteq InFlight /\ asked' = asked
        /\ Head(posts) \in InFlight /\ Head(posts).kind = "estimate"
    BY <1>8, TakenIn DEF PublishEstimate
  <2>2. Head(posts).no \in Nat /\ Head(posts).no <= asked["estimate"]
    BY <1>a, <2>1
  <2>3. \/ UNCHANGED <<estimate, newest>>
        \/ /\ estimate' = Head(posts)
           /\ newest' = IF Head(posts).no > newest THEN Head(posts).no ELSE newest
    BY <1>8 DEF PublishEstimate
  <2> QED BY <1>a, <2>1, <2>2, <2>3
<1> QED BY <1>1, <1>2, <1>3, <1>4, <1>5, <1>6, <1>7, <1>8, StepCases

\* A copy starts with nothing under way, and leaving the summary ends the pause.
LEMMA NextScreen ==
  ASSUME TypeOK, PlaceInv, ScreenInv, [Next]_vars
  PROVE  ScreenInv'
<1> USE DEF ScreenInv
<1>1. CASE Aside \/ UNCHANGED vars
  <2>1. InFlight' = InFlight
    BY <1>1, AsideFrame, FlightStays
  <2> QED BY <1>1, <2>1 DEF Aside, ReviewBatchPass, Choose, SetDestination, FinishPass,
        CloseBatchReview, ContinueFromBatches, BackFromDeletionReview, BackFromSummary,
        ReturnToBatchMenu, screenVars, commitVars, vars
<1>2. CASE Break
  <2>1. InFlight' = {}
    BY <1>2, BreakFrame, Dropped
  <2> QED BY <1>2, <2>1 DEF Break, StartBatchPass, RerunQualityPass, Start, LeavePass,
        StartCommit, ReturnToBatchMenu, commitVars
<1>3. CASE AsksEstimate
  BY <1>3 DEF AsksEstimate, ContinueFromDeletionReview, TimerRuns, CancelCommit, screenVars
<1>4. ASSUME NEW to \in Settings, MoveSlider(to) PROVE ScreenInv'
  BY <1>4 DEF MoveSlider, screenVars, commitVars
<1>5. CASE Take \/ \E q \in busy : Answer(q)
  BY <1>5, MovedOn DEF Take, Answer, screenVars, commitVars
<1>6. ASSUME NEW q \in busy, AnswerFails(q) PROVE ScreenInv'
  BY <1>6, TakenAway DEF AnswerFails, screenVars, commitVars
<1>7. CASE PublishPreview \/ PublishEstimate
  BY <1>7, TakenIn DEF PublishPreview, PublishEstimate, screenVars, commitVars
<1> QED BY <1>1, <1>2, <1>3, <1>4, <1>5, <1>6, <1>7, StepCases

------------------------------------------------------------------------------
(* The line under the sliders.                                                *)

Counted == IF preview = None THEN lastRun = sliders ELSE preview.sliders = sliders

\* Moving a slider asks again; a pass that ends was made with the sliders as they are; and
\* of the answers, the last one alone is shown.
LEMMA NextPreview ==
  ASSUME TypeOK, PlaceInv, ScreenInv, NumberInv, PreviewInv, [Next]_vars
  PROVE  PreviewInv'
<1> USE DEF PreviewInv, Newest, Due, Counted
<1>a. /\ \A q \in InFlight : q.kind \in {"preview", "estimate"} /\ q.no \in Nat
      /\ asked["preview"] \in Nat
  BY FlightTypes DEF TypeOK, Kinds
<1>1. CASE Aside \/ UNCHANGED vars
  <2>1. InFlight' = InFlight /\ asked' = asked /\ missed' = missed
    BY <1>1, AsideFrame, FlightStays DEF askVars
  <2>2. \/ UNCHANGED <<sliders, lastRun, preview, done>>
        \/ UNCHANGED sliders /\ lastRun' = sliders /\ preview' = None
    BY <1>1 DEF Aside, ReviewBatchPass, Choose, SetDestination, FinishPass, CloseBatchReview,
      ContinueFromBatches, BackFromDeletionReview, BackFromSummary, previewVars, screenVars, vars
  <2> QED BY <2>1, <2>2
<1>2. CASE Break
  <2>1. /\ InFlight' = {} /\ asked' = asked /\ missed \subseteq missed'
        /\ \A q \in InFlight : q.kind = "preview" => "preview" \in missed'
        /\ UNCHANGED <<sliders, preview>>
    BY <1>2, BreakFrame, Dropped
  <2>2. done' = done /\ lastRun' \in {sliders, lastRun}
    BY <1>2 DEF Break, StartBatchPass, RerunQualityPass, Start, LeavePass, StartCommit,
      previewVars
  <2> QED BY <2>1, <2>2
<1>3. CASE AsksEstimate
  <2>1. /\ Estimate.kind = "estimate" /\ Estimate \in InFlight'
        /\ InFlight' \subseteq InFlight \cup {Estimate}
        /\ screen = "committing" \/ InFlight \subseteq InFlight'
        /\ asked'["preview"] = asked["preview"] /\ missed' = missed \ {"estimate"}
        /\ UNCHANGED <<previewVars, done>>
    BY <1>3, AskEstimateFrame
  <2>2. \A q \in InFlight : q.kind = "preview" => q \in InFlight'
    BY <2>1 DEF ScreenInv
  <2>3. Due("preview") => Due("preview")'
    BY <2>1, <2>2
  <2>4. \A q \in InFlight' : q.kind = "preview" => q \in InFlight
    BY <2>1
  <2> QED BY <2>1, <2>3, <2>4 DEF previewVars
<1>4. ASSUME NEW to \in Settings, MoveSlider(to) PROVE PreviewInv'
  <2>1. sliders' = to
    BY <1>4 DEF MoveSlider
  <2>2. PICK q \in Questions :
          /\ q.kind = "preview" /\ q.no = asked["preview"] + 1 /\ q.sliders = to
          /\ InFlight' = InFlight \cup {q}
          /\ asked'["preview"] = asked["preview"] + 1
    BY <1>4, AskPreviewFrame
  <2>3. \A r \in InFlight : r.kind = "preview" => r.no # asked'["preview"]
    BY <1>a, <2>2 DEF NumberInv
  <2>4. Due("preview")'
    BY <2>2
  <2> QED BY <2>1, <2>2, <2>3, <2>4
<1>5. CASE Take \/ \E q \in busy : Answer(q)
  BY <1>5, MovedOn DEF Take, Answer, askVars, previewVars, screenVars
<1>6. ASSUME NEW q \in busy, AnswerFails(q) PROVE PreviewInv'
  <2>1. /\ q \in InFlight /\ InFlight' \subseteq InFlight /\ InFlight \subseteq InFlight' \cup {q}
        /\ UNCHANGED <<asked, sliders, lastRun, preview, done>>
        /\ missed' = IF q.no = asked[q.kind] THEN missed \cup {q.kind} ELSE missed
    BY <1>6, TakenAway DEF AnswerFails, previewVars, screenVars
  <2>2. Due("preview") => Due("preview")' \/ (q.kind = "preview" /\ q.no = asked["preview"])
    BY <2>1
  <2> QED BY <2>1, <2>2
<1>7. CASE PublishPreview
  <2>1. /\ Head(posts) \in InFlight /\ Head(posts) \in Questions
        /\ InFlight' \subseteq InFlight /\ InFlight \subseteq InFlight' \cup {Head(posts)}
        /\ asked' = asked /\ missed' = missed /\ Head(posts).kind = "preview"
        /\ UNCHANGED <<sliders, lastRun, done>>
        /\ preview' = IF Head(posts).no = asked["preview"] THEN Head(posts) ELSE preview
    BY <1>7, TakenIn DEF PublishPreview, screenVars
  <2>2. CASE Head(posts).no = asked["preview"]
    BY <2>1, <2>2, NoneAssumption
  <2>3. CASE Head(posts).no # asked["preview"]
    <3>1. Due("preview") => Due("preview")'
      BY <2>1, <2>3
    <3> QED BY <2>1, <2>3, <3>1
  <2> QED BY <2>2, <2>3
<1>8. CASE PublishEstimate
  <2>1. /\ InFlight' \subseteq InFlight /\ InFlight \subseteq InFlight' \cup {Head(posts)}
        /\ asked' = asked /\ missed' = missed /\ Head(posts).kind = "estimate"
        /\ UNCHANGED <<sliders, lastRun, preview, done>>
    BY <1>8, TakenIn DEF PublishEstimate, screenVars, previewVars
  <2>2. Due("preview") => Due("preview")'
    BY <2>1
  <2> QED BY <2>1, <2>2
<1> QED BY <1>1, <1>2, <1>3, <1>4, <1>5, <1>6, <1>7, <1>8, StepCases

------------------------------------------------------------------------------
(* The summary's estimate.                                                    *)

\* Typing starts the pause, which ends in a question, like every way to the summary; and an
\* answer to an older question does not pass for a newer one.
LEMMA NextEstimate ==
  ASSUME TypeOK, PlaceInv, ScreenInv, NumberInv, EstimateInv, [Next]_vars
  PROVE  EstimateInv'
<1> USE DEF EstimateInv, Newest, Due, Meant
<1>a. /\ \A q \in InFlight : q.kind \in {"preview", "estimate"} /\ q.no \in Nat
      /\ asked["estimate"] \in Nat /\ newest \in Nat
      /\ estimate # None => estimate.no \in Nat
  BY FlightTypes, QuestionTypes DEF TypeOK, Kinds
<1>1. CASE Aside \/ UNCHANGED vars
  <2>1. InFlight' = InFlight /\ UNCHANGED <<asked, missed, newest, estimate>>
    BY <1>1, AsideFrame, FlightStays DEF askVars
  <2>2. \/ screen' # "summary" \/ timer'
        \/ UNCHANGED <<screen, timer, typed, kept>>
    BY <1>1 DEF Aside, ReviewBatchPass, Choose, SetDestination, FinishPass, CloseBatchReview,
      ContinueFromBatches, BackFromDeletionReview, BackFromSummary, ReturnToBatchMenu,
      commitVars, screenVars, vars
  <2> QED BY <2>1, <2>2 DEF Destination
<1>2. CASE Break
  <2>1. screen' # "summary"
    BY <1>2 DEF Break, StartBatchPass, RerunQualityPass, Start, LeavePass, StartCommit,
      ReturnToBatchMenu
  <2> QED BY <2>1
<1>3. CASE AsksEstimate
  <2>1. /\ InFlight' \subseteq InFlight \cup {Estimate} /\ Estimate \in InFlight'
        /\ Estimate.kind = "estimate" /\ Estimate.no = asked["estimate"] + 1 /\ Meant(Estimate)
        /\ asked'["estimate"] = asked["estimate"] + 1
        /\ UNCHANGED <<estimate, newest, typed, kept>>
    BY <1>3, AskEstimateFrame
  <2>2. \A q \in InFlight : q.kind = "estimate" => q.no # asked'["estimate"]
    BY <1>a, <2>1 DEF NumberInv
  <2>3. estimate # None => estimate.no # asked'["estimate"]
    BY <1>a, <2>1 DEF NumberInv
  <2>4. Destination' = Destination
    BY <2>1 DEF Destination
  <2>5. Due("estimate")'
    BY <2>1
  <2> QED BY <2>1, <2>2, <2>3, <2>4, <2>5
<1>4. ASSUME NEW to \in Settings, MoveSlider(to) PROVE EstimateInv'
  <2>1. screen' # "summary"
    BY <1>4 DEF MoveSlider, screenVars
  <2> QED BY <2>1
<1>5. CASE Take \/ \E q \in busy : Answer(q)
  <2>1. InFlight' = InFlight /\ UNCHANGED <<screenVars, commitVars, askVars>>
    BY <1>5, MovedOn DEF Take, Answer
  <2> QED BY <2>1 DEF screenVars, commitVars, askVars, Destination
<1>6. ASSUME NEW q \in busy, AnswerFails(q) PROVE EstimateInv'
  <2>1. /\ q \in InFlight /\ InFlight' \subseteq InFlight /\ InFlight \subseteq InFlight' \cup {q}
        /\ UNCHANGED <<asked, screen, timer, typed, kept, estimate, newest>>
        /\ missed' = IF q.no = asked[q.kind] THEN missed \cup {q.kind} ELSE missed
    BY <1>6, TakenAway DEF AnswerFails, commitVars, screenVars
  <2>2. Due("estimate") => Due("estimate")' \/ (q.kind = "estimate" /\ q.no = asked["estimate"])
    BY <2>1
  <2>3. Destination' = Destination
    BY <2>1 DEF Destination
  <2> QED BY <2>1, <2>2, <2>3
<1>7. CASE PublishPreview
  <2>1. /\ InFlight' \subseteq InFlight /\ InFlight \subseteq InFlight' \cup {Head(posts)}
        /\ asked' = asked /\ missed' = missed /\ Head(posts).kind = "preview"
        /\ UNCHANGED <<screen, timer, typed, kept, estimate, newest>>
    BY <1>7, TakenIn DEF PublishPreview, screenVars, commitVars
  <2>2. Due("estimate") => Due("estimate")'
    BY <2>1
  <2>3. Destination' = Destination
    BY <2>1 DEF Destination
  <2> QED BY <2>1, <2>2, <2>3
<1>8. CASE PublishEstimate
  <2> DEFINE q == Head(posts)
  <2>1. /\ q \in InFlight /\ q \in Questions
        /\ InFlight' \subseteq InFlight /\ InFlight \subseteq InFlight' \cup {q}
        /\ asked' = asked /\ missed' = missed /\ q.kind = "estimate"
        /\ UNCHANGED <<screen, timer, typed, kept>>
    BY <1>8, TakenIn DEF PublishEstimate, screenVars
  <2>2. \/ screen = "summary" /\ q.place = Destination /\ estimate' = q
             /\ newest' = IF q.no > newest THEN q.no ELSE newest
        \/ ~ (screen = "summary" /\ q.place = Destination) /\ UNCHANGED <<estimate, newest>>
    BY <1>8 DEF PublishEstimate
  <2> HIDE DEF q
  <2>3. Destination' = Destination
    BY <2>1 DEF Destination
  <2>4. q.no \in Nat /\ q.no <= asked["estimate"] /\ newest <= asked["estimate"] /\ q # None
    BY <1>a, <2>1, NoneAssumption DEF NumberInv
  <2>5. CASE q.no = asked["estimate"]
    BY <1>a, <2>1, <2>2, <2>3, <2>4, <2>5
  <2>6. CASE q.no # asked["estimate"]
    <3>1. Due("estimate") => Due("estimate")'
      BY <2>1, <2>6
    <3> QED BY <1>a, <2>1, <2>2, <2>3, <2>4, <2>6, <3>1
  <2> QED BY <2>5, <2>6
<1> QED BY <1>1, <1>2, <1>3, <1>4, <1>5, <1>6, <1>7, <1>8, StepCases

------------------------------------------------------------------------------
(* The invariant, and what follows.                                           *)

\* It holds when the wizard comes up, and every step keeps it.
THEOREM AnswersInductiveInvariant == Spec => []IInv
<1>1. Init => IInv
  <2> SUFFICES ASSUME Init PROVE IInv
    OBVIOUS
  <2>1. InFlight = {}
    BY SetOfEmpty DEF Init, InFlight
  <2>2. IsFiniteSet(busy) /\ Cardinality(busy) <= Workers
    BY FS_EmptySet, WorkersAssumption DEF Init
  <2>3. TypeOK
    <3>1. pool \in Seq(Questions) /\ posts \in Seq(Questions) /\ busy \subseteq Questions
      BY EmptySeq DEF Init
    <3>2. asked \in [Kinds -> Nat] /\ newest \in Nat
      BY DEF Init
    <3>3. passes \in 0 .. MaxPasses /\ turns \in 0 .. MaxTurns
      BY BoundAssumption DEF Init
    <3>4. /\ screen = "menu" /\ step = "other" /\ batch = None /\ done = {}
          /\ sliders \in Settings /\ lastRun = None /\ preview = None /\ estimate = None
          /\ typed = None /\ kept \in KeepSets /\ timer = FALSE /\ missed = {}
      BY SettingsAssumption DEF Init
    <3> QED BY <2>2, <3>1, <3>2, <3>3, <3>4 DEF TypeOK
  <2>4. asked["estimate"] = 0 /\ newest = 0 /\ estimate = None
    BY DEF Init, Kinds
  <2>5. NumberInv
    BY <2>1, <2>4 DEF NumberInv
  <2>6. PlaceInv /\ ScreenInv /\ PreviewInv /\ EstimateInv
    BY <2>1 DEF Init, PlaceInv, ScreenInv, PreviewInv, EstimateInv
  <2> QED BY <2>2, <2>3, <2>5, <2>6 DEF IInv
<1>2. IInv /\ [Next]_vars => IInv'
  BY NextTypes, NextNumbers, NextScreen, NextPreview, NextEstimate DEF IInv
<1> QED BY <1>1, <1>2, PTL DEF Spec

\* Types, and no more tasks in hand than there are threads.
THEOREM AnswersTypeCorrect == Spec => []TypeOK
<1>1. IInv => TypeOK
  BY DEF IInv
<1> QED BY <1>1, AnswersInductiveInvariant, PTL

\* Whatever was moved while counts were under way, on any number of threads: once they are
\* in, the line under the sliders is for where the sliders are.
THEOREM PreviewAlwaysFollowsSliders == Spec => []PreviewFollowsSliders
<1>1. IInv => PreviewFollowsSliders
  <2> SUFFICES ASSUME IInv, screen = "review", step = "quality", InFlight = {},
                      "preview" \notin missed
               PROVE  IF preview = None THEN lastRun = sliders ELSE preview.sliders = sliders
    BY DEF PreviewFollowsSliders, Quiet
  <2>1. done # {} /\ ~Due("preview")
    BY DEF IInv, PlaceInv, Due
  <2> QED BY <2>1 DEF IInv, PreviewInv
<1> QED BY <1>1, AnswersInductiveInvariant, PTL

\* And the summary shows an estimate, for its destination and for the photos that are kept,
\* unless the last call failed or an older answer came after a newer one.
THEOREM EstimateAlwaysFollowsSummary == Spec => []EstimateFollowsSummary
<1>1. IInv => EstimateFollowsSummary
  <2> SUFFICES ASSUME IInv, screen = "summary", InFlight = {}, ~timer,
                      "estimate" \notin missed, ~Overtaken
               PROVE  Shown # None /\ Shown.kept = kept
    BY DEF EstimateFollowsSummary, Quiet
  <2>1. estimate # None /\ newest = asked["estimate"]
    BY DEF IInv, EstimateInv, Due
  <2>2. estimate.no \in Nat /\ asked["estimate"] \in Nat
    BY <2>1, QuestionTypes DEF IInv, TypeOK, Kinds
  <2>3. estimate.no = asked["estimate"]
    BY <2>1, <2>2 DEF IInv, NumberInv, Overtaken
  <2>4. Meant(estimate)
    BY <2>1, <2>3 DEF IInv, EstimateInv
  <2> QED BY <2>1, <2>4 DEF Shown, Meant
<1> QED BY <1>1, AnswersInductiveInvariant, PTL
================================================================================
