----------------------------- MODULE ReviewProofs -----------------------------
(* What TLAPS proves of Review for all photos, batches, layouts and bounds.   *)
EXTENDS Review, SequenceTheorems, WellFoundedInduction, TLAPS

(***************************************************************************)
(* The inductive invariant.  Control says which pass and batch a screen is *)
(* about and when a run on all batches is over; CallsInv ties the call that *)
(* is heard to the screen and bounds what a call can still deliver.        *)
(***************************************************************************)
Control ==
  /\ screen \in {"running", "prep", "review", "failed"} => step \in StepNames /\ active \in Keys
  /\ screen = "prep" => step = "junk"
  /\ screen \notin {"running", "prep", "failed"} => runAll = NoStep
  /\ runAll \in {NoStep, step}

FoundBy(s) == IF s = "duplicates" THEN Groups ELSE Photos

CallsInv ==
  \A c \in calls :
    /\ c.found \subseteq FoundBy(c.step) /\ c.todo \subseteq c.found
    /\ c.work \subseteq c.scope
    /\ c.heard => /\ screen = "running" /\ c.step = step /\ c.key = active
                  /\ c.scope = batches[active]

SoundIntents == {i \in Intents : i.kept \cap i.deleted = {}}

\* No save, stored intent or intent in hand both keeps and deletes a photo.
SoundChoices ==
  intent \in SoundIntents /\ saves \in Seq(SoundIntents) /\ store.intent \in SoundIntents

\* DoneMeansCovered, and nothing is finished while trips are edited.
DoneInv ==
  /\ screen = "trips" => progress = {}
  /\ \A k \in Keys, s \in StepNames : Done(s, k) => batches[k] \subseteq covered[s]

\* The groups on the screen, in the database and in the hands of a call are each
\* disjoint; what the listened call has yet to deliver meets nothing shown.
GroupCall(c) ==
  /\ c.state = "asked" => c.found = {}
  /\ c.step = "duplicates" =>
       DisjointGroups(c.found) /\ \A g \in c.found : g.members \subseteq c.scope

MeetsOnlyOwn(c, shown) ==
  c.heard /\ c.step = "duplicates" =>
    \A g \in shown : g \in c.found \/ g.members \cap c.scope = {}

GroupsInv ==
  /\ GroupsDisjoint
  /\ \A c \in calls : GroupCall(c) /\ MeetsOnlyOwn(c, flags.similar)

\* What a call that is heard has told and has yet to tell, beside what it stored and has
\* found:  the flags of its pass outside its batch are never touched, and of the others
\* the rows of a stored or ended call are all there.
FlagNames == {"quality", "junk", "video", "similar"}

Untouched(c) ==
  LET rows == store.flags[FlagsOf(c.step)]
  IN  CASE c.state \in {"stored", "ended"} -> rows
        [] c.state \in {"asked", "working"} /\ c.step = "quality" -> rows \ c.scope
        [] c.state \in {"asked", "working"} /\ c.step = "duplicates" ->
             rows \ Touching(rows, c.scope)
        [] OTHER -> rows

\* The flags of a kind are shown as stored, but for what a stream left unread.
Told(x) ==
  flags[x] \subseteq store.flags[x] /\ store.flags[x] \subseteq flags[x] \cup unread[x]

Tells(c) ==
  /\ c.heard /\ c.state \in {"asked", "working", "stored", "ended"}
  /\ c.state = "asked" => c.found = {}
  /\ c.state \in {"stored", "ended"} => c.found \subseteq store.flags[FlagsOf(c.step)]
  /\ c.step # "duplicates" => c.found \subseteq c.work
  /\ c.step = "quality" /\ c.state # "asked" => c.work = c.scope \ Videos
  /\ \A x \in FlagNames \ {FlagsOf(c.step)} : Told(x)
  /\ flags[FlagsOf(c.step)] \cup c.todo \subseteq Untouched(c) \cup c.found
  /\ Untouched(c) \cup c.found
       \subseteq flags[FlagsOf(c.step)] \cup c.todo \cup unread[FlagsOf(c.step)]

StoredInv ==
  /\ store.flags.quality \cap Videos = {}
  /\ calls = {} => \A x \in FlagNames : Told(x)
  /\ \A c \in calls : Tells(c)

------------------------------------------------------------------------------
(* The operators the actions are built from.                                  *)

\* The first of some batches is one of them.
LEMMA FirstIsAmong ==
  ASSUME NEW keys \in SUBSET Keys, keys # {}
  PROVE  FirstOf(keys) \in keys
<1> DEFINE places == {Place[k] : k \in keys}
<1>1. places \subseteq Nat /\ places # {}
  BY LayoutAssumption
<1>2. PICK n \in places : \A m \in places : ~ (<<m, n>> \in OpToRel(<, Nat))
  BY <1>1, WFMin, NatLessThanWellFounded
<1>3. \A m \in places : n <= m
  <2> SUFFICES ASSUME NEW m \in places, m < n PROVE FALSE
    BY <1>1
  <2>1. <<m, n>> \in Nat \X Nat /\ <<m, n>>[1] < <<m, n>>[2]
    BY <1>1
  <2>2. <<m, n>> \in OpToRel(<, Nat)
    BY <2>1, Zenon DEF OpToRel
  <2> QED BY <1>2, <2>2
<1>4. \E k \in keys : \A m \in keys : Place[k] <= Place[m]
  BY <1>3
<1> QED BY <1>4 DEF FirstOf

\* Taking one task off the queue leaves tasks.
LEMMA RemoveAtType ==
  ASSUME NEW S, NEW s \in Seq(S), NEW i \in 1 .. Len(s)
  PROVE  RemoveAt(s, i) \in Seq(S)
<1>1. SubSeq(s, 1, i - 1) \in Seq(S) /\ SubSeq(s, i + 1, Len(s)) \in Seq(S)
  BY SubSeqProperties
<1> QED BY <1>1, ConcatProperties DEF RemoveAt

\* deleted_image_ids obeys a choice that does not contradict itself.
LEMMA DeletedObeys ==
  ASSUME NEW i \in SoundIntents, NEW fl
  PROVE  /\ DeletedIds(i, fl) \subseteq Photos
         /\ i.kept \cap DeletedIds(i, fl) = {} /\ i.deleted \subseteq DeletedIds(i, fl)
<1>1. i.kept \cap i.deleted = {} /\ i.deleted \subseteq Photos
  BY DEF SoundIntents, Intents
<1> QED BY <1>1 DEF DeletedIds, MarkedByAny, IsMarked

\* Every choice of the user leaves a choice that does not contradict itself.
LEMMA OneChoiceSound ==
  ASSUME NEW i \in SoundIntents, NEW p \in Photos
  PROVE  WithKept(i, p) \in SoundIntents /\ WithMarked(i, p) \in SoundIntents
BY DEF WithKept, WithMarked, SoundIntents, Intents

\* Keeping or marking all flagged photos does not contradict itself either.
LEMMA AllChoicesSound ==
  ASSUME NEW i \in SoundIntents, NEW ids \in SUBSET Photos
  PROVE  WithKeepAll(i, ids) \in SoundIntents /\ WithMarkAll(i, ids) \in SoundIntents
BY DEF WithKeepAll, WithMarkAll, SoundIntents, Intents

\* Nor does choosing the keeper of a group.
LEMMA KeeperSound ==
  ASSUME NEW i \in SoundIntents, NEW g \in GroupIds, NEW p \in Photos
  PROVE  WithKeeper(i, g, p) \in SoundIntents
BY DEF WithKeeper, SoundIntents, Intents

------------------------------------------------------------------------------
(* Types, screens and calls.                                                  *)

Shape == TypeOK /\ Control /\ CallsInv

\* Clearing the flags of a batch leaves flags.
LEMMA ClearedType ==
  ASSUME NEW fl \in Flags, NEW s \in StepNames, NEW scope
  PROVE  ClearedFor(fl, s, scope) \in Flags
BY DEF ClearedFor, Flags, Touching, StepNames

\* A pass is told to skip photos of the index.
LEMMA SkipType ==
  ASSUME NEW s \in StepNames, NEW fl
  PROVE  SkipFor(s, fl) \in SUBSET Photos
BY DEF SkipFor, StepNames, DeletedBeforeSimilar, DeletedBeforeJunk, DeletedBeforeVideo, MarkedByAny

\* A launched call is the one that is heard.
LEMMA LaunchShape ==
  ASSUME Shape, NEW s \in StepNames, NEW k \in Keys, NEW others \in SUBSET calls,
         \A c \in others : ~ c.heard,
         Launch(s, k, others), step' = s, active' = k, batches' = batches
  PROVE  /\ screen' = "running" /\ flags' \in Flags /\ unread' \in Flags
         /\ calls' \subseteq CallRecords
         /\ \A c, d \in calls' : c.heard /\ d.heard => c = d
         /\ CallsInv'
<1> DEFINE new == [step |-> s, key |-> k, scope |-> batches[k],
                   skip |-> SkipFor(s, ClearedFor(flags, s, batches[k])),
                   heard |-> TRUE, state |-> "asked", work |-> {}, whole |-> FALSE,
                   found |-> {}, todo |-> {}]
<1>1. screen' = "running" /\ flags' = ClearedFor(flags, s, batches[k]) /\ calls' = others \cup {new}
  BY DEF Launch
<1>2. new \in CallRecords
  BY SkipType DEF Shape, TypeOK, CallRecords
<1>3. flags' \in Flags /\ unread' \in Flags
  BY <1>1, ClearedType DEF Shape, TypeOK, Launch
<1>4. calls' \subseteq CallRecords /\ \A c, d \in calls' : c.heard /\ d.heard => c = d
  BY <1>1, <1>2 DEF Shape, TypeOK
<1>5. CallsInv'
  BY <1>1 DEF Shape, CallsInv
<1> QED BY <1>1, <1>3, <1>4, <1>5

\* A pass begins with a listened call or with the wait for the model.
LEMMA BeginShape ==
  ASSUME Shape, NEW s \in StepNames, NEW k \in Keys, NEW others \in SUBSET calls,
         \A c \in others : ~ c.heard,
         BeginPass(s, k, others), batches' = batches
  PROVE  /\ screen' \in {"running", "prep"} /\ step' = s /\ active' = k
         /\ screen' = "prep" => s = "junk"
         /\ flags' \in Flags /\ unread' \in Flags
         /\ calls' \subseteq CallRecords
         /\ \A c, d \in calls' : c.heard /\ d.heard => c = d
         /\ CallsInv'
<1>1. step' = s /\ active' = k
  BY DEF BeginPass
<1>2. CASE s = "junk" /\ ~ model
  BY <1>1, <1>2 DEF BeginPass, Shape, TypeOK, CallsInv
<1>3. CASE ~ (s = "junk" /\ ~ model)
  BY <1>1, <1>3, LaunchShape DEF BeginPass
<1> QED BY <1>2, <1>3

\* The updates of a call, each with the fields it leaves alone.
SameRequest(c, d) ==
  d.step = c.step /\ d.key = c.key /\ d.scope = c.scope

\* Cancelled: nothing is heard of it any more.
LEMMA Unheard ==
  ASSUME NEW c \in CallRecords
  PROVE  LET d == [c EXCEPT !.heard = FALSE, !.todo = {}]
         IN  /\ d \in CallRecords /\ SameRequest(c, d)
             /\ ~ d.heard /\ d.todo = {} /\ d.found = c.found /\ d.work = c.work
             /\ d.state = c.state
BY DEF CallRecords, SameRequest

AcceptedCall(c, w, f) ==
  [c EXCEPT !.state = "working", !.work = w, !.found = f, !.todo = f]

\* Taken by the engine.
LEMMA Accepted ==
  ASSUME NEW c \in CallRecords, NEW w \in SUBSET Photos,
         NEW f \in SUBSET (Photos \cup Groups)
  PROVE  LET d == AcceptedCall(c, w, f)
         IN  /\ d \in CallRecords /\ SameRequest(c, d) /\ d.heard = c.heard
             /\ d.work = w /\ d.found = f /\ d.todo = f /\ d.state = "working"
BY DEF CallRecords, SameRequest, AcceptedCall

\* Stored.
LEMMA SteppedWhole ==
  ASSUME NEW c \in CallRecords
  PROVE  LET d == [c EXCEPT !.state = "stored", !.whole = c.heard]
         IN  /\ d \in CallRecords /\ SameRequest(c, d) /\ d.heard = c.heard
             /\ d.work = c.work /\ d.found = c.found /\ d.todo = c.todo
             /\ d.state = "stored"
BY DEF CallRecords, SameRequest

\* Failed after some of its events.
LEMMA Failed ==
  ASSUME NEW c \in CallRecords, NEW sent \in SUBSET c.todo
  PROVE  LET d == [c EXCEPT !.state = "error", !.todo = sent]
         IN  /\ d \in CallRecords /\ SameRequest(c, d) /\ d.heard = c.heard
             /\ d.work = c.work /\ d.found = c.found /\ d.todo = sent /\ d.state = "error"
BY DEF CallRecords, SameRequest

\* Over, with some of its events unread.
LEMMA Ended ==
  ASSUME NEW c \in CallRecords, NEW lost
  PROVE  LET d == [c EXCEPT !.state = "ended", !.todo = @ \ lost]
         IN  /\ d \in CallRecords /\ SameRequest(c, d) /\ d.heard = c.heard
             /\ d.work = c.work /\ d.found = c.found /\ d.todo = c.todo \ lost
             /\ d.state = "ended"
BY DEF CallRecords, SameRequest

\* One event shorter.
LEMMA Delivered ==
  ASSUME NEW c \in CallRecords, NEW f
  PROVE  LET d == [c EXCEPT !.todo = @ \ {f}]
         IN  /\ d \in CallRecords /\ SameRequest(c, d) /\ d.heard = c.heard
             /\ d.work = c.work /\ d.found = c.found /\ d.todo = c.todo \ {f}
             /\ d.state = c.state
BY DEF CallRecords, SameRequest

\* The start screen.
LEMMA InitShape == Init => Shape
<1> SUFFICES ASSUME Init PROVE Shape
  OBVIOUS
<1>1. TypeOK
  BY LayoutAssumption, BoundAssumption, PhotoAssumption
  DEF Init, TypeOK, EmptyStore, NoFlags, Undecided, Flags, Intents
<1>2. Control /\ CallsInv
  BY DEF Init, Control, CallsInv
<1> QED BY <1>1, <1>2 DEF Shape

\* The user walks between the screens.
LEMMA MenuShape ==
  ASSUME Shape, Menu
  PROVE  Shape'
<1> USE DEF Shape
<1>1. CASE ContinueFromTrips
  <2>1. batches' \in [Keys -> SUBSET Photos]
    BY <1>1, LayoutAssumption DEF ContinueFromTrips, EnterBatchMode, TypeOK
  <2>2. TypeOK' /\ Control'
    BY <1>1, <2>1 DEF ContinueFromTrips, EnterBatchMode, TypeOK, Control, resultVars, boundVars
  <2>3. CallsInv'
    BY <1>1 DEF ContinueFromTrips, CallsInv
  <2> QED BY <2>2, <2>3
<1>2. CASE EditTrips
  BY <1>2 DEF EditTrips, TypeOK, Control, CallsInv, menuVars, resultVars, boundVars
<1>3. CASE ReopenOrganize
  BY <1>3 DEF ReopenOrganize, TypeOK, Control, CallsInv, menuVars, resultVars, boundVars
<1>4. CASE CancelJunkPrep \/ GoBackFromError \/ CloseBatchReview
  BY <1>4 DEF CancelJunkPrep, GoBackFromError, CloseBatchReview, ReturnToMenu, TypeOK, Control,
              CallsInv, menuVars, resultVars, boundVars
<1>5. CASE ContinueFromBatches \/ BackFromDeletionReview
  BY <1>5 DEF ContinueFromBatches, BackFromDeletionReview, TypeOK, Control,
              CallsInv, menuVars, resultVars, boundVars
<1>6. ASSUME NEW s \in Steps, NEW k \in Keys, ReviewBatchPass(s, k)
      PROVE  Shape'
  BY <1>6, StepAssumption DEF ReviewBatchPass, TypeOK, Control,
              CallsInv, menuVars, resultVars, boundVars, Batches
<1>7. CASE CancelPass
  <2>1. calls' \subseteq CallRecords /\ \A c \in calls' : ~ c.heard /\ c.todo = {}
    <3> SUFFICES ASSUME NEW d \in calls' PROVE d \in CallRecords /\ ~ d.heard /\ d.todo = {}
      OBVIOUS
    <3>1. PICK c \in calls : d = [c EXCEPT !.heard = FALSE, !.todo = {}]
      BY <1>7 DEF CancelPass
    <3> QED BY <3>1, Unheard DEF TypeOK
  <2>2. TypeOK' /\ Control'
    BY <1>7, <2>1 DEF CancelPass, ReturnToMenu, TypeOK, Control, resultVars, boundVars
  <2>3. CallsInv'
    <3> SUFFICES ASSUME NEW d \in calls'
                 PROVE  d.found \subseteq FoundBy(d.step) /\ d.work \subseteq d.scope
      BY <2>1 DEF CallsInv
    <3>1. PICK c \in calls : d = [c EXCEPT !.heard = FALSE, !.todo = {}]
      BY <1>7 DEF CancelPass
    <3>2. c \in CallRecords
      BY DEF TypeOK
    <3> QED BY <3>1, <3>2, Unheard DEF CallsInv, SameRequest
  <2> QED BY <2>2, <2>3
<1>8. ASSUME NEW s \in Steps, NEW k \in Keys, StartBatchPass(s, k)
      PROVE  Shape'
  <2>1. BeginPass(s, k, calls) /\ \A c \in calls : ~ c.heard
    BY <1>8 DEF StartBatchPass, CallsInv
  <2>2. batches' = batches /\ s \in StepNames
    BY <1>8, StepAssumption DEF StartBatchPass
  <2> QED BY <1>8, <2>1, <2>2, BeginShape, BoundAssumption
          DEF StartBatchPass, UserStarts, TypeOK, Control
<1>9. ASSUME NEW s \in Steps, StartPassOnAllBatches(s)
      PROVE  Shape'
  <2> DEFINE pending == {k \in Batches : ~ Done(s, k)}
  <2>1. BeginPass(s, FirstOf(pending), calls) /\ \A c \in calls : ~ c.heard
    BY <1>9 DEF StartPassOnAllBatches, StartOnAll, CallsInv
  <2>2. FirstOf(pending) \in Keys /\ queue' \subseteq Keys
    BY <1>9, FirstIsAmong DEF StartPassOnAllBatches, StartOnAll, Batches
  <2>3. batches' = batches /\ s \in StepNames
    BY <1>9, StepAssumption DEF StartPassOnAllBatches, StartOnAll
  <2> QED BY <1>9, <2>1, <2>2, <2>3, BeginShape, BoundAssumption
          DEF StartPassOnAllBatches, StartOnAll, UserStarts, TypeOK, Control
<1>10. CASE RerunQualityPass
  <2>1. Launch("quality", active, calls) /\ \A c \in calls : ~ c.heard
    BY <1>10 DEF RerunQualityPass, CallsInv
  <2>2. batches' = batches /\ step' = "quality" /\ active' = active /\ active \in Keys
    BY <1>10 DEF RerunQualityPass, Control
  <2> QED BY <1>10, <2>1, <2>2, LaunchShape, BoundAssumption
          DEF RerunQualityPass, UserStarts, TypeOK, Control, StepNames
<1> QED BY <1>1, <1>2, <1>3, <1>4, <1>5, <1>6, <1>7, <1>8, <1>9, <1>10 DEF Menu

\* What a call may find, and what it makes of the database.
LEMMA GroupingsType ==
  ASSUME NEW photos \in SUBSET Photos, NEW base,
         NEW G \in Groupings(photos, base), \A g \in G : g.id \in GroupIds
  PROVE  G \subseteq Groups
<1> DEFINE kin == {l \cap photos : l \in Lookalikes} \ ({{}} \cup {{p} : p \in photos})
           keeps == {k \in [kin -> photos] : \A m \in kin : k[m] \in m}
           Named(n, k) == {[id |-> base + n[m], members |-> m, keep |-> k[m]] : m \in kin}
<1>0. PICK n \in Injection(kin, 0 .. Cardinality(kin) - 1) : G \in {Named(n, k) : k \in keeps}
  BY Zenon DEF Groupings
<1>1. PICK k \in keeps : G = Named(n, k)
  BY <1>0, Zenon
<1>2. \A m \in kin : m \in SUBSET Photos /\ k[m] \in Photos
  OBVIOUS
<1> QED BY <1>1, <1>2 DEF Groups

\* A pass finds what its step flags.
LEMMA FindingsType ==
  ASSUME NEW c \in CallRecords, NEW work \in SUBSET Photos, NEW found \in Findings(c, work)
  PROVE  found \subseteq FoundBy(c.step)
<1>1. CASE c.step = "duplicates"
  BY <1>1, GroupingsType DEF Findings, FoundBy
<1>2. CASE c.step # "duplicates"
  BY <1>2 DEF Findings, FoundBy
<1> QED BY <1>1, <1>2

\* Storing leaves the database well formed and the stored choices alone.
LEMMA StoredType ==
  ASSUME TypeOK, NEW c \in CallRecords, c.found \subseteq FoundBy(c.step),
         NEW rows \in SUBSET Photos
  PROVE  /\ Stored(c, rows) \in [flags : Flags, seen : SUBSET Photos, intent : Intents,
                                done : SUBSET (StepNames \X Keys)]
         /\ Stored(c, rows).intent = store.intent
<1>1. c.step \in StepNames
  BY DEF CallRecords
<1>2. CASE c.step = "quality"
  BY <1>2 DEF Stored, TypeOK, Flags
<1>3. CASE c.step = "duplicates"
  BY <1>3 DEF Stored, TypeOK, Flags, FoundBy, Touching
<1>4. CASE c.step \in {"junk", "video"}
  BY <1>4 DEF Stored, TypeOK, Flags
<1> QED BY <1>1, <1>2, <1>3, <1>4 DEF StepNames

\* The engine changes calls and the database only.
LEMMA EngineShape ==
  ASSUME Shape, Engine
  PROVE  Shape' /\ store'.intent = store.intent
<1> USE DEF Shape
<1>1. PICK c \in calls :
        Accept(c) \/ Checkpoint(c) \/ StoreResults(c) \/ EndCall(c) \/ FailCall(c)
  BY DEF Engine
<1>2. c \in CallRecords /\ c.found \subseteq FoundBy(c.step) /\ c.todo \subseteq c.found
      /\ c.work \subseteq c.scope /\ c.scope \subseteq Photos
  BY DEF TypeOK, CallsInv, CallRecords
<1>3. EngineStep
  BY <1>1 DEF Accept, Checkpoint, StoreResults, EndCall, FailCall
<1> DEFINE StoreType == [flags : Flags, seen : SUBSET Photos, intent : Intents,
                         done : SUBSET (StepNames \X Keys)]
           Successor(d) == /\ d \in CallRecords /\ SameRequest(c, d)
                           /\ d.heard = c.heard /\ d.todo \subseteq d.found
                           /\ d.found \subseteq FoundBy(d.step) /\ d.work \subseteq d.scope
<1>4. /\ store' \in StoreType /\ store'.intent = store.intent
      /\ calls' \in {calls, calls \ {c}} \/ \E d : Successor(d) /\ Becomes(c, d)
  <2>1. CASE Accept(c)
    <3>1. WorkOf(c) \subseteq c.scope
      BY <1>2 DEF WorkOf, CallRecords, StepNames
    <3>2. PICK found \in Findings(c, WorkOf(c)) : Becomes(c, AcceptedCall(c, WorkOf(c), found))
      BY <2>1 DEF Accept, AcceptedCall
    <3>3. found \subseteq FoundBy(c.step)
      BY <1>2, <3>1, FindingsType
    <3>4. found \in SUBSET (Photos \cup Groups)
      BY <3>3 DEF FoundBy
    <3>5. Successor(AcceptedCall(c, WorkOf(c), found))
      BY <1>2, <3>1, <3>3, <3>4, Accepted DEF SameRequest
    <3> QED BY <2>1, <3>2, <3>5 DEF Accept, TypeOK
  <2>2. CASE Checkpoint(c)
    BY <1>2, <2>2, StoredType DEF Checkpoint
  <2>3. CASE StoreResults(c)
    <3>1. Successor([c EXCEPT !.state = "stored", !.whole = c.heard])
      BY <1>2, SteppedWhole DEF SameRequest
    <3>2. PICK rows \in SUBSET c.work : store' = Stored(c, rows)
      BY <2>3 DEF StoreResults
    <3>3. store' \in StoreType /\ store'.intent = store.intent
      BY <1>2, <3>2, StoredType
    <3>4. Becomes(c, [c EXCEPT !.state = "stored", !.whole = c.heard])
      BY <2>3 DEF StoreResults
    <3> QED BY <3>1, <3>3, <3>4
  <2>4. CASE EndCall(c)
    <3>1. ASSUME NEW lost
          PROVE  Successor([c EXCEPT !.state = "ended", !.todo = @ \ lost])
      <4> DEFINE d == [c EXCEPT !.state = "ended", !.todo = @ \ lost]
      <4>1. /\ d \in CallRecords /\ SameRequest(c, d) /\ d.heard = c.heard
            /\ d.work = c.work /\ d.found = c.found /\ d.todo = c.todo \ lost
        BY <1>2, Ended
      <4> HIDE DEF d
      <4>2. Successor(d)
        BY <1>2, <4>1 DEF SameRequest
      <4> QED BY <4>2 DEF d
    <3>2. store' \in StoreType /\ store'.intent = store.intent
      <4>1. PICK stamp \in BOOLEAN :
              store' = IF stamp THEN [store EXCEPT !.done = @ \cup {<<c.step, c.key>>}] ELSE store
        BY <2>4 DEF EndCall
      <4>2. <<c.step, c.key>> \in StepNames \X Keys
        BY <1>2 DEF CallRecords
      <4> QED BY <4>1, <4>2 DEF TypeOK
    <3>3. calls' \in {calls, calls \ {c}} \/ \E d : Successor(d) /\ Becomes(c, d)
      BY <2>4, <3>1 DEF EndCall
    <3> QED BY <3>2, <3>3
  <2>5. CASE FailCall(c)
    <3>1. ASSUME NEW sent \in SUBSET c.todo
          PROVE  Successor([c EXCEPT !.state = "error", !.todo = sent])
      <4> DEFINE d == [c EXCEPT !.state = "error", !.todo = sent]
      <4>1. /\ d \in CallRecords /\ SameRequest(c, d) /\ d.heard = c.heard
            /\ d.work = c.work /\ d.found = c.found /\ d.todo = sent /\ d.state = "error"
        BY <1>2, Failed
      <4> HIDE DEF d
      <4>2. Successor(d)
        BY <1>2, <4>1 DEF SameRequest
      <4> QED BY <4>2 DEF d
    <3> QED BY <2>5, <3>1 DEF FailCall, TypeOK
  <2> QED BY <1>1, <2>1, <2>2, <2>3, <2>4, <2>5
<1>5. calls' \subseteq CallRecords /\ (\A a, b \in calls' : a.heard /\ b.heard => a = b) /\ CallsInv'
  <2>1. CASE calls' \in {calls, calls \ {c}}
    BY <1>3, <2>1 DEF TypeOK, CallsInv, EngineStep, menuVars
  <2>2. CASE \E d : Successor(d) /\ Becomes(c, d)
    BY <1>3, <2>2 DEF TypeOK, CallsInv, EngineStep, menuVars, Becomes, SameRequest
  <2> QED BY <1>4, <2>1, <2>2
<1>6. unread' \in Flags
  <2>1. CASE EndCall(c)
    <3>1. unread' = unread
          \/ \E lost \in SUBSET c.todo : unread' = [unread EXCEPT ![FlagsOf(c.step)] = @ \cup lost]
      BY <2>1 DEF EndCall
    <3>2. c.step \in StepNames
      BY <1>2 DEF CallRecords
    <3> QED BY <1>2, <3>1, <3>2 DEF FlagsOf, FoundBy, TypeOK, Flags, StepNames
  <2>2. CASE ~ EndCall(c)
    BY <1>1, <2>2 DEF Accept, Checkpoint, StoreResults, FailCall, TypeOK
  <2> QED BY <2>1, <2>2
<1>7. TypeOK' /\ Control'
  BY <1>3, <1>4, <1>5, <1>6 DEF TypeOK, Control, EngineStep, menuVars, resultVars, boundVars
<1> QED BY <1>4, <1>5, <1>7

\* An event reaches the wizard.
LEMMA DeliverShape ==
  ASSUME Shape, NEW c \in calls, NEW f \in c.todo, DeliverFlag(c, f)
  PROVE  Shape'
<1> USE DEF Shape
<1>1. c \in CallRecords /\ c.found \subseteq FoundBy(c.step) /\ c.todo \subseteq c.found
  BY DEF TypeOK, CallsInv
<1>2. f \in FoundBy(c.step) /\ c.step \in StepNames
  BY <1>1 DEF CallRecords
<1>3. flags' \in Flags
  BY <1>2 DEF DeliverFlag, FlagsOf, FoundBy, TypeOK, Flags, StepNames
<1> DEFINE d == [c EXCEPT !.todo = @ \ {f}]
<1>4. /\ d \in CallRecords /\ SameRequest(c, d) /\ d.heard = c.heard
      /\ d.work = c.work /\ d.found = c.found /\ d.todo = c.todo \ {f}
  BY <1>1, Delivered
<1>5. calls' = (calls \ {c}) \cup {d}
  BY DEF DeliverFlag, Becomes
<1> HIDE DEF d
<1>6. calls' \subseteq CallRecords /\ \A a, b \in calls' : a.heard /\ b.heard => a = b
  BY <1>4, <1>5 DEF TypeOK
<1>7. CallsInv'
  BY <1>4, <1>5 DEF CallsInv, SameRequest, DeliverFlag, menuVars
<1>8. TypeOK' /\ Control'
  BY <1>3, <1>6 DEF TypeOK, Control, DeliverFlag, menuVars, boundVars
<1> QED BY <1>7, <1>8

\* The end of a run, and the next one of a run on all batches.
LEMMA OnDoneShape ==
  ASSUME Shape, SoundChoices, NEW c \in calls, OnDone(c)
  PROVE  Shape'
<1> USE DEF Shape
<1> DEFINE others == calls \ {c}
<1>1. /\ c \in CallRecords /\ c.heard /\ screen = "running"
      /\ c.step = step /\ c.key = active /\ c.scope = batches[active]
      /\ c.step \in StepNames /\ active \in Keys /\ c.scope \subseteq Photos
  BY DEF TypeOK, CallsInv, Control, OnDone, CallRecords
<1>2. others \in SUBSET calls /\ \A d \in others : ~ d.heard
  BY <1>1 DEF TypeOK
<1>3. /\ progress' \subseteq StepNames \X Keys /\ marked' \subseteq Photos
      /\ covered' \in [StepNames -> SUBSET Photos]
      /\ batches' = batches
  BY <1>1, DeletedObeys DEF OnDone, FinishBatchRun, TypeOK, SoundChoices
<1>4. /\ screen' \in {"running", "prep", "menu", "review"}
      /\ step' \in StepNames \cup {NoStep} /\ active' \in Keys \cup {NoKey}
      /\ queue' \subseteq Keys /\ flags' \in Flags /\ unread' \in Flags
      /\ calls' \subseteq CallRecords
      /\ \A a, b \in calls' : a.heard /\ b.heard => a = b
      /\ runAll' \in StepNames \cup {NoStep}
      /\ CallsInv' /\ Control'
  <2>1. CASE runAll # c.step
    BY <1>1, <1>2, <1>3, <2>1 DEF OnDone, FinishBatchRun, TypeOK, Control, CallsInv
  <2>2. CASE runAll = c.step /\ queue # {}
    <3>1. /\ BeginPass(c.step, FirstOf(queue), others)
          /\ queue' = queue \ {FirstOf(queue)} /\ runAll' = runAll
      BY <2>2 DEF OnDone, FinishBatchRun
    <3>2. queue \in SUBSET Keys
      BY DEF TypeOK
    <3>3. FirstOf(queue) \in Keys /\ queue' \subseteq Keys
      BY <2>2, <3>1, <3>2, FirstIsAmong
    <3> QED BY <1>1, <1>2, <1>3, <2>2, <3>1, <3>3, BeginShape DEF Control
  <2>3. CASE runAll = c.step /\ queue = {}
    BY <1>1, <1>2, <1>3, <2>3 DEF OnDone, FinishBatchRun, ReturnToMenu, TypeOK, Control, CallsInv
  <2> QED BY <2>1, <2>2, <2>3
<1>5. UNCHANGED <<plan, intent, model, saves, store, runs, choices>>
  BY DEF OnDone, boundVars
<1>6. TypeOK'
  BY <1>3, <1>4, <1>5 DEF TypeOK
<1> QED BY <1>4, <1>6

\* A run fails.
LEMMA OnErrorShape ==
  ASSUME Shape, NEW c \in calls, OnError(c)
  PROVE  Shape'
<1> USE DEF Shape
<1>1. \A d \in calls' : d \in calls /\ ~ d.heard
  BY DEF OnError, TypeOK
<1>2. TypeOK' /\ Control'
  BY <1>1 DEF OnError, TypeOK, Control, CallsInv, resultVars, boundVars
<1>3. CallsInv'
  BY <1>1 DEF OnError, CallsInv
<1> QED BY <1>2, <1>3

\* The model is ready, and a waiting junk pass starts.
LEMMA SetModelReadyShape ==
  ASSUME Shape, SetModelReady
  PROVE  Shape'
<1> USE DEF Shape
<1>1. batches' = batches /\ step' = step /\ active' = active
  BY DEF SetModelReady
<1>2. CASE screen = "prep"
  <2>1. \A c \in calls : ~ c.heard
    BY <1>2 DEF CallsInv
  <2> QED BY <1>1, <1>2, <2>1, LaunchShape DEF SetModelReady, TypeOK, Control, StepNames, boundVars
<1>3. CASE screen # "prep"
  BY <1>1, <1>3 DEF SetModelReady, TypeOK, Control, CallsInv, boundVars
<1> QED BY <1>2, <1>3

\* A choice, and what it leaves decided.
LEMMA ChooseShape ==
  ASSUME Shape, SoundChoices, NEW new \in SoundIntents, Choose(new)
  PROVE  Shape' /\ SoundChoices' /\ ChoicesWin'
<1> USE DEF Shape
<1>1. new \in Intents
  BY DEF SoundIntents
<1>2. /\ saves' \in Seq(Intents) /\ saves' \in Seq(SoundIntents)
      /\ marked' \subseteq Photos /\ choices' \in 0 .. MaxChoices
  BY <1>1, DeletedObeys, BoundAssumption DEF Choose, TypeOK, SoundChoices
<1>3. TypeOK' /\ Control' /\ CallsInv'
  BY <1>1, <1>2 DEF Choose, TypeOK, Control, CallsInv, menuVars
<1>4. SoundChoices' /\ ChoicesWin'
  BY <1>2, DeletedObeys DEF Choose, SoundChoices, ChoicesWin
<1> QED BY <1>3, <1>4

\* Every kind of choice.
LEMMA UserChoosesShape ==
  ASSUME Shape, SoundChoices, UserChooses
  PROVE  Shape' /\ SoundChoices' /\ ChoicesWin'
<1> USE DEF Shape
<1>1. \A k \in Keys : batches[k] \in SUBSET Photos
  BY DEF TypeOK
<1>2. screen = "review" => active \in Keys
  BY DEF Control
<1>3. intent \in SoundIntents
  BY DEF SoundChoices
<1>4. CASE screen \in {"review", "final"} /\ KeepImage
  <2>1. PICK p \in Photos : Choose(WithKept(intent, p))
    BY <1>1, <1>2, <1>4 DEF KeepImage, Listed, TypeOK
  <2>2. WithKept(intent, p) \in SoundIntents
    BY <1>3, OneChoiceSound
  <2> QED BY <2>1, <2>2, ChooseShape
<1>5. CASE MarkImage
  <2>1. PICK p \in Photos : Choose(WithMarked(intent, p))
    BY <1>1, <1>2, <1>5 DEF MarkImage
  <2>2. WithMarked(intent, p) \in SoundIntents
    BY <1>3, OneChoiceSound
  <2> QED BY <2>1, <2>2, ChooseShape
<1>6. CASE KeepAllFlagged \/ MarkAllFlagged
  <2>1. FlaggedInScope \in SUBSET Photos
    BY <1>1, <1>2, <1>6 DEF KeepAllFlagged, MarkAllFlagged, FlaggedInScope
  <2>2. /\ WithKeepAll(intent, FlaggedInScope) \in SoundIntents
        /\ WithMarkAll(intent, FlaggedInScope) \in SoundIntents
    BY <1>3, <2>1, AllChoicesSound
  <2> QED BY <1>6, <2>2, ChooseShape DEF KeepAllFlagged, MarkAllFlagged
<1>7. CASE SetGroupKeeper
  <2>1. PICK g \in Groups, p \in Photos : Choose(WithKeeper(intent, g.id, p))
    BY <1>7 DEF SetGroupKeeper, Touching, TypeOK, Flags, Groups
  <2>2. g.id \in GroupIds
    BY DEF Groups
  <2>3. WithKeeper(intent, g.id, p) \in SoundIntents
    BY <1>3, <2>2, KeeperSound
  <2> QED BY <2>1, <2>3, ChooseShape
<1> QED BY <1>4, <1>5, <1>6, <1>7 DEF UserChooses

\* A pool thread stores one of the choices.
LEMMA RunSaveShape ==
  ASSUME Shape, SoundChoices, RunSave
  PROVE  Shape' /\ SoundChoices'
<1> USE DEF Shape
<1>1. PICK i \in 1 .. Len(saves) :
        saves' = RemoveAt(saves, i) /\ store' = [store EXCEPT !.intent = saves[i]]
  BY DEF RunSave
<1>2. saves' \in Seq(Intents) /\ saves' \in Seq(SoundIntents)
  BY <1>1, RemoveAtType DEF TypeOK, SoundChoices
<1>3. saves[i] \in SoundIntents /\ saves[i] \in Intents
  BY <1>1 DEF SoundChoices, SoundIntents
<1>4. /\ store'.intent \in SoundIntents
      /\ store' \in [flags : Flags, seen : SUBSET Photos, intent : Intents,
                    done : SUBSET (StepNames \X Keys)]
  BY <1>1, <1>3 DEF TypeOK
<1>5. TypeOK' /\ Control' /\ CallsInv'
  BY <1>2, <1>4 DEF RunSave, TypeOK, Control, CallsInv, menuVars, resultVars, boundVars
<1>6. SoundChoices'
  BY <1>2, <1>4 DEF RunSave, SoundChoices, resultVars
<1> QED BY <1>5, <1>6

\* The app is opened again.
LEMMA ResumeShape ==
  ASSUME Shape, SoundChoices, Resume
  PROVE  Shape' /\ SoundChoices' /\ ChoicesWin'
<1> USE DEF Shape
<1>1. intent' \in SoundIntents /\ intent' = store.intent /\ marked' = DeletedIds(intent', flags')
  BY DEF Resume, SoundChoices
<1>2. marked' \subseteq Photos /\ ChoicesWin'
  BY <1>1, DeletedObeys DEF ChoicesWin
<1>3. batches' \in [Keys -> SUBSET Photos]
  BY LayoutAssumption DEF Resume, EnterBatchMode, TypeOK
<1>4. unread' \in Flags
  BY DEF Resume, NoFlags, Flags
<1>5. TypeOK' /\ Control' /\ CallsInv'
  BY <1>1, <1>2, <1>3, <1>4 DEF Resume, EnterBatchMode, TypeOK, Control, CallsInv, boundVars
<1>6. SoundChoices'
  BY <1>1 DEF Resume, SoundChoices
<1> QED BY <1>2, <1>5, <1>6

\* Whatever happens, screens, calls and choices stay in shape.
LEMMA ShapeStep == Shape /\ SoundChoices /\ [Next]_vars => Shape' /\ SoundChoices'
<1> SUFFICES ASSUME Shape, SoundChoices, [Next]_vars
             PROVE  Shape' /\ SoundChoices'
  OBVIOUS
<1>1. CASE Menu
  <2>1. UNCHANGED <<intent, saves, store>>
    BY <1>1 DEF Menu, ContinueFromTrips, EditTrips, ReopenOrganize, StartPassOnAllBatches,
                StartOnAll, StartBatchPass, ReviewBatchPass, RerunQualityPass, CancelJunkPrep,
                GoBackFromError, CancelPass, CloseBatchReview, ContinueFromBatches,
                BackFromDeletionReview, resultVars
  <2> QED BY <1>1, <2>1, MenuShape DEF SoundChoices
<1>2. CASE SetModelReady
  BY <1>2, SetModelReadyShape DEF SetModelReady, SoundChoices
<1>3. CASE UserChooses
  BY <1>3, UserChoosesShape
<1>4. CASE RunSave
  BY <1>4, RunSaveShape
<1>5. CASE Engine
  <2>1. UNCHANGED <<intent, saves>>
    BY <1>5 DEF Engine, Accept, Checkpoint, StoreResults, EndCall, FailCall, EngineStep, resultVars
  <2> QED BY <1>5, <2>1, EngineShape DEF SoundChoices
<1>6. CASE Listen
  <2>1. PICK c \in calls : OnDone(c) \/ OnError(c) \/ \E f \in c.todo : DeliverFlag(c, f)
    BY <1>6 DEF Listen
  <2>2. UNCHANGED <<intent, saves, store>>
    BY <2>1 DEF OnDone, OnError, DeliverFlag, resultVars
  <2> QED BY <2>1, <2>2, OnDoneShape, OnErrorShape, DeliverShape DEF SoundChoices
<1>7. CASE Resume
  BY <1>7, ResumeShape
<1>8. CASE UNCHANGED vars
  BY <1>8 DEF vars, menuVars, resultVars, boundVars, Shape, TypeOK, Control, CallsInv, SoundChoices
<1> QED BY <1>1, <1>2, <1>3, <1>4, <1>5, <1>6, <1>7, <1>8 DEF Next

------------------------------------------------------------------------------
(* The user's choices win.                                                    *)

\* marked is computed anew wherever choices change.
LEMMA ChoicesStep ==
  Shape /\ SoundChoices /\ ChoicesWin /\ [Next]_vars => ChoicesWin'
<1> SUFFICES ASSUME Shape, SoundChoices, ChoicesWin, [Next]_vars
             PROVE  ChoicesWin'
  OBVIOUS
<1>1. CASE UserChooses \/ Resume
  BY <1>1, UserChoosesShape, ResumeShape
<1>2. ASSUME NEW c \in calls, OnDone(c)
      PROVE  ChoicesWin'
  BY <1>2, DeletedObeys DEF OnDone, SoundChoices, ChoicesWin
<1>3. CASE UNCHANGED <<intent, marked>>
  BY <1>3 DEF ChoicesWin
<1>4. CASE Menu
  <2>1. UNCHANGED <<intent, marked>>
    BY <1>4 DEF Menu, ContinueFromTrips, EditTrips, ReopenOrganize, StartPassOnAllBatches,
                StartOnAll, StartBatchPass, ReviewBatchPass, RerunQualityPass, CancelJunkPrep,
                GoBackFromError, CancelPass, CloseBatchReview, ContinueFromBatches,
                BackFromDeletionReview, resultVars
  <2> QED BY <2>1, <1>3
<1>5. CASE Engine
  BY <1>3, <1>5 DEF Engine, Accept, Checkpoint, StoreResults, EndCall, FailCall, EngineStep,
                    resultVars
<1>6. CASE Listen
  BY <1>2, <1>3, <1>6 DEF Listen, OnError, DeliverFlag, resultVars
<1>7. CASE SetModelReady \/ RunSave \/ UNCHANGED vars
  BY <1>3, <1>7 DEF SetModelReady, RunSave, vars, resultVars
<1> QED BY <1>1, <1>4, <1>5, <1>6, <1>7 DEF Next

------------------------------------------------------------------------------
(* A run on all batches.                                                      *)

\* The end of one batch's run hands on to the next in the queue.
LEMMA HandsOn ==
  ASSUME Shape, RunAllForgetsNone, NEW c \in calls, OnDone(c)
  PROVE  RunAllForgetsNone'
<1>1. c.step = step /\ batches' = batches /\ runAll \in {NoStep, step}
  BY DEF Shape, CallsInv, OnDone, Control
<1>2. progress' = progress \cup {<<c.step, active>>}
  BY DEF OnDone, FinishBatchRun
<1>3. CASE runAll # c.step
  BY <1>1, <1>3 DEF OnDone, FinishBatchRun, RunAllForgetsNone
<1>4. CASE runAll = c.step /\ queue # {}
  <2>1. active' = FirstOf(queue) /\ queue' = queue \ {FirstOf(queue)} /\ runAll' = runAll
    BY <1>4 DEF OnDone, FinishBatchRun, BeginPass
  <2> QED BY <1>1, <1>2, <1>4, <2>1 DEF RunAllForgetsNone, Batches, Done
<1>5. CASE runAll = c.step /\ queue = {}
  BY <1>5 DEF OnDone, FinishBatchRun, ReturnToMenu, RunAllForgetsNone
<1> QED BY <1>3, <1>4, <1>5

\* No step loses a batch of a run on all.
LEMMA RunAllStep ==
  Shape /\ RunAllForgetsNone /\ [Next]_vars => RunAllForgetsNone'
<1> SUFFICES ASSUME Shape, RunAllForgetsNone, [Next]_vars
             PROVE  RunAllForgetsNone'
  OBVIOUS
<1>1. CASE runAll' = NoStep
  BY <1>1 DEF RunAllForgetsNone
<1>2. CASE UNCHANGED <<active, queue, runAll, batches, progress>>
  BY <1>2 DEF RunAllForgetsNone, Batches, Done
<1>3. screen \notin {"running", "prep", "failed"} => runAll = NoStep
  BY DEF Shape, Control
<1>4. CASE Menu
  <2>1. CASE ContinueFromTrips \/ CancelJunkPrep \/ GoBackFromError \/ CancelPass \/ CloseBatchReview
    BY <1>1, <2>1 DEF ContinueFromTrips, EnterBatchMode, CancelJunkPrep, GoBackFromError,
                      CancelPass, CloseBatchReview, ReturnToMenu
  <2>2. CASE ReopenOrganize \/ ContinueFromBatches \/ EditTrips \/ BackFromDeletionReview
             \/ RerunQualityPass
    BY <1>1, <1>3, <2>2 DEF ReopenOrganize, ContinueFromBatches, EditTrips, menuVars,
                            BackFromDeletionReview, RerunQualityPass
  <2>3. ASSUME NEW s \in Steps, NEW k \in Keys, StartBatchPass(s, k) \/ ReviewBatchPass(s, k)
        PROVE  RunAllForgetsNone'
    BY <1>1, <1>3, <2>3 DEF StartBatchPass, ReviewBatchPass
  <2>4. ASSUME NEW s \in Steps, StartPassOnAllBatches(s)
        PROVE  RunAllForgetsNone'
    <3> DEFINE pending == {k \in Batches : ~ Done(s, k)}
    <3>1. /\ runAll' = s /\ active' = FirstOf(pending)
          /\ queue' = pending \ {FirstOf(pending)}
          /\ batches' = batches /\ progress' = progress
      BY <2>4 DEF StartPassOnAllBatches, StartOnAll, BeginPass
    <3> QED BY <3>1 DEF RunAllForgetsNone, Batches, Done
  <2> QED BY <1>4, <2>1, <2>2, <2>3, <2>4 DEF Menu
<1>5. CASE SetModelReady \/ UserChooses \/ RunSave \/ UNCHANGED vars
  BY <1>2, <1>5 DEF SetModelReady, UserChooses, KeepImage, MarkImage, KeepAllFlagged,
       MarkAllFlagged, SetGroupKeeper, Choose, RunSave, vars, menuVars, resultVars
<1>6. CASE Engine
  BY <1>2, <1>6 DEF Engine, Accept, Checkpoint, StoreResults, EndCall, FailCall, EngineStep,
       menuVars, resultVars
<1>7. CASE Listen
  BY <1>2, <1>7, HandsOn DEF Listen, OnError, DeliverFlag, menuVars, resultVars
<1>8. CASE Resume
  BY <1>1, <1>8 DEF Resume, EnterBatchMode
<1> QED BY <1>4, <1>5, <1>6, <1>7, <1>8 DEF Next

------------------------------------------------------------------------------
(* What counts as finished was run over, in one launch of the app.            *)

\* No step finishes a pass over photos that no run saw.
LEMMA DoneStep ==
  ASSUME ~ Resumes
  PROVE  Shape /\ DoneInv /\ [Next]_vars => DoneInv'
<1> SUFFICES ASSUME Shape, DoneInv, [Next]_vars
             PROVE  DoneInv'
  OBVIOUS
<1>1. CASE UNCHANGED <<progress, batches, covered>> /\ (screen' = "trips" => screen = "trips")
  BY <1>1 DEF DoneInv, Done
<1>2. CASE progress' = {}
  BY <1>2 DEF DoneInv, Done
<1>3. CASE Menu
  <2>1. CASE ContinueFromTrips
    BY <1>2, <2>1 DEF ContinueFromTrips, DoneInv, resultVars
  <2>2. CASE ReopenOrganize
    BY <1>2, <2>2 DEF ReopenOrganize
  <2>3. CASE EditTrips \/ CancelJunkPrep \/ GoBackFromError \/ CancelPass \/ CloseBatchReview
             \/ ContinueFromBatches \/ BackFromDeletionReview \/ RerunQualityPass
    BY <1>1, <2>3 DEF EditTrips, CancelJunkPrep, GoBackFromError, CancelPass, CloseBatchReview,
         ReturnToMenu, ContinueFromBatches, BackFromDeletionReview, RerunQualityPass, Launch,
         menuVars, resultVars
  <2>4. ASSUME NEW s \in Steps, NEW k \in Keys, StartBatchPass(s, k) \/ ReviewBatchPass(s, k)
        PROVE  DoneInv'
    BY <1>1, <2>4 DEF StartBatchPass, ReviewBatchPass, BeginPass, Launch, resultVars
  <2>5. ASSUME NEW s \in Steps, StartPassOnAllBatches(s)
        PROVE  DoneInv'
    BY <1>1, <2>5 DEF StartPassOnAllBatches, StartOnAll, BeginPass, Launch
  <2> QED BY <1>3, <2>1, <2>2, <2>3, <2>4, <2>5 DEF Menu
<1>4. CASE SetModelReady \/ UserChooses \/ RunSave \/ UNCHANGED vars
  BY <1>1, <1>4 DEF SetModelReady, Launch, UserChooses, KeepImage, MarkImage, KeepAllFlagged,
       MarkAllFlagged, SetGroupKeeper, Choose, RunSave, vars, menuVars, resultVars
<1>5. CASE Engine
  BY <1>1, <1>5 DEF Engine, Accept, Checkpoint, StoreResults, EndCall, FailCall, EngineStep,
       menuVars, resultVars
<1>6. ASSUME NEW c \in calls, OnDone(c)
      PROVE  DoneInv'
  <2>1. c.step \in StepNames /\ c.key = active /\ c.scope = batches[active] /\ screen = "running"
    BY <1>6 DEF Shape, TypeOK, CallsInv, OnDone, CallRecords
  <2>2. /\ progress' = progress \cup {<<c.step, active>>} /\ batches' = batches
        /\ covered' = [covered EXCEPT ![c.step] = @ \cup c.scope]
    BY <1>6 DEF OnDone, FinishBatchRun
  <2>3. \A s \in StepNames : covered[s] \subseteq covered'[s]
    BY <2>2 DEF Shape, TypeOK
  <2>4. batches[active] \subseteq covered'[c.step]
    BY <2>1, <2>2 DEF Shape, TypeOK
  <2>5. screen' # "trips"
    BY <1>6, <2>1 DEF OnDone, FinishBatchRun, BeginPass, Launch, ReturnToMenu
  <2> QED BY <2>2, <2>3, <2>4, <2>5 DEF DoneInv, Done
<1>7. CASE Listen
  BY <1>1, <1>6, <1>7 DEF Listen, OnError, DeliverFlag, menuVars, resultVars
<1> QED BY <1>3, <1>4, <1>5, <1>7 DEF Next, Resume

------------------------------------------------------------------------------
(* Duplicate groups.                                                          *)

\* What find_similar_images returns for some photos.
LEMMA GroupingsApart ==
  ASSUME NEW photos, NEW base, NEW G \in Groupings(photos, base)
  PROVE  DisjointGroups(G) /\ \A g \in G : g.members \subseteq photos
<1> DEFINE kin == {l \cap photos : l \in Lookalikes} \ ({{}} \cup {{p} : p \in photos})
           keeps == {k \in [kin -> photos] : \A m \in kin : k[m] \in m}
           Named(n, k) == {[id |-> base + n[m], members |-> m, keep |-> k[m]] : m \in kin}
<1>1. PICK n \in Injection(kin, 0 .. Cardinality(kin) - 1) : G \in {Named(n, k) : k \in keeps}
  BY Zenon DEF Groupings
<1>2. PICK k \in keeps : G = Named(n, k)
  BY <1>1, Zenon
<1>3. ASSUME NEW l \in kin, NEW m \in kin, l # m
      PROVE  l \cap m = {}
  <2>1. PICK a \in Lookalikes : l = a \cap photos
    OBVIOUS
  <2>2. PICK b \in Lookalikes : m = b \cap photos
    OBVIOUS
  <2>3. a \cap b = {}
    BY <1>3, <2>1, <2>2, LayoutAssumption
  <2> QED BY <2>1, <2>2, <2>3
<1>4. \A g \in G : \E m \in kin : g = [id |-> base + n[m], members |-> m, keep |-> k[m]]
  BY <1>2
<1>5. ASSUME NEW g \in G, NEW h \in G, g # h
      PROVE  g.members \cap h.members = {}
  <2>1. PICK l \in kin : g = [id |-> base + n[l], members |-> l, keep |-> k[l]]
    BY <1>4
  <2>2. PICK m \in kin : h = [id |-> base + n[m], members |-> m, keep |-> k[m]]
    BY <1>4
  <2>3. l # m
    BY <1>5, <2>1, <2>2
  <2> QED BY <1>3, <2>1, <2>2, <2>3
<1>6. \A g \in G : g.members \subseteq photos
  BY <1>4
<1> QED BY <1>5, <1>6 DEF DisjointGroups

\* A call starts over photos of which no shown group is left.
LEMMA LaunchGroups ==
  ASSUME Shape, GroupsInv, NEW s \in StepNames, NEW k \in Keys,
         NEW others \in SUBSET calls, \A c \in others : ~ c.heard,
         Launch(s, k, others), store' = store
  PROVE  GroupsInv'
<1> DEFINE new == [step |-> s, key |-> k, scope |-> batches[k],
                   skip |-> SkipFor(s, ClearedFor(flags, s, batches[k])),
                   heard |-> TRUE, state |-> "asked", work |-> {}, whole |-> FALSE,
                   found |-> {}, todo |-> {}]
<1>1. flags' = ClearedFor(flags, s, batches[k]) /\ calls' = others \cup {new}
  BY DEF Launch
<1>2. /\ flags'.similar \subseteq flags.similar
      /\ s = "duplicates" => \A g \in flags'.similar : g.members \cap batches[k] = {}
  BY <1>1 DEF Shape, TypeOK, Flags, ClearedFor, Touching, StepNames
<1>3. GroupsDisjoint'
  BY <1>2 DEF GroupsInv, GroupsDisjoint, DisjointGroups
<1>4. GroupCall(new) /\ MeetsOnlyOwn(new, flags'.similar)
  BY <1>2 DEF GroupCall, MeetsOnlyOwn, DisjointGroups
<1>5. \A c \in others : GroupCall(c) /\ MeetsOnlyOwn(c, flags'.similar)
  BY DEF GroupsInv, MeetsOnlyOwn
<1> QED BY <1>1, <1>3, <1>4, <1>5 DEF GroupsInv

\* The same through begin_pass.
LEMMA BeginGroups ==
  ASSUME Shape, GroupsInv, NEW s \in StepNames, NEW k \in Keys,
         NEW others \in SUBSET calls, \A c \in others : ~ c.heard,
         BeginPass(s, k, others), store' = store
  PROVE  GroupsInv'
<1>1. CASE s = "junk" /\ ~ model
  BY <1>1 DEF BeginPass, GroupsInv, GroupsDisjoint
<1>2. CASE ~ (s = "junk" /\ ~ model)
  BY <1>2, LaunchGroups DEF BeginPass
<1> QED BY <1>1, <1>2

\* The engine works groups out and puts them in the table.
LEMMA EngineGroups ==
  ASSUME Shape, GroupsInv, Engine
  PROVE  GroupsInv'
<1> USE DEF Shape
<1>1. PICK c \in calls :
        Accept(c) \/ Checkpoint(c) \/ StoreResults(c) \/ EndCall(c) \/ FailCall(c)
  BY DEF Engine
<1>2. /\ c \in CallRecords /\ c.found \subseteq FoundBy(c.step) /\ c.todo \subseteq c.found
      /\ c.work \subseteq c.scope /\ c.scope \subseteq Photos
      /\ GroupCall(c) /\ MeetsOnlyOwn(c, flags.similar) /\ c.step \in StepNames
  BY DEF TypeOK, CallsInv, CallRecords, GroupsInv
<1>3. flags' = flags
  BY <1>1 DEF Accept, Checkpoint, StoreResults, EndCall, FailCall, EngineStep, resultVars
<1> DEFINE Successor(d) == GroupCall(d) /\ MeetsOnlyOwn(d, flags.similar)
<1>4. ASSUME NEW rows, store' = Stored(c, rows)
      PROVE  DisjointGroups(store'.flags.similar)
  <2>1. CASE c.step = "duplicates"
    <3>1. store'.flags.similar = {g \in store.flags.similar : g.members \cap c.scope = {}} \cup c.found
      BY <1>4, <2>1 DEF Stored, Touching, TypeOK, Flags
    <3> QED BY <1>2, <2>1, <3>1 DEF GroupsInv, GroupsDisjoint, GroupCall, DisjointGroups
  <2>2. CASE c.step # "duplicates"
    <3>1. store'.flags.similar = store.flags.similar
      BY <1>2, <1>4, <2>2 DEF Stored, TypeOK, Flags, StepNames
    <3> QED BY <3>1 DEF GroupsInv, GroupsDisjoint
  <2> QED BY <2>1, <2>2
<1>5. /\ DisjointGroups(store'.flags.similar)
      /\ calls' \in {calls, calls \ {c}} \/ \E d : Successor(d) /\ Becomes(c, d)
  <2>1. CASE Accept(c)
    <3>1. PICK found \in Findings(c, WorkOf(c)) : Becomes(c, AcceptedCall(c, WorkOf(c), found))
      BY <2>1 DEF Accept, AcceptedCall
    <3>2. WorkOf(c) \subseteq c.scope
      BY <1>2 DEF WorkOf, StepNames
    <3>3. found \subseteq FoundBy(c.step) /\ found \in SUBSET (Photos \cup Groups)
      BY <1>2, <3>2, FindingsType DEF FoundBy
    <3>4. LET d == AcceptedCall(c, WorkOf(c), found)
          IN  SameRequest(c, d) /\ d.heard = c.heard /\ d.found = found /\ d.state = "working"
      BY <1>2, <3>2, <3>3, Accepted
    <3>5. c.step = "duplicates" =>
            DisjointGroups(found) /\ \A g \in found : g.members \subseteq c.scope
      BY <3>2, GroupingsApart DEF Findings
    <3>6. c.found = {}
      BY <1>2, <2>1 DEF Accept, GroupCall
    <3>7. Successor(AcceptedCall(c, WorkOf(c), found))
      BY <1>2, <3>4, <3>5, <3>6 DEF GroupCall, MeetsOnlyOwn, SameRequest
    <3> QED BY <2>1, <3>1, <3>7 DEF Accept, GroupsInv, GroupsDisjoint
  <2>2. CASE Checkpoint(c)
    BY <1>4, <2>2 DEF Checkpoint
  <2>3. CASE StoreResults(c)
    <3>1. Successor([c EXCEPT !.state = "stored", !.whole = c.heard])
      BY <1>2, SteppedWhole DEF GroupCall, MeetsOnlyOwn, SameRequest
    <3> QED BY <1>4, <2>3, <3>1 DEF StoreResults
  <2>4. CASE EndCall(c)
    <3>1. ASSUME NEW lost
          PROVE  Successor([c EXCEPT !.state = "ended", !.todo = @ \ lost])
      <4> DEFINE d == [c EXCEPT !.state = "ended", !.todo = @ \ lost]
      <4>1. /\ SameRequest(c, d) /\ d.heard = c.heard /\ d.found = c.found /\ d.state = "ended"
        BY <1>2, Ended
      <4> HIDE DEF d
      <4>2. Successor(d)
        BY <1>2, <4>1 DEF GroupCall, MeetsOnlyOwn, SameRequest
      <4> QED BY <4>2 DEF d
    <3>2. store'.flags = store.flags
      BY <2>4 DEF EndCall, TypeOK
    <3>3. calls' \in {calls, calls \ {c}} \/ \E d : Successor(d) /\ Becomes(c, d)
      BY <2>4, <3>1 DEF EndCall
    <3> QED BY <3>2, <3>3 DEF GroupsInv, GroupsDisjoint
  <2>5. CASE FailCall(c)
    <3>1. ASSUME NEW sent \in SUBSET c.todo
          PROVE  Successor([c EXCEPT !.state = "error", !.todo = sent])
      <4> DEFINE d == [c EXCEPT !.state = "error", !.todo = sent]
      <4>1. /\ d \in CallRecords /\ SameRequest(c, d) /\ d.heard = c.heard
            /\ d.work = c.work /\ d.found = c.found /\ d.todo = sent /\ d.state = "error"
        BY <1>2, Failed
      <4> HIDE DEF d
      <4>2. Successor(d)
        BY <1>2, <4>1 DEF GroupCall, MeetsOnlyOwn, SameRequest
      <4> QED BY <4>2 DEF d
    <3> QED BY <2>5, <3>1 DEF FailCall, GroupsInv, GroupsDisjoint
  <2> QED BY <1>1, <2>1, <2>2, <2>3, <2>4, <2>5
<1>6. \A d \in calls' : Successor(d)
  BY <1>5 DEF GroupsInv, Becomes
<1> QED BY <1>3, <1>5, <1>6 DEF GroupsInv, GroupsDisjoint

\* A group that arrives meets none that is shown.
LEMMA DeliverGroups ==
  ASSUME Shape, GroupsInv, NEW c \in calls, NEW f \in c.todo, DeliverFlag(c, f)
  PROVE  GroupsInv'
<1> USE DEF Shape
<1>1. /\ c \in CallRecords /\ c.todo \subseteq c.found /\ c.heard
      /\ GroupCall(c) /\ MeetsOnlyOwn(c, flags.similar) /\ c.step \in StepNames
  BY DEF TypeOK, CallsInv, CallRecords, GroupsInv, DeliverFlag
<1> DEFINE d == [c EXCEPT !.todo = @ \ {f}]
<1>2. /\ SameRequest(c, d) /\ d.heard = c.heard /\ d.found = c.found /\ d.state = c.state
  BY <1>1, Delivered
<1>3. calls' = (calls \ {c}) \cup {d} /\ store' = store
  BY DEF DeliverFlag, Becomes
<1> HIDE DEF d
<1>4. flags'.similar = IF c.step = "duplicates" THEN flags.similar \cup {f} ELSE flags.similar
  BY <1>1 DEF DeliverFlag, FlagsOf, TypeOK, Flags, StepNames
<1>5. \A e \in calls : e # c => ~ e.heard
  BY <1>1 DEF TypeOK
<1>6. DisjointGroups(flags'.similar)
  BY <1>1, <1>4 DEF GroupsInv, GroupsDisjoint, DisjointGroups, GroupCall, MeetsOnlyOwn
<1>7. GroupCall(d) /\ MeetsOnlyOwn(d, flags'.similar)
  BY <1>1, <1>2, <1>4 DEF GroupCall, MeetsOnlyOwn, SameRequest
<1> QED BY <1>3, <1>5, <1>6, <1>7 DEF GroupsInv, GroupsDisjoint, MeetsOnlyOwn

\* No step lets groups overlap.
LEMMA GroupsStep ==
  Shape /\ GroupsInv /\ [Next]_vars => GroupsInv'
<1> SUFFICES ASSUME Shape, GroupsInv, [Next]_vars
             PROVE  GroupsInv'
  OBVIOUS
<1>1. CASE UNCHANGED <<flags, calls, store>>
  BY <1>1 DEF GroupsInv, GroupsDisjoint
<1>2. screen # "running" => \A c \in calls : ~ c.heard
  BY DEF Shape, CallsInv
<1>3. CASE Menu
  <2>1. ASSUME NEW s \in Steps, NEW k \in Keys, StartBatchPass(s, k)
        PROVE  GroupsInv'
    BY <1>2, <2>1, BeginGroups, StepAssumption DEF StartBatchPass
  <2>2. ASSUME NEW s \in Steps, StartPassOnAllBatches(s)
        PROVE  GroupsInv'
    <3>1. FirstOf({k \in Batches : ~ Done(s, k)}) \in Keys
      BY <2>2, FirstIsAmong DEF StartPassOnAllBatches, StartOnAll, Batches
    <3> QED BY <1>2, <2>2, <3>1, BeginGroups, StepAssumption DEF StartPassOnAllBatches, StartOnAll
  <2>3. CASE RerunQualityPass
    BY <1>2, <2>3, LaunchGroups DEF RerunQualityPass, Shape, Control, StepNames
  <2>4. CASE CancelPass
    <3>1. \A d \in calls' : GroupCall(d) /\ ~ d.heard
      <4> SUFFICES ASSUME NEW d \in calls' PROVE GroupCall(d) /\ ~ d.heard
        OBVIOUS
      <4>1. PICK c \in calls : d = [c EXCEPT !.heard = FALSE, !.todo = {}]
        BY <2>4 DEF CancelPass
      <4>2. c \in CallRecords /\ GroupCall(c)
        BY DEF Shape, TypeOK, GroupsInv
      <4> QED BY <4>1, <4>2, Unheard DEF GroupCall, SameRequest
    <3> QED BY <2>4, <3>1 DEF CancelPass, resultVars, GroupsInv, GroupsDisjoint, MeetsOnlyOwn
  <2>5. CASE ContinueFromTrips \/ EditTrips \/ ReopenOrganize \/ CancelJunkPrep \/ GoBackFromError
             \/ CloseBatchReview \/ ContinueFromBatches \/ BackFromDeletionReview
             \/ \E s \in Steps, k \in Keys : ReviewBatchPass(s, k)
    BY <1>1, <2>5 DEF ContinueFromTrips, EditTrips, ReopenOrganize, CancelJunkPrep,
         GoBackFromError, CloseBatchReview, ContinueFromBatches, BackFromDeletionReview,
         ReviewBatchPass, resultVars
  <2> QED BY <1>3, <2>1, <2>2, <2>3, <2>4, <2>5 DEF Menu
<1>4. CASE SetModelReady
  BY <1>1, <1>2, <1>4, LaunchGroups DEF SetModelReady, Shape, Control, StepNames
<1>5. CASE UserChooses
  BY <1>1, <1>5 DEF UserChooses, KeepImage, MarkImage, KeepAllFlagged, MarkAllFlagged,
       SetGroupKeeper, Choose
<1>6. CASE RunSave
  <2>1. store'.flags = store.flags /\ UNCHANGED <<flags, calls>>
    BY <1>6 DEF RunSave, resultVars, Shape, TypeOK
  <2> QED BY <2>1 DEF GroupsInv, GroupsDisjoint
<1>7. CASE Engine
  BY <1>7, EngineGroups
<1>8. CASE Listen
  <2>1. PICK c \in calls : OnDone(c) \/ OnError(c) \/ \E f \in c.todo : DeliverFlag(c, f)
    BY <1>8 DEF Listen
  <2>2. CASE OnDone(c)
    <3> DEFINE others == calls \ {c}
    <3>1. c.heard /\ c.step \in StepNames /\ others \in SUBSET calls /\ \A d \in others : ~ d.heard
      BY <2>2 DEF Shape, TypeOK, OnDone, CallRecords
    <3>2. CASE runAll = c.step /\ queue # {}
      <4>1. FirstOf(queue) \in Keys
        BY <3>2, FirstIsAmong DEF Shape, TypeOK
      <4> QED BY <2>2, <3>1, <3>2, <4>1, BeginGroups DEF OnDone, FinishBatchRun
    <3>3. CASE ~ (runAll = c.step /\ queue # {})
      BY <2>2, <3>3 DEF OnDone, FinishBatchRun, ReturnToMenu, GroupsInv, GroupsDisjoint
    <3> QED BY <3>2, <3>3
  <2>3. CASE OnError(c)
    BY <2>3 DEF OnError, resultVars, GroupsInv, GroupsDisjoint
  <2> QED BY <2>1, <2>2, <2>3, DeliverGroups
<1>9. CASE Resume
  BY <1>9 DEF Resume, GroupsInv, GroupsDisjoint
<1>10. CASE UNCHANGED vars
  BY <1>1, <1>10 DEF vars, resultVars
<1> QED BY <1>3, <1>4, <1>5, <1>6, <1>7, <1>8, <1>9, <1>10 DEF Next

\* A launched call has nothing to tell yet, and its batch's flags are off the screen.
LEMMA LaunchStored ==
  ASSUME Shape, StoredInv, \A x \in FlagNames : Told(x),
         NEW s \in StepNames, NEW k \in Keys, Launch(s, k, {}), store' = store
  PROVE  StoredInv'
<1> DEFINE new == [step |-> s, key |-> k, scope |-> batches[k],
                   skip |-> SkipFor(s, ClearedFor(flags, s, batches[k])),
                   heard |-> TRUE, state |-> "asked", work |-> {}, whole |-> FALSE,
                   found |-> {}, todo |-> {}]
<1>1. flags' = ClearedFor(flags, s, batches[k]) /\ calls' = {new}
  BY DEF Launch
<1>2. /\ new.step = s /\ new.scope = batches[k] /\ new.heard = TRUE /\ new.state = "asked"
      /\ new.work = {} /\ new.found = {} /\ new.todo = {}
  OBVIOUS
<1> HIDE DEF new
<1>4. \A x \in FlagNames \ {FlagsOf(s)} : Told(x)'
  BY <1>1 DEF Launch, ClearedFor, FlagsOf, FlagNames, StepNames, Shape, TypeOK, Flags, Told
<1>5. ASSUME NEW c \in calls' PROVE Tells(c)'
  <2>1. /\ c.step = s /\ c.scope = batches[k] /\ c.heard = TRUE /\ c.state = "asked"
        /\ c.work = {} /\ c.found = {} /\ c.todo = {}
    BY <1>1, <1>2, <1>5
  <2>2. /\ flags'[FlagsOf(s)] \subseteq Untouched(c)'
        /\ Untouched(c)' \subseteq flags'[FlagsOf(s)] \cup unread'[FlagsOf(s)]
    <3>1. CASE s = "quality"
      <4>1. Told("quality") /\ FlagsOf(s) = "quality"
        BY <3>1 DEF FlagNames, FlagsOf
      <4>2. /\ flags'.quality = flags.quality \ batches[k]
            /\ unread'.quality = unread.quality \ batches[k]
        BY <3>1 DEF Launch, ClearedFor, Shape, TypeOK, Flags
      <4>3. Untouched(c)' = store.flags.quality \ batches[k]
        BY <2>1, <3>1 DEF Untouched, FlagsOf
      <4> QED BY <4>1, <4>2, <4>3 DEF Told
    <3>2. CASE s = "duplicates"
      <4>1. Told("similar") /\ FlagsOf(s) = "similar"
        BY <3>2 DEF FlagNames, FlagsOf
      <4>2. /\ flags'.similar = flags.similar \ Touching(flags.similar, batches[k])
            /\ unread'.similar = unread.similar \ Touching(unread.similar, batches[k])
        BY <3>2 DEF Launch, ClearedFor, Shape, TypeOK, Flags
      <4>3. Untouched(c)' = store.flags.similar \ Touching(store.flags.similar, batches[k])
        BY <2>1, <3>2 DEF Untouched, FlagsOf
      <4> QED BY <4>1, <4>2, <4>3 DEF Told, Touching
    <3>3. CASE s \notin {"quality", "duplicates"}
      <4>1. Told(s) /\ FlagsOf(s) = s
        BY <3>3 DEF FlagNames, FlagsOf, StepNames
      <4>2. flags' = flags /\ unread' = unread
        BY <3>3 DEF Launch, ClearedFor
      <4>3. Untouched(c)' = store.flags[s]
        BY <2>1, <3>3 DEF Untouched, FlagsOf
      <4> QED BY <4>1, <4>2, <4>3 DEF Told
    <3> QED BY <3>1, <3>2, <3>3
  <2> QED BY <1>4, <2>1, <2>2 DEF Tells
<1>6. calls' # {} /\ (store.flags.quality \cap Videos = {})'
  BY <1>1 DEF StoredInv
<1> QED BY <1>5, <1>6 DEF StoredInv

\* The same through begin_pass.
LEMMA BeginStored ==
  ASSUME Shape, StoredInv, \A x \in FlagNames : Told(x),
         NEW s \in StepNames, NEW k \in Keys, BeginPass(s, k, {}), store' = store
  PROVE  StoredInv'
<1>1. CASE s = "junk" /\ ~ model
  BY <1>1 DEF BeginPass, StoredInv, Told
<1>2. CASE ~ (s = "junk" /\ ~ model)
  BY <1>2, LaunchStored DEF BeginPass
<1> QED BY <1>1, <1>2

\* What storing some of a call's rows makes of its flags and of the others.
LEMMA StoredFlags ==
  ASSUME TypeOK, NEW c \in CallRecords, NEW rows, store' = Stored(c, rows)
  PROVE  /\ \A x \in FlagNames \ {FlagsOf(c.step)} : store'.flags[x] = store.flags[x]
         /\ c.step = "quality" =>
              store'.flags.quality = (store.flags.quality \ rows) \cup (c.found \cap rows)
         /\ c.step = "duplicates" =>
              store'.flags.similar =
                (store.flags.similar \ Touching(store.flags.similar, c.scope)) \cup c.found
         /\ c.step \in {"junk", "video"} =>
              store'.flags[c.step] = store.flags[c.step] \cup (c.found \cap rows)
<1>1. c.step \in StepNames
  BY DEF CallRecords
<1>2. CASE c.step = "quality"
  BY <1>2 DEF Stored, TypeOK, Flags, FlagNames, FlagsOf
<1>3. CASE c.step = "duplicates"
  BY <1>3 DEF Stored, TypeOK, Flags, FlagNames, FlagsOf
<1>4. CASE c.step \in {"junk", "video"}
  BY <1>4 DEF Stored, TypeOK, Flags, FlagNames, FlagsOf
<1> QED BY <1>1, <1>2, <1>3, <1>4 DEF StepNames

\* The engine works a call off, with none cancelled and none failing.
LEMMA EngineStored ==
  ASSUME Shape, StoredInv, Engine, ~ Faults
  PROVE  StoredInv'
<1>1. PICK c \in calls :
        Accept(c) \/ Checkpoint(c) \/ StoreResults(c) \/ EndCall(c) \/ FailCall(c)
  BY DEF Engine
<1>2. /\ c \in CallRecords /\ c.todo \subseteq c.found /\ c.work \subseteq c.scope
      /\ c.scope \subseteq Photos /\ c.step \in StepNames /\ c.heard /\ Tells(c)
      /\ calls = {c} /\ TypeOK
  BY DEF Shape, TypeOK, CallsInv, CallRecords, StoredInv, Tells
<1>3. flags' = flags
  BY <1>1 DEF Accept, Checkpoint, StoreResults, EndCall, FailCall, EngineStep, resultVars
<1>4. FlagsOf(c.step) \in FlagNames
  BY <1>2 DEF FlagsOf, FlagNames, StepNames
<1>5. CASE Accept(c)
  <2>1. PICK found \in Findings(c, WorkOf(c)) : Becomes(c, AcceptedCall(c, WorkOf(c), found))
    BY <1>5 DEF Accept, AcceptedCall
  <2>2. WorkOf(c) \subseteq c.scope
    BY <1>2 DEF WorkOf, StepNames
  <2>3. found \subseteq FoundBy(c.step) /\ found \in SUBSET (Photos \cup Groups)
    BY <1>2, <2>2, FindingsType DEF FoundBy
  <2>4. c.step # "duplicates" => found \subseteq WorkOf(c)
    BY DEF Findings
  <2>5. store' = store /\ unread' = unread /\ c.state = "asked" /\ c.found = {} /\ c.todo = {}
    BY <1>2, <1>5 DEF Accept, Tells
  <2>6. ASSUME NEW d \in calls' PROVE Tells(d)'
    <3>1. d = AcceptedCall(c, WorkOf(c), found)
      BY <1>2, <2>1 DEF Becomes
    <3>2. /\ d.step = c.step /\ d.scope = c.scope /\ d.heard /\ d.state = "working"
          /\ d.work = WorkOf(c) /\ d.found = found /\ d.todo = found
      BY <1>2, <2>2, <2>3, <3>1, Accepted DEF SameRequest
    <3>3. Untouched(d)' = Untouched(c)
      BY <2>5, <3>2 DEF Untouched
    <3>4. d.step = "quality" => d.work = d.scope \ Videos
      BY <3>2 DEF WorkOf
    <3> QED BY <1>2, <1>3, <2>4, <2>5, <3>2, <3>3, <3>4 DEF Tells, Told
  <2> QED BY <1>2, <2>1, <2>5, <2>6 DEF StoredInv, Becomes
<1>6. CASE Checkpoint(c)
  <2>1. PICK rows : store' = Stored(c, rows)
    BY <1>6 DEF Checkpoint
  <2>2. calls' = calls /\ unread' = unread /\ c.step \in {"junk", "video"} /\ c.state = "working"
    BY <1>6 DEF Checkpoint
  <2>3. /\ \A x \in FlagNames \ {c.step} : store'.flags[x] = store.flags[x]
        /\ store'.flags[c.step] = store.flags[c.step] \cup (c.found \cap rows)
    BY <1>2, <2>1, <2>2, StoredFlags DEF FlagsOf
  <2>4. Tells(c)'
    <3>1. Untouched(c) = store.flags[c.step] /\ Untouched(c)' = store'.flags[c.step]
      BY <2>2 DEF Untouched, FlagsOf
    <3>2. FlagsOf(c.step) = c.step
      BY <2>2 DEF FlagsOf
    <3> QED BY <1>2, <1>3, <2>2, <2>3, <3>1, <3>2 DEF Tells, Told
  <2>5. store'.flags.quality = store.flags.quality
    BY <2>2, <2>3 DEF FlagNames
  <2> QED BY <1>2, <2>2, <2>4, <2>5 DEF StoredInv
<1>7. CASE StoreResults(c)
  <2>1. store' = Stored(c, c.work) \/ (c.step = "duplicates" /\ \E rows : store' = Stored(c, rows))
    BY <1>2, <1>7 DEF StoreResults
  <2>2. /\ c.state = "working" /\ unread' = unread
        /\ Becomes(c, [c EXCEPT !.state = "stored", !.whole = c.heard])
    BY <1>7 DEF StoreResults
  <2>3. \A x \in FlagNames \ {FlagsOf(c.step)} : store'.flags[x] = store.flags[x]
    BY <1>2, <2>1, StoredFlags
  <2>4. /\ store'.flags[FlagsOf(c.step)] = Untouched(c) \cup c.found
        /\ store'.flags.quality \cap Videos = {}
    <3>1. CASE c.step = "quality"
      <4>1. store'.flags.quality = (store.flags.quality \ c.work) \cup (c.found \cap c.work)
        BY <1>2, <2>1, <3>1, StoredFlags
      <4>2. c.work = c.scope \ Videos /\ c.found \subseteq c.work
        BY <1>2, <2>2, <3>1 DEF Tells
      <4>3. Untouched(c) = store.flags.quality \ c.scope
        BY <2>2, <3>1 DEF Untouched, FlagsOf
      <4> QED BY <3>1, <4>1, <4>2, <4>3 DEF StoredInv, FlagsOf
    <3>2. CASE c.step = "duplicates"
      <4>1. store'.flags.similar =
              (store.flags.similar \ Touching(store.flags.similar, c.scope)) \cup c.found
        BY <1>2, <2>1, <3>2, StoredFlags
      <4>2. Untouched(c) = store.flags.similar \ Touching(store.flags.similar, c.scope)
        BY <2>2, <3>2 DEF Untouched, FlagsOf
      <4>3. store'.flags.quality = store.flags.quality
        BY <2>3, <3>2 DEF FlagNames, FlagsOf
      <4> QED BY <3>2, <4>1, <4>2, <4>3 DEF StoredInv, FlagsOf
    <3>3. CASE c.step \in {"junk", "video"}
      <4>1. store'.flags[c.step] = store.flags[c.step] \cup (c.found \cap c.work)
        BY <1>2, <2>1, <3>3, StoredFlags
      <4>2. c.found \subseteq c.work
        BY <1>2, <3>3 DEF Tells
      <4>3. Untouched(c) = store.flags[c.step] /\ FlagsOf(c.step) = c.step
        BY <2>2, <3>3 DEF Untouched, FlagsOf
      <4>4. store'.flags.quality = store.flags.quality
        BY <2>3, <3>3 DEF FlagNames, FlagsOf
      <4> QED BY <4>1, <4>2, <4>3, <4>4 DEF StoredInv
    <3> QED BY <1>2, <3>1, <3>2, <3>3 DEF StepNames
  <2>5. ASSUME NEW d \in calls' PROVE Tells(d)'
    <3>1. d = [c EXCEPT !.state = "stored", !.whole = c.heard]
      BY <1>2, <2>2 DEF Becomes
    <3>2. /\ d.step = c.step /\ d.scope = c.scope /\ d.heard = c.heard /\ d.state = "stored"
          /\ d.work = c.work /\ d.found = c.found /\ d.todo = c.todo
      BY <1>2, <3>1, SteppedWhole DEF SameRequest
    <3>3. Untouched(d)' = store'.flags[FlagsOf(c.step)]
      BY <3>2 DEF Untouched
    <3>4. /\ flags[FlagsOf(c.step)] \cup c.todo \subseteq Untouched(c) \cup c.found
          /\ Untouched(c) \cup c.found
               \subseteq flags[FlagsOf(c.step)] \cup c.todo \cup unread[FlagsOf(c.step)]
          /\ \A x \in FlagNames \ {FlagsOf(c.step)} : Told(x)
          /\ c.step # "duplicates" => c.found \subseteq c.work
          /\ c.step = "quality" => c.work = c.scope \ Videos
      BY <1>2, <2>2 DEF Tells
    <3> QED BY <1>2, <1>3, <2>2, <2>3, <2>4, <3>2, <3>3, <3>4 DEF Tells, Told
  <2> QED BY <1>2, <2>2, <2>4, <2>5 DEF StoredInv, Becomes
<1>8. CASE EndCall(c)
  <2>1. store'.flags = store.flags
    BY <1>2, <1>8 DEF EndCall, TypeOK
  <2>2. PICK lost \in SUBSET c.todo :
          /\ Becomes(c, [c EXCEPT !.state = "ended", !.todo = @ \ lost])
          /\ unread' = [unread EXCEPT ![FlagsOf(c.step)] = @ \cup lost]
    BY <1>2, <1>8 DEF EndCall
  <2>3. /\ unread'[FlagsOf(c.step)] = unread[FlagsOf(c.step)] \cup lost
        /\ \A x \in FlagNames \ {FlagsOf(c.step)} : unread'[x] = unread[x]
    BY <1>2, <1>4, <2>2 DEF TypeOK, Flags, FlagNames
  <2>4. c.state = "stored"
    BY <1>8 DEF EndCall
  <2>5. ASSUME NEW d \in calls' PROVE Tells(d)'
    <3>1. d = [c EXCEPT !.state = "ended", !.todo = @ \ lost]
      BY <1>2, <2>2 DEF Becomes
    <3>2. /\ d.step = c.step /\ d.scope = c.scope /\ d.heard = c.heard /\ d.state = "ended"
          /\ d.work = c.work /\ d.found = c.found /\ d.todo = c.todo \ lost
      BY <1>2, <3>1, Ended DEF SameRequest
    <3>3. Untouched(d)' = Untouched(c)
      BY <2>1, <2>4, <3>2 DEF Untouched
    <3>4. \A x \in FlagNames \ {FlagsOf(d.step)} : Told(x)'
      BY <1>2, <1>3, <2>1, <2>3, <3>2 DEF Tells, Told
    <3> QED BY <1>2, <1>3, <2>1, <2>3, <2>4, <3>2, <3>3, <3>4 DEF Tells
  <2> QED BY <1>2, <2>1, <2>2, <2>5 DEF StoredInv, Becomes
<1>9. CASE FailCall(c)
  BY <1>2, <1>9 DEF FailCall, Working
<1> QED BY <1>1, <1>5, <1>6, <1>7, <1>8, <1>9

\* An event reaches the wizard.
LEMMA DeliverStored ==
  ASSUME Shape, StoredInv, NEW c \in calls, NEW f \in c.todo, DeliverFlag(c, f)
  PROVE  StoredInv'
<1>1. /\ c \in CallRecords /\ c.step \in StepNames /\ Tells(c) /\ calls = {c} /\ TypeOK
  BY DEF Shape, TypeOK, CallRecords, StoredInv, Tells
<1>2. calls' = {[c EXCEPT !.todo = @ \ {f}]} /\ store' = store
  BY <1>1 DEF DeliverFlag, Becomes
<1>3. /\ flags'[FlagsOf(c.step)] = flags[FlagsOf(c.step)] \cup {f}
      /\ \A x \in FlagNames \ {FlagsOf(c.step)} : flags'[x] = flags[x]
  BY <1>1 DEF DeliverFlag, FlagsOf, FlagNames, TypeOK, Flags, StepNames
<1>4. ASSUME NEW d \in calls' PROVE Tells(d)'
  <2>1. d = [c EXCEPT !.todo = @ \ {f}]
    BY <1>2
  <2>2. /\ d.step = c.step /\ d.scope = c.scope /\ d.heard = c.heard /\ d.state = c.state
        /\ d.work = c.work /\ d.found = c.found /\ d.todo = c.todo \ {f}
    BY <1>1, <2>1, Delivered DEF SameRequest
  <2>3. Untouched(d)' = Untouched(c) /\ unread' = unread
    BY <1>2, <2>2 DEF Untouched, DeliverFlag
  <2> QED BY <1>1, <1>2, <1>3, <2>2, <2>3 DEF Tells, Told
<1> QED BY <1>2, <1>4 DEF StoredInv

\* While no pass is cancelled and none fails, what is shown is what is stored, but for
\* what streams left unread and what the call that is heard has yet to tell or to store.
LEMMA StoredStep ==
  ASSUME ~ Faults
  PROVE  Shape /\ StoredInv /\ [Next]_vars => StoredInv'
<1> SUFFICES ASSUME Shape, StoredInv, [Next]_vars
             PROVE  StoredInv'
  OBVIOUS
<1>1. CASE UNCHANGED <<flags, calls, unread>> /\ store'.flags = store.flags
  BY <1>1 DEF StoredInv, Tells, Untouched, Told
<1>2. screen # "running" => calls = {} /\ \A x \in FlagNames : Told(x)
  BY DEF Shape, CallsInv, StoredInv, Tells
<1>3. CASE Menu
  <2>1. ASSUME NEW s \in Steps, NEW k \in Keys, StartBatchPass(s, k)
        PROVE  StoredInv'
    <3>1. BeginPass(s, k, {}) /\ store' = store /\ screen = "menu"
      BY <1>2, <2>1 DEF StartBatchPass
    <3> QED BY <1>2, <3>1, BeginStored, StepAssumption
  <2>2. ASSUME NEW s \in Steps, StartPassOnAllBatches(s)
        PROVE  StoredInv'
    <3> DEFINE k == FirstOf({m \in Batches : ~ Done(s, m)})
    <3>1. k \in Keys
      BY <2>2, FirstIsAmong DEF StartPassOnAllBatches, StartOnAll, Batches
    <3>2. BeginPass(s, k, {}) /\ store' = store /\ screen = "menu"
      BY <1>2, <2>2 DEF StartPassOnAllBatches, StartOnAll
    <3> QED BY <1>2, <3>1, <3>2, BeginStored, StepAssumption
  <2>3. CASE RerunQualityPass
    <3>1. Launch("quality", active, {}) /\ store' = store /\ active \in Keys /\ screen = "review"
      BY <1>2, <2>3 DEF RerunQualityPass, Shape, Control
    <3> QED BY <1>2, <3>1, LaunchStored DEF StepNames
  <2>4. CASE CancelPass
    BY <2>4 DEF CancelPass
  <2>5. CASE ContinueFromTrips \/ EditTrips \/ ReopenOrganize \/ CancelJunkPrep \/ GoBackFromError
             \/ CloseBatchReview \/ ContinueFromBatches \/ BackFromDeletionReview
             \/ \E s \in Steps, k \in Keys : ReviewBatchPass(s, k)
    BY <1>1, <2>5 DEF ContinueFromTrips, EditTrips, ReopenOrganize, CancelJunkPrep,
         GoBackFromError, CloseBatchReview, ContinueFromBatches, BackFromDeletionReview,
         ReviewBatchPass, resultVars
  <2> QED BY <1>3, <2>1, <2>2, <2>3, <2>4, <2>5 DEF Menu
<1>4. CASE SetModelReady
  <2>1. CASE screen = "prep"
    <3>1. Launch("junk", active, {}) /\ store' = store /\ active \in Keys
      BY <1>2, <1>4, <2>1 DEF SetModelReady, Shape, Control
    <3> QED BY <1>2, <2>1, <3>1, LaunchStored DEF StepNames
  <2>2. CASE screen # "prep"
    BY <1>1, <1>4, <2>2 DEF SetModelReady
  <2> QED BY <2>1, <2>2
<1>5. CASE UserChooses
  BY <1>1, <1>5 DEF UserChooses, KeepImage, MarkImage, KeepAllFlagged, MarkAllFlagged,
       SetGroupKeeper, Choose
<1>6. CASE RunSave
  <2>1. store'.flags = store.flags /\ UNCHANGED <<flags, calls, unread>>
    BY <1>6 DEF RunSave, resultVars, Shape, TypeOK
  <2> QED BY <1>1, <2>1
<1>7. CASE Engine
  BY <1>7, EngineStored
<1>8. CASE Listen
  <2>1. PICK c \in calls : OnDone(c) \/ OnError(c) \/ \E f \in c.todo : DeliverFlag(c, f)
    BY <1>8 DEF Listen
  <2>2. CASE OnDone(c)
    <3>1. /\ c.heard /\ c.step \in StepNames /\ calls \ {c} = {} /\ store' = store
          /\ c.state = "ended" /\ c.todo = {} /\ Tells(c)
      BY <2>2 DEF Shape, TypeOK, OnDone, CallRecords, StoredInv, Tells
    <3>2. \A x \in FlagNames : Told(x)
      <4>1. Untouched(c) = store.flags[FlagsOf(c.step)]
        BY <3>1 DEF Untouched
      <4> QED BY <3>1, <4>1 DEF Tells, Told
    <3>3. CASE runAll = c.step /\ queue # {}
      <4>1. FirstOf(queue) \in Keys
        BY <3>3, FirstIsAmong DEF Shape, TypeOK
      <4>2. BeginPass(c.step, FirstOf(queue), {})
        BY <2>2, <3>1, <3>3 DEF OnDone, FinishBatchRun
      <4> QED BY <3>1, <3>2, <4>1, <4>2, BeginStored
    <3>4. CASE ~ (runAll = c.step /\ queue # {})
      <4>1. calls' = {} /\ flags' = flags /\ unread' = unread
        BY <2>2, <3>1, <3>4 DEF OnDone, FinishBatchRun
      <4> QED BY <3>1, <3>2, <4>1 DEF StoredInv, Told
    <3> QED BY <3>3, <3>4
  <2>3. CASE OnError(c)
    BY <2>3 DEF OnError, StoredInv, Tells
  <2> QED BY <2>1, <2>2, <2>3, DeliverStored
<1>9. CASE Resume
  BY <1>9 DEF Resume, StoredInv, Told
<1>10. CASE UNCHANGED vars
  BY <1>1, <1>10 DEF vars, resultVars
<1> QED BY <1>3, <1>4, <1>5, <1>6, <1>7, <1>8, <1>9, <1>10 DEF Next

------------------------------------------------------------------------------
(* The theorems.                                                              *)

\* Nothing is decided at the start.
LEMMA InitChoices == Init => SoundChoices
BY EmptySeq, PhotoAssumption
DEF Init, SoundChoices, SoundIntents, Intents, EmptyStore, Undecided

\* The two invariants that every other one here rests on.
THEOREM InShape == Spec => [](Shape /\ SoundChoices)
<1>1. Init => Shape /\ SoundChoices
  BY InitShape, InitChoices
<1> QED BY <1>1, ShapeStep, PTL DEF Spec

\* Every value has its type, and at most one call is listened to: a cancelled
\* run, a rerun or the next batch of a run on all never leaves a second listener
\* (the generation of scope_ in start_*_pass, cancel_pass and fail).
THEOREM TypeCorrect == Spec => []TypeOK
<1>1. Shape => TypeOK
  BY DEF Shape
<1> QED BY <1>1, InShape, PTL

\* In every order of passes, cancels, choices, saves and resumes, a photo the
\* user kept is not deleted and one the user marked is (deletion.cpp:84).
THEOREM UserDecides == Spec => []ChoicesWin
<1>1. Init => ChoicesWin
  BY DEF Init, ChoicesWin, Undecided
<1> QED BY <1>1, ChoicesStep, InShape, PTL DEF Spec

\* A run on all batches, through failures and the wait for the model, leaves no
\* batch out (start_pass_on_all_batches, finish_batch_run).
THEOREM NoneForgotten == Spec => []RunAllForgetsNone
<1>1. Init => RunAllForgetsNone
  BY DEF Init, RunAllForgetsNone
<1> QED BY <1>1, RunAllStep, InShape, PTL DEF Spec

\* In one launch of the app, a batch that the menu calls finished had each of its
\* photos in a run that ended, however often trips were edited (reopen_organize).
THEOREM FinishedIsCovered ==
  ASSUME ~ Resumes
  PROVE  Spec => []DoneMeansCovered
<1>1. Init => DoneInv
  BY DEF Init, DoneInv, Done
<1>2. Shape /\ DoneInv /\ [Next]_vars => DoneInv'
  BY DoneStep
<1>3. DoneInv => DoneMeansCovered
  BY DEF DoneInv, DoneMeansCovered, Batches
<1> QED BY <1>1, <1>2, <1>3, InShape, PTL DEF Spec

\* No photo is ever in two duplicate groups, shown or stored, when batches are
\* laid out anew and runs are cancelled, fail or are resumed (similar_keeper_map).
THEOREM GroupsStayDisjoint == Spec => []GroupsDisjoint
<1>1. Init => GroupsInv
  BY DEF Init, GroupsInv, GroupsDisjoint, DisjointGroups, NoFlags, EmptyStore
<1>2. GroupsInv => GroupsDisjoint
  BY DEF GroupsInv
<1> QED BY <1>1, <1>2, GroupsStep, InShape, PTL DEF Spec

\* While no pass is cancelled and none fails, every flag on the screen between two passes
\* is one that a resume would bring back, and only flags that the stream of a run left
\* unread are missing from it, whatever passes ran over which batches and however often
\* the session was resumed (run_*_pass, the on_flagged handlers, engine.h:231).
THEOREM NothingIsUnstored ==
  ASSUME ~ Faults
  PROVE  Spec => []ShownIsStored
<1>1. Init => StoredInv
  BY DEF Init, StoredInv, NoFlags, EmptyStore, FlagNames, Told
<1>2. StoredInv => ShownIsStored
  BY DEF StoredInv, ShownIsStored, FlagNames, Told
<1>3. Shape /\ StoredInv /\ [Next]_vars => StoredInv'
  BY StoredStep
<1> QED BY <1>1, <1>2, <1>3, InShape, PTL DEF Spec
===============================================================================
