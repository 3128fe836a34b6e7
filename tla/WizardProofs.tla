----------------------------- MODULE WizardProofs -----------------------------
(***************************************************************************)
(* Proofs about Wizard, for any photos, clusterings, names and bounds: how *)
(* photos are laid out (EveryPhotoPlaced), what a session holds            *)
(* (DiskFollowsScreen) and what a resume brings back (ResumeBringsBack).   *)
(***************************************************************************)
EXTENDS Wizard, FiniteSetTheorems, TLAPS

------------------------------------------------------------------------------
(* Types.                                                                     *)

Memberships == UNION {[S -> Int] : S \in SUBSET Photos}
NameMaps == UNION {[S -> Labels] : S \in SUBSET Int}

\* The trips made by hand are numbered in the order in which they were made.
HandTrips ==
  {s \in Seq(TripRecords) : \A i \in DOMAIN s : /\ s[i].id = FirstUserTrip + i - 1
                                               /\ s[i].members = {} /\ s[i].legs = {}}

EditRecords ==
  [membership : Memberships, trips : HandTrips, names : NameMaps, organize : BOOLEAN]

Renames == [id : Int, from : Labels, name : Labels]
Texts == {NoText} \cup [text : {TRUE}, membership : Memberships, trips : HandTrips,
                        renames : SUBSET Renames, organize : BOOLEAN]

Sessions == [has : BOOLEAN, step : Int, params : Params, edits : Texts,
             marks : SUBSET Photos]

Questions == {"probe", "results"}
Tasks == [kind : {"position"}, step : Int, params : Params]
           \cup [kind : {"edits"}, text : Texts]
           \cup [kind : Questions \cup {"unheard"}]

\* The phases in which there is no plan yet, or none any more.
Early == {"closed", "start", "restore", "scanning", "noImages"}
Phases == Early \cup Resting \cup {"tripsRunning", "committing", "failed", "done"}

Answers == {NoAnswer} \cup [kind : Questions, is : Sessions]

ControlTypes ==
  /\ phase \in Phases /\ back \in {"start", "confirm", "summary"}
  /\ index \subseteq Photos /\ params \in Params
  /\ batchMode \in BOOLEAN /\ resuming \in BOOLEAN
  /\ disordered \in BOOLEAN /\ missed \subseteq Parts
  /\ target \in Int /\ call \in {"none", "asked", "working"} /\ late \subseteq Int

PlanTypes ==
  edits \in EditRecords /\ marked \subseteq Photos /\ pending \in Texts \cup {NoPending}

PoolTypes == tasks \in Seq(Tasks) /\ stored \in Sessions /\ answer \in Answers

TypeInv == ControlTypes /\ PlanTypes /\ PoolTypes

------------------------------------------------------------------------------
(* The plan.                                                                  *)

TripIds(c, e) == {t.id : t \in AllTrips(c, e)}

\* Edits that name trips that there are.
Fitting(c, e) ==
  /\ \A p \in DOMAIN e.membership : e.membership[p] \in TripIds(c, e) \cup {Unassigned}
  /\ DOMAIN e.names \subseteq TripIds(c, e)

\* A text that says of the trips of some settings what edits of them say.
Says(text, at) ==
  \E e \in EditRecords : Fitting(Cluster[at], e) /\ text = Encode(Cluster[at], e)

PlanInv ==
  /\ clustering \in Came(Cluster[params])
  /\ Fitting(clustering, edits)
  /\ \A a, b \in batches : a # b => a \cap b = {}

\* Which parts of the state go with which phase.
PhaseInv ==
  /\ phase \in Early => /\ clustering = {} /\ edits = NoEdits(TRUE) /\ batches = {}
                        /\ pending = NoPending /\ target = NoStep
  /\ phase = "tripsRunning" => clustering = {} /\ edits = NoEdits(edits.organize)
  /\ phase \in Planned \cup {"tripsRunning"} => back # "start"
  /\ phase \in {"restore", "scanning"} \/ answer # NoAnswer => back = "start"
  /\ phase \in {"tripsRunning", "failed"} \/ (pending = NoPending /\ target = NoStep)
  /\ pending # NoPending /\ phase = "tripsRunning" => back = "confirm"
  /\ pending = NoPending => target = NoStep
  /\ batchMode => /\ phase \in (Planned \ {"tripsReview"}) \cup {"failed", "done"}
                  /\ pending = NoPending /\ back # "start"
  /\ resuming => phase = "scanning"
  /\ call # "none" => phase \in {"tripsRunning", "committing"}

NoQuestions(queue) == \A i \in DOMAIN queue : queue[i].kind \notin Questions

\* One question at a time is in the queue or answered, and only while its screen waits
\* for it.
QuestionInv ==
  /\ answer.kind = "probe" => phase = "start"
  /\ answer.kind = "results" => phase = "scanning" /\ resuming /\ index = Photos
  /\ answer # NoAnswer => NoQuestions(tasks)
  /\ \A i \in DOMAIN tasks :
       /\ tasks[i].kind = "probe" => phase = "start" /\ back = "start"
       /\ tasks[i].kind = "results" => phase = "scanning" /\ resuming /\ index = Photos
  /\ \A i, j \in DOMAIN tasks :
       tasks[i].kind \in Questions /\ tasks[j].kind \in Questions => i = j

------------------------------------------------------------------------------
(* The session, as long as no write has overtaken another:  what it holds, or *)
(* would hold had no save been missed.                                        *)

\* A question is the last task, so all that was saved before is in the answer, and what
\* a resume works on is what the session holds.
AskedLast ==
  /\ \A i \in DOMAIN tasks : tasks[i].kind \in Questions => i = Len(tasks)
  /\ answer # NoAnswer \/ phase = "restore" => tasks = <<>>
  /\ phase = "scanning" => \A i \in DOMAIN tasks : tasks[i].kind = "results"
  /\ phase = "scanning" /\ ~resuming => tasks = <<>> /\ stored.edits = NoText
  /\ answer.kind = "results" => answer.is = stored
  /\ phase = "tripsRunning" /\ pending # NoPending =>
       /\ tasks = <<>> /\ edits = NoEdits(TRUE) /\ index = Photos
       /\ pending = stored.edits /\ params = stored.params /\ marked = stored.marks

\* The step that the session has once the pool is idle.
Recorded(queue, session, step) ==
  \/ session.step = step /\ \A i \in DOMAIN queue : queue[i].kind # "position"
  \/ \E i \in DOMAIN queue : /\ queue[i].kind = "position" /\ queue[i].step = step
                             /\ \A j \in DOMAIN queue : j > i => queue[j].kind # "position"

\* A session that differs from the stored one in what the wizard has missed to save.
MeantStep(meant, session, behind) ==
  meant \in Sessions /\ ("position" \notin behind => meant.step = session.step)
Meant(meant, session, behind) ==
  /\ meant \in Sessions
  /\ "position" \notin behind => meant.params = session.params
  /\ "edits" \notin behind => meant.edits = session.edits

PositionInv ==
  phase \in Resting =>
    \E g : MeantStep(g, stored, missed) /\ Recorded(tasks, g, StepOf(phase))

\* What the session has of settings and edits after each of the tasks that wait.
Follows(queue, session, at, text) ==
  /\ at[0] = session.params /\ text[0] = session.edits
  /\ \A k \in DOMAIN queue :
       /\ at[k] = IF queue[k].kind = "position" THEN queue[k].params ELSE at[k - 1]
       /\ text[k] = IF queue[k].kind = "edits" THEN queue[k].text ELSE text[k - 1]

\* Whenever the process dies, the edits it leaves fit the settings it leaves; if it does
\* not, these are the last ones.
Matches(queue, session, lastAt, lastText) ==
  \E at, text :
    /\ Follows(queue, session, at, text)
    /\ \A k \in 0 .. Len(queue) : Says(text[k], at[k])
    /\ at[Len(queue)] = lastAt /\ text[Len(queue)] = lastText

\* There the wizard has settings that go with the edits that were saved last.
Lasting == phase \notin Early /\ ~(phase = "failed" /\ back = "start")

\* There the edits that were saved last are those on the screen.
Saved ==
  \/ phase = "tripsRunning" /\ pending = NoPending
  \/ phase \in Planned /\ index # {}
  \/ phase = "failed" /\ batchMode /\ index # {}

EditsInv ==
  \E g, at, text :
    /\ Meant(g, stored, missed) /\ Matches(tasks, g, at, text)
    /\ phase \in Resting => at = params
    /\ Lasting => Says(text, params)
    /\ Saved => text = Encode(clustering, edits)

OrderedInv == ~disordered => AskedLast /\ PositionInv /\ EditsInv

IInv == TypeInv /\ PlanInv /\ PhaseInv /\ QuestionInv /\ OrderedInv
------------------------------------------------------------------------------
(* Edits.                                                                     *)

\* Nothing edited is a record of edits like any other.
LEMMA NoEditsType ==
  ASSUME NEW b \in BOOLEAN
  PROVE  NoEdits(b) \in EditRecords /\ NoText \in Texts
<1>1. <<>> \in [{} -> Int] /\ <<>> \in [{} -> Labels]
  OBVIOUS
<1>2. <<>> \in Memberships
  BY <1>1, {} \in SUBSET Photos DEF Memberships
<1>3. <<>> \in NameMaps
  BY <1>1, {} \in SUBSET Int DEF NameMaps
<1>4. <<>> \in HandTrips
  BY DEF HandTrips
<1> QED BY <1>2, <1>3, <1>4 DEF NoEdits, EditRecords, Texts

\* A text is never taken for no text at all.
LEMMA TextsAreTexts ==
  ASSUME NEW x \in Texts
  PROVE  x # NoPending
<1>1. CASE x = NoText
  <2>1. DOMAIN NoText = {"text"} /\ DOMAIN NoPending = {"none"}
    BY DEF NoText, NoPending
  <2> QED BY <1>1, <2>1
<1>2. CASE x # NoText
  <2>1. x \in [text : {TRUE}, membership : Memberships, trips : HandTrips,
               renames : SUBSET Renames, organize : BOOLEAN]
    BY <1>2 DEF Texts
  <2>2. DOMAIN x = {"text", "membership", "trips", "renames", "organize"}
    BY <2>1
  <2>3. DOMAIN NoPending = {"none"}
    BY DEF NoPending
  <2> QED BY <2>2, <2>3
<1> QED BY <1>1, <1>2

\* Both ids are numbers: the first trip made by hand, and none.
LEMMA FirstIsNat == FirstUserTrip \in Nat /\ Unassigned \in Int
BY DEF FirstUserTrip, Unassigned

\* The parts of a record of edits.
LEMMA EditParts ==
  ASSUME NEW e \in EditRecords
  PROVE  /\ e = [membership |-> e.membership, trips |-> e.trips, names |-> e.names,
                 organize |-> e.organize]
         /\ e.membership \in [DOMAIN e.membership -> Int]
         /\ DOMAIN e.membership \in SUBSET Photos
         /\ e.names \in [DOMAIN e.names -> Labels] /\ DOMAIN e.names \in SUBSET Int
         /\ e.trips \in HandTrips /\ e.trips \in Seq(TripRecords) /\ e.organize \in BOOLEAN
<1>1. e.membership \in Memberships /\ e.names \in NameMaps /\ e.trips \in HandTrips
      /\ e.organize \in BOOLEAN
  BY DEF EditRecords
<1>2. e = [membership |-> e.membership, trips |-> e.trips, names |-> e.names,
           organize |-> e.organize]
  BY DEF EditRecords
<1> QED BY <1>1, <1>2 DEF Memberships, NameMaps, HandTrips

\* What ClusterAssumption gives of one choice of sliders; no trips are a clustering too.
LEMMA ClusterFacts ==
  ASSUME NEW at \in Params
  PROVE  IsClustering(Cluster[at]) /\ IsClustering({})
BY ClusterAssumption DEF IsClustering

\* Trips have numbers for ids and labels for folders.
LEMMA TripsType ==
  ASSUME NEW c, IsClustering(c), NEW e \in EditRecords
  PROVE  /\ AllTrips(c, e) \subseteq TripRecords
         /\ TripIds(c, e) \subseteq Int
         /\ \A id : GeneratedFolder(c, e, id) \in Labels
<1>1. e.trips \in Seq(TripRecords)
  BY EditParts
<1>2. AllTrips(c, e) \subseteq TripRecords
  BY <1>1 DEF AllTrips, IsClustering, Range
<1>3. TripIds(c, e) \subseteq Int
  BY <1>2 DEF TripIds, TripRecords
<1>4. ASSUME NEW id PROVE GeneratedFolder(c, e, id) \in Labels
  <2> DEFINE named == {t \in AllTrips(c, e) : t.id = id}
             one == OneOf(named)
  <2>1. GeneratedFolder(c, e, id) = IF named = {} THEN NoName ELSE one.folder
    BY DEF GeneratedFolder
  <2>2. named # {} => one \in named
    BY DEF OneOf
  <2>3. named \subseteq TripRecords
    BY <1>2
  <2> HIDE DEF named, one
  <2>4. named # {} => one.folder \in Labels
    BY <2>2, <2>3 DEF TripRecords
  <2>5. NoName \in Labels
    BY LabelsAssumption
  <2> QED BY <2>1, <2>4, <2>5
<1> QED BY <1>2, <1>3, <1>4

\* Saved edits are a text.
LEMMA EncodeType ==
  ASSUME NEW c, IsClustering(c), NEW e \in EditRecords
  PROVE  Encode(c, e) \in Texts
<1>1. CASE e = NoEdits(TRUE)
  BY <1>1, NoEditsType DEF Encode
<1>2. CASE e # NoEdits(TRUE)
  <2> DEFINE renames == {[id |-> t, from |-> GeneratedFolder(c, e, t),
                          name |-> e.names[t]] : t \in DOMAIN e.names}
  <2>1. renames \subseteq Renames
    BY TripsType, EditParts DEF Renames
  <2>2. Encode(c, e) = [text |-> TRUE, membership |-> e.membership, trips |-> e.trips,
                        renames |-> renames, organize |-> e.organize]
    BY <1>2 DEF Encode
  <2>3. e.membership \in Memberships /\ e.trips \in HandTrips /\ e.organize \in BOOLEAN
    BY DEF EditRecords
  <2> HIDE DEF renames
  <2> QED BY <2>1, <2>2, <2>3 DEF Texts
<1> QED BY <1>1, <1>2

\* Without edits it does not matter what was clustered.
LEMMA BlankText ==
  ASSUME NEW b \in BOOLEAN, NEW c, NEW d
  PROVE  /\ Encode(c, NoEdits(b)) = Encode(d, NoEdits(b))
         /\ Fitting(c, NoEdits(b))
         /\ Encode(c, NoEdits(TRUE)) = NoText
<1>1. DOMAIN NoEdits(b).names = {} /\ DOMAIN NoEdits(b).membership = {}
  BY DEF NoEdits
<1> QED BY <1>1 DEF Encode, Fitting

\* No edits, written out or not at all, can be read with any sliders.
LEMMA BlankSays ==
  ASSUME NEW b \in BOOLEAN, NEW c, NEW at
  PROVE  Says(Encode(c, NoEdits(b)), at) /\ Says(NoText, at)
<1>1. Encode(c, NoEdits(b)) = Encode(Cluster[at], NoEdits(b)) /\ Fitting(Cluster[at], NoEdits(b))
  BY BlankText
<1>2. NoText = Encode(Cluster[at], NoEdits(TRUE)) /\ Fitting(Cluster[at], NoEdits(TRUE))
  BY BlankText
<1> QED BY <1>1, <1>2, NoEditsType DEF Says

\* A record of edits, put together from its parts.
LEMMA EditsFrom ==
  ASSUME NEW m, NEW S \in SUBSET Photos, m \in [S -> Int],
         NEW n, NEW T \in SUBSET Int, n \in [T -> Labels],
         NEW trips \in HandTrips, NEW b \in BOOLEAN
  PROVE  [membership |-> m, trips |-> trips, names |-> n, organize |-> b] \in EditRecords
<1>1. m \in Memberships
  BY DEF Memberships
<1>2. n \in NameMaps
  BY DEF NameMaps
<1> QED BY <1>1, <1>2 DEF EditRecords

\* Generated folders depend on the trips and not on the other edits.
LEMMA SameTripsSameFolders ==
  ASSUME NEW c, NEW e, NEW f, e.trips = f.trips
  PROVE  /\ AllTrips(c, e) = AllTrips(c, f) /\ TripIds(c, e) = TripIds(c, f)
         /\ \A id : GeneratedFolder(c, e, id) = GeneratedFolder(c, f, id)
BY DEF AllTrips, TripIds, GeneratedFolder

\* Moves that are read back name known trips or none, and are the ones that were saved
\* when those did.
LEMMA MovesBackFit ==
  ASSUME NEW m \in Memberships, NEW known, NEW all \in SUBSET Photos
  PROVE  /\ MovesBack(m, known, all) \in Memberships
         /\ \A p \in DOMAIN MovesBack(m, known, all) :
              MovesBack(m, known, all)[p] \in known \cup {Unassigned}
         /\ (\A p \in DOMAIN m : p \in all /\ m[p] \in known \cup {Unassigned})
              => MovesBack(m, known, all) = m
<1> DEFINE S == {q \in DOMAIN m : q \in all /\ m[q] \in known \cup {Unassigned}}
<1>1. m \in [DOMAIN m -> Int]
  BY DEF Memberships
<1>2. MovesBack(m, known, all) = [p \in S |-> m[p]]
  BY DEF MovesBack
<1>3. [p \in S |-> m[p]] \in [S -> Int] /\ S \in SUBSET Photos
  BY <1>1
<1>4. (\A p \in DOMAIN m : p \in all /\ m[p] \in known \cup {Unassigned}) => S = DOMAIN m
  OBVIOUS
<1>5. \A p \in S : m[p] \in known \cup {Unassigned}
  OBVIOUS
<1> HIDE DEF S
<1> QED BY <1>1, <1>2, <1>3, <1>4, <1>5 DEF Memberships

\* Renames that are read back are one name for each trip that was renamed.
LEMMA NamesBackType ==
  ASSUME NEW renames \in SUBSET Renames
  PROVE  /\ NamesBack(renames) \in NameMaps
         /\ DOMAIN NamesBack(renames) = {r.id : r \in renames}
<1> DEFINE S == {r.id : r \in renames}
<1>1. \A t \in S : (CHOOSE r \in renames : r.id = t) \in renames
  OBVIOUS
<1>2. S \in SUBSET Int
  BY DEF Renames
<1>3. \A t \in S : (CHOOSE r \in renames : r.id = t).name \in Labels
  BY <1>1 DEF Renames
<1>4. NamesBack(renames) = [t \in S |-> (CHOOSE r \in renames : r.id = t).name]
  BY DEF NamesBack
<1> HIDE DEF S
<1>5. NamesBack(renames) \in [S -> Labels]
  BY <1>3, <1>4
<1>6. NamesBack(renames) \in NameMaps
  BY <1>2, <1>5 DEF NameMaps
<1> QED BY <1>5, <1>6 DEF S

\* The typed names come back if each trip has one line that names it.
LEMMA NamesBackAgain ==
  ASSUME NEW n, NEW T, n \in [T -> Labels], NEW from,
         NEW renames,
         renames = {[id |-> t, from |-> from[t], name |-> n[t]] : t \in T}
  PROVE  NamesBack(renames) = n
<1>0. ASSUME NEW t \in T PROVE \E r \in renames : r.id = t
  <2>1. [id |-> t, from |-> from[t], name |-> n[t]] \in renames
    OBVIOUS
  <2> QED BY <2>1
<1>1. {r.id : r \in renames} = T
  <2>1. \A r \in renames : r.id \in T
    OBVIOUS
  <2>2. \A t \in T : \E r \in renames : r.id = t
    BY <1>0
  <2> QED BY <2>1, <2>2
<1>2. ASSUME NEW t \in T PROVE (CHOOSE r \in renames : r.id = t).name = n[t]
  <2> DEFINE one == CHOOSE r \in renames : r.id = t
  <2>1. one \in renames /\ one.id = t
    <3>1. \E r \in renames : r.id = t
      BY <1>0
    <3> QED BY <3>1
  <2>2. \A r \in renames : r.name = n[r.id]
    OBVIOUS
  <2> HIDE DEF one
  <2>3. one.name = n[t]
    BY <2>1, <2>2
  <2> QED BY <2>3 DEF one
<1>3. NamesBack(renames) = [t \in T |-> (CHOOSE r \in renames : r.id = t).name]
  BY <1>1 DEF NamesBack
<1>4. [t \in T |-> (CHOOSE r \in renames : r.id = t).name] = [t \in T |-> n[t]]
  BY <1>2
<1> QED BY <1>3, <1>4

\* Whatever text a resume reads, what it lays back fits the trips that there are.
LEMMA AppliedFits ==
  ASSUME NEW c, IsClustering(c), NEW x \in Texts, x # NoText, NEW all \in SUBSET Photos
  PROVE  ApplyEdits(x, c, all) \in EditRecords /\ Fitting(c, ApplyEdits(x, c, all))
<1> DEFINE known == KnownTrips(c, x.trips)
           moves == MovesBack(x.membership, known, all)
           with == [membership |-> moves, trips |-> x.trips,
                    names |-> <<>>, organize |-> x.organize]
           fits == {r \in x.renames :
                      r.id \in known /\ r.from = GeneratedFolder(c, with, r.id)}
           done == [membership |-> moves, trips |-> x.trips,
                    names |-> NamesBack(fits), organize |-> x.organize]
<1>1. /\ x.membership \in Memberships /\ x.trips \in HandTrips
      /\ x.renames \in SUBSET Renames /\ x.organize \in BOOLEAN
  BY DEF Texts
<1>2. ApplyEdits(x, c, all) = done
  BY DEF ApplyEdits
<1>3. moves \in Memberships /\ \A p \in DOMAIN moves : moves[p] \in known \cup {Unassigned}
  BY <1>1, MovesBackFit
<1>4. fits \in SUBSET Renames /\ {r.id : r \in fits} \subseteq known
  BY <1>1
<1>5. NamesBack(fits) \in NameMaps /\ DOMAIN NamesBack(fits) \subseteq known
  <2> HIDE DEF fits
  <2> QED BY <1>4, NamesBackType
<1>6. known = TripIds(c, done)
  BY DEF TripIds, AllTrips, KnownTrips
<1>7. done \in EditRecords
  BY <1>1, <1>3, <1>5 DEF EditRecords
<1>8. Fitting(c, done)
  <2>1. done.membership = moves /\ done.names = NamesBack(fits)
    OBVIOUS
  <2> HIDE DEF done, known, moves, fits
  <2> QED BY <2>1, <1>3, <1>5, <1>6 DEF Fitting
<1> HIDE DEF done
<1> QED BY <1>2, <1>7, <1>8

\* apply_edits brings back what edits() saved, if the clustering is the one it was of.
LEMMA RoundTrip ==
  ASSUME NEW c, IsClustering(c), NEW e \in EditRecords, Fitting(c, e), e # NoEdits(TRUE)
  PROVE  ApplyEdits(Encode(c, e), c, Photos) = e
<1> DEFINE x == Encode(c, e)
           known == KnownTrips(c, x.trips)
           moves == MovesBack(x.membership, known, Photos)
           with == [membership |-> moves, trips |-> x.trips,
                    names |-> <<>>, organize |-> x.organize]
           fits == {r \in x.renames :
                      r.id \in known /\ r.from = GeneratedFolder(c, with, r.id)}
           from == [t \in DOMAIN e.names |-> GeneratedFolder(c, e, t)]
           lines == {[id |-> t, from |-> from[t], name |-> e.names[t]] : t \in DOMAIN e.names}
<1>1. /\ x.membership = e.membership /\ x.trips = e.trips /\ x.organize = e.organize
      /\ x.renames = lines
  BY DEF Encode
<1>2. ApplyEdits(x, c, Photos)
         = [membership |-> moves, trips |-> x.trips,
            names |-> NamesBack(fits), organize |-> x.organize]
  BY DEF ApplyEdits
<1> HIDE DEF x
<1>3. known = TripIds(c, e)
  BY <1>1 DEF TripIds, AllTrips, KnownTrips
<1>4. moves = e.membership
  <2>1. e.membership \in Memberships
    BY DEF EditRecords
  <2>2. \A p \in DOMAIN e.membership : p \in Photos /\ e.membership[p] \in known \cup {Unassigned}
    BY <1>3, EditParts DEF Fitting
  <2> HIDE DEF known
  <2> QED BY <1>1, <2>1, <2>2, MovesBackFit
<1>5. \A id : GeneratedFolder(c, with, id) = GeneratedFolder(c, e, id)
  BY <1>1, SameTripsSameFolders
<1>6. fits = lines
  <2>1. \A r \in lines : r.id \in known /\ r.from = GeneratedFolder(c, e, r.id)
    <3>1. ASSUME NEW r \in lines PROVE r.id \in DOMAIN e.names /\ r.from = from[r.id]
      OBVIOUS
    <3>2. \A t \in DOMAIN e.names : t \in known /\ from[t] = GeneratedFolder(c, e, t)
      BY <1>3 DEF Fitting
    <3> HIDE DEF lines, from, known
    <3> QED BY <3>1, <3>2
  <2> HIDE DEF known, with, lines
  <2> QED BY <1>1, <1>5, <2>1
<1>7. NamesBack(fits) = e.names
  <2> HIDE DEF fits, from
  <2> QED BY <1>6, NamesBackAgain, EditParts
<1> HIDE DEF moves, fits
<1> QED BY <1>1, <1>2, <1>4, <1>7, EditParts DEF x

\* Laid back over the trips of the settings it was saved with, a text is the same again.
LEMMA SaysAgain ==
  ASSUME NEW at \in Params, NEW x \in Texts, x # NoText, Says(x, at)
  PROVE  Encode(Cluster[at], ApplyEdits(x, Cluster[at], Photos)) = x
<1>1. PICK e \in EditRecords : Fitting(Cluster[at], e) /\ x = Encode(Cluster[at], e)
  BY DEF Says
<1>2. e # NoEdits(TRUE)
  BY <1>1, BlankText
<1> QED BY <1>1, <1>2, RoundTrip, ClusterFacts

\* The trips of a clustering are not among those made by hand.
LEMMA HandTripIds ==
  ASSUME NEW c, IsClustering(c), NEW e \in EditRecords
  PROVE  /\ \A t \in Range(e.trips) : t.id \in Int /\ t.id >= FirstUserTrip
         /\ \A t \in c : t.id \in Int /\ t.id < FirstUserTrip
<1>1. /\ e.trips \in Seq(TripRecords)
      /\ \A i \in DOMAIN e.trips : e.trips[i].id = FirstUserTrip + i - 1
  BY EditParts DEF HandTrips
<1>2. \A t \in Range(e.trips) : \E i \in 1 .. Len(e.trips) : t = e.trips[i]
  BY <1>1 DEF Range
<1> QED BY <1>1, <1>2, FirstIsNat DEF IsClustering

\* Trips are told apart by their numbers.
LEMMA NumberedTrips ==
  ASSUME NEW c, IsClustering(c), NEW e \in EditRecords,
         NEW t \in AllTrips(c, e), NEW u \in AllTrips(c, e), t.id = u.id
  PROVE  t = u
<1>1. CASE t \in c /\ u \in c
  BY <1>1 DEF IsClustering
<1>2. CASE t \in Range(e.trips) /\ u \in Range(e.trips)
  <2>1. \A i \in DOMAIN e.trips : e.trips[i].id = FirstUserTrip + i - 1 /\ i \in Int
    BY EditParts DEF HandTrips
  <2>2. PICK i \in DOMAIN e.trips, j \in DOMAIN e.trips : t = e.trips[i] /\ u = e.trips[j]
    BY <1>2 DEF Range
  <2>3. i = j
    BY <2>1, <2>2, FirstIsNat
  <2> QED BY <2>2, <2>3
<1> QED BY <1>1, <1>2, HandTripIds, FirstIsNat DEF AllTrips

\* What comes of the trips of a pass is a clustering, and may be none or all of them.
LEMMA CameFacts ==
  ASSUME NEW at \in Params, NEW c \in Came(Cluster[at])
  PROVE  /\ c \subseteq Cluster[at] /\ IsClustering(c)
         /\ {} \in Came(Cluster[at]) /\ Cluster[at] \in Came(Cluster[at])
<1>1. c \subseteq Cluster[at] /\ {} \in Came(Cluster[at]) /\ Cluster[at] \in Came(Cluster[at])
  BY DEF Came
<1>2. IsClustering(c)
  BY <1>1, ClusterFacts DEF IsClustering
<1> QED BY <1>1, <1>2

\* Edits of some of the trips are edits of all of them.
LEMMA OfFewerTrips ==
  ASSUME NEW d, IsClustering(d), NEW c, c \subseteq d, NEW e \in EditRecords, Fitting(c, e)
  PROVE  Fitting(d, e) /\ Encode(c, e) = Encode(d, e)
<1>1. AllTrips(c, e) \subseteq AllTrips(d, e) /\ TripIds(c, e) \subseteq TripIds(d, e)
  BY DEF TripIds, AllTrips
<1>2. ASSUME NEW id \in TripIds(c, e)
      PROVE  GeneratedFolder(c, e, id) = GeneratedFolder(d, e, id)
  <2>1. PICK u \in AllTrips(c, e) : u.id = id
    BY DEF TripIds
  <2>2. \A t \in AllTrips(d, e) : t.id = id => t = u
    BY <1>1, <2>1, NumberedTrips
  <2>3. {t \in AllTrips(d, e) : t.id = id} = {t \in AllTrips(c, e) : t.id = id}
    BY <1>1, <2>1, <2>2
  <2> QED BY <2>3 DEF GeneratedFolder
<1>3. Fitting(d, e)
  BY <1>1 DEF Fitting
<1>4. \A t \in DOMAIN e.names : GeneratedFolder(c, e, t) = GeneratedFolder(d, e, t)
  BY <1>2 DEF Fitting
<1> QED BY <1>3, <1>4 DEF Encode

\* So the edits on the screen can be saved with the settings on the screen.
LEMMA ScreenSays ==
  ASSUME NEW at \in Params, NEW c \in Came(Cluster[at]), NEW e \in EditRecords,
         Fitting(c, e)
  PROVE  Says(Encode(c, e), at)
<1>1. c \subseteq Cluster[at] /\ IsClustering(Cluster[at])
  BY CameFacts, ClusterFacts
<1> QED BY <1>1, OfFewerTrips DEF Says

------------------------------------------------------------------------------
(* The layout.                                                                *)

\* What rebuild leaves of a trip: its number and its slug, with the photos it was given.
LEMMA RebuildParts ==
  ASSUME NEW base \in TripRecords, NEW ids
  PROVE  /\ Rebuild(base, ids).id = base.id /\ Rebuild(base, ids).members = ids
         /\ Rebuild(base, ids).slug = base.slug
<1> DEFINE lean == {[l EXCEPT !.members = @ \cap ids] : l \in base.legs}
           whole == [place |-> base.place,
                     slug |-> IF base.slug = NoName THEN "leg-1" ELSE base.slug,
                     members |-> ids]
           kept == {l \in lean : l.members # {}}
           some == {whole}
<1>1. \/ Rebuild(base, ids) = base /\ ids = base.members
      \/ Rebuild(base, ids) = [base EXCEPT !.members = ids, !.legs = kept]
      \/ Rebuild(base, ids) = [base EXCEPT !.members = ids, !.legs = some]
  BY DEF Rebuild
<1> HIDE DEF kept, some
<1> QED BY <1>1 DEF TripRecords

\* The trips on the screen are those there are, under their numbers.
LEMMA EffectiveFacts ==
  ASSUME NEW c, IsClustering(c), NEW e \in EditRecords, NEW gone,
         NEW t \in EffectiveTrips(c, e, gone)
  PROVE  \E base \in AllTrips(c, e) : /\ t = Rebuild(base, Members(base, e, gone))
                                      /\ t.id = base.id /\ t.slug = base.slug
                                      /\ t.members = Members(base, e, gone)
                                      /\ Members(base, e, gone) # {}
<1>1. PICK base \in AllTrips(c, e) : t = Rebuild(base, Members(base, e, gone))
                                     /\ Members(base, e, gone) # {}
  BY DEF EffectiveTrips
<1>2. base \in TripRecords
  BY TripsType
<1> QED BY <1>1, <1>2, RebuildParts

\* The trips of the layout are trips of the plan: edits drop some and add none.
LEMMA EffectiveIds ==
  ASSUME NEW c, IsClustering(c), NEW e \in EditRecords, NEW gone,
         NEW t \in EffectiveTrips(c, e, gone)
  PROVE  t.id \in TripIds(c, e)
BY EffectiveFacts DEF TripIds

\* What the user types and picks leaves edits that fit the trips.
LEMMA MovedFits ==
  ASSUME NEW c, IsClustering(c), NEW e \in EditRecords, Fitting(c, e), NEW ids \in SUBSET Photos,
         NEW trip \in TripIds(c, e) \cup {Unassigned}
  PROVE  Moved(e, ids, trip) \in EditRecords /\ Fitting(c, Moved(e, ids, trip))
<1> DEFINE m == [p \in DOMAIN e.membership \cup ids |->
                   IF p \in ids THEN trip ELSE e.membership[p]]
<1>1. Moved(e, ids, trip)
        = [membership |-> m, trips |-> e.trips, names |-> e.names, organize |-> e.organize]
  BY EditParts DEF Moved
<1>2. trip \in Int
  BY TripsType, FirstIsNat
<1>3. DOMAIN e.membership \cup ids \in SUBSET Photos /\ m \in [DOMAIN e.membership \cup ids -> Int]
  BY <1>2, EditParts
<1>4. Moved(e, ids, trip) \in EditRecords
  <2> HIDE DEF m
  <2>1. m \in Memberships
    BY <1>3 DEF Memberships
  <2> QED BY <1>1, <2>1 DEF EditRecords
<1>5. \A p \in DOMAIN m : m[p] \in TripIds(c, e) \cup {Unassigned}
  BY DEF Fitting
<1> HIDE DEF m
<1>6. TripIds(c, Moved(e, ids, trip)) = TripIds(c, e)
  BY <1>1, SameTripsSameFolders
<1> QED BY <1>1, <1>4, <1>5, <1>6 DEF Fitting

\* A rename leaves edits that fit the plan (rename_folder).
LEMMA RenamedFits ==
  ASSUME NEW c, IsClustering(c), NEW e \in EditRecords, Fitting(c, e),
         NEW trip \in TripIds(c, e), NEW name \in Labels
  PROVE  Renamed(e, trip, name) \in EditRecords /\ Fitting(c, Renamed(e, trip, name))
<1> DEFINE n == [t \in DOMAIN e.names \cup {trip} |-> IF t = trip THEN name ELSE e.names[t]]
<1>1. Renamed(e, trip, name)
        = [membership |-> e.membership, trips |-> e.trips, names |-> n, organize |-> e.organize]
  BY EditParts DEF Renamed
<1>2. trip \in Int
  BY TripsType
<1>3. DOMAIN e.names \cup {trip} \in SUBSET Int /\ n \in [DOMAIN e.names \cup {trip} -> Labels]
  BY <1>2, EditParts
<1>4. DOMAIN n \subseteq TripIds(c, e)
  BY DEF Fitting
<1> HIDE DEF n
<1>5. Renamed(e, trip, name) \in EditRecords
  <2>1. n \in NameMaps
    BY <1>3 DEF NameMaps
  <2>2. e \in EditRecords
    OBVIOUS
  <2> QED BY <1>1, <2>1, <2>2 DEF EditRecords
<1>6. TripIds(c, Renamed(e, trip, name)) = TripIds(c, e)
  BY <1>1, SameTripsSameFolders
<1> QED BY <1>1, <1>4, <1>5, <1>6 DEF Fitting

\* Switching the folders off or on leaves edits that fit the plan (set_organize).
LEMMA OrganizedFits ==
  ASSUME NEW c, IsClustering(c), NEW e \in EditRecords, Fitting(c, e)
  PROVE  /\ [e EXCEPT !.organize = ~@] \in EditRecords
         /\ Fitting(c, [e EXCEPT !.organize = ~@])
<1> DEFINE f == [e EXCEPT !.organize = ~@]
<1>1. f = [membership |-> e.membership, trips |-> e.trips, names |-> e.names,
           organize |-> ~e.organize]
  BY EditParts
<1> HIDE DEF f
<1>2. f \in EditRecords
  BY <1>1, EditsFrom, EditParts
<1>3. TripIds(c, f) = TripIds(c, e)
  BY <1>1, SameTripsSameFolders
<1>4. Fitting(c, f)
  BY <1>1, <1>3 DEF Fitting
<1> QED BY <1>2, <1>4 DEF f

\* A place for a trip made by hand is a label.
LEMMA PlacesType ==
  ASSUME NEW c, IsClustering(c), NEW ids, NEW place \in PlacesFor(c, ids)
  PROVE  place \in Labels
<1>1. ASSUME NEW p PROVE KnownPlace(c, p) \in Labels
  <2> DEFINE homes == {t \in c : p \in t.members}
             legs == {l \in UNION {t.legs : t \in homes} : p \in l.members /\ l.place # NoName}
             places == IF legs # {} THEN {l.place : l \in legs} ELSE {t.place : t \in homes}
  <2>1. homes \subseteq TripRecords
    BY DEF IsClustering
  <2>2. UNION {t.legs : t \in homes} \subseteq LegRecords
    BY <2>1 DEF TripRecords
  <2>3. {l.place : l \in legs} \subseteq Labels /\ {t.place : t \in homes} \subseteq Labels
    BY <2>1, <2>2 DEF TripRecords, LegRecords
  <2>4. places \subseteq Labels
    BY <2>3
  <2>5. KnownPlace(c, p) = IF places = {} THEN NoName ELSE CHOOSE n \in places : TRUE
    BY DEF KnownPlace
  <2>6. places # {} => (CHOOSE n \in places : TRUE) \in places
    OBVIOUS
  <2> HIDE DEF places
  <2> QED BY <2>4, <2>5, <2>6, LabelsAssumption
<1> QED BY <1>1, LabelsAssumption DEF PlacesFor

\* What a sequence holds after one more.
LEMMA RangeAppended ==
  ASSUME NEW S, NEW q \in Seq(S), NEW x \in S
  PROVE  Range(Append(q, x)) = Range(q) \cup {x}
<1>1. DOMAIN Append(q, x) = DOMAIN q \cup {Len(q) + 1}
  OBVIOUS
<1>2. (\A i \in DOMAIN q : Append(q, x)[i] = q[i]) /\ Append(q, x)[Len(q) + 1] = x
  OBVIOUS
<1> QED BY <1>1, <1>2 DEF Range

\* A trip made by hand leaves edits that fit the plan (create_trip).
LEMMA CreatedFits ==
  ASSUME NEW c, IsClustering(c), NEW e \in EditRecords, Fitting(c, e), NEW ids \in SUBSET Photos,
         NEW place \in Labels
  PROVE  Created(e, ids, place) \in EditRecords /\ Fitting(c, Created(e, ids, place))
<1> DEFINE n == NextUserTrip(e)
           trip == HandMade(e, ids, place)
           f == [e EXCEPT !.trips = Append(@, trip)]
<1>1. e.trips \in Seq(TripRecords) /\ n = FirstUserTrip + Len(e.trips) /\ n \in Int
  BY EditParts, FirstIsNat DEF NextUserTrip
<1>2. trip \in TripRecords /\ trip.id = n /\ trip.members = {} /\ trip.legs = {}
  BY <1>1, LabelsAssumption DEF HandMade, TripRecords
<1> HIDE DEF trip, n
<1>3. Append(e.trips, trip) \in HandTrips
  <2>1. Append(e.trips, trip) \in Seq(TripRecords)
    BY <1>1, <1>2
  <2>2. \A i \in DOMAIN e.trips : /\ e.trips[i].id = FirstUserTrip + i - 1
                                  /\ e.trips[i].members = {} /\ e.trips[i].legs = {}
    BY EditParts DEF HandTrips
  <2>3. ASSUME NEW i \in DOMAIN Append(e.trips, trip)
        PROVE  \/ i \in DOMAIN e.trips /\ Append(e.trips, trip)[i] = e.trips[i]
               \/ i = Len(e.trips) + 1 /\ Append(e.trips, trip)[i] = trip
    BY <1>1, <1>2
  <2>4. ASSUME NEW i \in DOMAIN Append(e.trips, trip)
        PROVE  /\ Append(e.trips, trip)[i].id = FirstUserTrip + i - 1
               /\ Append(e.trips, trip)[i].members = {} /\ Append(e.trips, trip)[i].legs = {}
    <3>1. Len(e.trips) \in Nat
      BY <1>1
    <3>2. CASE i \in DOMAIN e.trips /\ Append(e.trips, trip)[i] = e.trips[i]
      BY <3>2, <2>2
    <3>3. CASE i = Len(e.trips) + 1 /\ Append(e.trips, trip)[i] = trip
      <4>1. n = FirstUserTrip + i - 1
        BY <3>1, <3>3, <1>1, FirstIsNat
      <4> QED BY <3>3, <4>1, <1>2
    <3> QED BY <3>2, <3>3, <2>3
  <2> QED BY <2>1, <2>4 DEF HandTrips
<1>4. f = [membership |-> e.membership, trips |-> Append(e.trips, trip), names |-> e.names,
           organize |-> e.organize]
  BY DEF EditRecords
<1> HIDE DEF f
<1>5. f \in EditRecords
  BY <1>3, <1>4, EditsFrom, EditParts
<1>6. TripIds(c, f) = TripIds(c, e) \cup {n}
  <2>1. Range(Append(e.trips, trip)) = Range(e.trips) \cup {trip}
    <3>1. e.trips \in Seq(TripRecords) /\ trip \in TripRecords
      BY <1>1, <1>2
    <3> QED BY <3>1, RangeAppended
  <2>2. Range(f.trips) = Range(e.trips) \cup {trip}
    BY <1>4, <2>1
  <2> QED BY <1>2, <2>2 DEF TripIds, AllTrips
<1>7. Fitting(c, f)
  BY <1>4, <1>6 DEF Fitting
<1>8. Created(e, ids, place) = Moved(f, ids, n)
  BY DEF Created, f, trip, n
<1> QED BY <1>5, <1>6, <1>7, <1>8, MovedFits

\* A trip made by hand has no photos but those that were moved to it.
LEMMA HandTripsAreEmpty ==
  ASSUME NEW e \in EditRecords, NEW t \in Range(e.trips)
  PROVE  t.members = {} /\ t.legs = {}
BY EditParts DEF HandTrips, Range

\* No photo is in two trips, whatever was moved.
LEMMA OneTripEach ==
  ASSUME NEW c, IsClustering(c), NEW e \in EditRecords, NEW gone, NEW p,
         NEW t \in EffectiveTrips(c, e, gone), NEW u \in EffectiveTrips(c, e, gone),
         p \in t.members, p \in u.members
  PROVE  t = u
<1>1. PICK a \in AllTrips(c, e) :
        t = Rebuild(a, Members(a, e, gone)) /\ t.members = Members(a, e, gone)
  BY EffectiveFacts
<1>2. PICK b \in AllTrips(c, e) :
        u = Rebuild(b, Members(b, e, gone)) /\ u.members = Members(b, e, gone)
  BY EffectiveFacts
<1>3. /\ p \in DOMAIN e.membership => e.membership[p] = a.id /\ e.membership[p] = b.id
      /\ p \notin DOMAIN e.membership => p \in a.members /\ p \in b.members
  BY <1>1, <1>2 DEF Members
<1>4. CASE p \in DOMAIN e.membership
  BY <1>1, <1>2, <1>3, <1>4, NumberedTrips
<1>5. CASE p \notin DOMAIN e.membership
  <2>1. a \in c /\ b \in c
    BY <1>3, <1>5, HandTripsAreEmpty DEF AllTrips
  <2> QED BY <1>1, <1>2, <1>3, <1>5, <2>1 DEF IsClustering
<1> QED BY <1>4, <1>5

\* A trip of several legs has each of its photos in one of them.
LEMMA OneLegEach ==
  ASSUME NEW c, IsClustering(c), NEW e \in EditRecords, NEW gone,
         NEW t \in EffectiveTrips(c, e, gone), Several(t.legs), NEW p \in t.members
  PROVE  \E leg \in t.legs : \A l \in t.legs : p \in l.members <=> l = leg
<1>1. PICK base \in AllTrips(c, e) : t = Rebuild(base, Members(base, e, gone))
  BY EffectiveFacts
<1> DEFINE ids == Members(base, e, gone)
           lean == {[l EXCEPT !.members = @ \cap ids] : l \in base.legs}
           kept == {l \in lean : l.members # {}}
           whole == [place |-> base.place,
                     slug |-> IF base.slug = NoName THEN "leg-1" ELSE base.slug,
                     members |-> ids]
           some == {whole}
<1>2. base \in TripRecords
  BY TripsType
<1>3. t.members = ids
  BY <1>1, <1>2, RebuildParts
<1>4. ASSUME NEW x PROVE ~Several({x})
  <2>1. Cardinality({x}) = 1
    BY FS_Singleton
  <2> QED BY <2>1 DEF Several
<1>5. ~Several({})
  <2>1. Cardinality({}) = 0
    BY FS_EmptySet
  <2> QED BY <2>1 DEF Several
<1>6. Several(base.legs) => base \in c
  BY <1>5, HandTripsAreEmpty DEF AllTrips
<1>7. CASE ids = base.members
  <2>1. t = base
    BY <1>1, <1>7 DEF Rebuild
  <2> QED BY <1>6, <2>1 DEF IsClustering
<1>8. CASE ids # base.members /\ ids \subseteq base.members /\ Several(base.legs)
  <2>1. t = [base EXCEPT !.members = ids, !.legs = kept]
    BY <1>1, <1>8 DEF Rebuild
  <2>2. t.legs = kept
    <3> HIDE DEF kept
    <3> QED BY <1>2, <2>1 DEF TripRecords
  <2>3. PICK leg \in base.legs : \A l \in base.legs : p \in l.members <=> l = leg
    BY <1>3, <1>6, <1>8 DEF IsClustering
  <2>4. base.legs \subseteq LegRecords
    BY <1>2 DEF TripRecords
  <2> DEFINE Lean(l) == [l EXCEPT !.members = @ \cap ids]
  <2>5. \A l \in base.legs : Lean(l).members = l.members \cap ids
    BY <2>4 DEF LegRecords
  <2>6. p \in ids
    BY <1>3
  <2>7. \A l \in kept : \E k \in base.legs : l = Lean(k)
    OBVIOUS
  <2>8. Lean(leg) \in kept
    BY <2>3, <2>5, <2>6
  <2>9. \A l \in kept : p \in l.members <=> l = Lean(leg)
    <3> HIDE DEF kept, Lean, ids
    <3> QED BY <2>3, <2>5, <2>6, <2>7
  <2> QED BY <2>2, <2>8, <2>9
<1>9. CASE ids # base.members /\ ~(ids \subseteq base.members /\ Several(base.legs))
  <2>1. t = [base EXCEPT !.members = ids, !.legs = some]
    BY <1>1, <1>9 DEF Rebuild
  <2>2. t.legs = some
    <3> HIDE DEF some
    <3> QED BY <1>2, <2>1 DEF TripRecords
  <2>3. ~Several(some)
    <3> HIDE DEF whole
    <3> QED BY <1>4
  <2> HIDE DEF some
  <2> QED BY <2>2, <2>3
<1> QED BY <1>7, <1>8, <1>9

\* Photos of a trip are copied into one folder just when they share a leg.
LEMMA FoldersAreLegs ==
  ASSUME NEW c, IsClustering(c), NEW e \in EditRecords, NEW gone,
         NEW t \in EffectiveTrips(c, e, gone), e.organize, TripSlug(t, e) # NoName,
         LegsApart(t.legs), NEW p \in t.members, NEW q \in t.members
  PROVE  FolderPlan(c, e, gone)[p] = FolderPlan(c, e, gone)[q]
           <=> (Several(t.legs) => \E l \in t.legs : {p, q} \subseteq l.members)
<1> DEFINE trips == {u \in EffectiveTrips(c, e, gone) : TripSlug(u, e) # NoName}
           plan == FolderPlan(c, e, gone)
           With(r) == {l \in t.legs : r \in l.members}
<1>1. plan = [r \in PhotosOf(trips) |-> FolderOf(TripWith(trips, r), r, e)]
  BY DEF FolderPlan
<1>2. ASSUME NEW r \in t.members
      PROVE  plan[r] = FolderOf(t, r, e)
  <2>1. r \in PhotosOf(trips)
    BY DEF PhotosOf
  <2>2. TripWith(trips, r) = t
    <3>1. \A u \in trips : r \in u.members => u = t
      BY OneTripEach
    <3>2. t \in trips
      OBVIOUS
    <3> HIDE DEF trips
    <3> QED BY <3>1, <3>2 DEF TripWith
  <2> HIDE DEF plan
  <2> QED BY <1>1, <2>1, <2>2
<1> HIDE DEF plan
<1>3. CASE ~Several(t.legs)
  <2>1. plan[p] = plan[q]
    BY <1>2, <1>3 DEF FolderOf
  <2> QED BY <1>3, <2>1 DEF plan
<1>4. CASE Several(t.legs)
  <2>1. PICK a \in t.legs : \A l \in t.legs : p \in l.members <=> l = a
    BY <1>4, OneLegEach
  <2>2. PICK b \in t.legs : \A l \in t.legs : q \in l.members <=> l = b
    BY <1>4, OneLegEach
  <2>3. With(p) = {a} /\ With(q) = {b}
    BY <2>1, <2>2
  <2>4. OneOf({a}) = a /\ OneOf({b}) = b
    BY DEF OneOf
  <2>5. /\ FolderOf(t, p, e) = <<TripSlug(t, e), LegSlug(a)>>
        /\ FolderOf(t, q, e) = <<TripSlug(t, e), LegSlug(b)>>
    <3>1. /\ With(p) # {} /\ LegSlug(OneOf(With(p))) = LegSlug(a)
          /\ With(q) # {} /\ LegSlug(OneOf(With(q))) = LegSlug(b)
      BY <2>3, <2>4
    <3> QED BY <1>4, <3>1 DEF FolderOf
  <2>6. plan[p] = plan[q] <=> a = b
    BY <1>2, <2>5 DEF LegsApart
  <2>7. a = b <=> \E l \in t.legs : {p, q} \subseteq l.members
    BY <2>1, <2>2
  <2> QED BY <1>4, <2>6, <2>7 DEF plan
<1> QED BY <1>3, <1>4

\* A layout puts every photo into one folder, whatever was edited (compute_trip_layout).
LEMMA EveryLayoutLays ==
  ASSUME NEW c, IsClustering(c), NEW e \in EditRecords, NEW gone, NEW all
  PROVE  Lays(c, e, gone, all)
<1> DEFINE trips == EffectiveTrips(c, e, gone)
           spare == UnassignedPhotos(c, e, gone, all)
           plan == FolderPlan(c, e, gone)
           Of(p) == {t \in trips : p \in t.members}
           Together(t, p, q) == Several(t.legs) => \E l \in t.legs : {p, q} \subseteq l.members
<1>1. ASSUME NEW p PROVE /\ p \notin PhotosOf(trips) => Cardinality(Of(p)) = 0
                         /\ p \in PhotosOf(trips) => Cardinality(Of(p)) = 1
  <2>1. p \notin PhotosOf(trips) => Of(p) = {}
    BY DEF PhotosOf
  <2>2. ASSUME p \in PhotosOf(trips) PROVE \E t \in trips : Of(p) = {t}
    <3>1. PICK t \in trips : p \in t.members
      BY <2>2 DEF PhotosOf
    <3>2. \A u \in trips : p \in u.members => u = t
      BY <3>1, OneTripEach
    <3> HIDE DEF trips
    <3> QED BY <3>1, <3>2
  <2> HIDE DEF Of
  <2> QED BY <2>1, <2>2, FS_EmptySet, FS_Singleton
<1>2. \A p : p \in spare <=> p \in all /\ p \notin PhotosOf(trips) /\ p \notin gone
  BY DEF UnassignedPhotos
<1>3. \A p \in gone : p \notin PhotosOf(trips)
  <2>1. ASSUME NEW t \in trips PROVE t.members \cap gone = {}
    <3>1. PICK base \in AllTrips(c, e) : t.members = Members(base, e, gone)
      BY EffectiveFacts
    <3> QED BY <3>1 DEF Members
  <2> HIDE DEF trips
  <2> QED BY <2>1 DEF PhotosOf
<1>4. ASSUME NEW t \in trips, Several(t.legs), NEW p \in t.members
      PROVE  Cardinality({l \in t.legs : p \in l.members}) = 1
  <2>1. PICK leg \in t.legs : \A l \in t.legs : p \in l.members <=> l = leg
    BY <1>4, OneLegEach
  <2>2. {l \in t.legs : p \in l.members} = {leg}
    BY <2>1
  <2> QED BY <2>2, FS_Singleton
<1>5. ASSUME NEW t \in trips, e.organize, TripSlug(t, e) # NoName, LegsApart(t.legs),
             NEW p \in t.members, NEW q \in t.members
      PROVE  plan[p] = plan[q] <=> Together(t, p, q)
  BY <1>5, FoldersAreLegs
<1>6. \A p \in all \ gone : IF p \in spare THEN Cardinality(Of(p)) = 0
                            ELSE Cardinality(Of(p)) = 1
  <2> HIDE DEF spare, trips, Of
  <2> QED BY <1>1, <1>2
<1>7. \A p \in gone : Cardinality(Of(p)) = 0 /\ p \notin spare
  <2> HIDE DEF spare, trips, Of
  <2> QED BY <1>1, <1>2, <1>3
<1> HIDE DEF plan, spare, Together
<1> QED BY <1>4, <1>5, <1>6, <1>7 DEF Lays, plan, spare, Together

\* No photo is in two batches.
LEMMA BatchesApart ==
  ASSUME NEW c, IsClustering(c), NEW e \in EditRecords, NEW gone,
         NEW a \in BatchesOf(c, e, gone), NEW b \in BatchesOf(c, e, gone), a # b
  PROVE  a \cap b = {}
<1> DEFINE trips == EffectiveTrips(c, e, gone)
           In(n) == {t \in trips : EffectiveFolder(t, e) = n}
<1>1. ASSUME NEW x \in BatchesOf(c, e, gone)
      PROVE  \/ \E n : x = PhotosOf(In(n)) \cap index
             \/ x = UnassignedPhotos(c, e, gone, index)
  <2> DEFINE f == Folders(c, e, gone)
  <2>1. \A n \in DOMAIN f : f[n] = In(n)
    BY DEF Folders
  <2> HIDE DEF f
  <2>2. \/ \E n \in DOMAIN f : x = PhotosOf(f[n]) \cap index
        \/ x = UnassignedPhotos(c, e, gone, index)
    BY DEF BatchesOf, f
  <2> QED BY <2>1, <2>2
<1>2. \A p, n : p \in PhotosOf(In(n)) =>
        \E t \in trips : p \in t.members /\ EffectiveFolder(t, e) = n
  BY DEF PhotosOf
<1>3. \A p, n : p \in PhotosOf(In(n)) => p \notin UnassignedPhotos(c, e, gone, index)
  BY <1>2 DEF UnassignedPhotos, PhotosOf
<1>4. ASSUME NEW p, NEW m, NEW n, p \in PhotosOf(In(n)), p \in PhotosOf(In(m))
      PROVE  m = n
  <2>1. PICK t \in trips : p \in t.members /\ EffectiveFolder(t, e) = n
    BY <1>2, <1>4
  <2>2. PICK u \in trips : p \in u.members /\ EffectiveFolder(u, e) = m
    BY <1>2, <1>4
  <2>3. t = u
    BY <2>1, <2>2, OneTripEach
  <2> QED BY <2>1, <2>2, <2>3
<1> HIDE DEF In
<1> QED BY <1>1, <1>3, <1>4

------------------------------------------------------------------------------
(* The queue.                                                                 *)

\* Steps are numbers.
LEMMA StepType == \A p : StepOf(p) \in Int
BY DEF StepOf, TripsStep, Quality, Copy, Select

\* What a task may be, and what it carries.
LEMMA TaskKinds ==
  ASSUME NEW t \in Tasks
  PROVE  /\ t.kind \in {"position", "edits", "probe", "results", "unheard"}
         /\ t.kind = "position" => t.step \in Int /\ t.params \in Params
         /\ t.kind = "edits" => t.text \in Texts
BY DEF Tasks, Questions

\* The tasks that the handlers submit are tasks.
LEMMA SavesAreTasks ==
  /\ \A p, at : at \in Params => /\ Position(p, at) \in Tasks
                                 /\ Position(p, at).kind = "position"
                                 /\ Position(p, at).step = StepOf(p)
                                 /\ Position(p, at).params = at
  /\ \A x \in Texts : /\ EditsTask(x) \in Tasks
                      /\ EditsTask(x).kind = "edits" /\ EditsTask(x).text = x
  /\ \A k \in Questions \cup {"unheard"} : [kind |-> k] \in Tasks
BY StepType DEF Tasks, Position, EditsTask

\* The next generation of the scope keeps the saves and silences the questions, one by one.
LEMMA UnheardQueue ==
  ASSUME NEW q \in Seq(Tasks)
  PROVE  /\ Unheard(q) \in Seq(Tasks) /\ Len(Unheard(q)) = Len(q)
         /\ \A i \in DOMAIN q :
              \/ q[i].kind \in {"position", "edits"} /\ Unheard(q)[i] = q[i]
              \/ q[i].kind \notin {"position", "edits"} /\ Unheard(q)[i].kind = "unheard"
         /\ q = <<>> => Unheard(q) = <<>>
<1> DEFINE s == [i \in 1 .. Len(q) |-> IF q[i].kind \in {"position", "edits"} THEN q[i]
                                       ELSE [kind |-> "unheard"]]
<1>1. Unheard(q) = s
  BY DEF Unheard, Parts
<1>2. \A i \in 1 .. Len(q) : s[i] \in Tasks
  BY SavesAreTasks
<1>3. s \in Seq(Tasks) /\ Len(s) = Len(q)
  <2>1. Len(q) \in Nat
    OBVIOUS
  <2>2. s \in [1 .. Len(q) -> Tasks]
    BY <1>2
  <2> HIDE DEF s
  <2> QED BY <2>1, <2>2
<1>4. \A i \in DOMAIN q :
        \/ q[i].kind \in {"position", "edits"} /\ s[i] = q[i]
        \/ q[i].kind \notin {"position", "edits"} /\ s[i].kind = "unheard"
  OBVIOUS
<1> HIDE DEF s
<1> QED BY <1>1, <1>3, <1>4

\* A task at the end of the queue.
LEMMA Appended ==
  ASSUME NEW q \in Seq(Tasks), NEW t \in Tasks
  PROVE  /\ Append(q, t) \in Seq(Tasks) /\ Len(Append(q, t)) = Len(q) + 1
         /\ q \o <<t>> = Append(q, t)
         /\ \A i \in DOMAIN q : Append(q, t)[i] = q[i]
         /\ Append(q, t)[Len(q) + 1] = t
         /\ \A i \in DOMAIN Append(q, t) : i \in DOMAIN q \/ i = Len(q) + 1
OBVIOUS

\* The queue without the task that a worker takes.
LEMMA Removed ==
  ASSUME NEW q \in Seq(Tasks), NEW i \in DOMAIN q \cap 1 .. 2
  PROVE  /\ RemoveAt(q, i) \in Seq(Tasks)
         /\ \A j \in DOMAIN RemoveAt(q, i) :
              \E k \in DOMAIN q \ {i} :
                RemoveAt(q, i)[j] = q[k] /\ (j < i => k = j) /\ (j >= i => k = j + 1)
         /\ RemoveAt(q, 1) = Tail(q) /\ q # <<>>
<1>1. q # <<>> /\ Len(q) >= 1 /\ Len(q) \in Nat
  OBVIOUS
<1>2. RemoveAt(q, i) = SubSeq(q, 1, i - 1) \o SubSeq(q, i + 1, Len(q))
  BY DEF RemoveAt
<1>3. SubSeq(q, 1, i - 1) \in Seq(Tasks) /\ SubSeq(q, i + 1, Len(q)) \in Seq(Tasks)
      /\ Len(SubSeq(q, 1, i - 1)) = i - 1 /\ Len(SubSeq(q, i + 1, Len(q))) = Len(q) - i
  BY <1>1
<1>4. RemoveAt(q, 1) = Tail(q)
  <2>1. RemoveAt(q, 1) = SubSeq(q, 1, 0) \o SubSeq(q, 2, Len(q))
    BY DEF RemoveAt
  <2>2. SubSeq(q, 1, 0) = <<>> /\ SubSeq(q, 2, Len(q)) = Tail(q)
    BY <1>1
  <2> QED BY <2>1, <2>2
<1>5. ASSUME NEW j \in DOMAIN RemoveAt(q, i)
      PROVE  \E k \in DOMAIN q \ {i} :
               RemoveAt(q, i)[j] = q[k] /\ (j < i => k = j) /\ (j >= i => k = j + 1)
  <2>1. j \in 1 .. Len(q) - 1
    BY <1>1, <1>2, <1>3
  <2>2. RemoveAt(q, i)[j] = IF j < i THEN q[j] ELSE q[j + 1]
    BY <1>1, <1>2, <1>3, <2>1
  <2> QED BY <2>1, <2>2
<1>6. RemoveAt(q, i) \in Seq(Tasks)
  BY <1>2, <1>3
<1> QED BY <1>1, <1>4, <1>5, <1>6

\* What a task leaves of the settings and of the edits that were saved.
LastAt(t, at) == IF t.kind = "position" THEN t.params ELSE at
LastText(t, text) == IF t.kind = "edits" THEN t.text ELSE text

\* What a save changes of the session.
LEMMA EffectParts ==
  ASSUME NEW s \in Sessions, NEW t \in Tasks
  PROVE  /\ Effect(t, s) \in Sessions
         /\ Effect(t, s).params = LastAt(t, s.params)
         /\ Effect(t, s).edits = LastText(t, s.edits)
         /\ Effect(t, s).step = IF t.kind = "position" THEN t.step ELSE s.step
         /\ Effect(t, s).marks = s.marks
<1>1. CASE t.kind = "position"
  <2>1. Effect(t, s) = [s EXCEPT !.step = t.step, !.params = t.params]
    BY <1>1 DEF Effect
  <2> QED BY <1>1, <2>1, TaskKinds DEF Sessions, LastAt, LastText
<1>2. CASE t.kind = "edits"
  <2>1. Effect(t, s) = [s EXCEPT !.edits = t.text]
    BY <1>2 DEF Effect
  <2> QED BY <1>2, <2>1, TaskKinds DEF Sessions, LastAt, LastText
<1>3. CASE t.kind \notin {"position", "edits"}
  <2>1. Effect(t, s) = s
    BY <1>3 DEF Effect
  <2> QED BY <1>3, <2>1 DEF Sessions, LastAt, LastText
<1> QED BY <1>1, <1>2, <1>3

\* With nothing under way, the session itself has to match.
LEMMA MatchNone ==
  ASSUME NEW s, NEW at, NEW text
  PROVE  Matches(<<>>, s, at, text) <=> at = s.params /\ text = s.edits /\ Says(text, at)
<1>1. ASSUME Matches(<<>>, s, at, text)
      PROVE  at = s.params /\ text = s.edits /\ Says(text, at)
  BY <1>1 DEF Matches, Follows
<1>2. ASSUME at = s.params, text = s.edits, Says(text, at)
      PROVE  Matches(<<>>, s, at, text)
  <2> DEFINE a == [k \in {0} |-> at]
             x == [k \in {0} |-> text]
  <2>1. a[0] = at /\ x[0] = text
    OBVIOUS
  <2> HIDE DEF a, x
  <2>2. Follows(<<>>, s, a, x)
    BY <1>2, <2>1 DEF Follows
  <2>3. \A k \in 0 .. Len(<<>>) : Says(x[k], a[k])
    BY <1>2, <2>1
  <2> QED BY <2>1, <2>2, <2>3 DEF Matches
<1> QED BY <1>1, <1>2

\* A save at the end of the queue.
LEMMA MatchAppend ==
  ASSUME NEW q \in Seq(Tasks), NEW s, NEW at, NEW text, Matches(q, s, at, text),
         NEW t \in Tasks, Says(LastText(t, text), LastAt(t, at))
  PROVE  Matches(Append(q, t), s, LastAt(t, at), LastText(t, text))
<1>1. PICK f, g : /\ Follows(q, s, f, g)
                  /\ \A k \in 0 .. Len(q) : Says(g[k], f[k])
                  /\ f[Len(q)] = at /\ g[Len(q)] = text
  BY DEF Matches
<1> DEFINE n == Len(q) + 1
           r == Append(q, t)
           a == [k \in 0 .. n |-> IF k = n THEN LastAt(t, at) ELSE f[k]]
           x == [k \in 0 .. n |-> IF k = n THEN LastText(t, text) ELSE g[k]]
<1>2. Len(q) \in Nat /\ n \in Nat /\ n # 0 /\ Len(r) = n
  OBVIOUS
<1>3. \A k \in 0 .. Len(q) : a[k] = f[k] /\ x[k] = g[k]
  BY <1>2
<1>4. a[n] = LastAt(t, at) /\ x[n] = LastText(t, text)
  BY <1>2
<1>5. \A k \in DOMAIN q : k \in 0 .. Len(q) /\ k - 1 \in 0 .. Len(q) /\ r[k] = q[k]
  BY <1>2
<1>6. r[n] = t /\ n - 1 = Len(q) /\ Len(q) \in 0 .. Len(q)
      /\ \A k \in DOMAIN r : k \in DOMAIN q \/ k = n
  BY <1>2
<1> HIDE DEF a, x, r, n
<1>7. a[0] = s.params /\ x[0] = s.edits
  BY <1>1, <1>2, <1>3 DEF Follows
<1>8. ASSUME NEW k \in DOMAIN r
      PROVE  /\ a[k] = IF r[k].kind = "position" THEN r[k].params ELSE a[k - 1]
             /\ x[k] = IF r[k].kind = "edits" THEN r[k].text ELSE x[k - 1]
  <2>1. CASE k \in DOMAIN q
    BY <2>1, <1>1, <1>3, <1>5 DEF Follows
  <2>2. CASE k = n
    BY <2>2, <1>1, <1>3, <1>4, <1>6 DEF LastAt, LastText
  <2> QED BY <2>1, <2>2, <1>6
<1>9. Follows(r, s, a, x)
  BY <1>7, <1>8 DEF Follows
<1>10. \A k \in 0 .. Len(r) : Says(x[k], a[k])
  <2>1. \A k \in 0 .. n : k \in 0 .. Len(q) \/ k = n
    BY <1>2, <1>6
  <2> QED BY <2>1, <1>1, <1>2, <1>3, <1>4
<1>11. Matches(r, s, LastAt(t, at), LastText(t, text))
  BY <1>2, <1>4, <1>9, <1>10 DEF Matches
<1> QED BY <1>11 DEF r

\* A question that nobody waits for any more.
LEMMA MatchUnheard ==
  ASSUME NEW q \in Seq(Tasks), NEW s, NEW at, NEW text, Matches(q, s, at, text)
  PROVE  Matches(Unheard(q), s, at, text)
<1>1. PICK f, g : /\ Follows(q, s, f, g)
                  /\ \A k \in 0 .. Len(q) : Says(g[k], f[k])
                  /\ f[Len(q)] = at /\ g[Len(q)] = text
  BY DEF Matches
<1>2. DOMAIN Unheard(q) = DOMAIN q
  BY UnheardQueue
<1>3. Follows(Unheard(q), s, f, g)
  BY <1>1, <1>2, UnheardQueue DEF Follows
<1> QED BY <1>1, <1>3, UnheardQueue DEF Matches

\* The first task takes effect.
LEMMA MatchPop ==
  ASSUME NEW q \in Seq(Tasks), q # <<>>, NEW s \in Sessions, NEW at, NEW text,
         Matches(q, s, at, text)
  PROVE  Matches(Tail(q), Effect(Head(q), s), at, text)
<1>1. PICK f, g : /\ Follows(q, s, f, g)
                  /\ \A k \in 0 .. Len(q) : Says(g[k], f[k])
                  /\ f[Len(q)] = at /\ g[Len(q)] = text
  BY DEF Matches
<1> DEFINE r == Tail(q)
           n == Len(r)
           a == [k \in 0 .. n |-> f[k + 1]]
           x == [k \in 0 .. n |-> g[k + 1]]
<1>2. n \in Nat /\ Len(q) = n + 1 /\ Head(q) = q[1] /\ q[1] \in Tasks
      /\ DOMAIN r = 1 .. n /\ DOMAIN q = 1 .. n + 1 /\ \A k \in 1 .. n : r[k] = q[k + 1]
  OBVIOUS
<1>3. \A k \in 0 .. n : a[k] = f[k + 1] /\ x[k] = g[k + 1] /\ k + 1 \in 0 .. n + 1
  BY <1>2
<1> HIDE DEF a, x, n, r
<1>4. a[0] = f[1] /\ x[0] = g[1] /\ a[n] = f[n + 1] /\ x[n] = g[n + 1]
  BY <1>2, <1>3
<1>5. f[1] = LastAt(q[1], s.params) /\ g[1] = LastText(q[1], s.edits)
  BY <1>1, <1>2 DEF Follows, LastAt, LastText
<1>6. Follows(r, Effect(Head(q), s), a, x)
  <2>1. a[0] = Effect(Head(q), s).params /\ x[0] = Effect(Head(q), s).edits
    BY <1>2, <1>4, <1>5, EffectParts
  <2>2. ASSUME NEW k \in DOMAIN r
        PROVE  /\ a[k] = IF r[k].kind = "position" THEN r[k].params ELSE a[k - 1]
               /\ x[k] = IF r[k].kind = "edits" THEN r[k].text ELSE x[k - 1]
    <3>1. /\ k \in 0 .. n /\ k - 1 \in 0 .. n /\ k + 1 \in DOMAIN q
          /\ (k + 1) - 1 = k /\ (k - 1) + 1 = k
      BY <1>2
    <3>2. a[k] = f[k + 1] /\ x[k] = g[k + 1] /\ a[k - 1] = f[k] /\ x[k - 1] = g[k]
      BY <1>3, <3>1
    <3>3. r[k] = q[k + 1]
      BY <1>2
    <3> QED BY <1>1, <3>1, <3>2, <3>3 DEF Follows
  <2> QED BY <2>1, <2>2 DEF Follows
<1>7. \A k \in 0 .. n : Says(x[k], a[k])
  BY <1>1, <1>2, <1>3
<1>8. Matches(r, Effect(Head(q), s), at, text)
  BY <1>1, <1>2, <1>4, <1>6, <1>7 DEF Matches, n
<1> QED BY <1>8 DEF r

\* The rest of the session does not matter.
LEMMA MatchSame ==
  ASSUME NEW q, NEW s, NEW at, NEW text, Matches(q, s, at, text),
         NEW r, r.params = s.params, r.edits = s.edits
  PROVE  Matches(q, r, at, text)
BY DEF Matches, Follows

\* A position at the end of the queue is the one that ends up recorded.
LEMMA RecordedPosition ==
  ASSUME NEW q \in Seq(Tasks), NEW s, NEW t \in Tasks, t.kind = "position"
  PROVE  Recorded(Append(q, t), s, t.step)
<1>1. Len(q) + 1 \in DOMAIN Append(q, t) /\ Append(q, t)[Len(q) + 1] = t
  OBVIOUS
<1>2. \A j \in DOMAIN Append(q, t) : ~(j > Len(q) + 1)
  OBVIOUS
<1> QED BY <1>1, <1>2 DEF Recorded

\* Running the first task leaves the recorded position what it was.
LEMMA RecordedPop ==
  ASSUME NEW q \in Seq(Tasks), q # <<>>, NEW s \in Sessions, NEW step, Recorded(q, s, step)
  PROVE  Recorded(Tail(q), Effect(Head(q), s), step)
<1> DEFINE r == Tail(q)
           n == Len(r)
<1>1. n \in Nat /\ Len(q) = n + 1 /\ Head(q) = q[1] /\ q[1] \in Tasks
      /\ DOMAIN r = 1 .. n /\ DOMAIN q = 1 .. n + 1 /\ \A k \in 1 .. n : r[k] = q[k + 1]
  OBVIOUS
<1> HIDE DEF r, n
<1>2. Effect(Head(q), s).step = IF q[1].kind = "position" THEN q[1].step ELSE s.step
  BY <1>1, EffectParts
<1>3. CASE s.step = step /\ \A i \in DOMAIN q : q[i].kind # "position"
  <2>1. \A i \in DOMAIN r : r[i].kind # "position"
    BY <1>1, <1>3
  <2>2. q[1].kind # "position"
    BY <1>1, <1>3
  <2> QED BY <1>2, <1>3, <2>1, <2>2 DEF Recorded, r
<1>4. CASE \E i \in DOMAIN q : /\ q[i].kind = "position" /\ q[i].step = step
                               /\ \A j \in DOMAIN q : j > i => q[j].kind # "position"
  <2>1. PICK i \in DOMAIN q : /\ q[i].kind = "position" /\ q[i].step = step
                              /\ \A j \in DOMAIN q : j > i => q[j].kind # "position"
    BY <1>4
  <2>2. \A j \in DOMAIN r : j + 1 \in DOMAIN q /\ r[j] = q[j + 1]
    BY <1>1
  <2>3. CASE i = 1
    <3>1. \A j \in DOMAIN r : r[j].kind # "position"
      BY <1>1, <2>1, <2>2, <2>3
    <3> QED BY <1>2, <2>1, <2>3, <3>1 DEF Recorded, r
  <2>4. CASE i # 1
    <3>1. i - 1 \in DOMAIN r /\ r[i - 1] = q[i]
      BY <1>1, <2>4
    <3>2. \A j \in DOMAIN r : j > i - 1 => r[j].kind # "position"
      BY <1>1, <2>1, <2>2
    <3> QED BY <2>1, <3>1, <3>2 DEF Recorded, r
  <2> QED BY <2>3, <2>4
<1> QED BY <1>3, <1>4 DEF Recorded

------------------------------------------------------------------------------
(* Types are kept.                                                            *)

\* The steps in which the plan is edited.
Editing(e) ==
  /\ Edited(e)
  /\ e \in EditRecords /\ Fitting(clustering, e)

\* The steps from one screen of a plan to another.
Walk(from, to) ==
  /\ Move(from, to)
  /\ from \in Resting /\ to \in Resting /\ from # to
  /\ batchMode => to # "tripsReview"

\* The trips on the screen are a clustering.
LEMMA PlanIsSound ==
  ASSUME TypeInv, PlanInv
  PROVE  IsClustering(clustering)
BY CameFacts DEF TypeInv, ControlTypes, PlanInv

\* The four handlers of the plan screen differ in the edits they make alone.
LEMMA EditsAreEditing ==
  ASSUME TypeInv, PlanInv, MoveImages \/ CreateTrip \/ RenameFolder \/ SetOrganize
  PROVE  \E e : Editing(e)
<1>1. IsClustering(clustering) /\ edits \in EditRecords /\ Fitting(clustering, edits)
  BY PlanIsSound DEF TypeInv, PlanTypes, PlanInv
<1>2. CASE MoveImages
  <2>1. PICK ids \in Picks :
          \E trip \in {t.id : t \in EffectiveTrips(clustering, edits, marked)} \cup {Unassigned} :
            Edited(Moved(edits, ids, trip))
    BY <1>2 DEF MoveImages
  <2>2. PICK trip \in TripIds(clustering, edits) \cup {Unassigned} :
          Edited(Moved(edits, ids, trip))
    BY <1>1, <2>1, EffectiveIds
  <2> QED BY <1>1, <2>2, MovedFits, PicksAssumption DEF Editing
<1>3. CASE CreateTrip
  <2>1. PICK ids \in Picks, place \in Labels : Edited(Created(edits, ids, place))
    BY <1>1, <1>3, PlacesType DEF CreateTrip
  <2> QED BY <1>1, <2>1, CreatedFits, PicksAssumption DEF Editing
<1>4. CASE RenameFolder
  <2>1. PICK trip \in TripIds(clustering, edits), name \in Names :
          Edited(Renamed(edits, trip, name))
    BY <1>1, <1>4, EffectiveIds DEF RenameFolder
  <2> QED BY <1>1, <2>1, RenamedFits, PicksAssumption DEF Editing
<1>5. CASE SetOrganize
  BY <1>1, <1>5, OrganizedFits DEF SetOrganize, Editing
<1> QED BY <1>2, <1>3, <1>4, <1>5

\* What Next consists of, with the edits of a plan under one name.
LEMMA Steps ==
  ASSUME TypeInv, PlanInv, Next
  PROVE  \/ SelectFolder \/ Probed \/ StartFresh \/ ResumeSession \/ ScanDone
         \/ ResumeScanDone \/ ResumeCutShort \/ CancelScan \/ BackFromConfirm
         \/ ResetToStart \/ ResultsApplied \/ ContinueFromConfirm \/ TripsDone \/ CancelTrips
         \/ BackFromTrips \/ RerunTrips \/ (\E e : Editing(e)) \/ ContinueFromTrips
         \/ ReopenOrganize \/ (\E p \in index : MarkPhoto(p))
         \/ (\E from, to \in Planned : Walk(from, to)) \/ StartCommit \/ CommitDone
         \/ CancelCommit \/ Fail \/ GoBackFromError \/ RecordStep \/ RecordLate
         \/ RunTask \/ TaskFails \/ Exit \/ Launch \/ Crash
<1>1. CASE MoveImages \/ CreateTrip \/ RenameFolder \/ SetOrganize
  BY <1>1, EditsAreEditing
<1>2. CASE ContinueFromBatches \/ BackFromDeletionReview \/ ContinueFromDeletionReview
           \/ BackFromSummary
  BY <1>2 DEF ContinueFromBatches, BackFromDeletionReview, ContinueFromDeletionReview,
              BackFromSummary, Walk, Planned, Resting
<1> QED BY <1>1, <1>2 DEF Next

\* Two tasks submitted at once are submitted one after the other.
LEMMA TwoSaves ==
  ASSUME NEW q \in Seq(Tasks), NEW t \in Tasks, NEW u \in Tasks
  PROVE  /\ q \o <<t, u>> \in Seq(Tasks)
         /\ q \o <<t, u>> = Append(Append(q, t), u)
<1>1. <<t, u>> \in Seq(Tasks) /\ Append(Append(q, t), u) \in Seq(Tasks)
  OBVIOUS
<1> QED BY <1>1

\* A session with a field replaced is a session.
LEMMA SessionWith ==
  ASSUME NEW s \in Sessions
  PROVE  /\ s.has \in BOOLEAN /\ s.step \in Int /\ s.params \in Params
         /\ s.edits \in Texts /\ s.marks \subseteq Photos
         /\ \A b \in BOOLEAN : [s EXCEPT !.has = b] \in Sessions
         /\ \A n \in Int : [s EXCEPT !.step = n] \in Sessions
         /\ \A m \in SUBSET Photos : [s EXCEPT !.marks = m] \in Sessions
BY DEF Sessions

\* A session that has just been opened.
LEMMA FreshType ==
  ASSUME NEW b \in BOOLEAN, NEW at \in Params
  PROVE  Fresh(b, at) \in Sessions
BY NoEditsType DEF Fresh, Sessions, Select

\* What an answer brings.
LEMMA ParsedAnswer ==
  ASSUME TypeInv, answer.kind = "results"
  PROVE  /\ answer.is \in Sessions
         /\ answer.is.step \in Int /\ answer.is.params \in Params
         /\ answer.is.edits \in Texts /\ answer.is.edits # NoPending
         /\ answer.is.marks \subseteq Photos
<1>1. answer # NoAnswer
  BY DEF NoAnswer
<1>2. answer.is \in Sessions
  BY <1>1 DEF TypeInv, PoolTypes, Answers
<1> QED BY <1>2, SessionWith, TextsAreTexts

\* A call that is left records its step later, if at all.
LEMMA Left ==
  ASSUME TypeInv, LeaveCall
  PROVE  call' = "none" /\ late' \subseteq Int
BY StepType DEF TypeInv, ControlTypes, LeaveCall

\* Consequences of the types that several steps need.
LEMMA Typed ==
  ASSUME TypeInv
  PROVE  /\ edits.organize \in BOOLEAN /\ index \in SUBSET Photos
         /\ late \cup {StepOf(phase)} \subseteq Int
BY EditParts, StepType DEF TypeInv, ControlTypes, PlanTypes

\* What comes of a resumed scan whose end is lost are photos.
LEMMA GlimpsesArePhotos == \A some \in Glimpses : some \subseteq Photos
BY PhotosAssumption

\* Every step keeps the types of the screen.
LEMMA ControlStep ==
  ASSUME TypeInv, PlanInv, [Next]_vars
  PROVE  ControlTypes'
<1>0. NoStep \in Int
  BY DEF NoStep
<1> USE DEF TypeInv, ControlTypes, Phases, Early, Resting
<1> USE DEF historyVars
<1>1. CASE SelectFolder
  BY <1>1, <1>0, Left
     DEF SelectFolder, ClearResults
<1>2. CASE Probed
  BY <1>2
     DEF Probed, BeginFresh, batchVars, callVars, planVars
<1>3. CASE StartFresh
  BY <1>3, <1>0, Left
     DEF StartFresh, BeginFresh
<1>4. CASE ResumeSession
  BY <1>4, <1>0, Left
     DEF ResumeSession
<1>5. CASE ScanDone
  BY <1>5
     DEF ScanDone, Show, planVars, batchVars, resumeVars, callVars
<1>6. CASE ResumeScanDone
  BY <1>6
     DEF ResumeScanDone, planVars, batchVars, resumeVars, callVars
<1>7. CASE CancelScan
  BY <1>7
     DEF CancelScan, planVars, batchVars, callVars
<1>8. CASE BackFromConfirm
  BY <1>8, <1>0, Left
     DEF BackFromConfirm, ClearResults
<1>9. CASE ResetToStart
  BY <1>9, <1>0, Left
     DEF ResetToStart, ClearResults
<1>10. CASE ResultsApplied
  BY <1>10, <1>0, ParsedAnswer
     DEF ResultsApplied, StartTrips, batchVars
<1>11. CASE ContinueFromConfirm
  BY <1>11
     DEF ContinueFromConfirm, StartTrips, batchVars
<1>12. CASE TripsDone
  <2>1. /\ phase' \in {"summary", "menu", "tripsReview"} /\ batchMode' \in BOOLEAN
        /\ call' = "none" /\ target' = NoStep
        /\ missed' \in {missed, missed \cup {"edits"}}
        /\ UNCHANGED <<back, index, params, resuming, late, disordered>>
    BY <1>12 DEF TripsDone, Show, batchVars
  <2> QED BY <2>1, <1>0 DEF Parts, Planned
<1>13. CASE CancelTrips
  BY <1>13, <1>0, Left
     DEF CancelTrips, CancelCall, planVars, batchVars
<1>14. CASE BackFromTrips
  BY <1>14
     DEF BackFromTrips, Show, planVars, batchVars, resumeVars, callVars
<1>15. CASE RerunTrips
  BY <1>15
     DEF RerunTrips, StartTrips, batchVars
<1>16. ASSUME NEW e, Editing(e) PROVE ControlTypes'
  BY <1>16
     DEF Editing, Edited, batchVars, resumeVars, callVars
<1>17. CASE ContinueFromTrips
  BY <1>17
     DEF ContinueFromTrips, Show, planVars, resumeVars, callVars
<1>18. CASE ReopenOrganize
  BY <1>18
     DEF ReopenOrganize, Show, planVars, resumeVars, callVars
<1>19. ASSUME NEW p \in index, MarkPhoto(p) PROVE ControlTypes'
  BY <1>19, Typed
     DEF MarkPhoto, planVars, batchVars, resumeVars, callVars, poolVars
<1>20. ASSUME NEW from \in Planned, NEW to \in Planned, Walk(from, to) PROVE ControlTypes'
  BY <1>20
     DEF Walk, Move, Show, planVars, batchVars, resumeVars, callVars
<1>21. CASE StartCommit
  BY <1>21
     DEF StartCommit, planVars, batchVars, resumeVars, poolVars
<1>22. CASE CommitDone
  BY <1>22
     DEF CommitDone, planVars, batchVars, resumeVars, poolVars
<1>23. CASE CancelCommit
  BY <1>23, Left
     DEF CancelCommit, CancelCall, Show, planVars, batchVars, resumeVars
<1>24. CASE Fail
  BY <1>24
     DEF Fail, planVars, batchVars
<1>25. CASE GoBackFromError
  BY <1>25, <1>0, Left
     DEF GoBackFromError, ClearResults, Show, batchVars, resumeVars
<1>26. CASE RecordStep
  BY <1>26
     DEF RecordStep, planVars, batchVars, resumeVars, poolVars
<1>27. CASE RecordLate
  BY <1>27
     DEF RecordLate, planVars, batchVars, resumeVars, poolVars
<1>28. CASE RunTask
  BY <1>28
     DEF RunTask, planVars, batchVars, resumeVars, callVars
<1>29. CASE Exit
  BY <1>29, <1>0, Typed, ParamsAssumption
     DEF Exit, Forget
<1>30. CASE Launch
  BY <1>30
     DEF Launch, planVars, batchVars, resumeVars, callVars, poolVars
<1>31. CASE Crash
  BY <1>31, <1>0, ParamsAssumption
     DEF Crash, Forget
<1>33. CASE ResumeCutShort
  BY <1>33, GlimpsesArePhotos
     DEF ResumeCutShort, planVars, batchVars, callVars, Parts
<1>34. CASE TaskFails
  BY <1>34
     DEF TaskFails, planVars, batchVars, resumeVars, callVars
<1>32. CASE UNCHANGED vars
  BY <1>32 DEF vars, planVars, batchVars, resumeVars, callVars, poolVars, boundVars
<1> QED
  BY <1>1, <1>0, <1>2, <1>3, <1>4, <1>5, <1>6, <1>7, <1>8, <1>9, <1>10, <1>11, <1>12, <1>13, <1>14,
     <1>15, <1>16, <1>17, <1>18, <1>19, <1>20, <1>21, <1>22, <1>23, <1>24, <1>25, <1>26, <1>27,
     <1>28, <1>29, <1>30, <1>31, <1>32, <1>33, <1>34, Steps

\* Every step keeps the types of the plan.
LEMMA PlanTypesStep ==
  ASSUME TypeInv, PlanInv, [Next]_vars
  PROVE  PlanTypes'
<1> USE DEF TypeInv, PlanTypes
<1>1. CASE SelectFolder
  BY <1>1, NoEditsType, Typed
     DEF SelectFolder, ClearResults, LeaveCall
<1>2. CASE Probed
  BY <1>2
     DEF Probed, BeginFresh, batchVars, callVars, planVars
<1>3. CASE StartFresh
  BY <1>3, NoEditsType, Typed
     DEF StartFresh, LeaveCall, BeginFresh
<1>4. CASE ResumeSession
  BY <1>4, NoEditsType, Typed
     DEF ResumeSession, LeaveCall
<1>5. CASE ScanDone
  BY <1>5
     DEF ScanDone, Show, planVars, batchVars, resumeVars, callVars
<1>6. CASE ResumeScanDone
  BY <1>6
     DEF ResumeScanDone, planVars, batchVars, resumeVars, callVars
<1>7. CASE CancelScan
  BY <1>7
     DEF CancelScan, planVars, batchVars, callVars
<1>8. CASE BackFromConfirm
  BY <1>8, NoEditsType, Typed
     DEF BackFromConfirm, ClearResults, LeaveCall
<1>9. CASE ResetToStart
  BY <1>9, NoEditsType, Typed
     DEF ResetToStart, ClearResults, LeaveCall
<1>10. CASE ResultsApplied
  BY <1>10, ParsedAnswer, NoEditsType, Typed
     DEF ResultsApplied, StartTrips, batchVars
<1>11. CASE ContinueFromConfirm
  BY <1>11, NoEditsType, Typed
     DEF ContinueFromConfirm, StartTrips, batchVars
<1>12. CASE TripsDone
  <2>1. edits' \in EditRecords
    <3>1. CASE pending = NoPending \/ pending = NoText
      BY <1>12, <3>1 DEF TripsDone
    <3>2. CASE pending # NoPending /\ pending # NoText
      <4>1. IsClustering(clustering') /\ pending \in Texts /\ index \in SUBSET Photos
        BY <1>12, <3>2, CameFacts, Typed DEF TripsDone, ControlTypes
      <4> QED BY <1>12, <3>2, <4>1, AppliedFits DEF TripsDone
    <3> QED BY <3>1, <3>2
  <2> QED BY <1>12, <2>1 DEF TripsDone
<1>13. CASE CancelTrips
  BY <1>13
     DEF CancelTrips, CancelCall, LeaveCall, planVars, batchVars
<1>14. CASE BackFromTrips
  BY <1>14
     DEF BackFromTrips, Show, planVars, batchVars, resumeVars, callVars
<1>15. CASE RerunTrips
  BY <1>15, NoEditsType, Typed
     DEF RerunTrips, StartTrips, batchVars
<1>16. ASSUME NEW e, Editing(e) PROVE PlanTypes'
  BY <1>16
     DEF Editing, Edited, batchVars, resumeVars, callVars
<1>17. CASE ContinueFromTrips
  BY <1>17
     DEF ContinueFromTrips, Show, planVars, resumeVars, callVars
<1>18. CASE ReopenOrganize
  BY <1>18
     DEF ReopenOrganize, Show, planVars, resumeVars, callVars
<1>19. ASSUME NEW p \in index, MarkPhoto(p) PROVE PlanTypes'
  BY <1>19, Typed
     DEF MarkPhoto, planVars, batchVars, resumeVars, callVars, poolVars
<1>20. ASSUME NEW from \in Planned, NEW to \in Planned, Walk(from, to) PROVE PlanTypes'
  BY <1>20
     DEF Walk, Move, Show, planVars, batchVars, resumeVars, callVars
<1>21. CASE StartCommit
  BY <1>21
     DEF StartCommit, planVars, batchVars, resumeVars, poolVars
<1>22. CASE CommitDone
  BY <1>22
     DEF CommitDone, planVars, batchVars, resumeVars, poolVars
<1>23. CASE CancelCommit
  BY <1>23
     DEF CancelCommit, CancelCall, LeaveCall, Show, planVars, batchVars, resumeVars
<1>24. CASE Fail
  BY <1>24
     DEF Fail, planVars, batchVars
<1>25. CASE GoBackFromError
  BY <1>25, NoEditsType, Typed
     DEF GoBackFromError, ClearResults, LeaveCall, Show, batchVars, resumeVars
<1>26. CASE RecordStep
  BY <1>26
     DEF RecordStep, planVars, batchVars, resumeVars, poolVars
<1>27. CASE RecordLate
  BY <1>27
     DEF RecordLate, planVars, batchVars, resumeVars, poolVars
<1>28. CASE RunTask
  BY <1>28
     DEF RunTask, planVars, batchVars, resumeVars, callVars
<1>29. CASE Exit
  BY <1>29, NoEditsType, Typed
     DEF Exit, Forget
<1>30. CASE Launch
  BY <1>30
     DEF Launch, planVars, batchVars, resumeVars, callVars, poolVars
<1>31. CASE Crash
  BY <1>31, NoEditsType, Typed
     DEF Crash, Forget
<1>33. CASE ResumeCutShort
  BY <1>33
     DEF ResumeCutShort, planVars, batchVars, callVars
<1>34. CASE TaskFails
  BY <1>34
     DEF TaskFails, planVars, batchVars, resumeVars, callVars
<1>32. CASE UNCHANGED vars
  BY <1>32 DEF vars, planVars, batchVars, resumeVars, callVars, poolVars, boundVars
<1> QED
  BY <1>1, <1>2, <1>3, <1>4, <1>5, <1>6, <1>7, <1>8, <1>9, <1>10, <1>11, <1>12, <1>13, <1>14,
     <1>15, <1>16, <1>17, <1>18, <1>19, <1>20, <1>21, <1>22, <1>23, <1>24, <1>25, <1>26, <1>27,
     <1>28, <1>29, <1>30, <1>31, <1>32, <1>33, <1>34, Steps

\* What is submitted is a queue again.
LEMMA QueueTypes ==
  ASSUME TypeInv, NEW q \in {tasks, Unheard(tasks)}
  PROVE  /\ q \in Seq(Tasks)
         /\ \A k \in Questions : Append(q, [kind |-> k]) \in Seq(Tasks)
         /\ \A p, r, aim : \A at \in Params : q \o Submits(p, r, aim, at) \in Seq(Tasks)
         /\ \A p, aim : \A at \in Params : q \o Submits(p, FALSE, aim, at) \in Seq(Tasks)
         /\ Append(q, EditsTask(Encode({}, NoEdits(edits.organize)))) \in Seq(Tasks)
<1>1. q \in Seq(Tasks)
  BY UnheardQueue DEF TypeInv, PoolTypes
<1>2. ASSUME NEW p, NEW r, NEW aim, NEW at \in Params
      PROVE  q \o Submits(p, r, aim, at) \in Seq(Tasks)
  <2>1. CASE p \in Resting /\ ~r /\ aim = NoStep
    BY <1>1, <2>1, SavesAreTasks, Appended DEF Submits
  <2>2. CASE ~(p \in Resting /\ ~r /\ aim = NoStep)
    <3>1. Submits(p, r, aim, at) = <<>>
      BY <2>2 DEF Submits
    <3> QED BY <1>1, <3>1
  <2> QED BY <2>1, <2>2
<1>3. ASSUME NEW k \in Questions PROVE Append(q, [kind |-> k]) \in Seq(Tasks)
  <2>1. [kind |-> k] \in Tasks
    BY SavesAreTasks
  <2> QED BY <1>1, <2>1
<1>5. ASSUME NEW p, NEW aim, NEW at \in Params
      PROVE  q \o Submits(p, FALSE, aim, at) \in Seq(Tasks)
  BY <1>2
<1>4. Append(q, EditsTask(Encode({}, NoEdits(edits.organize)))) \in Seq(Tasks)
  <2>1. Encode({}, NoEdits(edits.organize)) \in Texts
    <3>1. IsClustering({}) /\ NoEdits(edits.organize) \in EditRecords
      BY Typed, NoEditsType, ClusterFacts, ParamsAssumption
    <3> QED BY <3>1, EncodeType
  <2> QED BY <1>1, <2>1, SavesAreTasks
<1> QED BY <1>1, <1>2, <1>3, <1>4, <1>5

\* Every step keeps the types of the pool and the session.
LEMMA PoolStep ==
  ASSUME TypeInv, PlanInv, [Next]_vars
  PROVE  PoolTypes'
<1>0. Answers # {} /\ NoAnswer \in Answers /\ "probe" \in Questions /\ "results" \in Questions
  BY DEF Answers, Questions
<1> USE DEF TypeInv, PoolTypes
<1>1. CASE SelectFolder
  BY <1>1, <1>0, QueueTypes
     DEF SelectFolder, ClearResults, LeaveCall
<1>2. CASE Probed
  BY <1>2, <1>0, FreshType, SessionWith
     DEF Probed, BeginFresh, batchVars, callVars, planVars, ControlTypes, PlanTypes
<1>3. CASE StartFresh
  BY <1>3, <1>0, FreshType, SessionWith
     DEF StartFresh, LeaveCall, BeginFresh, ControlTypes, PlanTypes
<1>4. CASE ResumeSession
  BY <1>4, <1>0
     DEF ResumeSession, LeaveCall
<1>5. CASE ScanDone
  <2>1. [stored EXCEPT !.has = TRUE] \in Sessions /\ [stored EXCEPT !.has = FALSE] \in Sessions
    BY SessionWith
  <2>2. /\ \/ tasks' = tasks \o Submits("confirm", resuming, target, params)
           \/ tasks' = tasks \o Submits("noImages", resuming, target, params)
        /\ \/ stored' = [stored EXCEPT !.has = TRUE]
           \/ stored' = [stored EXCEPT !.has = FALSE]
        /\ answer' = answer
    BY <1>5 DEF ScanDone, Show
  <2>3. tasks' \in Seq(Tasks)
    <3>1. params \in Params /\ tasks \in {tasks, Unheard(tasks)}
      BY DEF ControlTypes
    <3>2. tasks \o Submits("confirm", resuming, target, params) \in Seq(Tasks)
      BY <3>1, QueueTypes
    <3>3. tasks \o Submits("noImages", resuming, target, params) \in Seq(Tasks)
      BY <3>1, QueueTypes
    <3> QED BY <2>2, <3>2, <3>3
  <2>4. stored' \in Sessions
    BY <2>1, <2>2
  <2> QED BY <2>2, <2>3, <2>4
<1>6. CASE ResumeScanDone
  BY <1>6, <1>0, QueueTypes
     DEF ResumeScanDone, planVars, batchVars, resumeVars, callVars
<1>7. CASE CancelScan
  BY <1>7, <1>0, QueueTypes
     DEF CancelScan, planVars, batchVars, callVars
<1>8. CASE BackFromConfirm
  BY <1>8, <1>0, QueueTypes
     DEF BackFromConfirm, ClearResults, LeaveCall
<1>9. CASE ResetToStart
  BY <1>9, <1>0, QueueTypes
     DEF ResetToStart, ClearResults, LeaveCall
<1>10. CASE ResultsApplied
  <2>1. /\ \/ tasks' = tasks \o Submits("confirm", FALSE, NoStep, answer.is.params)
           \/ tasks' = Unheard(tasks)
           \/ tasks' = Append(Unheard(tasks), EditsTask(Encode({}, NoEdits(edits.organize))))
        /\ stored' = stored /\ answer' = NoAnswer
    BY <1>10 DEF ResultsApplied, StartTrips
  <2>2. answer.is.params \in Params
    BY <1>10, ParsedAnswer DEF ResultsApplied
  <2> QED BY <1>0, <2>1, <2>2, QueueTypes
<1>11. CASE ContinueFromConfirm
  BY <1>11, <1>0, QueueTypes
     DEF ContinueFromConfirm, StartTrips, batchVars, ControlTypes
<1>12. CASE TripsDone
  BY <1>12, <1>0, QueueTypes
     DEF TripsDone, Show, batchVars, ControlTypes
<1>13. CASE CancelTrips
  BY <1>13, <1>0, QueueTypes
     DEF CancelTrips, CancelCall, LeaveCall, planVars, batchVars, ControlTypes
<1>14. CASE BackFromTrips
  BY <1>14, <1>0, QueueTypes
     DEF BackFromTrips, Show, planVars, batchVars, resumeVars, callVars, ControlTypes
<1>15. CASE RerunTrips
  BY <1>15, <1>0, QueueTypes
     DEF RerunTrips, StartTrips, batchVars, ControlTypes
<1>16. ASSUME NEW e, Editing(e) PROVE PoolTypes'
  BY <1>16, <1>0, PlanIsSound, EncodeType, SavesAreTasks, TwoSaves, StepType
     DEF Editing, Edited, batchVars, resumeVars, callVars, ControlTypes
<1>17. CASE ContinueFromTrips
  BY <1>17, <1>0, QueueTypes
     DEF ContinueFromTrips, Show, planVars, resumeVars, callVars, ControlTypes
<1>18. CASE ReopenOrganize
  BY <1>18, <1>0, QueueTypes
     DEF ReopenOrganize, Show, planVars, resumeVars, callVars, ControlTypes
<1>19. ASSUME NEW p \in index, MarkPhoto(p) PROVE PoolTypes'
  BY <1>19, <1>0, SessionWith, Typed
     DEF MarkPhoto, planVars, batchVars, resumeVars, callVars, poolVars, ControlTypes,
         PlanTypes
<1>20. ASSUME NEW from \in Planned, NEW to \in Planned, Walk(from, to) PROVE PoolTypes'
  BY <1>20, <1>0, QueueTypes
     DEF Walk, Move, Show, planVars, batchVars, resumeVars, callVars, ControlTypes
<1>21. CASE StartCommit
  BY <1>21, <1>0
     DEF StartCommit, planVars, batchVars, resumeVars, poolVars
<1>22. CASE CommitDone
  BY <1>22, <1>0
     DEF CommitDone, planVars, batchVars, resumeVars, poolVars
<1>23. CASE CancelCommit
  BY <1>23, <1>0, QueueTypes
     DEF CancelCommit, CancelCall, LeaveCall, Show, planVars, batchVars, resumeVars, ControlTypes
<1>24. CASE Fail
  BY <1>24, <1>0, QueueTypes
     DEF Fail, planVars, batchVars
<1>25. CASE GoBackFromError
  <2>1. /\ \/ tasks' = tasks \o Submits("menu", resuming, target, params)
           \/ tasks' = tasks \o Submits(back, FALSE, NoStep, params)
        /\ stored' = stored /\ answer' = NoAnswer
    BY <1>25 DEF GoBackFromError, ClearResults, Show
  <2> QED BY <1>0, <2>1, QueueTypes DEF ControlTypes
<1>26. CASE RecordStep
  BY <1>26, <1>0, SessionWith, StepType
     DEF RecordStep, planVars, batchVars, resumeVars, poolVars
<1>27. CASE RecordLate
  <2>1. PICK s \in late :
          /\ stored' = [stored EXCEPT !.step = s] \/ stored' = stored
          /\ UNCHANGED poolVars
    BY <1>27 DEF RecordLate
  <2>2. s \in Int
    BY <2>1 DEF ControlTypes
  <2> QED BY <2>1, <2>2, SessionWith DEF poolVars
<1>28. CASE RunTask
  <2>1. PICK i \in DOMAIN tasks \cap 1 .. 2 :
          /\ tasks' = RemoveAt(tasks, i) /\ stored' = Effect(tasks[i], stored)
          /\ \/ answer' = answer
             \/ /\ tasks[i].kind \in Questions
                /\ answer' = [kind |-> tasks[i].kind, is |-> stored]
    BY <1>28 DEF RunTask, Questions
  <2>2. tasks[i] \in Tasks
    OBVIOUS
  <2>3. answer' \in Answers
    BY <2>1 DEF Answers
  <2> QED BY <2>1, <2>2, <2>3, Removed, EffectParts
<1>29. CASE Exit
  BY <1>29, <1>0, QueueTypes
     DEF Exit, Forget
<1>30. CASE Launch
  BY <1>30, <1>0
     DEF Launch, planVars, batchVars, resumeVars, callVars, poolVars
<1>31. CASE Crash
  BY <1>31, <1>0
     DEF Crash, Forget
<1>33. CASE ResumeCutShort
  BY <1>33, QueueTypes
     DEF ResumeCutShort, ControlTypes
<1>34. CASE TaskFails
  <2>1. PICK i \in DOMAIN tasks \cap 1 .. 2 :
          /\ tasks' = RemoveAt(tasks, i) /\ stored' = stored
          /\ \/ answer' = answer
             \/ answer' = [kind |-> "probe", is |-> [stored EXCEPT !.has = FALSE]]
    BY <1>34 DEF TaskFails
  <2>2. [stored EXCEPT !.has = FALSE] \in Sessions /\ "probe" \in Questions
    BY SessionWith DEF TypeInv, PoolTypes, Questions
  <2>3. [kind |-> "probe", is |-> [stored EXCEPT !.has = FALSE]] \in Answers
    <3> DEFINE s == [stored EXCEPT !.has = FALSE]
    <3> HIDE DEF s
    <3> QED BY <2>2 DEF s, Answers
  <2> HIDE DEF Answers
  <2>4. answer' \in Answers
    BY <2>1, <2>3 DEF TypeInv, PoolTypes
  <2> QED BY <1>0, <2>1, <2>4, Removed
<1>32. CASE UNCHANGED vars
  BY <1>32 DEF vars, planVars, batchVars, resumeVars, callVars, poolVars, boundVars
<1> QED
  BY <1>1, <1>2, <1>3, <1>4, <1>5, <1>6, <1>7, <1>8, <1>9, <1>10, <1>11, <1>12, <1>13, <1>14,
     <1>15, <1>16, <1>17, <1>18, <1>19, <1>20, <1>21, <1>22, <1>23, <1>24, <1>25, <1>26, <1>27,
     <1>28, <1>29, <1>30, <1>31, <1>32, <1>33, <1>34, Steps

\* Every step keeps all types.
LEMMA TypeStep ==
  ASSUME TypeInv, PlanInv, [Next]_vars
  PROVE  TypeInv'
BY ControlStep, PlanTypesStep, PoolStep DEF TypeInv

------------------------------------------------------------------------------
(* The plan, the phases and the questions.                                    *)

\* Without a plan, and while a plan is not touched, there is nothing to show.
LEMMA PlanKept ==
  ASSUME PlanInv, params' = params, UNCHANGED <<clustering, edits, batches>>
  PROVE  PlanInv'
BY DEF PlanInv

\* A plan that is thrown away is a sound one.
LEMMA PlanEmptied ==
  ASSUME PlanInv, NEW b \in BOOLEAN, clustering' = {}, edits' = NoEdits(b),
         batches' = {} \/ batches' = batches
  PROVE  PlanInv'
<1>1. {} \in Came(Cluster[params'])
  BY DEF Came
<1> QED BY <1>1, BlankText DEF PlanInv

\* Every step leaves edits that fit the plan.
LEMMA PlanStep ==
  ASSUME TypeInv, PlanInv, PhaseInv, [Next]_vars
  PROVE  PlanInv'
<1>1. CASE SelectFolder
  BY <1>1, PlanEmptied
     DEF SelectFolder, ClearResults
<1>2. CASE Probed
  BY <1>2, PlanKept
     DEF Probed, planVars, batchVars
<1>3. CASE StartFresh
  BY <1>3, PlanEmptied
     DEF StartFresh, BeginFresh
<1>4. CASE ResumeSession
  BY <1>4, PlanEmptied
     DEF ResumeSession
<1>5. CASE ScanDone
  BY <1>5, PlanKept
     DEF ScanDone, Show, planVars, batchVars, resumeVars, callVars
<1>6. CASE ResumeScanDone
  BY <1>6, PlanKept
     DEF ResumeScanDone, planVars, batchVars, resumeVars, callVars
<1>7. CASE CancelScan
  BY <1>7, PlanKept
     DEF CancelScan, planVars, batchVars, callVars
<1>8. CASE BackFromConfirm
  BY <1>8, PlanEmptied
     DEF BackFromConfirm, ClearResults
<1>9. CASE ResetToStart
  BY <1>9, PlanEmptied
     DEF ResetToStart, ClearResults
<1>10. CASE ResultsApplied
  <2>1. \/ UNCHANGED <<clustering, edits>>
        \/ clustering' = {} /\ edits' = NoEdits(edits.organize)
    BY <1>10 DEF ResultsApplied, StartTrips
  <2>2. batches' = batches
    BY <1>10 DEF ResultsApplied, batchVars
  <2>3. clustering = {} /\ edits = NoEdits(TRUE)
    BY <1>10 DEF ResultsApplied, PhaseInv, Early
  <2> QED BY <2>1, <2>2, <2>3, Typed, PlanEmptied
<1>11. CASE ContinueFromConfirm
  BY <1>11, PlanEmptied, Typed
     DEF ContinueFromConfirm, StartTrips, batchVars
<1>12. CASE TripsDone
  <2>1. clustering' \in Came(Cluster[params']) /\ IsClustering(clustering')
    BY <1>12, CameFacts DEF TripsDone, TypeInv, ControlTypes
  <2>2. edits' \in EditRecords
    BY <1>12, TypeStep DEF TypeInv, PlanTypes
  <2>3. Fitting(clustering', edits')
    <3>1. CASE pending = NoPending \/ pending = NoText
      BY <1>12, <3>1, Typed, BlankText DEF TripsDone, PhaseInv
    <3>2. CASE pending # NoPending /\ pending # NoText
      <4>1. pending \in Texts /\ index \in SUBSET Photos
        BY <3>2, Typed DEF TypeInv, PlanTypes
      <4> QED BY <1>12, <2>1, <3>2, <4>1, AppliedFits DEF TripsDone
    <3> QED BY <3>1, <3>2
  <2>4. \A a, b \in batches' : a # b => a \cap b = {}
    <3>1. batches' = batches \/ batches' = BatchesOf(clustering', edits', marked)
      BY <1>12 DEF TripsDone, batchVars
    <3> QED BY <2>1, <2>2, <3>1, BatchesApart DEF PlanInv
  <2> QED BY <2>1, <2>3, <2>4 DEF PlanInv
<1>13. CASE CancelTrips
  BY <1>13, PlanKept
     DEF CancelTrips, CancelCall, planVars, batchVars
<1>14. CASE BackFromTrips
  BY <1>14, PlanKept
     DEF BackFromTrips, Show, planVars, batchVars, resumeVars, callVars
<1>15. CASE RerunTrips
  BY <1>15, PlanEmptied, Typed
     DEF RerunTrips, StartTrips, batchVars
<1>16. ASSUME NEW e, Editing(e) PROVE PlanInv'
  BY <1>16 DEF Editing, Edited, batchVars, PlanInv
<1>17. CASE ContinueFromTrips
  <2>1. \A a, b \in batches' : a # b => a \cap b = {}
    BY <1>17, PlanIsSound, BatchesApart DEF ContinueFromTrips, TypeInv, PlanTypes
  <2> QED BY <1>17, <2>1 DEF ContinueFromTrips, planVars, PlanInv
<1>18. CASE ReopenOrganize
  BY <1>18, PlanKept
     DEF ReopenOrganize, Show, planVars, resumeVars, callVars
<1>19. ASSUME NEW p \in index, MarkPhoto(p) PROVE PlanInv'
  BY <1>19, PlanKept
     DEF MarkPhoto, planVars, batchVars, resumeVars, callVars, poolVars
<1>20. ASSUME NEW from \in Planned, NEW to \in Planned, Walk(from, to) PROVE PlanInv'
  BY <1>20, PlanKept
     DEF Walk, Move, Show, planVars, batchVars, resumeVars, callVars
<1>21. CASE StartCommit
  BY <1>21, PlanKept
     DEF StartCommit, planVars, batchVars, resumeVars, poolVars
<1>22. CASE CommitDone
  BY <1>22, PlanKept
     DEF CommitDone, planVars, batchVars, resumeVars, poolVars
<1>23. CASE CancelCommit
  BY <1>23, PlanKept
     DEF CancelCommit, CancelCall, Show, planVars, batchVars, resumeVars
<1>24. CASE Fail
  BY <1>24, PlanKept
     DEF Fail, planVars, batchVars
<1>25. CASE GoBackFromError
  BY <1>25, PlanKept, PlanEmptied DEF GoBackFromError, ClearResults, batchVars
<1>26. CASE RecordStep
  BY <1>26, PlanKept
     DEF RecordStep, planVars, batchVars, resumeVars, poolVars
<1>27. CASE RecordLate
  BY <1>27, PlanKept
     DEF RecordLate, planVars, batchVars, resumeVars, poolVars
<1>28. CASE RunTask
  BY <1>28, PlanKept
     DEF RunTask, planVars, batchVars
<1>29. CASE Exit
  BY <1>29, PlanEmptied
     DEF Exit, Forget
<1>30. CASE Launch
  BY <1>30, PlanKept
     DEF Launch, planVars, batchVars, resumeVars, callVars, poolVars
<1>31. CASE Crash
  BY <1>31, PlanEmptied
     DEF Crash, Forget
<1>33. CASE ResumeCutShort
  BY <1>33, PlanKept
     DEF ResumeCutShort, planVars, batchVars
<1>34. CASE TaskFails
  BY <1>34, PlanKept
     DEF TaskFails, planVars, batchVars
<1>32. CASE UNCHANGED vars
  BY <1>32, PlanKept DEF vars, planVars, batchVars
<1> QED
  BY <1>1, <1>2, <1>3, <1>4, <1>5, <1>6, <1>7, <1>8, <1>9, <1>10, <1>11, <1>12, <1>13, <1>14,
     <1>15, <1>16, <1>17, <1>18, <1>19, <1>20, <1>21, <1>22, <1>23, <1>24, <1>25, <1>26, <1>27,
     <1>28, <1>29, <1>30, <1>31, <1>32, <1>33, <1>34, Steps

NoPhotosYet == index = {} /\ \A i \in DOMAIN tasks : tasks[i].kind # "results"

\* A scan whose photos have not come has nothing to wait for.
LEMMA Unasked ==
  ASSUME TypeInv, QuestionInv, phase = "scanning", NoPhotosYet
  PROVE  NoQuestions(tasks) /\ answer = NoAnswer
<1>1. NoQuestions(tasks)
  BY DEF QuestionInv, NoQuestions, Questions, NoPhotosYet
<1>2. answer.kind \notin Questions
  BY PhotosAssumption DEF QuestionInv, Questions, NoPhotosYet
<1>3. answer = NoAnswer
  BY <1>2 DEF TypeInv, PoolTypes, Answers
<1> QED BY <1>1, <1>3

\* No edits but the switch.
LEMMA BlankOrganize == \A b : NoEdits(b).organize = b
BY DEF NoEdits

\* Every step goes to a screen for which the state is ready.
LEMMA PhaseStep ==
  ASSUME TypeInv, PlanInv, PhaseInv, QuestionInv, [Next]_vars
  PROVE  PhaseInv'
<1> USE DEF PhaseInv, Planned, Early, Resting
<1>1. CASE SelectFolder
  BY <1>1, BlankOrganize
     DEF SelectFolder, ClearResults, LeaveCall
<1>2. CASE Probed
  <2>1. back = "start"
    BY <1>2 DEF Probed, NoAnswer
  <2>2. /\ phase' \in {"restore", "scanning"} /\ back' = "start" /\ answer' = NoAnswer
        /\ \/ resuming' = resuming
           \/ resuming' = FALSE
    BY <1>2, <2>1 DEF Probed, BeginFresh
  <2>3. UNCHANGED <<clustering, edits, batchMode, batches, pending, target, call>>
    BY <1>2 DEF Probed, planVars, batchVars, callVars
  <2>4. phase = "start" /\ ~resuming' /\ ~batchMode' /\ call' = "none"
    BY <1>2, <2>2, <2>3 DEF Probed
  <2>5. clustering' = {} /\ edits' = NoEdits(TRUE) /\ batches' = {}
        /\ pending' = NoPending /\ target' = NoStep
    BY <2>3, <2>4
  <2> QED BY <2>2, <2>4, <2>5
<1>3. CASE StartFresh
  BY <1>3, BlankOrganize
     DEF StartFresh, LeaveCall, BeginFresh
<1>4. CASE ResumeSession
  BY <1>4, BlankOrganize
     DEF ResumeSession, LeaveCall
<1>5. CASE ScanDone
  BY <1>5
     DEF ScanDone, Show, planVars, batchVars, resumeVars, callVars
<1>6. CASE ResumeScanDone
  BY <1>6
     DEF ResumeScanDone, planVars, batchVars, resumeVars, callVars
<1>7. CASE CancelScan
  BY <1>7
     DEF CancelScan, planVars, batchVars, callVars
<1>8. CASE BackFromConfirm
  BY <1>8, BlankOrganize
     DEF BackFromConfirm, ClearResults, LeaveCall
<1>9. CASE ResetToStart
  BY <1>9, BlankOrganize
     DEF ResetToStart, ClearResults, LeaveCall
<1>10. CASE ResultsApplied
  BY <1>10, BlankOrganize, ParsedAnswer
     DEF ResultsApplied, StartTrips, batchVars
<1>11. CASE ContinueFromConfirm
  BY <1>11, BlankOrganize
     DEF ContinueFromConfirm, StartTrips, batchVars
<1>12. CASE TripsDone
  BY <1>12
     DEF TripsDone, Show, batchVars
<1>13. CASE CancelTrips
  BY <1>13
     DEF TypeInv, ControlTypes, CancelTrips, CancelCall, LeaveCall, planVars, batchVars
<1>14. CASE BackFromTrips
  BY <1>14
     DEF TypeInv, ControlTypes, BackFromTrips, Show, planVars, batchVars, resumeVars, callVars
<1>15. CASE RerunTrips
  BY <1>15, BlankOrganize
     DEF RerunTrips, StartTrips, batchVars
<1>16. ASSUME NEW e, Editing(e) PROVE PhaseInv'
  BY <1>16
     DEF Editing, Edited, batchVars, resumeVars, callVars
<1>17. CASE ContinueFromTrips
  BY <1>17
     DEF ContinueFromTrips, Show, planVars, resumeVars, callVars
<1>18. CASE ReopenOrganize
  BY <1>18
     DEF ReopenOrganize, Show, planVars, resumeVars, callVars
<1>19. ASSUME NEW p \in index, MarkPhoto(p) PROVE PhaseInv'
  BY <1>19
     DEF MarkPhoto, planVars, batchVars, resumeVars, callVars, poolVars
<1>20. ASSUME NEW from \in Planned, NEW to \in Planned, Walk(from, to) PROVE PhaseInv'
  BY <1>20
     DEF Walk, Move, Show, planVars, batchVars, resumeVars, callVars
<1>21. CASE StartCommit
  BY <1>21
     DEF StartCommit, planVars, batchVars, resumeVars, poolVars
<1>22. CASE CommitDone
  BY <1>22
     DEF CommitDone, planVars, batchVars, resumeVars, poolVars
<1>23. CASE CancelCommit
  BY <1>23
     DEF CancelCommit, CancelCall, LeaveCall, Show, planVars, batchVars, resumeVars
<1>24. CASE Fail
  BY <1>24
     DEF Fail, planVars, batchVars
<1>25. CASE GoBackFromError
  <2>1. CASE batchMode /\ batches # {}
    <3>1. phase' = "menu" /\ back' = back /\ call' = "none" /\ answer' = NoAnswer
      BY <1>25, <2>1 DEF GoBackFromError, LeaveCall, Show
    <3>2. UNCHANGED <<clustering, edits, batchMode, batches, pending, target, resuming>>
      BY <1>25, <2>1 DEF GoBackFromError, batchVars, resumeVars
    <3>5. phase = "failed"
      BY <1>25 DEF GoBackFromError
    <3>6. pending = NoPending /\ back # "start"
      BY <2>1
    <3>3. pending = NoPending /\ target = NoStep /\ back # "start" /\ ~resuming
      BY <3>5, <3>6
    <3>4. pending' = NoPending /\ target' = NoStep /\ back' # "start" /\ ~resuming'
      BY <3>1, <3>2, <3>3
    <3> QED BY <3>1, <3>4
  <2>2. CASE ~(batchMode /\ batches # {})
    <3>1. back' \in {"start", "confirm", "summary"}
      BY <1>25 DEF GoBackFromError, TypeInv, ControlTypes
    <3> QED BY <1>25, <2>2, <3>1, BlankOrganize DEF GoBackFromError, ClearResults, LeaveCall
  <2> QED BY <2>1, <2>2
<1>26. CASE RecordStep
  BY <1>26
     DEF RecordStep, planVars, batchVars, resumeVars, poolVars
<1>27. CASE RecordLate
  <2>1. UNCHANGED <<phase, back, clustering, edits, batchVars, resumeVars, call, answer>>
    BY <1>27 DEF RecordLate, planVars, poolVars
  <2> QED BY <2>1 DEF batchVars, resumeVars
<1>28. CASE RunTask
  <2>1. /\ \/ answer' = answer
           \/ \E i \in DOMAIN tasks : tasks[i].kind \in Questions
        /\ UNCHANGED <<phase, back, planVars, batchVars, resumeVars, callVars>>
    BY <1>28 DEF RunTask, Questions
  <2>2. answer' # answer => back = "start"
    BY <2>1 DEF QuestionInv, Questions
  <2> QED BY <2>1, <2>2 DEF planVars, batchVars, resumeVars, callVars
<1>29. CASE Exit
  BY <1>29, BlankOrganize
     DEF Exit, Forget
<1>30. CASE Launch
  BY <1>30
     DEF Launch, planVars, batchVars, resumeVars, callVars, poolVars
<1>31. CASE Crash
  BY <1>31, BlankOrganize
     DEF Crash, Forget
<1>33. CASE ResumeCutShort
  <2>1. answer = NoAnswer
    BY <1>33, Unasked DEF ResumeCutShort, NoPhotosYet
  <2>2. /\ phase' = "confirm" /\ resuming' = FALSE
        /\ UNCHANGED <<back, clustering, edits, batchMode, batches, pending, target, call, answer>>
    BY <1>33 DEF ResumeCutShort, planVars, batchVars, callVars
  <2> QED BY <1>33, <2>1, <2>2 DEF ResumeCutShort
<1>34. CASE TaskFails
  <2>1. /\ \/ answer' = answer
           \/ \E i \in DOMAIN tasks : tasks[i].kind \in Questions
        /\ UNCHANGED <<phase, back, planVars, batchVars, resumeVars, callVars>>
    BY <1>34 DEF TaskFails, Questions
  <2>2. answer' # answer => back = "start"
    BY <2>1 DEF QuestionInv, Questions
  <2> QED BY <2>1, <2>2 DEF planVars, batchVars, resumeVars, callVars
<1>32. CASE UNCHANGED vars
  BY <1>32
     DEF vars, planVars, batchVars, resumeVars, callVars, poolVars
<1> QED
  BY <1>1, <1>2, <1>3, <1>4, <1>5, <1>6, <1>7, <1>8, <1>9, <1>10, <1>11, <1>12, <1>13, <1>14,
     <1>15, <1>16, <1>17, <1>18, <1>19, <1>20, <1>21, <1>22, <1>23, <1>24, <1>25, <1>26, <1>27,
     <1>28, <1>29, <1>30, <1>31, <1>32, <1>33, <1>34, Steps

\* Where nobody waits for an answer there is no question.
LEMMA Quiet ==
  ASSUME TypeInv, QuestionInv, phase \notin {"start", "scanning"}
  PROVE  NoQuestions(tasks) /\ answer = NoAnswer
<1>1. NoQuestions(tasks)
  BY DEF QuestionInv, NoQuestions, Questions
<1>2. answer.kind \notin Questions
  BY DEF QuestionInv, Questions
<1>3. answer = NoAnswer
  BY <1>2 DEF TypeInv, PoolTypes, Answers
<1> QED BY <1>1, <1>3

\* Without questions there is nothing to say about them.
LEMMA StaysQuiet ==
  ASSUME NoQuestions(tasks'), answer' = NoAnswer
  PROVE  QuestionInv'
BY DEF QuestionInv, NoQuestions, NoAnswer, Questions

\* Saves are no questions.
LEMMA SavesAreQuiet ==
  ASSUME TypeInv
  PROVE  /\ NoQuestions(Unheard(tasks)) /\ NoQuestions(<<>>)
         /\ \A q \in {tasks, Unheard(tasks)} : NoQuestions(q) =>
              /\ \A p, r, aim : NoQuestions(q \o Submits(p, r, aim, params))
              /\ \A p, aim : \A at \in Params : NoQuestions(q \o Submits(p, FALSE, aim, at))
              /\ \A x \in Texts : NoQuestions(Append(q, EditsTask(x)))
              /\ \A x \in Texts :
                   NoQuestions(q \o <<EditsTask(x), Position(phase, params)>>)
<1>1. tasks \in Seq(Tasks) /\ Unheard(tasks) \in Seq(Tasks) /\ params \in Params
  BY UnheardQueue DEF TypeInv, ControlTypes, PoolTypes
<1>2. NoQuestions(Unheard(tasks)) /\ NoQuestions(<<>>)
  BY <1>1, UnheardQueue DEF NoQuestions, Questions
<1>3. ASSUME NEW q \in Seq(Tasks), NoQuestions(q), NEW t \in Tasks, t.kind \notin Questions
      PROVE  NoQuestions(Append(q, t))
  BY <1>3, Appended DEF NoQuestions
<1>4. /\ \A p : \A at \in Params :
           Position(p, at) \in Tasks /\ Position(p, at).kind \notin Questions
      /\ \A x \in Texts : EditsTask(x) \in Tasks /\ EditsTask(x).kind \notin Questions
  BY SavesAreTasks DEF Questions
<1>5. ASSUME NEW q \in {tasks, Unheard(tasks)}, NoQuestions(q)
      PROVE  /\ \A p, r, aim : NoQuestions(q \o Submits(p, r, aim, params))
             /\ \A p, aim : \A at \in Params : NoQuestions(q \o Submits(p, FALSE, aim, at))
             /\ \A x \in Texts : NoQuestions(Append(q, EditsTask(x)))
             /\ \A x \in Texts :
                  NoQuestions(q \o <<EditsTask(x), Position(phase, params)>>)
  <2>1. q \in Seq(Tasks)
    BY <1>1
  <2>2. ASSUME NEW p, NEW r, NEW aim, NEW at \in Params
        PROVE  NoQuestions(q \o Submits(p, r, aim, at))
    <3>1. CASE Submits(p, r, aim, at) = <<>>
      BY <1>5, <2>1, <3>1
    <3>2. CASE Submits(p, r, aim, at) = <<Position(p, at)>>
      <4>1. Position(p, at) \in Tasks /\ Position(p, at).kind \notin Questions
        BY <1>4
      <4>2. NoQuestions(Append(q, Position(p, at)))
        BY <1>3, <1>5, <2>1, <4>1
      <4>3. q \o <<Position(p, at)>> = Append(q, Position(p, at))
        BY <2>1, <4>1, Appended
      <4> QED BY <3>2, <4>2, <4>3
    <3> QED BY <3>1, <3>2 DEF Submits
  <2>3. \A p, r, aim : NoQuestions(q \o Submits(p, r, aim, params))
    BY <1>1, <2>2
  <2>4. \A p, aim : \A at \in Params : NoQuestions(q \o Submits(p, FALSE, aim, at))
    BY <2>2
  <2>5. ASSUME NEW x \in Texts
        PROVE  /\ NoQuestions(Append(q, EditsTask(x)))
               /\ NoQuestions(q \o <<EditsTask(x), Position(phase, params)>>)
    <3>1. NoQuestions(Append(q, EditsTask(x))) /\ Append(q, EditsTask(x)) \in Seq(Tasks)
      BY <1>3, <1>4, <1>5, <2>1
    <3>2. NoQuestions(Append(Append(q, EditsTask(x)), Position(phase, params)))
      BY <1>1, <1>3, <1>4, <3>1
    <3>3. EditsTask(x) \in Tasks /\ Position(phase, params) \in Tasks
      BY <1>1, <1>4
    <3>4. q \o <<EditsTask(x), Position(phase, params)>>
            = Append(Append(q, EditsTask(x)), Position(phase, params))
      BY <2>1, <3>3, TwoSaves
    <3> QED BY <3>1, <3>2, <3>4
  <2> QED BY <2>3, <2>4, <2>5
<1> QED BY <1>2, <1>5

\* The only question of a queue is the one just asked.
LEMMA OneQuestion ==
  ASSUME NEW q \in Seq(Tasks), NoQuestions(q), NEW k \in Questions
  PROVE  \A i \in DOMAIN Append(q, [kind |-> k]) :
           Append(q, [kind |-> k])[i].kind \in Questions =>
             i = Len(q) + 1 /\ Append(q, [kind |-> k])[i].kind = k
<1>1. [kind |-> k] \in Tasks
  BY SavesAreTasks
<1> QED BY <1>1, Appended DEF NoQuestions

\* The text that a new trips pass saves first.
LEMMA StartText ==
  ASSUME TypeInv
  PROVE  Encode({}, NoEdits(edits.organize)) \in Texts
<1>1. IsClustering({}) /\ NoEdits(edits.organize) \in EditRecords
  BY Typed, NoEditsType, ClusterFacts, ParamsAssumption
<1> QED BY <1>1, EncodeType

\* A question that a worker has answered or given up is no longer in the queue.
LEMMA QuestionTaken ==
  ASSUME TypeInv, QuestionInv, NEW i \in DOMAIN tasks \cap 1 .. 2,
         tasks' = RemoveAt(tasks, i),
         \/ answer' = answer /\ tasks[i].kind \notin Questions
         \/ tasks[i].kind \in Questions /\ answer'.kind = tasks[i].kind,
         UNCHANGED <<phase, back, index, resuming>>
  PROVE  QuestionInv'
<1>1. \A j \in DOMAIN tasks' : \E k \in DOMAIN tasks \ {i} :
        /\ tasks'[j] = tasks[k] /\ (j < i => k = j) /\ (j >= i => k = j + 1)
  BY Removed DEF TypeInv, PoolTypes
<1>2. /\ DOMAIN tasks' \subseteq Int
      /\ \A j, k \in DOMAIN tasks' :
           tasks'[j].kind \in Questions /\ tasks'[k].kind \in Questions => j = k
  <2>1. DOMAIN tasks' \subseteq Int
    BY Removed DEF TypeInv, PoolTypes
  <2>2. ASSUME NEW j \in DOMAIN tasks', NEW k \in DOMAIN tasks',
               tasks'[j].kind \in Questions, tasks'[k].kind \in Questions
        PROVE  j = k
    <3>1. PICK x \in DOMAIN tasks \ {i} :
            tasks'[j] = tasks[x] /\ (j < i => x = j) /\ (j >= i => x = j + 1)
      BY <1>1
    <3>2. PICK y \in DOMAIN tasks \ {i} :
            tasks'[k] = tasks[y] /\ (k < i => y = k) /\ (k >= i => y = k + 1)
      BY <1>1
    <3>3. x = y
      BY <2>2, <3>1, <3>2 DEF QuestionInv
    <3>4. i \in Int /\ j \in Int /\ k \in Int
      BY <2>1
    <3> QED BY <3>1, <3>2, <3>3, <3>4
  <2> QED BY <2>1, <2>2
<1>3. answer' # NoAnswer => NoQuestions(tasks')
  <2>1. CASE tasks[i].kind \in Questions
    BY <1>1, <2>1 DEF QuestionInv, NoQuestions
  <2>2. CASE tasks[i].kind \notin Questions
    BY <1>1, <2>2 DEF QuestionInv, NoQuestions
  <2> QED BY <2>1, <2>2
<1>4. \A j \in DOMAIN tasks' :
        /\ tasks'[j].kind = "probe" => phase = "start" /\ back = "start"
        /\ tasks'[j].kind = "results" => phase = "scanning" /\ resuming /\ index = Photos
  BY <1>1 DEF QuestionInv
<1>5. /\ answer'.kind = "probe" => phase = "start"
      /\ answer'.kind = "results" => phase = "scanning" /\ resuming /\ index = Photos
  BY DEF QuestionInv
<1> QED BY <1>1, <1>2, <1>3, <1>4, <1>5 DEF QuestionInv

\* Every step keeps to one question at a time, of the screen that waits for it.
LEMMA QuestionStep ==
  ASSUME TypeInv, PlanInv, QuestionInv, [Next]_vars
  PROVE  QuestionInv'
<1>1. CASE SelectFolder
  <2>1. tasks' = Append(Unheard(tasks), [kind |-> "probe"])
        /\ phase' = "start" /\ back' = "start" /\ answer' = NoAnswer
    BY <1>1 DEF SelectFolder, ClearResults
  <2>2. Unheard(tasks) \in Seq(Tasks) /\ NoQuestions(Unheard(tasks))
    BY SavesAreQuiet, UnheardQueue DEF TypeInv, PoolTypes
  <2>3. \A i \in DOMAIN tasks' : tasks'[i].kind \in Questions =>
          i = Len(Unheard(tasks)) + 1 /\ tasks'[i].kind = "probe"
    BY <2>1, <2>2, OneQuestion DEF Questions
  <2> QED BY <2>1, <2>3 DEF QuestionInv, NoAnswer, Questions
<1>2. CASE Probed
  <2>1. NoQuestions(tasks)
    BY <1>2 DEF Probed, QuestionInv, NoAnswer
  <2> QED BY <1>2, <2>1, StaysQuiet DEF Probed
<1>3. CASE StartFresh
  BY <1>3, Quiet, StaysQuiet
     DEF StartFresh, LeaveCall, BeginFresh
<1>4. CASE ResumeSession
  BY <1>4, Quiet, StaysQuiet
     DEF ResumeSession, LeaveCall
<1>5. CASE ScanDone
  <2>1. NoQuestions(tasks)
    BY <1>5 DEF ScanDone, QuestionInv, NoQuestions, Questions
  <2>2. answer.kind \notin Questions
    BY <1>5 DEF ScanDone, QuestionInv, Questions
  <2>3. answer = NoAnswer
    BY <2>2 DEF TypeInv, PoolTypes, Answers
  <2>4. tasks' \in {tasks \o Submits(p, resuming, target, params) : p \in Phases}
        /\ answer' = answer
    BY <1>5 DEF ScanDone, Show, Phases, Resting, Early
  <2> QED BY <2>1, <2>3, <2>4, StaysQuiet, SavesAreQuiet
<1>6. CASE ResumeScanDone
  <2>1. index # Photos
    BY <1>6, PhotosAssumption DEF ResumeScanDone
  <2>2. NoQuestions(tasks)
    BY <1>6, <2>1 DEF ResumeScanDone, QuestionInv, NoQuestions, Questions
  <2>3. answer.kind \notin Questions
    BY <1>6, <2>1 DEF ResumeScanDone, QuestionInv, Questions
  <2>4. answer = NoAnswer
    BY <2>3 DEF TypeInv, PoolTypes, Answers
  <2>5. tasks' = Append(tasks, [kind |-> "results"]) /\ answer' = NoAnswer
        /\ phase' = "scanning" /\ resuming' /\ index' = Photos
    BY <1>6, <2>4 DEF ResumeScanDone, resumeVars
  <2>6. \A i \in DOMAIN tasks' : tasks'[i].kind \in Questions =>
          i = Len(tasks) + 1 /\ tasks'[i].kind = "results"
    BY <2>2, <2>5, OneQuestion DEF Questions, TypeInv, PoolTypes
  <2> QED BY <2>5, <2>6 DEF QuestionInv, NoAnswer, Questions
<1>7. CASE CancelScan
  BY <1>7, StaysQuiet, SavesAreQuiet
     DEF CancelScan, planVars, batchVars, callVars
<1>8. CASE BackFromConfirm
  BY <1>8, StaysQuiet, SavesAreQuiet
     DEF BackFromConfirm, ClearResults, LeaveCall
<1>9. CASE ResetToStart
  BY <1>9, StaysQuiet, SavesAreQuiet
     DEF ResetToStart, ClearResults, LeaveCall
<1>10. CASE ResultsApplied
  <2>4. NoQuestions(tasks)
    BY <1>10 DEF ResultsApplied, QuestionInv, NoAnswer
  <2>1. NoQuestions(tasks) /\ answer' = NoAnswer
    BY <1>10, <2>4 DEF ResultsApplied, StartTrips
  <2>2. \/ tasks' = tasks \o Submits("confirm", FALSE, NoStep, answer.is.params)
        \/ tasks' = Unheard(tasks)
        \/ tasks' = Append(Unheard(tasks), EditsTask(Encode({}, NoEdits(edits.organize))))
    BY <1>10 DEF ResultsApplied, StartTrips
  <2>3. answer.is.params \in Params /\ Encode({}, NoEdits(edits.organize)) \in Texts
    BY <1>10, ParsedAnswer, StartText DEF ResultsApplied
  <2> QED BY <2>1, <2>2, <2>3, SavesAreQuiet, StaysQuiet
<1>11. CASE ContinueFromConfirm
  <2>1. /\ phase \in {"confirm", "tripsReview"} /\ answer' = NoAnswer
        /\ \/ tasks' = Unheard(tasks)
           \/ tasks' = Append(Unheard(tasks), EditsTask(Encode({}, NoEdits(edits.organize))))
    BY <1>11 DEF ContinueFromConfirm, StartTrips
  <2> QED BY <2>1, StartText, SavesAreQuiet, StaysQuiet
<1>12. CASE TripsDone
  BY <1>12, Quiet, StaysQuiet, SavesAreQuiet
     DEF TripsDone, Show, batchVars
<1>13. CASE CancelTrips
  BY <1>13, StaysQuiet, SavesAreQuiet
     DEF CancelTrips, CancelCall, LeaveCall, planVars, batchVars
<1>14. CASE BackFromTrips
  BY <1>14, Quiet, StaysQuiet, SavesAreQuiet
     DEF BackFromTrips, Show, planVars, batchVars, resumeVars, callVars
<1>15. CASE RerunTrips
  <2>1. /\ phase \in {"confirm", "tripsReview"} /\ answer' = NoAnswer
        /\ \/ tasks' = Unheard(tasks)
           \/ tasks' = Append(Unheard(tasks), EditsTask(Encode({}, NoEdits(edits.organize))))
    BY <1>15 DEF RerunTrips, StartTrips
  <2> QED BY <2>1, StartText, SavesAreQuiet, StaysQuiet
<1>16. ASSUME NEW e, Editing(e) PROVE QuestionInv'
  <2>1. phase = "tripsReview" /\ answer' = answer
        /\ tasks' = tasks \o <<EditsTask(Encode(clustering, e)), Position(phase, params)>>
    BY <1>16 DEF Editing, Edited
  <2>2. Encode(clustering, e) \in Texts
    BY <1>16, PlanIsSound, EncodeType DEF Editing
  <2> QED BY <2>1, <2>2, Quiet, SavesAreQuiet, StaysQuiet
<1>17. CASE ContinueFromTrips
  BY <1>17, Quiet, StaysQuiet, SavesAreQuiet
     DEF ContinueFromTrips, Show, planVars, resumeVars, callVars
<1>18. CASE ReopenOrganize
  BY <1>18, Quiet, StaysQuiet, SavesAreQuiet
     DEF ReopenOrganize, Show, planVars, resumeVars, callVars
<1>19. ASSUME NEW p \in index, MarkPhoto(p) PROVE QuestionInv'
  BY <1>19, Quiet, StaysQuiet
     DEF MarkPhoto, planVars, batchVars, resumeVars, callVars, poolVars
<1>20. ASSUME NEW from \in Planned, NEW to \in Planned, Walk(from, to) PROVE QuestionInv'
  <2>1. phase \in Resting /\ answer' = answer
        /\ tasks' = tasks \o Submits(to, resuming, target, params)
    BY <1>20 DEF Walk, Move, Show
  <2> QED BY <2>1, Quiet, SavesAreQuiet, StaysQuiet DEF Resting
<1>21. CASE StartCommit
  BY <1>21, Quiet, StaysQuiet
     DEF StartCommit, planVars, batchVars, resumeVars, poolVars
<1>22. CASE CommitDone
  BY <1>22, Quiet, StaysQuiet
     DEF CommitDone, planVars, batchVars, resumeVars, poolVars
<1>23. CASE CancelCommit
  BY <1>23, Quiet, StaysQuiet, SavesAreQuiet
     DEF CancelCommit, CancelCall, LeaveCall, Show, planVars, batchVars, resumeVars
<1>24. CASE Fail
  BY <1>24, StaysQuiet, SavesAreQuiet
     DEF Fail, planVars, batchVars
<1>25. CASE GoBackFromError
  <2>1. \/ tasks' = tasks \o Submits("menu", resuming, target, params)
        \/ tasks' = tasks \o Submits(back, FALSE, NoStep, params)
    BY <1>25 DEF GoBackFromError, Show
  <2>2. answer' = NoAnswer /\ phase = "failed" /\ params \in Params
    BY <1>25 DEF GoBackFromError, ClearResults, TypeInv, ControlTypes
  <2> QED BY <2>1, <2>2, Quiet, SavesAreQuiet, StaysQuiet
<1>26. CASE RecordStep
  <2>1. UNCHANGED <<phase, back, index, resuming, tasks, answer>>
    BY <1>26 DEF RecordStep, resumeVars, poolVars
  <2> QED BY <2>1 DEF QuestionInv, NoQuestions
<1>27. CASE RecordLate
  <2>1. UNCHANGED <<phase, back, index, resuming, tasks, answer>>
    BY <1>27 DEF RecordLate, resumeVars, poolVars
  <2> QED BY <2>1 DEF QuestionInv, NoQuestions
<1>28. CASE RunTask
  <2>1. PICK i \in DOMAIN tasks \cap 1 .. 2 :
          /\ tasks' = RemoveAt(tasks, i)
          /\ \/ answer' = answer /\ tasks[i].kind \notin Questions
             \/ tasks[i].kind \in Questions /\ answer'.kind = tasks[i].kind
          /\ UNCHANGED <<phase, back, index, resuming>>
    BY <1>28 DEF RunTask, Questions, resumeVars
  <2> QED BY <2>1, QuestionTaken
<1>29. CASE Exit
  BY <1>29, StaysQuiet, SavesAreQuiet
     DEF Exit, Forget
<1>30. CASE Launch
  BY <1>30, Quiet, StaysQuiet
     DEF Launch, planVars, batchVars, resumeVars, callVars, poolVars
<1>31. CASE Crash
  BY <1>31, StaysQuiet, SavesAreQuiet
     DEF Crash, Forget
<1>33. CASE ResumeCutShort
  <2>1. NoQuestions(tasks) /\ answer' = NoAnswer
    BY <1>33, Unasked DEF ResumeCutShort, NoPhotosYet
  <2>2. tasks' = tasks \o Submits("confirm", FALSE, target, params) /\ params \in Params
    BY <1>33 DEF ResumeCutShort, TypeInv, ControlTypes
  <2> QED BY <2>1, <2>2, SavesAreQuiet, StaysQuiet
<1>34. CASE TaskFails
  <2>1. PICK i \in DOMAIN tasks \cap 1 .. 2 :
          /\ tasks' = RemoveAt(tasks, i)
          /\ \/ answer' = answer /\ tasks[i].kind \notin Questions
             \/ tasks[i].kind \in Questions /\ answer'.kind = tasks[i].kind
          /\ UNCHANGED <<phase, back, index, resuming>>
    BY <1>34 DEF TaskFails, Questions, resumeVars
  <2> QED BY <2>1, QuestionTaken
<1>32. CASE UNCHANGED vars
  BY <1>32 DEF vars, resumeVars, poolVars, QuestionInv, NoQuestions
<1> QED
  BY <1>1, <1>2, <1>3, <1>4, <1>5, <1>6, <1>7, <1>8, <1>9, <1>10, <1>11, <1>12, <1>13, <1>14,
     <1>15, <1>16, <1>17, <1>18, <1>19, <1>20, <1>21, <1>22, <1>23, <1>24, <1>25, <1>26, <1>27,
     <1>28, <1>29, <1>30, <1>31, <1>32, <1>33, <1>34, Steps

------------------------------------------------------------------------------
(* What waits and what the session has, in order.                             *)

\* Outside the screens that wait for an answer none is on its way.
LEMMA QuietNext ==
  ASSUME TypeInv', QuestionInv', phase' \notin {"start", "scanning"}
  PROVE  NoQuestions(tasks') /\ answer' = NoAnswer
<1>1. NoQuestions(tasks')
  BY DEF QuestionInv, NoQuestions, Questions
<1>2. answer'.kind \notin Questions
  BY DEF QuestionInv, Questions
<1>3. answer' = NoAnswer
  BY <1>2 DEF TypeInv, PoolTypes, Answers
<1> QED BY <1>1, <1>3

\* Where nothing was asked and no pass runs, AskedLast is about nothing.
LEMMA AskedNothing ==
  ASSUME NoQuestions(tasks'), answer' = NoAnswer,
         phase' \notin {"restore", "scanning"}, phase' # "tripsRunning" \/ pending' = NoPending
  PROVE  AskedLast'
BY DEF AskedLast, NoQuestions, NoAnswer, Questions

\* An answer over an empty queue is what the session has.
LEMMA AskedEmpty ==
  ASSUME tasks' = <<>>, answer'.kind = "results" => answer'.is = stored',
         phase' = "scanning" /\ ~resuming' => stored'.edits = NoText,
         phase' # "tripsRunning" \/ pending' = NoPending
  PROVE  AskedLast'
<1>1. DOMAIN tasks' = {}
  OBVIOUS
<1> QED BY <1>1 DEF AskedLast

\* The screens in which AskedLast is about nothing.
LEMMA AskedElse ==
  ASSUME TypeInv', QuestionInv', phase' \notin {"start", "restore", "scanning"},
         phase' # "tripsRunning" \/ pending' = NoPending
  PROVE  AskedLast'
BY QuietNext, AskedNothing

\* As long as nothing is overtaken the first task runs.
LEMMA FirstRuns ==
  ASSUME TypeInv, RunTask, ~disordered'
  PROVE  /\ tasks # <<>> /\ tasks' = Tail(tasks)
         /\ stored' = Effect(Head(tasks), stored) /\ missed' = missed \ {Head(tasks).kind}
         /\ \/ answer' = answer /\ Head(tasks).kind \notin Questions
            \/ /\ Head(tasks).kind \in Questions
               /\ answer' = [kind |-> Head(tasks).kind, is |-> stored]
         /\ UNCHANGED <<phase, back, index, planVars, marked, batchVars, resumeVars, callVars>>
<1>1. PICK i \in DOMAIN tasks \cap 1 .. 2 :
        /\ tasks' = RemoveAt(tasks, i) /\ stored' = Effect(tasks[i], stored)
        /\ missed' = missed \ {tasks[i].kind}
        /\ \/ answer' = answer /\ tasks[i].kind \notin Questions
           \/ /\ tasks[i].kind \in Questions
              /\ answer' = [kind |-> tasks[i].kind, is |-> stored]
        /\ i = 2 => disordered'
        /\ UNCHANGED <<phase, back, index, planVars, marked, batchVars, resumeVars, callVars>>
  BY DEF RunTask, Questions
<1>2. i = 1
  BY <1>1
<1>3. Head(tasks) = tasks[1]
  BY <1>1 DEF TypeInv, PoolTypes
<1> QED BY <1>1, <1>2, <1>3, Removed DEF TypeInv, PoolTypes

\* The same of the first task that fails.
LEMMA FirstFails ==
  ASSUME TypeInv, TaskFails, ~disordered'
  PROVE  /\ tasks # <<>> /\ tasks' = Tail(tasks)
         /\ stored' = stored /\ missed' = missed \cup ({Head(tasks).kind} \cap Parts)
         /\ \/ answer' = answer /\ Head(tasks).kind \notin Questions
            \/ Head(tasks).kind \in Questions /\ answer'.kind = "probe"
         /\ UNCHANGED <<phase, back, index, planVars, marked, batchVars, resumeVars, callVars>>
<1>1. PICK i \in DOMAIN tasks \cap 1 .. 2 :
        /\ tasks' = RemoveAt(tasks, i) /\ stored' = stored
        /\ missed' = missed \cup ({tasks[i].kind} \cap Parts)
        /\ \/ answer' = answer /\ tasks[i].kind \notin Questions
           \/ tasks[i].kind \in Questions /\ answer'.kind = "probe"
        /\ i = 2 => disordered'
        /\ UNCHANGED <<phase, back, index, planVars, marked, batchVars, resumeVars, callVars>>
  <2>1. PICK i \in DOMAIN tasks \cap 1 .. 2 :
          /\ tasks' = RemoveAt(tasks, i) /\ stored' = stored
          /\ answer' = IF tasks[i].kind = "probe"
                       THEN [kind |-> "probe", is |-> [stored EXCEPT !.has = FALSE]]
                       ELSE answer
          /\ tasks[i].kind # "results" /\ disordered' = (disordered \/ i = 2)
          /\ missed' = missed \cup ({tasks[i].kind} \cap Parts)
          /\ UNCHANGED <<phase, back, index, planVars, marked, batchVars, resumeVars, callVars>>
    BY DEF TaskFails
  <2>2. \/ answer' = answer /\ tasks[i].kind \notin Questions
        \/ tasks[i].kind \in Questions /\ answer'.kind = "probe"
    BY <2>1 DEF Questions
  <2> QED BY <2>1, <2>2
<1>2. i = 1
  BY <1>1
<1>3. Head(tasks) = tasks[1]
  BY <1>1 DEF TypeInv, PoolTypes
<1> QED BY <1>1, <1>2, <1>3, Removed DEF TypeInv, PoolTypes

\* The first task is taken, and the questions stay last.
LEMMA AskedTaken ==
  ASSUME TypeInv, AskedLast, tasks # <<>>, tasks' = Tail(tasks),
         \/ answer' = answer /\ Head(tasks).kind \notin Questions
         \/ /\ Head(tasks).kind \in Questions
            /\ answer'.kind = "results" => answer'.is = stored',
         UNCHANGED <<phase, back, index, planVars, marked, resumeVars>>
  PROVE  AskedLast'
<1>1. answer = NoAnswer /\ phase # "restore"
      /\ (phase = "tripsRunning" => pending = NoPending)
      /\ (phase = "scanning" => resuming)
  BY DEF AskedLast
<1>2. CASE Head(tasks).kind \in Questions
  <2>1. 1 \in DOMAIN tasks /\ Head(tasks) = tasks[1] /\ tasks[1] \in Tasks
    BY DEF TypeInv, PoolTypes
  <2>2. Len(tasks) = 1
    BY <1>2, <2>1 DEF AskedLast
  <2>3. tasks' = <<>>
    BY <2>2 DEF TypeInv, PoolTypes
  <2>4. answer'.kind = "results" => answer'.is = stored'
    BY <1>2
  <2>5. /\ phase' = "scanning" => resuming'
        /\ phase' # "tripsRunning" \/ pending' = NoPending
    BY <1>1 DEF resumeVars
  <2> QED BY <2>3, <2>4, <2>5, AskedEmpty
<1>3. CASE Head(tasks).kind \notin Questions
  <2>1. answer' = NoAnswer
    BY <1>1, <1>3
  <2>2. /\ \A i \in DOMAIN tasks' : i + 1 \in DOMAIN tasks /\ tasks'[i] = tasks[i + 1]
        /\ Len(tasks') = Len(tasks) - 1 /\ Len(tasks) \in Nat /\ DOMAIN tasks' \subseteq Int
    BY DEF TypeInv, PoolTypes
  <2>3. \A i \in DOMAIN tasks' : tasks'[i].kind \in Questions => i = Len(tasks')
    BY <2>2 DEF AskedLast
  <2>4. phase = "scanning" => FALSE
    <3>1. 1 \in DOMAIN tasks /\ Head(tasks) = tasks[1]
      BY DEF TypeInv, PoolTypes
    <3> QED BY <1>3, <3>1 DEF AskedLast, Questions
  <2> QED BY <1>1, <2>1, <2>3, <2>4 DEF AskedLast, resumeVars, NoAnswer
<1> QED BY <1>2, <1>3

\* Every step in order keeps the questions last.
LEMMA AskedStep ==
  ASSUME TypeInv, PlanInv, PhaseInv, QuestionInv, [Next]_vars, TypeInv', QuestionInv',
         AskedLast, ~disordered'
  PROVE  AskedLast'
<1>1. CASE SelectFolder
  <2>1. tasks' = Append(Unheard(tasks), [kind |-> "probe"])
        /\ phase' = "start" /\ answer' = NoAnswer
    BY <1>1 DEF SelectFolder, ClearResults
  <2>2. Unheard(tasks) \in Seq(Tasks) /\ NoQuestions(Unheard(tasks))
    BY SavesAreQuiet, UnheardQueue DEF TypeInv, PoolTypes
  <2>3. [kind |-> "probe"] \in Tasks /\ "probe" \in Questions
    BY SavesAreTasks DEF Questions
  <2>4. Len(tasks') = Len(Unheard(tasks)) + 1
    BY <2>1, <2>2, <2>3, Appended
  <2>5. \A i \in DOMAIN tasks' : tasks'[i].kind \in Questions => i = Len(tasks')
    BY <2>1, <2>2, <2>3, <2>4, OneQuestion
  <2> QED BY <2>1, <2>5 DEF AskedLast, NoAnswer
<1>2. CASE Probed
  <2>1. tasks' = <<>>
    BY <1>2 DEF Probed, AskedLast, NoAnswer
  <2>2. answer' = NoAnswer /\ phase' \in {"restore", "scanning"}
        /\ (phase' = "scanning" => stored'.edits = NoText)
    BY <1>2 DEF Probed, BeginFresh, Fresh
  <2>3. answer'.kind # "results"
    BY <2>2 DEF NoAnswer
  <2> QED BY <2>1, <2>2, <2>3, AskedEmpty
<1>3. CASE StartFresh
  <2>1. tasks' = <<>>
    BY <1>3 DEF StartFresh, AskedLast
  <2>2. answer' = NoAnswer /\ phase' = "scanning" /\ stored'.edits = NoText
    BY <1>3 DEF StartFresh, BeginFresh, Fresh
  <2> QED BY <2>1, <2>2 DEF AskedLast, NoAnswer
<1>4. CASE ResumeSession
  <2>1. tasks' = <<>>
    BY <1>4 DEF ResumeSession, AskedLast
  <2>2. answer' = NoAnswer /\ phase' = "scanning" /\ resuming'
    BY <1>4 DEF ResumeSession
  <2> QED BY <2>1, <2>2 DEF AskedLast, NoAnswer
<1>5. CASE ScanDone
  BY <1>5, AskedElse
     DEF ScanDone, Show, planVars, batchVars, resumeVars, callVars
<1>6. CASE ResumeScanDone
  <2>1. index # Photos
    BY <1>6, PhotosAssumption DEF ResumeScanDone
  <2>2. NoQuestions(tasks)
    BY <1>6, <2>1 DEF ResumeScanDone, QuestionInv, NoQuestions, Questions
  <2>3. tasks' = Append(tasks, [kind |-> "results"]) /\ phase' = "scanning" /\ resuming'
    BY <1>6 DEF ResumeScanDone, resumeVars
  <2>4. [kind |-> "results"] \in Tasks /\ "results" \in Questions /\ tasks \in Seq(Tasks)
    BY SavesAreTasks DEF Questions, TypeInv, PoolTypes
  <2>5. Len(tasks') = Len(tasks) + 1 /\ Len(tasks) + 1 \in DOMAIN tasks'
        /\ tasks'[Len(tasks) + 1] = [kind |-> "results"]
    BY <2>3, <2>4
  <2>6. \A i \in DOMAIN tasks' : tasks'[i].kind \in Questions => i = Len(tasks')
    BY <2>2, <2>3, <2>4, <2>5, OneQuestion
  <2>7. answer' = NoAnswer
    BY <2>4, <2>5 DEF QuestionInv, NoQuestions
  <2>8. \A i \in DOMAIN tasks' : tasks'[i].kind = "results"
    <3>1. \A i \in DOMAIN tasks : tasks[i].kind = "results"
      BY <1>6 DEF ResumeScanDone, AskedLast
    <3> QED BY <2>3, <2>4, <2>5, <3>1, Appended
  <2> QED BY <2>3, <2>6, <2>7, <2>8 DEF AskedLast, NoAnswer
<1>7. CASE CancelScan
  <2>1. tasks' = Unheard(tasks) /\ phase' = "start" /\ answer' = NoAnswer
    BY <1>7 DEF CancelScan, ClearResults
  <2> QED BY <2>1, SavesAreQuiet, AskedNothing
<1>8. CASE BackFromConfirm
  <2>1. tasks' = Unheard(tasks) /\ phase' = "start" /\ answer' = NoAnswer
    BY <1>8 DEF BackFromConfirm, ClearResults
  <2> QED BY <2>1, SavesAreQuiet, AskedNothing
<1>9. CASE ResetToStart
  <2>1. tasks' = Unheard(tasks) /\ phase' = "start" /\ answer' = NoAnswer
    BY <1>9 DEF ResetToStart, ClearResults
  <2> QED BY <2>1, SavesAreQuiet, AskedNothing
<1>10. CASE ResultsApplied
  <2>1. tasks = <<>> /\ answer.is = stored /\ index = Photos /\ edits = NoEdits(TRUE)
    BY <1>10 DEF ResultsApplied, AskedLast, NoAnswer, QuestionInv, PhaseInv, Early
  <2>2. CASE phase' = "confirm"
    BY <2>2, AskedElse
  <2>3. CASE phase' # "confirm"
    <3>1. /\ tasks' = Unheard(tasks) /\ answer' = NoAnswer /\ phase' = "tripsRunning"
          /\ edits' = NoEdits(edits.organize) /\ pending' = stored.edits
          /\ params' = stored.params
      <4>1. answer.is.edits # NoPending
        BY <1>10, ParsedAnswer DEF ResultsApplied
      <4> QED BY <1>10, <2>1, <2>3, <4>1 DEF ResultsApplied, StartTrips
    <3>2. tasks' = <<>>
      BY <2>1, <3>1, UnheardQueue DEF TypeInv, PoolTypes
    <3>3. edits' = NoEdits(TRUE)
      BY <2>1, <3>1, BlankOrganize
    <3>4. marked' = stored.marks /\ stored' = stored /\ index' = Photos
      BY <1>10, <2>1 DEF ResultsApplied
    <3> QED BY <3>1, <3>2, <3>3, <3>4 DEF AskedLast, NoAnswer
  <2> QED BY <2>2, <2>3
<1>11. CASE ContinueFromConfirm
  <2>1. phase' = "tripsRunning" /\ pending' = NoPending
    BY <1>11 DEF ContinueFromConfirm, StartTrips, PhaseInv
  <2> QED BY <2>1, AskedElse
<1>12. CASE TripsDone
  <2>1. phase' \in {"summary", "menu", "tripsReview"}
    BY <1>12 DEF TripsDone, Show
  <2> QED BY <2>1, AskedElse
<1>13. CASE CancelTrips
  <2>1. phase' \in {"confirm", "summary"}
    BY <1>13 DEF CancelTrips, CancelCall, TypeInv, ControlTypes, PhaseInv
  <2> QED BY <2>1, AskedElse
<1>14. CASE BackFromTrips
  <2>1. phase' \in {"confirm", "summary"}
    BY <1>14 DEF BackFromTrips, Show, TypeInv, ControlTypes, PhaseInv, Planned
  <2> QED BY <2>1, AskedElse
<1>15. CASE RerunTrips
  <2>1. phase' = "tripsRunning" /\ pending' = NoPending
    BY <1>15 DEF RerunTrips, StartTrips, PhaseInv
  <2> QED BY <2>1, AskedElse
<1>16. ASSUME NEW e, Editing(e) PROVE AskedLast'
  <2>1. phase' = "tripsReview"
    BY <1>16 DEF Editing, Edited
  <2> QED BY <2>1, AskedElse
<1>17. CASE ContinueFromTrips
  BY <1>17, AskedElse
     DEF ContinueFromTrips, Show, planVars, resumeVars, callVars
<1>18. CASE ReopenOrganize
  BY <1>18, AskedElse
     DEF ReopenOrganize, Show, planVars, resumeVars, callVars
<1>19. ASSUME NEW p \in index, MarkPhoto(p) PROVE AskedLast'
  <2>1. phase' \in {"menu", "deletionReview"}
    BY <1>19 DEF MarkPhoto
  <2> QED BY <2>1, AskedElse
<1>20. ASSUME NEW from \in Planned, NEW to \in Planned, Walk(from, to) PROVE AskedLast'
  <2>1. phase' \in Resting
    BY <1>20 DEF Walk, Move, Show
  <2> QED BY <2>1, AskedElse DEF Resting
<1>21. CASE StartCommit
  BY <1>21, AskedElse
     DEF StartCommit, planVars, batchVars, resumeVars, poolVars
<1>22. CASE CommitDone
  BY <1>22, AskedElse
     DEF CommitDone, planVars, batchVars, resumeVars, poolVars
<1>23. CASE CancelCommit
  BY <1>23, AskedElse
     DEF CancelCommit, CancelCall, LeaveCall, Show, planVars, batchVars, resumeVars
<1>24. CASE Fail
  BY <1>24, AskedElse
     DEF Fail, planVars, batchVars
<1>25. CASE GoBackFromError
  <2>1. \/ tasks' = tasks \o Submits("menu", resuming, target, params)
        \/ tasks' = tasks \o Submits(back, FALSE, NoStep, params)
    BY <1>25 DEF GoBackFromError, Show
  <2>2. answer' = NoAnswer /\ phase = "failed" /\ params \in Params
    BY <1>25 DEF GoBackFromError, ClearResults, TypeInv, ControlTypes
  <2>3. phase' \in {"menu", "start", "confirm", "summary"}
    BY <1>25 DEF GoBackFromError, Show, TypeInv, ControlTypes
  <2> QED BY <2>1, <2>2, <2>3, Quiet, SavesAreQuiet, AskedNothing
<1>26. CASE RecordStep
  <2>1. phase \in {"tripsRunning", "committing"}
    BY <1>26 DEF RecordStep, PhaseInv
  <2>2. NoQuestions(tasks) /\ answer = NoAnswer
    BY <2>1, Quiet
  <2>3. /\ stored'.edits = stored.edits /\ stored'.params = stored.params
        /\ stored'.marks = stored.marks
    BY <1>26 DEF RecordStep, TypeInv, PoolTypes, Sessions
  <2>4. UNCHANGED <<phase, index, params, edits, marked, pending, tasks, answer>>
    BY <1>26 DEF RecordStep, planVars, resumeVars, poolVars
  <2> QED BY <2>1, <2>2, <2>3, <2>4 DEF AskedLast, NoAnswer, NoQuestions
<1>27. CASE RecordLate
  <2>1. UNCHANGED <<phase, index, params, edits, marked, pending, resuming, tasks, answer,
                    stored>>
    BY <1>27 DEF RecordLate, planVars, resumeVars, poolVars
  <2> QED BY <2>1 DEF AskedLast
<1>28. CASE RunTask
  <2>1. /\ tasks # <<>> /\ tasks' = Tail(tasks)
        /\ stored' = Effect(Head(tasks), stored)
        /\ \/ answer' = answer /\ Head(tasks).kind \notin Questions
           \/ /\ Head(tasks).kind \in Questions
              /\ answer' = [kind |-> Head(tasks).kind, is |-> stored]
        /\ UNCHANGED <<phase, back, index, planVars, marked, resumeVars>>
    BY <1>28, FirstRuns
  <2>2. Head(tasks).kind \in Questions => stored' = stored
    BY <2>1 DEF Effect, Questions
  <2> QED BY <2>1, <2>2, AskedTaken
<1>29. CASE Exit
  BY <1>29, AskedElse
     DEF Exit, Forget
<1>30. CASE Launch
  <2>1. tasks' = <<>> /\ phase = "closed" /\ phase' = "start" /\ answer' = answer
    BY <1>30 DEF Launch, poolVars
  <2> QED BY <2>1, Quiet, AskedNothing DEF NoQuestions
<1>31. CASE Crash
  <2>1. tasks' = <<>> /\ phase' = "start" /\ answer' = NoAnswer
    BY <1>31 DEF Crash, Forget
  <2> QED BY <2>1, AskedNothing DEF NoQuestions
<1>33. CASE ResumeCutShort
  BY <1>33, AskedElse
     DEF ResumeCutShort
<1>34. CASE TaskFails
  <2>1. /\ tasks # <<>> /\ tasks' = Tail(tasks)
        /\ \/ answer' = answer /\ Head(tasks).kind \notin Questions
           \/ Head(tasks).kind \in Questions /\ answer'.kind = "probe"
        /\ UNCHANGED <<phase, back, index, planVars, marked, resumeVars>>
    BY <1>34, FirstFails
  <2> QED BY <2>1, AskedTaken
<1>32. CASE UNCHANGED vars
  BY <1>32 DEF vars, planVars, resumeVars, poolVars, AskedLast
<1> QED
  BY <1>1, <1>2, <1>3, <1>4, <1>5, <1>6, <1>7, <1>8, <1>9, <1>10, <1>11, <1>12, <1>13, <1>14,
     <1>15, <1>16, <1>17, <1>18, <1>19, <1>20, <1>21, <1>22, <1>23, <1>24, <1>25, <1>26, <1>27,
     <1>28, <1>29, <1>30, <1>31, <1>32, <1>33, <1>34, Steps

\* A resting screen saves the position last.
LEMMA Shows ==
  ASSUME NEW q \in Seq(Tasks), NEW p \in Resting, NEW r, ~r, NEW at \in Params
  PROVE  /\ q \o Submits(p, r, NoStep, at) = Append(q, Position(p, at))
         /\ q \o Submits(p, FALSE, NoStep, at) = Append(q, Position(p, at))
<1>1. Submits(p, r, NoStep, at) = <<Position(p, at)>>
  BY DEF Submits
<1>2. Submits(p, FALSE, NoStep, at) = <<Position(p, at)>>
  BY DEF Submits
<1>3. Position(p, at) \in Tasks
  BY SavesAreTasks
<1> QED BY <1>1, <1>2, <1>3, Appended

\* Whoever reaches a resting screen saves where that is, at the end of the queue.
LEMMA ArrivalIsSaved ==
  ASSUME TypeInv, PlanInv, PhaseInv, [Next]_vars, phase' \in Resting, phase' # phase
  PROVE  \E q \in {tasks, Unheard(tasks)} : tasks' = Append(q, Position(phase', params'))
<1> DEFINE Arrived == \E q \in {tasks, Unheard(tasks)} :
                        tasks' = Append(q, Position(phase', params'))
<1>0. tasks \in Seq(Tasks) /\ Unheard(tasks) \in Seq(Tasks) /\ params \in Params
  BY UnheardQueue DEF TypeInv, ControlTypes, PoolTypes
<1>1. CASE SelectFolder
  BY <1>1 DEF SelectFolder, Resting
<1>2. CASE Probed
  BY <1>2 DEF Probed, BeginFresh, Resting
<1>3. CASE StartFresh
  BY <1>3 DEF StartFresh, BeginFresh, Resting
<1>4. CASE ResumeSession
  BY <1>4 DEF ResumeSession, Resting
<1>5. CASE ScanDone
  <2>1. tasks' = tasks \o Submits(phase', resuming, target, params) /\ params' = params
    BY <1>5 DEF ScanDone, Show, planVars
  <2>2. ~resuming /\ target = NoStep
    BY <1>5 DEF ScanDone, PhaseInv, Early
  <2> QED BY <1>0, <2>1, <2>2, Shows
<1>6. CASE ResumeScanDone
  BY <1>6 DEF ResumeScanDone, Resting
<1>7. CASE CancelScan
  BY <1>7 DEF CancelScan, Resting
<1>8. CASE BackFromConfirm
  BY <1>8 DEF BackFromConfirm, Resting
<1>9. CASE ResetToStart
  BY <1>9 DEF ResetToStart, Resting
<1>10. CASE ResultsApplied
  <2>1. phase' = "confirm"
    BY <1>10 DEF ResultsApplied, StartTrips, Resting
  <2>2. tasks' = tasks \o Submits(phase', FALSE, NoStep, params')
    BY <1>10, <2>1 DEF ResultsApplied, StartTrips
  <2>3. params' \in Params
    BY <1>10, <2>1, ParsedAnswer DEF ResultsApplied, StartTrips
  <2> QED BY <1>0, <2>2, <2>3, Shows
<1>11. CASE ContinueFromConfirm
  BY <1>11 DEF ContinueFromConfirm, StartTrips, Resting
<1>12. CASE TripsDone
  <2>1. \/ tasks' = tasks \o Submits(phase', resuming, NoStep, params)
        \/ target = NoStep /\ tasks' = tasks \o Submits(phase', resuming, target, params)
    BY <1>12 DEF TripsDone, Show
  <2>2. ~resuming /\ params' = params
    BY <1>12 DEF TripsDone, PhaseInv
  <2>3. tasks' = tasks \o Submits(phase', resuming, NoStep, params)
    BY <2>1
  <2> QED BY <1>0, <2>2, <2>3, Shows
<1>13. CASE CancelTrips
  <2>1. tasks' = Unheard(tasks) \o Submits(phase', resuming, NoStep, params)
    BY <1>13 DEF CancelTrips, CancelCall
  <2>2. ~resuming /\ params' = params
    BY <1>13 DEF CancelTrips, CancelCall, PhaseInv, planVars
  <2> QED BY <1>0, <2>1, <2>2, Shows
<1>14. CASE BackFromTrips
  <2>1. tasks' = tasks \o Submits(phase', resuming, target, params) /\ params' = params
    BY <1>14 DEF BackFromTrips, Show, planVars
  <2>2. ~resuming /\ target = NoStep
    BY <1>14 DEF BackFromTrips, PhaseInv, Resting
  <2> QED BY <1>0, <2>1, <2>2, Shows
<1>15. CASE RerunTrips
  BY <1>15 DEF RerunTrips, StartTrips, Resting
<1>16. ASSUME NEW e, Editing(e) PROVE Arrived
  BY <1>16 DEF Editing, Edited, Resting
<1>17. CASE ContinueFromTrips
  <2>1. tasks' = tasks \o Submits(phase', resuming, target, params) /\ params' = params
    BY <1>17 DEF ContinueFromTrips, Show, planVars
  <2>2. ~resuming /\ target = NoStep
    BY <1>17 DEF ContinueFromTrips, PhaseInv, Resting
  <2> QED BY <1>0, <2>1, <2>2, Shows
<1>18. CASE ReopenOrganize
  <2>1. tasks' = tasks \o Submits(phase', resuming, target, params) /\ params' = params
    BY <1>18 DEF ReopenOrganize, Show, planVars
  <2>2. ~resuming /\ target = NoStep
    BY <1>18 DEF ReopenOrganize, PhaseInv, Resting
  <2> QED BY <1>0, <2>1, <2>2, Shows
<1>19. ASSUME NEW p \in index, MarkPhoto(p) PROVE Arrived
  BY <1>19 DEF MarkPhoto, Resting
<1>20. ASSUME NEW from \in Planned, NEW to \in Planned, Walk(from, to) PROVE Arrived
  <2>1. tasks' = tasks \o Submits(phase', resuming, target, params) /\ params' = params
    BY <1>20 DEF Walk, Show, planVars, Move
  <2>2. ~resuming /\ target = NoStep
    BY <1>20 DEF Walk, PhaseInv, Resting, Move
  <2> QED BY <1>0, <2>1, <2>2, Shows
<1>21. CASE StartCommit
  BY <1>21 DEF StartCommit, Resting
<1>22. CASE CommitDone
  BY <1>22 DEF CommitDone, Resting
<1>23. CASE CancelCommit
  <2>1. tasks' = tasks \o Submits(phase', resuming, target, params) /\ params' = params
    BY <1>23 DEF CancelCommit, CancelCall, Show, planVars
  <2>2. ~resuming /\ target = NoStep
    BY <1>23 DEF CancelCommit, CancelCall, PhaseInv, Resting
  <2> QED BY <1>0, <2>1, <2>2, Shows
<1>24. CASE Fail
  BY <1>24 DEF Fail, Resting
<1>25. CASE GoBackFromError
  <2>1. CASE batchMode /\ batches # {}
    <3>1. tasks' = tasks \o Submits(phase', resuming, target, params) /\ params' = params
      BY <1>25, <2>1 DEF GoBackFromError, Show
    <3>2. phase = "failed"
      BY <1>25 DEF GoBackFromError
    <3>3. ~resuming /\ target = NoStep
      BY <2>1, <3>2 DEF PhaseInv
    <3> QED BY <1>0, <3>1, <3>3, Shows
  <2>2. CASE ~(batchMode /\ batches # {})
    <3>1. tasks' = tasks \o Submits(phase', FALSE, NoStep, params) /\ params' = params
      BY <1>25, <2>2 DEF GoBackFromError
    <3> QED BY <1>0, <3>1, Shows
  <2> QED BY <2>1, <2>2
<1>26. CASE RecordStep
  BY <1>26 DEF RecordStep, Resting
<1>27. CASE RecordLate
  BY <1>27 DEF RecordLate, Resting
<1>28. CASE RunTask
  BY <1>28 DEF RunTask, Resting
<1>29. CASE Exit
  BY <1>29 DEF Exit, Resting
<1>30. CASE Launch
  BY <1>30 DEF Launch, Resting
<1>31. CASE Crash
  BY <1>31 DEF Crash, Resting
<1>33. CASE ResumeCutShort
  <2>1. tasks' = tasks \o Submits(phase', FALSE, target, params) /\ params' = params
    BY <1>33 DEF ResumeCutShort, planVars
  <2>2. target = NoStep
    BY <1>33 DEF ResumeCutShort, PhaseInv, Early
  <2> QED BY <1>0, <2>1, <2>2, Shows
<1>34. CASE TaskFails
  BY <1>34 DEF TaskFails, Resting
<1>32. CASE UNCHANGED vars
  BY <1>32 DEF vars
<1> QED
  BY <1>1, <1>2, <1>3, <1>4, <1>5, <1>6, <1>7, <1>8, <1>9, <1>10, <1>11, <1>12, <1>13, <1>14,
     <1>15, <1>16, <1>17, <1>18, <1>19, <1>20, <1>21, <1>22, <1>23, <1>24, <1>25, <1>26, <1>27,
     <1>28, <1>29, <1>30, <1>31, <1>32, <1>33, <1>34, Steps

\* Every step in order leaves the shown position on its way to the session.
LEMMA PositionStep ==
  ASSUME TypeInv, PlanInv, PhaseInv, [Next]_vars, TypeInv', PositionInv, ~disordered'
  PROVE  PositionInv'
<1> DEFINE Kept == \E g : MeantStep(g, stored', missed') /\ Recorded(tasks', g, StepOf(phase'))
<1> SUFFICES ASSUME phase' \in Resting PROVE Kept
  BY DEF PositionInv
<1>1. /\ tasks \in Seq(Tasks) /\ Unheard(tasks) \in Seq(Tasks) /\ stored \in Sessions
      /\ MeantStep(stored', stored', missed')
  BY UnheardQueue DEF TypeInv, PoolTypes, MeantStep
<1>2. CASE phase' # phase
  <2>1. PICK q \in {tasks, Unheard(tasks)} : tasks' = Append(q, Position(phase', params'))
    BY <1>2, ArrivalIsSaved
  <2>2. params' \in Params
    BY DEF TypeInv, ControlTypes
  <2>3. /\ Position(phase', params') \in Tasks /\ Position(phase', params').kind = "position"
        /\ Position(phase', params').step = StepOf(phase')
    BY <2>2, SavesAreTasks
  <2> QED BY <1>1, <2>1, <2>3, RecordedPosition
<1>3. CASE phase' = phase
  <2>1. PICK g : MeantStep(g, stored, missed) /\ Recorded(tasks, g, StepOf(phase))
    BY <1>3 DEF PositionInv
  <2>2. ASSUME NEW e, Editing(e) PROVE Kept
    <3>1. tasks' = tasks \o <<EditsTask(Encode(clustering, e)), Position(phase, params)>>
      BY <2>2 DEF Editing, Edited
    <3>2. /\ Position(phase, params) \in Tasks /\ Position(phase, params).kind = "position"
          /\ Position(phase, params).step = StepOf(phase)
      BY SavesAreTasks DEF TypeInv, ControlTypes
    <3>3. EditsTask(Encode(clustering, e)) \in Tasks
      BY <2>2, PlanIsSound, EncodeType, SavesAreTasks DEF Editing
    <3>4. tasks' = Append(Append(tasks, EditsTask(Encode(clustering, e))), Position(phase, params))
      BY <1>1, <3>1, <3>2, <3>3, TwoSaves
    <3>5. Append(tasks, EditsTask(Encode(clustering, e))) \in Seq(Tasks)
      BY <1>1, <3>3
    <3> QED BY <1>1, <1>3, <3>2, <3>4, <3>5, RecordedPosition
  <2>3. ASSUME NEW p \in index, MarkPhoto(p) PROVE Kept
    <3>1. tasks' = tasks /\ stored'.step = stored.step /\ missed' = missed
      BY <1>1, <2>3 DEF MarkPhoto, poolVars, historyVars, Sessions
    <3> QED BY <1>3, <2>1, <3>1 DEF MeantStep
  <2>4. CASE RunTask
    <3>1. /\ tasks # <<>> /\ tasks' = Tail(tasks) /\ Head(tasks) \in Tasks
          /\ stored' = Effect(Head(tasks), stored) /\ missed' = missed \ {Head(tasks).kind}
      BY <1>1, <2>4, FirstRuns
    <3>2. Recorded(tasks', Effect(Head(tasks), g), StepOf(phase'))
      BY <1>1, <1>3, <2>1, <3>1, RecordedPop DEF MeantStep
    <3>3. MeantStep(Effect(Head(tasks), g), stored', missed')
      BY <1>1, <2>1, <3>1, EffectParts DEF MeantStep
    <3> QED BY <3>2, <3>3
  <2>5. CASE RecordStep
    BY <1>3, <2>5 DEF RecordStep, PhaseInv, Resting
  <2>6. CASE RecordLate
    BY <1>3, <2>1, <2>6 DEF RecordLate, poolVars
  <2>7. CASE UNCHANGED vars
    BY <2>1, <2>7 DEF vars, poolVars, historyVars
  <2>8. ASSUME NEW from \in Planned, NEW to \in Planned, Walk(from, to) PROVE FALSE
    BY <1>3, <2>8 DEF Walk, Move, Show
  <2>9. CASE BackFromTrips
    BY <1>3, <2>9 DEF BackFromTrips, Show, TypeInv, ControlTypes
  <2>10. CASE Fail \/ Exit \/ Crash \/ Launch \/ GoBackFromError
    BY <1>3, <2>10 DEF Fail, Exit, Crash, Launch, GoBackFromError, Resting
  <2>11. CASE SelectFolder \/ Probed \/ StartFresh \/ ResumeSession \/ ScanDone
              \/ ResumeScanDone \/ CancelScan \/ BackFromConfirm \/ ResetToStart
              \/ ResultsApplied \/ ResumeCutShort
    BY <1>3, <2>11 DEF ResumeCutShort, SelectFolder, Probed, StartFresh, ResumeSession, ScanDone,
         ResumeScanDone, CancelScan, BackFromConfirm, ResetToStart, ResultsApplied, Resting
  <2>12. CASE ContinueFromConfirm \/ TripsDone \/ CancelTrips \/ RerunTrips
              \/ ContinueFromTrips \/ ReopenOrganize \/ StartCommit \/ CommitDone
              \/ CancelCommit
    BY <1>3, <2>12 DEF ContinueFromConfirm, StartTrips, TripsDone, CancelTrips, CancelCall,
                       RerunTrips,
         ContinueFromTrips, ReopenOrganize, StartCommit, CommitDone, CancelCommit, Show, Resting
  <2>13. CASE TaskFails
    <3>1. /\ tasks # <<>> /\ tasks' = Tail(tasks) /\ Head(tasks) \in Tasks
          /\ stored' = stored /\ missed' = missed \cup ({Head(tasks).kind} \cap Parts)
      BY <1>1, <2>13, FirstFails
    <3>2. Recorded(tasks', Effect(Head(tasks), g), StepOf(phase'))
      BY <1>1, <1>3, <2>1, <3>1, RecordedPop DEF MeantStep
    <3>3. MeantStep(Effect(Head(tasks), g), stored', missed')
      BY <1>1, <2>1, <3>1, EffectParts DEF MeantStep, Parts
    <3> QED BY <3>2, <3>3
  <2> QED
    BY <2>2, <2>3, <2>4, <2>5, <2>6, <2>7, <2>8, <2>9, <2>10, <2>11, <2>12, <2>13, Steps
<1> QED BY <1>2, <1>3

\* At either end of the queue.
LEMMA MatchEnds ==
  ASSUME NEW q \in Seq(Tasks), NEW s, NEW at, NEW text, Matches(q, s, at, text)
  PROVE  Says(text, at) /\ Says(s.edits, s.params)
<1>1. PICK f, g : /\ Follows(q, s, f, g)
                  /\ \A k \in 0 .. Len(q) : Says(g[k], f[k])
                  /\ f[Len(q)] = at /\ g[Len(q)] = text
  BY DEF Matches
<1>2. 0 \in 0 .. Len(q) /\ Len(q) \in 0 .. Len(q)
  OBVIOUS
<1>3. Says(g[0], f[0]) /\ Says(g[Len(q)], f[Len(q)])
  BY <1>1, <1>2
<1> QED BY <1>1, <1>3 DEF Follows

\* A question saves nothing.
LEMMA MatchQuestion ==
  ASSUME NEW q \in Seq(Tasks), NEW s, NEW at, NEW text, Matches(q, s, at, text),
         NEW k \in Questions
  PROVE  Matches(Append(q, [kind |-> k]), s, at, text)
<1>1. [kind |-> k] \in Tasks
  BY SavesAreTasks
<1>2. LastAt([kind |-> k], at) = at /\ LastText([kind |-> k], text) = text
  BY DEF LastAt, LastText, Questions
<1>3. Says(text, at)
  BY MatchEnds
<1> QED BY <1>1, <1>2, <1>3, MatchAppend

\* A screen that is reached saves the settings.
LEMMA MatchPosition ==
  ASSUME NEW q \in Seq(Tasks), NEW s, NEW at, NEW text, Matches(q, s, at, text),
         NEW p, NEW now \in Params, Says(text, now)
  PROVE  Matches(Append(q, Position(p, now)), s, now, text)
<1>1. /\ Position(p, now) \in Tasks /\ Position(p, now).kind = "position"
      /\ Position(p, now).params = now
  BY SavesAreTasks
<1>2. LastAt(Position(p, now), at) = now /\ LastText(Position(p, now), text) = text
  BY <1>1 DEF LastAt, LastText
<1> QED BY <1>1, <1>2, MatchAppend

\* Edits at the end of the queue are the ones that end up saved.
LEMMA MatchEdits ==
  ASSUME NEW q \in Seq(Tasks), NEW s, NEW at, NEW text, Matches(q, s, at, text),
         NEW x \in Texts, Says(x, at)
  PROVE  Matches(Append(q, EditsTask(x)), s, at, x)
<1>1. EditsTask(x) \in Tasks /\ EditsTask(x).kind = "edits" /\ EditsTask(x).text = x
  BY SavesAreTasks
<1>2. LastAt(EditsTask(x), at) = at /\ LastText(EditsTask(x), text) = x
  BY <1>1 DEF LastAt, LastText
<1> QED BY <1>1, <1>2, MatchAppend

\* What there is to say at a resting screen that was just reached.
LEMMA Arrival ==
  ASSUME TypeInv, PlanInv, PhaseInv, [Next]_vars, TypeInv',
         phase' \in Resting, phase' # phase,
         NEW g, NEW at, NEW text, Meant(g, stored', missed'), Matches(tasks, g, at, text),
         Says(text, params'),
         Saved' => text = Encode(clustering', edits')
  PROVE  EditsInv'
<1>1. PICK q \in {tasks, Unheard(tasks)} : tasks' = Append(q, Position(phase', params'))
  BY ArrivalIsSaved
<1>2. tasks \in Seq(Tasks) /\ Unheard(tasks) \in Seq(Tasks) /\ params' \in Params
  BY UnheardQueue DEF TypeInv, ControlTypes, PoolTypes
<1>3. Matches(q, g, at, text)
  BY <1>2, MatchUnheard
<1>4. Matches(tasks', g, params', text)
  BY <1>1, <1>2, <1>3, MatchPosition
<1> QED BY <1>4 DEF EditsInv

\* Where there is nothing to keep.
LEMMA EarlyEdits ==
  ASSUME NEW g, NEW at, NEW text, Meant(g, stored', missed'), Matches(tasks', g, at, text),
         phase' \in Early
  PROVE  EditsInv'
<1>1. ~Lasting' /\ ~Saved' /\ phase' \notin Resting
  BY DEF Lasting, Saved, Early, Planned, Resting
<1> QED BY <1>1 DEF EditsInv

\* With an empty queue what was meant has to be readable itself.
LEMMA EmptyQueue ==
  ASSUME tasks' = <<>>, NEW g, Meant(g, stored', missed'), Says(g.edits, g.params),
         phase' \in Early
  PROVE  EditsInv'
<1>1. Matches(tasks', g, g.params, g.edits)
  BY MatchNone
<1> QED BY <1>1, EarlyEdits

\* A text without edits can be read with any sliders.
LEMMA SaysNothing == \A at : Says(NoText, at)
<1>1. TRUE \in BOOLEAN
  OBVIOUS
<1> QED BY <1>1, BlankSays

\* What the session and the queue say of the edits.
LEMMA EditsStep ==
  ASSUME TypeInv, PlanInv, PhaseInv, QuestionInv, [Next]_vars, TypeInv',
         AskedLast, EditsInv, ~disordered'
  PROVE  EditsInv'
<1> USE DEF historyVars
<1>0. PICK g, at, text : /\ Meant(g, stored, missed) /\ Matches(tasks, g, at, text)
                         /\ phase \in Resting => at = params
                         /\ Lasting => Says(text, params)
                         /\ Saved => text = Encode(clustering, edits)
  BY DEF EditsInv
<1>queue. /\ tasks \in Seq(Tasks) /\ Unheard(tasks) \in Seq(Tasks) /\ g \in Sessions
          /\ Matches(Unheard(tasks), g, at, text)
  BY <1>0, UnheardQueue, MatchUnheard DEF TypeInv, PoolTypes, Meant
<1>says. Says(text, at) /\ Says(g.edits, g.params)
  BY <1>0, <1>queue, MatchEnds
<1>fresh. /\ Says(Fresh(stored.has, params).edits, Fresh(stored.has, params).params)
          /\ Meant(stored', stored', missed')
  BY SaysNothing DEF Fresh, Meant, TypeInv, PoolTypes
<1>meant. ASSUME stored'.params = stored.params, stored'.edits = stored.edits, missed' = missed
          PROVE  Meant(g, stored', missed')
  BY <1>0, <1>meant DEF Meant
<1>1. CASE SelectFolder
  <2>1. tasks' = Append(Unheard(tasks), [kind |-> "probe"])
        /\ phase' = "start" /\ stored' = stored /\ missed' = missed
    BY <1>1 DEF SelectFolder
  <2>2. Matches(tasks', g, at, text)
    BY <1>0, <1>queue, <2>1, MatchQuestion DEF Questions
  <2> QED BY <1>meant, <2>1, <2>2, EarlyEdits DEF Early
<1>2. CASE Probed
  <2>1. tasks' = <<>>
    BY <1>2 DEF Probed, AskedLast, NoAnswer
  <2>2. (stored' = stored /\ missed' = missed) \/ stored' = Fresh(stored.has, params)
    BY <1>2 DEF Probed, BeginFresh
  <2>3. phase' \in Early
    BY <1>2 DEF Probed, BeginFresh, Early
  <2> QED BY <1>says, <1>fresh, <1>meant, <2>1, <2>2, <2>3, EmptyQueue
<1>3. CASE StartFresh
  <2>1. tasks' = <<>> /\ stored' = Fresh(stored.has, params)
    BY <1>3 DEF StartFresh, BeginFresh, AskedLast
  <2>2. phase' \in Early
    BY <1>3 DEF StartFresh, BeginFresh, Early
  <2> QED BY <1>fresh, <2>1, <2>2, EmptyQueue
<1>4. CASE ResumeSession
  <2>1. tasks' = tasks /\ stored' = stored /\ missed' = missed /\ phase' \in Early
    BY <1>4 DEF ResumeSession, Early
  <2> QED BY <1>0, <1>meant, <2>1, EarlyEdits
<1>5. CASE ScanDone
  <2>1. tasks = <<>> /\ stored.edits = NoText
    BY <1>5 DEF ScanDone, AskedLast
  <2>2. stored'.edits = NoText /\ stored'.params = stored.params /\ params' = params
    BY <1>5, <2>1 DEF ScanDone, TypeInv, PoolTypes, Sessions, planVars
  <2>3. Matches(<<>>, stored', stored'.params, NoText)
    BY <2>2, SaysNothing, MatchNone
  <2>4. CASE phase' = "confirm"
    <3>1. ~Saved' /\ phase' \in Resting /\ phase' # phase
      BY <1>5, <2>4 DEF ScanDone, Saved, Planned, Resting
    <3> QED BY <1>fresh, <2>1, <2>3, <3>1, SaysNothing, Arrival
  <2>5. CASE phase' # "confirm"
    <3>1. phase' = "noImages" /\ tasks' = tasks \o Submits("noImages", resuming, target, params)
      BY <1>5, <2>5 DEF ScanDone, Show
    <3>2. tasks' = <<>>
      BY <2>1, <3>1 DEF Submits, Resting
    <3> QED BY <1>fresh, <2>2, <3>1, <3>2, SaysNothing, EmptyQueue DEF Early
  <2> QED BY <2>4, <2>5
<1>6. CASE ResumeScanDone
  <2>1. /\ tasks' = Append(tasks, [kind |-> "results"]) /\ phase' = "scanning"
        /\ stored' = stored /\ missed' = missed
    BY <1>6 DEF ResumeScanDone
  <2>2. Matches(tasks', g, at, text)
    BY <1>0, <1>queue, <2>1, MatchQuestion DEF Questions
  <2> QED BY <1>meant, <2>1, <2>2, EarlyEdits DEF Early
<1>7. CASE CancelScan
  <2>1. tasks' = Unheard(tasks) /\ stored' = stored /\ missed' = missed /\ phase' \in Early
    BY <1>7 DEF CancelScan, Early
  <2> QED BY <1>0, <1>meant, <1>queue, <2>1, EarlyEdits
<1>8. CASE BackFromConfirm
  <2>1. tasks' = Unheard(tasks) /\ stored' = stored /\ missed' = missed /\ phase' \in Early
    BY <1>8 DEF BackFromConfirm, Early
  <2> QED BY <1>0, <1>meant, <1>queue, <2>1, EarlyEdits
<1>9. CASE ResetToStart
  <2>1. tasks' = Unheard(tasks) /\ stored' = stored /\ missed' = missed /\ phase' \in Early
    BY <1>9 DEF ResetToStart, Early
  <2> QED BY <1>0, <1>meant, <1>queue, <2>1, EarlyEdits
<1>10. CASE ResultsApplied
  <2> DEFINE h == [stored EXCEPT !.edits = IF missed = {} THEN stored.edits ELSE NoText]
  <2>1. tasks = <<>> /\ answer.is = stored
    BY <1>10 DEF ResultsApplied, AskedLast, NoAnswer
  <2>2. /\ stored' = stored /\ params' = stored.params /\ phase = "scanning"
        /\ missed' = IF missed = {} THEN {} ELSE Parts
    BY <1>10, <2>1 DEF ResultsApplied, StartTrips
  <2>3. /\ h \in Sessions /\ h.params = stored.params
        /\ h.edits = IF missed = {} THEN stored.edits ELSE NoText
    BY NoEditsType DEF TypeInv, PoolTypes, Sessions
  <2> HIDE DEF h
  <2>4. Meant(h, stored', missed')
    BY <2>2, <2>3 DEF Meant, Parts
  <2>5. Says(h.edits, params')
    BY <1>0, <1>says, <2>2, <2>3, SaysNothing DEF Meant
  <2>6. Matches(<<>>, h, h.params, h.edits)
    BY <2>2, <2>3, <2>5, MatchNone
  <2>7. CASE phase' = "confirm"
    <3>1. ~Saved' /\ phase' \in Resting /\ phase' # phase
      BY <2>2, <2>7 DEF Saved, Planned, Resting
    <3> QED BY <2>1, <2>4, <2>5, <2>6, <3>1, Arrival
  <2>8. CASE phase' # "confirm"
    <3>1. answer.is.edits # NoPending
      BY <1>10, ParsedAnswer DEF ResultsApplied
    <3>2. tasks' = Unheard(tasks) /\ phase' = "tripsRunning" /\ pending' # NoPending
      BY <1>10, <2>8, <3>1 DEF ResultsApplied, StartTrips
    <3>3. tasks' = <<>>
      BY <1>queue, <2>1, <3>2, UnheardQueue
    <3>4. ~Saved' /\ phase' \notin Resting
      BY <3>2 DEF Saved, Planned, Resting
    <3> QED BY <2>4, <2>5, <2>6, <3>3, <3>4 DEF EditsInv
  <2> QED BY <2>7, <2>8
<1>11. CASE ContinueFromConfirm
  <2> DEFINE blank == Encode({}, NoEdits(edits.organize))
  <2>1. pending = NoPending
    BY <1>11 DEF ContinueFromConfirm, PhaseInv
  <2>2. /\ tasks' = Append(Unheard(tasks), EditsTask(blank)) /\ phase' = "tripsRunning"
        /\ stored' = stored /\ missed' = missed
        /\ clustering' = {} /\ edits' = NoEdits(edits.organize)
    BY <1>11, <2>1 DEF ContinueFromConfirm, StartTrips
  <2>3. blank \in Texts /\ Says(blank, at) /\ Says(blank, params')
    BY StartText, Typed, BlankSays
  <2>4. Matches(tasks', g, at, blank)
    BY <1>0, <1>queue, <2>2, <2>3, MatchEdits
  <2>5. phase' \notin Resting /\ blank = Encode(clustering', edits')
    BY <2>2 DEF Resting
  <2> HIDE DEF blank
  <2> QED BY <1>meant, <2>2, <2>3, <2>4, <2>5 DEF EditsInv
<1>12. CASE TripsDone
  <2> DEFINE x == Encode(clustering', edits')
             h == [g EXCEPT !.params = params, !.edits = x]
  <2>1. /\ phase' \in {"summary", "menu", "tripsReview"} /\ phase = "tripsRunning"
        /\ params' = params /\ stored' = stored /\ clustering' \in Came(Cluster[params])
        /\ index' = index /\ phase' \in Resting /\ phase' # phase
    BY <1>12 DEF TripsDone, Show, Resting
  <2>2. Says(text, params)
    BY <1>0, <2>1 DEF Lasting, Early
  <2>3. params \in Params /\ edits' \in EditRecords /\ IsClustering(clustering')
        /\ Fitting(clustering', edits')
    BY <2>1, PlanStep, CameFacts DEF TypeInv, ControlTypes, PlanTypes, PlanInv
  <2>4. x \in Texts /\ Says(x, params)
    BY <2>1, <2>3, ScreenSays, EncodeType
  <2>5. CASE pending = NoPending
    <3>1. text = Encode(clustering, edits) /\ edits' = edits /\ edits = NoEdits(edits.organize)
          /\ missed' = missed
      BY <1>12, <1>0, <2>1, <2>5 DEF Saved, TripsDone, PhaseInv
    <3>2. text = x
      BY <3>1, Typed, BlankText
    <3> QED BY <1>0, <1>meant, <2>1, <2>2, <3>1, <3>2, Arrival
  <2>6. CASE pending # NoPending
    <3>1. /\ tasks = <<>> /\ edits = NoEdits(TRUE) /\ index = Photos
          /\ pending = stored.edits /\ params = stored.params
      BY <2>1, <2>6 DEF AskedLast
    <3>2. h \in Sessions /\ h.params = params /\ h.edits = x
      BY <1>queue, <2>3, <2>4 DEF Sessions
    <3>3. "edits" \notin missed' => x = stored.edits
      <4> SUFFICES ASSUME "edits" \notin missed' PROVE x = pending
        BY <3>1
      <4>1. clustering' = Cluster[params] /\ missed' = missed
        BY <1>12, <2>6 DEF TripsDone
      <4>2. text = pending
        BY <1>0, <3>1, <4>1, MatchNone DEF Meant
      <4>3. CASE pending = NoText
        <5>1. edits' = NoEdits(TRUE)
          BY <1>12, <3>1, <4>3 DEF TripsDone
        <5> QED BY <4>3, <5>1, BlankText
      <4>4. CASE pending # NoText
        <5>1. edits' = ApplyEdits(pending, Cluster[params], Photos)
          BY <1>12, <2>6, <3>1, <4>1, <4>4 DEF TripsDone
        <5>2. pending \in Texts
          BY <2>6 DEF TypeInv, PlanTypes
        <5> QED BY <2>2, <2>3, <4>1, <4>2, <4>4, <5>1, <5>2, SaysAgain
      <4> QED BY <4>3, <4>4
    <3> HIDE DEF h, x
    <3>4. Meant(h, stored', missed')
      BY <2>1, <3>1, <3>2, <3>3 DEF Meant
    <3>5. Matches(tasks, h, params, x)
      BY <2>4, <3>1, <3>2, MatchNone
    <3>6. Saved' => x = Encode(clustering', edits')
      BY DEF x
    <3> QED BY <2>1, <2>4, <3>4, <3>5, <3>6, Arrival
  <2> QED BY <2>5, <2>6
<1>13. CASE CancelTrips
  <2>1. /\ phase = "tripsRunning" /\ phase' = back /\ back \in {"confirm", "summary"}
        /\ UNCHANGED <<params, clustering, edits, index, stored, missed>>
    BY <1>13 DEF CancelTrips, CancelCall, planVars, TypeInv, ControlTypes, PhaseInv
  <2>2. Says(text, params')
    BY <1>0, <2>1 DEF Lasting, Early
  <2>3. Saved' => text = Encode(clustering', edits')
    <3>1. CASE back = "confirm"
      BY <2>1, <3>1 DEF Saved, Planned
    <3>2. CASE back # "confirm"
      BY <1>0, <2>1, <3>2 DEF Saved, PhaseInv
    <3> QED BY <3>1, <3>2
  <2>4. phase' \in Resting /\ phase' # phase
    BY <2>1 DEF Resting
  <2> QED BY <1>0, <1>meant, <2>1, <2>2, <2>3, <2>4, Arrival
<1>14. CASE BackFromTrips
  <2>1. /\ phase \in Planned /\ phase' \in Resting /\ phase' # phase
        /\ UNCHANGED <<params, clustering, edits, index, stored, missed>>
    BY <1>14 DEF BackFromTrips, Show, planVars, TypeInv, ControlTypes, PhaseInv, Planned, Resting
  <2>2. Says(text, params')
    BY <1>0, <2>1 DEF Lasting, Early, Planned
  <2>3. Saved' => text = Encode(clustering', edits')
    BY <1>0, <2>1 DEF Saved, Planned, Resting
  <2> QED BY <1>0, <1>meant, <2>1, <2>2, <2>3, Arrival
<1>15. CASE RerunTrips
  <2> DEFINE blank == Encode({}, NoEdits(edits.organize))
  <2>1. pending = NoPending
    BY <1>15 DEF RerunTrips, PhaseInv
  <2>2. /\ tasks' = Append(Unheard(tasks), EditsTask(blank)) /\ phase' = "tripsRunning"
        /\ stored' = stored /\ missed' = missed
        /\ clustering' = {} /\ edits' = NoEdits(edits.organize)
    BY <1>15, <2>1 DEF RerunTrips, StartTrips
  <2>3. blank \in Texts /\ Says(blank, at) /\ Says(blank, params')
    BY StartText, Typed, BlankSays
  <2>4. Matches(tasks', g, at, blank)
    BY <1>0, <1>queue, <2>2, <2>3, MatchEdits
  <2>5. phase' \notin Resting /\ blank = Encode(clustering', edits')
    BY <2>2 DEF Resting
  <2> HIDE DEF blank
  <2> QED BY <1>meant, <2>2, <2>3, <2>4, <2>5 DEF EditsInv
<1>16. ASSUME NEW e, Editing(e) PROVE EditsInv'
  <2> DEFINE x == Encode(clustering, e)
  <2>1. /\ tasks' = tasks \o <<EditsTask(x), Position(phase, params)>>
        /\ phase = "tripsReview" /\ edits' = e
        /\ UNCHANGED <<phase, params, clustering, index, stored, missed>>
    BY <1>16 DEF Editing, Edited
  <2>2. params \in Params /\ clustering \in Came(Cluster[params]) /\ e \in EditRecords
        /\ Fitting(clustering, e)
    BY <1>16 DEF Editing, PlanInv, TypeInv, ControlTypes
  <2>3. at = params /\ Says(x, params) /\ x \in Texts
    <3>1. at = params
      BY <1>0, <2>1 DEF Resting
    <3> QED BY <2>2, <3>1, ScreenSays, PlanIsSound, EncodeType
  <2>4. EditsTask(x) \in Tasks /\ Position(phase, params) \in Tasks
    BY <2>2, <2>3, SavesAreTasks
  <2>5. /\ tasks' = Append(Append(tasks, EditsTask(x)), Position(phase, params))
        /\ Append(tasks, EditsTask(x)) \in Seq(Tasks)
    BY <1>queue, <2>1, <2>4, TwoSaves
  <2>6. Matches(Append(tasks, EditsTask(x)), g, at, x)
    BY <1>0, <1>queue, <2>3, MatchEdits
  <2>7. Matches(tasks', g, params', x)
    BY <2>1, <2>2, <2>3, <2>5, <2>6, MatchPosition
  <2>8. x = Encode(clustering', edits') /\ Says(x, params')
    BY <2>1, <2>3
  <2> HIDE DEF x
  <2> QED BY <1>meant, <2>1, <2>7, <2>8 DEF EditsInv
<1>17. CASE ContinueFromTrips
  <2>1. /\ phase \in Planned /\ phase' \in Resting /\ phase' # phase
        /\ UNCHANGED <<params, clustering, edits, index, stored, missed>>
    BY <1>17
    DEF ContinueFromTrips, Show, planVars, TypeInv, ControlTypes, PhaseInv, Planned, Resting
  <2>2. Says(text, params')
    BY <1>0, <2>1 DEF Lasting, Early, Planned
  <2>3. Saved' => text = Encode(clustering', edits')
    BY <1>0, <2>1 DEF Saved, Planned, Resting
  <2> QED BY <1>0, <1>meant, <2>1, <2>2, <2>3, Arrival
<1>18. CASE ReopenOrganize
  <2>1. /\ phase \in Planned /\ phase' \in Resting /\ phase' # phase
        /\ UNCHANGED <<params, clustering, edits, index, stored, missed>>
    BY <1>18 DEF ReopenOrganize, Show, planVars, TypeInv, ControlTypes, PhaseInv, Planned, Resting
  <2>2. Says(text, params')
    BY <1>0, <2>1 DEF Lasting, Early, Planned
  <2>3. Saved' => text = Encode(clustering', edits')
    BY <1>0, <2>1 DEF Saved, Planned, Resting
  <2> QED BY <1>0, <1>meant, <2>1, <2>2, <2>3, Arrival
<1>19. ASSUME NEW p \in index, MarkPhoto(p) PROVE EditsInv'
  <2>1. /\ stored'.edits = stored.edits /\ stored'.params = stored.params /\ tasks' = tasks
        /\ missed' = missed
        /\ UNCHANGED <<phase, back, index, batchMode, params, clustering, edits, pending>>
    BY <1>19 DEF MarkPhoto, planVars, batchVars, resumeVars, poolVars, TypeInv, PoolTypes, Sessions
  <2>2. Matches(tasks', g, at, text)
    BY <1>0, <2>1
  <2> QED BY <1>0, <1>meant, <2>1, <2>2 DEF EditsInv, Lasting, Saved
<1>20. ASSUME NEW from \in Planned, NEW to \in Planned, Walk(from, to) PROVE EditsInv'
  <2>1. /\ phase \in Planned /\ phase' \in Resting /\ phase' # phase
        /\ UNCHANGED <<params, clustering, edits, index, stored, missed>>
    BY <1>20 DEF Walk, Show, planVars, TypeInv, ControlTypes, PhaseInv, Planned, Resting, Move
  <2>2. Says(text, params')
    BY <1>0, <2>1 DEF Lasting, Early, Planned
  <2>3. Saved' => text = Encode(clustering', edits')
    BY <1>0, <2>1 DEF Saved, Planned, Resting
  <2> QED BY <1>0, <1>meant, <2>1, <2>2, <2>3, Arrival
<1>21. CASE StartCommit
  <2>1. /\ phase = "summary" /\ phase' = "committing" /\ back' = "summary"
        /\ UNCHANGED <<index, params, clustering, edits, tasks, stored, missed>>
    BY <1>21 DEF StartCommit, planVars, poolVars
  <2>2. phase' \notin Resting /\ Lasting /\ (Saved' => Saved)
    BY <2>1 DEF Resting, Lasting, Saved, Early, Planned
  <2> QED BY <1>0, <1>meant, <2>1, <2>2 DEF EditsInv
<1>22. CASE CommitDone
  <2>1. /\ phase = "committing" /\ phase' = "done"
        /\ UNCHANGED <<index, params, clustering, edits, tasks, stored, missed>>
    BY <1>22 DEF CommitDone, planVars, poolVars
  <2>2. phase' \notin Resting /\ Lasting /\ ~Saved'
    BY <2>1 DEF Resting, Lasting, Saved, Early, Planned
  <2> QED BY <1>0, <1>meant, <2>1, <2>2 DEF EditsInv
<1>23. CASE CancelCommit
  <2>1. /\ phase \in Planned /\ phase' \in Resting /\ phase' # phase
        /\ UNCHANGED <<params, clustering, edits, index, stored, missed>>
    BY <1>23 DEF CancelCommit, CancelCall, Show, planVars, TypeInv, ControlTypes, PhaseInv,
                 Planned, Resting
  <2>2. Says(text, params')
    BY <1>0, <2>1 DEF Lasting, Early, Planned
  <2>3. Saved' => text = Encode(clustering', edits')
    BY <1>0, <2>1 DEF Saved, Planned, Resting
  <2> QED BY <1>0, <1>meant, <2>1, <2>2, <2>3, Arrival
<1>24. CASE Fail
  <2>1. /\ phase \in {"scanning", "tripsRunning", "committing"} /\ phase' = "failed"
        /\ tasks' = Unheard(tasks)
        /\ UNCHANGED <<back, index, params, clustering, edits, batchMode, stored, missed>>
    BY <1>24 DEF Fail, planVars, batchVars
  <2>2. phase' \notin Resting /\ (Lasting' => Lasting)
    BY <2>1 DEF Resting, Lasting, Early, PhaseInv
  <2>3. Saved' => Saved
    BY <2>1 DEF Saved, Planned, PhaseInv
  <2> QED BY <1>0, <1>meant, <1>queue, <2>1, <2>2, <2>3 DEF EditsInv
<1>25. CASE GoBackFromError
  <2>0. phase = "failed" /\ stored' = stored /\ missed' = missed /\ params' = params
    BY <1>25 DEF GoBackFromError
  <2>1. CASE batchMode /\ batches # {}
    <3>1. phase' = "menu" /\ UNCHANGED <<clustering, edits, index>>
      BY <1>25, <2>1 DEF GoBackFromError, Show
    <3>2. Lasting /\ (Saved' => Saved)
      BY <2>0, <2>1, <3>1 DEF Lasting, Saved, Early, Planned, PhaseInv
    <3>3. phase' \in Resting /\ phase' # phase
      BY <2>0, <3>1 DEF Resting
    <3> QED BY <1>0, <1>meant, <2>0, <3>1, <3>2, <3>3, Arrival
  <2>2. CASE ~(batchMode /\ batches # {})
    <3>1. phase' = back /\ index' = {} /\ ~batchMode'
          /\ tasks' = tasks \o Submits(back, FALSE, NoStep, params)
      BY <1>25, <2>2 DEF GoBackFromError, ClearResults
    <3>2. CASE back = "start"
      <4>1. tasks' = tasks
        BY <1>queue, <3>1, <3>2 DEF Submits, Resting
      <4> QED BY <1>0, <1>meant, <2>0, <3>1, <3>2, <4>1, EarlyEdits DEF Early
    <3>3. CASE back # "start"
      <4>1. phase' \in Resting /\ phase' # phase
        BY <2>0, <3>1, <3>3 DEF TypeInv, ControlTypes, Resting
      <4>2. Lasting /\ ~Saved'
        BY <2>0, <3>1, <3>3, <4>1 DEF Lasting, Saved, Early, Resting
      <4> QED BY <1>0, <1>meant, <2>0, <4>1, <4>2, Arrival
    <3> QED BY <3>2, <3>3
  <2> QED BY <2>1, <2>2
<1>26. CASE RecordStep
  <2>1. /\ stored'.edits = stored.edits /\ stored'.params = stored.params /\ tasks' = tasks
        /\ missed' = missed
        /\ UNCHANGED <<phase, back, index, batchMode, params, clustering, edits, pending>>
    BY <1>26 DEF RecordStep, planVars, batchVars, resumeVars, poolVars, TypeInv, PoolTypes, Sessions
  <2>2. Matches(tasks', g, at, text)
    BY <1>0, <2>1
  <2> QED BY <1>0, <1>meant, <2>1, <2>2 DEF EditsInv, Lasting, Saved
<1>27. CASE RecordLate
  <2>1. /\ stored' = stored /\ tasks' = tasks /\ missed' = missed
        /\ UNCHANGED <<phase, back, index, batchMode, params, clustering, edits, pending>>
    BY <1>27 DEF RecordLate, planVars, batchVars, resumeVars, poolVars
  <2> QED BY <1>0, <1>meant, <2>1 DEF EditsInv, Lasting, Saved
<1>28. CASE RunTask
  <2>1. /\ tasks # <<>> /\ tasks' = Tail(tasks) /\ stored' = Effect(Head(tasks), stored)
        /\ missed' = missed \ {Head(tasks).kind} /\ Head(tasks) \in Tasks
        /\ UNCHANGED <<phase, back, index, batchMode, params, clustering, edits, pending>>
    BY <1>28, <1>queue, FirstRuns DEF planVars, batchVars, resumeVars
  <2>2. Matches(tasks', Effect(Head(tasks), g), at, text)
    BY <1>0, <1>queue, <2>1, MatchPop
  <2>3. Meant(Effect(Head(tasks), g), stored', missed')
    BY <1>0, <1>queue, <2>1, EffectParts DEF Meant, LastAt, LastText, TypeInv, PoolTypes
  <2> QED BY <1>0, <2>1, <2>2, <2>3 DEF EditsInv, Lasting, Saved
<1>29. CASE Exit
  <2>1. tasks' = Unheard(tasks) /\ stored' = stored /\ missed' = missed /\ phase' \in Early
    BY <1>29 DEF Exit, Early
  <2> QED BY <1>0, <1>meant, <1>queue, <2>1, EarlyEdits
<1>30. CASE Launch
  <2>1. tasks' = tasks /\ stored' = stored /\ missed' = missed /\ phase' \in Early
    BY <1>30 DEF Launch, poolVars, Early
  <2> QED BY <1>0, <1>meant, <2>1, EarlyEdits
<1>31. CASE Crash
  <2>1. tasks' = <<>> /\ stored' = stored /\ missed' = missed /\ phase' \in Early
    BY <1>31 DEF Crash, Early
  <2> QED BY <1>says, <1>meant, <2>1, EmptyQueue
<1>33. CASE ResumeCutShort
  <2> DEFINE blank == [g EXCEPT !.edits = NoText]
  <2>1. tasks = <<>>
    <3>1. \A i \in DOMAIN tasks : FALSE
      BY <1>33 DEF ResumeCutShort, AskedLast
    <3>2. DOMAIN tasks = 1 .. Len(tasks) /\ Len(tasks) \in Nat
      BY <1>queue
    <3>3. Len(tasks) = 0
      BY <3>1, <3>2
    <3> QED BY <1>queue, <3>3
  <2>2. /\ stored' = stored /\ missed' = missed \cup {"edits"} /\ phase' = "confirm"
        /\ phase = "scanning"
    BY <1>33 DEF ResumeCutShort
  <2>3. blank \in Sessions /\ blank.edits = NoText /\ blank.params = g.params
    BY <1>queue, NoEditsType DEF Sessions
  <2> HIDE DEF blank
  <2>4. Meant(blank, stored', missed')
    BY <1>0, <2>2, <2>3 DEF Meant
  <2>5. Matches(tasks, blank, blank.params, NoText)
    BY <2>1, <2>3, SaysNothing, MatchNone
  <2>6. ~Saved' /\ phase' \in Resting /\ phase' # phase
    BY <2>2 DEF Saved, Planned, Resting
  <2> QED BY <2>4, <2>5, <2>6, SaysNothing, Arrival
<1>34. CASE TaskFails
  <2>1. /\ tasks # <<>> /\ tasks' = Tail(tasks) /\ stored' = stored
        /\ missed' = missed \cup ({Head(tasks).kind} \cap Parts) /\ Head(tasks) \in Tasks
        /\ UNCHANGED <<phase, back, index, batchMode, params, clustering, edits, pending>>
    BY <1>34, <1>queue, FirstFails DEF planVars, batchVars, resumeVars
  <2>2. Matches(tasks', Effect(Head(tasks), g), at, text)
    BY <1>0, <1>queue, <2>1, MatchPop
  <2>3. Meant(Effect(Head(tasks), g), stored', missed')
    BY <1>0, <1>queue, <2>1, EffectParts DEF Meant, LastAt, LastText, Parts
  <2> QED BY <1>0, <2>1, <2>2, <2>3 DEF EditsInv, Lasting, Saved
<1>32. CASE UNCHANGED vars
  BY <1>0, <1>32 DEF vars, planVars, batchVars, resumeVars, poolVars, EditsInv, Lasting, Saved
<1> QED
  BY <1>1, <1>2, <1>3, <1>4, <1>5, <1>6, <1>7, <1>8, <1>9, <1>10, <1>11, <1>12, <1>13, <1>14,
     <1>15, <1>16, <1>17, <1>18, <1>19, <1>20, <1>21, <1>22, <1>23, <1>24, <1>25, <1>26, <1>27,
     <1>28, <1>29, <1>30, <1>31, <1>32, <1>33, <1>34, Steps

------------------------------------------------------------------------------
(* Results.                                                                   *)

\* The wizard starts in the invariant.
LEMMA InitInv == Init => IInv
<1> SUFFICES ASSUME Init PROVE IInv
  OBVIOUS
<1>1. NoEdits(TRUE) \in EditRecords /\ NoText \in Texts /\ NoStep \in Int
  <2>1. TRUE \in BOOLEAN
    OBVIOUS
  <2>2. NoEdits(TRUE) \in EditRecords /\ NoText \in Texts
    BY ONLY <2>1, NoEditsType
  <2>3. NoStep \in Int
    BY DEF NoStep
  <2> QED BY <2>2, <2>3
<1>2. ControlTypes
  BY <1>1, ParamsAssumption DEF Init, ControlTypes, Phases, Early
<1>3. PlanTypes
  BY <1>1 DEF Init, PlanTypes
<1>4. PoolTypes
  <2>1. Fresh(FALSE, params) \in Sessions
    BY ParamsAssumption, FreshType DEF Init
  <2>2. tasks \in Seq(Tasks)
    BY DEF Init
  <2>3. stored \in Sessions
    BY <2>1 DEF Init
  <2>4. answer \in Answers
    BY DEF Init, Answers
  <2> QED BY <2>2, <2>3, <2>4 DEF PoolTypes
<1>5. PlanInv
  BY BlankText DEF Init, PlanInv, Came
<1>6. PhaseInv
  BY DEF Init, PhaseInv, Planned, Early
<1>7. QuestionInv /\ AskedLast
  BY DEF Init, QuestionInv, AskedLast, NoAnswer, NoQuestions
<1>8. PositionInv
  BY DEF Init, PositionInv, Resting
<1>9. EditsInv
  <2>1. tasks = <<>> /\ Says(stored.edits, stored.params)
    BY SaysNothing DEF Init, Fresh
  <2>2. Meant(stored, stored, missed) /\ Matches(tasks, stored, stored.params, stored.edits)
    BY <1>4, <2>1, MatchNone DEF Meant, PoolTypes
  <2>3. ~Lasting /\ ~Saved /\ phase \notin Resting
    BY DEF Init, Lasting, Saved, Early, Planned, Resting
  <2> QED BY <2>2, <2>3 DEF EditsInv
<1> QED BY <1>2, <1>3, <1>4, <1>5, <1>6, <1>7, <1>8, <1>9 DEF IInv, TypeInv, OrderedInv

\* Nothing puts writes back in order.
LEMMA OrderIsKept ==
  ASSUME TypeInv, PlanInv, [Next]_vars, disordered
  PROVE  disordered'
<1> USE DEF historyVars
<1>1. CASE SelectFolder
  BY <1>1
     DEF SelectFolder, ClearResults, LeaveCall
<1>2. CASE Probed
  BY <1>2
     DEF Probed, BeginFresh, batchVars, callVars, planVars
<1>3. CASE StartFresh
  BY <1>3
     DEF StartFresh, LeaveCall, BeginFresh
<1>4. CASE ResumeSession
  BY <1>4
     DEF ResumeSession, LeaveCall
<1>5. CASE ScanDone
  BY <1>5
     DEF ScanDone, Show, planVars, batchVars, resumeVars, callVars
<1>6. CASE ResumeScanDone
  BY <1>6
     DEF ResumeScanDone, planVars, batchVars, resumeVars, callVars
<1>7. CASE CancelScan
  BY <1>7
     DEF CancelScan, planVars, batchVars, callVars
<1>8. CASE BackFromConfirm
  BY <1>8
     DEF BackFromConfirm, ClearResults, LeaveCall
<1>9. CASE ResetToStart
  BY <1>9
     DEF ResetToStart, ClearResults, LeaveCall
<1>10. CASE ResultsApplied
  BY <1>10
     DEF ResultsApplied, StartTrips, batchVars
<1>11. CASE ContinueFromConfirm
  BY <1>11
     DEF ContinueFromConfirm, StartTrips, batchVars
<1>12. CASE TripsDone
  BY <1>12
     DEF TripsDone, Show, batchVars
<1>13. CASE CancelTrips
  BY <1>13
     DEF CancelTrips, CancelCall, LeaveCall, planVars, batchVars
<1>14. CASE BackFromTrips
  BY <1>14
     DEF BackFromTrips, Show, planVars, batchVars, resumeVars, callVars
<1>15. CASE RerunTrips
  BY <1>15
     DEF RerunTrips, StartTrips, batchVars
<1>16. ASSUME NEW e, Editing(e) PROVE disordered'
  BY <1>16
     DEF Editing, Edited, batchVars, resumeVars, callVars
<1>17. CASE ContinueFromTrips
  BY <1>17
     DEF ContinueFromTrips, Show, planVars, resumeVars, callVars
<1>18. CASE ReopenOrganize
  BY <1>18
     DEF ReopenOrganize, Show, planVars, resumeVars, callVars
<1>19. ASSUME NEW p \in index, MarkPhoto(p) PROVE disordered'
  BY <1>19
     DEF MarkPhoto, planVars, batchVars, resumeVars, callVars, poolVars
<1>20. ASSUME NEW from \in Planned, NEW to \in Planned, Walk(from, to) PROVE disordered'
  BY <1>20
     DEF Walk, Move, Show, planVars, batchVars, resumeVars, callVars
<1>21. CASE StartCommit
  BY <1>21
     DEF StartCommit, planVars, batchVars, resumeVars, poolVars
<1>22. CASE CommitDone
  BY <1>22
     DEF CommitDone, planVars, batchVars, resumeVars, poolVars
<1>23. CASE CancelCommit
  BY <1>23
     DEF CancelCommit, CancelCall, LeaveCall, Show, planVars, batchVars, resumeVars
<1>24. CASE Fail
  BY <1>24
     DEF Fail, planVars, batchVars
<1>25. CASE GoBackFromError
  BY <1>25
     DEF GoBackFromError, ClearResults, LeaveCall, Show, batchVars, resumeVars
<1>26. CASE RecordStep
  BY <1>26
     DEF RecordStep, planVars, batchVars, resumeVars, poolVars
<1>27. CASE RecordLate
  BY <1>27
     DEF RecordLate, planVars, batchVars, resumeVars, poolVars
<1>28. CASE RunTask
  BY <1>28
     DEF RunTask, planVars, batchVars, resumeVars, callVars
<1>29. CASE Exit
  BY <1>29
     DEF Exit, Forget
<1>30. CASE Launch
  BY <1>30
     DEF Launch, planVars, batchVars, resumeVars, callVars, poolVars
<1>31. CASE Crash
  BY <1>31
     DEF Crash, Forget
<1>33. CASE ResumeCutShort
  BY <1>33 DEF ResumeCutShort
<1>34. CASE TaskFails
  BY <1>34 DEF TaskFails
<1>32. CASE UNCHANGED vars
  BY <1>32
     DEF vars, planVars, batchVars, resumeVars, callVars, poolVars
<1> QED
  BY <1>1, <1>2, <1>3, <1>4, <1>5, <1>6, <1>7, <1>8, <1>9, <1>10, <1>11, <1>12, <1>13, <1>14,
     <1>15, <1>16, <1>17, <1>18, <1>19, <1>20, <1>21, <1>22, <1>23, <1>24, <1>25, <1>26, <1>27,
     <1>28, <1>29, <1>30, <1>31, <1>32, <1>33, <1>34, Steps

\* Every step keeps it.
LEMMA InvStep == IInv /\ [Next]_vars => IInv'
<1> SUFFICES ASSUME IInv, [Next]_vars PROVE IInv'
  OBVIOUS
<1>1. TypeInv' /\ PlanInv' /\ PhaseInv' /\ QuestionInv'
  BY TypeStep, PlanStep, PhaseStep, QuestionStep DEF IInv
<1>2. ASSUME ~disordered' PROVE ~disordered
  BY <1>2, OrderIsKept DEF IInv
<1>3. ASSUME ~disordered' PROVE AskedLast' /\ PositionInv' /\ EditsInv'
  BY <1>1, <1>2, <1>3, AskedStep, PositionStep, EditsStep DEF IInv, OrderedInv
<1> QED BY <1>1, <1>3 DEF IInv, OrderedInv

\* What the proofs below rest on, for any photos, clusterings, names, selections and
\* bounds: the edits name trips there are, a question is asked by one screen at a time,
\* and, as long as no write overtook another, there is a session - the stored one but for
\* the parts that saves have missed - over which the queue ends in the screen's step, its
\* settings and its edits, and over which whatever a crash leaves of it fits together.
THEOREM WizardInductiveInvariant == Spec => []IInv
<1>1. Init => IInv
  BY InitInv
<1>2. IInv /\ [Next]_vars => IInv'
  BY InvStep
<1> QED BY <1>1, <1>2, PTL DEF Spec

\* However trips were clustered and edited: a photo that is not marked is in one trip or
\* in none, the legs of a trip share out its photos, photos that go into the same folder
\* share a leg, and no photo is in two batches (effective_trips, commit_folder_plan,
\* build_batches).
THEOREM EveryPhotoAlwaysPlaced == Spec => []EveryPhotoPlaced
<1>1. IInv => EveryPhotoPlaced
  <2> SUFFICES ASSUME IInv PROVE EveryPhotoPlaced
    OBVIOUS
  <2>1. IsClustering(clustering) /\ edits \in EditRecords
    BY PlanIsSound DEF IInv, TypeInv, PlanTypes
  <2>2. Lays(clustering, edits, marked, index)
    BY <2>1, EveryLayoutLays
  <2> QED BY <2>2 DEF EveryPhotoPlaced, IInv, PlanInv
<1> QED BY <1>1, WizardInductiveInvariant, PTL

\* On a resting screen with an idle pool the session has the screen's step, its settings
\* and the edits of its plan - each part unless its last save failed or lost what was to be
\* saved - as long as no write overtook another and no error emptied the index
\* (persist_progress, persist_trip_edits, record_step).
THEOREM DiskAlwaysFollowsScreen == Spec => []DiskFollowsScreen
<1>1. IInv => DiskFollowsScreen
  <2> SUFFICES ASSUME IInv, Settled, phase \in Resting, index # {}, ~disordered
               PROVE  /\ "position" \notin missed =>
                           stored.step = StepOf(phase) /\ stored.params = params
                      /\ phase \in Planned /\ "edits" \notin missed =>
                           stored.edits = Encode(clustering, edits)
    BY DEF DiskFollowsScreen
  <2>1. tasks = <<>> /\ PositionInv /\ EditsInv
    BY DEF IInv, OrderedInv, Settled
  <2>2. "position" \notin missed => stored.step = StepOf(phase)
    BY <2>1 DEF PositionInv, Recorded, MeantStep
  <2>3. PICK g, at, text : /\ Meant(g, stored, missed) /\ Matches(tasks, g, at, text)
                           /\ at = params /\ (Saved => text = Encode(clustering, edits))
    BY <2>1 DEF EditsInv
  <2>4. g.params = params /\ g.edits = text
    BY <2>1, <2>3, MatchNone
  <2>5. phase \in Planned => Saved
    BY DEF Saved
  <2> QED BY <2>2, <2>3, <2>4, <2>5 DEF Meant
<1> QED BY <1>1, WizardInductiveInvariant, PTL

\* Wherever the process dies, between whichever of the saves that wait, and whatever saves
\* failed before, if each part was saved again since: the session has edits of trips that
\* its own trip parameters give, so a resume that clusters with those can read them
\* (persist_progress and persist_trip_edits are two calls, not one).
Readable == ~disordered /\ missed = {} => Says(stored.edits, stored.params)

THEOREM SessionAlwaysReadable == Spec => []Readable
<1>1. IInv => Readable
  <2> SUFFICES ASSUME IInv, ~disordered, missed = {} PROVE Says(stored.edits, stored.params)
    BY DEF Readable
  <2>1. tasks \in Seq(Tasks) /\ EditsInv
    BY DEF IInv, TypeInv, PoolTypes, OrderedInv
  <2>2. PICK g, at, text : Meant(g, stored, missed) /\ Matches(tasks, g, at, text)
    BY <2>1 DEF EditsInv
  <2>3. Says(g.edits, g.params)
    BY <2>1, <2>2, MatchEnds
  <2> QED BY <2>2, <2>3 DEF Meant
<1> QED BY <1>1, WizardInductiveInvariant, PTL

\* The step in which a resumed trips pass is done: if all its trips came, the edits laid
\* over them come to what the session has, and the marks are those of the session
\* (on_trips_done, apply_edits).
LEMMA TripsBringBack ==
  ASSUME IInv, TripsDone, target # NoStep, ~disordered, missed' = {}
  PROVE  Encode(clustering', edits') = stored'.edits /\ marked' = stored'.marks
<1>1. phase = "tripsRunning" /\ pending # NoPending
  BY DEF TripsDone, IInv, PhaseInv
<1>2. /\ tasks = <<>> /\ edits = NoEdits(TRUE) /\ index = Photos
      /\ pending = stored.edits /\ marked = stored.marks
  BY <1>1 DEF IInv, OrderedInv, AskedLast
<1>3. /\ clustering' = Cluster[params] /\ marked' = marked /\ stored' = stored
      /\ missed = {}
      /\ pending = NoText => edits' = NoEdits(TRUE)
      /\ pending # NoText => edits' = ApplyEdits(pending, clustering', Photos)
  BY <1>1, <1>2 DEF TripsDone
<1>4. PICK g, at, text : /\ Meant(g, stored, missed) /\ Matches(tasks, g, at, text)
                         /\ Lasting => Says(text, params)
  BY DEF IInv, OrderedInv, EditsInv
<1>5. Says(pending, params)
  BY <1>1, <1>2, <1>3, <1>4, MatchNone DEF Lasting, Early, Meant
<1>6. Encode(clustering', edits') = pending
  <2>1. CASE pending = NoText
    BY <1>3, <2>1, BlankText
  <2>2. CASE pending # NoText
    <3>1. pending \in Texts /\ params \in Params
      BY <1>1 DEF IInv, TypeInv, ControlTypes, PlanTypes
    <3> QED BY <1>3, <1>5, <2>2, <3>1, SaysAgain
  <2> QED BY <2>1, <2>2
<1> QED BY <1>2, <1>3, <1>6

\* No other step ends in the batch menu or at the summary when a resume holds edits.
LEMMA OnlyTripsDone ==
  ASSUME IInv, [Next]_vars, phase = "tripsRunning", target # NoStep,
         phase' \in {"menu", "summary"}
  PROVE  TripsDone
<1>1. back = "confirm"
  BY DEF IInv, PhaseInv
<1>2. TypeInv /\ PlanInv
  BY DEF IInv
<1>3. CASE CancelTrips
  BY <1>1, <1>3 DEF CancelTrips, CancelCall
<1>4. ASSUME NEW e, Editing(e) PROVE FALSE
  BY <1>4 DEF Editing, Edited
<1>5. ASSUME NEW p \in index, MarkPhoto(p) PROVE FALSE
  BY <1>5 DEF MarkPhoto
<1>6. ASSUME NEW from \in Planned, NEW to \in Planned, Walk(from, to) PROVE FALSE
  BY <1>6 DEF Walk, Move, Resting
<1>7. CASE SelectFolder \/ Probed \/ StartFresh \/ ResumeSession \/ ScanDone
           \/ ResumeScanDone \/ CancelScan \/ BackFromConfirm \/ ResetToStart
           \/ ResultsApplied \/ ResumeCutShort
  BY <1>7 DEF ResumeCutShort, SelectFolder, Probed, StartFresh, ResumeSession, ScanDone,
       ResumeScanDone, CancelScan, BackFromConfirm, ResetToStart, ResultsApplied
<1>8. CASE ContinueFromConfirm \/ BackFromTrips \/ RerunTrips \/ ContinueFromTrips
           \/ ReopenOrganize \/ StartCommit \/ CommitDone \/ CancelCommit
  BY <1>8 DEF ContinueFromConfirm, BackFromTrips, RerunTrips, ContinueFromTrips,
       ReopenOrganize, StartCommit, CommitDone, CancelCommit
<1>9. CASE Fail \/ GoBackFromError \/ Exit \/ Launch \/ Crash
  BY <1>9 DEF Fail, GoBackFromError, Exit, Launch, Crash
<1>10. CASE RecordStep \/ RecordLate \/ RunTask \/ TaskFails \/ UNCHANGED vars
  BY <1>10 DEF RecordStep, RecordLate, RunTask, TaskFails, vars
<1> QED
  BY <1>2, <1>3, <1>4, <1>5, <1>6, <1>7, <1>8, <1>9, <1>10, Steps

\* A resume that lands has the trips with the session's edits and the session's marks,
\* unless the session lacks a save, one write overtook another before, or some trips were
\* lost on the way (on_trips_done, apply_edits).
THEOREM ResumeAlwaysBringsBack == Spec => ResumeBringsBack
<1> DEFINE Back ==
      phase = "tripsRunning" /\ target # NoStep /\ phase' \in {"menu", "summary"}
        /\ ~disordered /\ missed' = {} =>
          Encode(clustering', edits') = stored.edits /\ marked' = stored.marks
<1>1. IInv /\ [Next]_vars => [Back]_vars
  <2> SUFFICES ASSUME IInv, [Next]_vars, phase = "tripsRunning", target # NoStep,
                      phase' \in {"menu", "summary"}, ~disordered, missed' = {}
               PROVE  Encode(clustering', edits') = stored.edits /\ marked' = stored.marks
    OBVIOUS
  <2>1. TripsDone
    BY OnlyTripsDone
  <2>2. stored' = stored
    BY <2>1 DEF TripsDone
  <2> QED BY <2>1, <2>2, TripsBringBack
<1> QED BY <1>1, WizardInductiveInvariant, PTL DEF Spec, ResumeBringsBack
===============================================================================
