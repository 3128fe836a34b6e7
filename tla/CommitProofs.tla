----------------------------- MODULE CommitProofs -----------------------------
(* What TLAPS proves of Commit for every library, request, plan and fault:    *)
(* no file that is whole is touched, what is counted is there with its        *)
(* related files, and an undisturbed commit leaves nothing for the next.      *)
EXTENDS Commit, WellFoundedInduction, TLAPS

\* The file being written was not there before, and it is not whole until its
\* copy is:  so no step that finishes or removes it meets another file.
TargetIsTorn == \A f \in target : f \in DOMAIN disk /\ disk[f].whole = FALSE

\* The file of a photo in the making has the photo's bytes.
TargetIsHere == pc = "copying" => \A f \in target : disk[f].bytes = BytesOf[<<Here, Main>>]

IsFile(x) == x.whole \in BOOLEAN /\ x = [bytes |-> x.bytes, whole |-> x.whole]

FilesAreFiles == \A f \in DOMAIN disk : IsFile(disk[f])

Summaries ==
  /\ placed = [p \in Photos |-> placed[p]]
  /\ outcome = [p \in Photos |-> outcome[p]]

\* A path is made of a directory, a stem, a suffix and the rest of the name.
IsPath(f) == f = [dir |-> f.dir, stem |-> f.stem, n |-> f.n, ext |-> f.ext]

\* What is left to do is of the request, and there is something while a photo is copied.
SourcesInv ==
  /\ sources \subseteq kept \cap Known
  /\ pc \in {"copying", "related", "sibling"} => sources # {}

Settled == pc \in {"related", "sibling"}

\* Nothing is known yet of a photo whose turn has not come.
ComingInv ==
  \A p \in sources : p # Here \/ ~Settled =>
    placed[p] = {} /\ \A t \in Siblings[p] : <<p, t>> \notin errors

\* A photo in the making has a name of its own; with a suffix, so have all its siblings.
CopyingInv ==
  pc = "copying" =>
    \E path \in target :
      /\ target = {path} /\ IsPath(path) /\ path.ext = Ext[Here]
      /\ path.n > 1 => \A t \in Siblings[Here] : ~Taken(Sibling(Here, path, t))

Beside(p, path, t) == <<p, t>> \in beside /\ SameSize(Sibling(p, path, t), p, t)

\* The sibling in the making.
InMaking(path, t) ==
  /\ pc = "sibling" /\ target = {Sibling(Here, path, t)}
  /\ disk[Sibling(Here, path, t)].bytes = BytesOf[<<Here, t>>]

\* Of a photo in place, each sibling is yet to come, is being copied, or is accounted for.
RelatedInv ==
  Settled =>
    \E path \in placed[Here] :
      /\ placed[Here] = {path} /\ IsPath(path) /\ path.ext = Ext[Here]
      /\ related \subseteq Siblings[Here]
      /\ pc = "sibling" => \E t \in Siblings[Here] \ related : InMaking(path, t)
      /\ \A t \in Siblings[Here] \ related :
           <<Here, t>> \in errors \/ Beside(Here, path, t) \/ InMaking(path, t)
      /\ calm /\ path.n > 1 => \A t \in related : ~Taken(Sibling(Here, path, t))

\* Undisturbed, the photos that had their turn are there, if they have a folder.
ArriveInv ==
  /\ Settled => outcome[Here] = "copied"
  /\ calm =>
       \A p \in (kept \cap Known) \ sources :
         Subdir(p) # NoDir => outcome[p] \in {"copied", "present"}
  /\ pc \in {"idle", "done"} => sources = {}

GroupInv ==
  /\ SourcesInv /\ ComingInv /\ CopyingInv /\ RelatedInv /\ ArriveInv
  /\ SiblingsFollow

IInv == FilesAreFiles /\ Summaries /\ TargetIsTorn /\ TargetIsHere /\ CountedIsThere

------------------------------------------------------------------------------
\* A file that is written is a file.
LEMMA FileIsFile == ASSUME NEW b, NEW w \in BOOLEAN PROVE IsFile([bytes |-> b, whole |-> w])
BY DEF IsFile

\* A photo is written under a name that no file has.
LEMMA CopyPhotoIsNew ==
  ASSUME CopyPhoto
  PROVE  \E path, bytes : /\ ~Taken(path) /\ Writing(path, bytes)
                         /\ bytes = BytesOf[<<Here, Main>>]
<1>1. CASE Taken(Planned(Here))
  <2>1. PICK n \in Suffixes(Here) : Writing(Numbered(Here, n), BytesOf[<<Here, Main>>])
    BY <1>1 DEF CopyPhoto
  <2>2. ~Taken(Numbered(Here, n))
    BY <2>1 DEF Suffixes, Frees, AnyExists
  <2> QED BY <2>1, <2>2
<1>2. CASE ~Taken(Planned(Here))
  BY <1>2 DEF CopyPhoto
<1> QED BY <1>1, <1>2

\* A copy that is through makes its own file whole and leaves the others.
LEMMA WrittenMakesWhole ==
  ASSUME TargetIsTorn, Written
  PROVE  /\ DOMAIN disk' = DOMAIN disk
         /\ \A f \in DOMAIN disk \ target : disk'[f] = disk[f]
         /\ \A f \in target : disk'[f] = [bytes |-> disk[f].bytes, whole |-> TRUE]
BY DEF TargetIsTorn, Written

\* A copy that fails takes nothing with it but its own file.
LEMMA TornKeepsOthers ==
  ASSUME Torn
  PROVE  /\ DOMAIN disk' \subseteq DOMAIN disk
         /\ \A f \in DOMAIN disk \ target : f \in DOMAIN disk' /\ disk'[f] = disk[f]
         /\ \A f \in DOMAIN disk' : disk'[f] = disk[f]
BY DEF Torn

------------------------------------------------------------------------------
\* Every step keeps the files that are whole, since a step that writes, finishes
\* or removes a file does so to one that is not.
LEMMA StepKeepsWholeFiles ==
  ASSUME IInv, [Next]_vars
  PROVE  /\ \A f \in DOMAIN disk : disk[f].whole => f \in DOMAIN disk' /\ disk'[f] = disk[f]
         /\ FilesAreFiles'
<1> USE DEF IInv
<1>1. CASE CopyPhoto
  <2>1. PICK path, bytes :
          ~Taken(path) /\ Writing(path, bytes) /\ bytes = BytesOf[<<Here, Main>>]
    BY <1>1, CopyPhotoIsNew
  <2> QED BY <2>1, FileIsFile DEF FilesAreFiles, Writing, Taken
<1>2. ASSUME NEW p \in Photos, NEW t \in Siblings[p], CopySibling(t)
      PROVE  /\ \A f \in DOMAIN disk : disk[f].whole => f \in DOMAIN disk' /\ disk'[f] = disk[f]
             /\ FilesAreFiles'
  <2>1. PICK path, bytes : ~Taken(path) /\ Writing(path, bytes)
    BY <1>2 DEF CopySibling
  <2> QED BY <2>1, FileIsFile DEF FilesAreFiles, Writing, Taken
<1>3. CASE PhotoCopied \/ SiblingCopied
  BY <1>3, WrittenMakesWhole, FileIsFile DEF PhotoCopied, SiblingCopied, TargetIsTorn, FilesAreFiles
<1>4. CASE PhotoFails \/ SiblingFails
  <2>1. Torn \/ UNCHANGED disk
    BY <1>4 DEF PhotoFails, SiblingFails
  <2> QED BY <2>1, TornKeepsOthers DEF TargetIsTorn, FilesAreFiles
<1>5. CASE UNCHANGED disk
  BY <1>5 DEF FilesAreFiles
<1>6. CASE UNCHANGED vars
  BY <1>5, <1>6 DEF vars
<1>7. ASSUME NEW keep, NEW folders, Start(keep, folders) PROVE UNCHANGED disk
  BY <1>7 DEF Start
<1>8. ASSUME NEW t, SiblingThere(t) PROVE UNCHANGED disk
  BY <1>8 DEF SiblingThere
<1>9. CASE \/ IndexLibrary \/ AlreadyCopied \/ AlreadyPresent \/ NameConflict
           \/ SiblingsDone \/ Complete \/ Refuse \/ Stop \/ NoDestination \/ Crash
  BY <1>5, <1>9 DEF IndexLibrary, AlreadyCopied, AlreadyPresent, NameConflict,
    SiblingsDone, Complete, Refuse, Stop, NoDestination, Crash
<1> QED
  BY <1>1, <1>2, <1>3, <1>4, <1>5, <1>6, <1>7, <1>8, <1>9 DEF Next, CommitStep

------------------------------------------------------------------------------
(* CountedIsThere, one lemma for a summary that stays and one for a photo that *)
(* is answered.                                                                *)

Counted(p) ==
  \E f \in DOMAIN disk :
    /\ disk[f].whole
    /\ \/ disk[f].bytes = BytesOf[<<p, Main>>]
       \/ f \in placed[p] /\ f.n = 1 /\ SizeOn(f) = SizeOf(p, Main)

\* A photo that was counted stays so while its files stay whole and its place the same.
LEMMA CountedStays ==
  ASSUME NEW p \in Photos, Counted(p), placed'[p] = placed[p],
         \A f \in DOMAIN disk : disk[f].whole => f \in DOMAIN disk' /\ disk'[f] = disk[f]
  PROVE  Counted(p)'
<1>1. PICK f \in DOMAIN disk :
        /\ disk[f].whole
        /\ \/ disk[f].bytes = BytesOf[<<p, Main>>]
           \/ f \in placed[p] /\ f.n = 1 /\ SizeOn(f) = SizeOf(p, Main)
  BY DEF Counted
<1>2. f \in DOMAIN disk' /\ disk'[f] = disk[f]
  BY <1>1
<1>3. SizeOn(f)' = SizeOn(f)
  BY <1>2 DEF SizeOn
<1> QED BY <1>1, <1>2, <1>3 DEF Counted, SizeOf

\* A file of the size of a photo is whole:  no photo is empty.
LEMMA SameSizeIsWhole ==
  ASSUME NEW p \in Photos, NEW path, SameSize(path, p, Main), FilesAreFiles
  PROVE  path \in DOMAIN disk /\ disk[path].whole /\ SizeOn(path) = SizeOf(p, Main)
<1>1. BytesOf[<<p, Main>>] \in DOMAIN Size
  BY FileAssumption
<1>2. SizeOf(p, Main) \in Nat \ {0}
  BY <1>1, SizeAssumption DEF SizeOf
<1>3. path \in DOMAIN disk /\ SizeOn(path) = SizeOf(p, Main)
  BY DEF SameSize, Taken
<1> QED BY <1>2, <1>3 DEF SizeOn, FilesAreFiles, IsFile

\* A commit starts in the invariant.
LEMMA InitIInv == Init => IInv
<1>1. SUFFICES ASSUME Init PROVE IInv
  OBVIOUS
<1>2. FilesAreFiles
  <2>1. ASSUME NEW f \in DOMAIN Before
        PROVE  IsFile(Before[f])
    BY LibraryAssumption, FileIsFile
  <2> QED BY <1>1, <2>1 DEF Init, FilesAreFiles
<1>3. Summaries /\ TargetIsTorn /\ TargetIsHere /\ CountedIsThere
  BY <1>1 DEF Init, Summaries, TargetIsTorn, TargetIsHere, CountedIsThere
<1> QED BY <1>2, <1>3 DEF IInv

\* The file in the making, and the shape of the summary.
LEMMA StepKeepsTarget ==
  ASSUME IInv, [Next]_vars
  PROVE  Summaries' /\ TargetIsTorn' /\ TargetIsHere'
<1> USE DEF IInv
<1>1. CASE CopyPhoto
  <2>1. PICK path, bytes :
          ~Taken(path) /\ Writing(path, bytes) /\ bytes = BytesOf[<<Here, Main>>]
    BY <1>1, CopyPhotoIsNew
  <2>2. UNCHANGED <<sources, placed, outcome>>
    BY <1>1 DEF CopyPhoto, summary
  <2>3. disk'[path].whole = FALSE /\ disk'[path].bytes = BytesOf[<<Here, Main>>]
    BY <2>1 DEF Writing, Taken
  <2> QED BY <2>1, <2>2, <2>3 DEF Writing, Summaries, TargetIsTorn, TargetIsHere, Here
<1>2. ASSUME NEW p \in Photos, NEW t \in Siblings[p], CopySibling(t)
      PROVE  Summaries' /\ TargetIsTorn' /\ TargetIsHere'
  <2>1. PICK path, bytes : ~Taken(path) /\ Writing(path, bytes)
    BY <1>2 DEF CopySibling
  <2>2. UNCHANGED <<placed, outcome>> /\ pc' = "sibling"
    BY <1>2 DEF CopySibling, summary
  <2>3. disk'[path].whole = FALSE
    BY <2>1 DEF Writing, Taken
  <2> QED BY <2>1, <2>2, <2>3 DEF Writing, Summaries, TargetIsTorn, TargetIsHere
<1>3. CASE PhotoCopied \/ AlreadyCopied
  BY <1>3 DEF PhotoCopied, AlreadyCopied, Settle, Summaries, TargetIsTorn, TargetIsHere
<1>4. CASE AlreadyPresent \/ NameConflict
  <2>1. /\ UNCHANGED <<disk, pc, target, placed>> /\ pc = "next"
        /\ \E result : outcome' = [outcome EXCEPT ![Here] = result]
    BY <1>4 DEF AlreadyPresent, NameConflict, Answer
  <2> QED BY <2>1 DEF Summaries, TargetIsTorn, TargetIsHere
<1>5. CASE PhotoFails \/ SiblingFails \/ SiblingCopied
  BY <1>5 DEF PhotoFails, SiblingFails, SiblingCopied, Answer, Summaries, TargetIsTorn, TargetIsHere
<1>6. CASE Refuse \/ Crash
  BY <1>6 DEF Refuse, Crash, NothingDone, Summaries, TargetIsTorn, TargetIsHere
<1>7. ASSUME NEW keep, NEW folders, Start(keep, folders)
      PROVE  Summaries' /\ TargetIsTorn' /\ TargetIsHere'
  BY <1>7 DEF Start, NothingDone, Summaries, TargetIsTorn, TargetIsHere
<1>8. ASSUME NEW t, SiblingThere(t)
      PROVE  Summaries' /\ TargetIsTorn' /\ TargetIsHere'
  BY <1>8 DEF SiblingThere, Summaries, TargetIsTorn, TargetIsHere
<1>9. CASE IndexLibrary \/ SiblingsDone \/ Complete \/ Stop \/ NoDestination
  BY <1>9 DEF IndexLibrary, SiblingsDone, Complete, Stop, NoDestination, summary, Summaries,
    TargetIsTorn, TargetIsHere
<1>10. CASE UNCHANGED vars
  BY <1>10 DEF vars, summary, Summaries, TargetIsTorn, TargetIsHere, Here
<1> QED
  BY <1>1, <1>2, <1>3, <1>4, <1>5, <1>6, <1>7, <1>8, <1>9, <1>10 DEF Next, CommitStep

\* No step takes away a copy that was counted.
LEMMA StepKeepsCounted ==
  ASSUME IInv, [Next]_vars
  PROVE  CountedIsThere'
<1> USE DEF IInv
<1> SUFFICES ASSUME NEW p \in Photos, outcome'[p] \in {"copied", "present"} PROVE Counted(p)'
  BY DEF CountedIsThere, Counted
<1>1. \A f \in DOMAIN disk : disk[f].whole => f \in DOMAIN disk' /\ disk'[f] = disk[f]
  BY StepKeepsWholeFiles
<1>2. outcome[p] \in {"copied", "present"} => Counted(p)
  BY DEF CountedIsThere, Counted
<1>3. CASE outcome'[p] = outcome[p] /\ placed'[p] = placed[p]
  BY <1>1, <1>2, <1>3, CountedStays
<1>4. CASE AlreadyCopied
  <2>1. CASE p = Here
    <3>1. /\ SameSize(Planned(p), p, Main) /\ UNCHANGED disk
          /\ placed'[p] = {Planned(p)}
      BY <1>4, <2>1 DEF AlreadyCopied, Settle, Summaries
    <3>2. Planned(p).n = 1
      BY DEF Planned
    <3>3. /\ Planned(p) \in DOMAIN disk /\ disk[Planned(p)].whole
          /\ SizeOn(Planned(p)) = SizeOf(p, Main)
      BY <3>1, SameSizeIsWhole
    <3>4. \A f : SizeOn(f)' = SizeOn(f)
      BY <3>1 DEF SizeOn
    <3>5. \A f : f = Planned(p) => Counted(p)'
      BY <3>1, <3>2, <3>3, <3>4 DEF Counted, SizeOf
    <3> QED BY <3>5
  <2>2. CASE p # Here
    BY <1>3, <1>4, <2>2 DEF AlreadyCopied, Settle, Summaries
  <2> QED BY <2>1, <2>2
<1>5. CASE PhotoCopied
  <2>1. CASE p = Here
    <3>1. PICK path \in target : Settle(p, path)
      BY <1>5, <2>1 DEF PhotoCopied
    <3>2. path \in DOMAIN disk' /\ disk'[path] = [bytes |-> disk[path].bytes, whole |-> TRUE]
      BY <1>5, <3>1, WrittenMakesWhole DEF PhotoCopied, TargetIsTorn
    <3>3. disk[path].bytes = BytesOf[<<p, Main>>]
      BY <1>5, <2>1, <3>1 DEF PhotoCopied, TargetIsHere
    <3> QED BY <3>2, <3>3 DEF Counted
  <2>2. CASE p # Here
    BY <1>3, <1>5, <2>2 DEF PhotoCopied, Settle, Summaries
  <2> QED BY <2>1, <2>2
<1>6. CASE AlreadyPresent
  <2>1. CASE p = Here
    <3>1. PICK f \in library :
            f \in DOMAIN disk /\ disk[f] = [bytes |-> BytesOf[<<p, Main>>], whole |-> TRUE]
      BY <1>6, <2>1 DEF AlreadyPresent, InLibrary, Taken
    <3>2. disk[f].whole /\ disk[f].bytes = BytesOf[<<p, Main>>]
      BY <3>1
    <3> QED BY <1>6, <3>1, <3>2 DEF AlreadyPresent, Counted
  <2>2. CASE p # Here
    BY <1>3, <1>6, <2>2 DEF AlreadyPresent, Answer, Summaries
  <2> QED BY <2>1, <2>2
<1>7. CASE NameConflict \/ PhotoFails
  BY <1>3, <1>7 DEF NameConflict, PhotoFails, Answer, Summaries
<1>8. CASE Refuse \/ Crash
  BY <1>8 DEF Refuse, Crash, NothingDone
<1>9. ASSUME NEW keep, NEW folders, Start(keep, folders) PROVE FALSE
  BY <1>9 DEF Start, NothingDone
<1>10. CASE UNCHANGED <<outcome, placed>>
  BY <1>3, <1>10
<1>11. ASSUME NEW t, SiblingThere(t) \/ CopySibling(t) PROVE UNCHANGED <<outcome, placed>>
  BY <1>11 DEF SiblingThere, CopySibling, summary
<1>12. CASE \/ IndexLibrary \/ CopyPhoto \/ SiblingCopied \/ SiblingFails
            \/ SiblingsDone \/ Complete \/ Stop \/ NoDestination \/ UNCHANGED vars
  BY <1>10, <1>12 DEF IndexLibrary, CopyPhoto, SiblingCopied, SiblingFails,
    SiblingsDone, Complete, Stop, NoDestination, vars, summary
<1> QED
  BY <1>4, <1>5, <1>6, <1>7, <1>8, <1>9, <1>10, <1>11, <1>12 DEF Next, CommitStep

------------------------------------------------------------------------------
(* The photos one after the other, and their siblings.                        *)

\* While something is left to do, the current photo is of it.
LEMMA HereIsLeft ==
  ASSUME sources \subseteq Photos, sources # {}
  PROVE  Here \in sources
<1> DEFINE places == {Place[p] : p \in sources}
<1>1. places \subseteq Nat /\ places # {}
  BY PhotoAssumption
<1>2. PICK n \in places : \A m \in places : ~ (<<m, n>> \in OpToRel(<, Nat))
  BY <1>1, WFMin, NatLessThanWellFounded
<1>3. \A m \in places : n <= m
  <2> SUFFICES ASSUME NEW m \in places, m < n PROVE FALSE
    BY <1>1
  <2>1. <<m, n>> \in Nat \X Nat /\ <<m, n>>[1] < <<m, n>>[2]
    BY <1>1
  <2>2. <<m, n>> \in OpToRel(<, Nat)
    BY <2>1, Zenon DEF OpToRel
  <2> QED BY <1>2, <2>2
<1>4. \E p \in sources : \A q \in sources : Place[p] <= Place[q]
  BY <1>3
<1> QED BY <1>4 DEF Here

\* A sibling's name tells it from the photo and from the other siblings.
LEMMA SiblingNames ==
  ASSUME NEW p, NEW path, IsPath(path), NEW t
  PROVE  /\ Sibling(p, path, t).ext = t
         /\ \A u : u # t => Sibling(p, path, u) # Sibling(p, path, t)
         /\ path.ext # t => Sibling(p, path, t) # path
<1>1. \A u : Sibling(p, path, u) = [dir |-> path.dir, stem |-> path.stem, n |-> path.n, ext |-> u]
  BY DEF Sibling, IsPath
<1> QED BY <1>1 DEF IsPath

\* A name that counts for a file of the session goes on counting.
LEMMA SameSizeStays ==
  ASSUME FilesAreFiles, NEW p \in Photos, NEW t \in Siblings[p], NEW f, SameSize(f, p, t),
         \A g \in DOMAIN disk : disk[g].whole => g \in DOMAIN disk' /\ disk'[g] = disk[g]
  PROVE  SameSize(f, p, t)'
<1>1. SizeOf(p, t) \in Nat \ {0}
  BY FileAssumption, SizeAssumption DEF SizeOf
<1>2. f \in DOMAIN disk /\ SizeOn(f) = SizeOf(p, t)
  BY DEF SameSize, Taken
<1>3. disk[f].whole
  BY <1>1, <1>2 DEF SizeOn, FilesAreFiles, IsFile
<1>4. f \in DOMAIN disk' /\ disk'[f] = disk[f]
  BY <1>2, <1>3
<1> QED BY <1>2, <1>4 DEF SameSize, Taken, SizeOn, SizeOf

\* And a sibling that is beside its photo stays there.
LEMMA BesideStays ==
  ASSUME FilesAreFiles, beside \subseteq beside',
         \A g \in DOMAIN disk : disk[g].whole => g \in DOMAIN disk' /\ disk'[g] = disk[g]
  PROVE  \A p \in Photos : \A t \in Siblings[p] : \A path :
           Beside(p, path, t) => Beside(p, path, t)'
<1> SUFFICES ASSUME NEW p \in Photos, NEW t \in Siblings[p], NEW path, Beside(p, path, t)
             PROVE  Beside(p, path, t)'
  OBVIOUS
<1>1. Sibling(p, path, t)' = Sibling(p, path, t)
  BY DEF Sibling
<1>2. SameSize(Sibling(p, path, t), p, t)'
  BY SameSizeStays, <1>1 DEF Beside
<1> QED BY <1>2 DEF Beside

\* What a step leaves of the photos that are not the current one.
LEMMA OthersFollow ==
  ASSUME FilesAreFiles, SiblingsFollow, beside \subseteq beside', errors \subseteq errors',
         calm' => calm,
         \A g \in DOMAIN disk : disk[g].whole => g \in DOMAIN disk' /\ disk'[g] = disk[g]
  PROVE  \A p \in Photos : \A path \in placed[p] : \A t \in Siblings[p] :
           p # Here \/ ~Settled =>
             /\ <<p, t>> \in errors' \/ Beside(p, path, t)'
             /\ path.n > 1 /\ calm' => <<p, t>> \notin errors
<1> SUFFICES ASSUME NEW p \in Photos, NEW path \in placed[p], NEW t \in Siblings[p],
                    p # Here \/ ~Settled
             PROVE  /\ <<p, t>> \in errors' \/ Beside(p, path, t)'
                    /\ path.n > 1 /\ calm' => <<p, t>> \notin errors
  OBVIOUS
<1>1. /\ <<p, t>> \in errors \/ Beside(p, path, t)
      /\ path.n > 1 /\ calm => <<p, t>> \notin errors
  BY DEF SiblingsFollow, Settled, Beside
<1> QED BY <1>1, BesideStays

WholeStays == \A g \in DOMAIN disk : disk[g].whole => g \in DOMAIN disk' /\ disk'[g] = disk[g]

\* Between two photos: what is left and what was found stay as they are.
LEMMA PauseKeepsGroups ==
  ASSUME IInv, GroupInv, WholeStays, ~Settled, pc' \notin {"copying", "related", "sibling"},
         UNCHANGED <<kept, plan, placed, outcome, beside, errors>>,
         \/ sources' = sources /\ UNCHANGED calm /\ (pc' \in {"idle", "done"} => sources = {})
         \/ sources' = {} /\ ~calm'
  PROVE  GroupInv'
<1>1. SourcesInv'
  BY DEF GroupInv, SourcesInv
<1>2. ComingInv'
  BY DEF GroupInv, ComingInv, Settled
<1>3. CopyingInv' /\ RelatedInv'
  BY DEF CopyingInv, RelatedInv, Settled
<1>4. ArriveInv'
  BY DEF GroupInv, ArriveInv, Settled, Subdir
<1>5. SiblingsFollow'
  <2>1. \A p \in Photos : \A path \in placed[p] : \A t \in Siblings[p] :
          /\ <<p, t>> \in errors \/ Beside(p, path, t)'
          /\ path.n > 1 /\ calm' => <<p, t>> \notin errors
    BY OthersFollow DEF IInv, GroupInv, WholeStays
  <2> QED BY <2>1 DEF SiblingsFollow, Beside
<1> QED BY <1>1, <1>2, <1>3, <1>4, <1>5 DEF GroupInv

\* A new request, or the end of the process: nothing is known of any photo.
LEMMA NothingDoneKeepsGroups ==
  ASSUME NEW unknown, NothingDone(unknown),
         pc' \notin {"copying", "related", "sibling"},
         \/ sources' = kept' \cap Known /\ pc' = "estimate"
         \/ sources' = {} /\ ~calm'
  PROVE  GroupInv'
<1>1. SourcesInv'
  BY DEF SourcesInv
<1>2. ComingInv'
  BY PhotoAssumption, CompanionAssumption DEF ComingInv, NothingDone
<1>3. CopyingInv' /\ RelatedInv'
  BY DEF CopyingInv, RelatedInv, Settled
<1>4. ArriveInv'
  BY DEF ArriveInv, Settled
<1>5. SiblingsFollow'
  BY DEF SiblingsFollow, NothingDone
<1> QED BY <1>1, <1>2, <1>3, <1>4, <1>5 DEF GroupInv

\* A photo is answered without being copied.
LEMMA AnswerKeepsGroups ==
  ASSUME IInv, GroupInv, WholeStays, AlreadyPresent \/ NameConflict \/ PhotoFails
  PROVE  GroupInv'
<1>1. /\ sources \subseteq Photos /\ sources # {} /\ ~Settled /\ pc' = "next"
      /\ sources' = sources \ {Here}
      /\ UNCHANGED <<kept, plan, placed, beside>>
      /\ errors' \in {errors, errors \cup {<<Here, Main>>}}
  BY PhotoAssumption DEF AlreadyPresent, NameConflict, PhotoFails, Answer, GroupInv, SourcesInv,
    Settled, request
<1>2. Here \in sources
  BY <1>1, HereIsLeft
<1>3. SourcesInv'
  BY <1>1 DEF GroupInv, SourcesInv
<1>4. ComingInv'
  BY <1>1, <1>2, PhotoAssumption, CompanionAssumption DEF GroupInv, ComingInv
<1>5. CopyingInv' /\ RelatedInv'
  BY <1>1 DEF CopyingInv, RelatedInv, Settled
<1>6. ArriveInv'
  <2>1. \A p \in Photos : p # Here => outcome'[p] = outcome[p]
    <3>1. \E result : outcome' = [outcome EXCEPT ![Here] = result]
      BY DEF AlreadyPresent, NameConflict, PhotoFails, Answer
    <3> QED BY <3>1 DEF IInv, Summaries
  <2>2. calm' => calm /\ (outcome'[Here] = "present" \/ Subdir(Here) = NoDir)
    <3>1. CASE AlreadyPresent
      <4>1. Here \in Photos
        BY <1>1, <1>2
      <4> QED BY <3>1, <4>1 DEF AlreadyPresent, Answer, IInv, Summaries
    <3>2. CASE NameConflict \/ PhotoFails
      BY <3>2 DEF NameConflict, PhotoFails
    <3> QED BY <3>1, <3>2
  <2>3. \A p : Subdir(p)' = Subdir(p)
    BY <1>1 DEF Subdir
  <2> QED BY <1>1, <2>1, <2>2, <2>3, PhotoAssumption DEF GroupInv, ArriveInv, Settled
<1>7. SiblingsFollow'
  <2>1. calm' => calm
    BY DEF AlreadyPresent, NameConflict, PhotoFails
  <2>2. \A p \in Photos : \A path \in placed[p] : \A t \in Siblings[p] :
          /\ <<p, t>> \in errors' \/ Beside(p, path, t)'
          /\ path.n > 1 /\ calm' => <<p, t>> \notin errors
    BY <1>1, <2>1, OthersFollow DEF IInv, GroupInv, WholeStays
  <2>3. \A p \in Photos : \A t \in Siblings[p] : <<p, t>> \in errors' => <<p, t>> \in errors
    BY <1>1, CompanionAssumption
  <2> QED BY <1>1, <2>2, <2>3 DEF SiblingsFollow, Beside
<1> QED BY <1>3, <1>4, <1>5, <1>6, <1>7 DEF GroupInv

\* A photo is in place, and its siblings are next.
LEMMA SettleKeepsGroups ==
  ASSUME IInv, GroupInv, WholeStays, AlreadyCopied \/ PhotoCopied
  PROVE  GroupInv'
<1>1. /\ sources \subseteq Photos /\ sources # {} /\ ~Settled
      /\ UNCHANGED <<sources, kept, plan, beside, errors, calm>>
      /\ DOMAIN disk' = DOMAIN disk
  BY PhotoAssumption, WrittenMakesWhole
  DEF AlreadyCopied, PhotoCopied, GroupInv, IInv, SourcesInv, Settled, request
<1>2. Here \in sources /\ Here' = Here /\ Here \in Photos
  BY <1>1, HereIsLeft DEF Here
<1>3. PICK path :
        /\ Settle(Here, path) /\ IsPath(path) /\ path.ext = Ext[Here]
        /\ path.n > 1 => \A t \in Siblings[Here] : ~Taken(Sibling(Here, path, t))
  <2>1. CASE AlreadyCopied
    <3>1. IsPath(Planned(Here)) /\ Planned(Here).ext = Ext[Here] /\ ~ (Planned(Here).n > 1)
      BY DEF Planned, IsPath
    <3> QED BY <2>1, <3>1 DEF AlreadyCopied
  <2>2. CASE PhotoCopied
    BY <2>2 DEF PhotoCopied, GroupInv, CopyingInv
  <2> QED BY <2>1, <2>2
<1>4. /\ pc' = "related" /\ related' = Siblings[Here] /\ placed'[Here] = {path}
      /\ outcome'[Here] = "copied"
      /\ \A p \in Photos : p # Here => placed'[p] = placed[p] /\ outcome'[p] = outcome[p]
  BY <1>2, <1>3 DEF Settle, IInv, Summaries
<1>5. SourcesInv'
  BY <1>1 DEF GroupInv, SourcesInv
<1>6. ComingInv'
  <2>1. Settled'
    BY <1>4 DEF Settled
  <2> QED BY <1>1, <1>2, <1>4, <2>1 DEF GroupInv, ComingInv
<1>7. CopyingInv'
  BY <1>4 DEF CopyingInv
<1>8. RelatedInv'
  <2>1. path.n > 1 => \A t \in related' : ~Taken(Sibling(Here, path, t))'
    BY <1>1, <1>3, <1>4 DEF Taken, Sibling
  <2> QED BY <1>2, <1>3, <1>4, <2>1 DEF RelatedInv
<1>9. ArriveInv'
  BY <1>1, <1>2, <1>4, PhotoAssumption DEF GroupInv, ArriveInv, Subdir
<1>10. SiblingsFollow'
  <2>1. \A p \in Photos : \A f \in placed[p] : \A t \in Siblings[p] :
          /\ <<p, t>> \in errors' \/ Beside(p, f, t)'
          /\ f.n > 1 /\ calm' => <<p, t>> \notin errors
    BY <1>1, OthersFollow DEF IInv, GroupInv, WholeStays
  <2>2. \A t \in Siblings[Here] : <<Here, t>> \notin errors
    BY <1>1, <1>2 DEF GroupInv, ComingInv
  <2> QED BY <1>1, <1>2, <1>4, <2>1, <2>2 DEF SiblingsFollow, Beside
<1> QED BY <1>5, <1>6, <1>7, <1>8, <1>9, <1>10 DEF GroupInv

\* A photo that is not there yet is being copied, under a name of its own.
LEMMA CopyKeepsGroups ==
  ASSUME IInv, GroupInv, WholeStays, CopyPhoto
  PROVE  GroupInv'
<1>1. /\ sources \subseteq Photos /\ sources # {} /\ pc' = "copying" /\ pc = "next"
      /\ UNCHANGED <<sources, kept, plan, placed, outcome, beside, errors, calm>>
  BY PhotoAssumption DEF CopyPhoto, GroupInv, SourcesInv, request, summary
<1>2. Here \in sources /\ Here' = Here /\ Here \in Photos
  BY <1>1, HereIsLeft DEF Here
<1>3. PICK path :
        /\ Writing(path, BytesOf[<<Here, Main>>]) /\ IsPath(path) /\ path.ext = Ext[Here]
        /\ path.n > 1 => \A t \in Siblings[Here] : ~Taken(Sibling(Here, path, t))
  <2>1. CASE Taken(Planned(Here))
    <3>1. PICK n \in Suffixes(Here) : Writing(Numbered(Here, n), BytesOf[<<Here, Main>>])
      BY <2>1 DEF CopyPhoto
    <3>2. \A t \in Siblings[Here] : ~Taken(Sibling(Here, Numbered(Here, n), t))
      BY <3>1 DEF Suffixes, Frees, AnyExists
    <3>3. IsPath(Numbered(Here, n)) /\ Numbered(Here, n).ext = Ext[Here]
      BY DEF Numbered, Planned, IsPath
    <3> QED BY <3>1, <3>2, <3>3
  <2>2. CASE ~Taken(Planned(Here))
    <3>1. IsPath(Planned(Here)) /\ Planned(Here).ext = Ext[Here] /\ ~ (Planned(Here).n > 1)
      BY DEF Planned, IsPath
    <3> QED BY <2>2, <3>1 DEF CopyPhoto
  <2> QED BY <2>1, <2>2
<1>4. target' = {path} /\ DOMAIN disk' = DOMAIN disk \cup {path}
  BY <1>3 DEF Writing
<1>5. SourcesInv' /\ ArriveInv'
  BY <1>1 DEF GroupInv, SourcesInv, ArriveInv, Settled, Subdir
<1>6. ComingInv'
  BY <1>1 DEF GroupInv, ComingInv, Settled
<1>7. CopyingInv'
  <2>1. \A t \in Siblings[Here] : Sibling(Here, path, t) # path
    BY <1>2, <1>3, SiblingNames, CompanionAssumption
  <2>2. path.n > 1 => \A t \in Siblings[Here] : ~Taken(Sibling(Here, path, t))'
    BY <1>3, <1>4, <2>1 DEF Taken, Sibling
  <2> QED BY <1>2, <1>3, <1>4, <2>2 DEF CopyingInv, Sibling
<1>8. RelatedInv'
  BY <1>1 DEF RelatedInv, Settled
<1>9. SiblingsFollow'
  <2>1. \A p \in Photos : \A f \in placed[p] : \A t \in Siblings[p] :
          /\ <<p, t>> \in errors' \/ Beside(p, f, t)'
          /\ f.n > 1 /\ calm' => <<p, t>> \notin errors
    BY <1>1, OthersFollow DEF IInv, GroupInv, WholeStays, Settled
  <2> QED BY <1>1, <2>1 DEF SiblingsFollow, Beside
<1> QED BY <1>5, <1>6, <1>7, <1>8, <1>9 DEF GroupInv

\* What a step among the siblings of the current photo leaves as it is.
LEMMA AmongSiblings ==
  ASSUME IInv, GroupInv, WholeStays, Settled, Settled', calm' => calm,
         UNCHANGED <<sources, kept, plan, placed, outcome>>,
         beside \subseteq beside', errors \subseteq errors',
         \A p \in Photos \ {Here} : \A t \in Siblings[p] :
           <<p, t>> \in errors' => <<p, t>> \in errors,
         \A path \in placed[Here] : \A t \in Siblings[Here] :
           path.n > 1 /\ calm' => <<Here, t>> \notin errors' \/ <<Here, t>> \in errors
  PROVE  SourcesInv' /\ ComingInv' /\ CopyingInv' /\ ArriveInv' /\ SiblingsFollow'
<1>1. Here' = Here /\ sources \subseteq Photos
  BY PhotoAssumption DEF Here, GroupInv, SourcesInv
<1>2. SourcesInv' /\ ArriveInv'
  BY <1>1 DEF GroupInv, SourcesInv, ArriveInv, Settled, Subdir
<1>3. ComingInv'
  BY <1>1 DEF GroupInv, ComingInv
<1>4. CopyingInv'
  BY DEF CopyingInv, Settled
<1>5. SiblingsFollow'
  <2>1. \A p \in Photos \ {Here} : \A f \in placed[p] : \A t \in Siblings[p] :
          /\ <<p, t>> \in errors' \/ Beside(p, f, t)'
          /\ f.n > 1 /\ calm' => <<p, t>> \notin errors'
    BY OthersFollow DEF IInv, GroupInv, WholeStays
  <2>2. \A f \in placed[Here] : \A t \in Siblings[Here] :
          Here \in Photos /\ f.n > 1 /\ calm' => <<Here, t>> \notin errors'
    BY DEF GroupInv, SiblingsFollow
  <2> QED BY <1>1, <2>1, <2>2 DEF SiblingsFollow, Beside, Settled
<1> QED BY <1>2, <1>3, <1>4, <1>5

\* A sibling whose name is taken counts, or is reported.
LEMMA ThereKeepsGroups ==
  ASSUME IInv, GroupInv, WholeStays, NEW t, SiblingThere(t)
  PROVE  GroupInv'
<1>1. /\ pc = "related" /\ pc' = "related" /\ t \in related /\ related' = related \ {t}
      /\ UNCHANGED <<disk, sources, kept, plan, placed, outcome, target, calm>>
      /\ Settled /\ Settled'
  BY DEF SiblingThere, Settled, request
<1>2. Here' = Here /\ Here \in Photos
  BY <1>1, HereIsLeft, PhotoAssumption DEF Here, GroupInv, SourcesInv
<1>3. PICK path \in placed[Here] :
        /\ placed[Here] = {path} /\ IsPath(path) /\ path.ext = Ext[Here]
        /\ related \subseteq Siblings[Here]
        /\ \A u \in Siblings[Here] \ related :
             <<Here, u>> \in errors \/ Beside(Here, path, u) \/ InMaking(path, u)
        /\ calm /\ path.n > 1 => \A u \in related : ~Taken(Sibling(Here, path, u))
  BY <1>1 DEF GroupInv, RelatedInv
<1>4. /\ Taken(Sibling(Here, path, t))
      /\ \/ /\ SameSize(Sibling(Here, path, t), Here, t)
            /\ beside' = beside \cup {<<Here, t>>} /\ errors' = errors
         \/ beside' = beside /\ errors' = errors \cup {<<Here, t>>}
  BY <1>3 DEF SiblingThere
<1>5. SourcesInv' /\ ComingInv' /\ CopyingInv' /\ ArriveInv' /\ SiblingsFollow'
  BY <1>1, <1>2, <1>3, <1>4, AmongSiblings
<1>6. RelatedInv'
  <2>1. \A u : Sibling(Here, path, u)' = Sibling(Here, path, u)
    BY <1>2 DEF Sibling
  <2>2. \A u \in Siblings[Here] : Beside(Here, path, u) => Beside(Here, path, u)'
    BY <1>2, <1>4, BesideStays DEF IInv, WholeStays
  <2>3. <<Here, t>> \in errors' \/ Beside(Here, path, t)'
    BY <1>1, <1>2, <1>4 DEF Beside, SameSize, Taken, SizeOn, SizeOf, Sibling
  <2>4. \A u \in Siblings[Here] \ related' :
          <<Here, u>> \in errors' \/ Beside(Here, path, u)'
    BY <1>1, <1>3, <1>4, <2>2, <2>3 DEF InMaking
  <2>5. calm' /\ path.n > 1 => \A u \in related' : ~Taken(Sibling(Here, path, u))'
    BY <1>1, <1>3, <2>1 DEF Taken
  <2> QED BY <1>1, <1>2, <1>3, <2>4, <2>5 DEF RelatedInv
<1> QED BY <1>5, <1>6 DEF GroupInv

\* A sibling is being copied.
LEMMA CopySiblingKeepsGroups ==
  ASSUME IInv, GroupInv, WholeStays, NEW t, CopySibling(t)
  PROVE  GroupInv'
<1>1. /\ pc = "related" /\ pc' = "sibling" /\ t \in related /\ related' = related \ {t}
      /\ UNCHANGED <<sources, kept, plan, placed, outcome, beside, errors, calm>>
      /\ Settled /\ Settled'
  BY DEF CopySibling, Settled, request, summary
<1>2. Here' = Here /\ Here \in Photos
  BY <1>1, HereIsLeft, PhotoAssumption DEF Here, GroupInv, SourcesInv
<1>3. PICK path \in placed[Here] :
        /\ placed[Here] = {path} /\ IsPath(path) /\ path.ext = Ext[Here]
        /\ related \subseteq Siblings[Here]
        /\ \A u \in Siblings[Here] \ related :
             <<Here, u>> \in errors \/ Beside(Here, path, u) \/ InMaking(path, u)
        /\ calm /\ path.n > 1 => \A u \in related : ~Taken(Sibling(Here, path, u))
  BY <1>1 DEF GroupInv, RelatedInv
<1> DEFINE f == Sibling(Here, path, t)
<1>4. Writing(f, BytesOf[<<Here, t>>])
  BY <1>3 DEF CopySibling
<1>5. target' = {f} /\ DOMAIN disk' = DOMAIN disk \cup {f} /\ disk'[f].bytes = BytesOf[<<Here, t>>]
  BY <1>4 DEF Writing
<1>6. SourcesInv' /\ ComingInv' /\ CopyingInv' /\ ArriveInv' /\ SiblingsFollow'
  BY <1>1, <1>2, <1>3, AmongSiblings
<1>7. RelatedInv'
  <2>1. \A u : Sibling(Here, path, u)' = Sibling(Here, path, u)
    BY <1>2 DEF Sibling
  <2>2. \A u \in Siblings[Here] : Beside(Here, path, u) => Beside(Here, path, u)'
    BY <1>1, <1>2, BesideStays DEF IInv, WholeStays
  <2>3. InMaking(path, t)'
    BY <1>1, <1>2, <1>5, <2>1 DEF InMaking
  <2>4. \A u \in Siblings[Here] \ related' :
          <<Here, u>> \in errors' \/ Beside(Here, path, u)' \/ InMaking(path, u)'
    BY <1>1, <1>3, <2>2, <2>3 DEF InMaking
  <2>5. calm' /\ path.n > 1 => \A u \in related' : ~Taken(Sibling(Here, path, u))'
    <3>1. \A u \in related' : Sibling(Here, path, u) # f
      BY <1>1, <1>3, SiblingNames
    <3> QED BY <1>1, <1>3, <1>5, <2>1, <3>1 DEF Taken
  <2>6. t \in Siblings[Here] \ related'
    BY <1>1, <1>3
  <2> QED BY <1>1, <1>2, <1>3, <2>3, <2>4, <2>5, <2>6 DEF RelatedInv
<1> QED BY <1>6, <1>7 DEF GroupInv

\* The sibling's copy is through, or failed.
LEMMA EndSiblingKeepsGroups ==
  ASSUME IInv, GroupInv, WholeStays, SiblingCopied \/ SiblingFails
  PROVE  GroupInv'
<1>1. /\ pc = "sibling" /\ pc' = "related"
      /\ UNCHANGED <<sources, kept, plan, placed, outcome, related>>
      /\ calm' => calm /\ SiblingCopied
      /\ Settled /\ Settled'
  BY DEF SiblingCopied, SiblingFails, Settled, request
<1>2. Here' = Here /\ Here \in Photos
  BY <1>1, HereIsLeft, PhotoAssumption DEF Here, GroupInv, SourcesInv
<1>3. PICK path \in placed[Here] :
        /\ placed[Here] = {path} /\ IsPath(path) /\ path.ext = Ext[Here]
        /\ related \subseteq Siblings[Here]
        /\ \E t \in Siblings[Here] \ related : InMaking(path, t)
        /\ \A u \in Siblings[Here] \ related :
             <<Here, u>> \in errors \/ Beside(Here, path, u) \/ InMaking(path, u)
        /\ calm /\ path.n > 1 => \A u \in related : ~Taken(Sibling(Here, path, u))
  BY <1>1 DEF GroupInv, RelatedInv
<1>4. PICK t \in Siblings[Here] \ related : InMaking(path, t)
  BY <1>3
<1> DEFINE f == Sibling(Here, path, t)
<1>5. target = {f} /\ f.ext = t /\ disk[f].bytes = BytesOf[<<Here, t>>] /\ f \in DOMAIN disk
  BY <1>3, <1>4, SiblingNames DEF InMaking, IInv, TargetIsTorn
<1>6. \/ beside' = beside \cup {<<Here, t>>} /\ errors' = errors /\ SiblingCopied
      \/ beside' = beside /\ errors' = errors \cup {<<Here, t>>} /\ ~calm'
  BY <1>5 DEF SiblingCopied, SiblingFails
<1>7. SourcesInv' /\ ComingInv' /\ CopyingInv' /\ ArriveInv' /\ SiblingsFollow'
  BY <1>1, <1>2, <1>3, <1>6, AmongSiblings
<1>8. RelatedInv'
  <2>1. \A u : Sibling(Here, path, u)' = Sibling(Here, path, u)
    BY <1>2 DEF Sibling
  <2>2. \A u \in Siblings[Here] : Beside(Here, path, u) => Beside(Here, path, u)'
    BY <1>2, <1>6, BesideStays DEF IInv, WholeStays
  <2>3. SiblingCopied => SameSize(Sibling(Here, path, t), Here, t)'
    <3>1. SUFFICES ASSUME SiblingCopied PROVE SameSize(Sibling(Here, path, t), Here, t)'
      OBVIOUS
    <3>2. f \in DOMAIN disk' /\ disk'[f] = [bytes |-> BytesOf[<<Here, t>>], whole |-> TRUE]
      BY <1>5, <3>1, WrittenMakesWhole DEF SiblingCopied, IInv
    <3>3. disk'[f].whole /\ disk'[f].bytes = BytesOf[<<Here, t>>]
      BY <3>2
    <3>4. Sibling(Here, path, t)' = f
      BY <2>1
    <3> QED BY <1>2, <3>2, <3>3, <3>4 DEF SameSize, Taken, SizeOn, SizeOf
  <2>4. <<Here, t>> \in errors' \/ Beside(Here, path, t)'
    BY <1>2, <1>6, <2>1, <2>3 DEF Beside
  <2>5. \A u \in Siblings[Here] : InMaking(path, u) => u = t
    BY <1>3, <1>5, SiblingNames DEF InMaking
  <2>6. \A u \in Siblings[Here] \ related' :
          <<Here, u>> \in errors' \/ Beside(Here, path, u)'
    BY <1>1, <1>3, <1>6, <2>2, <2>4, <2>5
  <2>7. calm' /\ path.n > 1 => \A u \in related' : ~Taken(Sibling(Here, path, u))'
    <3>1. SiblingCopied => DOMAIN disk' = DOMAIN disk
      BY WrittenMakesWhole DEF SiblingCopied, IInv
    <3> QED BY <1>1, <1>3, <2>1, <3>1 DEF Taken
  <2> QED BY <1>1, <1>2, <1>3, <2>6, <2>7 DEF RelatedInv
<1> QED BY <1>7, <1>8 DEF GroupInv

\* The last sibling is through: the photo is.
LEMMA DoneKeepsGroups ==
  ASSUME IInv, GroupInv, WholeStays, SiblingsDone
  PROVE  GroupInv'
<1>1. /\ pc = "related" /\ pc' = "next" /\ related = {} /\ sources' = sources \ {Here} /\ Settled
      /\ UNCHANGED <<disk, kept, plan, placed, outcome, beside, errors, calm>>
  BY DEF SiblingsDone, Settled, request, summary
<1>2. Here \in sources /\ Here \in Photos
  BY <1>1, HereIsLeft, PhotoAssumption DEF GroupInv, SourcesInv
<1>3. SourcesInv'
  BY <1>1 DEF GroupInv, SourcesInv
<1>4. ComingInv'
  BY <1>1 DEF GroupInv, ComingInv
<1>5. CopyingInv' /\ RelatedInv'
  BY <1>1 DEF CopyingInv, RelatedInv, Settled
<1>6. ArriveInv'
  BY <1>1 DEF GroupInv, ArriveInv, Settled, Subdir
<1>7. SiblingsFollow'
  <2>1. \A p \in Photos \ {Here} : \A f \in placed[p] : \A t \in Siblings[p] :
          /\ <<p, t>> \in errors' \/ Beside(p, f, t)'
          /\ f.n > 1 /\ calm' => <<p, t>> \notin errors
    BY <1>1, OthersFollow DEF IInv, GroupInv, WholeStays
  <2>2. \A f \in placed[Here] : \A t \in Siblings[Here] :
          <<Here, t>> \in errors \/ Beside(Here, f, t)
    BY <1>1 DEF GroupInv, RelatedInv, InMaking
  <2>3. \A p, f, t : Beside(p, f, t) => Beside(p, f, t)'
    BY <1>1 DEF Beside, SameSize, Taken, SizeOn, SizeOf, Sibling
  <2>4. \A f \in placed[Here] : \A t \in Siblings[Here] :
          f.n > 1 /\ calm => <<Here, t>> \notin errors
    BY <1>2 DEF GroupInv, SiblingsFollow
  <2> QED BY <1>1, <2>1, <2>2, <2>3, <2>4 DEF SiblingsFollow, Beside
<1> QED BY <1>3, <1>4, <1>5, <1>6, <1>7 DEF GroupInv

\* Every step keeps what holds of the photos and their siblings.
LEMMA StepKeepsGroups ==
  ASSUME IInv, GroupInv, [Next]_vars
  PROVE  GroupInv'
<1>a. WholeStays
  BY StepKeepsWholeFiles DEF WholeStays
<1>1. CASE \/ IndexLibrary \/ Complete \/ NoDestination \/ Stop
  <2>1. /\ ~Settled /\ pc' \notin {"copying", "related", "sibling"}
        /\ UNCHANGED <<kept, plan, placed, outcome, beside, errors>>
        /\ \/ sources' = sources /\ UNCHANGED calm /\ (pc' \in {"idle", "done"} => sources = {})
           \/ sources' = {} /\ ~calm'
    BY <1>1 DEF IndexLibrary, Complete, NoDestination, Stop, Settled, request, summary
  <2> QED BY <1>a, <2>1, PauseKeepsGroups
<1>2. CASE Refuse \/ Crash
  <2>1. NothingDone({}) /\ pc' = "idle" /\ sources' = {} /\ ~calm'
    BY <1>2 DEF Refuse, Crash
  <2> QED BY <2>1, NothingDoneKeepsGroups
<1>3. ASSUME NEW keep \in Keeps, NEW folders \in Plans, Start(keep, folders) PROVE GroupInv'
  <2>1. NothingDone(keep \ Known) /\ pc' = "estimate" /\ sources' = kept' \cap Known
    BY <1>3 DEF Start
  <2> QED BY <2>1, NothingDoneKeepsGroups
<1>4. CASE AlreadyPresent \/ NameConflict \/ PhotoFails
  BY <1>a, <1>4, AnswerKeepsGroups
<1>5. CASE AlreadyCopied \/ PhotoCopied
  BY <1>a, <1>5, SettleKeepsGroups
<1>6. CASE CopyPhoto
  BY <1>a, <1>6, CopyKeepsGroups
<1>7. ASSUME NEW t, SiblingThere(t) PROVE GroupInv'
  BY <1>a, <1>7, ThereKeepsGroups
<1>8. ASSUME NEW t, CopySibling(t) PROVE GroupInv'
  BY <1>a, <1>8, CopySiblingKeepsGroups
<1>9. CASE SiblingCopied \/ SiblingFails
  BY <1>a, <1>9, EndSiblingKeepsGroups
<1>10. CASE SiblingsDone
  BY <1>a, <1>10, DoneKeepsGroups
<1>11. CASE UNCHANGED vars
  <2>1. UNCHANGED <<disk, pc, sources, kept, plan, related, target, placed, outcome, beside, errors,
                    calm>>
    BY <1>11 DEF vars, request, summary
  <2>2. Here' = Here /\ Settled' = Settled
    BY <2>1 DEF Here, Settled
  <2>3. /\ \A p, path, t : Beside(p, path, t)' = Beside(p, path, t)
        /\ \A path, t : InMaking(path, t)' = InMaking(path, t)
        /\ \A p : Subdir(p)' = Subdir(p)
    BY <2>1, <2>2 DEF Beside, InMaking, SameSize, Taken, SizeOn, SizeOf, Sibling, Subdir
  <2>4. SourcesInv' /\ ComingInv' /\ ArriveInv'
    BY <2>1, <2>2, <2>3 DEF GroupInv, SourcesInv, ComingInv, ArriveInv
  <2>5. CopyingInv'
    BY <2>1, <2>2 DEF GroupInv, CopyingInv, Taken, Sibling
  <2>6. RelatedInv'
    BY <2>1, <2>2, <2>3 DEF GroupInv, RelatedInv, Taken, Sibling
  <2>7. SiblingsFollow'
    <3>1. \A p, path, t :
            SameSize(Sibling(p, path, t), p, t)' = SameSize(Sibling(p, path, t), p, t)
      BY <2>1 DEF SameSize, Taken, SizeOn, SizeOf, Sibling
    <3> QED BY <2>1, <2>2, <3>1 DEF GroupInv, SiblingsFollow
  <2> QED BY <2>4, <2>5, <2>6, <2>7 DEF GroupInv
<1> QED
  BY <1>1, <1>2, <1>3, <1>4, <1>5, <1>6, <1>7, <1>8, <1>9, <1>10, <1>11 DEF Next, CommitStep

\* The strengthening that the theorems below rest on (commit_files).
THEOREM InductiveInvariant == Spec => []IInv
<1>1. IInv /\ [Next]_vars => IInv'
  BY StepKeepsWholeFiles, StepKeepsTarget, StepKeepsCounted DEF IInv
<1> QED BY <1>1, InitIInv, PTL DEF Spec

\* What the summary counts as copied or as already present is at the destination
\* and whole, whatever failed or died before.
THEOREM CommitCountsWhatIsThere == Spec => []CountedIsThere
<1>1. IInv => CountedIsThere
  BY DEF IInv
<1> QED BY <1>1, InductiveInvariant, PTL

\* A commit never overwrites, truncates or removes a file that is whole, neither the
\* user's own nor one that an earlier commit wrote.
THEOREM CommitTouchesNoWholeFile == Spec => WholeFilesStay
<1>1. IInv /\ [Next]_vars =>
        [\A f \in DOMAIN disk : disk[f].whole => f \in DOMAIN disk' /\ disk'[f] = disk[f]]_vars
  BY StepKeepsWholeFiles
<1> QED BY <1>1, InductiveInvariant, PTL DEF Spec, WholeFilesStay

\* Where the photos are, what is beside them and what the summary says of it.
THEOREM GroupsInductiveInvariant == Spec => [](IInv /\ GroupInv)
<1>1. Init => GroupInv
  BY DEF Init, GroupInv, SourcesInv, ComingInv, CopyingInv, RelatedInv, ArriveInv, SiblingsFollow,
    Settled
<1>2. IInv /\ GroupInv /\ [Next]_vars => GroupInv'
  BY StepKeepsGroups
<1> QED BY <1>1, <1>2, InductiveInvariant, PTL DEF Spec

\* The siblings of a photo that counts as copied are beside it under its name, or
\* the summary reports them;  under a suffix, nothing is in the way of any of them.
THEOREM SiblingsAlwaysFollow == Spec => []SiblingsFollow
<1>1. GroupInv => SiblingsFollow
  BY DEF GroupInv
<1> QED BY <1>1, GroupsInductiveInvariant, PTL

------------------------------------------------------------------------------
(* A commit that runs undisturbed leaves nothing for the next.                *)

\* What is already named keeps its name, as long as nothing stops the commit.
NamesInv ==
  calm /\ Merge /\ NoAlias =>
    /\ \A p \in kept \cap Known : \A f \in placed[p] :
         f \in DOMAIN disk /\ (f.n = 1 => f = Planned(p))
    /\ pc = "copying" =>
         \A f \in target : f \in DOMAIN disk /\ (f.n = 1 => f = Planned(Here))

\* A photo that was gone through is there, or it is reported.
ReportInv ==
  calm => \A p \in (kept \cap Known) \ sources :
    outcome[p] \in {"copied", "present"} \/ <<p, Main>> \in errors

\* Which folder is used again depends on the directories that are there.
LEMMA SameAlike ==
  ASSUME NEW dir, dir \in Dirs' <=> dir \in Dirs, Alike(dir)' = Alike(dir)
  PROVE  MatchExisting(dir)' = MatchExisting(dir)
BY DEF MatchExisting

\* A photo stays where it was planned while its plan and the directory it matches do.
LEMMA SamePlanned ==
  ASSUME NEW p, plan' = plan, MatchExisting(Subdir(p))' = MatchExisting(Subdir(p))
  PROVE  Planned(p)' = Planned(p)
<1>1. Subdir(p)' = Subdir(p)
  BY DEF Subdir
<1> QED BY <1>1, Zenon DEF Planned

\* A photo stays where it was planned while no directory is made.
LEMMA SameDirs ==
  ASSUME NEW p, plan' = plan, Dirs' = Dirs
  PROVE  Planned(p)' = Planned(p)
<1>1. Subdir(p)' = Subdir(p)
  BY DEF Subdir
<1>2. Alike(Subdir(p))' = Alike(Subdir(p))
  BY <1>1 DEF Alike
<1>3. MatchExisting(Subdir(p))' = MatchExisting(Subdir(p))
  BY <1>1, <1>2, SameAlike
<1> QED BY <1>3, SamePlanned

\* A directory that is in no folder's way leaves the plan as it is.
LEMMA NewDirs ==
  ASSUME NEW p, NEW dir, plan' = plan, Merge, Dirs' = Dirs \cup {dir},
         Subdir(p) = NoDir \/ Planned(p).dir \in Dirs,
         Subdir(p) # NoDir /\ dir \notin Dirs => Folded[dir] # Folded[Subdir(p)]
  PROVE  Planned(p)' = Planned(p)
<1>1. Subdir(p)' = Subdir(p)
  BY DEF Subdir
<1>2. CASE Subdir(p) = NoDir
  BY <1>1, <1>2 DEF Planned
<1>3. CASE Subdir(p) # NoDir
  <2>1. MatchExisting(Subdir(p)) \in Dirs
    BY <1>3 DEF Planned
  <2>2. Alike(Subdir(p))' = Alike(Subdir(p)) /\ (Subdir(p) \in Dirs' <=> Subdir(p) \in Dirs)
    BY <1>1, <1>3 DEF Alike
  <2>3. MatchExisting(Subdir(p))' = MatchExisting(Subdir(p))
    BY <1>1, <2>2, SameAlike
  <2> QED BY <2>3, SamePlanned
<1> QED BY <1>2, <1>3

\* The first of a listing is in it.
LEMMA FirstIsListed ==
  ASSUME NEW listing, listing # {}
  PROVE  FirstOf(listing) \in listing
BY DEF FirstOf

\* The directory that is used differs from the planned one in capitals at most.
LEMMA MatchIsAlike ==
  ASSUME NEW dir
  PROVE  /\ Folded[MatchExisting(dir)] = Folded[dir]
         /\ MatchExisting(dir) \in Dirs \/ (MatchExisting(dir) = dir /\ Alike(dir) = {})
<1>1. CASE dir \in Dirs \/ Alike(dir) = {}
  BY <1>1 DEF MatchExisting
<1>2. CASE dir \notin Dirs /\ Alike(dir) # {}
  <2>1. MatchExisting(dir) \in Alike(dir)
    BY <1>2, FirstIsListed DEF MatchExisting
  <2> QED BY <2>1 DEF Alike
<1> QED BY <1>1, <1>2

\* A photo finds its own directory again.
LEMMA OwnDir ==
  ASSUME NEW p, plan' = plan, Merge, Dirs' = Dirs \cup {Planned(p).dir}
  PROVE  Planned(p)' = Planned(p)
<1>1. Subdir(p)' = Subdir(p)
  BY DEF Subdir
<1>2. CASE Subdir(p) = NoDir
  BY <1>1, <1>2 DEF Planned
<1>3. CASE Subdir(p) # NoDir
  <2>1. Planned(p).dir = MatchExisting(Subdir(p))
    BY <1>3 DEF Planned
  <2>2. CASE MatchExisting(Subdir(p)) \in Dirs
    <3>1. Dirs' = Dirs
      BY <2>1, <2>2
    <3> QED BY <3>1, SameDirs
  <2>3. CASE MatchExisting(Subdir(p)) \notin Dirs
    <3>1. MatchExisting(Subdir(p)) = Subdir(p)
      BY <2>3, MatchIsAlike
    <3>2. Subdir(p)' \in Dirs'
      BY <1>1, <2>1, <3>1
    <3>3. MatchExisting(Subdir(p))' = MatchExisting(Subdir(p))
      BY <1>1, <3>1, <3>2 DEF MatchExisting
    <3> QED BY <3>3, SamePlanned
  <2> QED BY <2>2, <2>3
<1> QED BY <1>2, <1>3

\* The directory that one photo's copy makes is in no other's way.
LEMMA OtherDirs ==
  ASSUME NEW p \in kept \cap Known, NEW q \in kept \cap Known, Merge, NoAlias, plan' = plan,
         Dirs' = Dirs \cup {Planned(q).dir}, Planned(p).dir \in Dirs
  PROVE  Planned(p)' = Planned(p)
<1> DEFINE dir == Planned(q).dir
<1>1. ASSUME Subdir(p) # NoDir, dir \notin Dirs PROVE Folded[dir] # Folded[Subdir(p)]
  <2>1. CASE Subdir(q) = NoDir
    <3>1. dir = Home[q]
      BY <2>1 DEF Planned
    <3> QED BY <1>1, <2>1, <3>1 DEF NoAlias
  <2>2. CASE Subdir(q) # NoDir
    <3>1. dir = MatchExisting(Subdir(q)) /\ Planned(p).dir = MatchExisting(Subdir(p))
      BY <1>1, <2>2 DEF Planned
    <3>2. dir = Subdir(q) /\ Alike(Subdir(q)) = {}
      BY <1>1, <3>1, MatchIsAlike
    <3>3. Folded[Planned(p).dir] = Folded[Subdir(p)]
      BY <3>1, MatchIsAlike
    <3> QED BY <3>2, <3>3 DEF Alike
  <2> QED BY <2>1, <2>2
<1> HIDE DEF dir
<1>2. Dirs' = Dirs \cup {dir}
  BY DEF dir
<1> QED BY <1>1, <1>2, NewDirs

\* No directory comes in, and what is placed now is what was, or has its planned name.
LEMMA NamesStay ==
  ASSUME NamesInv, calm, Merge, NoAlias, UNCHANGED <<kept, plan>>, Dirs' = Dirs,
         DOMAIN disk \subseteq DOMAIN disk',
         \A p \in kept \cap Known : \A f \in placed'[p] :
           f \in placed[p] \/ (f \in DOMAIN disk /\ (f.n = 1 => f = Planned(p))),
         pc' = "copying" => pc = "copying" /\ Here' = Here /\ target' = target
  PROVE  NamesInv'
<1>1. \A p : Planned(p)' = Planned(p)
  BY SameDirs
<1>2. \A p \in kept \cap Known : \A f \in placed'[p] :
        f \in DOMAIN disk' /\ (f.n = 1 => f = Planned(p)')
  BY <1>1 DEF NamesInv
<1>3. pc' = "copying" =>
        \A f \in target' : f \in DOMAIN disk' /\ (f.n = 1 => f = Planned(Here))
  BY DEF NamesInv
<1>4. pc' = "copying" => Planned(Here)' = Planned(Here)
  BY SameDirs
<1> QED BY <1>2, <1>3, <1>4 DEF NamesInv

\* A photo is copied under its planned name, or under one with a suffix.
LEMMA CopyKeepsNames ==
  ASSUME NamesInv, GroupInv, CopyPhoto, calm, Merge, NoAlias
  PROVE  NamesInv'
<1>1. /\ sources # {} /\ sources \subseteq kept \cap Known
      /\ UNCHANGED <<sources, kept, plan, placed>>
  BY DEF CopyPhoto, GroupInv, SourcesInv, request, summary
<1>2. Here \in kept \cap Known /\ Here' = Here
  BY <1>1, HereIsLeft, PhotoAssumption DEF Here
<1>3. PICK g : /\ Writing(g, BytesOf[<<Here, Main>>])
               /\ g.dir = Planned(Here).dir /\ (g.n = 1 => g = Planned(Here))
  <2>1. CASE Taken(Planned(Here))
    <3>1. PICK n \in Suffixes(Here) : Writing(Numbered(Here, n), BytesOf[<<Here, Main>>])
      BY <2>1 DEF CopyPhoto
    <3>2. Numbered(Here, n).dir = Planned(Here).dir /\ Numbered(Here, n).n = n
      BY DEF Numbered, Planned
    <3>3. n # 1
      BY DEF Suffixes
    <3> QED BY <3>1, <3>2, <3>3
  <2>2. CASE ~Taken(Planned(Here))
    BY <2>2 DEF CopyPhoto
  <2> QED BY <2>1, <2>2
<1>4. target' = {g} /\ DOMAIN disk' = DOMAIN disk \cup {g}
  BY <1>3 DEF Writing
<1>5. Dirs' = Dirs \cup {Planned(Here).dir}
  BY <1>3, <1>4 DEF Dirs
<1>6. ASSUME NEW p \in kept \cap Known, NEW f \in placed[p]
      PROVE  f \in DOMAIN disk' /\ (f.n = 1 => f = Planned(p)')
  <2>1. f \in DOMAIN disk /\ (f.n = 1 => f = Planned(p))
    BY <1>6 DEF NamesInv
  <2>2. f.n = 1 => Planned(p).dir \in Dirs
    BY <2>1 DEF Dirs
  <2>3. f.n = 1 => Planned(p)' = Planned(p)
    BY <1>1, <1>2, <1>5, <2>2, OtherDirs
  <2> QED BY <1>4, <2>1, <2>3
<1>7. Planned(Here)' = Planned(Here)
  <2> DEFINE h == Here
  <2> HIDE DEF h
  <2>1. \A p : p = h => Planned(p)' = Planned(p)
    BY <1>1, <1>5, OwnDir DEF h
  <2> QED BY <1>2, <2>1 DEF h
<1> QED BY <1>1, <1>2, <1>3, <1>4, <1>6, <1>7 DEF NamesInv

\* Every step writes under the names that were planned (NamesInv).
LEMMA StepKeepsNames ==
  ASSUME IInv, GroupInv, NamesInv, [Next]_vars
  PROVE  NamesInv'
<1>1. ASSUME NEW keep \in Keeps, NEW folders \in Plans, Start(keep, folders) PROVE NamesInv'
  <2>1. pc' = "estimate" /\ placed' = [p \in Photos |-> {}]
    BY <1>1 DEF Start, NothingDone
  <2> QED BY <2>1, PhotoAssumption DEF NamesInv
<1>2. CASE NoDestination \/ Stop \/ Refuse \/ Crash \/ PhotoFails \/ SiblingFails
  BY <1>2 DEF NoDestination, Stop, Refuse, Crash, PhotoFails, SiblingFails, NamesInv
<1>3. CASE /\ UNCHANGED <<kept, plan, calm>>
           /\ \/ IndexLibrary \/ Complete \/ SiblingsDone \/ SiblingCopied
              \/ AlreadyPresent \/ NameConflict \/ AlreadyCopied \/ PhotoCopied \/ CopyPhoto
              \/ \E t : SiblingThere(t) \/ CopySibling(t)
              \/ UNCHANGED vars
  <2>1. SUFFICES ASSUME calm, Merge, NoAlias PROVE NamesInv'
    BY <1>3 DEF NamesInv, NoAlias, Subdir
  <2>2. CASE \/ IndexLibrary \/ Complete \/ SiblingsDone \/ AlreadyPresent \/ NameConflict
             \/ \E t : SiblingThere(t)
             \/ UNCHANGED vars
    <3>1. disk' = disk /\ placed' = placed
      BY <2>2 DEF IndexLibrary, Complete, SiblingsDone, AlreadyPresent, NameConflict, SiblingThere,
        vars, summary
    <3>2. pc' = "copying" => pc' = pc /\ sources' = sources /\ target' = target
      BY <2>2 DEF IndexLibrary, Complete, SiblingsDone, AlreadyPresent, NameConflict, SiblingThere,
        vars
    <3>3. Dirs' = Dirs /\ (pc' = "copying" => Here' = Here)
      BY <3>1, <3>2 DEF Dirs, Here
    <3> QED BY <1>3, <2>1, <3>1, <3>2, <3>3, NamesStay
  <2>3. CASE SiblingCopied \/ PhotoCopied
    <3>1. DOMAIN disk' = DOMAIN disk /\ pc' # "copying"
      BY <2>3, WrittenMakesWhole DEF SiblingCopied, PhotoCopied, Settle, IInv
    <3>2. Dirs' = Dirs
      BY <3>1 DEF Dirs
    <3>3. ASSUME NEW p \in kept \cap Known, NEW f \in placed'[p]
          PROVE  f \in placed[p] \/ (f \in DOMAIN disk /\ (f.n = 1 => f = Planned(p)))
      <4>1. CASE SiblingCopied
        BY <3>3, <4>1 DEF SiblingCopied
      <4>2. CASE PhotoCopied
        <5>1. PICK path \in target : placed' = [placed EXCEPT ![Here] = {path}]
          BY <4>2 DEF PhotoCopied, Settle
        <5>2. path \in DOMAIN disk /\ (path.n = 1 => path = Planned(Here))
          BY <2>1, <4>2, <5>1 DEF PhotoCopied, NamesInv
        <5> QED BY <3>3, <5>1, <5>2, PhotoAssumption DEF IInv, Summaries
      <4> QED BY <2>3, <4>1, <4>2
    <3> QED BY <1>3, <2>1, <3>1, <3>2, <3>3, NamesStay
  <2>4. CASE AlreadyCopied
    <3>1. /\ disk' = disk /\ pc' # "copying" /\ Planned(Here) \in DOMAIN disk
          /\ placed' = [placed EXCEPT ![Here] = {Planned(Here)}]
      BY <2>4 DEF AlreadyCopied, Settle, SameSize, Taken
    <3>2. Dirs' = Dirs
      BY <3>1 DEF Dirs
    <3>3. ASSUME NEW p \in kept \cap Known, NEW f \in placed'[p]
          PROVE  f \in placed[p] \/ (f \in DOMAIN disk /\ (f.n = 1 => f = Planned(p)))
      BY <3>1, <3>3, PhotoAssumption DEF IInv, Summaries
    <3> QED BY <1>3, <2>1, <3>1, <3>2, <3>3, NamesStay
  <2>5. ASSUME NEW t, CopySibling(t) PROVE NamesInv'
    <3>1. pc = "related" /\ pc' = "sibling" /\ UNCHANGED placed
      BY <2>5 DEF CopySibling, summary
    <3>2. sources \subseteq kept \cap Known /\ Here \in kept \cap Known
      BY <3>1, HereIsLeft, PhotoAssumption DEF GroupInv, SourcesInv
    <3>3. PICK path \in placed[Here] : placed[Here] = {path} /\ IsPath(path)
      BY <3>1 DEF GroupInv, RelatedInv, Settled
    <3>4. DOMAIN disk' = DOMAIN disk \cup {Sibling(Here, path, t)}
      BY <2>5, <3>3 DEF CopySibling, Writing
    <3>5. Sibling(Here, path, t).dir = path.dir
      BY <3>3 DEF IsPath, Sibling
    <3>6. path \in DOMAIN disk
      BY <2>1, <3>2, <3>3 DEF NamesInv
    <3>7. Dirs' = Dirs
      BY <3>4, <3>5, <3>6 DEF Dirs
    <3> QED BY <1>3, <2>1, <3>1, <3>4, <3>7, NamesStay
  <2>6. CASE CopyPhoto
    BY <2>1, <2>6, CopyKeepsNames
  <2> QED BY <1>3, <2>2, <2>3, <2>4, <2>5, <2>6
<1>4. \/ IndexLibrary \/ Complete \/ SiblingsDone \/ SiblingCopied
      \/ AlreadyPresent \/ NameConflict \/ AlreadyCopied \/ PhotoCopied \/ CopyPhoto
      \/ \E t : SiblingThere(t) \/ CopySibling(t)
      \/ UNCHANGED vars
      => UNCHANGED <<kept, plan, calm>>
  BY DEF IndexLibrary, Complete, SiblingsDone, SiblingCopied, AlreadyPresent, NameConflict,
    AlreadyCopied, PhotoCopied, CopyPhoto, SiblingThere, CopySibling, vars, request
<1> QED BY <1>1, <1>2, <1>3, <1>4 DEF Next, CommitStep

\* Every step counts what it did (ReportInv).
LEMMA StepKeepsReports ==
  ASSUME IInv, GroupInv, ReportInv, [Next]_vars
  PROVE  ReportInv'
<1>1. ASSUME NEW keep \in Keeps, NEW folders \in Plans, Start(keep, folders) PROVE ReportInv'
  BY <1>1 DEF Start, ReportInv
<1>2. CASE NoDestination \/ Stop \/ Refuse \/ Crash \/ PhotoFails \/ SiblingFails
  BY <1>2 DEF NoDestination, Stop, Refuse, Crash, PhotoFails, SiblingFails, ReportInv
<1>3. CASE AlreadyPresent \/ NameConflict
  <2>1. /\ UNCHANGED <<kept, calm>> /\ sources' = sources \ {Here} /\ errors \subseteq errors'
        /\ \E result : /\ outcome' = [outcome EXCEPT ![Here] = result]
                       /\ result = "present" \/ <<Here, Main>> \in errors'
    BY <1>3 DEF AlreadyPresent, NameConflict, Answer, request
  <2>2. /\ \A p \in Photos : p # Here => outcome'[p] = outcome[p]
        /\ Here \in Photos => outcome'[Here] = "present" \/ <<Here, Main>> \in errors'
    BY <2>1 DEF IInv, Summaries
  <2> QED BY <2>1, <2>2, PhotoAssumption DEF ReportInv
<1>4. CASE AlreadyCopied \/ PhotoCopied
  <2>1. /\ UNCHANGED <<kept, calm, sources, errors>>
        /\ outcome' = [outcome EXCEPT ![Here] = "copied"]
    BY <1>4 DEF AlreadyCopied, PhotoCopied, Settle, request
  <2> QED BY <2>1, PhotoAssumption DEF IInv, Summaries, ReportInv
<1>5. CASE SiblingsDone
  <2>1. UNCHANGED <<kept, calm, outcome, errors>> /\ sources' = sources \ {Here}
    BY <1>5 DEF SiblingsDone, request, summary
  <2>2. outcome[Here] = "copied"
    BY <1>5 DEF SiblingsDone, GroupInv, ArriveInv, Settled
  <2> QED BY <2>1, <2>2 DEF ReportInv
<1>6. CASE \/ IndexLibrary \/ Complete \/ CopyPhoto \/ SiblingCopied \/ UNCHANGED vars
           \/ \E t : SiblingThere(t) \/ CopySibling(t)
  <2>1. UNCHANGED <<kept, calm, outcome, sources>> /\ errors \subseteq errors'
    BY <1>6 DEF IndexLibrary, Complete, CopyPhoto, SiblingCopied, vars, SiblingThere, CopySibling,
      request, summary
  <2> QED BY <2>1 DEF ReportInv
<1> QED BY <1>1, <1>2, <1>3, <1>4, <1>5, <1>6 DEF Next, CommitStep

\* With nothing to write, there are no bytes to write.
LEMMA NothingIsNoBytes ==
  ASSUME \A p \in kept \cap Known : Present(p, DOMAIN disk)
  PROVE  NewBytes = 0
<1>1. {p \in kept \cap Known : ~Present(p, DOMAIN disk)} = {}
  OBVIOUS
<1> DEFINE iter == CHOOSE iter : iter = [s \in SUBSET {} |->
                     IF s = {} THEN 0
                     ELSE ItemBytes(CHOOSE x \in s : TRUE) + iter[s \ {CHOOSE x \in s : TRUE}]]
<1>2. NewBytes = iter[{}]
  BY <1>1 DEF NewBytes, MapThenSumSet, MapThenFoldSet
<1> QED BY <1>2

\* A photo that is counted, in whatever way, is not copied again.
LEMMA CountedIsPresent ==
  ASSUME IInv, NamesInv, calm, Merge, NoAlias,
         NEW p \in kept \cap Known, outcome[p] \in {"copied", "present"}
  PROVE  Present(p, DOMAIN disk)
<1>1. PICK f \in DOMAIN disk :
        /\ disk[f].whole
        /\ \/ disk[f].bytes = BytesOf[<<p, Main>>]
           \/ f \in placed[p] /\ f.n = 1 /\ SizeOn(f) = SizeOf(p, Main)
  BY PhotoAssumption DEF IInv, CountedIsThere
<1>2. CASE disk[f].bytes = BytesOf[<<p, Main>>]
  <2>1. disk[f] = [bytes |-> disk[f].bytes, whole |-> disk[f].whole] /\ disk[f].whole = TRUE
    BY <1>1 DEF IInv, FilesAreFiles, IsFile
  <2>2. disk[f] = [bytes |-> BytesOf[<<p, Main>>], whole |-> TRUE]
    BY <1>2, <2>1
  <2> QED BY <2>2 DEF Present, InLibrary, Taken
<1>3. CASE f \in placed[p] /\ f.n = 1 /\ SizeOn(f) = SizeOf(p, Main)
  <2>1. f = Planned(p)
    BY <1>3 DEF NamesInv
  <2> QED BY <1>3, <2>1 DEF Present, SameSize, Taken
<1> QED BY <1>1, <1>2, <1>3

\* Re-committing is safe: an undisturbed commit brings every photo that has a folder
\* into the destination, and if nothing was in its way it leaves nothing to write.
THEOREM RecommitAlwaysHeals == Spec => []RecommitHeals
<1>1. Init => NamesInv /\ ReportInv
  BY DEF Init, NamesInv, ReportInv
<1>2. IInv /\ GroupInv /\ NamesInv /\ [Next]_vars => NamesInv'
  BY StepKeepsNames
<1>3. IInv /\ GroupInv /\ ReportInv /\ [Next]_vars => ReportInv'
  BY StepKeepsReports
<1>4. IInv /\ GroupInv /\ NamesInv /\ ReportInv => RecommitHeals
  <2>1. SUFFICES ASSUME IInv, GroupInv, NamesInv, ReportInv, pc = "done", calm
                 PROVE  /\ EveryFolderPhotoArrives
                        /\ Merge /\ errors = {} /\ NoAlias => NewBytes = 0
    BY DEF RecommitHeals
  <2>2. sources = {}
    BY <2>1 DEF GroupInv, ArriveInv
  <2>3. EveryFolderPhotoArrives
    BY <2>1, <2>2 DEF GroupInv, ArriveInv, EveryFolderPhotoArrives
  <2>4. ASSUME Merge, errors = {}, NoAlias PROVE NewBytes = 0
    <3>1. \A p \in kept \cap Known : outcome[p] \in {"copied", "present"}
      BY <2>1, <2>2, <2>4 DEF ReportInv
    <3>2. \A p \in kept \cap Known : Present(p, DOMAIN disk)
      BY <2>1, <2>4, <3>1, CountedIsPresent
    <3> QED BY <3>2, NothingIsNoBytes
  <2> QED BY <2>3, <2>4
<1> QED BY <1>1, <1>2, <1>3, <1>4, GroupsInductiveInvariant, PTL DEF Spec
==============================================================================
