-------------------------------- MODULE Commit --------------------------------
(***************************************************************************)
(* The commit pass:  it copies the photos the user keeps, each with its    *)
(* related files, into a destination that may hold a library already       *)
(* (backend/src/pass/commit.cpp, backend/src/service/commit_pass.cpp).     *)
(*                                                                         *)
(* A copy is two steps, so that it can fail, or the process can die, with  *)
(* part of a file on disk.  A commit may be stopped between two photos and *)
(* is run again over what the ones before it left.                         *)
(***************************************************************************)
EXTENDS Naturals, FiniteSetsExt

CONSTANTS
  Photos,       (* the ids the wizard may keep                                *)
  Known,        (* those that the session has a record of                     *)
  Place,        (* where each stands in a request                             *)
  Home,         (* a photo's directory in the session folder                  *)
  Stem, Ext,    (* its file name                                              *)
  Siblings,     (* what find_companions returns: the rest of each name        *)
  Size,         (* how large each file's bytes are                            *)
  BytesOf,      (* the bytes of <<photo, Main>> and of <<photo, sibling>>     *)
  Main,
  Keeps, Plans, (* the keep ids and the folder plans of the requests          *)
  NoDir,        (* no folder_for_id: the source tree is preserved             *)
  Outside,      (* a sub-path that is absolute or climbs out of the destination *)
  Folded,       (* a directory's name in lower case                           *)
  Before,       (* the files at the destination before the first commit       *)
  Merge,        (* merge_existing; the wizard always sets it                  *)
  Faults,       (* whether copies fail and the process dies                   *)
  MaxRuns       (* bound: commits                                             *)

ASSUME PhotoAssumption == Known \subseteq Photos /\ Place \in [Photos -> Nat]
ASSUME FileAssumption ==
  \A p \in Photos : \A t \in Siblings[p] \cup {Main} : BytesOf[<<p, t>>] \in DOMAIN Size
ASSUME CompanionAssumption == \A p \in Photos : {Ext[p], Main} \cap Siblings[p] = {}
ASSUME SizeAssumption == \A bytes \in DOMAIN Size : Size[bytes] \in Nat \ {0}
ASSUME LibraryAssumption ==
  \A f \in DOMAIN Before : Before[f] = [bytes |-> Before[f].bytes, whole |-> TRUE]
ASSUME BoundAssumption == MaxRuns \in Nat
ASSUME SwitchAssumption == Merge \in BOOLEAN /\ Faults \in BOOLEAN

VARIABLES
  disk,      (* the destination: path -> its bytes and whether all are there  *)
  pc,        (* what commit_files does                                        *)
  sources,   (* the photos it has yet to go through, the current one too      *)
  kept, plan,(* the request                                                   *)
  library,   (* build_library_index: the paths that were there at its start   *)
  placed,    (* where each photo that counts as copied is                     *)
  related,   (* the siblings of the current photo it has yet to copy          *)
  target,    (* the file being written                                        *)
  outcome,   (* the summary, per photo                                        *)
  beside,    (* the summary's companions                                      *)
  errors,    (* the summary's errors                                          *)
  calm,      (* history: nothing stopped or disturbed the present commit      *)
  runs       (* history: commits so far                                       *)

request == <<kept, plan, library>>
summary == <<placed, outcome, beside, errors>>
vars == <<disk, pc, sources, request, related, target, summary, calm, runs>>

\* Photos are copied one after the other, in the order of the request.
Here == CHOOSE p \in sources : \A q \in sources : Place[p] <= Place[q]
Sibling(p, path, t) == [path EXCEPT !.ext = t]
SizeOf(p, t) == Size[BytesOf[<<p, t>>]]

\* What is on disk of a file that is not whole is shorter than the file.
SizeOn(path) == IF disk[path].whole THEN Size[disk[path].bytes] ELSE 0
Taken(path) == path \in DOMAIN disk

\* Mutant: any file of that name will do.
SameName(path, p, t) == Taken(path)

\* A file of that name and size counts as the file.
SameSize(path, p, t) == Taken(path) /\ SizeOn(path) = SizeOf(p, t)

------------------------------------------------------------------------------
(* Where a photo goes.                                                        *)

Dirs == {path.dir : path \in DOMAIN disk}

\* match_existing_dirs: a folder that differs in letter case only is used again, the
\* first that the directory lists.
Alike(dir) == {d \in Dirs : Folded[d] = Folded[dir]}
FirstOf(listing) == CHOOSE d \in listing : TRUE
MatchExisting(dir) == IF dir \in Dirs \/ Alike(dir) = {} THEN dir ELSE FirstOf(Alike(dir))

\* collect_commit_sources drops a sub-path that leads out of the destination.
Subdir(p) == IF plan[p] = Outside THEN NoDir ELSE plan[p]

\* destination_path
Planned(p) ==
  [dir |-> IF Subdir(p) = NoDir THEN Home[p]
           ELSE IF Merge THEN MatchExisting(Subdir(p)) ELSE Subdir(p),
   stem |-> Stem[p], n |-> 1, ext |-> Ext[p]]

AnyExists(p, path) == Taken(path) \/ \E t \in Siblings[p] : Taken(Sibling(p, path, t))

Numbered(p, n) == [Planned(p) EXCEPT !.n = n]

\* Mutant: the search for a suffix looks at the photo's own name only.
FreesAlone(p, n) == ~Taken(Numbered(p, n))

Frees(p, n) == ~AnyExists(p, Numbered(p, n))

\* The first -<n> that is free for the photo and for all its siblings.
Suffixes(p) ==
  {n \in 2 .. Cardinality(DOMAIN disk) + 2 : Frees(p, n) /\ \A m \in 2 .. n - 1 : ~Frees(p, m)}

\* in_library: the index is by size and from the start, the bytes are compared now.
InLibrary(p, index) ==
  /\ Merge
  /\ \E path \in index :
       Taken(path) /\ disk[path] = [bytes |-> BytesOf[<<p, Main>>], whole |-> TRUE]

------------------------------------------------------------------------------
(* estimate_commit                                                            *)

Present(p, index) == SameSize(Planned(p), p, Main) \/ InLibrary(p, index)
ItemBytes(p) == SizeOf(p, Main) + MapThenSumSet(LAMBDA t : SizeOf(p, t), Siblings[p])
NewBytes == MapThenSumSet(ItemBytes, {p \in kept \cap Known : ~Present(p, DOMAIN disk)})

------------------------------------------------------------------------------
\* An empty summary, but for the ids that have no record.
NothingDone(unknown) ==
  /\ placed' = [p \in Photos |-> {}] /\ beside' = {}
  /\ outcome' = [p \in Photos |-> IF p \in unknown THEN "failed" ELSE "none"]
  /\ errors' = {<<p, Main>> : p \in unknown}

Init ==
  /\ disk = Before
  /\ pc = "idle" /\ sources = {} /\ related = {} /\ target = {}
  /\ kept = {} /\ plan = [p \in Photos |-> NoDir] /\ library = {}
  /\ placed = [p \in Photos |-> {}] /\ outcome = [p \in Photos |-> "none"]
  /\ beside = {} /\ errors = {}
  /\ calm = TRUE /\ runs = 0

\* engine::commit: an id without a record is an error of the summary.
Start(keep, folders) ==
  /\ pc \in {"idle", "done"} /\ runs < MaxRuns
  /\ pc' = "estimate" /\ runs' = runs + 1 /\ calm' = TRUE
  /\ kept' = keep /\ plan' = folders /\ library' = {}
  /\ sources' = keep \cap Known
  /\ NothingDone(keep \ Known)
  /\ UNCHANGED <<disk, related, target>>

\* The bytes to write do not fit:  the call fails and nothing is copied.
Refuse ==
  /\ Faults
  /\ pc = "estimate" /\ NewBytes > 0
  /\ pc' = "idle" /\ calm' = FALSE /\ sources' = {} /\ NothingDone({})
  /\ UNCHANGED <<disk, request, related, target, runs>>

\* build_library_index
IndexLibrary ==
  /\ pc = "estimate"
  /\ pc' = "next" /\ library' = DOMAIN disk
  /\ UNCHANGED <<disk, sources, kept, plan, related, target, summary, calm, runs>>

\* The destination cannot be made: a summary that says so, and nothing else.
NoDestination ==
  /\ Faults
  /\ pc = "estimate"
  /\ pc' = "done" /\ calm' = FALSE /\ sources' = {}
  /\ UNCHANGED <<disk, request, related, target, summary, runs>>

Answer(p, result) ==
  /\ outcome' = [outcome EXCEPT ![p] = result]
  /\ sources' = sources \ {Here}

\* The photo is in place:  what remains are its siblings.
Settle(p, path) ==
  /\ outcome' = [outcome EXCEPT ![p] = "copied"]
  /\ placed' = [placed EXCEPT ![p] = {path}]
  /\ related' = Siblings[p] /\ pc' = "related" /\ target' = {}

\* The photo's file is already there, from an earlier commit or in its own right.
AlreadyCopied ==
  /\ pc = "next" /\ sources # {}
  /\ SameSize(Planned(Here), Here, Main)
  /\ Settle(Here, Planned(Here))
  /\ UNCHANGED <<disk, sources, request, beside, errors, calm, runs>>

AlreadyPresent ==
  /\ pc = "next" /\ sources # {}
  /\ ~SameSize(Planned(Here), Here, Main) /\ InLibrary(Here, library)
  /\ Answer(Here, "present")
  /\ UNCHANGED <<disk, pc, request, related, target, placed, beside, errors, calm, runs>>

\* Mutant: a name that is taken is a conflict in a trip's folder too.
AnyConflict ==
  /\ pc = "next" /\ sources # {}
  /\ ~Present(Here, library) /\ Taken(Planned(Here))
  /\ Answer(Here, "skipped") /\ errors' = errors \cup {<<Here, Main>>}
  /\ UNCHANGED <<disk, pc, request, related, target, placed, beside, calm, runs>>

\* Another file has the name, and in the preserved layout there is no other.
NameConflict ==
  /\ pc = "next" /\ sources # {}
  /\ ~Present(Here, library)
  /\ Taken(Planned(Here)) /\ Subdir(Here) = NoDir
  /\ Answer(Here, "skipped") /\ errors' = errors \cup {<<Here, Main>>}
  /\ UNCHANGED <<disk, pc, request, related, target, placed, beside, calm, runs>>

\* fs::copy has created the file.
Writing(path, bytes) ==
  /\ disk' = [f \in DOMAIN disk \cup {path} |->
                IF f = path THEN [bytes |-> bytes, whole |-> FALSE] ELSE disk[f]]
  /\ target' = {path}

\* Mutant: a name that is taken is written over.
CopyOver ==
  /\ pc = "next" /\ sources # {}
  /\ ~Present(Here, library)
  /\ Writing(Planned(Here), BytesOf[<<Here, Main>>]) /\ pc' = "copying"
  /\ UNCHANGED <<sources, request, related, summary, calm, runs>>

\* A photo goes under its own name, or under a suffix when the folder has the
\* name already.
CopyPhoto ==
  /\ pc = "next" /\ sources # {}
  /\ ~Present(Here, library)
  /\ IF Taken(Planned(Here))
     THEN /\ Subdir(Here) # NoDir
          /\ \E n \in Suffixes(Here) : Writing(Numbered(Here, n), BytesOf[<<Here, Main>>])
     ELSE Writing(Planned(Here), BytesOf[<<Here, Main>>])
  /\ pc' = "copying"
  /\ UNCHANGED <<sources, request, related, summary, calm, runs>>

Written ==
  disk' = [f \in DOMAIN disk |->
             IF f \in target THEN [bytes |-> disk[f].bytes, whole |-> TRUE] ELSE disk[f]]

PhotoCopied ==
  /\ pc = "copying" /\ Written
  /\ \E path \in target : Settle(Here, path)
  /\ UNCHANGED <<sources, request, beside, errors, calm, runs>>

\* A copy fails:  part of the file may stay.
Torn == \/ UNCHANGED disk
        \/ disk' = [f \in DOMAIN disk \ target |-> disk[f]]

\* create_directories or the copy fails;  the commit goes on with the next photo.
PhotoFails ==
  /\ Faults
  /\ \/ pc = "copying" /\ Torn
     \/ pc = "next" /\ sources # {} /\ ~Present(Here, library) /\ UNCHANGED disk
  /\ Answer(Here, "failed") /\ errors' = errors \cup {<<Here, Main>>}
  /\ pc' = "next" /\ target' = {} /\ calm' = FALSE
  /\ UNCHANGED <<request, related, placed, beside, runs>>

\* copy_companions: one sibling is there already, or its name is taken.
SiblingThere(t) ==
  /\ pc = "related" /\ t \in related
  /\ \E path \in placed[Here] :
       LET f == Sibling(Here, path, t) IN
       /\ Taken(f)
       /\ IF SameSize(f, Here, t)
          THEN beside' = beside \cup {<<Here, t>>} /\ UNCHANGED errors
          ELSE errors' = errors \cup {<<Here, t>>} /\ UNCHANGED beside
  /\ related' = related \ {t}
  /\ UNCHANGED <<disk, pc, sources, request, target, placed, outcome, calm, runs>>

CopySibling(t) ==
  /\ pc = "related" /\ t \in related
  /\ \E path \in placed[Here] :
       LET f == Sibling(Here, path, t) IN
       ~Taken(f) /\ Writing(f, BytesOf[<<Here, t>>])
  /\ related' = related \ {t} /\ pc' = "sibling"
  /\ UNCHANGED <<sources, request, summary, calm, runs>>

SiblingCopied ==
  /\ pc = "sibling" /\ Written
  /\ \E path \in target : beside' = beside \cup {<<Here, path.ext>>}
  /\ pc' = "related" /\ target' = {}
  /\ UNCHANGED <<sources, request, related, placed, outcome, errors, calm, runs>>

\* A sibling that fails is reported and does not undo the photo.
SiblingFails ==
  /\ Faults /\ pc = "sibling" /\ Torn
  /\ \E path \in target : errors' = errors \cup {<<Here, path.ext>>}
  /\ pc' = "related" /\ target' = {} /\ calm' = FALSE
  /\ UNCHANGED <<sources, request, related, placed, outcome, beside, runs>>

SiblingsDone ==
  /\ pc = "related" /\ related = {}
  /\ pc' = "next" /\ sources' = sources \ {Here}
  /\ UNCHANGED <<disk, request, related, target, summary, calm, runs>>

Complete ==
  /\ pc = "next" /\ sources = {}
  /\ pc' = "done"
  /\ UNCHANGED <<disk, sources, request, related, target, summary, calm, runs>>

\* A cancel takes effect between two photos.
Stop ==
  /\ pc = "next" /\ sources # {}
  /\ pc' = "done" /\ calm' = FALSE /\ sources' = {}
  /\ UNCHANGED <<disk, request, related, target, summary, runs>>

\* The process dies, anywhere;  the destination keeps what was written.
Crash ==
  /\ Faults /\ pc \notin {"idle", "done"}
  /\ pc' = "idle" /\ calm' = FALSE
  /\ sources' = {} /\ related' = {} /\ target' = {}
  /\ NothingDone({})
  /\ UNCHANGED <<disk, request, runs>>

CommitStep ==
  \/ IndexLibrary \/ NoDestination
  \/ AlreadyCopied \/ AlreadyPresent \/ NameConflict \/ CopyPhoto \/ PhotoCopied \/ PhotoFails
  \/ SiblingCopied \/ SiblingFails \/ SiblingsDone \/ Complete
  \/ \E p \in Photos : \E t \in Siblings[p] : SiblingThere(t) \/ CopySibling(t)

Next ==
  \/ \E keep \in Keeps, folders \in Plans : Start(keep, folders)
  \/ CommitStep \/ Refuse \/ Stop \/ Crash

Spec == Init /\ [][Next]_vars
------------------------------------------------------------------------------
Path == [dir : DOMAIN Folded, stem : {Stem[p] : p \in Photos} \cup {f.stem : f \in DOMAIN Before},
         n : Nat \ {0}, ext : UNION ({Siblings[p] \cup {Ext[p]} : p \in Photos}
                                     \cup {{f.ext : f \in DOMAIN Before}})]

TypeOK ==
  /\ DOMAIN disk \subseteq Path
  /\ \A f \in DOMAIN disk : disk[f] \in [bytes : DOMAIN Size, whole : BOOLEAN]
  /\ pc \in {"idle", "estimate", "next", "copying", "related", "sibling", "done"}
  /\ kept \subseteq Photos /\ sources \subseteq kept \cap Known /\ library \subseteq DOMAIN disk
  /\ plan \in [Photos -> DOMAIN Folded \cup {NoDir, Outside}]
  /\ \A p \in Photos : placed[p] \subseteq DOMAIN disk
  /\ outcome \in [Photos -> {"none", "copied", "present", "skipped", "failed"}]
  /\ target \subseteq DOMAIN disk /\ calm \in BOOLEAN /\ runs \in 0 .. MaxRuns

\* proto.md: nothing is overwritten.  A file that is whole stays what and where it
\* is, whether the user put it there or an earlier commit (commit_files,
\* copy_companions: copy_options::none).
WholeFilesStay ==
  [][\A f \in DOMAIN disk :
       disk[f].whole => f \in DOMAIN disk' /\ disk'[f] = disk[f]]_vars

\* What the summary counts is there:  the bytes of a photo that was copied or
\* already present are whole in the destination, or a whole file of its size has
\* its planned name (commit.h: an existing file of the same size counts as copied).
\* A file that a crash cut short never counts.
CountedIsThere ==
  \A p \in Photos : outcome[p] \in {"copied", "present"} =>
    \E f \in DOMAIN disk :
      /\ disk[f].whole
      /\ \/ disk[f].bytes = BytesOf[<<p, Main>>]
         \/ f \in placed[p] /\ f.n = 1 /\ SizeOn(f) = SizeOf(p, Main)

\* The siblings of a photo that counts as copied are beside it, under its final
\* name with its suffix, or the summary reports them (copy_companions);  and as a
\* suffix is taken only if it is free for the whole group, none is then in a
\* sibling's way (any_exists).
SiblingsFollow ==
  \A p \in Photos : \A path \in placed[p] : \A t \in Siblings[p] :
    /\ \/ <<p, t>> \in errors
       \/ <<p, t>> \in beside /\ SameSize(Sibling(p, path, t), p, t)
       \/ pc \in {"related", "sibling"} /\ Here = p
    /\ path.n > 1 /\ calm => <<p, t>> \notin errors

\* Re-committing is safe (frontend.md):  whatever commits that failed, were
\* stopped or died left behind, one that runs undisturbed brings every photo that
\* has a folder into the destination, and if nothing was in its way it leaves
\* nothing to write for the same request.  (A photo that goes back to a directory
\* which is a trip's folder in other letters gives that folder a second match.)
EveryFolderPhotoArrives ==
  \A p \in kept \cap Known : Subdir(p) # NoDir => outcome[p] \in {"copied", "present"}

NoAlias ==
  \A p, q \in kept \cap Known :
    Subdir(p) # NoDir /\ Subdir(q) = NoDir => Folded[Subdir(p)] # Folded[Home[q]]

RecommitHeals ==
  pc = "done" /\ calm =>
    /\ EveryFolderPhotoArrives
    /\ Merge /\ errors = {} /\ NoAlias => NewBytes = 0

\* proto.md: every kept item is copied together with its siblings.  After a
\* commit that reports no error, all of them are in the destination.
RelatedFilesKept ==
  pc = "done" /\ calm /\ errors = {} =>
    \A p \in kept : \A t \in Siblings[p] :
      \E f \in DOMAIN disk : disk[f].whole /\ Size[disk[f].bytes] = SizeOf(p, t)
==============================================================================
