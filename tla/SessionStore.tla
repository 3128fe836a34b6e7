----------------------------- MODULE SessionStore -----------------------------
(***************************************************************************)
(* The session databases, one per folder, and the engine's one connection  *)
(* to them (backend/src/store), which the pass that runs and the           *)
(* save_session_state calls of the GUI's worker pool use at the same time. *)
(*                                                                         *)
(* The connection is serialized: one statement at a time, and that is the  *)
(* grain of the actions.  A transaction belongs to the connection and not  *)
(* to the thread that began it.                                            *)
(*                                                                         *)
(* Two passes stand for all:  scan_folder, which opens a folder and fills  *)
(* its index, and an analysis (quality, junk, video), which stores a row   *)
(* for each photo it can measure and stamps the run.  They run one at a    *)
(* time:  OnePassAtATime of module PassStream.                             *)
(*                                                                         *)
(* A statement that fails may leave the open transaction as it was, or     *)
(* SQLite rolls the transaction back by itself (a full disk, a failed read *)
(* or write, no memory), whose ever it is.                                 *)
(***************************************************************************)
EXTENDS Naturals

CONSTANTS
  Folders, NoFolder,   (* source folders; the connection or session is on none *)
  Images,              (* photo ids, paths relative to their folder            *)
  Savers,              (* the worker threads that call save_session_state      *)
  Pass,                (* the thread of the pass that runs                     *)
  Nobody,              (* no transaction is open                               *)
  Choices, NoChoice,   (* the decision a save writes for every photo           *)
  Overlap,             (* whether a scan may start while a save is under way   *)
  Faults               (* whether a statement may fail by itself               *)

ASSUME ThreadAssumption == Pass \notin Savers /\ Nobody \notin Savers \cup {Pass}
ASSUME FolderAssumption == NoFolder \notin Folders
ASSUME ChoiceAssumption == NoChoice \notin Folders \X Choices
ASSUME SwitchAssumption == Overlap \in BOOLEAN /\ Faults \in BOOLEAN

Threads == Savers \cup {Pass}

\* A decision remembers the folder the user made it for.
Decision == (Folders \X Choices) \cup {NoChoice}

\* The tables: images, the result rows, the user_decisions, the completion
\* stamps, as the photos that the stamped runs were to store a row for, and
\* whether the wizard's step says a pass was begun.
Content == [index : SUBSET Images, flags : SUBSET Images,
            decisions : [Images -> Decision], stamped : SUBSET Images, begun : BOOLEAN]

NoDecisions == [i \in Images |-> NoChoice]
Empty == [index |-> {}, flags |-> {}, decisions |-> NoDecisions,
          stamped |-> {}, begun |-> FALSE]

VARIABLES
  disk,     (* what each folder's database holds after a crash               *)
  conn,     (* the folder that session_db_ is open on                        *)
  tx,       (* the thread whose BEGIN opened the connection's transaction    *)
  work,     (* what the connection sees                                      *)
  session,  (* session_folder_, NoFolder while has_active_session_ is false  *)
  pc,       (* where each thread is;  a save rests where it succeeded or failed *)
  todo,     (* the photos whose rows a thread has yet to write               *)
  want,     (* the decision each save writes                                 *)
  scan,     (* the locals of the pass:  a scan's folder, whether it starts   *)
            (* afresh and fills the index;  an analysis's photos with a row  *)
  cut,      (* history: folders whose last scan was stopped                  *)
  undone,   (* history: SQLite has rolled back a transaction by itself       *)
  overlapped  (* history: a scan has started while a save was under way      *)

vars == <<disk, conn, tx, work, session, pc, todo, want, scan, cut, undone, overlapped>>
database == <<disk, conn, tx, work, undone>>

ScanPc == {"open", "reset_images", "reset_state", "activate"}
PassPc == ScanPc \cup {"idle", "read", "begin", "rows", "stamp", "rollback"}
SavePc == {"idle", "step", "begin", "delete", "prepare", "insert", "orphan",
           "commit", "rollback", "failed"}

TypeOK ==
  /\ disk \in [Folders -> Content]
  /\ conn \in Folders \cup {NoFolder}
  /\ tx \in Threads \cup {Nobody}
  /\ work \in Content
  /\ session \in Folders \cup {NoFolder}
  /\ pc \in [Threads -> PassPc \cup SavePc]
  /\ pc[Pass] \in PassPc /\ \A s \in Savers : pc[s] \in SavePc
  /\ todo \in [Threads -> SUBSET Images]
  /\ want \in [Savers -> Decision]
  /\ scan \in [folder : Folders \cup {NoFolder}, fresh : BOOLEAN, ingest : BOOLEAN,
               due : SUBSET Images]
  /\ cut \in SUBSET Folders /\ undone \in BOOLEAN /\ overlapped \in BOOLEAN

NoScan == [folder |-> NoFolder, fresh |-> FALSE, ingest |-> FALSE, due |-> {}]

AllIdle == [t \in Threads |-> "idle"]
NothingToDo == [t \in Threads |-> {}]
NothingWanted == [s \in Savers |-> NoChoice]

Init ==
  /\ disk = [f \in Folders |-> Empty] /\ cut = {} /\ undone = FALSE /\ overlapped = FALSE
  /\ conn = NoFolder /\ tx = Nobody /\ work = Empty
  /\ session = NoFolder /\ scan = NoScan
  /\ pc = AllIdle /\ todo = NothingToDo /\ want = NothingWanted

Goto(t, from, to) == pc[t] = from /\ pc' = [pc EXCEPT ![t] = to]

------------------------------------------------------------------------------
(* The connection.                                                            *)

\* One statement:  it commits at once, or waits for whoever's transaction is open.
Write(t, new) ==
  /\ conn # NoFolder
  /\ work' = new
  /\ disk' = IF tx = Nobody THEN [disk EXCEPT ![conn] = new] ELSE disk
  /\ UNCHANGED <<conn, tx, undone>>

\* Mutant: BEGIN inside the try, so that a BEGIN that throws is rolled back.
BeginInsideTry(t, next, error) ==
  /\ pc[t] = "begin"
  /\ IF conn # NoFolder /\ tx = Nobody
     THEN tx' = t /\ pc' = [pc EXCEPT ![t] = next]
     ELSE tx' = tx /\ pc' = [pc EXCEPT ![t] = "rollback"]
  /\ UNCHANGED <<disk, conn, work, undone>>

\* begin_transaction;  it throws when a transaction is already open.
BeginTx(t, next, error) ==
  /\ pc[t] = "begin"
  /\ \/ /\ conn # NoFolder /\ tx = Nobody
        /\ tx' = t /\ pc' = [pc EXCEPT ![t] = next]
     \/ /\ conn = NoFolder \/ tx # Nobody \/ Faults
        /\ tx' = tx /\ pc' = [pc EXCEPT ![t] = error]
  /\ UNCHANGED <<disk, conn, work, undone>>

\* COMMIT and ROLLBACK end the connection's transaction, whose ever it is.
CommitTx ==
  /\ tx # Nobody
  /\ tx' = Nobody
  /\ disk' = [disk EXCEPT ![conn] = work]
  /\ UNCHANGED <<conn, work, undone>>

RollbackTx ==
  /\ tx' = Nobody
  /\ work' = IF conn = NoFolder THEN Empty ELSE disk[conn]
  /\ UNCHANGED <<disk, conn>>

\* A statement finds no connection or fails by itself.
MayFail == Faults \/ conn = NoFolder

\* A failing statement changes nothing, or SQLite rolls the open transaction back.
Fails ==
  \/ UNCHANGED database
  \/ Faults /\ tx # Nobody /\ RollbackTx /\ undone' = TRUE

------------------------------------------------------------------------------
(* scan_folder.                                                               *)

\* The locals of a call die with it.
EndOfPass == scan' = NoScan /\ todo' = [todo EXCEPT ![Pass] = {}]

Scanning == pc[Pass] \in ScanPc \/ scan.ingest

\* open() first closes the connection:  a transaction still open is gone, and a
\* save in the middle of its inserts is left with a statement on a dead handle.
StartScan(f, fresh) ==
  /\ overlapped' = (overlapped \/ \E s \in Savers : pc[s] \notin {"idle", "failed"})
  /\ Overlap \/ ~overlapped'
  /\ pc[Pass] = "idle"
  /\ pc' = [t \in Threads |-> CASE t = Pass -> "open"
                                [] pc[t] = "insert" -> "orphan"
                                [] OTHER -> pc[t]]
  /\ scan' = [folder |-> f, fresh |-> fresh, ingest |-> FALSE, due |-> {}]
  /\ conn' = NoFolder /\ tx' = Nobody /\ work' = Empty
  /\ UNCHANGED <<disk, session, todo, want, cut, undone>>

\* ... and then opens the folder's database, which may fail.
OpenDatabase ==
  /\ pc[Pass] = "open"
  /\ \/ /\ conn' = scan.folder /\ work' = disk[scan.folder]
        /\ UNCHANGED <<scan, todo>>
        /\ Goto(Pass, "open", IF scan.fresh THEN "reset_images" ELSE "activate")
     \/ /\ Faults
        /\ Goto(Pass, "open", "idle") /\ EndOfPass
        /\ UNCHANGED <<conn, work>>
  /\ UNCHANGED <<disk, tx, session, want, cut, undone>>

\* reset_session:  the index goes first and takes the rows that refer to it ...
ResetImages ==
  /\ Goto(Pass, "reset_images", "reset_state")
  /\ Write(Pass, [work EXCEPT !.index = {}, !.flags = {}, !.decisions = NoDecisions])
  /\ UNCHANGED <<session, todo, want, scan, cut>>

\* Mutant: reset_session forgets session_state.
ResetKeepsState ==
  /\ Goto(Pass, "reset_state", "activate")
  /\ Write(Pass, [work EXCEPT !.begun = FALSE])
  /\ UNCHANGED <<session, todo, want, scan, cut>>

\* ... session_state goes last, and the step starts from zero.
ResetState ==
  /\ Goto(Pass, "reset_state", "activate")
  /\ Write(Pass, [work EXCEPT !.stamped = {}, !.begun = FALSE])
  /\ UNCHANGED <<session, todo, want, scan, cut>>

ResetFails ==
  /\ Faults
  /\ \/ Goto(Pass, "reset_images", "idle")
     \/ Goto(Pass, "reset_state", "idle")
  /\ EndOfPass /\ Fails
  /\ UNCHANGED <<session, want, cut>>

\* Mutant: session_folder_ is set by the first scan only.
ActivateOnce ==
  /\ session' = IF session = NoFolder THEN scan.folder ELSE session
  /\ Goto(Pass, "activate", "idle") /\ EndOfPass
  /\ UNCHANGED <<database, want, cut>>

\* The folder becomes the session.  A fresh scan walks it:  to the end, or until
\* it is stopped;  what it has prepared by then is what it will insert.
Activate ==
  /\ session' = scan.folder
  /\ IF scan.fresh
     THEN /\ Goto(Pass, "activate", "begin")
          /\ scan' = [scan EXCEPT !.ingest = TRUE]
          /\ \E found \in SUBSET Images :
               /\ todo' = [todo EXCEPT ![Pass] = found]
               /\ cut' = IF found = Images THEN cut \ {session'} ELSE cut \cup {session'}
     ELSE Goto(Pass, "activate", "idle") /\ EndOfPass /\ UNCHANGED cut
  /\ UNCHANGED <<database, want>>

------------------------------------------------------------------------------
(* An analysis, and the transactions of both passes.                          *)

\* record_step, best effort.
StartAnalysis ==
  /\ session # NoFolder
  /\ Goto(Pass, "idle", "read")
  /\ Write(Pass, [work EXCEPT !.begun = TRUE]) \/ (MayFail /\ Fails)
  /\ UNCHANGED <<session, todo, want, scan, cut>>

\* get_image_records.  A row is due for the photos of the scope that are not to be
\* skipped and that turn out to be readable;  quality stores all of them anew, junk
\* and video leave out those that have one.
ReadRecords ==
  /\ \/ /\ conn # NoFolder
        /\ Goto(Pass, "read", "begin")
        /\ \E due \in SUBSET work.index : \E ids \in {due, due \ work.flags} :
             /\ scan' = [scan EXCEPT !.due = due]
             /\ todo' = [todo EXCEPT ![Pass] = ids]
        /\ UNCHANGED database
     \/ /\ MayFail /\ Fails
        /\ Goto(Pass, "read", "idle")
        /\ UNCHANGED <<todo, scan>>
  /\ UNCHANGED <<session, want, cut>>

\* Mutant: every row commits by itself.
RowsWithoutTransaction ==
  /\ Goto(Pass, "begin", "rows")
  /\ UNCHANGED <<database, session, todo, want, scan, cut>>

BeginPassTx ==
  /\ BeginTx(Pass, "rows", "idle")
  /\ IF pc'[Pass] = "idle" THEN EndOfPass ELSE UNCHANGED <<scan, todo>>
  /\ UNCHANGED <<session, want, cut>>

WriteRow ==
  /\ pc[Pass] = "rows"
  /\ \E i \in todo[Pass] :
       /\ Write(Pass, IF scan.ingest THEN [work EXCEPT !.index = @ \cup {i}]
                                     ELSE [work EXCEPT !.flags = @ \cup {i}])
       /\ todo' = [todo EXCEPT ![Pass] = @ \ {i}]
  /\ UNCHANGED <<session, pc, want, scan, cut>>

\* The scan and the quality pass commit once, junk and video every
\* few rows and when they are stopped.
CommitRows ==
  /\ CommitTx
  /\ \/ /\ todo[Pass] = {} \/ ~scan.ingest
        /\ Goto(Pass, "rows", "idle") /\ EndOfPass
     \/ /\ ~scan.ingest
        /\ Goto(Pass, "rows", IF todo[Pass] = {} THEN "stamp" ELSE "begin")
        /\ UNCHANGED <<scan, todo>>
  /\ UNCHANGED <<session, want, cut>>

\* A row or the COMMIT fails.
RowFails ==
  /\ Faults \/ tx = Nobody
  /\ Goto(Pass, "rows", "rollback")
  /\ Fails
  /\ UNCHANGED <<session, todo, want, scan, cut>>

\* The pass has failed.  Its ROLLBACK ends whatever transaction is open by then;
\* when there is none it throws, and the pass has failed all the same.
RollbackRows ==
  /\ Goto(Pass, "rollback", "idle")
  /\ RollbackTx /\ EndOfPass
  /\ UNCHANGED <<session, want, cut, undone>>

\* record_run_complete, best effort.
Stamp ==
  /\ Goto(Pass, "stamp", "idle") /\ EndOfPass
  /\ Write(Pass, [work EXCEPT !.stamped = @ \cup scan.due]) \/ (MayFail /\ Fails)
  /\ UNCHANGED <<session, want, cut>>

------------------------------------------------------------------------------
(* save_session_state, on a worker thread.                                    *)

\* Mutant: persist_decisions also while a folder is scanned.
SubmitWhileScanning(s) ==
  /\ pc[s] \in {"idle", "failed"} /\ session # NoFolder
  /\ Goto(s, pc[s], "begin")
  /\ \E c \in Choices : want' = [want EXCEPT ![s] = <<session, c>>]
  /\ todo' = [todo EXCEPT ![s] = work.index]
  /\ UNCHANGED <<database, session, scan, cut>>

\* The wizard saves while a session rests or a pass runs over it, never while a
\* folder is scanned.  The request does not say which folder it is about.
Submit(s) ==
  /\ pc[s] \in {"idle", "failed"}
  /\ session # NoFolder /\ ~Scanning
  /\ \/ /\ Goto(s, pc[s], "step") /\ UNCHANGED <<want, todo>>
     \/ /\ Goto(s, pc[s], "begin")
        /\ \E c \in Choices : want' = [want EXCEPT ![s] = <<session, c>>]
        /\ todo' = [todo EXCEPT ![s] = work.index]
  /\ UNCHANGED <<database, session, scan, cut>>

EndOfSave(s) ==
  /\ want' = [want EXCEPT ![s] = NoChoice]
  /\ todo' = [todo EXCEPT ![s] = {}]

SaveStep(s) ==
  /\ \/ Goto(s, "step", "idle") /\ \E b \in BOOLEAN : Write(s, [work EXCEPT !.begun = b])
     \/ MayFail /\ Goto(s, "step", "failed") /\ Fails
  /\ UNCHANGED <<session, todo, want, scan, cut>>

\* Mutant: the decisions are replaced without a transaction.
SaveWithoutTransaction(s) ==
  /\ Goto(s, "begin", "delete")
  /\ UNCHANGED <<database, session, todo, want, scan, cut>>

\* replace_user_decisions.  Its BEGIN is outside the try:  when it throws,
\* nothing is rolled back.
BeginSave(s) ==
  /\ BeginTx(s, "delete", "failed")
  /\ IF pc'[s] = "failed" THEN EndOfSave(s) ELSE UNCHANGED <<want, todo>>
  /\ UNCHANGED <<session, scan, cut>>

DeleteDecisions(s) ==
  /\ Goto(s, "delete", "prepare")
  /\ Write(s, [work EXCEPT !.decisions = NoDecisions])
  /\ UNCHANGED <<session, todo, want, scan, cut>>

PrepareInsert(s) ==
  /\ conn # NoFolder
  /\ Goto(s, "prepare", "insert")
  /\ UNCHANGED <<database, session, todo, want, scan, cut>>

\* The foreign key admits decisions about indexed photos only.
InsertDecision(s) ==
  /\ pc[s] = "insert"
  /\ \E i \in todo[s] \cap work.index :
       /\ Write(s, [work EXCEPT !.decisions[i] = want[s]])
       /\ todo' = [todo EXCEPT ![s] = @ \ {i}]
  /\ UNCHANGED <<session, pc, want, scan, cut>>

\* The statement belongs to a closed connection, and so does what it writes.
InsertOrphan(s) ==
  /\ Goto(s, "orphan", "commit")
  /\ todo' = [todo EXCEPT ![s] = {}]
  /\ UNCHANGED <<database, session, want, scan, cut>>

AllInserted(s) ==
  /\ todo[s] = {}
  /\ Goto(s, "insert", "commit")
  /\ UNCHANGED <<database, session, todo, want, scan, cut>>

CommitSave(s) ==
  /\ Goto(s, "commit", "idle")
  /\ CommitTx /\ EndOfSave(s)
  /\ UNCHANGED <<session, scan, cut>>

\* A statement throws:  no connection, a photo that is not indexed, nothing to
\* commit, or by itself.
SaveFails(s) ==
  /\ \/ MayFail /\ \E from \in {"delete", "prepare", "insert"} : Goto(s, from, "rollback")
     \/ ~(todo[s] \subseteq work.index) /\ Goto(s, "insert", "rollback")
     \/ (Faults \/ tx = Nobody) /\ Goto(s, "commit", "rollback")
  /\ Fails
  /\ UNCHANGED <<session, todo, want, scan, cut>>

\* As in RollbackRows.
RollbackSave(s) ==
  /\ Goto(s, "rollback", "failed")
  /\ RollbackTx /\ EndOfSave(s)
  /\ UNCHANGED <<session, scan, cut, undone>>

------------------------------------------------------------------------------
\* The process ends, anywhere.  What was committed stays.
Crash ==
  /\ conn' = NoFolder /\ tx' = Nobody /\ work' = Empty
  /\ session' = NoFolder /\ scan' = NoScan
  /\ pc' = AllIdle /\ todo' = NothingToDo /\ want' = NothingWanted
  /\ UNCHANGED <<disk, cut, undone, overlapped>>

ScanStep ==
  OpenDatabase \/ ResetImages \/ ResetState \/ ResetFails \/ Activate
PassStep ==
  \/ StartAnalysis \/ ReadRecords \/ BeginPassTx \/ WriteRow
  \/ CommitRows \/ RowFails \/ RollbackRows \/ Stamp
SaveStatement(s) ==
  \/ SaveStep(s) \/ BeginSave(s) \/ DeleteDecisions(s) \/ PrepareInsert(s)
  \/ InsertDecision(s) \/ InsertOrphan(s) \/ AllInserted(s)
  \/ CommitSave(s) \/ SaveFails(s) \/ RollbackSave(s)

Next ==
  \/ \E f \in Folders, fresh \in BOOLEAN : StartScan(f, fresh)
  \/ /\ \/ ScanStep \/ PassStep
        \/ \E s \in Savers : Submit(s) \/ SaveStatement(s)
     /\ UNCHANGED overlapped
  \/ Crash

Spec == Init /\ [][Next]_vars

------------------------------------------------------------------------------
\* The statements a thread runs between its BEGIN and the end of its transaction.
InTransaction(t) ==
  pc[t] \in {"rows", "delete", "prepare", "insert", "commit", "rollback"}

\* begin_transaction, commit_transaction and rollback_transaction name no
\* transaction:  whoever commits or rolls back ends the one that is open.  No
\* transaction stays open behind its thread, and until SQLite rolls one back by
\* itself the open one is that of the one thread between BEGIN and COMMIT, so that
\* no thread ends another's.
TransactionsHaveOwners ==
  \A t \in Threads :
    /\ tx = t => InTransaction(t)
    /\ ~undone /\ InTransaction(t) => tx = t

\* replace_decisions is all or nothing:  whatever fails or the process dies in the
\* middle of, a folder's database holds the decisions of one save for every photo
\* of the index, or none (replace_user_decisions and its transaction), until SQLite
\* rolls back a transaction by itself.
DecisionsWhole ==
  ~undone => \A f \in Folders : \E d \in Decision :
    disk[f].decisions = [i \in Images |-> IF i \in disk[f].index THEN d ELSE NoChoice]

\* get_session_results reports a run as done when its stamp is there, and the
\* wizard then does not run it again:  a stamp on disk vouches for the row of every
\* photo of the index that the run was to store one for, and a fresh scan leaves no
\* stamp behind, until SQLite rolls back a transaction by itself.
StampVouchesForRows ==
  ~undone => \A f \in Folders : disk[f].stamped \cap disk[f].index \subseteq disk[f].flags

\* No crash and no failure, and no transaction that SQLite rolls back, leaves a half
\* index that inspect_session would offer to resume:  the index is empty or has
\* every photo, unless the last scan was stopped.
IndexWholeUnlessStopped ==
  \A f \in Folders : f \in cut \/ disk[f].index \in {{}, Images}

\* backend.md: persistence is per folder.  Decisions made in one folder never
\* reach the database of another, as long as no scan has overtaken a save.
DecisionsStayInFolder ==
  ~overlapped => \A f \in Folders, i \in Images :
    disk[f].decisions[i] # NoChoice => disk[f].decisions[i][1] = f

\* engine.h: one session over one folder.  Between scans, the session that the
\* calls answer for is the one whose database they read and write.
SessionIsConnected ==
  session # NoFolder /\ pc[Pass] \notin ScanPc => conn = session
==============================================================================
