-------------------------- MODULE SessionStoreProofs --------------------------
(* What TLAPS proves of SessionStore for all folders, photos, savers and      *)
(* choices.                                                                   *)
EXTENDS SessionStore, TLAPS

(***************************************************************************)
(* The inductive invariant.  As long as no scan has overtaken a save, a    *)
(* saver that is busy has the connection for itself or shares it with an   *)
(* analysis, which leaves the index and the decisions alone.  Base is what *)
(* stays true of transactions and of the index whatever SQLite rolls back  *)
(* by itself, Inner what holds until it does.                              *)
(***************************************************************************)
\* TypeOK, and a scan that has not yet become the session has a folder.
Typed == TypeOK /\ (pc[Pass] \in ScanPc => scan.folder \in Folders)

Calm(s) == pc[s] \in {"idle", "failed"}

Whole(c) == \E d \in Decision :
  c.decisions = [i \in Images |-> IF i \in c.index THEN d ELSE NoChoice]
Vouched(c) == c.stamped \cap c.index \subseteq c.flags

\* The open transaction is that of the one thread between BEGIN and COMMIT.
Owners == \A t \in Threads : InTransaction(t) <=> tx = t

\* No saver is busy while a folder is scanned, and none lost its connection.
ScansAlone ==
  /\ Scanning => \A s \in Savers : Calm(s)
  /\ \A s \in Savers : pc[s] # "orphan"

\* What the connection sees, against what is on disk.
LinkInv ==
  /\ tx # Nobody => conn # NoFolder
  /\ conn = NoFolder => work = Empty
  /\ conn # NoFolder /\ tx = Nobody => work = disk[conn]
  /\ conn # NoFolder /\ ~(tx = Pass /\ scan.ingest) => work.index = disk[conn].index
  /\ conn # NoFolder /\ tx # Pass => work.flags = disk[conn].flags

\* The tables are consistent on disk, and but for the decisions in the middle of a
\* save also where the connection looks.
TablesInv ==
  /\ \A f \in Folders : Whole(disk[f]) /\ Vouched(disk[f])
  /\ Vouched(work)
  /\ tx \notin Savers => Whole(work)
  /\ IndexWholeUnlessStopped

\* A scan works on its folder, which a fresh one has emptied.
ScanInv ==
  /\ pc[Pass] \in ScanPc => ~scan.ingest
  /\ pc[Pass] \in ScanPc \ {"open"} => conn = scan.folder
  /\ pc[Pass] \in {"reset_images", "reset_state"} => scan.fresh
  /\ pc[Pass] = "reset_state" \/ (pc[Pass] = "activate" /\ scan.fresh) =>
       work.index = {} /\ work.flags = {} /\ work.decisions = NoDecisions
  /\ pc[Pass] = "activate" /\ scan.fresh => work.stamped = {}

\* While it fills the index there is nothing else, and what is found will be all.
IngestInv ==
  scan.ingest =>
    /\ pc[Pass] \in {"begin", "rows", "rollback"} /\ conn \in Folders
    /\ work.flags = {} /\ work.decisions = NoDecisions /\ work.stamped = {}
    /\ disk[conn].index = {} /\ disk[conn].flags = {}
    /\ disk[conn].decisions = NoDecisions /\ disk[conn].stamped = {}
    /\ conn \in cut \/ pc[Pass] = "rollback" \/ work.index \cup todo[Pass] = Images

\* An analysis has the row of each photo that it is due for and no longer to do.
AnalysisInv ==
  ~scan.ingest /\ pc[Pass] \in {"begin", "rows", "stamp"} =>
    /\ conn # NoFolder
    /\ scan.due \ todo[Pass] \subseteq work.flags
    /\ pc[Pass] = "stamp" => todo[Pass] = {}

\* A save has the photos of the index before it, and has written the decision for
\* those that it no longer has before it.
SavesInv ==
  \A s \in Savers :
    /\ pc[s] \in {"begin", "delete", "prepare"} => todo[s] = work.index
    /\ pc[s] = "prepare" => work.decisions = NoDecisions
    /\ pc[s] \in {"insert", "commit"} =>
         work.decisions = [i \in Images |->
           IF i \in work.index \ todo[s] THEN want[s] ELSE NoChoice]
    /\ pc[s] = "commit" => todo[s] = {}

Inner ==
  /\ Owners /\ ScansAlone /\ LinkInv /\ TablesInv
  /\ ScanInv /\ IngestInv /\ AnalysisInv /\ SavesInv

\* No transaction stays open behind its thread.
TxEnds == \A t \in Threads : tx = t => InTransaction(t)

\* The connection, and the index that it sees.
IndexLink ==
  /\ tx # Nobody => conn # NoFolder
  /\ conn = NoFolder => work = Empty
  /\ conn # NoFolder /\ tx = Nobody => work = disk[conn]
  /\ conn # NoFolder /\ ~(tx = Pass /\ scan.ingest) => work.index = disk[conn].index

\* A fresh scan empties the index ...
IndexEmptied ==
  /\ pc[Pass] \in ScanPc => ~scan.ingest
  /\ pc[Pass] \in ScanPc \ {"open"} => conn = scan.folder
  /\ pc[Pass] \in {"reset_images", "reset_state"} => scan.fresh
  /\ pc[Pass] = "reset_state" \/ (pc[Pass] = "activate" /\ scan.fresh) => work.index = {}

\* ... and fills it in a transaction of its own, that nobody else can undo.
IndexFilled ==
  scan.ingest =>
    /\ pc[Pass] \in {"begin", "rows", "rollback"} /\ conn \in Folders
    /\ pc[Pass] = "rows" => tx = Pass
    /\ disk[conn].index = {}
    /\ conn \in cut \/ pc[Pass] = "rollback" \/ work.index \cup todo[Pass] = Images

Base ==
  /\ ScansAlone /\ TxEnds /\ IndexLink
  /\ IndexEmptied /\ IndexFilled /\ IndexWholeUnlessStopped

IInv == Typed /\ (~overlapped => Base /\ (~undone => Inner))

------------------------------------------------------------------------------
(* Types.                                                                     *)

Pcs == PassPc \cup SavePc

\* What a statement leaves is still a database.
LEMMA WriteType ==
  ASSUME TypeOK, NEW t, NEW new \in Content, Write(t, new)
  PROVE  /\ disk' \in [Folders -> Content] /\ work' \in Content
         /\ conn' = conn /\ tx' = tx /\ undone' = undone
BY FolderAssumption DEF TypeOK, Write

\* What a failing statement leaves, too.
LEMMA FailsType ==
  ASSUME TypeOK, Fails
  PROVE  /\ disk' = disk /\ conn' = conn /\ work' \in Content
         /\ tx' \in {tx, Nobody} /\ undone' \in BOOLEAN
<1>1. Empty \in Content
  BY DEF Empty, Content, NoDecisions, Decision
<1> QED BY <1>1 DEF TypeOK, Fails, RollbackTx, database

\* A failing statement that nothing is undone by changes nothing.
LEMMA FailsAlone == ASSUME Fails, ~undone' PROVE UNCHANGED database
BY DEF Fails

\* A thread that goes somewhere leaves the others where they are.
LEMMA GotoType ==
  ASSUME TypeOK, NEW t \in Threads, NEW from, NEW to \in Pcs,
         t = Pass => to \in PassPc, t \in Savers => to \in SavePc, Goto(t, from, to)
  PROVE  /\ pc' \in [Threads -> Pcs]
         /\ pc'[Pass] \in PassPc /\ \A s \in Savers : pc'[s] \in SavePc
         /\ pc[t] = from /\ pc'[t] = to /\ \A u \in Threads \ {t} : pc'[u] = pc[u]
BY ThreadAssumption DEF TypeOK, Goto, Threads, Pcs

Scans == [folder : Folders \cup {NoFolder}, fresh : BOOLEAN, ingest : BOOLEAN,
          due : SUBSET Images]

\* A pass that ends leaves no scan and nothing to do.
LEMMA EndOfPassType ==
  ASSUME TypeOK, EndOfPass
  PROVE  scan' \in Scans /\ ~scan'.ingest /\ todo' \in [Threads -> SUBSET Images]
BY DEF TypeOK, EndOfPass, NoScan, Scans

\* The first state has the types.
LEMMA InitType == Init => Typed
<1> SUFFICES ASSUME Init PROVE Typed
  OBVIOUS
<1>1. Empty \in Content
  BY DEF Empty, Content, NoDecisions, Decision
<1>2. pc \in [Threads -> Pcs] /\ pc[Pass] = "idle" /\ \A s \in Savers : pc[s] = "idle"
  BY DEF Init, AllIdle, Threads, Pcs, PassPc, SavePc
<1>3. todo \in [Threads -> SUBSET Images] /\ want \in [Savers -> Decision]
  BY DEF Init, NothingToDo, NothingWanted, Decision
<1> QED BY <1>1, <1>2, <1>3 DEF Init, Typed, TypeOK, Pcs, PassPc, ScanPc, SavePc, NoScan

\* The scan's steps keep the types.
LEMMA ScanType == Typed /\ ScanStep /\ UNCHANGED overlapped => Typed'
<1> SUFFICES ASSUME Typed, ScanStep, UNCHANGED overlapped PROVE Typed'
  OBVIOUS
<1> USE ThreadAssumption DEF Typed, Threads, Pcs, PassPc, ScanPc
<1>1. CASE OpenDatabase
  <2>1. disk[scan.folder] \in Content
    BY <1>1 DEF OpenDatabase, TypeOK
  <2>2. CASE Goto(Pass, "open", "idle") /\ EndOfPass /\ UNCHANGED <<conn, work>>
    BY <1>1, <2>2, GotoType, EndOfPassType DEF OpenDatabase, TypeOK, Scans
  <2>3. CASE /\ Goto(Pass, "open", IF scan.fresh THEN "reset_images" ELSE "activate")
             /\ conn' = scan.folder /\ work' = disk[scan.folder] /\ UNCHANGED <<scan, todo>>
    <3>1. (IF scan.fresh THEN "reset_images" ELSE "activate") \in PassPc
      OBVIOUS
    <3> QED BY <1>1, <2>1, <2>3, <3>1, GotoType DEF OpenDatabase, TypeOK
  <2> QED BY <1>1, <2>2, <2>3 DEF OpenDatabase
<1>2. CASE ResetImages
  <2>1. [work EXCEPT !.index = {}, !.flags = {}, !.decisions = NoDecisions] \in Content
    BY DEF TypeOK, Content, NoDecisions, Decision
  <2> QED BY <1>2, <2>1, WriteType, GotoType DEF ResetImages, TypeOK
<1>3. CASE ResetState
  <2>1. [work EXCEPT !.stamped = {}, !.begun = FALSE] \in Content
    BY DEF TypeOK, Content
  <2> QED BY <1>3, <2>1, WriteType, GotoType DEF ResetState, TypeOK
<1>4. CASE ResetFails
  BY <1>4, GotoType, EndOfPassType, FailsType DEF ResetFails, TypeOK, Scans
<1>5. CASE Activate
  <2>3. scan.folder \in Folders
    BY <1>5 DEF Activate, Goto
  <2>1. CASE scan.fresh
    <3>1. PICK found \in SUBSET Images :
            /\ todo' = [todo EXCEPT ![Pass] = found]
            /\ cut' = IF found = Images THEN cut \ {session'} ELSE cut \cup {session'}
      BY <1>5, <2>1 DEF Activate
    <3>2. todo' \in [Threads -> SUBSET Images] /\ cut' \in SUBSET Folders
      BY <1>5, <2>3, <3>1 DEF Activate, TypeOK
    <3> QED BY <1>5, <2>1, <2>3, <3>2, GotoType, ZenonT(60) DEF Activate, TypeOK, database
  <2>2. CASE ~scan.fresh
    BY <1>5, <2>2, <2>3, GotoType, EndOfPassType DEF Activate, TypeOK, database, Scans
  <2> QED BY <2>1, <2>2
<1> QED BY <1>1, <1>2, <1>3, <1>4, <1>5 DEF ScanStep

\* The pass's steps keep the types.
LEMMA PassType == Typed /\ PassStep /\ UNCHANGED overlapped => Typed'
<1> SUFFICES ASSUME Typed, PassStep, UNCHANGED overlapped PROVE Typed'
  OBVIOUS
<1> USE ThreadAssumption DEF Typed, Threads, Pcs, PassPc, ScanPc
<1>1. CASE StartAnalysis
  <2>1. [work EXCEPT !.begun = TRUE] \in Content
    BY DEF TypeOK, Content
  <2>2. /\ disk' \in [Folders -> Content] /\ work' \in Content
        /\ conn' = conn /\ tx' \in {tx, Nobody} /\ undone' \in BOOLEAN
    BY <1>1, <2>1, WriteType, FailsType DEF StartAnalysis, TypeOK
  <2> QED BY <1>1, <2>2, GotoType DEF StartAnalysis, TypeOK
<1>2. CASE ReadRecords
  <2>1. CASE MayFail /\ Fails /\ Goto(Pass, "read", "idle") /\ UNCHANGED <<todo, scan>>
    BY <1>2, <2>1, GotoType, FailsType DEF ReadRecords, TypeOK
  <2>2. CASE /\ Goto(Pass, "read", "begin") /\ UNCHANGED database
             /\ \E due \in SUBSET work.index : \E ids \in {due, due \ work.flags} :
                  /\ scan' = [scan EXCEPT !.due = due]
                  /\ todo' = [todo EXCEPT ![Pass] = ids]
    <3>1. PICK due \in SUBSET work.index : \E ids \in {due, due \ work.flags} :
            scan' = [scan EXCEPT !.due = due] /\ todo' = [todo EXCEPT ![Pass] = ids]
      BY <2>2
    <3>2. due \subseteq Images
      BY DEF TypeOK, Content
    <3>3. scan' \in Scans /\ todo' \in [Threads -> SUBSET Images]
      BY <3>1, <3>2 DEF TypeOK, Scans
    <3> QED BY <1>2, <2>2, <3>3, GotoType DEF ReadRecords, TypeOK, database, Scans
  <2> QED BY <1>2, <2>1, <2>2 DEF ReadRecords
<1>3. CASE BeginPassTx
  <2>1. \/ pc' = [pc EXCEPT ![Pass] = "rows"]
        \/ pc' = [pc EXCEPT ![Pass] = "idle"]
    BY <1>3 DEF BeginPassTx, BeginTx
  <2>2. /\ pc' \in [Threads -> PassPc \cup SavePc] /\ pc'[Pass] \in PassPc \ ScanPc
        /\ \A s \in Savers : pc'[s] \in SavePc
    BY <2>1 DEF TypeOK
  <2>3. todo' \in [Threads -> SUBSET Images] /\ scan' \in Scans
    BY <1>3, EndOfPassType DEF BeginPassTx, TypeOK, Scans
  <2>4. tx' \in {tx, Pass}
    BY <1>3 DEF BeginPassTx, BeginTx
  <2>5. UNCHANGED <<disk, conn, work, session, want, cut, undone>>
    BY <1>3 DEF BeginPassTx, BeginTx
  <2> QED BY <2>2, <2>3, <2>4, <2>5 DEF TypeOK, Scans
<1>4. CASE WriteRow
  <2>1. PICK i \in todo[Pass] :
          /\ Write(Pass, IF scan.ingest THEN [work EXCEPT !.index = @ \cup {i}]
                                        ELSE [work EXCEPT !.flags = @ \cup {i}])
          /\ todo' = [todo EXCEPT ![Pass] = @ \ {i}]
    BY <1>4 DEF WriteRow
  <2>a. work \in Content /\ i \in Images
    BY DEF TypeOK
  <2>2. /\ [work EXCEPT !.index = @ \cup {i}] \in Content
        /\ [work EXCEPT !.flags = @ \cup {i}] \in Content
    BY <2>a DEF Content
  <2>3. (IF scan.ingest THEN [work EXCEPT !.index = @ \cup {i}]
                        ELSE [work EXCEPT !.flags = @ \cup {i}]) \in Content
    BY <2>2
  <2> QED BY <1>4, <2>1, <2>3, WriteType DEF WriteRow, TypeOK
<1>5. CASE CommitRows
  <2>1. PICK to \in {"idle", "stamp", "begin"} : Goto(Pass, "rows", to)
    BY <1>5 DEF CommitRows
  <2>4. /\ pc' \in [Threads -> Pcs] /\ pc'[Pass] \in PassPc \ ScanPc
        /\ \A s \in Savers : pc'[s] \in SavePc
    BY <2>1, GotoType
  <2>2. disk' \in [Folders -> Content]
    BY <1>5 DEF CommitRows, CommitTx, TypeOK
  <2>3. todo' \in [Threads -> SUBSET Images] /\ scan' \in Scans
    BY <1>5, EndOfPassType DEF CommitRows, TypeOK, Scans
  <2>5. tx' = Nobody /\ UNCHANGED <<conn, work, session, want, cut, undone>>
    BY <1>5 DEF CommitRows, CommitTx
  <2> QED BY <2>2, <2>3, <2>4, <2>5 DEF TypeOK, Scans
<1>6. CASE RowFails
  BY <1>6, GotoType, FailsType DEF RowFails, TypeOK
<1>7. CASE RollbackRows
  <2>1. Empty \in Content
    BY DEF Empty, Content, NoDecisions, Decision
  <2> QED BY <1>7, <2>1, GotoType, EndOfPassType DEF RollbackRows, RollbackTx, TypeOK, Scans
<1>8. CASE Stamp
  <2>1. [work EXCEPT !.stamped = @ \cup scan.due] \in Content
    BY DEF TypeOK, Content
  <2>2. /\ disk' \in [Folders -> Content] /\ work' \in Content
        /\ conn' = conn /\ tx' \in {tx, Nobody} /\ undone' \in BOOLEAN
    BY <1>8, <2>1, WriteType, FailsType DEF Stamp, TypeOK
  <2> QED BY <1>8, <2>2, GotoType, EndOfPassType DEF Stamp, TypeOK, Scans
<1> QED BY <1>1, <1>2, <1>3, <1>4, <1>5, <1>6, <1>7, <1>8 DEF PassStep

\* A save's steps keep the types.
LEMMA SaveType ==
  ASSUME Typed, NEW s \in Savers, Submit(s) \/ SaveStatement(s), UNCHANGED overlapped
  PROVE  Typed'
<1> USE ThreadAssumption DEF Typed, EndOfSave, Threads, Pcs, SavePc
<1>1. CASE Submit(s)
  <2>1. /\ work.index \subseteq Images
        /\ \A c \in Choices : session \in Folders => <<session, c>> \in Decision
    BY DEF TypeOK, Content, Decision
  <2> QED BY <1>1, <2>1, GotoType DEF Submit, TypeOK, database
<1>2. CASE SaveStep(s)
  <2>1. \A b \in BOOLEAN : [work EXCEPT !.begun = b] \in Content
    BY DEF TypeOK, Content
  <2>2. PICK to \in {"idle", "failed"} : Goto(s, "step", to)
    BY <1>2 DEF SaveStep
  <2>3. /\ disk' \in [Folders -> Content] /\ work' \in Content
        /\ conn' = conn /\ tx' \in {tx, Nobody} /\ undone' \in BOOLEAN
    BY <1>2, <2>1, WriteType, FailsType DEF SaveStep, TypeOK
  <2> QED BY <1>2, <2>2, <2>3, GotoType DEF SaveStep, TypeOK
<1>3. CASE BeginSave(s)
  BY <1>3 DEF BeginSave, BeginTx, TypeOK, PassPc, ScanPc, Decision
<1>4. CASE DeleteDecisions(s)
  <2>1. [work EXCEPT !.decisions = NoDecisions] \in Content
    BY DEF TypeOK, Content, NoDecisions, Decision
  <2> QED BY <1>4, <2>1, WriteType, GotoType DEF DeleteDecisions, TypeOK
<1>5. CASE PrepareInsert(s)
  BY <1>5, GotoType DEF PrepareInsert, TypeOK, database
<1>6. CASE InsertDecision(s)
  <2>1. PICK i \in todo[s] \cap work.index :
          /\ Write(s, [work EXCEPT !.decisions[i] = want[s]])
          /\ todo' = [todo EXCEPT ![s] = @ \ {i}]
    BY <1>6 DEF InsertDecision
  <2>2. [work EXCEPT !.decisions[i] = want[s]] \in Content
    BY DEF TypeOK, Content
  <2> QED BY <1>6, <2>1, <2>2, WriteType DEF InsertDecision, TypeOK
<1>7. CASE InsertOrphan(s)
  BY <1>7, GotoType DEF InsertOrphan, TypeOK, database
<1>8. CASE AllInserted(s)
  BY <1>8, GotoType DEF AllInserted, TypeOK, database
<1>9. CASE CommitSave(s)
  BY <1>9, GotoType DEF CommitSave, CommitTx, TypeOK, Decision
<1>10. CASE SaveFails(s)
  BY <1>10, GotoType, FailsType DEF SaveFails, TypeOK
<1>11. CASE RollbackSave(s)
  <2>1. Empty \in Content
    BY DEF Empty, Content, NoDecisions, Decision
  <2> QED BY <1>11, <2>1, GotoType DEF RollbackSave, RollbackTx, TypeOK, Decision
<1> QED BY <1>1, <1>2, <1>3, <1>4, <1>5, <1>6, <1>7, <1>8, <1>9, <1>10, <1>11
       DEF SaveStatement

\* Every step keeps the types.
LEMMA TypeStep == Typed /\ [Next]_vars => Typed'
<1> SUFFICES ASSUME Typed, [Next]_vars PROVE Typed'
  OBVIOUS
<1> USE DEF Typed
<1>1. Empty \in Content
  BY DEF Empty, Content, NoDecisions, Decision
<1>2. CASE \E f \in Folders, fresh \in BOOLEAN : StartScan(f, fresh)
  <2>1. PICK f \in Folders, fresh \in BOOLEAN : StartScan(f, fresh)
    BY <1>2
  <2>2. /\ pc' \in [Threads -> Pcs]
        /\ pc'[Pass] \in PassPc /\ \A s \in Savers : pc'[s] \in SavePc
    BY <2>1, ThreadAssumption DEF StartScan, TypeOK, Threads, Pcs, PassPc, ScanPc, SavePc
  <2> QED BY <1>1, <2>1, <2>2 DEF StartScan, TypeOK, Pcs, ScanPc
<1>3. CASE Crash
  <2>1. /\ pc'[Pass] = "idle" /\ pc' \in [Threads -> Pcs]
        /\ pc'[Pass] \in PassPc /\ \A s \in Savers : pc'[s] \in SavePc
    BY <1>3 DEF Crash, AllIdle, Threads, Pcs, PassPc, SavePc
  <2>2. todo' \in [Threads -> SUBSET Images] /\ want' \in [Savers -> Decision]
    BY <1>3 DEF Crash, NothingToDo, NothingWanted, Decision
  <2> QED BY <1>1, <1>3, <2>1, <2>2 DEF Crash, TypeOK, Pcs, ScanPc, NoScan
<1>4. CASE UNCHANGED vars
  BY <1>4 DEF vars, TypeOK
<1> QED BY <1>2, <1>3, <1>4, ScanType, PassType, SaveType DEF Next

\* Every variable keeps its type.
THEOREM TypeCorrect == Spec => []TypeOK
<1>1. Typed => TypeOK
  BY DEF Typed
<1> QED BY <1>1, InitType, TypeStep, PTL DEF Spec

------------------------------------------------------------------------------
(* What statements, commits and rollbacks leave of the tables.                *)

\* Whole looks at the index and the decisions, Vouched at the rest.
LEMMA SameTables ==
  ASSUME NEW c, NEW d
  PROVE  /\ c.index = d.index /\ c.decisions = d.decisions /\ Whole(c) => Whole(d)
         /\ c.index = d.index /\ c.flags = d.flags /\ c.stamped = d.stamped /\ Vouched(c)
              => Vouched(d)
BY Zenon DEF Whole, Vouched

\* An empty folder is whole and has nothing to vouch for.
LEMMA WholeEmpty ==
  ASSUME NEW c, c.decisions = NoDecisions
  PROVE  Whole(c)
<1>1. NoChoice \in Decision
  BY DEF Decision
<1>2. NoDecisions = [i \in Images |-> IF i \in c.index THEN NoChoice ELSE NoChoice]
  BY DEF NoDecisions
<1> QED BY <1>1, <1>2, Zenon DEF Whole

\* Nothing written, and the transaction no saver's or the same.
LEMMA TablesKept ==
  ASSUME TablesInv, UNCHANGED <<disk, work, cut>>, tx' \in Savers \/ tx \notin Savers
  PROVE  TablesInv'
BY DEF TablesInv, IndexWholeUnlessStopped

\* A statement that leaves consistent tables.
LEMMA TablesWritten ==
  ASSUME Typed, TablesInv, NEW t, NEW new \in Content, Write(t, new), cut' = cut,
         Vouched(new), tx \notin Savers => Whole(new),
         tx = Nobody => conn \in cut \/ new.index \in {{}, Images}
  PROVE  TablesInv'
<1>1. /\ disk \in [Folders -> Content] /\ work' = new /\ tx' = tx /\ conn' = conn
      /\ disk' = IF tx = Nobody THEN [disk EXCEPT ![conn] = new] ELSE disk
  BY DEF Typed, TypeOK, Write
<1>2. \A f \in Folders : disk'[f] = disk[f] \/ (f = conn /\ tx = Nobody /\ disk'[f] = new)
  BY <1>1
<1> QED BY <1>1, <1>2, ThreadAssumption DEF TablesInv, IndexWholeUnlessStopped

\* A commit of consistent tables.
LEMMA TablesCommitted ==
  ASSUME Typed, TablesInv, CommitTx, cut' = cut, Whole(work),
         conn \in cut \/ work.index \in {{}, Images}
  PROVE  TablesInv'
<1>1. /\ disk \in [Folders -> Content] /\ work' = work /\ tx' = Nobody
      /\ disk' = [disk EXCEPT ![conn] = work]
  BY DEF Typed, TypeOK, CommitTx
<1>2. \A f \in Folders : disk'[f] = disk[f] \/ (f = conn /\ disk'[f] = work)
  BY <1>1
<1> QED BY <1>1, <1>2, ThreadAssumption DEF TablesInv, IndexWholeUnlessStopped

\* A rollback goes back to tables that are consistent.
LEMMA TablesRolledBack ==
  ASSUME Typed, TablesInv, RollbackTx, cut' = cut
  PROVE  TablesInv'
<1>1. Whole(Empty) /\ Vouched(Empty)
  BY WholeEmpty DEF Empty, Vouched
<1> QED BY <1>1, ThreadAssumption
       DEF Typed, TypeOK, RollbackTx, TablesInv, IndexWholeUnlessStopped

\* A statement in the open transaction touches what its thread may.
LEMMA LinkWritten ==
  ASSUME Typed, LinkInv, NEW t, NEW new \in Content, Write(t, new), scan'.ingest = scan.ingest,
         tx # Nobody /\ ~(tx = Pass /\ scan.ingest) => new.index = work.index,
         tx \notin {Pass, Nobody} => new.flags = work.flags
  PROVE  LinkInv'
BY FolderAssumption DEF Typed, TypeOK, Write, LinkInv

\* A statement that leaves index, rows and decisions alone.
LEMMA StateWritten ==
  ASSUME Typed, LinkInv, TablesInv, NEW t, NEW new \in Content, Write(t, new),
         new.index = work.index, new.flags = work.flags, new.decisions = work.decisions,
         Vouched(new), scan'.ingest = scan.ingest, cut' = cut
  PROVE  LinkInv' /\ TablesInv'
<1>1. tx \notin Savers => Whole(new)
  BY SameTables DEF TablesInv
<1>2. tx = Nobody => conn \in cut \/ new.index \in {{}, Images}
  BY DEF Typed, TypeOK, Write, LinkInv, TablesInv, IndexWholeUnlessStopped
<1> QED BY <1>1, <1>2, LinkWritten, TablesWritten

\* While a scan is under way it is the only one to hold a transaction.
LEMMA ScanIsAlone ==
  ASSUME Typed, Inner, Scanning
  PROVE  /\ \A s \in Savers : Calm(s) /\ tx # s
         /\ pc[Pass] \in ScanPc => tx = Nobody
<1>1. \A s \in Savers : Calm(s)
  BY DEF Inner, ScansAlone
<1>2. \A s \in Savers : tx # s
  BY <1>1 DEF Inner, Calm, Owners, InTransaction, Threads
<1>3. pc[Pass] \in ScanPc => tx # Pass
  BY DEF Inner, Owners, InTransaction, Threads, ScanPc
<1> QED BY <1>1, <1>2, <1>3 DEF Typed, TypeOK, Threads

\* The part of Typed that the steps need, without the sets of values.
Ranges ==
  /\ pc \in [Threads -> Pcs] /\ todo \in [Threads -> SUBSET Images]
  /\ disk \in [Folders -> Content] /\ work \in Content /\ want \in [Savers -> Decision]
  /\ conn \in Folders \cup {NoFolder} /\ scan \in Scans
  /\ pc[Pass] \in ScanPc => scan.folder \in Folders

\* The ranges that the steps below use, from the types.
LEMMA TypedRanges == Typed => Ranges
BY DEF Typed, TypeOK, Pcs, Scans, Ranges

\* OpenDatabase keeps the inner invariant.
LEMMA OpenDatabaseInner ==
  ASSUME Typed, Inner, OpenDatabase
  PROVE  Inner'
<1> USE ThreadAssumption, FolderAssumption DEF Inner, Goto, Threads, Ranges
<1>0. Ranges
  BY TypedRanges
<1>1. Owners' /\ ScansAlone' /\ ScanInv' /\ AnalysisInv'
  BY <1>0 DEF OpenDatabase, Owners, InTransaction, ScansAlone, Calm,
       Scanning, ScanPc, ScanInv, AnalysisInv
<1>2. IngestInv'
  BY <1>0 DEF OpenDatabase, EndOfPass, NoScan, IngestInv
<1>3. SavesInv'
  BY <1>0 DEF OpenDatabase, SavesInv, ScansAlone, Calm, Scanning, ScanPc
<1>4. LinkInv'
  <2>1. tx = Nobody
    BY ScanIsAlone DEF OpenDatabase, Scanning, ScanPc
  <2> QED BY <1>0, <2>1 DEF OpenDatabase, LinkInv, ScanPc
<1>5. TablesInv'
  <2>1. scan.folder \in Folders /\ (work' = work \/ work' = disk[scan.folder])
    BY <1>0 DEF OpenDatabase, ScanPc
  <2>2. UNCHANGED <<disk, tx, cut>>
    BY DEF OpenDatabase
  <2> QED BY <2>1, <2>2 DEF TablesInv, IndexWholeUnlessStopped
<1> QED BY <1>1, <1>2, <1>3, <1>4, <1>5

\* ResetImages keeps the inner invariant.
LEMMA ResetImagesInner ==
  ASSUME Typed, Inner, ResetImages
  PROVE  Inner'
<1> USE ThreadAssumption, FolderAssumption DEF Inner, Goto, Threads, Ranges
<1>0. Ranges
  BY TypedRanges
<1> DEFINE new == [work EXCEPT !.index = {}, !.flags = {}, !.decisions = NoDecisions]
<1>a. /\ new \in Content /\ new.index = {} /\ new.decisions = NoDecisions
      /\ new.flags = {}
  BY <1>0 DEF ResetImages, Content, NoDecisions, Decision, ScanInv
<1>b. tx = Nobody /\ Whole(new) /\ Vouched(new)
  BY <1>a, ScanIsAlone, WholeEmpty DEF ResetImages, Scanning, ScanPc, Vouched
<1>c. Write(Pass, new) /\ UNCHANGED <<scan, cut>>
  BY DEF ResetImages
<1> HIDE DEF new
<1>1. Owners' /\ ScansAlone' /\ ScanInv' /\ AnalysisInv'
  BY <1>0 DEF ResetImages, Write, Owners, InTransaction, ScansAlone,
       Calm, Scanning, ScanPc, ScanInv, AnalysisInv
<1>2. IngestInv' /\ SavesInv'
  BY <1>0 DEF ResetImages, IngestInv, ScansAlone, Calm, Scanning, ScanPc, SavesInv
<1>3. LinkInv'
  BY <1>a, <1>b, <1>c, LinkWritten, Zenon
<1>4. TablesInv'
  BY <1>a, <1>b, <1>c, TablesWritten
<1> QED BY <1>1, <1>2, <1>3, <1>4

\* ResetState keeps the inner invariant.
LEMMA ResetStateInner ==
  ASSUME Typed, Inner, ResetState
  PROVE  Inner'
<1> USE ThreadAssumption, FolderAssumption DEF Inner, Goto, Threads, Ranges
<1>0. Ranges
  BY TypedRanges
<1> DEFINE new == [work EXCEPT !.stamped = {}, !.begun = FALSE]
<1>a. /\ new \in Content /\ new.index = {} /\ new.decisions = NoDecisions
      /\ new.flags = {}
  BY <1>0 DEF ResetState, Content, NoDecisions, Decision, ScanInv
<1>b. tx = Nobody /\ Whole(new) /\ Vouched(new)
  BY <1>a, ScanIsAlone, WholeEmpty DEF ResetState, Scanning, ScanPc, Vouched
<1>c. Write(Pass, new) /\ UNCHANGED <<scan, cut>>
  BY DEF ResetState
<1> HIDE DEF new
<1>1. Owners' /\ ScansAlone' /\ ScanInv' /\ AnalysisInv'
  BY <1>0 DEF ResetState, Write, Owners, InTransaction, ScansAlone,
       Calm, Scanning, ScanPc, ScanInv, AnalysisInv
<1>2. IngestInv' /\ SavesInv'
  BY <1>0 DEF ResetState, IngestInv, ScansAlone, Calm, Scanning, ScanPc, SavesInv
<1>3. LinkInv'
  BY <1>a, <1>b, <1>c, LinkWritten, Zenon
<1>4. TablesInv'
  BY <1>a, <1>b, <1>c, TablesWritten
<1> QED BY <1>1, <1>2, <1>3, <1>4

\* ResetFails keeps the inner invariant.
LEMMA ResetFailsInner ==
  ASSUME Typed, Inner, ResetFails, ~undone'
  PROVE  Inner'
<1> USE ThreadAssumption, FolderAssumption DEF Inner, Goto, Threads, Ranges
<1>0. Ranges
  BY TypedRanges
<1>f. UNCHANGED database
  BY FailsAlone DEF ResetFails
<1>1. Owners' /\ ScansAlone' /\ ScanInv' /\ AnalysisInv'
  BY <1>0, <1>f DEF ResetFails, database, Owners, InTransaction, ScansAlone,
       Calm, Scanning, ScanPc, ScanInv, AnalysisInv
<1>2. LinkInv' /\ IngestInv' /\ SavesInv'
  BY <1>0, <1>f DEF ResetFails, EndOfPass, NoScan, database, LinkInv, IngestInv, SavesInv
<1>3. TablesInv'
  BY <1>0, <1>f, TablesKept DEF ResetFails, database
<1> QED BY <1>1, <1>2, <1>3

\* Activate keeps the inner invariant.
LEMMA ActivateInner ==
  ASSUME Typed, Inner, Activate
  PROVE  Inner'
<1> USE ThreadAssumption, FolderAssumption DEF Inner, Goto, Threads, Ranges
<1>0. Ranges
  BY TypedRanges
<1>1. Owners'
  BY <1>0 DEF Activate, database, Owners, InTransaction
<1>2. ScansAlone'
  BY <1>0 DEF Activate, ScansAlone, Calm, Scanning, ScanPc
<1>3. ScanInv'
  BY <1>0 DEF Activate, ScanInv, ScanPc
<1>4. LinkInv' /\ SavesInv'
  BY <1>0 DEF Activate, database, LinkInv, Owners, InTransaction,
       ScansAlone, Calm, Scanning, ScanPc, SavesInv
<1>5. TablesInv'
  <2>1. tx = Nobody /\ conn = scan.folder /\ conn \in Folders /\ work = disk[conn]
    BY <1>0, ScanIsAlone DEF Activate, Scanning, ScanPc, ScanInv, LinkInv
  <2>2. UNCHANGED <<disk, work, tx>> /\ (cut' = cut \/ disk[conn].index = {})
    BY <2>1 DEF Activate, database, ScanInv
  <2>3. \A f \in Folders : f # conn => (f \in cut' <=> f \in cut)
    BY <2>1 DEF Activate
  <2> QED BY <2>1, <2>2, <2>3 DEF TablesInv, IndexWholeUnlessStopped
<1>6. IngestInv'
  <2>1. tx = Nobody /\ conn = scan.folder /\ conn \in Folders /\ work = disk[conn]
    BY <1>0, ScanIsAlone DEF Activate, Scanning, ScanPc, ScanInv, LinkInv
  <2>2. CASE scan.fresh
    <3>1. PICK found \in SUBSET Images :
            /\ todo' = [todo EXCEPT ![Pass] = found]
            /\ cut' = IF found = Images THEN cut \ {session'} ELSE cut \cup {session'}
      BY <2>2 DEF Activate
    <3>2. conn \in cut' \/ todo'[Pass] = Images
      BY <1>0, <2>1, <3>1 DEF Activate
    <3> QED BY <1>0, <2>1, <2>2, <3>2 DEF Activate, database, IngestInv, ScanInv
  <2>3. CASE ~scan.fresh
    BY <2>3 DEF Activate, EndOfPass, NoScan, IngestInv
  <2> QED BY <2>2, <2>3
<1>7. AnalysisInv'
  <2>1. scan.fresh => scan'.ingest
    BY <1>0 DEF Activate, Scans
  <2>2. ~scan.fresh => pc'[Pass] = "idle"
    BY <1>0 DEF Activate
  <2> QED BY <2>1, <2>2 DEF AnalysisInv
<1> QED BY <1>1, <1>2, <1>3, <1>4, <1>5, <1>6, <1>7

\* StartAnalysis keeps the inner invariant.
LEMMA StartAnalysisInner ==
  ASSUME Typed, Inner, StartAnalysis, ~undone'
  PROVE  Inner'
<1> USE ThreadAssumption, FolderAssumption DEF Inner, Goto, Threads, Ranges
<1>0. Ranges
  BY TypedRanges
<1> DEFINE new == [work EXCEPT !.begun = TRUE]
<1>a. /\ new \in Content /\ new.index = work.index /\ new.flags = work.flags
      /\ new.decisions = work.decisions /\ new.stamped = work.stamped
  BY <1>0 DEF Content
<1>b. Vouched(new)
  BY <1>0, <1>a DEF TablesInv, Vouched
<1>c. Write(Pass, new) \/ UNCHANGED database
  BY FailsAlone DEF StartAnalysis
<1>d. UNCHANGED <<scan, cut>>
  BY DEF StartAnalysis
<1> HIDE DEF new
<1>1. Owners' /\ ScansAlone' /\ ScanInv' /\ AnalysisInv'
  <2>1. pc[Pass] = "idle" /\ pc' = [pc EXCEPT ![Pass] = "read"] /\ tx' = tx
    BY <1>c DEF StartAnalysis, Write, database
  <2> QED BY <1>0, <1>d, <2>1 DEF Owners, InTransaction, ScansAlone, Calm, Scanning, ScanPc,
            ScanInv, AnalysisInv
<1>2. IngestInv'
  BY <1>0 DEF StartAnalysis, IngestInv
<1>3. LinkInv'
  BY <1>a, <1>b, <1>c, <1>d, StateWritten DEF database, LinkInv
<1>4. TablesInv'
  BY <1>a, <1>b, <1>c, <1>d, StateWritten, TablesKept DEF database
<1>5. SavesInv'
  <2>1. work'.index = work.index /\ work'.decisions = work.decisions
    BY <1>a, <1>c DEF Write, database
  <2>2. pc' = [pc EXCEPT ![Pass] = "read"] /\ UNCHANGED <<todo, want>>
    BY DEF StartAnalysis
  <2> QED BY <1>0, <2>1, <2>2 DEF SavesInv
<1> QED BY <1>1, <1>2, <1>3, <1>4, <1>5

\* ReadRecords keeps the inner invariant.
LEMMA ReadRecordsInner ==
  ASSUME Typed, Inner, ReadRecords, ~undone'
  PROVE  Inner'
<1> USE ThreadAssumption, FolderAssumption DEF Inner, Goto, Threads, Ranges
<1>0. Ranges
  BY TypedRanges
<1>f. UNCHANGED database
  BY FailsAlone DEF ReadRecords
<1>g. /\ scan'.ingest = scan.ingest /\ scan'.fresh = scan.fresh
      /\ scan'.folder = scan.folder /\ \A s \in Savers : todo'[s] = todo[s]
      /\ \/ pc' = [pc EXCEPT ![Pass] = "idle"]
         \/ /\ pc' = [pc EXCEPT ![Pass] = "begin"] /\ conn # NoFolder
            /\ scan'.due \ todo'[Pass] \subseteq work.flags
  BY <1>0 DEF ReadRecords, Scans
<1>h. /\ pc[Pass] = "read" /\ ~scan.ingest
      /\ UNCHANGED <<disk, conn, tx, work, session, want, cut>>
  BY <1>0, <1>f DEF ReadRecords, IngestInv, database
<1>1. Owners' /\ ScansAlone' /\ ScanInv' /\ AnalysisInv'
  BY <1>0, <1>g, <1>h DEF Owners, InTransaction, ScansAlone, Calm, Scanning, ScanPc,
     ScanInv, AnalysisInv
<1>2. LinkInv' /\ IngestInv' /\ SavesInv'
  BY <1>0, <1>g, <1>h DEF LinkInv, IngestInv, SavesInv
<1>3. TablesInv'
  BY <1>0, <1>f, TablesKept DEF ReadRecords, database
<1> QED BY <1>1, <1>2, <1>3

\* BeginPassTx keeps the inner invariant.
LEMMA BeginPassTxInner ==
  ASSUME Typed, Inner, BeginPassTx
  PROVE  Inner'
<1> USE ThreadAssumption, FolderAssumption DEF Inner, Goto, Threads, Ranges
<1>0. Ranges
  BY TypedRanges
<1>1. Owners' /\ ScansAlone' /\ ScanInv' /\ AnalysisInv'
  BY <1>0 DEF BeginPassTx, BeginTx, EndOfPass, NoScan, Owners,
       InTransaction, ScansAlone, Calm, Scanning, ScanPc, ScanInv, AnalysisInv
<1>2. LinkInv' /\ IngestInv' /\ SavesInv'
  BY <1>0 DEF BeginPassTx, BeginTx, EndOfPass, NoScan, LinkInv, Owners,
       InTransaction, IngestInv, SavesInv
<1>3. TablesInv'
  BY <1>0, TablesKept DEF BeginPassTx, BeginTx
<1> QED BY <1>1, <1>2, <1>3

\* WriteRow keeps the inner invariant.
LEMMA WriteRowInner ==
  ASSUME Typed, Inner, WriteRow
  PROVE  Inner'
<1> USE ThreadAssumption, FolderAssumption DEF Inner, Goto, Threads, Ranges
<1>0. Ranges
  BY TypedRanges
<1> DEFINE new(i) == IF scan.ingest THEN [work EXCEPT !.index = @ \cup {i}]
                                  ELSE [work EXCEPT !.flags = @ \cup {i}]
<1>a. PICK i \in todo[Pass] : /\ Write(Pass, new(i))
                             /\ todo' = [todo EXCEPT ![Pass] = @ \ {i}]
  BY DEF WriteRow
<1>b. /\ new(i) \in Content /\ new(i).decisions = work.decisions
      /\ new(i).stamped = work.stamped
      /\ new(i).index = IF scan.ingest THEN work.index \cup {i} ELSE work.index
      /\ new(i).flags = IF scan.ingest THEN work.flags ELSE work.flags \cup {i}
  BY <1>0 DEF Content
<1>c. tx = Pass
  BY DEF WriteRow, Owners, InTransaction
<1>d. UNCHANGED <<scan, cut, disk, conn, tx>> /\ work' = new(i)
  BY <1>a, <1>c DEF WriteRow, Write
<1> HIDE DEF new
<1>1. Owners' /\ ScansAlone' /\ ScanInv' /\ AnalysisInv'
  BY <1>0 DEF WriteRow, Write, Owners, InTransaction, ScansAlone, Calm,
       Scanning, ScanInv, AnalysisInv
<1>2. SavesInv'
  BY <1>0 DEF WriteRow, Write, SavesInv, ScansAlone, Calm, Scanning
<1>3. LinkInv'
  BY <1>0, <1>a, <1>b, <1>c, LinkWritten DEF WriteRow
<1>4. TablesInv'
  <2>1. Whole(new(i))
    <3>1. CASE scan.ingest
      BY <1>b, <3>1, WholeEmpty DEF IngestInv
    <3>2. CASE ~scan.ingest
      BY <1>b, <1>c, <3>2, SameTables DEF TablesInv
    <3> QED BY <3>1, <3>2
  <2>2. Vouched(new(i))
    BY <1>b DEF Vouched, IngestInv, TablesInv
  <2> QED BY <1>a, <1>b, <1>c, <1>d, <2>1, <2>2, TablesWritten
<1>5. IngestInv'
  BY <1>0, <1>a, <1>b, <1>c, <1>d DEF WriteRow, IngestInv
<1> QED BY <1>1, <1>2, <1>3, <1>4, <1>5

\* CommitRows keeps the inner invariant.
LEMMA CommitRowsInner ==
  ASSUME Typed, Inner, CommitRows
  PROVE  Inner'
<1> USE ThreadAssumption, FolderAssumption DEF Inner, Goto, Threads, Ranges
<1>0. Ranges
  BY TypedRanges
<1>a. tx = Pass /\ CommitTx /\ cut' = cut
  BY DEF CommitRows, Owners, InTransaction
<1>b. scan.ingest => todo[Pass] = {} /\ scan'.ingest = FALSE
  BY DEF CommitRows, EndOfPass, NoScan
<1>c. conn \in Folders
  BY <1>0, <1>a DEF LinkInv
<1>1. Owners' /\ ScansAlone' /\ ScanInv' /\ AnalysisInv'
  BY <1>0 DEF CommitRows, CommitTx, EndOfPass, NoScan, Owners,
       InTransaction, ScansAlone, Scanning, ScanPc, ScanInv, AnalysisInv
<1>2. IngestInv' /\ SavesInv'
  BY <1>0 DEF CommitRows, CommitTx, EndOfPass, NoScan, IngestInv, SavesInv
<1>3. LinkInv'
  <2>1. work' = work /\ conn' = conn /\ tx' = Nobody /\ disk'[conn] = work
    BY <1>0, <1>a, <1>c DEF CommitTx
  <2> QED BY <1>c, <2>1 DEF LinkInv
<1>4. TablesInv'
  <2>1. Whole(work)
    BY <1>a DEF TablesInv
  <2>2. conn \in cut \/ work.index \in {{}, Images}
    <3>1. CASE scan.ingest
      BY <1>b, <3>1 DEF CommitRows, IngestInv
    <3>2. CASE ~scan.ingest
      BY <1>c, <3>2 DEF LinkInv, TablesInv, IndexWholeUnlessStopped
    <3> QED BY <3>1, <3>2
  <2> QED BY <1>a, <2>1, <2>2, TablesCommitted
<1> QED BY <1>1, <1>2, <1>3, <1>4

\* RowFails keeps the inner invariant.
LEMMA RowFailsInner ==
  ASSUME Typed, Inner, RowFails, ~undone'
  PROVE  Inner'
<1> USE ThreadAssumption, FolderAssumption DEF Inner, Goto, Threads, Ranges
<1>0. Ranges
  BY TypedRanges
<1>f. UNCHANGED database
  BY FailsAlone DEF RowFails
<1>1. Owners' /\ ScansAlone' /\ ScanInv' /\ AnalysisInv'
  BY <1>0, <1>f DEF RowFails, database, Owners, InTransaction, ScansAlone,
       Calm, Scanning, ScanPc, ScanInv, AnalysisInv
<1>2. LinkInv' /\ IngestInv' /\ SavesInv'
  BY <1>0, <1>f DEF RowFails, database, LinkInv, IngestInv, SavesInv
<1>3. TablesInv'
  BY <1>0, <1>f, TablesKept DEF RowFails, database
<1> QED BY <1>1, <1>2, <1>3

\* RollbackRows keeps the inner invariant.
LEMMA RollbackRowsInner ==
  ASSUME Typed, Inner, RollbackRows
  PROVE  Inner'
<1> USE ThreadAssumption, FolderAssumption DEF Inner, Goto, Threads, Ranges
<1>0. Ranges
  BY TypedRanges
<1>1. Owners' /\ ScansAlone' /\ ScanInv' /\ AnalysisInv'
  BY <1>0 DEF RollbackRows, RollbackTx, EndOfPass, NoScan, Owners,
       InTransaction, ScansAlone, Scanning, ScanPc, ScanInv, AnalysisInv
<1>2. LinkInv' /\ IngestInv' /\ SavesInv'
  BY <1>0 DEF RollbackRows, RollbackTx, EndOfPass, NoScan, LinkInv,
       Owners, InTransaction, ScansAlone, Calm, Scanning, IngestInv,
       SavesInv
<1>3. TablesInv'
  BY TablesRolledBack DEF RollbackRows
<1> QED BY <1>1, <1>2, <1>3

\* Stamp keeps the inner invariant.
LEMMA StampInner ==
  ASSUME Typed, Inner, Stamp, ~undone'
  PROVE  Inner'
<1> USE ThreadAssumption, FolderAssumption DEF Inner, Goto, Threads, Ranges
<1>0. Ranges
  BY TypedRanges
<1> DEFINE new == [work EXCEPT !.stamped = @ \cup scan.due]
<1>a. /\ new \in Content /\ new.index = work.index /\ new.flags = work.flags
      /\ new.decisions = work.decisions
      /\ new.stamped = work.stamped \cup scan.due
  <2>1. scan.due \subseteq Images /\ work \in Content
    BY <1>0 DEF Scans
  <2> QED BY <2>1 DEF Content
<1>b. Vouched(new)
  BY <1>0, <1>a DEF Stamp, IngestInv, AnalysisInv, TablesInv, Vouched
<1>c. Write(Pass, new) \/ UNCHANGED database
  BY FailsAlone DEF Stamp
<1>d. /\ ~scan.ingest /\ scan'.ingest = scan.ingest /\ cut' = cut
      /\ pc[Pass] = "stamp" /\ pc' = [pc EXCEPT ![Pass] = "idle"] /\ want' = want
      /\ \A s \in Savers : todo'[s] = todo[s]
  BY <1>0 DEF Stamp, EndOfPass, NoScan, IngestInv, Scans
<1>e. /\ conn' = conn /\ tx' = tx /\ work'.index = work.index
      /\ work'.flags = work.flags /\ work'.decisions = work.decisions
  BY <1>a, <1>c DEF Write, database
<1> HIDE DEF new
<1>1. Owners' /\ ScansAlone' /\ ScanInv' /\ AnalysisInv'
  BY <1>0, <1>d, <1>e DEF Owners, InTransaction, ScansAlone, Calm, Scanning, ScanPc,
     ScanInv, AnalysisInv
<1>2. IngestInv' /\ SavesInv'
  BY <1>0, <1>d, <1>e DEF IngestInv, SavesInv
<1>3. LinkInv'
  BY <1>a, <1>b, <1>c, <1>d, StateWritten DEF database, LinkInv
<1>4. TablesInv'
  BY <1>a, <1>b, <1>c, <1>d, StateWritten, TablesKept DEF database
<1> QED BY <1>1, <1>2, <1>3, <1>4

\* Submit keeps the inner invariant.
LEMMA SubmitInner ==
  ASSUME Typed, Inner, NEW s \in Savers, Submit(s)
  PROVE  Inner'
<1> USE ThreadAssumption, FolderAssumption DEF Inner, Goto, Threads, Ranges
<1>0. Ranges
  BY TypedRanges
<1>1. Owners' /\ ScansAlone' /\ ScanInv' /\ AnalysisInv'
  BY <1>0 DEF Submit, database, Owners, InTransaction, ScansAlone,
       Scanning, ScanInv, AnalysisInv
<1>2. LinkInv' /\ IngestInv' /\ SavesInv'
  BY <1>0 DEF Submit, database, LinkInv, IngestInv, SavesInv
<1>3. TablesInv'
  BY <1>0, TablesKept DEF Submit, database
<1> QED BY <1>1, <1>2, <1>3

\* SaveStep keeps the inner invariant.
LEMMA SaveStepInner ==
  ASSUME Typed, Inner, NEW s \in Savers, SaveStep(s), ~undone'
  PROVE  Inner'
<1> USE ThreadAssumption, FolderAssumption DEF Inner, Goto, Threads, Ranges
<1>0. Ranges
  BY TypedRanges
<1>a. PICK b \in BOOLEAN : Write(s, [work EXCEPT !.begun = b]) \/ UNCHANGED database
  BY FailsAlone DEF SaveStep
<1> DEFINE new == [work EXCEPT !.begun = b]
<1>b. /\ new \in Content /\ new.index = work.index /\ new.flags = work.flags
      /\ new.decisions = work.decisions /\ new.stamped = work.stamped
  BY <1>0 DEF Content
<1>c. Write(s, new) \/ UNCHANGED database
  BY <1>a
<1>d. UNCHANGED <<scan, cut>> /\ Vouched(new)
  BY <1>b DEF SaveStep, TablesInv, Vouched
<1>e. PICK to \in {"idle", "failed"} : pc' = [pc EXCEPT ![s] = to]
  BY DEF SaveStep
<1> HIDE DEF new
<1>1. Owners' /\ ScansAlone' /\ ScanInv' /\ AnalysisInv'
  <2>1. /\ pc[s] = "step" /\ conn' = conn /\ tx' = tx /\ UNCHANGED <<scan, todo>>
        /\ work'.flags = work.flags /\ work'.index = work.index
        /\ work'.decisions = work.decisions /\ work'.stamped = work.stamped
    BY <1>b, <1>c DEF SaveStep, Goto, Write, database
  <2> QED BY <1>0, <1>e, <2>1 DEF Owners, InTransaction, ScansAlone, Calm, Scanning,
            ScanInv, AnalysisInv
<1>2. IngestInv'
  BY <1>0 DEF SaveStep, IngestInv, ScansAlone, Calm, Scanning
<1>3. LinkInv'
  BY <1>b, <1>c, <1>d, StateWritten DEF database, LinkInv
<1>4. TablesInv'
  BY <1>b, <1>c, <1>d, StateWritten, TablesKept DEF database
<1>5. SavesInv'
  <2>1. work'.index = work.index /\ work'.decisions = work.decisions
    BY <1>b, <1>c DEF Write, database
  <2>2. UNCHANGED <<todo, want>>
    BY DEF SaveStep
  <2> QED BY <1>0, <1>e, <2>1, <2>2 DEF SavesInv
<1> QED BY <1>1, <1>2, <1>3, <1>4, <1>5

\* BeginSave keeps the inner invariant.
LEMMA BeginSaveInner ==
  ASSUME Typed, Inner, NEW s \in Savers, BeginSave(s)
  PROVE  Inner'
<1> USE ThreadAssumption, FolderAssumption DEF Inner, Goto, Threads, Ranges
<1>0. Ranges
  BY TypedRanges
<1>1. Owners'
  BY <1>0 DEF BeginSave, BeginTx, Owners, InTransaction
<1>2. ScansAlone'
  BY <1>0 DEF BeginSave, BeginTx, ScansAlone, Calm, Scanning
<1>3. ScanInv'
  BY <1>0 DEF BeginSave, BeginTx, ScanInv
<1>4. AnalysisInv'
  BY <1>0 DEF BeginSave, BeginTx, EndOfSave, AnalysisInv
<1>5. LinkInv' /\ IngestInv' /\ SavesInv'
  BY <1>0 DEF BeginSave, BeginTx, EndOfSave, LinkInv, IngestInv, SavesInv
<1>6. TablesInv'
  BY <1>0, TablesKept DEF BeginSave, BeginTx
<1> QED BY <1>1, <1>2, <1>3, <1>4, <1>5, <1>6

\* DeleteDecisions keeps the inner invariant.
LEMMA DeleteDecisionsInner ==
  ASSUME Typed, Inner, NEW s \in Savers, DeleteDecisions(s)
  PROVE  Inner'
<1> USE ThreadAssumption, FolderAssumption DEF Inner, Goto, Threads, Ranges
<1>0. Ranges
  BY TypedRanges
<1>1. Owners' /\ ScansAlone' /\ ScanInv' /\ AnalysisInv'
  BY <1>0 DEF DeleteDecisions, Write, Owners, InTransaction, ScansAlone,
       Calm, Scanning, ScanInv, AnalysisInv
<1>2. LinkInv' /\ IngestInv' /\ SavesInv'
  BY <1>0 DEF DeleteDecisions, Write, LinkInv, Owners, InTransaction,
       IngestInv, SavesInv, Content
<1>3. TablesInv'
  <2> DEFINE new == [work EXCEPT !.decisions = NoDecisions]
  <2>1. /\ new \in Content /\ new.index = work.index /\ new.flags = work.flags
        /\ new.stamped = work.stamped
    BY <1>0 DEF Content, NoDecisions, Decision
  <2>2. tx = s /\ Write(s, new) /\ cut' = cut
    BY DEF DeleteDecisions, Owners, InTransaction
  <2>3. Vouched(new)
    BY <2>1 DEF TablesInv, Vouched
  <2> HIDE DEF new
  <2> QED BY <2>1, <2>2, <2>3, TablesWritten
<1> QED BY <1>1, <1>2, <1>3

\* PrepareInsert keeps the inner invariant.
LEMMA PrepareInsertInner ==
  ASSUME Typed, Inner, NEW s \in Savers, PrepareInsert(s)
  PROVE  Inner'
<1> USE ThreadAssumption, FolderAssumption DEF Inner, Goto, Threads, Ranges
<1>0. Ranges
  BY TypedRanges
<1>1. Owners' /\ ScansAlone' /\ ScanInv' /\ AnalysisInv'
  BY <1>0 DEF PrepareInsert, database, Owners, InTransaction,
       ScansAlone, Calm, Scanning, ScanInv, AnalysisInv
<1>2. LinkInv' /\ IngestInv'
  BY <1>0 DEF PrepareInsert, database, LinkInv, IngestInv
<1>3. TablesInv'
  BY <1>0, TablesKept DEF PrepareInsert, database
<1>4. SavesInv'
  <2>1. work.decisions = [i \in Images |->
          IF i \in work.index \ todo[s] THEN want[s] ELSE NoChoice]
    BY DEF PrepareInsert, SavesInv, NoDecisions
  <2> QED BY <1>0, <2>1 DEF PrepareInsert, database, SavesInv
<1> QED BY <1>1, <1>2, <1>3, <1>4

\* InsertDecision keeps the inner invariant.
LEMMA InsertDecisionInner ==
  ASSUME Typed, Inner, NEW s \in Savers, InsertDecision(s)
  PROVE  Inner'
<1> USE ThreadAssumption, FolderAssumption DEF Inner, Goto, Threads, Ranges
<1>0. Ranges
  BY TypedRanges
<1>1. Owners' /\ ScansAlone' /\ ScanInv' /\ AnalysisInv'
  BY <1>0 DEF InsertDecision, Write, Owners, InTransaction, ScansAlone,
       Calm, Scanning, ScanInv, AnalysisInv
<1>2. LinkInv'
  BY <1>0 DEF InsertDecision, Write, LinkInv
<1>3. IngestInv'
  BY <1>0 DEF InsertDecision, IngestInv, ScansAlone, Calm, Scanning
<1>4. SavesInv'
  BY <1>0 DEF InsertDecision, Write, SavesInv, Owners, InTransaction,
       IngestInv, Content, Empty
<1>5. TablesInv'
  <2>1. PICK i \in todo[s] \cap work.index : Write(s, [work EXCEPT !.decisions[i] = want[s]])
    BY DEF InsertDecision
  <2> DEFINE new == [work EXCEPT !.decisions[i] = want[s]]
  <2>2. /\ new \in Content /\ new.index = work.index /\ new.flags = work.flags
        /\ new.stamped = work.stamped
    BY <1>0 DEF Content
  <2>3. tx = s /\ Write(s, new) /\ cut' = cut
    BY <2>1 DEF InsertDecision, Owners, InTransaction
  <2>4. Vouched(new)
    BY <2>2 DEF TablesInv, Vouched
  <2> HIDE DEF new
  <2> QED BY <2>2, <2>3, <2>4, TablesWritten
<1> QED BY <1>1, <1>2, <1>3, <1>4, <1>5

\* While scans run alone no save loses its connection.
LEMMA InsertOrphanInner ==
  ASSUME Typed, Inner, NEW s \in Savers, InsertOrphan(s)
  PROVE  FALSE
BY DEF Inner, ScansAlone, InsertOrphan, Goto

\* AllInserted keeps the inner invariant.
LEMMA AllInsertedInner ==
  ASSUME Typed, Inner, NEW s \in Savers, AllInserted(s)
  PROVE  Inner'
<1> USE ThreadAssumption, FolderAssumption DEF Inner, Goto, Threads, Ranges
<1>0. Ranges
  BY TypedRanges
<1>1. Owners' /\ ScansAlone' /\ ScanInv' /\ AnalysisInv'
  BY <1>0 DEF AllInserted, database, Owners, InTransaction, ScansAlone,
       Calm, Scanning, ScanInv, AnalysisInv
<1>2. LinkInv' /\ IngestInv' /\ SavesInv'
  BY <1>0 DEF AllInserted, database, LinkInv, IngestInv, SavesInv
<1>3. TablesInv'
  BY <1>0, TablesKept DEF AllInserted, database
<1> QED BY <1>1, <1>2, <1>3

\* CommitSave keeps the inner invariant.
LEMMA CommitSaveInner ==
  ASSUME Typed, Inner, NEW s \in Savers, CommitSave(s)
  PROVE  Inner'
<1> USE ThreadAssumption, FolderAssumption DEF Inner, Goto, Threads, Ranges
<1>0. Ranges
  BY TypedRanges
<1>a. tx = s /\ CommitTx /\ cut' = cut /\ scan' = scan
  BY DEF CommitSave, Owners, InTransaction
<1>b. conn \in Folders
  BY <1>0, <1>a DEF LinkInv
<1>1. Owners' /\ ScansAlone' /\ ScanInv' /\ AnalysisInv'
  BY <1>0 DEF CommitSave, CommitTx, EndOfSave, Owners, InTransaction,
       ScansAlone, Calm, Scanning, ScanInv, AnalysisInv
<1>2. IngestInv' /\ SavesInv'
  BY <1>0 DEF CommitSave, CommitTx, EndOfSave, IngestInv, ScansAlone, Calm, Scanning,
       SavesInv
<1>3. LinkInv'
  <2>1. work' = work /\ conn' = conn /\ tx' = Nobody /\ disk'[conn] = work
    BY <1>0, <1>a, <1>b DEF CommitTx
  <2> QED BY <1>b, <2>1 DEF LinkInv
<1>4. TablesInv'
  <2>1. work.decisions = [i \in Images |-> IF i \in work.index THEN want[s] ELSE NoChoice]
    BY DEF CommitSave, SavesInv
  <2>2. Whole(work)
    BY <1>0, <2>1, Zenon DEF Whole
  <2>3. conn \in cut \/ work.index \in {{}, Images}
    BY <1>a, <1>b DEF LinkInv, TablesInv, IndexWholeUnlessStopped
  <2> QED BY <1>a, <2>2, <2>3, TablesCommitted
<1> QED BY <1>1, <1>2, <1>3, <1>4

\* SaveFails keeps the inner invariant.
LEMMA SaveFailsInner ==
  ASSUME Typed, Inner, NEW s \in Savers, SaveFails(s), ~undone'
  PROVE  Inner'
<1> USE ThreadAssumption, FolderAssumption DEF Inner, Goto, Threads, Ranges
<1>0. Ranges
  BY TypedRanges
<1>f. UNCHANGED database
  BY FailsAlone DEF SaveFails
<1>1. Owners' /\ ScansAlone' /\ ScanInv' /\ AnalysisInv'
  BY <1>0, <1>f DEF SaveFails, database, Owners, InTransaction, ScansAlone,
       Calm, Scanning, ScanInv, AnalysisInv
<1>2. LinkInv' /\ IngestInv' /\ SavesInv'
  BY <1>0, <1>f DEF SaveFails, database, LinkInv, IngestInv, SavesInv
<1>3. TablesInv'
  BY <1>0, <1>f, TablesKept DEF SaveFails, database
<1> QED BY <1>1, <1>2, <1>3

\* RollbackSave keeps the inner invariant.
LEMMA RollbackSaveInner ==
  ASSUME Typed, Inner, NEW s \in Savers, RollbackSave(s)
  PROVE  Inner'
<1> USE ThreadAssumption, FolderAssumption DEF Inner, Goto, Threads, Ranges
<1>0. Ranges
  BY TypedRanges
<1>1. Owners'
  BY <1>0 DEF RollbackSave, RollbackTx, Owners, InTransaction
<1>2. ScansAlone'
  BY <1>0 DEF RollbackSave, ScansAlone, Calm, Scanning
<1>3. ScanInv'
  BY <1>0 DEF RollbackSave, ScanInv, ScanPc, ScansAlone, Calm, Scanning
<1>4. AnalysisInv'
  BY <1>0 DEF RollbackSave, RollbackTx, EndOfSave, AnalysisInv, LinkInv,
       Owners, InTransaction
<1>5. LinkInv' /\ IngestInv' /\ SavesInv'
  BY <1>0 DEF RollbackSave, RollbackTx, EndOfSave, LinkInv, Owners,
       InTransaction, IngestInv, SavesInv
<1>6. TablesInv'
  BY TablesRolledBack DEF RollbackSave
<1> QED BY <1>1, <1>2, <1>3, <1>4, <1>5, <1>6

------------------------------------------------------------------------------
(* Transactions and the index, whatever SQLite rolls back by itself.          *)

\* While a scan is under way nobody else holds a transaction.
LEMMA BaseAlone ==
  ASSUME Typed, Base, Scanning
  PROVE  /\ \A s \in Savers : Calm(s) /\ tx # s
         /\ pc[Pass] \in ScanPc => tx = Nobody
<1>1. \A s \in Savers : Calm(s)
  BY DEF Base, ScansAlone
<1>2. \A s \in Savers : tx # s
  BY <1>1 DEF Base, Calm, TxEnds, InTransaction, Threads
<1>3. pc[Pass] \in ScanPc => tx # Pass
  BY DEF Base, TxEnds, InTransaction, Threads, ScanPc
<1> QED BY <1>1, <1>2, <1>3 DEF Typed, TypeOK, Threads

\* What a step does to the databases when it leaves every index as it is, or goes
\* back to what is on disk.
IndexKept ==
  /\ conn' = conn /\ cut' = cut
  /\ \A f \in Folders : disk'[f].index = disk[f].index
  /\ ~scan.ingest => work'.index = work.index
  /\ IndexLink' /\ IndexWholeUnlessStopped'

\* A statement that leaves the index alone.
LEMMA IndexWritten ==
  ASSUME Typed, Base, NEW t, NEW new \in Content, Write(t, new), new.index = work.index,
         scan'.ingest = scan.ingest, cut' = cut
  PROVE  IndexKept /\ tx' = tx /\ work'.index = work.index
BY FolderAssumption
   DEF Typed, TypeOK, Base, Write, IndexKept, IndexLink, IndexWholeUnlessStopped

\* A rollback.
LEMMA IndexRolledBack ==
  ASSUME Typed, Base, RollbackTx, cut' = cut
  PROVE  IndexKept /\ tx' = Nobody /\ disk' = disk
BY FolderAssumption
   DEF Typed, TypeOK, Base, RollbackTx, IndexKept, IndexLink, IndexWholeUnlessStopped, Empty

\* A failing statement, whether or not it undoes the transaction.
LEMMA IndexFails ==
  ASSUME Typed, Base, Fails, scan'.ingest = scan.ingest, cut' = cut
  PROVE  IndexKept /\ tx' \in {tx, Nobody} /\ disk' = disk
<1>1. CASE UNCHANGED database
  BY <1>1 DEF Typed, TypeOK, Base, database, IndexKept, IndexLink, IndexWholeUnlessStopped
<1>2. CASE RollbackTx
  BY <1>2, IndexRolledBack
<1> QED BY <1>1, <1>2 DEF Fails

\* The steps of a scan.
LEMMA BaseScan ==
  ASSUME Typed, Base, ScanStep
  PROVE  Base'
<1> USE ThreadAssumption, FolderAssumption DEF Goto, Threads
<1>0. Ranges
  BY TypedRanges
<1>a. pc[Pass] \in ScanPc /\ Scanning /\ ~scan.ingest
  BY <1>0 DEF ScanStep, OpenDatabase, ResetImages, ResetState, ResetFails, Activate, ScanPc,
       Scanning, Base, IndexEmptied
<1>b. (\A s \in Savers : Calm(s)) /\ tx = Nobody
  BY <1>a, BaseAlone
<1>c. \A s \in Savers : pc'[s] = pc[s]
  BY <1>0 DEF ScanStep, OpenDatabase, ResetImages, ResetState, ResetFails, Activate, Ranges
<1>d. tx' = Nobody
  BY <1>b DEF ScanStep, OpenDatabase, ResetImages, ResetState, ResetFails, Activate, Fails,
       Write, database
<1>1. ScansAlone' /\ TxEnds'
  BY <1>b, <1>c, <1>d DEF ScansAlone, Calm, TxEnds
<1>2. CASE OpenDatabase
  <2>1. \/ pc'[Pass] = "idle" /\ ~scan'.ingest /\ UNCHANGED <<conn, work>>
        \/ /\ pc'[Pass] = IF scan.fresh THEN "reset_images" ELSE "activate"
           /\ conn' = scan.folder /\ work' = disk[scan.folder] /\ UNCHANGED <<scan, todo>>
    BY <1>0, <1>2 DEF OpenDatabase, EndOfPass, NoScan, Ranges
  <2>2. scan.folder \in Folders /\ UNCHANGED <<disk, tx, cut>>
    BY <1>0, <1>2 DEF OpenDatabase, Ranges, ScanPc
  <2>3. IndexLink' /\ IndexWholeUnlessStopped'
    BY <1>0, <1>b, <2>1, <2>2 DEF Base, IndexLink, IndexWholeUnlessStopped, Ranges
  <2>4. IndexEmptied' /\ IndexFilled'
    BY <1>a, <2>1, <2>2 DEF IndexEmptied, IndexFilled, ScanPc
  <2> QED BY <1>1, <2>3, <2>4 DEF Base
<1>3. ASSUME ResetImages \/ ResetState
      PROVE  Base'
  <2>1. PICK new \in Content : Write(Pass, new) /\ new.index = {}
    <3>1. [work EXCEPT !.index = {}, !.flags = {}, !.decisions = NoDecisions] \in Content
      BY <1>0 DEF Ranges, Content, NoDecisions, Decision
    <3>2. CASE ResetImages
      BY <1>0, <3>1, <3>2 DEF ResetImages, Ranges, Content
    <3>3. CASE ResetState
      <4>1. work.index = {}
        BY <3>3 DEF ResetState, Base, IndexEmptied
      <4>2. /\ [work EXCEPT !.stamped = {}, !.begun = FALSE] \in Content
            /\ [work EXCEPT !.stamped = {}, !.begun = FALSE].index = {}
        BY <1>0, <4>1 DEF Ranges, Content
      <4> QED BY <3>3, <4>2 DEF ResetState
    <3> QED BY <1>3, <3>2, <3>3
  <2>2. /\ conn \in Folders /\ conn' = conn /\ work' = new
        /\ disk' = [disk EXCEPT ![conn] = new] /\ UNCHANGED <<scan, cut>>
    BY <1>0, <1>3, <1>b, <2>1 DEF Write, ResetImages, ResetState, Ranges
  <2>3. IndexLink' /\ IndexWholeUnlessStopped'
    BY <1>0, <1>d, <2>1, <2>2 DEF Base, IndexLink, IndexWholeUnlessStopped, Ranges
  <2>4. IndexEmptied' /\ IndexFilled'
    BY <1>0, <1>3, <1>a, <2>1, <2>2
       DEF Base, IndexEmptied, IndexFilled, ScanPc, ResetImages, ResetState, Ranges
  <2> QED BY <1>1, <2>3, <2>4 DEF Base
<1>4. CASE ResetFails
  <2>1. UNCHANGED <<disk, conn, tx, work, cut>>
    BY <1>4, <1>b DEF ResetFails, Fails, database
  <2>2. pc'[Pass] = "idle" /\ ~scan'.ingest
    BY <1>0, <1>4 DEF ResetFails, EndOfPass, NoScan, Ranges
  <2>3. IndexLink' /\ IndexWholeUnlessStopped' /\ IndexEmptied' /\ IndexFilled'
    BY <1>b, <2>1, <2>2
       DEF Base, IndexLink, IndexWholeUnlessStopped, IndexEmptied, IndexFilled, ScanPc
  <2> QED BY <1>1, <2>3 DEF Base
<1>5. CASE Activate
  <2>1. conn = scan.folder /\ conn \in Folders /\ work = disk[conn]
    BY <1>0, <1>5, <1>b DEF Activate, ScanPc, Base, IndexEmptied, IndexLink, Ranges
  <2>2. UNCHANGED <<disk, conn, tx, work>> /\ session' = conn
    BY <1>5, <2>1 DEF Activate, database
  <2>3. CASE scan.fresh
    <3>1. PICK found \in SUBSET Images :
            /\ todo' = [todo EXCEPT ![Pass] = found]
            /\ cut' = IF found = Images THEN cut \ {conn} ELSE cut \cup {conn}
      BY <1>5, <2>2, <2>3 DEF Activate
    <3>2. work.index = {} /\ (conn \in cut' \/ todo'[Pass] = Images)
      BY <1>0, <1>5, <2>3, <3>1 DEF Activate, Base, IndexEmptied, Ranges
    <3>3. pc'[Pass] = "begin" /\ scan' = [scan EXCEPT !.ingest = TRUE]
      BY <1>0, <1>5, <2>3 DEF Activate, Ranges
    <3>4. \A f \in Folders : f # conn => (f \in cut' <=> f \in cut)
      BY <3>1
    <3>5. IndexWholeUnlessStopped'
      BY <2>1, <2>2, <3>2, <3>4 DEF Base, IndexWholeUnlessStopped
    <3>6. IndexLink' /\ IndexEmptied' /\ IndexFilled'
      BY <1>b, <2>1, <2>2, <3>2, <3>3 DEF Base, IndexLink, IndexEmptied, IndexFilled, ScanPc
    <3> QED BY <1>1, <3>5, <3>6 DEF Base
  <2>4. CASE ~scan.fresh
    <3>1. pc'[Pass] = "idle" /\ ~scan'.ingest /\ cut' = cut
      BY <1>0, <1>5, <2>4 DEF Activate, EndOfPass, NoScan, Ranges
    <3>2. IndexLink' /\ IndexWholeUnlessStopped' /\ IndexEmptied' /\ IndexFilled'
      BY <1>b, <2>1, <2>2, <3>1
         DEF Base, IndexLink, IndexWholeUnlessStopped, IndexEmptied, IndexFilled, ScanPc
    <3> QED BY <1>1, <3>2 DEF Base
  <2> QED BY <2>3, <2>4
<1> QED BY <1>2, <1>3, <1>4, <1>5 DEF ScanStep

\* A commit, but for the one that fills the index.
LEMMA IndexCommitted ==
  ASSUME Typed, Base, CommitTx, ~(tx = Pass /\ scan.ingest), cut' = cut
  PROVE  IndexKept /\ tx' = Nobody
<1>1. conn \in Folders /\ work.index = disk[conn].index
  BY DEF Typed, TypeOK, Base, CommitTx, IndexLink
<1> QED BY <1>1, FolderAssumption
        DEF Typed, TypeOK, Base, CommitTx, IndexKept, IndexLink, IndexWholeUnlessStopped

\* A step of an analysis.
LEMMA BaseOfPass ==
  ASSUME Typed, Base, IndexKept, ~scan.ingest, ~scan'.ingest,
         pc[Pass] \notin ScanPc, pc'[Pass] \notin ScanPc,
         \A s \in Savers : pc'[s] = pc[s] /\ (tx' = s => tx = s),
         tx' = Pass => pc'[Pass] \in {"rows", "rollback"}
  PROVE  Base'
<1>1. ScansAlone' /\ TxEnds'
  BY DEF Base, ScansAlone, Scanning, TxEnds, InTransaction, Threads
<1>2. IndexEmptied' /\ IndexFilled'
  BY DEF IndexEmptied, IndexFilled, ScanPc
<1> QED BY <1>1, <1>2 DEF Base, IndexKept

\* The steps of a pass.
LEMMA BasePass ==
  ASSUME Typed, Base, PassStep
  PROVE  Base'
<1> USE ThreadAssumption, FolderAssumption DEF Goto, Threads
<1>0. Ranges
  BY TypedRanges
<1>a. pc[Pass] \in {"idle", "read", "begin", "rows", "stamp", "rollback"}
  BY DEF PassStep, StartAnalysis, ReadRecords, BeginPassTx, BeginTx, WriteRow, CommitRows,
       RowFails, RollbackRows, Stamp
<1>b. (\A s \in Savers : pc'[s] = pc[s]) /\ cut' = cut
  BY <1>0 DEF PassStep, StartAnalysis, ReadRecords, BeginPassTx, BeginTx, WriteRow,
       CommitRows, RowFails, RollbackRows, Stamp, Ranges
<1>c. pc'[Pass] \in {"idle", "read", "begin", "rows", "stamp", "rollback"}
  BY <1>0, <1>a DEF PassStep, StartAnalysis, ReadRecords, BeginPassTx, BeginTx, WriteRow,
       CommitRows, RowFails, RollbackRows, Stamp, Ranges
<1>d. tx = Pass => pc[Pass] \in {"rows", "rollback"}
  BY <1>0, <1>a DEF Base, TxEnds, InTransaction
<1>e. scan.ingest => /\ \A s \in Savers : Calm(s) /\ tx # s
                     /\ pc[Pass] \in {"begin", "rows", "rollback"}
  BY BaseAlone DEF Base, IndexFilled, Scanning
<1>1. CASE StartAnalysis
  <2>1. pc[Pass] = "idle" /\ ~scan.ingest /\ scan' = scan
    BY <1>1, <1>e DEF StartAnalysis
  <2>2. /\ [work EXCEPT !.begun = TRUE] \in Content
        /\ [work EXCEPT !.begun = TRUE].index = work.index
    BY <1>0 DEF Ranges, Content
  <2>3. IndexKept /\ tx' \in {tx, Nobody}
    BY <1>1, <1>b, <2>1, <2>2, IndexWritten, IndexFails DEF StartAnalysis
  <2> QED BY <1>a, <1>b, <1>c, <1>d, <2>1, <2>3, BaseOfPass DEF ScanPc
<1>2. CASE ReadRecords
  <2>1. pc[Pass] = "read" /\ ~scan.ingest /\ scan'.ingest = scan.ingest
    BY <1>0, <1>2, <1>e DEF ReadRecords, Ranges, Scans
  <2>2. Fails
    BY <1>2 DEF ReadRecords, Fails
  <2>3. IndexKept /\ tx' \in {tx, Nobody}
    BY <1>b, <2>1, <2>2, IndexFails
  <2> QED BY <1>a, <1>b, <1>c, <1>d, <2>1, <2>3, BaseOfPass DEF ScanPc
<1>3. CASE BeginPassTx
  <2>1. /\ UNCHANGED <<disk, conn, work>> /\ pc[Pass] = "begin" /\ tx # Pass
        /\ \/ conn # NoFolder /\ tx' = Pass /\ pc'[Pass] = "rows" /\ UNCHANGED <<scan, todo>>
           \/ tx' = tx /\ pc'[Pass] = "idle" /\ ~scan'.ingest
    BY <1>0, <1>3, <1>d DEF BeginPassTx, BeginTx, EndOfPass, NoScan, Ranges
  <2>2. ScansAlone' /\ TxEnds'
    BY <1>b, <1>c, <2>1 DEF Base, ScansAlone, Calm, Scanning, ScanPc, TxEnds, InTransaction
  <2>3. IndexLink' /\ IndexWholeUnlessStopped'
    BY <1>0, <1>b, <2>1 DEF Base, IndexLink, IndexWholeUnlessStopped, Ranges
  <2>4. IndexEmptied' /\ IndexFilled'
    BY <1>b, <1>c, <2>1 DEF Base, IndexEmptied, IndexFilled, ScanPc
  <2> QED BY <2>2, <2>3, <2>4 DEF Base
<1>4. CASE WriteRow
  <2>1. PICK i \in todo[Pass] :
          /\ Write(Pass, IF scan.ingest THEN [work EXCEPT !.index = @ \cup {i}]
                                        ELSE [work EXCEPT !.flags = @ \cup {i}])
          /\ todo' = [todo EXCEPT ![Pass] = @ \ {i}]
    BY <1>4 DEF WriteRow
  <2>2. pc[Pass] = "rows" /\ UNCHANGED <<pc, scan>>
    BY <1>4 DEF WriteRow
  <2>a. work \in Content /\ i \in Images
    BY <1>0 DEF Ranges
  <2>3. CASE scan.ingest
    <3>1. /\ tx = Pass /\ UNCHANGED <<disk, conn, tx>> /\ conn \in Folders
          /\ work' = [work EXCEPT !.index = @ \cup {i}]
      BY <2>1, <2>2, <2>3 DEF Base, IndexFilled, Write
    <3>2. work'.index = work.index \cup {i} /\ todo'[Pass] = todo[Pass] \ {i}
      BY <1>0, <2>1, <2>a, <3>1 DEF Ranges, Content
    <3>3. ScansAlone' /\ TxEnds'
      BY <2>2, <3>1 DEF Base, ScansAlone, Calm, Scanning, TxEnds, InTransaction
    <3>4. IndexLink' /\ IndexWholeUnlessStopped'
      BY <1>b, <2>2, <2>3, <3>1 DEF Base, IndexLink, IndexWholeUnlessStopped
    <3>5. IndexEmptied' /\ IndexFilled'
      BY <1>b, <2>2, <2>3, <3>1, <3>2 DEF Base, IndexEmptied, IndexFilled, ScanPc
    <3> QED BY <3>3, <3>4, <3>5 DEF Base
  <2>4. CASE ~scan.ingest
    <3>1. /\ [work EXCEPT !.flags = @ \cup {i}] \in Content
          /\ [work EXCEPT !.flags = @ \cup {i}].index = work.index
      BY <2>a DEF Content
    <3>2. IndexKept /\ tx' = tx
      BY <1>b, <2>1, <2>2, <2>4, <3>1, IndexWritten
    <3> QED BY <1>a, <1>b, <1>c, <1>d, <2>2, <2>4, <3>2, BaseOfPass DEF ScanPc
  <2> QED BY <2>3, <2>4
<1>5. CASE CommitRows
  <2>1. CommitTx /\ pc[Pass] = "rows" /\ pc'[Pass] # "rows" /\ tx' = Nobody /\ tx # Nobody
    BY <1>0, <1>5 DEF CommitRows, CommitTx, Ranges
  <2>2. CASE scan.ingest
    <3>1. /\ tx = Pass /\ conn \in Folders /\ UNCHANGED <<conn, work>> /\ todo[Pass] = {}
          /\ disk' = [disk EXCEPT ![conn] = work] /\ pc'[Pass] = "idle" /\ ~scan'.ingest
      BY <1>0, <1>5, <2>1, <2>2
         DEF Base, IndexFilled, CommitRows, CommitTx, EndOfPass, NoScan, Ranges
    <3>2. conn \in cut \/ work.index = Images
      BY <2>1, <2>2, <3>1 DEF Base, IndexFilled
    <3>3. ScansAlone' /\ TxEnds'
      BY <1>b, <1>e, <2>1, <2>2, <3>1 DEF Base, ScansAlone, Calm, TxEnds
    <3>4. IndexLink' /\ IndexWholeUnlessStopped'
      BY <1>0, <1>b, <2>1, <3>1, <3>2 DEF Base, IndexLink, IndexWholeUnlessStopped, Ranges
    <3>5. IndexEmptied' /\ IndexFilled'
      BY <3>1 DEF IndexEmptied, IndexFilled, ScanPc
    <3> QED BY <3>3, <3>4, <3>5 DEF Base
  <2>3. CASE ~scan.ingest
    <3>1. IndexKept /\ ~scan'.ingest
      BY <1>5, <1>b, <2>1, <2>3, IndexCommitted DEF CommitRows, EndOfPass, NoScan
    <3> QED BY <1>a, <1>b, <1>c, <2>1, <2>3, <3>1, BaseOfPass DEF ScanPc
  <2> QED BY <2>2, <2>3
<1>6. CASE RowFails
  <2>1. /\ pc[Pass] = "rows" /\ pc'[Pass] = "rollback" /\ UNCHANGED <<todo, scan>>
        /\ IndexKept /\ tx' \in {tx, Nobody} /\ disk' = disk
    BY <1>0, <1>6, <1>b, IndexFails DEF RowFails, Ranges
  <2>2. CASE scan.ingest
    <3>1. ScansAlone' /\ TxEnds'
      BY <1>b, <1>e, <2>1, <2>2 DEF Base, ScansAlone, Calm, TxEnds, InTransaction
    <3>2. IndexEmptied' /\ IndexFilled'
      BY <1>b, <2>1, <2>2 DEF Base, IndexKept, IndexEmptied, IndexFilled, ScanPc
    <3> QED BY <2>1, <3>1, <3>2 DEF Base, IndexKept
  <2>3. CASE ~scan.ingest
    BY <1>a, <1>b, <1>c, <2>1, <2>3, BaseOfPass DEF ScanPc
  <2> QED BY <2>2, <2>3
<1>7. CASE RollbackRows
  <2>1. /\ pc'[Pass] = "idle" /\ IndexKept /\ tx' = Nobody /\ ~scan'.ingest
    BY <1>0, <1>7, <1>b, IndexRolledBack DEF RollbackRows, EndOfPass, NoScan, Ranges
  <2>2. ScansAlone' /\ TxEnds' /\ IndexEmptied' /\ IndexFilled'
    BY <1>b, <2>1
       DEF Base, ScansAlone, Scanning, ScanPc, TxEnds, IndexEmptied, IndexFilled
  <2> QED BY <2>1, <2>2 DEF Base, IndexKept
<1>8. CASE Stamp
  <2>1. /\ pc[Pass] = "stamp" /\ pc'[Pass] = "idle" /\ ~scan.ingest
        /\ ~scan'.ingest /\ scan'.ingest = scan.ingest
    BY <1>0, <1>8, <1>e DEF Stamp, EndOfPass, NoScan, Ranges, Scans
  <2>a. work \in Content /\ scan.due \subseteq Images
    BY <1>0 DEF Ranges, Scans
  <2>2. /\ [work EXCEPT !.stamped = @ \cup scan.due] \in Content
        /\ [work EXCEPT !.stamped = @ \cup scan.due].index = work.index
    BY <2>a DEF Content
  <2>3. IndexKept /\ tx' \in {tx, Nobody}
    BY <1>8, <1>b, <2>1, <2>2, IndexWritten, IndexFails DEF Stamp
  <2> QED BY <1>a, <1>b, <1>c, <1>d, <2>1, <2>3, BaseOfPass DEF ScanPc
<1> QED BY <1>1, <1>2, <1>3, <1>4, <1>5, <1>6, <1>7, <1>8 DEF PassStep

\* The steps of a save.
LEMMA BaseSave ==
  ASSUME Typed, Base, NEW s \in Savers, Submit(s) \/ SaveStatement(s)
  PROVE  Base'
<1> USE ThreadAssumption, FolderAssumption DEF Goto, Threads
<1>0. Ranges
  BY TypedRanges
<1>a. ~Scanning
  <2>1. pc[s] \notin {"idle", "failed"} => ~Scanning
    BY DEF Base, ScansAlone, Calm
  <2>2. Submit(s) => ~Scanning
    BY DEF Submit
  <2>3. SaveStatement(s) => pc[s] \notin {"idle", "failed"}
    BY DEF SaveStatement, SaveStep, BeginSave, BeginTx, DeleteDecisions, PrepareInsert,
         InsertDecision, InsertOrphan, AllInserted, CommitSave, SaveFails, RollbackSave
  <2> QED BY <2>1, <2>2, <2>3
<1>b. /\ UNCHANGED <<scan, cut>>
      /\ \A t \in Threads \ {s} : pc'[t] = pc[t]
      /\ pc'[s] # "orphan"
  BY <1>0 DEF Submit, SaveStatement, SaveStep, BeginSave, BeginTx, DeleteDecisions,
       PrepareInsert, InsertDecision, InsertOrphan, AllInserted, CommitSave, SaveFails,
       RollbackSave, Ranges, Base, ScansAlone
<1>c. ~scan.ingest /\ pc[Pass] \notin ScanPc
  BY <1>a DEF Scanning
<1>d. tx = s => InTransaction(s)
  BY DEF Base, TxEnds
<1>1. /\ IndexKept /\ \A t \in Threads \ {s} : tx' = t => tx = t
      /\ tx' = s => InTransaction(s)'
  <2>1. CASE UNCHANGED database /\ (Submit(s) \/ PrepareInsert(s) \/ AllInserted(s))
    <3>1. IndexKept /\ tx' = tx
      BY <1>0, <1>b, <2>1
         DEF IndexKept, Base, IndexLink, IndexWholeUnlessStopped, database
    <3> QED BY <1>0, <1>d, <2>1, <3>1
            DEF Submit, PrepareInsert, AllInserted, InTransaction, Ranges
  <2>2. CASE SaveStep(s)
    <3>1. \A b \in BOOLEAN : /\ [work EXCEPT !.begun = b] \in Content
                             /\ [work EXCEPT !.begun = b].index = work.index
      BY <1>0 DEF Ranges, Content
    <3>2. IndexKept /\ tx' \in {tx, Nobody}
      BY <1>b, <2>2, <3>1, IndexWritten, IndexFails DEF SaveStep
    <3>3. pc[s] = "step"
      BY <2>2 DEF SaveStep
    <3> QED BY <1>d, <3>2, <3>3 DEF InTransaction
  <2>3. CASE BeginSave(s)
    <3>1. /\ UNCHANGED <<disk, conn, work>> /\ pc[s] = "begin"
          /\ \/ conn # NoFolder /\ tx' = s /\ pc'[s] = "delete"
             \/ tx' = tx
      BY <1>0, <2>3 DEF BeginSave, BeginTx, Ranges
    <3>2. tx = s => FALSE
      BY <1>d, <3>1 DEF InTransaction
    <3>3. tx' = Nobody => tx = Nobody
      BY <3>1
    <3>4. IndexKept
      BY <1>b, <1>c, <3>1, <3>3 DEF IndexKept, Base, IndexLink, IndexWholeUnlessStopped
    <3> QED BY <3>1, <3>2, <3>4 DEF InTransaction
  <2>4. CASE DeleteDecisions(s)
    <3>1. /\ [work EXCEPT !.decisions = NoDecisions] \in Content
          /\ [work EXCEPT !.decisions = NoDecisions].index = work.index
      BY <1>0 DEF Ranges, Content, NoDecisions, Decision
    <3>2. IndexKept /\ tx' = tx
      BY <1>b, <2>4, <3>1, IndexWritten DEF DeleteDecisions
    <3> QED BY <1>0, <2>4, <3>2 DEF DeleteDecisions, InTransaction, Ranges
  <2>5. CASE InsertDecision(s)
    <3>1. PICK i \in Images : Write(s, [work EXCEPT !.decisions[i] = want[s]])
      BY <1>0, <2>5 DEF InsertDecision, Ranges, Content
    <3>2. /\ [work EXCEPT !.decisions[i] = want[s]] \in Content
          /\ [work EXCEPT !.decisions[i] = want[s]].index = work.index
      BY <1>0 DEF Ranges, Content
    <3>3. IndexKept /\ tx' = tx
      BY <1>b, <3>1, <3>2, IndexWritten
    <3> QED BY <2>5, <3>3 DEF InsertDecision, InTransaction
  <2>6. CASE CommitSave(s)
    BY <1>b, <1>c, <2>6, IndexCommitted DEF CommitSave
  <2>7. CASE SaveFails(s)
    <3>1. IndexKept /\ tx' \in {tx, Nobody} /\ pc'[s] = "rollback"
      BY <1>0, <1>b, <2>7, IndexFails DEF SaveFails, Ranges
    <3> QED BY <3>1 DEF InTransaction
  <2>8. CASE RollbackSave(s)
    BY <1>b, <2>8, IndexRolledBack DEF RollbackSave
  <2>9. CASE InsertOrphan(s)
    BY <2>9 DEF InsertOrphan, Base, ScansAlone
  <2> QED BY <2>1, <2>2, <2>3, <2>4, <2>5, <2>6, <2>7, <2>8, <2>9
          DEF SaveStatement, Submit, PrepareInsert, AllInserted
<1>2. ScansAlone' /\ TxEnds'
  BY <1>a, <1>b, <1>1 DEF Base, ScansAlone, Scanning, TxEnds, InTransaction
<1>3. IndexEmptied' /\ IndexFilled'
  BY <1>b, <1>c DEF IndexEmptied, IndexFilled, ScanPc
<1> QED BY <1>1, <1>2, <1>3 DEF Base, IndexKept

\* It holds at first.
LEMMA InitBase == Init => Base
<1> SUFFICES ASSUME Init PROVE Base
  OBVIOUS
<1> USE ThreadAssumption DEF Init, AllIdle, Threads, NoScan
<1>1. ScansAlone /\ TxEnds /\ IndexLink
  BY DEF ScansAlone, Scanning, ScanPc, Calm, TxEnds, IndexLink
<1>2. IndexEmptied /\ IndexFilled /\ IndexWholeUnlessStopped
  BY DEF IndexEmptied, ScanPc, IndexFilled, IndexWholeUnlessStopped, Empty
<1> QED BY <1>1, <1>2 DEF Base

\* Every step keeps it, until a scan overtakes a save.
LEMMA BaseStep == Typed /\ Base /\ [Next]_vars /\ ~overlapped' => Base'
<1> SUFFICES ASSUME Typed, Base, [Next]_vars, ~overlapped' PROVE Base'
  OBVIOUS
<1>0. Ranges
  BY TypedRanges
<1>1. CASE \E f \in Folders, fresh \in BOOLEAN : StartScan(f, fresh)
  <2> USE ThreadAssumption DEF Threads
  <2>1. PICK f \in Folders, fresh \in BOOLEAN : StartScan(f, fresh)
    BY <1>1
  <2>2. \A s \in Savers : Calm(s) /\ pc'[s] = pc[s]
    BY <1>0, <2>1 DEF StartScan, Calm, Ranges
  <2>3. /\ pc'[Pass] = "open" /\ ~scan'.ingest
        /\ conn' = NoFolder /\ tx' = Nobody /\ work' = Empty /\ UNCHANGED <<disk, cut>>
    BY <1>0, <2>1 DEF StartScan, Ranges
  <2>4. ScansAlone' /\ TxEnds' /\ IndexLink'
    BY <2>2, <2>3 DEF ScansAlone, Calm, TxEnds, IndexLink
  <2>5. IndexEmptied' /\ IndexFilled' /\ IndexWholeUnlessStopped'
    BY <2>3 DEF Base, IndexEmptied, IndexFilled, ScanPc, IndexWholeUnlessStopped
  <2> QED BY <2>4, <2>5 DEF Base
<1>2. CASE ScanStep
  BY <1>2, BaseScan
<1>3. CASE PassStep
  BY <1>3, BasePass
<1>4. ASSUME NEW s \in Savers, Submit(s) \/ SaveStatement(s)
      PROVE  Base'
  BY <1>4, BaseSave
<1>5. CASE Crash
  <2> USE ThreadAssumption DEF Crash, AllIdle, Threads, NoScan
  <2>1. ScansAlone' /\ TxEnds' /\ IndexLink'
    BY <1>5 DEF ScansAlone, Scanning, ScanPc, Calm, TxEnds, IndexLink
  <2>2. IndexEmptied' /\ IndexFilled' /\ IndexWholeUnlessStopped'
    BY <1>5 DEF Base, IndexEmptied, ScanPc, IndexFilled, IndexWholeUnlessStopped
  <2> QED BY <2>1, <2>2 DEF Base
<1>6. CASE UNCHANGED vars
  BY <1>6 DEF vars, Base, ScansAlone, Scanning, Calm, TxEnds, InTransaction, IndexLink,
       IndexEmptied, IndexFilled, IndexWholeUnlessStopped
<1> QED BY <1>1, <1>2, <1>3, <1>4, <1>5, <1>6 DEF Next

------------------------------------------------------------------------------
(* The steps that start over: of a scan, and of the process.                  *)

\* The inner invariant holds at first.
LEMMA InitInner == Init => Inner
<1> SUFFICES ASSUME Init PROVE Inner
  OBVIOUS
<1> USE ThreadAssumption DEF Init, AllIdle, Threads, NoScan
<1>1. Whole(Empty) /\ Vouched(Empty)
  BY WholeEmpty DEF Empty, Vouched
<1>2. TablesInv
  BY <1>1 DEF TablesInv, IndexWholeUnlessStopped, Empty
<1>3. Owners /\ ScansAlone /\ LinkInv
  BY DEF Owners, InTransaction, ScansAlone, Scanning, ScanPc, Calm, LinkInv
<1>4. ScanInv /\ IngestInv /\ AnalysisInv /\ SavesInv
  BY DEF ScanInv, ScanPc, IngestInv, AnalysisInv, SavesInv
<1> QED BY <1>2, <1>3, <1>4 DEF Inner

\* A scan that overtakes no save finds every saver calm.
LEMMA StartScanInner ==
  ASSUME Typed, Inner, NEW f \in Folders, NEW fresh \in BOOLEAN, StartScan(f, fresh),
         ~overlapped'
  PROVE  Inner'
<1> USE ThreadAssumption DEF Threads
<1>0. Ranges
  BY TypedRanges
<1>1. \A s \in Savers : Calm(s) /\ pc'[s] = pc[s]
  BY <1>0 DEF StartScan, Calm, Ranges
<1>2. /\ pc'[Pass] = "open" /\ scan' = [folder |-> f, fresh |-> fresh, ingest |-> FALSE,
                       due |-> {}]
      /\ conn' = NoFolder /\ tx' = Nobody /\ work' = Empty /\ UNCHANGED <<disk, cut, todo>>
  BY <1>0 DEF StartScan, Ranges
<1>3. Whole(Empty) /\ Vouched(Empty)
  BY WholeEmpty DEF Empty, Vouched
<1>4. TablesInv'
  BY <1>2, <1>3 DEF Inner, TablesInv, IndexWholeUnlessStopped
<1>5. Owners' /\ ScansAlone' /\ LinkInv'
  BY <1>1, <1>2 DEF Owners, InTransaction, ScansAlone, Calm, LinkInv
<1>6. ScanInv' /\ IngestInv' /\ AnalysisInv'
  BY <1>2 DEF ScanInv, ScanPc, IngestInv, AnalysisInv
<1>7. SavesInv'
  BY <1>1 DEF SavesInv, Calm
<1> QED BY <1>4, <1>5, <1>6, <1>7 DEF Inner

\* What was committed is consistent, and all else is gone.
LEMMA CrashInner ==
  ASSUME Typed, Inner, Crash
  PROVE  Inner'
<1> USE ThreadAssumption DEF Crash, AllIdle, Threads, NoScan
<1>1. Whole(Empty) /\ Vouched(Empty)
  BY WholeEmpty DEF Empty, Vouched
<1>2. TablesInv'
  BY <1>1 DEF Inner, TablesInv, IndexWholeUnlessStopped
<1>3. Owners' /\ ScansAlone' /\ LinkInv'
  BY DEF Owners, InTransaction, ScansAlone, Scanning, ScanPc, Calm, LinkInv
<1>4. ScanInv' /\ IngestInv' /\ AnalysisInv' /\ SavesInv'
  BY DEF ScanInv, ScanPc, IngestInv, AnalysisInv, SavesInv
<1> QED BY <1>2, <1>3, <1>4 DEF Inner

\* Every step keeps the inner invariant.
LEMMA InnerStep == Typed /\ Inner /\ [Next]_vars /\ ~overlapped' /\ ~undone' => Inner'
<1> SUFFICES ASSUME Typed, Inner, [Next]_vars, ~overlapped', ~undone' PROVE Inner'
  OBVIOUS
<1>1. CASE \E f \in Folders, fresh \in BOOLEAN : StartScan(f, fresh)
  BY <1>1, StartScanInner
<1>2. CASE ScanStep
  BY <1>2, OpenDatabaseInner, ResetImagesInner, ResetStateInner, ResetFailsInner,
     ActivateInner DEF ScanStep
<1>3. CASE PassStep
  BY <1>3, StartAnalysisInner, ReadRecordsInner, BeginPassTxInner, WriteRowInner,
     CommitRowsInner, RowFailsInner, RollbackRowsInner, StampInner DEF PassStep
<1>4. ASSUME NEW s \in Savers, Submit(s) \/ SaveStatement(s)
      PROVE  Inner'
  BY <1>4, SubmitInner, SaveStepInner, BeginSaveInner, DeleteDecisionsInner,
     PrepareInsertInner, InsertDecisionInner, InsertOrphanInner, AllInsertedInner,
     CommitSaveInner, SaveFailsInner, RollbackSaveInner DEF SaveStatement
<1>5. CASE Crash
  BY <1>5, CrashInner
<1>6. CASE UNCHANGED vars
  BY <1>6 DEF vars, Inner, Owners, InTransaction, ScansAlone, Scanning,
       Calm, LinkInv, TablesInv, IndexWholeUnlessStopped, Whole, Vouched, ScanInv,
       IngestInv, AnalysisInv, SavesInv
<1> QED BY <1>1, <1>2, <1>3, <1>4, <1>5, <1>6 DEF Next

\* That a scan started beside a save is never forgotten.
LEMMA OnceOvertaken == [Next]_vars /\ ~overlapped' => ~overlapped
BY DEF Next, StartScan, Crash, vars

\* Nor that SQLite rolled back a transaction;  without faults it never does.
LEMMA OnceUndone ==
  [Next]_vars => (undone => undone') /\ (~undone /\ ~Faults => ~undone')
<1>1. ScanStep => (undone => undone') /\ (~undone /\ ~Faults => ~undone')
  BY DEF ScanStep, OpenDatabase, ResetImages, ResetState, ResetFails, Activate, Fails, Write,
       database
<1>2. PassStep => (undone => undone') /\ (~undone /\ ~Faults => ~undone')
  BY DEF PassStep, StartAnalysis, ReadRecords, BeginPassTx, BeginTx, WriteRow, CommitRows,
       CommitTx, RowFails, RollbackRows, Stamp, Fails, Write, database
<1>3. ASSUME NEW s \in Savers, Submit(s) \/ SaveStatement(s)
      PROVE  (undone => undone') /\ (~undone /\ ~Faults => ~undone')
  BY <1>3 DEF Submit, SaveStatement, SaveStep, BeginSave, BeginTx, DeleteDecisions,
       PrepareInsert, InsertDecision, InsertOrphan, AllInserted, CommitSave, CommitTx,
       SaveFails, RollbackSave, Fails, Write, database
<1> QED BY <1>1, <1>2, <1>3 DEF Next, StartScan, Crash, vars

\* The strengthening that what follows rests on.
THEOREM InductiveInvariant == Spec => []IInv
<1>1. Init => IInv
  BY InitType, InitBase, InitInner DEF IInv
<1>2. IInv /\ [Next]_vars => IInv'
  BY TypeStep, BaseStep, InnerStep, OnceOvertaken, OnceUndone DEF IInv
<1> QED BY <1>1, <1>2, PTL DEF Spec

------------------------------------------------------------------------------
(* What follows as long as no scan starts while a save is under way.          *)

\* Without Faults no transaction is rolled back by SQLite.
LEMMA NothingUndone ==
  ASSUME ~Faults
  PROVE  Spec => []~undone
<1>1. Init => ~undone
  BY DEF Init
<1>2. ~undone /\ [Next]_vars => ~undone'
  BY OnceUndone
<1> QED BY <1>1, <1>2, PTL DEF Spec

\* Without Overlap no scan starts beside a save.
LEMMA NeverOvertaken ==
  ASSUME ~Overlap
  PROVE  Spec => []~overlapped
<1>1. Init => ~overlapped
  BY DEF Init
<1>2. ~overlapped /\ [Next]_vars => ~overlapped'
  BY DEF Next, StartScan, Crash, vars
<1> QED BY <1>1, <1>2, PTL DEF Spec

\* No transaction stays open behind its thread, and until SQLite rolls one back by
\* itself no thread commits or rolls back what another one began
\* (begin_transaction, commit_transaction, rollback_transaction).
THEOREM OwnTransactionsOnly ==
  ASSUME ~Overlap
  PROVE  Spec => []TransactionsHaveOwners
<1>1. IInv /\ ~overlapped => TransactionsHaveOwners
  BY DEF IInv, Base, TxEnds, Inner, Owners, TransactionsHaveOwners
<1> QED BY <1>1, InductiveInvariant, NeverOvertaken, PTL

\* Whatever a save fails or the process dies in the middle of, a database holds the
\* decisions of one save or none, until SQLite rolls a transaction back by itself
\* (replace_user_decisions).
THEOREM SavesAreAtomic ==
  ASSUME ~Overlap
  PROVE  Spec => []DecisionsWhole
<1>1. IInv /\ ~overlapped => DecisionsWhole
  BY Zenon DEF IInv, Inner, TablesInv, Whole, DecisionsWhole
<1> QED BY <1>1, InductiveInvariant, NeverOvertaken, PTL

\* A stamp on disk vouches for the row of every photo that the run was to store one
\* for, until SQLite rolls a transaction back by itself (record_run_complete,
\* get_session_results).
THEOREM StampsVouch ==
  ASSUME ~Overlap
  PROVE  Spec => []StampVouchesForRows
<1>1. IInv /\ ~overlapped => StampVouchesForRows
  BY DEF IInv, Inner, TablesInv, Vouched, StampVouchesForRows
<1> QED BY <1>1, InductiveInvariant, NeverOvertaken, PTL

\* No crash, no failure and no transaction that SQLite rolls back leaves a part of
\* an index, unless the scan was stopped (scan_folder).
THEOREM IndexesAreWhole ==
  ASSUME ~Overlap
  PROVE  Spec => []IndexWholeUnlessStopped
<1>1. IInv /\ ~overlapped => IndexWholeUnlessStopped
  BY DEF IInv, Base
<1> QED BY <1>1, InductiveInvariant, NeverOvertaken, PTL

------------------------------------------------------------------------------
(* Sessions and decisions stay with their folder, when no statement fails by  *)
(* itself.                                                                    *)

ConnInv ==
  /\ SessionIsConnected
  /\ pc[Pass] \in ScanPc \ {"open"} => conn = scan.folder

\* Without faults the connection and the session stay together.
LEMMA ConnStep ==
  ASSUME Typed, ConnInv, [Next]_vars, ~Faults
  PROVE  ConnInv'
<1> USE ThreadAssumption DEF ConnInv, SessionIsConnected, ScanPc, Threads
<1>0. pc \in [Threads -> Pcs]
  BY DEF Typed, TypeOK, Pcs
<1>1. CASE \E f \in Folders, fresh \in BOOLEAN : StartScan(f, fresh)
  BY <1>0, <1>1 DEF StartScan
<1>2. CASE ScanStep
  BY <1>0, <1>2 DEF ScanStep, OpenDatabase, ResetImages, ResetState, ResetFails, Activate,
       EndOfPass, Write, Goto, database
<1>3. CASE PassStep
  <2>1. UNCHANGED <<conn, session>>
    BY <1>3 DEF PassStep, StartAnalysis, ReadRecords, BeginPassTx, BeginTx, WriteRow,
         CommitRows, CommitTx, RowFails, RollbackRows, RollbackTx, Stamp, Write, Fails,
         database
  <2>2. pc[Pass] \notin ScanPc /\ pc'[Pass] \notin ScanPc
    BY <1>0, <1>3 DEF PassStep, StartAnalysis, ReadRecords, BeginPassTx, BeginTx, WriteRow,
         CommitRows, RowFails, RollbackRows, Stamp, Goto
  <2> QED BY <2>1, <2>2
<1>4. ASSUME NEW s \in Savers, Submit(s) \/ SaveStatement(s)
      PROVE  ConnInv'
  <2>1. UNCHANGED <<conn, session, scan>>
    BY <1>4 DEF Submit, SaveStatement, SaveStep, BeginSave, BeginTx, DeleteDecisions,
         PrepareInsert, InsertDecision, InsertOrphan, AllInserted, CommitSave, CommitTx,
         SaveFails, RollbackSave, RollbackTx, Write, Fails, database
  <2>2. pc'[Pass] = pc[Pass]
    BY <1>0, <1>4 DEF Submit, SaveStatement, SaveStep, BeginSave, BeginTx, DeleteDecisions,
         PrepareInsert, InsertDecision, InsertOrphan, AllInserted, CommitSave,
         SaveFails, RollbackSave, Goto
  <2> QED BY <2>1, <2>2
<1>5. CASE Crash
  BY <1>5 DEF Crash, AllIdle
<1>6. CASE UNCHANGED vars
  BY <1>6 DEF vars
<1> QED BY <1>1, <1>2, <1>3, <1>4, <1>5, <1>6 DEF Next

\* Between scans, the database that is read and written is the session's
\* (scan_folder, save_session_state).
THEOREM Connected ==
  ASSUME ~Faults
  PROVE  Spec => []SessionIsConnected
<1>1. Init => ConnInv
  BY DEF Init, AllIdle, ConnInv, SessionIsConnected, ScanPc, Threads
<1>2. Typed /\ ConnInv /\ [Next]_vars => ConnInv'
  BY ConnStep
<1>3. ConnInv => SessionIsConnected
  BY DEF ConnInv
<1> QED BY <1>1, <1>2, <1>3, InitType, TypeStep, PTL DEF Spec

AtHome(c, f) == \A i \in Images : c.decisions[i] # NoChoice => c.decisions[i][1] = f

\* Only a busy save wants something, and then for the session's folder.
WantsHome ==
  \A s \in Savers : want[s] # NoChoice =>
    /\ ~Calm(s) /\ pc[s] # "step"
    /\ session # NoFolder /\ want[s][1] = session

HomeInv ==
  /\ \A f \in Folders : AtHome(disk[f], f)
  /\ AtHome(work, conn)
  /\ WantsHome

\* At first each folder holds only its own rows.
LEMMA EmptyAtHome == ASSUME NEW f PROVE AtHome(Empty, f)
BY DEF AtHome, Empty, NoDecisions

\* A statement whose decisions are at home.
LEMMA WrittenAtHome ==
  ASSUME Typed, HomeInv, NEW t, NEW new, Write(t, new), AtHome(new, conn)
  PROVE  (\A f \in Folders : AtHome(disk'[f], f)) /\ AtHome(work', conn')
BY DEF Typed, TypeOK, HomeInv, Write

\* A step that leaves the databases alone leaves each row at home.
LEMMA SameAtHome ==
  ASSUME NEW c, NEW d, NEW f, d.decisions = c.decisions, AtHome(c, f)
  PROVE  AtHome(d, f)
BY Zenon DEF AtHome

\* The scan keeps each row in its folder.
LEMMA HomeScan ==
  ASSUME Typed, Inner, HomeInv, ScanStep, ~Faults
  PROVE  HomeInv'
<1> USE ThreadAssumption DEF Threads, ScanPc
<1>0. Ranges
  BY TypedRanges
<1>1. \A s \in Savers : Calm(s) /\ want[s] = NoChoice
  BY DEF Inner, ScansAlone, Scanning, ScanStep, OpenDatabase, ResetImages, ResetState,
       ResetFails, Activate, Goto, HomeInv, WantsHome
<1>2. want' = want
  BY DEF ScanStep, OpenDatabase, ResetImages, ResetState, ResetFails, Activate
<1>3. WantsHome'
  BY <1>1, <1>2 DEF WantsHome
<1>4. (\A f \in Folders : AtHome(disk'[f], f)) /\ AtHome(work', conn')
  <2>1. CASE OpenDatabase
    BY <1>0, <2>1 DEF OpenDatabase, HomeInv, Ranges
  <2>2. CASE ResetImages
    <3> DEFINE new == [work EXCEPT !.index = {}, !.flags = {}, !.decisions = NoDecisions]
    <3>1. Write(Pass, new)
      BY <2>2 DEF ResetImages
    <3>2. new.decisions = NoDecisions
      BY <1>0 DEF Ranges, Content
    <3>3. AtHome(new, conn)
      BY <3>2 DEF AtHome, NoDecisions
    <3> QED BY <3>1, <3>3, WrittenAtHome
  <2>3. CASE ResetState
    <3> DEFINE new == [work EXCEPT !.stamped = {}, !.begun = FALSE]
    <3>1. Write(Pass, new)
      BY <2>3 DEF ResetState
    <3>2. new.decisions = work.decisions
      BY <1>0 DEF Ranges, Content
    <3>3. AtHome(new, conn)
      BY <3>2, SameAtHome DEF HomeInv
    <3> QED BY <3>1, <3>3, WrittenAtHome
  <2>4. CASE ResetFails
    BY <2>4 DEF ResetFails, Fails, database, HomeInv
  <2>5. CASE Activate
    BY <2>5 DEF Activate, database, HomeInv
  <2> QED BY <2>1, <2>2, <2>3, <2>4, <2>5 DEF ScanStep
<1> QED BY <1>3, <1>4 DEF HomeInv

\* The pass keeps each row in its folder.
LEMMA HomePass ==
  ASSUME Typed, HomeInv, PassStep, ~Faults
  PROVE  HomeInv'
<1> USE ThreadAssumption DEF Threads
<1>0. Ranges
  BY TypedRanges
<1>a. Fails => UNCHANGED database
  BY DEF Fails
<1>1. UNCHANGED <<want, session, conn>> /\ \A s \in Savers : pc'[s] = pc[s]
  BY <1>0, <1>a DEF PassStep, StartAnalysis, ReadRecords, BeginPassTx, BeginTx, WriteRow,
       CommitRows, CommitTx, RowFails, RollbackRows, RollbackTx, Stamp, Goto, Write,
       database, Ranges
<1>2. WantsHome'
  BY <1>1 DEF HomeInv, WantsHome, Calm
<1>3. ASSUME NEW new, Write(Pass, new), new.decisions = work.decisions
      PROVE  (\A f \in Folders : AtHome(disk'[f], f)) /\ AtHome(work', conn')
  BY <1>3, SameAtHome, WrittenAtHome DEF HomeInv
<1>4. (\A f \in Folders : AtHome(disk'[f], f)) /\ AtHome(work', conn')
  <2>1. CASE StartAnalysis
    <3>1. [work EXCEPT !.begun = TRUE].decisions = work.decisions
      BY <1>0 DEF Ranges, Content
    <3> QED BY <1>a, <1>3, <2>1, <3>1 DEF StartAnalysis, database, HomeInv
  <2>2. CASE ReadRecords \/ BeginPassTx \/ RowFails
    BY <1>a, <2>2 DEF ReadRecords, BeginPassTx, BeginTx, RowFails, database, HomeInv
  <2>3. CASE WriteRow
    <3>1. PICK i \in todo[Pass] :
            Write(Pass, IF scan.ingest THEN [work EXCEPT !.index = @ \cup {i}]
                                       ELSE [work EXCEPT !.flags = @ \cup {i}])
      BY <2>3 DEF WriteRow
    <3>2. (IF scan.ingest THEN [work EXCEPT !.index = @ \cup {i}]
                          ELSE [work EXCEPT !.flags = @ \cup {i}]).decisions = work.decisions
      BY <1>0 DEF Ranges, Content
    <3> QED BY <1>3, <3>1, <3>2
  <2>4. CASE CommitRows
    BY <1>0, <2>4 DEF CommitRows, CommitTx, HomeInv, Ranges
  <2>5. CASE RollbackRows
    BY <1>0, <2>5, EmptyAtHome DEF RollbackRows, RollbackTx, HomeInv, Ranges
  <2>6. CASE Stamp
    <3>1. [work EXCEPT !.stamped = @ \cup scan.due].decisions = work.decisions
      BY <1>0 DEF Ranges, Content
    <3> QED BY <1>a, <1>3, <2>6, <3>1 DEF Stamp, database, HomeInv
  <2> QED BY <2>1, <2>2, <2>3, <2>4, <2>5, <2>6 DEF PassStep
<1> QED BY <1>2, <1>4 DEF HomeInv

\* A save keeps each row in its folder.
LEMMA HomeSave ==
  ASSUME Typed, Inner, ConnInv, HomeInv, NEW s \in Savers, Submit(s) \/ SaveStatement(s),
         ~Faults
  PROVE  HomeInv'
<1> USE ThreadAssumption DEF Threads
<1>0. Ranges
  BY TypedRanges
<1>a. Fails => UNCHANGED database
  BY DEF Fails
<1>1. UNCHANGED <<session, conn>>
  BY <1>a DEF Submit, SaveStatement, SaveStep, BeginSave, BeginTx, DeleteDecisions,
       PrepareInsert, InsertDecision, InsertOrphan, AllInserted, CommitSave, CommitTx,
       SaveFails, RollbackSave, RollbackTx, Write, database
<1>2. WantsHome'
  <2>1. \A u \in Savers \ {s} : want'[u] = want[u] /\ pc'[u] = pc[u]
    BY <1>0 DEF Submit, SaveStatement, SaveStep, BeginSave, BeginTx, DeleteDecisions,
         PrepareInsert, InsertDecision, InsertOrphan, AllInserted, CommitSave, EndOfSave,
         SaveFails, RollbackSave, Goto, Ranges
  <2>2. CASE Submit(s)
    <3>1. /\ session # NoFolder /\ pc'[s] \in {"step", "begin"}
          /\ want' = want \/ (pc'[s] = "begin" /\ \E c \in Choices : want'[s] = <<session, c>>)
      BY <1>0, <2>2 DEF Submit, Goto, Ranges
    <3>2. pc[s] \in {"idle", "failed"} => want[s] = NoChoice
      BY DEF HomeInv, WantsHome, Calm
    <3>3. pc[s] \in {"idle", "failed"}
      BY <2>2 DEF Submit
    <3> QED BY <1>1, <2>1, <3>1, <3>2, <3>3 DEF HomeInv, WantsHome, Calm
  <2>3. CASE SaveStatement(s)
    <3>1. \/ want'[s] = NoChoice
          \/ want'[s] = want[s] /\ (pc'[s] \notin {"idle", "failed", "step"} \/ pc[s] = "step")
      BY <1>0, <2>3 DEF SaveStatement, SaveStep, BeginSave, BeginTx, DeleteDecisions,
           PrepareInsert, InsertDecision, InsertOrphan, AllInserted, CommitSave, EndOfSave,
           SaveFails, RollbackSave, Goto, Ranges
    <3> QED BY <1>1, <2>1, <3>1 DEF HomeInv, WantsHome, Calm
  <2> QED BY <2>2, <2>3
<1>3. (\A f \in Folders : AtHome(disk'[f], f)) /\ AtHome(work', conn')
  <2>1. CASE Submit(s) \/ BeginSave(s) \/ PrepareInsert(s) \/ AllInserted(s) \/ SaveFails(s)
    BY <1>a, <2>1 DEF Submit, BeginSave, BeginTx, PrepareInsert, AllInserted, SaveFails, database,
         HomeInv
  <2>2. CASE SaveStep(s)
    <3>1. \A b \in BOOLEAN : [work EXCEPT !.begun = b].decisions = work.decisions
      BY <1>0 DEF Ranges, Content
    <3>2. \A b \in BOOLEAN : AtHome([work EXCEPT !.begun = b], conn)
      BY <3>1, SameAtHome DEF HomeInv
    <3> QED BY <1>a, <2>2, <3>2, WrittenAtHome DEF SaveStep, database, HomeInv
  <2>3. CASE DeleteDecisions(s)
    <3>1. [work EXCEPT !.decisions = NoDecisions].decisions = NoDecisions
      BY <1>0 DEF Ranges, Content
    <3>2. AtHome([work EXCEPT !.decisions = NoDecisions], conn)
      BY <3>1 DEF AtHome, NoDecisions
    <3> QED BY <2>3, <3>2, WrittenAtHome DEF DeleteDecisions
  <2>4. CASE InsertDecision(s)
    <3>1. PICK i \in todo[s] \cap work.index : Write(s, [work EXCEPT !.decisions[i] = want[s]])
      BY <2>4 DEF InsertDecision
    <3>2. pc[Pass] \notin ScanPc
      BY <2>4 DEF Inner, ScansAlone, Scanning, Calm, InsertDecision
    <3>3. want[s] # NoChoice => want[s][1] = conn
      BY <3>2 DEF HomeInv, WantsHome, ConnInv, SessionIsConnected
    <3>4. [work EXCEPT !.decisions[i] = want[s]].decisions = [work.decisions EXCEPT ![i] = want[s]]
      BY <1>0 DEF Ranges, Content
    <3>5. AtHome([work EXCEPT !.decisions[i] = want[s]], conn)
      BY <1>0, <3>3, <3>4 DEF HomeInv, AtHome, Ranges, Content
    <3> QED BY <3>1, <3>5, WrittenAtHome
  <2>5. CASE InsertOrphan(s)
    BY <2>5, InsertOrphanInner
  <2>6. CASE CommitSave(s)
    BY <1>0, <2>6 DEF CommitSave, CommitTx, HomeInv, Ranges
  <2>7. CASE RollbackSave(s)
    BY <1>0, <2>7, EmptyAtHome DEF RollbackSave, RollbackTx, HomeInv, Ranges
  <2> QED BY <2>1, <2>2, <2>3, <2>4, <2>5, <2>6, <2>7 DEF SaveStatement
<1> QED BY <1>2, <1>3 DEF HomeInv

\* Every step keeps each row in its folder.
LEMMA HomeStep ==
  ASSUME IInv, ConnInv, ~overlapped => HomeInv, [Next]_vars, ~overlapped', ~Faults, ~undone
  PROVE  HomeInv'
<1>0. Typed /\ Inner /\ HomeInv /\ Ranges
  BY OnceOvertaken, TypedRanges DEF IInv
<1>1. CASE \E f \in Folders, fresh \in BOOLEAN : StartScan(f, fresh)
  <2>1. /\ UNCHANGED <<disk, want, session>> /\ work' = Empty
        /\ \A s \in Savers : Calm(s)
    BY <1>1 DEF StartScan, Calm
  <2>2. \A s \in Savers : want'[s] = NoChoice
    BY <1>0, <2>1 DEF HomeInv, WantsHome
  <2> QED BY <1>0, <2>1, <2>2, EmptyAtHome DEF HomeInv, WantsHome
<1>2. CASE ScanStep
  BY <1>0, <1>2, HomeScan
<1>3. CASE PassStep
  BY <1>0, <1>3, HomePass
<1>4. ASSUME NEW s \in Savers, Submit(s) \/ SaveStatement(s)
      PROVE  HomeInv'
  BY <1>0, <1>4, HomeSave
<1>5. CASE Crash
  BY <1>0, <1>5, EmptyAtHome DEF Crash, NothingWanted, HomeInv, WantsHome
<1>6. CASE UNCHANGED vars
  BY <1>0, <1>6 DEF vars, HomeInv, AtHome, WantsHome, Calm
<1> QED BY <1>1, <1>2, <1>3, <1>4, <1>5, <1>6 DEF Next

\* Decisions made in one folder never reach the database of another, as long as no
\* scan has started while a save was under way (replace_user_decisions, open).
THEOREM DecisionsStay ==
  ASSUME ~Faults
  PROVE  Spec => []DecisionsStayInFolder
<1>1. Init => ConnInv /\ HomeInv
  BY EmptyAtHome DEF Init, AllIdle, NothingWanted, ConnInv, SessionIsConnected, ScanPc,
     Threads, HomeInv, WantsHome
<1>2. Typed /\ ConnInv /\ [Next]_vars => ConnInv'
  BY ConnStep
<1>3. IInv /\ ~undone /\ ConnInv /\ (~overlapped => HomeInv) /\ [Next]_vars
        => (~overlapped => HomeInv)'
  BY HomeStep
<1>4. IInv => Typed
  BY DEF IInv
<1>5. (~overlapped => HomeInv) => DecisionsStayInFolder
  BY DEF HomeInv, AtHome, DecisionsStayInFolder
<1> QED BY <1>1, <1>2, <1>3, <1>4, <1>5, InductiveInvariant, NothingUndone, PTL DEF Spec
===============================================================================
