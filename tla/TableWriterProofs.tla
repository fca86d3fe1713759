--------------------------- MODULE TableWriterProofs ---------------------------
(***************************************************************************)
(* What is proved about the archiving client: types, who owns the scratch   *)
(* file and the second stage, that no row is lost silently, and that an     *)
(* orderly exit leaves nothing behind, for any number of rows, of final     *)
(* paths and of faults.                                                     *)
(***************************************************************************)
EXTENDS TableWriter, TLAPS

-----------------------------------------------------------------------------
(* The inductive invariant *)

(* A thread that holds the lock is in flush() or next to it, and is busy.   *)
LockOK ==
  /\ (holder = "none") <=> (step = "none")
  /\ holder = "main" => main \in {"timeout", "signal", "exit"}
  /\ holder = "worker" => worker # "idle"
  /\ opening => holder = "worker"
  /\ step = "join" => main = "exit" /\ holder = "main"
  /\ step \in {"create", "append"} => holder = "worker"

(* What flush() and open() know of self.F and of the scratch file at each   *)
(* of their steps, the migration of the file before included.               *)
FlushOK ==
  /\ F # "none" => scratch # NoFile
  /\ step = "close" => Opened
  /\ step = "forget" => F = "closed"
  /\ step \in {"rotate", "rename", "start", "create", "join"} => F = "none"
  /\ step \in {"start", "create", "join"} => scratch = NoFile
  /\ step = "rename" => scratch # NoFile
  /\ step \in {"rename", "start"} => ~ MigrationAlive
  /\ step = "start" => stage2 # NoFile
  /\ opening => /\ F = "none"
                /\ step \in {"check", "rotate", "rename", "start", "create"}
  /\ step = "create" => opening
  /\ step = "append" => F # "none"

(* What a migration knows of the two paths.  Nobody else changes them.      *)
MigrationOK ==
  /\ MigrationAlive => stage2 # NoFile
  /\ mig = "move" => archive[dest] = NoFile
  /\ mig = "copy" => archive[dest] = {}
  /\ mig = "unlink" => archive[dest] = stage2

(* Only a fault leaves a file behind that nobody takes care of: one at the  *)
(* second stage, a closed one in self.F, a thread that was not started, or a *)
(* process that did not end well.                                           *)
FaultsOK ==
  /\ stage2 # NoFile /\ ~ MigrationAlive /\ step # "start" => faults > 0
  /\ F = "closed" /\ step # "forget" => faults > 0
  /\ mig = "unstarted" => faults > 0
  /\ ~ up => faults > 0 \/ (holder = "none" /\ ~ MigrationAlive)

(* The bound on rows leaves room for the row of the update under way.       *)
RowsOK ==
  worker # "idle" /\ (holder # "worker" \/ opening \/ step = "append")
    => rows < MaxRows

IInv ==
  /\ TypeOK
  /\ LockOK
  /\ FlushOK
  /\ MigrationOK
  /\ FaultsOK
  /\ RowsOK

-----------------------------------------------------------------------------
(* How flush() ends *)

USE WriterAssumption

(* The types of what the threads do.                                        *)
ThreadsTyped ==
  /\ main \in {"wait", "timeout", "signal", "exit", "done"}
  /\ worker \in {"idle", "data", "disconnect"}
  /\ holder \in {"none", "main", "worker"}
  /\ step \in {"none", "check", "close", "forget", "rotate", "rename", "start",
               "create", "append", "join"}
  /\ opening \in BOOLEAN
  /\ subscribed \in BOOLEAN

(* The types of the files and of what is left.                              *)
FilesTyped ==
  /\ scratch \in File /\ stage2 \in File
  /\ archive \in [Name -> File]
  /\ mig \in {"none", "unstarted", "begin", "move", "copy", "unlink", "over"}
  /\ dest \in Name \cup {NoFile}
  /\ mig \in {"move", "copy", "unlink"} => dest \in Name

OthersTyped ==
  /\ F \in {"none", "open", "bare", "closed"}
  /\ old \in BOOLEAN /\ initial \in BOOLEAN /\ up \in BOOLEAN /\ poked \in BOOLEAN
  /\ rows \in 0 .. MaxRows
  /\ lost \subseteq Row
  /\ faults \in 0 .. MaxFaults

(* TypeOK, taken apart by who changes it. *)
LEMMA TypeParts == TypeOK <=> ThreadsTyped /\ FilesTyped /\ OthersTyped
  BY DEF TypeOK, ThreadsTyped, FilesTyped, OthersTyped

(* The two ends of flush(), for the types and for the lock. *)
LEMMA ReturnsType ==
  ASSUME ThreadsTyped, Returns
  PROVE  ThreadsTyped'
<1>1. CASE /\ opening /\ step' = "create"
           /\ UNCHANGED <<main, worker, holder, opening, subscribed>>
  BY <1>1 DEF ThreadsTyped
<1>2. CASE Leave /\ worker' = "idle" /\ UNCHANGED <<main, subscribed>>
  BY <1>2 DEF ThreadsTyped, Leave
<1>3. CASE Leave /\ main' = "wait" /\ UNCHANGED <<worker, subscribed>>
  BY <1>3 DEF ThreadsTyped, Leave
<1>4. CASE step' = "join" /\ UNCHANGED <<main, worker, holder, opening, subscribed>>
  BY <1>4 DEF ThreadsTyped
<1> QED BY <1>1, <1>2, <1>3, <1>4 DEF Returns

LEMMA RaisesType ==
  ASSUME ThreadsTyped, Raises
  PROVE  ThreadsTyped'
<1>1. CASE worker' = "idle" /\ subscribed' \in {subscribed, FALSE} /\ UNCHANGED main
  <2>1. subscribed' \in BOOLEAN
    BY <1>1, Zenon DEF ThreadsTyped
  <2> QED BY <1>1, <2>1 DEF ThreadsTyped, Raises, Leave
<1>2. CASE main' \in {"exit", "done"} /\ UNCHANGED <<worker, subscribed>>
  BY <1>2 DEF ThreadsTyped, Raises, Leave
<1> QED BY <1>1, <1>2 DEF Raises

LEMMA ReturnsLock ==
  ASSUME ThreadsTyped, LockOK, step # "none", Returns
  PROVE  LockOK'
<1>1. CASE /\ opening /\ step' = "create"
           /\ UNCHANGED <<main, worker, holder, opening, subscribed>>
  BY <1>1 DEF LockOK
<1>2. CASE Leave
  BY <1>2 DEF LockOK, Leave
<1>3. CASE /\ main = "exit" /\ holder = "main" /\ step' = "join"
           /\ UNCHANGED <<main, worker, holder, opening, subscribed>>
  BY <1>3 DEF LockOK
<1> QED BY <1>1, <1>2, <1>3 DEF Returns

LEMMA RaisesLock ==
  ASSUME Raises
  PROVE  LockOK'
  BY DEF Raises, Leave, LockOK

(* After an exception nobody is in flush(). *)
LEMMA RaisesFlush ==
  ASSUME Raises, F' # "none" => scratch' # NoFile
  PROVE  FlushOK'
  BY DEF Raises, Leave, FlushOK

(* What a file holds. *)
LEMMA ContentIsRows ==
  ASSUME NEW f \in File
  PROVE  Content(f) \subseteq Row
  BY DEF File, Content

(* The scratch file is there when rows are appended, and there is room. *)
LEMMA AppendIsRow ==
  ASSUME TypeOK, LockOK, FlushOK, RowsOK, Append
  PROVE  rows' \in Row /\ scratch' \in SUBSET Row /\ scratch' # NoFile
<1>1. rows < MaxRows /\ scratch # NoFile
  BY DEF Append, At, LockOK, FlushOK, RowsOK
<1>2. rows' \in Row /\ scratch' = scratch \cup {rows'}
  BY <1>1 DEF Append, TypeOK, Row
<1>3. scratch \in SUBSET Row
  BY <1>1 DEF TypeOK, File
<1> QED BY <1>2, <1>3

(* A fault is counted. *)
LEMMA OneMoreFault ==
  ASSUME OthersTyped, Fault
  PROVE  faults' \in 0 .. MaxFaults /\ faults' > 0
  BY DEF OthersTyped, Fault

USE DEF vars, files, writer, threads, migration, history, At, MigrationAt,
        MigrationAlive, Opened

-----------------------------------------------------------------------------
(* Each part of the invariant is kept by every step: the actions that change *)
(* what it speaks of one by one, then the others together.                  *)

LEMMA ThreadsTypedStep ==
  ASSUME ThreadsTyped, Next
  PROVE  ThreadsTyped'
<1>1. CASE Check
  BY <1>1, ReturnsType, RaisesType DEF Check, ThreadsTyped
<1>2. CASE Close
  BY <1>2 DEF Close, ThreadsTyped
<1>3. CASE Forget
  BY <1>3 DEF Forget, ThreadsTyped
<1>4. CASE Rotate
  BY <1>4, ReturnsType, RaisesType DEF Rotate, Joined, ThreadsTyped
<1>5. CASE Rename
  BY <1>5 DEF Rename, ThreadsTyped
<1>6. CASE RenameFails
  BY <1>6, RaisesType DEF RenameFails, ThreadsTyped
<1>7. CASE StartMigration
  BY <1>7, ReturnsType DEF StartMigration, ThreadsTyped
<1>8. CASE Disconnected
  BY <1>8 DEF Disconnected, Take, ThreadsTyped
<1>9. CASE Reconnected
  BY <1>9 DEF Reconnected, ThreadsTyped
<1>10. CASE Update
  BY <1>10 DEF Update, Take, ThreadsTyped
<1>11. CASE Create
  BY <1>11 DEF Create, ThreadsTyped
<1>12. CASE CreateFails
  BY <1>12, RaisesType DEF CreateFails, ThreadsTyped
<1>13. CASE Append
  BY <1>13 DEF Append, ThreadsTyped
<1>14. CASE AppendRaises
  BY <1>14, RaisesType DEF AppendRaises, ThreadsTyped
<1>15. CASE AppendFails
  BY <1>15, RaisesType DEF AppendFails, ThreadsTyped
<1>16. CASE Wake
  BY <1>16 DEF Wake, ThreadsTyped
<1>17. CASE MainFlushes
  BY <1>17 DEF MainFlushes, Take, ThreadsTyped
<1>18. CASE CloseWriter
  BY <1>18 DEF CloseWriter, Take, ThreadsTyped
<1>19. CASE JoinMigration
  BY <1>19 DEF JoinMigration, Leave, ThreadsTyped
<1>20. ASSUME NEW event \in {"data", "disconnect"}, Callback(event) PROVE ThreadsTyped'
  BY <1>20 DEF Callback, ThreadsTyped
<1>21. CASE Interrupt
  BY <1>21, RaisesType DEF Interrupt, ThreadsTyped
<1>22. CASE Restart
  BY <1>22 DEF Restart, ThreadsTyped
<1>23. CASE UNCHANGED <<main, worker, holder, step, opening, subscribed>>
  BY <1>23 DEF ThreadsTyped
<1>24. End \/ (\E n \in Name : ChoosePath(n)) \/ Move \/ Copy \/ Unlink
       \/ MigrationFails \/ Age \/ Signal \/ Crash
       => UNCHANGED <<main, worker, holder, step, opening, subscribed>>
  BY DEF End, ChoosePath, Move, Copy, Unlink, MigrationFails, Age, Signal, Crash
<1>25. CASE CheckFails
  BY <1>25, RaisesType DEF CheckFails, ThreadsTyped
<1>26. CASE CloseFails
  BY <1>26, RaisesType DEF CloseFails, ThreadsTyped
<1>27. CASE StartFails
  BY <1>27, RaisesType DEF StartFails, ThreadsTyped
<1> QED
  BY <1>1, <1>2, <1>3, <1>4, <1>5, <1>6, <1>7, <1>8, <1>9, <1>10, <1>11,
     <1>12, <1>13, <1>14, <1>15, <1>16, <1>17, <1>18, <1>19, <1>20, <1>21,
     <1>22, <1>23, <1>24, <1>25, <1>26, <1>27
  DEF Next, Flush, Worker, Main, Migration, Failures

LEMMA FilesTypedStep ==
  ASSUME TypeOK, LockOK, FlushOK, RowsOK, Next
  PROVE  FilesTyped'
<1>0. ThreadsTyped /\ FilesTyped /\ OthersTyped
  BY TypeParts
<1>1. CASE Rotate
  BY <1>1, <1>0 DEF Rotate, Joined, FilesTyped, File, Returns, Leave, Raises
<1>2. CASE Rename
  BY <1>2, <1>0 DEF Rename, FilesTyped, File
<1>3. CASE StartMigration
  BY <1>3, <1>0 DEF StartMigration, FilesTyped, File, Returns, Leave
<1>4. CASE Create
  BY <1>4, <1>0 DEF Create, FilesTyped, File
<1>5. CASE CreateFails
  BY <1>5, <1>0 DEF CreateFails, FilesTyped, File, Raises, Leave
<1>6. CASE Append
  BY <1>6, <1>0, AppendIsRow, TypeParts DEF Append, FilesTyped, File
<1>7. ASSUME NEW n \in Name, ChoosePath(n) PROVE FilesTyped'
  BY <1>7, <1>0 DEF ChoosePath, FilesTyped, File
<1>8. CASE Move
  BY <1>8, <1>0 DEF Move, FilesTyped, File
<1>9. CASE Copy
  BY <1>9, <1>0 DEF Copy, FilesTyped, File
<1>10. CASE Unlink
  BY <1>10, <1>0 DEF Unlink, FilesTyped, File
<1>11. CASE MigrationFails
  BY <1>11, <1>0 DEF MigrationFails, FilesTyped, File
<1>12. CASE Restart
  BY <1>12, <1>0 DEF Restart, FilesTyped, File
<1>13. CASE UNCHANGED <<scratch, stage2, archive, mig, dest>>
  BY <1>0, <1>13 DEF FilesTyped, File
<1>14. Check \/ CheckFails \/ Close \/ CloseFails \/ Forget
       \/ RenameFails \/ Disconnected \/ Reconnected \/ Update
       \/ AppendRaises \/ AppendFails \/ Wake \/ MainFlushes
       \/ CloseWriter \/ JoinMigration \/ End
       \/ (\E event \in {"data", "disconnect"} : Callback(event)) \/ Age
       \/ Signal \/ Interrupt \/ Crash
       => UNCHANGED <<scratch, stage2, archive, mig, dest>>
  BY DEF Check, CheckFails, Close, CloseFails, Forget, RenameFails,
         Disconnected, Take, Reconnected, Update, AppendRaises,
         AppendFails, Wake, MainFlushes, CloseWriter,
         JoinMigration, Leave, End, Callback, Age, Signal, Interrupt, Crash,
         Returns, Raises
<1>15. CASE StartFails
  BY <1>15, <1>0 DEF StartFails, FilesTyped, File, Raises, Leave
<1> QED
  BY <1>1, <1>2, <1>3, <1>4, <1>5, <1>6, <1>7, <1>8, <1>9, <1>10, <1>11,
     <1>12, <1>13, <1>14, <1>15
  DEF Next, Flush, Worker, Main, Migration, Failures

LEMMA OthersTypedStep ==
  ASSUME TypeOK, LockOK, FlushOK, RowsOK, Next
  PROVE  OthersTyped'
<1>0. ThreadsTyped /\ FilesTyped /\ OthersTyped
  BY TypeParts
<1>1. CASE Close
  BY <1>1, <1>0 DEF Close, OthersTyped
<1>2. CASE Forget
  BY <1>2, <1>0 DEF Forget, OthersTyped
<1>3. CASE Rename
  BY <1>3, <1>0, ContentIsRows DEF Rename, OthersTyped, FilesTyped
<1>4. CASE RenameFails
  BY <1>4, <1>0, OneMoreFault, TypeParts
  DEF RenameFails, OthersTyped, Raises, Leave
<1>5. CASE Disconnected
  BY <1>5, <1>0 DEF Disconnected, Take, OthersTyped
<1>6. CASE Reconnected
  BY <1>6, <1>0 DEF Reconnected, OthersTyped
<1>7. CASE Create
  BY <1>7, <1>0 DEF Create, OthersTyped
<1>8. CASE CreateFails
  BY <1>8, <1>0, OneMoreFault, TypeParts
  DEF CreateFails, OthersTyped, Raises, Leave
<1>9. CASE Append
  BY <1>9, <1>0, AppendIsRow, TypeParts DEF Append, OthersTyped, Row
<1>10. CASE AppendFails
  BY <1>10, <1>0, OneMoreFault, TypeParts
  DEF AppendFails, OthersTyped, Raises, Leave
<1>11. CASE Wake
  BY <1>11, <1>0 DEF Wake, OthersTyped
<1>12. CASE End
  <2>1. faults' \in 0 .. MaxFaults
    BY <1>0, <1>12, WriterAssumption DEF End, OthersTyped
  <2> QED BY <1>0, <1>12, <2>1 DEF End, OthersTyped
<1>13. ASSUME NEW n \in Name, ChoosePath(n) PROVE OthersTyped'
  BY <1>13, <1>0, ContentIsRows DEF ChoosePath, OthersTyped, FilesTyped
<1>14. CASE MigrationFails
  BY <1>14, <1>0, OneMoreFault, TypeParts DEF MigrationFails, OthersTyped
<1>15. CASE Age
  BY <1>15, <1>0 DEF Age, OthersTyped
<1>16. CASE Signal
  BY <1>16, <1>0 DEF Signal, OthersTyped
<1>17. CASE Interrupt
  BY <1>17, <1>0, OneMoreFault, TypeParts
  DEF Interrupt, OthersTyped, Raises, Leave
<1>18. CASE Crash
  BY <1>18, <1>0, OneMoreFault, TypeParts DEF Crash, OthersTyped
<1>19. CASE Restart
  BY <1>19, <1>0 DEF Restart, OthersTyped
<1>20. CASE UNCHANGED <<F, old, initial, up, poked, rows, lost, faults>>
  BY <1>0, <1>20 DEF OthersTyped
<1>21. Check \/ Rotate \/ StartMigration \/ Update \/ AppendRaises
       \/ MainFlushes \/ CloseWriter \/ JoinMigration \/ Move \/ Copy \/ Unlink
       \/ (\E event \in {"data", "disconnect"} : Callback(event))
       => UNCHANGED <<F, old, initial, up, poked, rows, lost, faults>>
  BY DEF Check, Rotate, Joined, StartMigration, Update, Take, AppendRaises,
         MainFlushes, CloseWriter, JoinMigration, Leave, Move, Copy, Unlink,
         Callback, Returns, Raises
<1>22. CASE CheckFails
  BY <1>22, <1>0, OneMoreFault, TypeParts
  DEF CheckFails, OthersTyped, Raises, Leave
<1>23. CASE CloseFails
  BY <1>23, <1>0, OneMoreFault, TypeParts
  DEF CloseFails, OthersTyped, Raises, Leave
<1>24. CASE StartFails
  BY <1>24, <1>0, OneMoreFault, TypeParts
  DEF StartFails, OthersTyped, Raises, Leave
<1> QED
  BY <1>1, <1>2, <1>3, <1>4, <1>5, <1>6, <1>7, <1>8, <1>9, <1>10, <1>11,
     <1>12, <1>13, <1>14, <1>15, <1>16, <1>17, <1>18, <1>19, <1>20, <1>21,
     <1>22, <1>23, <1>24
  DEF Next, Flush, Worker, Main, Migration, Failures

LEMMA LockOKStep ==
  ASSUME ThreadsTyped, LockOK, FlushOK, Next
  PROVE  LockOK'
<1>1. CASE Check
  BY <1>1, ReturnsLock, RaisesLock DEF Check, ThreadsTyped, LockOK, FlushOK
<1>2. CASE Close
  BY <1>2 DEF Close, ThreadsTyped, LockOK, FlushOK
<1>3. CASE Forget
  BY <1>3 DEF Forget, ThreadsTyped, LockOK, FlushOK
<1>4. CASE Rotate
  BY <1>4, ReturnsLock, RaisesLock DEF Rotate, Joined, ThreadsTyped, LockOK, FlushOK
<1>5. CASE Rename
  BY <1>5 DEF Rename, ThreadsTyped, LockOK, FlushOK
<1>6. CASE RenameFails
  BY <1>6, RaisesLock DEF RenameFails, ThreadsTyped, LockOK, FlushOK
<1>7. CASE StartMigration
  BY <1>7, ReturnsLock DEF StartMigration, ThreadsTyped, LockOK, FlushOK
<1>8. CASE Disconnected
  BY <1>8 DEF Disconnected, Take, ThreadsTyped, LockOK, FlushOK
<1>9. CASE Reconnected
  BY <1>9 DEF Reconnected, ThreadsTyped, LockOK, FlushOK
<1>10. CASE Update
  BY <1>10 DEF Update, Take, ThreadsTyped, LockOK, FlushOK
<1>11. CASE Create
  BY <1>11 DEF Create, ThreadsTyped, LockOK, FlushOK
<1>12. CASE CreateFails
  BY <1>12, RaisesLock DEF CreateFails, ThreadsTyped, LockOK, FlushOK
<1>13. CASE Append
  BY <1>13 DEF Append, ThreadsTyped, LockOK, FlushOK
<1>14. CASE AppendRaises
  BY <1>14, RaisesLock DEF AppendRaises, ThreadsTyped, LockOK, FlushOK
<1>15. CASE AppendFails
  BY <1>15, RaisesLock DEF AppendFails, ThreadsTyped, LockOK, FlushOK
<1>16. CASE Wake
  BY <1>16 DEF Wake, ThreadsTyped, LockOK, FlushOK
<1>17. CASE MainFlushes
  BY <1>17 DEF MainFlushes, Take, ThreadsTyped, LockOK, FlushOK
<1>18. CASE CloseWriter
  BY <1>18 DEF CloseWriter, Take, ThreadsTyped, LockOK, FlushOK
<1>19. CASE JoinMigration
  BY <1>19 DEF JoinMigration, Leave, ThreadsTyped, LockOK, FlushOK
<1>20. ASSUME NEW event \in {"data", "disconnect"}, Callback(event) PROVE LockOK'
  BY <1>20 DEF Callback, ThreadsTyped, LockOK, FlushOK
<1>21. CASE Interrupt
  BY <1>21, RaisesLock DEF Interrupt, ThreadsTyped, LockOK, FlushOK
<1>22. CASE Restart
  BY <1>22 DEF Restart, ThreadsTyped, LockOK, FlushOK
<1>23. CASE UNCHANGED <<main, worker, holder, step, opening>>
  BY <1>23 DEF ThreadsTyped, LockOK, FlushOK
<1>24. End \/ (\E n \in Name : ChoosePath(n)) \/ Move \/ Copy \/ Unlink
       \/ MigrationFails \/ Age \/ Signal \/ Crash
       => UNCHANGED <<main, worker, holder, step, opening>>
  BY DEF End, ChoosePath, Move, Copy, Unlink, MigrationFails, Age, Signal, Crash
<1>25. CASE CheckFails
  BY <1>25, RaisesLock DEF CheckFails, ThreadsTyped, LockOK, FlushOK
<1>26. CASE CloseFails
  BY <1>26, RaisesLock DEF CloseFails, ThreadsTyped, LockOK, FlushOK
<1>27. CASE StartFails
  BY <1>27, RaisesLock DEF StartFails, ThreadsTyped, LockOK, FlushOK
<1> QED
  BY <1>1, <1>2, <1>3, <1>4, <1>5, <1>6, <1>7, <1>8, <1>9, <1>10, <1>11,
     <1>12, <1>13, <1>14, <1>15, <1>16, <1>17, <1>18, <1>19, <1>20, <1>21,
     <1>22, <1>23, <1>24, <1>25, <1>26, <1>27
  DEF Next, Flush, Worker, Main, Migration, Failures

LEMMA FlushOKStep ==
  ASSUME TypeOK, LockOK, FlushOK, RowsOK, Next
  PROVE  FlushOK'
<1>1. CASE Check
  <2>1. CASE Opened /\ MaySkip /\ Returns
    BY <1>1, <2>1 DEF Check, Returns, Leave, FlushOK, LockOK, MaySkip, Forced
  <2>2. CASE Raises
    BY <1>1, <2>2, RaisesFlush DEF Check, FlushOK
  <2> QED BY <1>1, <2>1, <2>2 DEF Check, FlushOK, LockOK
<1>2. CASE Close
  BY <1>2 DEF Close, FlushOK, LockOK
<1>3. CASE Forget
  BY <1>3 DEF Forget, FlushOK, LockOK
<1>4. CASE Rotate
  BY <1>4, RaisesFlush DEF Rotate, Joined, FlushOK, LockOK, Returns, Leave
<1>5. CASE Rename
  BY <1>5 DEF Rename, FlushOK, LockOK
<1>6. CASE RenameFails
  BY <1>6, RaisesFlush DEF RenameFails, FlushOK, LockOK
<1>7. CASE StartMigration
  BY <1>7 DEF StartMigration, FlushOK, LockOK, Returns, Leave
<1>8. CASE Disconnected
  BY <1>8 DEF Disconnected, Take, FlushOK, LockOK
<1>9. CASE Update
  BY <1>9 DEF Update, Take, FlushOK, LockOK
<1>10. CASE Create
  BY <1>10 DEF Create, FlushOK, LockOK
<1>11. CASE CreateFails
  BY <1>11, RaisesFlush DEF CreateFails, FlushOK, LockOK
<1>12. CASE Append
  BY <1>12, AppendIsRow DEF Append, FlushOK, LockOK
<1>13. CASE AppendRaises
  BY <1>13, RaisesFlush DEF AppendRaises, FlushOK, LockOK
<1>14. CASE AppendFails
  BY <1>14, RaisesFlush DEF AppendFails, FlushOK, LockOK
<1>15. CASE MainFlushes
  BY <1>15 DEF MainFlushes, Take, FlushOK, LockOK
<1>16. CASE CloseWriter
  BY <1>16 DEF CloseWriter, Take, FlushOK, LockOK
<1>17. CASE JoinMigration
  BY <1>17 DEF JoinMigration, Leave, FlushOK, LockOK
<1>18. ASSUME NEW n \in Name, ChoosePath(n) PROVE FlushOK'
  BY <1>18 DEF ChoosePath, FlushOK, LockOK
<1>19. CASE Move
  BY <1>19 DEF Move, FlushOK, LockOK
<1>20. CASE Copy
  BY <1>20 DEF Copy, FlushOK, LockOK
<1>21. CASE Unlink
  BY <1>21 DEF Unlink, FlushOK, LockOK
<1>22. CASE MigrationFails
  BY <1>22 DEF MigrationFails, FlushOK, LockOK
<1>23. CASE Interrupt
  BY <1>23, RaisesFlush DEF Interrupt, FlushOK, LockOK
<1>24. CASE Restart
  BY <1>24 DEF Restart, FlushOK, LockOK
<1>25. CASE UNCHANGED <<F, scratch, stage2, step, opening, mig>>
  BY <1>25 DEF FlushOK, LockOK
<1>26. Reconnected \/ Wake \/ End
       \/ (\E event \in {"data", "disconnect"} : Callback(event)) \/ Age
       \/ Signal \/ Crash
       => UNCHANGED <<F, scratch, stage2, step, opening, mig>>
  BY DEF Reconnected, Wake, End, Callback, Age, Signal, Crash
<1>27. CASE CheckFails
  BY <1>27, RaisesFlush DEF CheckFails, FlushOK, LockOK
<1>28. CASE CloseFails
  BY <1>28, RaisesFlush DEF CloseFails, FlushOK, LockOK
<1>29. CASE StartFails
  BY <1>29, RaisesFlush DEF StartFails, FlushOK, LockOK
<1> QED
  BY <1>1, <1>2, <1>3, <1>4, <1>5, <1>6, <1>7, <1>8, <1>9, <1>10, <1>11,
     <1>12, <1>13, <1>14, <1>15, <1>16, <1>17, <1>18, <1>19, <1>20, <1>21,
     <1>22, <1>23, <1>24, <1>25, <1>26, <1>27, <1>28, <1>29
  DEF Next, Flush, Worker, Main, Migration, Failures

LEMMA MigrationOKStep ==
  ASSUME TypeOK, FlushOK, MigrationOK, Next
  PROVE  MigrationOK'
<1>1. CASE Rotate
  BY <1>1 DEF Rotate, Joined, MigrationOK, FlushOK, TypeOK, Returns, Leave, Raises
<1>2. CASE Rename
  BY <1>2 DEF Rename, MigrationOK, FlushOK, TypeOK
<1>3. CASE StartMigration
  BY <1>3 DEF StartMigration, MigrationOK, FlushOK, TypeOK, Returns, Leave
<1>4. ASSUME NEW n \in Name, ChoosePath(n) PROVE MigrationOK'
  BY <1>4 DEF ChoosePath, MigrationOK, FlushOK, TypeOK
<1>5. CASE Move
  BY <1>5 DEF Move, MigrationOK, FlushOK, TypeOK
<1>6. CASE Copy
  BY <1>6 DEF Copy, MigrationOK, FlushOK, TypeOK
<1>7. CASE Unlink
  BY <1>7 DEF Unlink, MigrationOK, FlushOK, TypeOK
<1>8. CASE MigrationFails
  BY <1>8 DEF MigrationFails, MigrationOK, FlushOK, TypeOK
<1>9. CASE Restart
  BY <1>9 DEF Restart, MigrationOK, FlushOK, TypeOK
<1>10. CASE UNCHANGED <<stage2, archive, mig, dest>>
  BY <1>10 DEF MigrationOK, FlushOK, TypeOK
<1>11. Check \/ CheckFails \/ Close \/ CloseFails \/ Forget
       \/ RenameFails \/ Disconnected \/ Reconnected \/ Update
       \/ Create \/ CreateFails \/ Append \/ AppendRaises
       \/ AppendFails \/ Wake \/ MainFlushes \/ CloseWriter \/ JoinMigration
       \/ End \/ (\E event \in {"data", "disconnect"} : Callback(event)) \/ Age
       \/ Signal \/ Interrupt \/ Crash
       => UNCHANGED <<stage2, archive, mig, dest>>
  BY DEF Check, CheckFails, Close, CloseFails, Forget, RenameFails,
         Disconnected, Take, Reconnected, Update, Create, CreateFails,
         Append, AppendRaises, AppendFails, Wake,
         MainFlushes, CloseWriter, JoinMigration, Leave, End, Callback, Age,
         Signal, Interrupt, Crash, Returns, Raises
<1>12. CASE StartFails
  BY <1>12 DEF StartFails, MigrationOK, FlushOK, TypeOK, Raises, Leave
<1> QED
  BY <1>1, <1>2, <1>3, <1>4, <1>5, <1>6, <1>7, <1>8, <1>9, <1>10, <1>11,
     <1>12
  DEF Next, Flush, Worker, Main, Migration, Failures

LEMMA FaultsOKStep ==
  ASSUME TypeOK, LockOK, FlushOK, MigrationOK, FaultsOK, Next
  PROVE  FaultsOK'
<1>1. CASE Check
  BY <1>1, RaisesLock
  DEF Check, FaultsOK, LockOK, FlushOK, MigrationOK, TypeOK, Returns, Leave
<1>2. CASE Close
  BY <1>2 DEF Close, FaultsOK, LockOK, FlushOK, MigrationOK, TypeOK
<1>3. CASE Forget
  BY <1>3 DEF Forget, FaultsOK, LockOK, FlushOK, MigrationOK, TypeOK
<1>4. CASE Rotate
  BY <1>4, RaisesLock
  DEF Rotate, Joined, FaultsOK, LockOK, FlushOK, MigrationOK, TypeOK, Returns,
      Leave
<1>5. CASE Rename
  BY <1>5 DEF Rename, FaultsOK, LockOK, FlushOK, MigrationOK, TypeOK
<1>6. CASE RenameFails
  BY <1>6, RaisesLock, OneMoreFault, TypeParts
  DEF RenameFails, FaultsOK, LockOK, FlushOK, MigrationOK, TypeOK
<1>7. CASE StartMigration
  BY <1>7
  DEF StartMigration, FaultsOK, LockOK, FlushOK, MigrationOK, TypeOK, Returns,
      Leave
<1>8. CASE Disconnected
  BY <1>8 DEF Disconnected, Take, FaultsOK, LockOK, FlushOK, MigrationOK, TypeOK
<1>9. CASE Update
  BY <1>9 DEF Update, Take, FaultsOK, LockOK, FlushOK, MigrationOK, TypeOK
<1>10. CASE Create
  BY <1>10 DEF Create, FaultsOK, LockOK, FlushOK, MigrationOK, TypeOK
<1>11. CASE CreateFails
  BY <1>11, RaisesLock, OneMoreFault, TypeParts
  DEF CreateFails, FaultsOK, LockOK, FlushOK, MigrationOK, TypeOK
<1>12. CASE Append
  BY <1>12 DEF Append, FaultsOK, LockOK, FlushOK, MigrationOK, TypeOK
<1>13. CASE AppendRaises
  BY <1>13, RaisesLock
  DEF AppendRaises, FaultsOK, LockOK, FlushOK, MigrationOK, TypeOK
<1>14. CASE AppendFails
  BY <1>14, RaisesLock, OneMoreFault, TypeParts
  DEF AppendFails, FaultsOK, LockOK, FlushOK, MigrationOK, TypeOK
<1>15. CASE MainFlushes
  BY <1>15 DEF MainFlushes, Take, FaultsOK, LockOK, FlushOK, MigrationOK, TypeOK
<1>16. CASE CloseWriter
  BY <1>16 DEF CloseWriter, Take, FaultsOK, LockOK, FlushOK, MigrationOK, TypeOK
<1>17. CASE JoinMigration
  BY <1>17
  DEF JoinMigration, Leave, FaultsOK, LockOK, FlushOK, MigrationOK, TypeOK
<1>18. CASE End
  BY <1>18 DEF End, FaultsOK, LockOK, FlushOK, MigrationOK, TypeOK
<1>19. ASSUME NEW n \in Name, ChoosePath(n) PROVE FaultsOK'
  BY <1>19 DEF ChoosePath, FaultsOK, LockOK, FlushOK, MigrationOK, TypeOK
<1>20. CASE Move
  BY <1>20 DEF Move, FaultsOK, LockOK, FlushOK, MigrationOK, TypeOK
<1>21. CASE Copy
  BY <1>21 DEF Copy, FaultsOK, LockOK, FlushOK, MigrationOK, TypeOK
<1>22. CASE Unlink
  BY <1>22 DEF Unlink, FaultsOK, LockOK, FlushOK, MigrationOK, TypeOK
<1>23. CASE MigrationFails
  BY <1>23, OneMoreFault, TypeParts
  DEF MigrationFails, FaultsOK, LockOK, FlushOK, MigrationOK, TypeOK
<1>24. CASE Interrupt
  BY <1>24, RaisesLock, OneMoreFault, TypeParts
  DEF Interrupt, FaultsOK, LockOK, FlushOK, MigrationOK, TypeOK
<1>25. CASE Crash
  BY <1>25, OneMoreFault, TypeParts
  DEF Crash, FaultsOK, LockOK, FlushOK, MigrationOK, TypeOK
<1>26. CASE Restart
  BY <1>26 DEF Restart, FaultsOK, LockOK, FlushOK, MigrationOK, TypeOK
<1>27. CASE UNCHANGED <<F, stage2, step, holder, mig, faults, up>>
  BY <1>27 DEF FaultsOK, LockOK, FlushOK, MigrationOK, TypeOK
<1>28. Reconnected \/ Wake
       \/ (\E event \in {"data", "disconnect"} : Callback(event)) \/ Age
       \/ Signal
       => UNCHANGED <<F, stage2, step, holder, mig, faults, up>>
  BY DEF Reconnected, Wake, Callback, Age, Signal
<1>29. CASE CheckFails
  BY <1>29, RaisesLock, OneMoreFault, TypeParts
  DEF CheckFails, FaultsOK, LockOK, FlushOK, MigrationOK, TypeOK
<1>30. CASE CloseFails
  BY <1>30, RaisesLock, OneMoreFault, TypeParts
  DEF CloseFails, FaultsOK, LockOK, FlushOK, MigrationOK, TypeOK
<1>31. CASE StartFails
  BY <1>31, RaisesLock, OneMoreFault, TypeParts
  DEF StartFails, FaultsOK, LockOK, FlushOK, MigrationOK, TypeOK
<1> QED
  BY <1>1, <1>2, <1>3, <1>4, <1>5, <1>6, <1>7, <1>8, <1>9, <1>10, <1>11,
     <1>12, <1>13, <1>14, <1>15, <1>16, <1>17, <1>18, <1>19, <1>20, <1>21,
     <1>22, <1>23, <1>24, <1>25, <1>26, <1>27, <1>28, <1>29, <1>30, <1>31
  DEF Next, Flush, Worker, Main, Migration, Failures

LEMMA RowsOKStep ==
  ASSUME TypeOK, LockOK, FlushOK, RowsOK, Next
  PROVE  RowsOK'
<1>1. CASE Check
  BY <1>1 DEF Check, RowsOK, LockOK, FlushOK, TypeOK, Returns, Leave, Raises
<1>2. CASE Close
  BY <1>2 DEF Close, RowsOK, LockOK, FlushOK, TypeOK
<1>3. CASE Forget
  BY <1>3 DEF Forget, RowsOK, LockOK, FlushOK, TypeOK
<1>4. CASE Rotate
  BY <1>4
  DEF Rotate, Joined, RowsOK, LockOK, FlushOK, TypeOK, Returns, Leave, Raises
<1>5. CASE Rename
  BY <1>5 DEF Rename, RowsOK, LockOK, FlushOK, TypeOK
<1>6. CASE RenameFails
  BY <1>6 DEF RenameFails, RowsOK, LockOK, FlushOK, TypeOK, Raises, Leave
<1>7. CASE StartMigration
  BY <1>7 DEF StartMigration, RowsOK, LockOK, FlushOK, TypeOK, Returns, Leave
<1>8. CASE Disconnected
  BY <1>8 DEF Disconnected, Take, RowsOK, LockOK, FlushOK, TypeOK
<1>9. CASE Reconnected
  BY <1>9 DEF Reconnected, RowsOK, LockOK, FlushOK, TypeOK
<1>10. CASE Update
  BY <1>10 DEF Update, Take, RowsOK, LockOK, FlushOK, TypeOK
<1>11. CASE Create
  BY <1>11 DEF Create, RowsOK, LockOK, FlushOK, TypeOK
<1>12. CASE CreateFails
  BY <1>12 DEF CreateFails, RowsOK, LockOK, FlushOK, TypeOK, Raises, Leave
<1>13. CASE Append
  BY <1>13 DEF Append, RowsOK, LockOK, FlushOK, TypeOK
<1>14. CASE AppendRaises
  BY <1>14 DEF AppendRaises, RowsOK, LockOK, FlushOK, TypeOK, Raises, Leave
<1>15. CASE AppendFails
  BY <1>15 DEF AppendFails, RowsOK, LockOK, FlushOK, TypeOK, Raises, Leave
<1>16. CASE Wake
  BY <1>16 DEF Wake, RowsOK, LockOK, FlushOK, TypeOK
<1>17. CASE MainFlushes
  BY <1>17 DEF MainFlushes, Take, RowsOK, LockOK, FlushOK, TypeOK
<1>18. CASE CloseWriter
  BY <1>18 DEF CloseWriter, Take, RowsOK, LockOK, FlushOK, TypeOK
<1>19. CASE JoinMigration
  BY <1>19 DEF JoinMigration, Leave, RowsOK, LockOK, FlushOK, TypeOK
<1>20. ASSUME NEW event \in {"data", "disconnect"}, Callback(event) PROVE RowsOK'
  BY <1>20 DEF Callback, RowsOK, LockOK, FlushOK, TypeOK
<1>21. CASE Interrupt
  BY <1>21 DEF Interrupt, RowsOK, LockOK, FlushOK, TypeOK, Raises, Leave
<1>22. CASE Restart
  BY <1>22 DEF Restart, RowsOK, LockOK, FlushOK, TypeOK
<1>23. CASE UNCHANGED <<worker, holder, step, opening, rows>>
  BY <1>23 DEF RowsOK, LockOK, FlushOK, TypeOK
<1>24. End \/ (\E n \in Name : ChoosePath(n)) \/ Move \/ Copy \/ Unlink
       \/ MigrationFails \/ Age \/ Signal \/ Crash
       => UNCHANGED <<worker, holder, step, opening, rows>>
  BY DEF End, ChoosePath, Move, Copy, Unlink, MigrationFails, Age, Signal, Crash
<1>25. CASE CheckFails
  BY <1>25 DEF CheckFails, RowsOK, LockOK, FlushOK, TypeOK, Raises, Leave
<1>26. CASE CloseFails
  BY <1>26 DEF CloseFails, RowsOK, LockOK, FlushOK, TypeOK, Raises, Leave
<1>27. CASE StartFails
  BY <1>27 DEF StartFails, RowsOK, LockOK, FlushOK, TypeOK, Raises, Leave
<1> QED
  BY <1>1, <1>2, <1>3, <1>4, <1>5, <1>6, <1>7, <1>8, <1>9, <1>10, <1>11,
     <1>12, <1>13, <1>14, <1>15, <1>16, <1>17, <1>18, <1>19, <1>20, <1>21,
     <1>22, <1>23, <1>24, <1>25, <1>26, <1>27
  DEF Next, Flush, Worker, Main, Migration, Failures

-----------------------------------------------------------------------------
(* No row is lost *)

(* A row is archived if it is in one of the final files. *)
LEMMA ArchivedRow ==
  ASSUME NEW r
  PROVE  r \in Archived <=> \E n \in Name : r \in Content(archive[n])
  BY DEF Archived

LEMMA ArchivedRowNext ==
  ASSUME NEW r
  PROVE  r \in Archived' <=> \E n \in Name : r \in Content(archive'[n])
  BY DEF Archived, Content

(* It is enough that a saved row stays saved or is given up. *)
LEMMA SavedStays ==
  ASSUME NothingLostSilently, UNCHANGED rows, lost \subseteq lost',
         \A r : r \in Saved => r \in Saved' \cup lost'
  PROVE  NothingLostSilently'
  BY DEF NothingLostSilently

(* Renaming, moving and copying keep what the files hold together: nothing  *)
(* is at the final path of a migration but its own copy.                    *)
LEMMA NothingLostStep ==
  ASSUME IInv, NothingLostSilently, Next
  PROVE  NothingLostSilently'
<1>0. TypeOK /\ LockOK /\ FlushOK /\ MigrationOK /\ RowsOK
  BY DEF IInv
<1>1. CASE Rename
  <2>1. Archived' = Archived
    BY <1>1 DEF Rename, Archived, Content
  <2> QED BY <1>1, <2>1, SavedStays DEF Rename, Saved, Content
<1>2. CASE Create
  <2>1. Archived' = Archived
    BY <1>2 DEF Create, Archived, Content
  <2> QED BY <1>2, <2>1, SavedStays DEF Create, Saved, Content
<1>3. CASE CreateFails
  <2>1. Archived' = Archived
    BY <1>3 DEF CreateFails, Archived, Content
  <2>2. scratch = NoFile
    BY <1>0, <1>3 DEF CreateFails, FlushOK
  <2> QED BY <1>3, <2>1, <2>2, SavedStays DEF CreateFails, Saved, Content
<1>4. CASE Append
  <2>1. Archived' = Archived
    BY <1>4 DEF Append, Archived, Content
  <2>2. scratch # NoFile /\ scratch' # NoFile
    BY <1>0, <1>4, AppendIsRow DEF Append, FlushOK
  <2>3. Saved' = Saved \cup {rows'}
    BY <1>4, <2>1, <2>2 DEF Append, Saved, Content
  <2>4. 1 .. rows' = (1 .. rows) \cup {rows'}
    BY <1>0, <1>4 DEF Append, TypeOK
  <2> QED BY <1>4, <2>3, <2>4 DEF Append, NothingLostSilently
<1>5. ASSUME NEW n \in Name, ChoosePath(n)
      PROVE  NothingLostSilently'
  <2>1. \A m \in Name : m # n => archive'[m] = archive[m]
    BY <1>0, <1>5 DEF ChoosePath, TypeOK
  <2>2. ASSUME NEW r \in Archived
        PROVE  r \in Archived' \cup lost'
    BY <1>5, <2>1, ArchivedRow, ArchivedRowNext DEF ChoosePath
  <2> QED BY <1>5, <2>2, SavedStays DEF ChoosePath, Saved, Content
<1>6. CASE Move \/ Copy \/ Unlink
  <2>1. dest \in Name
    BY <1>0, <1>6 DEF Move, Copy, Unlink, TypeOK
  <2>2. \A m \in Name : m # dest => archive'[m] = archive[m]
    BY <1>0, <1>6, <2>1 DEF Move, Copy, Unlink, TypeOK
  <2>3. archive[dest] \in {NoFile, {}, archive'[dest]}
    BY <1>0, <1>6, <2>1 DEF Move, Copy, Unlink, TypeOK, MigrationOK
  <2>4. stage2' = stage2 \/ archive'[dest] = stage2
    BY <1>0, <1>6, <2>1 DEF Move, Copy, Unlink, TypeOK, MigrationOK
  <2>5. ASSUME NEW r \in Archived
        PROVE  r \in Archived'
    <3>1. PICK m \in Name : r \in Content(archive[m])
      BY ArchivedRow
    <3>2. r \in Content(archive'[m])
      BY <2>2, <2>3, <3>1 DEF Content
    <3> QED BY <3>2, ArchivedRowNext
  <2>6. ASSUME NEW r \in Content(stage2)
        PROVE  r \in Content(stage2)' \cup Archived'
    BY <2>1, <2>4, ArchivedRowNext DEF Content
  <2>7. UNCHANGED <<scratch, rows, lost>>
    BY <1>6 DEF Move, Copy, Unlink
  <2>8. Content(scratch)' = Content(scratch)
    BY <2>7 DEF Content
  <2>9. ASSUME NEW r \in Saved
        PROVE  r \in Saved'
    BY <2>5, <2>6, <2>8 DEF Saved
  <2> QED BY <2>7, <2>9, SavedStays
<1>7. CASE UNCHANGED <<scratch, stage2, archive, rows, lost>>
  BY <1>7 DEF NothingLostSilently, Saved, Archived, Content
<1>8. Check \/ Close \/ Forget \/ Rotate \/ StartMigration \/ RenameFails
      \/ AppendFails \/ MigrationFails \/ Crash
        => UNCHANGED <<scratch, stage2, archive, rows, lost>>
  BY DEF Check, Close, Forget, Rotate, StartMigration, RenameFails, AppendFails,
         MigrationFails, Crash
<1>9. Disconnected \/ Reconnected \/ Update \/ AppendRaises
        => UNCHANGED <<scratch, stage2, archive, rows, lost>>
  BY DEF Disconnected, Reconnected, Update, AppendRaises
<1>10. Main => UNCHANGED <<scratch, stage2, archive, rows, lost>>
  BY DEF Main, Wake, MainFlushes, CloseWriter, JoinMigration, End
<1>11. (\E event \in {"data", "disconnect"} : Callback(event))
       \/ Age \/ Signal \/ Interrupt \/ Restart
         => UNCHANGED <<scratch, stage2, archive, rows, lost>>
  BY DEF Callback, Age, Signal, Interrupt, Restart
<1>12. CheckFails \/ CloseFails \/ StartFails
        => UNCHANGED <<scratch, stage2, archive, rows, lost>>
  BY DEF CheckFails, CloseFails, StartFails
<1> QED
  BY <1>1, <1>2, <1>3, <1>4, <1>5, <1>6, <1>7, <1>8, <1>9, <1>10, <1>11,
     <1>12
  DEF Next, Flush, Worker, Migration, Failures

-----------------------------------------------------------------------------
(* The invariant *)

LEMMA InitIInv ==
  ASSUME Init
  PROVE  IInv
<1>1. ThreadsTyped
  BY DEF Init, ThreadsTyped
<1>2. FilesTyped
  BY DEF Init, FilesTyped, File
<1>3. OthersTyped
  <2>1. rows \in 0 .. MaxRows /\ faults \in 0 .. MaxFaults
    BY DEF Init
  <2> QED BY <2>1 DEF Init, OthersTyped
<1>4. LockOK /\ FlushOK
  BY DEF Init, LockOK, FlushOK
<1>5. MigrationOK /\ FaultsOK /\ RowsOK
  BY DEF Init, MigrationOK, FaultsOK, RowsOK
<1> QED BY <1>1, <1>2, <1>3, <1>4, <1>5, TypeParts DEF IInv

LEMMA NextIInv == IInv /\ [Next]_vars => IInv'
<1>1. CASE IInv /\ Next
  BY <1>1, TypeParts, ThreadsTypedStep, FilesTypedStep, OthersTypedStep,
     LockOKStep, FlushOKStep, MigrationOKStep, FaultsOKStep, RowsOKStep
  DEF IInv, TypeOK, ThreadsTyped, FilesTyped, OthersTyped
<1>2. CASE IInv /\ UNCHANGED vars
  BY <1>2 DEF IInv, TypeOK, LockOK, FlushOK, MigrationOK, FaultsOK, RowsOK
<1> QED BY <1>1, <1>2

LEMMA InvariantHolds == Spec => []IInv
  BY InitIInv, NextIInv, PTL DEF Spec

(* Every variable stays in its range, and a migration that moves a file     *)
(* knows where to.                                                          *)
THEOREM TypeCorrect == Spec => []TypeOK
<1>1. IInv => TypeOK
  BY DEF IInv
<1> QED BY <1>1, InvariantHolds, PTL

(* A file comes to the second stage when no migration is alive, a migration *)
(* finds its file there, and only after a fault is another one overwritten: *)
(* flush() joins the thread before os.rename.                               *)
THEOREM StageHasOneOwner == Spec => []StageIsOwned
<1>1. IInv => StageIsOwned
  BY DEF IInv, FlushOK, MigrationOK, FaultsOK, StageIsOwned
<1> QED BY <1>1, InvariantHolds, PTL

(* An open file is the scratch file, and no step of flush() that is under   *)
(* way will rename it.                                                      *)
THEOREM ScratchHasOneOwner == Spec => []WriterOwnsScratch
<1>1. IInv => WriterOwnsScratch
  BY DEF IInv, FlushOK, WriterOwnsScratch
<1> QED BY <1>1, InvariantHolds, PTL

(* Whatever the process is doing when it is killed or a call on a file      *)
(* fails, each row that was flushed is in some file, unless the log says    *)
(* that the file was overwritten or removed.                                *)
THEOREM NoRowIsLostSilently == Spec => []NothingLostSilently
<1>1. Init => NothingLostSilently
  BY DEF Init, NothingLostSilently
<1>2. IInv /\ NothingLostSilently /\ [Next]_vars => NothingLostSilently'
  <2>1. CASE UNCHANGED vars
    BY <2>1 DEF NothingLostSilently, Saved, Archived, Content
  <2> QED BY <2>1, NothingLostStep
<1> QED BY <1>1, <1>2, InvariantHolds, PTL DEF Spec

(* Without a fault, close() returns when there is no open file, no scratch  *)
(* file and none at the second stage.                                       *)
THEOREM OrderlyExitIsComplete == Spec => ExitIsComplete
<1>1. ASSUME IInv, Next, main # "done", main' = "done", faults' = 0
      PROVE  F' = "none" /\ scratch' = NoFile /\ stage2' = NoFile
  <2>0. ~ Fault
    BY <1>1 DEF Fault, IInv, TypeOK
  <2>1. CASE JoinMigration
    BY <1>1, <2>1 DEF JoinMigration, IInv, FlushOK, FaultsOK, TypeOK
  <2>2. Returns => FALSE
    BY <1>1 DEF Returns, Leave
  <2>3. CASE Check
    <3>1. F = "closed" /\ step = "check" /\ UNCHANGED faults
      BY <1>1, <2>2, <2>3 DEF Check
    <3>2. faults > 0
      BY <1>1, <3>1 DEF IInv, FaultsOK
    <3> QED BY <1>1, <3>1, <3>2
  <2>4. CASE Rotate
    <3>1. mig = "unstarted" /\ UNCHANGED faults
      BY <1>1, <2>2, <2>4 DEF Rotate
    <3>2. faults > 0
      BY <1>1, <3>1 DEF IInv, FaultsOK
    <3> QED BY <1>1, <3>1, <3>2
  <2>5. JoinMigration \/ Check \/ Rotate
    <3>1. main' = main \/ ~ Flush \/ Check \/ Rotate
      BY <1>1, <2>2 DEF Flush, Close, Forget, Rename, StartMigration
    <3>2. main' = main \/ ~ Worker
      BY <1>1
      DEF Worker, Disconnected, Reconnected, Update, Create, Append,
          AppendRaises, Raises, IInv, LockOK
    <3>3. main' = main \/ ~ Main \/ JoinMigration \/ main' # "done"
      BY DEF Main, Wake, MainFlushes, CloseWriter, End
    <3>4. main' = main \/ ~ (Failures \/ Migration \/ Age \/ Signal)
      BY <2>0
      DEF Failures, CheckFails, CloseFails, StartFails, RenameFails,
          CreateFails, AppendFails, MigrationFails,
          Crash, Migration, ChoosePath, Move, Copy, Unlink, Age, Signal
    <3>5. main' = main \/ main' # "done" \/ ~ (Interrupt \/ Restart)
      BY <1>1, <2>0 DEF Interrupt, Restart, IInv, LockOK
    <3>6. main' = main \/ ~ (\E event \in {"data", "disconnect"} : Callback(event))
      BY DEF Callback
    <3> QED BY <1>1, <3>1, <3>2, <3>3, <3>4, <3>5, <3>6 DEF Next
  <2> QED BY <2>1, <2>3, <2>4, <2>5
<1>2. ASSUME IInv, [Next]_vars
      PROVE  [main # "done" /\ main' = "done" /\ faults' = 0
                => F' = "none" /\ scratch' = NoFile /\ stage2' = NoFile]_vars
  BY <1>1, <1>2
<1> QED BY <1>2, InvariantHolds, PTL DEF Spec, ExitIsComplete

=============================================================================
