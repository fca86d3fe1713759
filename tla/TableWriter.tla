----------------------------- MODULE TableWriter -----------------------------
(***************************************************************************)
(* The archiving client (h5tablewriter.py).  Updates of one table are       *)
(* appended to a scratch file; a file that is old or large enough is closed *)
(* and renamed to the second stage, from where a thread of its own moves it *)
(* to its final place.                                                      *)
(*                                                                         *)
(* Threads:                                                                 *)
(*   - main: waits for a quarter of the period or a signal and flushes; on  *)
(*     SIGINT, or an exception, it closes the TableWriter;                  *)
(*   - worker: the PVA worker, in _update;                                  *)
(*   - mig: the migration thread.                                           *)
(* main and the worker work with TableWriter.lock held: holder says which,  *)
(* and step where it is in flush() or after it.  The migration thread takes *)
(* no lock.                                                                 *)
(*                                                                         *)
(* Faults: the process is killed and started again at any moment, a call on *)
(* the file system fails, SIGINT interrupts main while it holds the lock.   *)
(* A file is the set of the rows that have been flushed to it; what a crash *)
(* does to rows that have not, and to the HDF5 format, is not modelled.     *)
(***************************************************************************)
EXTENDS Naturals

CONSTANTS
  Name,      \* final paths that the template may yield
  NoFile,    \* there is no such file
  MaxRows,   \* bound: rows saved
  MaxFaults  \* bound: faults

Row == 1 .. MaxRows

ASSUME WriterAssumption ==
  /\ Name # {}
  /\ \A f \in SUBSET Row : f # NoFile
  /\ NoFile \notin Name
  /\ MaxRows \in Nat
  /\ MaxFaults \in Nat \ {0}

File == (SUBSET Row) \cup {NoFile}

VARIABLES
  (* files *)
  scratch,     \* ftemp
  stage2,      \* ftemp + '.tmp'
  archive,     \* the final paths
  (* the TableWriter *)
  F,           \* self.F: "none", "open", "bare" for an open file of which
               \* self.G is None, "closed" for a closed one
  old,         \* the open file is older than temp_period
  initial,     \* the next update is the first of a connection
  subscribed,  \* the subscription is open
  (* the threads *)
  main, worker, holder, step,
  opening,     \* the flush under way is the one in open()
  mig,         \* self._migrate and where that thread is; "unstarted" if
               \* start() failed
  dest,        \* finalpath
  (* the process and what it is told *)
  up,
  poked,       \* a signal has written to the pipe of SigWake
  (* history and bounds *)
  rows,        \* rows flushed to some file
  lost,        \* rows given up with an error in the log
  faults

files == <<scratch, stage2, archive>>
writer == <<F, old, initial, subscribed>>
threads == <<main, worker, holder, step, opening>>
migration == <<mig, dest>>
history == <<rows, lost>>

vars == <<files, writer, threads, migration, up, poked, history, faults>>

Init ==
  /\ F = "none" /\ old = FALSE
  /\ initial = TRUE /\ subscribed = TRUE
  /\ main = "wait" /\ worker = "idle" /\ holder = "none"
  /\ step = "none" /\ opening = FALSE
  /\ mig = "none" /\ dest = NoFile
  /\ up = TRUE /\ poked = FALSE
  /\ scratch = NoFile /\ stage2 = NoFile
  /\ archive = [n \in Name |-> NoFile]
  /\ rows = 0 /\ lost = {}
  /\ faults = 0

Content(f) == IF f = NoFile THEN {} ELSE f

Fault == faults < MaxFaults /\ faults' = faults + 1

Take(thread) ==
  /\ up
  /\ holder = "none"
  /\ holder' = thread

At(s) == up /\ step = s

MigrationAlive == mig \in {"begin", "move", "copy", "unlink"}

Opened == F \in {"open", "bare"}

-----------------------------------------------------------------------------
(* How flush() ends *)

Leave == holder' = "none" /\ step' = "none" /\ opening' = FALSE

(* It returns: open() goes on to create a file, close() to join the         *)
(* migration; the others are done and release the lock.                     *)
Returns ==
  \/ /\ opening
     /\ step' = "create"
     /\ UNCHANGED <<main, worker, holder, opening, subscribed>>
  \/ /\ ~ opening /\ holder = "worker"
     /\ Leave
     /\ worker' = "idle"
     /\ UNCHANGED <<main, subscribed>>
  \/ /\ holder = "main" /\ main # "exit"
     /\ Leave
     /\ main' = "wait"
     /\ UNCHANGED <<worker, subscribed>>
  \/ /\ holder = "main" /\ main = "exit"
     /\ step' = "join"
     /\ UNCHANGED <<main, worker, holder, opening, subscribed>>

(* An exception releases the lock.  In the worker p4p logs it, and may      *)
(* close the subscription; in main it leads to __exit__ and close(), or     *)
(* out of them.                                                             *)
Raises ==
  /\ Leave
  /\ \/ /\ holder = "worker"
        /\ worker' = "idle"
        /\ subscribed' \in {subscribed, FALSE}
        /\ UNCHANGED main
     \/ /\ holder = "main"
        /\ main' = IF main = "exit" THEN "done" ELSE "exit"
        /\ UNCHANGED <<worker, subscribed>>

-----------------------------------------------------------------------------
(* flush() *)

(* close() forces the flush. *)
Forced == holder = "main" /\ main = "exit"

(* A seeded fault: only the size of the file counts.                        *)
MaySkipUnlessLarge == ~ Forced

(* not force and age < temp_period; the size may be below the limit or not. *)
MaySkip == ~ Forced /\ ~ old

(* The open file is flushed and tested for age and size.  It is an error if *)
(* it was closed already.                                                   *)
Check ==
  /\ At("check")
  /\ \/ /\ Opened /\ MaySkip
        /\ Returns
     \/ /\ Opened
        /\ step' = "close"
        /\ UNCHANGED <<main, worker, holder, opening, subscribed>>
     \/ /\ F = "none"
        /\ step' = "rotate"
        /\ UNCHANGED <<main, worker, holder, opening, subscribed>>
     \/ /\ F = "closed"
        /\ Raises
  /\ UNCHANGED <<files, F, old, initial, migration, up, poked, history, faults>>

(* self.F.flush() or os.stat() fails. *)
CheckFails ==
  /\ At("check")
  /\ Opened
  /\ Fault
  /\ Raises
  /\ UNCHANGED <<files, F, old, initial, migration, up, poked, history>>

(* A seeded fault: the file is renamed while it is open.                    *)
CloseLater ==
  /\ At("close")
  /\ step' = "rotate"
  /\ UNCHANGED <<files, writer, main, worker, holder, opening, migration, up,
                 poked, history, faults>>

(* self.F.close() *)
Close ==
  /\ At("close")
  /\ F' = "closed"
  /\ step' = "forget"
  /\ UNCHANGED <<files, old, initial, subscribed, main, worker, holder, opening,
                 migration, up, poked, history, faults>>

(* It fails, and the file is closed or not. *)
CloseFails ==
  /\ At("close")
  /\ Fault
  /\ F' \in {F, "closed"}
  /\ Raises
  /\ UNCHANGED <<files, old, initial, migration, up, poked, history>>

(* self.F, self.G = None, None *)
Forget ==
  /\ At("forget")
  /\ F' = "none"
  /\ step' = "rotate"
  /\ UNCHANGED <<files, old, initial, subscribed, main, worker, holder, opening,
                 migration, up, poked, history, faults>>

(* A seeded fault: the migration under way is not waited for.               *)
Unjoined == TRUE

(* self._migrate.join() *)
Joined == ~ MigrationAlive

(* A scratch file, which is there unless this process has not written any,  *)
(* is rotated, once the migration before has ended.  A thread that was not  *)
(* started cannot be joined.                                                *)
Rotate ==
  /\ At("rotate")
  /\ \/ /\ scratch = NoFile
        /\ Returns
        /\ UNCHANGED migration
     \/ /\ scratch # NoFile /\ mig = "unstarted"
        /\ Raises
        /\ UNCHANGED migration
     \/ /\ scratch # NoFile /\ mig # "unstarted"
        /\ Joined
        /\ mig' = "none"
        /\ step' = "rename"
        /\ UNCHANGED <<subscribed, main, worker, holder, opening, dest>>
  /\ UNCHANGED <<files, F, old, initial, up, poked, history, faults>>

(* os.rename(self.ftemp, stage2), over debris with an error in the log.     *)
Rename ==
  /\ At("rename")
  /\ stage2' = scratch
  /\ scratch' = NoFile
  /\ lost' = lost \cup Content(stage2)
  /\ step' = "start"
  /\ UNCHANGED <<archive, writer, main, worker, holder, opening, migration, up,
                 poked, rows, faults>>

RenameFails ==
  /\ At("rename")
  /\ Fault
  /\ Raises
  /\ UNCHANGED <<files, F, old, initial, migration, up, poked, history>>

StartMigration ==
  /\ At("start")
  /\ mig' = "begin"
  /\ Returns
  /\ UNCHANGED <<files, F, old, initial, dest, up, poked, history, faults>>

(* The thread is assigned but does not start. *)
StartFails ==
  /\ At("start")
  /\ Fault
  /\ mig' = "unstarted"
  /\ Raises
  /\ UNCHANGED <<files, F, old, initial, dest, up, poked, history>>

Flush ==
  Check \/ Close \/ Forget \/ Rotate \/ Rename \/ StartMigration

-----------------------------------------------------------------------------
(* The PVA worker: _update() *)

(* A callback begins; it may come to the lock after close() has.            *)
Callback(event) ==
  /\ up
  /\ subscribed
  /\ worker = "idle"
  /\ rows < MaxRows
  /\ worker' = event
  /\ UNCHANGED <<files, writer, main, holder, step, opening, migration, up,
                 poked, history, faults>>

Disconnected ==
  /\ worker = "disconnect"
  /\ Take("worker")
  /\ initial' = TRUE
  /\ step' = "check"
  /\ UNCHANGED <<files, F, old, subscribed, main, worker, opening, migration, up,
                 poked, history, faults>>

(* The first update of a connection is ignored. *)
Reconnected ==
  /\ worker = "data"
  /\ up /\ holder = "none"
  /\ initial
  /\ initial' = FALSE
  /\ worker' = "idle"
  /\ UNCHANGED <<files, F, old, subscribed, main, holder, step, opening,
                 migration, up, poked, history, faults>>

(* Other updates are appended, to a new file if none is open. *)
Update ==
  /\ worker = "data"
  /\ ~ initial
  /\ Take("worker")
  /\ opening' = (F = "none")
  /\ step' = IF F = "none" THEN "check" ELSE "append"
  /\ UNCHANGED <<files, writer, main, worker, migration, up, poked, history,
                 faults>>

(* The end of open(): the file must not exist. *)
Create ==
  /\ At("create")
  /\ scratch = NoFile
  /\ scratch' = {}
  /\ F' = "open"
  /\ old' = FALSE
  /\ opening' = FALSE
  /\ step' = "append"
  /\ UNCHANGED <<stage2, archive, initial, subscribed, main, worker, holder,
                 migration, up, poked, history, faults>>

(* It fails, before or after the file is made, or at last for its group,    *)
(* when self.F is set already.                                              *)
CreateFails ==
  /\ At("create")
  /\ Fault
  /\ \/ /\ scratch' \in {scratch, {}}
        /\ UNCHANGED <<F, old>>
     \/ /\ scratch = NoFile /\ scratch' = {}
        /\ F' = "bare"
        /\ old' = FALSE
  /\ Raises
  /\ UNCHANGED <<stage2, archive, initial, migration, up, poked, history>>

(* The columns are appended and flushed to disk: a row is saved. *)
Append ==
  /\ At("append")
  /\ F = "open"
  /\ rows' = rows + 1
  /\ scratch' = scratch \cup {rows'}
  /\ step' = "check"
  /\ UNCHANGED <<stage2, archive, writer, main, worker, holder, opening,
                 migration, up, poked, lost, faults>>

(* self.F may be a file that a flush() which was interrupted or failed has  *)
(* closed, or one without its group: it is not None, so that no other is    *)
(* opened, and to append to it raises.                                      *)
AppendRaises ==
  /\ At("append")
  /\ F \in {"closed", "bare"}
  /\ Raises
  /\ UNCHANGED <<files, F, old, initial, migration, up, poked, history, faults>>

AppendFails ==
  /\ At("append")
  /\ Fault
  /\ Raises
  /\ UNCHANGED <<files, F, old, initial, migration, up, poked, history>>

Worker ==
  \/ Disconnected \/ Reconnected \/ Update \/ Create
  \/ Append \/ AppendRaises

-----------------------------------------------------------------------------
(* The main thread *)

(* S.wait() returns: the time is over, or the pipe has been written to.  If  *)
(* the signal interrupts the call, the byte stays for the next one.          *)
Wake ==
  /\ up
  /\ main = "wait"
  /\ main' = IF poked THEN "signal" ELSE "timeout"
  /\ poked' \in {poked, FALSE}
  /\ UNCHANGED <<files, writer, worker, holder, step, opening, migration, up,
                 history, faults>>

(* with W.lock: W.flush() *)
MainFlushes ==
  /\ main \in {"timeout", "signal"}
  /\ Take("main")
  /\ step' = "check"
  /\ UNCHANGED <<files, writer, main, worker, opening, migration, up, poked,
                 history, faults>>

(* A seeded fault: the last flush may be skipped like any other.            *)
CloseWriterUnforced ==
  /\ main = "exit"
  /\ Take("main")
  /\ subscribed' = FALSE
  /\ step' = IF F = "open" THEN "join" ELSE "check"
  /\ UNCHANGED <<files, F, old, initial, main, worker, opening, migration, up,
                 poked, history, faults>>

(* __exit__: close() closes the subscription and forces a flush... *)
CloseWriter ==
  /\ main = "exit"
  /\ Take("main")
  /\ subscribed' = FALSE
  /\ step' = "check"
  /\ UNCHANGED <<files, F, old, initial, main, worker, opening, migration, up,
                 poked, history, faults>>

(* ... and waits for the last migration, unless that was not started, which *)
(* raises out of close().                                                   *)
JoinMigration ==
  /\ At("join")
  /\ ~ MigrationAlive
  /\ Leave
  /\ main' = "done"
  /\ UNCHANGED <<files, writer, worker, migration, up, poked, history, faults>>

(* The interpreter ends when the migration thread has.  For a callback that  *)
(* came late for the lock this is like being killed.                        *)
End ==
  /\ up
  /\ main = "done"
  /\ ~ MigrationAlive
  /\ up' = FALSE
  /\ faults' = IF holder = "worker" /\ faults = 0 THEN 1 ELSE faults
  /\ UNCHANGED <<files, writer, threads, migration, poked, history>>

Main == Wake \/ MainFlushes \/ CloseWriter \/ JoinMigration \/ End

-----------------------------------------------------------------------------
(* The migration thread: _movefile() *)

MigrationAt(pc) == up /\ mig = pc

(* A seeded fault: a file in the way is only found by the move.             *)
ChoosePathUnseen(n) ==
  /\ MigrationAt("begin")
  /\ dest' = n
  /\ mig' = "move"
  /\ UNCHANGED <<files, writer, threads, up, poked, history, faults>>

(* A seeded fault: the path is not kept if a file is in the way.            *)
ChoosePathForgotten(n) ==
  /\ MigrationAt("begin")
  /\ dest' = IF archive[n] = NoFile THEN n ELSE NoFile
  /\ archive' = [archive EXCEPT ![n] = NoFile]
  /\ lost' = lost \cup Content(archive[n])
  /\ mig' = "move"
  /\ UNCHANGED <<scratch, stage2, writer, threads, up, poked, rows, faults>>

(* The final path depends on the time of the last change; a file that is    *)
(* there already is removed, with an error in the log.                      *)
ChoosePath(n) ==
  /\ MigrationAt("begin")
  /\ dest' = n
  /\ archive' = [archive EXCEPT ![n] = NoFile]
  /\ lost' = lost \cup Content(archive[n])
  /\ mig' = "move"
  /\ UNCHANGED <<scratch, stage2, writer, threads, up, poked, rows, faults>>

(* shutil.move: one rename within a file system, or a copy, which appears   *)
(* at the final path before it is complete, and the removal of the source.  *)
Move ==
  /\ MigrationAt("move")
  /\ \/ /\ archive' = [archive EXCEPT ![dest] = stage2]
        /\ stage2' = NoFile
        /\ mig' = "over"
     \/ /\ archive' = [archive EXCEPT ![dest] = {}]
        /\ mig' = "copy"
        /\ UNCHANGED stage2
  /\ UNCHANGED <<scratch, writer, threads, dest, up, poked, history, faults>>

Copy ==
  /\ MigrationAt("copy")
  /\ archive' = [archive EXCEPT ![dest] = stage2]
  /\ mig' = "unlink"
  /\ UNCHANGED <<scratch, stage2, writer, threads, dest, up, poked, history,
                 faults>>

Unlink ==
  /\ MigrationAt("unlink")
  /\ stage2' = NoFile
  /\ mig' = "over"
  /\ UNCHANGED <<scratch, archive, writer, threads, dest, up, poked, history,
                 faults>>

(* Any exception is logged and ends the thread. *)
MigrationFails ==
  /\ up
  /\ MigrationAlive
  /\ Fault
  /\ mig' = "over"
  /\ UNCHANGED <<files, writer, threads, dest, up, poked, history>>

Migration == (\E n \in Name : ChoosePath(n)) \/ Move \/ Copy \/ Unlink

-----------------------------------------------------------------------------
(* The environment *)

(* age >= self.temp_period *)
Age ==
  /\ up
  /\ Opened /\ ~ old
  /\ old' = TRUE
  /\ UNCHANGED <<files, F, initial, subscribed, threads, migration, up, poked,
                 history, faults>>

(* SIGHUP or SIGUSR1. *)
Signal ==
  /\ up
  /\ poked' = TRUE
  /\ UNCHANGED <<files, writer, threads, migration, up, history, faults>>

(* SIGINT, while main holds the lock or not. *)
Interrupt ==
  /\ up
  /\ main # "done"
  /\ \/ /\ holder = "main"
        /\ Fault
        /\ Raises
     \/ /\ holder # "main"
        /\ main' = IF main = "exit" THEN "done" ELSE "exit"
        /\ UNCHANGED <<worker, holder, step, opening, subscribed>>
        /\ IF main = "exit" THEN Fault ELSE UNCHANGED faults
  /\ UNCHANGED <<files, F, old, initial, migration, up, poked, history>>

(* The process is killed. *)
Crash ==
  /\ up
  /\ Fault
  /\ up' = FALSE
  /\ UNCHANGED <<files, writer, threads, migration, poked, history>>

(* It starts again, with the files as they are. *)
Restart ==
  /\ ~ up
  /\ F' = "none" /\ old' = FALSE
  /\ initial' = TRUE /\ subscribed' = TRUE
  /\ main' = "wait" /\ worker' = "idle" /\ holder' = "none"
  /\ step' = "none" /\ opening' = FALSE
  /\ mig' = "none" /\ dest' = NoFile
  /\ up' = TRUE /\ poked' = FALSE
  /\ UNCHANGED <<files, history, faults>>

Failures ==
  \/ CheckFails \/ CloseFails \/ RenameFails \/ StartFails
  \/ CreateFails \/ AppendFails \/ MigrationFails \/ Crash

Next ==
  \/ Flush \/ Worker \/ Main \/ Migration
  \/ \E event \in {"data", "disconnect"} : Callback(event)
  \/ Age \/ Signal \/ Interrupt \/ Failures \/ Restart

Spec == Init /\ [][Next]_vars

(* The threads run and time passes.  The lock is free again and again,      *)
(* since updates take less time than there is between them, and main gets   *)
(* it then (the strong fairness).  Nobody has to send updates or signals,   *)
(* nothing has to fail, and nobody has to start the process again.          *)
Fairness ==
  /\ WF_vars(holder = "main" /\ Flush)
  /\ WF_vars(Main)
  /\ SF_vars(MainFlushes \/ CloseWriter)
  /\ WF_vars(holder = "worker" /\ Flush)
  /\ WF_vars(Worker)
  /\ WF_vars(Migration)
  /\ WF_vars(Age)

FairSpec == Spec /\ Fairness

-----------------------------------------------------------------------------
(* Every variable stays in its range; a migration knows where to. *)
TypeOK ==
  /\ scratch \in File /\ stage2 \in File
  /\ archive \in [Name -> File]
  /\ F \in {"none", "open", "bare", "closed"}
  /\ old \in BOOLEAN /\ initial \in BOOLEAN /\ subscribed \in BOOLEAN
  /\ opening \in BOOLEAN /\ up \in BOOLEAN /\ poked \in BOOLEAN
  /\ main \in {"wait", "timeout", "signal", "exit", "done"}
  /\ worker \in {"idle", "data", "disconnect"}
  /\ holder \in {"none", "main", "worker"}
  /\ step \in {"none", "check", "close", "forget", "rotate", "rename", "start",
               "create", "append", "join"}
  /\ mig \in {"none", "unstarted", "begin", "move", "copy", "unlink", "over"}
  /\ dest \in Name \cup {NoFile}
  /\ mig \in {"move", "copy", "unlink"} => dest \in Name
  /\ rows \in 0 .. MaxRows
  /\ lost \subseteq Row
  /\ faults \in 0 .. MaxFaults

Archived == UNION {Content(archive[n]) : n \in Name}

Saved == Content(scratch) \cup Content(stage2) \cup Archived

(* No row that was flushed to disk is ever lost without an error in the     *)
(* log, through rotation and migration, their failures, and a crash between *)
(* any two steps of them.                                                   *)
NothingLostSilently == 1 .. rows \subseteq Saved \cup lost

(* The second stage belongs to one migration at a time: a file is renamed   *)
(* there when no migration is alive, a migration finds its file there, and  *)
(* without faults no debris is ever overwritten.                            *)
StageIsOwned ==
  /\ step \in {"rename", "start"} => ~ MigrationAlive
  /\ up /\ MigrationAlive => stage2 # NoFile
  /\ step = "rename" /\ stage2 # NoFile => faults > 0

(* The writer never appends to a file that it has renamed or that another   *)
(* step of it may rename.                                                   *)
WriterOwnsScratch ==
  up /\ Opened => scratch # NoFile /\ step \notin {"rotate", "rename", "start"}

(* When close() returns without a fault, nothing is left behind, neither    *)
(* rows nor a file half moved.  (A callback that was late for the lock may  *)
(* open another file after that.)                                           *)
ExitIsComplete ==
  [][main # "done" /\ main' = "done" /\ faults' = 0
       => F' = "none" /\ scratch' = NoFile /\ stage2' = NoFile]_vars

(* Rows do not stay in the scratch file: it is rotated in the end, by main  *)
(* if no update does it, also a file that an earlier process left.          *)
ScratchIsRotated ==
  \A r \in Row : r \in Content(scratch) ~> r \notin Content(scratch) \/ ~ up

-----------------------------------------------------------------------------
(* What a comment says of the code, which does not hold. *)

(* h5tablewriter.py:57: "Switches to a new file on SIGHUP or SIGUSR1."      *)
SwitchesOnSignal ==
  [][up /\ main = "signal" /\ main' = "wait" => scratch' = NoFile]_vars
=============================================================================
