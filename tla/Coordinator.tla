----------------------------- MODULE Coordinator -----------------------------
(***************************************************************************)
(* The Coordinator of one table (coordinator.cpp): its handler thread       *)
(* builds the Collector and the PVAReceiver for the list of names last put, *)
(* while PVA clients put lists, the IOC shell reports on the Collector or   *)
(* resets its statistics (hooks.cpp), and the IOC shuts down.               *)
(*                                                                         *)
(* Threads and their program counters:                                      *)
(*   - hpc: the handler thread.  It owns Coordinator::mutex but for the     *)
(*     blocks in an UnGuard, so a step that needs the mutex is one that     *)
(*     looks at it: CheckSignals and Relock.  A step is one critical section or one *)
(*     call on the collector, the receiver or the provider;                 *)
(*   - put: one PVA worker per client, in onPut;                            *)
(*   - shell: the thread of the IOC shell, which reports and which exits;   *)
(*   - dpc: the destructor, run by whichever thread lets go of the          *)
(*     Coordinator last (destroyer).                                        *)
(* What onPut posts back to the SIG PV, and the statistics in the status    *)
(* table, are left out (Subscription has the counters).                     *)
(***************************************************************************)
EXTENDS Naturals, Sequences

CONSTANTS
  Name,       \* names of PVs
  Invalid,    \* those for which the constructor of PVAReceiver throws
  MaxNames,   \* bound: names in a list
  Client,     \* PVA clients
  None,       \* no list
  MaxPuts,    \* bound: lists put
  MaxReports  \* bound: reports and resets from the IOC shell

ASSUME CoordinatorAssumption ==
  /\ Invalid \subseteq Name
  /\ MaxNames \in Nat
  /\ MaxPuts \in Nat
  /\ MaxReports \in Nat

List == UNION {[1 .. k -> Name] : k \in 0 .. MaxNames}

ASSUME NamesAssumption ==
  /\ None \notin List
  /\ {"none", "shell"} \cap Client = {}

VARIABLES
  (* the Coordinator, under its mutex *)
  signals, signals_changed,
  running,         \* cleared by the destructor
  wakeup,          \* the event the handler waits on
  (* the handler's own *)
  hpc,
  changing, expire, temp, pvnames,
  collector,       \* "none", "live", or "closing" while it is deleted
  pvs,             \* the list the collector was made for
  table_receiver,  \* there is a receiver
  labels,          \* value.PV of the status table
  (* the StaticProvider *)
  tbl,             \* it has the TBL PV
  (* other threads *)
  put,             \* [Client -> the state of its onPut]
  shell,
  destroyer, dpc,
  (* the program *)
  created,         \* bsasHook has made the Coordinator
  inMap,           \* coordinators holds it
  context,         \* the CA context and the provider exist
  fate,            \* "ok", or what the program died of
  puts, reports

sharedVars == <<signals, signals_changed, running, wakeup>>
localVars == <<changing, expire, temp, pvnames, labels>>
objects == <<collector, pvs, table_receiver, tbl>>
threads == <<put, shell, destroyer, dpc>>
program == <<created, inMap, context, fate>>
bounds == <<puts, reports>>

vars == <<sharedVars, hpc, localVars, objects, threads, program, bounds>>

Idle == [pc |-> "idle", list |-> <<>>]

Init ==
  /\ signals = <<>> /\ signals_changed = TRUE
  /\ running = TRUE
  /\ wakeup = FALSE
  /\ hpc = "enter"
  /\ changing = FALSE /\ expire = FALSE
  /\ temp = <<>> /\ pvnames = <<>>
  /\ collector = "none" /\ pvs = <<>>
  /\ table_receiver = FALSE
  /\ labels = <<>>
  /\ tbl = FALSE
  /\ put = [c \in Client |-> Idle]
  /\ shell = "idle"
  /\ destroyer = "none" /\ dpc = "none"
  /\ created = FALSE /\ inMap = TRUE /\ context = TRUE
  /\ fate = "ok"
  /\ puts = 0 /\ reports = 0

Alive == fate = "ok"

(* Only the shell keeps the mutex from one step to another. *)
MutexFree == shell \notin {"locked", "counted"}

-----------------------------------------------------------------------------
(* The handler thread *)

HandlerAt(pc) ==
  /\ Alive
  /\ created
  /\ hpc = pc

(* The head of while(running), up to the first UnGuard: the list to build   *)
(* for is copied, or, after a timeout, the list for the status table.       *)
CheckSignals ==
  /\ HandlerAt("enter")
  /\ MutexFree
  /\ \/ /\ ~ running
        /\ hpc' = "exited"
        /\ UNCHANGED <<signals_changed, changing, temp, pvnames>>
     \/ /\ running
        /\ signals_changed
        /\ signals_changed' = FALSE
        /\ changing' = TRUE
        /\ temp' = signals
        /\ hpc' = "remove"
        /\ UNCHANGED pvnames
     \/ /\ running
        /\ ~ signals_changed
        /\ changing' = FALSE
        /\ pvnames' = signals
        /\ hpc' = IF expire THEN "status" ELSE "wait"
        /\ UNCHANGED <<signals_changed, temp>>
  /\ UNCHANGED <<signals, running, wakeup, expire, labels, objects, threads,
                 program, bounds>>

(* A seeded fault: the old table stays while the new one is built.          *)
TableKept ==
  /\ HandlerAt("remove")
  /\ hpc' = "dropReceiver"
  /\ UNCHANGED <<sharedVars, localVars, objects, threads, program, bounds>>

(* A seeded fault: the collector goes before its receiver.                  *)
RemoveTableAndCollector ==
  /\ HandlerAt("remove")
  /\ tbl' = FALSE
  /\ collector' = IF collector = "live" THEN "closing" ELSE collector
  /\ hpc' = "dropReceiver"
  /\ UNCHANGED <<sharedVars, localVars, pvs, table_receiver, threads, program,
                 bounds>>

(* provider.remove(prefix+"TBL") *)
RemoveTable ==
  /\ HandlerAt("remove")
  /\ tbl' = FALSE
  /\ hpc' = "dropReceiver"
  /\ UNCHANGED <<sharedVars, localVars, collector, pvs, table_receiver, threads,
                 program, bounds>>

(* The receiver leaves its collector, which has to be there still. *)
DropReceiver ==
  /\ HandlerAt("dropReceiver")
  /\ table_receiver' = FALSE
  /\ hpc' = IF collector = "none" THEN "newCollector" ELSE "dropCollector"
  /\ UNCHANGED <<sharedVars, localVars, collector, pvs, tbl, threads, program,
                 bounds>>

(* collector.reset(): the destructor joins the processor and closes the     *)
(* channels; the pointer is cleared when it has returned.                   *)
DropCollector ==
  /\ HandlerAt("dropCollector")
  /\ \/ /\ collector = "live"
        /\ collector' = "closing"
        /\ UNCHANGED hpc
     \/ /\ collector = "closing"
        /\ collector' = "none"
        /\ hpc' = "newCollector"
  /\ UNCHANGED <<sharedVars, localVars, pvs, table_receiver, tbl, threads,
                 program, bounds>>

(* The constructor makes the channels.  If libca refuses one (an empty name,*)
(* no memory) its exception leaves the constructor with the pointer still   *)
(* clear, and ends the thread and the program; or never gets out of it, if  *)
(* the processor runs already.  The model stops in both cases.              *)
NewCollector ==
  /\ HandlerAt("newCollector")
  /\ \/ /\ collector' = "live"
        /\ pvs' = temp
        /\ hpc' = "newReceiver"
        /\ UNCHANGED fate
     \/ /\ temp # <<>>
        /\ fate' = "exception"
        /\ UNCHANGED <<collector, pvs, hpc>>
  /\ UNCHANGED <<sharedVars, localVars, table_receiver, tbl, threads, created,
                 inMap, context, bounds>>

Rejected(list) == \E i \in 1 .. Len(list) : list[i] \in Invalid

(* An exception of the constructor ends the thread, and the program.        *)
NewReceiver ==
  /\ HandlerAt("newReceiver")
  /\ \/ /\ ~ Rejected(pvs)
        /\ table_receiver' = TRUE
        /\ hpc' = "add"
        /\ UNCHANGED fate
     \/ /\ Rejected(pvs)
        /\ fate' = "exception"
        /\ UNCHANGED <<table_receiver, hpc>>
  /\ UNCHANGED <<sharedVars, localVars, collector, pvs, tbl, threads, created,
                 inMap, context, bounds>>

AddTable ==
  /\ HandlerAt("add")
  /\ tbl' = TRUE
  /\ hpc' = "relock"
  /\ UNCHANGED <<sharedVars, localVars, collector, pvs, table_receiver, threads,
                 program, bounds>>

(* A seeded fault: the change is marked as done when the table is built.    *)
RelockForgets ==
  /\ HandlerAt("relock")
  /\ MutexFree
  /\ pvnames' = signals
  /\ signals_changed' = FALSE
  /\ hpc' = "status"
  /\ UNCHANGED <<signals, running, wakeup, changing, expire, temp, labels,
                 objects, threads, program, bounds>>

(* The end of the first UnGuard, up to the second: the list is read again.  *)
Relock ==
  /\ HandlerAt("relock")
  /\ MutexFree
  /\ pvnames' = signals
  /\ hpc' = "status"
  /\ UNCHANGED <<sharedVars, changing, expire, temp, labels, objects, threads,
                 program, bounds>>

(* The status table is filled from the collector and posted, after          *)
(* assert(pvnames.size()==collector->pvs.size()).                           *)
Status ==
  /\ HandlerAt("status")
  /\ \/ /\ Len(pvnames) = Len(pvs)
        /\ labels' = IF changing THEN pvnames ELSE labels
        /\ hpc' = "wait"
        /\ UNCHANGED fate
     \/ /\ Len(pvnames) # Len(pvs)
        /\ fate' = "assertion"
        /\ UNCHANGED <<labels, hpc>>
  /\ UNCHANGED <<sharedVars, changing, expire, temp, pvnames, objects, threads,
                 created, inMap, context, bounds>>

(* expire = !wakeup.wait(1.0) *)
Wait ==
  /\ HandlerAt("wait")
  /\ expire' = ~ wakeup
  /\ wakeup' = FALSE
  /\ hpc' = "enter"
  /\ UNCHANGED <<signals, signals_changed, running, changing, temp, pvnames,
                 labels, objects, threads, program, bounds>>

Handler ==
  \/ CheckSignals \/ RemoveTable \/ DropReceiver \/ DropCollector \/ NewCollector
  \/ NewReceiver \/ AddTable \/ Relock \/ Status \/ Wait

-----------------------------------------------------------------------------
(* SignalsHandler::onPut *)

At(c, pc) == [put EXCEPT ![c] = [pc |-> pc, list |-> put[c].list]]

PutAt(c, pc) ==
  /\ Alive
  /\ put[c].pc = pc

(* References to the Coordinator besides the one of the map. *)
Holders == {c \in Client : put[c].pc \in {"store", "signal", "post"}}

(* A put arrives while the provider serves clients. *)
PutBegins(c, list) ==
  /\ PutAt(c, "idle")
  /\ created
  /\ shell \notin {"clear", "destroy", "context", "done"}
  /\ puts < MaxPuts
  /\ puts' = puts + 1
  /\ put' = [put EXCEPT ![c] = [pc |-> "lookup", list |-> list]]
  /\ UNCHANGED <<sharedVars, hpc, localVars, objects, shell, destroyer, dpc,
                 program, reports>>

(* coordinator.lock(), which fails once the last reference is gone. *)
PutLooksUp(c) ==
  /\ PutAt(c, "lookup")
  /\ put' = IF inMap \/ Holders # {} THEN At(c, "store") ELSE [put EXCEPT ![c] = Idle]
  /\ UNCHANGED <<sharedVars, hpc, localVars, objects, shell, destroyer, dpc,
                 program, bounds>>

(* A seeded fault: only a list of another length counts as a change.        *)
PutStoresSilently(c) ==
  /\ PutAt(c, "store")
  /\ MutexFree
  /\ signals' = put[c].list
  /\ signals_changed' = (signals_changed \/ Len(signals) # Len(put[c].list))
  /\ put' = At(c, "signal")
  /\ UNCHANGED <<running, wakeup, hpc, localVars, objects, shell, destroyer, dpc,
                 program, bounds>>

(* A seeded fault: the handler is not woken.                                *)
PutStoresUnsignalled(c) ==
  /\ PutAt(c, "store")
  /\ MutexFree
  /\ signals' = put[c].list
  /\ signals_changed' = TRUE
  /\ put' = At(c, "post")
  /\ UNCHANGED <<running, wakeup, hpc, localVars, objects, shell, destroyer, dpc,
                 program, bounds>>

(* The list replaces the one before, whether or not that was served yet.    *)
PutStores(c) ==
  /\ PutAt(c, "store")
  /\ MutexFree
  /\ signals' = put[c].list
  /\ signals_changed' = TRUE
  /\ put' = At(c, "signal")
  /\ UNCHANGED <<running, wakeup, hpc, localVars, objects, shell, destroyer, dpc,
                 program, bounds>>

PutSignals(c) ==
  /\ PutAt(c, "signal")
  /\ wakeup' = TRUE
  /\ put' = At(c, "post")
  /\ UNCHANGED <<signals, signals_changed, running, hpc, localVars, objects,
                 shell, destroyer, dpc, program, bounds>>

(* The end of onPut lets go of the Coordinator: if that was the last        *)
(* reference, the destructor runs here.                                     *)
PutReturns(c) ==
  /\ PutAt(c, "post")
  /\ \/ /\ inMap \/ Holders # {c}
        /\ put' = [put EXCEPT ![c] = Idle]
        /\ UNCHANGED <<destroyer, dpc>>
     \/ /\ ~ inMap /\ Holders = {c}
        /\ put' = At(c, "destroy")
        /\ destroyer' = c
        /\ dpc' = "stop"
  /\ UNCHANGED <<sharedVars, hpc, localVars, objects, shell, program, bounds>>

OnPut(c) == PutLooksUp(c) \/ PutStores(c) \/ PutSignals(c) \/ PutReturns(c)

-----------------------------------------------------------------------------
(* The IOC shell: bsas_report and bsasStatReset *)

(* The mutex is taken, through a null pointer before iocInit is done.       *)
ReportBegins ==
  /\ Alive
  /\ shell = "idle"
  /\ reports < MaxReports
  /\ reports' = reports + 1
  /\ shell' = IF created THEN "locked" ELSE shell
  /\ fate' = IF created THEN fate ELSE "null"
  /\ UNCHANGED <<sharedVars, hpc, localVars, objects, put, destroyer, dpc,
                 created, inMap, context, puts>>

(* The counters of the collector, then its PVs, are visited, with the mutex *)
(* held.  What a collector that is being deleted, or none, yields is        *)
(* undefined: none stops the program, the other may.                        *)
ReportReads ==
  /\ Alive
  /\ shell \in {"locked", "counted"}
  /\ \/ /\ collector # "none"
        /\ shell' = IF shell = "locked" THEN "counted" ELSE "idle"
        /\ UNCHANGED fate
     \/ /\ collector # "live"
        /\ fate' = "dangling"
        /\ UNCHANGED shell
  /\ UNCHANGED <<sharedVars, hpc, localVars, objects, put, destroyer, dpc,
                 created, inMap, context, bounds>>

-----------------------------------------------------------------------------
(* The life of the program *)

ProgramStep == Alive /\ UNCHANGED <<hpc, localVars, put, bounds>>

(* bsasHook, after iocRunning. *)
Create ==
  /\ ProgramStep
  /\ ~ created
  /\ shell = "idle"
  /\ created' = TRUE
  /\ UNCHANGED <<sharedVars, objects, shell, destroyer, dpc, inMap, context,
                 fate>>

(* bsasExit: provider->close(true)... *)
ExitCloses ==
  /\ ProgramStep
  /\ created
  /\ shell = "idle"
  /\ tbl' = FALSE
  /\ shell' = "clear"
  /\ UNCHANGED <<sharedVars, collector, pvs, table_receiver, destroyer, dpc,
                 program>>

(* ... coordinators.clear(), which destroys the Coordinator unless some     *)
(* onPut still holds it...                                                  *)
ExitClears ==
  /\ ProgramStep
  /\ shell = "clear"
  /\ inMap' = FALSE
  /\ IF Holders = {}
     THEN /\ shell' = "destroy"
          /\ destroyer' = "shell"
          /\ dpc' = "stop"
     ELSE /\ shell' = "context"
          /\ UNCHANGED <<destroyer, dpc>>
  /\ UNCHANGED <<sharedVars, objects, created, context, fate>>

(* ... and the provider and the CA context go. *)
ExitDropsContext ==
  /\ ProgramStep
  /\ shell = "context"
  /\ context' = FALSE
  /\ shell' = "done"
  /\ UNCHANGED <<sharedVars, objects, destroyer, dpc, created, inMap, fate>>

(* A seeded fault: the handler is woken, but not told to stop.              *)
DestroyStopsNot ==
  /\ ProgramStep
  /\ dpc = "stop"
  /\ MutexFree
  /\ dpc' = "signal"
  /\ UNCHANGED <<sharedVars, objects, shell, destroyer, program>>

(* ~Coordinator *)
DestroyStops ==
  /\ ProgramStep
  /\ dpc = "stop"
  /\ MutexFree
  /\ running' = FALSE
  /\ dpc' = "signal"
  /\ UNCHANGED <<signals, signals_changed, wakeup, objects, shell, destroyer,
                 program>>

DestroySignals ==
  /\ ProgramStep
  /\ dpc = "signal"
  /\ wakeup' = TRUE
  /\ dpc' = "join"
  /\ UNCHANGED <<signals, signals_changed, running, objects, shell, destroyer,
                 program>>

(* A seeded fault: the handler is not waited for.                           *)
DestroyUnjoined ==
  /\ ProgramStep
  /\ dpc = "join"
  /\ table_receiver' = FALSE
  /\ dpc' = "collector"
  /\ UNCHANGED <<sharedVars, collector, pvs, tbl, shell, destroyer, program>>

(* handler.exitWait(); table_receiver.reset() *)
DestroyJoins ==
  /\ ProgramStep
  /\ dpc = "join"
  /\ hpc = "exited"
  /\ table_receiver' = FALSE
  /\ dpc' = "collector"
  /\ UNCHANGED <<sharedVars, collector, pvs, tbl, shell, destroyer, program>>

(* collector.reset(), and the thread that let go goes on. *)
DestroyEnds ==
  /\ Alive
  /\ dpc = "collector"
  /\ collector' = "none"
  /\ dpc' = "gone"
  /\ shell' = IF destroyer = "shell" THEN "context" ELSE shell
  /\ put' = [c \in Client |-> IF destroyer = c THEN Idle ELSE put[c]]
  /\ UNCHANGED <<sharedVars, hpc, localVars, pvs, table_receiver, tbl, destroyer,
                 program, bounds>>

(* The context or the provider is used after it went: the program may stop. *)
UseFreed ==
  /\ ProgramStep
  /\ ~ context
  /\ dpc # "gone"
  /\ fate' = "dangling"
  /\ UNCHANGED <<sharedVars, objects, shell, destroyer, dpc, created, inMap,
                 context>>

Exit == ExitClears \/ ExitDropsContext

Destroy == DestroyStops \/ DestroySignals \/ DestroyJoins \/ DestroyEnds

(* The program is over, or has nothing more to do. *)
Over == fate # "ok" \/ (shell = "done" /\ dpc = "gone")

Terminated == Over /\ UNCHANGED vars

Next ==
  \/ Handler
  \/ \E c \in Client : OnPut(c) \/ \E list \in List : PutBegins(c, list)
  \/ ReportBegins \/ ReportReads
  \/ Create \/ ExitCloses \/ Exit \/ Destroy \/ UseFreed
  \/ Terminated

Spec == Init /\ [][Next]_vars

(* The IOC is started; then every thread that is not waiting for something  *)
(* runs.  wakeup.wait(1.0) returns.  Nobody has to put, report or exit.     *)
Fairness ==
  /\ WF_vars(Create)
  /\ WF_vars(Handler)
  /\ \A c \in Client : WF_vars(OnPut(c))
  /\ WF_vars(ReportReads)
  /\ WF_vars(Exit)
  /\ WF_vars(Destroy)

FairSpec == Spec /\ Fairness

-----------------------------------------------------------------------------
PutState ==
  [pc : {"idle", "lookup", "store", "signal", "post", "destroy"}, list : List]

(* Every variable stays in its range. *)
TypeOK ==
  /\ signals \in List /\ temp \in List /\ pvnames \in List
  /\ pvs \in List /\ labels \in List
  /\ {signals_changed, running, wakeup, changing, expire} \subseteq BOOLEAN
  /\ {table_receiver, tbl, created, inMap, context} \subseteq BOOLEAN
  /\ hpc \in {"enter", "remove", "dropReceiver", "dropCollector",
              "newCollector", "newReceiver", "add", "relock", "status", "wait",
              "exited"}
  /\ collector \in {"none", "live", "closing"}
  /\ put \in [Client -> PutState]
  /\ shell \in {"idle", "locked", "counted", "clear", "destroy", "context",
                "done"}
  /\ destroyer \in Client \cup {"none", "shell"}
  /\ dpc \in {"none", "stop", "signal", "join", "collector", "gone"}
  /\ fate \in {"ok", "null", "exception", "assertion", "dangling"}
  /\ puts \in 0 .. MaxPuts
  /\ reports \in 0 .. MaxReports

Waiting == hpc = "wait"

(* A list that was put wakes the handler: if it waits with a change to do,  *)
(* its event is set, or the onPut that left the change has still to set it. *)
NoLostPut ==
  Waiting /\ signals_changed
    => wakeup \/ \E c \in Client : put[c].pc = "signal"

(* When the handler waits with no change to do, the list last put, the      *)
(* collector and the names in the status table agree, although the list is  *)
(* read three times, in two critical sections, with a rebuild in between.   *)
SettledAgrees ==
  Waiting /\ ~ signals_changed =>
    /\ pvs = signals /\ labels = signals
    /\ collector = "live" /\ table_receiver

(* A receiver never outlives its collector, to which it says good-bye.      *)
ReceiverHasCollector == table_receiver => collector = "live"

(* As long as the Coordinator runs, the table that clients find is that of  *)
(* a receiver which is fed.                                                 *)
TableIsFed == tbl /\ running => table_receiver

(* A destroyed Coordinator leaves neither threads nor objects behind.       *)
NothingLeft ==
  dpc = "gone" => /\ hpc = "exited"
                  /\ ~ table_receiver /\ collector = "none"

Service == INSTANCE TableService WITH
  Empty <- <<>>,
  requested <- signals,
  building <- IF hpc \in {"remove", "dropReceiver", "dropCollector",
                          "newCollector", "newReceiver", "add"}
              THEN temp ELSE None,
  served <- IF tbl THEN pvs ELSE None,
  up <- fate = "ok" /\ shell \notin {"clear", "destroy", "context", "done"}

(* The threads together keep the promise of TableService: in the end the    *)
(* table of the list last put is served, unless the IOC exits or fails.     *)
ServesLastList == Service!Spec

(* Shutting down ends, whoever has to destroy the Coordinator.              *)
ShutdownEnds == shell = "clear" ~> Over

-----------------------------------------------------------------------------
(* What an assertion says of the code, which does not hold. *)

(* coordinator.cpp:141: assert(pvnames.size()==collector->pvs.size()).      *)
SizesAgree == fate # "assertion"
=============================================================================
