------------------------------- MODULE Hooks -------------------------------
(***************************************************************************)
(* The life of the program (hooks.cpp): tables are added before iocInit,    *)
(* get their Coordinators when the IOC runs, have lists set from files, and *)
(* are destroyed before the CA context when it exits.                       *)
(*                                                                         *)
(* Threads: the shell, which runs the commands and the hooks; a PVA worker  *)
(* per put; the handler of each table, which has the name of the table.     *)
(* Coordinator has what happens inside of one; here it is reduced to the    *)
(* list, the handler that rebuilds the channels for it, and the destructor, *)
(* which the thread runs that lets go of the Coordinator last.  The         *)
(* channels of a table are opened and closed in one scope of Attach.        *)
(*                                                                         *)
(* The IOC is started once: a pause and a resume are not modelled.          *)
(***************************************************************************)
EXTENDS CAContext, Naturals, Sequences

CONSTANTS
  Table,
  Worker,
  Name,      \* names of PVs
  File,      \* contents of files: sequences of lines
  Other,     \* the lists that other clients put
  MaxPuts,   \* bound: puts of other clients
  MaxSets    \* bound: files read

(* A line, once blanks are trimmed: a name, nothing or a comment.           *)
Line == Name \cup {"blank", "comment"}

ASSUME HooksAssumption ==
  /\ Thread = {"shell"} \cup Worker \cup Table
  /\ {"shell", "none"} \cap (Worker \cup Table) = {}
  /\ Worker \cap Table = {}
  /\ {"blank", "comment"} \cap Name = {}
  /\ File \subseteq Seq(Line)
  /\ Other \subseteq Seq(Name)
  /\ MaxPuts \in Nat /\ MaxSets \in Nat

VARIABLES
  (* hooks.cpp *)
  locked,
  coordinators,  \* the tables in the map
  serving,       \* the provider takes puts
  (* one Coordinator per table *)
  stage,         \* [Table -> "none", "bare", "live", "stopped", "clearing", "gone"]
  destroyer,     \* [Table -> the thread in its destructor]
  handler,       \* [Table -> the handler thread]
  signals, signals_changed,
  channels,      \* [Table -> it has channels]
  (* threads *)
  shell,         \* program counter, with what bsasTableSet works on
  put,           \* [Worker -> its onPut]
  (* the program *)
  fate,          \* "ok", or what the program died of
  puts, sets     \* bounds

mapVars == <<locked, coordinators, serving>>
tableVars == <<stage, destroyer, handler, signals, signals_changed, channels>>
bounds == <<puts, sets>>

vars == <<caVars, mapVars, tableVars, shell, put, fate, bounds>>

AtShell(pc) == [pc |-> pc, table |-> "none", rest |-> <<>>, read |-> <<>>]

Idle == [pc |-> "idle", table |-> "none", list |-> <<>>, awaited |-> FALSE]

(* bsasRegistrar has made the provider, and registered commands and hooks.  *)
Init ==
  /\ CAInit
  /\ locked = FALSE /\ coordinators = {} /\ serving = TRUE
  /\ stage = [t \in Table |-> "none"]
  /\ destroyer = [t \in Table |-> "none"]
  /\ handler = [t \in Table |-> "none"]
  /\ signals = [t \in Table |-> <<>>]
  /\ signals_changed = [t \in Table |-> TRUE]
  /\ channels = [t \in Table |-> FALSE]
  /\ shell = AtShell("idle")
  /\ put = [w \in Worker |-> Idle]
  /\ fate = "ok"
  /\ puts = 0 /\ sets = 0

Alive == fate = "ok"

ShellAt(pc) == Alive /\ shell.pc = pc

(* References to the Coordinator of t besides the one of the map. *)
Holders(t) ==
  {w \in Worker : put[w].table = t /\ put[w].pc \in {"store", "post"}}

-----------------------------------------------------------------------------
(* Start *)

TableAdd(t) ==
  /\ ShellAt("idle")
  /\ ~ locked
  /\ coordinators' = coordinators \cup {t}
  /\ UNCHANGED <<caVars, locked, serving, tableVars, shell, put, fate, bounds>>

(* bsasHook: initHookAtBeginning *)
AtBeginning ==
  /\ ShellAt("idle")
  /\ ~ locked
  /\ locked' = TRUE
  /\ shell' = AtShell("init")
  /\ UNCHANGED <<caVars, coordinators, serving, tableVars, put, fate, bounds>>

(* bsasHook: initHookAfterIocRunning.  First the CA context is made... *)
AfterRunning ==
  /\ ShellAt("init")
  /\ ConstructBegins("shell")
  /\ shell' = AtShell("context")
  /\ UNCHANGED <<mapVars, tableVars, put, fate, bounds>>

(* ... whose exceptions nobody catches... *)
HookContext ==
  /\ ShellAt("context")
  /\ \/ /\ In("shell", "none")
        /\ shell' = AtShell("tables")
        /\ UNCHANGED fate
     \/ /\ In("shell", "raised")
        /\ fate' = "exception"
        /\ UNCHANGED shell
  /\ UNCHANGED <<caVars, mapVars, tableVars, put, bounds>>

(* ... then, for each table, the Coordinator, with its handler and its SIG  *)
(* PV in the provider...                                                    *)
NewCoordinator(t) ==
  /\ ShellAt("tables")
  /\ t \in coordinators
  /\ "bare" \notin {stage[u] : u \in Table}
  /\ stage[t] = "none"
  /\ stage' = [stage EXCEPT ![t] = "bare"]
  /\ handler' = [handler EXCEPT ![t] = "idle"]
  /\ UNCHANGED <<caVars, mapVars, destroyer, signals, signals_changed, channels,
                 shell, put, fate, bounds>>

(* ... and its SignalsHandler. *)
SetHandler(t) ==
  /\ ShellAt("tables")
  /\ stage[t] = "bare"
  /\ stage' = [stage EXCEPT ![t] = "live"]
  /\ UNCHANGED <<caVars, mapVars, destroyer, handler, signals, signals_changed,
                 channels, shell, put, fate, bounds>>

Running == \A t \in coordinators : stage[t] = "live"

HookEnds ==
  /\ ShellAt("tables")
  /\ Running
  /\ shell' = AtShell("idle")
  /\ UNCHANGED <<caVars, mapVars, tableVars, put, fate, bounds>>

(* bsas_report or bsasStatReset, when a table has no Coordinator yet: the   *)
(* null pointer is tested after it was used.                                *)
ReportEarly ==
  /\ ShellAt("idle")
  /\ \E t \in coordinators : stage[t] = "none"
  /\ fate' = "null"
  /\ UNCHANGED <<caVars, mapVars, tableVars, shell, put, bounds>>

Start ==
  \/ AtBeginning \/ AfterRunning \/ HookContext \/ HookEnds \/ ReportEarly
  \/ \E t \in Table : TableAdd(t) \/ NewCoordinator(t) \/ SetHandler(t)

-----------------------------------------------------------------------------
(* bsasTableSet *)

ShellOnly == UNCHANGED <<caVars, mapVars, tableVars, fate, puts>>

OpenFile(t, file) ==
  /\ ShellAt("idle")
  /\ sets < MaxSets
  /\ sets' = sets + 1
  /\ shell' = [pc |-> "reading", table |-> t, rest |-> file, read |-> <<>>]
  /\ UNCHANGED put
  /\ ShellOnly

(* One round of the loop: blank lines and comments are passed over. *)
ReadLine ==
  /\ ShellAt("reading")
  /\ shell.rest # <<>>
  /\ LET line == Head(shell.rest) IN
       shell' = [shell EXCEPT
                   !.rest = Tail(@),
                   !.read = IF line \in Name THEN Append(@, line) ELSE @]
  /\ UNCHANGED <<put, sets>>
  /\ ShellOnly

(* A seeded fault: the loop's end is taken for the end of the file.         *)
ReadErrorUnseen ==
  /\ ShellAt("reading")
  /\ shell' = [shell EXCEPT !.pc = "put"]
  /\ UNCHANGED <<put, sets>>
  /\ ShellOnly

(* The loop ends before the end of the file: an error is printed. *)
ReadError ==
  /\ ShellAt("reading")
  /\ shell' = AtShell("failed")
  /\ UNCHANGED <<put, sets>>
  /\ ShellOnly

ReadEnds ==
  /\ ShellAt("reading")
  /\ shell.rest = <<>>
  /\ shell' = [shell EXCEPT !.pc = "put"]
  /\ UNCHANGED <<put, sets>>
  /\ ShellOnly

HasHandler(t) == stage[t] \in {"live", "stopped", "clearing", "gone"}

(* The put goes to a worker, if the provider has the PV. *)
PutFile(w) ==
  /\ ShellAt("put")
  /\ serving
  /\ put[w].pc = "idle"
  /\ HasHandler(shell.table)
  /\ put' = [put EXCEPT ![w] = [pc |-> "lookup", table |-> shell.table,
                                list |-> shell.read, awaited |-> TRUE]]
  /\ shell' = [shell EXCEPT !.pc = "exec"]
  /\ UNCHANGED sets
  /\ ShellOnly

(* There is no answer in time, and an exception is printed. *)
PutTimesOut ==
  /\ ShellAt("put") \/ ShellAt("exec")
  /\ shell' = AtShell("failed")
  /\ put' = [w \in Worker |-> [put[w] EXCEPT !.awaited = FALSE]]
  /\ UNCHANGED sets
  /\ ShellOnly

(* The command is over, after a message or without. *)
TableSetReturns ==
  /\ ShellAt("failed") \/ ShellAt("finished")
  /\ shell' = AtShell("idle")
  /\ UNCHANGED <<put, sets>>
  /\ ShellOnly

TableSet ==
  \/ \E t \in Table, file \in File : OpenFile(t, file)
  \/ ReadLine \/ ReadError \/ ReadEnds
  \/ \E w \in Worker : PutFile(w)
  \/ PutTimesOut \/ TableSetReturns

-----------------------------------------------------------------------------
(* SignalsHandler::onPut, on a worker *)

PutAt(w, pc) == Alive /\ put[w].pc = pc

ClientPuts(w, t, list) ==
  /\ PutAt(w, "idle")
  /\ serving
  /\ HasHandler(t)
  /\ puts < MaxPuts
  /\ puts' = puts + 1
  /\ put' = [put EXCEPT ![w] = [pc |-> "lookup", table |-> t, list |-> list,
                                awaited |-> FALSE]]
  /\ UNCHANGED <<caVars, mapVars, tableVars, shell, fate, sets>>

(* op.complete() *)
Complete(w) ==
  /\ put' = [put EXCEPT ![w] = Idle]
  /\ shell' = IF put[w].awaited THEN [shell EXCEPT !.pc = "finished"] ELSE shell

(* coordinator.lock(); the put is completed also without a Coordinator.     *)
PutLooksUp(w) ==
  /\ PutAt(w, "lookup")
  /\ LET t == put[w].table IN
       \/ /\ t \in coordinators \/ Holders(t) # {}
          /\ put' = [put EXCEPT ![w].pc = "store"]
          /\ UNCHANGED shell
       \/ /\ t \notin coordinators /\ Holders(t) = {}
          /\ Complete(w)
  /\ UNCHANGED <<caVars, mapVars, tableVars, fate, bounds>>

PutStores(w) ==
  /\ PutAt(w, "store")
  /\ signals' = [signals EXCEPT ![put[w].table] = put[w].list]
  /\ signals_changed' = [signals_changed EXCEPT ![put[w].table] = TRUE]
  /\ put' = [put EXCEPT ![w].pc = "post"]
  /\ UNCHANGED <<caVars, mapVars, stage, destroyer, handler, channels, shell,
                 fate, bounds>>

(* Destructing begins: the handler is told to stop. *)
StopBy(t, thread) ==
  /\ stage' = [stage EXCEPT ![t] = "stopped"]
  /\ destroyer' = [destroyer EXCEPT ![t] = thread]

(* The end of onPut; who lets go last destroys the Coordinator. *)
PutReturns(w) ==
  /\ PutAt(w, "post")
  /\ LET t == put[w].table IN
       \/ /\ t \in coordinators \/ Holders(t) # {w}
          /\ Complete(w)
          /\ UNCHANGED <<stage, destroyer>>
       \/ /\ t \notin coordinators /\ Holders(t) = {w}
          /\ StopBy(t, w)
          /\ put' = [put EXCEPT ![w].pc = "destroy"]
          /\ UNCHANGED shell
  /\ UNCHANGED <<caVars, mapVars, handler, signals, signals_changed, channels,
                 fate, bounds>>

OnPut(w) == PutLooksUp(w) \/ PutStores(w) \/ PutReturns(w)

-----------------------------------------------------------------------------
(* The handler thread of table t *)

HandlerAt(t, pc) == Alive /\ handler[t] = pc

Rebuild(t) ==
  /\ HandlerAt(t, "idle")
  /\ stage[t] # "stopped"
  /\ signals_changed[t]
  /\ signals_changed' = [signals_changed EXCEPT ![t] = FALSE]
  /\ handler' = [handler EXCEPT ![t] = IF channels[t] THEN "close" ELSE "open"]
  /\ UNCHANGED <<caVars, mapVars, stage, destroyer, signals, channels, shell,
                 put, fate, bounds>>

EnterScope(t) ==
  /\ HandlerAt(t, "close") \/ HandlerAt(t, "open")
  /\ AttachBegins(t)
  /\ handler' = [handler EXCEPT ![t] = IF @ = "close" THEN "closing"
                                       ELSE "opening"]
  /\ UNCHANGED <<mapVars, stage, destroyer, signals, signals_changed, channels,
                 shell, put, fate, bounds>>

(* Channels are cleared, or created for the list. *)
LeaveScope(t) ==
  /\ HandlerAt(t, "closing") \/ HandlerAt(t, "opening")
  /\ AttachEnds(t)
  /\ channels' = [channels EXCEPT ![t] = handler[t] = "opening"]
  /\ handler' = [handler EXCEPT ![t] = IF @ = "closing" THEN "open" ELSE "idle"]
  /\ UNCHANGED <<mapVars, stage, destroyer, signals, signals_changed, shell, put,
                 fate, bounds>>

HandlerExits(t) ==
  /\ HandlerAt(t, "idle")
  /\ stage[t] = "stopped"
  /\ handler' = [handler EXCEPT ![t] = "exited"]
  /\ UNCHANGED <<caVars, mapVars, stage, destroyer, signals, signals_changed,
                 channels, shell, put, fate, bounds>>

Handler(t) == Rebuild(t) \/ EnterScope(t) \/ LeaveScope(t) \/ HandlerExits(t)

-----------------------------------------------------------------------------
(* Exit *)

(* bsasExit: provider->close(true)... *)
ExitCloses ==
  /\ ShellAt("idle")
  /\ locked
  /\ serving' = FALSE
  /\ shell' = AtShell("clear")
  /\ UNCHANGED <<caVars, locked, coordinators, tableVars, put, fate, bounds>>

(* ... coordinators.clear(), one by one; what an onPut holds stays... *)
ExitClears(t) ==
  /\ ShellAt("clear")
  /\ t \in coordinators
  /\ coordinators' = coordinators \ {t}
  /\ IF Holders(t) = {}
     THEN StopBy(t, "shell") /\ shell' = AtShell("destroy")
     ELSE UNCHANGED <<stage, destroyer, shell>>
  /\ UNCHANGED <<caVars, locked, serving, handler, signals, signals_changed,
                 channels, put, fate, bounds>>

(* A seeded fault: the CA context goes before the tables.                   *)
ExitDropsContextFirst ==
  /\ ShellAt("clear")
  /\ DestroyBegins("shell")
  /\ shell' = AtShell("drop")
  /\ UNCHANGED <<mapVars, tableVars, put, fate, bounds>>

(* ... provider.reset() and cactxt.reset(). *)
ExitDropsContext ==
  /\ ShellAt("clear")
  /\ coordinators = {}
  /\ DestroyBegins("shell")
  /\ shell' = AtShell("drop")
  /\ UNCHANGED <<mapVars, tableVars, put, fate, bounds>>

ExitEnds ==
  /\ ShellAt("drop")
  /\ In("shell", "none")
  /\ shell' = AtShell("done")
  /\ UNCHANGED <<caVars, mapVars, tableVars, put, fate, bounds>>

(* ~Coordinator, after handler.exitWait(): the channels are closed in the   *)
(* thread that destroys it...                                               *)
DestroyClears(t) ==
  /\ Alive
  /\ stage[t] = "stopped"
  /\ handler[t] = "exited"
  /\ AttachBegins(destroyer[t])
  /\ stage' = [stage EXCEPT ![t] = "clearing"]
  /\ UNCHANGED <<mapVars, destroyer, handler, signals, signals_changed, channels,
                 shell, put, fate, bounds>>

(* ... which then goes on. *)
DestroyEnds(t) ==
  /\ Alive
  /\ stage[t] = "clearing"
  /\ AttachEnds(destroyer[t])
  /\ channels' = [channels EXCEPT ![t] = FALSE]
  /\ stage' = [stage EXCEPT ![t] = "gone"]
  /\ \/ /\ destroyer[t] = "shell"
        /\ shell' = AtShell("clear")
        /\ UNCHANGED put
     \/ /\ destroyer[t] \in Worker
        /\ Complete(destroyer[t])
  /\ UNCHANGED <<mapVars, destroyer, handler, signals, signals_changed, fate,
                 bounds>>

(* A Coordinator uses the context or the provider that went before it.      *)
UseFreed ==
  /\ ShellAt("drop") \/ ShellAt("done")
  /\ \E t \in Table : stage[t] \notin {"none", "gone"}
  /\ fate' = "dangling"
  /\ UNCHANGED <<caVars, mapVars, tableVars, shell, put, bounds>>

Exit ==
  \/ ExitCloses \/ ExitDropsContext \/ ExitEnds \/ UseFreed
  \/ \E t \in Table : ExitClears(t) \/ DestroyClears(t) \/ DestroyEnds(t)

Over == ~ Alive \/ shell.pc = "done"

Terminated == Over /\ UNCHANGED vars

Next ==
  \/ Alive /\ CAStep /\ UNCHANGED <<mapVars, tableVars, shell, put, fate, bounds>>
  \/ Start \/ TableSet \/ Exit
  \/ \E w \in Worker :
       OnPut(w) \/ \E t \in Table, list \in Other : ClientPuts(w, t, list)
  \/ \E t \in Table : Handler(t)
  \/ Terminated

Spec == Init /\ [][Next]_vars

-----------------------------------------------------------------------------
(* A worker has kept the Coordinator of t beyond coordinators.clear(). *)
Late(t) ==
  \E w \in Worker : put[w].table = t /\ put[w].pc \in {"store", "post", "destroy"}

(* bsasExit enforces its order except for a Coordinator that an onPut holds *)
(* (that case does happen): the CA context goes when every other one has    *)
(* joined its handler and closed its channels, and no other can make the    *)
(* program use a context that is gone.                                      *)
ExitInOrder ==
  /\ locked /\ ~ serving /\ "bsas" \notin alive =>
       \A t \in Table :
         Late(t) \/ /\ stage[t] \in {"none", "gone"}
                    /\ handler[t] \in {"none", "exited"}
                    /\ ~ channels[t]
  /\ fate = "dangling" => \E t \in Table : Late(t)

(* A list says what the first n lines of a file say: the names in them, in  *)
(* their order.                                                             *)
ListsFirst(n, file, list) ==
  \E line \in [1 .. Len(list) -> 1 .. n] :
    /\ \A i, j \in 1 .. Len(list) : i < j => line[i] < line[j]
    /\ \A i \in 1 .. Len(list) : list[i] = file[line[i]]
    /\ {line[i] : i \in 1 .. Len(list)} = {k \in 1 .. n : file[k] \in Name}

Lists(file, list) == ListsFirst(Len(file), file, list)

(* bsasTableSet takes a file as a whole or not at all, although it is read  *)
(* line by line and reading may fail: a table never has a part of a list.   *)
TakenWhole ==
  \A t \in Table :
    \/ signals[t] \in {<<>>} \cup Other
    \/ \E file \in File : Lists(file, signals[t])

(* A command that ends without a message has changed the list, unless       *)
(* another client, or an earlier command that timed out, did so since.      *)
TakesEffect ==
  shell.pc = "finished" =>
    \/ signals[shell.table] = shell.read
    \/ puts > 0 /\ signals[shell.table] \in Other
    \/ sets > 1 /\ \E file \in File : Lists(file, signals[shell.table])

(* The list of a table is changed by whole lists, and by each command that  *)
(* says so.                                                                 *)
FileIsTakenWhole == TakenWhole /\ TakesEffect
=============================================================================
