----------------------------- MODULE HooksProofs -----------------------------
(***************************************************************************)
(* Proofs about Hooks: what a thread is attached to, the order in which the *)
(* program exits, and the files that bsasTableSet reads.                    *)
(***************************************************************************)
EXTENDS Hooks, TLAPS

USE DEF libVars, caVars, mapVars, tableVars, bounds, vars,
        ShellAt, PutAt, HandlerAt

-----------------------------------------------------------------------------
(* The inductive invariant                                                  *)

Constructing == {"create", "handler", "restore", "catch", "raised"}

TypeOK ==
  /\ attached \in [Thread -> Foreign \cup {"none", "bsas"}]
  /\ priority \in [Thread -> {"own", "medium"}]
  /\ alive \subseteq Foreign \cup {"bsas"}
  /\ context \in {"none", "bsas"}
  /\ call \in [Thread -> [pc : Constructing \cup
                                 {"none", "destroy", "reattach", "scope"},
                          previous : Foreign \cup {"none"},
                          prio : {"own"}]]
  /\ home \in [Thread -> Foreign \cup {"none"}]
  /\ locked \in BOOLEAN
  /\ coordinators \subseteq Table
  /\ serving \in BOOLEAN
  /\ stage \in [Table -> {"none", "bare", "live", "stopped", "clearing",
                          "gone"}]
  /\ destroyer \in [Table -> Worker \cup {"shell", "none"}]
  /\ handler \in [Table -> {"none", "idle", "close", "open", "closing",
                            "opening", "exited"}]
  /\ signals \in [Table -> Seq(Name)]
  /\ signals_changed \in [Table -> BOOLEAN]
  /\ channels \in [Table -> BOOLEAN]
  /\ shell \in [pc : {"idle", "init", "context", "tables", "reading", "put",
                      "exec", "failed", "finished", "clear", "destroy",
                      "drop", "done"},
                table : Table \cup {"none"},
                rest : Seq(Line),
                read : Seq(Name)]
  /\ put \in [Worker -> [pc : {"idle", "lookup", "store", "post", "destroy"},
                         table : Table \cup {"none"},
                         list : Seq(Name),
                         awaited : BOOLEAN]]
  /\ fate \in {"ok", "exception", "null", "dangling"}
  /\ puts \in Nat /\ sets \in Nat

(* What a thread in an operation on the context is attached to.             *)
CallOK(t) ==
  /\ In(t, "none") \/ In(t, "raised") =>
       attached[t] = home[t] /\ priority[t] = "own"
  /\ ~ In(t, "none") => call[t].previous = home[t]
  /\ In(t, "create") \/ In(t, "restore") => attached[t] = "none"
  /\ In(t, "handler") => attached[t] = "bsas"
  /\ In(t, "destroy") => attached[t] = "bsas" /\ priority[t] = "own"
  /\ In(t, "reattach") => attached[t] = "none" /\ priority[t] = "own"
  /\ In(t, "scope") => priority[t] = "own"

CallsOK == Foreign \subseteq alive /\ \A t \in Thread : CallOK(t)

(* Only the shell makes and destroys the context, each at one place, and    *)
(* the context is there in between.                                         *)
ContextOK ==
  /\ \A t \in Thread \ {"shell"} : In(t, "none") \/ In(t, "scope")
  /\ call["shell"].pc \in Constructing => shell.pc = "context"
  /\ In("shell", "destroy") \/ In("shell", "reattach") => shell.pc = "drop"
  /\ shell.pc = "context" =>
       /\ call["shell"].pc \in Constructing \cup {"none"}
       /\ call["shell"].pc \in {"handler", "restore", "none"} =>
            "bsas" \in alive
  /\ \/ "bsas" \in alive
     \/ ~ locked
     \/ shell.pc \in {"init", "context", "drop", "done"}

Exiting == shell.pc \in {"clear", "destroy", "drop", "done"}

(* Where the shell is tells what has happened to the map.                   *)
ShellOK ==
  /\ serving <=> ~ Exiting
  /\ shell.pc \in {"init", "context", "tables"} \/ Exiting => locked
  /\ shell.pc \in {"drop", "done"} => coordinators = {}
  /\ shell.pc \in {"reading", "put", "exec", "finished"} =>
       shell.table \in Table

(* A Coordinator is in the map until it is held by puts only, and a put     *)
(* that holds one keeps it live.                                            *)
TableOK(t) ==
  /\ ~ locked => stage[t] = "none"
  /\ stage[t] = "bare" => shell.pc = "tables" /\ t \in coordinators
  /\ t \in coordinators => stage[t] \in {"none", "bare", "live"}
  /\ /\ t \in coordinators /\ locked
     /\ shell.pc \notin {"init", "context", "tables"}
     => stage[t] = "live"
  /\ serving /\ stage[t] # "none" => t \in coordinators
  /\ t \notin coordinators /\ stage[t] = "live" => Holders(t) # {}
  /\ Holders(t) # {} => stage[t] = "live"

(* The one destructor of a Coordinator runs in one thread, joins the        *)
(* handler, and then closes the channels.                                   *)
DestructorOK(t) ==
  /\ stage[t] \in {"stopped", "clearing"} =>
       \/ destroyer[t] = "shell" /\ shell.pc = "destroy"
       \/ /\ destroyer[t] \in Worker
          /\ put[destroyer[t]].pc = "destroy"
          /\ put[destroyer[t]].table = t
  /\ \A u \in Table :
       /\ {stage[t], stage[u]} \subseteq {"stopped", "clearing"}
       /\ destroyer[t] = "shell" /\ destroyer[u] = "shell"
       => t = u
  /\ stage[t] = "none" => handler[t] = "none" /\ ~ channels[t]
  /\ handler[t] = "none" => stage[t] = "none"
  /\ stage[t] \in {"clearing", "gone"} => handler[t] = "exited"
  /\ stage[t] = "gone" => ~ channels[t]

TablesOK == \A t \in Table : TableOK(t)

DestructorsOK == \A t \in Table : DestructorOK(t)

(* A put is for a table that has a handler, and the shell waits for one.    *)
PutsOK ==
  /\ \A w \in Worker :
       /\ put[w].pc # "idle" =>
            put[w].table \in Table /\ HasHandler(put[w].table)
       /\ put[w].awaited =>
            /\ shell.pc = "exec"
            /\ put[w].pc # "idle"
            /\ put[w].table = shell.table
            /\ put[w].list = shell.read
  /\ \A v, w \in Worker : put[v].awaited /\ put[w].awaited => v = w

FateOK == fate = "dangling" => \E t \in Table : Late(t)

(* What has been read of a file is what its first lines say.                *)
Reading(file, n) ==
  /\ n <= Len(file)
  /\ Len(shell.rest) = Len(file) - n
  /\ \A i \in 1 .. Len(shell.rest) : shell.rest[i] = file[n + i]
  /\ ListsFirst(n, file, shell.read)

OfFile(list) == \E file \in File : Lists(file, list)

ReadOK ==
  /\ shell.pc = "reading" => \E file \in File, n \in Nat : Reading(file, n)
  /\ shell.pc \in {"put", "exec", "finished"} => OfFile(shell.read)
  /\ shell.pc \in {"reading", "put", "exec", "failed", "finished"} => sets > 0

(* The list of another client, or of an earlier command that timed out.     *)
Foreigner(list) ==
  \/ puts > 0 /\ list \in Other
  \/ /\ sets > 0
     /\ OfFile(list)
     /\ shell.pc \in {"reading", "put", "exec", "finished"} => sets > 1

Effect(t, list) ==
  \/ signals[t] = list
  \/ puts > 0 /\ signals[t] \in Other
  \/ sets > 1 /\ OfFile(signals[t])

ListsOK ==
  /\ TakenWhole
  /\ \A w \in Worker :
       /\ put[w].pc # "idle" /\ ~ put[w].awaited => Foreigner(put[w].list)
       /\ put[w].pc \in {"post", "destroy"} /\ put[w].awaited =>
            Effect(put[w].table, put[w].list)
  /\ TakesEffect

IInv ==
  /\ TypeOK
  /\ CallsOK /\ ContextOK
  /\ ShellOK /\ TablesOK /\ DestructorsOK /\ PutsOK /\ FateOK
  /\ ReadOK /\ ListsOK

-----------------------------------------------------------------------------
(* The types, taken apart by who changes them *)

USE ContextAssumption, HooksAssumption

CATyped ==
  /\ attached \in [Thread -> Foreign \cup {"none", "bsas"}]
  /\ priority \in [Thread -> {"own", "medium"}]
  /\ alive \subseteq Foreign \cup {"bsas"}
  /\ context \in {"none", "bsas"}
  /\ call \in [Thread -> [pc : Constructing \cup
                                 {"none", "destroy", "reattach", "scope"},
                          previous : Foreign \cup {"none"},
                          prio : {"own"}]]
  /\ home \in [Thread -> Foreign \cup {"none"}]

MapTyped ==
  locked \in BOOLEAN /\ coordinators \subseteq Table /\ serving \in BOOLEAN

StageTyped ==
  stage \in [Table -> {"none", "bare", "live", "stopped", "clearing", "gone"}]

HandlerTyped ==
  /\ handler \in [Table -> {"none", "idle", "close", "open", "closing",
                            "opening", "exited"}]
  /\ channels \in [Table -> BOOLEAN]

DestroyerTyped == destroyer \in [Table -> Worker \cup {"shell", "none"}]

SignalsTyped ==
  /\ signals \in [Table -> Seq(Name)]
  /\ signals_changed \in [Table -> BOOLEAN]

ShellTyped ==
  shell \in [pc : {"idle", "init", "context", "tables", "reading", "put",
                   "exec", "failed", "finished", "clear", "destroy",
                   "drop", "done"},
             table : Table \cup {"none"},
             rest : Seq(Line),
             read : Seq(Name)]

PutTyped ==
  put \in [Worker -> [pc : {"idle", "lookup", "store", "post", "destroy"},
                      table : Table \cup {"none"},
                      list : Seq(Name),
                      awaited : BOOLEAN]]

FateTyped ==
  /\ fate \in {"ok", "exception", "null", "dangling"}
  /\ puts \in Nat /\ sets \in Nat

(* TypeOK, taken apart. *)
LEMMA TypeParts ==
  TypeOK <=> /\ CATyped /\ MapTyped
             /\ StageTyped /\ HandlerTyped /\ DestroyerTyped /\ SignalsTyped
             /\ ShellTyped /\ PutTyped /\ FateTyped
  BY DEF TypeOK, CATyped, MapTyped, StageTyped, HandlerTyped, DestroyerTyped,
         SignalsTyped, ShellTyped, PutTyped, FateTyped

-----------------------------------------------------------------------------
(* Operations on the CA context *)

(* The steps of thread t in an operation. *)
ConstructStep(t) ==
  \/ ConstructBegins(t) \/ ContextCreated(t) \/ HandlerAdded(t)
  \/ ConstructFails(t) \/ Caught(t) \/ Constructed(t)

DestroyStep(t) == DestroyBegins(t) \/ Destroyed(t) \/ Reattached(t)

ScopeStep(t) == AttachBegins(t) \/ AttachEnds(t)

(* What a step of one thread does to the variables of the others: nothing.  *)
LEMMA OthersKept ==
  ASSUME NEW t \in Thread, CATyped,
         ConstructStep(t) \/ DestroyStep(t) \/ ScopeStep(t)
  PROVE  /\ \A u \in Thread \ {t} :
              /\ call'[u] = call[u]
              /\ attached'[u] = attached[u]
              /\ priority'[u] = priority[u]
         /\ home' = home
<1>1. CASE ConstructStep(t)
  BY <1>1
  DEF ConstructStep, ConstructBegins, ContextCreated, HandlerAdded,
      ConstructFails, Caught, Constructed, SaveAndLeave, Goto, CATyped
<1>2. CASE DestroyStep(t) \/ ScopeStep(t)
  BY <1>2
  DEF DestroyStep, DestroyBegins, Destroyed, Reattached, ScopeStep,
      AttachBegins, AttachEnds, SaveAndLeave, Goto, CATyped
<1> QED BY <1>1, <1>2

(* Making, destroying and using the context, by any thread.                *)
LEMMA ConstructKeepsCalls ==
  ASSUME NEW t \in Thread, CATyped, CallsOK, ConstructStep(t)
  PROVE  CATyped' /\ CallsOK'
<1>1. CASE ConstructBegins(t)
  BY <1>1
  DEF ConstructBegins, SaveAndLeave, In, CATyped, CallsOK, CallOK, Constructing
<1>2. CASE ContextCreated(t)
  BY <1>2
  DEF ContextCreated, Goto, Attached, In, CATyped, CallsOK, CallOK, Constructing
<1>3. CASE HandlerAdded(t)
  BY <1>3 DEF HandlerAdded, Goto, In, CATyped, CallsOK, CallOK, Constructing
<1>4. CASE ConstructFails(t)
  BY <1>4 DEF ConstructFails, Goto, In, CATyped, CallsOK, CallOK, Constructing
<1>5. CASE Caught(t)
  BY <1>5 DEF Caught, Goto, In, CATyped, CallsOK, CallOK, Constructing
<1>6. CASE Constructed(t)
  BY <1>6
  DEF Constructed, Goto, Attached, In, CATyped, CallsOK, CallOK, Constructing
<1> QED BY <1>1, <1>2, <1>3, <1>4, <1>5, <1>6 DEF ConstructStep

LEMMA DestroyKeepsCalls ==
  ASSUME NEW t \in Thread, CATyped, CallsOK, DestroyStep(t)
  PROVE  CATyped' /\ CallsOK'
<1>1. CASE DestroyBegins(t)
  BY <1>1
  DEF DestroyBegins, SaveAndLeave, In, CATyped, CallsOK, CallOK, Constructing
<1>2. CASE Destroyed(t)
  BY <1>2 DEF Destroyed, Goto, In, CATyped, CallsOK, CallOK, Constructing
<1>3. CASE Reattached(t)
  BY <1>3
  DEF Reattached, Goto, Attached, In, CATyped, CallsOK, CallOK, Constructing
<1> QED BY <1>1, <1>2, <1>3 DEF DestroyStep

LEMMA ScopeKeepsCalls ==
  ASSUME NEW t \in Thread, CATyped, CallsOK, ScopeStep(t)
  PROVE  CATyped' /\ CallsOK'
<1>1. CASE AttachBegins(t)
  BY <1>1
  DEF AttachBegins, SaveAndLeave, In, CATyped, CallsOK, CallOK, Constructing
<1>2. CASE AttachEnds(t)
  BY <1>2 DEF AttachEnds, Goto, In, CATyped, CallsOK, CallOK, Constructing
<1> QED BY <1>1, <1>2 DEF ScopeStep

(* Who does these: only the hook makes the context, and only the exit       *)
(* destroys it.                                                             *)
LEMMA WhoUsesContext ==
  ASSUME DestructorsOK, Next
  PROVE  \/ CAStep \/ ConstructBegins("shell") \/ DestroyBegins("shell")
         \/ \E t \in Thread : ScopeStep(t)
         \/ UNCHANGED caVars
<1>1. Start => ConstructBegins("shell") \/ UNCHANGED caVars
  BY DEF Start, AtBeginning, AfterRunning, HookContext, HookEnds, ReportEarly,
         TableAdd, NewCoordinator, SetHandler
<1>2. TableSet => UNCHANGED caVars
  BY DEF TableSet, OpenFile, ReadLine, ReadError, ReadEnds, PutFile,
         PutTimesOut, TableSetReturns, ShellOnly
<1>3. ASSUME NEW w \in Worker,
             OnPut(w) \/ \E t \in Table, list \in Other : ClientPuts(w, t, list)
      PROVE  UNCHANGED caVars
  BY <1>3 DEF OnPut, PutLooksUp, PutStores, PutReturns, ClientPuts
<1>4. ASSUME NEW t \in Table, Handler(t)
      PROVE  ScopeStep(t) \/ UNCHANGED caVars
  BY <1>4 DEF Handler, Rebuild, EnterScope, LeaveScope, HandlerExits, ScopeStep
<1>5. ASSUME NEW t \in Table, DestroyClears(t) \/ DestroyEnds(t)
      PROVE  ScopeStep(destroyer[t]) /\ destroyer[t] \in Thread
  <2>1. stage[t] \in {"stopped", "clearing"}
    BY <1>5 DEF DestroyClears, DestroyEnds
  <2>2. destroyer[t] \in Thread
    BY <2>1 DEF DestructorsOK, DestructorOK
  <2> QED BY <1>5, <2>2 DEF DestroyClears, DestroyEnds, ScopeStep
<1>6. Exit => \/ DestroyBegins("shell") \/ UNCHANGED caVars
              \/ \E t \in Table : DestroyClears(t) \/ DestroyEnds(t)
  BY DEF Exit, ExitCloses, ExitClears, ExitDropsContext, ExitEnds, UseFreed
<1> QED BY <1>1, <1>2, <1>3, <1>4, <1>5, <1>6 DEF Next, Terminated

(* No step takes from a thread what it has between operations.             *)
LEMMA CallsStep ==
  ASSUME CATyped, CallsOK, DestructorsOK, Next
  PROVE  CATyped' /\ CallsOK'
<1>1. CASE CAStep
  <2>1. PICK t \in Thread : ConstructStep(t) \/ DestroyStep(t)
    BY <1>1 DEF CAStep, ConstructStep, DestroyStep
  <2> QED BY <2>1, ConstructKeepsCalls, DestroyKeepsCalls
<1>2. CASE ConstructBegins("shell") \/ DestroyBegins("shell")
  BY <1>2, ConstructKeepsCalls, DestroyKeepsCalls DEF ConstructStep, DestroyStep
<1>3. CASE \E t \in Thread : ScopeStep(t)
  BY <1>3, ScopeKeepsCalls
<1>4. CASE UNCHANGED caVars
  BY <1>4 DEF CATyped, CallsOK, CallOK, In
<1> QED BY <1>1, <1>2, <1>3, <1>4, WhoUsesContext

-----------------------------------------------------------------------------
(* The types *)

(* The records of the shell and of the puts. *)
LEMMA ShellGoes ==
  ASSUME ShellTyped,
         NEW pc \in {"idle", "init", "context", "tables", "reading", "put",
                     "exec", "failed", "finished", "clear", "destroy",
                     "drop", "done"},
         shell' = AtShell(pc) \/ shell' = [shell EXCEPT !.pc = pc]
  PROVE  ShellTyped'
<1>1. <<>> \in Seq(Line) /\ <<>> \in Seq(Name)
  OBVIOUS
<1>2. CASE shell' = AtShell(pc)
  BY <1>1, <1>2 DEF ShellTyped, AtShell
<1>3. CASE shell' = [shell EXCEPT !.pc = pc]
  BY <1>3 DEF ShellTyped
<1> QED BY <1>2, <1>3

LEMMA PutMoves ==
  ASSUME PutTyped, NEW w \in Worker,
         NEW pc \in {"lookup", "store", "post", "destroy"},
         put' = [put EXCEPT ![w].pc = pc]
  PROVE  /\ PutTyped'
         /\ put'[w] = [put[w] EXCEPT !.pc = pc]
         /\ put'[w].pc = pc
         /\ put'[w].table = put[w].table
         /\ put'[w].list = put[w].list
         /\ put'[w].awaited = put[w].awaited
         /\ \A v \in Worker \ {w} : put'[v] = put[v]
<1>1. /\ put[w].table \in Table \cup {"none"}
      /\ put[w].list \in Seq(Name)
      /\ put[w].awaited \in BOOLEAN
  BY DEF PutTyped
<1>2. put[w] = [pc |-> put[w].pc, table |-> put[w].table, list |-> put[w].list,
                awaited |-> put[w].awaited]
  BY DEF PutTyped
<1>3. put'[w] = [pc |-> pc, table |-> put[w].table, list |-> put[w].list,
                 awaited |-> put[w].awaited]
  BY <1>2 DEF PutTyped
<1>4. \A v \in Worker \ {w} : put'[v] = put[v]
  BY DEF PutTyped
<1>5. put' = [v \in Worker |-> IF v = w THEN put'[w] ELSE put[v]]
  BY <1>4 DEF PutTyped
<1>6. PutTyped'
  BY <1>1, <1>3, <1>5 DEF PutTyped
<1> QED BY <1>2, <1>3, <1>4, <1>6

(* An onPut that ends lets the shell go on that waits for it. *)
LEMMA Completes ==
  ASSUME PutTyped, ShellTyped, NEW w \in Worker, Complete(w)
  PROVE  /\ PutTyped' /\ ShellTyped'
         /\ put'[w] = Idle
         /\ \A v \in Worker \ {w} : put'[v] = put[v]
         /\ IF put[w].awaited
            THEN shell'.pc = "finished" /\ shell'.table = shell.table
                 /\ shell'.read = shell.read
            ELSE shell' = shell
<1>1. <<>> \in Seq(Name)
  OBVIOUS
<1>2. Idle \in [pc : {"idle", "lookup", "store", "post", "destroy"},
                table : Table \cup {"none"},
                list : Seq(Name),
                awaited : BOOLEAN]
  BY <1>1 DEF Idle
<1>3. PutTyped'
  BY <1>2 DEF Complete, PutTyped
<1>4. ShellTyped'
  BY ShellGoes DEF Complete, ShellTyped
<1> QED BY <1>3, <1>4 DEF Complete, PutTyped, ShellTyped

(* A put that the shell gives up goes on. *)
LEMMA GivesUp ==
  ASSUME PutTyped, put' = [w \in Worker |-> [put[w] EXCEPT !.awaited = FALSE]]
  PROVE  /\ PutTyped'
         /\ \A w \in Worker : /\ put'[w].pc = put[w].pc
                              /\ put'[w].table = put[w].table
                              /\ put'[w].list = put[w].list
                              /\ ~ put'[w].awaited
<1>1. \A w \in Worker :
         put'[w] = [pc |-> put[w].pc, table |-> put[w].table,
                    list |-> put[w].list, awaited |-> FALSE]
  BY DEF PutTyped
<1>2. put' = [w \in Worker |-> put'[w]]
  OBVIOUS
<1>3. \A w \in Worker :
        /\ put[w].pc \in {"idle", "lookup", "store", "post", "destroy"}
        /\ put[w].table \in Table \cup {"none"}
        /\ put[w].list \in Seq(Name)
  BY DEF PutTyped
<1>4. ASSUME NEW w \in Worker
      PROVE  [pc |-> put[w].pc, table |-> put[w].table, list |-> put[w].list,
              awaited |-> FALSE]
               \in [pc : {"idle", "lookup", "store", "post", "destroy"},
                    table : Table \cup {"none"},
                    list : Seq(Name),
                    awaited : BOOLEAN]
  BY <1>3
<1>6. PutTyped'
  BY <1>1, <1>2, <1>4 DEF PutTyped
<1>5. ASSUME NEW w \in Worker
      PROVE  /\ put'[w].pc = put[w].pc
             /\ put'[w].table = put[w].table
             /\ put'[w].list = put[w].list
             /\ ~ put'[w].awaited
  <2>1. put'[w] = [pc |-> put[w].pc, table |-> put[w].table,
                   list |-> put[w].list, awaited |-> FALSE]
    BY <1>1
  <2> QED BY <2>1
<1> QED BY <1>5, <1>6

(* What changes the map, and that the types are kept. *)
LEMMA MapTypedStep ==
  ASSUME MapTyped, Next
  PROVE  MapTyped'
<1>1. CASE AtBeginning
  BY <1>1 DEF AtBeginning, MapTyped
<1>2. ASSUME NEW t \in Table, TableAdd(t) PROVE MapTyped'
  BY <1>2 DEF TableAdd, MapTyped
<1>3. CASE ExitCloses
  BY <1>3 DEF ExitCloses, MapTyped
<1>4. ASSUME NEW t \in Table, ExitClears(t) PROVE MapTyped'
  BY <1>4 DEF ExitClears, StopBy, MapTyped
<1>5. CASE UNCHANGED <<mapVars>>
  BY <1>5 DEF MapTyped
<1>6. Start =>
     \/ UNCHANGED <<mapVars>> \/ AtBeginning
     \/ \E t \in Table : TableAdd(t)
  BY DEF Start, AfterRunning, HookContext, HookEnds, ReportEarly,
         NewCoordinator, SetHandler
<1>7. TableSet => UNCHANGED <<mapVars>>
  BY DEF TableSet, OpenFile, ShellOnly, ReadLine, ReadError, ReadEnds, PutFile,
         PutTimesOut, TableSetReturns
<1>8. ASSUME NEW w \in Worker,
            OnPut(w) \/ \E t \in Table, list \in Other : ClientPuts(w, t, list)
     PROVE  UNCHANGED <<mapVars>>
  BY <1>8
  DEF OnPut, PutLooksUp, Complete, PutStores, PutReturns, StopBy, ClientPuts
<1>9. ASSUME NEW t \in Table, Handler(t)
     PROVE  UNCHANGED <<mapVars>>
  BY <1>9 DEF Handler, Rebuild, EnterScope, LeaveScope, HandlerExits
<1>10. Exit =>
     \/ UNCHANGED <<mapVars>> \/ ExitCloses
     \/ \E t \in Table : ExitClears(t)
  BY DEF Exit, ExitDropsContext, ExitEnds, DestroyClears, DestroyEnds, Complete,
         UseFreed
<1> QED
  BY <1>1, <1>2, <1>3, <1>4, <1>5, <1>6, <1>7, <1>8, <1>9, <1>10
  DEF Next, Terminated

(* What changes the stage of a Coordinator. *)
LEMMA StageTypedStep ==
  ASSUME StageTyped, Next
  PROVE  StageTyped'
<1>1. ASSUME NEW t \in Table,
            NewCoordinator(t) \/ SetHandler(t)
     PROVE  StageTyped'
  BY <1>1 DEF NewCoordinator, SetHandler, StageTyped
<1>2. ASSUME NEW w \in Worker, PutReturns(w) PROVE StageTyped'
  BY <1>2 DEF PutReturns, Complete, StopBy, StageTyped
<1>3. ASSUME NEW t \in Table,
            ExitClears(t) \/ DestroyClears(t) \/ DestroyEnds(t)
     PROVE  StageTyped'
  BY <1>3
  DEF ExitClears, StopBy, DestroyClears, DestroyEnds, Complete, StageTyped
<1>4. CASE UNCHANGED <<stage>>
  BY <1>4 DEF StageTyped
<1>5. Start =>
     \/ UNCHANGED <<stage>>
     \/ \E t \in Table : NewCoordinator(t) \/ SetHandler(t)
  BY DEF Start, AtBeginning, AfterRunning, HookContext, HookEnds, ReportEarly,
         TableAdd
<1>6. TableSet => UNCHANGED <<stage>>
  BY DEF TableSet, OpenFile, ShellOnly, ReadLine, ReadError, ReadEnds, PutFile,
         PutTimesOut, TableSetReturns
<1>7. ASSUME NEW w \in Worker,
            OnPut(w) \/ \E t \in Table, list \in Other : ClientPuts(w, t, list)
     PROVE  \/ UNCHANGED <<stage>>
            \/ PutReturns(w)
  BY <1>7 DEF OnPut, PutLooksUp, Complete, PutStores, ClientPuts
<1>8. ASSUME NEW t \in Table, Handler(t)
     PROVE  UNCHANGED <<stage>>
  BY <1>8 DEF Handler, Rebuild, EnterScope, LeaveScope, HandlerExits
<1>9. Exit =>
     \/ UNCHANGED <<stage>>
     \/ \E t \in Table : ExitClears(t) \/ DestroyClears(t) \/ DestroyEnds(t)
  BY DEF Exit, ExitCloses, ExitDropsContext, ExitEnds, UseFreed
<1> QED
  BY <1>1, <1>2, <1>3, <1>4, <1>5, <1>6, <1>7, <1>8, <1>9 DEF Next, Terminated

(* What changes a handler and its channels. *)
LEMMA HandlerTypedStep ==
  ASSUME HandlerTyped, Next
  PROVE  HandlerTyped'
<1>1. ASSUME NEW t \in Table, NewCoordinator(t) PROVE HandlerTyped'
  BY <1>1 DEF NewCoordinator, HandlerTyped
<1>2. ASSUME NEW t \in Table,
            Rebuild(t) \/ EnterScope(t) \/ LeaveScope(t) \/ HandlerExits(t)
     PROVE  HandlerTyped'
  BY <1>2 DEF Rebuild, EnterScope, LeaveScope, HandlerExits, HandlerTyped
<1>3. ASSUME NEW t \in Table, DestroyEnds(t) PROVE HandlerTyped'
  BY <1>3 DEF DestroyEnds, Complete, HandlerTyped
<1>4. CASE UNCHANGED <<handler, channels>>
  BY <1>4 DEF HandlerTyped
<1>5. Start =>
     \/ UNCHANGED <<handler, channels>>
     \/ \E t \in Table : NewCoordinator(t)
  BY DEF Start, AtBeginning, AfterRunning, HookContext, HookEnds, ReportEarly,
         TableAdd, SetHandler
<1>6. TableSet => UNCHANGED <<handler, channels>>
  BY DEF TableSet, OpenFile, ShellOnly, ReadLine, ReadError, ReadEnds, PutFile,
         PutTimesOut, TableSetReturns
<1>7. ASSUME NEW w \in Worker,
            OnPut(w) \/ \E t \in Table, list \in Other : ClientPuts(w, t, list)
     PROVE  UNCHANGED <<handler, channels>>
  BY <1>7
  DEF OnPut, PutLooksUp, Complete, PutStores, PutReturns, StopBy, ClientPuts
<1>8. ASSUME NEW t \in Table, Handler(t)
     PROVE  \/ Rebuild(t)
            \/ EnterScope(t)
            \/ LeaveScope(t)
            \/ HandlerExits(t)
  BY <1>8 DEF Handler
<1>9. Exit =>
     \/ UNCHANGED <<handler, channels>>
     \/ \E t \in Table : DestroyEnds(t)
  BY DEF Exit, ExitCloses, ExitClears, StopBy, ExitDropsContext, ExitEnds,
         DestroyClears, UseFreed
<1> QED
  BY <1>1, <1>2, <1>3, <1>4, <1>5, <1>6, <1>7, <1>8, <1>9 DEF Next, Terminated

(* Who destroys a Coordinator is set when its destructor begins. *)
LEMMA DestroyerTypedStep ==
  ASSUME DestroyerTyped, Next
  PROVE  DestroyerTyped'
<1>1. ASSUME NEW w \in Worker, PutReturns(w) PROVE DestroyerTyped'
  BY <1>1 DEF PutReturns, Complete, StopBy, DestroyerTyped
<1>2. ASSUME NEW t \in Table, ExitClears(t) PROVE DestroyerTyped'
  BY <1>2 DEF ExitClears, StopBy, DestroyerTyped
<1>3. CASE UNCHANGED <<destroyer>>
  BY <1>3 DEF DestroyerTyped
<1>4. Start => UNCHANGED <<destroyer>>
  BY DEF Start, AtBeginning, AfterRunning, HookContext, HookEnds, ReportEarly,
         TableAdd, NewCoordinator, SetHandler
<1>5. TableSet => UNCHANGED <<destroyer>>
  BY DEF TableSet, OpenFile, ShellOnly, ReadLine, ReadError, ReadEnds, PutFile,
         PutTimesOut, TableSetReturns
<1>6. ASSUME NEW w \in Worker,
            OnPut(w) \/ \E t \in Table, list \in Other : ClientPuts(w, t, list)
     PROVE  \/ UNCHANGED <<destroyer>>
            \/ PutReturns(w)
  BY <1>6 DEF OnPut, PutLooksUp, Complete, PutStores, ClientPuts
<1>7. ASSUME NEW t \in Table, Handler(t)
     PROVE  UNCHANGED <<destroyer>>
  BY <1>7 DEF Handler, Rebuild, EnterScope, LeaveScope, HandlerExits
<1>8. Exit =>
     \/ UNCHANGED <<destroyer>>
     \/ \E t \in Table : ExitClears(t)
  BY DEF Exit, ExitCloses, ExitDropsContext, ExitEnds, DestroyClears,
         DestroyEnds, Complete, UseFreed
<1> QED
  BY <1>1, <1>2, <1>3, <1>4, <1>5, <1>6, <1>7, <1>8 DEF Next, Terminated

(* What changes the list of a table. *)
LEMMA SignalsTypedStep ==
  ASSUME SignalsTyped, PutTyped, Next
  PROVE  SignalsTyped'
<1>1. ASSUME NEW w \in Worker, PutStores(w) PROVE SignalsTyped'
  BY <1>1 DEF PutStores, SignalsTyped, PutTyped
<1>2. ASSUME NEW t \in Table, Rebuild(t) PROVE SignalsTyped'
  BY <1>2 DEF Rebuild, SignalsTyped, PutTyped
<1>3. CASE UNCHANGED <<signals, signals_changed>>
  BY <1>3 DEF SignalsTyped, PutTyped
<1>4. Start => UNCHANGED <<signals, signals_changed>>
  BY DEF Start, AtBeginning, AfterRunning, HookContext, HookEnds, ReportEarly,
         TableAdd, NewCoordinator, SetHandler
<1>5. TableSet => UNCHANGED <<signals, signals_changed>>
  BY DEF TableSet, OpenFile, ShellOnly, ReadLine, ReadError, ReadEnds, PutFile,
         PutTimesOut, TableSetReturns
<1>6. ASSUME NEW w \in Worker,
            OnPut(w) \/ \E t \in Table, list \in Other : ClientPuts(w, t, list)
     PROVE  \/ UNCHANGED <<signals, signals_changed>>
            \/ PutStores(w)
  BY <1>6 DEF OnPut, PutLooksUp, Complete, PutReturns, StopBy, ClientPuts
<1>7. ASSUME NEW t \in Table, Handler(t)
     PROVE  \/ UNCHANGED <<signals, signals_changed>>
            \/ Rebuild(t)
  BY <1>7 DEF Handler, EnterScope, LeaveScope, HandlerExits
<1>8. Exit => UNCHANGED <<signals, signals_changed>>
  BY DEF Exit, ExitCloses, ExitClears, StopBy, ExitDropsContext, ExitEnds,
         DestroyClears, DestroyEnds, Complete, UseFreed
<1> QED
  BY <1>1, <1>2, <1>3, <1>4, <1>5, <1>6, <1>7, <1>8 DEF Next, Terminated

(* What moves the shell. *)
LEMMA ShellTypedStep ==
  ASSUME ShellTyped, PutTyped, Next
  PROVE  ShellTyped'
<1>1. CASE AtBeginning
  BY <1>1 DEF AtBeginning, ShellTyped, AtShell
<1>2. CASE AfterRunning
  BY <1>2 DEF AfterRunning, ShellTyped, AtShell
<1>3. CASE HookContext
  BY <1>3, ShellGoes DEF HookContext, ShellTyped, AtShell
<1>4. CASE HookEnds
  BY <1>4 DEF HookEnds, ShellTyped, AtShell
<1>5. ASSUME NEW t \in Table, NEW file \in File,
            OpenFile(t, file)
     PROVE  ShellTyped'
  BY <1>5 DEF OpenFile, ShellOnly, ShellTyped, AtShell
<1>6. CASE ReadLine
  <2>1. /\ Tail(shell.rest) \in Seq(Line)
        /\ Head(shell.rest) \in Name =>
             Append(shell.read, Head(shell.rest)) \in Seq(Name)
    BY <1>6 DEF ReadLine, ShellTyped
  <2> QED BY <1>6, <2>1 DEF ReadLine, ShellTyped
<1>7. CASE ReadError
  BY <1>7 DEF ReadError, ShellOnly, ShellTyped, AtShell
<1>8. CASE ReadEnds
  BY <1>8 DEF ReadEnds, ShellOnly, ShellTyped, AtShell
<1>9. ASSUME NEW w \in Worker, PutFile(w) PROVE ShellTyped'
  BY <1>9 DEF PutFile, ShellOnly, ShellTyped, AtShell
<1>10. CASE PutTimesOut
  BY <1>10 DEF PutTimesOut, ShellOnly, ShellTyped, AtShell
<1>11. CASE TableSetReturns
  BY <1>11 DEF TableSetReturns, ShellOnly, ShellTyped, AtShell
<1>12. ASSUME NEW w \in Worker, PutLooksUp(w) PROVE ShellTyped'
  BY <1>12, Completes DEF PutLooksUp, ShellTyped
<1>13. ASSUME NEW w \in Worker, PutReturns(w) PROVE ShellTyped'
  BY <1>13, Completes DEF PutReturns, ShellTyped
<1>14. CASE ExitCloses
  BY <1>14 DEF ExitCloses, ShellTyped, AtShell
<1>15. ASSUME NEW t \in Table, ExitClears(t) PROVE ShellTyped'
  BY <1>15, ShellGoes DEF ExitClears, StopBy, ShellTyped, AtShell
<1>16. CASE ExitDropsContext
  BY <1>16 DEF ExitDropsContext, ShellTyped, AtShell
<1>17. CASE ExitEnds
  BY <1>17 DEF ExitEnds, ShellTyped, AtShell
<1>18. ASSUME NEW t \in Table, DestroyEnds(t) PROVE ShellTyped'
  BY <1>18, Completes, ShellGoes DEF DestroyEnds
<1>19. CASE UNCHANGED <<shell>>
  BY <1>19 DEF ShellTyped, AtShell
<1>20. Start =>
     \/ UNCHANGED <<shell>> \/ AtBeginning \/ AfterRunning \/ HookContext
     \/ HookEnds
  BY DEF Start, ReportEarly, TableAdd, NewCoordinator, SetHandler
<1>21. TableSet =>
     \/ ReadLine \/ ReadError \/ ReadEnds \/ PutTimesOut
     \/ TableSetReturns
     \/ \E t \in Table, file \in File : OpenFile(t, file)
     \/ \E w \in Worker : PutFile(w)
  BY DEF TableSet
<1>22. ASSUME NEW w \in Worker,
            OnPut(w) \/ \E t \in Table, list \in Other : ClientPuts(w, t, list)
     PROVE  \/ UNCHANGED <<shell>>
            \/ PutLooksUp(w)
            \/ PutReturns(w)
  BY <1>22 DEF OnPut, PutStores, ClientPuts
<1>23. ASSUME NEW t \in Table, Handler(t)
     PROVE  UNCHANGED <<shell>>
  BY <1>23 DEF Handler, Rebuild, EnterScope, LeaveScope, HandlerExits
<1>24. Exit =>
     \/ UNCHANGED <<shell>> \/ ExitCloses \/ ExitDropsContext \/ ExitEnds
     \/ \E t \in Table : ExitClears(t) \/ DestroyEnds(t)
  BY DEF Exit, DestroyClears, UseFreed
<1> QED
  BY <1>1, <1>2, <1>3, <1>4, <1>5, <1>6, <1>7, <1>8, <1>9, <1>10, <1>11, <1>12,
     <1>13, <1>14, <1>15, <1>16, <1>17, <1>18, <1>19, <1>20, <1>21, <1>22,
     <1>23, <1>24
  DEF Next, Terminated

(* What moves a put. *)
LEMMA PutTypedStep ==
  ASSUME PutTyped, ShellTyped, StageTyped, Next
  PROVE  PutTyped'
<1>1. ASSUME NEW w \in Worker, PutFile(w) PROVE PutTyped'
  BY <1>1 DEF PutFile, ShellOnly, PutTyped, ShellTyped, Idle
<1>2. CASE PutTimesOut
  BY <1>2, GivesUp DEF PutTimesOut
<1>3. ASSUME NEW w \in Worker, PutLooksUp(w) PROVE PutTyped'
  BY <1>3, Completes, PutMoves DEF PutLooksUp
<1>4. ASSUME NEW w \in Worker, PutStores(w) PROVE PutTyped'
  BY <1>4, PutMoves DEF PutStores
<1>5. ASSUME NEW w \in Worker, PutReturns(w) PROVE PutTyped'
  BY <1>5, Completes, PutMoves DEF PutReturns
<1>6. ASSUME NEW w \in Worker, NEW t \in Table, NEW list \in Other,
            ClientPuts(w, t, list)
     PROVE  PutTyped'
  BY <1>6 DEF ClientPuts, PutTyped, ShellTyped, Idle
<1>7. ASSUME NEW t \in Table, DestroyEnds(t) PROVE PutTyped'
  BY <1>7, Completes DEF DestroyEnds, PutTyped
<1>8. CASE UNCHANGED <<put>>
  BY <1>8 DEF PutTyped, ShellTyped, Idle
<1>9. Start => UNCHANGED <<put>>
  BY DEF Start, AtBeginning, AfterRunning, HookContext, HookEnds, ReportEarly,
         TableAdd, NewCoordinator, SetHandler
<1>10. TableSet =>
     \/ UNCHANGED <<put>> \/ PutTimesOut
     \/ \E w \in Worker : PutFile(w)
  BY DEF TableSet, OpenFile, ShellOnly, ReadLine, ReadError, ReadEnds,
         TableSetReturns
<1>11. ASSUME NEW w \in Worker,
            OnPut(w) \/ \E t \in Table, list \in Other : ClientPuts(w, t, list)
     PROVE  \/ PutLooksUp(w)
            \/ PutStores(w)
            \/ PutReturns(w)
            \/ \E t \in Table, list \in Other : ClientPuts(w, t, list)
  BY <1>11 DEF OnPut
<1>12. ASSUME NEW t \in Table, Handler(t)
     PROVE  UNCHANGED <<put>>
  BY <1>12 DEF Handler, Rebuild, EnterScope, LeaveScope, HandlerExits
<1>13. Exit =>
     \/ UNCHANGED <<put>>
     \/ \E t \in Table : DestroyEnds(t)
  BY DEF Exit, ExitCloses, ExitClears, StopBy, ExitDropsContext, ExitEnds,
         DestroyClears, UseFreed
<1> QED
  BY <1>1, <1>2, <1>3, <1>4, <1>5, <1>6, <1>7, <1>8, <1>9, <1>10, <1>11, <1>12,
     <1>13
  DEF Next, Terminated

(* What the program dies of, and the counters. *)
LEMMA FateTypedStep ==
  ASSUME FateTyped, Next
  PROVE  FateTyped'
<1>1. CASE HookContext \/ ReportEarly
  BY <1>1 DEF HookContext, ReportEarly, FateTyped
<1>2. ASSUME NEW t \in Table, NEW file \in File,
            OpenFile(t, file)
     PROVE  FateTyped'
  BY <1>2 DEF OpenFile, ShellOnly, FateTyped
<1>3. ASSUME NEW w \in Worker, NEW t \in Table, NEW list \in Other,
            ClientPuts(w, t, list)
     PROVE  FateTyped'
  BY <1>3 DEF ClientPuts, FateTyped
<1>4. CASE UseFreed
  BY <1>4 DEF UseFreed, FateTyped
<1>5. CASE UNCHANGED <<fate, puts, sets>>
  BY <1>5 DEF FateTyped
<1>6. Start =>
     UNCHANGED <<fate, puts, sets>> \/ HookContext \/ ReportEarly
  BY DEF Start, AtBeginning, AfterRunning, HookEnds, TableAdd, NewCoordinator,
         SetHandler
<1>7. TableSet =>
     \/ UNCHANGED <<fate, puts, sets>>
     \/ \E t \in Table, file \in File : OpenFile(t, file)
  BY DEF TableSet, ReadLine, ShellOnly, ReadError, ReadEnds, PutFile,
         PutTimesOut, TableSetReturns
<1>8. ASSUME NEW w \in Worker,
            OnPut(w) \/ \E t \in Table, list \in Other : ClientPuts(w, t, list)
     PROVE  \/ UNCHANGED <<fate, puts, sets>>
            \/ \E t \in Table, list \in Other : ClientPuts(w, t, list)
  BY <1>8 DEF OnPut, PutLooksUp, Complete, PutStores, PutReturns, StopBy
<1>9. ASSUME NEW t \in Table, Handler(t)
     PROVE  UNCHANGED <<fate, puts, sets>>
  BY <1>9 DEF Handler, Rebuild, EnterScope, LeaveScope, HandlerExits
<1>10. Exit => UNCHANGED <<fate, puts, sets>> \/ UseFreed
  BY DEF Exit, ExitCloses, ExitClears, StopBy, ExitDropsContext, ExitEnds,
         DestroyClears, DestroyEnds, Complete
<1> QED
  BY <1>1, <1>2, <1>3, <1>4, <1>5, <1>6, <1>7, <1>8, <1>9, <1>10
  DEF Next, Terminated

-----------------------------------------------------------------------------
(* The order in which the program starts and exits *)

(* The context is made and destroyed by the shell, and is there in between: *)
(* others only attach to it for a while.                                    *)
LEMMA ContextOKStep ==
  ASSUME CATyped, ShellTyped, PutTyped, CallsOK, ContextOK, ShellOK,
         DestructorsOK, PutsOK, Next
  PROVE  ContextOK'
<1>1. CASE /\ Alive /\ CAStep
           /\ UNCHANGED <<mapVars, tableVars, shell, put, fate, bounds>>
  <2>1. PICK t \in Thread :
              \/ ContextCreated(t) \/ HandlerAdded(t) \/ ConstructFails(t)
              \/ Caught(t) \/ Constructed(t)
              \/ Destroyed(t) \/ Reattached(t)
    BY <1>1 DEF CAStep
  <2>2. t = "shell"
    BY <2>1
    DEF ContextOK, In, ContextCreated, HandlerAdded, ConstructFails, Caught,
        Constructed, Destroyed, Reattached
  <2>3. \A u \in Thread \ {"shell"} : call'[u] = call[u]
    BY <2>1, <2>2, OthersKept DEF ConstructStep, DestroyStep
  <2>4. CASE \/ ContextCreated(t) \/ HandlerAdded(t)
             \/ ConstructFails(t) \/ Caught(t)
    BY <1>1, <2>2, <2>3, <2>4
    DEF ContextOK, In, Constructing, CATyped, ContextCreated, HandlerAdded,
        ConstructFails, Caught, Goto
  <2>5. CASE Constructed(t)
    BY <1>1, <2>2, <2>3, <2>5
    DEF ContextOK, In, Constructing, CATyped, Constructed, Goto
  <2>6. CASE Destroyed(t) \/ Reattached(t)
    BY <1>1, <2>2, <2>3, <2>6
    DEF ContextOK, In, Constructing, CATyped, CallsOK, CallOK, ShellOK,
        Destroyed, Reattached, Goto
  <2> QED BY <2>1, <2>4, <2>5, <2>6
<1>2. CASE AtBeginning \/ HookContext \/ HookEnds
  BY <1>2
  DEF AtBeginning, HookContext, HookEnds, ContextOK, In, Constructing, AtShell,
      ShellTyped
<1>3. CASE AfterRunning
  BY <1>3
  DEF AfterRunning, ConstructBegins, SaveAndLeave, CATyped, ContextOK, In,
      Constructing, AtShell
<1>4. ASSUME NEW t \in Table, NEW file \in File,
            OpenFile(t, file)
     PROVE  ContextOK'
  BY <1>4
  DEF OpenFile, ShellOnly, ContextOK, In, Constructing, AtShell, ShellTyped
<1>5. CASE ReadLine
  BY <1>5
  DEF ReadLine, ShellOnly, ContextOK, In, Constructing, AtShell, ShellTyped
<1>6. CASE ReadError \/ PutTimesOut \/ TableSetReturns
  BY <1>6
  DEF ReadError, ShellOnly, PutTimesOut, TableSetReturns, ContextOK, In,
      Constructing, AtShell, ShellTyped
<1>7. CASE ReadEnds
  BY <1>7
  DEF ReadEnds, ShellOnly, ContextOK, In, Constructing, AtShell, ShellTyped
<1>8. ASSUME NEW w \in Worker, PutFile(w) PROVE ContextOK'
  BY <1>8
  DEF PutFile, ShellOnly, ContextOK, In, Constructing, AtShell, ShellTyped
<1>9. ASSUME NEW w \in Worker, PutLooksUp(w) PROVE ContextOK'
  BY <1>9, Completes DEF PutLooksUp, StopBy, PutsOK, ContextOK, In, Constructing
<1>10. ASSUME NEW w \in Worker, PutReturns(w) PROVE ContextOK'
  BY <1>10, Completes
  DEF PutReturns, StopBy, PutsOK, ContextOK, In, Constructing
<1>11. ASSUME NEW t \in Table, EnterScope(t) PROVE ContextOK'
  BY <1>11
  DEF EnterScope, AttachBegins, SaveAndLeave, CATyped, ContextOK, In,
      Constructing
<1>12. ASSUME NEW t \in Table, LeaveScope(t) PROVE ContextOK'
  BY <1>12
  DEF LeaveScope, AttachEnds, Goto, CATyped, ContextOK, In, Constructing
<1>13. CASE ExitCloses \/ ExitEnds
  BY <1>13
  DEF ExitCloses, ExitEnds, ContextOK, In, Constructing, AtShell, ShellTyped
<1>14. ASSUME NEW t \in Table, ExitClears(t) PROVE ContextOK'
  BY <1>14
  DEF ExitClears, StopBy, ContextOK, In, Constructing, AtShell, ShellTyped
<1>15. CASE ExitDropsContext
  BY <1>15
  DEF ExitDropsContext, DestroyBegins, SaveAndLeave, CATyped, ContextOK, In,
      Constructing, AtShell
<1>16. ASSUME NEW t \in Table, DestroyClears(t) PROVE ContextOK'
  <2>1. /\ destroyer[t] \in Thread
        /\ destroyer[t] = "shell" => shell.pc = "destroy"
    BY <1>16 DEF DestroyClears, DestructorsOK, DestructorOK
  <2> QED
    BY <1>16, <2>1
    DEF DestroyClears, AttachBegins, SaveAndLeave, CATyped, ContextOK, In,
        Constructing
<1>17. ASSUME NEW t \in Table, DestroyEnds(t) PROVE ContextOK'
  <2>1. /\ destroyer[t] \in Thread
        /\ destroyer[t] = "shell" => shell.pc = "destroy"
    BY <1>17 DEF DestroyEnds, DestructorsOK, DestructorOK
  <2>2. shell'.pc \in {shell.pc, "clear", "finished"}
    BY <1>17, Completes DEF DestroyEnds, AtShell
  <2>3. shell'.pc # shell.pc => shell.pc \in {"destroy", "exec"}
    BY <1>17, <2>1, Completes DEF DestroyEnds, AtShell, PutsOK
  <2> QED
    BY <1>17, <2>1, <2>2, <2>3
    DEF DestroyEnds, AttachEnds, Goto, CATyped, ContextOK, In, Constructing
<1>18. CASE UNCHANGED <<call, alive, locked, shell>>
  BY <1>18 DEF ContextOK, In, Constructing
<1>19. Start =>
     \/ UNCHANGED <<call, alive, locked, shell>> \/ AtBeginning
     \/ AfterRunning \/ HookContext \/ HookEnds
  BY DEF Start, ReportEarly, TableAdd, NewCoordinator, SetHandler
<1>20. TableSet =>
     \/ ReadLine \/ ReadError \/ ReadEnds \/ PutTimesOut
     \/ TableSetReturns
     \/ \E t \in Table, file \in File : OpenFile(t, file)
     \/ \E w \in Worker : PutFile(w)
  BY DEF TableSet
<1>21. ASSUME NEW w \in Worker,
            OnPut(w) \/ \E t \in Table, list \in Other : ClientPuts(w, t, list)
     PROVE  \/ UNCHANGED <<call, alive, locked, shell>>
            \/ PutLooksUp(w)
            \/ PutReturns(w)
  BY <1>21 DEF OnPut, PutStores, ClientPuts
<1>22. ASSUME NEW t \in Table, Handler(t)
     PROVE  \/ UNCHANGED <<call, alive, locked, shell>>
            \/ EnterScope(t)
            \/ LeaveScope(t)
  BY <1>22 DEF Handler, Rebuild, HandlerExits
<1>23. Exit =>
     \/ UNCHANGED <<call, alive, locked, shell>> \/ ExitCloses
     \/ ExitDropsContext \/ ExitEnds
     \/ \E t \in Table : ExitClears(t) \/ DestroyClears(t) \/ DestroyEnds(t)
  BY DEF Exit, UseFreed
<1> QED
  BY <1>1, <1>2, <1>3, <1>4, <1>5, <1>6, <1>7, <1>8, <1>9, <1>10, <1>11, <1>12,
     <1>13, <1>14, <1>15, <1>16, <1>17, <1>18, <1>19, <1>20, <1>21, <1>22, <1>23
  DEF Next, Terminated

(* The map is closed by the exit, and empty when the context goes. *)
LEMMA ShellOKStep ==
  ASSUME MapTyped, ShellTyped, PutTyped, ShellOK, DestructorsOK, PutsOK, Next
  PROVE  ShellOK'
<1>1. CASE AtBeginning \/ AfterRunning \/ HookContext
  BY <1>1
  DEF AtBeginning, AfterRunning, HookContext, ShellOK, Exiting, AtShell,
      ShellTyped, MapTyped
<1>2. CASE HookEnds
  BY <1>2 DEF HookEnds, ShellOK, Exiting, AtShell, ShellTyped, MapTyped
<1>3. ASSUME NEW t \in Table, TableAdd(t) PROVE ShellOK'
  BY <1>3 DEF TableAdd, ShellOK, Exiting, AtShell, ShellTyped, MapTyped
<1>4. ASSUME NEW t \in Table, NEW file \in File,
            OpenFile(t, file)
     PROVE  ShellOK'
  BY <1>4
  DEF OpenFile, ShellOnly, ShellOK, Exiting, AtShell, ShellTyped, MapTyped
<1>5. CASE ReadLine
  BY <1>5
  DEF ReadLine, ShellOnly, ShellOK, Exiting, AtShell, ShellTyped, MapTyped
<1>6. CASE ReadError \/ PutTimesOut \/ TableSetReturns
  BY <1>6
  DEF ReadError, ShellOnly, PutTimesOut, TableSetReturns, ShellOK, Exiting,
      AtShell, ShellTyped, MapTyped
<1>7. CASE ReadEnds
  BY <1>7
  DEF ReadEnds, ShellOnly, ShellOK, Exiting, AtShell, ShellTyped, MapTyped
<1>8. ASSUME NEW w \in Worker, PutFile(w) PROVE ShellOK'
  BY <1>8
  DEF PutFile, ShellOnly, ShellOK, Exiting, AtShell, ShellTyped, MapTyped
<1>9. ASSUME NEW w \in Worker, PutLooksUp(w) PROVE ShellOK'
  BY <1>9, Completes
  DEF PutLooksUp, Complete, ShellOK, Exiting, AtShell, ShellTyped, MapTyped,
      PutsOK
<1>10. ASSUME NEW w \in Worker, PutReturns(w) PROVE ShellOK'
  BY <1>10, Completes
  DEF PutReturns, Complete, StopBy, ShellOK, Exiting, AtShell, ShellTyped,
      MapTyped, PutsOK
<1>11. CASE ExitCloses \/ ExitDropsContext \/ ExitEnds
  BY <1>11
  DEF ExitCloses, ExitDropsContext, ExitEnds, ShellOK, Exiting, AtShell,
      ShellTyped, MapTyped
<1>12. ASSUME NEW t \in Table, ExitClears(t) PROVE ShellOK'
  BY <1>12
  DEF ExitClears, StopBy, ShellOK, Exiting, AtShell, ShellTyped, MapTyped
<1>13. ASSUME NEW t \in Table, DestroyEnds(t) PROVE ShellOK'
  BY <1>13, Completes
  DEF DestroyEnds, Complete, ShellOK, Exiting, AtShell, ShellTyped, MapTyped,
      DestructorsOK, DestructorOK, PutsOK
<1>14. CASE UNCHANGED <<mapVars, shell>>
  BY <1>14 DEF ShellOK, Exiting
<1>15. Start =>
     \/ UNCHANGED <<mapVars, shell>> \/ AtBeginning \/ AfterRunning
     \/ HookContext \/ HookEnds
     \/ \E t \in Table : TableAdd(t)
  BY DEF Start, ReportEarly, NewCoordinator, SetHandler
<1>16. TableSet =>
     \/ ReadLine \/ ReadError \/ ReadEnds \/ PutTimesOut
     \/ TableSetReturns
     \/ \E t \in Table, file \in File : OpenFile(t, file)
     \/ \E w \in Worker : PutFile(w)
  BY DEF TableSet
<1>17. ASSUME NEW w \in Worker,
            OnPut(w) \/ \E t \in Table, list \in Other : ClientPuts(w, t, list)
     PROVE  \/ UNCHANGED <<mapVars, shell>>
            \/ PutLooksUp(w)
            \/ PutReturns(w)
  BY <1>17 DEF OnPut, PutStores, ClientPuts
<1>18. ASSUME NEW t \in Table, Handler(t)
     PROVE  UNCHANGED <<mapVars, shell>>
  BY <1>18 DEF Handler, Rebuild, EnterScope, LeaveScope, HandlerExits
<1>19. Exit =>
     \/ UNCHANGED <<mapVars, shell>> \/ ExitCloses \/ ExitDropsContext
     \/ ExitEnds
     \/ \E t \in Table : ExitClears(t) \/ DestroyEnds(t)
  BY DEF Exit, DestroyClears, UseFreed
<1> QED
  BY <1>1, <1>2, <1>3, <1>4, <1>5, <1>6, <1>7, <1>8, <1>9, <1>10, <1>11, <1>12,
     <1>13, <1>14, <1>15, <1>16, <1>17, <1>18, <1>19
  DEF Next, Terminated

(* Who holds a Coordinator keeps it live.  Letting go of it last, in the    *)
(* map or by a put, begins its destructor.                                  *)
LEMMA TablesOKStep ==
  ASSUME StageTyped, ShellTyped, PutTyped, ShellOK, TablesOK, DestructorsOK,
         PutsOK, Next
  PROVE  TablesOK'
<1>1. CASE AtBeginning \/ AfterRunning \/ HookContext
  BY <1>1
  DEF AtBeginning, AfterRunning, HookContext, TablesOK, TableOK, Holders,
      ShellOK, AtShell, StageTyped, ShellTyped
<1>2. CASE HookEnds
  BY <1>2
  DEF HookEnds, TablesOK, TableOK, Holders, ShellOK, AtShell, StageTyped,
      ShellTyped, Running
<1>3. ASSUME NEW t \in Table,
            TableAdd(t) \/ NewCoordinator(t) \/ SetHandler(t)
     PROVE  TablesOK'
  BY <1>3
  DEF TableAdd, NewCoordinator, SetHandler, TablesOK, TableOK, Holders, ShellOK,
      AtShell, StageTyped, ShellTyped
<1>4. ASSUME NEW t \in Table, NEW file \in File,
            OpenFile(t, file)
     PROVE  TablesOK'
  BY <1>4
  DEF OpenFile, ShellOnly, TablesOK, TableOK, Holders, ShellOK, AtShell,
      StageTyped, ShellTyped
<1>5. CASE ReadLine
  BY <1>5
  DEF ReadLine, ShellOnly, TablesOK, TableOK, Holders, ShellOK, AtShell,
      StageTyped, ShellTyped
<1>6. CASE ReadError \/ TableSetReturns
  BY <1>6
  DEF ReadError, ShellOnly, TableSetReturns, TablesOK, TableOK, Holders,
      ShellOK, AtShell, StageTyped, ShellTyped
<1>7. CASE ReadEnds
  BY <1>7
  DEF ReadEnds, ShellOnly, TablesOK, TableOK, Holders, ShellOK, AtShell,
      StageTyped, ShellTyped
<1>8. ASSUME NEW w \in Worker, PutFile(w) PROVE TablesOK'
  BY <1>8
  DEF PutFile, ShellOnly, TablesOK, TableOK, Holders, ShellOK, AtShell,
      StageTyped, ShellTyped
<1>9. CASE PutTimesOut
  BY <1>9, GivesUp
  DEF PutTimesOut, ShellOnly, TablesOK, TableOK, Holders, ShellOK, AtShell,
      StageTyped, ShellTyped
<1>10. ASSUME NEW w \in Worker, PutLooksUp(w) PROVE TablesOK'
  <2>1. put[w].table \in Table /\ HasHandler(put[w].table)
    BY <1>10 DEF PutLooksUp, PutsOK
  <2>2. CASE Complete(w)
    <3>1. \A u \in Table : Holders(u)' = Holders(u)
      BY <1>10, <2>2, Completes DEF PutLooksUp, Holders, Idle
    <3>2. shell'.pc = shell.pc \/ (shell.pc = "exec" /\ shell'.pc = "finished")
      BY <2>2, Completes DEF PutsOK
    <3> QED BY <1>10, <3>1, <3>2 DEF PutLooksUp, TablesOK, TableOK
  <2>3. CASE /\ put' = [put EXCEPT ![w].pc = "store"]
             /\ put[w].table \in coordinators \/ Holders(put[w].table) # {}
             /\ UNCHANGED shell
    <3>0. /\ put'[w].pc = "store" /\ put'[w].table = put[w].table
          /\ \A v \in Worker \ {w} : put'[v] = put[v]
      BY <2>3, PutMoves
    <3>1. \A u \in Table : Holders(u)' = IF u = put[w].table
                                       THEN Holders(u) \cup {w} ELSE Holders(u)
      BY <3>0 DEF Holders
    <3>2. stage[put[w].table] = "live"
      BY <2>1, <2>3 DEF TablesOK, TableOK, HasHandler
    <3> QED BY <1>10, <2>3, <3>1, <3>2 DEF PutLooksUp, TablesOK, TableOK
  <2> QED BY <1>10, <2>2, <2>3 DEF PutLooksUp
<1>11. ASSUME NEW w \in Worker, PutStores(w) PROVE TablesOK'
  <2>0. /\ put'[w].pc = "post" /\ put'[w].table = put[w].table
        /\ \A v \in Worker \ {w} : put'[v] = put[v]
    BY <1>11, PutMoves DEF PutStores
  <2>1. \A u \in Table : Holders(u)' = Holders(u)
    BY <1>11, <2>0 DEF PutStores, Holders
  <2> QED BY <1>11, <2>1 DEF PutStores, TablesOK, TableOK
<1>12. ASSUME NEW w \in Worker, PutReturns(w) PROVE TablesOK'
  <2>1. put[w].table \in Table /\ w \in Holders(put[w].table)
    BY <1>12 DEF PutReturns, PutsOK, Holders
  <2>2. CASE /\ put[w].table \in coordinators \/ Holders(put[w].table) # {w}
             /\ Complete(w)
             /\ UNCHANGED <<stage, destroyer>>
    <3>1. \A u \in Table : Holders(u)' = Holders(u) \ {w}
      BY <2>2, Completes DEF Holders, Idle
    <3>2. shell'.pc = shell.pc \/ (shell.pc = "exec" /\ shell'.pc = "finished")
      BY <2>2, Completes DEF PutsOK
    <3>3. \A u \in Table \ {put[w].table} : w \notin Holders(u)
      BY DEF Holders
    <3> QED BY <1>12, <2>1, <2>2, <3>1, <3>2, <3>3
    DEF PutReturns, TablesOK, TableOK
  <2>3. CASE /\ put[w].table \notin coordinators /\ Holders(put[w].table) = {w}
             /\ StopBy(put[w].table, w)
             /\ put' = [put EXCEPT ![w].pc = "destroy"]
             /\ UNCHANGED shell
    <3>0. /\ put'[w].pc = "destroy" /\ put'[w].table = put[w].table
          /\ \A v \in Worker \ {w} : put'[v] = put[v]
      BY <2>3, PutMoves
    <3>1. \A u \in Table : Holders(u)' = Holders(u) \ {w}
      BY <3>0 DEF Holders
    <3>2. \A u \in Table \ {put[w].table} : w \notin Holders(u)
      BY DEF Holders
    <3> QED
      BY <1>12, <2>1, <2>3, <3>1, <3>2
      DEF PutReturns, StopBy, TablesOK, TableOK, StageTyped
  <2> QED BY <1>12, <2>2, <2>3 DEF PutReturns
<1>13. ASSUME NEW w \in Worker, NEW t \in Table, NEW list \in Other,
            ClientPuts(w, t, list)
     PROVE  TablesOK'
  BY <1>13
  DEF ClientPuts, TablesOK, TableOK, Holders, ShellOK, AtShell, StageTyped,
      ShellTyped
<1>14. CASE ExitCloses \/ ExitDropsContext \/ ExitEnds
  BY <1>14
  DEF ExitCloses, ExitDropsContext, ExitEnds, TablesOK, TableOK, Holders,
      ShellOK, AtShell, StageTyped, ShellTyped
<1>15. ASSUME NEW t \in Table, ExitClears(t) PROVE TablesOK'
  <2>1. \A u \in Table : Holders(u)' = Holders(u)
    BY <1>15 DEF ExitClears, Holders
  <2>2. ~ serving /\ locked /\ stage[t] = "live"
    BY <1>15 DEF ExitClears, ShellOK, Exiting, TablesOK, TableOK
  <2>3. CASE Holders(t) = {}
    BY <1>15, <2>1, <2>2, <2>3
    DEF ExitClears, StopBy, AtShell, TablesOK, TableOK, StageTyped
  <2>4. CASE Holders(t) # {}
    BY <1>15, <2>1, <2>2, <2>4 DEF ExitClears, TablesOK, TableOK
  <2> QED BY <2>3, <2>4
<1>16. ASSUME NEW t \in Table, DestroyClears(t) PROVE TablesOK'
  BY <1>16
  DEF DestroyClears, TablesOK, TableOK, Holders, ShellOK, AtShell, StageTyped,
      ShellTyped
<1>17. ASSUME NEW t \in Table, DestroyEnds(t) PROVE TablesOK'
  <2>1. CASE /\ destroyer[t] = "shell"
             /\ shell' = AtShell("clear") /\ UNCHANGED put
    <3>1. shell.pc = "destroy"
      BY <1>17, <2>1 DEF DestroyEnds, DestructorsOK, DestructorOK
    <3>2. \A u \in Table : Holders(u)' = Holders(u)
      BY <2>1 DEF Holders
    <3> QED
      BY <1>17, <2>1, <3>1, <3>2
      DEF DestroyEnds, AtShell, TablesOK, TableOK, StageTyped
  <2>2. CASE destroyer[t] \in Worker /\ Complete(destroyer[t])
    <3>1. put[destroyer[t]].pc = "destroy"
      BY <1>17, <2>2 DEF DestroyEnds, DestructorsOK, DestructorOK
    <3>2. \A u \in Table : Holders(u)' = Holders(u)
      BY <2>2, <3>1, Completes DEF Holders, Idle
    <3>3. shell'.pc = shell.pc \/ (shell.pc = "exec" /\ shell'.pc = "finished")
      BY <2>2, Completes DEF PutsOK
    <3> QED
      BY <1>17, <3>2, <3>3 DEF DestroyEnds, TablesOK, TableOK, StageTyped
  <2> QED BY <1>17, <2>1, <2>2 DEF DestroyEnds
<1>18. CASE UNCHANGED <<mapVars, stage, shell, put>>
  BY <1>18 DEF TablesOK, TableOK, Holders
<1>19. Start =>
     \/ UNCHANGED <<mapVars, stage, shell, put>> \/ AtBeginning
     \/ AfterRunning \/ HookContext \/ HookEnds
     \/ \E t \in Table : TableAdd(t) \/ NewCoordinator(t) \/ SetHandler(t)
  BY DEF Start, ReportEarly
<1>20. TableSet =>
     \/ ReadLine \/ ReadError \/ ReadEnds \/ PutTimesOut
     \/ TableSetReturns
     \/ \E t \in Table, file \in File : OpenFile(t, file)
     \/ \E w \in Worker : PutFile(w)
  BY DEF TableSet
<1>21. ASSUME NEW w \in Worker,
            OnPut(w) \/ \E t \in Table, list \in Other : ClientPuts(w, t, list)
     PROVE  \/ PutLooksUp(w)
            \/ PutStores(w)
            \/ PutReturns(w)
            \/ \E t \in Table, list \in Other : ClientPuts(w, t, list)
  BY <1>21 DEF OnPut
<1>22. ASSUME NEW t \in Table, Handler(t)
     PROVE  UNCHANGED <<mapVars, stage, shell, put>>
  BY <1>22 DEF Handler, Rebuild, EnterScope, LeaveScope, HandlerExits
<1>23. Exit =>
     \/ UNCHANGED <<mapVars, stage, shell, put>> \/ ExitCloses
     \/ ExitDropsContext \/ ExitEnds
     \/ \E t \in Table : ExitClears(t) \/ DestroyClears(t) \/ DestroyEnds(t)
  BY DEF Exit, UseFreed
<1> QED
  BY <1>1, <1>2, <1>3, <1>4, <1>5, <1>6, <1>7, <1>8, <1>9, <1>10, <1>11, <1>12,
     <1>13, <1>14, <1>15, <1>16, <1>17, <1>18, <1>19, <1>20, <1>21, <1>22, <1>23
  DEF Next, Terminated

(* A destructor runs in the thread that began it, until it has joined the   *)
(* handler and closed the channels.                                         *)
LEMMA DestructorsOKStep ==
  ASSUME StageTyped, HandlerTyped, DestroyerTyped, ShellTyped, PutTyped,
         ShellOK, TablesOK, DestructorsOK, PutsOK, Next
  PROVE  DestructorsOK'
<1>1. CASE AtBeginning \/ AfterRunning \/ HookContext \/ HookEnds
  BY <1>1
  DEF AtBeginning, AfterRunning, HookContext, HookEnds, DestructorsOK,
      DestructorOK, AtShell, StageTyped, HandlerTyped, DestroyerTyped,
      ShellTyped
<1>2. ASSUME NEW t \in Table,
            NewCoordinator(t) \/ SetHandler(t)
     PROVE  DestructorsOK'
  BY <1>2
  DEF NewCoordinator, SetHandler, DestructorsOK, DestructorOK, AtShell,
      StageTyped, HandlerTyped, DestroyerTyped, ShellTyped
<1>3. ASSUME NEW t \in Table, NEW file \in File,
            OpenFile(t, file)
     PROVE  DestructorsOK'
  BY <1>3
  DEF OpenFile, ShellOnly, DestructorsOK, DestructorOK, AtShell, StageTyped,
      HandlerTyped, DestroyerTyped, ShellTyped
<1>4. CASE ReadLine
  BY <1>4
  DEF ReadLine, ShellOnly, DestructorsOK, DestructorOK, AtShell, StageTyped,
      HandlerTyped, DestroyerTyped, ShellTyped
<1>5. CASE ReadError \/ TableSetReturns
  BY <1>5
  DEF ReadError, ShellOnly, TableSetReturns, DestructorsOK, DestructorOK,
      AtShell, StageTyped, HandlerTyped, DestroyerTyped, ShellTyped
<1>6. CASE ReadEnds
  BY <1>6
  DEF ReadEnds, ShellOnly, DestructorsOK, DestructorOK, AtShell, StageTyped,
      HandlerTyped, DestroyerTyped, ShellTyped
<1>7. ASSUME NEW w \in Worker, PutFile(w) PROVE DestructorsOK'
  BY <1>7
  DEF PutFile, ShellOnly, DestructorsOK, DestructorOK, AtShell, StageTyped,
      HandlerTyped, DestroyerTyped, ShellTyped
<1>8. CASE PutTimesOut
  BY <1>8, GivesUp
  DEF PutTimesOut, ShellOnly, DestructorsOK, DestructorOK, AtShell, StageTyped,
      HandlerTyped, DestroyerTyped, ShellTyped
<1>9. ASSUME NEW w \in Worker, PutLooksUp(w) PROVE DestructorsOK'
  <2>1. \A v \in Worker : put[v].pc = "destroy" => put'[v] = put[v]
    <3>1. CASE Complete(w)
      BY <1>9, <3>1, Completes DEF PutLooksUp
    <3>2. CASE put' = [put EXCEPT ![w].pc = "store"]
      BY <1>9, <3>2 DEF PutLooksUp, PutTyped
    <3> QED BY <1>9, <3>1, <3>2 DEF PutLooksUp
  <2>2. shell'.pc = shell.pc \/ shell.pc = "exec"
    BY <1>9, Completes DEF PutLooksUp, PutsOK
  <2> QED BY <1>9, <2>1, <2>2 DEF PutLooksUp, DestructorsOK, DestructorOK
<1>10. ASSUME NEW w \in Worker, PutStores(w) PROVE DestructorsOK'
  <2>1. \A v \in Worker : put[v].pc = "destroy" => put'[v] = put[v]
    BY <1>10 DEF PutStores, PutTyped
  <2> QED BY <1>10, <2>1 DEF PutStores, DestructorsOK, DestructorOK
<1>11. ASSUME NEW w \in Worker, PutReturns(w) PROVE DestructorsOK'
  <2>1. CASE Complete(w) /\ UNCHANGED <<stage, destroyer>>
    <3>1. \A v \in Worker : put[v].pc = "destroy" => put'[v] = put[v]
      BY <1>11, <2>1, Completes DEF PutReturns
    <3>2. shell'.pc = shell.pc \/ shell.pc = "exec"
      BY <2>1, Completes DEF PutsOK
    <3> QED BY <1>11, <2>1, <3>1, <3>2
    DEF PutReturns, DestructorsOK, DestructorOK
  <2>2. CASE /\ StopBy(put[w].table, w)
             /\ put' = [put EXCEPT ![w].pc = "destroy"]
             /\ UNCHANGED shell
    <3>1. \A v \in Worker : put[v].pc = "destroy" => put'[v] = put[v]
      BY <1>11, <2>2 DEF PutReturns, PutTyped
    <3>2. put'[w].pc = "destroy" /\ put'[w].table = put[w].table
      BY <2>2, PutMoves
    <3>3. put[w].table \in Table /\ stage[put[w].table] = "live"
      BY <1>11 DEF PutReturns, PutsOK, TablesOK, TableOK, Holders
    <3>4. w # "shell"
      OBVIOUS
    <3> QED
      BY <1>11, <2>2, <3>1, <3>2, <3>3, <3>4
      DEF PutReturns, StopBy, DestructorsOK, DestructorOK, StageTyped,
          DestroyerTyped
  <2> QED BY <1>11, <2>1, <2>2 DEF PutReturns
<1>12. ASSUME NEW w \in Worker, NEW t \in Table, NEW list \in Other,
            ClientPuts(w, t, list)
     PROVE  DestructorsOK'
  BY <1>12
  DEF ClientPuts, DestructorsOK, DestructorOK, AtShell, StageTyped,
      HandlerTyped, DestroyerTyped, ShellTyped
<1>13. ASSUME NEW t \in Table,
            Rebuild(t) \/ EnterScope(t) \/ LeaveScope(t) \/ HandlerExits(t)
     PROVE  DestructorsOK'
  BY <1>13
  DEF Rebuild, EnterScope, LeaveScope, HandlerExits, DestructorsOK,
      DestructorOK, AtShell, StageTyped, HandlerTyped, DestroyerTyped,
      ShellTyped
<1>14. CASE ExitCloses \/ ExitDropsContext \/ ExitEnds
  BY <1>14
  DEF ExitCloses, ExitDropsContext, ExitEnds, DestructorsOK, DestructorOK,
      AtShell, StageTyped, HandlerTyped, DestroyerTyped, ShellTyped
<1>15. ASSUME NEW t \in Table, ExitClears(t) PROVE DestructorsOK'
  <2>1. stage[t] \in {"none", "bare", "live"}
    BY <1>15 DEF ExitClears, TablesOK, TableOK
  <2>2. CASE Holders(t) # {}
    BY <1>15, <2>2 DEF ExitClears, DestructorsOK, DestructorOK
  <2>3. CASE Holders(t) = {}
    <3>1. stage[t] = "live"
      BY <1>15, <2>1 DEF ExitClears, ShellOK, Exiting, TablesOK, TableOK
    <3>2. \A u \in Table :
            stage[u] \in {"stopped", "clearing"} => destroyer[u] # "shell"
      BY <1>15 DEF ExitClears, DestructorsOK, DestructorOK
    <3> QED
      BY <1>15, <2>3, <3>1, <3>2
      DEF ExitClears, StopBy, AtShell, DestructorsOK, DestructorOK, StageTyped,
          DestroyerTyped
  <2> QED BY <2>2, <2>3
<1>16. ASSUME NEW t \in Table, DestroyClears(t) PROVE DestructorsOK'
  BY <1>16
  DEF DestroyClears, DestructorsOK, DestructorOK, AtShell, StageTyped,
      HandlerTyped, DestroyerTyped, ShellTyped
<1>17. ASSUME NEW t \in Table, DestroyEnds(t) PROVE DestructorsOK'
  <2>1. \A u \in Table \ {t} :
          stage'[u] = stage[u] /\ channels'[u] = channels[u]
    BY <1>17 DEF DestroyEnds, StageTyped, HandlerTyped
  <2>2. stage'[t] = "gone" /\ ~ channels'[t] /\ handler[t] = "exited"
    BY <1>17
    DEF DestroyEnds, StageTyped, HandlerTyped, DestructorsOK, DestructorOK
  <2>3. ASSUME NEW u \in Table \ {t}, stage[u] \in {"stopped", "clearing"}
        PROVE  \/ destroyer[u] = "shell" /\ shell'.pc = "destroy"
               \/ /\ destroyer[u] \in Worker
                  /\ put'[destroyer[u]].pc = "destroy"
                  /\ put'[destroyer[u]].table = u
    <3>1. CASE destroyer[t] = "shell" /\ UNCHANGED put
      BY <1>17, <2>3, <3>1 DEF DestroyEnds, DestructorsOK, DestructorOK
    <3>2. CASE destroyer[t] \in Worker /\ Complete(destroyer[t])
      <4>1. put[destroyer[t]].table = t
        BY <1>17, <3>2 DEF DestroyEnds, DestructorsOK, DestructorOK
      <4>2. shell'.pc = shell.pc \/ shell.pc = "exec"
        BY <3>2, Completes DEF PutsOK
      <4> QED BY <2>3, <3>2, <4>1, <4>2, Completes
    DEF DestructorsOK, DestructorOK
    <3> QED BY <1>17, <3>1, <3>2 DEF DestroyEnds
  <2> QED
    BY <1>17, <2>1, <2>2, <2>3 DEF DestroyEnds, DestructorsOK, DestructorOK
<1>18. CASE UNCHANGED <<stage, destroyer, handler, channels, shell, put>>
  BY <1>18 DEF DestructorsOK, DestructorOK
<1>19. Start =>
     \/ UNCHANGED <<stage, destroyer, handler, channels, shell, put>>
     \/ AtBeginning \/ AfterRunning \/ HookContext \/ HookEnds
     \/ \E t \in Table : NewCoordinator(t) \/ SetHandler(t)
  BY DEF Start, ReportEarly, TableAdd
<1>20. TableSet =>
     \/ ReadLine \/ ReadError \/ ReadEnds \/ PutTimesOut
     \/ TableSetReturns
     \/ \E t \in Table, file \in File : OpenFile(t, file)
     \/ \E w \in Worker : PutFile(w)
  BY DEF TableSet
<1>21. ASSUME NEW w \in Worker,
            OnPut(w) \/ \E t \in Table, list \in Other : ClientPuts(w, t, list)
     PROVE  \/ PutLooksUp(w)
            \/ PutStores(w)
            \/ PutReturns(w)
            \/ \E t \in Table, list \in Other : ClientPuts(w, t, list)
  BY <1>21 DEF OnPut
<1>22. ASSUME NEW t \in Table, Handler(t)
     PROVE  \/ Rebuild(t)
            \/ EnterScope(t)
            \/ LeaveScope(t)
            \/ HandlerExits(t)
  BY <1>22 DEF Handler
<1>23. Exit =>
     \/ UNCHANGED <<stage, destroyer, handler, channels, shell, put>>
     \/ ExitCloses \/ ExitDropsContext \/ ExitEnds
     \/ \E t \in Table : ExitClears(t) \/ DestroyClears(t) \/ DestroyEnds(t)
  BY DEF Exit, UseFreed
<1> QED
  BY <1>1, <1>2, <1>3, <1>4, <1>5, <1>6, <1>7, <1>8, <1>9, <1>10, <1>11, <1>12,
     <1>13, <1>14, <1>15, <1>16, <1>17, <1>18, <1>19, <1>20, <1>21, <1>22, <1>23
  DEF Next, Terminated

(* The shell waits for at most one put, which completes before the shell    *)
(* goes on or is given up.                                                  *)
LEMMA PutsOKStep ==
  ASSUME StageTyped, ShellTyped, PutTyped, ShellOK, TablesOK, DestructorsOK,
         PutsOK, Next
  PROVE  PutsOK'
<1>1. CASE AtBeginning \/ AfterRunning \/ HookContext \/ HookEnds
  BY <1>1
  DEF AtBeginning, AfterRunning, HookContext, HookEnds, PutsOK, HasHandler,
      AtShell, StageTyped, ShellTyped
<1>2. ASSUME NEW t \in Table, NewCoordinator(t) \/ SetHandler(t) PROVE PutsOK'
  BY <1>2
  DEF NewCoordinator, SetHandler, PutsOK, HasHandler, AtShell, StageTyped,
      ShellTyped
<1>3. ASSUME NEW t \in Table, NEW file \in File, OpenFile(t, file) PROVE PutsOK'
  BY <1>3
  DEF OpenFile, ShellOnly, PutsOK, HasHandler, AtShell, StageTyped, ShellTyped
<1>4. CASE ReadLine
  BY <1>4
  DEF ReadLine, ShellOnly, PutsOK, HasHandler, AtShell, StageTyped, ShellTyped
<1>5. CASE ReadError \/ TableSetReturns
  BY <1>5
  DEF ReadError, ShellOnly, TableSetReturns, PutsOK, HasHandler, AtShell,
      StageTyped, ShellTyped
<1>6. CASE ReadEnds
  BY <1>6
  DEF ReadEnds, ShellOnly, PutsOK, HasHandler, AtShell, StageTyped, ShellTyped
<1>7. ASSUME NEW w \in Worker, PutFile(w) PROVE PutsOK'
  <2>1. /\ shell'.pc = "exec"
        /\ shell'.table = shell.table /\ shell'.read = shell.read
    BY <1>7 DEF PutFile, ShellTyped
  <2>2. shell.table \in Table /\ HasHandler(shell.table)
    BY <1>7 DEF PutFile, ShellOK
  <2>3. \A v \in Worker : ~ put[v].awaited
    BY <1>7 DEF PutFile, PutsOK
  <2> QED
    BY <1>7, <2>1, <2>2, <2>3
    DEF PutFile, ShellOnly, PutsOK, HasHandler, PutTyped
<1>8. CASE PutTimesOut
  BY <1>8, GivesUp
  DEF PutTimesOut, ShellOnly, PutsOK, HasHandler, AtShell, StageTyped,
      ShellTyped
<1>9. ASSUME NEW w \in Worker, PutLooksUp(w) PROVE PutsOK'
  <2>1. CASE Complete(w)
    BY <1>9, <2>1, Completes DEF PutLooksUp, PutsOK, HasHandler, Idle
  <2>2. CASE put' = [put EXCEPT ![w].pc = "store"] /\ UNCHANGED shell
    <3>1. /\ put'[w].pc = "store" /\ put'[w].table = put[w].table
          /\ put'[w].list = put[w].list /\ put'[w].awaited = put[w].awaited
          /\ \A v \in Worker \ {w} : put'[v] = put[v]
      BY <2>2, PutMoves
    <3> QED BY <1>9, <2>2, <3>1 DEF PutLooksUp, PutsOK, HasHandler
  <2> QED BY <1>9, <2>1, <2>2 DEF PutLooksUp
<1>10. ASSUME NEW w \in Worker, PutStores(w) PROVE PutsOK'
  <2>1. /\ put'[w].pc = "post" /\ put'[w].table = put[w].table
        /\ put'[w].list = put[w].list /\ put'[w].awaited = put[w].awaited
        /\ \A v \in Worker \ {w} : put'[v] = put[v]
    BY <1>10, PutMoves DEF PutStores
  <2> QED BY <1>10, <2>1 DEF PutStores, PutsOK, HasHandler
<1>11. ASSUME NEW w \in Worker, PutReturns(w) PROVE PutsOK'
  <2>1. CASE Complete(w) /\ UNCHANGED stage
    BY <1>11, <2>1, Completes DEF PutReturns, PutsOK, HasHandler, Idle
  <2>2. CASE /\ StopBy(put[w].table, w) /\ UNCHANGED shell
             /\ put' = [put EXCEPT ![w].pc = "destroy"]
    <3>1. \A t \in Table : HasHandler(t) => HasHandler(t)'
      BY <2>2 DEF StopBy, HasHandler, StageTyped
    <3>2. /\ put'[w].pc = "destroy" /\ put'[w].table = put[w].table
          /\ put'[w].list = put[w].list /\ put'[w].awaited = put[w].awaited
          /\ \A v \in Worker \ {w} : put'[v] = put[v]
      BY <2>2, PutMoves
    <3> QED BY <1>11, <2>2, <3>1, <3>2 DEF PutReturns, PutsOK
  <2> QED BY <1>11, <2>1, <2>2 DEF PutReturns
<1>12. ASSUME NEW w \in Worker, NEW t \in Table, NEW list \in Other,
            ClientPuts(w, t, list)
     PROVE  PutsOK'
  BY <1>12 DEF ClientPuts, PutsOK, HasHandler, AtShell, StageTyped, ShellTyped
<1>13. CASE ExitCloses \/ ExitDropsContext \/ ExitEnds
  BY <1>13
  DEF ExitCloses, ExitDropsContext, ExitEnds, PutsOK, HasHandler, AtShell,
      StageTyped, ShellTyped
<1>14. ASSUME NEW t \in Table, ExitClears(t) \/ DestroyClears(t) PROVE PutsOK'
  BY <1>14
  DEF ExitClears, StopBy, DestroyClears, PutsOK, HasHandler, AtShell,
      StageTyped, ShellTyped
<1>15. ASSUME NEW t \in Table, DestroyEnds(t) PROVE PutsOK'
  <2>1. \A u \in Table : HasHandler(u) => HasHandler(u)'
    BY <1>15 DEF DestroyEnds, HasHandler, StageTyped
  <2>2. CASE /\ destroyer[t] = "shell"
             /\ shell' = AtShell("clear") /\ UNCHANGED put
    <3>1. shell.pc = "destroy"
      BY <1>15, <2>2 DEF DestroyEnds, DestructorsOK, DestructorOK
    <3> QED BY <2>1, <2>2, <3>1 DEF PutsOK
  <2>3. CASE destroyer[t] \in Worker /\ Complete(destroyer[t])
    BY <2>1, <2>3, Completes DEF PutsOK, Idle
  <2> QED BY <1>15, <2>2, <2>3 DEF DestroyEnds
<1>16. CASE UNCHANGED <<stage, shell, put>>
  BY <1>16 DEF PutsOK, HasHandler
<1>17. Start =>
     \/ UNCHANGED <<stage, shell, put>> \/ AtBeginning \/ AfterRunning
     \/ HookContext \/ HookEnds
     \/ \E t \in Table : NewCoordinator(t) \/ SetHandler(t)
  BY DEF Start, ReportEarly, TableAdd
<1>18. TableSet =>
     \/ ReadLine \/ ReadError \/ ReadEnds \/ PutTimesOut
     \/ TableSetReturns
     \/ \E t \in Table, file \in File : OpenFile(t, file)
     \/ \E w \in Worker : PutFile(w)
  BY DEF TableSet
<1>19. ASSUME NEW w \in Worker,
            OnPut(w) \/ \E t \in Table, list \in Other : ClientPuts(w, t, list)
     PROVE  \/ PutLooksUp(w)
            \/ PutStores(w)
            \/ PutReturns(w)
            \/ \E t \in Table, list \in Other : ClientPuts(w, t, list)
  BY <1>19 DEF OnPut
<1>20. ASSUME NEW t \in Table, Handler(t)
     PROVE  UNCHANGED <<stage, shell, put>>
  BY <1>20 DEF Handler, Rebuild, EnterScope, LeaveScope, HandlerExits
<1>21. Exit =>
     \/ UNCHANGED <<stage, shell, put>> \/ ExitCloses \/ ExitDropsContext
     \/ ExitEnds
     \/ \E t \in Table : ExitClears(t) \/ DestroyClears(t) \/ DestroyEnds(t)
  BY DEF Exit, UseFreed
<1> QED
  BY <1>1, <1>2, <1>3, <1>4, <1>5, <1>6, <1>7, <1>8, <1>9, <1>10, <1>11, <1>12,
     <1>13, <1>14, <1>15, <1>16, <1>17, <1>18, <1>19, <1>20, <1>21
  DEF Next, Terminated

(* When all are out of the map, and the shell destroys none, a Coordinator  *)
(* is not there yet, is gone, or is kept by a worker.                       *)
LEMMA LateOnes ==
  ASSUME StageTyped, ShellOK, TablesOK, DestructorsOK,
         shell.pc \in {"drop", "done"}, NEW t \in Table,
         stage[t] \notin {"none", "gone"}
  PROVE  Late(t)
<1>1. CASE stage[t] = "live"
  BY <1>1 DEF ShellOK, TablesOK, TableOK, Holders, Late
<1>2. CASE stage[t] \in {"stopped", "clearing"}
  BY <1>2 DEF DestructorsOK, DestructorOK, Late
<1>3. stage[t] # "bare"
  BY DEF TablesOK, TableOK
<1> QED BY <1>1, <1>2, <1>3 DEF StageTyped

(* Only a Coordinator that a worker keeps is there when the context is not. *)
LEMMA FateOKStep ==
  ASSUME StageTyped, HandlerTyped, PutTyped, ShellOK, TablesOK, DestructorsOK,
         FateOK, Next
  PROVE  FateOK'
<1>1. CASE HookContext \/ ReportEarly
  BY <1>1 DEF HookContext, ReportEarly, FateOK, Alive
<1>2. ASSUME NEW w \in Worker, PutFile(w) PROVE FateOK'
  BY <1>2 DEF PutFile, ShellOnly, FateOK, Alive
<1>3. CASE PutTimesOut
  BY <1>3 DEF PutTimesOut, ShellOnly, FateOK, Alive
<1>4. ASSUME NEW w \in Worker,
            PutLooksUp(w) \/ PutStores(w) \/ PutReturns(w)
     PROVE  FateOK'
  BY <1>4 DEF PutLooksUp, Complete, PutStores, PutReturns, StopBy, FateOK, Alive
<1>5. ASSUME NEW w \in Worker, NEW t \in Table, NEW list \in Other,
            ClientPuts(w, t, list)
     PROVE  FateOK'
  BY <1>5 DEF ClientPuts, FateOK, Alive
<1>6. ASSUME NEW t \in Table, DestroyEnds(t) PROVE FateOK'
  BY <1>6 DEF DestroyEnds, Complete, FateOK, Alive
<1>7. CASE UseFreed
  <2>1. PICK t \in Table : stage[t] \notin {"none", "gone"}
    BY <1>7 DEF UseFreed
  <2>2. Late(t)
    BY <1>7, <2>1, LateOnes DEF UseFreed
  <2> QED BY <1>7, <2>2 DEF UseFreed, FateOK, Late
<1>8. CASE UNCHANGED <<fate, put>>
  BY <1>8 DEF FateOK, Late
<1>9. Start => UNCHANGED <<fate, put>> \/ HookContext \/ ReportEarly
  BY DEF Start, AtBeginning, AfterRunning, HookEnds, TableAdd, NewCoordinator,
         SetHandler
<1>10. TableSet =>
     \/ UNCHANGED <<fate, put>> \/ PutTimesOut
     \/ \E w \in Worker : PutFile(w)
  BY DEF TableSet, OpenFile, ShellOnly, ReadLine, ReadError, ReadEnds,
         TableSetReturns
<1>11. ASSUME NEW w \in Worker,
            OnPut(w) \/ \E t \in Table, list \in Other : ClientPuts(w, t, list)
     PROVE  \/ PutLooksUp(w)
            \/ PutStores(w)
            \/ PutReturns(w)
            \/ \E t \in Table, list \in Other : ClientPuts(w, t, list)
  BY <1>11 DEF OnPut
<1>12. ASSUME NEW t \in Table, Handler(t)
     PROVE  UNCHANGED <<fate, put>>
  BY <1>12 DEF Handler, Rebuild, EnterScope, LeaveScope, HandlerExits
<1>13. Exit =>
     \/ UNCHANGED <<fate, put>> \/ UseFreed
     \/ \E t \in Table : DestroyEnds(t)
  BY DEF Exit, ExitCloses, ExitClears, StopBy, ExitDropsContext, ExitEnds,
         DestroyClears
<1> QED
  BY <1>1, <1>2, <1>3, <1>4, <1>5, <1>6, <1>7, <1>8, <1>9, <1>10, <1>11, <1>12,
     <1>13
  DEF Next, Terminated

-----------------------------------------------------------------------------
(* What bsasTableSet reads *)

(* The list before the first line, after a line that is passed over, and    *)
(* after a line with a name.                                                *)
LEMMA NothingRead ==
  ASSUME NEW file \in Seq(Line)
  PROVE  ListsFirst(0, file, <<>>)
<1> DEFINE line == [i \in {} |-> 0]
<1>1. line \in [1 .. Len(<<>>) -> 1 .. 0] /\ 1 .. Len(<<>>) = {}
  OBVIOUS
<1> QED BY <1>1 DEF ListsFirst

LEMMA LinePassedOver ==
  ASSUME NEW file \in Seq(Line), NEW n \in Nat, n < Len(file),
         NEW list \in Seq(Name), ListsFirst(n, file, list),
         file[n + 1] \notin Name
  PROVE  ListsFirst(n + 1, file, list)
<1>1. PICK line \in [1 .. Len(list) -> 1 .. n] :
        /\ \A i, j \in 1 .. Len(list) : i < j => line[i] < line[j]
        /\ \A i \in 1 .. Len(list) : list[i] = file[line[i]]
        /\ {line[i] : i \in 1 .. Len(list)} = {k \in 1 .. n : file[k] \in Name}
  BY DEF ListsFirst
<1>2. line \in [1 .. Len(list) -> 1 .. n + 1]
  OBVIOUS
<1>3. {k \in 1 .. n : file[k] \in Name} = {k \in 1 .. n + 1 : file[k] \in Name}
  OBVIOUS
<1> QED BY <1>1, <1>2, <1>3 DEF ListsFirst

LEMMA LineRead ==
  ASSUME NEW file \in Seq(Line), NEW n \in Nat, n < Len(file),
         NEW list \in Seq(Name), ListsFirst(n, file, list), file[n + 1] \in Name
  PROVE  ListsFirst(n + 1, file, Append(list, file[n + 1]))
<1>1. PICK line \in [1 .. Len(list) -> 1 .. n] :
        /\ \A i, j \in 1 .. Len(list) : i < j => line[i] < line[j]
        /\ \A i \in 1 .. Len(list) : list[i] = file[line[i]]
        /\ {line[i] : i \in 1 .. Len(list)} = {k \in 1 .. n : file[k] \in Name}
  BY DEF ListsFirst
<1> DEFINE more == Append(list, file[n + 1])
           last == Len(list) + 1
           to == [i \in 1 .. last |-> IF i = last THEN n + 1 ELSE line[i]]
<1>2. /\ Len(more) = last
      /\ more[last] = file[n + 1]
      /\ \A i \in 1 .. Len(list) : more[i] = list[i]
  OBVIOUS
<1>3. to \in [1 .. last -> 1 .. n + 1]
  OBVIOUS
<1>4. \A i, j \in 1 .. last : i < j => to[i] < to[j]
  <2>1. SUFFICES ASSUME NEW i \in 1 .. last, NEW j \in 1 .. last, i < j
                 PROVE  to[i] < to[j]
    OBVIOUS
  <2>2. i \in 1 .. Len(list) /\ to[i] = line[i] /\ line[i] \in 1 .. n
    BY <2>1
  <2>3. CASE j = last
    BY <2>2, <2>3
  <2>4. CASE j # last
    <3>1. j \in 1 .. Len(list) /\ to[j] = line[j]
      BY <2>4
    <3> QED BY <1>1, <2>1, <2>2, <3>1
  <2> QED BY <2>3, <2>4
<1>5. \A i \in 1 .. last : more[i] = file[to[i]]
  BY <1>1, <1>2
<1>6. {to[i] : i \in 1 .. last} = {k \in 1 .. n + 1 : file[k] \in Name}
  <2>1. {to[i] : i \in 1 .. last} =
          {line[i] : i \in 1 .. Len(list)} \cup {n + 1}
    <3>1. \A i \in 1 .. Len(list) : to[i] = line[i] /\ i \in 1 .. last
      OBVIOUS
    <3>2. to[last] = n + 1 /\ last \in 1 .. last
      OBVIOUS
    <3>3. \A i \in 1 .. last : i = last \/ i \in 1 .. Len(list)
      OBVIOUS
    <3> HIDE DEF to, last
    <3> QED BY <3>1, <3>2, <3>3
  <2>2. {k \in 1 .. n + 1 : file[k] \in Name} =
          {k \in 1 .. n : file[k] \in Name} \cup {n + 1}
    OBVIOUS
  <2> QED BY <1>1, <2>1, <2>2
<1> HIDE DEF to, more, last
<1> QED BY <1>2, <1>3, <1>4, <1>5, <1>6 DEF ListsFirst, more

(* Reading keeps to the lines in their order, and stops at the end or       *)
(* fails.                                                                   *)
LEMMA ReadOKStep ==
  ASSUME FateTyped, ShellTyped, PutTyped, PutsOK, ReadOK, Next
  PROVE  ReadOK'
<1>1. CASE AtBeginning \/ AfterRunning \/ HookContext \/ HookEnds
  BY <1>1
  DEF AtBeginning, AfterRunning, HookContext, HookEnds, ReadOK, Reading, OfFile,
      AtShell
<1>2. ASSUME NEW t \in Table, NEW file \in File, OpenFile(t, file) PROVE ReadOK'
  <2>1. /\ shell'.rest = file /\ shell'.read = <<>> /\ sets' = sets + 1
        /\ shell'.pc = "reading"
    BY <1>2 DEF OpenFile
  <2>2. file \in Seq(Line)
    OBVIOUS
  <2>3. Reading(file, 0)'
    BY <2>1, <2>2, NothingRead DEF Reading
  <2> QED BY <2>1, <2>3 DEF ReadOK, FateTyped
<1>3. CASE ReadLine
  <2>1. PICK file \in File, n \in Nat : Reading(file, n)
    BY <1>3 DEF ReadLine, ReadOK
  <2>2. /\ file \in Seq(Line)
        /\ shell.rest \in Seq(Line) /\ shell.read \in Seq(Name)
    BY DEF ShellTyped
  <2>3. Len(shell.rest) > 0 /\ n < Len(file) /\ Head(shell.rest) = file[n + 1]
    BY <1>3, <2>1, <2>2 DEF ReadLine, Reading
  <2>4. /\ shell'.rest = Tail(shell.rest) /\ shell'.pc = "reading"
        /\ shell'.read = IF file[n + 1] \in Name
                         THEN Append(shell.read, file[n + 1]) ELSE shell.read
    BY <1>3, <2>3 DEF ReadLine, ShellTyped
  <2>5. ListsFirst(n + 1, file, shell'.read)
    BY <2>1, <2>2, <2>3, <2>4, LineRead, LinePassedOver DEF Reading
  <2>6. /\ Len(shell'.rest) = Len(file) - (n + 1)
        /\ \A i \in 1 .. Len(shell'.rest) : shell'.rest[i] = file[(n + 1) + i]
    <3>1. /\ Len(shell'.rest) = Len(shell.rest) - 1
          /\ \A i \in 1 .. Len(shell'.rest) : shell'.rest[i] = shell.rest[i + 1]
      BY <2>2, <2>3, <2>4
    <3>2. ASSUME NEW i \in 1 .. Len(shell'.rest)
          PROVE  shell'.rest[i] = file[(n + 1) + i]
      <4>1. i + 1 \in 1 .. Len(shell.rest) /\ n + (i + 1) = (n + 1) + i
        BY <2>2, <3>1
      <4> QED BY <2>1, <3>1, <4>1 DEF Reading
    <3>3. Len(shell'.rest) = Len(file) - (n + 1)
      BY <2>1, <2>2, <2>3, <3>1 DEF Reading
    <3> QED BY <3>2, <3>3
  <2>7. Reading(file, n + 1)'
    BY <2>2, <2>3, <2>5, <2>6 DEF Reading
  <2> QED BY <1>3, <2>4, <2>7 DEF ReadLine, ReadOK
<1>4. CASE ReadError \/ PutTimesOut \/ TableSetReturns
  BY <1>4
  DEF ReadError, ShellOnly, PutTimesOut, TableSetReturns, ReadOK, Reading,
      OfFile, AtShell
<1>5. CASE ReadEnds
  <2>1. PICK file \in File, n \in Nat : Reading(file, n)
    BY <1>5 DEF ReadEnds, ReadOK
  <2>2. n = Len(file)
    BY <1>5, <2>1 DEF ReadEnds, Reading
  <2>3. OfFile(shell.read)
    BY <2>1, <2>2 DEF Reading, OfFile, Lists
  <2> QED BY <1>5, <2>3 DEF ReadEnds, ReadOK, OfFile, ShellTyped
<1>6. ASSUME NEW w \in Worker, PutFile(w) PROVE ReadOK'
  BY <1>6 DEF PutFile, ReadOK, OfFile, ShellTyped
<1>7. ASSUME NEW w \in Worker, PutLooksUp(w) PROVE ReadOK'
  <2>1. shell' = shell \/ /\ shell.pc = "exec" /\ shell'.pc = "finished"
                          /\ shell'.read = shell.read
    BY <1>7, Completes DEF PutLooksUp, PutsOK
  <2> QED BY <1>7, <2>1 DEF PutLooksUp, ReadOK, OfFile, Reading
<1>8. ASSUME NEW w \in Worker, PutReturns(w) PROVE ReadOK'
  <2>1. shell' = shell \/ /\ shell.pc = "exec" /\ shell'.pc = "finished"
                          /\ shell'.read = shell.read
    BY <1>8, Completes DEF PutReturns, PutsOK
  <2> QED BY <1>8, <2>1 DEF PutReturns, ReadOK, OfFile, Reading
<1>9. CASE ExitCloses \/ ExitDropsContext \/ ExitEnds
  BY <1>9
  DEF ExitCloses, ExitDropsContext, ExitEnds, ReadOK, Reading, OfFile, AtShell
<1>10. ASSUME NEW t \in Table, ExitClears(t) PROVE ReadOK'
  BY <1>10 DEF ExitClears, StopBy, ReadOK, Reading, OfFile, AtShell
<1>11. ASSUME NEW t \in Table, DestroyEnds(t) PROVE ReadOK'
  <2>1. \/ shell' = shell
        \/ shell' = AtShell("clear")
        \/ /\ shell.pc = "exec" /\ shell'.pc = "finished"
           /\ shell'.read = shell.read
    BY <1>11, Completes DEF DestroyEnds, PutsOK
  <2> QED BY <1>11, <2>1 DEF DestroyEnds, ReadOK, OfFile, Reading, AtShell
<1>12. CASE UNCHANGED <<shell, sets>>
  BY <1>12 DEF ReadOK, Reading, OfFile
<1>13. Start =>
     \/ UNCHANGED <<shell, sets>> \/ AtBeginning \/ AfterRunning
     \/ HookContext \/ HookEnds
  BY DEF Start, ReportEarly, TableAdd, NewCoordinator, SetHandler
<1>14. TableSet =>
     \/ ReadLine \/ ReadError \/ ReadEnds \/ PutTimesOut
     \/ TableSetReturns
     \/ \E t \in Table, file \in File : OpenFile(t, file)
     \/ \E w \in Worker : PutFile(w)
  BY DEF TableSet
<1>15. ASSUME NEW w \in Worker,
            OnPut(w) \/ \E t \in Table, list \in Other : ClientPuts(w, t, list)
     PROVE  \/ UNCHANGED <<shell, sets>>
            \/ PutLooksUp(w)
            \/ PutReturns(w)
  BY <1>15 DEF OnPut, PutStores, ClientPuts
<1>16. ASSUME NEW t \in Table, Handler(t)
     PROVE  UNCHANGED <<shell, sets>>
  BY <1>16 DEF Handler, Rebuild, EnterScope, LeaveScope, HandlerExits
<1>17. Exit =>
     \/ UNCHANGED <<shell, sets>> \/ ExitCloses \/ ExitDropsContext
     \/ ExitEnds
     \/ \E t \in Table : ExitClears(t) \/ DestroyEnds(t)
  BY DEF Exit, DestroyClears, UseFreed
<1> QED
  BY <1>1, <1>2, <1>3, <1>4, <1>5, <1>6, <1>7, <1>8, <1>9, <1>10, <1>11, <1>12,
     <1>13, <1>14, <1>15, <1>16, <1>17
  DEF Next, Terminated

(* A put stores a whole list: of another client, or of a file. *)
LEMMA ListsOKStep ==
  ASSUME FateTyped, SignalsTyped, ShellTyped, PutTyped, ShellOK, TablesOK,
         DestructorsOK, PutsOK, ReadOK, ListsOK, Next
  PROVE  ListsOK'
<1>1. CASE AtBeginning \/ AfterRunning \/ HookContext
  BY <1>1
  DEF AtBeginning, AfterRunning, HookContext, ListsOK, TakenWhole, TakesEffect,
      Foreigner, Effect, OfFile, AtShell
<1>2. CASE HookEnds
  BY <1>2
  DEF HookEnds, ListsOK, TakenWhole, TakesEffect, Foreigner, Effect, OfFile,
      AtShell
<1>3. ASSUME NEW t \in Table, NEW file \in File,
            OpenFile(t, file)
     PROVE  ListsOK'
  BY <1>3
  DEF OpenFile, ShellOnly, ListsOK, TakenWhole, TakesEffect, Foreigner, Effect,
      OfFile, AtShell, ReadOK, FateTyped
<1>4. CASE ReadLine
  BY <1>4
  DEF ReadLine, ShellOnly, ListsOK, TakenWhole, TakesEffect, Foreigner, Effect,
      OfFile, AtShell
<1>5. CASE ReadError \/ TableSetReturns
  BY <1>5
  DEF ReadError, ShellOnly, TableSetReturns, ListsOK, TakenWhole, TakesEffect,
      Foreigner, Effect, OfFile, AtShell
<1>6. CASE ReadEnds
  BY <1>6
  DEF ReadEnds, ShellOnly, ListsOK, TakenWhole, TakesEffect, Foreigner, Effect,
      OfFile, AtShell
<1>7. ASSUME NEW w \in Worker, PutFile(w) PROVE ListsOK'
  BY <1>7
  DEF PutFile, ShellOnly, ListsOK, TakenWhole, TakesEffect, Foreigner, Effect,
      OfFile, AtShell
<1>8. CASE PutTimesOut
  BY <1>8, GivesUp
  DEF PutTimesOut, ShellOnly, ListsOK, TakenWhole, TakesEffect, Foreigner,
      Effect, OfFile, AtShell, ReadOK, PutsOK
<1>9. ASSUME NEW w \in Worker, PutLooksUp(w) PROVE ListsOK'
  <2>1. CASE put' = [put EXCEPT ![w].pc = "store"] /\ UNCHANGED shell
    <3>1. /\ put'[w].pc = "store" /\ put'[w].list = put[w].list
          /\ put'[w].awaited = put[w].awaited
          /\ \A v \in Worker \ {w} : put'[v] = put[v]
      BY <2>1, PutMoves
    <3> QED
      BY <1>9, <2>1, <3>1
      DEF PutLooksUp, ListsOK, TakenWhole, TakesEffect, Foreigner, Effect,
          OfFile
  <2>2. CASE put[w].table \notin coordinators /\ Complete(w)
    <3>1. ~ put[w].awaited
      BY <1>9, <2>2
      DEF PutLooksUp, PutsOK, HasHandler, ShellOK, Exiting, TablesOK, TableOK
    <3> QED
      BY <1>9, <2>2, <3>1, Completes
      DEF PutLooksUp, ListsOK, TakenWhole, TakesEffect, Foreigner, Effect,
          OfFile, Idle
  <2> QED BY <1>9, <2>1, <2>2 DEF PutLooksUp
<1>10. ASSUME NEW w \in Worker, PutStores(w) PROVE ListsOK'
  <2> DEFINE t == put[w].table
             list == put[w].list
  <2>1. /\ put'[w].pc = "post" /\ put'[w].table = t /\ put'[w].list = list
        /\ put'[w].awaited = put[w].awaited
        /\ \A v \in Worker \ {w} : put'[v] = put[v]
    BY <1>10, PutMoves DEF PutStores
  <2>2. /\ t \in Table /\ signals'[t] = list
        /\ \A u \in Table \ {t} : signals'[u] = signals[u]
    BY <1>10 DEF PutStores, PutsOK, SignalsTyped
  <2>3. IF put[w].awaited
        THEN /\ OfFile(list) /\ shell.pc = "exec"
             /\ t = shell.table /\ list = shell.read
        ELSE Foreigner(list)
    BY <1>10 DEF PutStores, ListsOK, PutsOK, ReadOK
  <2>4. UNCHANGED <<shell, puts, sets>>
    BY <1>10 DEF PutStores
  <2> HIDE DEF t, list
  <2>5. TakenWhole'
    BY <2>2, <2>3 DEF TakenWhole, Foreigner, OfFile, ListsOK
  <2>6. ASSUME NEW v \in Worker, put'[v].pc # "idle", ~ put'[v].awaited
        PROVE  Foreigner(put[v].list)'
    <3>1. Foreigner(put'[v].list)
      BY <1>10, <2>1, <2>3, <2>6 DEF ListsOK, PutStores
    <3> QED BY <2>4, <3>1 DEF Foreigner, OfFile
  <2>7. ASSUME NEW u \in Table, NEW kept \in Seq(Name), Effect(u, kept),
               shell.pc \in {"exec", "finished"}, ~ put[w].awaited
        PROVE  Effect(u, kept)'
    BY <2>2, <2>3, <2>4, <2>7 DEF Effect, Foreigner, OfFile
  <2>8. ASSUME NEW v \in Worker, put'[v].pc \in {"post", "destroy"},
               put'[v].awaited
        PROVE  Effect(put[v].table, put[v].list)'
    <3>1. CASE v = w
      BY <2>1, <2>2, <3>1 DEF Effect
    <3>2. CASE v # w
      <4>1. put'[v] = put[v] /\ ~ put[w].awaited /\ shell.pc = "exec"
        BY <2>1, <2>8, <3>2 DEF PutsOK
      <4>2. put[v].table \in Table /\ put[v].list \in Seq(Name)
        BY <2>8, <4>1 DEF PutsOK, PutTyped
      <4>3. Effect(put[v].table, put[v].list)
        BY <2>8, <4>1 DEF ListsOK
      <4> QED BY <2>7, <4>1, <4>2, <4>3 DEF Effect
    <3> QED BY <3>1, <3>2
  <2>9. TakesEffect'
    <3>1. SUFFICES ASSUME shell.pc = "finished"
                   PROVE  Effect(shell.table, shell.read)'
      BY <2>4 DEF TakesEffect, Effect, OfFile
    <3>2. shell.table \in Table /\ shell.read \in Seq(Name) /\ ~ put[w].awaited
      BY <3>1 DEF ShellOK, ShellTyped, PutsOK
    <3>3. Effect(shell.table, shell.read)
      BY <3>1 DEF ListsOK, TakesEffect, Effect, OfFile
    <3> QED BY <2>4, <2>7, <3>1, <3>2, <3>3 DEF Effect
  <2> QED BY <2>5, <2>6, <2>8, <2>9 DEF ListsOK
<1>11. ASSUME NEW w \in Worker, PutReturns(w) PROVE ListsOK'
  <2>1. CASE put' = [put EXCEPT ![w].pc = "destroy"] /\ UNCHANGED shell
    <3>1. /\ put'[w].pc = "destroy" /\ put'[w].list = put[w].list
          /\ put'[w].table = put[w].table
          /\ put'[w].awaited = put[w].awaited
          /\ \A v \in Worker \ {w} : put'[v] = put[v]
      BY <2>1, PutMoves
    <3> QED
      BY <1>11, <2>1, <3>1
      DEF PutReturns, ListsOK, TakenWhole, TakesEffect, Foreigner, Effect,
          OfFile
  <2>2. CASE Complete(w)
    <3>1. put[w].awaited => Effect(shell.table, shell.read)
      BY <1>11, <2>2 DEF PutReturns, PutsOK, ListsOK
    <3> QED
      BY <1>11, <2>2, <3>1, Completes
      DEF PutReturns, ListsOK, TakenWhole, TakesEffect, Foreigner, Effect,
          OfFile, Idle, PutsOK
  <2> QED BY <1>11, <2>1, <2>2 DEF PutReturns
<1>12. ASSUME NEW w \in Worker, NEW t \in Table, NEW list \in Other,
            ClientPuts(w, t, list)
     PROVE  ListsOK'
  <2>1. /\ put'[w].pc # "idle" /\ put'[w].list = list /\ ~ put'[w].awaited
        /\ put'[w].pc = "lookup"
        /\ \A v \in Worker \ {w} : put'[v] = put[v]
    BY <1>12 DEF ClientPuts, PutTyped
  <2>2. puts' = puts + 1 /\ puts' > 0
    BY <1>12 DEF ClientPuts, FateTyped
  <2> QED
    BY <1>12, <2>1, <2>2
    DEF ClientPuts, ListsOK, TakenWhole, TakesEffect, Foreigner, Effect, OfFile
<1>13. CASE ExitCloses \/ ExitDropsContext \/ ExitEnds
  BY <1>13
  DEF ExitCloses, ExitDropsContext, ExitEnds, ListsOK, TakenWhole, TakesEffect,
      Foreigner, Effect, OfFile, AtShell
<1>14. ASSUME NEW t \in Table, ExitClears(t) PROVE ListsOK'
  BY <1>14
  DEF ExitClears, StopBy, ListsOK, TakenWhole, TakesEffect, Foreigner, Effect,
      OfFile, AtShell
<1>15. ASSUME NEW t \in Table, DestroyEnds(t) PROVE ListsOK'
  <2>1. CASE shell' = AtShell("clear") /\ UNCHANGED put
    BY <1>15, <2>1
    DEF DestroyEnds, ListsOK, TakenWhole, TakesEffect, Foreigner, Effect,
        OfFile, AtShell
  <2>2. CASE destroyer[t] \in Worker /\ Complete(destroyer[t])
    <3>1. put[destroyer[t]].pc = "destroy"
      BY <1>15, <2>2 DEF DestroyEnds, DestructorsOK, DestructorOK
    <3>2. put[destroyer[t]].awaited => Effect(shell.table, shell.read)
      BY <2>2, <3>1 DEF PutsOK, ListsOK
    <3> QED
      BY <1>15, <2>2, <3>2, Completes
      DEF DestroyEnds, ListsOK, TakenWhole, TakesEffect, Foreigner, Effect,
          OfFile, Idle, PutsOK
  <2> QED BY <1>15, <2>1, <2>2 DEF DestroyEnds
<1>16. CASE UNCHANGED <<signals, shell, put, puts, sets>>
  BY <1>16 DEF ListsOK, TakenWhole, TakesEffect, Foreigner, Effect, OfFile
<1>17. Start =>
     \/ UNCHANGED <<signals, shell, put, puts, sets>> \/ AtBeginning
     \/ AfterRunning \/ HookContext \/ HookEnds
  BY DEF Start, ReportEarly, TableAdd, NewCoordinator, SetHandler
<1>18. TableSet =>
     \/ ReadLine \/ ReadError \/ ReadEnds \/ PutTimesOut
     \/ TableSetReturns
     \/ \E t \in Table, file \in File : OpenFile(t, file)
     \/ \E w \in Worker : PutFile(w)
  BY DEF TableSet
<1>19. ASSUME NEW w \in Worker,
            OnPut(w) \/ \E t \in Table, list \in Other : ClientPuts(w, t, list)
     PROVE  \/ PutLooksUp(w)
            \/ PutStores(w)
            \/ PutReturns(w)
            \/ \E t \in Table, list \in Other : ClientPuts(w, t, list)
  BY <1>19 DEF OnPut
<1>20. ASSUME NEW t \in Table, Handler(t)
     PROVE  UNCHANGED <<signals, shell, put, puts, sets>>
  BY <1>20 DEF Handler, Rebuild, EnterScope, LeaveScope, HandlerExits
<1>21. Exit =>
     \/ UNCHANGED <<signals, shell, put, puts, sets>> \/ ExitCloses
     \/ ExitDropsContext \/ ExitEnds
     \/ \E t \in Table : ExitClears(t) \/ DestroyEnds(t)
  BY DEF Exit, DestroyClears, UseFreed
<1> QED
  BY <1>1, <1>2, <1>3, <1>4, <1>5, <1>6, <1>7, <1>8, <1>9, <1>10, <1>11, <1>12,
     <1>13, <1>14, <1>15, <1>16, <1>17, <1>18, <1>19, <1>20, <1>21
  DEF Next, Terminated

-----------------------------------------------------------------------------
(* The theorems *)

LEMMA InitHolds == Init => IInv
<1> SUFFICES ASSUME Init PROVE IInv
  OBVIOUS
<1>1. <<>> \in Seq(Line) /\ <<>> \in Seq(Name)
  OBVIOUS
<1>2. TypeOK
  BY <1>1 DEF Init, CAInit, NoCall, AtShell, Idle, TypeOK
<1>3. CallsOK /\ ContextOK
  BY DEF Init, CAInit, NoCall, AtShell, CallsOK, CallOK, ContextOK, In,
         Constructing
<1>4. ShellOK /\ TablesOK /\ DestructorsOK
  BY DEF Init, AtShell, Idle, ShellOK, Exiting, TablesOK, TableOK, Holders,
         DestructorsOK, DestructorOK
<1>5. PutsOK /\ FateOK /\ ReadOK /\ ListsOK
  BY DEF Init, AtShell, Idle, PutsOK, FateOK, ReadOK, ListsOK, TakenWhole,
         TakesEffect
<1> QED BY <1>2, <1>3, <1>4, <1>5 DEF IInv

LEMMA StepKeeps == IInv /\ [Next]_vars => IInv'
<1> SUFFICES ASSUME IInv, [Next]_vars PROVE IInv'
  OBVIOUS
<1>1. CASE Next
  <2> USE DEF IInv
  <2>1. TypeOK'
    BY <1>1, TypeParts, CallsStep, MapTypedStep, StageTypedStep,
       HandlerTypedStep, DestroyerTypedStep, SignalsTypedStep, ShellTypedStep,
       PutTypedStep, FateTypedStep
    DEF TypeOK, CATyped, MapTyped, StageTyped, HandlerTyped, DestroyerTyped,
        SignalsTyped, ShellTyped, PutTyped, FateTyped
  <2>2. CallsOK' /\ ContextOK'
    BY <1>1, TypeParts, CallsStep, ContextOKStep
  <2>3. ShellOK' /\ TablesOK' /\ DestructorsOK' /\ PutsOK' /\ FateOK'
    BY <1>1, TypeParts, ShellOKStep, TablesOKStep, DestructorsOKStep,
       PutsOKStep, FateOKStep
  <2>4. ReadOK' /\ ListsOK'
    BY <1>1, TypeParts, ReadOKStep, ListsOKStep
  <2> QED BY <2>1, <2>2, <2>3, <2>4
<1>2. CASE UNCHANGED vars
  BY <1>2
  DEF IInv, TypeOK, CallsOK, CallOK, In, ContextOK, ShellOK, Exiting, TablesOK,
      TableOK, Holders, DestructorsOK, DestructorOK, PutsOK, HasHandler, FateOK,
      Late, ReadOK, Reading, OfFile, ListsOK, TakenWhole, TakesEffect,
      Foreigner, Effect
<1> QED BY <1>1, <1>2

(* The invariant holds in every behaviour of the program. *)
THEOREM InvariantHolds == Spec => []IInv
  BY InitHolds, StepKeeps, PTL DEF Spec

(* The variables have their types: no program counter, stage or list ever   *)
(* has a value that the handlers do not expect.                             *)
THEOREM TypeCorrect == Spec => []TypeOK
<1>1. IInv => TypeOK
  BY DEF IInv
<1> QED BY <1>1, InvariantHolds, PTL

(* Making, using and destroying the CA context leaves every thread with the *)
(* context and the priority it had, also when it fails half way, and leaves *)
(* the contexts of other parts of the program alive.                        *)
THEOREM ContextIsRestored == Spec => []ContextRestored
<1>1. IInv => ContextRestored
  BY DEF IInv, CallsOK, CallOK, ContextRestored
<1> QED BY <1>1, InvariantHolds, PTL

(* bsasExit drops the CA context after every Coordinator has joined its     *)
(* handler and closed its channels, except for those that an onPut keeps,   *)
(* and only these can use a context that is gone.                           *)
THEOREM ExitIsInOrder == Spec => []ExitInOrder
<1>1. ASSUME IInv PROVE ExitInOrder
  <2>1. ASSUME locked, ~ serving, "bsas" \notin alive,
               NEW t \in Table, ~ Late(t)
        PROVE  /\ stage[t] \in {"none", "gone"}
               /\ handler[t] \in {"none", "exited"}
               /\ ~ channels[t]
    <3>1. shell.pc \in {"drop", "done"}
      BY <1>1, <2>1 DEF IInv, ContextOK, ShellOK, Exiting
    <3>2. stage[t] \in {"none", "gone"}
      BY <1>1, <2>1, <3>1, TypeParts, LateOnes DEF IInv
    <3> QED BY <1>1, <3>2 DEF IInv, DestructorsOK, DestructorOK
  <2> QED BY <1>1, <2>1 DEF ExitInOrder, IInv, FateOK
<1> QED BY <1>1, InvariantHolds, PTL

(* A file is put as a whole or not at all, for any file and any number of   *)
(* clients: reading may fail, time may run out, and others may put lists,   *)
(* and no table ever has a part of a list.                                  *)
THEOREM FilesAreTakenWhole == Spec => []FileIsTakenWhole
<1>1. IInv => FileIsTakenWhole
  BY DEF IInv, ListsOK, FileIsTakenWhole
<1> QED BY <1>1, InvariantHolds, PTL
=============================================================================
