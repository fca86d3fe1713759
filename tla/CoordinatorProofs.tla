-------------------------- MODULE CoordinatorProofs --------------------------
(***************************************************************************)
(* For every number of clients, names and puts: no put is lost, the handler *)
(* only rests when list, collector and status agree, objects die in order,  *)
(* and the threads together implement TableService.                         *)
(*                                                                         *)
(* The inductive invariant IInv has a part for the handler (what it has     *)
(* done at each program counter), one for the wakeup, one for the           *)
(* references that keep the Coordinator, and one for its destructor.        *)
(***************************************************************************)
EXTENDS Coordinator, TLAPS

Building == {"remove", "dropReceiver", "dropCollector", "newCollector",
             "newReceiver", "add"}

(* What the handler has done so far.  A list put since leaves the flag set, *)
(* so whatever is said of the current list is said while the flag is clear. *)
HandlerOK ==
  /\ hpc \in Building => changing /\ (~ signals_changed => temp = signals)
  /\ hpc \in {"newReceiver", "add"} => collector = "live" /\ pvs = temp
  /\ hpc \in {"dropCollector", "newCollector", "newReceiver"}
       => ~ table_receiver
  /\ hpc \in Building \ {"remove"} => ~ tbl
  /\ hpc \in {"add", "relock", "status", "wait"} => table_receiver
  /\ hpc = "relock" => changing /\ (~ signals_changed => pvs = signals)
  /\ hpc = "status" /\ ~ signals_changed =>
       /\ pvs = signals /\ pvnames = signals
       /\ changing \/ labels = signals
  /\ hpc \in {"enter", "wait"} /\ ~ signals_changed =>
       /\ pvs = signals /\ labels = signals
       /\ table_receiver

ListsOK ==
  /\ signals \in List
  /\ temp \in List
  /\ put \in [Client -> PutState]

(* Once it has looked, the handler will be woken for every list stored.     *)
Signalling == \E c \in Client : put[c].pc = "signal"

Signalled ==
  hpc \notin {"enter", "exited"} /\ signals_changed => wakeup \/ Signalling

(* The destructor runs once, when the last reference is gone. *)
References ==
  /\ dpc # "none" => ~ inMap /\ Holders = {}
  /\ shell \in {"idle", "locked", "counted", "clear"} => inMap

Destructor ==
  /\ dpc \notin {"none", "gone"} /\ destroyer \in Client
       => put[destroyer].pc = "destroy"
  /\ dpc \notin {"none", "stop"} => ~ running
  /\ dpc \in {"collector", "gone"} => hpc = "exited" /\ ~ table_receiver
  /\ dpc = "gone" => collector = "none"

IInv ==
  /\ HandlerOK /\ ListsOK /\ Signalled /\ References /\ Destructor
  /\ ReceiverHasCollector /\ TableIsFed

-----------------------------------------------------------------------------
LEMMA InitIInv == Init => IInv
<1> SUFFICES ASSUME Init PROVE IInv
  OBVIOUS
<1>1. <<>> \in List
  <2>1. <<>> \in [1 .. 0 -> Name]
    OBVIOUS
  <2>2. 0 \in 0 .. MaxNames
    BY CoordinatorAssumption
  <2> QED
    BY <2>1, <2>2 DEF List
<1>2. Idle \in PutState
  BY <1>1 DEF Idle, PutState
<1>3. put \in [Client -> PutState]
  BY <1>2 DEF Init
<1>4. ListsOK
  BY <1>1, <1>3 DEF Init, ListsOK
<1> QED
  BY <1>4 DEF Init, IInv, HandlerOK, Building, Signalled, References, Destructor,
     ReceiverHasCollector, TableIsFed

(* The steps of the handler change what HandlerOK, ReceiverHasCollector and *)
(* TableIsFed speak of; put, dpc and inMap stay.                            *)
LEMMA HandlerStep == ASSUME IInv, Handler PROVE IInv'
<1> USE DEF HandlerAt, objects, threads, program, bounds, sharedVars, localVars
<1>1. UNCHANGED <<put, shell, destroyer, dpc, inMap>>
  BY DEF Handler, CheckSignals, RemoveTable, DropReceiver, DropCollector,
     NewCollector, NewReceiver, AddTable, Relock, Status, Wait
<1>2. ListsOK'
  BY <1>1 DEF IInv, ListsOK, Handler, CheckSignals, RemoveTable, DropReceiver,
     DropCollector, NewCollector, NewReceiver, AddTable, Relock, Status, Wait
<1>3. References'
  BY <1>1 DEF IInv, References, Holders
<1>4. Destructor'
  BY <1>1 DEF IInv, Destructor, Handler, CheckSignals, RemoveTable,
     DropReceiver, DropCollector, NewCollector, NewReceiver, AddTable, Relock,
     Status, Wait
<1>5. Signalled'
  <2>1. Signalling' <=> Signalling
    BY <1>1 DEF Signalling
  <2>2. CASE CheckSignals
    BY <2>1, <2>2 DEF IInv, Signalled, CheckSignals
  <2>3. CASE RemoveTable \/ DropReceiver \/ DropCollector
    BY <2>1, <2>3 DEF IInv, Signalled, RemoveTable, DropReceiver, DropCollector
  <2>4. CASE NewCollector \/ NewReceiver \/ AddTable
    BY <2>1, <2>4 DEF IInv, Signalled, NewCollector, NewReceiver, AddTable
  <2>5. CASE Relock \/ Status
    BY <2>1, <2>5 DEF IInv, Signalled, Relock, Status
  <2>6. CASE Wait
    <3>1. hpc' = "enter"
      BY <2>6 DEF Wait
    <3> QED
      BY <3>1 DEF Signalled
  <2> QED
    BY <2>2, <2>3, <2>4, <2>5, <2>6 DEF Handler
<1>6. HandlerOK'
  <2>1. CASE CheckSignals
    BY <2>1 DEF IInv, CheckSignals, HandlerOK, Building
  <2>2. CASE RemoveTable \/ DropReceiver \/ DropCollector
    BY <2>2 DEF IInv, RemoveTable, DropReceiver, DropCollector, HandlerOK,
       Building
  <2>3. CASE NewCollector \/ NewReceiver \/ AddTable
    BY <2>3 DEF IInv, NewCollector, NewReceiver, AddTable, HandlerOK, Building
  <2>4. CASE Relock \/ Status \/ Wait
    BY <2>4 DEF IInv, Relock, Status, Wait, HandlerOK, Building
  <2> QED
    BY <2>1, <2>2, <2>3, <2>4 DEF Handler
<1>7. ReceiverHasCollector' /\ TableIsFed'
  BY DEF IInv, ReceiverHasCollector, TableIsFed, HandlerOK, Building, Handler,
     CheckSignals, RemoveTable, DropReceiver, DropCollector, NewCollector,
     NewReceiver, AddTable, Relock, Status, Wait
<1> QED
  BY <1>2, <1>3, <1>4, <1>5, <1>6, <1>7 DEF IInv

-----------------------------------------------------------------------------
(* How a step of one onPut leaves the others. *)
LEMMA PutElsewhere ==
  ASSUME NEW c \in Client, ListsOK, NEW state \in PutState,
         put' = [put EXCEPT ![c] = state]
  PROVE  /\ put' \in [Client -> PutState]
         /\ put'[c] = state
         /\ \A d \in Client \ {c} : put'[d] = put[d]
  BY DEF ListsOK

LEMMA AtOK ==
  ASSUME NEW c \in Client, ListsOK,
         NEW pc \in {"store", "signal", "post", "destroy"}
  PROVE  [pc |-> pc, list |-> put[c].list] \in PutState
  BY DEF ListsOK, PutState

LEMMA IdleOK == Idle \in PutState
<1>1. <<>> \in [1 .. 0 -> Name] /\ 0 \in 0 .. MaxNames
  BY CoordinatorAssumption
<1> QED
  BY <1>1 DEF Idle, PutState, List

(* An onPut that holds the Coordinator keeps it from being destroyed. *)
LEMMA HolderProtects ==
  ASSUME References, NEW c \in Client, put[c].pc \in {"store", "signal", "post"}
  PROVE  dpc = "none"
<1>1. c \in Holders
  BY DEF Holders
<1> QED
  BY <1>1 DEF References

(* What a step of onPut leaves alone. *)
LEMMA PutFrame ==
  ASSUME NEW c \in Client, OnPut(c)
  PROVE  /\ UNCHANGED <<running, hpc, localVars, objects, shell, inMap>>
         /\ UNCHANGED <<signals, signals_changed>> \/ PutStores(c)
  BY DEF OnPut, PutLooksUp, PutStores, PutSignals, PutReturns, sharedVars,
     program, bounds

LEMMA PutStep == ASSUME IInv, NEW c \in Client, OnPut(c) PROVE IInv'
<1>0. ListsOK /\ References /\ Signalled /\ Destructor /\ HandlerOK
  BY DEF IInv
<1>1. UNCHANGED <<running, hpc, changing, temp, pvnames, labels, collector, pvs,
                  table_receiver, tbl, shell, inMap>>
  BY PutFrame DEF localVars, objects
<1>2. ReceiverHasCollector' /\ TableIsFed'
  BY <1>1 DEF IInv, ReceiverHasCollector, TableIsFed
<1>3. HandlerOK'
  <2>1. CASE PutStores(c)
    <3>1. signals_changed' = TRUE
      BY <2>1 DEF PutStores
    <3> QED
      BY <1>0, <1>1, <3>1 DEF HandlerOK, Building
  <2>2. CASE UNCHANGED <<signals, signals_changed>>
    BY <1>0, <1>1, <2>2 DEF HandlerOK, Building
  <2> QED
    BY <2>1, <2>2, PutFrame
<1>4. CASE PutLooksUp(c)
  <2>1. PICK state \in {Idle, [pc |-> "store", list |-> put[c].list]} :
          /\ put' = [put EXCEPT ![c] = state]
          /\ state # Idle => inMap \/ Holders # {}
    BY <1>4 DEF PutLooksUp, At
  <2>2. state \in PutState
    BY <1>0, <2>1, AtOK, IdleOK
  <2>3. /\ put' \in [Client -> PutState]
        /\ put'[c] = state
        /\ \A d \in Client \ {c} : put'[d] = put[d]
    BY <1>0, <2>1, <2>2, PutElsewhere
  <2>4. put[c].pc = "lookup" /\ UNCHANGED <<signals, signals_changed, wakeup>>
        /\ UNCHANGED <<destroyer, dpc>>
    BY <1>4 DEF PutLooksUp, PutAt, sharedVars
  <2>5. ListsOK'
    BY <1>0, <1>1, <2>3, <2>4 DEF ListsOK
  <2>6. Signalled'
    <3>1. Signalling => Signalling'
      BY <2>3, <2>4 DEF Signalling
    <3> QED
      BY <1>0, <1>1, <2>4, <3>1 DEF Signalled
  <2>7. References'
    <3>1. CASE dpc = "none"
      BY <1>0, <1>1, <2>4, <3>1 DEF References
    <3>2. CASE dpc # "none"
      <4>1. state = Idle
        BY <1>0, <2>1, <3>2 DEF References
      <4>2. state.pc = "idle"
        BY <4>1 DEF Idle
      <4>3. Holders' \subseteq Holders
        BY <2>3, <4>2 DEF Holders
      <4> QED
        BY <1>0, <1>1, <2>4, <3>2, <4>3 DEF References
    <3> QED
      BY <3>1, <3>2
  <2>8. Destructor'
    BY <1>0, <1>1, <2>3, <2>4 DEF Destructor
  <2> QED
    BY <1>2, <1>3, <2>5, <2>6, <2>7, <2>8 DEF IInv
<1>5. CASE PutStores(c)
  <2> DEFINE state == [pc |-> "signal", list |-> put[c].list]
  <2>1. /\ put' = [put EXCEPT ![c] = state]
        /\ put[c].pc = "store"
        /\ signals' = put[c].list
        /\ UNCHANGED <<wakeup, destroyer, dpc>>
    BY <1>5 DEF PutStores, PutAt, At
  <2>2. state \in PutState /\ state.pc = "signal"
    BY <1>0, AtOK
  <2> HIDE DEF state
  <2>3. /\ put' \in [Client -> PutState]
        /\ put'[c] = state
    BY <1>0, <2>1, <2>2, PutElsewhere
  <2>4. dpc = "none"
    BY <1>0, <2>1, HolderProtects
  <2>5. ListsOK'
    BY <1>0, <1>1, <2>1, <2>3 DEF ListsOK, PutState
  <2>6. Signalled'
    BY <2>2, <2>3 DEF Signalled, Signalling
  <2>7. References' /\ Destructor'
    BY <1>0, <1>1, <2>1, <2>4 DEF References, Destructor
  <2> QED
    BY <1>2, <1>3, <2>5, <2>6, <2>7 DEF IInv
<1>6. CASE PutSignals(c)
  <2> DEFINE state == [pc |-> "post", list |-> put[c].list]
  <2>1. /\ put' = [put EXCEPT ![c] = state]
        /\ put[c].pc = "signal"
        /\ wakeup' = TRUE
        /\ UNCHANGED <<signals, destroyer, dpc>>
    BY <1>6 DEF PutSignals, PutAt, At
  <2>2. state \in PutState
    BY <1>0, AtOK
  <2> HIDE DEF state
  <2>3. put' \in [Client -> PutState]
    BY <1>0, <2>1, <2>2, PutElsewhere
  <2>4. dpc = "none"
    BY <1>0, <2>1, HolderProtects
  <2>5. ListsOK'
    BY <1>0, <1>1, <2>1, <2>3 DEF ListsOK
  <2>6. Signalled'
    BY <2>1 DEF Signalled
  <2>7. References' /\ Destructor'
    BY <1>0, <1>1, <2>1, <2>4 DEF References, Destructor
  <2> QED
    BY <1>2, <1>3, <2>5, <2>6, <2>7 DEF IInv
<1>7. CASE PutReturns(c)
  <2>1. PICK state \in {Idle, [pc |-> "destroy", list |-> put[c].list]} :
          /\ put' = [put EXCEPT ![c] = state]
          /\ \/ dpc' = dpc
             \/ /\ state.pc = "destroy"
                /\ ~ inMap /\ Holders = {c}
                /\ destroyer' = c
                /\ dpc' = "stop"
    <3>1. CASE inMap \/ Holders # {c}
      <4>1. put' = [put EXCEPT ![c] = Idle] /\ dpc' = dpc
        BY <1>7, <3>1 DEF PutReturns
      <4> QED
        BY <4>1
    <3>2. CASE ~ inMap /\ Holders = {c}
      <4>1. /\ put' = [put EXCEPT ![c] = [pc |-> "destroy", list |-> put[c].list]]
            /\ destroyer' = c /\ dpc' = "stop"
        BY <1>7, <3>2 DEF PutReturns, At
      <4>2. [pc |-> "destroy", list |-> put[c].list].pc = "destroy"
        OBVIOUS
      <4> QED
        BY <3>2, <4>1, <4>2
    <3> QED
      BY <3>1, <3>2
  <2>2. state \in PutState /\ state.pc \in {"idle", "destroy"}
    <3>1. state \in PutState
      BY <1>0, <2>1, AtOK, IdleOK
    <3>2. state = Idle => state.pc = "idle"
      BY DEF Idle
    <3>3. state = [pc |-> "destroy", list |-> put[c].list] => state.pc = "destroy"
      OBVIOUS
    <3> QED
      BY <2>1, <3>1, <3>2, <3>3
  <2>3. /\ put' \in [Client -> PutState]
        /\ put'[c] = state
        /\ \A d \in Client \ {c} : put'[d] = put[d]
    BY <1>0, <2>1, <2>2, PutElsewhere
  <2>4. put[c].pc = "post" /\ UNCHANGED <<signals, signals_changed, wakeup>>
    BY <1>7 DEF PutReturns, PutAt, sharedVars
  <2>5. dpc = "none"
    BY <1>0, <2>4, HolderProtects
  <2>6. ListsOK'
    BY <1>0, <1>1, <2>3, <2>4 DEF ListsOK
  <2>7. Signalled'
    <3>1. Signalling => Signalling'
      BY <2>3, <2>4 DEF Signalling
    <3> QED
      BY <1>0, <1>1, <2>4, <3>1 DEF Signalled
  <2>8. Holders' \subseteq Holders \ {c}
    BY <2>2, <2>3 DEF Holders
  <2>9. References' /\ Destructor'
    <3>1. CASE dpc' = "none"
      BY <1>0, <1>1, <3>1 DEF References, Destructor
    <3>2. CASE dpc' # "none"
      <4>1. /\ state.pc = "destroy"
            /\ ~ inMap /\ Holders = {c}
            /\ destroyer' = c /\ dpc' = "stop"
        BY <2>1, <2>5, <3>2
      <4>2. Holders' = {}
        BY <2>8, <4>1
      <4>3. put'[destroyer'].pc = "destroy"
        BY <2>3, <4>1
      <4> QED
        BY <1>0, <1>1, <4>1, <4>2, <4>3 DEF References, Destructor
    <3> QED
      BY <3>1, <3>2
  <2> QED
    BY <1>2, <1>3, <2>6, <2>7, <2>9 DEF IInv
<1> QED
  BY <1>4, <1>5, <1>6, <1>7 DEF OnPut

(* A put that arrives holds nothing yet. *)
LEMMA PutBeginsStep ==
  ASSUME IInv, NEW c \in Client, NEW list \in List, PutBegins(c, list)
  PROVE  IInv'
<1> DEFINE state == [pc |-> "lookup", list |-> list]
<1>0. ListsOK /\ References /\ Signalled /\ Destructor /\ HandlerOK
  BY DEF IInv
<1>1. UNCHANGED <<signals, signals_changed, running, wakeup, hpc, changing, temp,
                  pvnames, labels, collector, pvs, table_receiver, tbl, shell,
                  destroyer, dpc, inMap>>
  BY DEF PutBegins, sharedVars, localVars, objects, program
<1>2. put' = [put EXCEPT ![c] = state] /\ put[c].pc = "idle"
  BY DEF PutBegins, PutAt
<1>3. state \in PutState /\ state.pc = "lookup"
  BY DEF PutState
<1> HIDE DEF state
<1>4. /\ put' \in [Client -> PutState]
      /\ put'[c] = state
      /\ \A d \in Client \ {c} : put'[d] = put[d]
  BY <1>0, <1>2, <1>3, PutElsewhere
<1>5. Holders' \subseteq Holders /\ (Signalling => Signalling')
  BY <1>2, <1>3, <1>4 DEF Holders, Signalling
<1>6. HandlerOK'
  BY <1>0, <1>1 DEF HandlerOK, Building
<1>7. ListsOK' /\ References' /\ Signalled'
  BY <1>0, <1>1, <1>4, <1>5 DEF ListsOK, References, Signalled
<1>8. Destructor'
  BY <1>0, <1>1, <1>2, <1>4 DEF Destructor
<1>9. ReceiverHasCollector' /\ TableIsFed'
  BY <1>1 DEF IInv, ReceiverHasCollector, TableIsFed
<1> QED
  BY <1>6, <1>7, <1>8, <1>9 DEF IInv

-----------------------------------------------------------------------------
Shell == ReportBegins \/ ReportReads \/ Create \/ ExitCloses \/ Exit \/ UseFreed

(* The shell changes nothing the handler or onPut look at, but takes the    *)
(* table away and gives up the reference of the map.                        *)
LEMMA ShellStep == ASSUME IInv, Shell PROVE IInv'
<1> USE DEF Shell, Exit, ProgramStep
<1>0. ListsOK /\ References /\ Signalled /\ Destructor /\ HandlerOK
  BY DEF IInv
<1>1. UNCHANGED <<signals, signals_changed, running, wakeup, hpc, changing, temp,
                  pvnames, labels, collector, pvs, table_receiver, put>>
  <2>1. CASE ReportBegins \/ ReportReads \/ Create
    BY <2>1 DEF ReportBegins, ReportReads, Create, sharedVars, localVars, objects
  <2>2. CASE ExitCloses \/ Exit \/ UseFreed
    BY <2>2 DEF ExitCloses, ExitClears, ExitDropsContext, UseFreed, sharedVars,
       localVars, objects
  <2> QED
    BY <2>1, <2>2
<1>2. tbl' = tbl \/ tbl' = FALSE
  BY DEF ReportBegins, ReportReads, Create, ExitCloses, ExitClears,
     ExitDropsContext, UseFreed, objects
<1>3. HandlerOK'
  BY <1>0, <1>1, <1>2 DEF HandlerOK, Building
<1>4. ReceiverHasCollector' /\ TableIsFed'
  BY <1>1, <1>2 DEF IInv, ReceiverHasCollector, TableIsFed
<1>5. ListsOK' /\ Signalled' /\ Holders' = Holders
  BY <1>0, <1>1 DEF ListsOK, Signalled, Signalling, Holders
<1>6. References' /\ Destructor'
  <2>1. CASE ReportBegins \/ ReportReads
    <3>1. /\ UNCHANGED <<destroyer, dpc, inMap>>
          /\ shell \in {"idle", "locked", "counted"}
      BY <2>1 DEF ReportBegins, ReportReads
    <3> QED
      BY <1>0, <1>1, <1>5, <3>1 DEF References, Destructor
  <2>2. CASE Create \/ ExitCloses
    <3>1. UNCHANGED <<destroyer, dpc, inMap>> /\ shell = "idle"
      BY <2>2 DEF Create, ExitCloses, program
    <3> QED
      BY <1>0, <1>1, <1>5, <3>1 DEF References, Destructor
  <2>3. CASE ExitClears
    <3>1. shell = "clear" /\ ~ inMap' /\ dpc = "none"
      BY <1>0, <2>3 DEF References, ExitClears
    <3>2. CASE Holders = {}
      <4>1. shell' = "destroy" /\ destroyer' = "shell" /\ dpc' = "stop"
        BY <2>3, <3>2 DEF ExitClears
      <4>2. destroyer' \notin Client
        BY <4>1, NamesAssumption
      <4> QED
        BY <1>5, <3>1, <3>2, <4>1, <4>2 DEF References, Destructor
    <3>3. CASE Holders # {}
      <4>1. shell' = "context" /\ dpc' = dpc
        BY <2>3, <3>3 DEF ExitClears
      <4> QED
        BY <3>1, <4>1 DEF References, Destructor
    <3> QED
      BY <3>2, <3>3
  <2>4. CASE ExitDropsContext
    <3>1. UNCHANGED <<destroyer, dpc, inMap>> /\ shell' = "done"
      BY <2>4 DEF ExitDropsContext
    <3> QED
      BY <1>0, <1>1, <1>5, <3>1 DEF References, Destructor
  <2>5. CASE UseFreed
    <3>1. UNCHANGED <<destroyer, dpc, inMap, shell>>
      BY <2>5 DEF UseFreed
    <3> QED
      BY <1>0, <1>1, <1>5, <3>1 DEF References, Destructor
  <2> QED
    BY <2>1, <2>2, <2>3, <2>4, <2>5
<1> QED
  BY <1>3, <1>4, <1>5, <1>6 DEF IInv

(* The destructor runs when nobody holds the Coordinator any more, and      *)
(* deletes the receiver and the collector once the handler is gone.         *)
LEMMA DestroyStep == ASSUME IInv, Destroy PROVE IInv'
<1>0. ListsOK /\ References /\ Signalled /\ Destructor /\ HandlerOK
  BY DEF IInv
<1>1. /\ dpc \in {"stop", "signal", "join", "collector"}
      /\ dpc' # "none"
      /\ ~ inMap /\ Holders = {}
      /\ UNCHANGED <<signals, signals_changed, hpc, changing, temp, pvnames,
                     labels, pvs, tbl, inMap>>
  <2>1. dpc \in {"stop", "signal", "join", "collector"}
    BY DEF Destroy, DestroyStops, DestroySignals, DestroyJoins, DestroyEnds
  <2>2. ~ inMap /\ Holders = {}
    BY <1>0, <2>1 DEF References
  <2>3. CASE DestroyStops \/ DestroySignals
    BY <2>1, <2>2, <2>3 DEF DestroyStops, DestroySignals, ProgramStep,
       localVars, objects, program
  <2>4. CASE DestroyJoins \/ DestroyEnds
    BY <2>1, <2>2, <2>4 DEF DestroyJoins, DestroyEnds, ProgramStep, sharedVars,
       localVars, program
  <2> QED
    BY <2>3, <2>4 DEF Destroy
<1>2. CASE DestroyStops \/ DestroySignals
  <2>1. /\ UNCHANGED <<collector, table_receiver, put, shell, destroyer>>
        /\ dpc' \in {"signal", "join"}
    BY <1>2 DEF DestroyStops, DestroySignals, ProgramStep, objects
  <2>2. Holders' = {}
    BY <1>1, <2>1 DEF Holders
  <2>3. wakeup' = wakeup \/ wakeup'
    BY <1>2 DEF DestroyStops, DestroySignals
  <2>4. HandlerOK'
    BY <1>0, <1>1, <2>1 DEF HandlerOK, Building
  <2>5. ListsOK' /\ References' /\ Signalled'
    BY <1>0, <1>1, <2>1, <2>2, <2>3 DEF ListsOK, References, Signalled,
       Signalling
  <2>6. ~ running'
    <3>1. CASE DestroyStops
      BY <3>1 DEF DestroyStops
    <3>2. CASE DestroySignals
      BY <1>0, <3>2 DEF DestroySignals, Destructor
    <3> QED
      BY <1>2, <3>1, <3>2
  <2>7. Destructor'
    BY <1>0, <1>1, <2>1, <2>6 DEF Destructor
  <2>8. ReceiverHasCollector' /\ TableIsFed'
    BY <2>1, <2>6 DEF IInv, ReceiverHasCollector, TableIsFed
  <2> QED
    BY <2>4, <2>5, <2>7, <2>8 DEF IInv
<1>3. CASE DestroyJoins
  <2>1. /\ UNCHANGED <<running, collector, put, shell, destroyer>>
        /\ ~ table_receiver' /\ hpc = "exited"
        /\ dpc = "join" /\ dpc' = "collector"
    BY <1>3 DEF DestroyJoins, ProgramStep, sharedVars
  <2>2. Holders' = {}
    BY <1>1, <2>1 DEF Holders
  <2>3. HandlerOK' /\ Signalled'
    BY <1>1, <2>1 DEF HandlerOK, Building, Signalled
  <2>4. ListsOK' /\ References'
    BY <1>0, <1>1, <2>1, <2>2 DEF ListsOK, References
  <2>5. Destructor' /\ ~ running'
    BY <1>0, <1>1, <2>1 DEF Destructor
  <2>6. ReceiverHasCollector' /\ TableIsFed'
    BY <2>1, <2>5 DEF ReceiverHasCollector, TableIsFed
  <2> QED
    BY <2>3, <2>4, <2>5, <2>6 DEF IInv
<1>4. CASE DestroyEnds
  <2>1. /\ UNCHANGED <<running, table_receiver, destroyer>>
        /\ collector' = "none" /\ dpc = "collector" /\ dpc' = "gone"
        /\ put' = [c \in Client |-> IF destroyer = c THEN Idle ELSE put[c]]
        /\ shell' \in {"context", shell}
    BY <1>4 DEF DestroyEnds, sharedVars
  <2>2. hpc = "exited" /\ ~ table_receiver /\ ~ running
    BY <1>0, <2>1 DEF Destructor
  <2>3. Holders' = {}
    <3>1. Idle.pc = "idle"
      BY DEF Idle
    <3> QED
      BY <1>1, <2>1, <3>1 DEF Holders
  <2>4. put' \in [Client -> PutState]
    BY <1>0, <2>1, IdleOK DEF ListsOK
  <2>5. HandlerOK' /\ Signalled'
    BY <1>1, <2>2 DEF HandlerOK, Building, Signalled
  <2>6. ListsOK' /\ References'
    BY <1>0, <1>1, <2>1, <2>3, <2>4 DEF ListsOK, References
  <2>7. Destructor' /\ ReceiverHasCollector' /\ TableIsFed'
    BY <1>1, <2>1, <2>2 DEF Destructor, ReceiverHasCollector, TableIsFed
  <2> QED
    BY <2>5, <2>6, <2>7 DEF IInv
<1> QED
  BY <1>2, <1>3, <1>4 DEF Destroy

LEMMA StepIInv == IInv /\ [Next]_vars => IInv'
<1> SUFFICES ASSUME IInv, [Next]_vars PROVE IInv'
  OBVIOUS
<1>1. CASE UNCHANGED vars
  BY <1>1 DEF vars, sharedVars, localVars, objects, threads, program, bounds,
     IInv, HandlerOK, Building, ListsOK, Signalled, Signalling, References,
     Holders, Destructor, ReceiverHasCollector, TableIsFed
<1> QED
  BY <1>1, HandlerStep, PutStep, PutBeginsStep, ShellStep, DestroyStep
     DEF Next, Shell, Terminated

THEOREM Invariance == Spec => []IInv
  BY InitIInv, StepIInv, PTL DEF Spec

(* A handler that waits with a list to build for is about to be woken, for  *)
(* any number of clients and puts.                                          *)
THEOREM NoPutIsLost == Spec => []NoLostPut
<1>1. IInv => NoLostPut
  BY DEF IInv, Signalled, Signalling, NoLostPut, Waiting
<1> QED
  BY <1>1, Invariance, PTL

(* The handler rests only when list, collector and status table agree.      *)
THEOREM RestIsConsistent == Spec => []SettledAgrees
<1>1. IInv => SettledAgrees
  BY DEF IInv, HandlerOK, ReceiverHasCollector, SettledAgrees, Waiting
<1> QED
  BY <1>1, Invariance, PTL

(* The receiver goes before its collector, in a rebuild and in the          *)
(* destructor.                                                              *)
THEOREM ReceiverGoesFirst == Spec => []ReceiverHasCollector
<1>1. IInv => ReceiverHasCollector
  BY DEF IInv
<1> QED
  BY <1>1, Invariance, PTL

(* While the Coordinator runs, no client finds a table without a receiver.  *)
THEOREM ServedTableIsFed == Spec => []TableIsFed
<1>1. IInv => TableIsFed
  BY DEF IInv
<1> QED
  BY <1>1, Invariance, PTL

(* Nothing of a destroyed Coordinator is left.                              *)
THEOREM NothingIsLeft == Spec => []NothingLeft
<1>1. IInv => NothingLeft
  BY DEF IInv, Destructor, NothingLeft
<1> QED
  BY <1>1, Invariance, PTL

-----------------------------------------------------------------------------
(* The refinement of TableService: what its variables stand for. *)

Built == IF hpc \in Building THEN temp ELSE None

Served == IF tbl THEN pvs ELSE None

Up == fate = "ok" /\ shell \notin {"clear", "destroy", "context", "done"}

(* When a step of the threads is a step of the service, or none. *)
LEMMA IsStutter ==
  ASSUME UNCHANGED <<signals, Built, Served, Up>>
  PROVE  UNCHANGED Service!vars
  BY DEF Service!vars, Built, Served, Up, Building

LEMMA IsPut ==
  ASSUME signals' \in List, UNCHANGED <<Built, Served, Up>>
  PROVE  Service!Next
  BY DEF Service!Next, Service!Put, Built, Served, Up, Building

LEMMA IsBegin ==
  ASSUME Built = None, Built' = signals, UNCHANGED <<signals, Served, Up>>
  PROVE  Service!Next
  BY DEF Service!Next, Service!Begin, Built, Served, Up, Building

LEMMA IsWithdraw ==
  ASSUME Built # None, Served' = None, UNCHANGED <<signals, Built, Up>>
  PROVE  Service!Next
  BY DEF Service!Next, Service!Withdraw, Built, Served, Up, Building

LEMMA IsFinish ==
  ASSUME Built # None, Served = None, Served' = Built, Built' = None,
         UNCHANGED <<signals, Up>>
  PROVE  Service!Next
  BY DEF Service!Next, Service!Finish, Built, Served, Up, Building

LEMMA IsStop ==
  ASSUME ~ Up', Served' \in {Served, None}, UNCHANGED <<signals, Built>>
  PROVE  Service!Next
  BY DEF Service!Next, Service!Stop, Built, Served, Up, Building

LEMMA BuiltIsList == ASSUME IInv, hpc \in Building PROVE Built = temp /\ Built # None
  BY NamesAssumption DEF IInv, ListsOK, Built

LEMMA HandlerMaps ==
  ASSUME IInv, Handler
  PROVE  Service!Next \/ UNCHANGED Service!vars
<1> USE DEF HandlerAt, objects, threads, program, bounds, sharedVars, localVars
<1>1. CASE CheckSignals
  <2>1. UNCHANGED <<signals, Served, Up>> /\ Built = None
    BY <1>1 DEF CheckSignals, Served, Up, Built, Building
  <2>2. CASE hpc' = "remove"
    <3>1. Built' = signals
      BY <1>1, <2>2 DEF CheckSignals, Built, Building
    <3> QED
      BY <2>1, <3>1, IsBegin
  <2>3. CASE hpc' # "remove"
    <3>1. Built' = None
      BY <1>1, <2>3 DEF CheckSignals, Built, Building
    <3> QED
      BY <2>1, <3>1, IsStutter
  <2> QED
    BY <2>2, <2>3
<1>2. CASE RemoveTable
  <2>1. UNCHANGED <<signals, Built, Up>> /\ Served' = None
    BY <1>2 DEF RemoveTable, Served, Up, Built, Building
  <2>2. Built # None
    BY <1>2, BuiltIsList DEF RemoveTable, Building
  <2> QED
    BY <2>1, <2>2, IsWithdraw
<1>3. CASE DropReceiver \/ DropCollector
  <2>1. UNCHANGED <<signals, Built, Served, Up>>
    BY <1>3 DEF DropReceiver, DropCollector, Served, Up, Built, Building
  <2> QED
    BY <2>1, IsStutter
<1>4. CASE NewCollector
  <2>1. ~ tbl
    BY <1>4 DEF IInv, HandlerOK, NewCollector, Building
  <2>2. CASE fate' = fate
    <3>1. UNCHANGED <<signals, Built, Served, Up>>
      BY <1>4, <2>1, <2>2 DEF NewCollector, Served, Up, Built, Building, HandlerAt,
         Alive
    <3> QED
      BY <3>1, IsStutter
  <2>3. CASE fate' # fate
    <3>1. UNCHANGED <<signals, Built, Served>> /\ ~ Up'
      BY <1>4, <2>1, <2>3 DEF NewCollector, Served, Up, Built, Building
    <3> QED
      BY <3>1, IsStop
  <2> QED
    BY <2>2, <2>3
<1>5. CASE NewReceiver
  <2>1. UNCHANGED <<signals, Built, Served>>
    BY <1>5 DEF NewReceiver, Served, Built, Building
  <2>2. CASE fate' = fate
    <3>1. UNCHANGED Up
      BY <1>5, <2>2 DEF NewReceiver, Up
    <3> QED
      BY <2>1, <3>1, IsStutter
  <2>3. CASE fate' # fate
    <3>1. ~ Up'
      BY <1>5, <2>3 DEF NewReceiver, Up
    <3> QED
      BY <2>1, <3>1, IsStop
  <2> QED
    BY <2>2, <2>3
<1>6. CASE AddTable
  <2>1. Built # None /\ Built = temp /\ ~ tbl /\ pvs = temp
    BY <1>6, BuiltIsList DEF IInv, HandlerOK, AddTable, Building
  <2>2. UNCHANGED <<signals, Up>> /\ Built' = None /\ Served' = pvs
    BY <1>6 DEF AddTable, Served, Up, Built, Building
  <2>3. Served = None
    BY <2>1 DEF Served
  <2> QED
    BY <2>1, <2>2, <2>3, IsFinish
<1>7. CASE Relock \/ Wait
  <2>1. UNCHANGED <<signals, Built, Served, Up>>
    BY <1>7 DEF Relock, Wait, Served, Up, Built, Building
  <2> QED
    BY <2>1, IsStutter
<1>8. CASE Status
  <2>1. UNCHANGED <<signals, Built, Served>>
    BY <1>8 DEF Status, Served, Built, Building
  <2>2. UNCHANGED Up \/ ~ Up'
    BY <1>8 DEF Status, Up
  <2> QED
    BY <2>1, <2>2, IsStutter, IsStop
<1> QED
  BY <1>1, <1>2, <1>3, <1>4, <1>5, <1>6, <1>7, <1>8 DEF Handler

LEMMA ClientMaps ==
  ASSUME IInv, NEW c \in Client, OnPut(c) \/ \E list \in List : PutBegins(c, list)
  PROVE  Service!Next \/ UNCHANGED Service!vars
<1>1. UNCHANGED <<Built, Served, Up>>
  BY DEF OnPut, PutLooksUp, PutStores, PutSignals, PutReturns, PutBegins,
     sharedVars, localVars, objects, program, Built, Served, Up
<1>2. CASE PutStores(c)
  <2>1. put[c] \in PutState
    BY DEF IInv, ListsOK
  <2>2. signals' \in List
    BY <1>2, <2>1 DEF PutStores, PutState
  <2> QED
    BY <1>1, <2>2, IsPut
<1>3. CASE ~ PutStores(c)
  <2>1. UNCHANGED signals
    BY <1>3 DEF OnPut, PutLooksUp, PutSignals, PutReturns, PutBegins, sharedVars
  <2> QED
    BY <1>1, <2>1, IsStutter
<1> QED
  BY <1>2, <1>3

LEMMA ShellMaps ==
  ASSUME Shell \/ Destroy
  PROVE  Service!Next \/ UNCHANGED Service!vars
<1>1. UNCHANGED <<signals, Built>> /\ Served' \in {Served, None}
  <2>1. CASE Shell
    BY <2>1 DEF Shell, Exit, ReportBegins, ReportReads, Create, ExitCloses,
       ExitClears, ExitDropsContext, UseFreed, ProgramStep, sharedVars,
       localVars, objects, Built, Served
  <2>2. CASE Destroy
    BY <2>2 DEF Destroy, DestroyStops, DestroySignals, DestroyJoins,
       DestroyEnds, ProgramStep, sharedVars, localVars, objects, Built, Served
  <2> QED
    BY <2>1, <2>2
<1>2. CASE Up'
  <2>1. Up /\ UNCHANGED <<tbl, pvs>>
    BY <1>2 DEF Shell, Exit, Destroy, ReportBegins, ReportReads, Create,
       ExitCloses, ExitClears, ExitDropsContext, UseFreed, DestroyStops,
       DestroySignals, DestroyJoins, DestroyEnds, ProgramStep, objects, program,
       Up
  <2>2. UNCHANGED Served
    BY <2>1 DEF Served
  <2>3. Up' = Up
    BY <1>2, <2>1 DEF Up
  <2> QED
    BY <1>1, <2>2, <2>3, IsStutter
<1>3. CASE ~ Up'
  BY <1>1, <1>3, IsStop
<1> QED
  BY <1>2, <1>3

(* The threads together implement TableService, but for its liveness.       *)
THEOREM CoordinatorIsTableService == Spec => Service!SafeSpec
<1>1. Init => Service!Init
  BY DEF Init, Service!Init
<1>2. IInv /\ [Next]_vars => [Service!Next]_(Service!vars)
  <2> SUFFICES ASSUME IInv, [Next]_vars
               PROVE  Service!Next \/ UNCHANGED Service!vars
    OBVIOUS
  <2>1. CASE UNCHANGED vars
    <3>1. UNCHANGED <<signals, Built, Served, Up>>
      BY <2>1 DEF vars, sharedVars, localVars, objects, threads, program,
         Built, Served, Up
    <3> QED
      BY <3>1, IsStutter
  <2>2. CASE Next
    BY <2>1, <2>2, HandlerMaps, ClientMaps, ShellMaps DEF Next, Shell, Terminated
  <2> QED
    BY <2>1, <2>2
<1> QED
  BY <1>1, <1>2, Invariance, PTL DEF Spec, Service!SafeSpec
=============================================================================
