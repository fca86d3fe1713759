------------------------------ MODULE Collector ------------------------------
(***************************************************************************)
(* The Collector (collector.cpp) with its Subscriptions: CA callbacks fill  *)
(* one queue per PV, the processor thread merges the queues into events     *)
(* (one slice of values per time stamp), decides which events are done and  *)
(* hands them to the receivers, and close() stops it all.                   *)
(*                                                                         *)
(* Threads and their program counters:                                      *)
(*   - ca: the CA callback in progress (the CA library runs the callbacks   *)
(*     of one context one at a time);                                       *)
(*   - ppc: the processor thread;                                           *)
(*   - opc: the owner, which calls close();                                 *)
(*   - threads that add and remove receivers, one critical section each.    *)
(* A step is one critical section, or one access to what threads share.     *)
(* The processor holds Collector::mutex exactly where MutexHeld says so.    *)
(*                                                                         *)
(* Time is counted in ticks; a key is the time stamp it packs (TimeKeys     *)
(* proves that packing keeps the order and the age of keys).                *)
(***************************************************************************)
EXTENDS ValueQueue, FiniteSets

CONSTANTS
  N,           \* the number of PVs; column 1 is the code's column 0
  Receiver,    \* the receivers that may be added
  Limit,       \* Subscription::limit
  CarryOver,   \* updates kept per PV when the processor overflows (4)
  MaxEvents,   \* potentially complete events to track (at least 10)
  Carry,       \* events carried over from one round to the next (4)
  MaxAge,      \* maxEventAge
  Skew,        \* how far a time stamp may be ahead of the local clock
  MaxClock,    \* bound: the last tick of the clock
  MaxUpdates   \* bound: updates and disconnections over all PVs

ASSUME CollectorAssumption ==
  /\ N \in Nat \ {0}
  /\ Limit \in Nat \ {0}
  /\ CarryOver \in Nat \ {0}
  /\ Carry \in Nat
  /\ MaxEvents \in Nat /\ MaxEvents > Carry
  /\ MaxAge \in Nat \ {0}
  /\ Skew \in Nat
  /\ MaxClock \in Nat \ {0}
  /\ MaxUpdates \in Nat

Column == 1 .. N
Key == 1 .. MaxClock + Skew

(* An entry of a queue: an update, or the marker of a disconnection. *)
Value == [key : Key, live : BOOLEAN]

(* What an event holds of each PV. *)
Cell == {"none", "data", "disc"}
EmptySlice == [c \in Column |-> "none"]

(* No events. *)
Nothing == [k \in {} |-> EmptySlice]

Idle == [pc |-> "idle", col |-> 0, key |-> 0]

VARIABLES
  (* shared with the Subscriptions *)
  chid,        \* [Column -> BOOLEAN]: the channel exists
  evid,        \* [Column -> BOOLEAN]: the channel is connected, subscribed
  last_event,  \* [Column -> time stamp of the last update]
  values,      \* [Column -> queue]
  ca,          \* the CA callback in progress
  (* under Collector::mutex *)
  ready,       \* pvs[c].ready
  connected,   \* pvs[c].connected
  waiting,     \* input queues emptied
  run,         \* cleared by close()
  receivers,
  receivers_changed,
  wakeup,      \* the binary event wakeup
  (* the processor thread *)
  ppc, col, nothing,
  now,         \* its last reading of the clock
  events,      \* a function from the keys of the events to their slices
  oldest_key,  \* the newest key sent to the receivers
  completed,   \* the batch being sent
  receivers_shadow,
  todo,        \* receivers the batch is still to be sent to
  nOverflow,
  (* other threads *)
  opc,         \* the owner
  naming,      \* receivers whose names() add_receiver has still to call
  (* the environment *)
  clock, updates

subscriptions == <<chid, evid, last_event, values, ca>>
guarded == <<ready, connected, waiting, run>>
registry == <<receivers, receivers_changed, naming>>
merging == <<now, events, oldest_key, completed, nOverflow>>
delivery == <<receivers_shadow, todo>>
environment == <<clock, updates>>

vars == <<subscriptions, guarded, registry, wakeup, ppc, col, nothing, merging,
          delivery, opc, environment>>

Init ==
  /\ chid = [c \in Column |-> TRUE]
  /\ evid = [c \in Column |-> FALSE]
  /\ last_event = [c \in Column |-> 0]
  /\ values = [c \in Column |-> <<>>]
  /\ ca = Idle
  /\ ready = [c \in Column |-> FALSE]
  /\ connected = [c \in Column |-> FALSE]
  /\ waiting = FALSE
  /\ run = TRUE
  /\ receivers = {} /\ receivers_changed = FALSE /\ naming = {}
  /\ wakeup = FALSE
  /\ ppc = "start" /\ col = 1 /\ nothing = FALSE
  /\ now = 0
  /\ events = Nothing
  /\ oldest_key = 0
  /\ completed = Nothing
  /\ receivers_shadow = {} /\ todo = {}
  /\ nOverflow = 0
  /\ opc = "open"
  /\ clock = 1
  /\ updates = 0

MutexHeld == ppc \in {"round", "dequeue", "clear", "test"}

(* A failed assertion stops the whole program. *)
Alive == ppc # "aborted"

-----------------------------------------------------------------------------
(* CA callbacks *)

(* A callback starts on channel c. *)
CallbackOn(c) ==
  /\ Alive
  /\ ca = Idle
  /\ chid[c]

(* onConnect, up. *)
ConnectUp(c) ==
  /\ CallbackOn(c)
  /\ ~ evid[c]
  /\ evid' = [evid EXCEPT ![c] = TRUE]
  /\ last_event' = [last_event EXCEPT ![c] = 0]
  /\ UNCHANGED <<chid, values, ca, guarded, registry, wakeup, ppc, col,
                 nothing, merging, delivery, opc, environment>>

(* onConnect, down: the subscription ends and the marker gets its stamp.    *)
Disconnect(c) ==
  /\ CallbackOn(c)
  /\ evid[c]
  /\ updates < MaxUpdates
  /\ updates' = updates + 1
  /\ evid' = [evid EXCEPT ![c] = FALSE]
  /\ ca' = [pc |-> "push", col |-> c, key |-> clock]
  /\ UNCHANGED <<chid, last_event, values, guarded, registry, wakeup, ppc, col,
                 nothing, merging, delivery, opc, clock>>

At(pc, c) == [pc |-> pc, col |-> c, key |-> 0]

(* A seeded fault: the queue is looked at after the push. *)
AfterPushLate(c) == Idle

(* What a callback does after pushing on the queue of c. *)
AfterPush(c) == IF values[c] = <<>> THEN At("notify", c) ELSE Idle

(* onConnect, down: the marker is queued. *)
PushMarker ==
  LET c == ca.col
      v == [key |-> ca.key, live |-> FALSE]
  IN
  /\ Alive
  /\ ca.pc = "push"
  /\ values' = [values EXCEPT ![c] = PushBounded(@, Limit, v)]
  /\ ca' = AfterPush(c)
  /\ UNCHANGED <<chid, evid, last_event, guarded, registry, wakeup, ppc, col,
                 nothing, merging, delivery, opc, environment>>

(* onEvent, for an update of c stamped k by the IOC it comes from. *)
Event(c, k) ==
  LET v == [key |-> k, live |-> TRUE] IN
  /\ CallbackOn(c)
  /\ evid[c]
  /\ k <= clock + Skew
  /\ updates < MaxUpdates
  /\ updates' = updates + 1
  /\ last_event' = [last_event EXCEPT ![c] = k]
  /\ \/ /\ k > last_event[c]
        /\ values' = [values EXCEPT ![c] = PushBounded(@, Limit, v)]
        /\ ca' = AfterPush(c)
     \/ /\ k <= last_event[c]
        /\ UNCHANGED <<values, ca>>
  /\ UNCHANGED <<chid, evid, guarded, registry, wakeup, ppc, col, nothing,
                 merging, delivery, opc, clock>>

(* A seeded fault: the mark is only left for a processor that waits.        *)
MarkedIfWaiting == IF waiting THEN [ready EXCEPT ![ca.col] = TRUE] ELSE ready

Marked == [ready EXCEPT ![ca.col] = TRUE]

(* Collector::notEmpty: mark the PV and see whether the processor waits.    *)
NotEmpty ==
  /\ Alive
  /\ ca.pc = "notify"
  /\ ~ MutexHeld
  /\ ready' = Marked
  /\ ca' = IF waiting THEN At("signal", ca.col) ELSE Idle
  /\ UNCHANGED <<chid, evid, last_event, values, connected, waiting, run,
                 registry, wakeup, ppc, col, nothing, merging, delivery, opc,
                 environment>>

(* Collector::notEmpty: the signal, sent after the mutex is released. *)
Signal ==
  /\ Alive
  /\ ca.pc = "signal"
  /\ wakeup' = TRUE
  /\ ca' = Idle
  /\ UNCHANGED <<chid, evid, last_event, values, guarded, registry, ppc, col,
                 nothing, merging, delivery, opc, environment>>

-----------------------------------------------------------------------------
(* The processor thread: waiting and starting a round *)

(* The head of while(run): with the mutex, another round or the end.        *)
LoopHead ==
  IF run
  THEN /\ ppc' = "round"
       /\ waiting' = FALSE
       /\ nothing' = FALSE
  ELSE /\ ppc' = "exited"
       /\ UNCHANGED <<waiting, nothing>>

Start ==
  /\ ppc = "start"
  /\ now' = clock
  /\ LoopHead
  /\ UNCHANGED <<subscriptions, ready, connected, run, registry, wakeup, col,
                 events, oldest_key, completed, nOverflow, delivery, opc,
                 environment>>

(* epicsThreadSleep(bsasFlushPeriod), after the last receiver was served. *)
Sleep ==
  /\ ppc = "deliver"
  /\ todo = {}
  /\ ppc' = IF waiting THEN "wait" ELSE "clock"
  /\ UNCHANGED <<subscriptions, guarded, registry, wakeup, col, nothing,
                 merging, delivery, opc, environment>>

(* wakeup.wait() returns, and resets the event. *)
Wake ==
  /\ ppc = "wait"
  /\ wakeup
  /\ wakeup' = FALSE
  /\ ppc' = "clock"
  /\ UNCHANGED <<subscriptions, guarded, registry, col, nothing, merging,
                 delivery, opc, environment>>

GetTime ==
  /\ ppc = "clock"
  /\ now' = clock
  /\ ppc' = "lock"
  /\ UNCHANGED <<subscriptions, guarded, registry, wakeup, col, nothing, events,
                 oldest_key, completed, nOverflow, delivery, opc, environment>>

Lock ==
  /\ ppc = "lock"
  /\ LoopHead
  /\ UNCHANGED <<subscriptions, ready, connected, run, registry, wakeup, col,
                 merging, delivery, opc, environment>>

-----------------------------------------------------------------------------
(* The processor thread: process_dequeue *)

AtLimit == Cardinality(DOMAIN events) >= MaxEvents

(* The head of the while loop: another pass over the queues, or, after a    *)
(* pass that still found something, overflow, or done.                      *)
Round ==
  /\ ppc = "round"
  /\ col' = 1
  /\ \/ /\ ~ nothing /\ ~ AtLimit
        /\ nothing' = TRUE
        /\ ppc' = "dequeue"
        /\ UNCHANGED <<waiting, nOverflow>>
     \/ /\ ~ nothing /\ AtLimit
        /\ nOverflow' = nOverflow + 1
        /\ ppc' = "clear"
        /\ UNCHANGED <<waiting, nothing>>
     \/ /\ nothing
        /\ waiting' = TRUE
        /\ ppc' = "test"
        /\ UNCHANGED <<nothing, nOverflow>>
  /\ UNCHANGED <<subscriptions, ready, connected, run, registry, wakeup, now,
                 events, oldest_key, completed, delivery, opc, environment>>

Slice(k) == IF k \in DOMAIN events THEN events[k] ELSE EmptySlice

(* events[k] = slice *)
WithSlice(k, slice) ==
  [j \in DOMAIN events \cup {k} |-> IF j = k THEN slice ELSE events[j]]

(* What v puts in the place of its PV, unless that is taken. *)
CellOf(v, cell) ==
  IF cell # "none" THEN cell ELSE IF v.live THEN "data" ELSE "disc"

(* The events after update v of PV c is merged into them: a late update is  *)
(* left out, and so is one whose place is taken.                            *)
Merged(c, v) ==
  IF v.live /\ v.key <= oldest_key
  THEN events
  ELSE WithSlice(v.key, [Slice(v.key) EXCEPT ![c] = CellOf(v, @)])

(* The PV is passed over if nothing is known to be queued for it. *)
Poll(c) == c = 1 \/ ready[c]

(* A seeded fault: the index runs past the last PV. *)
NextColumnUnbounded(pc) ==
  /\ col' = col + 1
  /\ ppc' = IF col = N THEN pc ELSE ppc

(* The end of the body of a loop over the PVs, and pc after the loop. *)
NextColumn(pc) ==
  \/ col = N /\ ppc' = pc /\ UNCHANGED col
  \/ col < N /\ col' = col + 1 /\ UNCHANGED ppc

(* One PV in a pass over the queues. *)
Dequeue ==
  /\ ppc = "dequeue"
  /\ \/ /\ ~ Poll(col)
        /\ UNCHANGED <<values, ready, connected, nothing, events>>
     \/ /\ Poll(col)
        /\ values[col] = <<>>
        /\ ready' = [ready EXCEPT ![col] = FALSE]
        /\ UNCHANGED <<values, connected, nothing, events>>
     \/ /\ Poll(col)
        /\ values[col] # <<>>
        /\ LET v == Head(values[col]) IN
             /\ values' = [values EXCEPT ![col] = Tail(@)]
             /\ ready' = [ready EXCEPT ![col] = TRUE]
             /\ connected' = [connected EXCEPT ![col] = v.live]
             /\ nothing' = FALSE
             /\ events' = Merged(col, v)
  /\ NextColumn("round")
  /\ UNCHANGED <<chid, evid, last_event, ca, waiting, run, registry, wakeup,
                 now, oldest_key, completed, nOverflow, delivery, opc,
                 environment>>

(* Overflow: the PVs keep their newest updates only; waiting stays false. *)
Clear ==
  /\ ppc = "clear"
  /\ values' = [values EXCEPT ![col] = KeepNewest(@, CarryOver)]
  /\ NextColumn("test")
  /\ UNCHANGED <<chid, evid, last_event, ca, guarded, registry, wakeup, nothing,
                 merging, delivery, opc, environment>>

-----------------------------------------------------------------------------
(* The processor thread: process_test and the delivery *)

Keys == DOMAIN events

TooOld(k) == now - k >= MaxAge

(* Some connected PV has no value in the event. *)
Incomplete(k) == \E c \in Column : connected[c] /\ events[k][c] = "none"

(* A seeded fault: the scan does not stop at events that are too old.       *)
ScannedAll == Keys

(* The scan goes from the newest event down, up to the first too old.       *)
Scanned == {k \in Keys : \A j \in Keys : j >= k => ~ TooOld(j)}

Partial == {k \in Scanned : Incomplete(k)}

(* A seeded fault: every complete event is flushed, whatever its place.     *)
FlushedUnordered == {k \in Keys : k \notin Scanned \/ ~ Incomplete(k)}

(* The events to flush: all those before the newest partial one.            *)
Flushed ==
  {k \in Keys : \A p \in Partial : (\A q \in Partial : q <= p) => k < p}

Rest == Keys \ Flushed

(* The newest of the rest are carried over. *)
Carried == {k \in Rest : Cardinality({j \in Rest : j > k}) < Carry}

EventsAt(S) == [k \in S |-> events[k]]

(* receivers_shadow = receivers, if they changed. *)
Shadow == IF receivers_changed THEN receivers ELSE receivers_shadow

Dropped == Rest \ Carried

(* assert(cur->first > oldest_key) *)
FlushedInOrder == \A k \in Flushed : k > oldest_key

(* process_test, and the mutex is released. *)
Test ==
  /\ ppc = "test"
  /\ FlushedInOrder
  /\ completed' = EventsAt(Flushed)
  /\ events' = EventsAt(Carried)
  /\ oldest_key' = IF Flushed = {} THEN oldest_key
                   ELSE CHOOSE k \in Flushed : \A j \in Flushed : j <= k
  /\ nOverflow' = nOverflow + Cardinality(Dropped)
  /\ receivers_shadow' = Shadow
  /\ receivers_changed' = FALSE
  /\ IF Flushed # {}
     THEN /\ todo' = Shadow
          /\ ppc' = "deliver"
     ELSE /\ todo' = {}
          /\ ppc' = IF waiting THEN "wait" ELSE "clock"
  /\ UNCHANGED <<subscriptions, guarded, receivers, naming, wakeup, col,
                 nothing, now, opc, environment>>

(* The assertion fails: the program stops. *)
Abort ==
  /\ ppc = "test"
  /\ ~ FlushedInOrder
  /\ ppc' = "aborted"
  /\ UNCHANGED <<subscriptions, guarded, registry, wakeup, col, nothing,
                 merging, delivery, opc, environment>>

(* slices() of one receiver, called without the mutex. *)
Deliver(r) ==
  /\ ppc = "deliver"
  /\ r \in todo
  /\ todo' = todo \ {r}
  /\ UNCHANGED <<subscriptions, guarded, registry, wakeup, ppc, col, nothing,
                 merging, receivers_shadow, opc, environment>>

-----------------------------------------------------------------------------
(* Other threads *)

(* A seeded fault: the processor is not told of the new receiver. *)
AddReceiverUntold(r) ==
  /\ Alive /\ ~ MutexHeld
  /\ r \notin receivers \cup naming
  /\ receivers' = receivers \cup {r}
  /\ naming' = naming \cup {r}
  /\ UNCHANGED <<subscriptions, guarded, receivers_changed, wakeup, ppc, col,
                 nothing, merging, delivery, opc, environment>>

(* add_receiver: the registration... *)
AddReceiver(r) ==
  /\ Alive /\ ~ MutexHeld
  /\ r \notin receivers \cup naming
  /\ receivers' = receivers \cup {r}
  /\ receivers_changed' = TRUE
  /\ naming' = naming \cup {r}
  /\ UNCHANGED <<subscriptions, guarded, wakeup, ppc, col, nothing, merging,
                 delivery, opc, environment>>

(* ... and the call of names(), after the mutex is released. *)
Names(r) ==
  /\ Alive
  /\ r \in naming
  /\ naming' = naming \ {r}
  /\ UNCHANGED <<subscriptions, guarded, receivers, receivers_changed, wakeup,
                 ppc, col, nothing, merging, delivery, opc, environment>>

RemoveReceiver(r) ==
  /\ Alive /\ ~ MutexHeld
  /\ r \in receivers \ naming
  /\ receivers' = receivers \ {r}
  /\ receivers_changed' = TRUE
  /\ UNCHANGED <<subscriptions, guarded, naming, wakeup, ppc, col, nothing,
                 merging, delivery, opc, environment>>

(* Collector::close.  A channel is cleared once its callback is done. *)
CloseChannel(c) ==
  /\ Alive
  /\ opc \in {"open", "closing"}
  /\ chid[c] /\ \A d \in 1 .. c - 1 : ~ chid[d]
  /\ ca.col # c
  /\ chid' = [chid EXCEPT ![c] = FALSE]
  /\ evid' = [evid EXCEPT ![c] = FALSE]
  /\ opc' = IF c = N THEN "stop" ELSE "closing"
  /\ UNCHANGED <<last_event, values, ca, guarded, registry, wakeup, ppc, col,
                 nothing, merging, delivery, environment>>

(* A seeded fault: the processor is not woken to see that it is to stop.    *)
StopProcessorUnsignalled ==
  /\ Alive
  /\ opc = "stop"
  /\ ~ MutexHeld
  /\ run' = FALSE
  /\ opc' = "join"
  /\ UNCHANGED <<subscriptions, ready, connected, waiting, registry, wakeup, ppc,
                 col, nothing, merging, delivery, environment>>

StopProcessor ==
  /\ Alive
  /\ opc = "stop"
  /\ ~ MutexHeld
  /\ run' = FALSE
  /\ opc' = "signal"
  /\ UNCHANGED <<subscriptions, ready, connected, waiting, registry, wakeup, ppc,
                 col, nothing, merging, delivery, environment>>

SignalProcessor ==
  /\ Alive
  /\ opc = "signal"
  /\ wakeup' = TRUE
  /\ opc' = "join"
  /\ UNCHANGED <<subscriptions, guarded, registry, ppc, col, nothing, merging,
                 delivery, environment>>

JoinProcessor ==
  /\ opc = "join"
  /\ ppc = "exited"
  /\ opc' = "closed"
  /\ UNCHANGED <<subscriptions, guarded, registry, wakeup, ppc, col, nothing,
                 merging, delivery, environment>>

-----------------------------------------------------------------------------
(* The environment *)

Tick ==
  /\ Alive
  /\ clock < MaxClock
  /\ clock' = clock + 1
  /\ UNCHANGED <<subscriptions, guarded, registry, wakeup, ppc, col, nothing,
                 merging, delivery, opc, updates>>

-----------------------------------------------------------------------------
CA ==
  \/ \E c \in Column : ConnectUp(c) \/ Disconnect(c)
  \/ \E c \in Column, k \in Key : Event(c, k)
  \/ PushMarker \/ NotEmpty \/ Signal

Processor ==
  \/ Start \/ Round \/ Dequeue \/ Clear \/ Test \/ Abort
  \/ (\E r \in Receiver : Deliver(r))
  \/ Sleep \/ Wake \/ GetTime \/ Lock

Owner ==
  \/ (\E c \in Column : CloseChannel(c))
  \/ StopProcessor \/ SignalProcessor \/ JoinProcessor

Registration ==
  \E r \in Receiver : AddReceiver(r) \/ Names(r) \/ RemoveReceiver(r)

(* The program is over: closed, or stopped by the failed assertion.         *)
Over == opc = "closed" \/ ppc = "aborted"

Terminated == Over /\ UNCHANGED vars

Next ==
  \/ CA \/ Processor \/ Owner \/ Registration \/ Tick
  \/ Terminated

Spec == Init /\ [][Next]_vars

(* The threads are scheduled: the processor runs, a callback in progress    *)
(* ends, and close(), once called, goes on.  Nothing says that updates      *)
(* arrive, that receivers come or that anybody calls close().               *)
Fairness ==
  /\ WF_vars(Processor)
  /\ WF_vars(PushMarker \/ NotEmpty \/ Signal)
  /\ WF_vars(opc # "open" /\ Owner)

FairSpec == Spec /\ Fairness

-----------------------------------------------------------------------------
SharedOK ==
  /\ values \in [Column -> Seq(Value)]
  /\ last_event \in [Column -> 0 .. MaxClock + Skew]
  /\ ca \in [pc : {"push"}, col : Column, key : Key]
            \cup [pc : {"notify", "signal"}, col : Column, key : {0}]
            \cup {Idle}
  /\ clock \in 1 .. MaxClock
  /\ updates \in 0 .. MaxUpdates
  /\ chid \in [Column -> BOOLEAN]
  /\ evid \in [Column -> BOOLEAN]

ProcessorOK ==
  /\ ppc \in {"start", "round", "dequeue", "clear", "test", "deliver", "wait",
              "clock", "lock", "exited", "aborted"}
  /\ col \in Column
  /\ now \in 0 .. MaxClock
  /\ Keys \subseteq Key
  /\ events \in [Keys -> [Column -> Cell]]
  /\ DOMAIN completed \subseteq Key
  /\ oldest_key \in 0 .. MaxClock + Skew
  /\ nOverflow \in Nat
  /\ ready \in [Column -> BOOLEAN]
  /\ connected \in [Column -> BOOLEAN]
  /\ waiting \in BOOLEAN
  /\ run \in BOOLEAN
  /\ wakeup \in BOOLEAN
  /\ nothing \in BOOLEAN

ReceiversOK ==
  /\ receivers \cup receivers_shadow \cup todo \cup naming \subseteq Receiver
  /\ receivers_changed \in BOOLEAN
  /\ opc \in {"open", "closing", "stop", "signal", "join", "closed"}

(* Every variable stays in its range. *)
TypeOK == SharedOK /\ ProcessorOK /\ ReceiversOK

Calling(c, pcs) == ca.pc \in pcs /\ ca.col = c

(* A processor that waits on its event with an update queued for a PV is    *)
(* about to be woken: the event is set, or a callback has still to set it.  *)
NoLostWakeup ==
  ppc = "wait" /\ (\E c \in Column : values[c] # <<>>)
    => wakeup \/ ca.pc \in {"notify", "signal"}

(* An update queued for a PV is known to the processor, which will poll the *)
(* PV, or its callback has still to say so.                                 *)
QueuedIsVisible ==
  \A c \in Column : values[c] # <<>> => Poll(c) \/ Calling(c, {"notify"})

(* The processor takes a PV whose channel is down as disconnected, and does *)
(* not wait for it, once it has emptied the queue of the PV.                *)
ConnectionViewCatchesUp ==
  \A c \in Column :
    chid[c] /\ ~ evid[c] /\ values[c] = <<>> /\ ~ Calling(c, {"push"})
      => ~ connected[c]

(* Memory is bounded: a pass over the queues adds one event per PV at most, *)
(* and none starts beyond the limit.                                        *)
EventsBounded == Cardinality(Keys) <= MaxEvents + N - 1

(* The private copy of the set of receivers is the set, unless the          *)
(* processor has been told to copy it again.                                *)
ShadowIsCurrent == ~ receivers_changed => receivers_shadow = receivers

(* The Collector implements EventStream: whatever the callbacks and the      *)
(* processor do, events leave in order, none passes over an older one, no    *)
(* value is overwritten or comes late, and every event lost is counted.      *)
Stream == INSTANCE EventStream
  WITH held <- events, newest <- oldest_key, batch <- completed,
       count <- nOverflow

ImplementsEventStream == Stream!Spec

(* Partial events are given up in time, and all of them: what a round keeps  *)
(* after the scan that stops at the first old event is younger than          *)
(* maxEventAge, however complete the events around it are.                   *)
OldIsFlushed ==
  [][ppc = "test" /\ ppc' \notin {"test", "aborted"}
       => \A k \in Keys' : ~ TooOld(k)]_vars

Stopped == ppc \in {"exited", "aborted"}

(* Whatever is queued is taken from the queue in the end. *)
QueuesDrain == \A c \in Column : values[c] # <<>> ~> values[c] = <<>> \/ Stopped

(* close(), once called, returns. *)
CloseReturns == opc # "open" ~> Over

-----------------------------------------------------------------------------
(* What the code, its comments and its tests say and does not hold. *)

(* collector.cpp:307: assert(cur->first > oldest_key). *)
NoAbort == ppc # "aborted"
=============================================================================
