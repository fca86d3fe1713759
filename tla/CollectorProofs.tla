--------------------------- MODULE CollectorProofs ---------------------------
(***************************************************************************)
(* Proofs about the Collector, for any number of PVs, any limits and any    *)
(* bounds: no wakeup is lost, the events in memory are bounded, every       *)
(* variable keeps its type, the view the processor has of the channels and  *)
(* of the receivers catches up, no round keeps an event that is too old,    *)
(* and the whole implements EventStream.                                    *)
(*                                                                         *)
(* notEmpty() is only called when a push finds a queue empty, it only       *)
(* signals when it sees the processor waiting, and the processor decides to *)
(* wait from a pass over the queues that others fill meanwhile.  The        *)
(* inductive invariant Wakeups says who, at each point of the processor's   *)
(* loop, still owes it the news of a queued update.                         *)
(***************************************************************************)
EXTENDS Collector, FiniteSetTheorems, TLAPS

(* The mark of a PV is still to be set by the callback that queued. *)
Owed(c) == ca.pc = "notify" /\ ca.col = c

(* The ranges of the variables the argument is about. *)
WakeupTypes ==
  /\ DOMAIN values = Column
  /\ DOMAIN ready = Column
  /\ col \in Column
  /\ ca.pc # "idle" => ca.col \in Column

(* In a pass over the queues, a PV that is behind the processor has nothing *)
(* queued, unless the pass has already found an update or the news of it is *)
(* owed; after the pass, no PV has.                                         *)
PassFindsAll ==
  /\ ppc = "dequeue" =>
       \A c \in Column : values[c] # <<>> => Owed(c) \/ ~ nothing \/ col <= c
  /\ ppc = "round" =>
       \A c \in Column : values[c] # <<>> => Owed(c) \/ ~ nothing

(* A processor bound to wait will be woken for what is queued. *)
WaitIsCovered ==
  ppc \in {"test", "deliver", "wait"} /\ waiting =>
    \A c \in Column :
      values[c] # <<>> => Owed(c) \/ ca.pc = "signal" \/ wakeup

NotWaitingInPass == ppc \in {"round", "dequeue", "clear"} => ~ waiting

(* The processor only blocks because its last pass found nothing. *)
WaitsIfWaiting == ppc = "wait" => waiting

Wakeups ==
  /\ WakeupTypes
  /\ QueuedIsVisible
  /\ PassFindsAll
  /\ WaitIsCovered
  /\ NotWaitingInPass
  /\ WaitsIfWaiting

wakeupVars == <<values, ca, ready, waiting, wakeup, ppc, col, nothing>>

USE DEF vars, subscriptions, guarded, registry, merging, delivery, environment

-----------------------------------------------------------------------------
LEMMA InitWakeups == Init => Wakeups
<1> SUFFICES ASSUME Init PROVE Wakeups
  OBVIOUS
<1> USE DEF Init
<1>1. WakeupTypes
  BY CollectorAssumption DEF WakeupTypes, Column, Idle
<1>2. \A c \in Column : values[c] = <<>>
  OBVIOUS
<1>3. QueuedIsVisible /\ PassFindsAll /\ WaitIsCovered
  BY <1>2 DEF QueuedIsVisible, PassFindsAll, WaitIsCovered
<1>4. NotWaitingInPass /\ WaitsIfWaiting
  BY DEF NotWaitingInPass, WaitsIfWaiting
<1> QED
  BY <1>1, <1>3, <1>4 DEF Wakeups

(* Steps that touch nothing the argument is about. *)
LEMMA OtherSteps ==
  \/ \E c \in Column : ConnectUp(c) \/ CloseChannel(c)
  \/ \E r \in Receiver : \/ Deliver(r) \/ AddReceiver(r) \/ Names(r)
                         \/ RemoveReceiver(r)
  \/ StopProcessor \/ JoinProcessor \/ Tick \/ Terminated \/ UNCHANGED vars
  => UNCHANGED wakeupVars
<1>1. ASSUME NEW c \in Column, ConnectUp(c) \/ CloseChannel(c)
      PROVE  UNCHANGED wakeupVars
  BY <1>1 DEF ConnectUp, CloseChannel, wakeupVars
<1>2. ASSUME NEW r \in Receiver,
             \/ Deliver(r) \/ AddReceiver(r) \/ Names(r)
             \/ RemoveReceiver(r)
      PROVE  UNCHANGED wakeupVars
  BY <1>2 DEF Deliver, AddReceiver, Names, RemoveReceiver, wakeupVars
<1>3. ASSUME StopProcessor \/ JoinProcessor \/ Tick \/ Terminated
             \/ UNCHANGED vars
      PROVE  UNCHANGED wakeupVars
  BY <1>3 DEF StopProcessor, JoinProcessor, Tick, Terminated, wakeupVars
<1> QED
  BY <1>1, <1>2, <1>3 DEF wakeupVars

LEMMA UnchangedWakeups == Wakeups /\ UNCHANGED wakeupVars => Wakeups'
BY DEF Wakeups, wakeupVars, WakeupTypes, QueuedIsVisible, PassFindsAll,
   WaitIsCovered, NotWaitingInPass, WaitsIfWaiting, Owed, Poll, Calling

(* A callback that pushes on the queue of c owes the processor the news, if *)
(* it found the queue empty; if it did not, they were owed or given before. *)
LEMMA PushStep ==
  ASSUME Wakeups, NEW c \in Column,
         ca.pc \in {"idle", "push"},
         DOMAIN values' = Column,
         \A d \in Column \ {c} : values'[d] = values[d],
         ca' = AfterPush(c),
         UNCHANGED <<ready, waiting, wakeup, ppc, col, nothing>>
  PROVE  Wakeups'
<1>1. \A d \in Column : values[d] # <<>> => ~ Owed(d) /\ ca.pc # "signal"
  BY DEF Owed
<1>2. \A d \in Column \ {c} : values'[d] = values[d]
  OBVIOUS
<1>3. values[c] = <<>> => Owed(c)'
  BY DEF AfterPush, At, Owed
<1>4. WakeupTypes'
  BY DEF Wakeups, WakeupTypes, AfterPush, At, Idle
<1>5. QueuedIsVisible'
  BY <1>1, <1>2, <1>3 DEF Wakeups, QueuedIsVisible, Calling, Poll, Owed
<1>6. PassFindsAll'
  BY <1>1, <1>2, <1>3 DEF Wakeups, PassFindsAll
<1>7. WaitIsCovered'
  BY <1>1, <1>2, <1>3 DEF Wakeups, WaitIsCovered
<1>8. NotWaitingInPass' /\ WaitsIfWaiting'
  BY DEF Wakeups, NotWaitingInPass, WaitsIfWaiting
<1> QED
  BY <1>4, <1>5, <1>6, <1>7, <1>8 DEF Wakeups

LEMMA CallbackSteps ==
  ASSUME Wakeups,
         \/ \E c \in Column : Disconnect(c)
         \/ \E c \in Column, k \in Key : Event(c, k)
         \/ PushMarker \/ NotEmpty \/ Signal
  PROVE  Wakeups'
<1>1. ASSUME NEW c \in Column, Disconnect(c) PROVE Wakeups'
  <2>1. ca.pc = "idle" /\ ca'.pc = "push" /\ ca'.col = c
    BY <1>1 DEF Disconnect, CallbackOn, Idle
  <2>2. UNCHANGED <<values, ready, waiting, wakeup, ppc, col, nothing>>
    BY <1>1 DEF Disconnect
  <2> QED
    BY <2>1, <2>2 DEF Wakeups, WakeupTypes, QueuedIsVisible, PassFindsAll,
       WaitIsCovered, NotWaitingInPass, WaitsIfWaiting, Owed, Poll, Calling
<1>2. ASSUME NEW c \in Column, NEW k \in Key, Event(c, k) PROVE Wakeups'
  <2> DEFINE v == [key |-> k, live |-> TRUE]
  <2>1. ca.pc = "idle"
    BY <1>2 DEF Event, CallbackOn, Idle
  <2>2. UNCHANGED <<ready, waiting, wakeup, ppc, col, nothing>>
    BY <1>2 DEF Event
  <2>3. CASE UNCHANGED <<values, ca>>
    BY <2>2, <2>3, UnchangedWakeups DEF wakeupVars
  <2>4. CASE /\ values' = [values EXCEPT ![c] = PushBounded(@, Limit, v)]
             /\ ca' = AfterPush(c)
    <3>1. /\ DOMAIN values' = Column
          /\ \A d \in Column \ {c} : values'[d] = values[d]
      BY <2>4 DEF Wakeups, WakeupTypes
    <3> QED
      BY <2>1, <2>2, <2>4, <3>1, PushStep
  <2> QED
    BY <1>2, <2>3, <2>4 DEF Event
<1>3. CASE PushMarker
  <2>1. ca.col \in Column /\ ca.pc = "push"
    BY <1>3 DEF PushMarker, Wakeups, WakeupTypes
  <2>2. UNCHANGED <<ready, waiting, wakeup, ppc, col, nothing>>
    BY <1>3 DEF PushMarker
  <2>3. /\ DOMAIN values' = Column
        /\ \A d \in Column \ {ca.col} : values'[d] = values[d]
        /\ ca' = AfterPush(ca.col)
    BY <1>3 DEF PushMarker, Wakeups, WakeupTypes
  <2> QED
    BY <2>1, <2>2, <2>3, PushStep
<1>4. CASE NotEmpty
  <2>1. /\ ca.pc = "notify" /\ ca.col \in Column
        /\ ready' = [ready EXCEPT ![ca.col] = TRUE]
        /\ ca' = IF waiting THEN At("signal", ca.col) ELSE Idle
        /\ UNCHANGED <<values, waiting, wakeup, ppc, col, nothing>>
        /\ ~ MutexHeld
    BY <1>4 DEF NotEmpty, Marked, Wakeups, WakeupTypes
  <2>2. ca'.pc = "idle" \/ (ca'.pc = "signal" /\ ca'.col = ca.col)
    BY <2>1 DEF Idle, At
  <2>3. waiting => ca'.pc = "signal"
    BY <2>1 DEF At
  <2>4. WakeupTypes'
    BY <2>1, <2>2 DEF Wakeups, WakeupTypes
  <2>5. QueuedIsVisible'
    BY <2>1 DEF Wakeups, WakeupTypes, QueuedIsVisible, Calling, Poll
  <2>6. PassFindsAll'
    BY <2>1 DEF MutexHeld, PassFindsAll
  <2>7. WaitIsCovered'
    BY <2>1, <2>3 DEF WaitIsCovered
  <2>8. NotWaitingInPass' /\ WaitsIfWaiting'
    BY <2>1 DEF Wakeups, NotWaitingInPass, WaitsIfWaiting
  <2> QED
    BY <2>4, <2>5, <2>6, <2>7, <2>8 DEF Wakeups
<1>5. CASE Signal
  <2>1. /\ ca.pc = "signal" /\ ca' = Idle /\ wakeup'
        /\ UNCHANGED <<values, ready, waiting, ppc, col, nothing>>
    BY <1>5 DEF Signal
  <2>2. WakeupTypes'
    BY <2>1 DEF Wakeups, WakeupTypes, Idle
  <2>3. QueuedIsVisible' /\ PassFindsAll'
    BY <2>1 DEF Wakeups, QueuedIsVisible, PassFindsAll, Calling, Poll, Owed
  <2>4. WaitIsCovered' /\ NotWaitingInPass' /\ WaitsIfWaiting'
    BY <2>1 DEF Wakeups, WaitIsCovered, NotWaitingInPass, WaitsIfWaiting
  <2> QED
    BY <2>2, <2>3, <2>4 DEF Wakeups
<1> QED
  BY <1>1, <1>2, <1>3, <1>4, <1>5

(* The processor starts a round, goes to sleep or wakes up. *)
LEMMA LoopSteps ==
  ASSUME Wakeups,
         Start \/ Sleep \/ Wake \/ GetTime \/ Lock \/ SignalProcessor
  PROVE  Wakeups'
<1>1. CASE Start \/ Lock
  <2>1. \/ ppc' = "round" /\ waiting' = FALSE /\ nothing' = FALSE
        \/ ppc' = "exited" /\ UNCHANGED <<waiting, nothing>>
    BY <1>1 DEF Start, Lock, LoopHead
  <2>2. UNCHANGED <<values, ca, ready, wakeup, col>>
    BY <1>1 DEF Start, Lock
  <2> QED
    BY <2>1, <2>2 DEF Wakeups, WakeupTypes, QueuedIsVisible, PassFindsAll,
       WaitIsCovered, NotWaitingInPass, WaitsIfWaiting, Poll, Calling
<1>2. CASE Sleep
  <2>1. /\ ppc = "deliver" /\ ppc' = IF waiting THEN "wait" ELSE "clock"
        /\ UNCHANGED <<values, ca, ready, waiting, wakeup, col, nothing>>
    BY <1>2 DEF Sleep
  <2> QED
    BY <2>1 DEF Wakeups, WakeupTypes, QueuedIsVisible, PassFindsAll,
       WaitIsCovered, NotWaitingInPass, WaitsIfWaiting, Poll, Calling, Owed
<1>3. CASE Wake \/ GetTime
  <2>1. /\ ppc' \in {"clock", "lock"}
        /\ UNCHANGED <<values, ca, ready, waiting, col, nothing>>
    BY <1>3 DEF Wake, GetTime
  <2> QED
    BY <2>1 DEF Wakeups, WakeupTypes, QueuedIsVisible, PassFindsAll,
       WaitIsCovered, NotWaitingInPass, WaitsIfWaiting, Poll, Calling, Owed
<1>4. CASE SignalProcessor
  <2>1. /\ wakeup'
        /\ UNCHANGED <<values, ca, ready, waiting, ppc, col, nothing>>
    BY <1>4 DEF SignalProcessor
  <2> QED
    BY <2>1 DEF Wakeups, WakeupTypes, QueuedIsVisible, PassFindsAll,
       WaitIsCovered, NotWaitingInPass, WaitsIfWaiting, Poll, Calling, Owed
<1> QED
  BY <1>1, <1>2, <1>3, <1>4

LEMMA RoundStep == ASSUME Wakeups, Round PROVE Wakeups'
<1>1. /\ ppc = "round" /\ col' = 1
      /\ UNCHANGED <<values, ca, ready, wakeup>>
      /\ \/ ppc' = "dequeue" /\ nothing' /\ UNCHANGED waiting
         \/ ppc' = "clear" /\ UNCHANGED <<waiting, nothing>>
         \/ ppc' = "test" /\ nothing /\ UNCHANGED nothing
  BY DEF Round
<1>2. 1 \in Column /\ \A c \in Column : 1 <= c
  BY CollectorAssumption DEF Column
<1>3. WakeupTypes' /\ QueuedIsVisible'
  BY <1>1, <1>2 DEF Wakeups, WakeupTypes, QueuedIsVisible, Poll, Calling
<1>4. PassFindsAll' /\ WaitsIfWaiting'
  BY <1>1, <1>2 DEF PassFindsAll, WaitsIfWaiting
<1>5. WaitIsCovered'
  <2>1. CASE ppc' = "test"
    BY <1>1, <2>1 DEF Wakeups, PassFindsAll, WaitIsCovered, Owed
  <2>2. CASE ppc' # "test"
    BY <1>1, <2>2 DEF WaitIsCovered
  <2> QED
    BY <2>1, <2>2
<1>6. NotWaitingInPass'
  BY <1>1 DEF Wakeups, NotWaitingInPass
<1> QED
  BY <1>3, <1>4, <1>5, <1>6 DEF Wakeups

(* One PV of a pass: it is empty when the processor leaves it, or news of   *)
(* it is owed, or the pass is known to have found an update.                *)
LEMMA DequeueStep == ASSUME Wakeups, Dequeue PROVE Wakeups'
<1>1. /\ ppc = "dequeue"
      /\ UNCHANGED <<ca, waiting, wakeup>>
      /\ \/ /\ ~ Poll(col)
            /\ UNCHANGED <<values, ready, nothing>>
         \/ /\ values[col] = <<>>
            /\ ready' = [ready EXCEPT ![col] = FALSE]
            /\ UNCHANGED <<values, nothing>>
         \/ /\ values[col] # <<>>
            /\ values' = [values EXCEPT ![col] = Tail(values[col])]
            /\ ready' = [ready EXCEPT ![col] = TRUE]
            /\ ~ nothing'
      /\ \/ col = N /\ ppc' = "round" /\ UNCHANGED col
         \/ col # N /\ ppc' = "dequeue" /\ col' = col + 1
  BY CollectorAssumption DEF Dequeue, NextColumn, Wakeups, WakeupTypes, Column
<1>2. /\ col \in Column /\ col' \in Column
      /\ \A c \in Column : c \in Nat /\ c <= N
  BY <1>1, CollectorAssumption DEF Wakeups, WakeupTypes, Column
<1>3. /\ DOMAIN values' = Column /\ DOMAIN ready' = Column
      /\ \A c \in Column \ {col} : values'[c] = values[c]
      /\ \A c \in Column \ {col} : ready'[c] = ready[c]
  BY <1>1 DEF Wakeups, WakeupTypes
<1>4. WakeupTypes'
  BY <1>1, <1>2, <1>3 DEF Wakeups, WakeupTypes
<1>5. QueuedIsVisible'
  <2>1. ASSUME NEW c \in Column, values'[c] # <<>>
        PROVE  Poll(c)' \/ Calling(c, {"notify"})'
    <3>1. CASE c # col
      BY <1>1, <1>3, <2>1, <3>1 DEF Wakeups, QueuedIsVisible, Poll, Calling
    <3>2. CASE c = col
      BY <1>1, <1>2, <2>1, <3>2
      DEF Wakeups, WakeupTypes, QueuedIsVisible, Poll, Calling
    <3> QED
      BY <3>1, <3>2
  <2> QED
    BY <2>1 DEF QueuedIsVisible
<1>6. ASSUME NEW c \in Column, values'[c] # <<>>
      PROVE  Owed(c)' \/ ~ nothing' \/ col < c
  <2>1. CASE c # col
    <3>1. Owed(c) \/ ~ nothing \/ col <= c
      BY <1>1, <1>3, <1>6, <2>1 DEF Wakeups, PassFindsAll
    <3> QED
      BY <1>1, <1>2, <2>1, <3>1 DEF Owed
  <2>2. CASE c = col
    BY <1>1, <1>2, <1>6, <2>2 DEF Wakeups, QueuedIsVisible, Calling, Owed
  <2> QED
    BY <2>1, <2>2
<1>7. PassFindsAll'
  BY <1>1, <1>2, <1>6 DEF PassFindsAll, Column
<1>8. WaitIsCovered' /\ NotWaitingInPass' /\ WaitsIfWaiting'
  BY <1>1 DEF Wakeups, WaitIsCovered, NotWaitingInPass, WaitsIfWaiting
<1> QED
  BY <1>4, <1>5, <1>7, <1>8 DEF Wakeups

LEMMA ClearStep == ASSUME Wakeups, Clear PROVE Wakeups'
<1>1. /\ ppc = "clear"
      /\ values' = [values EXCEPT ![col] = KeepNewest(values[col], CarryOver)]
      /\ UNCHANGED <<ca, ready, wakeup, nothing>>
      /\ ~ waiting'
      /\ \/ col = N /\ ppc' = "test" /\ UNCHANGED col
         \/ col < N /\ ppc' = "clear" /\ col' = col + 1
  BY DEF Clear, NextColumn, Wakeups, NotWaitingInPass
<1>2. col \in Column /\ col' \in Column
  BY <1>1, CollectorAssumption DEF Wakeups, WakeupTypes, Column
<1>3. KeepNewest(<<>>, CarryOver) = <<>>
  BY CollectorAssumption DEF KeepNewest
<1>4. \A c \in Column : values'[c] # <<>> => values[c] # <<>>
  BY <1>1, <1>2, <1>3 DEF Wakeups, WakeupTypes
<1>5. WakeupTypes' /\ QueuedIsVisible'
  BY <1>1, <1>2, <1>4
  DEF Wakeups, WakeupTypes, QueuedIsVisible, Poll, Calling
<1>6. PassFindsAll' /\ WaitIsCovered' /\ NotWaitingInPass' /\ WaitsIfWaiting'
  BY <1>1
  DEF Wakeups, PassFindsAll, WaitIsCovered, NotWaitingInPass, WaitsIfWaiting
<1> QED
  BY <1>5, <1>6 DEF Wakeups

LEMMA TestStep == ASSUME Wakeups, Test \/ Abort PROVE Wakeups'
<1>1. /\ ppc = "test"
      /\ UNCHANGED <<values, ca, ready, wakeup, waiting, col, nothing>>
      /\ \/ ppc' = "deliver"
         \/ ppc' = "wait" /\ waiting
         \/ ppc' = "clock"
         \/ ppc' = "aborted"
  BY DEF Test, Abort
<1> QED
  BY <1>1 DEF Wakeups, WakeupTypes, QueuedIsVisible, PassFindsAll,
     WaitIsCovered, NotWaitingInPass, WaitsIfWaiting, Poll, Calling, Owed

LEMMA NextWakeups == Wakeups /\ [Next]_vars => Wakeups'
<1> SUFFICES ASSUME Wakeups, [Next]_vars PROVE Wakeups'
  OBVIOUS
<1>1. CASE CA
  BY <1>1, CallbackSteps, OtherSteps, UnchangedWakeups DEF CA
<1>2. CASE Processor
  BY <1>2, LoopSteps, RoundStep, DequeueStep, ClearStep, TestStep,
     OtherSteps, UnchangedWakeups DEF Processor
<1>3. CASE Owner
  BY <1>3, LoopSteps, OtherSteps, UnchangedWakeups DEF Owner
<1>4. CASE Registration \/ Tick \/ Terminated \/ UNCHANGED vars
  BY <1>4, OtherSteps, UnchangedWakeups DEF Registration
<1> QED
  BY <1>1, <1>2, <1>3, <1>4 DEF Next

LEMMA WakeupsSuffice == Wakeups => NoLostWakeup
BY DEF Wakeups, WaitIsCovered, WaitsIfWaiting, NoLostWakeup, Owed

-----------------------------------------------------------------------------
(* The processor thread never blocks for good on a queued update: whenever  *)
(* it waits and something is queued, its event is set or a CA callback in   *)
(* progress will set it.                                                    *)
THEOREM NoWakeupIsLost == Spec => []NoLostWakeup
BY InitWakeups, NextWakeups, WakeupsSuffice, PTL DEF Spec

(* Every queued update is in a queue the processor polls, or its callback   *)
(* is about to say so.                                                      *)
THEOREM QueuedStaysVisible == Spec => []QueuedIsVisible
<1>1. Wakeups => QueuedIsVisible
  BY DEF Wakeups
<1> QED
  BY <1>1, InitWakeups, NextWakeups, PTL DEF Spec

-----------------------------------------------------------------------------
(* The limit on events is only looked at between passes, so that the bound  *)
(* has to be kept PV by PV in a pass, and through whatever comes after.     *)
PassBounded ==
  /\ IsFiniteSet(Keys)
  /\ col \in Column
  /\ Cardinality(Keys) <= MaxEvents + N - 1
  /\ ppc = "dequeue" => Cardinality(Keys) <= MaxEvents + col - 2

LEMMA InitPassBounded == Init => PassBounded
<1> SUFFICES ASSUME Init PROVE PassBounded
  OBVIOUS
<1>1. Keys = {}
  BY DEF Init, Nothing, Keys
<1>2. IsFiniteSet(Keys) /\ Cardinality(Keys) = 0
  BY <1>1, FS_EmptySet
<1>3. col = 1 /\ ppc = "start"
  BY DEF Init
<1> QED
  BY <1>2, <1>3, CollectorAssumption DEF PassBounded, Column

(* Merging an update adds one event at most. *)
LEMMA MergedAddsOne ==
  ASSUME NEW c, NEW v, IsFiniteSet(Keys)
  PROVE  /\ IsFiniteSet(DOMAIN Merged(c, v))
         /\ Cardinality(DOMAIN Merged(c, v)) <= Cardinality(Keys) + 1
<1>1. DOMAIN Merged(c, v) = Keys \/ DOMAIN Merged(c, v) = Keys \cup {v.key}
  BY DEF Merged, WithSlice, Keys
<1>2. Cardinality(Keys) \in Nat
  BY FS_CardinalityType
<1>3. /\ IsFiniteSet(Keys \cup {v.key})
      /\ Cardinality(Keys \cup {v.key}) \in
           {Cardinality(Keys), Cardinality(Keys) + 1}
  BY FS_AddElement
<1> QED
  BY <1>1, <1>2, <1>3

LEMMA DequeueBounded == ASSUME PassBounded, Dequeue PROVE PassBounded'
<1>1. ppc = "dequeue"
  BY DEF Dequeue
<1>2. /\ IsFiniteSet(Keys')
      /\ Cardinality(Keys') <= Cardinality(Keys) + 1
  <2>1. CASE UNCHANGED events
    BY <2>1, FS_CardinalityType DEF PassBounded, Keys
  <2>2. CASE events' = Merged(col, Head(values[col]))
    BY <2>2, MergedAddsOne DEF PassBounded, Keys
  <2> QED
    BY <2>1, <2>2 DEF Dequeue
<1>3. /\ Cardinality(Keys) \in Nat /\ Cardinality(Keys') \in Nat
      /\ Cardinality(Keys) <= MaxEvents + col - 2
  BY <1>1, <1>2, FS_CardinalityType DEF PassBounded
<1>4. \/ col = N /\ ppc' = "round" /\ col' = col
      \/ col < N /\ ppc' = "dequeue" /\ col' = col + 1
  BY <1>1 DEF Dequeue, NextColumn
<1>5. N \in Nat /\ MaxEvents \in Nat /\ col \in 1 .. N
  BY CollectorAssumption DEF PassBounded, Column
<1> QED
  BY <1>2, <1>3, <1>4, <1>5 DEF PassBounded, Column

LEMMA RoundBounded == ASSUME PassBounded, Round PROVE PassBounded'
<1>1. /\ events' = events /\ col' = 1
      /\ ppc' = "dequeue" => ~ AtLimit
  BY DEF Round
<1>2. Cardinality(Keys) \in Nat /\ Keys' = Keys
  BY <1>1, FS_CardinalityType DEF PassBounded, Keys
<1>3. ppc' = "dequeue" => Cardinality(Keys) <= MaxEvents - 1
  BY <1>1, <1>2, CollectorAssumption DEF AtLimit, Keys
<1> QED
  BY <1>1, <1>2, <1>3, CollectorAssumption DEF PassBounded, Column

LEMMA TestBounded == ASSUME PassBounded, Test PROVE PassBounded'
<1>1. Keys' = Carried /\ ppc' # "dequeue" /\ col' = col
  BY DEF Test, EventsAt, Keys
<1>2. Carried \subseteq Keys
  BY DEF Carried, Rest
<1>3. /\ IsFiniteSet(Carried) /\ Cardinality(Carried) <= Cardinality(Keys)
      /\ Cardinality(Keys) \in Nat /\ Cardinality(Carried) \in Nat
  BY <1>2, FS_Subset, FS_CardinalityType DEF PassBounded
<1> QED
  BY <1>1, <1>3, CollectorAssumption DEF PassBounded

LEMMA ClearBounded == ASSUME PassBounded, Clear PROVE PassBounded'
<1>1. /\ events' = events /\ ppc' # "dequeue"
      /\ col' = col \/ (col < N /\ col' = col + 1)
  BY DEF Clear, NextColumn, merging
<1> QED
  BY <1>1, CollectorAssumption DEF PassBounded, Column, Keys

(* All other steps leave the events and the column alone and start no pass. *)
LEMMA OthersBounded ==
  ASSUME PassBounded,
         UNCHANGED <<events, col>>,
         ppc' # "dequeue" \/ ppc' = ppc
  PROVE  PassBounded'
BY DEF PassBounded, Keys

LEMMA OtherStepsKeepEvents ==
  \/ CA \/ Owner \/ Registration \/ Tick \/ Terminated \/ UNCHANGED vars
  \/ Start \/ Sleep \/ Wake \/ GetTime \/ Lock \/ Abort
  \/ \E r \in Receiver : Deliver(r)
  => UNCHANGED <<events, col>> /\ (ppc' # "dequeue" \/ ppc' = ppc)
<1>1. ASSUME CA PROVE UNCHANGED <<events, col, ppc>>
  BY <1>1 DEF CA, ConnectUp, Disconnect, Event, PushMarker, NotEmpty, Signal
<1>2. ASSUME Owner PROVE UNCHANGED <<events, col, ppc>>
  BY <1>2 DEF Owner, CloseChannel, StopProcessor, SignalProcessor, JoinProcessor
<1>3. ASSUME Registration \/ Tick \/ Terminated \/ UNCHANGED vars
      PROVE  UNCHANGED <<events, col, ppc>>
  BY <1>3
  DEF Registration, AddReceiver, Names, RemoveReceiver, Tick, Terminated
<1>4. ASSUME Start \/ Sleep \/ Wake \/ GetTime \/ Lock \/ Abort
      PROVE  UNCHANGED <<events, col>> /\ ppc' # "dequeue"
  BY <1>4 DEF Start, Sleep, Wake, GetTime, Lock, Abort, LoopHead
<1>5. ASSUME NEW r \in Receiver, Deliver(r) PROVE UNCHANGED <<events, col, ppc>>
  BY <1>5 DEF Deliver
<1> QED
  BY <1>1, <1>2, <1>3, <1>4, <1>5

LEMMA NextPassBounded == PassBounded /\ [Next]_vars => PassBounded'
<1> SUFFICES ASSUME PassBounded, [Next]_vars PROVE PassBounded'
  OBVIOUS
<1>1. CASE Round \/ Dequeue \/ Clear \/ Test
  BY <1>1, RoundBounded, DequeueBounded, ClearBounded, TestBounded
<1>2. CASE ~ (Round \/ Dequeue \/ Clear \/ Test)
  BY <1>2, OtherStepsKeepEvents, OthersBounded DEF Next, Processor
<1> QED
  BY <1>1, <1>2

(* The map of events is bounded by the limit and the number of PVs, for any *)
(* number of PVs and updates, although the limit is only tested at the head *)
(* of a pass and what a round leaves is carried over into the next.         *)
THEOREM EventsStayBounded == Spec => []EventsBounded
<1>1. PassBounded => EventsBounded
  BY DEF PassBounded, EventsBounded
<1> QED
  BY <1>1, InitPassBounded, NextPassBounded, PTL DEF Spec

-----------------------------------------------------------------------------
(* The queue operations, as far as the Collector depends on them *)

(* Keeping the newest r of a queue leaves a queue, which ends as it did and *)
(* is only empty if it was.                                                 *)
LEMMA KeptQueue ==
  ASSUME NEW S, NEW q \in Seq(S), NEW r \in Nat \ {0}
  PROVE  /\ KeepNewest(q, r) \in Seq(S)
         /\ KeepNewest(q, r) = <<>> <=> q = <<>>
         /\ q # <<>> => KeepNewest(q, r)[Len(KeepNewest(q, r))] = q[Len(q)]
<1>1. CASE Len(q) > r
  <2>1. /\ KeepNewest(q, r) = SubSeq(q, Len(q) - r + 1, Len(q))
        /\ KeepNewest(q, r) \in Seq(S)
    BY <1>1 DEF KeepNewest
  <2>2. Len(KeepNewest(q, r)) = r
    BY <1>1, <2>1
  <2>3. KeepNewest(q, r)[r] = q[Len(q)]
    BY <1>1, <2>1
  <2>4. q # <<>> /\ KeepNewest(q, r) # <<>>
    <3>1. Len(q) # 0 /\ Len(KeepNewest(q, r)) # 0
      BY <1>1, <2>2
    <3> QED
      BY <3>1
  <2> QED
    BY <2>1, <2>2, <2>3, <2>4
<1>2. CASE ~ (Len(q) > r)
  BY <1>2 DEF KeepNewest
<1> QED
  BY <1>1, <1>2

(* A push leaves a queue that is not empty. *)
LEMMA PushedQueue ==
  ASSUME NEW S, NEW q \in Seq(S), NEW r \in Nat \ {0}, NEW v \in S
  PROVE  /\ PushBounded(q, r, v) \in Seq(S)
         /\ PushBounded(q, r, v) # <<>>
<1>1. KeepNewest(q, r) \in Seq(S)
  BY KeptQueue
<1> QED
  BY <1>1 DEF PushBounded

(* Taking the head leaves a queue that, unless it is empty, ends as before. *)
LEMMA TakenQueue ==
  ASSUME NEW S, NEW q \in Seq(S), q # <<>>
  PROVE  /\ Head(q) \in S
         /\ Tail(q) \in Seq(S)
         /\ Tail(q) # <<>> => Tail(q)[Len(Tail(q))] = q[Len(q)]
         /\ Tail(q) = <<>> => Head(q) = q[Len(q)]
<1>1. /\ Len(q) \in Nat \ {0} /\ Len(Tail(q)) = Len(q) - 1
      /\ Head(q) = q[1] /\ Head(q) \in S /\ Tail(q) \in Seq(S)
  OBVIOUS
<1>2. ASSUME Tail(q) # <<>> PROVE Tail(q)[Len(Tail(q))] = q[Len(q)]
  <2>1. Len(Tail(q)) \in 1 .. Len(q) - 1
    BY <1>1, <1>2
  <2> QED
    BY <1>1, <2>1
<1>3. ASSUME Tail(q) = <<>> PROVE Head(q) = q[Len(q)]
  <2>1. Len(q) = 1
    BY <1>1, <1>3
  <2> QED
    BY <1>1, <2>1
<1> QED
  BY <1>1, <1>2, <1>3

(* A set of numbers that has an element and a bound has a greatest element: *)
(* the least of its mirror image.                                           *)
LEMMA HasGreatest ==
  ASSUME NEW S, NEW M \in Nat, S # {}, S \subseteq 0 .. M
  PROVE  \E x \in S : \A y \in S : y <= x
<1> DEFINE T == {M - k : k \in S}
           R == OpToRel(<, Nat)
<1>1. \A k \in S : k \in Nat /\ M - k \in Nat
  OBVIOUS
<1>2. T \subseteq Nat /\ T # {}
  BY <1>1
<1>3. PICK x \in T : \A y \in T : ~ (<<y, x>> \in R)
  <2> HIDE DEF R, T
  <2>1. IsWellFoundedOn(R, Nat)
    BY NatLessThanWellFounded DEF R
  <2> QED
    BY <1>2, <2>1, WFMin
<1>4. \A a, b \in Nat : a < b => <<a, b>> \in R
  BY DEF OpToRel
<1>5. \A y \in T : ~ (y < x)
  BY <1>2, <1>3, <1>4
<1>6. PICK k \in S : x = M - k
  OBVIOUS
<1>7. ASSUME NEW j \in S PROVE j <= k
  <2>1. M - j \in T
    OBVIOUS
  <2>2. ~ (M - j < M - k)
    BY <1>5, <1>6, <2>1
  <2> QED
    BY <1>1, <2>2
<1> QED
  BY <1>7

-----------------------------------------------------------------------------
(* Types *)

CallbackType ==
  [pc : {"push"}, col : Column, key : Key]
  \cup [pc : {"notify", "signal"}, col : Column, key : {0}]
  \cup {Idle}

LEMMA InitTypeOK == Init => TypeOK
<1> SUFFICES ASSUME Init PROVE TypeOK
  OBVIOUS
<1> USE CollectorAssumption DEF Init
<1>1. SharedOK
  BY DEF SharedOK
<1>2. Keys = {} /\ DOMAIN completed = {}
  BY DEF Keys, Nothing
<1>3. events \in [Keys -> [Column -> Cell]]
  BY <1>2 DEF Keys, Nothing
<1>4. /\ col \in Column /\ now \in 0 .. MaxClock
      /\ oldest_key \in 0 .. MaxClock + Skew
  BY DEF Column
<1>6. ready \in [Column -> BOOLEAN] /\ connected \in [Column -> BOOLEAN]
  OBVIOUS
<1>7. ProcessorOK
  BY <1>2, <1>3, <1>4, <1>6 DEF ProcessorOK
<1>5. ReceiversOK
  BY DEF ReceiversOK
<1> QED
  BY <1>1, <1>7, <1>5 DEF TypeOK

(* The callback in progress, by what it is about to do. *)
LEMMA CallbackIs ==
  ASSUME SharedOK
  PROVE  /\ ca \in CallbackType
         /\ ca.pc = "push" => ca.col \in Column /\ ca.key \in Key
         /\ ca.pc \in {"notify", "signal"} => ca.col \in Column
BY DEF SharedOK, CallbackType, Idle

LEMMA CallbackNext ==
  ASSUME NEW c \in Column
  PROVE  /\ At("notify", c) \in CallbackType
         /\ At("signal", c) \in CallbackType
         /\ AfterPush(c) \in CallbackType
         /\ Idle \in CallbackType
BY DEF At, AfterPush, CallbackType

LEMMA SharedStep == TypeOK /\ [Next]_vars => SharedOK'
<1> SUFFICES ASSUME TypeOK, [Next]_vars PROVE SharedOK'
  OBVIOUS
<1>1. /\ SharedOK /\ ca \in CallbackType /\ Limit \in Nat \ {0}
      /\ CarryOver \in Nat \ {0}
  BY CallbackIs, CollectorAssumption DEF TypeOK
<1>2. ASSUME NEW c \in Column, ConnectUp(c) PROVE SharedOK'
  BY <1>1, <1>2, CollectorAssumption DEF ConnectUp, SharedOK
<1>3. ASSUME NEW c \in Column, Disconnect(c) PROVE SharedOK'
  <2>1. clock \in Key
    BY <1>1, CollectorAssumption DEF SharedOK, Key
  <2>2. ca' \in CallbackType
    BY <1>3, <2>1 DEF Disconnect, CallbackType
  <2> QED
    BY <1>1, <1>3, <2>2, CollectorAssumption
    DEF Disconnect, SharedOK, CallbackType
<1>4. ASSUME NEW c \in Column, NEW k \in Key, Event(c, k) PROVE SharedOK'
  <2> DEFINE v == [key |-> k, live |-> TRUE]
  <2>1. v \in Value /\ k \in 0 .. MaxClock + Skew
    BY CollectorAssumption DEF Value, Key
  <2>2. PushBounded(values[c], Limit, v) \in Seq(Value)
    BY <1>1, <2>1, PushedQueue DEF SharedOK
  <2>3. values' \in [Column -> Seq(Value)]
    BY <1>1, <1>4, <2>2 DEF Event, SharedOK
  <2>4. ca' \in CallbackType
    BY <1>1, <1>4, CallbackNext DEF Event
  <2>5. last_event' \in [Column -> 0 .. MaxClock + Skew]
    BY <1>1, <1>4, <2>1 DEF Event, SharedOK
  <2>6. updates' \in 0 .. MaxUpdates
    BY <1>1, <1>4, CollectorAssumption DEF Event, SharedOK
  <2>7. UNCHANGED <<chid, evid, clock>>
    BY <1>4 DEF Event
  <2> QED
    BY <1>1, <2>3, <2>4, <2>5, <2>6, <2>7 DEF SharedOK, CallbackType
<1>5. CASE PushMarker
  <2> DEFINE v == [key |-> ca.key, live |-> FALSE]
  <2>1. v \in Value /\ ca.col \in Column
    BY <1>1, <1>5, CallbackIs DEF PushMarker, Value
  <2>2. PushBounded(values[ca.col], Limit, v) \in Seq(Value)
    BY <1>1, <2>1, PushedQueue DEF SharedOK
  <2>3. values' \in [Column -> Seq(Value)]
    BY <1>1, <1>5, <2>2 DEF PushMarker, SharedOK
  <2>4. ca' \in CallbackType
    BY <1>5, <2>1, CallbackNext DEF PushMarker
  <2> QED
    BY <1>1, <1>5, <2>3, <2>4 DEF PushMarker, SharedOK, CallbackType
<1>6. CASE NotEmpty \/ Signal
  <2>1. ca' \in CallbackType
    BY <1>1, <1>6, CallbackIs, CallbackNext DEF NotEmpty, Signal, CallbackType
  <2> QED
    BY <1>1, <1>6, <2>1 DEF NotEmpty, Signal, SharedOK, CallbackType
<1>7. CASE Dequeue
  <2>1. values' \in [Column -> Seq(Value)]
    <3>1. CASE values[col] # <<>> /\ values' = [values EXCEPT ![col] = Tail(@)]
      <4>1. col \in Column /\ values[col] \in Seq(Value)
        BY <1>1 DEF TypeOK, ProcessorOK, SharedOK
      <4>2. Tail(values[col]) \in Seq(Value)
        BY <3>1, <4>1, TakenQueue
      <4> QED
        BY <1>1, <3>1, <4>2 DEF SharedOK
    <3>2. CASE UNCHANGED values
      BY <1>1, <3>2 DEF SharedOK
    <3> QED
      BY <1>7, <3>1, <3>2 DEF Dequeue
  <2> QED
    BY <1>1, <1>7, <2>1 DEF Dequeue, SharedOK
<1>8. CASE Clear
  <2>1. col \in Column /\ values[col] \in Seq(Value)
    BY <1>1 DEF TypeOK, ProcessorOK, SharedOK
  <2>2. KeepNewest(values[col], CarryOver) \in Seq(Value)
    BY <1>1, <2>1, KeptQueue
  <2> QED
    BY <1>1, <1>8, <2>2 DEF Clear, SharedOK
<1>9. ASSUME NEW c \in Column, CloseChannel(c) PROVE SharedOK'
  BY <1>1, <1>9 DEF CloseChannel, SharedOK
<1>10. CASE Tick
  BY <1>1, <1>10, CollectorAssumption DEF Tick, SharedOK
<1>11. CASE UNCHANGED <<subscriptions, environment>>
  BY <1>1, <1>11 DEF SharedOK
<1>12. CASE Processor
  <2>1. CASE Start \/ Round \/ Test \/ Abort \/ Sleep \/ Wake \/ GetTime \/ Lock
    BY <1>11, <2>1 DEF Start, Round, Test, Abort, Sleep, Wake, GetTime, Lock
  <2>2. ASSUME NEW r \in Receiver, Deliver(r) PROVE SharedOK'
    BY <1>11, <2>2 DEF Deliver
  <2> QED
    BY <1>7, <1>8, <1>12, <2>1, <2>2 DEF Processor
<1>13. CASE StopProcessor \/ SignalProcessor \/ JoinProcessor
  BY <1>11, <1>13 DEF StopProcessor, SignalProcessor, JoinProcessor
<1>14. CASE Registration \/ Terminated \/ UNCHANGED vars
  BY <1>11, <1>14
  DEF Registration, AddReceiver, Names, RemoveReceiver, Terminated
<1> QED
  BY <1>2, <1>3, <1>4, <1>5, <1>6, <1>9, <1>10, <1>12, <1>13, <1>14
  DEF Next, CA, Owner

LEMMA ReceiversStep == TypeOK /\ [Next]_vars => ReceiversOK'
<1> SUFFICES ASSUME TypeOK, [Next]_vars PROVE ReceiversOK'
  OBVIOUS
<1> USE DEF TypeOK, ReceiversOK
<1>1. CASE UNCHANGED <<registry, delivery, opc>>
  BY <1>1
<1>2. CASE Test
  BY <1>2 DEF Test, Shadow
<1>3. ASSUME NEW r \in Receiver,
             Deliver(r) \/ AddReceiver(r) \/ Names(r) \/ RemoveReceiver(r)
      PROVE  ReceiversOK'
  BY <1>3 DEF Deliver, AddReceiver, Names, RemoveReceiver
<1>4. ASSUME NEW c \in Column, CloseChannel(c) PROVE ReceiversOK'
  BY <1>4 DEF CloseChannel
<1>5. CASE StopProcessor \/ SignalProcessor \/ JoinProcessor
  BY <1>5 DEF StopProcessor, SignalProcessor, JoinProcessor
<1>6. CASE CA
  BY <1>1, <1>6 DEF CA, ConnectUp, Disconnect, Event, PushMarker, NotEmpty,
     Signal
<1>7. CASE Start \/ Round \/ Dequeue \/ Clear \/ Abort \/ Sleep \/ Wake
           \/ GetTime \/ Lock
  BY <1>1, <1>7
  DEF Start, Round, Dequeue, Clear, Abort, Sleep, Wake, GetTime, Lock
<1>8. CASE Tick \/ Terminated \/ UNCHANGED vars
  BY <1>1, <1>8 DEF Tick, Terminated
<1> QED
  BY <1>2, <1>3, <1>4, <1>5, <1>6, <1>7, <1>8
  DEF Next, Processor, Owner, Registration

(* The keys of the events are finitely many numbers. *)
LEMMA KeysFinite ==
  ASSUME ProcessorOK
  PROVE  /\ Keys \subseteq 0 .. MaxClock + Skew
         /\ IsFiniteSet(Keys)
<1>1. Keys \subseteq 0 .. MaxClock + Skew
  BY CollectorAssumption DEF ProcessorOK, Key
<1>2. IsFiniteSet(0 .. MaxClock + Skew)
  BY FS_Interval, CollectorAssumption
<1> QED
  BY <1>1, <1>2, FS_Subset

LEMMA MergedType ==
  ASSUME ProcessorOK, NEW c \in Column, NEW v \in Value
  PROVE  /\ DOMAIN Merged(c, v) \subseteq Key
         /\ Merged(c, v) \in [DOMAIN Merged(c, v) -> [Column -> Cell]]
<1>1. EmptySlice \in [Column -> Cell] /\ v.key \in Key /\ v.live \in BOOLEAN
  BY DEF EmptySlice, Cell, Value
<1>2. Slice(v.key) \in [Column -> Cell]
  BY <1>1 DEF Slice, ProcessorOK, Keys
<1>3. CellOf(v, Slice(v.key)[c]) \in Cell
  BY <1>2 DEF CellOf, Cell
<1>4. ASSUME NEW s \in [Column -> Cell]
      PROVE  /\ DOMAIN WithSlice(v.key, s) = Keys \cup {v.key}
             /\ WithSlice(v.key, s) \in [Keys \cup {v.key} -> [Column -> Cell]]
  BY DEF WithSlice, ProcessorOK, Keys
<1>5. [Slice(v.key) EXCEPT ![c] = CellOf(v, @)] \in [Column -> Cell]
  BY <1>2, <1>3
<1>6. Keys \subseteq Key /\ events \in [Keys -> [Column -> Cell]]
      /\ Keys = DOMAIN events
  BY DEF ProcessorOK, Keys
<1> QED
  BY <1>1, <1>4, <1>5, <1>6 DEF Merged

(* What a round sends ends with the newest key sent, which only advances.   *)
LEMMA NewestSent ==
  ASSUME ProcessorOK, Test
  PROVE  IF Flushed = {} THEN oldest_key' = oldest_key
         ELSE /\ oldest_key' \in Flushed
              /\ \A j \in Flushed : j <= oldest_key'
<1>1. CASE Flushed = {}
  BY <1>1 DEF Test
<1>2. CASE Flushed # {}
  <2>1. Flushed \subseteq 0 .. MaxClock + Skew
    BY KeysFinite DEF Flushed
  <2>2. \E x \in Flushed : \A y \in Flushed : y <= x
    <3>1. MaxClock + Skew \in Nat
      BY CollectorAssumption
    <3> HIDE DEF Flushed
    <3> QED
      BY <1>2, <2>1, <3>1, HasGreatest
  <2>3. oldest_key' = CHOOSE k \in Flushed : \A j \in Flushed : j <= k
    BY <1>2 DEF Test
  <2> HIDE DEF Flushed
  <2> QED
    BY <1>2, <2>2, <2>3
<1> QED
  BY <1>1, <1>2

LEMMA DroppedFinite ==
  ASSUME ProcessorOK
  PROVE  IsFiniteSet(Dropped) /\ Cardinality(Dropped) \in Nat
<1>1. Dropped \subseteq Keys
  BY DEF Dropped, Rest
<1> QED
  BY <1>1, KeysFinite, FS_Subset, FS_CardinalityType

LEMMA ProcessorStep == TypeOK /\ [Next]_vars => ProcessorOK'
<1> SUFFICES ASSUME TypeOK, [Next]_vars PROVE ProcessorOK'
  OBVIOUS
<1> USE DEF Keys
<1>0. SharedOK /\ ProcessorOK
  BY DEF TypeOK
<1>1. CASE UNCHANGED <<guarded, wakeup, ppc, col, nothing, merging>>
  BY <1>0, <1>1 DEF ProcessorOK
<1>2. CASE NotEmpty
  <2>1. ready' \in [Column -> BOOLEAN]
    BY <1>0, <1>2 DEF NotEmpty, Marked, ProcessorOK
  <2> QED
    BY <1>0, <1>2, <2>1 DEF NotEmpty, ProcessorOK
<1>3. CASE Signal \/ SignalProcessor
  BY <1>0, <1>3 DEF Signal, SignalProcessor, ProcessorOK
<1>4. CASE StopProcessor
  BY <1>0, <1>4 DEF StopProcessor, ProcessorOK
<1>17. clock \in 0 .. MaxClock
  BY <1>0, CollectorAssumption DEF SharedOK
<1>5. CASE Start
  <2>1. now' \in 0 .. MaxClock /\ ppc' \in {"round", "exited"}
        /\ waiting' \in BOOLEAN /\ nothing' \in BOOLEAN
    BY <1>0, <1>5, <1>17 DEF Start, LoopHead, ProcessorOK
  <2>2. UNCHANGED <<ready, connected, run, wakeup, col, events, oldest_key,
                    completed, nOverflow>>
    BY <1>5 DEF Start
  <2> QED
    BY <1>0, <2>1, <2>2 DEF ProcessorOK
<1>6. CASE Lock
  BY <1>0, <1>6 DEF Lock, LoopHead, ProcessorOK
<1>7. CASE Sleep \/ Wake \/ Abort
  BY <1>0, <1>7 DEF Sleep, Wake, Abort, ProcessorOK
<1>8. CASE GetTime
  BY <1>0, <1>8, <1>17 DEF GetTime, ProcessorOK
<1>9. CASE Round
  <2>1. /\ col' \in Column /\ ppc' \in {"dequeue", "clear", "test"}
        /\ waiting' \in BOOLEAN /\ nothing' \in BOOLEAN /\ nOverflow' \in Nat
    <3>1. 1 \in Column
      BY CollectorAssumption DEF Column
    <3>2. nOverflow' = nOverflow \/ nOverflow' = nOverflow + 1
      BY <1>9 DEF Round
    <3>3. nOverflow' \in Nat
      BY <1>0, <3>2 DEF ProcessorOK
    <3> QED
      BY <1>0, <1>9, <3>1, <3>3 DEF Round, ProcessorOK
  <2>2. UNCHANGED <<ready, connected, run, wakeup, now, events, oldest_key,
                    completed>>
    BY <1>9 DEF Round
  <2> QED
    BY <1>0, <2>1, <2>2 DEF ProcessorOK
<1>10. CASE Dequeue
  <2>1. col' \in Column /\ ppc' \in {"dequeue", "round"}
    BY <1>0, <1>10, CollectorAssumption
    DEF Dequeue, NextColumn, ProcessorOK, Column
  <2>2. /\ ready' \in [Column -> BOOLEAN] /\ connected' \in [Column -> BOOLEAN]
        /\ nothing' \in BOOLEAN
        /\ Keys' \subseteq Key /\ events' \in [Keys' -> [Column -> Cell]]
    <3>1. CASE UNCHANGED <<connected, nothing, events>>
      <4>1. ready' \in [Column -> BOOLEAN]
        BY <1>0, <1>10 DEF Dequeue, ProcessorOK
      <4> QED
        BY <1>0, <3>1, <4>1 DEF ProcessorOK
    <3>2. ASSUME values[col] # <<>>, NEW v, v = Head(values[col]),
                 ready' = [ready EXCEPT ![col] = TRUE],
                 connected' = [connected EXCEPT ![col] = v.live],
                 nothing' = FALSE,
                 events' = Merged(col, v)
          PROVE  /\ ready' \in [Column -> BOOLEAN]
                 /\ connected' \in [Column -> BOOLEAN]
                 /\ nothing' \in BOOLEAN
                 /\ Keys' \subseteq Key
                 /\ events' \in [Keys' -> [Column -> Cell]]
      <4>1. col \in Column /\ v \in Value
        BY <1>0, <3>2, TakenQueue DEF SharedOK, ProcessorOK
      <4>2. v.live \in BOOLEAN
        BY <4>1 DEF Value
      <4>3. Keys' \subseteq Key /\ events' \in [Keys' -> [Column -> Cell]]
        BY <1>0, <3>2, <4>1, MergedType
      <4> QED
        BY <1>0, <3>2, <4>2, <4>3 DEF ProcessorOK
    <3> QED
      BY <1>10, <3>1, <3>2 DEF Dequeue
  <2> QED
    BY <1>0, <1>10, <2>1, <2>2 DEF Dequeue, ProcessorOK
<1>11. CASE Clear
  <2>1. col' \in Column /\ ppc' \in {"clear", "test"}
    BY <1>0, <1>11, CollectorAssumption
    DEF Clear, NextColumn, ProcessorOK, Column
  <2> QED
    BY <1>0, <1>11, <2>1 DEF Clear, ProcessorOK
<1>12. CASE Test
  <2>1. Flushed \subseteq Keys /\ Carried \subseteq Keys
    BY DEF Flushed, Carried, Rest
  <2>2. oldest_key' \in 0 .. MaxClock + Skew
    BY <1>0, <1>12, <2>1, NewestSent, KeysFinite DEF ProcessorOK
  <2>3. nOverflow' \in Nat
    BY <1>0, <1>12, DroppedFinite DEF Test, ProcessorOK
  <2>4. Keys' = Carried /\ events' \in [Carried -> [Column -> Cell]]
        /\ DOMAIN completed' = Flushed
    BY <1>0, <1>12, <2>1 DEF Test, EventsAt, ProcessorOK
  <2>5. ppc' \in {"deliver", "wait", "clock"}
    BY <1>12 DEF Test
  <2>6. UNCHANGED <<guarded, wakeup, col, nothing, now>>
    BY <1>12 DEF Test
  <2> HIDE DEF Keys
  <2>7. Keys' \subseteq Key /\ events' \in [Keys' -> [Column -> Cell]]
        /\ DOMAIN completed' \subseteq Key
    BY <1>0, <2>1, <2>4 DEF ProcessorOK
  <2> QED
    BY <1>0, <2>2, <2>3, <2>5, <2>6, <2>7 DEF ProcessorOK
<1>13. ASSUME NEW r \in Receiver, Deliver(r) PROVE ProcessorOK'
  BY <1>1, <1>13 DEF Deliver
<1>14. CASE Registration \/ Tick \/ Terminated \/ UNCHANGED vars
  BY <1>1, <1>14
  DEF Registration, AddReceiver, Names, RemoveReceiver, Tick, Terminated
<1>15. ASSUME NEW c \in Column,
              \/ ConnectUp(c) \/ Disconnect(c) \/ CloseChannel(c)
              \/ \E k \in Key : Event(c, k)
       PROVE  ProcessorOK'
  BY <1>1, <1>15 DEF ConnectUp, Disconnect, CloseChannel, Event
<1>16. CASE PushMarker \/ JoinProcessor
  BY <1>1, <1>16 DEF PushMarker, JoinProcessor
<1> QED
  BY <1>2, <1>3, <1>4, <1>5, <1>6, <1>7, <1>8, <1>9, <1>10, <1>11, <1>12,
     <1>13, <1>14, <1>15, <1>16
  DEF Next, CA, Processor, Owner

LEMMA NextTypeOK == TypeOK /\ [Next]_vars => TypeOK'
BY SharedStep, ProcessorStep, ReceiversStep DEF TypeOK

(* Every variable of the Collector stays in its range: in particular the    *)
(* index never leaves the list of PVs, and what is taken from a queue is an *)
(* update.                                                                  *)
THEOREM TypeCorrect == Spec => []TypeOK
BY InitTypeOK, NextTypeOK, PTL DEF Spec

-----------------------------------------------------------------------------
(* The processor's view of a channel *)

(* The private copy of the receivers is only stale while the processor has  *)
(* been told so.                                                            *)
LEMMA ShadowStep == ShadowIsCurrent /\ [Next]_vars => ShadowIsCurrent'
<1> SUFFICES ASSUME ShadowIsCurrent, [Next]_vars PROVE ShadowIsCurrent'
  OBVIOUS
<1> USE DEF ShadowIsCurrent
<1>1. CASE UNCHANGED <<receivers, receivers_changed, receivers_shadow>>
  BY <1>1
<1>2. CASE Test
  BY <1>2 DEF Test, Shadow
<1>3. ASSUME NEW r \in Receiver,
             Deliver(r) \/ AddReceiver(r) \/ Names(r) \/ RemoveReceiver(r)
      PROVE  ShadowIsCurrent'
  BY <1>3 DEF Deliver, AddReceiver, Names, RemoveReceiver
<1>4. CASE CA
  BY <1>1, <1>4 DEF CA, ConnectUp, Disconnect, Event, PushMarker, NotEmpty,
     Signal
<1>5. CASE Start \/ Round \/ Dequeue \/ Clear \/ Abort \/ Sleep \/ Wake
           \/ GetTime \/ Lock
  BY <1>1, <1>5
  DEF Start, Round, Dequeue, Clear, Abort, Sleep, Wake, GetTime, Lock
<1>6. CASE Owner \/ Tick \/ Terminated \/ UNCHANGED vars
  BY <1>1, <1>6 DEF Owner, CloseChannel, StopProcessor, SignalProcessor,
     JoinProcessor, Tick, Terminated
<1> QED
  BY <1>2, <1>3, <1>4, <1>5, <1>6 DEF Next, Processor, Registration

(* Receivers that come and go between two rounds, or while a batch is being *)
(* handed over without the mutex, are taken over by the next round.         *)
THEOREM ShadowStaysCurrent == Spec => []ShadowIsCurrent
<1>1. Init => ShadowIsCurrent
  BY DEF Init, ShadowIsCurrent
<1> QED
  BY <1>1, ShadowStep, PTL DEF Spec

(* What is known of a PV whose channel is down: the marker, which was       *)
(* queued last, is the newest entry of the queue, through any overflow,     *)
(* until the processor has taken it and all before it.                      *)
Down(c) == chid[c] /\ ~ evid[c] /\ ~ Calling(c, {"push"})

EndsInMarker(q) == ~ q[Len(q)].live

SeenDown(c) ==
  IF values[c] = <<>> THEN ~ connected[c] ELSE EndsInMarker(values[c])

ViewFollowsMarker == \A c \in Column : Down(c) => SeenDown(c)

ViewInv == TypeOK /\ ViewFollowsMarker

(* A push of a marker leaves a queue that ends in it. *)
LEMMA PushedMarker ==
  ASSUME Limit \in Nat \ {0}, NEW q \in Seq(Value), NEW v \in Value, ~ v.live
  PROVE  /\ PushBounded(q, Limit, v) # <<>>
         /\ EndsInMarker(PushBounded(q, Limit, v))
<1> DEFINE kept == KeepNewest(q, Limit)
<1>1. kept \in Seq(Value)
  BY KeptQueue
<1>2. PushBounded(q, Limit, v) = Append(kept, v)
  BY DEF PushBounded
<1> HIDE DEF kept
<1>3. Append(kept, v) # <<>> /\ Append(kept, v)[Len(Append(kept, v))] = v
  BY <1>1
<1> QED
  BY <1>2, <1>3 DEF EndsInMarker

LEMMA ViewStep == ViewInv /\ [Next]_vars => ViewFollowsMarker'
<1> SUFFICES ASSUME ViewInv, [Next]_vars PROVE ViewFollowsMarker'
  OBVIOUS
<1>1. /\ values \in [Column -> Seq(Value)] /\ col \in Column
      /\ chid \in [Column -> BOOLEAN] /\ evid \in [Column -> BOOLEAN]
      /\ connected \in [Column -> BOOLEAN]
      /\ Limit \in Nat \ {0} /\ CarryOver \in Nat \ {0}
      /\ ViewFollowsMarker
  BY CollectorAssumption DEF ViewInv, TypeOK, SharedOK, ProcessorOK
<1>2. CASE UNCHANGED <<chid, evid, values, ca, connected>>
  BY <1>1, <1>2 DEF ViewFollowsMarker, SeenDown, Down, Calling
<1>3. ASSUME NEW c \in Column, ConnectUp(c) PROVE ViewFollowsMarker'
  BY <1>1, <1>3 DEF ConnectUp, ViewFollowsMarker, SeenDown, Down, Calling
<1>4. ASSUME NEW c \in Column, Disconnect(c) PROVE ViewFollowsMarker'
  <2>1. /\ ca = Idle /\ ca'.pc = "push" /\ ca'.col = c
        /\ UNCHANGED <<chid, values, connected>>
        /\ evid' = [evid EXCEPT ![c] = FALSE]
    BY <1>4 DEF Disconnect, CallbackOn
  <2>2. ASSUME NEW d \in Column, Down(d)' PROVE d # c /\ Down(d)
    BY <1>1, <2>1, <2>2 DEF Down, Calling, Idle
  <2> QED
    BY <1>1, <2>1, <2>2 DEF ViewFollowsMarker, SeenDown
<1>5. ASSUME NEW c \in Column, NEW k \in Key, Event(c, k)
      PROVE  ViewFollowsMarker'
  <2>1. ca = Idle /\ evid[c] /\ UNCHANGED <<chid, evid, connected>>
    BY <1>5 DEF Event, CallbackOn
  <2>2. \A d \in Column \ {c} : values'[d] = values[d]
    BY <1>1, <1>5 DEF Event
  <2>3. ASSUME NEW d \in Column, Down(d)' PROVE d # c /\ Down(d)
    BY <2>1, <2>3 DEF Down, Calling, Idle
  <2> QED
    BY <1>1, <2>1, <2>2, <2>3 DEF ViewFollowsMarker, SeenDown
<1>6. ASSUME PushMarker, NEW c, c = ca.col,
             NEW v, v = [key |-> ca.key, live |-> FALSE]
      PROVE  ViewFollowsMarker'
  <2>1. c \in Column /\ v \in Value /\ ~ v.live
    BY <1>6, CallbackIs DEF PushMarker, Value, ViewInv, TypeOK
  <2>2. /\ values'[c] = PushBounded(values[c], Limit, v)
        /\ \A d \in Column \ {c} : values'[d] = values[d]
        /\ ca.pc = "push" /\ UNCHANGED <<chid, evid, connected>>
    BY <1>1, <1>6, <2>1 DEF PushMarker
  <2>3. values'[c] # <<>> /\ EndsInMarker(values'[c])
    <3>1. values[c] \in Seq(Value)
      BY <1>1, <2>1
    <3>2. /\ PushBounded(values[c], Limit, v) # <<>>
          /\ EndsInMarker(PushBounded(values[c], Limit, v))
      BY <1>1, <2>1, <3>1, PushedMarker
    <3> QED
      BY <2>2, <3>2
  <2>4. ASSUME NEW d \in Column \ {c}, Down(d)' PROVE Down(d)
    BY <1>6, <2>2, <2>4 DEF Down, Calling
  <2> QED
    BY <1>1, <2>1, <2>2, <2>3, <2>4 DEF ViewFollowsMarker, SeenDown
<1>7. CASE NotEmpty \/ Signal
  <2>1. /\ ca.pc # "push" /\ UNCHANGED <<chid, evid, values, connected>>
    BY <1>7 DEF NotEmpty, Signal
  <2>2. ASSUME NEW d \in Column, Down(d)' PROVE Down(d)
    BY <2>1, <2>2 DEF Down, Calling
  <2> QED
    BY <1>1, <2>1, <2>2 DEF ViewFollowsMarker, SeenDown
<1>8. CASE Dequeue
  <2>1. UNCHANGED <<chid, evid, ca>>
    BY <1>8 DEF Dequeue
  <2>2. CASE UNCHANGED <<values, connected>>
    BY <1>2, <2>1, <2>2
  <2>3. CASE /\ values[col] # <<>>
             /\ values' = [values EXCEPT ![col] = Tail(@)]
             /\ connected' = [connected EXCEPT ![col] = Head(values[col]).live]
    <3>1. /\ values'[col] = Tail(values[col])
          /\ connected'[col] = Head(values[col]).live
          /\ \A d \in Column \ {col} :
               values'[d] = values[d] /\ connected'[d] = connected[d]
      BY <1>1, <2>3
    <3>2. \A d \in Column : Down(d)' => Down(d)
      BY <2>1 DEF Down, Calling
    <3>3. ASSUME NEW d \in Column, d = col, Down(d) PROVE SeenDown(d)'
      <4>1. values[col] \in Seq(Value) /\ EndsInMarker(values[col])
        BY <1>1, <2>3, <3>3 DEF ViewFollowsMarker, SeenDown
      <4>2. CASE Tail(values[col]) = <<>>
        <5>1. Head(values[col]) = values[col][Len(values[col])]
          BY <2>3, <4>1, <4>2, TakenQueue
        <5> QED
          BY <3>1, <3>3, <4>1, <4>2, <5>1 DEF SeenDown, EndsInMarker
      <4>3. CASE Tail(values[col]) # <<>>
        <5>1. EndsInMarker(Tail(values[col]))
          BY <2>3, <4>1, <4>3, TakenQueue DEF EndsInMarker
        <5> QED
          BY <3>1, <3>3, <4>3, <5>1 DEF SeenDown
      <4> QED
        BY <4>2, <4>3
    <3>4. ASSUME NEW d \in Column \ {col}, Down(d) PROVE SeenDown(d)'
      BY <1>1, <3>1, <3>4 DEF ViewFollowsMarker, SeenDown
    <3> QED
      BY <1>1, <3>2, <3>3, <3>4 DEF ViewFollowsMarker
  <2> QED
    BY <1>8, <2>2, <2>3 DEF Dequeue
<1>9. CASE Clear
  <2>1. /\ values'[col] = KeepNewest(values[col], CarryOver)
        /\ \A d \in Column \ {col} : values'[d] = values[d]
        /\ UNCHANGED <<chid, evid, ca, connected>>
    BY <1>1, <1>9 DEF Clear
  <2>2. \A d \in Column : Down(d)' => Down(d)
    BY <2>1 DEF Down, Calling
  <2>3. ASSUME NEW d \in Column, d = col, Down(d) PROVE SeenDown(d)'
    <3>1. values[col] \in Seq(Value) /\ SeenDown(col)
      BY <1>1, <2>3 DEF ViewFollowsMarker
    <3>2. /\ values'[col] = <<>> <=> values[col] = <<>>
          /\ values[col] # <<>> /\ EndsInMarker(values[col])
               => EndsInMarker(values'[col])
      BY <1>1, <2>1, <3>1, KeptQueue DEF EndsInMarker
    <3> QED
      BY <2>1, <2>3, <3>1, <3>2 DEF SeenDown
  <2>4. ASSUME NEW d \in Column \ {col}, Down(d) PROVE SeenDown(d)'
    BY <1>1, <2>1, <2>4 DEF ViewFollowsMarker, SeenDown
  <2> QED
    BY <1>1, <2>2, <2>3, <2>4 DEF ViewFollowsMarker
<1>10. ASSUME NEW c \in Column, CloseChannel(c) PROVE ViewFollowsMarker'
  BY <1>1, <1>10 DEF CloseChannel, ViewFollowsMarker, SeenDown, Down, Calling
<1>11. CASE Start \/ Round \/ Test \/ Abort \/ Sleep \/ Wake \/ GetTime \/ Lock
  BY <1>2, <1>11 DEF Start, Round, Test, Abort, Sleep, Wake, GetTime, Lock
<1>12. ASSUME NEW r \in Receiver,
              Deliver(r) \/ AddReceiver(r) \/ Names(r) \/ RemoveReceiver(r)
       PROVE  ViewFollowsMarker'
  BY <1>2, <1>12 DEF Deliver, AddReceiver, Names, RemoveReceiver
<1>13. CASE StopProcessor \/ SignalProcessor \/ JoinProcessor \/ Tick
            \/ Terminated \/ UNCHANGED vars
  BY <1>2, <1>13
  DEF StopProcessor, SignalProcessor, JoinProcessor, Tick, Terminated
<1> QED
  BY <1>3, <1>4, <1>5, <1>6, <1>7, <1>8, <1>9, <1>10, <1>11, <1>12, <1>13
  DEF Next, CA, Processor, Owner, Registration

(* A PV whose channel went down is not waited for once its queue is empty,  *)
(* for any limit of the queues: however many updates are dropped, by a full *)
(* queue or a processor that overflows, the marker is not, and nothing      *)
(* overtakes it.                                                            *)
THEOREM ViewCatchesUp == Spec => []ConnectionViewCatchesUp
<1>1. Init => ViewFollowsMarker
  BY DEF Init, ViewFollowsMarker, SeenDown
<1>2. ViewInv => ConnectionViewCatchesUp
  BY DEF ViewInv, ViewFollowsMarker, SeenDown, Down, ConnectionViewCatchesUp
<1>3. ViewInv /\ [Next]_vars => ViewInv'
  BY ViewStep, NextTypeOK DEF ViewInv
<1>4. Init => ViewInv
  BY <1>1, InitTypeOK DEF ViewInv
<1> QED
  BY <1>2, <1>3, <1>4, PTL DEF Spec

-----------------------------------------------------------------------------
(* The rounds *)

(* Only a round with something to send or to keep leaves the test. *)
LEMMA TestOrStays ==
  [Next]_vars /\ ppc = "test" => Test \/ ppc' \in {"test", "aborted"}
<1> SUFFICES ASSUME [Next]_vars, ppc = "test"
             PROVE  Test \/ ppc' \in {"test", "aborted"}
  OBVIOUS
<1>1. CASE CA
  BY <1>1
  DEF CA, ConnectUp, Disconnect, Event, PushMarker, NotEmpty, Signal
<1>2. CASE Processor
  BY <1>2 DEF Processor, Start, Round, Dequeue, Clear, Abort, Deliver, Sleep,
     Wake, GetTime, Lock
<1>3. CASE Owner
  BY <1>3
  DEF Owner, CloseChannel, StopProcessor, SignalProcessor, JoinProcessor
<1>4. CASE Registration \/ Tick \/ Terminated \/ UNCHANGED vars
  BY <1>4
  DEF Registration, AddReceiver, Names, RemoveReceiver, Tick, Terminated
<1> QED
  BY <1>1, <1>2, <1>3, <1>4 DEF Next

(* What is not flushed is as new as some event of the scan, which ends at   *)
(* the first that is too old.                                               *)
LEMMA RestIsYoung ==
  ASSUME ProcessorOK, NEW k \in Rest
  PROVE  ~ TooOld(k)
<1>1. k \in Keys /\ k \notin Flushed
  BY DEF Rest
<1>2. PICK p \in Partial : ~ (k < p)
  BY <1>1 DEF Flushed
<1>3. p \in Keys /\ \A j \in Keys : j >= p => ~ TooOld(j)
  BY <1>2 DEF Partial, Scanned
<1>4. k \in Nat /\ p \in Nat
  BY <1>1, <1>3, KeysFinite, CollectorAssumption
<1> QED
  BY <1>1, <1>2, <1>3, <1>4

(* No round leaves an event behind that is older than maxEventAge, whatever *)
(* the events and their places.                                             *)
THEOREM OldEventsAreFlushed == Spec => OldIsFlushed
<1>1. ASSUME TypeOK, [Next]_vars
      PROVE  [ppc = "test" /\ ppc' \notin {"test", "aborted"}
                => \A k \in Keys' : ~ TooOld(k)]_vars
  <2>1. SUFFICES ASSUME ppc = "test", ppc' \notin {"test", "aborted"},
                        NEW k \in Keys'
                 PROVE  ~ TooOld(k)
    OBVIOUS
  <2>2. Test
    BY <1>1, <2>1, TestOrStays
  <2>3. Keys' = Carried
    BY <2>2 DEF Test, EventsAt, Keys
  <2>4. k \in Rest
    BY <2>1, <2>3 DEF Carried
  <2> QED
    BY <1>1, <2>4, RestIsYoung DEF TypeOK
<1> QED
  BY <1>1, TypeCorrect, PTL DEF Spec, OldIsFlushed

-----------------------------------------------------------------------------
(* The Collector implements EventStream *)

streamVars == <<events, oldest_key, completed, nOverflow>>

LEMMA InitStream == Init => Stream!Init
<1> SUFFICES ASSUME Init PROVE Stream!Init
  OBVIOUS
<1>1. Nothing = [k \in {} |-> {}]
  BY DEF Nothing
<1> QED
  BY <1>1 DEF Init, Stream!Init

(* An update takes its place in its event, and touches no other, unless it  *)
(* is left out.                                                             *)
LEMMA MergeGathers ==
  ASSUME ProcessorOK, NEW c \in Column, NEW v \in Value,
         events' = Merged(c, v),
         UNCHANGED <<oldest_key, completed, nOverflow>>
  PROVE  Stream!Next \/ UNCHANGED streamVars
<1> DEFINE cell == IF v.live THEN "data" ELSE "disc"
           slice == [Slice(v.key) EXCEPT ![c] = CellOf(v, @)]
<1>1. /\ v.key \in Key /\ v.live \in BOOLEAN /\ Keys \subseteq Key
      /\ events \in [Keys -> [Column -> Cell]] /\ Keys = DOMAIN events
      /\ oldest_key \in Int /\ \A k \in Key : k \in Int
  BY CollectorAssumption DEF ProcessorOK, Value, Keys, Key
<1>2. /\ EmptySlice \in [Column -> Cell]
      /\ \A d \in Column : EmptySlice[d] = "none"
  BY DEF EmptySlice, Cell
<1>3. Slice(v.key) \in [Column -> Cell]
  BY <1>1, <1>2 DEF Slice
<1>4. CASE v.live /\ v.key <= oldest_key
  BY <1>4 DEF Merged, streamVars
<1>5. CASE /\ ~ (v.live /\ v.key <= oldest_key)
           /\ Slice(v.key)[c] # "none"
  <2>1. v.key \in Keys /\ Slice(v.key) = events[v.key]
    BY <1>1, <1>2, <1>5 DEF Slice
  <2>2. slice = events[v.key]
    BY <1>1, <1>5, <2>1 DEF CellOf
  <2>3. WithSlice(v.key, slice) = [j \in Keys |-> events[j]]
    BY <1>1, <2>1, <2>2 DEF WithSlice
  <2>4. events' = events
    BY <1>1, <1>5, <2>3 DEF Merged
  <2> QED
    BY <2>4 DEF streamVars
<1>6. CASE /\ ~ (v.live /\ v.key <= oldest_key)
           /\ Slice(v.key)[c] = "none"
  <2>1. slice = [d \in Column |-> IF d = c THEN cell ELSE Slice(v.key)[d]]
    BY <1>3, <1>6 DEF CellOf
  <2>2. /\ events' = [j \in Keys \cup {v.key} |->
                        IF j = v.key THEN slice ELSE events[j]]
        /\ DOMAIN events' = Keys \cup {v.key}
    BY <1>1, <1>6 DEF Merged, WithSlice
  <2>3. ASSUME NEW j \in Keys \cup {v.key}
        PROVE  events'[j] =
                 [d \in Column |->
                    IF j = v.key /\ d = c THEN cell
                    ELSE IF j \in DOMAIN events THEN events[j][d] ELSE "none"]
    <3>1. CASE j = v.key
      <4>1. \A d \in Column :
              Slice(v.key)[d] =
                IF j \in DOMAIN events THEN events[j][d] ELSE "none"
        BY <1>1, <1>2, <3>1 DEF Slice
      <4> QED
        BY <2>1, <2>2, <3>1, <4>1
    <3>2. CASE j # v.key
      <4>1. events'[j] = events[j] /\ events[j] \in [Column -> Cell]
        BY <1>1, <2>2, <2>3, <3>2
      <4>2. j \in DOMAIN events
        BY <1>1, <2>3, <3>2
      <4> QED
        BY <3>2, <4>1, <4>2
    <3> QED
      BY <3>1, <3>2
  <2>4. events' = [j \in DOMAIN events' |->
                     [d \in Column |->
                        IF j = v.key /\ d = c THEN cell
                        ELSE IF j \in DOMAIN events THEN events[j][d]
                        ELSE "none"]]
    <3>1. events' = [j \in DOMAIN events' |-> events'[j]]
      BY <2>2
    <3>2. ASSUME NEW j \in DOMAIN events'
          PROVE  events'[j] =
                   [d \in Column |->
                      IF j = v.key /\ d = c THEN cell
                      ELSE IF j \in DOMAIN events THEN events[j][d]
                      ELSE "none"]
      <4>1. j \in Keys \cup {v.key}
        BY <2>2, <3>2
      <4> QED
        BY <2>3, <4>1
    <3> HIDE DEF cell
    <3> QED
      BY <3>1, <3>2
  <2>5. v.key \in DOMAIN events => events[v.key][c] = "none"
    BY <1>1, <1>6 DEF Slice
  <2>6. cell = "data" => v.key > oldest_key
    BY <1>1, <1>6
  <2>7. cell \in {"data", "disc"}
    BY <1>1
  <2>8. Stream!Gather(v.key, c, cell)
    BY <1>1, <2>2, <2>4, <2>5, <2>6 DEF Stream!Gather, Stream!Empty
  <2> QED
    BY <1>1, <2>7, <2>8 DEF Stream!Next
<1> QED
  BY <1>4, <1>5, <1>6

(* What a round sends, loses and keeps lie one after the other in time: the *)
(* flushed events end before a partial one, and all those kept begin there; *)
(* the newest of these are the ones carried over.                           *)
LEMMA RoundsAreInOrder ==
  ASSUME ProcessorOK
  PROVE  /\ \A j \in Flushed, k \in Rest : j < k
         /\ \A j \in Dropped, k \in Carried : j < k
<1>1. Keys \subseteq Nat /\ IsFiniteSet(Keys)
  BY KeysFinite, CollectorAssumption
<1>2. ASSUME NEW j \in Flushed, NEW k \in Rest PROVE j < k
  <2>1. k \in Keys /\ k \notin Flushed /\ j \in Keys
    BY DEF Rest, Flushed
  <2>2. PICK p \in Partial : (\A q \in Partial : q <= p) /\ ~ (k < p)
    BY <2>1 DEF Flushed
  <2>3. j < p
    BY <2>2 DEF Flushed
  <2>4. p \in Keys
    BY <2>2 DEF Partial, Scanned
  <2> QED
    BY <1>1, <2>1, <2>2, <2>3, <2>4
<1>3. ASSUME NEW j \in Dropped, NEW k \in Carried PROVE j < k
  <2> DEFINE newer(i) == {m \in Rest : m > i}
  <2>1. /\ j \in Rest /\ ~ (Cardinality(newer(j)) < Carry)
        /\ k \in Rest /\ Cardinality(newer(k)) < Carry
    BY DEF Dropped, Carried
  <2>2. j \in Nat /\ k \in Nat /\ Rest \subseteq Nat
    BY <1>1, <2>1 DEF Rest
  <2>3. SUFFICES ASSUME k <= j PROVE FALSE
    BY <2>2
  <2>4. newer(j) \subseteq newer(k)
    <3>1. ASSUME NEW m \in Rest, m > j PROVE m > k
      BY <2>2, <2>3, <3>1
    <3> QED
      BY <3>1
  <2>5. IsFiniteSet(newer(k))
    BY <1>1, FS_Subset DEF Rest
  <2>6. Cardinality(newer(j)) <= Cardinality(newer(k))
    BY <2>4, <2>5, FS_Subset
  <2>7. Cardinality(newer(j)) \in Nat /\ Cardinality(newer(k)) \in Nat
    BY <2>4, <2>5, FS_Subset, FS_CardinalityType
  <2> QED
    BY <2>1, <2>6, <2>7, CollectorAssumption
<1> QED
  BY <1>2, <1>3

(* EventStream counts with its own instance of Cardinality, the same one.   *)
LEMMA SameCount == \A S : Stream!Cardinality(S) = Cardinality(S)
BY DEF Stream!Cardinality, Cardinality

LEMMA TestSends == ASSUME ProcessorOK, Test PROVE Stream!Next
<1>1. /\ Flushed \subseteq Keys /\ Dropped \subseteq Keys \ Flushed
      /\ Keys \ (Flushed \cup Dropped) = Carried
      /\ Dropped \cup Carried = Rest
  BY DEF Flushed, Dropped, Carried, Rest
<1>2. /\ completed' = [k \in Flushed |-> events[k]]
      /\ events' = [k \in Carried |-> events[k]]
      /\ nOverflow' = nOverflow + Cardinality(Dropped)
      /\ \A k \in Flushed : oldest_key < k
  BY KeysFinite, CollectorAssumption
  DEF Test, EventsAt, FlushedInOrder, Flushed, ProcessorOK
<1>3. /\ oldest_key' \in IF Flushed = {} THEN {oldest_key} ELSE Flushed
      /\ \A k \in Flushed : k <= oldest_key'
  BY NewestSent
<1>4. /\ Stream!Before({oldest_key}, Flushed)
      /\ Stream!Before(Flushed, Dropped \cup Carried)
      /\ Stream!Before(Dropped, Carried)
  BY <1>1, <1>2, RoundsAreInOrder DEF Stream!Before
<1> HIDE DEF Keys
<1>5. Stream!Send(Flushed, Dropped)
  <2>1. DOMAIN events = Keys
    BY DEF Keys
  <2>2. completed' = Stream!At(Flushed) /\ events' = Stream!At(Carried)
    BY <1>2 DEF Stream!At
  <2>3. DOMAIN events \ (Flushed \cup Dropped) = Carried
    BY <1>1, <2>1
  <2> DEFINE kept == DOMAIN events \ (Flushed \cup Dropped)
  <2>4. /\ Stream!Before(Flushed, Dropped \cup kept)
        /\ Stream!Before(Dropped, kept)
        /\ events' = Stream!At(kept)
    BY <1>4, <2>2, <2>3
  <2> QED
    BY <1>2, <1>3, <1>4, <2>2, <2>4, SameCount DEF Stream!Send
<1> QED
  BY <1>1, <1>5 DEF Stream!Next, Keys

LEMMA StreamStep == TypeOK /\ [Next]_vars => Stream!Next \/ UNCHANGED streamVars
<1> SUFFICES ASSUME TypeOK, [Next]_vars
             PROVE  Stream!Next \/ UNCHANGED streamVars
  OBVIOUS
<1> USE DEF streamVars
<1>1. SharedOK /\ ProcessorOK
  BY DEF TypeOK
<1>2. CASE Test
  BY <1>1, <1>2, TestSends
<1>3. CASE Dequeue
  <2>1. UNCHANGED <<oldest_key, completed, nOverflow>>
    BY <1>3 DEF Dequeue
  <2>2. CASE UNCHANGED events
    BY <2>1, <2>2
  <2>3. CASE values[col] # <<>> /\ events' = Merged(col, Head(values[col]))
    <3>1. col \in Column /\ Head(values[col]) \in Value
      BY <1>1, <2>3, TakenQueue DEF SharedOK, ProcessorOK
    <3> QED
      BY <1>1, <2>1, <2>3, <3>1, MergeGathers
  <2> QED
    BY <1>3, <2>2, <2>3 DEF Dequeue
<1>4. CASE Round
  <2>1. UNCHANGED <<events, oldest_key, completed>>
    BY <1>4 DEF Round
  <2>2. CASE nOverflow' = nOverflow + 1
    BY <2>1, <2>2 DEF Stream!Next, Stream!GiveUp
  <2> QED
    BY <1>4, <2>1, <2>2 DEF Round
<1>5. CASE CA
  BY <1>5
  DEF CA, ConnectUp, Disconnect, Event, PushMarker, NotEmpty, Signal
<1>6. CASE Start \/ Clear \/ Abort \/ Sleep \/ Wake \/ GetTime \/ Lock
  BY <1>6 DEF Start, Clear, Abort, Sleep, Wake, GetTime, Lock
<1>7. CASE Owner
  BY <1>7
  DEF Owner, CloseChannel, StopProcessor, SignalProcessor, JoinProcessor
<1>8. CASE Registration \/ Tick \/ Terminated \/ UNCHANGED vars
  BY <1>8
  DEF Registration, AddReceiver, Names, RemoveReceiver, Tick, Terminated
<1>9. ASSUME NEW r \in Receiver, Deliver(r) PROVE UNCHANGED streamVars
  BY <1>9 DEF Deliver
<1> QED
  BY <1>2, <1>3, <1>4, <1>5, <1>6, <1>7, <1>8, <1>9 DEF Next, Processor

(* The Collector implements EventStream, for any number of PVs, limits and  *)
(* interleaving of callbacks, rounds and receivers: batches advance in time *)
(* and pass over no event, no value is overwritten or comes late, and every *)
(* event that is lost is counted and older than all that are kept.          *)
THEOREM CollectorImplementsEventStream == Spec => ImplementsEventStream
<1>1. TypeOK /\ [Next]_vars => [Stream!Next]_(Stream!vars)
  BY StreamStep DEF Stream!vars, streamVars
<1> QED
  BY <1>1, InitStream, TypeCorrect, PTL
  DEF Spec, ImplementsEventStream, Stream!Spec
=============================================================================
