---------------------------- MODULE Subscription ----------------------------
(***************************************************************************)
(* One Subscription (collect_ca.cpp): the CA callbacks onConnect and        *)
(* onEvent, which run one at a time on a CA worker thread, the queue they   *)
(* fill, the two ways the processor thread empties it (pop and clear), the  *)
(* statistics counters, and the three threads that read or reset them.      *)
(*                                                                         *)
(* A step is one critical section of Subscription::mutex, except that a     *)
(* callback goes on after it: it calls Collector::notEmpty and, when CA     *)
(* reported an error, counts it in a second critical section.  cb holds     *)
(* what the running callback has still to do.                               *)
(***************************************************************************)
EXTENDS ValueQueue

CONSTANTS
  MaxStamp,      \* bound: time stamps are 1 .. MaxStamp, 0 is the epoch
  Costs,         \* the wire sizes an update may have (WireBytes.tla)
  MinLimit,      \* the least queue limit (4)
  ScalarQuota,   \* bsasFlushPeriod * collectorCaScalarMaxRate
  ArrayQuota,    \* bsasFlushPeriod * collectorCaArrayMaxRate
  FirstLimit,    \* the limit before the first connection (16)
  CarryOver,     \* what the processor keeps when it overflows (4)
  MaxCallbacks   \* bound: the number of CA callbacks

ASSUME SubscriptionAssumption ==
  /\ MaxStamp \in Nat
  /\ Costs \subseteq Nat
  /\ MinLimit \in Nat \ {0}
  /\ ScalarQuota \in Nat
  /\ ArrayQuota \in Nat
  /\ FirstLimit \in Nat \ {0}
  /\ CarryOver \in Nat
  /\ MaxCallbacks \in Nat

VARIABLES
  open,        \* chid # 0: the channel exists
  link,        \* CA's view of the channel: the PV is reachable
  evid,        \* evid # 0: the channel is subscribed
  connected,   \* as published in the status table
  last_event,  \* the time stamp of the previous update
  values,      \* the queue
  limit,       \* its limit
  n,           \* the counters nDisconnects, nErrors, nUpdates, ...
  l,           \* their values at the last status update, lDisconnects, ...
  cb,          \* what the running CA callback has still to do, if anything
  calls        \* callbacks so far (bounds the model)

channel == <<open, link, evid>>
vars == <<open, link, evid, connected, last_event, values, limit, n, l, cb,
          calls>>

Stamp == 1 .. MaxStamp

(* sevr is 0-3 in an update, 4 in the marker a disconnection leaves. *)
Value == [stamp : Stamp, live : BOOLEAN]

Counter == {"discon", "err", "upd", "bytes", "oflow"}

Zero == [c \in Counter |-> 0]

Larger(a, b) == IF a >= b THEN a ELSE b

(* A seeded fault: a slow rate limit is not raised to the minimum. *)
LimitUnraised(isarray) == IF isarray THEN ArrayQuota ELSE ScalarQuota

LimitOf(isarray) ==
  Larger(MinLimit, IF isarray THEN ArrayQuota ELSE ScalarQuota)

Init ==
  /\ open = TRUE
  /\ link = FALSE
  /\ evid = FALSE
  /\ connected = FALSE
  /\ last_event = 0
  /\ values = <<>>
  /\ limit = FirstLimit
  /\ n = Zero
  /\ l = Zero
  /\ cb = {}
  /\ calls = 0

-----------------------------------------------------------------------------
(* CA callbacks *)

CallbackBegins ==
  /\ open
  /\ cb = {}
  /\ calls < MaxCallbacks
  /\ calls' = calls + 1

(* The counters m after counter c went up by k. *)
Bump(m, c, k) == [m EXCEPT ![c] = @ + k]

(* if(notify) collector.notEmpty(self): the caller saw an empty queue.      *)
Wakeup == IF values = <<>> THEN {"notify"} ELSE {}

(* onConnect, up: the channel is subscribed and the queue limit chosen.     *)
ConnectUp(isarray) ==
  /\ CallbackBegins
  /\ ~ link
  /\ link' = TRUE
  /\ evid' = TRUE
  /\ last_event' = 0
  /\ connected' = TRUE
  /\ limit' = LimitOf(isarray)
  /\ UNCHANGED <<open, values, n, l, cb>>

(* onConnect, up, for a DBF_STRING channel: "not supported, ignoring".      *)
ConnectUpString ==
  /\ CallbackBegins
  /\ ~ link
  /\ link' = TRUE
  /\ UNCHANGED <<open, evid, connected, last_event, values, limit, n, l, cb>>

(* onConnect, up, when ca_create_subscription fails: the exception handler  *)
(* counts the error.                                                        *)
ConnectUpFails ==
  /\ CallbackBegins
  /\ ~ link
  /\ link' = TRUE
  /\ n' = Bump(n, "err", 1)
  /\ UNCHANGED <<open, evid, connected, last_event, values, limit, l, cb>>

(* onConnect, down, of a channel that was never subscribed. *)
ConnectDownUnsubscribed ==
  /\ CallbackBegins
  /\ link /\ ~ evid
  /\ link' = FALSE
  /\ UNCHANGED <<open, evid, connected, last_event, values, limit, n, l, cb>>

(* onConnect, down: a marker stamped with the time of the collector's clock *)
(* is queued.  failed: ca_clear_subscription returned an error, which is    *)
(* only reported after the wakeup.                                          *)
ConnectDown(t, failed) ==
  LET v == [stamp |-> t, live |-> FALSE] IN
  /\ CallbackBegins
  /\ link /\ evid
  /\ link' = FALSE
  /\ evid' = FALSE
  /\ connected' = FALSE
  /\ values' = PushBounded(values, limit, v)
  /\ n' = Bump(Bump(n, "discon", 1), "oflow", Excess(values, limit))
  /\ cb' = Wakeup \cup (IF failed THEN {"error"} ELSE {})
  /\ UNCHANGED <<open, last_event, limit, l>>

(* The counters once onEvent has accounted for an update. *)
Received(cost) == Bump(Bump(n, "upd", 1), "bytes", cost)

(* onEvent, for an update later than the previous one. *)
EventNewer(t, cost) ==
  LET v == [stamp |-> t, live |-> TRUE] IN
  /\ CallbackBegins
  /\ evid
  /\ t > last_event
  /\ values' = PushBounded(values, limit, v)
  /\ n' = Bump(Received(cost), "oflow", Excess(values, limit))
  /\ last_event' = t
  /\ cb' = Wakeup
  /\ UNCHANGED <<open, link, evid, connected, limit, l>>

(* onEvent, "ignoring non-monotonic TS".  last_event follows all the same.  *)
EventNotNewer(t, cost) ==
  /\ CallbackBegins
  /\ evid
  /\ t <= last_event
  /\ n' = Bump(Received(cost), "err", 1)
  /\ last_event' = t
  /\ UNCHANGED <<open, link, evid, connected, values, limit, l, cb>>

(* onEvent, for an update it throws on (no DBR_TIME type, a buffer whose    *)
(* size does not match): the exception handler counts it.  A string, which  *)
(* it would count as an overflow as well, never comes: onConnect does not   *)
(* subscribe to one.                                                        *)
EventThrows ==
  /\ CallbackBegins
  /\ evid
  /\ n' = Bump(n, "err", 1)
  /\ UNCHANGED <<open, link, evid, connected, last_event, values, limit, l, cb>>

(* The call of Collector::notEmpty, first of what is left to do.            *)
NotEmpty ==
  /\ "notify" \in cb
  /\ cb' = cb \ {"notify"}
  /\ UNCHANGED <<open, link, evid, connected, last_event, values, limit, n, l,
                 calls>>

(* eca_error::check(err) throws and the handler counts the error. *)
ReportError ==
  /\ cb = {"error"}
  /\ cb' = {}
  /\ n' = Bump(n, "err", 1)
  /\ UNCHANGED <<open, link, evid, connected, last_event, values, limit, l,
                 calls>>

-----------------------------------------------------------------------------
(* The processor thread of the Collector *)

Pop ==
  /\ values # <<>>
  /\ values' = Tail(values)
  /\ UNCHANGED <<open, link, evid, connected, last_event, limit, n, l, cb,
                 calls>>

(* A seeded fault: what clear() drops is not counted.                       *)
ClearUncounted ==
  /\ values' = KeepNewest(values, CarryOver)
  /\ UNCHANGED <<open, link, evid, connected, last_event, limit, n, l, cb,
                 calls>>

(* clear(CarryOver), when the processor overflows. *)
Clear ==
  /\ values' = KeepNewest(values, CarryOver)
  /\ n' = Bump(n, "oflow", Excess(values, CarryOver))
  /\ UNCHANGED <<open, link, evid, connected, last_event, limit, l, cb, calls>>

-----------------------------------------------------------------------------
(* Other threads *)

(* Collector::close: ca_clear_channel returns once no callback is running,  *)
(* and none runs after it.                                                  *)
Close ==
  /\ open
  /\ cb = {}
  /\ open' = FALSE
  /\ evid' = FALSE
  /\ UNCHANGED <<link, connected, last_event, values, limit, n, l, cb, calls>>

(* What Coordinator::handle publishes in the status table. *)
Published == [c \in Counter |-> n[c] - l[c]]

(* The status update of Coordinator::handle, once a second. *)
StatusUpdate ==
  /\ l' = n
  /\ UNCHANGED <<open, link, evid, connected, last_event, values, limit, n, cb,
                 calls>>

(* A seeded fault: the reset forgets the values of the last status update.  *)
StatResetForgetsLast ==
  /\ n' = Zero
  /\ UNCHANGED <<open, link, evid, connected, last_event, values, limit, l, cb,
                 calls>>

(* bsasStatReset, from the IOC shell. *)
StatReset ==
  /\ n' = Zero
  /\ l' = Zero
  /\ UNCHANGED <<open, link, evid, connected, last_event, values, limit, cb,
                 calls>>

Next ==
  \/ \E isarray \in BOOLEAN : ConnectUp(isarray)
  \/ ConnectUpString
  \/ ConnectUpFails
  \/ ConnectDownUnsubscribed
  \/ \E t \in Stamp, failed \in BOOLEAN : ConnectDown(t, failed)
  \/ \E t \in Stamp, cost \in Costs : EventNewer(t, cost)
  \/ \E t \in Stamp, cost \in Costs : EventNotNewer(t, cost)
  \/ EventThrows
  \/ NotEmpty
  \/ ReportError
  \/ Pop
  \/ Clear
  \/ Close
  \/ StatusUpdate
  \/ StatReset

Spec == Init /\ [][Next]_vars

-----------------------------------------------------------------------------
FlagsOK ==
  /\ open \in BOOLEAN
  /\ link \in BOOLEAN
  /\ evid \in BOOLEAN
  /\ connected \in BOOLEAN

(* Every variable stays in its range. *)
TypeOK ==
  /\ FlagsOK
  /\ last_event \in 0 .. MaxStamp
  /\ values \in Seq(Value)
  /\ limit \in Nat \ {0}
  /\ n \in [Counter -> Nat]
  /\ l \in [Counter -> Nat]
  /\ cb \subseteq {"notify", "error"}
  /\ calls \in 0 .. MaxCallbacks

(* The queue is the lossy queue the Collector relies on: updates leave in   *)
(* the order they came, only the oldest are ever lost, and nOverflows       *)
(* counts every loss, whichever of _push and clear() caused it and however  *)
(* the counter is reset in between.                                         *)
Queue == INSTANCE LossyQueue WITH q <- values, lost <- n["oflow"]

RefinesQueue == Queue!Spec

(* A reconnection may shrink the limit below what is queued.  From then on  *)
(* the queue may only shrink until it is within the bound again.            *)
QueueBounded ==
  [][Len(values') > limit' + 1 => Len(values') <= Len(values)]_vars

(* The status table is filled with differences of unsigned counters         *)
(* (size_t): none may wrap around, although three threads write them.       *)
NoUnderflow == \A c \in Counter : Published[c] >= 0

(* While the PV is disconnected, the newest thing the processor has still   *)
(* to take from it says so: the marker is neither lost to a full queue nor  *)
(* overtaken by data, or the Collector would wait for the PV forever.       *)
LastIsDisconnect ==
  ~ connected /\ values # <<>> => ~ values[Len(values)].live
=============================================================================
