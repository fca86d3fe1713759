------------------------- MODULE SubscriptionProofs -------------------------
(***************************************************************************)
(* Proofs, for any limits, rates and bounds, that the queue of a            *)
(* Subscription is a LossyQueue, that the marker of a disconnection is the  *)
(* newest thing in it, and that the status counters never wrap around.      *)
(***************************************************************************)
EXTENDS Subscription, TLAPS

-----------------------------------------------------------------------------
(* The queue operations *)

(* Keeping the newest r of a sequence leaves a sequence of the same kind    *)
(* of values, no longer than r unless nothing was dropped.                  *)
LEMMA KeepNewestType ==
  ASSUME NEW S, NEW q \in Seq(S), NEW r \in Nat
  PROVE  /\ KeepNewest(q, r) \in Seq(S)
         /\ Len(KeepNewest(q, r)) = IF Len(q) > r THEN r ELSE Len(q)
BY DEF KeepNewest

(* What is kept, when anything is, ends as the sequence did. *)
LEMMA KeepNewestLast ==
  ASSUME NEW S, NEW q \in Seq(S), NEW r \in Nat, KeepNewest(q, r) # <<>>
  PROVE  /\ q # <<>>
         /\ KeepNewest(q, r)[Len(KeepNewest(q, r))] = q[Len(q)]
<1>1. CASE Len(q) > r
  <2>1. KeepNewest(q, r) = SubSeq(q, Len(q) - r + 1, Len(q))
    BY <1>1 DEF KeepNewest
  <2>2. r # 0
    BY <2>1, KeepNewestType
  <2>3. Len(KeepNewest(q, r)) = r
    BY <1>1, KeepNewestType
  <2> QED
    BY <1>1, <2>1, <2>2, <2>3
<1>2. CASE ~ (Len(q) > r)
  BY <1>2 DEF KeepNewest
<1> QED
  BY <1>1, <1>2

(* The number of updates lost is a number, and dropping that many is what   *)
(* KeepNewest does.                                                         *)
LEMMA ExcessIsLoss ==
  ASSUME NEW S, NEW q \in Seq(S), NEW r \in Nat
  PROVE  /\ Excess(q, r) \in Nat
         /\ Excess(q, r) \in 0 .. Len(q)
         /\ KeepNewest(q, r) = KeepNewest(q, Len(q) - Excess(q, r))
         /\ Excess(q, r) = 0 => KeepNewest(q, r) = q
<1>1. Len(q) \in Nat
  OBVIOUS
<1>2. CASE Len(q) > r
  BY <1>1, <1>2 DEF Excess, KeepNewest
<1>3. CASE ~ (Len(q) > r)
  BY <1>1, <1>3 DEF Excess, KeepNewest
<1> QED
  BY <1>2, <1>3

(* A push yields a queue that ends in the pushed value. *)
LEMMA PushType ==
  ASSUME NEW S, NEW q \in Seq(S), NEW r \in Nat, NEW v \in S
  PROVE  /\ PushBounded(q, r, v) \in Seq(S)
         /\ PushBounded(q, r, v) # <<>>
         /\ PushBounded(q, r, v)[Len(PushBounded(q, r, v))] = v
         /\ Len(PushBounded(q, r, v)) <= r + 1
<1>1. /\ KeepNewest(q, r) \in Seq(S)
      /\ Len(KeepNewest(q, r)) <= r
  BY KeepNewestType
<1> QED
  BY <1>1 DEF PushBounded

-----------------------------------------------------------------------------
(* Types *)

USE DEF vars

(* Bumping a counter leaves counters, lowers none and moves no other. *)
LEMMA BumpType ==
  ASSUME NEW m \in [Counter -> Nat], NEW c \in Counter, NEW k \in Nat
  PROVE  /\ Bump(m, c, k) \in [Counter -> Nat]
         /\ Bump(m, c, k)[c] = m[c] + k
         /\ \A d \in Counter : Bump(m, c, k)[d] >= m[d]
         /\ \A d \in Counter \ {c} : Bump(m, c, k)[d] = m[d]
BY DEF Bump

(* What onEvent accounts for an update leaves the overflow counter alone. *)
LEMMA ReceivedType ==
  ASSUME n \in [Counter -> Nat], NEW cost \in Costs
  PROVE  /\ Received(cost) \in [Counter -> Nat]
         /\ \A d \in Counter : Received(cost)[d] >= n[d]
         /\ Received(cost)["oflow"] = n["oflow"]
<1>1. /\ "upd" \in Counter /\ "bytes" \in Counter /\ "oflow" \in Counter
      /\ "oflow" # "upd" /\ "oflow" # "bytes"
  BY DEF Counter
<1>2. cost \in Nat
  BY SubscriptionAssumption
<1>3. PICK m \in [Counter -> Nat] : m = Bump(n, "upd", 1)
  BY <1>1, BumpType
<1>4. \A d \in Counter : m[d] >= n[d]
  BY <1>1, <1>3, BumpType
<1>5. m["oflow"] = n["oflow"]
  BY <1>1, <1>3, BumpType
<1>6. PICK r \in [Counter -> Nat] : r = Bump(m, "bytes", cost)
  BY <1>1, <1>2, BumpType
<1>7. \A d \in Counter : r[d] >= m[d]
  BY <1>1, <1>2, <1>6, BumpType
<1>8. r["oflow"] = m["oflow"]
  BY <1>1, <1>2, <1>6, BumpType
<1>9. Received(cost) = r
  BY <1>3, <1>6 DEF Received
<1>10. \A d \in Counter : r[d] >= n[d]
  BY <1>4, <1>7
<1> QED
  BY <1>5, <1>8, <1>9, <1>10

LEMMA LimitType == \A isarray \in BOOLEAN : LimitOf(isarray) \in Nat \ {0}
BY SubscriptionAssumption DEF LimitOf, Larger

LEMMA FlagsStep == FlagsOK /\ [Next]_vars => FlagsOK'
<1> SUFFICES ASSUME FlagsOK, [Next]_vars PROVE FlagsOK'
  OBVIOUS
<1> USE DEF FlagsOK
<1>1. ASSUME NEW isarray \in BOOLEAN, ConnectUp(isarray) PROVE FlagsOK'
  BY <1>1, Zenon DEF ConnectUp
<1>2. CASE ConnectUpString \/ ConnectUpFails \/ ConnectDownUnsubscribed
  BY <1>2, Zenon DEF ConnectUpString, ConnectUpFails, ConnectDownUnsubscribed
<1>3. ASSUME NEW t \in Stamp, NEW failed \in BOOLEAN, ConnectDown(t, failed)
      PROVE  FlagsOK'
  BY <1>3, Zenon DEF ConnectDown
<1>4. ASSUME NEW t \in Stamp, NEW cost \in Costs,
             EventNewer(t, cost) \/ EventNotNewer(t, cost)
      PROVE  FlagsOK'
  BY <1>4, Zenon DEF EventNewer, EventNotNewer
<1>5. CASE EventThrows \/ NotEmpty \/ ReportError
  BY <1>5, Zenon DEF EventThrows, NotEmpty, ReportError
<1>6. CASE Pop \/ Clear \/ Close
  BY <1>6, Zenon DEF Pop, Clear, Close
<1>7. CASE StatusUpdate \/ StatReset
  BY <1>7, Zenon DEF StatusUpdate, StatReset
<1>8. CASE UNCHANGED vars
  BY <1>8, Zenon
<1> QED
  BY <1>1, <1>2, <1>3, <1>4, <1>5, <1>6, <1>7, <1>8 DEF Next

LEMMA InitTypeOK == Init => TypeOK
<1>1. Init => FlagsOK
  BY Zenon DEF Init, FlagsOK
<1> QED
  BY <1>1, SubscriptionAssumption DEF Init, TypeOK, Zero

LEMMA NextTypeOK == TypeOK /\ [Next]_vars => TypeOK'
<1> SUFFICES ASSUME TypeOK, [Next]_vars PROVE TypeOK'
  OBVIOUS
<1> USE SubscriptionAssumption DEF TypeOK
<1>0. FlagsOK'
  BY FlagsStep
<1>1. ASSUME NEW isarray \in BOOLEAN, ConnectUp(isarray) PROVE TypeOK'
  BY <1>0, <1>1, LimitType DEF ConnectUp, CallbackBegins
<1>2. CASE ConnectUpString
  BY <1>0, <1>2 DEF ConnectUpString, CallbackBegins
<1>3. CASE ConnectUpFails
  BY <1>0, <1>3, BumpType DEF ConnectUpFails, CallbackBegins, Counter
<1>4. CASE ConnectDownUnsubscribed
  BY <1>0, <1>4 DEF ConnectDownUnsubscribed, CallbackBegins
<1>5. ASSUME NEW t \in Stamp, NEW failed \in BOOLEAN, ConnectDown(t, failed)
      PROVE  TypeOK'
  <2>1. [stamp |-> t, live |-> FALSE] \in Value
    BY DEF Value
  <2>2. values' \in Seq(Value)
    BY <1>0, <1>5, <2>1, PushType DEF ConnectDown
  <2>3. Excess(values, limit) \in Nat
    BY ExcessIsLoss
  <2>4. n' \in [Counter -> Nat]
    BY <1>5, <2>3, BumpType DEF ConnectDown, Counter
  <2>5. cb' \subseteq {"notify", "error"}
    BY <1>0, <1>5 DEF ConnectDown, Wakeup
  <2> QED
    BY <1>0, <1>5, <2>2, <2>4, <2>5 DEF ConnectDown, CallbackBegins
<1>6. ASSUME NEW t \in Stamp, NEW cost \in Costs, EventNewer(t, cost)
      PROVE  TypeOK'
  <2>1. [stamp |-> t, live |-> TRUE] \in Value
    BY DEF Value
  <2>2. values' \in Seq(Value)
    BY <1>0, <1>6, <2>1, PushType DEF EventNewer
  <2>3. Excess(values, limit) \in Nat
    BY ExcessIsLoss
  <2>4. n' \in [Counter -> Nat]
    BY <1>6, <2>3, BumpType, ReceivedType DEF EventNewer, Counter
  <2>5. last_event' \in 0 .. MaxStamp
    BY <1>0, <1>6 DEF EventNewer, Stamp
  <2> QED
    BY <1>0, <1>6, <2>2, <2>4, <2>5 DEF EventNewer, CallbackBegins, Wakeup
<1>7. ASSUME NEW t \in Stamp, NEW cost \in Costs, EventNotNewer(t, cost)
      PROVE  TypeOK'
  <2>1. n' \in [Counter -> Nat]
    BY <1>7, BumpType, ReceivedType DEF EventNotNewer, Counter
  <2> QED
    BY <1>0, <1>7, <2>1 DEF EventNotNewer, CallbackBegins, Stamp
<1>8. CASE EventThrows
  BY <1>0, <1>8, BumpType DEF EventThrows, CallbackBegins, Counter
<1>9. CASE NotEmpty
  BY <1>0, <1>9 DEF NotEmpty
<1>10. CASE ReportError
  BY <1>0, <1>10, BumpType DEF ReportError, Counter
<1>11. CASE Pop
  BY <1>0, <1>11 DEF Pop
<1>12. CASE Clear
  <2>1. Excess(values, CarryOver) \in Nat /\ values' \in Seq(Value)
    BY <1>0, <1>12, ExcessIsLoss, KeepNewestType DEF Clear
  <2> QED
    BY <1>0, <1>12, <2>1, BumpType DEF Clear, Counter
<1>13. CASE Close
  BY <1>0, <1>13 DEF Close
<1>14. CASE StatusUpdate
  BY <1>0, <1>14 DEF StatusUpdate
<1>15. CASE StatReset
  BY <1>0, <1>15 DEF StatReset, Zero, Counter
<1>16. CASE UNCHANGED vars
  BY <1>0, <1>16
<1> QED
  BY <1>0, <1>1, <1>2, <1>3, <1>4, <1>5, <1>6, <1>7, <1>8, <1>9, <1>10, <1>11,
     <1>12, <1>13, <1>14, <1>15, <1>16 DEF Next

(* Every variable of a Subscription stays in its range. *)
THEOREM TypeCorrect == Spec => []TypeOK
BY InitTypeOK, NextTypeOK, PTL DEF Spec

-----------------------------------------------------------------------------
(* The status counters *)

LEMMA NoUnderflowStep ==
  TypeOK /\ NoUnderflow /\ [Next]_vars => NoUnderflow'
<1> SUFFICES ASSUME TypeOK, NoUnderflow, [Next]_vars PROVE NoUnderflow'
  OBVIOUS
<1>1. /\ n \in [Counter -> Nat] /\ l \in [Counter -> Nat]
      /\ \A c \in Counter : n[c] >= l[c]
  BY DEF TypeOK, NoUnderflow, Published
<1>2. SUFFICES \A c \in Counter : n'[c] >= l'[c]
  <2>1. n' \in [Counter -> Nat] /\ l' \in [Counter -> Nat]
    BY NextTypeOK DEF TypeOK
  <2> QED
    BY <1>2, <2>1 DEF NoUnderflow, Published
<1>3. /\ "discon" \in Counter /\ "err" \in Counter /\ "oflow" \in Counter
      /\ 1 \in Nat
  BY DEF Counter
<1>4. Excess(values, limit) \in Nat /\ Excess(values, CarryOver) \in Nat
  BY ExcessIsLoss, SubscriptionAssumption DEF TypeOK
<1>5. CASE \A c \in Counter : n'[c] \in Nat /\ n'[c] >= n[c] /\ UNCHANGED l
  BY <1>1, <1>5
<1>6. n' \in [Counter -> Nat]
  BY NextTypeOK DEF TypeOK
<1>7. CASE UNCHANGED <<n, l>>
  BY <1>1, <1>7
<1>8. ASSUME NEW t \in Stamp, NEW failed \in BOOLEAN, ConnectDown(t, failed)
      PROVE  \A c \in Counter : n'[c] >= l'[c]
  <2>1. PICK m \in [Counter -> Nat] : m = Bump(n, "discon", 1)
    BY <1>1, <1>3, BumpType
  <2>2. \A c \in Counter : m[c] >= n[c]
    BY <1>1, <1>3, <2>1, BumpType
  <2>3. \A c \in Counter : n'[c] >= m[c]
    BY <1>3, <1>4, <1>8, <2>1, BumpType DEF ConnectDown
  <2> QED
    BY <1>1, <1>6, <1>8, <2>2, <2>3 DEF ConnectDown
<1>9. ASSUME NEW t \in Stamp, NEW cost \in Costs,
             EventNewer(t, cost) \/ EventNotNewer(t, cost)
      PROVE  \A c \in Counter : n'[c] >= l'[c]
  <2>1. PICK m \in [Counter -> Nat] : m = Received(cost)
    BY <1>1, ReceivedType
  <2>2. \A c \in Counter : m[c] >= n[c]
    BY <1>1, <2>1, ReceivedType
  <2>3. /\ \A c \in Counter : Bump(m, "err", 1)[c] >= m[c]
        /\ \A c \in Counter :
             Bump(m, "oflow", Excess(values, limit))[c] >= m[c]
    BY <1>3, <1>4, BumpType
  <2>4. \A c \in Counter : n'[c] >= m[c]
    BY <1>9, <2>1, <2>3 DEF EventNewer, EventNotNewer
  <2> QED
    BY <1>1, <1>6, <1>9, <2>2, <2>4 DEF EventNewer, EventNotNewer
<1>10. CASE ConnectUpFails \/ EventThrows \/ ReportError
  <2>1. \A c \in Counter : Bump(n, "err", 1)[c] >= n[c]
    BY <1>1, <1>3, BumpType
  <2> QED
    BY <1>5, <1>6, <1>10, <2>1 DEF ConnectUpFails, EventThrows, ReportError
<1>11. CASE Clear
  <2>1. \A c \in Counter : n'[c] >= n[c]
    BY <1>1, <1>3, <1>4, <1>11, BumpType DEF Clear
  <2> QED
    BY <1>5, <1>6, <1>11, <2>1 DEF Clear
<1>12. CASE StatusUpdate
  BY <1>1, <1>12 DEF StatusUpdate
<1>13. CASE StatReset
  BY <1>13 DEF StatReset, Zero
<1>14. ASSUME NEW isarray \in BOOLEAN, ConnectUp(isarray)
       PROVE  UNCHANGED <<n, l>>
  BY <1>14 DEF ConnectUp
<1>15. ConnectUpString \/ ConnectDownUnsubscribed \/ NotEmpty \/ Pop \/ Close
       \/ UNCHANGED vars => UNCHANGED <<n, l>>
  BY DEF ConnectUpString, ConnectDownUnsubscribed, NotEmpty, Pop, Close
<1> QED
  BY <1>7, <1>8, <1>9, <1>10, <1>11, <1>12, <1>13, <1>14, <1>15 DEF Next

(* No counter of the status table ever wraps around, whatever the order of  *)
(* callbacks, status updates and resets.                                    *)
THEOREM CountersNeverWrap == Spec => []NoUnderflow
<1>1. Init => NoUnderflow
  BY DEF Init, NoUnderflow, Published, Zero
<1> QED
  BY <1>1, InitTypeOK, NextTypeOK, NoUnderflowStep, PTL DEF Spec

-----------------------------------------------------------------------------
(* The marker of a disconnection *)

(* A subscribed channel is shown as connected, so that no data is queued    *)
(* behind the marker of a disconnection.                                    *)
SubscribedIsConnected == evid => connected

LEMMA SubscribedStep ==
  SubscribedIsConnected /\ [Next]_vars => SubscribedIsConnected'
<1> SUFFICES ASSUME SubscribedIsConnected, [Next]_vars
             PROVE  SubscribedIsConnected'
  OBVIOUS
<1> USE DEF SubscribedIsConnected
<1>1. ASSUME NEW isarray \in BOOLEAN, ConnectUp(isarray)
      PROVE  SubscribedIsConnected'
  BY <1>1 DEF ConnectUp
<1>2. ASSUME NEW t \in Stamp, NEW failed \in BOOLEAN, ConnectDown(t, failed)
      PROVE  SubscribedIsConnected'
  BY <1>2 DEF ConnectDown
<1>3. ASSUME NEW t \in Stamp, NEW cost \in Costs,
             EventNewer(t, cost) \/ EventNotNewer(t, cost)
      PROVE  SubscribedIsConnected'
  BY <1>3 DEF EventNewer, EventNotNewer
<1>4. CASE Close
  BY <1>4 DEF Close
<1>5. CASE ConnectUpString \/ ConnectUpFails \/ ConnectDownUnsubscribed
           \/ EventThrows \/ NotEmpty \/ ReportError \/ Pop \/ Clear
           \/ StatusUpdate \/ StatReset \/ UNCHANGED vars
  BY <1>5 DEF ConnectUpString, ConnectUpFails, ConnectDownUnsubscribed,
     EventThrows, NotEmpty, ReportError, Pop, Clear, StatusUpdate, StatReset
<1> QED
  BY <1>1, <1>2, <1>3, <1>4, <1>5 DEF Next

LEMMA LastIsDisconnectStep ==
  TypeOK /\ SubscribedIsConnected /\ LastIsDisconnect /\ [Next]_vars
    => LastIsDisconnect'
<1> SUFFICES ASSUME TypeOK, SubscribedIsConnected, LastIsDisconnect,
                    [Next]_vars
             PROVE  LastIsDisconnect'
  OBVIOUS
<1> USE DEF LastIsDisconnect
<1>1. values \in Seq(Value) /\ limit \in Nat /\ CarryOver \in Nat
  BY SubscriptionAssumption DEF TypeOK
<1>2. CASE UNCHANGED <<connected, values>>
  BY <1>2
<1>3. ASSUME NEW isarray \in BOOLEAN, ConnectUp(isarray)
      PROVE  LastIsDisconnect'
  BY <1>3 DEF ConnectUp
<1>4. ASSUME NEW t \in Stamp, NEW failed \in BOOLEAN, ConnectDown(t, failed)
      PROVE  LastIsDisconnect'
  <2>1. PICK v \in Value :
          /\ v = [stamp |-> t, live |-> FALSE]
          /\ values' = PushBounded(values, limit, v)
    BY <1>4 DEF ConnectDown, Value
  <2> DEFINE q == PushBounded(values, limit, v)
  <2>2. q[Len(q)] = v
    BY <1>1, PushType
  <2>3. values'[Len(values')] = v
    BY <2>1, <2>2
  <2> QED
    BY <2>1, <2>3
<1>5. ASSUME NEW t \in Stamp, NEW cost \in Costs, EventNewer(t, cost)
      PROVE  LastIsDisconnect'
  BY <1>5 DEF EventNewer, SubscribedIsConnected
<1>6. CASE Pop
  <2>1. Len(values) \in Nat \ {0} /\ values' = Tail(values)
    BY <1>1, <1>6 DEF Pop
  <2>2. values' # <<>> => values'[Len(values')] = values[Len(values)]
    BY <1>1, <2>1
  <2> QED
    BY <1>6, <2>1, <2>2 DEF Pop
<1>7. CASE Clear
  <2>1. values' # <<>> => /\ values # <<>>
                          /\ values'[Len(values')] = values[Len(values)]
    BY <1>1, <1>7, KeepNewestLast DEF Clear
  <2> QED
    BY <1>7, <2>1 DEF Clear
<1>8. ASSUME NEW t \in Stamp, NEW cost \in Costs, EventNotNewer(t, cost)
      PROVE  UNCHANGED <<connected, values>>
  BY <1>8 DEF EventNotNewer
<1>9. ConnectUpString \/ ConnectUpFails \/ ConnectDownUnsubscribed
        \/ EventThrows \/ NotEmpty \/ ReportError \/ Close
        \/ StatusUpdate \/ StatReset \/ UNCHANGED vars
      => UNCHANGED <<connected, values>>
  BY DEF ConnectUpString, ConnectUpFails, ConnectDownUnsubscribed,
     EventThrows, NotEmpty, ReportError, Close, StatusUpdate, StatReset
<1> QED
  BY <1>2, <1>3, <1>4, <1>5, <1>6, <1>7, <1>8, <1>9 DEF Next

(* While its PV is disconnected, a queue that is not empty ends with the    *)
(* marker that tells the processor so, whatever was dropped before it.      *)
THEOREM MarkerIsKept == Spec => []LastIsDisconnect
<1>1. Init => LastIsDisconnect /\ SubscribedIsConnected
  BY DEF Init, LastIsDisconnect, SubscribedIsConnected
<1> QED
  BY <1>1, InitTypeOK, NextTypeOK, SubscribedStep, LastIsDisconnectStep, PTL
  DEF Spec

-----------------------------------------------------------------------------
(* Refinement *)

(* Every critical section of Subscription::mutex is a step of the lossy     *)
(* queue, or leaves it alone.                                               *)
LEMMA QueueStep ==
  TypeOK /\ [Next]_vars => [Queue!Next]_(Queue!vars)
<1> SUFFICES ASSUME TypeOK, [Next]_vars
             PROVE  Queue!Next \/ UNCHANGED <<values, n["oflow"]>>
  BY DEF Queue!vars
<1>1. /\ values \in Seq(Value) /\ limit \in Nat /\ CarryOver \in Nat
      /\ n \in [Counter -> Nat]
  BY SubscriptionAssumption DEF TypeOK
<1>2. /\ "err" \in Counter /\ "discon" \in Counter /\ "oflow" \in Counter
      /\ "oflow" # "err" /\ "oflow" # "discon"
  BY DEF Counter
<1>3. ASSUME NEW v \in Value, NEW m \in [Counter -> Nat],
             m["oflow"] = n["oflow"],
             values' = PushBounded(values, limit, v),
             n' = Bump(m, "oflow", Excess(values, limit))
      PROVE  Queue!Put(v)
  <2> DEFINE k == Excess(values, limit)
  <2>1. /\ k \in 0 .. Len(values) /\ k \in Nat
        /\ KeepNewest(values, limit) = KeepNewest(values, Len(values) - k)
    BY <1>1, ExcessIsLoss
  <2>2. n'["oflow"] = n["oflow"] + k
    <3>1. Bump(m, "oflow", k)["oflow"] = m["oflow"] + k
      BY <1>2, <2>1, BumpType
    <3> QED
      BY <1>3, <3>1
  <2>3. values' = Append(KeepNewest(values, Len(values) - k), v)
    BY <1>3, <2>1 DEF PushBounded
  <2> QED
    BY <2>1, <2>2, <2>3 DEF Queue!Put, Queue!KeepNewest, KeepNewest
<1>4. ASSUME NEW t \in Stamp, NEW failed \in BOOLEAN, ConnectDown(t, failed)
      PROVE  Queue!Next
  <2>1. PICK v \in Value :
          /\ v = [stamp |-> t, live |-> FALSE]
          /\ values' = PushBounded(values, limit, v)
    BY <1>4 DEF ConnectDown, Value
  <2>2. PICK m \in [Counter -> Nat] : m = Bump(n, "discon", 1)
    BY <1>1, <1>2, BumpType
  <2>3. m["oflow"] = n["oflow"]
    <3>1. \A d \in Counter \ {"discon"} : Bump(n, "discon", 1)[d] = n[d]
      BY <1>1, <1>2, BumpType
    <3> QED
      BY <1>2, <2>2, <3>1
  <2>4. n' = Bump(m, "oflow", Excess(values, limit))
    BY <1>4, <2>2 DEF ConnectDown
  <2> QED
    BY <1>3, <2>1, <2>3, <2>4 DEF Queue!Next
<1>5. ASSUME NEW t \in Stamp, NEW cost \in Costs, EventNewer(t, cost)
      PROVE  Queue!Next
  <2>1. PICK v \in Value :
          /\ v = [stamp |-> t, live |-> TRUE]
          /\ values' = PushBounded(values, limit, v)
    BY <1>5 DEF EventNewer, Value
  <2>2. PICK m \in [Counter -> Nat] :
          m = Received(cost) /\ m["oflow"] = n["oflow"]
    BY <1>1, ReceivedType
  <2>3. n' = Bump(m, "oflow", Excess(values, limit))
    BY <1>5, <2>2 DEF EventNewer
  <2> QED
    BY <1>3, <2>1, <2>2, <2>3 DEF Queue!Next
<1>6. ASSUME NEW t \in Stamp, NEW cost \in Costs, EventNotNewer(t, cost)
      PROVE  UNCHANGED <<values, n["oflow"]>>
  <2>1. PICK m \in [Counter -> Nat] :
          m = Received(cost) /\ m["oflow"] = n["oflow"]
    BY <1>1, ReceivedType
  <2>2. Bump(m, "err", 1)["oflow"] = m["oflow"]
    BY <1>2, BumpType
  <2> QED
    BY <1>6, <2>1, <2>2 DEF EventNotNewer
<1>7. CASE ConnectUpFails \/ EventThrows \/ ReportError
  <2>1. Bump(n, "err", 1)["oflow"] = n["oflow"]
    BY <1>1, <1>2, BumpType
  <2> QED
    BY <1>7, <2>1 DEF ConnectUpFails, EventThrows, ReportError
<1>8. CASE Pop
  BY <1>8 DEF Pop, Queue!Next, Queue!Take
<1>9. CASE Clear
  <2> DEFINE k == Excess(values, CarryOver)
  <2>1. /\ k \in 0 .. Len(values) /\ k \in Nat
        /\ KeepNewest(values, CarryOver) = KeepNewest(values, Len(values) - k)
        /\ k = 0 => KeepNewest(values, CarryOver) = values
    BY <1>1, ExcessIsLoss
  <2>2. n'["oflow"] = n["oflow"] + k
    BY <1>1, <1>2, <1>9, <2>1, BumpType DEF Clear
  <2>3. CASE k = 0
    BY <1>1, <1>2, <1>9, <2>1, <2>2, <2>3 DEF Clear
  <2>4. CASE k # 0
    <3>1. k \in 1 .. Len(values)
      BY <1>1, <2>1, <2>4
    <3>2. values' = KeepNewest(values, Len(values) - k)
      BY <1>9, <2>1 DEF Clear
    <3> QED
      BY <2>2, <3>1, <3>2
      DEF Queue!Next, Queue!Evict, Queue!KeepNewest, KeepNewest
  <2> QED
    BY <2>3, <2>4
<1>10. CASE StatReset
  BY <1>2, <1>10 DEF StatReset, Zero, Queue!Next, Queue!ResetLost
<1>11. ASSUME NEW isarray \in BOOLEAN, ConnectUp(isarray)
       PROVE  UNCHANGED <<values, n["oflow"]>>
  BY <1>11 DEF ConnectUp
<1>12. ConnectUpString \/ ConnectDownUnsubscribed \/ NotEmpty \/ Close
         \/ StatusUpdate \/ UNCHANGED vars
       => UNCHANGED <<values, n["oflow"]>>
  BY DEF ConnectUpString, ConnectDownUnsubscribed, NotEmpty, Close,
     StatusUpdate
<1> QED
  BY <1>4, <1>5, <1>6, <1>7, <1>8, <1>9, <1>10, <1>11, <1>12 DEF Next

(* The queue of a Subscription implements LossyQueue: the processor takes   *)
(* updates in the order they came, only the oldest are ever lost, and       *)
(* nOverflows counts each of them.                                          *)
THEOREM SubscriptionIsLossyQueue == Spec => RefinesQueue
<1>1. Init => Queue!Init
  BY DEF Init, Queue!Init, Zero, Counter
<1> QED
  BY <1>1, InitTypeOK, NextTypeOK, QueueStep, PTL
  DEF Spec, RefinesQueue, Queue!Spec

-----------------------------------------------------------------------------
(* The bound *)

(* A push leaves a queue within the bound; nothing else makes it longer.    *)
LEMMA BoundStep ==
  ASSUME TypeOK, [Next]_vars, Len(values') > limit' + 1
  PROVE  Len(values') <= Len(values)
<1>1. values \in Seq(Value) /\ limit \in Nat /\ CarryOver \in Nat
  BY SubscriptionAssumption DEF TypeOK
<1>2. Len(values) \in Nat
  BY <1>1
<1>3. ASSUME NEW v \in Value, values' = PushBounded(values, limit, v),
             limit' = limit
      PROVE  FALSE
  <2>1. Len(values') <= limit + 1 /\ Len(values') \in Nat
    BY <1>1, <1>3, PushType
  <2> QED
    BY <1>1, <1>3, <2>1
<1>4. ASSUME NEW t \in Stamp, NEW failed \in BOOLEAN
      PROVE  ~ ConnectDown(t, failed)
  BY <1>3 DEF ConnectDown, Value
<1>5. ASSUME NEW t \in Stamp, NEW cost \in Costs
      PROVE  ~ EventNewer(t, cost)
  BY <1>3 DEF EventNewer, Value
<1>6. CASE Pop
  BY <1>1, <1>6 DEF Pop
<1>7. CASE Clear
  <2>1. Len(values') = IF Len(values) > CarryOver THEN CarryOver ELSE Len(values)
    BY <1>1, <1>7, KeepNewestType DEF Clear
  <2> QED
    BY <1>1, <1>2, <2>1
<1>8. ASSUME NEW isarray \in BOOLEAN, ConnectUp(isarray)
      PROVE  values' = values
  BY <1>8 DEF ConnectUp
<1>9. ASSUME NEW t \in Stamp, NEW cost \in Costs, EventNotNewer(t, cost)
      PROVE  values' = values
  BY <1>9 DEF EventNotNewer
<1>10. ConnectUpString \/ ConnectUpFails \/ ConnectDownUnsubscribed
         \/ EventThrows \/ NotEmpty \/ ReportError \/ Close
         \/ StatusUpdate \/ StatReset \/ UNCHANGED vars
       => values' = values
  BY DEF ConnectUpString, ConnectUpFails, ConnectDownUnsubscribed,
     EventThrows, NotEmpty, ReportError, Close, StatusUpdate, StatReset
<1> QED
  BY <1>2, <1>4, <1>5, <1>6, <1>7, <1>8, <1>9, <1>10 DEF Next

(* _push(), pop(), clear(): a queue that is over its limit, because the PV  *)
(* reconnected with a smaller one, only shrinks until it is within it.      *)
THEOREM QueueStaysBounded == Spec => QueueBounded
<1>1. TypeOK /\ [Next]_vars =>
        [Len(values') > limit' + 1 => Len(values') <= Len(values)]_vars
  BY BoundStep
<1> QED
  BY <1>1, InitTypeOK, NextTypeOK, PTL DEF Spec, QueueBounded
=============================================================================
