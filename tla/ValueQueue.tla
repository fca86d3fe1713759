----------------------------- MODULE ValueQueue -----------------------------
(***************************************************************************)
(* Operations on the std::deque of updates a Subscription keeps, shared by  *)
(* the specifications of one Subscription and of the whole Collector.       *)
(***************************************************************************)
EXTENDS Integers, Sequences

(* while(values.size() > r) values.pop_front(); *)
KeepNewest(q, r) ==
  IF Len(q) > r THEN SubSeq(q, Len(q) - r + 1, Len(q)) ELSE q

(* A seeded fault: a full queue swallows the new update.                    *)
PushUnlessFull(q, limit, v) ==
  IF Len(q) > limit THEN KeepNewest(q, limit) ELSE Append(q, v)

(* A seeded fault: the bound of the queue is not enforced.                  *)
PushUnbounded(q, limit, v) == Append(q, v)

(* Subscription::_push: make room, then append. *)
PushBounded(q, limit, v) == Append(KeepNewest(q, limit), v)

(* How many updates bringing q down to r of them loses. *)
Excess(q, r) == IF Len(q) > r THEN Len(q) - r ELSE 0
=============================================================================
