----------------------------- MODULE LossyQueue -----------------------------
(***************************************************************************)
(* What a Subscription promises the Collector about the updates of one PV:  *)
(* a first-in first-out queue that may lose updates, the oldest first, and  *)
(* counts each one it loses.                                                *)
(***************************************************************************)
EXTENDS ValueQueue

CONSTANT Value

VARIABLES
  q,      \* the updates not yet taken, oldest first
  lost    \* updates lost since the counter was last reset

vars == <<q, lost>>

Init ==
  /\ q = <<>>
  /\ lost = 0

(* An update arrives; k of the oldest ones make room for it. *)
Put(v) ==
  \E k \in 0 .. Len(q) :
    /\ q' = Append(KeepNewest(q, Len(q) - k), v)
    /\ lost' = lost + k

Take ==
  /\ q # <<>>
  /\ q' = Tail(q)
  /\ UNCHANGED lost

Evict ==
  \E k \in 1 .. Len(q) :
    /\ q' = KeepNewest(q, Len(q) - k)
    /\ lost' = lost + k

ResetLost ==
  /\ lost' = 0
  /\ UNCHANGED q

Next ==
  \/ \E v \in Value : Put(v)
  \/ Take
  \/ Evict
  \/ ResetLost

Spec == Init /\ [][Next]_vars
=============================================================================
