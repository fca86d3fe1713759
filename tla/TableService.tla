---------------------------- MODULE TableService ----------------------------
(***************************************************************************)
(* What a Coordinator promises to the clients of one table: the table that  *)
(* is served was built for a list that was put, is withdrawn while the next *)
(* one is built, and, unless the service stops, is in the end the table of  *)
(* the last list that was put.  Threads, mutexes and wakeups do not appear. *)
(***************************************************************************)
CONSTANTS
  List,   \* the lists of names that may be put
  Empty,  \* the list before the first put
  None    \* no list

VARIABLES
  requested,  \* the list last put
  building,   \* the list a table is built for, or None
  served,     \* the list of the table that is served, or None
  up          \* the service has not been stopped

vars == <<requested, building, served, up>>

Init ==
  /\ requested = Empty
  /\ building = None
  /\ served = None
  /\ up = TRUE

Put ==
  /\ requested' \in List
  /\ UNCHANGED <<building, served, up>>

Begin ==
  /\ building = None
  /\ building' = requested
  /\ UNCHANGED <<requested, served, up>>

Withdraw ==
  /\ building # None \/ ~ up
  /\ served' = None
  /\ UNCHANGED <<requested, building, up>>

Finish ==
  /\ building # None
  /\ served = None
  /\ served' = building
  /\ building' = None
  /\ UNCHANGED <<requested, up>>

Stop ==
  /\ up' = FALSE
  /\ served' \in {served, None}
  /\ UNCHANGED <<requested, building>>

Next == Put \/ Begin \/ Withdraw \/ Finish \/ Stop

SafeSpec == Init /\ [][Next]_vars

(* A list that is not served is built, unless the service stops. *)
Outdated == up /\ served # requested

Spec ==
  /\ SafeSpec
  /\ WF_vars(Outdated /\ Begin)
  /\ WF_vars(up /\ served # None /\ Withdraw)
  /\ WF_vars(up /\ Finish)
=============================================================================
