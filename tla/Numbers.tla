------------------------------ MODULE Numbers ------------------------------
(***************************************************************************)
(* The two computations on numbers that the threads rely on, checked side   *)
(* by side: the keys of events and the bandwidth estimate.                  *)
(***************************************************************************)
EXTENDS TimeKeys, WireBytes

(* The DBR_TIME types with the least and the most meta-data: double, the     *)
(* four bytes of long and float, and char.                                  *)
DbrTypes ==
  {[size |-> 24, elem |-> 8], [size |-> 16, elem |-> 4], [size |-> 16, elem |-> 1]}

NumbersInit == Init /\ WireInit

NumbersNext ==
  \/ Next /\ UNCHANGED wireVars
  \/ WireNext /\ UNCHANGED vars

NumbersSpec == NumbersInit /\ [][NumbersNext]_<<vars, wireVars>>
=============================================================================
