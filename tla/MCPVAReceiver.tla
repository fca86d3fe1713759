---------------------------- MODULE MCPVAReceiver ----------------------------
(***************************************************************************)
(* Two PVs: the first may be anything, the second is a plain scalar.  There *)
(* is no copier for a scalar "short".                                       *)
(***************************************************************************)
EXTENDS PVAReceiver

Value(what, types) == {[what |-> what, type |-> t] : t \in types}

Anything ==
  Value("none", {"double"}) \cup Value("disc", {"double"})
    \cup Value("array", {"double", "int"})
    \cup Value("scalar", {"double", "int", "short"})

MCCells == <<Anything, Value("scalar", {"double"})>>
=============================================================================
