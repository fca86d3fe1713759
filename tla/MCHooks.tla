------------------------------ MODULE MCHooks ------------------------------
(***************************************************************************)
(* An instance of Hooks: one file with a comment between two names, and one *)
(* list of another client.                                                  *)
(***************************************************************************)
EXTENDS Hooks

CONSTANTS n1, n2

MCThread == {"shell"} \cup Worker \cup Table

MCFile == {<<n1, "comment", n2>>}

MCOther == {<<n2>>}
=============================================================================
