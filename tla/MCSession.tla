------------------------------ MODULE MCSession -------------------------------
(***************************************************************************)
(* Only the child is special among the processes of a session.             *)
(***************************************************************************)
EXTENDS Session, TLC

Daemons == Permutations(Proc \ {Child})
=============================================================================
