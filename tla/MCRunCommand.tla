---------------------------- MODULE MCRunCommand ----------------------------
(* Bytes of four values, and a buffer in which a few strings fit.          *)
EXTENDS RunCommand

Str(name, n) == [name |-> name, size |-> n]

MCRoom == 18
Paths == {Str("p", 1), Str("q", MCRoom - 10), Str("r", MCRoom - 8)}
Arguments == {Str("a", 1), Str("b", 2)}

MCString == Paths \cup Arguments

(* All short lists, and long ones: up to two digits of their number.       *)
MCCommands ==
  [path : Paths,
   args : UNION {[1..n -> Arguments] : n \in 0..2}
            \cup {[i \in 1..n |-> Str("a", 1)] : n \in 3..7}]
=============================================================================
