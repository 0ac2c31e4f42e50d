---------------------------- MODULE MCCommandQueue ----------------------------
(* Instances of CommandQueue for TLC. *)
EXTENDS CommandQueue

CONSTANTS c1, c2

\* The command submitted by name first need not be due first.
Later == [c \in Commands |-> IF c = c1 THEN 2 ELSE 1]
=============================================================================
