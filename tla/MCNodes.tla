-------------------------------- MODULE MCNodes --------------------------------
(* The instance of Nodes for TLC. *)
EXTENDS Nodes

CONSTANTS x, y

EachOther == [e \in {1, 2} |-> 3 - e]
BothOrders == [e \in {1, 2} |-> IF e = 1 THEN {<<x, y>>} ELSE {<<x, y>>, <<y, x>>, <<y>>}]
=============================================================================
