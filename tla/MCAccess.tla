------------------------------ MODULE MCAccess -------------------------------
(* The instance of Access for TLC: two companies with a connector each, and a  *)
(* security holder of the first.                                               *)
EXTENDS Access

CONSTANTS t1, t2, e1, c1, c2

Holder == [e \in {e1} |-> t1]
Owner == [c \in {c1, c2} |-> IF c = c1 THEN t1 ELSE t2]

=============================================================================
