---------------------------- MODULE MCBackground -----------------------------
(* An instance of Background for TLC: the incident is of the first tenant, and  *)
(* the one replica serves every request.                                        *)
EXTENDS Background

CONSTANTS t1, r1

FirstOwns == [i \in Incidents |-> t1]

OneHome == [q \in Requests |-> r1]

=============================================================================
