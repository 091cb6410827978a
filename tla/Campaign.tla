------------------------------ MODULE Campaign -------------------------------
(* What Detection promises of an ongoing campaign (one technique from one       *)
(* address against one tenant), with no messages, cache or database: it is one  *)
(* case from the first evidence on, later evidence is added to that case and    *)
(* never lost, and the case is answered at most once, and only while it is       *)
(* open (agents/detection.py:39-43 and 210-216).  Correlation on one replica is *)
(* shown to implement it.                                                       *)
EXTENDS Naturals

CONSTANTS Campaigns, Evidence

VARIABLES cases,      \* cases[c]: the incidents of campaign c
          evidence,   \* evidence[c]: the events related to them
          answers     \* answers[c]: responses recommended for c

vars == <<cases, evidence, answers>>

Init == /\ cases = [c \in Campaigns |-> {}]
        /\ evidence = [c \in Campaigns |-> {}]
        /\ answers = [c \in Campaigns |-> 0]

OpenCase(c) == /\ cases[c] = {}
               /\ \E n \in cases'[c] : cases' = [cases EXCEPT ![c] = {n}]
               /\ \E e \in Evidence : evidence' = [evidence EXCEPT ![c] = {e}]
               /\ UNCHANGED answers

Gather(c) == /\ cases[c] # {}
             /\ \E e \in Evidence : evidence' = [evidence EXCEPT ![c] = @ \union {e}]
             /\ UNCHANGED <<cases, answers>>

Answer(c) == /\ cases[c] # {} /\ answers[c] = 0
             /\ answers' = [answers EXCEPT ![c] = 1]
             /\ UNCHANGED <<cases, evidence>>

Next == \E c \in Campaigns : OpenCase(c) \/ Gather(c) \/ Answer(c)

Spec == Init /\ [][Next]_vars

=============================================================================
