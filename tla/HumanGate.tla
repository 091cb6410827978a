----------------------------- MODULE HumanGate ------------------------------
(* What the response side of the platform promises, with no workers, messages *)
(* or database: an action that changes anything runs only if the policy lets  *)
(* it run alone or an authorised human has approved it, a human grant is never*)
(* forgotten, an execution is never forgotten, and an address leaves the      *)
(* block list only as the roll back of an executed action.  ActionGate is     *)
(* shown to implement it.                                                     *)
CONSTANTS Proposals, Users, Addresses, TierSet,
          AutoTier,               \* the tier that needs no human
          MayActFor,              \* <<user, proposal>>: the user may decide it
          Touches                 \* <<proposal, address>>: executing it blocks that

VARIABLES tier,       \* tier of each proposal, "none" before it exists
          grants,     \* <<proposal, user>> approvals on record
          executed,   \* proposals on record as executed
          blocked     \* addresses the host firewall drops

vars == <<tier, grants, executed, blocked>>

Init == /\ tier = [p \in Proposals |-> "none"]
        /\ grants = {}
        /\ executed = {}
        /\ blocked = {}

\* May proposal p take effect?
Cleared(p) == \/ tier[p] = AutoTier
              \/ \E u \in Users : <<p, u>> \in grants

Propose(p) == /\ tier[p] = "none"
              /\ \E t \in TierSet : tier' = [tier EXCEPT ![p] = t]
              /\ UNCHANGED <<grants, executed, blocked>>

Grant(p, u) == /\ tier[p] \notin {"none", AutoTier}
               /\ <<u, p>> \in MayActFor
               /\ grants' = grants \union {<<p, u>>}
               /\ UNCHANGED <<tier, executed, blocked>>

\* The effect, and its record, which may come in either order.
Block(p, a) == /\ Cleared(p)
               /\ <<p, a>> \in Touches
               /\ blocked' = blocked \union {a}
               /\ UNCHANGED <<tier, grants, executed>>

Execute(p) == /\ Cleared(p)
              /\ executed' = executed \union {p}
              /\ UNCHANGED <<tier, grants, blocked>>

Unblock(p, a) == /\ p \in executed
                 /\ <<p, a>> \in Touches
                 /\ blocked' = blocked \ {a}
                 /\ UNCHANGED <<tier, grants, executed>>

Next == \E p \in Proposals :
          \/ Propose(p)
          \/ \E u \in Users : Grant(p, u)
          \/ \E a \in Addresses : Block(p, a) \/ Unblock(p, a)
          \/ Execute(p)

Spec == Init /\ [][Next]_vars

=============================================================================
