---------------------------- MODULE MCActionGate ----------------------------
(* Instances of ActionGate for TLC: the incidents of each run.               *)
EXTENDS ActionGate, TLC

CONSTANTS i1, i2, i3,   \* incidents
          t1, t2,       \* tenants
          a1, a2        \* addresses

BlockCase(t, s, a) == [tenant |-> t, action |-> "block_ip", severity |-> s, ip |-> a]
NotifyCase(t, a) == [tenant |-> t, action |-> "notify", severity |-> "medium", ip |-> a]

\* One address attacks two tenants served by the same host, one critically.
SharedAddress == (i1 :> BlockCase(t1, "high", a1)) @@ (i2 :> BlockCase(t2, "critical", a1))

\* ... and an incident that was not confirmed, answered automatically.
SharedAndNotify == SharedAddress @@ (i3 :> NotifyCase(t1, a1))

OneBlock == i1 :> BlockCase(t1, "high", a1)

\* One admin and one security holder of t1.
Homes == [u \in Users |-> t1]

\* Every request slot is served by the same replica.
OneHome == [q \in Requests |-> CHOOSE r \in Replicas : TRUE]

\* Request slots served by the same replica are interchangeable.
RequestSymmetry == Permutations(Requests)

=============================================================================
