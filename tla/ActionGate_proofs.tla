-------------------------- MODULE ActionGate_proofs --------------------------
(* Proofs about ActionGate, for any number of incidents, replicas, requests,  *)
(* users, tenants and addresses, with or without faults: the inductive        *)
(* invariant GateInv, the safety properties it implies, and the refinement of *)
(* HumanGate.  The module ActionGate_overlap builds on them.                    *)
EXTENDS ActionGate, TLAPS

USE DEF At, Goto, GotoPlain, Finish, Audit, Broadcast, BranchOn, AfterDecision,
        AfterCommit, Workers, Exists, Row

\* classify_action returns a tier, and never the automatic one for a block.
LEMMA PolicyTiers ==
  ASSUME NEW a, NEW s
  PROVE  /\ classify_action(a, s).tier \in Tiers
         /\ classify_action(a, s).tier # "none"
         /\ a = "block_ip" => classify_action(a, s).tier # "tier1_auto"
BY DEF classify_action, TierOf, Tiers, TIER1_ACTIONS, TIER2_ACTIONS, TIER3_ACTIONS, Reversible,
       KnownActions, Escalates

\* The cases of the incidents are well formed.
LEMMA CaseType ==
  ASSUME NEW p \in Proposals
  PROVE  /\ CaseOf(p) \in Cases
         /\ TenantOf(p) \in Tenants
         /\ CaseOf(p).ip \in Addresses \union {NoAddress}
         /\ CaseOf(p).ip # NoAddress => CaseOf(p).ip \in Addresses
         /\ TierFor(p) \in Tiers /\ TierFor(p) # "none"
         /\ CaseOf(p).action = "block_ip" => TierFor(p) # "tier1_auto"
<1>1. p[1] \in Incidents BY DEF Proposals
<1>2. CaseOf(p) \in Cases BY <1>1, GateAssumption DEF CaseOf
<1>3. /\ TenantOf(p) \in Tenants
      /\ CaseOf(p).ip \in Addresses \union {NoAddress}
      /\ CaseOf(p).ip # NoAddress => CaseOf(p).ip \in Addresses
  BY <1>2 DEF TenantOf, Cases
<1>4. QED BY <1>2, <1>3, PolicyTiers DEF TierFor

\* Every step a worker can be at is a step name.
LEMMA Steps ==
  /\ {"idle", "propose", "pub_proposed", "send_proposed", "ask", "decide",
      "pub_decision", "switch", "pub_kill"} \subseteq StepNames
  /\ {"read", "tenant", "blocked", "check", "insert", "commit", "pub_executed"}
       \subseteq StepNames
  /\ {"rb_check", "rb_delete", "rb_commit", "rb_audit"} \subseteq StepNames
BY DEF StepNames, ExecutePoints, RollbackPoints

\* The records a worker's local state can be.
LEMMA JobTypes ==
  /\ Idle \in Jobs
  /\ \A j \in Jobs : j.at \in StepNames /\ j.prop \in Proposals \union {NoProposal}
                     /\ j.by \in Users \union {Nobody} /\ j.approve \in BOOLEAN
                     /\ j.ok \in BOOLEAN /\ j.seen \in Results \union {NoResult}
                     /\ j.severity \in Severities /\ j.tenant \in Tenants \union {NoTenant}
  /\ \A j \in Jobs, s \in StepNames : [j EXCEPT !.at = s] \in Jobs
  /\ \A j \in Jobs, s \in StepNames, b \in BOOLEAN : [j EXCEPT !.at = s, !.ok = b] \in Jobs
  /\ \A p \in Proposals \union {NoProposal}, s \in StepNames :
       [Idle EXCEPT !.at = s, !.prop = p] \in Jobs
BY Steps DEF Idle, Jobs, Severities

\* Every worker runs in a replica.
LEMMA ReplicaType == \A w \in Workers : ReplicaOf(w) \in Replicas
BY GateAssumption DEF ReplicaOf

\* One rule more, one rule less: the chains still hold numbers of rules.
LEMMA RuleAdded ==
  ASSUME NEW c \in [Replicas -> [Addresses -> Nat]], NEW r \in Replicas, NEW a \in Addresses
  PROVE  [c EXCEPT ![r][a] = @ + 1] \in [Replicas -> [Addresses -> Nat]]
<1>1. [c[r] EXCEPT ![a] = @ + 1] \in [Addresses -> Nat] OBVIOUS
<1>2. QED BY <1>1

LEMMA RuleRemoved ==
  ASSUME NEW c \in [Replicas -> [Addresses -> Nat]], NEW r \in Replicas, NEW a \in Addresses,
         c[r][a] > 0
  PROVE  [c EXCEPT ![r][a] = @ - 1] \in [Replicas -> [Addresses -> Nat]]
<1>1. c[r] \in [Addresses -> Nat] /\ c[r][a] \in Nat /\ c[r][a] - 1 \in Nat OBVIOUS
<1>2. [c[r] EXCEPT ![a] = @ - 1] \in [Addresses -> Nat] BY <1>1
<1>3. QED BY <1>2

\* The rows an audit can add.
LEMMA RowTypes ==
  ASSUME NEW what \in RowKinds, NEW p \in Proposals \union {NoProposal},
         NEW u \in Users \union {Nobody}
  PROVE  Row(what, p, u) \in Rows
BY DEF Rows

\* One worker's new state is typed if the record it takes is.
LEMMA JobUpdate ==
  ASSUME job \in [Workers -> Jobs], NEW w \in Workers, NEW j \in Jobs,
         job' = [job EXCEPT ![w] = j]
  PROVE  job' \in [Workers -> Jobs]
OBVIOUS

LEMMA JobChoice ==
  ASSUME job \in [Workers -> Jobs], NEW w \in Workers, NEW j \in Jobs, NEW k \in Jobs,
         job' = [job EXCEPT ![w] = j] \/ job' = [job EXCEPT ![w] = k]
  PROVE  job' \in [Workers -> Jobs]
BY JobUpdate

-----------------------------------------------------------------------------
\* Steps preserve the types; the only help they need is that a worker between
\* its first and last step holds a proposal.
LEMMA TypeStep ==
  ASSUME TypeOK, \A w \in Workers : Knows(w), [Next]_vars
  PROVE  TypeOK'
<1> USE GateAssumption DEF TypeOK, dbVars, history
<1>a. \A w \in Workers : job[w] \in Jobs
  OBVIOUS
<1>b. \A w \in Workers : job[w].at \notin {"idle", "switch", "pub_kill"} => job[w].prop \in Proposals
  BY DEF Knows
<1>1. ASSUME NEW i \in Incidents, Classify(i) PROVE TypeOK'
  <2>1. [chan |-> "incidents.classified", inc |-> i, severity |-> Case[i].severity] \in Messages
    BY DEF Messages, Cases
  <2>2. QED BY <1>1, <2>1 DEF Classify
<1>2. ASSUME NEW r \in Replicas, Receive(r) PROVE TypeOK'
  <2>1. /\ Head(inbox[r]) \in Messages
        /\ Tail(inbox[r]) \in Seq(Messages)
    BY <1>2 DEF Receive
  <2>2. Head(inbox[r]).inc \in Incidents /\ Head(inbox[r]).severity \in Severities
    BY <2>1, <1>2 DEF Receive, Messages
  <2>3. <<Head(inbox[r]).inc, r>> \in Proposals BY <2>2 DEF Proposals
  <2>4. [Idle EXCEPT !.at = "propose", !.prop = <<Head(inbox[r]).inc, r>>,
                     !.severity = Head(inbox[r]).severity] \in Jobs
    BY <2>2, <2>3, Steps DEF Idle, Jobs
  <2>5. job' \in [Workers -> Jobs] BY <1>2, <2>4 DEF Receive
  <2>6. inbox' \in [Replicas -> Seq(Messages)] BY <1>2, <2>1 DEF Receive
  <2>7. QED BY <1>2, <2>5, <2>6 DEF Receive
<1>3. ASSUME NEW r \in Replicas, Propose(r) PROVE TypeOK'
  <2>1. job' \in [Workers -> Jobs] BY <1>3, <1>a, JobTypes, Steps DEF Propose
  <2>2. tier' \in [Proposals -> Tiers \union {"none"}] BY <1>3, PolicyTiers DEF Propose
  <2>3. QED BY <1>3, <2>1, <2>2 DEF Propose
<1>4. ASSUME NEW r \in Replicas, PublishProposed(r) PROVE TypeOK'
  <2>1. job' \in [Workers -> Jobs] BY <1>4, <1>a, JobTypes, Steps DEF PublishProposed
  <2>2. ledger' \subseteq Rows
    <3>1. job[r].prop \in Proposals BY <1>4, <1>b DEF PublishProposed
    <3>2. QED BY <3>1, RowTypes, <1>4 DEF PublishProposed, RowKinds
  <2>3. QED BY <1>4, <2>1, <2>2 DEF PublishProposed
<1>5. ASSUME NEW r \in Replicas, SendProposed(r) PROVE TypeOK'
  <2>1. job' \in [Workers -> Jobs] BY <1>5, <1>a, <1>b, JobTypes, Steps DEF SendProposed
  <2>2. [chan |-> "actions.proposed", prop |-> job[r].prop, severity |-> SeveritySent(r)]
          \in Messages
    BY <1>5, <1>a, <1>b, JobTypes DEF SendProposed, Messages, SeveritySent
  <2>3. QED BY <1>5, <2>1, <2>2 DEF SendProposed
<1>6. ASSUME NEW r \in Replicas, RequestApproval(r) PROVE TypeOK'
  <2>1. job' \in [Workers -> Jobs] BY <1>6, JobTypes DEF RequestApproval
  <2>2. QED BY <1>6, <2>1 DEF RequestApproval, Statuses
<1>7. ASSUME NEW r \in Replicas, GuardianRecheck(r) PROVE TypeOK'
  <2>1. /\ Head(inbox[r]) \in Messages
        /\ Tail(inbox[r]) \in Seq(Messages)
    BY <1>7 DEF GuardianRecheck
  <2>2. Head(inbox[r]).prop \in Proposals BY <2>1, <1>7 DEF GuardianRecheck, Messages
  <2>3. ledger' \subseteq Rows BY RowTypes, <1>7, <2>2 DEF GuardianRecheck, RowKinds
  <2>4. inbox' \in [Replicas -> Seq(Messages)] BY <1>7, <2>1 DEF GuardianRecheck
  <2>5. QED BY <1>7, <2>3, <2>4 DEF GuardianRecheck
<1>8. ASSUME NEW q \in Requests, NEW u \in Users, NEW p \in Proposals, NEW approve \in BOOLEAN,
             StartDecide(q, u, p, approve)
      PROVE  TypeOK'
  <2>1. job' \in [Workers -> Jobs]
    <3>1. [Idle EXCEPT !.at = "decide", !.prop = p, !.by = u, !.approve = approve] \in Jobs
      BY Steps DEF Jobs, Idle, Severities
    <3>2. QED BY <1>8, <3>1 DEF StartDecide
  <2>2. contested' \subseteq Proposals BY <1>8 DEF StartDecide
  <2>3. QED BY <1>8, <2>1, <2>2 DEF StartDecide
<1>9. ASSUME NEW q \in Requests, CommitDecision(q) PROVE TypeOK'
  <2>1. job' \in [Workers -> Jobs] BY <1>9, <1>a, JobTypes, Steps DEF CommitDecision
  <2>2. job[q].by \in Users \union {Nobody} BY <1>a, JobTypes
  <2>3. QED BY <1>9, <2>1, <2>2 DEF CommitDecision, Statuses
<1>10. ASSUME NEW q \in Requests, PublishDecision(q) PROVE TypeOK'
  <2>1. job' \in [Workers -> Jobs]
    <3>1. job[q].prop \in Proposals BY <1>10, <1>b DEF PublishDecision
    <3>2. [Idle EXCEPT !.at = "read", !.prop = job[q].prop] \in Jobs BY <3>1, JobTypes, Steps
    <3>3. \/ job' = [job EXCEPT ![q] = [Idle EXCEPT !.at = "read", !.prop = job[q].prop]]
          \/ job' = [job EXCEPT ![q] = Idle]
      BY <1>10 DEF PublishDecision
    <3>4. Idle \in Jobs BY JobTypes
    <3>5. q \in Workers BY DEF Workers
    <3>6. QED BY <3>2, <3>3, <3>4, <3>5, JobChoice
  <2>2. job[q].by \in Users \union {Nobody} BY <1>a, JobTypes
  <2>3. ledger' \subseteq Rows
    <3>1. job[q].prop \in Proposals BY <1>10, <1>b DEF PublishDecision
    <3>2. QED BY <3>1, RowTypes, <1>10, <2>2 DEF PublishDecision, RowKinds
  <2>4. QED BY <1>10, <2>1, <2>3 DEF PublishDecision
<1>11. ASSUME NEW w \in Workers, ReadProposal(w) PROVE TypeOK'
  <2>1. [job[w] EXCEPT !.at = "tenant"] \in Jobs BY <1>a, JobTypes, Steps
  <2>2. \/ job' = [job EXCEPT ![w] = [job[w] EXCEPT !.at = "tenant"]]
        \/ job' = [job EXCEPT ![w] = Idle]
    BY <1>11 DEF ReadProposal
  <2>3. Idle \in Jobs BY JobTypes
  <2>4. job' \in [Workers -> Jobs] BY <2>1, <2>2, <2>3, JobChoice
  <2>5. disturbed' \subseteq Addresses BY <1>11 DEF ReadProposal, Begins
  <2>6. QED BY <1>11, <2>4, <2>5 DEF ReadProposal
<1>12. ASSUME NEW w \in Workers, ReadTenant(w) PROVE TypeOK'
  <2>1. UsesFirewall(job[w].prop) \in BOOLEAN BY DEF UsesFirewall
  <2>2. ASSUME NEW s \in StepNames, NEW b \in BOOLEAN,
               job' = [job EXCEPT ![w] = [job[w] EXCEPT !.at = s, !.ok = b]]
        PROVE  job' \in [Workers -> Jobs]
    BY <1>a, <2>2, JobTypes, JobUpdate
  <2>4. PICK s \in {"blocked", "check", "commit"}, b \in BOOLEAN :
          job' = [job EXCEPT ![w] = [job[w] EXCEPT !.at = s, !.ok = b]]
    BY <1>12, <2>1 DEF ReadTenant
  <2>5. job' \in [Workers -> Jobs] BY <2>2, <2>4, Steps
  <2>3. QED BY <1>12, <2>5 DEF ReadTenant
<1>13. ASSUME NEW w \in Workers, AuditBlocked(w) PROVE TypeOK'
  <2>1. ledger' \subseteq Rows
    <3>1. job[w].prop \in Proposals BY <1>13, <1>b DEF AuditBlocked
    <3>2. QED BY <3>1, RowTypes, <1>13 DEF AuditBlocked, RowKinds
  <2>2. QED BY <1>13, <2>1, JobTypes DEF AuditBlocked
<1>14. ASSUME NEW w \in Workers, CheckRule(w) PROVE TypeOK'
  <2>1. CaseOf(job[w].prop).ip \in Addresses BY <1>14 DEF CheckRule, Knows, TargetIs
  <2>2. PICK found \in BOOLEAN :
          /\ Probe(w, found)
          /\ job' = [job EXCEPT ![w].at = IF found THEN "commit" ELSE "insert", ![w].ok = found]
    BY <1>14 DEF CheckRule
  <2>3. disturbed' \subseteq Addresses BY <2>1, <2>2 DEF Probe
  <2>4. (IF found THEN "commit" ELSE "insert") \in StepNames BY <2>2, Steps
  <2>5. job' \in [Workers -> Jobs] BY <1>a, <2>2, <2>4, JobTypes
  <2>6. QED BY <1>14, <2>3, <2>5 DEF CheckRule
<1>15. ASSUME NEW w \in Workers, InsertRule(w) PROVE TypeOK'
  <2>1. job' \in [Workers -> Jobs]
    <3>1. [job[w] EXCEPT !.at = "commit"] \in Jobs BY <1>a, JobTypes, Steps
    <3>2. [job[w] EXCEPT !.at = "commit", !.ok = TRUE] \in Jobs BY <1>a, JobTypes, Steps
    <3>3. \/ job' = [job EXCEPT ![w] = [job[w] EXCEPT !.at = "commit"]]
          \/ job' = [job EXCEPT ![w] = [job[w] EXCEPT !.at = "commit", !.ok = TRUE]]
      BY <1>15 DEF InsertRule
    <3>4. QED BY <3>1, <3>2, <3>3, JobChoice
  <2>2. rules' \in [Replicas -> [Addresses -> Nat]]
    <3>1. CaseOf(job[w].prop).ip \in Addresses BY <1>15 DEF InsertRule, Knows, TargetIs
    <3>2. \/ rules' = [rules EXCEPT ![ReplicaOf(w)][CaseOf(job[w].prop).ip] = @ + 1]
          \/ rules' = rules
      BY <1>15 DEF InsertRule
    <3>3. ReplicaOf(w) \in Replicas /\ rules \in [Replicas -> [Addresses -> Nat]]
      BY ReplicaType
    <3> HIDE DEF TypeOK, GateAssumption
    <3>4. QED BY <3>1, <3>2, <3>3, RuleAdded
  <2>3. QED BY <1>15, <2>1, <2>2 DEF InsertRule
<1>16. ASSUME NEW w \in Workers, CommitExecution(w) PROVE TypeOK'
  <2>1. job' \in [Workers -> Jobs]
    BY <1>16, <1>b, JobTypes, Steps DEF CommitExecution
  <2>2. [success |-> job[w].ok, rolled_back |-> "no"] \in Results
    BY <1>a, JobTypes DEF Results
  <2>3. QED BY <1>16, <2>1, <2>2 DEF CommitExecution
<1>17. ASSUME NEW w \in Workers, PublishExecuted(w) PROVE TypeOK'
  <2>1. ledger' \subseteq Rows
    <3>1. job[w].prop \in Proposals BY <1>17, <1>b DEF PublishExecuted
    <3>2. QED BY <3>1, RowTypes, <1>17 DEF PublishExecuted, RowKinds
  <2>2. QED BY <1>17, <2>1, JobTypes DEF PublishExecuted
<1>18. ASSUME NEW q \in Requests, NEW u \in Users, NEW p \in Proposals, StartRollback(q, u, p)
       PROVE  TypeOK'
  <2>1. UsesFirewall(p) \in BOOLEAN BY DEF UsesFirewall
  <2>2. job' \in [Workers -> Jobs]
    BY <1>18, <2>1, Steps DEF StartRollback, Jobs, Idle, Severities
  <2>3. disturbed' \subseteq Addresses BY <1>18 DEF StartRollback, Begins
  <2>4. QED BY <1>18, <2>2, <2>3 DEF StartRollback
<1>19. ASSUME NEW q \in Requests, RollbackCheck(q) PROVE TypeOK'
  <2>1. [job[q] EXCEPT !.at = "rb_delete"] \in Jobs BY <1>a, JobTypes, Steps
  <2>2. [job[q] EXCEPT !.at = "rb_commit", !.ok = TRUE] \in Jobs BY <1>a, JobTypes, Steps
  <2>3. \/ job' = [job EXCEPT ![q] = [job[q] EXCEPT !.at = "rb_delete"]]
        \/ job' = [job EXCEPT ![q] = [job[q] EXCEPT !.at = "rb_commit", !.ok = TRUE]]
    BY <1>19 DEF RollbackCheck
  <2>4. job' \in [Workers -> Jobs] BY <2>1, <2>2, <2>3, JobChoice
  <2>5. disturbed' \subseteq Addresses
    <3>1. CaseOf(job[q].prop).ip \in Addresses BY <1>19 DEF RollbackCheck, Knows, TargetIs
    <3>2. QED BY <1>19, <3>1 DEF RollbackCheck, Probe
  <2>6. QED BY <1>19, <2>4, <2>5 DEF RollbackCheck
<1>20. ASSUME NEW q \in Requests, RollbackDelete(q) PROVE TypeOK'
  <2>1. job' \in [Workers -> Jobs]
    <3>1. [job[q] EXCEPT !.at = "rb_commit"] \in Jobs BY <1>a, JobTypes, Steps
    <3>2. [job[q] EXCEPT !.at = "rb_commit", !.ok = TRUE] \in Jobs BY <1>a, JobTypes, Steps
    <3>3. \/ job' = [job EXCEPT ![q] = [job[q] EXCEPT !.at = "rb_commit"]]
          \/ job' = [job EXCEPT ![q] = [job[q] EXCEPT !.at = "rb_commit", !.ok = TRUE]]
      BY <1>20 DEF RollbackDelete
    <3>4. QED BY <3>1, <3>2, <3>3, JobChoice
  <2>2. rules' \in [Replicas -> [Addresses -> Nat]]
    <3>1. CaseOf(job[q].prop).ip \in Addresses BY <1>20 DEF RollbackDelete, Knows, TargetIs
    <3>2. \/ /\ rules[ReplicaOf(q)][CaseOf(job[q].prop).ip] > 0
             /\ rules' = [rules EXCEPT ![ReplicaOf(q)][CaseOf(job[q].prop).ip] = @ - 1]
          \/ rules' = rules
      BY <1>20 DEF RollbackDelete, RulePresent
    <3>3. ReplicaOf(q) \in Replicas /\ rules \in [Replicas -> [Addresses -> Nat]]
      BY ReplicaType
    <3> HIDE DEF TypeOK, GateAssumption
    <3>4. QED BY <3>1, <3>2, <3>3, RuleRemoved
  <2>3. QED BY <1>20, <2>1, <2>2 DEF RollbackDelete
<1>21. ASSUME NEW q \in Requests, RollbackCommit(q) PROVE TypeOK'
  <2>1. job' \in [Workers -> Jobs]
    BY <1>21, <1>b, JobTypes, Steps DEF RollbackCommit
  <2>2. job[q].seen \in Results BY <1>21 DEF RollbackCommit, Knows
  <2>3. [job[q].seen EXCEPT !.rolled_back = IF job[q].ok THEN "true" ELSE "false"] \in Results
    BY <2>2 DEF Results
  <2>4. result' \in [Proposals -> Results \union {NoResult}] BY <1>21, <2>3 DEF RollbackCommit
  <2>5. QED BY <1>21, <2>1, <2>4 DEF RollbackCommit
<1>22. ASSUME NEW q \in Requests, RollbackAudit(q) PROVE TypeOK'
  <2>1. ledger' \subseteq Rows
    <3>1. job[q].prop \in Proposals BY <1>22, <1>b DEF RollbackAudit
    <3>2. QED BY <3>1, RowTypes, <1>22 DEF RollbackAudit, RowKinds
  <2>2. QED BY <1>22, <2>1, JobTypes DEF RollbackAudit
<1>23. ASSUME NEW q \in Requests, NEW u \in Users, NEW t \in Tenants, NEW engaged \in BOOLEAN,
              StartSwitch(q, u, t, engaged)
       PROVE  TypeOK'
  <2>1. [Idle EXCEPT !.at = "switch", !.tenant = t, !.approve = engaged, !.ok = kill[t] # engaged]
          \in Jobs
    BY Steps DEF Jobs, Idle, Severities
  <2>2. QED BY <1>23, <2>1 DEF StartSwitch
<1>30. ASSUME NEW q \in Requests, CommitSwitch(q) PROVE TypeOK'
  <2>1. job' \in [Workers -> Jobs]
    <3>1. [Idle EXCEPT !.at = "pub_kill"] \in Jobs BY Steps DEF Jobs, Idle, Severities
    <3>2. QED BY <1>30, <3>1 DEF CommitSwitch
  <2>2. kill' \in [Tenants -> BOOLEAN] BY <1>30, <1>a, JobTypes DEF CommitSwitch
  <2>3. through' \in [Tenants -> SUBSET Proposals]
    <3> DEFINE t == job[q].tenant
    <3>1. UnderWay(t) \subseteq Proposals BY DEF UnderWay
    <3>2. t \in Tenants BY <1>30 DEF CommitSwitch, Knows
    <3>3. {} \subseteq Proposals /\ through[t] \subseteq Proposals BY <3>2
    <3>4. \/ through' = through
          \/ \E S \in SUBSET Proposals : through' = [through EXCEPT ![t] = S]
      <4>1. through' = through \/
              through' = [through EXCEPT ![t] = IF ~job[q].approve THEN {}
                                                ELSE IF kill[t] THEN @ ELSE UnderWay(t)]
        BY <1>30 DEF CommitSwitch
      <4>2. (IF ~job[q].approve THEN {} ELSE IF kill[t] THEN through[t] ELSE UnderWay(t))
              \in SUBSET Proposals
        BY <3>1, <3>3
      <4>3. QED BY <4>1, <4>2
    <3>5. QED BY <3>4
  <2>4. QED BY <1>30, <2>1, <2>2, <2>3 DEF CommitSwitch
<1>24. ASSUME NEW q \in Requests, PublishKillSwitch(q) PROVE TypeOK'
  <2>1. ledger' \subseteq Rows BY RowTypes, <1>24 DEF PublishKillSwitch, RowKinds
  <2>2. QED BY <1>24, <2>1, JobTypes DEF PublishKillSwitch
<1>25. ASSUME NEW w \in Workers, Raise(w) PROVE TypeOK'
  <2>1. disturbed' \subseteq Addresses /\ unlogged' \subseteq Proposals BY <1>25 DEF Raise, Cut
  <2>2. QED BY <1>25, <2>1, JobTypes DEF Raise
<1>26. ASSUME NEW r \in Replicas, Crash(r) PROVE TypeOK'
  <2>1. job' \in [Workers -> Jobs] BY <1>26, JobTypes DEF Crash
  <2>2. inbox' \in [Replicas -> Seq(Messages)] BY <1>26 DEF Crash
  <2>3. disturbed' \subseteq Addresses /\ unlogged' \subseteq Proposals BY <1>26 DEF Crash, Cut
  <2>4. QED BY <1>26, <2>1, <2>2, <2>3 DEF Crash
<1>27. ASSUME NEW r \in Replicas, Restart(r) PROVE TypeOK'
  BY <1>27 DEF Restart
<1>28. ASSUME UNCHANGED vars PROVE TypeOK'
  BY <1>28 DEF vars
<1> HIDE DEF TypeOK, dbVars, history, GateAssumption
<1>29. QED
  BY <1>1, <1>2, <1>3, <1>4, <1>5, <1>6, <1>7, <1>8, <1>9, <1>10, <1>11, <1>12, <1>13, <1>14,
     <1>15, <1>16, <1>17, <1>18, <1>19, <1>20, <1>21, <1>22, <1>23, <1>24, <1>25, <1>26, <1>27,
     <1>28, <1>30
  DEF Next, LoopStep, ExecuteStep, RequestStep, HumanStep

-----------------------------------------------------------------------------
\* What no step takes back: the ledger only grows, a proposal keeps its tier,
\* an execution stays on record.
Grows == /\ ledger \subseteq ledger'
         /\ \A p \in Proposals : /\ Exists(p) => tier'[p] = tier[p]
                                 /\ executed[p] => executed'[p]

\* Clearance is never lost.
LEMMA ClearedGrows ==
  ASSUME Grows, NEW p \in Proposals
  PROVE  /\ Granted(p) => Granted(p)'
         /\ Exists(p) /\ Cleared(p) => Exists(p)' /\ Cleared(p)'
BY DEF Grows, Granted, Cleared, CanAccess, TenantOf, CaseOf

\* No step takes back a tier, a ledger row or an execution.
LEMMA StepGrows ==
  ASSUME TypeOK, \A w \in Workers : Knows(w), \A p \in Proposals : Consistent(p), [Next]_vars
  PROVE  Grows
<1> USE DEF Grows, dbVars, history
<1>a. tier \in [Proposals -> Tiers \union {"none"}] /\ executed \in [Proposals -> BOOLEAN]
  BY DEF TypeOK
<1>1. ASSUME NEW r \in Replicas, Propose(r) PROVE Grows
  <2>1. job[r].prop \in Proposals BY <1>1 DEF Propose, Knows
  <2>2. tier[job[r].prop] \in {"none", TierFor(job[r].prop)} BY <2>1 DEF Consistent
  <2>3. tier' = [tier EXCEPT ![job[r].prop] = TierFor(job[r].prop)]
    BY <1>1 DEF Propose, TierFor, Knows
  <2>4. QED BY <1>1, <1>a, <2>1, <2>2, <2>3 DEF Propose
<1>2. ASSUME NEW r \in Replicas, LoopStep(r), ~Propose(r) PROVE Grows
  BY <1>2 DEF LoopStep, Receive, PublishProposed, SendProposed, RequestApproval, GuardianRecheck
<1>3. ASSUME NEW w \in Workers, CommitExecution(w) PROVE Grows
  BY <1>3, <1>a DEF CommitExecution
<1>4. ASSUME NEW w \in Workers, ExecuteStep(w), ~CommitExecution(w) PROVE Grows
  BY <1>4 DEF ExecuteStep, ReadProposal, ReadTenant, AuditBlocked, CheckRule, InsertRule,
              PublishExecuted
<1>5. ASSUME NEW q \in Requests, RequestStep(q) PROVE Grows
  BY <1>5 DEF RequestStep, CommitDecision, PublishDecision, RollbackCheck, RollbackDelete,
              RollbackCommit, RollbackAudit, CommitSwitch, PublishKillSwitch
<1>6. ASSUME NEW q \in Requests, NEW u \in Users, HumanStep(q, u) PROVE Grows
  BY <1>6 DEF HumanStep, StartDecide, StartRollback, StartSwitch
<1>7. ASSUME NEW i \in Incidents, Classify(i) PROVE Grows
  BY <1>7 DEF Classify
<1>8. ASSUME NEW r \in Replicas, Crash(r) \/ Restart(r) PROVE Grows
  BY <1>8 DEF Crash, Restart
<1>9. ASSUME NEW w \in Workers, Raise(w) PROVE Grows
  BY <1>9 DEF Raise
<1>10. ASSUME UNCHANGED vars PROVE Grows
  BY <1>10 DEF vars
<1> HIDE DEF Grows
<1>11. QED
  BY <1>1, <1>2, <1>3, <1>4, <1>5, <1>6, <1>7, <1>8, <1>9, <1>10 DEF Next

\* A worker that does not move knows what it knew.
LEMMA KnowsGrows ==
  ASSUME Grows, NEW w, Knows(w), job'[w] = job[w]
  PROVE  Knows(w)'
<1> DEFINE p == job[w].prop
<1>1. p' = p OBVIOUS
<1>2. p \in Proposals /\ Exists(p) => tier'[p] = tier[p] BY DEF Grows
<1>3. p \in Proposals /\ executed[p] => executed'[p] BY DEF Grows
<1>4. p \in Proposals /\ Exists(p) /\ Cleared(p) => Cleared(p)' BY ClearedGrows
<1>5. /\ CanAccess(job[w].by, TenantOf(p))' = CanAccess(job[w].by, TenantOf(p))
      /\ TargetIs(p, CaseOf(p).ip)' = TargetIs(p, CaseOf(p).ip)
      /\ CaseOf(p)' = CaseOf(p)
  BY DEF CanAccess, TenantOf, CaseOf, TargetIs
<1>6. job[w].at \in ExecutePoints \union RollbackPoints =>
        job[w].at \notin {"idle", "switch", "pub_kill"}
  BY DEF ExecutePoints, RollbackPoints
<1>7. QED BY <1>1, <1>2, <1>3, <1>4, <1>5, <1>6 DEF Knows

\* An idle worker knows nothing.
LEMMA KnowsIdle ==
  ASSUME NEW w, job'[w] = Idle
  PROVE  Knows(w)'
BY DEF Knows, Idle, ExecutePoints, RollbackPoints

\* A worker that goes on executing its proposal still knows that it is cleared.
LEMMA KnowsExecuting ==
  ASSUME Grows, NEW w, Knows(w), job[w].at \in ExecutePoints, job'[w].at \in ExecutePoints,
         job'[w].prop = job[w].prop,
         job'[w].at \in {"check", "insert"} => TargetIs(job[w].prop, CaseOf(job[w].prop).ip)
  PROVE  Knows(w)'
<1> DEFINE p == job[w].prop
<1>1. p \in Proposals /\ Exists(p) /\ Cleared(p)
  BY DEF Knows, ExecutePoints
<1>2. Exists(p)' /\ Cleared(p)' BY <1>1, ClearedGrows
<1>3. job'[w].at \in {"check", "insert"} => TargetIs(p, CaseOf(p).ip)'
  BY DEF TargetIs, CaseOf
<1>4. job'[w].at \notin {"idle", "switch", "pub_kill", "propose", "pub_proposed", "send_proposed",
                         "ask", "decide", "pub_decision", "rb_check", "rb_delete", "rb_commit", "rb_audit"}
  BY DEF ExecutePoints
<1>5. QED BY <1>1, <1>2, <1>3, <1>4 DEF Knows, RollbackPoints

\* The same for a worker that goes on rolling its proposal back.
LEMMA KnowsRollingBack ==
  ASSUME Grows, NEW w, Knows(w), job[w].at \in RollbackPoints, job'[w].at \in RollbackPoints,
         job'[w].prop = job[w].prop,
         job'[w].at # "rb_audit" => job'[w].seen \in Results,
         job'[w].at \in {"rb_check", "rb_delete"} =>
           TargetIs(job[w].prop, CaseOf(job[w].prop).ip)
  PROVE  Knows(w)'
<1> DEFINE p == job[w].prop
<1>1. p \in Proposals /\ executed[p]
  BY DEF Knows, RollbackPoints
<1>2. executed'[p] BY <1>1 DEF Grows
<1>3. job'[w].at \in {"rb_check", "rb_delete"} => TargetIs(p, CaseOf(p).ip)'
  BY DEF TargetIs, CaseOf
<1>4. job'[w].at \notin {"idle", "switch", "pub_kill", "propose", "pub_proposed", "send_proposed",
                         "ask", "decide", "pub_decision", "read", "tenant", "blocked", "check", "insert",
                         "commit", "pub_executed"}
  BY DEF RollbackPoints
<1>5. QED BY <1>1, <1>2, <1>3, <1>4 DEF Knows, ExecutePoints, Results

\* Every message on its way carries the severity its incident was classified with.
InboxCarried == \A r \in Replicas : \A k \in DOMAIN inbox[r] : Carried(inbox[r][k])

LEMMA HeadCarried ==
  ASSUME TypeOK, InboxCarried, NEW r \in Replicas, inbox[r] # <<>>
  PROVE  Carried(Head(inbox[r]))
<1>1. inbox[r] \in Seq(Messages) BY DEF TypeOK
<1>2. 1 \in DOMAIN inbox[r] /\ Head(inbox[r]) = inbox[r][1] BY <1>1
<1>3. QED BY <1>2 DEF InboxCarried

\* What is left of a queue after its head, or is added at its end, carries it.
LEMMA CarriedQueues ==
  ASSUME NEW s \in Seq(Messages), \A k \in DOMAIN s : Carried(s[k])
  PROVE  /\ s # <<>> => \A k \in DOMAIN Tail(s) : Carried(Tail(s)[k])
         /\ \A m : Carried(m) => \A k \in DOMAIN Append(s, m) : Carried(Append(s, m)[k])
<1>1. ASSUME s # <<>>, NEW k \in DOMAIN Tail(s) PROVE Carried(Tail(s)[k])
  <2>1. k + 1 \in DOMAIN s /\ Tail(s)[k] = s[k + 1] BY <1>1
  <2>2. QED BY <2>1
<1>2. ASSUME NEW m, Carried(m), NEW k \in DOMAIN Append(s, m) PROVE Carried(Append(s, m)[k])
  <2>1. \/ k \in DOMAIN s /\ Append(s, m)[k] = s[k]
        \/ Append(s, m)[k] = m
    OBVIOUS
  <2>2. QED BY <1>2, <2>1
<1>3. QED BY <1>1, <1>2

\* A published message that carries it leaves every queue so.
LEMMA CarriedBroadcast ==
  ASSUME TypeOK, InboxCarried, NEW m, Carried(m), Broadcast(m)
  PROVE  InboxCarried'
<1> SUFFICES ASSUME NEW r \in Replicas, NEW k \in DOMAIN inbox'[r] PROVE Carried(inbox'[r][k])
  BY DEF InboxCarried, Carried, CaseOf
<1>1. inbox[r] \in Seq(Messages) /\ \A j \in DOMAIN inbox[r] : Carried(inbox[r][j])
  BY DEF TypeOK, InboxCarried
<1>2. inbox'[r] = inbox[r] \/ inbox'[r] = Append(inbox[r], m) BY DEF TypeOK, Broadcast
<1>3. \A j \in DOMAIN inbox'[r] : Carried(inbox'[r][j]) BY <1>1, <1>2, CarriedQueues
<1>4. QED BY <1>3

\* No step puts a message on a queue that does not carry it.
LEMMA CarriedStep ==
  ASSUME TypeOK, \A w \in Workers : Knows(w), InboxCarried, [Next]_vars
  PROVE  InboxCarried'
<1>u. inbox' = inbox => InboxCarried' BY DEF InboxCarried, Carried, CaseOf
<1>1. ASSUME NEW i \in Incidents, Classify(i) PROVE InboxCarried'
  <2> DEFINE m == [chan |-> "incidents.classified", inc |-> i, severity |-> Case[i].severity]
  <2>1. Carried(m) BY DEF Carried
  <2>2. Broadcast(m) BY <1>1 DEF Classify
  <2>3. QED BY <2>1, <2>2, CarriedBroadcast
<1>2. ASSUME NEW r \in Replicas, SendProposed(r) PROVE InboxCarried'
  <2> DEFINE m == [chan |-> "actions.proposed", prop |-> job[r].prop, severity |-> SeveritySent(r)]
  <2>1. job[r].severity = CaseOf(job[r].prop).severity BY <1>2 DEF SendProposed, Knows
  <2>2. Carried(m) BY <2>1 DEF Carried, SeveritySent
  <2>3. Broadcast(m) BY <1>2 DEF SendProposed
  <2>4. QED BY <2>2, <2>3, CarriedBroadcast
<1>3. ASSUME NEW r \in Replicas, Receive(r) \/ GuardianRecheck(r) PROVE InboxCarried'
  <2> SUFFICES ASSUME NEW x \in Replicas, NEW k \in DOMAIN inbox'[x] PROVE Carried(inbox'[x][k])
    BY DEF InboxCarried, Carried, CaseOf
  <2>1. inbox[x] \in Seq(Messages) /\ \A j \in DOMAIN inbox[x] : Carried(inbox[x][j])
    BY DEF TypeOK, InboxCarried
  <2>2. inbox'[x] = inbox[x] \/ (inbox[x] # <<>> /\ inbox'[x] = Tail(inbox[x]))
    BY <1>3 DEF Receive, GuardianRecheck, TypeOK
  <2>3. \A j \in DOMAIN inbox'[x] : Carried(inbox'[x][j]) BY <2>1, <2>2, CarriedQueues
  <2>4. QED BY <2>3
<1>4. ASSUME NEW r \in Replicas, Crash(r) PROVE InboxCarried'
  <2> SUFFICES ASSUME NEW x \in Replicas, NEW k \in DOMAIN inbox'[x] PROVE Carried(inbox'[x][k])
    BY DEF InboxCarried, Carried, CaseOf
  <2>1. inbox'[x] = inbox[x] \/ inbox'[x] = <<>> BY <1>4 DEF Crash, TypeOK
  <2>2. k \in DOMAIN inbox[x] /\ inbox'[x][k] = inbox[x][k] BY <2>1
  <2>3. QED BY <2>2 DEF InboxCarried
<1>5. ASSUME \/ \E r \in Replicas : \/ Propose(r) \/ PublishProposed(r) \/ RequestApproval(r)
                                    \/ Restart(r)
             \/ \E w \in Workers : ExecuteStep(w) \/ Raise(w)
             \/ \E q \in Requests : RequestStep(q) \/ \E u \in Users : HumanStep(q, u)
             \/ UNCHANGED vars
      PROVE  InboxCarried'
  <2>1. ASSUME NEW r \in Replicas,
               Propose(r) \/ PublishProposed(r) \/ RequestApproval(r) \/ Restart(r)
        PROVE  inbox' = inbox
    BY <2>1 DEF Propose, PublishProposed, RequestApproval, Restart
  <2>2. ASSUME NEW w \in Workers, ExecuteStep(w) \/ Raise(w) PROVE inbox' = inbox
    BY <2>2 DEF ExecuteStep, ReadProposal, ReadTenant, AuditBlocked, CheckRule, InsertRule,
                CommitExecution, PublishExecuted, Raise
  <2>3. ASSUME NEW q \in Requests, RequestStep(q) PROVE inbox' = inbox
    BY <2>3 DEF RequestStep, CommitDecision, PublishDecision, RollbackCheck, RollbackDelete,
                RollbackCommit, RollbackAudit, CommitSwitch, PublishKillSwitch
  <2>4. ASSUME NEW q \in Requests, NEW u \in Users, HumanStep(q, u) PROVE inbox' = inbox
    BY <2>4 DEF HumanStep, StartDecide, StartRollback, StartSwitch
  <2>5. CASE UNCHANGED vars BY <2>5, <1>u DEF vars
  <2>6. QED BY <1>5, <1>u, <2>1, <2>2, <2>3, <2>4, <2>5
<1>6. QED BY <1>1, <1>2, <1>3, <1>4, <1>5 DEF Next, LoopStep

\* What the worker that moves knows next.  The steps that only end a handler
\* leave it idle; every other one is taken from what it knew before.
LEMMA KnowsStep ==
  ASSUME TypeOK, \A w \in Workers : Knows(w), \A p \in Proposals : Consistent(p), InboxCarried,
         [Next]_vars
  PROVE  \A w \in Workers : Knows(w)'
<1> SUFFICES ASSUME NEW v \in Workers PROVE Knows(v)'
  OBVIOUS
<1>g. Grows BY StepGrows
<1>t. /\ job \in [Workers -> Jobs]
      /\ tier \in [Proposals -> Tiers \union {"none"}]
      /\ executed \in [Proposals -> BOOLEAN]
  BY DEF TypeOK
<1>s. job'[v] = job[v] => Knows(v)' BY <1>g, KnowsGrows
<1>i. job'[v] = Idle => Knows(v)' BY KnowsIdle
<1>k. Knows(v) OBVIOUS
<1> USE DEF dbVars, history
<1>1. ASSUME NEW i \in Incidents, Classify(i) PROVE Knows(v)'
  BY <1>1, <1>s DEF Classify
<1>2. ASSUME NEW r \in Replicas, Receive(r) PROVE Knows(v)'
  <2>1. CASE v # r BY <1>2, <1>t, <1>s, <2>1 DEF Receive
  <2>2. CASE v = r
    <3> DEFINE m == Head(inbox[r])
    <3>1. job'[r] = [Idle EXCEPT !.at = "propose", !.prop = <<m.inc, r>>, !.severity = m.severity]
      BY <1>2, <1>t DEF Receive
    <3>2. m.inc \in Incidents
      BY <1>2 DEF Receive, TypeOK, Messages
    <3>3. job'[r].at = "propose" /\ job'[r].prop = <<m.inc, r>> /\ job'[r].severity = m.severity
      BY <3>1 DEF Idle
    <3>4. job'[r].prop \in Proposals BY <3>2, <3>3 DEF Proposals
    <3>5. m.severity = CaseOf(<<m.inc, r>>).severity
      BY <1>2, HeadCarried DEF Receive, Carried, CaseOf
    <3>6. job'[r].severity = CaseOf(job'[r].prop).severity BY <3>3, <3>5 DEF CaseOf
    <3>7. QED BY <2>2, <3>3, <3>4, <3>6 DEF Knows, CaseOf, ExecutePoints, RollbackPoints
  <2>3. QED BY <2>1, <2>2
<1>3. ASSUME NEW r \in Replicas, Propose(r) PROVE Knows(v)'
  <2>1. CASE v # r BY <1>3, <1>t, <1>s, <2>1 DEF Propose
  <2>2. CASE v = r
    <3>1. job'[r] = [job[r] EXCEPT !.at = "pub_proposed"] BY <1>3, <1>t DEF Propose
    <3>2. job[r].prop \in Proposals BY <1>3 DEF Propose, Knows
    <3>3. tier'[job[r].prop] # "none" BY <1>3, <1>t, <3>2, PolicyTiers DEF Propose
    <3>4. /\ job'[r].at = "pub_proposed" /\ job'[r].prop = job[r].prop
          /\ job'[r].severity = CaseOf(job[r].prop).severity
      BY <1>3, <3>1, <1>t DEF Jobs, Propose, Knows
    <3>5. QED BY <2>2, <3>2, <3>3, <3>4 DEF Knows, ExecutePoints, RollbackPoints, CaseOf
  <2>3. QED BY <2>1, <2>2
<1>4. ASSUME NEW r \in Replicas, PublishProposed(r) PROVE Knows(v)'
  <2>1. CASE v # r BY <1>4, <1>t, <1>s, <2>1 DEF PublishProposed
  <2>2. CASE v = r
    <3>1. job'[r] = [job[r] EXCEPT !.at = "send_proposed"] BY <1>4, <1>t DEF PublishProposed
    <3>2. job[r].prop \in Proposals /\ Exists(job[r].prop) BY <1>4 DEF PublishProposed, Knows
    <3>3. /\ job'[r].at = "send_proposed" /\ job'[r].prop = job[r].prop
          /\ job'[r].severity = CaseOf(job[r].prop).severity
      BY <1>4, <3>1, <1>t DEF Jobs, PublishProposed, Knows
    <3>4. tier' = tier BY <1>4 DEF PublishProposed
    <3>5. QED BY <2>2, <3>2, <3>3, <3>4 DEF Knows, ExecutePoints, RollbackPoints, CaseOf
  <2>3. QED BY <2>1, <2>2
<1>5. ASSUME NEW r \in Replicas, SendProposed(r) PROVE Knows(v)'
  <2>1. CASE v # r BY <1>5, <1>t, <1>s, <2>1 DEF SendProposed
  <2>2. CASE v = r
    <3>1. job'[r] = [Idle EXCEPT !.at = BranchOn(job[r].prop), !.prop = job[r].prop]
      BY <1>5, <1>t DEF SendProposed
    <3>2. job[r].prop \in Proposals /\ Exists(job[r].prop) BY <1>5 DEF SendProposed, Knows
    <3>3. job'[r].at = BranchOn(job[r].prop) /\ job'[r].prop = job[r].prop
      BY <3>1 DEF Idle
    <3>4. tier' = tier BY <1>5 DEF SendProposed
    <3>5. CASE tier[job[r].prop] = "tier1_auto"
      BY <2>2, <3>2, <3>3, <3>4, <3>5 DEF Knows, Cleared, ExecutePoints, RollbackPoints
    <3>6. CASE tier[job[r].prop] # "tier1_auto"
      BY <2>2, <3>2, <3>3, <3>4, <3>6 DEF Knows, ExecutePoints, RollbackPoints
    <3>7. QED BY <3>5, <3>6
  <2>3. QED BY <2>1, <2>2
<1>6. ASSUME NEW r \in Replicas, RequestApproval(r) PROVE Knows(v)'
  BY <1>6, <1>t, <1>s, <1>i DEF RequestApproval
<1>7. ASSUME NEW r \in Replicas, GuardianRecheck(r) PROVE Knows(v)'
  BY <1>7, <1>s DEF GuardianRecheck
<1>8. ASSUME NEW q \in Requests, NEW u \in Users, NEW p \in Proposals, NEW approve \in BOOLEAN,
             StartDecide(q, u, p, approve)
      PROVE  Knows(v)'
  <2>1. CASE v # q BY <1>8, <1>t, <1>s, <2>1 DEF StartDecide
  <2>2. CASE v = q
    <3>1. job'[q].at = "decide" /\ job'[q].prop = p /\ job'[q].by = u
      BY <1>8, <1>t DEF StartDecide, Idle
    <3>2. Exists(p) /\ tier[p] # "tier1_auto"
      BY <1>8 DEF StartDecide, Decidable, Consistent
    <3>3. CanAccess(u, TenantOf(p)) /\ tier' = tier BY <1>8 DEF StartDecide
    <3>4. QED
      BY <2>2, <3>1, <3>2, <3>3
      DEF Knows, CanAccess, TenantOf, CaseOf, ExecutePoints, RollbackPoints
  <2>3. QED BY <2>1, <2>2
<1>9. ASSUME NEW q \in Requests, CommitDecision(q) PROVE Knows(v)'
  <2>1. CASE v # q BY <1>9, <1>t, <1>s, <2>1 DEF CommitDecision
  <2>2. CASE v = q
    <3>1. job'[q] = [job[q] EXCEPT !.at = "pub_decision"] /\ tier' = tier
      BY <1>9, <1>t DEF CommitDecision
    <3>2. job'[q].at = "pub_decision" /\ job'[q].prop = job[q].prop /\ job'[q].by = job[q].by
      BY <3>1, <1>t DEF Jobs
    <3>3. /\ job[q].prop \in Proposals /\ Exists(job[q].prop)
          /\ tier[job[q].prop] # "tier1_auto"
          /\ job[q].by \in Users /\ CanAccess(job[q].by, TenantOf(job[q].prop))
      BY <1>9 DEF CommitDecision, Knows
    <3>4. QED
      BY <2>2, <3>1, <3>2, <3>3
      DEF Knows, CanAccess, TenantOf, CaseOf, ExecutePoints, RollbackPoints
  <2>3. QED BY <2>1, <2>2
<1>10. ASSUME NEW q \in Requests, PublishDecision(q) PROVE Knows(v)'
  <2>1. CASE v # q BY <1>10, <1>t, <1>s, <2>1 DEF PublishDecision
  <2>2. CASE v = q /\ ~job[q].approve BY <1>10, <1>t, <1>i, <2>2 DEF PublishDecision
  <2>3. CASE v = q /\ job[q].approve
    <3>1. job'[q].at = "read" /\ job'[q].prop = job[q].prop
      <4>1. job' = [job EXCEPT ![q] = [Idle EXCEPT !.at = "read", !.prop = job[q].prop]]
        BY <1>10, <2>3 DEF PublishDecision
      <4>2. QED BY <4>1, <1>t DEF Idle
    <3>2. /\ job[q].prop \in Proposals /\ Exists(job[q].prop)
          /\ job[q].by \in Users /\ CanAccess(job[q].by, TenantOf(job[q].prop))
      BY <1>10 DEF PublishDecision, Knows
    <3>3. Row("actions.approved", job[q].prop, job[q].by) \in ledger' /\ tier' = tier
      BY <1>10, <2>3 DEF PublishDecision
    <3>4. Cleared(job[q].prop)'
      BY <3>1, <3>2, <3>3 DEF Cleared, Granted, CanAccess, TenantOf, CaseOf
    <3>5. QED
      BY <2>3, <3>1, <3>2, <3>3, <3>4 DEF Knows, ExecutePoints, RollbackPoints
  <2>4. QED BY <2>1, <2>2, <2>3
<1>11. ASSUME NEW w \in Workers, ReadProposal(w) PROVE Knows(v)'
  <2>1. CASE v # w BY <1>11, <1>t, <1>s, <2>1 DEF ReadProposal
  <2>2. CASE v = w /\ executed[job[w].prop] BY <1>11, <1>t, <1>i, <2>2 DEF ReadProposal
  <2>3. CASE v = w /\ ~executed[job[w].prop]
    <3>1. job'[w] = [job[w] EXCEPT !.at = "tenant"] /\ job[w].at = "read"
      BY <1>11, <1>t, <2>3 DEF ReadProposal
    <3>2. job'[w].at = "tenant" /\ job'[w].prop = job[w].prop BY <3>1, <1>t DEF Jobs
    <3>3. QED BY <2>3, <3>1, <3>2, <1>g, KnowsExecuting DEF ExecutePoints
  <2>4. QED BY <2>1, <2>2, <2>3
<1>12. ASSUME NEW w \in Workers, ReadTenant(w) PROVE Knows(v)'
  <2>1. CASE v # w BY <1>12, <1>t, <1>s, <2>1 DEF ReadTenant
  <2>2. CASE v = w
    <3> DEFINE p == job[w].prop
    <3>1. p \in Proposals BY <1>12 DEF ReadTenant, Knows
    <3>2. /\ job[w].at = "tenant" /\ job'[w].prop = p
          /\ job'[w].at = IF Stopped(p) THEN "blocked"
                          ELSE IF Enforced(p) THEN "check" ELSE "commit"
      BY <1>12, <1>t DEF ReadTenant, Jobs
    <3>3. job'[w].at = "check" => TargetIs(p, CaseOf(p).ip)
      BY <3>1, <3>2, CaseType DEF Enforced, UsesFirewall, TargetIs
    <3>4. QED BY <2>2, <3>2, <3>3, <1>g, KnowsExecuting DEF ExecutePoints
  <2>3. QED BY <2>1, <2>2
<1>13. ASSUME NEW w \in Workers, AuditBlocked(w) PROVE Knows(v)'
  BY <1>13, <1>t, <1>s, <1>i DEF AuditBlocked
<1>14. ASSUME NEW w \in Workers, CheckRule(w) PROVE Knows(v)'
  <2>1. CASE v # w BY <1>14, <1>t, <1>s, <2>1 DEF CheckRule
  <2>2. CASE v = w
    <3>1. /\ job[w].at = "check" /\ job'[w].prop = job[w].prop
          /\ job'[w].at \in {"commit", "insert"}
      BY <1>14, <1>t DEF CheckRule, Jobs
    <3>2. TargetIs(job[w].prop, CaseOf(job[w].prop).ip) BY <3>1, <2>2, <1>k DEF Knows
    <3>3. QED BY <2>2, <3>1, <3>2, <1>g, KnowsExecuting DEF ExecutePoints
  <2>3. QED BY <2>1, <2>2
<1>15. ASSUME NEW w \in Workers, InsertRule(w) PROVE Knows(v)'
  <2>1. CASE v # w BY <1>15, <1>t, <1>s, <2>1 DEF InsertRule
  <2>2. CASE v = w
    <3>1. job[w].at = "insert" /\ job'[w].at = "commit" /\ job'[w].prop = job[w].prop
      BY <1>15, <1>t DEF InsertRule, Jobs
    <3>2. QED BY <2>2, <3>1, <1>g, KnowsExecuting DEF ExecutePoints
  <2>3. QED BY <2>1, <2>2
<1>16. ASSUME NEW w \in Workers, CommitExecution(w) PROVE Knows(v)'
  <2>1. CASE v # w BY <1>16, <1>t, <1>s, <2>1 DEF CommitExecution
  <2>2. CASE v = w
    <3>1. job[w].at = "commit" /\ job'[w].at = "pub_executed" /\ job'[w].prop = job[w].prop
      BY <1>16, <1>t DEF CommitExecution, Idle
    <3>2. QED BY <2>2, <3>1, <1>g, KnowsExecuting DEF ExecutePoints
  <2>3. QED BY <2>1, <2>2
<1>17. ASSUME NEW w \in Workers, PublishExecuted(w) PROVE Knows(v)'
  BY <1>17, <1>t, <1>s, <1>i DEF PublishExecuted
<1>18. ASSUME NEW q \in Requests, NEW u \in Users, NEW p \in Proposals, StartRollback(q, u, p)
       PROVE  Knows(v)'
  <2>1. CASE v # q BY <1>18, <1>t, <1>s, <2>1 DEF StartRollback
  <2>2. CASE v = q
    <3>1. /\ job'[q].prop = p /\ job'[q].seen = result[p]
          /\ job'[q].at = IF Enforced(p) THEN "rb_check" ELSE "rb_commit"
      BY <1>18, <1>t DEF StartRollback, Idle
    <3>2. executed[p] /\ result[p] \in Results
      BY <1>18 DEF StartRollback, Rollable, Consistent
    <3>3. executed'[p] BY <3>2, <1>g DEF Grows
    <3>4. job'[q].at = "rb_check" => TargetIs(p, CaseOf(p).ip)'
      BY <3>1, CaseType DEF Enforced, UsesFirewall, TargetIs, CaseOf
    <3>5. QED BY <2>2, <3>1, <3>2, <3>3, <3>4 DEF Knows, ExecutePoints, RollbackPoints, Results
  <2>3. QED BY <2>1, <2>2
<1>19. ASSUME NEW q \in Requests, RollbackCheck(q) PROVE Knows(v)'
  <2>1. CASE v # q BY <1>19, <1>t, <1>s, <2>1 DEF RollbackCheck
  <2>2. CASE v = q
    <3>1. /\ job[q].at = "rb_check" /\ job'[q].prop = job[q].prop
          /\ job'[q].at \in {"rb_delete", "rb_commit"} /\ job'[q].seen = job[q].seen
      BY <1>19, <1>t DEF RollbackCheck, Jobs
    <3>2. /\ TargetIs(job[q].prop, CaseOf(job[q].prop).ip)
          /\ job[q].seen \in Results
      BY <3>1, <2>2, <1>k DEF Knows
    <3>3. QED BY <2>2, <3>1, <3>2, <1>g, KnowsRollingBack DEF RollbackPoints
  <2>3. QED BY <2>1, <2>2
<1>20. ASSUME NEW q \in Requests, RollbackDelete(q) PROVE Knows(v)'
  <2>1. CASE v # q BY <1>20, <1>t, <1>s, <2>1 DEF RollbackDelete
  <2>2. CASE v = q
    <3>1. /\ job[q].at = "rb_delete" /\ job'[q].prop = job[q].prop
          /\ job'[q].at = "rb_commit" /\ job'[q].seen = job[q].seen
      BY <1>20, <1>t DEF RollbackDelete, Jobs
    <3>2. job[q].seen \in Results BY <3>1, <2>2, <1>k DEF Knows
    <3>3. QED BY <2>2, <3>1, <3>2, <1>g, KnowsRollingBack DEF RollbackPoints
  <2>3. QED BY <2>1, <2>2
<1>21. ASSUME NEW q \in Requests, RollbackCommit(q) PROVE Knows(v)'
  <2>1. CASE v # q BY <1>21, <1>t, <1>s, <2>1 DEF RollbackCommit
  <2>2. CASE v = q
    <3>1. job[q].at = "rb_commit" /\ job'[q].prop = job[q].prop /\ job'[q].at = "rb_audit"
      BY <1>21, <1>t DEF RollbackCommit, Idle
    <3>2. QED BY <2>2, <3>1, <1>g, KnowsRollingBack DEF RollbackPoints
  <2>3. QED BY <2>1, <2>2
<1>22. ASSUME NEW q \in Requests, RollbackAudit(q) PROVE Knows(v)'
  BY <1>22, <1>t, <1>s, <1>i DEF RollbackAudit
<1>23. ASSUME NEW q \in Requests, NEW u \in Users, NEW t \in Tenants, NEW engaged \in BOOLEAN,
              StartSwitch(q, u, t, engaged)
       PROVE  Knows(v)'
  <2>1. CASE v # q BY <1>23, <1>t, <1>s, <2>1 DEF StartSwitch
  <2>2. CASE v = q
    <3>1. job'[q].at = "switch" /\ job'[q].tenant = t BY <1>23, <1>t DEF StartSwitch, Idle
    <3>2. QED BY <2>2, <3>1 DEF Knows, ExecutePoints, RollbackPoints
  <2>3. QED BY <2>1, <2>2
<1>30. ASSUME NEW q \in Requests, CommitSwitch(q) PROVE Knows(v)'
  <2>1. CASE v # q BY <1>30, <1>t, <1>s, <2>1 DEF CommitSwitch
  <2>2. CASE v = q
    <3>1. job'[q].at = "pub_kill" BY <1>30, <1>t DEF CommitSwitch, Idle
    <3>2. QED BY <2>2, <3>1 DEF Knows, ExecutePoints, RollbackPoints
  <2>3. QED BY <2>1, <2>2
<1>24. ASSUME NEW q \in Requests, PublishKillSwitch(q) PROVE Knows(v)'
  BY <1>24, <1>t, <1>s, <1>i DEF PublishKillSwitch
<1>25. ASSUME NEW w \in Workers, Raise(w) PROVE Knows(v)'
  BY <1>25, <1>t, <1>s, <1>i DEF Raise
<1>26. ASSUME NEW r \in Replicas, Crash(r) PROVE Knows(v)'
  BY <1>26, <1>t, <1>s, <1>i DEF Crash
<1>27. ASSUME NEW r \in Replicas, Restart(r) PROVE Knows(v)'
  BY <1>27, <1>s DEF Restart
<1>28. ASSUME UNCHANGED vars PROVE Knows(v)'
  BY <1>28, <1>s DEF vars
<1>29. QED
  BY <1>1, <1>2, <1>3, <1>4, <1>5, <1>6, <1>7, <1>8, <1>9, <1>10, <1>11, <1>12, <1>13, <1>14,
     <1>15, <1>16, <1>17, <1>18, <1>19, <1>20, <1>21, <1>22, <1>23, <1>24, <1>25, <1>26, <1>27,
     <1>28, <1>30
  DEF Next, LoopStep, ExecuteStep, RequestStep, HumanStep

-----------------------------------------------------------------------------
\* The rows of a proposal stay consistent while they are not written.
LEMMA ConsistentGrows ==
  ASSUME Grows, NEW p \in Proposals, Consistent(p), tier'[p] = tier[p],
         status'[p] = status[p], executed'[p] = executed[p],
         result'[p] = result[p]
  PROVE  Consistent(p)'
<1>1. TierFor(p)' = TierFor(p)
  BY DEF TierFor, CaseOf, classify_action, TierOf, Reversible, Escalates
<1>2. Exists(p) /\ Cleared(p) => Exists(p)' /\ Cleared(p)' BY ClearedGrows
<1>3. QED BY <1>1, <1>2 DEF Consistent, Results

\* Every step leaves every proposal's rows consistent; five of them write one.
LEMMA ConsistentStep ==
  ASSUME TypeOK, \A w \in Workers : Knows(w), \A p \in Proposals : Consistent(p), [Next]_vars
  PROVE  \A p \in Proposals : Consistent(p)'
<1> SUFFICES ASSUME NEW p \in Proposals PROVE Consistent(p)'
  OBVIOUS
<1>g. Grows BY StepGrows
<1>c. Consistent(p) OBVIOUS
<1>t. /\ tier \in [Proposals -> Tiers \union {"none"}]
      /\ executed \in [Proposals -> BOOLEAN]
      /\ status \in [Proposals -> Statuses]
      /\ result \in [Proposals -> Results \union {NoResult}]
      /\ job \in [Workers -> Jobs]
  BY DEF TypeOK
<1>s. /\ tier'[p] = tier[p] /\ status'[p] = status[p]
      /\ executed'[p] = executed[p] /\ result'[p] = result[p]
      => Consistent(p)'
  BY <1>g, <1>c, ConsistentGrows
<1>r. TierFor(p)' = TierFor(p)
  BY DEF TierFor, CaseOf, classify_action, TierOf, Reversible, Escalates
<1>e. Exists(p) /\ Cleared(p) => Exists(p)' /\ Cleared(p)' BY <1>g, ClearedGrows
<1> USE DEF dbVars, history
<1>1. ASSUME NEW r \in Replicas, Propose(r) PROVE Consistent(p)'
  <2>1. CASE p # job[r].prop BY <1>1, <1>t, <1>s, <2>1 DEF Propose
  <2>2. CASE p = job[r].prop
    <3>1. tier'[p] = TierFor(p) BY <1>1, <1>t, <2>2 DEF Propose, TierFor, Knows
    <3>2. TierFor(p) # "none" BY CaseType
    <3>3. CASE tier[p] = TierFor(p) BY <1>1, <3>1, <3>3, <1>s DEF Propose
    <3>4. CASE tier[p] = "none"
      <4>1. status[p] = "none" /\ ~executed[p] BY <1>c, <3>4 DEF Consistent
      <4>2. status'[p] = "none" /\ ~executed'[p] BY <1>1, <4>1 DEF Propose
      <4>3. QED BY <3>1, <4>2, <1>r DEF Consistent
    <3>5. QED BY <3>3, <3>4, <1>c DEF Consistent
  <2>3. QED BY <2>1, <2>2
<1>2. ASSUME NEW r \in Replicas, RequestApproval(r) PROVE Consistent(p)'
  <2>1. CASE p # job[r].prop BY <1>2, <1>t, <1>s, <2>1 DEF RequestApproval
  <2>2. CASE p = job[r].prop
    <3>1. Exists(p) /\ tier[p] # "tier1_auto" BY <1>2, <2>2 DEF RequestApproval, Knows
    <3>2. tier' = tier /\ executed' = executed /\ result' = result BY <1>2 DEF RequestApproval
    <3>3. QED BY <3>1, <3>2, <1>c, <1>e, <1>r DEF Consistent, Results
  <2>3. QED BY <2>1, <2>2
<1>3. ASSUME NEW q \in Requests, CommitDecision(q) PROVE Consistent(p)'
  <2>1. CASE p # job[q].prop BY <1>3, <1>t, <1>s, <2>1 DEF CommitDecision
  <2>2. CASE p = job[q].prop
    <3>1. Exists(p) /\ tier[p] # "tier1_auto" BY <1>3, <2>2 DEF CommitDecision, Knows
    <3>2. tier' = tier /\ executed' = executed /\ result' = result BY <1>3 DEF CommitDecision
    <3>3. QED BY <3>1, <3>2, <1>c, <1>e, <1>r DEF Consistent, Results
  <2>3. QED BY <2>1, <2>2
<1>4. ASSUME NEW w \in Workers, CommitExecution(w) PROVE Consistent(p)'
  <2>1. CASE p # job[w].prop BY <1>4, <1>t, <1>s, <2>1 DEF CommitExecution
  <2>2. CASE p = job[w].prop
    <3>1. Exists(p) /\ Cleared(p) BY <1>4, <2>2 DEF CommitExecution, Knows, ExecutePoints
    <3>2. tier' = tier /\ status' = status BY <1>4 DEF CommitExecution
    <3>3. job[w].ok \in BOOLEAN BY <1>t, JobTypes
    <3>4. result'[p] = [success |-> job[w].ok, rolled_back |-> "no"]
      BY <1>4, <1>t, <2>2 DEF CommitExecution
    <3>5. result'[p] \in Results BY <3>3, <3>4 DEF Results
    <3>6. QED BY <3>1, <3>2, <3>5, <1>c, <1>e, <1>r DEF Consistent, Results
  <2>3. QED BY <2>1, <2>2
<1>5. ASSUME NEW q \in Requests, RollbackCommit(q) PROVE Consistent(p)'
  <2>1. CASE p # job[q].prop BY <1>5, <1>t, <1>s, <2>1 DEF RollbackCommit
  <2>2. CASE p = job[q].prop
    <3>1. job[q].seen \in Results BY <1>5 DEF RollbackCommit, Knows
    <3>2. result'[p] = [job[q].seen EXCEPT !.rolled_back = IF job[q].ok THEN "true" ELSE "false"]
      BY <1>5, <1>t, <2>2 DEF RollbackCommit
    <3>3. result'[p] \in Results BY <3>1, <3>2 DEF Results
    <3>4. tier' = tier /\ status' = status /\ executed' = executed BY <1>5 DEF RollbackCommit
    <3>5. QED BY <3>3, <3>4, <1>c, <1>e, <1>r DEF Consistent, Results
  <2>3. QED BY <2>1, <2>2
<1>6. ASSUME NEW r \in Replicas, LoopStep(r), ~Propose(r), ~RequestApproval(r)
      PROVE  Consistent(p)'
  BY <1>6, <1>s DEF LoopStep, Receive, PublishProposed, SendProposed, GuardianRecheck
<1>7. ASSUME NEW w \in Workers, ExecuteStep(w), ~CommitExecution(w) PROVE Consistent(p)'
  BY <1>7, <1>s DEF ExecuteStep, ReadProposal, ReadTenant, AuditBlocked, CheckRule, InsertRule,
                    PublishExecuted
<1>8. ASSUME NEW q \in Requests, RequestStep(q), ~CommitDecision(q), ~RollbackCommit(q)
      PROVE  Consistent(p)'
  BY <1>8, <1>s DEF RequestStep, PublishDecision, RollbackCheck, RollbackDelete, RollbackAudit,
                    CommitSwitch, PublishKillSwitch
<1>9. ASSUME NEW q \in Requests, NEW u \in Users, HumanStep(q, u) PROVE Consistent(p)'
  BY <1>9, <1>s DEF HumanStep, StartDecide, StartRollback, StartSwitch
<1>10. ASSUME NEW i \in Incidents, Classify(i) PROVE Consistent(p)'
  BY <1>10, <1>s DEF Classify
<1>11. ASSUME NEW r \in Replicas, Crash(r) \/ Restart(r) PROVE Consistent(p)'
  BY <1>11, <1>s DEF Crash, Restart
<1>12. ASSUME NEW w \in Workers, Raise(w) PROVE Consistent(p)'
  BY <1>12, <1>s DEF Raise
<1>13. ASSUME UNCHANGED vars PROVE Consistent(p)'
  BY <1>13, <1>s DEF vars
<1> HIDE DEF dbVars, history
<1>14. QED
  BY <1>1, <1>2, <1>3, <1>4, <1>5, <1>6, <1>7, <1>8, <1>9, <1>10, <1>11, <1>12, <1>13 DEF Next

-----------------------------------------------------------------------------
\* A rule appears only under a worker that knows its block to be granted.
LEMMA BlockedStep ==
  ASSUME TypeOK, \A w \in Workers : Knows(w), \A p \in Proposals : Consistent(p),
         BlockedIsGranted, [Next]_vars
  PROVE  BlockedIsGranted'
<1>g. Grows BY StepGrows
<1>t. rules \in [Replicas -> [Addresses -> Nat]] BY DEF TypeOK
<1> SUFFICES ASSUME NEW a \in Addresses, NEW r \in Replicas, rules'[r][a] > 0
             PROVE  \E p \in Proposals : TargetIs(p, a)' /\ Granted(p)'
  BY DEF BlockedIsGranted, Blocked
<1>1. ASSUME rules[r][a] > 0 PROVE \E p \in Proposals : TargetIs(p, a)' /\ Granted(p)'
  <2>1. PICK p \in Proposals : TargetIs(p, a) /\ Granted(p)
    BY <1>1 DEF BlockedIsGranted, Blocked
  <2>2. Granted(p)' BY <2>1, <1>g, ClearedGrows
  <2>3. TargetIs(p, a)' BY <2>1 DEF TargetIs, CaseOf
  <2>4. QED BY <2>2, <2>3
<1>2. ASSUME NEW w \in Workers, InsertRule(w), ~(rules[r][a] > 0)
      PROVE  \E p \in Proposals : TargetIs(p, a)' /\ Granted(p)'
  <2>p. PICK p \in Proposals : p = job[w].prop BY <1>2 DEF InsertRule, Knows
  <2>1. Exists(p) /\ Cleared(p) /\ TargetIs(p, CaseOf(p).ip)
    BY <1>2, <2>p DEF InsertRule, Knows, ExecutePoints
  <2>2. CaseOf(p).ip = a
    <3>1. \/ rules' = [rules EXCEPT ![ReplicaOf(w)][CaseOf(p).ip] = @ + 1]
          \/ rules' = rules
      BY <1>2, <2>p DEF InsertRule
    <3>2. QED BY <1>2, <1>t, <3>1
  <2>3. tier[p] = TierFor(p) BY <2>1 DEF Consistent
  <2>4. tier[p] # "tier1_auto" BY <2>1, <2>3, CaseType DEF TargetIs
  <2>5. Granted(p) BY <2>1, <2>4 DEF Cleared
  <2>6. Granted(p)' BY <2>1, <2>5, <1>g, ClearedGrows
  <2>7. TargetIs(p, a)' BY <2>1, <2>2 DEF TargetIs, CaseOf
  <2>8. QED BY <2>1, <2>6, <2>7
<1>3. ASSUME NEW q \in Requests, RollbackDelete(q) PROVE rules[r][a] > 0
  <2>1. \/ rules' = rules
        \/ /\ rules[ReplicaOf(q)][CaseOf(job[q].prop).ip] > 0
           /\ rules' = [rules EXCEPT ![ReplicaOf(q)][CaseOf(job[q].prop).ip] = @ - 1]
    BY <1>3 DEF RollbackDelete, RulePresent
  <2>2. CASE ReplicaOf(q) = r /\ CaseOf(job[q].prop).ip = a BY <1>t, <2>1, <2>2
  <2>3. CASE ~(ReplicaOf(q) = r /\ CaseOf(job[q].prop).ip = a) BY <1>t, <2>1, <2>3
  <2>4. QED BY <2>2, <2>3
<1>4. \/ \E w \in Workers : InsertRule(w)
      \/ \E q \in Requests : RollbackDelete(q)
      \/ rules' = rules
  <2>1. ASSUME NEW x \in Replicas, LoopStep(x) \/ Crash(x) \/ Restart(x) PROVE rules' = rules
    BY <2>1 DEF LoopStep, Receive, Propose, PublishProposed, SendProposed, RequestApproval,
                GuardianRecheck, Crash, Restart, dbVars
  <2>2. ASSUME NEW w \in Workers, ExecuteStep(w) \/ Raise(w), ~InsertRule(w)
        PROVE  rules' = rules
    BY <2>2 DEF ExecuteStep, ReadProposal, ReadTenant, AuditBlocked, CheckRule,
                CommitExecution, PublishExecuted, Raise, dbVars
  <2>3. ASSUME NEW q \in Requests, RequestStep(q), ~RollbackDelete(q) PROVE rules' = rules
    BY <2>3 DEF RequestStep, CommitDecision, PublishDecision, RollbackCheck, RollbackCommit,
                RollbackAudit, CommitSwitch, PublishKillSwitch, dbVars
  <2>4. ASSUME NEW q \in Requests, NEW u \in Users, HumanStep(q, u) PROVE rules' = rules
    BY <2>4 DEF HumanStep, StartDecide, StartRollback, StartSwitch, dbVars
  <2>5. ASSUME (\E i \in Incidents : Classify(i)) \/ UNCHANGED vars PROVE rules' = rules
    BY <2>5 DEF Classify, vars, dbVars
  <2>6. QED BY <2>1, <2>2, <2>3, <2>4, <2>5 DEF Next
<1>5. QED BY <1>1, <1>2, <1>3, <1>4

\* A step writes no mismatch of the Guardian's to the ledger.
Agreed == \A row \in ledger' \ ledger : row.what # "tier_mismatch"

\* A step that writes no ledger row, or one of another kind, writes no mismatch.
LEMMA AgreedRows ==
  /\ ledger' = ledger => Agreed
  /\ \A k, p, u : k # "tier_mismatch" /\ Audit(k, p, u) => Agreed
BY DEF Agreed, Audit, Row

\* The only step that could write a mismatch finds none.
LEMMA GuardianStep ==
  ASSUME TypeOK, \A p \in Proposals : Consistent(p), InboxCarried, GuardianAgrees, [Next]_vars
  PROVE  GuardianAgrees'
<1>1. ASSUME NEW r \in Replicas, GuardianRecheck(r) PROVE Agreed
  <2> DEFINE m == Head(inbox[r])
  <2>1. m.prop \in Proposals BY <1>1 DEF GuardianRecheck, TypeOK, Messages
  <2>2. Carried(m) BY <1>1, HeadCarried DEF GuardianRecheck
  <2>3. m.severity = CaseOf(m.prop).severity BY <1>1, <2>2 DEF GuardianRecheck, Carried
  <2>4. Recheck(m) = TierFor(m.prop) BY <2>3 DEF Recheck, TierFor
  <2>5. tier[m.prop] \in {"none", Recheck(m)} BY <2>1, <2>4 DEF Consistent
  <2>6. ledger' = ledger BY <1>1, <2>5 DEF GuardianRecheck, Exists
  <2>7. QED BY <2>6, AgreedRows
<1>2. ASSUME NEW r \in Replicas, LoopStep(r) PROVE Agreed
  <2>1. CASE PublishProposed(r) BY <2>1, AgreedRows DEF PublishProposed
  <2>2. CASE GuardianRecheck(r) BY <2>2, <1>1
  <2>3. CASE Receive(r) \/ Propose(r) \/ SendProposed(r) \/ RequestApproval(r)
    BY <2>3, AgreedRows DEF Receive, Propose, SendProposed, RequestApproval, dbVars
  <2>4. QED BY <1>2, <2>1, <2>2, <2>3 DEF LoopStep
<1>3. ASSUME NEW w \in Workers, ExecuteStep(w) PROVE Agreed
  <2>1. CASE AuditBlocked(w) BY <2>1, AgreedRows DEF AuditBlocked
  <2>2. CASE PublishExecuted(w) BY <2>2, AgreedRows DEF PublishExecuted
  <2>3. CASE ReadProposal(w) \/ ReadTenant(w) \/ CheckRule(w) \/ InsertRule(w)
             \/ CommitExecution(w)
    BY <2>3, AgreedRows
       DEF ReadProposal, ReadTenant, CheckRule, InsertRule, CommitExecution, dbVars
  <2>4. QED BY <1>3, <2>1, <2>2, <2>3 DEF ExecuteStep
<1>4. ASSUME NEW q \in Requests, RequestStep(q) PROVE Agreed
  <2>1. CASE PublishDecision(q) BY <2>1, AgreedRows DEF PublishDecision
  <2>2. CASE RollbackAudit(q) BY <2>2, AgreedRows DEF RollbackAudit
  <2>3. CASE PublishKillSwitch(q) BY <2>3, AgreedRows DEF PublishKillSwitch
  <2>4. CASE \/ CommitDecision(q) \/ RollbackCheck(q) \/ RollbackDelete(q) \/ RollbackCommit(q)
             \/ CommitSwitch(q)
    BY <2>4, AgreedRows
       DEF CommitDecision, RollbackCheck, RollbackDelete, RollbackCommit, CommitSwitch, dbVars
  <2>5. QED BY <1>4, <2>1, <2>2, <2>3, <2>4 DEF RequestStep
<1>5. ASSUME NEW q \in Requests, NEW u \in Users, HumanStep(q, u) PROVE Agreed
  BY <1>5, AgreedRows DEF HumanStep, StartDecide, StartRollback, StartSwitch, dbVars
<1>6. ASSUME \/ \E i \in Incidents : Classify(i)
             \/ \E r \in Replicas : Crash(r) \/ Restart(r)
             \/ \E w \in Workers : Raise(w)
             \/ UNCHANGED vars
      PROVE  Agreed
  BY <1>6, AgreedRows DEF Classify, Crash, Restart, Raise, vars, dbVars
<1>7. Agreed BY <1>2, <1>3, <1>4, <1>5, <1>6 DEF Next
<1>8. QED BY <1>7 DEF Agreed, GuardianAgrees

-----------------------------------------------------------------------------
\* The empty database, firewall and queues satisfy the invariant.
LEMMA InitInv == Init => GateInv
<1> SUFFICES ASSUME Init PROVE GateInv
  OBVIOUS
<1> USE DEF Init
<1>1. TypeOK
  <2>1. inbox \in [Replicas -> Seq(Messages)] OBVIOUS
  <2>2. job \in [Workers -> Jobs] BY JobTypes
  <2>3. QED BY <2>1, <2>2 DEF TypeOK, Statuses
<1>2. \A w \in Workers : Knows(w) BY DEF Knows, Idle, ExecutePoints, RollbackPoints
<1>3. \A p \in Proposals : Consistent(p) BY DEF Consistent
<1>4. BlockedIsGranted BY DEF BlockedIsGranted, Blocked
<1>5. GuardianAgrees BY DEF GuardianAgrees
<1>6. InboxCarried BY DEF InboxCarried
<1>7. QED BY <1>1, <1>2, <1>3, <1>4, <1>5, <1>6 DEF GateInv, InboxCarried

\* Every step of every worker preserves it.
LEMMA StepInv == GateInv /\ [Next]_vars => GateInv'
<1> SUFFICES ASSUME GateInv, [Next]_vars PROVE GateInv'
  OBVIOUS
<1>1. /\ TypeOK /\ \A w \in Workers : Knows(w)
      /\ \A p \in Proposals : Consistent(p)
      /\ BlockedIsGranted /\ GuardianAgrees /\ InboxCarried
  BY DEF GateInv, InboxCarried
<1>2. TypeOK' BY <1>1, TypeStep
<1>3. (\A w \in Workers : Knows(w))' BY <1>1, KnowsStep
<1>4. (\A p \in Proposals : Consistent(p))' BY <1>1, ConsistentStep
<1>5. BlockedIsGranted' BY <1>1, BlockedStep
<1>6. GuardianAgrees' BY <1>1, GuardianStep
<1>7. InboxCarried' BY <1>1, CarriedStep
<1>8. QED BY <1>2, <1>3, <1>4, <1>5, <1>6, <1>7 DEF GateInv, InboxCarried

\* The inductive invariant holds of every behaviour of the handlers.
THEOREM GateInvariant == Spec => []GateInv
BY InitInv, StepInv, PTL DEF Spec

\* Every variable keeps its type (the columns of models.py, the local state of
\* the handlers of response.py, approvals.py, actions.py and tenants.py).
THEOREM TypeCorrect == Spec => []TypeOK
<1>1. GateInv => TypeOK BY DEF GateInv
<1>2. QED BY <1>1, GateInvariant, PTL

\* No agent, race or crash gets an action of tier 2 or 3 on record as executed
\* without an authorised human's approval in the ledger (approvals.py:56-58).
THEOREM NoExecutionWithoutClearance == Spec => []ExecutedIsCleared
<1>1. GateInv => ExecutedIsCleared BY DEF GateInv, Consistent, ExecutedIsCleared
<1>2. QED BY <1>1, GateInvariant, PTL

\* The host firewall never drops an address no authorised human agreed to block.
THEOREM NoBlockWithoutGrant == Spec => []BlockedIsGranted
<1>1. GateInv => BlockedIsGranted BY DEF GateInv
<1>2. QED BY <1>1, GateInvariant, PTL

\* The Guardian's recheck (guardian.py:38-51), made from the severity in the
\* message it is sent, never disagrees with the tier stored before the message
\* was published, through every crash, failure and interleaving.
THEOREM GuardianNeverDisagrees == Spec => []GuardianAgrees
<1>1. GateInv => GuardianAgrees BY DEF GateInv
<1>2. QED BY <1>1, GateInvariant, PTL

-----------------------------------------------------------------------------
\* Past its look at the switch, and its execution not yet on record.
PastSwitch == {"check", "insert", "commit"}

\* A worker gets past the switch only in ReadTenant; otherwise it was past it
\* already, with the same proposal.
LEMMA PastSwitchOnlyByReading ==
  ASSUME TypeOK, [Next]_vars, NEW v \in Workers, job'[v].at \in PastSwitch
  PROVE  \/ job'[v].prop = job[v].prop /\ job[v].at \in PastSwitch
         \/ ReadTenant(v) /\ job'[v].prop = job[v].prop /\ ~Stopped(job[v].prop)
<1> DEFINE Stays == job'[v].prop = job[v].prop /\ job[v].at \in PastSwitch
<1>t. job \in [Workers -> Jobs] BY DEF TypeOK
<1>s. job'[v] = job[v] => Stays OBVIOUS
<1>i. job'[v] # Idle BY DEF Idle, PastSwitch
<1>n. ASSUME NEW w \in Workers, v # w => job'[v] = job[v], job'[w].at \notin PastSwitch
      PROVE  Stays
  BY <1>n, <1>s
<1> HIDE DEF Stays
<1> USE DEF dbVars, history
<1>1. ASSUME NEW w \in Workers, ReadTenant(w)
      PROVE  Stays \/ (ReadTenant(v) /\ job'[v].prop = job[v].prop /\ ~Stopped(job[v].prop))
  <2>1. CASE v # w BY <1>1, <1>t, <1>s, <2>1 DEF ReadTenant
  <2>2. CASE v = w
    <3>1. /\ job'[w].prop = job[w].prop
          /\ Stopped(job[w].prop) => job'[w].at = "blocked"
      BY <1>1, <1>t DEF ReadTenant, Jobs
    <3>2. QED BY <2>2, <3>1, <1>1 DEF PastSwitch
  <2>3. QED BY <2>1, <2>2
<1>2. ASSUME NEW w \in Workers, CheckRule(w) \/ InsertRule(w) PROVE Stays
  <2>1. CASE v # w BY <1>2, <1>t, <1>s, <2>1 DEF CheckRule, InsertRule
  <2>2. CASE v = w
    <3>1. job[w].at \in PastSwitch BY <1>2 DEF CheckRule, InsertRule, PastSwitch
    <3>2. job[w] \in Jobs BY <1>t
    <3>3. CASE CheckRule(w)
      <4>1. job'[w].prop = job[w].prop BY <1>t, <3>2, <3>3 DEF CheckRule, Jobs
      <4>2. QED BY <2>2, <3>1, <4>1 DEF Stays
    <3>4. CASE InsertRule(w)
      <4>1. job'[w].prop = job[w].prop BY <1>t, <3>2, <3>4 DEF InsertRule, Jobs
      <4>2. QED BY <2>2, <3>1, <4>1 DEF Stays
    <3>5. QED BY <1>2, <3>3, <3>4
  <2>3. QED BY <2>1, <2>2
<1>3. ASSUME NEW r \in Replicas, Receive(r) PROVE Stays
  <2>1. v # r => job'[v] = job[v] BY <1>3, <1>t DEF Receive
  <2>2. job'[r].at = "propose" BY <1>3, <1>t DEF Receive, Idle, Jobs
  <2>3. QED BY <2>1, <2>2, <1>n DEF PastSwitch
<1>4. ASSUME NEW r \in Replicas, Propose(r) PROVE Stays
  <2>1. v # r => job'[v] = job[v] BY <1>4, <1>t DEF Propose
  <2>2. job'[r].at = "pub_proposed" BY <1>4, <1>t DEF Propose, Idle, Jobs
  <2>3. QED BY <2>1, <2>2, <1>n DEF PastSwitch
<1>5. ASSUME NEW r \in Replicas, PublishProposed(r) PROVE Stays
  <2>1. v # r => job'[v] = job[v] BY <1>5, <1>t DEF PublishProposed
  <2>2. job'[r].at = "send_proposed" BY <1>5, <1>t DEF PublishProposed, Idle, Jobs
  <2>3. QED BY <2>1, <2>2, <1>n DEF PastSwitch
<1>6. ASSUME NEW r \in Replicas, SendProposed(r) PROVE Stays
  <2>1. v # r => job'[v] = job[v] BY <1>6, <1>t DEF SendProposed
  <2>2. job'[r].at = BranchOn(job[r].prop) BY <1>6, <1>t DEF SendProposed, Idle
  <2>3. job'[r].at \notin PastSwitch BY <2>2 DEF PastSwitch
  <2>4. QED BY <2>1, <2>3, <1>n
<1>7. ASSUME NEW r \in Replicas, RequestApproval(r) \/ GuardianRecheck(r) PROVE Stays
  BY <1>7, <1>t, <1>s, <1>i DEF RequestApproval, GuardianRecheck
<1>8. ASSUME NEW w \in Workers, ReadProposal(w) PROVE Stays
  <2>1. v # w => job'[v] = job[v] BY <1>8, <1>t DEF ReadProposal
  <2>2. job'[w].at \in {"idle", "tenant"} BY <1>8, <1>t DEF ReadProposal, Idle, Jobs
  <2>3. QED BY <2>1, <2>2, <1>n DEF PastSwitch
<1>9. ASSUME NEW w \in Workers, AuditBlocked(w) \/ PublishExecuted(w) PROVE Stays
  BY <1>9, <1>t, <1>s, <1>i DEF AuditBlocked, PublishExecuted
<1>10. ASSUME NEW w \in Workers, CommitExecution(w) PROVE Stays
  <2>1. v # w => job'[v] = job[v] BY <1>10, <1>t DEF CommitExecution
  <2>2. job'[w].at = "pub_executed" BY <1>10, <1>t DEF CommitExecution, Idle, Jobs
  <2>3. QED BY <2>1, <2>2, <1>n DEF PastSwitch
<1>11. ASSUME NEW q \in Requests, CommitDecision(q) PROVE Stays
  <2>1. v # q => job'[v] = job[v] BY <1>11, <1>t DEF CommitDecision
  <2>2. job'[q].at = "pub_decision" BY <1>11, <1>t DEF CommitDecision, Idle, Jobs
  <2>3. QED BY <2>1, <2>2, <1>n DEF PastSwitch
<1>12. ASSUME NEW q \in Requests, PublishDecision(q) PROVE Stays
  <2>1. v # q => job'[v] = job[v] BY <1>12, <1>t DEF PublishDecision
  <2>2. job'[q].at \in {"idle", "read"}
    <3>1. CASE job[q].approve
      <4>1. job' = [job EXCEPT ![q] = [Idle EXCEPT !.at = "read", !.prop = job[q].prop]]
        BY <1>12, <3>1 DEF PublishDecision, AfterDecision, GotoPlain
      <4>2. QED BY <4>1, <1>t DEF Idle
    <3>2. CASE ~job[q].approve
      <4>1. job' = [job EXCEPT ![q] = Idle]
        BY <1>12, <3>2 DEF PublishDecision, AfterDecision, Finish
      <4>2. QED BY <4>1, <1>t DEF Idle
    <3>3. QED BY <3>1, <3>2
  <2>3. QED BY <2>1, <2>2, <1>n DEF PastSwitch
<1>13. ASSUME NEW q \in Requests, RollbackCheck(q) PROVE Stays
  <2>1. v # q => job'[v] = job[v] BY <1>13, <1>t DEF RollbackCheck
  <2>2. job'[q].at \in {"rb_delete", "rb_commit"} BY <1>13, <1>t DEF RollbackCheck, Jobs
  <2>3. QED BY <2>1, <2>2, <1>n DEF PastSwitch
<1>14. ASSUME NEW q \in Requests, RollbackDelete(q) PROVE Stays
  <2>1. v # q => job'[v] = job[v] BY <1>14, <1>t DEF RollbackDelete
  <2>2. job'[q].at = "rb_commit" BY <1>14, <1>t DEF RollbackDelete, Idle, Jobs
  <2>3. QED BY <2>1, <2>2, <1>n DEF PastSwitch
<1>15. ASSUME NEW q \in Requests, RollbackCommit(q) PROVE Stays
  <2>1. v # q => job'[v] = job[v] BY <1>15, <1>t DEF RollbackCommit
  <2>2. job'[q].at = "rb_audit" BY <1>15, <1>t DEF RollbackCommit, Idle, Jobs
  <2>3. QED BY <2>1, <2>2, <1>n DEF PastSwitch
<1>16. ASSUME NEW q \in Requests, NEW u, NEW p, NEW approve, StartDecide(q, u, p, approve) PROVE Stays
  <2>1. v # q => job'[v] = job[v] BY <1>16, <1>t DEF StartDecide
  <2>2. job'[q].at = "decide" BY <1>16, <1>t DEF StartDecide, Idle, Jobs
  <2>3. QED BY <2>1, <2>2, <1>n DEF PastSwitch
<1>17. ASSUME NEW q \in Requests, NEW u, NEW p, StartRollback(q, u, p) PROVE Stays
  <2>1. v # q => job'[v] = job[v] BY <1>17, <1>t DEF StartRollback
  <2>2. job'[q].at \in {"rb_check", "rb_commit"} BY <1>17, <1>t DEF StartRollback, Idle
  <2>3. QED BY <2>1, <2>2, <1>n DEF PastSwitch
<1>18. ASSUME NEW q \in Requests, NEW u, NEW t, NEW engaged, StartSwitch(q, u, t, engaged) PROVE Stays
  <2>1. v # q => job'[v] = job[v] BY <1>18, <1>t DEF StartSwitch
  <2>2. job'[q].at = "switch" BY <1>18, <1>t DEF StartSwitch, Idle
  <2>3. QED BY <2>1, <2>2, <1>n DEF PastSwitch
<1>30. ASSUME NEW q \in Requests, CommitSwitch(q) PROVE Stays
  <2>1. v # q => job'[v] = job[v] BY <1>30, <1>t DEF CommitSwitch
  <2>2. job'[q].at = "pub_kill" BY <1>30, <1>t DEF CommitSwitch, Idle
  <2>3. QED BY <2>1, <2>2, <1>n DEF PastSwitch
<1>19. ASSUME NEW q \in Requests, PublishKillSwitch(q) \/ RollbackAudit(q) PROVE Stays
  BY <1>19, <1>t, <1>s, <1>i DEF PublishKillSwitch, RollbackAudit
<1>20. ASSUME \/ \E i \in Incidents : Classify(i)
              \/ \E r \in Replicas : Restart(r)
              \/ UNCHANGED vars
       PROVE  Stays
  BY <1>20, <1>s DEF Classify, Restart, vars
<1>21. ASSUME \/ \E r \in Replicas : Crash(r)
              \/ \E w \in Workers : Raise(w)
       PROVE  Stays
  BY <1>21, <1>t, <1>s, <1>i DEF Crash, Raise
<1> HIDE DEF dbVars, history
<1>22. Stays \/ (ReadTenant(v) /\ job'[v].prop = job[v].prop /\ ~Stopped(job[v].prop))
  BY <1>1, <1>2, <1>3, <1>4, <1>5, <1>6, <1>7, <1>8, <1>9, <1>10, <1>11, <1>20, <1>21, <1>12,
     <1>13, <1>14, <1>15, <1>16, <1>17, <1>18, <1>19, <1>30
  DEF Next, LoopStep, ExecuteStep, RequestStep, HumanStep
<1>23. QED BY <1>22 DEF Stays

\* One step commits an execution, and one a toggle.
LEMMA ExecutedOnlyByCommit ==
  ASSUME [Next]_vars
  PROVE  executed' = executed \/ \E w \in Workers : CommitExecution(w)
<1> USE DEF dbVars
<1>1. ASSUME NEW r \in Replicas, LoopStep(r) \/ Crash(r) \/ Restart(r) PROVE executed' = executed
  BY <1>1 DEF LoopStep, Receive, Propose, PublishProposed, SendProposed, RequestApproval,
              GuardianRecheck, Crash, Restart
<1>2. ASSUME NEW w \in Workers, ExecuteStep(w) \/ Raise(w), ~CommitExecution(w)
      PROVE  executed' = executed
  BY <1>2 DEF ExecuteStep, ReadProposal, ReadTenant, AuditBlocked, CheckRule, InsertRule,
              PublishExecuted, Raise
<1>3. ASSUME NEW q \in Requests, RequestStep(q) PROVE executed' = executed
  BY <1>3 DEF RequestStep, CommitDecision, PublishDecision, RollbackCheck, RollbackDelete,
              RollbackCommit, RollbackAudit, CommitSwitch, PublishKillSwitch
<1>4. ASSUME NEW q \in Requests, NEW u \in Users, HumanStep(q, u) PROVE executed' = executed
  BY <1>4 DEF HumanStep, StartDecide, StartRollback, StartSwitch
<1>5. ASSUME (\E i \in Incidents : Classify(i)) \/ UNCHANGED vars PROVE executed' = executed
  BY <1>5 DEF Classify, vars
<1>6. QED BY <1>1, <1>2, <1>3, <1>4, <1>5 DEF Next

LEMMA SwitchOnlyByCommit ==
  ASSUME [Next]_vars
  PROVE  (kill' = kill /\ through' = through) \/ \E q \in Requests : CommitSwitch(q)
<1> USE DEF dbVars, history
<1>1. ASSUME NEW r \in Replicas, LoopStep(r) \/ Crash(r) \/ Restart(r)
      PROVE  kill' = kill /\ through' = through
  BY <1>1 DEF LoopStep, Receive, Propose, PublishProposed, SendProposed, RequestApproval,
              GuardianRecheck, Crash, Restart
<1>2. ASSUME NEW w \in Workers, ExecuteStep(w) \/ Raise(w) PROVE kill' = kill /\ through' = through
  BY <1>2 DEF ExecuteStep, ReadProposal, ReadTenant, AuditBlocked, CheckRule, InsertRule,
              CommitExecution, PublishExecuted, Raise
<1>3. ASSUME NEW q \in Requests, RequestStep(q), ~CommitSwitch(q)
      PROVE  kill' = kill /\ through' = through
  BY <1>3 DEF RequestStep, CommitDecision, PublishDecision, RollbackCheck, RollbackDelete,
              RollbackCommit, RollbackAudit, PublishKillSwitch
<1>4. ASSUME NEW q \in Requests, NEW u \in Users, HumanStep(q, u)
      PROVE  kill' = kill /\ through' = through
  BY <1>4 DEF HumanStep, StartDecide, StartRollback, StartSwitch
<1>5. ASSUME (\E i \in Incidents : Classify(i)) \/ UNCHANGED vars
      PROVE  kill' = kill /\ through' = through
  BY <1>5 DEF Classify, vars
<1>6. QED BY <1>1, <1>2, <1>3, <1>4, <1>5 DEF Next

\* What is executed or past the switch after a step was so before, or has just
\* read that the switch is off.
LEMMA UnderWayStep ==
  ASSUME GateInv, [Next]_vars, NEW t \in Tenants, NEW p \in UnderWay(t)'
  PROVE  p \in UnderWay(t) \/ ~kill[t]
<1>1. TypeOK /\ \A w \in Workers : Knows(w) BY DEF GateInv
<1>2. p \in Proposals /\ TenantOf(p) = t BY DEF UnderWay, TenantOf, CaseOf
<1>3. CASE \E v \in Workers : job'[v].at \in PastSwitch /\ job'[v].prop = p
  <2>1. PICK v \in Workers : job'[v].at \in PastSwitch /\ job'[v].prop = p BY <1>3
  <2>2. \/ job[v].prop = p /\ job[v].at \in PastSwitch
        \/ ~Stopped(p)
    BY <1>1, <2>1, PastSwitchOnlyByReading
  <2>3. QED BY <1>2, <2>1, <2>2 DEF UnderWay, Running, PastSwitch, Stopped
<1>4. CASE executed'[p]
  <2>1. ASSUME NEW w \in Workers, CommitExecution(w) PROVE p \in UnderWay(t)
    <3>1. executed[p] \/ p = job[w].prop BY <1>1, <1>2, <1>4, <2>1 DEF CommitExecution, TypeOK
    <3>2. w \in Running BY <2>1 DEF CommitExecution, Running
    <3>3. QED BY <1>2, <3>1, <3>2 DEF UnderWay
  <2>2. CASE executed' = executed BY <1>2, <1>4, <2>2 DEF UnderWay
  <2>3. executed' = executed \/ \E w \in Workers : CommitExecution(w)
    BY ExecutedOnlyByCommit
  <2>4. QED BY <2>1, <2>2, <2>3
<1>5. QED BY <1>2, <1>3, <1>4 DEF UnderWay, Running, PastSwitch

\* From the commit that engages a tenant's switch to the one that lifts it,
\* only what was under way when it was engaged is executed (response.py:93-112
\* with tenants.py:63-70), for any number of replicas and of overlapping
\* approvals and switch requests, with any failure.
THEOREM SwitchBounds == Spec => []SwitchBoundsEffects
<1>1. Init => SwitchBoundsEffects BY DEF Init, SwitchBoundsEffects
<1>2. ASSUME GateInv, SwitchBoundsEffects, [Next]_vars PROVE SwitchBoundsEffects'
  <2> SUFFICES ASSUME NEW t \in Tenants, kill'[t], NEW p \in UnderWay(t)'
               PROVE  p \in through'[t]
    BY DEF SwitchBoundsEffects
  <2>t. /\ kill \in [Tenants -> BOOLEAN] /\ through \in [Tenants -> SUBSET Proposals]
        /\ \A w \in Workers : Knows(w)
    BY <1>2 DEF GateInv, TypeOK
  <2>u. p \in UnderWay(t) \/ ~kill[t] BY <1>2, UnderWayStep
  <2>1. CASE kill' = kill /\ through' = through
    BY <1>2, <2>1, <2>u DEF SwitchBoundsEffects
  <2>2. ASSUME NEW q \in Requests, CommitSwitch(q), ~(kill' = kill /\ through' = through)
        PROVE  p \in through'[t]
    <3>1. /\ kill' = [kill EXCEPT ![job[q].tenant] = job[q].approve]
          /\ through' = [through EXCEPT ![job[q].tenant] =
                           IF ~job[q].approve THEN {}
                           ELSE IF kill[job[q].tenant] THEN through[job[q].tenant]
                           ELSE UnderWay(job[q].tenant)]
      BY <2>2 DEF CommitSwitch
    <3>2. CASE t # job[q].tenant
      <4>1. kill[t] /\ through'[t] = through[t] BY <2>t, <3>1, <3>2
      <4>2. QED BY <1>2, <2>u, <4>1 DEF SwitchBoundsEffects
    <3>3. CASE t = job[q].tenant /\ kill[t]
      <4>1. through'[t] = through[t] BY <2>t, <3>1, <3>3
      <4>2. QED BY <1>2, <2>u, <3>3, <4>1 DEF SwitchBoundsEffects
    <3>4. CASE t = job[q].tenant /\ ~kill[t]
      <4>1. through'[t] = UnderWay(t) BY <2>t, <3>1, <3>4
      <4>2. p \in Proposals /\ TenantOf(p) = t BY DEF UnderWay, TenantOf, CaseOf
      <4>3. executed' = executed BY <2>2 DEF CommitSwitch
      <4>4. ASSUME NEW w \in Workers, job'[w].at \in PastSwitch, job'[w].prop = p
            PROVE  job[w].at \in PastSwitch /\ job[w].prop = p
        <5>1. job \in [Workers -> Jobs] BY <1>2 DEF GateInv, TypeOK
        <5>2. w # q BY <2>2, <4>4, <5>1 DEF CommitSwitch, Idle, PastSwitch
        <5>3. QED BY <2>2, <4>4, <5>1, <5>2 DEF CommitSwitch
      <4>5. QED BY <4>1, <4>2, <4>3, <4>4 DEF UnderWay, Running, PastSwitch
    <3>5. QED BY <3>2, <3>3, <3>4
  <2>3. (kill' = kill /\ through' = through) \/ \E q \in Requests : CommitSwitch(q)
    BY <1>2, SwitchOnlyByCommit
  <2>4. QED BY <2>1, <2>2, <2>3
<1>3. QED BY <1>1, <1>2, GateInvariant, PTL DEF Spec

-----------------------------------------------------------------------------
\* The handlers implement the gate of HumanGate: most steps are invisible to it, a
\* proposal, an approval put in the ledger, an iptables change and a committed
\* execution are its steps.

\* What HumanGate sees of the state: the approvals in the ledger, the proposals
\* executed and the addresses blocked.
GrantsSeen == {g \in Proposals \X Users : Row("actions.approved", g[1], g[2]) \in ledger}
ExecutedSeen == {p \in Proposals : executed[p]}
BlockedSeen == {a \in Addresses : Blocked(a)}

\* A step that changes nothing of this is no step of the gate.
LEMMA Unseen ==
  ASSUME tier' = tier, GrantsSeen' = GrantsSeen, ExecutedSeen' = ExecutedSeen,
         BlockedSeen' = BlockedSeen
  PROVE  UNCHANGED Gate!vars
BY DEF Gate!vars, GrantsSeen, ExecutedSeen, BlockedSeen

\* A ledger row that is not an approval is no grant.
LEMMA NoGrant ==
  ASSUME NEW what \in RowKinds \ {"actions.approved"}, NEW p, NEW u, Audit(what, p, u)
  PROVE  GrantsSeen' = GrantsSeen
BY DEF GrantsSeen

\* The empty database and firewall are the initial state of the gate.
LEMMA MapsInit == Init => Gate!Init
BY DEF Init, Gate!Init, Blocked

\* Every step of a handler is a step of the gate or none; what the worker knows
\* (GateInv) gives the guard of the gate's step.
LEMMA MapsStep == GateInv /\ [Next]_vars => [Gate!Next]_(Gate!vars)
<1> SUFFICES ASSUME GateInv, [Next]_vars PROVE Gate!Next \/ UNCHANGED Gate!vars
  OBVIOUS
<1> USE DEF GateInv
<1>1. ASSUME NEW r \in Replicas, Propose(r) PROVE Gate!Next \/ UNCHANGED Gate!vars
  <2> DEFINE p == job[r].prop
  <2>1. p \in Proposals BY <1>1 DEF Propose, Knows
  <2>2. tier' = [tier EXCEPT ![p] = TierFor(p)] /\ TierFor(p) \in Tiers
    BY <1>1, <2>1, CaseType DEF Propose, TierFor, Knows
  <2>3. UNCHANGED <<executed, ledger, rules>> BY <1>1 DEF Propose
  <2>4. CASE tier[p] = "none"
    <3>1. Gate!Propose(p) BY <2>2, <2>3, <2>4 DEF Gate!Propose, Blocked
    <3>2. QED BY <3>1, <2>1 DEF Gate!Next
  <2>5. CASE tier[p] = TierFor(p)
    <3>1. tier' = tier BY <2>1, <2>2, <2>5 DEF TypeOK
    <3>2. QED BY <3>1, <2>3, Unseen DEF GrantsSeen, ExecutedSeen, BlockedSeen, Blocked
  <2>6. QED BY <2>1, <2>4, <2>5 DEF Consistent
<1>2. ASSUME NEW q \in Requests, PublishDecision(q) PROVE Gate!Next \/ UNCHANGED Gate!vars
  <2>1. UNCHANGED <<tier, executed, rules>> BY <1>2 DEF PublishDecision
  <2>2. CASE job[q].approve
    <3>1. PICK p \in Proposals, u \in Users : p = job[q].prop /\ u = job[q].by
      BY <1>2 DEF PublishDecision, Knows
    <3>2. tier[p] \notin {"none", "tier1_auto"} /\ CanAccess(u, TenantOf(p))
      BY <1>2, <3>1 DEF PublishDecision, Knows
    <3>3. ledger' = ledger \union {Row("actions.approved", p, u)}
      BY <1>2, <2>2, <3>1 DEF PublishDecision
    <3>4. GrantsSeen' = GrantsSeen \union {<<p, u>>}
      BY <3>3 DEF GrantsSeen
    <3>5. Gate!Grant(p, u)
      BY <2>1, <3>2, <3>4 DEF Gate!Grant, GrantsSeen, Blocked
    <3>6. QED BY <3>5 DEF Gate!Next
  <2>3. CASE ~job[q].approve
    <3>1. Audit("actions.denied", job[q].prop, job[q].by) BY <1>2, <2>3 DEF PublishDecision
    <3>2. GrantsSeen' = GrantsSeen BY <3>1, NoGrant DEF RowKinds
    <3>3. QED BY <2>1, <3>2, Unseen DEF ExecutedSeen, BlockedSeen, Blocked
  <2>4. QED BY <2>2, <2>3
<1>3. ASSUME NEW w \in Workers, InsertRule(w) PROVE Gate!Next \/ UNCHANGED Gate!vars
  <2>1. UNCHANGED <<tier, executed, ledger>> BY <1>3 DEF InsertRule, dbVars
  <2>2. PICK p \in Proposals : p = job[w].prop
    BY <1>3 DEF InsertRule, Knows
  <2>3. Cleared(p) /\ TargetIs(p, CaseOf(p).ip)
    BY <1>3, <2>2 DEF InsertRule, Knows, ExecutePoints
  <2>4. PICK a \in Addresses : a = CaseOf(p).ip BY <2>3 DEF TargetIs
  <2>r. rules \in [Replicas -> [Addresses -> Nat]] /\ ReplicaOf(w) \in Replicas
    BY GateAssumption DEF TypeOK, ReplicaOf
  <2>5. CASE rules' = [rules EXCEPT ![ReplicaOf(w)][a] = @ + 1]
    <3>1. BlockedSeen' = BlockedSeen \union {a}
      <4>1. \A r \in Replicas, b \in Addresses : b # a => rules'[r][b] = rules[r][b]
        BY <2>5, <2>r
      <4>2. /\ rules'[ReplicaOf(w)][a] > 0
            /\ \A r \in Replicas : rules'[r][a] >= rules[r][a]
        BY <2>5, <2>r
      <4>3. QED BY <2>r, <4>1, <4>2 DEF BlockedSeen, Blocked
    <3>2. Gate!Cleared(p) BY <2>3 DEF Gate!Cleared, Cleared, Granted
    <3>3. Gate!Block(p, a)
      BY <2>1, <2>3, <2>4, <3>1, <3>2 DEF Gate!Block, BlockedSeen
    <3>4. QED BY <3>3 DEF Gate!Next
  <2>6. CASE UNCHANGED rules
    BY <2>1, <2>6, Unseen DEF GrantsSeen, ExecutedSeen, BlockedSeen, Blocked
  <2>7. QED BY <1>3, <2>2, <2>4, <2>5, <2>6 DEF InsertRule
<1>4. ASSUME NEW w \in Workers, CommitExecution(w) PROVE Gate!Next \/ UNCHANGED Gate!vars
  <2>1. UNCHANGED <<tier, ledger, rules>> BY <1>4 DEF CommitExecution
  <2>2. PICK p \in Proposals : p = job[w].prop BY <1>4 DEF CommitExecution, Knows
  <2>3. Cleared(p) BY <1>4, <2>2 DEF CommitExecution, Knows, ExecutePoints
  <2>4. ExecutedSeen' = ExecutedSeen \union {p}
    BY <1>4, <2>2 DEF CommitExecution, ExecutedSeen, TypeOK
  <2>5. Gate!Cleared(p) BY <2>3 DEF Gate!Cleared, Cleared, Granted
  <2>6. Gate!Execute(p) BY <2>1, <2>4, <2>5 DEF Gate!Execute, ExecutedSeen, Blocked
  <2>7. QED BY <2>6 DEF Gate!Next
<1>5. ASSUME NEW q \in Requests, RollbackDelete(q) PROVE Gate!Next \/ UNCHANGED Gate!vars
  <2>1. UNCHANGED <<tier, executed, ledger>> BY <1>5 DEF RollbackDelete, dbVars
  <2>2. PICK p \in Proposals : p = job[q].prop
    BY <1>5 DEF RollbackDelete, Knows
  <2>3. executed[p] /\ TargetIs(p, CaseOf(p).ip)
    BY <1>5, <2>2 DEF RollbackDelete, Knows, RollbackPoints
  <2>4. PICK a \in Addresses : a = CaseOf(p).ip BY <2>3 DEF TargetIs
  <2>r. rules \in [Replicas -> [Addresses -> Nat]] /\ ReplicaOf(q) \in Replicas
    BY GateAssumption DEF TypeOK, ReplicaOf
  <2> DEFINE Removed == rules' = [rules EXCEPT ![ReplicaOf(q)][a] = @ - 1]
  <2>o. Removed => \A b \in Addresses \ {a} : Blocked(b)' = Blocked(b)
    <3>1. Removed => \A r \in Replicas, b \in Addresses \ {a} : rules'[r][b] = rules[r][b]
      BY <2>r
    <3>2. QED BY <3>1 DEF Blocked
  <2>5. CASE Removed /\ ~Blocked(a)'
    <3>1. BlockedSeen' = BlockedSeen \ {a} BY <2>5, <2>o DEF BlockedSeen
    <3>2. Gate!Unblock(p, a)
      BY <2>1, <2>3, <2>4, <3>1 DEF Gate!Unblock, BlockedSeen
    <3>3. QED BY <3>2 DEF Gate!Next
  <2>6. CASE Removed /\ Blocked(a)' /\ Blocked(a)
    <3>1. BlockedSeen' = BlockedSeen BY <2>6, <2>o DEF BlockedSeen
    <3>2. QED BY <2>1, <3>1, Unseen DEF GrantsSeen, ExecutedSeen
  <2>7. CASE UNCHANGED rules
    BY <2>1, <2>7, Unseen DEF GrantsSeen, ExecutedSeen, BlockedSeen, Blocked
  <2>9. \/ Removed /\ Blocked(a)
        \/ UNCHANGED rules
    BY <1>5, <2>r, <2>2, <2>4 DEF RollbackDelete, RulePresent, Blocked
  <2>10. QED BY <2>5, <2>6, <2>7, <2>9
<1>6. ASSUME \/ \E r \in Replicas : PublishProposed(r) \/ GuardianRecheck(r)
             \/ \E w \in Workers : AuditBlocked(w) \/ PublishExecuted(w)
             \/ \E q \in Requests : RollbackAudit(q) \/ PublishKillSwitch(q)
      PROVE  UNCHANGED Gate!vars
  <2>1. UNCHANGED <<tier, executed, rules>>
    BY <1>6 DEF PublishProposed, GuardianRecheck, AuditBlocked, PublishExecuted,
                RollbackAudit, PublishKillSwitch
  <2>2. GrantsSeen' = GrantsSeen
    BY <1>6, NoGrant
    DEF PublishProposed, GuardianRecheck, AuditBlocked, PublishExecuted,
        RollbackAudit, PublishKillSwitch, RowKinds, GrantsSeen
  <2>3. QED BY <2>1, <2>2, Unseen DEF ExecutedSeen, BlockedSeen, Blocked
<1>7. ASSUME \/ \E i \in Incidents : Classify(i)
             \/ \E r \in Replicas : \/ Receive(r) \/ SendProposed(r) \/ RequestApproval(r)
                                    \/ Crash(r) \/ Restart(r)
             \/ \E w \in Workers : ReadProposal(w) \/ ReadTenant(w) \/ CheckRule(w) \/ Raise(w)
             \/ \E q \in Requests : \/ CommitDecision(q) \/ RollbackCheck(q) \/ RollbackCommit(q)
                                    \/ CommitSwitch(q)
             \/ \E q \in Requests, u \in Users : HumanStep(q, u)
             \/ UNCHANGED vars
      PROVE  UNCHANGED Gate!vars
  <2> DEFINE Untouched == UNCHANGED <<tier, executed, ledger, rules>>
  <2>1. UNCHANGED <<tier, executed, ledger, rules>>
    <3>1. ASSUME \/ \E i \in Incidents : Classify(i)
                 \/ \E r \in Replicas : \/ Receive(r) \/ SendProposed(r) \/ RequestApproval(r)
                                        \/ Crash(r) \/ Restart(r)
          PROVE  Untouched
      BY <3>1 DEF Classify, Receive, SendProposed, RequestApproval, Crash, Restart, dbVars
    <3>2. ASSUME NEW w \in Workers, ReadProposal(w) \/ ReadTenant(w) \/ CheckRule(w) \/ Raise(w)
          PROVE  Untouched
      BY <3>2 DEF ReadProposal, ReadTenant, CheckRule, Raise, dbVars
    <3>3. ASSUME NEW q \in Requests,
                 \/ CommitDecision(q) \/ RollbackCheck(q) \/ RollbackCommit(q) \/ CommitSwitch(q)
                 \/ \E u \in Users : HumanStep(q, u)
          PROVE  Untouched
      BY <3>3 DEF CommitDecision, RollbackCheck, RollbackCommit, CommitSwitch, HumanStep,
                  StartDecide, StartRollback, StartSwitch, dbVars
    <3>4. CASE UNCHANGED vars BY <3>4 DEF vars, dbVars
    <3> HIDE DEF Untouched
    <3>5. Untouched BY <1>7, <3>1, <3>2, <3>3, <3>4 DEF Untouched
    <3>6. QED BY <3>5 DEF Untouched
  <2>2. QED BY <2>1, Unseen DEF GrantsSeen, ExecutedSeen, BlockedSeen, Blocked
<1>8. QED
  BY <1>1, <1>2, <1>3, <1>4, <1>5, <1>6, <1>7
  DEF Next, LoopStep, ExecuteStep, RequestStep

\* Every behaviour of the handlers, crashes and races included, is one the gate
\* allows (response.py:23-152, approvals.py:47-93, actions.py:18-49).
THEOREM Implementation == Spec => ImplementsGate
<1>1. Init => Gate!Init BY MapsInit
<1>2. GateInv /\ [Next]_vars => [Gate!Next]_(Gate!vars) BY MapsStep
<1>3. QED BY <1>1, <1>2, GateInvariant, PTL DEF Spec, ImplementsGate, Gate!Spec

=============================================================================
