-------------------------- MODULE ActionGate_overlap --------------------------
(* Proofs about ActionGate with any number of requests, loops and hosts side  *)
(* by side and every fault: what the documents promise of decisions, of the    *)
(* records and of roll backs holds of every proposal and address but those the *)
(* history variables name, where handlers overlapped or were cut short in one  *)
(* of the ways that do break it.                                               *)
EXTENDS ActionGate_proofs

USE DEF At, Goto, GotoPlain, Finish, Audit, Broadcast, BranchOn, AfterDecision,
        AfterCommit, Workers, Exists, Row

-----------------------------------------------------------------------------
\* The invariant behind the decisions: whose turn it is with a proposal.

\* The classification of incident i, as the loops hear of it.
News(i) == [chan |-> "incidents.classified", inc |-> i, severity |-> Case[i].severity]
Told(i, r) == \E n \in DOMAIN inbox[r] : inbox[r][n] = News(i)

\* r has not begun to propose for i.
Unproposed(i, r) == /\ tier[<<i, r>>] = "none"
                    /\ ~(job[r].at = "propose" /\ job[r].prop = <<i, r>>)

\* An incident is announced to r once, and r proposes for it once.
Once(r) ==
  \A i \in Incidents :
    /\ i \in unclassified \/ Told(i, r) => Unproposed(i, r)
    /\ i \in unclassified => ~Told(i, r)
    /\ \A m, n \in DOMAIN inbox[r] : inbox[r][m] = News(i) /\ inbox[r][n] = News(i) => m = n

Early == {"pub_proposed", "send_proposed", "ask"}
Deciding == {"decide", "pub_decision"} \union ExecutePoints

\* What worker w relies on from its first step with a proposal to its last: its
\* loop is alone with it until a human is asked; requests find the row they
\* read, if no other was about to decide it too.
Turn(w) ==
  LET p == job[w].prop
      at == job[w].at
  IN  /\ w \in Replicas => /\ at \in {"idle", "propose"} \union Early \union ExecutePoints
                           /\ at # "idle" => p[2] = w
      /\ w \in Requests => /\ at \notin {"propose"} \union Early
                           /\ at \in Deciding => status[p] # "none"
      /\ at = "propose" => tier[p] = "none"
      /\ at \in Early => status[p] = "none" /\ ~executed[p]
      /\ w \in Replicas /\ at \in ExecutePoints => tier[p] = "tier1_auto"
      /\ w \in Requests /\ p \notin contested =>
           /\ at = "decide" => status[p] = "pending"
           /\ at = "pub_decision" => status[p] = IF job[w].approve THEN "approved" ELSE "rejected"
           /\ at \in ExecutePoints => status[p] = "approved"

\* Only a contested proposal has two requests about to decide it.
Alone(v, w) ==
  v # w /\ At(v, "decide") /\ At(w, "decide") /\ job[v].prop = job[w].prop =>
    job[v].prop \in contested

\* What is executed was automatic, or approved and not decided since.
Decided(p) == executed[p] /\ p \notin contested => tier[p] = "tier1_auto" \/ status[p] = "approved"

TurnsInv == /\ GateInv
            /\ \A r \in Replicas : Once(r)
            /\ \A w \in Workers : Turn(w)
            /\ \A v, w \in Requests : Alone(v, w)
            /\ \A p \in Proposals : Decided(p)

-----------------------------------------------------------------------------
\* The rows of a proposal, and who writes them.

SameRows(p) == tier'[p] = tier[p] /\ status'[p] = status[p] /\ executed'[p] = executed[p]

Active(w) == job[w].at \notin {"idle", "switch", "pub_kill"} \union RollbackPoints

LEMMA JobOf ==
  ASSUME TypeOK, NEW w \in Workers
  PROVE  /\ job[w] \in Jobs /\ job[w].at \in StepNames
         /\ job[w].approve \in BOOLEAN /\ job[w].ok \in BOOLEAN
         /\ job \in [Workers -> Jobs]
BY JobTypes DEF TypeOK

\* What the parts of the gate's invariant say of a worker that is under way.
LEMMA Holds ==
  ASSUME GateInv, NEW w \in Workers, job[w].at \notin {"idle", "switch", "pub_kill"}
  PROVE  /\ job[w].prop \in Proposals /\ Consistent(job[w].prop)
         /\ job[w].at \in ExecutePoints => Exists(job[w].prop) /\ Cleared(job[w].prop)
BY DEF GateInv, Knows

\* History is not undone.
LEMMA HistoryGrows ==
  ASSUME [Next]_vars
  PROVE  contested \subseteq contested' /\ disturbed \subseteq disturbed' /\ unlogged \subseteq unlogged'
<1> DEFINE More == contested \subseteq contested' /\ disturbed \subseteq disturbed'
                   /\ unlogged \subseteq unlogged'
<1> USE DEF history
<1>1. ASSUME NEW r \in Replicas, LoopStep(r) PROVE More
  BY <1>1 DEF LoopStep, Receive, Propose, PublishProposed, SendProposed, RequestApproval,
              GuardianRecheck
<1>2. ASSUME NEW w \in Workers, ExecuteStep(w) PROVE More
  BY <1>2 DEF ExecuteStep, ReadProposal, ReadTenant, AuditBlocked, CheckRule, InsertRule,
              CommitExecution, PublishExecuted, Begins, Probe
<1>3. ASSUME NEW q \in Requests, RequestStep(q) PROVE More
  BY <1>3 DEF RequestStep, CommitDecision, PublishDecision, RollbackCheck, RollbackDelete,
              RollbackCommit, RollbackAudit, CommitSwitch, PublishKillSwitch, Probe
<1>4. ASSUME NEW q \in Requests, NEW u \in Users, HumanStep(q, u) PROVE More
  BY <1>4 DEF HumanStep, StartDecide, StartRollback, StartSwitch, Begins
<1>5. ASSUME \/ \E i \in Incidents : Classify(i)
             \/ \E r \in Replicas : Crash(r) \/ Restart(r)
             \/ \E w \in Workers : Raise(w)
             \/ UNCHANGED vars
      PROVE  More
  BY <1>5 DEF Classify, Crash, Restart, Raise, Cut, vars
<1> HIDE DEF More, history
<1>6. More BY <1>1, <1>2, <1>3, <1>4, <1>5 DEF Next
<1>7. QED BY <1>6 DEF More

\* A worker that stays where it is keeps its turn while its rows stay.
LEMMA TurnStays ==
  ASSUME NEW w \in Workers, Turn(w), job'[w] = job[w], Active(w) => SameRows(job[w].prop),
         contested \subseteq contested'
  PROVE  Turn(w)'
<1>1. ASSUME ~Active(w) PROVE Turn(w)'
  BY <1>1 DEF Active, Turn, Early, Deciding, ExecutePoints, RollbackPoints
<1>2. ASSUME SameRows(job[w].prop) PROVE Turn(w)'
  BY <1>2 DEF SameRows, Turn
<1>3. QED BY <1>1, <1>2

\* ... and one that ends its handler has none.
LEMMA NoTurn == ASSUME NEW w \in Workers, job'[w] = Idle PROVE Turn(w)'
BY GateAssumption DEF Idle, Turn, Early, Deciding, ExecutePoints

\* The steps that write a row of the worker's proposal.
Writes(v) == \/ v \in Replicas /\ (Propose(v) \/ RequestApproval(v))
             \/ v \in Requests /\ CommitDecision(v)
             \/ CommitExecution(v)

\* The rows of a proposal are written by a worker that is at work on it.
LEMMA Writers ==
  ASSUME GateInv, [Next]_vars, NEW p \in Proposals
  PROVE  SameRows(p) \/ \E v \in Workers : Active(v) /\ job[v].prop = p /\ job'[v] # job[v] /\ Writes(v)
<1> USE DEF dbVars
<1>t. TypeOK /\ job \in [Workers -> Jobs] BY DEF GateInv, TypeOK
<1>1. ASSUME NEW r \in Replicas, Propose(r), ~SameRows(p)
      PROVE  Active(r) /\ job[r].prop = p /\ job'[r] # job[r] /\ Writes(r)
  <2>1. job[r].at = "propose" /\ job'[r].at = "pub_proposed" BY <1>1, <1>t DEF Propose, Jobs
  <2>2. job[r].prop = p BY <1>1, <1>t DEF Propose, SameRows, TypeOK
  <2>3. QED BY <1>1, <2>1, <2>2 DEF Active, RollbackPoints, Writes
<1>2. ASSUME NEW r \in Replicas, RequestApproval(r), ~SameRows(p)
      PROVE  Active(r) /\ job[r].prop = p /\ job'[r] # job[r] /\ Writes(r)
  <2>1. job[r].at = "ask" /\ job'[r].at = "idle" BY <1>2, <1>t DEF RequestApproval, Idle
  <2>2. job[r].prop = p BY <1>2, <1>t DEF RequestApproval, SameRows, TypeOK
  <2>3. QED BY <1>2, <2>1, <2>2 DEF Active, RollbackPoints, Writes
<1>3. ASSUME NEW q \in Requests, CommitDecision(q), ~SameRows(p)
      PROVE  Active(q) /\ job[q].prop = p /\ job'[q] # job[q] /\ Writes(q)
  <2>1. job[q].at = "decide" /\ job'[q].at = "pub_decision" BY <1>3, <1>t DEF CommitDecision, Jobs
  <2>2. job[q].prop = p BY <1>3, <1>t DEF CommitDecision, SameRows, TypeOK
  <2>3. QED BY <1>3, <2>1, <2>2 DEF Active, RollbackPoints, Writes
<1>4. ASSUME NEW w \in Workers, CommitExecution(w), ~SameRows(p)
      PROVE  Active(w) /\ job[w].prop = p /\ job'[w] # job[w] /\ Writes(w)
  <2>1. job[w].at = "commit" /\ job'[w].at = "pub_executed" BY <1>4, <1>t DEF CommitExecution, Idle
  <2>2. job[w].prop = p BY <1>4, <1>t DEF CommitExecution, SameRows, TypeOK
  <2>3. QED BY <1>4, <2>1, <2>2 DEF Active, RollbackPoints, Writes
<1>5. ASSUME NEW r \in Replicas, LoopStep(r), ~Propose(r), ~RequestApproval(r) PROVE SameRows(p)
  BY <1>5 DEF LoopStep, Receive, PublishProposed, SendProposed, GuardianRecheck, SameRows
<1>6. ASSUME NEW w \in Workers, ExecuteStep(w), ~CommitExecution(w) PROVE SameRows(p)
  BY <1>6 DEF ExecuteStep, ReadProposal, ReadTenant, AuditBlocked, CheckRule, InsertRule,
              PublishExecuted, SameRows
<1>7. ASSUME NEW q \in Requests, RequestStep(q), ~CommitDecision(q) PROVE SameRows(p)
  BY <1>7 DEF RequestStep, PublishDecision, RollbackCheck, RollbackDelete, RollbackCommit,
              RollbackAudit, CommitSwitch, PublishKillSwitch, SameRows
<1>8. ASSUME NEW q \in Requests, NEW u \in Users, HumanStep(q, u) PROVE SameRows(p)
  BY <1>8 DEF HumanStep, StartDecide, StartRollback, StartSwitch, SameRows
<1>9. ASSUME \/ \E i \in Incidents : Classify(i)
             \/ \E r \in Replicas : Crash(r) \/ Restart(r)
             \/ \E w \in Workers : Raise(w)
             \/ UNCHANGED vars
      PROVE  SameRows(p)
  BY <1>9 DEF Classify, Crash, Restart, Raise, vars, SameRows
<1> HIDE DEF dbVars
<1>10. QED
  BY <1>1, <1>2, <1>3, <1>4, <1>5, <1>6, <1>7, <1>8, <1>9 DEF Next, ExecuteStep, RequestStep, LoopStep

\* What another worker writes of its proposal leaves a worker its turn.
LEMMA TurnDespite ==
  ASSUME TurnsInv, contested \subseteq contested', NEW w \in Workers, job'[w] = job[w], Active(w),
         NEW v \in Workers, v # w, Active(v), job[v].prop = job[w].prop, Writes(v)
  PROVE  Turn(w)'
<1> DEFINE p == job[w].prop
<1>t. /\ tier \in [Proposals -> Tiers \union {"none"}]
      /\ executed \in [Proposals -> BOOLEAN]
      /\ status \in [Proposals -> Statuses]
      /\ Turn(v) /\ Turn(w) /\ p \in Proposals
      /\ v \in Requests /\ w \in Requests => Alone(v, w) /\ Alone(w, v)
  BY Holds DEF TurnsInv, GateInv, TypeOK, Active
<1>1. CASE v \in Replicas /\ Propose(v)
  <2>1. job[v].at = "propose" /\ p[2] = v /\ tier[p] = "none" BY <1>1, <1>t DEF Propose, Turn
  <2>2. Consistent(p) /\ status[p] = "none" BY <1>t, <2>1 DEF TurnsInv, GateInv, Consistent
  <2>3. w \notin Replicas BY <1>t, <2>1 DEF Turn, Active
  <2>4. job[w].at \notin Deciding BY <1>t, <2>2, <2>3 DEF Turn
  <2>5. QED BY <1>t, <2>3, <2>4 DEF Turn, Deciding, Early, ExecutePoints
<1>2. CASE v \in Replicas /\ RequestApproval(v)
  <2>1. job[v].at = "ask" /\ p[2] = v /\ status[p] = "none" BY <1>2, <1>t DEF RequestApproval, Turn, Early
  <2>2. w \notin Replicas BY <1>t, <2>1 DEF Turn, Active
  <2>3. job[w].at \notin Deciding BY <1>t, <2>1, <2>2 DEF Turn
  <2>4. QED BY <1>t, <2>2, <2>3 DEF Turn, Deciding, Early, ExecutePoints
<1>3. CASE v \in Requests /\ CommitDecision(v)
  <2>1. job[v].at = "decide" /\ status[p] # "none" /\ (p \notin contested => status[p] = "pending")
    BY <1>3, <1>t DEF CommitDecision, Turn, Deciding
  <2>2. tier' = tier /\ executed' = executed /\ status'[p] \in {"approved", "rejected"}
    BY <1>3, <1>t DEF CommitDecision
  <2>3. CASE w \in Replicas
    <3>1. job[w].at \notin Early BY <1>t, <2>1 DEF Turn
    <3>2. QED BY <1>t, <2>2, <2>3, <3>1, GateAssumption DEF Turn, Early
  <2>4. CASE w \in Requests
    <3>1. p \notin contested => job[w].at \notin Deciding
      BY <1>3, <1>t, <2>1, <2>4 DEF Turn, Alone, Deciding
    <3>2. p \notin contested' => p \notin contested OBVIOUS
    <3>3. QED BY <1>t, <2>2, <2>4, <3>1, <3>2, GateAssumption DEF Turn, Deciding, Early
  <2>5. QED BY <2>3, <2>4
<1>4. CASE CommitExecution(v)
  <2>1. job[v].at = "commit" BY <1>4 DEF CommitExecution
  <2>2. tier' = tier /\ status' = status BY <1>4 DEF CommitExecution
  <2>3. ASSUME job[w].at \in Early PROVE FALSE
    <3>1. w \in Replicas /\ p[2] = w /\ status[p] = "none" BY <1>t, <2>3 DEF Turn, Early
    <3>2. CASE v \in Replicas BY <1>t, <2>1, <3>1, <3>2 DEF Turn
    <3>3. CASE v \in Requests BY <1>t, <2>1, <3>1, <3>3 DEF Turn, Deciding, ExecutePoints
    <3>4. QED BY <3>2, <3>3
  <2>4. QED BY <1>t, <2>2, <2>3 DEF Turn
<1>5. QED BY <1>1, <1>2, <1>3, <1>4 DEF Writes

-----------------------------------------------------------------------------
\* The steps of worker v that do not end its handler.
Moves(v) ==
  \/ v \in Replicas /\ (Receive(v) \/ Propose(v) \/ PublishProposed(v) \/ SendProposed(v))
  \/ ReadProposal(v) \/ ReadTenant(v) \/ CheckRule(v) \/ InsertRule(v) \/ CommitExecution(v)
  \/ v \in Requests /\ \/ CommitDecision(v) \/ PublishDecision(v)
                        \/ RollbackCheck(v) \/ RollbackDelete(v) \/ RollbackCommit(v)
                        \/ CommitSwitch(v)
                        \/ \E u \in Users : HumanStep(v, u)

\* Only its own steps move a worker, or what ends its handler.
LEMMA Mover ==
  ASSUME TypeOK, [Next]_vars, NEW v \in Workers
  PROVE  job'[v] = job[v] \/ job'[v] = Idle \/ Moves(v)
<1>t. job \in [Workers -> Jobs] BY DEF TypeOK
<1> DEFINE Moved == job'[v] = job[v] \/ job'[v] = Idle \/ Moves(v)
<1> USE DEF dbVars
<1>1. ASSUME NEW r \in Replicas, LoopStep(r) PROVE Moved
  BY <1>1, <1>t DEF LoopStep, Receive, Propose, PublishProposed, SendProposed, RequestApproval,
                    GuardianRecheck, Moves
<1>2. ASSUME NEW w \in Workers, ReadProposal(w) \/ ReadTenant(w) \/ AuditBlocked(w) PROVE Moved
  BY <1>2, <1>t DEF ReadProposal, ReadTenant, AuditBlocked, Moves
<1>3. ASSUME NEW w \in Workers, CheckRule(w) \/ InsertRule(w) PROVE Moved
  BY <1>3, <1>t DEF CheckRule, InsertRule, Moves
<1>4. ASSUME NEW w \in Workers, CommitExecution(w) \/ PublishExecuted(w) PROVE Moved
  BY <1>4, <1>t DEF CommitExecution, PublishExecuted, Moves
<1>5. ASSUME NEW q \in Requests, CommitDecision(q) \/ PublishDecision(q) PROVE Moved
  BY <1>5, <1>t DEF CommitDecision, PublishDecision, Moves
<1>6. ASSUME NEW q \in Requests, RollbackCheck(q) \/ RollbackDelete(q) PROVE Moved
  BY <1>6, <1>t DEF RollbackCheck, RollbackDelete, Moves
<1>7. ASSUME NEW q \in Requests, RollbackCommit(q) \/ RollbackAudit(q) \/ CommitSwitch(q) \/ PublishKillSwitch(q)
      PROVE  Moved
  BY <1>7, <1>t DEF RollbackCommit, RollbackAudit, CommitSwitch, PublishKillSwitch, Moves
<1>8. ASSUME NEW q \in Requests, NEW u \in Users, HumanStep(q, u) PROVE Moved
  <2>1. CASE v = q BY <1>8, <2>1 DEF Moves
  <2>2. CASE v # q
    BY <1>8, <1>t, <2>2 DEF HumanStep, StartDecide, StartRollback, StartSwitch
  <2>3. QED BY <2>1, <2>2
<1>9. ASSUME \/ \E i \in Incidents : Classify(i)
             \/ \E r \in Replicas : Crash(r) \/ Restart(r)
             \/ \E w \in Workers : Raise(w)
             \/ UNCHANGED vars
      PROVE  Moved
  BY <1>9, <1>t DEF Classify, Crash, Restart, Raise, vars
<1> HIDE DEF Moved, dbVars
<1>10. Moved
  BY <1>1, <1>2, <1>3, <1>4, <1>5, <1>6, <1>7, <1>8, <1>9 DEF Next, ExecuteStep, RequestStep
<1>11. QED BY <1>10 DEF Moved

-----------------------------------------------------------------------------
\* A worker that goes on executing keeps its turn.
LEMMA TurnExecuting ==
  ASSUME NEW w \in Workers, Turn(w), job[w].at \in ExecutePoints, job'[w].at \in ExecutePoints,
         job'[w].prop = job[w].prop, contested' = contested,
         tier'[job[w].prop] = tier[job[w].prop], status'[job[w].prop] = status[job[w].prop]
  PROVE  Turn(w)'
<1>1. job'[w].at \notin {"idle", "propose", "decide", "pub_decision"} \union Early
  BY DEF ExecutePoints, Early
<1>2. job[w].at # "idle" BY DEF ExecutePoints
<1>3. QED BY <1>1, <1>2 DEF Turn, Deciding

\* A request that rolls back, or sets the switch, has no turn to keep.
LEMMA TurnRollingBack ==
  ASSUME NEW q \in Requests, job'[q].at \in RollbackPoints \union {"switch", "pub_kill"}
  PROVE  Turn(q)'
BY GateAssumption DEF Turn, RollbackPoints, ExecutePoints, Early, Deciding

\* A step of worker v leaves it its turn.
LEMMA OwnTurn ==
  ASSUME GateInv, NEW v \in Workers, Turn(v), v \in Replicas => Once(v), Moves(v)
  PROVE  Turn(v)'
<1>t. /\ job \in [Workers -> Jobs] /\ job[v] \in Jobs
      /\ tier \in [Proposals -> Tiers \union {"none"}]
      /\ executed \in [Proposals -> BOOLEAN]
      /\ status \in [Proposals -> Statuses]
  BY DEF GateInv, TypeOK
<1> DEFINE p == job[v].prop
<1>h. job[v].at \notin {"idle", "switch", "pub_kill"} => p \in Proposals /\ Consistent(p) BY Holds
<1> USE DEF dbVars, history
<1>1. CASE v \in Replicas /\ Receive(v)
  <2> DEFINE i == Head(inbox[v]).inc
  <2>1. inbox[v] \in Seq(Messages) /\ inbox[v] # <<>> BY <1>1 DEF Receive, GateInv, TypeOK
  <2>2. Head(inbox[v]) \in Messages /\ Head(inbox[v]) = inbox[v][1] /\ 1 \in DOMAIN inbox[v]
    BY <2>1
  <2>c. Carried(Head(inbox[v])) BY <1>1, <2>1, HeadCarried DEF GateInv, InboxCarried
  <2>3. i \in Incidents /\ Head(inbox[v]) = News(i)
    BY <1>1, <2>2, <2>c DEF Receive, Messages, News, Carried
  <2>4. Told(i, v) BY <2>2, <2>3 DEF Told
  <2>5. tier[<<i, v>>] = "none" BY <1>1, <2>3, <2>4 DEF Once, Unproposed
  <2>6. job'[v].at = "propose" /\ job'[v].prop = <<i, v>> BY <1>1, <1>t DEF Receive, Idle
  <2>7. tier'[<<i, v>>] = "none" BY <1>1, <2>5 DEF Receive
  <2>8. QED BY <1>1, <2>6, <2>7, GateAssumption DEF Turn, Early, Deciding, ExecutePoints
<1>2. CASE v \in Replicas /\ Propose(v)
  <2>1. job[v].at = "propose" /\ job'[v].at = "pub_proposed" /\ job'[v].prop = p
    BY <1>2, <1>t DEF Propose, Jobs
  <2>2. tier[p] = "none" /\ p[2] = v BY <1>2, <2>1 DEF Turn
  <2>3. status[p] = "none" /\ ~executed[p] BY <2>1, <2>2, <1>h DEF Consistent
  <2>4. status'[p] = "none" /\ ~executed'[p] BY <1>2, <2>3 DEF Propose
  <2>5. QED BY <1>2, <2>1, <2>2, <2>4, GateAssumption DEF Turn, Early, Deciding, ExecutePoints
<1>3. CASE v \in Replicas /\ PublishProposed(v)
  <2>1. job[v].at = "pub_proposed" /\ job'[v].at = "send_proposed" /\ job'[v].prop = p
    BY <1>3, <1>t DEF PublishProposed, Jobs
  <2>2. status[p] = "none" /\ ~executed[p] /\ p[2] = v BY <1>3, <2>1 DEF Turn, Early
  <2>3. status'[p] = "none" /\ ~executed'[p] BY <1>3, <2>2 DEF PublishProposed
  <2>4. QED BY <1>3, <2>1, <2>2, <2>3, GateAssumption DEF Turn, Early, Deciding, ExecutePoints
<1>4. CASE v \in Replicas /\ SendProposed(v)
  <2>1. job[v].at = "send_proposed" /\ job'[v].at = BranchOn(p) /\ job'[v].prop = p
    BY <1>4, <1>t DEF SendProposed, Jobs
  <2>2. status[p] = "none" /\ ~executed[p] /\ p[2] = v BY <1>4, <2>1 DEF Turn, Early
  <2>3. status'[p] = "none" /\ ~executed'[p] /\ tier'[p] = tier[p] BY <1>4, <2>2 DEF SendProposed
  <2>4. CASE tier[p] = "tier1_auto"
    BY <1>4, <2>1, <2>2, <2>3, <2>4, GateAssumption DEF Turn, Early, Deciding, ExecutePoints
  <2>5. CASE tier[p] # "tier1_auto"
    BY <1>4, <2>1, <2>2, <2>3, <2>5, GateAssumption DEF Turn, Early, Deciding, ExecutePoints
  <2>6. QED BY <2>4, <2>5
<1>5. CASE ReadProposal(v)
  <2>1. CASE executed[p] BY <1>5, <1>t, <2>1, NoTurn DEF ReadProposal
  <2>2. CASE ~executed[p]
    <3>1. job[v].at = "read" /\ job'[v].at = "tenant" /\ job'[v].prop = p
      BY <1>5, <1>t, <2>2 DEF ReadProposal, Jobs
    <3>2. tier' = tier /\ status' = status /\ executed' = executed BY <1>5 DEF ReadProposal
    <3>3. QED BY <1>5, <3>1, <3>2, TurnExecuting DEF ReadProposal, ExecutePoints
  <2>3. QED BY <2>1, <2>2
<1>6. CASE ReadTenant(v)
  <2>1. /\ job[v].at = "tenant" /\ job'[v].at \in {"blocked", "check", "commit"}
        /\ job'[v].prop = p
    BY <1>6, <1>t DEF ReadTenant, Jobs
  <2>2. tier' = tier /\ status' = status /\ executed' = executed BY <1>6 DEF ReadTenant
  <2>3. QED BY <1>6, <2>1, <2>2, TurnExecuting DEF ReadTenant, ExecutePoints
<1>7. CASE CheckRule(v)
  <2>1. job[v].at = "check" /\ job'[v].at \in {"insert", "commit"} /\ job'[v].prop = p
    BY <1>7, <1>t DEF CheckRule, Jobs
  <2>2. tier' = tier /\ status' = status /\ executed' = executed BY <1>7 DEF CheckRule
  <2>3. QED BY <1>7, <2>1, <2>2, TurnExecuting DEF CheckRule, ExecutePoints
<1>8. CASE InsertRule(v)
  <2>1. job[v].at = "insert" /\ job'[v].at = "commit" /\ job'[v].prop = p
    BY <1>8, <1>t DEF InsertRule, Jobs
  <2>2. tier' = tier /\ status' = status /\ executed' = executed BY <1>8 DEF InsertRule
  <2>3. QED BY <1>8, <2>1, <2>2, TurnExecuting DEF InsertRule, ExecutePoints
<1>9. CASE CommitExecution(v)
  <2>1. job[v].at = "commit" /\ job'[v].at = "pub_executed" /\ job'[v].prop = p
    BY <1>9, <1>t DEF CommitExecution, Idle
  <2>2. tier' = tier /\ status' = status BY <1>9 DEF CommitExecution
  <2>3. QED BY <1>9, <2>1, <2>2, TurnExecuting DEF CommitExecution, ExecutePoints
<1>10. CASE v \in Requests /\ CommitDecision(v)
  <2>1. /\ job[v].at = "decide" /\ job'[v].at = "pub_decision" /\ job'[v].prop = p
        /\ job'[v].approve = job[v].approve
    BY <1>10, <1>t DEF CommitDecision, Jobs
  <2>2. status'[p] = IF job[v].approve THEN "approved" ELSE "rejected"
    BY <1>10, <1>t, <1>h, <2>1 DEF CommitDecision
  <2>3. QED BY <1>10, <2>1, <2>2, GateAssumption DEF Turn, Early, Deciding, ExecutePoints
<1>11. CASE v \in Requests /\ PublishDecision(v)
  <2>1. CASE ~job[v].approve BY <1>11, <1>t, <2>1, NoTurn DEF PublishDecision
  <2>2. CASE job[v].approve
    <3>1. job' = [job EXCEPT ![v] = [Idle EXCEPT !.at = "read", !.prop = p]]
      BY <1>11, <2>2 DEF PublishDecision
    <3>2. job[v].at = "pub_decision" /\ job'[v].at = "read" /\ job'[v].prop = p
      BY <1>11, <1>t, <3>1 DEF PublishDecision, Idle
    <3>3. /\ status[p] # "none"
          /\ p \notin contested => status[p] = "approved"
      BY <1>11, <2>2, <3>2 DEF Turn, Deciding
    <3>4. status' = status /\ contested' = contested BY <1>11 DEF PublishDecision
    <3>5. QED BY <1>11, <3>2, <3>3, <3>4, GateAssumption DEF Turn, Early, Deciding, ExecutePoints
  <2>3. QED BY <2>1, <2>2
<1>12. CASE v \in Requests /\ (RollbackCheck(v) \/ RollbackDelete(v) \/ RollbackCommit(v))
  <2>1. RollbackCheck(v) => job'[v].at \in {"rb_delete", "rb_commit"}
    BY <1>t DEF RollbackCheck, Jobs
  <2>2. RollbackDelete(v) => job'[v].at = "rb_commit" BY <1>t DEF RollbackDelete, Jobs
  <2>3. RollbackCommit(v) => job'[v].at = "rb_audit" BY <1>t DEF RollbackCommit, Idle
  <2>4. job'[v].at \in RollbackPoints BY <1>12, <2>1, <2>2, <2>3 DEF RollbackPoints
  <2>5. QED BY <1>12, <2>4, TurnRollingBack
<1>13. ASSUME v \in Requests, NEW u \in Users, HumanStep(v, u) PROVE Turn(v)'
  <2>1. ASSUME NEW d \in Proposals, NEW approve \in BOOLEAN, StartDecide(v, u, d, approve)
        PROVE  Turn(v)'
    <3>1. job'[v].at = "decide" /\ job'[v].prop = d BY <2>1, <1>t DEF StartDecide, Idle
    <3>2. status'[d] = "pending" BY <2>1 DEF StartDecide, Decidable
    <3>3. QED BY <1>13, <3>1, <3>2, GateAssumption DEF Turn, Early, Deciding, ExecutePoints
  <2>2. ASSUME NEW d \in Proposals, StartRollback(v, u, d) PROVE Turn(v)'
    <3>1. job'[v].at \in {"rb_check", "rb_commit"} BY <2>2, <1>t DEF StartRollback, Idle
    <3>2. QED BY <1>13, <3>1, TurnRollingBack DEF RollbackPoints
  <2>3. ASSUME NEW t \in Tenants, NEW engaged \in BOOLEAN, StartSwitch(v, u, t, engaged)
        PROVE  Turn(v)'
    <3>1. job'[v].at = "switch" BY <2>3, <1>t DEF StartSwitch, Idle
    <3>2. QED BY <1>13, <3>1, TurnRollingBack
  <2>4. QED BY <1>13, <2>1, <2>2, <2>3 DEF HumanStep
<1>15. CASE v \in Requests /\ CommitSwitch(v)
  <2>1. job'[v].at = "pub_kill" BY <1>15, <1>t DEF CommitSwitch, Idle
  <2>2. QED BY <1>15, <2>1, TurnRollingBack
<1> HIDE DEF dbVars, history
<1>14. QED
  BY <1>15, <1>1, <1>2, <1>3, <1>4, <1>5, <1>6, <1>7, <1>8, <1>9, <1>10, <1>11, <1>12, <1>13 DEF Moves

\* Every step leaves every worker its turn.
LEMMA TurnStep ==
  ASSUME TurnsInv, [Next]_vars, NEW v \in Workers
  PROVE  Turn(v)'
<1>1. GateInv /\ TypeOK /\ Turn(v) /\ (v \in Replicas => Once(v)) BY DEF TurnsInv, GateInv
<1>g. contested \subseteq contested' BY HistoryGrows
<1>2. CASE Moves(v) BY <1>1, <1>2, OwnTurn
<1>3. CASE job'[v] = Idle BY <1>3, NoTurn
<1>4. CASE job'[v] = job[v]
  <2>1. ASSUME Active(v), ~SameRows(job[v].prop) PROVE Turn(v)'
    <3>1. job[v].prop \in Proposals BY <1>1, <2>1, Holds DEF Active
    <3>2. PICK w \in Workers : Active(w) /\ job[w].prop = job[v].prop /\ job'[w] # job[w] /\ Writes(w)
      BY <1>1, <2>1, <3>1, Writers
    <3>3. QED BY <1>4, <1>g, <2>1, <3>2, TurnDespite
  <2>2. QED BY <1>1, <1>4, <1>g, <2>1, TurnStays
<1>5. QED BY <1>1, <1>2, <1>3, <1>4, Mover

\* A request comes to be about to decide by StartDecide.
LEMMA DecidesByStarting ==
  ASSUME TypeOK, [Next]_vars, NEW q \in Requests, job'[q].at = "decide"
  PROVE  \/ job'[q] = job[q]
         \/ \E u \in Users, p \in Proposals, approve \in BOOLEAN :
              StartDecide(q, u, p, approve) /\ job'[q].prop = p
<1>t. job \in [Workers -> Jobs] /\ job[q] \in Jobs /\ q \in Workers /\ q \notin Replicas
  BY GateAssumption DEF TypeOK
<1>1. job'[q] = Idle => FALSE BY DEF Idle
<1>2. ~ReadProposal(q) \/ job'[q] = Idle BY <1>t DEF ReadProposal, Jobs
<1>3. ~ReadTenant(q) BY <1>t DEF ReadTenant, Jobs
<1>4. ASSUME CheckRule(q) PROVE FALSE
  <2>1. job'[q].at \in {"insert", "commit"} BY <1>4, <1>t DEF CheckRule, Jobs
  <2>2. QED BY <2>1
<1>5. ASSUME InsertRule(q) \/ CommitExecution(q) PROVE FALSE
  <2>1. InsertRule(q) => job'[q].at = "commit" BY <1>t DEF InsertRule, Jobs
  <2>2. CommitExecution(q) => job'[q].at = "pub_executed" BY <1>t DEF CommitExecution, Idle
  <2>3. QED BY <1>5, <2>1, <2>2
<1>6. ~CommitDecision(q) /\ ~CommitSwitch(q) BY <1>t DEF CommitDecision, CommitSwitch, Jobs, Idle
<1>7. PublishDecision(q) => job'[q] = Idle
  <2>1. ASSUME PublishDecision(q), job[q].approve PROVE FALSE
    <3>1. job' = [job EXCEPT ![q] = [Idle EXCEPT !.at = "read", !.prop = job[q].prop]]
      BY <2>1 DEF PublishDecision
    <3>2. QED BY <1>t, <3>1 DEF Idle
  <2>2. QED BY <1>t, <2>1 DEF PublishDecision
<1>8. ASSUME RollbackCheck(q) \/ RollbackDelete(q) \/ RollbackCommit(q) PROVE FALSE
  <2>1. RollbackCheck(q) => job'[q].at \in {"rb_delete", "rb_commit"}
    BY <1>t DEF RollbackCheck, Jobs
  <2>2. RollbackDelete(q) => job'[q].at = "rb_commit" BY <1>t DEF RollbackDelete, Jobs
  <2>3. RollbackCommit(q) => job'[q].at = "rb_audit" BY <1>t DEF RollbackCommit, Idle
  <2>4. QED BY <1>8, <2>1, <2>2, <2>3
<1>9. ASSUME NEW u \in Users, HumanStep(q, u)
      PROVE  \E p \in Proposals, approve \in BOOLEAN :
               StartDecide(q, u, p, approve) /\ job'[q].prop = p
  <2>1. ASSUME NEW p \in Proposals, StartRollback(q, u, p) PROVE FALSE
    BY <1>t, <2>1 DEF StartRollback, Idle
  <2>2. ASSUME NEW t \in Tenants, NEW engaged \in BOOLEAN, StartSwitch(q, u, t, engaged) PROVE FALSE
    BY <1>t, <2>2 DEF StartSwitch, Idle
  <2>3. ASSUME NEW p \in Proposals, NEW approve \in BOOLEAN, StartDecide(q, u, p, approve)
        PROVE  job'[q].prop = p
    BY <1>t, <2>3 DEF StartDecide, Idle
  <2>4. QED BY <1>9, <2>1, <2>2, <2>3 DEF HumanStep
<1>10. QED BY <1>t, <1>1, <1>2, <1>3, <1>4, <1>5, <1>6, <1>7, <1>8, <1>9, Mover DEF Moves

\* A proposal two requests are about to decide is on record as contested.
LEMMA AloneStep ==
  ASSUME TurnsInv, [Next]_vars, NEW v \in Requests, NEW w \in Requests
  PROVE  Alone(v, w)'
<1> SUFFICES ASSUME v # w, job'[v].at = "decide", job'[w].at = "decide", job'[v].prop = job'[w].prop
             PROVE  job'[v].prop \in contested'
  BY DEF Alone
<1>t. TypeOK /\ Alone(v, w) /\ contested \subseteq contested' /\ job \in [Workers -> Jobs]
  BY HistoryGrows DEF TurnsInv, GateInv, TypeOK
<1>1. CASE job'[v] = job[v] /\ job'[w] = job[w] BY <1>1, <1>t DEF Alone
<1>2. ASSUME NEW x \in Requests, NEW y \in Requests, x # y, job'[y].at = "decide",
             NEW u \in Users, NEW p \in Proposals, NEW approve \in BOOLEAN,
             StartDecide(x, u, p, approve), job'[y].prop = p
      PROVE  p \in contested'
  <2>1. job'[y] = job[y] BY <1>t, <1>2 DEF StartDecide
  <2>2. QED BY <1>2, <2>1 DEF StartDecide
<1>3. QED BY <1>1, <1>2, <1>t, DecidesByStarting

-----------------------------------------------------------------------------
\* A loop is about to propose only because it has just received an incident.
LEMMA ProposesByReceiving ==
  ASSUME TypeOK, [Next]_vars, NEW r \in Replicas, job'[r].at = "propose"
  PROVE  job'[r] = job[r] \/ Receive(r)
<1>t. job \in [Workers -> Jobs] /\ job[r] \in Jobs /\ r \notin Requests
  BY GateAssumption DEF TypeOK
<1>1. job'[r] = Idle => FALSE BY DEF Idle
<1>2. ~Propose(r) /\ ~PublishProposed(r)
  BY <1>t DEF Propose, PublishProposed, Jobs
<1>3. ASSUME SendProposed(r) PROVE FALSE
  <2>1. job'[r].at \in {"read", "ask"} BY <1>3, <1>t DEF SendProposed, Idle
  <2>2. QED BY <2>1
<1>4. ReadProposal(r) => job'[r] = Idle BY <1>t DEF ReadProposal, Jobs
<1>5. ~ReadTenant(r) BY <1>t DEF ReadTenant, Jobs
<1>6. ASSUME CheckRule(r) PROVE FALSE
  <2>1. job'[r].at \in {"insert", "commit"} BY <1>6, <1>t DEF CheckRule, Jobs
  <2>2. QED BY <2>1
<1>7. ~InsertRule(r) BY <1>t DEF InsertRule, Jobs
<1>8. ~CommitExecution(r) BY <1>t DEF CommitExecution, Idle
<1>9. QED BY <1>t, <1>1, <1>2, <1>3, <1>4, <1>5, <1>6, <1>7, <1>8, Mover DEF Moves

\* Only Propose writes a tier.
LEMMA TierWritten ==
  ASSUME [Next]_vars
  PROVE  tier' = tier \/ \E w \in Replicas : Propose(w)
<1> USE DEF dbVars
<1>1. ASSUME NEW r \in Replicas, LoopStep(r), ~Propose(r) PROVE tier' = tier
  BY <1>1 DEF LoopStep, Receive, PublishProposed, SendProposed, RequestApproval, GuardianRecheck
<1>2. ASSUME NEW w \in Workers, ExecuteStep(w) PROVE tier' = tier
  BY <1>2 DEF ExecuteStep, ReadProposal, ReadTenant, AuditBlocked, CheckRule, InsertRule,
              CommitExecution, PublishExecuted
<1>3. ASSUME NEW q \in Requests, RequestStep(q) PROVE tier' = tier
  BY <1>3 DEF RequestStep, CommitDecision, PublishDecision, RollbackCheck, RollbackDelete,
              RollbackCommit, RollbackAudit, CommitSwitch, PublishKillSwitch
<1>4. ASSUME NEW q \in Requests, NEW u \in Users, HumanStep(q, u) PROVE tier' = tier
  BY <1>4 DEF HumanStep, StartDecide, StartRollback, StartSwitch
<1>5. ASSUME \/ \E i \in Incidents : Classify(i)
             \/ \E r \in Replicas : Crash(r) \/ Restart(r)
             \/ \E w \in Workers : Raise(w)
             \/ UNCHANGED vars
      PROVE  tier' = tier
  BY <1>5 DEF Classify, Crash, Restart, Raise, vars
<1> HIDE DEF dbVars
<1>6. QED BY <1>1, <1>2, <1>3, <1>4, <1>5 DEF Next

\* What has not been proposed for stays so, unless its loop receives it.
LEMMA UnproposedStays ==
  ASSUME TurnsInv, [Next]_vars, NEW r \in Replicas, NEW i \in Incidents, Unproposed(i, r),
         Receive(r) => job'[r].prop # <<i, r>>
  PROVE  Unproposed(i, r)'
<1>t. TypeOK /\ tier \in [Proposals -> Tiers \union {"none"}] BY DEF TurnsInv, GateInv, TypeOK
<1>1. <<i, r>> \in Proposals BY DEF Proposals
<1>2. ~(job'[r].at = "propose" /\ job'[r].prop = <<i, r>>)
  BY <1>t, ProposesByReceiving DEF Unproposed
<1>3. tier'[<<i, r>>] = "none"
  <2>1. SUFFICES ASSUME tier'[<<i, r>>] # "none" PROVE FALSE
    OBVIOUS
  <2>2. ~SameRows(<<i, r>>) BY <2>1 DEF SameRows, Unproposed
  <2>3. ASSUME NEW w \in Replicas, Propose(w) PROVE FALSE
    <3>1. job[w].at = "propose" /\ w \in Workers BY <2>3 DEF Propose
    <3>2. job[w].prop[2] = w BY <3>1 DEF TurnsInv, Turn
    <3>3. job[w].prop = <<i, r>> BY <2>1, <2>3, <1>t, <1>1 DEF Propose, Unproposed
    <3>4. QED BY <3>1, <3>2, <3>3 DEF Unproposed
  <2>4. tier' = tier \/ \E w \in Replicas : Propose(w)
    BY TierWritten
  <2>5. QED BY <2>1, <2>3, <2>4 DEF Unproposed
<1>4. QED BY <1>2, <1>3 DEF Unproposed

\* Every message in an inbox stays where it was announced from: what a loop has
\* been told of, it was told of before, or an incident is classified just now.
Fresh(i, r) == /\ inbox'[r] = Append(inbox[r], News(i)) \/ inbox'[r] = inbox[r]
               /\ unclassified' = unclassified \ {i} /\ i \in unclassified
               /\ UNCHANGED <<tier, job>>

\* The announcement of proposal p.
Proposed(p) == [chan |-> "actions.proposed", prop |-> p, severity |-> CaseOf(p).severity]

\* The inbox grows by another message, or loses its first, or all of them.
Trimmed(r) == \/ inbox'[r] = inbox[r]
              \/ \E p \in Proposals :
                   inbox'[r] = Append(inbox[r], Proposed(p))
              \/ inbox[r] # <<>> /\ inbox'[r] = Tail(inbox[r])
              \/ inbox'[r] = <<>>

LEMMA TrimmedTells ==
  ASSUME NEW r \in Replicas, inbox[r] \in Seq(Messages), Trimmed(r), NEW i \in Incidents
  PROVE  /\ Told(i, r)' => Told(i, r)
         /\ (\A m, n \in DOMAIN inbox[r] : inbox[r][m] = News(i) /\ inbox[r][n] = News(i) => m = n)
            => (\A m, n \in DOMAIN inbox'[r] : inbox'[r][m] = News(i) /\ inbox'[r][n] = News(i) => m = n)
<1> DEFINE s == inbox[r]
           t == inbox'[r]
<1> SUFFICES /\ \A n \in DOMAIN t : t[n] = News(i) => \E k \in DOMAIN s : s[k] = News(i)
             /\ (\A m, n \in DOMAIN s : s[m] = News(i) /\ s[n] = News(i) => m = n)
                => (\A m, n \in DOMAIN t : t[m] = News(i) /\ t[n] = News(i) => m = n)
  BY DEF Told, News
<1>1. CASE t = s BY <1>1
<1>2. ASSUME NEW p \in Proposals, t = Append(s, Proposed(p))
      PROVE  \A n \in DOMAIN t : t[n] = News(i) => n \in DOMAIN s /\ s[n] = News(i)
  BY <1>2 DEF News, Proposed
<1>3. ASSUME s # <<>>, t = Tail(s)
      PROVE  \A n \in DOMAIN t : n + 1 \in DOMAIN s /\ t[n] = s[n + 1] /\ n \in Nat
  BY <1>3
<1>4. CASE t = <<>> BY <1>4
<1>5. CASE \E p \in Proposals : t = Append(s, Proposed(p))
  BY <1>2, <1>5
<1>6. CASE s # <<>> /\ t = Tail(s)
  <2>1. \A n \in DOMAIN t : t[n] = News(i) => \E k \in DOMAIN s : s[k] = News(i) BY <1>3, <1>6
  <2>2. ASSUME \A m, n \in DOMAIN s : s[m] = News(i) /\ s[n] = News(i) => m = n,
               NEW m \in DOMAIN t, NEW n \in DOMAIN t, t[m] = News(i), t[n] = News(i)
        PROVE  m = n
    <3>1. m + 1 = n + 1 /\ m \in Nat /\ n \in Nat BY <1>3, <1>6, <2>2
    <3>2. QED BY <3>1
  <2>3. QED BY <2>1, <2>2
<1>7. QED BY <1>1, <1>4, <1>5, <1>6 DEF Trimmed

\* Once an incident is announced, it is announced to a loop at most once.
LEMMA OnceTrimmed ==
  ASSUME NEW r \in Replicas, inbox[r] \in Seq(Messages), Once(r), Trimmed(r),
         unclassified' = unclassified,
         \A i \in Incidents : (i \in unclassified \/ Told(i, r)') /\ Unproposed(i, r) => Unproposed(i, r)'
  PROVE  Once(r)'
<1> SUFFICES ASSUME NEW i \in Incidents
             PROVE  /\ i \in unclassified \/ Told(i, r)' => Unproposed(i, r)'
                    /\ i \in unclassified => ~Told(i, r)'
                    /\ \A m, n \in DOMAIN inbox'[r] :
                         inbox'[r][m] = News(i) /\ inbox'[r][n] = News(i) => m = n
  BY DEF Once, News
<1>1. /\ i \in unclassified \/ Told(i, r) => Unproposed(i, r)
      /\ i \in unclassified => ~Told(i, r)
      /\ \A m, n \in DOMAIN inbox[r] : inbox[r][m] = News(i) /\ inbox[r][n] = News(i) => m = n
  BY DEF Once
<1>2. QED BY <1>1, TrimmedTells

LEMMA OnceFresh ==
  ASSUME NEW r \in Replicas, inbox[r] \in Seq(Messages), Once(r), NEW f \in Incidents, Fresh(f, r)
  PROVE  Once(r)'
<1> SUFFICES ASSUME NEW i \in Incidents
             PROVE  /\ i \in unclassified' \/ Told(i, r)' => Unproposed(i, r)'
                    /\ i \in unclassified' => ~Told(i, r)'
                    /\ \A m, n \in DOMAIN inbox'[r] :
                         inbox'[r][m] = News(i) /\ inbox'[r][n] = News(i) => m = n
  BY DEF Once, News
<1>1. /\ i \in unclassified \/ Told(i, r) => Unproposed(i, r)
      /\ i \in unclassified => ~Told(i, r)
      /\ \A m, n \in DOMAIN inbox[r] : inbox[r][m] = News(i) /\ inbox[r][n] = News(i) => m = n
  BY DEF Once
<1>2. Unproposed(i, r)' = Unproposed(i, r) BY DEF Fresh, Unproposed
<1>3. CASE inbox'[r] = inbox[r]
  <2>1. Told(i, r)' = Told(i, r) BY <1>3 DEF Told, News
  <2>2. QED BY <1>1, <1>2, <1>3, <2>1 DEF Fresh
<1>4. CASE inbox'[r] = Append(inbox[r], News(f))
  <2> DEFINE s == inbox[r]
             t == inbox'[r]
  <2>0. News(f) \in Messages /\ s \in Seq(Messages)
    BY GateAssumption DEF Messages, News, Cases
  <2>a. /\ Len(s) \in Nat /\ DOMAIN s = 1..Len(s) /\ DOMAIN t = 1..(Len(s) + 1)
        /\ \A n \in 1..(Len(s) + 1) : t[n] = IF n = Len(s) + 1 THEN News(f) ELSE s[n]
    BY <1>4, <2>0
  <2>1. /\ \A n \in DOMAIN t : (n \in DOMAIN s /\ t[n] = s[n]) \/ (n = Len(s) + 1 /\ t[n] = News(f))
        /\ \A n \in DOMAIN s : n # Len(s) + 1
    BY <2>a
  <2>2. News(f) = News(i) => f = i BY DEF News
  <2>3. CASE i = f
    <3>1. \A n \in DOMAIN s : s[n] # News(i) BY <1>1, <2>3 DEF Fresh, Told
    <3>2. Unproposed(i, r) /\ i \notin unclassified' BY <1>1, <2>3 DEF Fresh
    <3>3. QED BY <1>2, <2>1, <3>1, <3>2
  <2>4. CASE i # f
    <3>1. \A n \in DOMAIN t : t[n] = News(i) => n \in DOMAIN s /\ s[n] = News(i) BY <2>1, <2>2, <2>4
    <3>2. Told(i, r)' => Told(i, r) BY <3>1 DEF Told, News
    <3>3. QED BY <1>1, <1>2, <2>4, <3>1, <3>2 DEF Fresh
  <2>5. QED BY <2>3, <2>4
<1>5. QED BY <1>3, <1>4 DEF Fresh

\* A step announces an incident, or leaves the inboxes no other news.
LEMMA InboxStep ==
  ASSUME TypeOK, \A w \in Workers : Knows(w), [Next]_vars, NEW r \in Replicas
  PROVE  \/ \E i \in Incidents : Fresh(i, r)
         \/ Trimmed(r) /\ unclassified' = unclassified
<1>t. inbox \in [Replicas -> Seq(Messages)] BY DEF TypeOK
<1> DEFINE Plain == Trimmed(r) /\ unclassified' = unclassified
<1> USE DEF dbVars
<1>1. ASSUME NEW i \in Incidents, Classify(i) PROVE Fresh(i, r)
  <2>1. inbox'[r] = Append(inbox[r], News(i)) \/ inbox'[r] = inbox[r] BY <1>1, <1>t DEF Classify, News
  <2>2. QED BY <1>1, <2>1 DEF Classify, Fresh
<1>2. ASSUME NEW w \in Replicas, Receive(w) \/ GuardianRecheck(w) PROVE Plain
  <2>1. inbox' = [inbox EXCEPT ![w] = Tail(@)] /\ inbox[w] # <<>> /\ unclassified' = unclassified
    BY <1>2 DEF Receive, GuardianRecheck
  <2>2. CASE w = r BY <1>t, <2>1, <2>2 DEF Trimmed
  <2>3. CASE w # r BY <1>t, <2>1, <2>3 DEF Trimmed
  <2>4. QED BY <2>2, <2>3
<1>3. ASSUME NEW w \in Replicas, SendProposed(w) PROVE Plain
  <2>1. job[w].prop \in Proposals /\ job[w].severity = CaseOf(job[w].prop).severity
    BY <1>3 DEF SendProposed, Knows
  <2>2. QED BY <1>3, <1>t, <2>1 DEF SendProposed, SeveritySent, Trimmed, Proposed
<1>4. ASSUME NEW w \in Replicas, Propose(w) \/ PublishProposed(w) \/ RequestApproval(w) PROVE Plain
  BY <1>4 DEF Propose, PublishProposed, RequestApproval, Trimmed
<1>5. ASSUME NEW w \in Replicas, Crash(w) \/ Restart(w) PROVE Plain
  BY <1>5, <1>t DEF Crash, Restart, Trimmed
<1>6. ASSUME NEW w \in Workers, ExecuteStep(w) \/ Raise(w) PROVE Plain
  BY <1>6 DEF ExecuteStep, ReadProposal, ReadTenant, AuditBlocked, CheckRule, InsertRule,
              CommitExecution, PublishExecuted, Raise, Trimmed
<1>7. ASSUME NEW q \in Requests, RequestStep(q) PROVE Plain
  BY <1>7 DEF RequestStep, CommitDecision, PublishDecision, RollbackCheck, RollbackDelete,
              RollbackCommit, RollbackAudit, CommitSwitch, PublishKillSwitch, Trimmed
<1>8. ASSUME NEW q \in Requests, NEW u \in Users, HumanStep(q, u) PROVE Plain
  BY <1>8 DEF HumanStep, StartDecide, StartRollback, StartSwitch, Trimmed
<1>9. ASSUME UNCHANGED vars PROVE Plain
  BY <1>9 DEF vars, Trimmed
<1> HIDE DEF Plain, dbVars
<1>10. Plain \/ \E i \in Incidents : Fresh(i, r)
  BY <1>1, <1>2, <1>3, <1>4, <1>5, <1>6, <1>7, <1>8, <1>9 DEF Next, LoopStep
<1>11. QED BY <1>10 DEF Plain

\* Every step leaves every incident announced, and proposed for, once per loop.
LEMMA OnceStep ==
  ASSUME TurnsInv, [Next]_vars, NEW r \in Replicas
  PROVE  Once(r)'
<1>1. TypeOK /\ (\A w \in Workers : Knows(w)) /\ Once(r) /\ inbox[r] \in Seq(Messages)
  BY DEF TurnsInv, GateInv, TypeOK
<1>2. ASSUME NEW i \in Incidents, Fresh(i, r) PROVE Once(r)'
  BY <1>1, <1>2, OnceFresh
<1>3. ASSUME Trimmed(r), unclassified' = unclassified PROVE Once(r)'
  <2>1. ASSUME NEW i \in Incidents, i \in unclassified \/ Told(i, r)', Unproposed(i, r)
        PROVE  Unproposed(i, r)'
    <3>1. ASSUME Receive(r), job'[r].prop = <<i, r>> PROVE FALSE
      <4> DEFINE s == inbox[r]
      <4>1. s # <<>> /\ Head(s) \in Messages /\ Head(s) = s[1] /\ 1 \in DOMAIN s
            /\ inbox'[r] = Tail(s) /\ Head(s).chan = "incidents.classified"
        BY <1>1, <3>1 DEF Receive, TypeOK
      <4>2. Head(s) = News(Head(s).inc)
        <5>1. Carried(Head(s)) BY <1>1, <4>1, HeadCarried DEF TurnsInv, GateInv, InboxCarried
        <5>2. QED BY <4>1, <5>1 DEF Carried, Messages, News
      <4>3. job'[r].prop = <<Head(s).inc, r>> BY <1>1, <3>1 DEF Receive, Idle, TypeOK
      <4>4. s[1] = News(i) BY <3>1, <4>1, <4>2, <4>3
      <4>5. Told(i, r) BY <4>1, <4>4 DEF Told
      <4>6. PICK n \in DOMAIN Tail(s) : Tail(s)[n] = News(i)
        BY <1>1, <2>1, <4>1, <4>5 DEF Told, Once, News
      <4>7. n + 1 \in DOMAIN s /\ s[n + 1] = News(i) /\ n \in Nat /\ n > 0 BY <1>1, <4>1, <4>6
      <4>8. n + 1 = 1 BY <1>1, <2>1, <4>1, <4>4, <4>7 DEF Once
      <4>9. QED BY <4>7, <4>8
    <3>2. QED BY <2>1, <3>1, UnproposedStays
  <2>2. QED BY <1>1, <1>3, <2>1, OnceTrimmed
<1>4. QED BY <1>1, <1>2, <1>3, InboxStep

-----------------------------------------------------------------------------
\* The inductive invariant, and what it says of decisions.

\* Every step leaves what is executed automatic or approved.
LEMMA DecidedStep ==
  ASSUME TurnsInv, [Next]_vars, NEW p \in Proposals
  PROVE  Decided(p)'
<1>t. /\ tier \in [Proposals -> Tiers \union {"none"}]
      /\ executed \in [Proposals -> BOOLEAN]
      /\ status \in [Proposals -> Statuses]
      /\ Decided(p) /\ Consistent(p)
      /\ contested \subseteq contested'
  BY HistoryGrows DEF TurnsInv, GateInv, TypeOK
<1>1. CASE SameRows(p) BY <1>t, <1>1 DEF SameRows, Decided
<1>2. ASSUME NEW v \in Workers, Active(v), job[v].prop = p, Writes(v) PROVE Decided(p)'
  <2>1. Turn(v) BY DEF TurnsInv
  <2>2. CASE v \in Replicas /\ Propose(v)
    <3>1. tier[p] = "none" BY <1>2, <2>1, <2>2 DEF Propose, Turn
    <3>2. ~executed'[p] BY <1>t, <2>2, <3>1 DEF Propose, Consistent
    <3>3. QED BY <3>2 DEF Decided
  <2>3. CASE v \in Replicas /\ RequestApproval(v)
    <3>1. ~executed[p] BY <1>2, <2>1, <2>3 DEF RequestApproval, Turn, Early
    <3>2. ~executed'[p] BY <2>3, <3>1 DEF RequestApproval
    <3>3. QED BY <3>2 DEF Decided
  <2>4. CASE v \in Requests /\ CommitDecision(v)
    <3>1. p \notin contested => status[p] = "pending" BY <1>2, <2>1, <2>4 DEF CommitDecision, Turn
    <3>2. p \notin contested => ~executed'[p]
      BY <1>t, <2>4, <3>1 DEF CommitDecision, Decided, Consistent
    <3>3. QED BY <1>t, <3>2 DEF Decided
  <2>5. CASE CommitExecution(v)
    <3>1. p \notin contested => tier[p] = "tier1_auto" \/ status[p] = "approved"
      BY <1>2, <2>1, <2>5 DEF CommitExecution, Turn, ExecutePoints
    <3>2. tier' = tier /\ status' = status BY <2>5 DEF CommitExecution
    <3>3. QED BY <1>t, <3>1, <3>2 DEF Decided
  <2>6. QED BY <1>2, <2>2, <2>3, <2>4, <2>5 DEF Writes
<1>3. QED BY <1>1, <1>2, Writers DEF TurnsInv

LEMMA InitTurns == Init => TurnsInv
<1> SUFFICES ASSUME Init PROVE TurnsInv
  OBVIOUS
<1>1. GateInv BY InitInv
<1>2. ASSUME NEW r \in Replicas PROVE Once(r)
  <2>1. job[r] = Idle /\ inbox[r] = <<>> BY DEF Init
  <2>2. \A i \in Incidents : <<i, r>> \in Proposals BY DEF Proposals
  <2>3. \A i \in Incidents : Unproposed(i, r) BY <2>1, <2>2 DEF Init, Unproposed, Idle
  <2>4. QED BY <2>1, <2>3 DEF Once, Told
<1>3. ASSUME NEW w \in Workers PROVE Turn(w)
  <2>1. job[w].at = "idle" BY DEF Init, Idle
  <2>2. QED BY <2>1 DEF Turn, Early, Deciding, ExecutePoints
<1>4. \A p \in Proposals : Decided(p) BY DEF Init, Decided
<1>5. \A v, w \in Requests : Alone(v, w) BY DEF Init, Alone, Idle
<1>6. QED BY <1>1, <1>2, <1>3, <1>4, <1>5 DEF TurnsInv

LEMMA StepTurns == TurnsInv /\ [Next]_vars => TurnsInv'
<1> SUFFICES ASSUME TurnsInv, [Next]_vars PROVE TurnsInv'
  OBVIOUS
<1>1. GateInv' BY StepInv DEF TurnsInv
<1>2. \A r \in Replicas : Once(r)' BY OnceStep
<1>3. \A w \in Workers : Turn(w)' BY TurnStep
<1>4. \A p \in Proposals : Decided(p)' BY DecidedStep
<1>5. \A v, w \in Requests : Alone(v, w)' BY AloneStep
<1>6. QED BY <1>1, <1>2, <1>3, <1>4, <1>5 DEF TurnsInv

\* Whatever requests, loops and faults there are, workers find what they rely on.
THEOREM TurnsInvariant == Spec => []TurnsInv
<1>1. TurnsInv /\ [Next]_vars => TurnsInv' BY StepTurns
<1>2. QED BY <1>1, InitTurns, PTL DEF Spec

\* Decisions are written when a human is asked, and when one decides.
LEMMA DecisionsWritten ==
  ASSUME [Next]_vars
  PROVE  \/ UNCHANGED <<status, decider>>
         \/ \E q \in Requests : CommitDecision(q)
         \/ \E r \in Replicas : RequestApproval(r)
<1> DEFINE Same == UNCHANGED <<status, decider>>
<1> USE DEF dbVars
<1>1. ASSUME NEW r \in Replicas, LoopStep(r), ~RequestApproval(r) PROVE Same
  BY <1>1 DEF LoopStep, Receive, Propose, PublishProposed, SendProposed, GuardianRecheck
<1>2. ASSUME NEW w \in Workers, ExecuteStep(w) PROVE Same
  BY <1>2 DEF ExecuteStep, ReadProposal, ReadTenant, AuditBlocked, CheckRule, InsertRule,
              CommitExecution, PublishExecuted
<1>3. ASSUME NEW q \in Requests, RequestStep(q), ~CommitDecision(q) PROVE Same
  BY <1>3 DEF RequestStep, PublishDecision, RollbackCheck, RollbackDelete, RollbackCommit,
              RollbackAudit, CommitSwitch, PublishKillSwitch
<1>4. ASSUME NEW q \in Requests, NEW u \in Users, HumanStep(q, u) PROVE Same
  BY <1>4 DEF HumanStep, StartDecide, StartRollback, StartSwitch
<1>5. ASSUME \/ \E i \in Incidents : Classify(i)
             \/ \E r \in Replicas : Crash(r) \/ Restart(r)
             \/ \E w \in Workers : Raise(w)
             \/ UNCHANGED vars
      PROVE  Same
  BY <1>5 DEF Classify, Crash, Restart, Raise, vars
<1> HIDE DEF Same, dbVars
<1>6. Same \/ (\E q \in Requests : CommitDecision(q)) \/ (\E r \in Replicas : RequestApproval(r))
  BY <1>1, <1>2, <1>3, <1>4, <1>5 DEF Next
<1>7. QED BY <1>6 DEF Same

\* Unless two requests were about to decide it at once, a rejected action is
\* never executed nor about to be, with any number of requests and replicas and
\* every fault (approvals.py:67-88).
THEOREM RejectedStaysPut == Spec => []RejectedNeverRuns
<1>1. ASSUME TurnsInv, NEW p \in Proposals \ contested, status[p] = "rejected"
      PROVE  ~executed[p] /\ \A w \in Workers : job[w].prop = p => job[w].at \notin ExecutePoints
  <2>1. tier[p] # "tier1_auto" /\ Decided(p)
    BY <1>1 DEF TurnsInv, GateInv, Consistent
  <2>2. ~executed[p] BY <1>1, <2>1 DEF Decided
  <2>3. ASSUME NEW w \in Workers, job[w].prop = p, job[w].at \in ExecutePoints PROVE FALSE
    <3>1. Turn(w) BY <1>1 DEF TurnsInv
    <3>2. QED BY <1>1, <2>1, <2>3, <3>1 DEF Turn
  <2>4. QED BY <2>2, <2>3
<1>2. TurnsInv => RejectedNeverRuns BY <1>1 DEF RejectedNeverRuns
<1>3. Spec => []TurnsInv BY TurnsInvariant
<1>4. QED BY <1>2, <1>3, PTL

\* Under the same condition a decision, once committed, is neither reversed nor
\* reattributed, by whatever later request, retry or restart (approvals.py:59-74).
THEOREM DecisionsAreFinal == Spec => DecisionIsFinal
<1>1. ASSUME TurnsInv, [Next]_vars, NEW p \in Proposals \ contested, status[p] \in {"approved", "rejected"}
      PROVE  status'[p] = status[p] /\ decider'[p] = decider[p]
  <2>1. CASE UNCHANGED <<status, decider>> BY <2>1
  <2>2. ASSUME NEW q \in Requests, CommitDecision(q) PROVE p # job[q].prop
    BY <1>1, <2>2 DEF CommitDecision, TurnsInv, Turn
  <2>3. ASSUME NEW r \in Replicas, RequestApproval(r) PROVE p # job[r].prop
    BY <1>1, <2>3 DEF RequestApproval, TurnsInv, Turn, Early
  <2>4. /\ status \in [Proposals -> Statuses]
        /\ decider \in [Proposals -> Users \union {Nobody}]
    BY <1>1 DEF TurnsInv, GateInv, TypeOK
  <2>5. ASSUME NEW q \in Requests, CommitDecision(q)
        PROVE  status'[p] = status[p] /\ decider'[p] = decider[p]
    BY <2>2, <2>4, <2>5 DEF CommitDecision
  <2>6. ASSUME NEW r \in Replicas, RequestApproval(r)
        PROVE  status'[p] = status[p] /\ decider'[p] = decider[p]
    BY <2>3, <2>4, <2>6 DEF RequestApproval
  <2>7. QED BY <1>1, <2>1, <2>5, <2>6, DecisionsWritten
<1>2. TurnsInv /\ [Next]_vars =>
        [\A p \in Proposals \ contested : status[p] \in {"approved", "rejected"} =>
           status'[p] = status[p] /\ decider'[p] = decider[p]]_vars
  BY <1>1
<1>3. Spec => []TurnsInv BY TurnsInvariant
<1>4. QED BY <1>2, <1>3, PTL DEF Spec, DecisionIsFinal


-----------------------------------------------------------------------------
\* The records.

\* Dry runs reach no firewall, and a result belongs to an execution.
DryInv == ~RealExecution => \A a \in Addresses : ~Blocked(a)
ResultInv == \A p \in Proposals : result[p] # NoResult => executed[p]

\* The points at which a firewall command is next.
CommandPoints == {"check", "insert", "rb_check", "rb_delete"}
Armed(w) == job[w].at \in CommandPoints => RealExecution

\* Undisturbed, a chain has one rule for an address at most.
Chain(a) == a \notin disturbed => \A r \in Replicas : rules[r][a] <= 1

\* The worker that runs commands for an address is the only one, on the only
\* host with a rule for it.
Solo(w, a) == /\ \A v \in Workers \ {w} : ~Commands(v, a)
              /\ \A r \in Replicas \ {ReplicaOf(w)} : rules[r][a] = 0

\* What it found, on its host and in the table, is still so.
Sees(w, a) ==
  LET at == job[w].at
      here == rules[ReplicaOf(w)][a]
  IN  /\ at \in {"tenant", "check", "insert", "commit"} => ~executed[job[w].prop]
      /\ at \in {"insert", "rb_check", "rb_delete"} => ~job[w].ok
      /\ at = "insert" => here = 0
      /\ at = "commit" /\ job[w].ok => here > 0
      /\ at = "rb_delete" => here > 0
      /\ at = "rb_commit" => (job[w].ok <=> here = 0)

Wall(w, a) == Commands(w, a) /\ a \notin disturbed => Solo(w, a) /\ Sees(w, a)

WallInv == /\ GateInv
           /\ DryInv /\ ResultInv
           /\ \A w \in Workers : Armed(w)
           /\ \A a \in Addresses : Chain(a)
           /\ \A w \in Workers, a \in Addresses : Wall(w, a)

RecordsInv == WallInv /\ RolledBackIsUnblocked /\ RecordsAgree

-----------------------------------------------------------------------------
\* Commands, read off a worker's record.
Runs(j, a) == j.at \in SequencePoints /\ Enforced(j.prop) /\ CaseOf(j.prop).ip = a

LEMMA CommandsRun ==
  ASSUME NEW w, NEW a
  PROVE  Commands(w, a) = Runs(job[w], a) /\ Commands(w, a)' = Runs(job'[w], a)
BY DEF Commands, Runs, Enforced, UsesFirewall, CaseOf

\* Outside a dry run, the blocks of an address are what is enforced there.
LEMMA Targets ==
  ASSUME NEW p, NEW a \in Addresses
  PROVE  /\ RealExecution /\ TargetIs(p, a) => Enforced(p) /\ CaseOf(p).ip = a
         /\ Enforced(p) /\ CaseOf(p).ip = a => RealExecution /\ TargetIs(p, a)
         /\ TargetIs(p, a)' = TargetIs(p, a)
BY GateAssumption DEF Enforced, UsesFirewall, TargetIs, CaseOf

\* A worker at a firewall command runs commands for its address.
LEMMA AtCommand ==
  ASSUME WallInv, NEW w \in Workers, job[w].at \in CommandPoints
  PROVE  /\ job[w].prop \in Proposals /\ CaseOf(job[w].prop).ip \in Addresses
         /\ Commands(w, CaseOf(job[w].prop).ip)
<1>1. Knows(w) /\ Armed(w) BY DEF WallInv, GateInv
<1>2. job[w].prop \in Proposals /\ TargetIs(job[w].prop, CaseOf(job[w].prop).ip)
  BY <1>1 DEF Knows, CommandPoints
<1>3. CaseOf(job[w].prop).ip \in Addresses BY <1>2 DEF TargetIs
<1>4. RealExecution BY <1>1 DEF Armed
<1>5. job[w].at \in SequencePoints BY DEF CommandPoints, SequencePoints
<1>6. QED BY <1>2, <1>3, <1>4, <1>5, Targets DEF Commands

\* The firewall changes by one rule, by the command of a worker.
Adds(w, a) == /\ InsertRule(w) /\ Commands(w, a) /\ job[w].at = "insert"
              /\ job' = [job EXCEPT ![w].at = "commit", ![w].ok = TRUE]
              /\ rules' = [rules EXCEPT ![ReplicaOf(w)][a] = @ + 1]
Removes(w, a) == /\ w \in Requests /\ RollbackDelete(w) /\ Commands(w, a) /\ job[w].at = "rb_delete"
                 /\ job' = [job EXCEPT ![w].at = "rb_commit", ![w].ok = TRUE]
                 /\ rules[ReplicaOf(w)][a] > 0
                 /\ rules' = [rules EXCEPT ![ReplicaOf(w)][a] = @ - 1]

LEMMA RulesWritten ==
  ASSUME WallInv, [Next]_vars
  PROVE  rules' = rules \/ \E w \in Workers, a \in Addresses : Adds(w, a) \/ Removes(w, a)
<1> DEFINE Written == rules' = rules \/ \E w \in Workers, a \in Addresses : Adds(w, a) \/ Removes(w, a)
<1> USE DEF dbVars
<1>1. ASSUME NEW w \in Workers, InsertRule(w) PROVE Written
  <2>1. job[w].at = "insert" BY <1>1 DEF InsertRule
  <2>2. CaseOf(job[w].prop).ip \in Addresses /\ Commands(w, CaseOf(job[w].prop).ip)
    BY <2>1, AtCommand DEF CommandPoints
  <2>3. rules' = rules \/ Adds(w, CaseOf(job[w].prop).ip) BY <1>1, <2>1, <2>2 DEF InsertRule, Adds
  <2>4. QED BY <2>2, <2>3
<1>2. ASSUME NEW w \in Requests, RollbackDelete(w) PROVE Written
  <2>1. job[w].at = "rb_delete" BY <1>2 DEF RollbackDelete
  <2>2. CaseOf(job[w].prop).ip \in Addresses /\ Commands(w, CaseOf(job[w].prop).ip)
    BY <2>1, AtCommand DEF CommandPoints
  <2>3. rules' = rules \/ Removes(w, CaseOf(job[w].prop).ip)
    BY <1>2, <2>1, <2>2 DEF RollbackDelete, RulePresent, Removes
  <2>4. QED BY <2>2, <2>3
<1>3. ASSUME NEW r \in Replicas, LoopStep(r) PROVE rules' = rules
  BY <1>3 DEF LoopStep, Receive, Propose, PublishProposed, SendProposed, RequestApproval,
              GuardianRecheck
<1>4. ASSUME NEW w \in Workers, ExecuteStep(w), ~InsertRule(w) PROVE rules' = rules
  BY <1>4 DEF ExecuteStep, ReadProposal, ReadTenant, AuditBlocked, CheckRule, CommitExecution,
              PublishExecuted
<1>5. ASSUME NEW q \in Requests, RequestStep(q), ~RollbackDelete(q) PROVE rules' = rules
  BY <1>5 DEF RequestStep, CommitDecision, PublishDecision, RollbackCheck, RollbackCommit,
              RollbackAudit, CommitSwitch, PublishKillSwitch
<1>6. ASSUME NEW q \in Requests, NEW u \in Users, HumanStep(q, u) PROVE rules' = rules
  BY <1>6 DEF HumanStep, StartDecide, StartRollback, StartSwitch
<1>7. ASSUME \/ \E i \in Incidents : Classify(i)
             \/ \E r \in Replicas : Crash(r) \/ Restart(r)
             \/ \E w \in Workers : Raise(w)
             \/ UNCHANGED vars
      PROVE  rules' = rules
  BY <1>7 DEF Classify, Crash, Restart, Raise, vars
<1> HIDE DEF dbVars
<1>8. QED BY <1>1, <1>2, <1>3, <1>4, <1>5, <1>6, <1>7 DEF Next

\* ... and nowhere else.
LEMMA OneRule ==
  ASSUME TypeOK, NEW w \in Workers, NEW a \in Addresses, NEW r \in Replicas, NEW b \in Addresses
  PROVE  /\ rules[r][b] \in Nat /\ ReplicaOf(w) \in Replicas
         /\ Adds(w, a) => rules'[r][b] = IF r = ReplicaOf(w) /\ b = a THEN rules[r][b] + 1
                                         ELSE rules[r][b]
         /\ Removes(w, a) => rules'[r][b] = IF r = ReplicaOf(w) /\ b = a THEN rules[r][b] - 1
                                            ELSE rules[r][b]
<1>1. rules \in [Replicas -> [Addresses -> Nat]] BY DEF TypeOK
<1>2. ReplicaOf(w) \in Replicas BY ReplicaType
<1>3. CASE r = ReplicaOf(w) /\ b = a BY <1>1, <1>2, <1>3 DEF Adds, Removes
<1>4. CASE r # ReplicaOf(w) BY <1>1, <1>2, <1>4 DEF Adds, Removes
<1>5. CASE b # a BY <1>1, <1>2, <1>5 DEF Adds, Removes
<1>6. QED BY <1>3, <1>4, <1>5

\* An execution is put on record by CommitExecution.
LEMMA ExecutedWritten ==
  ASSUME TypeOK, [Next]_vars, NEW p \in Proposals, executed'[p] # executed[p]
  PROVE  \E w \in Workers : CommitExecution(w) /\ job[w].prop = p /\ job[w].at = "commit"
                            /\ job'[w].at = "pub_executed" /\ job'[w].prop = p
<1>1. PICK w \in Workers : CommitExecution(w) BY ExecutedOnlyByCommit
<1>2. job[w].prop = p BY <1>1 DEF CommitExecution, TypeOK
<1>3. job[w].at = "commit" /\ job'[w].at = "pub_executed" /\ job'[w].prop = p
  BY <1>1, <1>2 DEF CommitExecution, Idle, TypeOK
<1>4. QED BY <1>1, <1>2, <1>3

\* A worker comes to run commands, or goes on with them, by one of these steps.
Proceeds(v) ==
  \/ ReadProposal(v) \/ ReadTenant(v) \/ CheckRule(v) \/ InsertRule(v)
  \/ v \in Requests /\ \/ RollbackCheck(v) \/ RollbackDelete(v)
                       \/ \E u \in Users, p \in Proposals : StartRollback(v, u, p)

LEMMA SequenceMoves ==
  ASSUME TypeOK, [Next]_vars, NEW v \in Workers, job'[v].at \in SequencePoints
  PROVE  job'[v] = job[v] \/ Proceeds(v)
<1>t. job \in [Workers -> Jobs] /\ job[v] \in Jobs BY DEF TypeOK
<1>0. job'[v] # Idle BY DEF Idle, SequencePoints
<1>1. ASSUME v \in Replicas, Receive(v) PROVE FALSE
  <2>1. job'[v].at = "propose" BY <1>1, <1>t DEF Receive, Idle
  <2>2. QED BY <2>1 DEF SequencePoints
<1>2. ASSUME Propose(v) \/ PublishProposed(v) PROVE FALSE
  <2>1. job'[v].at \in {"pub_proposed", "send_proposed"}
    BY <1>2, <1>t DEF Propose, PublishProposed, Jobs
  <2>2. QED BY <2>1 DEF SequencePoints
<1>3. ASSUME SendProposed(v) PROVE FALSE
  <2>1. job'[v].at \in {"read", "ask"} BY <1>3, <1>t DEF SendProposed, Idle
  <2>2. QED BY <2>1 DEF SequencePoints
<1>4. ASSUME CommitExecution(v) PROVE FALSE
  <2>1. job'[v].at = "pub_executed" BY <1>4, <1>t DEF CommitExecution, Idle
  <2>2. QED BY <2>1 DEF SequencePoints
<1>5. ASSUME CommitDecision(v) PROVE FALSE
  <2>1. job'[v].at = "pub_decision" BY <1>5, <1>t DEF CommitDecision, Jobs
  <2>2. QED BY <2>1 DEF SequencePoints
<1>6. ASSUME PublishDecision(v) PROVE FALSE
  <2>1. CASE job[v].approve
    <3>1. job' = [job EXCEPT ![v] = [Idle EXCEPT !.at = "read", !.prop = job[v].prop]]
      BY <1>6, <2>1 DEF PublishDecision
    <3>2. job'[v].at = "read" BY <1>t, <3>1 DEF Idle
    <3>3. QED BY <3>2 DEF SequencePoints
  <2>2. CASE ~job[v].approve BY <1>6, <1>t, <1>0, <2>2 DEF PublishDecision
  <2>3. QED BY <2>1, <2>2
<1>7. ASSUME RollbackCommit(v) PROVE FALSE
  <2>1. job'[v].at = "rb_audit" BY <1>7, <1>t DEF RollbackCommit, Idle
  <2>2. QED BY <2>1 DEF SequencePoints
<1>8. ASSUME CommitSwitch(v) PROVE FALSE
  <2>1. job'[v].at = "pub_kill" BY <1>8, <1>t DEF CommitSwitch, Idle
  <2>2. QED BY <2>1 DEF SequencePoints
<1>9. ASSUME v \in Requests, NEW u \in Users, HumanStep(v, u) PROVE Proceeds(v)
  <2>1. ASSUME NEW p \in Proposals, NEW approve \in BOOLEAN, StartDecide(v, u, p, approve)
        PROVE  FALSE
    <3>1. job'[v].at = "decide" BY <1>t, <2>1 DEF StartDecide, Idle
    <3>2. QED BY <3>1 DEF SequencePoints
  <2>2. ASSUME NEW t \in Tenants, NEW engaged \in BOOLEAN, StartSwitch(v, u, t, engaged)
        PROVE  FALSE
    <3>1. job'[v].at = "switch" BY <1>t, <2>2 DEF StartSwitch, Idle
    <3>2. QED BY <3>1 DEF SequencePoints
  <2>3. QED BY <1>9, <2>1, <2>2 DEF HumanStep, Proceeds
<1>10. CASE Moves(v)
  BY <1>10, <1>1, <1>2, <1>3, <1>4, <1>5, <1>6, <1>7, <1>8, <1>9 DEF Moves, Proceeds
<1>11. QED BY <1>0, <1>10, Mover

\* What each of these steps does to the worker's record, and to the rest.
LEMMA ProceedsEffect ==
  ASSUME TypeOK, NEW v \in Workers, Proceeds(v)
  PROVE  /\ executed' = executed /\ disturbed \subseteq disturbed'
         /\ \A u \in Workers \ {v} : job'[u] = job[u]
<1>t. job \in [Workers -> Jobs] BY DEF TypeOK
<1> USE DEF dbVars, history
<1>1. CASE ReadProposal(v) BY <1>1, <1>t DEF ReadProposal, Begins
<1>2. CASE ReadTenant(v) BY <1>2, <1>t DEF ReadTenant
<1>3. CASE CheckRule(v) BY <1>3, <1>t DEF CheckRule, Probe
<1>4. CASE InsertRule(v) BY <1>4, <1>t DEF InsertRule
<1>5. CASE RollbackCheck(v) BY <1>5, <1>t DEF RollbackCheck, Probe
<1>6. CASE RollbackDelete(v) BY <1>6, <1>t DEF RollbackDelete
<1>7. ASSUME NEW u \in Users, NEW p \in Proposals, StartRollback(v, u, p)
      PROVE  /\ executed' = executed /\ disturbed \subseteq disturbed'
             /\ \A x \in Workers \ {v} : job'[x] = job[x]
  BY <1>7, <1>t DEF StartRollback, Begins
<1> HIDE DEF dbVars, history
<1>8. QED BY <1>1, <1>2, <1>3, <1>4, <1>5, <1>6, <1>7 DEF Proceeds

-----------------------------------------------------------------------------
\* A worker that begins finds itself alone, or disturbs the address.
LEMMA BeginsAlone ==
  ASSUME TypeOK, NEW v \in Workers, NEW p \in Proposals, NEW a \in Addresses, Begins(v, p),
         Enforced(p), CaseOf(p).ip = a, a \notin disturbed',
         rules' = rules, \A u \in Workers \ {v} : job'[u] = job[u]
  PROVE  Solo(v, a)'
<1>1. /\ \A u \in Workers \ {v} : ~Commands(u, a)
      /\ \A r \in Replicas \ {ReplicaOf(v)} : ~(rules[r][a] > 0)
  BY DEF Begins
<1>2. \A r \in Replicas : rules[r][a] \in Nat BY DEF TypeOK
<1>3. \A r \in Replicas \ {ReplicaOf(v)} : rules[r][a] = 0 BY <1>1, <1>2
<1>4. \A u \in Workers \ {v} : ~Commands(u, a)' BY <1>1, CommandsRun
<1>5. QED BY <1>3, <1>4 DEF Solo, ReplicaOf

\* ... and one that goes on stays alone.
LEMMA SoloGoesOn ==
  ASSUME NEW v \in Workers, NEW a \in Addresses, Solo(v, a),
         \A r \in Replicas \ {ReplicaOf(v)} : rules'[r][a] = rules[r][a],
         \A u \in Workers \ {v} : job'[u] = job[u]
  PROVE  Solo(v, a)'
<1>1. \A u \in Workers \ {v} : ~Commands(u, a)' BY CommandsRun DEF Solo
<1>2. QED BY <1>1 DEF Solo, ReplicaOf

\* Each step of a worker leaves it alone, and right about what it found.
LEMMA WallProceeds ==
  ASSUME WallInv, NEW v \in Workers, Proceeds(v), NEW a \in Addresses,
         Commands(v, a)', a \notin disturbed'
  PROVE  Solo(v, a)' /\ Sees(v, a)'
<1> DEFINE p == job[v].prop
           R == ReplicaOf(v)
<1>t. /\ TypeOK /\ job \in [Workers -> Jobs] /\ job[v] \in Jobs
      /\ rules \in [Replicas -> [Addresses -> Nat]] /\ R \in Replicas /\ rules[R][a] \in Nat
      /\ Wall(v, a) /\ Knows(v)
  BY ReplicaType DEF WallInv, GateInv, TypeOK
<1>e. /\ executed' = executed /\ a \notin disturbed
      /\ \A u \in Workers \ {v} : job'[u] = job[u]
  BY <1>t, ProceedsEffect
<1>r. Runs(job'[v], a) BY CommandsRun
<1>c. R' = R BY DEF ReplicaOf
<1>on. ASSUME Commands(v, a), rules' = rules PROVE Solo(v, a)'
  <2>1. Solo(v, a) BY <1>t, <1>e, <1>on DEF Wall
  <2>2. QED BY <1>e, <1>on, <2>1, SoloGoesOn
<1> USE DEF dbVars, history
<1>1. CASE ReadProposal(v)
  <2>1. job'[v] # Idle BY <1>r DEF Runs, Idle, SequencePoints
  <2>2. /\ ~executed[p] /\ job'[v] = [job[v] EXCEPT !.at = "tenant"] /\ Begins(v, p)
        /\ rules' = rules /\ job[v].at = "read"
    BY <1>1, <1>t, <2>1 DEF ReadProposal
  <2>3. job'[v].at = "tenant" /\ job'[v].prop = p BY <1>t, <2>2 DEF Jobs
  <2>4. p \in Proposals /\ Enforced(p) /\ CaseOf(p).ip = a
    BY <1>r, <1>t, <2>2, <2>3 DEF Runs, Knows
  <2>5. Solo(v, a)' BY <1>t, <1>e, <2>2, <2>4, BeginsAlone
  <2>6. Sees(v, a)' BY <1>e, <2>2, <2>3 DEF Sees
  <2>7. QED BY <2>5, <2>6
<1>2. CASE ReadTenant(v)
  <2>1. /\ job[v].at = "tenant" /\ job'[v].prop = p /\ rules' = rules
        /\ job'[v].at = IF Stopped(p) THEN "blocked" ELSE IF Enforced(p) THEN "check" ELSE "commit"
    BY <1>2, <1>t DEF ReadTenant, Jobs
  <2>2. Enforced(p) /\ CaseOf(p).ip = a BY <1>r, <2>1 DEF Runs
  <2>3. job'[v].at = "check" BY <1>r, <2>1, <2>2 DEF Runs, SequencePoints
  <2>4. Commands(v, a) BY <2>1, <2>2 DEF Commands, SequencePoints
  <2>5. Sees(v, a) BY <1>t, <1>e, <2>4 DEF Wall
  <2>6. Sees(v, a)' BY <1>e, <2>1, <2>3, <2>5 DEF Sees
  <2>7. QED BY <1>on, <2>1, <2>4, <2>6
<1>3. CASE CheckRule(v)
  <2>1. PICK found \in BOOLEAN :
          /\ Probe(v, found) /\ rules' = rules /\ job[v].at = "check"
          /\ job' = [job EXCEPT ![v].at = IF found THEN "commit" ELSE "insert", ![v].ok = found]
    BY <1>3 DEF CheckRule
  <2>2. /\ job'[v].prop = p /\ job'[v].ok = found
        /\ job'[v].at = IF found THEN "commit" ELSE "insert"
    BY <1>t, <2>1 DEF Jobs
  <2>3. Enforced(p) /\ CaseOf(p).ip = a BY <1>r, <2>2 DEF Runs
  <2>4. Commands(v, a) BY <2>1, <2>3 DEF Commands, SequencePoints
  <2>5. Sees(v, a) BY <1>t, <1>e, <2>4 DEF Wall
  <2>6. found => rules[R][a] > 0
    BY <1>e, <2>1, <2>3 DEF Probe, RulePresent
  <2>9. ~found => rules[R][a] = 0
    BY <1>t, <1>e, <2>1, <2>3 DEF Probe, RulePresent
  <2>10. ~executed[p] BY <2>1, <2>5 DEF Sees
  <2>7. Sees(v, a)'
    <3>1. CASE found BY <1>e, <1>c, <2>1, <2>2, <2>6, <2>10, <3>1 DEF Sees
    <3>2. CASE ~found BY <1>e, <1>c, <2>1, <2>2, <2>9, <2>10, <3>2 DEF Sees
    <3>3. QED BY <3>1, <3>2
  <2>8. QED BY <1>on, <2>1, <2>4, <2>7
<1>4. CASE InsertRule(v)
  <2>0. job[v].at = "insert" BY <1>4 DEF InsertRule
  <2>1. job'[v].prop = p /\ job'[v].at = "commit" BY <1>4, <1>t DEF InsertRule, Jobs
  <2>2. Enforced(p) /\ CaseOf(p).ip = a BY <1>r, <2>1 DEF Runs
  <2>3. Commands(v, a) BY <2>0, <2>2 DEF Commands, SequencePoints
  <2>4. Sees(v, a) /\ Solo(v, a) BY <1>t, <1>e, <2>3 DEF Wall
  <2>5. CASE rules' = rules /\ job' = [job EXCEPT ![v].at = "commit"]
    <3>1. job'[v].ok = job[v].ok BY <1>t, <2>5 DEF Jobs
    <3>2. Sees(v, a)' BY <1>e, <2>0, <2>1, <2>4, <3>1 DEF Sees
    <3>3. QED BY <1>on, <2>3, <2>5, <3>2
  <2>6. CASE Adds(v, a)
    <3>1. /\ rules'[R][a] = rules[R][a] + 1
          /\ \A r \in Replicas \ {R} : rules'[r][a] = rules[r][a]
      BY <1>t, <2>6, OneRule
    <3>2. rules'[R][a] > 0 BY <1>t, <3>1
    <3>3. Sees(v, a)' BY <1>e, <1>c, <2>0, <2>1, <2>4, <3>2 DEF Sees
    <3>4. Solo(v, a)' BY <1>e, <2>4, <3>1, SoloGoesOn
    <3>5. QED BY <3>3, <3>4
  <2>7. QED BY <1>4, <2>0, <2>2, <2>3, <2>5, <2>6 DEF InsertRule, Adds
<1>5. CASE v \in Requests /\ RollbackCheck(v)
  <2>1. PICK found \in BOOLEAN :
          /\ Probe(v, found) /\ rules' = rules /\ job[v].at = "rb_check"
          /\ job' = IF found THEN [job EXCEPT ![v].at = "rb_delete"]
                    ELSE [job EXCEPT ![v].at = "rb_commit", ![v].ok = TRUE]
    BY <1>5 DEF RollbackCheck
  <2>2. /\ job'[v].prop = p
        /\ job'[v].at = IF found THEN "rb_delete" ELSE "rb_commit"
        /\ job'[v].ok = IF found THEN job[v].ok ELSE TRUE
    BY <1>t, <2>1 DEF Jobs
  <2>3. Enforced(p) /\ CaseOf(p).ip = a BY <1>r, <2>2 DEF Runs
  <2>4. Commands(v, a) BY <2>1, <2>3 DEF Commands, SequencePoints
  <2>5. Sees(v, a) BY <1>t, <1>e, <2>4 DEF Wall
  <2>6. found => rules[R][a] > 0
    BY <1>e, <2>1, <2>3 DEF Probe, RulePresent
  <2>9. ~found => rules[R][a] = 0
    BY <1>t, <1>e, <2>1, <2>3 DEF Probe, RulePresent
  <2>10. ~job[v].ok BY <2>1, <2>5 DEF Sees
  <2>7. Sees(v, a)'
    <3>1. CASE found BY <1>c, <2>1, <2>2, <2>6, <2>10, <3>1 DEF Sees
    <3>2. CASE ~found
      <4>1. job'[v].at = "rb_commit" /\ job'[v].ok = TRUE BY <2>2, <3>2
      <4>2. rules'[R][a] = 0 BY <2>1, <2>9, <3>2
      <4>3. QED BY <1>c, <4>1, <4>2 DEF Sees
    <3>3. QED BY <3>1, <3>2
  <2>8. QED BY <1>on, <2>1, <2>4, <2>7
<1>6. CASE v \in Requests /\ RollbackDelete(v)
  <2>0. job[v].at = "rb_delete" BY <1>6 DEF RollbackDelete
  <2>1. job'[v].prop = p /\ job'[v].at = "rb_commit" BY <1>6, <1>t DEF RollbackDelete, Jobs
  <2>2. Enforced(p) /\ CaseOf(p).ip = a BY <1>r, <2>1 DEF Runs
  <2>3. Commands(v, a) BY <2>0, <2>2 DEF Commands, SequencePoints
  <2>4. Sees(v, a) /\ Solo(v, a) BY <1>t, <1>e, <2>3 DEF Wall
  <2>5. CASE rules' = rules /\ job' = [job EXCEPT ![v].at = "rb_commit"]
    <3>1. job'[v].ok = job[v].ok BY <1>t, <2>5 DEF Jobs
    <3>2. ~job[v].ok /\ rules[R][a] > 0 BY <2>0, <2>4 DEF Sees
    <3>3. Sees(v, a)' BY <1>t, <1>c, <2>1, <2>5, <3>1, <3>2 DEF Sees
    <3>4. QED BY <1>on, <2>3, <2>5, <3>3
  <2>6. CASE Removes(v, a)
    <3>1. /\ rules'[R][a] = rules[R][a] - 1
          /\ \A r \in Replicas \ {R} : rules'[r][a] = rules[r][a]
      BY <1>t, <2>6, OneRule
    <3>2. rules[R][a] > 0 /\ rules[R][a] <= 1
      BY <1>t, <1>e, <2>0, <2>4 DEF Sees, WallInv, Chain
    <3>3. rules'[R][a] = 0 BY <1>t, <3>1, <3>2
    <3>4. job'[v].ok = TRUE BY <1>t, <2>6 DEF Removes, Jobs
    <3>5. Sees(v, a)' BY <1>c, <2>1, <3>3, <3>4 DEF Sees
    <3>6. Solo(v, a)' BY <1>e, <2>4, <3>1, SoloGoesOn
    <3>7. QED BY <3>5, <3>6
  <2>7. QED BY <1>6, <2>0, <2>2, <2>3, <2>5, <2>6 DEF RollbackDelete, RulePresent, Removes
<1>7. ASSUME v \in Requests, NEW u \in Users, NEW d \in Proposals, StartRollback(v, u, d)
      PROVE  Solo(v, a)' /\ Sees(v, a)'
  <2>1. /\ job'[v].prop = d /\ job'[v].ok = ~UsesFirewall(d) /\ rules' = rules /\ Begins(v, d)
        /\ job'[v].at = IF Enforced(d) THEN "rb_check" ELSE "rb_commit"
    BY <1>7, <1>t DEF StartRollback, Idle
  <2>2. Enforced(d) /\ CaseOf(d).ip = a BY <1>r, <2>1 DEF Runs
  <2>3. Solo(v, a)' BY <1>t, <1>e, <2>1, <2>2, BeginsAlone
  <2>4. ~job'[v].ok /\ job'[v].at = "rb_check" BY <2>1, <2>2 DEF Enforced
  <2>5. Sees(v, a)' BY <2>4 DEF Sees
  <2>6. QED BY <2>3, <2>5
<1> HIDE DEF dbVars, history
<1>8. QED BY <1>1, <1>2, <1>3, <1>4, <1>5, <1>6, <1>7 DEF Proceeds

\* A step by which another worker comes to run commands for a worker's address
\* disturbs it.
LEMMA Newcomer ==
  ASSUME TypeOK, [Next]_vars, NEW v \in Workers, NEW u \in Workers \ {v}, NEW a \in Addresses,
         Commands(v, a), ~Commands(u, a), Commands(u, a)'
  PROVE  a \in disturbed'
<1>t. job \in [Workers -> Jobs] /\ job[u] \in Jobs BY DEF TypeOK
<1>r. Runs(job'[u], a) /\ ~Runs(job[u], a) BY CommandsRun
<1>1. Proceeds(u) BY <1>r, SequenceMoves DEF Runs
<1>s. job[u].at \in SequencePoints /\ job'[u].prop = job[u].prop => FALSE BY <1>r DEF Runs
<1>2. ASSUME NEW d \in Proposals \union {NoProposal}, Begins(u, d), job'[u].prop = d PROVE a \in disturbed'
  <2>1. Enforced(d) /\ CaseOf(d).ip = a BY <1>2, <1>r DEF Runs
  <2>2. QED BY <1>2, <2>1 DEF Begins
<1>3. CASE ReadProposal(u)
  <2>1. job'[u] # Idle BY <1>r DEF Runs, Idle, SequencePoints
  <2>2. Begins(u, job[u].prop) /\ job'[u].prop = job[u].prop
    BY <1>3, <1>t, <2>1 DEF ReadProposal, Jobs
  <2>3. QED BY <1>t, <1>2, <2>2, JobTypes
<1>4. CASE ReadTenant(u)
  BY <1>4, <1>t, <1>s DEF ReadTenant, Jobs, SequencePoints
<1>5. CASE CheckRule(u)
  BY <1>5, <1>t, <1>s DEF CheckRule, Jobs, SequencePoints
<1>6. CASE InsertRule(u)
  BY <1>6, <1>t, <1>s DEF InsertRule, Jobs, SequencePoints
<1>7. CASE RollbackCheck(u)
  BY <1>7, <1>t, <1>s DEF RollbackCheck, Jobs, SequencePoints
<1>8. CASE RollbackDelete(u)
  BY <1>8, <1>t, <1>s DEF RollbackDelete, Jobs, SequencePoints
<1>9. ASSUME NEW x \in Users, NEW d \in Proposals, StartRollback(u, x, d) PROVE a \in disturbed'
  <2>1. job'[u].prop = d /\ Begins(u, d) BY <1>9, <1>t DEF StartRollback, Idle
  <2>2. QED BY <1>2, <2>1
<1>10. QED BY <1>1, <1>3, <1>4, <1>5, <1>6, <1>7, <1>8, <1>9 DEF Proceeds

\* A worker that stays where it is finds everything as it left it.
LEMMA WallStays ==
  ASSUME WallInv, [Next]_vars, NEW v \in Workers, NEW a \in Addresses, job'[v] = job[v],
         Commands(v, a), a \notin disturbed'
  PROVE  Solo(v, a)' /\ Sees(v, a)'
<1> DEFINE p == job[v].prop
<1>t. /\ TypeOK /\ a \notin disturbed /\ Wall(v, a) /\ Knows(v)
      /\ job \in [Workers -> Jobs] /\ job[v] \in Jobs
      /\ \A u \in Workers, b \in Addresses : Adds(u, b) \/ Removes(u, b) => job'[u] # job[u] /\ Commands(u, b)
  <2>1. a \notin disturbed BY HistoryGrows
  <2>2. TypeOK /\ Wall(v, a) /\ Knows(v) /\ job \in [Workers -> Jobs] /\ job[v] \in Jobs
    BY DEF WallInv, GateInv, TypeOK
  <2>3. ASSUME NEW u \in Workers, NEW b \in Addresses, Adds(u, b)
        PROVE  job'[u] # job[u] /\ Commands(u, b)
    BY <2>2, <2>3 DEF Adds, Jobs
  <2>4. ASSUME NEW u \in Workers, NEW b \in Addresses, Removes(u, b)
        PROVE  job'[u] # job[u] /\ Commands(u, b)
    BY <2>2, <2>4 DEF Removes, Jobs
  <2>5. QED BY <2>1, <2>2, <2>3, <2>4
<1>1. Solo(v, a) /\ Sees(v, a) BY <1>t DEF Wall
<1>2. \A u \in Workers \ {v} : ~Commands(u, a)' BY <1>t, <1>1, Newcomer DEF Solo
<1>3. ASSUME NEW r \in Replicas PROVE rules'[r][a] = rules[r][a]
  <2>1. ASSUME NEW u \in Workers, NEW b \in Addresses, Adds(u, b) \/ Removes(u, b)
        PROVE  rules'[r][a] = rules[r][a]
    <3>1. u # v /\ Commands(u, b) BY <1>t, <2>1
    <3>2. b # a BY <1>1, <3>1 DEF Solo
    <3>3. TypeOK BY <1>t
    <3>4. /\ Adds(u, b) => rules'[r][a] = IF r = ReplicaOf(u) /\ a = b THEN rules[r][a] + 1
                                         ELSE rules[r][a]
          /\ Removes(u, b) => rules'[r][a] = IF r = ReplicaOf(u) /\ a = b THEN rules[r][a] - 1
                                            ELSE rules[r][a]
      BY <3>3, OneRule
    <3>5. QED BY <2>1, <3>2, <3>4
  <2>2. QED BY <2>1, RulesWritten
<1>4. ASSUME job[v].at \in {"tenant", "check", "insert", "commit"} PROVE executed'[p] = executed[p]
  <2>1. p \in Proposals BY <1>t, <1>4 DEF Knows
  <2>2. ASSUME NEW u \in Workers, CommitExecution(u), job[u].prop = p, job[u].at = "commit",
               job'[u].at = "pub_executed"
        PROVE  FALSE
    <3>1. u # v BY <2>2
    <3>2. Commands(u, a) BY <2>2 DEF Commands, SequencePoints
    <3>3. QED BY <1>1, <3>1, <3>2 DEF Solo
  <2>3. QED BY <1>t, <2>1, <2>2, ExecutedWritten
<1>5. ReplicaOf(v)' = ReplicaOf(v) /\ ReplicaOf(v) \in Replicas BY ReplicaType DEF ReplicaOf
<1>6. Solo(v, a)' BY <1>1, <1>2, <1>3, <1>5 DEF Solo
<1>7. Sees(v, a)' BY <1>1, <1>3, <1>4, <1>5 DEF Sees
<1>8. QED BY <1>6, <1>7

LEMMA WallStep ==
  ASSUME WallInv, [Next]_vars, NEW v \in Workers, NEW a \in Addresses
  PROVE  Wall(v, a)'
<1> SUFFICES ASSUME Commands(v, a)', a \notin disturbed' PROVE Solo(v, a)' /\ Sees(v, a)'
  BY DEF Wall
<1>1. TypeOK /\ Runs(job'[v], a) BY CommandsRun DEF WallInv, GateInv
<1>2. CASE job'[v] = job[v]
  <2>1. Commands(v, a) BY <1>1, <1>2, CommandsRun
  <2>2. QED BY <1>2, <2>1, WallStays
<1>3. CASE Proceeds(v) BY <1>3, WallProceeds
<1>4. QED BY <1>1, <1>2, <1>3, SequenceMoves DEF Runs

\* Undisturbed, a chain gets no second rule for an address.
LEMMA ChainStep ==
  ASSUME WallInv, [Next]_vars, NEW a \in Addresses
  PROVE  Chain(a)'
<1> SUFFICES ASSUME a \notin disturbed', NEW r \in Replicas PROVE rules'[r][a] <= 1
  BY DEF Chain
<1>t. TypeOK /\ a \notin disturbed /\ rules[r][a] \in Nat /\ rules[r][a] <= 1
  BY HistoryGrows DEF WallInv, GateInv, TypeOK, Chain
<1>1. ASSUME NEW w \in Workers, NEW b \in Addresses, Adds(w, b) PROVE rules'[r][a] <= 1
  <2>1. rules'[r][a] = IF r = ReplicaOf(w) /\ a = b THEN rules[r][a] + 1 ELSE rules[r][a]
    BY <1>t, <1>1, OneRule
  <2>2. ASSUME r = ReplicaOf(w), a = b PROVE rules[r][a] = 0
    <3>1. Commands(w, a) /\ job[w].at = "insert" BY <1>1, <2>2 DEF Adds
    <3>2. Sees(w, a) BY <1>t, <3>1 DEF WallInv, Wall
    <3>3. QED BY <2>2, <3>1, <3>2 DEF Sees
  <2>3. QED BY <1>t, <2>1, <2>2
<1>2. ASSUME NEW w \in Workers, NEW b \in Addresses, Removes(w, b) PROVE rules'[r][a] <= 1
  <2>1. rules'[r][a] = IF r = ReplicaOf(w) /\ a = b THEN rules[r][a] - 1 ELSE rules[r][a]
    BY <1>t, <1>2, OneRule
  <2>2. QED BY <1>t, <2>1
<1>3. QED BY <1>t, <1>1, <1>2, RulesWritten

\* A rule is put in or taken out outside dry runs only.
LEMMA DryStep ==
  ASSUME WallInv, [Next]_vars
  PROVE  DryInv'
<1> SUFFICES ASSUME ~RealExecution, NEW a \in Addresses PROVE ~Blocked(a)'
  BY DEF DryInv
<1>1. ASSUME NEW w \in Workers, NEW b \in Addresses, Adds(w, b) \/ Removes(w, b) PROVE FALSE
  BY <1>1 DEF Adds, Removes, Commands, Enforced, UsesFirewall
<1>2. rules' = rules BY <1>1, RulesWritten
<1>3. QED BY <1>2 DEF WallInv, DryInv, Blocked

LEMMA ArmedStep ==
  ASSUME WallInv, [Next]_vars, NEW v \in Workers
  PROVE  Armed(v)'
<1> SUFFICES ASSUME job'[v].at \in CommandPoints PROVE RealExecution
  BY DEF Armed
<1>t. TypeOK /\ job \in [Workers -> Jobs] /\ job[v] \in Jobs /\ Armed(v)
  BY DEF WallInv, GateInv, TypeOK
<1>0. job'[v].at \in SequencePoints /\ job'[v] # Idle BY DEF CommandPoints, SequencePoints, Idle
<1>s. job[v].at \in CommandPoints => RealExecution BY <1>t DEF Armed
<1>1. CASE job'[v] = job[v] BY <1>1, <1>s
<1>2. CASE ReadProposal(v)
  <2>1. job'[v].at = "tenant" BY <1>0, <1>2, <1>t DEF ReadProposal, Jobs
  <2>2. QED BY <2>1 DEF CommandPoints
<1>3. CASE ReadTenant(v)
  <2>1. job'[v].at = "check" => Enforced(job[v].prop) BY <1>3, <1>t DEF ReadTenant, Jobs
  <2>2. job'[v].at \in {"blocked", "check", "commit"} BY <1>3, <1>t DEF ReadTenant, Jobs
  <2>3. QED BY <2>1, <2>2 DEF CommandPoints, Enforced, UsesFirewall
<1>4. CASE CheckRule(v) BY <1>4, <1>s DEF CheckRule, CommandPoints
<1>5. CASE InsertRule(v) BY <1>5, <1>s DEF InsertRule, CommandPoints
<1>6. CASE RollbackCheck(v) BY <1>6, <1>s DEF RollbackCheck, CommandPoints
<1>7. CASE RollbackDelete(v) BY <1>7, <1>s DEF RollbackDelete, CommandPoints
<1>8. ASSUME NEW u \in Users, NEW p \in Proposals, v \in Requests, StartRollback(v, u, p)
      PROVE  RealExecution
  <2>1. job'[v].at = IF Enforced(p) THEN "rb_check" ELSE "rb_commit"
    BY <1>8, <1>t DEF StartRollback, Idle
  <2>2. QED BY <2>1 DEF CommandPoints, Enforced, UsesFirewall
<1>9. QED BY <1>t, <1>0, <1>1, <1>2, <1>3, <1>4, <1>5, <1>6, <1>7, <1>8, SequenceMoves DEF Proceeds

\* A result changes when an execution or a roll back is committed.
Records(w, p) == /\ CommitExecution(w) /\ job[w].at = "commit" /\ job[w].prop = p
                 /\ result'[p] = [success |-> job[w].ok, rolled_back |-> "no"]
Withdraws(w, p) == /\ w \in Requests /\ RollbackCommit(w)
                   /\ job[w].at = "rb_commit" /\ job[w].prop = p
                   /\ result'[p] = [job[w].seen EXCEPT
                                      !.rolled_back = IF job[w].ok THEN "true" ELSE "false"]

LEMMA ResultsWritten ==
  ASSUME TypeOK, [Next]_vars, NEW p \in Proposals
  PROVE  result'[p] = result[p] \/ \E w \in Workers : Records(w, p) \/ Withdraws(w, p)
<1>t. result \in [Proposals -> Results \union {NoResult}] BY DEF TypeOK
<1> DEFINE Written == result'[p] = result[p] \/ \E w \in Workers : Records(w, p) \/ Withdraws(w, p)
<1> USE DEF dbVars
<1>1. ASSUME NEW w \in Workers, CommitExecution(w) PROVE Written
  <2>1. result' = [result EXCEPT ![job[w].prop] = [success |-> job[w].ok, rolled_back |-> "no"]]
    BY <1>1 DEF CommitExecution
  <2>2. CASE job[w].prop = p
    <3>1. result'[p] = [success |-> job[w].ok, rolled_back |-> "no"] BY <1>t, <2>1, <2>2
    <3>2. Records(w, p) BY <1>1, <2>2, <3>1 DEF Records, CommitExecution
    <3>3. QED BY <3>2
  <2>3. CASE job[w].prop # p BY <1>t, <2>1, <2>3
  <2>4. QED BY <2>2, <2>3
<1>2. ASSUME NEW w \in Requests, RollbackCommit(w) PROVE Written
  <2> DEFINE new == [job[w].seen EXCEPT !.rolled_back = IF job[w].ok THEN "true" ELSE "false"]
  <2>1. result' = [result EXCEPT ![job[w].prop] = new] BY <1>2 DEF RollbackCommit
  <2>2. CASE job[w].prop = p
    <3>1. result'[p] = new BY <1>t, <2>1, <2>2
    <3>2. Withdraws(w, p) BY <1>2, <2>2, <3>1 DEF Withdraws, RollbackCommit
    <3>3. QED BY <3>2
  <2>3. CASE job[w].prop # p BY <1>t, <2>1, <2>3
  <2>4. QED BY <2>2, <2>3
<1>3. ASSUME NEW r \in Replicas, LoopStep(r) PROVE Written
  BY <1>3 DEF LoopStep, Receive, Propose, PublishProposed, SendProposed, RequestApproval,
              GuardianRecheck
<1>4. ASSUME NEW w \in Workers, ExecuteStep(w), ~CommitExecution(w) PROVE Written
  BY <1>4 DEF ExecuteStep, ReadProposal, ReadTenant, AuditBlocked, CheckRule, InsertRule,
              PublishExecuted
<1>5. ASSUME NEW q \in Requests, RequestStep(q), ~RollbackCommit(q) PROVE Written
  BY <1>5 DEF RequestStep, CommitDecision, PublishDecision, RollbackCheck, RollbackDelete,
              RollbackAudit, CommitSwitch, PublishKillSwitch
<1>6. ASSUME NEW q \in Requests, NEW u \in Users, HumanStep(q, u) PROVE Written
  BY <1>6 DEF HumanStep, StartDecide, StartRollback, StartSwitch
<1>7. ASSUME \/ \E i \in Incidents : Classify(i)
             \/ \E r \in Replicas : Crash(r) \/ Restart(r)
             \/ \E w \in Workers : Raise(w)
             \/ UNCHANGED vars
      PROVE  Written
  BY <1>7 DEF Classify, Crash, Restart, Raise, vars
<1> HIDE DEF Written, dbVars
<1>8. Written BY <1>1, <1>2, <1>3, <1>4, <1>5, <1>6, <1>7 DEF Next
<1>9. QED BY <1>8 DEF Written

\* A result is written of executions only.
LEMMA ResultStep ==
  ASSUME WallInv, [Next]_vars
  PROVE  ResultInv'
<1> SUFFICES ASSUME NEW p \in Proposals, result'[p] # NoResult PROVE executed'[p]
  BY DEF ResultInv
<1>1. /\ Grows /\ TypeOK /\ ResultInv /\ \A w \in Workers : Knows(w)
  BY StepGrows DEF WallInv, GateInv
<1>2. CASE result'[p] = result[p] BY <1>1, <1>2 DEF ResultInv, Grows
<1>3. ASSUME NEW w \in Workers, Records(w, p) PROVE executed'[p]
  BY <1>1, <1>3 DEF Records, CommitExecution, TypeOK
<1>4. ASSUME NEW w \in Workers, Withdraws(w, p) PROVE executed'[p]
  <2>1. executed[p] BY <1>1, <1>4 DEF Withdraws, Knows, RollbackPoints
  <2>2. QED BY <1>1, <2>1 DEF Grows
<1>5. QED BY <1>1, <1>2, <1>3, <1>4, ResultsWritten

\* A worker at a write stays until it writes, or is cut short.
LEMMA WritesOrCut ==
  ASSUME TypeOK, [Next]_vars, NEW v \in Workers,
         job[v].at \in {"commit", "pub_executed", "rb_commit"}
  PROVE  \/ job'[v] = job[v]
         \/ job[v].at = "commit" /\ CommitExecution(v)
         \/ job[v].at = "pub_executed" /\ PublishExecuted(v)
         \/ job[v].at = "rb_commit" /\ v \in Requests /\ RollbackCommit(v)
         \/ \E ws : v \in ws /\ Cut(ws)
<1>t. job \in [Workers -> Jobs] BY DEF TypeOK
<1> DEFINE Waits == \/ job'[v] = job[v]
                    \/ job[v].at = "commit" /\ CommitExecution(v)
                    \/ job[v].at = "pub_executed" /\ PublishExecuted(v)
                    \/ job[v].at = "rb_commit" /\ v \in Requests /\ RollbackCommit(v)
                    \/ \E ws : v \in ws /\ Cut(ws)
<1> USE DEF dbVars
<1>1. ASSUME NEW r \in Replicas, LoopStep(r) PROVE Waits
  BY <1>1, <1>t DEF LoopStep, Receive, Propose, PublishProposed, SendProposed, RequestApproval,
                    GuardianRecheck
<1>2. ASSUME NEW w \in Workers, ExecuteStep(w) PROVE Waits
  BY <1>2, <1>t DEF ExecuteStep, ReadProposal, ReadTenant, AuditBlocked, CheckRule, InsertRule,
                    CommitExecution, PublishExecuted
<1>3. ASSUME NEW q \in Requests, RequestStep(q) PROVE Waits
  BY <1>3, <1>t DEF RequestStep, CommitDecision, PublishDecision, RollbackCheck, RollbackDelete,
                    RollbackCommit, RollbackAudit, CommitSwitch, PublishKillSwitch
<1>4. ASSUME NEW q \in Requests, NEW u \in Users, HumanStep(q, u) PROVE Waits
  BY <1>4, <1>t DEF HumanStep, StartDecide, StartRollback, StartSwitch
<1>5. ASSUME NEW r \in Replicas, Crash(r) PROVE Waits
  <2>1. CASE ReplicaOf(v) = r
    <3>1. v \in {w \in Workers : ReplicaOf(w) = r} BY <2>1
    <3>2. QED BY <1>5, <3>1 DEF Crash
  <2>2. CASE ReplicaOf(v) # r BY <1>5, <1>t, <2>2 DEF Crash
  <2>3. QED BY <2>1, <2>2
<1>6. ASSUME NEW w \in Workers, Raise(w) PROVE Waits
  <2>1. CASE v = w
    <3>1. v \in {w} BY <2>1
    <3>2. QED BY <1>6, <3>1 DEF Raise
  <2>2. CASE v # w BY <1>6, <1>t, <2>2 DEF Raise
  <2>3. QED BY <2>1, <2>2
<1>7. ASSUME \/ \E i \in Incidents : Classify(i)
             \/ \E r \in Replicas : Restart(r)
             \/ UNCHANGED vars
      PROVE  Waits
  BY <1>7, <1>t DEF Classify, Restart, vars
<1> HIDE DEF Waits, dbVars
<1>8. Waits BY <1>1, <1>2, <1>3, <1>4, <1>5, <1>6, <1>7 DEF Next
<1>9. QED BY <1>8 DEF Waits

\* A worker cut short with commands made and not recorded disturbs the address.
LEMMA CutDisturbs ==
  ASSUME NEW w, NEW ws, w \in ws, Cut(ws), NEW a \in Addresses, Commands(w, a),
         job[w].at \in {"commit", "rb_commit"}
  PROVE  a \in disturbed'
BY DEF Cut

\* An undisturbed execution that is accounted for stays so.
LEMMA AccountedStays ==
  ASSUME GateInv, [Next]_vars, NEW p \in Proposals, NEW a \in Addresses, a \notin disturbed',
         RealExecution, TargetIs(p, a), Accounted(p)
  PROVE  Accounted(p)'
<1>1. TypeOK /\ Grows BY StepGrows DEF GateInv
<1>2. CASE executed[p] BY <1>1, <1>2 DEF Grows, Accounted
<1>3. ASSUME NEW w \in Workers, At(w, "commit"), job[w].prop = p PROVE Accounted(p)'
  <2>1. CASE job'[w] = job[w] BY <1>3, <2>1 DEF Accounted
  <2>2. CASE CommitExecution(w)
    <3>1. executed'[p] BY <1>1, <1>3, <2>2 DEF CommitExecution, TypeOK
    <3>2. QED BY <3>1 DEF Accounted
  <2>3. ASSUME NEW ws, w \in ws, Cut(ws) PROVE FALSE
    <3>1. Commands(w, a) BY <1>3, Targets DEF Commands, SequencePoints
    <3>2. QED BY <1>3, <2>3, <3>1, CutDisturbs
  <2>4. QED BY <1>1, <1>3, <2>1, <2>2, <2>3, WritesOrCut
<1>4. QED BY <1>2, <1>3 DEF Accounted

-----------------------------------------------------------------------------
\* Table, firewall and ledger go on telling one story.

LEMMA LedgerStep ==
  ASSUME GateInv, LedgerTellsExecutions, [Next]_vars
  PROVE  LedgerTellsExecutions'
<1> SUFFICES ASSUME NEW p \in Proposals, p \notin unlogged', executed'[p]
             PROVE  \/ Row("actions.executed", p, Nobody) \in ledger'
                    \/ \E w \in Workers : job'[w].at = "pub_executed" /\ job'[w].prop = p
  BY DEF LedgerTellsExecutions
<1>1. Grows /\ TypeOK /\ p \notin unlogged BY StepGrows, HistoryGrows DEF GateInv
<1>2. CASE ~executed[p] BY <1>1, <1>2, ExecutedWritten
<1>3. CASE Row("actions.executed", p, Nobody) \in ledger BY <1>1, <1>3 DEF Grows
<1>4. ASSUME NEW w \in Workers, At(w, "pub_executed"), job[w].prop = p
      PROVE  \/ Row("actions.executed", p, Nobody) \in ledger'
             \/ job'[w].at = "pub_executed" /\ job'[w].prop = p
  <2>1. CASE job'[w] = job[w] BY <1>4, <2>1
  <2>2. CASE PublishExecuted(w) BY <1>4, <2>2 DEF PublishExecuted
  <2>3. ASSUME NEW ws, w \in ws, Cut(ws) PROVE FALSE BY <1>4, <2>3 DEF Cut
  <2>4. QED BY <1>1, <1>4, <2>1, <2>2, <2>3, WritesOrCut
<1>5. QED BY <1>1, <1>2, <1>3, <1>4 DEF LedgerTellsExecutions

\* Where there is a rule there is no dry run.
LEMMA BlockedIsReal ==
  ASSUME DryInv, NEW a \in Addresses, Blocked(a)
  PROVE  RealExecution
BY DEF DryInv

\* The block that a rule is added for.
LEMMA AddedFor ==
  ASSUME WallInv, [Next]_vars, NEW w \in Workers, NEW a \in Addresses, Adds(w, a)
  PROVE  \E p \in Proposals : /\ p = job[w].prop /\ TargetIs(p, a) /\ RealExecution
                              /\ Accounted(p)'
<1>t. job \in [Workers -> Jobs] /\ job[w] \in Jobs /\ Knows(w) BY DEF WallInv, GateInv, TypeOK
<1>1. PICK p \in Proposals : p = job[w].prop BY <1>t DEF Adds, Knows
<1>2. Enforced(p) /\ CaseOf(p).ip = a BY <1>1 DEF Adds, Commands
<1>3. RealExecution /\ TargetIs(p, a) BY <1>2, Targets
<1>4. job'[w].at = "commit" /\ job'[w].prop = p BY <1>t, <1>1 DEF Adds, Jobs
<1>5. Accounted(p)' BY <1>4 DEF Accounted
<1>6. QED BY <1>1, <1>3, <1>5

LEMMA BlockedRecordedStep ==
  ASSUME WallInv, BlockedIsRecorded, [Next]_vars
  PROVE  BlockedIsRecorded'
<1> SUFFICES ASSUME NEW a \in Addresses, a \notin disturbed', Blocked(a)'
             PROVE  \E p \in Proposals : TargetIs(p, a)' /\ Accounted(p)'
  BY DEF BlockedIsRecorded
<1>t. /\ GateInv /\ TypeOK /\ DryInv /\ a \notin disturbed
      /\ \A r \in Replicas : rules[r][a] \in Nat
  BY HistoryGrows DEF WallInv, GateInv, TypeOK
<1>1. CASE Blocked(a)
  <2>1. PICK p \in Proposals : TargetIs(p, a) /\ Accounted(p) BY <1>1, <1>t DEF BlockedIsRecorded
  <2>2. RealExecution BY <1>1, <1>t, BlockedIsReal
  <2>3. Accounted(p)' BY <1>t, <2>1, <2>2, AccountedStays
  <2>4. QED BY <2>1, <2>3, Targets
<1>2. ASSUME ~Blocked(a), NEW w \in Workers, NEW b \in Addresses, Adds(w, b)
      PROVE  \E p \in Proposals : TargetIs(p, a)' /\ Accounted(p)'
  <2>1. PICK r \in Replicas : rules'[r][a] > 0 BY DEF Blocked
  <2>2. ~(rules[r][a] > 0) BY <1>2 DEF Blocked
  <2>3. rules'[r][a] = IF r = ReplicaOf(w) /\ a = b THEN rules[r][a] + 1 ELSE rules[r][a]
    BY <1>t, <1>2, OneRule
  <2>4. a = b BY <2>1, <2>2, <2>3
  <2>5. PICK p \in Proposals : TargetIs(p, a) /\ Accounted(p)' BY <1>2, <2>4, AddedFor
  <2>6. QED BY <2>5, Targets
<1>3. ASSUME ~Blocked(a), NEW w \in Workers, NEW b \in Addresses, Removes(w, b) PROVE FALSE
  <2>1. PICK r \in Replicas : rules'[r][a] > 0 BY DEF Blocked
  <2>2. ~(rules[r][a] > 0) BY <1>3 DEF Blocked
  <2>3. rules'[r][a] = IF r = ReplicaOf(w) /\ a = b THEN rules[r][a] - 1 ELSE rules[r][a]
    BY <1>t, <1>3, OneRule
  <2>4. QED BY <1>t, <2>1, <2>2, <2>3
<1>4. CASE rules' = rules BY <1>1, <1>4 DEF Blocked
<1>5. QED BY <1>1, <1>2, <1>3, <1>4, RulesWritten

\* What the commit of a roll back says is so.
LEMMA RollBackSees ==
  ASSUME WallInv, NEW w \in Workers, At(w, "rb_commit"), NEW a \in Addresses, a \notin disturbed,
         RealExecution, TargetIs(job[w].prop, a)
  PROVE  job[w].ok <=> ~Blocked(a)
<1>1. Commands(w, a) BY Targets DEF Commands, SequencePoints
<1>2. Solo(w, a) /\ Sees(w, a) BY <1>1 DEF WallInv, Wall
<1>3. ReplicaOf(w) \in Replicas /\ \A r \in Replicas : rules[r][a] \in Nat
  BY ReplicaType DEF WallInv, GateInv, TypeOK
<1>4. job[w].ok <=> rules[ReplicaOf(w)][a] = 0 BY <1>2 DEF Sees
<1>5. Blocked(a) <=> rules[ReplicaOf(w)][a] > 0
  <2>1. \A r \in Replicas : rules[r][a] > 0 => r = ReplicaOf(w) BY <1>2, <1>3 DEF Solo
  <2>2. QED BY <1>3, <2>1 DEF Blocked
<1>6. QED BY <1>3, <1>4, <1>5

\* A result is rolled back, once and for all while the address is open.
LEMMA WithdrawsSays ==
  ASSUME GateInv, NEW w \in Workers, NEW p \in Proposals, Withdraws(w, p)
  PROVE  /\ result'[p].rolled_back = IF job[w].ok THEN "true" ELSE "false"
         /\ result'[p] \in Results
<1>1. job[w].seen \in Results BY DEF Withdraws, GateInv, Knows
<1>2. result'[p] = [job[w].seen EXCEPT !.rolled_back = IF job[w].ok THEN "true" ELSE "false"]
  BY DEF Withdraws
<1>3. QED BY <1>1, <1>2 DEF Results

LEMMA RolledBackStays ==
  ASSUME WallInv, [Next]_vars, NEW p \in Proposals, NEW a \in Addresses, a \notin disturbed',
         RealExecution, TargetIs(p, a), RolledBack(p)
  PROVE  RolledBack(p)' \/ Blocked(a)'
<1>t. GateInv /\ TypeOK /\ a \notin disturbed /\ ResultInv BY HistoryGrows DEF WallInv, GateInv
<1>1. CASE result'[p] = result[p] BY <1>1 DEF RolledBack
<1>2. ASSUME NEW w \in Workers, Records(w, p) PROVE FALSE
  <2>1. executed[p] BY <1>t DEF RolledBack, ResultInv
  <2>2. Commands(w, a) BY <1>2, Targets DEF Records, Commands, SequencePoints
  <2>3. Sees(w, a) BY <1>t, <2>2 DEF WallInv, Wall
  <2>4. QED BY <1>2, <2>1, <2>3 DEF Records, Sees
<1>3. ASSUME NEW w \in Workers, Withdraws(w, p) PROVE RolledBack(p)' \/ Blocked(a)'
  <2>1. result'[p].rolled_back = (IF job[w].ok THEN "true" ELSE "false") /\ result'[p] \in Results
    BY <1>t, <1>3, WithdrawsSays
  <2>2. CASE job[w].ok BY <2>1, <2>2, ResultAssumption DEF RolledBack
  <2>3. CASE ~job[w].ok
    <3>1. Blocked(a) BY <1>t, <1>3, <2>3, RollBackSees DEF Withdraws
    <3>2. rules' = rules BY <1>3 DEF Withdraws, RollbackCommit
    <3>3. QED BY <3>1, <3>2 DEF Blocked
  <2>4. QED BY <2>2, <2>3
<1>4. QED BY <1>t, <1>1, <1>2, <1>3, ResultsWritten

LEMMA SuccessStep ==
  ASSUME WallInv, SuccessIsEnforced, [Next]_vars
  PROVE  SuccessIsEnforced'
<1> SUFFICES ASSUME NEW p \in Proposals, NEW a \in Addresses, a \notin disturbed', RealExecution,
                    TargetIs(p, a), result'[p] = [success |-> TRUE, rolled_back |-> "no"]
             PROVE  \/ Blocked(a)'
                    \/ \E q \in Proposals : TargetIs(q, a) /\ RolledBack(q)'
                    \/ \E w \in Workers : job'[w].at = "rb_commit" /\ TargetIs(job'[w].prop, a)
  BY DEF SuccessIsEnforced, TargetIs, CaseOf
<1> DEFINE Kept == \/ Blocked(a)'
                   \/ \E q \in Proposals : TargetIs(q, a) /\ RolledBack(q)'
                   \/ \E w \in Workers : job'[w].at = "rb_commit" /\ TargetIs(job'[w].prop, a)
<1>t. /\ GateInv /\ TypeOK /\ a \notin disturbed
      /\ job \in [Workers -> Jobs] /\ \A w \in Workers : Knows(w)
      /\ \A r \in Replicas : rules[r][a] \in Nat
  BY HistoryGrows DEF WallInv, GateInv, TypeOK
<1>k. TypeOK BY <1>t
<1>1. CASE Blocked(a)
  <2>0. PICK r \in Replicas : rules[r][a] > 0 BY <1>1 DEF Blocked
  <2>1. CASE rules' = rules BY <1>1, <2>1 DEF Blocked
  <2>2. ASSUME NEW w \in Workers, NEW b \in Addresses, Adds(w, b) PROVE Kept
    <3>1. rules'[r][a] = IF r = ReplicaOf(w) /\ a = b THEN rules[r][a] + 1 ELSE rules[r][a]
      BY <1>k, <2>2, OneRule, ZenonT(30)
    <3>a. rules[r][a] \in Nat BY <1>t
    <3>2. rules'[r][a] > 0 BY <2>0, <3>a, <3>1
    <3>3. QED BY <3>2 DEF Blocked
  <2>3. ASSUME NEW w \in Workers, NEW b \in Addresses, Removes(w, b) PROVE Kept
    <3>1. CASE a = b
      <4>1. job'[w].at = "rb_commit" /\ job'[w].prop = job[w].prop
        BY <1>t, <2>3 DEF Removes, Jobs
      <4>2. Enforced(job[w].prop) /\ CaseOf(job[w].prop).ip = a
        BY <2>3, <3>1 DEF Removes, Commands
      <4>3. TargetIs(job[w].prop, a) BY <4>2, Targets
      <4>4. QED BY <4>1, <4>3
    <3>2. CASE a # b
      <4>1. rules'[r][a] = IF r = ReplicaOf(w) /\ a = b THEN rules[r][a] - 1 ELSE rules[r][a]
        BY <1>k, <2>3, OneRule
      <4>a. rules'[r][a] = rules[r][a] BY <3>2, <4>1
      <4>2. rules'[r][a] > 0 BY <2>0, <4>a
      <4>3. QED BY <4>2 DEF Blocked
    <3>3. QED BY <3>1, <3>2
  <2>4. QED BY <2>1, <2>2, <2>3, RulesWritten
<1>2. ASSUME NEW q \in Proposals, TargetIs(q, a), RolledBack(q) PROVE Kept
  BY <1>2, RolledBackStays
<1>3. ASSUME NEW w \in Workers, At(w, "rb_commit"), TargetIs(job[w].prop, a) PROVE Kept
  <2>1. CASE job'[w] = job[w] BY <1>3, <2>1
  <2>2. CASE w \in Requests /\ RollbackCommit(w)
    <3>1. PICK d \in Proposals : d = job[w].prop BY <1>t, <1>3 DEF Knows
    <3>2. result \in [Proposals -> Results \union {NoResult}] BY <1>t DEF TypeOK
    <3>3. Withdraws(w, d) BY <2>2, <3>1, <3>2 DEF Withdraws, RollbackCommit
    <3>4. result'[d].rolled_back = (IF job[w].ok THEN "true" ELSE "false") /\ result'[d] \in Results
      BY <1>t, <3>3, WithdrawsSays
    <3>5. CASE job[w].ok
      <4>1. RolledBack(d)' BY <3>4, <3>5, ResultAssumption DEF RolledBack
      <4>2. QED BY <1>3, <3>1, <4>1
    <3>6. CASE ~job[w].ok
      <4>1. Blocked(a) BY <1>t, <1>3, <3>6, RollBackSees
      <4>2. rules' = rules BY <2>2 DEF RollbackCommit
      <4>3. QED BY <4>1, <4>2 DEF Blocked
    <3>7. QED BY <3>5, <3>6
  <2>3. ASSUME NEW ws, w \in ws, Cut(ws) PROVE FALSE
    <3>1. Commands(w, a) BY <1>3, Targets DEF Commands, SequencePoints
    <3>2. QED BY <1>3, <2>3, <3>1, CutDisturbs
  <2>4. QED BY <1>t, <1>3, <2>1, <2>2, <2>3, WritesOrCut
<1>4. CASE result[p] = [success |-> TRUE, rolled_back |-> "no"]
  <2>1. \/ Blocked(a)
        \/ \E q \in Proposals : TargetIs(q, a) /\ RolledBack(q)
        \/ \E w \in Workers : At(w, "rb_commit") /\ TargetIs(job[w].prop, a)
    BY <1>t, <1>4 DEF SuccessIsEnforced
  <2>2. QED BY <2>1, <1>1, <1>2, <1>3
<1>5. ASSUME NEW w \in Workers, Records(w, p) PROVE Blocked(a)'
  <2>1. job[w].ok BY <1>5 DEF Records
  <2>2. Commands(w, a) BY <1>5, Targets DEF Records, Commands, SequencePoints
  <2>3. Sees(w, a) BY <1>t, <2>2 DEF WallInv, Wall
  <2>4. rules[ReplicaOf(w)][a] > 0 /\ rules' = rules
    BY <1>5, <2>1, <2>3 DEF Records, CommitExecution, Sees
  <2>5. QED BY <2>4, ReplicaType DEF Blocked
<1>6. ASSUME NEW w \in Workers, Withdraws(w, p) PROVE FALSE
  BY <1>t, <1>6, WithdrawsSays
<1>7. QED BY <1>t, <1>4, <1>5, <1>6, ResultsWritten

LEMMA UnblockedStep ==
  ASSUME WallInv, RolledBackIsUnblocked, [Next]_vars
  PROVE  RolledBackIsUnblocked'
<1> SUFFICES ASSUME NEW p \in Proposals, NEW a \in Addresses, a \notin disturbed', TargetIs(p, a),
                    RolledBack(p)', Blocked(a)'
             PROVE  \E q \in Proposals \ {p} : TargetIs(q, a) /\ Accounted(q)'
  BY DEF RolledBackIsUnblocked, TargetIs, CaseOf
<1>t. /\ GateInv /\ TypeOK /\ a \notin disturbed /\ ResultInv /\ DryInv
      /\ \A r \in Replicas : rules[r][a] \in Nat
  BY HistoryGrows DEF WallInv, GateInv, TypeOK
<1>d. RealExecution BY DryStep, <1>t DEF DryInv
<1>1. ASSUME RolledBack(p), Blocked(a)
      PROVE  \E q \in Proposals \ {p} : TargetIs(q, a) /\ Accounted(q)'
  <2>1. PICK q \in Proposals \ {p} : TargetIs(q, a) /\ Accounted(q)
    BY <1>1, <1>t DEF RolledBackIsUnblocked
  <2>2. Accounted(q)' BY <1>t, <1>d, <2>1, AccountedStays
  <2>3. QED BY <2>1, <2>2
<1>2. ASSUME RolledBack(p), ~Blocked(a)
      PROVE  \E q \in Proposals \ {p} : TargetIs(q, a) /\ Accounted(q)'
  <2>0. PICK r \in Replicas : rules'[r][a] > 0 BY DEF Blocked
  <2>1. ~(rules[r][a] > 0) BY <1>2 DEF Blocked
  <2>2. ASSUME NEW w \in Workers, NEW b \in Addresses, Removes(w, b) PROVE FALSE
    <3>1. rules'[r][a] = IF r = ReplicaOf(w) /\ a = b THEN rules[r][a] - 1 ELSE rules[r][a]
      BY <1>t, <2>2, OneRule
    <3>2. QED BY <1>t, <2>0, <2>1, <3>1
  <2>3. ASSUME NEW w \in Workers, NEW b \in Addresses, Adds(w, b)
        PROVE  \E q \in Proposals \ {p} : TargetIs(q, a) /\ Accounted(q)'
    <3>1. rules'[r][a] = IF r = ReplicaOf(w) /\ a = b THEN rules[r][a] + 1 ELSE rules[r][a]
      BY <1>t, <2>3, OneRule
    <3>2. a = b BY <2>0, <2>1, <3>1
    <3>3. PICK q \in Proposals : q = job[w].prop /\ TargetIs(q, a) /\ Accounted(q)'
      BY <2>3, <3>2, AddedFor
    <3>4. Sees(w, a) /\ job[w].at = "insert" BY <1>t, <2>3, <3>2 DEF Adds, WallInv, Wall
    <3>5. ~executed[q] BY <3>3, <3>4 DEF Sees
    <3>6. q # p BY <1>2, <1>t, <3>5 DEF RolledBack, ResultInv
    <3>7. QED BY <3>3, <3>6
  <2>4. QED BY <2>0, <2>1, <2>2, <2>3, RulesWritten
<1>3. CASE ~RolledBack(p)
  <2>1. result'[p] # result[p] BY <1>3 DEF RolledBack
  <2>2. ASSUME NEW w \in Workers, Records(w, p) PROVE FALSE
    <3>1. result'[p].rolled_back = "no" BY <2>2 DEF Records
    <3>2. QED BY <3>1 DEF RolledBack
  <2>3. ASSUME NEW w \in Workers, Withdraws(w, p) PROVE FALSE
    <3>1. result'[p].rolled_back = IF job[w].ok THEN "true" ELSE "false"
      BY <1>t, <2>3, WithdrawsSays
    <3>2. job[w].ok BY <3>1 DEF RolledBack
    <3>3. ~Blocked(a) BY <1>t, <1>d, <2>3, <3>2, RollBackSees DEF Withdraws
    <3>4. rules' = rules BY <2>3 DEF Withdraws, RollbackCommit
    <3>5. QED BY <3>3, <3>4 DEF Blocked
  <2>4. QED BY <1>t, <2>1, <2>2, <2>3, ResultsWritten
<1>4. QED BY <1>1, <1>2, <1>3

-----------------------------------------------------------------------------
LEMMA InitRecords == Init => RecordsInv
<1> SUFFICES ASSUME Init PROVE RecordsInv
  OBVIOUS
<1>1. GateInv BY InitInv
<1>2. \A a \in Addresses : ~Blocked(a) /\ Chain(a) BY DEF Init, Blocked, Chain
<1>3. DryInv /\ ResultInv BY <1>2 DEF Init, DryInv, ResultInv
<1>4. ASSUME NEW w \in Workers PROVE Armed(w) /\ \A a \in Addresses : Wall(w, a)
  <2>1. job[w].at = "idle" BY DEF Init, Idle
  <2>2. QED BY <2>1 DEF Armed, CommandPoints, Wall, Commands, SequencePoints
<1>5. RolledBackIsUnblocked BY DEF Init, RolledBackIsUnblocked, RolledBack
<1>6. RecordsAgree
  <2>1. SuccessIsEnforced
    <3>1. [success |-> TRUE, rolled_back |-> "no"] \in Results BY DEF Results
    <3>2. QED BY <3>1, ResultAssumption DEF Init, SuccessIsEnforced
  <2>2. BlockedIsRecorded BY <1>2 DEF BlockedIsRecorded
  <2>3. QED BY <2>1, <2>2 DEF Init, RecordsAgree, LedgerTellsExecutions
<1>7. QED BY <1>1, <1>2, <1>3, <1>4, <1>5, <1>6 DEF RecordsInv, WallInv

LEMMA StepRecords == RecordsInv /\ [Next]_vars => RecordsInv'
<1> SUFFICES ASSUME RecordsInv, [Next]_vars PROVE RecordsInv'
  OBVIOUS
<1>1. /\ WallInv /\ GateInv /\ RolledBackIsUnblocked
      /\ SuccessIsEnforced /\ BlockedIsRecorded /\ LedgerTellsExecutions
  BY DEF RecordsInv, WallInv, RecordsAgree
<1>2. GateInv' BY <1>1, StepInv
<1>3. DryInv' /\ ResultInv' BY <1>1, DryStep, ResultStep
<1>4. \A w \in Workers : Armed(w)' BY <1>1, ArmedStep
<1>5. \A a \in Addresses : Chain(a)' BY <1>1, ChainStep
<1>6. \A w \in Workers, a \in Addresses : Wall(w, a)' BY <1>1, WallStep
<1>7. WallInv' BY <1>2, <1>3, <1>4, <1>5, <1>6 DEF WallInv
<1>8. RolledBackIsUnblocked' BY <1>1, UnblockedStep
<1>9. SuccessIsEnforced' /\ BlockedIsRecorded' /\ LedgerTellsExecutions'
  BY <1>1, SuccessStep, BlockedRecordedStep, LedgerStep
<1>10. QED BY <1>7, <1>8, <1>9 DEF RecordsInv, RecordsAgree

\* The worker at an undisturbed address knows what its host's firewall holds.
THEOREM RecordsInvariant == Spec => []RecordsInv
<1>1. RecordsInv /\ [Next]_vars => RecordsInv' BY StepRecords
<1>2. QED BY <1>1, InitRecords, PTL DEF Spec

\* Firewalls, table and ledger tell one story of what was executed, on any
\* number of hosts and through every fault, but for the addresses whose commands
\* overlapped, misread the chain or were cut before their record, and the
\* proposals whose ledger row was cut off (response.py:93-117, executor.py:90-122).
THEOREM RecordsAlwaysAgree == Spec => []RecordsAgree
<1>1. RecordsInv => RecordsAgree BY DEF RecordsInv
<1>2. Spec => []RecordsInv BY RecordsInvariant
<1>3. QED BY <1>1, <1>2, PTL

\* At every other address a roll back that reports success leaves the address
\* reachable through every host, unless another proposal has it blocked too
\* (executor.py:109-122 with response.py:135-143).
THEOREM RollbackUnblocks == Spec => []RolledBackIsUnblocked
<1>1. RecordsInv => RolledBackIsUnblocked BY DEF RecordsInv
<1>2. Spec => []RecordsInv BY RecordsInvariant
<1>3. QED BY <1>1, <1>2, PTL

=============================================================================
