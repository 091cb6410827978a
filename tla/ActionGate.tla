----------------------------- MODULE ActionGate -----------------------------
(* From a classified incident to an executed, blocked or rolled-back action:  *)
(* backend/app/agents/response.py, the decide, rollback and kill-switch routes *)
(* of backend/app/routers, the executors of backend/app/connectors/executor.py *)
(* and the tier recheck of backend/app/agents/guardian.py.                    *)
(*                                                                            *)
(* Every backend replica runs one listen loop (a worker named after the       *)
(* replica) that handles one bus message at a time, and any number of API     *)
(* requests (the workers in Requests) beside it.  A handler is a sequence of   *)
(* steps cut at its awaits: one step is what runs between two awaits whose     *)
(* effect other workers can see, so steps of all workers interleave.  A        *)
(* worker's local state is its record in job.                                 *)
EXTENDS Policy, Sequences, FiniteSets

CONSTANTS
  Incidents,         \* incidents the Orchestrator classifies
  Case,              \* Case[i]: tenant, action, severity and source address of i
  Tenants, Users,
  Admins,            \* users with the admin role
  HomeTenant,        \* HomeTenant[u]: the tenant user u belongs to
  Addresses,         \* IP addresses
  NoAddress,         \* the incident carries no source address
  Replicas,          \* backend processes
  Requests,          \* API request slots
  Home,              \* Home[q]: the replica serving request slot q
  RealExecution,     \* settings.enable_real_response_execution
  Faults,            \* may processes crash and awaits raise?
  Nobody, NoProposal, NoResult, NoTenant

Workers == Replicas \union Requests

\* A classified incident makes every replica that hears of it propose an action.
Proposals == Incidents \X Replicas

Cases == [tenant : Tenants, action : STRING, severity : Severities,
          ip : Addresses \union {NoAddress}]

ASSUME GateAssumption ==
  /\ \A i \in Incidents : Case[i] \in Cases
  /\ Admins \subseteq Users
  /\ HomeTenant \in [Users -> Tenants]
  /\ Home \in [Requests -> Replicas]
  /\ Replicas \intersect Requests = {}
  /\ NoAddress \notin Addresses
  /\ RealExecution \in BOOLEAN /\ Faults \in BOOLEAN
  /\ Nobody \notin Users
  /\ NoProposal \notin Proposals
  /\ NoTenant \notin Tenants

VARIABLES
  unclassified, \* incidents whose incidents.classified message is not yet published
  up,           \* replicas that are running
  inbox,        \* inbox[r]: bus messages replica r has received and not handled
  tier,         \* action_proposals.tier, "none" while the row does not exist
  executed,     \* action_proposals.executed
  result,       \* action_proposals.execution_result
  status,       \* approval_requests.status, "none" while the row does not exist
  decider,      \* approval_requests.decided_by_user_id
  kill,         \* tenants.kill_switch_engaged
  rules,        \* rules[r][a]: DROP rules for a in the INPUT chain of the host replica r is on
  ledger,       \* audit_log, the facts its rows state
  job           \* job[w]: where worker w is in its handler, and its locals

\* History, which no guard reads: the overlaps and interruptions that have been.
VARIABLES
  contested,    \* proposals that two requests were about to decide at once
  disturbed,    \* addresses whose firewall commands overlapped, split over two
                \* hosts, misread the chain, or ended before they were recorded
  unlogged,     \* proposals whose executed row a worker never came to write
  through       \* through[t]: what was under way when t's kill switch was engaged

dbVars == <<tier, executed, result, status, decider, kill, ledger>>
history == <<contested, disturbed, unlogged, through>>
vars == <<unclassified, up, inbox, dbVars, rules, job, history>>

-----------------------------------------------------------------------------
\* Data.

\* Both messages the loop takes here carry the severity of the incident.
Messages == [chan : {"incidents.classified"}, inc : Incidents, severity : Severities]
              \union [chan : {"actions.proposed"}, prop : Proposals, severity : Severities]

Statuses == {"none", "pending", "approved", "rejected"}

\* execution_result: success, and the rolled_back key ("no": absent).
Results == [success : BOOLEAN, rolled_back : {"no", "true", "false"}]

ASSUME ResultAssumption == NoResult \notin Results

RowKinds == {"actions.proposed", "actions.approved", "actions.denied",
             "actions.executed", "execution_blocked_kill_switch", "rollback",
             "kill_switch_toggled", "tier_mismatch"}

Rows == [what : RowKinds,
         prop : Proposals \union {NoProposal},
         by   : Users \union {Nobody}]

\* Program points: each names the step the worker takes next.
ExecutePoints == {"read", "tenant", "blocked", "check", "insert", "commit", "pub_executed"}
RollbackPoints == {"rb_check", "rb_delete", "rb_commit", "rb_audit"}
StepNames == {"idle", "propose", "pub_proposed", "send_proposed", "ask", "decide",
              "pub_decision", "switch", "pub_kill"} \union ExecutePoints \union RollbackPoints

Jobs == [at : StepNames, prop : Proposals \union {NoProposal}, severity : Severities,
         by : Users \union {Nobody}, approve : BOOLEAN, ok : BOOLEAN,
         seen : Results \union {NoResult}, tenant : Tenants \union {NoTenant}]

Idle == [at |-> "idle", prop |-> NoProposal, severity |-> "low", by |-> Nobody,
         approve |-> FALSE, ok |-> FALSE, seen |-> NoResult, tenant |-> NoTenant]

CaseOf(p) == Case[p[1]]
TenantOf(p) == CaseOf(p).tenant
ReplicaOf(w) == IF w \in Replicas THEN w ELSE Home[w]

\* _parameters_for: the parameters name an address only for block_ip.
TargetIs(p, a) == /\ CaseOf(p).action = "block_ip"
                  /\ CaseOf(p).ip = a
                  /\ a \in Addresses

\* get_executor: does executing p reach the host firewall?
UsesFirewall(p) == RealExecution /\ CaseOf(p).action = "block_ip"

\* ... and is there an address to give it?
Enforced(p) == UsesFirewall(p) /\ CaseOf(p).ip # NoAddress

\* _check_tenant_access, and the same test in set_kill_switch.
CanAccess(u, t) == u \in Admins \/ HomeTenant[u] = t

Row(what, p, u) == [what |-> what, prop |-> p, by |-> u]

Exists(p) == tier[p] # "none"

-----------------------------------------------------------------------------
TypeOK ==
  /\ unclassified \subseteq Incidents
  /\ up \subseteq Replicas
  /\ inbox \in [Replicas -> Seq(Messages)]
  /\ tier \in [Proposals -> Tiers \union {"none"}]
  /\ executed \in [Proposals -> BOOLEAN]
  /\ result \in [Proposals -> Results \union {NoResult}]
  /\ status \in [Proposals -> Statuses]
  /\ decider \in [Proposals -> Users \union {Nobody}]
  /\ kill \in [Tenants -> BOOLEAN]
  /\ rules \in [Replicas -> [Addresses -> Nat]]
  /\ ledger \subseteq Rows
  /\ job \in [Workers -> Jobs]
  /\ contested \subseteq Proposals /\ unlogged \subseteq Proposals
  /\ disturbed \subseteq Addresses
  /\ through \in [Tenants -> SUBSET Proposals]

Init ==
  /\ unclassified = Incidents
  /\ up = Replicas
  /\ inbox = [r \in Replicas |-> <<>>]
  /\ tier = [p \in Proposals |-> "none"]
  /\ executed = [p \in Proposals |-> FALSE]
  /\ result = [p \in Proposals |-> NoResult]
  /\ status = [p \in Proposals |-> "none"]
  /\ decider = [p \in Proposals |-> Nobody]
  /\ kill = [t \in Tenants |-> FALSE]
  /\ rules = [r \in Replicas |-> [a \in Addresses |-> 0]]
  /\ ledger = {}
  /\ job = [w \in Workers |-> Idle]
  /\ contested = {} /\ disturbed = {} /\ unlogged = {}
  /\ through = [t \in Tenants |-> {}]

-----------------------------------------------------------------------------
\* Helpers of the steps.

At(w, point) == job[w].at = point

\* Worker w goes on to a point; goes on to one that needs none of its locals
\* but the proposal; or ends its handler.
Goto(w, point) == job' = [job EXCEPT ![w].at = point]
GotoPlain(w, point) == job' = [job EXCEPT ![w] = [Idle EXCEPT !.at = point, !.prop = job[w].prop]]
Finish(w) == job' = [job EXCEPT ![w] = Idle]

\* EventBus.audit and the first half of EventBus.publish: commit a ledger row.
Audit(what, p, u) == ledger' = ledger \union {Row(what, p, u)}

\* redis.publish: every subscriber that is connected gets the message, once.
Broadcast(m) ==
  inbox' = [r \in Replicas |-> IF r \in up THEN Append(inbox[r], m) ELSE inbox[r]]

-----------------------------------------------------------------------------
\* The Orchestrator publishes an incident's classification.
Classify(i) ==
  /\ i \in unclassified
  /\ unclassified' = unclassified \ {i}
  /\ Broadcast([chan |-> "incidents.classified", inc |-> i, severity |-> Case[i].severity])
  /\ UNCHANGED <<up, dbVars, rules, job, history>>

\* _listen_loop hands an incidents.classified message to on_classified_incident.
Receive(r) ==
  /\ At(r, "idle") /\ r \in up
  /\ inbox[r] # <<>> /\ Head(inbox[r]).chan = "incidents.classified"
  /\ inbox' = [inbox EXCEPT ![r] = Tail(@)]
  /\ job' = [job EXCEPT ![r] = [Idle EXCEPT !.at = "propose",
                                            !.prop = <<Head(inbox[r]).inc, r>>,
                                            !.severity = Head(inbox[r]).severity]]
  /\ UNCHANGED <<unclassified, up, dbVars, rules, history>>

\* classify_action with the message's severity, then the committed
\* action_proposals row.
Propose(r) ==
  /\ At(r, "propose")
  /\ LET p == job[r].prop
     IN  tier' = [tier EXCEPT ![p] = classify_action(CaseOf(p).action, job[r].severity).tier]
  /\ Goto(r, "pub_proposed")
  /\ UNCHANGED <<unclassified, up, inbox, executed, result, status, decider, kill,
                 ledger, rules, history>>

\* publish(CH_ACTIONS_PROPOSED): the ledger row first, then the message.
PublishProposed(r) ==
  /\ At(r, "pub_proposed")
  /\ Audit("actions.proposed", job[r].prop, Nobody)
  /\ Goto(r, "send_proposed")
  /\ UNCHANGED <<unclassified, up, inbox, tier, executed, result, status, decider, kill,
                 rules, history>>

\* Mutants: the tier is not looked at; nobody is asked about tier 3.
AlwaysRead(p) == "read"
AskTier2Only(p) == IF tier[p] = "tier1_auto" THEN "read"
                   ELSE IF tier[p] = "tier2_one_tap" THEN "ask" ELSE "idle"

\* Mutant: the message leaves without the severity, which the Guardian takes for LOW.
SeverityLeftOut(r) == "low"

\* The severity the actions.proposed message carries.
SeveritySent(r) == job[r].severity

\* Tier 1 goes straight to _execute, the others to _request_approval.
BranchOn(p) == IF tier[p] = "tier1_auto" THEN "read" ELSE "ask"

SendProposed(r) ==
  /\ At(r, "send_proposed")
  /\ Broadcast([chan |-> "actions.proposed", prop |-> job[r].prop, severity |-> SeveritySent(r)])
  /\ GotoPlain(r, BranchOn(job[r].prop))
  /\ UNCHANGED <<unclassified, up, dbVars, rules, history>>

\* _request_approval; send_email, which never raises, changes no state.
RequestApproval(r) ==
  /\ At(r, "ask")
  /\ status' = [status EXCEPT ![job[r].prop] = "pending"]
  /\ Finish(r)
  /\ UNCHANGED <<unclassified, up, inbox, tier, executed, result, decider, kill, ledger,
                 rules, history>>

\* on_action_proposed of the Guardian: the tier it derives again, from the
\* stored action and the severity of the message.
Recheck(m) == classify_action(CaseOf(m.prop).action, m.severity).tier

GuardianRecheck(r) ==
  /\ At(r, "idle") /\ r \in up
  /\ inbox[r] # <<>> /\ Head(inbox[r]).chan = "actions.proposed"
  /\ inbox' = [inbox EXCEPT ![r] = Tail(@)]
  /\ LET m == Head(inbox[r])
     IN  IF Exists(m.prop) /\ Recheck(m) # tier[m.prop]
         THEN Audit("tier_mismatch", m.prop, Nobody)
         ELSE UNCHANGED ledger
  /\ UNCHANGED <<unclassified, up, tier, executed, result, status, decider, kill, rules,
                 job, history>>

-----------------------------------------------------------------------------
\* decide_approval.  The row is read here and written a step later, with no
\* lock and no version in between.

\* Mutant: any existing approval can be decided.
DecidableTwice(p) == status[p] # "none"

Decidable(p) == status[p] = "pending"

StartDecide(q, u, p, approve) ==
  /\ At(q, "idle") /\ Home[q] \in up
  /\ CanAccess(u, TenantOf(p))
  /\ Decidable(p)
  /\ job' = [job EXCEPT ![q] = [Idle EXCEPT !.at = "decide", !.prop = p, !.by = u,
                                            !.approve = approve]]
  /\ contested' = contested \union
       {x \in {p} : \E v \in Requests \ {q} : At(v, "decide") /\ job[v].prop = p}
  /\ UNCHANGED <<unclassified, up, inbox, dbVars, rules, disturbed, unlogged, through>>

CommitDecision(q) ==
  /\ At(q, "decide")
  /\ LET p == job[q].prop
     IN  /\ status' = [status EXCEPT ![p] = IF job[q].approve THEN "approved" ELSE "rejected"]
         /\ decider' = [decider EXCEPT ![p] = job[q].by]
  /\ Goto(q, "pub_decision")
  /\ UNCHANGED <<unclassified, up, inbox, tier, executed, result, kill, ledger, rules,
                 history>>

\* Mutants: the decision is not looked at; it is read the wrong way round.
ExecuteAnyway(q) == GotoPlain(q, "read")
ExecuteIfDenied(q) == IF job[q].approve THEN Finish(q) ELSE GotoPlain(q, "read")

\* if payload.approve: execute_approved.
AfterDecision(q) == IF job[q].approve THEN GotoPlain(q, "read") ELSE Finish(q)

PublishDecision(q) ==
  /\ At(q, "pub_decision")
  /\ Audit(IF job[q].approve THEN "actions.approved" ELSE "actions.denied",
           job[q].prop, job[q].by)
  /\ AfterDecision(q)
  /\ UNCHANGED <<unclassified, up, inbox, tier, executed, result, status, decider, kill,
                 rules, history>>

-----------------------------------------------------------------------------
\* The firewall commands for an address: each worker's run from the read that
\* finds there is something to do to the commit that records what was done.

SequencePoints == {"tenant", "check", "insert", "commit", "rb_check", "rb_delete", "rb_commit"}

Commands(w, a) == /\ job[w].at \in SequencePoints
                  /\ Enforced(job[w].prop) /\ CaseOf(job[w].prop).ip = a

\* History: w begins to run commands for p's address while another worker does,
\* or while another replica's host has a rule for it.
Begins(w, p) ==
  disturbed' = disturbed \union
    {a \in Addresses : /\ Enforced(p) /\ CaseOf(p).ip = a
                       /\ \/ \E v \in Workers \ {w} : Commands(v, a)
                          \/ \E r \in Replicas \ {ReplicaOf(w)} : rules[r][a] > 0}

\* History: workers stop, with a change of the firewall or an execution made
\* and not recorded.
Cut(ws) ==
  /\ disturbed' = disturbed \union
       {a \in Addresses : \E w \in ws : Commands(w, a) /\ job[w].at \in {"commit", "rb_commit"}}
  /\ unlogged' = unlogged \union
       {p \in Proposals : \E w \in ws : At(w, "pub_executed") /\ job[w].prop = p}

-----------------------------------------------------------------------------
\* _execute, for the listen loop (tier 1) and for an approving request alike.

ReadProposal(w) ==
  /\ At(w, "read")
  /\ \/ /\ executed[job[w].prop]
        /\ Finish(w)
        /\ UNCHANGED disturbed
     \/ /\ ~executed[job[w].prop]
        /\ Goto(w, "tenant")
        /\ Begins(w, job[w].prop)
  /\ UNCHANGED <<unclassified, up, inbox, dbVars, rules, contested, unlogged, through>>

\* Mutant: the switch is never looked at.
SwitchIgnored(p) == FALSE

Stopped(p) == kill[TenantOf(p)]

\* IPTablesExecutor refuses a proposal whose parameters name no address;
\* DryRunExecutor always reports success and touches nothing.
ReadTenant(w) ==
  /\ At(w, "tenant")
  /\ LET p == job[w].prop
     IN  job' = [job EXCEPT
                   ![w].at = IF Stopped(p) THEN "blocked"
                             ELSE IF Enforced(p) THEN "check" ELSE "commit",
                   ![w].ok = ~UsesFirewall(p)]
  /\ UNCHANGED <<unclassified, up, inbox, dbVars, rules, history>>

AuditBlocked(w) ==
  /\ At(w, "blocked")
  /\ Audit("execution_blocked_kill_switch", job[w].prop, Nobody)
  /\ Finish(w)
  /\ UNCHANGED <<unclassified, up, inbox, tier, executed, result, status, decider, kill,
                 rules, history>>

\* Mutants: the probe never finds the rule; its exit code is ignored.
NeverPresent(w) == FALSE
AlwaysPresent(w) == TRUE

\* _rule_exists: iptables -C on the host of the worker's own replica.
RulePresent(w) == rules[ReplicaOf(w)][CaseOf(job[w].prop).ip] > 0

\* What worker w takes the answer to be: any failure of the command reads as no rule.
Probe(w, found) ==
  /\ found = RulePresent(w) \/ (Faults /\ ~found)
  /\ disturbed' = disturbed \union (IF found = RulePresent(w) THEN {} ELSE {CaseOf(job[w].prop).ip})

CheckRule(w) ==
  /\ At(w, "check")
  /\ \E found \in BOOLEAN :
       /\ Probe(w, found)
       /\ job' = [job EXCEPT ![w].at = IF found THEN "commit" ELSE "insert", ![w].ok = found]
  /\ UNCHANGED <<unclassified, up, inbox, dbVars, rules, contested, unlogged, through>>

\* iptables -I inserts one more rule, or exits non-zero.
InsertRule(w) ==
  /\ At(w, "insert")
  /\ \/ /\ rules' = [rules EXCEPT ![ReplicaOf(w)][CaseOf(job[w].prop).ip] = @ + 1]
        /\ job' = [job EXCEPT ![w].at = "commit", ![w].ok = TRUE]
     \/ /\ Faults
        /\ Goto(w, "commit")
        /\ UNCHANGED rules
  /\ UNCHANGED <<unclassified, up, inbox, dbVars, history>>

AfterCommit(w) == GotoPlain(w, "pub_executed")

CommitExecution(w) ==
  /\ At(w, "commit")
  /\ executed' = [executed EXCEPT ![job[w].prop] = TRUE]
  /\ result' = [result EXCEPT ![job[w].prop] = [success |-> job[w].ok, rolled_back |-> "no"]]
  /\ AfterCommit(w)
  /\ UNCHANGED <<unclassified, up, inbox, tier, status, decider, kill, ledger, rules, history>>

PublishExecuted(w) ==
  /\ At(w, "pub_executed")
  /\ Audit("actions.executed", job[w].prop, Nobody)
  /\ Finish(w)
  /\ UNCHANGED <<unclassified, up, inbox, tier, executed, result, status, decider, kill,
                 rules, history>>

-----------------------------------------------------------------------------
\* rollback_action and ResponseAgent.rollback.

\* What the two refusals leave: 400 if irreversible, no-op if never executed.
Rollable(p) == Reversible(CaseOf(p).action) /\ executed[p]

StartRollback(q, u, p) ==
  /\ At(q, "idle") /\ Home[q] \in up
  /\ CanAccess(u, TenantOf(p))
  /\ Rollable(p)
  /\ job' = [job EXCEPT ![q] =
               [Idle EXCEPT !.at = IF Enforced(p) THEN "rb_check" ELSE "rb_commit",
                            !.prop = p, !.seen = result[p],
                            !.ok = ~UsesFirewall(p)]]
  /\ Begins(q, p)
  /\ UNCHANGED <<unclassified, up, inbox, dbVars, rules, contested, unlogged, through>>

\* With no rule on this host there is nothing to roll back: a success.
RollbackCheck(q) ==
  /\ At(q, "rb_check")
  /\ \E found \in BOOLEAN :
       /\ Probe(q, found)
       /\ IF found THEN Goto(q, "rb_delete")
          ELSE job' = [job EXCEPT ![q].at = "rb_commit", ![q].ok = TRUE]
  /\ UNCHANGED <<unclassified, up, inbox, dbVars, rules, contested, unlogged, through>>

\* iptables -D removes one rule; with none left it exits non-zero.
RollbackDelete(q) ==
  /\ At(q, "rb_delete")
  /\ \/ /\ RulePresent(q)
        /\ rules' = [rules EXCEPT ![ReplicaOf(q)][CaseOf(job[q].prop).ip] = @ - 1]
        /\ job' = [job EXCEPT ![q].at = "rb_commit", ![q].ok = TRUE]
     \/ /\ ~RulePresent(q) \/ Faults
        /\ Goto(q, "rb_commit")
        /\ UNCHANGED rules
  /\ UNCHANGED <<unclassified, up, inbox, dbVars, history>>

\* {**execution_result as read at the start, rolled_back, rollback_detail}.
RollbackCommit(q) ==
  /\ At(q, "rb_commit")
  /\ result' = [result EXCEPT ![job[q].prop] =
                  [job[q].seen EXCEPT !.rolled_back = IF job[q].ok THEN "true" ELSE "false"]]
  /\ GotoPlain(q, "rb_audit")
  /\ UNCHANGED <<unclassified, up, inbox, tier, executed, status, decider, kill, ledger,
                 rules, history>>

RollbackAudit(q) ==
  /\ At(q, "rb_audit")
  /\ Audit("rollback", job[q].prop, Nobody)
  /\ Finish(q)
  /\ UNCHANGED <<unclassified, up, inbox, tier, executed, result, status, decider, kill,
                 rules, history>>

-----------------------------------------------------------------------------
\* set_kill_switch: either role engages it, only an admin disengages it.  The
\* row is read here and written a step later, and the flag is in the UPDATE
\* only if the new value differs from the one read.
StartSwitch(q, u, t, engaged) ==
  /\ At(q, "idle") /\ Home[q] \in up
  /\ CanAccess(u, t)
  /\ engaged \/ u \in Admins
  /\ job' = [job EXCEPT ![q] = [Idle EXCEPT !.at = "switch", !.tenant = t, !.approve = engaged,
                                            !.ok = kill[t] # engaged]]
  /\ UNCHANGED <<unclassified, up, inbox, dbVars, rules, history>>

\* Workers past their look at the switch that have not committed yet.
Running == {w \in Workers : job[w].at \in {"check", "insert", "commit"}}

\* What of tenant t is executed or can still be.
UnderWay(t) == {p \in Proposals :
                  TenantOf(p) = t /\ (executed[p] \/ \E w \in Running : job[w].prop = p)}

CommitSwitch(q) ==
  /\ At(q, "switch")
  /\ LET t == job[q].tenant
     IN  IF job[q].ok
         THEN /\ kill' = [kill EXCEPT ![t] = job[q].approve]
              /\ through' = [through EXCEPT ![t] =
                               IF ~job[q].approve THEN {} ELSE IF kill[t] THEN @ ELSE UnderWay(t)]
         ELSE UNCHANGED <<kill, through>>
  /\ job' = [job EXCEPT ![q] = [Idle EXCEPT !.at = "pub_kill"]]
  /\ UNCHANGED <<unclassified, up, inbox, tier, executed, result, status, decider, ledger, rules,
                 contested, disturbed, unlogged>>

\* The ledger row; which tenant and who is left out.
PublishKillSwitch(q) ==
  /\ At(q, "pub_kill")
  /\ Audit("kill_switch_toggled", NoProposal, Nobody)
  /\ Finish(q)
  /\ UNCHANGED <<unclassified, up, inbox, tier, executed, result, status, decider, kill, rules,
                 history>>

-----------------------------------------------------------------------------
\* An await raises (database, Redis or subprocess error): the listen loop logs
\* the exception and drops the message, a request answers 500.  What was
\* committed stays.
Raise(w) ==
  /\ Faults
  /\ ~At(w, "idle")
  /\ Finish(w)
  /\ Cut({w})
  /\ UNCHANGED <<unclassified, up, inbox, dbVars, rules, contested, through>>

\* The process dies with everything in flight and every message it had
\* received; the database and the firewall stay as they are.
Crash(r) ==
  /\ Faults
  /\ r \in up
  /\ up' = up \ {r}
  /\ inbox' = [inbox EXCEPT ![r] = <<>>]
  /\ job' = [w \in Workers |-> IF ReplicaOf(w) = r THEN Idle ELSE job[w]]
  /\ Cut({w \in Workers : ReplicaOf(w) = r})
  /\ UNCHANGED <<unclassified, dbVars, rules, contested, through>>

\* It comes back subscribed, with nothing to resume from.
Restart(r) ==
  /\ r \in Replicas \ up
  /\ up' = up \union {r}
  /\ UNCHANGED <<unclassified, inbox, dbVars, rules, job, history>>

-----------------------------------------------------------------------------
\* The steps of a handler under way, and of a loop with a message to take.
LoopStep(r) == \/ Receive(r) \/ Propose(r) \/ PublishProposed(r) \/ SendProposed(r)
               \/ RequestApproval(r) \/ GuardianRecheck(r)

ExecuteStep(w) == \/ ReadProposal(w) \/ ReadTenant(w) \/ AuditBlocked(w)
                  \/ CheckRule(w) \/ InsertRule(w)
                  \/ CommitExecution(w) \/ PublishExecuted(w)

RequestStep(q) == \/ CommitDecision(q) \/ PublishDecision(q)
                  \/ RollbackCheck(q) \/ RollbackDelete(q) \/ RollbackCommit(q) \/ RollbackAudit(q)
                  \/ CommitSwitch(q) \/ PublishKillSwitch(q)

\* A human calls the API.
HumanStep(q, u) ==
  \/ \E p \in Proposals : \/ \E approve \in BOOLEAN : StartDecide(q, u, p, approve)
                          \/ StartRollback(q, u, p)
  \/ \E t \in Tenants, engaged \in BOOLEAN : StartSwitch(q, u, t, engaged)

Next ==
  \/ \E i \in Incidents : Classify(i)
  \/ \E r \in Replicas : LoopStep(r) \/ Crash(r) \/ Restart(r)
  \/ \E w \in Workers : ExecuteStep(w) \/ Raise(w)
  \/ \E q \in Requests : RequestStep(q) \/ \E u \in Users : HumanStep(q, u)

Spec == Init /\ [][Next]_vars

\* The event loop of a replica resumes every coroutine whose await is done, and
\* every await of a handler ends: each worker that can go on does.
Fairness == /\ \A r \in Replicas : WF_vars(LoopStep(r))
            /\ \A w \in Workers : WF_vars(ExecuteStep(w))
            /\ \A q \in Requests : WF_vars(RequestStep(q))

FairSpec == Spec /\ Fairness

-----------------------------------------------------------------------------
\* Properties.

\* p has an approval on record, by a user who may decide for p's tenant.
Granted(p) == \E u \in Users : /\ CanAccess(u, TenantOf(p))
                               /\ Row("actions.approved", p, u) \in ledger

\* The policy lets p run alone, or a human has.
Cleared(p) == tier[p] = "tier1_auto" \/ Granted(p)

\* Whatever workers, replicas, crashes and races do, nothing is on record as
\* executed unless its tier is automatic or the ledger names the authorised
\* human who approved it (approvals.py:56-58, response.py:55-58 and 120-122).
ExecutedIsCleared == \A p \in Proposals : executed[p] => Exists(p) /\ Cleared(p)

\* A host that runs a replica drops what comes from a.
Blocked(a) == \E r \in Replicas : rules[r][a] > 0

\* The firewall, which no transaction covers, never holds a rule that no
\* authorised human approved (executor.py:90-107 reached from response.py:106).
BlockedIsGranted ==
  \A a \in Addresses : Blocked(a) => \E p \in Proposals : TargetIs(p, a) /\ Granted(p)

\* The Guardian never finds the stored tier different from the tier it derives
\* from the message it is sent: the severity survives both hops of the bus, and
\* what another replica stored under it is still there (guardian.py:38-51
\* against response.py:25-49).
GuardianAgrees == \A row \in ledger : row.what # "tier_mismatch"

\* Between the commit that engages a tenant's switch and the one that lifts it,
\* nothing of the tenant is executed or gets to the firewall but what was past
\* its look at the switch when it was engaged, however the approvals, the
\* listen loop and other switch requests overlap (response.py:93-103 with
\* tenants.py:63-70).
SwitchBoundsEffects == \A t \in Tenants : kill[t] => UnderWay(t) \subseteq through[t]

\* README.md:63-66: the switch stops all execution immediately, and is checked
\* immediately before every execution.  While a tenant is stopped no host gets
\* a new rule for an action of that tenant.
StopsImmediately ==
  [][\A r \in Replicas, a \in Addresses : rules'[r][a] > rules[r][a] =>
       \E p \in Proposals : TargetIs(p, a) /\ ~kill[TenantOf(p)]]_vars

\* The detailed handlers implement the gate of HumanGate: grants are the
\* approvals in the ledger, a proposal is executed when its row says so, an
\* address is blocked while the chain of some host has a rule for it.
Gate == INSTANCE HumanGate WITH
  TierSet <- Tiers,
  AutoTier <- "tier1_auto",
  MayActFor <- {may \in Users \X Proposals : CanAccess(may[1], TenantOf(may[2]))},
  Touches <- {pa \in Proposals \X Addresses : TargetIs(pa[1], pa[2])},
  grants <- {g \in Proposals \X Users : Row("actions.approved", g[1], g[2]) \in ledger},
  executed <- {p \in Proposals : executed[p]},
  blocked <- {a \in Addresses : Blocked(a)}

ImplementsGate == Gate!Spec

\* The tier the policy gives p under the severity its incident was classified with.
TierFor(p) == classify_action(CaseOf(p).action, CaseOf(p).severity).tier

\* Why the gate holds: what each worker knows at each of its steps.
Knows(w) ==
  LET p == job[w].prop
      reached(points) == job[w].at \in points
  IN  /\ ~reached({"idle", "switch", "pub_kill"}) => p \in Proposals
      /\ reached({"propose", "pub_proposed", "send_proposed"}) =>
           job[w].severity = CaseOf(p).severity
      /\ reached({"pub_proposed", "send_proposed"}) => Exists(p)
      /\ reached({"ask"}) => Exists(p) /\ tier[p] # "tier1_auto"
      /\ reached({"decide", "pub_decision"}) =>
           /\ Exists(p) /\ tier[p] # "tier1_auto"
           /\ job[w].by \in Users /\ CanAccess(job[w].by, TenantOf(p))
      /\ reached(ExecutePoints) => Exists(p) /\ Cleared(p)
      /\ reached(RollbackPoints) => executed[p]
      /\ reached({"rb_check", "rb_delete", "rb_commit"}) => job[w].seen \in Results
      /\ reached({"check", "insert", "rb_check", "rb_delete"}) => TargetIs(p, CaseOf(p).ip)
      /\ reached({"switch"}) => job[w].tenant \in Tenants

\* ... what every proposal's rows say together ...
Consistent(p) ==
  /\ tier[p] \in {"none", TierFor(p)}
  /\ status[p] # "none" => Exists(p) /\ tier[p] # "tier1_auto"
  /\ executed[p] => Exists(p) /\ Cleared(p) /\ result[p] \in Results

\* ... and what the messages on the bus carry.
Carried(m) ==
  m.severity = IF m.chan = "incidents.classified" THEN Case[m.inc].severity
               ELSE CaseOf(m.prop).severity

\* The inductive invariant behind the theorems of ActionGate_proofs: no worker
\* reaches an effect without the clearance the database records.
GateInv == /\ TypeOK
           /\ \A w \in Workers : Knows(w)
           /\ \A p \in Proposals : Consistent(p)
           /\ \A r \in Replicas : \A k \in DOMAIN inbox[r] : Carried(inbox[r][k])
           /\ BlockedIsGranted
           /\ GuardianAgrees

\* A decision, once committed, is neither reversed nor reattributed, except
\* where two requests had both read the row as pending (approvals.py:59-74):
\* no crash, failure, retry or later request does it.
DecisionIsFinal ==
  [][\A p \in Proposals \ contested : status[p] \in {"approved", "rejected"} =>
       status'[p] = status[p] /\ decider'[p] = decider[p]]_vars

\* Outside such an overlap, a rejected action is never executed nor about to
\* be, whatever else is going on (approvals.py:67-88).
RejectedNeverRuns ==
  \A p \in Proposals \ contested : status[p] = "rejected" =>
    ~executed[p] /\ \A w \in Workers : job[w].prop = p => job[w].at \notin ExecutePoints

\* Every recorded execution has its ledger row, or the row is the very next
\* thing its worker writes, or that worker was stopped there
\* (response.py:108-117; models.py:183-188).
LedgerTellsExecutions ==
  \A p \in Proposals \ unlogged : executed[p] =>
    \/ Row("actions.executed", p, Nobody) \in ledger
    \/ \E w \in Workers : At(w, "pub_executed") /\ job[w].prop = p

\* An execution of p is on record, or its worker is about to record it.
Accounted(p) == executed[p] \/ \E w \in Workers : At(w, "commit") /\ job[w].prop = p

RolledBack(p) == result[p] # NoResult /\ result[p].rolled_back = "true"

\* A roll back that reports success leaves the address reachable through every
\* host, unless another proposal has the address blocked too or its commands
\* were disturbed (executor.py:109-122 with response.py:135-143).
RolledBackIsUnblocked ==
  \A p \in Proposals, a \in Addresses \ disturbed :
    TargetIs(p, a) /\ RolledBack(p) =>
      ~Blocked(a) \/ \E q \in Proposals \ {p} : TargetIs(q, a) /\ Accounted(q)

\* An execution reported successful is really enforced, until a roll back for
\* its address is under way or done (executor.py:90-107).
SuccessIsEnforced ==
  \A p \in Proposals, a \in Addresses \ disturbed :
    RealExecution /\ TargetIs(p, a) /\ result[p] = [success |-> TRUE, rolled_back |-> "no"] =>
      \/ Blocked(a)
      \/ \E q \in Proposals : TargetIs(q, a) /\ RolledBack(q)
      \/ \E w \in Workers : At(w, "rb_commit") /\ TargetIs(job[w].prop, a)

\* Every rule in a firewall can be rolled back: a recorded execution accounts
\* for it, or a worker is about to record one (rollback refuses the others,
\* response.py:132-133).
BlockedIsRecorded ==
  \A a \in Addresses \ disturbed : Blocked(a) =>
    \E p \in Proposals : TargetIs(p, a) /\ Accounted(p)

\* Firewall, table and ledger tell one story of what was executed, and what
\* breaks it is known: commands for one address that overlap, misread the chain
\* or end before their commit, and a worker stopped before its ledger row.
RecordsAgree == SuccessIsEnforced /\ BlockedIsRecorded /\ LedgerTellsExecutions

\* Resolved one way or the other: executed, or stopped by the kill switch.
Settled(p) == executed[p] \/ Row("execution_blocked_kill_switch", p, Nobody) \in ledger

\* An approval that was committed is acted on (approvals.py:86-88).
ApprovedIsSettled == \A p \in Proposals : status[p] = "approved" ~> Settled(p)

\* A proposal is executed, stopped by the switch, or put before a human
\* (response.py:55-58).
ProposalIsRouted ==
  \A p \in Proposals : Exists(p) ~> Settled(p) \/ status[p] # "none"

=============================================================================
