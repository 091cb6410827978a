# SentriMeshAstra in TLA+

TLA+ models of the SentriMeshAstra backend and of the console's live page, the
TLC runs that check them on small instances, and theorems about them checked by
TLAPS for every value of the constants. Paths below are relative to
`src/backend/app` unless they begin with `frontend/` or `README.md`.

- [The system](#the-system): inventory of components, interactions, hard parts
- [Modules](#modules): what each models, and how it corresponds to the code
- [Runs](#runs): questions, bounds, fairness, results
- [What is proved](#what-is-proved)
- [Where the code and its documents disagree](#where-the-code-and-its-documents-disagree)
- [What is not modelled](#what-is-not-modelled)
- [Plan](#plan)

## The system

A backend process (a *replica*) serves a REST/WebSocket API and runs eight
agents. The agents talk over Redis pub/sub (`bus.py`): `publish` commits an
`audit_log` row, then publishes; every replica's single listen loop takes one
message at a time and awaits every handler of its channel in turn. API requests
run beside the loop, any number of them overlapping at their awaits. Replicas
share one Postgres database, one Redis and (with real execution on) each its
host's iptables. Nothing resumes after a restart: Redis pub/sub keeps no message
for an absent subscriber.

| Component | State | Operations | Correct when |
|---|---|---|---|
| Policy engine (`policy/engine.py`, `agents/orchestrator.py:9-31`) | none | classify an action, score signals, recommend | more evidence never lowers a severity, nor loosens the tier of a given action; only `notify` runs alone |
| Response agent and human gate (`agents/response.py`, `routers/approvals.py`, `routers/actions.py`) | `action_proposals`, `approval_requests` | propose, ask, decide, execute, roll back | nothing takes effect without its clearance; a decision is final; a rejected action never runs |
| Executors (`connectors/executor.py`) | the host's INPUT chain | probe, insert, delete a rule | rules and records agree; a roll back that reports success really unblocks |
| Tenants and kill switch (`routers/tenants.py`) | `tenants` | create, engage, disengage | nothing of a stopped tenant starts, and what was under way is all that still happens |
| Guardian (`agents/guardian.py`) | none (alerts in the ledger) | recheck tiers, check connector health | never a disagreement it should not see; a connector that stays silent is alerted of, one that speaks is not |
| Bus and audit ledger (`bus.py`) | subscriptions, `audit_log` | publish, audit, dispatch | nothing acts without a row |
| Ingest and Integration (`routers/ingest.py`, `agents/integration.py`, `connectors/log_formats.py`) | `log_events`, `last_event_at` | authenticate, parse, store, republish | each event counted once, for what its vendor says it is |
| Detection (`agents/detection.py`, `state_store.py`) | Redis windows and last sign-ins, `incidents`, a per-process cache | count, correlate, deduplicate, open, fold | an incident exactly when there is evidence; one per campaign; evidence kept |
| Exposure (`agents/exposure.py`, `connectors/*_scanner.py`) | `incidents` | scan a domain, look up dependencies | nothing a source said is lost, no silence passes for an answer, the worst finding decides the severity |
| Threat intelligence (`agents/threat_intel.py`, `connectors/threat_feed.py`) | `threat_indicators`, `incidents.enrichment` | ask feeds, aggregate, enrich | malicious only on a reputation verdict, and never averaged away |
| Orchestrator (`agents/orchestrator.py`) | `incidents.severity` | classify, recommend, summarize | every incident is classified, once |
| Reporting and schedules (`agents/reporting.py`, `agents/runner.py`, `routers/reports.py`) | `reports`, two timers per process | daily summary, on schedule or request | every day reported once, and every incident in its day |
| Login, lockout, accounts (`auth.py`, `routers/auth.py`, `ratelimit.py`) | `users`, Redis windows, JWTs | log in, lock out, create users, bootstrap | bounded guessing, a lockout that ends |
| Connectors (`connector_auth.py`, `routers/connectors.py`) | `connector_configs` | add, rotate, authenticate | a replaced token opens nothing |
| Live push and console (`realtime.py`, `routers/ws.py`, `frontend/src`) | one socket, one page | subscribe, push, reconnect, refetch, decide, roll back, sign in and out | one stream per tab, and it comes back; what a message tells of gets shown |

The hard behaviours, each listed at its line under "hazards" in `PROJECT.json`:
check-then-act across an await (decisions, the kill switch, iptables probe and
insert, incident look-up and insert, accounts, the lockout); crashes between a
commit and its publish or between an effect and its record; every replica
handling every message; state read, awaited over and written back whole (folds,
enrichment, roll-back results); windows, thresholds and score bands; schedules
that sleep first and forget everything with the process; sources that fail one by
one; and, in the browser, reconnects, responses that overtake each other, and rows
committed after the message that announces them.

## Modules

| Module | Models | Builds on |
|---|---|---|
| `Policy` | `policy/engine.py` and `recommend_action`, as operators | |
| `ThreatFeed` | `connectors/threat_feed.py`: each feed's verdict as a function of its figures, `_aggregate`, `lookup_ip` | |
| `Triage` | one incident gathering feed answers and signals; chains ThreatFeed, scoring, recommendation and tier | Policy, ThreatFeed |
| `HumanGate` | the abstract promise: proposals, grants, executions, blocked addresses | |
| `ActionGate` | `response.py`, the decide, roll-back and kill-switch routes, the executors and the hosts' firewalls, the Guardian's recheck, crash and restart | Policy; implements HumanGate |
| `LogFormats` | `connectors/log_formats.py`: each vendor's parser, as operators on the fields it reads | |
| `Scanners` | `connectors/vuln_scanner.py`, `exposure_scanner.py` and `_worst_severity`: what a scan concludes from its sources' answers, as operators | |
| `Campaign` | the abstract promise of Detection: cases, their evidence, their answers | |
| `Correlation` | raw event or scan to classified incident: Integration, Detection, Exposure, ThreatIntel, Orchestrator on the bus | Policy, LogFormats, Scanners; implements Campaign |
| `Background` | the daily-report and health loops of `agents/runner.py`, `reporting.py`, `guardian.py:63-83`, reports on request | |
| `Access` | login and lockout, accounts, connector tokens, ingest authentication | |
| `LiveConsole` | the WebSocket, `liveEvents.js`, `session.jsx`, the Approvals page | |
| `MCActionGate`, `MCCorrelation`, `MCAccess`, `MCBackground` | instances for TLC | |
| `Triage_proofs`, `ActionGate_proofs`, `ActionGate_overlap`, `Access_proofs`, `Correlation_proofs`, `Correlation_detection`, `Background_proofs`, `LiveConsole_proofs` | theorems | TLAPS |

**Steps.** A handler is a sequence of actions cut at the awaits whose effects
others can see; its place and its locals are a record in `job`, lost in a crash.
Whatever happens between two such awaits is one action, trailing writes
included. `Raise` (an await raises: the loop logs it and drops the message, a
request answers 500) and `Crash` (a replica dies with all its jobs and its
inbox) leave what was committed.

**ActionGate.** `Classify(i)` stands for the Orchestrator's
`incidents.classified` message of incident `i`; `Receive`, `Propose`,
`PublishProposed`, `SendProposed`, `RequestApproval` are
`on_classified_incident`; `StartDecide`, `CommitDecision`, `PublishDecision` are
`decide_approval`, reading and writing the row in different steps as the code
does; `ReadProposal` to `PublishExecuted` are `_execute`, shared by the loop and
the requests; `CheckRule`/`InsertRule` and `RollbackCheck`/`RollbackDelete` are
the two iptables subprocesses of an executor call. `StartSwitch` and `CommitSwitch` are
`set_kill_switch`, which too reads the row in one step and writes it in another,
and writes the flag only if it differs from what it read. The ledger is the set of
facts its rows state. Each replica is on a host of its own: `rules[r][a]` counts the
DROP rules for `a` there, so that stacked rules, and rules a roll back looks for on
the wrong host, are visible. A message carries the severity its sender gave it, and
the Guardian derives the tier from that one.

Four history variables, read by no guard, name what the properties except:
`contested` (proposals that two requests were about to decide at once), `disturbed`
(addresses whose firewall commands overlapped, were spread over two hosts, misread
the chain, or ended before their commit), `unlogged` (proposals whose worker was
stopped before the ledger row), and `through` (what was past its look at a tenant's
switch when the switch was engaged). So `DecisionIsFinal`, `RejectedNeverRuns`,
`RolledBackIsUnblocked` and `RecordsAgree` are stated, checked and proved with
requests overlapping and everything failing, and say that nothing *else* breaks the
promise.

**Correlation.** A replica's `inbox` is its Redis subscription in order.
`LookUp`, `Fold` or `Open`, `Remember`, `Announce` are `_open_incident`; `seen`
is the list of related events as loaded, which the fold writes back whole.
Feed verdicts are an input (`Malicious`, or no data under `Faults`); Triage
derives them. Raw events are records of a vendor's fields (`RawOf`), which
`normalize` parses by the connector's registered type; `Located` is
`_resolve_country`, the vendor's country or the one ipinfo.io may or may not
give. A scan is `ReportDomain` or `ReportPackages`: each source answers or does
not, Scanners concludes, and the incident is filed; what was answered stays in the
job until the announcement, for `ReportTellsScan`. A scan that raises half-way, like
any handler that raises before it has changed anything, is `Drop`. `ImplementsCampaign` maps a
campaign to the incidents with its tenant, technique and address, the events
related to them, and the `incidents.classified` messages about them.

**Background.** A timestamp is its age in ticks, capped one past the limit it is
compared with, and a sleep is what is left of it, so the state space is finite and
time never stops. A writer (a replica's daily loop, or a request) reads the day
of one tenant, commits, mails and publishes, tenant after tenant in any order; a
failure anywhere ends the round. A health check may fail too, when it reads the rows
or when it publishes (`FailHealth`). Connectors are active ones: nothing in the code
deactivates one. `looked`, `excused` and `late` are history
variables: each process's last scheduled look at each tenant, the incidents the schedule may
miss, and the connectors heard since the check that found them silent.

**Access.** A request slot is a coroutine on any replica. The lockout's check of
the e-mail, check of the address, password verification and two recordings are
five steps. `CheckName`/`InsertName` are the check-then-insert of
`bootstrap_admin` (a starting replica), `create_tenant` and
`create_security_holder`. A second insert of a name fails on the unique constraint of
its table: a 500, or a replica that does not start; the constraint is the database's
and no property restates it. Tokens are numbered in the order they are generated;
an ingest request is admitted by its token in one step and publishes in another.
The audit rows of logins are left out.

**LiveConsole.** A page's data is the number of commits a list would show. The
effect of a company is a socket and a reconnect timer; requests for the list are
counted while out, and responses arrive in any order. `SignIn` and `SignOut` are
`login` and `logout`: they mount a fresh page, but the effect reruns only if the
company changes, so a sign-in to the company that was selected finds the stream as
it was, given up included. Requests of a page since left are only remembered as being
out (`left`), because a late 401 clears whatever session there is by then. A
decision or roll back on the page reloads the list when its answer comes. `Serve`
answers with what its first read finds; the later rows the code may include would
only make the answer newer. `heard` and `promised` are what arrived messages were
about and what sent ones announce, `seen` what has been shown, and `missed` what was
heard of when a load failed and the page said so.

**Mutants.** Operators commented "Mutant" are changed forms of the definition
that follows, each the way a plausible bug in that code would have it; every
checked property is broken by one of them (`PROJECT.json`, "mutants").

## Runs

Passing runs. State counts are distinct states.

| Run | Instance | Checks |
|---|---|---|
| `Triage` | 3 feeds of different kinds (VirusTotal, GreyNoise, Shodan), every set of signals, failed logins up to past the last score boundary | severity, and the tier of any given action, are monotone in the evidence (`SeverityMonotone`, `TierMonotone`); only `notify` runs alone; Shodan alone never convicts; one malicious verdict is never averaged away (224 k) |
| `GateFaults` | 1 block, admin and holder roles, real firewall, one replica, 2 overlapping requests, crashes and failing awaits anywhere | the gate (`ExecutedIsCleared`, `BlockedIsGranted`), its inductive invariant `GateInv`, and that ActionGate implements HumanGate; what the kill switch bounds (`SwitchBoundsEffects`); that nothing but the named overlaps and failures undoes a decision (`DecisionIsFinal`, `RejectedNeverRuns`) or makes firewall, rows and ledger disagree (`RecordsAgree`, `RolledBackIsUnblocked`) (1.3 M) |
| `GateSerial` | 3 incidents, 2 tenants sharing one attacked address, a `notify`, one request at a time, no faults, fair | every approval is settled and every proposal routed; rolling back one tenant's block where another has the address blocked too (286 k) |
| `CorrelateStory` | 5 failed logins from Wazuh, CloudTrail and Azure AD, a success, a sign-in far away, noise, in every order; failures and baselines may expire at any time | a brute force is claimed only on five failures, a burst within the window is never missed, and no sign-in far away becomes the baseline before it is evidence of an incident (1.0 M) |
| `CorrelateCrash` | 3 vendor-tagged alarms from 2 addresses, and a scan of either kind; crashes, failing awaits, feeds and scan sources down | Correlation implements Campaign; its inductive invariant `CorrelationInv`; a block only on a malicious verdict; `ReportTellsScan` (342 k) |
| `CorrelateReplicas` | 2 replicas, 2 failed logins, fair | how few failed logins make a brute force when every replica counts for itself: two, never one (`BruteForceHasItsShare`); every incident opened is classified, also when replicas open it twice or race on the indicator row (961 k) |
| `Access` | 2 overlapping requests, 2 companies, administrator and holder, limits 1 and 2, 3 tokens, faults | the overshoot of the lockout is bounded and the lockout ends; a replaced token admits nothing (240 k) |
| `LiveConsole` | 2 companies, one of them active, 2 commits, 2 selections, sign-ins or sign-outs, 1 loss | one stream; it reconnects; what an arrived message is about gets onto the page, or its failure does (`PushIsShown`), and nothing heard is forgotten meanwhile (`ConsoleInv`) (210 k) |
| `Background` | 1 process, 2 tenants, 1 incident, 1 connector, 1 request; a day of 2 ticks; 1 crash or failure, fair | the sleep hides no incident (`OnlyWritingHides`), no tenant is reported twice in a day (`ReportsSpaced`), alerts are true when checked, silence is reported, reports keep coming; the inductive invariant `BackgroundInv` (460 k) |

Violating runs, each the shortest way to a disagreement described
[below](#where-the-code-and-its-documents-disagree): `KillSwitchRace`,
`LivePromise`, `ScanSeverity`.

**Why the bounds are enough.** Two overlapping requests are what a
check-then-act race needs, and a third only repeats it; the gate's theorems hold
for any number. Two hosts, or two incidents with overlapping requests, are beyond an
exhaustive run: what is checked of one host is proved of any number of them. Three proposals on one address let one tenant's roll back meet
another's rule. The threshold is the code's own 5, with exactly five failures, so
that both off-by-one mistakes show; two failed logins are what two replicas need to
reach it, and one is what they must not. At most two incidents are opened there.
Limits of 1 and 2 attempts with two requests
reach every overshoot `OvershootBounded` allows; `MaxFailures` is above it and
never binds, except in mutants. `MaxTokens = 3` lets a token be replaced twice.
Two commits and two selections in the console give an older and a newer list, a
list of another company, a change back to none, and a sign-out with a sign-in after
it; commits for one company and none for the other are enough for a list of the
wrong one; `MaxDrops` bounds losses,
which liveness needs: a connection lost for ever is not what reconnecting can cure.
The scan's answers include none, an empty one, an advisory both sources know at two
severities, one with a CVE, and one without a name. A day of 2 ticks lets an incident be opened at the
start, in the middle and at the end of a sleep, and grow too old while a report is
written; two tenants let one's failure skip the other; `MaxFaults` bounds crashes
and failures, which liveness needs: a process that never lives a day reports
nothing.

**Deadlock** is not checked: when no more incidents, events or calls come, the
system rests.

**Symmetry** is used only in runs without liveness, over interchangeable request
slots of one replica, failed logins of one source, or alarms of one address.

**Fairness.** Replicas: weak fairness of each worker, because the event loop
resumes every coroutine whose await has ended and every await ends (HTTP, Redis
and database calls carry timeouts; iptables is assumed to exit). Correlate runs:
weak fairness of each replica's loop. There is none
on what people, connectors or faults do. Access: weak fairness of `Expire`, the
passing of time. Console: browser, network and server go on with what was begun;
nothing forces a drop, a failed request or a click. Background: time passes, the
two loops resume after every await, and a process that went down is restarted, which
takes a supervisor: `docker-compose.yml` configures no restart policy, and without
one no report comes after a crash. `ReportsKeepComing` and `SilenceIsReported` allow
finitely many crashes and failures. Nothing forces an event, an incident, a request
or a fault.

## What is proved

All theorems hold for every value of the constants that satisfies the named
assumptions of the modules, with no bound on replicas, requests, incidents, events,
scans, tenants, addresses, users or crashes. The assumptions are `GateAssumption`,
`ResultAssumption`, `TriageAssumption`, `AccessAssumption`,
`CorrelationAssumption`, `ScanAssumption`, `BackgroundAssumption` and
`LiveConsoleAssumption`. They say what type a constant has, that null values are
not values, that sets of ids are disjoint or finite, that a user has a home tenant,
and that no country is too far from itself (`geo.py:76`).

Only the theorems of `Correlation_detection` name a condition as a hypothesis, a constant's value that a real
deployment can have and a passing run uses:

| Hypothesis | Says | Needed because |
|---|---|---|
| `~Faults` (`BurstsAreSeen`) | nothing crashes, no await raises | no step of the code takes up what was interrupted |
| `OneReplica` (the other theorems of `Correlation_detection`) | the backend is one process | every process counts and answers for itself |

**The gate: `ActionGate_proofs`** (no hypotheses). `TypeCorrect`, then
`GateInvariant: Spec => []GateInv`. `ExecutedIsCleared` and `BlockedIsGranted` are
not inductive: an execution step clears nothing, it relies on how its worker came
to it. `GateInv` adds `Knows(w)`, what a worker may rely on at each of its steps (at
any step of `_execute` the proposal exists and is cleared; past a decision's check
the decider has access; at a firewall step the proposal names the address),
`Consistent(p)`, how a proposal's rows agree, and `Carried(m)`, that every message
on the bus has its incident's severity. It survives interleaving because every
part of it is about facts that only grow: the ledger is append-only, a tier is
written once, `executed` never goes back. One lemma per step, then
`NoExecutionWithoutClearance`, `NoBlockWithoutGrant`, and `GuardianNeverDisagrees`:
what the Guardian derives from the severity in its message is what was stored before
the message left, because no handler and no queue changes it (a message without a
severity, which the Guardian takes for LOW, breaks it). `SwitchBounds`: nothing gets
past its look at an engaged switch, so what is under way only shrinks until the
switch is lifted, whatever other switch requests write meanwhile. `Implementation: Spec => ImplementsGate` is
the refinement: initial states map to HumanGate's, and every step is one of its
steps or a stutter: publishing an approval is `Grant`, the commit of an execution
`Execute`, the insert `Block`, and the delete `Unblock`.

**The gate under overlap: `ActionGate_overlap`** (no hypotheses). What the documents
promise of decisions, records and roll backs, for any number of requests, replicas
and hosts and every fault, of every proposal and address that the history variables
do not name.

- `RejectedStaysPut` and `DecisionsAreFinal`. `GateInv` says what a worker may rely
  on, not that it is alone; `TurnsInv` adds whose turn it is. A classification is
  announced to a loop once and proposed for once (`Once`); a loop is alone with its
  proposal until it is executed or put before a human; a request still finds the row
  it read, unless the proposal is contested (`Turn`); only a contested proposal has
  two requests about to decide it (`Alone`); so what is executed was automatic or is
  still approved (`Decided`).
- `RecordsAlwaysAgree` and `RollbackUnblocks`. `WallInv` says of an undisturbed
  address that each host has at most one rule for it (`Chain`), that a worker that
  runs commands for it is the only one, on the only host that may have a rule
  (`Solo`), and that what it last found is still so when it acts on it (`Sees`). Each
  way to disturb an address is thus shown to be the only kind there is.

**Correlation, everywhere: `Correlation_proofs`** (no hypotheses). `TypeOK` is not
inductive, nor is `BlockIsConfirmed`: an incident id travels through messages, the
cache and the locals of handlers, and is used after others wrote to its row.
`CorrelationInv` says that everyone who speaks of a case (a message, a cache entry,
a handler at each step) names one that exists, with the tenant, technique and
address it has; that a row or a message that calls an address malicious is right
(`RowsConfirmed`, `OutboxNames`); and that the incident of a scan is not spoken of
before it is announced (`Unannounced`). From it: `CorrelationInvariant`,
`BlocksAreConfirmed`, and `ReportsTellScans`. The last needs that neither
`check_package` nor the scanner of sites loses what a source said: lemmas on
`Scanners` about deduplication, for answers of any length. They show its one
exception too, an advisory with no identifier at all, which the code drops and the
property leaves out.

**Correlation, what is detected: `Correlation_detection`.** The first theorem is of
any number of replicas without faults; the others of one replica, with crashes,
failing awaits and expiry at any moment.

- `BurstsAreSeen`: a handler that counts to five is on the way to an incident until
  it has one (`OnTheWay`). A crash between the count and the insert loses it, hence
  `~Faults`.
- `JumpsAreAlarmed` (an action property), from `JumpInv`: what a handler is about to
  write back is what it loaded (`Loaded`), so a fold loses no sign-in, and a travel
  check that found a jump moves the baseline only with its incident stored
  (`Travels`).
- `BruteForcesAreReal`, from `CountInv`: each posted event is met once, as one
  message or in one handler; hence a window counts no more failures than were posted
  and are no longer on their way, and whoever claims a brute force has five behind
  it. Cardinalities of sets of any size, by the library's facts on finite sets.
- `CampaignsAreOneCase: Spec => ImplementsCampaign`, the refinement of Campaign:
  opening the first incident of a campaign opens its case, a fold gathers evidence,
  and `SendClassified` answers. That nothing is opened twice is `CaseInv`: a handler
  about to insert has seen that there is no such incident, and nobody else inserts.
  That nothing is answered twice is `SpokenInv`: at any moment a case is spoken of by
  one message or one handler, and by none once it was answered.

**`Background_proofs`.** `BackgroundInv` has for each process (`OnSchedule`) that while
it sleeps, an incident not covered yet is no older than the part of the day slept, or
was too old before; that in a round it is too old, in the report being written, or of a
tenant still to come; and that a connector found silent is silent still or was heard
since (`AlarmsDue`). `BackgroundInvariant`, then `SleepHidesNothing` and `AlarmsAreTrue`
(action properties) and `NoTenantTwiceADay`, for any length of a day, and any number
of processes, tenants and requests. `SleepHidesNothing` is about steps of time with
the loop asleep: an incident that turns too old while the loop writes another
tenant's report is missed without any failure, and the theorem does not deny it.

**`LiveConsole_proofs`.** `TypeCorrect` (the type invariant needs that what a list
shows and what is still to be committed never exceed the commits there may be,
`Counted`), `OneStreamOnly`, and `NothingForgotten: Spec => []ConsoleInv`: what the
page has heard of is shown, or its failure is, or a request or response that will
show it is out (`Remembered`), because a load begun after a message arrived is
answered with no less than the message was about (`Told`). With fairness that is
`PushIsShown`, which TLC checks. For any number of companies, losses, sign-ins and
selections.

**`Triage_proofs`.** The monotonicity theorems by cases on the score bands (of the
tier for a given action: the recommended one may change as evidence mounts, and from
`disable_account`, tier 3, to `force_password_reset`, tier 2),
`OnlyNotifyIsAutomatic`, `CriticalNeedsMore`; and, over an invariant that ties the
concluded flag to the answers, `OnlyReputationConvicts` and `ConvictionStands`, for
any configured feeds.

**`Access_proofs`.** `OvershootBounded` is inductive as it stands, because it counts
the attempts under way and not only the failures: passing a check below the limit
leaves headroom for every request there is, and recording a failure takes one attempt
out of those under way. `OvershootIsBounded` needs only that there are finitely many
request slots. `RetiredTokensAreDead` strengthens to `TokensInv` (every token in use was generated,
serves one connector and is not retired), which holds because a rotation's token is
newer than all others, and to `RotatesAdded` (a rotation under way is of a connector
that has a token).

**Only model-checked.** Of the safety invariants, action properties and refinements
the passing runs check, all but `BruteForceHasItsShare` have their theorem. The liveness properties have none, since fairness
and `ENABLED` are outside the prover's reach: `ApprovedIsSettled`,
`ProposalIsRouted`, `OpenedIsClassified`, `LockoutEnds`, `Reconnects`, `PushIsShown`,
`SilenceIsReported`, `ReportsKeepComing`.

## Where the code and its documents disagree

With a run that shows it:

- `KillSwitchRace`: the switch is read once, then the executor is awaited
  (`agents/response.py:95` and `:106`), which probes and inserts in two subprocesses:
  a rule goes in after the switch was engaged, where README.md:63-66 has it stop all
  execution immediately. `SwitchBoundsEffects` is what does hold.
- `LivePromise`: an approval's row is committed after `actions.proposed` is published
  (`agents/response.py:49-70`) and nothing is published after it: a page that reloads
  on the message can miss the approval until something else happens, where
  README.md:42-47 has everything show up the instant it is published.
- `ScanSeverity`: a scan's incident is classified on an empty context and its
  severity overwritten with LOW.

Seen while modelling, with no run of their own. Dropping the exception that makes
the corresponding property pass shows the first five:

- Two requests that decide one approval at once both read it pending
  (`routers/approvals.py:67-74`): the later commit overwrites a decision already
  published, against `backend/tests/test_api_integration.py:309`, and an action may be
  executed and then stand as rejected. `DecisionIsFinal` and `RejectedNeverRuns`
  except just these proposals.
- Two executions of one approval both find no rule (`connectors/executor.py:101`):
  two rules stack up, a roll back removes one and reports success, where
  README.md:74-75 says that it really removes the block. So does a roll back whose
  probe fails, or one that another host's replica serves, where there is no rule
  (README.md:218-224 has the rule on the host the backend runs on).
- A crash between the iptables insert and the commit (`agents/response.py:106`) leaves
  a block no roll back will touch, and one between the commit and its publish
  (`:111-113`) an execution with no ledger row, against models.py:186-187.
- With two replicas every failed login is stored, normalized and counted four times,
  so two of them reach the threshold of five (`BruteForceHasItsShare` is exact);
  `agents/detection.py:25-29` calls the count correct across replicas.
- `ImplementsCampaign` and `JumpIsAlarmed` fail with two replicas: look-up and
  insert of an incident have no constraint behind them (`agents/detection.py:217`),
  every replica answers, and the baseline is whichever handler ends last.
- A dependency scan that no source answered is stored as resolved, with "No known
  vulnerabilities found" (`agents/exposure.py:82` and `:90`), which
  `connectors/vuln_scanner.py:14-17` rules out; `sources_unreachable` in the
  enrichment is the only trace.
- OSV's findings carry no `cve_id`, so an advisory GitHub files under its CVE is
  kept twice (`connectors/vuln_scanner.py:131`); of two with one key the first is
  kept, also when the second is more severe, and any word but the four known ones
  ("moderate") ranks as low (`agents/exposure.py:106`).
- Any Wazuh description that contains "failed" is a failed login
  (`connectors/log_formats.py:48`), whatever its groups say.
- Travel is measured between the moments events are processed
  (`agents/detection.py:159`), not between those at which they occurred.
- A daily report looks back exactly one day but comes a day and the writing time
  after the one before: `OnlyWritingHides` names the incidents that fall between.
  The loop sleeps first and starts over with the process, so one restarted daily
  reports nothing; one tenant's failing report skips the tenants after it
  (`agents/runner.py:73-83`); with N replicas every report is written N times.
- "Pending approval" in a report counts every action not executed, rejected and
  stopped ones included (`agents/reporting.py:52`).
- A connector never heard from is in no alert (`agents/guardian.py:72`).
- The language model is called synchronously (`llm.py:44`): the whole event loop,
  API included, waits for it.
- `settings.global_autonomy_enabled` is described in `config.py:70-72` as checked
  before any execution and is read nowhere.
- A stream whose reconnect found no token has given up for good
  (`frontend/src/lib/liveEvents.js:28`): the effect depends on the company alone
  (`:60`), so when the same security holder signs in again without a reload nothing
  reopens it, where README.md:47-50 has it reconnect automatically.
- Nothing is reloaded when a socket reopens, or subscribes after being accepted, so
  what was pushed meanwhile is not shown; and of two responses that overtake each
  other the older stays on the page.
- No code closes an incident, so a campaign folds into its first incident for
  ever and is never answered a second time, however severe it gets.
- `connectors/threat_feed.py:19-22` speaks of a RIOT listing clearing suspicion;
  `_aggregate` lets any suspicious verdict outweigh a clean one.

## What is not modelled

- The speed between two countries (`geo.py:62-84`), in floating point: which pairs
  are too far apart is a constant of Correlation. The scanners' and feeds' network
  requests: their answers are inputs.
- The read routes: they change nothing the other components read.
- Language-model summaries, the wording of reports and mails, and whether a mail
  went out: nothing depends on it, and the code that sends never raises.
- Hashing, JWT encoding, schema validation, security headers, migrations,
  deployment files, and the console's rendering.
- The order of ledger rows, and members and scores of Redis windows (counts with
  expiry at any time stand for them).
- Validation of addresses in the executor: only well-formed ones reach it here.

## Plan

Done, in order: Policy and Triage; HumanGate and ActionGate with their
refinement; Correlation; ThreatFeed; Access; LiveConsole; theorems of Triage,
ActionGate and Access; LogFormats and Scanners inside Correlation; Campaign and
its refinement; Background; theorems of LiveConsole, Background and Correlation, of
the refinement of Campaign, and of the gate under overlap and faults on any number
of hosts.

Next, by importance:

1. That `aggregate` (ThreatFeed) is monotone in its answers: one more malicious
   verdict never lowers a conclusion.
2. `BruteForceHasItsShare` for any number of replicas as a theorem, along `CountInv`.
3. Facts about the parsers of LogFormats: which vendors can produce which event type.
