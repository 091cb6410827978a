---------------------------- MODULE Correlation -----------------------------
(* From a raw event or a scan request to a classified incident: the agents   *)
(* backend/app/agents/integration.py, detection.py, exposure.py,             *)
(* threat_intel.py and orchestrator.py on the bus of bus.py, with the shared *)
(* Redis state of state_store.py.                                            *)
(*                                                                           *)
(* As in ActionGate, every backend replica runs one listen loop that handles *)
(* one message at a time, cut into steps at the awaits other replicas can    *)
(* see; pub/sub gives every message to every replica.  What the loop knows   *)
(* is in job, what the process remembers in cache, and both die with it.     *)
(* publish's ledger row, written before the message, is left to ActionGate.  *)
EXTENDS Policy, LogFormats, Scanners, Sequences, FiniteSets

CONSTANTS
  RawEvents,       \* events the connectors will post
  RawOf,           \* RawOf[e]: tenant, connector_type, claimed event_type and payload of e
  Scans,           \* scan requests the users will make, of a domain or of Packages
  Packages,
  SiteAnswers, SearchAnswers, OsvAnswers, GithubAnswers,   \* what may answer a scan
  Tenants, Addresses, Users, Countries,
  CountryOf,       \* CountryOf[a]: where ipinfo.io says a is
  FarApart,        \* country pairs no one can travel between in the time there was
  Malicious,       \* addresses some configured feed calls malicious
  Replicas,
  Expiry,          \* may failed logins leave the sliding window?
  Faults,          \* may processes crash, awaits raise and feeds be down?
  NoMessage

\* technique_key of an incident; scans have none.
Keys == {"bruteforce_login", "impossible_travel", "privilege_escalation", "malware_signature"}

Families == {"T1110", "T1078", "T1068", "T1059"}

\* Identifiers of advisories.
Ids == STRING \union {NoId}

Sources == Tenants \X (Addresses \union {NoIp})
Accounts == Tenants \X Users

\* IntegrationAgent.normalize: what the connector's parser makes of an event.
normalize(raw) == normalize_for_connector_type(raw.connector_type, raw.event_type, raw.data)

EventOf == [e \in RawEvents |->
  LET n == normalize(RawOf[e])
  IN  [tenant |-> RawOf[e].tenant, type |-> n.type, ip |-> n.ip, user |-> n.user,
       country |-> n.country, vendor |-> n.vendor]]

ASSUME CorrelationAssumption ==
  /\ EventOf \in [RawEvents -> [tenant : Tenants, type : EventTypes,
                                ip : Addresses \union {NoIp},
                                user : Users \union {NoUser}, country : Countries \union {NoCountry},
                                vendor : SUBSET Families]]
  /\ CountryOf \in [Addresses -> Countries \union {NoCountry}]
  /\ NoIp \notin Addresses /\ NoUser \notin Users /\ NoCountry \notin Countries
  /\ FarApart \subseteq Countries \X Countries /\ Malicious \subseteq Addresses
  /\ \A c \in Countries : <<c, c>> \notin FarApart     \* geo.py:76
  /\ Expiry \in BOOLEAN /\ Faults \in BOOLEAN

\* What the answer of each source of a scan looks like.
OsvAdvisories == [id : Ids, cvss : Seq(Nat), word : Words]
GithubAdvisories == [id : Ids, cve : Ids, word : Words]

ASSUME ScanAssumption ==
  /\ Tenants # {}
  /\ SiteAnswers \subseteq {NoAnswer} \union SUBSET STRING
  /\ SearchAnswers \subseteq {NoAnswer} \union BOOLEAN
  /\ OsvAnswers \subseteq {NoAnswer} \union Seq(OsvAdvisories)
  /\ GithubAnswers \subseteq {NoAnswer} \union Seq(GithubAdvisories)
  /\ NoAnswer \notin BOOLEAN

VARIABLES
  unsent,      \* raw events and scans not yet published
  up, inbox,   \* running replicas, and what each received and has not handled
  stored,      \* log_events: <<event, replica that stored it>>
  failures,    \* Redis failed_logins:*: members of each sliding window
  lastSeen,    \* Redis last_login_location:*
  incidents,   \* the incidents table, in order of insertion
  indicators,  \* addresses that have a threat_indicators row
  cache,       \* cache[r]: _active_incidents of replica r
  outbox,      \* incidents.classified messages published
  job          \* job[r]: where replica r's loop is in a handler, and its locals

tables == <<stored, incidents, indicators>>
shared == <<failures, lastSeen>>
vars == <<unsent, up, inbox, stored, failures, lastSeen, incidents, indicators, cache, outbox, job>>

-----------------------------------------------------------------------------
\* Data.

MITRE_MAP == [bruteforce_login |-> {"T1110"}, impossible_travel |-> {"T1078"},
              privilege_escalation |-> {"T1068"}, malware_signature |-> {"T1059"}, none |-> {}]

EventIds == RawEvents \X Replicas

EventMessages == [chan : {"events.normalized"}, id : EventIds]

\* enrichment["context"], as far as severity and action depend on it.
Contexts == [key : Keys \union {"none"}, ip : Addresses \union {NoIp},
             failures : Nat, malicious : BOOLEAN]

NoContext == [key |-> "none", ip |-> NoIp, failures |-> 0, malicious |-> FALSE]

Context(key, ip, count) == [NoContext EXCEPT !.key = key, !.ip = ip, !.failures = count]

\* enrichment of a scan's incident and what the sources had answered: in the job
\* only, as no agent reads it from the row.
NoReport == [kind |-> "none"]

Reports == {NoReport}
  \union [kind : {"domain"}, site : SiteAnswers, search : SearchAnswers,
          checks : SUBSET Checks]
  \union [kind : {"packages"}, osv : [Packages -> OsvAnswers], github : [Packages -> GithubAnswers],
          results : [Packages -> [vulnerabilities : SUBSET [id : Ids, cve : Ids, severity : Words],
                                  sources_unreachable : SUBSET Databases]]]

\* A row of incidents.  No code changes a status once it is stored.
Rows == [tenant : Tenants, ctx : Contexts, techniques : SUBSET Families, events : SUBSET EventIds,
         severity : Severities, status : {"open", "resolved"}]

ScanChannels == {"exposure.scan_requested", "exposure.dependency_scan_requested"}

Channels == ScanChannels \union {"events.raw", "events.normalized", "incidents.new", "incidents.enriched"}

Messages == [chan : {"events.raw"}, event : RawEvents]
              \union [chan : ScanChannels, scan : Scans]
              \union EventMessages
              \union [chan : {"incidents.new", "incidents.enriched"}, inc : Nat, ctx : Contexts]

StepNames == {"idle", "send_normalized", "lookup", "commit", "remember", "announce", "travel",
           "set_last", "indicator", "put_indicator", "load", "enrich", "send_enriched",
           "send_classified"}

Jobs == [at : StepNames, msg : Messages \union {NoMessage}, ctx : Contexts, inc : Nat,
         seen : SUBSET EventIds, after : {"idle", "travel", "set_last"},
         country : Countries \union {NoCountry}, report : Reports]

Idle == [at |-> "idle", msg |-> NoMessage, ctx |-> NoContext, inc |-> 0, seen |-> {},
         after |-> "idle", country |-> NoCountry, report |-> NoReport]

\* The event of the message that replica r is handling.
EventIn(msg) == EventOf[msg.id[1]]
Ev(r) == EventIn(job[r].msg)

TypeOK ==
  /\ unsent \subseteq RawEvents \union Scans
  /\ up \subseteq Replicas
  /\ inbox \in [Replicas -> Seq(Messages)]
  /\ stored \subseteq EventIds
  /\ failures \in [Sources -> Nat]
  /\ lastSeen \in [Accounts -> Countries \union {NoCountry}]
  /\ incidents \in Seq(Rows)
  /\ indicators \subseteq Addresses
  /\ cache \in [Replicas -> [Tenants \X Keys \X (Addresses \union {NoIp}) -> Nat]]
  /\ outbox \in Seq([inc : Nat, severity : Severities, action : KnownActions])
  /\ job \in [Replicas -> Jobs]

EmptyCache == [k \in Tenants \X Keys \X (Addresses \union {NoIp}) |-> 0]

Init ==
  /\ unsent = RawEvents \union Scans
  /\ up = Replicas
  /\ inbox = [r \in Replicas |-> <<>>]
  /\ stored = {}
  /\ failures = [s \in Sources |-> 0]
  /\ lastSeen = [a \in Accounts |-> NoCountry]
  /\ incidents = <<>>
  /\ indicators = {}
  /\ cache = [r \in Replicas |-> EmptyCache]
  /\ outbox = <<>>
  /\ job = [r \in Replicas |-> Idle]

-----------------------------------------------------------------------------
\* Helpers of the steps.

At(r, point) == job[r].at = point
Goto(r, point) == job' = [job EXCEPT ![r].at = point]
Finish(r) == job' = [job EXCEPT ![r] = Idle]

\* redis.publish: every running replica gets the message, once.
Broadcast(m) ==
  inbox' = [r \in Replicas |-> IF r \in up THEN Append(inbox[r], m) ELSE inbox[r]]

\* _listen_loop takes the next message, one of the given channels.
Take(r, channels) ==
  /\ At(r, "idle") /\ r \in up
  /\ inbox[r] # <<>> /\ Head(inbox[r]).chan \in channels
  /\ inbox' = [inbox EXCEPT ![r] = Tail(@)]

\* The handler of message m starts, at a point and with a context.
Begin(r, m, point, ctx, after) ==
  job' = [job EXCEPT ![r] = [Idle EXCEPT !.at = point, !.msg = m, !.ctx = ctx, !.after = after]]

-----------------------------------------------------------------------------
\* ingest_event, request_exposure_scan and request_dependency_scan publish.
PostEvent(e) ==
  /\ e \in unsent /\ up # {}
  /\ unsent' = unsent \ {e}
  /\ Broadcast([chan |-> "events.raw", event |-> e])
  /\ UNCHANGED <<up, tables, shared, cache, outbox, job>>

PostScan(s) ==
  /\ s \in unsent /\ up # {}
  /\ unsent' = unsent \ {s}
  /\ \E chan \in ScanChannels : Broadcast([chan |-> chan, scan |-> s])
  /\ UNCHANGED <<up, tables, shared, cache, outbox, job>>

\* IntegrationAgent.on_raw_event: commit the log_events row, then publish it.
StoreEvent(r) ==
  /\ Take(r, {"events.raw"})
  /\ LET id == <<Head(inbox[r]).event, r>>
     IN  /\ stored' = stored \union {id}
         /\ Begin(r, [chan |-> "events.normalized", id |-> id], "send_normalized", NoContext, "idle")
  /\ UNCHANGED <<unsent, up, shared, incidents, indicators, cache, outbox>>

SendNormalized(r) ==
  /\ At(r, "send_normalized")
  /\ Broadcast(job[r].msg)
  /\ Finish(r)
  /\ UNCHANGED <<unsent, up, tables, shared, cache, outbox>>

-----------------------------------------------------------------------------
\* DetectionAgent.on_normalized_event, by the type of the event.

FAILED_LOGIN_THRESHOLD == 5

\* Mutants: off by one, either way.
ReachedEarly(n) == n >= FAILED_LOGIN_THRESHOLD - 1
ReachedLate(n) == n > FAILED_LOGIN_THRESHOLD

Reached(n) == n >= FAILED_LOGIN_THRESHOLD

SourceOf(ev) == <<ev.tenant, ev.ip>>

\* record_and_count: one pipeline trims the window, adds a member and counts.
CountFailure(r) ==
  /\ Take(r, {"events.normalized"})
  /\ LET m == Head(inbox[r])
         ev == EventIn(m)
         count == failures[SourceOf(ev)] + 1
     IN  /\ ev.type = "login_failed" /\ ev.ip # NoIp
         /\ failures' = [failures EXCEPT ![SourceOf(ev)] = count]
         /\ IF Reached(count)
            THEN Begin(r, m, "lookup", Context("bruteforce_login", ev.ip, count), "idle")
            ELSE UNCHANGED job
  /\ UNCHANGED <<unsent, up, tables, lastSeen, cache, outbox>>

\* count_without_recording, then the travel check of an event with a user.
CheckSuccess(r) ==
  /\ Take(r, {"events.normalized"})
  /\ LET m == Head(inbox[r])
         ev == EventIn(m)
         count == failures[SourceOf(ev)]
         next == IF ev.user = NoUser THEN "idle" ELSE "travel"
     IN  /\ ev.type = "login_success"
         /\ IF ev.ip # NoIp /\ Reached(count)
            THEN Begin(r, m, "lookup", Context("bruteforce_login", ev.ip, count), next)
            ELSE IF next = "travel" THEN Begin(r, m, "travel", NoContext, "idle")
                 ELSE UNCHANGED job
  /\ UNCHANGED <<unsent, up, tables, shared, cache, outbox>>

\* Privilege escalation and malware open an incident at once.
AlarmKey == [privilege_escalation |-> "privilege_escalation", malware_detected |-> "malware_signature"]

SoundAlarm(r) ==
  /\ Take(r, {"events.normalized"})
  /\ LET m == Head(inbox[r])
         ev == EventIn(m)
     IN  /\ ev.type \in DOMAIN AlarmKey
         /\ Begin(r, m, "lookup", Context(AlarmKey[ev.type], ev.ip, 0), "idle")
  /\ UNCHANGED <<unsent, up, tables, shared, cache, outbox>>

IgnoreEvent(r) ==
  /\ Take(r, {"events.normalized"})
  /\ LET ev == EventIn(Head(inbox[r]))
     IN  \/ ev.type = "other"
         \/ ev.type = "login_failed" /\ ev.ip = NoIp
  /\ UNCHANGED <<unsent, up, tables, shared, cache, outbox, job>>

\* _resolve_country: the vendor's, or where the address is, if ipinfo.io answers.
lookup_country(ip) == {CountryOf[ip]} \union (IF Faults THEN {NoCountry} ELSE {})

Located(ev) ==
  IF ev.country # NoCountry THEN {ev.country}
  ELSE IF ev.ip = NoIp THEN {NoCountry} ELSE lookup_country(ev.ip)

\* _check_impossible_travel reads the last location and may open an incident;
\* an event whose country is unknown ends the handler and changes nothing.
AccountOf(ev) == <<ev.tenant, ev.user>>

\* Mutant: compared with the baseline of an account nobody has.
NeverImpossible(account, country) == FALSE

Impossible(account, country) == <<lastSeen[account], country>> \in FarApart

CheckTravel(r) ==
  /\ At(r, "travel")
  /\ \E country \in Located(Ev(r)) :
       IF country = NoCountry THEN Finish(r)
       ELSE IF Impossible(AccountOf(Ev(r)), country)
       THEN job' = [job EXCEPT ![r] =
                     [Idle EXCEPT !.at = "lookup", !.msg = job[r].msg, !.after = "set_last",
                                  !.ctx = Context("impossible_travel", Ev(r).ip, 0),
                                  !.country = country]]
       ELSE job' = [job EXCEPT ![r].at = "set_last", ![r].country = country]
  /\ UNCHANGED <<unsent, up, inbox, tables, shared, cache, outbox>>

\* ... and whatever it found, this sign-in is the next baseline.
SetLast(r) ==
  /\ At(r, "set_last")
  /\ lastSeen' = [lastSeen EXCEPT ![AccountOf(Ev(r))] = job[r].country]
  /\ Finish(r)
  /\ UNCHANGED <<unsent, up, inbox, tables, failures, cache, outbox>>

-----------------------------------------------------------------------------
\* _open_incident: look an incident up, then fold into it or insert one.

DedupKey(r) == <<Ev(r).tenant, job[r].ctx.key, job[r].ctx.ip>>

\* Mutants: no look at the database on a cache miss; any address will do.
CacheOnly(tenant, ctx) == {}
AnyAddress(tenant, ctx) ==
  {i \in DOMAIN incidents : /\ incidents[i].tenant = tenant /\ incidents[i].status = "open"
                            /\ incidents[i].ctx.key = ctx.key}

\* Rows of the same tenant, technique and address; none without an address.
Candidates(tenant, ctx) ==
  {i \in DOMAIN incidents : /\ incidents[i].tenant = tenant /\ incidents[i].status = "open"
                            /\ incidents[i].ctx.key = ctx.key
                            /\ incidents[i].ctx.ip = ctx.ip
                            /\ ctx.ip # NoIp}

\* The related events as loaded are what the fold extends.
LookUp(r) ==
  /\ At(r, "lookup")
  /\ LET known == cache[r][DedupKey(r)]
         found == IF known # 0 THEN {known} ELSE Candidates(Ev(r).tenant, job[r].ctx)
     IN  IF found = {} THEN Goto(r, "commit")
         ELSE \E i \in found : job' = [job EXCEPT ![r].at = "commit", ![r].inc = i,
                                                  ![r].seen = incidents[i].events]
  /\ UNCHANGED <<unsent, up, inbox, tables, shared, cache, outbox>>

\* The handler goes on after _open_incident returns.
Continue(r) ==
  IF job[r].after = "idle" THEN Finish(r)
  ELSE job' = [job EXCEPT ![r] = [Idle EXCEPT !.at = job[r].after, !.msg = job[r].msg,
                                              !.country = job[r].country]]

\* Only the assigned columns are updated: the context is replaced, and
\* related_event_ids written back whole, from the list as loaded.
Fold(r) ==
  /\ At(r, "commit") /\ job[r].inc # 0
  /\ LET row == incidents[job[r].inc]
     IN  incidents' = [incidents EXCEPT ![job[r].inc] =
           [row EXCEPT !.ctx = job[r].ctx,
                       !.events = job[r].seen \union {job[r].msg.id},
                       !.techniques = IF Ev(r).vendor = {} THEN row.techniques ELSE Ev(r).vendor]]
  /\ Continue(r)
  /\ UNCHANGED <<unsent, up, inbox, stored, indicators, shared, cache, outbox>>

Open(r) ==
  /\ At(r, "commit") /\ job[r].inc = 0
  /\ LET ctx == job[r].ctx
     IN  incidents' = Append(incidents,
           [tenant |-> Ev(r).tenant, ctx |-> ctx, events |-> {job[r].msg.id}, severity |-> "low",
            status |-> "open",
            techniques |-> IF Ev(r).vendor = {} THEN MITRE_MAP[ctx.key] ELSE Ev(r).vendor])
  /\ job' = [job EXCEPT ![r].at = "remember", ![r].inc = Len(incidents')]
  /\ UNCHANGED <<unsent, up, inbox, stored, indicators, shared, cache, outbox>>

Remember(r) ==
  /\ At(r, "remember")
  /\ cache' = [cache EXCEPT ![r][DedupKey(r)] = job[r].inc]
  /\ Goto(r, "announce")
  /\ UNCHANGED <<unsent, up, inbox, tables, shared, outbox>>

\* publish(CH_INCIDENTS_NEW), of Detection and of Exposure.
Announce(r) ==
  /\ At(r, "announce")
  /\ Broadcast([chan |-> "incidents.new", inc |-> job[r].inc, ctx |-> job[r].ctx])
  /\ Continue(r)
  /\ UNCHANGED <<unsent, up, tables, shared, cache, outbox>>

\* ExposureAgent: the report of a scan is an incident of its own, announced with
\* an empty context, and resolved from the start if the scan found nothing.  Each
\* handler is one step up to its commit, before which it leaves nothing: a crash or
\* an await that raises in the middle of the scan is Crash before it, or Drop.  The
\* tenant of a scan decides nothing below; any one stands for it.
FileReport(r, status, severity, report) ==
  /\ incidents' = Append(incidents,
       [tenant |-> CHOOSE t \in Tenants : TRUE, ctx |-> NoContext, techniques |-> {}, events |-> {},
        severity |-> severity, status |-> status])
  /\ job' = [job EXCEPT ![r] = [Idle EXCEPT !.at = "announce", !.inc = Len(incidents'),
                                            !.report = report]]
  /\ UNCHANGED <<unsent, up, stored, indicators, shared, cache, outbox>>

ReportDomain(r) ==
  /\ Take(r, {"exposure.scan_requested"})
  /\ \E site \in SiteAnswers, search \in SearchAnswers :
       LET checks == scan_domain(site) \union search_public_exposure(search)
           clean == Warnings(checks) = {}
       IN  FileReport(r, IF clean THEN "resolved" ELSE "open", IF clean THEN "low" ELSE "medium",
                      [kind |-> "domain", site |-> site, search |-> search, checks |-> checks])

ReportPackages(r) ==
  /\ Take(r, {"exposure.dependency_scan_requested"})
  /\ \E osv \in [Packages -> OsvAnswers], github \in [Packages -> GithubAnswers] :
       LET results == [p \in Packages |-> check_package(osv[p], github[p])]
           found == UNION {results[p].vulnerabilities : p \in Packages}
       IN  FileReport(r, IF found = {} THEN "resolved" ELSE "open", _worst_severity(found),
                      [kind |-> "packages", osv |-> osv, github |-> github, results |-> results])

-----------------------------------------------------------------------------
\* ThreatIntelAgent.on_new_incident.

\* lookup_ip: malicious if a feed says so; a feed that fails says nothing.
Verdicts(ip) == IF ip \notin Malicious THEN {FALSE} ELSE IF Faults THEN BOOLEAN ELSE {TRUE}

\* Mutants: any address that was looked up counts as malicious; a known
\* indicator is inserted again.
MergedTrusting(ctx, malicious) == [ctx EXCEPT !.malicious = ctx.ip # NoIp]
NeverKnown(ip) == FALSE

\* The context of the row as loaded, with the verdict.
Merged(ctx, malicious) == [ctx EXCEPT !.malicious = malicious]

LookUpAddress(r) ==
  /\ Take(r, {"incidents.new"})
  /\ LET m == Head(inbox[r])
     IN  \E malicious \in Verdicts(m.ctx.ip) :
           job' = [job EXCEPT ![r] =
                     [Idle EXCEPT !.at = IF m.ctx.ip = NoIp THEN "load" ELSE "indicator",
                                  !.inc = m.inc, !.ctx = Merged(m.ctx, malicious)]]
  /\ UNCHANGED <<unsent, up, tables, shared, cache, outbox>>

\* _cache_indicator: select the row, insert it if there was none.  The unique
\* constraint fails the insert of the loser of a race, and with it the handler.
KnownIndicator(ip) == ip \in indicators

CheckIndicator(r) ==
  /\ At(r, "indicator")
  /\ Goto(r, IF KnownIndicator(job[r].ctx.ip) THEN "load" ELSE "put_indicator")
  /\ UNCHANGED <<unsent, up, inbox, tables, shared, cache, outbox>>

PutIndicator(r) ==
  /\ At(r, "put_indicator")
  /\ IF job[r].ctx.ip \in indicators
     THEN Finish(r) /\ UNCHANGED indicators
     ELSE Goto(r, "load") /\ indicators' = indicators \union {job[r].ctx.ip}
  /\ UNCHANGED <<unsent, up, inbox, stored, incidents, shared, cache, outbox>>

LoadIncident(r) ==
  /\ At(r, "load")
  /\ job' = [job EXCEPT ![r].at = "enrich",
                        ![r].ctx = Merged(incidents[job[r].inc].ctx, job[r].ctx.malicious)]
  /\ UNCHANGED <<unsent, up, inbox, tables, shared, cache, outbox>>

Enrich(r) ==
  /\ At(r, "enrich")
  /\ incidents' = [incidents EXCEPT ![job[r].inc].ctx = job[r].ctx]
  /\ Goto(r, "send_enriched")
  /\ UNCHANGED <<unsent, up, inbox, stored, indicators, shared, cache, outbox>>

SendEnriched(r) ==
  /\ At(r, "send_enriched")
  /\ Broadcast([chan |-> "incidents.enriched", inc |-> job[r].inc, ctx |-> job[r].ctx])
  /\ Finish(r)
  /\ UNCHANGED <<unsent, up, tables, shared, cache, outbox>>

-----------------------------------------------------------------------------
\* OrchestratorAgent.on_enriched_incident.

\* The boolean signals of a context.
FlagOfKey == [bruteforce_login |-> "none", impossible_travel |-> "impossible_travel",
              privilege_escalation |-> "new_admin_activity",
              malware_signature |-> "malware_detected", none |-> "none"]

FlagsOf(ctx) == ({FlagOfKey[ctx.key]} \intersect Flags)
                  \union (IF ctx.malicious THEN {"malicious_indicator"} ELSE {})

SeverityOf(ctx) == severity_from_signals(ctx.failures, FlagsOf(ctx))

Classify(r) ==
  /\ Take(r, {"incidents.enriched"})
  /\ LET m == Head(inbox[r])
     IN  /\ incidents' = [incidents EXCEPT ![m.inc].severity = SeverityOf(m.ctx)]
         /\ job' = [job EXCEPT ![r] = [Idle EXCEPT !.at = "send_classified", !.inc = m.inc,
                                                   !.ctx = m.ctx]]
  /\ UNCHANGED <<unsent, up, stored, indicators, shared, cache, outbox>>

SendClassified(r) ==
  /\ At(r, "send_classified")
  /\ LET i == job[r].inc
     IN  outbox' = Append(outbox,
           [inc |-> i, severity |-> SeverityOf(job[r].ctx),
            action |-> recommend_action(incidents[i].techniques, FlagsOf(job[r].ctx))])
  /\ Finish(r)
  /\ UNCHANGED <<unsent, up, inbox, tables, shared, cache>>

-----------------------------------------------------------------------------
\* Ten minutes after it, a failed login leaves the window.
Expire(s) ==
  /\ Expiry /\ failures[s] > 0
  /\ failures' = [failures EXCEPT ![s] = @ - 1]
  /\ UNCHANGED <<unsent, up, inbox, tables, lastSeen, cache, outbox, job>>

\* A baseline is kept for a day.
Forget(a) ==
  /\ Expiry /\ lastSeen[a] # NoCountry
  /\ lastSeen' = [lastSeen EXCEPT ![a] = NoCountry]
  /\ UNCHANGED <<unsent, up, inbox, tables, failures, cache, outbox, job>>

\* An await raises: the loop logs it and goes on to the next message.  Drop is a
\* handler that raises before it has changed anything, as a scan may half-way.
Drop(r) ==
  /\ Faults /\ Take(r, Channels)
  /\ UNCHANGED <<unsent, up, tables, shared, cache, outbox, job>>

Raise(r) ==
  /\ Faults /\ ~At(r, "idle")
  /\ Finish(r)
  /\ UNCHANGED <<unsent, up, inbox, tables, shared, cache, outbox>>

Crash(r) ==
  /\ Faults /\ r \in up
  /\ up' = up \ {r}
  /\ inbox' = [inbox EXCEPT ![r] = <<>>]
  /\ cache' = [cache EXCEPT ![r] = EmptyCache]
  /\ Finish(r)
  /\ UNCHANGED <<unsent, tables, shared, outbox>>

Restart(r) ==
  /\ r \in Replicas \ up
  /\ up' = up \union {r}
  /\ UNCHANGED <<unsent, inbox, tables, shared, cache, outbox, job>>

-----------------------------------------------------------------------------
\* The five agents, as the one loop of a replica runs their handlers.
IntegrationStep(r) == StoreEvent(r) \/ SendNormalized(r)

DetectionStep(r) ==
  \/ CountFailure(r) \/ CheckSuccess(r) \/ SoundAlarm(r) \/ IgnoreEvent(r)
  \/ CheckTravel(r) \/ SetLast(r)
  \/ LookUp(r) \/ Fold(r) \/ Open(r) \/ Remember(r) \/ Announce(r)

ThreatIntelStep(r) ==
  \/ LookUpAddress(r) \/ CheckIndicator(r) \/ PutIndicator(r)
  \/ LoadIncident(r) \/ Enrich(r) \/ SendEnriched(r)

OrchestratorStep(r) == Classify(r) \/ SendClassified(r)

LoopStep(r) == IntegrationStep(r) \/ DetectionStep(r)
                 \/ ReportDomain(r) \/ ReportPackages(r)
                 \/ ThreatIntelStep(r) \/ OrchestratorStep(r)

Next ==
  \/ \E e \in RawEvents : PostEvent(e)
  \/ \E s \in Scans : PostScan(s)
  \/ \E s \in Sources : Expire(s)
  \/ \E a \in Accounts : Forget(a)
  \/ \E r \in Replicas : LoopStep(r) \/ Drop(r) \/ Raise(r) \/ Crash(r) \/ Restart(r)

Spec == Init /\ [][Next]_vars

\* Every loop that has a message or a step to take takes it.
FairSpec == Spec /\ \A r \in Replicas : WF_vars(LoopStep(r))

-----------------------------------------------------------------------------
\* Properties.

\* Failed logins that really came in from one address of a tenant.
PostedFailures(tenant, ip) ==
  {e \in RawEvents \ unsent : /\ EventOf[e].type = "login_failed"
                              /\ EventOf[e].tenant = tenant /\ EventOf[e].ip = ip}

\* A process that runs alone reports a brute force on no fewer failed logins than
\* the threshold says (detection.py:72-74).
BruteForceHasFiveFailures ==
  \A i \in DOMAIN incidents : incidents[i].ctx.key = "bruteforce_login" =>
    Cardinality(PostedFailures(incidents[i].tenant, incidents[i].ctx.ip)) >= 5

\* Replicas share the window, but each of them stores and publishes every event
\* (integration.py:56-83) and each counts every event published, so a failed login
\* has as many members as pairs of replicas: two replicas report a brute force on
\* two failed logins, and never on one (detection.py:72-74 with state_store.py:30-38).
BruteForceHasItsShare ==
  \A i \in DOMAIN incidents : incidents[i].ctx.key = "bruteforce_login" =>
    Cardinality(Replicas) * Cardinality(Replicas)
      * Cardinality(PostedFailures(incidents[i].tenant, incidents[i].ctx.ip)) >= 5

\* Detection's promise: a campaign is one case from its first evidence on,
\* restarts included, no evidence of it is lost, and it is answered once
\* (detection.py:39-43, 210-216 and 238).
CampaignsOf == Tenants \X Keys \X Addresses

CasesOf(c) == {i \in DOMAIN incidents :
                 <<incidents[i].tenant, incidents[i].ctx.key, incidents[i].ctx.ip>> = c}

Promise == INSTANCE Campaign WITH
  Campaigns <- CampaignsOf, Evidence <- EventIds,
  cases <- [c \in CampaignsOf |-> CasesOf(c)],
  evidence <- [c \in CampaignsOf |-> UNION {incidents[i].events : i \in CasesOf(c)}],
  answers <- [c \in CampaignsOf |-> Cardinality({n \in DOMAIN outbox : outbox[n].inc \in CasesOf(c)})]

ImplementsCampaign == Promise!Spec

\* A user's baseline never jumps between places too far apart before the very
\* sign-in that moves it is evidence of an incident (detection.py:160-191).
Alarmed(id) == \E i \in DOMAIN incidents : /\ incidents[i].ctx.key = "impossible_travel"
                                           /\ id \in incidents[i].events

JumpIsAlarmed ==
  [][\A a \in Accounts : <<lastSeen[a], lastSeen'[a]>> \in FarApart =>
       \E r \in Replicas : /\ At(r, "set_last") /\ AccountOf(Ev(r)) = a
                           /\ Alarmed(job[r].msg.id)]_vars

\* A block is recommended only for an address that a feed calls malicious,
\* whatever is folded, enriched or restarted meanwhile (threat_intel.py:27-40
\* with orchestrator.py:25-28).
BlockIsConfirmed ==
  \A m \in DOMAIN outbox : outbox[m].action = "block_ip" =>
    incidents[outbox[m].inc].ctx.ip \in Malicious

\* Everything a source said of a package that has a name is on the report under
\* one of its names, no finding outranks the incident, every source that did not answer is
\* named, and the incident is resolved only if nothing was found
\* (vuln_scanner.py:120-147; exposure.py:70-111).
SaidOf(answer) == IF answer = NoAnswer THEN {} ELSE {answer[i] : i \in DOMAIN answer}

TellsSources(osv, github, told) ==
  /\ \A a \in SaidOf(osv) : a.id # NoId => \E f \in told.vulnerabilities : f.id = a.id
  /\ \A a \in SaidOf(github) :
       LET names == {a.id, a.cve} \ {NoId}
       IN  names # {} => \E f \in told.vulnerabilities : {f.id, f.cve} \intersect names # {}
  /\ osv = NoAnswer <=> "osv.dev" \in told.sources_unreachable
  /\ github = NoAnswer <=> "github-advisory-database" \in told.sources_unreachable

TellsPackages(rep, row) ==
  /\ \A p \in Packages :
       /\ TellsSources(rep.osv[p], rep.github[p], rep.results[p])
       /\ \A f \in rep.results[p].vulnerabilities : Rank(f.severity) <= SeverityRank[row.severity] + 1
  /\ row.status = "resolved" <=> \A p \in Packages : rep.results[p].vulnerabilities = {}

\* ... and a domain is resolved only if it answered with every header and the
\* search found nothing (exposure_scanner.py:48-125; exposure.py:37-49).
TellsDomain(rep, row) ==
  row.status = "resolved" =>
    rep.site # NoAnswer /\ SECURITY_HEADERS \subseteq rep.site /\ rep.search # TRUE

Tells(rep, row) == /\ rep.kind = "packages" => TellsPackages(rep, row)
                   /\ rep.kind = "domain" => TellsDomain(rep, row)

ReportTellsScan ==
  \A r \in Replicas : job[r].report # NoReport => Tells(job[r].report, incidents[job[r].inc])

\* Why both hold.  A case keeps its tenant, technique and address whatever is
\* written to it, so who speaks of it, from memory, in a message or on the way to
\* the database, speaks of the same; and only a feed makes an address malicious.
Names(inc, ctx) ==
  /\ inc \in DOMAIN incidents
  /\ incidents[inc].ctx.key = ctx.key /\ incidents[inc].ctx.ip = ctx.ip
  /\ ctx.malicious => ctx.ip \in Malicious

Refers(m) == m.chan \in {"incidents.new", "incidents.enriched"}

MessagesName ==
  \A r \in Replicas : \A n \in DOMAIN inbox[r] :
    Refers(inbox[r][n]) => Names(inbox[r][n].inc, inbox[r][n].ctx)

CacheNames ==
  \A r \in Replicas : \A k \in DOMAIN cache[r] : cache[r][k] # 0 =>
    /\ cache[r][k] \in DOMAIN incidents
    /\ LET row == incidents[cache[r][k]] IN k = <<row.tenant, row.ctx.key, row.ctx.ip>>

\* A handler that detects, and one that writes to a row or announces it.
Detects(r) == /\ job[r].msg \in EventMessages
              /\ job[r].ctx.key \in Keys /\ ~job[r].ctx.malicious

OwnCase(r) == /\ Names(job[r].inc, job[r].ctx)
              /\ incidents[job[r].inc].tenant = Ev(r).tenant

JobNames(r) ==
  /\ job[r].inc \in {0} \union DOMAIN incidents
  /\ job[r].at \in {"send_normalized", "travel", "set_last"} \/ job[r].after # "idle" =>
       job[r].msg \in EventMessages
  /\ At(r, "lookup") => Detects(r) /\ job[r].inc = 0
  /\ At(r, "commit") => Detects(r) /\ (job[r].inc # 0 => OwnCase(r))
  /\ At(r, "remember") => Detects(r) /\ OwnCase(r)
  /\ job[r].at \in {"announce", "indicator", "put_indicator", "load", "enrich",
                    "send_enriched", "send_classified"} => Names(job[r].inc, job[r].ctx)
  /\ job[r].at \in {"indicator", "put_indicator"} => job[r].ctx.ip # NoIp

RowsConfirmed ==
  \A i \in DOMAIN incidents : incidents[i].ctx.malicious => incidents[i].ctx.ip \in Malicious

OutboxNames == \A m \in DOMAIN outbox : outbox[m].inc \in DOMAIN incidents

\* Until a scan is announced, its handler alone knows of its incident.
Unannounced(r) ==
  job[r].report # NoReport =>
    /\ At(r, "announce") /\ job[r].ctx = NoContext
    /\ \A q \in Replicas \ {r} : job[q].inc # job[r].inc
    /\ \A q \in Replicas : \A n \in DOMAIN inbox[q] :
         Refers(inbox[q][n]) => inbox[q][n].inc # job[r].inc

\* The inductive invariant behind the theorems of Correlation_proofs.
CorrelationInv ==
  /\ TypeOK /\ MessagesName /\ CacheNames /\ RowsConfirmed
  /\ OutboxNames /\ BlockIsConfirmed /\ ReportTellsScan
  /\ \A r \in Replicas : JobNames(r) /\ Unannounced(r)

\* The severity of a scan's worst finding is what its incident keeps
\* (exposure.py:83-92; tests/test_api_integration.py:507).
ScanSeverityIsKept ==
  [][\A i \in DOMAIN incidents : incidents[i].ctx.key = "none" =>
       incidents'[i].severity = incidents[i].severity]_vars

\* Every incident that is opened is classified (incidents and answers are finitely
\* many and none is taken back, so all of them are in the end), whatever replica
\* loses the race for the indicator's row (threat_intel.py:49-61).
Classified(i) == \E m \in DOMAIN outbox : outbox[m].inc = i

OpenedIsClassified == []<>(\A i \in DOMAIN incidents : Classified(i))

\* With nothing lost, a window that holds five failures has an incident for its
\* address, or a handler is about to open one (detection.py:72-87).
BurstIsSeen ==
  \A s \in Sources : failures[s] >= 5 =>
    \/ \E i \in DOMAIN incidents : /\ incidents[i].ctx.key = "bruteforce_login"
                                   /\ <<incidents[i].tenant, incidents[i].ctx.ip>> = s
    \/ \E r \in Replicas : /\ job[r].at \in {"lookup", "commit"}
                           /\ SourceOf(Ev(r)) = s /\ job[r].ctx.key = "bruteforce_login"

=============================================================================
