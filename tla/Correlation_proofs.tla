-------------------------- MODULE Correlation_proofs --------------------------
(* Proofs about Correlation, for any number of events, scans, replicas, tenants *)
(* and addresses, with or without crashes and failures: the inductive invariant *)
(* CorrelationInv and the safety properties it implies.                         *)
EXTENDS Correlation, SequenceTheorems, WellFoundedInduction, TLAPS

-----------------------------------------------------------------------------
\* Data.

EventRecord == [tenant : Tenants, type : EventTypes, ip : Addresses \union {NoIp},
                user : Users \union {NoUser}, country : Countries \union {NoCountry},
                vendor : SUBSET Families]

\* The messages, and what each kind carries.
LEMMA MessageTypes ==
  /\ \A e \in RawEvents : [chan |-> "events.raw", event |-> e] \in Messages
  /\ \A s \in Scans, chan \in ScanChannels : [chan |-> chan, scan |-> s] \in Messages
  /\ \A id \in EventIds : [chan |-> "events.normalized", id |-> id] \in EventMessages
  /\ EventMessages \subseteq Messages
  /\ \A i \in Nat, c \in Contexts : /\ [chan |-> "incidents.new", inc |-> i, ctx |-> c] \in Messages
                                    /\ [chan |-> "incidents.enriched", inc |-> i, ctx |-> c] \in Messages
BY DEF Messages, EventMessages

LEMMA MessageFields ==
  ASSUME NEW m \in Messages
  PROVE  /\ m.chan = "events.raw" => m.event \in RawEvents
         /\ m.chan = "events.normalized" => m \in EventMessages
         /\ Refers(m) => m.inc \in Nat /\ m.ctx \in Contexts
BY DEF Messages, EventMessages, Refers, ScanChannels

\* The event a message is of.
LEMMA EventFields ==
  ASSUME NEW m \in EventMessages
  PROVE  /\ m.id \in EventIds
         /\ EventIn(m) \in EventRecord
         /\ SourceOf(EventIn(m)) \in Sources
         /\ EventIn(m).user # NoUser => AccountOf(EventIn(m)) \in Accounts
<1>1. m.id \in EventIds /\ m.id[1] \in RawEvents BY DEF EventMessages, EventIds
<1>2. EventIn(m) \in EventRecord BY <1>1, CorrelationAssumption DEF EventIn, EventRecord
<1>3. QED BY <1>1, <1>2 DEF EventRecord, SourceOf, AccountOf, Sources, Accounts

\* The context of what Detection found.
LEMMA ContextOf ==
  ASSUME NEW key \in Keys, NEW ip \in Addresses \union {NoIp}, NEW n \in Nat
  PROVE  /\ Context(key, ip, n) \in Contexts
         /\ Context(key, ip, n).key = key /\ Context(key, ip, n).ip = ip
         /\ ~Context(key, ip, n).malicious
BY DEF Contexts, NoContext, Context

\* What is known of a case, and what enrichment adds.
LEMMA ContextTypes ==
  /\ NoContext \in Contexts
  /\ \A c \in Contexts, b \in BOOLEAN :
       /\ Merged(c, b) \in Contexts
       /\ Merged(c, b).key = c.key /\ Merged(c, b).ip = c.ip /\ Merged(c, b).malicious = b
  /\ \A c \in Contexts : /\ c.key \in Keys \union {"none"} /\ c.ip \in Addresses \union {NoIp}
                         /\ c.failures \in Nat /\ c.malicious \in BOOLEAN
BY DEF Contexts, NoContext, Merged

\* Only an address some feed calls malicious is found malicious.
LEMMA VerdictIsFed ==
  ASSUME NEW ip, NEW b \in Verdicts(ip)
  PROVE  b \in BOOLEAN /\ (b => ip \in Malicious)
BY DEF Verdicts

\* What triage says is a severity and an action, and a block has a malicious address.
LEMMA TriageTypes ==
  ASSUME NEW ctx \in Contexts, NEW T
  PROVE  /\ SeverityOf(ctx) \in Severities
         /\ recommend_action(T, FlagsOf(ctx)) \in KnownActions
         /\ recommend_action(T, FlagsOf(ctx)) = "block_ip" => ctx.malicious
<1>1. SeverityOf(ctx) \in Severities
  BY DEF SeverityOf, severity_from_signals, Band, Severities
<1>2. recommend_action(T, FlagsOf(ctx)) \in KnownActions
  BY DEF recommend_action, BruteForceAction, KnownActions, TIER1_ACTIONS, TIER2_ACTIONS, TIER3_ACTIONS
<1>3. "malicious_indicator" \in FlagsOf(ctx) => ctx.malicious
  <2>1. FlagOfKey[ctx.key] # "malicious_indicator" BY DEF FlagOfKey, Contexts, Keys
  <2>2. QED BY <2>1 DEF FlagsOf
<1>4. recommend_action(T, FlagsOf(ctx)) = "block_ip" => "malicious_indicator" \in FlagsOf(ctx)
  BY DEF recommend_action, BruteForceAction
<1>5. QED BY <1>1, <1>2, <1>3, <1>4

\* The local state of a loop.
LEMMA JobFields ==
  /\ Idle \in Jobs
  /\ \A j \in Jobs : /\ j.at \in StepNames /\ j.msg \in Messages \union {NoMessage}
                     /\ j.ctx \in Contexts /\ j.inc \in Nat /\ j.seen \in SUBSET EventIds
                     /\ j.after \in {"idle", "travel", "set_last"}
                     /\ j.country \in Countries \union {NoCountry} /\ j.report \in Reports
BY ContextTypes DEF Idle, Jobs, StepNames, Reports

LEMMA JobTypes ==
  ASSUME NEW j \in Jobs, NEW at \in StepNames, NEW m \in Messages \union {NoMessage},
         NEW c \in Contexts, NEW i \in Nat, NEW seen \in SUBSET EventIds,
         NEW after \in {"idle", "travel", "set_last"}, NEW country \in Countries \union {NoCountry},
         NEW report \in Reports
  PROVE  /\ [j EXCEPT !.at = at] \in Jobs
         /\ [j EXCEPT !.at = at, !.inc = i] \in Jobs
         /\ [j EXCEPT !.at = at, !.ctx = c] \in Jobs
         /\ [j EXCEPT !.at = at, !.country = country] \in Jobs
         /\ [j EXCEPT !.at = at, !.inc = i, !.seen = seen] \in Jobs
         /\ [j EXCEPT !.at = at, !.inc = i, !.ctx = c] \in Jobs
         /\ [j EXCEPT !.at = at, !.inc = i, !.report = report] \in Jobs
         /\ [j EXCEPT !.at = at, !.msg = m, !.country = country] \in Jobs
         /\ [j EXCEPT !.at = at, !.msg = m, !.ctx = c, !.after = after] \in Jobs
         /\ [j EXCEPT !.at = at, !.msg = m, !.after = after, !.ctx = c, !.country = country] \in Jobs
BY DEF Jobs

-----------------------------------------------------------------------------
\* What the scanners conclude.

FindingRecord == [id : Ids, cve : Ids, severity : Words]

\* A non-empty set of naturals has a least member.
LEMMA Least ==
  ASSUME NEW S \in SUBSET Nat, S # {}
  PROVE  \E i \in S : \A j \in S : i <= j
<1> DEFINE R == OpToRel(<, Nat)
<1>1. PICK i \in S : \A j \in S : ~(<<j, i>> \in R) BY NatLessThanWellFounded, WFMin
<1>2. \A j \in S : ~(j < i) BY <1>1 DEF OpToRel
<1>3. QED BY <1>2

\* The findings of a source are one for each of its advisories, in its order.
LEMMA OsvFindings ==
  ASSUME NEW answer \in OsvAnswers
  PROVE  /\ _query_osv(answer) \in Seq(FindingRecord)
         /\ answer # NoAnswer =>
              /\ DOMAIN _query_osv(answer) = DOMAIN answer
              /\ \A i \in DOMAIN answer : /\ _query_osv(answer)[i].id = answer[i].id
                                          /\ _query_osv(answer)[i].cve = NoId
         /\ \A i \in DOMAIN _query_osv(answer) : _query_osv(answer)[i].cve = NoId
<1>1. CASE answer = NoAnswer BY <1>1 DEF _query_osv
<1>2. CASE answer # NoAnswer
  <2>1. answer \in Seq(OsvAdvisories) BY <1>2, ScanAssumption
  <2>a. \A i \in DOMAIN answer : answer[i] \in OsvAdvisories
    BY <2>1, ElementOfSeq
  <2>2. \A i \in DOMAIN answer : _osv_severity(answer[i]) \in Words
    BY <2>a DEF _osv_severity, Words, OsvAdvisories
  <2>3. \A i \in DOMAIN answer : Finding(answer[i].id, NoId, _osv_severity(answer[i])) \in FindingRecord
    BY <2>a, <2>2 DEF Finding, FindingRecord, Ids, OsvAdvisories
  <2>4. _query_osv(answer) = [i \in 1 .. Len(answer) |->
                               Finding(answer[i].id, NoId, _osv_severity(answer[i]))]
    BY <1>2, <2>1 DEF _query_osv
  <2>5. _query_osv(answer) \in Seq(FindingRecord) BY <2>1, <2>3, <2>4, IsASeq
  <2>6. QED BY <1>2, <2>1, <2>4, <2>5 DEF Finding
<1>3. QED BY <1>1, <1>2

LEMMA GithubFindings ==
  ASSUME NEW answer \in GithubAnswers
  PROVE  /\ _query_github_advisories(answer) \in Seq(FindingRecord)
         /\ answer # NoAnswer =>
              /\ DOMAIN _query_github_advisories(answer) = DOMAIN answer
              /\ \A i \in DOMAIN answer :
                   /\ _query_github_advisories(answer)[i].id = answer[i].id
                   /\ _query_github_advisories(answer)[i].cve = answer[i].cve
<1>1. CASE answer = NoAnswer BY <1>1 DEF _query_github_advisories
<1>2. CASE answer # NoAnswer
  <2>1. answer \in Seq(GithubAdvisories) BY <1>2, ScanAssumption
  <2>a. \A i \in DOMAIN answer : answer[i] \in GithubAdvisories
    BY <2>1, ElementOfSeq
  <2>2. \A i \in DOMAIN answer : Finding(answer[i].id, answer[i].cve, answer[i].word) \in FindingRecord
    BY <2>a DEF Finding, FindingRecord, GithubAdvisories
  <2>3. _query_github_advisories(answer) =
          [i \in 1 .. Len(answer) |-> Finding(answer[i].id, answer[i].cve, answer[i].word)]
    BY <1>2, <2>1 DEF _query_github_advisories
  <2>4. _query_github_advisories(answer) \in Seq(FindingRecord) BY <2>1, <2>2, <2>3, IsASeq
  <2>5. QED BY <1>2, <2>1, <2>3, <2>4 DEF Finding
<1>3. QED BY <1>1, <1>2

\* Of every finding with a name, one of the same key is kept, no later than it.
LEMMA KeyIsKept ==
  ASSUME NEW s \in Seq(FindingRecord), NEW k \in DOMAIN s, KeyOf(s[k]) # NoId
  PROVE  \E i \in 1 .. k : s[i] \in Deduped(s) /\ KeyOf(s[i]) = KeyOf(s[k])
<1> DEFINE Same == {i \in 1 .. k : KeyOf(s[i]) = KeyOf(s[k])}
<1>1. k \in Same /\ Same \in SUBSET Nat OBVIOUS
<1>2. PICK i \in Same : \A j \in Same : i <= j BY <1>1, Least
<1>3. \A j \in 1 .. i - 1 : KeyOf(s[j]) # KeyOf(s[i]) BY <1>2
<1>4. i \in DOMAIN s BY <1>2
<1>5. s[i] \in Deduped(s) BY <1>2, <1>3, <1>4 DEF Deduped
<1>6. QED BY <1>2, <1>5

\* Nothing is reported that no source said.
LEMMA KeptIsSaid == ASSUME NEW s PROVE Deduped(s) \subseteq {s[i] : i \in DOMAIN s}
BY DEF Deduped

\* No finding outranks the severity of the incident.
LEMMA WorstSeverity ==
  ASSUME NEW F
  PROVE  /\ _worst_severity(F) \in Severities
         /\ \A f \in F : Rank(f.severity) <= SeverityRank[_worst_severity(F)] + 1
<1>1. \A f \in F : Rank(f.severity) \in 1 .. 4 BY DEF Rank
<1>2. QED BY <1>1 DEF _worst_severity, Severities, SeverityRank

\* What a package's report holds, from either source.
LEMMA PackageTold ==
  ASSUME NEW osv \in OsvAnswers, NEW github \in GithubAnswers
  PROVE  /\ check_package(osv, github) \in [vulnerabilities : SUBSET FindingRecord,
                                            sources_unreachable : SUBSET Databases]
         /\ TellsSources(osv, github, check_package(osv, github))
<1> DEFINE so == _query_osv(osv)
           sg == _query_github_advisories(github)
           s == so \o sg
           told == check_package(osv, github)
<1>1. so \in Seq(FindingRecord) /\ sg \in Seq(FindingRecord) BY OsvFindings, GithubFindings
<1>2. /\ s \in Seq(FindingRecord) /\ Len(s) = Len(so) + Len(sg)
      /\ \A i \in 1 .. Len(so) : s[i] = so[i]
      /\ \A i \in 1 .. Len(sg) : s[i + Len(so)] = sg[i]
  BY <1>1, ConcatProperties
<1>3. told.vulnerabilities = Deduped(s) /\ told.sources_unreachable = Unreachable(osv, github)
  BY DEF check_package
<1>4. told \in [vulnerabilities : SUBSET FindingRecord, sources_unreachable : SUBSET Databases]
  <2> HIDE DEF s
  <2>a. \A i \in DOMAIN s : s[i] \in FindingRecord BY <1>2, ElementOfSeq
  <2>1. Deduped(s) \subseteq FindingRecord BY <2>a, KeptIsSaid
  <2>2. Unreachable(osv, github) \subseteq Databases BY DEF Unreachable, Databases
  <2>3. told = [vulnerabilities |-> Deduped(s), sources_unreachable |-> Unreachable(osv, github)]
    BY DEF check_package, s
  <2>4. QED BY <2>1, <2>2, <2>3
<1>5. ASSUME NEW a \in SaidOf(osv), a.id # NoId PROVE \E f \in told.vulnerabilities : f.id = a.id
  <2>1. PICK k \in DOMAIN osv : osv # NoAnswer /\ a = osv[k] BY <1>5 DEF SaidOf
  <2>2. k \in 1 .. Len(so) /\ so[k].id = a.id /\ so[k].cve = NoId BY <1>1, <2>1, OsvFindings
  <2>3. k \in DOMAIN s /\ KeyOf(s[k]) = a.id BY <1>1, <1>2, <2>2 DEF KeyOf
  <2>4. PICK i \in 1 .. k : s[i] \in Deduped(s) /\ KeyOf(s[i]) = a.id BY <1>2, <1>5, <2>3, KeyIsKept
  <2>5. s[i].cve = NoId BY <1>1, <1>2, <2>2, OsvFindings
  <2>6. QED BY <1>3, <2>4, <2>5 DEF KeyOf
<1>6. ASSUME NEW a \in SaidOf(github), {a.id, a.cve} \ {NoId} # {}
      PROVE  \E f \in told.vulnerabilities : {f.id, f.cve} \intersect ({a.id, a.cve} \ {NoId}) # {}
  <2>1. PICK k \in DOMAIN github : github # NoAnswer /\ a = github[k] BY <1>6 DEF SaidOf
  <2>2. k \in 1 .. Len(sg) /\ sg[k].id = a.id /\ sg[k].cve = a.cve BY <1>1, <2>1, GithubFindings
  <2>3. k + Len(so) \in DOMAIN s /\ s[k + Len(so)] = sg[k] BY <1>1, <1>2, <2>2
  <2>4. KeyOf(sg[k]) # NoId /\ KeyOf(sg[k]) \in {a.id, a.cve} BY <1>6, <2>2 DEF KeyOf
  <2>5. PICK f \in Deduped(s) : KeyOf(f) = KeyOf(sg[k]) BY <1>2, <2>3, <2>4, KeyIsKept
  <2>6. QED BY <1>3, <2>4, <2>5 DEF KeyOf
<1>7. /\ osv = NoAnswer <=> "osv.dev" \in told.sources_unreachable
      /\ github = NoAnswer <=> "github-advisory-database" \in told.sources_unreachable
  BY <1>3 DEF Unreachable
<1>8. TellsSources(osv, github, told) BY <1>5, <1>6, <1>7 DEF TellsSources
<1>9. QED BY <1>4, <1>8

\* A scan of packages tells what the sources said.
LEMMA PackagesTold ==
  ASSUME NEW osv \in [Packages -> OsvAnswers], NEW github \in [Packages -> GithubAnswers],
         NEW row
  PROVE  LET results == [p \in Packages |-> check_package(osv[p], github[p])]
             found == UNION {results[p].vulnerabilities : p \in Packages}
             report == [kind |-> "packages", osv |-> osv, github |-> github, results |-> results]
         IN  /\ report \in Reports
             /\ (/\ row.severity = _worst_severity(found)
                 /\ row.status = IF found = {} THEN "resolved" ELSE "open") => Tells(report, row)
<1> DEFINE results == [p \in Packages |-> check_package(osv[p], github[p])]
           found == UNION {results[p].vulnerabilities : p \in Packages}
           report == [kind |-> "packages", osv |-> osv, github |-> github, results |-> results]
<1>1. \A p \in Packages : osv[p] \in OsvAnswers /\ github[p] \in GithubAnswers OBVIOUS
<1>2. report \in Reports
  <2>1. results \in [Packages -> [vulnerabilities : SUBSET FindingRecord,
                                  sources_unreachable : SUBSET Databases]]
    BY <1>1, PackageTold
  <2>2. QED BY <2>1 DEF Reports, FindingRecord
<1>3. ASSUME row.severity = _worst_severity(found),
             row.status = IF found = {} THEN "resolved" ELSE "open"
      PROVE  Tells(report, row)
  <2>1. \A p \in Packages : results[p] = check_package(osv[p], github[p]) OBVIOUS
  <2>2. \A p \in Packages : \A f \in results[p].vulnerabilities :
          Rank(f.severity) <= SeverityRank[row.severity] + 1
    <3>1. \A p \in Packages : \A f \in results[p].vulnerabilities : f \in found OBVIOUS
    <3>2. QED BY <1>3, <3>1, WorstSeverity
  <2>3. row.status = "resolved" <=> \A p \in Packages : results[p].vulnerabilities = {}
    <3>a. ASSUME NEW p \in Packages, NEW f \in results[p].vulnerabilities PROVE f \in found
      OBVIOUS
    <3>b. ASSUME NEW f \in found PROVE \E p \in Packages : f \in results[p].vulnerabilities
      OBVIOUS
    <3>1. found = {} <=> \A p \in Packages : results[p].vulnerabilities = {} BY <3>a, <3>b
    <3>2. QED BY <1>3, <3>1
  <2>4. TellsPackages(report, row)
    <3>1. \A p \in Packages : TellsSources(osv[p], github[p], results[p]) BY <1>1, <2>1, PackageTold
    <3>2. report.osv = osv /\ report.github = github /\ report.results = results OBVIOUS
    <3> HIDE DEF results, report
    <3>3. QED BY <2>2, <2>3, <3>1, <3>2 DEF TellsPackages
  <2>5. QED BY <2>4 DEF Tells
<1>4. QED BY <1>2, <1>3

\* A scan of a domain is resolved only if nothing was found, all having answered.
LEMMA DomainTold ==
  ASSUME NEW site \in SiteAnswers, NEW search \in SearchAnswers, NEW row
  PROVE  LET checks == scan_domain(site) \union search_public_exposure(search)
             report == [kind |-> "domain", site |-> site, search |-> search, checks |-> checks]
         IN  /\ report \in Reports
             /\ (row.status = IF Warnings(checks) = {} THEN "resolved" ELSE "open")
                  => Tells(report, row)
<1> DEFINE checks == scan_domain(site) \union search_public_exposure(search)
           report == [kind |-> "domain", site |-> site, search |-> search, checks |-> checks]
<1>1. report \in Reports
  <2>1. scan_domain(site) \subseteq Checks
    BY DEF scan_domain, Check, Checks
  <2>2. search_public_exposure(search) \subseteq Checks
    BY DEF search_public_exposure, Check, Checks
  <2>3. QED BY <2>1, <2>2 DEF Reports
<1>2. ASSUME Warnings(checks) = {}
      PROVE  site # NoAnswer /\ SECURITY_HEADERS \subseteq site /\ search # TRUE
  <2>1. site # NoAnswer
    <3>1. site = NoAnswer => Check("connectivity", "warning") \in Warnings(checks)
      BY DEF scan_domain, Check, Warnings
    <3>2. QED BY <1>2, <3>1
  <2>2. \A h \in SECURITY_HEADERS : h \in site
    <3>1. ASSUME NEW h \in SECURITY_HEADERS, h \notin site PROVE FALSE
      <4>1. Check(h, "warning") \in checks BY <2>1, <3>1 DEF scan_domain
      <4>2. Check(h, "warning") \in Warnings(checks) BY <4>1 DEF Check, Warnings
      <4>3. QED BY <1>2, <4>2
    <3>2. QED BY <3>1
  <2>3. search # TRUE
    <3>1. ASSUME search = TRUE PROVE FALSE
      <4>1. search # NoAnswer BY <3>1, ScanAssumption
      <4>2. Check("public-search-exposure", "warning") \in checks
        BY <3>1, <4>1 DEF search_public_exposure
      <4>3. Check("public-search-exposure", "warning") \in Warnings(checks)
        BY <4>2 DEF Check, Warnings
      <4>4. QED BY <1>2, <4>3
    <3>2. QED BY <3>1
  <2>4. QED BY <2>1, <2>2, <2>3
<1>3. (row.status = IF Warnings(checks) = {} THEN "resolved" ELSE "open") => Tells(report, row)
  BY <1>2 DEF Tells, TellsDomain
<1>4. QED BY <1>1, <1>3

-----------------------------------------------------------------------------
\* What a step does to one variable.

USE DEF At, tables, shared

LEMMA Sending ==
  ASSUME TypeOK, NEW m \in Messages, Broadcast(m)
  PROVE  /\ inbox' \in [Replicas -> Seq(Messages)]
         /\ \A q \in Replicas : \A n \in DOMAIN inbox'[q] :
              (n \in DOMAIN inbox[q] /\ inbox'[q][n] = inbox[q][n]) \/ inbox'[q][n] = m
<1>1. \A q \in Replicas : inbox[q] \in Seq(Messages) BY DEF TypeOK
<1>2. \A q \in Replicas : Append(inbox[q], m) \in Seq(Messages) BY <1>1
<1>3. inbox' \in [Replicas -> Seq(Messages)] BY <1>1, <1>2 DEF Broadcast
<1>4. ASSUME NEW q \in Replicas, NEW n \in DOMAIN inbox'[q]
      PROVE  (n \in DOMAIN inbox[q] /\ inbox'[q][n] = inbox[q][n]) \/ inbox'[q][n] = m
  <2>1. CASE q \notin up BY <1>4, <2>1 DEF Broadcast
  <2>2. CASE q \in up
    <3>1. inbox'[q] = Append(inbox[q], m) BY <2>2 DEF Broadcast
    <3>2. QED BY <1>1, <1>4, <3>1
  <2>3. QED BY <2>1, <2>2
<1>5. QED BY <1>3, <1>4

LEMMA Taking ==
  ASSUME TypeOK, NEW r \in Replicas, NEW chans, Take(r, chans)
  PROVE  /\ inbox' \in [Replicas -> Seq(Messages)]
         /\ \A q \in Replicas : \A n \in DOMAIN inbox'[q] :
              \E k \in DOMAIN inbox[q] : inbox'[q][n] = inbox[q][k]
         /\ Head(inbox[r]) \in Messages /\ Head(inbox[r]).chan \in chans
         /\ 1 \in DOMAIN inbox[r] /\ Head(inbox[r]) = inbox[r][1]
         /\ job[r].at = "idle" /\ r \in up
<1>1. inbox[r] \in Seq(Messages) /\ inbox[r] # <<>> BY DEF TypeOK, Take
<1>2. /\ Head(inbox[r]) \in Messages /\ Head(inbox[r]) = inbox[r][1] /\ 1 \in DOMAIN inbox[r]
      /\ Tail(inbox[r]) \in Seq(Messages)
      /\ \A n \in DOMAIN Tail(inbox[r]) : n + 1 \in DOMAIN inbox[r] /\ Tail(inbox[r])[n] = inbox[r][n + 1]
  BY <1>1
<1>3. inbox' = [inbox EXCEPT ![r] = Tail(inbox[r])] BY DEF Take
<1>4. inbox' \in [Replicas -> Seq(Messages)] BY <1>2, <1>3 DEF TypeOK
<1>5. ASSUME NEW q \in Replicas, NEW n \in DOMAIN inbox'[q]
      PROVE  \E k \in DOMAIN inbox[q] : inbox'[q][n] = inbox[q][k]
  <2>1. CASE q # r BY <1>3, <1>5, <2>1 DEF TypeOK
  <2>2. CASE q = r BY <1>2, <1>3, <1>5, <2>2 DEF TypeOK
  <2>3. QED BY <2>1, <2>2
<1>6. QED BY <1>2, <1>4, <1>5 DEF Take

LEMMA Moving ==
  ASSUME TypeOK, NEW r \in Replicas, NEW j \in Jobs, job' = [job EXCEPT ![r] = j]
  PROVE  /\ job' \in [Replicas -> Jobs] /\ job'[r] = j
         /\ \A q \in Replicas \ {r} : job'[q] = job[q]
BY DEF TypeOK

LEMMA Writing ==
  ASSUME TypeOK, NEW i \in DOMAIN incidents, NEW row \in Rows, incidents' = [incidents EXCEPT ![i] = row]
  PROVE  /\ incidents' \in Seq(Rows) /\ DOMAIN incidents' = DOMAIN incidents
         /\ incidents'[i] = row
         /\ \A k \in DOMAIN incidents \ {i} : incidents'[k] = incidents[k]
BY ExceptSeq DEF TypeOK

LEMMA Inserting ==
  ASSUME TypeOK, NEW row \in Rows, incidents' = Append(incidents, row)
  PROVE  /\ incidents' \in Seq(Rows) /\ Len(incidents') \in Nat \ {0}
         /\ Len(incidents') \notin DOMAIN incidents
         /\ DOMAIN incidents' = DOMAIN incidents \union {Len(incidents')}
         /\ incidents'[Len(incidents')] = row
         /\ \A k \in DOMAIN incidents : incidents'[k] = incidents[k]
<1>1. incidents \in Seq(Rows) BY DEF TypeOK
<1>2. QED BY <1>1

\* The rows, and what a step writes to one.
LEMMA RowTypes ==
  /\ \A row \in Rows : /\ row.tenant \in Tenants /\ row.ctx \in Contexts
                       /\ row.techniques \in SUBSET Families /\ row.events \in SUBSET EventIds
                       /\ row.severity \in Severities /\ row.status \in {"open", "resolved"}
  /\ \A row \in Rows, c \in Contexts : [row EXCEPT !.ctx = c] \in Rows
  /\ \A row \in Rows, s \in Severities : [row EXCEPT !.severity = s] \in Rows
  /\ \A row \in Rows, c \in Contexts, E \in SUBSET EventIds, T \in SUBSET Families :
       [row EXCEPT !.ctx = c, !.events = E, !.techniques = T] \in Rows
BY DEF Rows

LEMMA RowOf == ASSUME TypeOK, NEW i \in DOMAIN incidents PROVE incidents[i] \in Rows /\ i \in Nat \ {0}
<1>1. incidents \in Seq(Rows) BY DEF TypeOK
<1>2. QED BY <1>1

LEMMA JobOf ==
  ASSUME TypeOK, NEW r \in Replicas
  PROVE  /\ job[r] \in Jobs
         /\ job[r].at \in StepNames /\ job[r].msg \in Messages \union {NoMessage}
         /\ job[r].ctx \in Contexts /\ job[r].inc \in Nat /\ job[r].seen \in SUBSET EventIds
         /\ job[r].after \in {"idle", "travel", "set_last"}
         /\ job[r].country \in Countries \union {NoCountry} /\ job[r].report \in Reports
<1>1. job[r] \in Jobs BY DEF TypeOK
<1>2. QED BY <1>1, JobFields

-----------------------------------------------------------------------------
\* What each step of a loop does to its row and to the loop.

\* The row a fold writes.
LEMMA FoldEffect ==
  ASSUME CorrelationInv, NEW r \in Replicas, Fold(r)
  PROVE  LET i == job[r].inc IN
         /\ i \in DOMAIN incidents /\ incidents' \in Seq(Rows)
         /\ DOMAIN incidents' = DOMAIN incidents
         /\ \A k \in DOMAIN incidents \ {i} : incidents'[k] = incidents[k]
         /\ incidents'[i].ctx = job[r].ctx /\ incidents'[i].tenant = incidents[i].tenant
         /\ incidents'[i].severity = incidents[i].severity
         /\ incidents'[i].status = incidents[i].status
         /\ incidents'[i].events = job[r].seen \union {job[r].msg.id}
<1> DEFINE i == job[r].inc
           E == job[r].seen \union {job[r].msg.id}
           T == IF Ev(r).vendor = {} THEN incidents[i].techniques ELSE Ev(r).vendor
           row == [incidents[i] EXCEPT !.ctx = job[r].ctx, !.events = E, !.techniques = T]
<1>1. /\ TypeOK /\ JobNames(r) /\ job[r].at = "commit" /\ i # 0
  BY DEF CorrelationInv, Fold
<1>2. Detects(r) /\ OwnCase(r) BY <1>1 DEF JobNames
<1>3. i \in DOMAIN incidents BY <1>2 DEF OwnCase, Names
<1>4. incidents[i] \in Rows BY <1>1, <1>3, RowOf
<1>5. job[r].ctx \in Contexts /\ E \in SUBSET EventIds
  BY <1>1, <1>2, JobOf, EventFields DEF Detects
<1>6. T \in SUBSET Families
  <2>1. Ev(r).vendor \in SUBSET Families BY <1>2, EventFields DEF Detects, Ev, EventRecord
  <2>2. QED BY <1>4, <2>1, RowTypes
<1>7. row \in Rows BY <1>4, <1>5, <1>6, RowTypes
<1>8. incidents' = [incidents EXCEPT ![i] = row] BY DEF Fold
<1>9. /\ row.ctx = job[r].ctx /\ row.tenant = incidents[i].tenant
      /\ row.severity = incidents[i].severity /\ row.status = incidents[i].status
      /\ row.events = job[r].seen \union {job[r].msg.id}
  BY <1>4 DEF Rows
<1> HIDE DEF row
<1>10. QED BY <1>1, <1>3, <1>7, <1>8, <1>9, Writing

\* The row of a new incident.
LEMMA OpenEffect ==
  ASSUME CorrelationInv, NEW r \in Replicas, Open(r)
  PROVE  LET i == Len(incidents') IN
         /\ incidents' \in Seq(Rows) /\ i \in Nat \ {0} /\ i \notin DOMAIN incidents
         /\ DOMAIN incidents' = DOMAIN incidents \union {i}
         /\ \A k \in DOMAIN incidents : incidents'[k] = incidents[k]
         /\ incidents'[i].ctx = job[r].ctx /\ incidents'[i].tenant = Ev(r).tenant
         /\ incidents'[i].events = {job[r].msg.id} /\ incidents'[i].status = "open"
<1> DEFINE T == IF Ev(r).vendor = {} THEN MITRE_MAP[job[r].ctx.key] ELSE Ev(r).vendor
           row == [tenant |-> Ev(r).tenant, ctx |-> job[r].ctx, events |-> {job[r].msg.id},
                   severity |-> "low", status |-> "open", techniques |-> T]
<1>1. TypeOK /\ JobNames(r) /\ job[r].at = "commit" BY DEF CorrelationInv, Open
<1>2. Detects(r) BY <1>1 DEF JobNames
<1>3. /\ Ev(r).vendor \in SUBSET Families /\ Ev(r).tenant \in Tenants
      /\ job[r].msg.id \in EventIds
  BY <1>2, EventFields DEF Detects, Ev, EventRecord
<1>4. MITRE_MAP[job[r].ctx.key] \in SUBSET Families BY <1>2 DEF Detects, Keys, MITRE_MAP, Families
<1>5. row \in Rows BY <1>1, <1>3, <1>4, JobOf DEF Rows, Severities
<1>6. incidents' = Append(incidents, row) BY DEF Open
<1>7. /\ row.ctx = job[r].ctx /\ row.tenant = Ev(r).tenant
      /\ row.events = {job[r].msg.id} /\ row.status = "open"
  OBVIOUS
<1> HIDE DEF row
<1>8. QED BY <1>1, <1>5, <1>6, <1>7, Inserting

-----------------------------------------------------------------------------
\* What a step does to the loop that takes it.

\* A handler that is over knows nothing.
LEMMA Finishing ==
  ASSUME TypeOK, NEW r \in Replicas, Finish(r)
  PROVE  /\ job' \in [Replicas -> Jobs] /\ job'[r] = Idle
         /\ \A q \in Replicas \ {r} : job'[q] = job[q]
         /\ JobNames(r)'
<1>1. /\ job' \in [Replicas -> Jobs] /\ job'[r] = Idle
      /\ \A q \in Replicas \ {r} : job'[q] = job[q]
  BY JobFields, Moving DEF Finish
<1>2. JobNames(r)' BY <1>1 DEF JobNames, Idle
<1>3. QED BY <1>1, <1>2

LEMMA Beginning ==
  ASSUME TypeOK, NEW r \in Replicas, NEW m \in EventMessages, NEW at \in StepNames,
         NEW c \in Contexts, NEW after \in {"idle", "travel", "set_last"}, Begin(r, m, at, c, after)
  PROVE  /\ job' \in [Replicas -> Jobs]
         /\ job'[r].at = at /\ job'[r].msg = m /\ job'[r].ctx = c /\ job'[r].inc = 0
         /\ job'[r].report = NoReport
         /\ \A q \in Replicas \ {r} : job'[q] = job[q]
<1> DEFINE j == [Idle EXCEPT !.at = at, !.msg = m, !.ctx = c, !.after = after]
<1>0. Idle \in Jobs /\ m \in Messages BY JobFields, MessageTypes
<1>1. j \in Jobs BY <1>0 DEF Jobs
<1>2. j.at = at /\ j.msg = m /\ j.ctx = c /\ j.inc = 0 /\ j.report = NoReport BY DEF Idle
<1> HIDE DEF j
<1>3. job' = [job EXCEPT ![r] = j] BY DEF j, Begin
<1>4. QED BY <1>1, <1>2, <1>3, Moving

LEMMA Going ==
  ASSUME TypeOK, NEW r \in Replicas, NEW at \in StepNames, Goto(r, at)
  PROVE  /\ job' \in [Replicas -> Jobs]
         /\ job'[r].at = at /\ job'[r].msg = job[r].msg /\ job'[r].ctx = job[r].ctx
         /\ job'[r].inc = job[r].inc /\ job'[r].after = job[r].after
         /\ job'[r].report = job[r].report
         /\ \A q \in Replicas \ {r} : job'[q] = job[q]
<1> DEFINE j == [job[r] EXCEPT !.at = at]
<1>1. job[r] \in Jobs BY JobOf
<1>2. j \in Jobs BY <1>1 DEF Jobs
<1>3. /\ j.at = at /\ j.msg = job[r].msg /\ j.ctx = job[r].ctx /\ j.inc = job[r].inc
      /\ j.after = job[r].after /\ j.report = job[r].report
  BY <1>1 DEF Jobs
<1> HIDE DEF j
<1>4. job' = [job EXCEPT ![r] = j] BY DEF j, Goto
<1>5. QED BY <1>2, <1>3, <1>4, Moving

\* A handler that goes on after _open_incident has its message, and no case.
LEMMA Continuing ==
  ASSUME TypeOK, NEW r \in Replicas, JobNames(r), Continue(r)
  PROVE  /\ job' \in [Replicas -> Jobs]
         /\ job'[r].at \in {"idle", "travel", "set_last"}
         /\ job'[r].inc = 0 /\ job'[r].report = NoReport
         /\ \A q \in Replicas \ {r} : job'[q] = job[q]
         /\ JobNames(r)'
<1>1. CASE job[r].after = "idle"
  <2>1. Finish(r) BY <1>1 DEF Continue
  <2>2. QED BY <2>1, Finishing DEF Idle
<1>2. CASE job[r].after # "idle"
  <2> DEFINE j == [Idle EXCEPT !.at = job[r].after, !.msg = job[r].msg, !.country = job[r].country]
  <2>1. /\ job[r].after \in {"travel", "set_last"} /\ job[r].msg \in EventMessages
        /\ job[r].country \in Countries \union {NoCountry}
    BY <1>2, JobOf DEF JobNames
  <2>2. job[r].after \in StepNames BY <2>1 DEF StepNames
  <2>0. Idle \in Jobs /\ job[r].msg \in Messages BY <2>1, JobFields, MessageTypes
  <2>3. j \in Jobs BY <2>0, <2>1, <2>2 DEF Jobs
  <2>4. /\ j.at = job[r].after /\ j.msg = job[r].msg /\ j.inc = 0
        /\ j.after = "idle" /\ j.report = NoReport
    BY DEF Idle
  <2>5. job' = [job EXCEPT ![r] = j] BY <1>2 DEF Continue
  <2> HIDE DEF j
  <2>6. /\ job' \in [Replicas -> Jobs] /\ job'[r] = j
        /\ \A q \in Replicas \ {r} : job'[q] = job[q]
    BY <2>3, <2>5, Moving
  <2>7. JobNames(r)' BY <2>1, <2>4, <2>6 DEF JobNames
  <2>8. QED BY <2>1, <2>4, <2>6, <2>7
<1>3. QED BY <1>1, <1>2

-----------------------------------------------------------------------------
\* What every step keeps: the tenant, technique and address of a case.
Kept ==
  /\ DOMAIN incidents \subseteq DOMAIN incidents'
  /\ \A i \in DOMAIN incidents : /\ incidents'[i].tenant = incidents[i].tenant
                                 /\ incidents'[i].ctx.key = incidents[i].ctx.key
                                 /\ incidents'[i].ctx.ip = incidents[i].ctx.ip

\* What a step of r must do, besides keeping the messages and the tables in order.
Effect(r) ==
  /\ TypeOK' /\ Kept
  /\ \A q \in Replicas \ {r} : job'[q] = job[q]
  /\ JobNames(r)'

\* A step that writes no incident keeps them all.
LEMMA KeptUnchanged == ASSUME UNCHANGED incidents PROVE Kept
BY DEF Kept

LEMMA NamesStay ==
  ASSUME Kept, NEW i, NEW c, Names(i, c)
  PROVE  /\ i \in DOMAIN incidents'
         /\ incidents'[i].ctx.key = c.key /\ incidents'[i].ctx.ip = c.ip
         /\ incidents'[i].tenant = incidents[i].tenant
         /\ c.malicious => c.ip \in Malicious
BY DEF Kept, Names

\* The message r takes from its inbox.
LEMMA Taken ==
  ASSUME CorrelationInv, NEW r \in Replicas, NEW chans, Take(r, chans)
  PROVE  LET m == Head(inbox[r]) IN
         /\ m \in Messages /\ m.chan \in chans
         /\ Refers(m) => Names(m.inc, m.ctx) /\ m.inc \in Nat /\ m.ctx \in Contexts
         /\ "events.normalized" = m.chan => m \in EventMessages
BY Taking, MessageFields DEF CorrelationInv, MessagesName

LEMMA StoreEffect == ASSUME CorrelationInv, NEW r \in Replicas, StoreEvent(r) PROVE Effect(r)
<1> DEFINE id == <<Head(inbox[r]).event, r>>
           m == [chan |-> "events.normalized", id |-> id]
<1>1. TypeOK /\ Take(r, {"events.raw"}) BY DEF CorrelationInv, StoreEvent
<1>2. id \in EventIds BY <1>1, Taking, MessageFields DEF EventIds
<1>3. m \in EventMessages BY <1>2, MessageTypes
<1>4. "send_normalized" \in StepNames /\ NoContext \in Contexts BY ContextTypes DEF StepNames
<1>5. Begin(r, m, "send_normalized", NoContext, "idle") BY DEF StoreEvent
<1> HIDE DEF m
<1>6. /\ job' \in [Replicas -> Jobs]
      /\ job'[r].at = "send_normalized" /\ job'[r].msg = m /\ job'[r].inc = 0
      /\ \A q \in Replicas \ {r} : job'[q] = job[q]
  BY <1>1, <1>3, <1>4, <1>5, Beginning
<1>7. JobNames(r)' BY <1>3, <1>6 DEF JobNames
<1>8. stored' \subseteq EventIds BY <1>1, <1>2 DEF StoreEvent, TypeOK
<1>9. inbox' \in [Replicas -> Seq(Messages)] BY <1>1, Taking
<1>10. TypeOK' BY <1>1, <1>6, <1>8, <1>9 DEF StoreEvent, TypeOK
<1>11. QED BY <1>6, <1>7, <1>10, KeptUnchanged DEF StoreEvent, Effect

\* A step that publishes and ends the handler.
LEMMA SendNormalizedEffect ==
  ASSUME CorrelationInv, NEW r \in Replicas, SendNormalized(r) PROVE Effect(r)
<1>1. TypeOK /\ JobNames(r) /\ job[r].at = "send_normalized" BY DEF CorrelationInv, SendNormalized
<1>2. job[r].msg \in Messages BY <1>1, MessageTypes DEF JobNames
<1>3. inbox' \in [Replicas -> Seq(Messages)] BY <1>1, <1>2, Sending DEF SendNormalized
<1>4. Finish(r) BY DEF SendNormalized
<1>5. /\ job' \in [Replicas -> Jobs] /\ JobNames(r)'
      /\ \A q \in Replicas \ {r} : job'[q] = job[q]
  BY <1>1, <1>4, Finishing
<1>6. TypeOK' BY <1>1, <1>3, <1>5 DEF SendNormalized, TypeOK
<1>7. QED BY <1>5, <1>6, KeptUnchanged DEF SendNormalized, Effect

\* Detection starts to look for a case, or goes on to the travel check.
LEMMA Detecting ==
  ASSUME TypeOK, NEW r \in Replicas, NEW m \in EventMessages, NEW key \in Keys, NEW n \in Nat,
         NEW after \in {"idle", "travel", "set_last"},
         Begin(r, m, "lookup", Context(key, EventIn(m).ip, n), after)
  PROVE  /\ job' \in [Replicas -> Jobs] /\ JobNames(r)'
         /\ \A q \in Replicas \ {r} : job'[q] = job[q]
<1> DEFINE c == Context(key, EventIn(m).ip, n)
<1>1. c \in Contexts /\ c.key \in Keys /\ ~c.malicious
  <2>1. EventIn(m).ip \in Addresses \union {NoIp} BY EventFields DEF EventRecord
  <2>2. QED BY <2>1, ContextOf
<1>2. "lookup" \in StepNames BY DEF StepNames
<1> HIDE DEF c
<1>3. /\ job' \in [Replicas -> Jobs]
      /\ job'[r].at = "lookup" /\ job'[r].msg = m /\ job'[r].ctx = c /\ job'[r].inc = 0
      /\ \A q \in Replicas \ {r} : job'[q] = job[q]
  BY <1>1, <1>2, Beginning DEF c
<1>4. JobNames(r)' BY <1>1, <1>3 DEF JobNames, Detects
<1>5. QED BY <1>3, <1>4

\* A step that leaves the loop of r where it is.
LEMMA Staying ==
  ASSUME TypeOK, NEW r \in Replicas, JobNames(r), UNCHANGED <<job, incidents>>
  PROVE  /\ job' \in [Replicas -> Jobs] /\ JobNames(r)'
         /\ \A q \in Replicas \ {r} : job'[q] = job[q]
BY DEF TypeOK, JobNames, Detects, OwnCase, Names, Ev

LEMMA CountEffect == ASSUME CorrelationInv, NEW r \in Replicas, CountFailure(r) PROVE Effect(r)
<1> DEFINE m == Head(inbox[r])
           ev == EventIn(m)
           count == failures[SourceOf(ev)] + 1
<1>1. TypeOK /\ JobNames(r) /\ Take(r, {"events.normalized"}) BY DEF CorrelationInv, CountFailure
<1>2. m \in EventMessages BY <1>1, Taken
<1>3. count \in Nat BY <1>1, <1>2, EventFields DEF TypeOK
<1>4. failures' \in [Sources -> Nat] BY <1>1, <1>3 DEF CountFailure, TypeOK
<1>5. \/ Begin(r, m, "lookup", Context("bruteforce_login", ev.ip, count), "idle")
      \/ UNCHANGED <<job, incidents>>
  BY DEF CountFailure
<1>6. "bruteforce_login" \in Keys BY DEF Keys
<1> HIDE DEF m, count
<1>7. /\ job' \in [Replicas -> Jobs] /\ JobNames(r)'
      /\ \A q \in Replicas \ {r} : job'[q] = job[q]
  <2>1. CASE Begin(r, m, "lookup", Context("bruteforce_login", ev.ip, count), "idle")
    BY <1>1, <1>2, <1>3, <1>6, <2>1, Detecting
  <2>2. CASE UNCHANGED <<job, incidents>> BY <1>1, <2>2, Staying
  <2>3. QED BY <1>5, <2>1, <2>2
<1>8. inbox' \in [Replicas -> Seq(Messages)] BY <1>1, Taking
<1>9. TypeOK' BY <1>1, <1>4, <1>7, <1>8 DEF CountFailure, TypeOK
<1>10. QED BY <1>7, <1>9, KeptUnchanged DEF CountFailure, Effect

LEMMA CheckSuccessEffect == ASSUME CorrelationInv, NEW r \in Replicas, CheckSuccess(r) PROVE Effect(r)
<1> DEFINE m == Head(inbox[r])
           ev == EventIn(m)
           count == failures[SourceOf(ev)]
           next == IF ev.user = NoUser THEN "idle" ELSE "travel"
<1>1. TypeOK /\ JobNames(r) /\ Take(r, {"events.normalized"}) BY DEF CorrelationInv, CheckSuccess
<1>2. m \in EventMessages BY <1>1, Taken
<1>3. count \in Nat BY <1>1, <1>2, EventFields DEF TypeOK
<1>4. \/ Begin(r, m, "lookup", Context("bruteforce_login", ev.ip, count), next)
      \/ Begin(r, m, "travel", NoContext, "idle")
      \/ UNCHANGED <<job, incidents>>
  BY DEF CheckSuccess
<1>5. "bruteforce_login" \in Keys /\ next \in {"idle", "travel", "set_last"} BY DEF Keys
<1> HIDE DEF m, count, next
<1>6. /\ job' \in [Replicas -> Jobs] /\ JobNames(r)'
      /\ \A q \in Replicas \ {r} : job'[q] = job[q]
  <2>1. CASE Begin(r, m, "lookup", Context("bruteforce_login", ev.ip, count), next)
    BY <1>1, <1>2, <1>3, <1>5, <2>1, Detecting
  <2>2. CASE Begin(r, m, "travel", NoContext, "idle")
    <3>1. "travel" \in StepNames /\ NoContext \in Contexts BY ContextTypes DEF StepNames
    <3>2. /\ job' \in [Replicas -> Jobs]
          /\ job'[r].at = "travel" /\ job'[r].msg = m /\ job'[r].inc = 0
          /\ \A q \in Replicas \ {r} : job'[q] = job[q]
      BY <1>1, <1>2, <2>2, <3>1, Beginning
    <3>3. JobNames(r)' BY <1>2, <3>2 DEF JobNames
    <3>4. QED BY <3>2, <3>3
  <2>3. CASE UNCHANGED <<job, incidents>> BY <1>1, <2>3, Staying
  <2>4. QED BY <1>4, <2>1, <2>2, <2>3
<1>7. inbox' \in [Replicas -> Seq(Messages)] BY <1>1, Taking
<1>8. TypeOK' BY <1>1, <1>6, <1>7 DEF CheckSuccess, TypeOK
<1>9. QED BY <1>6, <1>8, KeptUnchanged DEF CheckSuccess, Effect

LEMMA AlarmEffect == ASSUME CorrelationInv, NEW r \in Replicas, SoundAlarm(r) PROVE Effect(r)
<1> DEFINE m == Head(inbox[r])
           ev == EventIn(m)
<1>1. TypeOK /\ Take(r, {"events.normalized"}) /\ ev.type \in DOMAIN AlarmKey
  BY DEF CorrelationInv, SoundAlarm
<1>2. m \in EventMessages BY <1>1, Taken
<1>3. AlarmKey[ev.type] \in Keys BY <1>1 DEF AlarmKey, Keys
<1>4. Begin(r, m, "lookup", Context(AlarmKey[ev.type], ev.ip, 0), "idle") BY DEF SoundAlarm
<1> HIDE DEF m
<1>5. /\ job' \in [Replicas -> Jobs] /\ JobNames(r)'
      /\ \A q \in Replicas \ {r} : job'[q] = job[q]
  BY <1>1, <1>2, <1>3, <1>4, Detecting
<1>6. inbox' \in [Replicas -> Seq(Messages)] BY <1>1, Taking
<1>7. TypeOK' BY <1>1, <1>5, <1>6 DEF SoundAlarm, TypeOK
<1>8. QED BY <1>5, <1>7, KeptUnchanged DEF SoundAlarm, Effect

LEMMA IgnoreEffect == ASSUME CorrelationInv, NEW r \in Replicas, IgnoreEvent(r) PROVE Effect(r)
<1>1. TypeOK /\ JobNames(r) /\ Take(r, {"events.normalized"}) BY DEF CorrelationInv, IgnoreEvent
<1>2. UNCHANGED <<job, incidents>> BY DEF IgnoreEvent
<1>3. /\ job' \in [Replicas -> Jobs] /\ JobNames(r)'
      /\ \A q \in Replicas \ {r} : job'[q] = job[q]
  BY <1>1, <1>2, Staying
<1>4. inbox' \in [Replicas -> Seq(Messages)] BY <1>1, Taking
<1>5. TypeOK' BY <1>1, <1>3, <1>4 DEF IgnoreEvent, TypeOK
<1>6. QED BY <1>3, <1>5, KeptUnchanged DEF IgnoreEvent, Effect

\* Where an event was is a country or unknown.
LEMMA LocatedTypes ==
  ASSUME NEW m \in EventMessages
  PROVE  /\ Located(EventIn(m)) \subseteq Countries \union {NoCountry}
         /\ EventIn(m).ip \in Addresses \union {NoIp}
<1>1. EventIn(m) \in EventRecord BY EventFields
<1>2. QED BY <1>1, CorrelationAssumption DEF EventRecord, Located, lookup_country

LEMMA TravelEffect == ASSUME CorrelationInv, NEW r \in Replicas, CheckTravel(r) PROVE Effect(r)
<1>1. TypeOK /\ JobNames(r) /\ job[r].at = "travel" BY DEF CorrelationInv, CheckTravel
<1>2. job[r].msg \in EventMessages BY <1>1 DEF JobNames
<1>3. PICK country \in Located(Ev(r)) :
        IF country = NoCountry THEN Finish(r)
        ELSE IF Impossible(AccountOf(Ev(r)), country)
        THEN job' = [job EXCEPT ![r] =
                      [Idle EXCEPT !.at = "lookup", !.msg = job[r].msg, !.after = "set_last",
                                   !.ctx = Context("impossible_travel", Ev(r).ip, 0),
                                   !.country = country]]
        ELSE job' = [job EXCEPT ![r].at = "set_last", ![r].country = country]
  BY DEF CheckTravel
<1>4. country \in Countries \union {NoCountry} /\ Ev(r).ip \in Addresses \union {NoIp}
  BY <1>2, <1>3, LocatedTypes DEF Ev
<1>5. /\ job' \in [Replicas -> Jobs] /\ JobNames(r)'
      /\ \A q \in Replicas \ {r} : job'[q] = job[q]
  <2>1. CASE Finish(r) BY <1>1, <2>1, Finishing
  <2>2. CASE job' = [job EXCEPT ![r] =
                      [Idle EXCEPT !.at = "lookup", !.msg = job[r].msg, !.after = "set_last",
                                   !.ctx = Context("impossible_travel", Ev(r).ip, 0),
                                   !.country = country]]
    <3> DEFINE c == Context("impossible_travel", Ev(r).ip, 0)
               j == [Idle EXCEPT !.at = "lookup", !.msg = job[r].msg, !.after = "set_last",
                                 !.ctx = c, !.country = country]
    <3>1. "impossible_travel" \in Keys BY DEF Keys
    <3>2. c \in Contexts /\ c.key \in Keys /\ ~c.malicious BY <1>4, <3>1, ContextOf
    <3>3. job' = [job EXCEPT ![r] = j] BY <2>2
    <3> HIDE DEF c
    <3>4. j.at = "lookup" /\ j.msg = job[r].msg /\ j.ctx = c /\ j.inc = 0 BY DEF Idle
    <3>5. "lookup" \in StepNames /\ Idle \in Jobs /\ job[r].msg \in Messages
      BY <1>2, JobFields, MessageTypes DEF StepNames
    <3>6. j \in Jobs BY <1>4, <3>2, <3>5 DEF Jobs
    <3> HIDE DEF j
    <3>7. job' \in [Replicas -> Jobs] /\ job'[r] = j /\ \A q \in Replicas \ {r} : job'[q] = job[q]
      BY <1>1, <3>3, <3>6, Moving
    <3>8. JobNames(r)' BY <1>2, <3>2, <3>4, <3>7 DEF JobNames, Detects
    <3>9. QED BY <3>7, <3>8
  <2>3. CASE job' = [job EXCEPT ![r].at = "set_last", ![r].country = country]
    <3> DEFINE j == [job[r] EXCEPT !.at = "set_last", !.country = country]
    <3>1. job[r] \in Jobs /\ "set_last" \in StepNames BY <1>1, JobOf DEF StepNames
    <3>2. j \in Jobs BY <1>4, <3>1 DEF Jobs
    <3>3. j.at = "set_last" /\ j.msg = job[r].msg /\ j.inc = job[r].inc BY <3>1 DEF Jobs
    <3>4. job' = [job EXCEPT ![r] = j] BY <2>3, <3>1 DEF TypeOK
    <3> HIDE DEF j
    <3>5. job' \in [Replicas -> Jobs] /\ job'[r] = j /\ \A q \in Replicas \ {r} : job'[q] = job[q]
      BY <1>1, <3>2, <3>4, Moving
    <3>6. incidents' = incidents BY DEF CheckTravel
    <3>7. JobNames(r)' BY <1>1, <1>2, <3>3, <3>5, <3>6 DEF JobNames
    <3>8. QED BY <3>5, <3>7
  <2>4. QED BY <1>3, <2>1, <2>2, <2>3
<1>6. TypeOK' BY <1>1, <1>5 DEF CheckTravel, TypeOK
<1>7. QED BY <1>5, <1>6, KeptUnchanged DEF CheckTravel, Effect

LEMMA SetLastEffect == ASSUME CorrelationInv, NEW r \in Replicas, SetLast(r) PROVE Effect(r)
<1>1. TypeOK /\ JobNames(r) /\ Finish(r) BY DEF CorrelationInv, SetLast
<1>2. /\ job' \in [Replicas -> Jobs] /\ JobNames(r)'
      /\ \A q \in Replicas \ {r} : job'[q] = job[q]
  BY <1>1, Finishing
<1>3. lastSeen' \in [Accounts -> Countries \union {NoCountry}]
  <2>1. job[r].country \in Countries \union {NoCountry} BY <1>1, JobOf
  <2>2. QED BY <1>1, <2>1 DEF SetLast, TypeOK
<1>4. TypeOK' BY <1>1, <1>2, <1>3 DEF SetLast, TypeOK
<1>5. QED BY <1>2, <1>4, KeptUnchanged DEF SetLast, Effect

\* Who finds a case finds one of its own tenant, technique and address.
LEMMA LookUpEffect == ASSUME CorrelationInv, NEW r \in Replicas, LookUp(r) PROVE Effect(r)
<1> DEFINE known == cache[r][DedupKey(r)]
           found == IF known # 0 THEN {known} ELSE Candidates(Ev(r).tenant, job[r].ctx)
<1>1. TypeOK /\ JobNames(r) /\ job[r].at = "lookup" BY DEF CorrelationInv, LookUp
<1>2. Detects(r) /\ job[r].inc = 0 BY <1>1 DEF JobNames
<1>3. DedupKey(r) \in Tenants \X Keys \X (Addresses \union {NoIp})
  <2>1. Ev(r).tenant \in Tenants BY <1>2, EventFields DEF Detects, Ev, EventRecord
  <2>2. job[r].ctx.ip \in Addresses \union {NoIp} BY <1>1, JobOf, ContextTypes
  <2>3. QED BY <1>2, <2>1, <2>2 DEF DedupKey, Detects
<1>4. \A i \in found : /\ i \in DOMAIN incidents
                       /\ <<incidents[i].tenant, incidents[i].ctx.key, incidents[i].ctx.ip>> = DedupKey(r)
  <2>1. CASE known # 0
    <3>1. DedupKey(r) \in DOMAIN cache[r] BY <1>1, <1>3 DEF TypeOK
    <3>2. QED BY <2>1, <3>1 DEF CorrelationInv, CacheNames
  <2>2. CASE known = 0 BY <2>2 DEF Candidates, DedupKey
  <2>3. QED BY <2>1, <2>2
<1>5. \A i \in found : /\ i \in DOMAIN incidents /\ incidents[i].tenant = Ev(r).tenant
                       /\ incidents[i].ctx.key = job[r].ctx.key
                       /\ incidents[i].ctx.ip = job[r].ctx.ip
  BY <1>4 DEF DedupKey
<1>6. \/ Goto(r, "commit")
      \/ \E i \in found : job' = [job EXCEPT ![r].at = "commit", ![r].inc = i,
                                             ![r].seen = incidents[i].events]
  BY DEF LookUp
<1> HIDE DEF found
<1>7. "commit" \in StepNames BY DEF StepNames
<1>8. incidents' = incidents BY DEF LookUp
<1>9. /\ job' \in [Replicas -> Jobs] /\ JobNames(r)'
      /\ \A q \in Replicas \ {r} : job'[q] = job[q]
  <2>1. CASE Goto(r, "commit")
    <3>1. /\ job' \in [Replicas -> Jobs]
          /\ job'[r].at = "commit" /\ job'[r].msg = job[r].msg /\ job'[r].ctx = job[r].ctx
          /\ job'[r].inc = 0 /\ job'[r].after = job[r].after
          /\ \A q \in Replicas \ {r} : job'[q] = job[q]
      BY <1>1, <1>2, <1>7, <2>1, Going
    <3>2. JobNames(r)' BY <1>2, <3>1 DEF JobNames, Detects
    <3>3. QED BY <3>1, <3>2
  <2>2. ASSUME NEW i \in found,
               job' = [job EXCEPT ![r].at = "commit", ![r].inc = i, ![r].seen = incidents[i].events]
        PROVE  /\ job' \in [Replicas -> Jobs] /\ JobNames(r)'
               /\ \A q \in Replicas \ {r} : job'[q] = job[q]
    <3> DEFINE j == [job[r] EXCEPT !.at = "commit", !.inc = i, !.seen = incidents[i].events]
    <3>1. job[r] \in Jobs BY <1>1, JobOf
    <3>2. i \in Nat /\ i # 0 /\ incidents[i].events \in SUBSET EventIds
      BY <1>1, <1>5, RowOf, RowTypes
    <3>3. j \in Jobs BY <1>7, <3>1, <3>2 DEF Jobs
    <3>4. j.at = "commit" /\ j.msg = job[r].msg /\ j.ctx = job[r].ctx /\ j.inc = i
          /\ j.after = job[r].after
      BY <3>1 DEF Jobs
    <3>5. job' = [job EXCEPT ![r] = j] BY <1>1, <2>2 DEF TypeOK
    <3> HIDE DEF j
    <3>6. job' \in [Replicas -> Jobs] /\ job'[r] = j /\ \A q \in Replicas \ {r} : job'[q] = job[q]
      BY <1>1, <3>3, <3>5, Moving
    <3>7. Detects(r)' BY <1>2, <3>4, <3>6 DEF Detects
    <3>8. OwnCase(r)' BY <1>2, <1>5, <1>8, <3>4, <3>6 DEF OwnCase, Names, Ev, Detects
    <3>9. JobNames(r)' BY <1>5, <1>8, <3>4, <3>6, <3>7, <3>8 DEF JobNames, Detects
    <3>10. QED BY <3>6, <3>9
  <2>3. QED BY <1>6, <2>1, <2>2
<1>10. TypeOK' BY <1>1, <1>9 DEF LookUp, TypeOK
<1>11. QED BY <1>8, <1>9, <1>10, KeptUnchanged DEF Effect

LEMMA FoldStep == ASSUME CorrelationInv, NEW r \in Replicas, Fold(r) PROVE Effect(r)
<1> DEFINE i == job[r].inc
<1>1. TypeOK /\ JobNames(r) /\ job[r].at = "commit" /\ i # 0 BY DEF CorrelationInv, Fold
<1>2. OwnCase(r) BY <1>1 DEF JobNames
<1>3. Kept
  <2>1. \A k \in DOMAIN incidents \ {i} : incidents'[k] = incidents[k] BY FoldEffect
  <2>2. DOMAIN incidents' = DOMAIN incidents BY FoldEffect
  <2>3. /\ incidents'[i].tenant = incidents[i].tenant
        /\ incidents'[i].ctx.key = incidents[i].ctx.key /\ incidents'[i].ctx.ip = incidents[i].ctx.ip
    BY <1>2, FoldEffect DEF OwnCase, Names
  <2>4. QED BY <2>1, <2>2, <2>3 DEF Kept
<1>4. Continue(r) BY DEF Fold
<1>5. /\ job' \in [Replicas -> Jobs] /\ JobNames(r)'
      /\ \A q \in Replicas \ {r} : job'[q] = job[q]
  BY <1>1, <1>4, Continuing
<1>6. incidents' \in Seq(Rows) BY FoldEffect
<1>7. TypeOK' BY <1>1, <1>5, <1>6 DEF Fold, TypeOK
<1>8. QED BY <1>3, <1>5, <1>7 DEF Effect

LEMMA OpenStep == ASSUME CorrelationInv, NEW r \in Replicas, Open(r) PROVE Effect(r)
<1> DEFINE i == Len(incidents')
           j == [job[r] EXCEPT !.at = "remember", !.inc = i]
<1>1. TypeOK /\ JobNames(r) /\ job[r].at = "commit" BY DEF CorrelationInv, Open
<1>2. Detects(r) BY <1>1 DEF JobNames
<1>3. /\ incidents' \in Seq(Rows) /\ i \in Nat \ {0}
      /\ DOMAIN incidents' = DOMAIN incidents \union {i}
      /\ \A k \in DOMAIN incidents : incidents'[k] = incidents[k]
      /\ incidents'[i].ctx = job[r].ctx /\ incidents'[i].tenant = Ev(r).tenant
  BY OpenEffect
<1>4. Kept BY <1>3 DEF Kept
<1>5. job[r] \in Jobs /\ "remember" \in StepNames BY <1>1, JobOf DEF StepNames
<1>6. job' = [job EXCEPT ![r] = j] BY <1>1, <1>5 DEF Open, TypeOK
<1> HIDE DEF i
<1>7. j \in Jobs BY <1>3, <1>5 DEF Jobs
<1>8. j.at = "remember" /\ j.msg = job[r].msg /\ j.ctx = job[r].ctx /\ j.inc = i
  BY <1>5 DEF Jobs
<1> HIDE DEF j
<1>9. job' \in [Replicas -> Jobs] /\ job'[r] = j /\ \A q \in Replicas \ {r} : job'[q] = job[q]
  BY <1>1, <1>6, <1>7, Moving
<1>10. Detects(r)' BY <1>2, <1>8, <1>9 DEF Detects
<1>11. OwnCase(r)' BY <1>2, <1>3, <1>8, <1>9 DEF OwnCase, Names, Ev, Detects
<1>12. JobNames(r)' BY <1>2, <1>3, <1>8, <1>9, <1>10, <1>11 DEF JobNames, Detects
<1>13. TypeOK' BY <1>1, <1>3, <1>9 DEF Open, TypeOK
<1>14. QED BY <1>4, <1>9, <1>12, <1>13 DEF Effect

LEMMA RememberEffect == ASSUME CorrelationInv, NEW r \in Replicas, Remember(r) PROVE Effect(r)
<1>1. TypeOK /\ JobNames(r) /\ job[r].at = "remember" BY DEF CorrelationInv, Remember
<1>2. Detects(r) /\ OwnCase(r) BY <1>1 DEF JobNames
<1>3. "announce" \in StepNames BY DEF StepNames
<1>4. /\ job' \in [Replicas -> Jobs]
      /\ job'[r].at = "announce" /\ job'[r].msg = job[r].msg /\ job'[r].ctx = job[r].ctx
      /\ job'[r].inc = job[r].inc /\ job'[r].after = job[r].after
      /\ \A q \in Replicas \ {r} : job'[q] = job[q]
  BY <1>1, <1>3, Going DEF Remember
<1>5. incidents' = incidents BY DEF Remember
<1>6. JobNames(r)' BY <1>2, <1>4, <1>5 DEF JobNames, Detects, OwnCase, Names
<1>7. cache' \in [Replicas -> [Tenants \X Keys \X (Addresses \union {NoIp}) -> Nat]]
  <2>1. job[r].inc \in Nat BY <1>1, JobOf
  <2>2. QED BY <1>1, <2>1 DEF Remember, TypeOK
<1>8. TypeOK' BY <1>1, <1>4, <1>7 DEF Remember, TypeOK
<1>9. QED BY <1>4, <1>5, <1>6, <1>8, KeptUnchanged DEF Effect

LEMMA AnnounceEffect == ASSUME CorrelationInv, NEW r \in Replicas, Announce(r) PROVE Effect(r)
<1> DEFINE m == [chan |-> "incidents.new", inc |-> job[r].inc, ctx |-> job[r].ctx]
<1>1. TypeOK /\ JobNames(r) /\ Continue(r) /\ Broadcast(m) BY DEF CorrelationInv, Announce
<1>2. m \in Messages
  <2>1. job[r].inc \in Nat /\ job[r].ctx \in Contexts BY <1>1, JobOf
  <2>2. QED BY <2>1, MessageTypes
<1> HIDE DEF m
<1>3. inbox' \in [Replicas -> Seq(Messages)] BY <1>1, <1>2, Sending
<1>4. /\ job' \in [Replicas -> Jobs] /\ JobNames(r)'
      /\ \A q \in Replicas \ {r} : job'[q] = job[q]
  BY <1>1, Continuing
<1>5. TypeOK' BY <1>1, <1>3, <1>4 DEF Announce, TypeOK
<1>6. QED BY <1>4, <1>5, KeptUnchanged DEF Announce, Effect

\* What both scans do: a row of its own, and the news of it to send.
Filed(r, status, severity, report) ==
  /\ Effect(r)
  /\ job'[r].report = report /\ job'[r].ctx = NoContext /\ job'[r].at = "announce"
  /\ job'[r].inc \notin DOMAIN incidents /\ job'[r].inc # 0
  /\ incidents'[job'[r].inc].ctx = NoContext
  /\ incidents'[job'[r].inc].severity = severity
  /\ incidents'[job'[r].inc].status = status
  /\ \A k \in DOMAIN incidents : incidents'[k] = incidents[k]
  /\ DOMAIN incidents' = DOMAIN incidents \union {job'[r].inc}

LEMMA ScanEffect ==
  ASSUME CorrelationInv, NEW r \in Replicas, NEW status \in {"open", "resolved"},
         NEW severity \in Severities, NEW report \in Reports,
         FileReport(r, status, severity, report), NEW chans, Take(r, chans)
  PROVE  Filed(r, status, severity, report)
<1> DEFINE row == [tenant |-> CHOOSE t \in Tenants : TRUE, ctx |-> NoContext, techniques |-> {},
                   events |-> {}, severity |-> severity, status |-> status]
           i == Len(incidents')
           j == [Idle EXCEPT !.at = "announce", !.inc = i, !.report = report]
<1>1. TypeOK BY DEF CorrelationInv
<1>2. (CHOOSE t \in Tenants : TRUE) \in Tenants BY ScanAssumption
<1>3. row \in Rows BY <1>2, ContextTypes DEF Rows
<1>4. incidents' = Append(incidents, row) /\ job' = [job EXCEPT ![r] = j] BY DEF FileReport
<1>5. row.ctx = NoContext /\ row.severity = severity /\ row.status = status OBVIOUS
<1> HIDE DEF row
<1>6. /\ incidents' \in Seq(Rows) /\ i \in Nat \ {0} /\ i \notin DOMAIN incidents
      /\ DOMAIN incidents' = DOMAIN incidents \union {i}
      /\ incidents'[i] = row
      /\ \A k \in DOMAIN incidents : incidents'[k] = incidents[k]
  BY <1>1, <1>3, <1>4, Inserting
<1> HIDE DEF i
<1>7. j \in Jobs
  <2>1. "announce" \in StepNames BY DEF StepNames
  <2>2. QED BY <1>6, <2>1, JobFields DEF Jobs
<1>8. j.at = "announce" /\ j.inc = i /\ j.report = report /\ j.ctx = NoContext /\ j.after = "idle"
  BY DEF Idle
<1> HIDE DEF j
<1>9. job' \in [Replicas -> Jobs] /\ job'[r] = j /\ \A q \in Replicas \ {r} : job'[q] = job[q]
  BY <1>1, <1>4, <1>7, Moving
<1>10. JobNames(r)' BY <1>5, <1>6, <1>8, <1>9 DEF JobNames, Names, NoContext
<1>11. Kept BY <1>6 DEF Kept
<1>12. inbox' \in [Replicas -> Seq(Messages)] BY <1>1, Taking
<1>13. TypeOK' BY <1>1, <1>6, <1>9, <1>12 DEF FileReport, TypeOK
<1>14. Effect(r) BY <1>9, <1>10, <1>11, <1>13 DEF Effect
<1>15. QED BY <1>5, <1>6, <1>8, <1>9, <1>14 DEF Filed

\* A scan tells what it was told, and nobody else knows of its incident.
LEMMA ScanStep ==
  ASSUME CorrelationInv, NEW r \in Replicas, ReportDomain(r) \/ ReportPackages(r)
  PROVE  /\ Effect(r)
         /\ Tells(job'[r].report, incidents'[job'[r].inc])
         /\ job'[r].at = "announce" /\ job'[r].ctx = NoContext
         /\ job'[r].inc \notin DOMAIN incidents /\ job'[r].inc # 0
         /\ incidents'[job'[r].inc].ctx = NoContext
         /\ \A k \in DOMAIN incidents : incidents'[k] = incidents[k]
         /\ DOMAIN incidents' = DOMAIN incidents \union {job'[r].inc}
<1>1. CASE ReportDomain(r)
  <2>1. PICK site \in SiteAnswers, search \in SearchAnswers :
          LET checks == scan_domain(site) \union search_public_exposure(search)
              clean == Warnings(checks) = {}
          IN  FileReport(r, IF clean THEN "resolved" ELSE "open", IF clean THEN "low" ELSE "medium",
                         [kind |-> "domain", site |-> site, search |-> search, checks |-> checks])
    BY <1>1 DEF ReportDomain
  <2> DEFINE checks == scan_domain(site) \union search_public_exposure(search)
             status == IF Warnings(checks) = {} THEN "resolved" ELSE "open"
             severity == IF Warnings(checks) = {} THEN "low" ELSE "medium"
             report == [kind |-> "domain", site |-> site, search |-> search, checks |-> checks]
             row == incidents'[job'[r].inc]
  <2>2. Take(r, {"exposure.scan_requested"}) BY <1>1 DEF ReportDomain
  <2>3. severity \in Severities /\ status \in {"open", "resolved"} BY DEF Severities
  <2>4. report \in Reports BY DomainTold
  <2>5. FileReport(r, status, severity, report) BY <2>1
  <2>6. row.status = status => Tells(report, row) BY DomainTold
  <2> HIDE DEF status, severity, report
  <2>7. Filed(r, status, severity, report) BY <2>2, <2>3, <2>4, <2>5, ScanEffect
  <2>8. QED BY <2>6, <2>7 DEF Filed
<1>2. CASE ReportPackages(r)
  <2>1. PICK osv \in [Packages -> OsvAnswers], github \in [Packages -> GithubAnswers] :
          LET results == [p \in Packages |-> check_package(osv[p], github[p])]
              found == UNION {results[p].vulnerabilities : p \in Packages}
          IN  FileReport(r, IF found = {} THEN "resolved" ELSE "open", _worst_severity(found),
                         [kind |-> "packages", osv |-> osv, github |-> github, results |-> results])
    BY <1>2 DEF ReportPackages
  <2> DEFINE results == [p \in Packages |-> check_package(osv[p], github[p])]
             found == UNION {results[p].vulnerabilities : p \in Packages}
             status == IF found = {} THEN "resolved" ELSE "open"
             severity == _worst_severity(found)
             report == [kind |-> "packages", osv |-> osv, github |-> github, results |-> results]
             row == incidents'[job'[r].inc]
  <2>2. Take(r, {"exposure.dependency_scan_requested"}) BY <1>2 DEF ReportPackages
  <2>3. severity \in Severities /\ status \in {"open", "resolved"} BY WorstSeverity
  <2>4. report \in Reports BY PackagesTold
  <2>5. FileReport(r, status, severity, report) BY <2>1
  <2>6. /\ row.severity = severity
        /\ row.status = status
        => Tells(report, row)
    BY PackagesTold
  <2> HIDE DEF status, severity, report
  <2>7. Filed(r, status, severity, report) BY <2>2, <2>3, <2>4, <2>5, ScanEffect
  <2>8. QED BY <2>6, <2>7 DEF Filed
<1>3. QED BY <1>1, <1>2

\* The points at which a loop holds a case it was told of.
Holding == {"announce", "indicator", "put_indicator", "load", "enrich", "send_enriched",
            "send_classified"}

\* A loop that keeps its case and message from one such point to the next.
LEMMA Carrying ==
  ASSUME CorrelationInv, NEW r \in Replicas, job[r].at \in Holding,
         NEW at \in {"load", "put_indicator", "send_enriched"}, Goto(r, at), Kept,
         at = "put_indicator" => job[r].ctx.ip # NoIp
  PROVE  /\ job' \in [Replicas -> Jobs] /\ JobNames(r)'
         /\ \A q \in Replicas \ {r} : job'[q] = job[q]
<1>1. TypeOK /\ JobNames(r) BY DEF CorrelationInv
<1>2. at \in StepNames BY DEF StepNames
<1>3. /\ job' \in [Replicas -> Jobs]
      /\ job'[r].at = at /\ job'[r].msg = job[r].msg /\ job'[r].ctx = job[r].ctx
      /\ job'[r].inc = job[r].inc /\ job'[r].after = job[r].after
      /\ \A q \in Replicas \ {r} : job'[q] = job[q]
  BY <1>1, <1>2, Going
<1>4. Names(job[r].inc, job[r].ctx) BY <1>1 DEF JobNames, Holding
<1>5. Names(job[r].inc, job[r].ctx)' BY <1>3, <1>4, NamesStay DEF Names
<1>6. JobNames(r)' BY <1>1, <1>3, <1>5 DEF JobNames, Names
<1>7. QED BY <1>3, <1>6

LEMMA LookUpAddressEffect ==
  ASSUME CorrelationInv, NEW r \in Replicas, LookUpAddress(r) PROVE Effect(r)
<1> DEFINE m == Head(inbox[r])
           at == IF m.ctx.ip = NoIp THEN "load" ELSE "indicator"
<1>1. TypeOK /\ Take(r, {"incidents.new"}) BY DEF CorrelationInv, LookUpAddress
<1>2. m.inc \in Nat /\ m.ctx \in Contexts /\ Names(m.inc, m.ctx) BY <1>1, Taken DEF Refers
<1>3. PICK malicious \in Verdicts(m.ctx.ip) :
        job' = [job EXCEPT ![r] = [Idle EXCEPT !.at = at, !.inc = m.inc,
                                               !.ctx = Merged(m.ctx, malicious)]]
  BY DEF LookUpAddress
<1>4. at \in {"load", "indicator"} /\ (at = "indicator" => m.ctx.ip # NoIp) OBVIOUS
<1> DEFINE c == Merged(m.ctx, malicious)
           j == [Idle EXCEPT !.at = at, !.inc = m.inc, !.ctx = c]
<1>5. malicious \in BOOLEAN /\ (malicious => m.ctx.ip \in Malicious) BY <1>3, VerdictIsFed
<1>6. /\ c \in Contexts /\ c.key = m.ctx.key /\ c.ip = m.ctx.ip
      /\ c.malicious => c.ip \in Malicious
  BY <1>2, <1>5, ContextTypes
<1>7. job' = [job EXCEPT ![r] = j] BY <1>3
<1> HIDE DEF c, at, m
<1>8. j.at = at /\ j.inc = m.inc /\ j.ctx = c /\ j.after = "idle" BY DEF Idle
<1>9. j \in Jobs
  <2>1. Idle \in Jobs /\ at \in StepNames BY <1>4, JobFields DEF StepNames
  <2>2. QED BY <1>2, <1>6, <2>1 DEF Jobs
<1> HIDE DEF j
<1>10. job' \in [Replicas -> Jobs] /\ job'[r] = j /\ \A q \in Replicas \ {r} : job'[q] = job[q]
  BY <1>1, <1>7, <1>9, Moving
<1>11. incidents' = incidents BY DEF LookUpAddress
<1>12. JobNames(r)' BY <1>2, <1>4, <1>6, <1>8, <1>10, <1>11 DEF JobNames, Names
<1>13. inbox' \in [Replicas -> Seq(Messages)] BY <1>1, Taking
<1>14. TypeOK' BY <1>1, <1>10, <1>13 DEF LookUpAddress, TypeOK
<1>15. QED BY <1>10, <1>11, <1>12, <1>14, KeptUnchanged DEF Effect

LEMMA CheckIndicatorEffect ==
  ASSUME CorrelationInv, NEW r \in Replicas, CheckIndicator(r) PROVE Effect(r)
<1>1. TypeOK /\ JobNames(r) /\ job[r].at = "indicator" BY DEF CorrelationInv, CheckIndicator
<1>2. PICK at \in {"load", "put_indicator", "send_enriched"} : Goto(r, at) BY DEF CheckIndicator
<1>3. Kept BY KeptUnchanged DEF CheckIndicator
<1>4. job[r].ctx.ip # NoIp BY <1>1 DEF JobNames
<1>5. /\ job' \in [Replicas -> Jobs] /\ JobNames(r)'
      /\ \A q \in Replicas \ {r} : job'[q] = job[q]
  BY <1>1, <1>2, <1>3, <1>4, Carrying DEF Holding
<1>6. TypeOK' BY <1>1, <1>5 DEF CheckIndicator, TypeOK
<1>7. QED BY <1>3, <1>5, <1>6 DEF Effect

LEMMA PutIndicatorEffect ==
  ASSUME CorrelationInv, NEW r \in Replicas, PutIndicator(r) PROVE Effect(r)
<1>1. TypeOK /\ JobNames(r) /\ job[r].at = "put_indicator" BY DEF CorrelationInv, PutIndicator
<1>2. Kept BY KeptUnchanged DEF PutIndicator
<1>3. job[r].ctx.ip \in Addresses
  <2>1. job[r].ctx.ip \in Addresses \union {NoIp} BY <1>1, JobOf, ContextTypes
  <2>2. QED BY <1>1, <2>1 DEF JobNames
<1>4. /\ job' \in [Replicas -> Jobs] /\ JobNames(r)'
      /\ \A q \in Replicas \ {r} : job'[q] = job[q]
  <2>1. CASE Finish(r) BY <1>1, <2>1, Finishing
  <2>2. CASE Goto(r, "load") BY <1>1, <1>2, <2>2, Carrying DEF Holding
  <2>3. QED BY <2>1, <2>2 DEF PutIndicator
<1>5. indicators' \subseteq Addresses BY <1>1, <1>3 DEF PutIndicator, TypeOK
<1>6. TypeOK' BY <1>1, <1>4, <1>5 DEF PutIndicator, TypeOK
<1>7. QED BY <1>2, <1>4, <1>6 DEF Effect

LEMMA LoadEffect == ASSUME CorrelationInv, NEW r \in Replicas, LoadIncident(r) PROVE Effect(r)
<1> DEFINE i == job[r].inc
           c == Merged(incidents[i].ctx, job[r].ctx.malicious)
           j == [job[r] EXCEPT !.at = "enrich", !.ctx = c]
<1>1. TypeOK /\ JobNames(r) /\ job[r].at = "load" BY DEF CorrelationInv, LoadIncident
<1>2. Names(i, job[r].ctx) BY <1>1 DEF JobNames
<1>3. incidents[i].ctx \in Contexts BY <1>1, <1>2, RowOf, RowTypes DEF Names
<1>4. job[r] \in Jobs /\ job[r].ctx.malicious \in BOOLEAN BY <1>1, JobOf, ContextTypes
<1>5. /\ c \in Contexts /\ c.key = incidents[i].ctx.key /\ c.ip = incidents[i].ctx.ip
      /\ c.malicious = job[r].ctx.malicious
  BY <1>3, <1>4, ContextTypes
<1>6. job' = [job EXCEPT ![r] = j] BY <1>1, <1>4 DEF LoadIncident, TypeOK
<1> HIDE DEF c
<1>7. j.at = "enrich" /\ j.inc = i /\ j.ctx = c /\ j.after = job[r].after /\ j.msg = job[r].msg
  BY <1>4 DEF Jobs
<1>8. j \in Jobs
  <2>1. "enrich" \in StepNames BY DEF StepNames
  <2>2. QED BY <1>4, <1>5, <2>1 DEF Jobs
<1> HIDE DEF j
<1>9. job' \in [Replicas -> Jobs] /\ job'[r] = j /\ \A q \in Replicas \ {r} : job'[q] = job[q]
  BY <1>1, <1>6, <1>8, Moving
<1>10. incidents' = incidents BY DEF LoadIncident
<1>11. Names(i, c) BY <1>2, <1>5 DEF Names
<1>12. JobNames(r)' BY <1>1, <1>7, <1>9, <1>10, <1>11 DEF JobNames, Names
<1>13. TypeOK' BY <1>1, <1>9 DEF LoadIncident, TypeOK
<1>14. QED BY <1>9, <1>10, <1>12, <1>13, KeptUnchanged DEF Effect

\* Enrichment writes back a context of the same technique and address.
LEMMA EnrichEffect ==
  ASSUME CorrelationInv, NEW r \in Replicas, Enrich(r)
  PROVE  LET i == job[r].inc IN
         /\ Effect(r) /\ i \in DOMAIN incidents
         /\ DOMAIN incidents' = DOMAIN incidents
         /\ \A k \in DOMAIN incidents \ {i} : incidents'[k] = incidents[k]
         /\ incidents'[i].ctx = job[r].ctx
         /\ incidents'[i].severity = incidents[i].severity
         /\ incidents'[i].status = incidents[i].status
         /\ incidents'[i].events = incidents[i].events
<1> DEFINE i == job[r].inc
           row == [incidents[i] EXCEPT !.ctx = job[r].ctx]
<1>1. TypeOK /\ JobNames(r) /\ job[r].at = "enrich" BY DEF CorrelationInv, Enrich
<1>2. Names(i, job[r].ctx) BY <1>1 DEF JobNames
<1>3. i \in DOMAIN incidents /\ incidents[i] \in Rows BY <1>1, <1>2, RowOf DEF Names
<1>4. row \in Rows BY <1>1, <1>3, JobOf, RowTypes
<1>5. /\ row.ctx = job[r].ctx /\ row.tenant = incidents[i].tenant
      /\ row.severity = incidents[i].severity /\ row.status = incidents[i].status
      /\ row.events = incidents[i].events
  BY <1>3 DEF Rows
<1>6. incidents' = [incidents EXCEPT ![i] = row] BY DEF Enrich
<1> HIDE DEF row
<1>7. /\ incidents' \in Seq(Rows) /\ DOMAIN incidents' = DOMAIN incidents /\ incidents'[i] = row
      /\ \A k \in DOMAIN incidents \ {i} : incidents'[k] = incidents[k]
  BY <1>1, <1>3, <1>4, <1>6, Writing
<1>8. Kept BY <1>2, <1>5, <1>7 DEF Kept, Names
<1>9. /\ job' \in [Replicas -> Jobs] /\ JobNames(r)'
      /\ \A q \in Replicas \ {r} : job'[q] = job[q]
  BY <1>1, <1>8, Carrying DEF Enrich, Holding
<1>10. TypeOK' BY <1>1, <1>7, <1>9 DEF Enrich, TypeOK
<1>11. QED BY <1>3, <1>5, <1>7, <1>8, <1>9, <1>10 DEF Effect

LEMMA SendEnrichedEffect ==
  ASSUME CorrelationInv, NEW r \in Replicas, SendEnriched(r) PROVE Effect(r)
<1> DEFINE m == [chan |-> "incidents.enriched", inc |-> job[r].inc, ctx |-> job[r].ctx]
<1>1. TypeOK /\ Finish(r) /\ Broadcast(m) BY DEF CorrelationInv, SendEnriched
<1>2. m \in Messages
  <2>1. job[r].inc \in Nat /\ job[r].ctx \in Contexts BY <1>1, JobOf
  <2>2. QED BY <2>1, MessageTypes
<1> HIDE DEF m
<1>3. inbox' \in [Replicas -> Seq(Messages)] BY <1>1, <1>2, Sending
<1>4. /\ job' \in [Replicas -> Jobs] /\ JobNames(r)'
      /\ \A q \in Replicas \ {r} : job'[q] = job[q]
  BY <1>1, Finishing
<1>5. TypeOK' BY <1>1, <1>3, <1>4 DEF SendEnriched, TypeOK
<1>6. QED BY <1>4, <1>5, KeptUnchanged DEF SendEnriched, Effect

\* Classification writes the severity of the incident the message is about.
LEMMA ClassifyEffect ==
  ASSUME CorrelationInv, NEW r \in Replicas, Classify(r)
  PROVE  LET i == Head(inbox[r]).inc IN
         /\ Effect(r) /\ i \in DOMAIN incidents
         /\ DOMAIN incidents' = DOMAIN incidents
         /\ \A k \in DOMAIN incidents \ {i} : incidents'[k] = incidents[k]
         /\ incidents'[i].ctx = incidents[i].ctx
         /\ incidents'[i].events = incidents[i].events /\ incidents'[i].status = incidents[i].status
         /\ job'[r].inc = i /\ job'[r].report = NoReport
<1> DEFINE m == Head(inbox[r])
           i == m.inc
           row == [incidents[i] EXCEPT !.severity = SeverityOf(m.ctx)]
           j == [Idle EXCEPT !.at = "send_classified", !.inc = i, !.ctx = m.ctx]
<1>1. TypeOK /\ Take(r, {"incidents.enriched"}) BY DEF CorrelationInv, Classify
<1>2. i \in Nat /\ m.ctx \in Contexts /\ Names(i, m.ctx) BY <1>1, Taken DEF Refers
<1>3. i \in DOMAIN incidents /\ incidents[i] \in Rows BY <1>1, <1>2, RowOf DEF Names
<1>4. row \in Rows
  <2>1. SeverityOf(m.ctx) \in Severities BY <1>2, TriageTypes
  <2>2. QED BY <1>3, <2>1, RowTypes
<1>5. /\ row.ctx = incidents[i].ctx /\ row.tenant = incidents[i].tenant
      /\ row.events = incidents[i].events /\ row.status = incidents[i].status
  BY <1>3 DEF Rows
<1>6. incidents' = [incidents EXCEPT ![i] = row] /\ job' = [job EXCEPT ![r] = j] BY DEF Classify
<1> HIDE DEF row, m
<1>7. /\ incidents' \in Seq(Rows) /\ DOMAIN incidents' = DOMAIN incidents /\ incidents'[i] = row
      /\ \A k \in DOMAIN incidents \ {i} : incidents'[k] = incidents[k]
  BY <1>1, <1>3, <1>4, <1>6, Writing
<1>8. Kept BY <1>5, <1>7 DEF Kept
<1>9. j.at = "send_classified" /\ j.inc = i /\ j.ctx = m.ctx /\ j.after = "idle" /\ j.report = NoReport
  BY DEF Idle
<1>10. j \in Jobs
  <2>1. Idle \in Jobs /\ "send_classified" \in StepNames BY JobFields DEF StepNames
  <2>2. QED BY <1>2, <2>1 DEF Jobs
<1> HIDE DEF j, i
<1>11. job' \in [Replicas -> Jobs] /\ job'[r] = j /\ \A q \in Replicas \ {r} : job'[q] = job[q]
  BY <1>1, <1>6, <1>10, Moving
<1>12. JobNames(r)' BY <1>2, <1>5, <1>7, <1>9, <1>11 DEF JobNames, Names
<1>13. inbox' \in [Replicas -> Seq(Messages)] BY <1>1, Taking
<1>14. TypeOK' BY <1>1, <1>7, <1>11, <1>13 DEF Classify, TypeOK
<1>15. Effect(r) BY <1>8, <1>11, <1>12, <1>14 DEF Effect
<1>16. QED BY <1>3, <1>5, <1>7, <1>9, <1>11, <1>15 DEF i, m

\* What is published names an incident, and a block has a malicious address.
LEMMA SendClassifiedEffect ==
  ASSUME CorrelationInv, NEW r \in Replicas, SendClassified(r)
  PROVE  /\ Effect(r)
         /\ \A n \in DOMAIN outbox' : n \notin DOMAIN outbox \/ outbox'[n] # outbox[n] =>
              /\ outbox'[n].inc \in DOMAIN incidents
              /\ outbox'[n].action = "block_ip" => incidents[outbox'[n].inc].ctx.ip \in Malicious
<1> DEFINE i == job[r].inc
           o == [inc |-> i, severity |-> SeverityOf(job[r].ctx),
                 action |-> recommend_action(incidents[i].techniques, FlagsOf(job[r].ctx))]
           Answers == [inc : Nat, severity : Severities, action : KnownActions]
<1>1. TypeOK /\ JobNames(r) /\ job[r].at = "send_classified" BY DEF CorrelationInv, SendClassified
<1>2. Names(i, job[r].ctx) BY <1>1 DEF JobNames
<1>3. job[r].ctx \in Contexts /\ i \in Nat BY <1>1, JobOf
<1>4. o \in Answers BY <1>3, TriageTypes
<1>5. o.inc = i /\ (o.action = "block_ip" => incidents[i].ctx.ip \in Malicious)
  BY <1>2, <1>3, TriageTypes DEF Names
<1>6. Finish(r) BY DEF SendClassified
<1>7. /\ job' \in [Replicas -> Jobs] /\ JobNames(r)'
      /\ \A q \in Replicas \ {r} : job'[q] = job[q]
  BY <1>1, <1>6, Finishing
<1>8. outbox' = Append(outbox, o) BY DEF SendClassified
<1>9. outbox \in Seq(Answers) BY <1>1 DEF TypeOK
<1> HIDE DEF o, Answers
<1>10. outbox' \in Seq(Answers) BY <1>4, <1>8, <1>9
<1>11. \A n \in DOMAIN outbox' : n \notin DOMAIN outbox \/ outbox'[n] # outbox[n] => outbox'[n] = o
  BY <1>4, <1>8, <1>9
<1>12. TypeOK' BY <1>1, <1>7, <1>10 DEF SendClassified, TypeOK, Answers
<1>13. Effect(r) BY <1>7, <1>12, KeptUnchanged DEF SendClassified, Effect
<1>14. QED BY <1>2, <1>5, <1>11, <1>13 DEF Names

\* Failures, and the steps of no loop.
LEMMA DropEffect == ASSUME CorrelationInv, NEW r \in Replicas, Drop(r) PROVE Effect(r)
<1>1. TypeOK /\ JobNames(r) /\ Take(r, Channels) BY DEF CorrelationInv, Drop
<1>2. UNCHANGED <<job, incidents>> BY DEF Drop
<1>3. /\ job' \in [Replicas -> Jobs] /\ JobNames(r)'
      /\ \A q \in Replicas \ {r} : job'[q] = job[q]
  BY <1>1, <1>2, Staying
<1>4. inbox' \in [Replicas -> Seq(Messages)] BY <1>1, Taking
<1>5. TypeOK' BY <1>1, <1>3, <1>4 DEF Drop, TypeOK
<1>6. QED BY <1>3, <1>5, KeptUnchanged DEF Drop, Effect

LEMMA RaiseEffect == ASSUME CorrelationInv, NEW r \in Replicas, Raise(r) PROVE Effect(r)
<1>1. TypeOK /\ Finish(r) BY DEF CorrelationInv, Raise
<1>2. /\ job' \in [Replicas -> Jobs] /\ JobNames(r)'
      /\ \A q \in Replicas \ {r} : job'[q] = job[q]
  BY <1>1, Finishing
<1>3. TypeOK' BY <1>1, <1>2 DEF Raise, TypeOK
<1>4. QED BY <1>2, <1>3, KeptUnchanged DEF Raise, Effect

LEMMA CrashEffect == ASSUME CorrelationInv, NEW r \in Replicas, Crash(r) PROVE Effect(r)
<1>1. TypeOK /\ Finish(r) BY DEF CorrelationInv, Crash
<1>2. /\ job' \in [Replicas -> Jobs] /\ JobNames(r)'
      /\ \A q \in Replicas \ {r} : job'[q] = job[q]
  BY <1>1, Finishing
<1>3. EmptyCache \in [Tenants \X Keys \X (Addresses \union {NoIp}) -> Nat] BY DEF EmptyCache
<1>4. /\ inbox' \in [Replicas -> Seq(Messages)]
      /\ cache' \in [Replicas -> [Tenants \X Keys \X (Addresses \union {NoIp}) -> Nat]]
  BY <1>1, <1>3 DEF Crash, TypeOK
<1>5. TypeOK' BY <1>1, <1>2, <1>4 DEF Crash, TypeOK
<1>6. QED BY <1>2, <1>5, KeptUnchanged DEF Crash, Effect

LEMMA RestartEffect == ASSUME CorrelationInv, NEW r \in Replicas, Restart(r) PROVE Effect(r)
<1>1. TypeOK /\ JobNames(r) BY DEF CorrelationInv
<1>2. /\ job' \in [Replicas -> Jobs] /\ JobNames(r)'
      /\ \A q \in Replicas \ {r} : job'[q] = job[q]
  BY <1>1, Staying DEF Restart
<1>3. TypeOK' BY <1>1 DEF Restart, TypeOK
<1>4. QED BY <1>2, <1>3, KeptUnchanged DEF Restart, Effect

\* Users, connectors and time: no loop takes a step.
Outside == \/ \E e \in RawEvents : PostEvent(e)
           \/ \E s \in Scans : PostScan(s)
           \/ \E s \in Sources : Expire(s)
           \/ \E a \in Accounts : Forget(a)

LEMMA OutsideEffect ==
  ASSUME CorrelationInv, Outside
  PROVE  TypeOK' /\ UNCHANGED <<incidents, indicators, cache, outbox, job>>
<1>1. TypeOK BY DEF CorrelationInv
<1>2. ASSUME NEW e \in RawEvents, PostEvent(e)
      PROVE  TypeOK' /\ UNCHANGED <<incidents, indicators, cache, outbox, job>>
  <2>1. [chan |-> "events.raw", event |-> e] \in Messages BY MessageTypes
  <2>2. inbox' \in [Replicas -> Seq(Messages)] BY <1>1, <1>2, <2>1, Sending DEF PostEvent
  <2>3. QED BY <1>1, <1>2, <2>2 DEF PostEvent, TypeOK
<1>3. ASSUME NEW s \in Scans, PostScan(s)
      PROVE  TypeOK' /\ UNCHANGED <<incidents, indicators, cache, outbox, job>>
  <2>1. PICK chan \in ScanChannels : Broadcast([chan |-> chan, scan |-> s]) BY <1>3 DEF PostScan
  <2>2. [chan |-> chan, scan |-> s] \in Messages BY MessageTypes
  <2>3. inbox' \in [Replicas -> Seq(Messages)] BY <1>1, <2>1, <2>2, Sending
  <2>4. QED BY <1>1, <1>3, <2>3 DEF PostScan, TypeOK
<1>4. ASSUME NEW s \in Sources, Expire(s)
      PROVE  TypeOK' /\ UNCHANGED <<incidents, indicators, cache, outbox, job>>
  <2>1. failures[s] - 1 \in Nat BY <1>1, <1>4 DEF Expire, TypeOK
  <2>2. failures' \in [Sources -> Nat] BY <1>1, <1>4, <2>1 DEF Expire, TypeOK
  <2>3. QED BY <1>1, <1>4, <2>2 DEF Expire, TypeOK
<1>5. ASSUME NEW a \in Accounts, Forget(a)
      PROVE  TypeOK' /\ UNCHANGED <<incidents, indicators, cache, outbox, job>>
  BY <1>1, <1>5 DEF Forget, TypeOK
<1>6. QED BY <1>2, <1>3, <1>4, <1>5 DEF Outside

\* Every step of a replica is of one of these kinds.
ReplicaStep(r) == LoopStep(r) \/ Drop(r) \/ Raise(r) \/ Crash(r) \/ Restart(r)

LEMMA EveryEffect ==
  ASSUME CorrelationInv, NEW r \in Replicas, ReplicaStep(r)
  PROVE  Effect(r)
<1>1. CASE IntegrationStep(r) BY <1>1, StoreEffect, SendNormalizedEffect DEF IntegrationStep
<1>2. CASE DetectionStep(r)
  BY <1>2, CountEffect, CheckSuccessEffect, AlarmEffect, IgnoreEffect, TravelEffect, SetLastEffect,
     LookUpEffect, FoldStep, OpenStep, RememberEffect, AnnounceEffect DEF DetectionStep
<1>3. CASE ReportDomain(r) \/ ReportPackages(r) BY <1>3, ScanStep
<1>4. CASE ThreatIntelStep(r)
  BY <1>4, LookUpAddressEffect, CheckIndicatorEffect, PutIndicatorEffect, LoadEffect,
     EnrichEffect, SendEnrichedEffect DEF ThreatIntelStep
<1>5. CASE OrchestratorStep(r) BY <1>5, ClassifyEffect, SendClassifiedEffect DEF OrchestratorStep
<1>6. QED
  BY <1>1, <1>2, <1>3, <1>4, <1>5, DropEffect, RaiseEffect, CrashEffect, RestartEffect DEF ReplicaStep, LoopStep

-----------------------------------------------------------------------------
\* The invariant, part by part.

\* What a loop that takes no step knows stays true.
LEMMA OthersStay ==
  ASSUME Kept, NEW q \in Replicas, JobNames(q), job'[q] = job[q]
  PROVE  JobNames(q)'
<1>1. ASSUME Names(job[q].inc, job[q].ctx) PROVE Names(job[q].inc, job[q].ctx)'
  BY <1>1, NamesStay DEF Names
<1>2. ASSUME OwnCase(q) PROVE OwnCase(q)' BY <1>1, <1>2, NamesStay DEF OwnCase, Ev
<1>3. ASSUME Detects(q) PROVE Detects(q)' BY <1>3 DEF Detects
<1>4. (job[q].inc \in {0} \union DOMAIN incidents)' BY DEF Kept, JobNames
<1>5. QED BY <1>1, <1>2, <1>3, <1>4 DEF JobNames

\* What is in the inboxes after a step of a replica was there, or names a row.
LEMMA NewsNames ==
  ASSUME CorrelationInv, NEW r \in Replicas, ReplicaStep(r),
         NEW q \in Replicas, NEW n \in DOMAIN inbox'[q]
  PROVE  \/ \E k \in DOMAIN inbox[q] : inbox'[q][n] = inbox[q][k]
         \/ /\ Refers(inbox'[q][n]) => /\ Names(inbox'[q][n].inc, inbox'[q][n].ctx)
                                       /\ inbox'[q][n].inc = job[r].inc
                                       /\ job[r].at \in {"announce", "send_enriched"}
                                       /\ job'[r].report = NoReport /\ job'[r].inc = 0
<1> DEFINE was == \E k \in DOMAIN inbox[q] : inbox'[q][n] = inbox[q][k]
           news == inbox'[q][n]
<1>1. TypeOK /\ JobNames(r) BY DEF CorrelationInv
<1>2. ASSUME NEW chans, Take(r, chans) PROVE was BY <1>1, <1>2, Taking
<1>3. ASSUME NEW m \in Messages, Broadcast(m), ~was PROVE news = m BY <1>1, <1>3, Sending
<1>4. CASE UNCHANGED inbox BY <1>4
<1>5. CASE SendNormalized(r)
  <2>1. job[r].msg \in EventMessages BY <1>1, <1>5 DEF JobNames, SendNormalized
  <2>2. ~Refers(job[r].msg) BY <2>1 DEF EventMessages, Refers
  <2>3. Broadcast(job[r].msg) /\ job[r].msg \in Messages BY <1>5, <2>1, MessageTypes DEF SendNormalized
  <2>4. QED BY <1>3, <2>2, <2>3
<1>6. CASE Announce(r)
  <2> DEFINE m == [chan |-> "incidents.new", inc |-> job[r].inc, ctx |-> job[r].ctx]
  <2>1. job[r].at = "announce" /\ Continue(r) /\ Broadcast(m) BY <1>6 DEF Announce
  <2>2. job'[r].report = NoReport /\ job'[r].inc = 0 BY <1>1, <2>1, Continuing
  <2>3. Names(job[r].inc, job[r].ctx) BY <1>1, <2>1 DEF JobNames
  <2>4. job[r].inc \in Nat /\ job[r].ctx \in Contexts BY <1>1, JobOf
  <2>5. m \in Messages BY <2>4, MessageTypes
  <2>6. was \/ news = m BY <1>3, <2>1, <2>5
  <2>7. QED BY <2>1, <2>2, <2>3, <2>6
<1>7. CASE SendEnriched(r)
  <2> DEFINE m == [chan |-> "incidents.enriched", inc |-> job[r].inc, ctx |-> job[r].ctx]
  <2>1. job[r].at = "send_enriched" /\ Finish(r) /\ Broadcast(m) BY <1>7 DEF SendEnriched
  <2>2. job'[r].report = NoReport /\ job'[r].inc = 0 BY <1>1, <2>1, Finishing DEF Idle
  <2>3. Names(job[r].inc, job[r].ctx) BY <1>1, <2>1 DEF JobNames
  <2>4. job[r].inc \in Nat /\ job[r].ctx \in Contexts BY <1>1, JobOf
  <2>5. m \in Messages BY <2>4, MessageTypes
  <2>6. was \/ news = m BY <1>3, <2>1, <2>5
  <2>7. QED BY <2>1, <2>2, <2>3, <2>6
<1>8. CASE Crash(r)
  <2>1. q # r => inbox'[q] = inbox[q] BY <1>1, <1>8 DEF Crash, TypeOK
  <2>2. q = r => inbox'[q] = <<>> BY <1>1, <1>8 DEF Crash, TypeOK
  <2>3. QED BY <2>1, <2>2
<1>9. CASE StoreEvent(r) \/ CountFailure(r) \/ CheckSuccess(r) \/ SoundAlarm(r) \/ IgnoreEvent(r) \/ Drop(r)
  BY <1>2, <1>9 DEF StoreEvent, CountFailure, CheckSuccess, SoundAlarm, IgnoreEvent, Drop
<1>10. CASE ReportDomain(r) \/ ReportPackages(r) \/ LookUpAddress(r) \/ Classify(r)
  BY <1>2, <1>10 DEF ReportDomain, ReportPackages, LookUpAddress, Classify
<1>11. CASE CheckTravel(r) \/ SetLast(r) \/ LookUp(r) \/ Fold(r) \/ Open(r) \/ Remember(r)
  BY <1>4, <1>11 DEF CheckTravel, SetLast, LookUp, Fold, Open, Remember
<1>12. CASE CheckIndicator(r) \/ PutIndicator(r) \/ LoadIncident(r) \/ Enrich(r)
  BY <1>4, <1>12 DEF CheckIndicator, PutIndicator, LoadIncident, Enrich
<1>13. CASE SendClassified(r) \/ Raise(r) \/ Restart(r)
  BY <1>4, <1>13 DEF SendClassified, Raise, Restart
<1>14. QED
  BY <1>5, <1>6, <1>7, <1>8, <1>9, <1>10, <1>11, <1>12, <1>13
  DEF ReplicaStep, LoopStep, IntegrationStep, DetectionStep, ThreatIntelStep, OrchestratorStep

\* What users and connectors post is not about an incident yet.
LEMMA PostsNameNone ==
  ASSUME CorrelationInv, Outside, NEW q \in Replicas, NEW n \in DOMAIN inbox'[q], Refers(inbox'[q][n])
  PROVE  \E k \in DOMAIN inbox[q] : inbox'[q][n] = inbox[q][k]
<1>1. TypeOK BY DEF CorrelationInv
<1>2. ASSUME NEW m \in Messages, Broadcast(m), ~Refers(m)
      PROVE  \E k \in DOMAIN inbox[q] : inbox'[q][n] = inbox[q][k]
  BY <1>1, <1>2, Sending
<1>3. ASSUME NEW e \in RawEvents, PostEvent(e)
      PROVE  \E k \in DOMAIN inbox[q] : inbox'[q][n] = inbox[q][k]
  <2> DEFINE m == [chan |-> "events.raw", event |-> e]
  <2>1. m \in Messages /\ ~Refers(m) BY MessageTypes DEF Refers
  <2>2. QED BY <1>2, <1>3, <2>1 DEF PostEvent
<1>4. ASSUME NEW s \in Scans, PostScan(s)
      PROVE  \E k \in DOMAIN inbox[q] : inbox'[q][n] = inbox[q][k]
  <2>1. PICK chan \in ScanChannels : Broadcast([chan |-> chan, scan |-> s]) BY <1>4 DEF PostScan
  <2>2. [chan |-> chan, scan |-> s] \in Messages BY MessageTypes
  <2>3. ~Refers([chan |-> chan, scan |-> s]) BY DEF Refers, ScanChannels
  <2>4. QED BY <1>2, <2>1, <2>2, <2>3
<1>5. QED BY <1>3, <1>4 DEF Outside, Expire, Forget

LEMMA MessagesStep ==
  ASSUME CorrelationInv, Kept, NEW q \in Replicas, NEW n \in DOMAIN inbox'[q], Refers(inbox'[q][n]),
         \/ \E k \in DOMAIN inbox[q] : inbox'[q][n] = inbox[q][k]
         \/ Names(inbox'[q][n].inc, inbox'[q][n].ctx)
  PROVE  Names(inbox[q][n].inc, inbox[q][n].ctx)'
<1>1. Names(inbox'[q][n].inc, inbox'[q][n].ctx)
  <2>1. CASE \E k \in DOMAIN inbox[q] : inbox'[q][n] = inbox[q][k]
    BY <2>1 DEF CorrelationInv, MessagesName
  <2>2. QED BY <2>1
<1>2. QED BY <1>1, NamesStay DEF Names

\* What is remembered is right: an incident is remembered by what opened it.
LEMMA CacheStep ==
  ASSUME CorrelationInv, NEW r \in Replicas, ReplicaStep(r)
  PROVE  CacheNames'
<1> DEFINE Id(i) == <<incidents[i].tenant, incidents[i].ctx.key, incidents[i].ctx.ip>>
           Right(q, k) == cache[q][k] # 0 => cache[q][k] \in DOMAIN incidents /\ k = Id(cache[q][k])
<1>1. TypeOK /\ Kept BY EveryEffect DEF CorrelationInv, Effect
<1>2. \A q \in Replicas : \A k \in DOMAIN cache[q] : Right(q, k) BY DEF CorrelationInv, CacheNames
<1>3. ASSUME NEW q \in Replicas, NEW k \in DOMAIN cache[q], cache'[q][k] = cache[q][k]
      PROVE  Right(q, k)'
  BY <1>1, <1>2, <1>3 DEF Kept
<1>4. CASE UNCHANGED cache BY <1>3, <1>4 DEF CacheNames
<1>5. CASE Remember(r)
  <2>1. JobNames(r) /\ job[r].at = "remember" BY <1>5 DEF CorrelationInv, Remember
  <2>2. OwnCase(r) BY <2>1 DEF JobNames
  <2>3. incidents' = incidents /\ cache' = [cache EXCEPT ![r][DedupKey(r)] = job[r].inc]
    BY <1>5 DEF Remember
  <2>4. job[r].inc \in DOMAIN incidents /\ DedupKey(r) = Id(job[r].inc)
    BY <2>2 DEF OwnCase, Names, DedupKey
  <2>5. \A q \in Replicas : DOMAIN cache'[q] = DOMAIN cache[q] BY <1>1, <2>3 DEF TypeOK
  <2>6. ASSUME NEW q \in Replicas, NEW k \in DOMAIN cache[q] PROVE Right(q, k)'
    <3>1. cache'[q][k] = cache[q][k] \/ (cache'[q][k] = job[r].inc /\ k = DedupKey(r))
      BY <1>1, <2>3 DEF TypeOK
    <3>2. CASE cache'[q][k] = job[r].inc /\ k = DedupKey(r) BY <2>3, <2>4, <3>2
    <3>3. QED BY <1>3, <3>1, <3>2
  <2>7. QED BY <2>5, <2>6 DEF CacheNames
<1>6. CASE Crash(r)
  <2>1. cache' = [cache EXCEPT ![r] = EmptyCache] BY <1>6 DEF Crash
  <2>2. \A q \in Replicas : DOMAIN cache'[q] = DOMAIN cache[q] BY <1>1, <2>1 DEF EmptyCache, TypeOK
  <2>3. ASSUME NEW q \in Replicas, NEW k \in DOMAIN cache[q] PROVE Right(q, k)'
    <3>1. cache'[q][k] = cache[q][k] \/ cache'[q][k] = 0 BY <1>1, <2>1 DEF EmptyCache, TypeOK
    <3>2. QED BY <1>3, <3>1
  <2>4. QED BY <2>2, <2>3 DEF CacheNames
<1>7. Remember(r) \/ Crash(r) \/ UNCHANGED cache
  BY DEF ReplicaStep, LoopStep, IntegrationStep, DetectionStep, ThreatIntelStep, OrchestratorStep,
         StoreEvent, SendNormalized, CountFailure, CheckSuccess, SoundAlarm, IgnoreEvent, Drop, CheckTravel,
         SetLast, LookUp, Fold, Open, Announce, ReportDomain, ReportPackages, FileReport,
         LookUpAddress, CheckIndicator, PutIndicator, LoadIncident, Enrich, SendEnriched,
         Classify, SendClassified, Raise, Restart
<1>8. QED BY <1>4, <1>5, <1>6, <1>7

\* The rows change at five places.
LEMMA RowsChange ==
  ASSUME NEW r \in Replicas, ReplicaStep(r)
  PROVE  \/ UNCHANGED incidents
         \/ Fold(r) \/ Open(r) \/ ReportDomain(r) \/ ReportPackages(r) \/ Enrich(r) \/ Classify(r)
BY DEF ReplicaStep, LoopStep, IntegrationStep, DetectionStep, ThreatIntelStep, OrchestratorStep,
       StoreEvent, SendNormalized, CountFailure, CheckSuccess, SoundAlarm, IgnoreEvent, Drop, CheckTravel,
       SetLast, LookUp, Remember, Announce, LookUpAddress, CheckIndicator, PutIndicator,
       LoadIncident, SendEnriched, SendClassified, Raise, Crash, Restart

LEMMA RowsStep ==
  ASSUME CorrelationInv, NEW r \in Replicas, ReplicaStep(r)
  PROVE  RowsConfirmed'
<1> USE DEF RowsConfirmed
<1>1. RowsConfirmed /\ JobNames(r) /\ TypeOK BY DEF CorrelationInv
<1>2. CASE UNCHANGED incidents BY <1>1, <1>2
<1>3. CASE Fold(r)
  <2>1. ~job[r].ctx.malicious BY <1>1, <1>3 DEF JobNames, Detects, Fold
  <2>2. QED BY <1>1, <1>3, <2>1, FoldEffect
<1>4. CASE Open(r)
  <2>1. ~job[r].ctx.malicious BY <1>1, <1>4 DEF JobNames, Detects, Open
  <2>2. QED BY <1>1, <1>4, <2>1, OpenEffect
<1>5. CASE ReportDomain(r) \/ ReportPackages(r)
  <2> DEFINE i == job'[r].inc
  <2>1. ~NoContext.malicious BY DEF NoContext
  <2>2. /\ DOMAIN incidents' = DOMAIN incidents \union {i} /\ incidents'[i].ctx = NoContext
        /\ \A k \in DOMAIN incidents : incidents'[k] = incidents[k]
    BY <1>5, ScanStep
  <2> HIDE DEF i
  <2>3. QED BY <1>1, <2>1, <2>2
<1>6. CASE Enrich(r)
  <2>1. Names(job[r].inc, job[r].ctx) BY <1>1, <1>6 DEF JobNames, Enrich
  <2>2. QED BY <1>1, <1>6, <2>1, EnrichEffect DEF Names
<1>7. CASE Classify(r) BY <1>1, <1>7, ClassifyEffect
<1>8. QED BY <1>2, <1>3, <1>4, <1>5, <1>6, <1>7, RowsChange

LEMMA OutboxStep ==
  ASSUME CorrelationInv, NEW r \in Replicas, ReplicaStep(r)
  PROVE  OutboxNames' /\ BlockIsConfirmed'
<1>1. TypeOK /\ OutboxNames /\ BlockIsConfirmed /\ Kept BY EveryEffect DEF CorrelationInv, Effect
<1>2. CASE UNCHANGED outbox BY <1>1, <1>2 DEF OutboxNames, BlockIsConfirmed, Kept
<1>3. CASE SendClassified(r)
  <2>1. incidents' = incidents BY <1>3 DEF SendClassified
  <2>2. QED BY <1>1, <1>3, <2>1, SendClassifiedEffect DEF OutboxNames, BlockIsConfirmed
<1>4. SendClassified(r) \/ UNCHANGED outbox
  BY DEF ReplicaStep, LoopStep, IntegrationStep, DetectionStep, ThreatIntelStep, OrchestratorStep,
         StoreEvent, SendNormalized, CountFailure, CheckSuccess, SoundAlarm, IgnoreEvent, Drop, CheckTravel,
         SetLast, LookUp, Fold, Open, Remember, Announce, ReportDomain, ReportPackages, FileReport,
         LookUpAddress, CheckIndicator, PutIndicator, LoadIncident, Enrich, SendEnriched,
         Classify, Raise, Crash, Restart
<1>5. QED BY <1>2, <1>3, <1>4

-----------------------------------------------------------------------------
\* Nobody but the handler of a scan comes near its incident.

\* What a step leaves alone: the incident i, which it is not about.
Leaves(r, i) == /\ job'[r].inc # i
                /\ incidents'[i].severity = incidents[i].severity
                /\ incidents'[i].status = incidents[i].status

\* Where a handler begins or ends, it has no case and no report.
LEMMA Emptied ==
  ASSUME TypeOK, NEW r \in Replicas,
         Finish(r) \/ Continue(r) \/ (\E m, at, c, after : Begin(r, m, at, c, after))
  PROVE  job'[r].inc = 0 /\ job'[r].report = NoReport
<1>t. job \in [Replicas -> Jobs] BY DEF TypeOK
<1>1. CASE Finish(r) BY <1>t, <1>1 DEF Finish, Idle
<1>2. CASE Continue(r)
  <2> DEFINE j == [Idle EXCEPT !.at = job[r].after, !.msg = job[r].msg, !.country = job[r].country]
  <2>1. j.inc = 0 /\ j.report = NoReport BY DEF Idle
  <2>2. Finish(r) \/ job' = [job EXCEPT ![r] = j] BY <1>2 DEF Continue
  <2> HIDE DEF j
  <2>3. QED BY <1>t, <1>1, <2>1, <2>2
<1>3. ASSUME NEW m, NEW at, NEW c, NEW after, Begin(r, m, at, c, after)
      PROVE  job'[r].inc = 0 /\ job'[r].report = NoReport
  <2> DEFINE j == [Idle EXCEPT !.at = at, !.msg = m, !.ctx = c, !.after = after]
  <2>1. j.inc = 0 /\ j.report = NoReport BY DEF Idle
  <2>2. job' = [job EXCEPT ![r] = j] BY <1>3 DEF Begin
  <2> HIDE DEF j
  <2>3. QED BY <1>t, <2>1, <2>2
<1>4. QED BY <1>1, <1>2, <1>3

\* Where it goes on, it has the same.
LEMMA GoesOn ==
  ASSUME TypeOK, NEW r \in Replicas, NEW at, Goto(r, at)
  PROVE  job'[r].inc = job[r].inc /\ job'[r].report = job[r].report
<1>1. job[r] \in Jobs BY JobOf
<1>2. QED BY <1>1 DEF Goto, Jobs, TypeOK

\* A loop outside "announce" carries no report.
LEMMA CarriesNone ==
  ASSUME CorrelationInv, NEW r \in Replicas, job[r].at # "announce"
  PROVE  job[r].report = NoReport
BY DEF CorrelationInv, Unannounced

LEMMA TravelCase ==
  ASSUME CorrelationInv, NEW r \in Replicas, CheckTravel(r)
  PROVE  job'[r].inc \in {0, job[r].inc} /\ job'[r].report = NoReport
<1>1. TypeOK /\ job[r].report = NoReport /\ job[r] \in Jobs
  BY CarriesNone, JobOf DEF CorrelationInv, CheckTravel
<1>2. PICK country \in Located(Ev(r)) :
        \/ Finish(r)
        \/ job' = [job EXCEPT ![r] =
                     [Idle EXCEPT !.at = "lookup", !.msg = job[r].msg, !.after = "set_last",
                                  !.ctx = Context("impossible_travel", Ev(r).ip, 0),
                                  !.country = country]]
        \/ job' = [job EXCEPT ![r].at = "set_last", ![r].country = country]
  BY DEF CheckTravel
<1>3. CASE Finish(r) BY <1>1, <1>3, Emptied
<1>4. CASE job' = [job EXCEPT ![r] =
                     [Idle EXCEPT !.at = "lookup", !.msg = job[r].msg, !.after = "set_last",
                                  !.ctx = Context("impossible_travel", Ev(r).ip, 0),
                                  !.country = country]]
  BY <1>1, <1>4 DEF Idle, TypeOK
<1>5. CASE job' = [job EXCEPT ![r].at = "set_last", ![r].country = country]
  BY <1>1, <1>5 DEF Jobs, TypeOK
<1>6. QED BY <1>2, <1>3, <1>4, <1>5

LEMMA LookUpGoes ==
  ASSUME CorrelationInv, NEW r \in Replicas, LookUp(r)
  PROVE  job'[r].at = "commit" /\ job'[r].report = NoReport
<1>1. TypeOK /\ job[r].report = NoReport /\ job[r] \in Jobs
  BY CarriesNone, JobOf DEF CorrelationInv, LookUp, At
<1>2. Goto(r, "commit") \/ \E i, E : job' = [job EXCEPT ![r].at = "commit", ![r].inc = i, ![r].seen = E]
  BY DEF LookUp
<1>3. CASE Goto(r, "commit") BY <1>1, <1>3 DEF Goto, Jobs, TypeOK
<1>4. ASSUME NEW i, NEW E, job' = [job EXCEPT ![r].at = "commit", ![r].inc = i, ![r].seen = E]
      PROVE  job'[r].at = "commit" /\ job'[r].report = NoReport
  <2>1. job'[r] = [job[r] EXCEPT !.at = "commit", !.inc = i, !.seen = E] BY <1>1, <1>4 DEF TypeOK
  <2>2. QED BY <1>1, <2>1 DEF Jobs
<1>5. QED BY <1>2, <1>3, <1>4

\* A detection is looked up among the incidents with its technique; a scan's
\* incident has none.
LEMMA LookUpCase ==
  ASSUME CorrelationInv, NEW r \in Replicas, LookUp(r),
         NEW i \in DOMAIN incidents, incidents[i].ctx.key = "none", job[r].inc # i
  PROVE  Leaves(r, i)
<1>1. i # 0 BY RowOf DEF CorrelationInv
<1>2. job'[r].at = "commit" /\ job'[r].report = NoReport BY LookUpGoes
<1>3. JobNames(r)' BY LookUpEffect DEF Effect
<1>4. incidents' = incidents BY DEF LookUp
<1>5. job'[r].inc # 0 => incidents[job'[r].inc].ctx.key \in Keys
  BY <1>2, <1>3, <1>4 DEF JobNames, Detects, OwnCase, Names
<1>6. job'[r].inc # i BY <1>1, <1>5 DEF Keys
<1>7. QED BY <1>2, <1>4, <1>6 DEF Leaves

LEMMA ActorLeaves ==
  ASSUME CorrelationInv, NEW r \in Replicas, ReplicaStep(r),
         NEW i \in DOMAIN incidents, incidents[i].ctx.key = "none", job[r].inc # i,
         \A n \in DOMAIN inbox[r] : Refers(inbox[r][n]) => inbox[r][n].inc # i
  PROVE  Leaves(r, i)
<1>1. TypeOK /\ JobNames(r) /\ job[r] \in Jobs /\ i # 0 BY JobOf, RowOf DEF CorrelationInv
<1>2. ASSUME UNCHANGED incidents, job'[r].inc \in {0, job[r].inc} PROVE Leaves(r, i)
  BY <1>1, <1>2 DEF Leaves
<1>3. CASE StoreEvent(r) \/ CountFailure(r) \/ CheckSuccess(r) \/ SoundAlarm(r) \/ IgnoreEvent(r) \/ Drop(r)
  <2>1. (\E m, at, c, after : Begin(r, m, at, c, after)) \/ UNCHANGED job
    BY <1>3 DEF StoreEvent, CountFailure, CheckSuccess, SoundAlarm, IgnoreEvent, Drop
  <2>2. UNCHANGED incidents
    BY <1>3 DEF StoreEvent, CountFailure, CheckSuccess, SoundAlarm, IgnoreEvent, Drop, tables
  <2>3. QED BY <1>1, <1>2, <2>1, <2>2, Emptied
<1>4. CASE SendNormalized(r) \/ SetLast(r) \/ SendEnriched(r) \/ SendClassified(r) \/ Raise(r) \/ Crash(r)
  <2>1. Finish(r) /\ UNCHANGED incidents
    BY <1>4 DEF SendNormalized, SetLast, SendEnriched, SendClassified, Raise, Crash, tables
  <2>2. QED BY <1>1, <1>2, <2>1, Emptied
<1>5. CASE CheckTravel(r) BY <1>2, <1>5, TravelCase DEF CheckTravel, tables
<1>6. CASE LookUp(r) BY <1>6, LookUpCase
<1>7. CASE Fold(r)
  <2>1. job'[r].inc = 0 BY <1>1, <1>7, Emptied DEF Fold
  <2>2. incidents'[i] = incidents[i] BY <1>7, FoldEffect
  <2>3. QED BY <1>1, <2>1, <2>2 DEF Leaves
<1>8. CASE Open(r)
  <2>1. job'[r].inc = Len(incidents') BY <1>1, <1>8 DEF Open, Jobs, TypeOK
  <2>2. Len(incidents') \notin DOMAIN incidents /\ incidents'[i] = incidents[i] BY <1>8, OpenEffect
  <2>3. QED BY <2>1, <2>2 DEF Leaves
<1>9. CASE ReportDomain(r) \/ ReportPackages(r)
  <2>1. job'[r].inc \notin DOMAIN incidents /\ incidents'[i] = incidents[i] BY <1>9, ScanStep
  <2>2. QED BY <2>1 DEF Leaves
<1>10. CASE LookUpAddress(r)
  <2> DEFINE m == Head(inbox[r])
  <2>1. Take(r, {"incidents.new"}) BY <1>10 DEF LookUpAddress
  <2>2. 1 \in DOMAIN inbox[r] /\ m = inbox[r][1] /\ Refers(m) BY <1>1, <2>1, Taking DEF Refers
  <2>3. job'[r].inc = m.inc BY <1>1, <1>10 DEF LookUpAddress, Idle, TypeOK
  <2>4. UNCHANGED incidents BY <1>10 DEF LookUpAddress, tables
  <2>5. QED BY <2>2, <2>3, <2>4 DEF Leaves
<1>11. CASE Classify(r)
  <2> DEFINE m == Head(inbox[r])
  <2>1. Take(r, {"incidents.enriched"}) BY <1>11 DEF Classify
  <2>2. 1 \in DOMAIN inbox[r] /\ m = inbox[r][1] /\ Refers(m) BY <1>1, <2>1, Taking DEF Refers
  <2>3. job'[r].inc = m.inc /\ \A k \in DOMAIN incidents \ {m.inc} : incidents'[k] = incidents[k]
    BY <1>11, ClassifyEffect
  <2>4. QED BY <2>2, <2>3 DEF Leaves
<1>12. CASE Enrich(r)
  <2>1. job'[r].inc = job[r].inc BY <1>1, <1>12, GoesOn DEF Enrich
  <2>2. incidents'[i] = incidents[i] BY <1>12, EnrichEffect
  <2>3. QED BY <2>1, <2>2 DEF Leaves
<1>13. CASE Remember(r) \/ CheckIndicator(r) \/ PutIndicator(r)
  <2>1. (\E at : Goto(r, at)) \/ Finish(r)
    BY <1>13 DEF Remember, CheckIndicator, PutIndicator
  <2>2. UNCHANGED incidents BY <1>13 DEF Remember, CheckIndicator, PutIndicator, tables
  <2>3. QED BY <1>1, <1>2, <2>1, <2>2, Emptied, GoesOn
<1>14. CASE LoadIncident(r)
  <2>1. job'[r].inc = job[r].inc BY <1>1, <1>14 DEF LoadIncident, Jobs, TypeOK
  <2>2. QED BY <1>2, <1>14, <2>1 DEF LoadIncident, tables
<1>15. CASE Announce(r)
  <2>1. Continue(r) /\ UNCHANGED incidents BY <1>15 DEF Announce, tables
  <2>2. QED BY <1>1, <1>2, <2>1, Emptied
<1>16. CASE Restart(r) BY <1>1, <1>2, <1>16 DEF Restart, tables
<1>17. QED
  BY <1>3, <1>4, <1>5, <1>6, <1>7, <1>8, <1>9, <1>10, <1>11, <1>12, <1>13, <1>14, <1>15, <1>16
  DEF ReplicaStep, LoopStep, IntegrationStep, DetectionStep, ThreatIntelStep, OrchestratorStep

\* Only a scan makes a report; a restart finds what there was.
LEMMA ReportOfActor ==
  ASSUME CorrelationInv, NEW r \in Replicas, ReplicaStep(r)
  PROVE  \/ job'[r].report = NoReport \/ ReportDomain(r) \/ ReportPackages(r) \/ Restart(r)
<1>1. TypeOK /\ job[r] \in Jobs BY JobOf DEF CorrelationInv
<1>2. CASE StoreEvent(r) \/ CountFailure(r) \/ CheckSuccess(r) \/ SoundAlarm(r) \/ IgnoreEvent(r) \/ Drop(r)
  <2>1. (\E m, at, c, after : Begin(r, m, at, c, after)) \/ UNCHANGED job
    BY <1>2 DEF StoreEvent, CountFailure, CheckSuccess, SoundAlarm, IgnoreEvent, Drop
  <2>2. job[r].at = "idle"
    BY <1>2 DEF StoreEvent, CountFailure, CheckSuccess, SoundAlarm, IgnoreEvent, Drop, Take, At
  <2>3. QED BY <1>1, <2>1, <2>2, Emptied, CarriesNone
<1>3. CASE \/ SendNormalized(r) \/ SetLast(r) \/ SendEnriched(r) \/ SendClassified(r)
           \/ Raise(r) \/ Crash(r) \/ Fold(r) \/ Announce(r)
  <2>1. Finish(r) \/ Continue(r)
    BY <1>3 DEF SendNormalized, SetLast, SendEnriched, SendClassified, Raise, Crash, Fold, Announce
  <2>2. QED BY <1>1, <2>1, Emptied
<1>4. CASE CheckTravel(r) BY <1>4, TravelCase
<1>5. CASE LookUp(r) BY <1>5, LookUpGoes
<1>6. CASE Open(r)
  <2>1. job[r].report = NoReport BY <1>6, CarriesNone DEF Open, At
  <2>2. QED BY <1>1, <1>6, <2>1 DEF Open, Jobs, TypeOK
<1>7. CASE Remember(r) \/ CheckIndicator(r) \/ PutIndicator(r) \/ Enrich(r)
  <2>1. (\E at : Goto(r, at)) \/ Finish(r)
    BY <1>7 DEF Remember, CheckIndicator, PutIndicator, Enrich
  <2>2. job[r].report = NoReport
    BY <1>7, CarriesNone DEF Remember, CheckIndicator, PutIndicator, Enrich, At
  <2>3. QED BY <1>1, <2>1, <2>2, Emptied, GoesOn
<1>8. CASE LoadIncident(r)
  <2>1. job[r].report = NoReport BY <1>8, CarriesNone DEF LoadIncident, At
  <2>2. QED BY <1>1, <1>8, <2>1 DEF LoadIncident, Jobs, TypeOK
<1>9. CASE LookUpAddress(r)
  <2>1. job \in [Replicas -> Jobs] BY <1>1 DEF TypeOK
  <2>2. QED BY <1>9, <2>1 DEF LookUpAddress, Idle
<1>10. CASE Classify(r) BY <1>10, ClassifyEffect
<1>11. QED
  BY <1>2, <1>3, <1>4, <1>5, <1>6, <1>7, <1>8, <1>9, <1>10
  DEF ReplicaStep, LoopStep, IntegrationStep, DetectionStep, ThreatIntelStep, OrchestratorStep

-----------------------------------------------------------------------------
\* What is true of a report that its handler has still to announce.
Held(q) ==
  /\ At(q, "announce") /\ job[q].ctx = NoContext
  /\ \A p \in Replicas \ {q} : job[p].inc # job[q].inc
  /\ \A p \in Replicas : \A n \in DOMAIN inbox[p] :
       Refers(inbox[p][n]) => inbox[p][n].inc # job[q].inc

ReportHolds(q) == Tells(job[q].report, incidents[job[q].inc]) /\ Held(q)

LEMMA ReportFacts ==
  ASSUME CorrelationInv, NEW q \in Replicas, job[q].report # NoReport
  PROVE  /\ ReportHolds(q)
         /\ job[q].inc \in DOMAIN incidents /\ incidents[job[q].inc].ctx.key = "none"
<1>1. ReportHolds(q) BY DEF CorrelationInv, ReportTellsScan, Unannounced, ReportHolds, Held
<1>2. Names(job[q].inc, job[q].ctx) BY <1>1 DEF CorrelationInv, JobNames, ReportHolds, Held, At
<1>3. QED BY <1>1, <1>2 DEF Names, NoContext, ReportHolds, Held

\* A report is about the severity and the status of its row, and no more.
LEMMA TellsStays ==
  ASSUME NEW rep, NEW old, NEW new, Tells(rep, old),
         new.severity = old.severity, new.status = old.status
  PROVE  Tells(rep, new)
BY DEF Tells, TellsPackages, TellsDomain

\* The report of another loop, or of one that restarts.
LEMMA OthersReport ==
  ASSUME CorrelationInv, NEW r \in Replicas, ReplicaStep(r), NEW q \in Replicas,
         q # r \/ Restart(r), job'[q].report # NoReport
  PROVE  ReportHolds(q)'
<1> DEFINE i == job[q].inc
<1>1. \A p \in Replicas \ {r} : job'[p] = job[p] BY EveryEffect DEF Effect
<1>2. job'[q] = job[q] BY <1>1 DEF Restart
<1>3. /\ ReportHolds(q) /\ i \in DOMAIN incidents /\ incidents[i].ctx.key = "none"
  BY <1>2, ReportFacts
<1>4. CASE Restart(r)
  <2>1. UNCHANGED <<job, incidents, inbox>> BY <1>4 DEF Restart, tables
  <2>2. QED BY <1>3, <2>1 DEF ReportHolds, Held, At
<1>5. CASE q # r
  <2>1. job[r].inc # i /\ \A n \in DOMAIN inbox[r] : Refers(inbox[r][n]) => inbox[r][n].inc # i
    BY <1>3, <1>5 DEF ReportHolds, Held
  <2>2. Leaves(r, i) BY <1>3, <2>1, ActorLeaves
  <2>3. Tells(job[q].report, incidents'[i]) BY <1>3, <2>2, TellsStays DEF Leaves, ReportHolds
  <2>4. \A p \in Replicas \ {q} : job'[p].inc # i
    BY <1>1, <1>3, <2>2 DEF Leaves, ReportHolds, Held
  <2>5. ASSUME NEW p \in Replicas, NEW n \in DOMAIN inbox'[p], Refers(inbox'[p][n])
        PROVE  inbox'[p][n].inc # i
    <3>1. (\E k \in DOMAIN inbox[p] : inbox'[p][n] = inbox[p][k]) \/ inbox'[p][n].inc = job[r].inc
      BY <2>5, NewsNames
    <3>2. QED BY <1>3, <2>1, <2>5, <3>1 DEF ReportHolds, Held
  <2>6. QED BY <1>2, <1>3, <2>3, <2>4, <2>5 DEF ReportHolds, Held, At, Refers
<1>6. QED BY <1>4, <1>5

\* The report of a scan that was just filed.
LEMMA NewReport ==
  ASSUME CorrelationInv, NEW r \in Replicas, ReportDomain(r) \/ ReportPackages(r),
         job'[r].report # NoReport
  PROVE  ReportHolds(r)'
<1> DEFINE i == job'[r].inc
<1>0. ReplicaStep(r) BY DEF ReplicaStep, LoopStep
<1>1. /\ Effect(r) /\ Tells(job'[r].report, incidents'[i])
      /\ job'[r].at = "announce" /\ job'[r].ctx = NoContext
      /\ i \notin DOMAIN incidents /\ i # 0
  BY ScanStep
<1> HIDE DEF i
<1>2. ASSUME NEW p \in Replicas \ {r} PROVE job'[p].inc # i
  <2>1. job'[p] = job[p] /\ JobNames(p) BY <1>1 DEF Effect, CorrelationInv
  <2>2. QED BY <1>1, <2>1 DEF JobNames
<1>3. ASSUME NEW p \in Replicas, NEW n \in DOMAIN inbox'[p], Refers(inbox'[p][n])
      PROVE  inbox'[p][n].inc # i
  <2>1. PICK k \in DOMAIN inbox[p] : inbox'[p][n] = inbox[p][k] BY <1>0, <1>3, NewsNames
  <2>2. Names(inbox[p][k].inc, inbox[p][k].ctx) BY <1>3, <2>1 DEF CorrelationInv, MessagesName
  <2>3. QED BY <1>1, <2>1, <2>2 DEF Names
<1>4. QED BY <1>1, <1>2, <1>3 DEF ReportHolds, Held, At, Refers, i

LEMMA ReportsStep ==
  ASSUME CorrelationInv, NEW r \in Replicas, ReplicaStep(r), NEW q \in Replicas,
         job'[q].report # NoReport
  PROVE  ReportHolds(q)'
BY OthersReport, NewReport, ReportOfActor

-----------------------------------------------------------------------------
\* The theorems.

LEMMA Starts == Init => CorrelationInv
<1> SUFFICES ASSUME Init PROVE CorrelationInv
  OBVIOUS
<1>1. TypeOK
  <2>1. Idle \in Jobs BY JobFields
  <2>2. EmptyCache \in [Tenants \X Keys \X (Addresses \union {NoIp}) -> Nat] BY DEF EmptyCache
  <2>3. /\ inbox \in [Replicas -> Seq(Messages)]
        /\ outbox \in Seq([inc : Nat, severity : Severities, action : KnownActions])
        /\ incidents \in Seq(Rows)
    BY DEF Init
  <2>4. QED BY <2>1, <2>2, <2>3 DEF Init, TypeOK
<1>2. MessagesName BY DEF Init, MessagesName
<1>3. CacheNames BY DEF Init, CacheNames, EmptyCache
<1>4. RowsConfirmed /\ OutboxNames /\ BlockIsConfirmed
  BY DEF Init, RowsConfirmed, OutboxNames, BlockIsConfirmed
<1>5. \A r \in Replicas : job[r] = Idle BY DEF Init
<1>6. ReportTellsScan /\ \A r \in Replicas : JobNames(r) /\ Unannounced(r)
  BY <1>5 DEF Idle, JobNames, ReportTellsScan, Unannounced, At
<1>7. QED BY <1>1, <1>2, <1>3, <1>4, <1>6 DEF CorrelationInv

\* A step of a replica.
LEMMA ReplicaKeeps ==
  ASSUME CorrelationInv, NEW r \in Replicas, ReplicaStep(r)
  PROVE  CorrelationInv'
<1>1. Effect(r) BY EveryEffect
<1>2. MessagesName'
  <2>1. ASSUME NEW q \in Replicas, NEW n \in DOMAIN inbox'[q], Refers(inbox'[q][n])
        PROVE  Names(inbox[q][n].inc, inbox[q][n].ctx)'
    BY <1>1, <2>1, NewsNames, MessagesStep DEF Effect
  <2>2. QED BY <2>1 DEF MessagesName, Refers
<1>3. \A q \in Replicas : JobNames(q)'
  BY <1>1, OthersStay DEF Effect, CorrelationInv
<1>4. ReportTellsScan' /\ \A q \in Replicas : Unannounced(q)'
  BY ReportsStep DEF ReportTellsScan, Unannounced, ReportHolds, Held
<1>5. CacheNames' /\ RowsConfirmed' /\ OutboxNames' /\ BlockIsConfirmed'
  BY CacheStep, RowsStep, OutboxStep
<1>6. QED BY <1>1, <1>2, <1>3, <1>4, <1>5 DEF CorrelationInv, Effect

\* A step of nobody, or of no one's loop.
LEMMA OutsideKeeps == ASSUME CorrelationInv, Outside PROVE CorrelationInv'
<1>1. TypeOK' /\ UNCHANGED <<incidents, indicators, cache, outbox, job>> BY OutsideEffect
<1>2. MessagesName'
  <2>1. ASSUME NEW q \in Replicas, NEW n \in DOMAIN inbox'[q], Refers(inbox'[q][n])
        PROVE  Names(inbox'[q][n].inc, inbox'[q][n].ctx)
    BY <2>1, PostsNameNone DEF CorrelationInv, MessagesName
  <2>2. QED BY <1>1, <2>1 DEF MessagesName, Refers, Names
<1>3. ASSUME NEW q \in Replicas PROVE JobNames(q)' /\ Unannounced(q)'
  <2>1. JobNames(q)'
    BY <1>1 DEF CorrelationInv, JobNames, Detects, OwnCase, Names, Ev, At
  <2>2. ASSUME job[q].report # NoReport
        PROVE  \A p \in Replicas : \A n \in DOMAIN inbox'[p] :
                 Refers(inbox'[p][n]) => inbox'[p][n].inc # job[q].inc
    BY <2>2, PostsNameNone DEF CorrelationInv, Unannounced
  <2>3. Unannounced(q)' BY <1>1, <2>2 DEF CorrelationInv, Unannounced, At, Refers
  <2>4. QED BY <2>1, <2>3
<1>4. CacheNames' /\ RowsConfirmed' /\ OutboxNames' /\ BlockIsConfirmed' /\ ReportTellsScan'
  BY <1>1 DEF CorrelationInv, CacheNames, RowsConfirmed, OutboxNames, BlockIsConfirmed, ReportTellsScan
<1>5. QED BY <1>1, <1>2, <1>3, <1>4 DEF CorrelationInv

LEMMA Steps == CorrelationInv /\ [Next]_vars => CorrelationInv'
<1> SUFFICES ASSUME CorrelationInv, [Next]_vars PROVE CorrelationInv'
  OBVIOUS
<1>1. CASE \E r \in Replicas : ReplicaStep(r) BY <1>1, ReplicaKeeps
<1>2. CASE Outside BY <1>2, OutsideKeeps
<1>3. CASE UNCHANGED vars
  <2>1. TypeOK' BY <1>3 DEF CorrelationInv, TypeOK, vars, tables
  <2>2. MessagesName' BY <1>3 DEF CorrelationInv, MessagesName, Names, Refers, vars, tables
  <2>3. CacheNames' /\ RowsConfirmed' /\ OutboxNames' /\ BlockIsConfirmed' /\ ReportTellsScan'
    BY <1>3 DEF CorrelationInv, CacheNames, RowsConfirmed, OutboxNames, BlockIsConfirmed,
                ReportTellsScan, vars, tables
  <2>4. \A q \in Replicas : JobNames(q)'
    BY <1>3 DEF CorrelationInv, JobNames, Detects, OwnCase, Names, Ev, At, vars, tables
  <2>5. \A q \in Replicas : Unannounced(q)'
    BY <1>3 DEF CorrelationInv, Unannounced, Refers, At, vars
  <2>6. QED BY <2>1, <2>2, <2>3, <2>4, <2>5 DEF CorrelationInv
<1>4. QED BY <1>1, <1>2, <1>3 DEF Next, Outside, ReplicaStep

\* Whatever is folded, enriched, raised, crashed or restarted between, everyone who
\* speaks of a case - the process that remembers it, a message about it, the handler on
\* its way to its row - speaks of its tenant, technique and address
\* (detection.py:194-247, threat_intel.py:27-67, orchestrator.py:25-60).
THEOREM CorrelationInvariant == Spec => []CorrelationInv
<1>1. Init => CorrelationInv BY Starts
<1>2. CorrelationInv /\ [Next]_vars => CorrelationInv' BY Steps
<1>3. QED BY <1>1, <1>2, PTL DEF Spec

\* A block is recommended only for an address that a feed calls malicious: the verdict
\* travels with the context that names the address, and a fold, which starts a
\* context of its own, drops it (threat_intel.py:27-40 with orchestrator.py:25-28).
THEOREM BlocksAreConfirmed == Spec => []BlockIsConfirmed
<1>1. CorrelationInv => BlockIsConfirmed BY DEF CorrelationInv
<1>2. QED BY <1>1, CorrelationInvariant, PTL

\* Until it is announced, the report of a scan tells what its sources said and its row
\* is the one it was filed under: no other handler reaches it
\* (exposure.py:37-111, vuln_scanner.py:120-147).
THEOREM ReportsTellScans == Spec => []ReportTellsScan
<1>1. CorrelationInv => ReportTellsScan BY DEF CorrelationInv
<1>2. QED BY <1>1, CorrelationInvariant, PTL

=============================================================================
