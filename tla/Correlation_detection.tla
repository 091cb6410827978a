------------------------ MODULE Correlation_detection ------------------------
(* Proofs about what Detection promises: a burst of failed logins is seen, and *)
(* on one replica a brute force is claimed on five failures only, no sign-in   *)
(* jumps unnoticed, and a campaign is one case that is answered once.  Any     *)
(* number of events, scans, tenants, addresses and users; crashes, failing     *)
(* awaits and expiry at any time where a theorem does not say otherwise.       *)
EXTENDS Correlation_proofs, FiniteSetTheorems

USE DEF At, tables, shared

\* The backend runs as one process: with more, each of them counts, looks up and
\* announces for itself, and the last three promises are broken.
OneReplica == \A r1, r2 \in Replicas : r1 = r2

-----------------------------------------------------------------------------
\* Where each step leaves the loop that takes it.

\* The loop's record is what the step wrote.
LEMMA Written ==
  ASSUME TypeOK, NEW r \in Replicas, NEW j, job' = [job EXCEPT ![r] = j]
  PROVE  job'[r] = j /\ \A q \in Replicas \ {r} : job'[q] = job[q]
BY DEF TypeOK

LEMMA Done ==
  ASSUME TypeOK, NEW r \in Replicas, Finish(r)
  PROVE  job'[r] = Idle /\ \A q \in Replicas \ {r} : job'[q] = job[q]
BY Written DEF Finish

LEMMA Went ==
  ASSUME TypeOK, NEW r \in Replicas, NEW at, Goto(r, at)
  PROVE  job'[r] = [job[r] EXCEPT !.at = at] /\ \A q \in Replicas \ {r} : job'[q] = job[q]
BY Written DEF Goto

\* The handler of message m has found something of its event.
Looks(r, m, key, after) ==
  /\ job'[r].at = "lookup" /\ job'[r].msg = m /\ job'[r].after = after
  /\ job'[r].ctx.key = key /\ job'[r].ctx.ip = EventIn(m).ip

LEMMA BeginsToLook ==
  ASSUME TypeOK, NEW r \in Replicas, NEW m, NEW key, NEW n, NEW after,
         Begin(r, m, "lookup", Context(key, EventIn(m).ip, n), after)
  PROVE  Looks(r, m, key, after)
<1> DEFINE c == Context(key, EventIn(m).ip, n)
           j == [Idle EXCEPT !.at = "lookup", !.msg = m, !.ctx = c, !.after = after]
<1>1. c.key = key /\ c.ip = EventIn(m).ip BY DEF Context, NoContext
<1> HIDE DEF c
<1>2. j.at = "lookup" /\ j.msg = m /\ j.ctx = c /\ j.after = after BY DEF Idle
<1>3. job' = [job EXCEPT ![r] = j] BY DEF Begin, c
<1> HIDE DEF j
<1>4. QED BY <1>1, <1>2, <1>3, Written DEF Looks

\* A step that only moves the handler on, of the same message, with the same context.
Same(r) == /\ job'[r].msg = job[r].msg /\ job'[r].ctx = job[r].ctx
           /\ job'[r].after = job[r].after /\ job'[r].country = job[r].country

LEMMA LookUpMoves ==
  ASSUME TypeOK, NEW r \in Replicas, LookUp(r)
  PROVE  /\ job[r].at = "lookup" /\ job'[r].at = "commit" /\ Same(r)
         /\ \A q \in Replicas \ {r} : job'[q] = job[q]
         /\ \/ /\ job'[r].inc = job[r].inc
               /\ cache[r][DedupKey(r)] = 0 /\ Candidates(Ev(r).tenant, job[r].ctx) = {}
            \/ job'[r].inc # 0 /\ job'[r].seen = incidents[job'[r].inc].events
<1> DEFINE known == cache[r][DedupKey(r)]
           found == IF known # 0 THEN {known} ELSE Candidates(Ev(r).tenant, job[r].ctx)
<1>1. job[r] \in Jobs BY JobOf
<1>2. CASE found = {}
  <2>1. Goto(r, "commit") BY <1>2 DEF LookUp
  <2>2. known = 0 /\ Candidates(Ev(r).tenant, job[r].ctx) = {} BY <1>2
  <2>3. job'[r] = [job[r] EXCEPT !.at = "commit"] /\ \A q \in Replicas \ {r} : job'[q] = job[q]
    BY <2>1, Went
  <2>4. QED BY <1>1, <2>2, <2>3 DEF Jobs, Same, LookUp
<1>3. CASE found # {}
  <2>1. PICK i \in found : job' = [job EXCEPT ![r].at = "commit", ![r].inc = i,
                                             ![r].seen = incidents[i].events]
    BY <1>3 DEF LookUp
  <2>0. i # 0 BY RowOf DEF Candidates
  <2> DEFINE j == [job[r] EXCEPT !.at = "commit", !.inc = i, !.seen = incidents[i].events]
  <2>2. job' = [job EXCEPT ![r] = j] BY <2>1 DEF TypeOK
  <2>3. /\ j.at = "commit" /\ j.msg = job[r].msg /\ j.ctx = job[r].ctx /\ j.inc = i
        /\ j.after = job[r].after /\ j.country = job[r].country /\ j.seen = incidents[i].events
    BY <1>1 DEF Jobs
  <2> HIDE DEF j
  <2>4. job'[r] = j /\ \A q \in Replicas \ {r} : job'[q] = job[q] BY <2>2, Written
  <2>5. QED BY <2>0, <2>3, <2>4 DEF Same, LookUp
<1>4. QED BY <1>2, <1>3

LEMMA OpenMoves ==
  ASSUME TypeOK, NEW r \in Replicas, Open(r)
  PROVE  /\ job[r].at = "commit" /\ job'[r].at = "remember" /\ Same(r)
         /\ job'[r].inc = Len(incidents') /\ \A q \in Replicas \ {r} : job'[q] = job[q]
<1> DEFINE i == Len(incidents')
           j == [job[r] EXCEPT !.at = "remember", !.inc = i]
<1>1. job[r] \in Jobs BY JobOf
<1>2. job' = [job EXCEPT ![r] = j] BY DEF Open, TypeOK
<1> HIDE DEF i
<1>3. /\ j.at = "remember" /\ j.msg = job[r].msg /\ j.ctx = job[r].ctx /\ j.inc = i
      /\ j.after = job[r].after /\ j.country = job[r].country
  BY <1>1 DEF Jobs
<1> HIDE DEF j
<1>4. job'[r] = j /\ \A q \in Replicas \ {r} : job'[q] = job[q] BY <1>2, Written
<1>5. QED BY <1>3, <1>4 DEF Same, Open, i

LEMMA RememberMoves ==
  ASSUME TypeOK, NEW r \in Replicas, Remember(r)
  PROVE  /\ job[r].at = "remember" /\ job'[r].at = "announce" /\ Same(r)
         /\ job'[r].inc = job[r].inc /\ \A q \in Replicas \ {r} : job'[q] = job[q]
<1>1. job[r] \in Jobs BY JobOf
<1>2. job'[r] = [job[r] EXCEPT !.at = "announce"] /\ \A q \in Replicas \ {r} : job'[q] = job[q]
  BY Went DEF Remember
<1>3. QED BY <1>1, <1>2 DEF Jobs, Same, Remember

\* After _open_incident the handler is over, or goes on with its message.
LEMMA ContinueMoves ==
  ASSUME TypeOK, NEW r \in Replicas, Continue(r)
  PROVE  /\ \A q \in Replicas \ {r} : job'[q] = job[q]
         /\ \/ job'[r] = Idle
            \/ /\ job[r].after # "idle" /\ job'[r].at = job[r].after /\ job'[r].after = "idle"
               /\ job'[r].msg = job[r].msg /\ job'[r].country = job[r].country
               /\ job'[r].inc = 0
<1>1. CASE job[r].after = "idle"
  <2>1. Finish(r) BY <1>1 DEF Continue
  <2>2. QED BY <2>1, Done
<1>2. CASE job[r].after # "idle"
  <2> DEFINE j == [Idle EXCEPT !.at = job[r].after, !.msg = job[r].msg, !.country = job[r].country]
  <2>1. /\ j.at = job[r].after /\ j.msg = job[r].msg /\ j.country = job[r].country
        /\ j.after = "idle" /\ j.inc = 0
    BY DEF Idle
  <2>2. job' = [job EXCEPT ![r] = j] BY <1>2 DEF Continue
  <2> HIDE DEF j
  <2>3. QED BY <1>2, <2>1, <2>2, Written
<1>3. QED BY <1>1, <1>2

\* The travel check ends the handler, finds a jump, or goes on to the baseline.
LEMMA TravelMoves ==
  ASSUME CorrelationInv, NEW r \in Replicas, CheckTravel(r)
  PROVE  /\ job[r].at = "travel" /\ \A q \in Replicas \ {r} : job'[q] = job[q]
         /\ \/ job'[r] = Idle
            \/ Looks(r, job[r].msg, "impossible_travel", "set_last")
            \/ /\ job'[r].at = "set_last" /\ job'[r].msg = job[r].msg
               /\ job'[r].after = job[r].after
               /\ ~Impossible(AccountOf(Ev(r)), job'[r].country)
<1>1. TypeOK /\ job[r].at = "travel" BY DEF CorrelationInv, CheckTravel
<1>2. PICK country \in Located(Ev(r)) :
        IF country = NoCountry THEN Finish(r)
        ELSE IF Impossible(AccountOf(Ev(r)), country)
        THEN job' = [job EXCEPT ![r] =
                      [Idle EXCEPT !.at = "lookup", !.msg = job[r].msg, !.after = "set_last",
                                   !.ctx = Context("impossible_travel", Ev(r).ip, 0),
                                   !.country = country]]
        ELSE job' = [job EXCEPT ![r].at = "set_last", ![r].country = country]
  BY DEF CheckTravel
<1>3. CASE Finish(r) BY <1>1, <1>3, Done
<1>4. CASE job' = [job EXCEPT ![r] =
                    [Idle EXCEPT !.at = "lookup", !.msg = job[r].msg, !.after = "set_last",
                                 !.ctx = Context("impossible_travel", Ev(r).ip, 0),
                                 !.country = country]]
  <2> DEFINE c == Context("impossible_travel", Ev(r).ip, 0)
             j == [Idle EXCEPT !.at = "lookup", !.msg = job[r].msg, !.after = "set_last",
                               !.ctx = c, !.country = country]
  <2>1. c.key = "impossible_travel" /\ c.ip = EventIn(job[r].msg).ip BY DEF Context, NoContext, Ev
  <2>2. job' = [job EXCEPT ![r] = j] BY <1>4
  <2> HIDE DEF c
  <2>3. j.at = "lookup" /\ j.msg = job[r].msg /\ j.ctx = c /\ j.after = "set_last" BY DEF Idle
  <2> HIDE DEF j
  <2>4. job'[r] = j /\ \A q \in Replicas \ {r} : job'[q] = job[q] BY <1>1, <2>2, Written
  <2>5. QED BY <1>1, <2>1, <2>3, <2>4 DEF Looks
<1>5. CASE job' = [job EXCEPT ![r].at = "set_last", ![r].country = country]
           /\ ~Impossible(AccountOf(Ev(r)), country)
  <2> DEFINE j == [job[r] EXCEPT !.at = "set_last", !.country = country]
  <2>1. job[r] \in Jobs BY <1>1, JobOf
  <2>2. /\ j.at = "set_last" /\ j.msg = job[r].msg /\ j.after = job[r].after
        /\ j.country = country
    BY <2>1 DEF Jobs
  <2>3. job' = [job EXCEPT ![r] = j] BY <1>1, <1>5 DEF TypeOK
  <2> HIDE DEF j
  <2>4. job'[r] = j /\ \A q \in Replicas \ {r} : job'[q] = job[q] BY <1>1, <2>3, Written
  <2>5. QED BY <1>1, <1>5, <2>2, <2>4
<1>6. QED BY <1>2, <1>3, <1>4, <1>5

\* What Detection makes of an event, by its type.
LEMMA CountMoves ==
  ASSUME CorrelationInv, NEW r \in Replicas, CountFailure(r)
  PROVE  LET m == Head(inbox[r])
             s == SourceOf(EventIn(m))
         IN  /\ m \in EventMessages /\ EventIn(m).type = "login_failed" /\ s \in Sources
             /\ failures' = [failures EXCEPT ![s] = failures[s] + 1]
             /\ \/ failures[s] + 1 >= 5 /\ Looks(r, m, "bruteforce_login", "idle")
                \/ failures[s] + 1 < 5 /\ job' = job
<1> DEFINE m == Head(inbox[r])
           s == SourceOf(EventIn(m))
<1>1. TypeOK /\ Take(r, {"events.normalized"}) BY DEF CorrelationInv, CountFailure
<1>2. m \in EventMessages BY <1>1, Taken
<1>3. s \in Sources /\ failures[s] \in Nat BY <1>1, <1>2, EventFields DEF TypeOK
<1>4. \/ /\ failures[s] + 1 >= 5
         /\ Begin(r, m, "lookup", Context("bruteforce_login", EventIn(m).ip, failures[s] + 1), "idle")
      \/ failures[s] + 1 < 5 /\ job' = job
  BY <1>3 DEF CountFailure, Reached, FAILED_LOGIN_THRESHOLD
<1>5. QED BY <1>1, <1>2, <1>3, <1>4, BeginsToLook DEF CountFailure

LEMMA SuccessMoves ==
  ASSUME CorrelationInv, NEW r \in Replicas, CheckSuccess(r)
  PROVE  LET m == Head(inbox[r])
             s == SourceOf(EventIn(m))
         IN  /\ m \in EventMessages /\ s \in Sources
             /\ \/ /\ failures[s] >= 5
                   /\ \E after \in {"idle", "travel"} : Looks(r, m, "bruteforce_login", after)
                \/ job'[r].at = "travel" /\ job'[r].after = "idle"
                \/ job' = job
<1> DEFINE m == Head(inbox[r])
           s == SourceOf(EventIn(m))
           next == IF EventIn(m).user = NoUser THEN "idle" ELSE "travel"
           c == Context("bruteforce_login", EventIn(m).ip, failures[s])
<1>1. TypeOK /\ Take(r, {"events.normalized"}) BY DEF CorrelationInv, CheckSuccess
<1>2. m \in EventMessages BY <1>1, Taken
<1>3. s \in Sources BY <1>1, <1>2, EventFields
<1>4. \/ failures[s] >= 5 /\ Begin(r, m, "lookup", c, next)
      \/ Begin(r, m, "travel", NoContext, "idle")
      \/ job' = job
  BY DEF CheckSuccess, Reached, FAILED_LOGIN_THRESHOLD
<1>5. CASE failures[s] >= 5 /\ Begin(r, m, "lookup", c, next)
  <2>1. next \in {"idle", "travel"} OBVIOUS
  <2> HIDE DEF next
  <2>2. Looks(r, m, "bruteforce_login", next) BY <1>1, <1>5, BeginsToLook
  <2>3. QED BY <1>2, <1>3, <1>5, <2>1, <2>2
<1>6. CASE Begin(r, m, "travel", NoContext, "idle")
  <2> DEFINE j == [Idle EXCEPT !.at = "travel", !.msg = m, !.ctx = NoContext, !.after = "idle"]
  <2>1. j.at = "travel" /\ j.after = "idle" BY DEF Idle
  <2>2. job' = [job EXCEPT ![r] = j] BY <1>6 DEF Begin
  <2> HIDE DEF j
  <2>3. QED BY <1>1, <1>2, <1>3, <2>1, <2>2, Written
<1>7. QED BY <1>2, <1>3, <1>4, <1>5, <1>6

LEMMA AlarmMoves ==
  ASSUME CorrelationInv, NEW r \in Replicas, SoundAlarm(r)
  PROVE  LET m == Head(inbox[r])
         IN  /\ m \in EventMessages
             /\ \E key \in {"privilege_escalation", "malware_signature"} : Looks(r, m, key, "idle")
<1> DEFINE m == Head(inbox[r])
           key == AlarmKey[EventIn(m).type]
<1>1. TypeOK /\ Take(r, {"events.normalized"}) BY DEF CorrelationInv, SoundAlarm
<1>2. m \in EventMessages BY <1>1, Taken
<1>3. key \in {"privilege_escalation", "malware_signature"} BY DEF SoundAlarm, AlarmKey
<1>4. Begin(r, m, "lookup", Context(key, EventIn(m).ip, 0), "idle") BY DEF SoundAlarm
<1> HIDE DEF key
<1>5. Looks(r, m, key, "idle") BY <1>1, <1>4, BeginsToLook
<1>6. QED BY <1>2, <1>3, <1>5

-----------------------------------------------------------------------------
\* Where a handler of Detection is on its way.

\* It speaks of its event's address, and the travel check goes on to the baseline.
OnTheWay(r) ==
  /\ job[r].at \in {"lookup", "commit", "remember"} => job[r].ctx.ip = Ev(r).ip
  /\ job[r].after = "set_last" => /\ job[r].at \in {"lookup", "commit", "remember", "announce"}
                                  /\ job[r].ctx.key = "impossible_travel"

\* A step that is none of this way.
Quiet(r) == /\ job'[r].at \notin {"lookup", "commit", "remember", "set_last"}
            /\ job'[r].after # "set_last"
            /\ job'[r].at = "send_normalized" => StoreEvent(r)
            /\ UNCHANGED <<failures, lastSeen>>

QuietStep(r) ==
  \/ IntegrationStep(r) \/ ReportDomain(r) \/ ReportPackages(r) \/ ThreatIntelStep(r)
  \/ OrchestratorStep(r) \/ IgnoreEvent(r) \/ Drop(r) \/ Raise(r) \/ Crash(r)

LEMMA QuietSteps ==
  ASSUME CorrelationInv, NEW r \in Replicas, OnTheWay(r), QuietStep(r)
  PROVE  Quiet(r)
<1>1. TypeOK /\ job[r] \in Jobs BY JobOf DEF CorrelationInv
<1>2. CASE SendNormalized(r) \/ SendEnriched(r) \/ SendClassified(r) \/ Raise(r) \/ Crash(r)
  <2>1. job'[r] = Idle
    BY <1>1, <1>2, Done DEF SendNormalized, SendEnriched, SendClassified, Raise, Crash
  <2>2. QED
    BY <1>2, <2>1
    DEF Idle, Quiet, SendNormalized, SendEnriched, SendClassified, Raise, Crash
<1>3. CASE StoreEvent(r)
  <2>1. PICK m : Begin(r, m, "send_normalized", NoContext, "idle") BY <1>3 DEF StoreEvent
  <2> DEFINE j == [Idle EXCEPT !.at = "send_normalized", !.msg = m, !.ctx = NoContext, !.after = "idle"]
  <2>2. job' = [job EXCEPT ![r] = j] BY <2>1 DEF Begin
  <2>3. j.at = "send_normalized" /\ j.after = "idle" BY DEF Idle
  <2> HIDE DEF j
  <2>4. job'[r] = j BY <1>1, <2>2, Written
  <2>5. QED BY <1>3, <2>3, <2>4 DEF Quiet, StoreEvent
<1>4. CASE ReportDomain(r) \/ ReportPackages(r)
  <2>1. PICK status, severity, report : FileReport(r, status, severity, report)
    <3>1. CASE ReportDomain(r)
      BY <3>1 DEF ReportDomain
    <3>2. CASE ReportPackages(r)
      BY <3>2 DEF ReportPackages
    <3>3. QED BY <1>4, <3>1, <3>2
  <2> DEFINE i == Len(incidents')
             j == [Idle EXCEPT !.at = "announce", !.inc = i, !.report = report]
  <2>2. job' = [job EXCEPT ![r] = j] /\ UNCHANGED <<failures, lastSeen>> BY <2>1 DEF FileReport
  <2> HIDE DEF i
  <2>3. j.at = "announce" /\ j.after = "idle" BY DEF Idle
  <2> HIDE DEF j
  <2>4. job'[r] = j BY <1>1, <2>2, Written
  <2>5. QED BY <2>2, <2>3, <2>4 DEF Quiet
<1>5. CASE LookUpAddress(r)
  <2> DEFINE m == Head(inbox[r])
             at == IF m.ctx.ip = NoIp THEN "load" ELSE "indicator"
  <2>1. PICK malicious \in Verdicts(m.ctx.ip) :
          job' = [job EXCEPT ![r] = [Idle EXCEPT !.at = at, !.inc = m.inc,
                                                 !.ctx = Merged(m.ctx, malicious)]]
    BY <1>5 DEF LookUpAddress
  <2> DEFINE c == Merged(m.ctx, malicious)
             j == [Idle EXCEPT !.at = at, !.inc = m.inc, !.ctx = c]
  <2>2. job' = [job EXCEPT ![r] = j] BY <2>1
  <2>3. at \in {"load", "indicator"} OBVIOUS
  <2> HIDE DEF c, at
  <2>4. j.at = at /\ j.after = "idle" BY DEF Idle
  <2> HIDE DEF j
  <2>5. job'[r] = j BY <1>1, <2>2, Written
  <2>6. QED BY <1>5, <2>3, <2>4, <2>5 DEF Quiet, LookUpAddress
<1>6. CASE CheckIndicator(r) \/ PutIndicator(r) \/ Enrich(r)
  <2>1. job[r].after # "set_last" /\ UNCHANGED <<failures, lastSeen>>
    BY <1>6 DEF OnTheWay, CheckIndicator, PutIndicator, Enrich
  <2>2. \/ Finish(r)
        \/ \E at \in {"load", "put_indicator", "send_enriched"} : Goto(r, at)
    BY <1>6 DEF CheckIndicator, PutIndicator, Enrich
  <2>3. CASE Finish(r)
    <3>1. job'[r] = Idle BY <1>1, <2>3, Done
    <3>2. QED BY <2>1, <3>1 DEF Idle, Quiet
  <2>4. ASSUME NEW at \in {"load", "put_indicator", "send_enriched"}, Goto(r, at) PROVE Quiet(r)
    <3>1. job'[r] = [job[r] EXCEPT !.at = at] BY <1>1, <2>4, Went
    <3>2. QED BY <1>1, <2>1, <3>1 DEF Quiet, Jobs
  <2>5. QED BY <2>2, <2>3, <2>4
<1>7. CASE LoadIncident(r)
  <2> DEFINE c == Merged(incidents[job[r].inc].ctx, job[r].ctx.malicious)
             j == [job[r] EXCEPT !.at = "enrich", !.ctx = c]
  <2>1. job[r].after # "set_last" BY <1>7 DEF OnTheWay, LoadIncident
  <2>2. job' = [job EXCEPT ![r] = j] BY <1>1, <1>7 DEF LoadIncident, TypeOK
  <2> HIDE DEF c
  <2>3. j.at = "enrich" /\ j.after = job[r].after BY <1>1 DEF Jobs
  <2> HIDE DEF j
  <2>4. job'[r] = j BY <1>1, <2>2, Written
  <2>5. QED BY <1>7, <2>1, <2>3, <2>4 DEF Quiet, LoadIncident
<1>8. CASE Classify(r)
  <2> DEFINE m == Head(inbox[r])
             j == [Idle EXCEPT !.at = "send_classified", !.inc = m.inc, !.ctx = m.ctx]
  <2>1. job' = [job EXCEPT ![r] = j] BY <1>8 DEF Classify
  <2>2. j.at = "send_classified" /\ j.after = "idle" BY DEF Idle
  <2> HIDE DEF j
  <2>3. job'[r] = j BY <1>1, <2>1, Written
  <2>4. QED BY <1>8, <2>2, <2>3 DEF Quiet, Classify
<1>9. CASE IgnoreEvent(r) \/ Drop(r)
  <2>1. job' = job /\ job[r].at = "idle" BY <1>9 DEF IgnoreEvent, Drop, Take
  <2>2. QED BY <1>9, <2>1 DEF Quiet, OnTheWay, IgnoreEvent, Drop
<1>10. QED
  BY <1>2, <1>3, <1>4, <1>5, <1>6, <1>7, <1>8, <1>9
  DEF QuietStep, IntegrationStep, ThreatIntelStep, OrchestratorStep

\* Every step of a replica, by what Detection makes of it.
LEMMA StepKinds ==
  ASSUME NEW r \in Replicas, ReplicaStep(r)
  PROVE  \/ QuietStep(r) \/ Restart(r)
         \/ CountFailure(r) \/ CheckSuccess(r) \/ SoundAlarm(r) \/ CheckTravel(r) \/ SetLast(r)
         \/ LookUp(r) \/ Fold(r) \/ Open(r) \/ Remember(r) \/ Announce(r)
BY DEF ReplicaStep, LoopStep, DetectionStep, QuietStep

LEMMA LooksOnTheWay ==
  ASSUME NEW r \in Replicas, NEW m, NEW key, NEW after, Looks(r, m, key, after),
         after = "set_last" => key = "impossible_travel"
  PROVE  OnTheWay(r)'
BY DEF Looks, OnTheWay, Ev

LEMMA WayStep ==
  ASSUME CorrelationInv, NEW r \in Replicas, OnTheWay(r), ReplicaStep(r)
  PROVE  OnTheWay(r)'
<1>1. TypeOK BY DEF CorrelationInv
<1>2. CASE QuietStep(r) BY <1>2, QuietSteps DEF Quiet, OnTheWay
<1>3. CASE job' = job BY <1>3 DEF OnTheWay, Ev
<1>4. CASE CountFailure(r) BY <1>3, <1>4, CountMoves, LooksOnTheWay
<1>5. CASE CheckSuccess(r)
  <2>1. CASE job'[r].at = "travel" /\ job'[r].after = "idle" BY <2>1 DEF OnTheWay
  <2>2. QED BY <1>3, <1>5, <2>1, SuccessMoves, LooksOnTheWay
<1>6. CASE SoundAlarm(r) BY <1>6, AlarmMoves, LooksOnTheWay
<1>7. CASE job'[r] = Idle BY <1>7 DEF Idle, OnTheWay
<1>8. CASE CheckTravel(r)
  <2>1. CASE job'[r].at = "set_last" /\ job'[r].after = job[r].after
    BY <1>8, <2>1, TravelMoves DEF OnTheWay
  <2>2. QED BY <1>7, <1>8, <2>1, TravelMoves, LooksOnTheWay
<1>9. CASE SetLast(r) BY <1>1, <1>7, <1>9, Done DEF SetLast
<1>10. CASE LookUp(r) \/ Open(r) \/ Remember(r)
  BY <1>1, <1>10, LookUpMoves, OpenMoves, RememberMoves DEF Same, OnTheWay, Ev
<1>11. CASE Fold(r) \/ Announce(r)
  <2>1. Continue(r) /\ job[r].after \in {"idle", "travel", "set_last"}
    BY <1>1, <1>11, JobOf DEF Fold, Announce
  <2>2. CASE job[r].after # "idle" /\ job'[r].at = job[r].after /\ job'[r].after = "idle"
    BY <2>1, <2>2 DEF OnTheWay
  <2>3. QED BY <1>1, <1>7, <2>1, <2>2, ContinueMoves
<1>12. CASE Restart(r) BY <1>3, <1>12 DEF Restart
<1>13. QED
  BY <1>2, <1>4, <1>5, <1>6, <1>8, <1>9, <1>10, <1>11, <1>12, StepKinds

AllOnTheWay == \A r \in Replicas : OnTheWay(r)

\* A step that touches no loop.
LEMMA StepCases ==
  ASSUME CorrelationInv, [Next]_vars
  PROVE  \/ \E r \in Replicas : ReplicaStep(r)
         \/ /\ UNCHANGED <<incidents, indicators, cache, outbox, job>>
            /\ Outside \/ UNCHANGED vars
<1>1. CASE UNCHANGED vars BY <1>1 DEF vars
<1>2. QED BY <1>1, OutsideEffect DEF Next, Outside, ReplicaStep

LEMMA WayInvariant == Spec => []AllOnTheWay
<1>1. Init => AllOnTheWay BY DEF Init, Idle, AllOnTheWay, OnTheWay
<1>2. CorrelationInv /\ AllOnTheWay /\ [Next]_vars => AllOnTheWay'
  <2> SUFFICES ASSUME CorrelationInv, AllOnTheWay, [Next]_vars, NEW q \in Replicas
               PROVE  OnTheWay(q)'
    BY DEF AllOnTheWay
  <2>1. OnTheWay(q) BY DEF AllOnTheWay
  <2>2. CASE job'[q] = job[q] BY <2>1, <2>2 DEF OnTheWay, Ev
  <2>3. ASSUME NEW r \in Replicas, ReplicaStep(r) PROVE OnTheWay(q)'
    BY <2>1, <2>2, <2>3, WayStep, EveryEffect DEF Effect
  <2>4. QED BY <2>2, <2>3, StepCases
<1>3. QED BY <1>1, <1>2, CorrelationInvariant, PTL DEF Spec

-----------------------------------------------------------------------------
\* A burst is seen.

\* There is a case of a brute force from source s, or a handler on its way to one.
HasCase(s) == \E i \in DOMAIN incidents : /\ incidents[i].ctx.key = "bruteforce_login"
                                          /\ <<incidents[i].tenant, incidents[i].ctx.ip>> = s

Opening(r, s) == /\ job[r].at \in {"lookup", "commit"}
                 /\ SourceOf(Ev(r)) = s /\ job[r].ctx.key = "bruteforce_login"

LEMMA CaseStays == ASSUME Kept, NEW s, HasCase(s) PROVE HasCase(s)'
BY DEF Kept, HasCase

\* With nothing lost, who is on the way to a case gets there.
LEMMA OpeningEnds ==
  ASSUME CorrelationInv, ~Faults, NEW r \in Replicas, OnTheWay(r), ReplicaStep(r),
         NEW s, Opening(r, s)
  PROVE  HasCase(s)' \/ Opening(r, s)'
<1>1. TypeOK /\ JobNames(r) /\ job[r].at \in {"lookup", "commit"} BY DEF CorrelationInv, Opening
<1>2. s = <<Ev(r).tenant, job[r].ctx.ip>> BY <1>1 DEF OnTheWay, Opening, SourceOf
<1>3. LookUp(r) \/ Fold(r) \/ Open(r) \/ Restart(r)
  BY <1>1
  DEF ReplicaStep, LoopStep, IntegrationStep, DetectionStep, ThreatIntelStep, OrchestratorStep,
      StoreEvent, SendNormalized, CountFailure, CheckSuccess, SoundAlarm, IgnoreEvent, Drop, CheckTravel,
      SetLast, Remember, Announce, ReportDomain, ReportPackages, LookUpAddress, CheckIndicator,
      PutIndicator, LoadIncident, Enrich, SendEnriched, Classify, SendClassified, Take, Raise, Crash
<1>4. CASE LookUp(r) BY <1>1, <1>4, LookUpMoves DEF Opening, Same, Ev
<1>5. CASE Fold(r)
  <2> DEFINE i == job[r].inc
  <2>1. OwnCase(r) BY <1>5 DEF Fold, CorrelationInv, JobNames
  <2>2. /\ i \in DOMAIN incidents /\ DOMAIN incidents' = DOMAIN incidents
        /\ incidents'[i].ctx = job[r].ctx /\ incidents'[i].tenant = incidents[i].tenant
    BY <1>5, FoldEffect
  <2>3. QED BY <1>2, <2>1, <2>2 DEF HasCase, OwnCase, Opening
<1>6. CASE Open(r)
  <2> DEFINE i == Len(incidents')
  <2>1. /\ DOMAIN incidents' = DOMAIN incidents \union {i}
        /\ incidents'[i].ctx = job[r].ctx /\ incidents'[i].tenant = Ev(r).tenant
    BY <1>6, OpenEffect
  <2> HIDE DEF i
  <2>2. QED BY <1>2, <2>1 DEF HasCase, Opening
<1>7. CASE Restart(r) BY <1>7 DEF Restart, Opening, Ev
<1>8. QED BY <1>3, <1>4, <1>5, <1>6, <1>7

\* A window fills up only under the hands of who then looks for a case.
LEMMA WindowFills ==
  ASSUME CorrelationInv, [Next]_vars, NEW s \in Sources, failures'[s] >= 5, ~(failures[s] >= 5)
  PROVE  \E r \in Replicas : Opening(r, s)'
<1>1. TypeOK /\ failures[s] \in Nat BY DEF CorrelationInv, TypeOK
<1>2. ASSUME NEW r \in Replicas, CountFailure(r) PROVE Opening(r, s)'
  <2> DEFINE m == Head(inbox[r])
             t == SourceOf(EventIn(m))
  <2>1. /\ t \in Sources /\ failures' = [failures EXCEPT ![t] = failures[t] + 1]
        /\ \/ failures[t] + 1 >= 5 /\ Looks(r, m, "bruteforce_login", "idle")
           \/ failures[t] + 1 < 5
    BY <1>2, CountMoves
  <2> HIDE DEF m, t
  <2>2. t = s BY <1>1, <2>1 DEF TypeOK
  <2>3. failures'[s] = failures[s] + 1 BY <1>1, <2>1, <2>2 DEF TypeOK
  <2>4. Looks(r, m, "bruteforce_login", "idle") BY <1>1, <2>1, <2>2, <2>3
  <2>5. QED BY <2>2, <2>4 DEF Looks, Opening, Ev, t
<1>3. ASSUME NEW t \in Sources, Expire(t) PROVE FALSE BY <1>1, <1>3 DEF Expire, TypeOK
<1>4. ASSUME UNCHANGED failures PROVE FALSE BY <1>4
<1>5. CASE Outside \/ UNCHANGED vars
  BY <1>3, <1>4, <1>5 DEF Outside, PostEvent, PostScan, Forget, vars
<1>6. ASSUME NEW r \in Replicas, ReplicaStep(r), ~CountFailure(r) PROVE UNCHANGED failures
  BY <1>6
  DEF ReplicaStep, LoopStep, IntegrationStep, DetectionStep, ThreatIntelStep, OrchestratorStep,
      StoreEvent, SendNormalized, CheckSuccess, SoundAlarm, IgnoreEvent, Drop, CheckTravel,
      SetLast, LookUp, Fold, Open, Remember, Announce, ReportDomain, ReportPackages, FileReport,
      LookUpAddress, CheckIndicator, PutIndicator, LoadIncident, Enrich, SendEnriched, Classify,
      SendClassified, Raise, Crash, Restart
<1>7. QED BY <1>2, <1>4, <1>5, <1>6, StepCases

\* With nothing lost, a window that holds five failures has an incident for its
\* address, or a handler is on its way to open one: however the loops of any number
\* of replicas interleave, whatever is folded and however windows expire
\* (detection.py:72-87).
THEOREM BurstsAreSeen == ASSUME ~Faults PROVE Spec => []BurstIsSeen
<1>1. Init => BurstIsSeen BY DEF Init, BurstIsSeen
<1>2. CorrelationInv /\ AllOnTheWay /\ BurstIsSeen /\ [Next]_vars => BurstIsSeen'
  <2> SUFFICES ASSUME CorrelationInv, AllOnTheWay, BurstIsSeen, [Next]_vars,
                      NEW s \in Sources, failures'[s] >= 5
               PROVE  HasCase(s)' \/ \E r \in Replicas : Opening(r, s)'
    BY DEF BurstIsSeen, HasCase, Opening
  <2>1. CASE ~(failures[s] >= 5) BY <2>1, WindowFills
  <2>2. CASE failures[s] >= 5
    <3>1. HasCase(s) \/ \E r \in Replicas : Opening(r, s)
      BY <2>2 DEF BurstIsSeen, HasCase, Opening
    <3>2. CASE HasCase(s)
      <4>1. Kept BY StepCases, EveryEffect, KeptUnchanged DEF Effect
      <4>2. QED BY <3>2, <4>1, CaseStays
    <3>3. ASSUME NEW r \in Replicas, Opening(r, s)
          PROVE  HasCase(s)' \/ Opening(r, s)'
      <4>1. CASE job'[r] = job[r] BY <3>3, <4>1 DEF Opening, Ev
      <4>2. CASE ReplicaStep(r) BY <3>3, <4>2, OpeningEnds DEF AllOnTheWay
      <4>3. ASSUME NEW q \in Replicas, q # r, ReplicaStep(q) PROVE job'[r] = job[r]
        BY <4>3, EveryEffect DEF Effect
      <4>4. QED BY <4>1, <4>2, <4>3, StepCases
    <3>4. QED BY <3>1, <3>2, <3>3
  <2>3. QED BY <2>1, <2>2
<1>3. QED BY <1>1, <1>2, CorrelationInvariant, WayInvariant, PTL DEF Spec

-----------------------------------------------------------------------------
\* No jump goes unnoticed.

\* The rows of a step keep the events they relate to: the list a fold writes back is
\* the one it loaded, as long as nobody wrote between (detection.py:232-244).
Loaded(r) == At(r, "commit") /\ job[r].inc # 0 => job[r].seen = incidents[job[r].inc].events

RowsGrow == \A i \in DOMAIN incidents : incidents[i].events \subseteq incidents'[i].events

LEMMA RowsGrowing ==
  ASSUME CorrelationInv, NEW r \in Replicas, Loaded(r), ReplicaStep(r)
  PROVE  RowsGrow
<1> USE DEF RowsGrow
<1>1. CASE UNCHANGED incidents BY <1>1
<1>2. CASE Fold(r)
  <2> DEFINE i == job[r].inc
  <2>1. job[r].seen = incidents[i].events BY <1>2 DEF Fold, Loaded
  <2>2. QED BY <1>2, <2>1, FoldEffect
<1>3. CASE Open(r) BY <1>3, OpenEffect
<1>4. CASE ReportDomain(r) \/ ReportPackages(r) BY <1>4, ScanStep
<1>5. CASE Enrich(r) BY <1>5, EnrichEffect
<1>6. CASE Classify(r) BY <1>6, ClassifyEffect
<1>7. QED BY <1>1, <1>2, <1>3, <1>4, <1>5, <1>6, RowsChange

\* What Detection knows when it writes is what it loaded.
LEMMA LoadedStep ==
  ASSUME CorrelationInv, NEW r \in Replicas, OnTheWay(r), Loaded(r), ReplicaStep(r)
  PROVE  Loaded(r)'
<1>1. TypeOK /\ JobNames(r) BY DEF CorrelationInv
<1>2. CASE job'[r].at # "commit" BY <1>2 DEF Loaded
<1>3. CASE LookUp(r)
  <2>1. job[r].inc = 0 /\ incidents' = incidents BY <1>1, <1>3 DEF LookUp, JobNames
  <2>2. QED BY <1>1, <1>3, <2>1, LookUpMoves DEF Loaded
<1>4. CASE UNCHANGED <<job, incidents>> BY <1>4 DEF Loaded
<1>5. CASE QuietStep(r) BY <1>2, <1>5, QuietSteps DEF Quiet
<1>6. CASE CountFailure(r) \/ CheckSuccess(r) \/ SoundAlarm(r) \/ IgnoreEvent(r) \/ Drop(r)
  <2>1. incidents' = incidents BY <1>6 DEF CountFailure, CheckSuccess, SoundAlarm, IgnoreEvent, Drop
  <2>2. QED BY <1>2, <1>4, <1>6, <2>1, CountMoves, SuccessMoves, AlarmMoves DEF Looks, IgnoreEvent, Drop
<1>7. CASE CheckTravel(r) BY <1>2, <1>7, TravelMoves DEF Looks, Idle
<1>8. CASE Fold(r) \/ Announce(r)
  <2>1. Continue(r) /\ job[r].after \in {"idle", "travel", "set_last"}
    BY <1>1, <1>8, JobOf DEF Fold, Announce
  <2>2. QED BY <1>1, <1>2, <2>1, ContinueMoves DEF Idle
<1>9. CASE Open(r) \/ Remember(r) BY <1>1, <1>2, <1>9, OpenMoves, RememberMoves
<1>10. CASE SetLast(r) BY <1>1, <1>2, <1>10, Done DEF SetLast, Idle
<1>11. CASE Restart(r) BY <1>4, <1>11 DEF Restart
<1>12. QED
  BY <1>3, <1>5, <1>6, <1>7, <1>8, <1>9, <1>10, <1>11, StepKinds

LEMMA AlarmStays == ASSUME Kept, RowsGrow, NEW id, Alarmed(id) PROVE Alarmed(id)'
<1>1. PICK i \in DOMAIN incidents : /\ incidents[i].ctx.key = "impossible_travel"
                                    /\ id \in incidents[i].events
  BY DEF Alarmed
<1>2. /\ i \in DOMAIN incidents' /\ incidents'[i].ctx.key = "impossible_travel"
      /\ incidents[i].events \subseteq incidents'[i].events
  BY <1>1 DEF Kept, RowsGrow
<1>3. QED BY <1>1, <1>2 DEF Alarmed

\* The travel check that found a jump has its incident before it moves the baseline.
Travels(r) ==
  /\ job[r].after = "set_last" /\ job[r].at \in {"remember", "announce"} =>
       Alarmed(job[r].msg.id)
  /\ /\ At(r, "set_last") /\ AccountOf(Ev(r)) \in Accounts
     /\ Impossible(AccountOf(Ev(r)), job[r].country)
     => Alarmed(job[r].msg.id)

\* What the travel check writes to the incident is its own sign-in.
LEMMA WritesEvidence ==
  ASSUME CorrelationInv, NEW r \in Replicas, OnTheWay(r), job[r].after = "set_last",
         Fold(r) \/ Open(r)
  PROVE  \E id : id = job[r].msg.id /\ Alarmed(id)'
<1>0. PICK id : id = job[r].msg.id OBVIOUS
<1>1. job[r].ctx.key = "impossible_travel" BY DEF OnTheWay
<1>2. PICK i \in DOMAIN incidents' : incidents'[i].ctx = job[r].ctx /\ id \in incidents'[i].events
  BY <1>0, FoldEffect, OpenEffect
<1>3. Alarmed(id)' BY <1>1, <1>2 DEF Alarmed
<1>4. QED BY <1>0, <1>3

LEMMA TravelsStep ==
  ASSUME CorrelationInv, NEW r \in Replicas, OnTheWay(r), Loaded(r), Travels(r), ReplicaStep(r)
  PROVE  Travels(r)'
<1>1. TypeOK /\ Kept /\ RowsGrow BY RowsGrowing, EveryEffect DEF CorrelationInv, Effect
<1>2. PICK id : id = job[r].msg.id OBVIOUS
<1>3. ASSUME job'[r].after # "set_last" \/ job'[r].at \notin {"remember", "announce"},
             job'[r].at # "set_last"
      PROVE  Travels(r)'
  BY <1>3 DEF Travels
<1>4. CASE UNCHANGED <<job, lastSeen>>
  <2>1. id = job'[r].msg.id BY <1>2, <1>4
  <2>2. Alarmed(id) => Alarmed(id)' BY <1>1, AlarmStays
  <2>3. Alarmed(job[r].msg.id) => Alarmed(job[r].msg.id)' BY <1>2, <2>1, <2>2 DEF Alarmed
  <2>4. QED BY <1>4, <2>3 DEF Travels, Impossible, Ev
<1>5. CASE QuietStep(r) BY <1>3, <1>5, QuietSteps DEF Quiet
<1>6. CASE CountFailure(r) \/ CheckSuccess(r) \/ SoundAlarm(r)
  <2>1. lastSeen' = lastSeen BY <1>6 DEF CountFailure, CheckSuccess, SoundAlarm
  <2>2. QED BY <1>3, <1>4, <1>6, <2>1, CountMoves, SuccessMoves, AlarmMoves DEF Looks
<1>7. CASE CheckTravel(r)
  <2>1. CASE /\ job'[r].at = "set_last" /\ job'[r].msg = job[r].msg
             /\ ~Impossible(AccountOf(Ev(r)), job'[r].country)
    <3>1. ~Impossible(AccountOf(Ev(r)), job[r].country)'
      BY <1>7, <2>1 DEF Impossible, CheckTravel, Ev
    <3>2. QED BY <2>1, <3>1 DEF Travels
  <2>2. QED BY <1>3, <1>7, <2>1, TravelMoves DEF Looks, Idle
<1>8. CASE SetLast(r) BY <1>1, <1>3, <1>8, Done DEF SetLast, Idle
<1>9. CASE LookUp(r) BY <1>1, <1>3, <1>9, LookUpMoves
<1>10. ASSUME job'[r].msg = job[r].msg, Alarmed(id)' PROVE Travels(r)'
  <2>1. id = job'[r].msg.id BY <1>2, <1>10
  <2>2. Alarmed(job[r].msg.id)' BY <1>10, <2>1 DEF Alarmed
  <2>3. QED BY <2>2 DEF Travels
<1>11. CASE Open(r)
  <2>1. job'[r].after = job[r].after /\ job'[r].msg = job[r].msg /\ job'[r].at = "remember"
    BY <1>1, <1>11, OpenMoves DEF Same
  <2>2. CASE job[r].after = "set_last" BY <1>2, <1>10, <1>11, <2>1, <2>2, WritesEvidence
  <2>3. CASE job[r].after # "set_last" BY <1>3, <2>1, <2>3
  <2>4. QED BY <2>2, <2>3
<1>12. CASE Remember(r)
  <2>1. /\ job'[r].after = job[r].after /\ job'[r].msg = job[r].msg /\ job'[r].at = "announce"
        /\ job[r].at = "remember"
    BY <1>1, <1>12, RememberMoves DEF Same
  <2>2. CASE job[r].after = "set_last"
    <3>1. Alarmed(id) BY <1>2, <2>1, <2>2 DEF Travels
    <3>2. QED BY <1>1, <1>10, <2>1, <3>1, AlarmStays
  <2>3. CASE job[r].after # "set_last" BY <1>3, <2>1, <2>3
  <2>4. QED BY <2>2, <2>3
<1>13. CASE Fold(r) \/ Announce(r)
  <2>1. Continue(r) /\ job[r].after \in {"idle", "travel", "set_last"}
    BY <1>1, <1>13, JobOf DEF Fold, Announce
  <2>2. CASE /\ job[r].after = "set_last" /\ job'[r].at = "set_last" /\ job'[r].msg = job[r].msg
    <3>1. CASE Fold(r) BY <1>2, <1>10, <2>2, <3>1, WritesEvidence
    <3>2. CASE Announce(r)
      <4>1. Alarmed(id) BY <1>2, <2>2, <3>2 DEF Travels, Announce
      <4>2. QED BY <1>1, <1>10, <2>2, <4>1, AlarmStays
    <3>3. QED BY <1>13, <3>1, <3>2
  <2>3. QED BY <1>1, <1>3, <2>1, <2>2, ContinueMoves DEF Idle
<1>14. CASE Restart(r) BY <1>4, <1>14 DEF Restart
<1>15. QED
  BY <1>5, <1>6, <1>7, <1>8, <1>9, <1>11, <1>12, <1>13, <1>14, StepKinds

\* A baseline that is forgotten or left alone makes no jump.
LEMMA TravelsOutside ==
  ASSUME CorrelationInv, NEW r \in Replicas, Travels(r), UNCHANGED <<incidents, job>>,
         Outside \/ UNCHANGED vars
  PROVE  Travels(r)'
<1>1. PICK a, c : a = AccountOf(Ev(r)) /\ c = job[r].country OBVIOUS
<1>2. a \in Accounts /\ Impossible(a, c)' => Impossible(a, c)
  <2>1. CASE lastSeen' = lastSeen BY <2>1 DEF Impossible
  <2>2. ASSUME NEW b \in Accounts, Forget(b), a \in Accounts, Impossible(a, c)'
        PROVE  Impossible(a, c)
    <3>1. <<NoCountry, c>> \notin FarApart BY CorrelationAssumption
    <3>2. lastSeen' = [lastSeen EXCEPT ![b] = NoCountry] /\ DOMAIN lastSeen = Accounts
      BY <2>2 DEF Forget, CorrelationInv, TypeOK
    <3>3. a # b BY <2>2, <3>1, <3>2 DEF Impossible
    <3>4. lastSeen'[a] = lastSeen[a] BY <2>2, <3>2, <3>3
    <3>5. QED BY <2>2, <3>4 DEF Impossible
  <2>3. QED BY <2>1, <2>2 DEF Outside, PostEvent, PostScan, Expire, vars
<1>3. a = AccountOf(Ev(r))' /\ c = job'[r].country BY <1>1 DEF Ev
<1>4. AccountOf(Ev(r)) \in Accounts /\ Impossible(AccountOf(Ev(r)), job[r].country)'
        => Impossible(AccountOf(Ev(r)), job[r].country)
  BY <1>1, <1>2, <1>3 DEF Impossible
<1>5. Alarmed(job[r].msg.id)' <=> Alarmed(job[r].msg.id) BY DEF Alarmed
<1>6. AccountOf(Ev(r))' = AccountOf(Ev(r)) BY <1>1, <1>3
<1>7. QED BY <1>4, <1>5, <1>6 DEF Travels

\* Every loop knows what it loaded, and which jumps it found.
JumpInv == \A r \in Replicas : Loaded(r) /\ Travels(r)

LEMMA JumpInvariant == ASSUME OneReplica PROVE Spec => []JumpInv
<1>1. Init => JumpInv BY DEF Init, Idle, JumpInv, Loaded, Travels
<1>2. CorrelationInv /\ AllOnTheWay /\ JumpInv /\ [Next]_vars => JumpInv'
  <2> SUFFICES ASSUME CorrelationInv, AllOnTheWay, JumpInv, [Next]_vars, NEW q \in Replicas
               PROVE  Loaded(q)' /\ Travels(q)'
    BY DEF JumpInv
  <2>1. ASSUME NEW r \in Replicas, ReplicaStep(r) PROVE Loaded(q)' /\ Travels(q)'
    <3>1. r = q BY OneReplica DEF OneReplica
    <3>2. QED BY <2>1, <3>1, LoadedStep, TravelsStep DEF AllOnTheWay, JumpInv
  <2>2. CASE /\ UNCHANGED <<incidents, indicators, cache, outbox, job>>
             /\ Outside \/ UNCHANGED vars
    BY <2>2, TravelsOutside DEF JumpInv, Loaded
  <2>3. QED BY <2>1, <2>2, StepCases
<1>3. QED BY <1>1, <1>2, CorrelationInvariant, WayInvariant, PTL DEF Spec

\* On one process, with crashes, failing awaits and expiry at any moment, an account's
\* baseline never jumps between places too far apart before the sign-in that moves it
\* is evidence of an incident: the incident is committed before the baseline moves, no
\* other handler moves it between, and no fold loses the sign-in (detection.py:151-191).
THEOREM JumpsAreAlarmed == ASSUME OneReplica PROVE Spec => JumpIsAlarmed
<1>1. ASSUME CorrelationInv, JumpInv, [Next]_vars, NEW a \in Accounts,
             <<lastSeen[a], lastSeen'[a]>> \in FarApart
      PROVE  \E r \in Replicas : /\ At(r, "set_last") /\ AccountOf(Ev(r)) = a
                                /\ Alarmed(job[r].msg.id)
  <2>1. lastSeen \in [Accounts -> Countries \union {NoCountry}] BY <1>1 DEF CorrelationInv, TypeOK
  <2>2. lastSeen'[a] \in Countries /\ lastSeen'[a] # NoCountry /\ lastSeen'[a] # lastSeen[a]
    BY <1>1, CorrelationAssumption
  <2>3. ASSUME NEW r \in Replicas, SetLast(r)
        PROVE  At(r, "set_last") /\ AccountOf(Ev(r)) = a /\ Alarmed(job[r].msg.id)
    <3>1. lastSeen' = [lastSeen EXCEPT ![AccountOf(Ev(r))] = job[r].country] /\ At(r, "set_last")
      BY <2>3 DEF SetLast
    <3>2. a = AccountOf(Ev(r)) /\ lastSeen'[a] = job[r].country BY <2>1, <2>2, <3>1
    <3>3. QED BY <1>1, <3>1, <3>2 DEF JumpInv, Travels, Impossible
  <2>4. ASSUME NEW b \in Accounts, Forget(b) PROVE FALSE BY <2>1, <2>2, <2>4 DEF Forget
  <2>5. ASSUME NEW r \in Replicas, ReplicaStep(r), ~SetLast(r) PROVE lastSeen' = lastSeen
    BY <2>5
    DEF ReplicaStep, LoopStep, IntegrationStep, DetectionStep, ThreatIntelStep, OrchestratorStep,
        StoreEvent, SendNormalized, CountFailure, CheckSuccess, SoundAlarm, IgnoreEvent, Drop,
        CheckTravel, LookUp, Fold, Open, Remember, Announce, ReportDomain, ReportPackages,
        FileReport, LookUpAddress, CheckIndicator, PutIndicator, LoadIncident, Enrich,
        SendEnriched, Classify, SendClassified, Raise, Crash, Restart
  <2>6. CASE Outside \/ UNCHANGED vars
    BY <2>2, <2>4, <2>6 DEF Outside, PostEvent, PostScan, Expire, vars
  <2>7. QED BY <1>1, <2>2, <2>3, <2>5, <2>6, StepCases
<1>2. CorrelationInv /\ JumpInv /\ [Next]_vars =>
        [\A a \in Accounts : <<lastSeen[a], lastSeen'[a]>> \in FarApart =>
           \E r \in Replicas : /\ At(r, "set_last") /\ AccountOf(Ev(r)) = a
                               /\ Alarmed(job[r].msg.id)]_vars
  BY <1>1
<1>3. QED BY <1>2, CorrelationInvariant, JumpInvariant, PTL DEF Spec, JumpIsAlarmed

-----------------------------------------------------------------------------
\* Sets of messages in an inbox.

In(s, T) == \E n \in DOMAIN s : s[n] \in T
Once(s, T) == \A n1, n2 \in DOMAIN s : s[n1] \in T /\ s[n2] \in T => n1 = n2

LEMMA InAppend ==
  ASSUME NEW M, NEW s \in Seq(M), NEW m \in M, NEW T
  PROVE  /\ In(Append(s, m), T) <=> In(s, T) \/ m \in T
         /\ Once(s, T) /\ (m \in T => ~In(s, T)) => Once(Append(s, m), T)
<1> DEFINE t == Append(s, m)
<1>1. /\ DOMAIN t = DOMAIN s \union {Len(s) + 1} /\ t[Len(s) + 1] = m
      /\ \A n \in DOMAIN s : t[n] = s[n]
  OBVIOUS
<1> HIDE DEF t
<1>2. In(t, T) <=> In(s, T) \/ m \in T BY <1>1 DEF In
<1>3. ASSUME Once(s, T), m \in T => ~In(s, T) PROVE Once(t, T)
  BY <1>1, <1>3 DEF In, Once
<1>4. QED BY <1>2, <1>3 DEF t

LEMMA InTail ==
  ASSUME NEW M, NEW s \in Seq(M), s # <<>>, NEW T
  PROVE  /\ In(Tail(s), T) => In(s, T)
         /\ Head(s) \in T => In(s, T)
         /\ Once(s, T) => Once(Tail(s), T) /\ (Head(s) \in T => ~In(Tail(s), T))
<1> DEFINE t == Tail(s)
<1>1. /\ 1 \in DOMAIN s /\ Head(s) = s[1]
      /\ \A n \in DOMAIN t : n \in Nat \ {0} /\ n + 1 \in DOMAIN s /\ t[n] = s[n + 1]
  OBVIOUS
<1> HIDE DEF t
<1>2. In(t, T) => In(s, T) BY <1>1 DEF In
<1>3. Head(s) \in T => In(s, T) BY <1>1 DEF In
<1>4. ASSUME Once(s, T) PROVE Once(t, T)
  <2> SUFFICES ASSUME NEW n1 \in DOMAIN t, NEW n2 \in DOMAIN t, t[n1] \in T, t[n2] \in T
               PROVE  n1 = n2
    BY DEF Once
  <2>1. n1 + 1 = n2 + 1 BY <1>1, <1>4 DEF Once
  <2>2. QED BY <1>1, <2>1
<1>5. ASSUME Once(s, T), Head(s) \in T PROVE ~In(t, T)
  <2> SUFFICES ASSUME NEW n \in DOMAIN t, t[n] \in T PROVE FALSE
    BY DEF In
  <2>1. n + 1 = 1 BY <1>1, <1>5 DEF Once
  <2>2. QED BY <1>1, <2>1
<1>6. QED BY <1>2, <1>3, <1>4, <1>5 DEF t

\* What a step of r does to its inbox.
LEMMA InboxKinds ==
  ASSUME CorrelationInv, NEW r \in Replicas, ReplicaStep(r)
  PROVE  \/ inbox' = inbox /\ ~SendNormalized(r) /\ ~StoreEvent(r)
         \/ \E chans : Take(r, chans)
         \/ SendNormalized(r)
         \/ \E m \in Messages : /\ Refers(m) /\ m.inc = job[r].inc /\ Broadcast(m)
                                /\ Announce(r) \/ SendEnriched(r)
         \/ Crash(r)
<1>1. CASE Announce(r) \/ SendEnriched(r)
  <2>1. TypeOK /\ job[r].inc \in Nat /\ job[r].ctx \in Contexts BY JobOf DEF CorrelationInv
  <2>2. QED BY <1>1, <2>1, MessageTypes DEF Announce, SendEnriched, Refers
<1>2. CASE \/ StoreEvent(r) \/ CountFailure(r) \/ CheckSuccess(r) \/ SoundAlarm(r) \/ IgnoreEvent(r) \/ Drop(r)
           \/ ReportDomain(r) \/ ReportPackages(r) \/ LookUpAddress(r) \/ Classify(r)
  BY <1>2 DEF StoreEvent, CountFailure, CheckSuccess, SoundAlarm, IgnoreEvent, Drop, ReportDomain,
              ReportPackages, LookUpAddress, Classify
<1>3. CASE \/ CheckTravel(r) \/ SetLast(r) \/ LookUp(r) \/ Fold(r) \/ Open(r) \/ Remember(r)
           \/ CheckIndicator(r) \/ PutIndicator(r) \/ LoadIncident(r) \/ Enrich(r)
           \/ SendClassified(r) \/ Raise(r) \/ Restart(r)
  <2>1. inbox' = inbox
    BY <1>3 DEF CheckTravel, SetLast, LookUp, Fold, Open, Remember, CheckIndicator, PutIndicator,
                LoadIncident, Enrich, SendClassified, Raise, Restart
  <2>2. ASSUME StoreEvent(r) PROVE \E chans : Take(r, chans) BY <2>2 DEF StoreEvent
  <2>3. QED BY <2>1, <2>2
<1>4. QED
  BY <1>1, <1>2, <1>3
  DEF ReplicaStep, LoopStep, IntegrationStep, DetectionStep, ThreatIntelStep, OrchestratorStep

LEMMA TakesHead ==
  ASSUME TypeOK, NEW r \in Replicas, NEW chans, Take(r, chans)
  PROVE  /\ inbox[r] \in Seq(Messages) /\ inbox[r] # <<>> /\ inbox'[r] = Tail(inbox[r])
         /\ Head(inbox[r]).chan \in chans /\ At(r, "idle")
BY DEF Take, TypeOK

LEMMA Sent ==
  ASSUME TypeOK, NEW r \in Replicas, NEW m \in Messages, Broadcast(m), NEW T
  PROVE  /\ In(inbox'[r], T) => In(inbox[r], T) \/ m \in T
         /\ Once(inbox[r], T) /\ (m \in T => ~In(inbox[r], T)) => Once(inbox'[r], T)
<1>1. inbox[r] \in Seq(Messages) BY DEF TypeOK
<1>2. inbox'[r] = inbox[r] \/ inbox'[r] = Append(inbox[r], m) BY DEF Broadcast
<1>3. CASE inbox'[r] = Append(inbox[r], m)
  <2>1. In(Append(inbox[r], m), T) <=> In(inbox[r], T) \/ m \in T BY <1>1, InAppend
  <2>2. Once(inbox[r], T) /\ (m \in T => ~In(inbox[r], T)) => Once(Append(inbox[r], m), T)
    BY <1>1, InAppend
  <2>3. QED BY <1>3, <2>1, <2>2
<1>4. QED BY <1>2, <1>3

-----------------------------------------------------------------------------
\* Where an event is.

\* The messages of event e.
Of(e) == [chan : {"events.raw"}, event : {e}]
           \union [chan : {"events.normalized"}, id : {e} \X Replicas]

LEMMA OfWhom ==
  ASSUME NEW e
  PROVE  /\ \A m \in Messages : m.chan = "events.raw" => (m \in Of(e) <=> m.event = e)
         /\ \A m \in EventMessages : m \in Of(e) <=> m.id[1] = e
         /\ \A m \in Messages : Refers(m) \/ m.chan \in ScanChannels => m \notin Of(e)
         /\ \A m \in Of(e) : m.chan \in {"events.raw", "events.normalized"}
<1>1. \A m \in Messages : m.chan = "events.raw" => m \in [chan : {"events.raw"}, event : RawEvents]
  BY DEF Messages, EventMessages, ScanChannels
<1>2. \A m \in EventMessages : m.id \in RawEvents \X Replicas /\ m.chan = "events.normalized"
  BY DEF EventMessages, EventIds
<1>3. \A m \in Of(e) : \/ m.chan = "events.raw" /\ m.event = e
                       \/ m.chan = "events.normalized" /\ m.id[1] = e
  BY DEF Of
<1>4. \A m \in Messages : m.chan = "events.raw" => (m \in Of(e) <=> m.event = e)
  BY <1>1, <1>3 DEF Of
<1>5. ASSUME NEW m \in EventMessages, m.id[1] = e PROVE m \in Of(e)
  <2>1. m.id = <<e, m.id[2]>> /\ m.id[2] \in Replicas BY <1>2, <1>5
  <2>2. m.id \in {e} \X Replicas BY <2>1
  <2>3. m = [chan |-> "events.normalized", id |-> m.id] BY DEF EventMessages
  <2>4. QED BY <2>2, <2>3 DEF Of
<1>6. \A m \in EventMessages : m \in Of(e) <=> m.id[1] = e BY <1>2, <1>3, <1>5
<1>7. \A m \in Messages : Refers(m) \/ m.chan \in ScanChannels => m \notin Of(e)
  BY <1>3 DEF Refers, ScanChannels
<1>8. QED BY <1>3, <1>4, <1>6, <1>7

\* Integration is about to publish it again.
Republishes(r, e) == At(r, "send_normalized") /\ job[r].msg \in Of(e)

OnItsWay(r, e) == In(inbox[r], Of(e)) \/ Republishes(r, e)

\* One replica meets an event once, in its inbox or in the hands of Integration.
MetOnce(r, e) ==
  /\ Once(inbox[r], Of(e)) /\ ~(In(inbox[r], Of(e)) /\ Republishes(r, e))
  /\ e \in unsent => ~OnItsWay(r, e)

\* Only Integration publishes an event again.
LEMMA Republishing ==
  ASSUME CorrelationInv, NEW r \in Replicas, OnTheWay(r), ReplicaStep(r),
         job'[r].at = "send_normalized"
  PROVE  StoreEvent(r) \/ UNCHANGED <<job, inbox>>
<1>1. TypeOK BY DEF CorrelationInv
<1>2. CASE QuietStep(r) BY <1>2, QuietSteps DEF Quiet
<1>3. CASE CountFailure(r) \/ CheckSuccess(r) \/ SoundAlarm(r)
  <2>1. At(r, "idle") BY <1>3 DEF CountFailure, CheckSuccess, SoundAlarm, Take
  <2>2. job' # job BY <2>1
  <2>3. QED BY <1>3, <2>2, CountMoves, SuccessMoves, AlarmMoves DEF Looks
<1>4. CASE CheckTravel(r) BY <1>4, TravelMoves DEF Looks, Idle
<1>5. CASE SetLast(r) BY <1>1, <1>5, Done DEF SetLast, Idle
<1>6. CASE LookUp(r) \/ Open(r) \/ Remember(r)
  BY <1>1, <1>6, LookUpMoves, OpenMoves, RememberMoves
<1>7. CASE Fold(r) \/ Announce(r)
  <2>1. Continue(r) /\ job[r].after \in {"idle", "travel", "set_last"}
    BY <1>1, <1>7, JobOf DEF Fold, Announce
  <2>2. QED BY <1>1, <2>1, ContinueMoves DEF Idle
<1>8. CASE Restart(r) BY <1>8 DEF Restart
<1>9. QED BY <1>2, <1>3, <1>4, <1>5, <1>6, <1>7, <1>8, StepKinds

\* Whatever else r does, no message of the event comes in.
LEMMA NoneComes ==
  ASSUME CorrelationInv, NEW r \in Replicas, ReplicaStep(r), ~SendNormalized(r), NEW e
  PROVE  /\ In(inbox'[r], Of(e)) => In(inbox[r], Of(e))
         /\ Once(inbox[r], Of(e)) => Once(inbox'[r], Of(e))
<1>1. TypeOK BY DEF CorrelationInv
<1>2. CASE inbox' = inbox BY <1>2
<1>3. ASSUME NEW chans, Take(r, chans)
      PROVE  /\ In(inbox'[r], Of(e)) => In(inbox[r], Of(e))
             /\ Once(inbox[r], Of(e)) => Once(inbox'[r], Of(e))
  <2>1. inbox[r] \in Seq(Messages) /\ inbox[r] # <<>> /\ inbox'[r] = Tail(inbox[r])
    BY <1>1, <1>3, TakesHead
  <2>2. QED BY <2>1, InTail
<1>4. ASSUME NEW m \in Messages, Refers(m), Broadcast(m)
      PROVE  /\ In(inbox'[r], Of(e)) => In(inbox[r], Of(e))
             /\ Once(inbox[r], Of(e)) => Once(inbox'[r], Of(e))
  <2>1. m \notin Of(e) BY <1>4, OfWhom
  <2>2. QED BY <1>1, <1>4, <2>1, Sent
<1>5. CASE Crash(r)
  <2>1. inbox'[r] = <<>> BY <1>1, <1>5 DEF Crash, TypeOK
  <2>2. QED BY <2>1 DEF In, Once
<1>6. QED BY <1>2, <1>3, <1>4, <1>5, InboxKinds

\* The event is met once, and what is on its way was so before or unsent.
LEMMA MetStep ==
  ASSUME CorrelationInv, NEW r \in Replicas, OnTheWay(r), ReplicaStep(r), NEW e, MetOnce(r, e)
  PROVE  MetOnce(r, e)' /\ (OnItsWay(r, e)' => OnItsWay(r, e))
<1> USE DEF MetOnce, OnItsWay
<1>1. TypeOK /\ JobNames(r) BY DEF CorrelationInv
<1>2. unsent' = unsent
  BY DEF ReplicaStep, LoopStep, IntegrationStep, DetectionStep, ThreatIntelStep, OrchestratorStep,
         StoreEvent, SendNormalized, CountFailure, CheckSuccess, SoundAlarm, IgnoreEvent, Drop,
         CheckTravel, SetLast, LookUp, Fold, Open, Remember, Announce, ReportDomain,
         ReportPackages, FileReport, LookUpAddress, CheckIndicator, PutIndicator, LoadIncident,
         Enrich, SendEnriched, Classify, SendClassified, Raise, Crash, Restart
<1>3. CASE SendNormalized(r)
  <2>1. job[r].msg \in Messages /\ Broadcast(job[r].msg) /\ At(r, "send_normalized")
    BY <1>1, <1>3, MessageTypes DEF SendNormalized, JobNames
  <2>2. job'[r] = Idle BY <1>1, <1>3, Done DEF SendNormalized
  <2>3. ~Republishes(r, e)' BY <2>2 DEF Republishes, Idle
  <2>4. job[r].msg \in Of(e) <=> Republishes(r, e) BY <2>1 DEF Republishes
  <2>5. /\ In(inbox'[r], Of(e)) => In(inbox[r], Of(e)) \/ job[r].msg \in Of(e)
        /\ Once(inbox'[r], Of(e))
    BY <1>1, <2>1, <2>4, Sent
  <2>6. QED BY <1>2, <2>3, <2>4, <2>5
<1>4. CASE StoreEvent(r)
  <2> DEFINE h == Head(inbox[r])
             m == [chan |-> "events.normalized", id |-> <<h.event, r>>]
             j == [Idle EXCEPT !.at = "send_normalized", !.msg = m, !.ctx = NoContext, !.after = "idle"]
  <2>1. Take(r, {"events.raw"}) /\ job' = [job EXCEPT ![r] = j] BY <1>4 DEF StoreEvent, Begin
  <2>2. /\ inbox[r] \in Seq(Messages) /\ inbox[r] # <<>> /\ inbox'[r] = Tail(inbox[r])
        /\ h.chan = "events.raw" /\ At(r, "idle")
    BY <1>1, <2>1, TakesHead
  <2>3. h \in Messages /\ h.event \in RawEvents BY <2>2, MessageFields
  <2>4. m \in EventMessages BY <2>3 DEF EventMessages, EventIds
  <2>5. m \in Of(e) <=> h \in Of(e)
    <3>1. m.id[1] = h.event OBVIOUS
    <3>2. m \in Of(e) <=> m.id[1] = e BY <2>4, OfWhom
    <3>3. h \in Of(e) <=> h.event = e BY <2>2, <2>3, OfWhom
    <3>4. QED BY <3>1, <3>2, <3>3
  <2> HIDE DEF m
  <2>6. j.msg = m /\ j.at = "send_normalized" BY DEF Idle
  <2> HIDE DEF j, h
  <2>7. job'[r] = j BY <1>1, <2>1, Written
  <2>8. Republishes(r, e)' <=> h \in Of(e) BY <2>5, <2>6, <2>7 DEF Republishes
  <2>9. /\ In(inbox'[r], Of(e)) => In(inbox[r], Of(e)) /\ h \notin Of(e)
        /\ h \in Of(e) => In(inbox[r], Of(e))
        /\ Once(inbox'[r], Of(e))
    BY <2>2, InTail DEF h
  <2>10. QED BY <1>2, <2>8, <2>9
<1>5. CASE ~SendNormalized(r) /\ ~StoreEvent(r)
  <2>1. Republishes(r, e)' => Republishes(r, e) /\ inbox' = inbox
    BY <1>5, Republishing DEF Republishes
  <2>2. /\ In(inbox'[r], Of(e)) => In(inbox[r], Of(e))
        /\ Once(inbox'[r], Of(e))
    BY <1>5, NoneComes
  <2>3. QED BY <1>2, <2>1, <2>2
<1>6. QED BY <1>3, <1>4, <1>5

\* Who posts an event puts the one message of it on its way.
LEMMA MetOutside ==
  ASSUME CorrelationInv, NEW r \in Replicas, UNCHANGED job, Outside \/ UNCHANGED vars,
         NEW e \in RawEvents, MetOnce(r, e)
  PROVE  MetOnce(r, e)' /\ (e \notin unsent /\ OnItsWay(r, e)' => OnItsWay(r, e))
<1> USE DEF MetOnce, OnItsWay, Republishes
<1>1. TypeOK BY DEF CorrelationInv
<1>2. ASSUME NEW d \in RawEvents, PostEvent(d)
      PROVE  MetOnce(r, e)' /\ (e \notin unsent /\ OnItsWay(r, e)' => OnItsWay(r, e))
  <2> DEFINE m == [chan |-> "events.raw", event |-> d]
  <2>1. m \in Messages BY MessageTypes
  <2>2. m \in Of(e) <=> d = e BY <2>1, OfWhom
  <2>3. d \in unsent /\ unsent' = unsent \ {d} /\ Broadcast(m) BY <1>2 DEF PostEvent
  <2> HIDE DEF m
  <2>4. /\ In(inbox'[r], Of(e)) => In(inbox[r], Of(e)) \/ d = e
        /\ Once(inbox'[r], Of(e))
    BY <1>1, <2>1, <2>2, <2>3, Sent
  <2>5. QED BY <2>3, <2>4
<1>3. ASSUME NEW s \in Scans, PostScan(s)
      PROVE  MetOnce(r, e)' /\ (e \notin unsent /\ OnItsWay(r, e)' => OnItsWay(r, e))
  <2>1. PICK m \in Messages : m.chan \in ScanChannels /\ Broadcast(m)
    BY <1>3, MessageTypes DEF PostScan
  <2>2. m \notin Of(e) BY <2>1, OfWhom
  <2>3. unsent' = unsent \ {s} BY <1>3 DEF PostScan
  <2>4. /\ In(inbox'[r], Of(e)) => In(inbox[r], Of(e))
        /\ Once(inbox'[r], Of(e))
    BY <1>1, <2>1, <2>2, Sent
  <2>5. QED BY <2>3, <2>4
<1>4. CASE UNCHANGED <<inbox, unsent>> BY <1>4
<1>5. QED BY <1>2, <1>3, <1>4 DEF Outside, Expire, Forget, vars

-----------------------------------------------------------------------------
\* What a window counts.

Pending(e) == \E r \in Replicas : OnItsWay(r, e)

\* The posted failures of a source that nobody will count any more: they were
\* counted, or lost.
Counted(s) == {e \in RawEvents \ unsent : /\ EventOf[e].type = "login_failed"
                                          /\ SourceOf(EventOf[e]) = s /\ ~Pending(e)}

\* A window never counts more than that, and who claims a brute force has counted.
WindowsTrue == \A s \in Sources : failures[s] <= Cardinality(Counted(s))

Enough(tenant, ip) == Cardinality(PostedFailures(tenant, ip)) >= 5

Justified(r) == job[r].at \in {"lookup", "commit"} /\ job[r].ctx.key = "bruteforce_login" =>
                  Enough(Ev(r).tenant, job[r].ctx.ip)

CasesJustified ==
  \A i \in DOMAIN incidents : incidents[i].ctx.key = "bruteforce_login" =>
    Enough(incidents[i].tenant, incidents[i].ctx.ip)

CountInv ==
  /\ IsFiniteSet(RawEvents \ unsent)
  /\ \A r \in Replicas : \A e \in RawEvents : MetOnce(r, e)
  /\ WindowsTrue /\ CasesJustified
  /\ \A r \in Replicas : Justified(r)

\* The larger of two finite sets has no fewer members.
LEMMA Larger ==
  ASSUME NEW T, IsFiniteSet(T), NEW S \in SUBSET T
  PROVE  /\ IsFiniteSet(S) /\ Cardinality(S) \in Nat /\ Cardinality(T) \in Nat
         /\ Cardinality(S) <= Cardinality(T)
BY FS_Subset, FS_CardinalityType

\* What was posted stays so.
LEMMA EnoughStays ==
  ASSUME IsFiniteSet(RawEvents \ unsent'), unsent' \subseteq unsent, NEW t, NEW ip, Enough(t, ip)
  PROVE  Enough(t, ip)'
<1>1. PICK S : S = PostedFailures(t, ip) OBVIOUS
<1>2. PICK T : T = PostedFailures(t, ip)' OBVIOUS
<1>3. S \subseteq T /\ T \subseteq RawEvents \ unsent' BY <1>1, <1>2 DEF PostedFailures
<1>4. IsFiniteSet(T) BY <1>3, Larger
<1>5. Cardinality(S) <= Cardinality(T) /\ Cardinality(S) \in Nat /\ Cardinality(T) \in Nat
  BY <1>3, <1>4, Larger
<1>6. QED BY <1>1, <1>2, <1>5 DEF Enough

\* A full window is evidence enough.
LEMMA FullWindow ==
  ASSUME WindowsTrue', IsFiniteSet(RawEvents \ unsent), unsent' = unsent, NEW s \in Sources,
         failures'[s] \in Nat, failures'[s] >= 5
  PROVE  Enough(s[1], s[2])'
<1> DEFINE P == {e \in RawEvents \ unsent : /\ EventOf[e].type = "login_failed"
                                            /\ EventOf[e].tenant = s[1] /\ EventOf[e].ip = s[2]}
<1>1. s = <<s[1], s[2]>> BY DEF Sources
<1>2. PICK C : C = Counted(s)' OBVIOUS
<1>3. C \subseteq P BY <1>1, <1>2 DEF Counted, SourceOf
<1>4. IsFiniteSet(P) BY Larger
<1>5. Cardinality(C) \in Nat /\ Cardinality(P) \in Nat /\ Cardinality(C) <= Cardinality(P)
  BY <1>3, <1>4, Larger
<1>6. failures'[s] <= Cardinality(C) BY <1>2 DEF WindowsTrue
<1>7. Cardinality(P) >= 5 BY <1>5, <1>6
<1>8. QED BY <1>7 DEF Enough, PostedFailures

\* Who counts an event takes the only message of it.
LEMMA CountTakes ==
  ASSUME CorrelationInv, NEW r \in Replicas, CountFailure(r),
         \A e \in RawEvents : MetOnce(r, e)
  PROVE  \E e \in RawEvents \ unsent :
           /\ EventOf[e] = EventIn(Head(inbox[r])) /\ OnItsWay(r, e) /\ ~OnItsWay(r, e)'
<1> DEFINE m == Head(inbox[r])
           e == m.id[1]
<1>1. TypeOK /\ Take(r, {"events.normalized"}) BY DEF CorrelationInv, CountFailure
<1>2. /\ inbox[r] \in Seq(Messages) /\ inbox[r] # <<>> /\ inbox'[r] = Tail(inbox[r])
      /\ At(r, "idle")
  BY <1>1, TakesHead
<1>3. m \in EventMessages /\ e \in RawEvents BY <1>1, Taken DEF EventMessages, EventIds
<1>4. m \in Of(e) BY <1>3, OfWhom
<1>5. EventOf[e] = EventIn(m) BY DEF EventIn
<1>6. PICK d \in RawEvents : d = e BY <1>3
<1>7. MetOnce(r, d) BY <1>6
<1>8. In(inbox[r], Of(d)) /\ ~In(inbox'[r], Of(d))
  BY <1>2, <1>4, <1>6, <1>7, InTail DEF MetOnce
<1>9. job'[r].at # "send_normalized"
  BY <1>2, CountMoves DEF Looks
<1>10. OnItsWay(r, d) /\ ~OnItsWay(r, d)' /\ d \notin unsent
  BY <1>7, <1>8, <1>9 DEF OnItsWay, Republishes, MetOnce
<1>11. QED BY <1>5, <1>6, <1>10

\* Windows stay true: each step counts at most one event that it takes for good.
LEMMA WindowsStep ==
  ASSUME OneReplica, CorrelationInv, AllOnTheWay, CountInv, NEW r \in Replicas, ReplicaStep(r),
         unsent' = unsent
  PROVE  WindowsTrue'
<1> SUFFICES ASSUME NEW s \in Sources PROVE failures'[s] <= Cardinality(Counted(s)')
  BY DEF WindowsTrue
<1>1. \A e \in RawEvents : MetOnce(r, e) /\ (OnItsWay(r, e)' => OnItsWay(r, e))
  BY MetStep DEF CountInv, AllOnTheWay
<1>2. \A q \in Replicas : q = r BY DEF OneReplica
<1>3. \A e \in RawEvents : /\ Pending(e) <=> OnItsWay(r, e)
                           /\ Pending(e)' <=> OnItsWay(r, e)'
  BY <1>2 DEF Pending
<1>4. PICK S : S = Counted(s) OBVIOUS
<1>5. PICK T : T = Counted(s)' OBVIOUS
<1>6. S \subseteq T BY <1>1, <1>3, <1>4, <1>5 DEF Counted
<1>7. IsFiniteSet(T) /\ IsFiniteSet(S)
  <2>1. T \subseteq RawEvents \ unsent BY <1>5 DEF Counted
  <2>2. QED BY <1>6, <2>1, Larger DEF CountInv
<1>8. Cardinality(S) <= Cardinality(T) /\ Cardinality(S) \in Nat /\ Cardinality(T) \in Nat
  BY <1>6, <1>7, Larger
<1>9. failures[s] <= Cardinality(S) /\ failures[s] \in Nat
  BY <1>4 DEF CountInv, WindowsTrue, CorrelationInv, TypeOK
<1>10. CASE failures'[s] = failures[s] BY <1>5, <1>8, <1>9, <1>10
<1>11. CASE CountFailure(r) /\ failures'[s] # failures[s]
  <2>1. PICK e \in RawEvents \ unsent :
          EventOf[e] = EventIn(Head(inbox[r])) /\ OnItsWay(r, e) /\ ~OnItsWay(r, e)'
    BY <1>1, <1>11, CountTakes
  <2> DEFINE t == SourceOf(EventIn(Head(inbox[r])))
  <2>2. /\ EventIn(Head(inbox[r])).type = "login_failed" /\ t \in Sources
        /\ failures' = [failures EXCEPT ![t] = failures[t] + 1]
    BY <1>11, CountMoves
  <2>3. failures \in [Sources -> Nat] BY DEF CorrelationInv, TypeOK
  <2>4. t = s /\ failures'[s] = failures[s] + 1
    <3> HIDE DEF t
    <3>1. QED BY <1>11, <2>2, <2>3
  <2>5. e \notin S BY <1>3, <1>4, <2>1 DEF Counted
  <2>6. e \in T BY <1>3, <1>5, <2>1, <2>2, <2>4 DEF Counted
  <2>7. S \union {e} \subseteq T BY <1>6, <2>6
  <2>8. IsFiniteSet(S \union {e}) /\ Cardinality(S \union {e}) = Cardinality(S) + 1
    BY <1>7, <2>5, FS_AddElement
  <2>9. Cardinality(S \union {e}) <= Cardinality(T) BY <1>7, <2>7, Larger
  <2>10. QED BY <1>5, <1>8, <1>9, <2>4, <2>8, <2>9
<1>12. CountFailure(r) \/ failures' = failures
  BY DEF ReplicaStep, LoopStep, IntegrationStep, DetectionStep, ThreatIntelStep, OrchestratorStep,
         StoreEvent, SendNormalized, CheckSuccess, SoundAlarm, IgnoreEvent, Drop, CheckTravel,
         SetLast, LookUp, Fold, Open, Remember, Announce, ReportDomain, ReportPackages,
         FileReport, LookUpAddress, CheckIndicator, PutIndicator, LoadIncident, Enrich,
         SendEnriched, Classify, SendClassified, Raise, Crash, Restart
<1>13. QED BY <1>10, <1>11, <1>12

\* Who starts to look for a brute force has counted enough.
LEMMA LooksJustified ==
  ASSUME WindowsTrue', IsFiniteSet(RawEvents \ unsent), unsent' = unsent, TypeOK',
         NEW r, NEW m, NEW after, Looks(r, m, "bruteforce_login", after),
         SourceOf(EventIn(m)) \in Sources, failures'[SourceOf(EventIn(m))] >= 5
  PROVE  Justified(r)'
<1>1. PICK t, ip : t = EventIn(m).tenant /\ ip = EventIn(m).ip OBVIOUS
<1> DEFINE s == <<t, ip>>
<1>2. s = SourceOf(EventIn(m)) BY <1>1 DEF SourceOf
<1>3. failures'[s] \in Nat /\ failures'[s] >= 5 /\ s \in Sources BY <1>2 DEF TypeOK
<1>4. Enough(s[1], s[2])' BY <1>3, FullWindow
<1>5. Enough(t, ip)' BY <1>4
<1>6. t = (Ev(r).tenant)' /\ ip = (job[r].ctx.ip)' BY <1>1 DEF Looks, Ev
<1>7. Enough(Ev(r).tenant, job[r].ctx.ip)' BY <1>5, <1>6 DEF Enough, PostedFailures
<1>8. QED BY <1>7 DEF Justified

LEMMA JustifiedStep ==
  ASSUME CorrelationInv, AllOnTheWay, CountInv, NEW r \in Replicas, ReplicaStep(r),
         unsent' = unsent, WindowsTrue'
  PROVE  Justified(r)'
<1>1. TypeOK /\ TypeOK' /\ Justified(r) /\ IsFiniteSet(RawEvents \ unsent)
  BY EveryEffect DEF CorrelationInv, CountInv, Effect
<1>2. ASSUME job'[r].at \notin {"lookup", "commit"} \/ job'[r].ctx.key # "bruteforce_login"
      PROVE  Justified(r)'
  BY <1>2 DEF Justified
<1>3. ASSUME job'[r].msg = job[r].msg, job'[r].ctx = job[r].ctx,
             job[r].at \in {"lookup", "commit"}
      PROVE  Justified(r)'
  <2>1. Ev(r)' = Ev(r) BY <1>3 DEF Ev
  <2>2. CASE job[r].ctx.key = "bruteforce_login"
    <3>1. PICK t, ip : t = Ev(r).tenant /\ ip = job[r].ctx.ip OBVIOUS
    <3>2. Enough(t, ip) BY <1>1, <1>3, <2>2, <3>1 DEF Justified, Enough, PostedFailures
    <3>3. Enough(Ev(r).tenant, job[r].ctx.ip)' BY <1>3, <2>1, <3>1, <3>2 DEF Enough, PostedFailures
    <3>4. QED BY <3>3 DEF Justified
  <2>3. QED BY <1>2, <1>3, <2>2
<1>4. CASE QuietStep(r) BY <1>2, <1>4, QuietSteps DEF Quiet, AllOnTheWay
<1>5. CASE job' = job BY <1>2, <1>3, <1>5
<1>6. CASE CountFailure(r)
  <2> DEFINE m == Head(inbox[r])
             s == SourceOf(EventIn(m))
  <2>1. /\ s \in Sources /\ failures' = [failures EXCEPT ![s] = failures[s] + 1]
        /\ \/ failures[s] + 1 >= 5 /\ Looks(r, m, "bruteforce_login", "idle")
           \/ job' = job
    BY <1>6, CountMoves
  <2> HIDE DEF m
  <2>2. failures'[s] = failures[s] + 1
    <3> HIDE DEF s
    <3>1. QED BY <1>1, <2>1 DEF TypeOK
  <2>3. QED BY <1>1, <1>5, <2>1, <2>2, LooksJustified
<1>7. CASE CheckSuccess(r)
  <2> DEFINE m == Head(inbox[r])
             s == SourceOf(EventIn(m))
  <2>1. /\ s \in Sources
        /\ \/ /\ failures[s] >= 5
              /\ \E after \in {"idle", "travel"} : Looks(r, m, "bruteforce_login", after)
           \/ job'[r].at = "travel"
           \/ job' = job
    BY <1>7, SuccessMoves
  <2> HIDE DEF m
  <2>2. failures' = failures BY <1>7 DEF CheckSuccess
  <2>3. QED BY <1>1, <1>2, <1>5, <2>1, <2>2, LooksJustified
<1>8. CASE SoundAlarm(r) BY <1>2, <1>8, AlarmMoves DEF Looks
<1>9. CASE CheckTravel(r) BY <1>2, <1>9, TravelMoves DEF Looks, Idle
<1>10. CASE SetLast(r) BY <1>1, <1>2, <1>10, Done DEF SetLast, Idle
<1>11. CASE LookUp(r) BY <1>1, <1>3, <1>11, LookUpMoves DEF Same
<1>12. CASE Open(r) \/ Remember(r) BY <1>1, <1>2, <1>12, OpenMoves, RememberMoves
<1>13. CASE Fold(r) \/ Announce(r)
  <2>1. Continue(r) /\ job[r].after \in {"idle", "travel", "set_last"}
    BY <1>1, <1>13, JobOf DEF Fold, Announce
  <2>2. QED BY <1>1, <1>2, <2>1, ContinueMoves DEF Idle
<1>14. CASE Restart(r) BY <1>5, <1>14 DEF Restart
<1>15. QED
  BY <1>4, <1>6, <1>7, <1>8, <1>9, <1>10, <1>11, <1>12, <1>13, <1>14, StepKinds

\* A case of a brute force was opened by who had counted, and stays one.
LEMMA CasesStep ==
  ASSUME CorrelationInv, CountInv, NEW r \in Replicas, ReplicaStep(r), unsent' = unsent
  PROVE  CasesJustified'
<1> SUFFICES ASSUME NEW i \in DOMAIN incidents', incidents'[i].ctx.key = "bruteforce_login"
             PROVE  Enough(incidents[i].tenant, incidents[i].ctx.ip)'
  BY DEF CasesJustified
<1>1. Kept /\ CasesJustified /\ Justified(r) /\ JobNames(r)
  BY EveryEffect DEF Effect, CountInv, CorrelationInv
<1>2. CASE i \in DOMAIN incidents
  <2>1. incidents[i].ctx.key = "bruteforce_login" /\ incidents'[i].ctx.ip = incidents[i].ctx.ip
        /\ incidents'[i].tenant = incidents[i].tenant
    BY <1>1, <1>2 DEF Kept
  <2>2. Enough(incidents[i].tenant, incidents[i].ctx.ip) BY <1>1, <1>2, <2>1 DEF CasesJustified
  <2>3. QED BY <2>1, <2>2 DEF Enough, PostedFailures
<1>3. CASE i \notin DOMAIN incidents
  <2>1. ASSUME Open(r) PROVE Enough(incidents[i].tenant, incidents[i].ctx.ip)'
    <3>1. incidents'[i].ctx = job[r].ctx /\ incidents'[i].tenant = Ev(r).tenant
      BY <1>3, <2>1, OpenEffect
    <3>2. Enough(Ev(r).tenant, job[r].ctx.ip) BY <1>1, <2>1, <3>1 DEF Justified, Open
    <3>3. QED BY <3>1, <3>2 DEF Enough, PostedFailures
  <2>2. CASE Fold(r) BY <1>3, <2>2, FoldEffect
  <2>3. CASE ReportDomain(r) \/ ReportPackages(r)
    <3> DEFINE n == job'[r].inc
    <3>1. DOMAIN incidents' = DOMAIN incidents \union {n} /\ incidents'[n].ctx = NoContext
      BY <2>3, ScanStep
    <3> HIDE DEF n
    <3>2. incidents'[i].ctx = NoContext BY <1>3, <3>1
    <3>3. QED BY <3>2 DEF NoContext
  <2>4. CASE Enrich(r) BY <1>3, <2>4, EnrichEffect
  <2>5. CASE Classify(r) BY <1>3, <2>5, ClassifyEffect
  <2>6. QED BY <1>3, <2>1, <2>2, <2>3, <2>4, <2>5, RowsChange
<1>4. QED BY <1>2, <1>3

\* Users post, and time passes: windows lose, and what is posted only grows.
LEMMA CountOutside ==
  ASSUME CorrelationInv, CountInv, UNCHANGED <<incidents, job>>, Outside \/ UNCHANGED vars
  PROVE  CountInv'
<1>1. \A r \in Replicas : \A e \in RawEvents :
        MetOnce(r, e)' /\ (e \notin unsent /\ OnItsWay(r, e)' => OnItsWay(r, e))
  BY MetOutside DEF CountInv
<1>2. /\ IsFiniteSet(RawEvents \ unsent) /\ CasesJustified /\ WindowsTrue
      /\ \A r \in Replicas : Justified(r)
  BY DEF CountInv
<1>3. unsent' \subseteq unsent /\ \E x : unsent' = unsent \/ unsent' = unsent \ {x}
  BY DEF Outside, PostEvent, PostScan, Expire, Forget, vars
<1>4. IsFiniteSet(RawEvents \ unsent')
  <2>1. PICK x : unsent' = unsent \/ unsent' = unsent \ {x} BY <1>3
  <2>2. RawEvents \ unsent' \subseteq (RawEvents \ unsent) \union {x} BY <2>1
  <2>3. IsFiniteSet((RawEvents \ unsent) \union {x}) BY <1>2, FS_AddElement
  <2>4. QED BY <2>2, <2>3, Larger
<1>5. \A t, ip : Enough(t, ip) => Enough(t, ip)' BY <1>3, <1>4, EnoughStays
<1>6. \A r \in Replicas : Justified(r)'
  <2> SUFFICES ASSUME NEW r \in Replicas, (job[r].at \in {"lookup", "commit"})',
                      (job[r].ctx.key = "bruteforce_login")'
               PROVE  Enough(Ev(r).tenant, job[r].ctx.ip)'
    BY DEF Justified
  <2>1. PICK t, ip : t = Ev(r).tenant /\ ip = job[r].ctx.ip OBVIOUS
  <2>2. Enough(t, ip) BY <1>2, <2>1 DEF Justified, Enough, PostedFailures
  <2>3. Enough(t, ip)' BY <1>5, <2>2
  <2>4. QED BY <2>1, <2>3 DEF Ev, Enough, PostedFailures
<1>7. CasesJustified'
  <2> SUFFICES ASSUME NEW i \in DOMAIN incidents, incidents[i].ctx.key = "bruteforce_login"
               PROVE  Enough(incidents[i].tenant, incidents[i].ctx.ip)'
    BY DEF CasesJustified
  <2>1. PICK t, ip : t = incidents[i].tenant /\ ip = incidents[i].ctx.ip OBVIOUS
  <2>2. Enough(t, ip) BY <1>2, <2>1 DEF CasesJustified, Enough, PostedFailures
  <2>3. Enough(t, ip)' BY <1>5, <2>2
  <2>4. QED BY <2>1, <2>3 DEF Enough, PostedFailures
<1>8. ASSUME NEW s \in Sources PROVE failures'[s] <= Cardinality(Counted(s)')
  <2>1. PICK S, T : S = Counted(s) /\ T = Counted(s)' OBVIOUS
  <2>2. S \subseteq T
    <3> SUFFICES ASSUME NEW e \in S PROVE e \in T
      OBVIOUS
    <3>1. e \in RawEvents \ unsent /\ ~Pending(e) BY <2>1 DEF Counted
    <3>2. ~Pending(e)' BY <1>1, <3>1 DEF Pending
    <3>3. QED BY <1>3, <2>1, <3>1, <3>2 DEF Counted
  <2>3. T \subseteq RawEvents \ unsent' BY <2>1 DEF Counted
  <2>4. Cardinality(S) <= Cardinality(T) /\ Cardinality(S) \in Nat /\ Cardinality(T) \in Nat
    BY <1>4, <2>2, <2>3, Larger
  <2>5. failures[s] <= Cardinality(S) /\ failures[s] \in Nat
    BY <1>2, <2>1 DEF WindowsTrue, CorrelationInv, TypeOK
  <2>6. failures \in [Sources -> Nat] BY DEF CorrelationInv, TypeOK
  <2>7. failures'[s] \in Nat /\ failures'[s] <= failures[s]
    <3>1. CASE failures' = failures BY <2>5, <3>1
    <3>2. ASSUME NEW u \in Sources, Expire(u) PROVE failures'[s] \in Nat /\ failures'[s] <= failures[s]
      <4>1. failures' = [failures EXCEPT ![u] = failures[u] - 1] /\ failures[u] > 0
        BY <3>2 DEF Expire
      <4>2. QED BY <2>5, <2>6, <4>1
    <3>3. QED BY <3>1, <3>2 DEF Outside, PostEvent, PostScan, Forget, vars
  <2>8. QED BY <2>1, <2>4, <2>5, <2>7
<1>9. QED BY <1>1, <1>4, <1>6, <1>7, <1>8 DEF CountInv, WindowsTrue

LEMMA CountInvariant == ASSUME OneReplica PROVE Spec => []CountInv
<1>1. Init => CountInv
  <2> SUFFICES ASSUME Init PROVE CountInv
    OBVIOUS
  <2>1. RawEvents \ unsent = {} BY DEF Init
  <2>2. ASSUME NEW s \in Sources PROVE failures[s] <= Cardinality(Counted(s))
    <3>1. Counted(s) = {} BY <2>1 DEF Counted
    <3>2. QED BY <3>1, FS_EmptySet DEF Init
  <2>3. ASSUME NEW r \in Replicas, NEW e \in RawEvents PROVE MetOnce(r, e)
    <3>1. inbox[r] = <<>> /\ job[r].at = "idle" BY DEF Init, Idle
    <3>2. QED BY <3>1 DEF MetOnce, OnItsWay, Republishes, In, Once
  <2>4. CasesJustified /\ \A r \in Replicas : Justified(r)
    BY DEF Init, Idle, CasesJustified, Justified
  <2>5. QED BY <2>1, <2>2, <2>3, <2>4, FS_EmptySet DEF CountInv, WindowsTrue
<1>2. CorrelationInv /\ AllOnTheWay /\ CountInv /\ [Next]_vars => CountInv'
  <2> SUFFICES ASSUME CorrelationInv, AllOnTheWay, CountInv, [Next]_vars PROVE CountInv'
    OBVIOUS
  <2>1. ASSUME NEW r \in Replicas, ReplicaStep(r) PROVE CountInv'
    <3>1. unsent' = unsent
      BY <2>1
      DEF ReplicaStep, LoopStep, IntegrationStep, DetectionStep, ThreatIntelStep,
          OrchestratorStep, StoreEvent, SendNormalized, CountFailure, CheckSuccess, SoundAlarm,
          IgnoreEvent, Drop, CheckTravel, SetLast, LookUp, Fold, Open, Remember, Announce, ReportDomain,
          ReportPackages, FileReport, LookUpAddress, CheckIndicator, PutIndicator, LoadIncident,
          Enrich, SendEnriched, Classify, SendClassified, Raise, Crash, Restart
    <3>2. WindowsTrue' BY <2>1, <3>1, OneReplica, WindowsStep
    <3>3. Justified(r)' /\ CasesJustified' BY <2>1, <3>1, <3>2, JustifiedStep, CasesStep
    <3>4. \A e \in RawEvents : MetOnce(r, e)' BY <2>1, MetStep DEF CountInv, AllOnTheWay
    <3>5. \A q \in Replicas : q = r BY OneReplica DEF OneReplica
    <3>6. QED BY <3>1, <3>2, <3>3, <3>4, <3>5 DEF CountInv
  <2>2. CASE /\ UNCHANGED <<incidents, indicators, cache, outbox, job>>
             /\ Outside \/ UNCHANGED vars
    BY <2>2, CountOutside
  <2>3. QED BY <2>1, <2>2, StepCases
<1>3. QED BY <1>1, <1>2, CorrelationInvariant, WayInvariant, PTL DEF Spec

\* On one process, a case of a brute force stands on five failed logins that were
\* posted from its address to its tenant: whatever is lost, folded, expires or crashes,
\* no event is counted twice (detection.py:25-29 and 70-74, state_store.py).
THEOREM BruteForcesAreReal == ASSUME OneReplica PROVE Spec => []BruteForceHasFiveFailures
<1>1. CountInv => BruteForceHasFiveFailures
  BY DEF CountInv, CasesJustified, Enough, BruteForceHasFiveFailures
<1>2. QED BY <1>1, CountInvariant, PTL

-----------------------------------------------------------------------------
\* A campaign is one case.

Triple(i) == <<incidents[i].tenant, incidents[i].ctx.key, incidents[i].ctx.ip>>

OneCase == \A i, k \in DOMAIN incidents : Triple(i) = Triple(k) /\ Triple(i) \in CampaignsOf => i = k

StaysOpen == \A i \in DOMAIN incidents : incidents[i].ctx.key # "none" => incidents[i].status = "open"

\* Who is about to open a case has seen that there is none, cached or stored.
Fresh(r) == At(r, "commit") /\ job[r].inc = 0 /\ job[r].ctx.ip # NoIp =>
              \A i \in DOMAIN incidents : Triple(i) # DedupKey(r)

CaseInv == OneCase /\ StaysOpen /\ \A r \in Replicas : Fresh(r)

LEMMA TripleStays ==
  ASSUME Kept, NEW i \in DOMAIN incidents
  PROVE  i \in DOMAIN incidents' /\ Triple(i)' = Triple(i)
BY DEF Kept, Triple

\* What a new row is, and that no row changes its status.
LEMMA RowsAppear ==
  ASSUME CorrelationInv, NEW r \in Replicas, ReplicaStep(r), NEW i \in DOMAIN incidents'
  PROVE  /\ i \in DOMAIN incidents => incidents'[i].status = incidents[i].status
         /\ i \notin DOMAIN incidents =>
              \/ /\ Open(r) /\ i = Len(incidents') /\ incidents'[i].status = "open"
                 /\ Triple(i)' = DedupKey(r)
              \/ incidents'[i].ctx.key = "none"
<1>1. CASE UNCHANGED incidents BY <1>1
<1>2. CASE Fold(r) BY <1>2, FoldEffect
<1>3. CASE Open(r) BY <1>3, OpenEffect DEF Triple, DedupKey
<1>4. CASE ReportDomain(r) \/ ReportPackages(r)
  <2> DEFINE n == job'[r].inc
  <2>1. /\ DOMAIN incidents' = DOMAIN incidents \union {n} /\ incidents'[n].ctx = NoContext
        /\ \A k \in DOMAIN incidents : incidents'[k] = incidents[k]
    BY <1>4, ScanStep
  <2> HIDE DEF n
  <2>2. i \notin DOMAIN incidents => incidents'[i].ctx = NoContext BY <2>1
  <2>3. QED BY <2>1, <2>2 DEF NoContext
<1>5. CASE Enrich(r) BY <1>5, EnrichEffect
<1>6. CASE Classify(r) BY <1>6, ClassifyEffect
<1>7. QED BY <1>1, <1>2, <1>3, <1>4, <1>5, <1>6, RowsChange

LEMMA CommitsAfterLookUp ==
  ASSUME CorrelationInv, NEW r \in Replicas, OnTheWay(r), ReplicaStep(r), job'[r].at = "commit"
  PROVE  LookUp(r) \/ UNCHANGED <<job, incidents>>
<1>1. TypeOK BY DEF CorrelationInv
<1>2. CASE QuietStep(r) BY <1>2, QuietSteps DEF Quiet
<1>3. CASE CountFailure(r) \/ CheckSuccess(r) \/ SoundAlarm(r)
  <2>1. job' # job BY <1>3 DEF CountFailure, CheckSuccess, SoundAlarm, Take
  <2>2. QED BY <1>3, <2>1, CountMoves, SuccessMoves, AlarmMoves DEF Looks
<1>4. CASE CheckTravel(r) BY <1>4, TravelMoves DEF Looks, Idle
<1>5. CASE SetLast(r) BY <1>1, <1>5, Done DEF SetLast, Idle
<1>6. CASE Open(r) \/ Remember(r) BY <1>1, <1>6, OpenMoves, RememberMoves
<1>7. CASE Fold(r) \/ Announce(r)
  <2>1. Continue(r) /\ job[r].after \in {"idle", "travel", "set_last"}
    BY <1>1, <1>7, JobOf DEF Fold, Announce
  <2>2. QED BY <1>1, <2>1, ContinueMoves DEF Idle
<1>8. CASE Restart(r) BY <1>8 DEF Restart
<1>9. QED BY <1>2, <1>3, <1>4, <1>5, <1>6, <1>7, <1>8, StepKinds

LEMMA FreshStep ==
  ASSUME CorrelationInv, StaysOpen, NEW r \in Replicas, OnTheWay(r), Fresh(r), ReplicaStep(r)
  PROVE  Fresh(r)'
<1>1. TypeOK /\ JobNames(r) BY DEF CorrelationInv
<1>2. CASE UNCHANGED <<job, incidents>>
  <2>1. DedupKey(r)' = DedupKey(r) BY <1>2 DEF DedupKey, Ev
  <2>2. \A i \in DOMAIN incidents : Triple(i)' = Triple(i) BY <1>2 DEF Triple
  <2>3. QED BY <1>2, <2>1, <2>2 DEF Fresh
<1>3. CASE LookUp(r)
  <2>1. job[r].inc = 0 /\ Detects(r) /\ incidents' = incidents
    BY <1>1, <1>3 DEF LookUp, JobNames
  <2>2. /\ job'[r].msg = job[r].msg /\ job'[r].ctx = job[r].ctx
        /\ job'[r].inc = 0 => Candidates(Ev(r).tenant, job[r].ctx) = {}
    BY <1>1, <1>3, LookUpMoves DEF Same
  <2>3. DedupKey(r)' = DedupKey(r) BY <2>2 DEF DedupKey, Ev
  <2>4. ASSUME Candidates(Ev(r).tenant, job[r].ctx) = {}, job[r].ctx.ip # NoIp,
               NEW i \in DOMAIN incidents
        PROVE  Triple(i) # DedupKey(r)
    <3> SUFFICES ASSUME Triple(i) = DedupKey(r) PROVE FALSE
      OBVIOUS
    <3>1. /\ incidents[i].tenant = Ev(r).tenant /\ incidents[i].ctx.key = job[r].ctx.key
          /\ incidents[i].ctx.ip = job[r].ctx.ip
      BY DEF Triple, DedupKey
    <3>2. incidents[i].status = "open" BY <2>1, <3>1 DEF Detects, Keys, StaysOpen
    <3>3. QED BY <2>4, <3>1, <3>2 DEF Candidates
  <2>5. \A i \in DOMAIN incidents : Triple(i)' = Triple(i) BY <2>1 DEF Triple
  <2>6. QED BY <2>1, <2>2, <2>3, <2>4, <2>5 DEF Fresh
<1>4. QED BY <1>2, <1>3, CommitsAfterLookUp DEF Fresh

LEMMA CaseStep ==
  ASSUME CorrelationInv, CaseInv, NEW r \in Replicas, ReplicaStep(r)
  PROVE  OneCase' /\ StaysOpen'
<1>1. Kept BY EveryEffect DEF Effect
<1>2. ASSUME NEW i \in DOMAIN incidents', incidents'[i].ctx.key # "none"
      PROVE  incidents'[i].status = "open"
  BY <1>1, <1>2, RowsAppear DEF CaseInv, StaysOpen, Kept
<1>3. ASSUME NEW i \in DOMAIN incidents', i \notin DOMAIN incidents, Triple(i)' \in CampaignsOf
      PROVE  /\ i = Len(incidents')
             /\ \A k \in DOMAIN incidents : Triple(k)' # Triple(i)'
  <2>1. incidents'[i].ctx.key # "none" BY <1>3 DEF Triple, CampaignsOf, Keys
  <2>2. Open(r) /\ i = Len(incidents') /\ Triple(i)' = DedupKey(r) BY <1>3, <2>1, RowsAppear
  <2>3. job[r].ctx.ip # NoIp BY <1>3, <2>2, CorrelationAssumption DEF DedupKey, CampaignsOf
  <2>4. \A k \in DOMAIN incidents : Triple(k) # DedupKey(r)
    BY <2>2, <2>3 DEF CaseInv, Fresh, Open
  <2>5. QED BY <1>1, <2>2, <2>4, TripleStays
<1>4. ASSUME NEW i \in DOMAIN incidents', NEW k \in DOMAIN incidents',
             Triple(i)' = Triple(k)', Triple(i)' \in CampaignsOf
      PROVE  i = k
  <2>1. CASE i \in DOMAIN incidents /\ k \in DOMAIN incidents
    BY <1>1, <1>4, <2>1, TripleStays DEF CaseInv, OneCase
  <2>2. CASE i \notin DOMAIN incidents BY <1>3, <1>4, <2>2
  <2>3. CASE k \notin DOMAIN incidents BY <1>3, <1>4, <2>3
  <2>4. QED BY <2>1, <2>2, <2>3
<1>5. QED BY <1>2, <1>4 DEF OneCase, StaysOpen

LEMMA CaseInvariant == ASSUME OneReplica PROVE Spec => []CaseInv
<1>1. Init => CaseInv BY DEF Init, Idle, CaseInv, OneCase, StaysOpen, Fresh
<1>2. CorrelationInv /\ AllOnTheWay /\ CaseInv /\ [Next]_vars => CaseInv'
  <2> SUFFICES ASSUME CorrelationInv, AllOnTheWay, CaseInv, [Next]_vars PROVE CaseInv'
    OBVIOUS
  <2>1. ASSUME NEW r \in Replicas, ReplicaStep(r) PROVE CaseInv'
    <3>1. OneCase' /\ StaysOpen' BY <2>1, CaseStep
    <3>2. Fresh(r)' BY <2>1, FreshStep DEF CaseInv, AllOnTheWay
    <3>3. \A q \in Replicas : q = r BY OneReplica DEF OneReplica
    <3>4. QED BY <3>1, <3>2, <3>3 DEF CaseInv
  <2>2. CASE UNCHANGED <<incidents, indicators, cache, outbox, job>>
    BY <2>2 DEF CaseInv, OneCase, StaysOpen, Fresh, Triple, DedupKey, Ev
  <2>3. QED BY <2>1, <2>2, StepCases
<1>3. QED BY <1>1, <1>2, CorrelationInvariant, WayInvariant, PTL DEF Spec

-----------------------------------------------------------------------------
\* A case is spoken of once.

\* The messages about case i.
About(i) == [chan : {"incidents.new", "incidents.enriched"}, inc : {i}, ctx : Contexts]

LEMMA AboutWhom ==
  ASSUME NEW m \in Messages, NEW i
  PROVE  m \in About(i) <=> Refers(m) /\ m.inc = i
<1>1. ASSUME Refers(m) PROVE m \in [chan : {"incidents.new", "incidents.enriched"}, inc : Nat, ctx : Contexts]
  BY <1>1 DEF Messages, EventMessages, ScanChannels, Refers
<1>2. m \in About(i) => Refers(m) /\ m.inc = i BY DEF About, Refers
<1>3. ASSUME Refers(m), m.inc = i PROVE m \in About(i)
  <2>1. /\ m = [chan |-> m.chan, inc |-> m.inc, ctx |-> m.ctx]
        /\ m.chan \in {"incidents.new", "incidents.enriched"} /\ m.ctx \in Contexts
    BY <1>1, <1>3
  <2>2. QED BY <1>3, <2>1 DEF About
<1>4. QED BY <1>2, <1>3

\* A handler that holds it, from the commit on.
Speaking == Holding \union {"remember"}
Speaks(r, i) == job[r].at \in Speaking /\ job[r].inc = i

\* There is one message or one handler of it, and neither after its answer.
Spoken(r, i) == /\ Once(inbox[r], About(i))
                /\ Speaks(r, i) => ~In(inbox[r], About(i))
                /\ Classified(i) => ~In(inbox[r], About(i)) /\ ~Speaks(r, i)

\* Nobody speaks of what is not there.
LEMMA Unknown ==
  ASSUME CorrelationInv, NEW r \in Replicas, NEW i, i \notin DOMAIN incidents
  PROVE  ~In(inbox[r], About(i)) /\ ~Speaks(r, i) /\ ~Classified(i)
<1>1. TypeOK /\ JobNames(r) /\ MessagesName /\ OutboxNames BY DEF CorrelationInv
<1>2. ~In(inbox[r], About(i))
  <2> SUFFICES ASSUME NEW n \in DOMAIN inbox[r], inbox[r][n] \in About(i) PROVE FALSE
    BY DEF In
  <2>1. Refers(inbox[r][n]) /\ inbox[r][n].inc = i BY DEF About, Refers
  <2>2. QED BY <1>1, <2>1 DEF MessagesName, Names
<1>3. ~Speaks(r, i)
  BY <1>1 DEF JobNames, Speaks, Speaking, Holding, Names, OwnCase
<1>4. ~Classified(i) BY <1>1 DEF OutboxNames, Classified
<1>5. QED BY <1>2, <1>3, <1>4

\* Who speaks after a step did so before, has just been told, or has the case new.
LEMMA SpeakerMoves ==
  ASSUME CorrelationInv, NEW r \in Replicas, ReplicaStep(r), NEW i, Speaks(r, i)'
  PROVE  \/ Speaks(r, i) /\ UNCHANGED <<inbox, outbox>>
         \/ /\ \E chans : Take(r, chans)
            /\ Head(inbox[r]) \in About(i) /\ UNCHANGED outbox
         \/ i \notin DOMAIN incidents
<1>1. TypeOK /\ JobNames(r) /\ job[r] \in Jobs BY JobOf DEF CorrelationInv
<1>2. job'[r].at \in Speaking /\ job'[r].inc = i BY DEF Speaks
<1>3. ASSUME job'[r].inc = 0 PROVE i \notin DOMAIN incidents BY <1>1, <1>2, <1>3, RowOf
<1>4. CASE StoreEvent(r) \/ CountFailure(r) \/ CheckSuccess(r) \/ SoundAlarm(r) \/ IgnoreEvent(r) \/ Drop(r)
  <2>1. (\E m, at, c, after : Begin(r, m, at, c, after)) \/ UNCHANGED job
    BY <1>4 DEF StoreEvent, CountFailure, CheckSuccess, SoundAlarm, IgnoreEvent, Drop
  <2>2. job[r].at = "idle"
    BY <1>4 DEF StoreEvent, CountFailure, CheckSuccess, SoundAlarm, IgnoreEvent, Drop, Take
  <2>3. job' # job BY <1>2, <2>2 DEF Speaking, Holding
  <2>4. QED BY <1>1, <1>3, <2>1, <2>3, Emptied
<1>5. CASE \/ SendNormalized(r) \/ SetLast(r) \/ SendEnriched(r) \/ SendClassified(r)
           \/ Raise(r) \/ Crash(r) \/ Fold(r) \/ Announce(r)
  <2>1. Finish(r) \/ Continue(r)
    BY <1>5 DEF SendNormalized, SetLast, SendEnriched, SendClassified, Raise, Crash, Fold, Announce
  <2>2. QED BY <1>1, <1>3, <2>1, Emptied
<1>6. CASE CheckTravel(r) BY <1>2, <1>6, TravelMoves DEF Looks, Idle, Speaking, Holding
<1>7. CASE LookUp(r) BY <1>2, <1>7, LookUpGoes DEF Speaking, Holding
<1>8. CASE Open(r) BY <1>1, <1>2, <1>8, OpenMoves, OpenEffect
<1>9. CASE ReportDomain(r) \/ ReportPackages(r) BY <1>2, <1>9, ScanStep
<1>10. CASE Remember(r) \/ CheckIndicator(r) \/ PutIndicator(r) \/ Enrich(r)
  <2>1. (\E at : Goto(r, at)) \/ Finish(r)
    BY <1>10 DEF Remember, CheckIndicator, PutIndicator, Enrich
  <2>2. job[r].at \in Speaking /\ UNCHANGED <<inbox, outbox>>
    BY <1>10 DEF Remember, CheckIndicator, PutIndicator, Enrich, Speaking, Holding
  <2>3. CASE Finish(r) BY <1>1, <1>3, <2>3, Emptied
  <2>4. ASSUME NEW at, Goto(r, at) PROVE Speaks(r, i)
    <3>1. job'[r].inc = job[r].inc BY <1>1, <2>4, GoesOn
    <3>2. QED BY <1>2, <2>2, <3>1 DEF Speaks
  <2>5. QED BY <2>1, <2>2, <2>3, <2>4
<1>11. CASE LoadIncident(r)
  <2>1. job'[r].inc = job[r].inc BY <1>1, <1>11 DEF LoadIncident, Jobs, TypeOK
  <2>2. job[r].at \in Speaking /\ UNCHANGED <<inbox, outbox>>
    BY <1>11 DEF LoadIncident, Speaking, Holding
  <2>3. QED BY <1>2, <2>1, <2>2 DEF Speaks
<1>12. ASSUME NEW chans \in SUBSET {"incidents.new", "incidents.enriched"}, Take(r, chans),
              job'[r].inc = Head(inbox[r]).inc
       PROVE  Head(inbox[r]) \in About(i)
  <2>1. Head(inbox[r]) \in Messages /\ Refers(Head(inbox[r])) BY <1>1, <1>12, Taking DEF Refers
  <2>2. QED BY <1>2, <1>12, <2>1, AboutWhom
<1>13. CASE LookUpAddress(r)
  <2>1. Take(r, {"incidents.new"}) /\ UNCHANGED outbox BY <1>13 DEF LookUpAddress
  <2>2. job'[r].inc = Head(inbox[r]).inc BY <1>1, <1>13 DEF LookUpAddress, Idle, TypeOK
  <2>3. QED BY <1>12, <2>1, <2>2
<1>14. CASE Classify(r)
  <2>1. Take(r, {"incidents.enriched"}) /\ UNCHANGED outbox BY <1>14 DEF Classify
  <2>2. job'[r].inc = Head(inbox[r]).inc BY <1>14, ClassifyEffect
  <2>3. QED BY <1>12, <2>1, <2>2
<1>15. CASE Restart(r) BY <1>15 DEF Restart, Speaks
<1>16. QED
  BY <1>4, <1>5, <1>6, <1>7, <1>8, <1>9, <1>10, <1>11, <1>13, <1>14, <1>15
  DEF ReplicaStep, LoopStep, IntegrationStep, DetectionStep, ThreatIntelStep, OrchestratorStep

\* A message of case i comes in only from who speaks of it.
LEMMA NoNews ==
  ASSUME CorrelationInv, NEW r \in Replicas, ReplicaStep(r), NEW i,
         ~(job[r].inc = i /\ (Announce(r) \/ SendEnriched(r)))
  PROVE  /\ In(inbox'[r], About(i)) => In(inbox[r], About(i))
         /\ Once(inbox[r], About(i)) => Once(inbox'[r], About(i))
<1> DEFINE T == About(i)
<1>1. TypeOK /\ JobNames(r) BY DEF CorrelationInv
<1>2. CASE inbox' = inbox BY <1>2
<1>3. ASSUME NEW chans, Take(r, chans)
      PROVE  (In(inbox'[r], T) => In(inbox[r], T)) /\ (Once(inbox[r], T) => Once(inbox'[r], T))
  <2>1. inbox[r] \in Seq(Messages) /\ inbox[r] # <<>> /\ inbox'[r] = Tail(inbox[r])
    BY <1>1, <1>3, TakesHead
  <2>2. QED BY <2>1, InTail
<1>4. ASSUME NEW m \in Messages, ~Refers(m) \/ m.inc # i, Broadcast(m)
      PROVE  (In(inbox'[r], T) => In(inbox[r], T)) /\ (Once(inbox[r], T) => Once(inbox'[r], T))
  <2>1. m \notin T BY <1>4, AboutWhom
  <2> HIDE DEF T
  <2>2. QED BY <1>1, <1>4, <2>1, Sent
<1>5. CASE SendNormalized(r)
  <2>1. job[r].msg \in EventMessages /\ Broadcast(job[r].msg)
    BY <1>1, <1>5 DEF JobNames, SendNormalized
  <2>2. ~Refers(job[r].msg) /\ job[r].msg \in Messages
    BY <2>1, MessageTypes DEF EventMessages, Refers
  <2>3. QED BY <1>4, <2>1, <2>2
<1>6. CASE Crash(r)
  <2>1. inbox'[r] = <<>> BY <1>1, <1>6 DEF Crash, TypeOK
  <2>2. QED BY <2>1 DEF In, Once
<1>7. QED BY <1>2, <1>3, <1>4, <1>5, <1>6, InboxKinds

\* An answer comes only from who speaks of the case, and is its last word.
LEMMA Answers ==
  ASSUME CorrelationInv, NEW r \in Replicas, ReplicaStep(r), NEW i
  PROVE  \/ Classified(i)' <=> Classified(i)
         \/ SendClassified(r) /\ Speaks(r, i)
<1>1. CASE outbox' = outbox BY <1>1 DEF Classified
<1>2. CASE SendClassified(r)
  <2> DEFINE o == outbox'[Len(outbox) + 1]
  <2>1. /\ DOMAIN outbox' = DOMAIN outbox \union {Len(outbox) + 1}
        /\ \A n \in DOMAIN outbox : outbox'[n] = outbox[n]
        /\ o.inc = job[r].inc
    <3>1. outbox \in Seq([inc : Nat, severity : Severities, action : KnownActions])
      BY DEF CorrelationInv, TypeOK
    <3> DEFINE a == [inc |-> job[r].inc, severity |-> SeverityOf(job[r].ctx),
                     action |-> recommend_action(incidents[job[r].inc].techniques,
                                                 FlagsOf(job[r].ctx))]
    <3>2. outbox' = Append(outbox, a) /\ a.inc = job[r].inc BY <1>2 DEF SendClassified
    <3> HIDE DEF a
    <3>3. QED BY <3>1, <3>2
  <2> HIDE DEF o
  <2>2. CASE job[r].inc = i
    BY <1>2, <2>2 DEF SendClassified, Speaks, Speaking, Holding
  <2>3. CASE job[r].inc # i BY <2>1, <2>3 DEF Classified, o
  <2>4. QED BY <2>2, <2>3
<1>3. SendClassified(r) \/ UNCHANGED outbox
  BY DEF ReplicaStep, LoopStep, IntegrationStep, DetectionStep, ThreatIntelStep, OrchestratorStep,
         StoreEvent, SendNormalized, CountFailure, CheckSuccess, SoundAlarm, IgnoreEvent, Drop, CheckTravel,
         SetLast, LookUp, Fold, Open, Remember, Announce, ReportDomain, ReportPackages, FileReport,
         LookUpAddress, CheckIndicator, PutIndicator, LoadIncident, Enrich, SendEnriched,
         Classify, Raise, Crash, Restart
<1>4. QED BY <1>1, <1>2, <1>3

LEMMA SpokenStep ==
  ASSUME CorrelationInv, NEW r \in Replicas, ReplicaStep(r), NEW i, Spoken(r, i)
  PROVE  Spoken(r, i)'
<1>1. TypeOK /\ JobNames(r) BY DEF CorrelationInv
<1>2. CASE job[r].inc = i /\ (Announce(r) \/ SendEnriched(r))
  <2>1. Speaks(r, i) BY <1>2 DEF Announce, SendEnriched, Speaks, Speaking, Holding
  <2>2. ~In(inbox[r], About(i)) /\ ~Classified(i) BY <2>1 DEF Spoken
  <2>3. i # 0 BY <1>1, <2>1, Unknown, RowOf
  <2>4. Finish(r) \/ Continue(r) BY <1>2 DEF Announce, SendEnriched
  <2>5. ~Speaks(r, i)' BY <1>1, <2>3, <2>4, Emptied DEF Speaks
  <2>6. ~Classified(i)' BY <1>2, <2>2 DEF Announce, SendEnriched, Classified
  <2>7. PICK m \in Messages : Broadcast(m)
    <3>1. job[r].inc \in Nat /\ job[r].ctx \in Contexts BY <1>1, JobOf
    <3>2. QED BY <1>2, <3>1, MessageTypes DEF Announce, SendEnriched
  <2>8. Once(inbox'[r], About(i)) BY <1>1, <2>2, <2>7, Sent DEF Spoken
  <2>9. QED BY <2>5, <2>6, <2>8 DEF Spoken
<1>3. CASE ~(job[r].inc = i /\ (Announce(r) \/ SendEnriched(r)))
  <2>1. (In(inbox'[r], About(i)) => In(inbox[r], About(i))) /\ Once(inbox'[r], About(i))
    BY <1>3, NoNews DEF Spoken
  <2>2. i \notin DOMAIN incidents => ~In(inbox[r], About(i)) /\ ~Classified(i) /\ ~Speaks(r, i)
    BY Unknown
  <2>3. ASSUME NEW chans, Take(r, chans), Head(inbox[r]) \in About(i)
        PROVE  In(inbox[r], About(i)) /\ ~In(inbox'[r], About(i))
    <3>1. inbox[r] \in Seq(Messages) /\ inbox[r] # <<>> /\ inbox'[r] = Tail(inbox[r])
      BY <1>1, <2>3, TakesHead
    <3>2. QED BY <2>3, <3>1, InTail DEF Spoken
  <2>4. ASSUME Speaks(r, i)' PROVE ~In(inbox'[r], About(i))
    BY <2>1, <2>2, <2>3, <2>4, SpeakerMoves DEF Spoken
  <2>5. ASSUME Classified(i)' PROVE ~In(inbox'[r], About(i)) /\ ~Speaks(r, i)'
    <3>1. CASE SendClassified(r) /\ Speaks(r, i)
      <4>1. job'[r].at = "idle" BY <1>1, <3>1, Done DEF SendClassified, Idle
      <4>2. QED BY <2>1, <3>1, <4>1 DEF Spoken, Speaks, Speaking, Holding
    <3>2. CASE Classified(i)
      <4>1. ~In(inbox[r], About(i)) /\ ~Speaks(r, i) BY <3>2 DEF Spoken
      <4>2. ~Speaks(r, i)' BY <2>2, <2>3, <3>2, <4>1, SpeakerMoves
      <4>3. QED BY <2>1, <4>1, <4>2
    <3>3. QED BY <2>5, <3>1, <3>2, Answers
  <2>6. QED BY <2>1, <2>4, <2>5 DEF Spoken
<1>4. QED BY <1>2, <1>3

LEMMA SpokenOutside ==
  ASSUME CorrelationInv, NEW r \in Replicas, UNCHANGED <<outbox, job>>,
         Outside \/ UNCHANGED vars, NEW i, Spoken(r, i)
  PROVE  Spoken(r, i)'
<1>1. TypeOK BY DEF CorrelationInv
<1>2. ASSUME NEW m \in Messages, ~Refers(m), Broadcast(m) PROVE Spoken(r, i)'
  <2>1. m \notin About(i) BY <1>2, AboutWhom
  <2>2. /\ In(inbox'[r], About(i)) => In(inbox[r], About(i))
        /\ Once(inbox'[r], About(i))
    BY <1>1, <1>2, <2>1, Sent DEF Spoken
  <2>3. QED BY <2>2 DEF Spoken, Speaks, Classified
<1>3. ASSUME NEW e \in RawEvents, PostEvent(e) PROVE Spoken(r, i)'
  <2> DEFINE m == [chan |-> "events.raw", event |-> e]
  <2>1. m \in Messages /\ ~Refers(m) BY MessageTypes DEF Refers
  <2>2. QED BY <1>2, <1>3, <2>1 DEF PostEvent
<1>4. ASSUME NEW s \in Scans, PostScan(s) PROVE Spoken(r, i)'
  <2>1. PICK m \in Messages : m.chan \in ScanChannels /\ Broadcast(m)
    BY <1>4, MessageTypes DEF PostScan
  <2>2. QED BY <1>2, <2>1 DEF Refers, ScanChannels
<1>5. CASE inbox' = inbox BY <1>5 DEF Spoken, Speaks, Classified
<1>6. QED BY <1>3, <1>4, <1>5 DEF Outside, Expire, Forget, vars

SpokenInv == \A r \in Replicas : \A i \in DOMAIN incidents : Spoken(r, i)

LEMMA SpokenInvariant == ASSUME OneReplica PROVE Spec => []SpokenInv
<1>1. Init => SpokenInv BY DEF Init, SpokenInv
<1>2. CorrelationInv /\ SpokenInv /\ [Next]_vars => SpokenInv'
  <2> SUFFICES ASSUME CorrelationInv, SpokenInv, [Next]_vars,
                      NEW q \in Replicas, NEW i \in DOMAIN incidents'
               PROVE  Spoken(q, i)'
    BY DEF SpokenInv
  <2>1. Spoken(q, i) BY Unknown DEF SpokenInv, Spoken, In, Once
  <2>2. ASSUME NEW r \in Replicas, ReplicaStep(r) PROVE Spoken(q, i)'
    <3>1. r = q BY OneReplica DEF OneReplica
    <3>2. QED BY <2>1, <2>2, <3>1, SpokenStep
  <2>3. CASE /\ UNCHANGED <<incidents, indicators, cache, outbox, job>>
             /\ Outside \/ UNCHANGED vars
    BY <2>1, <2>3, SpokenOutside
  <2>4. QED BY <2>2, <2>3, StepCases
<1>3. QED BY <1>1, <1>2, CorrelationInvariant, PTL DEF Spec

-----------------------------------------------------------------------------
\* The campaigns of the abstract specification, seen in the tables.

EvidenceOf(c) == UNION {incidents[i].events : i \in CasesOf(c)}
AnswersOf(c) == {n \in DOMAIN outbox : outbox[n].inc \in CasesOf(c)}

LEMMA CaseOf == ASSUME NEW c, NEW i PROVE i \in CasesOf(c) <=> i \in DOMAIN incidents /\ Triple(i) = c
BY DEF CasesOf, Triple

LEMMA InEvidence ==
  ASSUME NEW c, NEW x
  PROVE  /\ x \in EvidenceOf(c) <=> \E i \in CasesOf(c) : x \in incidents[i].events
         /\ x \in EvidenceOf(c)' <=> \E i \in CasesOf(c)' : x \in incidents'[i].events
BY DEF EvidenceOf

\* Nothing of any campaign is new.
Steady(c) == CasesOf(c)' = CasesOf(c) /\ EvidenceOf(c)' = EvidenceOf(c) /\ AnswersOf(c)' = AnswersOf(c)

LEMMA NothingNew ==
  ASSUME \A c \in CampaignsOf : Steady(c)
  PROVE  UNCHANGED Promise!vars
BY DEF Steady, EvidenceOf, AnswersOf, Promise!vars

LEMMA PromiseStarts == Init => Promise!Init
<1> SUFFICES ASSUME Init PROVE Promise!Init
  OBVIOUS
<1>1. \A c : CasesOf(c) = {} BY DEF Init, CasesOf
<1>2. \A c : EvidenceOf(c) = {} /\ AnswersOf(c) = {} BY <1>1 DEF EvidenceOf, AnswersOf
<1>3. \A c : Cardinality(AnswersOf(c)) = 0 BY <1>2, FS_EmptySet
<1>4. QED BY <1>1, <1>2, <1>3 DEF Promise!Init, EvidenceOf, AnswersOf

\* Rows that keep their events, and an outbox that keeps its answers, are steady.
LEMMA SteadyRows ==
  ASSUME Kept, DOMAIN incidents' = DOMAIN incidents, UNCHANGED outbox,
         \A i \in DOMAIN incidents : incidents'[i].events = incidents[i].events, NEW c
  PROVE  Steady(c)
<1>1. CasesOf(c)' = CasesOf(c) BY DEF Kept, CasesOf
<1>2. EvidenceOf(c)' = EvidenceOf(c)
  <2>1. PICK C : C = CasesOf(c) OBVIOUS
  <2>2. \A i \in C : incidents'[i].events = incidents[i].events BY <2>1, CaseOf
  <2>3. UNION {incidents'[i].events : i \in C} = UNION {incidents[i].events : i \in C} BY <2>2
  <2>4. QED BY <1>1, <2>1, <2>3 DEF EvidenceOf
<1>3. AnswersOf(c)' = AnswersOf(c) BY <1>1 DEF AnswersOf
<1>4. QED BY <1>1, <1>2, <1>3 DEF Steady

\* A row more is a case of its own campaign only.
LEMMA SteadyOthers ==
  ASSUME CorrelationInv, Kept, UNCHANGED outbox, NEW n \in DOMAIN incidents', n \notin DOMAIN incidents,
         DOMAIN incidents' = DOMAIN incidents \union {n},
         \A i \in DOMAIN incidents : incidents'[i] = incidents[i],
         NEW c
  PROVE  /\ Triple(n)' # c => Steady(c)
         /\ Triple(n)' = c => /\ CasesOf(c)' = CasesOf(c) \union {n}
                              /\ EvidenceOf(c)' = EvidenceOf(c) \union incidents'[n].events
                              /\ AnswersOf(c)' = AnswersOf(c)
<1>1. PICK C, D : C = CasesOf(c) /\ D = CasesOf(c)' OBVIOUS
<1>2. D = IF Triple(n)' = c THEN C \union {n} ELSE C
  <2>1. \A i : i \in C <=> i \in DOMAIN incidents /\ Triple(i) = c BY <1>1, CaseOf
  <2>2. \A i : i \in D <=> i \in DOMAIN incidents' /\ Triple(i)' = c
    BY <1>1 DEF CasesOf, Triple
  <2>3. \A i \in DOMAIN incidents : Triple(i)' = Triple(i) BY TripleStays
  <2>4. QED BY <2>1, <2>2, <2>3
<1>3. \A i \in C : i \in DOMAIN incidents /\ incidents'[i].events = incidents[i].events
  BY <1>1, CaseOf
<1>4. Triple(n)' # c => EvidenceOf(c)' = EvidenceOf(c)
  <2>1. ASSUME D = C, NEW x PROVE x \in EvidenceOf(c)' <=> x \in EvidenceOf(c)
    <3>1. \A i \in C : x \in incidents'[i].events <=> x \in incidents[i].events BY <1>3
    <3>2. x \in EvidenceOf(c) <=> \E i \in C : x \in incidents[i].events BY <1>1, InEvidence
    <3>3. x \in EvidenceOf(c)' <=> \E i \in D : x \in incidents'[i].events BY <1>1, InEvidence
    <3>4. QED BY <2>1, <3>1, <3>2, <3>3
  <2>2. PICK E, F : E = EvidenceOf(c) /\ F = EvidenceOf(c)' OBVIOUS
  <2>3. D = C => E = F BY <2>1, <2>2
  <2>4. QED BY <1>2, <2>2, <2>3
<1>5. Triple(n)' = c => EvidenceOf(c)' = EvidenceOf(c) \union incidents'[n].events
  <2>1. ASSUME D = C \union {n}, NEW x
        PROVE  x \in EvidenceOf(c)' <=> x \in EvidenceOf(c) \/ x \in incidents'[n].events
    <3>1. \A i \in C : x \in incidents'[i].events <=> x \in incidents[i].events BY <1>3
    <3>2. x \in EvidenceOf(c) <=> \E i \in C : x \in incidents[i].events BY <1>1, InEvidence
    <3>3. x \in EvidenceOf(c)' <=> \E i \in D : x \in incidents'[i].events BY <1>1, InEvidence
    <3>4. QED BY <2>1, <3>1, <3>2, <3>3
  <2>2. PICK E, F, G : E = EvidenceOf(c) /\ F = EvidenceOf(c)' /\ G = incidents'[n].events OBVIOUS
  <2>3. D = C \union {n} => F = E \union G BY <2>1, <2>2
  <2>4. QED BY <1>2, <2>2, <2>3
<1>6. \A m \in DOMAIN outbox : outbox[m].inc # n BY DEF CorrelationInv, OutboxNames
<1>7. AnswersOf(c)' = AnswersOf(c) BY <1>1, <1>2, <1>6 DEF AnswersOf
<1>8. QED BY <1>1, <1>2, <1>4, <1>5, <1>7 DEF Steady

-----------------------------------------------------------------------------
\* The steps that mean something to a campaign.

LEMMA OpensCase ==
  ASSUME CorrelationInv, CaseInv, NEW r \in Replicas, Open(r)
  PROVE  Promise!Next \/ UNCHANGED Promise!vars
<1>1. PICK n, c, e : n = Len(incidents') /\ c = DedupKey(r) /\ e = job[r].msg.id OBVIOUS
<1>2. /\ Kept /\ UNCHANGED outbox /\ n \in DOMAIN incidents' /\ n \notin DOMAIN incidents
      /\ DOMAIN incidents' = DOMAIN incidents \union {n}
      /\ \A i \in DOMAIN incidents : incidents'[i] = incidents[i]
      /\ Triple(n)' = c /\ incidents'[n].events = {e}
  BY <1>1, OpenEffect, OpenStep DEF Effect, Triple, DedupKey, Open
<1>3. \A d : d # c => Steady(d) BY <1>2, SteadyOthers
<1>4. CASE c \notin CampaignsOf BY <1>3, <1>4, NothingNew
<1>5. CASE c \in CampaignsOf
  <2>1. job[r].ctx.ip # NoIp BY <1>1, <1>5, CorrelationAssumption DEF DedupKey, CampaignsOf
  <2>2. CasesOf(c) = {} BY <1>1, <2>1, CaseOf DEF CaseInv, Fresh, Open
  <2>3. EvidenceOf(c) = {} BY <2>2 DEF EvidenceOf
  <2>4. /\ CasesOf(c)' = {n} /\ EvidenceOf(c)' = {e} /\ AnswersOf(c)' = AnswersOf(c)
    BY <1>2, <2>2, <2>3, SteadyOthers
  <2>5. e \in EventIds BY <1>1, EventFields DEF CorrelationInv, JobNames, Detects, Open
  <2>6. /\ [d \in CampaignsOf |-> CasesOf(d)'] = [[d \in CampaignsOf |-> CasesOf(d)] EXCEPT ![c] = {n}]
        /\ [d \in CampaignsOf |-> EvidenceOf(d)']
             = [[d \in CampaignsOf |-> EvidenceOf(d)] EXCEPT ![c] = {e}]
        /\ [d \in CampaignsOf |-> Cardinality(AnswersOf(d)')]
             = [d \in CampaignsOf |-> Cardinality(AnswersOf(d))]
    BY <1>3, <1>5, <2>4 DEF Steady
  <2>7. Promise!OpenCase(c)
    BY <1>5, <2>2, <2>4, <2>5, <2>6 DEF Promise!OpenCase, EvidenceOf, AnswersOf
  <2>8. QED BY <1>5, <2>7 DEF Promise!Next
<1>6. QED BY <1>4, <1>5

LEMMA GathersEvidence ==
  ASSUME CorrelationInv, NEW r \in Replicas, Loaded(r), Fold(r)
  PROVE  Promise!Next \/ UNCHANGED Promise!vars
<1>1. PICK n, c, e : n = job[r].inc /\ c = Triple(n) /\ e = job[r].msg.id OBVIOUS
<1>2. /\ Kept /\ UNCHANGED outbox /\ n \in DOMAIN incidents
      /\ DOMAIN incidents' = DOMAIN incidents
      /\ \A i \in DOMAIN incidents \ {n} : incidents'[i] = incidents[i]
      /\ incidents'[n].events = incidents[n].events \union {e}
  BY <1>1, FoldEffect, FoldStep DEF Effect, Fold, Loaded
<1>3. \A d : CasesOf(d)' = CasesOf(d) BY <1>2 DEF Kept, CasesOf
<1>4. \A d : AnswersOf(d)' = AnswersOf(d) BY <1>2, <1>3 DEF AnswersOf
<1>5. ASSUME NEW d
      PROVE  EvidenceOf(d)' = IF d = c THEN EvidenceOf(d) \union {e} ELSE EvidenceOf(d)
  <2>1. PICK C : C = CasesOf(d) OBVIOUS
  <2>2. n \in C <=> d = c BY <1>1, <1>2, <2>1, CaseOf
  <2>3. \A i \in C : i \in DOMAIN incidents BY <2>1, CaseOf
  <2>4. ASSUME NEW x PROVE x \in EvidenceOf(d)' <=> x \in EvidenceOf(d) \/ (d = c /\ x = e)
    <3>1. \A i \in C : x \in incidents'[i].events <=>
                         x \in incidents[i].events \/ (i = n /\ x = e)
      BY <1>2, <2>3
    <3>2. x \in EvidenceOf(d) <=> \E i \in C : x \in incidents[i].events BY <2>1, InEvidence
    <3>3. x \in EvidenceOf(d)' <=> \E i \in C : x \in incidents'[i].events
      BY <1>3, <2>1, InEvidence
    <3>4. QED BY <2>2, <3>1, <3>2, <3>3
  <2>5. PICK E, F : E = EvidenceOf(d) /\ F = EvidenceOf(d)' OBVIOUS
  <2>6. F = IF d = c THEN E \union {e} ELSE E BY <2>4, <2>5
  <2>7. QED BY <2>5, <2>6
<1>6. \A d : d # c => Steady(d) BY <1>3, <1>4, <1>5 DEF Steady
<1>7. CASE c \notin CampaignsOf BY <1>6, <1>7, NothingNew
<1>8. CASE c \in CampaignsOf
  <2>1. CasesOf(c) # {} BY <1>1, <1>2, CaseOf
  <2>2. e \in EventIds BY <1>1, EventFields DEF CorrelationInv, JobNames, Detects, Fold
  <2>3. /\ [d \in CampaignsOf |-> CasesOf(d)'] = [d \in CampaignsOf |-> CasesOf(d)]
        /\ [d \in CampaignsOf |-> EvidenceOf(d)']
             = [[d \in CampaignsOf |-> EvidenceOf(d)] EXCEPT ![c] = EvidenceOf(c) \union {e}]
        /\ [d \in CampaignsOf |-> Cardinality(AnswersOf(d)')]
             = [d \in CampaignsOf |-> Cardinality(AnswersOf(d))]
    BY <1>3, <1>4, <1>5, <1>8
  <2>4. Promise!Gather(c)
    BY <1>8, <2>1, <2>2, <2>3 DEF Promise!Gather, EvidenceOf, AnswersOf
  <2>5. QED BY <1>8, <2>4 DEF Promise!Next
<1>9. QED BY <1>7, <1>8

LEMMA AnswersCase ==
  ASSUME CorrelationInv, CaseInv, SpokenInv, NEW r \in Replicas, SendClassified(r)
  PROVE  Promise!Next \/ UNCHANGED Promise!vars
<1>1. PICK n, c, m : n = job[r].inc /\ c = Triple(n) /\ m = Len(outbox) + 1 OBVIOUS
<1>2. n \in DOMAIN incidents /\ Speaks(r, n)
  BY <1>1 DEF SendClassified, CorrelationInv, JobNames, Names, Speaks, Speaking, Holding
<1>3. ~Classified(n) BY <1>2 DEF SpokenInv, Spoken
<1>4. UNCHANGED incidents BY DEF SendClassified
<1>5. /\ DOMAIN outbox' = DOMAIN outbox \union {m} /\ m \notin DOMAIN outbox
      /\ \A k \in DOMAIN outbox : outbox'[k] = outbox[k]
      /\ outbox'[m].inc = n
  <2> DEFINE a == [inc |-> n, severity |-> SeverityOf(job[r].ctx),
                   action |-> recommend_action(incidents[n].techniques, FlagsOf(job[r].ctx))]
  <2>1. outbox' = Append(outbox, a) /\ a.inc = n BY <1>1 DEF SendClassified
  <2>2. outbox \in Seq([inc : Nat, severity : Severities, action : KnownActions])
    BY DEF CorrelationInv, TypeOK
  <2> HIDE DEF a
  <2>3. QED BY <1>1, <2>1, <2>2
<1>6. \A d : CasesOf(d)' = CasesOf(d) BY <1>4 DEF CasesOf
<1>7. \A d : EvidenceOf(d)' = EvidenceOf(d) BY <1>4, <1>6 DEF EvidenceOf
<1>8. ASSUME NEW d, d # c PROVE AnswersOf(d)' = AnswersOf(d)
  <2>1. n \notin CasesOf(d) BY <1>1, <1>8, CaseOf
  <2>2. QED BY <1>5, <1>6, <2>1 DEF AnswersOf
<1>9. \A d : d # c => Steady(d) BY <1>6, <1>7, <1>8 DEF Steady
<1>10. CASE c \notin CampaignsOf BY <1>9, <1>10, NothingNew
<1>11. CASE c \in CampaignsOf
  <2>1. CasesOf(c) = {n} BY <1>1, <1>2, <1>11, CaseOf DEF CaseInv, OneCase
  <2>2. AnswersOf(c) = {} BY <1>3, <2>1 DEF AnswersOf, Classified
  <2>3. AnswersOf(c)' = {m} BY <1>5, <1>6, <2>1, <2>2 DEF AnswersOf
  <2>4. Cardinality(AnswersOf(c)) = 0 /\ Cardinality(AnswersOf(c)') = 1
    BY <2>2, <2>3, FS_EmptySet, FS_Singleton
  <2>5. /\ [d \in CampaignsOf |-> CasesOf(d)'] = [d \in CampaignsOf |-> CasesOf(d)]
        /\ [d \in CampaignsOf |-> EvidenceOf(d)'] = [d \in CampaignsOf |-> EvidenceOf(d)]
        /\ [d \in CampaignsOf |-> Cardinality(AnswersOf(d)')]
             = [[d \in CampaignsOf |-> Cardinality(AnswersOf(d))] EXCEPT ![c] = 1]
    BY <1>6, <1>7, <1>8, <1>11, <2>4
  <2>6. Promise!Answer(c)
    BY <1>11, <2>1, <2>4, <2>5 DEF Promise!Answer, EvidenceOf, AnswersOf
  <2>7. QED BY <1>11, <2>6 DEF Promise!Next
<1>12. QED BY <1>10, <1>11

\* The others mean nothing to one.
LEMMA NoneConcerned ==
  ASSUME CorrelationInv, NEW r \in Replicas, ReplicaStep(r),
         ~Open(r), ~Fold(r), ~SendClassified(r)
  PROVE  UNCHANGED Promise!vars
<1>1. Kept BY EveryEffect DEF Effect
<1>2. UNCHANGED outbox
  BY DEF ReplicaStep, LoopStep, IntegrationStep, DetectionStep, ThreatIntelStep, OrchestratorStep,
         StoreEvent, SendNormalized, CountFailure, CheckSuccess, SoundAlarm, IgnoreEvent, Drop,
         CheckTravel, SetLast, LookUp, Remember, Announce, ReportDomain, ReportPackages,
         FileReport, LookUpAddress, CheckIndicator, PutIndicator, LoadIncident, Enrich,
         SendEnriched, Classify, Raise, Crash, Restart
<1>3. ASSUME DOMAIN incidents' = DOMAIN incidents,
             \A i \in DOMAIN incidents : incidents'[i].events = incidents[i].events
      PROVE  UNCHANGED Promise!vars
  BY <1>1, <1>2, <1>3, SteadyRows, NothingNew
<1>4. CASE UNCHANGED incidents BY <1>3, <1>4
<1>5. CASE Enrich(r) BY <1>3, <1>5, EnrichEffect
<1>6. CASE Classify(r) BY <1>3, <1>6, ClassifyEffect
<1>7. CASE ReportDomain(r) \/ ReportPackages(r)
  <2>1. PICK n : n = job'[r].inc OBVIOUS
  <2>2. /\ DOMAIN incidents' = DOMAIN incidents \union {n} /\ n \notin DOMAIN incidents
        /\ incidents'[n].ctx = NoContext
        /\ \A k \in DOMAIN incidents : incidents'[k] = incidents[k]
    BY <1>7, <2>1, ScanStep
  <2>3. Triple(n)' \notin CampaignsOf
    BY <2>2 DEF Triple, CampaignsOf, NoContext, Keys
  <2>4. \A c \in CampaignsOf : Steady(c) BY <1>1, <1>2, <2>2, <2>3, SteadyOthers
  <2>5. QED BY <2>4, NothingNew
<1>8. QED BY <1>4, <1>5, <1>6, <1>7, RowsChange

\* On one process the agents, the cache, the tables and the messages of Correlation
\* implement what Detection promises of a campaign: whatever crashes, fails, expires
\* or is scanned meanwhile, it is one case from its first evidence on, no evidence
\* folded into it is ever lost, and it is answered once (detection.py:39-43, 210-216
\* and 238).
THEOREM CampaignsAreOneCase == ASSUME OneReplica PROVE Spec => ImplementsCampaign
<1>1. Init => Promise!Init BY PromiseStarts
<1>2. CorrelationInv /\ JumpInv /\ CaseInv /\ SpokenInv /\ [Next]_vars
        => [Promise!Next]_(Promise!vars)
  <2> SUFFICES ASSUME CorrelationInv, JumpInv, CaseInv, SpokenInv, [Next]_vars
               PROVE  Promise!Next \/ UNCHANGED Promise!vars
    OBVIOUS
  <2>1. ASSUME NEW r \in Replicas, ReplicaStep(r) PROVE Promise!Next \/ UNCHANGED Promise!vars
    BY <2>1, OpensCase, GathersEvidence, AnswersCase, NoneConcerned DEF JumpInv
  <2>2. CASE UNCHANGED <<incidents, indicators, cache, outbox, job>>
    BY <2>2, NothingNew DEF Steady, CasesOf, EvidenceOf, AnswersOf
  <2>3. QED BY <2>1, <2>2, StepCases
<1>3. QED
  BY <1>1, <1>2, CorrelationInvariant, JumpInvariant, CaseInvariant, SpokenInvariant, PTL
  DEF Spec, ImplementsCampaign, Promise!Spec

=============================================================================
