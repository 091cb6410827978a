----------------------------- MODULE Background ------------------------------
(* What runs without a message: the two schedules of agents/runner.py, that is  *)
(* the daily report (agents/reporting.py) and the Guardian's search for quiet   *)
(* connectors (agents/guardian.py), with reports requested by a user            *)
(* (routers/reports.py).                                                        *)
(*                                                                              *)
(* Time is counted in ticks, as the age of each timestamp; an age stops growing *)
(* one tick past the limit it is compared with.  Ticks come at any time: awaits *)
(* (the database, the language model, the mail server) take as long as they     *)
(* take.  A writer is the daily loop of a replica or a request.                 *)
EXTENDS Integers

CONSTANTS
  Tenants, Incidents,
  TenantOf,         \* TenantOf[i]: whose incident i is
  Connectors,
  Replicas, Requests,
  Home,             \* Home[q]: the replica that serves request q
  Day,              \* DAILY_REPORT_INTERVAL_SECONDS, and what a report looks back on
  StaleAfter,       \* CONNECTOR_STALE_AFTER
  HealthInterval,   \* GUARDIAN_HEALTH_CHECK_INTERVAL_SECONDS
  MaxFaults,        \* bound: crashes and awaits that raise
  Nobody            \* no tenant

Writers == Replicas \union Requests

ASSUME BackgroundAssumption ==
  /\ TenantOf \in [Incidents -> Tenants] /\ Home \in [Requests -> Replicas]
  /\ Replicas \intersect Requests = {} /\ Nobody \notin Tenants
  /\ Day \in Nat \ {0} /\ StaleAfter \in Nat \ {0} /\ HealthInterval \in Nat \ {0}
  /\ MaxFaults \in Nat

\* The age of what has not happened.
Never == -1

VARIABLES
  age,        \* of each incident: since created_at
  silence,    \* of each connector: since last_event_at
  up,         \* running replicas
  dailyIn,    \* what is left of each daily loop's sleep
  healthIn,   \* ... and of each health loop's
  writer,     \* where each writer is in its reports
  gaps,       \* gaps[r]: quiet connectors r's health loop has yet to alert of
  reported,   \* incidents in the incident_ids of some row of reports
  alerts,     \* connectors with a guardian.alert row younger than their last event
  faults,     \* crashes and failures so far
  looked,     \* looked[r][t]: history, age of the last report of t by r's schedule
  excused,    \* history: incidents the schedule may miss, see OnlyWritingHides
  late        \* history: connectors heard after the check that found them quiet

clocks == <<age, silence, dailyIn, healthIn>>
reporting == <<writer, reported, looked>>
guarding == <<gaps, alerts, late>>
vars == <<clocks, up, reporting, guarding, faults, excused>>

Resting == [at |-> "rest", todo |-> {}, tenant |-> Nobody, counted |-> {}]

TypeOK ==
  /\ age \in [Incidents -> Never .. Day + 1]
  /\ silence \in [Connectors -> Never .. StaleAfter + 1]
  /\ up \subseteq Replicas
  /\ dailyIn \in [Replicas -> 0 .. Day] /\ healthIn \in [Replicas -> 0 .. HealthInterval]
  /\ writer \in [Writers -> [at : {"rest", "next", "commit", "mail", "publish"},
                             todo : SUBSET Tenants, tenant : Tenants \union {Nobody},
                             counted : SUBSET Incidents]]
  /\ gaps \in [Replicas -> SUBSET Connectors]
  /\ reported \subseteq Incidents /\ excused \subseteq Incidents
  /\ alerts \subseteq Connectors /\ late \subseteq Connectors
  /\ faults \in 0 .. MaxFaults
  /\ looked \in [Replicas -> [Tenants -> 0 .. Day]]

\* The program has just started on data that holds nothing.
Init ==
  /\ age = [i \in Incidents |-> Never]
  /\ silence = [c \in Connectors |-> Never]
  /\ up = Replicas
  /\ dailyIn = [r \in Replicas |-> Day]
  /\ healthIn = [r \in Replicas |-> 0]
  /\ writer = [w \in Writers |-> Resting]
  /\ gaps = [r \in Replicas |-> {}]
  /\ reported = {} /\ excused = {} /\ alerts = {} /\ late = {}
  /\ faults = 0
  /\ looked = [r \in Replicas |-> [t \in Tenants |-> Day]]

-----------------------------------------------------------------------------
\* Time, and what the rest of the system does meanwhile.

Older(a, limit) == IF a = Never \/ a > limit THEN a ELSE a + 1
Sooner(left) == IF left = 0 THEN 0 ELSE left - 1

Tick ==
  /\ age' = [i \in Incidents |-> Older(age[i], Day)]
  /\ silence' = [c \in Connectors |-> Older(silence[c], StaleAfter)]
  /\ dailyIn' = [r \in Replicas |-> Sooner(dailyIn[r])]
  /\ healthIn' = [r \in Replicas |-> Sooner(healthIn[r])]
  /\ looked' = [r \in Replicas |-> [t \in Tenants |-> Older(looked[r][t], Day - 1)]]
  /\ UNCHANGED <<up, writer, reported, guarding, faults, excused>>

\* Between two rounds the daily loop of r sleeps, until it is time.
Between(r) == r \in up /\ writer[r].at = "rest"
Asleep(r) == Between(r) /\ dailyIn[r] > 0

\* Some agent opens incident i.
Raised(i) ==
  /\ age[i] = Never
  /\ age' = [age EXCEPT ![i] = 0]
  /\ excused' = IF \A r \in Replicas : Asleep(r) THEN excused ELSE excused \union {i}
  /\ UNCHANGED <<silence, dailyIn, healthIn, up, reporting, guarding, faults>>

\* on_raw_event writes last_event_at.
Heard(c) ==
  /\ silence' = [silence EXCEPT ![c] = 0]
  /\ alerts' = alerts \ {c}
  /\ late' = IF \E r \in Replicas : c \in gaps[r] THEN late \union {c} ELSE late
  /\ UNCHANGED <<age, dailyIn, healthIn, up, reporting, gaps, faults, excused>>

-----------------------------------------------------------------------------
\* Reports.

\* Mutant: a report looks back on less than a day.
WithinShort(i) == age[i] \in 0 .. Day - 1

\* Both ends of the period count.
Within(i) == age[i] \in 0 .. Day

\* _daily_report_loop reads the tenants, once its sleep is over.
WakeDaily(r) ==
  /\ Between(r) /\ dailyIn[r] = 0
  /\ writer' = [writer EXCEPT ![r] = [Resting EXCEPT !.at = "next", !.todo = Tenants]]
  /\ UNCHANGED <<clocks, up, reported, looked, guarding, faults, excused>>

\* generate_now, after _check_tenant_access.
RequestReport(q, t) ==
  /\ Home[q] \in up /\ writer[q].at = "rest"
  /\ writer' = [writer EXCEPT ![q] = [Resting EXCEPT !.at = "next", !.todo = {t}]]
  /\ UNCHANGED <<clocks, up, reported, looked, guarding, faults, excused>>

\* generate_daily_report, of any of the tenants left: no ORDER BY ranks them.
ReadDay(w) ==
  /\ writer[w].at = "next"
  /\ \E t \in writer[w].todo :
       /\ writer' = [writer EXCEPT ![w] =
            [at |-> "commit", todo |-> writer[w].todo \ {t}, tenant |-> t,
             counted |-> {i \in Incidents : TenantOf[i] = t /\ Within(i)}]]
       /\ looked' = IF w \in Replicas THEN [looked EXCEPT ![w][t] = 0] ELSE looked
  /\ UNCHANGED <<clocks, up, reported, guarding, faults, excused>>

CommitReport(w) ==
  /\ writer[w].at = "commit"
  /\ reported' = reported \union writer[w].counted
  /\ writer' = [writer EXCEPT ![w].at = "mail", ![w].counted = {}]
  /\ UNCHANGED <<clocks, up, looked, guarding, faults, excused>>

\* send_email, which never raises, and emailed on the row if it did send.
MailReport(w) ==
  /\ writer[w].at = "mail"
  /\ writer' = [writer EXCEPT ![w].at = "publish"]
  /\ UNCHANGED <<clocks, up, reported, looked, guarding, faults, excused>>

\* The round of w is over; a loop goes to sleep for a day.
Rest(w) ==
  /\ writer' = [writer EXCEPT ![w] = Resting]
  /\ dailyIn' = IF w \in Replicas THEN [dailyIn EXCEPT ![w] = Day] ELSE dailyIn

\* Mutant: the round ends with its first report.
LeftNone(w) == {}

Left(w) == writer[w].todo

PublishReport(w) ==
  /\ writer[w].at = "publish"
  /\ IF Left(w) = {} THEN Rest(w)
     ELSE /\ writer' = [writer EXCEPT ![w] = [Resting EXCEPT !.at = "next", !.todo = Left(w)]]
          /\ UNCHANGED dailyIn
  /\ UNCHANGED <<age, silence, healthIn, up, reported, looked, guarding, faults, excused>>

-----------------------------------------------------------------------------
\* GuardianAgent.check_connector_health.

\* Mutants: the limit is reached early; the comparison is the wrong way round.
StaleEarly(c) == silence[c] >= StaleAfter
StaleInverted(c) == silence[c] \in 0 .. StaleAfter - 1

Stale(c) == silence[c] > StaleAfter

\* Mutant: the health loop sleeps as long as the daily one.
SleepADay(r) == [healthIn EXCEPT ![r] = Day]

HealthSleep(r) == [healthIn EXCEPT ![r] = HealthInterval]

\* The read of the rows.  It asks for active connectors: nothing in the code
\* makes one inactive.
CheckHealth(r) ==
  /\ r \in up /\ gaps[r] = {} /\ healthIn[r] = 0
  /\ gaps' = [gaps EXCEPT ![r] = {c \in Connectors : Stale(c)}]
  /\ healthIn' = IF gaps'[r] = {} THEN HealthSleep(r) ELSE healthIn
  /\ late' = late \ gaps'[r]
  /\ UNCHANGED <<age, silence, dailyIn, up, reporting, alerts, faults, excused>>

\* One message per gap, in the order of the rows: any.
Alert(r) ==
  /\ \E c \in gaps[r] : /\ gaps' = [gaps EXCEPT ![r] = @ \ {c}]
                       /\ alerts' = alerts \union {c}
  /\ healthIn' = IF gaps'[r] = {} THEN HealthSleep(r) ELSE healthIn
  /\ UNCHANGED <<age, silence, dailyIn, up, reporting, late, faults, excused>>

-----------------------------------------------------------------------------
\* Failures.

Unreported == {i \in Incidents : age[i] # Never} \ reported

\* An await of a report raises: the loop logs it and sleeps, and the tenants left
\* get no report that day.
FailReport(w) ==
  /\ writer[w].at # "rest" /\ faults < MaxFaults
  /\ Rest(w)
  /\ faults' = faults + 1
  /\ excused' = IF w \in Replicas THEN excused \union Unreported ELSE excused
  /\ UNCHANGED <<age, silence, healthIn, up, reported, looked, guarding>>

\* The read of the rows raises, or the publish of an alert: there is no alert,
\* or none of the gaps left, before the next check.
FailHealth(r) ==
  /\ r \in up /\ healthIn[r] = 0 /\ faults < MaxFaults
  /\ gaps' = [gaps EXCEPT ![r] = {}]
  /\ healthIn' = HealthSleep(r)
  /\ faults' = faults + 1
  /\ UNCHANGED <<age, silence, dailyIn, up, reporting, alerts, late, excused>>

Crash(r) ==
  /\ r \in up /\ faults < MaxFaults
  /\ up' = up \ {r}
  /\ writer' = [w \in Writers |-> IF w = r \/ (w \in Requests /\ Home[w] = r)
                                  THEN Resting ELSE writer[w]]
  /\ gaps' = [gaps EXCEPT ![r] = {}]
  /\ faults' = faults + 1
  /\ excused' = excused \union Unreported
  /\ UNCHANGED <<clocks, reported, looked, alerts, late>>

\* Mutant: the first report of a new process does not wait.
ReportFirst(r) == [dailyIn EXCEPT ![r] = 0]

\* start: the daily loop sleeps first, the health loop checks first.
FirstSleep(r) == [dailyIn EXCEPT ![r] = Day]

Restart(r) ==
  /\ r \in Replicas \ up
  /\ up' = up \union {r}
  /\ dailyIn' = FirstSleep(r)
  /\ healthIn' = [healthIn EXCEPT ![r] = 0]
  /\ UNCHANGED <<age, silence, reporting, guarding, faults, excused>>

-----------------------------------------------------------------------------
ReportStep(w) ==
  ReadDay(w) \/ CommitReport(w) \/ MailReport(w) \/ PublishReport(w)

DailyStep(r) == WakeDaily(r) \/ ReportStep(r)

HealthStep(r) == CheckHealth(r) \/ Alert(r)

Next ==
  \/ Tick
  \/ \E i \in Incidents : Raised(i)
  \/ \E c \in Connectors : Heard(c)
  \/ \E r \in Replicas : \/ DailyStep(r) \/ HealthStep(r)
                         \/ FailHealth(r) \/ Crash(r) \/ Restart(r)
  \/ \E q \in Requests : ReportStep(q) \/ \E t \in Tenants : RequestReport(q, t)
  \/ \E w \in Writers : FailReport(w)

Spec == Init /\ [][Next]_vars

\* Time passes, awaits end, and a replica that went down comes back.
FairSpec ==
  /\ Spec /\ WF_vars(Tick)
  /\ \A r \in Replicas : WF_vars(DailyStep(r)) /\ WF_vars(HealthStep(r)) /\ WF_vars(Restart(r))

-----------------------------------------------------------------------------
\* Properties.

\* An incident that no report of its day counts was opened, or turned a day old,
\* while the loop was awake, or has met a crash or a failed round: the schedule
\* has no other hole (runner.py:74-83 with reporting.py:22-35).
OnlyWritingHides ==
  [][\A i \in Incidents, r \in Replicas :
       Within(i) /\ ~Within(i)' /\ Asleep(r) => i \in reported \union excused]_vars

\* One replica starts no second scheduled report of a tenant within a day, crashes
\* and failed rounds included (runner.py:73-83).
ReportsSpaced ==
  \A r \in Replicas : writer[r].at = "next" => \A t \in writer[r].todo : looked[r][t] = Day

\* Why the schedule holds, for each process r: all that was opened while it was
\* down is excused; while it sleeps, what nothing covers yet was opened during
\* that sleep or was too old before it, and no tenant was looked at since it
\* began; in a round, what nothing covers is too old, in the report being
\* written, or of a tenant to come, and a tenant to come was not looked at today.
Covered(i) == age[i] = Never \/ i \in reported \union excused

OnSchedule(r) ==
  /\ r \notin up => writer[r] = Resting /\ \A i \in Incidents : Covered(i)
  /\ Between(r) =>
       /\ \A i \in Incidents : Covered(i) \/ age[i] > Day \/ age[i] <= Day - dailyIn[r]
       /\ \A t \in Tenants : looked[r][t] >= Day - dailyIn[r]
  /\ writer[r].at # "rest" =>
       /\ \A i \in Incidents : Covered(i) \/ age[i] > Day \/ i \in writer[r].counted
                                \/ TenantOf[i] \in writer[r].todo
       /\ \A t \in writer[r].todo : looked[r][t] = Day
  /\ writer[r].counted # {} => writer[r].at = "commit"

\* ... and why the alarms do: who is about to be alerted of is still silent, or
\* was heard after the check.
AlarmsDue == \A r \in Replicas : \A c \in gaps[r] : Stale(c) \/ c \in late

\* The inductive invariant behind the theorems of Background_proofs.
BackgroundInv == TypeOK /\ AlarmsDue /\ \A r \in Replicas : OnSchedule(r)

\* Who is alerted of was silent past the limit when the check read it: if no
\* longer, it has been heard since (guardian.py:68-82).
NoFalseAlarm ==
  [][\A c \in alerts' \ alerts : silence[c] > StaleAfter \/ c \in late]_vars

\* A connector that stays silent is alerted of (guardian.py:64-66).
SilenceIsReported ==
  \A c \in Connectors : silence[c] > StaleAfter ~> c \in alerts \/ silence[c] = 0

\* Every tenant gets a report again and again (runner.py:73-83).
ReportsKeepComing ==
  \A t \in Tenants : []<>(\E r \in Replicas : writer[r].at = "mail" /\ writer[r].tenant = t)

=============================================================================
