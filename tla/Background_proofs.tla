-------------------------- MODULE Background_proofs --------------------------
(* Proofs about Background, for any number of tenants, incidents, connectors,   *)
(* processes and requests, and any intervals and faults: the inductive          *)
(* invariant BackgroundInv, and that the schedule has no hole, no tenant is     *)
(* reported twice in a day and no alarm is false.                               *)
EXTENDS Background, TLAPS

\* What the intervals are.
LEMMA Intervals ==
  /\ Day \in Nat /\ Day > 0 /\ StaleAfter \in Nat /\ StaleAfter > 0
  /\ HealthInterval \in Nat /\ HealthInterval > 0 /\ MaxFaults \in Nat
BY BackgroundAssumption

\* A timestamp that grows older stays within its limit, and a sleep within its length.
LEMMA AgeTypes ==
  ASSUME NEW limit \in Nat
  PROVE  /\ \A a \in Never .. limit + 1 : Older(a, limit) \in Never .. limit + 1
         /\ \A left \in 0 .. limit : Sooner(left) \in 0 .. limit
BY DEF Older, Sooner, Never

\* The local state of a writer, and what a step makes of it.
WriterType == [at : {"rest", "next", "commit", "mail", "publish"},
               todo : SUBSET Tenants, tenant : Tenants \union {Nobody},
               counted : SUBSET Incidents]

LEMMA WriterTypes ==
  /\ Resting \in WriterType
  /\ \A T \in SUBSET Tenants : [Resting EXCEPT !.at = "next", !.todo = T] \in WriterType
  /\ \A v \in WriterType : /\ [v EXCEPT !.at = "mail", !.counted = {}] \in WriterType
                           /\ [v EXCEPT !.at = "publish"] \in WriterType
                           /\ v.todo \subseteq Tenants /\ v.counted \subseteq Incidents
BY DEF Resting, WriterType

-----------------------------------------------------------------------------
\* The first state has its types.
LEMMA TypeInit == Init => TypeOK
<1> SUFFICES ASSUME Init PROVE TypeOK OBVIOUS
<1>1. /\ age \in [Incidents -> Never .. Day + 1] /\ silence \in [Connectors -> Never .. StaleAfter + 1]
      /\ dailyIn \in [Replicas -> 0 .. Day] /\ healthIn \in [Replicas -> 0 .. HealthInterval]
      /\ looked \in [Replicas -> [Tenants -> 0 .. Day]] /\ faults \in 0 .. MaxFaults
  BY Intervals DEF Init, Never
<1>2. writer \in [Writers -> WriterType] BY WriterTypes DEF Init
<1>3. QED BY <1>1, <1>2 DEF Init, TypeOK, WriterType

\* The step of a writer keeps its local state typed.
LEMMA WriterUpdate ==
  ASSUME TypeOK, NEW w \in Writers, NEW v \in WriterType, writer' = [writer EXCEPT ![w] = v]
  PROVE  writer' \in [Writers -> WriterType]
BY DEF TypeOK, WriterType

\* The step that ends a round keeps the types.
LEMMA RestType ==
  ASSUME TypeOK, NEW w \in Writers, Rest(w)
  PROVE  writer' \in [Writers -> WriterType] /\ dailyIn' \in [Replicas -> 0 .. Day]
<1>1. writer' \in [Writers -> WriterType] BY WriterTypes, WriterUpdate DEF Rest
<1>2. dailyIn' \in [Replicas -> 0 .. Day] BY Intervals DEF Rest, TypeOK
<1>3. QED BY <1>1, <1>2

\* Every step keeps the types.
LEMMA TypeStep == TypeOK /\ [Next]_vars => TypeOK'
<1> SUFFICES ASSUME TypeOK, [Next]_vars PROVE TypeOK' OBVIOUS
<1> USE DEF TypeOK, WriterType, clocks, reporting, guarding
<1>1. CASE Tick
  <2>1. /\ age' \in [Incidents -> Never .. Day + 1]
        /\ silence' \in [Connectors -> Never .. StaleAfter + 1]
    BY <1>1, Intervals, AgeTypes DEF Tick
  <2>2. dailyIn' \in [Replicas -> 0 .. Day] /\ healthIn' \in [Replicas -> 0 .. HealthInterval]
    BY <1>1, Intervals, AgeTypes DEF Tick
  <2>3. \A a \in 0 .. Day : Older(a, Day - 1) \in 0 .. Day BY Intervals DEF Older, Never
  <2>4. looked' \in [Replicas -> [Tenants -> 0 .. Day]] BY <1>1, <2>3 DEF Tick
  <2>5. QED BY <1>1, <2>1, <2>2, <2>4 DEF Tick
<1>2. ASSUME NEW i \in Incidents, Raised(i) PROVE TypeOK'
  BY <1>2, Intervals DEF Raised, Never
<1>3. ASSUME NEW c \in Connectors, Heard(c) PROVE TypeOK'
  BY <1>3, Intervals DEF Heard, Never
<1>4. ASSUME NEW r \in Replicas, WakeDaily(r) PROVE TypeOK'
  <2>1. writer' \in [Writers -> WriterType] BY <1>4, WriterTypes, WriterUpdate DEF WakeDaily, Writers
  <2>2. QED BY <1>4, <2>1 DEF WakeDaily
<1>5. ASSUME NEW q \in Requests, NEW t \in Tenants, RequestReport(q, t) PROVE TypeOK'
  <2>1. [Resting EXCEPT !.at = "next", !.todo = {t}] \in WriterType BY WriterTypes
  <2>2. writer' \in [Writers -> WriterType] BY <1>5, <2>1, WriterUpdate DEF RequestReport, Writers
  <2>3. QED BY <1>5, <2>2 DEF RequestReport
<1>6. ASSUME NEW w \in Writers, ReadDay(w) PROVE TypeOK'
  <2>1. PICK t \in writer[w].todo :
          /\ writer' = [writer EXCEPT ![w] =
               [at |-> "commit", todo |-> writer[w].todo \ {t}, tenant |-> t,
                counted |-> {i \in Incidents : TenantOf[i] = t /\ Within(i)}]]
          /\ looked' = IF w \in Replicas THEN [looked EXCEPT ![w][t] = 0] ELSE looked
    BY <1>6 DEF ReadDay
  <2>2. t \in Tenants BY <2>1
  <2>3. writer' \in [Writers -> WriterType] BY <2>1, <2>2, WriterUpdate
  <2>4. looked' \in [Replicas -> [Tenants -> 0 .. Day]] BY <2>1, <2>2, Intervals
  <2>5. QED BY <1>6, <2>3, <2>4 DEF ReadDay
<1>7. ASSUME NEW w \in Writers, CommitReport(w) PROVE TypeOK'
  <2>1. writer[w] \in WriterType OBVIOUS
  <2>2. writer' = [writer EXCEPT ![w] = [writer[w] EXCEPT !.at = "mail", !.counted = {}]]
    BY <1>7 DEF CommitReport
  <2>3. writer' \in [Writers -> WriterType] BY <2>1, <2>2, WriterTypes, WriterUpdate
  <2>4. QED BY <1>7, <2>1, <2>3 DEF CommitReport
<1>8. ASSUME NEW w \in Writers, MailReport(w) PROVE TypeOK'
  <2>1. writer' = [writer EXCEPT ![w] = [writer[w] EXCEPT !.at = "publish"]]
    BY <1>8 DEF MailReport
  <2>2. writer' \in [Writers -> WriterType] BY <2>1, WriterTypes, WriterUpdate
  <2>3. QED BY <1>8, <2>2 DEF MailReport
<1>9. ASSUME NEW w \in Writers, PublishReport(w) PROVE TypeOK'
  <2>1. CASE Left(w) = {} BY <1>9, <2>1, RestType DEF PublishReport
  <2>2. CASE Left(w) # {}
    <3>1. [Resting EXCEPT !.at = "next", !.todo = Left(w)] \in WriterType BY WriterTypes DEF Left
    <3>2. writer' \in [Writers -> WriterType] BY <1>9, <2>2, <3>1, WriterUpdate DEF PublishReport
    <3>3. QED BY <1>9, <2>2, <3>2 DEF PublishReport
  <2>3. QED BY <2>1, <2>2
<1>10. ASSUME NEW r \in Replicas, CheckHealth(r) PROVE TypeOK'
  <2>1. healthIn' \in [Replicas -> 0 .. HealthInterval]
    BY <1>10, Intervals DEF CheckHealth, HealthSleep
  <2>2. QED BY <1>10, <2>1 DEF CheckHealth
<1>11. ASSUME NEW r \in Replicas, Alert(r) PROVE TypeOK'
  <2>1. healthIn' \in [Replicas -> 0 .. HealthInterval] BY <1>11, Intervals DEF Alert, HealthSleep
  <2>2. QED BY <1>11, <2>1 DEF Alert
<1>12. ASSUME NEW w \in Writers, FailReport(w) PROVE TypeOK'
  BY <1>12, RestType, Intervals DEF FailReport, Unreported
<1>13. ASSUME NEW r \in Replicas, FailHealth(r) PROVE TypeOK'
  BY <1>13, Intervals DEF FailHealth, HealthSleep
<1>14. ASSUME NEW r \in Replicas, Crash(r) PROVE TypeOK'
  <2>1. writer' \in [Writers -> WriterType] BY <1>14, WriterTypes DEF Crash
  <2>2. QED BY <1>14, <2>1, Intervals DEF Crash, Unreported
<1>15. ASSUME NEW r \in Replicas, Restart(r) PROVE TypeOK'
  BY <1>15, Intervals DEF Restart, FirstSleep
<1>16. CASE UNCHANGED vars BY <1>16 DEF vars
<1>17. QED
  BY <1>1, <1>2, <1>3, <1>4, <1>5, <1>6, <1>7, <1>8, <1>9, <1>10, <1>11, <1>12, <1>13, <1>14,
     <1>15, <1>16
  DEF Next, DailyStep, ReportStep, HealthStep, Writers

-----------------------------------------------------------------------------
\* Who is about to be alerted of stays silent, or is recorded as heard late.
LEMMA AlarmsStep == TypeOK /\ AlarmsDue /\ [Next]_vars => AlarmsDue'
<1> SUFFICES ASSUME TypeOK, AlarmsDue, [Next]_vars PROVE AlarmsDue' OBVIOUS
<1> USE DEF clocks, reporting, guarding
<1>1. UNCHANGED <<silence, gaps, late>> => AlarmsDue' BY DEF AlarmsDue, Stale
<1>2. CASE Tick
  <2>1. \A c \in Connectors : Stale(c) => Stale(c)'
    BY <1>2, Intervals DEF Tick, Stale, Older, TypeOK, Never
  <2>2. QED BY <1>2, <2>1 DEF Tick, AlarmsDue, TypeOK
<1>3. ASSUME NEW c \in Connectors, Heard(c) PROVE AlarmsDue'
  <2>1. ASSUME NEW r \in Replicas, NEW d \in gaps'[r] PROVE Stale(d)' \/ d \in late'
    <3>1. d \in gaps[r] /\ d \in Connectors BY <1>3, <2>1 DEF Heard, TypeOK
    <3>2. CASE d = c BY <1>3, <3>1, <3>2 DEF Heard
    <3>3. CASE d # c
      <4>1. silence'[d] = silence[d] /\ late \subseteq late' BY <1>3, <3>1, <3>3 DEF Heard, TypeOK
      <4>2. QED BY <3>1, <4>1 DEF AlarmsDue, Stale
    <3>4. QED BY <3>2, <3>3
  <2>2. QED BY <2>1 DEF AlarmsDue
<1>4. ASSUME NEW r \in Replicas, CheckHealth(r) PROVE AlarmsDue'
  <2>1. /\ silence' = silence
        /\ gaps' = [gaps EXCEPT ![r] = {c \in Connectors : Stale(c)}]
        /\ late' = late \ {c \in Connectors : Stale(c)}
    BY <1>4 DEF CheckHealth, TypeOK
  <2>2. ASSUME NEW s \in Replicas, NEW c \in gaps'[s] PROVE Stale(c) \/ c \in late'
    <3>1. CASE s = r BY <2>1, <2>2, <3>1 DEF TypeOK
    <3>2. CASE s # r
      <4>1. c \in gaps[s] /\ c \in Connectors BY <2>1, <2>2, <3>2 DEF TypeOK
      <4>2. QED BY <2>1, <4>1 DEF AlarmsDue
    <3>3. QED BY <3>1, <3>2
  <2>3. QED BY <2>1, <2>2 DEF AlarmsDue, Stale
<1>5. ASSUME NEW r \in Replicas, Alert(r) \/ FailHealth(r) \/ Crash(r) PROVE AlarmsDue'
  <2>1. UNCHANGED <<silence, late>> /\ \A s \in Replicas : gaps'[s] \subseteq gaps[s]
    BY <1>5 DEF Alert, FailHealth, Crash, TypeOK
  <2>2. QED BY <2>1 DEF AlarmsDue, Stale
<1>6. ASSUME NEW i \in Incidents, Raised(i) PROVE AlarmsDue' BY <1>1, <1>6 DEF Raised
<1>7. ASSUME NEW r \in Replicas, WakeDaily(r) \/ Restart(r) PROVE AlarmsDue'
  BY <1>1, <1>7 DEF WakeDaily, Restart
<1>8. ASSUME NEW w \in Writers, ReportStep(w) \/ FailReport(w) PROVE AlarmsDue'
  BY <1>1, <1>8 DEF ReportStep, ReadDay, CommitReport, MailReport, PublishReport, FailReport
<1>9. ASSUME NEW q \in Requests, NEW t \in Tenants, RequestReport(q, t) PROVE AlarmsDue'
  BY <1>1, <1>9 DEF RequestReport
<1>10. CASE UNCHANGED vars BY <1>1, <1>10 DEF vars
<1>11. QED
  BY <1>2, <1>3, <1>4, <1>5, <1>6, <1>7, <1>8, <1>9, <1>10
  DEF Next, DailyStep, HealthStep, Writers

-----------------------------------------------------------------------------
\* What covers an incident stays, but for the moment it is opened.
LEMMA CoveredStays ==
  ASSUME TypeOK, reported \subseteq reported', excused \subseteq excused',
         NEW i \in Incidents, age'[i] = age[i], Covered(i)
  PROVE  Covered(i)'
BY DEF Covered

\* A step that leaves r's process and its clocks alone leaves it on schedule.
LEMMA ScheduleUnseen ==
  ASSUME TypeOK, NEW r \in Replicas, OnSchedule(r),
         (r \in up') <=> (r \in up), writer'[r] = writer[r], dailyIn'[r] = dailyIn[r],
         \A t \in Tenants : looked'[r][t] = looked[r][t],
         age' = age, reported \subseteq reported', excused \subseteq excused'
  PROVE  OnSchedule(r)'
<1>1. \A i \in Incidents : Covered(i) => Covered(i)' BY CoveredStays
<1>2. writer[r].todo \subseteq Tenants BY DEF TypeOK, Writers
<1>3. QED BY <1>1, <1>2 DEF OnSchedule, Between

\* A process that has just come up, or gone to sleep with all of its round done
\* or excused, sleeps a whole day from now.
LEMMA ScheduleRests ==
  ASSUME TypeOK', NEW r \in Replicas, r \in up', writer'[r] = Resting, dailyIn'[r] = Day,
         \A i \in Incidents : Covered(i)' \/ age'[i] > Day
  PROVE  OnSchedule(r)'
<1>1. \A t \in Tenants : looked'[r][t] >= Day - dailyIn'[r]
  BY Intervals DEF TypeOK
<1>2. QED BY <1>1 DEF OnSchedule, Between, Resting

\* Every step keeps every process on schedule.
LEMMA ScheduleStep ==
  ASSUME TypeOK, TypeOK', \A r \in Replicas : OnSchedule(r), [Next]_vars
  PROVE  \A r \in Replicas : OnSchedule(r)'
<1> SUFFICES ASSUME NEW r \in Replicas PROVE OnSchedule(r)' OBVIOUS
<1>a. OnSchedule(r) /\ r \in Writers BY DEF Writers
<1> USE DEF clocks, reporting, guarding
<1>1. CASE Tick
  <2>1. /\ \A i \in Incidents : age'[i] = Older(age[i], Day)
        /\ dailyIn'[r] = Sooner(dailyIn[r])
        /\ \A t \in Tenants : looked'[r][t] = Older(looked[r][t], Day - 1)
        /\ writer' = writer /\ up' = up /\ reported' = reported /\ excused' = excused
    BY <1>1 DEF Tick, TypeOK
  <2>2. /\ \A i \in Incidents : age[i] \in Never .. Day + 1
        /\ dailyIn[r] \in 0 .. Day
        /\ \A t \in Tenants : looked[r][t] \in 0 .. Day
        /\ writer[r].todo \subseteq Tenants
    BY <1>a DEF TypeOK
  <2>3. \A i \in Incidents : /\ Covered(i) => Covered(i)'
                             /\ age[i] > Day => age'[i] > Day
    BY <2>1, <2>2, Intervals DEF Covered, Older, Never
  <2>4. ASSUME r \notin up PROVE OnSchedule(r)'
    BY <1>a, <2>1, <2>3, <2>4 DEF OnSchedule, Between, Resting
  <2>5. ASSUME Between(r) PROVE OnSchedule(r)'
    <3>1. ASSUME NEW i \in Incidents, ~Covered(i), ~(age[i] > Day)
          PROVE  age'[i] > Day \/ age'[i] <= Day - dailyIn'[r]
      <4>1. age[i] <= Day - dailyIn[r] BY <1>a, <2>5, <3>1 DEF OnSchedule
      <4>2. QED BY <2>1, <2>2, <4>1, Intervals DEF Older, Sooner, Never
    <3>2. ASSUME NEW t \in Tenants PROVE looked'[r][t] >= Day - dailyIn'[r]
      <4>1. looked[r][t] >= Day - dailyIn[r] BY <1>a, <2>5 DEF OnSchedule
      <4>2. QED BY <2>1, <2>2, <4>1, Intervals DEF Older, Sooner, Never
    <3>3. QED BY <1>a, <2>1, <2>3, <2>5, <3>1, <3>2 DEF OnSchedule, Between
  <2>6. ASSUME writer[r].at # "rest" PROVE OnSchedule(r)'
    <3>1. \A t \in writer[r].todo : looked'[r][t] = Day
      BY <1>a, <2>1, <2>2, <2>6, Intervals DEF OnSchedule, Older, Never
    <3>2. r \in up BY <1>a, <2>6 DEF OnSchedule, Resting
    <3>3. QED BY <1>a, <2>1, <2>3, <2>6, <3>1, <3>2 DEF OnSchedule, Between
  <2>7. QED BY <2>4, <2>5, <2>6 DEF Between
<1>2. ASSUME NEW i \in Incidents, Raised(i) PROVE OnSchedule(r)'
  <2>1. /\ age'[i] = 0 /\ \A j \in Incidents \ {i} : age'[j] = age[j]
        /\ UNCHANGED <<dailyIn, looked, writer, up, reported>>
        /\ excused \subseteq excused'
    BY <1>2 DEF Raised, TypeOK
  <2>2. \A j \in Incidents \ {i} : Covered(j) => Covered(j)' BY <2>1, CoveredStays
  <2>3. CASE i \in excused'
    <3>1. Covered(i)' BY <2>3 DEF Covered
    <3>2. QED BY <1>a, <2>1, <2>2, <3>1 DEF OnSchedule, Between
  <2>4. CASE i \notin excused'
    <3>1. Asleep(r) BY <1>2, <2>4 DEF Raised
    <3>2. age'[i] <= Day - dailyIn[r] BY <2>1, <1>a, Intervals DEF TypeOK
    <3>3. QED BY <1>a, <2>1, <2>2, <3>1, <3>2 DEF OnSchedule, Between, Asleep
  <2>5. QED BY <2>3, <2>4
<1>3. ASSUME NEW c \in Connectors, Heard(c) PROVE OnSchedule(r)'
  BY <1>a, <1>3, ScheduleUnseen DEF Heard
<1>4. ASSUME NEW s \in Replicas, WakeDaily(s) PROVE OnSchedule(r)'
  <2>1. CASE s # r BY <1>a, <1>4, <2>1, ScheduleUnseen DEF WakeDaily, TypeOK
  <2>2. CASE s = r
    <3>1. /\ r \in up' /\ writer'[r].at = "next" /\ writer'[r].todo = Tenants
          /\ writer'[r].counted = {} /\ UNCHANGED <<age, looked, reported, excused>>
      BY <1>4, <1>a, <2>2 DEF WakeDaily, Between, Resting, TypeOK
    <3>2. \A i \in Incidents : TenantOf[i] \in Tenants BY BackgroundAssumption
    <3>3. \A t \in Tenants : looked[r][t] = Day
      BY <1>4, <1>a, <2>2, Intervals DEF WakeDaily, OnSchedule, TypeOK
    <3>4. QED BY <3>1, <3>2, <3>3 DEF OnSchedule, Between
  <2>3. QED BY <2>1, <2>2
<1>5. ASSUME NEW q \in Requests, NEW t \in Tenants, RequestReport(q, t) PROVE OnSchedule(r)'
  <2>1. q # r BY BackgroundAssumption
  <2>2. QED BY <1>a, <1>5, <2>1, ScheduleUnseen DEF RequestReport, TypeOK
<1>6. ASSUME NEW w \in Writers, ReadDay(w) PROVE OnSchedule(r)'
  <2>1. PICK t \in writer[w].todo :
          /\ writer' = [writer EXCEPT ![w] =
               [at |-> "commit", todo |-> writer[w].todo \ {t}, tenant |-> t,
                counted |-> {i \in Incidents : TenantOf[i] = t /\ Within(i)}]]
          /\ looked' = IF w \in Replicas THEN [looked EXCEPT ![w][t] = 0] ELSE looked
    BY <1>6 DEF ReadDay
  <2>2. UNCHANGED <<age, dailyIn, up, reported, excused>> BY <1>6 DEF ReadDay
  <2>3. CASE w # r
    <3>1. \A u \in Tenants : looked'[r][u] = looked[r][u] BY <2>1, <2>3 DEF TypeOK
    <3>2. writer'[r] = writer[r] BY <1>a, <2>1, <2>3 DEF TypeOK
    <3>3. QED BY <1>a, <2>2, <3>1, <3>2, ScheduleUnseen
  <2>4. CASE w = r
    <3>1. writer[r].at = "next" /\ writer[r].todo \subseteq Tenants
      BY <1>6, <1>a, <2>4 DEF ReadDay, TypeOK
    <3>2. /\ writer'[r].at = "commit" /\ writer'[r].todo = writer[r].todo \ {t}
          /\ writer'[r].counted = {i \in Incidents : TenantOf[i] = t /\ Within(i)}
      BY <1>a, <2>1, <2>4 DEF TypeOK
    <3>3. \A u \in writer'[r].todo : looked'[r][u] = Day
      BY <1>a, <2>1, <2>4, <3>1, <3>2 DEF OnSchedule, TypeOK
    <3>4. ASSUME NEW i \in Incidents, ~Covered(i), ~(age[i] > Day)
          PROVE  i \in writer'[r].counted \/ TenantOf[i] \in writer'[r].todo
      <4>1. TenantOf[i] \in writer[r].todo \/ i \in writer[r].counted
        BY <1>a, <3>1, <3>4 DEF OnSchedule
      <4>2. writer[r].counted = {} BY <1>a, <3>1 DEF OnSchedule
      <4>3. Within(i) BY <3>4, Intervals DEF Within, Covered, TypeOK, Never
      <4>4. QED BY <3>2, <4>1, <4>2, <4>3
    <3>5. r \in up BY <1>a, <3>1 DEF OnSchedule, Resting
    <3>6. QED BY <2>2, <3>2, <3>3, <3>4, <3>5 DEF OnSchedule, Between, Covered
  <2>5. QED BY <2>3, <2>4
<1>7. ASSUME NEW w \in Writers, CommitReport(w) PROVE OnSchedule(r)'
  <2>1. UNCHANGED <<age, dailyIn, up, looked, excused>> /\ reported' = reported \union writer[w].counted
    BY <1>7 DEF CommitReport
  <2>2. CASE w # r
    <3>1. writer'[r] = writer[r] BY <1>7, <1>a, <2>2 DEF CommitReport, TypeOK
    <3>2. QED BY <1>a, <2>1, <3>1, ScheduleUnseen
  <2>3. CASE w = r
    <3>1. /\ writer[r].at = "commit" /\ writer'[r].at = "mail"
          /\ writer'[r].todo = writer[r].todo /\ writer'[r].counted = {}
      BY <1>7, <1>a, <2>3 DEF CommitReport, TypeOK
    <3>2. \A i \in Incidents : Covered(i) \/ i \in writer[r].counted => Covered(i)'
      BY <2>1, <2>3 DEF Covered
    <3>3. r \in up BY <1>a, <3>1 DEF OnSchedule, Resting
    <3>4. QED BY <1>a, <2>1, <3>1, <3>2, <3>3 DEF OnSchedule, Between
  <2>4. QED BY <2>2, <2>3
<1>8. ASSUME NEW w \in Writers, MailReport(w) PROVE OnSchedule(r)'
  <2>1. UNCHANGED <<age, dailyIn, up, reported, looked, excused>> BY <1>8 DEF MailReport
  <2>2. CASE w # r
    <3>1. writer'[r] = writer[r] BY <1>8, <1>a, <2>2 DEF MailReport, TypeOK
    <3>2. QED BY <1>a, <2>1, <3>1, ScheduleUnseen
  <2>3. CASE w = r
    <3>1. /\ writer[r].at = "mail" /\ writer'[r].at = "publish"
          /\ writer'[r].todo = writer[r].todo /\ writer'[r].counted = writer[r].counted
      BY <1>8, <1>a, <2>3 DEF MailReport, TypeOK
    <3>2. r \in up /\ writer[r].counted = {} BY <1>a, <3>1 DEF OnSchedule, Resting
    <3>3. \A i \in Incidents : Covered(i)' <=> Covered(i) BY <2>1 DEF Covered
    <3>4. QED BY <1>a, <2>1, <3>1, <3>2, <3>3 DEF OnSchedule, Between
  <2>4. QED BY <2>2, <2>3
<1>9. ASSUME NEW w \in Writers, PublishReport(w) PROVE OnSchedule(r)'
  <2>1. UNCHANGED <<age, up, reported, looked, excused>> BY <1>9 DEF PublishReport
  <2>2. CASE w # r
    <3>1. writer'[r] = writer[r] /\ dailyIn'[r] = dailyIn[r]
      BY <1>9, <1>a, <2>2 DEF PublishReport, Rest, TypeOK
    <3>2. QED BY <1>a, <2>1, <3>1, ScheduleUnseen
  <2>3. CASE w = r
    <3>1. writer[r].at = "publish" /\ writer[r].counted = {} /\ r \in up
      BY <1>9, <1>a, <2>3 DEF PublishReport, OnSchedule, Resting
    <3>2. \A i \in Incidents : Covered(i)' <=> Covered(i) BY <2>1 DEF Covered
    <3>3. CASE Left(r) = {}
      <4>1. writer'[r] = Resting /\ dailyIn'[r] = Day
        BY <1>9, <1>a, <2>3, <3>3 DEF PublishReport, Rest, TypeOK
      <4>2. \A i \in Incidents : Covered(i)' \/ age'[i] > Day
        BY <1>a, <2>1, <3>1, <3>2, <3>3 DEF OnSchedule, Left
      <4>3. QED BY <2>1, <3>1, <4>1, <4>2, ScheduleRests
    <3>4. CASE Left(r) # {}
      <4>0. writer'[r] = [Resting EXCEPT !.at = "next", !.todo = writer[r].todo]
        BY <1>9, <1>a, <2>3, <3>4 DEF PublishReport, Left, TypeOK
      <4>1. /\ writer'[r].at = "next" /\ writer'[r].todo = writer[r].todo
            /\ writer'[r].counted = {}
        BY <4>0 DEF Resting
      <4>2. QED BY <1>a, <2>1, <3>1, <3>2, <4>1 DEF OnSchedule, Between
    <3>5. QED BY <3>3, <3>4
  <2>4. QED BY <2>2, <2>3
<1>10. ASSUME NEW s \in Replicas, HealthStep(s) \/ FailHealth(s) PROVE OnSchedule(r)'
  BY <1>a, <1>10, ScheduleUnseen DEF HealthStep, CheckHealth, Alert, FailHealth
<1>11. ASSUME NEW w \in Writers, FailReport(w) PROVE OnSchedule(r)'
  <2>1. UNCHANGED <<age, up, reported, looked>> /\ excused \subseteq excused' BY <1>11 DEF FailReport
  <2>2. CASE w # r
    <3>1. writer'[r] = writer[r] /\ dailyIn'[r] = dailyIn[r]
      BY <1>11, <1>a, <2>2 DEF FailReport, Rest, TypeOK
    <3>2. QED BY <1>a, <2>1, <3>1, ScheduleUnseen
  <2>3. CASE w = r
    <3>1. writer'[r] = Resting /\ dailyIn'[r] = Day
      BY <1>11, <1>a, <2>3 DEF FailReport, Rest, TypeOK
    <3>2. \A i \in Incidents : Covered(i)' BY <1>11, <2>1, <2>3 DEF FailReport, Unreported, Covered
    <3>3. r \in up BY <1>11, <1>a, <2>3 DEF FailReport, OnSchedule, Resting
    <3>4. QED BY <2>1, <3>1, <3>2, <3>3, ScheduleRests
  <2>4. QED BY <2>2, <2>3
<1>12. ASSUME NEW s \in Replicas, Crash(s) PROVE OnSchedule(r)'
  <2>1. UNCHANGED <<age, dailyIn, reported, looked>> /\ excused \subseteq excused' BY <1>12 DEF Crash
  <2>2. CASE s # r
    <3>1. writer'[r] = writer[r] /\ (r \in up' <=> r \in up)
      BY <1>12, <1>a, <2>2, BackgroundAssumption DEF Crash
    <3>2. QED BY <1>a, <2>1, <3>1, ScheduleUnseen
  <2>3. CASE s = r
    <3>1. writer'[r] = Resting /\ r \notin up' BY <1>12, <1>a, <2>3 DEF Crash
    <3>2. \A i \in Incidents : Covered(i)' BY <1>12, <2>1 DEF Crash, Unreported, Covered
    <3>3. QED BY <3>1, <3>2 DEF OnSchedule, Between, Resting
  <2>4. QED BY <2>2, <2>3
<1>13. ASSUME NEW s \in Replicas, Restart(s) PROVE OnSchedule(r)'
  <2>1. UNCHANGED <<age, reported, looked, writer, excused>> BY <1>13 DEF Restart
  <2>2. CASE s # r
    <3>1. dailyIn'[r] = dailyIn[r] /\ (r \in up' <=> r \in up)
      BY <1>13, <2>2 DEF Restart, FirstSleep, TypeOK
    <3>2. QED BY <1>a, <2>1, <3>1, ScheduleUnseen
  <2>3. CASE s = r
    <3>1. writer'[r] = Resting /\ r \in up' /\ dailyIn'[r] = Day
      BY <1>13, <1>a, <2>1, <2>3 DEF Restart, FirstSleep, OnSchedule, TypeOK
    <3>2. \A i \in Incidents : Covered(i)'
      BY <1>13, <1>a, <2>1, <2>3 DEF Restart, OnSchedule, Covered
    <3>3. QED BY <3>1, <3>2, ScheduleRests
  <2>4. QED BY <2>2, <2>3
<1>14. CASE UNCHANGED vars BY <1>a, <1>14, ScheduleUnseen DEF vars
<1>15. QED
  BY <1>1, <1>2, <1>3, <1>4, <1>5, <1>6, <1>7, <1>8, <1>9, <1>10, <1>11, <1>12, <1>13, <1>14
  DEF Next, DailyStep, ReportStep, Writers

-----------------------------------------------------------------------------
\* The first state satisfies the invariant.
LEMMA InitInv == Init => BackgroundInv
<1> SUFFICES ASSUME Init PROVE BackgroundInv OBVIOUS
<1>1. AlarmsDue BY DEF Init, AlarmsDue
<1>2. ASSUME NEW r \in Replicas PROVE OnSchedule(r)
  <2>1. /\ r \in up /\ writer[r] = Resting /\ dailyIn[r] = Day
        /\ \A i \in Incidents : Covered(i)
        /\ \A t \in Tenants : looked[r][t] = Day
    BY DEF Init, Writers, Covered
  <2>2. QED BY <2>1, Intervals DEF OnSchedule, Between, Resting
<1>3. QED BY <1>1, <1>2, TypeInit DEF BackgroundInv

\* Every reachable state satisfies it: the processes are on schedule and the
\* alarms due are true ones, whatever fails and restarts.
THEOREM BackgroundInvariant == Spec => []BackgroundInv
<1>1. BackgroundInv /\ [Next]_vars => BackgroundInv'
  <2> SUFFICES ASSUME BackgroundInv, [Next]_vars PROVE BackgroundInv' OBVIOUS
  <2>1. TypeOK' BY TypeStep DEF BackgroundInv
  <2>2. AlarmsDue' BY AlarmsStep DEF BackgroundInv
  <2>3. \A r \in Replicas : OnSchedule(r)' BY <2>1, ScheduleStep DEF BackgroundInv
  <2>4. QED BY <2>1, <2>2, <2>3 DEF BackgroundInv
<1>2. QED BY <1>1, InitInv, PTL DEF Spec

\* No process looks at a tenant for a second scheduled report within a day.
THEOREM NoTenantTwiceADay == Spec => []ReportsSpaced
<1>1. BackgroundInv => ReportsSpaced BY DEF BackgroundInv, OnSchedule, ReportsSpaced
<1>2. QED BY <1>1, BackgroundInvariant, PTL

\* The sleep itself hides nothing: an incident that grows too old for a report in
\* a step of time with the loop asleep is on a report, or excused (opened while a
\* loop was awake or down, or caught in a failure).  One that grows too old while
\* the loop writes may be missed.
THEOREM SleepHidesNothing == Spec => OnlyWritingHides
<1>1. BackgroundInv /\ [Next]_vars =>
        [\A i \in Incidents, r \in Replicas :
           Within(i) /\ ~Within(i)' /\ Asleep(r) => i \in reported \union excused]_vars
  <2> SUFFICES ASSUME BackgroundInv, [Next]_vars, NEW i \in Incidents, NEW r \in Replicas,
                      Within(i), ~Within(i)', Asleep(r)
               PROVE  i \in reported \union excused
    OBVIOUS
  <2> USE DEF BackgroundInv, clocks, reporting, guarding
  <2>1. CASE Tick
    <3>a. age[i] \in 0 .. Day /\ ~(age'[i] \in 0 .. Day) BY DEF Within
    <3>b. age'[i] = Older(age[i], Day) BY <2>1 DEF Tick
    <3>1. age[i] = Day
      BY <3>a, <3>b, BackgroundAssumption DEF Older, Never
    <3>2. dailyIn[r] \in 1 .. Day BY DEF Asleep, TypeOK
    <3>3. Covered(i) BY <3>1, <3>2, Intervals DEF OnSchedule, Asleep
    <3>4. QED BY <3>1, <3>3, Intervals DEF Covered, Never
  <2>2. CASE UNCHANGED age[i] BY <2>2 DEF Within
  <2>3. ASSUME NEW j \in Incidents, Raised(j) PROVE UNCHANGED age[i]
    BY <2>3 DEF Raised, Within, Never, TypeOK
  <2>4. QED
    BY <2>1, <2>2, <2>3
    DEF Next, DailyStep, ReportStep, HealthStep, Heard, WakeDaily, ReadDay, CommitReport, MailReport,
        PublishReport, CheckHealth, Alert, FailHealth, Crash, Restart, RequestReport, FailReport, vars
<1>2. QED BY <1>1, BackgroundInvariant, PTL DEF Spec, OnlyWritingHides

\* Who is alerted of is silent past the limit, or has been heard since the check.
THEOREM AlarmsAreTrue == Spec => NoFalseAlarm
<1>1. BackgroundInv /\ [Next]_vars =>
        [\A c \in alerts' \ alerts : silence[c] > StaleAfter \/ c \in late]_vars
  <2> SUFFICES ASSUME BackgroundInv, [Next]_vars, NEW c \in alerts' \ alerts
               PROVE  silence[c] > StaleAfter \/ c \in late
    OBVIOUS
  <2> USE DEF BackgroundInv, clocks, reporting, guarding
  <2>1. ASSUME NEW r \in Replicas, Alert(r) PROVE silence[c] > StaleAfter \/ c \in late
    <3>1. c \in gaps[r] BY <2>1 DEF Alert
    <3>2. QED BY <3>1 DEF AlarmsDue, Stale
  <2>2. alerts' \subseteq alerts => FALSE OBVIOUS
  <2>3. QED
    BY <2>1, <2>2
    DEF Next, DailyStep, ReportStep, HealthStep, Tick, Raised, Heard, WakeDaily, ReadDay, CommitReport,
        MailReport, PublishReport, CheckHealth, FailHealth, Crash, Restart, RequestReport, FailReport, vars
<1>2. QED BY <1>1, BackgroundInvariant, PTL DEF Spec, NoFalseAlarm

=============================================================================
