------------------------------- MODULE Triage -------------------------------
(* One incident gathering evidence, from the threat feeds to the tier of the  *)
(* action: lookup_ip as ThreatIntel calls it, then the policy as the          *)
(* Orchestrator and the Response agent chain it, over every set of signals an *)
(* incident's context may hold.  Signals only accumulate here, so that a step *)
(* compares the decision before and after one more signal.  MaxFailures       *)
(* bounds failed_login_count; the score is constant from 20 on.               *)
EXTENDS Policy, ThreatFeed

CONSTANTS MaxFailures,  \* largest failed_login_count considered
          Techniques,   \* ATT&CK families an incident may be mapped to
          Configured    \* feeds whose API key is set

ASSUME TriageAssumption == MaxFailures \in Nat /\ Configured \subseteq Sources

VARIABLES failed,      \* context["failed_login_count"]
          flags,       \* the boolean signals of the context that are true
          techniques,  \* incident.mitre_techniques
          kind,        \* what kind of address the incident is about
          answers,     \* what each feed that was asked has said, "pending" before
          concluded    \* lookup_ip has returned

vars == <<failed, flags, techniques, kind, answers, concluded>>

TypeOK == /\ failed \in 0 .. MaxFailures
          /\ flags \subseteq Flags
          /\ techniques \subseteq Techniques
          /\ kind \in AddressKinds
          /\ answers \in [Asked(kind, Configured) -> Verdicts \union {NoData, "pending"}]
          /\ concluded \in BOOLEAN

Init == /\ failed = 0
        /\ flags = {}
        /\ techniques \in SUBSET Techniques
        /\ kind \in AddressKinds
        /\ answers = [s \in Asked(kind, Configured) |-> "pending"]
        /\ concluded = FALSE

\* A feed answers or fails; asyncio.gather waits for them in any order.
Answer(s) == /\ answers[s] = "pending"
             /\ \E verdict \in Answers(s) \union {NoData} :
                  answers' = [answers EXCEPT ![s] = verdict]
             /\ UNCHANGED <<failed, flags, techniques, kind, concluded>>

\* on_new_incident takes the verdict into the context once all have answered.
Conclude == /\ ~concluded
            /\ \A s \in DOMAIN answers : answers[s] # "pending"
            /\ concluded' = TRUE
            /\ flags' = IF lookup_ip(kind, answers) = "malicious"
                        THEN flags \union {"malicious_indicator"} ELSE flags
            /\ UNCHANGED <<failed, techniques, kind, answers>>

\* One more failed login inside the window.
MoreFailures == /\ failed < MaxFailures
                /\ failed' = failed + 1
                /\ UNCHANGED <<flags, techniques, kind, answers, concluded>>

\* One more boolean signal of Detection becomes true.
RaiseFlag(f) == /\ f \notin flags
                /\ flags' = flags \union {f}
                /\ UNCHANGED <<failed, techniques, kind, answers, concluded>>

Next == \/ \E s \in DOMAIN answers : Answer(s)
        \/ Conclude
        \/ MoreFailures
        \/ \E f \in Flags \ {"malicious_indicator"} : RaiseFlag(f)

Spec == Init /\ [][Next]_vars

-----------------------------------------------------------------------------
Severity == severity_from_signals(failed, flags)
Action == recommend_action(techniques, flags)
Decision == classify_action(Action, Severity)

\* More evidence never lowers the severity the Orchestrator computes
\* (severity_from_signals, engine.py:97-139).
SeverityMonotone == [][SeverityRank[Severity] <= SeverityRank[Severity']]_vars

\* More evidence never loosens the tier of a given action, known or not:
\* escalation goes one way only (engine.py:78-86).
TierMonotone ==
  [][\A a \in KnownActions \union {"unlisted"} :
       TierRank[classify_action(a, Severity).tier]
         <= TierRank[classify_action(a, Severity').tier]]_vars

\* Nothing the Orchestrator recommends runs without a human except a plain
\* notification, whatever the signals and the techniques (orchestrator.py:9-31
\* chained with engine.py:70-94).
OnlyNotifyRunsAlone == Decision.tier = "tier1_auto" => Action = "notify"

\* At CRITICAL severity no recommended containment is one tap away: it is a
\* notification or it needs a human decision (engine.py:79-83).
CriticalIsNeverOneTap == Severity = "critical" => Decision.tier # "tier2_one_tap"

\* An address is taken for malicious only if a feed that speaks of reputation
\* says so: what Shodan sees on the host, failing feeds and internal addresses
\* never add up to it (threat_feed.py:186-207 with 257-315).
ShodanNeverConvicts ==
  "malicious_indicator" \in flags =>
    kind = "public" /\ \E s \in Configured \ {"shodan"} : answers[s] = "malicious"

\* ... and if one says so, the others cannot average it away: the block is what
\* the Orchestrator goes on to propose for a brute force (threat_feed.py:262-270
\* with orchestrator.py:25-28).
NeverAveragedAway ==
  concluded /\ (\E s \in DOMAIN answers : answers[s] = "malicious") =>
    BruteForceAction(flags) = "block_ip"

=============================================================================
