------------------------------- MODULE Policy -------------------------------
(* The deterministic decisions of the fleet: backend/app/policy/engine.py    *)
(* (tier of an action, severity of a set of signals) and recommend_action of *)
(* backend/app/agents/orchestrator.py.  Pure operators, no state: the other  *)
(* modules use them where the agents call these functions.                   *)
EXTENDS Naturals

Severities == {"low", "medium", "high", "critical"}

\* The order of the Severity members, for comparing two of them.
SeverityRank == [low |-> 0, medium |-> 1, high |-> 2, critical |-> 3]

Tiers == {"tier1_auto", "tier2_one_tap", "tier3_human_only"}

\* How much human involvement a tier asks for.
TierRank == [tier1_auto |-> 1, tier2_one_tap |-> 2, tier3_human_only |-> 3]

TIER3_ACTIONS == {"disable_account", "delete_resource", "revoke_all_sessions",
                  "wipe_endpoint", "terminate_instance", "delete_user"}

TIER2_ACTIONS == {"block_ip", "quarantine_endpoint", "force_password_reset",
                  "disable_forwarding_rule", "revoke_api_key"}

TIER1_ACTIONS == {"enrich_indicator", "tag_incident", "notify", "open_ticket",
                  "rate_limit_ip"}

KnownActions == TIER1_ACTIONS \union TIER2_ACTIONS \union TIER3_ACTIONS

\* ACTION_REVERSIBILITY.get(action, (False, ...)): every known action but four
\* is reversible, and an action the table does not list is not.
Reversible(action) ==
  action \in KnownActions \ {"delete_resource", "wipe_endpoint",
                             "terminate_instance", "delete_user"}

-----------------------------------------------------------------------------
\* Mutants: escalation tested on the wrong severity, and forgotten.
EscalatesAtHighOnly(severity) == severity = "high"

\* A one-tap action becomes human-only at critical severity.
Escalates(severity) == severity = "critical"

\* classify_action: the tier the policy gives an action at a severity.
TierOf(action, severity) ==
  IF action \in TIER3_ACTIONS \/ ~Reversible(action) THEN "tier3_human_only"
  ELSE IF action \in TIER2_ACTIONS
       THEN IF Escalates(severity) THEN "tier3_human_only" ELSE "tier2_one_tap"
  ELSE IF action \in TIER1_ACTIONS THEN "tier1_auto"
  ELSE "tier3_human_only"

classify_action(action, severity) ==
  [tier |-> TierOf(action, severity), reversible |-> Reversible(action)]

-----------------------------------------------------------------------------
\* What severity_from_signals is given: the context of an enriched incident.
Flags == {"malicious_indicator", "new_admin_activity", "impossible_travel", "malware_detected"}

\* failed_login_count contributes 2, 1 or 0 points.
FailedLoginScore(n) == IF n >= 20 THEN 2 ELSE IF n >= 5 THEN 1 ELSE 0

Points(flag) == IF flag = "impossible_travel" THEN 3
                ELSE IF flag = "new_admin_activity" THEN 1 ELSE 2

Weigh(flag, flags) == IF flag \in flags THEN Points(flag) ELSE 0

Score(failed, flags) ==
  FailedLoginScore(failed) + Weigh("malicious_indicator", flags)
    + Weigh("malware_detected", flags) + Weigh("new_admin_activity", flags)
    + Weigh("impossible_travel", flags)

\* Mutant: the top band tested with == instead of >=.
BandExactlyFour(score) ==
  IF score = 4 THEN "critical" ELSE IF score = 3 THEN "high"
  ELSE IF score >= 1 THEN "medium" ELSE "low"

Band(score) ==
  IF score >= 4 THEN "critical" ELSE IF score = 3 THEN "high"
  ELSE IF score >= 1 THEN "medium" ELSE "low"

\* severity_from_signals, the flags that are true given as a set.
severity_from_signals(failed, flags) == Band(Score(failed, flags))

-----------------------------------------------------------------------------
\* Mutant: a malicious brute force gets the low-blast-radius containment.
RateLimitBruteForce(flags) ==
  IF "malicious_indicator" \in flags THEN "rate_limit_ip" ELSE "notify"

\* A brute force is contained only when a threat feed confirms the source.
BruteForceAction(flags) ==
  IF "malicious_indicator" \in flags THEN "block_ip" ELSE "notify"

\* recommend_action: techniques are the families ("T1110", "T1068", others)
\* that the code looks for as substrings of the ATT&CK ids.
recommend_action(techniques, flags) ==
  IF "impossible_travel" \in flags THEN "force_password_reset"
  ELSE IF "malware_detected" \in flags THEN "quarantine_endpoint"
  ELSE IF "T1110" \in techniques THEN BruteForceAction(flags)
  ELSE IF "T1068" \in techniques THEN "disable_account" ELSE "notify"

=============================================================================
