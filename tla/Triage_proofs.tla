--------------------------- MODULE Triage_proofs ----------------------------
(* Proofs about the policy and the feeds, for every bound on the failed       *)
(* logins, every set of techniques and every choice of configured feeds:      *)
(* evidence only pushes towards more severity and more human involvement,     *)
(* nothing but a notification runs alone, and the feeds convict by reputation *)
(* and cannot be averaged away.                                               *)
EXTENDS Triage, TLAPS

\* The number of failed logins scores at most 2, and more of them never score less.
LEMMA FailedLoginScoreMonotone ==
  ASSUME NEW m \in Nat, NEW n \in Nat, m <= n
  PROVE  /\ FailedLoginScore(m) \in 0 .. 2
         /\ FailedLoginScore(m) <= FailedLoginScore(n)
BY DEF FailedLoginScore

\* More flags never weigh less.
LEMMA WeighMonotone ==
  ASSUME NEW f \in Flags, NEW F, NEW G, F \subseteq G
  PROVE  Weigh(f, F) \in 0 .. 3 /\ Weigh(f, F) <= Weigh(f, G)
BY DEF Weigh, Points

\* The score of more failed logins and more flags is at least as high.
LEMMA ScoreMonotone ==
  ASSUME NEW m \in Nat, NEW n \in Nat, m <= n, NEW F, NEW G, F \subseteq G
  PROVE  Score(m, F) \in Nat /\ Score(n, G) \in Nat /\ Score(m, F) <= Score(n, G)
<1>1. FailedLoginScore(m) \in Nat /\ FailedLoginScore(n) \in Nat
        /\ FailedLoginScore(m) <= FailedLoginScore(n)
  BY FailedLoginScoreMonotone
<1>2. \A f \in Flags : Weigh(f, F) \in Nat /\ Weigh(f, G) \in Nat /\ Weigh(f, F) <= Weigh(f, G)
  BY WeighMonotone
<1>3. {"malicious_indicator", "malware_detected", "new_admin_activity", "impossible_travel"}
        \subseteq Flags
  BY DEF Flags
<1> DEFINE W(f) == Weigh(f, F) \in Nat /\ Weigh(f, G) \in Nat /\ Weigh(f, F) <= Weigh(f, G)
<1>4. W("malicious_indicator") /\ W("malware_detected") /\ W("new_admin_activity")
        /\ W("impossible_travel")
  BY <1>2, <1>3
<1>5. QED BY <1>1, <1>4 DEF Score

\* A higher score is never a lower band, and every band is a severity.
LEMMA BandMonotone ==
  ASSUME NEW s \in Nat, NEW t \in Nat, s <= t
  PROVE  Band(s) \in Severities /\ SeverityRank[Band(s)] <= SeverityRank[Band(t)]
BY DEF Band, Severities, SeverityRank

\* More severity never loosens the tier of an action.
LEMMA TierOfMonotone ==
  ASSUME NEW a, NEW s \in Severities, NEW t \in Severities, SeverityRank[s] <= SeverityRank[t]
  PROVE  TierRank[TierOf(a, s)] <= TierRank[TierOf(a, t)]
<1>1. s = "critical" => t = "critical" BY DEF Severities, SeverityRank
<1>2. QED BY <1>1 DEF TierOf, Escalates, TierRank

\* What a feed can say is a verdict.
LEMMA AnswersAreVerdicts ==
  ASSUME NEW s \in Sources
  PROVE  Answers(s) \subseteq Verdicts
<1>1. /\ \A a, n : abuseipdb_lookup(a, n) \in Verdicts
      /\ \A m, n : virustotal_lookup(m, n) \in Verdicts
      /\ \A n : otx_lookup(n) \in Verdicts /\ shodan_lookup(n) \in Verdicts
      /\ \A riot, c : greynoise_lookup(riot, c) \in Verdicts
      /\ \A b : threatfox_lookup(b) \in Verdicts
  BY DEF abuseipdb_lookup, virustotal_lookup, otx_lookup, shodan_lookup, greynoise_lookup,
         threatfox_lookup, Verdicts
<1>2. CASE s = "abuseipdb" BY <1>1, <1>2 DEF Answers
<1>3. CASE s = "virustotal" BY <1>1, <1>3 DEF Answers
<1>4. CASE s = "otx" BY <1>1, <1>4 DEF Answers
<1>5. CASE s = "greynoise" BY <1>1, <1>5 DEF Answers
<1>6. CASE s = "shodan" BY <1>1, <1>6 DEF Answers
<1>7. CASE s = "threatfox" BY <1>1, <1>7 DEF Answers
<1>8. QED BY <1>2, <1>3, <1>4, <1>5, <1>6, <1>7 DEF Sources

\* Shodan never says malicious.
LEMMA ShodanSaysExposure == "malicious" \notin Answers("shodan")
BY DEF Answers, shodan_lookup

\* Only configured feeds are asked.
LEMMA AskedAreConfigured == ASSUME NEW k PROVE Asked(k, Configured) \subseteq Configured
BY DEF Asked

\* The first state has its types.
LEMMA InitTypes == Init => TypeOK
<1> SUFFICES ASSUME Init PROVE TypeOK OBVIOUS
<1>1. failed \in 0 .. MaxFailures /\ flags \subseteq Flags /\ techniques \subseteq Techniques
  BY TriageAssumption DEF Init
<1>2. answers \in [Asked(kind, Configured) -> Verdicts \union {NoData, "pending"}]
  BY DEF Init
<1>3. QED BY <1>1, <1>2 DEF Init, TypeOK

\* The variables keep their types.
LEMMA TriageTypes == Spec => []TypeOK
<1>1. Init => TypeOK BY InitTypes
<1>2. ASSUME TypeOK, [Next]_vars PROVE TypeOK'
  <2>1. CASE Conclude
    BY <1>2, <2>1, TriageAssumption DEF TypeOK, Conclude, Flags
  <2>2. CASE MoreFailures
    BY <1>2, <2>2, TriageAssumption DEF TypeOK, MoreFailures
  <2>3. ASSUME NEW f \in Flags, RaiseFlag(f) PROVE TypeOK'
    BY <1>2, <2>3, TriageAssumption DEF TypeOK, RaiseFlag
  <2>4. ASSUME NEW s \in DOMAIN answers, Answer(s) PROVE TypeOK'
    <3>1. s \in Sources
      BY <1>2, TriageAssumption, AskedAreConfigured DEF TypeOK
    <3>2. Answers(s) \subseteq Verdicts BY <3>1, AnswersAreVerdicts
    <3>3. PICK verdict \in Verdicts \union {NoData} :
             answers' = [answers EXCEPT ![s] = verdict]
      BY <2>4, <3>2 DEF Answer
    <3>4. answers' \in [Asked(kind', Configured) -> Verdicts \union {NoData, "pending"}]
      BY <1>2, <2>4, <3>3 DEF TypeOK, Answer
    <3>5. QED BY <1>2, <2>4, <3>4 DEF TypeOK, Answer
  <2>5. CASE UNCHANGED vars BY <1>2, <2>5 DEF TypeOK, vars
  <2>6. QED BY <1>2, <2>1, <2>2, <2>3, <2>4, <2>5 DEF Next
<1>3. QED BY <1>1, <1>2, PTL DEF Spec

\* A step only adds evidence.
LEMMA StepAddsEvidence ==
  ASSUME TypeOK, [Next]_vars
  PROVE  failed \in Nat /\ failed' \in Nat /\ failed <= failed' /\ flags \subseteq flags'
BY TriageAssumption DEF TypeOK, Next, Answer, Conclude, MoreFailures, RaiseFlag, vars

\* ... and so never lowers the severity.
LEMMA StepRaisesSeverity ==
  ASSUME TypeOK, [Next]_vars
  PROVE  /\ Severity \in Severities /\ Severity' \in Severities
         /\ SeverityRank[Severity] <= SeverityRank[Severity']
<1>1. /\ Score(failed, flags) \in Nat /\ Score(failed', flags') \in Nat
      /\ Score(failed, flags) <= Score(failed', flags')
  BY StepAddsEvidence, ScoreMonotone
<1>2. QED BY <1>1, BandMonotone DEF Severity, severity_from_signals

-----------------------------------------------------------------------------
\* More evidence never lowers the severity the Orchestrator computes
\* (engine.py:97-139).
THEOREM SeverityNeverDrops == Spec => SeverityMonotone
<1>1. TypeOK /\ [Next]_vars => [SeverityRank[Severity] <= SeverityRank[Severity']]_vars
  BY StepRaisesSeverity
<1>2. QED BY <1>1, TriageTypes, PTL DEF Spec, SeverityMonotone

\* More evidence never loosens the tier of any action, listed in the policy
\* table or not (engine.py:70-94).
THEOREM TierNeverLoosens == Spec => TierMonotone
<1> DEFINE Tightens == \A a \in KnownActions \union {"unlisted"} :
              TierRank[classify_action(a, Severity).tier]
                <= TierRank[classify_action(a, Severity').tier]
<1>1. ASSUME TypeOK, [Next]_vars PROVE Tightens
  <2>1. \A a : TierRank[TierOf(a, Severity)] <= TierRank[TierOf(a, Severity')]
    BY <1>1, StepRaisesSeverity, TierOfMonotone
  <2>2. QED BY <2>1 DEF classify_action
<1>2. TypeOK /\ [Next]_vars => [Tightens]_vars BY <1>1
<1> HIDE DEF Tightens
<1>3. Spec => [][Tightens]_vars BY <1>2, TriageTypes, PTL DEF Spec
<1>4. QED BY <1>3 DEF TierMonotone, Tightens

\* Nothing the Orchestrator recommends is executed without a human except a
\* notification (orchestrator.py:9-31 with engine.py:70-94).
THEOREM OnlyNotifyIsAutomatic == Spec => []OnlyNotifyRunsAlone
<1>1. OnlyNotifyRunsAlone
  BY DEF OnlyNotifyRunsAlone, Decision, Action, recommend_action, BruteForceAction,
         classify_action, TierOf, Escalates, TIER1_ACTIONS, TIER2_ACTIONS, TIER3_ACTIONS
<1>2. QED BY <1>1, PTL

\* No containment of a CRITICAL incident is one tap away (engine.py:79-83).
THEOREM CriticalNeedsMore == Spec => []CriticalIsNeverOneTap
<1>1. CriticalIsNeverOneTap
  BY DEF CriticalIsNeverOneTap, Decision, classify_action, TierOf, Escalates
<1>2. QED BY <1>1, PTL

-----------------------------------------------------------------------------
\* The indicator is what the feeds said once all of them had answered, and it
\* is not Shodan that said it.
VerdictInv ==
  /\ TypeOK
  /\ "shodan" \in DOMAIN answers => answers["shodan"] # "malicious"
  /\ concluded => \A s \in DOMAIN answers : answers[s] # "pending"
  /\ "malicious_indicator" \in flags <=> concluded /\ lookup_ip(kind, answers) = "malicious"

\* The aggregate is malicious exactly when some answer is.
LEMMA AggregateConvicts ==
  ASSUME NEW a
  PROVE  aggregate(a) = "malicious" <=> \E s \in DOMAIN a : a[s] = "malicious"
BY DEF aggregate, Said, NoData

\* VerdictInv is inductive.
LEMMA VerdictInvariant == Spec => []VerdictInv
<1>1. Init => VerdictInv
  <2> SUFFICES ASSUME Init PROVE VerdictInv OBVIOUS
  <2>1. TypeOK BY InitTypes
  <2>2. QED BY <2>1 DEF Init, VerdictInv
<1>2. ASSUME VerdictInv, TypeOK', [Next]_vars PROVE VerdictInv'
  <2>1. CASE Conclude
    <3>1. "malicious_indicator" \notin flags BY <1>2, <2>1 DEF VerdictInv, Conclude
    <3>2. "malicious_indicator" \in flags' <=> lookup_ip(kind, answers) = "malicious"
      BY <2>1, <3>1 DEF Conclude
    <3>3. QED BY <1>2, <2>1, <3>2 DEF VerdictInv, Conclude
  <2>2. CASE MoreFailures BY <1>2, <2>2 DEF VerdictInv, MoreFailures
  <2>3. ASSUME NEW f \in Flags \ {"malicious_indicator"}, RaiseFlag(f) PROVE VerdictInv'
    BY <1>2, <2>3 DEF VerdictInv, RaiseFlag
  <2>4. ASSUME NEW s \in DOMAIN answers, Answer(s) PROVE VerdictInv'
    <3>1. ~concluded BY <1>2, <2>4 DEF VerdictInv, Answer
    <3>2. "shodan" \in DOMAIN answers' => answers'["shodan"] # "malicious"
      BY <1>2, <2>4, ShodanSaysExposure DEF VerdictInv, Answer, NoData
    <3>3. QED BY <1>2, <2>4, <3>1, <3>2 DEF VerdictInv, Answer
  <2>5. CASE UNCHANGED vars BY <1>2, <2>5 DEF VerdictInv, vars
  <2>6. QED BY <1>2, <2>1, <2>2, <2>3, <2>4, <2>5 DEF Next
<1>3. QED BY <1>1, <1>2, TriageTypes, PTL DEF Spec

\* An address is taken for malicious only on the word of a feed that speaks of
\* reputation (threat_feed.py:186-207 with 257-315).
THEOREM OnlyReputationConvicts == Spec => []ShodanNeverConvicts
<1>1. VerdictInv => ShodanNeverConvicts
  <2> SUFFICES ASSUME VerdictInv, "malicious_indicator" \in flags
               PROVE  kind = "public" /\ \E s \in Configured \ {"shodan"} : answers[s] = "malicious"
    BY DEF ShodanNeverConvicts
  <2>1. lookup_ip(kind, answers) = "malicious" BY DEF VerdictInv
  <2>2. PICK s \in DOMAIN answers : answers[s] = "malicious"
    BY <2>1, AggregateConvicts DEF lookup_ip
  <2>3. s # "shodan" BY <2>2 DEF VerdictInv
  <2>4. kind = "public" /\ s \in Configured BY DEF VerdictInv, TypeOK, Asked
  <2>5. QED BY <2>2, <2>3, <2>4
<1>2. QED BY <1>1, VerdictInvariant, PTL

\* A conviction cannot be averaged away: a brute force from the address gets its
\* block proposed (threat_feed.py:262-270 with orchestrator.py:25-28).
THEOREM ConvictionStands == Spec => []NeverAveragedAway
<1>1. VerdictInv => NeverAveragedAway
  <2> SUFFICES ASSUME VerdictInv, concluded, NEW s \in DOMAIN answers, answers[s] = "malicious"
               PROVE  BruteForceAction(flags) = "block_ip"
    BY DEF NeverAveragedAway
  <2>1. kind = "public" BY DEF VerdictInv, TypeOK, Asked
  <2>2. lookup_ip(kind, answers) = "malicious" BY <2>1, AggregateConvicts DEF lookup_ip
  <2>3. "malicious_indicator" \in flags BY <2>2 DEF VerdictInv
  <2>4. QED BY <2>3 DEF BruteForceAction
<1>2. QED BY <1>1, VerdictInvariant, PTL

=============================================================================
