----------------------------- MODULE ThreatFeed -----------------------------
(* What the threat feeds say of an address: backend/app/connectors/           *)
(* threat_feed.py.  Every *_lookup turns one service's response into a         *)
(* verdict, or into no data if the call fails; _aggregate merges the verdicts.  *)
(* Pure operators; Triage asks the feeds with them.                            *)
EXTENDS Naturals

Sources == {"abuseipdb", "virustotal", "otx", "greynoise", "shodan", "threatfox"}

Verdicts == {"unknown", "clean", "suspicious", "malicious"}

\* How much a verdict says against the address.
VerdictRank == [unknown |-> 0, clean |-> 1, suspicious |-> 2, malicious |-> 3]

\* None: the call timed out, was refused or could not be read.
NoData == "no_data"

-----------------------------------------------------------------------------
\* The verdicts of the services, as functions of the figures they report.

abuseipdb_lookup(score, reports) ==
  IF score >= 50 THEN "malicious"
  ELSE IF score > 0 \/ reports > 0 THEN "suspicious" ELSE "clean"

virustotal_lookup(malicious, suspicious) ==
  IF malicious >= 2 THEN "malicious"
  ELSE IF malicious = 1 \/ suspicious >= 1 THEN "suspicious" ELSE "clean"

otx_lookup(pulses) ==
  IF pulses >= 3 THEN "malicious" ELSE IF pulses >= 1 THEN "suspicious" ELSE "clean"

\* A known business service (riot) is clean whatever its classification; 404
\* reads as the classification "unknown".
greynoise_lookup(riot, classification) ==
  IF riot \/ classification = "benign" THEN "clean"
  ELSE IF classification = "malicious" THEN "malicious" ELSE "unknown"

\* Mutant: known vulnerabilities on the host count as malice.
ShodanConvicts(vulns) == IF vulns > 0 THEN "malicious" ELSE "unknown"

\* Exposure, not reputation.
shodan_lookup(vulns) == IF vulns > 0 THEN "suspicious" ELSE "unknown"

threatfox_lookup(matched) == IF matched THEN "malicious" ELSE "clean"

\* The verdicts a service can give, its figures taken at and beside each bound.
Answers(source) ==
  CASE source = "abuseipdb"  -> {abuseipdb_lookup(s, n) : s \in {0, 1, 49, 50, 100}, n \in {0, 1}}
    [] source = "virustotal" -> {virustotal_lookup(m, n) : m \in 0 .. 3, n \in 0 .. 1}
    [] source = "otx"        -> {otx_lookup(n) : n \in 0 .. 4}
    [] source = "greynoise"  -> {greynoise_lookup(riot, c) :
                                   riot \in BOOLEAN, c \in {"malicious", "benign", "unknown"}}
    [] source = "shodan"     -> {shodan_lookup(n) : n \in 0 .. 2}
    [] source = "threatfox"  -> {threatfox_lookup(b) : b \in BOOLEAN}

-----------------------------------------------------------------------------
\* _aggregate, of a function from the sources asked to verdicts or NoData.
Said(answers) == {answers[s] : s \in DOMAIN answers} \ {NoData}

\* Mutant: one clean bill clears the address.
CleanWins(answers) ==
  IF "clean" \in Said(answers) THEN "clean"
  ELSE IF "malicious" \in Said(answers) THEN "malicious"
  ELSE IF "suspicious" \in Said(answers) THEN "suspicious" ELSE "unknown"

aggregate(answers) ==
  IF "malicious" \in Said(answers) THEN "malicious"
  ELSE IF "suspicious" \in Said(answers) THEN "suspicious"
  ELSE IF "clean" \in Said(answers) THEN "clean" ELSE "unknown"

\* lookup_ip asks the configured sources about a public address only.
AddressKinds == {"public", "internal", "invalid"}

Asked(kind, configured) == IF kind = "public" THEN configured ELSE {}

lookup_ip(kind, answers) == IF kind = "internal" THEN "clean" ELSE aggregate(answers)

=============================================================================
