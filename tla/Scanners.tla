------------------------------ MODULE Scanners -------------------------------
(* What the scanners conclude from what the network told them: backend/app/     *)
(* connectors/vuln_scanner.py and exposure_scanner.py, with _worst_severity of  *)
(* agents/exposure.py.  A source that fails or refuses has given NoAnswer.      *)
(* Pure operators; Correlation's Exposure agent reports with them.              *)
EXTENDS Naturals, Sequences

CONSTANTS NoAnswer,   \* None: an HTTP error, a timeout or an unreadable response
          NoId        \* None: an advisory without that identifier

-----------------------------------------------------------------------------
\* Dependencies.  OSV answers with a sequence of [id, cvss, word]: the CVSS_V3
\* scores in tenths (a vector string is Unreadable, float() refuses it) and the
\* database's own severity word; GitHub with a sequence of [id, cve, word].
\* "unknown" is no word; any word the agents do not rank is as good as "moderate".
Words == {"critical", "high", "medium", "low", "moderate", "unknown"}

Unreadable == 999

_osv_severity(vuln) ==
  LET readable == {i \in DOMAIN vuln.cvss : vuln.cvss[i] # Unreadable}
      score == vuln.cvss[CHOOSE i \in readable : \A j \in readable : i <= j]
  IN  IF readable = {} THEN vuln.word
      ELSE IF score >= 90 THEN "critical" ELSE IF score >= 70 THEN "high"
      ELSE IF score >= 40 THEN "medium" ELSE "low"

Finding(id, cve, severity) == [id |-> id, cve |-> cve, severity |-> severity]

_query_osv(answer) ==
  IF answer = NoAnswer THEN <<>>
  ELSE [i \in DOMAIN answer |-> Finding(answer[i].id, NoId, _osv_severity(answer[i]))]

_query_github_advisories(answer) ==
  IF answer = NoAnswer THEN <<>>
  ELSE [i \in DOMAIN answer |-> Finding(answer[i].id, answer[i].cve, answer[i].word)]

\* Mutant: findings without a CVE have no key.
KeyIsCve(finding) == finding.cve

KeyOf(finding) == IF finding.cve # NoId THEN finding.cve ELSE finding.id

\* The first finding with a key is kept, one with none is dropped.
Deduped(findings) ==
  {findings[i] : i \in {k \in DOMAIN findings :
     /\ KeyOf(findings[k]) # NoId
     /\ \A j \in 1 .. k - 1 : KeyOf(findings[j]) # KeyOf(findings[k])}}

Databases == {"osv.dev", "github-advisory-database"}

Unreachable(osv, github) ==
  (IF osv = NoAnswer THEN {"osv.dev"} ELSE {})
    \union (IF github = NoAnswer THEN {"github-advisory-database"} ELSE {})

check_package(osv, github) ==
  [vulnerabilities |-> Deduped(_query_osv(osv) \o _query_github_advisories(github)),
   sources_unreachable |-> Unreachable(osv, github)]

\* Any other word ("moderate", "unknown") counts as low.
Rank(severity) ==
  CASE severity = "critical" -> 4 [] severity = "high" -> 3 [] severity = "medium" -> 2 [] OTHER -> 1

_worst_severity(findings) ==
  LET worse(n) == \E f \in findings : Rank(f.severity) >= n
  IN  IF worse(4) THEN "critical" ELSE IF worse(3) THEN "high"
      ELSE IF worse(2) THEN "medium" ELSE "low"

-----------------------------------------------------------------------------
\* Domains.  A site answers with the set of headers it sent, the search with
\* whether there were hits.  A check is [check, status].
SECURITY_HEADERS == {"strict-transport-security", "content-security-policy",
                     "x-frame-options", "x-content-type-options"}

Checks == [check : SECURITY_HEADERS \union {"connectivity", "tls", "info-disclosure",
                                            "public-search-exposure"},
           status : {"ok", "info", "warning"}]

Check(check, status) == [check |-> check, status |-> status]

scan_domain(headers) ==
  IF headers = NoAnswer THEN {Check("connectivity", "warning")}
  ELSE {Check("tls", "ok")}
         \union {Check(h, IF h \in headers THEN "ok" ELSE "warning") : h \in SECURITY_HEADERS}
         \union (IF "server" \in headers THEN {Check("info-disclosure", "info")} ELSE {})

search_public_exposure(hits) ==
  IF hits = NoAnswer THEN {} ELSE {Check("public-search-exposure", IF hits THEN "warning" ELSE "ok")}

Warnings(checks) == {c \in checks : c.status = "warning"}

=============================================================================
