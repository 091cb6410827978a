--------------------------- MODULE MCCorrelation ----------------------------
(* Instances of Correlation for TLC: the events of each run, as the vendors      *)
(* send them, and what the sources of a scan may answer.                         *)
EXTENDS Correlation, TLC

CONSTANTS t1,                         \* tenant
          a1, a2, u1, c1, c2,         \* addresses, user, countries
          f1, f2, f3, f4, f5, f6,     \* failed logins from a1
          s1, s2, p1, p2, p3, o1,     \* successes, alarms, one event of no interest
          x1, k1                      \* a scan, a package

Raw(connector_type, claimed, data) ==
  [tenant |-> t1, connector_type |-> connector_type, event_type |-> claimed, data |-> data]

\* Three vendors report the same brute force from a1; it succeeds, and the same
\* user signs in from a2, at the other end of the world.  Alarms the vendor calls
\* a brute force come twice from the malicious a1 and once from a2.  The claimed
\* types are wrong or absent: no known vendor's parser reads them.
Sudo(ip) == Raw("wazuh", "other", [groups |-> {"sudo"}, srcip |-> ip, mitre |-> {"T1110"}])

Story == [e \in RawEvents |->
  CASE e \in {f1, f2} -> Raw("wazuh", "login_success", [description |-> {"logon", "failed"}, srcip |-> a1])
    [] e = f3 -> Raw("cloudtrail", "other", [eventName |-> "ConsoleLogin", ConsoleLogin |-> "Failure",
                                             sourceIPAddress |-> a1])
    [] e \in {f4, f5, f6} -> Raw("azure_ad", "other", [errorCode |-> "50126", ipAddress |-> a1])
    [] e = s1 -> Raw("azure_ad", "login_failed", [errorCode |-> "0", ipAddress |-> a1,
                                                  userPrincipalName |-> u1, countryOrRegion |-> c1])
    [] e = s2 -> Raw("aws_cloudtrail", "other", [eventName |-> "ConsoleLogin", userName |-> u1,
                                                 sourceIPAddress |-> a2])
    [] e \in {p1, p3} -> Sudo(a1)
    [] e = p2 -> Sudo(a2)
    [] e = o1 -> Raw("firewall", "dns_query", [source_ip |-> a1])]

Located1 == [a \in Addresses |-> IF a = a2 THEN c2 ELSE NoCountry]

Far == {<<c1, c2>>, <<c2, c1>>}

\* Answers: none, nothing known, an advisory both sources know, with a severity
\* OSV gives as a vector and a word GitHub does not use, one GitHub alone files
\* under a CVE, and one without a name.
Osv == {NoAnswer, <<>>, <<[id |-> "GHSA-1", cvss |-> <<Unreadable>>, word |-> "moderate"]>>}

Github == {NoAnswer, <<[id |-> "GHSA-1", cve |-> NoId, word |-> "high"],
                       [id |-> "GHSA-2", cve |-> "CVE-2", word |-> "critical"],
                       [id |-> NoId, cve |-> NoId, word |-> "high"]>>}

Sites == {NoAnswer, SECURITY_HEADERS, {"x-frame-options", "server"}}

Searches == {NoAnswer, TRUE}

\* The failed logins are interchangeable: the parsers make the same of them.
FailureSymmetry == Permutations(RawEvents \intersect {f1, f2, f3, f4, f5, f6})

\* The alarms from one address are interchangeable.
AlarmSymmetry == Permutations(RawEvents \intersect {p1, p3})

=============================================================================
