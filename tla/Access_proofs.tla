---------------------------- MODULE Access_proofs ----------------------------
(* What holds of logins, accounts and connector tokens for any number of       *)
(* overlapping requests, accounts, addresses and connectors.                   *)
EXTENDS Access, FiniteSetTheorems, TLAPS

USE DEF windows, tables

-----------------------------------------------------------------------------
\* Type correctness.  A rotation under way is that of a connector that was added.

RotatesAdded == \A r \in Requests : job[r].at = "rotate" => hash[job[r].conn] # 0

TypeInv == TypeOK /\ RotatesAdded

Logins == [at : {"check_ip", "verify", "record_email", "record_ip"}, email : Emails, ip : Ips]

\* What a request at a step has for locals.
LEMMA JobShapes ==
  ASSUME TypeOK, NEW r \in Requests
  PROVE  /\ job[r].at \in {"check_ip", "verify", "record_email", "record_ip"} => job[r] \in Logins
         /\ job[r].at = "insert" => job[r].name \in Names
         /\ job[r].at = "rotate" => job[r].conn \in Connectors
         /\ job[r] \in Jobs
BY DEF TypeOK, Jobs, Logins, Idle

LEMMA JobTypes ==
  /\ Idle \in Jobs
  /\ \A e \in Emails, i \in Ips, s \in {"check_ip", "verify", "record_email", "record_ip"} :
       Attempt(s, e, i) \in Jobs
  /\ \A l \in Logins, s \in {"verify", "record_email", "record_ip"} : [l EXCEPT !.at = s] \in Jobs
  /\ \A n \in Names : [at |-> "insert", name |-> n] \in Jobs
  /\ \A c \in Connectors : [at |-> "rotate", conn |-> c] \in Jobs
  /\ \A c \in Connectors, t \in 1 .. MaxTokens : [at |-> "publish", conn |-> c, token |-> t] \in Jobs
BY DEF Jobs, Logins, Idle, Attempt

\* A login's next step is a step of a login, or its end.
LEMMA LoginGoesOn ==
  ASSUME NEW l \in Logins, NEW s \in {"verify", "record_email", "record_ip"}
  PROVE  [l EXCEPT !.at = s] \in Logins \intersect Jobs /\ [l EXCEPT !.at = s].at = s
BY DEF Logins, Jobs

LEMMA IdleIsNoRotation == Idle \in Jobs /\ Idle.at # "rotate"
BY DEF Idle, Jobs

\* A window that is not full takes one more member.
LEMMA RecordType ==
  ASSUME TypeOK, NEW k \in Keys, Record(k)
  PROVE  failures' \in [Keys -> 0 .. MaxFailures]
<1>1. failures[k] \in 0 .. MaxFailures /\ MaxFailures \in Nat
  BY AccessAssumption DEF TypeOK
<1>2. failures[k] + 1 \in 0 .. MaxFailures BY <1>1 DEF Record
<1>3. QED BY <1>2 DEF Record, TypeOK

\* Every step keeps every variable's type and rotates only what was added.
LEMMA TypeStep == TypeInv /\ [Next]_vars => TypeInv'
<1> SUFFICES ASSUME TypeInv, [Next]_vars PROVE TypeInv'
  OBVIOUS
<1> USE AccessAssumption, JobTypes DEF TypeInv, RotatesAdded
<1> DEFINE Moves(r, j) == Becomes(r, j) /\ j \in Jobs
           RestOfTypeOK == /\ failures' \in [Keys -> 0 .. MaxFailures]
                           /\ rows' \subseteq Names
                           /\ sessions' \subseteq Emails
                           /\ minted' \in 0 .. MaxTokens
                           /\ hash' \in [Connectors -> 0 .. MaxTokens]
                           /\ retired' \subseteq 1 .. MaxTokens
<1>m. ASSUME NEW r \in Requests, NEW j \in Jobs, Becomes(r, j),
             j.at # "rotate", RestOfTypeOK,
             \A c \in Connectors : hash[c] # 0 => hash'[c] # 0
      PROVE  TypeInv'
  <2>1. job' \in [Requests -> Jobs] BY <1>m DEF TypeOK, Becomes
  <2>2. ASSUME NEW s \in Requests, job'[s].at = "rotate" PROVE hash'[job'[s].conn] # 0
    <3>1. s # r /\ job'[s] = job[s] BY <2>2, <1>m DEF TypeOK, Becomes
    <3>2. QED BY <3>1, <2>2, <1>m, JobShapes
  <2>3. QED BY <1>m, <2>1, <2>2 DEF TypeOK
<1>1. ASSUME NEW r \in Requests, NEW e \in Emails, NEW i \in Ips, StartLogin(r, e, i)
      PROVE  TypeInv'
  <2>1. PICK j \in {Idle, Attempt("check_ip", e, i)} : Becomes(r, j)
    BY <1>1 DEF StartLogin, Refuse
  <2>2. QED BY <2>1, <1>1, <1>m DEF StartLogin, TypeOK, Idle, Attempt
<1>2. ASSUME NEW r \in Requests, NEW n \in Names, CheckName(r, n) PROVE TypeInv'
  BY <1>2, <1>m DEF CheckName, TypeOK
<1>3. ASSUME NEW r \in Requests, NEW c \in Connectors, StartRotate(r, c) PROVE TypeInv'
  <2>1. job' \in [Requests -> Jobs] BY <1>3 DEF StartRotate, TypeOK, Becomes
  <2>2. ASSUME NEW s \in Requests, job'[s].at = "rotate" PROVE hash'[job'[s].conn] # 0
    <3>1. CASE s = r BY <3>1, <1>3 DEF StartRotate, TypeOK, Becomes, Found
    <3>2. CASE s # r BY <3>2, <2>2, <1>3 DEF StartRotate, TypeOK, Becomes
    <3>3. QED BY <3>1, <3>2
  <2>3. QED BY <2>1, <2>2, <1>3 DEF StartRotate, TypeOK
<1>4. ASSUME NEW r \in Requests, NEW t \in Tenants, NEW token \in 1 .. minted,
             StartIngest(r, t, token)
      PROVE  TypeInv'
  <2>1. token \in 1 .. MaxTokens BY DEF TypeOK
  <2>2. QED BY <2>1, <1>4, <1>m DEF StartIngest, TypeOK
<1>5. ASSUME NEW r \in Requests, CheckIp(r) PROVE TypeInv'
  <2>1. job[r] \in Logins BY <1>5, JobShapes DEF CheckIp, TypeOK
  <2>2. PICK j \in {Idle, [job[r] EXCEPT !.at = "verify"]} : Becomes(r, j)
    BY <1>5 DEF CheckIp, Refuse
  <2>3. j \in Jobs /\ j.at # "rotate" BY <2>1, <2>2, LoginGoesOn, IdleIsNoRotation
  <2>4. QED BY <2>2, <2>3, <1>5, <1>m DEF CheckIp, TypeOK
<1>6. ASSUME NEW r \in Requests, Verify(r) PROVE TypeInv'
  <2>1. job[r] \in Logins BY <1>6, JobShapes DEF Verify, TypeOK
  <2>2. PICK j \in {Idle, [job[r] EXCEPT !.at = "record_email"]} : Becomes(r, j)
    BY <1>6 DEF Verify
  <2>3. j \in Jobs /\ j.at # "rotate" BY <2>1, <2>2, LoginGoesOn, IdleIsNoRotation
  <2>4. sessions' \subseteq Emails BY <2>1, <1>6 DEF Verify, TypeOK, Logins
  <2>5. QED BY <2>2, <2>3, <2>4, <1>6, <1>m DEF Verify, TypeOK
<1>7. ASSUME NEW r \in Requests, RecordEmail(r) PROVE TypeInv'
  <2>1. job[r] \in Logins BY <1>7, JobShapes DEF RecordEmail, TypeOK
  <2>2. [job[r] EXCEPT !.at = "record_ip"] \in Jobs BY <2>1
  <2>3. [job[r] EXCEPT !.at = "record_ip"].at # "rotate" BY <2>1 DEF Logins
  <2>4. failures' \in [Keys -> 0 .. MaxFailures] 
    BY <2>1, <1>7, RecordType DEF RecordEmail, TypeOK, Logins, Keys
  <2>5. QED BY <2>2, <2>3, <2>4, <1>7, <1>m DEF RecordEmail, TypeOK
<1>8. ASSUME NEW r \in Requests, RecordIp(r) PROVE TypeInv'
  <2>1. job[r] \in Logins BY <1>8, JobShapes DEF RecordIp, TypeOK
  <2>2. failures' \in [Keys -> 0 .. MaxFailures]
    BY <2>1, <1>8, RecordType DEF RecordIp, TypeOK, Logins, Keys
  <2>3. QED BY <2>2, <1>8, <1>m DEF RecordIp, TypeOK, Idle
<1>9. ASSUME NEW r \in Requests, InsertName(r) PROVE TypeInv'
  <2>1. job[r] \in Jobs /\ job[r].at = "insert" BY <1>9 DEF InsertName, TypeOK
  <2>2. job[r].name \in Names BY <2>1, JobShapes
  <2>3. rows' \subseteq Names BY <2>2, <1>9 DEF InsertName, TypeOK
  <2>4. QED BY <2>3, <1>9, <1>m DEF InsertName, TypeOK, Idle
<1>10. ASSUME NEW r \in Requests, CommitRotate(r) PROVE TypeInv'
  <2>1. job[r].conn \in Connectors /\ hash[job[r].conn] # 0
    BY <1>10, JobShapes DEF CommitRotate
  <2>2. minted + 1 \in 1 .. MaxTokens BY <1>10 DEF CommitRotate, Issue, TypeOK
  <2>3. RestOfTypeOK BY <2>1, <2>2, <1>10 DEF CommitRotate, Issue, TypeOK
  <2>4. \A c \in Connectors : hash[c] # 0 => hash'[c] # 0
    BY <2>2, <1>10 DEF CommitRotate, Issue, TypeOK
  <2>5. QED BY <2>3, <2>4, <1>10, <1>m DEF CommitRotate, Idle
<1>11. ASSUME NEW r \in Requests, PublishEvent(r) \/ Raise(r) PROVE TypeInv'
  BY <1>11, <1>m DEF PublishEvent, Raise, TypeOK, Idle
<1>12. ASSUME NEW c \in Connectors, AddConnector(c) PROVE TypeInv'
  <2>1. minted + 1 \in 1 .. MaxTokens BY <1>12 DEF AddConnector, Issue, TypeOK
  <2>2. \A d \in Connectors : hash[d] # 0 => hash'[d] # 0
    BY <2>1, <1>12 DEF AddConnector, Issue, TypeOK
  <2>3. TypeOK' BY <2>1, <1>12 DEF AddConnector, Issue, TypeOK
  <2>4. RotatesAdded' BY <2>2, <1>12, JobShapes DEF AddConnector
  <2>5. QED BY <2>3, <2>4
<1>13. ASSUME NEW k \in Keys, Expire(k) PROVE TypeInv'
  BY <1>13 DEF Expire, TypeOK
<1>14. CASE UNCHANGED vars BY <1>14 DEF vars, TypeOK
<1>15. QED BY <1>1, <1>2, <1>3, <1>4, <1>5, <1>6, <1>7, <1>8, <1>9, <1>10, <1>11, <1>12,
              <1>13, <1>14 DEF Next, Step

LEMMA TypeInit == Init => TypeInv
BY AccessAssumption, JobTypes DEF Init, TypeInv, TypeOK, RotatesAdded, Idle

\* Every variable keeps its type (models.py, ratelimit.py).
THEOREM TypeCorrect == Spec => []TypeOK
<1>1. Spec => []TypeInv BY TypeInit, TypeStep, PTL DEF Spec
<1>2. TypeInv => TypeOK BY DEF TypeInv
<1>3. QED BY <1>1, <1>2, PTL

-----------------------------------------------------------------------------
\* Connector tokens.

\* Tokens in use were generated, are in use by one connector, and are not retired.
TokensInv ==
  /\ \A c \in Connectors : hash[c] <= minted /\ hash[c] \notin retired
  /\ \A t \in retired : t <= minted
  /\ \A c, d \in Connectors : hash[c] = hash[d] /\ hash[c] # 0 => c = d

\* A token just generated differs from every token there was.
LEMMA TokensStep == TypeInv /\ TokensInv /\ [Next]_vars => TokensInv'
<1> SUFFICES ASSUME TypeInv, TokensInv, [Next]_vars PROVE TokensInv'
  OBVIOUS
<1> USE DEF TypeInv
<1>1. ASSUME NEW c \in Connectors, Issue(c), retired' = retired \/ retired' = retired \union {hash[c]},
             hash[c] # 0 \/ retired' = retired
      PROVE  TokensInv'
  <2>1. minted \in Nat /\ minted' = minted + 1 /\ hash \in [Connectors -> Nat]
        /\ retired \subseteq Nat
    BY <1>1, AccessAssumption DEF Issue, TypeOK
  <2>2. hash' = [hash EXCEPT ![c] = minted + 1] BY <1>1 DEF Issue
  <2>3. \A d \in Connectors : hash'[d] = IF d = c THEN minted + 1 ELSE hash[d] BY <2>1, <2>2
  <2>4. \A d \in Connectors : d # c => hash'[d] = hash[d] /\ (hash[c] # 0 => hash[d] # hash[c])
    BY <2>3 DEF TokensInv
  <2>5. \A d \in Connectors : hash[d] <= minted /\ hash[d] \notin retired BY DEF TokensInv
  <2>6. \A t \in retired' : t \in Nat /\ t <= minted
    <3>1. \A t \in retired : t \in Nat /\ t <= minted BY <2>1 DEF TokensInv
    <3>2. hash[c] \in Nat /\ hash[c] <= minted BY <2>1, <2>5
    <3>3. retired' \subseteq retired \union {hash[c]} BY <1>1
    <3>4. QED BY <3>1, <3>2, <3>3
  <2>7. \A d \in Connectors : hash'[d] <= minted' BY <2>1, <2>3, <2>5
  <2>8. ASSUME NEW d \in Connectors PROVE hash'[d] \notin retired'
    <3>1. CASE d = c BY <3>1, <2>1, <2>3, <2>6
    <3>2. CASE d # c BY <3>2, <2>4, <2>5, <1>1
    <3>3. QED BY <3>1, <3>2
  <2>9. \A d, e \in Connectors : hash'[d] = hash'[e] /\ hash'[d] # 0 => d = e
    <3>1. \A d \in Connectors : hash[d] # minted + 1 BY <2>1, <2>5
    <3>2. QED BY <3>1, <2>3 DEF TokensInv
  <2>10. \A t \in retired' : t <= minted' BY <2>1, <2>6
  <2>11. QED BY <2>7, <2>8, <2>9, <2>10 DEF TokensInv
<1>2. ASSUME NEW c \in Connectors, AddConnector(c) PROVE TokensInv'
  BY <1>1, <1>2 DEF AddConnector
<1>3. ASSUME NEW r \in Requests, CommitRotate(r) PROVE TokensInv'
  <2>1. job[r].conn \in Connectors /\ hash[job[r].conn] # 0
    BY <1>3, JobShapes DEF CommitRotate, RotatesAdded
  <2>2. QED BY <2>1, <1>1, <1>3 DEF CommitRotate
<1>4. \/ \E c \in Connectors : AddConnector(c)
      \/ \E r \in Requests : CommitRotate(r)
      \/ UNCHANGED <<minted, hash, retired>>
  BY DEF Next, Step, StartLogin, CheckName, StartRotate, StartIngest, CheckIp, Verify,
         RecordEmail, RecordIp, InsertName, PublishEvent, Raise, Expire, vars
<1>5. QED BY <1>2, <1>3, <1>4 DEF TokensInv

\* A step that begins to publish authenticated a token in use.
LEMMA AdmitsCurrent ==
  ASSUME TypeInv, TokensInv, [Next]_vars, NEW r \in Requests, job[r] = Idle, job'[r].at = "publish"
  PROVE  job'[r].token \notin retired
<1> USE DEF TypeInv
<1>1. ASSUME NEW s \in Requests, NEW j, Becomes(s, j), j.at # "publish" PROVE FALSE
  BY <1>1 DEF Becomes, TypeOK, Idle
<1>2. ASSUME NEW s \in Requests, NEW t \in Tenants, NEW token \in 1 .. minted,
             StartIngest(s, t, token)
      PROVE  job'[r].token \notin retired
  <2>1. PICK c \in Connectors : /\ hash[c] = token
                                /\ Becomes(s, [at |-> "publish", conn |-> c, token |-> token])
    BY <1>2 DEF StartIngest, Authenticates
  <2>2. job'[r].token = hash[c] BY <2>1 DEF Becomes, TypeOK, Idle
  <2>3. QED BY <2>2 DEF TokensInv
<1>3. ASSUME NEW s \in Requests, NEW e \in Emails, NEW i \in Ips, StartLogin(s, e, i)
      PROVE  FALSE
  <2>1. PICK j \in {Idle, Attempt("check_ip", e, i)} : Becomes(s, j)
    BY <1>3 DEF StartLogin, Refuse
  <2>2. QED BY <2>1, <1>1 DEF Idle, Attempt
<1>4. ASSUME NEW s \in Requests, NEW n \in Names, CheckName(s, n) PROVE FALSE
  BY <1>4, <1>1 DEF CheckName
<1>5. ASSUME NEW s \in Requests, NEW c \in Connectors, StartRotate(s, c) PROVE FALSE
  BY <1>5, <1>1 DEF StartRotate
<1>6. ASSUME NEW s \in Requests, Step(s) \/ Raise(s) PROVE FALSE
  <2>1. job[s] # Idle
    BY <1>6 DEF Step, Raise, CheckIp, Verify, RecordEmail, RecordIp, InsertName, CommitRotate,
                PublishEvent, Idle
  <2>2. PICK j : Becomes(s, j)
    BY <1>6 DEF Step, Raise, CheckIp, Verify, RecordEmail, RecordIp, InsertName, CommitRotate,
                PublishEvent
  <2>3. QED BY <2>1, <2>2 DEF Becomes, TypeOK, Idle
<1>7. job' # job BY DEF Idle
<1>8. QED BY <1>2, <1>3, <1>4, <1>5, <1>6, <1>7 DEF Next, AddConnector, Expire, vars

\* A replaced token admits no request, whatever rotations and pushes overlap
\* (routers/connectors.py:93-107, connector_auth.py:36-44).
THEOREM RetiredTokensAreDead == Spec => RetiredAdmitsNone
<1>1. Init => TypeInv /\ TokensInv
  BY TypeInit, AccessAssumption DEF Init, TokensInv
<1>2. TypeInv /\ TokensInv /\ [Next]_vars => (TypeInv /\ TokensInv)'
  BY TypeStep, TokensStep
<1>3. TypeInv /\ TokensInv /\ [Next]_vars =>
        [\A r \in Requests :
           job[r] = Idle /\ job'[r].at = "publish" => job'[r].token \notin retired]_vars
  BY AdmitsCurrent
<1>4. QED BY <1>1, <1>2, <1>3, PTL DEF Spec, RetiredAdmitsNone

-----------------------------------------------------------------------------
\* The lockout.

Headroom(k) == failures[k] + Cardinality(Underway(k)) <= Limit(k) - 1 + Cardinality(Requests)

\* The attempts under way are among the requests, so there are finitely many.
LEMMA UnderwaySize ==
  ASSUME NEW k \in Keys
  PROVE  /\ IsFiniteSet(Underway(k)) /\ Cardinality(Underway(k)) \in Nat
         /\ Cardinality(Requests) \in Nat
         /\ Cardinality(Underway(k)) <= Cardinality(Requests)
<1>1. Underway(k) \subseteq Requests BY DEF Underway
<1>2. QED BY <1>1, AccessAssumption, FS_Subset, FS_CardinalityType

LEMMA UnderwaySizeNext ==
  ASSUME NEW k \in Keys
  PROVE  /\ IsFiniteSet(Underway(k)') /\ Cardinality(Underway(k)') \in Nat
         /\ Cardinality(Underway(k)') <= Cardinality(Requests)
<1>1. Underway(k)' \subseteq Requests BY DEF Underway
<1>2. QED BY <1>1, AccessAssumption, FS_Subset, FS_CardinalityType

LEMMA LimitType == ASSUME NEW k \in Keys PROVE Limit(k) \in Nat \ {0}
BY AccessAssumption DEF Limit

\* With no more failures and no more attempts under way there is no less headroom.
LEMMA HeadroomKept ==
  ASSUME TypeOK, TypeOK', NEW k \in Keys, Headroom(k),
         failures'[k] <= failures[k], Underway(k)' \subseteq Underway(k)
  PROVE  Headroom(k)'
<1>1. Cardinality(Underway(k)') <= Cardinality(Underway(k)) BY UnderwaySize, FS_Subset
<1>2. failures[k] \in Nat /\ failures'[k] \in Nat BY AccessAssumption DEF TypeOK
<1>3. QED BY <1>1, <1>2, UnderwaySize, UnderwaySizeNext, LimitType DEF Headroom, Limit

\* Below the limit there is headroom, even with every request under way.
LEMMA HeadroomBelowLimit ==
  ASSUME TypeOK, NEW k \in Keys, ~Locked(k), failures' = failures
  PROVE  Headroom(k)'
<1>1. failures[k] \in Nat /\ failures[k] < Limit(k)
  BY AccessAssumption, LimitType DEF TypeOK, Locked
<1>2. QED BY <1>1, UnderwaySize, UnderwaySizeNext, LimitType DEF Headroom, Limit

\* An attempt that is counted is no longer under way.
LEMMA HeadroomOnRecord ==
  ASSUME TypeOK, NEW k \in Keys, Headroom(k), Record(k),
         NEW r \in Underway(k), Underway(k)' \subseteq Underway(k) \ {r}
  PROVE  Headroom(k)'
<1>1. Cardinality(Underway(k) \ {r}) = Cardinality(Underway(k)) - 1
      /\ IsFiniteSet(Underway(k) \ {r})
  BY UnderwaySize, FS_RemoveElement
<1>2. Cardinality(Underway(k)') <= Cardinality(Underway(k)) - 1 BY <1>1, FS_Subset
<1>3. failures[k] \in Nat /\ failures'[k] = failures[k] + 1
  BY AccessAssumption DEF TypeOK, Record
<1>4. QED BY <1>2, <1>3, UnderwaySize, UnderwaySizeNext, LimitType DEF Headroom, Limit

\* Every step leaves every key its headroom.
LEMMA HeadroomStep ==
  ASSUME TypeInv, TypeOK', [Next]_vars, NEW k \in Keys, Headroom(k)
  PROVE  Headroom(k)'
<1> USE DEF TypeInv
<1>e. \A e \in Emails : e \in Keys /\ e \notin Ips BY AccessAssumption DEF Keys
<1>i. \A i \in Ips : i \in Keys /\ i \notin Emails BY AccessAssumption DEF Keys
<1>f. ASSUME failures' = failures, Underway(k)' \subseteq Underway(k) PROVE Headroom(k)'
  <2>1. failures'[k] <= failures[k] BY <1>f, AccessAssumption DEF TypeOK
  <2>2. QED BY <1>f, <2>1, HeadroomKept
<1>o. ASSUME NEW r \in Requests, NEW j, Becomes(r, j), failures' = failures,
             j.at \in {"idle", "insert", "rotate", "publish"}
      PROVE  Headroom(k)'
  <2>1. Underway(k)' \subseteq Underway(k) BY <1>o DEF Underway, Becomes, TypeOK
  <2>2. QED BY <2>1, <1>o, <1>f
<1>1. ASSUME NEW r \in Requests, NEW e \in Emails, NEW i \in Ips, StartLogin(r, e, i)
      PROVE  Headroom(k)'
  <2>1. CASE Locked(e)
    BY <2>1, <1>1, <1>o DEF StartLogin, Refuse, Idle
  <2>2. CASE ~Locked(e) /\ k = e BY <2>2, <1>1, HeadroomBelowLimit DEF StartLogin
  <2>3. CASE ~Locked(e) /\ k # e
    <3>1. Becomes(r, Attempt("check_ip", e, i)) /\ failures' = failures
      BY <2>3, <1>1 DEF StartLogin
    <3>2. Underway(k)' \subseteq Underway(k)
      BY <3>1, <2>3 DEF Underway, Becomes, TypeOK, Attempt
    <3>3. QED BY <3>1, <3>2, <1>f
  <2>4. QED BY <2>1, <2>2, <2>3
<1>2. ASSUME NEW r \in Requests, CheckIp(r) PROVE Headroom(k)'
  <2>0. job[r] \in Logins /\ job[r].ip \in Ips /\ job[r].email \in Emails
    BY <1>2, JobShapes DEF CheckIp, Logins
  <2>1. CASE Locked(job[r].ip) BY <2>1, <1>2, <1>o DEF CheckIp, Refuse, Idle
  <2>2. CASE ~Locked(job[r].ip) /\ k = job[r].ip BY <2>2, <1>2, HeadroomBelowLimit DEF CheckIp
  <2>3. CASE ~Locked(job[r].ip) /\ k # job[r].ip
    <3>1. job' = [job EXCEPT ![r] = [job[r] EXCEPT !.at = "verify"]] /\ failures' = failures
      BY <2>3, <1>2 DEF CheckIp, Becomes
    <3>2. /\ job'[r].at = "verify" /\ job'[r].ip = job[r].ip /\ job'[r].email = job[r].email
          /\ \A s \in Requests \ {r} : job'[s] = job[s]
      BY <3>1, <2>0 DEF TypeOK, Logins
    <3>3. Underway(k)' \subseteq Underway(k) BY <3>2, <2>3, <1>2 DEF Underway, CheckIp
    <3>4. QED BY <3>1, <3>3, <1>f
  <2>4. QED BY <2>1, <2>2, <2>3
<1>3. ASSUME NEW r \in Requests, Verify(r) PROVE Headroom(k)'
  <2>0. job[r] \in Logins BY <1>3, JobShapes DEF Verify
  <2>1. CASE Becomes(r, Idle) BY <2>1, <1>3, <1>o DEF Verify, Idle
  <2>2. CASE Becomes(r, [job[r] EXCEPT !.at = "record_email"])
    <3>1. /\ job'[r].at = "record_email" /\ job'[r].ip = job[r].ip /\ job'[r].email = job[r].email
          /\ \A s \in Requests \ {r} : job'[s] = job[s]
      BY <2>2, <2>0 DEF TypeOK, Logins, Becomes
    <3>2. Underway(k)' \subseteq Underway(k) BY <3>1, <1>3 DEF Underway, Verify
    <3>3. QED BY <3>2, <1>3, <1>f DEF Verify
  <2>3. QED BY <2>1, <2>2, <1>3 DEF Verify
<1>4. ASSUME NEW r \in Requests, RecordEmail(r) PROVE Headroom(k)'
  <2>0. job[r] \in Logins /\ job[r].ip \in Ips /\ job[r].email \in Emails
    BY <1>4, JobShapes DEF RecordEmail, Logins
  <2>1. /\ job'[r].at = "record_ip" /\ job'[r].ip = job[r].ip
        /\ \A s \in Requests \ {r} : job'[s] = job[s]
    BY <1>4, <2>0 DEF RecordEmail, TypeOK, Logins, Becomes
  <2>2. Underway(k)' \subseteq Underway(k) BY <2>1, <1>4 DEF Underway, RecordEmail
  <2>3. CASE k = job[r].email
    <3>1. r \in Underway(k) BY <2>3, <1>4 DEF Underway, RecordEmail
    <3>2. job[r].ip # k BY <2>0, <2>3, <1>e
    <3>3. r \notin Underway(k)' BY <3>2, <2>1 DEF Underway
    <3>4. QED BY <3>1, <3>3, <2>2, <2>3, <1>4, HeadroomOnRecord DEF RecordEmail
  <2>4. CASE k # job[r].email
    <3>1. failures'[k] = failures[k] BY <2>4, <1>4 DEF RecordEmail, Record, TypeOK
    <3>2. failures'[k] <= failures[k] BY <3>1, AccessAssumption DEF TypeOK
    <3>3. QED BY <3>2, <2>2, HeadroomKept
  <2>5. QED BY <2>3, <2>4
<1>5. ASSUME NEW r \in Requests, RecordIp(r) PROVE Headroom(k)'
  <2>1. job'[r] = Idle /\ \A s \in Requests \ {r} : job'[s] = job[s]
    BY <1>5 DEF RecordIp, TypeOK, Becomes
  <2>2. Underway(k)' \subseteq Underway(k) /\ r \notin Underway(k)'
    BY <2>1 DEF Underway, Idle
  <2>3. CASE k = job[r].ip
    <3>1. r \in Underway(k) BY <2>3, <1>5 DEF Underway, RecordIp
    <3>2. QED BY <3>1, <2>2, <2>3, <1>5, HeadroomOnRecord DEF RecordIp
  <2>4. CASE k # job[r].ip
    <3>1. failures'[k] = failures[k] BY <2>4, <1>5 DEF RecordIp, Record, TypeOK
    <3>2. failures'[k] <= failures[k] BY <3>1, AccessAssumption DEF TypeOK
    <3>3. QED BY <3>2, <2>2, HeadroomKept
  <2>5. QED BY <2>3, <2>4
<1>6. ASSUME NEW r \in Requests, NEW n \in Names, CheckName(r, n) PROVE Headroom(k)'
  BY <1>6, <1>o DEF CheckName
<1>7. ASSUME NEW r \in Requests, NEW c \in Connectors, StartRotate(r, c) PROVE Headroom(k)'
  BY <1>7, <1>o DEF StartRotate
<1>8. ASSUME NEW r \in Requests, NEW t \in Tenants, NEW token \in 1 .. minted,
             StartIngest(r, t, token)
      PROVE  Headroom(k)'
  BY <1>8, <1>o DEF StartIngest
<1>9. ASSUME NEW r \in Requests,
             InsertName(r) \/ CommitRotate(r) \/ PublishEvent(r) \/ Raise(r)
      PROVE  Headroom(k)'
  <2>1. Becomes(r, Idle) /\ failures' = failures
    BY <1>9 DEF InsertName, CommitRotate, PublishEvent, Raise
  <2>2. QED BY <2>1, <1>o DEF Idle
<1>10. ASSUME UNCHANGED <<failures, job>> PROVE Headroom(k)'
  BY <1>10, <1>f DEF Underway
<1>11. ASSUME NEW l \in Keys, Expire(l) PROVE Headroom(k)'
  <2>1. Underway(k)' \subseteq Underway(k) BY <1>11 DEF Expire, Underway
  <2>2. failures[l] \in Nat /\ failures[k] \in Nat BY AccessAssumption DEF TypeOK
  <2>3. failures'[k] <= failures[k] BY <1>11, <2>2 DEF Expire, TypeOK
  <2>4. QED BY <2>1, <2>3, HeadroomKept
<1>12. QED BY <1>1, <1>2, <1>3, <1>4, <1>5, <1>6, <1>7, <1>8, <1>9, <1>10, <1>11
          DEF Next, Step, AddConnector, vars

\* However many attempts overlap, those counted past the limit are at most the
\* ones that were under way (routers/auth.py:20-34, ratelimit.py:47-66).
THEOREM OvershootIsBounded == Spec => []OvershootBounded
<1>1. Init => TypeInv /\ OvershootBounded
  <2>1. ASSUME Init, NEW k \in Keys PROVE Headroom(k)
    <3>1. failures[k] = 0 BY <2>1 DEF Init
    <3>2. QED BY <3>1, UnderwaySize, LimitType DEF Headroom
  <2>2. QED BY <2>1, TypeInit DEF OvershootBounded, Headroom
<1>2. TypeInv /\ OvershootBounded /\ [Next]_vars => (TypeInv /\ OvershootBounded)'
  <2> SUFFICES ASSUME TypeInv, OvershootBounded, [Next]_vars
               PROVE  (TypeInv /\ OvershootBounded)'
    OBVIOUS
  <2>1. TypeInv' BY TypeStep
  <2>2. ASSUME NEW k \in Keys PROVE Headroom(k)'
    <3>1. Headroom(k) BY DEF OvershootBounded, Headroom
    <3>2. QED BY <2>1, <3>1, HeadroomStep DEF TypeInv
  <2>3. QED BY <2>1, <2>2 DEF OvershootBounded, Headroom
<1>3. QED BY <1>1, <1>2, PTL DEF Spec

=============================================================================
