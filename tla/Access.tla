------------------------------- MODULE Access --------------------------------
(* The doors of the API, and what overlapping requests do at them:            *)
(*   - login with its lockout (routers/auth.py, ratelimit.py on the sliding    *)
(*     windows of state_store.py);                                             *)
(*   - the accounts behind it: the bootstrap administrator every replica makes *)
(*     sure of when it starts (auth.py, main.py), and the companies and        *)
(*     security holders the administrator creates (routers/tenants.py, auth.py);*)
(*   - the connectors' tokens and the ingest route they open                   *)
(*     (routers/connectors.py, connector_auth.py, routers/ingest.py).          *)
(* All under backend/app.  A request slot is one coroutine on some replica,    *)
(* cut at the awaits at which other requests can act: Redis for the windows,   *)
(* the database for the rest, which the replicas share.                        *)
EXTENDS Naturals, FiniteSets

CONSTANTS
  Requests,         \* request slots: how many requests may overlap
  Admin,            \* settings.bootstrap_admin_email
  Holders,          \* e-mails of the security holders there may be
  Tenants,          \* the companies, by their domains
  HolderOf,         \* HolderOf[e]: the company e is created for
  Ips,              \* source addresses of login attempts
  MaxPerEmail,      \* settings.login_max_attempts_per_email
  MaxPerIp,         \* settings.login_max_attempts_per_ip
  MaxFailures,      \* bound: members of one window
  Connectors,
  OwnerOf,          \* OwnerOf[c]: the company that adds connector c
  MaxTokens,        \* bound: tokens generated
  Faults            \* may an await raise, or a replica die?

Emails == {Admin} \union Holders
Names == Emails \union Tenants
Keys == Emails \union Ips

ASSUME AccessAssumption ==
  /\ IsFiniteSet(Requests)
  /\ Admin \notin Holders /\ Emails \intersect Tenants = {} /\ Emails \intersect Ips = {}
  /\ HolderOf \in [Holders -> Tenants] /\ OwnerOf \in [Connectors -> Tenants]
  /\ MaxPerEmail \in Nat \ {0} /\ MaxPerIp \in Nat \ {0}
  /\ MaxFailures \in Nat /\ MaxTokens \in Nat /\ Faults \in BOOLEAN

VARIABLES
  failures,   \* Redis login_fail:*: members of the window of each e-mail and address
  rows,       \* the rows there are of users (by e-mail) and tenants (by domain)
  sessions,   \* users that hold a JWT
  minted,     \* tokens generated so far: 1 .. minted
  hash,       \* hash[c]: the token connector c is known by, 0 before it is added
  retired,    \* tokens a rotation has replaced
  job         \* job[r]: the step request r is before, and its locals

windows == failures
tables == <<rows, minted, hash, retired>>
vars == <<failures, rows, sessions, minted, hash, retired, job>>

Idle == [at |-> "idle"]

Jobs == {Idle}
          \union [at : {"check_ip", "verify", "record_email", "record_ip"}, email : Emails, ip : Ips]
          \union [at : {"insert"}, name : Names]
          \union [at : {"rotate"}, conn : Connectors]
          \union [at : {"publish"}, conn : Connectors, token : 1 .. MaxTokens]

TypeOK ==
  /\ failures \in [Keys -> 0 .. MaxFailures]
  /\ rows \subseteq Names
  /\ sessions \subseteq Emails
  /\ minted \in 0 .. MaxTokens
  /\ hash \in [Connectors -> 0 .. MaxTokens]
  /\ retired \subseteq 1 .. MaxTokens
  /\ job \in [Requests -> Jobs]

Init ==
  /\ failures = [k \in Keys |-> 0]
  /\ rows = {}
  /\ sessions = {}
  /\ minted = 0
  /\ hash = [c \in Connectors |-> 0]
  /\ retired = {}
  /\ job = [r \in Requests |-> Idle]

Becomes(r, j) == job' = [job EXCEPT ![r] = j]

-----------------------------------------------------------------------------
\* Login.

Limit(k) == IF k \in Ips THEN MaxPerIp ELSE MaxPerEmail

\* Mutant: the attempt after the last one allowed is let through.
LockedLate(k) == failures[k] > Limit(k)

Locked(k) == failures[k] >= Limit(k)

Attempt(step, e, i) == [at |-> step, email |-> e, ip |-> i]

\* Mutant: an attempt made during the lockout counts as a failure.
RefuseAndCount(e, i) == Attempt("record_email", e, i)

\* 429: the attempt is audited and leaves the windows alone.
Refuse(e, i) == Idle

\* A login arrives; check_lockout counts the e-mail's window first.
StartLogin(r, e, i) ==
  /\ job[r] = Idle
  /\ Becomes(r, IF Locked(e) THEN Refuse(e, i) ELSE Attempt("check_ip", e, i))
  /\ UNCHANGED <<windows, sessions, tables>>

CheckIp(r) ==
  /\ job[r].at = "check_ip"
  /\ Becomes(r, IF Locked(job[r].ip) THEN Refuse(job[r].email, job[r].ip)
                ELSE [job[r] EXCEPT !.at = "verify"])
  /\ UNCHANGED <<windows, sessions, tables>>

\* The user is loaded and the password compared; a JWT for a right one.
Verify(r) ==
  /\ job[r].at = "verify"
  /\ \/ /\ job[r].email \in rows
        /\ sessions' = sessions \union {job[r].email}
        /\ Becomes(r, Idle)
     \/ /\ Becomes(r, [job[r] EXCEPT !.at = "record_email"])
        /\ UNCHANGED sessions
  /\ UNCHANGED <<windows, tables>>

Record(k) == /\ failures[k] < MaxFailures
             /\ failures' = [failures EXCEPT ![k] = @ + 1]

\* record_failed_attempt: one window, then the other; then 401.
RecordEmail(r) ==
  /\ job[r].at = "record_email"
  /\ Record(job[r].email)
  /\ Becomes(r, [job[r] EXCEPT !.at = "record_ip"])
  /\ UNCHANGED <<sessions, tables>>

RecordIp(r) ==
  /\ job[r].at = "record_ip"
  /\ Record(job[r].ip)
  /\ Becomes(r, Idle)
  /\ UNCHANGED <<sessions, tables>>

\* The oldest member of a window gets older than login_lockout_window_seconds.
Expire(k) ==
  /\ failures[k] > 0
  /\ failures' = [failures EXCEPT ![k] = @ - 1]
  /\ UNCHANGED <<sessions, tables, job>>

-----------------------------------------------------------------------------
\* Accounts.  A JWT outlives the horizon of the model; one that expires takes
\* away requests, which need not be made anyway.

\* _check_tenant_access for a signed-in user of some company.
MayAccess(t) == Admin \in sessions \/ \E e \in sessions \ {Admin} : HolderOf[e] = t

\* The select that finds no row of that name: bootstrap_admin on a starting
\* replica, create_tenant and create_security_holder for the administrator.
CheckName(r, n) ==
  /\ job[r] = Idle
  /\ n = Admin \/ Admin \in sessions
  /\ n \notin rows
  /\ Becomes(r, [at |-> "insert", name |-> n])
  /\ UNCHANGED <<windows, sessions, tables>>

\* The insert commits; or it fails, for the unique constraints on users.email
\* and tenants.domain or for the company a holder refers to: a 500, or a replica
\* that does not come up.
InsertName(r) ==
  /\ job[r].at = "insert"
  /\ LET n == job[r].name
         accepted == n \notin rows /\ (n \in Holders => HolderOf[n] \in rows)
     IN rows' = IF accepted THEN rows \union {n} ELSE rows
  /\ Becomes(r, Idle)
  /\ UNCHANGED <<windows, sessions, minted, hash, retired>>

-----------------------------------------------------------------------------
\* Connectors.

\* generate_token for connector c: a token never seen before.
Issue(c) == /\ minted < MaxTokens
            /\ minted' = minted + 1
            /\ hash' = [hash EXCEPT ![c] = minted + 1]

AddConnector(c) ==
  /\ hash[c] = 0
  /\ OwnerOf[c] \in rows /\ MayAccess(OwnerOf[c])
  /\ Issue(c)
  /\ UNCHANGED <<windows, rows, sessions, retired, job>>

\* Mutant: a connector nobody added is rotated into being.
AnyConnector(c) == TRUE

Found(c) == hash[c] # 0

StartRotate(r, c) ==
  /\ job[r] = Idle
  /\ Found(c) /\ MayAccess(OwnerOf[c])
  /\ Becomes(r, [at |-> "rotate", conn |-> c])
  /\ UNCHANGED <<windows, sessions, tables>>

\* The row loaded before is updated and committed.
CommitRotate(r) ==
  /\ job[r].at = "rotate"
  /\ Issue(job[r].conn)
  /\ retired' = retired \union {hash[job[r].conn]}
  /\ Becomes(r, Idle)
  /\ UNCHANGED <<windows, rows, sessions>>

\* Mutant: a token verified once is remembered instead of looked up.
Remembered(c, t, token) == OwnerOf[c] = t /\ token \in retired \union {hash[c]}

\* authenticate_connector's query.
Authenticates(c, t, token) == OwnerOf[c] = t /\ hash[c] = token

\* A forwarder pushes an event to a company's ingest route with a token shown
\* to its owner at some time.
StartIngest(r, t, token) ==
  /\ job[r] = Idle
  /\ \E c \in Connectors : /\ Authenticates(c, t, token)
                           /\ Becomes(r, [at |-> "publish", conn |-> c, token |-> token])
  /\ UNCHANGED <<windows, sessions, tables>>

\* events.raw is published with the connector's name; Correlation goes on.
PublishEvent(r) ==
  /\ job[r].at = "publish"
  /\ Becomes(r, Idle)
  /\ UNCHANGED <<windows, sessions, tables>>

\* An await raises or the replica dies: what was committed stays.
Raise(r) ==
  /\ Faults
  /\ job[r] # Idle
  /\ Becomes(r, Idle)
  /\ UNCHANGED <<windows, sessions, tables>>

-----------------------------------------------------------------------------
Step(r) == \/ CheckIp(r) \/ Verify(r) \/ RecordEmail(r) \/ RecordIp(r)
           \/ InsertName(r) \/ CommitRotate(r) \/ PublishEvent(r)

Next ==
  \/ \E r \in Requests :
       \/ \E e \in Emails, i \in Ips : StartLogin(r, e, i)
       \/ \E n \in Names : CheckName(r, n)
       \/ \E c \in Connectors : StartRotate(r, c)
       \/ \E t \in Tenants, token \in 1 .. minted : StartIngest(r, t, token)
       \/ Step(r)
       \/ Raise(r)
  \/ \E c \in Connectors : AddConnector(c)
  \/ \E k \in Keys : Expire(k)

Spec == Init /\ [][Next]_vars

\* Time passes: members of the windows grow old.
FairSpec == Spec /\ \A k \in Keys : WF_vars(Expire(k))

-----------------------------------------------------------------------------
\* Attempts that are past the check of k and may yet be counted against it.
Underway(k) ==
  {r \in Requests :
     \/ /\ job[r].at \in {"check_ip", "verify", "record_email"}
        /\ job[r].email = k
     \/ /\ job[r].at \in {"verify", "record_email", "record_ip"}
        /\ job[r].ip = k}

\* The window is counted, the password verified and the failure recorded at
\* three different times, so overlapping attempts get past the limit, but only
\* by those that were under way when it was reached (routers/auth.py:20-34,
\* ratelimit.py:47-66).
OvershootBounded ==
  \A k \in Keys : failures[k] + Cardinality(Underway(k)) <= Limit(k) - 1 + Cardinality(Requests)

\* A token that a rotation has replaced authenticates no request from then on,
\* whatever rotations and pushes overlap (routers/connectors.py:93-107,
\* connector_auth.py:36-44).
RetiredAdmitsNone ==
  [][\A r \in Requests :
       job[r] = Idle /\ job'[r].at = "publish" => job'[r].token \notin retired]_vars

\* However insistently a locked account or address is tried, it opens again:
\* refused attempts do not prolong the lockout (routers/auth.py:20-31).
LockoutEnds == \A k \in Keys : Locked(k) ~> ~Locked(k)

=============================================================================
