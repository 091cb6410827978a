---------------------------- MODULE LiveConsole -----------------------------
(* One browser tab on the Approvals page, and the push that keeps it fresh:    *)
(* the WebSocket of backend/app/routers/ws.py over realtime.py, the hook of     *)
(* frontend/src/lib/liveEvents.js with session.jsx (signing in and out too), and *)
(* the page's load, decide and rollback and their requests                      *)
(* (pages/Approvals.jsx, lib/api.js, routers/approvals.py).                     *)
(* A page's data is a version number, one up for every commit it would show.    *)
(* The agents commit a row and then announce it, or, for an approval, announce  *)
(* the proposal and then commit the row (agents/response.py:49-84).             *)
EXTENDS Naturals

CONSTANTS
  Companies, NoCompany,
  Active,       \* bound: the companies anything is committed for
  MaxChanges,   \* bound: commits of the agents and of this tab
  MaxSwitches,  \* bound: companies selected, and sessions begun and ended
  MaxDrops      \* bound: connections lost and requests that never reach the server

ASSUME LiveConsoleAssumption ==
  NoCompany \notin Companies /\ Active \subseteq Companies /\ {MaxChanges, MaxSwitches, MaxDrops} \subseteq Nat

VARIABLES
  data,      \* data[t]: commits so far that a list of company t's approvals shows
  rowsDue,   \* rowsDue[t]: announced rows of t not yet committed
  msgsDue,   \* msgsDue[t]: committed rows of t not yet announced
  session,   \* the JWT in localStorage: "valid", "expired" or "none"
  company,   \* the company selected: the tenantId of the effect
  sock,      \* sock[t]: the WebSocket of the effect for company t
  timer,     \* timer[t]: a reconnect of that effect is scheduled
  pushed,    \* pushed[t][n]: messages on their way to the tab, sent at version n
  asked,     \* asked[t]: GET requests for t's list the server has not served
  served,    \* served[t][n]: responses on their way, showing at least version n
  posted,    \* posted[t]: decisions and rollbacks accepted and not answered yet
  left,      \* requests of a page since left are out, with the token they had
  shown,     \* the list on the page
  changes, switches, drops

\* History, which no guard reads: of each company, the newest version ...
VARIABLES
  heard,     \* ... that was committed when a message was sent that has arrived,
  promised,  \* ... the same, counting the rows a message announces and that
             \*     are still to come, of every message sent to this tab,
  seen,      \* ... that the page has shown,
  missed     \* ... heard of by the time a load failed, with the error on the page

Versions == 0 .. MaxChanges
server == <<data, rowsDue, msgsDue>>
link == <<sock, timer, pushed>>
requests == <<asked, served, posted, left>>
history == <<heard, promised, seen, missed>>
bounds == <<changes, switches, drops>>
vars == <<server, link, session, company, requests, shown, history, bounds>>

SocketStates == {"closed", "connecting", "accepted", "subscribed"}

TypeOK ==
  /\ data \in [Companies -> Versions]
  /\ rowsDue \in [Companies -> Nat] /\ msgsDue \in [Companies -> Nat]
  /\ session \in {"valid", "expired", "none"}
  /\ company \in Companies \union {NoCompany}
  /\ sock \in [Companies -> SocketStates] /\ timer \in [Companies -> BOOLEAN]
  /\ pushed \in [Companies -> [Versions -> Nat]]
  /\ asked \in [Companies -> Nat] /\ served \in [Companies -> [Versions -> Nat]]
  /\ posted \in [Companies -> Nat] /\ left \in BOOLEAN
  /\ shown \in [company : Companies \union {NoCompany}, version : Versions]
  /\ heard \in [Companies -> Versions] /\ promised \in [Companies -> Versions]
  /\ seen \in [Companies -> Versions] /\ missed \in [Companies -> Versions]
  /\ changes \in Versions /\ switches \in 0 .. MaxSwitches /\ drops \in 0 .. MaxDrops

None == [t \in Companies |-> 0]
NoneAtAll == [t \in Companies |-> [n \in Versions |-> 0]]
EmptyPage == [company |-> NoCompany, version |-> 0]

Init ==
  /\ data = None /\ rowsDue = None /\ msgsDue = None
  /\ session = "valid"
  /\ company = NoCompany
  /\ sock = [t \in Companies |-> "closed"] /\ timer = [t \in Companies |-> FALSE]
  /\ pushed = NoneAtAll
  /\ asked = None /\ served = NoneAtAll /\ posted = None /\ left = FALSE
  /\ shown = EmptyPage
  /\ heard = None /\ promised = None /\ seen = None /\ missed = None
  /\ changes = 0 /\ switches = 0 /\ drops = 0

-----------------------------------------------------------------------------
\* The agents.

Bump(f, t) == [f EXCEPT ![t] = @ + 1]
Drain(f, t) == [f EXCEPT ![t] = @ - 1]

OneMoreChange(t) == t \in Active /\ changes < MaxChanges /\ changes' = changes + 1

Newer(m, n) == IF m > n THEN m ELSE n

\* publish, as the tab's subscription sees it: filtered to its company.  The
\* message is about what is committed and the due rows it announces.
Broadcast(t, due) ==
  IF sock[t] = "subscribed"
  THEN /\ pushed' = [pushed EXCEPT ![t][data[t]] = @ + 1]
       /\ promised' = [promised EXCEPT ![t] = Newer(@, data[t] + due)]
  ELSE UNCHANGED <<pushed, promised>>

\* A decision or an execution is committed ...
CommitRow(t) ==
  /\ OneMoreChange(t)
  /\ data' = Bump(data, t) /\ msgsDue' = Bump(msgsDue, t)
  /\ UNCHANGED <<rowsDue, link, session, company, requests, shown, history, switches, drops>>

\* ... and then published.
Announce(t) ==
  /\ msgsDue[t] > 0 /\ msgsDue' = Drain(msgsDue, t)
  /\ Broadcast(t, 0)
  /\ UNCHANGED <<data, rowsDue, sock, timer, session, company, requests, shown,
                 heard, seen, missed, bounds>>

\* A proposal that needs a human is published on actions.proposed ...
AnnounceProposal(t) ==
  /\ OneMoreChange(t)
  /\ rowsDue' = Bump(rowsDue, t)
  /\ Broadcast(t, rowsDue[t] + 1)
  /\ UNCHANGED <<data, msgsDue, sock, timer, session, company, requests, shown,
                 heard, seen, missed, switches, drops>>

\* ... and then its approval row is committed, which nothing announces.
CommitApproval(t) ==
  /\ rowsDue[t] > 0 /\ rowsDue' = Drain(rowsDue, t)
  /\ data' = Bump(data, t)
  /\ UNCHANGED <<msgsDue, link, session, company, requests, shown, history, bounds>>

\* Someone else's rollback is committed and audited, and published nowhere.
CommitRollback(t) ==
  /\ OneMoreChange(t)
  /\ data' = Bump(data, t)
  /\ UNCHANGED <<rowsDue, msgsDue, link, session, company, requests, shown, history, switches, drops>>

-----------------------------------------------------------------------------
\* The stream.  connect() gives up silently when localStorage has no token.
Connected(token) == IF token = "none" THEN "closed" ELSE "connecting"

\* The handshake is accepted; forward_events has not subscribed yet.
Accept(t) ==
  /\ sock[t] = "connecting" /\ session = "valid"
  /\ sock' = [sock EXCEPT ![t] = "accepted"]
  /\ UNCHANGED <<server, timer, pushed, session, company, requests, shown, history, bounds>>

Subscribe(t) ==
  /\ sock[t] = "accepted"
  /\ sock' = [sock EXCEPT ![t] = "subscribed"]
  /\ UNCHANGED <<server, timer, pushed, session, company, requests, shown, history, bounds>>

\* Mutant: a reconnect is scheduled only for a connection that was open.
RetryIfOpened(t) == sock[t] \in {"accepted", "subscribed"}

\* onclose schedules a reconnect whatever closed the socket.
RetryOnClose(t) == TRUE

Closed(t) == /\ sock' = [sock EXCEPT ![t] = "closed"]
             /\ timer' = [timer EXCEPT ![t] = RetryOnClose(t)]
             /\ pushed' = [pushed EXCEPT ![t] = NoneAtAll[t]]

\* The handshake is refused with 4401.
Reject(t) ==
  /\ sock[t] = "connecting" /\ session # "valid"
  /\ Closed(t)
  /\ UNCHANGED <<server, session, company, requests, shown, history, bounds>>

\* The connection is lost, with what was on it.
Drop(t) ==
  /\ sock[t] # "closed"
  /\ drops < MaxDrops /\ drops' = drops + 1
  /\ Closed(t)
  /\ UNCHANGED <<server, session, company, requests, shown, history, changes, switches>>

Reconnect(t) ==
  /\ timer[t]
  /\ timer' = [timer EXCEPT ![t] = FALSE]
  /\ sock' = [sock EXCEPT ![t] = Connected(session)]
  /\ UNCHANGED <<server, pushed, session, company, requests, shown, history, bounds>>

\* Mutant: a message that arrives while a load is out loads nothing.
LoadUnlessBusy(t) ==
  IF asked[t] > 0 \/ \E n \in Versions : served[t][n] > 0 THEN asked ELSE Bump(asked, t)

\* Every change of eventsVersion runs the page's load.
Load(t) == Bump(asked, t)

\* onmessage.
Arrive(t) ==
  \E n \in Versions :
    /\ pushed[t][n] > 0 /\ pushed' = [pushed EXCEPT ![t][n] = @ - 1]
    /\ asked' = Load(t)
    /\ heard' = [heard EXCEPT ![t] = Newer(@, n)]
    /\ UNCHANGED <<server, session, company, sock, timer, served, posted, left, shown,
                   promised, seen, missed, bounds>>

-----------------------------------------------------------------------------
\* The page.

OneMoreSwitch == switches < MaxSwitches /\ switches' = switches + 1

\* Mutant: the effect's cleanup leaves its reconnect timer running.
CleanedTimer(t) == timer

\* The effect's cleanup for company t: no reconnect, no more messages.
Cleaned(t) == [timer EXCEPT ![t] = FALSE]

\* tenantId becomes t while localStorage holds the given token.  The effect
\* depends on tenantId alone: the same company again cleans up and opens nothing.
Effect(t, token) ==
  /\ company' = t
  /\ IF t = company THEN UNCHANGED link
     ELSE /\ sock' = [u \in Companies |-> IF u = t THEN Connected(token) ELSE "closed"]
          /\ timer' = IF company = NoCompany THEN timer ELSE Cleaned(company)
          /\ pushed' = NoneAtAll

\* The administrator picks company t or none in the sidebar, or a security
\* holder's page comes up.  The list on the page stays until a response replaces it.
Select(t) ==
  /\ t # company /\ OneMoreSwitch
  /\ Effect(t, session)
  /\ asked' = IF t = NoCompany THEN asked ELSE Bump(asked, t)
  /\ UNCHANGED <<server, session, served, posted, left, shown, history, changes, drops>>

\* The page is left, and a fresh one mounted, for company t or for none; what
\* was out is of no use to anybody, but its answers still come.
Remount(t) ==
  /\ asked' = [u \in Companies |-> IF u = t THEN 1 ELSE 0]
  /\ served' = NoneAtAll /\ posted' = None
  /\ left' = (left \/ \E u \in Companies : asked[u] > 0)
  /\ shown' = EmptyPage

\* login, from the login page, without a reload of the tab: an administrator
\* starts with no company, a security holder with t.
SignIn(t) ==
  /\ OneMoreSwitch
  /\ session' = "valid"
  /\ Effect(t, "valid")
  /\ Remount(t)
  /\ UNCHANGED <<server, history, changes, drops>>

SignOut ==
  /\ OneMoreSwitch
  /\ session' = "none"
  /\ Effect(NoCompany, "none")
  /\ Remount(NoCompany)
  /\ UNCHANGED <<server, history, changes, drops>>

\* list_approvals reads the rows, and then an action for each row: the answer
\* shows every commit up to its first read, and perhaps some of the later ones.
Serve(t) ==
  /\ asked[t] > 0 /\ asked' = Drain(asked, t)
  /\ session = "valid"
  /\ served' = [served EXCEPT ![t][data[t]] = @ + 1]
  /\ UNCHANGED <<server, link, session, company, posted, left, shown, history, bounds>>

Fails(t) == missed' = [missed EXCEPT ![t] = Newer(@, heard[t])]

\* 401: request() clears the session.
Refuse(t) ==
  /\ asked[t] > 0 /\ asked' = Drain(asked, t)
  /\ session # "valid" /\ session' = "none"
  /\ Fails(t)
  /\ UNCHANGED <<server, link, company, served, posted, left, shown, heard, promised, seen, bounds>>

\* ... whichever session is there by then: the last request of a page since
\* left comes back, refused or not.
Late ==
  /\ left /\ left' = FALSE
  /\ session' \in {session, "none"}
  /\ UNCHANGED <<server, link, company, asked, served, posted, shown, history, bounds>>

\* The request failed and so did its retry.
FailFetch(t) ==
  /\ asked[t] > 0 /\ asked' = Drain(asked, t)
  /\ drops < MaxDrops /\ drops' = drops + 1
  /\ Fails(t)
  /\ UNCHANGED <<server, link, session, company, served, posted, left, shown,
                 heard, promised, seen, changes, switches>>

\* A response arrives, in any order, and setApprovals puts it on the page.
ShowList(t) ==
  \E n \in Versions :
    /\ served[t][n] > 0 /\ served' = [served EXCEPT ![t][n] = @ - 1]
    /\ shown' = [company |-> t, version |-> n]
    /\ seen' = [seen EXCEPT ![t] = Newer(@, n)]
    /\ UNCHANGED <<server, link, session, company, asked, posted, left, heard, promised, missed, bounds>>

\* A click on an approval of the list, sent under the selected company; an
\* approval of another one is not found there, and nothing happens.
Clicked(t) == t = company /\ shown.company = t /\ shown.version > 0

\* decide is accepted and committed, to be published as by CommitRow ...
Decide(t) ==
  /\ Clicked(t) /\ session = "valid" /\ OneMoreChange(t)
  /\ data' = Bump(data, t) /\ msgsDue' = Bump(msgsDue, t)
  /\ posted' = Bump(posted, t)
  /\ UNCHANGED <<rowsDue, link, session, company, asked, served, left, shown, history, switches, drops>>

\* ... rollback is, and published nowhere ...
Rollback(t) ==
  /\ Clicked(t) /\ session = "valid" /\ OneMoreChange(t)
  /\ data' = Bump(data, t)
  /\ posted' = Bump(posted, t)
  /\ UNCHANGED <<rowsDue, msgsDue, link, session, company, asked, served, left, shown, history,
                 switches, drops>>

\* ... and when the answer comes, the list is loaded again.
Answer(t) ==
  /\ posted[t] > 0 /\ posted' = Drain(posted, t)
  /\ asked' = Load(t)
  /\ UNCHANGED <<server, link, session, company, served, left, shown, history, bounds>>

\* Either click, refused for its token.
ClickRefused(t) ==
  /\ Clicked(t) /\ session = "expired" /\ session' = "none"
  /\ UNCHANGED <<server, link, company, requests, shown, history, bounds>>

\* The JWT passes jwt_expire_minutes.
ExpireSession ==
  /\ session = "valid" /\ session' = "expired"
  /\ UNCHANGED <<server, link, company, requests, shown, history, bounds>>

-----------------------------------------------------------------------------
SocketStep(t) == Accept(t) \/ Subscribe(t) \/ Reject(t) \/ Reconnect(t)
Respond(t) == Serve(t) \/ Refuse(t)

Next ==
  \/ \E t \in Companies :
       \/ CommitRow(t) \/ Announce(t) \/ AnnounceProposal(t) \/ CommitApproval(t)
       \/ CommitRollback(t)
       \/ SocketStep(t) \/ Arrive(t) \/ Drop(t)
       \/ Respond(t) \/ FailFetch(t) \/ ShowList(t)
       \/ Decide(t) \/ Rollback(t) \/ Answer(t) \/ ClickRefused(t)
  \/ \E t \in Companies \union {NoCompany} : Select(t) \/ SignIn(t)
  \/ SignOut
  \/ Late
  \/ ExpireSession

Spec == Init /\ [][Next]_vars

\* Agents, server and browser go on with what they have begun; connections end,
\* requests fail and people act when they like, or never.
FairSpec ==
  Spec /\ \A t \in Companies :
            /\ WF_vars(Announce(t)) /\ WF_vars(CommitApproval(t))
            /\ WF_vars(SocketStep(t)) /\ WF_vars(Arrive(t))
            /\ WF_vars(Respond(t)) /\ WF_vars(ShowList(t)) /\ WF_vars(Answer(t))

-----------------------------------------------------------------------------
\* Whatever drops, reconnects, sign-ins and changes of company overlap, only the
\* selected company has a socket or a reconnect to come: "one WebSocket per
\* active tenant" (session.jsx:39-41, liveEvents.js:26-59).
OneStream == \A t \in Companies : sock[t] # "closed" \/ timer[t] => t = company

\* A stream that has not given up, or is yet to try again, comes back, however
\* it ended, while the session is good and the company stays selected.  It has
\* given up when connect() found no token: then a sign-in to the same company
\* does not bring it back (liveEvents.js:26-28, 39-45 and 60).
Reconnects ==
  \A t \in Companies :
    company = t /\ (sock[t] # "closed" \/ timer[t]) ~>
      sock[t] = "subscribed" \/ company # t \/ session # "valid"

\* What was committed when an arrived message was sent gets onto the page, be it
\* for a moment, also if the message comes while older requests are out; or a
\* load made since failed and said so (liveEvents.js:36-38, Approvals.jsx:14-19).
PushIsShown ==
  \A t \in Companies, n \in Versions \ {0} :
    company = t /\ heard[t] = n ~> seen[t] >= n \/ missed[t] >= n \/ company # t

\* README.md:42-47: every action shows up in the browser the instant an agent
\* publishes it.  What a message sent to this tab announces is on the page in
\* the end, unless the stream or the session ends or another company is selected.
PublishedIsShown ==
  \A t \in Companies, n \in Versions \ {0} :
    company = t /\ promised[t] = n ~>
      seen[t] >= n \/ company # t \/ sock[t] # "subscribed" \/ session # "valid"

\* No list tells of what was not committed: an announced row counts before it is ...
Counted == \A t \in Companies : data[t] + rowsDue[t] <= changes

\* ... nor does a message ...
Told ==
  \A t \in Companies : /\ heard[t] <= data[t]
                       /\ \A n \in Versions : pushed[t][n] > 0 => n <= data[t]

\* ... and of what the selected company's page has heard, it has shown it, or a
\* load failed and it said so, or a request or a response is out that will show it.
Remembered ==
  company \in Companies =>
    \/ heard[company] <= seen[company] \/ heard[company] <= missed[company]
    \/ asked[company] > 0
    \/ \E n \in Versions : n >= heard[company] /\ served[company][n] > 0

\* The inductive invariant of the console.
ConsoleInv == TypeOK /\ Counted /\ Told /\ Remembered

=============================================================================
