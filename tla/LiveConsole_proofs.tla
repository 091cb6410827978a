------------------------- MODULE LiveConsole_proofs -------------------------
(* Proofs about LiveConsole, for any number of companies, commits, selections  *)
(* and losses: its types, that only the selected company has a stream, and     *)
(* that nothing the page has heard of is forgotten.                            *)
EXTENDS LiveConsole, TLAPS

\* The types, strengthened to be inductive.
TypeInv == TypeOK /\ Counted

-----------------------------------------------------------------------------
\* The larger of two versions is a version.
LEMMA NewerType ==
  ASSUME NEW m \in Versions, NEW n \in Versions
  PROVE  Newer(m, n) \in Versions
BY DEF Newer

\* A counter of one company, one up, one down, or one of its cells changed,
\* stays a counter.
LEMMA CounterTypes ==
  /\ \A f \in [Companies -> Nat], t \in Companies :
       Bump(f, t) \in [Companies -> Nat] /\ (f[t] > 0 => Drain(f, t) \in [Companies -> Nat])
  /\ \A f \in [Companies -> [Versions -> Nat]], t \in Companies, n \in Versions :
       /\ [f EXCEPT ![t][n] = @ + 1] \in [Companies -> [Versions -> Nat]]
       /\ f[t][n] > 0 => [f EXCEPT ![t][n] = @ - 1] \in [Companies -> [Versions -> Nat]]
       /\ [f EXCEPT ![t] = NoneAtAll[t]] \in [Companies -> [Versions -> Nat]]
BY DEF Bump, Drain, NoneAtAll

\* The bounds are natural numbers.
LEMMA Bounds ==
  /\ MaxChanges \in Nat /\ MaxSwitches \in Nat /\ MaxDrops \in Nat
  /\ 0 \in Versions /\ Versions \subseteq Nat
BY LiveConsoleAssumption DEF Versions

\* The first state has its types.
LEMMA TypeInit == Init => TypeInv
<1> SUFFICES ASSUME Init PROVE TypeInv OBVIOUS
<1>1. changes \in Versions /\ switches \in 0 .. MaxSwitches /\ drops \in 0 .. MaxDrops
  BY Bounds DEF Init
<1>2. None \in [Companies -> Versions] /\ NoneAtAll \in [Companies -> [Versions -> Nat]]
  BY Bounds DEF None, NoneAtAll
<1>3. None \in [Companies -> Nat] BY DEF None
<1>a. /\ sock \in [Companies -> SocketStates] /\ timer \in [Companies -> BOOLEAN]
      /\ pushed \in [Companies -> [Versions -> Nat]]
  BY <1>2 DEF Init, SocketStates
<1>b. /\ shown \in [company : Companies \union {NoCompany}, version : Versions]
      /\ posted \in [Companies -> Nat] /\ left \in BOOLEAN
  BY <1>3, Bounds DEF Init, EmptyPage
<1>4. TypeOK BY <1>1, <1>2, <1>3, <1>a, <1>b DEF Init, TypeOK
<1>5. Counted
  <2> SUFFICES ASSUME NEW t \in Companies PROVE data[t] + rowsDue[t] <= changes BY DEF Counted
  <2>1. data[t] = 0 /\ rowsDue[t] = 0 /\ changes = 0 BY DEF Init, None
  <2>2. QED BY <2>1
<1>6. QED BY <1>4, <1>5 DEF TypeInv

\* One more change: the counter of changes goes up and stays a version.
LEMMA OneMoreChangeType ==
  ASSUME TypeOK, NEW t \in Companies, OneMoreChange(t)
  PROVE  changes' \in Versions /\ changes' = changes + 1
BY Bounds DEF TypeOK, OneMoreChange, Versions

\* A list that shows no more commits than were made shows a version.
LEMMA CountedIsVersion ==
  ASSUME data' \in [Companies -> Nat], rowsDue' \in [Companies -> Nat], changes' \in Versions, Counted'
  PROVE  data' \in [Companies -> Versions]
BY Bounds DEF Counted, Versions

\* What is pushed is sent at the version of the data, and promises versions.
LEMMA BroadcastType ==
  ASSUME TypeOK, NEW t \in Companies, NEW due \in Nat, Broadcast(t, due), data[t] + due \in Versions
  PROVE  /\ pushed' \in [Companies -> [Versions -> Nat]]
         /\ promised' \in [Companies -> Versions]
<1>1. CASE sock[t] = "subscribed"
  <2>1. data[t] \in Versions /\ pushed \in [Companies -> [Versions -> Nat]]
        /\ promised \in [Companies -> Versions]
    BY DEF TypeOK
  <2>2. Newer(promised[t], data[t] + due) \in Versions BY <2>1, NewerType
  <2>3. /\ pushed' = [pushed EXCEPT ![t][data[t]] = @ + 1]
        /\ promised' = [promised EXCEPT ![t] = Newer(@, data[t] + due)]
    BY <1>1 DEF Broadcast
  <2>4. pushed' \in [Companies -> [Versions -> Nat]] BY <2>1, <2>3, CounterTypes
  <2>5. promised' \in [Companies -> Versions] BY <2>1, <2>2, <2>3
  <2>6. QED BY <2>4, <2>5
<1>2. CASE sock[t] # "subscribed" BY <1>2 DEF Broadcast, TypeOK
<1>3. QED BY <1>1, <1>2

\* A failed load keeps the versions that were missed versions.
LEMMA FailsType ==
  ASSUME missed \in [Companies -> Versions], heard \in [Companies -> Versions],
         NEW t \in Companies, Fails(t)
  PROVE  missed' \in [Companies -> Versions]
<1>1. Newer(missed[t], heard[t]) \in Versions BY NewerType
<1>2. QED BY <1>1 DEF Fails

\* The effect's run keeps the types of the link.
LEMMA EffectType ==
  ASSUME TypeOK, NEW t \in Companies \union {NoCompany},
         NEW token \in {"valid", "expired", "none"}, Effect(t, token)
  PROVE  /\ sock' \in [Companies -> SocketStates] /\ timer' \in [Companies -> BOOLEAN]
         /\ pushed' \in [Companies -> [Versions -> Nat]]
         /\ company' = t
<1>1. CASE t = company BY <1>1 DEF TypeOK, Effect, link
<1>2. CASE t # company
  <2>1. sock' \in [Companies -> SocketStates] BY <1>2 DEF Effect, Connected, SocketStates
  <2>2. timer' = timer \/ timer' = [timer EXCEPT ![company] = FALSE]
    BY <1>2 DEF Effect, Cleaned
  <2>3. timer' \in [Companies -> BOOLEAN] BY <2>2 DEF TypeOK
  <2>4. pushed' \in [Companies -> [Versions -> Nat]] BY <1>2 DEF Effect, NoneAtAll
  <2>5. QED BY <2>1, <2>3, <2>4 DEF Effect
<1>3. QED BY <1>1, <1>2

\* A fresh page has its types.
LEMMA RemountType ==
  ASSUME NEW t \in Companies \union {NoCompany}, Remount(t)
  PROVE  /\ asked' \in [Companies -> Nat] /\ posted' \in [Companies -> Nat]
         /\ served' \in [Companies -> [Versions -> Nat]] /\ left' \in BOOLEAN
         /\ shown' \in [company : Companies \union {NoCompany}, version : Versions]
BY Bounds DEF Remount, None, NoneAtAll, EmptyPage

\* Closing a socket keeps the types of the link.
LEMMA ClosedType ==
  ASSUME TypeOK, NEW t \in Companies, Closed(t)
  PROVE  /\ sock' \in [Companies -> SocketStates] /\ timer' \in [Companies -> BOOLEAN]
         /\ pushed' \in [Companies -> [Versions -> Nat]]
BY CounterTypes DEF TypeOK, Closed, RetryOnClose, SocketStates

\* Every step keeps the types and the count.
LEMMA TypeStep == TypeInv /\ [Next]_vars => TypeInv'
<1> SUFFICES ASSUME TypeInv, [Next]_vars PROVE TypeInv' OBVIOUS
<1> USE DEF TypeInv
<1> DEFINE ServerTypes == /\ data \in [Companies -> Versions]
                          /\ rowsDue \in [Companies -> Nat] /\ msgsDue \in [Companies -> Nat]
                          /\ changes \in Versions /\ Counted
           LinkTypes == /\ sock \in [Companies -> SocketStates] /\ timer \in [Companies -> BOOLEAN]
                        /\ pushed \in [Companies -> [Versions -> Nat]]
           TabTypes == /\ session \in {"valid", "expired", "none"}
                       /\ company \in Companies \union {NoCompany}
                       /\ switches \in 0 .. MaxSwitches /\ drops \in 0 .. MaxDrops
           PageTypes == /\ asked \in [Companies -> Nat]
                        /\ served \in [Companies -> [Versions -> Nat]]
                        /\ posted \in [Companies -> Nat] /\ left \in BOOLEAN
                        /\ shown \in [company : Companies \union {NoCompany}, version : Versions]
           HistoryTypes == /\ heard \in [Companies -> Versions] /\ promised \in [Companies -> Versions]
                           /\ seen \in [Companies -> Versions] /\ missed \in [Companies -> Versions]
<1>a. ServerTypes /\ LinkTypes /\ TabTypes /\ PageTypes /\ HistoryTypes BY DEF TypeOK
<1>b. ServerTypes' /\ LinkTypes' /\ TabTypes' /\ PageTypes' /\ HistoryTypes' => TypeInv' BY DEF TypeOK
<1>c. UNCHANGED <<server, changes>> => ServerTypes' BY <1>a DEF server, Counted
<1>d. UNCHANGED link => LinkTypes' BY <1>a DEF link
<1>e. UNCHANGED <<session, company, switches, drops>> => TabTypes' BY <1>a
<1>f. ServerTypes => data \in [Companies -> Nat] BY Bounds
<1>g. UNCHANGED <<requests, shown>> => PageTypes' BY <1>a DEF requests
<1>h. UNCHANGED history => HistoryTypes' BY <1>a DEF history
<1> HIDE DEF ServerTypes, LinkTypes, TabTypes, PageTypes, HistoryTypes, TypeInv
<1>1. ASSUME NEW t \in Companies, CommitRow(t) PROVE TypeInv'
  <2>1. changes' \in Versions /\ changes' = changes + 1 BY <1>a, <1>1, OneMoreChangeType DEF CommitRow, TypeInv
  <2>2. data' \in [Companies -> Nat] /\ rowsDue' \in [Companies -> Nat] /\ msgsDue' \in [Companies -> Nat]
    BY <1>a, <1>f, <1>1, CounterTypes DEF CommitRow, ServerTypes
  <2>3. Counted'
    BY <1>a, <1>f, <1>1, <2>1, Bounds DEF CommitRow, ServerTypes, Counted, Bump
  <2>4. ServerTypes' BY <2>1, <2>2, <2>3, CountedIsVersion DEF ServerTypes
  <2>5. QED BY <1>1, <2>4, <1>b, <1>d, <1>e, <1>g, <1>h DEF CommitRow
<1>2. ASSUME NEW t \in Companies, Announce(t) PROVE TypeInv'
  <2>1. ServerTypes' BY <1>a, <1>2, CounterTypes DEF Announce, ServerTypes, Counted, bounds
  <2>2. data[t] + 0 \in Versions BY <1>a, <1>f, Bounds DEF ServerTypes
  <2>3. /\ pushed' \in [Companies -> [Versions -> Nat]] /\ promised' \in [Companies -> Versions]
    BY <1>2, <2>2, BroadcastType DEF Announce, TypeInv
  <2>4. LinkTypes' /\ HistoryTypes' BY <1>a, <1>2, <2>3 DEF Announce, LinkTypes, HistoryTypes
  <2>5. QED BY <1>2, <2>1, <2>4, <1>b, <1>e, <1>g DEF Announce, bounds
<1>3. ASSUME NEW t \in Companies, AnnounceProposal(t) PROVE TypeInv'
  <2>1. changes' \in Versions /\ changes' = changes + 1
    BY <1>a, <1>3, OneMoreChangeType DEF AnnounceProposal, TypeInv
  <2>2. data' \in [Companies -> Nat] /\ rowsDue' \in [Companies -> Nat] /\ msgsDue' \in [Companies -> Nat]
    BY <1>a, <1>f, <1>3, CounterTypes DEF AnnounceProposal, ServerTypes
  <2>3. Counted'
    BY <1>a, <1>f, <1>3, <2>1, Bounds DEF AnnounceProposal, ServerTypes, Counted, Bump
  <2>4. ServerTypes' BY <2>1, <2>2, <2>3, CountedIsVersion DEF ServerTypes
  <2>5. rowsDue[t] + 1 \in Nat /\ data[t] + (rowsDue[t] + 1) \in Versions
    <3>1. /\ data[t] \in Nat /\ rowsDue[t] \in Nat /\ changes \in Nat
          /\ data[t] + rowsDue[t] <= changes
      BY <1>a, <1>f, Bounds DEF ServerTypes, Counted
    <3>2. QED BY <2>1, <3>1, Bounds DEF Versions
  <2>6. /\ pushed' \in [Companies -> [Versions -> Nat]] /\ promised' \in [Companies -> Versions]
    BY <1>3, <2>5, BroadcastType DEF AnnounceProposal, TypeInv
  <2>7. LinkTypes' /\ HistoryTypes' BY <1>a, <1>3, <2>6 DEF AnnounceProposal, LinkTypes, HistoryTypes
  <2>8. QED BY <1>3, <2>4, <2>7, <1>b, <1>e, <1>g DEF AnnounceProposal
<1>4. ASSUME NEW t \in Companies, CommitApproval(t) PROVE TypeInv'
  <2>1. data' \in [Companies -> Nat] /\ rowsDue' \in [Companies -> Nat] /\ msgsDue' \in [Companies -> Nat]
    BY <1>a, <1>f, <1>4, CounterTypes DEF CommitApproval, ServerTypes
  <2>2. Counted' /\ changes' \in Versions
    BY <1>a, <1>f, <1>4, Bounds DEF CommitApproval, ServerTypes, Counted, Bump, Drain, bounds
  <2>3. ServerTypes' BY <2>1, <2>2, CountedIsVersion DEF ServerTypes
  <2>4. QED BY <1>4, <2>3, <1>b, <1>d, <1>e, <1>g, <1>h DEF CommitApproval, bounds
<1>5. ASSUME NEW t \in Companies, CommitRollback(t) PROVE TypeInv'
  <2>1. changes' \in Versions /\ changes' = changes + 1
    BY <1>a, <1>5, OneMoreChangeType DEF CommitRollback, TypeInv
  <2>2. data' \in [Companies -> Nat] /\ rowsDue' \in [Companies -> Nat] /\ msgsDue' \in [Companies -> Nat]
    BY <1>a, <1>f, <1>5, CounterTypes DEF CommitRollback, ServerTypes
  <2>3. Counted'
    BY <1>a, <1>f, <1>5, <2>1, Bounds DEF CommitRollback, ServerTypes, Counted, Bump
  <2>4. ServerTypes' BY <2>1, <2>2, <2>3, CountedIsVersion DEF ServerTypes
  <2>5. QED BY <1>5, <2>4, <1>b, <1>d, <1>e, <1>g, <1>h DEF CommitRollback
<1>6. ASSUME NEW t \in Companies, SocketStep(t) PROVE TypeInv'
  <2>1. CASE Reject(t)
    BY <1>a, <1>b, <1>c, <1>e, <1>g, <1>h, <2>1, ClosedType DEF Reject, LinkTypes, TypeInv, bounds
  <2>2. CASE Accept(t) \/ Subscribe(t) \/ Reconnect(t)
    <3>1. LinkTypes' BY <1>a, <2>2 DEF Accept, Subscribe, Reconnect, Connected, LinkTypes, SocketStates
    <3>2. QED BY <1>b, <1>c, <1>e, <1>g, <1>h, <2>2, <3>1 DEF Accept, Subscribe, Reconnect, bounds
  <2>3. QED BY <1>6, <2>1, <2>2 DEF SocketStep
<1>7. ASSUME NEW t \in Companies, Arrive(t) PROVE TypeInv'
  <2>1. PICK n \in Versions :
          /\ pushed[t][n] > 0 /\ pushed' = [pushed EXCEPT ![t][n] = @ - 1]
          /\ asked' = Bump(asked, t)
          /\ heard' = [heard EXCEPT ![t] = Newer(@, n)]
          /\ UNCHANGED <<server, session, company, sock, timer, served, posted, left, shown,
                         promised, seen, missed, bounds>>
    BY <1>7 DEF Arrive, Load
  <2>2. LinkTypes' BY <1>a, <2>1, CounterTypes DEF LinkTypes
  <2>3. PageTypes' BY <1>a, <2>1, CounterTypes DEF PageTypes
  <2>4. HistoryTypes' BY <1>a, <2>1, NewerType DEF HistoryTypes
  <2>5. QED BY <1>b, <1>c, <1>e, <2>1, <2>2, <2>3, <2>4 DEF bounds
<1>8. ASSUME NEW t \in Companies, Drop(t) PROVE TypeInv'
  <2>1. LinkTypes' BY <1>8, ClosedType DEF Drop, LinkTypes, TypeInv
  <2>2. TabTypes' BY <1>a, <1>8, Bounds DEF Drop, TabTypes
  <2>3. QED BY <1>b, <1>c, <1>g, <1>h, <1>8, <2>1, <2>2 DEF Drop
<1>9. ASSUME NEW t \in Companies, Serve(t) PROVE TypeInv'
  <2>1. asked' \in [Companies -> Nat] BY <1>a, <1>9, CounterTypes DEF PageTypes, Serve
  <2>2. data[t] \in Versions /\ served \in [Companies -> [Versions -> Nat]]
    BY <1>a DEF ServerTypes, PageTypes
  <2>3. served' \in [Companies -> [Versions -> Nat]] BY <1>9, <2>2, CounterTypes DEF Serve
  <2>4. PageTypes' BY <1>a, <1>9, <2>1, <2>3 DEF PageTypes, Serve
  <2>5. /\ UNCHANGED <<server, changes>> /\ UNCHANGED link /\ UNCHANGED history
        /\ UNCHANGED <<session, company, switches, drops>>
    BY <1>9 DEF Serve, bounds
  <2>6. QED BY <1>b, <1>c, <1>d, <1>e, <1>h, <2>4, <2>5
<1>10. ASSUME NEW t \in Companies, Refuse(t) \/ FailFetch(t) PROVE TypeInv'
  <2>0. asked[t] > 0 /\ asked' = Drain(asked, t) BY <1>10 DEF Refuse, FailFetch
  <2>a. asked \in [Companies -> Nat] BY <1>a DEF PageTypes
  <2>1. asked' \in [Companies -> Nat] BY <2>0, <2>a, CounterTypes
  <2>2. missed' \in [Companies -> Versions]
    BY <1>a, <1>10, FailsType DEF HistoryTypes, Refuse, FailFetch
  <2>3. PageTypes' BY <1>a, <1>10, <2>1 DEF PageTypes, Refuse, FailFetch
  <2>4. HistoryTypes' BY <1>a, <1>10, <2>2 DEF HistoryTypes, Refuse, FailFetch
  <2>5. TabTypes' BY <1>a, <1>10, Bounds DEF TabTypes, Refuse, FailFetch, bounds
  <2>6. QED BY <1>b, <1>c, <1>d, <1>10, <2>3, <2>4, <2>5 DEF Refuse, FailFetch, bounds
<1>11. ASSUME NEW t \in Companies, ShowList(t) PROVE TypeInv'
  <2>1. PICK n \in Versions :
          /\ served[t][n] > 0 /\ served' = [served EXCEPT ![t][n] = @ - 1]
          /\ shown' = [company |-> t, version |-> n]
          /\ seen' = [seen EXCEPT ![t] = Newer(@, n)]
          /\ UNCHANGED <<server, link, session, company, asked, posted, left, heard, promised,
                         missed, bounds>>
    BY <1>11 DEF ShowList
  <2>2. PageTypes' BY <1>a, <2>1, CounterTypes DEF PageTypes
  <2>3. HistoryTypes' BY <1>a, <2>1, NewerType DEF HistoryTypes
  <2>4. QED BY <1>b, <1>c, <1>d, <1>e, <2>1, <2>2, <2>3 DEF bounds
<1>12. ASSUME NEW t \in Companies \union {NoCompany}, Select(t) PROVE TypeInv'
  <2>1. LinkTypes' /\ company' = t
    BY <1>a, <1>12, EffectType DEF Select, LinkTypes, TabTypes, TypeInv
  <2>2. asked' \in [Companies -> Nat] BY <1>a, <1>12, CounterTypes DEF Select, PageTypes
  <2>3. PageTypes' BY <1>a, <1>12, <2>2 DEF Select, PageTypes
  <2>4. TabTypes' BY <1>a, <1>12, <2>1, Bounds DEF Select, OneMoreSwitch, TabTypes
  <2>5. QED BY <1>b, <1>c, <1>h, <1>12, <2>1, <2>3, <2>4 DEF Select
<1>13. ASSUME NEW t \in Companies \union {NoCompany}, SignIn(t) PROVE TypeInv'
  <2>1. LinkTypes' /\ company' = t BY <1>13, EffectType DEF SignIn, LinkTypes, TypeInv
  <2>2. PageTypes' BY <1>13, RemountType DEF SignIn, PageTypes
  <2>3. TabTypes' BY <1>a, <1>13, <2>1, Bounds DEF SignIn, OneMoreSwitch, TabTypes
  <2>4. QED BY <1>b, <1>c, <1>h, <1>13, <2>1, <2>2, <2>3 DEF SignIn
<1>14. ASSUME SignOut PROVE TypeInv'
  <2>1. LinkTypes' /\ company' = NoCompany BY <1>14, EffectType DEF SignOut, LinkTypes, TypeInv
  <2>2. PageTypes' BY <1>14, RemountType DEF SignOut, PageTypes
  <2>3. TabTypes' BY <1>a, <1>14, <2>1, Bounds DEF SignOut, OneMoreSwitch, TabTypes
  <2>4. QED BY <1>b, <1>c, <1>h, <1>14, <2>1, <2>2, <2>3 DEF SignOut
<1>15. ASSUME NEW t \in Companies, Decide(t) \/ Rollback(t) PROVE TypeInv'
  <2>1. changes' \in Versions /\ changes' = changes + 1
    BY <1>15, OneMoreChangeType DEF Decide, Rollback, TypeInv
  <2>2. data' \in [Companies -> Nat] /\ rowsDue' \in [Companies -> Nat] /\ msgsDue' \in [Companies -> Nat]
    BY <1>a, <1>f, <1>15, CounterTypes DEF Decide, Rollback, ServerTypes
  <2>3. Counted'
    BY <1>a, <1>f, <1>15, <2>1, Bounds DEF Decide, Rollback, ServerTypes, Counted, Bump
  <2>4. ServerTypes' BY <2>1, <2>2, <2>3, CountedIsVersion DEF ServerTypes
  <2>5. posted' \in [Companies -> Nat] BY <1>a, <1>15, CounterTypes DEF Decide, Rollback, PageTypes
  <2>6. PageTypes' BY <1>a, <1>15, <2>5 DEF Decide, Rollback, PageTypes
  <2>7. QED BY <1>15, <2>4, <2>6, <1>b, <1>d, <1>e, <1>h DEF Decide, Rollback
<1>16. ASSUME NEW t \in Companies, Answer(t) PROVE TypeInv'
  <2>1. posted' \in [Companies -> Nat] /\ asked' \in [Companies -> Nat]
    BY <1>a, <1>16, CounterTypes DEF Answer, Load, PageTypes
  <2>2. PageTypes' BY <1>a, <1>16, <2>1 DEF Answer, PageTypes
  <2>3. QED BY <1>b, <1>c, <1>d, <1>e, <1>h, <1>16, <2>2 DEF Answer, bounds
<1>17. ASSUME Late \/ ExpireSession \/ \E t \in Companies : ClickRefused(t) PROVE TypeInv'
  <2>1. TabTypes' BY <1>a, <1>17 DEF Late, ExpireSession, ClickRefused, TabTypes, bounds
  <2>2. PageTypes' BY <1>a, <1>17 DEF Late, ExpireSession, ClickRefused, PageTypes, requests
  <2>3. QED BY <1>b, <1>c, <1>d, <1>h, <1>17, <2>1, <2>2 DEF Late, ExpireSession, ClickRefused, bounds
<1>18. CASE UNCHANGED vars BY <1>b, <1>c, <1>d, <1>e, <1>g, <1>h, <1>18 DEF vars, bounds
<1>19. QED
  BY <1>1, <1>2, <1>3, <1>4, <1>5, <1>6, <1>7, <1>8, <1>9, <1>10, <1>11, <1>12, <1>13, <1>14, <1>15,
     <1>16, <1>17, <1>18
  DEF Next, Respond

\* LiveConsole keeps its types: in particular no announcement is due that no
\* commit came before, and no list shows what was not committed.
THEOREM TypeCorrect == Spec => []TypeInv
BY TypeInit, TypeStep, PTL DEF Spec

-----------------------------------------------------------------------------
\* The effects' cleanup at each selection, sign-in and sign-out leaves no other
\* company a socket or a timer, and only the selected company's effect makes
\* new ones.
LEMMA EffectKeepsOneStream ==
  ASSUME TypeOK, OneStream, NEW t \in Companies \union {NoCompany}, NEW token, Effect(t, token)
  PROVE  OneStream'
<1>1. CASE t = company BY <1>1 DEF Effect, OneStream, link
<1>2. CASE t # company
  <2>1. \A u \in Companies : sock'[u] # "closed" => u = t BY <1>2 DEF Effect
  <2>2. \A u \in Companies : ~timer'[u]
    BY <1>2, LiveConsoleAssumption DEF Effect, Cleaned, OneStream, TypeOK
  <2>3. company' = t BY DEF Effect
  <2>4. QED BY <2>1, <2>2, <2>3 DEF OneStream
<1>3. QED BY <1>1, <1>2

LEMMA StreamStep == TypeOK /\ OneStream /\ [Next]_vars => OneStream'
<1> SUFFICES ASSUME TypeOK, OneStream, [Next]_vars PROVE OneStream' OBVIOUS
<1>1. UNCHANGED <<sock, timer, company>> => OneStream' BY DEF OneStream
<1>2. ASSUME NEW t \in Companies, SocketStep(t) \/ Drop(t) PROVE OneStream'
  <2>1. sock[t] # "closed" \/ timer[t]
    BY <1>2 DEF SocketStep, Accept, Subscribe, Reject, Reconnect, Drop
  <2>2. t = company BY <2>1 DEF OneStream
  <2>3. \A u \in Companies \ {t} : sock'[u] = sock[u] /\ timer'[u] = timer[u]
    BY <1>2 DEF SocketStep, Accept, Subscribe, Reject, Reconnect, Drop, Closed, TypeOK
  <2>4. company' = company
    BY <1>2 DEF SocketStep, Accept, Subscribe, Reject, Reconnect, Drop
  <2>5. QED BY <2>2, <2>3, <2>4 DEF OneStream
<1>3. ASSUME NEW t \in Companies \union {NoCompany}, Select(t) \/ SignIn(t) PROVE OneStream'
  BY <1>3, EffectKeepsOneStream DEF Select, SignIn
<1>4. CASE SignOut BY <1>4, EffectKeepsOneStream DEF SignOut
<1>5. ASSUME NEW t \in Companies,
             \/ CommitRow(t) \/ Announce(t) \/ AnnounceProposal(t) \/ CommitApproval(t)
             \/ CommitRollback(t) \/ Arrive(t) \/ Respond(t) \/ FailFetch(t) \/ ShowList(t)
             \/ Decide(t) \/ Rollback(t) \/ Answer(t) \/ ClickRefused(t)
      PROVE  OneStream'
  BY <1>1, <1>5
  DEF CommitRow, Announce, AnnounceProposal, CommitApproval, CommitRollback, Arrive, Respond, Serve,
      Refuse, FailFetch, ShowList, Decide, Rollback, Answer, ClickRefused, link
<1>6. CASE Late \/ ExpireSession BY <1>1, <1>6 DEF Late, ExpireSession, link
<1>7. CASE UNCHANGED vars BY <1>1, <1>7 DEF vars, link
<1>8. QED BY <1>2, <1>3, <1>4, <1>5, <1>6, <1>7 DEF Next

\* Only the selected company has a socket or a reconnect to come.
THEOREM OneStreamOnly == Spec => []OneStream
<1>1. Init => OneStream BY DEF Init, OneStream
<1>2. TypeInv => TypeOK BY DEF TypeInv
<1>3. QED BY <1>1, <1>2, StreamStep, TypeCorrect, PTL DEF Spec

-----------------------------------------------------------------------------
\* A message tells of what was committed when it was sent.
LEMMA ToldStep == TypeInv /\ TypeInv' /\ Told /\ [Next]_vars => Told'
<1> SUFFICES ASSUME TypeInv, TypeInv', Told, [Next]_vars PROVE Told' OBVIOUS
<1>a. /\ data \in [Companies -> Nat] /\ data' \in [Companies -> Nat]
      /\ heard \in [Companies -> Nat] /\ heard' \in [Companies -> Nat]
      /\ pushed \in [Companies -> [Versions -> Nat]]
  BY Bounds DEF TypeInv, TypeOK
<1>b. Versions \subseteq Nat BY Bounds
<1>1. (\A t \in Companies : data'[t] >= data[t]) /\ UNCHANGED <<heard, pushed>> => Told'
  BY <1>a, <1>b DEF Told
<1>2. UNCHANGED <<data, heard>> /\ (\A t \in Companies : pushed'[t] = pushed[t] \/ pushed'[t] = NoneAtAll[t])
        => Told'
  BY <1>a, <1>b DEF Told, NoneAtAll
<1>3. ASSUME NEW t \in Companies,
             \/ CommitRow(t) \/ CommitApproval(t) \/ CommitRollback(t) \/ Decide(t) \/ Rollback(t)
      PROVE  Told'
  <2>1. data' = Bump(data, t) /\ UNCHANGED <<heard, pushed>>
    BY <1>3 DEF CommitRow, CommitApproval, CommitRollback, Decide, Rollback, link, history
  <2>2. QED BY <1>1, <1>a, <2>1 DEF Bump
<1>4. ASSUME NEW t \in Companies, Announce(t) \/ AnnounceProposal(t) PROVE Told'
  <2>1. UNCHANGED <<data, heard>> BY <1>4 DEF Announce, AnnounceProposal
  <2>2. pushed' = pushed \/ pushed' = [pushed EXCEPT ![t][data[t]] = @ + 1]
    BY <1>4 DEF Announce, AnnounceProposal, Broadcast
  <2>3. \A u \in Companies, n \in Versions :
          pushed'[u][n] = pushed[u][n] \/ (u = t /\ n = data[t])
    BY <1>a, <2>2
  <2>4. \A u \in Companies, n \in Versions : pushed'[u][n] > 0 => n <= data[u]
    <3> SUFFICES ASSUME NEW u \in Companies, NEW n \in Versions, pushed'[u][n] > 0
                 PROVE  n <= data[u]
      OBVIOUS
    <3>1. CASE pushed'[u][n] = pushed[u][n] BY <3>1 DEF Told
    <3>2. CASE u = t /\ n = data[t]
      <4>1. data[t] \in Nat BY <1>a
      <4>2. QED BY <3>2, <4>1
    <3>3. QED BY <2>3, <3>1, <3>2
  <2>5. QED BY <2>1, <2>4 DEF Told
<1>5. ASSUME NEW t \in Companies, Arrive(t) PROVE Told'
  <2>1. PICK n \in Versions :
          /\ pushed[t][n] > 0 /\ pushed' = [pushed EXCEPT ![t][n] = @ - 1]
          /\ heard' = [heard EXCEPT ![t] = Newer(@, n)]
          /\ UNCHANGED server
    BY <1>5 DEF Arrive
  <2>2. data' = data BY <2>1 DEF server
  <2>3. \A u \in Companies, m \in Versions : pushed'[u][m] > 0 => pushed[u][m] > 0
    BY <1>a, <1>b, <2>1
  <2>4. n \in Nat /\ n <= data[t] /\ heard[t] <= data[t] BY <1>b, <2>1 DEF Told
  <2>5. Newer(heard[t], n) <= data[t] BY <1>a, <2>4 DEF Newer
  <2>6. \A u \in Companies : heard'[u] <= data[u] BY <1>a, <2>1, <2>5 DEF Told
  <2>7. QED BY <2>2, <2>3, <2>6 DEF Told
<1>6. ASSUME NEW t \in Companies, SocketStep(t) \/ Drop(t) PROVE Told'
  <2>1. UNCHANGED <<data, heard>>
    BY <1>6 DEF SocketStep, Accept, Subscribe, Reject, Reconnect, Drop, server, history
  <2>2. pushed' = pushed \/ pushed' = [pushed EXCEPT ![t] = NoneAtAll[t]]
    BY <1>6 DEF SocketStep, Accept, Subscribe, Reject, Reconnect, Drop, Closed
  <2>3. QED BY <1>2, <1>a, <2>1, <2>2
<1>7. ASSUME SignOut \/ \E t \in Companies \union {NoCompany} : Select(t) \/ SignIn(t) PROVE Told'
  <2>1. UNCHANGED <<data, heard>> BY <1>7 DEF SignOut, Select, SignIn, server, history
  <2>2. pushed' = pushed \/ pushed' = NoneAtAll BY <1>7 DEF SignOut, Select, SignIn, Effect, link
  <2>3. QED BY <1>2, <2>1, <2>2
<1>8. ASSUME NEW t \in Companies,
             \/ Respond(t) \/ FailFetch(t) \/ ShowList(t) \/ Answer(t) \/ ClickRefused(t)
      PROVE  Told'
  <2>1. UNCHANGED <<data, heard, pushed>>
    BY <1>8 DEF Respond, Serve, Refuse, FailFetch, ShowList, Answer, ClickRefused, server, link, history
  <2>2. QED BY <1>2, <2>1
<1>9. CASE Late \/ ExpireSession \/ UNCHANGED vars
  <2>1. UNCHANGED <<data, heard, pushed>> BY <1>9 DEF Late, ExpireSession, vars, server, link, history
  <2>2. QED BY <1>2, <2>1
<1>10. QED BY <1>3, <1>4, <1>5, <1>6, <1>7, <1>8, <1>9 DEF Next

-----------------------------------------------------------------------------
\* Nothing the page has heard of is forgotten.
LEMMA RememberedStep == TypeInv /\ TypeInv' /\ Told /\ Remembered /\ [Next]_vars => Remembered'
<1> SUFFICES ASSUME TypeInv, TypeInv', Told, Remembered, [Next]_vars PROVE Remembered' OBVIOUS
<1>a. /\ data \in [Companies -> Versions] /\ heard \in [Companies -> Versions]
      /\ seen \in [Companies -> Versions] /\ missed \in [Companies -> Versions]
      /\ asked \in [Companies -> Nat] /\ served \in [Companies -> [Versions -> Nat]]
      /\ asked' \in [Companies -> Nat]
  BY DEF TypeInv, TypeOK
<1>b. Versions \subseteq Nat BY Bounds
<1>1. UNCHANGED <<company, heard, seen, missed, served>> /\ (\A t \in Companies : asked'[t] >= asked[t])
        => Remembered'
  BY <1>a DEF Remembered
<1>2. company' \in Companies /\ asked'[company'] > 0 => Remembered' BY DEF Remembered
<1>3. ASSUME NEW t \in Companies, Arrive(t) \/ Answer(t) PROVE Remembered'
  <2>1. asked' = Bump(asked, t) /\ company' = company
    BY <1>3 DEF Arrive, Answer, Load
  <2>2. asked'[t] = asked[t] + 1 /\ \A u \in Companies \ {t} : asked'[u] = asked[u]
    BY <1>a, <2>1 DEF Bump
  <2>3. CASE t = company BY <1>2, <1>a, <2>1, <2>2, <2>3
  <2>4. CASE t # company
    <3>1. \A u \in Companies \ {t} : heard'[u] = heard[u]
      BY <1>3, <1>a DEF Arrive, Answer, history
    <3>2. UNCHANGED <<seen, missed, served>> BY <1>3 DEF Arrive, Answer, history
    <3>3. QED BY <2>1, <2>2, <2>4, <3>1, <3>2 DEF Remembered
  <2>5. QED BY <2>3, <2>4
<1>4. ASSUME NEW t \in Companies, Serve(t) PROVE Remembered'
  <2>1. served' = [served EXCEPT ![t][data[t]] = @ + 1] /\ asked' = Drain(asked, t)
        /\ UNCHANGED <<company, heard, seen, missed>>
    BY <1>4 DEF Serve, history
  <2>2. CASE t = company
    <3>a. data[t] \in Versions /\ data[t] \in Nat /\ heard[t] \in Nat /\ heard[t] <= data[t]
      BY <1>a, <1>b DEF Told
    <3>b. served'[t][data[t]] = served[t][data[t]] + 1 /\ served[t][data[t]] \in Nat
      BY <1>a, <2>1, <3>a
    <3>1. data[t] \in Versions /\ data[t] >= heard[t] /\ served'[t][data[t]] > 0
      BY <3>a, <3>b
    <3>2. QED BY <2>1, <2>2, <3>1 DEF Remembered
  <2>3. CASE t # company
    <3>1. \A u \in Companies \ {t} : asked'[u] = asked[u] /\ served'[u] = served[u]
      BY <1>a, <2>1 DEF Drain
    <3>2. QED BY <2>1, <2>3, <3>1 DEF Remembered
  <2>4. QED BY <2>2, <2>3
<1>5. ASSUME NEW t \in Companies, Refuse(t) \/ FailFetch(t) PROVE Remembered'
  <2>1. /\ missed' = [missed EXCEPT ![t] = Newer(@, heard[t])] /\ asked' = Drain(asked, t)
        /\ UNCHANGED <<company, heard, seen, served>>
    BY <1>5 DEF Refuse, FailFetch, Fails
  <2>2. CASE t = company
    <3>a. missed'[t] = Newer(missed[t], heard[t]) BY <1>a, <2>1
    <3>b. missed[t] \in Nat /\ heard[t] \in Nat BY <1>a, <1>b
    <3>1. heard[t] <= missed'[t] BY <3>a, <3>b DEF Newer
    <3>2. QED BY <2>1, <2>2, <3>1 DEF Remembered
  <2>3. CASE t # company
    <3>1. \A u \in Companies \ {t} : asked'[u] = asked[u] /\ missed'[u] = missed[u]
      BY <1>a, <2>1 DEF Drain
    <3>2. QED BY <2>1, <2>3, <3>1 DEF Remembered
  <2>4. QED BY <2>2, <2>3
<1>6. ASSUME NEW t \in Companies, ShowList(t) PROVE Remembered'
  <2>1. PICK n \in Versions :
          /\ served[t][n] > 0 /\ served' = [served EXCEPT ![t][n] = @ - 1]
          /\ seen' = [seen EXCEPT ![t] = Newer(@, n)]
          /\ UNCHANGED <<company, asked, heard, missed>>
    BY <1>6 DEF ShowList
  <2>2. CASE t = company
    <3>a. seen'[t] = Newer(seen[t], n) BY <1>a, <2>1
    <3>b. seen[t] \in Nat /\ n \in Nat BY <1>a, <1>b
    <3>1. seen'[t] >= seen[t] /\ seen'[t] >= n BY <3>a, <3>b DEF Newer
    <3>2. /\ heard'[t] = heard[t] /\ heard[t] \in Nat /\ seen[t] \in Nat /\ seen'[t] \in Nat /\ n \in Nat
      BY <1>a, <1>b, <2>1, NewerType
    <3>3. \A m \in Versions \ {n} : served'[t][m] = served[t][m] BY <1>a, <2>1
    <3>4. CASE heard[t] <= n
      <4>1. heard'[t] <= seen'[t] BY <3>1, <3>2, <3>4
      <4>2. QED BY <2>1, <2>2, <4>1 DEF Remembered
    <3>5. CASE ~(heard[t] <= n)
      <4>1. CASE heard[t] <= seen[t]
        <5>1. heard'[t] <= seen'[t] BY <3>1, <3>2, <4>1
        <5>2. QED BY <2>1, <2>2, <5>1 DEF Remembered
      <4>2. CASE heard[t] <= missed[t] \/ asked[t] > 0 BY <2>1, <2>2, <4>2 DEF Remembered
      <4>3. CASE \E m \in Versions : m >= heard[t] /\ served[t][m] > 0
        <5>1. PICK m \in Versions : m >= heard[t] /\ served[t][m] > 0 BY <4>3
        <5>2. m # n BY <1>b, <3>2, <3>5, <5>1
        <5>3. m >= heard'[t] /\ served'[t][m] > 0 BY <3>2, <3>3, <5>1, <5>2
        <5>4. QED BY <2>1, <2>2, <5>3 DEF Remembered
      <4>4. QED BY <2>2, <4>1, <4>2, <4>3 DEF Remembered
    <3>6. QED BY <3>4, <3>5
  <2>3. CASE t # company
    <3>1. \A u \in Companies \ {t} : served'[u] = served[u] /\ seen'[u] = seen[u]
      BY <1>a, <2>1
    <3>2. QED BY <2>1, <2>3, <3>1 DEF Remembered
  <2>4. QED BY <2>2, <2>3
<1>7. ASSUME NEW t \in Companies \union {NoCompany}, Select(t) \/ SignIn(t) PROVE Remembered'
  <2>1. company' = t BY <1>7 DEF Select, SignIn, Effect
  <2>2. CASE t = NoCompany BY <2>1, <2>2, LiveConsoleAssumption DEF Remembered
  <2>3. CASE t \in Companies
    <3>1. asked'[t] > 0 BY <1>7, <1>a, <2>3, LiveConsoleAssumption DEF Select, SignIn, Remount, Bump
    <3>2. QED BY <1>2, <2>1, <2>3, <3>1
  <2>4. QED BY <2>2, <2>3
<1>8. CASE SignOut BY <1>8, LiveConsoleAssumption DEF SignOut, Effect, Remembered
<1>9. ASSUME NEW t \in Companies,
             \/ CommitRow(t) \/ Announce(t) \/ AnnounceProposal(t) \/ CommitApproval(t)
             \/ CommitRollback(t) \/ Decide(t) \/ Rollback(t) \/ SocketStep(t) \/ Drop(t)
             \/ ClickRefused(t)
      PROVE  Remembered'
  <2>1. UNCHANGED <<company, heard, seen, missed, served, asked>>
    BY <1>9
    DEF CommitRow, Announce, AnnounceProposal, CommitApproval, CommitRollback, Decide, Rollback,
        SocketStep, Accept, Subscribe, Reject, Reconnect, Drop, ClickRefused, requests, history
  <2>2. QED BY <1>1, <1>a, <2>1
<1>10. CASE Late \/ ExpireSession \/ UNCHANGED vars
  <2>1. UNCHANGED <<company, heard, seen, missed, served, asked>>
    BY <1>10 DEF Late, ExpireSession, vars, requests, history
  <2>2. QED BY <1>1, <1>a, <2>1
<1>11. QED BY <1>3, <1>4, <1>5, <1>6, <1>7, <1>8, <1>9, <1>10 DEF Next, Respond

\* Of what the selected company's page has heard, it has shown it, or has said
\* that a load failed, or a request or a response is out that will show it.
THEOREM NothingForgotten == Spec => []ConsoleInv
<1>1. Init => Told /\ Remembered
  BY Bounds DEF Init, Told, Remembered, None, NoneAtAll
<1>2. TypeInv /\ Told /\ Remembered <=> ConsoleInv BY DEF ConsoleInv, TypeInv
<1>3. QED BY <1>1, <1>2, ToldStep, RememberedStep, TypeCorrect, PTL DEF Spec

=============================================================================
