----------------------------- MODULE AccessProofs -----------------------------
(***************************************************************************)
(* Proofs about a browser's session (Access) for every set of browsers,    *)
(* users and requests at once and every bound: who may be signed in, as    *)
(* whom, and that neither a flow nor an id from before a sign-in is used   *)
(* again; and about the events that its open pages are sent (EventStream), *)
(* for every number of pages and jobs and every capacity of the channel.   *)
(***************************************************************************)
EXTENDS Access, EventStream, TLAPS

LEMMA NoneIsNone == None \notin Id /\ None \notin Flow /\ None \notin User /\ None \notin Browser
BY AccessAssumption DEF Id, Flow

LEMMA BlankType == Blank \in Data /\ Blank.user = None /\ Blank.flow = None
BY DEF Blank, Data

LEMMA IdleType ==
    /\ Idle \in RequestRow
    /\ Idle.at = "idle" /\ Idle.id = None /\ Idle.data = Blank /\ Idle.held = None /\ Idle.who = None
BY BlankType DEF Idle, RequestRow

LEMMA AbsentType ==
    /\ Absent \in [is : {"absent", "live", "expired"}, data : Data]
    /\ Absent.is = "absent" /\ Absent.data = Blank
BY BlankType DEF Absent

\* An idle slot has nothing that could be unsound.
LEMMA IdleIsSound == SoundRequest(Idle)
BY IdleType, BlankType DEF SoundRequest, OwnData

LEMMA InitIInv == Init => IInv
<1>. SUFFICES ASSUME Init PROVE IInv
  OBVIOUS
<1>1. TypeOK
  BY AccessAssumption, AbsentType, IdleType DEF Init, TypeOK
<1>2. \A i \in Id : SoundRow(i)
  BY AbsentType, BlankType DEF Init, SoundRow
<1>3. \A b \in Browser : SoundCookie(b)
  BY DEF Init, SoundCookie
<1>4. \A r \in Request : SoundRequest(req[r])
  BY IdleIsSound DEF Init
<1>5. \A f \in Flow : SoundFlow(f)
  BY DEF Init, SoundFlow
<1>6. taken \subseteq 1..flows /\ anonymous \subseteq 1..ids
  BY DEF Init
<1>. QED BY <1>1, <1>2, <1>3, <1>4, <1>5, <1>6 DEF IInv

-----------------------------------------------------------------------------
\* Who began a flow and who signed in for it is never altered once it is known.
FlowsStay == \A f \in Flow :
    /\ flow[f].by # None => flow'[f].by = flow[f].by
    /\ flow[f].user # None => flow'[f].user = flow[f].user

LEMMA OwnDataStays ==
    ASSUME TypeOK, FlowsStay, NEW b \in Browser, NEW d \in Data, OwnData(b, d)
    PROVE  OwnData(b, d)'
BY NoneIsNone DEF FlowsStay, OwnData, Data

LEMMA WhoAndHeldStay ==
    ASSUME TypeOK, FlowsStay, NEW q \in RequestRow, q.by \in Browser,
           OwnData(q.by, [user |-> q.who, flow |-> q.held])
    PROVE  OwnData(q.by, [user |-> q.who, flow |-> q.held])'
<1>1. [user |-> q.who, flow |-> q.held] \in Data
  BY DEF RequestRow, Data
<1>. QED BY <1>1, OwnDataStays

\* Steps that only take away: rows go or expire, cookies go.
Withering ==
    /\ FlowsStay /\ \A f \in Flow : SoundFlow(f)'
    /\ \A i \in Id : \/ row'[i] = row[i]
                     \/ row'[i] = Absent
                     \/ row[i].is # "absent" /\ row'[i].is = "expired" /\ row'[i].data = row[i].data
    /\ \A b \in Browser : cookie'[b] \in {cookie[b], None}
    /\ UNCHANGED <<taken, anonymous, ids, flows>>

LEMMA RowsWither == ASSUME IInv, TypeOK', Withering PROVE \A i \in Id : SoundRow(i)'
<1>. SUFFICES ASSUME NEW i \in Id PROVE SoundRow(i)'
  OBVIOUS
<1>1. \A j \in Id : row'[j].data = row[j].data \/ row'[j].data.flow = None
  BY AbsentType, BlankType DEF Withering
<1>2. SoundRow(i)
  BY DEF IInv
<1>3. CASE row'[i] = Absent
  BY <1>3, AbsentType, BlankType DEF SoundRow
<1>4. CASE row'[i].data = row[i].data /\ (row'[i].is = "absent" <=> row[i].is = "absent")
  BY <1>1, <1>2, <1>4 DEF SoundRow, Withering
<1>. QED BY <1>3, <1>4 DEF Withering

LEMMA CookiesWither == ASSUME IInv, TypeOK', Withering PROVE \A b \in Browser : SoundCookie(b)'
<1>. SUFFICES ASSUME NEW b \in Browser, cookie'[b] # None PROVE SoundCookie(b)'
  BY DEF SoundCookie
<1>1. cookie'[b] = cookie[b] /\ cookie[b] \in Id /\ SoundCookie(b)
  BY DEF Withering, IInv, TypeOK
<1>2. \A c \in Browser : cookie'[c] = cookie'[b] => c = b
  BY <1>1 DEF SoundCookie, Withering
<1>3. ASSUME row'[cookie[b]].is = "live" PROVE OwnData(b, row[cookie[b]].data)'
  <2>1. row'[cookie[b]] = row[cookie[b]]
    BY <1>1, <1>3, AbsentType DEF Withering
  <2>2. OwnData(b, row[cookie[b]].data) /\ row[cookie[b]].data \in Data
    BY <1>1, <1>3, <2>1 DEF SoundCookie, IInv, TypeOK
  <2>3. row'[cookie'[b]].data = row[cookie[b]].data
    BY <1>1, <2>1
  <2>. QED BY <2>2, <2>3, OwnDataStays DEF IInv, Withering, OwnData
<1>4. cookie'[b] <= ids'
  BY <1>1 DEF SoundCookie, Withering
<1>. QED BY <1>1, <1>2, <1>3, <1>4 DEF SoundCookie

\* A request that is sound before such a step is sound after it.
LEMMA RequestsWither ==
    ASSUME IInv, TypeOK', Withering, NEW q \in RequestRow, SoundRequest(q),
           q.id # None => \A s \in Request : req'[s].id = q.id => req'[s].by = q.by
    PROVE  SoundRequest(q)'
<1>1. CASE q.at = "idle"
  <2>1. q.data = Blank /\ q.held = None /\ q.who = None /\ q.id = None
    BY <1>1 DEF SoundRequest
  <2>. QED BY <1>1, <2>1, BlankType DEF SoundRequest, OwnData
<1>2. CASE q.at # "idle"
  <2>1. q.by \in Browser /\ q.data \in Data
    BY <1>2 DEF SoundRequest, RequestRow
  <2>2. OwnData(q.by, q.data)' /\ OwnData(q.by, [user |-> q.who, flow |-> q.held])'
    BY <2>1, OwnDataStays, WhoAndHeldStay DEF IInv, SoundRequest, Withering
  <2>3. q.data.flow # None => \A i \in Id : row'[i].data.flow = q.data.flow => i = q.id
    BY AbsentType, BlankType DEF SoundRequest, Withering
  <2>4. q.id # None => \A b \in Browser : cookie'[b] = q.id => b = q.by
    BY DEF SoundRequest, Withering
  <2>5. ASSUME q.id # None, row'[q.id].is = "live" PROVE OwnData(q.by, row[q.id].data)'
    <3>1. q.id \in Id /\ row'[q.id] = row[q.id]
      BY <2>5, AbsentType DEF Withering, RequestRow
    <3>2. OwnData(q.by, row[q.id].data) /\ row[q.id].data \in Data
      BY <2>5, <3>1 DEF SoundRequest, IInv, TypeOK
    <3>. QED BY <2>1, <3>1, <3>2, OwnDataStays DEF IInv, Withering, OwnData
  <2>. QED BY <2>1, <2>2, <2>3, <2>4, <2>5, <1>2 DEF SoundRequest, Withering
<1>. QED BY <1>1, <1>2

\* Such a step of one request, or of none, keeps the invariant.
LEMMA RequestWithers ==
    ASSUME IInv, TypeOK', Withering, NEW r \in Request,
           \A s \in Request : s # r => req'[s] = req[s],
           SoundRequest(req'[r])
    PROVE  IInv'
<1>1. req'[r] \in RequestRow /\ \A s \in Request : req[s] \in RequestRow
  BY DEF IInv, TypeOK
<1>2. SoundRequest(req[r])'
  <2>1. req'[r].id # None => \A s \in Request : req'[s].id = req'[r].id => req'[s].by = req'[r].by
    BY DEF SoundRequest
  <2>2. \A q \in RequestRow :
            /\ SoundRequest(q)
            /\ q.id # None => \A s \in Request : req'[s].id = q.id => req'[s].by = q.by
            => SoundRequest(q)'
    BY RequestsWither
  <2>. HIDE DEF SoundRequest
  <2>. QED BY <1>1, <2>1, <2>2
<1>3. ASSUME NEW s \in Request, s # r PROVE SoundRequest(req[s])'
  <2>1. SoundRequest(req[s]) /\ req'[s] = req[s]
    BY <1>3 DEF IInv
  <2>2. req[s].id # None => \A u \in Request : req'[u].id = req[s].id => req'[u].by = req[s].by
    BY <1>3, <2>1 DEF SoundRequest
  <2>3. \A q \in RequestRow :
            /\ SoundRequest(q)
            /\ q.id # None => \A u \in Request : req'[u].id = q.id => req'[u].by = q.by
            => SoundRequest(q)'
    BY RequestsWither
  <2>. HIDE DEF SoundRequest
  <2>. QED BY <1>1, <2>1, <2>2, <2>3
<1>4. taken' \subseteq 1..flows' /\ anonymous' \subseteq 1..ids'
  BY DEF Withering, IInv
<1>. QED BY <1>2, <1>3, <1>4, RowsWither, CookiesWither DEF Withering, IInv

LEMMA OthersWither ==
    ASSUME IInv, TypeOK', Withering, UNCHANGED req
    PROVE  IInv'
<1>1. ASSUME NEW s \in Request PROVE SoundRequest(req[s])'
  <2>1. SoundRequest(req[s]) /\ req[s] \in RequestRow /\ req' = req
    BY DEF IInv, TypeOK
  <2>2. req[s].id # None => \A u \in Request : req'[u].id = req[s].id => req'[u].by = req[s].by
    BY <2>1 DEF SoundRequest
  <2>3. \A q \in RequestRow :
            /\ SoundRequest(q)
            /\ q.id # None => \A u \in Request : req'[u].id = q.id => req'[u].by = q.by
            => SoundRequest(q)'
    BY RequestsWither
  <2>. HIDE DEF SoundRequest
  <2>. QED BY <2>1, <2>2, <2>3
<1>2. taken' \subseteq 1..flows' /\ anonymous' \subseteq 1..ids'
  BY DEF Withering, IInv
<1>. QED BY <1>1, <1>2, RowsWither, CookiesWither DEF Withering, IInv

-----------------------------------------------------------------------------
\* The steps of the world: nobody's request moves.
LEMMA AuthoriseStep == ASSUME IInv, NEW f \in Flow, Authorise(f) PROVE IInv'
<1>. DEFINE FlowRow == [by : Browser \cup {None}, user : User \cup {None},
                        code : {"none", "fresh", "spent", "declined"}]
<1>0. TypeOK /\ SoundFlow(f) /\ flow \in [Flow -> FlowRow]
  BY DEF IInv, TypeOK
<1>1. PICK u \in User \cup {None}, c \in {"fresh", "declined"} :
          /\ c = "fresh" => u \in User
          /\ flow' = [flow EXCEPT ![f] = [flow[f] EXCEPT !.user = u, !.code = c]]
  <2>1. CASE \E u \in User : flow' = [flow EXCEPT ![f].user = u, ![f].code = "fresh"]
    <3>1. PICK u \in User : flow' = [flow EXCEPT ![f].user = u, ![f].code = "fresh"]
      BY <2>1
    <3>2. flow' = [flow EXCEPT ![f] = [flow[f] EXCEPT !.user = u, !.code = "fresh"]]
      BY <1>0, <3>1
    <3>. QED BY <3>2
  <2>2. CASE flow' = [flow EXCEPT ![f].code = "declined"]
    <3>1. flow[f].user = None
      BY <1>0 DEF SoundFlow, Authorise
    <3>2. [flow[f] EXCEPT !.code = "declined"]
             = [flow[f] EXCEPT !.user = None, !.code = "declined"]
      BY <1>0, <3>1
    <3>. QED BY <1>0, <2>2, <3>2
  <2>. QED BY <2>1, <2>2 DEF Authorise
<1>. DEFINE g == [flow[f] EXCEPT !.user = u, !.code = c]
<1>2. g \in FlowRow /\ g.by = flow[f].by /\ g.user = u /\ g.code = c
  BY <1>0
<1>. HIDE DEF g
<1>3. flow' \in [Flow -> FlowRow] /\ flow'[f] = g /\ \A h \in Flow \ {f} : flow'[h] = flow[h]
  BY <1>0, <1>1, <1>2 DEF g
<1>4. TypeOK'
  BY <1>0, <1>3 DEF history, Authorise, TypeOK
<1>5. flow[f].by # None /\ flow[f].user = None /\ flows' = flows
  BY <1>0 DEF Authorise, SoundFlow
<1>6. FlowsStay
  BY <1>2, <1>3, <1>5 DEF FlowsStay
<1>7. \A h \in Flow : SoundFlow(h)'
  BY <1>2, <1>3, <1>5 DEF SoundFlow, IInv
<1>. QED BY <1>4, <1>6, <1>7, OthersWither DEF history, Authorise, Withering

LEMMA SweepStep ==
    ASSUME IInv, Prune \/ (\E i \in Id : Expire(i)) \/ (\E u \in User : Revoke(u))
    PROVE  IInv'
<1>0. TypeOK
  BY DEF IInv
<1>1. CASE Prune
  <2>1. TypeOK'
    BY <1>0, <1>1, AbsentType DEF history, Prune, TypeOK
  <2>2. Withering
    BY <1>0, <1>1 DEF history, Prune, Withering, FlowsStay, IInv, SoundFlow, TypeOK
  <2>. QED BY <1>1, <2>1, <2>2, OthersWither DEF Prune
<1>2. ASSUME NEW i \in Id, Expire(i) PROVE IInv'
  <2>1. TypeOK'
    BY <1>0, <1>2, AccessAssumption DEF history, Expire, TypeOK
  <2>2. Withering
    BY <1>0, <1>2 DEF history, Expire, Withering, FlowsStay, IInv, SoundFlow, TypeOK
  <2>. QED BY <1>2, <2>1, <2>2, OthersWither DEF Expire
<1>3. ASSUME NEW u \in User, Revoke(u) PROVE IInv'
  <2>1. TypeOK'
    BY <1>0, <1>3, AbsentType, AccessAssumption DEF history, Revoke, TypeOK
  <2>2. Withering
    BY <1>0, <1>3 DEF history, Revoke, Withering, FlowsStay, IInv, SoundFlow, TypeOK
  <2>. QED BY <1>3, <2>1, <2>2, OthersWither DEF Revoke
<1>. QED BY <1>1, <1>2, <1>3

-----------------------------------------------------------------------------
\* The steps of a request that store nothing.
LEMMA SendStep ==
    ASSUME IInv, NEW r \in Request, NEW b \in Browser, Send(r, b)
    PROVE  IInv'
<1>0. TypeOK /\ SoundCookie(b) /\ b # None
  BY NoneIsNone DEF IInv
<1>1. PICK k \in {"login", "callback", "logout"}, u \in Flow \cup {None} :
          req' = [req EXCEPT ![r] = [Idle EXCEPT !.at = "sent", !.kind = k, !.by = b,
                                                 !.id = cookie[b], !.url = u]]
  BY DEF Send
<1>. DEFINE q == [Idle EXCEPT !.at = "sent", !.kind = k, !.by = b, !.id = cookie[b], !.url = u]
<1>2. /\ q \in RequestRow /\ q.at = "sent" /\ q.by = b /\ q.id = cookie[b]
      /\ q.data = Blank /\ q.held = None /\ q.who = None
  BY <1>0, IdleType, BlankType DEF Idle, RequestRow, TypeOK
<1>. HIDE DEF q
<1>3. req' = [req EXCEPT ![r] = q]
  BY <1>1 DEF q
<1>4. TypeOK'
  BY <1>0, <1>2, <1>3 DEF history, Send, TypeOK
<1>5. cookie[b] # None => \A s \in Request : req[s].id = cookie[b] => req[s].by = b
  BY <1>0 DEF IInv, SoundRequest
<1>6. SoundRequest(q)
  BY <1>0, <1>2, <1>5, BlankType DEF SoundRequest, SoundCookie, OwnData, TypeOK
<1>7. Withering
  BY <1>0 DEF history, Send, Withering, FlowsStay, IInv, SoundFlow, TypeOK
<1>8. req'[r] = q /\ \A s \in Request : s # r => req'[s] = req[s]
  BY <1>0, <1>3 DEF TypeOK
<1>. QED BY <1>4, <1>6, <1>7, <1>8, RequestWithers

LEMMA LoadStep == ASSUME IInv, NEW r \in Request, Load(r) PROVE IInv'
<1>0. TypeOK /\ SoundRequest(req[r]) /\ req[r] \in RequestRow
  BY DEF IInv, TypeOK
<1>. DEFINE q == [req[r] EXCEPT !.at = "loaded", !.id = IF Found(@) THEN @ ELSE None,
                                !.data = IF Found(req[r].id) THEN row[req[r].id].data ELSE Blank]
<1>1. req' = [req EXCEPT ![r] = q]
  BY <1>0 DEF Load, TypeOK
<1>2. /\ q.at = "loaded" /\ q.by = req[r].by /\ q.held = req[r].held /\ q.who = req[r].who
      /\ q.kind = req[r].kind /\ q.url = req[r].url
      /\ Found(req[r].id) => q.id = req[r].id /\ q.data = row[req[r].id].data
      /\ ~Found(req[r].id) => q.id = None /\ q.data = Blank
  BY <1>0 DEF RequestRow
<1>3. q \in RequestRow
  BY <1>0, BlankType DEF RequestRow, Found, TypeOK
<1>. HIDE DEF q
<1>4. TypeOK'
  BY <1>0, <1>1, <1>3 DEF history, Load, TypeOK
<1>5. req[r].by \in Browser /\ req[r].held = None /\ req[r].who = None
  BY <1>0 DEF SoundRequest, Load
<1>6. SoundRequest(q)
  <2>1. CASE Found(req[r].id)
    <3>1. req[r].id \in Id /\ row[req[r].id].is = "live" /\ SoundRow(req[r].id)
      BY <1>0, <2>1 DEF Found, RequestRow, IInv
    <3>. QED BY <1>0, <1>2, <1>5, <2>1, <3>1, NoneIsNone DEF SoundRequest, SoundRow, OwnData
  <2>2. CASE ~Found(req[r].id)
    BY <1>2, <1>5, <2>2, BlankType DEF SoundRequest, OwnData
  <2>. QED BY <2>1, <2>2
<1>7. Withering
  BY <1>0 DEF history, Load, Withering, FlowsStay, IInv, SoundFlow, TypeOK
<1>8. req'[r] = q /\ \A s \in Request : s # r => req'[s] = req[s]
  BY <1>0, <1>1 DEF TypeOK
<1>. QED BY <1>4, <1>6, <1>7, <1>8, RequestWithers

LEMMA ExchangeStep == ASSUME IInv, NEW r \in Request, Exchange(r) PROVE IInv'
<1>0. TypeOK /\ SoundRequest(req[r]) /\ req[r] \in RequestRow
  BY DEF IInv, TypeOK
<1>1. req[r].held \in Flow /\ req[r].held = req[r].url /\ req[r].held # None
  BY <1>0 DEF Exchange, Matches, RequestRow
<1>. DEFINE f == req[r].held
            q == [req[r] EXCEPT !.at = "verified", !.who = flow[f].user]
<1>2. req' = [req EXCEPT ![r] = q]
  BY <1>0, <1>1 DEF Exchange, TypeOK
<1>3. q \in RequestRow
  BY <1>0, <1>1 DEF RequestRow, TypeOK
<1>4. /\ q.at = "verified" /\ q.by = req[r].by /\ q.held = f /\ q.who = flow[f].user
      /\ q.id = req[r].id /\ q.data = req[r].data
  BY <1>0 DEF RequestRow
<1>. HIDE DEF q
<1>a. flow' = [flow EXCEPT ![f] = [flow[f] EXCEPT !.code = "spent"]]
  BY <1>0, <1>1 DEF Exchange, TypeOK
<1>b. [flow[f] EXCEPT !.code = "spent"] \in [by : Browser \cup {None}, user : User \cup {None},
                                            code : {"none", "fresh", "spent", "declined"}]
  BY <1>0, <1>1 DEF TypeOK
<1>c. UNCHANGED <<row, cookie, taken, anonymous, ids, flows, faults>>
  BY DEF history, Exchange
<1>d. req' \in [Request -> RequestRow] /\ f \in Flow
  BY <1>0, <1>1, <1>2, <1>3 DEF TypeOK
<1>. HIDE DEF f
<1>e. flow' \in [Flow -> [by : Browser \cup {None}, user : User \cup {None},
                          code : {"none", "fresh", "spent", "declined"}]]
  BY <1>0, <1>a, <1>b, <1>d DEF TypeOK
<1>5. TypeOK'
  BY <1>0, <1>c, <1>d, <1>e DEF TypeOK
<1>. USE DEF f
<1>6. flow[f].by = req[r].by
  BY <1>0, <1>1 DEF SoundRequest, OwnData
<1>7. OwnData(q.by, [user |-> q.who, flow |-> q.held])
  BY <1>1, <1>4, <1>6 DEF OwnData
<1>8. SoundRequest(q)
  BY <1>0, <1>4, <1>7 DEF SoundRequest, Exchange
<1>9. Withering
  BY <1>0, <1>1, <1>6 DEF history, Exchange, Withering, FlowsStay, IInv, SoundFlow, TypeOK
<1>10. req'[r] = q /\ \A s \in Request : s # r => req'[s] = req[s]
  BY <1>0, <1>2 DEF TypeOK
<1>. QED BY <1>5, <1>8, <1>9, <1>10, RequestWithers

LEMMA CycleStep == ASSUME IInv, NEW r \in Request, Cycle(r) PROVE IInv'
<1>0. TypeOK /\ SoundRequest(req[r]) /\ req[r] \in RequestRow
  BY DEF IInv, TypeOK
<1>. DEFINE q == [req[r] EXCEPT !.at = "cycled", !.id = None]
<1>1. req' = [req EXCEPT ![r] = q]
  BY <1>0 DEF Cycle, TypeOK
<1>2. q \in RequestRow
  BY <1>0 DEF RequestRow
<1>3. /\ q.at = "cycled" /\ q.by = req[r].by /\ q.held = req[r].held /\ q.who = req[r].who
      /\ q.id = None /\ q.data = req[r].data
  BY <1>0 DEF RequestRow
<1>. HIDE DEF q
<1>4. row' \in [Id -> [is : {"absent", "live", "expired"}, data : Data]]
      /\ \A i \in Id : row'[i] \in {row[i], Absent}
  BY <1>0, AbsentType DEF Cycle, Deleted, TypeOK, RequestRow
<1>5. TypeOK'
  BY <1>0, <1>1, <1>2, <1>4 DEF history, Cycle, TypeOK
<1>6. req[r].data.flow = None /\ req[r].who \in Allowed
  BY <1>0 DEF Cycle, SoundRequest, Permits
<1>7. SoundRequest(q)
  BY <1>0, <1>3, <1>6 DEF SoundRequest, Cycle
<1>8. Withering
  BY <1>0, <1>4 DEF history, Cycle, Withering, FlowsStay, IInv, SoundFlow, TypeOK
<1>9. req'[r] = q /\ \A s \in Request : s # r => req'[s] = req[s]
  BY <1>0, <1>1 DEF TypeOK
<1>. QED BY <1>5, <1>7, <1>8, <1>9, RequestWithers

\* A request that is over, and has stored nothing with its answer.
LEMMA OverStep ==
    ASSUME IInv, NEW r \in Request, req' = [req EXCEPT ![r] = Idle],
           \/ Fail(r) \/ Logout(r)
           \/ /\ cookie' = [cookie EXCEPT ![req[r].by] = None]
              /\ UNCHANGED <<row, ids, anonymous, flow, taken, flows, faults>>
    PROVE  IInv'
<1>0. TypeOK /\ req[r] \in RequestRow
  BY DEF IInv, TypeOK
<1>1. row' \in [Id -> [is : {"absent", "live", "expired"}, data : Data]]
      /\ \A i \in Id : row'[i] \in {row[i], Absent}
  BY <1>0, AbsentType DEF history, Fail, Logout, Deleted, TypeOK, RequestRow
<1>2. cookie' \in [Browser -> Id \cup {None}] /\ \A b \in Browser : cookie'[b] \in {cookie[b], None}
  BY <1>0 DEF history, Fail, Logout, TypeOK
<1>3. faults' \in 0..MaxFaults
  BY <1>0, AccessAssumption DEF history, Fail, Logout, TypeOK
<1>4. TypeOK' /\ UNCHANGED <<flow, taken, anonymous, ids, flows>>
  BY <1>0, <1>1, <1>2, <1>3, IdleType DEF history, Fail, Logout, TypeOK
<1>5. Withering
  BY <1>0, <1>1, <1>2, <1>4 DEF Withering, FlowsStay, IInv, SoundFlow
<1>6. req'[r] = Idle /\ \A s \in Request : s # r => req'[s] = req[s]
  BY <1>0 DEF TypeOK
<1>. QED BY <1>4, <1>5, <1>6, IdleIsSound, RequestWithers
-----------------------------------------------------------------------------
\* What a step that stores a session alters: one row, of the request's own id or of a fresh one.
LEMMA StoreFacts ==
    ASSUME TypeOK, NEW r \in Request, NEW d \in Data, Store(r, d), NEW i, i = IdFor(r)
    PROVE  /\ i \in Id /\ ids <= ids' /\ ids' \in 0..MaxIds
           /\ req[r].id # None => i = req[r].id /\ ids' = ids
           /\ req[r].id = None => i = ids + 1 /\ ids' = i
           /\ row' \in [Id -> [is : {"absent", "live", "expired"}, data : Data]]
           /\ row'[i].is = "live" /\ row'[i].data = d
           /\ \A j \in Id \ {i} : row'[j] = row[j]
           /\ anonymous' \subseteq Id
           /\ \A j \in Id \ {i} : j \in anonymous' <=> j \in anonymous
           /\ i \in anonymous' <=> d.user = None \/ i \in anonymous
<1>1. req[r].id \in Id \cup {None} /\ ids \in Nat /\ ids <= MaxIds /\ MaxIds \in Nat
  BY AccessAssumption DEF TypeOK, RequestRow
<1>2. i \in Id /\ (req[r].id # None => i = req[r].id) /\ (req[r].id = None => i = ids + 1)
  BY <1>1, NoneIsNone DEF IdFor, Id, Store
<1>3. ids' = IF req[r].id = None THEN ids + 1 ELSE ids
  BY DEF Store
<1>4. row' = [row EXCEPT ![i] = [is |-> "live", data |-> d]]
  BY DEF Store
<1>5. anonymous' = IF d.user = None THEN anonymous \cup {i} ELSE anonymous
  BY DEF Store
<1>6. row' \in [Id -> [is : {"absent", "live", "expired"}, data : Data]]
  BY <1>2, <1>4 DEF TypeOK
<1>7. /\ row'[i].is = "live" /\ row'[i].data = d
      /\ \A j \in Id \ {i} : row'[j] = row[j]
  BY <1>2, <1>4 DEF TypeOK
<1>8. anonymous' \subseteq Id
  BY <1>2, <1>5 DEF TypeOK
<1>9. ids' \in 0..MaxIds /\ ids <= ids' /\ (req[r].id = None => ids' = i)
      /\ (req[r].id # None => ids' = ids)
  BY <1>1, <1>2, <1>3 DEF Id
<1>10. /\ \A j \in Id \ {i} : j \in anonymous' <=> j \in anonymous
       /\ i \in anonymous' <=> d.user = None \/ i \in anonymous
  BY <1>5
<1>. QED BY <1>2, <1>6, <1>7, <1>8, <1>9, <1>10

\* A store of data that is the request's own: the user it had, or the one a new session begins
\* with; no flow, or the newest.
Storing(r, b, i, d) ==
    /\ d \in Data /\ Store(r, d)
    /\ b = req[r].by /\ i = IdFor(r)
    /\ req[r].at \in {"loaded", "taken", "verified", "cycled"}
    /\ FlowsStay /\ \A f \in Flow : SoundFlow(f)'
    /\ d.user \in Allowed \cup {None}
    /\ req[r].id # None => d.user = req[r].data.user
    /\ OwnData(b, d)'
    /\ flows' \in 0..MaxFlows /\ flows <= flows'
    /\ d.flow # None => d.flow = flows' /\ flows' = flows + 1 /\ taken' = taken
    /\ taken' \subseteq taken \cup ({req[r].data.flow} \ {None})
    /\ cookie' = cookie \/ cookie' = [cookie EXCEPT ![b] = i]

LEMMA StoredIdIsOwn ==
    ASSUME IInv, NEW r \in Request, NEW b, NEW i, NEW d, Storing(r, b, i, d)
    PROVE  /\ b \in Browser /\ i <= ids'
           /\ \A c \in Browser : cookie[c] = i => c = b
           /\ \A s \in Request : req[s].id = i => req[s].by = b
           /\ i \in anonymous' <=> d.user = None
           /\ i <= ids => (i \in anonymous' <=> i \in anonymous)
<1>0. TypeOK /\ SoundRequest(req[r]) /\ d \in Data /\ Store(r, d) /\ req[r] \in RequestRow
      /\ b = req[r].by /\ i = IdFor(r)
  BY DEF IInv, TypeOK, Storing
<1>1. b \in Browser
  BY <1>0 DEF SoundRequest, Storing
<1>2. /\ i \in Id /\ ids \in Nat
      /\ req[r].id # None => i = req[r].id
      /\ req[r].id = None => i = ids + 1
      /\ i \in anonymous' <=> d.user = None \/ i \in anonymous
  BY <1>0, StoreFacts DEF TypeOK
<1>a. i <= ids'
  <2>1. req[r].id # None => ids' = ids /\ i <= ids
    BY <1>0, StoreFacts DEF SoundRequest
  <2>2. req[r].id = None => ids' = i
    BY <1>0, StoreFacts
  <2>. QED BY <1>2, <2>1, <2>2 DEF Id
<1>3. CASE req[r].id = None
  <2>1. i > ids /\ i # None /\ i \in Nat
    BY <1>2, <1>3, NoneIsNone DEF Id
  <2>2. \A c \in Browser : cookie[c] # i
    BY <1>2, <2>1 DEF IInv, SoundCookie, TypeOK, Id
  <2>3. ASSUME NEW s \in Request PROVE req[s].id # i
    <3>1. SoundRequest(req[s])
      BY DEF IInv
    <3>2. req[s].id # None => req[s].id <= ids
      BY <3>1 DEF SoundRequest
    <3>. QED BY <1>2, <2>1, <3>2
  <2>4. i \notin anonymous
    <3>1. anonymous \subseteq 1..ids
      BY DEF IInv
    <3>. QED BY <1>2, <2>1, <3>1
  <2>. QED BY <1>1, <1>2, <1>a, <2>2, <2>3, <2>4
<1>4. CASE req[r].id # None
  <2>1. i = req[r].id
    BY <1>2, <1>4
  <2>2. req[r].at # "cycled"
    BY <1>0, <1>4 DEF SoundRequest
  <2>3. d.user = None <=> i \in anonymous
    BY <1>0, <1>4, <2>1, <2>2 DEF SoundRequest, Storing
  <2>. QED BY <1>0, <1>1, <1>2, <1>a, <1>4, <2>1, <2>3 DEF SoundRequest
<1>. QED BY <1>3, <1>4

LEMMA RowsStored ==
    ASSUME IInv, NEW r \in Request, NEW b, NEW i, NEW d, Storing(r, b, i, d)
    PROVE  \A j \in Id : SoundRow(j)'
<1>0. TypeOK /\ SoundRequest(req[r]) /\ d \in Data /\ Store(r, d) /\ req[r] \in RequestRow
      /\ b = req[r].by /\ i = IdFor(r)
  BY DEF IInv, TypeOK, Storing
<1>1. /\ i \in Id /\ i <= ids' /\ ids <= ids' /\ ids' \in Nat /\ ids \in Nat
      /\ req[r].id # None => i = req[r].id
      /\ req[r].id = None => i = ids + 1
      /\ row' \in [Id -> [is : {"absent", "live", "expired"}, data : Data]]
      /\ row'[i].is = "live" /\ row'[i].data = d
      /\ \A j \in Id \ {i} : row'[j] = row[j]
      /\ \A j \in Id \ {i} : j \in anonymous' <=> j \in anonymous
  BY <1>0, StoreFacts, StoredIdIsOwn DEF TypeOK
<1>2. i \in anonymous' <=> d.user = None
  BY StoredIdIsOwn
<1>3. flows \in Nat /\ flows' \in Nat /\ flows <= flows' /\ taken \subseteq 1..flows
  BY DEF Storing, IInv, TypeOK
<1>4. \A j \in Id : row[j].data.flow \in Flow \cup {None} /\ SoundRow(j)
  BY <1>0 DEF TypeOK, Data, IInv
<1>5. SoundRow(i)'
  <2>1. d.flow # None =>
           /\ d.flow <= flows' /\ d.flow \notin taken'
           /\ \A j \in Id : row'[j].data.flow = d.flow => j = i
    <3>. SUFFICES ASSUME d.flow # None
                  PROVE  /\ d.flow <= flows' /\ d.flow \notin taken'
                         /\ \A j \in Id : row'[j].data.flow = d.flow => j = i
      OBVIOUS
    <3>1. d.flow = flows + 1 /\ flows' = flows + 1 /\ taken' = taken
      BY DEF Storing
    <3>2. \A j \in Id \ {i} : row[j].data.flow # flows + 1
      BY <1>3, <1>4, NoneIsNone, <3>1 DEF SoundRow
    <3>. QED BY <1>1, <1>3, <3>1, <3>2
  <2>2. d.user \in Allowed \cup {None}
    BY DEF Storing
  <2>. QED BY <1>1, <1>2, <2>1, <2>2 DEF SoundRow, Id
<1>6. ASSUME NEW j \in Id \ {i} PROVE SoundRow(j)'
  <2>1. row'[j] = row[j] /\ SoundRow(j) /\ (j \in anonymous' <=> j \in anonymous)
    BY <1>1, <1>4
  <2>2. j > ids' => j > ids
    BY <1>1 DEF Id
  <2>3. ASSUME row[j].data.flow # None
        PROVE  /\ row[j].data.flow <= flows' /\ row[j].data.flow \notin taken'
               /\ \A k \in Id : row'[k].data.flow = row[j].data.flow => k = j
    <3>1. row[j].data.flow \in Flow /\ row[j].data.flow <= flows /\ row[j].data.flow \notin taken
      BY <1>4, <2>1, <2>3 DEF SoundRow
    <3>2. row[j].data.flow <= flows'
      BY <1>3, <3>1 DEF Flow
    <3>3. row[j].data.flow # req[r].data.flow
      <4>. SUFFICES ASSUME row[j].data.flow = req[r].data.flow PROVE FALSE
        OBVIOUS
      <4>1. j = req[r].id
        BY <1>0, <2>3 DEF SoundRequest
      <4>. QED BY <1>1, <4>1, NoneIsNone
    <3>4. row[j].data.flow \notin taken'
      BY <3>1, <3>3 DEF Storing
    <3>5. row[j].data.flow # d.flow
      BY <1>3, <2>3, <3>1 DEF Storing, Flow
    <3>6. \A k \in Id : row'[k].data.flow = row[j].data.flow => k = j
      BY <1>1, <2>1, <2>3, <3>5 DEF SoundRow
    <3>. QED BY <3>2, <3>4, <3>6
  <2>. QED BY <2>1, <2>2, <2>3 DEF SoundRow
<1>. QED BY <1>5, <1>6

LEMMA CookiesStored ==
    ASSUME IInv, NEW r \in Request, NEW b, NEW i, NEW d, Storing(r, b, i, d)
    PROVE  \A a \in Browser : SoundCookie(a)'
<1>0. TypeOK /\ d \in Data /\ Store(r, d) /\ i = IdFor(r)
  BY DEF IInv, Storing
<1>1. /\ i \in Id /\ i <= ids' /\ ids <= ids' /\ ids' \in Nat /\ ids \in Nat
      /\ row'[i].data = d
      /\ \A j \in Id \ {i} : row'[j] = row[j]
  BY <1>0, StoreFacts, StoredIdIsOwn DEF TypeOK
<1>2. b \in Browser /\ \A c \in Browser : cookie[c] = i => c = b
  BY StoredIdIsOwn
<1>3. OwnData(b, d)' /\ FlowsStay
  BY DEF Storing
<1>4. \A a \in Browser : cookie'[a] = cookie[a] \/ (a = b /\ cookie'[a] = i)
  <2>1. cookie' = cookie \/ cookie' = [cookie EXCEPT ![b] = i]
    BY DEF Storing
  <2>. QED BY <1>0, <2>1 DEF TypeOK
<1>. SUFFICES ASSUME NEW a \in Browser, cookie'[a] # None PROVE SoundCookie(a)'
  BY DEF SoundCookie
<1>5. CASE cookie'[a] = i
  <2>1. a = b
    BY <1>2, <1>4, <1>5
  <2>2. \A c \in Browser : cookie'[c] = i => c = a
    BY <1>2, <1>4, <2>1
  <2>3. row'[cookie'[a]].data = d
    BY <1>1, <1>5
  <2>4. OwnData(a, row[cookie[a]].data)'
    BY <1>3, <2>1, <2>3 DEF OwnData
  <2>. QED BY <1>1, <1>5, <2>2, <2>4 DEF SoundCookie
<1>6. CASE cookie'[a] # i
  <2>1. cookie'[a] = cookie[a] /\ cookie[a] \in Id /\ SoundCookie(a)
    BY <1>0, <1>4, <1>6 DEF IInv, TypeOK
  <2>2. cookie[a] <= ids' /\ \A c \in Browser : cookie'[c] = cookie[a] => c = a
    BY <1>1, <1>4, <1>6, <2>1 DEF SoundCookie, Id
  <2>3. row'[cookie[a]] = row[cookie[a]] /\ row[cookie[a]].data \in Data
    BY <1>0, <1>1, <1>6, <2>1 DEF TypeOK
  <2>4. row[cookie[a]].is = "live" => OwnData(a, row[cookie[a]].data)'
    <3>1. row[cookie[a]].is = "live" => OwnData(a, row[cookie[a]].data)
      BY <2>1 DEF SoundCookie
    <3>2. row'[cookie'[a]].data = row[cookie[a]].data
      BY <2>1, <2>3
    <3>. QED BY <1>0, <1>3, <2>3, <3>1, <3>2, OwnDataStays DEF OwnData
  <2>. QED BY <2>1, <2>2, <2>3, <2>4 DEF SoundCookie
<1>. QED BY <1>5, <1>6

\* The other requests agree with their rows as before.
LEMMA RequestStored ==
    ASSUME IInv, NEW r \in Request, NEW b, NEW i, NEW d, Storing(r, b, i, d),
           NEW p \in RequestRow, SoundRequest(p), p.id = i => p.by = b,
           p.id # None => \A s \in Request : req'[s].id = p.id => req'[s].by = p.by
    PROVE  SoundRequest(p)'
<1>0. TypeOK /\ d \in Data /\ Store(r, d) /\ i = IdFor(r)
  BY DEF IInv, Storing
<1>1. /\ i \in Id /\ ids <= ids' /\ ids' \in Nat /\ ids \in Nat
      /\ row' \in [Id -> [is : {"absent", "live", "expired"}, data : Data]]
      /\ row'[i].data = d
      /\ \A j \in Id \ {i} : row'[j] = row[j]
      /\ \A j \in Id \ {i} : j \in anonymous' <=> j \in anonymous
  BY <1>0, StoreFacts DEF TypeOK
<1>2. /\ b \in Browser /\ \A c \in Browser : cookie[c] = i => c = b
      /\ i <= ids => (i \in anonymous' <=> i \in anonymous)
  BY StoredIdIsOwn
<1>3. OwnData(b, d)' /\ FlowsStay /\ flows \in Nat /\ flows' \in Nat /\ flows <= flows'
  BY DEF Storing, IInv, TypeOK
<1>4. CASE p.at = "idle"
  <2>1. p.data = Blank /\ p.held = None /\ p.who = None /\ p.id = None
    BY <1>4 DEF SoundRequest
  <2>. QED BY <1>4, <2>1, BlankType DEF SoundRequest, OwnData
<1>5. CASE p.at # "idle"
  <2>1. p.by \in Browser /\ p.data \in Data /\ p.id \in Id \cup {None}
    BY <1>5 DEF SoundRequest, RequestRow
  <2>2. OwnData(p.by, p.data)' /\ OwnData(p.by, [user |-> p.who, flow |-> p.held])'
    BY <1>0, <1>3, <2>1, OwnDataStays, WhoAndHeldStay DEF SoundRequest
  <2>3. p.id # None => p.id <= ids' /\ (p.id \in anonymous' <=> p.id \in anonymous)
    <3>1. p.id # None => p.id <= ids /\ p.id \in Nat
      BY <2>1 DEF SoundRequest, Id
    <3>. QED BY <1>1, <1>2, <2>1, <3>1
  <2>4. p.data.flow # None =>
           /\ p.data.flow <= flows'
           /\ \A j \in Id : row'[j].data.flow = p.data.flow => j = p.id
    <3>. SUFFICES ASSUME p.data.flow # None
                  PROVE  /\ p.data.flow <= flows'
                         /\ \A j \in Id : row'[j].data.flow = p.data.flow => j = p.id
      OBVIOUS
    <3>1. /\ p.data.flow <= flows /\ p.data.flow \in Nat
          /\ \A j \in Id : row[j].data.flow = p.data.flow => j = p.id
      BY <2>1 DEF SoundRequest, Data, Flow
    <3>2. d.flow # p.data.flow
      BY <1>3, <3>1 DEF Storing
    <3>. QED BY <1>1, <1>3, <3>1, <3>2
  <2>5. p.id # None => \A c \in Browser : cookie'[c] = p.id => c = p.by
    <3>1. cookie' = cookie \/ cookie' = [cookie EXCEPT ![b] = i]
      BY DEF Storing
    <3>2. p.id # None => \A c \in Browser : cookie[c] = p.id => c = p.by
      BY DEF SoundRequest
    <3>. QED BY <1>0, <1>2, <3>1, <3>2 DEF TypeOK
  <2>6. ASSUME p.id # None, row'[p.id].is = "live" PROVE OwnData(p.by, row[p.id].data)'
    <3>1. CASE p.id = i
      <4>1. p.by = b /\ row'[p.id].data = d
        BY <1>1, <3>1
      <4>. QED BY <1>3, <4>1 DEF OwnData
    <3>2. CASE p.id # i
      <4>1. p.id \in Id /\ row'[p.id] = row[p.id]
        BY <1>1, <2>1, <2>6, <3>2
      <4>2. OwnData(p.by, row[p.id].data) /\ row[p.id].data \in Data
        BY <1>0, <2>6, <4>1 DEF SoundRequest, TypeOK
      <4>. QED BY <1>0, <1>3, <2>1, <4>1, <4>2, OwnDataStays DEF OwnData
    <3>. QED BY <3>1, <3>2
  <2>. QED BY <1>5, <2>1, <2>2, <2>3, <2>4, <2>5, <2>6 DEF SoundRequest
<1>. QED BY <1>4, <1>5

LEMMA TakenIsBounded ==
    ASSUME IInv, NEW r \in Request, NEW b, NEW i, NEW d, Storing(r, b, i, d)
    PROVE  taken' \subseteq 1..flows'
<1>1. taken \subseteq 1..flows /\ flows \in Nat
  BY DEF IInv, TypeOK
<1>2. flows' \in Nat /\ flows <= flows' /\ taken' \subseteq taken \cup ({req[r].data.flow} \ {None})
  BY DEF Storing
<1>3. req[r].data.flow # None => req[r].data.flow \in 1..flows
  <2>1. req[r].data.flow \in Flow \cup {None}
    BY DEF IInv, TypeOK, RequestRow, Data
  <2>2. req[r].data.flow # None => req[r].data.flow <= flows
    BY DEF IInv, SoundRequest
  <2>. QED BY <2>1, <2>2 DEF Flow
<1>. QED BY <1>1, <1>2, <1>3

\* A request that is over when it has stored its session.
LEMMA StoresAndEnds ==
    ASSUME IInv, TypeOK', NEW r \in Request, NEW b, NEW i, NEW d, Storing(r, b, i, d),
           req' = [req EXCEPT ![r] = Idle]
    PROVE  IInv'
<1>0. TypeOK /\ TypeOK'
  BY DEF IInv
<1>1. req'[r] = Idle /\ \A s \in Request \ {r} : req'[s] = req[s]
  BY <1>0 DEF TypeOK
<1>2. ASSUME NEW s \in Request PROVE SoundRequest(req[s])'
  <2>1. CASE s = r
    <3>1. req'[s].at = "idle" /\ req'[s].id = None /\ req'[s].data = Blank
          /\ req'[s].held = None /\ req'[s].who = None
      BY <1>1, <2>1, IdleType
    <3>. QED BY <3>1, BlankType DEF SoundRequest, OwnData
  <2>2. CASE s # r
    <3>1. req'[s] = req[s] /\ req[s] \in RequestRow /\ SoundRequest(req[s])
      BY <1>0, <1>1, <2>2 DEF IInv, TypeOK
    <3>2. req[s].id = i => req[s].by = b
      BY StoredIdIsOwn
    <3>3. req[s].id # None => \A u \in Request : req'[u].id = req[s].id => req'[u].by = req[s].by
      BY <1>1, <3>1, IdleType DEF SoundRequest
    <3>4. \A p \in RequestRow :
             /\ SoundRequest(p) /\ (p.id = i => p.by = b)
             /\ p.id # None => \A u \in Request : req'[u].id = p.id => req'[u].by = p.by
             => SoundRequest(p)'
      BY RequestStored
    <3>. HIDE DEF SoundRequest
    <3>. QED BY <3>1, <3>2, <3>3, <3>4
  <2>. QED BY <2>1, <2>2
<1>3. taken' \subseteq 1..flows'
  BY TakenIsBounded
<1>4. anonymous' \subseteq 1..ids'
  <2>1. /\ d \in Data /\ Store(r, d) /\ i = IdFor(r)
        /\ anonymous \subseteq 1..ids /\ ids \in Nat
    BY <1>0 DEF Storing, IInv, TypeOK
  <2>2. /\ i \in Id /\ ids <= ids' /\ ids' \in 0..MaxIds
        /\ anonymous' \subseteq Id
        /\ \A j \in Id \ {i} : j \in anonymous' <=> j \in anonymous
    BY <1>0, <2>1, StoreFacts
  <2>3. i <= ids'
    BY StoredIdIsOwn
  <2>4. ASSUME NEW j \in anonymous' PROVE j \in 1..ids'
    <3>1. CASE j = i
      BY <2>2, <2>3, <3>1 DEF Id
    <3>2. CASE j # i
      <4>1. j \in Id \ {i} /\ j \in anonymous
        BY <2>2, <2>4, <3>2
      <4>2. j \in 1..ids /\ ids <= ids' /\ ids \in Nat /\ ids' \in Nat
        BY <2>1, <2>2, <4>1
      <4>. QED BY <4>2
    <3>. QED BY <3>1, <3>2
  <2>. QED BY <2>4
<1>. QED BY <1>0, <1>2, <1>3, <1>4, RowsStored, CookiesStored DEF Storing, IInv

\* Login: a flow that nobody has.
LEMMA LoginStep == ASSUME IInv, NEW r \in Request, Login(r) PROVE IInv'
<1>0. TypeOK /\ SoundRequest(req[r]) /\ req[r] \in RequestRow
  BY DEF IInv, TypeOK
<1>. PICK b, i, d, f : /\ b = req[r].by /\ i = IdFor(r) /\ f = flows + 1
                       /\ d = [req[r].data EXCEPT !.flow = f]
  OBVIOUS
<1>1. /\ f \in Flow /\ flows' = f /\ flows \in Nat /\ flows < MaxFlows
      /\ flow' = [flow EXCEPT ![f].by = b]
      /\ Store(r, d) /\ cookie' = [cookie EXCEPT ![b] = i]
      /\ req' = [req EXCEPT ![r] = Idle] /\ UNCHANGED <<taken, faults>>
  BY <1>0, AccessAssumption DEF Login, TypeOK, Flow
<1>2. b \in Browser /\ req[r].data \in Data
  BY <1>0 DEF Login, SoundRequest, RequestRow
<1>3. d \in Data /\ d.user = req[r].data.user /\ d.flow = f
  BY <1>1, <1>2 DEF Data
<1>4. flow[f].by = None /\ flow[f].user = None /\ flow[f].code = "none"
  <2>1. SoundFlow(f)
    BY <1>1 DEF IInv
  <2>. QED BY <1>1, <2>1 DEF SoundFlow
<1>5. /\ flow' \in [Flow -> [by : Browser \cup {None}, user : User \cup {None},
                           code : {"none", "fresh", "spent", "declined"}]]
      /\ flow'[f].by = b /\ flow'[f].user = None /\ flow'[f].code = "none"
      /\ \A g \in Flow \ {f} : flow'[g] = flow[g]
  <2>1. flow' = [flow EXCEPT ![f] = [flow[f] EXCEPT !.by = b]]
    BY <1>0, <1>1 DEF TypeOK
  <2>2. [flow[f] EXCEPT !.by = b] \in [by : Browser \cup {None}, user : User \cup {None},
                                       code : {"none", "fresh", "spent", "declined"}]
    BY <1>0, <1>1, <1>2 DEF TypeOK
  <2>. QED BY <1>0, <1>1, <1>4, <2>1, <2>2 DEF TypeOK
<1>6. FlowsStay /\ \A g \in Flow : SoundFlow(g)'
  BY <1>1, <1>2, <1>4, <1>5, NoneIsNone DEF FlowsStay, SoundFlow, IInv, Flow
<1>7. OwnData(b, d)'
  <2>. PICK e \in Data : e = req[r].data
    BY <1>2
  <2>1. OwnData(b, e) /\ e.user = d.user
    BY <1>0, <1>3 DEF SoundRequest
  <2>2. OwnData(b, e)'
    BY <1>0, <1>2, <1>6, <2>1, OwnDataStays
  <2>. QED BY <1>3, <1>5, <2>1, <2>2 DEF OwnData
<1>8. Storing(r, b, i, d)
  <2>1. req[r].at = "loaded" /\ b = req[r].by /\ i = IdFor(r)
    BY DEF Login
  <2>2. d.user \in Allowed \cup {None}
    BY <1>0, <1>3 DEF SoundRequest
  <2>3. flows' \in 0..MaxFlows /\ flows <= flows' /\ flows' = flows + 1
    BY <1>1, AccessAssumption
  <2>. QED BY <1>1, <1>3, <1>6, <1>7, <2>1, <2>2, <2>3 DEF Storing
<1>9. TypeOK'
  <2>1. cookie' \in [Browser -> Id \cup {None}]
    BY <1>0, <1>1, <1>3, StoreFacts DEF TypeOK
  <2>2. req' \in [Request -> RequestRow]
    BY <1>0, <1>1, IdleType DEF TypeOK
  <2>. QED BY <1>0, <1>1, <1>3, <1>5, <2>1, <2>2, StoreFacts DEF TypeOK, Flow
<1>. QED BY <1>1, <1>8, <1>9, StoresAndEnds

\* A step that stores and leaves the flows as they are.
LEMMA StoresNoFlow ==
    ASSUME IInv, NEW r \in Request, NEW b, NEW i, NEW d \in Data, Store(r, d),
           b = req[r].by, i = IdFor(r), req[r].at \in {"loaded", "taken", "verified", "cycled"},
           UNCHANGED <<flow, flows, faults>>,
           d.flow = None, d.user \in Allowed \cup {None}, OwnData(b, d),
           req[r].id # None => d.user = req[r].data.user,
           taken' \subseteq taken \cup ({req[r].data.flow} \ {None}),
           cookie' = cookie \/ cookie' = [cookie EXCEPT ![b] = i],
           req' \in [Request -> RequestRow]
    PROVE  Storing(r, b, i, d) /\ TypeOK'
<1>0. TypeOK /\ SoundRequest(req[r]) /\ req[r] \in RequestRow
  BY DEF IInv, TypeOK
<1>1. b \in Browser
  BY <1>0 DEF SoundRequest
<1>2. FlowsStay /\ \A f \in Flow : SoundFlow(f)'
  BY DEF FlowsStay, SoundFlow, IInv
<1>3. OwnData(b, d)'
  BY <1>0, <1>1, <1>2, OwnDataStays
<1>4. Storing(r, b, i, d)
  BY <1>0, <1>2, <1>3 DEF Storing, TypeOK
<1>5. cookie' \in [Browser -> Id \cup {None}]
  BY <1>0, <1>1, StoreFacts DEF TypeOK
<1>6. taken' \subseteq Flow
  BY <1>0 DEF TypeOK, RequestRow, Data
<1>. QED BY <1>0, <1>4, <1>5, <1>6, StoreFacts DEF TypeOK

\* Dismiss: what the session still holds is stored again, or there is nothing to store.
LEMMA DismissStep ==
    ASSUME IInv, NEW r \in Request, req[r].at \in {"taken", "verified"}, Dismiss(r)
    PROVE  IInv'
<1>0. TypeOK /\ SoundRequest(req[r]) /\ req[r] \in RequestRow
  BY DEF IInv, TypeOK
<1>1. req' = [req EXCEPT ![r] = Idle] /\ UNCHANGED <<flow, taken, flows, faults>>
  BY DEF Dismiss
<1>2. CASE req[r].data.user = None
  BY <1>1, <1>2, OverStep DEF Dismiss
<1>3. CASE req[r].data.user # None
  <2>. PICK b, i, d : b = req[r].by /\ i = IdFor(r) /\ d = req[r].data
    OBVIOUS
  <2>1. Store(r, d) /\ cookie' = [cookie EXCEPT ![b] = i] /\ d \in Data
    BY <1>0, <1>3 DEF Dismiss, RequestRow
  <2>2. d.flow = None /\ d.user \in Allowed \cup {None} /\ OwnData(b, d)
    BY <1>0 DEF SoundRequest
  <2>3. req' \in [Request -> RequestRow]
    BY <1>0, <1>1, IdleType DEF TypeOK
  <2>4. Storing(r, b, i, d) /\ TypeOK'
    BY <1>1, <2>1, <2>2, <2>3, StoresNoFlow
  <2>. QED BY <1>1, <2>4, StoresAndEnds
<1>. QED BY <1>2, <1>3

\* SignIn: a fresh id gets the user that the provider named.
LEMMA SignInStep == ASSUME IInv, NEW r \in Request, SignIn(r) PROVE IInv'
<1>0. TypeOK /\ SoundRequest(req[r]) /\ req[r] \in RequestRow
  BY DEF IInv, TypeOK
<1>. PICK b, i, d : /\ b = req[r].by /\ i = IdFor(r)
                    /\ d = [req[r].data EXCEPT !.user = req[r].who]
  OBVIOUS
<1>1. /\ Store(r, d) /\ cookie' = [cookie EXCEPT ![b] = i] /\ req[r].at = "cycled"
      /\ req' = [req EXCEPT ![r] = Idle] /\ UNCHANGED <<flow, taken, flows, faults>>
  BY DEF SignIn
<1>2. d \in Data /\ d.user = req[r].who /\ d.flow = req[r].data.flow
  BY <1>0 DEF RequestRow, Data
<1>3. d.flow = None /\ d.user \in Allowed /\ req[r].id = None
  BY <1>0, <1>1, <1>2 DEF SoundRequest
<1>4. OwnData(b, d)
  <2>1. OwnData(b, [user |-> req[r].who, flow |-> req[r].held])
    BY <1>0 DEF SoundRequest
  <2>. QED BY <1>2, <1>3, <2>1 DEF OwnData
<1>5. req' \in [Request -> RequestRow]
  BY <1>0, <1>1, IdleType DEF TypeOK
<1>6. Storing(r, b, i, d) /\ TypeOK'
  BY <1>1, <1>2, <1>3, <1>4, <1>5, StoresNoFlow
<1>. QED BY <1>1, <1>6, StoresAndEnds

\* Take: the copy keeps the flow aside, and the row is without it.
LEMMA TakeStep == ASSUME IInv, NEW r \in Request, Take(r) PROVE IInv'
<1>0. TypeOK /\ SoundRequest(req[r]) /\ req[r] \in RequestRow
  BY DEF IInv, TypeOK
<1>p. PICK b, i, d, h : /\ b = req[r].by /\ i = IdFor(r) /\ h = req[r].data.flow
                       /\ d = [req[r].data EXCEPT !.flow = None]
  OBVIOUS
<1>q. PICK q : q = [req[r] EXCEPT !.at = "taken", !.id = i, !.data = d, !.held = h]
  OBVIOUS
<1>1. /\ Store(r, d) /\ req[r].at = "loaded" /\ UNCHANGED <<cookie, flow, flows, faults>>
      /\ taken' = taken \cup ({h} \ {None})
  BY <1>p DEF Take
<1>2. /\ b \in Browser /\ d \in Data /\ d.user = req[r].data.user /\ d.flow = None
      /\ h \in Flow \cup {None}
  BY <1>0, <1>1, <1>p DEF SoundRequest, RequestRow, Data
<1>3. req' = [req EXCEPT ![r] = q]
  BY <1>0, <1>p, <1>q DEF Take, TypeOK, RequestRow, Data
<1>4. i \in Id
  BY <1>0, <1>1, <1>2, <1>p, StoreFacts
<1>5. /\ q \in RequestRow /\ q.at = "taken" /\ q.id = i /\ q.data = d /\ q.held = h
      /\ q.by = b /\ q.who = req[r].who
  BY <1>0, <1>2, <1>4, <1>p, <1>q DEF RequestRow
<1>6. d.user \in Allowed \cup {None} /\ OwnData(b, d) /\ OwnData(b, req[r].data)
  BY <1>0, <1>2, <1>p DEF SoundRequest, OwnData
<1>7. req' \in [Request -> RequestRow]
  BY <1>0, <1>3, <1>5 DEF TypeOK
<1>8. Storing(r, b, i, d) /\ TypeOK'
  BY <1>1, <1>2, <1>6, <1>7, <1>p, StoresNoFlow
<1>9. /\ i <= ids' /\ (i \in anonymous' <=> d.user = None)
      /\ \A c \in Browser : cookie[c] = i => c = b
      /\ \A s \in Request : req[s].id = i => req[s].by = b
  <2>1. Storing(r, b, i, d)
    BY <1>8
  <2>2. i <= ids' /\ (i \in anonymous' <=> d.user = None)
    BY <2>1, StoredIdIsOwn
  <2>3. \A c \in Browser : cookie[c] = i => c = b
    BY <2>1, StoredIdIsOwn
  <2>4. \A s \in Request : req[s].id = i => req[s].by = b
    BY <2>1, StoredIdIsOwn
  <2>. QED BY <2>2, <2>3, <2>4
<1>10. req'[r] = q /\ \A s \in Request \ {r} : req'[s] = req[s]
  BY <1>0, <1>3 DEF TypeOK
<1>11. SoundRequest(q)'
  <2>1. OwnData(b, [user |-> q.who, flow |-> h])
    <3>1. OwnData(b, [user |-> req[r].who, flow |-> req[r].held])
      BY <1>0, <1>p DEF SoundRequest
    <3>. QED BY <1>5, <1>6, <1>p, <3>1 DEF OwnData
  <2>2. OwnData(q.by, [user |-> q.who, flow |-> q.held])'
    BY <1>0, <1>1, <1>2, <1>5, <1>8, <2>1, WhoAndHeldStay DEF Storing
  <2>3. OwnData(q.by, q.data)'
    BY <1>5, <1>8 DEF Storing
  <2>4. row'[q.id].data = d
    BY <1>0, <1>1, <1>2, <1>5, <1>p, StoreFacts
  <2>5. row'[q.id].is = "live" => OwnData(q.by, row[q.id].data)'
    BY <1>5, <1>8, <2>4 DEF Storing, OwnData
  <2>6. \A s \in Request : req'[s].id = q.id => req'[s].by = q.by
    BY <1>5, <1>9, <1>10
  <2>7. q.id # None /\ q.id <= ids' /\ (q.data.user = None <=> q.id \in anonymous')
    BY <1>4, <1>5, <1>9, NoneIsNone
  <2>8. \A c \in Browser : cookie'[c] = q.id => c = q.by
    BY <1>1, <1>5, <1>9
  <2>9. q.data.flow = None /\ q.data.user \in Allowed \cup {None} /\ q.by \in Browser
    BY <1>2, <1>5, <1>6
  <2>. QED BY <1>5, <2>2, <2>3, <2>5, <2>6, <2>7, <2>8, <2>9 DEF SoundRequest
<1>12. ASSUME NEW s \in Request PROVE SoundRequest(req[s])'
  <2>1. CASE s = r
    <3>. HIDE DEF SoundRequest
    <3>. QED BY <1>10, <1>11, <2>1
  <2>2. CASE s # r
    <3>1. req'[s] = req[s] /\ req[s] \in RequestRow /\ SoundRequest(req[s])
      BY <1>0, <1>10, <2>2 DEF IInv, TypeOK
    <3>2. req[s].id = i => req[s].by = b
      BY <1>9
    <3>3. req[s].id # None => \A u \in Request : req'[u].id = req[s].id => req'[u].by = req[s].by
      <4>. SUFFICES ASSUME req[s].id # None, NEW u \in Request, req'[u].id = req[s].id
                    PROVE  req'[u].by = req[s].by
        OBVIOUS
      <4>1. CASE u = r
        BY <1>5, <1>10, <3>2, <4>1
      <4>2. CASE u # r
        <5>1. req'[u] = req[u]
          BY <1>10, <4>2
        <5>. QED BY <3>1, <5>1 DEF SoundRequest
      <4>. QED BY <4>1, <4>2
    <3>4. \A p \in RequestRow :
             /\ SoundRequest(p) /\ (p.id = i => p.by = b)
             /\ p.id # None => \A u \in Request : req'[u].id = p.id => req'[u].by = p.by
             => SoundRequest(p)'
      BY <1>8, RequestStored
    <3>. HIDE DEF SoundRequest
    <3>. QED BY <3>1, <3>2, <3>3, <3>4
  <2>. QED BY <2>1, <2>2
<1>13. taken' \subseteq 1..flows'
  BY <1>8, TakenIsBounded
<1>14. anonymous' \subseteq 1..ids'
  BY <1>0, <1>1, <1>2, <1>9, <1>p, StoreFacts DEF IInv, TypeOK, Id
<1>. QED BY <1>8, <1>12, <1>13, <1>14, RowsStored, CookiesStored DEF Storing, IInv

-----------------------------------------------------------------------------
\* The inductive invariant of sessions, cookies, flows and requests.
THEOREM AccessInvariant == Spec => []IInv
<1>1. IInv /\ [Next]_vars => IInv'
  <2>. SUFFICES ASSUME IInv, [Next]_vars PROVE IInv'
    OBVIOUS
  <2>1. ASSUME NEW r \in Request, Handle(r) PROVE IInv'
    <3>1. CASE Refuse(r) \/ Forbid(r)
      BY <3>1, DismissStep DEF Refuse, Forbid
    <3>2. CASE Logout(r) \/ Fail(r)
      BY <3>2, OverStep DEF Logout, Fail
    <3>. QED BY <2>1, <3>1, <3>2, LoadStep, LoginStep, TakeStep, ExchangeStep, CycleStep, SignInStep
             DEF Handle
  <2>2. CASE UNCHANGED vars
    <3>1. UNCHANGED <<row, cookie, flow, req, taken, anonymous, ids, flows, faults>>
      BY <2>2 DEF vars, history
    <3>. QED BY <3>1 DEF IInv, TypeOK, SoundRow, SoundCookie, SoundRequest, SoundFlow, OwnData
  <2>. QED BY <2>1, <2>2, SendStep, AuthoriseStep, SweepStep DEF Next
<1>. QED BY InitIInv, <1>1, PTL DEF Spec

\* Nobody whom the allow-list does not permit is in a session, or about to be (callback, permits).
THEOREM OnlyTheAllowedSignIn == Spec => []OnlyTheAllowed
<1>1. IInv => OnlyTheAllowed
  BY DEF IInv, OnlyTheAllowed, SoundRow, SoundRequest
<1>. QED BY <1>1, AccessInvariant, PTL

\* A browser is signed in as someone who signed in for a flow of that browser, wherever the
\* callback's address was opened (callback, the check of the state).
THEOREM SignInsAreTheirOwn == Spec => []SignedInByItsOwn
<1>1. IInv => SignedInByItsOwn
  BY DEF IInv, SignedInByItsOwn, SignedInAs, Found, SoundCookie, OwnData
<1>. QED BY <1>1, AccessInvariant, PTL

\* What a callback has taken out of a session is in no session again (callback, the save before any
\* check).
THEOREM TakenStaysGone == Spec => []TakenIsGone
<1>1. IInv => TakenIsGone
  <2>. SUFFICES ASSUME IInv, NEW i \in Id PROVE row[i].data.flow \notin taken
    BY DEF TakenIsGone
  <2>1. SoundRow(i) /\ taken \subseteq Flow
    BY DEF IInv, TypeOK
  <2>. QED BY <2>1, NoneIsNone DEF SoundRow
<1>. QED BY <1>1, AccessInvariant, PTL

\* An id from before a sign-in is never signed in (callback, cycle_id).
THEOREM IdsAreNotPromoted == Spec => []NeverPromoted
<1>1. IInv => NeverPromoted
  <2>. SUFFICES ASSUME IInv, NEW i \in anonymous PROVE row[i].data.user = None
    BY DEF NeverPromoted
  <2>1. SoundRow(i)
    BY DEF IInv, TypeOK
  <2>. QED BY <2>1, BlankType DEF SoundRow
<1>. QED BY <1>1, AccessInvariant, PTL

-----------------------------------------------------------------------------
\* The event stream.

Shows(c) == AnswerIsShown(c) /\ OutcomesAreOnTheWay(c) /\ EndsAreOnTheWay(c)

LEMMA ClosedType == /\ Closed \in Stream /\ Closed.at = "closed" /\ Closed.buffer = <<>>
                    /\ Closed.lagged = FALSE /\ Len(Closed.buffer) = 0
BY DEF Closed, Stream

LEMMA EventType == ASSUME NEW j \in Job
                   PROVE  /\ Ended(j) \in Event /\ Moved(j) \in Event
                          /\ [kind |-> "retried", job |-> j] \in Event
BY DEF Ended, Moved, Event

\* A record of a subscription with one field changed.
LEMMA StreamExcept ==
    ASSUME NEW r \in Stream, NEW b \in Seq(Event)
    PROVE  /\ [r EXCEPT !.buffer = b] \in Stream
           /\ [r EXCEPT !.buffer = b].buffer = b /\ [r EXCEPT !.buffer = b].at = r.at
           /\ [r EXCEPT !.buffer = b].lagged = r.lagged
           /\ [r EXCEPT !.buffer = b, !.lagged = TRUE] \in Stream
           /\ [r EXCEPT !.buffer = b, !.lagged = TRUE].buffer = b
           /\ [r EXCEPT !.buffer = b, !.lagged = TRUE].at = r.at
           /\ [r EXCEPT !.buffer = b, !.lagged = TRUE].lagged = TRUE
BY DEF Stream

LEMMA EventsInitInv == EventsInit => EventsInv
<1>. SUFFICES ASSUME EventsInit PROVE EventsInv
  OBVIOUS
<1>1. EventsTypeOK
  BY EventAssumption, ClosedType DEF EventsInit, EventsTypeOK, Queued, JobState
<1>2. \A c \in Client : Shows(c)
  BY ClosedType DEF EventsInit, Shows, AnswerIsShown, OutcomesAreOnTheWay, EndsAreOnTheWay, Over, Queued
<1>. QED BY <1>1, <1>2 DEF EventsInv, Shows

-----------------------------------------------------------------------------
\* What a published event does to a subscription.
LEMMA PublishFacts ==
    ASSUME EventsTypeOK, NEW e \in Event, Publish(e), NEW c \in Client
    PROVE  /\ stream' \in [Client -> Stream] /\ Len(stream'[c].buffer) <= Capacity
           /\ stream'[c].at = stream[c].at
           /\ stream[c].at = "closed" => stream'[c] = stream[c]
           /\ stream[c].at # "closed" =>
                 \/ stream'[c].lagged
                 \/ /\ stream'[c].lagged = stream[c].lagged
                    /\ stream'[c].buffer = Append(stream[c].buffer, e)
<1>. DEFINE Made(d) == IF stream[d].at = "closed" THEN stream[d]
                       ELSE IF Len(stream[d].buffer) < Capacity
                       THEN [stream[d] EXCEPT !.buffer = Append(@, e)]
                       ELSE [stream[d] EXCEPT !.buffer = Append(Tail(@), e), !.lagged = TRUE]
<1>1. ASSUME NEW d \in Client
      PROVE  /\ Made(d) \in Stream /\ Len(Made(d).buffer) <= Capacity /\ Made(d).at = stream[d].at
             /\ stream[d].at # "closed" =>
                   \/ Made(d).lagged
                   \/ /\ Made(d).lagged = stream[d].lagged
                      /\ Made(d).buffer = Append(stream[d].buffer, e)
  <2>. DEFINE b == stream[d].buffer
  <2>1. stream[d] \in Stream /\ b \in Seq(Event) /\ Len(b) <= Capacity
    BY DEF EventsTypeOK, Stream
  <2>2. CASE stream[d].at = "closed"
    BY <2>1, <2>2
  <2>3. CASE stream[d].at # "closed" /\ Len(b) < Capacity
    <3>1. Append(b, e) \in Seq(Event) /\ Len(Append(b, e)) <= Capacity
      BY <2>1, <2>3, EventAssumption
    <3>2. PICK t \in Seq(Event) : t = Append(b, e)
      BY <3>1
    <3>3. Made(d) = [stream[d] EXCEPT !.buffer = t]
      BY <2>3, <3>2
    <3>. HIDE DEF Made
    <3>4. Made(d) \in Stream /\ Made(d).buffer = t /\ Made(d).at = stream[d].at /\ Made(d).lagged = stream[d].lagged
      BY <2>1, <3>3 DEF Stream
    <3>. QED BY <2>3, <3>1, <3>2, <3>4
  <2>4. CASE stream[d].at # "closed" /\ ~(Len(b) < Capacity)
    <3>1. Append(Tail(b), e) \in Seq(Event) /\ Len(Append(Tail(b), e)) <= Capacity
      <4>1. b # <<>>
        BY <2>1, <2>4, EventAssumption
      <4>2. Tail(b) \in Seq(Event) /\ Len(Tail(b)) = Len(b) - 1
        BY <2>1, <4>1
      <4>. QED BY <2>1, <4>2, EventAssumption
    <3>2. PICK t \in Seq(Event) : t = Append(Tail(b), e)
      BY <3>1
    <3>3. Made(d) = [stream[d] EXCEPT !.buffer = t, !.lagged = TRUE]
      BY <2>4, <3>2
    <3>. HIDE DEF Made
    <3>4. Made(d) \in Stream /\ Made(d).buffer = t /\ Made(d).at = stream[d].at /\ Made(d).lagged = TRUE
      BY <2>1, <3>3 DEF Stream
    <3>. QED BY <2>4, <3>1, <3>2, <3>4
  <2>. QED BY <2>2, <2>3, <2>4
<1>2. stream' = [d \in Client |-> Made(d)]
  BY DEF Publish
<1>3. stream'[c] = Made(c) /\ (stream[c].at = "closed" => Made(c) = stream[c])
  BY <1>2
<1>. HIDE DEF Made
<1>. QED BY <1>1, <1>2, <1>3

\* A page that nothing has happened to.
LEMMA StillShows ==
    ASSUME NEW c \in Client, Shows(c),
           stream'[c] = stream[c], fetch'[c] = fetch[c], answer'[c] = answer[c],
           view'[c] = view[c], bars'[c] = bars[c], missed \subseteq missed',
           \A j \in Job : Over(j)' => Over(j)
    PROVE  Shows(c)'
BY DEF Shows, AnswerIsShown, OutcomesAreOnTheWay, EndsAreOnTheWay, Ended, Moved

\* A page that has lost its stream.
LEMMA LostShows ==
    ASSUME NEW c \in Client, Shows(c),
           stream'[c] = Closed, fetch'[c] = fetch[c], answer'[c] = answer[c],
           view'[c] = view[c], c \in missed'
    PROVE  Shows(c)'
BY ClosedType DEF Shows, AnswerIsShown, OutcomesAreOnTheWay, EndsAreOnTheWay

\* An event is published: the end of a job that is over from then on, or one that ends none.
LEMMA PublishShows ==
    ASSUME EventsTypeOK, NEW c \in Client, Shows(c), NEW e \in Event, Publish(e),
           UNCHANGED <<fetch, answer, view, bars, missed>>,
           \A j \in Job : Over(j)' => Over(j) \/ e = Ended(j),
           \A j \in Job : e = Moved(j) => ~Over(j)'
    PROVE  Shows(c)'
<1>1. /\ stream'[c].at = stream[c].at
      /\ stream[c].at = "closed" => stream'[c] = stream[c]
      /\ stream[c].at # "closed" =>
            \/ stream'[c].lagged
            \/ /\ stream'[c].lagged = stream[c].lagged
               /\ stream'[c].buffer = Append(stream[c].buffer, e)
  BY PublishFacts
<1>2. AnswerIsShown(c)'
  BY DEF Shows, AnswerIsShown
<1>3. CASE stream[c].at = "closed"
  BY <1>1, <1>2, <1>3, ClosedType DEF Shows, OutcomesAreOnTheWay, EndsAreOnTheWay
<1>4. CASE stream[c].at # "closed" /\ stream'[c].lagged
  BY <1>1, <1>2, <1>4 DEF Shows, OutcomesAreOnTheWay, EndsAreOnTheWay
<1>5. CASE stream[c].at # "closed" /\ ~stream'[c].lagged
  <2>. DEFINE b == stream[c].buffer
              b2 == stream'[c].buffer
  <2>0. b \in Seq(Event)
    BY DEF EventsTypeOK, Stream
  <2>1. ~stream[c].lagged /\ b2 = Append(b, e)
    BY <1>1, <1>5
  <2>2. /\ DOMAIN b = 1..Len(b) /\ Len(b) \in Nat /\ DOMAIN b2 = 1..(Len(b) + 1)
        /\ b2[Len(b) + 1] = e
        /\ \A i \in DOMAIN b : i \in DOMAIN b2 /\ b2[i] = b[i]
    BY <2>0, <2>1
  <2>. HIDE DEF b, b2
  <2>3. ASSUME NEW j \in Job, Over(j)', e # Ended(j) PROVE Over(j)
    BY <2>3
  <2>4. ASSUME NEW j \in Job, \E i \in DOMAIN b : b[i] = Ended(j)
        PROVE  \E i \in DOMAIN b2 : b2[i] = Ended(j)
    BY <2>2, <2>4
  <2>5. ASSUME NEW j \in Job, e = Ended(j) PROVE \E i \in DOMAIN b2 : b2[i] = Ended(j)
    <3>1. Len(b) + 1 \in DOMAIN b2
      BY <2>2
    <3>. QED BY <2>2, <2>5, <3>1
  <2>6. OutcomesAreOnTheWay(c)'
    <3>. SUFFICES ASSUME stream[c].at = "live", NEW j \in Job, Over(j)'
                  PROVE  \/ fetch[c] = "asked" \/ answer[c][j] = "done"
                         \/ \E i \in DOMAIN b2 : b2[i] = Ended(j)
      BY <1>1 DEF OutcomesAreOnTheWay, b2, Ended
    <3>1. CASE e = Ended(j)
      BY <2>5, <3>1
    <3>2. CASE e # Ended(j)
      BY <2>1, <2>3, <2>4, <3>2 DEF Shows, OutcomesAreOnTheWay, b
    <3>. QED BY <3>1, <3>2
  <2>7. EndsAreOnTheWay(c)'
    <3>. SUFFICES ASSUME c \notin missed, NEW j \in Job, Over(j)'
                  PROVE  /\ j \in bars[c] => \E i \in DOMAIN b2 : b2[i] = Ended(j)
                         /\ \A i \in DOMAIN b2 : b2[i] = Moved(j) =>
                               \E k \in DOMAIN b2 : k > i /\ b2[k] = Ended(j)
      BY <1>1, <1>5 DEF EndsAreOnTheWay, b2, Ended, Moved
    <3>1. j \in bars[c] => \E i \in DOMAIN b2 : b2[i] = Ended(j)
      <4>1. CASE e = Ended(j)
        BY <2>5, <4>1
      <4>2. CASE e # Ended(j)
        BY <2>1, <2>3, <2>4, <4>2 DEF Shows, EndsAreOnTheWay, b
      <4>. QED BY <4>1, <4>2
    <3>2. ASSUME NEW i \in DOMAIN b2, b2[i] = Moved(j)
          PROVE  \E k \in DOMAIN b2 : k > i /\ b2[k] = Ended(j)
      <4>1. i \in DOMAIN b
        BY <2>2, <3>2
      <4>2. CASE e = Ended(j)
        <5>1. Len(b) + 1 \in DOMAIN b2 /\ Len(b) + 1 > i /\ b2[Len(b) + 1] = Ended(j)
          BY <2>2, <4>1, <4>2
        <5>. QED BY <5>1
      <4>3. CASE e # Ended(j)
        <5>1. b[i] = Moved(j)
          BY <2>2, <3>2, <4>1
        <5>2. PICK k \in DOMAIN b : k > i /\ b[k] = Ended(j)
          BY <2>1, <2>3, <4>1, <4>3, <5>1 DEF Shows, EndsAreOnTheWay, b
        <5>. QED BY <2>2, <5>2
      <4>. QED BY <4>2, <4>3
    <3>. QED BY <3>1, <3>2
  <2>. QED BY <1>2, <2>6, <2>7 DEF Shows
<1>. QED BY <1>3, <1>4, <1>5

-----------------------------------------------------------------------------
\* The workers.
LEMMA JobStep ==
    ASSUME EventsInv, NEW j \in Job, Claim(j) \/ Finish(j) \/ Retry(j)
    PROVE  EventsInv'
<1>1. UNCHANGED <<server, stream, fetch, answer, view, bars, missed, losses>>
  BY DEF Claim, Finish, Retry, shown
<1>2. EventsTypeOK'
  <2>1. job' \in [Job -> JobState] /\ unsent' \subseteq Job
    BY DEF Claim, Finish, Retry, EventsInv, EventsTypeOK, JobState
  <2>2. events' \in 0..MaxEvents
    BY EventAssumption DEF Claim, Finish, Retry, EventsInv, EventsTypeOK
  <2>. QED BY <1>1, <2>1, <2>2 DEF EventsInv, EventsTypeOK
<1>3. \A k \in Job : Over(k)' => Over(k)
  BY DEF Claim, Finish, Retry, EventsInv, EventsTypeOK, Over
<1>4. \A c \in Client : Shows(c)'
  BY <1>1, <1>3, StillShows DEF EventsInv, Shows
<1>. QED BY <1>2, <1>4 DEF EventsInv, Shows

LEMMA SayStep ==
    ASSUME EventsInv, NEW j \in Job, Progress(j) \/ SendEvent(j)
    PROVE  EventsInv'
<1>0. EventsTypeOK /\ \A c \in Client : Shows(c)
  BY DEF EventsInv, Shows
<1>1. UNCHANGED <<server, job, fetch, answer, view, bars, missed, losses>> /\ unsent' \subseteq unsent
  BY DEF Progress, SendEvent, shown, served
<1>2. PICK e \in Event :
          /\ Publish(e)
          /\ \A k \in Job : Over(k)' => Over(k) \/ e = Ended(k)
          /\ \A k \in Job : e = Moved(k) => ~Over(k)'
  <2>1. CASE Progress(j)
    <3>1. UNCHANGED unsent /\ job[j] = "running" /\ Publish(Moved(j))
      BY <2>1 DEF Progress, served, Moved
    <3>2. \A k \in Job : Moved(j) = Moved(k) => k = j
      BY DEF Moved
    <3>3. \A k \in Job : (Over(k)' => Over(k)) /\ (Moved(j) = Moved(k) => ~Over(k)')
      BY <1>1, <3>1, <3>2 DEF Over
    <3>. QED BY <3>1, <3>3, EventType
  <2>2. CASE SendEvent(j) /\ job[j] = "done"
    <3>1. unsent' = unsent \ {j} /\ Publish(Ended(j))
      BY <2>2 DEF SendEvent, Announce, Ended
    <3>2. \A k \in Job : Ended(j) # Moved(k)
      BY DEF Ended, Moved
    <3>3. \A k \in Job : Over(k)' => Over(k) \/ k = j
      BY <1>1, <3>1 DEF Over
    <3>. QED BY <3>1, <3>2, <3>3, EventType
  <2>3. CASE SendEvent(j) /\ job[j] # "done"
    <3>. DEFINE e == [kind |-> "retried", job |-> j]
    <3>1. unsent' = unsent \ {j} /\ Publish(e)
      BY <2>3 DEF SendEvent, Announce
    <3>2. \A k \in Job : e # Moved(k)
      BY DEF Moved
    <3>3. \A k \in Job : Over(k)' => Over(k)
      BY <1>1, <2>3, <3>1 DEF Over
    <3>4. e \in Event
      BY EventType
    <3>. HIDE DEF e
    <3>. QED BY <3>1, <3>2, <3>3, <3>4
  <2>. QED BY <2>1, <2>2, <2>3
<1>3. stream' \in [Client -> Stream] /\ \A c \in Client : Len(stream'[c].buffer) <= Capacity
  <2>1. ASSUME Client = {} PROVE stream' \in [Client -> Stream]
    BY <1>2, <2>1 DEF Publish
  <2>. QED BY <1>0, <1>2, <2>1, PublishFacts
<1>4. events' \in 0..MaxEvents
  BY EventAssumption DEF Progress, SendEvent, EventsInv, EventsTypeOK
<1>5. EventsTypeOK'
  BY <1>0, <1>1, <1>3, <1>4 DEF EventsTypeOK
<1>6. \A c \in Client : Shows(c)'
  BY <1>0, <1>1, <1>2, PublishShows
<1>. QED BY <1>5, <1>6 DEF EventsInv, Shows

-----------------------------------------------------------------------------
\* The pages.  A step of one leaves the others as they are.
LEMMA PageStep ==
    ASSUME EventsInv, NEW c \in Client, UNCHANGED <<server, job, unsent, events>>,
           losses' \in 0..MaxLosses, missed \subseteq missed', missed' \subseteq missed \cup {c},
           NEW r \in Stream, Len(r.buffer) <= Capacity, stream' = [stream EXCEPT ![c] = r],
           NEW f \in {"none", "asked", "answered"}, fetch' = [fetch EXCEPT ![c] = f],
           NEW a \in [Job -> JobState], answer' = [answer EXCEPT ![c] = a],
           NEW v \in [Job -> JobState], view' = [view EXCEPT ![c] = v],
           NEW b \in SUBSET Job, bars' = [bars EXCEPT ![c] = b],
           Shows(c)'
    PROVE  EventsInv'
<1>1. /\ EventsTypeOK /\ \A d \in Client : Shows(d)
      /\ stream \in [Client -> Stream] /\ fetch \in [Client -> {"none", "asked", "answered"}]
      /\ answer \in [Client -> [Job -> JobState]] /\ view \in [Client -> [Job -> JobState]]
      /\ bars \in [Client -> SUBSET Job]
  BY DEF EventsInv, EventsTypeOK, Shows
<1>2. EventsTypeOK'
  <2>1. /\ stream' \in [Client -> Stream] /\ fetch' \in [Client -> {"none", "asked", "answered"}]
        /\ answer' \in [Client -> [Job -> JobState]] /\ view' \in [Client -> [Job -> JobState]]
        /\ bars' \in [Client -> SUBSET Job]
    BY <1>1
  <2>2. \A d \in Client : Len(stream'[d].buffer) <= Capacity
    BY <1>1 DEF EventsTypeOK
  <2>3. missed' \subseteq Client
    BY <1>1 DEF EventsTypeOK
  <2>. QED BY <1>1, <2>1, <2>2, <2>3 DEF EventsTypeOK
<1>3. \A d \in Client \ {c} : Shows(d)'
  <2>. SUFFICES ASSUME NEW d \in Client \ {c} PROVE Shows(d)'
    OBVIOUS
  <2>1. /\ stream'[d] = stream[d] /\ fetch'[d] = fetch[d] /\ answer'[d] = answer[d]
        /\ view'[d] = view[d] /\ bars'[d] = bars[d]
    BY <1>1
  <2>2. d \in missed' <=> d \in missed
    OBVIOUS
  <2>3. \A j \in Job : Over(j)' => Over(j)
    BY DEF Over
  <2>. QED BY <1>1, <2>1, <2>2, <2>3, StillShows
<1>. QED BY <1>2, <1>3 DEF EventsInv, Shows

\* The fields a step leaves alone, as PageStep wants them.
LEMMA SameFields ==
    ASSUME EventsInv, NEW c \in Client
    PROVE  /\ stream[c] \in Stream /\ Len(stream[c].buffer) <= Capacity
           /\ fetch[c] \in {"none", "asked", "answered"}
           /\ answer[c] \in [Job -> JobState] /\ view[c] \in [Job -> JobState] /\ bars[c] \in SUBSET Job
           /\ stream = [stream EXCEPT ![c] = stream[c]] /\ fetch = [fetch EXCEPT ![c] = fetch[c]]
           /\ answer = [answer EXCEPT ![c] = answer[c]] /\ view = [view EXCEPT ![c] = view[c]]
           /\ bars = [bars EXCEPT ![c] = bars[c]]
           /\ losses \in 0..MaxLosses /\ Shows(c)
           /\ EventsTypeOK
BY DEF EventsInv, EventsTypeOK, Shows

LEMMA ConnectStep == ASSUME EventsInv, NEW c \in Client, Connect(c) PROVE EventsInv'
<1>. DEFINE r == [Closed EXCEPT !.at = "opening"]
<1>1. r \in Stream /\ r.buffer = <<>> /\ Len(r.buffer) <= Capacity /\ r.at = "opening" /\ ~r.lagged
  <2>1. r \in Stream /\ r.buffer = Closed.buffer /\ r.at = "opening" /\ r.lagged = Closed.lagged
    BY ClosedType DEF Stream
  <2>. HIDE DEF r
  <2>. QED BY <2>1, ClosedType, EventAssumption
<1>2. /\ stream[c].at = "closed" /\ stream' = [stream EXCEPT ![c] = r]
      /\ UNCHANGED <<server, job, unsent, fetch, answer, view, bars, missed, events, losses>>
  BY DEF Connect, served, shown
<1>. HIDE DEF r
<1>3. stream'[c] = r
  BY <1>2, SameFields DEF EventsInv, EventsTypeOK
<1>4. Shows(c)'
  <2>1. AnswerIsShown(c)' /\ OutcomesAreOnTheWay(c)'
    BY <1>1, <1>2, <1>3, SameFields DEF Shows, AnswerIsShown, OutcomesAreOnTheWay
  <2>2. EndsAreOnTheWay(c)'
    BY <1>1, <1>2, <1>3, SameFields DEF Shows, EndsAreOnTheWay
  <2>. QED BY <2>1, <2>2 DEF Shows
<1>. QED BY <1>1, <1>2, <1>4, SameFields, PageStep

LEMMA OpenStep == ASSUME EventsInv, NEW c \in Client, Open(c) PROVE EventsInv'
<1>. DEFINE r == [stream[c] EXCEPT !.at = "live"]
<1>1. /\ r \in Stream /\ r.buffer = stream[c].buffer /\ Len(r.buffer) <= Capacity /\ r.at = "live"
      /\ r.lagged = stream[c].lagged
  BY SameFields DEF Stream
<1>2. /\ stream' = [stream EXCEPT ![c] = r] /\ fetch' = [fetch EXCEPT ![c] = "asked"]
      /\ UNCHANGED <<server, job, unsent, answer, view, bars, missed, events, losses>>
  BY SameFields DEF Open, Refetch, served
<1>. HIDE DEF r
<1>3. stream'[c] = r /\ fetch'[c] = "asked"
  BY <1>2, SameFields DEF EventsTypeOK
<1>4. Shows(c)'
  <2>1. AnswerIsShown(c)' /\ OutcomesAreOnTheWay(c)'
    BY <1>1, <1>2, <1>3 DEF AnswerIsShown, OutcomesAreOnTheWay
  <2>2. \A j \in Job : Over(j)' => Over(j)
    BY <1>2 DEF Over
  <2>3. EndsAreOnTheWay(c)'
    BY <1>1, <1>2, <1>3, <2>2, SameFields DEF Shows, EndsAreOnTheWay, Ended, Moved
  <2>. QED BY <2>1, <2>3 DEF Shows
<1>. QED BY <1>1, <1>2, <1>4, SameFields, PageStep

LEMMA LagStep == ASSUME EventsInv, NEW c \in Client, Lag(c) PROVE EventsInv'
<1>. DEFINE r == [stream[c] EXCEPT !.lagged = FALSE]
<1>1. /\ r \in Stream /\ r.buffer = stream[c].buffer /\ Len(r.buffer) <= Capacity /\ r.at = stream[c].at
  BY SameFields DEF Stream
<1>2. /\ stream' = [stream EXCEPT ![c] = r] /\ fetch' = [fetch EXCEPT ![c] = "asked"]
      /\ missed' = missed \cup {c}
      /\ UNCHANGED <<server, job, unsent, answer, view, bars, events, losses>>
  BY SameFields DEF Lag, Refetch, served
<1>. HIDE DEF r
<1>3. stream'[c] = r /\ fetch'[c] = "asked"
  BY <1>2, SameFields DEF EventsTypeOK
<1>4. Shows(c)'
  BY <1>1, <1>2, <1>3 DEF Shows, AnswerIsShown, OutcomesAreOnTheWay, EndsAreOnTheWay
<1>. QED BY <1>1, <1>2, <1>4, SameFields, PageStep

\* What is handled leaves the buffer: an outcome for a fetch, an end for the bar it takes away.
LEMMA ReceiveStep == ASSUME EventsInv, NEW c \in Client, Receive(c) PROVE EventsInv'
<1>. DEFINE b == stream[c].buffer
            t == Tail(b)
            e == Head(b)
            r == [stream[c] EXCEPT !.buffer = t]
<1>1. /\ b \in Seq(Event) /\ b # <<>> /\ Len(b) <= Capacity /\ stream[c].at = "live"
      /\ ~stream[c].lagged /\ Shows(c) /\ stream[c] \in Stream
  BY SameFields DEF Stream, Receive
<1>2. /\ t \in Seq(Event) /\ Len(t) <= Capacity /\ e \in Event /\ e = b[1]
      /\ \A i \in DOMAIN b : i = 1 \/ (i - 1 \in DOMAIN t /\ t[i - 1] = b[i])
      /\ \A i \in DOMAIN t : i + 1 \in DOMAIN b /\ t[i] = b[i + 1]
  <2>. HIDE DEF b, t, e
  <2>1. t \in Seq(Event) /\ Len(t) = Len(b) - 1 /\ e \in Event /\ e = b[1]
    BY <1>1 DEF t, e
  <2>2. \A i \in 1..Len(t) : t[i] = b[i + 1]
    BY <1>1, <2>1 DEF t
  <2>3. DOMAIN b = 1..Len(b) /\ DOMAIN t = 1..Len(t) /\ Len(b) \in Nat
    BY <1>1, <2>1
  <2>4. Len(t) <= Capacity
    BY <1>1, <2>1, <2>3, EventAssumption
  <2>5. \A i \in DOMAIN t : i + 1 \in DOMAIN b /\ t[i] = b[i + 1]
    BY <2>1, <2>2, <2>3
  <2>6. \A i \in DOMAIN b : i = 1 \/ (i - 1 \in DOMAIN t /\ t[i - 1] = b[i])
    <3>. SUFFICES ASSUME NEW i \in DOMAIN b, i # 1 PROVE i - 1 \in DOMAIN t /\ t[i - 1] = b[i]
      OBVIOUS
    <3>1. i - 1 \in DOMAIN t /\ (i - 1) + 1 = i
      BY <2>1, <2>3
    <3>. QED BY <2>5, <3>1
  <2>. QED BY <2>1, <2>4, <2>5, <2>6
<1>3. r \in Stream /\ r.buffer = t /\ r.at = "live" /\ r.lagged = stream[c].lagged
  BY <1>1, <1>2, StreamExcept
<1>4. /\ bars' = [bars EXCEPT ![c] = BarsAfter(c, e)]
      /\ IF e.kind = "progress" THEN UNCHANGED fetch ELSE fetch' = [fetch EXCEPT ![c] = "asked"]
      /\ stream' = [stream EXCEPT ![c] = r]
      /\ UNCHANGED <<server, job, unsent, answer, view, missed, events, losses>>
  BY SameFields DEF Receive, Refetch, served
<1>5. /\ e.kind \in {"progress", "retried", "ended"} /\ e.job \in Job
      /\ e = [kind |-> e.kind, job |-> e.job]
  BY <1>2 DEF Event
<1>. HIDE DEF b, t, e, r
<1>6. /\ e.kind = "progress" => BarsAfter(c, e) = bars[c] \cup {e.job} /\ e = Moved(e.job)
      /\ e.kind = "retried" => BarsAfter(c, e) = bars[c]
      /\ e.kind = "ended" => BarsAfter(c, e) = bars[c] \ {e.job} /\ e = Ended(e.job)
  BY <1>5, Zenon DEF BarsAfter, Moved, Ended
<1>7. BarsAfter(c, e) \in SUBSET Job
  BY <1>5, <1>6, SameFields
<1>8. stream'[c] = r /\ bars'[c] = BarsAfter(c, e)
  BY <1>4, SameFields DEF EventsTypeOK
<1>9. PICK f \in {"none", "asked", "answered"} :
          /\ fetch' = [fetch EXCEPT ![c] = f] /\ f = fetch'[c]
          /\ f = IF e.kind = "progress" THEN fetch[c] ELSE "asked"
  BY <1>4, SameFields DEF EventsTypeOK
<1>10. \A j \in Job : Over(j)' => Over(j)
  BY <1>4 DEF Over
<1>11. \A j \in Job : Ended(j).kind = "ended" /\ Moved(j).kind = "progress" /\ Ended(j).job = j
  BY DEF Ended, Moved
<1>12. AnswerIsShown(c)'
  BY <1>1, <1>4, <1>9 DEF Shows, AnswerIsShown
<1>13. OutcomesAreOnTheWay(c)'
  <2>. SUFFICES ASSUME NEW j \in Job, Over(j)', f # "asked"
                PROVE  answer[c][j] = "done" \/ \E i \in DOMAIN t : t[i] = Ended(j)
    BY <1>3, <1>4, <1>8, <1>9 DEF OutcomesAreOnTheWay, Ended
  <2>1. e.kind = "progress" /\ fetch[c] # "asked" /\ Over(j)
    BY <1>9, <1>10
  <2>2. answer[c][j] = "done" \/ \E i \in DOMAIN b : b[i] = Ended(j)
    BY <1>1, <2>1 DEF Shows, OutcomesAreOnTheWay, b
  <2>. QED BY <1>2, <1>11, <2>1, <2>2
<1>14. EndsAreOnTheWay(c)'
  <2>. SUFFICES ASSUME c \notin missed, NEW j \in Job, Over(j)'
                PROVE  /\ j \in BarsAfter(c, e) => \E i \in DOMAIN t : t[i] = Ended(j)
                       /\ \A i \in DOMAIN t : t[i] = Moved(j) =>
                             \E k \in DOMAIN t : k > i /\ t[k] = Ended(j)
    BY <1>3, <1>4, <1>8 DEF EndsAreOnTheWay, Ended, Moved
  <2>1. /\ j \in bars[c] => \E i \in DOMAIN b : b[i] = Ended(j)
        /\ \A i \in DOMAIN b : b[i] = Moved(j) => \E k \in DOMAIN b : k > i /\ b[k] = Ended(j)
    BY <1>1, <1>10 DEF Shows, EndsAreOnTheWay, b
  <2>2. DOMAIN b = 1..Len(b) /\ DOMAIN t \subseteq Nat /\ 1 \in DOMAIN b
    BY <1>1, <1>2
  <2>3. ASSUME j \in BarsAfter(c, e) PROVE \E i \in DOMAIN t : t[i] = Ended(j)
    <3>1. PICK i \in DOMAIN b : b[i] = Ended(j) /\ i # 1
      <4>1. CASE e = Moved(j)
        <5>1. PICK k \in DOMAIN b : k > 1 /\ b[k] = Ended(j)
          BY <1>2, <2>1, <2>2, <4>1
        <5>2. k # 1
          BY <2>2, <5>1
        <5>. QED BY <5>1, <5>2
      <4>2. CASE e # Moved(j)
        <5>1. j \in bars[c] /\ e # Ended(j)
          BY <1>5, <1>6, <1>11, <2>3, <4>2
        <5>. QED BY <1>2, <2>1, <5>1
      <4>. QED BY <4>1, <4>2
    <3>. QED BY <1>2, <3>1
  <2>4. ASSUME NEW i \in DOMAIN t, t[i] = Moved(j)
        PROVE  \E k \in DOMAIN t : k > i /\ t[k] = Ended(j)
    <3>1. i + 1 \in DOMAIN b /\ b[i + 1] = Moved(j) /\ i \in Nat
      BY <1>2, <2>2, <2>4
    <3>2. PICK k \in DOMAIN b : k > i + 1 /\ b[k] = Ended(j)
      BY <2>1, <3>1
    <3>3. k # 1 /\ k - 1 > i
      BY <2>2, <3>1, <3>2
    <3>. QED BY <1>2, <3>2, <3>3
  <2>. QED BY <2>3, <2>4
<1>15. Shows(c)'
  BY <1>12, <1>13, <1>14 DEF Shows
<1>. QED BY <1>2, <1>3, <1>4, <1>7, <1>9, <1>15, SameFields, PageStep

LEMMA FetchStep == ASSUME EventsInv, NEW c \in Client, Answer(c) \/ Arrive(c) PROVE EventsInv'
<1>1. UNCHANGED <<server, job, unsent, stream, bars, missed, events, losses>>
  BY DEF Answer, Arrive, served
<1>2. \A j \in Job : Over(j)' => Over(j) /\ job[j] = "done"
  BY <1>1 DEF Over
<1>3. CASE Answer(c)
  <2>1. /\ fetch' = [fetch EXCEPT ![c] = "answered"] /\ answer' = [answer EXCEPT ![c] = job]
        /\ UNCHANGED view /\ job \in [Job -> JobState]
    BY <1>3 DEF Answer, EventsInv, EventsTypeOK
  <2>2. fetch'[c] = "answered" /\ answer'[c] = job
    BY <2>1, SameFields DEF EventsTypeOK
  <2>3. Shows(c)'
    BY <1>1, <1>2, <2>2, SameFields
    DEF Shows, AnswerIsShown, OutcomesAreOnTheWay, EndsAreOnTheWay, Ended, Moved
  <2>. QED BY <1>1, <2>1, <2>3, SameFields, PageStep
<1>4. CASE Arrive(c)
  <2>1. /\ fetch' = [fetch EXCEPT ![c] = "none"] /\ view' = [view EXCEPT ![c] = answer[c]]
        /\ UNCHANGED answer /\ fetch[c] = "answered"
    BY <1>4 DEF Arrive
  <2>2. fetch'[c] = "none" /\ view'[c] = answer[c]
    BY <2>1, SameFields DEF EventsTypeOK
  <2>3. Shows(c)'
    BY <1>1, <1>2, <2>1, <2>2, SameFields
    DEF Shows, AnswerIsShown, OutcomesAreOnTheWay, EndsAreOnTheWay, Ended, Moved
  <2>. QED BY <1>1, <2>1, <2>2, <2>3, SameFields, PageStep
<1>. QED BY <1>3, <1>4

LEMMA LoseStep == ASSUME EventsInv, NEW c \in Client, Lose(c) PROVE EventsInv'
<1>1. /\ stream' = [stream EXCEPT ![c] = Closed] /\ missed' = missed \cup {c}
      /\ UNCHANGED <<server, job, unsent, fetch, answer, view, bars, events>>
      /\ losses' \in 0..MaxLosses
  BY EventAssumption DEF Lose, served, EventsInv, EventsTypeOK
<1>2. stream'[c] = Closed
  BY <1>1, SameFields DEF EventsTypeOK
<1>3. Shows(c)'
  BY <1>1, <1>2, SameFields, LostShows
<1>4. Closed \in Stream /\ Len(Closed.buffer) <= Capacity
  BY ClosedType, EventAssumption
<1>. QED BY <1>1, <1>3, <1>4, SameFields, PageStep

-----------------------------------------------------------------------------
\* The server.
LEMMA ServerStep == ASSUME EventsInv, Stop \/ Served \/ Start PROVE EventsInv'
<1>1. UNCHANGED <<unsent, stream, fetch, answer, view, bars, missed, events>>
  BY DEF Stop, Served, Start, shown
<1>2. EventsTypeOK'
  <2>1. server' \in {"up", "stopping", "down"} /\ losses' \in 0..MaxLosses
    BY EventAssumption DEF Stop, Served, Start, EventsInv, EventsTypeOK
  <2>2. job' \in [Job -> JobState]
    <3>1. \A j \in Job : (IF job[j] = "running" THEN "queued" ELSE job[j]) \in JobState
      BY DEF EventsInv, EventsTypeOK, JobState
    <3>. QED BY <3>1 DEF Stop, Served, Start, EventsInv, EventsTypeOK
  <2>. QED BY <1>1, <2>1, <2>2 DEF EventsInv, EventsTypeOK
<1>3. \A j \in Job : Over(j)' => Over(j)
  BY DEF Stop, Served, Start, Over
<1>4. \A c \in Client : Shows(c)'
  BY <1>1, <1>3, StillShows DEF EventsInv, Shows
<1>. QED BY <1>2, <1>4 DEF EventsInv, Shows

LEMMA KillStep == ASSUME EventsInv, Kill PROVE EventsInv'
<1>1. /\ server' = "down" /\ unsent' = {} /\ stream' = [c \in Client |-> Closed] /\ missed' = Client
      /\ UNCHANGED <<job, fetch, answer, view, bars, events>> /\ losses' \in 0..MaxLosses
  BY EventAssumption DEF Kill, EventsInv, EventsTypeOK
<1>2. EventsTypeOK'
  BY <1>1, ClosedType, EventAssumption DEF EventsInv, EventsTypeOK
<1>3. \A c \in Client : Shows(c)'
  BY <1>1, LostShows DEF EventsInv, Shows
<1>. QED BY <1>2, <1>3 DEF EventsInv, Shows

-----------------------------------------------------------------------------
LEMMA EventsNextInv == EventsInv /\ [EventsNext]_eventVars => EventsInv'
<1>. SUFFICES ASSUME EventsInv, [EventsNext]_eventVars PROVE EventsInv'
  OBVIOUS
<1>1. CASE UNCHANGED eventVars
  <2>1. EventsTypeOK' /\ \A j \in Job : Over(j)' => Over(j)
    BY <1>1 DEF eventVars, EventsInv, EventsTypeOK, Over
  <2>2. \A c \in Client : Shows(c)'
    BY <1>1, <2>1, StillShows DEF eventVars, EventsInv, Shows
  <2>. QED BY <2>1, <2>2 DEF EventsInv, Shows
<1>2. CASE \E c \in Client : ClientStep(c)
  BY <1>2, ConnectStep, OpenStep, LagStep, ReceiveStep, FetchStep DEF ClientStep
<1>. QED BY <1>1, <1>2, JobStep, SayStep, LoseStep, ServerStep, KillStep DEF EventsNext, WorkerStep

\* However pages and streams come and go, channels overflow and the server stops, an outcome that was
\* published to an open page is in its buffer, in its answer, or about to be asked for
\* (BroadcastBus, event_stream in sse.rs, and the invalidations of web/src/shared/sse).
THEOREM EventStreamInvariant == EventsSpec => []EventsInv
BY EventsInitInv, EventsNextInv, PTL DEF EventsSpec

\* A page whose stream is open and which has nothing to receive or to fetch shows every outcome that
\* was published, even if the channel had overtaken it (Lagged in sse.rs, "sync" in the browser).
THEOREM QuietPagesAreCurrent == EventsSpec => []LooksLiveIsLive
<1>1. EventsInv => LooksLiveIsLive
  <2>. SUFFICES ASSUME EventsInv, NEW c \in Client, Quiet(c), NEW j \in Job, Over(j)
                PROVE  view[c][j] = "done"
    BY DEF EventsInv, LooksLiveIsLive, Over
  <2>1. view[c] = answer[c]
    BY DEF EventsInv, Quiet, AnswerIsShown
  <2>2. DOMAIN stream[c].buffer = {}
    BY DEF Quiet
  <2>. QED BY <2>1, <2>2 DEF EventsInv, Quiet, OutcomesAreOnTheWay
<1>. QED BY <1>1, EventStreamInvariant, PTL

\* On a page no event has missed, no progress bar outlives its job: the end is published after the last
\* progress and handled in that order (run_worker, applyEvent).
THEOREM BarsGoWithTheirJobs == EventsSpec => []BarsEnd
<1>1. EventsInv => BarsEnd
  <2>. SUFFICES ASSUME EventsInv, NEW c \in Client, Quiet(c), c \notin missed, NEW j \in bars[c], Over(j)
                PROVE  FALSE
    BY DEF BarsEnd, Over
  <2>1. DOMAIN stream[c].buffer = {} /\ j \in Job
    BY DEF Quiet, EventsInv, EventsTypeOK
  <2>. QED BY <2>1 DEF EventsInv, Quiet, EndsAreOnTheWay
<1>. QED BY <1>1, EventStreamInvariant, PTL
=============================================================================
