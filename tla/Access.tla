-------------------------------- MODULE Access --------------------------------
(***************************************************************************)
(* Signing in: the OIDC flow of crates/api/src/auth/routes.rs, the session *)
(* rows of crates/api/src/session_store.rs and crates/persistence/src/     *)
(* session.rs, and the guard that reads them (auth/guard.rs).              *)
(*                                                                         *)
(* A request loads its session once, works on that copy, and the copy is   *)
(* written back whole, by the code's own save or by the session layer when *)
(* it answers: two requests of one browser overlap.  A flow stands for the *)
(* state, the nonce and the PKCE verifier that login draws together.  The  *)
(* session layer (tower-sessions) and the identity provider are not in the *)
(* repository; they are modelled from how it uses them.                    *)
(***************************************************************************)
EXTENDS Integers, FiniteSets

CONSTANTS Browser, User,
          Allowed,       \* the users on the allow-list, by subject or by group
          Request,       \* slots: how many requests are handled at once
          None,
          MaxIds, MaxFlows,   \* bounds: session ids and flows ever drawn
          MaxFaults      \* bound: failed or abandoned requests, expiries, revocations

ASSUME AccessAssumption ==
    /\ Allowed \subseteq User
    /\ None \notin User \cup Nat \cup Browser
    /\ MaxIds \in Nat /\ MaxFlows \in Nat /\ MaxFaults \in Nat

VARIABLES row,       \* the session table
          cookie,    \* browser -> the session id it holds
          flow,      \* flow -> who began it, and what the provider says of it
          req,       \* request -> how far it has come, with its copy of the session
          taken,     \* history: the flows a callback has saved out of their session
          anonymous, \* history: the ids ever saved without a user
          ids, flows, faults

history == <<taken, anonymous>>
vars == <<row, cookie, flow, req, history, ids, flows, faults>>

-----------------------------------------------------------------------------
Id   == 1..MaxIds
Flow == 1..MaxFlows

Data == [user : User \cup {None}, flow : Flow \cup {None}]
Blank == [user |-> None, flow |-> None]

Absent == [is |-> "absent", data |-> Blank]
Idle   == [at |-> "idle", kind |-> "login", by |-> None, id |-> None, data |-> Blank,
           url |-> None, held |-> None, who |-> None]

RequestRow ==
    [at : {"idle", "sent", "loaded", "taken", "verified", "cycled"},
     kind : {"login", "callback", "logout"}, by : Browser \cup {None}, id : Id \cup {None},
     data : Data, url : Flow \cup {None}, held : Flow \cup {None}, who : User \cup {None}]

TypeOK ==
    /\ row \in [Id -> [is : {"absent", "live", "expired"}, data : Data]]
    /\ cookie \in [Browser -> Id \cup {None}]
    /\ flow \in [Flow -> [by : Browser \cup {None}, user : User \cup {None},
                          code : {"none", "fresh", "spent", "declined"}]]
    /\ req \in [Request -> RequestRow]
    /\ taken \subseteq Flow /\ anonymous \subseteq Id
    /\ ids \in 0..MaxIds /\ flows \in 0..MaxFlows /\ faults \in 0..MaxFaults

Init ==
    /\ row = [i \in Id |-> Absent]
    /\ cookie = [b \in Browser |-> None]
    /\ flow = [f \in Flow |-> [by |-> None, user |-> None, code |-> "none"]]
    /\ req = [r \in Request |-> Idle]
    /\ taken = {} /\ anonymous = {}
    /\ ids = 0 /\ flows = 0 /\ faults = 0

-----------------------------------------------------------------------------
\* SessionRepository::load: an expired row is absent before it is removed.
Found(i) == i # None /\ row[i].is = "live"

\* Session::save: a session without an id is created under a fresh one, any other row is written
\* over, or inserted again if it has gone.
IdFor(r) == IF req[r].id = None THEN ids + 1 ELSE req[r].id

Store(r, data) ==
    LET i == IdFor(r) IN
    /\ i <= MaxIds
    /\ row' = [row EXCEPT ![i] = [is |-> "live", data |-> data]]
    /\ ids' = IF req[r].id = None THEN ids + 1 ELSE ids
    /\ anonymous' = IF data.user = None THEN anonymous \cup {i} ELSE anonymous

\* require_session and me: who a request of the browser is made as.
SignedInAs(b) == IF Found(cookie[b]) THEN row[cookie[b]].data.user ELSE None

-----------------------------------------------------------------------------
\* A request arrives with the cookie that the browser holds.  A callback is the address that the
\* provider sent someone to; any browser may open it, at any time and again.
Send(r, b) ==
    /\ req[r].at = "idle"
    /\ \E k \in {"login", "callback", "logout"}, u \in Flow \cup {None} :
          /\ (k = "callback") = (u # None)
          /\ u # None => flow[u].code # "none"
          /\ req' = [req EXCEPT ![r] = [Idle EXCEPT !.at = "sent", !.kind = k, !.by = b,
                                                    !.id = cookie[b], !.url = u]]
    /\ UNCHANGED <<row, cookie, flow, history, ids, flows, faults>>

\* The first use of the session loads it; an id without a live row is dropped.
Load(r) ==
    /\ req[r].at = "sent" /\ req[r].kind # "logout"
    /\ req' = [req EXCEPT ![r].at = "loaded",
                          ![r].id = IF Found(@) THEN @ ELSE None,
                          ![r].data = IF Found(req[r].id) THEN row[req[r].id].data ELSE Blank]
    /\ UNCHANGED <<row, cookie, flow, history, ids, flows, faults>>

\* login: a fresh flow takes the place of the session's, and the answer saves it.
Login(r) ==
    /\ req[r].at = "loaded" /\ req[r].kind = "login"
    /\ flows < MaxFlows
    /\ flows' = flows + 1
    /\ flow' = [flow EXCEPT ![flows + 1].by = req[r].by]
    /\ Store(r, [req[r].data EXCEPT !.flow = flows + 1])
    /\ cookie' = [cookie EXCEPT ![req[r].by] = IdFor(r)]
    /\ req' = [req EXCEPT ![r] = Idle]
    /\ UNCHANGED <<taken, faults>>

\* The person signs in at the provider, or cancels.
Authorise(f) ==
    /\ flow[f].by # None /\ flow[f].code = "none"
    /\ \/ \E u \in User : flow' = [flow EXCEPT ![f].user = u, ![f].code = "fresh"]
       \/ flow' = [flow EXCEPT ![f].code = "declined"]
    /\ UNCHANGED <<row, cookie, req, history, ids, flows, faults>>

\* callback takes the flow out of the session and saves that before it looks at anything.
BadTake(r) ==
    /\ req[r].at = "loaded" /\ req[r].kind = "callback"
    /\ req' = [req EXCEPT ![r].at = "taken", ![r].data.flow = None, ![r].held = req[r].data.flow]
    /\ taken' = taken \cup ({req[r].data.flow} \ {None})
    /\ UNCHANGED <<row, anonymous, ids, cookie, flow, flows, faults>>

Take(r) ==
    /\ req[r].at = "loaded" /\ req[r].kind = "callback"
    /\ Store(r, [req[r].data EXCEPT !.flow = None])
    /\ req' = [req EXCEPT ![r].at = "taken", ![r].id = IdFor(r),
                          ![r].data.flow = None, ![r].held = req[r].data.flow]
    /\ taken' = taken \cup ({req[r].data.flow} \ {None})
    /\ UNCHANGED <<cookie, flow, flows, faults>>

\* The state of the address is the session's, and with it the verifier and the nonce.
BadMatches(r) == req[r].held # None
Matches(r)    == req[r].held # None /\ req[r].held = req[r].url

\* A refusal: the session layer saves what is left, or takes the cookie away when nothing is.
Dismiss(r) ==
    /\ IF req[r].data.user = None
       THEN /\ cookie' = [cookie EXCEPT ![req[r].by] = None]
            /\ UNCHANGED <<row, ids, anonymous>>
       ELSE /\ Store(r, req[r].data)
            /\ cookie' = [cookie EXCEPT ![req[r].by] = IdFor(r)]
    /\ req' = [req EXCEPT ![r] = Idle]
    /\ UNCHANGED <<flow, taken, flows, faults>>

Refuse(r) ==
    /\ req[r].at = "taken"
    /\ flow[req[r].url].code = "declined" \/ ~Matches(r)
    /\ Dismiss(r)

\* The code is exchanged, once, and the ID token verified.
Exchange(r) ==
    /\ req[r].at = "taken" /\ Matches(r)
    /\ flow[req[r].url].code = "fresh"
    /\ flow' = [flow EXCEPT ![req[r].url].code = "spent"]
    /\ req' = [req EXCEPT ![r].at = "verified", ![r].who = flow[req[r].url].user]
    /\ UNCHANGED <<row, cookie, history, ids, flows, faults>>

\* AuthConfig::permits.
BadPermits(u) == TRUE
Permits(u)    == u \in Allowed

Forbid(r) ==
    /\ req[r].at = "verified" /\ ~Permits(req[r].who)
    /\ Dismiss(r)

\* SessionStore::delete: of a session that has no row, nothing.
Deleted(i) == IF i = None THEN row ELSE [row EXCEPT ![i] = Absent]

\* cycle_id: the old row goes at once, the new one is created when the answer is sent.
BadCycle(r) ==
    /\ req[r].at = "verified" /\ Permits(req[r].who)
    /\ req' = [req EXCEPT ![r].at = "cycled"]
    /\ UNCHANGED <<row, cookie, flow, history, ids, flows, faults>>

Cycle(r) ==
    /\ req[r].at = "verified" /\ Permits(req[r].who)
    /\ row' = Deleted(req[r].id)
    /\ req' = [req EXCEPT ![r].at = "cycled", ![r].id = None]
    /\ UNCHANGED <<cookie, flow, history, ids, flows, faults>>

SignIn(r) ==
    /\ req[r].at = "cycled"
    /\ Store(r, [req[r].data EXCEPT !.user = req[r].who])
    /\ cookie' = [cookie EXCEPT ![req[r].by] = IdFor(r)]
    /\ req' = [req EXCEPT ![r] = Idle]
    /\ UNCHANGED <<flow, taken, flows, faults>>

\* The exchange of a spent code fails; so does any request that the provider or the database lets
\* down, or that dies with its server or its connection.  A server error is not saved.
Fail(r) ==
    /\ req[r].at # "idle"
    /\ \/ /\ req[r].at = "taken" /\ Matches(r) /\ flow[req[r].url].code = "spent"
          /\ UNCHANGED faults
       \/ /\ faults < MaxFaults
          /\ faults' = faults + 1
    /\ req' = [req EXCEPT ![r] = Idle]
    /\ UNCHANGED <<row, cookie, flow, history, ids, flows>>

\* logout: flush.
Logout(r) ==
    /\ req[r].at = "sent" /\ req[r].kind = "logout"
    /\ row' = Deleted(req[r].id)
    /\ cookie' = [cookie EXCEPT ![req[r].by] = None]
    /\ req' = [req EXCEPT ![r] = Idle]
    /\ UNCHANGED <<flow, taken, anonymous, ids, flows, faults>>

-----------------------------------------------------------------------------
\* The time to live passes; prune_sessions removes the row some time after.
Expire(i) ==
    /\ row[i].is = "live"
    /\ faults < MaxFaults
    /\ faults' = faults + 1
    /\ row' = [row EXCEPT ![i].is = "expired"]
    /\ UNCHANGED <<cookie, flow, req, history, ids, flows>>

\* delete_expired.
Prune ==
    /\ \E i \in Id : row[i].is = "expired"
    /\ row' = [i \in Id |-> IF row[i].is = "expired" THEN Absent ELSE row[i]]
    /\ UNCHANGED <<cookie, flow, req, history, ids, flows, faults>>

\* delete_for_user: the operator signs a user out everywhere.
Revoke(u) ==
    /\ faults < MaxFaults
    /\ faults' = faults + 1
    /\ \E i \in Id : row[i].data.user = u
    /\ row' = [i \in Id |-> IF row[i].data.user = u THEN Absent ELSE row[i]]
    /\ UNCHANGED <<cookie, flow, req, history, ids, flows>>

Handle(r) ==
    \/ Load(r) \/ Login(r) \/ Take(r) \/ Refuse(r) \/ Exchange(r) \/ Forbid(r)
    \/ Cycle(r) \/ SignIn(r) \/ Logout(r) \/ Fail(r)

Next ==
    \/ \E r \in Request : Handle(r) \/ (\E b \in Browser : Send(r, b))
    \/ \E f \in Flow : Authorise(f)
    \/ \E i \in Id : Expire(i)
    \/ \E u \in User : Revoke(u)
    \/ Prune

Spec == Init /\ [][Next]_vars

-----------------------------------------------------------------------------
\* Only users that the allow-list permits are in the table or about to be, whatever fails and
\* overlaps (callback: "Fail-closed, with the config validated at startup").
OnlyTheAllowed ==
    /\ TypeOK
    /\ \A i \in Id : row[i].data.user \in Allowed \cup {None}
    /\ \A r \in Request : /\ req[r].data.user \in Allowed \cup {None}
                          /\ req[r].at = "cycled" => req[r].who \in Allowed

\* A browser is signed in as someone who began a flow in that browser and signed in at the provider
\* for it, wherever else the callback's address was opened (callback: "The sign-in did not start in
\* this browser").
SignedInByItsOwn ==
    \A b \in Browser : SignedInAs(b) # None =>
        \E f \in Flow : flow[f].by = b /\ flow[f].user = SignedInAs(b)

\* Once a callback has taken a flow's secrets, no session holds them again: a replay finds nothing,
\* even after a failed exchange and beside requests that loaded the session earlier (callback: "a
\* replayed callback finds nothing to validate against no matter which branch this one took").
TakenIsGone == \A i \in Id : row[i].data.flow \notin taken

\* An id that was ever handed out before a sign-in never becomes one that is signed in (callback: "a
\* session fixated before login is not the one that ends up authenticated").
NeverPromoted == \A i \in anonymous : row[i].data.user = None

-----------------------------------------------------------------------------
\* The inductive invariant behind these (AccessProofs).

\* What a browser may find in a session: flows that it began, and users of such a flow.
OwnData(b, d) ==
    /\ d.user # None => \E f \in Flow : flow[f].by = b /\ flow[f].user = d.user
    /\ d.flow # None => flow[d.flow].by = b

\* A user is in a row from the row's first day or never; a flow is in one row.
SoundRow(i) ==
    /\ i > ids => row[i].is = "absent"
    /\ row[i].is = "absent" => row[i].data = Blank
    /\ row[i].is # "absent" => (row[i].data.user = None <=> i \in anonymous)
    /\ row[i].data.user \in Allowed \cup {None}
    /\ row[i].data.flow # None =>
          /\ row[i].data.flow <= flows /\ row[i].data.flow \notin taken
          /\ \A j \in Id : row[j].data.flow = row[i].data.flow => j = i

\* An id is used by one browser.
SoundCookie(b) == cookie[b] # None =>
    /\ cookie[b] <= ids
    /\ \A c \in Browser : cookie[c] = cookie[b] => c = b
    /\ row[cookie[b]].is = "live" => OwnData(b, row[cookie[b]].data)

\* The copy of a request agrees with its row, as far as another request may not change it.
SoundRequest(q) ==
    /\ q.at = "idle" => q.id = None
    /\ q.at \in {"idle", "sent"} => q.data = Blank /\ q.held = None /\ q.who = None
    /\ q.at # "idle" => q.by \in Browser
    /\ q.at = "loaded" /\ q.id = None => q.data = Blank
    /\ q.at \in {"taken", "verified", "cycled"} => q.data.flow = None
    /\ q.at \in {"taken", "verified"} => q.id # None
    /\ q.at = "cycled" => q.id = None /\ q.who \in Allowed
    /\ q.at \in {"loaded", "taken", "verified"} /\ q.id # None =>
          (q.data.user = None <=> q.id \in anonymous)
    /\ q.data.user \in Allowed \cup {None}
    /\ q.data.flow # None =>
          /\ q.data.flow <= flows
          /\ \A i \in Id : row[i].data.flow = q.data.flow => i = q.id
    /\ OwnData(q.by, q.data)
    /\ OwnData(q.by, [user |-> q.who, flow |-> q.held])
    /\ q.id # None =>
          /\ q.id <= ids
          /\ \A b \in Browser : cookie[b] = q.id => b = q.by
          /\ \A s \in Request : req[s].id = q.id => req[s].by = q.by
          /\ row[q.id].is = "live" => OwnData(q.by, row[q.id].data)

SoundFlow(f) ==
    /\ f > flows => flow[f].by = None
    /\ flow[f].code = "none" => flow[f].user = None
    /\ flow[f].by = None => flow[f].code = "none"

IInv ==
    /\ TypeOK
    /\ taken \subseteq 1..flows /\ anonymous \subseteq 1..ids
    /\ \A i \in Id : SoundRow(i)
    /\ \A b \in Browser : SoundCookie(b)
    /\ \A r \in Request : SoundRequest(req[r])
    /\ \A f \in Flow : SoundFlow(f)
=============================================================================
