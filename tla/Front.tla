-------------------------------- MODULE Front --------------------------------
(***************************************************************************)
(* What stands before the handlers of the API (crates/api/src/lib.rs,      *)
(* router): the header a state-changing request must carry (csrf.rs), the  *)
(* limit on the sign-in routes (rate_limit.rs) by the address of the       *)
(* client (client_ip.rs), the session (auth/guard.rs), and what a browser  *)
(* may have written to the server's log (routes/telemetry.rs).             *)
(*                                                                         *)
(* An address is a family and its bits; a proxy extends X-Forwarded-For    *)
(* with the address that it was spoken to from.                            *)
(***************************************************************************)
EXTENDS Integers, Sequences, FiniteSets, SequencesExt, FiniteSetsExt

CONSTANTS Client,         \* addresses of clients
          Proxy,          \* addresses of the proxies before the server
          TrustedProxies, \* TRUSTED_PROXIES, networks
          MaxClaims,      \* bound: entries of X-Forwarded-For a client writes itself
          MaxHops,        \* bound: proxies on the way
          AuthPeriod,     \* ticks in which the limiter gives one request back
          AuthBurst,      \* AUTH_BURST
          MaxNow,         \* bound: ticks
          User, NoUser,
          Batch,          \* batches of spans a browser can send
          Limit,          \* telemetry.ingest_max_body_bytes
          MaxSpans,       \* MAX_SPANS
          MaxAttributes   \* MAX_ATTRIBUTES

Web == "manga-web"
Junk == [family |-> 0, bits |-> <<>>]
Unset == "unset"

VARIABLES now,
          arrival,    \* key -> when its next request is due at the limit's pace
          admitted,   \* history: client -> the times at which its sign-in requests were let through
          answer,     \* status of the last batch of spans
          sent,       \* the batch, and who sent it
          logged      \* what was written of it

door == <<now, arrival, admitted>>
log  == <<answer, sent, logged>>
frontVars == <<door, log>>

-----------------------------------------------------------------------------
\* Cidr: an address is in a network of its own family if they agree in the bits of the prefix.
InNetwork(net, address) ==
    /\ address.family = net.family
    /\ SubSeq(address.bits, 1, net.prefix) = SubSeq(net.network, 1, net.prefix)

IsTrusted(address) == \E net \in TrustedProxies : InNetwork(net, address)

\* Where the header has an address that is no proxy's, and the one of these that client_ip finds, which
\* goes from the right.
Hops(forwarded) == {i \in DOMAIN forwarded : forwarded[i] # Junk /\ ~IsTrusted(forwarded[i])}

BadFound(hops) == CHOOSE i \in hops : \A j \in hops : i <= j
Found(hops)    == CHOOSE i \in hops : \A j \in hops : j <= i

ClientIp(peer, forwarded) ==
    IF IsTrusted(peer) /\ Hops(forwarded) # {} THEN forwarded[Found(Hops(forwarded))] ELSE peer

\* No client is taken for a proxy, and its address is one.
ASSUME ClientsAreNotProxies == Junk \notin Client /\ \A c \in Client : ~IsTrusted(c)
ASSUME ProxiesAreTrusted    == \A p \in Proxy : IsTrusted(p)
ASSUME LimitAssumption      == {AuthPeriod, AuthBurst} \subseteq Nat \ {0}

-----------------------------------------------------------------------------
\* How a request comes in: what the client wrote, and the proxies it went through.
Way == [claims : UNION {[1..n -> Client \cup {Junk}] : n \in 0..MaxClaims},
        proxies : UNION {[1..n -> Proxy] : n \in 0..MaxHops}]

Peer(client, way) == IF way.proxies = <<>> THEN client ELSE Last(way.proxies)

Forwarded(client, way) ==
    IF way.proxies = <<>> THEN way.claims
    ELSE way.claims \o <<client>> \o SubSeq(way.proxies, 1, Len(way.proxies) - 1)

LimitKey(client, way) == ClientIp(Peer(client, way), Forwarded(client, way))

\* The layers that a request comes to before its handler, from the outside in.
MayPass(request) == request.safe \/ request.header

\* The governor keeps for each key when its next request is due at the limit's pace, and lets one
\* through that is less than a burst ahead of it.
Due(key) == IF arrival[key] > now THEN arrival[key] ELSE now

Conforms(key) == Due(key) - now <= AuthPeriod * (AuthBurst - 1)

\* login and callback, which are safe, and logout, which is not.
SignInRequest(client, way, request) ==
    /\ MayPass(request)
    /\ Conforms(LimitKey(client, way))
    /\ arrival' = [arrival EXCEPT ![LimitKey(client, way)] = Due(LimitKey(client, way)) + AuthPeriod]
    /\ admitted' = [admitted EXCEPT ![client] = Append(@, now)]
    /\ UNCHANGED <<now, log>>

Tick ==
    /\ now < MaxNow
    /\ now' = now + 1
    /\ UNCHANGED <<arrival, admitted, log>>

-----------------------------------------------------------------------------
\* A batch has resources, each with a service's name, or Unset, and spans; a span is the sequence of its
\* attributes, of which the key and the kind of the value are left.
Attribute == [key : {"http.method", "url.path", "user.id", "service.name", "session.id", "other"},
              value : {"text", "list"}]

ASSUME BatchAssumption ==
    /\ \A batch \in Batch : batch.resources \in Seq([service : STRING, spans : Seq(Seq(Attribute))])
    /\ {MaxSpans, MaxAttributes} \subseteq Nat

ServiceName(batch) ==
    LET named == {i \in DOMAIN batch.resources : batch.resources[i].service # Unset} IN
    IF named = {} THEN Unset ELSE batch.resources[Min(named)].service

Spans(batch) == FlattenSeq([i \in DOMAIN batch.resources |-> batch.resources[i].spans])

\* http., url., exception., browser. and app. are allowed, and what the server owns is not.
IsAllowedAttribute(attribute) == attribute.key \notin {"user.id", "service.name", "session.id", "other"}

\* A value that is a list, a map or bytes has no text.
Renders(attribute) == attribute.value # "list"

BadAttributes(span) ==
    SelectSeq(SubSeq(span, 1, IF Len(span) < MaxAttributes THEN Len(span) ELSE MaxAttributes),
              LAMBDA a : IsAllowedAttribute(a) /\ Renders(a))

\* The loop over a span's attributes: one that is not allowed, one too many, and one without a text are
\* dropped, in that order.
Attributes(span) ==
    LET upto[i \in 0..Len(span)] ==
            IF i = 0 THEN <<>>
            ELSE IF IsAllowedAttribute(span[i]) /\ Len(upto[i - 1]) < MaxAttributes /\ Renders(span[i])
                 THEN Append(upto[i - 1], span[i]) ELSE upto[i - 1]
    IN  upto[Len(span)]

\* Every span is written with the sender and the service that the server knows; of two attributes with
\* one key the last is written.
Written(span, user) ==
    LET kept == Attributes(span) IN
    [key \in {kept[i].key : i \in DOMAIN kept} \cup {"service.name", "user.id"} |->
        CASE key = "service.name" -> Web
          [] key = "user.id" -> user
          [] OTHER -> kept[CHOOSE i \in DOMAIN kept :
                              kept[i].key = key /\ \A j \in DOMAIN kept : kept[j].key = key => j <= i].value]

\* In order: the header, the session, the size, the switch, the encoding, and then the form, the service
\* and the number of spans.
Status(request, user) ==
    LET refusals == << <<403, ~MayPass(request)>>,
                       <<401, user = NoUser>>,
                       <<413, request.batch.size > Limit>>,
                       <<404, ~request.enabled>>,
                       <<415, request.encoding = "other">>,
                       <<400, \/ request.encoding = "malformed"
                              \/ ServiceName(request.batch) # Web
                              \/ Len(Spans(request.batch)) > MaxSpans>> >>
        met == {k \in DOMAIN refusals : refusals[k][2]}
    IN  IF met = {} THEN 202 ELSE refusals[Min(met)][1]

\* Nothing is kept from one batch to the next, so that one is enough.
TelemetryRequest(request, user) ==
    /\ answer = 0
    /\ answer' = Status(request, user)
    /\ sent' = [batch |-> request.batch, user |-> user]
    /\ logged' = IF answer' # 202 THEN <<>>
                 ELSE LET spans == Spans(request.batch) IN
                      [i \in DOMAIN spans |-> Written(spans[i], user)]
    /\ UNCHANGED door

-----------------------------------------------------------------------------
FrontInit ==
    /\ now = 1
    /\ arrival = [key \in Client \cup Proxy |-> 0]
    /\ admitted = [c \in Client |-> <<>>]
    /\ answer = 0 /\ sent = [batch |-> [size |-> 0, resources |-> <<>>], user |-> NoUser] /\ logged = <<>>

DoorNext ==
    \/ \E c \in Client, way \in Way, safe \in BOOLEAN, header \in BOOLEAN :
          SignInRequest(c, way, [safe |-> safe, header |-> header])
    \/ Tick

LogNext ==
    \E batch \in Batch, user \in User \cup {NoUser}, header \in BOOLEAN, enabled \in BOOLEAN,
       encoding \in {"json", "protobuf", "malformed", "other"} :
        TelemetryRequest([safe |-> FALSE, header |-> header, enabled |-> enabled,
                          encoding |-> encoding, batch |-> batch], user)

FrontSpec == FrontInit /\ [][DoorNext \/ LogNext]_frontVars

-----------------------------------------------------------------------------
\* A client has no more of its sign-in requests let through, in any stretch of time, than the burst and
\* what the limiter gave back meanwhile, whatever it writes in X-Forwarded-For and by whichever of the
\* proxies its requests come ("an attacker can opt out of", rate_limit.rs:10).
LimitHolds ==
    \A c \in Client : \A i, j \in DOMAIN admitted[c] :
        i <= j => j - i + 1 <= AuthBurst + (admitted[c][j] - admitted[c][i]) \div AuthPeriod

\* A batch is written whole or not at all, only for someone who is signed in, and under the name of that
\* user and of the web interface, whatever the batch says; of the rest a span keeps its first allowed
\* attributes that have a text, up to the limit, and nothing else.
KeptKeys(span) ==
    LET good == {i \in DOMAIN span : span[i].key \in {"http.method", "url.path"} /\ span[i].value # "list"}
    IN  {span[i].key : i \in {i \in good : Cardinality({j \in good : j < i}) < MaxAttributes}}

SpansAreTheServers ==
    /\ answer # 202 => logged = <<>>
    /\ answer = 202 =>
          /\ sent.user # NoUser
          /\ Len(logged) = Len(Spans(sent.batch)) /\ Len(logged) <= MaxSpans
          /\ \A i \in DOMAIN logged :
                /\ logged[i]["user.id"] = sent.user /\ logged[i]["service.name"] = Web
                /\ DOMAIN logged[i] \ {"user.id", "service.name"} = KeptKeys(Spans(sent.batch)[i])
=============================================================================
