--------------------------- MODULE SourceLimiter ---------------------------
(***************************************************************************)
(* The concurrency limit of each source, crates/jobs/src/limiter.rs, and   *)
(* the handlers that ask it for permits: a download asks for one to list a *)
(* chapter's pages and then for one per page (download.rs); a follow check *)
(* or a refresh asks for one for the whole of what it reads (follow.rs),   *)
(* which is a listing without pages.                                       *)
(*                                                                         *)
(* The limiter's map holds the newest semaphore of a source.  The older    *)
(* ones live on for the requests that have them: budget[s] keeps them all, *)
(* in the order of their creation.                                         *)
(***************************************************************************)
EXTENDS Integers, Sequences, FiniteSets

CONSTANTS Source,           \* the installed sources
          NoSource,         \* the source of an idle handler
          Handler,          \* the workers: each runs one handler at a time
          MaxPages,         \* pages of a chapter (max_pages)
          PageConcurrency,  \* pages of a chapter asked for at once (page_concurrency)
          DefaultPermits,   \* the operator's ceiling (source_max_concurrency)
          Declaration,      \* the permits a source's module declares in its start
          Looping,          \* the sources whose module does not return from a call
          MaxBudgets        \* bound: the semaphores a source ever has between two restarts

Undeclared == 0             \* None; from_wire makes it of a count that is not positive

ASSUME LimiterAssumption ==
    /\ NoSource \notin Source
    /\ IsFiniteSet(Handler)
    /\ MaxPages \in Nat
    /\ PageConcurrency \in Nat
    /\ DefaultPermits \in Nat
    /\ Declaration \in [Source -> Nat]
    /\ Looping \subseteq Source
    /\ MaxBudgets \in Nat \ {0}

VARIABLES source,       \* the source a handler talks to
          request,      \* what a handler's requests are at; 0 is the list, 1.. are the pages
          ahead,        \* the requests that came to the semaphore before one that waits
          budget,       \* the semaphores of a source
          declared      \* what the modules of the sources have declared so far

vars == <<source, request, ahead, budget, declared>>

-----------------------------------------------------------------------------
Request == Handler \X (0..MaxPages)
Of(h)   == {h} \X (0..MaxPages)
Working(h) == source[h] # NoSource

\* "none": not part of the handler's work.  "due": its future has not been polled yet.
Status == {"none", "due", "waiting", "running", "done"}

Cap == IF DefaultPermits < 1 THEN 1 ELSE DefaultPermits
Least(a, b) == IF a < b THEN a ELSE b

\* register: the stricter of the two wins, and is never 0.
Permits(limit) ==
    IF limit = Undeclared THEN Cap ELSE Least(limit, Cap)

Semaphore == [permits : 1..Cap, holders : SUBSET Request, waiting : SUBSET Request]
Fresh(limit) == [permits |-> Permits(limit), holders |-> {}, waiting |-> {}]

TypeOK ==
    /\ source \in [Handler -> Source \cup {NoSource}]
    /\ request \in [Request -> Status]
    /\ ahead \in [Request -> SUBSET Request]
    /\ budget \in [Source -> Seq(Semaphore)]
    /\ declared \in [Source -> Nat]

\* The limit in the row of a source: install_bytes writes None, and COALESCE keeps what was
\* there, which is None.
StoredLimit(s) == Undeclared

\* At startup every row's limit is registered; if the rows cannot be read, none is.
Registered == {[s \in Source |-> <<Fresh(StoredLimit(s))>>], [s \in Source |-> <<>>]}

Init ==
    /\ source = [h \in Handler |-> NoSource]
    /\ request = [r \in Request |-> "none"]
    /\ ahead = [r \in Request |-> {}]
    /\ budget \in Registered
    /\ declared = [s \in Source |-> Undeclared]

-----------------------------------------------------------------------------
\* acquire: the newest semaphore of the source, made now if there is none.  The permit is
\* awaited outside the map's lock, so a registration may come between, and changes nothing:
\* the request has its semaphore.
Budgets(s) == IF budget[s] = <<>> THEN <<Fresh(Undeclared)>> ELSE budget[s]

Joined(s, r) ==
    LET newest == Len(Budgets(s))
    IN  /\ ahead' = [ahead EXCEPT ![r] = Budgets(s)[newest].waiting]
        /\ budget' = [budget EXCEPT ![s] =
                          [Budgets(s) EXCEPT ![newest].waiting = @ \cup {r}]]

\* Permits released and places in a queue given up, by dropping the futures of requests.
Without(done) ==
    [s \in Source |->
        [k \in DOMAIN budget[s] |->
            [budget[s][k] EXCEPT !.holders = @ \ done, !.waiting = @ \ done]]]

Unqueued(done) == [r \in Request |-> IF r \in done THEN {} ELSE ahead[r] \ done]

\* A handler is started for a job, and asks before it calls the source.
Begin(h, s) ==
    /\ ~Working(h)
    /\ source' = [source EXCEPT ![h] = s]
    /\ request' = [request EXCEPT ![<<h, 0>>] = "waiting"]
    /\ Joined(s, <<h, 0>>)
    /\ UNCHANGED declared

\* tokio's semaphore is fair: its permits go to the requests in the order they came.
BadGrant(s, k, r) ==
    /\ r \in budget[s][k].waiting
    /\ ahead[r] = {}
    /\ request' = [request EXCEPT ![r] = "running"]
    /\ ahead' = Unqueued({r})
    /\ budget' = [budget EXCEPT ![s][k].waiting = @ \ {r}, ![s][k].holders = @ \cup {r}]
    /\ UNCHANGED <<source, declared>>

Grant(s, k, r) ==
    /\ r \in budget[s][k].waiting
    /\ ahead[r] = {}
    /\ Cardinality(budget[s][k].holders) < budget[s][k].permits
    /\ request' = [request EXCEPT ![r] = "running"]
    /\ ahead' = Unqueued({r})
    /\ budget' = [budget EXCEPT ![s][k].waiting = @ \ {r}, ![s][k].holders = @ \cup {r}]
    /\ UNCHANGED <<source, declared>>

\* The handler returns, or fails, or panics: all its futures are dropped.
Leave(h) ==
    /\ source' = [source EXCEPT ![h] = NoSource]
    /\ request' = [r \in Request |-> IF r \in Of(h) THEN "none" ELSE request[r]]
    /\ ahead' = Unqueued(Of(h))
    /\ budget' = Without(Of(h))

\* A call of a module ends when the module returns.  Its store has an epoch deadline, but nothing
\* advances the epoch of the engine, so there is no other end to it.
Returned(h) == request[<<h, 0>>] = "running" /\ source[h] \notin Looping

\* The list is there: its permit goes back before any page is asked for.  The module's start
\* has run by then, and what it declared was kept in the state of this one call.
Declared(h) == declared' = [declared EXCEPT ![source[h]] = Declaration[source[h]]]

BadListed(h) ==
    /\ Returned(h)
    /\ \E n \in 1..MaxPages :
           request' = [r \in Request |->
                          IF r \in {h} \X (1..n) THEN "due"
                          ELSE IF r = <<h, 0>> THEN "done" ELSE request[r]]
    /\ Declared(h)
    /\ UNCHANGED <<source, ahead, budget>>

Listed(h) ==
    /\ Returned(h)
    /\ \E n \in 1..MaxPages :
           request' = [r \in Request |->
                          IF r \in {h} \X (1..n) THEN "due"
                          ELSE IF r = <<h, 0>> THEN "done" ELSE request[r]]
    /\ ahead' = Unqueued({<<h, 0>>})
    /\ budget' = Without({<<h, 0>>})
    /\ Declared(h)
    /\ UNCHANGED source

\* A follow check or a refresh has read what it wanted, or a chapter has no pages.
ListedNothing(h) ==
    /\ Returned(h)
    /\ Leave(h)
    /\ Declared(h)

\* buffer_unordered polls the next page's future, in order, while there is room.
Active(h) == {r \in Of(h) : request[r] \in {"waiting", "running"}}

Ask(h, p) ==
    /\ request[<<h, p>>] = "due"
    /\ \A q \in 1..MaxPages : q < p => request[<<h, q>>] # "due"
    /\ Cardinality(Active(h)) < (IF PageConcurrency < 1 THEN 1 ELSE PageConcurrency)
    /\ request' = [request EXCEPT ![<<h, p>>] = "waiting"]
    /\ Joined(source[h], <<h, p>>)
    /\ UNCHANGED <<source, declared>>

\* A page is there.  With the last one the handler goes on to package the chapter and returns.
LastPage(h, p) == \A q \in 1..MaxPages : q # p => request[<<h, q>>] \in {"none", "done"}

Fetched(h, p) ==
    /\ request[<<h, p>>] = "running"
    /\ ~LastPage(h, p)
    /\ request' = [request EXCEPT ![<<h, p>>] = "done"]
    /\ ahead' = Unqueued({<<h, p>>})
    /\ budget' = Without({<<h, p>>})
    /\ UNCHANGED <<source, declared>>

FetchedLast(h, p) ==
    /\ request[<<h, p>>] = "running"
    /\ LastPage(h, p)
    /\ Leave(h)
    /\ UNCHANGED declared

\* A request fails, or its page takes the chapter over its size: the handler gives up.
Fail(h, p) ==
    /\ request[<<h, p>>] = "running"
    /\ p = 0 => Returned(h)
    /\ Leave(h)
    /\ UNCHANGED declared

\* POST /sources for a source that is installed: register replaces the semaphore.  The limit
\* that install returns is None, whatever the module has declared.
Reinstall(s) ==
    /\ Len(budget[s]) < MaxBudgets
    /\ budget' = [budget EXCEPT ![s] = Append(@, Fresh(Undeclared))]
    /\ UNCHANGED <<source, request, ahead, declared>>

\* The process ends and starts again.
Restart ==
    /\ source' = [h \in Handler |-> NoSource]
    /\ request' = [r \in Request |-> "none"]
    /\ ahead' = [r \in Request |-> {}]
    /\ budget' \in Registered
    /\ UNCHANGED declared

HandlerStep(h) ==
    \/ \E s \in Source : Begin(h, s)
    \/ Listed(h)
    \/ ListedNothing(h)
    \/ \E p \in 1..MaxPages : Ask(h, p) \/ Fetched(h, p) \/ FetchedLast(h, p)
    \/ \E p \in 0..MaxPages : Fail(h, p)

SemaphoreStep(s) == \E k \in DOMAIN budget[s], r \in Request : Grant(s, k, r)

Next ==
    \/ \E h \in Handler : HandlerStep(h)
    \/ \E s \in Source : SemaphoreStep(s) \/ Reinstall(s)
    \/ Restart

Spec == Init /\ [][Next]_vars

\* A future that is ready is polled; a permit that is free is handed over; a page is answered
\* by the site or by the client's timeout, a call of a module that returns by its return.
Fairness ==
    /\ \A h \in Handler :
         /\ WF_vars(Listed(h) \/ ListedNothing(h) \/ Fail(h, 0))
         /\ \A p \in 1..MaxPages :
              /\ WF_vars(Ask(h, p))
              /\ WF_vars(Fetched(h, p) \/ FetchedLast(h, p) \/ Fail(h, p))
    /\ \A s \in Source : \A k \in 1..MaxBudgets : \A r \in Request :
         WF_vars(k \in DOMAIN budget[s] /\ Grant(s, k, r))

FairSpec == Spec /\ Fairness

-----------------------------------------------------------------------------
InFlight(s) == {r \in Request : request[r] = "running" /\ source[r[1]] = s}

\* The cap is the number of requests the site sees at once, over all handlers, as long as the
\* source's semaphore has not been replaced since the process started.
CapHolds ==
    \A s \in Source : Len(budget[s]) <= 1 => Cardinality(InFlight(s)) <= Cap

\* A permit and the request it is for belong together: each request that runs has a permit of
\* its source, each permit taken is held by a request that runs, and a request that waits does
\* so in one queue.  No error path or panic of a handler loses a permit.
PermitsAreUsed ==
    /\ \A s \in Source : \A k \in DOMAIN budget[s] :
         /\ Cardinality(budget[s][k].holders) <= budget[s][k].permits
         /\ budget[s][k].holders \subseteq InFlight(s)
    /\ \A s \in Source : \A r \in InFlight(s) :
         \E k \in DOMAIN budget[s] : r \in budget[s][k].holders

WaitersWait ==
    \A s \in Source : \A k \in DOMAIN budget[s] : \A r \in budget[s][k].waiting :
        /\ request[r] = "waiting"
        /\ source[r[1]] = s
        /\ \A l \in DOMAIN budget[s] : r \in budget[s][l].waiting => l = k

IdleAsksNothing ==
    \A r \in Request : ~Working(r[1]) => request[r] = "none"

ListComesFirst ==
    \A h \in Handler : \A p \in 1..MaxPages :
        request[<<h, p>>] # "none" => request[<<h, 0>>] = "done"

IInv == TypeOK /\ PermitsAreUsed /\ WaitersWait /\ IdleAsksNothing /\ ListComesFirst

\* Every handler that has begun ends: no request waits for ever, not for a permit that its own
\* handler holds either.
HandlersReturn == \A h \in Handler : Working(h) ~> ~Working(h)
=============================================================================
