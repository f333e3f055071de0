------------------------------ MODULE Sandbox -------------------------------
(***************************************************************************)
(* A chapter's pages, from the source's code in its sandbox to the images  *)
(* that are packaged (crates/aidoku-runtime/src/source.rs, resource.rs,    *)
(* imports/bindings.rs, imports/net.rs, adapter.rs, fetcher.rs and         *)
(* crates/jobs/src/handlers/download.rs).                                  *)
(*                                                                         *)
(* An attempt of the job instantiates the module anew.  The guest holds    *)
(* numbers for what the host keeps in the table of this one call, may use  *)
(* and release them in any order, and ends with a list of pages or an      *)
(* error.  Then the pages are fetched, some at once.  What fails, and how, *)
(* decides whether the job is attempted again.                             *)
(***************************************************************************)
EXTENDS Integers, Sequences, FiniteSets, Egress

CONSTANTS Url,
          Asked, Image,  \* the URLs a guest asks for, and those of images
          Named,         \* the bases it names for a text of its own
          Site,          \* how the site behind a URL answers; see Natures
          Addresses,     \* what the host of a URL resolves to
          Outside,       \* the addresses that are beyond this network
          Final,         \* where a URL leads, after redirects
          None,
          MaxHandles,    \* bound: handles of one call
          MaxBatch,      \* bound: requests of one send_all
          MaxPages,      \* bound: pages of the chapter
          InFlight,      \* SEND_ALL_CONCURRENCY
          PageConcurrency,
          MaxAttempts

\* gone: a 404.  slow: it may answer, or with 503, or too late.  down: the connection is not
\* accepted.  barred: the resolver refuses the host, or one that it redirects to.
Natures == {"well", "gone", "slow", "barred", "down"}

Nature(u) == IF Vetted(Addresses[u]) /\ Vetted(Addresses[Final[u]]) THEN Site[u] ELSE "barred"

ASSUME SandboxAssumption ==
    /\ Site \in [Url -> Natures] /\ Final \in [Url -> Url]
    /\ None \notin Url /\ Asked \cup Image \cup Named \subseteq Url
    /\ {MaxHandles, MaxBatch, MaxPages, InFlight, PageConcurrency, MaxAttempts} \subseteq Nat \ {0}

VARIABLES download,   \* the attempts made, and whether it is waiting, running or over
          table,      \* handle -> the resource behind it
          next,       \* the last handle given out
          batch,      \* the send or send_all the guest waits for
          failed,     \* whether a request failed in this attempt
          fetch,      \* the pages being fetched
          came,       \* history: handle of a document -> where it came from
          answered,   \* history: handle of a request -> the URL that was last answered for it
          met         \* history: the natures of the pages this attempt began

call == <<table, next, batch, failed, came, answered>>
sandboxVars == <<download, call, fetch, met>>

-----------------------------------------------------------------------------
Handle   == 1..MaxHandles
Response == [asked : Url, final : Url]
NoResponse == [asked |-> None, final |-> None]

\* kind, the URL and the response of a request, the document of a node or a list and its base.
Resource == [kind : {"none", "buffer", "request", "node", "list"}, url : Url \cup {None},
             response : Response \cup {NoResponse}, doc : 0..MaxHandles, base : Url \cup {None}]

Free    == [kind |-> "none", url |-> None, response |-> NoResponse, doc |-> 0, base |-> None]
Buffer  == [Free EXCEPT !.kind = "buffer"]
NetRequest == [Free EXCEPT !.kind = "request"]

NoBatch == [rids |-> <<>>, asks |-> <<>>, done |-> <<>>, out |-> <<>>]
NoFetch == [pages |-> <<>>, started |-> 0, got |-> <<>>]

SandboxTypeOK ==
    /\ download \in [state : {"waiting", "calling", "fetching", "packaged", "failed"},
                attempts : 0..MaxAttempts]
    /\ table \in [Handle -> Resource]
    /\ next \in 0..MaxHandles
    /\ failed \in BOOLEAN
    /\ DOMAIN batch.out = DOMAIN batch.rids
    /\ \A i \in DOMAIN fetch.got : fetch.got[i].index \in DOMAIN fetch.pages
    /\ came \in [Handle -> Url \cup {None}] /\ answered \in [Handle -> Url \cup {None}]
    /\ met \subseteq Natures

NoTable == [h \in Handle |-> Free]
NoUrls  == [h \in Handle |-> None]

SandboxInit ==
    /\ download = [state |-> "waiting", attempts |-> 0]
    /\ table = NoTable /\ next = 0 /\ batch = NoBatch /\ failed = FALSE
    /\ came = NoUrls /\ answered = NoUrls
    /\ fetch = NoFetch /\ met = {}

-----------------------------------------------------------------------------
\* The job.  Invocation::new: a store, and with it a table, of its own for every call.
Starts(state) ==
    /\ download.state = "waiting"
    /\ download' = [state |-> state, attempts |-> download.attempts + 1]
    /\ met' = {}
    /\ UNCHANGED <<call, fetch>>

Begin == Starts("calling")

\* The module is not in memory: another attempt would not put it there.
NotLoaded == Starts("failed")

\* The store goes with the call.
Dropped ==
    /\ table' = NoTable /\ next' = 0 /\ batch' = NoBatch /\ failed' = FALSE
    /\ came' = NoUrls /\ answered' = NoUrls

\* The end of an attempt: the worker hands is_retryable to fail.
Ends(retryable) ==
    /\ download' = [download EXCEPT !.state = IF retryable /\ download.attempts < MaxAttempts THEN "waiting"
                                    ELSE "failed"]
    /\ Dropped
    /\ fetch' = NoFetch
    /\ UNCHANGED met

-----------------------------------------------------------------------------
\* The imports.  A number that names nothing, or something of another kind, changes nothing.
InGuest == download.state = "calling" /\ batch = NoBatch

Is(h, kind) == table[h].kind = kind

NewHandle == next + 1

Insert(resource) ==
    /\ NewHandle \in Handle
    /\ table' = [table EXCEPT ![NewHandle] = resource]
    /\ next' = NewHandle

\* net.init.
MakeRequest ==
    /\ InGuest
    /\ Insert(NetRequest)
    /\ answered' = [answered EXCEPT ![NewHandle] = None]
    /\ UNCHANGED <<download, batch, failed, came, fetch, met>>

\* A text that the guest may then read: a buffer of its own.
MakeBuffer ==
    /\ InGuest
    /\ Insert(Buffer)
    /\ UNCHANGED <<download, batch, failed, came, answered, fetch, met>>

\* defaults.get, html.escape and unescape; get_url and get_header of a response; a node's attributes
\* and texts.
Setting == MakeBuffer

ReadResponse(h) == Is(h, "request") /\ table[h].response # NoResponse /\ MakeBuffer

ReadNode(h) == Is(h, "node") /\ MakeBuffer

Destroy(h) ==
    /\ InGuest
    /\ table[h] # Free
    /\ table' = [table EXCEPT ![h] = Free]
    /\ UNCHANGED <<download, next, batch, failed, came, answered, fetch, met>>

\* The response to what was asked before stays until another arrives.
SetUrl(h, u) ==
    /\ InGuest
    /\ Is(h, "request")
    /\ table' = [table EXCEPT ![h].url = u]
    /\ UNCHANGED <<download, next, batch, failed, came, answered, fetch, met>>

\* net.html: the base is where the response came from.
Base(h) == table[h].response.final

Parse(h) ==
    /\ InGuest
    /\ Is(h, "request") /\ table[h].response # NoResponse
    /\ Insert([Free EXCEPT !.kind = "node", !.doc = NewHandle, !.base = Base(h)])
    /\ came' = [came EXCEPT ![NewHandle] = Final[answered[h]]]
    /\ UNCHANGED <<download, batch, failed, answered, fetch, met>>

\* html.parse: a text that the guest has, under a base it names.
ParseText(base) ==
    /\ InGuest
    /\ Insert([Free EXCEPT !.kind = "node", !.doc = NewHandle, !.base = base])
    /\ came' = [came EXCEPT ![NewHandle] = base]
    /\ UNCHANGED <<download, batch, failed, answered, fetch, met>>

\* Other places of the document that a node or a list is of.  The document is shared, so that what
\* is removed from it, or rewritten, leaves every handle as it is.
Reaches(h, kind) ==
    /\ Insert([table[h] EXCEPT !.kind = kind])
    /\ UNCHANGED <<download, batch, failed, came, answered, fetch, met>>

\* select, children, siblings.
Select(h) ==
    /\ InGuest
    /\ Is(h, "node")
    /\ Reaches(h, "list")

\* get, first, last; select_first, parent, next, previous.
Walk(h) ==
    /\ InGuest
    /\ Is(h, "node") \/ Is(h, "list")
    /\ Reaches(h, "node")

-----------------------------------------------------------------------------
\* net.send is a batch of one.  send_all refuses the whole batch if one number is no request.
Sendable == {rids \in UNION {[1..n -> Handle] : n \in 1..MaxBatch} :
                \A i \in DOMAIN rids : Is(rids[i], "request")}

Send(rids) ==
    /\ InGuest
    /\ batch' = [rids |-> rids, asks |-> [i \in DOMAIN rids |-> table[rids[i]].url],
                 done |-> <<>>, out |-> [i \in DOMAIN rids |-> NoResponse]]
    /\ UNCHANGED <<download, table, next, failed, came, answered, fetch, met>>

\* VettingResolver and dial errors: no connection is made.
Unreachable == {"barred", "down"}

\* A status is a response like another; no URL, a refused host, a timeout and the like are codes.
MayAnswer(u) ==
    LET answer == [asked |-> u, final |-> Final[u]] IN
    IF u = None THEN {NoResponse}
    ELSE CASE Nature(u) \in {"well", "gone"} -> {answer}
           [] Nature(u) = "slow" -> {answer, NoResponse}
           [] Nature(u) \in Unreachable -> {NoResponse}

\* The requests run InFlight at a time, and the next ones when all of these are joined.
Chunk(i) == (i - 1) \div InFlight

Answer(i) ==
    /\ i \in DOMAIN batch.rids
    /\ \A j \in 1..Len(batch.done) : batch.done[j] # i
    /\ Chunk(i) = Len(batch.done) \div InFlight
    /\ \E answer \in MayAnswer(batch.asks[i]) :
          batch' = [batch EXCEPT !.done = Append(@, i), !.out[i] = answer]
    /\ UNCHANGED <<download, table, next, failed, came, answered, fetch, met>>

\* The threads are joined in the order they were started.
BadResults == [i \in DOMAIN batch.rids |-> batch.out[batch.done[i]]]
Results    == batch.out

Stored(h, old, out, what) ==
    LET hits == {i \in DOMAIN batch.rids : batch.rids[i] = h /\ out[i] # NoResponse} IN
    IF hits = {} THEN old ELSE what[CHOOSE i \in hits : \A j \in hits : j <= i]

Collect ==
    /\ batch.rids # <<>> /\ Len(batch.done) = Len(batch.rids)
    /\ table' = [h \in Handle |-> [table[h] EXCEPT
                    !.response = Stored(h, @, Results, Results)]]
    /\ answered' = [h \in Handle |-> Stored(h, answered[h], batch.out, batch.asks)]
    /\ failed' = (failed \/ \E i \in DOMAIN batch.rids : batch.out[i] = NoResponse)
    /\ batch' = NoBatch
    /\ UNCHANGED <<download, next, came, fetch, met>>

-----------------------------------------------------------------------------
\* Invocation::call and map_run_error.  Malformed results, traps, missing exports, messages and
\* every other code are final; so are pages that are no URLs, or too many (to_refs).
GuestRetry(why) == why = "request"

Lists == UNION {[1..n -> Image] : n \in 1..MaxPages}

\* A guest says "request" of a request that failed (its SDK does): the host cannot tell.
Return ==
    /\ InGuest
    /\ \/ \E why \in {"request", "other"} : (why = "request" => failed) /\ Ends(GuestRetry(why))
       \/ Ends(TRUE)                                          \* no pages: tried again
       \/ \E pages \in Lists :
             /\ download' = [download EXCEPT !.state = "fetching"]
             /\ Dropped
             /\ fetch' = [NoFetch EXCEPT !.pages = pages]
             /\ UNCHANGED met

\* VettedFetcher::fetch: the image, or how it failed.
Fetched(u) ==
    CASE Nature(u) = "well" -> {"image"}
      [] Nature(u) = "slow" -> {"image", "timeout", "busy", "cut"}
      [] Nature(u) = "gone" -> {"notFound"}
      [] Nature(u) \in Unreachable -> {"connect"}

BadRetryable(error) == error \in {"timeout", "cut"}
Retryable(error)    == error \in {"timeout", "busy", "cut"}

StartPage ==
    /\ download.state = "fetching"
    /\ fetch.started < Len(fetch.pages)
    /\ fetch.started - Len(fetch.got) < PageConcurrency
    /\ fetch' = [fetch EXCEPT !.started = @ + 1]
    /\ met' = met \cup {Nature(fetch.pages[fetch.started + 1])}
    /\ UNCHANGED <<download, call>>

Under == {i \in 1..fetch.started : \A j \in DOMAIN fetch.got : fetch.got[j].index # i}

\* The first error ends the attempt, whatever the others are about to come to.
EndPage(i) ==
    /\ download.state = "fetching"
    /\ i \in Under
    /\ \E end \in Fetched(fetch.pages[i]) :
          IF end = "image"
          THEN /\ fetch' = [fetch EXCEPT !.got = Append(@, [index |-> i, of |-> fetch.pages[i]])]
               /\ UNCHANGED <<download, call, met>>
          ELSE Ends(Retryable(end))

Package ==
    /\ download.state = "fetching"
    /\ Len(fetch.got) = Len(fetch.pages)
    /\ download' = [download EXCEPT !.state = "packaged"]
    /\ UNCHANGED <<call, fetch, met>>

-----------------------------------------------------------------------------
Import ==
    \/ MakeRequest \/ Setting
    \/ \E u \in Named \cup {None} : ParseText(u)
    \/ \E h \in Handle : \/ Destroy(h) \/ Parse(h) \/ ReadResponse(h) \/ ReadNode(h)
                         \/ \E u \in Asked : SetUrl(h, u)
                         \/ Select(h) \/ Walk(h)
    \/ \E rids \in Sendable : Send(rids)

SandboxNext ==
    \/ Begin \/ NotLoaded \/ Import \/ Collect \/ Return \/ StartPage \/ Package
    \/ \E i \in 1..MaxBatch : Answer(i)
    \/ \E i \in 1..MaxPages : EndPage(i)

SandboxSpec == SandboxInit /\ [][SandboxNext]_sandboxVars

-----------------------------------------------------------------------------
\* Whatever a guest sends together, in whatever order it is answered, and however it reuses its
\* requests: a response under a number is to what was asked under that number, and an element
\* knows the address its document came from (resource.rs: losing it "is what made every
\* HTML-scraping source return zero entries"), whatever became of the request and the document; and no
\* answer comes from a host within this network, be it by a redirect.
AnswersAreItsOwn ==
    /\ SandboxTypeOK
    /\ \A h \in Handle : table[h].response # NoResponse =>
          Addresses[table[h].response.final] \subseteq Outside
    /\ \A h \in Handle :
          /\ Is(h, "request") => table[h].response.asked = answered[h]
          /\ table[h].kind \in {"node", "list"} => table[h].base = came[table[h].doc]

\* fetcher.rs on retryable: getting it backwards "either burns every attempt on a permanent
\* failure or gives up on a site that was briefly slow".  Another attempt at the pages is made only
\* if one of those begun could come out otherwise, and none is given up for slow sites alone.
AttemptsAreSpentWell ==
    [][/\ download.state = "fetching" /\ download'.state = "waiting" => "slow" \in met
       /\ download.state = "fetching" /\ download'.state = "failed" /\ download.attempts < MaxAttempts =>
             met \cap {"gone", "barred", "down"} # {}]_sandboxVars
=============================================================================
