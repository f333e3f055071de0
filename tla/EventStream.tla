----------------------------- MODULE EventStream -----------------------------
(***************************************************************************)
(* Live updates: the events that workers publish (crates/jobs/src/         *)
(* worker.rs), the broadcast channel and the streams that carry them       *)
(* (crates/api/src/state.rs and sse.rs), the browsers that refetch what an *)
(* event or a lost stream made stale (web/src/shared/sse), and the server  *)
(* that starts and stops around them (run of crates/api/src/lib.rs).       *)
(*                                                                         *)
(* What a browser shows is the jobs as its last finished fetch read them.  *)
(* An event on its way is in the stream's buffer until the browser has     *)
(* handled it; both sides of a stream are lost together.                   *)
(***************************************************************************)
EXTENDS Integers, Sequences, FiniteSets

CONSTANTS Client, Job,
          Capacity,      \* EVENT_CAPACITY
          MaxEvents,     \* bound: progress events and retries
          MaxLosses      \* bound: lost streams and killed servers

ASSUME EventAssumption ==
    /\ Capacity \in Nat \ {0} /\ MaxEvents \in Nat /\ MaxLosses \in Nat

VARIABLES server,     \* "up", "stopping" (the listener is closed) or "down"
          job,        \* the rows
          unsent,     \* the jobs whose last change a worker has still to publish
          stream,     \* client -> its subscription, see Stream
          fetch,      \* client -> a fetch of its lists: "none", "asked" or "answered"
          answer, view,
          bars,       \* client -> the jobs whose progress it shows
          missed,     \* history: the clients that events have not reached since they opened
          events, losses

served == <<server, job, unsent>>
shown  == <<fetch, answer, view, bars, missed>>
eventVars == <<server, job, unsent, stream, fetch, answer, view, bars, missed, events, losses>>

-----------------------------------------------------------------------------
JobState == {"queued", "running", "done"}
Event    == [kind : {"progress", "retried", "ended"}, job : Job]

\* at: "closed"; "opening" once the server has subscribed for it; "live" after the browser's onopen.
Stream == [at : {"closed", "opening", "live"}, buffer : Seq(Event), lagged : BOOLEAN]
Closed == [at |-> "closed", buffer |-> <<>>, lagged |-> FALSE]

EventsTypeOK ==
    /\ server \in {"up", "stopping", "down"}
    /\ job \in [Job -> JobState]
    /\ unsent \subseteq Job
    /\ stream \in [Client -> Stream]
    /\ \A c \in Client : Len(stream[c].buffer) <= Capacity
    /\ fetch \in [Client -> {"none", "asked", "answered"}]
    /\ answer \in [Client -> [Job -> JobState]] /\ view \in [Client -> [Job -> JobState]]
    /\ bars \in [Client -> SUBSET Job]
    /\ missed \subseteq Client
    /\ events \in 0..MaxEvents /\ losses \in 0..MaxLosses

Queued == [j \in Job |-> "queued"]

EventsInit ==
    /\ server = "up"
    /\ job = Queued
    /\ unsent = {}
    /\ stream = [c \in Client |-> Closed]
    /\ fetch = [c \in Client |-> "none"]
    /\ answer = [c \in Client |-> Queued] /\ view = [c \in Client |-> Queued]
    /\ bars = [c \in Client |-> {}]
    /\ missed = {}
    /\ events = 0 /\ losses = 0

-----------------------------------------------------------------------------
\* BroadcastBus::publish: to every subscription there is.  One that is full loses its oldest event
\* and is told so at its next receive.
Publish(e) ==
    stream' = [c \in Client |->
                 IF stream[c].at = "closed" THEN stream[c]
                 ELSE IF Len(stream[c].buffer) < Capacity
                 THEN [stream[c] EXCEPT !.buffer = Append(@, e)]
                 ELSE [stream[c] EXCEPT !.buffer = Append(Tail(@), e), !.lagged = TRUE]]

\* A worker claims a job; nothing is published.
Claim(j) ==
    /\ server # "down"
    /\ job[j] = "queued" /\ j \notin unsent
    /\ job' = [job EXCEPT ![j] = "running"]
    /\ UNCHANGED <<server, unsent, stream, shown, events, losses>>

\* download.rs: one event per page.
Progress(j) ==
    /\ server # "down"
    /\ job[j] = "running"
    /\ events < MaxEvents
    /\ events' = events + 1
    /\ Publish([kind |-> "progress", job |-> j])
    /\ UNCHANGED <<served, shown, losses>>

\* run_worker: the outcome is committed first and published after.
BadAnnounce(j) == stream' = stream
Announce(j)    == Publish([kind |-> IF job[j] = "done" THEN "ended" ELSE "retried", job |-> j])

Finish(j) ==
    /\ server # "down"
    /\ job[j] = "running"
    /\ job' = [job EXCEPT ![j] = "done"]
    /\ unsent' = unsent \cup {j}
    /\ UNCHANGED <<server, stream, shown, events, losses>>

Retry(j) ==
    /\ server # "down"
    /\ job[j] = "running"
    /\ events < MaxEvents
    /\ events' = events + 1
    /\ job' = [job EXCEPT ![j] = "queued"]
    /\ unsent' = unsent \cup {j}
    /\ UNCHANGED <<server, stream, shown, losses>>

SendEvent(j) ==
    /\ j \in unsent
    /\ unsent' = unsent \ {j}
    /\ Announce(j)
    /\ UNCHANGED <<server, job, shown, events, losses>>

-----------------------------------------------------------------------------
\* EventSource connects, and connects again for as long as the page is open.
Connect(c) ==
    /\ server = "up"
    /\ stream[c].at = "closed"
    /\ stream' = [stream EXCEPT ![c] = [Closed EXCEPT !.at = "opening"]]
    /\ UNCHANGED <<served, shown, events, losses>>

\* invalidateQueries: a fetch under way is cancelled and made again.
Refetch(c) == fetch' = [fetch EXCEPT ![c] = "asked"]

\* onopen invalidates everything, the first time too.
Open(c) ==
    /\ stream[c].at = "opening"
    /\ stream' = [stream EXCEPT ![c].at = "live"]
    /\ Refetch(c)
    /\ UNCHANGED <<served, answer, view, bars, missed, events, losses>>

\* The next of a stream: what was lost is reported before what is left, and a browser that is told
\* so invalidates everything.
BadLag(c) ==
    /\ stream[c].at = "live" /\ stream[c].lagged
    /\ stream' = [stream EXCEPT ![c].lagged = FALSE]
    /\ missed' = missed \cup {c}
    /\ UNCHANGED <<served, fetch, answer, view, bars, events, losses>>

Lag(c) ==
    /\ stream[c].at = "live" /\ stream[c].lagged
    /\ stream' = [stream EXCEPT ![c].lagged = FALSE]
    /\ missed' = missed \cup {c}
    /\ Refetch(c)
    /\ UNCHANGED <<served, answer, view, bars, events, losses>>

\* applyEvent: progress goes to its own store, an outcome makes the lists stale, and an end takes
\* the progress away.
BadBarsAfter(c, e) == IF e.kind = "progress" THEN bars[c] \cup {e.job} ELSE bars[c]
BarsAfter(c, e) ==
    CASE e.kind = "progress" -> bars[c] \cup {e.job}
      [] e.kind = "retried"  -> bars[c]
      [] e.kind = "ended"    -> bars[c] \ {e.job}

Receive(c) ==
    /\ stream[c].at = "live" /\ ~stream[c].lagged /\ stream[c].buffer # <<>>
    /\ LET e == Head(stream[c].buffer) IN
       /\ bars' = [bars EXCEPT ![c] = BarsAfter(c, e)]
       /\ IF e.kind = "progress" THEN UNCHANGED fetch ELSE Refetch(c)
    /\ stream' = [stream EXCEPT ![c].buffer = Tail(@)]
    /\ UNCHANGED <<served, answer, view, missed, events, losses>>

\* The lists are read, and what was read arrives; a fetch that fails is made again.  A server that
\* is stopping still answers on the connections it has.
Answer(c) ==
    /\ server # "down"
    /\ fetch[c] = "asked"
    /\ fetch' = [fetch EXCEPT ![c] = "answered"]
    /\ answer' = [answer EXCEPT ![c] = job]
    /\ UNCHANGED <<served, stream, view, bars, missed, events, losses>>

Arrive(c) ==
    /\ fetch[c] = "answered"
    /\ fetch' = [fetch EXCEPT ![c] = "none"]
    /\ view' = [view EXCEPT ![c] = answer[c]]
    /\ UNCHANGED <<served, stream, answer, bars, missed, events, losses>>

\* The page is closed, or a proxy or the network ends its stream.
Lose(c) ==
    /\ stream[c].at # "closed"
    /\ losses < MaxLosses
    /\ losses' = losses + 1
    /\ stream' = [stream EXCEPT ![c] = Closed]
    /\ missed' = missed \cup {c}
    /\ UNCHANGED <<served, fetch, answer, view, bars, events>>

-----------------------------------------------------------------------------
\* SIGTERM: no new connection is taken.
Stop ==
    /\ server = "up"
    /\ losses < MaxLosses
    /\ losses' = losses + 1
    /\ server' = "stopping"
    /\ UNCHANGED <<job, unsent, stream, shown, events>>

\* serve returns once every connection is closed; a stream ends when the page closes it, or when
\* the last sender is dropped, which is after serve has returned.  Then the pool is drained and
\* what is left is queued again.
Served ==
    /\ server = "stopping"
    /\ \A c \in Client : stream[c].at = "closed"
    /\ unsent = {}
    /\ server' = "down"
    /\ job' = [j \in Job |-> IF job[j] = "running" THEN "queued" ELSE job[j]]
    /\ UNCHANGED <<unsent, stream, shown, events, losses>>

\* SIGKILL or a crash: what was committed stays, what was to be published is gone.
Kill ==
    /\ server # "down"
    /\ losses < MaxLosses
    /\ losses' = losses + 1
    /\ server' = "down"
    /\ unsent' = {}
    /\ stream' = [c \in Client |-> Closed]
    /\ missed' = Client
    /\ UNCHANGED <<job, fetch, answer, view, bars, events>>

\* recover_stale and the rest of run.
Start ==
    /\ server = "down"
    /\ server' = "up"
    /\ job' = [j \in Job |-> IF job[j] = "running" THEN "queued" ELSE job[j]]
    /\ UNCHANGED <<unsent, stream, shown, events, losses>>

WorkerStep  == \E j \in Job : Claim(j) \/ Finish(j) \/ SendEvent(j)
ClientStep(c) == Connect(c) \/ Open(c) \/ Lag(c) \/ Receive(c) \/ Answer(c) \/ Arrive(c)

EventsNext ==
    \/ WorkerStep
    \/ \E j \in Job : Progress(j) \/ Retry(j)
    \/ \E c \in Client : ClientStep(c) \/ Lose(c)
    \/ Stop \/ Served \/ Kill \/ Start

EventsSpec == EventsInit /\ [][EventsNext]_eventVars

\* Workers work, pages that are open handle what comes and ask again, and the server's own steps
\* come about.  No page has to be closed, no stream lost, nothing stopped.
FairSpec ==
    /\ EventsSpec
    /\ WF_eventVars(WorkerStep) /\ WF_eventVars(Served) /\ WF_eventVars(Start)
    /\ \A c \in Client : WF_eventVars(ClientStep(c))

-----------------------------------------------------------------------------
\* A page that looks live is: when its stream is open and it has nothing to receive or to fetch, it
\* shows every outcome that was published, whatever it missed on the way.
Quiet(c) == /\ stream[c].at = "live" /\ stream[c].buffer = <<>> /\ ~stream[c].lagged
            /\ fetch[c] = "none"

LooksLiveIsLive ==
    /\ EventsTypeOK
    /\ \A c \in Client : Quiet(c) =>
           \A j \in Job : job[j] = "done" /\ j \notin unsent => view[c][j] = "done"

\* A bar does not outlive its job on a page that no event has missed.
BarsEnd ==
    \A c \in Client : Quiet(c) /\ c \notin missed =>
        \A j \in bars[c] : job[j] # "done" \/ j \in unsent

(***************************************************************************)
(* What both rest on.  A page that is not fetching shows its last answer;  *)
(* an outcome that was published to an open page is in that answer, or     *)
(* will be asked for, or is still in its buffer or lost from it with a     *)
(* report to come; and on a page that missed nothing an end follows every  *)
(* progress it shows or has still to handle.                               *)
(***************************************************************************)
Over(j)  == job[j] = "done" /\ j \notin unsent
Ended(j) == [kind |-> "ended", job |-> j]
Moved(j) == [kind |-> "progress", job |-> j]

AnswerIsShown(c) == fetch[c] = "none" => view[c] = answer[c]

OutcomesAreOnTheWay(c) ==
    stream[c].at = "live" =>
        \A j \in Job : Over(j) =>
            \/ stream[c].lagged \/ fetch[c] = "asked" \/ answer[c][j] = "done"
            \/ \E i \in DOMAIN stream[c].buffer : stream[c].buffer[i] = Ended(j)

EndsAreOnTheWay(c) ==
    c \notin missed =>
        /\ stream[c].at = "closed" => bars[c] = {} /\ stream[c] = Closed
        /\ ~stream[c].lagged => \A j \in Job : Over(j) =>
              /\ j \in bars[c] => \E i \in DOMAIN stream[c].buffer : stream[c].buffer[i] = Ended(j)
              /\ \A i \in DOMAIN stream[c].buffer : stream[c].buffer[i] = Moved(j) =>
                    \E k \in DOMAIN stream[c].buffer : k > i /\ stream[c].buffer[k] = Ended(j)

EventsInv == /\ EventsTypeOK
        /\ \A c \in Client : AnswerIsShown(c) /\ OutcomesAreOnTheWay(c) /\ EndsAreOnTheWay(c)

\* Every page shows every end in the end, however its stream was lost and the server killed.
EveryViewCatchesUp ==
    \A c \in Client, j \in Job :
        job[j] = "done" ~> view[c][j] = "done" \/ server = "stopping"
=============================================================================
