----------------------------- MODULE WorkerPool -----------------------------
(***************************************************************************)
(* The job table under everything that moves its rows at the same time:    *)
(* the workers of crates/jobs/src/worker.rs, the operator's requests of    *)
(* crates/api/src/routes/jobs.rs, the scheduler's recovery, the start and  *)
(* the stop of the process (crates/api/src/lib.rs), and what can go wrong  *)
(* between two of their statements.                                        *)
(***************************************************************************)
EXTENDS JobQueue

CONSTANTS MaxRun,          \* the most ticks a worker spends on one claim
          Faults,          \* which disruptions happen, of FaultKind
          MaxDisruptions,  \* bound on their number
          MaxDead,         \* bound on the workers lost to a panic at a time
          Requests         \* which operator requests are made, of {"cancel", "retry"}

\* "crash": the process is killed.  "drain": it is stopped and drains.  "panic": a handler
\* panics.  "database": a statement of a worker fails, or its answer is lost.
FaultKind == {"crash", "drain", "panic", "database"}

ASSUME PoolAssumption ==
    /\ MaxRun \in Nat
    /\ Faults \subseteq FaultKind
    /\ MaxDisruptions \in Nat
    /\ MaxDead \in Nat
    /\ Requests \subseteq {"cancel", "retry"}

VARIABLES
    worker,       \* what each task of the pool is at
    phase,        \* the process: see Phase
    api,          \* the operator's request in flight, between its two statements
    announced,    \* the last JobEvent::JobState published for each job
    disruptions   \* how many faults have happened

vars == <<job, worker, phase, api, announced, disruptions>>

(***************************************************************************)
(* polling      at the top of run_worker's loop                            *)
(* claiming     past the is_cancelled check, before claim                  *)
(* handling     in handler.handle                                          *)
(* exhausting   in fail, having read a row whose attempts are used up      *)
(* requeueing   in fail, having read a row with attempts left              *)
(* stopped      the task has returned or was aborted                       *)
(* dead         the handler panicked and took the task with it             *)
(***************************************************************************)
Busy == {"handling", "exhausting", "requeueing"}
Pc   == Busy \cup {"polling", "claiming", "stopped", "dead"}

\* "up": serving.  "draining": the token is cancelled, the tasks are being joined.
\* "releasing": no task is left.  "drained": the rows still held were released.  "down": the
\* process ended without that.
Phase == {"up", "draining", "releasing", "drained", "down"}

TypeOK ==
    /\ QueueTypeOK
    /\ worker \in [Worker -> [pc : Pc, job : JobId \cup {NoJob}, elapsed : 0..MaxRun]]
    /\ phase \in Phase
    /\ api \in [op : {"none", "cancel", "retry"}, job : JobId \cup {NoJob},
                work : Work \cup {NoWork}]
    /\ announced \in [JobId -> {"none", "queued", "succeeded", "failed"}]
    /\ disruptions \in Nat

At(pc)     == [pc |-> pc, job |-> NoJob, elapsed |-> 0]
Everyone(pc) == [w \in Worker |-> At(pc)]
NoRequest  == [op |-> "none", job |-> NoJob, work |-> NoWork]

IsBusy(w)   == worker[w].pc \in Busy
Holds(w, j) == IsBusy(w) /\ worker[w].job = j
Dead        == {w \in Worker : worker[w].pc = "dead"}

Init ==
    /\ QueueInit
    /\ worker = Everyone("polling")
    /\ phase = "up"
    /\ api = NoRequest
    /\ announced = [j \in JobId |-> "none"]
    /\ disruptions = 0

-----------------------------------------------------------------------------
Disrupt(kind) ==
    /\ kind \in Faults
    /\ disruptions < MaxDisruptions
    /\ disruptions' = disruptions + 1

Leave(w, pc) == worker' = [worker EXCEPT ![w] = At(pc)]
Advance(w, pc) == worker' = [worker EXCEPT ![w].pc = pc]
Announce(j, state) == announced' = [announced EXCEPT ![j] = state]

\* The tasks run while the process is up and while it drains.
Running(w, pc) == phase \in {"up", "draining"} /\ worker[w].pc = pc

\* The is_cancelled check at the top of the loop.
Poll(w) ==
    /\ Running(w, "polling")
    /\ Advance(w, IF phase = "draining" THEN "stopped" ELSE "claiming")
    /\ UNCHANGED <<job, phase, api, announced, disruptions>>

ClaimJob(w) ==
    /\ Running(w, "claiming")
    /\ \E j \in JobId :
          /\ Claim(j, w)
          /\ worker' = [worker EXCEPT ![w] = [pc |-> "handling", job |-> j, elapsed |-> 0]]
    /\ UNCHANGED <<phase, api, announced, disruptions>>

\* claim returned None: sleep, then poll again (or return, which Poll does next).
ClaimNothing(w) ==
    /\ Running(w, "claiming")
    /\ \A j \in JobId : ~Claimable(j)
    /\ Leave(w, "polling")
    /\ UNCHANGED <<job, phase, api, announced, disruptions>>

\* handle returned Ok; complete, metrics, the event.
Finish(w) ==
    /\ Running(w, "handling")
    /\ job' = Ended(worker[w].job, "succeeded")
    /\ Announce(worker[w].job, "succeeded")
    /\ Leave(w, "polling")
    /\ UNCHANGED <<phase, api, disruptions>>

\* The same, complete's error being dropped (let _ =).
FinishUnrecorded(w) ==
    /\ Running(w, "handling")
    /\ Disrupt("database")
    /\ Announce(worker[w].job, "succeeded")
    /\ Leave(w, "polling")
    /\ UNCHANGED <<job, phase, api>>

\* handle returned Err; fail reads the row and decides.
ReadFailed(w, retryable) ==
    /\ Running(w, "handling")
    /\ Exists(worker[w].job)
    /\ Advance(w, IF Exhausted(worker[w].job, retryable) THEN "exhausting" ELSE "requeueing")
    /\ UNCHANGED <<job, phase, api, announced, disruptions>>

\* fail finds no row (pruned meanwhile): NotFound, announced as a failure.
ReadNothing(w) ==
    /\ Running(w, "handling")
    /\ ~Exists(worker[w].job)
    /\ Announce(worker[w].job, "failed")
    /\ Leave(w, "polling")
    /\ UNCHANGED <<job, phase, api, disruptions>>

Exhaust(w) ==
    /\ Running(w, "exhausting")
    /\ job' = Ended(worker[w].job, "failed")
    /\ Announce(worker[w].job, "failed")
    /\ Leave(w, "polling")
    /\ UNCHANGED <<phase, api, disruptions>>

BadRequeue(w) ==                \* every Err is announced as a failure
    /\ Running(w, "requeueing")
    /\ job' = Requeued(worker[w].job)
    /\ Announce(worker[w].job, "failed")
    /\ Leave(w, "polling")
    /\ UNCHANGED <<phase, api, disruptions>>

Requeue(w) ==
    /\ Running(w, "requeueing")
    /\ job' = Requeued(worker[w].job)
    /\ Announce(worker[w].job, "queued")
    /\ Leave(w, "polling")
    /\ UNCHANGED <<phase, api, disruptions>>

\* A statement of fail errors: the row stays as it is, "failed" is announced all the same.
FailUnrecorded(w) ==
    /\ phase \in {"up", "draining"}
    /\ IsBusy(w)
    /\ Disrupt("database")
    /\ Announce(worker[w].job, "failed")
    /\ Leave(w, "polling")
    /\ UNCHANGED <<job, phase, api>>

\* The row was claimed but claim returned Err: the answer was lost, or row_to_job could not
\* read it.  (A claim that fails before that is a ClaimNothing.)
ClaimUnanswered(w) ==
    /\ Running(w, "claiming")
    /\ Disrupt("database")
    /\ \E j \in JobId : Claim(j, w)
    /\ Leave(w, "polling")
    /\ UNCHANGED <<phase, api, announced>>

\* fail put the row back and returned Err.
RequeueUnanswered(w) ==
    /\ Running(w, "requeueing")
    /\ Disrupt("database")
    /\ job' = Requeued(worker[w].job)
    /\ Announce(worker[w].job, "failed")
    /\ Leave(w, "polling")
    /\ UNCHANGED <<phase, api>>

\* A panic ends the task; nothing starts another, and the row stays running.
Panic(w) ==
    /\ Running(w, "handling")
    /\ Cardinality(Dead) < MaxDead
    /\ Disrupt("panic")
    /\ Leave(w, "dead")
    /\ UNCHANGED <<job, phase, api, announced>>

WorkerStep(w) ==
    \/ Poll(w)
    \/ ClaimJob(w)
    \/ ClaimNothing(w)
    \/ Finish(w)
    \/ \E retryable \in BOOLEAN : ReadFailed(w, retryable)
    \/ ReadNothing(w)
    \/ Exhaust(w)
    \/ Requeue(w)

WorkerFault(w) ==
    \/ ClaimUnanswered(w)
    \/ FinishUnrecorded(w)
    \/ FailUnrecorded(w)
    \/ RequeueUnanswered(w)
    \/ Panic(w)

-----------------------------------------------------------------------------
\* An enqueue under the work's own key: a download, a follow check, a periodic job.
Enqueue(work) ==
    /\ phase = "up"
    /\ Insert(work, NoJob)
    /\ UNCHANGED <<worker, phase, api, announced, disruptions>>

\* POST /jobs/{id}/cancel: get, then cancel unless the row it read was terminal.
CancelRead(j) ==
    /\ phase = "up" /\ api = NoRequest /\ "cancel" \in Requests
    /\ IsLive(j)
    /\ api' = [op |-> "cancel", job |-> j, work |-> NoWork]
    /\ UNCHANGED <<job, worker, phase, announced, disruptions>>

CancelWrite ==
    /\ phase = "up" /\ api.op = "cancel"
    /\ job' = Ended(api.job, "cancelled")
    /\ api' = NoRequest
    /\ UNCHANGED <<worker, phase, announced, disruptions>>

\* POST /jobs/{id}/retry: get, then enqueue the same work again under retry:{id} unless the
\* row it read was not terminal.
RetryRead(j) ==
    /\ phase = "up" /\ api = NoRequest /\ "retry" \in Requests
    /\ IsTerminal(j)
    /\ api' = [op |-> "retry", job |-> j, work |-> job[j].work]
    /\ UNCHANGED <<job, worker, phase, announced, disruptions>>

RetryWrite ==
    /\ phase = "up" /\ api.op = "retry"
    /\ Insert(api.work, api.job)
    /\ api' = NoRequest
    /\ UNCHANGED <<worker, phase, announced, disruptions>>

\* The client goes away, and axum drops the request between its two statements.
Abandon ==
    /\ phase = "up" /\ api # NoRequest
    /\ api' = NoRequest
    /\ UNCHANGED <<job, worker, phase, announced, disruptions>>

Operator ==
    \/ \E work \in Work : Enqueue(work)
    \/ \E j \in JobId : CancelRead(j) \/ RetryRead(j)
    \/ Abandon

ApiStep == CancelWrite \/ RetryWrite

-----------------------------------------------------------------------------
\* recover_stale in a scheduler tick.
BadRecover ==                   \* on startup only
    /\ phase = "up"
    /\ UNCHANGED vars

Recover ==
    /\ phase = "up"
    /\ job' = Recovered(StaleAfter)
    /\ UNCHANGED <<worker, phase, api, announced, disruptions>>

\* prune, in the handler of a prune_jobs job.
Prune ==
    /\ phase \in {"up", "draining"}
    /\ job' = Pruned
    /\ UNCHANGED <<worker, phase, api, announced, disruptions>>

\* A worker spends at most MaxRun ticks on a claim.
Tick ==
    /\ \A w \in Worker : IsBusy(w) => worker[w].elapsed < MaxRun
    /\ job' = Aged
    /\ worker' = [w \in Worker |->
                     IF IsBusy(w) THEN [worker[w] EXCEPT !.elapsed = @ + 1] ELSE worker[w]]
    /\ UNCHANGED <<phase, api, announced, disruptions>>

-----------------------------------------------------------------------------
\* axum has returned, its requests answered; the scheduler is stopped; shutdown cancels the
\* workers' token.
BeginDrain ==
    /\ phase = "up" /\ api = NoRequest
    /\ Disrupt("drain")
    /\ phase' = "draining"
    /\ UNCHANGED <<job, worker, api, announced>>

\* Every task has been joined, the panicked ones too.
BadJoined ==                    \* a panicked task is waited for
    /\ phase = "draining"
    /\ \A w \in Worker : worker[w].pc = "stopped"
    /\ phase' = "releasing"
    /\ UNCHANGED <<job, worker, api, announced, disruptions>>

Joined ==
    /\ phase = "draining"
    /\ \A w \in Worker : worker[w].pc \in {"stopped", "dead"}
    /\ phase' = "releasing"
    /\ UNCHANGED <<job, worker, api, announced, disruptions>>

\* drain_timeout has passed: abort_all, and join what is left before going on.
AbortAll ==
    /\ phase = "draining"
    /\ \E w \in Worker : worker[w].pc \notin {"stopped", "dead"}
    /\ worker' = Everyone("stopped")
    /\ phase' = "releasing"
    /\ UNCHANGED <<job, api, announced, disruptions>>

\* recover_stale(0): every lock is older than that, if only by microseconds, so it reaches
\* the rows of age 0 too.
Release ==
    /\ phase = "releasing"
    /\ job' = Recovered(-1)
    /\ phase' = "drained"
    /\ UNCHANGED <<worker, api, announced, disruptions>>

\* recover_stale fails and its error is dropped (unwrap_or(0)).
ReleaseUnrecorded ==
    /\ phase = "releasing"
    /\ Disrupt("database")
    /\ phase' = "down"
    /\ UNCHANGED <<job, worker, api, announced>>

Crash ==
    /\ phase \in {"up", "draining", "releasing"}
    /\ Disrupt("crash")
    /\ phase' = "down"
    /\ worker' = Everyone("stopped")
    /\ api' = NoRequest
    /\ UNCHANGED <<job, announced>>

\* recover_stale on startup, then the pool.
Start ==
    /\ phase \in {"drained", "down"}
    /\ job' = Recovered(StaleAfter)
    /\ worker' = Everyone("polling")
    /\ phase' = "up"
    /\ UNCHANGED <<api, announced, disruptions>>

ProcessStep == Joined \/ AbortAll \/ Release \/ Start

Next ==
    \/ \E w \in Worker : WorkerStep(w) \/ WorkerFault(w)
    \/ Operator \/ ApiStep
    \/ Recover \/ Prune \/ Tick
    \/ BeginDrain \/ ProcessStep \/ ReleaseUnrecorded \/ Crash

Spec == Init /\ [][Next]_vars

(***************************************************************************)
(* The tasks are polled by the runtime, the requests answered, the         *)
(* scheduler ticks every minute, the drain has a timeout and the container *)
(* restarts the process (restart: unless-stopped).  Nobody is obliged to   *)
(* enqueue, cancel or stop anything, and no fault has to happen.           *)
(***************************************************************************)
Fairness ==
    /\ \A w \in Worker : WF_vars(WorkerStep(w))
    /\ WF_vars(ApiStep)
    /\ WF_vars(Recover)
    /\ WF_vars(Tick)
    /\ WF_vars(ProcessStep)

FairSpec == Spec /\ Fairness

-----------------------------------------------------------------------------
\* Two workers never run one job: what SKIP LOCKED gives at the claim (queue.rs) has to
\* survive every way a row goes back to the queue.  It rests on MaxRun <= StaleAfter.
OneHolder ==
    \A j \in JobId : \A v, w \in Worker : Holds(v, j) /\ Holds(w, j) => v = w

\* A job that succeeded or failed never runs again under the same id: no late complete,
\* fail, recovery or release (queue.rs, all WHERE id only) reaches its row.
NoResurrection ==
    [][\A j \in JobId : job[j].state \in {"succeeded", "failed"} => job'[j].state \notin Live]_vars

\* claim does not look at max_attempts: only fail does.  What takes a job past its ceiling
\* is an attempt that fail never saw, and each disruption costs a job at most one.
AttemptBudget ==
    \A j \in JobId : Exists(j) => job[j].attempts <= MaxAttempts[job[j].work] + disruptions

\* When shutdown has released what was held, no row is left running, so the next process
\* need not wait for the lock to go stale (worker.rs, shutdown).
DrainReleasesAll ==
    phase = "drained" => \A j \in JobId : job[j].state # "running"

\* Once "succeeded" or "failed" was published for a job, it is over (worker.rs, run_worker).
\* It holds as long as the database answers: run_worker takes an error of fail for an exhausted
\* job, and then "failed" is published for a job that runs again.
OutcomeHolds ==
    \A j \in JobId : announced[j] \in {"succeeded", "failed"} => ~IsLive(j)

\* What of the pool is a job's life to JobLifecycle.
StatusOf(j) == CASE job[j].state = "unborn" -> "none"
                 [] IsLive(j) -> "open"
                 [] OTHER -> "closed"
RunnersOf(j) == {w \in Worker : Holds(w, j)}

Lifecycle == INSTANCE JobLifecycle WITH
    status  <- [j \in JobId |-> StatusOf(j)],
    runners <- [j \in JobId |-> RunnersOf(j)]

\* The promise of JobLifecycle, kept by the table and the pool together.
ImplementsLifecycle == Lifecycle!Spec

\* An accepted job comes to an end, through every crash, drain, panic and lost statement,
\* while a worker is left to run it.
EveryJobEnds == \A j \in JobId : IsLive(j) ~> ~IsLive(j)

\* A drain ends, whatever the handlers do (worker.rs, drain_timeout).
DrainEnds == phase = "draining" ~> phase \in {"drained", "down"}

-----------------------------------------------------------------------------
\* The inductive invariant behind these (WorkerPoolProofs).

\* What a busy worker knows of its row: it is still its own, locked since its claim, or it
\* was cancelled under it (and perhaps pruned).
HeldRowIsKept ==
    \A w \in Worker : IsBusy(w) =>
        /\ worker[w].job \in JobId
        /\ job[worker[w].job].state \in {"running", "cancelled", "gone"}
        /\ job[worker[w].job].state = "running" =>
              /\ job[worker[w].job].lockedBy = w
              /\ job[worker[w].job].lockAge = worker[w].elapsed
        /\ worker[w].pc = "requeueing" /\ Exists(worker[w].job) =>
              job[worker[w].job].attempts < MaxAttempts[job[worker[w].job].work]

\* A request between its two statements knows its job, and the work to repeat.
RequestIsWhole ==
    /\ api.op # "none" => api.job \in JobId
    /\ api.op = "retry" => api.work \in Work

NobodyIsLeft == phase \in {"releasing", "drained", "down"} => \A w \in Worker : ~IsBusy(w)

\* The disruptions that may have cost an attempt: a drain costs none until it is over.
Suffered == IF phase = "draining" THEN disruptions - 1 ELSE disruptions

\* An attempt is within the ceiling or made up for by a disruption, and a live job nobody
\* runs has one to spare.
AttemptsAccounted ==
    /\ phase = "draining" => disruptions > 0
    /\ \A j \in JobId : Exists(j) => job[j].attempts <= MaxAttempts[job[j].work] + Suffered
    /\ \A j \in JobId :
          IsLive(j) /\ (\A w \in Worker : ~Holds(w, j)) =>
              job[j].attempts < MaxAttempts[job[j].work] + Suffered

Safety == HeldRowIsKept /\ NobodyIsLeft /\ OneHolder /\ AttemptsAccounted /\ DrainReleasesAll

IInv == TypeOK /\ RequestIsWhole /\ Safety

=============================================================================
