------------------------------ MODULE JobQueue ------------------------------
(***************************************************************************)
(* The job table of crates/jobs/src/queue.rs and the SQL statements that   *)
(* change it.  PostgreSQL runs each of them atomically, so each is one     *)
(* operator here: either a function of the table (what the table becomes), *)
(* or an action when the statement chooses a row.                          *)
(*                                                                         *)
(* Time is relative.  A row does not hold run_at, locked_at and updated_at *)
(* but their distance from now(), in ticks (one tick of the scheduler),    *)
(* and each distance saturates one step past the last value a statement    *)
(* tells apart.  Time can then go on for ever over finitely many states.   *)
(*                                                                         *)
(* An operator named Bad... is the one that follows it with one mistake    *)
(* put in: no specification uses it, it is there to see a property fail.   *)
(***************************************************************************)
EXTENDS Integers, FiniteSets

CONSTANTS JobId,        \* the row ids that may be issued, never twice (Uuid::new_v4)
          NoJob,        \* "no row id"
          Work,         \* what a job is to do: a kind, a payload, its key, its settings
          NoWork,       \* the work of a row that does not exist
          Worker,       \* the names in locked_by
          NoWorker,     \* locked_by IS NULL
          Priority,     \* the priority of a work, lower runs first
          MaxAttempts,  \* the max_attempts of a work
          Backoff,      \* ticks between a retryable failure and the next run_at
          Overdue,      \* ticks past run_at after which the order of due rows is lost
          StaleAfter,   \* the age past which a lock is stale (job_stale_lock_secs)
          Retention     \* how long a terminal row is kept (job_retention_days)

ASSUME QueueAssumption ==
    /\ NoJob \notin JobId
    /\ NoWork \notin Work
    /\ NoWorker \notin Worker
    /\ Priority \in [Work -> Int]
    /\ MaxAttempts \in [Work -> Nat \ {0}]
    /\ Backoff \in Nat
    /\ Overdue \in Nat
    /\ StaleAfter \in Nat
    /\ Retention \in Nat

VARIABLE job            \* the job table

-----------------------------------------------------------------------------
Terminal == {"succeeded", "failed", "cancelled"}
Live     == {"queued", "running"}

\* "unborn": an id not issued yet.  "gone": a row that prune deleted.
State == Live \cup Terminal \cup {"unborn", "gone"}

Columns == [state    : State,
            work     : Work \cup {NoWork},
            origin   : JobId \cup {NoJob},    \* idempotency_key: "retry:{origin}", or the work's own
            attempts : Nat,
            runIn    : (-Overdue)..Backoff,   \* ticks to run_at; due when <= 0
            lockedBy : Worker \cup {NoWorker},
            lockAge  : 0..(StaleAfter + 1),   \* ticks since locked_at, of a running row
            age      : 0..(Retention + 1)]    \* ticks since updated_at, of a terminal row

\* A row that exists has a work, and exactly the running ones are locked.
Row == {r \in Columns : /\ r.state \notin {"unborn", "gone"} => r.work \in Work
                        /\ r.state = "running" <=> r.lockedBy # NoWorker}

Blank(state) == [state |-> state, work |-> NoWork, origin |-> NoJob, attempts |-> 0,
                 runIn |-> 0, lockedBy |-> NoWorker, lockAge |-> 0, age |-> 0]

Exists(j) == job[j].state \notin {"unborn", "gone"}
IsLive(j) == job[j].state \in Live
IsTerminal(j) == job[j].state \in Terminal

QueueTypeOK == job \in [JobId -> Row]

QueueInit == job = [j \in JobId |-> Blank("unborn")]

-----------------------------------------------------------------------------
\* enqueue: INSERT ... ON CONFLICT (idempotency_key), which leaves the row that has the key
\* as it is, whatever its state.
HasKey(j, work, origin) ==
    Exists(j) /\ job[j].work = work /\ job[j].origin = origin

Insert(work, origin) ==
    \/ /\ \E j \in JobId : HasKey(j, work, origin)
       /\ UNCHANGED job
    \/ /\ \A j \in JobId : ~HasKey(j, work, origin)
       /\ \E j \in JobId :
            /\ job[j].state = "unborn"
            /\ job' = [job EXCEPT ![j] =
                          [Blank("queued") EXCEPT !.work = work, !.origin = origin]]

\* claim: the best due row, in one statement.  Two claims at once take their rows one after
\* the other, the second passing over the row the first has locked (SKIP LOCKED).
BadClaimable(j) == job[j].state \in {"queued", "cancelled"} /\ job[j].runIn <= 0
Claimable(j)    == job[j].state = "queued" /\ job[j].runIn <= 0

Precedes(j, k) ==           \* ORDER BY priority, run_at
    \/ Priority[job[j].work] < Priority[job[k].work]
    \/ /\ Priority[job[j].work] = Priority[job[k].work]
       /\ job[j].runIn < job[k].runIn

Claim(j, w) ==
    /\ Claimable(j)
    /\ \A k \in JobId : Claimable(k) => ~Precedes(k, j)
    /\ job' = [job EXCEPT ![j] = [job[j] EXCEPT !.state = "running", !.lockedBy = w,
                                                !.lockAge = 0, !.attempts = @ + 1]]

\* set_terminal: neither the state nor locked_by is looked at, only the id.  (Nothing reads
\* the run_at of a terminal row: its distance is dropped.)
Ended(j, state) ==
    IF Exists(j)
    THEN [job EXCEPT ![j] = [job[j] EXCEPT !.state = state, !.lockedBy = NoWorker,
                                           !.lockAge = 0, !.runIn = 0, !.age = 0]]
    ELSE job

\* fail's second statement when attempts remain: again WHERE id only.
Requeued(j) ==
    IF Exists(j)
    THEN [job EXCEPT ![j] = [job[j] EXCEPT !.state = "queued", !.runIn = Backoff,
                                      !.lockedBy = NoWorker, !.lockAge = 0, !.age = 0]]
    ELSE job

\* fail's decision, from the row it has read.
Exhausted(j, retryable) ==
    ~retryable \/ job[j].attempts >= MaxAttempts[job[j].work]

\* recover_stale: every row locked for longer than olderThan goes back, its attempts and
\* its run_at (past, or it would not have been claimed) as they are.
BadRecovered(olderThan) ==      \* no matter how old the lock is
    [j \in JobId |->
        IF job[j].state = "running"
        THEN [job[j] EXCEPT !.state = "queued", !.lockedBy = NoWorker, !.lockAge = 0]
        ELSE job[j]]

BadlyRecovered(olderThan) ==    \* failed rows too
    [j \in JobId |->
        IF job[j].state \in {"running", "failed"} /\ job[j].lockAge > olderThan
        THEN [job[j] EXCEPT !.state = "queued", !.lockedBy = NoWorker, !.lockAge = 0]
        ELSE job[j]]

Recovered(olderThan) ==
    [j \in JobId |->
        IF job[j].state = "running" /\ job[j].lockAge > olderThan
        THEN [job[j] EXCEPT !.state = "queued", !.lockedBy = NoWorker, !.lockAge = 0]
        ELSE job[j]]

\* prune: failed rows are kept for ever.
Pruned ==
    [j \in JobId |->
        IF job[j].state \in {"succeeded", "cancelled"} /\ job[j].age > Retention
        THEN Blank("gone")
        ELSE job[j]]

\* now() advances by one tick.
Sooner(d)        == IF d > -Overdue THEN d - 1 ELSE d
Later(age, last) == IF age <= last THEN age + 1 ELSE age

Aged ==
    [j \in JobId |->
        [job[j] EXCEPT
            !.runIn   = IF job[j].state \in Live THEN Sooner(@) ELSE @,
            !.lockAge = IF job[j].state = "running" THEN Later(@, StaleAfter) ELSE @,
            !.age     = IF job[j].state \in Terminal THEN Later(@, Retention) ELSE @]]
=============================================================================
