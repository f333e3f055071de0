---------------------------- MODULE JobLifecycle ----------------------------
(***************************************************************************)
(* What the job engine promises about one job, without a table, a lock, a  *)
(* clock or a process: a job is accepted once; while it is open, one       *)
(* worker at a time runs it; it may be closed under a worker that is       *)
(* running it; and once it is closed and nobody runs it, nothing opens it  *)
(* again.  The only way back is the one the code leaves: the worker of a   *)
(* job cancelled meanwhile puts it back in the queue when its attempt      *)
(* fails (PostgresQueue::fail does not look at the row's state).           *)
(***************************************************************************)
CONSTANTS JobId, Worker

VARIABLES status,     \* "none", "open" or "closed"
          runners     \* the workers running the job

lifecycle == <<status, runners>>

TypeOK ==
    /\ status \in [JobId -> {"none", "open", "closed"}]
    /\ runners \in [JobId -> SUBSET Worker]

Init ==
    /\ status = [j \in JobId |-> "none"]
    /\ runners = [j \in JobId |-> {}]

Become(j, s) == status' = [status EXCEPT ![j] = s]
Vacate(j)    == runners' = [runners EXCEPT ![j] = {}]

Accept(j) == status[j] = "none" /\ Become(j, "open") /\ UNCHANGED runners

Begin(j, w) ==
    /\ status[j] = "open"
    /\ runners[j] = {}
    /\ \A k \in JobId : w \notin runners[k]
    /\ runners' = [runners EXCEPT ![j] = {w}]
    /\ UNCHANGED status

\* The attempt ends, and the job with it or not.
Finish(j) == runners[j] # {} /\ Vacate(j) /\ Become(j, "closed")
PutBack(j) == runners[j] # {} /\ Vacate(j) /\ Become(j, "open")

\* Attempts end without a word: a panic, a crash, an abort, a lost statement.
Abandon(jobs) ==
    /\ runners' = [j \in JobId |-> IF j \in jobs THEN {} ELSE runners[j]]
    /\ UNCHANGED status

\* The operator withdraws the job, whoever is running it.
Withdraw(j) == status[j] = "open" /\ Become(j, "closed") /\ UNCHANGED runners

Next ==
    \/ \E j \in JobId : \/ Accept(j) \/ Finish(j) \/ PutBack(j) \/ Withdraw(j)
                        \/ \E w \in Worker : Begin(j, w)
    \/ \E jobs \in SUBSET JobId : Abandon(jobs)

Spec == Init /\ [][Next]_lifecycle
=============================================================================
