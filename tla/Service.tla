------------------------------- MODULE Service -------------------------------
(***************************************************************************)
(* The process: its settings and what is wrong with them (crates/api/src/  *)
(* config.rs, main.rs), its start, step by step, and its stop (lib.rs,     *)
(* run), the periodic jobs and the keys that keep them to one a period     *)
(* (crates/jobs/src/scheduler.rs), and whether it says that it is ready    *)
(* (routes/health.rs).  How the pool runs a job is in WorkerPool; here a   *)
(* job is claimed and ends.                                                *)
(***************************************************************************)
EXTENDS Integers, Sequences, FiniteSets, SequencesExt

CONSTANTS Settings,     \* what an operator may set, records of raw settings
          Installed,    \* installed sources
          Compiles,     \* those whose saved package compiles
          Schedule,     \* the periodic jobs: kind and period, in hours
          Day,          \* hours in a day
          MaxNow,       \* bound: hours
          MaxStarts,    \* bound: starts of the process
          MaxFaults     \* bound: outages, crashes, failed steps, and clocks put back

ASSUME ServiceAssumption ==
    /\ Compiles \subseteq Installed
    /\ Len(Schedule) \in Nat /\ DOMAIN Schedule = 1..Len(Schedule)
    /\ \A i \in DOMAIN Schedule :
          /\ Schedule[i].every \in Nat \ {0} /\ Schedule[i].kind \notin {"download", "manual"}
          /\ \A j \in DOMAIN Schedule : Schedule[i].kind = Schedule[j].kind => i = j
    /\ {Day, MaxNow, MaxStarts, MaxFaults} \subseteq Nat
    /\ \A raw \in Settings : raw.days \in Int

VARIABLES stage,    \* how far the process has come: "off", a step of its start, or "stopping"
          config,   \* the settings it runs with
          now,
          db,       \* "up" or "down"
          volume,   \* the library's: "ok", "full" or "gone"
          loaded,   \* sources whose module is there
          limited,  \* sources whose limit is registered
          unread,   \* history: what the start could not read from the database
          rows,     \* key -> the job of that key: its state, and when it came to it
          mine,     \* the keys of the jobs that this process runs
          made,     \* history: key -> how often a job was made under it
          starts, faults

process == <<stage, config, loaded, limited, unread>>
jobs    == <<rows, made>>
outside == <<now, db, volume>>
serviceVars == <<process, outside, jobs, mine, starts, faults>>

-----------------------------------------------------------------------------
\* RawConfig::validate collects every problem; one is enough.  A directory is the sequence of its
\* components, a key its length, an address what it is bound to.
Blank == <<>>

Overlap(a, b) == IsPrefix(a, b) \/ IsPrefix(b, a)

PlaceProblems(raw) ==
    {p \in {"DATABASE_URL", "BIND_ADDR", "LIBRARY_ROOT", "DATA_DIR", "overlap"} :
        \/ p = "DATABASE_URL" /\ raw.database # "url"
        \/ p = "BIND_ADDR" /\ raw.bind \notin {"loopback", "any"}
        \/ p = "LIBRARY_ROOT" /\ raw.library = Blank
        \/ p = "DATA_DIR" /\ raw.data = Blank
        \/ p = "overlap" /\ Blank \notin {raw.library, raw.data} /\ Overlap(raw.library, raw.data)}

\* A mode that is not known is taken for oidc, and what oidc requires is missed as well.
Mode(raw) == IF raw.mode = "none" THEN "none" ELSE "oidc"

AuthProblems(raw) ==
    {p \in {"AUTH_MODE", "OIDC", "AUTH_ALLOWED", "SESSION_KEY"} :
        \/ p = "AUTH_MODE" /\ raw.mode \notin {"oidc", "none"}
        \/ p = "OIDC" /\ Mode(raw) = "oidc" /\ raw.oidc # "complete"
        \/ p = "AUTH_ALLOWED" /\ Mode(raw) = "oidc" /\ raw.allowed = {}
        \/ p = "SESSION_KEY" /\ raw.key < 64 /\ (Mode(raw) = "oidc" \/ raw.key > 0)}

BadNumberProblems(raw) ==
    {p \in {"SESSION_TTL_HOURS", "SOURCE_MAX_CONCURRENCY", "JOB_POLL_INTERVAL_MS"} :
        \/ p = "SESSION_TTL_HOURS" /\ raw.ttl = 0
        \/ p = "SOURCE_MAX_CONCURRENCY" /\ raw.permits = 0
        \/ p = "JOB_POLL_INTERVAL_MS" /\ raw.poll = 0}

NumberProblems(raw) ==
    {p \in {"SESSION_TTL_HOURS", "JOB_WORKERS", "SOURCE_MAX_CONCURRENCY", "JOB_POLL_INTERVAL_MS",
            "LOG_FORMAT", "WASM_MAX_MEMORY_MB", "WASM_EPOCH_TIMEOUT_MS"} :
        \/ p = "SESSION_TTL_HOURS" /\ raw.ttl = 0
        \/ p = "JOB_WORKERS" /\ raw.workers = 0
        \/ p = "SOURCE_MAX_CONCURRENCY" /\ raw.permits = 0
        \/ p = "JOB_POLL_INTERVAL_MS" /\ raw.poll = 0
        \/ p = "LOG_FORMAT" /\ raw.format # "json"
        \/ p = "WASM_MAX_MEMORY_MB" /\ raw.memory = 0
        \/ p = "WASM_EPOCH_TIMEOUT_MS" /\ raw.timeout = 0}

\* check_retention: the finished rows must outlast every period.
Retention(raw) == Day * (IF raw.days < 0 THEN 0 ELSE raw.days)

BadRetentionProblems(raw) == {p \in {"JOB_RETENTION_DAYS"} : raw.days < 0}

RetentionProblems(raw) ==
    {p \in {"JOB_RETENTION_DAYS"} : \E i \in DOMAIN Schedule : Retention(raw) <= Schedule[i].every}

ProxyProblems(raw) == {p \in {"TRUSTED_PROXIES"} : "junk" \in raw.proxies}

Problems(raw) ==
    PlaceProblems(raw) \cup AuthProblems(raw) \cup NumberProblems(raw) \cup RetentionProblems(raw)
    \cup ProxyProblems(raw)

\* What the rest of the model needs of the validated settings.
Validated(raw) == [mode |-> Mode(raw), workers |-> raw.workers, poll |-> raw.poll, permits |-> raw.permits,
                   retention |-> Retention(raw), stale |-> raw.stale]

-----------------------------------------------------------------------------
\* The steps of the start, in order.
BadStages == <<"connect", "recover", "library", "limits", "identity", "work", "sources", "bind",
               "serving">>

Stages == <<"connect", "recover", "library", "sources", "limits", "identity", "work", "bind",
            "serving">>

Place(step) == CHOOSE i \in DOMAIN Stages : Stages[i] = step

Comes(step) == stage' = Stages[Place(step) + 1]

\* The pool and the scheduler run.
Works == stage \in ToSet(Stages) /\ Place(stage) > Place("work")

\* The job of a kind in a period, or of a source.
Bucket(every) == now \div every
PeriodKey(i)  == <<Schedule[i].kind, Bucket(Schedule[i].every)>>
Download(s)   == <<"download", s>>
Manual        == <<"manual", "prune_jobs">>

Key == (UNION {{<<Schedule[i].kind, b>> : b \in 0..(MaxNow \div Schedule[i].every)} : i \in DOMAIN Schedule})
       \cup {Download(s) : s \in Installed} \cup {Manual}

NoRow == [state |-> "none", at |-> 0]
\* The time of a row is asked of a running one, its heartbeat, and of one that succeeded.
Row(state) == [state |-> state, at |-> IF state \in {"running", "succeeded"} THEN now ELSE 0]

\* An enqueue under a key that a row has is none.
Enqueued(table, keys) == [k \in Key |-> IF k \in keys /\ table[k] = NoRow THEN Row("queued") ELSE table[k]]

Counted(keys) == [k \in Key |-> IF k \in keys /\ rows[k] = NoRow THEN made[k] + 1 ELSE made[k]]

Recovered ==
    [k \in Key |-> IF rows[k].state = "running" /\ rows[k].at < now - config.stale
                   THEN Row("queued") ELSE rows[k]]

Requeued(keys) == [k \in Key |-> IF k \in keys THEN Row("queued") ELSE rows[k]]

-----------------------------------------------------------------------------
ServiceTypeOK ==
    /\ stage \in ToSet(Stages) \cup {"off", "stopping"}
    /\ now \in 0..MaxNow /\ db \in {"up", "down"} /\ volume \in {"ok", "full", "gone"}
    /\ loaded \subseteq Installed /\ limited \subseteq Installed /\ unread \subseteq {"sources", "limits"}
    /\ rows \in [Key -> [state : {"none", "queued", "running", "succeeded", "failed"}, at : 0..MaxNow]]
    /\ mine \subseteq Key /\ made \in [Key -> Nat]
    /\ starts \in 0..MaxStarts /\ faults \in 0..MaxFaults

ServiceInit ==
    /\ stage = "off" /\ now = 0 /\ db = "up" /\ volume = "ok"
    /\ config = [mode |-> "none", workers |-> 0, poll |-> 0, permits |-> 0, retention |-> 0, stale |-> 0]
    /\ loaded = {} /\ limited = {} /\ unread = {} /\ mine = {}
    /\ rows = [k \in Key |-> NoRow] /\ made = [k \in Key |-> 0]
    /\ starts = 0 /\ faults = 0

Fault == faults < MaxFaults /\ faults' = faults + 1

Exit ==
    /\ stage' = "off" /\ loaded' = {} /\ limited' = {} /\ unread' = {} /\ mine' = {}
    /\ UNCHANGED config

\* main: a process whose settings have a problem ends before it does anything.  MaxNow bounds the
\* starts as well: none in the last hour, in which one that runs goes on.
Start(raw) ==
    /\ stage = "off" /\ starts < MaxStarts /\ now < MaxNow
    /\ Problems(raw) = {}
    /\ starts' = starts + 1
    /\ config' = Validated(raw)
    /\ stage' = "connect"
    /\ UNCHANGED <<loaded, limited, unread, outside, jobs, mine, faults>>

Connect ==
    /\ stage = "connect"
    /\ IF db = "up" THEN Comes("connect") /\ UNCHANGED <<config, loaded, limited, unread, mine>> ELSE Exit
    /\ UNCHANGED <<outside, jobs, starts, faults>>

Recover ==
    /\ stage = "recover"
    /\ IF db = "up"
       THEN Comes("recover") /\ rows' = Recovered /\ UNCHANGED <<config, loaded, limited, unread, mine>>
       ELSE Exit /\ rows' = rows
    /\ UNCHANGED <<outside, made, starts, faults>>

\* The staging directory of the library is cleaned, and a failure of that is only logged.
OpenLibrary ==
    /\ stage = "library"
    /\ IF volume # "gone" THEN Comes("library") /\ UNCHANGED <<config, loaded, limited, unread, mine>> ELSE Exit
    /\ UNCHANGED <<outside, jobs, starts, faults>>

\* load_installed: a source that does not compile is passed over; if the list cannot be read there is
\* none, and the start goes on.
LoadSources ==
    /\ stage = "sources" /\ Comes("sources")
    /\ loaded' = IF db = "up" THEN Compiles ELSE {}
    /\ unread' = IF db = "up" THEN unread ELSE unread \cup {"sources"}
    /\ UNCHANGED <<config, limited, outside, jobs, mine, starts, faults>>

\* list_sources().unwrap_or_default().
RegisterLimits ==
    /\ stage = "limits" /\ Comes("limits")
    /\ limited' = IF db = "up" THEN Installed ELSE {}
    /\ unread' = IF db = "up" THEN unread ELSE unread \cup {"limits"}
    /\ UNCHANGED <<config, loaded, outside, jobs, mine, starts, faults>>

\* Without sign-in the local user's row is written; with it the provider must answer.
Identify ==
    /\ stage = "identity"
    /\ \/ (config.mode = "none" => db = "up") /\ Comes("identity")
          /\ UNCHANGED <<config, loaded, limited, unread, mine, faults>>
       \/ (config.mode = "none" => db = "down") /\ Fault /\ Exit
    /\ UNCHANGED <<outside, jobs, starts>>

StartWork ==
    /\ stage = "work" /\ Comes("work")
    /\ UNCHANGED <<config, loaded, limited, unread, outside, jobs, mine, starts, faults>>

\* The pool runs by now: if the address is taken the process ends, and what it has claimed stays so.
Bind ==
    /\ stage = "bind"
    /\ \/ Comes("bind") /\ UNCHANGED <<config, loaded, limited, unread, mine, faults>>
       \/ Fault /\ Exit
    /\ UNCHANGED <<outside, jobs, starts>>
-----------------------------------------------------------------------------
\* Scheduler::tick: stranded jobs go back, and each periodic job is queued under the key of its period.
\* A tick that fails on the way has done what came before; the next one has the same keys.
TickKeys(n) == {PeriodKey(i) : i \in 1..n}

Tick(n) ==
    /\ Works /\ db = "up"
    /\ \/ n = Len(Schedule) /\ faults' = faults
       \/ n < Len(Schedule) /\ Fault
    /\ Enqueued(Recovered, TickKeys(n)) # rows
    /\ rows' = Enqueued(Recovered, TickKeys(n))
    /\ made' = Counted(TickKeys(n))
    /\ UNCHANGED <<process, outside, mine, starts>>

\* POST /chapters/{id}/download, and POST /jobs, which an operator queues a sweep with; each
\* once, which bounds the model.
Queue(k) ==
    /\ stage = "serving" /\ db = "up" /\ made[k] = 0
    /\ rows' = Enqueued(rows, {k})
    /\ made' = Counted({k})
    /\ UNCHANGED <<process, outside, mine, starts, faults>>

Claim(k) ==
    /\ Works /\ db = "up"
    /\ rows[k].state = "queued" /\ k \notin mine
    /\ Cardinality(mine) < config.workers
    /\ rows' = [rows EXCEPT ![k] = Row("running")]
    /\ mine' = mine \cup {k}
    /\ UNCHANGED <<process, outside, made, starts, faults>>

\* What is told of an attempt: a download needs a permit, its source's module, and the volume; without
\* the module it is not found, on a full volume it is not tried again, without the volume it is.
Ends(k) ==
    CASE k \notin {Download(s) : s \in Installed} -> "succeeded"
      [] k[2] \notin loaded /\ k \in {Download(s) : s \in Installed} -> "failed"
      [] OTHER -> CASE volume = "ok" -> "succeeded" [] volume = "full" -> "failed" [] OTHER -> "queued"

\* prune_jobs: rows that succeeded, and have not changed for longer than the retention.
IsPrune(k) == k = Manual \/ k[1] = "prune_jobs"

Pruned(table) ==
    [k \in Key |-> IF table[k].state = "succeeded" /\ table[k].at < now - config.retention
                   THEN NoRow ELSE table[k]]

Finish(k) ==
    /\ stage # "off" /\ db = "up"
    /\ k \in mine /\ rows[k].state = "running"
    /\ config.permits > 0
    /\ rows' = [(IF IsPrune(k) THEN Pruned(rows) ELSE rows) EXCEPT ![k] = Row(Ends(k))]
    /\ mine' = mine \ {k}
    /\ UNCHANGED <<process, outside, made, starts, faults>>

-----------------------------------------------------------------------------
\* A signal: requests, the scheduler and the claims end, and then the running jobs, or their rows go
\* back to the queue when the time for that is over.
Stop ==
    /\ stage = "serving" /\ stage' = "stopping"
    /\ UNCHANGED <<config, loaded, limited, unread, outside, jobs, mine, starts, faults>>

Stopped ==
    /\ stage = "stopping"
    /\ rows' = IF db = "up" THEN Requeued(mine) ELSE rows
    /\ Exit
    /\ UNCHANGED <<outside, made, starts, faults>>

Crash ==
    /\ stage # "off" /\ Fault /\ Exit
    /\ UNCHANGED <<outside, jobs, starts>>

\* No attempt and no start takes an hour; what happens to an attempt that outlasts the stale lock is
\* in WorkerPool.
Pass ==
    /\ now < MaxNow /\ mine = {} /\ stage \in {"off", "serving"}
    /\ now' = now + 1
    /\ UNCHANGED <<process, db, volume, jobs, mine, starts, faults>>

PutBack ==
    /\ now > 0 /\ stage \in {"off", "serving"} /\ Fault
    /\ now' = now - 1
    /\ UNCHANGED <<process, db, volume, jobs, mine, starts>>

FailDb ==
    /\ db = "up" /\ Fault /\ db' = "down"
    /\ UNCHANGED <<process, now, volume, jobs, mine, starts>>

RestoreDb ==
    /\ db = "down" /\ db' = "up"
    /\ UNCHANGED <<process, now, volume, jobs, mine, starts, faults>>

FailVolume(state) ==
    /\ volume = "ok" /\ Fault /\ volume' = state
    /\ UNCHANGED <<process, now, db, jobs, mine, starts>>

RestoreVolume ==
    /\ volume # "ok" /\ volume' = "ok"
    /\ UNCHANGED <<process, now, db, jobs, mine, starts, faults>>

ServiceNext ==
    \/ \E raw \in Settings : Start(raw)
    \/ Connect \/ Recover \/ OpenLibrary \/ LoadSources \/ RegisterLimits \/ Identify
    \/ StartWork \/ Bind
    \/ \E n \in 0..Len(Schedule) : Tick(n)
    \/ \E k \in {Download(s) : s \in Installed} \cup {Manual} : Queue(k)
    \/ \E k \in Key : Claim(k) \/ Finish(k)
    \/ Stop \/ Stopped \/ Crash \/ Pass \/ PutBack
    \/ FailDb \/ RestoreDb \/ RestoreVolume
    \/ \E state \in {"full", "gone"} : FailVolume(state)

ServiceSpec == ServiceInit /\ [][ServiceNext]_serviceVars

\* The pool's loops go on while the process does.
FairServiceSpec == ServiceSpec /\ \A k \in Key : WF_serviceVars(Claim(k)) /\ WF_serviceVars(Finish(k))

-----------------------------------------------------------------------------
\* /readyz: the database answers, its migrations are done, which the start saw to, and there is room on
\* the volume.
Ready == stage = "serving" /\ db = "up" /\ volume = "ok"

\* A periodic job is made once in its period, whatever ticks fail, whenever the process is restarted, and
\* with whatever settings it accepts ("a missed tick, a restart, a clock jump, or two ticks landing in
\* the same second all collapse to the same key", scheduler.rs:15).
OncePerPeriod == \A k \in Key : k[1] \in {Schedule[i].kind : i \in DOMAIN Schedule} => made[k] <= 1

\* A download that this process runs finds its source's module, if the package compiles, and its limit,
\* unless the start could not read them.
WorkFindsItsSources ==
    \A s \in Installed : Download(s) \in mine =>
        /\ "sources" \notin unread /\ s \in Compiles => s \in loaded
        /\ "limits" \notin unread => s \in limited

\* A process that accepted its settings and says that it is ready does what is asked of it, while it
\* remains so; unless its start could not read the sources, which /readyz does not tell.
ReadyMeansWork ==
    \A s \in Compiles :
        (Ready /\ "sources" \notin unread /\ rows[Download(s)].state = "queued")
            ~> (rows[Download(s)].state \in {"succeeded", "none"} \/ ~Ready)
=============================================================================
