------------------------------- MODULE Metrics -------------------------------
(***************************************************************************)
(* The counters behind the two objectives (crates/jobs/src/metrics.rs):    *)
(* workers record how jobs came out, and how long somebody has waited for  *)
(* a chapter; the scheduler takes the window's summary at a tick, an hour  *)
(* or more after the last, and logs it.                                    *)
(*                                                                         *)
(* Durations are numbers of a unit; a percentile is by the nearest rank.   *)
(***************************************************************************)
EXTENDS Integers, Sequences, FiniteSets, SequencesExt, FiniteSetsExt, Ordering

CONSTANTS JobWorker,
          Wait,          \* how long a chapter can have taken
          MaxSamples,    \* MAX_SAMPLES
          MetricsWindow, \* metrics_window, in ticks
          MaxOutcomes,   \* bound: jobs that come to an end
          MaxTaken       \* bound: summaries

ASSUME MetricsAssumption ==
    /\ Wait \subseteq Nat /\ MaxSamples \in Nat \ {0} /\ MetricsWindow \in Nat
    /\ {MaxOutcomes, MaxTaken} \subseteq Nat

Outcomes == {"succeeded", "service", "source"}
NoWait   == -1

VARIABLES window,     \* JobMetrics: counts, samples, and whether one was left out
          opened,     \* ticks since the window was opened
          snapshots,  \* what was logged, with what was recorded of waits meanwhile
          pending,    \* worker -> the wait it has yet to record
          recorded,   \* history: outcome -> how often it was recorded
          waits       \* history: the waits recorded since the last summary

metricsVars == <<window, opened, snapshots, pending, recorded, waits>>

NoOutcomes == [o \in Outcomes |-> 0]
NewWindow  == [count |-> NoOutcomes, ttfp |-> <<>>, truncated |-> FALSE]

MetricsInit ==
    /\ window = NewWindow /\ opened = 0 /\ snapshots = <<>>
    /\ pending = [w \in JobWorker |-> NoWait]
    /\ recorded = NoOutcomes /\ waits = <<>>

-----------------------------------------------------------------------------
\* What a source's site did is no fault of the service; whatever else went wrong is.
Classify(error) == IF error \in {"source", "capability"} THEN "source" ELSE "service"

\* A download that somebody asked for, and none that was found by a check.
IsInteractive(job) == job.kind = "download_chapter" /\ job.priority = "interactive"

Record(outcome) ==
    /\ FoldSet(LAMBDA o, n : recorded[o] + n, 0, Outcomes) < MaxOutcomes
    /\ window' = [window EXCEPT !.count[outcome] = @ + 1]
    /\ recorded' = [recorded EXCEPT ![outcome] = @ + 1]

\* The worker: the job's outcome, and then the time it took, in two steps.
Succeed(w, job, wait) ==
    /\ pending[w] = NoWait
    /\ Record("succeeded")
    /\ pending' = [pending EXCEPT ![w] = IF IsInteractive(job) THEN wait ELSE NoWait]
    /\ UNCHANGED <<opened, snapshots, waits>>

Fail(w, error) ==
    /\ pending[w] = NoWait
    /\ Record(Classify(error))
    /\ UNCHANGED <<opened, snapshots, pending, waits>>

RecordTimeToFirstPage(w) ==
    /\ pending[w] # NoWait
    /\ window' = IF Len(window.ttfp) >= MaxSamples THEN [window EXCEPT !.truncated = TRUE]
                 ELSE [window EXCEPT !.ttfp = Append(@, pending[w])]
    /\ waits' = Append(waits, pending[w])
    /\ pending' = [pending EXCEPT ![w] = NoWait]
    /\ UNCHANGED <<opened, snapshots, recorded>>

-----------------------------------------------------------------------------
\* ceil(p/100 * n), within the samples.
NearestRank(p, n) == LET r == (p * n + 99) \div 100 IN IF r < 1 THEN 1 ELSE IF r > n THEN n ELSE r

BadPercentile(sorted, p) ==
    IF sorted = <<>> THEN 0 ELSE sorted[IF p * Len(sorted) < 100 THEN 1 ELSE (p * Len(sorted)) \div 100]

Percentile(sorted, p) == IF sorted = <<>> THEN 0 ELSE sorted[NearestRank(p, Len(sorted))]

\* sort_unstable: of two that are equal, either may come first.
SortedSamples(s) ==
    LET place == Ordered(DOMAIN s, LAMBDA i, j : s[i] < s[j] \/ (s[i] = s[j] /\ i < j))
    IN  [k \in DOMAIN s |-> s[place[k]]]

Snapshot ==
    LET samples == SortedSamples(window.ttfp) IN
    [window_secs |-> opened, count |-> window.count, samples |-> Len(samples),
     p50 |-> Percentile(samples, 50), p95 |-> Percentile(samples, 95),
     max |-> IF samples = <<>> THEN 0 ELSE samples[Len(samples)],
     truncated |-> window.truncated]

\* Taken and begun anew in one.
Take == window' = NewWindow

\* A tick: is the window due?
EmitMetrics ==
    /\ Len(snapshots) < MaxTaken
    /\ IF opened < MetricsWindow
       THEN opened' = opened + 1 /\ UNCHANGED <<window, snapshots, waits>>
       ELSE /\ Take /\ opened' = 0
            /\ snapshots' = Append(snapshots, [line |-> Snapshot, waits |-> waits])
            /\ waits' = <<>>
    /\ UNCHANGED <<pending, recorded>>

MetricsNext ==
    \/ \E w \in JobWorker :
          \/ \E kind \in {"download_chapter", "check_follow"}, priority \in {"interactive", "background"},
                wait \in Wait : Succeed(w, [kind |-> kind, priority |-> priority], wait)
          \/ \E error \in {"source", "capability", "storage", "not_found"} : Fail(w, error)
          \/ RecordTimeToFirstPage(w)
    \/ EmitMetrics

-----------------------------------------------------------------------------
\* Every outcome is in one summary, or in the window that is open ("that job is then never counted at
\* all", JobMetrics::take), and what a summary says of waits is true of those that were recorded for it:
\* a percentile is one of them, that many are no longer and fewer are shorter, and where some were left
\* out it says so.
CountIn(outcome, summaries) ==
    LET upto[i \in 0..Len(summaries)] ==
            IF i = 0 THEN 0 ELSE upto[i - 1] + summaries[i].line.count[outcome]
    IN  upto[Len(summaries)]

IsPercentile(x, p, ws) ==
    IF ws = <<>> THEN x = 0
    ELSE /\ x \in ToSet(ws)
         /\ 100 * Cardinality({i \in DOMAIN ws : ws[i] <= x}) >= p * Len(ws)
         /\ 100 * Cardinality({i \in DOMAIN ws : ws[i] < x}) < p * Len(ws)

SummariesAreTrue ==
    /\ \A o \in Outcomes : recorded[o] = CountIn(o, snapshots) + window.count[o]
    /\ \A i \in DOMAIN snapshots :
          LET line == snapshots[i].line
              kept == SubSeq(snapshots[i].waits, 1, line.samples)
          IN  /\ line.window_secs >= MetricsWindow
              /\ line.truncated <=> Len(snapshots[i].waits) > MaxSamples
              /\ line.samples = Min({MaxSamples, Len(snapshots[i].waits)})
              /\ IsPercentile(line.p50, 50, kept) /\ IsPercentile(line.p95, 95, kept)
              /\ kept # <<>> => line.max = Max(ToSet(kept))
=============================================================================
