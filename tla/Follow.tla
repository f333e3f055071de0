------------------------------- MODULE Follow -------------------------------
(***************************************************************************)
(* Followed series: the scheduler of crates/jobs/src/scheduler.rs that     *)
(* asks for a check once per interval, the checks of                       *)
(* crates/jobs/src/handlers/follow.rs that bring what the source lists     *)
(* into the library, and the reader who follows, presses "check now", adds *)
(* and removes series while they run.                                      *)
(*                                                                         *)
(* Time passes in ticks of the scheduler.  A period key names the interval *)
(* it belongs to, so only the keys of the current one can be met again:    *)
(* phase is how far that one has come, and taken is the series whose key   *)
(* of it has a row in the job table.                                       *)
(***************************************************************************)
EXTENDS Integers, FiniteSets

CONSTANTS Series, Chapter,
          NoSeries,
          SeriesOf,     \* the series of a chapter
          Worker,
          Interval,     \* ticks: check_interval_secs
          MaxQueued,    \* bound: jobs of a kind that wait for a series
          MaxFaults     \* bound: failed attempts and restarts

ASSUME FollowAssumption ==
    /\ NoSeries \notin Series
    /\ SeriesOf \in [Chapter -> Series]
    /\ Interval \in Nat \ {0}
    /\ MaxQueued \in Nat \ {0}
    /\ MaxFaults \in Nat

VARIABLES site,       \* the chapters the sources list by now
          library,    \* series -> "kept", "removed", or "returned"
          stored,     \* the chapters with a row
          follow,     \* series -> its follow, see FollowRow
          phase, taken, pressed,
          waiting,    \* series -> check_follow jobs that wait
          worker,
          adding,     \* series -> the POST /manga for it
          downloads,  \* the chapters whose "download:{id}" key has a row
          owed,       \* history: chapters stored by a check that is to queue them
          faults

catalogue == <<site, library, stored, follow>>
clock     == <<phase, taken, pressed>>
vars == <<site, library, stored, follow, phase, taken, pressed, waiting, worker, adding, downloads, owed, faults>>

-----------------------------------------------------------------------------
\* age: ticks since last_checked_at; Interval stands for that and more, and for NULL.
FollowRow == [on : BOOLEAN, auto : BOOLEAN, age : 0..Interval]
NoFollow  == [on |-> FALSE, auto |-> FALSE, age |-> Interval]

(***************************************************************************)
(* reading    details and chapters are asked of the source                 *)
(* merging    they are there, the series is to be upserted                 *)
(* storing    the chapters are to be upserted                              *)
(* queueing   downloads are to be queued                                   *)
(* marking    last_checked_at is to be written                             *)
(***************************************************************************)
Pc == {"idle", "reading", "merging", "storing", "queueing", "marking"}

Idle == [pc |-> "idle", series |-> NoSeries, auto |-> FALSE, found |-> {}, new |-> {}]

NotAdding == [on |-> FALSE, found |-> {}]

TypeOK ==
    /\ site \subseteq Chapter
    /\ library \in [Series -> {"kept", "removed", "returned"}]
    /\ stored \subseteq Chapter
    /\ follow \in [Series -> FollowRow]
    /\ phase \in 0..(Interval - 1)
    /\ taken \subseteq Series
    /\ pressed \subseteq Series
    /\ waiting \in [Series -> 0..MaxQueued]
    /\ worker \in [Worker -> [pc : Pc, series : Series \cup {NoSeries}, auto : BOOLEAN,
                              found : SUBSET Chapter, new : SUBSET Chapter]]
    /\ adding \in [Series -> [on : BOOLEAN, found : SUBSET Chapter]]
    /\ downloads \subseteq Chapter
    /\ owed \subseteq Chapter
    /\ faults \in 0..MaxFaults

Init ==
    /\ site = {}
    /\ library = [s \in Series |-> "kept"]
    /\ stored = {}
    /\ follow = [s \in Series |-> NoFollow]
    /\ phase = 0
    /\ taken = {}
    /\ pressed = {}
    /\ waiting = [s \in Series |-> 0]
    /\ worker = [w \in Worker |-> Idle]
    /\ adding = [s \in Series |-> NotAdding]
    /\ downloads = {}
    /\ owed = {}
    /\ faults = 0

-----------------------------------------------------------------------------
\* The source lists one more chapter.
Publish(c) ==
    /\ c \notin site
    /\ site' = site \cup {c}
    /\ UNCHANGED <<adding, library, stored, follow, clock, waiting, worker, downloads, owed, faults>>

\* period_key: what names the period is the number of the interval, so that a new one begins
\* with all its keys free.
BadNewPeriod(keys) == keys
NewPeriod(keys) == IF phase = Interval - 1 THEN {} ELSE keys

\* A tick: every follow gets older, and the minute of "check now" is over.
Tick ==
    /\ phase' = (phase + 1) % Interval
    /\ taken' = NewPeriod(taken)
    /\ pressed' = {}
    /\ follow' = [s \in Series |->
                    [follow[s] EXCEPT !.age = IF @ = Interval THEN @ ELSE @ + 1]]
    /\ UNCHANGED <<adding, site, library, stored, waiting, worker, downloads, owed, faults>>

\* Scheduler::tick for the follows: due_follows, and enqueue under the period's key.
IsDue(s) == follow[s].on /\ follow[s].age = Interval

Schedule(s) ==
    /\ IsDue(s)
    /\ s \notin taken
    /\ waiting[s] < MaxQueued
    /\ taken' = taken \cup {s}
    /\ waiting' = [waiting EXCEPT ![s] = @ + 1]
    /\ UNCHANGED <<adding, catalogue, phase, pressed, worker, downloads, owed, faults>>

\* POST /follows/{id}/check-now: keyed on the minute.
CheckNow(s) ==
    /\ follow[s].on
    /\ s \notin pressed
    /\ waiting[s] < MaxQueued
    /\ pressed' = pressed \cup {s}
    /\ waiting' = [waiting EXCEPT ![s] = @ + 1]
    /\ UNCHANGED <<adding, catalogue, phase, taken, worker, downloads, owed, faults>>

\* PUT /follows: an update keeps last_checked_at.
Upserted(f, auto) == IF f.on THEN [f EXCEPT !.auto = auto]
                     ELSE [on |-> TRUE, auto |-> auto, age |-> Interval]

PutFollow(s, auto) ==
    /\ library[s] = "kept"
    /\ follow' = [follow EXCEPT ![s] = Upserted(@, auto)]
    /\ UNCHANGED <<adding, site, library, stored, clock, waiting, worker, downloads, owed, faults>>

DeleteFollow(s) ==
    /\ follow[s].on
    /\ follow' = [follow EXCEPT ![s] = NoFollow]
    /\ UNCHANGED <<adding, site, library, stored, clock, waiting, worker, downloads, owed, faults>>

\* DELETE /manga/{id}: the chapters and the follow go by cascade.
Chapters(s) == {c \in Chapter : SeriesOf[c] = s}

Remove(s) ==
    /\ library[s] = "kept"
    /\ library' = [library EXCEPT ![s] = "removed"]
    /\ stored' = stored \ Chapters(s)
    /\ owed' = owed \ Chapters(s)
    /\ follow' = [follow EXCEPT ![s] = NoFollow]
    /\ UNCHANGED <<adding, site, clock, waiting, worker, downloads, faults>>

-----------------------------------------------------------------------------
\* The end of an attempt.  One that failed and may be retried waits again, or was the last.
Ends(w) == worker' = [worker EXCEPT ![w] = Idle]

Fails(w) ==
    /\ faults < MaxFaults
    /\ faults' = faults + 1
    /\ Ends(w)
    /\ LET s == worker[w].series
       IN  waiting' \in {waiting} \cup
                        (IF waiting[s] = MaxQueued THEN {} ELSE {[waiting EXCEPT ![s] = @ + 1]})

Goes(w, pc) == worker' = [worker EXCEPT ![w].pc = pc]

At(w, pc) == worker[w].pc = pc

\* CheckFollow::handle, up to the call of the source.  A follow that is gone is no failure; a
\* series that is gone is one nobody retries.
Begin(w, s) ==
    /\ worker[w] = Idle
    /\ waiting[s] > 0
    /\ waiting' = [waiting EXCEPT ![s] = @ - 1]
    /\ worker' = IF library[s] # "kept" \/ ~follow[s].on THEN worker
                 ELSE [worker EXCEPT ![w] =
                         [Idle EXCEPT !.pc = "reading", !.series = s, !.auto = follow[s].auto]]
    /\ UNCHANGED <<adding, catalogue, clock, downloads, owed, faults>>

\* details, and chapters unless they came with them.
Read(w) ==
    /\ At(w, "reading")
    /\ \/ /\ worker' = [worker EXCEPT ![w].pc = "merging",
                                      ![w].found = site \cap Chapters(worker[w].series)]
          /\ UNCHANGED <<waiting, faults>>
       \/ Fails(w)
    /\ UNCHANGED <<adding, catalogue, clock, downloads, owed>>

\* upsert_manga of the merged series: an insert when its row has been deleted in the meantime.
Merge(w) ==
    /\ At(w, "merging")
    /\ library' = [library EXCEPT ![worker[w].series] = IF @ = "removed" THEN "returned" ELSE @]
    /\ Goes(w, "storing")
    /\ UNCHANGED <<adding, site, stored, follow, clock, waiting, downloads, owed, faults>>

\* upsert_chapters: what it inserted is new.  The chapters name the id the series had, so the
\* foreign key refuses them if that row is gone.  It is not asked when there are none.
Stored(w, new) ==
    /\ stored' = stored \cup new
    /\ owed' = IF worker[w].auto THEN owed \cup (new \ downloads) ELSE owed
    /\ worker' = [worker EXCEPT ![w].new = new, ![w].found = {},
                                ![w].pc = IF worker[w].auto /\ new # {} THEN "queueing"
                                          ELSE "marking"]
    /\ UNCHANGED <<waiting, faults>>

BadStore(w) ==
    /\ At(w, "storing")
    /\ Stored(w, worker[w].found)
    /\ UNCHANGED <<adding, site, library, follow, clock, downloads>>

Store(w) ==
    /\ At(w, "storing")
    /\ \/ /\ worker[w].found = {} \/ library[worker[w].series] = "kept"
          /\ Stored(w, worker[w].found \ stored)
       \/ Fails(w) /\ UNCHANGED <<stored, owed>>
       \/ /\ worker[w].found # {}
          /\ library[worker[w].series] # "kept"
          /\ Ends(w)             \* and every retry finds no series
          /\ UNCHANGED <<stored, owed, waiting, faults>>
    /\ UNCHANGED <<adding, site, library, follow, clock, downloads>>

\* queue_downloads: one enqueue after the other.
Queue(w, c) ==
    /\ At(w, "queueing")
    /\ c \in worker[w].new \ downloads
    /\ \/ /\ downloads' = downloads \cup {c}
          /\ owed' = owed \ {c}
          /\ UNCHANGED <<worker, waiting, faults>>
       \/ Fails(w) /\ UNCHANGED <<downloads, owed>>
    /\ UNCHANGED <<adding, catalogue, clock>>

BadQueued(w) ==
    /\ At(w, "queueing")
    /\ Goes(w, "marking")
    /\ UNCHANGED <<adding, catalogue, clock, waiting, downloads, owed, faults>>

Queued(w) ==
    /\ At(w, "queueing")
    /\ worker[w].new \subseteq downloads
    /\ Goes(w, "marking")
    /\ UNCHANGED <<adding, catalogue, clock, waiting, downloads, owed, faults>>

\* mark_checked: an UPDATE of a row that may be gone.
Mark(w) ==
    /\ At(w, "marking")
    /\ \/ /\ follow' = [follow EXCEPT ![worker[w].series].age = IF follow[worker[w].series].on
                                                                THEN 0 ELSE @]
          /\ Ends(w)
          /\ UNCHANGED <<waiting, faults>>
       \/ Fails(w) /\ UNCHANGED follow
    /\ UNCHANGED <<adding, site, library, stored, clock, downloads, owed>>

\* The reader asks for a chapter himself: the same key.
Request(c) ==
    /\ c \in stored
    /\ c \notin downloads
    /\ downloads' = downloads \cup {c}
    /\ owed' = owed \ {c}
    /\ UNCHANGED <<adding, catalogue, clock, waiting, worker, faults>>

\* POST /manga for a series that is there: what the source lists is stored, and no check finds it
\* new.  Added after it was removed, it is another row.
AddRead(s) ==
    /\ ~adding[s].on
    /\ library[s] = "kept"
    /\ adding' = [adding EXCEPT ![s] = [on |-> TRUE, found |-> site \cap Chapters(s)]]
    /\ UNCHANGED <<catalogue, clock, waiting, worker, downloads, owed, faults>>

AddStore(s) ==
    /\ adding[s].on
    /\ adding' = [adding EXCEPT ![s] = NotAdding]
    /\ \/ /\ library' = [library EXCEPT ![s] = IF @ = "removed" THEN "returned" ELSE @]
          /\ stored' = IF library[s] = "kept" THEN stored \cup adding[s].found ELSE stored
       \/ UNCHANGED <<library, stored>>          \* the source or the database failed
    /\ UNCHANGED <<site, follow, clock, waiting, worker, downloads, owed, faults>>

HandlerStep(w) ==
    \/ Read(w) \/ Merge(w) \/ Store(w) \/ Queued(w) \/ Mark(w)
    \/ \E c \in Chapter : Queue(w, c)

Next ==
    \/ \E c \in Chapter : Publish(c) \/ Request(c)
    \/ Tick
    \/ \E s \in Series : \/ Schedule(s) \/ CheckNow(s) \/ DeleteFollow(s) \/ Remove(s)
                         \/ AddRead(s) \/ AddStore(s)
                         \/ \E auto \in BOOLEAN : PutFollow(s, auto)
    \/ \E w \in Worker : HandlerStep(w) \/ \E s \in Series : Begin(w, s)

Spec == Init /\ [][Next]_vars

\* Time passes, the scheduler ticks, and the queue is served in its order.
Fairness ==
    /\ WF_vars(Tick)
    /\ \A s \in Series : SF_vars(Schedule(s))
    /\ \A s \in Series : SF_vars(\E w \in Worker : Begin(w, s))
    /\ \A w \in Worker : WF_vars(HandlerStep(w))

FairSpec == Spec /\ Fairness

-----------------------------------------------------------------------------
\* A chapter is new to one check only: two that run at once, a scheduled one and one by hand, do not
\* both announce it and queue it.
NewToOne ==
    \A v, w \in Worker : v # w /\ worker[v].series \in Series /\ library[worker[v].series] = "kept"
                         => worker[v].new \cap worker[w].new = {}

\* A follow belongs to a series that is in the library: a removal, in whatever step of a check it
\* comes, leaves none behind, and no check brings one back.
FollowsAreOfKept == \A s \in Series : follow[s].on => library[s] = "kept"
StoredAreOfKept  == \A c \in stored : library[SeriesOf[c]] = "kept"

\* A check that is about to be marked has queued all it found.
QueuedBeforeMarked ==
    \A w \in Worker : At(w, "marking") /\ worker[w].auto => worker[w].new \subseteq downloads

\* What a check with auto_download has stored and not queued yet is in the hands of a worker that
\* will: nothing is dropped while no attempt fails.
NothingOwedIsDropped ==
    faults = 0 => \A c \in owed : \E w \in Worker : At(w, "queueing") /\ c \in worker[w].new

\* What is owed has no download yet, which makes it inductive: a worker leaves "queueing" only once
\* all it found has one.
OwedHasNoDownload == owed \cap downloads = {}

\* The inductive invariant adds that a worker's chapters are its series', and that those it was
\* the first to store are there for as long as the series is.
WorksOnSeries ==
    \A w \in Worker :
        IF At(w, "idle") THEN worker[w] = Idle
        ELSE /\ worker[w].series \in Series
             /\ worker[w].found \cup worker[w].new \subseteq Chapters(worker[w].series)

NewIsStored ==
    \A w \in Worker : ~At(w, "idle") /\ library[worker[w].series] = "kept"
                      => worker[w].new \subseteq stored

AddsItsOwn == \A s \in Series : adding[s].found \subseteq Chapters(s)

IInv == /\ TypeOK /\ FollowsAreOfKept /\ StoredAreOfKept /\ QueuedBeforeMarked
        /\ WorksOnSeries /\ AddsItsOwn /\ NewIsStored /\ NewToOne

\* A series that is due is checked in the end, however many checks of it have failed.
DueIsChecked ==
    \A s \in Series : IsDue(s) ~> ~IsDue(s)
=============================================================================
