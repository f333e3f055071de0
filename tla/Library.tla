------------------------------ MODULE Library ------------------------------
(***************************************************************************)
(* The library: the archives under the library root, the rows of           *)
(* downloaded_chapter that say which chapter is in which archive, and      *)
(* everything that changes one of the two without the other.               *)
(*                                                                         *)
(*   - a download job of crates/jobs/src/handlers/download.rs, which has   *)
(*     the archive built and renamed into place by                         *)
(*     crates/packaging/src/store.rs and then records it;                  *)
(*   - DELETE /manga/{id} of crates/api/src/routes/library.rs, which       *)
(*     deletes files one by one and then the series, whose rows cascade;   *)
(*   - reconcile_library of crates/jobs/src/handlers/maintenance.rs, which *)
(*     forgets the rows whose file is missing;                             *)
(*   - the disk: a file lost, a root that is not there, no space.          *)
(*                                                                         *)
(* The queue is reduced to what these tell apart of a row: its key, its    *)
(* state and who is at it.  JobQueue and WorkerPool have the whole of it.    *)
(***************************************************************************)
EXTENDS Integers, FiniteSets

CONSTANTS Series, Chapter,
          NoChapter,
          SeriesOf,     \* the series of a chapter
          Title,        \* the title of a series, as sanitize_component leaves it
          Number,       \* the volume and the number of a chapter
          Worker,
          Key,          \* idempotency keys, <<chapter, tag>>: see Tag
          Outages,      \* how the volume may fail, of OutageKind
          MaxFaults,    \* bound: retries of a job, stale locks, restarts
          MaxLosses     \* bound: files lost, outages of the volume

\* The keys of a chapter: "download:{id}" is the one of a sweep and of a request without a
\* header of its own, "download:{id}:{header}" the one of a client that sent a key.
Tag == {"own", "client"}

\* "unreachable": the root cannot be resolved, every call fails.  "bare": the mount is gone and
\* its mount point is a directory like any other, with nothing in it.
OutageKind == {"unreachable", "bare"}

ASSUME LibraryAssumption ==
    /\ NoChapter \notin Chapter
    /\ SeriesOf \in [Chapter -> Series]
    /\ Key \subseteq Chapter \X Tag
    /\ Outages \subseteq OutageKind
    /\ MaxFaults \in Nat
    /\ MaxLosses \in Nat

VARIABLES kept,      \* the series in the library
          rows,      \* the chapters with a row in downloaded_chapter
          disk,      \* path -> the chapter whose archive is there
          volume,    \* "mounted", or how it fails
          job,       \* key -> the download job with that key
          worker,    \* what each worker is at
          removal,   \* the DELETE request in flight
          pass,      \* the pass of reconcile_library in flight
          lost,      \* history: the chapters whose file something else took away
          faults, losses

queue == <<job, faults>>
vars == <<kept, rows, disk, volume, job, worker, removal, pass, lost, faults, losses>>

-----------------------------------------------------------------------------
\* series_dir and chapter_stem: a title, and the volume and number.  The disambiguator that
\* series_dir takes is always None.
BadPathOf(c) == <<Title[SeriesOf[c]]>>
PathOf(c) == <<Title[SeriesOf[c]], Number[c]>>
Path == {PathOf(c) : c \in Chapter}

\* No two chapters of the library have the same title, volume and number.
DistinctPaths ==
    \A c, d \in Chapter : Title[SeriesOf[c]] = Title[SeriesOf[d]] /\ Number[c] = Number[d] => c = d

\* The chapters whose archive is at the path of this one.
Sharing(c) == {d \in Chapter : PathOf(d) = PathOf(c)}

Of(s) == {c \in Chapter : SeriesOf[c] = s}
Known == {c \in Chapter : SeriesOf[c] \in kept}

\* exists: an error when the root cannot be resolved, false for what is under a bare mount point.
Reachable == volume # "unreachable"
OnDisk(c) == volume = "mounted" /\ disk[PathOf(c)] # NoChapter

(***************************************************************************)
(* checking  its row was read, exists is asked                             *)
(* fetching  the pages, up to the rename of the archive into place         *)
(* placed    up to the record                                              *)
(***************************************************************************)
Pc == {"idle", "checking", "fetching", "placed"}
JobState == {"none", "queued", "running", "succeeded", "failed"}

\* at: the workers that are at an attempt of this very row.
NoJob == [state |-> "none", at |-> {}]
Idle  == [pc |-> "idle", key |-> <<NoChapter, "own">>]
NoRemoval == [series |-> {}, left |-> {}]
NoPass == [on |-> FALSE, left |-> {}, missing |-> {}]

TypeOK ==
    /\ kept \subseteq Series
    /\ rows \subseteq Chapter
    /\ disk \in [Path -> Chapter \cup {NoChapter}]
    /\ volume \in {"mounted"} \cup Outages
    /\ job \in [Key -> [state : JobState, at : SUBSET Worker]]
    /\ worker \in [Worker -> [pc : Pc, key : Key \cup {Idle.key}]]
    /\ removal \in [series : SUBSET Series, left : SUBSET Chapter]
    /\ pass \in [on : BOOLEAN, left : SUBSET Chapter, missing : SUBSET Chapter]
    /\ lost \subseteq Chapter
    /\ faults \in 0..MaxFaults
    /\ losses \in 0..MaxLosses

\* The process may find a library: what earlier jobs have recorded, each file at its place.
Init ==
    /\ kept = Series
    /\ rows \in SUBSET Chapter
    /\ disk \in [Path -> Chapter \cup {NoChapter}]
    /\ \A c \in rows : disk[PathOf(c)] = c
    /\ \A p \in Path : disk[p] # NoChapter => disk[p] \in rows /\ PathOf(disk[p]) = p
    /\ volume = "mounted"
    /\ job = [k \in Key |-> NoJob]
    /\ worker = [w \in Worker |-> Idle]
    /\ removal = NoRemoval
    /\ pass = NoPass
    /\ lost = {}
    /\ faults = 0
    /\ losses = 0

-----------------------------------------------------------------------------
\* The jobs.  enqueue leaves a row that has the key as it is, whatever its state.
Enqueued(k) == job' = [job EXCEPT ![k] = IF @ = NoJob THEN [NoJob EXCEPT !.state = "queued"] ELSE @]

\* POST /chapters/{id}/downloads: 409 for a chapter that is there.
Request(k) ==
    /\ k[1] \in Known
    /\ k[1] \in rows => Reachable /\ ~OnDisk(k[1])
    /\ Enqueued(k)
    /\ UNCHANGED <<kept, rows, disk, volume, worker, removal, pass, lost, faults, losses>>

\* queue_downloads: a sweep asks for no row and no file.
Sweep(c) ==
    /\ c \in Known
    /\ <<c, "own">> \in Key
    /\ Enqueued(<<c, "own">>)
    /\ UNCHANGED <<kept, rows, disk, volume, worker, removal, pass, lost, faults, losses>>

\* prune deletes a succeeded row in the end, never a failed one.
Prune(k) ==
    /\ job[k].state = "succeeded"
    /\ job' = [job EXCEPT ![k] = NoJob]
    /\ UNCHANGED <<kept, rows, disk, volume, worker, removal, pass, lost, faults, losses>>

Requeued(k) == job' = [job EXCEPT ![k].state = "queued"]

BadRecover(k) ==
    /\ job[k].state = "running"
    /\ faults < MaxFaults
    /\ faults' = faults + 1
    /\ job[k].at # {}
    /\ Requeued(k)
    /\ UNCHANGED <<kept, rows, disk, volume, worker, removal, pass, lost, losses>>

\* recover_stale: nobody is at the job any more, or somebody who is too slow, and goes on.
Recover(k) ==
    /\ job[k].state = "running"
    /\ \/ job[k].at = {} /\ UNCHANGED faults
       \/ faults < MaxFaults /\ faults' = faults + 1
    /\ Requeued(k)
    /\ UNCHANGED <<kept, rows, disk, volume, worker, removal, pass, lost, losses>>

\* A handler returns.  complete and fail write the row with its id, whoever is at it by now and
\* whatever another attempt made of it; they find none when it has been pruned.
Returns(w, state) ==
    LET k == worker[w].key
    IN  /\ worker' = [worker EXCEPT ![w] = Idle]
        /\ job' = IF w \notin job[k].at THEN job
                  ELSE [job EXCEPT ![k] = [state |-> state, at |-> @.at \ {w}]]

Succeeds(w) == Returns(w, "succeeded") /\ UNCHANGED faults
FailsForGood(w) == Returns(w, "failed") /\ UNCHANGED faults
FailsRetryably(w) ==
    \/ FailsForGood(w)        \* its attempts are used up
    \/ /\ faults < MaxFaults
       /\ faults' = faults + 1
       /\ Returns(w, "queued")

Goes(w, pc) == worker' = [worker EXCEPT ![w].pc = pc] /\ UNCHANGED queue

-----------------------------------------------------------------------------
\* DownloadChapter::handle.  The chapter and its series are read, and the row; a series that is
\* gone is an error nobody retries.
Claim(w, k) ==
    /\ worker[w] = Idle
    /\ job[k].state = "queued"
    /\ job' = [job EXCEPT ![k] = [state |-> "running", at |-> @.at \cup {w}]]
    /\ LET known == k[1] \in Known
       IN  worker' = [worker EXCEPT ![w] =
               [pc  |-> IF known /\ k[1] \notin rows THEN "fetching" ELSE "checking", key |-> k]]
    /\ UNCHANGED <<kept, rows, disk, volume, removal, pass, lost, faults, losses>>

At(w, pc) == worker[w].pc = pc
ChapterOf(w) == worker[w].key[1]

\* already_downloaded: the row is not enough, its file is looked for.
Check(w) ==
    /\ At(w, "checking")
    /\ \/ ChapterOf(w) \notin Known /\ FailsForGood(w)
       \/ ChapterOf(w) \in Known /\ ~Reachable /\ FailsRetryably(w)
       \/ ChapterOf(w) \in Known /\ Reachable /\ OnDisk(ChapterOf(w)) /\ Succeeds(w)
       \/ ChapterOf(w) \in Known /\ Reachable /\ ~OnDisk(ChapterOf(w)) /\ Goes(w, "fetching")
    /\ UNCHANGED <<kept, rows, disk, volume, removal, pass, lost, losses>>

\* write_chapter: the archive is built in the staging directory and renamed over what was there.
Written(c) == disk' = [disk EXCEPT ![PathOf(c)] = c]

\* pages, to_refs and fetch_all: text and zip pages, too many pages and too many bytes are not
\* retried, no pages and an error of the source or the network may be.  Then write_chapter.  None
\* of it changes the library before the rename, by which the archive of this chapter replaces
\* whatever was at its path.  One into a bare mount point is not seen once the volume is back.
\* A write that fails for want of space is not retried.
Place(w) ==
    /\ At(w, "fetching")
    /\ \/ /\ volume = "mounted"
          /\ Written(ChapterOf(w))
          /\ Goes(w, "placed")
          /\ UNCHANGED lost
       \/ /\ volume = "bare"
          /\ lost' = lost \cup {ChapterOf(w)}
          /\ Goes(w, "placed")
          /\ UNCHANGED disk
       \/ /\ FailsRetryably(w) \/ FailsForGood(w)
          /\ UNCHANGED <<disk, lost>>
    /\ UNCHANGED <<kept, rows, volume, removal, pass, losses>>

BadRecord(w) ==
    /\ At(w, "placed") \/ At(w, "fetching")
    /\ \/ /\ ChapterOf(w) \in Known
          /\ rows' = rows \cup {ChapterOf(w)}
          /\ Succeeds(w)
       \/ FailsRetryably(w) /\ UNCHANGED rows
    /\ UNCHANGED <<kept, disk, volume, removal, pass, lost, losses>>

\* record_download: an upsert.  The foreign key refuses it when the chapter has gone with its
\* series, and the archive stays.
Record(w) ==
    /\ At(w, "placed")
    /\ \/ /\ ChapterOf(w) \in Known
          /\ rows' = rows \cup {ChapterOf(w)}
          /\ Succeeds(w)
       \/ FailsRetryably(w) /\ UNCHANGED rows
    /\ UNCHANGED <<kept, disk, volume, removal, pass, lost, losses>>

Download(w) == Check(w) \/ Place(w) \/ Record(w)

-----------------------------------------------------------------------------
\* DELETE /manga/{id}: the paths are read while the rows still name them.
Remove(s, files) ==
    /\ removal = NoRemoval
    /\ s \in kept
    /\ removal' = [series |-> {s}, left |-> IF files THEN rows \cap Of(s) ELSE {}]
    /\ UNCHANGED <<kept, rows, disk, volume, job, worker, pass, lost, faults, losses>>

\* A file that is not there counts as deleted; another error ends the request half-way.
DeleteFile(c) ==
    /\ c \in removal.left
    /\ \/ /\ Reachable
          /\ removal' = [removal EXCEPT !.left = @ \ {c}]
          /\ disk' = IF volume = "mounted" THEN [disk EXCEPT ![PathOf(c)] = NoChapter] ELSE disk
          /\ lost' = lost \cup Sharing(c)
       \/ removal' = NoRemoval /\ UNCHANGED <<disk, lost>>
    /\ UNCHANGED <<kept, rows, volume, job, worker, pass, faults, losses>>

\* delete_manga: one statement, the chapters and their rows go with the series.
DeleteSeries ==
    /\ removal.series # {}
    /\ removal.left = {}
    /\ kept' = kept \ removal.series
    /\ rows' = {c \in rows : SeriesOf[c] \notin removal.series}
    /\ removal' = NoRemoval
    /\ UNCHANGED <<disk, volume, job, worker, pass, lost, faults, losses>>

\* reconcile_library reads a page of chapters, after free_bytes has shown that the root answers.
StartPass(s) ==
    /\ ~pass.on
    /\ Reachable
    /\ s \in kept
    /\ pass' = [on |-> TRUE, left |-> Of(s), missing |-> {}]
    /\ UNCHANGED <<kept, rows, disk, volume, job, worker, removal, lost, faults, losses>>

BadLookFor(c) ==
    /\ pass.on
    /\ c \in pass.left
    /\ pass' = [pass EXCEPT !.left = @ \ {c},
                            !.missing = IF c \in rows /\ ~OnDisk(c) THEN @ \cup {c} ELSE @]
    /\ UNCHANGED <<kept, rows, disk, volume, job, worker, removal, lost, faults, losses>>

\* missing_download: a row whose file is not there.  A root that is gone ends the pass.
LookFor(c) ==
    /\ pass.on
    /\ c \in pass.left
    /\ pass' = IF c \in rows /\ ~Reachable THEN NoPass
               ELSE [pass EXCEPT !.left = @ \ {c},
                                 !.missing = IF c \in rows /\ ~OnDisk(c) THEN @ \cup {c} ELSE @]
    /\ UNCHANGED <<kept, rows, disk, volume, job, worker, removal, lost, faults, losses>>

BadForget ==
    /\ pass.on
    /\ pass.left = {}
    /\ pass' = NoPass
    /\ UNCHANGED <<kept, rows, disk, volume, job, worker, removal, lost, faults, losses>>

\* forget_downloads: one statement for the page.
Forget ==
    /\ pass.on
    /\ pass.left = {}
    /\ rows' = rows \ pass.missing
    /\ pass' = NoPass
    /\ UNCHANGED <<kept, disk, volume, job, worker, removal, lost, faults, losses>>

-----------------------------------------------------------------------------
\* What happens to the volume.
LoseFile(c) ==
    /\ losses < MaxLosses
    /\ disk[PathOf(c)] # NoChapter
    /\ disk' = [disk EXCEPT ![PathOf(c)] = NoChapter]
    /\ lost' = lost \cup Sharing(c)
    /\ losses' = losses + 1
    /\ UNCHANGED <<kept, rows, volume, job, worker, removal, pass, faults>>

Unmount ==
    /\ losses < MaxLosses
    /\ volume = "mounted"
    /\ volume' \in Outages
    /\ losses' = losses + 1
    /\ UNCHANGED <<kept, rows, disk, job, worker, removal, pass, lost, faults>>

Mount ==
    /\ volume # "mounted"
    /\ volume' = "mounted"
    /\ UNCHANGED <<kept, rows, disk, job, worker, removal, pass, lost, faults, losses>>

\* The process ends and starts again, before which clean_staging has emptied the staging directory.
Restart ==
    /\ faults < MaxFaults
    /\ faults' = faults + 1
    /\ worker' = [w \in Worker |-> Idle]
    /\ job' = [k \in Key |-> [job[k] EXCEPT !.at = {}]]
    /\ removal' = NoRemoval
    /\ pass' = NoPass
    /\ UNCHANGED <<kept, rows, disk, volume, lost, losses>>

Next ==
    \/ \E k \in Key : Request(k) \/ Prune(k) \/ Recover(k)
    \/ \E c \in Chapter : Sweep(c)
    \/ \E w \in Worker : Download(w) \/ \E k \in Key : Claim(w, k)
    \/ \E s \in Series : StartPass(s) \/ \E files \in BOOLEAN : Remove(s, files)
    \/ \E c \in Chapter : DeleteFile(c) \/ LookFor(c) \/ LoseFile(c)
    \/ DeleteSeries
    \/ Forget
    \/ Unmount
    \/ Mount
    \/ Restart

Spec == Init /\ [][Next]_vars

\* The queue is served in order, so a job that is due is claimed in the end although others come
\* in between; a handler goes on; the volume is mounted again; passes are scheduled for ever.
Fairness ==
    /\ \A k \in Key : SF_vars(\E w \in Worker : Claim(w, k)) /\ WF_vars(Recover(k))
    /\ \A w \in Worker : WF_vars(Download(w))
    /\ WF_vars(Mount)
    /\ \A s \in Series : SF_vars(StartPass(s))
    /\ \A c \in Chapter : WF_vars(LookFor(c))
    /\ WF_vars(Forget)

FairSpec == Spec /\ Fairness

-----------------------------------------------------------------------------
\* What a row says is in the library is in the library: the archive is placed before it is
\* recorded, and no retry, restart or second worker at the same chapter leaves a row without
\* its file, unless the volume or a removal took the file away.
RowHasFile == \A c \in rows : disk[PathOf(c)] # NoChapter \/ c \in lost

\* The file a reader gets for a chapter is the archive of that chapter, where no two chapters
\* have the same title, volume and number.
ServesItsOwn == DistinctPaths => \A c \in rows : disk[PathOf(c)] \in {c, NoChapter}

\* The inductive invariant.  No row outlives its series; what is at a path is named for it; a
\* worker that is about to record has placed its archive; a pass that never saw a bare mount
\* point takes a file for missing only if it was lost.
RowsOfKept == rows \subseteq Known
Placed == \A w \in Worker :
    At(w, "placed") => disk[PathOf(ChapterOf(w))] # NoChapter \/ ChapterOf(w) \in lost
NamedForIt == \A p \in Path : disk[p] # NoChapter => PathOf(disk[p]) = p
MissingIsLost == "bare" \notin Outages => pass.missing \subseteq lost
BusyHasKey == \A w \in Worker : ~At(w, "idle") => worker[w].key \in Key

IInv == TypeOK /\ RowHasFile /\ RowsOfKept /\ Placed /\ NamedForIt /\ MissingIsLost /\ BusyHasKey

\* reconcile_library says that an outage of the volume must not be taken for the loss of what is
\* on it.  As long as the root cannot be resolved in an outage, the row of a chapter that stays
\* is deleted only if its file was really lost.
ForgetsOnlyTheLost ==
    [][\A c \in rows \ rows' :
          "bare" \notin Outages /\ SeriesOf[c] \in kept' => c \in lost]_vars

\* A row whose file has gone does not stay for ever: it is forgotten, or the file is fetched
\* again.
RowsAreReconciled ==
    \A c \in Chapter : c \in rows /\ disk[PathOf(c)] = NoChapter
                      ~> c \notin rows \/ disk[PathOf(c)] # NoChapter

\* A download that was queued ends, through retries, stale locks, removals and outages.
DownloadsSettle ==
    \A k \in Key : job[k].state \in {"queued", "running"}
                  ~> job[k].state \in {"succeeded", "failed", "none"}
=============================================================================
