--------------------------- MODULE LibraryProofs ---------------------------
(***************************************************************************)
(* Proofs about Library for every number of series, chapters, workers and  *)
(* keys and every bound: its rows have their files and are served their    *)
(* own, and a pass forgets only what was lost; and about a source's code   *)
(* in its sandbox (Sandbox), for every site and address: what a download   *)
(* fetches of it, and when it is attempted again.  The two share no state. *)
(***************************************************************************)
EXTENDS Library, Sandbox, WellFoundedInduction, TLAPS

\* A handler that returns leaves jobs and workers of the right type, and its worker idle.
LEMMA ReturnsType ==
    ASSUME TypeOK, BusyHasKey, NEW w \in Worker, ~At(w, "idle"),
           NEW state \in JobState, Returns(w, state)
    PROVE  /\ job' \in [Key -> [state : JobState, at : SUBSET Worker]]
           /\ worker' = [worker EXCEPT ![w] = Idle]
           /\ worker' \in [Worker -> [pc : Pc, key : Key \cup {Idle.key}]]
<1>1. worker[w].key \in Key
  BY DEF BusyHasKey
<1>2. worker' = [worker EXCEPT ![w] = Idle]
  BY DEF Returns
<1>3. Idle \in [pc : Pc, key : Key \cup {Idle.key}]
  BY DEF Idle, Pc
<1>4. worker' \in [Worker -> [pc : Pc, key : Key \cup {Idle.key}]]
  BY <1>2, <1>3 DEF TypeOK
<1>5. job' \in [Key -> [state : JobState, at : SUBSET Worker]]
  BY <1>1 DEF Returns, TypeOK
<1>. QED BY <1>2, <1>4, <1>5

\* What the three ways to return have in common.
LEMMA EndsType ==
    ASSUME TypeOK, BusyHasKey, NEW w \in Worker, ~At(w, "idle"),
           Succeeds(w) \/ FailsForGood(w) \/ FailsRetryably(w)
    PROVE  /\ job' \in [Key -> [state : JobState, at : SUBSET Worker]]
           /\ worker' = [worker EXCEPT ![w] = Idle]
           /\ worker' \in [Worker -> [pc : Pc, key : Key \cup {Idle.key}]]
           /\ faults' \in 0..MaxFaults
<1>1. \E state \in JobState : Returns(w, state)
  BY DEF Succeeds, FailsForGood, FailsRetryably, JobState
<1>2. faults' \in 0..MaxFaults
  BY LibraryAssumption DEF Succeeds, FailsForGood, FailsRetryably, TypeOK
<1>. QED BY <1>1, <1>2, ReturnsType

\* A handler that goes on has the key it had.
LEMMA GoesType ==
    ASSUME TypeOK, BusyHasKey, NEW w \in Worker, ~At(w, "idle"), NEW pc \in Pc, Goes(w, pc)
    PROVE  /\ UNCHANGED <<job, faults>>
           /\ worker' \in [Worker -> [pc : Pc, key : Key \cup {Idle.key}]]
           /\ \A v \in Worker : v # w => worker'[v] = worker[v]
           /\ worker'[w].pc = pc
           /\ worker'[w].key = worker[w].key
<1>1. worker' = [worker EXCEPT ![w].pc = pc] /\ UNCHANGED <<job, faults>>
  BY DEF Goes, queue
<1>. QED BY <1>1 DEF TypeOK

\* Chapters that are worked on are chapters.
LEMMA ChapterOfType ==
    ASSUME BusyHasKey, NEW w \in Worker, ~At(w, "idle")
    PROVE  ChapterOf(w) \in Chapter /\ PathOf(ChapterOf(w)) \in Path
BY LibraryAssumption DEF BusyHasKey, ChapterOf, Path, At

-----------------------------------------------------------------------------
LEMMA InitIInv == Init => IInv
<1>. SUFFICES ASSUME Init PROVE IInv
  OBVIOUS
<1>1. TypeOK
  BY LibraryAssumption DEF Init, TypeOK, NoJob, Idle, NoRemoval, NoPass, Pc, JobState
<1>2. RowHasFile /\ NamedForIt
  BY LibraryAssumption DEF Init, RowHasFile, NamedForIt
<1>3. RowsOfKept
  BY LibraryAssumption DEF Init, RowsOfKept, Known
<1>4. Placed /\ BusyHasKey
  BY DEF Init, Placed, BusyHasKey, At, Idle
<1>5. MissingIsLost
  BY DEF Init, MissingIsLost, NoPass
<1>. QED BY <1>1, <1>2, <1>3, <1>4, <1>5 DEF IInv
-----------------------------------------------------------------------------
\* The parts of IInv that speak of the library and not of the jobs or workers.
Shelf == RowHasFile /\ RowsOfKept /\ NamedForIt /\ MissingIsLost

ShelfVars == <<kept, rows, disk, pass, lost>>

LEMMA ShelfStutters == Shelf /\ UNCHANGED ShelfVars => Shelf'
BY DEF Shelf, ShelfVars, RowHasFile, RowsOfKept, NamedForIt, MissingIsLost, Known

\* A change of the jobs alone, or of the volume, disturbs nothing.
LEMMA JobStep ==
    ASSUME IInv,
           \/ \E k \in Key : Request(k) \/ Prune(k) \/ Recover(k)
           \/ \E c \in Chapter : Sweep(c)
           \/ Unmount \/ Mount
    PROVE  IInv'
<1>1. UNCHANGED <<kept, rows, disk, worker, removal, pass, lost>>
  BY DEF Request, Prune, Recover, Sweep, Unmount, Mount
<1>2. job' \in [Key -> [state : JobState, at : SUBSET Worker]]
  <2>1. CASE \E k \in Key : Request(k)
    BY <2>1 DEF IInv, TypeOK, Request, Enqueued, NoJob, JobState
  <2>2. CASE \E k \in Key : Prune(k)
    BY <2>2 DEF IInv, TypeOK, Prune, NoJob, JobState
  <2>3. CASE \E k \in Key : Recover(k)
    BY <2>3 DEF IInv, TypeOK, Recover, Requeued, JobState
  <2>4. CASE \E c \in Chapter : Sweep(c)
    BY <2>4 DEF IInv, TypeOK, Sweep, Enqueued, NoJob, JobState
  <2>5. CASE Unmount \/ Mount
    BY <2>5 DEF IInv, TypeOK, Unmount, Mount
  <2>. QED BY <2>1, <2>2, <2>3, <2>4, <2>5
<1>3. faults' \in 0..MaxFaults /\ losses' \in 0..MaxLosses
  <2>1. CASE \E k \in Key : Recover(k)
    BY <2>1, LibraryAssumption DEF IInv, TypeOK, Recover
  <2>2. CASE Unmount
    BY <2>2, LibraryAssumption DEF IInv, TypeOK, Unmount
  <2>3. CASE (\E k \in Key : Request(k) \/ Prune(k)) \/ (\E c \in Chapter : Sweep(c)) \/ Mount
    BY <2>3 DEF IInv, TypeOK, Request, Prune, Sweep, Mount
  <2>. QED BY <2>1, <2>2, <2>3
<1>4. volume' \in {"mounted"} \cup Outages
  BY DEF IInv, TypeOK, Request, Prune, Recover, Sweep, Unmount, Mount
<1>5. TypeOK'
  BY <1>1, <1>2, <1>3, <1>4 DEF IInv, TypeOK
<1>6. Shelf'
  BY <1>1, ShelfStutters DEF IInv, Shelf, ShelfVars
<1>7. Placed' /\ BusyHasKey'
  BY <1>1 DEF IInv, Placed, BusyHasKey, At, ChapterOf
<1>. QED BY <1>5, <1>6, <1>7 DEF IInv, Shelf

LEMMA ClaimStep ==
    ASSUME IInv, NEW w \in Worker, NEW k \in Key, Claim(w, k)
    PROVE  IInv'
<1>. DEFINE pc == IF k[1] \in Known /\ k[1] \notin rows THEN "fetching" ELSE "checking"
<1>1. UNCHANGED <<kept, rows, disk, volume, removal, pass, lost, faults, losses>>
  BY DEF Claim
<1>2. worker' = [worker EXCEPT ![w] = [pc |-> pc, key |-> k]]
  BY DEF Claim
<1>3. worker' \in [Worker -> [pc : Pc, key : Key \cup {Idle.key}]]
  BY <1>2 DEF IInv, TypeOK, Pc
<1>4. job' \in [Key -> [state : JobState, at : SUBSET Worker]]
  BY DEF IInv, TypeOK, Claim, JobState
<1>5. TypeOK'
  BY <1>1, <1>3, <1>4 DEF IInv, TypeOK
<1>6. Shelf'
  BY <1>1, ShelfStutters DEF IInv, Shelf, ShelfVars
<1>7. Placed' /\ BusyHasKey'
  BY <1>1, <1>2 DEF IInv, TypeOK, Placed, BusyHasKey, At, ChapterOf
<1>. QED BY <1>5, <1>6, <1>7 DEF IInv, Shelf

\* What is left to show of a handler's step, when it has returned or gone on.
LEMMA HandlerKeeps ==
    ASSUME IInv, NEW w \in Worker, ~At(w, "idle"), UNCHANGED <<removal, volume, losses, kept, pass>>,
           NEW pc \in Pc, \/ Succeeds(w) \/ FailsForGood(w) \/ FailsRetryably(w)
                          \/ Goes(w, pc)
    PROVE  /\ job' \in [Key -> [state : JobState, at : SUBSET Worker]]
           /\ worker' \in [Worker -> [pc : Pc, key : Key \cup {Idle.key}]]
           /\ faults' \in 0..MaxFaults
           /\ \A v \in Worker : v # w => worker'[v] = worker[v]
           /\ worker'[w].pc \in {"idle", pc}
           /\ worker'[w].pc # "idle" => worker'[w].key = worker[w].key /\ worker'[w].pc = pc
           /\ BusyHasKey'
<1>1. CASE Succeeds(w) \/ FailsForGood(w) \/ FailsRetryably(w)
  <2>1. /\ worker' = [worker EXCEPT ![w] = Idle]
        /\ job' \in [Key -> [state : JobState, at : SUBSET Worker]]
        /\ worker' \in [Worker -> [pc : Pc, key : Key \cup {Idle.key}]]
        /\ faults' \in 0..MaxFaults
    BY <1>1, EndsType DEF IInv
  <2>2. worker'[w].pc = "idle" /\ \A v \in Worker : v # w => worker'[v] = worker[v]
    BY <2>1 DEF IInv, TypeOK, Idle
  <2>3. BusyHasKey'
    BY <2>2 DEF IInv, BusyHasKey, At
  <2>. QED BY <2>1, <2>2, <2>3
<1>2. CASE Goes(w, pc)
  <2>1. /\ UNCHANGED <<job, faults>>
        /\ worker' \in [Worker -> [pc : Pc, key : Key \cup {Idle.key}]]
        /\ \A v \in Worker : v # w => worker'[v] = worker[v]
        /\ worker'[w].pc = pc
        /\ worker'[w].key = worker[w].key
    BY <1>2, GoesType DEF IInv
  <2>2. BusyHasKey'
    BY <2>1 DEF IInv, BusyHasKey, At
  <2>. QED BY <2>1, <2>2 DEF IInv, TypeOK
<1>. QED BY <1>1, <1>2

LEMMA CheckStep ==
    ASSUME IInv, NEW w \in Worker, Check(w)
    PROVE  IInv'
<1>1. UNCHANGED <<kept, rows, disk, volume, removal, pass, lost, losses>> /\ ~At(w, "idle")
  BY DEF Check, At
<1>2. Succeeds(w) \/ FailsForGood(w) \/ FailsRetryably(w) \/ Goes(w, "fetching")
  BY DEF Check
<1>3. "fetching" \in Pc
  BY DEF Pc
<1>4. /\ job' \in [Key -> [state : JobState, at : SUBSET Worker]]
      /\ worker' \in [Worker -> [pc : Pc, key : Key \cup {Idle.key}]]
      /\ faults' \in 0..MaxFaults
      /\ \A v \in Worker : v # w => worker'[v] = worker[v]
      /\ worker'[w].pc \in {"idle", "fetching"}
      /\ BusyHasKey'
  BY <1>1, <1>2, <1>3, HandlerKeeps
<1>5. TypeOK'
  BY <1>1, <1>4 DEF IInv, TypeOK
<1>6. Shelf'
  BY <1>1, ShelfStutters DEF IInv, Shelf, ShelfVars
<1>7. Placed'
  BY <1>1, <1>4 DEF IInv, Placed, At, ChapterOf
<1>. QED BY <1>4, <1>5, <1>6, <1>7 DEF IInv, Shelf

\* A rename only adds a file, at the path of its own chapter.
LEMMA PlaceStep ==
    ASSUME IInv, NEW w \in Worker, Place(w)
    PROVE  IInv'
<1>1. UNCHANGED <<kept, rows, volume, removal, pass, losses>> /\ ~At(w, "idle")
  BY DEF Place, At
<1>2. Succeeds(w) \/ FailsForGood(w) \/ FailsRetryably(w) \/ Goes(w, "placed")
  BY DEF Place, Written
<1>3. "placed" \in Pc
  BY DEF Pc
<1>4. /\ job' \in [Key -> [state : JobState, at : SUBSET Worker]]
      /\ worker' \in [Worker -> [pc : Pc, key : Key \cup {Idle.key}]]
      /\ faults' \in 0..MaxFaults
      /\ \A v \in Worker : v # w => worker'[v] = worker[v]
      /\ worker'[w].pc \in {"idle", "placed"}
      /\ worker'[w].pc # "idle" => worker'[w].key = worker[w].key
      /\ BusyHasKey'
  BY <1>1, <1>2, <1>3, HandlerKeeps
<1>5. ChapterOf(w) \in Chapter /\ PathOf(ChapterOf(w)) \in Path
  BY <1>1, ChapterOfType DEF IInv
<1>6. /\ disk' \in [Path -> Chapter \cup {NoChapter}]
      /\ lost' \subseteq Chapter
      /\ lost \subseteq lost'
      /\ \A p \in Path : disk[p] # NoChapter => disk'[p] # NoChapter
      /\ \A p \in Path : disk'[p] # NoChapter => PathOf(disk'[p]) = p
  BY <1>5, LibraryAssumption DEF IInv, TypeOK, Place, Written, NamedForIt
<1>7. TypeOK'
  BY <1>1, <1>4, <1>6 DEF IInv, TypeOK
<1>8. \A c \in Chapter : PathOf(c) \in Path
  BY DEF Path
<1>9. Shelf'
  BY <1>1, <1>6, <1>8
     DEF IInv, TypeOK, Shelf, RowHasFile, RowsOfKept, NamedForIt, MissingIsLost, Known
<1>10. Placed'
  <2>. SUFFICES ASSUME NEW v \in Worker, At(v, "placed")'
                PROVE  disk'[PathOf(ChapterOf(v)')] # NoChapter \/ ChapterOf(v)' \in lost'
    BY DEF Placed
  <2>1. CASE v # w
    <3>1. At(v, "placed") /\ ChapterOf(v)' = ChapterOf(v) /\ ~At(v, "idle")
      BY <2>1, <1>4 DEF At, ChapterOf
    <3>2. PathOf(ChapterOf(v)) \in Path
      BY <3>1, ChapterOfType DEF IInv
    <3>. QED BY <3>1, <3>2, <1>6 DEF IInv, Placed
  <2>2. CASE v = w
    <3>1. ~(Succeeds(w) \/ FailsForGood(w) \/ FailsRetryably(w))
      <4>1. worker' # [worker EXCEPT ![w] = Idle]
        BY <2>2 DEF At, Idle, IInv, TypeOK
      <4>. QED BY <4>1, <1>1, EndsType DEF IInv
    <3>2. \/ disk' = [disk EXCEPT ![PathOf(ChapterOf(w))] = ChapterOf(w)]
          \/ lost' = lost \cup {ChapterOf(w)}
      BY <3>1 DEF Place, Written
    <3>3. ChapterOf(v)' = ChapterOf(w)
      BY <2>2, <1>4 DEF At, ChapterOf
    <3>. QED BY <3>2, <3>3, <1>5, LibraryAssumption DEF IInv, TypeOK
  <2>. QED BY <2>1, <2>2
<1>. QED BY <1>4, <1>7, <1>9, <1>10 DEF IInv, Shelf

\* The record is of a chapter that is placed, and still there with its series.
LEMMA RecordStep ==
    ASSUME IInv, NEW w \in Worker, Record(w)
    PROVE  IInv'
<1>1. UNCHANGED <<kept, disk, volume, removal, pass, lost, losses>> /\ ~At(w, "idle")
  BY DEF Record, At
<1>2. Succeeds(w) \/ FailsForGood(w) \/ FailsRetryably(w)
  BY DEF Record
<1>3. /\ job' \in [Key -> [state : JobState, at : SUBSET Worker]]
      /\ worker' = [worker EXCEPT ![w] = Idle]
      /\ worker' \in [Worker -> [pc : Pc, key : Key \cup {Idle.key}]]
      /\ faults' \in 0..MaxFaults
  BY <1>1, <1>2, EndsType DEF IInv
<1>4. \A v \in Worker : (v # w => worker'[v] = worker[v]) /\ worker'[w].pc = "idle"
  BY <1>3 DEF IInv, TypeOK, Idle
<1>5. ChapterOf(w) \in Chapter
  BY <1>1, ChapterOfType DEF IInv
<1>6. rows' = rows \/ (rows' = rows \cup {ChapterOf(w)} /\ ChapterOf(w) \in Known)
  BY DEF Record
<1>7. TypeOK'
  BY <1>1, <1>3, <1>5, <1>6 DEF IInv, TypeOK
<1>8. disk[PathOf(ChapterOf(w))] # NoChapter \/ ChapterOf(w) \in lost
  BY DEF IInv, Placed, Record
<1>9. Shelf'
  BY <1>1, <1>6, <1>8
     DEF IInv, Shelf, RowHasFile, RowsOfKept, NamedForIt, MissingIsLost, Known
<1>10. Placed' /\ BusyHasKey'
  BY <1>1, <1>4 DEF IInv, Placed, BusyHasKey, At, ChapterOf
<1>. QED BY <1>7, <1>9, <1>10 DEF IInv, Shelf

-----------------------------------------------------------------------------
\* A file that is taken away is lost for every chapter that had it.
LEMMA LossStep ==
    ASSUME IInv, NEW c \in Chapter, LoseFile(c) \/ DeleteFile(c)
    PROVE  IInv'
<1>1. UNCHANGED <<kept, rows, volume, job, worker, pass, faults>>
  BY DEF LoseFile, DeleteFile
<1>2. PathOf(c) \in Path /\ \A d \in Chapter : PathOf(d) \in Path
  BY DEF Path
<1>3. /\ lost \subseteq lost' /\ lost' \subseteq Chapter
      /\ disk' \in [Path -> Chapter \cup {NoChapter}]
      /\ \A p \in Path : disk'[p] \in {disk[p], NoChapter}
      /\ \A d \in Chapter : disk'[PathOf(d)] = disk[PathOf(d)] \/ d \in lost'
  BY <1>2 DEF IInv, TypeOK, LoseFile, DeleteFile, Sharing
<1>4. removal' \in [series : SUBSET Series, left : SUBSET Chapter]
  BY DEF IInv, TypeOK, LoseFile, DeleteFile, NoRemoval
<1>5. losses' \in 0..MaxLosses
  BY LibraryAssumption DEF IInv, TypeOK, LoseFile, DeleteFile
<1>6. TypeOK'
  BY <1>1, <1>3, <1>4, <1>5 DEF IInv, TypeOK
<1>7. RowHasFile' /\ RowsOfKept' /\ NamedForIt' /\ MissingIsLost'
  BY <1>1, <1>2, <1>3 DEF IInv, TypeOK, RowHasFile, RowsOfKept, NamedForIt, MissingIsLost, Known
<1>8. BusyHasKey'
  BY <1>1 DEF IInv, BusyHasKey, At
<1>9. Placed'
  <2>. SUFFICES ASSUME NEW v \in Worker, At(v, "placed")
                PROVE  disk'[PathOf(ChapterOf(v))] # NoChapter \/ ChapterOf(v) \in lost'
    BY <1>1 DEF Placed, At, ChapterOf
  <2>1. ChapterOf(v) \in Chapter
    BY ChapterOfType DEF IInv, At
  <2>. QED BY <2>1, <1>3 DEF IInv, Placed
<1>. QED BY <1>6, <1>7, <1>8, <1>9 DEF IInv

LEMMA RemovalStep ==
    ASSUME IInv, (\E s \in Series, files \in BOOLEAN : Remove(s, files)) \/ DeleteSeries
    PROVE  IInv'
<1>1. UNCHANGED <<disk, volume, job, worker, pass, lost, faults, losses>>
  BY DEF Remove, DeleteSeries
<1>2. kept' \subseteq kept /\ rows' \subseteq rows
  BY DEF Remove, DeleteSeries
<1>3. removal' \in [series : SUBSET Series, left : SUBSET Chapter]
  BY DEF IInv, TypeOK, Remove, DeleteSeries, NoRemoval, Of
<1>4. TypeOK'
  BY <1>1, <1>2, <1>3 DEF IInv, TypeOK
<1>5. RowsOfKept'
  BY DEF IInv, RowsOfKept, Known, Remove, DeleteSeries
<1>6. RowHasFile' /\ NamedForIt' /\ MissingIsLost' /\ Placed' /\ BusyHasKey'
  BY <1>1, <1>2
     DEF IInv, RowHasFile, NamedForIt, MissingIsLost, Placed, BusyHasKey, At, ChapterOf
<1>. QED BY <1>4, <1>5, <1>6 DEF IInv

\* A pass takes a file for missing only if the root answered and had no such file, that is if
\* it was lost, or under a bare mount point.
LEMMA PassStep ==
    ASSUME IInv, \/ \E s \in Series : StartPass(s)
                 \/ \E c \in Chapter : LookFor(c)
                 \/ Forget
    PROVE  IInv'
<1>1. UNCHANGED <<kept, disk, volume, job, worker, removal, lost, faults, losses>>
      /\ rows' \subseteq rows
  BY DEF StartPass, LookFor, Forget
<1>2. pass' \in [on : BOOLEAN, left : SUBSET Chapter, missing : SUBSET Chapter]
  <2>1. NoPass \in [on : BOOLEAN, left : SUBSET Chapter, missing : SUBSET Chapter]
    BY DEF NoPass
  <2>2. CASE Forget
    BY <2>1, <2>2 DEF Forget
  <2>3. CASE \E s \in Series : StartPass(s)
    <3>1. PICK s \in Series : pass' = [on |-> TRUE, left |-> Of(s), missing |-> {}]
      BY <2>3 DEF StartPass
    <3>2. Of(s) \subseteq Chapter
      BY DEF Of
    <3>. QED BY <3>1, <3>2
  <2>4. CASE \E c \in Chapter : LookFor(c)
    <3>1. PICK c \in Chapter : LookFor(c)
      BY <2>4
    <3>2. pass \in [on : BOOLEAN, left : SUBSET Chapter, missing : SUBSET Chapter]
      BY DEF IInv, TypeOK
    <3>3. pass.missing \cup {c} \subseteq Chapter /\ pass.left \ {c} \subseteq Chapter
      BY <3>2
    <3>4. CASE c \in rows /\ ~Reachable
      BY <2>1, <3>1, <3>4 DEF LookFor
    <3>5. CASE ~(c \in rows /\ ~Reachable)
      BY <3>1, <3>2, <3>3, <3>5 DEF LookFor
    <3>. QED BY <3>4, <3>5
  <2>. QED BY <2>2, <2>3, <2>4
<1>3. TypeOK'
  BY <1>1, <1>2 DEF IInv, TypeOK
<1>4. RowHasFile' /\ RowsOfKept' /\ NamedForIt' /\ Placed' /\ BusyHasKey'
  BY <1>1 DEF IInv, RowHasFile, RowsOfKept, Known, NamedForIt, Placed, BusyHasKey, At, ChapterOf
<1>5. MissingIsLost'
  <2>1. CASE (\E s \in Series : StartPass(s)) \/ Forget
    BY <2>1, <1>1 DEF StartPass, Forget, NoPass, MissingIsLost
  <2>2. CASE \E c \in Chapter : LookFor(c)
    <3>. SUFFICES ASSUME "bare" \notin Outages PROVE pass'.missing \subseteq lost
      BY <1>1 DEF MissingIsLost
    <3>1. PICK c \in Chapter : LookFor(c)
      BY <2>2
    <3>2. volume \in {"mounted", "unreachable"}
      BY LibraryAssumption DEF IInv, TypeOK, OutageKind
    <3>3. pass.missing \subseteq lost
      BY DEF IInv, MissingIsLost
    <3>4. CASE c \in rows /\ ~Reachable
      BY <3>1, <3>4 DEF LookFor, NoPass
    <3>5. CASE ~(c \in rows /\ ~Reachable)
      <4>1. pass'.missing = IF c \in rows /\ ~OnDisk(c) THEN pass.missing \cup {c} ELSE pass.missing
        BY <3>1, <3>5 DEF LookFor, IInv, TypeOK
      <4>2. c \in rows /\ ~OnDisk(c) => c \in lost
        BY <3>2, <3>5 DEF OnDisk, Reachable, IInv, RowHasFile
      <4>. QED BY <4>1, <4>2, <3>3
    <3>. QED BY <3>4, <3>5
  <2>. QED BY <2>1, <2>2
<1>. QED BY <1>3, <1>4, <1>5 DEF IInv

LEMMA RestartStep ==
    ASSUME IInv, Restart
    PROVE  IInv'
<1>1. UNCHANGED <<kept, rows, disk, volume, lost, losses>>
  BY DEF Restart
<1>6. job' \in [Key -> [state : JobState, at : SUBSET Worker]]
  BY DEF Restart, IInv, TypeOK
<1>2. /\ worker' = [w \in Worker |-> Idle]
      /\ removal' = NoRemoval /\ pass' = NoPass /\ faults' \in 0..MaxFaults
  BY LibraryAssumption DEF Restart, IInv, TypeOK
<1>3. TypeOK'
  BY <1>1, <1>2, <1>6 DEF IInv, TypeOK, Idle, NoRemoval, NoPass, Pc
<1>4. RowHasFile' /\ RowsOfKept' /\ NamedForIt' /\ MissingIsLost'
  BY <1>1, <1>2 DEF IInv, RowHasFile, RowsOfKept, Known, NamedForIt, MissingIsLost, NoPass
<1>5. Placed' /\ BusyHasKey'
  BY <1>2 DEF Placed, BusyHasKey, At, Idle
<1>. QED BY <1>3, <1>4, <1>5 DEF IInv

-----------------------------------------------------------------------------
LEMMA NextIInv == IInv /\ [Next]_vars => IInv'
<1>. SUFFICES ASSUME IInv, [Next]_vars PROVE IInv'
  OBVIOUS
<1>1. CASE UNCHANGED vars
  <2>1. Shelf'
    BY <1>1, ShelfStutters DEF vars, ShelfVars, IInv, Shelf
  <2>2. TypeOK' /\ Placed' /\ BusyHasKey'
    BY <1>1 DEF vars, IInv, TypeOK, Placed, BusyHasKey, At, ChapterOf
  <2>. QED BY <2>1, <2>2 DEF IInv, Shelf
<1>2. ASSUME NEW w \in Worker, Download(w) \/ \E k \in Key : Claim(w, k) PROVE IInv'
  BY <1>2, ClaimStep, CheckStep, PlaceStep, RecordStep DEF Download
<1>. QED BY <1>1, <1>2, JobStep, LossStep, RemovalStep, PassStep, RestartStep DEF Next

\* Library!IInv, and with it its type invariant, holds in every state.
THEOREM LibraryInvariant == Spec => []IInv
<1>. QED BY InitIInv, NextIInv, PTL DEF Spec

\* No row without its file, whatever jobs are retried or repeated, unless something else took it.
THEOREM RowsHaveFiles == Spec => []RowHasFile
<1>1. IInv => RowHasFile
  BY DEF IInv
<1>. QED BY <1>1, LibraryInvariant, PTL

\* A chapter is served its own archive, where paths are distinct.
THEOREM ChaptersServeTheirOwn == Spec => []ServesItsOwn
<1>1. IInv => ServesItsOwn
  <2>. SUFFICES ASSUME IInv, DistinctPaths, NEW c \in rows, disk[PathOf(c)] # NoChapter
                PROVE  disk[PathOf(c)] = c
    BY DEF ServesItsOwn
  <2>1. c \in Chapter /\ PathOf(c) \in Path
    BY DEF IInv, TypeOK, Path
  <2>2. disk[PathOf(c)] \in Chapter /\ PathOf(disk[PathOf(c)]) = PathOf(c)
    BY <2>1 DEF IInv, TypeOK, NamedForIt
  <2>. QED BY <2>1, <2>2 DEF DistinctPaths, PathOf
<1>. QED BY <1>1, LibraryInvariant, PTL

\* The row of a chapter that stays is deleted only if its file was lost, as long as an outage
\* leaves no bare mount point.
THEOREM OnlyTheLostAreForgotten == Spec => ForgetsOnlyTheLost
<1>. DEFINE Kept == \A c \in rows \ rows' :
                       "bare" \notin Outages /\ SeriesOf[c] \in kept' => c \in lost
<1>1. ASSUME IInv, [Next]_vars PROVE [Kept]_vars
  <2>. SUFFICES ASSUME NEW c \in rows, c \notin rows', "bare" \notin Outages, SeriesOf[c] \in kept'
                PROVE  c \in lost
    BY DEF Kept
  <2>1. CASE Forget
    BY <1>1, <2>1 DEF Forget, IInv, MissingIsLost
  <2>2. CASE DeleteSeries
    BY <2>2 DEF DeleteSeries
  <2>3. ASSUME NEW w \in Worker, Download(w) \/ \E k \in Key : Claim(w, k) PROVE FALSE
    BY <2>3 DEF Download, Check, Place, Written, Record, Claim
  <2>4. CASE UNCHANGED vars
    BY <2>4 DEF vars
  <2>5. CASE \E k \in Key : Request(k) \/ Prune(k) \/ Recover(k)
    BY <2>5 DEF Request, Prune, Recover
  <2>6. CASE \/ \E d \in Chapter : Sweep(d) \/ DeleteFile(d) \/ LookFor(d) \/ LoseFile(d)
             \/ \E s \in Series : StartPass(s) \/ \E files \in BOOLEAN : Remove(s, files)
             \/ Unmount \/ Mount \/ Restart
    BY <2>6 DEF Sweep, DeleteFile, LookFor, LoseFile, StartPass, Remove, Unmount, Mount, Restart
  <2>. QED BY <1>1, <2>1, <2>2, <2>3, <2>4, <2>5, <2>6 DEF Next
<1>. QED BY <1>1, LibraryInvariant, PTL DEF Spec, ForgetsOnlyTheLost

-----------------------------------------------------------------------------
\* The sandbox.

\* The naturals are well ordered, and so a set of them that is bounded has a largest.
LEMMA LeastOf ==
    ASSUME NEW T \in SUBSET Nat, T # {}
    PROVE  \E x \in T : \A y \in T : x <= y
<1>1. \E x \in T : \A y \in T : ~(<<y, x>> \in OpToRel(<, Nat))
  BY NatLessThanWellFounded, WFMin
<1>2. \A x, y \in T : y < x => <<y, x>> \in OpToRel(<, Nat)
  BY DEF OpToRel
<1>3. \E R : (\E x \in T : \A y \in T : ~(<<y, x>> \in R)) /\ (\A x, y \in T : y < x => <<y, x>> \in R)
  BY <1>1, <1>2, Zenon
<1>4. PICK R : (\E x \in T : \A y \in T : ~(<<y, x>> \in R)) /\ (\A x, y \in T : y < x => <<y, x>> \in R)
  BY <1>3, Zenon
<1>5. PICK x \in T : \A y \in T : ~(<<y, x>> \in R)
  BY <1>4
<1>6. ASSUME NEW y \in T PROVE x <= y
  <2>1. ~(<<y, x>> \in R)
    BY <1>5
  <2>2. y < x => <<y, x>> \in R
    BY <1>4
  <2>3. ~(y < x)
    BY <2>1, <2>2, Zenon
  <2>. QED BY <2>3
<1>. QED BY <1>6

LEMMA LargestOf ==
    ASSUME NEW n \in Nat, NEW T \in SUBSET (1..n), T # {}
    PROVE  \E x \in T : \A y \in T : y <= x
<1>. DEFINE U == {k \in Nat : \E y \in T : k + y = n}
<1>1. U \in SUBSET Nat /\ U # {}
  <2>1. PICK y \in T : TRUE
    OBVIOUS
  <2>2. n - y \in U
    BY <2>1
  <2>. QED BY <2>2
<1>2. PICK k \in U : \A j \in U : k <= j
  <2>. HIDE DEF U
  <2>. QED BY <1>1, LeastOf
<1>3. PICK x \in T : k + x = n
  BY <1>2
<1>4. ASSUME NEW y \in T PROVE y <= x
  <2>1. n - y \in U
    BY <1>4
  <2>2. k <= n - y
    BY <1>2, <2>1
  <2>. QED BY <1>3, <2>2
<1>. QED BY <1>3, <1>4

-----------------------------------------------------------------------------
\* What is known of a resource r when nx handles were given out, cm says where their documents came
\* from and an what was last answered under its own.
ResourceKnown(r, nx, cm, an) ==
    /\ r \in Resource
    /\ r.response # NoResponse => /\ r.response.final = Final[r.response.asked]
                                 /\ Vetted(Addresses[r.response.final])
    /\ r.kind = "request" => r.response.asked = an
    /\ r.kind \in {"node", "list"} => r.doc \in 1..nx /\ r.base = cm[r.doc]

TableKnown(t, nx, cm, an) ==
    /\ t \in [Handle -> Resource] /\ nx \in 0..MaxHandles
    /\ cm \in [Handle -> Url \cup {None}] /\ an \in [Handle -> Url \cup {None}]
    /\ \A h \in Handle : ResourceKnown(t[h], nx, cm, an[h])

\* A batch: what was asked is of requests of the table, and what was answered of what was asked.
Replies(out, asks, i) ==
    out[i] # NoResponse => /\ out[i].asked = asks[i] /\ out[i].final = Final[asks[i]] /\ asks[i] \in Url
                           /\ Vetted(Addresses[Final[asks[i]]])

BatchKnown(b, t) ==
    /\ b.rids \in Seq(Handle)
    /\ b.asks \in [DOMAIN b.rids -> Url \cup {None}]
    /\ b.out \in [DOMAIN b.rids -> Response \cup {NoResponse}]
    /\ \A i \in DOMAIN b.rids : t[b.rids[i]].kind = "request" /\ Replies(b.out, b.asks, i)

\* The pages that were begun were met.
FetchKnown(f, m) ==
    /\ f.pages \in Seq(Image) /\ f.started \in 0..Len(f.pages)
    /\ f.got \in Seq([index : 1..Len(f.pages), of : Image])
    /\ \A i \in 1..f.started : Nature(f.pages[i]) \in m

JobKnown(j) ==
    /\ j \in [state : {"waiting", "calling", "fetching", "packaged", "failed"}, attempts : 0..MaxAttempts]
    /\ j.state = "waiting" => j.attempts < MaxAttempts

CallKnown == TableKnown(table, next, came, answered) /\ BatchKnown(batch, table) /\ failed \in BOOLEAN

SandboxInv ==
    /\ CallKnown
    /\ JobKnown(download)
    /\ met \subseteq Natures
    /\ FetchKnown(fetch, met)
    /\ download.state = "waiting" => fetch = NoFetch

\* What is not blocked is beyond this network.
PolicyIsRight == \A u \in Url : Vetted(Addresses[u]) => Addresses[u] \subseteq Outside

\* The data.
LEMMA Sizes == {MaxHandles, MaxBatch, MaxPages, InFlight, PageConcurrency, MaxAttempts} \subseteq Nat \ {0}
BY SandboxAssumption

LEMMA FreeIs ==
    /\ Free.kind = "none" /\ Free.url = None /\ Free.response = NoResponse /\ Free.doc = 0 /\ Free.base = None
    /\ Free \in Resource
BY Sizes DEF Free, Resource

LEMMA FreeKnown ==
    ASSUME NEW nx, NEW cm, NEW an
    PROVE  ResourceKnown(Free, nx, cm, an)
BY FreeIs DEF ResourceKnown

LEMMA BufferKnown ==
    ASSUME NEW nx, NEW cm, NEW an
    PROVE  ResourceKnown(Buffer, nx, cm, an)
<1>1. Buffer \in Resource /\ Buffer.kind = "buffer" /\ Buffer.response = NoResponse
  BY FreeIs DEF Buffer, Resource
<1>. QED BY <1>1 DEF ResourceKnown

LEMMA RequestKnown ==
    ASSUME NEW nx, NEW cm
    PROVE  ResourceKnown(NetRequest, nx, cm, None)
<1>1. NetRequest \in Resource /\ NetRequest.kind = "request" /\ NetRequest.response = NoResponse
  BY FreeIs DEF NetRequest, Resource
<1>2. NoResponse.asked = None
  BY DEF NoResponse
<1>. QED BY <1>1, <1>2 DEF ResourceKnown

LEMMA NodeKnown ==
    ASSUME NEW nx \in Handle, NEW base \in Url \cup {None}, NEW cm, cm[nx] = base, NEW an
    PROVE  ResourceKnown([Free EXCEPT !.kind = "node", !.doc = nx, !.base = base], nx, cm, an)
<1>. DEFINE r == [Free EXCEPT !.kind = "node", !.doc = nx, !.base = base]
<1>0. nx \in 0..MaxHandles
  BY Sizes DEF Handle
<1>1. r \in Resource /\ r.kind = "node" /\ r.response = NoResponse /\ r.doc = nx /\ r.base = base
  BY <1>0 DEF Resource, Free
<1>2. nx \in 1..nx
  BY Sizes DEF Handle
<1>. HIDE DEF r
<1>3. ResourceKnown(r, nx, cm, an)
  BY <1>1, <1>2 DEF ResourceKnown
<1>. QED BY <1>3 DEF r

\* A place of the same document.
LEMMA PlaceKnown ==
    ASSUME NEW r, NEW nx \in Nat, NEW cm, NEW an, ResourceKnown(r, nx, cm, an), r.kind \in {"node", "list"},
           NEW kind \in {"node", "list"}, NEW other
    PROVE  ResourceKnown([r EXCEPT !.kind = kind], nx, cm, other)
<1>. DEFINE q == [r EXCEPT !.kind = kind]
<1>0. r \in Resource
  BY DEF ResourceKnown
<1>1. q \in Resource /\ q.kind = kind /\ q.response = r.response /\ q.doc = r.doc /\ q.base = r.base
  BY <1>0 DEF Resource
<1>. HIDE DEF q
<1>2. ResourceKnown(q, nx, cm, other)
  BY <1>1 DEF ResourceKnown
<1>. QED BY <1>2 DEF q

\* A new handle, and where its document came from.
LEMMA MoreKnown ==
    ASSUME NEW r, NEW nx \in 0..MaxHandles, NEW cm \in [Handle -> Url \cup {None}], NEW an, ResourceKnown(r, nx, cm, an),
           nx + 1 \in Handle, NEW dm, \A d \in Handle \ {nx + 1} : dm[d] = cm[d]
    PROVE  ResourceKnown(r, nx + 1, dm, an)
<1>1. CASE r.kind \in {"node", "list"}
  <2>1. r.doc \in 1..nx
    BY <1>1 DEF ResourceKnown
  <2>2. r.doc \in Handle \ {nx + 1} /\ r.doc \in 1..(nx + 1)
    BY <2>1, Sizes DEF Handle
  <2>. QED BY <2>2, <1>1 DEF ResourceKnown
<1>2. CASE r.kind \notin {"node", "list"}
  BY <1>2 DEF ResourceKnown
<1>. QED BY <1>1, <1>2

\* The insertion of a resource.
LEMMA InsertKnown ==
    ASSUME NEW t, NEW nx, NEW cm, NEW an, TableKnown(t, nx, cm, an), nx + 1 \in Handle,
           NEW r, NEW x \in Url \cup {None}, NEW y \in Url \cup {None},
           ResourceKnown(r, nx + 1, [cm EXCEPT ![nx + 1] = x], y)
    PROVE  TableKnown([t EXCEPT ![nx + 1] = r], nx + 1, [cm EXCEPT ![nx + 1] = x], [an EXCEPT ![nx + 1] = y])
<1>. DEFINE u == [t EXCEPT ![nx + 1] = r]
            dm == [cm EXCEPT ![nx + 1] = x]
            bn == [an EXCEPT ![nx + 1] = y]
<1>1. /\ t \in [Handle -> Resource] /\ nx \in 0..MaxHandles
      /\ cm \in [Handle -> Url \cup {None}] /\ an \in [Handle -> Url \cup {None}]
      /\ \A h \in Handle : ResourceKnown(t[h], nx, cm, an[h])
  BY DEF TableKnown
<1>2. r \in Resource
  BY DEF ResourceKnown
<1>3. /\ u \in [Handle -> Resource] /\ nx + 1 \in 0..MaxHandles
      /\ dm \in [Handle -> Url \cup {None}] /\ bn \in [Handle -> Url \cup {None}]
  BY <1>1, <1>2, Sizes DEF Handle
<1>4. /\ u[nx + 1] = r /\ bn[nx + 1] = y /\ dm[nx + 1] = x
      /\ \A h \in Handle \ {nx + 1} : u[h] = t[h] /\ bn[h] = an[h] /\ dm[h] = cm[h]
  BY <1>1
<1>5. ResourceKnown(r, nx + 1, dm, y)
  OBVIOUS
<1>. HIDE DEF u, dm, bn
<1>6. ASSUME NEW h \in Handle PROVE ResourceKnown(u[h], nx + 1, dm, bn[h])
  <2>1. CASE h = nx + 1
    BY <1>4, <1>5, <2>1
  <2>2. CASE h # nx + 1
    <3>1. ResourceKnown(t[h], nx, cm, an[h])
      BY <1>1
    <3>2. ResourceKnown(t[h], nx + 1, dm, an[h])
      BY <1>1, <1>4, <3>1, MoreKnown
    <3>. QED BY <1>4, <2>2, <3>2
  <2>. QED BY <2>1, <2>2
<1>7. TableKnown(u, nx + 1, dm, bn)
  BY <1>3, <1>6 DEF TableKnown
<1>. QED BY <1>7 DEF u, dm, bn

LEMMA NoBatchKnown ==
    ASSUME NEW t
    PROVE  BatchKnown(NoBatch, t)
<1>1. NoBatch.rids = <<>> /\ NoBatch.asks = <<>> /\ NoBatch.out = <<>>
  BY DEF NoBatch
<1>2. <<>> \in Seq(Handle) /\ DOMAIN <<>> = {}
  OBVIOUS
<1>3. <<>> \in [{} -> Url \cup {None}] /\ <<>> \in [{} -> Response \cup {NoResponse}]
  BY <1>2
<1>. QED BY <1>1, <1>2, <1>3 DEF BatchKnown

LEMMA NoFetchKnown ==
    ASSUME NEW m
    PROVE  FetchKnown(NoFetch, m)
<1>1. NoFetch.pages = <<>> /\ NoFetch.started = 0 /\ NoFetch.got = <<>>
  BY DEF NoFetch
<1>2. <<>> \in Seq(Image) /\ Len(<<>>) = 0 /\ <<>> \in Seq([index : 1..Len(<<>>), of : Image])
  OBVIOUS
<1>. QED BY <1>1, <1>2 DEF FetchKnown

LEMMA NoTableKnown == TableKnown(NoTable, 0, NoUrls, NoUrls)
BY FreeKnown, FreeIs, Sizes DEF TableKnown, NoTable, NoUrls

LEMMA NatureType ==
    ASSUME NEW u \in Url
    PROVE  Nature(u) \in Natures
BY SandboxAssumption DEF Nature, Natures

LEMMA SandboxInvInit == SandboxInit => SandboxInv
<1>. SUFFICES ASSUME SandboxInit PROVE SandboxInv
  OBVIOUS
<1>1. CallKnown /\ FetchKnown(fetch, met) /\ met \subseteq Natures /\ fetch = NoFetch
  BY NoTableKnown, NoBatchKnown, NoFetchKnown DEF SandboxInit, CallKnown
<1>2. JobKnown(download)
  BY Sizes DEF SandboxInit, JobKnown
<1>. QED BY <1>1, <1>2 DEF SandboxInv

-----------------------------------------------------------------------------
\* The imports that leave the requests under way alone: there are none.
LEMMA GuestStays ==
    ASSUME SandboxInv, InGuest, TableKnown(table', next', came', answered'),
           UNCHANGED <<download, batch, failed, fetch, met>>
    PROVE  SandboxInv'
<1>1. BatchKnown(batch', table')
  BY NoBatchKnown DEF InGuest
<1>. QED BY <1>1 DEF SandboxInv, CallKnown

LEMMA KnownFacts ==
    ASSUME SandboxInv
    PROVE  /\ TableKnown(table, next, came, answered) /\ BatchKnown(batch, table) /\ failed \in BOOLEAN
           /\ table \in [Handle -> Resource] /\ next \in 0..MaxHandles /\ next \in Nat
           /\ came \in [Handle -> Url \cup {None}] /\ answered \in [Handle -> Url \cup {None}]
           /\ \A h \in Handle : ResourceKnown(table[h], next, came, answered[h])
BY Sizes DEF SandboxInv, CallKnown, TableKnown

\* Where the insertion leaves one of the histories alone it sets it to what it is.
LEMMA InsertStep ==
    ASSUME SandboxInv, NEW r, Insert(r),
           came' = came \/ (\E x \in Url \cup {None} : came' = [came EXCEPT ![next + 1] = x]),
           answered' = answered \/ (\E y \in Url \cup {None} : answered' = [answered EXCEPT ![next + 1] = y]),
           ResourceKnown(r, next + 1, came', answered'[next + 1])
    PROVE  TableKnown(table', next', came', answered')
<1>1. /\ next + 1 \in Handle /\ table' = [table EXCEPT ![next + 1] = r] /\ next' = next + 1
  BY DEF Insert, NewHandle
<1>2. PICK x \in Url \cup {None} : came' = [came EXCEPT ![next + 1] = x]
  <2>1. CASE came' = came
    <3>1. came[next + 1] \in Url \cup {None} /\ came = [came EXCEPT ![next + 1] = came[next + 1]]
      BY <1>1, KnownFacts
    <3>. QED BY <2>1, <3>1
  <2>. QED BY <2>1
<1>3. PICK y \in Url \cup {None} : answered' = [answered EXCEPT ![next + 1] = y]
  <2>1. CASE answered' = answered
    <3>1. answered[next + 1] \in Url \cup {None} /\ answered = [answered EXCEPT ![next + 1] = answered[next + 1]]
      BY <1>1, KnownFacts
    <3>. QED BY <2>1, <3>1
  <2>. QED BY <2>1
<1>4. answered'[next + 1] = y
  BY <1>1, <1>3, KnownFacts
<1>5. ResourceKnown(r, next + 1, [came EXCEPT ![next + 1] = x], y)
  BY <1>2, <1>4
<1>. QED BY <1>1, <1>2, <1>3, <1>5, KnownFacts, InsertKnown

LEMMA MakeRequestStep ==
    ASSUME SandboxInv, MakeRequest
    PROVE  SandboxInv'
<1>1. /\ InGuest /\ Insert(NetRequest) /\ answered' = [answered EXCEPT ![next + 1] = None] /\ came' = came
      /\ next + 1 \in Handle
      /\ UNCHANGED <<download, batch, failed, fetch, met>>
  BY DEF MakeRequest, NewHandle, Insert
<1>2. answered'[next + 1] = None
  BY <1>1, KnownFacts
<1>3. ResourceKnown(NetRequest, next + 1, came', answered'[next + 1])
  BY <1>2, RequestKnown
<1>4. TableKnown(table', next', came', answered')
  BY <1>1, <1>3, InsertStep
<1>. QED BY <1>1, <1>4, GuestStays

LEMMA MakeBufferStep ==
    ASSUME SandboxInv, MakeBuffer
    PROVE  SandboxInv'
<1>1. /\ InGuest /\ Insert(Buffer) /\ answered' = answered /\ came' = came
      /\ UNCHANGED <<download, batch, failed, fetch, met>>
  BY DEF MakeBuffer
<1>2. TableKnown(table', next', came', answered')
  BY <1>1, BufferKnown, InsertStep
<1>. QED BY <1>1, <1>2, GuestStays

LEMMA DestroyStep ==
    ASSUME SandboxInv, NEW h \in Handle, Destroy(h)
    PROVE  SandboxInv'
<1>1. /\ InGuest /\ table' = [table EXCEPT ![h] = Free] /\ next' = next /\ answered' = answered /\ came' = came
      /\ UNCHANGED <<download, batch, failed, fetch, met>>
  BY DEF Destroy
<1>2. table' \in [Handle -> Resource] /\ table'[h] = Free /\ \A g \in Handle \ {h} : table'[g] = table[g]
  BY <1>1, KnownFacts, FreeIs
<1>3. \A g \in Handle : ResourceKnown(table'[g], next, came, answered[g])
  BY <1>2, KnownFacts, FreeKnown
<1>4. TableKnown(table', next', came', answered')
  BY <1>1, <1>2, <1>3, KnownFacts DEF TableKnown
<1>. QED BY <1>1, <1>4, GuestStays

LEMMA SetUrlStep ==
    ASSUME SandboxInv, NEW h \in Handle, NEW u \in Asked, SetUrl(h, u)
    PROVE  SandboxInv'
<1>1. /\ InGuest /\ Is(h, "request") /\ table' = [table EXCEPT ![h] = [table[h] EXCEPT !.url = u]]
      /\ next' = next /\ answered' = answered /\ came' = came
      /\ UNCHANGED <<download, batch, failed, fetch, met>>
  BY DEF SetUrl
<1>. DEFINE q == [table[h] EXCEPT !.url = u]
<1>2. table[h] \in Resource /\ ResourceKnown(table[h], next, came, answered[h]) /\ u \in Url
  BY KnownFacts, SandboxAssumption
<1>3. /\ q \in Resource /\ q.kind = table[h].kind /\ q.response = table[h].response
      /\ q.doc = table[h].doc /\ q.base = table[h].base
  BY <1>2 DEF Resource
<1>4. table' = [table EXCEPT ![h] = q]
  BY <1>1
<1>. HIDE DEF q
<1>5. ResourceKnown(q, next, came, answered[h])
  BY <1>2, <1>3 DEF ResourceKnown
<1>6. table' \in [Handle -> Resource] /\ table'[h] = q /\ \A g \in Handle \ {h} : table'[g] = table[g]
  BY <1>3, <1>4, KnownFacts
<1>7. \A g \in Handle : ResourceKnown(table'[g], next, came, answered[g])
  BY <1>5, <1>6, KnownFacts
<1>8. TableKnown(table', next', came', answered')
  BY <1>1, <1>6, <1>7, KnownFacts DEF TableKnown
<1>. QED BY <1>1, <1>8, GuestStays

\* A document, of a response or of a text.
LEMMA DocumentStep ==
    ASSUME SandboxInv, InGuest, NEW base \in Url \cup {None},
           Insert([Free EXCEPT !.kind = "node", !.doc = next + 1, !.base = base]),
           came' = [came EXCEPT ![next + 1] = base], answered' = answered,
           UNCHANGED <<download, batch, failed, fetch, met>>
    PROVE  SandboxInv'
<1>1. next + 1 \in Handle
  BY DEF Insert, NewHandle
<1>2. came'[next + 1] = base
  BY <1>1, KnownFacts
<1>3. ResourceKnown([Free EXCEPT !.kind = "node", !.doc = next + 1, !.base = base], next + 1, came', answered'[next + 1])
  BY <1>1, <1>2, NodeKnown
<1>4. TableKnown(table', next', came', answered')
  BY <1>3, InsertStep
<1>. QED BY <1>4, GuestStays

LEMMA ParseStep ==
    ASSUME SandboxInv, NEW h \in Handle, Parse(h)
    PROVE  SandboxInv'
<1>1. table[h].kind = "request" /\ table[h].response # NoResponse /\ table[h] \in Resource
      /\ ResourceKnown(table[h], next, came, answered[h])
  BY KnownFacts DEF Parse, Is
<1>2. /\ table[h].response \in Response /\ table[h].response.final \in Url
      /\ table[h].response.final = Final[table[h].response.asked] /\ table[h].response.asked = answered[h]
  BY <1>1 DEF ResourceKnown, Resource, Response
<1>3. /\ InGuest /\ Insert([Free EXCEPT !.kind = "node", !.doc = next + 1, !.base = table[h].response.final])
      /\ came' = [came EXCEPT ![next + 1] = Final[answered[h]]] /\ answered' = answered
      /\ UNCHANGED <<download, batch, failed, fetch, met>>
  BY DEF Parse, NewHandle, Base
<1>4. came' = [came EXCEPT ![next + 1] = table[h].response.final]
  BY <1>2, <1>3
<1>. QED BY <1>2, <1>3, <1>4, DocumentStep

LEMMA ParseTextStep ==
    ASSUME SandboxInv, NEW u \in Named \cup {None}, ParseText(u)
    PROVE  SandboxInv'
<1>1. u \in Url \cup {None}
  BY SandboxAssumption
<1>2. /\ InGuest /\ Insert([Free EXCEPT !.kind = "node", !.doc = next + 1, !.base = u])
      /\ came' = [came EXCEPT ![next + 1] = u] /\ answered' = answered
      /\ UNCHANGED <<download, batch, failed, fetch, met>>
  BY DEF ParseText, NewHandle
<1>. QED BY <1>1, <1>2, DocumentStep

LEMMA ReachesStep ==
    ASSUME SandboxInv, InGuest, NEW h \in Handle, table[h].kind \in {"node", "list"},
           NEW kind \in {"node", "list"}, Reaches(h, kind)
    PROVE  SandboxInv'
<1>1. /\ Insert([table[h] EXCEPT !.kind = kind]) /\ came' = came /\ answered' = answered
      /\ UNCHANGED <<download, batch, failed, fetch, met>> /\ next + 1 \in Handle
  BY DEF Reaches, Insert, NewHandle
<1>2. ResourceKnown(table[h], next, came, answered[h])
  BY KnownFacts
<1>3. ResourceKnown(table[h], next + 1, came, answered[h])
  BY <1>1, <1>2, KnownFacts, MoreKnown
<1>4. ResourceKnown([table[h] EXCEPT !.kind = kind], next + 1, came', answered'[next + 1])
  <2>1. next + 1 \in Nat
    BY KnownFacts
  <2>. QED BY <1>1, <1>3, <2>1, PlaceKnown
<1>5. TableKnown(table', next', came', answered')
  BY <1>1, <1>4, InsertStep
<1>. QED BY <1>1, <1>5, GuestStays

\* A request that is sent.
LEMMA SendStep ==
    ASSUME SandboxInv, NEW rids \in Sendable, Send(rids)
    PROVE  SandboxInv'
<1>1. PICK n \in 1..MaxBatch : rids \in [1..n -> Handle]
  BY DEF Sendable
<1>2. /\ rids \in Seq(Handle) /\ \A i \in DOMAIN rids : rids[i] \in Handle /\ table[rids[i]].kind = "request"
  <2>1. n \in Nat
    BY Sizes
  <2>2. rids \in Seq(Handle) /\ DOMAIN rids = 1..n
    BY <1>1, <2>1
  <2>. QED BY <1>1, <2>2 DEF Sendable, Is
<1>3. /\ batch'.rids = rids /\ batch'.asks = [i \in DOMAIN rids |-> table[rids[i]].url]
      /\ batch'.out = [i \in DOMAIN rids |-> NoResponse]
      /\ download' = download /\ table' = table /\ next' = next /\ failed' = failed /\ came' = came /\ answered' = answered
      /\ fetch' = fetch /\ met' = met
  BY DEF Send
<1>4. \A h \in Handle : table[h].url \in Url \cup {None}
  BY KnownFacts DEF Resource
<1>5. /\ batch'.asks \in [DOMAIN rids -> Url \cup {None}]
      /\ batch'.out \in [DOMAIN rids -> Response \cup {NoResponse}]
  BY <1>2, <1>3, <1>4
<1>6. \A i \in DOMAIN rids : Replies(batch'.out, batch'.asks, i)
  BY <1>3 DEF Replies
<1>7. BatchKnown(batch', table')
  BY <1>2, <1>3, <1>5, <1>6 DEF BatchKnown
<1>. QED BY <1>3, <1>7 DEF SandboxInv, CallKnown

\* An answer is the site's, and only of a host that was vetted.
LEMMA MayAnswerIs ==
    ASSUME NEW u \in Url \cup {None}, NEW reply \in MayAnswer(u)
    PROVE  \/ reply = NoResponse
           \/ /\ reply \in Response /\ reply.asked = u /\ reply.final = Final[u] /\ u \in Url
              /\ Vetted(Addresses[Final[u]])
<1>1. CASE u = None
  BY <1>1 DEF MayAnswer
<1>2. CASE u # None
  <2>. DEFINE a == [asked |-> u, final |-> Final[u]]
  <2>1. a \in Response /\ a.asked = u /\ a.final = Final[u] /\ u \in Url
    BY <1>2, SandboxAssumption DEF Response
  <2>. HIDE DEF a
  <2>2. Nature(u) \in Natures
    BY <2>1, NatureType
  <2>3. reply = NoResponse \/ (reply = a /\ Nature(u) \in {"well", "gone", "slow"})
    BY <1>2, <2>2 DEF MayAnswer, Natures, Unreachable, a
  <2>4. Nature(u) \in {"well", "gone", "slow"} => Vetted(Addresses[Final[u]])
    BY DEF Nature
  <2>. QED BY <2>1, <2>3, <2>4
<1>. QED BY <1>1, <1>2

LEMMA AnswerStep ==
    ASSUME SandboxInv, NEW i, Answer(i)
    PROVE  SandboxInv'
<1>1. PICK reply \in MayAnswer(batch.asks[i]) :
          batch' = [batch EXCEPT !.done = Append(@, i), !.out[i] = reply]
  BY DEF Answer
<1>2. /\ i \in DOMAIN batch.rids /\ download' = download /\ table' = table /\ next' = next /\ failed' = failed
      /\ came' = came /\ answered' = answered /\ fetch' = fetch /\ met' = met
  BY DEF Answer
<1>3. /\ batch'.rids = batch.rids /\ batch'.asks = batch.asks /\ batch'.out = [batch.out EXCEPT ![i] = reply]
  BY <1>1
<1>4. /\ batch.rids \in Seq(Handle) /\ batch.asks \in [DOMAIN batch.rids -> Url \cup {None}]
      /\ batch.out \in [DOMAIN batch.rids -> Response \cup {NoResponse}]
      /\ \A j \in DOMAIN batch.rids : table[batch.rids[j]].kind = "request" /\ Replies(batch.out, batch.asks, j)
  BY KnownFacts DEF BatchKnown
<1>5. \/ reply = NoResponse
      \/ /\ reply \in Response /\ reply.asked = batch.asks[i] /\ reply.final = Final[batch.asks[i]]
         /\ batch.asks[i] \in Url /\ Vetted(Addresses[Final[batch.asks[i]]])
  <2>1. batch.asks[i] \in Url \cup {None}
    BY <1>2, <1>4
  <2>. QED BY <1>1, <2>1, MayAnswerIs
<1>6. /\ batch'.out \in [DOMAIN batch.rids -> Response \cup {NoResponse}] /\ batch'.out[i] = reply
      /\ \A j \in DOMAIN batch.rids \ {i} : batch'.out[j] = batch.out[j]
  BY <1>2, <1>3, <1>4, <1>5
<1>7. \A j \in DOMAIN batch.rids : Replies(batch'.out, batch'.asks, j)
  BY <1>3, <1>4, <1>5, <1>6 DEF Replies
<1>8. BatchKnown(batch', table')
  BY <1>2, <1>3, <1>4, <1>6, <1>7 DEF BatchKnown
<1>. QED BY <1>2, <1>8 DEF SandboxInv, CallKnown

-----------------------------------------------------------------------------
\* What a number is given is one of the answers to it, the same one that the history says.
LEMMA StoredIs ==
    ASSUME SandboxInv, NEW h \in Handle
    PROVE  \/ /\ \A old : Stored(h, old, batch.out, batch.out) = old
              /\ \A old : Stored(h, old, batch.out, batch.asks) = old
           \/ \E i \in DOMAIN batch.rids :
                 /\ batch.rids[i] = h /\ batch.out[i] # NoResponse
                 /\ \A old : Stored(h, old, batch.out, batch.out) = batch.out[i]
                 /\ \A old : Stored(h, old, batch.out, batch.asks) = batch.asks[i]
<1>. DEFINE hits == {i \in DOMAIN batch.rids : batch.rids[i] = h /\ batch.out[i] # NoResponse}
            top  == CHOOSE i \in hits : \A j \in hits : j <= i
<1>1. CASE hits = {}
  BY <1>1 DEF Stored
<1>2. CASE hits # {}
  <2>1. batch.rids \in Seq(Handle)
    BY KnownFacts DEF BatchKnown
  <2>2. Len(batch.rids) \in Nat /\ DOMAIN batch.rids = 1..Len(batch.rids)
    BY <2>1
  <2>3. hits \in SUBSET (1..Len(batch.rids))
    BY <2>2
  <2>4. top \in hits
    <3>. HIDE DEF hits
    <3>1. \E i \in hits : \A j \in hits : j <= i
      BY <1>2, <2>2, <2>3, LargestOf
    <3>. QED BY <3>1
  <2>5. \A old : Stored(h, old, batch.out, batch.out) = batch.out[top]
    BY <1>2 DEF Stored
  <2>6. \A old : Stored(h, old, batch.out, batch.asks) = batch.asks[top]
    BY <1>2 DEF Stored
  <2>. HIDE DEF top
  <2>. QED BY <2>4, <2>5, <2>6
<1>. QED BY <1>1, <1>2

LEMMA CollectStep ==
    ASSUME SandboxInv, Collect
    PROVE  SandboxInv'
<1>1. /\ table' = [h \in Handle |-> [table[h] EXCEPT !.response = Stored(h, table[h].response, batch.out, batch.out)]]
      /\ answered' = [h \in Handle |-> Stored(h, answered[h], batch.out, batch.asks)]
      /\ batch' = NoBatch
      /\ download' = download /\ next' = next /\ came' = came /\ fetch' = fetch /\ met' = met
  BY DEF Collect, Results
<1>2. failed' \in BOOLEAN
  BY DEF Collect
<1>3. ASSUME NEW h \in Handle
      PROVE  /\ ResourceKnown(table'[h], next, came, answered'[h])
             /\ answered'[h] \in Url \cup {None}
  <2>. DEFINE old == table[h].response
              new == Stored(h, table[h].response, batch.out, batch.out)
              q == [table[h] EXCEPT !.response = new]
  <2>1. table'[h] = q /\ answered'[h] = Stored(h, answered[h], batch.out, batch.asks)
    BY <1>1
  <2>2. /\ ResourceKnown(table[h], next, came, answered[h]) /\ table[h] \in Resource
        /\ answered[h] \in Url \cup {None}
    BY KnownFacts
  <2>3. CASE new = old /\ answered'[h] = answered[h]
    <3>1. q = table[h]
      BY <2>2, <2>3 DEF Resource
    <3>. QED BY <2>1, <2>2, <2>3, <3>1
  <2>4. ASSUME NEW i \in DOMAIN batch.rids, batch.rids[i] = h, batch.out[i] # NoResponse,
               new = batch.out[i], answered'[h] = batch.asks[i]
        PROVE  ResourceKnown(table'[h], next, came, answered'[h]) /\ answered'[h] \in Url \cup {None}
    <3>1. /\ batch.out[i] \in Response /\ batch.asks[i] \in Url \cup {None}
          /\ table[h].kind = "request" /\ Replies(batch.out, batch.asks, i)
      BY <2>4, KnownFacts DEF BatchKnown
    <3>. PICK s : s = new
      OBVIOUS
    <3>2. /\ s \in Response /\ s # NoResponse /\ s.asked = answered'[h] /\ s.final = Final[s.asked]
          /\ Vetted(Addresses[s.final]) /\ answered'[h] \in Url
      BY <2>4, <3>1 DEF Replies
    <3>3. /\ q \in Resource /\ q.kind = "request" /\ q.response = s
      <4>. HIDE DEF new
      <4>. QED BY <2>2, <3>1, <3>2 DEF Resource
    <3>. HIDE DEF q, new
    <3>4. ResourceKnown(q, next, came, answered'[h])
      BY <3>2, <3>3 DEF ResourceKnown
    <3>. QED BY <2>1, <3>2, <3>4
  <2>. QED BY <2>1, <2>3, <2>4, StoredIs
<1>4. table' \in [Handle -> Resource] /\ answered' \in [Handle -> Url \cup {None}]
  <2>1. \A h \in Handle : table'[h] \in Resource
    BY <1>3 DEF ResourceKnown
  <2>2. table' = [h \in Handle |-> table'[h]] /\ answered' = [h \in Handle |-> answered'[h]]
    BY <1>1
  <2>. QED BY <1>3, <2>1, <2>2
<1>5. TableKnown(table', next', came', answered')
  BY <1>1, <1>3, <1>4, KnownFacts DEF TableKnown
<1>6. BatchKnown(batch', table')
  BY <1>1, NoBatchKnown
<1>. QED BY <1>1, <1>2, <1>5, <1>6 DEF SandboxInv, CallKnown

\* The job: its attempts, and their ends.
LEMMA JobRow ==
    ASSUME SandboxInv
    PROVE  /\ download.state \in {"waiting", "calling", "fetching", "packaged", "failed"}
           /\ download.attempts \in 0..MaxAttempts /\ download.attempts \in Nat
           /\ download.state = "waiting" => download.attempts < MaxAttempts /\ fetch = NoFetch
BY Sizes DEF SandboxInv, JobKnown

LEMMA StateKnown ==
    ASSUME SandboxInv, NEW state \in {"calling", "fetching", "packaged", "failed"},
           download' = [download EXCEPT !.state = state]
    PROVE  JobKnown(download') /\ download'.state = state
BY Sizes DEF SandboxInv, JobKnown

LEMMA StartsStep ==
    ASSUME SandboxInv, NEW state \in {"calling", "failed"}, Starts(state)
    PROVE  SandboxInv'
<1>1. /\ download.state = "waiting" /\ download' = [state |-> state, attempts |-> download.attempts + 1] /\ met' = {}
      /\ table' = table /\ next' = next /\ batch' = batch /\ failed' = failed /\ came' = came
      /\ answered' = answered /\ fetch' = fetch
  BY DEF Starts, call
<1>2. download.attempts \in Nat /\ download.attempts < MaxAttempts /\ fetch = NoFetch
  BY <1>1, JobRow
<1>3. JobKnown(download') /\ download'.state = state
  BY <1>1, <1>2, Sizes DEF JobKnown
<1>4. FetchKnown(fetch', met')
  BY <1>1, <1>2, NoFetchKnown
<1>5. CallKnown'
  BY <1>1 DEF SandboxInv, CallKnown
<1>. QED BY <1>1, <1>3, <1>4, <1>5 DEF SandboxInv

LEMMA DroppedIs ==
    ASSUME Dropped
    PROVE  CallKnown'
BY NoTableKnown, NoBatchKnown DEF Dropped, CallKnown

LEMMA EndsStep ==
    ASSUME SandboxInv, NEW retryable \in BOOLEAN, Ends(retryable)
    PROVE  SandboxInv'
<1>1. /\ download' = [download EXCEPT !.state = IF retryable /\ download.attempts < MaxAttempts THEN "waiting" ELSE "failed"]
      /\ fetch' = NoFetch /\ met' = met
  BY DEF Ends
<1>2. CallKnown'
  BY DroppedIs DEF Ends
<1>3. JobKnown(download')
  BY <1>1 DEF SandboxInv, JobKnown
<1>4. FetchKnown(fetch', met')
  BY <1>1, NoFetchKnown
<1>. QED BY <1>1, <1>2, <1>3, <1>4 DEF SandboxInv

LEMMA ReturnStep ==
    ASSUME SandboxInv, Return
    PROVE  SandboxInv'
<1>1. ASSUME NEW why \in {"request", "other"}, Ends(GuestRetry(why)) PROVE SandboxInv'
  <2>1. GuestRetry(why) \in BOOLEAN
    BY DEF GuestRetry
  <2>. QED BY <1>1, <2>1, EndsStep
<1>2. CASE Ends(TRUE)
  BY <1>2, EndsStep
<1>3. ASSUME NEW pages \in Lists, download' = [download EXCEPT !.state = "fetching"], Dropped,
             fetch' = [NoFetch EXCEPT !.pages = pages], met' = met
      PROVE  SandboxInv'
  <2>1. fetch'.pages = pages /\ fetch'.started = 0 /\ fetch'.got = <<>>
    BY <1>3 DEF NoFetch
  <2>2. PICK n \in 1..MaxPages : pages \in [1..n -> Image]
    BY DEF Lists
  <2>3. n \in Nat
    BY Sizes
  <2>4. pages \in Seq(Image) /\ Len(pages) \in Nat
    BY <2>2, <2>3
  <2>5. <<>> \in Seq([index : 1..Len(pages), of : Image])
    OBVIOUS
  <2>6. FetchKnown(fetch', met')
    BY <2>1, <2>4, <2>5 DEF FetchKnown
  <2>7. JobKnown(download') /\ download'.state = "fetching"
    BY <1>3, StateKnown
  <2>. QED BY <1>3, <2>6, <2>7, DroppedIs DEF SandboxInv
<1>. QED BY <1>1, <1>2, <1>3 DEF Return

LEMMA FetchFacts ==
    ASSUME SandboxInv
    PROVE  /\ fetch.pages \in Seq(Image) /\ Len(fetch.pages) \in Nat /\ fetch.started \in 0..Len(fetch.pages)
           /\ fetch.started \in Nat
           /\ fetch.got \in Seq([index : 1..Len(fetch.pages), of : Image])
           /\ \A i \in 1..fetch.started : fetch.pages[i] \in Image /\ Nature(fetch.pages[i]) \in met
<1>1. FetchKnown(fetch, met)
  BY DEF SandboxInv
<1>2. fetch.pages \in Seq(Image)
  BY <1>1 DEF FetchKnown
<1>3. Len(fetch.pages) \in Nat /\ \A i \in 1..Len(fetch.pages) : fetch.pages[i] \in Image
  BY <1>2
<1>. QED BY <1>1, <1>2, <1>3 DEF FetchKnown

LEMMA StartPageStep ==
    ASSUME SandboxInv, StartPage
    PROVE  SandboxInv'
<1>1. /\ fetch.started < Len(fetch.pages) /\ fetch' = [fetch EXCEPT !.started = @ + 1]
      /\ met' = met \cup {Nature(fetch.pages[fetch.started + 1])}
      /\ download' = download /\ download.state = "fetching"
      /\ table' = table /\ next' = next /\ batch' = batch /\ failed' = failed /\ came' = came
      /\ answered' = answered
  BY DEF StartPage, call
<1>2. fetch'.pages = fetch.pages /\ fetch'.started = fetch.started + 1 /\ fetch'.got = fetch.got
  BY <1>1
<1>3. fetch.pages[fetch.started + 1] \in Url
  BY <1>1, FetchFacts, SandboxAssumption
<1>4. met' \subseteq Natures
  BY <1>1, <1>3, NatureType DEF SandboxInv
<1>5. \A i \in 1..(fetch.started + 1) : Nature(fetch.pages[i]) \in met'
  <2>1. \A i \in 1..(fetch.started + 1) : i \in 1..fetch.started \/ i = fetch.started + 1
    BY FetchFacts
  <2>. QED BY <1>1, <2>1, FetchFacts
<1>6. FetchKnown(fetch', met')
  BY <1>1, <1>2, <1>5, FetchFacts DEF FetchKnown
<1>7. CallKnown'
  BY <1>1 DEF SandboxInv, CallKnown
<1>. QED BY <1>1, <1>4, <1>6, <1>7 DEF SandboxInv

LEMMA EndPageStep ==
    ASSUME SandboxInv, NEW i, EndPage(i)
    PROVE  SandboxInv'
<1>1. CASE \E end \in Fetched(fetch.pages[i]) : end # "image" /\ Ends(Retryable(end))
  <2>1. \A end : Retryable(end) \in BOOLEAN
    BY DEF Retryable
  <2>. QED BY <1>1, <2>1, EndsStep
<1>2. CASE /\ fetch' = [fetch EXCEPT !.got = Append(@, [index |-> i, of |-> fetch.pages[i]])]
           /\ UNCHANGED <<download, call, met>>
  <2>1. i \in 1..fetch.started /\ download.state = "fetching"
    BY DEF EndPage, Under
  <2>2. i \in 1..Len(fetch.pages) /\ fetch.pages[i] \in Image
    BY <2>1, FetchFacts
  <2>3. [index |-> i, of |-> fetch.pages[i]] \in [index : 1..Len(fetch.pages), of : Image]
    BY <2>2
  <2>4. Append(fetch.got, [index |-> i, of |-> fetch.pages[i]]) \in Seq([index : 1..Len(fetch.pages), of : Image])
    BY <2>3, FetchFacts
  <2>5. /\ fetch'.pages = fetch.pages /\ fetch'.started = fetch.started
        /\ fetch'.got = Append(fetch.got, [index |-> i, of |-> fetch.pages[i]])
    BY <1>2
  <2>6. /\ download' = download /\ met' = met /\ table' = table /\ next' = next /\ batch' = batch /\ failed' = failed
        /\ came' = came /\ answered' = answered
    BY <1>2 DEF call
  <2>7. FetchKnown(fetch', met')
    BY <2>4, <2>5, <2>6, FetchFacts DEF FetchKnown
  <2>. QED BY <2>1, <2>6, <2>7 DEF SandboxInv, CallKnown
<1>. QED BY <1>1, <1>2 DEF EndPage

LEMMA PackageStep ==
    ASSUME SandboxInv, Package
    PROVE  SandboxInv'
<1>1. /\ download' = [download EXCEPT !.state = "packaged"] /\ fetch' = fetch /\ met' = met
      /\ table' = table /\ next' = next /\ batch' = batch /\ failed' = failed /\ came' = came
      /\ answered' = answered
  BY DEF Package, call
<1>2. JobKnown(download') /\ download'.state = "packaged"
  BY <1>1, StateKnown
<1>. QED BY <1>1, <1>2 DEF SandboxInv, CallKnown

LEMMA ImportStep ==
    ASSUME SandboxInv, Import
    PROVE  SandboxInv'
<1>1. ASSUME NEW h \in Handle, Select(h) \/ Walk(h) PROVE SandboxInv'
  <2>1. CASE Select(h)
    BY <2>1, ReachesStep DEF Select, Is
  <2>2. CASE Walk(h)
    BY <2>2, ReachesStep DEF Walk, Is
  <2>. QED BY <1>1, <2>1, <2>2
<1>2. ASSUME NEW h \in Handle, ReadResponse(h) \/ ReadNode(h) PROVE SandboxInv'
  BY <1>2, MakeBufferStep DEF ReadResponse, ReadNode
<1>3. ASSUME Setting PROVE SandboxInv'
  BY <1>3, MakeBufferStep DEF Setting
<1>. QED BY <1>1, <1>2, <1>3, MakeRequestStep, ParseTextStep, DestroyStep, ParseStep, SetUrlStep, SendStep DEF Import

LEMMA SandboxStep ==
    ASSUME SandboxInv, [SandboxNext]_sandboxVars
    PROVE  SandboxInv'
<1>1. CASE UNCHANGED sandboxVars
  BY <1>1 DEF sandboxVars, call, SandboxInv, CallKnown
<1>2. CASE Begin \/ NotLoaded
  BY <1>2, StartsStep DEF Begin, NotLoaded
<1>. QED BY <1>1, <1>2, ImportStep, CollectStep, ReturnStep, StartPageStep, PackageStep, AnswerStep, EndPageStep DEF SandboxNext

-----------------------------------------------------------------------------
LEMMA InvImpliesTypeOK == SandboxInv => SandboxTypeOK
<1>. SUFFICES ASSUME SandboxInv PROVE SandboxTypeOK
  OBVIOUS
<1>1. DOMAIN batch.out = DOMAIN batch.rids
  BY KnownFacts DEF BatchKnown
<1>2. \A i \in DOMAIN fetch.got : fetch.got[i].index \in DOMAIN fetch.pages
  <2>1. DOMAIN fetch.pages = 1..Len(fetch.pages)
    BY FetchFacts
  <2>. DEFINE OnePage == [index : 1..Len(fetch.pages), of : Image]
  <2>2. \A i \in DOMAIN fetch.got : fetch.got[i] \in OnePage
    <3>1. fetch.got \in Seq(OnePage)
      BY FetchFacts
    <3>. HIDE DEF OnePage
    <3>. QED BY <3>1
  <2>. QED BY <2>1, <2>2
<1>3. download \in [state : {"waiting", "calling", "fetching", "packaged", "failed"}, attempts : 0..MaxAttempts]
  BY DEF SandboxInv, JobKnown
<1>. QED BY <1>1, <1>2, <1>3, KnownFacts DEF SandboxTypeOK, SandboxInv

LEMMA InvImpliesOwn ==
    ASSUME PolicyIsRight
    PROVE  SandboxInv => AnswersAreItsOwn
<1>. SUFFICES ASSUME SandboxInv PROVE AnswersAreItsOwn
  OBVIOUS
<1>1. ASSUME NEW h \in Handle, table[h].response # NoResponse
      PROVE  Addresses[table[h].response.final] \subseteq Outside
  <2>1. table[h] \in Resource /\ ResourceKnown(table[h], next, came, answered[h])
    BY KnownFacts
  <2>2. table[h].response.final \in Url /\ Vetted(Addresses[table[h].response.final])
    BY <1>1, <2>1 DEF ResourceKnown, Resource, Response
  <2>. QED BY <2>2 DEF PolicyIsRight
<1>2. ASSUME NEW h \in Handle
      PROVE  /\ Is(h, "request") => table[h].response.asked = answered[h]
             /\ table[h].kind \in {"node", "list"} => table[h].base = came[table[h].doc]
  BY KnownFacts DEF ResourceKnown, Is
<1>. QED BY <1>1, <1>2, InvImpliesTypeOK DEF AnswersAreItsOwn

\* However a guest builds, sends, reuses and releases its requests, and in whatever order they are answered:
\* a response is to what was asked under its number (net.rs, send_all, which joins in the order it
\* started), an element knows where its document came from, and, if what egress.rs does not block is
\* beyond this network, no answer came from within it, be it by a redirect.
THEOREM AnswersAreKept ==
    ASSUME PolicyIsRight
    PROVE  SandboxSpec => []AnswersAreItsOwn
<1>1. SandboxInv /\ [SandboxNext]_sandboxVars => SandboxInv'
  BY SandboxStep
<1>2. SandboxInv => AnswersAreItsOwn
  BY InvImpliesOwn
<1>. QED BY <1>1, <1>2, SandboxInvInit, PTL DEF SandboxSpec

\* How an attempt that fetches ends: by a page.
SpentWell ==
    /\ download.state = "fetching" /\ download'.state = "waiting" => "slow" \in met
    /\ download.state = "fetching" /\ download'.state = "failed" /\ download.attempts < MaxAttempts =>
          met \cap {"gone", "barred", "down"} # {}

LEMMA OnlyPagesEnd ==
    ASSUME SandboxInv, SandboxNext, download.state = "fetching", download'.state \in {"waiting", "failed"}
    PROVE  \E i \in 1..MaxPages : EndPage(i)
<1>1. ~InGuest /\ ~Begin /\ ~NotLoaded
  BY DEF InGuest, Begin, NotLoaded, Starts
<1>2. ~Import
  BY <1>1 DEF Import, MakeRequest, Setting, MakeBuffer, ParseText, Destroy, Parse, ReadResponse, ReadNode, SetUrl, Select, Walk, Send
<1>3. ~Return
  BY <1>1 DEF Return
<1>4. Collect \/ StartPage \/ (\E i \in 1..MaxBatch : Answer(i)) => download' = download
  BY DEF Collect, StartPage, Answer
<1>5. Package => download'.state = "packaged"
  BY StateKnown DEF Package
<1>. QED BY <1>1, <1>2, <1>3, <1>4, <1>5 DEF SandboxNext

LEMMA PagesAreSpentWell ==
    ASSUME SandboxInv, NEW i, EndPage(i), download'.state \in {"waiting", "failed"}
    PROVE  SpentWell
<1>1. i \in 1..fetch.started /\ download.state = "fetching"
  BY DEF EndPage, Under
<1>2. fetch.pages[i] \in Url /\ Nature(fetch.pages[i]) \in met
  BY <1>1, FetchFacts, SandboxAssumption
<1>3. PICK end \in Fetched(fetch.pages[i]) : end # "image" /\ Ends(Retryable(end))
  <2>1. ~(UNCHANGED <<download, call, met>>)
    BY <1>1
  <2>. QED BY <2>1 DEF EndPage
<1>4. /\ download'.state = IF Retryable(end) /\ download.attempts < MaxAttempts THEN "waiting" ELSE "failed"
  BY <1>3, JobRow DEF Ends, SandboxInv, JobKnown
<1>5. Nature(fetch.pages[i]) \in Natures
  BY <1>2, NatureType
<1>6. /\ Retryable(end) => Nature(fetch.pages[i]) = "slow"
      /\ ~Retryable(end) => Nature(fetch.pages[i]) \in {"gone", "barred", "down"}
  BY <1>3, <1>5 DEF Fetched, Retryable, Natures, Unreachable
<1>. QED BY <1>2, <1>4, <1>6 DEF SpentWell

\* For every set of sites and pages: a download that fetches is tried again only after a site that may be
\* slow, and given up before its last attempt only for a page that another one would not find either
\* (fetcher.rs, retryable).
THEOREM AttemptsAreKept == SandboxSpec => AttemptsAreSpentWell
<1>1. SandboxInv /\ [SandboxNext]_sandboxVars => SandboxInv'
  BY SandboxStep
<1>2. SandboxInv /\ [SandboxNext]_sandboxVars => [SpentWell]_sandboxVars
  <2>. SUFFICES ASSUME SandboxInv, SandboxNext PROVE SpentWell
    OBVIOUS
  <2>1. CASE download.state = "fetching" /\ download'.state \in {"waiting", "failed"}
    BY <2>1, OnlyPagesEnd, PagesAreSpentWell
  <2>. QED BY <2>1 DEF SpentWell
<1>. QED BY <1>1, <1>2, SandboxInvInit, PTL DEF SandboxSpec, AttemptsAreSpentWell, SpentWell
=============================================================================
