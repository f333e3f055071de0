---------------------------- MODULE FollowProofs ----------------------------
(***************************************************************************)
(* Proofs about Follow for every number of series, chapters and workers,   *)
(* every interval and every bound.                                         *)
(***************************************************************************)
EXTENDS Follow, TLAPS

WorkerRow == [pc : Pc, series : Series \cup {NoSeries}, auto : BOOLEAN,
              found : SUBSET Chapter, new : SUBSET Chapter]

LEMMA IdleType == Idle \in WorkerRow /\ Idle.pc = "idle" /\ Idle.new = {} /\ Idle.found = {}
BY DEF Idle, WorkerRow, Pc

\* The attempts that fail leave an idle worker and a job that may wait again.
LEMMA FailsType ==
    ASSUME TypeOK, NEW w \in Worker, worker[w].series \in Series, Fails(w)
    PROVE  /\ worker' = [worker EXCEPT ![w] = Idle]
           /\ waiting' \in [Series -> 0..MaxQueued]
           /\ faults' \in 0..MaxFaults
<1>1. worker' = [worker EXCEPT ![w] = Idle]
  BY DEF Fails, Ends
<1>2. faults' \in 0..MaxFaults
  BY FollowAssumption DEF Fails, TypeOK
<1>3. waiting' \in [Series -> 0..MaxQueued]
  <2>. DEFINE q == worker[w].series
  <2>1. q \in Series /\ waiting[q] \in 0..MaxQueued
    BY DEF TypeOK
  <2>2. CASE waiting' = waiting
    BY <2>2 DEF TypeOK
  <2>3. CASE waiting[q] # MaxQueued /\ waiting' = [waiting EXCEPT ![q] = @ + 1]
    <3>1. waiting[q] + 1 \in 0..MaxQueued
      BY <2>1, <2>3, FollowAssumption
    <3>. QED BY <2>3, <3>1 DEF TypeOK
  <2>. QED BY <2>2, <2>3 DEF Fails
<1>. QED BY <1>1, <1>2, <1>3

LEMMA InitIInv == Init => IInv
<1>. SUFFICES ASSUME Init PROVE IInv
  OBVIOUS
<1>1. TypeOK
  BY FollowAssumption, IdleType DEF Init, TypeOK, FollowRow, NoFollow, WorkerRow, NotAdding
<1>2. FollowsAreOfKept /\ StoredAreOfKept /\ AddsItsOwn
  BY DEF Init, FollowsAreOfKept, StoredAreOfKept, NoFollow, AddsItsOwn, NotAdding
<1>3. QueuedBeforeMarked /\ WorksOnSeries /\ NewIsStored /\ NewToOne
  BY IdleType DEF Init, QueuedBeforeMarked, WorksOnSeries, NewIsStored, NewToOne, At
<1>. QED BY <1>1, <1>2, <1>3 DEF IInv

-----------------------------------------------------------------------------
\* The parts of IInv about workers, as one predicate per worker and one per pair.
Works(w) ==
    /\ worker[w] \in WorkerRow
    /\ IF At(w, "idle") THEN worker[w] = Idle
       ELSE /\ worker[w].series \in Series
            /\ worker[w].found \cup worker[w].new \subseteq Chapters(worker[w].series)
            /\ library[worker[w].series] = "kept" => worker[w].new \subseteq stored
    /\ At(w, "marking") /\ worker[w].auto => worker[w].new \subseteq downloads

LEMMA WorksIs ==
    ASSUME worker \in [Worker -> WorkerRow]
    PROVE  (\A w \in Worker : Works(w)) <=> QueuedBeforeMarked /\ WorksOnSeries /\ NewIsStored
<1>1. "idle" # "marking"
  OBVIOUS
<1>. QED BY <1>1 DEF Works, QueuedBeforeMarked, WorksOnSeries, NewIsStored, At

LEMMA IInvIs ==
    IInv <=> /\ TypeOK /\ FollowsAreOfKept /\ StoredAreOfKept /\ AddsItsOwn /\ NewToOne
             /\ \A w \in Worker : Works(w)
BY WorksIs DEF IInv, TypeOK, WorkerRow

LEMMA IInvNext ==
    ASSUME TypeOK', FollowsAreOfKept', StoredAreOfKept', AddsItsOwn', NewToOne',
           \A w \in Worker : Works(w)'
    PROVE  IInv'
<1>1. "idle" # "marking"
  OBVIOUS
<1>. QED
  BY <1>1 DEF IInv, Works, QueuedBeforeMarked, WorksOnSeries, NewIsStored, At

\* What a step must keep for the workers it does not move: their series' rows and the keys.
LEMMA OthersWork ==
    ASSUME NEW w \in Worker, Works(w), worker'[w] = worker[w],
           downloads \subseteq downloads',
           \A s \in Series : library'[s] = "kept" =>
               library[s] = "kept" /\ stored \cap Chapters(s) \subseteq stored'
    PROVE  Works(w)'
BY DEF Works, At

LEMMA PairsStay ==
    ASSUME NewToOne, worker' = worker,
           \A s \in Series : library'[s] = "kept" => library[s] = "kept"
    PROVE  NewToOne'
BY DEF NewToOne
-----------------------------------------------------------------------------
\* The steps that move no worker.
LEMMA OutsideStep ==
    ASSUME IInv,
           \/ \E c \in Chapter : Publish(c) \/ Request(c)
           \/ Tick
           \/ \E s \in Series : \/ Schedule(s) \/ CheckNow(s) \/ DeleteFollow(s)
                                \/ Remove(s) \/ \E auto \in BOOLEAN : PutFollow(s, auto)
    PROVE  IInv'
<1>1. worker' = worker /\ UNCHANGED faults
  BY DEF Publish, Request, Tick, Schedule, CheckNow, DeleteFollow, Remove, PutFollow
<1>2. downloads \subseteq downloads'
  BY DEF Publish, Request, Tick, Schedule, CheckNow, DeleteFollow, Remove, PutFollow
<1>3. \A s \in Series : library'[s] = "kept" =>
          library[s] = "kept" /\ stored \cap Chapters(s) \subseteq stored'
  <2>1. CASE \E s \in Series : Remove(s)
    <3>1. PICK r \in Series : Remove(r)
      BY <2>1
    <3>. SUFFICES ASSUME NEW s \in Series, library'[s] = "kept"
                  PROVE  library[s] = "kept" /\ stored \cap Chapters(s) \subseteq stored'
      OBVIOUS
    <3>2. s # r /\ library[s] = "kept"
      BY <3>1 DEF Remove, IInv, TypeOK
    <3>. QED BY <3>1, <3>2 DEF Remove, Chapters
  <2>2. CASE UNCHANGED <<library, stored>>
    BY <2>2
  <2>. QED
    BY <2>1, <2>2 DEF Publish, Request, Tick, Schedule, CheckNow, DeleteFollow, PutFollow,
                      catalogue
<1>4. \A w \in Worker : Works(w)'
  BY <1>1, <1>2, <1>3, OthersWork, IInvIs
<1>5. NewToOne'
  BY <1>1, <1>3, PairsStay DEF IInv
<1>6. FollowsAreOfKept'
  <2>1. CASE Tick
    BY <2>1 DEF Tick, IInv, TypeOK, FollowRow, FollowsAreOfKept
  <2>2. CASE \E s \in Series : DeleteFollow(s) \/ Remove(s)
    <3>1. PICK s \in Series : DeleteFollow(s) \/ Remove(s)
      BY <2>2
    <3>2. follow' = [follow EXCEPT ![s] = NoFollow] /\ NoFollow.on = FALSE
      BY <3>1 DEF DeleteFollow, Remove, NoFollow
    <3>3. \A r \in Series : r # s => library'[r] = library[r]
      BY <3>1 DEF DeleteFollow, Remove, IInv, TypeOK
    <3>. QED BY <3>2, <3>3 DEF IInv, TypeOK, FollowsAreOfKept
  <2>3. CASE \E s \in Series, auto \in BOOLEAN : PutFollow(s, auto)
    <3>1. PICK s \in Series, auto \in BOOLEAN : PutFollow(s, auto)
      BY <2>3
    <3>2. \A r \in Series : r # s => follow'[r] = follow[r]
      BY <3>1 DEF PutFollow, IInv, TypeOK
    <3>. QED BY <3>1, <3>2 DEF PutFollow, IInv, FollowsAreOfKept
  <2>4. CASE UNCHANGED <<library, follow>>
    BY <2>4 DEF IInv, FollowsAreOfKept
  <2>. QED
    BY <2>1, <2>2, <2>3, <2>4 DEF Publish, Request, Schedule, CheckNow, catalogue
<1>7. StoredAreOfKept'
  <2>1. CASE \E s \in Series : Remove(s)
    BY <2>1, FollowAssumption DEF IInv, TypeOK, StoredAreOfKept, Remove, Chapters
  <2>2. CASE UNCHANGED <<library, stored>>
    BY <2>2 DEF IInv, StoredAreOfKept
  <2>. QED
    BY <2>1, <2>2 DEF Publish, Request, Tick, Schedule, CheckNow, DeleteFollow, PutFollow,
                      catalogue
<1>8. TypeOK'
  <2>1. CASE \E c \in Chapter : Publish(c) \/ Request(c)
    <3>1. CASE \E c \in Chapter : Publish(c)
      BY <3>1 DEF IInv, TypeOK, Publish, clock
    <3>2. CASE \E c \in Chapter : Request(c)
      BY <3>2 DEF IInv, TypeOK, Request, catalogue, clock
    <3>. QED BY <2>1, <3>1, <3>2
  <2>2. CASE Tick
    <3>1. phase' \in 0..(Interval - 1)
      BY <2>2, FollowAssumption DEF Tick, IInv, TypeOK
    <3>2. \A s \in Series : [follow[s] EXCEPT !.age = IF @ = Interval THEN @ ELSE @ + 1] \in FollowRow
      <4>. SUFFICES ASSUME NEW s \in Series
                    PROVE  [follow[s] EXCEPT !.age = IF @ = Interval THEN @ ELSE @ + 1] \in FollowRow
        OBVIOUS
      <4>. DEFINE older == IF follow[s].age = Interval THEN follow[s].age ELSE follow[s].age + 1
      <4>1. follow[s] \in FollowRow
        BY DEF IInv, TypeOK
      <4>2. older \in 0..Interval
        BY <4>1, FollowAssumption DEF FollowRow
      <4>3. [follow[s] EXCEPT !.age = older] \in FollowRow
        BY <4>1, <4>2, Zenon DEF FollowRow
      <4>. QED BY <4>3
    <3>3. follow' \in [Series -> FollowRow]
      BY <2>2, <3>2 DEF Tick
    <3>4. taken' \subseteq Series
      BY <2>2 DEF Tick, NewPeriod, IInv, TypeOK
    <3>. QED BY <2>2, <3>1, <3>3, <3>4 DEF Tick, IInv, TypeOK
  <2>3. CASE \E s \in Series : Schedule(s) \/ CheckNow(s)
    <3>. PICK s \in Series : Schedule(s) \/ CheckNow(s)
      BY <2>3
    <3>1. \A q \in Series : waiting[q] < MaxQueued => waiting[q] + 1 \in 0..MaxQueued
      BY FollowAssumption DEF IInv, TypeOK
    <3>3. waiting' \in [Series -> 0..MaxQueued]
      BY <3>1 DEF Schedule, CheckNow, IInv, TypeOK
    <3>. QED BY <3>3 DEF Schedule, CheckNow, IInv, TypeOK, catalogue, clock
  <2>4. CASE \E s \in Series : DeleteFollow(s) \/ Remove(s) \/ \E auto \in BOOLEAN : PutFollow(s, auto)
    <3>. PICK s \in Series : DeleteFollow(s) \/ Remove(s) \/ \E auto \in BOOLEAN : PutFollow(s, auto)
      BY <2>4
    <3>1. NoFollow \in FollowRow
      BY FollowAssumption DEF NoFollow, FollowRow
    <3>2. \A auto \in BOOLEAN : [on |-> TRUE, auto |-> auto, age |-> Interval] \in FollowRow
      BY FollowAssumption DEF FollowRow
    <3>3. \A auto \in BOOLEAN : [follow[s] EXCEPT !.auto = auto] \in FollowRow
      BY DEF IInv, TypeOK, FollowRow
    <3>4. follow' \in [Series -> FollowRow]
      <4>1. CASE DeleteFollow(s) \/ Remove(s)
        BY <3>1, <4>1 DEF DeleteFollow, Remove, IInv, TypeOK
      <4>2. CASE \E auto \in BOOLEAN : PutFollow(s, auto)
        BY <3>2, <3>3, <4>2 DEF PutFollow, Upserted, IInv, TypeOK
      <4>. QED BY <4>1, <4>2
    <3>5. UNCHANGED <<site, phase, taken, pressed, waiting, worker, adding, downloads, faults>>
      BY DEF DeleteFollow, Remove, PutFollow, clock
    <3>6. stored' \subseteq stored /\ owed' \subseteq owed
      BY DEF DeleteFollow, Remove, PutFollow
    <3>7. library' \in [Series -> {"kept", "removed", "returned"}]
      BY DEF DeleteFollow, Remove, PutFollow, IInv, TypeOK
    <3>. QED BY <3>4, <3>5, <3>6, <3>7 DEF IInv, TypeOK
  <2>. QED BY <2>1, <2>2, <2>3, <2>4
<1>9. AddsItsOwn'
  <2>. UNCHANGED adding
    BY DEF Publish, Request, Tick, Schedule, CheckNow, DeleteFollow, Remove, PutFollow
  <2>. QED BY DEF IInv, AddsItsOwn
<1>. QED BY <1>4, <1>5, <1>6, <1>7, <1>8, <1>9, IInvNext

LEMMA AddStep ==
    ASSUME IInv, NEW s \in Series, AddRead(s) \/ AddStore(s)
    PROVE  IInv'
<1>1. UNCHANGED <<site, follow, phase, taken, pressed, waiting, worker, downloads, owed, faults>>
  BY DEF AddRead, AddStore, catalogue, clock
<1>2. adding' \in [Series -> [on : BOOLEAN, found : SUBSET Chapter]] /\ AddsItsOwn'
  <2>. DEFINE row == IF AddRead(s) THEN [on |-> TRUE, found |-> site \cap Chapters(s)] ELSE NotAdding
  <2>1. row \in [on : BOOLEAN, found : SUBSET Chapter] /\ row.found \subseteq Chapters(s)
    BY DEF IInv, TypeOK, NotAdding
  <2>2. adding' = [adding EXCEPT ![s] = row]
    BY DEF AddRead, AddStore
  <2>. HIDE DEF row
  <2>. QED BY <2>1, <2>2 DEF IInv, TypeOK, AddsItsOwn, Chapters
<1>3. \/ UNCHANGED <<library, stored>>
      \/ /\ library' = [library EXCEPT ![s] = IF @ = "removed" THEN "returned" ELSE @]
         /\ stored' = IF library[s] = "kept" THEN stored \cup adding[s].found ELSE stored
  BY DEF AddRead, AddStore, catalogue
<1>4. /\ library' \in [Series -> {"kept", "removed", "returned"}]
      /\ \A r \in Series : library'[r] = "kept" <=> library[r] = "kept"
  BY <1>3 DEF IInv, TypeOK
<1>5. adding[s].found \subseteq Chapters(s) /\ Chapters(s) \subseteq Chapter
  BY DEF IInv, AddsItsOwn, Chapters
<1>6. stored \subseteq stored' /\ stored' \subseteq Chapter
  BY <1>3, <1>5 DEF IInv, TypeOK
<1>7. TypeOK'
  BY <1>1, <1>2, <1>4, <1>6 DEF IInv, TypeOK
<1>8. FollowsAreOfKept'
  BY <1>1, <1>4 DEF IInv, FollowsAreOfKept
<1>9. StoredAreOfKept'
  <2>. SUFFICES ASSUME NEW c \in stored' PROVE library'[SeriesOf[c]] = "kept"
    BY DEF StoredAreOfKept
  <2>1. library[SeriesOf[c]] = "kept"
    BY <1>3, <1>5 DEF IInv, StoredAreOfKept, Chapters
  <2>. QED BY <1>4, <1>6, <2>1, FollowAssumption
<1>10. \A w \in Worker : Works(w)'
  BY <1>1, <1>4, <1>6, OthersWork, IInvIs
<1>11. NewToOne'
  BY <1>1, <1>4, PairsStay DEF IInv
<1>. QED BY <1>2, <1>7, <1>8, <1>9, <1>10, <1>11, IInvNext

-----------------------------------------------------------------------------
\* A worker's step, with what it does to its own row left to show.
LEMMA WorkerStep ==
    ASSUME IInv, TypeOK', FollowsAreOfKept', StoredAreOfKept', UNCHANGED adding, NEW w \in Worker,
           \A v \in Worker : v # w => worker'[v] = worker[v],
           Works(w)',
           downloads \subseteq downloads',
           \A s \in Series : library'[s] = "kept" =>
               library[s] = "kept" /\ stored \cap Chapters(s) \subseteq stored',
           \/ worker'[w].new = {}
           \/ worker'[w].new = worker[w].new /\ worker'[w].series = worker[w].series
           \/ worker'[w].new \cap stored = {}
    PROVE  IInv'
<1>1. \A v \in Worker : Works(v)'
  BY OthersWork, IInvIs
<1>2. NewToOne'
  <2>. SUFFICES ASSUME NEW u \in Worker, NEW v \in Worker, u # v,
                       worker'[u].series \in Series, library'[worker'[u].series] = "kept"
                PROVE  worker'[u].new \cap worker'[v].new = {}
    BY DEF NewToOne
  <2>. DEFINE Mine(x) == worker[x].new \subseteq Chapters(worker[x].series)
  <2>1. \A x \in Worker : worker[x].series \in Series /\ library[worker[x].series] = "kept"
                          => worker[x].new \subseteq stored
    <3>. SUFFICES ASSUME NEW x \in Worker, worker[x].series \in Series,
                         library[worker[x].series] = "kept"
                  PROVE  worker[x].new \subseteq stored
      OBVIOUS
    <3>1. Works(x)
      BY IInvIs
    <3>. QED BY <3>1, IdleType DEF Works
  <2>2. CASE worker'[w].new = {}
    BY <2>2 DEF IInv, NewToOne
  <2>3. CASE worker'[w].new = worker[w].new /\ worker'[w].series = worker[w].series
    <3>1. /\ worker'[u].new = worker[u].new /\ worker'[u].series = worker[u].series
          /\ worker'[v].new = worker[v].new
      BY <2>3
    <3>2. library[worker[u].series] = "kept"
      BY <3>1
    <3>. QED BY <3>1, <3>2 DEF IInv, NewToOne
  <2>4. CASE worker'[w].new \cap stored = {}
    <3>1. CASE u # w /\ v # w
      BY <3>1 DEF IInv, NewToOne
    <3>2. CASE v = w
      <4>1. worker[u] = worker'[u] /\ worker[u].new \subseteq stored
        BY <3>2, <2>1
      <4>. QED BY <4>1, <3>2, <2>4
    <3>3. CASE u = w
      <4>1. worker'[v] = worker[v]
        BY <3>3
      <4>2. CASE ~At(v, "idle") /\ library'[worker[v].series] = "kept"
        <5>1. Works(v)
          BY IInvIs
        <5>2. worker[v].new \subseteq stored
          BY <5>1, <4>2, <2>1 DEF Works
        <5>. QED BY <5>2, <4>1, <3>3, <2>4
      <4>3. CASE At(v, "idle")
        <5>1. Works(v)
          BY IInvIs
        <5>. QED BY <5>1, <4>1, <4>3, IdleType DEF Works
      <4>4. CASE ~At(v, "idle") /\ library'[worker[v].series] # "kept"
        <5>1. Works(v) /\ Works(w)'
          BY IInvIs
        <5>2. worker[v].new \subseteq Chapters(worker[v].series) /\ worker[v].series \in Series
          BY <5>1, <4>4 DEF Works
        <5>3. worker'[w].new \subseteq Chapters(worker'[w].series)
          BY <5>1, <3>3, IdleType DEF Works
        <5>4. worker'[w].series # worker[v].series
          BY <3>3, <4>1, <4>4
        <5>. QED BY <5>2, <5>3, <5>4, <4>1, <3>3 DEF Chapters
      <4>. QED BY <4>2, <4>3, <4>4
    <3>. QED BY <3>1, <3>2, <3>3
  <2>. QED BY <2>2, <2>3, <2>4
<1>3. AddsItsOwn'
  BY DEF IInv, AddsItsOwn
<1>. QED BY <1>1, <1>2, <1>3, IInvNext

\* An attempt that ends keeps what a worker's step must keep.
LEMMA EndsWork ==
    ASSUME IInv, NEW w \in Worker, worker' = [worker EXCEPT ![w] = Idle]
    PROVE  /\ worker' \in [Worker -> WorkerRow]
           /\ \A v \in Worker : v # w => worker'[v] = worker[v]
           /\ Works(w)'
           /\ worker'[w].new = {}
<1>1. worker' \in [Worker -> WorkerRow] /\ worker'[w] = Idle
  BY IdleType DEF IInv, TypeOK, WorkerRow
<1>. QED BY <1>1, IdleType DEF Works, At, IInv, TypeOK

\* One that fails changes nothing else but the queue.
LEMMA FailsStep ==
    ASSUME IInv, NEW w \in Worker, worker[w].series \in Series, Fails(w),
           UNCHANGED <<site, library, stored, follow, phase, taken, pressed, adding, downloads, owed>>
    PROVE  IInv'
<1>1. /\ worker' = [worker EXCEPT ![w] = Idle]
      /\ waiting' \in [Series -> 0..MaxQueued]
      /\ faults' \in 0..MaxFaults
  BY FailsType DEF IInv
<1>2. TypeOK' /\ FollowsAreOfKept' /\ StoredAreOfKept'
  BY <1>1, EndsWork DEF IInv, TypeOK, FollowsAreOfKept, StoredAreOfKept, WorkerRow
<1>. QED BY <1>1, <1>2, EndsWork, WorkerStep

\* A step of a worker that goes on to another place with the row it has.
LEMMA GoesWork ==
    ASSUME IInv, NEW w \in Worker, NEW pc \in Pc \ {"idle"}, ~At(w, "idle"), Goes(w, pc)
    PROVE  /\ worker' \in [Worker -> WorkerRow]
           /\ \A v \in Worker : v # w => worker'[v] = worker[v]
           /\ worker'[w] = [worker[w] EXCEPT !.pc = pc]
BY DEF IInv, TypeOK, WorkerRow, Goes

LEMMA Acting ==
    ASSUME IInv, NEW w \in Worker, ~At(w, "idle")
    PROVE  /\ worker[w].series \in Series
           /\ worker[w].found \cup worker[w].new \subseteq Chapters(worker[w].series)
           /\ worker[w].found \subseteq Chapter /\ worker[w].new \subseteq Chapter
           /\ library[worker[w].series] = "kept" => worker[w].new \subseteq stored
           /\ worker[w] \in WorkerRow
<1>1. Works(w)
  BY IInvIs
<1>. QED BY <1>1 DEF Works, Chapters, WorkerRow

LEMMA BeginStep ==
    ASSUME IInv, NEW w \in Worker, NEW s \in Series, Begin(w, s)
    PROVE  IInv'
<1>1. waiting' \in [Series -> 0..MaxQueued]
  <2>1. waiting[s] - 1 \in 0..MaxQueued
    BY FollowAssumption DEF Begin, IInv, TypeOK
  <2>. QED BY <2>1 DEF Begin, IInv, TypeOK
<1>. DEFINE row == [Idle EXCEPT !.pc = "reading", !.series = s, !.auto = follow[s].auto]
<1>2. /\ row \in WorkerRow
      /\ row.pc = "reading" /\ row.new = {} /\ row.found = {} /\ row.series = s
  <2>1. follow[s].auto \in BOOLEAN
    BY DEF IInv, TypeOK, FollowRow
  <2>. QED BY <2>1 DEF Idle, WorkerRow, Pc
<1>3. worker' = worker \/ worker' = [worker EXCEPT ![w] = row]
  BY DEF Begin
<1>4. /\ worker' \in [Worker -> WorkerRow]
      /\ \A v \in Worker : v # w => worker'[v] = worker[v]
      /\ worker'[w].new = {}
      /\ Works(w)'
  <2>1. Works(w) /\ worker \in [Worker -> WorkerRow]
    BY IInvIs DEF IInv, TypeOK, WorkerRow
  <2>2. CASE worker' = worker
    <3>1. worker[w] = Idle
      BY DEF Begin
    <3>2. worker'[w] = Idle
      BY <3>1, <2>2
    <3>. QED BY <2>1, <2>2, <3>2, IdleType DEF Works, At
  <2>3. CASE worker' = [worker EXCEPT ![w] = row]
    <3>1. worker'[w] = row
      BY <2>1, <2>3
    <3>. QED BY <2>1, <2>3, <3>1, <1>2 DEF Works, At
  <2>. QED BY <1>3, <2>2, <2>3
<1>5. TypeOK' /\ FollowsAreOfKept' /\ StoredAreOfKept'
  BY <1>1, <1>4 DEF Begin, IInv, TypeOK, FollowsAreOfKept, StoredAreOfKept, WorkerRow, catalogue, clock
<1>6. UNCHANGED <<library, stored, downloads, adding>>
  BY DEF Begin, catalogue
<1>. QED BY <1>4, <1>5, <1>6, WorkerStep

LEMMA ReadStep == ASSUME IInv, NEW w \in Worker, Read(w) PROVE IInv'
<1>1. ~At(w, "idle") /\ worker[w].series \in Series
  BY Acting DEF Read, At
<1>2. CASE Fails(w)
  BY <1>1, <1>2, FailsStep DEF Read, catalogue, clock
<1>3. CASE /\ worker' = [worker EXCEPT ![w].pc = "merging",
                                       ![w].found = site \cap Chapters(worker[w].series)]
           /\ UNCHANGED <<waiting, faults>>
  <2>. DEFINE row == [worker[w] EXCEPT !.pc = "merging", !.found = site \cap Chapters(worker[w].series)]
  <2>1. worker[w] \in WorkerRow /\ site \subseteq Chapter /\ Works(w)
    BY IInvIs DEF IInv, TypeOK, WorkerRow
  <2>2. worker' \in [Worker -> WorkerRow] /\ worker'[w] = row
    BY <1>3, <2>1 DEF IInv, TypeOK, WorkerRow, Pc
  <2>3. /\ row.new = worker[w].new /\ row.series = worker[w].series /\ row.pc = "merging"
        /\ row.found \subseteq Chapters(worker[w].series)
    BY <2>1 DEF WorkerRow
  <2>4. TypeOK' /\ FollowsAreOfKept' /\ StoredAreOfKept' /\ UNCHANGED <<library, stored, downloads, adding>>
    BY <1>3, <2>2 DEF Read, IInv, TypeOK, FollowsAreOfKept, StoredAreOfKept, WorkerRow, catalogue, clock
  <2>5. Works(w)'
    BY <1>1, <2>1, <2>2, <2>3, <2>4 DEF Works, At, Chapters
  <2>6. \A v \in Worker : v # w => worker'[v] = worker[v]
    BY <1>3 DEF IInv, TypeOK
  <2>. QED BY <2>2, <2>3, <2>4, <2>5, <2>6, WorkerStep
<1>. QED BY <1>2, <1>3 DEF Read

LEMMA MergeStep == ASSUME IInv, NEW w \in Worker, Merge(w) PROVE IInv'
<1>1. ~At(w, "idle") /\ "storing" \in Pc \ {"idle"}
  BY DEF Merge, At, Pc
<1>2. /\ worker' \in [Worker -> WorkerRow]
      /\ \A v \in Worker : v # w => worker'[v] = worker[v]
      /\ worker'[w] = [worker[w] EXCEPT !.pc = "storing"]
  BY <1>1, GoesWork DEF Merge
<1>3. /\ worker[w] \in WorkerRow /\ worker[w].series \in Series
      /\ worker[w].found \cup worker[w].new \subseteq Chapters(worker[w].series)
      /\ library[worker[w].series] = "kept" => worker[w].new \subseteq stored
  BY <1>1, Acting
<1>4. \A s \in Series : library'[s] = "kept" <=> library[s] = "kept"
  BY <1>3 DEF Merge, IInv, TypeOK
<1>5. library' \in [Series -> {"kept", "removed", "returned"}]
  BY DEF Merge, IInv, TypeOK
<1>6. FollowsAreOfKept' /\ StoredAreOfKept' /\ UNCHANGED <<stored, downloads, adding>>
  BY <1>4, FollowAssumption DEF Merge, IInv, TypeOK, FollowsAreOfKept, StoredAreOfKept
<1>7. TypeOK'
  BY <1>2, <1>5 DEF Merge, IInv, TypeOK, WorkerRow, clock
<1>8. /\ worker'[w].new = worker[w].new /\ worker'[w].series = worker[w].series
      /\ worker'[w].found = worker[w].found /\ worker'[w].pc = "storing"
      /\ worker'[w] \in WorkerRow
  BY <1>2, <1>3 DEF WorkerRow
<1>9. Works(w)'
  BY <1>3, <1>4, <1>6, <1>8 DEF Works, At, Chapters
<1>. QED BY <1>2, <1>4, <1>6, <1>7, <1>8, <1>9, WorkerStep

LEMMA StoreStep == ASSUME IInv, NEW w \in Worker, Store(w) PROVE IInv'
<1>1. ~At(w, "idle") /\ worker[w].series \in Series
  BY Acting DEF Store, At
<1>2. CASE Fails(w) /\ UNCHANGED <<stored, owed>>
  BY <1>1, <1>2, FailsStep DEF Store, clock
<1>3. CASE Ends(w) /\ UNCHANGED <<stored, owed, waiting, faults>>
  <2>1. TypeOK' /\ FollowsAreOfKept' /\ StoredAreOfKept'
    BY <1>3, EndsWork DEF Ends, Store, IInv, TypeOK, FollowsAreOfKept, StoredAreOfKept, WorkerRow, clock
  <2>. QED BY <1>3, <2>1, EndsWork, WorkerStep DEF Ends, Store
<1>4. CASE /\ worker[w].found = {} \/ library[worker[w].series] = "kept"
           /\ Stored(w, worker[w].found \ stored)
  <2>. DEFINE new == worker[w].found \ stored
              next == IF worker[w].auto /\ new # {} THEN "queueing" ELSE "marking"
              row == [worker[w] EXCEPT !.new = new, !.found = {}, !.pc = next]
  <2>1. /\ worker[w] \in WorkerRow
        /\ worker[w].found \subseteq Chapters(worker[w].series) /\ worker[w].found \subseteq Chapter
    BY <1>1, Acting
  <2>2. /\ stored' = stored \cup new /\ stored' \subseteq Chapter /\ owed' \subseteq Chapter
        /\ UNCHANGED <<site, library, follow, phase, taken, pressed, adding, downloads, waiting, faults>>
    BY <1>4, <2>1 DEF Store, Stored, IInv, TypeOK, clock
  <2>3. \A c \in new : library[SeriesOf[c]] = "kept"
    BY <1>4, <2>1 DEF Chapters
  <2>4. FollowsAreOfKept' /\ StoredAreOfKept'
    BY <2>2, <2>3 DEF IInv, FollowsAreOfKept, StoredAreOfKept
  <2>5. next \in Pc /\ next # "idle"
    BY DEF Pc
  <2>6. /\ row \in WorkerRow /\ row.new = new /\ row.found = {} /\ row.pc = next
        /\ row.series = worker[w].series /\ row.auto = worker[w].auto
    BY <2>1, <2>5 DEF WorkerRow
  <2>7. /\ worker' \in [Worker -> WorkerRow] /\ worker'[w] = row
        /\ \A v \in Worker : v # w => worker'[v] = worker[v]
    <3>1. worker \in [Worker -> WorkerRow]
      BY DEF IInv, TypeOK, WorkerRow
    <3>2. worker' = [worker EXCEPT ![w].new = new, ![w].found = {}, ![w].pc = next]
      BY <1>4 DEF Stored
    <3>3. worker' = [worker EXCEPT ![w] = row]
      BY <3>1, <3>2
    <3>. HIDE DEF row
    <3>. QED BY <3>1, <3>3, <2>6
  <2>8. TypeOK'
    BY <2>2, <2>7 DEF IInv, TypeOK, WorkerRow
  <2>9. new \subseteq stored' /\ new \subseteq Chapters(worker[w].series)
    BY <2>1, <2>2
  <2>10. next = "marking" /\ worker[w].auto => new = {}
    OBVIOUS
  <2>11. Works(w)'
    BY <1>1, <2>5, <2>6, <2>7, <2>9, <2>10 DEF Works, At, Chapters
  <2>12. worker'[w].new \cap stored = {}
    BY <2>6, <2>7
  <2>. QED BY <2>2, <2>4, <2>7, <2>8, <2>11, <2>12, WorkerStep
<1>. QED BY <1>2, <1>3, <1>4 DEF Store

LEMMA QueueStep == ASSUME IInv, NEW w \in Worker, NEW c \in Chapter, Queue(w, c) PROVE IInv'
<1>1. ~At(w, "idle") /\ worker[w].series \in Series
  BY Acting DEF Queue, At
<1>2. CASE Fails(w) /\ UNCHANGED <<downloads, owed>>
  BY <1>1, <1>2, FailsStep DEF Queue, catalogue, clock
<1>3. CASE /\ downloads' = downloads \cup {c}
           /\ owed' = owed \ {c}
           /\ UNCHANGED <<worker, waiting, faults>>
  <2>1. UNCHANGED <<site, library, stored, follow, phase, taken, pressed, adding>>
    BY DEF Queue, catalogue, clock
  <2>2. TypeOK' /\ FollowsAreOfKept' /\ StoredAreOfKept'
    BY <1>3, <2>1 DEF IInv, TypeOK, FollowsAreOfKept, StoredAreOfKept
  <2>3. \A v \in Worker : Works(v)'
    BY <1>3, <2>1, OthersWork, IInvIs
  <2>4. NewToOne' /\ AddsItsOwn'
    BY <1>3, <2>1, PairsStay DEF IInv, AddsItsOwn
  <2>. QED BY <2>2, <2>3, <2>4, IInvNext
<1>. QED BY <1>2, <1>3 DEF Queue

LEMMA QueuedStep == ASSUME IInv, NEW w \in Worker, Queued(w) PROVE IInv'
<1>1. ~At(w, "idle") /\ "marking" \in Pc \ {"idle"}
  BY DEF Queued, At, Pc
<1>2. /\ worker' \in [Worker -> WorkerRow]
      /\ \A v \in Worker : v # w => worker'[v] = worker[v]
      /\ worker'[w] = [worker[w] EXCEPT !.pc = "marking"]
  BY <1>1, GoesWork DEF Queued
<1>3. /\ worker[w] \in WorkerRow /\ worker[w].series \in Series
      /\ worker[w].found \cup worker[w].new \subseteq Chapters(worker[w].series)
      /\ library[worker[w].series] = "kept" => worker[w].new \subseteq stored
  BY <1>1, Acting
<1>4. UNCHANGED <<site, library, stored, follow, phase, taken, pressed, adding, waiting, downloads,
               owed, faults>>
  BY DEF Queued, catalogue, clock
<1>5. TypeOK' /\ FollowsAreOfKept' /\ StoredAreOfKept'
  BY <1>2, <1>4 DEF IInv, TypeOK, WorkerRow, FollowsAreOfKept, StoredAreOfKept
<1>6. /\ worker'[w].new = worker[w].new /\ worker'[w].series = worker[w].series
      /\ worker'[w].found = worker[w].found /\ worker'[w].pc = "marking"
      /\ worker'[w] \in WorkerRow
  BY <1>2, <1>3 DEF WorkerRow
<1>7. worker[w].new \subseteq downloads
  BY DEF Queued
<1>8. Works(w)'
  BY <1>3, <1>4, <1>6, <1>7 DEF Works, At, Chapters
<1>. QED BY <1>2, <1>4, <1>5, <1>6, <1>8, WorkerStep

LEMMA MarkStep == ASSUME IInv, NEW w \in Worker, Mark(w) PROVE IInv'
<1>1. ~At(w, "idle") /\ worker[w].series \in Series
  BY Acting DEF Mark, At
<1>2. CASE Fails(w) /\ UNCHANGED follow
  BY <1>1, <1>2, FailsStep DEF Mark, clock
<1>3. CASE /\ follow' = [follow EXCEPT ![worker[w].series].age =
                            IF follow[worker[w].series].on THEN 0 ELSE @]
           /\ Ends(w)
           /\ UNCHANGED <<waiting, faults>>
  <2>. DEFINE s == worker[w].series
              age == IF follow[s].on THEN 0 ELSE follow[s].age
  <2>1. follow[s] \in FollowRow
    BY <1>1 DEF IInv, TypeOK
  <2>2. age \in 0..Interval
    BY <2>1, FollowAssumption DEF FollowRow
  <2>3. follow' = [follow EXCEPT ![s] = [follow[s] EXCEPT !.age = age]]
    BY <1>3
  <2>4. [follow[s] EXCEPT !.age = age] \in FollowRow /\ [follow[s] EXCEPT !.age = age].on = follow[s].on
    BY <2>1, <2>2, Zenon DEF FollowRow
  <2>. HIDE DEF age
  <2>5. follow' \in [Series -> FollowRow] /\ \A r \in Series : follow'[r].on = follow[r].on
    <3>1. follow \in [Series -> FollowRow] /\ s \in Series
      BY <1>1 DEF IInv, TypeOK
    <3>2. follow' \in [Series -> FollowRow]
      BY <2>3, <2>4, <3>1
    <3>3. \A r \in Series : follow'[r].on = follow[r].on
      BY <2>3, <2>4, <3>1
    <3>. QED BY <3>2, <3>3
  <2>6. worker' = [worker EXCEPT ![w] = Idle]
    BY <1>3 DEF Ends
  <2>7. UNCHANGED <<site, library, stored, phase, taken, pressed, adding, waiting, downloads,
                 owed, faults>>
    BY <1>3 DEF Mark, clock
  <2>8. TypeOK' /\ FollowsAreOfKept' /\ StoredAreOfKept'
    BY <2>5, <2>6, <2>7, EndsWork DEF IInv, TypeOK, FollowsAreOfKept, StoredAreOfKept, WorkerRow
  <2>. QED BY <2>6, <2>7, <2>8, EndsWork, WorkerStep
<1>. QED BY <1>2, <1>3 DEF Mark

-----------------------------------------------------------------------------
LEMMA NextIInv == IInv /\ [Next]_vars => IInv'
<1>. SUFFICES ASSUME IInv, [Next]_vars PROVE IInv'
  OBVIOUS
<1>1. CASE UNCHANGED vars
  <2>1. TypeOK' /\ FollowsAreOfKept' /\ StoredAreOfKept' /\ AddsItsOwn' /\ NewToOne'
    BY <1>1 DEF vars, AddsItsOwn, IInv, TypeOK, FollowsAreOfKept, StoredAreOfKept, NewToOne
  <2>2. \A w \in Worker : Works(w)'
    BY <1>1, OthersWork, IInvIs DEF vars
  <2>. QED BY <2>1, <2>2, IInvNext
<1>2. CASE \E w \in Worker : HandlerStep(w)
  BY <1>2, ReadStep, MergeStep, StoreStep, QueueStep, QueuedStep, MarkStep DEF HandlerStep
<1>3. CASE \E w \in Worker, s \in Series : Begin(w, s)
  BY <1>3, BeginStep
<1>4. CASE \E s \in Series : AddRead(s) \/ AddStore(s)
  BY <1>4, AddStep
<1>. QED BY <1>1, <1>2, <1>3, <1>4, OutsideStep DEF Next

\* A follow and its chapters belong to a series that is there, and a check that is marked has queued
\* what it was the first to store, in whatever steps of it series are removed, follows changed,
\* attempts failed and other checks made (CheckFollow::handle and the routes beside it).
THEOREM FollowInvariant == Spec => []IInv
BY InitIInv, NextIInv, PTL DEF Spec

\* No chapter is new to two checks of a series (upsert_chapters counts what it inserted).
THEOREM ChaptersAreNewOnce == Spec => []NewToOne
<1>1. IInv => NewToOne
  BY DEF IInv
<1>. QED BY <1>1, FollowInvariant, PTL

-----------------------------------------------------------------------------
Held(c) == \E w \in Worker : At(w, "queueing") /\ c \in worker[w].new

\* A chapter that is owed and stays so keeps the worker that holds it, if no other step than one that
\* fails takes the worker from its chapters.
LEMMA HeldStays ==
    ASSUME OwedHasNoDownload, NothingOwedIsDropped, faults' = 0 => faults = 0,
           downloads \subseteq downloads', owed' \cap downloads' = {},
           \A c \in owed' : c \in owed \/ Held(c)',
           \A w \in Worker : \/ worker'[w] = worker[w]
                             \/ ~At(w, "queueing")
                             \/ worker[w].new \subseteq downloads
                             \/ faults' # 0
    PROVE  OwedHasNoDownload' /\ NothingOwedIsDropped'
<1>1. ASSUME faults' = 0, NEW c \in owed' PROVE Held(c)'
  <2>1. CASE Held(c)'
    BY <2>1
  <2>2. CASE c \in owed
    <3>1. PICK w \in Worker : At(w, "queueing") /\ c \in worker[w].new
      BY <1>1, <2>2 DEF NothingOwedIsDropped
    <3>2. worker'[w] = worker[w]
      BY <1>1, <2>2, <3>1 DEF OwedHasNoDownload
    <3>. QED BY <3>1, <3>2 DEF At, Held
  <2>. QED BY <1>1, <2>1, <2>2
<1>. QED BY <1>1 DEF OwedHasNoDownload, NothingOwedIsDropped, Held

LEMMA OutsideKeepsHeld ==
    ASSUME IInv, OwedHasNoDownload, NothingOwedIsDropped,
           \/ \E c \in Chapter : Publish(c) \/ Request(c)
           \/ Tick
           \/ \E s \in Series : \/ Schedule(s) \/ CheckNow(s) \/ DeleteFollow(s) \/ Remove(s)
                                \/ AddRead(s) \/ AddStore(s)
                                \/ \E auto \in BOOLEAN : PutFollow(s, auto)
    PROVE  OwedHasNoDownload' /\ NothingOwedIsDropped'
<1>1. worker' = worker /\ faults' = faults /\ downloads \subseteq downloads' /\ owed' \subseteq owed
  BY DEF Publish, Request, Tick, Schedule, CheckNow, DeleteFollow, Remove, AddRead, AddStore,
         PutFollow, catalogue, clock
<1>2. owed' \cap downloads' = {}
  <2>1. CASE \E c \in Chapter : Request(c)
    BY <2>1 DEF Request, OwedHasNoDownload
  <2>2. CASE ~\E c \in Chapter : Request(c)
    <3>1. downloads' = downloads
      BY <2>2 DEF Publish, Tick, Schedule, CheckNow, DeleteFollow, Remove, AddRead, AddStore,
                  PutFollow, catalogue, clock
    <3>. QED BY <1>1, <3>1 DEF OwedHasNoDownload
  <2>. QED BY <2>1, <2>2
<1>. QED BY <1>1, <1>2, HeldStays

\* An attempt that fails is a fault, and from then on nothing is promised.
LEMMA FailsKeepsHeld ==
    ASSUME IInv, OwedHasNoDownload, NothingOwedIsDropped, NEW w \in Worker, Fails(w),
           UNCHANGED <<downloads, owed>>
    PROVE  OwedHasNoDownload' /\ NothingOwedIsDropped'
<1>1. faults' # 0
  BY DEF Fails, IInv, TypeOK
<1>. QED BY <1>1, HeldStays DEF OwedHasNoDownload

LEMMA StoreKeepsHeld ==
    ASSUME IInv, OwedHasNoDownload, NothingOwedIsDropped, NEW w \in Worker, Store(w)
    PROVE  OwedHasNoDownload' /\ NothingOwedIsDropped'
<1>1. UNCHANGED downloads /\ At(w, "storing")
  BY DEF Store
<1>2. CASE Fails(w) /\ UNCHANGED <<stored, owed>>
  BY <1>1, <1>2, FailsKeepsHeld
<1>3. CASE Ends(w) /\ UNCHANGED <<stored, owed, waiting, faults>>
  <2>1. \A v \in Worker : worker'[v] = worker[v] \/ ~At(v, "queueing")
    BY <1>1, <1>3 DEF Ends, At, IInv, TypeOK
  <2>. QED BY <1>1, <1>3, <2>1, HeldStays DEF OwedHasNoDownload
<1>4. CASE Stored(w, worker[w].found \ stored)
  <2>. DEFINE new == worker[w].found \ stored
  <2>1. UNCHANGED faults
    BY <1>4 DEF Stored
  <2>2. \A v \in Worker : worker'[v] = worker[v] \/ ~At(v, "queueing")
    BY <1>1, <1>4 DEF Stored, At, IInv, TypeOK
  <2>3. worker'[w].new = new /\ (worker[w].auto /\ new # {} => worker'[w].pc = "queueing")
    <3>1. worker \in [Worker -> WorkerRow]
      BY DEF IInv, TypeOK, WorkerRow
    <3>2. worker'[w] = [worker[w] EXCEPT !.new = new, !.found = {},
                                         !.pc = IF worker[w].auto /\ new # {} THEN "queueing"
                                                ELSE "marking"]
      BY <1>4, <3>1 DEF Stored
    <3>. QED BY <3>1, <3>2 DEF WorkerRow
  <2>4. \A c \in owed' : c \in owed \/ Held(c)'
    BY <1>4, <2>3 DEF Stored, Held, At
  <2>5. owed' \cap downloads' = {}
    BY <1>1, <1>4 DEF Stored, OwedHasNoDownload
  <2>. QED BY <1>1, <2>1, <2>2, <2>4, <2>5, HeldStays
<1>. QED BY <1>2, <1>3, <1>4 DEF Store

LEMMA QueueKeepsHeld ==
    ASSUME IInv, OwedHasNoDownload, NothingOwedIsDropped, NEW w \in Worker,
           Queued(w) \/ \E c \in Chapter : Queue(w, c)
    PROVE  OwedHasNoDownload' /\ NothingOwedIsDropped'
<1>1. CASE Queued(w)
  <2>1. \A v \in Worker : worker'[v] = worker[v] \/ worker[v].new \subseteq downloads
    BY <1>1 DEF Queued, Goes, IInv, TypeOK
  <2>. QED BY <1>1, <2>1, HeldStays DEF Queued, OwedHasNoDownload
<1>2. ASSUME NEW c \in Chapter, Queue(w, c) PROVE OwedHasNoDownload' /\ NothingOwedIsDropped'
  <2>1. CASE Fails(w) /\ UNCHANGED <<downloads, owed>>
    BY <2>1, FailsKeepsHeld
  <2>2. CASE downloads' = downloads \cup {c} /\ owed' = owed \ {c} /\ UNCHANGED <<worker, waiting, faults>>
    <3>1. owed' \cap downloads' = {}
      BY <2>2 DEF OwedHasNoDownload
    <3>. QED BY <2>2, <3>1, HeldStays
  <2>. QED BY <1>2, <2>1, <2>2 DEF Queue
<1>. QED BY <1>1, <1>2

LEMMA HandlerKeepsHeld ==
    ASSUME IInv, OwedHasNoDownload, NothingOwedIsDropped, NEW w \in Worker,
           HandlerStep(w) \/ \E s \in Series : Begin(w, s)
    PROVE  OwedHasNoDownload' /\ NothingOwedIsDropped'
<1>1. CASE Store(w)
  BY <1>1, StoreKeepsHeld
<1>2. CASE Queued(w) \/ \E c \in Chapter : Queue(w, c)
  BY <1>2, QueueKeepsHeld
<1>3. CASE Read(w) \/ Merge(w) \/ Mark(w) \/ \E s \in Series : Begin(w, s)
  <2>1. UNCHANGED <<downloads, owed>> /\ ~At(w, "queueing")
    <3>1. worker[w] = Idle => ~At(w, "queueing")
      BY IdleType DEF At
    <3>. QED BY <1>3, <3>1 DEF Read, Merge, Mark, Begin, At, catalogue, clock
  <2>2. CASE Fails(w)
    BY <2>1, <2>2, FailsKeepsHeld
  <2>3. CASE ~Fails(w)
    <3>1. UNCHANGED faults
      BY <1>3, <2>3 DEF Read, Merge, Mark, Begin
    <3>2. \A v \in Worker : v # w => worker'[v] = worker[v]
      BY <1>3, <2>3 DEF Read, Merge, Mark, Begin, Goes, Ends, IInv, TypeOK
    <3>. QED BY <2>1, <3>1, <3>2, HeldStays DEF OwedHasNoDownload
  <2>. QED BY <2>2, <2>3
<1>. QED BY <1>1, <1>2, <1>3 DEF HandlerStep

\* What an automatic check has stored and not yet queued is in the hands of a worker that will queue
\* it, whatever is removed, requested by hand or checked by others in the meantime, as long as no
\* attempt fails (queue_downloads after upsert_chapters in CheckFollow::handle).
THEOREM OwedIsHeld == Spec => []NothingOwedIsDropped
<1>1. Init => OwedHasNoDownload /\ NothingOwedIsDropped
  BY DEF Init, OwedHasNoDownload, NothingOwedIsDropped
<1>2. IInv /\ OwedHasNoDownload /\ NothingOwedIsDropped /\ [Next]_vars
        => OwedHasNoDownload' /\ NothingOwedIsDropped'
  <2>. SUFFICES ASSUME IInv, OwedHasNoDownload, NothingOwedIsDropped, [Next]_vars
                PROVE  OwedHasNoDownload' /\ NothingOwedIsDropped'
    OBVIOUS
  <2>1. CASE UNCHANGED vars
    BY <2>1 DEF vars, OwedHasNoDownload, NothingOwedIsDropped, At
  <2>. QED BY <2>1, OutsideKeepsHeld, HandlerKeepsHeld DEF Next
<1>. QED BY <1>1, <1>2, FollowInvariant, PTL DEF Spec
=============================================================================
