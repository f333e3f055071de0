-------------------------- MODULE WorkerPoolProofs --------------------------
(***************************************************************************)
(* Proofs about WorkerPool, for every set of jobs, works and workers and   *)
(* every delay.  First what each statement does to the table, then what    *)
(* every state of the system satisfies.                                    *)
(***************************************************************************)
EXTENDS WorkerPool, TLAPS

USE QueueAssumption, PoolAssumption DEF QueueAssumption, PoolAssumption

-----------------------------------------------------------------------------
(* The statements keep the table's type. *)

LEMMA Zero == 0 \in (-Overdue)..Backoff /\ 0 \in 0..(StaleAfter + 1) /\ 0 \in 0..(Retention + 1)
  OBVIOUS

LEMMA States ==
    /\ Terminal \subseteq State /\ Live \subseteq State
    /\ {"unborn", "gone", "queued", "running"} \subseteq State
  BY DEF State, Live, Terminal

LEMMA BlankType ==
    ASSUME NEW s \in {"unborn", "gone"}
    PROVE  Blank(s) \in Row
  BY Zero, States DEF Blank, Row, Columns

LEMMA InsertType ==
    ASSUME QueueTypeOK, NEW work \in Work, NEW origin \in JobId \cup {NoJob},
           Insert(work, origin)
    PROVE  QueueTypeOK'
  <1>1. CASE UNCHANGED job
    BY <1>1 DEF QueueTypeOK
  <1>2. ASSUME NEW j \in JobId,
               job' = [job EXCEPT ![j] =
                          [Blank("queued") EXCEPT !.work = work, !.origin = origin]]
        PROVE  QueueTypeOK'
    <2>1. [Blank("queued") EXCEPT !.work = work, !.origin = origin] \in Row
      BY Zero, States DEF Row, Columns, Blank
    <2>2. QED
      BY <1>2, <2>1 DEF QueueTypeOK
  <1>3. QED
    BY <1>1, <1>2 DEF Insert

LEMMA ClaimType ==
    ASSUME QueueTypeOK, NEW j \in JobId, NEW w \in Worker, Claim(j, w)
    PROVE  QueueTypeOK'
  <1>1. job[j] \in Row
    BY DEF QueueTypeOK
  <1>2. job[j].attempts + 1 \in Nat /\ job[j].work \in Work
    BY <1>1 DEF Row, Columns, Claim, Claimable
  <1> DEFINE claimed == [job[j] EXCEPT !.state = "running", !.lockedBy = w,
                                       !.lockAge = 0, !.attempts = job[j].attempts + 1]
  <1>3. claimed \in Columns
    BY <1>1, <1>2, Zero, States DEF Row, Columns
  <1>4. claimed.work \in Work /\ claimed.state = "running" /\ claimed.lockedBy # NoWorker
    BY <1>1, <1>2 DEF Row, Columns
  <1>5. job' = [job EXCEPT ![j] = claimed]
    BY DEF Claim
  <1> HIDE DEF claimed
  <1>6. QED
    BY <1>3, <1>4, <1>5 DEF QueueTypeOK, Row

LEMMA EndedType ==
    ASSUME QueueTypeOK, NEW j \in JobId, NEW s \in Terminal
    PROVE  Ended(j, s) \in [JobId -> Row]
  <1> DEFINE ended == [job[j] EXCEPT !.state = s, !.lockedBy = NoWorker,
                                     !.lockAge = 0, !.runIn = 0, !.age = 0]
  <1>1. ASSUME Exists(j)
        PROVE  ended \in Row
    <2>1. job[j] \in Columns /\ job[j].work \in Work
      BY <1>1 DEF QueueTypeOK, Row, Exists
    <2>2. ended \in Columns
      BY <2>1, Zero, States DEF Columns
    <2>3. ended.work \in Work /\ ended.state # "running" /\ ended.lockedBy = NoWorker
      BY <2>1 DEF Columns, Terminal
    <2> HIDE DEF ended
    <2>4. QED
      BY <2>2, <2>3 DEF Row
  <1>2. QED
    BY <1>1 DEF QueueTypeOK, Ended

LEMMA RequeuedType ==
    ASSUME QueueTypeOK, NEW j \in JobId
    PROVE  Requeued(j) \in [JobId -> Row]
  <1> DEFINE requeued == [job[j] EXCEPT !.state = "queued", !.runIn = Backoff,
                                        !.lockedBy = NoWorker, !.lockAge = 0, !.age = 0]
  <1>1. ASSUME Exists(j)
        PROVE  requeued \in Row
    <2>1. job[j] \in Columns /\ job[j].work \in Work
      BY <1>1 DEF QueueTypeOK, Row, Exists
    <2>2. Backoff \in (-Overdue)..Backoff
      OBVIOUS
    <2>3. requeued \in Columns
      BY <2>1, <2>2, Zero, States DEF Columns
    <2>4. requeued.work \in Work /\ requeued.state # "running" /\ requeued.lockedBy = NoWorker
      BY <2>1 DEF Columns
    <2> HIDE DEF requeued
    <2>5. QED
      BY <2>3, <2>4 DEF Row
  <1>2. QED
    BY <1>1 DEF QueueTypeOK, Requeued

LEMMA RecoveredType ==
    ASSUME QueueTypeOK, NEW older
    PROVE  Recovered(older) \in [JobId -> Row]
  <1> DEFINE released(j) == [job[j] EXCEPT !.state = "queued", !.lockedBy = NoWorker,
                                           !.lockAge = 0]
  <1>1. ASSUME NEW j \in JobId, job[j].state = "running"
        PROVE  released(j) \in Row
    <2>1. job[j] \in Columns /\ job[j].work \in Work
      BY <1>1 DEF QueueTypeOK, Row
    <2>2. released(j) \in Columns
      BY <2>1, Zero, States DEF Columns
    <2>3. released(j).work \in Work /\ released(j).state # "running"
                                    /\ released(j).lockedBy = NoWorker
      BY <2>1 DEF Columns
    <2> HIDE DEF released
    <2>4. QED
      BY <2>2, <2>3 DEF Row
  <1>2. QED
    BY <1>1 DEF QueueTypeOK, Recovered

LEMMA PrunedType ==
    ASSUME QueueTypeOK
    PROVE  Pruned \in [JobId -> Row]
  <1>1. Blank("gone") \in Row
    BY BlankType, States
  <1>2. QED
    BY <1>1 DEF QueueTypeOK, Pruned

LEMMA AgedType ==
    ASSUME QueueTypeOK
    PROVE  Aged \in [JobId -> Row]
  <1> SUFFICES ASSUME NEW j \in JobId
               PROVE  Aged[j] \in Row
    BY DEF Aged
  <1>1. job[j] \in Row
    BY DEF QueueTypeOK
  <1>2. Sooner(job[j].runIn) \in (-Overdue)..Backoff
    BY <1>1 DEF Row, Columns, Sooner
  <1>3. Later(job[j].lockAge, StaleAfter) \in 0..(StaleAfter + 1)
    BY <1>1 DEF Row, Columns, Later
  <1>4. Later(job[j].age, Retention) \in 0..(Retention + 1)
    BY <1>1 DEF Row, Columns, Later
  <1>5. QED
    BY <1>1, <1>2, <1>3, <1>4 DEF Row, Columns, Aged
-----------------------------------------------------------------------------
(* Types.  A worker that is busy has the id of a row, and so has a request: *)
(* without this a statement could be applied to no row at all.              *)

HolderHasJob == \A w \in Worker : IsBusy(w) => worker[w].job \in JobId

TypeInv == TypeOK /\ HolderHasJob /\ RequestIsWhole

LEMMA TypeInit == Init => TypeInv
  <1> SUFFICES ASSUME Init PROVE TypeInv
    OBVIOUS
  <1>1. QueueTypeOK
    BY BlankType, States DEF Init, QueueInit, QueueTypeOK
  <1>2. TypeOK
    BY <1>1 DEF Init, TypeOK, Everyone, At, NoRequest, Pc, Busy, Phase
  <1>3. QED
    BY <1>2 DEF Init, TypeInv, HolderHasJob, RequestIsWhole, IsBusy, Busy, Everyone, At, NoRequest

\* A worker that leaves its job or moves on within it keeps the type of the pool.
LEMMA LeaveType ==
    ASSUME TypeInv, NEW w \in Worker, NEW pc \in Pc \ Busy, Leave(w, pc)
    PROVE  /\ worker' \in [Worker -> [pc : Pc, job : JobId \cup {NoJob}, elapsed : 0..MaxRun]]
           /\ HolderHasJob'
  BY DEF TypeInv, TypeOK, HolderHasJob, IsBusy, Leave, At

LEMMA AdvanceType ==
    ASSUME TypeInv, NEW w \in Worker, NEW pc \in Pc, Advance(w, pc),
           pc \in Busy => IsBusy(w)
    PROVE  /\ worker' \in [Worker -> [pc : Pc, job : JobId \cup {NoJob}, elapsed : 0..MaxRun]]
           /\ HolderHasJob'
  BY DEF TypeInv, TypeOK, HolderHasJob, IsBusy, Advance

LEMMA EveryoneType ==
    ASSUME NEW pc \in Pc \ Busy, worker' = Everyone(pc)
    PROVE  /\ worker' \in [Worker -> [pc : Pc, job : JobId \cup {NoJob}, elapsed : 0..MaxRun]]
           /\ HolderHasJob'
  BY DEF HolderHasJob, IsBusy, Everyone, At

LEMMA AnnounceType ==
    ASSUME TypeOK, NEW j \in JobId, NEW s \in {"queued", "succeeded", "failed"}, Announce(j, s)
    PROVE  announced' \in [JobId -> {"none", "queued", "succeeded", "failed"}]
  BY DEF TypeOK, Announce

LEMMA DisruptType ==
    ASSUME TypeOK, NEW kind, Disrupt(kind)
    PROVE  disruptions' \in Nat
  BY DEF TypeOK, Disrupt

LEMMA WorkerType ==
    ASSUME TypeInv, NEW w \in Worker, WorkerStep(w)
    PROVE  TypeInv'
  <1> USE DEF TypeInv
  <1>0. /\ {"polling", "stopped", "dead"} \subseteq Pc \ Busy
        /\ {"claiming", "handling", "exhausting", "requeueing"} \subseteq Pc
        /\ {"succeeded", "failed", "cancelled"} = Terminal
    BY DEF Pc, Busy, Terminal
  <1>1. CASE Poll(w)
    <2>1. PICK pc \in {"stopped", "claiming"} : Advance(w, pc)
      BY <1>1 DEF Poll
    <2>2. pc \in Pc /\ pc \notin Busy
      BY DEF Pc, Busy
    <2>3. QED
      BY <1>1, <2>1, <2>2, AdvanceType DEF Poll, TypeOK, QueueTypeOK, RequestIsWhole
  <1>2. CASE ClaimJob(w)
    <2>1. PICK j \in JobId :
             /\ Claim(j, w)
             /\ worker' = [worker EXCEPT ![w] = [pc |-> "handling", job |-> j, elapsed |-> 0]]
      BY <1>2 DEF ClaimJob
    <2>2. QueueTypeOK'
      BY <2>1, ClaimType DEF TypeOK
    <2>3. QED
      BY <1>0, <1>2, <2>1, <2>2 DEF ClaimJob, TypeOK, HolderHasJob, RequestIsWhole, IsBusy
  <1>3. CASE ClaimNothing(w)
    BY <1>0, <1>3, LeaveType DEF ClaimNothing, TypeOK, QueueTypeOK, RequestIsWhole
  <1>4. CASE Finish(w)
    <2>1. worker[w].job \in JobId
      BY <1>4 DEF Finish, Running, HolderHasJob, IsBusy, Busy
    <2>2. QueueTypeOK'
      BY <1>0, <1>4, <2>1, EndedType DEF Finish, TypeOK, QueueTypeOK
    <2>3. QED
      BY <1>0, <1>4, <2>1, <2>2, LeaveType, AnnounceType DEF Finish, TypeOK, RequestIsWhole
  <1>5. ASSUME NEW retryable \in BOOLEAN, ReadFailed(w, retryable)
        PROVE  TypeInv'
    <2>1. PICK pc \in {"exhausting", "requeueing"} : Advance(w, pc)
      BY <1>5 DEF ReadFailed
    <2>2. pc \in Pc /\ IsBusy(w)
      BY <1>5 DEF ReadFailed, Running, IsBusy, Busy, Pc
    <2>3. QED
      BY <1>5, <2>1, <2>2, AdvanceType DEF ReadFailed, TypeOK, QueueTypeOK, RequestIsWhole
  <1>6. CASE ReadNothing(w)
    <2>1. worker[w].job \in JobId
      BY <1>6 DEF ReadNothing, Running, HolderHasJob, IsBusy, Busy
    <2>2. QED
      BY <1>0, <1>6, <2>1, LeaveType, AnnounceType
      DEF ReadNothing, TypeOK, QueueTypeOK, RequestIsWhole
  <1>7. CASE Exhaust(w)
    <2>1. worker[w].job \in JobId
      BY <1>7 DEF Exhaust, Running, HolderHasJob, IsBusy, Busy
    <2>2. QueueTypeOK'
      BY <1>0, <1>7, <2>1, EndedType DEF Exhaust, TypeOK, QueueTypeOK
    <2>3. QED
      BY <1>0, <1>7, <2>1, <2>2, LeaveType, AnnounceType DEF Exhaust, TypeOK, RequestIsWhole
  <1>8. CASE Requeue(w)
    <2>1. worker[w].job \in JobId
      BY <1>8 DEF Requeue, Running, HolderHasJob, IsBusy, Busy
    <2>2. QueueTypeOK'
      BY <1>8, <2>1, RequeuedType DEF Requeue, TypeOK, QueueTypeOK
    <2>3. QED
      BY <1>0, <1>8, <2>1, <2>2, LeaveType, AnnounceType DEF Requeue, TypeOK, RequestIsWhole
  <1>9. QED
    BY <1>1, <1>2, <1>3, <1>4, <1>5, <1>6, <1>7, <1>8 DEF WorkerStep

LEMMA FaultType ==
    ASSUME TypeInv, NEW w \in Worker, WorkerFault(w)
    PROVE  TypeInv'
  <1> USE DEF TypeInv
  <1>0. {"polling", "dead"} \subseteq Pc \ Busy
    BY DEF Pc, Busy
  <1>1. IsBusy(w) => worker[w].job \in JobId
    BY DEF HolderHasJob
  <1>2. CASE FinishUnrecorded(w)
    <2>1. IsBusy(w)
      BY <1>2 DEF FinishUnrecorded, Running, IsBusy, Busy
    <2>2. QED
      BY <1>0, <1>1, <1>2, <2>1, LeaveType, AnnounceType, DisruptType
      DEF FinishUnrecorded, TypeOK, QueueTypeOK, RequestIsWhole
  <1>3. CASE FailUnrecorded(w)
    BY <1>0, <1>1, <1>3, LeaveType, AnnounceType, DisruptType
    DEF FailUnrecorded, TypeOK, QueueTypeOK, RequestIsWhole
  <1>4. CASE Panic(w)
    BY <1>0, <1>4, LeaveType, DisruptType DEF Panic, TypeOK, QueueTypeOK, RequestIsWhole
  <1>5. CASE ClaimUnanswered(w)
    <2>1. QueueTypeOK'
      BY <1>5, ClaimType DEF ClaimUnanswered, TypeOK
    <2>2. QED
      BY <1>0, <1>5, <2>1, LeaveType, DisruptType DEF ClaimUnanswered, TypeOK, RequestIsWhole
  <1>6. CASE RequeueUnanswered(w)
    <2>1. IsBusy(w)
      BY <1>6 DEF RequeueUnanswered, Running, IsBusy, Busy
    <2>2. QueueTypeOK'
      BY <1>1, <1>6, <2>1, RequeuedType DEF RequeueUnanswered, TypeOK, QueueTypeOK
    <2>3. QED
      BY <1>0, <1>1, <1>6, <2>1, <2>2, LeaveType, AnnounceType, DisruptType
      DEF RequeueUnanswered, TypeOK, RequestIsWhole
  <1>7. QED
    BY <1>2, <1>3, <1>4, <1>5, <1>6 DEF WorkerFault

LEMMA OperatorType ==
    ASSUME TypeInv, Operator \/ ApiStep
    PROVE  TypeInv'
  <1> USE DEF TypeInv
  <1>1. ASSUME NEW work \in Work, Enqueue(work)
        PROVE  TypeInv'
    <2>1. QueueTypeOK'
      BY <1>1, InsertType DEF Enqueue, TypeOK
    <2>2. QED
      BY <1>1, <2>1 DEF Enqueue, TypeOK, HolderHasJob, RequestIsWhole, IsBusy
  <1>2. ASSUME NEW j \in JobId, CancelRead(j)
        PROVE  TypeInv'
    BY <1>2 DEF CancelRead, TypeOK, QueueTypeOK, HolderHasJob, RequestIsWhole, IsBusy
  <1>3. ASSUME NEW j \in JobId, RetryRead(j)
        PROVE  TypeInv'
    <2>1. job[j].work \in Work
      BY <1>3 DEF RetryRead, IsTerminal, Terminal, TypeOK, QueueTypeOK, Row
    <2>2. QED
      BY <1>3, <2>1 DEF RetryRead, TypeOK, QueueTypeOK, HolderHasJob, RequestIsWhole, IsBusy
  <1>4. CASE CancelWrite
    <2>1. QueueTypeOK'
      BY <1>4, EndedType DEF CancelWrite, TypeOK, QueueTypeOK, RequestIsWhole, Terminal
    <2>2. QED
      BY <1>4, <2>1 DEF CancelWrite, NoRequest, TypeOK, HolderHasJob, RequestIsWhole, IsBusy
  <1>5. CASE RetryWrite
    <2>1. QueueTypeOK'
      BY <1>5, InsertType DEF RetryWrite, TypeOK, RequestIsWhole
    <2>2. QED
      BY <1>5, <2>1 DEF RetryWrite, NoRequest, TypeOK, HolderHasJob, RequestIsWhole, IsBusy
  <1>6. CASE Abandon
    BY <1>6 DEF Abandon, NoRequest, TypeOK, QueueTypeOK, HolderHasJob, RequestIsWhole, IsBusy
  <1>7. QED
    BY <1>1, <1>2, <1>3, <1>4, <1>5, <1>6 DEF Operator, ApiStep

LEMMA SystemType ==
    ASSUME TypeInv,
           \/ Recover \/ Prune \/ Tick
           \/ BeginDrain \/ ProcessStep \/ ReleaseUnrecorded \/ Crash
    PROVE  TypeInv'
  <1> USE DEF TypeInv
  <1>0. {"stopped", "polling"} \subseteq Pc \ Busy
    BY DEF Pc, Busy
  <1>1. CASE Recover
    <2>1. QueueTypeOK'
      BY <1>1, RecoveredType DEF Recover, TypeOK, QueueTypeOK
    <2>2. QED
      BY <1>1, <2>1 DEF Recover, TypeOK, HolderHasJob, RequestIsWhole, IsBusy
  <1>2. CASE Prune
    <2>1. QueueTypeOK'
      BY <1>2, PrunedType DEF Prune, TypeOK, QueueTypeOK
    <2>2. QED
      BY <1>2, <2>1 DEF Prune, TypeOK, HolderHasJob, RequestIsWhole, IsBusy
  <1>3. CASE Tick
    <2>1. QueueTypeOK'
      BY <1>3, AgedType DEF Tick, TypeOK, QueueTypeOK
    <2>2. ASSUME NEW w \in Worker
          PROVE  /\ worker'[w] \in [pc : Pc, job : JobId \cup {NoJob}, elapsed : 0..MaxRun]
                 /\ worker'[w].pc = worker[w].pc /\ worker'[w].job = worker[w].job
      <3>1. worker[w] \in [pc : Pc, job : JobId \cup {NoJob}, elapsed : 0..MaxRun]
        BY DEF TypeOK
      <3>2. CASE IsBusy(w)
        <4>1. worker[w].elapsed + 1 \in 0..MaxRun
          BY <1>3, <3>1, <3>2 DEF Tick
        <4>2. worker'[w] = [worker[w] EXCEPT !.elapsed = worker[w].elapsed + 1]
          BY <1>3, <3>2 DEF Tick
        <4>3. QED
          BY <3>1, <4>1, <4>2
      <3>3. CASE ~IsBusy(w)
        BY <1>3, <3>1, <3>3 DEF Tick
      <3>4. QED
        BY <3>2, <3>3
    <2>3. worker' \in [Worker -> [pc : Pc, job : JobId \cup {NoJob}, elapsed : 0..MaxRun]]
      BY <1>3, <2>2 DEF Tick
    <2>4. HolderHasJob'
      BY <2>2 DEF HolderHasJob, IsBusy
    <2>5. QED
      BY <1>3, <2>1, <2>3, <2>4 DEF Tick, TypeOK, RequestIsWhole
  <1>4. CASE BeginDrain
    BY <1>4, DisruptType
    DEF BeginDrain, TypeOK, QueueTypeOK, HolderHasJob, RequestIsWhole, IsBusy, Phase
  <1>5. CASE Joined
    BY <1>5 DEF Joined, TypeOK, QueueTypeOK, HolderHasJob, RequestIsWhole, IsBusy, Phase
  <1>6. CASE AbortAll
    BY <1>0, <1>6, EveryoneType DEF AbortAll, TypeOK, QueueTypeOK, RequestIsWhole, Phase
  <1>7. CASE Release
    <2>1. QueueTypeOK'
      BY <1>7, RecoveredType DEF Release, TypeOK, QueueTypeOK
    <2>2. QED
      BY <1>7, <2>1 DEF Release, TypeOK, HolderHasJob, RequestIsWhole, IsBusy, Phase
  <1>8. CASE Start
    <2>1. QueueTypeOK'
      BY <1>8, RecoveredType DEF Start, TypeOK, QueueTypeOK
    <2>2. QED
      BY <1>0, <1>8, <2>1, EveryoneType DEF Start, TypeOK, RequestIsWhole, Phase
  <1>9. CASE ReleaseUnrecorded
    BY <1>9, DisruptType
    DEF ReleaseUnrecorded, TypeOK, QueueTypeOK, HolderHasJob, RequestIsWhole, IsBusy, Phase
  <1>10. CASE Crash
    BY <1>0, <1>10, DisruptType, EveryoneType
    DEF Crash, NoRequest, TypeOK, QueueTypeOK, RequestIsWhole, Phase
  <1>11. QED
    BY <1>1, <1>2, <1>3, <1>4, <1>5, <1>6, <1>7, <1>8, <1>9, <1>10 DEF ProcessStep

LEMMA TypeStep == TypeInv /\ [Next]_vars => TypeInv'
  <1> SUFFICES ASSUME TypeInv, [Next]_vars PROVE TypeInv'
    OBVIOUS
  <1>1. CASE Next
    BY <1>1, WorkerType, FaultType, OperatorType, SystemType DEF Next
  <1>2. CASE UNCHANGED vars
    BY <1>2 DEF vars, TypeInv, TypeOK, QueueTypeOK, HolderHasJob, RequestIsWhole, IsBusy
  <1>3. QED
    BY <1>1, <1>2

LEMMA TypesHold == Spec => []TypeInv
  BY TypeInit, TypeStep, PTL DEF Spec

\* Every variable keeps its type in every run of the pool, whatever the delays: a row that
\* exists has a work, exactly the running rows are locked, and no distance in time leaves
\* the range in which the statements of queue.rs tell its values apart.
THEOREM TypeCorrect == Spec => []TypeOK
  BY TypesHold, PTL DEF TypeInv

-----------------------------------------------------------------------------
(* What a statement does to each row, in the columns the invariants read. *)

LEMMA InsertRow ==
    ASSUME QueueTypeOK, NEW work \in Work, NEW origin \in JobId \cup {NoJob},
           Insert(work, origin), NEW k \in JobId
    PROVE  \/ job'[k] = job[k]
           \/ /\ job[k].state = "unborn"
              /\ job'[k].state = "queued" /\ job'[k].work = work /\ job'[k].attempts = 0
  BY DEF QueueTypeOK, Insert, Blank

LEMMA ClaimRow ==
    ASSUME QueueTypeOK, NEW j \in JobId, NEW w \in Worker, Claim(j, w)
    PROVE  /\ job[j].state = "queued"
           /\ job'[j].state = "running" /\ job'[j].lockedBy = w /\ job'[j].lockAge = 0
           /\ job'[j].work = job[j].work /\ job'[j].attempts = job[j].attempts + 1
           /\ \A k \in JobId : k # j => job'[k] = job[k]
  <1>1. job[j] \in Columns
    BY DEF QueueTypeOK, Row
  <1>2. job' = [job EXCEPT ![j] = [job[j] EXCEPT !.state = "running", !.lockedBy = w,
                                       !.lockAge = 0, !.attempts = job[j].attempts + 1]]
    BY DEF Claim
  <1>3. job'[j] = [job[j] EXCEPT !.state = "running", !.lockedBy = w,
                                 !.lockAge = 0, !.attempts = job[j].attempts + 1]
    BY <1>2 DEF QueueTypeOK
  <1>4. QED
    BY <1>1, <1>2, <1>3 DEF QueueTypeOK, Columns, Claim, Claimable

LEMMA EndedRow ==
    ASSUME QueueTypeOK, NEW j \in JobId, NEW s \in Terminal, NEW k \in JobId
    PROVE  \/ Ended(j, s)[k] = job[k] /\ (k = j => ~Exists(j))
           \/ /\ k = j /\ Exists(j)
              /\ Ended(j, s)[k].state = s
              /\ Ended(j, s)[k].work = job[k].work /\ Ended(j, s)[k].attempts = job[k].attempts
  <1>1. job[j] \in Columns
    BY DEF QueueTypeOK, Row
  <1>2. QED
    BY <1>1 DEF QueueTypeOK, Ended, Columns

LEMMA RequeuedRow ==
    ASSUME QueueTypeOK, NEW j \in JobId, NEW k \in JobId
    PROVE  \/ Requeued(j)[k] = job[k] /\ (k = j => ~Exists(j))
           \/ /\ k = j /\ Exists(j)
              /\ Requeued(j)[k].state = "queued"
              /\ Requeued(j)[k].work = job[k].work /\ Requeued(j)[k].attempts = job[k].attempts
  <1>1. job[j] \in Columns
    BY DEF QueueTypeOK, Row
  <1>2. QED
    BY <1>1 DEF QueueTypeOK, Requeued, Columns

LEMMA RecoveredRow ==
    ASSUME QueueTypeOK, NEW older, NEW k \in JobId
    PROVE  \/ /\ Recovered(older)[k] = job[k]
              /\ job[k].state = "running" => ~(job[k].lockAge > older)
           \/ /\ job[k].state = "running" /\ job[k].lockAge > older
              /\ Recovered(older)[k].state = "queued"
              /\ Recovered(older)[k].work = job[k].work
              /\ Recovered(older)[k].attempts = job[k].attempts
  <1>1. job[k] \in Columns
    BY DEF QueueTypeOK, Row
  <1>2. QED
    BY <1>1 DEF QueueTypeOK, Recovered, Columns

LEMMA PrunedRow ==
    ASSUME QueueTypeOK, NEW k \in JobId
    PROVE  \/ Pruned[k] = job[k]
           \/ /\ job[k].state \in {"succeeded", "cancelled"}
              /\ Pruned[k].state = "gone"
  BY DEF QueueTypeOK, Pruned, Blank

LEMMA AgedRow ==
    ASSUME QueueTypeOK, NEW k \in JobId
    PROVE  /\ Aged[k].state = job[k].state /\ Aged[k].work = job[k].work
           /\ Aged[k].attempts = job[k].attempts /\ Aged[k].lockedBy = job[k].lockedBy
           /\ job[k].state = "running" => Aged[k].lockAge = Later(job[k].lockAge, StaleAfter)
  <1>1. job[k] \in Columns
    BY DEF QueueTypeOK, Row
  <1>2. QED
    BY <1>1 DEF QueueTypeOK, Aged, Columns

-----------------------------------------------------------------------------
(* The safety invariant.  Three kinds of step: a worker leaves its job, the *)
(* workers stay and rows change around them, all the workers go.            *)

LEMMA Predecessor ==
    \A x, y \in Nat : x - 1 \in Int /\ (x <= y => x - 1 <= y - 1)
  OBVIOUS

LEMMA SufferedGrows ==
    ASSUME disruptions \in Nat, disruptions' \in Nat, disruptions <= disruptions',
           phase' = phase
    PROVE  Suffered <= Suffered' /\ Suffered \in Int /\ Suffered' \in Int
  <1>1. CASE phase = "draining"
    <2>1. Suffered = disruptions - 1 /\ Suffered' = disruptions' - 1
      BY <1>1 DEF Suffered
    <2>2. QED
      BY <2>1, Predecessor
  <1>2. CASE phase # "draining"
    <2>1. Suffered = disruptions /\ Suffered' = disruptions'
      BY <1>2 DEF Suffered
    <2>2. QED
      BY <2>1
  <1>3. QED
    BY <1>1, <1>2

LEMMA RowNumbers ==
    ASSUME TypeInv, NEW k \in JobId
    PROVE  /\ job[k].attempts \in Nat
           /\ Exists(k) => job[k].work \in Work /\ MaxAttempts[job[k].work] \in Nat \ {0}
           /\ job[k].state = "running" => job[k].lockAge \in Nat
  <1>1. job[k] \in Columns
    BY DEF TypeInv, TypeOK, QueueTypeOK, Row
  <1>2. Exists(k) => job[k].work \in Work
    BY DEF TypeInv, TypeOK, QueueTypeOK, Row, Exists
  <1>3. job[k].attempts \in Nat /\ job[k].lockAge \in 0..(StaleAfter + 1)
    BY <1>1 DEF Columns
  <1>4. job[k].lockAge \in Nat
    BY <1>3
  <1>5. Exists(k) => MaxAttempts[job[k].work] \in Nat \ {0}
    BY <1>2
  <1>6. QED
    BY <1>2, <1>3, <1>4, <1>5

\* A busy worker leaves its job, and the row is kept, ended or put back.
LEMMA LeaveSafety ==
    ASSUME TypeInv, Safety, NEW w \in Worker, IsBusy(w), NEW pc \in Pc \ Busy, Leave(w, pc),
           NEW i \in JobId, i = worker[w].job,
           \A k \in JobId : k # i => job'[k] = job[k],
           Exists(i)' => /\ Exists(i)
                         /\ job'[i].work = job[i].work /\ job'[i].attempts = job[i].attempts,
           IsLive(i)' => job[i].attempts < MaxAttempts[job[i].work] + Suffered',
           phase \in {"up", "draining"}, phase' = phase,
           disruptions' \in Nat, disruptions <= disruptions'
    PROVE  Safety'
  <1>1. /\ \A v \in Worker : v # w => worker'[v] = worker[v]
        /\ worker'[w].pc \notin Busy
    BY DEF TypeInv, TypeOK, Leave, At
  <1>2. \A v \in Worker : IsBusy(v)' => v # w /\ IsBusy(v) /\ worker'[v] = worker[v]
    BY <1>1 DEF IsBusy
  <1>3. \A v \in Worker : v # w /\ IsBusy(v) => worker[v].job # i /\ worker[v].job \in JobId
    BY <1>1 DEF Safety, OneHolder, Holds, TypeInv, HolderHasJob
  <1>4. HeldRowIsKept'
    BY <1>2, <1>3 DEF Safety, HeldRowIsKept, Exists
  <1>5. OneHolder'
    BY <1>2 DEF Safety, OneHolder, Holds
  <1>6. Suffered <= Suffered' /\ Suffered \in Int /\ Suffered' \in Int
    <2>1. disruptions \in Nat /\ disruptions' \in Nat
      BY DEF TypeInv, TypeOK
    <2>2. QED
      BY <2>1, SufferedGrows
  <1>7. ASSUME NEW k \in JobId, Exists(k)'
        PROVE  (job[k].attempts <= MaxAttempts[job[k].work] + Suffered)'
    <2>1. Exists(k) /\ job'[k].work = job[k].work /\ job'[k].attempts = job[k].attempts
      BY <1>7 DEF Exists
    <2>2. job[k].attempts \in Nat /\ MaxAttempts[job[k].work] \in Nat
      BY <2>1, RowNumbers
    <2>3. QED
      BY <1>6, <2>1, <2>2 DEF Safety, AttemptsAccounted
  <1>8. ASSUME NEW k \in JobId, IsLive(k)', \A v \in Worker : ~Holds(v, k)'
        PROVE  (job[k].attempts < MaxAttempts[job[k].work] + Suffered)'
    <2>1. Exists(k)'
      BY <1>8 DEF IsLive, Live, Exists
    <2>2. CASE k = i
      BY <1>8, <2>1, <2>2
    <2>3. CASE k # i
      <3>1. job'[k] = job[k] /\ \A v \in Worker : ~Holds(v, k)
        BY <1>1, <1>8, <2>3 DEF Holds, IsBusy
      <3>2. job[k].attempts \in Nat /\ MaxAttempts[job[k].work] \in Nat
        BY <2>1, <3>1, RowNumbers DEF Exists
      <3>3. QED
        BY <1>6, <1>8, <3>1, <3>2 DEF Safety, AttemptsAccounted, IsLive
    <2>4. QED
      BY <2>2, <2>3
  <1>9. AttemptsAccounted'
    BY <1>7, <1>8 DEF AttemptsAccounted, Safety, TypeInv, TypeOK
  <1>10. NobodyIsLeft' /\ DrainReleasesAll'
    BY DEF NobodyIsLeft, DrainReleasesAll
  <1>11. QED
    BY <1>4, <1>5, <1>9, <1>10 DEF Safety

\* Every worker stays where it is, and no row is claimed, lost to its worker or reopened.
LEMMA StaySafety ==
    ASSUME TypeInv, Safety, TypeInv',
           \A v \in Worker : worker'[v].pc = worker[v].pc /\ worker'[v].job = worker[v].job,
           \A v \in Worker : IsBusy(v) =>
              LET r == job'[worker[v].job]
              IN  /\ r.state \in {"running", "cancelled", "gone"}
                  /\ r.state = "running" =>
                        r.lockedBy = v /\ r.lockAge = worker'[v].elapsed,
           \A k \in JobId : Exists(k)' =>
              \/ Exists(k) /\ job'[k].work = job[k].work /\ job'[k].attempts = job[k].attempts
              \/ job'[k].attempts = 0 /\ job[k].state = "unborn",
           \A k \in JobId : IsLive(k)' => IsLive(k) \/ job[k].state = "unborn",
           \A k \in JobId : job'[k].state = "running" => job[k].state = "running",
           phase' = phase, disruptions' = disruptions
    PROVE  Safety'
  <1>1. \A v \in Worker : IsBusy(v)' <=> IsBusy(v)
    BY DEF IsBusy
  <1>2. \A v \in Worker, k \in JobId : Holds(v, k)' <=> Holds(v, k)
    BY <1>1 DEF Holds
  <1>3. HeldRowIsKept'
    <2> SUFFICES ASSUME NEW v \in Worker, IsBusy(v)
                 PROVE  /\ worker[v].pc = "requeueing" /\ Exists(worker[v].job)' =>
                              job'[worker[v].job].attempts
                                  < MaxAttempts[job'[worker[v].job].work]
                        /\ worker[v].job \in JobId
      BY <1>1 DEF HeldRowIsKept, Exists
    <2>1. worker[v].job \in JobId /\ job[worker[v].job].state # "unborn"
      BY DEF Safety, HeldRowIsKept
    <2>2. QED
      BY <2>1 DEF Safety, HeldRowIsKept
  <1>4. OneHolder' /\ NobodyIsLeft' /\ DrainReleasesAll'
    BY <1>1, <1>2 DEF Safety, OneHolder, NobodyIsLeft, DrainReleasesAll
  <1>5. /\ Suffered' = Suffered /\ Suffered \in Nat
        /\ phase' = "draining" => disruptions' > 0
    BY DEF Suffered, TypeInv, TypeOK, Safety, AttemptsAccounted
  <1>6. ASSUME NEW k \in JobId, Exists(k)'
        PROVE  /\ (job[k].attempts <= MaxAttempts[job[k].work] + Suffered)'
               /\ IsLive(k)' /\ (\A v \in Worker : ~Holds(v, k)') =>
                    (job[k].attempts < MaxAttempts[job[k].work] + Suffered)'
    <2>1. MaxAttempts[job'[k].work] \in Nat \ {0}
      <3>1. job'[k].work \in Work
        BY <1>6 DEF TypeInv, TypeOK, QueueTypeOK, Row, Exists
      <3>2. QED
        BY <3>1
    <2>2. CASE Exists(k) /\ job'[k].work = job[k].work /\ job'[k].attempts = job[k].attempts
      <3>1. IsLive(k)' => IsLive(k)
        BY <2>2 DEF Exists
      <3>2. job[k].attempts <= MaxAttempts[job[k].work] + Suffered
        BY <2>2 DEF Safety, AttemptsAccounted
      <3>3. ASSUME IsLive(k)', \A v \in Worker : ~Holds(v, k)'
            PROVE  job[k].attempts < MaxAttempts[job[k].work] + Suffered
        BY <1>2, <3>1, <3>3 DEF Safety, AttemptsAccounted
      <3>4. QED
        BY <1>5, <2>2, <3>2, <3>3
    <2>3. CASE job'[k].attempts = 0
      BY <1>5, <2>1, <2>3
    <2>4. QED
      BY <1>6, <2>2, <2>3
  <1>7. AttemptsAccounted'
    BY <1>5, <1>6 DEF AttemptsAccounted, IsLive, Live, Exists
  <1>8. QED
    BY <1>3, <1>4, <1>7 DEF Safety

\* Every worker is gone, and the rows are as they were or back in the queue.
LEMMA VacateSafety ==
    ASSUME TypeInv, Safety, TypeInv',
           \A v \in Worker : ~IsBusy(v)',
           \A k \in JobId :
              \/ job'[k] = job[k]
              \/ /\ job[k].state = "running" /\ job'[k].state = "queued"
                 /\ job'[k].work = job[k].work /\ job'[k].attempts = job[k].attempts,
           phase' # "draining",
           (\A v \in Worker : ~IsBusy(v)) \/ Suffered < Suffered',
           Suffered <= Suffered',
           phase' = "drained" => \A k \in JobId : job'[k].state # "running"
    PROVE  Safety'
  <1>1. HeldRowIsKept' /\ OneHolder' /\ NobodyIsLeft' /\ DrainReleasesAll'
    BY DEF HeldRowIsKept, OneHolder, Holds, NobodyIsLeft, DrainReleasesAll
  <1>2. Suffered \in Int /\ Suffered' \in Int
    BY DEF Suffered, TypeInv, TypeOK
  <1>3. ASSUME NEW k \in JobId, Exists(k)'
        PROVE  /\ (job[k].attempts <= MaxAttempts[job[k].work] + Suffered)'
               /\ IsLive(k)' => (job[k].attempts < MaxAttempts[job[k].work] + Suffered)'
    <2>1. /\ Exists(k) /\ (IsLive(k)' => IsLive(k))
          /\ job'[k].work = job[k].work /\ job'[k].attempts = job[k].attempts
      BY <1>3 DEF Exists, IsLive, Live
    <2>2. job[k].attempts \in Nat /\ MaxAttempts[job[k].work] \in Nat
      BY <2>1, RowNumbers
    <2>3. job[k].attempts <= MaxAttempts[job[k].work] + Suffered
      BY <2>1 DEF Safety, AttemptsAccounted
    <2>4. CASE Suffered < Suffered'
      BY <1>2, <2>1, <2>2, <2>3, <2>4
    <2>5. CASE \A v \in Worker : ~IsBusy(v)
      <3>1. IsLive(k)' => job[k].attempts < MaxAttempts[job[k].work] + Suffered
        BY <2>1, <2>5 DEF Safety, AttemptsAccounted, Holds
      <3>2. QED
        BY <1>2, <2>1, <2>2, <2>3, <3>1
    <2>6. QED
      BY <2>4, <2>5
  <1>4. AttemptsAccounted'
    BY <1>3 DEF AttemptsAccounted, IsLive, Live, Exists
  <1>5. QED
    BY <1>1, <1>4 DEF Safety

LEMMA SafetyInit == Init => Safety
  <1> SUFFICES ASSUME Init PROVE Safety
    OBVIOUS
  <1>1. /\ \A w \in Worker : ~IsBusy(w)
        /\ \A j \in JobId : ~Exists(j) /\ ~IsLive(j)
    BY DEF Init, QueueInit, Blank, Exists, IsLive, Live, IsBusy, Busy, Everyone, At
  <1>2. QED
    BY <1>1 DEF Init, Safety, HeldRowIsKept, NobodyIsLeft, OneHolder, Holds, AttemptsAccounted,
                DrainReleasesAll

\* Rows stay as they are while a worker moves on, within its job or outside any.
LEMMA MoveSafety ==
    ASSUME TypeInv, Safety, UNCHANGED <<job, phase, disruptions>>,
           \A v \in Worker :
              /\ IsBusy(v)' <=> IsBusy(v)
              /\ IsBusy(v) => /\ worker'[v].job = worker[v].job
                              /\ worker'[v].elapsed = worker[v].elapsed
              /\ worker'[v].pc = "requeueing" /\ Exists(worker[v].job) =>
                    \/ worker[v].pc = "requeueing"
                    \/ job[worker[v].job].attempts < MaxAttempts[job[worker[v].job].work]
    PROVE  Safety'
  <1>1. \A v \in Worker, k \in JobId : Holds(v, k)' <=> Holds(v, k)
    BY DEF Holds
  <1>2. HeldRowIsKept'
    <2> SUFFICES ASSUME NEW v \in Worker, IsBusy(v)
                 PROVE  /\ worker[v].job \in JobId
                        /\ job[worker[v].job].state \in {"running", "cancelled", "gone"}
                        /\ job[worker[v].job].state = "running" =>
                              /\ job[worker[v].job].lockedBy = v
                              /\ job[worker[v].job].lockAge = worker[v].elapsed
                        /\ worker'[v].pc = "requeueing" /\ Exists(worker[v].job) =>
                              job[worker[v].job].attempts
                                  < MaxAttempts[job[worker[v].job].work]
      BY DEF HeldRowIsKept, Exists
    <2>1. QED
      BY DEF Safety, HeldRowIsKept
  <1>3. OneHolder' /\ NobodyIsLeft' /\ DrainReleasesAll'
    BY <1>1 DEF Safety, OneHolder, NobodyIsLeft, DrainReleasesAll
  <1>4. AttemptsAccounted'
    BY <1>1 DEF Safety, AttemptsAccounted, Suffered, Exists, IsLive
  <1>5. QED
    BY <1>2, <1>3, <1>4 DEF Safety

LEMMA ClaimSafety ==
    ASSUME TypeInv, Safety, NEW w \in Worker, ClaimJob(w)
    PROVE  Safety'
  <1>1. PICK j \in JobId :
           /\ Claim(j, w)
           /\ worker' = [worker EXCEPT ![w] = [pc |-> "handling", job |-> j, elapsed |-> 0]]
    BY DEF ClaimJob
  <1>2. /\ job[j].state = "queued"
        /\ job'[j].state = "running" /\ job'[j].lockedBy = w /\ job'[j].lockAge = 0
        /\ job'[j].work = job[j].work /\ job'[j].attempts = job[j].attempts + 1
        /\ \A k \in JobId : k # j => job'[k] = job[k]
    BY <1>1, ClaimRow DEF TypeInv, TypeOK
  <1>3. /\ worker'[w] = [pc |-> "handling", job |-> j, elapsed |-> 0]
        /\ \A v \in Worker : v # w => worker'[v] = worker[v]
        /\ ~IsBusy(w)
    BY <1>1 DEF TypeInv, TypeOK, ClaimJob, Running, IsBusy, Busy
  <1>4. \A v \in Worker : IsBusy(v) => worker[v].job # j /\ worker[v].job \in JobId
    BY <1>2 DEF Safety, HeldRowIsKept
  <1>5. \A v \in Worker : IsBusy(v)' => v = w \/ (v # w /\ IsBusy(v) /\ worker'[v] = worker[v])
    BY <1>3 DEF IsBusy
  <1>6. HeldRowIsKept'
    <2> SUFFICES ASSUME NEW v \in Worker, IsBusy(v)'
                 PROVE  /\ worker'[v].job \in JobId
                        /\ job'[worker'[v].job].state \in {"running", "cancelled", "gone"}
                        /\ job'[worker'[v].job].state = "running" =>
                              /\ job'[worker'[v].job].lockedBy = v
                              /\ job'[worker'[v].job].lockAge = worker'[v].elapsed
                        /\ worker'[v].pc = "requeueing" /\ Exists(worker[v].job)' =>
                              job'[worker'[v].job].attempts
                                  < MaxAttempts[job'[worker'[v].job].work]
      BY DEF HeldRowIsKept, Exists
    <2>1. CASE v = w
      BY <1>2, <1>3, <2>1
    <2>2. CASE v # w
      <3>1. IsBusy(v) /\ worker'[v] = worker[v] /\ job'[worker[v].job] = job[worker[v].job]
        BY <1>2, <1>4, <1>5, <2>2
      <3>2. QED
        BY <3>1 DEF Safety, HeldRowIsKept, Exists
    <2>3. QED
      BY <2>1, <2>2
  <1>7. OneHolder'
    BY <1>3, <1>4, <1>5 DEF Safety, OneHolder, Holds
  <1>8. UNCHANGED <<phase, disruptions>> /\ phase \in {"up", "draining"}
    BY DEF ClaimJob, Running
  <1>9. NobodyIsLeft' /\ DrainReleasesAll'
    BY <1>8 DEF NobodyIsLeft, DrainReleasesAll
  <1>10. Suffered' = Suffered /\ Suffered \in Int
    BY <1>8 DEF Suffered, TypeInv, TypeOK
  <1>11. Holds(w, j)'
    BY <1>3 DEF Holds, IsBusy, Busy
  <1>12. ASSUME NEW k \in JobId, Exists(k)'
         PROVE  /\ (job[k].attempts <= MaxAttempts[job[k].work] + Suffered)'
                /\ IsLive(k)' /\ (\A v \in Worker : ~Holds(v, k)') =>
                     (job[k].attempts < MaxAttempts[job[k].work] + Suffered)'
    <2>1. CASE k = j
      <3>1. \A v \in Worker : ~Holds(v, j)
        BY <1>4 DEF Holds
      <3>2. IsLive(j) /\ Exists(j)
        BY <1>2 DEF IsLive, Live, Exists
      <3>3. job[j].attempts < MaxAttempts[job[j].work] + Suffered
        BY <3>1, <3>2 DEF Safety, AttemptsAccounted
      <3>4. job[j].attempts \in Nat /\ MaxAttempts[job[j].work] \in Nat
        BY <3>2, RowNumbers
      <3>5. job'[j].attempts <= MaxAttempts[job'[j].work] + Suffered'
        BY <1>2, <1>10, <3>3, <3>4
      <3>6. QED
        BY <1>11, <2>1, <3>5
    <2>2. CASE k # j
      <3>1. job'[k] = job[k] /\ Exists(k)
        BY <1>2, <1>12, <2>2 DEF Exists
      <3>2. (\A v \in Worker : ~Holds(v, k)') => \A v \in Worker : ~Holds(v, k)
        BY <1>3 DEF Holds, IsBusy
      <3>3. QED
        BY <1>10, <3>1, <3>2 DEF Safety, AttemptsAccounted, IsLive
    <2>3. QED
      BY <2>1, <2>2
  <1>13. AttemptsAccounted'
    BY <1>8, <1>12 DEF AttemptsAccounted, Safety, IsLive, Live, Exists
  <1>14. QED
    BY <1>6, <1>7, <1>9, <1>13 DEF Safety

\* A disruption makes up for one attempt.
LEMMA OneMoreSuffered ==
    ASSUME disruptions \in Nat, disruptions' = disruptions + 1, phase' = phase
    PROVE  Suffered < Suffered'
  BY DEF Suffered

LEMMA WorkerSafety ==
    ASSUME TypeInv, Safety, NEW w \in Worker, WorkerStep(w)
    PROVE  Safety'
  <1>0. PICK i : i = worker[w].job
    OBVIOUS
  <1>1. "polling" \in Pc \ Busy /\ disruptions \in Nat
    BY DEF Pc, Busy, TypeInv, TypeOK
  <1>2. IsBusy(w) => i \in JobId
    BY <1>0 DEF TypeInv, HolderHasJob
  <1>3. CASE Poll(w)
    <2>1. \A v \in Worker : v # w => worker'[v] = worker[v]
      BY <1>3 DEF Poll, Advance, TypeInv, TypeOK
    <2>2. ~IsBusy(w) /\ ~IsBusy(w)' /\ worker'[w].pc # "requeueing"
      BY <1>3 DEF Poll, Running, Advance, IsBusy, Busy, TypeInv, TypeOK
    <2>3. QED
      BY <1>3, <2>1, <2>2, MoveSafety DEF Poll, IsBusy
  <1>4. CASE ClaimJob(w)
    BY <1>4, ClaimSafety
  <1>5. CASE ClaimNothing(w)
    <2>1. \A v \in Worker : v # w => worker'[v] = worker[v]
      BY <1>5 DEF ClaimNothing, Leave, TypeInv, TypeOK
    <2>2. ~IsBusy(w) /\ ~IsBusy(w)' /\ worker'[w].pc # "requeueing"
      BY <1>5 DEF ClaimNothing, Running, Leave, At, IsBusy, Busy, TypeInv, TypeOK
    <2>3. QED
      BY <1>5, <2>1, <2>2, MoveSafety DEF ClaimNothing, IsBusy
  <1>6. CASE Finish(w)
    <2>1. IsBusy(w) /\ i \in JobId
      BY <1>2, <1>6 DEF Finish, Running, IsBusy, Busy
    <2>2. \A k \in JobId :
             \/ job'[k] = job[k] /\ (k = i => ~Exists(i))
             \/ /\ k = i /\ Exists(i) /\ job'[k].state = "succeeded"
                /\ job'[k].work = job[k].work /\ job'[k].attempts = job[k].attempts
      BY <1>0, <1>6, <2>1, EndedRow DEF Finish, Terminal, TypeInv, TypeOK
    <2>3. ~IsLive(i)'
      BY <2>1, <2>2 DEF IsLive, Live, Exists
    <2>4. QED
      BY <1>0, <1>1, <1>6, <2>1, <2>2, <2>3, LeaveSafety DEF Finish, Running, Exists
  <1>7. ASSUME NEW retryable \in BOOLEAN, ReadFailed(w, retryable)
        PROVE  Safety'
    <2>1. /\ \A v \in Worker : v # w => worker'[v] = worker[v]
          /\ worker'[w].job = worker[w].job /\ worker'[w].elapsed = worker[w].elapsed
          /\ worker'[w].pc = IF Exhausted(i, retryable) THEN "exhausting" ELSE "requeueing"
      BY <1>0, <1>7 DEF ReadFailed, Advance, TypeInv, TypeOK
    <2>2. IsBusy(w) /\ IsBusy(w)'
      BY <1>7, <2>1 DEF ReadFailed, Running, IsBusy, Busy
    <2>3. ~Exhausted(i, retryable) => job[i].attempts < MaxAttempts[job[i].work]
      <3>1. job[i].attempts \in Nat /\ MaxAttempts[job[i].work] \in Nat
        BY <1>0, <1>2, <1>7, <2>2, RowNumbers DEF ReadFailed
      <3>2. QED
        BY <3>1 DEF Exhausted
    <2>4. QED
      BY <1>0, <1>7, <2>1, <2>2, <2>3, MoveSafety DEF ReadFailed, IsBusy
  <1>8. CASE ReadNothing(w)
    <2>1. IsBusy(w) /\ i \in JobId
      BY <1>2, <1>8 DEF ReadNothing, Running, IsBusy, Busy
    <2>2. UNCHANGED job /\ ~Exists(i)' /\ ~IsLive(i)'
      BY <1>0, <1>8 DEF ReadNothing, Exists, IsLive, Live
    <2>3. QED
      BY <1>0, <1>1, <1>8, <2>1, <2>2, LeaveSafety DEF ReadNothing, Running
  <1>9. CASE Exhaust(w)
    <2>1. IsBusy(w) /\ i \in JobId
      BY <1>2, <1>9 DEF Exhaust, Running, IsBusy, Busy
    <2>2. \A k \in JobId :
             \/ job'[k] = job[k] /\ (k = i => ~Exists(i))
             \/ /\ k = i /\ Exists(i) /\ job'[k].state = "failed"
                /\ job'[k].work = job[k].work /\ job'[k].attempts = job[k].attempts
      BY <1>0, <1>9, <2>1, EndedRow DEF Exhaust, Terminal, TypeInv, TypeOK
    <2>3. ~IsLive(i)'
      BY <2>1, <2>2 DEF IsLive, Live, Exists
    <2>4. QED
      BY <1>0, <1>1, <1>9, <2>1, <2>2, <2>3, LeaveSafety DEF Exhaust, Running, Exists
  <1>10. CASE Requeue(w)
    <2>1. IsBusy(w) /\ i \in JobId
      BY <1>2, <1>10 DEF Requeue, Running, IsBusy, Busy
    <2>2. \A k \in JobId :
             \/ job'[k] = job[k] /\ (k = i => ~Exists(i))
             \/ /\ k = i /\ Exists(i)
                /\ job'[k].work = job[k].work /\ job'[k].attempts = job[k].attempts
      BY <1>0, <1>10, <2>1, RequeuedRow DEF Requeue, TypeInv, TypeOK
    <2>3. IsLive(i)' => job[i].attempts < MaxAttempts[job[i].work] + Suffered'
      <3>1. ASSUME Exists(i)
            PROVE  job[i].attempts < MaxAttempts[job[i].work] + Suffered'
        <4>1. job[i].attempts < MaxAttempts[job[i].work]
          BY <1>0, <1>10, <2>1, <3>1 DEF Requeue, Running, Safety, HeldRowIsKept
        <4>2. Suffered' \in Nat
          BY <1>1, <1>10 DEF Requeue, Suffered, Safety, AttemptsAccounted
        <4>3. job[i].attempts \in Nat /\ MaxAttempts[job[i].work] \in Nat
          BY <2>1, <3>1, RowNumbers
        <4>4. QED
          BY <4>1, <4>2, <4>3
      <3>2. IsLive(i)' => Exists(i)
        BY <2>1, <2>2 DEF IsLive, Live, Exists
      <3>3. QED
        BY <3>1, <3>2
    <2>4. QED
      BY <1>0, <1>1, <1>10, <2>1, <2>2, <2>3, LeaveSafety DEF Requeue, Running, Exists
  <1>11. QED
    BY <1>3, <1>4, <1>5, <1>6, <1>7, <1>8, <1>9, <1>10 DEF WorkerStep

LEMMA LostWorkSafety ==
    ASSUME TypeInv, Safety, NEW w \in Worker,
           FinishUnrecorded(w) \/ FailUnrecorded(w) \/ Panic(w)
    PROVE  Safety'
  <1>0. PICK i : i = worker[w].job
    OBVIOUS
  <1>1. /\ IsBusy(w) /\ phase \in {"up", "draining"} /\ UNCHANGED <<job, phase>>
        /\ disruptions' = disruptions + 1
        /\ \E pc \in {"polling", "dead"} : Leave(w, pc)
    BY DEF FinishUnrecorded, FailUnrecorded, Panic, Running, Disrupt, IsBusy, Busy
  <1>2. i \in JobId /\ disruptions \in Nat /\ {"polling", "dead"} \subseteq Pc \ Busy
    BY <1>0, <1>1 DEF TypeInv, TypeOK, HolderHasJob, Pc, Busy
  <1>3. Suffered < Suffered' /\ Suffered \in Int /\ Suffered' \in Int
    BY <1>1, <1>2, OneMoreSuffered DEF Suffered
  <1>4. IsLive(i) => job[i].attempts < MaxAttempts[job[i].work] + Suffered'
    <2>1. IsLive(i) => Exists(i)
      BY DEF IsLive, Live, Exists
    <2>2. Exists(i) => job[i].attempts <= MaxAttempts[job[i].work] + Suffered
      BY <1>2 DEF Safety, AttemptsAccounted
    <2>3. Exists(i) => job[i].attempts \in Nat /\ MaxAttempts[job[i].work] \in Nat
      BY <1>2, RowNumbers
    <2>4. QED
      BY <1>3, <2>1, <2>2, <2>3
  <1>5. UNCHANGED job => (IsLive(i)' <=> IsLive(i)) /\ (Exists(i)' <=> Exists(i))
    BY DEF IsLive, Exists
  <1>6. QED
    BY <1>0, <1>1, <1>2, <1>4, <1>5, LeaveSafety

LEMMA RequeueUnansweredSafety ==
    ASSUME TypeInv, Safety, NEW w \in Worker, RequeueUnanswered(w)
    PROVE  Safety'
  <1>0. PICK i : i = worker[w].job
    OBVIOUS
  <1>1. /\ IsBusy(w) /\ worker[w].pc = "requeueing" /\ phase \in {"up", "draining"}
        /\ UNCHANGED phase /\ disruptions' = disruptions + 1 /\ Leave(w, "polling")
        /\ job' = Requeued(i)
    BY <1>0 DEF RequeueUnanswered, Running, Disrupt, IsBusy, Busy
  <1>2. i \in JobId /\ disruptions \in Nat /\ "polling" \in Pc \ Busy
    BY <1>0, <1>1 DEF TypeInv, TypeOK, HolderHasJob, Pc, Busy
  <1>3. \A k \in JobId :
           \/ job'[k] = job[k] /\ (k = i => ~Exists(i))
           \/ /\ k = i /\ Exists(i)
              /\ job'[k].work = job[k].work /\ job'[k].attempts = job[k].attempts
    BY <1>1, <1>2, RequeuedRow DEF TypeInv, TypeOK
  <1>4. Suffered' \in Nat
    BY <1>1, <1>2 DEF Suffered
  <1>5. Exists(i) => job[i].attempts < MaxAttempts[job[i].work] + Suffered'
    <2>1. Exists(i) => job[i].attempts < MaxAttempts[job[i].work]
      BY <1>0, <1>1, <1>2 DEF Safety, HeldRowIsKept
    <2>2. Exists(i) => job[i].attempts \in Nat /\ MaxAttempts[job[i].work] \in Nat
      BY <1>2, RowNumbers
    <2>3. QED
      BY <1>4, <2>1, <2>2
  <1>6. (IsLive(i)' => Exists(i)) /\ (Exists(i)' => Exists(i))
    BY <1>2, <1>3 DEF IsLive, Live, Exists
  <1>7. QED
    BY <1>0, <1>1, <1>2, <1>3, <1>5, <1>6, LeaveSafety

\* The row is running and nobody runs it: the attempt is charged to the disruption.
LEMMA ClaimUnansweredSafety ==
    ASSUME TypeInv, Safety, NEW w \in Worker, ClaimUnanswered(w)
    PROVE  Safety'
  <1>1. PICK j \in JobId : Claim(j, w)
    BY DEF ClaimUnanswered
  <1>2. /\ job[j].state = "queued"
        /\ job'[j].work = job[j].work /\ job'[j].attempts = job[j].attempts + 1
        /\ \A k \in JobId : k # j => job'[k] = job[k]
    BY <1>1, ClaimRow DEF TypeInv, TypeOK
  <1>3. \A v \in Worker : /\ IsBusy(v)' <=> IsBusy(v)
                          /\ IsBusy(v) => worker'[v] = worker[v]
    BY DEF ClaimUnanswered, Running, Leave, At, IsBusy, Busy, TypeInv, TypeOK
  <1>4. \A v \in Worker : IsBusy(v) => worker[v].job # j /\ worker[v].job \in JobId
    BY <1>2 DEF Safety, HeldRowIsKept
  <1>5. \A v \in Worker, k \in JobId : Holds(v, k)' <=> Holds(v, k)
    BY <1>3 DEF Holds
  <1>6. HeldRowIsKept'
    BY <1>2, <1>3, <1>4 DEF Safety, HeldRowIsKept, Exists
  <1>7. UNCHANGED phase /\ phase \in {"up", "draining"} /\ disruptions' = disruptions + 1
    BY DEF ClaimUnanswered, Running, Disrupt
  <1>8. OneHolder' /\ NobodyIsLeft' /\ DrainReleasesAll'
    BY <1>5, <1>7 DEF Safety, OneHolder, NobodyIsLeft, DrainReleasesAll
  <1>9. Suffered' = Suffered + 1 /\ Suffered \in Nat /\ disruptions \in Nat
    BY <1>7 DEF Suffered, TypeInv, TypeOK, Safety, AttemptsAccounted
  <1>10. ASSUME NEW k \in JobId, Exists(k)'
         PROVE  /\ (job[k].attempts <= MaxAttempts[job[k].work] + Suffered)'
                /\ IsLive(k)' /\ (\A v \in Worker : ~Holds(v, k)') =>
                     (job[k].attempts < MaxAttempts[job[k].work] + Suffered)'
    <2>1. Exists(k) /\ job'[k].work = job[k].work
      BY <1>2, <1>10 DEF Exists
    <2>2. job[k].attempts \in Nat /\ MaxAttempts[job[k].work] \in Nat
      BY <2>1, RowNumbers
    <2>3. CASE k = j
      <3>1. IsLive(j) /\ \A v \in Worker : ~Holds(v, j)
        BY <1>2, <1>4 DEF IsLive, Live, Holds
      <3>2. job[j].attempts < MaxAttempts[job[j].work] + Suffered
        BY <3>1 DEF Safety, AttemptsAccounted
      <3>3. QED
        BY <1>2, <1>9, <2>2, <2>3, <3>2
    <2>4. CASE k # j
      <3>1. job'[k] = job[k]
        BY <1>2, <2>4
      <3>2. job[k].attempts <= MaxAttempts[job[k].work] + Suffered
        BY <2>1 DEF Safety, AttemptsAccounted
      <3>3. QED
        BY <1>9, <2>2, <3>1, <3>2
    <2>5. QED
      BY <2>3, <2>4
  <1>11. AttemptsAccounted'
    BY <1>7, <1>9, <1>10 DEF AttemptsAccounted, IsLive, Live, Exists
  <1>12. QED
    BY <1>6, <1>8, <1>11 DEF Safety

LEMMA FaultSafety ==
    ASSUME TypeInv, Safety, NEW w \in Worker, WorkerFault(w)
    PROVE  Safety'
  BY LostWorkSafety, RequeueUnansweredSafety, ClaimUnansweredSafety DEF WorkerFault

\* What a busy worker's row is in, for the steps that leave the workers alone.
LEMMA HeldRow ==
    ASSUME TypeInv, Safety, NEW w \in Worker, IsBusy(w)
    PROVE  /\ worker[w].job \in JobId
           /\ job[worker[w].job].state \in {"running", "cancelled", "gone"}
           /\ job[worker[w].job].state = "running" =>
                 /\ job[worker[w].job].lockedBy = w
                 /\ job[worker[w].job].lockAge = worker[w].elapsed
           /\ worker[w].elapsed \in 0..MaxRun
  BY DEF Safety, HeldRowIsKept, TypeInv, TypeOK

LEMMA OperatorSafety ==
    ASSUME TypeInv, Safety, TypeInv', Operator \/ ApiStep
    PROVE  Safety'
  <1>0. QueueTypeOK
    BY DEF TypeInv, TypeOK
  <1>1. UNCHANGED <<worker, phase, disruptions>>
    BY DEF Operator, ApiStep, Enqueue, CancelRead, RetryRead, Abandon, CancelWrite, RetryWrite
  <1>2. \A k \in JobId :
           \/ job'[k] = job[k]
           \/ job[k].state = "unborn" /\ job'[k].state = "queued" /\ job'[k].attempts = 0
           \/ /\ Exists(k) /\ job'[k].state = "cancelled"
              /\ job'[k].work = job[k].work /\ job'[k].attempts = job[k].attempts
    <2>1. ASSUME NEW work \in Work, Enqueue(work), NEW k \in JobId
          PROVE  \/ job'[k] = job[k]
                 \/ /\ job[k].state = "unborn"
                    /\ job'[k].state = "queued" /\ job'[k].attempts = 0
      BY <1>0, <2>1, InsertRow DEF Enqueue
    <2>2. CASE Abandon \/ \E j \in JobId : CancelRead(j) \/ RetryRead(j)
      BY <2>2 DEF CancelRead, RetryRead, Abandon
    <2>3. ASSUME CancelWrite, NEW k \in JobId
          PROVE  \/ job'[k] = job[k]
                 \/ /\ Exists(k) /\ job'[k].state = "cancelled"
                    /\ job'[k].work = job[k].work /\ job'[k].attempts = job[k].attempts
      <3>1. api.job \in JobId
        BY <2>3 DEF CancelWrite, TypeInv, RequestIsWhole
      <3>2. QED
        BY <1>0, <2>3, <3>1, EndedRow DEF CancelWrite, Terminal
    <2>4. ASSUME RetryWrite, NEW k \in JobId
          PROVE  \/ job'[k] = job[k]
                 \/ /\ job[k].state = "unborn"
                    /\ job'[k].state = "queued" /\ job'[k].attempts = 0
      <3>1. api.job \in JobId /\ api.work \in Work
        BY <2>4 DEF RetryWrite, TypeInv, RequestIsWhole
      <3>2. QED
        BY <1>0, <2>4, <3>1, InsertRow DEF RetryWrite
    <2>5. QED
      BY <2>1, <2>2, <2>3, <2>4 DEF Operator, ApiStep
  <1>3. ASSUME NEW v \in Worker, IsBusy(v)
        PROVE  LET r == job'[worker[v].job]
               IN  /\ r.state \in {"running", "cancelled", "gone"}
                   /\ r.state = "running" => r.lockedBy = v /\ r.lockAge = worker'[v].elapsed
    BY <1>1, <1>2, <1>3, HeldRow
  <1>4. \A k \in JobId : Exists(k)' =>
           \/ Exists(k) /\ job'[k].work = job[k].work /\ job'[k].attempts = job[k].attempts
           \/ job'[k].attempts = 0 /\ job[k].state = "unborn"
    BY <1>2 DEF Exists
  <1>5. \A k \in JobId : IsLive(k)' => IsLive(k) \/ job[k].state = "unborn"
    BY <1>2 DEF IsLive, Live
  <1>6. \A k \in JobId : job'[k].state = "running" => job[k].state = "running"
    BY <1>2
  <1>7. QED
    BY <1>1, <1>3, <1>4, <1>5, <1>6, StaySafety

\* The recovery spares the rows that are held, because a worker is done with a claim before
\* its lock is stale.
LEMMA RecoverSafety ==
    ASSUME MaxRun <= StaleAfter, TypeInv, Safety, TypeInv', Recover
    PROVE  Safety'
  <1>0. QueueTypeOK
    BY DEF TypeInv, TypeOK
  <1>1. UNCHANGED <<worker, phase, disruptions>> /\ job' = Recovered(StaleAfter)
    BY DEF Recover
  <1>2. \A k \in JobId :
           \/ job'[k] = job[k]
           \/ /\ job[k].state = "running" /\ job[k].lockAge > StaleAfter
              /\ job'[k].state = "queued"
              /\ job'[k].work = job[k].work /\ job'[k].attempts = job[k].attempts
    BY <1>0, <1>1, RecoveredRow
  <1>3. ASSUME NEW v \in Worker, IsBusy(v)
        PROVE  job'[worker[v].job] = job[worker[v].job]
    BY <1>2, <1>3, HeldRow
  <1>4. ASSUME NEW v \in Worker, IsBusy(v)
        PROVE  LET r == job'[worker[v].job]
               IN  /\ r.state \in {"running", "cancelled", "gone"}
                   /\ r.state = "running" => r.lockedBy = v /\ r.lockAge = worker'[v].elapsed
    BY <1>1, <1>3, <1>4, HeldRow
  <1>5. \A k \in JobId : Exists(k)' =>
           Exists(k) /\ job'[k].work = job[k].work /\ job'[k].attempts = job[k].attempts
    BY <1>2 DEF Exists
  <1>6. \A k \in JobId : IsLive(k)' => IsLive(k)
    BY <1>2 DEF IsLive, Live
  <1>7. \A k \in JobId : job'[k].state = "running" => job[k].state = "running"
    BY <1>2
  <1>8. QED
    BY <1>1, <1>4, <1>5, <1>6, <1>7, StaySafety

LEMMA PruneSafety ==
    ASSUME TypeInv, Safety, TypeInv', Prune
    PROVE  Safety'
  <1>0. QueueTypeOK
    BY DEF TypeInv, TypeOK
  <1>1. UNCHANGED <<worker, phase, disruptions>> /\ job' = Pruned
    BY DEF Prune
  <1>2. \A k \in JobId :
           \/ job'[k] = job[k]
           \/ job[k].state \in {"succeeded", "cancelled"} /\ job'[k].state = "gone"
    BY <1>0, <1>1, PrunedRow
  <1>3. ASSUME NEW v \in Worker, IsBusy(v)
        PROVE  LET r == job'[worker[v].job]
               IN  /\ r.state \in {"running", "cancelled", "gone"}
                   /\ r.state = "running" => r.lockedBy = v /\ r.lockAge = worker'[v].elapsed
    BY <1>1, <1>2, <1>3, HeldRow
  <1>4. \A k \in JobId : Exists(k)' => job'[k] = job[k] /\ Exists(k)
    BY <1>2 DEF Exists
  <1>5. \A k \in JobId : IsLive(k)' => IsLive(k)
    BY <1>2 DEF IsLive, Live
  <1>6. \A k \in JobId : job'[k].state = "running" => job[k].state = "running"
    BY <1>2
  <1>7. QED
    BY <1>1, <1>3, <1>4, <1>5, <1>6, StaySafety

\* A held lock and its worker age together.
LEMMA TickSafety ==
    ASSUME MaxRun <= StaleAfter, TypeInv, Safety, TypeInv', Tick
    PROVE  Safety'
  <1>0. QueueTypeOK
    BY DEF TypeInv, TypeOK
  <1>1. UNCHANGED <<phase, disruptions>> /\ job' = Aged
    BY DEF Tick
  <1>2. \A v \in Worker :
           /\ worker'[v].pc = worker[v].pc /\ worker'[v].job = worker[v].job
           /\ IsBusy(v) => worker'[v].elapsed = worker[v].elapsed + 1
    BY DEF Tick, TypeInv, TypeOK
  <1>3. \A k \in JobId :
           /\ job'[k].state = job[k].state /\ job'[k].work = job[k].work
           /\ job'[k].attempts = job[k].attempts /\ job'[k].lockedBy = job[k].lockedBy
           /\ job[k].state = "running" => job'[k].lockAge = Later(job[k].lockAge, StaleAfter)
    BY <1>0, <1>1, AgedRow
  <1>4. ASSUME NEW v \in Worker, IsBusy(v)
        PROVE  LET r == job'[worker[v].job]
               IN  /\ r.state \in {"running", "cancelled", "gone"}
                   /\ r.state = "running" => r.lockedBy = v /\ r.lockAge = worker'[v].elapsed
    <2>1. worker[v].elapsed \in 0..MaxRun /\ worker[v].elapsed < MaxRun
      BY <1>4, HeldRow DEF Tick
    <2>2. Later(worker[v].elapsed, StaleAfter) = worker[v].elapsed + 1
      BY <2>1 DEF Later
    <2>3. QED
      BY <1>2, <1>3, <1>4, <2>2, HeldRow
  <1>5. \A k \in JobId : (Exists(k)' <=> Exists(k)) /\ (IsLive(k)' <=> IsLive(k))
    BY <1>3 DEF Exists, IsLive
  <1>6. QED
    BY <1>1, <1>2, <1>3, <1>4, <1>5, StaySafety

LEMMA ProcessSafety ==
    ASSUME TypeInv, Safety, TypeInv',
           BeginDrain \/ ProcessStep \/ ReleaseUnrecorded \/ Crash
    PROVE  Safety'
  <1>0. QueueTypeOK /\ disruptions \in Nat
    BY DEF TypeInv, TypeOK
  <1>1. CASE BeginDrain
    <2>1. /\ UNCHANGED <<job, worker>> /\ phase' = "draining"
          /\ disruptions' = disruptions + 1 /\ Suffered' = Suffered
      BY <1>0, <1>1 DEF BeginDrain, Disrupt, Suffered
    <2>2. HeldRowIsKept' /\ OneHolder' /\ NobodyIsLeft' /\ DrainReleasesAll'
      BY <2>1 DEF Safety, HeldRowIsKept, OneHolder, NobodyIsLeft, DrainReleasesAll,
                  Holds, IsBusy, Exists
    <2>3. AttemptsAccounted'
      BY <1>0, <2>1 DEF Safety, AttemptsAccounted, Holds, IsBusy, Exists, IsLive
    <2>4. QED
      BY <2>2, <2>3 DEF Safety
  <1>2. CASE Joined
    <2>1. \A v \in Worker : ~IsBusy(v) /\ ~IsBusy(v)'
      BY <1>2 DEF Joined, IsBusy, Busy
    <2>2. UNCHANGED job /\ phase' = "releasing" /\ Suffered <= Suffered'
      BY <1>0, <1>2 DEF Joined, Suffered
    <2>3. QED
      BY <2>1, <2>2, VacateSafety
  <1>3. CASE AbortAll
    <2>1. \A v \in Worker : ~IsBusy(v)'
      BY <1>3 DEF AbortAll, Everyone, At, IsBusy, Busy
    <2>2. UNCHANGED job /\ phase' = "releasing" /\ Suffered < Suffered' /\ Suffered <= Suffered'
      BY <1>0, <1>3 DEF AbortAll, Suffered
    <2>3. QED
      BY <2>1, <2>2, VacateSafety
  <1>4. CASE Release
    <2>1. UNCHANGED <<worker, disruptions>> /\ phase = "releasing" /\ phase' = "drained"
      BY <1>4 DEF Release
    <2>2. \A v \in Worker : ~IsBusy(v) /\ ~IsBusy(v)'
      BY <2>1 DEF Safety, NobodyIsLeft, IsBusy
    <2>3. \A k \in JobId :
             \/ job'[k] = job[k] /\ job[k].state # "running"
             \/ /\ job[k].state = "running" /\ job'[k].state = "queued"
                /\ job'[k].work = job[k].work /\ job'[k].attempts = job[k].attempts
      <3> SUFFICES ASSUME NEW k \in JobId
                   PROVE  \/ job'[k] = job[k] /\ job[k].state # "running"
                          \/ /\ job[k].state = "running" /\ job'[k].state = "queued"
                             /\ job'[k].work = job[k].work
                             /\ job'[k].attempts = job[k].attempts
        OBVIOUS
      <3>1. job[k].state = "running" => job[k].lockAge > -1
        BY RowNumbers
      <3>2. QED
        BY <1>0, <1>4, <3>1, RecoveredRow DEF Release
    <2>4. Suffered <= Suffered'
      BY <1>0, <2>1 DEF Suffered
    <2>5. QED
      BY <2>1, <2>2, <2>3, <2>4, VacateSafety
  <1>5. CASE Start
    <2>1. /\ UNCHANGED disruptions /\ phase \in {"drained", "down"} /\ phase' = "up"
          /\ job' = Recovered(StaleAfter)
      BY <1>5 DEF Start
    <2>2. \A v \in Worker : ~IsBusy(v) /\ ~IsBusy(v)'
      BY <1>5, <2>1 DEF Safety, NobodyIsLeft, Start, Everyone, At, IsBusy, Busy
    <2>3. \A k \in JobId :
             \/ job'[k] = job[k]
             \/ /\ job[k].state = "running" /\ job'[k].state = "queued"
                /\ job'[k].work = job[k].work /\ job'[k].attempts = job[k].attempts
      BY <1>0, <2>1, RecoveredRow
    <2>4. Suffered <= Suffered'
      BY <1>0, <2>1 DEF Suffered
    <2>5. QED
      BY <2>1, <2>2, <2>3, <2>4, VacateSafety
  <1>6. CASE ReleaseUnrecorded
    <2>1. /\ UNCHANGED <<job, worker>> /\ phase = "releasing" /\ phase' = "down"
          /\ disruptions' = disruptions + 1
      BY <1>6 DEF ReleaseUnrecorded, Disrupt
    <2>2. \A v \in Worker : ~IsBusy(v) /\ ~IsBusy(v)'
      BY <2>1 DEF Safety, NobodyIsLeft, IsBusy
    <2>3. Suffered <= Suffered'
      BY <1>0, <2>1 DEF Suffered
    <2>4. QED
      BY <2>1, <2>2, <2>3, VacateSafety
  <1>7. CASE Crash
    <2>1. /\ UNCHANGED job /\ phase' = "down" /\ disruptions' = disruptions + 1
          /\ \A v \in Worker : ~IsBusy(v)'
      BY <1>7 DEF Crash, Disrupt, Everyone, At, IsBusy, Busy
    <2>2. Suffered < Suffered' /\ Suffered <= Suffered'
      BY <1>0, <2>1 DEF Suffered
    <2>3. QED
      BY <2>1, <2>2, VacateSafety
  <1>8. QED
    BY <1>1, <1>2, <1>3, <1>4, <1>5, <1>6, <1>7 DEF ProcessStep

LEMMA SafetyStep ==
    ASSUME MaxRun <= StaleAfter
    PROVE  TypeInv /\ Safety /\ [Next]_vars => Safety'
  <1> SUFFICES ASSUME TypeInv, Safety, [Next]_vars PROVE Safety'
    OBVIOUS
  <1>1. CASE Next
    <2>1. TypeInv'
      BY TypeStep
    <2>2. QED
      BY <1>1, <2>1, WorkerSafety, FaultSafety, OperatorSafety, RecoverSafety, PruneSafety,
         TickSafety, ProcessSafety DEF Next
  <1>2. CASE UNCHANGED vars
    BY <1>2 DEF vars, Safety, HeldRowIsKept, NobodyIsLeft, OneHolder, AttemptsAccounted,
                DrainReleasesAll, Suffered, Holds, IsBusy, Exists, IsLive
  <1>3. QED
    BY <1>1, <1>2

LEMMA SafetyHolds ==
    ASSUME MaxRun <= StaleAfter
    PROVE  Spec => []Safety
  <1>1. Init => Safety
    BY SafetyInit
  <1>2. TypeInv /\ Safety /\ [Next]_vars => Safety'
    BY SafetyStep
  <1>3. QED
    BY <1>1, <1>2, TypesHold, PTL DEF Spec

\* The invariant of WorkerPool.cfg: a claim that ends before its lock is stale is what all of
\* it rests on (job_stale_lock_secs, crates/api/src/config.rs).
THEOREM InvariantCorrect ==
    ASSUME MaxRun <= StaleAfter
    PROVE  Spec => []IInv
  <1>1. TypeInv /\ Safety => IInv
    BY DEF TypeInv, IInv
  <1>2. QED
    BY <1>1, TypesHold, SafetyHolds, PTL

\* Two workers never run one job, through any number of jobs, workers, crashes, drains and
\* recoveries: the exclusion of PostgresQueue::claim survives every path back to the queue.
THEOREM OneWorkerPerJob ==
    ASSUME MaxRun <= StaleAfter
    PROVE  Spec => []OneHolder
  <1>1. Safety => OneHolder
    BY DEF Safety
  <1>2. QED
    BY <1>1, SafetyHolds, PTL

\* No job is attempted more often than max_attempts and one more time for each disruption,
\* although PostgresQueue::claim never looks at the ceiling.
THEOREM AttemptsBounded ==
    ASSUME MaxRun <= StaleAfter
    PROVE  Spec => []AttemptBudget
  <1>1. TypeInv /\ Safety => AttemptBudget
    <2> SUFFICES ASSUME TypeInv, Safety, NEW j \in JobId, Exists(j)
                 PROVE  job[j].attempts <= MaxAttempts[job[j].work] + disruptions
      BY DEF AttemptBudget
    <2>1. job[j].attempts <= MaxAttempts[job[j].work] + Suffered
      BY DEF Safety, AttemptsAccounted
    <2>2. Suffered <= disruptions /\ Suffered \in Int /\ disruptions \in Nat
      BY DEF TypeInv, TypeOK, Suffered
    <2>3. job[j].attempts \in Nat /\ MaxAttempts[job[j].work] \in Nat
      BY RowNumbers
    <2>4. QED
      BY <2>1, <2>2, <2>3
  <1>2. QED
    BY <1>1, TypesHold, SafetyHolds, PTL

\* When WorkerPool::shutdown has released the rows, none is left running.
THEOREM DrainLeavesNothing ==
    ASSUME MaxRun <= StaleAfter
    PROVE  Spec => []DrainReleasesAll
  <1>1. Safety => DrainReleasesAll
    BY DEF Safety
  <1>2. QED
    BY <1>1, SafetyHolds, PTL
-----------------------------------------------------------------------------
(* What a step may not do to a job that is over. *)

\* A worker's last statement about a job finds it running, cancelled or pruned.
LEMMA WorkerKeepsOutcome ==
    ASSUME TypeInv, Safety, NEW w \in Worker, WorkerStep(w) \/ WorkerFault(w),
           NEW j \in JobId, job[j].state \in {"succeeded", "failed"}
    PROVE  job'[j].state \notin Live
  <1>0. QueueTypeOK
    BY DEF TypeInv, TypeOK
  <1>1. CASE job'[j] = job[j]
    BY <1>1 DEF Live
  <1>2. CASE ClaimJob(w) \/ ClaimUnanswered(w)
    <2>1. PICK i \in JobId : Claim(i, w)
      BY <1>2 DEF ClaimJob, ClaimUnanswered
    <2>2. j # i
      BY <2>1 DEF Claim, Claimable
    <2>3. QED
      BY <1>0, <1>1, <2>1, <2>2, ClaimRow
  <1>3. ASSUME NEW i \in JobId, NEW s \in Terminal, job' = Ended(i, s)
        PROVE  job'[j].state \notin Live
    BY <1>0, <1>1, <1>3, EndedRow DEF Terminal, Live
  <1>4. CASE Finish(w) \/ Exhaust(w)
    <2>1. worker[w].job \in JobId
      BY <1>4, HeldRow DEF Finish, Exhaust, Running, IsBusy, Busy
    <2>2. QED
      BY <1>3, <1>4, <2>1 DEF Finish, Exhaust, Terminal
  <1>5. CASE Requeue(w) \/ RequeueUnanswered(w)
    <2>1. worker[w].job \in JobId /\ worker[w].job # j
      BY <1>5, HeldRow DEF Requeue, RequeueUnanswered, Running, IsBusy, Busy
    <2>2. QED
      BY <1>0, <1>1, <1>5, <2>1, RequeuedRow DEF Requeue, RequeueUnanswered
  <1>6. QED
    BY <1>1, <1>2, <1>4, <1>5
    DEF WorkerStep, WorkerFault, Poll, ClaimNothing, ReadFailed, ReadNothing,
        FinishUnrecorded, FailUnrecorded, Panic

LEMMA OthersKeepOutcome ==
    ASSUME TypeInv, NEW j \in JobId, job[j].state \in {"succeeded", "failed"},
           \/ Operator \/ ApiStep
           \/ Recover \/ Prune \/ Tick
           \/ BeginDrain \/ ProcessStep \/ ReleaseUnrecorded \/ Crash
    PROVE  job'[j].state \notin Live
  <1>0. QueueTypeOK
    BY DEF TypeInv, TypeOK
  <1>1. CASE job'[j].state = job[j].state
    BY <1>1 DEF Live
  <1>2. ASSUME NEW work \in Work, NEW origin \in JobId \cup {NoJob}, Insert(work, origin)
        PROVE  job'[j].state \notin Live
    BY <1>0, <1>1, <1>2, InsertRow
  <1>3. CASE \E work \in Work : Enqueue(work)
    BY <1>2, <1>3 DEF Enqueue
  <1>4. CASE RetryWrite
    BY <1>2, <1>4 DEF RetryWrite, TypeInv, RequestIsWhole
  <1>5. CASE CancelWrite
    <2>1. api.job \in JobId
      BY <1>5 DEF CancelWrite, TypeInv, RequestIsWhole
    <2>2. QED
      BY <1>0, <1>1, <1>5, <2>1, EndedRow DEF CancelWrite, Terminal, Live
  <1>6. CASE Recover \/ Release \/ Start
    <2>1. PICK older \in {StaleAfter, -1} : job' = Recovered(older)
      BY <1>6 DEF Recover, Release, Start
    <2>2. QED
      BY <1>0, <1>1, <2>1, RecoveredRow
  <1>7. CASE Prune
    BY <1>0, <1>1, <1>7, PrunedRow DEF Prune, Live
  <1>8. CASE Tick
    BY <1>0, <1>1, <1>8, AgedRow DEF Tick
  <1>9. QED
    BY <1>1, <1>3, <1>4, <1>5, <1>6, <1>7, <1>8
    DEF Operator, ApiStep, CancelRead, RetryRead, Abandon, BeginDrain, ProcessStep, Joined,
        AbortAll, ReleaseUnrecorded, Crash

\* A job that succeeded or failed is never queued or run again under its id, although
\* PostgresQueue::fail, complete and cancel look at no state: the worker that calls them is
\* the only one the row still belongs to.
THEOREM OutcomesAreFinal ==
    ASSUME MaxRun <= StaleAfter
    PROVE  Spec => NoResurrection
  <1>1. ASSUME TypeInv, Safety, [Next]_vars, NEW j \in JobId,
               job[j].state \in {"succeeded", "failed"}
        PROVE  job'[j].state \notin Live
    <2>1. CASE UNCHANGED vars
      BY <1>1, <2>1 DEF vars, Live
    <2>2. CASE Next
      BY <1>1, <2>2, WorkerKeepsOutcome, OthersKeepOutcome DEF Next
    <2>3. QED
      BY <1>1, <2>1, <2>2
  <1>2. TypeInv /\ Safety /\ [Next]_vars =>
          [\A j \in JobId : job[j].state \in {"succeeded", "failed"}
                               => job'[j].state \notin Live]_vars
    BY <1>1
  <1>3. QED
    BY <1>2, TypesHold, SafetyHolds, PTL DEF Spec, NoResurrection

-----------------------------------------------------------------------------
(* What was published about a job, as long as the database answers. *)

Settled(j) == job[j].state \in Terminal \cup {"gone"}

OutcomeInv == \A j \in JobId : announced[j] \in {"succeeded", "failed"} => Settled(j)

LEMMA WorkerAnnounces ==
    ASSUME "database" \notin Faults, TypeInv, Safety, OutcomeInv,
           NEW w \in Worker, WorkerStep(w) \/ WorkerFault(w)
    PROVE  OutcomeInv'
  <1>0. QueueTypeOK /\ announced \in [JobId -> {"none", "queued", "succeeded", "failed"}]
    BY DEF TypeInv, TypeOK
  <1>1. CASE UNCHANGED <<job, announced>>
    BY <1>1 DEF OutcomeInv, Settled
  <1>2. CASE ClaimJob(w)
    <2>1. PICK i \in JobId : Claim(i, w)
      BY <1>2 DEF ClaimJob
    <2>2. UNCHANGED announced
      BY <1>2 DEF ClaimJob
    <2>3. QED
      BY <1>0, <2>1, <2>2, ClaimRow DEF OutcomeInv, Settled, Terminal
  <1>3. ASSUME IsBusy(w), NEW s \in {"succeeded", "failed"},
               job' = Ended(worker[w].job, s), Announce(worker[w].job, s)
        PROVE  OutcomeInv'
    <2>1. PICK i \in JobId : i = worker[w].job
      BY <1>3, HeldRow
    <2>2. \A k \in JobId : k # i => job'[k] = job[k] /\ announced'[k] = announced[k]
      BY <1>0, <1>3, <2>1, EndedRow DEF Announce, Terminal
    <2>3. job'[i].state \in Terminal \cup {"gone"}
      BY <1>0, <1>3, <2>1, EndedRow, HeldRow DEF Terminal, Exists
    <2>4. QED
      BY <2>2, <2>3 DEF OutcomeInv, Settled
  <1>4. CASE Requeue(w)
    <2>1. PICK i \in JobId : i = worker[w].job
      BY <1>4, HeldRow DEF Requeue, Running, IsBusy, Busy
    <2>2. \A k \in JobId : k # i => job'[k] = job[k] /\ announced'[k] = announced[k]
      BY <1>0, <1>4, <2>1, RequeuedRow DEF Requeue, Announce
    <2>3. announced'[i] = "queued"
      BY <1>0, <1>4, <2>1 DEF Requeue, Announce
    <2>4. QED
      BY <2>2, <2>3 DEF OutcomeInv, Settled
  <1>5. CASE ReadNothing(w)
    <2>1. PICK i \in JobId : i = worker[w].job
      BY <1>5, HeldRow DEF ReadNothing, Running, IsBusy, Busy
    <2>2. UNCHANGED job /\ \A k \in JobId : k # i => announced'[k] = announced[k]
      BY <1>0, <1>5, <2>1 DEF ReadNothing, Announce
    <2>3. job[i].state = "gone"
      BY <1>5, <2>1, HeldRow DEF ReadNothing, Running, IsBusy, Busy, Exists
    <2>4. QED
      BY <2>2, <2>3 DEF OutcomeInv, Settled
  <1>6. ~FinishUnrecorded(w) /\ ~FailUnrecorded(w) /\ ~ClaimUnanswered(w)
                             /\ ~RequeueUnanswered(w)
    BY DEF FinishUnrecorded, FailUnrecorded, ClaimUnanswered, RequeueUnanswered, Disrupt
  <1>7. CASE Finish(w) \/ Exhaust(w)
    BY <1>3, <1>7 DEF Finish, Exhaust, Running, IsBusy, Busy
  <1>8. QED
    BY <1>1, <1>2, <1>4, <1>5, <1>6, <1>7
    DEF WorkerStep, WorkerFault, Poll, ClaimNothing, ReadFailed, Panic

LEMMA OthersAnnounceNothing ==
    ASSUME TypeInv, OutcomeInv,
           \/ Operator \/ ApiStep
           \/ Recover \/ Prune \/ Tick
           \/ BeginDrain \/ ProcessStep \/ ReleaseUnrecorded \/ Crash
    PROVE  OutcomeInv'
  <1>0. QueueTypeOK
    BY DEF TypeInv, TypeOK
  <1>1. UNCHANGED announced
    BY DEF Operator, ApiStep, Enqueue, CancelRead, RetryRead, Abandon, CancelWrite, RetryWrite,
           Recover, Prune, Tick, BeginDrain, ProcessStep, Joined, AbortAll, Release, Start,
           ReleaseUnrecorded, Crash
  <1>2. SUFFICES ASSUME NEW j \in JobId, Settled(j)
                 PROVE  Settled(j)'
    BY <1>1 DEF OutcomeInv
  <1>3. CASE job'[j].state = job[j].state
    BY <1>2, <1>3 DEF Settled
  <1>4. ASSUME NEW work \in Work, NEW origin \in JobId \cup {NoJob}, Insert(work, origin)
        PROVE  Settled(j)'
    BY <1>0, <1>2, <1>3, <1>4, InsertRow DEF Settled, Terminal
  <1>5. CASE \E work \in Work : Enqueue(work)
    BY <1>4, <1>5 DEF Enqueue
  <1>6. CASE RetryWrite
    BY <1>4, <1>6 DEF RetryWrite, TypeInv, RequestIsWhole
  <1>7. CASE CancelWrite
    <2>1. api.job \in JobId
      BY <1>7 DEF CancelWrite, TypeInv, RequestIsWhole
    <2>2. QED
      BY <1>0, <1>3, <1>7, <2>1, EndedRow DEF CancelWrite, Terminal, Settled
  <1>8. CASE Recover \/ Release \/ Start
    <2>1. PICK older \in {StaleAfter, -1} : job' = Recovered(older)
      BY <1>8 DEF Recover, Release, Start
    <2>2. QED
      BY <1>0, <1>2, <1>3, <2>1, RecoveredRow DEF Settled, Terminal
  <1>9. CASE Prune
    BY <1>0, <1>3, <1>9, PrunedRow DEF Prune, Settled
  <1>10. CASE Tick
    BY <1>0, <1>3, <1>10, AgedRow DEF Tick
  <1>11. QED
    BY <1>3, <1>5, <1>6, <1>7, <1>8, <1>9, <1>10
    DEF Operator, ApiStep, CancelRead, RetryRead, Abandon, BeginDrain, ProcessStep, Joined,
        AbortAll, ReleaseUnrecorded, Crash

\* While the database answers, a job of which run_worker has published "succeeded" or
\* "failed" is neither queued nor running.
THEOREM OutcomesAreTrue ==
    ASSUME MaxRun <= StaleAfter, "database" \notin Faults
    PROVE  Spec => []OutcomeHolds
  <1>1. Init => OutcomeInv
    BY DEF Init, OutcomeInv
  <1>2. TypeInv /\ Safety /\ OutcomeInv /\ [Next]_vars => OutcomeInv'
    <2> SUFFICES ASSUME TypeInv, Safety, OutcomeInv, [Next]_vars PROVE OutcomeInv'
      OBVIOUS
    <2>1. CASE UNCHANGED vars
      BY <2>1 DEF vars, OutcomeInv, Settled
    <2>2. CASE Next
      BY <2>2, WorkerAnnounces, OthersAnnounceNothing DEF Next
    <2>3. QED
      BY <2>1, <2>2
  <1>3. OutcomeInv => OutcomeHolds
    BY DEF OutcomeInv, OutcomeHolds, Settled, IsLive, Live, Terminal
  <1>4. QED
    BY <1>1, <1>2, <1>3, TypesHold, SafetyHolds, PTL DEF Spec

(***************************************************************************)
(* The pool implements JobLifecycle, for every set of jobs, works and      *)
(* workers: every step of it is a step of the abstract job's life, or none *)
(* that the abstract life tells apart.                                     *)
(***************************************************************************)

-----------------------------------------------------------------------------
(* The steps of the abstract life, in terms of the pool. *)

SameJob(k) == StatusOf(k)' = StatusOf(k) /\ RunnersOf(k)' = RunnersOf(k)

LEMMA Stutters ==
    ASSUME \A k \in JobId : SameJob(k)
    PROVE  UNCHANGED Lifecycle!lifecycle
  BY DEF SameJob, Lifecycle!lifecycle

LEMMA Accepts ==
    ASSUME NEW j \in JobId, StatusOf(j) = "none", StatusOf(j)' = "open",
           \A k \in JobId : RunnersOf(k)' = RunnersOf(k),
           \A k \in JobId : k # j => StatusOf(k)' = StatusOf(k)
    PROVE  Lifecycle!Next
  <1>1. Lifecycle!Accept(j)
    BY DEF Lifecycle!Accept, Lifecycle!Become
  <1>2. QED
    BY <1>1 DEF Lifecycle!Next

LEMMA Begins ==
    ASSUME NEW j \in JobId, NEW w \in Worker, StatusOf(j) = "open", RunnersOf(j) = {},
           \A k \in JobId : w \notin RunnersOf(k),
           RunnersOf(j)' = {w},
           \A k \in JobId : StatusOf(k)' = StatusOf(k),
           \A k \in JobId : k # j => RunnersOf(k)' = RunnersOf(k)
    PROVE  Lifecycle!Next
  <1>1. Lifecycle!Begin(j, w)
    BY DEF Lifecycle!Begin
  <1>2. QED
    BY <1>1 DEF Lifecycle!Next

LEMMA Ends ==
    ASSUME NEW j \in JobId, RunnersOf(j) # {}, RunnersOf(j)' = {},
           StatusOf(j)' \in {"open", "closed"},
           \A k \in JobId : k # j => SameJob(k)
    PROVE  Lifecycle!Next
  <1>1. Lifecycle!Finish(j) \/ Lifecycle!PutBack(j)
    BY DEF SameJob, Lifecycle!Finish, Lifecycle!PutBack, Lifecycle!Become, Lifecycle!Vacate
  <1>2. QED
    BY <1>1 DEF Lifecycle!Next

LEMMA Withdraws ==
    ASSUME NEW j \in JobId, StatusOf(j) = "open", StatusOf(j)' = "closed",
           \A k \in JobId : RunnersOf(k)' = RunnersOf(k),
           \A k \in JobId : k # j => StatusOf(k)' = StatusOf(k)
    PROVE  Lifecycle!Next
  <1>1. Lifecycle!Withdraw(j)
    BY DEF Lifecycle!Withdraw, Lifecycle!Become
  <1>2. QED
    BY <1>1 DEF Lifecycle!Next

LEMMA Abandons ==
    ASSUME NEW jobs \in SUBSET JobId,
           \A k \in JobId : StatusOf(k)' = StatusOf(k),
           \A k \in jobs : RunnersOf(k)' = {},
           \A k \in JobId \ jobs : RunnersOf(k)' = RunnersOf(k)
    PROVE  Lifecycle!Next
  <1>1. Lifecycle!Abandon(jobs)
    BY DEF Lifecycle!Abandon
  <1>2. QED
    BY <1>1 DEF Lifecycle!Next

-----------------------------------------------------------------------------
(* What the steps of the pool do to it. *)

LEMMA StatusFollowsState ==
    ASSUME NEW k \in JobId
    PROVE  /\ job'[k].state = job[k].state => StatusOf(k)' = StatusOf(k)
           /\ job[k].state = "unborn" => StatusOf(k) = "none"
           /\ job[k].state \in Live => StatusOf(k) = "open"
           /\ job[k].state \in Terminal \cup {"gone"} => StatusOf(k) = "closed"
           /\ job'[k].state \in Live => StatusOf(k)' = "open"
           /\ job'[k].state \in Terminal \cup {"gone"} => StatusOf(k)' = "closed"
  BY DEF StatusOf, IsLive, Live, Terminal

LEMMA SameWorkers ==
    ASSUME \A w \in Worker : /\ IsBusy(w)' <=> IsBusy(w)
                             /\ IsBusy(w) => worker'[w].job = worker[w].job
    PROVE  \A k \in JobId : RunnersOf(k)' = RunnersOf(k)
  BY DEF RunnersOf, Holds

\* A worker that leaves its job leaves it to nobody.
LEMMA Leaves ==
    ASSUME TypeInv, Safety, NEW w \in Worker, IsBusy(w), NEW j \in JobId, worker[w].job = j,
           NEW pc \in Pc \ Busy, Leave(w, pc)
    PROVE  /\ RunnersOf(j) # {} /\ RunnersOf(j)' = {}
           /\ \A k \in JobId : k # j => RunnersOf(k)' = RunnersOf(k)
  <1>1. /\ ~IsBusy(w)'
        /\ \A v \in Worker : v # w => worker'[v] = worker[v]
    BY DEF Leave, At, IsBusy, TypeInv, TypeOK
  <1>2. \A v \in Worker, k \in JobId : Holds(v, k)' <=> v # w /\ Holds(v, k)
    BY <1>1 DEF Holds, IsBusy
  <1>3. \A v \in Worker : Holds(v, j) => v = w
    BY DEF Safety, OneHolder, Holds
  <1>4. \A k \in JobId : k # j => ~Holds(w, k)
    BY DEF Holds
  <1>5. Holds(w, j)
    BY DEF Holds
  <1>6. QED
    BY <1>2, <1>3, <1>4, <1>5 DEF RunnersOf

LEMMA EveryoneLeaves ==
    ASSUME NEW pc \in Pc \ Busy, worker' = Everyone(pc)
    PROVE  \A k \in JobId : RunnersOf(k)' = {}
  BY DEF RunnersOf, Holds, IsBusy, Everyone, At

\* A step that ends w's attempt, whatever it leaves in the row, unless the row is unborn.
LEMMA AttemptEnds ==
    ASSUME TypeInv, Safety, NEW w \in Worker, IsBusy(w), NEW j \in JobId, worker[w].job = j,
           NEW pc \in Pc \ Busy, Leave(w, pc),
           \/ job'[j].state = job[j].state
           \/ job'[j].state \in Live \cup Terminal,
           \A k \in JobId : k # j => job'[k].state = job[k].state
    PROVE  Lifecycle!Next
  <1>1. /\ RunnersOf(j) # {} /\ RunnersOf(j)' = {}
        /\ \A k \in JobId : k # j => RunnersOf(k)' = RunnersOf(k)
    BY Leaves
  <1>2. job[j].state \in Live \cup Terminal \cup {"gone"}
    BY HeldRow DEF Live, Terminal
  <1>3. StatusOf(j)' \in {"open", "closed"}
    BY <1>2, StatusFollowsState
  <1>4. \A k \in JobId : k # j => StatusOf(k)' = StatusOf(k)
    BY StatusFollowsState
  <1>5. QED
    BY <1>1, <1>3, <1>4, Ends DEF SameJob

\* A step that ends w's attempt and leaves the row as it is abandons the job.
LEMMA AttemptIsLost ==
    ASSUME TypeInv, Safety, NEW w \in Worker, IsBusy(w), NEW pc \in Pc \ Busy, Leave(w, pc),
           UNCHANGED job
    PROVE  Lifecycle!Next
  <1>1. PICK j \in JobId : worker[w].job = j
    BY DEF TypeInv, HolderHasJob
  <1>2. /\ RunnersOf(j)' = {}
        /\ \A k \in JobId : k # j => RunnersOf(k)' = RunnersOf(k)
    BY <1>1, Leaves
  <1>3. \A k \in JobId : StatusOf(k)' = StatusOf(k)
    BY StatusFollowsState
  <1>4. {j} \in SUBSET JobId
    OBVIOUS
  <1>5. QED
    BY <1>2, <1>3, <1>4, Abandons

\* The rows keep their status while the workers keep their jobs.
LEMMA NothingToTell ==
    ASSUME \A w \in Worker : /\ IsBusy(w)' <=> IsBusy(w)
                             /\ IsBusy(w) => worker'[w].job = worker[w].job,
           \A k \in JobId : \/ job'[k].state = job[k].state
                            \/ job[k].state \in Live /\ job'[k].state \in Live
                            \/ /\ job[k].state \in Terminal
                               /\ job'[k].state \in Terminal \cup {"gone"}
    PROVE  UNCHANGED Lifecycle!lifecycle
  <1>1. \A k \in JobId : RunnersOf(k)' = RunnersOf(k)
    BY SameWorkers
  <1>2. \A k \in JobId : StatusOf(k)' = StatusOf(k)
    BY StatusFollowsState
  <1>3. QED
    BY <1>1, <1>2, Stutters DEF SameJob

-----------------------------------------------------------------------------
(* Every step of the pool. *)

LEMMA ClaimBegins ==
    ASSUME TypeInv, Safety, NEW w \in Worker, ClaimJob(w)
    PROVE  Lifecycle!Next
  <1>1. PICK j \in JobId :
           /\ Claim(j, w)
           /\ worker' = [worker EXCEPT ![w] = [pc |-> "handling", job |-> j, elapsed |-> 0]]
    BY DEF ClaimJob
  <1>2. /\ job[j].state = "queued" /\ job'[j].state = "running"
        /\ \A k \in JobId : k # j => job'[k] = job[k]
    BY <1>1, ClaimRow DEF TypeInv, TypeOK
  <1>3. /\ worker'[w] = [pc |-> "handling", job |-> j, elapsed |-> 0]
        /\ \A v \in Worker : v # w => worker'[v] = worker[v]
        /\ ~IsBusy(w)
    BY <1>1 DEF TypeInv, TypeOK, ClaimJob, Running, IsBusy, Busy
  <1>4. \A v \in Worker : ~Holds(v, j)
    BY <1>2, HeldRow DEF Holds
  <1>5. \A v \in Worker, k \in JobId : Holds(v, k)' <=> \/ v = w /\ k = j
                                                        \/ Holds(v, k)
    BY <1>3 DEF Holds, IsBusy, Busy
  <1>6. /\ RunnersOf(j) = {} /\ RunnersOf(j)' = {w}
        /\ \A k \in JobId : w \notin RunnersOf(k)
        /\ \A k \in JobId : k # j => RunnersOf(k)' = RunnersOf(k)
    BY <1>3, <1>4, <1>5 DEF RunnersOf, Holds
  <1>7. /\ StatusOf(j) = "open"
        /\ \A k \in JobId : StatusOf(k)' = StatusOf(k)
    BY <1>2, StatusFollowsState DEF Live
  <1>8. QED
    BY <1>6, <1>7, Begins

LEMMA WorkerLives ==
    ASSUME TypeInv, Safety, NEW w \in Worker, WorkerStep(w)
    PROVE  Lifecycle!Next \/ UNCHANGED Lifecycle!lifecycle
  <1>0. /\ "polling" \in Pc \ Busy
        /\ {"succeeded", "failed"} \subseteq Terminal
        /\ QueueTypeOK
    BY DEF Pc, Busy, Terminal, TypeInv, TypeOK
  <1>1. CASE Poll(w) \/ ClaimNothing(w)
    <2>1. /\ ~IsBusy(w) /\ ~IsBusy(w)' /\ UNCHANGED job
          /\ \A v \in Worker : v # w => worker'[v] = worker[v]
      BY <1>1 DEF Poll, ClaimNothing, Running, Advance, Leave, At, IsBusy, Busy, TypeInv, TypeOK
    <2>2. QED
      BY <2>1, NothingToTell DEF IsBusy
  <1>2. CASE ClaimJob(w)
    BY <1>2, ClaimBegins
  <1>3. ASSUME NEW retryable \in BOOLEAN, ReadFailed(w, retryable)
        PROVE  UNCHANGED Lifecycle!lifecycle
    <2>1. PICK pc \in {"exhausting", "requeueing"} : Advance(w, pc)
      BY <1>3 DEF ReadFailed
    <2>2. /\ IsBusy(w) /\ IsBusy(w)' /\ worker'[w].job = worker[w].job /\ UNCHANGED job
          /\ \A v \in Worker : v # w => worker'[v] = worker[v]
      BY <1>3, <2>1 DEF ReadFailed, Running, Advance, IsBusy, Busy, TypeInv, TypeOK
    <2>3. QED
      BY <2>2, NothingToTell DEF IsBusy
  <1>4. CASE \/ Finish(w) \/ ReadNothing(w) \/ Exhaust(w) \/ Requeue(w)
    <2>1. IsBusy(w) /\ Leave(w, "polling")
      BY <1>4 DEF Finish, ReadNothing, Exhaust, Requeue, Running, IsBusy, Busy
    <2>2. PICK j \in JobId : worker[w].job = j
      BY <2>1 DEF TypeInv, HolderHasJob
    <2>3. \/ UNCHANGED job
          \/ \E s \in Terminal : job' = Ended(j, s)
          \/ job' = Requeued(j)
      BY <1>0, <1>4, <2>2 DEF Finish, ReadNothing, Exhaust, Requeue
    <2>4. /\ job'[j].state = job[j].state \/ job'[j].state \in Live \cup Terminal
          /\ \A k \in JobId : k # j => job'[k].state = job[k].state
      BY <1>0, <2>3, EndedRow, RequeuedRow DEF Live
    <2>5. QED
      BY <1>0, <2>1, <2>2, <2>4, AttemptEnds
  <1>5. QED
    BY <1>1, <1>2, <1>3, <1>4 DEF WorkerStep

LEMMA FaultLives ==
    ASSUME TypeInv, Safety, NEW w \in Worker, WorkerFault(w)
    PROVE  Lifecycle!Next \/ UNCHANGED Lifecycle!lifecycle
  <1>0. /\ {"polling", "dead"} \subseteq Pc \ Busy
        /\ QueueTypeOK
    BY DEF Pc, Busy, TypeInv, TypeOK
  <1>1. CASE ClaimUnanswered(w)
    <2>1. PICK j \in JobId : Claim(j, w)
      BY <1>1 DEF ClaimUnanswered
    <2>2. \A k \in JobId : \/ job'[k].state = job[k].state
                           \/ job[k].state \in Live /\ job'[k].state \in Live
      BY <1>0, <2>1, ClaimRow DEF Live
    <2>3. /\ ~IsBusy(w) /\ ~IsBusy(w)'
          /\ \A v \in Worker : v # w => worker'[v] = worker[v]
      BY <1>1 DEF ClaimUnanswered, Running, Leave, At, IsBusy, Busy, TypeInv, TypeOK
    <2>4. QED
      BY <2>2, <2>3, NothingToTell DEF IsBusy
  <1>2. CASE FinishUnrecorded(w) \/ FailUnrecorded(w) \/ Panic(w)
    <2>1. IsBusy(w) /\ UNCHANGED job
      BY <1>2 DEF FinishUnrecorded, FailUnrecorded, Panic, Running, IsBusy, Busy
    <2>2. PICK pc \in {"polling", "dead"} : Leave(w, pc)
      BY <1>2 DEF FinishUnrecorded, FailUnrecorded, Panic
    <2>3. QED
      BY <1>0, <2>1, <2>2, AttemptIsLost
  <1>3. CASE RequeueUnanswered(w)
    <2>1. IsBusy(w) /\ Leave(w, "polling")
      BY <1>3 DEF RequeueUnanswered, Running, IsBusy, Busy
    <2>2. PICK j \in JobId : worker[w].job = j
      BY <2>1 DEF TypeInv, HolderHasJob
    <2>3. job' = Requeued(j)
      BY <1>3, <2>2 DEF RequeueUnanswered
    <2>4. /\ job'[j].state = job[j].state \/ job'[j].state \in Live \cup Terminal
          /\ \A k \in JobId : k # j => job'[k].state = job[k].state
      BY <1>0, <2>3, RequeuedRow DEF Live
    <2>5. QED
      BY <1>0, <2>1, <2>2, <2>4, AttemptEnds
  <1>4. QED
    BY <1>1, <1>2, <1>3 DEF WorkerFault

LEMMA InsertLives ==
    ASSUME TypeInv, NEW work \in Work, NEW origin \in JobId \cup {NoJob}, Insert(work, origin),
           UNCHANGED worker
    PROVE  Lifecycle!Next \/ UNCHANGED Lifecycle!lifecycle
  <1>1. \A k \in JobId : RunnersOf(k)' = RunnersOf(k)
    BY SameWorkers DEF IsBusy
  <1>2. CASE UNCHANGED job
    BY <1>1, <1>2, StatusFollowsState, Stutters DEF SameJob
  <1>3. ASSUME NEW j \in JobId, job[j].state = "unborn",
               job' = [job EXCEPT ![j] =
                          [Blank("queued") EXCEPT !.work = work, !.origin = origin]]
        PROVE  Lifecycle!Next
    <2>1. /\ job'[j].state = "queued"
          /\ \A k \in JobId : k # j => job'[k] = job[k]
      BY <1>3 DEF Blank, TypeInv, TypeOK, QueueTypeOK
    <2>2. /\ StatusOf(j) = "none" /\ StatusOf(j)' = "open"
          /\ \A k \in JobId : k # j => StatusOf(k)' = StatusOf(k)
      BY <1>3, <2>1, StatusFollowsState DEF Live
    <2>3. QED
      BY <1>1, <2>2, Accepts
  <1>4. QED
    BY <1>2, <1>3 DEF Insert

LEMMA RequestLives ==
    ASSUME TypeInv, Safety, Operator \/ ApiStep
    PROVE  Lifecycle!Next \/ UNCHANGED Lifecycle!lifecycle
  <1>1. ASSUME NEW work \in Work, Enqueue(work)
        PROVE  Lifecycle!Next \/ UNCHANGED Lifecycle!lifecycle
    BY <1>1, InsertLives DEF Enqueue
  <1>2. ASSUME UNCHANGED <<job, worker>>
        PROVE  UNCHANGED Lifecycle!lifecycle
    BY <1>2, NothingToTell DEF IsBusy
  <1>3. CASE CancelWrite
    <2>1. PICK j \in JobId : api.job = j
      BY <1>3 DEF CancelWrite, TypeInv, RequestIsWhole
    <2>2. job' = Ended(j, "cancelled") /\ UNCHANGED worker
      BY <1>3, <2>1 DEF CancelWrite
    <2>3. "cancelled" \in Terminal /\ QueueTypeOK
      BY DEF Terminal, TypeInv, TypeOK
    <2>4. \A k \in JobId : k # j => job'[k] = job[k]
      BY <2>2, <2>3, EndedRow
    <2>5. \/ job'[j] = job[j]
          \/ Exists(j) /\ job'[j].state = "cancelled"
      BY <2>2, <2>3, EndedRow
    <2>6. CASE job'[j] = job[j] \/ job[j].state \in Terminal
      BY <2>2, <2>3, <2>4, <2>5, <2>6, NothingToTell DEF IsBusy
    <2>7. CASE job'[j].state = "cancelled" /\ job[j].state \in Live
      <3>1. /\ StatusOf(j) = "open" /\ StatusOf(j)' = "closed"
            /\ \A k \in JobId : k # j => StatusOf(k)' = StatusOf(k)
        BY <2>3, <2>4, <2>7, StatusFollowsState
      <3>2. \A k \in JobId : RunnersOf(k)' = RunnersOf(k)
        BY <2>2, SameWorkers DEF IsBusy
      <3>3. QED
        BY <3>1, <3>2, Withdraws
    <2>8. job[j].state \in State
      BY <2>3 DEF QueueTypeOK, Row, Columns
    <2>9. QED
      BY <2>5, <2>6, <2>7, <2>8 DEF Exists, State
  <1>4. CASE RetryWrite
    <2>1. api.work \in Work /\ api.job \in JobId
      BY <1>4 DEF RetryWrite, TypeInv, RequestIsWhole
    <2>2. Insert(api.work, api.job) /\ UNCHANGED worker
      BY <1>4 DEF RetryWrite
    <2>3. QED
      BY <2>1, <2>2, InsertLives
  <1>5. QED
    BY <1>1, <1>2, <1>3, <1>4 DEF Operator, ApiStep, CancelRead, RetryRead, Abandon

LEMMA SystemLives ==
    ASSUME TypeInv, Safety,
           \/ Recover \/ Prune \/ Tick \/ BeginDrain \/ ProcessStep \/ ReleaseUnrecorded \/ Crash
    PROVE  Lifecycle!Next \/ UNCHANGED Lifecycle!lifecycle
  <1>0. /\ {"polling", "stopped"} \subseteq Pc \ Busy
        /\ QueueTypeOK
    BY DEF Pc, Busy, TypeInv, TypeOK
  <1>1. ASSUME NEW older, job' = Recovered(older)
        PROVE  \A k \in JobId : \/ job'[k].state = job[k].state
                                \/ job[k].state \in Live /\ job'[k].state \in Live
    BY <1>0, <1>1, RecoveredRow DEF Live
  <1>2. ASSUME UNCHANGED worker,
               \/ UNCHANGED job
               \/ job' = Recovered(StaleAfter) \/ job' = Recovered(-1)
               \/ job' = Pruned
        PROVE  UNCHANGED Lifecycle!lifecycle
    <2>1. \A k \in JobId : \/ job'[k].state = job[k].state
                           \/ job[k].state \in Live /\ job'[k].state \in Live
                           \/ /\ job[k].state \in Terminal
                              /\ job'[k].state \in Terminal \cup {"gone"}
      <3>1. CASE job' = Recovered(StaleAfter)
        BY <1>1, <3>1
      <3>2. CASE job' = Recovered(-1)
        BY <1>1, <3>2
      <3>3. CASE job' = Pruned
        BY <1>0, <3>3, PrunedRow DEF Terminal
      <3>4. QED
        BY <1>2, <3>1, <3>2, <3>3
    <2>2. QED
      BY <1>2, <2>1, NothingToTell DEF IsBusy
  <1>3. CASE Recover \/ Prune \/ BeginDrain \/ Joined \/ Release \/ ReleaseUnrecorded
    BY <1>2, <1>3 DEF Recover, Prune, BeginDrain, Joined, Release, ReleaseUnrecorded
  <1>4. CASE Tick
    <2>1. \A k \in JobId : job'[k].state = job[k].state
      BY <1>0, <1>4, AgedRow DEF Tick
    <2>2. \A w \in Worker : worker'[w].pc = worker[w].pc /\ worker'[w].job = worker[w].job
      BY <1>4 DEF Tick, TypeInv, TypeOK
    <2>3. QED
      BY <2>1, <2>2, NothingToTell DEF IsBusy
  <1>5. ASSUME NEW pc \in {"polling", "stopped"}, worker' = Everyone(pc),
               \A k \in JobId : \/ job'[k].state = job[k].state
                                \/ job[k].state \in Live /\ job'[k].state \in Live
        PROVE  Lifecycle!Next
    <2>1. \A k \in JobId : RunnersOf(k)' = {}
      BY <1>0, <1>5, EveryoneLeaves
    <2>2. \A k \in JobId : StatusOf(k)' = StatusOf(k)
      BY <1>5, StatusFollowsState
    <2>3. JobId \in SUBSET JobId
      OBVIOUS
    <2>4. QED
      BY <2>1, <2>2, <2>3, Abandons
  <1>6. CASE AbortAll \/ Crash
    BY <1>5, <1>6 DEF AbortAll, Crash
  <1>7. CASE Start
    BY <1>1, <1>5, <1>7 DEF Start
  <1>8. QED
    BY <1>3, <1>4, <1>6, <1>7 DEF ProcessStep

LEMMA InitLives == Init => Lifecycle!Init
  <1> SUFFICES ASSUME Init PROVE Lifecycle!Init
    OBVIOUS
  <1>1. \A j \in JobId : StatusOf(j) = "none"
    BY DEF Init, QueueInit, Blank, StatusOf, IsLive, Live
  <1>2. \A j \in JobId : RunnersOf(j) = {}
    BY DEF Init, RunnersOf, Holds, IsBusy, Busy, Everyone, At
  <1>3. QED
    BY <1>1, <1>2 DEF Lifecycle!Init

LEMMA StepLives ==
    TypeInv /\ Safety /\ [Next]_vars => [Lifecycle!Next]_(Lifecycle!lifecycle)
  <1> SUFFICES ASSUME TypeInv, Safety, [Next]_vars
               PROVE  Lifecycle!Next \/ UNCHANGED Lifecycle!lifecycle
    OBVIOUS
  <1>1. CASE UNCHANGED vars
    BY <1>1, NothingToTell DEF vars, IsBusy
  <1>2. CASE Next
    BY <1>2, WorkerLives, FaultLives, RequestLives, SystemLives DEF Next
  <1>3. QED
    BY <1>1, <1>2

\* The job table and the pool keep the promise of one job's life: it is accepted once, one worker
\* at a time runs it, and once it is closed and nobody runs it nothing opens it again (the claim,
\* fail, recover_stale and set_terminal of queue.rs under worker.rs), for every set of jobs, works
\* and workers, as long as a claim ends before its lock is stale.
THEOREM LifecycleImplemented ==
    ASSUME MaxRun <= StaleAfter
    PROVE  Spec => ImplementsLifecycle
  <1>1. Init => Lifecycle!Init
    BY InitLives
  <1>2. TypeInv /\ Safety /\ [Next]_vars => [Lifecycle!Next]_(Lifecycle!lifecycle)
    BY StepLives
  <1>3. Spec => []Safety
    BY SafetyHolds
  <1>4. QED
    BY <1>1, <1>2, <1>3, TypesHold, PTL DEF Spec, ImplementsLifecycle, Lifecycle!Spec
=============================================================================
