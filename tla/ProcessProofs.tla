---------------------------- MODULE ProcessProofs ----------------------------
(***************************************************************************)
(* What one process keeps to.                                              *)
(*                                                                         *)
(* The cap of SourceLimiter, for any number of sources, handlers, pages    *)
(* and permits.  The invariant pairs every request that runs with a permit *)
(* of its source; what has to be shown of each step is that the pairs stay *)
(* pairs, above all when a handler drops all its futures at once.          *)
(*                                                                         *)
(* And of Service, for any settings, sources and schedule: that the pool   *)
(* runs after the sources and their limits are there, and that a period    *)
(* has one job.  The latter is about time: a job's row must outlast its    *)
(* period, and the invariant bounds how far the clock may have come since  *)
(* by the rows that are there and the faults that are left.                *)
(***************************************************************************)
EXTENDS SourceLimiter, Service, FiniteSetTheorems, TLAPS

-----------------------------------------------------------------------------
(* The data. *)

LEMMA CapType == Cap \in Nat /\ Cap >= 1
  BY LimiterAssumption DEF Cap

LEMMA FreshType ==
  ASSUME NEW limit \in Nat
  PROVE  /\ Fresh(limit) \in Semaphore
         /\ Fresh(limit).holders = {}
         /\ Fresh(limit).waiting = {}
  BY CapType DEF Fresh, Permits, Semaphore, Undeclared, Least

\* Handlers and pages are finitely many, so are requests.
LEMMA FiniteRequests ==
  ASSUME NEW T \in SUBSET Request
  PROVE  IsFiniteSet(T) /\ Cardinality(T) \in Nat
<1>1. IsFiniteSet(Handler) BY LimiterAssumption
<1>2. IsFiniteSet(0..MaxPages) BY LimiterAssumption, FS_Interval
<1>3. IsFiniteSet(Request) BY <1>1, <1>2, FS_Product DEF Request
<1>4. IsFiniteSet(T) BY <1>3, FS_Subset
<1> QED BY <1>4, FS_CardinalityType

LEMMA OneMoreHolder ==
  ASSUME NEW T \in SUBSET Request, NEW r \in Request
  PROVE  /\ Cardinality(T \cup {r}) \in Nat
         /\ Cardinality(T \cup {r}) <= Cardinality(T) + 1
<1>1. IsFiniteSet(T) /\ Cardinality(T) \in Nat BY FiniteRequests
<1>2. Cardinality(T \cup {r}) = IF r \in T THEN Cardinality(T) ELSE Cardinality(T) + 1
  BY <1>1, FS_AddElement
<1> QED BY <1>1, <1>2

LEMMA OfType ==
  ASSUME NEW h \in Handler
  PROVE  /\ Of(h) \subseteq Request
         /\ \A r \in Request : r \in Of(h) <=> r[1] = h
         /\ <<h, 0>> \in Request
         /\ \A p \in 1..MaxPages : <<h, p>> \in Request
  BY LimiterAssumption DEF Of, Request

LEMMA RequestParts ==
  ASSUME NEW r \in Request
  PROVE  r[1] \in Handler /\ r[2] \in 0..MaxPages /\ r = <<r[1], r[2]>>
  BY DEF Request

LEMMA SemaphoreType ==
  ASSUME TypeOK, NEW s \in Source, NEW k \in DOMAIN budget[s]
  PROVE  /\ budget[s][k] \in Semaphore
         /\ budget[s][k].permits \in 1..Cap
         /\ budget[s][k].permits \in Nat
         /\ budget[s][k].holders \in SUBSET Request
         /\ budget[s][k].waiting \in SUBSET Request
<1>1. budget[s] \in Seq(Semaphore) BY DEF TypeOK
<1>2. budget[s][k] \in Semaphore BY <1>1
<1> QED BY <1>2, CapType DEF Semaphore

\* What is left of the semaphores when some futures have been dropped.
LEMMA WithoutType ==
  ASSUME TypeOK, NEW done \in SUBSET Request
  PROVE  /\ Without(done) \in [Source -> Seq(Semaphore)]
         /\ \A s \in Source :
              /\ DOMAIN Without(done)[s] = DOMAIN budget[s]
              /\ Len(Without(done)[s]) = Len(budget[s])
              /\ \A k \in DOMAIN budget[s] :
                   /\ Without(done)[s][k].permits = budget[s][k].permits
                   /\ Without(done)[s][k].holders = budget[s][k].holders \ done
                   /\ Without(done)[s][k].waiting = budget[s][k].waiting \ done
<1> SUFFICES ASSUME NEW s \in Source
             PROVE  /\ Without(done)[s] \in Seq(Semaphore)
                    /\ DOMAIN Without(done)[s] = DOMAIN budget[s]
                    /\ Len(Without(done)[s]) = Len(budget[s])
                    /\ \A k \in DOMAIN budget[s] :
                         /\ Without(done)[s][k].permits = budget[s][k].permits
                         /\ Without(done)[s][k].holders = budget[s][k].holders \ done
                         /\ Without(done)[s][k].waiting = budget[s][k].waiting \ done
  BY DEF Without
<1> DEFINE old == budget[s]
           new == Without(done)[s]
<1>1. old \in Seq(Semaphore) /\ DOMAIN old = 1..Len(old) /\ Len(old) \in Nat BY DEF TypeOK
<1>2. new = [k \in DOMAIN old |-> [old[k] EXCEPT !.holders = @ \ done, !.waiting = @ \ done]]
  BY DEF Without
<1>3. \A k \in DOMAIN old : old[k] \in Semaphore BY <1>1
<1> HIDE DEF new, old
<1>4. ASSUME NEW k \in DOMAIN old
      PROVE  /\ new[k] \in Semaphore
             /\ new[k].permits = old[k].permits
             /\ new[k].holders = old[k].holders \ done
             /\ new[k].waiting = old[k].waiting \ done
  <2>1. new[k] = [old[k] EXCEPT !.holders = @ \ done, !.waiting = @ \ done] BY <1>2
  <2>2. old[k] \in Semaphore BY <1>3
  <2> QED BY <2>1, <2>2 DEF Semaphore
<1>5. DOMAIN new = DOMAIN old BY <1>2
<1>6. new \in Seq(Semaphore) /\ Len(new) = Len(old)
  <2>1. new \in [1..Len(old) -> Semaphore] BY <1>1, <1>2, <1>4, <1>5
  <2> QED BY <1>1, <2>1
<1> QED BY <1>4, <1>5, <1>6 DEF new, old

\* The semaphores a request finds when it asks.
LEMMA BudgetsType ==
  ASSUME TypeOK, NEW s \in Source
  PROVE  /\ Budgets(s) \in Seq(Semaphore)
         /\ Len(Budgets(s)) \in Nat \ {0}
         /\ Len(Budgets(s)) >= Len(budget[s])
         /\ DOMAIN Budgets(s) = 1..Len(Budgets(s))
         /\ \A k \in DOMAIN budget[s] : k \in DOMAIN Budgets(s) /\ Budgets(s)[k] = budget[s][k]
         /\ \A k \in DOMAIN Budgets(s) :
              \/ k \in DOMAIN budget[s]
              \/ Budgets(s)[k].holders = {} /\ Budgets(s)[k].waiting = {}
<1>1. budget[s] \in Seq(Semaphore) /\ DOMAIN budget[s] = 1..Len(budget[s]) BY DEF TypeOK
<1>2. CASE budget[s] = <<>>
  <2>1. Budgets(s) = <<Fresh(Undeclared)>> BY <1>2 DEF Budgets
  <2>2. Undeclared \in Nat BY DEF Undeclared
  <2>3. Fresh(Undeclared) \in Semaphore BY <2>2, FreshType
  <2>4. Fresh(Undeclared).holders = {} /\ Fresh(Undeclared).waiting = {} BY <2>2, FreshType
  <2>5. Len(Budgets(s)) = 1 /\ Budgets(s) \in Seq(Semaphore) /\ Budgets(s)[1] = Fresh(Undeclared)
    BY <2>1, <2>3
  <2>6. DOMAIN budget[s] = {} /\ Len(budget[s]) = 0 BY <1>2
  <2> QED BY <2>4, <2>5, <2>6
<1>3. CASE budget[s] # <<>>
  <2>1. Budgets(s) = budget[s] BY <1>3 DEF Budgets
  <2>2. Len(budget[s]) # 0 BY <1>1, <1>3
  <2> QED BY <1>1, <2>1, <2>2
<1> QED BY <1>2, <1>3

\* A request's place in them.
LEMMA JoinedType ==
  ASSUME TypeOK, NEW s \in Source, NEW r \in Request, Joined(s, r)
  PROVE  /\ budget' \in [Source -> Seq(Semaphore)]
         /\ ahead' \in [Request -> SUBSET Request]
         /\ \A t \in Source : t # s => budget'[t] = budget[t]
         /\ \A k \in DOMAIN budget[s] :
              /\ k \in DOMAIN budget'[s]
              /\ budget'[s][k].permits = budget[s][k].permits
              /\ budget'[s][k].holders = budget[s][k].holders
              /\ budget[s][k].waiting \subseteq budget'[s][k].waiting
         /\ \A k \in DOMAIN budget'[s] : k \notin DOMAIN budget[s] =>
              budget'[s][k].permits \in Nat /\ budget'[s][k].holders = {}
         /\ \A k \in DOMAIN budget'[s] : \A q \in budget'[s][k].waiting : q # r =>
              k \in DOMAIN budget[s] /\ q \in budget[s][k].waiting
         /\ \A k, l \in DOMAIN budget'[s] :
              /\ r \in budget'[s][k].waiting /\ r \in budget'[s][l].waiting
              /\ k \in DOMAIN budget[s] => r \notin budget[s][k].waiting
              /\ l \in DOMAIN budget[s] => r \notin budget[s][l].waiting
              => k = l
<1> DEFINE found == Budgets(s)
           newest == Len(found)
           new == [found EXCEPT ![newest].waiting = @ \cup {r}]
<1>1. /\ found \in Seq(Semaphore)
      /\ newest \in Nat \ {0}
      /\ DOMAIN found = 1..newest
      /\ \A k \in DOMAIN budget[s] : k \in DOMAIN found /\ found[k] = budget[s][k]
      /\ \A k \in DOMAIN found :
           \/ k \in DOMAIN budget[s]
           \/ found[k].holders = {} /\ found[k].waiting = {}
  BY BudgetsType
<1>2. budget' = [budget EXCEPT ![s] = new] BY DEF Joined
<1>3. ahead' = [ahead EXCEPT ![r] = found[newest].waiting] BY DEF Joined
<1> HIDE DEF found
<1>4. \A k \in DOMAIN found : found[k] \in Semaphore BY <1>1
<1>5. newest \in DOMAIN found BY <1>1
<1> HIDE DEF newest
<1>6. new = [k \in DOMAIN found |->
               IF k = newest THEN [found[k] EXCEPT !.waiting = @ \cup {r}] ELSE found[k]]
  BY <1>5
<1> HIDE DEF new
<1>7. ASSUME NEW k \in DOMAIN found
      PROVE  /\ new[k] \in Semaphore
             /\ new[k].permits = found[k].permits
             /\ new[k].holders = found[k].holders
             /\ k = newest => new[k].waiting = found[k].waiting \cup {r}
             /\ k # newest => new[k].waiting = found[k].waiting
             /\ found[k].permits \in Nat
  <2>1. found[k] \in Semaphore BY <1>4
  <2>2. CASE k = newest
    <3>1. new[k] = [found[k] EXCEPT !.waiting = @ \cup {r}] BY <1>6, <2>2
    <3> QED BY <2>1, <2>2, <3>1, CapType DEF Semaphore
  <2>3. CASE k # newest
    <3>1. new[k] = found[k] BY <1>6, <2>3
    <3> QED BY <2>1, <2>3, <3>1, CapType DEF Semaphore
  <2> QED BY <2>2, <2>3
<1>8. DOMAIN new = 1..newest BY <1>1, <1>6
<1>9. new \in Seq(Semaphore)
  <2>1. new \in [1..newest -> Semaphore] BY <1>1, <1>6, <1>7, <1>8
  <2> QED BY <1>1, <2>1
<1>10. budget'[s] = new /\ \A t \in Source : t # s => budget'[t] = budget[t]
  BY <1>2 DEF TypeOK
<1>11. budget' \in [Source -> Seq(Semaphore)] BY <1>2, <1>9 DEF TypeOK
<1>12. ahead' \in [Request -> SUBSET Request]
  <2>1. found[newest].waiting \in SUBSET Request BY <1>4, <1>5 DEF Semaphore
  <2> QED BY <1>3, <2>1 DEF TypeOK
<1>13. \A k \in DOMAIN budget[s] :
         /\ k \in DOMAIN new
         /\ new[k].permits = budget[s][k].permits
         /\ new[k].holders = budget[s][k].holders
         /\ budget[s][k].waiting \subseteq new[k].waiting
  <2> SUFFICES ASSUME NEW k \in DOMAIN budget[s]
               PROVE  /\ k \in DOMAIN new
                      /\ new[k].permits = budget[s][k].permits
                      /\ new[k].holders = budget[s][k].holders
                      /\ budget[s][k].waiting \subseteq new[k].waiting
    OBVIOUS
  <2>1. k \in DOMAIN found /\ found[k] = budget[s][k] BY <1>1
  <2> QED BY <1>1, <1>7, <1>8, <2>1
<1>14. \A k \in DOMAIN new : k \notin DOMAIN budget[s] => new[k].permits \in Nat /\ new[k].holders = {}
  <2> SUFFICES ASSUME NEW k \in DOMAIN new, k \notin DOMAIN budget[s]
               PROVE  new[k].permits \in Nat /\ new[k].holders = {}
    OBVIOUS
  <2>1. k \in DOMAIN found /\ found[k].holders = {} BY <1>1, <1>8
  <2> QED BY <1>7, <2>1
<1>15. ASSUME NEW k \in DOMAIN new, NEW q \in new[k].waiting, k # newest \/ q # r
       PROVE  k \in DOMAIN budget[s] /\ q \in budget[s][k].waiting
  <2>1. k \in DOMAIN found BY <1>1, <1>8
  <2>2. q \in found[k].waiting BY <1>7, <1>15, <2>1
  <2>3. k \in DOMAIN budget[s] BY <1>1, <2>1, <2>2
  <2> QED BY <1>1, <2>2, <2>3
<1>16. \A k, l \in DOMAIN new :
         /\ r \in new[k].waiting /\ r \in new[l].waiting
         /\ k \in DOMAIN budget[s] => r \notin budget[s][k].waiting
         /\ l \in DOMAIN budget[s] => r \notin budget[s][l].waiting
         => k = l
  <2>1. ASSUME NEW k \in DOMAIN new, r \in new[k].waiting,
               k \in DOMAIN budget[s] => r \notin budget[s][k].waiting
        PROVE  k = newest
    BY <1>15, <2>1
  <2> QED BY <2>1
<1> QED BY <1>10, <1>11, <1>12, <1>13, <1>14, <1>15, <1>16

-----------------------------------------------------------------------------
(* The pairs of a permit and a request, over the kinds of step there are. *)

Pairs == PermitsAreUsed /\ WaitersWait

InFlightNext(s) == {r \in Request : request'[r] = "running" /\ source'[r[1]] = s}

\* Futures are dropped: what is left keeps its permit, or its place.
LEMMA DropKeepsPairs ==
  ASSUME TypeOK, Pairs, NEW done \in SUBSET Request,
         budget' = Without(done),
         \A r \in Request :
            IF r \in done \/ request[r] \notin {"waiting", "running"}
            THEN request'[r] \notin {"waiting", "running"}
            ELSE request'[r] = request[r] /\ source'[r[1]] = source[r[1]]
  PROVE  Pairs'
<1>1. \A s \in Source :
        /\ DOMAIN budget'[s] = DOMAIN budget[s]
        /\ \A k \in DOMAIN budget[s] :
             /\ budget'[s][k].permits = budget[s][k].permits
             /\ budget'[s][k].holders = budget[s][k].holders \ done
             /\ budget'[s][k].waiting = budget[s][k].waiting \ done
  BY WithoutType
<1>2. \A s \in Source : InFlightNext(s) = InFlight(s) \ done
  BY DEF InFlight, InFlightNext
<1>3. \A s \in Source : \A k \in DOMAIN budget[s] :
        /\ budget[s][k].permits \in Nat
        /\ budget[s][k].holders \in SUBSET Request
        /\ budget[s][k].waiting \in SUBSET Request
  BY SemaphoreType
<1>4. ASSUME NEW s \in Source, NEW k \in DOMAIN budget'[s]
      PROVE  /\ Cardinality(budget'[s][k].holders) <= budget'[s][k].permits
             /\ budget'[s][k].holders \subseteq InFlightNext(s)
  <2>1. k \in DOMAIN budget[s] BY <1>1
  <2>2. /\ Cardinality(budget[s][k].holders) <= budget[s][k].permits
        /\ budget[s][k].holders \subseteq InFlight(s)
    BY <2>1 DEF Pairs, PermitsAreUsed
  <2>3. IsFiniteSet(budget[s][k].holders) BY <1>3, <2>1, FiniteRequests
  <2>4. Cardinality(budget[s][k].holders \ done) <= Cardinality(budget[s][k].holders)
    BY <2>3, FS_Subset
  <2>5. /\ Cardinality(budget[s][k].holders) \in Nat
        /\ Cardinality(budget[s][k].holders \ done) \in Nat
    BY <1>3, <2>1, FiniteRequests
  <2>6. /\ budget'[s][k].permits = budget[s][k].permits
        /\ budget'[s][k].holders = budget[s][k].holders \ done
    BY <1>1, <2>1
  <2>7. Cardinality(budget'[s][k].holders) <= budget'[s][k].permits
    BY <1>3, <2>1, <2>2, <2>4, <2>5, <2>6
  <2> QED BY <1>2, <2>2, <2>6, <2>7
<1>5. ASSUME NEW s \in Source, NEW r \in InFlightNext(s)
      PROVE  \E k \in DOMAIN budget'[s] : r \in budget'[s][k].holders
  BY <1>1, <1>2 DEF Pairs, PermitsAreUsed
<1>6. PermitsAreUsed' BY <1>4, <1>5 DEF PermitsAreUsed, InFlight, InFlightNext
<1>7. WaitersWait'
  <2> SUFFICES ASSUME NEW s \in Source, NEW k \in DOMAIN budget'[s],
                      NEW r \in budget'[s][k].waiting
               PROVE  /\ request'[r] = "waiting"
                      /\ source'[r[1]] = s
                      /\ \A l \in DOMAIN budget'[s] : r \in budget'[s][l].waiting => l = k
    BY DEF WaitersWait
  <2>1. k \in DOMAIN budget[s] /\ r \in budget[s][k].waiting /\ r \notin done BY <1>1
  <2>2. /\ request[r] = "waiting" /\ source[r[1]] = s
        /\ \A l \in DOMAIN budget[s] : r \in budget[s][l].waiting => l = k
    BY <2>1 DEF Pairs, WaitersWait
  <2>3. r \in Request BY <1>3, <2>1
  <2>4. request'[r] = request[r] /\ source'[r[1]] = source[r[1]] BY <2>1, <2>2, <2>3
  <2> QED BY <1>1, <2>2, <2>4
<1> QED BY <1>6, <1>7 DEF Pairs

\* A request that neither waits nor runs takes its place in the newest semaphore.
LEMMA JoinKeepsPairs ==
  ASSUME TypeOK, Pairs, NEW s \in Source, NEW r \in Request,
         Joined(s, r),
         request[r] \notin {"waiting", "running"},
         request' = [request EXCEPT ![r] = "waiting"],
         source'[r[1]] = s,
         \A q \in Request : request[q] \in {"waiting", "running"} => source'[q[1]] = source[q[1]]
  PROVE  Pairs'
<1>1. \A t \in Source : t # s => budget'[t] = budget[t] BY JoinedType
<1>2. \A k \in DOMAIN budget[s] :
        /\ k \in DOMAIN budget'[s]
        /\ budget'[s][k].permits = budget[s][k].permits
        /\ budget'[s][k].holders = budget[s][k].holders
  BY JoinedType
<1>3. \A k \in DOMAIN budget'[s] : k \notin DOMAIN budget[s] =>
        budget'[s][k].permits \in Nat /\ budget'[s][k].holders = {}
  BY JoinedType
<1>4. \A k \in DOMAIN budget'[s] : \A q \in budget'[s][k].waiting : q # r =>
        k \in DOMAIN budget[s] /\ q \in budget[s][k].waiting
  BY JoinedType
<1>5. \A t \in Source : \A k \in DOMAIN budget[t] : r \notin budget[t][k].waiting
  BY DEF Pairs, WaitersWait
<1>6. \A k, l \in DOMAIN budget'[s] :
        r \in budget'[s][k].waiting /\ r \in budget'[s][l].waiting => k = l
  BY <1>5, JoinedType
<1>7. \A q \in Request : IF q = r THEN request'[q] = "waiting" ELSE request'[q] = request[q]
  BY DEF TypeOK
<1>8. \A t \in Source : InFlightNext(t) = InFlight(t)
  <2> SUFFICES ASSUME NEW t \in Source, NEW q \in Request
               PROVE  (request'[q] = "running" /\ source'[q[1]] = t)
                      <=> (request[q] = "running" /\ source[q[1]] = t)
    BY DEF InFlight, InFlightNext
  <2> QED BY <1>7
<1>9. PermitsAreUsed'
  <2>1. ASSUME NEW t \in Source, NEW k \in DOMAIN budget'[t]
        PROVE  /\ Cardinality(budget'[t][k].holders) <= budget'[t][k].permits
               /\ budget'[t][k].holders \subseteq InFlightNext(t)
    <3>1. CASE t # s BY <1>1, <1>8, <3>1 DEF Pairs, PermitsAreUsed
    <3>2. CASE t = s /\ k \in DOMAIN budget[s]
      <4>1. /\ Cardinality(budget[s][k].holders) <= budget[s][k].permits
            /\ budget[s][k].holders \subseteq InFlight(s)
        BY <3>2 DEF Pairs, PermitsAreUsed
      <4> QED BY <1>2, <1>8, <3>2, <4>1
    <3>3. CASE t = s /\ k \notin DOMAIN budget[s]
      <4>1. budget'[t][k].holders = {} /\ budget'[t][k].permits \in Nat BY <1>3, <3>3
      <4> QED BY <4>1, FS_EmptySet
    <3> QED BY <3>1, <3>2, <3>3
  <2>2. ASSUME NEW t \in Source, NEW q \in InFlightNext(t)
        PROVE  \E k \in DOMAIN budget'[t] : q \in budget'[t][k].holders
    <3>1. PICK k \in DOMAIN budget[t] : q \in budget[t][k].holders
      BY <1>8 DEF Pairs, PermitsAreUsed
    <3>2. k \in DOMAIN budget'[t] /\ q \in budget'[t][k].holders BY <1>1, <1>2, <3>1
    <3> QED BY <3>2
  <2> QED BY <2>1, <2>2 DEF PermitsAreUsed, InFlight, InFlightNext
<1>10. WaitersWait'
  <2> SUFFICES ASSUME NEW t \in Source, NEW k \in DOMAIN budget'[t],
                      NEW q \in budget'[t][k].waiting
               PROVE  /\ request'[q] = "waiting"
                      /\ source'[q[1]] = t
                      /\ \A l \in DOMAIN budget'[t] : q \in budget'[t][l].waiting => l = k
    BY DEF WaitersWait
  <2>1. CASE q = r
    <3>1. t = s BY <1>1, <1>5, <2>1
    <3> QED BY <1>6, <1>7, <2>1, <3>1
  <2>2. CASE q # r
    <3>1. k \in DOMAIN budget[t] /\ q \in budget[t][k].waiting BY <1>1, <1>4, <2>2
    <3>2. /\ request[q] = "waiting" /\ source[q[1]] = t
          /\ \A l \in DOMAIN budget[t] : q \in budget[t][l].waiting => l = k
      BY <3>1 DEF Pairs, WaitersWait
    <3>3. q \in Request BY <3>1, SemaphoreType
    <3>4. ASSUME NEW l \in DOMAIN budget'[t], q \in budget'[t][l].waiting
          PROVE  l = k
      <4>1. l \in DOMAIN budget[t] /\ q \in budget[t][l].waiting BY <1>1, <1>4, <2>2, <3>4
      <4> QED BY <3>2, <4>1
    <3> QED BY <1>7, <2>2, <3>2, <3>3, <3>4
  <2> QED BY <2>1, <2>2
<1> QED BY <1>9, <1>10 DEF Pairs

\* A permit is handed to a request that waited in the same semaphore.
LEMMA GrantType ==
  ASSUME TypeOK, NEW s \in Source, NEW k \in DOMAIN budget[s], NEW r \in Request, Grant(s, k, r)
  PROVE  /\ budget' \in [Source -> Seq(Semaphore)]
         /\ \A t \in Source : DOMAIN budget'[t] = DOMAIN budget[t]
         /\ \A t \in Source : t # s => budget'[t] = budget[t]
         /\ \A l \in DOMAIN budget[s] : l # k => budget'[s][l] = budget[s][l]
         /\ budget'[s][k].permits = budget[s][k].permits
         /\ budget'[s][k].waiting = budget[s][k].waiting \ {r}
         /\ budget'[s][k].holders = budget[s][k].holders \cup {r}
<1> DEFINE old == budget[s]
           given == [old[k] EXCEPT !.waiting = @ \ {r}, !.holders = @ \cup {r}]
           new == [old EXCEPT ![k] = given]
<1>1. old \in Seq(Semaphore) BY DEF TypeOK
<1>2. budget' = [budget EXCEPT ![s][k].waiting = @ \ {r}, ![s][k].holders = @ \cup {r}]
  BY DEF Grant
<1>3. old[k] \in Semaphore BY SemaphoreType
<1>4. /\ given \in Semaphore
      /\ given.permits = old[k].permits
      /\ given.waiting = old[k].waiting \ {r}
      /\ given.holders = old[k].holders \cup {r}
  BY <1>3 DEF Semaphore
<1>5. budget'[s] = new /\ \A t \in Source : t # s => budget'[t] = budget[t]
  BY <1>2, <1>3 DEF TypeOK, Semaphore
<1>6. new \in Seq(Semaphore) /\ DOMAIN new = DOMAIN old BY <1>1, <1>4
<1>7. new[k] = given /\ \A l \in DOMAIN old : l # k => new[l] = old[l] BY <1>1
<1>8. budget' = [budget EXCEPT ![s] = new] BY <1>2, <1>3, <1>5 DEF TypeOK, Semaphore
<1>9. budget' \in [Source -> Seq(Semaphore)] BY <1>6, <1>8 DEF TypeOK
<1> QED BY <1>4, <1>5, <1>6, <1>7, <1>9

LEMMA GrantKeepsPairs ==
  ASSUME TypeOK, Pairs, NEW s \in Source, NEW k \in DOMAIN budget[s], NEW r \in Request,
         Grant(s, k, r)
  PROVE  Pairs'
<1>1. /\ \A t \in Source : DOMAIN budget'[t] = DOMAIN budget[t]
      /\ \A t \in Source : t # s => budget'[t] = budget[t]
      /\ \A l \in DOMAIN budget[s] : l # k => budget'[s][l] = budget[s][l]
      /\ budget'[s][k].permits = budget[s][k].permits
      /\ budget'[s][k].waiting = budget[s][k].waiting \ {r}
      /\ budget'[s][k].holders = budget[s][k].holders \cup {r}
  BY GrantType
<1>2. /\ request[r] = "waiting" /\ source[r[1]] = s
      /\ \A l \in DOMAIN budget[s] : r \in budget[s][l].waiting => l = k
  BY DEF Pairs, WaitersWait, Grant
<1>3. /\ source' = source
      /\ request'[r] = "running"
      /\ \A q \in Request : q # r => request'[q] = request[q]
  BY DEF Grant, TypeOK
<1>4. \A t \in Source : InFlightNext(t) = IF t = s THEN InFlight(t) \cup {r} ELSE InFlight(t)
  BY <1>2, <1>3 DEF InFlight, InFlightNext
<1>5. Cardinality(budget'[s][k].holders) <= budget'[s][k].permits
  <2>1. budget[s][k].holders \in SUBSET Request /\ budget[s][k].permits \in Nat
    BY SemaphoreType
  <2>2. Cardinality(budget[s][k].holders) < budget[s][k].permits BY DEF Grant
  <2>3. Cardinality(budget[s][k].holders) \in Nat BY <2>1, FiniteRequests
  <2>4. /\ Cardinality(budget[s][k].holders \cup {r}) \in Nat
        /\ Cardinality(budget[s][k].holders \cup {r}) <= Cardinality(budget[s][k].holders) + 1
    BY <2>1, OneMoreHolder
  <2> QED BY <1>1, <2>1, <2>2, <2>3, <2>4
<1>6. PermitsAreUsed'
  <2>1. ASSUME NEW t \in Source, NEW l \in DOMAIN budget'[t]
        PROVE  /\ Cardinality(budget'[t][l].holders) <= budget'[t][l].permits
               /\ budget'[t][l].holders \subseteq InFlightNext(t)
    <3>1. l \in DOMAIN budget[t] BY <1>1
    <3>2. /\ Cardinality(budget[t][l].holders) <= budget[t][l].permits
          /\ budget[t][l].holders \subseteq InFlight(t)
      BY <3>1 DEF Pairs, PermitsAreUsed
    <3>3. CASE t = s /\ l = k BY <1>1, <1>4, <1>5, <3>2, <3>3
    <3>4. CASE t # s \/ l # k
      <4>1. budget'[t][l] = budget[t][l] BY <1>1, <3>1, <3>4
      <4> QED BY <1>4, <3>2, <4>1
    <3> QED BY <3>3, <3>4
  <2>2. ASSUME NEW t \in Source, NEW q \in InFlightNext(t)
        PROVE  \E l \in DOMAIN budget'[t] : q \in budget'[t][l].holders
    <3>1. CASE q = r
      <4>1. t = s BY <1>2, <1>3, <3>1 DEF InFlightNext
      <4> QED BY <1>1, <3>1, <4>1
    <3>2. CASE q # r
      <4>1. PICK l \in DOMAIN budget[t] : q \in budget[t][l].holders
        BY <1>4, <3>2 DEF Pairs, PermitsAreUsed
      <4>2. q \in budget'[t][l].holders BY <1>1, <4>1
      <4> QED BY <1>1, <4>2
    <3> QED BY <3>1, <3>2
  <2> QED BY <2>1, <2>2 DEF PermitsAreUsed, InFlight, InFlightNext
<1>7. WaitersWait'
  <2> SUFFICES ASSUME NEW t \in Source, NEW l \in DOMAIN budget'[t],
                      NEW q \in budget'[t][l].waiting
               PROVE  /\ request'[q] = "waiting"
                      /\ source'[q[1]] = t
                      /\ \A m \in DOMAIN budget'[t] : q \in budget'[t][m].waiting => m = l
    BY DEF WaitersWait
  <2>1. \A m \in DOMAIN budget'[t] : q \in budget'[t][m].waiting =>
           m \in DOMAIN budget[t] /\ q \in budget[t][m].waiting
    BY <1>1
  <2>2. /\ request[q] = "waiting" /\ source[q[1]] = t
        /\ \A m \in DOMAIN budget[t] : q \in budget[t][m].waiting => m = l
    BY <2>1 DEF Pairs, WaitersWait
  <2>3. q \in Request BY <2>1, SemaphoreType
  <2>4. q # r
    <3> SUFFICES ASSUME q = r PROVE FALSE OBVIOUS
    <3>1. t = s BY <1>2, <2>2
    <3>2. l = k BY <1>2, <2>1, <3>1
    <3> QED BY <1>1, <3>1, <3>2
  <2> QED BY <1>3, <2>1, <2>2, <2>3, <2>4
<1> QED BY <1>6, <1>7 DEF Pairs

\* A semaphore is added that nobody has yet.
LEMMA ReinstallKeepsPairs ==
  ASSUME TypeOK, Pairs, NEW s \in Source, Reinstall(s)
  PROVE  /\ budget' \in [Source -> Seq(Semaphore)]
         /\ Pairs'
<1> DEFINE old == budget[s]
           fresh == Fresh(Undeclared)
           new == Append(old, fresh)
<1>1. /\ fresh \in Semaphore /\ fresh.holders = {} /\ fresh.waiting = {}
      /\ fresh.permits \in Nat
  <2>1. Undeclared \in Nat BY DEF Undeclared
  <2>2. fresh \in Semaphore /\ fresh.holders = {} /\ fresh.waiting = {} BY <2>1, FreshType
  <2> QED BY <2>2, CapType DEF Semaphore
<1>2. budget' = [budget EXCEPT ![s] = new] BY DEF Reinstall
<1>3. old \in Seq(Semaphore) BY DEF TypeOK
<1> HIDE DEF fresh, old
<1>4. /\ new \in Seq(Semaphore)
      /\ \A k \in DOMAIN old : k \in DOMAIN new /\ new[k] = old[k]
      /\ \A k \in DOMAIN new : k \in DOMAIN old \/ new[k] = fresh
  BY <1>1, <1>3
<1> HIDE DEF new
<1>5. budget'[s] = new /\ \A t \in Source : t # s => budget'[t] = budget[t]
  BY <1>2 DEF TypeOK
<1>6. budget' \in [Source -> Seq(Semaphore)] BY <1>2, <1>4 DEF TypeOK
<1>7. \A t \in Source : InFlightNext(t) = InFlight(t) BY DEF InFlight, InFlightNext, Reinstall
<1>8. ASSUME NEW t \in Source, NEW k \in DOMAIN budget'[t]
      PROVE  \/ k \in DOMAIN budget[t] /\ budget'[t][k] = budget[t][k]
             \/ budget'[t][k] = fresh
  BY <1>4, <1>5 DEF old
<1>9. PermitsAreUsed'
  <2>1. ASSUME NEW t \in Source, NEW k \in DOMAIN budget'[t]
        PROVE  /\ Cardinality(budget'[t][k].holders) <= budget'[t][k].permits
               /\ budget'[t][k].holders \subseteq InFlightNext(t)
    <3>1. CASE k \in DOMAIN budget[t] /\ budget'[t][k] = budget[t][k]
      BY <1>7, <3>1 DEF Pairs, PermitsAreUsed
    <3>2. CASE budget'[t][k] = fresh BY <1>1, <3>2, FS_EmptySet
    <3> QED BY <1>8, <3>1, <3>2
  <2>2. ASSUME NEW t \in Source, NEW q \in InFlightNext(t)
        PROVE  \E k \in DOMAIN budget'[t] : q \in budget'[t][k].holders
    <3>1. PICK k \in DOMAIN budget[t] : q \in budget[t][k].holders
      BY <1>7 DEF Pairs, PermitsAreUsed
    <3>2. k \in DOMAIN budget'[t] /\ budget'[t][k] = budget[t][k] BY <1>4, <1>5 DEF old
    <3> QED BY <3>1, <3>2
  <2> QED BY <2>1, <2>2 DEF PermitsAreUsed, InFlight, InFlightNext
<1>10. WaitersWait'
  <2> SUFFICES ASSUME NEW t \in Source, NEW k \in DOMAIN budget'[t],
                      NEW q \in budget'[t][k].waiting
               PROVE  /\ request'[q] = "waiting"
                      /\ source'[q[1]] = t
                      /\ \A l \in DOMAIN budget'[t] : q \in budget'[t][l].waiting => l = k
    BY DEF WaitersWait
  <2>1. \A l \in DOMAIN budget'[t] : q \in budget'[t][l].waiting =>
           l \in DOMAIN budget[t] /\ q \in budget[t][l].waiting
    BY <1>1, <1>8
  <2>2. UNCHANGED <<request, source>> BY DEF Reinstall
  <2> QED BY <2>1, <2>2 DEF Pairs, WaitersWait
<1> QED BY <1>6, <1>9, <1>10 DEF Pairs

-----------------------------------------------------------------------------
(* The invariant. *)

\* The rest of the invariant, which does not speak of the semaphores.
Order == IdleAsksNothing /\ ListComesFirst

LEMMA UnqueuedType ==
  ASSUME TypeOK, NEW done \in SUBSET Request
  PROVE  Unqueued(done) \in [Request -> SUBSET Request]
  BY DEF Unqueued, TypeOK

\* The process starts.
LEMMA StartHolds ==
  ASSUME source = [h \in Handler |-> NoSource],
         request = [r \in Request |-> "none"],
         ahead = [r \in Request |-> {}],
         budget \in Registered,
         declared \in [Source -> Nat]
  PROVE  IInv
<1>1. \A s \in Source : Fresh(StoredLimit(s)) \in Semaphore /\ Fresh(StoredLimit(s)).holders = {}
                        /\ Fresh(StoredLimit(s)).waiting = {}
                        /\ Fresh(StoredLimit(s)).permits \in Nat
  <2>1. \A s \in Source : StoredLimit(s) \in Nat BY DEF StoredLimit, Undeclared
  <2>2. \A s \in Source : Fresh(StoredLimit(s)) \in Semaphore /\ Fresh(StoredLimit(s)).holders = {}
                          /\ Fresh(StoredLimit(s)).waiting = {}
    BY <2>1, FreshType
  <2> QED BY <2>2, CapType DEF Semaphore
<1>2. \A s \in Source : budget[s] = <<>> \/ budget[s] = <<Fresh(StoredLimit(s))>>
  BY DEF Registered
<1>3. ASSUME NEW s \in Source
      PROVE  budget[s] \in Seq(Semaphore)
  <2>1. CASE budget[s] = <<>> BY <2>1
  <2>2. CASE budget[s] = <<Fresh(StoredLimit(s))>>
    <3> DEFINE fresh == Fresh(StoredLimit(s))
    <3>1. fresh \in Semaphore BY <1>1
    <3> HIDE DEF fresh
    <3>2. <<fresh>> \in Seq(Semaphore) BY <3>1
    <3> QED BY <2>2, <3>2 DEF fresh
  <2> QED BY <1>2, <2>1, <2>2
<1>4. budget \in [Source -> Seq(Semaphore)] BY <1>3 DEF Registered
<1>5. TypeOK BY <1>4 DEF TypeOK, Status
<1>6. ASSUME NEW s \in Source, NEW k \in DOMAIN budget[s]
      PROVE  budget[s][k].holders = {} /\ budget[s][k].waiting = {} /\ budget[s][k].permits \in Nat
  <2> DEFINE fresh == Fresh(StoredLimit(s))
  <2>1. fresh.holders = {} /\ fresh.waiting = {} /\ fresh.permits \in Nat BY <1>1
  <2>2. budget[s] = <<>> \/ budget[s] = <<fresh>> BY <1>2
  <2> HIDE DEF fresh
  <2>3. budget[s] = <<fresh>> BY <2>2
  <2>4. k = 1 BY <2>3
  <2> QED BY <2>1, <2>3, <2>4
<1>7. \A s \in Source : InFlight(s) = {} BY DEF InFlight
<1>8. PermitsAreUsed
  <2>1. ASSUME NEW s \in Source, NEW k \in DOMAIN budget[s]
        PROVE  /\ Cardinality(budget[s][k].holders) <= budget[s][k].permits
               /\ budget[s][k].holders \subseteq InFlight(s)
    <3>1. budget[s][k].holders = {} /\ budget[s][k].permits \in Nat BY <1>6
    <3>2. Cardinality(budget[s][k].holders) = 0 BY <3>1, FS_EmptySet
    <3> QED BY <3>1, <3>2
  <2> QED BY <1>7, <2>1 DEF PermitsAreUsed
<1>9. WaitersWait BY <1>6 DEF WaitersWait
<1>10. IdleAsksNothing BY DEF IdleAsksNothing
<1>11. ListComesFirst BY OfType DEF ListComesFirst
<1> QED BY <1>5, <1>8, <1>9, <1>10, <1>11 DEF IInv

\* A handler returns, fails or panics: with its futures go its permits and its places.
LEMMA LeaveHolds ==
  ASSUME IInv, NEW h \in Handler, Leave(h), declared' \in [Source -> Nat]
  PROVE  IInv'
<1> USE DEF IInv
<1>1. Of(h) \in SUBSET Request /\ \A r \in Request : r \in Of(h) <=> r[1] = h BY OfType
<1>2. /\ source' = [source EXCEPT ![h] = NoSource]
      /\ request' = [r \in Request |-> IF r \in Of(h) THEN "none" ELSE request[r]]
      /\ ahead' = Unqueued(Of(h))
      /\ budget' = Without(Of(h))
  BY DEF Leave
<1>3. TypeOK'
  <2>1. budget' \in [Source -> Seq(Semaphore)] BY <1>1, <1>2, WithoutType
  <2>2. ahead' \in [Request -> SUBSET Request] BY <1>1, <1>2, UnqueuedType
  <2> QED BY <1>2, <2>1, <2>2 DEF TypeOK, Status
<1>4. \A r \in Request : r \notin Of(h) => source'[r[1]] = source[r[1]]
  BY <1>1, <1>2, RequestParts DEF TypeOK
<1>5. Pairs'
  <2>1. \A r \in Request :
           IF r \in Of(h) \/ request[r] \notin {"waiting", "running"}
           THEN request'[r] \notin {"waiting", "running"}
           ELSE request'[r] = request[r] /\ source'[r[1]] = source[r[1]]
    BY <1>2, <1>4
  <2>2. Pairs BY DEF Pairs
  <2> QED BY <1>1, <1>2, <2>1, <2>2, DropKeepsPairs
<1>6. IdleAsksNothing'
  BY <1>2, <1>4 DEF IdleAsksNothing, Working
<1>7. ListComesFirst'
  <2> SUFFICES ASSUME NEW g \in Handler, NEW p \in 1..MaxPages, request'[<<g, p>>] # "none"
               PROVE  request'[<<g, 0>>] = "done"
    BY DEF ListComesFirst
  <2>1. <<g, p>> \in Request /\ <<g, 0>> \in Request BY OfType
  <2>2. g # h BY <1>1, <1>2, <2>1
  <2> QED BY <1>1, <1>2, <2>1, <2>2 DEF ListComesFirst
<1> QED BY <1>3, <1>5, <1>6, <1>7 DEF Pairs

\* A permit comes back while its handler goes on.
LEMMA DoneHolds ==
  ASSUME IInv, NEW r \in Request, request[r] = "running",
         request' \in [Request -> Status],
         request'[r] = "done",
         \A q \in Request : q # r => \/ request'[q] = request[q]
                                     \/ /\ r = <<q[1], 0>>
                                        /\ request[q] = "none"
                                        /\ request'[q] = "due",
         ahead' = Unqueued({r}), budget' = Without({r}), source' = source,
         declared' \in [Source -> Nat]
  PROVE  IInv'
<1> USE DEF IInv
<1>1. {r} \in SUBSET Request OBVIOUS
<1>2. TypeOK'
  <2>1. budget' \in [Source -> Seq(Semaphore)] BY <1>1, WithoutType
  <2>2. ahead' \in [Request -> SUBSET Request] BY <1>1, UnqueuedType
  <2> QED BY <2>1, <2>2 DEF TypeOK
<1>3. Pairs'
  <2>1. \A q \in Request :
           IF q \in {r} \/ request[q] \notin {"waiting", "running"}
           THEN request'[q] \notin {"waiting", "running"}
           ELSE request'[q] = request[q] /\ source'[q[1]] = source[q[1]]
    OBVIOUS
  <2>2. Pairs BY DEF Pairs
  <2> QED BY <1>1, <2>1, <2>2, DropKeepsPairs
<1>4. Working(r[1]) BY DEF IdleAsksNothing
<1>5. IdleAsksNothing'
  <2> SUFFICES ASSUME NEW q \in Request, source'[q[1]] = NoSource
               PROVE  request'[q] = "none"
    BY DEF IdleAsksNothing, Working
  <2>1. request[q] = "none" /\ q[1] # r[1] BY <1>4 DEF IdleAsksNothing, Working
  <2> QED BY <2>1
<1>6. ListComesFirst'
  <2> SUFFICES ASSUME NEW g \in Handler, NEW p \in 1..MaxPages, request'[<<g, p>>] # "none"
               PROVE  request'[<<g, 0>>] = "done"
    BY DEF ListComesFirst
  <2>1. <<g, p>> \in Request /\ <<g, 0>> \in Request BY OfType
  <2>2. CASE request[<<g, p>>] = "none"
    <3>1. r = <<g, 0>> BY <2>1, <2>2
    <3> QED BY <3>1
  <2>3. CASE request[<<g, p>>] # "none"
    <3>1. request[<<g, 0>>] = "done" BY <2>3 DEF ListComesFirst
    <3> QED BY <2>1, <3>1
  <2> QED BY <2>2, <2>3
<1> QED BY <1>2, <1>3, <1>5, <1>6 DEF Pairs

\* A request is made.
LEMMA AskHolds ==
  ASSUME IInv, NEW s \in Source, NEW r \in Request, Joined(s, r),
         request[r] \in {"none", "due"},
         request' = [request EXCEPT ![r] = "waiting"],
         r[2] # 0 => request[r] = "due",
         source' = [source EXCEPT ![r[1]] = s],
         ~Working(r[1]) \/ source[r[1]] = s,
         r[2] = 0 => ~Working(r[1]),
         declared' = declared
  PROVE  IInv'
<1> USE DEF IInv
<1>1. r[1] \in Handler /\ r[2] \in 0..MaxPages /\ r = <<r[1], r[2]>> BY RequestParts
<1>2. source'[r[1]] = s BY <1>1 DEF TypeOK
<1>3. \A q \in Request : q[1] # r[1] => source'[q[1]] = source[q[1]]
  BY RequestParts DEF TypeOK
<1>4. TypeOK'
  <2>1. budget' \in [Source -> Seq(Semaphore)] /\ ahead' \in [Request -> SUBSET Request]
    BY JoinedType
  <2> QED BY <1>1, <2>1 DEF TypeOK, Status
<1>5. Pairs'
  <2>1. ASSUME NEW q \in Request, request[q] \in {"waiting", "running"}
        PROVE  source'[q[1]] = source[q[1]]
    <3>1. Working(q[1]) BY <2>1 DEF IdleAsksNothing
    <3>2. CASE q[1] = r[1] BY <1>2, <3>1, <3>2
    <3> QED BY <1>3, <3>2
  <2>2. Pairs BY DEF Pairs
  <2> QED BY <1>2, <2>1, <2>2, JoinKeepsPairs
<1>6. IdleAsksNothing'
  <2> SUFFICES ASSUME NEW q \in Request, source'[q[1]] = NoSource
               PROVE  request'[q] = "none"
    BY DEF IdleAsksNothing, Working
  <2>1. q[1] # r[1] BY <1>2, LimiterAssumption
  <2> QED BY <1>3, <2>1 DEF IdleAsksNothing, Working, TypeOK
<1>7. ListComesFirst'
  <2> SUFFICES ASSUME NEW g \in Handler, NEW p \in 1..MaxPages, request'[<<g, p>>] # "none"
               PROVE  request'[<<g, 0>>] = "done"
    BY DEF ListComesFirst
  <2>1. <<g, p>> \in Request /\ <<g, 0>> \in Request BY OfType
  <2>2. request[<<g, p>>] # "none"
    <3>1. CASE r = <<g, p>>
      <4>1. r[2] # 0 BY <3>1, LimiterAssumption
      <4> QED BY <3>1, <4>1
    <3>2. CASE r # <<g, p>> BY <2>1, <3>2 DEF TypeOK
    <3> QED BY <3>1, <3>2
  <2>3. request[<<g, 0>>] = "done" BY <2>2 DEF ListComesFirst
  <2>4. r # <<g, 0>> BY <2>3
  <2> QED BY <2>1, <2>3, <2>4 DEF TypeOK
<1> QED BY <1>4, <1>5, <1>6, <1>7 DEF Pairs

LEMMA ListedHolds ==
  ASSUME IInv, NEW h \in Handler, Listed(h)
  PROVE  IInv'
<1> USE DEF IInv
<1> DEFINE r == <<h, 0>>
<1>1. PICK n \in 1..MaxPages :
        request' = [q \in Request |-> IF q \in {h} \X (1..n) THEN "due"
                                      ELSE IF q = r THEN "done" ELSE request[q]]
  BY DEF Listed
<1>2. r \in Request /\ request[r] = "running" BY OfType DEF Listed, Returned
<1>3. request' \in [Request -> Status] BY <1>1 DEF TypeOK, Status
<1>4. request'[r] = "done" BY <1>1, <1>2
<1>5. ASSUME NEW q \in Request, q # r
      PROVE  \/ request'[q] = request[q]
             \/ r = <<q[1], 0>> /\ request[q] = "none" /\ request'[q] = "due"
  <2>1. CASE q \in {h} \X (1..n)
    <3>1. request'[q] = "due" BY <1>1, <2>1
    <3>2. q[1] = h /\ q[2] \in 1..MaxPages /\ q = <<h, q[2]>>
      BY <1>1, <2>1, LimiterAssumption
    <3>3. request[q] = "none" BY <1>2, <3>2 DEF ListComesFirst
    <3> QED BY <3>1, <3>2, <3>3
  <2>2. CASE q \notin {h} \X (1..n) BY <1>1, <1>5, <2>2
  <2> QED BY <2>1, <2>2
<1>6. /\ ahead' = Unqueued({r}) /\ budget' = Without({r}) /\ source' = source
  BY DEF Listed
<1>7. declared' \in [Source -> Nat]
  <2>1. declared' = [declared EXCEPT ![source[h]] = Declaration[source[h]]]
    BY DEF Listed, Declared
  <2>2. source[h] \in Source BY <1>2 DEF IdleAsksNothing, Working, TypeOK
  <2> QED BY <2>1, <2>2, LimiterAssumption DEF TypeOK
<1> QED BY <1>2, <1>3, <1>4, <1>5, <1>6, <1>7, DoneHolds

LEMMA HandlerHolds ==
  ASSUME IInv, NEW h \in Handler, HandlerStep(h)
  PROVE  IInv'
<1> USE DEF IInv
<1>1. ASSUME NEW s \in Source, Begin(h, s) PROVE IInv'
  <2> DEFINE r == <<h, 0>>
  <2>1. r \in Request /\ r[1] = h /\ r[2] = 0 BY OfType
  <2>2. ~Working(h) /\ request[r] = "none" BY <1>1, <2>1 DEF Begin, IdleAsksNothing
  <2>3. /\ Joined(s, r) /\ request' = [request EXCEPT ![r] = "waiting"]
        /\ source' = [source EXCEPT ![r[1]] = s] /\ declared' = declared
    BY <1>1 DEF Begin
  <2> HIDE DEF r
  <2> QED BY <2>1, <2>2, <2>3, AskHolds
<1>2. CASE Listed(h) BY <1>2, ListedHolds
<1>3. CASE ListedNothing(h)
  <2>1. <<h, 0>> \in Request /\ request[<<h, 0>>] = "running"
    BY <1>3, OfType DEF ListedNothing, Returned
  <2>2. source[h] \in Source BY <2>1 DEF IdleAsksNothing, Working, TypeOK
  <2>3. declared' \in [Source -> Nat]
    BY <1>3, <2>2, LimiterAssumption DEF ListedNothing, Declared, TypeOK
  <2> QED BY <1>3, <2>3, LeaveHolds DEF ListedNothing
<1>4. ASSUME NEW p \in 1..MaxPages, Ask(h, p) PROVE IInv'
  <2> DEFINE r == <<h, p>>
             s == source[h]
  <2>0. r \in Request BY OfType
  <2>1. r[1] = h /\ r[2] = p /\ p # 0 BY LimiterAssumption
  <2>2. request[r] = "due" BY <1>4 DEF Ask
  <2>3. Working(h) BY <2>0, <2>1, <2>2 DEF IdleAsksNothing
  <2>4. s \in Source BY <2>3 DEF Working, TypeOK
  <2>5. source' = [source EXCEPT ![r[1]] = s] BY <1>4, <2>1 DEF Ask, TypeOK
  <2>6. /\ Joined(s, r) /\ request' = [request EXCEPT ![r] = "waiting"]
        /\ declared' = declared
    BY <1>4 DEF Ask
  <2>7. source[r[1]] = s BY <2>1
  <2> HIDE DEF r, s
  <2> QED BY <2>0, <2>1, <2>2, <2>4, <2>5, <2>6, <2>7, AskHolds
<1>5. ASSUME NEW p \in 1..MaxPages, Fetched(h, p) PROVE IInv'
  <2> DEFINE r == <<h, p>>
  <2>1. r \in Request BY OfType
  <2>2. /\ request[r] = "running" /\ request' = [request EXCEPT ![r] = "done"]
        /\ ahead' = Unqueued({r}) /\ budget' = Without({r}) /\ source' = source
        /\ declared' = declared
    BY <1>5 DEF Fetched
  <2> HIDE DEF r
  <2>3. request' \in [Request -> Status] BY <2>2 DEF TypeOK, Status
  <2>4. request'[r] = "done" /\ \A q \in Request : q # r => request'[q] = request[q]
    BY <2>1, <2>2 DEF TypeOK
  <2>5. declared' \in [Source -> Nat] BY <2>2 DEF TypeOK
  <2> QED BY <2>1, <2>2, <2>3, <2>4, <2>5, DoneHolds
<1>6. ASSUME NEW p \in 1..MaxPages, FetchedLast(h, p) PROVE IInv'
  BY <1>6, LeaveHolds DEF FetchedLast, TypeOK
<1>7. ASSUME NEW p \in 0..MaxPages, Fail(h, p) PROVE IInv'
  BY <1>7, LeaveHolds DEF Fail, TypeOK
<1> QED BY <1>1, <1>2, <1>3, <1>4, <1>5, <1>6, <1>7 DEF HandlerStep

LEMMA StepHolds ==
  ASSUME IInv, [Next]_vars
  PROVE  IInv'
<1> USE DEF IInv
<1>1. ASSUME NEW h \in Handler, HandlerStep(h) PROVE IInv'
  BY <1>1, HandlerHolds
<1>2. ASSUME NEW s \in Source, SemaphoreStep(s) PROVE IInv'
  <2>1. PICK k \in DOMAIN budget[s], r \in Request : Grant(s, k, r)
    BY <1>2 DEF SemaphoreStep
  <2>2. Pairs' BY <2>1, GrantKeepsPairs DEF Pairs
  <2>3. /\ request' = [request EXCEPT ![r] = "running"] /\ ahead' = Unqueued({r})
        /\ UNCHANGED <<source, declared>>
    BY <2>1 DEF Grant
  <2>4. request[r] = "waiting" BY <2>1 DEF WaitersWait, Grant
  <2>5. TypeOK'
    <3>1. budget' \in [Source -> Seq(Semaphore)] BY <2>1, GrantType
    <3>2. ahead' \in [Request -> SUBSET Request] BY <2>3, UnqueuedType
    <3> QED BY <2>3, <3>1, <3>2 DEF TypeOK, Status
  <2>6. IdleAsksNothing' BY <2>3, <2>4 DEF IdleAsksNothing, Working, TypeOK
  <2>7. ListComesFirst'
    <3> SUFFICES ASSUME NEW g \in Handler, NEW p \in 1..MaxPages, request'[<<g, p>>] # "none"
                 PROVE  request'[<<g, 0>>] = "done"
      BY DEF ListComesFirst
    <3>1. <<g, p>> \in Request /\ <<g, 0>> \in Request BY OfType
    <3>2. request[<<g, p>>] # "none" BY <2>3, <2>4, <3>1 DEF TypeOK
    <3>3. request[<<g, 0>>] = "done" BY <3>2 DEF ListComesFirst
    <3> QED BY <2>3, <2>4, <3>1, <3>3 DEF TypeOK
  <2> QED BY <2>2, <2>5, <2>6, <2>7 DEF Pairs
<1>3. ASSUME NEW s \in Source, Reinstall(s) PROVE IInv'
  <2>1. budget' \in [Source -> Seq(Semaphore)] /\ Pairs' BY <1>3, ReinstallKeepsPairs DEF Pairs
  <2>2. UNCHANGED <<source, request, ahead, declared>> BY <1>3 DEF Reinstall
  <2> QED BY <2>1, <2>2 DEF Pairs, TypeOK, IdleAsksNothing, ListComesFirst, Working
<1>4. CASE Restart
  <2>1. /\ source' = [h \in Handler |-> NoSource] /\ request' = [r \in Request |-> "none"]
        /\ ahead' = [r \in Request |-> {}] /\ budget' \in Registered
        /\ declared' \in [Source -> Nat]
    BY <1>4 DEF Restart, TypeOK
  <2>2. (source = [h \in Handler |-> NoSource] /\ request = [r \in Request |-> "none"]
         /\ ahead = [r \in Request |-> {}] /\ budget \in Registered
         /\ declared \in [Source -> Nat]  =>  IInv)'
    BY StartHolds, PTL
  <2> QED BY <2>1, <2>2 DEF Registered, StoredLimit, Fresh, Permits
<1>5. CASE UNCHANGED vars
  BY <1>5 DEF vars, TypeOK, PermitsAreUsed, InFlight, WaitersWait, IdleAsksNothing,
              ListComesFirst, Working
<1> QED BY <1>1, <1>2, <1>3, <1>4, <1>5 DEF Next

-----------------------------------------------------------------------------
\* The pairing of permits and requests holds for every number of sources, handlers and pages.
\* No error path, panic, reinstall or restart loses a permit.
THEOREM PermitsCorrect == Spec => []IInv
<1>1. Init => IInv
  <2> SUFFICES ASSUME Init PROVE IInv OBVIOUS
  <2>1. declared \in [Source -> Nat] BY DEF Init, Undeclared
  <2> QED BY <2>1, StartHolds DEF Init
<1>2. IInv /\ [Next]_vars => IInv' BY StepHolds
<1> QED BY <1>1, <1>2, PTL DEF Spec

\* Every variable keeps its type; a semaphore always has from one permit to the cap.
THEOREM LimiterTypeCorrect == Spec => []TypeOK
<1>1. IInv => TypeOK BY DEF IInv
<1> QED BY <1>1, PermitsCorrect, PTL

\* A source whose semaphore was not replaced since the process started never sees more requests
\* of all handlers together than the operator's ceiling.
THEOREM CapCorrect == Spec => []CapHolds
<1>1. IInv => CapHolds
  <2> SUFFICES ASSUME IInv, NEW s \in Source, Len(budget[s]) <= 1
               PROVE  Cardinality(InFlight(s)) <= Cap
    BY DEF CapHolds
  <2> USE DEF IInv
  <2>1. budget[s] \in Seq(Semaphore) BY DEF TypeOK
  <2>2. DOMAIN budget[s] \subseteq {1} BY <2>1
  <2>3. CASE DOMAIN budget[s] = {}
    <3>1. InFlight(s) = {} BY <2>3 DEF PermitsAreUsed
    <3> QED BY <3>1, FS_EmptySet, CapType
  <2>4. CASE 1 \in DOMAIN budget[s]
    <3>1. InFlight(s) = budget[s][1].holders BY <2>2, <2>4 DEF PermitsAreUsed
    <3>2. Cardinality(budget[s][1].holders) <= budget[s][1].permits
      BY <2>4 DEF PermitsAreUsed
    <3>3. budget[s][1].permits \in 1..Cap /\ budget[s][1].holders \in SUBSET Request
      BY <2>4, SemaphoreType
    <3>4. Cardinality(budget[s][1].holders) \in Nat BY <3>3, FiniteRequests
    <3> QED BY <3>1, <3>2, <3>3, <3>4, CapType
  <2> QED BY <2>2, <2>3, <2>4
<1> QED BY <1>1, PermitsCorrect, PTL

-----------------------------------------------------------------------------
\* The start, step by step.
LEMMA Places ==
    /\ Place("connect") = 1 /\ Place("recover") = 2 /\ Place("library") = 3 /\ Place("sources") = 4
    /\ Place("limits") = 5 /\ Place("identity") = 6 /\ Place("work") = 7 /\ Place("bind") = 8
    /\ Place("serving") = 9
<1>1. /\ DOMAIN Stages = 1..9
      /\ Stages[1] = "connect" /\ Stages[2] = "recover" /\ Stages[3] = "library" /\ Stages[4] = "sources"
      /\ Stages[5] = "limits" /\ Stages[6] = "identity" /\ Stages[7] = "work" /\ Stages[8] = "bind"
      /\ Stages[9] = "serving"
  BY DEF Stages
<1>2. \A i \in 1..9 : i = 1 \/ i = 2 \/ i = 3 \/ i = 4 \/ i = 5 \/ i = 6 \/ i = 7 \/ i = 8 \/ i = 9
  OBVIOUS
<1>3. \A i, j \in 1..9 : Stages[i] = Stages[j] => i = j
  BY <1>1, <1>2
<1>4. ASSUME NEW i \in 1..9 PROVE Place(Stages[i]) = i
  BY <1>1, <1>3 DEF Place
<1>. QED BY <1>1, <1>4

LEMMA StagesInOrder ==
    /\ Comes("connect") => stage' = "recover"
    /\ Comes("recover") => stage' = "library"
    /\ Comes("library") => stage' = "sources"
    /\ Comes("sources") => stage' = "limits"
    /\ Comes("limits") => stage' = "identity"
    /\ Comes("identity") => stage' = "work"
    /\ Comes("work") => stage' = "bind"
    /\ Comes("bind") => stage' = "serving"
BY Places DEF Comes, Stages

LEMMA WorksLate == Works => stage \in {"bind", "serving"}
<1>1. ToSet(Stages) = {"connect", "recover", "library", "sources", "limits", "identity", "work", "bind",
                       "serving"}
  BY DEF ToSet, Stages
<1>. QED BY <1>1, Places DEF Works

StageSet == {"connect", "recover", "library", "sources", "limits", "identity", "work", "bind", "serving",
             "off", "stopping"}

LEMMA StageTypes == ToSet(Stages) \cup {"off", "stopping"} = StageSet
BY DEF ToSet, Stages, StageSet

\* Jobs run only after the start has come past the sources and their limits, which are those that are
\* installed, unless they could not be read.
Loads ==
    /\ mine # {} => stage \in {"bind", "serving", "stopping"}
    /\ stage \in {"limits", "identity", "work", "bind", "serving", "stopping"} /\ "sources" \notin unread =>
          loaded = Compiles
    /\ stage \in {"identity", "work", "bind", "serving", "stopping"} /\ "limits" \notin unread =>
          limited = Installed

LEMMA ExitLoads ==
    ASSUME Exit
    PROVE  Loads'
BY DEF Exit, Loads

LEMMA LoadsStep ==
    ASSUME Loads, [ServiceNext]_serviceVars
    PROVE  Loads'
<1>1. ASSUME NEW raw \in Settings, Start(raw) PROVE Loads'
  BY <1>1 DEF Start, Loads
<1>2. CASE Connect
  BY <1>2, ExitLoads, StagesInOrder DEF Connect, Loads
<1>3. CASE Recover
  BY <1>3, ExitLoads, StagesInOrder DEF Recover, Loads
<1>4. CASE OpenLibrary
  BY <1>4, ExitLoads, StagesInOrder DEF OpenLibrary, Loads
<1>5. CASE LoadSources
  BY <1>5, StagesInOrder DEF LoadSources, Loads
<1>6. CASE RegisterLimits
  BY <1>6, StagesInOrder DEF RegisterLimits, Loads
<1>7. CASE Identify
  BY <1>7, ExitLoads, StagesInOrder DEF Identify, Loads
<1>8. CASE StartWork
  BY <1>8, StagesInOrder DEF StartWork, Loads
<1>9. CASE Bind
  BY <1>9, ExitLoads, StagesInOrder DEF Bind, Loads
<1>10. ASSUME NEW k \in Key, Claim(k) PROVE Loads'
  BY <1>10, WorksLate DEF Claim, process, Loads
<1>11. ASSUME NEW k \in Key, Finish(k) PROVE Loads'
  BY <1>11 DEF Finish, process, Loads
<1>12. CASE Stop
  BY <1>12 DEF Stop, Loads
<1>13. CASE Stopped \/ Crash
  BY <1>13, ExitLoads DEF Stopped, Crash
<1>14. CASE UNCHANGED <<process, mine>>
  BY <1>14 DEF process, Loads
<1>15. /\ \A n \in 0..Len(Schedule) : Tick(n) => UNCHANGED <<process, mine>>
       /\ \A k : Queue(k) => UNCHANGED <<process, mine>>
       /\ Pass \/ PutBack \/ FailDb \/ RestoreDb \/ RestoreVolume => UNCHANGED <<process, mine>>
       /\ \A state : FailVolume(state) => UNCHANGED <<process, mine>>
  BY DEF Tick, Queue, Pass, PutBack, FailDb, RestoreDb, RestoreVolume, FailVolume
<1>16. UNCHANGED serviceVars => UNCHANGED <<process, mine>>
  BY DEF serviceVars
<1>. QED
  BY <1>1, <1>2, <1>3, <1>4, <1>5, <1>6, <1>7, <1>8, <1>9, <1>10, <1>11, <1>12, <1>13, <1>14, <1>15, <1>16
  DEF ServiceNext

\* A download that the process runs finds its source's module and its limit, unless the start could not
\* read them (lib.rs, run: the sources and the limits before the pool), for every set of sources and
\* settings, through every failure, crash and restart.
THEOREM WorkIsProvided == ServiceSpec => []WorkFindsItsSources
<1>1. ServiceInit => Loads
  BY DEF ServiceInit, Loads
<1>2. Loads => WorkFindsItsSources
  <2>. SUFFICES ASSUME Loads, NEW s \in Installed, Download(s) \in mine
                PROVE  /\ "sources" \notin unread /\ s \in Compiles => s \in loaded
                       /\ "limits" \notin unread => s \in limited
    BY DEF WorkFindsItsSources
  <2>1. stage \in {"bind", "serving", "stopping"}
    BY DEF Loads
  <2>. QED BY <2>1 DEF Loads
<1>. QED BY <1>1, <1>2, LoadsStep, PTL DEF ServiceSpec

-----------------------------------------------------------------------------
\* The clock is not put back, in all, by more than the finished rows outlast a period.  For two hours that
\* follows from what check_retention accepts.
ClockIsKept ==
    \A raw \in Settings : Problems(raw) = {} =>
        \A i \in DOMAIN Schedule : MaxFaults <= Retention(raw) + 1 - Schedule[i].every

RowRecord == [state : {"none", "queued", "running", "succeeded", "failed"}, at : 0..MaxNow]

\* What is known of a job of a period that begins at b and lasts e, at time t and after f faults: it was
\* made once, not before the period began but for what the clock was put back since; so it ended, and
\* when its row is gone, the period is over, however the clock may be put back yet.
Paced(row, m, b, e, t, f) ==
    /\ m <= 1
    /\ m # 0 => b <= t + f
    /\ row.state = "succeeded" => b <= row.at + f
    /\ m # 0 /\ row = NoRow => b + e + MaxFaults <= t + f

PeriodsAreKept ==
    \A k \in Key : \A i \in DOMAIN Schedule : k[1] = Schedule[i].kind =>
        Paced(rows[k], made[k], k[2] * Schedule[i].every, Schedule[i].every, now, faults)

RowsWereMade == \A k \in Key : rows[k] # NoRow => made[k] # 0

HeldAreOpen == mine \subseteq Key /\ \A k \in mine : rows[k].state \in {"queued", "running"}

RowsOutlast ==
    stage # "off" => /\ config.retention \in Int
                     /\ \A i \in DOMAIN Schedule : Schedule[i].every + MaxFaults <= config.retention + 1

ClockType ==
    /\ stage \in StageSet /\ now \in 0..MaxNow /\ faults \in 0..MaxFaults
    /\ rows \in [Key -> RowRecord] /\ made \in [Key -> Nat]

ScheduleInv == ClockType /\ RowsOutlast /\ HeldAreOpen /\ RowsWereMade /\ PeriodsAreKept

LEMMA Bounds == MaxNow \in Nat /\ MaxFaults \in Nat /\ Day \in Nat
BY ServiceAssumption

LEMMA NoRowRecord == NoRow \in RowRecord /\ NoRow.state = "none"
BY Bounds DEF NoRow, RowRecord

LEMMA RowIs ==
    ASSUME NEW s \in {"queued", "running", "succeeded", "failed"}, now \in 0..MaxNow
    PROVE  /\ Row(s) \in RowRecord /\ Row(s).state = s /\ Row(s) # NoRow
           /\ s = "succeeded" => Row(s).at = now
BY Bounds DEF Row, RowRecord, NoRow

LEMMA QueuedRow == Row("queued").state = "queued"
BY DEF Row

LEMMA Period ==
    ASSUME NEW e \in Nat \ {0}, NEW t \in Nat
    PROVE  /\ t \div e \in Nat
           /\ (t \div e) * e <= t /\ t < (t \div e) * e + e
OBVIOUS

LEMMA KeyParts ==
    ASSUME NEW k \in Key, NEW i \in DOMAIN Schedule, k[1] = Schedule[i].kind
    PROVE  k[2] \in Nat
<1>1. Schedule[i].kind \notin {"download", "manual"}
  BY ServiceAssumption
<1>2. CASE \E s \in Installed : k = Download(s)
  BY <1>1, <1>2 DEF Download
<1>3. CASE k = Manual
  BY <1>1, <1>3 DEF Manual
<1>4. CASE \E j \in DOMAIN Schedule : \E b \in 0..(MaxNow \div Schedule[j].every) : k = <<Schedule[j].kind, b>>
  <2>1. PICK j \in DOMAIN Schedule : \E b \in 0..(MaxNow \div Schedule[j].every) : k = <<Schedule[j].kind, b>>
    BY <1>4
  <2>2. PICK b \in 0..(MaxNow \div Schedule[j].every) : k = <<Schedule[j].kind, b>>
    BY <2>1
  <2>3. MaxNow \div Schedule[j].every \in Nat
    BY Bounds, ServiceAssumption, Period
  <2>. QED BY <2>2, <2>3
<1>. DEFINE Periods == UNION {{<<Schedule[j].kind, b>> : b \in 0..(MaxNow \div Schedule[j].every)} : j \in DOMAIN Schedule}
            Downloads == {Download(s) : s \in Installed}
<1>5. k \in Periods
          => \E j \in DOMAIN Schedule : \E b \in 0..(MaxNow \div Schedule[j].every) : k = <<Schedule[j].kind, b>>
  BY Zenon
<1>6. k \in Downloads => \E s \in Installed : k = Download(s)
  BY Zenon
<1>7. Key = Periods \cup Downloads \cup {Manual}
  BY DEF Key
<1>8. k \in Periods \/ k \in Downloads \/ k = Manual
  <2>. HIDE DEF Periods, Downloads
  <2>. QED BY <1>7
<1>. QED BY <1>2, <1>3, <1>4, <1>5, <1>6, <1>8, Zenon

-----------------------------------------------------------------------------
\* What a step does to the row of a key.
Moves(k) ==
    \/ rows'[k] = rows[k] /\ made'[k] = made[k]
    \/ /\ rows[k] # NoRow /\ rows'[k] # NoRow /\ rows'[k].state # "succeeded" /\ made'[k] = made[k]
    \/ /\ rows[k] # NoRow /\ rows'[k] # NoRow /\ rows'[k].at = now /\ made'[k] = made[k]
    \/ /\ stage # "off" /\ rows[k].state = "succeeded" /\ rows[k].at < now - config.retention
       /\ rows'[k] = NoRow /\ made'[k] = made[k] /\ now' = now
    \/ /\ rows[k] = NoRow /\ rows'[k].state = "queued" /\ made'[k] = made[k] + 1 /\ now' = now
       /\ \A i \in DOMAIN Schedule : k[1] = Schedule[i].kind => k[2] = Bucket(Schedule[i].every)

\* What each of these does to what is known of a job.
LEMMA PacedStays ==
    ASSUME NEW row, NEW m \in Nat, NEW b \in Nat, NEW e \in Nat, NEW t \in Nat, NEW f \in Nat,
           NEW u \in Nat, NEW g \in Nat, row.at \in Nat, Paced(row, m, b, e, t, f), t + f <= u + g, f <= g
    PROVE  Paced(row, m, b, e, u, g)
BY Bounds DEF Paced

LEMMA PacedGoesOn ==
    ASSUME NEW row, NEW new, NEW m \in Nat, NEW b \in Nat, NEW e \in Nat, NEW t \in Nat, NEW f \in Nat,
           NEW u \in Nat, NEW g \in Nat, Paced(row, m, b, e, t, f), t + f <= u + g, f <= g,
           m # 0, new # NoRow, new.state # "succeeded" \/ new.at = t
    PROVE  Paced(new, m, b, e, u, g)
<1>1. m <= 1 /\ b <= t + f
  BY DEF Paced
<1>. QED BY <1>1, Bounds DEF Paced

LEMMA PacedIsPruned ==
    ASSUME NEW row, NEW m \in Nat, NEW b \in Nat, NEW e \in Nat, NEW t \in Nat, NEW f \in Nat,
           NEW g \in Nat, Paced(row, m, b, e, t, f), f <= g, NEW r \in Int, e + MaxFaults <= r + 1,
           row.at \in Nat, row.state = "succeeded", row.at < t - r, m # 0
    PROVE  Paced(NoRow, m, b, e, t, g)
<1>1. m <= 1 /\ b <= t + f /\ b <= row.at + f
  BY DEF Paced
<1>2. b + e + MaxFaults <= t + g
  BY <1>1, Bounds
<1>3. NoRow.state # "succeeded"
  BY NoRowRecord
<1>. QED BY <1>1, <1>2, <1>3 DEF Paced

LEMMA PacedBegins ==
    ASSUME NEW new, NEW m \in Nat, NEW e \in Nat \ {0}, NEW t \in Nat, NEW f \in 0..MaxFaults,
           NEW g \in 0..MaxFaults, NEW b \in Nat, b <= t, t < b + e, Paced(NoRow, m, b, e, t, f), f <= g,
           new.state = "queued"
    PROVE  Paced(new, m + 1, b, e, t, g)
<1>1. m # 0 => b + e + MaxFaults <= t + f
  BY DEF Paced
<1>2. m = 0
  BY <1>1, Bounds
<1>3. new # NoRow
  BY NoRowRecord
<1>. QED BY <1>2, <1>3, Bounds DEF Paced

LEMMA MovesKeep ==
    ASSUME ScheduleInv, ClockType', RowsOutlast',
           now + faults <= now' + faults', faults <= faults',
           \A k \in Key : Moves(k), HeldAreOpen'
    PROVE  ScheduleInv'
<1>1. /\ now \in Nat /\ now' \in Nat /\ faults \in 0..MaxFaults /\ faults' \in 0..MaxFaults
      /\ rows \in [Key -> RowRecord] /\ rows' \in [Key -> RowRecord]
      /\ made \in [Key -> Nat] /\ made' \in [Key -> Nat]
  BY Bounds DEF ScheduleInv, ClockType
<1>2. ASSUME NEW k \in Key PROVE rows'[k] # NoRow => made'[k] # 0
  <2>1. rows[k] # NoRow => made[k] # 0
    BY DEF ScheduleInv, RowsWereMade
  <2>2. made[k] \in Nat
    BY <1>1
  <2>. QED BY <2>1, <2>2 DEF Moves
<1>3. ASSUME NEW k \in Key, NEW i \in DOMAIN Schedule, k[1] = Schedule[i].kind
      PROVE  Paced(rows'[k], made'[k], k[2] * Schedule[i].every, Schedule[i].every, now', faults')
  <2>1. Schedule[i].every \in Nat \ {0} /\ k[2] \in Nat
    BY <1>3, KeyParts, ServiceAssumption
  <2>2. PICK e \in Nat \ {0}, b \in Nat : e = Schedule[i].every /\ b = k[2] * e
    BY <2>1
  <2>3. PICK row \in RowRecord, new \in RowRecord : row = rows[k] /\ new = rows'[k]
    BY <1>1
  <2>4. PICK m \in Nat : m = made[k]
    BY <1>1
  <2>5. PICK t \in Nat, u \in Nat, f \in 0..MaxFaults, g \in 0..MaxFaults :
            t = now /\ u = now' /\ f = faults /\ g = faults' /\ f \in Nat /\ g \in Nat
    BY <1>1, Bounds
  <2>6. row.at \in Nat /\ new.at \in Nat /\ t + f <= u + g /\ f <= g
    <3>1. row.at \in Nat /\ new.at \in Nat
      BY Bounds DEF RowRecord
    <3>2. t + f <= u + g /\ f <= g
      BY <2>5
    <3>. QED BY <3>1, <3>2
  <2>7. Paced(row, m, b, e, t, f) /\ (row # NoRow => m # 0)
    BY <1>3, <2>2, <2>3, <2>4, <2>5 DEF ScheduleInv, PeriodsAreKept, RowsWereMade
  <2>8. CASE new = row /\ made'[k] = m
    <3>1. Paced(new, m, b, e, u, g)
      BY <2>6, <2>7, <2>8, <2>5, PacedStays
    <3>. QED BY <2>2, <2>3, <2>5, <2>8, <3>1
  <2>9. CASE /\ row # NoRow /\ new # NoRow /\ made'[k] = m
             /\ new.state # "succeeded" \/ new.at = t
    <3>1. Paced(new, m, b, e, u, g)
      BY <2>5, <2>6, <2>7, <2>9, PacedGoesOn
    <3>. QED BY <2>2, <2>3, <2>5, <2>9, <3>1
  <2>10. CASE /\ stage # "off" /\ row.state = "succeeded" /\ row.at < t - config.retention
              /\ new = NoRow /\ made'[k] = m /\ u = t
    <3>1. config.retention \in Int /\ e + MaxFaults <= config.retention + 1
      BY <2>2, <2>10 DEF ScheduleInv, RowsOutlast
    <3>2. row # NoRow
      BY <2>10, NoRowRecord
    <3>3. Paced(NoRow, m, b, e, t, g)
      BY <2>5, <2>6, <2>7, <2>10, <3>1, <3>2, PacedIsPruned
    <3>. QED BY <2>2, <2>3, <2>5, <2>10, <3>3
  <2>11. CASE /\ row = NoRow /\ new.state = "queued" /\ made'[k] = m + 1 /\ u = t
              /\ k[2] = t \div e
    <3>1. b <= t /\ t < b + e
      BY <2>2, <2>11, Period
    <3>2. Paced(new, m + 1, b, e, t, g)
      BY <2>5, <2>6, <2>7, <2>11, <3>1, PacedBegins
    <3>. QED BY <2>2, <2>3, <2>5, <2>11, <3>2
  <2>. QED BY <1>3, <2>2, <2>3, <2>4, <2>5, <2>8, <2>9, <2>10, <2>11 DEF Moves, Bucket
<1>. QED BY <1>2, <1>3 DEF ScheduleInv, RowsWereMade, PeriodsAreKept

-----------------------------------------------------------------------------
\* The steps that leave the rows alone.
LEMMA RowsStay ==
    ASSUME ScheduleInv, ClockType', RowsOutlast', now + faults <= now' + faults', faults <= faults',
           UNCHANGED <<rows, made>>, mine' \subseteq mine
    PROVE  ScheduleInv'
<1>1. \A k \in Key : Moves(k)
  BY DEF Moves
<1>2. HeldAreOpen'
  BY DEF ScheduleInv, HeldAreOpen
<1>. QED BY <1>1, <1>2, MovesKeep

\* The process, while time and the faults stay or a fault is added.
LEMMA ProcessStep ==
    ASSUME ScheduleInv, UNCHANGED <<rows, made, now>>, UNCHANGED config,
           UNCHANGED faults \/ Fault, stage' \in StageSet, stage # "off" \/ stage' = "off",
           mine' \subseteq mine
    PROVE  ScheduleInv'
<1>1. faults \in 0..MaxFaults /\ now \in 0..MaxNow
  BY DEF ScheduleInv, ClockType
<1>2. faults' \in 0..MaxFaults /\ faults <= faults' /\ now + faults <= now' + faults'
  BY <1>1, Bounds DEF Fault
<1>3. ClockType' /\ RowsOutlast'
  BY <1>2 DEF ScheduleInv, ClockType, RowsOutlast
<1>. QED BY <1>2, <1>3, RowsStay

LEMMA StartStep ==
    ASSUME ClockIsKept, ScheduleInv, NEW raw \in Settings, Start(raw)
    PROVE  ScheduleInv'
<1>1. Problems(raw) = {} /\ config' = Validated(raw) /\ stage' = "connect"
      /\ UNCHANGED <<rows, made, now, faults, mine>>
  BY DEF Start, jobs, outside
<1>2. config'.retention = Retention(raw)
  BY <1>1 DEF Validated
<1>3. Retention(raw) \in Int
  BY Bounds, ServiceAssumption DEF Retention
<1>4. RowsOutlast'
  <2>. SUFFICES ASSUME NEW i \in DOMAIN Schedule
                PROVE  Schedule[i].every + MaxFaults <= Retention(raw) + 1
    BY <1>2, <1>3 DEF RowsOutlast
  <2>1. MaxFaults <= Retention(raw) + 1 - Schedule[i].every
    BY <1>1 DEF ClockIsKept
  <2>. QED BY <1>3, <2>1, Bounds, ServiceAssumption
<1>5. ClockType' /\ now + faults <= now' + faults' /\ faults <= faults'
  BY <1>1, Bounds DEF ScheduleInv, ClockType, StageSet
<1>. QED BY <1>1, <1>4, <1>5, RowsStay

\* A row that recovery or a release takes back to the queue.
LEMMA BackMoves ==
    ASSUME ScheduleInv, NEW k \in Key, rows'[k] = rows[k] \/ (rows[k] # NoRow /\ rows'[k] = Row("queued")),
           made'[k] = made[k]
    PROVE  Moves(k)
<1>1. Row("queued") # NoRow /\ Row("queued").state = "queued"
  BY RowIs DEF ScheduleInv, ClockType
<1>. QED BY <1>1 DEF Moves

LEMMA RecoveredIs ==
    ASSUME ScheduleInv
    PROVE  /\ Recovered \in [Key -> RowRecord]
           /\ \A k \in Key : Recovered[k] = rows[k] \/ (rows[k] # NoRow /\ Recovered[k] = Row("queued"))
<1>1. Row("queued") \in RowRecord
  BY RowIs DEF ScheduleInv, ClockType
<1>2. rows \in [Key -> RowRecord]
  BY DEF ScheduleInv, ClockType
<1>. QED BY <1>1, <1>2, NoRowRecord DEF Recovered

LEMMA RecoverStep ==
    ASSUME ScheduleInv, Recover
    PROVE  ScheduleInv'
<1>1. CASE Exit /\ rows' = rows
  <2>1. UNCHANGED <<rows, made, now, faults, config>> /\ stage' = "off" /\ mine' = {}
    BY <1>1 DEF Recover, Exit, outside
  <2>. QED BY <2>1, ProcessStep DEF StageSet
<1>2. CASE Comes("recover") /\ rows' = Recovered /\ UNCHANGED <<config, mine>>
  <2>1. UNCHANGED <<made, now, faults, mine>> /\ stage' = "library" /\ stage = "recover"
    BY <1>2, StagesInOrder DEF Recover, outside
  <2>2. \A k \in Key : Moves(k)
    BY <1>2, <2>1, RecoveredIs, BackMoves
  <2>3. ClockType' /\ RowsOutlast'
    BY <1>2, <2>1, RecoveredIs DEF ScheduleInv, ClockType, RowsOutlast, StageSet
  <2>4. now + faults <= now' + faults' /\ faults <= faults'
    BY <2>1, Bounds DEF ScheduleInv, ClockType
  <2>5. HeldAreOpen'
    BY <1>2, <2>1, RecoveredIs, QueuedRow DEF ScheduleInv, HeldAreOpen
  <2>. QED BY <2>2, <2>3, <2>4, <2>5, MovesKeep
<1>. QED BY <1>1, <1>2 DEF Recover

LEMMA StoppedStep ==
    ASSUME ScheduleInv, Stopped
    PROVE  ScheduleInv'
<1>1. UNCHANGED <<made, now, faults, config>> /\ stage' = "off" /\ mine' = {}
  BY DEF Stopped, Exit, outside
<1>2. CASE UNCHANGED rows
  BY <1>1, <1>2, ProcessStep DEF StageSet
<1>3. CASE rows' = Requeued(mine)
  <2>1. \A k \in Key : rows'[k] = rows[k] \/ (rows[k] # NoRow /\ rows'[k] = Row("queued"))
    BY <1>3, NoRowRecord DEF Requeued, ScheduleInv, HeldAreOpen
  <2>2. \A k \in Key : Moves(k)
    BY <1>1, <2>1, BackMoves
  <2>3. Row("queued") \in RowRecord /\ rows \in [Key -> RowRecord]
    BY RowIs DEF ScheduleInv, ClockType
  <2>4. rows' \in [Key -> RowRecord]
    BY <1>3, <2>3 DEF Requeued
  <2>5. ClockType' /\ RowsOutlast' /\ HeldAreOpen'
    BY <1>1, <2>4 DEF ScheduleInv, ClockType, RowsOutlast, StageSet, HeldAreOpen
  <2>6. now + faults <= now' + faults' /\ faults <= faults'
    BY <1>1, Bounds DEF ScheduleInv, ClockType
  <2>. QED BY <2>2, <2>5, <2>6, MovesKeep
<1>. QED BY <1>2, <1>3 DEF Stopped

\* The steps that touch neither the rows nor the clock.
LEMMA StartStepsStay ==
    ASSUME ScheduleInv,
           Connect \/ OpenLibrary \/ LoadSources \/ RegisterLimits \/ Identify \/ StartWork \/ Bind
    PROVE  ScheduleInv'
<1>1. /\ UNCHANGED <<rows, made, now>> /\ UNCHANGED config /\ (UNCHANGED faults \/ Fault)
      /\ stage # "off"
  BY DEF Connect, OpenLibrary, LoadSources, RegisterLimits, Identify, StartWork, Bind, Exit, outside, jobs
<1>2. mine' = mine \/ mine' = {}
  BY DEF Connect, OpenLibrary, LoadSources, RegisterLimits, Identify, StartWork, Bind, Exit
<1>3. stage' \in StageSet
  BY StagesInOrder DEF Connect, OpenLibrary, LoadSources, RegisterLimits, Identify, StartWork, Bind, Exit, StageSet
<1>. QED BY <1>1, <1>2, <1>3, ProcessStep

LEMMA EndsStay ==
    ASSUME ScheduleInv, Stop \/ Crash
    PROVE  ScheduleInv'
<1>1. /\ UNCHANGED <<rows, made, now>> /\ UNCHANGED config /\ (UNCHANGED faults \/ Fault)
      /\ stage # "off" /\ stage' \in StageSet /\ (mine' = mine \/ mine' = {})
  BY DEF Stop, Crash, Exit, outside, jobs, StageSet
<1>. QED BY <1>1, ProcessStep

LEMMA OutagesStay ==
    ASSUME ScheduleInv, FailDb \/ RestoreDb \/ RestoreVolume \/ (\E state \in {"full", "gone"} : FailVolume(state))
    PROVE  ScheduleInv'
<1>1. UNCHANGED <<rows, made, now, config, stage, mine>> /\ (UNCHANGED faults \/ Fault)
  BY DEF FailDb, RestoreDb, RestoreVolume, FailVolume, jobs, process
<1>2. faults \in 0..MaxFaults /\ now \in 0..MaxNow
  BY DEF ScheduleInv, ClockType
<1>3. faults' \in 0..MaxFaults /\ faults <= faults' /\ now + faults <= now' + faults'
  BY <1>1, <1>2, Bounds DEF Fault
<1>4. ClockType' /\ RowsOutlast'
  BY <1>1, <1>3 DEF ScheduleInv, ClockType, RowsOutlast
<1>. QED BY <1>1, <1>3, <1>4, RowsStay

LEMMA ClockSteps ==
    ASSUME ScheduleInv, Pass \/ PutBack
    PROVE  ScheduleInv'
<1>1. UNCHANGED <<rows, made, config, stage, mine>>
  BY DEF Pass, PutBack, jobs, process
<1>2. faults \in 0..MaxFaults /\ now \in 0..MaxNow
  BY DEF ScheduleInv, ClockType
<1>3. /\ faults' \in 0..MaxFaults /\ now' \in 0..MaxNow
      /\ faults <= faults' /\ now + faults <= now' + faults'
  BY <1>2, Bounds DEF Fault, Pass, PutBack
<1>4. ClockType' /\ RowsOutlast'
  BY <1>1, <1>3 DEF ScheduleInv, ClockType, RowsOutlast
<1>. QED BY <1>1, <1>3, <1>4, RowsStay

-----------------------------------------------------------------------------
\* The jobs that are made: only where there is no row, and for a periodic one only in its period.
LEMMA MadeMoves ==
    ASSUME ScheduleInv, NEW table \in [Key -> RowRecord], NEW keys,
           \A k \in Key : table[k] = rows[k] \/ (rows[k] # NoRow /\ table[k] = Row("queued")),
           rows' = Enqueued(table, keys), made' = Counted(keys), now' = now,
           \A k \in keys : \A i \in DOMAIN Schedule : k[1] = Schedule[i].kind => k[2] = Bucket(Schedule[i].every)
    PROVE  /\ \A k \in Key : Moves(k)
           /\ rows' \in [Key -> RowRecord] /\ made' \in [Key -> Nat]
           /\ \A k \in Key : rows[k] # NoRow => rows'[k] = table[k]
<1>1. Row("queued") \in RowRecord /\ Row("queued").state = "queued" /\ Row("queued") # NoRow
  BY RowIs DEF ScheduleInv, ClockType
<1>2. rows \in [Key -> RowRecord] /\ made \in [Key -> Nat]
  BY DEF ScheduleInv, ClockType
<1>3. \A k \in Key : /\ rows'[k] = IF k \in keys /\ table[k] = NoRow THEN Row("queued") ELSE table[k]
                     /\ made'[k] = IF k \in keys /\ rows[k] = NoRow THEN made[k] + 1 ELSE made[k]
  BY DEF Enqueued, Counted
<1>4. rows' \in [Key -> RowRecord]
  BY <1>1 DEF Enqueued
<1>5. made' \in [Key -> Nat]
  BY <1>2 DEF Counted
<1>6. ASSUME NEW k \in Key PROVE Moves(k)
  <2>1. CASE rows[k] = NoRow /\ k \in keys
    BY <1>1, <1>3, <2>1 DEF Moves
  <2>2. CASE rows[k] # NoRow
    BY <1>1, <1>3, <2>2 DEF Moves
  <2>3. CASE rows[k] = NoRow /\ k \notin keys
    BY <1>1, <1>3, <2>3 DEF Moves
  <2>. QED BY <2>1, <2>2, <2>3
<1>7. \A k \in Key : rows[k] # NoRow => rows'[k] = table[k]
  BY <1>1, <1>3
<1>. QED BY <1>4, <1>5, <1>6, <1>7

LEMMA MadeStep ==
    ASSUME ScheduleInv, NEW table \in [Key -> RowRecord], NEW keys,
           \A k \in Key : table[k] = rows[k] \/ (rows[k] # NoRow /\ table[k] = Row("queued")),
           rows' = Enqueued(table, keys), made' = Counted(keys), now' = now,
           \A k \in keys : \A i \in DOMAIN Schedule : k[1] = Schedule[i].kind => k[2] = Bucket(Schedule[i].every),
           stage' = stage, config' = config, mine' = mine, faults' = faults \/ Fault
    PROVE  ScheduleInv'
<1>1. /\ \A k \in Key : Moves(k)
      /\ rows' \in [Key -> RowRecord] /\ made' \in [Key -> Nat]
      /\ \A k \in Key : rows[k] # NoRow => rows'[k] = table[k]
  BY MadeMoves
<1>2. faults \in 0..MaxFaults /\ now \in 0..MaxNow
  BY DEF ScheduleInv, ClockType
<1>3. faults' \in 0..MaxFaults /\ faults <= faults' /\ now + faults <= now' + faults'
  BY <1>2, Bounds DEF Fault
<1>4. ClockType' /\ RowsOutlast'
  BY <1>1, <1>3 DEF ScheduleInv, ClockType, RowsOutlast
<1>5. HeldAreOpen'
  BY <1>1, NoRowRecord, QueuedRow DEF ScheduleInv, HeldAreOpen
<1>. QED BY <1>1, <1>3, <1>4, <1>5, MovesKeep

LEMMA TickStep ==
    ASSUME ScheduleInv, NEW n \in 0..Len(Schedule), Tick(n)
    PROVE  ScheduleInv'
<1>1. /\ rows' = Enqueued(Recovered, TickKeys(n)) /\ made' = Counted(TickKeys(n)) /\ now' = now
      /\ stage' = stage /\ config' = config /\ mine' = mine /\ (faults' = faults \/ Fault)
  BY DEF Tick, process, outside
<1>2. ASSUME NEW k \in TickKeys(n), NEW i \in DOMAIN Schedule, k[1] = Schedule[i].kind
      PROVE  k[2] = Bucket(Schedule[i].every)
  <2>1. PICK j \in 1..n : k = PeriodKey(j)
    BY DEF TickKeys
  <2>2. j \in DOMAIN Schedule
    BY ServiceAssumption
  <2>3. k[1] = Schedule[j].kind /\ k[2] = Bucket(Schedule[j].every)
    BY <2>1 DEF PeriodKey
  <2>4. i = j
    BY <1>2, <2>2, <2>3, ServiceAssumption
  <2>. QED BY <2>3, <2>4
<1>. QED BY <1>1, <1>2, RecoveredIs, MadeStep

LEMMA QueueStep ==
    ASSUME ScheduleInv, NEW k \in {Download(s) : s \in Installed} \cup {Manual}, Queue(k)
    PROVE  ScheduleInv'
<1>1. /\ rows' = Enqueued(rows, {k}) /\ made' = Counted({k}) /\ now' = now
      /\ stage' = stage /\ config' = config /\ mine' = mine /\ faults' = faults
  BY DEF Queue, process, outside
<1>2. k[1] \in {"download", "manual"}
  BY DEF Download, Manual
<1>3. \A x \in {k} : \A i \in DOMAIN Schedule : x[1] = Schedule[i].kind => x[2] = Bucket(Schedule[i].every)
  BY <1>2, ServiceAssumption
<1>4. rows \in [Key -> RowRecord]
  BY DEF ScheduleInv, ClockType
<1>. QED BY <1>1, <1>3, <1>4, MadeStep

-----------------------------------------------------------------------------
\* The jobs that are run.
LEMMA ClaimStep ==
    ASSUME ScheduleInv, NEW k \in Key, Claim(k)
    PROVE  ScheduleInv'
<1>1. /\ rows[k].state = "queued" /\ rows' = [rows EXCEPT ![k] = Row("running")] /\ mine' = mine \cup {k}
      /\ made' = made /\ now' = now /\ stage' = stage /\ config' = config /\ faults' = faults
  BY DEF Claim, process, outside
<1>2. Row("running") \in RowRecord /\ Row("running").state = "running" /\ Row("running") # NoRow
  BY RowIs DEF ScheduleInv, ClockType
<1>3. rows \in [Key -> RowRecord]
  BY DEF ScheduleInv, ClockType
<1>4. rows' \in [Key -> RowRecord] /\ rows'[k] = Row("running") /\ \A x \in Key \ {k} : rows'[x] = rows[x]
  BY <1>1, <1>2, <1>3
<1>5. rows[k] # NoRow
  BY <1>1, NoRowRecord
<1>6. \A x \in Key : Moves(x)
  BY <1>1, <1>2, <1>4, <1>5 DEF Moves
<1>7. ClockType' /\ RowsOutlast'
  BY <1>1, <1>4 DEF ScheduleInv, ClockType, RowsOutlast
<1>8. HeldAreOpen'
  BY <1>1, <1>2, <1>4 DEF ScheduleInv, HeldAreOpen
<1>9. now + faults <= now' + faults' /\ faults <= faults'
  BY <1>1, Bounds DEF ScheduleInv, ClockType
<1>. QED BY <1>6, <1>7, <1>8, <1>9, MovesKeep

LEMMA FinishStep ==
    ASSUME ScheduleInv, NEW k \in Key, Finish(k)
    PROVE  ScheduleInv'
<1>. DEFINE table == IF IsPrune(k) THEN Pruned(rows) ELSE rows
<1>1. /\ stage # "off" /\ rows[k].state = "running" /\ rows' = [table EXCEPT ![k] = Row(Ends(k))]
      /\ mine' = mine \ {k}
      /\ made' = made /\ now' = now /\ stage' = stage /\ config' = config /\ faults' = faults
  BY DEF Finish, process, outside
<1>2. rows \in [Key -> RowRecord] /\ now \in 0..MaxNow
  BY DEF ScheduleInv, ClockType
<1>3. /\ table \in [Key -> RowRecord]
      /\ \A x \in Key : \/ table[x] = rows[x]
                        \/ /\ rows[x].state = "succeeded" /\ rows[x].at < now - config.retention
                           /\ table[x] = NoRow
  BY <1>2, NoRowRecord DEF Pruned
<1>. HIDE DEF table
<1>4. Ends(k) \in {"queued", "succeeded", "failed"}
  BY DEF Ends
<1>5. /\ Row(Ends(k)) \in RowRecord /\ Row(Ends(k)) # NoRow
      /\ Row(Ends(k)).state # "succeeded" \/ Row(Ends(k)).at = now
  BY <1>2, <1>4, RowIs
<1>6. rows' \in [Key -> RowRecord] /\ rows'[k] = Row(Ends(k)) /\ \A x \in Key \ {k} : rows'[x] = table[x]
  BY <1>1, <1>3, <1>5
<1>7. rows[k] # NoRow
  BY <1>1, NoRowRecord
<1>8. ASSUME NEW x \in Key PROVE Moves(x)
  <2>1. CASE x = k
    BY <1>1, <1>5, <1>6, <1>7, <2>1 DEF Moves
  <2>2. CASE x # k
    BY <1>1, <1>3, <1>6, <2>2 DEF Moves
  <2>. QED BY <2>1, <2>2
<1>9. ClockType' /\ RowsOutlast'
  BY <1>1, <1>6 DEF ScheduleInv, ClockType, RowsOutlast
<1>10. HeldAreOpen'
  BY <1>1, <1>3, <1>6 DEF ScheduleInv, HeldAreOpen
<1>11. now + faults <= now' + faults' /\ faults <= faults'
  BY <1>1, Bounds DEF ScheduleInv, ClockType
<1>. QED BY <1>8, <1>9, <1>10, <1>11, MovesKeep

-----------------------------------------------------------------------------
\* The invariant, from the first state on.
LEMMA ScheduleInit == ServiceInit => ScheduleInv
<1>. SUFFICES ASSUME ServiceInit PROVE ScheduleInv
  OBVIOUS
<1>1. stage = "off" /\ now = 0 /\ faults = 0 /\ mine = {} /\ rows = [k \in Key |-> NoRow] /\ made = [k \in Key |-> 0]
  BY DEF ServiceInit
<1>2. ClockType
  BY <1>1, Bounds, NoRowRecord DEF ClockType, StageSet
<1>3. RowsOutlast /\ HeldAreOpen /\ RowsWereMade
  BY <1>1 DEF RowsOutlast, HeldAreOpen, RowsWereMade
<1>4. PeriodsAreKept
  BY <1>1, NoRowRecord DEF PeriodsAreKept, Paced
<1>. QED BY <1>2, <1>3, <1>4 DEF ScheduleInv

LEMMA ScheduleStep ==
    ASSUME ClockIsKept, ScheduleInv, [ServiceNext]_serviceVars
    PROVE  ScheduleInv'
<1>1. CASE UNCHANGED serviceVars
  BY <1>1 DEF serviceVars, process, outside, jobs, ScheduleInv, ClockType, RowsOutlast, HeldAreOpen, RowsWereMade, PeriodsAreKept
<1>2. CASE ServiceNext
  BY <1>2, StartStep, RecoverStep, StoppedStep, StartStepsStay, EndsStay, OutagesStay, ClockSteps, TickStep,
     QueueStep, ClaimStep, FinishStep DEF ServiceNext
<1>. QED BY <1>1, <1>2

LEMMA KeptIsOnce == ScheduleInv => OncePerPeriod
BY DEF ScheduleInv, PeriodsAreKept, OncePerPeriod, Paced

\* What check_retention accepts outlasts every period by an hour at least, and the prune is strict: two
\* hours are always kept.
LEMMA TwoHoursAreKept ==
    ASSUME MaxFaults <= 2
    PROVE  ClockIsKept
<1>. SUFFICES ASSUME NEW raw \in Settings, Problems(raw) = {}, NEW i \in DOMAIN Schedule
              PROVE  MaxFaults <= Retention(raw) + 1 - Schedule[i].every
  BY DEF ClockIsKept
<1>1. Retention(raw) \in Int /\ Schedule[i].every \in Nat
  BY Bounds, ServiceAssumption DEF Retention
<1>2. ~(Retention(raw) <= Schedule[i].every)
  BY DEF Problems, RetentionProblems
<1>. QED BY <1>1, <1>2, Bounds

\* Whatever ticks fail, however often the process is restarted and with whichever settings it accepts, a
\* period has one job of each kind (scheduler.rs, period_key, and check_retention, which refuses rows that
\* would not outlast their period), if the clock is not put back by more than the rows outlast it.
THEOREM OneJobAPeriod ==
    ASSUME ClockIsKept
    PROVE  ServiceSpec => []OncePerPeriod
<1>1. ScheduleInv /\ [ServiceNext]_serviceVars => ScheduleInv'
  BY ScheduleStep
<1>. QED BY <1>1, ScheduleInit, KeptIsOnce, PTL DEF ServiceSpec
=============================================================================
