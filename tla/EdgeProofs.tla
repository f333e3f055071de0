------------------------------ MODULE EdgeProofs ------------------------------
(***************************************************************************)
(* Proofs about what meets the world outside: the indexes of the           *)
(* repositories (SourceIndex), and what a client meets (Api): a source's   *)
(* catalog, the limit on sign-in requests, the web interface, the pages of *)
(* lists and the ranges of archives, the answers that are put together,    *)
(* the archives and the log; for every set of rows, clients, series,       *)
(* proxies, builds and lines, and every bound.                             *)
(***************************************************************************)
EXTENDS SourceIndex, Api, LogProofs

-----------------------------------------------------------------------------
\* The source index.

LEMMA InitIInv == Init => IInv
BY IndexAssumption DEF Init, IInv, StoredBeforeMarked, ListedAreKnown, StampedIsStored, TypeOK,
                       NoPass, Version

PassRow == [at : {"idle", "next", "replace", "mark"}, todo : SUBSET Repo,
            repo : Repo \cup {NoRepo}, found : Version]

LEMMA NextRow ==
    ASSUME NEW p \in PassRow, NEW T \in SUBSET Repo
    PROVE  LET q == [p EXCEPT !.at = "next", !.todo = T] IN
           q \in PassRow /\ q.at = "next" /\ q.todo = T
BY DEF PassRow

LEMMA NoPassRow == NoPass \in PassRow /\ NoPass.at = "idle" /\ NoPass.todo = {}
BY IndexAssumption DEF NoPass, PassRow, Version

\* What a pass does between two repositories leaves it with fewer to do, and with none in hand.
LEMMA GoesOn ==
    ASSUME TypeOK, NEW w \in Worker, NEW r, GoOn(w, r)
    PROVE  /\ pass' \in [Worker -> PassRow]
           /\ pass'[w].at = "next" /\ pass'[w].todo \subseteq pass[w].todo
           /\ \A v \in Worker : v # w => pass'[v] = pass[v]
<1>. DEFINE T == pass[w].todo \ {r}
            q == [NoPass EXCEPT !.at = "next", !.todo = T]
<1>1. pass' = [pass EXCEPT ![w] = q]
  BY DEF GoOn
<1>2. pass \in [Worker -> PassRow]
  BY DEF TypeOK, PassRow
<1>3. T \in SUBSET Repo /\ T \subseteq pass[w].todo
  BY <1>2 DEF PassRow
<1>4. q \in PassRow /\ q.at = "next" /\ q.todo = T
  BY <1>3, NextRow, NoPassRow
<1>. HIDE DEF q
<1>. QED BY <1>1, <1>2, <1>3, <1>4

\* So does a pass that is over.
LEMMA Rests ==
    ASSUME TypeOK, NEW w \in Worker, pass' = [pass EXCEPT ![w] = NoPass]
    PROVE  /\ pass' \in [Worker -> PassRow]
           /\ pass'[w].at = "idle" /\ pass'[w].todo = {}
           /\ \A v \in Worker : v # w => pass'[v] = pass[v]
BY NoPassRow DEF TypeOK, PassRow

-----------------------------------------------------------------------------
LEMMA RepoStep ==
    ASSUME IInv, NEW r \in Repo, Publish(r) \/ AddRepo(r) \/ DeleteRepo(r)
    PROVE  IInv'
<1>1. CASE Publish(r)
  BY <1>1, IndexAssumption DEF Publish, IInv, StoredBeforeMarked, ListedAreKnown, StampedIsStored,
                               TypeOK
<1>2. CASE AddRepo(r)
  <2>1. TypeOK'
    BY <1>2 DEF AddRepo, IInv, StampedIsStored, TypeOK
  <2>2. \A s \in Repo : repo[s] # "unknown" => repo'[s] = repo[s]
    BY <1>2 DEF AddRepo, IInv, StampedIsStored, TypeOK
  <2>. QED BY <1>2, <2>1, <2>2 DEF AddRepo, IInv, StoredBeforeMarked, ListedAreKnown,
                                   StampedIsStored, TypeOK
<1>3. CASE DeleteRepo(r)
  <2>1. TypeOK'
    BY <1>3, IndexAssumption DEF DeleteRepo, IInv, StampedIsStored, TypeOK, Version
  <2>. QED BY <1>3, <2>1 DEF DeleteRepo, IInv, StoredBeforeMarked, ListedAreKnown,
                             StampedIsStored, TypeOK
<1>. QED BY <1>1, <1>2, <1>3

\* A step that changes neither table nor stamp, and leaves its pass with nothing in hand.
LEMMA PassMovesOn ==
    ASSUME IInv, NEW w \in Worker, UNCHANGED <<repo, entries, stamped>>, TypeOK',
           pass'[w].at \in {"idle", "next"},
           \A s \in pass'[w].todo : repo[s] # "unknown",
           \A v \in Worker : v # w => pass'[v] = pass[v]
    PROVE  IInv'
BY DEF IInv, StoredBeforeMarked, ListedAreKnown, StampedIsStored

LEMMA BeginStep == ASSUME IInv, NEW w \in Worker, BeginPass(w) PROVE IInv'
<1>. DEFINE T == {r \in Repo : repo[r] = "added"}
            p == [NoPass EXCEPT !.at = "next", !.todo = T]
<1>1. TypeOK /\ UNCHANGED <<published, repo, entries, stamped, faults>>
  BY DEF BeginPass, IInv, StampedIsStored
<1>2. pass' = [pass EXCEPT ![w] = p]
  BY DEF BeginPass
<1>3. T \subseteq Repo /\ \A s \in T : repo[s] # "unknown"
  OBVIOUS
<1>4. /\ p \in PassRow
      /\ p.at = "next" /\ p.todo = T
  BY <1>3, NextRow, NoPassRow
<1>. HIDE DEF p
<1>5. TypeOK'
  BY <1>1, <1>2, <1>4 DEF TypeOK, PassRow
<1>6. /\ pass'[w].at = "next" /\ \A s \in pass'[w].todo : repo[s] # "unknown"
      /\ \A v \in Worker : v # w => pass'[v] = pass[v]
  BY <1>1, <1>2, <1>3, <1>4 DEF TypeOK
<1>. QED BY <1>1, <1>5, <1>6, PassMovesOn

LEMMA FetchStep == ASSUME IInv, NEW w \in Worker, NEW r \in Repo, Fetch(w, r) PROVE IInv'
<1>1. TypeOK /\ UNCHANGED <<published, repo, entries, stamped>> /\ repo[r] # "unknown"
  BY DEF Fetch, IInv, StampedIsStored, ListedAreKnown
<1>2. CASE Answers(r) /\ pass' = [pass EXCEPT ![w].at = "replace", ![w].repo = r,
                                              ![w].found = published[r]] /\ UNCHANGED faults
  <2>1. published[r] \in Version /\ published[r] # 0
    BY <1>1, IndexAssumption DEF TypeOK, Version
  <2>2. [pass[w] EXCEPT !.at = "replace", !.repo = r, !.found = published[r]] \in
           PassRow
    BY <1>1, <2>1 DEF TypeOK, PassRow
  <2>3. pass' = [pass EXCEPT ![w] = [pass[w] EXCEPT !.at = "replace", !.repo = r,
                                                  !.found = published[r]]]
    BY <1>1, <1>2 DEF TypeOK
  <2>4. TypeOK'
    BY <1>1, <1>2, <2>2, <2>3 DEF TypeOK
  <2>5. /\ pass'[w].at = "replace" /\ pass'[w].repo = r /\ pass'[w].found = published[r]
        /\ pass'[w].todo = pass[w].todo
        /\ \A v \in Worker : v # w => pass'[v] = pass[v]
    BY <1>1, <1>2 DEF TypeOK
  <2>. QED BY <1>1, <2>1, <2>4, <2>5 DEF IInv, StoredBeforeMarked, ListedAreKnown, StampedIsStored
<1>3. CASE GoOn(w, r) /\ (UNCHANGED faults \/ Fault)
  <2>1. /\ pass' \in [Worker -> PassRow]
        /\ pass'[w].at = "next" /\ pass'[w].todo \subseteq pass[w].todo
        /\ \A v \in Worker : v # w => pass'[v] = pass[v]
    BY <1>1, <1>3, GoesOn
  <2>2. faults' \in 0..MaxFaults
    BY <1>1, <1>3, IndexAssumption DEF Fault, TypeOK
  <2>3. TypeOK'
    BY <1>1, <2>1, <2>2 DEF TypeOK, PassRow
  <2>. QED BY <1>1, <2>1, <2>3, PassMovesOn DEF IInv, ListedAreKnown
<1>. QED BY <1>2, <1>3 DEF Fetch

LEMMA ReplaceStep == ASSUME IInv, NEW w \in Worker, Replace(w) PROVE IInv'
<1>. DEFINE r == pass[w].repo
<1>1. TypeOK /\ UNCHANGED <<published, repo, stamped>>
  BY DEF Replace, IInv, StampedIsStored
<1>2. r \in Repo /\ pass[w].found \in Version \ {0} /\ repo[r] # "unknown"
  BY <1>1 DEF Replace, IInv, StoredBeforeMarked, TypeOK
<1>3. CASE /\ entries' = [entries EXCEPT ![r] = pass[w].found]
           /\ pass' = [pass EXCEPT ![w].at = "mark"] /\ UNCHANGED faults
  <2>1. TypeOK'
    BY <1>1, <1>2, <1>3 DEF TypeOK
  <2>2. /\ pass'[w].at = "mark" /\ pass'[w].repo = r /\ pass'[w].found = pass[w].found
        /\ pass'[w].todo = pass[w].todo
        /\ \A v \in Worker : v # w => pass'[v] = pass[v]
    BY <1>1, <1>3 DEF TypeOK
  <2>3. entries'[r] # 0 /\ \A s \in Repo : entries[s] # 0 => entries'[s] # 0
    BY <1>1, <1>2, <1>3 DEF TypeOK
  <2>. QED BY <1>1, <1>2, <2>1, <2>2, <2>3 DEF IInv, StoredBeforeMarked, ListedAreKnown,
                                               StampedIsStored
<1>4. CASE GoOn(w, r) /\ (UNCHANGED faults \/ Fault) /\ UNCHANGED entries
  <2>1. /\ pass' \in [Worker -> PassRow]
        /\ pass'[w].at = "next" /\ pass'[w].todo \subseteq pass[w].todo
        /\ \A v \in Worker : v # w => pass'[v] = pass[v]
    BY <1>1, <1>4, GoesOn
  <2>2. faults' \in 0..MaxFaults
    BY <1>1, <1>4, IndexAssumption DEF Fault, TypeOK
  <2>3. TypeOK'
    BY <1>1, <1>4, <2>1, <2>2 DEF TypeOK, PassRow
  <2>. QED BY <1>1, <1>4, <2>1, <2>3, PassMovesOn DEF IInv, ListedAreKnown
<1>. QED BY <1>3, <1>4 DEF Replace

LEMMA MarkStep == ASSUME IInv, NEW w \in Worker, Mark(w) PROVE IInv'
<1>. DEFINE r == pass[w].repo
<1>1. TypeOK /\ UNCHANGED <<published, repo, entries>> /\ ListedAreKnown
  BY DEF Mark, IInv, StampedIsStored
<1>2. /\ r \in Repo /\ pass[w].found \in Version \ {0}
      /\ repo[r] = "added" => entries[r] # 0
  BY <1>1 DEF Mark, IInv, StoredBeforeMarked, TypeOK
<1>3. /\ stamped' \in [Repo -> Version]
      /\ \A s \in Repo : stamped'[s] # 0 => repo[s] = "added" /\ entries[s] # 0
  BY <1>1, <1>2 DEF Mark, IInv, StampedIsStored, TypeOK
<1>4. /\ pass' \in [Worker -> PassRow]
      /\ pass'[w].at \in {"idle", "next"} /\ pass'[w].todo \subseteq pass[w].todo
      /\ \A v \in Worker : v # w => pass'[v] = pass[v]
  BY <1>1, GoesOn, Rests DEF Mark
<1>5. faults' \in 0..MaxFaults
  BY <1>1, IndexAssumption DEF Mark, Fault, TypeOK
<1>6. TypeOK'
  BY <1>1, <1>3, <1>4, <1>5 DEF TypeOK, PassRow
<1>. QED BY <1>1, <1>3, <1>4, <1>6 DEF IInv, StoredBeforeMarked, ListedAreKnown, StampedIsStored

LEMMA EndStep == ASSUME IInv, NEW w \in Worker, EndPass(w) PROVE IInv'
<1>1. TypeOK /\ UNCHANGED <<published, repo, entries, stamped, faults>>
  BY DEF EndPass, IInv, StampedIsStored
<1>2. /\ pass' \in [Worker -> PassRow]
      /\ pass'[w].at = "idle" /\ pass'[w].todo = {}
      /\ \A v \in Worker : v # w => pass'[v] = pass[v]
  BY <1>1, Rests DEF EndPass
<1>3. TypeOK'
  BY <1>1, <1>2 DEF TypeOK, PassRow
<1>. QED BY <1>1, <1>2, <1>3, PassMovesOn

-----------------------------------------------------------------------------
\* The invariant of the index and its passes.
THEOREM IndexInvariant == Spec => []IInv
<1>1. IInv /\ [Next]_vars => IInv'
  <2>. SUFFICES ASSUME IInv, [Next]_vars PROVE IInv'
    OBVIOUS
  <2>1. CASE \E r \in Repo : Publish(r) \/ AddRepo(r) \/ DeleteRepo(r)
    BY <2>1, RepoStep
  <2>2. CASE \E w \in Worker : PassStep(w)
    BY <2>2, BeginStep, FetchStep, ReplaceStep, MarkStep, EndStep DEF PassStep
  <2>3. CASE UNCHANGED vars
    BY <2>3 DEF vars, IInv, StoredBeforeMarked, ListedAreKnown, StampedIsStored, TypeOK
  <2>. QED BY <2>1, <2>2, <2>3 DEF Next
<1>. QED BY InitIInv, <1>1, PTL DEF Spec

\* A repository that last_refreshed_at calls refreshed is there and has entries, whatever passes,
\* faults and deletions fall between the transaction that stores them and the update that stamps it
\* (UpdateSources::run, refresh_repo).
THEOREM StampsAreTrue == Spec => []StampedIsStored
<1>1. IInv => StampedIsStored
  BY DEF IInv
<1>. QED BY <1>1, IndexInvariant, PTL

-----------------------------------------------------------------------------
\* The catalog.

What  == {"nothing", "browse", "details", "chapters", "add", "remove"}
Step  == {"idle", "asked", "marking", "finding", "listing", "writing", "storing", "reading", "answered"}
Errors == {"invalid", "source", "unloaded", "storage", "not_found"}
SeriesRow   == [id : Nat, chapters : SUBSET Nat]
Marks == [Series -> SUBSET Nat]
Item  == [key : Series, id : Nat]
AnswerRecord == [status : Nat, retry_after : Nat, cause : Errors \cup {"none"}, items : Seq(Item), id : Nat]
RequestRecord == [what : What, arg : Series \cup Nat, step : Step, list : SUBSET Int, items : Seq(Item),
             id : Nat, again : BOOLEAN, wrote : BOOLEAN, answer : AnswerRecord]

AreMarked(items, mk) == \A i \in DOMAIN items : items[i].id \in mk[items[i].key]

\* The series has the row that an add wrote, with every chapter, unless it has been removed since.
IsWhole(s, id, lib, mk) ==
    /\ id \in mk[s] \ {NoSeries}
    /\ lib[s].id = id => ChaptersOf[s] \subseteq lib[s].chapters

\* What a request has read of the source and written to the library, by how far it is.
AddHas(r, lib, mk) ==
    /\ r.step = "listing" => r.list = Unread \/ r.list = ChaptersOf[r.arg]
    /\ r.step \in {"writing", "storing", "reading"} => r.list = ChaptersOf[r.arg]
    /\ r.step \in {"storing", "reading"} => r.id \in mk[r.arg] \ {NoSeries}
    /\ r.step = "reading" => IsWhole(r.arg, r.id, lib, mk)
    /\ r.step = "answered" /\ r.answer.status = 200 => IsWhole(r.arg, r.answer.id, lib, mk)

Sound(r, lib, mk, n) ==
    /\ r.id <= n /\ r.answer.id <= n
    /\ r.what \in {"details", "chapters", "add", "remove"} => r.arg \in Series
    /\ r.step = "asked" => r.items = <<>>
    /\ r.step = "marking" => r.what = "browse" /\ Len(r.items) <= Len(PageOf(r.arg))
    /\ AreMarked(r.items, mk) /\ AreMarked(r.answer.items, mk)
    /\ r.wrote => r.step \in {"storing", "reading", "answered"}
    /\ r.what = "add" => AddHas(r, lib, mk)
    /\ r.step = "answered" =>
          /\ r.answer.cause \in {"source", "unloaded"} => ~r.wrote
          /\ r.answer.retry_after > 0 <=> r.answer.cause = "source"

CatalogTypeOK ==
    /\ ids \in Nat
    /\ library \in [Series -> SeriesRow]
    /\ request \in [Tab -> RequestRecord]
    /\ marks \in [Tab -> Marks]

CatalogInv ==
    /\ CatalogTypeOK
    /\ \A s \in Series : library[s].id <= ids
    /\ \A c \in Tab : \A s \in Series : library[s].id \in marks[c][s]
    /\ \A c \in Tab : Sound(request[c], library, marks[c], ids)

-----------------------------------------------------------------------------
LEMMA NoItems == <<>> \in Seq(Item)
OBVIOUS

LEMMA NoAnswerType ==
    /\ NoAnswer \in AnswerRecord /\ NoAnswer.items = <<>> /\ NoAnswer.id = 0
BY NoItems DEF NoAnswer, AnswerRecord, NoSeries

LEMMA FreshRequest ==
    ASSUME NEW what \in What, NEW arg \in Series \cup Nat
    PROVE  LET r == Asking(what, arg) IN
           /\ r \in RequestRecord /\ r.what = what /\ r.arg = arg /\ r.step = "asked" /\ ~r.wrote
           /\ r.items = <<>> /\ r.id = 0 /\ r.answer = NoAnswer
BY NoItems, NoAnswerType DEF Asking, RequestRecord, What, Step, Unread, NoSeries

LEMMA IdleRequest ==
    /\ NoRequest \in RequestRecord /\ NoRequest.what = "nothing" /\ NoRequest.step = "idle" /\ ~NoRequest.wrote
    /\ NoRequest.items = <<>> /\ NoRequest.id = 0 /\ NoRequest.answer = NoAnswer
<1>. DEFINE a == Asking("nothing", NoSeries)
<1>1. /\ a \in RequestRecord /\ a.what = "nothing" /\ ~a.wrote /\ a.items = <<>> /\ a.id = 0
      /\ a.answer = NoAnswer
  BY FreshRequest DEF What, NoSeries
<1>2. NoRequest = [a EXCEPT !.step = "idle"]
  BY DEF NoRequest
<1>. HIDE DEF a
<1>. QED BY <1>1, <1>2 DEF RequestRecord, Step

LEMMA AgainRequest ==
    ASSUME NEW what \in What, NEW arg \in Series \cup Nat
    PROVE  LET r == [Asking(what, arg) EXCEPT !.again = TRUE] IN
           /\ r \in RequestRecord /\ r.what = what /\ r.arg = arg /\ r.step = "asked" /\ ~r.wrote
           /\ r.items = <<>> /\ r.id = 0 /\ r.answer = NoAnswer
<1>. DEFINE a == Asking(what, arg)
<1>1. /\ a \in RequestRecord /\ a.what = what /\ a.arg = arg /\ a.step = "asked" /\ ~a.wrote
      /\ a.items = <<>> /\ a.id = 0 /\ a.answer = NoAnswer
  BY FreshRequest
<1>. HIDE DEF a
<1>2. LET r == [a EXCEPT !.again = TRUE] IN
      /\ r \in RequestRecord /\ r.what = what /\ r.arg = arg /\ r.step = "asked" /\ ~r.wrote
      /\ r.items = <<>> /\ r.id = 0 /\ r.answer = NoAnswer
  BY <1>1 DEF RequestRecord
<1>. QED BY <1>2 DEF a

\* A request that has only begun, or none, is sound.
LEMMA SoundAtFirst ==
    ASSUME NEW r \in RequestRecord, NEW lib, NEW mk, NEW n \in Nat,
           r.what \in {"details", "chapters", "add", "remove"} => r.arg \in Series,
           r.step \in {"asked", "idle"}, ~r.wrote, r.items = <<>>, r.id = 0, r.answer = NoAnswer
    PROVE  Sound(r, lib, mk, n)
BY NoAnswerType DEF Sound, AreMarked, AddHas

LEMMA ToldIs ==
    ASSUME NEW e \in Errors
    PROVE  /\ Told(e) \in AnswerRecord /\ Told(e).status # 200 /\ Told(e).cause = e
           /\ Told(e).retry_after > 0 <=> e = "source"
           /\ Told(e).items = <<>> /\ Told(e).id = 0
<1>. DEFINE st == CASE e = "not_found" -> 404 [] e = "conflict" -> 409 [] e = "invalid" -> 400
                    [] e \in {"source", "unloaded"} -> 502 [] e = "capability" -> 501
                    [] e = "no_space" -> 507 [] e \in {"storage", "internal"} -> 500
            ra == IF e = "source" THEN 60 ELSE 0
<1>1. Told(e) = [NoAnswer EXCEPT !.status = st, !.cause = e, !.retry_after = ra]
  BY DEF Told
<1>2. st \in Nat /\ st # 200
  BY DEF Errors
<1>3. ra \in Nat /\ (ra > 0 <=> e = "source")
  OBVIOUS
<1>. HIDE DEF st, ra
<1>. DEFINE a == [NoAnswer EXCEPT !.status = st, !.cause = e, !.retry_after = ra]
<1>4. /\ a \in AnswerRecord /\ a.status = st /\ a.cause = e /\ a.retry_after = ra
      /\ a.items = <<>> /\ a.id = 0
  BY <1>2, <1>3, NoItems DEF NoAnswer, AnswerRecord, NoSeries
<1>5. Told(e) = a
  BY <1>1
<1>. HIDE DEF a
<1>. QED BY <1>2, <1>3, <1>4, <1>5

\* A request that fails: at the source only if it has written nothing.
LEMMA SoundWhenFailed ==
    ASSUME NEW r \in RequestRecord, NEW lib, NEW mk, NEW n \in Nat, Sound(r, lib, mk, n),
           NEW e \in Errors, e \in {"source", "unloaded"} => ~r.wrote
    PROVE  LET q == [r EXCEPT !.step = "answered", !.answer = Told(e)] IN
           q \in RequestRecord /\ Sound(q, lib, mk, n)
<1>. DEFINE a == Told(e)
            q == [r EXCEPT !.step = "answered", !.answer = a]
<1>1. a \in AnswerRecord /\ a.status # 200 /\ a.cause = e /\ (a.retry_after > 0 <=> e = "source")
      /\ a.items = <<>> /\ a.id = 0
  BY ToldIs
<1>. HIDE DEF a
<1>2. /\ q \in RequestRecord /\ q.step = "answered" /\ q.answer = a /\ q.id = r.id /\ q.what = r.what
      /\ q.arg = r.arg /\ q.items = r.items /\ q.wrote = r.wrote
  BY <1>1 DEF RequestRecord, Step
<1>. HIDE DEF q
<1>3. Sound(q, lib, mk, n)
  BY <1>1, <1>2 DEF Sound, AreMarked, AddHas
<1>. QED BY <1>2, <1>3 DEF q, a

\* A request that is answered, with its items and its row.
LEMMA SoundWhenDone ==
    ASSUME NEW r \in RequestRecord, NEW lib, NEW mk, NEW n \in Nat, Sound(r, lib, mk, n),
           r.what = "add" => IsWhole(r.arg, r.id, lib, mk)
    PROVE  LET a == [NoAnswer EXCEPT !.status = 200, !.items = r.items, !.id = r.id]
               q == [r EXCEPT !.step = "answered", !.answer = a]
           IN  q \in RequestRecord /\ Sound(q, lib, mk, n)
<1>. DEFINE a == [NoAnswer EXCEPT !.status = 200, !.items = r.items, !.id = r.id]
            q == [r EXCEPT !.step = "answered", !.answer = a]
<1>1. a \in AnswerRecord /\ a.cause = "none" /\ a.retry_after = 0 /\ a.items = r.items /\ a.id = r.id
  BY DEF NoAnswer, AnswerRecord, RequestRecord, NoSeries
<1>. HIDE DEF a
<1>2. /\ q \in RequestRecord /\ q.step = "answered" /\ q.answer = a /\ q.id = r.id /\ q.what = r.what
      /\ q.arg = r.arg /\ q.items = r.items /\ q.wrote = r.wrote
  BY <1>1 DEF RequestRecord, Step
<1>. HIDE DEF q
<1>3. Sound(q, lib, mk, n)
  BY <1>1, <1>2 DEF Sound, AreMarked, AddHas
<1>. QED BY <1>2, <1>3 DEF q, a

-----------------------------------------------------------------------------
\* While the library changes as it does, a request stays sound: a row keeps its id and its chapters, or
\* the series has no row or one that was not there.
Grows(lib, new, n) ==
    \A s \in Series : \/ new[s].id = lib[s].id /\ lib[s].chapters \subseteq new[s].chapters
                      \/ new[s].id = NoSeries \/ new[s].id > n

LEMMA SoundStays ==
    ASSUME NEW r \in RequestRecord, NEW n \in Nat, NEW m \in Nat, n <= m,
           NEW lib \in [Series -> SeriesRow], NEW new \in [Series -> SeriesRow], Grows(lib, new, n),
           NEW mk \in Marks, NEW mk2 \in Marks, \A s \in Series : mk[s] \subseteq mk2[s],
           Sound(r, lib, mk, n)
    PROVE  Sound(r, new, mk2, m)
<1>1. /\ r.id \in Nat /\ r.answer.id \in Nat /\ r.id <= n /\ r.answer.id <= n
      /\ r.items \in Seq(Item) /\ r.answer.items \in Seq(Item)
  BY DEF RequestRecord, AnswerRecord, Sound
<1>2. ASSUME NEW items \in Seq(Item), AreMarked(items, mk)
      PROVE  AreMarked(items, mk2)
  <2>. HIDE DEF Item
  <2>1. \A i \in DOMAIN items : items[i] \in Item
    BY <1>2
  <2>2. \A i \in DOMAIN items : items[i].key \in Series
    BY <2>1 DEF Item
  <2>. QED BY <1>2, <2>2 DEF AreMarked
<1>3. ASSUME NEW s \in Series, NEW id \in 0..n, IsWhole(s, id, lib, mk)
      PROVE  IsWhole(s, id, new, mk2)
  BY <1>3 DEF IsWhole, Grows, NoSeries, SeriesRow
<1>4. r.what = "add" => AddHas(r, new, mk2)
  <2>. SUFFICES ASSUME r.what = "add" PROVE AddHas(r, new, mk2)
    OBVIOUS
  <2>1. r.arg \in Series /\ AddHas(r, lib, mk)
    BY DEF Sound
  <2>2. r.id \in 0..n /\ r.answer.id \in 0..n
    BY <1>1
  <2>. QED BY <1>3, <2>1, <2>2 DEF AddHas
<1>. QED BY <1>1, <1>2, <1>4 DEF Sound

\* One request changes, in a library that stays or changes as it may.
LEMMA OneRequest ==
    ASSUME CatalogInv, NEW c \in Tab, NEW q \in RequestRecord, request' = [request EXCEPT ![c] = q],
           ids' \in Nat, ids <= ids', library' \in [Series -> SeriesRow], Grows(library, library', ids),
           \A s \in Series : library'[s].id <= ids',
           marks' \in [Tab -> Marks],
           \A d \in Tab : \A s \in Series : library'[s].id \in marks'[d][s],
           \A d \in Tab : d # c => \A s \in Series : marks[d][s] \subseteq marks'[d][s],
           Sound(q, library', marks'[c], ids')
    PROVE  CatalogInv'
<1>1. CatalogTypeOK'
  BY DEF CatalogInv, CatalogTypeOK
<1>2. ASSUME NEW d \in Tab
      PROVE  Sound(request'[d], library', marks'[d], ids')
  <2>1. CASE d = c
    BY <2>1 DEF CatalogInv, CatalogTypeOK
  <2>2. CASE d # c
    <3>1. request'[d] = request[d] /\ request[d] \in RequestRecord
      BY <2>2 DEF CatalogInv, CatalogTypeOK
    <3>2. Sound(request[d], library, marks[d], ids) /\ marks[d] \in Marks /\ marks'[d] \in Marks
      BY DEF CatalogInv, CatalogTypeOK
    <3>. HIDE DEF CatalogInv
    <3>3. library \in [Series -> SeriesRow] /\ ids \in Nat
      BY DEF CatalogInv, CatalogTypeOK
    <3>. QED BY <2>2, <3>1, <3>2, <3>3, SoundStays
  <2>. QED BY <2>1, <2>2
<1>. QED BY <1>1, <1>2 DEF CatalogInv

\* The same, while all else stays.
LEMMA OnlyTheRequest ==
    ASSUME CatalogInv, NEW c \in Tab, NEW q \in RequestRecord, request' = [request EXCEPT ![c] = q],
           UNCHANGED <<library, ids, marks>>, Sound(q, library, marks[c], ids)
    PROVE  CatalogInv'
<1>1. Grows(library, library', ids)
  BY DEF Grows
<1>2. /\ ids \in Nat /\ library \in [Series -> SeriesRow] /\ marks \in [Tab -> Marks]
      /\ \A s \in Series : library[s].id <= ids
      /\ \A d \in Tab : \A s \in Series : library[s].id \in marks[d][s]
  BY DEF CatalogInv, CatalogTypeOK
<1>3. /\ library' = library /\ ids' = ids /\ marks' = marks
  OBVIOUS
<1>4. /\ ids' \in Nat /\ ids <= ids' /\ library' \in [Series -> SeriesRow] /\ marks' \in [Tab -> Marks]
      /\ \A s \in Series : library'[s].id <= ids'
      /\ \A d \in Tab : \A s \in Series : library'[s].id \in marks'[d][s]
      /\ \A d \in Tab : d # c => \A s \in Series : marks[d][s] \subseteq marks'[d][s]
      /\ Sound(q, library', marks'[c], ids')
  BY <1>2, <1>3
<1>. QED BY <1>1, <1>4, OneRequest

LEMMA FailsStep ==
    ASSUME CatalogInv, NEW c \in Tab, NEW e \in Errors, Fails(c, e), UNCHANGED marks,
           e \in {"source", "unloaded"} => ~request[c].wrote
    PROVE  CatalogInv'
<1>. DEFINE r == request[c]
            q == [r EXCEPT !.step = "answered", !.answer = Told(e)]
<1>1. r \in RequestRecord /\ Sound(r, library, marks[c], ids) /\ ids \in Nat
  BY DEF CatalogInv, CatalogTypeOK
<1>2. request' = [request EXCEPT ![c] = q] /\ UNCHANGED <<library, ids, marks>>
  BY DEF Fails, Reply, CatalogInv, CatalogTypeOK
<1>3. q \in RequestRecord /\ Sound(q, library, marks[c], ids)
  <2>. HIDE DEF r
  <2>1. e \in {"source", "unloaded"} => ~r.wrote
    BY DEF r
  <2>. QED BY <1>1, <2>1, SoundWhenFailed
<1>. HIDE DEF q
<1>. QED BY <1>2, <1>3, OnlyTheRequest

LEMMA DoneStep ==
    ASSUME CatalogInv, NEW c \in Tab, Done(c), UNCHANGED <<library, ids, marks>>,
           request[c].what = "add" => IsWhole(request[c].arg, request[c].id, library, marks[c])
    PROVE  CatalogInv'
<1>. DEFINE r == request[c]
            a == [NoAnswer EXCEPT !.status = 200, !.items = r.items, !.id = r.id]
            q == [r EXCEPT !.step = "answered", !.answer = a]
<1>1. r \in RequestRecord /\ Sound(r, library, marks[c], ids) /\ ids \in Nat
  BY DEF CatalogInv, CatalogTypeOK
<1>2. request' = [request EXCEPT ![c] = q]
  BY DEF Done, Reply, CatalogInv, CatalogTypeOK
<1>3. q \in RequestRecord /\ Sound(q, library, marks[c], ids)
  <2>. HIDE DEF r
  <2>1. r.what = "add" => IsWhole(r.arg, r.id, library, marks[c])
    BY DEF r
  <2>. QED BY <1>1, <2>1, SoundWhenDone
<1>. HIDE DEF q
<1>. QED BY <1>2, <1>3, OnlyTheRequest

-----------------------------------------------------------------------------
\* What is known of a request at a step.
LEMMA Known ==
    ASSUME CatalogInv, NEW c \in Tab
    PROVE  /\ request[c] \in RequestRecord /\ Sound(request[c], library, marks[c], ids)
           /\ ids \in Nat /\ library \in [Series -> SeriesRow] /\ marks \in [Tab -> Marks]
BY DEF CatalogInv, CatalogTypeOK

LEMMA SourceErrors == SourceError \in Errors
BY DEF SourceError, Errors

LEMMA DbFailsStep ==
    ASSUME CatalogInv, NEW c \in Tab, DbFails(c), UNCHANGED marks
    PROVE  CatalogInv'
<1>1. "storage" \in Errors
  BY DEF Errors
<1>. QED BY <1>1, FailsStep DEF DbFails

\* A request begins, or is done with: its client marks anew what it sees.
LEMMA AnewStep ==
    ASSUME CatalogInv, NEW c \in Tab, NEW q \in RequestRecord, request' = [request EXCEPT ![c] = q],
           marks' = [marks EXCEPT ![c] = [s \in Series |-> {library[s].id}]],
           UNCHANGED <<library, ids>>,
           q.what \in {"details", "chapters", "add", "remove"} => q.arg \in Series,
           q.step \in {"asked", "idle"}, ~q.wrote, q.items = <<>>, q.id = 0, q.answer = NoAnswer
    PROVE  CatalogInv'
<1>1. ids' = ids /\ library' = library /\ ids \in Nat /\ library \in [Series -> SeriesRow]
  BY Known
<1>2. [s \in Series |-> {library[s].id}] \in Marks
  BY <1>1 DEF Marks, SeriesRow
<1>3. marks' \in [Tab -> Marks] /\ marks'[c] = [s \in Series |-> {library[s].id}]
      /\ \A d \in Tab : d # c => marks'[d] = marks[d]
  BY <1>2, Known
<1>4. Sound(q, library', marks'[c], ids')
  BY <1>1, SoundAtFirst
<1>5. Grows(library, library', ids)
  BY <1>1 DEF Grows
<1>6. /\ ids' \in Nat /\ ids <= ids' /\ library' \in [Series -> SeriesRow]
      /\ \A s \in Series : library'[s].id <= ids'
      /\ \A d \in Tab : d # c => \A s \in Series : marks[d][s] \subseteq marks'[d][s]
  BY <1>1, <1>3 DEF CatalogInv
<1>7. \A d \in Tab : \A s \in Series : library'[s].id \in marks'[d][s]
  BY <1>1, <1>3 DEF CatalogInv
<1>. QED BY <1>3, <1>4, <1>5, <1>6, <1>7, OneRequest

LEMMA AskStep ==
    ASSUME CatalogInv, NEW c \in Tab, NEW what \in What, NEW arg \in Series \cup Nat,
           what \in {"details", "chapters", "add", "remove"} => arg \in Series, Ask(c, what, arg)
    PROVE  CatalogInv'
<1>. DEFINE q == Asking(what, arg)
<1>1. /\ q \in RequestRecord /\ q.what = what /\ q.arg = arg /\ q.step = "asked" /\ ~q.wrote
      /\ q.items = <<>> /\ q.id = 0 /\ q.answer = NoAnswer
  BY FreshRequest
<1>2. /\ request' = [request EXCEPT ![c] = q]
      /\ marks' = [marks EXCEPT ![c] = [s \in Series |-> {library[s].id}]]
      /\ UNCHANGED <<library, ids>>
  BY DEF Ask
<1>. HIDE DEF q
<1>. QED BY <1>1, <1>2, AnewStep

LEMMA TakeAnswerStep ==
    ASSUME CatalogInv, NEW c \in Tab, TakeAnswer(c)
    PROVE  CatalogInv'
<1>. DEFINE r == request[c]
            again == [Asking(r.what, r.arg) EXCEPT !.again = TRUE]
            q == IF AsksAgain(r) THEN again ELSE NoRequest
<1>1. r \in RequestRecord /\ Sound(r, library, marks[c], ids)
  BY Known
<1>2. /\ request' = [request EXCEPT ![c] = q]
      /\ marks' = [marks EXCEPT ![c] = [s \in Series |-> {library[s].id}]]
      /\ UNCHANGED <<library, ids>>
  BY DEF TakeAnswer
<1>. HIDE DEF r
<1>3. r.what \in What /\ r.arg \in Series \cup Nat
  BY <1>1 DEF RequestRecord
<1>4. /\ again \in RequestRecord /\ again.what = r.what /\ again.arg = r.arg /\ again.step = "asked" /\ ~again.wrote
      /\ again.items = <<>> /\ again.id = 0 /\ again.answer = NoAnswer
  BY <1>3, AgainRequest
<1>. HIDE DEF again
<1>5. /\ q \in RequestRecord /\ q.step \in {"asked", "idle"} /\ ~q.wrote
      /\ q.items = <<>> /\ q.id = 0 /\ q.answer = NoAnswer
      /\ q.what \in {"details", "chapters", "add", "remove"} => q.arg \in Series
  BY <1>1, <1>4, IdleRequest DEF Sound
<1>. HIDE DEF q
<1>. QED BY <1>2, <1>5, AnewStep

\* A request comes to another step, and all else stays.
LEMMA PageSeq == \A k : PageOf(k) \in Seq(Series)
BY CatalogAssumption DEF PageOf

LEMMA BrowseStep ==
    ASSUME CatalogInv, NEW c \in Tab, Browse(c)
    PROVE  CatalogInv'
<1>. DEFINE r == request[c]
            q == [r EXCEPT !.step = "marking", !.list = {}]
<1>1. r \in RequestRecord /\ Sound(r, library, marks[c], ids)
  BY Known
<1>2. r.what = "browse" /\ r.step = "asked" /\ UNCHANGED marks
  BY DEF Browse, At
<1>3. ~r.wrote
  BY <1>1, <1>2 DEF Sound
<1>4. CASE \E e \in Errors : Fails(c, e)
  BY <1>2, <1>3, <1>4, FailsStep
<1>5. CASE request' = [request EXCEPT ![c].step = "marking", ![c].list = {}] /\ UNCHANGED <<library, ids>>
  <2>1. request' = [request EXCEPT ![c] = q]
    BY <1>5 DEF CatalogInv, CatalogTypeOK
  <2>. HIDE DEF r
  <2>2. /\ q \in RequestRecord /\ q.step = "marking" /\ q.answer = r.answer /\ q.id = r.id /\ q.what = r.what
        /\ q.arg = r.arg /\ q.items = r.items /\ q.wrote = r.wrote
    BY <1>1 DEF RequestRecord, Step
  <2>. HIDE DEF q
  <2>3. Sound(q, library, marks[c], ids)
    BY <1>1, <1>2, <2>2, PageSeq DEF Sound, AddHas
  <2>. QED BY <1>2, <1>5, <2>1, <2>2, <2>3, OnlyTheRequest
<1>. QED BY <1>4, <1>5, SourceErrors DEF Browse, Errors

LEMMA MarkPresentStep ==
    ASSUME CatalogInv, NEW c \in Tab, MarkPresent(c)
    PROVE  CatalogInv'
<1>. DEFINE r == request[c]
            todo == PageOf(r.arg)
            n == Len(r.items)
            s == todo[n + 1]
            item == [key |-> s, id |-> library[s].id]
            more == Append(r.items, item)
            q == [r EXCEPT !.items = more]
<1>1. r \in RequestRecord /\ Sound(r, library, marks[c], ids) /\ library \in [Series -> SeriesRow]
  BY Known
<1>2. r.what = "browse" /\ r.step = "marking" /\ UNCHANGED marks
  BY DEF MarkPresent, At
<1>3. CASE DbFails(c)
  BY <1>2, <1>3, DbFailsStep
<1>4. CASE Done(c) /\ UNCHANGED <<library, ids>>
  BY <1>2, <1>4, DoneStep
<1>5. CASE /\ n # Len(todo)
           /\ request' = [request EXCEPT ![c].items = Append(@, item)]
           /\ UNCHANGED <<library, ids>>
  <2>1. request' = [request EXCEPT ![c] = q]
    BY <1>5 DEF CatalogInv, CatalogTypeOK
  <2>2. r.items \in Seq(Item) /\ n \in Nat /\ n <= Len(todo)
    BY <1>1, <1>2 DEF Sound, RequestRecord
  <2>3. todo \in Seq(Series)
    BY PageSeq
  <2>4. s \in Series
    BY <1>5, <2>2, <2>3
  <2>5. item \in Item /\ item.key = s /\ item.id = library[s].id
    BY <1>1, <2>4 DEF Item, SeriesRow
  <2>6. item.id \in marks[c][item.key]
    BY <2>4, <2>5 DEF CatalogInv
  <2>. HIDE DEF item, s, todo
  <2>7. /\ more \in Seq(Item) /\ Len(more) = n + 1
        /\ \A i \in DOMAIN more : more[i] = item \/ (i \in DOMAIN r.items /\ more[i] = r.items[i])
    BY <2>2, <2>5
  <2>8. AreMarked(more, marks[c])
    BY <1>1, <2>6, <2>7 DEF Sound, AreMarked
  <2>9. Len(more) <= Len(todo)
    BY <1>5, <2>2, <2>3, <2>7
  <2>. HIDE DEF more, r, n
  <2>10. /\ q \in RequestRecord /\ q.step = r.step /\ q.answer = r.answer /\ q.id = r.id /\ q.what = r.what
         /\ q.arg = r.arg /\ q.items = more /\ q.wrote = r.wrote
    BY <1>1, <2>7 DEF RequestRecord
  <2>. HIDE DEF q
  <2>11. Sound(q, library, marks[c], ids)
    BY <1>1, <1>2, <2>8, <2>9, <2>10 DEF Sound, todo
  <2>. QED BY <1>2, <1>5, <2>1, <2>10, <2>11, OnlyTheRequest
<1>. QED BY <1>3, <1>4, <1>5 DEF MarkPresent

LEMMA DetailsStep ==
    ASSUME CatalogInv, NEW c \in Tab, Details(c)
    PROVE  CatalogInv'
<1>. DEFINE r == request[c]
            q == [r EXCEPT !.step = "finding"]
<1>1. r \in RequestRecord /\ Sound(r, library, marks[c], ids)
  BY Known
<1>2. r.what = "details" /\ r.step = "asked" /\ UNCHANGED marks
  BY DEF Details, At
<1>3. ~r.wrote
  BY <1>1, <1>2 DEF Sound
<1>4. CASE \E e \in Errors : Fails(c, e)
  BY <1>2, <1>3, <1>4, FailsStep
<1>5. CASE request' = [request EXCEPT ![c].step = "finding"] /\ UNCHANGED <<library, ids>>
  <2>1. request' = [request EXCEPT ![c] = q]
    BY <1>5 DEF CatalogInv, CatalogTypeOK
  <2>. HIDE DEF r
  <2>2. /\ q \in RequestRecord /\ q.step = "finding" /\ q.answer = r.answer /\ q.id = r.id /\ q.what = r.what
        /\ q.arg = r.arg /\ q.items = r.items /\ q.wrote = r.wrote
    BY <1>1 DEF RequestRecord, Step
  <2>. HIDE DEF q
  <2>3. Sound(q, library, marks[c], ids)
    BY <1>1, <1>2, <2>2 DEF Sound
  <2>. QED BY <1>2, <1>5, <2>1, <2>2, <2>3, OnlyTheRequest
<1>. QED BY <1>4, <1>5, SourceErrors DEF Details

LEMMA FindStep ==
    ASSUME CatalogInv, NEW c \in Tab, Find(c)
    PROVE  CatalogInv'
<1>. DEFINE r == request[c]
            s == r.arg
            item == [key |-> s, id |-> library[s].id]
            items == <<item>>
            a == [NoAnswer EXCEPT !.status = 200, !.items = items]
            q == [r EXCEPT !.step = "answered", !.answer = a]
<1>1. /\ r \in RequestRecord /\ Sound(r, library, marks[c], ids) /\ library \in [Series -> SeriesRow]
      /\ ids \in Nat
  BY Known
<1>2. r.what = "details" /\ r.step = "finding" /\ UNCHANGED marks
  BY DEF Find, At
<1>3. CASE DbFails(c)
  BY <1>2, <1>3, DbFailsStep
<1>4. CASE Reply(c, a) /\ UNCHANGED <<library, ids>>
  <2>1. request' = [request EXCEPT ![c] = q]
    BY <1>4 DEF Reply, CatalogInv, CatalogTypeOK
  <2>2. s \in Series
    BY <1>1, <1>2 DEF Sound
  <2>3. item \in Item /\ item.id \in marks[c][item.key]
    BY <1>1, <2>2 DEF Item, SeriesRow, CatalogInv
  <2>. HIDE DEF item
  <2>4. items \in Seq(Item) /\ AreMarked(items, marks[c])
    BY <2>3 DEF AreMarked
  <2>. HIDE DEF items
  <2>5. a \in AnswerRecord /\ a.cause = "none" /\ a.retry_after = 0 /\ a.items = items /\ a.id = 0
    BY <2>4 DEF NoAnswer, AnswerRecord, NoSeries
  <2>. HIDE DEF a, r
  <2>6. /\ q \in RequestRecord /\ q.step = "answered" /\ q.answer = a /\ q.id = r.id /\ q.what = r.what
        /\ q.arg = r.arg /\ q.items = r.items /\ q.wrote = r.wrote
    BY <1>1, <2>5 DEF RequestRecord, Step
  <2>. HIDE DEF q
  <2>7. Sound(q, library, marks[c], ids)
    BY <1>1, <1>2, <2>4, <2>5, <2>6 DEF Sound
  <2>. QED BY <1>2, <1>4, <2>1, <2>6, <2>7, OnlyTheRequest
<1>. QED BY <1>3, <1>4 DEF Find

LEMMA ChaptersStep ==
    ASSUME CatalogInv, NEW c \in Tab, Chapters(c)
    PROVE  CatalogInv'
<1>. DEFINE r == request[c]
<1>1. r \in RequestRecord /\ Sound(r, library, marks[c], ids)
  BY Known
<1>2. r.what = "chapters" /\ r.step = "asked" /\ UNCHANGED marks
  BY DEF Chapters, At
<1>3. ~r.wrote
  BY <1>1, <1>2 DEF Sound
<1>4. CASE \E e \in Errors : Fails(c, e)
  BY <1>2, <1>3, <1>4, FailsStep
<1>5. CASE Done(c) /\ UNCHANGED <<library, ids>>
  BY <1>2, <1>5, DoneStep
<1>. QED BY <1>4, <1>5, SourceErrors DEF Chapters

\* The chapters that a site lists are no sign that they were not asked for.
LEMMA Listed ==
    ASSUME NEW s \in Series
    PROVE  ChaptersOf[s] \in SUBSET Nat /\ ChaptersOf[s] # Unread
<1>1. ChaptersOf[s] \in SUBSET Nat
  BY CatalogAssumption
<1>2. -1 \notin ChaptersOf[s]
  BY <1>1
<1>. QED BY <1>1, <1>2 DEF Unread

LEMMA AddDetailsStep ==
    ASSUME CatalogInv, NEW c \in Tab, AddDetails(c)
    PROVE  CatalogInv'
<1>. DEFINE r == request[c]
            s == r.arg
            l == IF s \in WithDetails THEN ChaptersOf[s] ELSE Unread
            q == [r EXCEPT !.step = "listing", !.list = l]
<1>1. r \in RequestRecord /\ Sound(r, library, marks[c], ids)
  BY Known
<1>2. r.what = "add" /\ r.step = "asked" /\ UNCHANGED marks
  BY DEF AddDetails, At
<1>3. ~r.wrote /\ s \in Series
  BY <1>1, <1>2 DEF Sound
<1>4. CASE \E e \in Errors : Fails(c, e)
  BY <1>2, <1>3, <1>4, FailsStep
<1>5. CASE request' = [request EXCEPT ![c].step = "listing", ![c].list = l] /\ UNCHANGED <<library, ids>>
  <2>1. request' = [request EXCEPT ![c] = q]
    BY <1>5 DEF CatalogInv, CatalogTypeOK
  <2>2. l \in SUBSET Int /\ (l = Unread \/ l = ChaptersOf[s])
    BY <1>3, Listed DEF Unread
  <2>. HIDE DEF r, l
  <2>3. /\ q \in RequestRecord /\ q.step = "listing" /\ q.answer = r.answer /\ q.id = r.id /\ q.what = r.what
        /\ q.arg = r.arg /\ q.items = r.items /\ q.wrote = r.wrote /\ q.list = l
    BY <1>1, <2>2 DEF RequestRecord, Step
  <2>. HIDE DEF q
  <2>4. Sound(q, library, marks[c], ids)
    BY <1>1, <1>2, <1>3, <2>2, <2>3 DEF Sound, AddHas
  <2>. QED BY <1>2, <1>5, <2>1, <2>3, <2>4, OnlyTheRequest
<1>. QED BY <1>4, <1>5, SourceErrors DEF AddDetails

LEMMA AddChaptersStep ==
    ASSUME CatalogInv, NEW c \in Tab, AddChapters(c)
    PROVE  CatalogInv'
<1>. DEFINE r == request[c]
            l == ChapterList(r)
            q == [r EXCEPT !.step = "writing", !.list = l]
<1>1. r \in RequestRecord /\ Sound(r, library, marks[c], ids)
  BY Known
<1>2. r.what = "add" /\ r.step = "listing" /\ UNCHANGED marks
  BY DEF AddChapters, At
<1>3. ~r.wrote /\ r.arg \in Series /\ (r.list = Unread \/ r.list = ChaptersOf[r.arg])
  BY <1>1, <1>2 DEF Sound, AddHas
<1>4. CASE \E e \in Errors : Fails(c, e)
  BY <1>2, <1>3, <1>4, FailsStep
<1>5. CASE request' = [request EXCEPT ![c].step = "writing", ![c].list = l] /\ UNCHANGED <<library, ids>>
  <2>1. request' = [request EXCEPT ![c] = q]
    BY <1>5 DEF CatalogInv, CatalogTypeOK
  <2>2. l \in SUBSET Int /\ l = ChaptersOf[r.arg]
    BY <1>3, Listed DEF ChapterList
  <2>. HIDE DEF r, l
  <2>3. /\ q \in RequestRecord /\ q.step = "writing" /\ q.answer = r.answer /\ q.id = r.id /\ q.what = r.what
        /\ q.arg = r.arg /\ q.items = r.items /\ q.wrote = r.wrote /\ q.list = l
    BY <1>1, <2>2 DEF RequestRecord, Step
  <2>. HIDE DEF q
  <2>4. Sound(q, library, marks[c], ids)
    BY <1>1, <1>2, <1>3, <2>2, <2>3 DEF Sound, AddHas
  <2>. QED BY <1>2, <1>5, <2>1, <2>3, <2>4, OnlyTheRequest
<1>. QED BY <1>4, <1>5, SourceErrors DEF AddChapters

\* What every step does to the marks: the id that a series now has is added for every client.
LEMMA MarksGrow ==
    ASSUME CatalogInv, NEW s \in Series, NEW id \in Nat,
           marks' = [d \in Tab |-> [marks[d] EXCEPT ![s] = @ \cup {id}]]
    PROVE  /\ marks' \in [Tab -> Marks]
           /\ \A d \in Tab : /\ id \in marks'[d][s]
                             /\ \A t \in Series : marks[d][t] \subseteq marks'[d][t]
<1>1. marks \in [Tab -> Marks]
  BY DEF CatalogInv, CatalogTypeOK
<1>2. ASSUME NEW d \in Tab
      PROVE  LET m == [marks[d] EXCEPT ![s] = @ \cup {id}] IN
             m \in Marks /\ id \in m[s] /\ \A t \in Series : marks[d][t] \subseteq m[t]
  BY <1>1 DEF Marks
<1>. QED BY <1>1, <1>2

LEMMA AddSeriesStep ==
    ASSUME CatalogInv, NEW c \in Tab, AddSeries(c)
    PROVE  CatalogInv'
<1>. DEFINE r == request[c]
            s == r.arg
            row == Upserted(s)
            id == row.id
            q == [r EXCEPT !.step = "storing", !.id = id, !.wrote = TRUE]
<1>1. /\ r \in RequestRecord /\ Sound(r, library, marks[c], ids) /\ ids \in Nat
      /\ library \in [Series -> SeriesRow] /\ marks \in [Tab -> Marks]
  BY Known
<1>2. r.what = "add" /\ r.step = "writing"
  BY DEF AddSeries, At
<1>3. s \in Series /\ r.list = ChaptersOf[s]
  BY <1>1, <1>2 DEF Sound, AddHas
<1>4. CASE DbFails(c) /\ UNCHANGED marks
  BY <1>4, DbFailsStep
<1>5. CASE /\ library' = [library EXCEPT ![s] = row]
           /\ ids' = IF library[s].id = NoSeries THEN ids + 1 ELSE ids
           /\ request' = [request EXCEPT ![c].step = "storing", ![c].id = id, ![c].wrote = TRUE]
           /\ marks' = [d \in Tab |-> [marks[d] EXCEPT ![s] = @ \cup {id}]]
  <2>1. request' = [request EXCEPT ![c] = q]
    BY <1>5 DEF CatalogInv, CatalogTypeOK
  <2>2. /\ row \in SeriesRow /\ id \in Nat /\ id # NoSeries /\ id <= ids'
        /\ ids' \in Nat /\ ids <= ids'
        /\ (id = library[s].id /\ row = library[s]) \/ id > ids
    <3>1. library[s] \in SeriesRow /\ library[s].id <= ids
      BY <1>1, <1>3 DEF CatalogInv
    <3>2. CASE library[s].id = NoSeries
      <4>1. row = [NoRow EXCEPT !.id = ids + 1] /\ ids' = ids + 1
        BY <1>5, <3>2 DEF Upserted
      <4>2. row \in SeriesRow /\ id = ids + 1
        BY <1>1, <4>1 DEF NoRow, SeriesRow, NoSeries
      <4>. QED BY <1>1, <4>1, <4>2 DEF NoSeries
    <3>3. CASE library[s].id # NoSeries
      BY <1>1, <1>5, <3>1, <3>3 DEF Upserted, SeriesRow
    <3>. QED BY <3>2, <3>3
  <2>. HIDE DEF row, id
  <2>3. /\ marks' \in [Tab -> Marks]
        /\ \A d \in Tab : id \in marks'[d][s] /\ \A t \in Series : marks[d][t] \subseteq marks'[d][t]
    BY <1>3, <1>5, <2>2, MarksGrow
  <2>4. /\ library' \in [Series -> SeriesRow] /\ library'[s] = row /\ library'[s].id = id
        /\ \A t \in Series : t # s => library'[t] = library[t]
    BY <1>1, <1>3, <1>5, <2>2 DEF id
  <2>5. Grows(library, library', ids)
    BY <1>1, <1>3, <2>2, <2>4 DEF Grows
  <2>6. \A t \in Series : library'[t].id <= ids'
    BY <1>1, <2>2, <2>4 DEF CatalogInv, SeriesRow
  <2>7. \A d \in Tab : \A t \in Series : library'[t].id \in marks'[d][t]
    BY <2>3, <2>4 DEF CatalogInv
  <2>8. Sound(r, library', marks'[c], ids')
    <3>1. marks[c] \in Marks /\ marks'[c] \in Marks /\ \A t \in Series : marks[c][t] \subseteq marks'[c][t]
      BY <1>1, <2>3
    <3>. HIDE DEF r, s
    <3>. QED BY <1>1, <2>2, <2>4, <2>5, <3>1, SoundStays
  <2>. HIDE DEF r
  <2>9. /\ q \in RequestRecord /\ q.step = "storing" /\ q.answer = r.answer /\ q.id = id /\ q.what = r.what
        /\ q.arg = r.arg /\ q.items = r.items /\ q.wrote = TRUE /\ q.list = r.list
    BY <1>1, <2>2 DEF RequestRecord, Step
  <2>. HIDE DEF q
  <2>10. Sound(q, library', marks'[c], ids')
    BY <1>2, <1>3, <2>2, <2>3, <2>8, <2>9 DEF Sound, AddHas
  <2>. QED BY <2>1, <2>2, <2>3, <2>4, <2>5, <2>6, <2>7, <2>9, <2>10, OneRequest
<1>. QED BY <1>4, <1>5 DEF AddSeries

LEMMA AddStoredStep ==
    ASSUME CatalogInv, NEW c \in Tab, AddStored(c)
    PROVE  CatalogInv'
<1>. DEFINE r == request[c]
            s == r.arg
            q == [r EXCEPT !.step = "reading"]
<1>1. /\ r \in RequestRecord /\ Sound(r, library, marks[c], ids) /\ ids \in Nat
      /\ library \in [Series -> SeriesRow] /\ marks \in [Tab -> Marks]
  BY Known
<1>2. r.what = "add" /\ r.step = "storing" /\ UNCHANGED marks
  BY DEF AddStored, At
<1>3. s \in Series /\ r.list = ChaptersOf[s] /\ r.id \in marks[c][s] \ {NoSeries}
  BY <1>1, <1>2 DEF Sound, AddHas
<1>4. CASE DbFails(c)
  BY <1>2, <1>4, DbFailsStep
<1>5. CASE Fails(c, "storage")
  BY <1>2, <1>5, FailsStep DEF Errors
<1>6. CASE /\ r.list = {} \/ library[s].id = r.id
           /\ request' = [request EXCEPT ![c].step = "reading"]
           /\ library' = IF r.list = {} THEN library ELSE [library EXCEPT ![s].chapters = @ \cup r.list]
           /\ UNCHANGED ids
  <2>1. request' = [request EXCEPT ![c] = q]
    BY <1>6 DEF CatalogInv, CatalogTypeOK
  <2>2. /\ library' \in [Series -> SeriesRow]
        /\ \A t \in Series : /\ library'[t].id = library[t].id
                             /\ library[t].chapters \subseteq library'[t].chapters
        /\ library[s].id = r.id => ChaptersOf[s] \subseteq library'[s].chapters
    <3>1. CASE r.list = {}
      BY <1>1, <1>3, <1>6, <3>1
    <3>2. CASE r.list # {}
      <4>. DEFINE row == [library[s] EXCEPT !.chapters = @ \cup r.list]
      <4>1. library' = [library EXCEPT ![s] = row]
        BY <1>1, <1>3, <1>6, <3>2
      <4>2. /\ row \in SeriesRow /\ row.id = library[s].id /\ row.chapters = library[s].chapters \cup r.list
        BY <1>1, <1>3, Listed DEF SeriesRow
      <4>. HIDE DEF row
      <4>. QED BY <1>1, <1>3, <4>1, <4>2
    <3>. QED BY <3>1, <3>2
  <2>3. Grows(library, library', ids)
    BY <2>2 DEF Grows
  <2>4. /\ \A t \in Series : library'[t].id <= ids'
        /\ \A d \in Tab : \A t \in Series : library'[t].id \in marks'[d][t]
    BY <1>2, <1>6, <2>2 DEF CatalogInv
  <2>5. Sound(r, library', marks[c], ids)
    <3>1. marks[c] \in Marks
      BY <1>1
    <3>. HIDE DEF r, s
    <3>. QED BY <1>1, <2>2, <2>3, <3>1, SoundStays
  <2>. HIDE DEF r
  <2>6. /\ q \in RequestRecord /\ q.step = "reading" /\ q.answer = r.answer /\ q.id = r.id /\ q.what = r.what
        /\ q.arg = r.arg /\ q.items = r.items /\ q.wrote = r.wrote /\ q.list = r.list
    BY <1>1 DEF RequestRecord, Step
  <2>. HIDE DEF q
  <2>7. IsWhole(s, r.id, library', marks[c])
    BY <1>3, <2>2 DEF IsWhole
  <2>8. Sound(q, library', marks[c], ids)
    BY <1>2, <1>3, <2>5, <2>6, <2>7 DEF Sound, AddHas
  <2>9. /\ ids' = ids /\ marks' = marks
    BY <1>2, <1>6
  <2>10. /\ ids' \in Nat /\ ids <= ids' /\ marks' \in [Tab -> Marks]
         /\ \A d \in Tab : d # c => \A t \in Series : marks[d][t] \subseteq marks'[d][t]
         /\ Sound(q, library', marks'[c], ids')
    BY <1>1, <2>8, <2>9
  <2>. QED BY <2>1, <2>2, <2>3, <2>4, <2>6, <2>10, OneRequest
<1>. QED BY <1>4, <1>5, <1>6 DEF AddStored

LEMMA AddAnsweredStep ==
    ASSUME CatalogInv, NEW c \in Tab, AddAnswered(c)
    PROVE  CatalogInv'
<1>. DEFINE r == request[c]
<1>1. r \in RequestRecord /\ Sound(r, library, marks[c], ids)
  BY Known
<1>2. r.what = "add" /\ r.step = "reading" /\ UNCHANGED marks
  BY DEF AddAnswered, At
<1>3. IsWhole(r.arg, r.id, library, marks[c])
  BY <1>1, <1>2 DEF Sound, AddHas
<1>4. CASE DbFails(c)
  BY <1>2, <1>4, DbFailsStep
<1>5. CASE Fails(c, "not_found")
  BY <1>2, <1>5, FailsStep DEF Errors
<1>6. CASE Done(c) /\ UNCHANGED <<library, ids>>
  BY <1>2, <1>3, <1>6, DoneStep
<1>. QED BY <1>4, <1>5, <1>6 DEF AddAnswered

LEMMA RemoveSeriesStep ==
    ASSUME CatalogInv, NEW c \in Tab, RemoveSeries(c)
    PROVE  CatalogInv'
<1>. DEFINE r == request[c]
            s == r.arg
            a == [NoAnswer EXCEPT !.status = 200, !.items = r.items, !.id = r.id]
            q == [r EXCEPT !.step = "answered", !.answer = a]
<1>1. /\ r \in RequestRecord /\ Sound(r, library, marks[c], ids) /\ ids \in Nat
      /\ library \in [Series -> SeriesRow] /\ marks \in [Tab -> Marks]
  BY Known
<1>2. r.what = "remove" /\ r.step = "asked"
  BY DEF RemoveSeries, At
<1>3. s \in Series
  BY <1>1, <1>2 DEF Sound
<1>4. CASE DbFails(c) /\ UNCHANGED marks
  BY <1>4, DbFailsStep
<1>5. CASE Fails(c, "not_found") /\ UNCHANGED marks
  BY <1>5, FailsStep DEF Errors
<1>6. CASE /\ library' = [library EXCEPT ![s] = NoRow]
           /\ Done(c)
           /\ marks' = [d \in Tab |-> [marks[d] EXCEPT ![s] = @ \cup {NoSeries}]]
           /\ UNCHANGED ids
  <2>1. request' = [request EXCEPT ![c] = q]
    BY <1>6 DEF Done, Reply, CatalogInv, CatalogTypeOK
  <2>2. NoRow \in SeriesRow /\ NoRow.id = NoSeries /\ NoSeries \in Nat
    BY DEF NoRow, SeriesRow, NoSeries
  <2>3. /\ marks' \in [Tab -> Marks]
        /\ \A d \in Tab : NoSeries \in marks'[d][s] /\ \A t \in Series : marks[d][t] \subseteq marks'[d][t]
    BY <1>3, <1>6, <2>2, MarksGrow
  <2>4. /\ library' \in [Series -> SeriesRow] /\ library'[s].id = NoSeries
        /\ \A t \in Series : t # s => library'[t] = library[t]
    BY <1>1, <1>3, <1>6, <2>2
  <2>5. Grows(library, library', ids)
    BY <1>1, <2>4 DEF Grows
  <2>6. ids' = ids
    BY <1>6
  <2>7. /\ \A t \in Series : library'[t].id <= ids'
        /\ \A d \in Tab : \A t \in Series : library'[t].id \in marks'[d][t]
    BY <1>1, <2>2, <2>3, <2>4, <2>6 DEF CatalogInv, NoSeries
  <2>8. Sound(r, library', marks'[c], ids)
    <3>1. marks[c] \in Marks /\ marks'[c] \in Marks /\ \A t \in Series : marks[c][t] \subseteq marks'[c][t]
      BY <1>1, <2>3
    <3>. HIDE DEF r, s
    <3>. QED BY <1>1, <2>4, <2>5, <3>1, SoundStays
  <2>. HIDE DEF r
  <2>9. q \in RequestRecord /\ Sound(q, library', marks'[c], ids)
    BY <1>1, <1>2, <2>8, SoundWhenDone
  <2>. HIDE DEF q
  <2>10. /\ ids' \in Nat /\ ids <= ids' /\ Sound(q, library', marks'[c], ids')
    BY <1>1, <2>6, <2>9
  <2>. QED BY <2>1, <2>3, <2>4, <2>5, <2>7, <2>9, <2>10, OneRequest
<1>. QED BY <1>4, <1>5, <1>6 DEF RemoveSeries

LEMMA CatalogInitInv == CatalogInit => CatalogInv
<1>. SUFFICES ASSUME CatalogInit PROVE CatalogInv
  OBVIOUS
<1>1. NoRow \in SeriesRow /\ NoRow.id = 0
  BY DEF NoRow, SeriesRow, NoSeries
<1>2. CatalogTypeOK
  <2>1. [s \in Series |-> {NoSeries}] \in Marks
    BY DEF Marks, NoSeries
  <2>. QED BY <1>1, <2>1, IdleRequest DEF CatalogInit, CatalogTypeOK
<1>3. \A s \in Series : library[s].id = 0
  BY <1>1 DEF CatalogInit
<1>4. \A c \in Tab : \A s \in Series : marks[c][s] = {0}
  BY DEF CatalogInit, NoSeries
<1>5. \A c \in Tab : Sound(request[c], library, marks[c], ids)
  <2>. SUFFICES ASSUME NEW c \in Tab PROVE Sound(request[c], library, marks[c], ids)
    OBVIOUS
  <2>1. request[c] = NoRequest /\ ids = 0
    BY DEF CatalogInit
  <2>2. Sound(NoRequest, library, marks[c], 0)
    BY IdleRequest, SoundAtFirst
  <2>. QED BY <2>1, <2>2
<1>6. ids = 0
  BY DEF CatalogInit
<1>. QED BY <1>2, <1>3, <1>4, <1>5, <1>6 DEF CatalogInv

LEMMA CatalogStep ==
    ASSUME CatalogInv, [CatalogNext]_catalogVars
    PROVE  CatalogInv'
<1>1. CASE UNCHANGED catalogVars
  BY <1>1 DEF catalogVars, CatalogInv, CatalogTypeOK
<1>2. ASSUME NEW state, SourceChanges(state)
      PROVE  CatalogInv'
  BY <1>2 DEF SourceChanges, CatalogInv, CatalogTypeOK
<1>3. ASSUME NEW c \in Tab, NEW k \in 0..(Len(Catalogue) + 1), Ask(c, "browse", k)
      PROVE  CatalogInv'
  <2>1. k \in Series \cup Nat
    BY CatalogAssumption
  <2>. QED BY <1>3, <2>1, AskStep DEF What
<1>4. ASSUME NEW c \in Tab, NEW what \in {"details", "chapters", "add", "remove"}, NEW s \in Series,
             Ask(c, what, s)
      PROVE  CatalogInv'
  BY <1>4, AskStep DEF What
<1>5. ASSUME NEW c \in Tab,
             \/ Browse(c) \/ MarkPresent(c) \/ Details(c) \/ Find(c) \/ Chapters(c)
             \/ AddDetails(c) \/ AddChapters(c) \/ AddSeries(c) \/ AddStored(c) \/ AddAnswered(c)
             \/ RemoveSeries(c) \/ TakeAnswer(c)
      PROVE  CatalogInv'
  BY <1>5, BrowseStep, MarkPresentStep, DetailsStep, FindStep, ChaptersStep, AddDetailsStep,
     AddChaptersStep, AddSeriesStep, AddStoredStep, AddAnsweredStep, RemoveSeriesStep, TakeAnswerStep
<1>. QED BY <1>1, <1>2, <1>3, <1>4, <1>5 DEF CatalogNext

LEMMA SoundIsRepaired == CatalogInv => AddIsARetry
BY DEF CatalogInv, AddIsARetry, Sound, AddHas, IsWhole, AreMarked

\* What failed at the source has written nothing; what was answered as added was there, and is there with
\* every chapter unless it was removed since; items are marked with rows they had (routes/catalog.rs,
\* add and mark_present), for every number of clients, series and pages, whatever overlaps and fails.
THEOREM AddsCanBeRetried == CatalogSpec => []AddIsARetry
BY SoundIsRepaired, CatalogInitInv, CatalogStep, PTL DEF CatalogSpec

-----------------------------------------------------------------------------
\* The limit on sign-in requests.

\* Whatever a client writes in the header, and by whichever proxies its request comes, the key of its
\* limit is its own address: the proxies to the right of it are passed over, and what it wrote itself is
\* to the left.
LEMMA KeyIsTheClients ==
    ASSUME NEW c \in Client, NEW way \in Way
    PROVE  LimitKey(c, way) = c
<1>1. ~IsTrusted(c) /\ c # Junk
  BY ClientsAreNotProxies
<1>2. CASE way.proxies = <<>>
  BY <1>1, <1>2 DEF LimitKey, Peer, ClientIp
<1>3. CASE way.proxies # <<>>
  <2>. DEFINE claims == way.claims
              n == Len(way.proxies)
              front == SubSeq(way.proxies, 1, n - 1)
              f == claims \o <<c>> \o front
              k == Len(claims) + 1
  <2>1. PICK m \in 0..MaxHops : way.proxies \in [1..m -> Proxy]
    BY DEF Way
  <2>2. PICK l \in 0..MaxClaims : claims \in [1..l -> Client \cup {Junk}]
    BY DEF Way
  <2>3. way.proxies \in Seq(Proxy) /\ n \in Nat \ {0} /\ claims \in Seq(Client \cup {Junk})
    BY <1>3, <2>1, <2>2
  <2>4. /\ front \in Seq(Proxy) /\ Len(front) = n - 1
    BY <2>3
  <2>. HIDE DEF claims, front, n
  <2>5. f \in Seq(Client \cup Proxy \cup {Junk}) /\ Len(f) = Len(claims) + n
    BY <2>3, <2>4
  <2>6. k \in 1..Len(f) /\ f[k] = c
    BY <2>3, <2>4, <2>5
  <2>7. \A i \in (k + 1)..Len(f) : f[i] \in Proxy
    <3>. SUFFICES ASSUME NEW i \in (k + 1)..Len(f) PROVE f[i] \in Proxy
      OBVIOUS
    <3>1. i - k \in 1..Len(front) /\ f[i] = front[i - k]
      BY <2>3, <2>4, <2>5
    <3>. QED BY <3>1, <2>4
  <2>. HIDE DEF f, k
  <2>8. k \in Hops(f) /\ \A i \in Hops(f) : i <= k
    <3>1. DOMAIN f = 1..Len(f)
      BY <2>5
    <3>2. k \in Hops(f)
      BY <1>1, <2>6, <3>1 DEF Hops
    <3>3. ASSUME NEW i \in Hops(f), ~(i <= k) PROVE FALSE
      <4>1. i \in 1..Len(f) /\ ~IsTrusted(f[i])
        BY <3>1 DEF Hops
      <4>2. i \in (k + 1)..Len(f)
        BY <3>3, <4>1, <2>6, <2>5
      <4>. QED BY <4>1, <4>2, <2>7, ProxiesAreTrusted
    <3>. QED BY <3>2, <3>3
  <2>9. Found(Hops(f)) = k
    <3>1. Hops(f) \subseteq Int /\ k \in Int
      BY <2>5, <2>6 DEF Hops
    <3>. QED BY <2>8, <3>1 DEF Found
  <2>10. IsTrusted(Peer(c, way))
    <3>1. Peer(c, way) \in Proxy
      BY <1>3, <2>3 DEF Peer, Last, n
    <3>. QED BY <3>1, ProxiesAreTrusted
  <2>11. Forwarded(c, way) = f
    BY <1>3 DEF Forwarded, f, claims, front, n
  <2>. QED BY <2>6, <2>8, <2>9, <2>10, <2>11 DEF LimitKey, ClientIp
<1>. QED BY <1>2, <1>3

-----------------------------------------------------------------------------
DoorTypeOK ==
    /\ now \in Nat
    /\ arrival \in [Client \cup Proxy -> Nat]
    /\ admitted \in [Client -> Seq(Nat)]

\* What was let through is paid for: the time that a client's next request is due is a period later for
\* each request since any that was let through.
PaidFor ==
    \A c \in Client : \A i \in DOMAIN admitted[c] :
        admitted[c][i] + AuthPeriod * (Len(admitted[c]) - i + 1) <= arrival[c]

\* LimitHolds, without the division.
WithinPace ==
    \A c \in Client : \A i, j \in DOMAIN admitted[c] :
        i <= j => AuthPeriod * (j - i + 1 - AuthBurst) <= admitted[c][j] - admitted[c][i]

DoorInv == DoorTypeOK /\ PaidFor /\ WithinPace

LEMMA DoorInit == FrontInit => DoorInv
<1>. SUFFICES ASSUME FrontInit PROVE DoorInv
  OBVIOUS
<1>1. DoorTypeOK
  BY DEF FrontInit, DoorTypeOK
<1>2. \A c \in Client : DOMAIN admitted[c] = {}
  BY DEF FrontInit
<1>. QED BY <1>1, <1>2 DEF DoorInv, PaidFor, WithinPace

\* One request that is let through, of a client whose requests and next time are s and a.
LEMMA OneMore ==
    ASSUME NEW P \in Nat \ {0}, NEW B \in Nat \ {0}, NEW s \in Seq(Nat), NEW a \in Nat, NEW t \in Nat,
           NEW d \in Nat, a <= d, t <= d, d - t <= P * (B - 1),
           \A i \in DOMAIN s : s[i] + P * (Len(s) - i + 1) <= a,
           \A i, j \in DOMAIN s : i <= j => P * (j - i + 1 - B) <= s[j] - s[i]
    PROVE  LET u == Append(s, t) IN
           /\ \A i \in DOMAIN u : u[i] + P * (Len(u) - i + 1) <= d + P
           /\ \A i, j \in DOMAIN u : i <= j => P * (j - i + 1 - B) <= u[j] - u[i]
<1>. DEFINE n == Len(s)
            u == Append(s, t)
<1>1. n \in Nat /\ DOMAIN s = 1..n /\ \A i \in 1..n : s[i] \in Nat
  OBVIOUS
<1>2. DOMAIN u = 1..(n + 1) /\ Len(u) = n + 1 /\ u[n + 1] = t /\ \A i \in 1..n : u[i] = s[i]
  OBVIOUS
<1>. HIDE DEF n, u
<1>3. \A i \in 1..n : s[i] + P * (n - i + 1) <= a
  BY <1>1 DEF n
<1>4. ASSUME NEW i \in 1..(n + 1)
      PROVE  u[i] + P * (n + 1 - i + 1) <= d + P
  <2>1. CASE i = n + 1
    <3>1. P * (n + 1 - i + 1) = P
      BY <1>1, <2>1
    <3>. QED BY <1>2, <2>1, <3>1
  <2>2. CASE i # n + 1
    <3>1. i \in 1..n
      BY <1>1, <2>2
    <3>2. P * (n + 1 - i + 1) = P * (n - i + 1) + P
      BY <1>1
    <3>3. P * (n - i + 1) \in Int
      BY <1>1
    <3>. QED BY <1>1, <1>2, <1>3, <3>1, <3>2, <3>3
  <2>. QED BY <2>1, <2>2
<1>5. ASSUME NEW i \in 1..(n + 1), NEW j \in 1..(n + 1), i <= j
      PROVE  P * (j - i + 1 - B) <= u[j] - u[i]
  <2>1. CASE j # n + 1
    <3>1. i \in 1..n /\ j \in 1..n
      BY <1>1, <1>5, <2>1
    <3>. QED BY <1>1, <1>2, <1>5, <3>1
  <2>2. CASE j = n + 1 /\ i = n + 1
    <3>1. P * (j - i + 1 - B) = P * (1 - B)
      BY <1>1, <2>2
    <3>2. P * (1 - B) <= 0
      OBVIOUS
    <3>. QED BY <1>2, <2>2, <3>1, <3>2
  <2>3. CASE j = n + 1 /\ i # n + 1
    <3>1. i \in 1..n
      BY <1>1, <2>3
    <3>2. P * (j - i + 1 - B) = P * (n - i + 1) - P * (B - 1)
      BY <1>1, <2>3
    <3>3. P * (n - i + 1) \in Int /\ P * (B - 1) \in Int
      BY <1>1
    <3>4. s[i] + P * (n - i + 1) <= d
      BY <1>1, <1>3, <3>1, <3>3
    <3>. QED BY <1>1, <1>2, <2>3, <3>1, <3>2, <3>3, <3>4
  <2>. QED BY <2>1, <2>2, <2>3
<1>6. \A i \in DOMAIN u : u[i] + P * (Len(u) - i + 1) <= d + P
  <2>. SUFFICES ASSUME NEW i \in 1..(n + 1) PROVE u[i] + P * (Len(u) - i + 1) <= d + P
    BY <1>2
  <2>1. Len(u) = n + 1
    BY <1>2
  <2>2. u \in Seq(Nat) /\ n \in Nat
    BY <1>1 DEF u
  <2>. QED BY <1>4, <2>1, <2>2
<1>7. \A i, j \in DOMAIN u : i <= j => P * (j - i + 1 - B) <= u[j] - u[i]
  BY <1>2, <1>5
<1>. QED BY <1>6, <1>7 DEF u

LEMMA DoorStep ==
    ASSUME DoorInv, NEW c \in Client, NEW way \in Way, NEW head, SignInRequest(c, way, head)
    PROVE  DoorInv'
<1>1. LimitKey(c, way) = c
  BY KeyIsTheClients
<1>. DEFINE s == admitted[c]
            a == arrival[c]
            d == Due(c)
            t == now
<1>2. /\ d - t <= AuthPeriod * (AuthBurst - 1)
      /\ arrival' = [arrival EXCEPT ![c] = d + AuthPeriod]
      /\ admitted' = [admitted EXCEPT ![c] = Append(s, t)]
      /\ now' = now
  BY <1>1 DEF SignInRequest, Conforms
<1>3. s \in Seq(Nat) /\ a \in Nat /\ t \in Nat
  BY DEF DoorInv, DoorTypeOK
<1>4. d \in Nat /\ a <= d /\ t <= d
  BY <1>3 DEF Due
<1>5. AuthPeriod \in Nat \ {0} /\ AuthBurst \in Nat \ {0}
  BY LimitAssumption
<1>6. /\ \A i \in DOMAIN s : s[i] + AuthPeriod * (Len(s) - i + 1) <= a
      /\ \A i, j \in DOMAIN s : i <= j => AuthPeriod * (j - i + 1 - AuthBurst) <= s[j] - s[i]
  BY DEF DoorInv, PaidFor, WithinPace
<1>. DEFINE u == Append(s, t)
<1>. HIDE DEF s, a, d, t
<1>7. /\ \A i \in DOMAIN u : u[i] + AuthPeriod * (Len(u) - i + 1) <= d + AuthPeriod
      /\ \A i, j \in DOMAIN u : i <= j => AuthPeriod * (j - i + 1 - AuthBurst) <= u[j] - u[i]
  BY <1>2, <1>3, <1>4, <1>5, <1>6, OneMore
<1>8. u \in Seq(Nat) /\ d + AuthPeriod \in Nat
  BY <1>3, <1>4, <1>5
<1>. HIDE DEF u
<1>9. /\ admitted'[c] = u /\ arrival'[c] = d + AuthPeriod
      /\ \A e \in Client : e # c => admitted'[e] = admitted[e] /\ arrival'[e] = arrival[e]
  BY <1>2 DEF DoorInv, DoorTypeOK, u
<1>10. DoorTypeOK'
  BY <1>2, <1>8 DEF DoorInv, DoorTypeOK, u
<1>11. PaidFor'
  BY <1>7, <1>9 DEF DoorInv, PaidFor
<1>12. WithinPace'
  BY <1>7, <1>9 DEF DoorInv, WithinPace
<1>. QED BY <1>10, <1>11, <1>12 DEF DoorInv

LEMMA DoorInvariant ==
    ASSUME DoorInv, [DoorNext \/ LogNext]_frontVars
    PROVE  DoorInv'
<1>1. CASE \E c \in Client, way \in Way, safe \in BOOLEAN, header \in BOOLEAN :
              SignInRequest(c, way, [safe |-> safe, header |-> header])
  BY <1>1, DoorStep
<1>2. CASE Tick
  BY <1>2 DEF Tick, DoorInv, DoorTypeOK, PaidFor, WithinPace
<1>3. CASE UNCHANGED door
  BY <1>3 DEF door, DoorInv, DoorTypeOK, PaidFor, WithinPace
<1>4. LogNext => UNCHANGED door
  BY DEF LogNext, TelemetryRequest
<1>. QED BY <1>1, <1>2, <1>3, <1>4 DEF DoorNext, frontVars

\* Requests that keep to the pace keep to the limit.
LEMMA PaceIsLimit == DoorInv => LimitHolds
<1>. SUFFICES ASSUME DoorInv, NEW c \in Client, NEW i \in DOMAIN admitted[c], NEW j \in DOMAIN admitted[c],
                     i <= j
              PROVE  j - i + 1 <= AuthBurst + (admitted[c][j] - admitted[c][i]) \div AuthPeriod
  BY DEF LimitHolds
<1>. DEFINE x == j - i + 1 - AuthBurst
            y == admitted[c][j] - admitted[c][i]
<1>1. i \in Nat /\ j \in Nat /\ admitted[c][i] \in Nat /\ admitted[c][j] \in Nat
  BY DEF DoorInv, DoorTypeOK
<1>2. AuthPeriod \in Nat \ {0} /\ AuthBurst \in Nat \ {0}
  BY LimitAssumption
<1>3. x \in Int /\ y \in Int
  BY <1>1, <1>2
<1>4. AuthPeriod * x <= y
  BY DEF DoorInv, WithinPace
<1>5. x <= y \div AuthPeriod
  <2>. HIDE DEF x, y
  <2>. QED BY <1>2, <1>3, <1>4, Quotient
<1>6. y \div AuthPeriod \in Int
  BY <1>2, <1>3
<1>. QED BY <1>1, <1>2, <1>5, <1>6

\* A client has no more of its sign-in requests let through, in any stretch of time, than the burst and
\* what the limiter gave back meanwhile (rate_limit.rs), for every set of clients and proxies, every
\* header that a client writes and every way through the proxies, every burst and period.
THEOREM LimitIsKept == FrontSpec => []LimitHolds
BY PaceIsLimit, DoorInit, DoorInvariant, PTL DEF FrontSpec

-----------------------------------------------------------------------------
\* The web interface.

\* What files hold.
Content == UNION {{Build[b][p] : p \in DOMAIN Build[b]} : b \in DOMAIN Build}
CachedFile == [content : Content \cup {Nothing}, immutable : BOOLEAN]

ShellTypeOK ==
    /\ deployed \in DOMAIN Build
    /\ held \in [Path -> CachedFile]
    /\ page \in [at : Path \cup {Index}, shell : Content \cup {Nothing, Problem},
                 files : Seq([path : Path, content : Content \cup {Nothing}]), current : BOOLEAN]

\* What a browser keeps for good is a file of a build other than the shell, and holds what it does in
\* every build that has it.
KeptForGood ==
    \A p \in Path : held[p].immutable =>
        /\ p # Index /\ \E b \in DOMAIN Build : p \in DOMAIN Build[b]
        /\ \A b \in DOMAIN Build : p \in DOMAIN Build[b] => held[p].content = Build[b][p]

ShellInv == ShellTypeOK /\ KeptForGood /\ UiIsDeployed

LEMMA ShellInitInv == ShellInit => ShellInv
<1>. SUFFICES ASSUME ShellInit PROVE ShellInv
  OBVIOUS
<1>1. ShellTypeOK
  BY DEF ShellInit, ShellTypeOK, NotHeld, NoPage, CachedFile
<1>2. KeptForGood
  BY DEF ShellInit, KeptForGood, NotHeld
<1>3. UiIsDeployed
  BY NamesTellHashes DEF ShellInit, UiIsDeployed, NoPage
<1>. QED BY <1>1, <1>2, <1>3 DEF ShellInv

LEMMA TheShell == \A b \in DOMAIN Build : Index \in DOMAIN Build[b]
BY HashesNameTheContent

LEMMA IndexIsNotHashed == ~IsContentHashed(Index)
BY NamesTellHashes DEF IsContentHashed

\* What a browser gets under a path: an entry that is kept for good only if it may be, and holds what the
\* server has there now, or has the path in no build that runs now.
LEMMA GetsWhatRuns ==
    ASSUME ShellInv, NEW p \in Path
    PROVE  LET g == Got(p) IN
           /\ g \in CachedFile
           /\ g.immutable =>
                 /\ p # Index /\ \E b \in DOMAIN Build : p \in DOMAIN Build[b]
                 /\ \A b \in DOMAIN Build : p \in DOMAIN Build[b] => g.content = Build[b][p]
           /\ p \in DOMAIN Build[deployed] => g.content = Build[deployed][p]
           /\ p = Index \/ (\A b \in DOMAIN Build : p \notin DOMAIN Build[b])
                 => g.content = Build[deployed][Index]
<1>. DEFINE r == Respond(p)
            h == held[p]
            s == Served(p)
<1>1. deployed \in DOMAIN Build /\ h \in CachedFile
  BY DEF ShellInv, ShellTypeOK
<1>2. /\ s \in DOMAIN Build[deployed]
      /\ p \in DOMAIN Build[deployed] => s = p
      /\ p \notin DOMAIN Build[deployed] => s = Index
  BY <1>1, TheShell DEF Served
<1>3. r.content = Build[deployed][s] /\ r.immutable = IsContentHashed(s) /\ r \in CachedFile
  BY <1>1, <1>2 DEF Respond, CachedFile, Content, IsContentHashed
<1>4. r.immutable =>
         /\ p # Index /\ p \in DOMAIN Build[deployed]
         /\ \A b \in DOMAIN Build : p \in DOMAIN Build[b] => r.content = Build[b][p]
  <2>. SUFFICES ASSUME r.immutable
                PROVE  /\ p # Index /\ p \in DOMAIN Build[deployed]
                       /\ \A b \in DOMAIN Build : p \in DOMAIN Build[b] => r.content = Build[b][p]
    OBVIOUS
  <2>. HIDE DEF r, s
  <2>1. IsContentHashed(s)
    BY <1>3
  <2>2. s # Index /\ s = p /\ p \in DOMAIN Build[deployed]
    BY <1>2, <2>1, IndexIsNotHashed
  <2>3. p.hashed
    BY <1>1, <2>1, <2>2, NamesTellHashes
  <2>. QED BY <1>1, <1>3, <2>2, <2>3, HashesNameTheContent
<1>5. h.immutable =>
         /\ p # Index /\ \E b \in DOMAIN Build : p \in DOMAIN Build[b]
         /\ \A b \in DOMAIN Build : p \in DOMAIN Build[b] => h.content = Build[b][p]
  BY DEF ShellInv, KeptForGood
<1>6. Got(p) = IF h.immutable \/ h.content = r.content THEN h ELSE r
  BY DEF Got
<1>. HIDE DEF r, h, s
<1>. QED BY <1>1, <1>2, <1>3, <1>4, <1>5, <1>6

\* The entry of one path is replaced by what was got.
LEMMA HeldGot ==
    ASSUME ShellInv, NEW p \in Path, held' = [held EXCEPT ![p] = Got(p)]
    PROVE  held' \in [Path -> CachedFile] /\ KeptForGood'
<1>. DEFINE g == Got(p)
<1>1. /\ g \in CachedFile
      /\ g.immutable =>
            /\ p # Index /\ \E b \in DOMAIN Build : p \in DOMAIN Build[b]
            /\ \A b \in DOMAIN Build : p \in DOMAIN Build[b] => g.content = Build[b][p]
  BY GetsWhatRuns
<1>2. held' = [held EXCEPT ![p] = g]
  OBVIOUS
<1>. HIDE DEF g
<1>3. held \in [Path -> CachedFile]
  BY DEF ShellInv, ShellTypeOK
<1>. QED BY <1>1, <1>2, <1>3 DEF ShellInv, KeptForGood

LEMMA NavigateStep ==
    ASSUME ShellInv, NEW p \in Path, p \notin Files, Navigate(p)
    PROVE  ShellInv'
<1>. DEFINE g == Got(p)
<1>1. p = Index \/ (\A b \in DOMAIN Build : p \notin DOMAIN Build[b])
  BY DEF Files
<1>2. g \in CachedFile /\ g.content = Build[deployed][Index]
  BY <1>1, GetsWhatRuns
<1>3. Build[deployed][Index] \in Content
  BY TheShell DEF Content, ShellInv, ShellTypeOK
<1>4. /\ page' = [at |-> p, shell |-> IF p.api THEN Problem ELSE g.content, files |-> <<>>, current |-> TRUE]
      /\ deployed' = deployed
      /\ p.api => held' = held
      /\ ~p.api => held' = [held EXCEPT ![p] = Got(p)]
  BY DEF Navigate
<1>. HIDE DEF g
<1>5. held' \in [Path -> CachedFile] /\ KeptForGood'
  <2>1. CASE p.api
    BY <1>4, <2>1 DEF ShellInv, ShellTypeOK, KeptForGood
  <2>2. CASE ~p.api
    BY <1>4, <2>2, HeldGot
  <2>. QED BY <2>1, <2>2
<1>6. ShellTypeOK'
  BY <1>2, <1>3, <1>4, <1>5 DEF ShellInv, ShellTypeOK
<1>7. UiIsDeployed'
  BY <1>2, <1>4 DEF UiIsDeployed
<1>. QED BY <1>5, <1>6, <1>7 DEF ShellInv

LEMMA LoadStep ==
    ASSUME ShellInv, NEW p \in Path, Load(p)
    PROVE  ShellInv'
<1>. DEFINE g == Got(p)
            piece == [path |-> p, content |-> g.content]
<1>1. g \in CachedFile /\ (p \in DOMAIN Build[deployed] => g.content = Build[deployed][p])
  BY GetsWhatRuns
<1>2. /\ page' = [page EXCEPT !.files = Append(@, piece)]
      /\ deployed' = deployed
      /\ held' = [held EXCEPT ![p] = Got(p)]
  BY DEF Load
<1>. HIDE DEF g
<1>3. held' \in [Path -> CachedFile] /\ KeptForGood'
  BY <1>2, HeldGot
<1>4. /\ piece \in [path : Path, content : Content \cup {Nothing}]
      /\ piece.path = p /\ piece.content = g.content
  BY <1>1 DEF CachedFile
<1>. HIDE DEF piece
<1>5. /\ page'.at = page.at /\ page'.shell = page.shell /\ page'.current = page.current
      /\ page'.files = Append(page.files, piece)
      /\ ShellTypeOK'
  <2>. DEFINE F == [path : Path, content : Content \cup {Nothing}]
              t == Append(page.files, piece)
  <2>1. page.files \in Seq(F)
    BY DEF ShellInv, ShellTypeOK
  <2>2. t \in Seq(F)
    BY <2>1, <1>4
  <2>3. page' = [page EXCEPT !.files = t]
    BY <1>2
  <2>. HIDE DEF t
  <2>4. /\ page'.at = page.at /\ page'.shell = page.shell /\ page'.current = page.current
        /\ page'.files = t /\ ShellTypeOK'
    BY <1>2, <1>3, <2>2, <2>3 DEF ShellInv, ShellTypeOK
  <2>. QED BY <2>4 DEF t
<1>6. UiIsDeployed'
  <2>1. page.files \in Seq([path : Path, content : Content \cup {Nothing}])
    BY DEF ShellInv, ShellTypeOK
  <2>2. \A i \in DOMAIN page'.files : page'.files[i] = piece \/ (i \in DOMAIN page.files /\ page'.files[i] = page.files[i])
    BY <1>4, <1>5, <2>1
  <2>. QED BY <1>1, <1>2, <1>4, <1>5, <2>2 DEF ShellInv, UiIsDeployed
<1>. QED BY <1>3, <1>5, <1>6 DEF ShellInv

LEMMA ShellStep ==
    ASSUME ShellInv, [ShellNext]_shellVars
    PROVE  ShellInv'
<1>1. ASSUME NEW b \in DOMAIN Build, Deploy(b)
      PROVE  ShellInv'
  <2>1. /\ deployed' = b /\ held' = held /\ page' = [page EXCEPT !.current = FALSE]
    BY <1>1 DEF Deploy
  <2>2. ShellTypeOK' /\ page'.at = page.at /\ page'.shell = page.shell /\ page'.current = FALSE
    BY <2>1 DEF ShellInv, ShellTypeOK
  <2>. QED BY <2>1, <2>2 DEF ShellInv, KeptForGood, UiIsDeployed
<1>2. CASE UNCHANGED shellVars
  BY <1>2 DEF shellVars, ShellInv, ShellTypeOK, KeptForGood, UiIsDeployed
<1>. QED BY <1>1, <1>2, NavigateStep, LoadStep DEF ShellNext

\* A page that was opened since the last build was deployed is of that build, shell and files, and no
\* path of the API shows the shell (static_files.rs), for every sequence of builds, of whatever files, as
\* long as what is named by a hash holds the same in each.
THEOREM PagesAreOfTheBuild == ShellSpec => []UiIsDeployed
<1>1. ShellInv => UiIsDeployed
  BY DEF ShellInv
<1>. QED BY <1>1, ShellInitInv, ShellStep, PTL DEF ShellSpec

-----------------------------------------------------------------------------
\* The pages of a list and the ranges of an archive (Reading).

\* The rows are in a strict order, ties included.
LEMMA RowsOrder ==
    ASSUME ReadingTypeOK
    PROVE  /\ \A r \in Row : r \in Nat /\ r # 0 /\ table[r] \in Int
           /\ \A a \in Row : ~Above(a, a)
           /\ \A a, b, c \in Row : Above(a, b) /\ Above(b, c) => Above(a, c)
           /\ \A a, b \in Row : a # b => Above(a, b) \/ Above(b, a)
<1>1. \A r \in Row : r \in Nat /\ r # 0 /\ table[r] \in Int
  <2>1. Row \subseteq Nat \ {0} /\ Key \subseteq Nat
    BY ReadingAssumption
  <2>2. table \in [Row -> Key \cup {Null, Gone}]
    BY DEF ReadingTypeOK
  <2>3. Null \in Int /\ Gone \in Int
    BY DEF Null, Gone
  <2>4. \A k \in Key \cup {Null, Gone} : k \in Int
    BY <2>1, <2>3
  <2>5. \A r \in Row : table[r] \in Int
    BY <2>2, <2>4
  <2>. QED BY <2>1, <2>5
<1>2. /\ \A a \in Row : ~Descending(a, a)
      /\ \A a, b, c \in Row : Descending(a, b) /\ Descending(b, c) => Descending(a, c)
      /\ \A a, b \in Row : a # b => Descending(a, b) \/ Descending(b, a)
  BY <1>1 DEF Descending
<1>. QED BY <1>1, <1>2 DEF Above

\* What comes after the cursor.
AfterRows == {r \in Row : table[r] # Gone /\ AfterCursor(r)}

\* The statement finds everything after the cursor, in order.
LEMMA MatchingIs ==
    ASSUME ReadingTypeOK
    PROVE  /\ Matching \in Seq(AfterRows)
           /\ \A i, j \in DOMAIN Matching : i < j <=> Above(Matching[i], Matching[j])
           /\ \A r \in AfterRows : \E i \in DOMAIN Matching : Matching[i] = r
<1>. DEFINE S == AfterRows
            R == {p \in S \X S : Above(p[1], p[2])}
            before == [x \in S |-> Cardinality({y \in S : Above(y, x)})]
            s == Matching
<1>1. S \subseteq Row /\ IsFiniteSet(S)
  <2>1. S \subseteq Row
    BY DEF AfterRows
  <2>. QED BY <2>1, ReadingAssumption, Smaller
<1>2. ListsBy(s, before, S)
  BY DEF Matching, AfterRows, Ordered, ListsBy
<1>. HIDE DEF S, s
<1>3. \A x \in S : {y \in S : Above(y, x)} = {y \in S : <<y, x>> \in R}
  OBVIOUS
<1>4. CountsBefore(before, R, S)
  BY <1>3, Zenon DEF CountsBefore
<1>5. \A x, y \in S : <<x, y>> \in R <=> Above(x, y)
  OBVIOUS
<1>. HIDE DEF R, before
<1>6. OrdersStrictly(R, S)
  BY <1>1, <1>5, RowsOrder DEF OrdersStrictly
<1>7. /\ s \in Seq(S)
      /\ \A i, j \in DOMAIN s : i < j <=> <<s[i], s[j]>> \in R
      /\ \A x \in S : \E i \in DOMAIN s : s[i] = x
  BY <1>1, <1>2, <1>4, <1>6, OrderedIs
<1>8. \A i \in DOMAIN s : s[i] \in S
  BY <1>7
<1>. QED BY <1>5, <1>7, <1>8 DEF s, S

\* A page is the beginning of it, and all of it if that fits.
LEMMA ItemsAre ==
    ASSUME ReadingTypeOK
    PROVE  /\ Items \in Seq(AfterRows)
           /\ \A i, j \in DOMAIN Items : i < j => Above(Items[i], Items[j])
           /\ Len(Matching) <= PageSize => \A r \in AfterRows : \E i \in DOMAIN Items : Items[i] = r
           /\ Len(Matching) > PageSize =>
                 /\ Len(Items) = PageSize /\ PageSize \in DOMAIN Items
                 /\ \A r \in AfterRows : \/ \E i \in DOMAIN Items : Items[i] = r
                                         \/ Above(Items[PageSize], r)
<1>. DEFINE m == Matching
            l == Len(m)
            n == IF l < PageSize THEN l ELSE PageSize
<1>1. /\ m \in Seq(AfterRows)
      /\ \A i, j \in DOMAIN m : i < j <=> Above(m[i], m[j])
      /\ \A r \in AfterRows : \E i \in DOMAIN m : m[i] = r
  BY MatchingIs
<1>2. Items = SubSeq(m, 1, n)
  BY DEF Items
<1>. HIDE DEF m, l
<1>3. PageSize \in Nat /\ PageSize > 0 /\ l \in Nat /\ DOMAIN m = 1..l
  BY <1>1, ReadingAssumption DEF l
<1>4. /\ n \in 0..l /\ n <= PageSize
      /\ l <= PageSize => n = l
      /\ l > PageSize => n = PageSize
  <2>1. ASSUME NEW a \in Nat, NEW p \in Nat, NEW k, k = IF a < p THEN a ELSE p
        PROVE  k \in 0..a /\ k <= p /\ (a <= p => k = a) /\ (a > p => k = p)
    BY <2>1
  <2>. QED BY <1>3, <2>1
<1>. HIDE DEF n
<1>5. /\ Items \in Seq(AfterRows) /\ Len(Items) = n /\ DOMAIN Items = 1..n
      /\ \A i \in 1..n : Items[i] = m[i]
  BY <1>1, <1>2, <1>4 DEF l
<1>6. \A i, j \in 1..n : i < j => Above(Items[i], Items[j])
  BY <1>1, <1>3, <1>4, <1>5
<1>7. CASE l <= PageSize
  <2>1. n = l
    BY <1>4, <1>7
  <2>2. \A r \in AfterRows : \E i \in 1..n : Items[i] = r
    BY <1>1, <1>3, <1>5, <2>1
  <2>3. Len(Matching) <= PageSize /\ ~(Len(Matching) > PageSize)
    BY <1>3, <1>7 DEF m, l
  <2>. QED BY <1>5, <1>6, <2>2, <2>3
<1>8. CASE l > PageSize
  <2>1. n = PageSize
    BY <1>4, <1>8
  <2>2. \A r \in AfterRows : (\E i \in 1..n : Items[i] = r) \/ Above(Items[PageSize], r)
    <3>. TAKE r \in AfterRows
    <3>1. PICK i \in 1..l : m[i] = r
      BY <1>1, <1>3
    <3>2. CASE i <= n
      BY <1>3, <1>5, <3>1, <3>2
    <3>3. CASE i > n
      <4>1. n \in DOMAIN m /\ i \in DOMAIN m /\ n < i /\ n \in 1..n
        BY <1>3, <1>4, <2>1, <3>3
      <4>2. Above(m[n], m[i])
        BY <1>1, <4>1
      <4>. QED BY <1>5, <2>1, <3>1, <4>1, <4>2
    <3>. QED BY <1>4, <3>2, <3>3, <1>3
  <2>3. PageSize \in DOMAIN Items
    BY <1>3, <1>5, <2>1
  <2>4. Len(Matching) > PageSize /\ ~(Len(Matching) <= PageSize)
    BY <1>3, <1>8 DEF m, l
  <2>. QED BY <1>5, <1>6, <2>1, <2>2, <2>3, <2>4
<1>. QED BY <1>3, <1>7, <1>8

\* What is known of the rows that stayed as they are: those that were shown are up to the cursor, and
\* the others come after it.
Whole == {r \in kept : table[r] # Null}

Has(s, r) == \E i \in DOMAIN s : s[i] = r

\* Those that were shown are up to the cursor, and the others come after it.
Paged ==
    /\ cursor # 0 => table[cursor] \notin {Null, Gone}
    /\ \A i, j \in DOMAIN shown :
          i < j /\ shown[i] \in Whole /\ shown[j] \in Whole => Above(shown[i], shown[j])
    /\ ~over => \A r \in Whole :
          IF Has(shown, r) THEN cursor # 0 /\ (r = cursor \/ Above(r, cursor))
          ELSE cursor = 0 \/ Above(cursor, r)
    /\ over => \A r \in Whole : Has(shown, r)

ReadingRows ==
    /\ ReadingTypeOK /\ shown \in Seq(Row)
    /\ task = "chapters" => dir = "desc"
    /\ \A r \in kept : table[r] # Gone
    /\ task \notin Lists => kept = {}

\* As long as the cursor's row has its place, what comes after it is what the order says.
LEMMA AfterIs ==
    ASSUME ReadingRows, cursor # 0 => table[cursor] \notin {Null, Gone},
           NEW r \in Row, table[r] \notin {Null, Gone}
    PROVE  r \in AfterRows <=> cursor = 0 \/ Above(cursor, r)
<1>1. CASE cursor = 0
  BY <1>1 DEF AfterRows, AfterCursor
<1>2. CASE cursor # 0
  <2>1. cursor \in Row /\ cursor \in Nat /\ r \in Nat /\ table[cursor] \in Int /\ table[r] \in Int
    BY <1>2, RowsOrder DEF ReadingRows, ReadingTypeOK
  <2>2. table[cursor] # Null /\ table[cursor] # Gone /\ table[r] # Null /\ table[r] # Gone
    BY <1>2
  <2>3. CASE task = "chapters"
    <3>1. Beyond(r) <=> Above(cursor, r)
      BY <2>1, <2>2, <2>3 DEF Beyond, CursorKey, Above, Descending, ReadingRows
    <3>. QED BY <1>2, <2>2, <2>3, <3>1 DEF AfterRows, AfterCursor
  <2>4. CASE task # "chapters"
    BY <1>2, <2>2, <2>4 DEF AfterRows, AfterCursor
  <2>. QED BY <2>3, <2>4
<1>. QED BY <1>1, <1>2

LEMMA ReadPageRows ==
    ASSUME ReadingRows, ReadPage
    PROVE  /\ ReadingRows' /\ Items \in Seq(Row)
           /\ cursor' # cursor => cursor' \in AfterRows
<1>1. Items \in Seq(AfterRows) /\ AfterRows \subseteq Row
  BY ItemsAre DEF ReadingRows, AfterRows
<1>2. Items \in Seq(Row)
  BY <1>1
<1>3. shown' = shown \o Items
  BY DEF ReadPage
<1>4. shown' \in Seq(Row) /\ \A i \in DOMAIN shown' : shown'[i] \in Row
  BY <1>2, <1>3 DEF ReadingRows
<1>5. /\ task' = task /\ dir' = dir /\ table' = table /\ kept' = kept /\ archive' = archive
      /\ pieces' = pieces /\ changes' = changes
  BY DEF ReadPage, asked, file
<1>6. over' \in BOOLEAN /\ cut' \in BOOLEAN
  BY DEF ReadPage, ReadingRows, ReadingTypeOK
<1>7. cursor' # cursor => cursor' \in AfterRows
  <2>1. CASE Len(Matching) > PageSize
    <3>1. PageSize \in DOMAIN Items
      BY <2>1, ItemsAre DEF ReadingRows
    <3>. QED BY <1>1, <3>1 DEF ReadPage
  <2>2. CASE ~(Len(Matching) > PageSize)
    <3>1. Len(Matching) \in Nat /\ PageSize \in Nat
      BY MatchingIs, ReadingAssumption DEF ReadingRows
    <3>2. Len(Matching) <= PageSize
      BY <2>2, <3>1
    <3>3. over'
      BY <3>2 DEF ReadPage
    <3>. QED BY <3>3 DEF ReadPage
  <2>. QED BY <2>1, <2>2
<1>8. cursor' \in Row \cup {0}
  BY <1>1, <1>7 DEF ReadingRows, ReadingTypeOK
<1>9. ReadingTypeOK'
  BY <1>4, <1>5, <1>6, <1>8 DEF ReadingRows, ReadingTypeOK
<1>. QED BY <1>2, <1>4, <1>5, <1>7, <1>9 DEF ReadingRows

LEMMA ReadPagePaged ==
    ASSUME ReadingRows, ~cut => Paged, ReadPage, ~cut'
    PROVE  Paged'
<1>. DEFINE items == Items
            a == Len(shown)
            b == Len(items)
<1>1. ~cut /\ Paged /\ ~over /\ (cursor' # 0 => table[cursor'] # Null)
  BY DEF ReadPage
<1>2. /\ table' = table /\ kept' = kept /\ Whole' = Whole
      /\ \A x, y : Above(x, y)' <=> Above(x, y)
  BY DEF ReadPage, Whole, Above, Descending, asked
<1>3. Whole \subseteq Row /\ \A r \in Whole : table[r] \notin {Null, Gone}
  BY DEF Whole, ReadingRows, ReadingTypeOK
<1>4. \A r \in Whole : r \in AfterRows <=> cursor = 0 \/ Above(cursor, r)
  BY <1>1, <1>3, AfterIs DEF Paged
<1>5. /\ items \in Seq(AfterRows)
      /\ \A i, j \in DOMAIN items : i < j => Above(items[i], items[j])
  BY ItemsAre DEF ReadingRows
<1>6. cursor' # 0 => table[cursor'] \notin {Null, Gone}
  BY <1>1, ReadPageRows DEF Paged, AfterRows
<1>7. items \in Seq(Row) /\ shown \in Seq(Row) /\ shown' = shown \o items
  BY ReadPageRows DEF ReadPage, ReadingRows
<1>. HIDE DEF items
<1>8. /\ a \in Nat /\ b \in Nat /\ DOMAIN shown' = 1..(a + b)
      /\ DOMAIN shown = 1..a /\ DOMAIN items = 1..b
      /\ \A i \in 1..a : shown'[i] = shown[i]
      /\ \A i \in (a + 1)..(a + b) : i - a \in 1..b /\ shown'[i] = items[i - a]
      /\ \A i \in 1..b : a + i \in 1..(a + b) /\ shown'[a + i] = items[i]
  BY <1>7
<1>9. \A i \in 1..b : items[i] \in AfterRows
  BY <1>5, <1>8
<1>. HIDE DEF a, b
<1>10. \A r : Has(shown', r) <=> Has(shown, r) \/ Has(items, r)
  <2>. TAKE r
  <2>1. ASSUME NEW i \in 1..a, shown[i] = r PROVE Has(shown', r)
    BY <1>8, <2>1 DEF Has
  <2>2. ASSUME NEW i \in 1..b, items[i] = r PROVE Has(shown', r)
    BY <1>8, <2>2 DEF Has
  <2>3. ASSUME NEW i \in 1..(a + b), shown'[i] = r PROVE Has(shown, r) \/ Has(items, r)
    <3>1. CASE i <= a
      BY <1>8, <2>3, <3>1 DEF Has
    <3>2. CASE i > a
      BY <1>8, <2>3, <3>2 DEF Has
    <3>. QED BY <1>8, <3>1, <3>2
  <2>. QED BY <1>8, <2>1, <2>2, <2>3 DEF Has
<1>11. \A i, j \in DOMAIN shown' :
          i < j /\ shown'[i] \in Whole /\ shown'[j] \in Whole => Above(shown'[i], shown'[j])
  <2>. SUFFICES ASSUME NEW i \in 1..(a + b), NEW j \in 1..(a + b), i < j,
                       shown'[i] \in Whole, shown'[j] \in Whole
                PROVE  Above(shown'[i], shown'[j])
    BY <1>8
  <2>1. CASE j <= a
    BY <1>1, <1>8, <2>1 DEF Paged
  <2>2. CASE i > a
    <3>1. i - a \in 1..b /\ j - a \in 1..b /\ i - a < j - a
      BY <1>8, <2>2
    <3>. QED BY <1>5, <1>8, <2>2, <3>1
  <2>3. CASE i <= a /\ j > a
    <3>. DEFINE x == shown'[i]
                y == shown'[j]
    <3>1. Has(shown, x) /\ y \in AfterRows
      BY <1>8, <1>9, <2>3 DEF Has
    <3>2. cursor # 0 /\ (x = cursor \/ Above(x, cursor)) /\ Above(cursor, y)
      BY <1>1, <1>4, <3>1 DEF Paged
    <3>3. x \in Row /\ y \in Row /\ cursor \in Row
      BY <1>3, <3>2 DEF ReadingRows, ReadingTypeOK
    <3>. QED BY <3>2, <3>3, RowsOrder DEF ReadingRows
  <2>. QED BY <1>8, <2>1, <2>2, <2>3
<1>12. \A r \in Whole : ~Has(shown, r) => r \in AfterRows
  BY <1>1, <1>4 DEF Paged
<1>13. CASE Len(Matching) <= PageSize
  <2>1. over' /\ \A r \in AfterRows : Has(items, r)
    BY <1>13, ItemsAre DEF ReadPage, ReadingRows, items, Has
  <2>2. \A r \in Whole : Has(shown', r)
    BY <1>10, <1>12, <2>1
  <2>. QED BY <1>2, <1>6, <1>11, <2>1, <2>2 DEF Paged
<1>14. CASE Len(Matching) > PageSize
  <2>1. Len(Matching) \in Nat /\ PageSize \in Nat
    BY MatchingIs, ReadingAssumption DEF ReadingRows
  <2>2. PageSize \in DOMAIN items /\ b = PageSize
    BY <1>14, ItemsAre DEF ReadingRows, items, b
  <2>3. ~(Len(Matching) <= PageSize)
    BY <1>14, <2>1
  <2>4. ~over'
    BY <2>3 DEF ReadPage
  <2>5. cursor' = items[PageSize]
    BY <2>4 DEF ReadPage, items
  <2>6. \A r \in AfterRows : Has(items, r) \/ Above(items[PageSize], r)
    BY <1>14, ItemsAre DEF ReadingRows, items, Has
  <2>7. /\ ~over' /\ cursor' = items[PageSize] /\ PageSize \in DOMAIN items /\ b = PageSize
        /\ \A r \in AfterRows : Has(items, r) \/ Above(cursor', r)
    BY <2>2, <2>4, <2>5, <2>6
  <2>8. cursor' \in AfterRows /\ cursor' \in Row /\ cursor' # 0
    <3>1. cursor' \in AfterRows
      BY <1>8, <1>9, <2>7
    <3>. QED BY <3>1, RowsOrder DEF AfterRows, ReadingRows
  <2>9. cursor = 0 \/ (cursor \in Row /\ Above(cursor, cursor'))
    BY <1>1, <1>6, <2>8, AfterIs DEF Paged, ReadingRows, ReadingTypeOK
  <2>10. ASSUME NEW r \in Whole, Has(shown', r) PROVE r = cursor' \/ Above(r, cursor')
    <3>1. CASE Has(shown, r)
      <4>1. cursor # 0 /\ (r = cursor \/ Above(r, cursor))
        BY <1>1, <3>1 DEF Paged
      <4>. QED BY <1>3, <2>8, <2>9, <4>1, RowsOrder DEF ReadingRows
    <3>2. CASE Has(items, r)
      <4>1. PICK i \in 1..b : items[i] = r
        BY <1>8, <3>2 DEF Has
      <4>2. i = b \/ i < b
        BY <1>8
      <4>. QED BY <1>5, <1>8, <2>7, <4>1, <4>2
    <3>. QED BY <1>10, <2>10, <3>1, <3>2
  <2>11. ASSUME NEW r \in Whole, ~Has(shown', r) PROVE Above(cursor', r)
    BY <1>10, <1>12, <2>7, <2>11
  <2>. QED BY <1>2, <1>6, <1>11, <2>7, <2>8, <2>10, <2>11 DEF Paged
<1>. QED
  <2>1. Len(Matching) \in Nat /\ PageSize \in Nat
    BY MatchingIs, ReadingAssumption DEF ReadingRows
  <2>. QED BY <1>13, <1>14, <2>1

LEMMA ChangeStep ==
    ASSUME ReadingRows, ~cut => Paged, NEW r \in Row, NEW key \in Key \cup {Null, Gone}, Change(r, key)
    PROVE  ReadingRows' /\ (~cut' => Paged')
<1>1. /\ task' = task /\ dir' = dir /\ cursor' = cursor /\ shown' = shown /\ over' = over
      /\ archive' = archive /\ pieces' = pieces
      /\ changes < MaxChanges /\ changes' = changes + 1
      /\ key # table[r] /\ (key = Null => task = "chapters")
      /\ table' = [table EXCEPT ![r] = key]
      /\ kept' = kept \ {r}
      /\ cut' = (cut \/ r = cursor)
  BY DEF Change, asked, file
<1>2. /\ table' \in [Row -> Key \cup {Null, Gone}] /\ table'[r] = key
      /\ \A q \in Row : q # r => table'[q] = table[q]
  BY <1>1 DEF ReadingRows, ReadingTypeOK
<1>3. changes' \in 0..MaxChanges
  BY <1>1, ReadingAssumption DEF ReadingRows, ReadingTypeOK
<1>4. task' # "chapters" => \A q \in Row : table'[q] # Null
  BY <1>1, <1>2 DEF ReadingRows, ReadingTypeOK
<1>5. kept' \subseteq Row /\ \A q \in kept' : table'[q] # Gone
  BY <1>1, <1>2 DEF ReadingRows, ReadingTypeOK
<1>6. cut' \in BOOLEAN
  BY <1>1 DEF ReadingRows, ReadingTypeOK
<1>7. ReadingRows'
  BY <1>1, <1>2, <1>3, <1>4, <1>5, <1>6 DEF ReadingRows, ReadingTypeOK
<1>8. ASSUME ~cut' PROVE Paged'
  <2>1. Paged /\ r # cursor
    BY <1>1, <1>8
  <2>2. Whole' \subseteq Whole /\ r \notin Whole' /\ Whole \subseteq Row
    BY <1>1, <1>2 DEF Whole, ReadingRows, ReadingTypeOK
  <2>3. \A x, y \in Row \ {r} : Above(x, y)' <=> Above(x, y)
    BY <1>1, <1>2 DEF Above, Descending
  <2>4. cursor # 0 => cursor \in Row \ {r} /\ table'[cursor] = table[cursor]
    BY <1>2, <2>1 DEF ReadingRows, ReadingTypeOK
  <2>5. \A q \in Whole' : q \in Whole /\ q \in Row \ {r}
    BY <2>2
  <2>6. cursor' # 0 => table'[cursor'] \notin {Null, Gone}
    BY <1>1, <2>1, <2>4 DEF Paged
  <2>7. \A i, j \in DOMAIN shown' :
          i < j /\ shown'[i] \in Whole' /\ shown'[j] \in Whole' => Above(shown[i], shown[j])'
    BY <1>1, <2>1, <2>3, <2>5 DEF Paged
  <2>8. ~over => \A q \in Whole' :
          IF Has(shown, q) THEN cursor # 0 /\ (q = cursor \/ Above(q, cursor)')
          ELSE cursor = 0 \/ Above(cursor, q)'
    <3>. SUFFICES ASSUME ~over, NEW q \in Whole'
                  PROVE  IF Has(shown, q) THEN cursor # 0 /\ (q = cursor \/ Above(q, cursor)')
                         ELSE cursor = 0 \/ Above(cursor, q)'
      OBVIOUS
    <3>1. q \in Whole /\ q \in Row \ {r}
      BY <2>5
    <3>2. IF Has(shown, q) THEN cursor # 0 /\ (q = cursor \/ Above(q, cursor))
          ELSE cursor = 0 \/ Above(cursor, q)
      BY <2>1, <3>1 DEF Paged
    <3>3. cursor # 0 => (Above(q, cursor)' <=> Above(q, cursor)) /\ (Above(cursor, q)' <=> Above(cursor, q))
      BY <1>1, <2>3, <2>4, <3>1
    <3>. QED BY <3>2, <3>3
  <2>9. over => \A q \in Whole' : Has(shown, q)
    BY <2>1, <2>5 DEF Paged
  <2>. QED BY <1>1, <2>6, <2>7, <2>8, <2>9 DEF Paged, Above, Descending
<1>. QED BY <1>7, <1>8

\* The ranges that were given follow each other, and an archive that was not replaced has more to give
\* until the reader is told that it has not.
Piece == [first : Nat, last : Nat, of : 0..MaxChanges, size : Size]

Follows(ps) ==
    \A i \in DOMAIN ps :
       /\ ps[i].first = IF i = 1 THEN 0 ELSE ps[i - 1].last + 1
       /\ ps[i].last \in ps[i].first .. (ps[i].first + MaxRange - 1)
       /\ ps[i].last < ps[i].size

\* Whatever has been read of an archive that was not replaced is followed by the rest of it.
Ranged ==
    /\ pieces \in Seq(Piece) /\ Follows(pieces)
    /\ task # "archive" => pieces = <<>>
    /\ archive.version <= changes
    /\ changes = 0 /\ pieces # <<>> =>
          IF over THEN pieces[Len(pieces)].last = archive.size - 1
          ELSE pieces[Len(pieces)].last < archive.size - 1

\* One more piece follows on.
LEMMA FollowsOn ==
    ASSUME NEW ps \in Seq(Piece), Follows(ps), NEW p \in Piece,
           p.first = (IF ps = <<>> THEN 0 ELSE ps[Len(ps)].last + 1),
           p.last \in p.first .. (p.first + MaxRange - 1), p.last < p.size
    PROVE  LET qs == Append(ps, p) IN
           /\ qs \in Seq(Piece) /\ Follows(qs) /\ qs # <<>> /\ qs[Len(qs)] = p
<1>. DEFINE qs == Append(ps, p)
            n == Len(ps)
<1>1. /\ n \in Nat /\ DOMAIN ps = 1..n
      /\ qs \in Seq(Piece) /\ qs # <<>> /\ Len(qs) = n + 1 /\ DOMAIN qs = 1..(n + 1)
      /\ qs[n + 1] = p /\ \A i \in 1..n : qs[i] = ps[i]
      /\ ps = <<>> <=> n = 0
  BY AppendIs
<1>. HIDE DEF n, qs
<1>2. p.first = (IF n = 0 THEN 0 ELSE ps[n].last + 1)
  BY <1>1 DEF n
<1>3. Follows(qs)
  <2>. SUFFICES ASSUME NEW i \in 1..(n + 1)
                PROVE  /\ qs[i].first = IF i = 1 THEN 0 ELSE qs[i - 1].last + 1
                       /\ qs[i].last \in qs[i].first .. (qs[i].first + MaxRange - 1)
                       /\ qs[i].last < qs[i].size
    BY <1>1 DEF Follows
  <2>1. CASE i \in 1..n
    <3>1. qs[i] = ps[i] /\ i \in DOMAIN ps /\ (i # 1 => i - 1 \in 1..n)
      BY <1>1, <2>1
    <3>2. i # 1 => qs[i - 1] = ps[i - 1]
      BY <1>1, <3>1
    <3>. QED BY <3>1, <3>2 DEF Follows
  <2>2. CASE i = n + 1
    <3>1. i # 1 => i - 1 = n /\ n \in 1..n /\ n # 0
      BY <1>1, <2>2
    <3>2. i # 1 => qs[i - 1] = ps[n]
      BY <1>1, <3>1
    <3>3. i = 1 => n = 0
      BY <1>1, <2>2
    <3>. QED BY <1>1, <1>2, <2>2, <3>1, <3>2, <3>3
  <2>. QED BY <1>1, <2>1, <2>2
<1>. QED BY <1>1, <1>3 DEF qs

\* A range that is served begins where it was asked to, is within the file, and no longer than the limit.
LEMMA RangeFits ==
    ASSUME NEW size \in Nat, NEW first \in Nat, NEW spec, Satisfiable(size, spec),
           \/ spec = [kind |-> "from", a |-> first]
           \/ \E b \in first..(first + MaxRange) : spec = [kind |-> "span", a |-> first, b |-> b]
           \/ first = 0 /\ \E n \in Nat : n >= size /\ spec = [kind |-> "last", a |-> n]
    PROVE  LET range == Clamped(Asked(size, spec)) IN
           /\ range[1] = first /\ range[2] \in Nat
           /\ range[2] \in first .. (first + MaxRange - 1) /\ range[2] < size
<1>. DEFINE q == Asked(size, spec)
            range == Clamped(q)
<1>1. MaxRange \in Nat /\ MaxRange > 0
  BY ReadingAssumption
<1>2. q[1] = first /\ q[2] \in Int /\ q[2] < size
  <2>1. CASE spec = [kind |-> "from", a |-> first]
    BY <2>1 DEF Asked
  <2>2. CASE \E b \in first..(first + MaxRange) : spec = [kind |-> "span", a |-> first, b |-> b]
    <3>1. PICK b \in first..(first + MaxRange) : spec = [kind |-> "span", a |-> first, b |-> b]
      BY <2>2
    <3>2. b \in Int
      BY <1>1, <3>1
    <3>. QED BY <3>1, <3>2 DEF Asked
  <2>3. CASE first = 0 /\ \E n \in Nat : n >= size /\ spec = [kind |-> "last", a |-> n]
    <3>1. PICK n \in Nat : n >= size /\ spec = [kind |-> "last", a |-> n]
      BY <2>3
    <3>. QED BY <2>3, <3>1 DEF Asked
  <2>. QED BY <2>1, <2>2, <2>3
<1>3. q[1] <= q[2]
  BY DEF Satisfiable
<1>. HIDE DEF q
<1>4. /\ range[1] = q[1]
      /\ range[2] = IF q[2] < q[1] + MaxRange - 1 THEN q[2] ELSE q[1] + MaxRange - 1
  BY DEF Clamped
<1>. HIDE DEF range
<1>5. range[1] = first /\ range[2] \in Int /\ range[2] \in first..(first + MaxRange - 1) /\ range[2] < size
  BY <1>1, <1>2, <1>3, <1>4
<1>. QED BY <1>1, <1>5 DEF range, q

LEMMA ReadRangeStep ==
    ASSUME ReadingRows, Ranged, ReadRange
    PROVE  ReadingRows' /\ Ranged'
<1>. DEFINE n == NextByte
            size == archive.size
<1>1. /\ task' = task /\ dir' = dir /\ table' = table /\ cursor' = cursor /\ shown' = shown
      /\ kept' = kept /\ cut' = cut /\ archive' = archive /\ changes' = changes /\ ~over
  BY DEF ReadRange, asked, list
<1>2. task = "archive"
  BY DEF ReadRange
<1>3. /\ archive \in [version : 0..MaxChanges, size : Size] /\ Size \subseteq Nat
      /\ archive.version \in 0..MaxChanges /\ size \in Nat /\ size \in Size
  BY ReadingAssumption DEF ReadingRows, ReadingTypeOK
<1>4. PICK spec \in Continuing :
         IF ~Satisfiable(size, spec)
         THEN over' = TRUE /\ pieces' = pieces
         ELSE /\ pieces' = Append(pieces, [first |-> Clamped(Asked(size, spec))[1],
                                           last |-> Clamped(Asked(size, spec))[2],
                                           of |-> archive.version, size |-> size])
              /\ over' = (Clamped(Asked(size, spec))[2] = size - 1)
  BY DEF ReadRange
<1>5. pieces \in Seq(Piece) /\ Follows(pieces)
  BY DEF Ranged
<1>6. /\ Len(pieces) \in Nat /\ (pieces = <<>> <=> Len(pieces) = 0)
      /\ pieces # <<>> => pieces[Len(pieces)] \in Piece
  BY <1>5
<1>7. n \in Nat
  <2>1. CASE pieces = <<>>
    BY <2>1 DEF NextByte
  <2>2. CASE pieces # <<>>
    <3>1. pieces[Len(pieces)].last \in Nat
      BY <1>6, <2>2 DEF Piece
    <3>. QED BY <2>2, <3>1 DEF NextByte
  <2>. QED BY <2>1, <2>2
<1>. HIDE DEF n, size
<1>8. \/ spec = [kind |-> "from", a |-> n]
      \/ \E b \in n..(n + MaxRange) : spec = [kind |-> "span", a |-> n, b |-> b]
      \/ n = 0 /\ \E m \in Nat : m >= size /\ spec = [kind |-> "last", a |-> m]
  BY <1>3, <1>4 DEF Continuing, n, size
<1>9. CASE Satisfiable(size, spec)
  <2>. DEFINE range == Clamped(Asked(size, spec))
              p == [first |-> range[1], last |-> range[2], of |-> archive.version, size |-> size]
  <2>1. range[1] = n /\ range[2] \in Nat /\ range[2] \in n..(n + MaxRange - 1) /\ range[2] < size
    BY <1>3, <1>7, <1>8, <1>9, RangeFits
  <2>2. pieces' = Append(pieces, p) /\ over' = (range[2] = size - 1)
    BY <1>4, <1>9
  <2>. HIDE DEF range
  <2>3. p \in Piece /\ p.first = n /\ p.last = range[2] /\ p.size = size
    BY <1>3, <1>7, <2>1 DEF Piece
  <2>4. p.first = IF pieces = <<>> THEN 0 ELSE pieces[Len(pieces)].last + 1
    BY <2>3 DEF n, NextByte
  <2>. HIDE DEF p
  <2>5. /\ pieces' \in Seq(Piece) /\ Follows(pieces') /\ pieces' # <<>>
        /\ pieces'[Len(pieces')] = p
    BY <1>5, <2>1, <2>2, <2>3, <2>4, FollowsOn
  <2>6. IF over' THEN p.last = size - 1 ELSE p.last < size - 1
    <3>1. range[2] \in Int /\ range[2] < size /\ size \in Int
      BY <1>3, <2>1
    <3>2. range[2] = size - 1 \/ range[2] < size - 1
      BY <3>1
    <3>. QED BY <2>2, <2>3, <3>2
  <2>7. \A i \in DOMAIN pieces' : pieces'[i] \in Piece
    BY <2>5
  <2>8. ReadingRows'
    BY <1>1, <2>2, <2>7 DEF ReadingRows, ReadingTypeOK, Piece
  <2>9. Ranged'
    BY <1>1, <1>2, <2>5, <2>6 DEF Ranged, size
  <2>. QED BY <2>8, <2>9
<1>10. CASE ~Satisfiable(size, spec)
  <2>1. over' = TRUE /\ pieces' = pieces
    BY <1>4, <1>10
  <2>2. ReadingRows'
    BY <1>1, <2>1 DEF ReadingRows, ReadingTypeOK
  <2>3. ASSUME changes = 0, pieces # <<>> PROVE FALSE
    <3>. DEFINE l == pieces[Len(pieces)].last
    <3>1. l < size - 1 /\ l \in Nat
      BY <1>1, <1>6, <2>3 DEF Ranged, size, Piece
    <3>2. n = l + 1
      BY <2>3 DEF n, NextByte
    <3>. HIDE DEF l
    <3>3. n # 0 /\ n <= size - 1 /\ size > 0 /\ n < size
      BY <1>3, <3>1, <3>2
    <3>4. CASE spec = [kind |-> "from", a |-> n]
      <4>1. Asked(size, spec)[1] = n /\ Asked(size, spec)[2] = size - 1 /\ spec.kind = "from"
        BY <3>4 DEF Asked
      <4>. QED BY <1>10, <3>3, <4>1 DEF Satisfiable
    <3>5. CASE \E b \in n..(n + MaxRange) : spec = [kind |-> "span", a |-> n, b |-> b]
      <4>1. PICK b \in n..(n + MaxRange) : spec = [kind |-> "span", a |-> n, b |-> b]
        BY <3>5
      <4>2. b \in Int /\ n <= b
        BY <1>7, <4>1, ReadingAssumption
      <4>3. /\ Asked(size, spec)[1] = n /\ spec.kind = "span"
            /\ Asked(size, spec)[2] = IF b < size - 1 THEN b ELSE size - 1
        BY <4>1 DEF Asked
      <4>4. n <= Asked(size, spec)[2]
        BY <1>3, <1>7, <3>3, <4>2, <4>3
      <4>. QED BY <1>10, <3>3, <4>3, <4>4 DEF Satisfiable
    <3>. QED BY <1>8, <3>3, <3>4, <3>5
  <2>4. Ranged'
    BY <1>1, <2>1, <2>3 DEF Ranged
  <2>. QED BY <2>2, <2>4
<1>. QED BY <1>9, <1>10

LEMMA ReplaceArchiveStep ==
    ASSUME ReadingRows, Ranged, ReplaceArchive
    PROVE  ReadingRows' /\ Ranged'
<1>1. /\ task' = task /\ dir' = dir /\ table' = table /\ cursor' = cursor /\ shown' = shown
      /\ kept' = kept /\ cut' = cut /\ pieces' = pieces /\ over' = over
      /\ changes < MaxChanges /\ changes' = changes + 1
  BY DEF ReplaceArchive, asked, list
<1>2. PICK s \in Size : archive' = [version |-> archive.version + 1, size |-> s]
  BY DEF ReplaceArchive
<1>3. changes \in 0..MaxChanges /\ archive.version \in 0..MaxChanges /\ archive.version <= changes
  BY DEF ReadingRows, ReadingTypeOK, Ranged
<1>4. /\ archive'.version = archive.version + 1 /\ archive.version + 1 \in 0..MaxChanges
      /\ changes' \in 0..MaxChanges /\ archive'.version <= changes' /\ changes' # 0
  BY <1>1, <1>2, <1>3, ReadingAssumption
<1>5. archive' \in [version : 0..MaxChanges, size : Size]
  BY <1>2, <1>4
<1>6. ReadingRows'
  BY <1>1, <1>4, <1>5 DEF ReadingRows, ReadingTypeOK
<1>7. Ranged'
  BY <1>1, <1>4 DEF Ranged, Follows
<1>. QED BY <1>6, <1>7

ReadingInv == ReadingRows /\ (~cut => Paged) /\ Ranged

LEMMA ReadingBegins ==
    ASSUME ReadingInit \/ (task \in Others /\ ReadingIdle)
    PROVE  ReadingInv
<1>1. /\ 0 \in 0..MaxChanges /\ Size \subseteq Nat /\ Size # {} /\ \A r \in Row : r # 0
  BY ReadingAssumption
<1>2. /\ cursor = 0 /\ shown = <<>> /\ cut = FALSE /\ pieces = <<>> /\ changes = 0
      /\ kept \subseteq Row /\ (\A r \in kept : table[r] # Gone) /\ (over \/ task \notin Lists => kept = {})
      /\ over \in BOOLEAN /\ dir \in {"asc", "desc"} /\ (task = "chapters" => dir = "desc")
      /\ table \in [Row -> Key \cup {Null, Gone}]
      /\ (task # "chapters" => \A r \in Row : table[r] # Null)
      /\ archive \in [version : {0}, size : Size]
  <2>1. CASE ReadingInit
    <3>1. /\ dir \in {"asc", "desc"} /\ (task = "chapters" => dir = "desc")
      BY <2>1 DEF ReadingInit, Directions
    <3>2. /\ table \in [Row -> Key \cup {Null, Gone}]
          /\ (task # "chapters" => \A r \in Row : table[r] # Null)
      BY <2>1, ReadingAssumption DEF ReadingInit, Null, Gone
    <3>3. task \notin Lists => kept = {}
      BY <2>1 DEF ReadingInit, Tasks
    <3>. QED BY <2>1, <3>1, <3>2, <3>3 DEF ReadingInit
  <2>2. CASE task \in Others /\ ReadingIdle
    BY <1>1, <2>2 DEF Others, ReadingIdle, Null, Gone
  <2>. QED BY <2>1, <2>2
<1>3. archive \in [version : 0..MaxChanges, size : Size] /\ archive.version = 0
  BY <1>1, <1>2
<1>4. shown \in Seq(Row) /\ pieces \in Seq(Piece) /\ DOMAIN shown = {} /\ DOMAIN pieces = {}
  BY <1>2
<1>5. ReadingRows
  BY <1>1, <1>2, <1>3, <1>4 DEF ReadingRows, ReadingTypeOK
<1>6. Paged
  BY <1>2, <1>4 DEF Paged, Has, Whole
<1>7. Ranged
  BY <1>2, <1>3, <1>4 DEF Ranged, Follows
<1>. QED BY <1>5, <1>6, <1>7 DEF ReadingInv

LEMMA ReadingStep ==
    ASSUME ReadingInv, [ReadingNext]_readingVars
    PROVE  ReadingInv'
<1>1. CASE ReadPage
  <2>1. Ranged'
    BY <1>1 DEF ReadPage, asked, file, Lists, ReadingInv, Ranged, Follows
  <2>. QED BY <1>1, <2>1, ReadPageRows, ReadPagePaged DEF ReadingInv
<1>2. CASE \E r \in Row, key \in Key \cup {Null, Gone} : Change(r, key)
  <2>1. PICK r \in Row, key \in Key \cup {Null, Gone} : Change(r, key)
    BY <1>2
  <2>2. ReadingRows' /\ (~cut' => Paged')
    BY <2>1, ChangeStep DEF ReadingInv
  <2>3. Ranged'
    <3>1. /\ archive' = archive /\ pieces' = pieces /\ over' = over /\ task' = task
          /\ changes' = changes + 1 /\ changes \in 0..MaxChanges
      BY <2>1 DEF Change, asked, file, ReadingInv, ReadingRows, ReadingTypeOK
    <3>2. changes' # 0 /\ archive.version <= changes'
      BY <3>1 DEF ReadingInv, ReadingRows, ReadingTypeOK, Ranged
    <3>. QED BY <3>1, <3>2 DEF ReadingInv, Ranged, Follows
  <2>. QED BY <2>2, <2>3 DEF ReadingInv
<1>3. CASE ReadRange \/ ReplaceArchive
  <2>1. ReadingRows' /\ Ranged'
    BY <1>3, ReadRangeStep, ReplaceArchiveStep DEF ReadingInv
  <2>2. CASE cut
    <3>1. cut'
      BY <1>3, <2>2 DEF ReadRange, ReplaceArchive, list
    <3>. QED BY <2>1, <3>1 DEF ReadingInv
  <2>3. CASE ~cut
    <3>1. /\ task' = task /\ dir' = dir /\ table' = table /\ cursor' = cursor /\ shown' = shown
          /\ kept' = kept
      BY <1>3 DEF ReadRange, ReplaceArchive, asked, list
    <3>2. Whole = {} /\ Whole' = {}
      BY <1>3, <3>1 DEF ReadRange, ReplaceArchive, Whole, ReadingInv, ReadingRows, Lists
    <3>3. Paged' <=> (cursor # 0 => table[cursor] \notin {Null, Gone})
      BY <3>1, <3>2 DEF Paged
    <3>4. Paged
      BY <2>3 DEF ReadingInv
    <3>. QED BY <2>1, <3>3, <3>4 DEF ReadingInv, Paged
  <2>. QED BY <2>2, <2>3
<1>4. CASE UNCHANGED readingVars
  BY <1>4 DEF readingVars, asked, list, file, ReadingInv, ReadingRows, ReadingTypeOK, Paged, Whole, Above,
              Descending, Ranged, Follows
<1>. QED BY <1>1, <1>2, <1>3, <1>4 DEF ReadingNext

LEMMA ReadingIsWhole ==
    ASSUME ReadingInv
    PROVE  PagesAreWhole /\ RangesFollow
<1>1. PagesAreWhole
  <2>. SUFFICES ASSUME ~cut PROVE PagesAreWhole
    BY DEF PagesAreWhole
  <2>1. Paged
    BY DEF ReadingInv
  <2>2. ASSUME NEW i \in DOMAIN shown, NEW j \in DOMAIN shown, i < j, {shown[i], shown[j]} \subseteq Whole
        PROVE  Above(shown[i], shown[j])
    BY <2>1, <2>2 DEF Paged
  <2>3. over => Whole \subseteq ToSet(shown)
    BY <2>1 DEF Paged, Has, ToSet
  <2>. QED BY <2>2, <2>3 DEF PagesAreWhole, Whole
<1>2. RangesFollow
  <2>1. over /\ pieces # <<>> /\ changes = 0 => pieces[Len(pieces)].last = archive.size - 1
    BY DEF ReadingInv, Ranged
  <2>. QED BY <2>1 DEF ReadingInv, ReadingRows, Ranged, Follows, RangesFollow
<1>. QED BY <1>1, <1>2

-----------------------------------------------------------------------------
\* The pages in an archive (Archive).

\* The powers of the base, which Archive defines as a recursive function.
LEMMA PowerIs ==
    /\ Power \in [Nat -> Nat \ {0}] /\ Power[0] = 1
    /\ \A n \in Nat : Power[n + 1] = Base * Power[n]
<1>. DEFINE T == Nat \ {0}
            step == [p \in Nat \X T |-> Base * p[2]]
<1>1. Base \in Nat /\ Base >= 2
  BY ArchiveAssumption
<1>2. \A x \in T : Base * x \in T
  BY <1>1
<1>3. step \in [Nat \X T -> T] /\ \A n \in Nat, x \in T : step[<<n, x>>] = Base * x
  BY <1>2
<1>. HIDE DEF step
<1>4. PICK g \in [Nat -> T] : Iterates(g, 1, step)
  <2>1. 1 \in T
    OBVIOUS
  <2>. HIDE DEF T
  <2>. QED BY <1>3, <2>1, Recursion
<1>5. \A n \in Nat : g[n + 1] = Base * g[n]
  BY <1>3, <1>4 DEF Iterates
<1>6. \A n \in Nat : g[n] = IF n = 0 THEN 1 ELSE Base * g[n - 1]
  <2>. TAKE n \in Nat
  <2>1. CASE n = 0
    BY <1>4, <2>1 DEF Iterates
  <2>2. CASE n # 0
    <3>1. n - 1 \in Nat /\ (n - 1) + 1 = n
      BY <2>2
    <3>. QED BY <1>5, <2>2, <3>1
  <2>. QED BY <2>1, <2>2
<1>7. g = [n \in Nat |-> IF n = 0 THEN 1 ELSE Base * g[n - 1]]
  BY <1>4, <1>6
<1>8. Power = [n \in Nat |-> IF n = 0 THEN 1 ELSE Base * Power[n - 1]]
  BY <1>7 DEF Power
<1>9. Power[0] = 1 /\ \A n \in Nat : Power[n + 1] = Base * Power[n]
  BY <1>8
<1>10. \A n \in Nat : Power[n] \in T
  <2>. DEFINE M == {n \in Nat : Power[n] \in T}
  <2>1. 0 \in M /\ \A n \in Nat : n \in M => n + 1 \in M
    BY <1>2, <1>9
  <2>. HIDE DEF M
  <2>2. Nat \subseteq M
    BY <2>1, Inductive
  <2>. QED BY <2>2 DEF M
<1>. QED BY <1>8, <1>9, <1>10

LEMMA PowerGrows ==
    /\ \A n \in Nat : Power[n] > n
    /\ \A n, m \in Nat : m <= n => Power[m] <= Power[n]
<1>1. Base \in Nat /\ Base >= 2
  BY ArchiveAssumption
<1>2. \A x \in Nat \ {0} : Base * x \in Nat /\ Base * x >= x + 1
  BY <1>1
<1>3. \A n \in Nat : Power[n] \in Nat \ {0} /\ Power[n + 1] \in Nat /\ Power[n + 1] >= Power[n] + 1
  BY <1>2, PowerIs
<1>4. \A n \in Nat : Power[n] > n
  <2>. DEFINE M == {n \in Nat : Power[n] > n}
  <2>1. 0 \in M
    BY PowerIs
  <2>2. \A n \in Nat : n \in M => n + 1 \in M
    BY <1>3
  <2>. HIDE DEF M
  <2>3. Nat \subseteq M
    BY <2>1, <2>2, Inductive
  <2>. QED BY <2>3 DEF M
<1>5. ASSUME NEW m \in Nat, NEW n \in Nat, m <= n PROVE Power[m] <= Power[n]
  <2>. DEFINE M == {i \in Nat : Power[m] <= Power[m + i]}
  <2>1. 0 \in M
    BY <1>3
  <2>2. ASSUME NEW i \in Nat, i \in M PROVE i + 1 \in M
    <3>1. m + i \in Nat /\ m + (i + 1) = (m + i) + 1 /\ Power[m] <= Power[m + i]
      BY <2>2
    <3>2. /\ Power[m] \in Nat /\ Power[m + i] \in Nat /\ Power[(m + i) + 1] \in Nat
          /\ Power[(m + i) + 1] >= Power[m + i] + 1
      BY <1>3, <3>1
    <3>. QED BY <3>1, <3>2
  <2>. HIDE DEF M
  <2>3. Nat \subseteq M
    BY <2>1, <2>2, Inductive
  <2>4. n - m \in Nat /\ m + (n - m) = n
    BY <1>5
  <2>. QED BY <2>3, <2>4 DEF M
<1>. QED BY <1>4, <1>5

\* A number has as many digits as the powers of the base say.
LEMMA DigitsAre ==
    ASSUME NEW n \in Nat
    PROVE  /\ Digits(n) \in Nat /\ Digits(n) >= 1
           /\ n < Power[Digits(n)]
           /\ Digits(n) > 1 => n >= Power[Digits(n) - 1]
<1>. DEFINE D == {d \in 1..(n + 1) : n < Power[d]}
<1>1. n + 1 \in Nat /\ n < Power[n + 1]
  <2>1. n + 1 \in Nat /\ Power[n + 1] \in Nat /\ Power[n + 1] > n + 1
    BY PowerGrows, PowerIs
  <2>. QED BY <2>1
<1>2. n + 1 \in D /\ D \in SUBSET Nat
  BY <1>1
<1>3. PICK d \in D : \A e \in D : d <= e
  BY <1>2, LeastOf
<1>4. d \in 1..(n + 1) /\ n < Power[d]
  OBVIOUS
<1>5. d > 1 => n >= Power[d - 1]
  <2>. SUFFICES ASSUME d > 1 PROVE n >= Power[d - 1]
    OBVIOUS
  <2>1. d - 1 \in 1..(n + 1) /\ ~(d <= d - 1) /\ d - 1 \in Nat
    BY <1>4
  <2>2. ~(n < Power[d - 1]) /\ Power[d - 1] \in Nat
    BY <1>3, <2>1, PowerIs
  <2>. QED BY <2>2
<1>6. Digits(n) \in 1..(n + 1) /\ n < Power[Digits(n)] /\ (Digits(n) > 1 => n >= Power[Digits(n) - 1])
  BY <1>4, <1>5 DEF Digits
<1>. QED BY <1>6

LEMMA DivIsMonotone ==
    ASSUME NEW b \in Nat \ {0}, NEW x \in Nat, NEW y \in Nat, x <= y
    PROVE  x \div b \in Nat /\ y \div b \in Nat /\ x \div b <= y \div b
<1>1. PICK p \in Int, m \in 0..(b - 1) : p = x \div b /\ x = b * p + m
  BY DivisionIs
<1>2. b * p <= x /\ b * p <= y /\ b * 0 <= x /\ b * 0 <= y
  <2>1. b * p \in Int /\ m \in Int /\ m >= 0 /\ b * 0 = 0
    OBVIOUS
  <2>. QED BY <1>1, <2>1
<1>3. p <= y \div b /\ 0 <= x \div b /\ 0 <= y \div b
  <2>1. x \in Int /\ y \in Int /\ 0 \in Int
    OBVIOUS
  <2>. QED BY <1>2, <2>1, Quotient
<1>4. x \div b \in Int /\ y \div b \in Int
  OBVIOUS
<1>. QED BY <1>1, <1>3, <1>4

\* Of two numbers that are written with as many digits, the first digit that differs decides.
LEMMA FirstDigitDecides ==
    ASSUME NEW W \in Nat \ {0}, NEW k \in Nat, NEW l \in Nat, k < l, l < Power[W]
    PROVE  \E p \in 1..W :
              /\ (k \div Power[W - p]) % Base < (l \div Power[W - p]) % Base
              /\ \A j \in 1..(p - 1) : k \div Power[W - j] = l \div Power[W - j]
<1>. DEFINE D == {j \in 1..W : k \div Power[W - j] # l \div Power[W - j]}
<1>1. \A n \in Nat : Power[n] \in Nat \ {0} /\ Power[n + 1] = Base * Power[n]
  BY PowerIs
<1>2. \A j \in 1..W : W - j \in Nat
  OBVIOUS
<1>3. W \in D
  <2>1. Power[W - W] = 1 /\ k \div 1 = k /\ l \div 1 = l
    BY PowerIs
  <2>. QED BY <2>1
<1>4. D \in SUBSET Nat
  OBVIOUS
<1>5. PICK p \in D : \A j \in D : p <= j
  BY <1>3, <1>4, LeastOf
<1>6. p \in 1..W /\ k \div Power[W - p] # l \div Power[W - p]
  OBVIOUS
<1>7. \A j \in 1..(p - 1) : k \div Power[W - j] = l \div Power[W - j]
  <2>. TAKE j \in 1..(p - 1)
  <2>1. j \in 1..W /\ ~(p <= j)
    BY <1>6
  <2>. QED BY <1>5, <2>1
<1>8. PICK e \in Nat : e = W - p
  BY <1>2, <1>6
<1>9. PICK P \in Nat \ {0} : P = Power[e]
  BY <1>1
<1>. DEFINE u == k \div P
            v == l \div P
<1>10. u \in Nat /\ v \in Nat /\ u <= v /\ u # v
  BY <1>6, <1>8, <1>9, DivIsMonotone
<1>11. Base \in Nat \ {0}
  BY ArchiveAssumption
<1>12. u \div Base = v \div Base
  <2>1. Power[e + 1] = Base * P /\ Power[e + 1] \in Nat \ {0}
    BY <1>1, <1>9
  <2>2. \A x \in Nat : (x \div P) \div Base = x \div (P * Base)
    BY <1>9, <1>11
  <2>3. P * Base = Base * P
    BY <1>9, <1>11
  <2>4. u \div Base = k \div Power[e + 1] /\ v \div Base = l \div Power[e + 1]
    BY <2>1, <2>2, <2>3
  <2>5. CASE p = 1
    <3>1. e + 1 = W
      BY <1>8, <2>5
    <3>2. l < Power[W] /\ Power[W] \in Nat \ {0}
      BY <1>1
    <3>3. \A x \in Nat, y \in Nat \ {0} : x < y => x \div y = 0
      OBVIOUS
    <3>4. k \div Power[W] = 0 /\ l \div Power[W] = 0
      BY <3>2, <3>3
    <3>. QED BY <2>4, <3>1, <3>4
  <2>6. CASE p # 1
    <3>1. p - 1 \in 1..(p - 1) /\ W - (p - 1) = e + 1
      BY <1>6, <1>8, <2>6
    <3>. QED BY <1>7, <2>4, <3>1
  <2>. QED BY <2>5, <2>6
<1>. HIDE DEF u, v
<1>13. PICK q \in Int, m \in Int : q = u \div Base /\ m = u % Base /\ u = Base * q + m
  <2>1. u \in Int /\ \A i \in 0..(Base - 1) : i \in Int
    BY <1>10, <1>11
  <2>2. PICK r \in Int, i \in 0..(Base - 1) : r = u \div Base /\ i = u % Base /\ u = Base * r + i
    BY <1>11, <2>1, DivisionIs
  <2>. QED BY <2>1, <2>2
<1>14. PICK n \in Int : n = v % Base /\ v = Base * q + n
  <2>1. v \in Int /\ \A i \in 0..(Base - 1) : i \in Int
    BY <1>10, <1>11
  <2>2. PICK r \in Int, i \in 0..(Base - 1) : r = v \div Base /\ i = v % Base /\ v = Base * r + i
    BY <1>11, <2>1, DivisionIs
  <2>. QED BY <1>12, <1>13, <2>1, <2>2
<1>15. u % Base < v % Base
  <2>1. PICK z \in Int : z = Base * q
    BY <1>11
  <2>2. u < v
    BY <1>10
  <2>3. u = z + m /\ v = z + n
    BY <1>13, <1>14, <2>1
  <2>. QED BY <1>13, <1>14, <2>3, <2>2
<1>. QED BY <1>6, <1>7, <1>8, <1>9, <1>15 DEF u, v

\* The width has room for the number of every page.
LEMMA WidthIs ==
    ASSUME NEW n \in Nat, NEW k \in 1..n
    PROVE  /\ PageNumberWidth(n) \in Nat \ {0} /\ n < Power[PageNumberWidth(n)]
           /\ Digits(k) \in Nat /\ Digits(k) <= PageNumberWidth(n)
<1>. DEFINE W == PageNumberWidth(n)
<1>1. /\ Digits(n) \in Nat /\ Digits(n) >= 1 /\ n < Power[Digits(n)] /\ k \in Nat
      /\ Digits(k) \in Nat /\ Digits(k) >= 1
      /\ Digits(k) > 1 => k >= Power[Digits(k) - 1]
  BY DigitsAre
<1>2. W \in Nat /\ W >= 1 /\ Digits(n) <= W
  BY <1>1, ArchiveAssumption DEF PageNumberWidth
<1>. HIDE DEF W
<1>3. n < Power[W]
  <2>1. Power[Digits(n)] <= Power[W] /\ Power[Digits(n)] \in Nat /\ Power[W] \in Nat
    BY <1>1, <1>2, PowerGrows, PowerIs
  <2>. QED BY <1>1, <2>1
<1>4. Digits(k) <= W
  <2>. SUFFICES ASSUME Digits(k) > W PROVE FALSE
    BY <1>1, <1>2
  <2>1. PICK d \in Nat : d = Digits(k) - 1
    BY <1>1
  <2>2. W <= d /\ k >= Power[d]
    BY <1>1, <1>2, <2>1
  <2>3. Power[W] <= Power[d] /\ Power[W] \in Nat /\ Power[d] \in Nat
    BY <1>2, <2>2, PowerGrows, PowerIs
  <2>. QED BY <1>1, <1>3, <2>2, <2>3
<1>. QED BY <1>1, <1>2, <1>3, <1>4 DEF W

LEMMA RankIs ==
    ASSUME listed \in PageList, NEW ref \in DOMAIN listed
    PROVE  Rank[ExtensionFor(ref)] \in Int
<1>1. listed[ref].image \in {"avif", "gif", "jpg", "png", "webp", "unknown"}
  <2>. DEFINE T == [content : {"url", "text", "zip", "image"},
                    image : {"avif", "gif", "jpg", "png", "webp", "unknown"}, bytes : Nat]
  <2>1. listed \in Seq(T)
    BY ArchiveAssumption
  <2>2. listed[ref] \in T
    <3>. HIDE DEF T
    <3>. QED BY <2>1
  <2>. QED BY <2>2
<1>2. Base \in Int
  BY ArchiveAssumption
<1>3. ExtensionFor(ref) \in {"avif", "gif", "jpg", "png", "webp"}
  BY <1>1 DEF ExtensionFor
<1>. QED BY <1>2, <1>3 DEF Rank

LEMMA ConcatIs ==
    ASSUME NEW S, NEW s \in Seq(S), NEW a \in S, NEW b \in S
    PROVE  LET t == s \o <<a, b>>
               n == Len(s)
           IN  /\ t \in Seq(S) /\ Len(t) = n + 2 /\ n \in Nat /\ DOMAIN t = 1..(n + 2)
               /\ t[n + 1] = a /\ \A i \in 1..n : t[i] = s[i]
OBVIOUS

\* A name is the digits of the page's number, and then what stands for its extension.
LEMMA NameIs ==
    ASSUME listed \in PageList, NEW n \in Nat, NEW k \in 1..n, NEW ref \in DOMAIN listed
    PROVE  LET W    == PageNumberWidth(n)
               name == PageName(k, W, ref)
           IN  /\ name \in Seq(Int) /\ Len(name) = W + 2 /\ DOMAIN name = 1..(W + 2)
               /\ \A j \in 1..W : name[j] = (k \div Power[W - j]) % Base
<1>. DEFINE W == PageNumberWidth(n)
            d == [j \in 1..W |-> (k \div Power[W - j]) % Base]
<1>1. W \in Nat \ {0} /\ Digits(k) \in Nat /\ Digits(k) <= W
  BY WidthIs
<1>. HIDE DEF W
<1>2. \A j \in 1..W : (k \div Power[W - j]) % Base \in Int
  <2>. TAKE j \in 1..W
  <2>1. W - j \in Nat
    BY <1>1
  <2>2. PICK P \in Nat \ {0} : P = Power[W - j]
    BY <2>1, PowerIs
  <2>3. k \in Int /\ Base \in Nat \ {0}
    BY ArchiveAssumption
  <2>4. k \div P \in Int
    BY <2>3
  <2>. QED BY <2>2, <2>3, <2>4
<1>3. d \in Seq(Int) /\ Len(d) = W
  <2>1. d \in [1..W -> Int]
    BY <1>2
  <2>. QED BY <1>1, <2>1, FunctionIsSeq
<1>4. Padded(k, W) = d
  BY <1>1 DEF Padded
<1>5. \A j \in 1..W : d[j] = (k \div Power[W - j]) % Base
  OBVIOUS
<1>. HIDE DEF d
<1>6. PICK r \in Int : r = Rank[ExtensionFor(ref)]
  BY RankIs
<1>7. PageName(k, W, ref) = d \o <<-1, r>>
  BY <1>4, <1>6 DEF PageName
<1>8. -1 \in Int
  OBVIOUS
<1>. QED BY <1>3, <1>5, <1>6, <1>7, <1>8, ConcatIs DEF W

LEMMA NotBeforeItself ==
    ASSUME NEW a \in Seq(Int)
    PROVE  ~Before(a, a)
BY DEF Before

\* Names compare as the numbers of their pages.
LEMMA NamesAreInOrder ==
    ASSUME listed \in PageList, NEW n \in Nat, NEW k \in 1..n, NEW l \in 1..n, k < l,
           NEW p \in DOMAIN listed, NEW q \in DOMAIN listed
    PROVE  LET a == PageName(k, PageNumberWidth(n), p)
               b == PageName(l, PageNumberWidth(n), q)
           IN  Before(a, b) /\ ~Before(b, a)
<1>. DEFINE W == PageNumberWidth(n)
            a == PageName(k, W, p)
            b == PageName(l, W, q)
<1>1. W \in Nat \ {0} /\ n < Power[W]
  BY WidthIs
<1>2. /\ a \in Seq(Int) /\ Len(a) = W + 2 /\ DOMAIN a = 1..(W + 2)
      /\ b \in Seq(Int) /\ Len(b) = W + 2 /\ DOMAIN b = 1..(W + 2)
      /\ \A j \in 1..W : a[j] = (k \div Power[W - j]) % Base
      /\ \A j \in 1..W : b[j] = (l \div Power[W - j]) % Base
  BY NameIs
<1>. HIDE DEF W
<1>3. k \in Nat /\ l \in Nat /\ l < Power[W]
  BY <1>1, PowerIs
<1>4. PICK i \in 1..W :
         /\ (k \div Power[W - i]) % Base < (l \div Power[W - i]) % Base
         /\ \A j \in 1..(i - 1) : k \div Power[W - j] = l \div Power[W - j]
  BY <1>1, <1>3, FirstDigitDecides
<1>. HIDE DEF a, b
<1>5. a[i] < b[i] /\ \A j \in 1..(i - 1) : a[j] = b[j]
  <2>1. a[i] < b[i]
    BY <1>2, <1>4
  <2>2. ASSUME NEW j \in 1..(i - 1) PROVE a[j] = b[j]
    <3>1. j \in 1..W
      BY <1>1
    <3>2. k \div Power[W - j] = l \div Power[W - j]
      BY <1>4
    <3>3. a[j] = (k \div Power[W - j]) % Base /\ b[j] = (l \div Power[W - j]) % Base
      BY <1>2, <3>1
    <3>. QED BY <3>2, <3>3
  <2>. QED BY <2>1, <2>2
<1>6. \A j \in 1..(W + 2) : a[j] \in Int /\ b[j] \in Int
  BY <1>2
<1>7. i \in 1..(W + 2)
  BY <1>1
<1>8. Before(a, b)
  BY <1>2, <1>5, <1>7 DEF Before
<1>9. ~Before(b, a)
  <2>1. ~(Len(b) < Len(a))
    BY <1>1, <1>2
  <2>2. ASSUME NEW j \in 1..(W + 2), b[j] < a[j], \A h \in 1..(j - 1) : b[h] = a[h] PROVE FALSE
    <3>1. CASE j < i
      <4>1. j \in 1..(i - 1)
        BY <1>1, <3>1
      <4>. QED BY <1>5, <1>6, <2>2, <4>1
    <3>2. CASE j = i
      BY <1>5, <1>6, <2>2, <3>2
    <3>3. CASE j > i
      <4>1. i \in 1..(j - 1)
        BY <1>1, <3>3
      <4>. QED BY <1>5, <1>6, <1>7, <2>2, <4>1
    <3>. QED BY <1>1, <3>1, <3>2, <3>3
  <2>. QED BY <1>2, <2>1, <2>2 DEF Before
<1>. QED BY <1>8, <1>9 DEF a, b, W

\* The pages that are packaged.
KeptPages == {i \in DOMAIN listed : listed[i].content # "image"}

\* The pages that are packaged, in order.
LEMMA MapPagesIs ==
    ASSUME listed \in PageList
    PROVE  /\ IsFiniteSet(KeptPages) /\ KeptPages \subseteq DOMAIN listed /\ DOMAIN listed = 1..Len(listed)
           /\ Len(listed) \in Nat
           /\ MapPages(listed) = Ordered(KeptPages, <)
           /\ MapPages(listed) \in Seq(KeptPages)
           /\ Len(MapPages(listed)) = Cardinality(KeptPages) /\ Cardinality(KeptPages) \in Nat
           /\ \A x \in KeptPages : \E i \in DOMAIN MapPages(listed) : MapPages(listed)[i] = x
<1>1. DOMAIN listed = 1..Len(listed) /\ Len(listed) \in Nat
  BY ArchiveAssumption
<1>2. KeptPages \subseteq DOMAIN listed /\ KeptPages \in SUBSET Nat
  BY <1>1 DEF KeptPages
<1>3. IsFiniteSet(DOMAIN listed)
  <2>1. 1 \in Int /\ Len(listed) \in Int
    BY <1>1
  <2>. QED BY <1>1, <2>1, FS_Interval
<1>4. IsFiniteSet(KeptPages) /\ Cardinality(KeptPages) \in Nat
  BY <1>2, <1>3, Smaller
<1>5. MapPages(listed) = Ordered(KeptPages, <)
  BY DEF MapPages, KeptPages
<1>. QED BY <1>1, <1>2, <1>4, <1>5, AscendingIs

\* What is fetched is of the page list, a page at most once, and what is placed is the whole of it.
ArchiveInv ==
    /\ listed \in PageList
    /\ chapter # "listing" => refs = MapPages(listed)
    /\ fetched \in Seq(KeptPages)
    /\ \A i, j \in DOMAIN fetched : fetched[i] = fetched[j] => i = j
    /\ chapter = "placed" => images = WriteCbz(MapPages(listed)) /\ info.pageCount = Len(MapPages(listed))

LEMMA ArchiveBegins == ArchiveInit => ArchiveInv
BY DEF ArchiveInit, ArchiveInv

LEMMA FetchPageStep ==
    ASSUME ArchiveInv, NEW ref, FetchPage(ref)
    PROVE  ArchiveInv'
<1>1. /\ chapter = "fetching" /\ ref \in InFlight /\ fetched' = Append(fetched, ref)
      /\ chapter' \in {"failed", "fetching"}
      /\ listed' = listed /\ refs' = refs /\ images' = images /\ info' = info
  BY DEF FetchPage
<1>2. ref \in KeptPages /\ ref \notin ToSet(fetched)
  <2>1. PICK k \in DOMAIN refs : ref = refs[k]
    BY <1>1 DEF InFlight
  <2>2. refs \in Seq(KeptPages)
    BY <1>1, MapPagesIs DEF ArchiveInv
  <2>. QED BY <1>1, <2>1, <2>2 DEF InFlight
<1>. DEFINE n == Len(fetched)
            g == fetched'
<1>3. /\ n \in Nat /\ DOMAIN fetched = 1..n /\ g \in Seq(KeptPages)
      /\ DOMAIN g = 1..(n + 1) /\ g[n + 1] = ref /\ \A i \in 1..n : g[i] = fetched[i]
  BY <1>1, <1>2, AppendIs DEF ArchiveInv
<1>4. \A i \in 1..n : g[i] # ref
  BY <1>2, <1>3 DEF ToSet
<1>. HIDE DEF g, n
<1>5. \A i, j \in 1..(n + 1) : g[i] = g[j] => i = j
  <2>. SUFFICES ASSUME NEW i \in 1..(n + 1), NEW j \in 1..(n + 1), g[i] = g[j] PROVE i = j
    OBVIOUS
  <2>1. CASE i = n + 1
    BY <1>3, <1>4, <2>1
  <2>2. CASE j = n + 1
    BY <1>3, <1>4, <2>2
  <2>3. CASE i # n + 1 /\ j # n + 1
    <3>1. i \in 1..n /\ j \in 1..n
      BY <1>3, <2>3
    <3>. QED BY <1>3, <3>1 DEF ArchiveInv
  <2>. QED BY <2>1, <2>2, <2>3
<1>6. fetched' \in Seq(KeptPages)' /\ \A i, j \in DOMAIN fetched' : fetched'[i] = fetched'[j] => i = j
  BY <1>1, <1>3, <1>5 DEF g, KeptPages
<1>. QED BY <1>1, <1>6 DEF ArchiveInv

LEMMA WriteChapterStep ==
    ASSUME ArchiveInv, WriteChapter
    PROVE  ArchiveInv'
<1>1. /\ chapter = "fetching" /\ Len(fetched) = Len(refs) /\ images' = WriteCbz(Sorted)
      /\ chapter' = "placed" /\ listed' = listed /\ refs' = refs /\ fetched' = fetched
      /\ info'.pageCount = Len(fetched)
  BY DEF WriteChapter, Elements
<1>. DEFINE K == KeptPages
            n == Len(fetched)
<1>2. refs = MapPages(listed) /\ fetched \in Seq(K)
      /\ \A i, j \in DOMAIN fetched : fetched[i] = fetched[j] => i = j
  BY <1>1 DEF ArchiveInv
<1>3. IsFiniteSet(K) /\ Cardinality(K) = n /\ n \in Nat
  BY <1>1, <1>2, MapPagesIs DEF ArchiveInv
<1>4. DOMAIN fetched = 1..n /\ fetched \in [1..n -> K]
  BY <1>2
<1>. HIDE DEF K, n
<1>5. IsFiniteSet(1..n) /\ Cardinality(1..n) = n
  <2>1. 1 \in Int /\ n \in Int
    BY <1>3
  <2>. QED BY <1>3, <2>1, FS_Interval
<1>6. fetched \in Injection(1..n, K)
  BY <1>2, <1>4 DEF Injection, IsInjective
<1>7. fetched \in Surjection(1..n, K)
  BY <1>3, <1>5, <1>6, FS_Injection
<1>8. ToSet(fetched) = K
  BY <1>2, <1>4, <1>7 DEF Surjection, ToSet
<1>9. Sorted = MapPages(listed)
  BY <1>8, MapPagesIs DEF Sorted, ArchiveInv, K
<1>10. images' = WriteCbz(MapPages(listed))'
  BY <1>1, <1>9 DEF WriteCbz, PageName, ExtensionFor
<1>11. K' = K
  BY <1>1 DEF K, KeptPages
<1>12. info'.pageCount = Len(MapPages(listed'))
  BY <1>1, <1>2
<1>. QED BY <1>1, <1>2, <1>10, <1>11, <1>12 DEF ArchiveInv, K

LEMMA ArchiveStep ==
    ASSUME ArchiveInv, [ArchiveNext]_archiveVars
    PROVE  ArchiveInv'
<1>1. CASE List
  BY <1>1 DEF List, ArchiveInv, KeptPages
<1>2. CASE \E ref \in ToSet(refs) : FetchPage(ref)
  BY <1>2, FetchPageStep
<1>3. CASE FetchFails
  BY <1>3 DEF FetchFails, ArchiveInv, KeptPages
<1>4. CASE WriteChapter
  BY <1>4, WriteChapterStep
<1>5. CASE UNCHANGED archiveVars
  BY <1>5 DEF archiveVars, ArchiveInv, KeptPages, WriteCbz, PageName, ExtensionFor
<1>. QED BY <1>1, <1>2, <1>3, <1>4, <1>5 DEF ArchiveNext

\* By a rank that counts the numbers below, the numbers up to n are listed as they are.
LEMMA IdentityIs ==
    ASSUME NEW n \in Nat, NEW rank, NEW s, ListsBy(s, rank, 1..n), \A x \in 1..n : rank[x] = x - 1
    PROVE  s = [i \in 1..n |-> i]
<1>1. Cardinality(1..n) = n
  <2>1. 1 \in Int /\ n \in Int
    OBVIOUS
  <2>. QED BY <2>1, FS_Interval
<1>2. s = [i \in 1..n |-> CHOOSE x \in 1..n : rank[x] = i - 1]
  BY <1>1 DEF ListsBy
<1>3. \A i \in 1..n : (CHOOSE x \in 1..n : rank[x] = i - 1) = i
  <2>. TAKE i \in 1..n
  <2>1. \A x \in 1..n : rank[x] = i - 1 <=> x = i
    OBVIOUS
  <2>. QED BY <2>1
<1>. QED BY <1>2, <1>3

LEMMA ArchiveIsInOrder ==
    ASSUME ArchiveInv
    PROVE  PagesInOrder
<1>. SUFFICES ASSUME chapter = "placed" PROVE PagesInOrder
  BY DEF PagesInOrder
<1>. DEFINE m == MapPages(listed)
            n == Len(m)
            name(k) == PageName(k, PageNumberWidth(n), m[k])
<1>1. /\ images = WriteCbz(m) /\ info.pageCount = n /\ listed \in PageList
  BY DEF ArchiveInv
<1>2. /\ m \in Seq(KeptPages) /\ KeptPages \subseteq DOMAIN listed /\ IsFiniteSet(KeptPages)
      /\ n = Cardinality(KeptPages) /\ DOMAIN listed = 1..Len(listed) /\ Len(listed) \in Nat
  BY <1>1, MapPagesIs
<1>. HIDE DEF m
<1>3. n \in Nat /\ DOMAIN m = 1..n /\ m = [k \in 1..n |-> m[k]] /\ \A k \in 1..n : m[k] \in DOMAIN listed
  BY <1>2
<1>. HIDE DEF n
<1>4. images = [k \in 1..n |-> [name |-> name(k), page |-> m[k]]]
  BY <1>1, <1>3 DEF WriteCbz, n
<1>. HIDE DEF name
<1>5. /\ DOMAIN images = 1..n /\ Len(images) = n
      /\ \A k \in 1..n : images[k].name = name(k) /\ images[k].page = m[k]
  BY <1>3, <1>4
<1>6. \A k, l \in 1..n : k < l => Before(name(k), name(l)) /\ ~Before(name(l), name(k))
  BY <1>1, <1>3, NamesAreInOrder DEF name
<1>7. \A k \in 1..n : ~Before(name(k), name(k))
  BY <1>1, <1>3, NameIs, NotBeforeItself DEF name
<1>8. \A k, l \in 1..n : Before(images[k].name, images[l].name) <=> k < l
  BY <1>5, <1>6, <1>7
<1>. DEFINE rank == [x \in 1..n |-> Cardinality({y \in 1..n : Before(images[y].name, images[x].name)})]
            order == Ordered(DOMAIN images, LAMBDA k, l : Before(images[k].name, images[l].name))
<1>9. \A x \in 1..n : rank[x] = x - 1
  <2>. TAKE x \in 1..n
  <2>1. {y \in 1..n : Before(images[y].name, images[x].name)} = 1..(x - 1)
    BY <1>3, <1>8
  <2>2. 1 \in Int /\ x - 1 \in Int /\ (1 > x - 1 => x = 1)
    OBVIOUS
  <2>3. Cardinality(1..(x - 1)) = x - 1
    BY <2>2, FS_Interval
  <2>. QED BY <2>1, <2>3
<1>10. ListsBy(order, rank, 1..n)
  BY <1>5 DEF Ordered, ListsBy
<1>. HIDE DEF rank, order
<1>11. order = [i \in 1..n |-> i]
  BY <1>3, <1>9, <1>10, IdentityIs
<1>12. [k \in DOMAIN order |-> images[order[k]].page] = m
  BY <1>3, <1>5, <1>11
<1>13. \A k, l \in DOMAIN images : k # l => images[k].name # images[l].name
  BY <1>3, <1>5, <1>6, <1>7
<1>14. (\A i \in DOMAIN listed : listed[i].content # "image") => Len(images) = Len(listed)
  <2>. SUFFICES ASSUME \A i \in DOMAIN listed : listed[i].content # "image" PROVE n = Len(listed)
    BY <1>5
  <2>1. KeptPages = 1..Len(listed)
    BY <1>2 DEF KeptPages
  <2>2. PICK l \in Nat : l = Len(listed)
    BY <1>2
  <2>3. 1 \in Int /\ l \in Int
    OBVIOUS
  <2>4. Cardinality(1..l) = l
    BY <2>3, FS_Interval
  <2>5. n = Cardinality(1..l)
    BY <1>2, <2>1, <2>2 DEF n
  <2>. QED BY <2>2, <2>4, <2>5
<1>. QED BY <1>1, <1>5, <1>12, <1>13, <1>14 DEF PagesInOrder, order, m

-----------------------------------------------------------------------------
\* The answers that are put together (Views).

\* Numbers in descending order.
LEMMA DescendingIs ==
    ASSUME NEW S \in SUBSET Nat, IsFiniteSet(S)
    PROVE  /\ Ordered(S, >) \in Seq(S)
           /\ \A i, j \in DOMAIN Ordered(S, >) : i < j => Ordered(S, >)[i] > Ordered(S, >)[j]
           /\ \A x \in S : \E i \in DOMAIN Ordered(S, >) : Ordered(S, >)[i] = x
<1>. DEFINE R == {p \in S \X S : p[1] > p[2]}
            before == [x \in S |-> Cardinality({y \in S : y > x})]
<1>1. \A x \in S : {y \in S : y > x} = {y \in S : <<y, x>> \in R}
  OBVIOUS
<1>2. CountsBefore(before, R, S)
  BY <1>1, Zenon DEF CountsBefore
<1>3. OrdersStrictly(R, S)
  BY DEF OrdersStrictly
<1>4. \A x, y \in S : <<x, y>> \in R <=> x > y
  OBVIOUS
<1>. DEFINE s == Ordered(S, >)
<1>5. ListsBy(s, before, S)
  BY DEF Ordered, ListsBy
<1>. HIDE DEF R, before, s
<1>6. /\ s \in Seq(S)
      /\ \A i, j \in DOMAIN s : i < j <=> <<s[i], s[j]>> \in R
      /\ \A x \in S : \E i \in DOMAIN s : s[i] = x
  BY <1>2, <1>3, <1>5, OrderedIs
<1>7. \A i \in DOMAIN s : s[i] \in S
  BY <1>6
<1>. QED BY <1>4, <1>6, <1>7 DEF s

\* What the variables of a view may be.
AnyState == {Absent, "there"} \cup JobState
ViewRow  == [entry : Entry, state : AnyState]
Facts     == Fact \cup {Absent}
KnownOf  == UNION {[S -> Facts] : S \in SUBSET Subject}
ViewRec  == [what : {"jobs", "panel", "available"}, filter : {Anyone} \cup JobState,
             stage : {"asked", "half", "answered", "refused"},
             rows : Seq(ViewRow), known : KnownOf, shown : Seq([row : ViewRow, fact : Facts])]

ViewsTypeOK ==
    /\ view \in ViewRec /\ (view.what # "jobs" => view.filter = Anyone)
    /\ present \in [Entry -> AnyState] /\ facts \in [Subject -> Facts]
    /\ was \in [Subject -> SUBSET Facts] /\ \A s \in Subject : facts[s] \in was[s]
    /\ stayed \subseteq Entry

\* The rows are in order, as they were or have been, and none is missing that was there all along.
RowsHold(rows) ==
    /\ \A i, j \in DOMAIN rows : i < j => rows[i].entry > rows[j].entry
    /\ \A i \in DOMAIN rows :
          /\ view.filter # Anyone => rows[i].state = view.filter
          /\ rows[i].entry \in stayed => rows[i].state = present[rows[i].entry]
    /\ view.what \in {"jobs", "available"} =>
          \A e \in stayed : present[e] # Absent /\ view.filter \in {Anyone, present[e]} =>
              (\E i \in DOMAIN rows : rows[i].entry = e)
              \/ (view.what = "jobs" /\ Len(rows) = ListLimit /\ rows[ListLimit].entry > e)

\* What is known of a subject was true of it once.
KnownHolds(known, subjects) ==
    /\ DOMAIN known \subseteq Subject
    /\ \A s \in subjects : IF s \in DOMAIN known THEN known[s] \in was[s] ELSE Absent \in was[s]

\* What was read first holds at the second read, too.
ViewsInv ==
    /\ ViewsTypeOK
    /\ view.stage = "half" => IF view.what = "available" THEN KnownHolds(view.known, Subject)
                              ELSE RowsHold(view.rows)
    /\ RowsCarryTheirOwn

LEMMA ViewsBegins == ViewsInit => ViewsInv
<1>. SUFFICES ASSUME ViewsInit PROVE ViewsInv
  OBVIOUS
<1>1. /\ view.stage = "asked" /\ view \in ViewRec /\ (view.what # "jobs" => view.filter = Anyone)
  <2>1. <<>> \in KnownOf
    <3>1. <<>> \in [{} -> Facts]
      OBVIOUS
    <3>. QED BY <3>1 DEF KnownOf
  <2>2. \A what \in {"jobs", "panel", "available"}, filter \in {Anyone} \cup JobState :
            /\ Asks(what, filter) \in ViewRec /\ Asks(what, filter).stage = "asked"
            /\ Asks(what, filter).what = what /\ Asks(what, filter).filter = filter
    BY <2>1 DEF Asks, ViewRec
  <2>3. PICK what \in {"jobs", "panel", "available"}, filter \in {Anyone} \cup JobState :
            view = Asks(what, filter) /\ (what # "jobs" => filter = Anyone)
    BY DEF ViewsInit
  <2>. QED BY <2>2, <2>3
<1>2. present \in [Entry -> AnyState] /\ facts \in [Subject -> Facts] /\ stayed = Entry
      /\ was = [s \in Subject |-> {facts[s]}]
  BY DEF ViewsInit, AnyState, States, Facts
<1>3. ViewsTypeOK
  BY <1>1, <1>2 DEF ViewsTypeOK
<1>. QED BY <1>1, <1>3 DEF ViewsInv, RowsCarryTheirOwn

LEMMA RowsIs ==
    ASSUME ViewsTypeOK, NEW es \in Seq(Entry)
    PROVE  /\ Rows(es) \in Seq(ViewRow) /\ DOMAIN Rows(es) = DOMAIN es /\ Len(Rows(es)) = Len(es)
           /\ \A i \in DOMAIN es : Rows(es)[i].entry = es[i] /\ Rows(es)[i].state = present[es[i]]
<1>1. PICK n \in Nat : n = Len(es) /\ DOMAIN es = 1..n /\ \A i \in 1..n : es[i] \in Entry
  OBVIOUS
<1>. DEFINE rows == Rows(es)
<1>2. /\ rows = [i \in 1..n |-> [entry |-> es[i], state |-> present[es[i]]]]
      /\ \A i \in 1..n : present[es[i]] \in AnyState
  BY <1>1 DEF Rows, ViewsTypeOK
<1>3. rows \in [1..n -> ViewRow]
  BY <1>1, <1>2 DEF ViewRow
<1>. HIDE DEF rows
<1>4. rows \in Seq(ViewRow) /\ Len(rows) = n
  BY <1>3, FunctionIsSeq
<1>. QED BY <1>1, <1>2, <1>4 DEF rows

\* The entries that satisfy a filter, the newest first.
LEMMA NewestIs ==
    ASSUME NEW S \in SUBSET Entry
    PROVE  /\ Newest(S) \in Seq(S) /\ Newest(S) \in Seq(Entry)
           /\ \A i, j \in DOMAIN Newest(S) : i < j => Newest(S)[i] > Newest(S)[j]
           /\ \A x \in S : \E i \in DOMAIN Newest(S) : Newest(S)[i] = x
<1>1. S \in SUBSET Nat /\ IsFiniteSet(S)
  <2>1. Entry \subseteq Nat /\ IsFiniteSet(Entry) /\ S \subseteq Entry
    BY ViewsAssumption
  <2>. QED BY <2>1, Smaller
<1>. DEFINE s == Ordered(S, >)
<1>2. /\ s \in Seq(S)
      /\ \A i, j \in DOMAIN s : i < j => s[i] > s[j]
      /\ \A x \in S : \E i \in DOMAIN s : s[i] = x
  BY <1>1, DescendingIs
<1>. HIDE DEF s
<1>3. s \in Seq(Entry)
  BY <1>2
<1>. QED BY <1>2, <1>3 DEF Newest, s

LEMMA ListJobsHolds ==
    ASSUME ViewsTypeOK, view.what = "jobs"
    PROVE  ListJobs \in Seq(ViewRow) /\ RowsHold(ListJobs)
<1>. DEFINE S == {e \in Entry : present[e] # Absent /\ view.filter \in {Anyone, present[e]}}
            all == Newest(S)
            m == IF Len(all) < ListLimit THEN Len(all) ELSE ListLimit
            es == SubSeq(all, 1, m)
            rows == Rows(es)
<1>1. ListJobs = rows
  BY DEF ListJobs
<1>2. \A e \in S : e \in Entry /\ e \in Nat /\ present[e] # Absent /\ (view.filter # Anyone => present[e] = view.filter)
  BY ViewsAssumption
<1>3. S \in SUBSET Entry
  OBVIOUS
<1>. HIDE DEF S
<1>4. /\ all \in Seq(S) /\ all \in Seq(Entry)
      /\ \A i, j \in DOMAIN all : i < j => all[i] > all[j]
      /\ \A x \in S : \E i \in DOMAIN all : all[i] = x
  BY <1>3, NewestIs
<1>. HIDE DEF all
<1>5. PICK n \in Nat : n = Len(all) /\ DOMAIN all = 1..n /\ \A i \in 1..n : all[i] \in S
  BY <1>4
<1>6. /\ m \in 0..n /\ m = (IF n < ListLimit THEN n ELSE ListLimit) /\ ListLimit \in Nat \ {0}
  BY <1>5, ViewsAssumption
<1>. HIDE DEF m
<1>7. /\ es \in Seq(Entry) /\ Len(es) = m /\ DOMAIN es = 1..m
      /\ \A i \in 1..m : es[i] = all[i] /\ i \in 1..n
  BY <1>4, <1>5, <1>6
<1>. HIDE DEF es
<1>8. /\ rows \in Seq(ViewRow) /\ DOMAIN rows = 1..m /\ Len(rows) = m
      /\ \A i \in 1..m : rows[i].entry = all[i] /\ rows[i].state = present[all[i]]
  BY <1>7, RowsIs
<1>. HIDE DEF rows
<1>9. \A i, j \in DOMAIN rows : i < j => rows[i].entry > rows[j].entry
  BY <1>4, <1>5, <1>7, <1>8
<1>10. ASSUME NEW i \in DOMAIN rows
       PROVE  /\ view.filter # Anyone => rows[i].state = view.filter
              /\ rows[i].entry \in stayed => rows[i].state = present[rows[i].entry]
  BY <1>2, <1>5, <1>7, <1>8
<1>11. ASSUME NEW e \in stayed, present[e] # Absent, view.filter \in {Anyone, present[e]}
       PROVE  (\E i \in DOMAIN rows : rows[i].entry = e) \/ (Len(rows) = ListLimit /\ rows[ListLimit].entry > e)
  <2>1. e \in S
    BY <1>11 DEF S, ViewsTypeOK
  <2>2. PICK k \in 1..n : all[k] = e
    BY <1>4, <1>5, <2>1
  <2>3. CASE k <= m
    BY <1>8, <2>2, <2>3
  <2>4. CASE k > m
    <3>1. m = ListLimit /\ ListLimit \in 1..m /\ ListLimit \in 1..n /\ ListLimit < k
      BY <1>6, <2>4
    <3>2. all[ListLimit] > all[k]
      BY <1>4, <1>5, <3>1
    <3>. QED BY <1>8, <2>2, <3>1, <3>2
  <2>. QED BY <1>6, <2>3, <2>4
<1>12. RowsHold(rows)
  BY <1>9, <1>10, <1>11 DEF RowsHold
<1>. QED BY <1>1, <1>8, <1>12

LEMMA ListEntriesHolds ==
    ASSUME ViewsTypeOK, view.what = "available"
    PROVE  ListEntries \in Seq(ViewRow) /\ RowsHold(ListEntries)
<1>. DEFINE S == {e \in Entry : present[e] # Absent}
            all == Newest(S)
            rows == Rows(all)
<1>1. ListEntries = rows /\ view.filter = Anyone
  BY DEF ListEntries, ViewsTypeOK
<1>2. S \in SUBSET Entry
  OBVIOUS
<1>. HIDE DEF S
<1>3. /\ all \in Seq(S) /\ all \in Seq(Entry)
      /\ \A i, j \in DOMAIN all : i < j => all[i] > all[j]
      /\ \A x \in S : \E i \in DOMAIN all : all[i] = x
  BY <1>2, NewestIs
<1>. HIDE DEF all
<1>4. /\ rows \in Seq(ViewRow) /\ DOMAIN rows = DOMAIN all
      /\ \A i \in DOMAIN all : rows[i].entry = all[i] /\ rows[i].state = present[all[i]]
  BY <1>3, RowsIs
<1>. HIDE DEF rows
<1>5. \A e \in stayed : present[e] # Absent => \E i \in DOMAIN rows : rows[i].entry = e
  BY <1>3, <1>4 DEF S, ViewsTypeOK
<1>. QED BY <1>1, <1>3, <1>4, <1>5 DEF RowsHold

LEMMA SummaryHolds ==
    ASSUME ViewsTypeOK, view.what = "panel", NEW e \in Entry
    PROVE  Rows(<<e>>) \in Seq(ViewRow) /\ RowsHold(Rows(<<e>>))
<1>1. <<e>> \in Seq(Entry) /\ DOMAIN <<e>> = {1} /\ <<e>>[1] = e
  OBVIOUS
<1>2. /\ Rows(<<e>>) \in Seq(ViewRow) /\ DOMAIN Rows(<<e>>) = {1}
      /\ Rows(<<e>>)[1].entry = e /\ Rows(<<e>>)[1].state = present[e]
  BY <1>1, RowsIs
<1>. QED BY <1>2 DEF RowsHold, ViewsTypeOK

\* Put together, they make an answer.
LEMMA JoinHolds ==
    ASSUME ViewsTypeOK, NEW rows \in Seq(ViewRow), RowsHold(rows), NEW known \in KnownOf,
           KnownHolds(known, {SubjectOf[rows[i].entry] : i \in DOMAIN rows} \ {NoSubject}),
           view' = [view EXCEPT !.stage = "answered", !.shown = Join(rows, known)],
           present' = present, facts' = facts, was' = was, stayed' = stayed
    PROVE  ViewsInv'
<1>. DEFINE joined == Join(rows, known)
            S(i) == SubjectOf[rows[i].entry]
<1>1. PICK n \in Nat : n = Len(rows) /\ DOMAIN rows = 1..n /\ \A i \in 1..n : rows[i] \in ViewRow
  OBVIOUS
<1>2. PICK D \in SUBSET Subject : known \in [D -> Facts]
  BY DEF KnownOf
<1>3. /\ joined = [i \in 1..n |-> [row |-> rows[i], fact |-> IF S(i) \in DOMAIN known THEN known[S(i)] ELSE Absent]]
      /\ Absent \in Facts
  BY <1>1 DEF Join, Facts
<1>4. \A i \in 1..n : (IF S(i) \in DOMAIN known THEN known[S(i)] ELSE Absent) \in Facts
  BY <1>2, <1>3
<1>5. joined \in [1..n -> [row : ViewRow, fact : Facts]]
  BY <1>1, <1>3, <1>4
<1>6. /\ DOMAIN joined = 1..n
      /\ \A i \in 1..n : /\ joined[i].row = rows[i]
                         /\ joined[i].fact = IF S(i) \in DOMAIN known THEN known[S(i)] ELSE Absent
  BY <1>3
<1>. HIDE DEF joined
<1>7. joined \in Seq([row : ViewRow, fact : Facts]) /\ Len(joined) = n
  BY <1>5, FunctionIsSeq
<1>8. /\ view' \in ViewRec /\ view'.stage = "answered" /\ view'.shown = joined
      /\ view'.what = view.what /\ view'.filter = view.filter
  <2>1. view' = [view EXCEPT !.stage = "answered", !.shown = joined]
    BY DEF joined
  <2>. QED BY <1>7, <2>1 DEF ViewsTypeOK, ViewRec
<1>9. ViewsTypeOK'
  BY <1>8 DEF ViewsTypeOK
<1>10. ASSUME NEW i \in 1..n PROVE joined[i].fact \in IF S(i) = NoSubject THEN {Absent} ELSE was[S(i)]
  <2>1. CASE S(i) = NoSubject
    <3>1. S(i) \notin DOMAIN known
      BY <2>1 DEF KnownHolds, Subject
    <3>. QED BY <1>6, <2>1, <3>1
  <2>2. CASE S(i) # NoSubject
    <3>1. S(i) \in {SubjectOf[rows[k].entry] : k \in DOMAIN rows} \ {NoSubject}
      BY <1>1, <2>2
    <3>2. IF S(i) \in DOMAIN known THEN known[S(i)] \in was[S(i)] ELSE Absent \in was[S(i)]
      BY <3>1 DEF KnownHolds
    <3>. QED BY <1>6, <2>2, <3>2
  <2>. QED BY <2>1, <2>2
<1>11. RowsCarryTheirOwn'
  <2>1. \A i \in 1..n : LET s == SubjectOf[joined[i].row.entry] IN
            joined[i].fact \in IF s = NoSubject THEN {Absent} ELSE was[s]
    BY <1>6, <1>10
  <2>2. \A i, j \in 1..n :
            /\ SubjectOf[joined[i].row.entry] = SubjectOf[joined[j].row.entry] => joined[i].fact = joined[j].fact
            /\ i < j => joined[i].row.entry > joined[j].row.entry
    BY <1>1, <1>6 DEF RowsHold
  <2>3. \A i \in 1..n :
            /\ view.filter # Anyone => joined[i].row.state = view.filter
            /\ joined[i].row.entry \in stayed => joined[i].row.state = present[joined[i].row.entry]
    BY <1>1, <1>6 DEF RowsHold
  <2>4. view.what \in {"jobs", "available"} =>
            \A e \in stayed : present[e] # Absent /\ view.filter \in {Anyone, present[e]} =>
               (\E i \in 1..n : joined[i].row.entry = e)
               \/ (view.what = "jobs" /\ Len(joined) = ListLimit /\ joined[ListLimit].row.entry > e)
    <3>. SUFFICES ASSUME view.what \in {"jobs", "available"}, NEW e \in stayed, present[e] # Absent,
                         view.filter \in {Anyone, present[e]}
                  PROVE  (\E i \in 1..n : joined[i].row.entry = e)
                         \/ (view.what = "jobs" /\ Len(joined) = ListLimit /\ joined[ListLimit].row.entry > e)
      OBVIOUS
    <3>1. (\E i \in DOMAIN rows : rows[i].entry = e)
          \/ (view.what = "jobs" /\ Len(rows) = ListLimit /\ rows[ListLimit].entry > e)
      BY DEF RowsHold
    <3>2. CASE \E i \in DOMAIN rows : rows[i].entry = e
      BY <1>1, <1>6, <3>2
    <3>3. CASE view.what = "jobs" /\ Len(rows) = ListLimit /\ rows[ListLimit].entry > e
      <4>1. ListLimit \in 1..n
        BY <1>1, <3>3, ViewsAssumption
      <4>. QED BY <1>1, <1>6, <1>7, <3>3, <4>1
    <3>. QED BY <3>1, <3>2, <3>3
  <2>. QED BY <1>6, <1>8, <2>1, <2>2, <2>3, <2>4 DEF RowsCarryTheirOwn
<1>. QED BY <1>8, <1>9, <1>11 DEF ViewsInv

\* What is read of the subjects is true at the time.
LEMMA SubjectsAre ==
    ASSUME ViewsTypeOK, NEW wanted \in SUBSET Subject
    PROVE  SubjectsFor(wanted) \in KnownOf /\ KnownHolds(SubjectsFor(wanted), wanted)
<1>. DEFINE D == {s \in wanted : facts[s] # Absent}
            known == SubjectsFor(wanted)
<1>1. /\ known = [s \in D |-> facts[s]] /\ D \in SUBSET Subject
      /\ \A s \in Subject : facts[s] \in Facts /\ facts[s] \in was[s]
  BY DEF SubjectsFor, ViewsTypeOK
<1>2. known \in [D -> Facts]
  BY <1>1
<1>3. known \in KnownOf
  BY <1>1, <1>2 DEF KnownOf
<1>4. DOMAIN known \subseteq Subject
  BY <1>1
<1>5. ASSUME NEW s \in wanted PROVE IF s \in DOMAIN known THEN known[s] \in was[s] ELSE Absent \in was[s]
  <2>1. CASE s \in D
    BY <1>1, <2>1
  <2>2. CASE s \notin D
    <3>1. facts[s] = Absent /\ facts[s] \in was[s]
      BY <1>1, <2>2
    <3>. QED BY <1>1, <2>2, <3>1
  <2>. QED BY <2>1, <2>2
<1>. QED BY <1>3, <1>4, <1>5 DEF KnownHolds

\* The first of the two reads.
LEMMA HalfStep ==
    ASSUME ViewsInv, NEW rows \in Seq(ViewRow), NEW known \in KnownOf, view.stage = "asked",
           view' = [view EXCEPT !.stage = "half", !.rows = rows, !.known = known],
           UNCHANGED <<present, facts, was, stayed>>,
           IF view.what = "available" THEN KnownHolds(known, Subject) ELSE RowsHold(rows)
    PROVE  ViewsInv'
<1>1. /\ view' \in ViewRec /\ view'.stage = "half" /\ view'.rows = rows /\ view'.known = known
      /\ view'.what = view.what /\ view'.filter = view.filter
  BY DEF ViewsInv, ViewsTypeOK, ViewRec
<1>2. ViewsTypeOK'
  BY <1>1 DEF ViewsInv, ViewsTypeOK
<1>3. CASE view.what = "available"
  <2>1. /\ DOMAIN known \subseteq Subject
        /\ \A s \in Subject : IF s \in DOMAIN known THEN known[s] \in was'[s] ELSE Absent \in was'[s]
    BY <1>3 DEF KnownHolds
  <2>2. KnownHolds(view.known, Subject)'
    BY <1>1, <2>1 DEF KnownHolds
  <2>. QED BY <1>1, <1>2, <1>3, <2>2 DEF ViewsInv, RowsCarryTheirOwn
<1>4. CASE view.what # "available"
  <2>1. RowsHold(rows)
    BY <1>4
  <2>2. RowsHold(view.rows)'
    BY <1>1, <2>1 DEF RowsHold
  <2>. QED BY <1>1, <1>2, <1>4, <2>2 DEF ViewsInv, RowsCarryTheirOwn
<1>. QED BY <1>3, <1>4

LEMMA ListSummariesStep == ASSUME ViewsInv, ListSummaries PROVE ViewsInv'
<1>1. /\ ViewsTypeOK /\ view.what = "jobs" /\ view.stage = "asked"
      /\ view' = [view EXCEPT !.stage = "half", !.rows = ListJobs]
      /\ UNCHANGED <<present, facts, was, stayed>>
  BY DEF ListSummaries, ViewsInv
<1>2. ListJobs \in Seq(ViewRow) /\ RowsHold(ListJobs)
  BY <1>1, ListJobsHolds
<1>3. view.known \in KnownOf /\ view' = [view EXCEPT !.stage = "half", !.rows = ListJobs, !.known = view.known]
  BY <1>1 DEF ViewsTypeOK, ViewRec
<1>. QED BY <1>1, <1>2, <1>3, HalfStep

LEMMA SummaryStep == ASSUME ViewsInv, NEW e \in Entry, Summary(e) PROVE ViewsInv'
<1>1. /\ ViewsTypeOK /\ view.what = "panel" /\ view.stage = "asked"
      /\ UNCHANGED <<present, facts, was, stayed>>
  BY DEF Summary, ViewsInv
<1>2. CASE present[e] = Absent
  <2>1. view' = [view EXCEPT !.stage = "refused"]
    BY <1>2 DEF Summary
  <2>2. /\ view' \in ViewRec /\ view'.stage = "refused" /\ view'.what = view.what /\ view'.filter = view.filter
    BY <1>1, <2>1 DEF ViewsTypeOK, ViewRec
  <2>3. ViewsTypeOK'
    BY <1>1, <2>2 DEF ViewsTypeOK
  <2>. QED BY <2>2, <2>3 DEF ViewsInv, RowsCarryTheirOwn
<1>3. CASE present[e] # Absent
  <2>1. view' = [view EXCEPT !.stage = "half", !.rows = Rows(<<e>>)]
    BY <1>3 DEF Summary
  <2>2. Rows(<<e>>) \in Seq(ViewRow) /\ RowsHold(Rows(<<e>>))
    BY <1>1, SummaryHolds
  <2>3. view.known \in KnownOf /\ view' = [view EXCEPT !.stage = "half", !.rows = Rows(<<e>>), !.known = view.known]
    BY <1>1, <2>1 DEF ViewsTypeOK, ViewRec
  <2>. QED BY <1>1, <2>2, <2>3, HalfStep
<1>. QED BY <1>2, <1>3

LEMMA ListInstalledStep == ASSUME ViewsInv, ListInstalled PROVE ViewsInv'
<1>1. /\ ViewsTypeOK /\ view.what = "available" /\ view.stage = "asked"
      /\ view' = [view EXCEPT !.stage = "half", !.known = Installed]
      /\ UNCHANGED <<present, facts, was, stayed>>
  BY DEF ListInstalled, ViewsInv
<1>2. Installed \in KnownOf /\ KnownHolds(Installed, Subject)
  BY <1>1, SubjectsAre DEF Installed
<1>3. view.rows \in Seq(ViewRow) /\ view' = [view EXCEPT !.stage = "half", !.rows = view.rows, !.known = Installed]
  BY <1>1 DEF ViewsTypeOK, ViewRec
<1>. QED BY <1>1, <1>2, <1>3, HalfStep

LEMMA ResolveStep == ASSUME ViewsInv, Resolve PROVE ViewsInv'
<1>. DEFINE rows == view.rows
            wanted == Wanted(rows)
            known == SubjectsFor(wanted)
<1>1. /\ ViewsTypeOK /\ RowsHold(rows) /\ rows \in Seq(ViewRow)
      /\ view' = [view EXCEPT !.stage = "answered", !.shown = Join(rows, known)]
      /\ present' = present /\ facts' = facts /\ was' = was /\ stayed' = stayed
  BY DEF Resolve, ViewsInv, ViewsTypeOK, ViewRec
<1>2. wanted = {SubjectOf[rows[i].entry] : i \in DOMAIN rows} \ {NoSubject}
  BY DEF Wanted
<1>3. \A i \in DOMAIN rows : rows[i].entry \in Entry
  <2>. HIDE DEF rows
  <2>1. \A i \in DOMAIN rows : rows[i] \in ViewRow
    BY <1>1
  <2>. QED BY <2>1 DEF ViewRow
<1>4. wanted \in SUBSET Subject
  BY <1>2, <1>3 DEF Subject
<1>. HIDE DEF wanted, rows
<1>5. known \in KnownOf /\ KnownHolds(known, {SubjectOf[rows[i].entry] : i \in DOMAIN rows} \ {NoSubject})
  BY <1>1, <1>2, <1>4, SubjectsAre
<1>. HIDE DEF known
<1>. QED BY <1>1, <1>5, JoinHolds

LEMMA AvailableStep == ASSUME ViewsInv, Available PROVE ViewsInv'
<1>. DEFINE rows == ListEntries
            known == view.known
            T == {SubjectOf[rows[i].entry] : i \in DOMAIN rows} \ {NoSubject}
<1>1. /\ ViewsTypeOK /\ KnownHolds(known, Subject) /\ known \in KnownOf /\ view.what = "available"
      /\ view' = [view EXCEPT !.stage = "answered", !.shown = Join(rows, known)]
      /\ present' = present /\ facts' = facts /\ was' = was /\ stayed' = stayed
  BY DEF Available, ViewsInv, ViewsTypeOK, ViewRec
<1>2. rows \in Seq(ViewRow) /\ RowsHold(rows)
  BY <1>1, ListEntriesHolds
<1>. HIDE DEF rows, known
<1>3. T \subseteq Subject
  <2>1. \A i \in DOMAIN rows : rows[i] \in ViewRow
    BY <1>2
  <2>. QED BY <2>1 DEF ViewRow, Subject
<1>4. KnownHolds(known, T)
  BY <1>1, <1>3 DEF KnownHolds
<1>. QED BY <1>1, <1>2, <1>4, JoinHolds

LEMMA AlterEntryStep ==
    ASSUME ViewsInv, NEW e \in Entry, NEW state \in AnyState, AlterEntry(e, state)
    PROVE  ViewsInv'
<1>1. /\ ViewsTypeOK /\ view.stage # "answered" /\ view' = view /\ facts' = facts /\ was' = was
      /\ present' = [present EXCEPT ![e] = state] /\ stayed' = stayed \ {e}
  BY DEF AlterEntry, ViewsInv
<1>2. /\ present' \in [Entry -> AnyState] /\ stayed' \subseteq stayed
      /\ \A x \in stayed' : x \in stayed /\ present'[x] = present[x]
  BY <1>1 DEF ViewsTypeOK
<1>3. ViewsTypeOK'
  BY <1>1, <1>2 DEF ViewsTypeOK
<1>4. view.stage = "half" => IF view.what = "available" THEN KnownHolds(view.known, Subject)'
                             ELSE RowsHold(view.rows)'
  BY <1>1, <1>2 DEF ViewsInv, KnownHolds, RowsHold
<1>. QED BY <1>1, <1>3, <1>4 DEF ViewsInv, RowsCarryTheirOwn

LEMMA AlterFactStep ==
    ASSUME ViewsInv, NEW s \in Subject, NEW fact \in Facts, AlterFact(s, fact)
    PROVE  ViewsInv'
<1>1. /\ ViewsTypeOK /\ view.stage # "answered" /\ view' = view /\ present' = present /\ stayed' = stayed
      /\ facts' = [facts EXCEPT ![s] = fact] /\ was' = [was EXCEPT ![s] = @ \cup {fact}]
  BY DEF AlterFact, ViewsInv
<1>2. /\ facts' \in [Subject -> Facts] /\ was' \in [Subject -> SUBSET Facts]
      /\ \A x \in Subject : facts'[x] \in was'[x] /\ was[x] \subseteq was'[x]
  BY <1>1 DEF ViewsTypeOK
<1>3. ViewsTypeOK'
  BY <1>1, <1>2 DEF ViewsTypeOK
<1>4. view.stage = "half" => IF view.what = "available" THEN KnownHolds(view.known, Subject)'
                             ELSE RowsHold(view.rows)'
  <2>1. KnownHolds(view.known, Subject) => KnownHolds(view.known, Subject)'
    BY <1>1, <1>2 DEF KnownHolds
  <2>2. RowsHold(view.rows) => RowsHold(view.rows)'
    BY <1>1 DEF RowsHold
  <2>. QED BY <1>1, <2>1, <2>2 DEF ViewsInv
<1>. QED BY <1>1, <1>3, <1>4 DEF ViewsInv, RowsCarryTheirOwn

LEMMA ViewsStep == ASSUME ViewsInv, [ViewsNext]_viewVars PROVE ViewsInv'
<1>1. CASE UNCHANGED viewVars
  BY <1>1 DEF viewVars, ViewsInv, ViewsTypeOK, KnownHolds, RowsHold, RowsCarryTheirOwn
<1>2. \A state \in {Absent} \cup States : state \in AnyState
  BY DEF States, AnyState
<1>3. CASE ViewsNext
  BY <1>2, <1>3, ListSummariesStep, SummaryStep, ResolveStep, ListInstalledStep, AvailableStep,
     AlterEntryStep, AlterFactStep DEF ViewsNext, Facts
<1>. QED BY <1>1, <1>3

-----------------------------------------------------------------------------
\* All of it together (Api).

\* The front keeps what it has written until another batch comes, and takes one.
LEMMA FrontLogStep ==
    ASSUME SpansAreTheServers, [DoorNext \/ LogNext]_frontVars
    PROVE  SpansAreTheServers'
<1>1. CASE LogNext
  <2>1. PICK batch \in Batch, user \in User \cup {NoUser}, header \in BOOLEAN, enabled \in BOOLEAN,
             encoding \in {"json", "protobuf", "malformed", "other"} :
             TelemetryRequest([safe |-> FALSE, header |-> header, enabled |-> enabled,
                               encoding |-> encoding, batch |-> batch], user)
    BY <1>1 DEF LogNext
  <2>. DEFINE r == [safe |-> FALSE, header |-> header, enabled |-> enabled, encoding |-> encoding, batch |-> batch]
  <2>2. r.batch = batch /\ TelemetryRequest(r, user)
    BY <2>1
  <2>. HIDE DEF r
  <2>. QED BY <2>2, LogStep
<1>2. CASE UNCHANGED log
  BY <1>2 DEF log, SpansAreTheServers
<1>3. DoorNext => UNCHANGED log
  BY DEF DoorNext, SignInRequest, Tick
<1>. QED BY <1>1, <1>2, <1>3 DEF frontVars

\* What holds of each of the parts, which share no state.
ApiInv ==
    /\ ReadingInv /\ ArchiveInv /\ ViewsInv
    /\ CatalogInv /\ DoorInv /\ ShellInv
    /\ SpansAreTheServers /\ JournalInv /\ MetricsInv

LEMMA ApiBegins == ApiInit => ApiInv
<1>. SUFFICES ASSUME ApiInit PROVE ApiInv
  OBVIOUS
<1>1. /\ ReadingInit \/ (task \in Others /\ ReadingIdle)
      /\ FrontInit /\ ArchiveInit /\ ShellInit /\ JournalInit /\ ViewsInit /\ CatalogInit /\ MetricsInit
  BY DEF ApiInit
<1>2. ReadingInv
  BY <1>1, ReadingBegins
<1>3. ArchiveInv /\ ViewsInv /\ CatalogInv
  BY <1>1, ArchiveBegins, ViewsBegins, CatalogInitInv
<1>4. DoorInv /\ ShellInv /\ SpansAreTheServers
  BY <1>1, DoorInit, ShellInitInv, LogBegins
<1>5. JournalInv /\ MetricsInv
  BY <1>1, JournalBegins, MetricsBegins
<1>. QED BY <1>2, <1>3, <1>4, <1>5 DEF ApiInv

LEMMA ApiStep == ASSUME ApiInv, [ApiNext]_ApiVars PROVE ApiInv'
<1>1. /\ [ReadingNext]_readingVars /\ [ArchiveNext]_archiveVars /\ [ShellNext]_shellVars
      /\ [DoorNext \/ LogNext]_frontVars
  BY DEF ApiNext, ApiVars
<1>2. /\ [ViewsNext]_viewVars /\ [CatalogNext]_catalogVars
      /\ [JournalNext]_journalVars /\ [MetricsNext]_metricsVars
  BY DEF ApiNext, ApiVars, served, logs
<1>3. /\ ReadingInv /\ ArchiveInv /\ ViewsInv /\ CatalogInv /\ DoorInv /\ ShellInv
      /\ SpansAreTheServers /\ JournalInv /\ MetricsInv
  BY DEF ApiInv
<1>4. ReadingInv' /\ ArchiveInv' /\ ViewsInv'
  BY <1>1, <1>2, <1>3, ReadingStep, ArchiveStep, ViewsStep
<1>5. CatalogInv' /\ DoorInv' /\ ShellInv'
  BY <1>1, <1>2, <1>3, CatalogStep, DoorInvariant, ShellStep
<1>6. SpansAreTheServers' /\ JournalInv' /\ MetricsInv'
  BY <1>1, <1>2, <1>3, FrontLogStep, JournalStep, MetricsStep
<1>. QED BY <1>4, <1>5, <1>6 DEF ApiInv

\* The invariant of everything a client meets, whichever of its tasks is taken.
THEOREM ApiInvariant == ApiSpec => []ApiInv
BY ApiBegins, ApiStep, PTL DEF ApiSpec

\* The rows of a list that stay as they are while it is read page by page come in order, none twice, and
\* none is left out when the reader is told of no more, whatever is added, removed and renumbered around
\* them, as long as the row that a page comes after keeps its place (the keysets of
\* persistence/repository.rs); and a row of a job list, a panel or an index has what was true of its own
\* subject (subjects_for in queue.rs, available in routes/sources.rs), whatever changes between the two
\* reads.  For every set of rows and keys, every size of a page and every number of changes.
THEOREM ListsAreWhole == ApiSpec => []ListIsWhole
<1>1. ApiInv => ListIsWhole
  <2>1. ApiInv => PagesAreWhole
    BY ReadingIsWhole DEF ApiInv
  <2>2. ApiInv => RowsCarryTheirOwn
    BY DEF ApiInv, ViewsInv
  <2>. QED BY <2>1, <2>2 DEF ListIsWhole
<1>. QED BY <1>1, ApiInvariant, PTL

\* A reader of an archive shows the pages in the order of the source's list, in whatever order they were
\* fetched and however many there are: their names sort as text as their numbers do (map_pages in
\* handlers/download.rs, write_cbz in packaging/cbz.rs).  The ranges it is given follow one another without
\* a gap, inside the file, and reach its end (routes/downloads.rs).  For every page list, every base of the
\* digits, every size of a file and every limit on a range.
THEOREM ArchivesAreWhole == ApiSpec => []ArchiveIsWhole
<1>1. ApiInv => ArchiveIsWhole
  <2>1. ApiInv => PagesInOrder
    BY ArchiveIsInOrder DEF ApiInv
  <2>2. ApiInv => RangesFollow
    BY ReadingIsWhole DEF ApiInv
  <2>. QED BY <2>1, <2>2 DEF ArchiveIsWhole
<1>. QED BY <1>1, ApiInvariant, PTL

\* What is written down is the server's: a browser's spans have its user's and the web interface's
\* names and of their own attributes what is allowed (routes/telemetry.rs), no line has a secret in it
\* however it is cut into writes (telemetry.rs), and a window of the metrics has what was recorded
\* while it was open (jobs/metrics.rs).
THEOREM TheLogIsTheServers == ApiSpec => []LogIsTheServers
<1>1. ApiInv => LogIsTheServers
  <2>1. ApiInv => SpansAreTheServers
    BY DEF ApiInv
  <2>2. ApiInv => LinesAreRedacted /\ SummariesAreTrue
    BY JournalIsRedacted, MetricsIsTrue DEF ApiInv
  <2>. QED BY <2>1, <2>2 DEF LogIsTheServers
<1>. QED BY <1>1, ApiInvariant, PTL

\* The limit on sign-in requests, the repair of a failed addition and the web interface across a deploy
\* (LimitIsKept, AddsCanBeRetried and PagesAreOfTheBuild) hold of the whole that is checked, too.
THEOREM TheRestHolds == ApiSpec => [](LimitHolds /\ AddIsARetry /\ UiIsDeployed)
<1>1. ApiInv => LimitHolds
  BY PaceIsLimit DEF ApiInv
<1>2. ApiInv => AddIsARetry
  BY SoundIsRepaired DEF ApiInv
<1>3. ApiInv => UiIsDeployed
  BY DEF ApiInv, ShellInv
<1>. QED BY <1>1, <1>2, <1>3, ApiInvariant, PTL
=============================================================================
