------------------------------- MODULE Catalog -------------------------------
(***************************************************************************)
(* Browsing a source and adding from it (crates/api/src/routes/catalog.rs, *)
(* the source's side in crates/aidoku-runtime/src/adapter.rs), beside the  *)
(* removal of a series, and how what fails is told (crates/api/src/        *)
(* error.rs) and taken (web/src/main.tsx).                                 *)
(*                                                                         *)
(* Every request is a row of calls, to the source, which may be away or    *)
(* not loaded, and to the database, any of which may fail; others' come    *)
(* in between.                                                             *)
(***************************************************************************)
EXTENDS Integers, Sequences, FiniteSets

CONSTANTS Tab,
          Series,        \* keys of the source's series
          ChaptersOf,    \* series -> the chapters its site lists
          WithDetails,   \* the series whose chapters are given along with the details
          Catalogue,     \* the pages of the source's list
          MaxRows,       \* rows that one statement can carry: its 65535 values, 11 to a chapter
          MaxRequests,   \* bound: requests
          MaxFailures      \* bound: failures of the database, and changes of the source

ASSUME CatalogAssumption ==
    /\ ChaptersOf \in [Series -> SUBSET Nat] /\ WithDetails \subseteq Series
    /\ Catalogue \in Seq(Seq(Series))
    /\ {MaxRows, MaxRequests, MaxFailures} \subseteq Nat

NoSeries == 0
Unread   == {-1}
FirstPage == 1

VARIABLES source,    \* "well", "away", or "unloaded"
          library,   \* series -> its row: an id, NoSeries for none, and the chapters stored under it
          request,   \* client -> what it asks for, how far that is, and the answer
          requests, ids, failures,
          marks      \* history: client -> series -> the ids it has had since the client asked

catalogVars == <<source, library, request, requests, ids, failures, marks>>

NoRow    == [id |-> NoSeries, chapters |-> {}]
NoAnswer == [status |-> 0, retry_after |-> 0, cause |-> "none", items |-> <<>>, id |-> NoSeries]
Asking(what, arg) == [what |-> what, arg |-> arg, step |-> "asked", list |-> Unread, items |-> <<>>,
                      id |-> NoSeries, again |-> FALSE, wrote |-> FALSE, answer |-> NoAnswer]
NoRequest == [Asking("nothing", NoSeries) EXCEPT !.step = "idle"]

CatalogInit ==
    /\ source = "well" /\ library = [s \in Series |-> NoRow]
    /\ request = [c \in Tab |-> NoRequest]
    /\ requests = 0 /\ ids = 0 /\ failures = 0
    /\ marks = [c \in Tab |-> [s \in Series |-> {NoSeries}]]

-----------------------------------------------------------------------------
\* From<DomainError> for Problem: an answer is given a time to retry after only if the source may be
\* back by then.
Told(error) ==
    LET status == CASE error = "not_found" -> 404 [] error = "conflict" -> 409 [] error = "invalid" -> 400
                    [] error \in {"source", "unloaded"} -> 502 [] error = "capability" -> 501
                    [] error = "no_space" -> 507 [] error \in {"storage", "internal"} -> 500
    IN  [NoAnswer EXCEPT !.status = status, !.cause = error,
                         !.retry_after = IF error = "source" THEN 60 ELSE 0]

Reply(c, answer) ==
    request' = [request EXCEPT ![c].step = "answered", ![c].answer = answer]

Fails(c, error) == Reply(c, Told(error)) /\ UNCHANGED <<library, ids>>

Done(c) == Reply(c, [NoAnswer EXCEPT !.status = 200, !.items = request[c].items, !.id = request[c].id])

\* A call to the database, that may fail.
DbFails(c) == failures < MaxFailures /\ failures' = failures + 1 /\ Fails(c, "storage")

\* A call to the source: get, run and map_run_error.
SourceError == IF source = "unloaded" THEN "unloaded" ELSE "source"

At(c, what, step) == request[c].what = what /\ request[c].step = step

-----------------------------------------------------------------------------
Ask(c, what, arg) ==
    /\ request[c].step = "idle" /\ requests < MaxRequests
    /\ requests' = requests + 1
    /\ request' = [request EXCEPT ![c] = Asking(what, arg)]
    /\ marks' = [marks EXCEPT ![c] = [s \in Series |-> {library[s].id}]]
    /\ UNCHANGED <<source, library, ids, failures>>

\* browse: SourceCatalog::list, of the page that the cursor says; a cursor that is no number, and
\* filters that are none, are the client's.
PageOf(page) == IF page \in DOMAIN Catalogue THEN Catalogue[page] ELSE <<>>

Browse(c) ==
    /\ At(c, "browse", "asked")
    /\ IF request[c].arg < FirstPage THEN Fails(c, "invalid")
       ELSE IF source # "well" THEN Fails(c, SourceError)
       ELSE request' = [request EXCEPT ![c].step = "marking", ![c].list = {}] /\ UNCHANGED <<library, ids>>
    /\ UNCHANGED <<source, requests, failures, marks>>

\* mark_present: find_by_external for one item after another.
MarkPresent(c) ==
    LET todo == PageOf(request[c].arg)
        n    == Len(request[c].items)
    IN
    /\ At(c, "browse", "marking")
    /\ \/ DbFails(c)
       \/ /\ IF n = Len(todo) THEN Done(c)
             ELSE request' = [request EXCEPT ![c].items =
                                 Append(@, [key |-> todo[n + 1], id |-> library[todo[n + 1]].id])]
          /\ UNCHANGED <<library, ids, failures>>
    /\ UNCHANGED <<source, requests, marks>>

\* details, and then whether the series is there; chapters, which are the source's alone.
Details(c) ==
    /\ At(c, "details", "asked")
    /\ IF source # "well" THEN Fails(c, SourceError)
       ELSE request' = [request EXCEPT ![c].step = "finding"] /\ UNCHANGED <<library, ids>>
    /\ UNCHANGED <<source, requests, failures, marks>>

Find(c) ==
    LET s == request[c].arg IN
    /\ At(c, "details", "finding")
    /\ \/ DbFails(c)
       \/ /\ Reply(c, [NoAnswer EXCEPT !.status = 200, !.items = <<[key |-> s, id |-> library[s].id]>>])
          /\ UNCHANGED <<library, ids, failures>>
    /\ UNCHANGED <<source, requests, marks>>

Chapters(c) ==
    /\ At(c, "chapters", "asked")
    /\ IF source # "well" THEN Fails(c, SourceError) ELSE Done(c) /\ UNCHANGED <<library, ids>>
    /\ UNCHANGED <<source, requests, failures, marks>>

-----------------------------------------------------------------------------
\* add: all is read of the source before anything is written.
AddDetails(c) ==
    LET s == request[c].arg IN
    /\ At(c, "add", "asked")
    /\ IF source # "well" THEN Fails(c, SourceError)
       ELSE /\ request' = [request EXCEPT ![c].step = "listing",
                             ![c].list = IF s \in WithDetails THEN ChaptersOf[s] ELSE Unread]
            /\ UNCHANGED <<library, ids>>
    /\ UNCHANGED <<source, requests, failures, marks>>

\* chapter_list: what came with the details, or another call.
BadChapterList(r) == IF r.list # Unread THEN r.list ELSE {}
ChapterList(r)    == IF r.list # Unread THEN r.list ELSE ChaptersOf[r.arg]

AddChapters(c) ==
    /\ At(c, "add", "listing")
    /\ IF request[c].list = Unread /\ source # "well" THEN Fails(c, SourceError)
       ELSE /\ request' = [request EXCEPT ![c].step = "writing", ![c].list = ChapterList(request[c])]
            /\ UNCHANGED <<library, ids>>
    /\ UNCHANGED <<source, requests, failures, marks>>

\* upsert: the row there keeps its id.
Upserted(s) == IF library[s].id = NoSeries THEN [NoRow EXCEPT !.id = ids + 1] ELSE library[s]

AddSeries(c) ==
    LET s == request[c].arg IN
    /\ At(c, "add", "writing")
    /\ \/ DbFails(c) /\ UNCHANGED marks
       \/ /\ library' = [library EXCEPT ![s] = Upserted(s)]
          /\ ids' = IF library[s].id = NoSeries THEN ids + 1 ELSE ids
          /\ request' = [request EXCEPT ![c].step = "storing", ![c].id = Upserted(s).id, ![c].wrote = TRUE]
          /\ marks' = [d \in Tab |-> [marks[d] EXCEPT ![s] = @ \cup {Upserted(s).id}]]
          /\ UNCHANGED failures
    /\ UNCHANGED <<source, requests>>

\* upsert_many: one statement, under a row that may have been removed.
AddStored(c) ==
    LET r == request[c] IN
    /\ At(c, "add", "storing")
    /\ \/ DbFails(c)
       \/ /\ IF r.list # {} /\ (library[r.arg].id # r.id \/ Cardinality(r.list) > MaxRows)
             THEN Fails(c, "storage")
             ELSE /\ request' = [request EXCEPT ![c].step = "reading"]
                  /\ library' = IF r.list = {} THEN library ELSE [library EXCEPT ![r.arg].chapters = @ \cup r.list]
                  /\ UNCHANGED ids
          /\ UNCHANGED failures
    /\ UNCHANGED <<source, requests, marks>>

AddAnswered(c) ==
    LET r == request[c] IN
    /\ At(c, "add", "reading")
    /\ \/ DbFails(c)
       \/ /\ IF library[r.arg].id # r.id THEN Fails(c, "not_found") ELSE Done(c) /\ UNCHANGED <<library, ids>>
          /\ UNCHANGED failures
    /\ UNCHANGED <<source, requests, marks>>

\* remove, without the files.
RemoveSeries(c) ==
    LET s == request[c].arg IN
    /\ At(c, "remove", "asked")
    /\ \/ DbFails(c) /\ UNCHANGED marks
       \/ /\ IF library[s].id = NoSeries THEN Fails(c, "not_found") /\ UNCHANGED marks
             ELSE /\ library' = [library EXCEPT ![s] = NoRow]
                  /\ Done(c)
                  /\ marks' = [d \in Tab |-> [marks[d] EXCEPT ![s] = @ \cup {NoSeries}]]
                  /\ UNCHANGED ids
          /\ UNCHANGED failures
    /\ UNCHANGED <<source, requests>>

-----------------------------------------------------------------------------
\* A query is made again, once, unless the problem is the request's own; what changes something is not.
Queries == {"browse", "details", "chapters"}

AsksAgain(r) ==
    r.what \in Queries /\ ~r.again /\ r.answer.status >= 500

TakeAnswer(c) ==
    /\ request[c].step = "answered"
    /\ request' = [request EXCEPT ![c] = IF AsksAgain(@) THEN [Asking(@.what, @.arg) EXCEPT !.again = TRUE]
                                         ELSE NoRequest]
    /\ marks' = [marks EXCEPT ![c] = [s \in Series |-> {library[s].id}]]
    /\ UNCHANGED <<source, library, requests, ids, failures>>

\* The site is away for a while; the module is not in memory, or installed again.
SourceChanges(state) ==
    /\ state # source /\ failures < MaxFailures
    /\ source' = state /\ failures' = failures + 1
    /\ UNCHANGED <<library, request, requests, ids, marks>>

CatalogNext ==
    \/ \E c \in Tab :
          \/ \E page \in 0..(Len(Catalogue) + 1) : Ask(c, "browse", page)
          \/ \E what \in {"details", "chapters", "add", "remove"}, s \in Series : Ask(c, what, s)
          \/ Browse(c) \/ MarkPresent(c) \/ Details(c) \/ Find(c) \/ Chapters(c)
          \/ AddDetails(c) \/ AddChapters(c) \/ AddSeries(c) \/ AddStored(c) \/ AddAnswered(c)
          \/ RemoveSeries(c) \/ TakeAnswer(c)
    \/ \E state \in {"well", "away", "unloaded"} : SourceChanges(state)

CatalogSpec == CatalogInit /\ [][CatalogNext]_catalogVars

-----------------------------------------------------------------------------
\* "A failure here leaves nothing behind and Add stays a retry" (add): what failed at the source has
\* written nothing; what was answered as added was there, and is there with every chapter that was
\* listed unless it has been removed since; an item is marked with a row that it had while it was asked
\* for; and a client is told to come back only where that could help.
AddIsARetry ==
    \A c \in Tab :
        LET r == request[c] IN
        r.step = "answered" =>
            /\ r.answer.cause \in {"source", "unloaded"} => ~r.wrote
            /\ r.what = "add" /\ r.answer.status = 200 =>
                  /\ r.answer.id \in marks[c][r.arg] \ {NoSeries}
                  /\ library[r.arg].id = r.answer.id => ChaptersOf[r.arg] \subseteq library[r.arg].chapters
            /\ \A i \in DOMAIN r.answer.items :
                  r.answer.items[i].id \in marks[c][r.answer.items[i].key]
            /\ r.answer.retry_after > 0 <=> r.answer.cause = "source"
=============================================================================
