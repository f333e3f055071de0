------------------------------- MODULE Reading -------------------------------
(***************************************************************************)
(* What is given out in pieces, while what it is read from changes: the    *)
(* pages of the library, of a series' chapters and of the follows, and of  *)
(* the series that a reconciling pass goes through (crates/persistence/    *)
(* src/repository.rs), and the ranges of an archive (crates/api/src/       *)
(* routes/downloads.rs).                                                   *)
(*                                                                         *)
(* A reader does one of these, its task: it asks for the first piece, and  *)
(* then for the one after the last it was given, until it is told of no    *)
(* more.                                                                   *)
(***************************************************************************)
EXTENDS Integers, Sequences, FiniteSets, SequencesExt, Ordering

CONSTANTS Row,          \* ids of rows, which order them where their keys do not
          Key,          \* what rows are sorted by
          PageSize,     \* PAGE_SIZE
          Size,         \* sizes an archive can have
          MaxRange,     \* MAX_RANGE_BYTES
          MaxChanges    \* bound: changes beside the reader

Null == -1
Gone == -2

ASSUME ReadingAssumption ==
    /\ Row \subseteq Nat \ {0} /\ IsFiniteSet(Row) /\ Key \subseteq Nat
    /\ PageSize \in Nat \ {0} /\ MaxRange \in Nat \ {0} /\ Size \subseteq Nat /\ Size # {}
    /\ MaxChanges \in Nat

VARIABLES task,     \* what is read; see Tasks
          dir,      \* the direction the library is sorted in
          table,    \* row -> its key; Null for a chapter without a number, Gone for no row
          cursor,   \* the row the next page comes after; 0 before the first page
          shown,    \* the rows that were given, in order
          archive,  \* the archive on the volume: its version and its size
          pieces,   \* the pieces that were given, in order
          over,     \* the reader was told that there is no more
          kept,     \* history: the rows that have been as they are since the reader began
          cut,      \* history: a row that a page came after had gone, moved or no number
          changes

asked == <<task, dir>>
list  == <<table, cursor, shown, kept, cut>>
file  == <<archive, pieces>>
readingVars  == <<asked, list, file, over, changes>>

-----------------------------------------------------------------------------
Lists == {"library", "chapters", "follows", "reconcile"}
Tasks == Lists \cup {"archive"}

\* created_at, which a row keeps; the library is sorted by what may change.
Dated == {"follows", "reconcile"}

ReadingTypeOK ==
    /\ dir \in {"asc", "desc"}
    /\ table \in [Row -> Key \cup {Null, Gone}]
    /\ task # "chapters" => \A r \in Row : table[r] # Null
    /\ cursor \in Row \cup {0}
    /\ \A i \in DOMAIN shown : shown[i] \in Row
    /\ archive \in [version : 0..MaxChanges, size : Size]
    /\ \A i \in DOMAIN pieces : pieces[i] \in [first : Nat, last : Nat, of : 0..MaxChanges, size : Size]
    /\ over \in BOOLEAN /\ cut \in BOOLEAN
    /\ kept \subseteq Row
    /\ changes \in 0..MaxChanges

\* LibraryQuery: newest first, or as it is asked for.
Directions(what) == IF what = "library" THEN {"asc", "desc"} ELSE {"desc"}

ReadingInit ==
    /\ task \in Tasks
    /\ dir \in Directions(task)
    /\ table \in [Row -> Key \cup {Gone} \cup (IF task = "chapters" THEN {Null} ELSE {})]
    /\ task = "archive" => \A r \in Row : table[r] = Gone
    /\ archive \in [version : {0}, size : Size]
    /\ task # "archive" => \A s \in Size : archive.size <= s
    /\ cursor = 0 /\ shown = <<>> /\ cut = FALSE
    /\ kept = {r \in Row : table[r] # Gone}
    /\ pieces = <<>> /\ over = FALSE /\ changes = 0

-----------------------------------------------------------------------------
\* ORDER BY created_at DESC, id DESC, and ORDER BY number DESC NULLS LAST, id DESC.
Descending(a, b) == table[a] > table[b] \/ (table[a] = table[b] /\ a > b)

\* The library's order: the id in the direction of the column.
Above(a, b) == IF dir = "asc" THEN Descending(b, a) ELSE Descending(a, b)

\* (number, id) < (SELECT COALESCE(number, 0), id ...): a chapter without a number compares with
\* nothing.
CursorKey == IF table[cursor] = Null THEN 0 ELSE table[cursor]

Beyond(r) ==
    table[r] # Null /\ (table[r] < CursorKey \/ (table[r] = CursorKey /\ r < cursor))

\* The key of the cursor is looked up: nothing comes after a row that has gone.
BadAfterCursor(r) ==
    cursor = 0 \/ (table[cursor] # Gone /\ table[r] # Null /\ table[r] < CursorKey)

AfterCursor(r) ==
    cursor = 0 \/ (table[cursor] # Gone /\ IF task = "chapters" THEN Beyond(r) ELSE Above(cursor, r))

\* One row more than a page is read, to tell whether there is a next one.
Matching == Ordered({r \in Row : table[r] # Gone /\ AfterCursor(r)}, Above)

Items == SubSeq(Matching, 1, IF Len(Matching) < PageSize THEN Len(Matching) ELSE PageSize)

ReadPage ==
    /\ task \in Lists /\ ~over
    /\ shown' = shown \o Items
    /\ over' = (Len(Matching) <= PageSize)
    /\ cursor' = IF over' THEN cursor ELSE Items[PageSize]
    /\ cut' = (cut \/ (cursor' # 0 /\ table[cursor'] = Null))
    /\ UNCHANGED <<asked, table, kept, file, changes>>

\* A row is added, removed, or gets another key: a series is updated, a chapter numbered anew.  What
\* is sorted by its date is added as the newest, once.
Change(r, key) ==
    /\ task \in Lists /\ ~over
    /\ changes < MaxChanges
    /\ changes' = changes + 1
    /\ key # table[r] /\ (key = Null => task = "chapters")
    /\ task \in Dated => key = Gone \/ (r \notin ToSet(shown) /\ \A q \in Row : table[q] <= key)
    /\ table' = [table EXCEPT ![r] = key]
    /\ kept' = kept \ {r}
    /\ cut' = (cut \/ r = cursor)
    /\ UNCHANGED <<asked, cursor, shown, file, over>>

-----------------------------------------------------------------------------
\* parse_range: "bytes=a-b", "bytes=a-" and "bytes=-n"; the positions are inclusive.
Asked(size, spec) ==
    CASE spec.kind = "span" -> <<spec.a, IF spec.b < size - 1 THEN spec.b ELSE size - 1>>
      [] spec.kind = "from" -> <<spec.a, size - 1>>
      [] spec.kind = "last" -> <<IF spec.a < size THEN size - spec.a ELSE 0, size - 1>>

Satisfiable(size, spec) ==
    /\ size > 0
    /\ ~(spec.kind = "last" /\ spec.a = 0)
    /\ Asked(size, spec)[1] <= Asked(size, spec)[2] /\ Asked(size, spec)[1] < size

\* No more than MAX_RANGE_BYTES at once.
BadClamped(range) ==
    <<range[1], IF range[2] < range[1] + MaxRange THEN range[2] ELSE range[1] + MaxRange>>

Clamped(range) ==
    <<range[1], IF range[2] < range[1] + MaxRange - 1 THEN range[2] ELSE range[1] + MaxRange - 1>>

NextByte == IF pieces = <<>> THEN 0 ELSE pieces[Len(pieces)].last + 1

\* What asks for the rest; at the start, a tail as long as the file does too.
Continuing ==
    {[kind |-> "from", a |-> NextByte]}
    \cup {[kind |-> "span", a |-> NextByte, b |-> b] : b \in NextByte..(NextByte + MaxRange)}
    \cup {[kind |-> "last", a |-> n] : n \in {n \in Size : NextByte = 0 /\ n >= archive.size}}

\* file, asked for the range after the last one: what it answers with is read from one opening.
ReadRange ==
    /\ task = "archive" /\ ~over
    /\ \E spec \in Continuing :
          /\ IF ~Satisfiable(archive.size, spec)
             THEN over' = TRUE /\ pieces' = pieces
             ELSE LET range == Clamped(Asked(archive.size, spec)) IN
                  /\ pieces' = Append(pieces, [first |-> range[1], last |-> range[2],
                                               of |-> archive.version, size |-> archive.size])
                  /\ over' = (range[2] = archive.size - 1)
    /\ UNCHANGED <<asked, list, archive, changes>>

\* The chapter is downloaded again, and its archive replaced.
ReplaceArchive ==
    /\ task = "archive" /\ ~over
    /\ changes < MaxChanges
    /\ changes' = changes + 1
    /\ \E s \in Size : archive' = [version |-> archive.version + 1, size |-> s]
    /\ UNCHANGED <<asked, list, pieces, over>>

ReadingNext ==
    \/ ReadPage
    \/ \E r \in Row, key \in Key \cup {Null, Gone} : Change(r, key)
    \/ ReadRange \/ ReplaceArchive

-----------------------------------------------------------------------------
\* A list is read whole: rows that stay as they are come in order, none twice, and, when the reader is
\* told that there is no more, none is left out, whatever is added, removed and moved around them
\* ("stable under inserts, unlike an offset", list_chapters; "a total order", list_manga_summaries).
\* What the code does not see to is left out: chapters without a number past the first page, and a
\* cursor's row that is removed or moved, or is such a chapter.
PagesAreWhole ==
    ~cut =>
        LET whole == {r \in kept : table[r] # Null} IN
        /\ \A i, j \in DOMAIN shown : i < j /\ {shown[i], shown[j]} \subseteq whole =>
              Above(shown[i], shown[j])
        /\ over => whole \subseteq ToSet(shown)

\* An archive is read whole: its ranges follow each other without a gap, inside the file, none larger
\* than the server gives at once, and reach its end.
RangesFollow ==
    /\ ReadingTypeOK
    /\ \A i \in DOMAIN pieces :
          /\ pieces[i].first = IF i = 1 THEN 0 ELSE pieces[i - 1].last + 1
          /\ pieces[i].last \in pieces[i].first .. (pieces[i].first + MaxRange - 1)
          /\ pieces[i].last < pieces[i].size
    /\ over /\ pieces # <<>> /\ changes = 0 => pieces[Len(pieces)].last = archive.size - 1
=============================================================================
