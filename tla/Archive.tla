------------------------------- MODULE Archive -------------------------------
(***************************************************************************)
(* How a chapter becomes an archive that a reader opens: the source's list *)
(* of pages (crates/aidoku-runtime/src/adapter.rs, pages), the fetches     *)
(* that end in any order (crates/jobs/src/handlers/download.rs) and the    *)
(* archive that is written of them (crates/packaging/src/adapter.rs,       *)
(* store.rs, cbz.rs, comicinfo.rs).  A reader shows the images of an       *)
(* archive in the order of their names.                                    *)
(***************************************************************************)
EXTENDS Integers, Sequences, FiniteSets, SequencesExt, Ordering

CONSTANTS PageList,         \* what a source lists: sequences of [content, image, bytes]
          PagesAtOnce,      \* DownloadConfig.page_concurrency
          MaxPages,         \* DownloadConfig.max_pages
          MaxBytes,         \* DownloadConfig.max_chapter_bytes
          Base,             \* of the numbers in names: ten, in the program
          MinWidth          \* their least width: three, in the program

ASSUME ArchiveAssumption ==
    /\ PageList \subseteq Seq([content : {"url", "text", "zip", "image"},
                             image : {"avif", "gif", "jpg", "png", "webp", "unknown"}, bytes : Nat])
    /\ Base \in Nat \ {0, 1} /\ MinWidth \in Nat

VARIABLES listed,   \* what the source lists
          refs,     \* the pages to fetch: their indices, in order
          fetched,  \* those that were fetched, in the order in which they came
          chapter,  \* "listing", "fetching", "refused", "failed" or "placed"
          images,  \* the images of the archive, in the order in which they were written: name and page
          info      \* what ComicInfo.xml says

archiveVars == <<listed, refs, fetched, chapter, images, info>>

-----------------------------------------------------------------------------
\* A page that is an image in the source's memory is dropped; the others keep their place as index.
MapPages(list) == Ordered({i \in DOMAIN list : list[i].content # "image"}, <)

\* Only pages with a URL are packaged, and not too many of them.
IsPackaged(list, indices) ==
    /\ Len(indices) <= MaxPages
    /\ \A k \in DOMAIN indices : list[indices[k]].content = "url"

List ==
    /\ chapter = "listing"
    /\ refs' = MapPages(listed)
    /\ chapter' = IF IsPackaged(listed, refs') /\ refs' # <<>> THEN "fetching" ELSE "refused"
    /\ UNCHANGED <<listed, fetched, images, info>>

Bytes(indices) == FoldLeft(LAMBDA sum, i : sum + listed[i].bytes, 0, indices)

\* Some fetches run at once, and end in any order.
InFlight == {refs[k] : k \in {k \in DOMAIN refs : k <= Len(fetched) + PagesAtOnce}} \ ToSet(fetched)

FetchPage(page) ==
    /\ chapter = "fetching" /\ page \in InFlight
    /\ fetched' = Append(fetched, page)
    /\ chapter' = IF Bytes(fetched') > MaxBytes THEN "failed" ELSE chapter
    /\ UNCHANGED <<listed, refs, images, info>>

FetchFails ==
    /\ chapter = "fetching" /\ InFlight # {}
    /\ chapter' = "failed"
    /\ UNCHANGED <<listed, refs, fetched, images, info>>

-----------------------------------------------------------------------------
Power[k \in Nat] == IF k = 0 THEN 1 ELSE Base * Power[k - 1]

Digits(n) == CHOOSE d \in 1..(n + 1) : n < Power[d] /\ (d > 1 => n >= Power[d - 1])

\* Wide enough for the last page.
BadPageNumberWidth(count) == MinWidth

PageNumberWidth(count) == IF Digits(count) > MinWidth THEN Digits(count) ELSE MinWidth

\* A number that is wider than its width is not cut.
Padded(n, width) ==
    LET length == IF Digits(n) > width THEN Digits(n) ELSE width IN
    [k \in 1..length |-> (n \div Power[length - k]) % Base]

\* By what the bytes are, and where they tell nothing by what the URL ends in, which alone tells avif.
ExtensionFor(page) ==
    IF listed[page].image = "unknown" THEN "jpg" ELSE listed[page].image

\* What a name sorts by: its number, the point, which is less than a digit, and the extension.
Rank == [avif |-> Base, gif |-> Base + 1, jpg |-> Base + 2, png |-> Base + 3, webp |-> Base + 4]

PageName(number, width, page) == Padded(number, width) \o <<-1, Rank[ExtensionFor(page)]>>

\* sort_by_key, by the index.
Sorted == Ordered(ToSet(fetched), <)

WriteCbz(pages) ==
    [k \in DOMAIN pages |->
        [name |-> PageName(k, PageNumberWidth(Len(pages)), pages[k]), page |-> pages[k]]]

\* In halves; a volume that is not whole is left out, since the schema has it as an integer.
Elements(number, volume, count) ==
    [series |-> TRUE, number |-> number, volume |-> IF volume % 2 = 0 THEN volume ELSE -1, pageCount |-> count]

WriteChapter ==
    /\ chapter = "fetching" /\ Len(fetched) = Len(refs)
    /\ images' = WriteCbz(Sorted)
    /\ \E volume \in {2, 3} : info' = Elements(2, volume, Len(fetched))
    /\ chapter' = "placed"
    /\ UNCHANGED <<listed, refs, fetched>>

-----------------------------------------------------------------------------
ArchiveInit ==
    /\ listed \in PageList
    /\ refs = <<>> /\ fetched = <<>> /\ images = <<>> /\ chapter = "listing"
    /\ info = [series |-> FALSE, number |-> -1, volume |-> -1, pageCount |-> 0]

ArchiveNext ==
    \/ List
    \/ \E page \in ToSet(refs) : FetchPage(page)
    \/ FetchFails
    \/ WriteChapter

-----------------------------------------------------------------------------
\* a comes before b: they differ first where a is less, or a is the beginning of b.
Before(a, b) ==
    \/ \E i \in DOMAIN a \cap DOMAIN b :
          a[i] < b[i] /\ \A j \in 1..(i - 1) : a[j] = b[j]
    \/ Len(a) < Len(b) /\ \A i \in DOMAIN a : a[i] = b[i]

\* A reader that opens the archive shows every page that the source listed, in the order in which it
\* listed them, in whatever order they were fetched, and is told how many there are.  Pages that are an
\* image in the source's memory are the exception: a source that makes them is refused at install.
PagesInOrder ==
    chapter = "placed" =>
        LET shownInOrder == Ordered(DOMAIN images, LAMBDA k, l : Before(images[k].name, images[l].name))
        IN  /\ [k \in DOMAIN shownInOrder |-> images[shownInOrder[k]].page] = MapPages(listed)
            /\ \A k, l \in DOMAIN images : k # l => images[k].name # images[l].name
            /\ info.pageCount = Len(images)
            /\ (\A i \in DOMAIN listed : listed[i].content # "image") => Len(images) = Len(listed)
=============================================================================
