--------------------------------- MODULE Api ---------------------------------
(***************************************************************************)
(* What a client meets: the web interface (Shell), what its requests pass  *)
(* first (Front), a source's catalog (Catalog), the pieces of the library  *)
(* that it reads (Reading) and the answers that are put together (Views),  *)
(* the archive that it opens in the end (Archive), and what is written of  *)
(* all of it (Journal, Metrics).  They share no state, so that they are    *)
(* taken one at a time: the task says which.                               *)
(***************************************************************************)
EXTENDS Reading, Views, Catalog, Front, Archive, Shell, Journal, Metrics

ReadingIdle ==
    /\ dir = "desc" /\ table = [r \in Row |-> Gone] /\ cursor = 0 /\ shown = <<>> /\ kept = {}
    /\ cut = FALSE /\ pieces = <<>> /\ over = TRUE /\ changes = 0
    /\ archive = [version |-> 0, size |-> CHOOSE s \in Size : TRUE]

ViewsIdle ==
    /\ view = Asks("jobs", Anyone)
    /\ present = [e \in Entry |-> Absent] /\ facts = [s \in Subject |-> Absent]

Others == {"sign_in", "telemetry", "package", "browse", "log", "view", "catalog", "slo"}

ApiInit ==
    /\ ReadingInit \/ (task \in Others /\ ReadingIdle)
    /\ task # "package" => listed = <<>>
    /\ task # "browse" => deployed = 1
    /\ task # "view" => ViewsIdle
    /\ FrontInit /\ ArchiveInit /\ ShellInit /\ JournalInit /\ ViewsInit /\ CatalogInit /\ MetricsInit

served == <<viewVars, catalogVars>>
logs   == <<journalVars, metricsVars>>

ApiNext ==
    \/ ReadingNext /\ UNCHANGED <<frontVars, archiveVars, shellVars, served, logs>>
    \/ /\ UNCHANGED readingVars
       /\ \/ task = "sign_in" /\ DoorNext /\ UNCHANGED <<archiveVars, shellVars, served, logs>>
          \/ task = "telemetry" /\ LogNext /\ UNCHANGED <<archiveVars, shellVars, served, logs>>
          \/ task = "package" /\ ArchiveNext /\ UNCHANGED <<frontVars, shellVars, served, logs>>
          \/ task = "browse" /\ ShellNext /\ UNCHANGED <<frontVars, archiveVars, served, logs>>
          \/ task = "view" /\ ViewsNext
             /\ UNCHANGED <<frontVars, archiveVars, shellVars, catalogVars, logs>>
          \/ task = "catalog" /\ CatalogNext
             /\ UNCHANGED <<frontVars, archiveVars, shellVars, viewVars, logs>>
          \/ task = "log" /\ JournalNext
             /\ UNCHANGED <<frontVars, archiveVars, shellVars, served, metricsVars>>
          \/ task = "slo" /\ MetricsNext
             /\ UNCHANGED <<frontVars, archiveVars, shellVars, served, journalVars>>

ApiVars == <<readingVars, frontVars, archiveVars, shellVars, served, logs>>

ApiSpec == ApiInit /\ [][ApiNext]_ApiVars

\* Lists are whole, and their rows are put together rightly.
ListIsWhole == PagesAreWhole /\ RowsCarryTheirOwn

\* An archive has its pages in order, and is read whole, in whatever pieces.
ArchiveIsWhole == PagesInOrder /\ RangesFollow

\* The log holds what the server vouches for: of a browser's spans what is allowed, under the names the
\* server knows, of no line what its fields' names call secret, and of the objectives what was recorded.
LogIsTheServers == SpansAreTheServers /\ LinesAreRedacted /\ SummariesAreTrue
=============================================================================
