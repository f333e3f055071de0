------------------------------ MODULE Registry ------------------------------
(***************************************************************************)
(* The source registry: packages installed from the indexes of             *)
(* repositories (crates/aidoku-runtime/src/registry.rs and adapter.rs,     *)
(* crates/packaging/src/packages.rs, crates/api/src/routes/sources.rs).    *)
(* How an index gets here is in SourceIndex; here it may change to any     *)
(* newer version at any time.                                              *)
(*                                                                         *)
(* A source is at home in four places that no transaction spans: its row,  *)
(* its package on disk, its module in memory and its settings.  Installs   *)
(* and uninstalls are requests that walk through them one by one; any      *)
(* number may be under way for the same source.                            *)
(***************************************************************************)
EXTENDS Integers, FiniteSets, Package

CONSTANTS Repo, Source,
          RepoOf,       \* the repository whose index lists a source
          Request,      \* requests under way at once
          None,
          MaxVersion,   \* bound: versions a source publishes
          Contents,     \* version -> what its package holds
          MaxIds,       \* bound: rows a source gets
          MaxFaults     \* bound: failing calls and restarts

ASSUME RegistryAssumption ==
    /\ RepoOf \in [Source -> Repo]
    /\ None \notin Source \cup Repo
    /\ MaxVersion \in Nat \ {0} /\ MaxIds \in Nat /\ MaxFaults \in Nat
    /\ WithJs \in BOOLEAN

VARIABLES repos,       \* the repositories that are not deleted
          entry,       \* source -> the version in the stored index
          row,         \* source -> the id and the version of its row
          ids,         \* source -> the ids its rows have had
          package,     \* source and id -> its .aix
          partial,     \* source and id -> its .aix.partial
          loaded,      \* source and id -> the version of its module, 0 for none
          setting,     \* source -> one setting of its row
          request,
          settled,     \* history: how the last request about a source ended, if it was alone
          faults

index == <<repos, entry>>
homes == <<row, ids, package, partial, loaded, setting>>
vars == <<repos, entry, row, ids, package, partial, loaded, setting,
          request, settled, faults>>

-----------------------------------------------------------------------------
Version == 0..MaxVersion
Id      == 0..MaxIds
Key     == Source \X (1..MaxIds)

\* The versions that can be run here.
Runnable == {v \in 1..MaxVersion : Loads(Contents[v])}

NoRow == [id |-> 0, version |-> 0]
Torn  == MaxVersion + 1      \* a file that is written in part
File  == 0..Torn             \* 0: there is none

(***************************************************************************)
(* An install: fetched, opening, filling, renaming, checking, seeding,     *)
(* registering.  An uninstall: unloading, unpacking, deleting.  file is    *)
(* what the handle of the partial file has become: the file keeps its data *)
(* when it is renamed, replaced or removed under the writer.               *)
(***************************************************************************)
Pc == {"idle", "fetched", "opening", "filling", "renaming", "checking", "seeding", "registering",
       "unloading", "unpacking", "deleting"}

Idle == [pc |-> "idle", source |-> None, id |-> 0, version |-> 0, file |-> "none", alone |-> FALSE]

TypeOK ==
    /\ repos \subseteq Repo
    /\ entry \in [Source -> Version]
    /\ row \in [Source -> [id : Id, version : Version]]
    /\ ids \in [Source -> Id]
    /\ package \in [Key -> File] /\ partial \in [Key -> File]
    /\ loaded \in [Key -> Version]
    /\ setting \in [Source -> {"unset", "default", "chosen", "overtaken"}]
    /\ request \in [Request -> [pc : Pc, source : Source \cup {None}, id : Id, version : Version,
                                file : {"none", "partial", "package"}, alone : BOOLEAN]]
    /\ settled \in [Source -> {"unknown", "installed", "removed"}]
    /\ faults \in 0..MaxFaults

Init ==
    /\ repos = Repo
    /\ entry = [s \in Source |-> 1]
    /\ row = [s \in Source |-> NoRow]
    /\ ids = [s \in Source |-> 0]
    /\ package = [k \in Key |-> 0] /\ partial = [k \in Key |-> 0]
    /\ loaded = [k \in Key |-> 0]
    /\ setting = [s \in Source |-> "unset"]
    /\ request = [q \in Request |-> Idle]
    /\ settled = [s \in Source |-> "unknown"]
    /\ faults = 0

Fault == faults < MaxFaults /\ faults' = faults + 1

-----------------------------------------------------------------------------
Refresh(s) ==
    /\ RepoOf[s] \in repos
    /\ entry[s] < MaxVersion
    /\ entry' = [entry EXCEPT ![s] = @ + 1]
    /\ UNCHANGED <<repos, homes, request, settled, faults>>

\* DELETE /source-repos/{id}: the entries and, since source.repo_id cascades, the sources' rows.
Listed(r) == {s \in Source : RepoOf[s] = r}

DeleteRepo(r) ==
    /\ r \in repos
    /\ repos' = repos \ {r}
    /\ entry' = [s \in Source |-> IF s \in Listed(r) THEN 0 ELSE entry[s]]
    /\ row' = [s \in Source |-> IF s \in Listed(r) THEN NoRow ELSE row[s]]
    /\ setting' = [s \in Source |-> IF s \in Listed(r) THEN "unset" ELSE setting[s]]
    /\ request' = [q \in Request |->
                     [request[q] EXCEPT !.alone = @ /\ request[q].source \notin Listed(r)]]
    /\ settled' = [s \in Source |-> IF s \in Listed(r) /\ settled[s] = "installed" THEN "unknown"
                                    ELSE settled[s]]
    /\ UNCHANGED <<ids, package, partial, loaded, faults>>

-----------------------------------------------------------------------------
\* Requests.  One that has a source to itself from its beginning to its end is alone.
At(q, pc)    == request[q].pc = pc
KeyOf(q)     == <<request[q].source, request[q].id>>
About(s)     == {q \in Request : request[q].source = s}
Goes(q, pc)  == request' = [request EXCEPT ![q].pc = pc]
Stops(q)     == request' = [request EXCEPT ![q] = Idle]

Begins(q, s, new) ==
    /\ request' = [x \in Request |->
                      IF x = q THEN [new EXCEPT !.alone = About(s) = {}]
                      ELSE [request[x] EXCEPT !.alone = @ /\ request[x].source # s]]
    /\ settled' = [settled EXCEPT ![s] = "unknown"]

Settles(q, how) ==
    /\ Stops(q)
    /\ settled' = IF request[q].alone THEN [settled EXCEPT ![request[q].source] = how] ELSE settled

\* An error on the way: the request ends where it is.
Fails(q) == Fault /\ Stops(q) /\ UNCHANGED settled

\* get_repo_entry: what the index of its repository lists for it.
Indexed(s) == RepoOf[s] \in repos /\ entry[s] # 0

\* POST /sources: get_entry, and the package it names is downloaded.
BeginInstall(q, s) ==
    /\ request[q] = Idle
    /\ Indexed(s)
    /\ Begins(q, s, [Idle EXCEPT !.pc = "fetched", !.source = s, !.version = entry[s]])
    /\ UNCHANGED <<index, homes, faults>>

\* install_bytes: prepare refuses a package this host cannot run, before anything is written.
BadRunnable(q) == TRUE
IsRunnable(q)  == request[q].version \in Runnable

Refuse(q) ==
    /\ At(q, "fetched")
    /\ ~IsRunnable(q)
    /\ Stops(q)
    /\ UNCHANGED <<index, homes, settled, faults>>

\* upsert_source: a row that is there keeps its id.
IdFor(s) == IF row[s].id # 0 THEN row[s].id ELSE ids[s] + 1

Upsert(q) ==
    LET s == request[q].source IN
    /\ At(q, "fetched")
    /\ IsRunnable(q)
    /\ \/ /\ RepoOf[s] \in repos
          /\ IdFor(s) <= MaxIds
          /\ row' = [row EXCEPT ![s] = [id |-> IdFor(s), version |-> request[q].version]]
          /\ ids' = [ids EXCEPT ![s] = IF row[s].id = 0 THEN @ + 1 ELSE @]
          /\ request' = [request EXCEPT ![q].pc = "opening", ![q].id = IdFor(s)]
          /\ UNCHANGED <<settled, faults>>
       \/ /\ RepoOf[s] \notin repos
          /\ Stops(q)
          /\ UNCHANGED <<row, ids, settled, faults>>
       \/ Fails(q) /\ UNCHANGED <<row, ids>>
    /\ UNCHANGED <<index, package, partial, loaded, setting>>

\* PackageStore::write.  Every write of a source's package goes through the same partial file:
\* opening it empties it, even under another writer.
Open(q) ==
    /\ At(q, "opening")
    /\ \/ /\ partial' = [partial EXCEPT ![KeyOf(q)] = Torn]
          /\ request' = [request EXCEPT ![q].pc = "filling", ![q].file = "partial"]
          /\ UNCHANGED <<settled, faults>>
       \/ Fails(q) /\ UNCHANGED partial
    /\ UNCHANGED <<index, row, ids, package, loaded, setting>>

Fill(q) ==
    /\ At(q, "filling")
    /\ \/ /\ partial' = IF request[q].file = "partial"
                         THEN [partial EXCEPT ![KeyOf(q)] = request[q].version] ELSE partial
          /\ package' = IF request[q].file = "package"
                         THEN [package EXCEPT ![KeyOf(q)] = request[q].version] ELSE package
          /\ Goes(q, "renaming")
          /\ UNCHANGED <<settled, faults>>
       \/ Fails(q) /\ UNCHANGED <<package, partial>>
    /\ UNCHANGED <<index, row, ids, loaded, setting>>

\* What becomes of the other open files of a source when its package is replaced or removed.
Renamed(q, file) ==
    IF file = "partial" THEN "package" ELSE "none"

Rename(q) ==
    LET k == KeyOf(q) IN
    /\ At(q, "renaming")
    /\ \/ /\ partial[k] # 0
          /\ package' = [package EXCEPT ![k] = partial[k]]
          /\ partial' = [partial EXCEPT ![k] = 0]
          /\ request' = [x \in Request |->
                            IF x = q THEN [request[q] EXCEPT !.pc = "checking", !.file = "none"]
                            ELSE IF KeyOf(x) = k THEN [request[x] EXCEPT !.file = Renamed(x, @)]
                            ELSE request[x]]
          /\ UNCHANGED <<settled, faults>>
       \/ /\ partial[k] = 0                 \* another request has renamed it
          /\ Stops(q)
          /\ UNCHANGED <<package, partial, settled, faults>>
       \/ /\ Fails(q)
          /\ partial' = [partial EXCEPT ![k] = 0]
          /\ UNCHANGED package
    /\ UNCHANGED <<index, row, ids, loaded, setting>>

\* The declared defaults: a setting is looked up, and stored if there was none.
IsRow(q) == row[request[q].source].id = request[q].id

BadCheck(q) ==
    /\ At(q, "checking")
    /\ Goes(q, "seeding")
    /\ UNCHANGED <<index, homes, settled, faults>>

Check(q) ==
    /\ At(q, "checking")
    /\ \/ /\ Goes(q, IF IsRow(q) /\ setting[request[q].source] # "unset" THEN "registering"
                     ELSE "seeding")
          /\ UNCHANGED <<settled, faults>>
       \/ Fails(q)
    /\ UNCHANGED <<index, homes>>

Seed(q) ==
    /\ At(q, "seeding")
    /\ \/ /\ IsRow(q)
          /\ setting' = [setting EXCEPT ![request[q].source] = "default"]
          /\ Goes(q, "registering")
          /\ UNCHANGED <<settled, faults>>
       \/ /\ ~IsRow(q)                      \* source_kv refers to the row
          /\ Stops(q)
          /\ UNCHANGED <<setting, settled, faults>>
       \/ Fails(q) /\ UNCHANGED setting
    /\ UNCHANGED <<index, row, ids, package, partial, loaded>>

BadRegister(q) ==
    /\ At(q, "registering")
    /\ Settles(q, "installed")
    /\ UNCHANGED <<index, row, ids, package, partial, loaded, setting, faults>>

Register(q) ==
    /\ At(q, "registering")
    /\ loaded' = [loaded EXCEPT ![KeyOf(q)] = request[q].version]   \* the id upsert returned
    /\ Settles(q, "installed")
    /\ UNCHANGED <<index, row, ids, package, partial, setting, faults>>

\* DELETE /sources/{id}, of the last row the source had, whether it is still there or not.
BeginUninstall(q, s) ==
    /\ request[q] = Idle
    /\ ids[s] # 0
    /\ Begins(q, s, [Idle EXCEPT !.pc = "unloading", !.source = s, !.id = ids[s]])
    /\ UNCHANGED <<index, homes, faults>>

Unload(q) ==
    /\ At(q, "unloading")
    /\ loaded' = [loaded EXCEPT ![KeyOf(q)] = 0]
    /\ Goes(q, "unpacking")
    /\ UNCHANGED <<index, row, ids, package, partial, setting, settled, faults>>

BadUnpack(q) ==
    /\ At(q, "unpacking")
    /\ Goes(q, "deleting")
    /\ UNCHANGED <<index, homes, settled, faults>>

Unpack(q) ==
    LET k == KeyOf(q) IN
    /\ At(q, "unpacking")
    /\ \/ /\ package' = [package EXCEPT ![k] = 0]
          /\ request' = [x \in Request |->
                            IF x = q THEN [request[q] EXCEPT !.pc = "deleting"]
                            ELSE IF KeyOf(x) = k /\ request[x].file = "package"
                            THEN [request[x] EXCEPT !.file = "none"]
                            ELSE request[x]]
          /\ UNCHANGED <<settled, faults>>
       \/ Fails(q) /\ UNCHANGED package
    /\ UNCHANGED <<index, row, ids, partial, loaded, setting>>

\* delete_source: the settings go with the row.
Delete(q) ==
    LET s == request[q].source IN
    /\ At(q, "deleting")
    /\ \/ /\ row' = IF IsRow(q) THEN [row EXCEPT ![s] = NoRow] ELSE row
          /\ setting' = IF IsRow(q) THEN [setting EXCEPT ![s] = "unset"] ELSE setting
          /\ Settles(q, "removed")
          /\ UNCHANGED faults
       \/ Fails(q) /\ UNCHANGED <<row, setting>>
    /\ UNCHANGED <<index, ids, package, partial, loaded>>

\* PUT /sources/{id}/settings.  One between an install's look and its store is overtaken by it.
Choose(s) ==
    /\ row[s].id # 0
    /\ setting' = [setting EXCEPT ![s] = IF \E q \in About(s) : At(q, "seeding") THEN "overtaken"
                                         ELSE "chosen"]
    /\ UNCHANGED <<index, row, ids, package, partial, loaded, request, settled, faults>>

\* The process stops at any point and starts again: the partial files are cleaned, and
\* load_installed compiles what is whole, skipping what is not.
Compiles(k) == row[k[1]].id = k[2] /\ package[k] \in Runnable

Restart ==
    /\ Fault
    /\ partial' = [k \in Key |-> 0]
    /\ loaded' = [k \in Key |-> IF Compiles(k) THEN package[k] ELSE 0]
    /\ request' = [q \in Request |-> Idle]
    /\ UNCHANGED <<index, row, ids, package, setting, settled>>

-----------------------------------------------------------------------------
InstallStep(q) == \/ Refuse(q) \/ Upsert(q) \/ Open(q) \/ Fill(q) \/ Rename(q) \/ Check(q)
                  \/ Seed(q) \/ Register(q)
UninstallStep(q) == Unload(q) \/ Unpack(q) \/ Delete(q)

Next ==
    \/ \E s \in Source : Refresh(s) \/ Choose(s)
    \/ \E r \in Repo : DeleteRepo(r)
    \/ \E q \in Request : \/ \E s \in Source : BeginInstall(q, s) \/ BeginUninstall(q, s)
                          \/ InstallStep(q) \/ UninstallStep(q)
    \/ Restart

Spec == Init /\ [][Next]_vars

-----------------------------------------------------------------------------
\* Key of the row a source has, and of the last it had.
Last(s) == <<s, ids[s]>>

\* However earlier requests failed half-way, met each other or were cut off by a restart: an install
\* that is then made alone leaves the row, the package on disk and the module in memory at one
\* version, under one id, and they stay so over restarts.
InstallsAreWhole ==
    \A s \in Source : settled[s] = "installed" =>
        /\ row[s].id = ids[s] /\ row[s].version \in Runnable
        /\ package[Last(s)] = row[s].version
        /\ loaded[Last(s)] = row[s].version
        /\ setting[s] # "unset"

\* And an uninstall leaves nothing in any of them.
UninstallsAreWhole ==
    \A s \in Source : settled[s] = "removed" =>
        row[s] = NoRow /\ package[Last(s)] = 0 /\ loaded[Last(s)] = 0 /\ setting[s] = "unset"

\* A module that is in memory finds every function it imports when it is called ("refused when it is
\* installed", package.rs:20), and what runs in this process can be started again, however requests met
\* each other, while none of their steps failed.
UsableSurvives ==
    \A s \in Source :
        /\ ids[s] # 0 /\ loaded[Last(s)] # 0 => Links(Contents[loaded[Last(s)]])
        /\ faults = 0 /\ row[s].id # 0 /\ About(s) = {} /\ loaded[Last(s)] # 0
              => package[Last(s)] \in 1..MaxVersion /\ Links(Contents[package[Last(s)]])

\* What a reader chose is not thrown away by an upgrade, if it was there when the upgrade looked.
ChosenIsKept ==
    [][\A s \in Source : setting[s] = "chosen" => setting'[s] # "default"]_vars

\* The inductive invariant adds what every request knows of the row it is about, and what one that
\* is alone has reached by then.
Writing == {"opening", "filling", "renaming", "checking", "seeding", "registering"}
Removing == {"unloading", "unpacking", "deleting"}

OfItsRow(q) ==
    LET r == request[q] IN
    /\ r.pc = "idle" <=> r.source = None
    /\ r.pc = "idle" => r = Idle
    /\ r.pc \in Writing \cup Removing => r.id \in 1..ids[r.source]
    /\ r.pc \in Writing => r.version \in Runnable
    /\ r.pc = "filling" => r.file \in {"partial", "package", "none"}
    /\ r.pc = "seeding" => ~(IsRow(q) /\ setting[r.source] = "chosen")

HasReached(q) ==
    LET r == request[q]
        s == r.source
        k == KeyOf(q) IN
    /\ \A x \in Request \ {q} : request[x].source # s
    /\ r.pc \in Writing => row[s] = [id |-> r.id, version |-> r.version]
    /\ r.pc = "filling" => r.file = "partial" /\ partial[k] = Torn
    /\ r.pc = "renaming" => partial[k] = r.version
    /\ r.pc \in {"checking", "seeding", "registering"} => package[k] = r.version
    /\ r.pc = "registering" => setting[s] # "unset"
    /\ r.pc \in Removing => r.id = ids[s]
    /\ r.pc \in {"unpacking", "deleting"} => loaded[k] = 0
    /\ r.pc = "deleting" => package[k] = 0

IInv ==
    /\ TypeOK
    /\ \A s \in Source : /\ row[s].id \in {0, ids[s]}
                         /\ row[s].id = 0 => row[s] = NoRow /\ setting[s] = "unset"
                         /\ settled[s] \in {"installed", "removed"} => About(s) = {}
                         /\ settled[s] = "removed" => ids[s] # 0
    /\ \A q \in Request : OfItsRow(q) /\ (request[q].alone => HasReached(q))
    /\ InstallsAreWhole
    /\ UninstallsAreWhole

(***************************************************************************)
(* What UsableSurvives rests on.  Nothing is loaded or renamed that was    *)
(* not found runnable, a file that is torn has a writer that will fill it, *)
(* and a module whose row is there has its package, unless an uninstall    *)
(* has just taken it and is about to take the row.                         *)
(***************************************************************************)
Fills(q, file, k) == At(q, "filling") /\ request[q].file = file /\ KeyOf(q) = k

OnlyRunnable ==
    \A k \in Key : /\ loaded[k] \in {0} \cup Runnable
                   /\ {package[k], partial[k]} \subseteq {0, Torn} \cup Runnable
                   /\ k[2] > ids[k[1]] => loaded[k] = 0

TornHasAWriter ==
    faults = 0 => \A k \in Key :
        /\ package[k] = Torn => \E q \in Request : Fills(q, "package", k)
        /\ partial[k] = Torn => \E q \in Request : Fills(q, "partial", k)

Installing(q, k) == request[q].pc \in {"checking", "seeding", "registering"} /\ KeyOf(q) = k

LoadedHasAPackage ==
    faults = 0 => \A k \in Key :
        /\ row[k[1]].id = k[2]
        /\ loaded[k] # 0 \/ \E q \in Request : Installing(q, k)
        => package[k] # 0 \/ \E q \in Request : At(q, "deleting") /\ KeyOf(q) = k

FilesInv == OnlyRunnable /\ TornHasAWriter /\ LoadedHasAPackage
=============================================================================
