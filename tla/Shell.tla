-------------------------------- MODULE Shell --------------------------------
(***************************************************************************)
(* The web interface out of the binary (crates/api/src/static_files.rs):   *)
(* a browser that keeps what it was given, and a server that is replaced,  *)
(* by a newer build or by an older one.                                    *)
(*                                                                         *)
(* A path is whether it begins with assets/, whether it is of the API, and *)
(* its stem, a sequence of "a" for letters, digits and _, "-" and ".".     *)
(* What a file holds is a value, which is its entity tag too.              *)
(***************************************************************************)
EXTENDS Naturals, Sequences

CONSTANTS Path,       \* the paths that a browser asks for
          Index,      \* index.html
          Build,      \* builds -> path -> what the file holds, a sequence of functions
          HashLen,    \* HASH_LEN
          MaxDeploys  \* bound: times the server is replaced

Nothing == "nothing"
Problem == "no such endpoint"

\* Vite names a file by a hash of what it holds; every build has its shell.
ASSUME HashesNameTheContent ==
    \A b, c \in DOMAIN Build : Index \in DOMAIN Build[b]
        /\ \A p \in DOMAIN Build[b] \cap DOMAIN Build[c] :
              p.hashed => Build[b][p] = Build[c][p]

VARIABLES deployed,   \* the build that runs
          deploys,
          held,       \* the browser's cache: path -> what it was given there
          page        \* what the browser shows: whence, the shell, the files it has loaded for it, and
                      \* whether the server has been the same since it asked for the shell

shellVars == <<deployed, deploys, held, page>>

\* What a build has beside the shell.
Files == {p \in UNION {DOMAIN Build[b] : b \in DOMAIN Build} : p # Index}

NotHeld == [content |-> Nothing, immutable |-> FALSE]
NoPage  == [at |-> Index, shell |-> Nothing, files |-> <<>>, current |-> FALSE]

ShellInit ==
    /\ deployed \in DOMAIN Build /\ deploys = 0
    /\ held = [p \in Path |-> NotHeld]
    /\ page = NoPage

-----------------------------------------------------------------------------
\* is_content_hashed: under assets/, a name, a hyphen, and eight characters that a hash can have.
IsContentHashed(path) ==
    LET n == Len(path.stem) IN
    /\ path.assets
    /\ n > HashLen + 1
    /\ path.stem[n - HashLen] = "-"
    /\ \A i \in (n - HashLen + 1)..n : path.stem[i] \in {"a", "-"}

\* The build puts under assets/ only what it names by a hash, unless by a shorter name; the shell is
\* elsewhere, and no endpoint.
ASSUME NamesTellHashes ==
    /\ ~Index.assets /\ ~Index.api
    /\ \A b \in DOMAIN Build : \A p \in DOMAIN Build[b] : IsContentHashed(p) => p.hashed

\* serve: what is no file is the shell, under the name of the shell.
Served(path) == IF path \in DOMAIN Build[deployed] THEN path ELSE Index

BadRespond(path) ==
    [content |-> Build[deployed][Served(path)], immutable |-> IsContentHashed(path)]

Respond(path) ==
    [content |-> Build[deployed][Served(path)], immutable |-> IsContentHashed(Served(path))]

\* The browser: what is immutable is not asked for again; what is held is asked for with its tag, and
\* kept if the tag is still right; the rest is replaced.
Got(path) ==
    IF held[path].immutable \/ held[path].content = Respond(path).content
    THEN held[path] ELSE Respond(path)

\* A page of the application is opened: its path is the shell's or one that only the router of the
\* application knows.  A path of the API is answered by the API, whatever it is.
Navigate(path) ==
    /\ page' = [at |-> path, shell |-> IF path.api THEN Problem ELSE Got(path).content,
                files |-> <<>>, current |-> TRUE]
    /\ held' = IF path.api THEN held ELSE [held EXCEPT ![path] = Got(path)]
    /\ UNCHANGED <<deployed, deploys>>

\* The shell's own files; what it is, is in the shell.
Load(path) ==
    /\ page.shell \notin {Nothing, Problem}
    /\ \E b \in DOMAIN Build : Build[b][Index] = page.shell /\ path \in DOMAIN Build[b] \ {Index}
    /\ page' = [page EXCEPT !.files = Append(@, [path |-> path, content |-> Got(path).content])]
    /\ held' = [held EXCEPT ![path] = Got(path)]
    /\ UNCHANGED <<deployed, deploys>>

Deploy(b) ==
    /\ b # deployed /\ deploys < MaxDeploys
    /\ deployed' = b /\ deploys' = deploys + 1
    /\ page' = [page EXCEPT !.current = FALSE]
    /\ UNCHANGED held

ShellNext ==
    \/ \E path \in Path : \/ path \notin Files /\ Navigate(path)
                          \/ (\A i \in DOMAIN page.files : page.files[i].path # path) /\ Load(path)
    \/ \E b \in DOMAIN Build : Deploy(b)

ShellSpec == ShellInit /\ [][ShellNext]_shellVars

-----------------------------------------------------------------------------
\* Whatever the browser keeps of earlier builds: a page that was opened since the last one was deployed
\* is of that build, shell and files ("a stale UI that survives a redeploy", static_files.rs:15), and no
\* path of the API ever shows the shell.
UiIsDeployed ==
    /\ page.at.api => page.shell \in {Nothing, Problem}
    /\ page.current /\ ~page.at.api =>
          /\ page.shell = Build[deployed][Index]
          /\ \A i \in DOMAIN page.files :
                LET file == page.files[i] IN
                file.path \in DOMAIN Build[deployed] => file.content = Build[deployed][file.path]
=============================================================================
