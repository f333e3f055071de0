----------------------------- MODULE SourceIndex -----------------------------
(***************************************************************************)
(* The repositories an operator added and the update_sources job, which    *)
(* brings their indexes here (crates/jobs/src/handlers/sources.rs,         *)
(* refresh_repo of crates/aidoku-runtime/src/registry.rs and the           *)
(* repository's replace_entries).  An index is a document with a number;   *)
(* several passes over the repositories may run at once, one per worker.   *)
(***************************************************************************)
EXTENDS Integers

CONSTANTS Repo, NoRepo,
          Dead,        \* the repositories that never answer
          Worker,
          MaxVersion,  \* bound: indexes a repository publishes
          MaxFaults    \* bound: failures of the others and of the database

ASSUME IndexAssumption ==
    /\ NoRepo \notin Repo
    /\ Dead \subseteq Repo
    /\ MaxVersion \in Nat \ {0} /\ MaxFaults \in Nat

VARIABLES published, repo,
          entries,    \* the index a repository's entries are of, 0 for none
          stamped,    \* history: the index that last_refreshed_at tells of, 0 for NULL
          pass, faults

vars == <<published, repo, entries, stamped, pass, faults>>

-----------------------------------------------------------------------------
Version == 0..MaxVersion
NoPass  == [at |-> "idle", todo |-> {}, repo |-> NoRepo, found |-> 0]

TypeOK ==
    /\ published \in [Repo -> 1..MaxVersion]
    /\ repo \in [Repo -> {"unknown", "added", "deleted"}]
    /\ entries \in [Repo -> Version]
    /\ stamped \in [Repo -> Version]
    /\ pass \in [Worker -> [at : {"idle", "next", "replace", "mark"}, todo : SUBSET Repo,
                            repo : Repo \cup {NoRepo}, found : Version]]
    /\ faults \in 0..MaxFaults

Init ==
    /\ published = [r \in Repo |-> 1]
    /\ repo = [r \in Repo |-> "unknown"]
    /\ entries = [r \in Repo |-> 0]
    /\ stamped = [r \in Repo |-> 0]
    /\ pass = [w \in Worker |-> NoPass]
    /\ faults = 0

Fault == faults < MaxFaults /\ faults' = faults + 1

-----------------------------------------------------------------------------
Publish(r) ==
    /\ published[r] < MaxVersion
    /\ published' = [published EXCEPT ![r] = @ + 1]
    /\ UNCHANGED <<repo, entries, stamped, pass, faults>>

\* POST /source-repos.  A url that was deleted and is added again gets another row.
AddRepo(r) ==
    /\ repo[r] = "unknown"
    /\ repo' = [repo EXCEPT ![r] = "added"]
    /\ UNCHANGED <<published, entries, stamped, pass, faults>>

\* DELETE /source-repos/{id}: the entries go by cascade.
DeleteRepo(r) ==
    /\ repo[r] = "added"
    /\ repo' = [repo EXCEPT ![r] = "deleted"]
    /\ entries' = [entries EXCEPT ![r] = 0]
    /\ stamped' = [stamped EXCEPT ![r] = 0]
    /\ UNCHANGED <<published, pass, faults>>

\* UpdateSources::run: every repository there is when it begins, one after the other.
BeginPass(w) ==
    /\ pass[w].at = "idle"
    /\ pass' = [pass EXCEPT ![w] = [NoPass EXCEPT !.at = "next",
                                                  !.todo = {r \in Repo : repo[r] = "added"}]]
    /\ UNCHANGED <<published, repo, entries, stamped, faults>>

\* refresh_repo up to the parsed index.  A repository that is gone, does not answer or sends no
\* index counts as failed, and the pass goes on.
BadGoOn(w, r) == pass' = [pass EXCEPT ![w] = NoPass]
GoOn(w, r)    == pass' = [pass EXCEPT ![w] = [NoPass EXCEPT !.at = "next",
                                                           !.todo = pass[w].todo \ {r}]]

Answers(r) == repo[r] = "added" /\ r \notin Dead

Fetch(w, r) ==
    /\ pass[w].at = "next"
    /\ r \in pass[w].todo
    /\ \/ /\ Answers(r)
          /\ pass' = [pass EXCEPT ![w].at = "replace", ![w].repo = r, ![w].found = published[r]]
          /\ UNCHANGED faults
       \/ ~Answers(r) /\ GoOn(w, r) /\ UNCHANGED faults
       \/ Fault /\ GoOn(w, r)
    /\ UNCHANGED <<published, repo, entries, stamped>>

\* replace_entries: one transaction.  The foreign key refuses the entries of no repository, and the
\* primary key those of a pass that stores the same repository's at the same time.
BadReplace(w) == LET r == pass[w].repo IN
    /\ pass[w].at = "replace"
    /\ entries' = IF repo[r] = "added" /\ faults = 0 THEN [entries EXCEPT ![r] = pass[w].found] ELSE entries
    /\ pass' = [pass EXCEPT ![w].at = "mark"]
    /\ UNCHANGED <<published, repo, stamped, faults>>

Replace(w) == LET r == pass[w].repo IN
    /\ pass[w].at = "replace"
    /\ \/ /\ repo[r] = "added"
          /\ entries' = [entries EXCEPT ![r] = pass[w].found]
          /\ pass' = [pass EXCEPT ![w].at = "mark"]
          /\ UNCHANGED faults
       \/ repo[r] # "added" /\ GoOn(w, r) /\ UNCHANGED <<entries, faults>>
       \/ Fault /\ GoOn(w, r) /\ UNCHANGED entries
    /\ UNCHANGED <<published, repo, stamped>>

\* mark_repo_refreshed: an UPDATE of a row that may be gone.  Its own failure ends the pass.
Mark(w) == LET r == pass[w].repo IN
    /\ pass[w].at = "mark"
    /\ \/ /\ stamped' = [stamped EXCEPT ![r] = IF repo[r] = "added" THEN pass[w].found ELSE @]
          /\ GoOn(w, r)
          /\ UNCHANGED faults
       \/ Fault /\ pass' = [pass EXCEPT ![w] = NoPass] /\ UNCHANGED stamped
    /\ UNCHANGED <<published, repo, entries>>

\* The job is done, or is tried again if it refreshed none: either way there is another pass.
EndPass(w) ==
    /\ pass[w].at = "next" /\ pass[w].todo = {}
    /\ pass' = [pass EXCEPT ![w] = NoPass]
    /\ UNCHANGED <<published, repo, entries, stamped, faults>>

PassStep(w) == \/ BeginPass(w) \/ Replace(w) \/ Mark(w) \/ EndPass(w)
               \/ \E r \in Repo : Fetch(w, r)

Next ==
    \/ \E r \in Repo : Publish(r) \/ AddRepo(r) \/ DeleteRepo(r)
    \/ \E w \in Worker : PassStep(w)

Spec == Init /\ [][Next]_vars

\* update_sources is scheduled again and again, and a worker goes on with what it began.
FairSpec == Spec /\ \A w \in Worker : WF_vars(PassStep(w))

-----------------------------------------------------------------------------
\* A repository reads as refreshed only while it has entries, in whatever order passes meet each
\* other and deletions.
StampedIsStored ==
    /\ TypeOK
    /\ \A r \in Repo : stamped[r] # 0 => repo[r] = "added" /\ entries[r] # 0

\* A pass that is about to stamp a repository has stored its index, or the repository is gone.
StoredBeforeMarked ==
    \A w \in Worker : pass[w].at \in {"replace", "mark"} =>
        /\ pass[w].repo \in Repo /\ pass[w].found # 0
        /\ repo[pass[w].repo] # "unknown"
        /\ pass[w].at = "mark" /\ repo[pass[w].repo] = "added" => entries[pass[w].repo] # 0

ListedAreKnown == \A w \in Worker : \A r \in pass[w].todo : repo[r] # "unknown"

IInv == StoredBeforeMarked /\ ListedAreKnown /\ StampedIsStored

\* One repository that never answers freezes no other one's index: what a repository publishes is
\* stored in the end.
IndexCatchesUp ==
    \A r \in Repo \ Dead :
        (repo[r] = "added") ~> (entries[r] = published[r] \/ repo[r] = "deleted")
=============================================================================
