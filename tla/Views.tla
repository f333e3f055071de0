-------------------------------- MODULE Views --------------------------------
(***************************************************************************)
(* Answers that are put together from two reads, each of which sees the    *)
(* database at another moment: the job list and a job's panel, with the    *)
(* chapter that a download is of (crates/jobs/src/queue.rs), and a         *)
(* repository's index, with the version that is installed of each source   *)
(* (crates/api/src/routes/sources.rs).                                     *)
(*                                                                         *)
(* An entry is a job, of a state, or an entry of the index, of the one     *)
(* state "there".  A fact is what the second table says of a subject: a    *)
(* chapter's and its series' titles, or a source's installed version.      *)
(***************************************************************************)
EXTENDS Integers, Sequences, FiniteSets, SequencesExt, Ordering

CONSTANTS Entry,       \* in the order in which they were created
          SubjectOf,   \* what an entry is about; NoSubject for a job that is no download
          NoSubject,
          Fact,        \* what can be said of a subject
          JobState,
          ListLimit,   \* the rows that a job list has at most
          MaxAlters    \* bound: changes beside the view

ASSUME ViewsAssumption ==
    /\ Entry \subseteq Nat /\ IsFiniteSet(Entry) /\ ListLimit \in Nat \ {0} /\ MaxAlters \in Nat

Subject == {SubjectOf[e] : e \in Entry} \ {NoSubject}
Absent  == "absent"
Anyone  == "any"          \* no filter

VARIABLES view,      \* what is asked for, with which filter, how far it is, and what was read of it
          present,   \* entry -> its state, or Absent
          facts,     \* subject -> what is known of it, or Absent
          was,       \* history: subject -> what it has been since the view was asked for
          stayed,    \* history: the present that have not changed since
          alters

viewVars == <<view, present, facts, was, stayed, alters>>

Asks(what, filter) == [what |-> what, filter |-> filter, stage |-> "asked",
                       rows |-> <<>>, known |-> <<>>, shown |-> <<>>]

\* An index has no states.
States == IF view.what = "available" THEN {"there"} ELSE JobState

ViewsInit ==
    /\ view \in {Asks("jobs", filter) : filter \in {Anyone} \cup JobState}
            \cup {Asks(what, Anyone) : what \in {"panel", "available"}}
    /\ present \in [Entry -> {Absent} \cup States]
    /\ \A e \in Entry : view.what = "available" /\ SubjectOf[e] = NoSubject => present[e] = Absent
    /\ facts \in [Subject -> Fact \cup {Absent}]
    /\ was = [s \in Subject |-> {facts[s]}] /\ stayed = Entry /\ alters = 0

-----------------------------------------------------------------------------
Rows(es) == [i \in DOMAIN es |-> [entry |-> es[i], state |-> present[es[i]]]]

Newest(es) == Ordered(es, >)

\* PostgresQueue::list, newest first, and no further than the limit.
ListJobs ==
    LET all == Newest({e \in Entry : present[e] # Absent /\ view.filter \in {Anyone, present[e]}})
    IN  Rows(SubSeq(all, 1, IF Len(all) < ListLimit THEN Len(all) ELSE ListLimit))

\* list_repo_entries, in an order of their own.
ListEntries == Rows(Newest({e \in Entry : present[e] # Absent}))

\* The chapters that the jobs name.
Wanted(rows) == {SubjectOf[rows[i].entry] : i \in DOMAIN rows} \ {NoSubject}

\* subjects_for: keyed by the chapter, those that are still there.
SubjectsFor(wanted) == [s \in {s \in wanted : facts[s] # Absent} |-> facts[s]]

\* list_sources.
Installed == SubjectsFor(Subject)

BadJoin(rows, known) ==
    LET found == SetToSeq(DOMAIN known) IN
    [i \in DOMAIN rows |-> [row |-> rows[i], fact |-> IF i \in DOMAIN found THEN known[found[i]] ELSE Absent]]

Join(rows, known) ==
    [i \in DOMAIN rows |->
        LET s == SubjectOf[rows[i].entry] IN
        [row |-> rows[i], fact |-> IF s \in DOMAIN known THEN known[s] ELSE Absent]]

-----------------------------------------------------------------------------
\* list_summaries: the rows first.
ListSummaries ==
    /\ view.what = "jobs" /\ view.stage = "asked"
    /\ view' = [view EXCEPT !.stage = "half", !.rows = ListJobs]
    /\ UNCHANGED <<present, facts, was, stayed, alters>>

\* summary: the one row, if there is one.
Summary(e) ==
    /\ view.what = "panel" /\ view.stage = "asked"
    /\ view' = IF present[e] = Absent THEN [view EXCEPT !.stage = "refused"]
               ELSE [view EXCEPT !.stage = "half", !.rows = Rows(<<e>>)]
    /\ UNCHANGED <<present, facts, was, stayed, alters>>

Resolve ==
    /\ view.what \in {"jobs", "panel"} /\ view.stage = "half"
    /\ view' = [view EXCEPT !.stage = "answered",
                            !.shown = Join(view.rows, SubjectsFor(Wanted(view.rows)))]
    /\ UNCHANGED <<present, facts, was, stayed, alters>>

\* available: what is installed first.
ListInstalled ==
    /\ view.what = "available" /\ view.stage = "asked"
    /\ view' = [view EXCEPT !.stage = "half", !.known = Installed]
    /\ UNCHANGED <<present, facts, was, stayed, alters>>

Available ==
    /\ view.what = "available" /\ view.stage = "half"
    /\ view' = [view EXCEPT !.stage = "answered", !.shown = Join(ListEntries, view.known)]
    /\ UNCHANGED <<present, facts, was, stayed, alters>>

-----------------------------------------------------------------------------
\* Beside it, jobs are queued, move on and are pruned, an index is replaced.
AlterEntry(e, state) ==
    /\ view.stage \in {"asked", "half"} /\ alters < MaxAlters
    /\ state # present[e]
    /\ view.what = "available" => SubjectOf[e] # NoSubject
    /\ present' = [present EXCEPT ![e] = state]
    /\ stayed' = stayed \ {e} /\ alters' = alters + 1
    /\ UNCHANGED <<view, facts, was>>

\* A title is corrected or a chapter removed; a source is installed, upgraded or uninstalled.
AlterFact(s, fact) ==
    /\ view.stage \in {"asked", "half"} /\ alters < MaxAlters
    /\ fact # facts[s]
    /\ facts[s] = Absent => view.what = "available"
    /\ facts' = [facts EXCEPT ![s] = fact]
    /\ was' = [was EXCEPT ![s] = @ \cup {fact}] /\ alters' = alters + 1
    /\ UNCHANGED <<view, present, stayed>>

ViewsNext ==
    \/ ListSummaries \/ Resolve \/ ListInstalled \/ Available
    \/ \E e \in Entry : Summary(e) \/ \E state \in {Absent} \cup States : AlterEntry(e, state)
    \/ \E s \in Subject, fact \in Fact \cup {Absent} : AlterFact(s, fact)

-----------------------------------------------------------------------------
\* Every row has a fact that was true of its own subject while the answer was made ("a positional zip
\* would then hand one of them the other's subject", queue.rs), rows that are alike in what they are
\* about are alike in what is said of it, and no row that was there all along, and is among the newest,
\* is left out or given a state it did not have.
RowsCarryTheirOwn ==
    view.stage = "answered" =>
        LET shown == view.shown IN
        /\ \A i \in DOMAIN shown :
              LET s == SubjectOf[shown[i].row.entry] IN
              shown[i].fact \in IF s = NoSubject THEN {Absent} ELSE was[s]
        /\ \A i, j \in DOMAIN shown :
              /\ SubjectOf[shown[i].row.entry] = SubjectOf[shown[j].row.entry] => shown[i].fact = shown[j].fact
              /\ i < j => shown[i].row.entry > shown[j].row.entry
        /\ \A i \in DOMAIN shown :
              /\ view.filter # Anyone => shown[i].row.state = view.filter
              /\ shown[i].row.entry \in stayed => shown[i].row.state = present[shown[i].row.entry]
        /\ view.what \in {"jobs", "available"} =>
              \A e \in stayed : present[e] # Absent /\ view.filter \in {Anyone, present[e]} =>
                 (\E i \in DOMAIN shown : shown[i].row.entry = e)
                 \/ (view.what = "jobs" /\ Len(shown) = ListLimit /\ shown[ListLimit].row.entry > e)
=============================================================================
