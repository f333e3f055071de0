---------------------------- MODULE MCWorkerPool ----------------------------
\* Two kinds of work for TLC: an urgent one with two attempts, as a download a person waits
\* for, and a routine one with one attempt, as a periodic sweep.
EXTENDS WorkerPool, TLC

CONSTANTS urgent, routine

MCPriority    == [work \in Work |-> IF work = urgent THEN 0 ELSE 5]
MCMaxAttempts == [work \in Work |-> IF work = urgent THEN 2 ELSE 1]

\* Rows and workers are interchangeable; the two works are not.
Symmetry == Permutations(JobId) \cup Permutations(Worker)
=============================================================================
