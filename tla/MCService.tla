------------------------------ MODULE MCService ------------------------------
(* Service, with settings of which one or two are not as they should be, of each kind. *)
EXTENDS Service

MCSchedule == <<[kind |-> "prune_jobs", every |-> 2]>>

Good == [database |-> "url", bind |-> "any", library |-> <<"srv", "library">>, data |-> <<"srv", "data">>,
         mode |-> "oidc", oidc |-> "complete", allowed |-> {"someone"}, key |-> 64,
         ttl |-> 720, workers |-> 1, permits |-> 4, poll |-> 1000, format |-> "json",
         memory |-> 128, timeout |-> 30, days |-> 1, stale |-> 1, proxies |-> {}]

MCSettings ==
    {Good, [Good EXCEPT !.workers = 2, !.mode = "none", !.oidc = "blank", !.allowed = {}, !.key = 0]}
    \cup {[Good EXCEPT !.database = d] : d \in {"", "junk"}}
    \cup {[Good EXCEPT !.bind = "junk"]}
    \cup {[Good EXCEPT !.library = d] : d \in {Blank, <<"srv">>, <<"srv", "data">>, <<"srv", "data", "library">>}}
    \cup {[Good EXCEPT !.data = Blank]}
    \cup {[Good EXCEPT !.mode = m, !.key = n] : m \in {"oidc", "junk"}, n \in {0, 32}}
    \cup {[Good EXCEPT !.oidc = "blank"], [Good EXCEPT !.oidc = "junk"]}
    \cup {[Good EXCEPT !.allowed = {}], [Good EXCEPT !.ttl = 0], [Good EXCEPT !.workers = 0], [Good EXCEPT !.permits = 0],
          [Good EXCEPT !.poll = 0], [Good EXCEPT !.format = "text"], [Good EXCEPT !.memory = 0],
          [Good EXCEPT !.timeout = 0], [Good EXCEPT !.proxies = {"network", "junk"}]}
    \cup {[Good EXCEPT !.mode = "none", !.key = 32]}
    \cup {[Good EXCEPT !.days = d] : d \in {-1, 0, 1}}
=============================================================================
