-------------------------------- MODULE MCApi --------------------------------
(* Api, with addresses of two bits, and every span of up to three attributes of four kinds. *)
EXTENDS Api

CONSTANTS s1, s2

V4(a, b) == [family |-> 4, bits |-> <<a, b>>]

\* The second client has the bits of a proxy, and the other family.
MCClient == {V4(0, 0), [family |-> 6, bits |-> <<1, 0>>]}
MCProxy  == {V4(1, 0), V4(1, 1)}
MCTrustedProxies == {[family |-> 4, network |-> <<1, 1>>, prefix |-> 1]}

MCAttribute == [key : {"http.method"}, value : {"text", "list"}]
               \cup [key : {"url.path", "user.id"}, value : {"text"}]
MCSpan == UNION {[1..n -> MCAttribute] : n \in 0..3}
MCResources(first, span, second, spans) ==
    <<[service |-> first, spans |-> <<span>>], [service |-> second, spans |-> spans]>>

\* Every span in a batch that is well formed; every batch of empty spans.
MCBatch ==
    {[size |-> 1, resources |-> MCResources(Web, span, Unset, spans)] :
        span \in MCSpan, spans \in {<<>>, << <<>> >>}}
    \cup {[size |-> size, resources |-> MCResources(first, <<>>, second, spans)] :
        size \in {1, 2}, first \in {Web, Unset}, second \in {Web, "other"},
        spans \in {<<>>, << <<>>, <<>> >>}}

\* Up to six pages, of which one may be unlike the others.
MCPage == [content |-> "url", image |-> "jpg", bytes |-> 1]
MCPageList ==
    {<<>>} \cup UNION {{[i \in 1..n |-> IF i = odd THEN other ELSE MCPage] :
        odd \in 1..n, other \in [content : {"url"}, image : {"jpg", "png", "avif", "unknown"}, bytes : {1, 2}]
                             \cup [content : {"text", "zip", "image"}, image : {"jpg"}, bytes : {1}]} : n \in 1..6}

\* Three builds: the second has another application, the third only another shell; a logo that is not
\* named by what it holds, and a page that only the application knows.
P(assets, api, stem, hashed) == [assets |-> assets, api |-> api, stem |-> stem, hashed |-> hashed]
MCIndex == P(FALSE, FALSE, <<"a", "a">>, FALSE)
MCLogo  == P(TRUE, FALSE, <<"a", "-", "a">>, FALSE)
MCApp(n) == P(TRUE, FALSE, <<"a">> \o [i \in 1..n |-> "a"] \o <<"-", "-", "a">>, TRUE)
MCDeep  == P(FALSE, FALSE, <<"a", "-", "a", "a">>, FALSE)
MCNoSuch == P(FALSE, TRUE, <<"a">>, FALSE)
MCPath  == {MCIndex, MCLogo, MCApp(1), MCApp(2), MCDeep, MCNoSuch}
MCFiles(shell, app, logo) == (MCIndex :> shell @@ MCLogo :> logo @@ MCApp(app) :> (IF app = 1 THEN "app1" ELSE "app2"))
MCBuild == <<MCFiles("shell1", 1, "logo1"), MCFiles("shell2", 2, "logo2"), MCFiles("shell3", 2, "logo1")>>

\* Secrets at the top of a line, in an object within a list, and none.
Leaf(path, text) == [path |-> path, text |-> text]
MCLine == {{Leaf(<<"token">>, "s"), Leaf(<<"message">>, "m")},
           {Leaf(<<"spans", "[1]", "cookie", "a">>, "s"), Leaf(<<"spans", "[1]", "cookie", "b">>, "s")},
           {Leaf(<<"message">>, "m")}}

\* Two downloads of one chapter, and a job that is none.
MCSubjectOf == <<"c1", "c1", NoSubject>>

\* A series of two chapters, whose list is asked for on its own, and one of three, more than a statement
\* can carry, in a catalog of two pages.
MCChaptersOf == s1 :> {1, 2} @@ s2 :> {1, 2, 3}
MCCatalogue  == <<<<s1, s2>>, <<s2>>>>
=============================================================================
