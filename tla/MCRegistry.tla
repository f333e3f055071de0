----------------------------- MODULE MCRegistry -----------------------------
(* One source of the repository r1 for TLC; what else is added lists none.  Of its versions the host can
   run the first and the last. *)
EXTENDS Registry

CONSTANT r1
MCRepoOf == [s \in Source |-> r1]

Whole(imports) == [archive |-> TRUE, manifest |-> TRUE, module |-> TRUE, imports |-> imports]
Basic == {<<"env", "print">>, <<"std", "destroy">>, <<"net", "send">>, <<"html", "select">>}
MCContents ==
    <<Whole(Basic), Whole(Basic \cup {<<"net", "get_image">>}),
      Whole(Basic \cup {<<"net", "set_proxy">>}), Whole(Basic \cup {<<"other", "call">>})>>
=============================================================================
