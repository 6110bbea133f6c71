---------------------------- MODULE MCChains -----------------------------
(* Organisations and their projects: create, list, read and delete.         *)
EXTENDS Chains

T(m, path, coll) == [method |-> m, path |-> path, coll |-> coll, query |-> <<>>]
Q(m, path, coll, query) == [T(m, path, coll) EXCEPT !.query = query]

Projects == {T("POST", <<"org">>, "project"), T("PUT", <<"org", "project">>, None),
             T("DELETE", <<"org", "project">>, None)}
Nested == {T("POST", <<>>, "org"), T("POST", <<"org">>, "project"),
           T("GET", <<"org", "project">>, None), T("DELETE", <<"org", "project">>, None)}
Flat == {T("POST", <<>>, "org"), Q("GET", <<>>, "org", <<None>>),
         T("PUT", <<"org">>, None), T("DELETE", <<"org">>, None)}
Lists == {T("POST", <<"org">>, "project"), T("GET", <<"org">>, "project"),
          T("DELETE", <<"org", "project">>, None)}
Moves == {T("POST", <<>>, "org"), T("PUT", <<"project">>, None),
          Q("DELETE", <<"org">>, None, <<"org">>)}

MCWrites(t) == IF t.method = "POST" THEN {t.coll} ELSE {}
MCReads(t) == ToSet(t.path)

Orgs(n) == {<<"org", i>> : i \in 1..n}

Nothing == [uris |-> <<>>, named |-> <<>>, told |-> <<>>]

\* A slug of its own and the id of a customer; two links under one header, of which
\* neither lies in the other.
Asides == {Nothing, [Nothing EXCEPT !.told = <<<<None, 9>>, <<"org", 1>>>>],
           [Nothing EXCEPT !.uris = <<Link("Link", None, <<<<"org", 1>>>>),
                                      [Link("Link", "project", <<<<"project", 2>>>>) EXCEPT
                                         !.query = <<<<"project", 9>>>>]>>]}

Server(grammar, roots, guesses, style) ==
    [grammar |-> grammar, roots |-> Orgs(roots), guesses |-> guesses, style |-> style,
     uuid |-> TRUE, leaky |-> FALSE, paged |-> {None}, next |-> FALSE, asides |-> {Nothing}]

MCTargets == {
    [Server(Projects, 2, {1, 2}, "location") EXCEPT !.uuid = FALSE, !.leaky = TRUE],
    Server(Projects, 1, {1}, "hal"),
    Server(Nested, 0, {1}, "echo"),
    [Server(Flat, 2, {1}, "jsonapi") EXCEPT !.paged = {None, Brief}],
    [Server(Lists, 1, {1}, "hal") EXCEPT !.paged = {None, 9}, !.next = TRUE],
    [Server(Moves, 1, {1}, "echo") EXCEPT !.roots = @ \cup {<<"project", 2>>},
                                          !.asides = Asides]}
=============================================================================
