------------------------------ MODULE MCResults ------------------------------
(* A shop that takes orders; two secrets of a page; credentials that expire.  *)
EXTENDS Rendering

Num(lo, hi) == Schema("integer", lo, hi, <<>>, {})
Str(lo, hi) == Schema("string", lo, hi, <<>>, {})
Obj(props, required) == Schema("object", NoBound, NoBound, props, required)
Arr(item, lo, hi) == Schema("array", lo, hi, <<<<"item", item>>>>, {})

Payment == [Schema("oneOf", NoBound, NoBound,
                   <<<<"card", Obj(<<<<"method", Str(1, NoBound)>>, <<"number", Str(12, 12)>>>>, {"number"})>>,
                     <<"bill", Obj(<<<<"note", [Str(NoBound, 30) EXCEPT !.nullable = TRUE]>>>>, {})>>>>, {})
            EXCEPT !.tag = "method"]
Order == Obj(<<<<"customer", [Num(NoBound, NoBound) EXCEPT !.id = TRUE]>>,
               <<"lines", Arr(Obj(<<<<"count", Num(1, 3)>>>>, {"count"}), 1, 3)>>,
               <<"state", [Str(NoBound, NoBound) EXCEPT !.enum = TRUE]>>,
               <<"payment", Payment>>>>, {"customer", "lines"})
Note == Obj(<<<<"text", Str(2, 5)>>, <<"tags", Arr(Num(NoBound, 9), NoBound, 2)>>>>, {"text"})

Tmpl(name, typed, schema, enc, bodies, queries, segs, histories) ==
    [name |-> name, typed |-> typed, schema |-> schema, enc |-> enc, bodies |-> bodies,
     queries |-> queries, segs |-> segs, histories |-> histories]
Bug(tmpl, needs, exc, severities) ==
    [tmpl |-> tmpl, needs |-> needs, exc |-> exc, severities |-> severities]

PutOrder == Tmpl("order", TRUE, Order, "json", {}, {<<>>}, {"uuid"}, {<<>>, <<TRUE, FALSE, TRUE>>})
PostNote == Tmpl("note", TRUE, Note, "form", {}, {<<>>, <<"page", "sort">>}, {""}, {<<>>})
Search == Tmpl("search", FALSE, Note, "json",
               {Object(<<<<"q", Text(1)>>, <<"n", Number(1)>>, <<"p", Text(2)>>>>), Text(3)},
               {<<"page", "sort">>, <<"sort">>}, {"uuid", "a"}, {<<>>, <<FALSE, TRUE>>})

MCServers == {
    [templates |-> {PutOrder},
     bugs |-> <<Bug("order", {<<<<"payment", "method">>, "string">>, <<<<"lines">>, "array">>}, "null", {2, 3}),
                Bug("order", {<<<<"lines", "item", "count">>, "string">>}, "cast", {2})>>,
     results |-> 1],
    [templates |-> {PostNote, Search},
     bugs |-> <<Bug("note", {<<<<"text">>, "string">>, <<<<"?">>, "sort">>}, "format", {1, 2}),
                Bug("note", {<<<<"tags", "item">>, "number">>}, "", {2}),
                Bug("search", {<<<<"q">>, "string">>}, "format", {1, 3}),
                Bug("search", {<<<<"?">>, "page">>, <<<<"/">>, "uuid">>}, "", {1})>>,
     results |-> 2]}

Facts2 == {<<<<"id", "1">>, <<"name", "a">>>>, <<<<"id", "2">>, <<"name", "b">>, <<"owner", "1">>>>,
           <<<<"id", "3">>, <<"owner", "2">>>>, <<<<"id", "1">>, <<"name", "{">>>>}
MCRejected(v) == v = "{"
MCKeys == <<"csrf", "id", "name", "owner">>
MCTokenKeys == <<"csrf">>
MCPaths == {<<"a", "b", "c", "d">>, <<"a">>}
=============================================================================
