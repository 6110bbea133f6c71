------------------------------ MODULE Rendering ------------------------------
(***************************************************************************)
(* The requests that Results is about: the bodies of CrashLog are those    *)
(* that Bodies builds and mutates for a schema.                            *)
(***************************************************************************)
EXTENDS Results, Bodies

\* Every path of a value.
RECURSIVE Nodes(_, _)
Nodes(v, at) == {at} \cup UNION {Nodes(v.kids[i][2], Append(at, i)) : i \in DOMAIN v.kids}

\* The names of the fields on the way to a path.
Names(v, path) == [k \in DOMAIN path |-> NodeAt(v, SubSeq(path, 1, k - 1)).kids[path[k]][1]]

\* What the server and the minimizer see of a value: what kind of value stands where.
PlacesOf(v) ==
    LET Place(path) == [key |-> IF path = <<>> THEN "" ELSE Last(Names(v, path)),
                        mark |-> <<Names(v, path), NodeAt(v, path).kind>>,
                        kids |-> Len(NodeAt(v, path).kids)]
    IN [path \in Nodes(v, <<>>) |-> Place(path)]

\* renderTemplateContext: a template with a schema has its body built and mutated,
\* with what the stores hold at the time; another has the bodies it was captured with.
BodiesFor(tmpl) ==
    IF tmpl.typed
    THEN UNION {Rendered(tmpl.schema, mode, bound) :
                  mode \in {"valid", "adversarial"}, bound \in {"nothing", "number", "text"}}
    ELSE {[mode |-> "valid", label |-> "", tree |-> t] : t \in tmpl.bodies}

\* A table, so that each body is built once.
RenderedBodies ==
    [tmpl \in UNION {s.templates : s \in Servers} |->
       {[mode |-> b.mode, label |-> b.label, value |-> b.tree, places |-> PlacesOf(b.tree)] :
          b \in BodiesFor(tmpl)}]
RequestBodies(tmpl) == RenderedBodies[tmpl]

-----------------------------------------------------------------------------

\* Schemas that the builder honours; see the README for the others.
RECURSIVE Honoured(_)
Honoured(s) ==
    /\ s.type = "integer" => ~s.enum
    /\ s.type = "array" => s.lo <= 5 /\ s.hi # 0
    /\ s.type = "string" => s.lo # 0
    /\ s.type = "oneOf" => s.tag # ""
    /\ s.id => ~s.enum /\ s.lo = NoBound /\ s.hi = NoBound
    /\ \A i \in DOMAIN s.props : Honoured(s.props[i][2])

\* An id is bound to whatever was observed, so that a text may come to stand where the
\* schema has an integer: a breach that nobody asked for (bodyLeafValueForBind).
RECURSIVE IntegerIds(_)
IntegerIds(s) ==
    \/ s.id /\ s.type = "integer"
    \/ \E i \in DOMAIN s.props : IntegerIds(s.props[i][2])
Misbound(s, v) ==
    IntegerIds(s) /\ \E path \in Nodes(v, <<>>) :
        NodeAt(v, path).kind = "string" /\ NodeAt(v, path).word = Observed

\* Unless an id was bound to a text in place of a number, a body rendered in valid
\* mode conforms to its schema, and one rendered in adversarial mode, when its
\* operator applied, breaks it in exactly one place (flags.go: "exactly one deliberate
\* structural violation").
BodiesAsAsked ==
    last # NoRequest /\ last.tmpl.typed /\ Honoured(last.tmpl.schema)
      /\ ~Misbound(last.tmpl.schema, last.value) =>
        Breaches(last.tmpl.schema, last.value) =
            IF last.mode = "adversarial" /\ last.label # "" THEN 1 ELSE 0
=============================================================================
