------------------------------- MODULE Bodies -------------------------------
(***************************************************************************)
(* Typed request bodies (engine/body_*.go): a schema tree, the value tree  *)
(* built from it for one rendering, and the structural operators: in valid *)
(* mode the result is meant to conform to the schema, in adversarial mode  *)
(* to break it in exactly one place.                                       *)
(*                                                                         *)
(* A string is its length and, when it means something, a word: the member *)
(* of an enumeration, the tag of a variant.  Random choices are sets of    *)
(* outcomes.  Formats, patterns, fractions and booleans are left out.      *)
(***************************************************************************)
EXTENDS Integers, SequencesExt

-----------------------------------------------------------------------------
(* Values: trees whose kids are the fields of an object or the items of an   *)
(* array.  A path is the positions of kids from the root down.             *)

Value(kind, n, word, kids) == [kind |-> kind, n |-> n, word |-> word, kids |-> kids]
Plain == 0     \* a string that means nothing
Null == Value("null", 0, Plain, <<>>)

KeysOf(v) == {v.kids[i][1] : i \in DOMAIN v.kids}
Without(v, i) == [v EXCEPT !.kids = RemoveAt(@, i)]

\* The node at a path of v.
NodeAt(v, path) ==
    LET node[k \in 0 .. Len(path)] == IF k = 0 THEN v ELSE node[k - 1].kids[path[k]][2]
    IN node[Len(path)]

\* v with new in place of the node at a path: each node above it is rebuilt in turn.
Put(v, path, new) ==
    LET above(k) == SubSeq(path, 1, Len(path) - k)
        put[k \in 0 .. Len(path)] ==
            IF k = 0 THEN new
            ELSE [NodeAt(v, above(k)) EXCEPT !.kids[path[Len(path) - k + 1]][2] = put[k - 1]]
    IN put[Len(path)]

-----------------------------------------------------------------------------
(* Schemas and values.                                                     *)

NoBound == -1

\* lo and hi bound a number, a length or the number of items; props holds an
\* object's properties in order, an array's "item", or the variants of a oneOf.
Schema(type, lo, hi, props, required) ==
    [type |-> type, lo |-> lo, hi |-> hi, props |-> props, required |-> required,
     nullable |-> FALSE, enum |-> FALSE, id |-> FALSE, tag |-> ""]

Observed == 99 \* one that was bound to a value observed in a response
Text(n) == Value("string", n, Plain, <<>>)
Word(w) == Value("string", 10, w, <<>>)
Number(n) == Value("number", n, Plain, <<>>)
Object(kids) == Value("object", 0, Plain, kids)

Declared(s) == {s.props[i][1] : i \in DOMAIN s.props}
Prop(s, key) == s.props[CHOOSE i \in DOMAIN s.props : s.props[i][1] = key][2]

Clamp(n, s) ==
    LET up == IF s.lo # NoBound /\ n < s.lo THEN s.lo ELSE n
    IN IF s.hi # NoBound /\ up > s.hi THEN s.hi ELSE up

\* defaultLeafValue: "fuzzstring" has ten letters; the first member of an
\* enumeration is a string whatever the type.
DefaultLeaf(s) ==
    CASE s.enum -> Word(1)
      [] s.type = "integer" -> Number(Clamp(1, s))
      [] OTHER -> Text(Clamp(10, s))

\* bound says what the stores hold for ids: nothing, a number or other text.
Leaf(s, bound) ==
    CASE ~s.id \/ bound = "nothing" -> DefaultLeaf(s)
      [] s.type = "integer" /\ bound = "number" -> Value("number", 7, Observed, <<>>)
      [] OTHER -> Word(Observed)

\* The tag says which variant a value is.
Tagged(v, s, idx) ==
    IF s.tag = "" \/ v.kind # "object" THEN v
    ELSE IF s.tag \in KeysOf(v)
         THEN [v EXCEPT !.kids = [i \in DOMAIN @ |-> IF @[i][1] = s.tag THEN <<s.tag, Word(idx)>>
                                                     ELSE @[i]]]
         ELSE [v EXCEPT !.kids = Append(@, <<s.tag, Word(idx)>>)]

RECURSIVE Build(_, _, _)
Build(s, pick, bound) ==
    CASE s.type = "object" ->
           Object([i \in DOMAIN s.props |-> <<s.props[i][1], Build(s.props[i][2], pick, bound)>>])
      [] s.type = "array" ->
           LET n == IF s.lo > 5 THEN 5 ELSE IF s.lo > 1 THEN s.lo ELSE 1
           IN Value("array", 0, Plain, [i \in 1..n |-> <<"item", Build(Prop(s, "item"), pick, bound)>>])
      [] s.type = "oneOf" ->
           LET idx == IF pick \in DOMAIN s.props THEN pick ELSE 1
           IN Tagged(Build(s.props[idx][2], pick, bound), s, idx)
      [] OTHER -> Leaf(s, bound)

-----------------------------------------------------------------------------
(* What a server that takes its schema seriously would say.                *)

Within(n, s) == /\ s.lo # NoBound => n >= s.lo
                /\ s.hi # NoBound => n <= s.hi

\* Whether a value is right at its own place, whatever is below it.
RightHere(s, v) ==
    CASE s.type = "object" ->
           /\ v.kind = "object" /\ s.required \subseteq KeysOf(v) /\ KeysOf(v) \subseteq Declared(s)
           /\ IsInjective([i \in DOMAIN v.kids |-> v.kids[i][1]])
      [] s.type = "array" -> v.kind = "array" /\ Within(Len(v.kids), s)
      [] s.type = "integer" -> v.kind = "number" /\ Within(v.n, s) /\ ~s.enum
      [] OTHER -> v.kind = "string" /\ (s.enum => v.word = 1) /\ (~s.enum => Within(v.n, s))

\* The number of topmost places where a value disagrees with its schema; a
\* variant agrees as a whole or not at all.
RECURSIVE Breaches(_, _)
Breaches(s, v) ==
    LET Fits(i) ==   \* the tag belongs to the variant even where it is not declared
            LET mine == s.props[i][2]
                tag == IF mine.type = "object" THEN {s.tag} \ Declared(mine) ELSE {}
            IN Breaches(mine, [v EXCEPT !.kids = SelectSeq(@, LAMBDA f : f[1] \notin tag)]) = 0
    IN CASE v.kind = "null" -> IF s.nullable THEN 0 ELSE 1
         [] s.type = "oneOf" ->
              IF \E i \in DOMAIN s.props :
                    /\ Fits(i)
                    /\ s.tag # "" => \E k \in DOMAIN v.kids : v.kids[k] = <<s.tag, Word(i)>>
              THEN 0 ELSE 1
         [] ~RightHere(s, v) -> 1
         [] OTHER -> FoldSeq(+, 0, [i \in DOMAIN v.kids |-> Breaches(Prop(s, v.kids[i][1]), v.kids[i][2])])

-----------------------------------------------------------------------------
(* The operators, on a tree fresh from Build: every property is there, so  *)
(* that add_remove_field only ever removes.                                *)

\* collectBodySites: the co-walk stops below a oneOf.
RECURSIVE Sites(_, _, _)
Sites(s, v, at) ==
    {[at |-> at, schema |-> s, value |-> v]} \cup
    (IF s.type = "oneOf" THEN {}
     ELSE UNION {Sites(Prop(s, v.kids[i][1]), v.kids[i][2], Append(at, i)) : i \in DOMAIN v.kids})

\* Mutant of DropFirst: the first field is dropped, whatever it is.
DropAny(v, keys) == IF v.kids = <<>> THEN {} ELSE {Without(v, 1)}

\* The first field among keys is dropped.
DropFirst(v, keys) ==
    IF KeysOf(v) \cap keys = {} THEN {}
    ELSE {Without(v, CHOOSE i \in DOMAIN v.kids :
                        v.kids[i][1] \in keys /\ \A j \in 1..(i - 1) : v.kids[j][1] \notin keys)}

Resized(s, v, n) ==
    [v EXCEPT !.kids = [i \in 1..n |-> IF i <= Len(@) THEN @[i]
                                       ELSE <<"item", Build(Prop(s, "item"), 1, "nothing")>>]]

Constrained(s) == s.type \in {"integer", "string"} /\ (s.lo # NoBound \/ s.hi # NoBound \/ s.enum)
Synthetic == {Text(10), Number(1337), Value("bool", 0, Plain, <<>>)}

EdgeValue(s) ==
    LET edge == IF s.lo # NoBound THEN s.lo ELSE s.hi
    IN CASE s.enum -> Word(1)
         [] s.type = "integer" -> Number(edge)
         [] OTHER -> Text(edge)

ViolatingValue(s) ==
    CASE s.type = "integer" /\ s.lo # NoBound -> Number(s.lo - 1)
      [] s.type = "integer" /\ s.hi # NoBound -> Number(s.hi + 1)
      [] s.hi # NoBound -> Text(s.hi + 1)
      [] s.lo > 0 -> Text(s.lo - 1)
      [] s.enum -> Text(10)
      [] OTHER -> Text(0)

WrongType(s) ==
    IF s.type = "integer" THEN {Text(12)}
    ELSE {Number(12345), Value("bool", 0, Plain, <<>>), Value("array", 0, Plain, <<>>), Object(<<>>)}

Wrapped(v) == Object(<<<<"wrapped", v>>>>)

ValidOps == {"add_remove_field", "array_resize", "variant_switch", "constraint_boundary"}
AdversarialOps == {"required_omit", "array_resize", "variant_switch", "type_substitution",
    "null_injection", "undeclared_property", "dup_key", "nesting_depth", "constraint_boundary"}

\* The values an operator may leave at a site; none when it does not apply there.
ValidAt(op, s, v) ==
    CASE op = "add_remove_field" /\ s.type = "object" -> DropFirst(v, KeysOf(v) \ s.required)
      [] op = "array_resize" /\ s.type = "array" ->
           LET least == IF s.lo = NoBound THEN 0 ELSE s.lo
               most == IF s.hi = NoBound THEN Len(v.kids) + 2 ELSE s.hi
           IN {Resized(s, v, n) : n \in {least} \cup (least..most)}
      [] op = "variant_switch" /\ s.type = "oneOf" /\ Len(s.props) > 1 ->
           {Build(s, i, "nothing") : i \in DOMAIN s.props}
      [] op = "constraint_boundary" /\ Constrained(s) -> {EdgeValue(s)}
      [] OTHER -> {}

AdversarialAt(op, s, v) ==
    CASE op = "required_omit" /\ s.type = "object" -> DropFirst(v, s.required)
      [] op = "array_resize" /\ s.type = "array" ->
           IF s.lo > 0 THEN {Resized(s, v, s.lo - 1)}
           ELSE IF s.hi # NoBound THEN {Resized(s, v, s.hi + 1)} ELSE {}
      [] op = "variant_switch" /\ s.type = "oneOf" /\ Len(s.props) > 1 ->
           {Tagged(Build(s, i, "nothing"), s, (i % Len(s.props)) + 1) : i \in DOMAIN s.props}
      [] op = "type_substitution" /\ s.type \in {"integer", "string"} -> WrongType(s)
      [] op = "null_injection" /\ ~s.nullable -> {Null}
      [] op = "undeclared_property" /\ s.type = "object" ->
           {[v EXCEPT !.kids = InsertAt(@, i, <<"extra", x>>)] : i \in 1..(Len(v.kids) + 1), x \in Synthetic}
      [] op = "dup_key" /\ s.type = "object" ->
           {[v EXCEPT !.kids = Append(@, <<k, x>>)] : k \in KeysOf(v), x \in Synthetic}
      [] op = "nesting_depth" -> {Wrapped(Wrapped(Wrapped(Wrapped(v))))}
      [] op = "constraint_boundary" /\ Constrained(s) -> {ViolatingValue(s)}
      [] OTHER -> {}

Everywhere(s, tree, At(_, _)) ==
    UNION {{Put(tree, x.at, new) : new \in At(x.schema, x.value)} : x \in Sites(s, tree, <<>>)}

\* buildAndMutateBodyTree: one operator, tried once.
Rendered(s, mode, bound) ==
    LET tree == Build(s, 1, bound)
        Body(op, t) == [mode |-> mode, label |-> op, tree |-> t]
        Results(op) == IF mode = "valid"
                       THEN Everywhere(s, tree, LAMBDA x, v : ValidAt(op, x, v))
                       ELSE Everywhere(s, tree, LAMBDA x, v : AdversarialAt(op, x, v))
    IN {Body("", tree)}
         \cup {Body(op, t) : <<op, t>> \in
               UNION {{op} \X Results(op) : op \in IF mode = "valid" THEN ValidOps ELSE AdversarialOps}}
=============================================================================
