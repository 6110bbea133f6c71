------------------------------- MODULE Chains -------------------------------
(***************************************************************************)
(* Stateful sequences (engine/sequence.go, pagination.go) over the         *)
(* resource graph, against a server whose objects come and go: a request   *)
(* that succeeds starts or continues a chain, whose next requests are bound*)
(* to what the chain has produced.  handleResult runs                      *)
(* enqueueSequenceFollowups for successes only, so a chain ends silently   *)
(* at its first failure.                                                   *)
(*                                                                         *)
(* Scores, counters and coverage are left out: followups come in any order,*)
(* and whether a step was new is a choice.                                 *)
(* An answer's links address resources; one that addresses a list (whose   *)
(* last word would be taken for an id) is left out.                        *)
(***************************************************************************)
EXTENDS ResourceGraph

CONSTANTS
    None,
    Writes(_),     \* the types of the ids a template declares to produce
    Reads(_),      \* and those it declares to consume
    Plain,         \* types whose path parameter carries no id-like name
    Targets,       \* the servers a run may meet, each with its grammar of templates
                   \* [method, path: types of its ids, coll: type or None, query: Labels],
                   \* the root objects it starts with, the ids the dictionary guesses and
                   \* the asides its answers may carry
    MaxDepth, Fanout, QueueMax,   \* -sequence-max-depth, -fanout, sequenceQueueMax
    Seeds, MaxFlight, MaxObjects  \* bounds: seeds sent, requests in flight, objects of a type

Resources == Types \X (1 .. MaxObjects)     \* all that a server may have
Labels == Types \cup {None}                  \* the type a field's name tells, if it does
Brief == -1       \* a text that has not the shape of an id; those above MaxObjects have

\* A link: the header or relation it stands under, the type the relation's name
\* tells, the resources its path names and what its query says.
Uris == [group : Types \cup {"Location", "Content-Location", "Link", "self", "Set-Cookie"},
         rel : Labels, route : Seq(Types \X Int), query : Seq(Labels \X Int)]

ASSUME ChainsAssumption ==
    /\ MaxDepth \in Nat \ {0} /\ Fanout \in Nat \ {0} /\ QueueMax \in Nat \ {0}
    /\ MaxObjects \in Nat
    /\ None \notin Types /\ "request_path" \notin Types

\* POST and GET may address a collection, PUT and DELETE a resource.
ASSUME TargetsAssumption ==
    \A s \in Targets :
        /\ s.style \in {"echo", "location", "hal", "jsonapi"}
        /\ s.roots \subseteq Resources /\ IsFiniteSet(s.grammar)
        /\ s.paged \subseteq Int \cup {None}
        /\ \A a \in s.asides : /\ a.uris \in Seq(Uris) /\ a.named \in Seq(Types \X Int)
                              /\ a.told \in Seq(Labels \X Int)
        /\ \A t \in s.grammar :
              /\ t.method \in {"POST", "GET", "PUT", "DELETE"}
              /\ t.path \in Seq(Types) /\ t.coll \in Labels /\ t.query \in Seq(Labels \ Plain)
              /\ t.method = "POST" => t.coll # None
              /\ t.method \in {"PUT", "DELETE"} => t.coll = None
              /\ t.coll = None => t.path # <<>>

VARIABLES
    target,      \* the server's manner; never changes
    objects,     \* its objects: key -> [parent, live]
    graph,       \* f.resourceGraph
    sequenceQueue, flight,
    seeds,       \* seeds still to be sent
    chains,      \* how many chains have started: their ids
    exemplars,   \* persistedWorkflowExemplars: shape -> [seq, depth, real]
    files,       \* the workflow directory: <<depth, seq>> -> the shape it holds
    findings,    \* stale-object findings, one per template, violation and type
    tidy,        \* history: no answer so far was misleading
    deletions    \* history: all that successful DELETEs named

vars == <<target, objects, graph, sequenceQueue, flight, seeds, chains, exemplars,
          files, findings, tidy, deletions>>

Hole == 0     \* an unfilled "{name}" in a path

With(f, k, v) == [x \in DOMAIN f \cup {k} |-> IF x = k THEN v ELSE f[x]]

NoChain == [id |-> 0, depth |-> 0, values |-> <<>>, history |-> <<>>,
            hot |-> FALSE, tenant |-> NoKey]

-----------------------------------------------------------------------------
(* Paths.                                                                  *)

Keys(path, ids) == [i \in DOMAIN path |-> <<path[i], ids[i]>>]

\* Static segments are <<word, -1>>, the placeholders of a route <<word, -2>>.
Segments(t, ids) ==
    FlattenSeq([i \in DOMAIN t.path |-> <<<<t.path[i], -1>>, <<t.path[i], ids[i]>>>>])
      \o (IF t.coll = None THEN <<>> ELSE <<<<t.coll, -1>>>>)
Norm(t) == Segments(t, [i \in DOMAIN t.path |-> -2])

\* A request as it was sent.
Op(it) == <<it.tmpl, it.ids, it.query>>

\* resourceTypeFromEndpointPath: the last static segment.
OwnType(t) == IF t.coll # None THEN t.coll ELSE Last(t.path)

-----------------------------------------------------------------------------
(* The server.                                                             *)

\* Every resource of a route lies in the one before it.
Rooted(ks, objs) ==
    \A i \in DOMAIN ks :
        /\ ks[i] \in DOMAIN objs
        /\ objs[ks[i]].parent = (IF i = 1 THEN NoKey ELSE ks[i - 1])

Reachable(ks) ==
    /\ Rooted(ks, objects)
    /\ target.leaky \/ \A i \in DOMAIN ks : objects[ks[i]].live

Holder(ks) == IF ks = <<>> THEN NoKey ELSE Last(ks)
Unused(type) == {n \in 1 .. MaxObjects : <<type, n>> \notin DOMAIN objects}
Fresh(type) == {n \in Unused(type) : \A m \in Unused(type) : n <= m}
Children(type, parent) ==
    {k[2] : k \in {o \in DOMAIN objects : o[1] = type /\ objects[o].parent = parent
                                          /\ objects[o].live}}
Ascending(S) ==
    {s \in [1 .. Cardinality(S) -> S] : \A i, j \in DOMAIN s : i < j => s[i] < s[j]}

\* What an answer tells: entity ids, links (a cookie is one without a path), the
\* resources that JSON:API names, its other fields, and the next page's cursor.
Refused == [ok |-> FALSE, ids |-> <<>>, uris |-> <<>>, named |-> <<>>, told |-> <<>>,
            cursor |-> None]
Success == [Refused EXCEPT !.ok = TRUE]

Link(group, rel, route) == [group |-> group, rel |-> rel, route |-> route, query |-> <<>>]

\* A resource told about in the server's style.  extractEntityIDs knows neither
\* HAL nor a single JSON:API resource.
Told(ks, k) ==
    CASE target.style = "echo" -> [Success EXCEPT !.ids = <<k[2]>>, !.told = <<<<None, k[2]>>>>]
      [] target.style = "location" ->
           [Success EXCEPT !.ids = <<k[2]>>, !.uris = <<Link("Location", None, Append(ks, k))>>]
      [] target.style = "hal" -> [Success EXCEPT !.uris = <<Link("self", None, Append(ks, k))>>]
      [] target.style = "jsonapi" -> [Success EXCEPT !.named = <<k>>, !.told = <<<<None, k[2]>>>>]

\* A list: HAL links every item under one relation.
Listed(ks, type, ids, cursor) ==
    LET each == [i \in DOMAIN ids |-> <<type, ids[i]>>]
        page == [Success EXCEPT !.cursor = cursor,
                                !.told = IF cursor = None THEN <<>> ELSE <<<<None, cursor>>>>]
    IN IF target.style = "hal"
       THEN [page EXCEPT !.uris = [i \in DOMAIN ids |-> Link(type, type, Append(ks, each[i]))]]
       ELSE [page EXCEPT !.ids = ids, !.told = [i \in DOMAIN ids |-> <<None, ids[i]>>] \o @,
                         !.named = IF target.style = "jsonapi" THEN each ELSE <<>>]

\* What else an answer says stands before or after: JSON objects have no order.
Beside(r, a) ==
    {[r EXCEPT !.uris = p[1].uris \o p[2].uris, !.named = p[1].named \o p[2].named,
               !.told = p[1].told \o p[2].told] : p \in {<<r, a>>, <<a, r>>}}

\* The answers to a request and what each leaves of the objects.
Outcomes(it) ==
    LET t == it.tmpl
        ks == Keys(t.path, it.ids)
        Leaving(r, os) == {[resp |-> b, objects |-> os] :
                              b \in UNION {Beside(r, a) : a \in target.asides}}
    IN IF ~Reachable(ks) \/ (t.method = "POST" /\ Unused(t.coll) = {})
       THEN {[resp |-> Refused, objects |-> objects]}
       ELSE CASE t.method = "POST" ->
                   UNION {LET new == With(objects, k, [parent |-> Holder(ks), live |-> TRUE])
                          IN Leaving(Told(ks, k), new) : k \in {t.coll} \X Fresh(t.coll)}
              [] t.method = "GET" /\ t.coll # None ->
                   UNION {Leaving(Listed(ks, t.coll, ids, m), objects) :
                             ids \in Ascending(Children(t.coll, Holder(ks))), m \in target.paged}
              [] t.method = "DELETE" ->
                   Leaving(Success, [objects EXCEPT ![Last(ks)].live = FALSE])
              [] OTHER ->
                   Leaving(IF target.style = "location" THEN Success
                           ELSE Told(Front(ks), Last(ks)), objects)

-----------------------------------------------------------------------------
(* Extraction and the graph.                                               *)

Cand(k, group) == [key |-> k, group |-> group]
Routed(ks, group) == [i \in DOMAIN ks |-> Cand(ks[i], group)]

\* classifyValueShape, where it is enough for ResourceGraphMinConfidence: a number
\* is not, unless the field's name says that it is an id.
Sure(said) == said[1] # None \/ said[2] > MaxObjects \/ (target.uuid /\ said[2] # Brief)
Meant(it, said) == <<IF said[1] = None THEN OwnType(it.tmpl) ELSE said[1], said[2]>>

\* Fields and parameters: a value is of the type its name tells, else of the endpoint's.
Labelled(it, all) ==
    FlattenSeq([i \in DOMAIN all |-> IF Sure(all[i]) THEN <<Cand(Meant(it, all[i]), None)>>
                                     ELSE <<>>])

\* How far a template of the same length follows a route.
Matched(route) ==
    Max({0} \cup {n \in DOMAIN route :
        \E m \in target.grammar :
            /\ m.coll = None /\ Len(m.path) = Len(route)
            /\ \A i \in 1 .. n : m.path[i] = route[i][1]})

\* A link: the ids that a template knows count, else the last, as what the relation
\* says; then its query.
Followed(it, u) ==
    LET n == Matched(u.route)
        path == IF n # 0 THEN Routed(SubSeq(u.route, 1, n), u.group)
                ELSE IF u.route = <<>> THEN <<>>
                ELSE <<Cand(IF u.rel = None THEN Last(u.route) ELSE <<u.rel, Last(u.route)[2]>>, None)>>
    IN path \o Labelled(it, u.query)

Linked(it, resp) == FlattenSeq([i \in DOMAIN resp.uris |-> Followed(it, resp.uris[i])])

Named(resp) == [i \in DOMAIN resp.named |-> Cand(resp.named[i], None)]

\* What a request says in its query.
Queried(it) == [i \in DOMAIN it.tmpl.query |-> <<it.tmpl.query[i], it.query[i]>>]

\* extractResourceCandidates, then the request's own path and query.
Candidates(it, resp) ==
    Linked(it, resp) \o Named(resp) \o Labelled(it, resp.told)
      \o Routed(Keys(it.tmpl.path, it.ids), "request_path") \o Labelled(it, Queried(it))

\* Mutant of Judged: every mention is.
JudgedNever(s, k) == FALSE

\* Only the first mention of a resource in a step is judged (firstIdentityForValue).
Judged(s, k) == k \in s.seen

\* What was touched, with its tenant: an instance evicted since is no longer updated.
Touched(s, g, k) ==
    LET now(e) == IF ~Known(s.graph, e[1]) THEN <<NoKey, e[2]>>
                  ELSE IF e[1] = k THEN <<k, g.inst[k].tenant>> ELSE e
    IN Append([i \in DOMAIN s.touched |-> now(s.touched[i])], <<k, g.inst[k].tenant>>)

\* One candidate.  Neighbours under one relation are linked, parent before child,
\* be they of one link or of two.
RecordCandidate(it, seq, s, c) ==
    LET method == it.tmpl.method
        prior == Prior(s.graph, c.key)
        kind == Violation(method, prior)
        g1 == RecordInstance(s.graph, c.key, Op(it), seq, NextLife(method, prior))
        linked == c.group # None /\ c.group = s.group /\ s.last[1] # c.key[1]
        g2 == IF linked THEN LinkParent(g1, s.last, c.key) ELSE g1
    IN [graph   |-> g2,
        group   |-> c.group,
        last    |-> c.key,
        touched |-> Touched(s, g2, c.key),
        seen    |-> s.seen \cup {c.key},
        faults  |-> IF Judged(s, c.key) \/ kind = "none" THEN s.faults
                    ELSE s.faults \cup {[tmpl |-> it.tmpl, kind |-> kind, key |-> c.key]}]

RecordStep(it, resp, seq) ==
    LET cs == Candidates(it, resp)
        before == [graph |-> graph, group |-> None, last |-> NoKey, touched |-> <<>>,
                   seen |-> {}, faults |-> {}]
        after[n \in 0 .. Len(cs)] ==
            IF n = 0 THEN before ELSE RecordCandidate(it, seq, after[n - 1], cs[n])
    IN after[Len(cs)]

\* recordAdversarialFinding keeps the first of a template, violation and type.
Dedup(old, new) ==
    old \cup {CHOOSE f \in new : f.tmpl = n.tmpl /\ f.kind = n.kind /\ f.key[1] = n.key[1]
                : n \in {f \in new : \A o \in old : ~(o.tmpl = f.tmpl /\ o.kind = f.kind
                                                        /\ o.key[1] = f.key[1])}}

\* The chain's scope is the first one that a resource of a step brings.
Adopt(tenant, touched) ==
    LET scoped == SelectSeq(touched, LAMBDA e : e[2] # NoKey)
    IN IF tenant # NoKey \/ scoped = <<>> THEN tenant ELSE scoped[1][2]

-----------------------------------------------------------------------------
(* The chain.                                                              *)

\* values: every entity id under the resource's name and under "id", the last
\* winning; the first under each dependency the template produces.
Bind(values, it, ids) ==
    LET own == OwnType(it.tmpl)
    IN IF ids = <<>> THEN values
       ELSE [x \in {<<"dep", d>> : d \in Writes(it.tmpl)} |-> ids[1]]
              @@ (<<"key", own>> :> Last(ids)) @@ (<<"key", "id">> :> Last(ids)) @@ values

\* The texts a parameter of a type may be rendered as.
Renderings(values, type) ==
    CASE type \in Plain -> {Hole} \cup target.guesses
      [] <<"dep", type>> \in DOMAIN values -> {values[<<"dep", type>>]}
      [] <<"key", type>> \in DOMAIN values -> {values[<<"key", type>>]}
      [] <<"key", "id">> \in DOMAIN values -> {values[<<"key", "id">>]}
      [] OTHER -> target.guesses

\* A page parameter starts with a text of the dictionary.
QueriesOf(t, values) ==
    {q \in [DOMAIN t.query -> {Brief} \cup target.guesses \cup Range(values)] :
        \A i \in DOMAIN q : q[i] \in IF t.query[i] = None THEN {Brief}
                                     ELSE Renderings(values, t.query[i])}

PathsOf(t, values) ==
    {ids \in [DOMAIN t.path -> {Hole} \cup target.guesses \cup Range(values)] :
        \A i \in DOMAIN ids : ids[i] \in Renderings(values, t.path[i])}

\* rePathParam.ReplaceAllString: one value for every hole.
FillHoles(ids, v) == [i \in DOMAIN ids |-> IF ids[i] = Hole THEN v ELSE ids[i]]

Item(t, ids, query, depth, chain, pick) ==
    [tmpl |-> t, ids |-> ids, query |-> query, depth |-> depth, chain |-> chain, pick |-> pick]

\* The followups a template can become: its holes are left to a deleted resource
\* now and then, else to the newest live one of the chain's tenant, else to
\* the answer's first id.
Branches(t, c, ids, g) ==
    LET own == OwnType(t)
        stale == Newest(g, own, FindCompatibleResources(g, own, Dead))
        live == Newest(g, own, FindCompatibleInTenant(g, own, c.tenant, Alive))
        first == IF ids = <<>> THEN Hole ELSE ids[1]
        Bound(raw, q) ==
            IF Hole \notin Range(raw) THEN {Item(t, raw, q, c.depth, c, NoKey)}
            ELSE {Item(t, FillHoles(raw, k[2]), q, c.depth, c, NoKey) : k \in stale}
                 \cup (IF live # {} THEN {Item(t, FillHoles(raw, k[2]), q, c.depth, c, k) : k \in live}
                       ELSE {Item(t, FillHoles(raw, first), q, c.depth, c, NoKey)})
    IN UNION {Bound(raw, q) : raw \in PathsOf(t, c.values), q \in QueriesOf(t, c.values)}

\* depIndex: a declared id is also known as "id", and a write produces its own
\* resource's id.
Produces(t) == Writes(t) \cup (IF Writes(t) = {} THEN {} ELSE {"id"})
                 \cup (IF t.method \in {"POST", "PUT"} THEN {OwnType(t)} ELSE {})
Consumes(t) == Reads(t) \cup (IF Reads(t) = {} THEN {} ELSE {"id"})

\* findFollowups: consumers of what was produced, and the source's family by
\* the text of the source's path, which is concrete where a route is not.
Followups(it) ==
    LET src == Segments(it.tmpl, it.ids)
        Family(m) == \/ Norm(m) = src /\ m.method # it.tmpl.method
                     \/ IsStrictPrefix(src, Norm(m))
                     \/ IsStrictPrefix(Norm(m), src)
    IN {m \in target.grammar \ {it.tmpl} : Produces(it.tmpl) \cap Consumes(m) # {} \/ Family(m)}

\* rankConsumersCoverageDirected, cut to the fan-out: any n of them in any order.
Rankings(all, n) ==
    {p \in SetToAllKPermutations(all) : Len(p) = IF n < Cardinality(all) THEN n ELSE Cardinality(all)}

Enqueue(q, it) == Append(IF Len(q) >= QueueMax THEN Tail(q) ELSE q, it)

\* Mutant of NextChain: a followup counts as the first of a new chain.
NextRestarted(c) == [c EXCEPT !.depth = 1, !.history = <<Last(@)>>]

NextChain(c) == [c EXCEPT !.depth = @ + 1]

-----------------------------------------------------------------------------
(* Persistence of workflows.                                               *)

Shape(c) == [i \in DOMAIN c.history |-> c.history[i][1]]

\* sequenceHasRealIDChain: a value that a step of the chain brought into the
\* graph stands in a later path or query.  Bodies and headers are left out.
RealIdChain(c, g) ==
    target.uuid /\ \E k \in DOMAIN g.inst : g.inst[k].seq = c.id /\ k[2] \in 1 .. MaxObjects /\
        \E i, j \in DOMAIN c.history :
            /\ i < j /\ c.history[i] = g.inst[k].op
            /\ \A h \in 1..(i - 1) : c.history[h] # c.history[i]
            /\ k[2] \in Range(c.history[j][2]) \cup Range(c.history[j][3])

\* Mutant of Replace: the weaker exemplar's file stays behind.
ReplaceKeepsOld(dir, old, name, shape) == With(dir, name, shape)

Replace(dir, old, name, shape) ==
    With(Restrict(dir, DOMAIN dir \ {<<old.depth, old.seq>>}), name, shape)

\* maybePersistSequence
MaybePersist(c, g) ==
    LET real == c.depth >= 1 /\ RealIdChain(c, g)
        shape == Shape(c)
        name == <<c.depth, c.id>>
        new == [seq |-> c.id, depth |-> c.depth, real |-> real]
    IN CASE c.id = 0 \/ ~c.hot \/ (c.depth < 2 /\ ~real) -> UNCHANGED <<exemplars, files>>
         [] shape \notin DOMAIN exemplars ->
              /\ exemplars' = With(exemplars, shape, new)
              /\ files' = With(files, name, shape)
         [] shape \in DOMAIN exemplars /\ real /\ ~exemplars[shape].real ->
              /\ exemplars' = [exemplars EXCEPT ![shape] = new]
              /\ files' = Replace(files, exemplars[shape], name, shape)
         [] OTHER -> UNCHANGED <<exemplars, files>>

-----------------------------------------------------------------------------
Init ==
    /\ target \in Targets
    /\ objects = [k \in target.roots |-> [parent |-> NoKey, live |-> TRUE]]
    /\ graph = EmptyGraph
    /\ sequenceQueue = <<>> /\ flight = <<>>
    /\ seeds = Seeds /\ chains = 0
    /\ exemplars = <<>> /\ files = <<>>
    /\ findings = {}
    /\ tidy = TRUE /\ deletions = {}

InFlight(it) == [item |-> it, resp |-> None]

\* A template rendered without a chain.
SendSeed ==
    /\ seeds > 0 /\ Len(flight) < MaxFlight
    /\ \E t \in target.grammar : \E ids \in PathsOf(t, <<>>), q \in QueriesOf(t, <<>>) :
         flight' = Append(flight, InFlight(Item(t, ids, q, 0, NoChain, NoKey)))
    /\ seeds' = seeds - 1
    /\ UNCHANGED <<target, objects, graph, sequenceQueue, chains, exemplars, files, findings,
                   tidy, deletions>>

SendQueued ==
    /\ sequenceQueue # <<>> /\ Len(flight) < MaxFlight
    /\ flight' = Append(flight, InFlight(Head(sequenceQueue)))
    /\ sequenceQueue' = Tail(sequenceQueue)
    /\ UNCHANGED <<target, objects, graph, seeds, chains, exemplars, files, findings, tidy,
                   deletions>>

\* What a successful answer says is there, and what it says it of; and no two links
\* under one relation name resources of different types.
Tidy(it, resp, objs) ==
    /\ \A k \in Range(resp.named) : k \in DOMAIN objs
    /\ \A all \in {resp.told, Queried(it)} \cup {u.query : u \in Range(resp.uris)} :
          \A said \in Range(all) : Sure(said) => Meant(it, said) \in DOMAIN objs
    /\ \A u \in Range(resp.uris) :
          Rooted(u.route, objs) /\ (u.route # <<>> => u.rel \in {None, Last(u.route)[1]})
    /\ \A i, j \in DOMAIN resp.uris :
          i # j /\ resp.uris[i].group = resp.uris[j].group =>
              \A k \in Range(resp.uris[i].route), l \in Range(resp.uris[j].route) : k[1] = l[1]

\* The server decides; its answer travels.
Answer ==
    /\ \E i \in DOMAIN flight :
         /\ flight[i].resp = None
         /\ \E o \in Outcomes(flight[i].item) :
              /\ flight' = [flight EXCEPT ![i].resp = o.resp]
              /\ objects' = o.objects
              /\ tidy' = (tidy /\ (o.resp.ok => Tidy(flight[i].item, o.resp, o.objects)))
    /\ UNCHANGED <<target, graph, sequenceQueue, seeds, chains, exemplars, files, findings,
                   deletions>>

\* At the depth cap the chain is persisted as it arrived, without this step.
AtDepthCap(it) ==
    /\ it.depth >= MaxDepth
    /\ MaybePersist(it.chain, graph)
    /\ UNCHANGED <<graph, chains, findings, sequenceQueue, deletions>>

\* A step that tells of nothing it produced has no consumers.
Silent(it, resp) ==
    Writes(it.tmpl) = {} /\ resp.ids = <<>> /\ it.tmpl.method \in {"GET", "DELETE"}
Consumers(it, resp) == IF Silent(it, resp) THEN {} ELSE Followups(it)

\* The next page of a list, by a link or by the cursor in place of the one before;
\* then the branches of each consumer.
Turned(it, cursor) ==
    [i \in DOMAIN it.query |-> IF it.tmpl.query[i] = None THEN cursor ELSE it.query[i]]

WithPage(it, resp, c) ==
    IF it.tmpl.method = "GET" /\ resp.cursor # None /\ (target.next \/ None \in Range(it.tmpl.query))
    THEN Enqueue(sequenceQueue,
                 Item(it.tmpl, it.ids, Turned(it, resp.cursor), c.depth + 1, NextChain(c), NoKey))
    ELSE sequenceQueue

QueuesFrom(start, order, c, ids, g) ==
    LET queues[m \in 0 .. Len(order)] ==
            IF m = 0 THEN {start}
            ELSE {Enqueue(q, item) : q \in queues[m - 1], item \in Branches(order[m], c, ids, g)}
    IN queues[Len(order)]

QueueNext(it, resp, c, g) ==
    IF Consumers(it, resp) = {} THEN sequenceQueue' = WithPage(it, resp, c)
    ELSE \E n \in Fanout..(Fanout + 2) : \E order \in Rankings(Consumers(it, resp), n) :
           sequenceQueue' \in QueuesFrom(WithPage(it, resp, c), order, NextChain(c), resp.ids, g)

\* A chain that cannot go on is persisted, unless this was its first step.
PersistLast(it, resp, c, g) ==
    IF Followups(it) # {} \/ Silent(it, resp) \/ it.chain.id = 0
    THEN UNCHANGED <<exemplars, files>>
    ELSE MaybePersist(c, g)

Mentions(it, resp) == {c.key : c \in Range(Candidates(it, resp))}

\* enqueueSequenceFollowups; gain says whether the step was new.
Continue(it, resp) ==
    /\ it.depth < MaxDepth
    /\ \E gain \in BOOLEAN :
       LET old == IF it.chain.id = 0 THEN [NoChain EXCEPT !.id = chains + 1] ELSE it.chain
           s == RecordStep(it, resp, old.id)
           c == [old EXCEPT !.history = Append(@, Op(it)),
                            !.hot = @ \/ gain,
                            !.tenant = Adopt(@, s.touched),
                            !.values = Bind(@, it, resp.ids)]
       IN /\ graph' = s.graph
          /\ findings' = Dedup(findings, s.faults)
          /\ deletions' = IF it.tmpl.method = "DELETE" THEN deletions \cup Mentions(it, resp)
                          ELSE deletions
          /\ chains' = IF it.chain.id = 0 THEN chains + 1 ELSE chains
          /\ QueueNext(it, resp, c, s.graph)
          /\ PersistLast(it, resp, c, s.graph)

\* handleResult: a failure ends the chain; a first read goes on when something
\* was learned from it, or by sampling.
Handle ==
    /\ \E i \in DOMAIN flight : LET r == flight[i] IN
         /\ r.resp # None
         /\ flight' = RemoveAt(flight, i)
         /\ \/ /\ ~r.resp.ok \/ (r.item.chain.id = 0 /\ r.item.tmpl.method \in {"GET", "DELETE"})
               /\ UNCHANGED <<graph, sequenceQueue, chains, exemplars, files, findings, deletions>>
            \/ r.resp.ok /\ AtDepthCap(r.item)
            \/ r.resp.ok /\ Continue(r.item, r.resp)
    /\ UNCHANGED <<target, objects, seeds, tidy>>

Next == SendSeed \/ SendQueued \/ Answer \/ Handle

Spec == Init /\ [][Next]_vars

-----------------------------------------------------------------------------
(* Properties.                                                             *)

\* The graph's indexes agree and its cap holds while chains that know evicted
\* resources are still running (recordInstance, evictIfOverCap).
GraphConsistent == IndexOK(graph)

\* As long as no answer was misleading, the graph holds nothing that the server never
\* had, and its links, which are read off the text of paths and headers in whatever
\* order answers come, name the real container (recordResourceGraphStep).
GraphIsTrue ==
    tidy => \A k \in DOMAIN graph.inst :
                /\ k \in DOMAIN objects
                /\ graph.inst[k].parent \in {NoKey, objects[k].parent}

\* The comment at sequence.go:519: neighbours in a group come from one path, so that
\* whatever an answer says, a link is what a path says.
LinksAreReal ==
    \A k \in DOMAIN graph.inst \cap DOMAIN objects :
        graph.inst[k].parent \in {NoKey, objects[k].parent}

\* D holds with every resource the ones that contain it.
Closed(D) == \A k \in D : objects[k].parent \in D \cup {NoKey}

\* c is k or contains it.
Inside(k, c) == \A D \in SUBSET DOMAIN objects : Closed(D) /\ k \in D => c \in D

\* Whatever a server's answers say, a stale-object finding names a resource that a
\* DELETE named before this step, in its own path or query or in its answer: never
\* one that only the step itself names as deleted (recordStaleObjectFinding).
AccusedWasDeleted == [][\A f \in findings' \ findings : f.key \in deletions]_vars

\* The comment at adversarial.go:145: the request succeeded on a deleted resource,
\* which an honest server does not allow.
StaleFindingsAreReal == ~target.leaky => findings = {}

\* As long as no answer was misleading, a resource the graph supplied to a chain is
\* of the chain's tenant: the tenant itself or something inside it
\* (pickFollowupPathValue).
PicksStayInTenant ==
    tidy => \A i \in DOMAIN sequenceQueue :
        LET it == sequenceQueue[i]
        IN it.pick # NoKey /\ it.chain.tenant # NoKey => Inside(it.pick, it.chain.tenant)

\* A workflow file belongs to an exemplar: upgrading one leaves no file behind
\* (replacePersistedWorkflow).
NoOrphanFiles ==
    DOMAIN files \subseteq {<<exemplars[s].depth, exemplars[s].seq>> : s \in DOMAIN exemplars}

\* What a request can still lead to, with so many steps left to the depth cap: more
\* than a page and the branches of Fanout + 2 consumers, each with a step less.
Worth[left \in 0 .. MaxDepth] == IF left = 0 THEN 1 ELSE (Fanout + 4) * Worth[left - 1]
Weight(it) == Worth[MaxDepth - it.depth]

\* The sum of a list of numbers.
Total(w) ==
    LET sum[k \in 0 .. Len(w)] == IF k = 0 THEN 0 ELSE sum[k - 1] + w[k]
    IN sum[Len(w)]

Load(items) == Total([i \in 1 .. Len(items) |-> Weight(items[i])])
Work == Load(sequenceQueue) + Load([i \in 1 .. Len(flight) |-> flight[i].item])

\* Chains end, pages of lists included: what an answer leaves to be done weighs less
\* than its request did, whatever it branches into (enqueueSequenceFollowups).
ChainsEnd == [][Len(flight') < Len(flight) => Work' < Work]_vars
=============================================================================
