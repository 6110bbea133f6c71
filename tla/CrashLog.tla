------------------------------ MODULE CrashLog ------------------------------
(***************************************************************************)
(* What handleResult does with a server error (engine/crash.go, minimize.go*)
(* cluster.go): recordCrash drops a signature it knows, folds a new one    *)
(* into the cluster of its root cause, and shrinks the request by sending  *)
(* smaller ones, all within the main loop.  What it leaves is a finding    *)
(* with a reproducer.  The replays it queues are in Scheduler.             *)
(*                                                                         *)
(* The server crashes on a request that has every feature one of its bugs  *)
(* needs.  A probe may get no answer; lost says which.                     *)
(***************************************************************************)
EXTENDS Clusters

CONSTANTS
    Servers,         \* the servers to fuzz: [templates, bugs, results: bound on those handled]
    BodiesOf(_),     \* a template's bodies, as they are rendered: [mode, label, value, places]
    MaxProbes,       \* -minimize-max-probes
    ReproRuns,       \* -repro-runs
    TriageBudget,    \* the share of the time budget, in requests
    Losses           \* sets of probes that a crash may lose

IsSequence(s) == Len(s) \in Nat /\ DOMAIN s = 1 .. Len(s)

\* A body says what stands at each of its places: [key: the name of its field, mark:
\* what a server sees there, kids: how many it was built with].  A place is the
\* positions of kids from the root down.
IsBody(body) ==
    /\ DOMAIN body \subseteq Seq(Nat) /\ <<>> \in DOMAIN body
    /\ \A p \in DOMAIN body : \A k \in DOMAIN p :
         /\ SubSeq(p, 1, k - 1) \in DOMAIN body
         /\ p[k] \in 1 .. body[SubSeq(p, 1, k - 1)].kids
    /\ \A p \in DOMAIN body :
         /\ body[p].kids \in Nat
         /\ \A i \in 1 .. body[p].kids : Append(p, i) \in DOMAIN body

\* A query is a list of keys, and the bugs of a server are numbered from 1.
ASSUME CrashLogAssumption ==
    /\ {MaxProbes, ReproRuns, TriageBudget} \subseteq Nat
    /\ \A s \in Servers : \A t \in s.templates :
         /\ \A q \in t.queries : IsSequence(q)
         /\ \A b \in BodiesOf(t) : IsBody(b.places)
    /\ \A s \in Servers : IsSequence(s.bugs) /\ \A b \in DOMAIN s.bugs : s.bugs[b].severities \subseteq Int

VARIABLES
    server,     \* the one this run fuzzes; never changes
    last,       \* the request under way, or none
    spent,      \* f.triageTimeSpent, in requests sent
    handled     \* results so far

crashVars == <<server, last, findings, clusters, spent, handled>>

-----------------------------------------------------------------------------
(* Requests and the server.                                                *)

\* What the server sees: a body in another encoding than its own means nothing.
Features(item, enc, tree) ==
    {<<<<"?">>, item.query[i]>> : i \in DOMAIN item.query} \cup {<<<<"/">>, item.seg>>}
      \cup (IF enc = item.tmpl.enc THEN {tree[p].mark : p \in DOMAIN tree} ELSE {})

FirstBug(item, enc, tree) ==
    LET hit == {b \in DOMAIN server.bugs :
                  /\ server.bugs[b].tmpl = item.tmpl.name
                  /\ server.bugs[b].needs \subseteq Features(item, enc, tree)}
    IN IF hit = {} THEN 0 ELSE CHOOSE b \in hit : \A c \in hit : b <= c

\* prepareItemForSend: a typed body goes out in the encoding of its template,
\* any other as it stands.
Crashes(item) ==
    IF item.tmpl.typed THEN FirstBug(item, item.tmpl.enc, item.tree)
    ELSE FirstBug(item, item.enc, item.body)

\* The reproducer script sends the text of the body as it stands.
ScriptCrashes(item) == FirstBug(item, item.enc, item.body)

-----------------------------------------------------------------------------
(* Minimization.  m.item is the request accepted so far, m.root the working *)
(* copy of its body, which the accepted request shares.                     *)

\* trySet: a candidate equal to the request in path and body is not sent.
Try(m, cand, lost) ==
    IF \/ <<cand.query, cand.seg, cand.enc, cand.body>> = <<m.item.query, m.item.seg, m.item.enc, m.item.body>>
       \/ m.probes = MaxProbes
    THEN m
    ELSE LET crashed == m.probes + 1 \notin lost /\ Crashes(cand) # 0
         IN [item |-> IF crashed THEN cand ELSE m.item, root |-> m.root, probes |-> m.probes + 1]

\* A candidate in which one thing is edited: a key is dropped from the query or from
\* the top of the body, or a segment of the path replaced that has not been so far.
\* What is left keeps its position.
DropKey(query, key) == [i \in {j \in DOMAIN query : query[j] # key} |-> query[i]]
DropField(body, key) ==
    [p \in {q \in DOMAIN body : q # <<>> => body[<<q[1]>>].key # key} |-> body[p]]
Edited(item, edit) ==
    CASE edit.part = "query" -> [item EXCEPT !.query = DropKey(@, edit.what)]
      [] edit.part = "body" -> [item EXCEPT !.body = DropField(@, edit.what)]
      [] edit.part = "segment" /\ item.seg = edit.what -> [item EXCEPT !.seg = edit.by]
      [] OTHER -> item

\* Mutant of TryAll: every candidate is made from the request as it first was.
TryAllOnFirst(m, edits, lost) ==
    LET tried[k \in 0 .. Len(edits)] ==
            IF k = 0 THEN m ELSE Try(tried[k - 1], Edited(m.item, edits[k]), lost)
    IN tried[Len(edits)]

\* Each edit is tried once, on top of those that were accepted.
TryAll(m, edits, lost) ==
    LET tried[k \in 0 .. Len(edits)] ==
            IF k = 0 THEN m ELSE Try(tried[k - 1], Edited(tried[k - 1].item, edits[k]), lost)
    IN tried[Len(edits)]

MinimizeQuery(m, lost) ==
    TryAll(m, [k \in 1 .. Len(m.item.query) |-> [part |-> "query", what |-> m.item.query[k]]], lost)

\* A form or JSON body that is no tree loses top-level keys only (bodies without
\* repeated keys: decoding would fold those).
MinimizeFlat(m, lost) ==
    TryAll(m, [k \in 1 .. m.item.body[<<>>].kids |-> [part |-> "body", what |-> m.item.body[<<k>>].key]], lost)

Dynamic(seg) == seg \notin {"id", "a", ""}
Replacements == <<"0", "1", "id", "a">>
Replacing(seg) == [k \in 1 .. 4 |-> [part |-> "segment", what |-> seg, by |-> Replacements[k]]]
MinimizeSegment(m, lost) ==
    IF Dynamic(m.item.seg) THEN TryAll(m, Replacing(m.item.seg), lost) ELSE m

\* A body without what stands at a place and below it.
Gone(body, at) == [p \in {q \in DOMAIN body : ~IsPrefix(at, q)} |-> body[p]]

\* One candidate: the working copy without what stands at a place.
Cut(m, at) == [item |-> m.item, root |-> Gone(m.root, at), probes |-> m.probes]
Candidate(m) == [m.item EXCEPT !.tree = m.root, !.body = m.root, !.enc = "json"]

\* Mutant of Restored: a rejected candidate's kid is not put back.
NotRestored(m, before) == m

\* A rejected candidate's kid is put back where it was.
Restored(m, before) == [item |-> m.item, root |-> before.root, probes |-> m.probes]

\* A walk over the working copy w.m.root: the places to go to, the first of them the
\* one it is at, and the kid to try next, by its position before any was dropped.
TryKid(w, lost) ==
    LET cut == Cut(w.m, Append(Head(w.todo), w.kid))
        tried == Try(cut, Candidate(cut), lost)
    IN [m |-> IF tried.item # w.m.item THEN tried ELSE Restored(tried, w.m),
        todo |-> w.todo, kid |-> w.kid + 1]

\* The kids of a place are all tried before those of any kid that is left; one
\* that was dropped has none.
Visit(w, lost) ==
    LET at == Head(w.todo)
        kids == IF at \in DOMAIN w.m.root THEN w.m.root[at].kids ELSE 0
    IN IF w.todo = <<>> THEN w
       ELSE IF w.kid <= kids THEN TryKid(w, lost)
       ELSE [m |-> w.m, kid |-> 1, todo |-> [i \in 1 .. kids |-> Append(at, i)] \o Tail(w.todo)]

\* Each kid costs a probe, and each place but the root was a kid: after so many steps
\* the walk is over or out of probes, and changes nothing more.
WalkSteps == 2 * MaxProbes + 1

\* The accepted request holds the working copy itself, whatever became of it.
MinimizeTree(m, lost) ==
    LET walk[k \in 0 .. WalkSteps] ==
            IF k = 0 THEN [m |-> m, todo |-> <<<<>>>>, kid |-> 1] ELSE Visit(walk[k - 1], lost)
        done == walk[WalkSteps].m
    IN IF done.item = m.item THEN done
       ELSE [item |-> [done.item EXCEPT !.tree = done.root], root |-> done.root, probes |-> done.probes]

MinimizeCrashCandidate(item, lost) ==
    LET start == [item |-> item, root |-> item.tree, probes |-> 0]
        query == MinimizeQuery(start, lost)
        body == IF item.tmpl.typed THEN MinimizeTree(query, lost) ELSE MinimizeFlat(query, lost)
    IN IF MaxProbes = 0 THEN start ELSE MinimizeSegment(body, lost)

\* minimizeChainCandidate: the steps before the last one are dropped from the
\* back while the last one still crashes.  A step is whether it crashes when
\* it is sent again; handed over are the steps that succeeded before the crash.
MinimizeChain(history) ==
    FoldLeft(LAMBDA c, k :
                 LET shorter == RemoveAt(c.steps, Len(history) - k)
                     sent == IF Len(shorter) <= MaxProbes - c.probes THEN Len(shorter) ELSE MaxProbes - c.probes
                 IN IF c.probes = MaxProbes THEN c
                    ELSE [steps |-> IF sent = Len(shorter) /\ Last(shorter) THEN shorter ELSE c.steps,
                          probes |-> c.probes + sent],
             [steps |-> history, probes |-> 0], [k \in 1..(Len(history) - 1) |-> k])

-----------------------------------------------------------------------------
(* recordCrash.                                                            *)

\* crashSignature in balanced mode: route, query keys, exception, mutation.
Signature(item, bug) == <<item.tmpl.name, ToSet(item.query), bug.exc, item.label>>

\* rootCauseClusterKey: the exception, or the route with the names of the query's keys
\* when the answer has none.  Method and status are the template's.
ClusterKey(item, bug) ==
    IF bug.exc # "" THEN <<"ex", bug.exc>> ELSE <<"ep", item.tmpl.name, ToSet(item.query)>>

RecordCrash(item, bug, severity, lost) ==
    LET sig == Signature(item, bug)
        skipExpensive == spent > TriageBudget
        min == MinimizeCrashCandidate(item, lost)
        chain == MinimizeChain(item.history)
        poc == IF skipExpensive THEN item ELSE [min.item EXCEPT !.history = chain.steps]
    IN IF Known(sig)
       THEN UNCHANGED <<findings, clusters, spent>>
       ELSE /\ Report([sig |-> sig, key |-> ClusterKey(item, bug), severity |-> severity, poc |-> poc,
                       thorough |-> ~skipExpensive /\ lost = {} /\ min.probes < MaxProbes])
            /\ spent' = IF skipExpensive THEN spent
                        ELSE spent + min.probes + chain.probes + ReproRuns

-----------------------------------------------------------------------------

NoRequest == [label |-> "none"]

CrashInit == /\ server \in Servers /\ ClustersInit /\ last = NoRequest /\ spent = 0 /\ handled = 0

\* A request of a template is rendered and sent, alone or at the end of a chain.
Send(tmpl, b, query, seg, history) ==
    /\ last = NoRequest /\ handled < server.results
    /\ last' = [tmpl |-> tmpl, mode |-> b.mode, label |-> b.label, value |-> b.value,
                query |-> query, seg |-> seg, tree |-> b.places, body |-> b.places, enc |-> tmpl.enc, history |-> history]
    /\ UNCHANGED <<server, findings, clusters, spent, handled>>

\* Its result: triage reads the answer, whose wording may vary from one crash to
\* the next of the same signature.
HandleResult(lost) ==
    /\ last # NoRequest
    /\ LET b == Crashes(last)
       IN IF b = 0 THEN UNCHANGED <<findings, clusters, spent>>
          ELSE \E severity \in server.bugs[b].severities :
                 RecordCrash(last, server.bugs[b], severity, lost)
    /\ last' = NoRequest /\ handled' = handled + 1
    /\ UNCHANGED server

CrashNext ==
    \/ \E tmpl \in server.templates :
         \E b \in BodiesOf(tmpl), query \in tmpl.queries, seg \in tmpl.segs, history \in tmpl.histories :
           Send(tmpl, b, query, seg, history)
    \/ \E lost \in Losses : HandleResult(lost)

CrashSpec == CrashInit /\ [][CrashNext]_crashVars

-----------------------------------------------------------------------------
(* Properties.                                                             *)

\* The request a finding is reported with crashes the server, and its text is
\* its tree: no field that a probe showed to matter has been lost on the way.
PocIsWhatCrashed ==
    \A i \in DOMAIN findings :
        LET poc == findings[i].poc
        IN Crashes(poc) # 0 /\ (poc.tmpl.typed => poc.body = poc.tree)

\* Nothing can be left out of a request without losing its crash: no key of the query,
\* nothing in a typed body and no field of another.
Minimal(poc) ==
    /\ \A k \in ToSet(poc.query) : Crashes([poc EXCEPT !.query = DropKey(@, k)]) = 0
    /\ poc.tmpl.typed => \A at \in DOMAIN poc.tree \ {<<>>} : Crashes([poc EXCEPT !.tree = Gone(@, at)]) = 0
    /\ ~poc.tmpl.typed => \A at \in DOMAIN poc.body \ {<<>>} :
         Crashes([poc EXCEPT !.body = DropField(@, poc.body[<<at[1]>>].key)]) = 0

\* No bug asks for the segment.
Unasked(seg) == \A b \in DOMAIN server.bugs : <<<<"/">>, seg>> \notin server.bugs[b].needs

\* With answers to every probe and probes to spare, the reported request is minimal.
\* That is unless its path was rewritten into one that some bug asks for: the path comes
\* last and nothing is tried again.
PocMinimal ==
    \A i \in DOMAIN findings :
        LET poc == findings[i].poc
        IN findings[i].thorough /\ (poc.seg \in ToSet(Replacements) => Unasked(poc.seg)) => Minimal(poc)

\* The reproducer script of a finding crashes the server when it is run.
ScriptReproduces == \A i \in DOMAIN findings : ScriptCrashes(findings[i].poc) # 0
=============================================================================
