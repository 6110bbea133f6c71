------------------------------ MODULE Coverage ------------------------------
(***************************************************************************)
(* How coverage gets from the instrumented target to the engine's count of *)
(* edges.  The target keeps a bitmap of hit counts, which nothing clears   *)
(* between requests, and a virgin map of the (edge, bucket) classes seen;  *)
(* the middleware tells each request in X-Coverage-Delta how many classes  *)
(* its merge found new.  handleResult (engine/worker.go) adds that number  *)
(* to currentEdges, or polls the target's total (engine/coverage.go).  The *)
(* reader of a bitmap file on the same machine is not modelled.            *)
(*                                                                         *)
(* A request's executions of edges, its merge and the handling of its      *)
(* result are steps that interleave with those of the others.              *)
(***************************************************************************)
EXTENDS Integers, FiniteSets

CONSTANTS
    Requests,    \* as many as the engine keeps in flight
    Probes,      \* those that are access probes (OracleKind is set)
    Edges,
    Width,       \* values of a byte of the bitmap: 256
    PathBound,   \* bound of the model: executions of an edge by one request
    Interval,    \* CoverageInterval
    Resets,      \* does the bitmap ever look saturated?
    Streaming,   \* may a response start before its headers are complete?
    Failures     \* may requests time out and polls fail?

ASSUME CoverageAssumption ==
    /\ IsFiniteSet(Requests) /\ IsFiniteSet(Edges) /\ Probes \subseteq Requests
    /\ Width \in 2 .. 256 /\ PathBound \in Nat /\ Interval \in Nat \ {0}
    /\ {Resets, Streaming, Failures} \subseteq BOOLEAN

VARIABLES
    hits,           \* the bitmap
    virgin,         \* seenBuckets, the classes the target has seen
    running,        \* requests the target is executing
    waiting,        \* requests the engine waits for
    own,            \* how often the current request executed each edge
    claimed,        \* the classes the merge of an answered request found new
    header,         \* did X-Coverage-Delta make it into the answer?
    currentEdges,
    completedSinceCV

target  == <<hits, virgin, running, own, claimed, header>>
engine  == <<waiting, currentEdges, completedSinceCV>>
vars    == <<target, engine>>

\* countClass: the bucket of a hit count.
Bucket(c) ==
    CASE c <= 2 -> c [] c = 3 -> 4 [] c \in 4 .. 7 -> 8 [] c \in 8 .. 15 -> 16
      [] c \in 16 .. 31 -> 32 [] c \in 32 .. 127 -> 64 [] c > 127 -> 128

Classes(counts) == {<<e, Bucket(counts[e])>> : e \in {x \in Edges : counts[x] # 0}}

NoHits == [e \in Edges |-> 0]

\* The warm-up probes of checkCoverageHealth have run after the reset at the start.
Init ==
    /\ hits \in [Edges -> 0 .. 1]
    /\ virgin = Classes(hits)
    /\ currentEdges = Cardinality(virgin)
    /\ completedSinceCV = 0
    /\ running = {} /\ waiting = {}
    /\ own = [r \in Requests |-> NoHits]
    /\ claimed = [r \in Requests |-> {}]
    /\ header = [r \in Requests |-> FALSE]

-----------------------------------------------------------------------------
(* The target.                                                             *)

Begin(r) ==
    /\ r \notin running \cup waiting
    /\ running' = running \cup {r} /\ waiting' = waiting \cup {r}
    /\ own' = [own EXCEPT ![r] = NoHits]
    /\ claimed' = [claimed EXCEPT ![r] = {}]
    /\ header' = [header EXCEPT ![r] = FALSE]
    /\ UNCHANGED <<hits, virgin, currentEdges, completedSinceCV>>

\* The instrumentation counts an execution in a byte that wraps.
Execute(r, e) ==
    /\ r \in running /\ own[r][e] < PathBound
    /\ hits' = [hits EXCEPT ![e] = (@ + 1) % Width]
    /\ own' = [own EXCEPT ![r][e] = @ + 1]
    /\ UNCHANGED <<virgin, running, claimed, header, engine>>

\* The classes MergeAndCountNovel finds new: all of the bitmap's, whoever put them there.
Novel == Classes(hits) \ virgin

\* The end of RunWithCoverage.
Answer(r) ==
    /\ r \in running
    /\ running' = running \ {r}
    /\ virgin' = virgin \cup Classes(hits)
    /\ claimed' = [claimed EXCEPT ![r] = IF r \in waiting THEN Novel ELSE {}]
    /\ \E h \in {TRUE, ~Streaming} : header' = [header EXCEPT ![r] = h]
    /\ UNCHANGED <<hits, own, engine>>

-----------------------------------------------------------------------------
(* The engine.                                                             *)

Delta(r) == IF header[r] THEN Cardinality(claimed[r]) ELSE 0
Later(a, b) == IF a >= b THEN a ELSE b

Account(edges, since, v) == [edges |-> edges, since |-> since, virgin |-> v]

\* GetEdges and what follows it.  The poll is itself a request: unless the middleware
\* serves it inline, a merge follows its answer and nobody is told of it.
Polls ==
    {Account(Later(Cardinality(virgin), currentEdges), 0, v) :
         v \in {virgin, virgin \cup Classes(hits)}}
    \cup IF Failures THEN {Account(currentEdges, 0, virgin)} ELSE {}

\* Mutant of Accounts: there is no fallback for a missing header.
AccountsByHeader(r) == {Account(currentEdges + Delta(r), 0, virgin)}

\* What handleResult may make of the coverage of an answer.
Accounts(r) ==
    IF Delta(r) > 0
    THEN {Account(currentEdges + Delta(r), 0, virgin)}
    ELSE IF completedSinceCV + 1 >= Interval
    THEN Polls
    ELSE {Account(currentEdges, completedSinceCV + 1, virgin)}

Settle(a) ==
    /\ currentEdges' = a.edges
    /\ virgin' = a.virgin
    /\ UNCHANGED hits

\* Mutant of ResetCoverage: the engine's count is kept.
ResetCoverageKeepsCount(a) ==
    /\ Resets /\ a.edges > 0
    /\ currentEdges' = a.edges
    /\ hits' = NoHits /\ virgin' = {}

\* The bitmap looks saturated and the run stagnates: /shm/reset clears the bitmap
\* and the classes.
ResetCoverage(a) ==
    /\ Resets /\ a.edges > 0
    /\ currentEdges' = 0
    /\ hits' = NoHits /\ virgin' = {}

\* handleResult of an answer; a probe's is counted and its coverage ignored.  The
\* model counts no further than Interval, where the count stops to matter.
Handle(r) ==
    /\ r \in waiting \ running
    /\ waiting' = waiting \ {r}
    /\ IF r \in Probes
       THEN /\ completedSinceCV' = IF completedSinceCV < Interval
                                    THEN completedSinceCV + 1 ELSE Interval
            /\ UNCHANGED <<currentEdges, virgin, hits>>
       ELSE \E a \in Accounts(r) :
                completedSinceCV' = a.since /\ (Settle(a) \/ ResetCoverage(a))
    /\ UNCHANGED <<running, own, claimed, header>>

\* A request runs out of time, answered or not; the target goes on with it.
TimeOut(r) ==
    /\ Failures /\ r \in waiting
    /\ waiting' = waiting \ {r}
    /\ UNCHANGED <<target, currentEdges, completedSinceCV>>

Next ==
    \E r \in Requests :
        \/ Begin(r) \/ Answer(r) \/ Handle(r) \/ TimeOut(r)
        \/ \E e \in Edges : Execute(r, e)

Spec == Init /\ [][Next]_vars

PollSucceeds(r) ==
    Handle(r) /\ Delta(r) = 0 /\ currentEdges' >= Cardinality(virgin)

\* Every request the engine can send is sent and answered.  Of a request that is
\* sent again and again, not every answer is too late, and not every poll fails.
FairSpec ==
    /\ Spec
    /\ \A r \in Requests :
         /\ WF_vars(Begin(r)) /\ WF_vars(Answer(r))
         /\ SF_vars(Answer(r) /\ r \in waiting)
         /\ SF_vars(Handle(r))
         /\ SF_vars(PollSucceeds(r))

-----------------------------------------------------------------------------
TypeOK ==
    /\ hits \in [Edges -> 0 .. Width - 1]
    /\ virgin \subseteq Edges \X (0 .. 128)
    /\ running \subseteq Requests /\ waiting \subseteq Requests
    /\ own \in [Requests -> [Edges -> 0 .. PathBound]]
    /\ claimed \in [Requests -> SUBSET (Edges \X (0 .. 128))]
    /\ header \in [Requests -> BOOLEAN]
    /\ currentEdges \in Nat /\ completedSinceCV \in 0 .. Interval

\* As long as one request at a time has its delta counted, with probes beside it,
\* the engine never counts more classes than the target has seen: what a poll has
\* counted is not counted again by a delta, nor after a timeout or a reset.
\* (With more of them a poll counts deltas that are still to be handled.)
CountedOnce ==
    Cardinality(Requests \ Probes) <= 1 => currentEdges <= Cardinality(virgin)

\* "the delta is now the count of buckets THIS request was first to discover"
\* (tools/prep/fuzzprep/coverage_helper_gen.py:414): a request is credited with no
\* edge it has not executed.
OwnEdges == \A r \in Requests : \A c \in claimed[r] : own[r][c[1]] > 0

\* Lost headers, late answers, failing polls and probes delay the engine's count; it
\* catches up with the target's again and again.
CatchesUp == []<>(currentEdges >= Cardinality(virgin))
=============================================================================
