----------------------------- MODULE Scheduler -----------------------------
(***************************************************************************)
(* What the engine sends next, and what a result does to that choice:      *)
(* buildWorkItem (engine/template.go) draws from four queues, the corpus   *)
(* and the active templates; handleResult (engine/worker.go) fills the     *)
(* queues, feeds the corpus and, under -skip-on-crash and                  *)
(* -skip-endpoint-on-500, retires templates and endpoints.                 *)
(*                                                                         *)
(* Both run in the main loop, so each is one step here; what interleaves   *)
(* is the order of the results.  A request is its template and whether it  *)
(* is a replay or a probe; its contents, epochs and probabilities are left *)
(* to chance.                                                              *)
(***************************************************************************)
EXTENDS Integers, FiniteSets, SequencesExt

CONSTANTS
    Templates, Endpoints,
    EndpointOf,              \* templateEndpointKey
    RaceWrites,              \* templates whose successes may start a race burst
    SkipOnCrash, SkipEndpointOn500,
    CrashReplayCount, CrashReplayPerEndpoint, CrashReplayQueueMax,
    ProbeBudget,             \* AccessProbeMaxPerEndpoint, 0 when probes are off
    ProbesAtOnce,            \* the most probes one success can start
    ProbeQueueMax,           \* AccessProbeQueueMax
    SequenceMode,            \* may a success queue a follow-up?
    SequenceQueueMax,        \* sequenceQueueMax
    RaceBurst, RaceQueueMax, \* RaceBurst and raceQueueMax
    MaxFlight                \* the dispatcher's target

ASSUME SchedulerAssumption ==
    /\ EndpointOf \in [Templates -> Endpoints]
    /\ RaceWrites \subseteq Templates
    /\ {SkipOnCrash, SkipEndpointOn500, SequenceMode} \subseteq BOOLEAN
    /\ {CrashReplayCount, CrashReplayPerEndpoint, ProbeBudget, ProbesAtOnce} \subseteq Nat
    /\ {CrashReplayQueueMax, ProbeQueueMax, SequenceQueueMax, RaceBurst, RaceQueueMax,
        MaxFlight} \subseteq Nat \ {0}

VARIABLES
    active,            \* activeIDs
    blocked,           \* blockedEndpoints
    seeds,             \* templates with a seed in the corpus
    weighted,          \* those with a seed of positive weight in the sampler
    replayQueue, raceQueue, oracleQueue, sequenceQueue, \* their templates
    replayByEndpoint,
    probeCount,        \* accessProbeCount
    flight             \* the items that are sent, each in a slot of its own

rotation == <<active, blocked>>
corpus   == <<seeds, weighted>>
queues   == <<replayQueue, raceQueue, oracleQueue, sequenceQueue>>
budgets  == <<replayByEndpoint, probeCount>>
vars     == <<rotation, corpus, queues, budgets, flight>>

\* What handleResult and the properties tell apart.
Origins == {"replay", "probe", "other"}
Item    == [t : Templates, from : Origins, slot : 1 .. MaxFlight]

Blocked(t) == EndpointOf[t] \in blocked      \* isTemplateBlocked
OfEndpoint(e) == {t \in Templates : EndpointOf[t] = e}

\* n times t appended to a queue that, when full, drops its oldest element each time.
Push(q, max, t, n) ==
    LET all == q \o [k \in 1 .. n |-> t]
    IN IF Len(all) <= max THEN all ELSE SubSeq(all, Len(all) - max + 1, Len(all))

\* A queue without the leading elements whose endpoint is blocked.
LiveFrom(q) ==
    LET first == SelectInSeq(q, LAMBDA t : ~Blocked(t))
    IN IF first = 0 THEN <<>> ELSE SubSeq(q, first, Len(q))

\* A queue without the elements of endpoint e.
Without(q, e) ==
    LET kept[n \in 0 .. Len(q)] ==
          IF n = 0 THEN <<>>
          ELSE IF EndpointOf[q[n]] = e THEN kept[n - 1] ELSE Append(kept[n - 1], q[n])
    IN kept[Len(q)]

Init ==
    /\ active = Templates /\ blocked = {}
    /\ seeds \in SUBSET Templates              \* seedBaselineCorpus
    /\ weighted = seeds
    /\ replayQueue = <<>> /\ raceQueue = <<>> /\ oracleQueue = <<>> /\ sequenceQueue = <<>>
    /\ replayByEndpoint = [e \in Endpoints |-> 0]
    /\ probeCount = [e \in Endpoints |-> 0]
    /\ flight = {}

-----------------------------------------------------------------------------
(* buildWorkItem.                                                          *)

\* The first free slot.  Slots tell equal items apart; nothing reads them.
Free(w) ==
    /\ w \in 1 .. MaxFlight /\ \A i \in flight : i.slot # w
    /\ \A v \in 1 .. w - 1 : \E i \in flight : i.slot = v

Dispatch(t, from) ==
    \E w \in 1 .. MaxFlight :
        Free(w) /\ flight' = flight \cup {[t |-> t, from |-> from, slot |-> w]}

\* A template in rotation, for the baseline and harvest epochs and when the corpus
\* gives nothing; or nothing, when it is blocked or does not render.
FromTemplates ==
    \/ UNCHANGED flight
    \/ \E t \in active : ~Blocked(t) /\ Dispatch(t, "other")

\* Mutant of FromCorpus: the zero weight of a blocked endpoint's seeds is relied on.
FromCorpusByWeight ==
    /\ UNCHANGED corpus
    /\ \/ FromTemplates
       \/ \E t \in IF weighted = {} THEN seeds ELSE weighted : Dispatch(t, "other")

\* Up to eight picks by weight, or among all seeds when no weight is positive.  A
\* seed of a blocked endpoint loses its weight and the next pick is made.
FromCorpus ==
    \E unweighted \in SUBSET {t \in weighted : Blocked(t)} :
        /\ weighted' = weighted \ unweighted
        /\ UNCHANGED seeds
        /\ \/ FromTemplates
           \/ \E t \in IF weighted' = {} THEN seeds ELSE weighted' :
                  ~Blocked(t) /\ Dispatch(t, "other")

FromRotation == IF active = {} THEN UNCHANGED <<corpus, flight>> ELSE FromCorpus

\* Each round of the sequence queue is left to chance: some of the leading
\* blocked items are dropped, and the first that is not blocked may be sent.
FromSequences ==
    LET live == LiveFrom(sequenceQueue) IN
    \/ /\ live # <<>>
       /\ sequenceQueue' = Tail(live)
       /\ Dispatch(Head(live), "other")
       /\ UNCHANGED corpus
    \/ \E dropped \in 0 .. Len(sequenceQueue) - Len(live) :
         /\ sequenceQueue' = SubSeq(sequenceQueue, dropped + 1, Len(sequenceQueue))
         /\ FromRotation

\* Mutant of FromProbes: the follow-ups come first.
FromProbesLate ==
    IF oracleQueue # <<>> /\ sequenceQueue = <<>>
    THEN /\ oracleQueue' = Tail(oracleQueue)
         /\ Dispatch(Head(oracleQueue), "probe")
         /\ UNCHANGED <<sequenceQueue, corpus>>
    ELSE FromSequences /\ UNCHANGED oracleQueue

\* Probes are taken whatever has become of their endpoint.
FromProbes ==
    IF oracleQueue # <<>>
    THEN /\ oracleQueue' = Tail(oracleQueue)
         /\ Dispatch(Head(oracleQueue), "probe")
         /\ UNCHANGED <<sequenceQueue, corpus>>
    ELSE FromSequences /\ UNCHANGED oracleQueue

FromRace ==
    LET live == LiveFrom(raceQueue) IN
    IF live # <<>>
    THEN /\ raceQueue' = Tail(live)
         /\ Dispatch(Head(live), "other")
         /\ UNCHANGED <<oracleQueue, sequenceQueue, corpus>>
    ELSE raceQueue' = <<>> /\ FromProbes

\* Chance decides whether the replays are looked at, at CrashReplayProb.
FromReplays ==
    LET live == LiveFrom(replayQueue) IN
    \/ /\ live # <<>>
       /\ replayQueue' = Tail(live)
       /\ Dispatch(Head(live), "replay")
       /\ UNCHANGED <<raceQueue, oracleQueue, sequenceQueue, corpus>>
    \/ live = <<>> /\ replayQueue' = <<>> /\ FromRace
    \/ FromRace /\ UNCHANGED replayQueue

BuildWorkItem ==
    /\ Cardinality(flight) < MaxFlight
    /\ FromReplays
    /\ UNCHANGED <<rotation, budgets>>

-----------------------------------------------------------------------------
(* handleResult.                                                           *)

Leaves(i) == flight' = flight \ {i}

\* What the corpus may be after addOrBoostSeed(t), if the request found edges, and
\* the minimizeCorpus it may start, which keeps some of the seeds and gives each of
\* them a positive weight again.  The seed the request came from is boosted by its
\* index, which after a minimizeCorpus may be any seed's.
Learned(t) ==
    {[seeds |-> seeds, weighted |-> weighted]} \cup
    IF Blocked(t) THEN {}
    ELSE {[seeds |-> seeds \cup {t}, weighted |-> weighted \cup {t} \cup ({s} \cap seeds)] :
                s \in Templates} \cup
         {[seeds |-> kept, weighted |-> kept] : kept \in SUBSET (seeds \cup {t}) \ {{}}}

LearnSeed(t) ==
    \E c \in Learned(t) : seeds' = c.seeds /\ weighted' = c.weighted

\* A transport error, a client error or the result of a probe: at most a seed.
HandleOther(i) ==
    /\ Leaves(i)
    /\ IF i.from = "probe" THEN UNCHANGED corpus ELSE LearnSeed(i.t)
    /\ UNCHANGED <<rotation, queues, budgets>>

\* Mutant of EnqueueCrashReplay: the remaining budget is asked for but not kept to.
EnqueueCrashReplayWhole(t) ==
    LET e    == EndpointOf[t]
        n    == IF Blocked(t) \/ replayByEndpoint[e] >= CrashReplayPerEndpoint
                THEN 0 ELSE CrashReplayCount
        room == CrashReplayQueueMax - Len(replayQueue)
        add  == IF n <= room THEN n ELSE room
    IN
    /\ replayQueue' = replayQueue \o [k \in 1 .. add |-> t]
    /\ replayByEndpoint' = [replayByEndpoint EXCEPT ![e] = @ + add]

\* enqueueCrashReplay, for a crash whose signature is new.
EnqueueCrashReplay(t) ==
    LET e    == EndpointOf[t]
        left == CrashReplayPerEndpoint - replayByEndpoint[e]
        n    == IF Blocked(t) THEN 0
                ELSE IF CrashReplayPerEndpoint = 0 \/ CrashReplayCount <= left
                THEN CrashReplayCount
                ELSE left
        room == CrashReplayQueueMax - Len(replayQueue)
        add  == IF n <= room THEN n ELSE room
    IN
    /\ replayQueue' = replayQueue \o [k \in 1 .. add |-> t]
    /\ replayByEndpoint' = [replayByEndpoint EXCEPT ![e] = @ + add]

\* removeActiveTemplate and blockEndpointByTemplateID.
Retire(t, blocks) ==
    LET gone == (IF SkipOnCrash THEN {t} ELSE {}) \cup
                (IF blocks THEN OfEndpoint(EndpointOf[t]) ELSE {})
    IN
    /\ active' = active \ gone
    /\ blocked' = IF blocks THEN blocked \cup {EndpointOf[t]} ELSE blocked
    /\ sequenceQueue' = IF blocks THEN Without(sequenceQueue, EndpointOf[t]) ELSE sequenceQueue

\* A 5xx.  The crash is new, and replayed, or known (or no crash at all, for a
\* form the server could not read); then the skip policies act, the second one
\* on a 500 of an endpoint not yet blocked.
HandleCrash(i) ==
    /\ Leaves(i) /\ i.from # "probe"
    /\ EnqueueCrashReplay(i.t) \/ UNCHANGED <<replayQueue, replayByEndpoint>>
    /\ \E is500 \in BOOLEAN, c \in Learned(i.t) :
         LET blocks == SkipEndpointOn500 /\ is500 /\ ~Blocked(i.t) IN
         /\ Retire(i.t, blocks)
         /\ seeds' = c.seeds
         /\ weighted' = IF blocks THEN c.weighted \ OfEndpoint(EndpointOf[i.t]) ELSE c.weighted
    /\ UNCHANGED <<raceQueue, oracleQueue, probeCount>>

\* enqueueSequenceFollowups: a template that uses what this one produced, or the
\* next page of the same list.
EnqueueFollowup(t) ==
    \/ UNCHANGED sequenceQueue
    \/ /\ SequenceMode
       /\ \E next \in {x \in Templates : x = t \/ ~Blocked(x)} :
              sequenceQueue' = Push(sequenceQueue, SequenceQueueMax, next, 1)

\* enqueueRaceBurst.
EnqueueRaceBurst(t) ==
    IF t \notin RaceWrites THEN UNCHANGED raceQueue
    ELSE \/ UNCHANGED raceQueue
         \/ raceQueue' = Push(raceQueue, RaceQueueMax, t, RaceBurst)

\* The access probes of a success.  The endpoint's budget is asked for once, before
\* the first of them; the code's budgets per kind of probe are one here.
EnqueueProbes(t) ==
    \/ UNCHANGED <<oracleQueue, probeCount>>
    \/ /\ probeCount[EndpointOf[t]] < ProbeBudget
       /\ \E n \in 1 .. ProbesAtOnce :
            /\ oracleQueue' = Push(oracleQueue, ProbeQueueMax, t, n)
            /\ probeCount' = [probeCount EXCEPT ![EndpointOf[t]] = @ + n]

\* A 2xx.  Race members, replays and follow-ups are no exception.
HandleSuccess(i) ==
    /\ Leaves(i) /\ i.from # "probe"
    /\ LearnSeed(i.t)
    /\ EnqueueFollowup(i.t) /\ EnqueueRaceBurst(i.t) /\ EnqueueProbes(i.t)
    /\ UNCHANGED <<rotation, replayQueue, replayByEndpoint>>

HandleResult(i) == HandleOther(i) \/ HandleCrash(i) \/ HandleSuccess(i)

Next ==
    \/ BuildWorkItem
    \/ \E i \in flight : HandleResult(i)

Spec == Init /\ [][Next]_vars

\* The main loop keeps building requests and every request ends, if only by its
\* timeout.  Nothing is assumed of chance.
FairSpec ==
    /\ Spec
    /\ WF_vars(BuildWorkItem)
    /\ WF_vars(\E i \in flight : HandleResult(i))

-----------------------------------------------------------------------------
TypeOK ==
    /\ active \subseteq Templates /\ blocked \subseteq Endpoints
    /\ weighted \subseteq seeds /\ seeds \subseteq Templates
    /\ replayQueue \in Seq(Templates) /\ raceQueue \in Seq(Templates)
    /\ oracleQueue \in Seq(Templates) /\ sequenceQueue \in Seq(Templates)
    /\ replayByEndpoint \in [Endpoints -> Nat] /\ probeCount \in [Endpoints -> Nat]
    /\ flight \subseteq Item /\ IsFiniteSet(flight)

Sent == flight' \ flight

ReplaysOf(e) ==
    Cardinality({k \in DOMAIN replayQueue : EndpointOf[replayQueue[k]] = e}) +
    Cardinality({i \in flight : i.from = "replay" /\ EndpointOf[i.t] = e})

\* Crashes of replays are replayed in turn, results arrive in any order, and still
\* no endpoint gets more replays in one run than CrashReplayPerEndpoint: what is
\* queued or in flight was counted, and the count stays within the limit.
ReplaysBounded ==
    /\ Len(replayQueue) <= CrashReplayQueueMax
    /\ \A e \in Endpoints :
         /\ ReplaysOf(e) <= replayByEndpoint[e]
         /\ CrashReplayPerEndpoint > 0 => replayByEndpoint[e] <= CrashReplayPerEndpoint

\* However its replays, bursts, follow-ups and seeds were queued before the 500
\* arrived, and whatever late results still feed the corpus, nothing but an
\* access probe is sent to an endpoint that has been blocked.
BlockedIsFinal ==
    [][\A i \in Sent : i.from # "probe" => ~Blocked(i.t)]_vars

\* The probes wait behind the replays and the race bursts.  Replays beget replays
\* only within their budget, so unless bursts keep coming, as they do when every
\* successful member of a burst starts another one, no probe waits for ever.
ProbesAreSent ==
    <>[](raceQueue = <<>>) => ((oracleQueue # <<>>) ~> (oracleQueue = <<>>))
=============================================================================
