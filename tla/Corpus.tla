------------------------------- MODULE Corpus -------------------------------
(***************************************************************************)
(* The seed corpus: choosing a seed (buildWorkItem, engine/template.go),   *)
(* boosting and growing it when a result brings new edges (addOrBoostSeed),*)
(* and pruning it (minimizeCorpus, engine/worker.go).                      *)
(*                                                                         *)
(* A request in flight remembers the position of its seed in the corpus.   *)
(* Energies, floats in the code, are levels in tenths.  Sampler says how a *)
(* seed is picked by weight; here any seed may be picked.                  *)
(* Checkpoint says how the corpus survives the process.                    *)
(***************************************************************************)
EXTENDS Integers, Sequences, FiniteSets

CONSTANTS
    Templates,
    Energies,        \* the levels of energy, in tenths
    PruneAt,         \* 500: minimizeCorpus runs when the corpus is larger
    MaxCorpus,       \* 400: what minimizeCorpus keeps at most
    MaxChosenNoEdge, \* 80
    Tries,           \* 8: seeds buildWorkItem looks at before it gives up
    FlightBound,     \* bound of the model: requests in flight
    SeedBound        \* bound of the model: seeds created by boosts

FloorEnergy == 5     \* math.Max(0.5, ...)
FirstEnergy == 10    \* a baseline seed's, and the least of a new seed
MinEnergy   == 3     \* minEnergy = 0.3

ASSUME CorpusAssumption ==
    /\ IsFiniteSet(Templates) /\ Templates # {}
    /\ Energies \subseteq Nat /\ FirstEnergy \in Energies
    /\ \A e \in Energies : e >= FloorEnergy
    /\ MaxCorpus \in Nat \ {0} /\ PruneAt \in Nat /\ PruneAt >= MaxCorpus
    /\ Tries \in Nat /\ FlightBound \in Nat /\ SeedBound \in Nat
    /\ MaxChosenNoEdge \in Nat

VARIABLES
    corpus,    \* sequence of seeds
    weight,    \* the sampler's weight of each position
    flight,    \* sequence of requests that have been sent
    blocked,   \* templates of endpoints blocked after a 500
    born       \* seeds created so far, to tell seeds apart

vars == <<corpus, weight, flight, blocked, born>>

\* id is not in the code: it names the seed whatever its position.
Seed == [id : Nat, tmpl : Templates, energy : Energies,
         chosen : 0 .. MaxChosenNoEdge + 1, edges : BOOLEAN]
Item == [tmpl : Templates, idx : Nat, parent : Nat]

Energy(c) == [i \in DOMAIN c |-> c[i].energy]
Without(s, k) == [i \in 1 .. Len(s) - 1 |-> IF i < k THEN s[i] ELSE s[i + 1]]

\* seedBaselineCorpus: a seed of energy 1.0 for every template, in any order.
Baselines ==
    {[i \in DOMAIN o |-> [id |-> i, tmpl |-> o[i], energy |-> FirstEnergy, chosen |-> 0,
                          edges |-> FALSE]] :
        o \in {p \in [1 .. Cardinality(Templates) -> Templates] :
                 \A t \in Templates : \E i \in DOMAIN p : p[i] = t}}

-----------------------------------------------------------------------------
(* Pruning.                                                                *)

Exhausted(s) == s.energy < MinEnergy /\ s.chosen > MaxChosenNoEdge /\ ~s.edges

\* The positions of c that are kept, in the order of the corpus.
InOrder(live) ==
    {p \in [1 .. Cardinality(live) -> live] : \A i, j \in DOMAIN p : i < j => p[i] < p[j]}

\* sort.Slice by energy, which orders equal energies anyhow, then kept[:maxCorpus].
Strongest(c, live) ==
    {p \in [1 .. MaxCorpus -> live] :
        /\ \A i, j \in DOMAIN p : i < j => p[i] # p[j] /\ c[p[i]].energy >= c[p[j]].energy
        /\ \A d \in live \ {p[i] : i \in DOMAIN p}, j \in DOMAIN p :
               c[d].energy <= c[p[j]].energy}

\* Mutant of MinimizeCorpus: the oldest seeds are kept.
MinimizeOldest(c) == {IF Len(c) > MaxCorpus THEN SubSeq(c, 1, MaxCorpus) ELSE c}

MinimizeCorpus(c) ==
    LET live == {i \in DOMAIN c : ~Exhausted(c[i])}
    IN {[j \in DOMAIN p |-> c[p[j]]] :
           p \in IF Cardinality(live) > MaxCorpus THEN Strongest(c, live) ELSE InOrder(live)}

-----------------------------------------------------------------------------
(* The main loop.                                                          *)

\* The energy of a chosen seed, a little lower but not below the floor.
Decayed(e) == {x \in Energies : FloorEnergy <= x /\ x <= e}

\* The energy of a seed that found an edge: more, or the highest level there is.
Boosted(e) == {x \in Energies : x > e \/ \A y \in Energies : y <= x}

\* What a request that has no seed is (SeedIdx = -1 in the code, 0 here).
Fresh(t) == [tmpl |-> t, idx |-> 0, parent |-> 0]

\* buildWorkItem in the mutate and havoc epochs: up to Tries seeds are picked.  One
\* whose template is blocked gets weight zero; any other is decayed, and sent if
\* its template renders.  When none is sent, a template picked by weight may be.
ChooseSeed ==
    /\ corpus # <<>>
    /\ Len(flight) < FlightBound
    /\ LET dead == {i \in DOMAIN corpus : corpus[i].tmpl \in blocked} IN
       \E skipped \in SUBSET dead, tried \in SUBSET (DOMAIN corpus \ dead) :
          /\ Cardinality(skipped) + Cardinality(tried) \in 1 .. Tries
          /\ \E e \in [tried -> UNION {Decayed(corpus[i].energy) : i \in tried}],
                   n \in [tried -> 1 .. Tries - Cardinality(tried) + 1] :
               /\ \A i \in tried : e[i] \in Decayed(corpus[i].energy)
               /\ corpus' = [i \in DOMAIN corpus |->
                     IF i \notin tried THEN corpus[i]
                     ELSE [corpus[i] EXCEPT
                              !.energy = e[i],
                              !.chosen = IF @ + n[i] > MaxChosenNoEdge
                                         THEN MaxChosenNoEdge + 1 ELSE @ + n[i]]]
               /\ weight' = [i \in DOMAIN weight |->
                     IF i \in skipped THEN 0 ELSE IF i \in tried THEN e[i] ELSE weight[i]]
          /\ \/ UNCHANGED flight
             \/ \E i \in tried :
                  flight' = Append(flight, [tmpl |-> corpus[i].tmpl, idx |-> i,
                                            parent |-> corpus[i].id])
             \/ \E t \in Templates \ blocked : flight' = Append(flight, Fresh(t))
    /\ UNCHANGED <<blocked, born>>

\* Every other request: a template picked by weight, a sequence follow-up, a
\* crash replay.
SendFresh(t) ==
    /\ t \notin blocked
    /\ Len(flight) < FlightBound
    /\ flight' = Append(flight, Fresh(t))
    /\ UNCHANGED <<corpus, weight, blocked, born>>

\* The result of a request that found no new edge.
PlainResult ==
    /\ \E k \in DOMAIN flight : flight' = Without(flight, k)
    /\ UNCHANGED <<corpus, weight, blocked, born>>

\* Mutant of Grow: the sampler is not rebuilt after pruning.
GrowKeepsSampler(c, w, s) ==
    IF Len(c) + 1 > PruneAt
    THEN corpus' \in MinimizeCorpus(Append(c, s)) /\ weight' = Append(w, s.energy)
    ELSE corpus' = Append(c, s) /\ weight' = Append(w, s.energy)

\* addOrBoostSeed after the boost: the corpus c gets the new seed and is pruned
\* when it has grown past PruneAt; pruning rebuilds the sampler.
Grow(c, w, s) ==
    IF Len(c) + 1 > PruneAt
    THEN corpus' \in MinimizeCorpus(Append(c, s)) /\ weight' = Energy(corpus')
    ELSE corpus' = Append(c, s) /\ weight' = Append(w, s.energy)

\* The result of a request that found new edges: addOrBoostSeed.  The request's
\* seed is boosted, the request becomes a seed, the corpus is pruned.
EdgeResult ==
    /\ born < SeedBound
    /\ \E k \in DOMAIN flight, fresh \in {x \in Energies : x >= FirstEnergy} :
         LET it == flight[k] IN
         /\ flight' = Without(flight, k)
         /\ IF it.tmpl \in blocked
            THEN UNCHANGED <<corpus, weight, born>>
            ELSE /\ born' = born + 1
                 /\ LET s == [id |-> Cardinality(Templates) + born + 1,
                              tmpl |-> it.tmpl, energy |-> fresh,
                              chosen |-> 0, edges |-> TRUE]
                    IN IF it.idx \in DOMAIN corpus
                       THEN \E e \in Boosted(corpus[it.idx].energy) :
                               Grow([corpus EXCEPT ![it.idx].energy = e,
                                                   ![it.idx].edges = TRUE],
                                    [weight EXCEPT ![it.idx] = e], s)
                       ELSE Grow(corpus, weight, s)
    /\ UNCHANGED blocked

\* blockEndpointByTemplateID, after a 500 of any request of the template.
Block(t) ==
    /\ t \notin blocked
    /\ blocked' = blocked \cup {t}
    /\ weight' = [i \in DOMAIN weight |-> IF corpus[i].tmpl = t THEN 0 ELSE weight[i]]
    /\ UNCHANGED <<corpus, flight, born>>

Init ==
    /\ corpus \in Baselines /\ weight = Energy(corpus)
    /\ flight = <<>> /\ blocked = {} /\ born = 0

Next ==
    \/ ChooseSeed \/ PlainResult \/ EdgeResult
    \/ \E t \in Templates : SendFresh(t) \/ Block(t)

Spec == Init /\ [][Next]_vars

-----------------------------------------------------------------------------
TypeOK ==
    /\ corpus \in Seq(Seed) /\ weight \in Seq(Energies \cup {0})
    /\ flight \in Seq(Item) /\ blocked \subseteq Templates /\ born \in 0 .. SeedBound

\* The sampler and the corpus, kept in two structures and changed in five places,
\* stay position by position in step: a pick is a position of the corpus and its
\* weight is that seed's energy, save for the zero of a blocked template.
SamplerAligned ==
    /\ Len(weight) = Len(corpus)
    /\ \A i \in DOMAIN corpus : corpus[i].tmpl \notin blocked => weight[i] = corpus[i].energy

\* However many edges are found, the corpus does not outgrow the pruning bound or
\* the baseline it started from.
CorpusBounded ==
    LET bound == IF PruneAt > Cardinality(Templates) THEN PruneAt ELSE Cardinality(Templates)
    IN Len(corpus) <= bound

\* Pruning drops the weakest: a request that found new coverage is kept as a seed
\* unless MaxCorpus others are, none of them weaker than the least a new seed has;
\* and a seed that was there is only dropped for seeds of at least its energy.
FindsAreKept ==
    [][born' > born =>
         LET kept == {corpus'[j].id : j \in DOMAIN corpus'}
             NoWeakerThan(e) == \A j \in DOMAIN corpus' : corpus'[j].energy >= e
         IN
         /\ \/ Cardinality(Templates) + born' \in kept
            \/ Len(corpus') = MaxCorpus /\ NoWeakerThan(FirstEnergy)
         /\ \A i \in DOMAIN corpus : corpus[i].id \in kept \/ NoWeakerThan(corpus[i].energy)]_vars

\* "+5 energy per new edge discovered by a seed's mutations" (engine.md): a result
\* marks no seed other than its own as having found the edge.
BoostsOwnSeed ==
    [][\A k \in DOMAIN flight : flight' = Without(flight, k) =>
         \A i \in DOMAIN corpus, j \in DOMAIN corpus' :
            (corpus[i].id = corpus'[j].id /\ ~corpus[i].edges /\ corpus'[j].edges)
               => corpus[i].id = flight[k].parent]_vars
=============================================================================
