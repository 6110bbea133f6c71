--------------------------- MODULE Corpus_proofs ----------------------------
(* The sampler stays in step with the corpus and pruning drops the weakest,  *)
(* for any templates, energies and limits; the checkpoint that carries the   *)
(* corpus to the next run is whole, for any number of saves and kills; and   *)
(* the Fenwick tree that the sampler is, for any number of seeds.            *)
EXTENDS Corpus, Checkpoint, Sampler, FiniteSetTheorems, SequenceTheorems,
        WellFoundedInduction, TLAPS

LEMMA Constants ==
    /\ IsFiniteSet(Templates) /\ Cardinality(Templates) \in Nat
    /\ MaxCorpus \in Nat \ {0} /\ PruneAt \in Nat /\ PruneAt >= MaxCorpus
    /\ MaxChosenNoEdge \in Nat /\ Tries \in Nat /\ SeedBound \in Nat
    /\ 10 \in Energies /\ \A e \in Energies : e \in Nat /\ e >= 5
BY CorpusAssumption, FS_CardinalityType DEF FirstEnergy, FloorEnergy

\* Where each seed of c has gone when it is pruned to d: kept, or dropped for no weaker ones.
Pruned(c, d) ==
    \A i \in DOMAIN c :
        \/ \E j \in DOMAIN d : d[j] = c[i]
        \/ Len(d) = MaxCorpus /\ \A j \in DOMAIN d : d[j].energy >= c[i].energy

\* No seed is ever exhausted, since energies have a floor above MinEnergy; a corpus
\* that is pruned is therefore cut to the MaxCorpus strongest.
LEMMA PruneKeepsStrongest ==
    ASSUME NEW c \in Seq(Seed), Len(c) > PruneAt, NEW d \in MinimizeCorpus(c)
    PROVE  d \in Seq(Seed) /\ Len(d) = MaxCorpus /\ Pruned(c, d)
<1> DEFINE live == {i \in DOMAIN c : ~Exhausted(c[i])}
<1>1. live = 1 .. Len(c)
  <2>1. \A i \in DOMAIN c : c[i] \in Seed
    OBVIOUS
  <2>2. \A s \in Seed : s.energy \in Energies
    BY DEF Seed
  <2>3. ASSUME NEW s \in Seed PROVE ~(s.energy < MinEnergy)
    <3>1. s.energy \in Nat /\ s.energy >= 5
      BY <2>2, Constants
    <3> QED
      BY <3>1 DEF MinEnergy
  <2>4. \A i \in DOMAIN c : ~Exhausted(c[i])
    BY <2>1, <2>3 DEF Exhausted
  <2> QED
    BY <2>4
<1>2. PICK n \in Nat : n = Len(c)
  OBVIOUS
<1>3. Cardinality(live) > MaxCorpus
  <2>1. Cardinality(1 .. n) = IF 1 > n THEN 0 ELSE n - 1 + 1
    BY FS_Interval
  <2>2. Cardinality(1 .. n) = n
    BY <2>1
  <2>3. live = 1 .. n
    BY <1>1, <1>2
  <2> HIDE DEF live
  <2> QED
    BY <1>2, <2>2, <2>3, Constants
<1>4. PICK p \in Strongest(c, live) : d = [j \in DOMAIN p |-> c[p[j]]]
  BY <1>3 DEF MinimizeCorpus
<1>5. /\ p \in [1 .. MaxCorpus -> live]
      /\ \A i \in live \ {p[j] : j \in DOMAIN p}, j \in DOMAIN p : c[i].energy <= c[p[j]].energy
  BY <1>4 DEF Strongest
<1> HIDE DEF live
<1>6. DOMAIN p = 1 .. MaxCorpus
  BY <1>5
<1>7. \A j \in 1 .. MaxCorpus : p[j] \in 1 .. Len(c) /\ d[j] = c[p[j]] /\ c[p[j]] \in Seed
  BY <1>1, <1>4, <1>5, <1>6
<1>8. DOMAIN d = 1 .. MaxCorpus
  BY <1>4, <1>6
<1>9. d \in [1 .. MaxCorpus -> Seed]
  BY <1>4, <1>6, <1>7
<1>10. d \in Seq(Seed)
  BY <1>9, SeqDef, Constants
<1>11. Len(d) = MaxCorpus
  BY <1>8, <1>10, LenProperties, Constants
<1>12. ASSUME NEW i \in DOMAIN c
       PROVE  \/ \E j \in DOMAIN d : d[j] = c[i]
              \/ Len(d) = MaxCorpus /\ \A j \in DOMAIN d : d[j].energy >= c[i].energy
  <2>1. CASE \E j \in DOMAIN p : p[j] = i
    BY <1>6, <1>7, <1>8, <2>1
  <2>2. CASE ~\E j \in DOMAIN p : p[j] = i
    <3>1. i \in live
      BY <1>1
    <3>2. \A j \in DOMAIN p : c[i].energy <= c[p[j]].energy
      BY <1>5, <2>2, <3>1
    <3>3. \A s \in Seed : s.energy \in Nat
      BY Constants DEF Seed
    <3>4. c[i] \in Seed
      OBVIOUS
    <3>5. \A j \in DOMAIN d : d[j].energy >= c[i].energy
      BY <1>6, <1>7, <1>8, <3>2, <3>3, <3>4
    <3> QED
      BY <1>11, <3>5
  <2> QED
    BY <2>1, <2>2
<1> QED
  BY <1>10, <1>11, <1>12 DEF Pruned

-----------------------------------------------------------------------------
(* Growing the corpus.                                                     *)

Bound == IF PruneAt > Cardinality(Templates) THEN PruneAt ELSE Cardinality(Templates)

\* SamplerAligned, of any corpus and sampler.
Aligned(c, w) ==
    /\ Len(w) = Len(c)
    /\ \A i \in DOMAIN c : c[i].tmpl \notin blocked => w[i] = c[i].energy

LEMMA GrowKeeps ==
    ASSUME NEW c \in Seq(Seed), NEW w \in Seq(Energies \cup {0}), NEW s \in Seed,
           Aligned(c, w), Len(c) <= Bound, UNCHANGED blocked, Grow(c, w, s)
    PROVE  /\ corpus' \in Seq(Seed) /\ weight' \in Seq(Energies \cup {0})
           /\ SamplerAligned' /\ CorpusBounded'
           /\ Pruned(Append(c, s), corpus')
<1> DEFINE all == Append(c, s)
<1>1. /\ all \in Seq(Seed) /\ Len(all) = Len(c) + 1 /\ DOMAIN all = 1 .. Len(c) + 1
      /\ \A i \in 1 .. Len(c) : all[i] = c[i]
      /\ all[Len(c) + 1] = s /\ Len(c) \in Nat /\ DOMAIN c = 1 .. Len(c)
  OBVIOUS
<1>2. s.energy \in Energies /\ \A x \in Seed : x.energy \in Energies
  BY DEF Seed
<1>3. CASE Len(c) + 1 > PruneAt
  <2>1. corpus' \in MinimizeCorpus(all) /\ weight' = Energy(corpus')
    BY <1>3 DEF Grow
  <2> HIDE DEF all
  <2>2. corpus' \in Seq(Seed) /\ Len(corpus') = MaxCorpus /\ Pruned(all, corpus')
    BY <1>1, <1>3, <2>1, PruneKeepsStrongest
  <2>3. weight' \in [1 .. Len(corpus') -> Energies]
    BY <1>2, <2>1, <2>2 DEF Energy
  <2>4. weight' \in Seq(Energies \cup {0}) /\ Len(weight') = Len(corpus')
    <3>1. weight' \in [1 .. Len(corpus') -> Energies \cup {0}] /\ Len(corpus') \in Nat
      BY <2>2, <2>3
    <3>2. weight' \in Seq(Energies \cup {0})
      BY <3>1, SeqDef
    <3> QED
      BY <3>1, <3>2, LenProperties
  <2>5. SamplerAligned'
    BY <2>1, <2>2, <2>4 DEF SamplerAligned, Energy
  <2>6. CorpusBounded'
    BY <2>2, Constants DEF CorpusBounded
  <2> QED
    BY <2>2, <2>4, <2>5, <2>6 DEF all
<1>4. CASE Len(c) + 1 <= PruneAt
  <2>0. ~(Len(c) + 1 > PruneAt)
    BY <1>1, <1>4, Constants
  <2>1. corpus' = all /\ weight' = Append(w, s.energy)
    BY <2>0 DEF Grow
  <2>2. /\ weight' \in Seq(Energies \cup {0}) /\ Len(weight') = Len(w) + 1
        /\ \A i \in 1 .. Len(w) : weight'[i] = w[i]
        /\ weight'[Len(w) + 1] = s.energy
    BY <1>2, <2>1
  <2> HIDE DEF all
  <2>3. SamplerAligned'
    <3>1. Len(w) = Len(c) /\ Len(weight') = Len(corpus')
      BY <1>1, <2>1, <2>2 DEF Aligned
    <3>2. ASSUME NEW i \in DOMAIN corpus', corpus'[i].tmpl \notin blocked'
          PROVE  weight'[i] = corpus'[i].energy
      <4>1. i \in 1 .. Len(c) \/ i = Len(c) + 1
        BY <1>1, <2>1
      <4> QED
        BY <1>1, <2>1, <2>2, <3>1, <3>2, <4>1 DEF Aligned
    <3> QED
      BY <3>1, <3>2 DEF SamplerAligned
  <2>4. CorpusBounded'
    BY <1>1, <1>4, <2>1, Constants DEF CorpusBounded
  <2>5. Pruned(all, corpus')
    BY <2>1 DEF Pruned
  <2> QED
    BY <1>1, <2>1, <2>2, <2>3, <2>4, <2>5 DEF all
<1> QED
  BY <1>1, <1>3, <1>4, Constants

-----------------------------------------------------------------------------
(* The steps.                                                              *)

IInv == TypeOK /\ SamplerAligned /\ CorpusBounded

LEMMA SeedFields ==
    ASSUME NEW s \in Seed
    PROVE  /\ s.id \in Nat /\ s.tmpl \in Templates /\ s.energy \in Energies
           /\ s.chosen \in 0 .. MaxChosenNoEdge + 1 /\ s.edges \in BOOLEAN
BY DEF Seed

LEMMA WithoutType ==
    ASSUME NEW q \in Seq(Item), NEW k \in DOMAIN q
    PROVE  Without(q, k) \in Seq(Item)
<1>1. Len(q) - 1 \in Nat /\ k \in 1 .. Len(q)
  OBVIOUS
<1>2. \A i \in 1 .. Len(q) - 1 : (IF i < k THEN q[i] ELSE q[i + 1]) \in Item
  BY <1>1
<1>3. Without(q, k) \in [1 .. Len(q) - 1 -> Item]
  BY <1>2 DEF Without
<1> QED
  BY <1>1, <1>3, SeqDef

LEMMA InitIInv == Init => IInv
<1> SUFFICES ASSUME Init PROVE IInv
  OBVIOUS
<1>1. PICK o \in [1 .. Cardinality(Templates) -> Templates] :
              corpus = [i \in DOMAIN o |-> [id |-> i, tmpl |-> o[i], energy |-> FirstEnergy,
                                            chosen |-> 0, edges |-> FALSE]]
  BY DEF Init, Baselines
<1> DEFINE n == Cardinality(Templates)
<1>2. n \in Nat
  BY Constants
<1>3. \A i \in 1 .. n : o[i] \in Templates /\ i \in Nat /\ 0 \in 0 .. MaxChosenNoEdge + 1
  BY <1>2, Constants
<1>4. corpus \in [1 .. n -> Seed]
  BY <1>1, <1>3, Constants DEF Seed, FirstEnergy
<1>5. corpus \in Seq(Seed) /\ Len(corpus) = n
  BY <1>2, <1>4, SeqDef, LenProperties
<1> HIDE DEF n
<1>6. weight \in [1 .. n -> Energies \cup {0}] /\ \A i \in 1 .. n : weight[i] = corpus[i].energy
  BY <1>4, SeedFields DEF Init, Energy
<1>7. weight \in Seq(Energies \cup {0}) /\ Len(weight) = n
  BY <1>2, <1>6, SeqDef, LenProperties
<1>8. TypeOK
  BY <1>5, <1>7, Constants DEF Init, TypeOK
<1>9. SamplerAligned
  BY <1>5, <1>6, <1>7 DEF SamplerAligned
<1>10. CorpusBounded
  BY <1>2, <1>5, Constants DEF CorpusBounded, n
<1> QED
  BY <1>8, <1>9, <1>10 DEF IInv

LEMMA ChooseKeeps == ASSUME IInv, ChooseSeed PROVE IInv'
<1>0. TypeOK /\ SamplerAligned /\ CorpusBounded
  BY DEF IInv
<1> DEFINE dead == {i \in DOMAIN corpus : corpus[i].tmpl \in blocked}
<1>1. PICK skipped \in SUBSET dead, tried \in SUBSET (DOMAIN corpus \ dead) :
        /\ Cardinality(skipped) + Cardinality(tried) \in 1 .. Tries
        /\ \E e \in [tried -> UNION {Decayed(corpus[i].energy) : i \in tried}],
                 n \in [tried -> 1 .. Tries - Cardinality(tried) + 1] :
             /\ \A i \in tried : e[i] \in Decayed(corpus[i].energy)
             /\ corpus' = [i \in DOMAIN corpus |->
                   IF i \notin tried THEN corpus[i]
                   ELSE [corpus[i] EXCEPT
                            !.energy = e[i],
                            !.chosen = IF @ + n[i] > MaxChosenNoEdge
                                       THEN MaxChosenNoEdge + 1 ELSE @ + n[i]]]
             /\ weight' = [i \in DOMAIN weight |->
                   IF i \in skipped THEN 0 ELSE IF i \in tried THEN e[i] ELSE weight[i]]
        /\ \/ UNCHANGED flight
           \/ \E i \in tried :
                flight' = Append(flight, [tmpl |-> corpus[i].tmpl, idx |-> i,
                                          parent |-> corpus[i].id])
           \/ \E t \in Templates \ blocked : flight' = Append(flight, Fresh(t))
  BY DEF ChooseSeed
<1>2. PICK e \in [tried -> UNION {Decayed(corpus[i].energy) : i \in tried}],
           n \in [tried -> 1 .. Tries - Cardinality(tried) + 1] :
             /\ \A i \in tried : e[i] \in Decayed(corpus[i].energy)
             /\ corpus' = [i \in DOMAIN corpus |->
                   IF i \notin tried THEN corpus[i]
                   ELSE [corpus[i] EXCEPT
                            !.energy = e[i],
                            !.chosen = IF @ + n[i] > MaxChosenNoEdge
                                       THEN MaxChosenNoEdge + 1 ELSE @ + n[i]]]
             /\ weight' = [i \in DOMAIN weight |->
                   IF i \in skipped THEN 0 ELSE IF i \in tried THEN e[i] ELSE weight[i]]
  BY <1>1
<1>3. /\ corpus \in Seq(Seed) /\ weight \in Seq(Energies \cup {0}) /\ flight \in Seq(Item)
      /\ Len(weight) = Len(corpus) /\ DOMAIN weight = DOMAIN corpus
      /\ DOMAIN corpus = 1 .. Len(corpus) /\ Len(corpus) \in Nat
  BY <1>0 DEF TypeOK, SamplerAligned
<1>4. \A i \in DOMAIN corpus : corpus[i] \in Seed
  BY <1>3
<1>5. \A i \in tried : /\ i \in DOMAIN corpus /\ corpus[i].tmpl \notin blocked
                       /\ e[i] \in Energies /\ n[i] \in Nat
  <2>1. \A i \in tried : e[i] \in Energies
    BY <1>2 DEF Decayed
  <2>2. \A i \in tried : n[i] \in 1 .. Tries - Cardinality(tried) + 1
    BY <1>2
  <2>3. \A i \in tried : n[i] \in Nat
    BY <2>2
  <2> QED
    BY <1>1, <2>1, <2>3
<1>6. ASSUME NEW i \in DOMAIN corpus
      PROVE  /\ corpus'[i] \in Seed /\ corpus'[i].tmpl = corpus[i].tmpl
             /\ corpus'[i].energy = IF i \in tried THEN e[i] ELSE corpus[i].energy
  <2>1. CASE i \notin tried
    BY <1>2, <1>4, <2>1
  <2>2. CASE i \in tried
    <3> DEFINE x == IF corpus[i].chosen + n[i] > MaxChosenNoEdge
                    THEN MaxChosenNoEdge + 1 ELSE corpus[i].chosen + n[i]
    <3>1. corpus'[i] = [corpus[i] EXCEPT !.energy = e[i], !.chosen = x]
      BY <1>2, <2>2
    <3>2. corpus[i].chosen \in 0 .. MaxChosenNoEdge + 1
      BY <1>4, SeedFields
    <3>3. x \in 0 .. MaxChosenNoEdge + 1
      BY <1>5, <2>2, <3>2, Constants
    <3> HIDE DEF x
    <3> QED
      BY <1>4, <1>5, <2>2, <3>1, <3>3 DEF Seed
  <2> QED
    BY <2>1, <2>2
<1>7. corpus' \in Seq(Seed) /\ Len(corpus') = Len(corpus)
  <2>1. corpus' \in [1 .. Len(corpus) -> Seed]
    BY <1>2, <1>3, <1>6
  <2> QED
    BY <1>3, <2>1, SeqDef, LenProperties
<1>8. weight' \in Seq(Energies \cup {0}) /\ Len(weight') = Len(weight)
  <2>1. \A i \in DOMAIN weight : weight[i] \in Energies \cup {0}
    BY <1>3
  <2>2. weight' \in [1 .. Len(weight) -> Energies \cup {0}]
    BY <1>2, <1>3, <1>5, <2>1
  <2> QED
    BY <1>3, <2>2, SeqDef, LenProperties, SMTT(30)
<1>9. flight' \in Seq(Item)
  <2>1. ASSUME NEW i \in tried
        PROVE  [tmpl |-> corpus[i].tmpl, idx |-> i, parent |-> corpus[i].id] \in Item
    BY <1>3, <1>4, <1>5, SeedFields DEF Item
  <2>2. \A t \in Templates : Fresh(t) \in Item
    BY DEF Fresh, Item
  <2>3. ASSUME NEW x \in Item, flight' = Append(flight, x) PROVE flight' \in Seq(Item)
    BY <1>3, <2>3
  <2>4. UNCHANGED flight \/ \E x \in Item : flight' = Append(flight, x)
    BY <1>1, <2>1, <2>2
  <2> QED
    BY <1>3, <2>3, <2>4
<1>10. UNCHANGED <<blocked, born>>
  BY DEF ChooseSeed
<1>11. SamplerAligned'
  <2>1. ASSUME NEW i \in DOMAIN corpus', corpus'[i].tmpl \notin blocked'
        PROVE  weight'[i] = corpus'[i].energy
    <3>1. i \in DOMAIN corpus /\ i \in DOMAIN weight
      BY <1>3, <1>7
    <3>2. corpus[i].tmpl \notin blocked /\ i \notin skipped /\ weight[i] = corpus[i].energy
      BY <1>0, <1>1, <1>6, <1>10, <2>1, <3>1 DEF SamplerAligned
    <3> QED
      BY <1>2, <1>6, <3>1, <3>2
  <2> QED
    BY <1>3, <1>7, <1>8, <2>1 DEF SamplerAligned
<1> QED
  BY <1>0, <1>7, <1>8, <1>9, <1>10, <1>11 DEF IInv, TypeOK, CorpusBounded

\* A result that found edges, once its template is not blocked: the corpus that it
\* boosts is as aligned as before, and grows.
LEMMA EdgeGrows ==
    ASSUME IInv, EdgeResult, born' # born
    PROVE  \E c \in Seq(Seed), w \in Seq(Energies \cup {0}), s \in Seed :
              /\ Grow(c, w, s) /\ Aligned(c, w) /\ Len(c) = Len(corpus)
              /\ \A i \in DOMAIN corpus : c[i].id = corpus[i].id /\ c[i].energy >= corpus[i].energy
              /\ s.id = Cardinality(Templates) + born' /\ s.energy >= FirstEnergy
              /\ born' = born + 1 /\ born < SeedBound /\ UNCHANGED blocked
<1>0. TypeOK /\ SamplerAligned
  BY DEF IInv
<1>1. PICK k \in DOMAIN flight, fresh \in {x \in Energies : x >= FirstEnergy} :
         LET it == flight[k] IN
         /\ flight' = Without(flight, k)
         /\ IF it.tmpl \in blocked
            THEN UNCHANGED <<corpus, weight, born>>
            ELSE /\ born' = born + 1
                 /\ LET s == [id |-> Cardinality(Templates) + born + 1,
                              tmpl |-> it.tmpl, energy |-> fresh,
                              chosen |-> 0, edges |-> TRUE]
                    IN IF it.idx \in DOMAIN corpus
                       THEN \E e \in Boosted(corpus[it.idx].energy) :
                               Grow([corpus EXCEPT ![it.idx].energy = e,
                                                   ![it.idx].edges = TRUE],
                                    [weight EXCEPT ![it.idx] = e], s)
                       ELSE Grow(corpus, weight, s)
  BY DEF EdgeResult
<1> DEFINE it == flight[k]
           s == [id |-> Cardinality(Templates) + born + 1, tmpl |-> it.tmpl, energy |-> fresh,
                 chosen |-> 0, edges |-> TRUE]
<1>2. it.tmpl \notin blocked /\ born' = born + 1 /\ born \in Nat /\ born < SeedBound /\ UNCHANGED blocked
  <2>1. born \in Nat /\ born < SeedBound /\ UNCHANGED blocked
    <3>1. born \in Nat
      BY <1>0, Constants DEF TypeOK
    <3>2. born < SeedBound /\ UNCHANGED blocked
      BY Zenon DEF EdgeResult
    <3> QED
      BY <3>1, <3>2
  <2> HIDE DEF it
  <2>2. it.tmpl \notin blocked /\ born' = born + 1
    BY <1>1 DEF it
  <2> QED
    BY <2>1, <2>2
<1>3. it \in Item /\ it.tmpl \in Templates
  <2>1. flight \in Seq(Item)
    BY <1>0 DEF TypeOK
  <2>2. it \in Item
    BY <2>1
  <2> HIDE DEF it
  <2> QED
    BY <2>2 DEF Item
<1>4. s \in Seed /\ s.id = Cardinality(Templates) + born' /\ s.energy >= FirstEnergy
  <2>1. Cardinality(Templates) + born + 1 \in Nat /\ 0 \in 0 .. MaxChosenNoEdge + 1
    BY <1>2, Constants
  <2> QED
    BY <1>2, <1>3, <2>1, Constants DEF Seed
<1>5. /\ corpus \in Seq(Seed) /\ weight \in Seq(Energies \cup {0}) /\ Aligned(corpus, weight)
      /\ \A i \in DOMAIN corpus : corpus[i] \in Seed
  BY <1>0 DEF TypeOK, SamplerAligned, Aligned
<1>6. \A i \in DOMAIN corpus : corpus[i].energy \in Nat
  BY <1>5, SeedFields, Constants
<1> HIDE DEF s, it
<1>7. CASE it.idx \in DOMAIN corpus
  <2>1. PICK e \in Boosted(corpus[it.idx].energy) :
               Grow([corpus EXCEPT ![it.idx].energy = e, ![it.idx].edges = TRUE],
                    [weight EXCEPT ![it.idx] = e], s)
    BY <1>1, <1>2, <1>7 DEF s, it
  <2> DEFINE c == [corpus EXCEPT ![it.idx].energy = e, ![it.idx].edges = TRUE]
             w == [weight EXCEPT ![it.idx] = e]
  <2>2. e \in Energies /\ e \in Nat /\ e >= corpus[it.idx].energy
    <3>1. corpus[it.idx].energy \in Energies
      BY <1>5, <1>7, SeedFields
    <3>2. e \in Energies /\ (e > corpus[it.idx].energy \/ \A y \in Energies : y <= e)
      BY DEF Boosted
    <3>3. e \in Nat /\ corpus[it.idx].energy \in Nat
      BY <3>1, <3>2, Constants
    <3> QED
      BY <3>1, <3>2, <3>3
  <2>3. \A i \in DOMAIN corpus : /\ c[i] \in Seed /\ c[i].id = corpus[i].id
                                 /\ c[i].tmpl = corpus[i].tmpl
                                 /\ c[i].energy = IF i = it.idx THEN e ELSE corpus[i].energy
    BY <1>5, <2>2 DEF Seed
  <2>4. c \in Seq(Seed) /\ Len(c) = Len(corpus) /\ DOMAIN c = DOMAIN corpus
    <3>1. Len(corpus) \in Nat /\ DOMAIN corpus = 1 .. Len(corpus)
      BY <1>5
    <3>2. DOMAIN c = DOMAIN corpus
      BY <1>5
    <3>3. c \in [1 .. Len(corpus) -> Seed]
      <4>1. c = [i \in 1 .. Len(corpus) |-> c[i]]
        BY <3>1
      <4> HIDE DEF c
      <4> QED
        BY <2>3, <3>1, <4>1
    <3> HIDE DEF c
    <3> QED
      BY <3>1, <3>2, <3>3, SeqDef, LenProperties
  <2>5. w \in Seq(Energies \cup {0}) /\ Len(w) = Len(weight)
        /\ \A i \in DOMAIN weight : w[i] = IF i = it.idx THEN e ELSE weight[i]
    <3>1. e \in Energies \cup {0} /\ weight \in Seq(Energies \cup {0})
      BY <1>5, <2>2
    <3>2. it.idx \in 1 .. Len(weight)
      BY <1>5, <1>7 DEF Aligned
    <3> QED
      BY <3>1, <3>2, ExceptSeq
  <2> HIDE DEF c, w
  <2>6. Aligned(c, w)
    BY <1>5, <2>3, <2>4, <2>5 DEF Aligned
  <2>7. \A i \in DOMAIN corpus : c[i].id = corpus[i].id /\ c[i].energy >= corpus[i].energy
    BY <1>6, <2>2, <2>3
  <2>8. Grow(c, w, s)
    BY <2>1 DEF c, w
  <2> QED
    BY <1>2, <1>4, <2>4, <2>5, <2>6, <2>7, <2>8
<1>8. CASE it.idx \notin DOMAIN corpus
  <2>1. Grow(corpus, weight, s)
    BY <1>1, <1>2, <1>8 DEF s, it
  <2>2. \A i \in DOMAIN corpus : corpus[i].energy >= corpus[i].energy
    BY <1>6
  <2> QED
    BY <1>2, <1>4, <1>5, <2>1, <2>2
<1> QED
  BY <1>7, <1>8

LEMMA EdgeKeeps == ASSUME IInv, EdgeResult PROVE IInv'
<1>0. TypeOK /\ SamplerAligned /\ CorpusBounded
  BY DEF IInv
<1>1. flight' \in Seq(Item)
  BY <1>0, WithoutType DEF EdgeResult, TypeOK
<1>2. CASE born' # born
  <2>1. PICK c \in Seq(Seed), w \in Seq(Energies \cup {0}), s \in Seed :
              /\ Grow(c, w, s) /\ Aligned(c, w) /\ Len(c) = Len(corpus)
              /\ born' = born + 1 /\ born < SeedBound /\ UNCHANGED blocked
    BY <1>2, EdgeGrows
  <2>2. Len(c) <= Bound
    BY <1>0, <2>1 DEF CorpusBounded, Bound
  <2>3. /\ corpus' \in Seq(Seed) /\ weight' \in Seq(Energies \cup {0})
        /\ SamplerAligned' /\ CorpusBounded'
    BY <2>1, <2>2, GrowKeeps
  <2>4. born' \in 0 .. SeedBound
    BY <1>0, <2>1, Constants DEF TypeOK
  <2> QED
    BY <1>0, <1>1, <2>1, <2>3, <2>4 DEF IInv, TypeOK
<1>3. CASE born' = born
  <2>1. UNCHANGED <<corpus, weight, blocked>>
    <3>1. born \in Nat
      BY <1>0, Constants DEF TypeOK
    <3>2. born' # born + 1
      BY <1>3, <3>1
    <3> QED
      BY <3>2 DEF EdgeResult
  <2> QED
    BY <1>0, <1>1, <1>3, <2>1 DEF IInv, TypeOK, SamplerAligned, CorpusBounded
<1> QED
  BY <1>2, <1>3

LEMMA StepIInv == IInv /\ [Next]_vars => IInv'
<1> SUFFICES ASSUME IInv, [Next]_vars PROVE IInv'
  OBVIOUS
<1>0. TypeOK /\ SamplerAligned /\ CorpusBounded
  BY DEF IInv
<1>1. CASE ChooseSeed
  BY <1>1, ChooseKeeps
<1>2. CASE EdgeResult
  BY <1>2, EdgeKeeps
<1>3. CASE PlainResult
  <2>1. flight' \in Seq(Item)
    BY <1>0, <1>3, WithoutType DEF PlainResult, TypeOK
  <2> QED
    BY <1>0, <1>3, <2>1 DEF PlainResult, IInv, TypeOK, SamplerAligned, CorpusBounded
<1>4. ASSUME NEW t \in Templates, SendFresh(t) PROVE IInv'
  <2>1. flight' \in Seq(Item)
    <3>1. Fresh(t) \in Item
      BY DEF Fresh, Item
    <3> QED
      BY <1>0, <1>4, <3>1 DEF SendFresh, TypeOK
  <2> QED
    BY <1>0, <1>4, <2>1 DEF SendFresh, IInv, TypeOK, SamplerAligned, CorpusBounded
<1>5. ASSUME NEW t \in Templates, Block(t) PROVE IInv'
  <2>1. /\ weight \in Seq(Energies \cup {0}) /\ Len(weight) = Len(corpus) /\ corpus \in Seq(Seed)
        /\ DOMAIN weight = 1 .. Len(weight) /\ Len(weight) \in Nat
    BY <1>0 DEF TypeOK, SamplerAligned
  <2>2. weight' = [i \in DOMAIN weight |-> IF corpus[i].tmpl = t THEN 0 ELSE weight[i]]
    BY <1>5 DEF Block
  <2>3. weight' \in [1 .. Len(weight) -> Energies \cup {0}]
    BY <2>1, <2>2
  <2>4. weight' \in Seq(Energies \cup {0}) /\ Len(weight') = Len(weight)
    BY <2>1, <2>3, SeqDef, LenProperties
  <2>5. SamplerAligned'
    BY <1>0, <1>5, <2>1, <2>2, <2>4 DEF Block, SamplerAligned
  <2> QED
    BY <1>0, <1>5, <2>4, <2>5 DEF Block, IInv, TypeOK, CorpusBounded
<1>6. CASE UNCHANGED vars
  BY <1>0, <1>6 DEF vars, IInv, TypeOK, SamplerAligned, CorpusBounded
<1> QED
  BY <1>1, <1>2, <1>3, <1>4, <1>5, <1>6 DEF Next

LEMMA Inductive == Spec => []IInv
  BY InitIInv, StepIInv, PTL DEF Spec

\* Type correctness.
THEOREM TypeCorrect == Spec => []TypeOK
<1>1. IInv => TypeOK
  BY DEF IInv
<1> QED
  BY Inductive, <1>1, PTL

\* buildWorkItem, addOrBoostSeed, minimizeCorpus and blockEndpointByTemplateID leave
\* sampler and corpus in step.
THEOREM SamplerStaysAligned == Spec => []SamplerAligned
<1>1. IInv => SamplerAligned
  BY DEF IInv
<1> QED
  BY Inductive, <1>1, PTL

\* The corpus keeps its bound, however many edges are found.
THEOREM CorpusStaysBounded == Spec => []CorpusBounded
<1>1. IInv => CorpusBounded
  BY DEF IInv
<1> QED
  BY Inductive, <1>1, PTL

\* A find is only dropped for seeds that are no weaker, and so is an older seed.
THEOREM FindsStayKept == Spec => FindsAreKept
<1> DEFINE Ids == {corpus'[j].id : j \in DOMAIN corpus'}
           NoWeaker(e) == \A j \in DOMAIN corpus' : corpus'[j].energy >= e
           Kept == /\ \/ Cardinality(Templates) + born' \in Ids
                      \/ Len(corpus') = MaxCorpus /\ NoWeaker(FirstEnergy)
                   /\ \A i \in DOMAIN corpus : corpus[i].id \in Ids \/ NoWeaker(corpus[i].energy)
<1>1. ASSUME IInv, [Next]_vars, born' > born PROVE Kept
  <2>0. born' # born /\ EdgeResult
    <3>1. born \in Nat /\ born' # born
      BY <1>1, Constants DEF IInv, TypeOK
    <3> QED
      BY <1>1, <3>1 DEF Next, ChooseSeed, PlainResult, SendFresh, Block, vars
  <2>1. PICK c \in Seq(Seed), w \in Seq(Energies \cup {0}), s \in Seed :
              /\ Grow(c, w, s) /\ Aligned(c, w) /\ Len(c) = Len(corpus)
              /\ \A i \in DOMAIN corpus : c[i].id = corpus[i].id /\ c[i].energy >= corpus[i].energy
              /\ s.id = Cardinality(Templates) + born' /\ s.energy >= FirstEnergy
              /\ UNCHANGED blocked
    BY <1>1, <2>0, EdgeGrows
  <2>2. Len(c) <= Bound
    BY <1>1, <2>1 DEF IInv, CorpusBounded, Bound
  <2>3. corpus' \in Seq(Seed) /\ Pruned(Append(c, s), corpus')
    BY <2>1, <2>2, GrowKeeps
  <2>4. /\ corpus \in Seq(Seed) /\ Len(c) \in Nat
        /\ DOMAIN corpus = 1 .. Len(c) /\ DOMAIN Append(c, s) = 1 .. Len(c) + 1
        /\ Append(c, s)[Len(c) + 1] = s /\ \A i \in 1 .. Len(c) : Append(c, s)[i] = c[i]
    <3>1. corpus \in Seq(Seed)
      BY <1>1 DEF IInv, TypeOK
    <3>2. DOMAIN corpus = 1 .. Len(corpus) /\ Len(c) \in Nat /\ DOMAIN c = 1 .. Len(c)
      BY <2>1, <3>1
    <3>3. /\ DOMAIN Append(c, s) = 1 .. Len(c) + 1
          /\ Append(c, s)[Len(c) + 1] = s /\ \A i \in 1 .. Len(c) : Append(c, s)[i] = c[i]
      BY <2>1
    <3> QED
      BY <2>1, <3>1, <3>2, <3>3
  <2>5. \A x \in Seed : x.energy \in Nat
    BY SeedFields, Constants
  <2>6. \A j \in DOMAIN corpus' : corpus'[j].energy \in Nat
    BY <2>3, <2>5
  <2>7. \/ Cardinality(Templates) + born' \in Ids
        \/ Len(corpus') = MaxCorpus /\ NoWeaker(FirstEnergy)
    <3>1. \/ \E j \in DOMAIN corpus' : corpus'[j] = s
          \/ Len(corpus') = MaxCorpus /\ \A j \in DOMAIN corpus' : corpus'[j].energy >= s.energy
      <4>1. Len(c) + 1 \in DOMAIN Append(c, s)
        BY <2>4
      <4> QED
        BY <2>3, <2>4, <4>1 DEF Pruned
    <3>2. CASE \E j \in DOMAIN corpus' : corpus'[j] = s
      BY <2>1, <3>2
    <3>3. CASE Len(corpus') = MaxCorpus /\ \A j \in DOMAIN corpus' : corpus'[j].energy >= s.energy
      BY <2>1, <2>5, <2>6, <3>3 DEF FirstEnergy
    <3> QED
      BY <3>1, <3>2, <3>3
  <2>8. ASSUME NEW i \in DOMAIN corpus
        PROVE  corpus[i].id \in Ids \/ NoWeaker(corpus[i].energy)
    <3>1. i \in 1 .. Len(c) /\ i \in DOMAIN Append(c, s) /\ Append(c, s)[i] = c[i]
      BY <2>4
    <3>2. \/ \E j \in DOMAIN corpus' : corpus'[j] = c[i]
          \/ \A j \in DOMAIN corpus' : corpus'[j].energy >= c[i].energy
      BY <2>3, <3>1 DEF Pruned
    <3>3. c[i].id = corpus[i].id /\ c[i].energy >= corpus[i].energy
      BY <2>1
    <3>4. c[i] \in Seed /\ corpus[i] \in Seed
      BY <2>4, <3>1
    <3>5. CASE \E j \in DOMAIN corpus' : corpus'[j] = c[i]
      BY <3>3, <3>5
    <3>6. CASE \A j \in DOMAIN corpus' : corpus'[j].energy >= c[i].energy
      BY <2>5, <2>6, <3>3, <3>4, <3>6
    <3> QED
      BY <3>2, <3>5, <3>6
  <2> QED
    BY <2>7, <2>8
<1>2. IInv /\ [Next]_vars => [born' > born => Kept]_vars
  BY <1>1
<1> QED
  BY Inductive, <1>2, PTL DEF Spec, FindsAreKept

-----------------------------------------------------------------------------
(* The checkpoint.                                                         *)

\* What the checkpoint holds is the last save that ended; a written temporary
\* file holds the memory of the process, which is never behind that save.
SavesInv ==
    /\ CheckpointTypeOK
    /\ file # Torn
    /\ file = NoFile => safe = 0
    /\ file # NoFile => file = safe
    /\ pc = "rename" => tmp = memory
    /\ resume => memory >= safe

\* The process and the two files keep their types through every failure and kill.
LEMMA InitSavesInv == CheckpointInit => SavesInv
<1> SUFFICES ASSUME CheckpointInit PROVE SavesInv
  OBVIOUS
<1>1. last \in BOOLEAN /\ due \in BOOLEAN /\ resume \in BOOLEAN
  BY Zenon DEF CheckpointInit
<1>2. 0 \in 0 .. FindBound
  BY CheckpointAssumption DEF CheckpointAssumption
<1>3. memory >= safe
  BY DEF CheckpointInit
<1> QED
  BY <1>1, <1>2, <1>3 DEF CheckpointInit, SavesInv, CheckpointTypeOK, NoFile, Torn

\* Every step of a run, of a save, of a kill and of a start keeps the invariant.
LEMMA StepSavesInv == SavesInv /\ [CheckpointNext]_checkpointVars => SavesInv'
<1> SUFFICES ASSUME SavesInv, [CheckpointNext]_checkpointVars PROVE SavesInv'
  OBVIOUS
<1> USE CheckpointAssumption DEF CheckpointAssumption, SavesInv, CheckpointTypeOK, NoFile, Torn
<1>1. CASE Find
  BY <1>1 DEF Find
<1>2. CASE IntervalPasses
  BY <1>2 DEF IntervalPasses
<1>3. CASE BeginSave
  BY <1>3 DEF BeginSave
<1>4. CASE BeginExitSave
  BY <1>4 DEF BeginExitSave
<1>5. CASE WriteStarts
  BY <1>5 DEF WriteStarts
<1>6. CASE WriteEnds
  BY <1>6 DEF WriteEnds
<1>7. CASE SaveFails
  BY <1>7 DEF SaveFails, Resumed
<1>8. CASE RenameFile
  BY <1>8 DEF RenameFile, Resumed
<1>9. CASE Kill
  BY <1>9 DEF Kill
<1>10. CASE Start
  <2>1. last' \in BOOLEAN /\ due' \in BOOLEAN /\ resume' \in BOOLEAN
    BY <1>10, Zenon DEF Start
  <2>2. memory' \in Nat /\ (resume => memory' = safe)
    BY <1>10 DEF Start
  <2>3. resume' => memory' >= safe'
    BY <1>10, <2>2 DEF Start
  <2> QED
    BY <1>10, <2>1, <2>2, <2>3 DEF Start
<1>11. CASE UNCHANGED checkpointVars
  BY <1>11 DEF checkpointVars
<1> QED
  BY <1>1, <1>2, <1>3, <1>4, <1>5, <1>6, <1>7, <1>8, <1>9, <1>10, <1>11 DEF CheckpointNext

\* The invariant holds in every reachable state.
LEMMA SavesInvariance == CheckpointSpec => []SavesInv
  BY InitSavesInv, StepSavesInv, PTL DEF CheckpointSpec

\* The state stays in its types.
THEOREM CheckpointTypeCorrect == CheckpointSpec => []CheckpointTypeOK
<1>1. SavesInv => CheckpointTypeOK
  BY DEF SavesInv
<1> QED
  BY <1>1, SavesInvariance, PTL

\* Whenever the process dies, the checkpoint is absent or whole.
THEOREM NeverTruncatedHolds == CheckpointSpec => []NeverTruncated
<1>1. SavesInv => NeverTruncated
  BY DEF SavesInv, NeverTruncated
<1> QED
  BY <1>1, SavesInvariance, PTL

\* A resumed run starts from exactly the last completed save.
THEOREM ResumeLosesNothingHolds == CheckpointSpec => ResumeLosesNothingSaved
<1>1. SavesInv /\ [CheckpointNext]_checkpointVars =>
        [resume /\ pc \in {"down", "exited"} /\ pc' = "loop" => memory' = safe]_checkpointVars
  <2> SUFFICES ASSUME SavesInv, CheckpointNext, resume, pc \in {"down", "exited"}, pc' = "loop"
               PROVE  memory' = safe
    BY DEF CheckpointSpec
  <2>1. Start
    BY DEF CheckpointNext, Find, IntervalPasses, BeginSave, BeginExitSave, WriteStarts,
           WriteEnds, SaveFails, RenameFile, Kill
  <2> QED
    BY <2>1 DEF Start, SavesInv, NoFile, Torn
<1> QED
  BY <1>1, SavesInvariance, PTL DEF CheckpointSpec, ResumeLosesNothingSaved

\* With -resume no save replaces the checkpoint by one with fewer finds.
THEOREM SavesNeverRegressHolds == CheckpointSpec => SavesNeverRegress
<1>1. SavesInv /\ [CheckpointNext]_checkpointVars => [resume => (safe' >= safe)]_checkpointVars
  <2> SUFFICES ASSUME SavesInv, CheckpointNext, resume PROVE safe' >= safe
    OBVIOUS
  <2>1. CASE RenameFile
    BY <2>1 DEF RenameFile, SavesInv, CheckpointTypeOK
  <2>2. CASE safe' = safe
    BY <2>2 DEF SavesInv, CheckpointTypeOK
  <2> QED
    BY <2>1, <2>2 DEF CheckpointNext, Find, IntervalPasses, BeginSave, BeginExitSave, WriteStarts,
           WriteEnds, SaveFails, Kill, Start
<1> QED
  BY <1>1, SavesInvariance, PTL DEF CheckpointSpec, SavesNeverRegress

-----------------------------------------------------------------------------
(* Sampler: induction over numbers.                                        *)

\* A nonempty set of numbers has a least one.
LEMMA Least ==
    ASSUME NEW T, T \subseteq Nat, T # {}
    PROVE  \E x \in T : \A y \in T : x <= y
<1> DEFINE R == OpToRel(<, Nat)
<1>1. IsWellFoundedOn(R, Nat)
  BY NatLessThanWellFounded
<1>2. \A x, y \in Nat : x < y => <<x, y>> \in R
  BY DEF OpToRel
<1> HIDE DEF R
<1>3. PICK x \in T : \A y \in T : <<y, x>> \notin R
  BY <1>1, WFMin
<1>4. \A y \in T : ~(y < x)
  BY <1>2, <1>3
<1>5. \A y \in T : x <= y
  BY <1>4
<1> QED
  BY <1>5

\* Course-of-values induction up to a bound.
LEMMA Below ==
    ASSUME NEW n \in Nat, NEW S,
           \A i \in 0 .. n : (\A j \in 0 .. n : j < i => j \in S) => i \in S
    PROVE  \A i \in 0 .. n : i \in S
<1> SUFFICES ASSUME 0 .. n \ S # {} PROVE FALSE
  OBVIOUS
<1>1. 0 .. n \ S \subseteq Nat
  OBVIOUS
<1>2. PICK x \in 0 .. n \ S : \A y \in 0 .. n \ S : x <= y
  BY <1>1, Least
<1>3. x \in 0 .. n /\ x \in Nat /\ \A y \in 0 .. n : y < x => ~(x <= y)
  BY <1>1, <1>2
<1>4. \A y \in 0 .. n : y < x => y \in S
  BY <1>2, <1>3
<1> QED
  BY <1>2, <1>3, <1>4

\* A function's value at a point is made of another's values at points of lower rank.
Local(D, S, rank, step) ==
    \A f, g \in [D -> S] : \A x \in D :
        (\A y \in D : rank[y] < rank[x] => f[y] = g[y]) => step[f][x] = step[g][x]

Solves(f, D, S, step) == f \in [D -> S] /\ step[f] = f

\* A recursive function exists whose value at a point is made of its values at
\* points of lower rank.
LEMMA Recursion ==
    ASSUME NEW D, NEW S, S # {}, NEW n \in Nat, NEW rank \in [D -> 0 .. n],
           NEW step \in [[D -> S] -> [D -> S]], Local(D, S, rank, step)
    PROVE  \E f : Solves(f, D, S, step)
<1> DEFINE Upto(f, m) == \A x \in D : rank[x] < m => step[f][x] = f[x]
           T == {m \in 0 .. n + 1 : \E f \in [D -> S] : Upto(f, m)}
<1>1. \A m \in 0 .. n + 1 : (\A j \in 0 .. n + 1 : j < m => j \in T) => m \in T
  <2> SUFFICES ASSUME NEW m \in 0 .. n + 1, \A j \in 0 .. n + 1 : j < m => j \in T
               PROVE  \E f \in [D -> S] : Upto(f, m)
    OBVIOUS
  <2>1. CASE m = 0
    <3>1. PICK s : s \in S
      OBVIOUS
    <3>2. PICK f \in [D -> S] : f = [x \in D |-> s]
      BY <3>1
    <3>3. \A x \in D : ~(rank[x] < m)
      BY <2>1
    <3> QED
      BY <3>2, <3>3
  <2>2. CASE m # 0
    <3>1. m - 1 \in 0 .. n + 1 /\ m - 1 < m
      BY <2>2
    <3>2. PICK f \in [D -> S] : Upto(f, m - 1)
      BY <3>1
    <3>3. PICK g \in [D -> S] : g = step[f]
      OBVIOUS
    <3>4. ASSUME NEW x \in D, rank[x] < m PROVE step[g][x] = g[x]
      <4>1. \A y \in D : rank[y] < rank[x] => rank[y] < m - 1
        BY <3>4
      <4>2. \A y \in D : rank[y] < rank[x] => f[y] = g[y]
        BY <3>2, <3>3, <4>1
      <4>3. step[f][x] = step[g][x]
        BY <4>2 DEF Local
      <4> QED
        BY <3>3, <4>3
    <3> QED
      BY <3>4
  <2> QED
    BY <2>1, <2>2
<1>2. n + 1 \in 0 .. n + 1 /\ n + 1 \in Nat
  OBVIOUS
<1>3. n + 1 \in T
  <2> HIDE DEF T
  <2> QED
    BY <1>1, <1>2, Below, Zenon
<1>4. PICK f \in [D -> S] : Upto(f, n + 1)
  BY <1>3
<1>5. \A x \in D : rank[x] < n + 1
  OBVIOUS
<1>6. \A x \in D : step[f][x] = f[x]
  BY <1>4, <1>5
<1>7. step[f] \in [D -> S]
  OBVIOUS
<1> QED
  BY <1>6, <1>7 DEF Solves

-----------------------------------------------------------------------------
(* Sampler: the lowest bit.                                                *)

LEMMA Halves ==
    \A i \in Nat : /\ i \div 2 \in Nat /\ i % 2 \in 0 .. 1 /\ i = 2 * (i \div 2) + (i % 2)
                   /\ i > 0 => i \div 2 < i /\ (i % 2 = 0 => i \div 2 > 0)
OBVIOUS

LEMMA LowBitDef ==
    \A i \in 1 .. MaxSeeds :
        /\ LowBit[i] \in 1 .. i
        /\ LowBit[i] = IF i % 2 = 1 THEN 1 ELSE 2 * LowBit[i \div 2]
<1> DEFINE D == 1 .. MaxSeeds
           step == [f \in [D -> Nat] |-> [i \in D |-> IF i % 2 = 1 THEN 1 ELSE 2 * f[i \div 2]]]
           rank == [i \in D |-> i]
<1>1. MaxSeeds \in Nat /\ rank \in [D -> 0 .. MaxSeeds] /\ \A i \in D : rank[i] = i
  BY SamplerAssumption
<1>2. \A i \in D : i % 2 # 1 => i \div 2 \in D /\ i \div 2 < i
  BY <1>1, Halves
<1>3. \A f \in [D -> Nat] : step[f] \in [D -> Nat]
  BY <1>2
<1>4. \A f \in [D -> Nat] : \A i \in D : step[f][i] = IF i % 2 = 1 THEN 1 ELSE 2 * f[i \div 2]
  OBVIOUS
<1>5. Local(D, Nat, rank, step)
  <2>1. \A f, g \in [D -> Nat] : \A x \in D :
           (\A y \in D : rank[y] < rank[x] => f[y] = g[y]) => step[f][x] = step[g][x]
    BY <1>1, <1>2, <1>4
  <2> QED
    BY <2>1 DEF Local
<1>6. step \in [[D -> Nat] -> [D -> Nat]]
  BY <1>3
<1>7. PICK h : Solves(h, D, Nat, step)
  <2> HIDE DEF D, rank, step
  <2>1. Nat # {}
    OBVIOUS
  <2> QED
    BY <1>1, <1>5, <1>6, <2>1, Recursion
<1>8. h = [i \in D |-> IF i % 2 = 1 THEN 1 ELSE 2 * h[i \div 2]]
  BY <1>7 DEF Solves
<1>9. LowBit = [i \in D |-> IF i % 2 = 1 THEN 1 ELSE 2 * LowBit[i \div 2]]
  BY <1>8, Zenon DEF LowBit
<1> HIDE DEF step, rank
<1> DEFINE S == {i \in 0 .. MaxSeeds : i \in D => LowBit[i] \in 1 .. i}
<1>10. \A i \in 0 .. MaxSeeds : (\A j \in 0 .. MaxSeeds : j < i => j \in S) => i \in S
  <2> SUFFICES ASSUME NEW i \in D, \A j \in 0 .. MaxSeeds : j < i => j \in S
               PROVE  LowBit[i] \in 1 .. i
    OBVIOUS
  <2>1. LowBit[i] = IF i % 2 = 1 THEN 1 ELSE 2 * LowBit[i \div 2]
    BY <1>9
  <2>2. CASE i % 2 = 1
    BY <2>1, <2>2
  <2>3. CASE i % 2 # 1
    <3>1. i \in Nat /\ i % 2 = 0 /\ i = 2 * (i \div 2)
      BY <1>1, <2>3, Halves
    <3>2. LowBit[i \div 2] \in 1 .. i \div 2
      BY <1>1, <1>2, <2>3
    <3> QED
      BY <2>1, <2>3, <3>1, <3>2
  <2> QED
    BY <2>2, <2>3
<1>11. \A i \in 0 .. MaxSeeds : i \in S
  <2> HIDE DEF S
  <2> QED
    BY <1>1, <1>10, Below, Zenon
<1>12. \A i \in D : i \in 0 .. MaxSeeds
  BY <1>1
<1>13. \A i \in D : LowBit[i] \in 1 .. i
  BY <1>11, <1>12
<1> QED
  BY <1>1, <1>9, <1>13

\* The lowest bit of an odd number is 1, that of twice a number is twice as large.
LEMMA OddEven ==
    \A i \in 1 .. MaxSeeds :
        /\ i % 2 = 1 => LowBit[i] = 1
        /\ i % 2 = 0 => /\ i \div 2 \in 1 .. MaxSeeds /\ i = 2 * (i \div 2) /\ i \div 2 < i
                        /\ LowBit[i] = 2 * LowBit[i \div 2]
<1> TAKE i \in 1 .. MaxSeeds
<1>1. MaxSeeds \in Nat /\ i \in Nat
  BY SamplerAssumption
<1>2. LowBit[i] = IF i % 2 = 1 THEN 1 ELSE 2 * LowBit[i \div 2]
  BY LowBitDef
<1>3. i % 2 = 0 => i \div 2 \in 1 .. MaxSeeds /\ i = 2 * (i \div 2) /\ i \div 2 < i
  BY <1>1, Halves
<1> QED
  BY <1>2, <1>3

\* Node j covers the seeds after j - LowBit[j].  A seed before j is among them
\* exactly when the next node of its climb is, or is j itself.
LEMMA Nested ==
    \A j \in 1 .. MaxSeeds : \A i \in 1 .. j - 1 :
        j - LowBit[j] < i <=> i + LowBit[i] <= j /\ j - LowBit[j] < i + LowBit[i]
<1> DEFINE P(i, j) == j - LowBit[j] < i <=> i + LowBit[i] <= j /\ j - LowBit[j] < i + LowBit[i]
           S == {j \in 0 .. MaxSeeds : \A i \in 1 .. j - 1 : P(i, j)}
<1>1. MaxSeeds \in Nat
  BY SamplerAssumption
<1>2. \A j \in 0 .. MaxSeeds : (\A k \in 0 .. MaxSeeds : k < j => k \in S) => j \in S
  <2> SUFFICES ASSUME NEW j \in 0 .. MaxSeeds, \A k \in 0 .. MaxSeeds : k < j => k \in S,
                      NEW i \in 1 .. j - 1
               PROVE  P(i, j)
    OBVIOUS
  <2>1. i \in 1 .. MaxSeeds /\ j \in 1 .. MaxSeeds /\ i \in Nat /\ j \in Nat /\ i < j
    BY <1>1
  <2>2. LowBit[i] \in 1 .. i /\ LowBit[j] \in 1 .. j
    BY <2>1, LowBitDef
  <2>3. i % 2 \in 0 .. 1 /\ j % 2 \in 0 .. 1
    BY <2>1
  <2>4. CASE j % 2 = 1
    <3>1. LowBit[j] = 1 /\ j = 2 * (j \div 2) + 1 /\ j \div 2 \in Nat
      BY <2>1, <2>4, OddEven, Halves
    <3>2. i + LowBit[i] # j
      <4>1. CASE i % 2 = 1
        <5>1. LowBit[i] = 1 /\ i = 2 * (i \div 2) + 1 /\ i \div 2 \in Nat
          BY <2>1, <4>1, OddEven, Halves
        <5> QED
          BY <3>1, <5>1
      <4>2. CASE i % 2 = 0
        <5>1. /\ i \div 2 \in 1 .. MaxSeeds /\ i = 2 * (i \div 2)
              /\ LowBit[i] = 2 * LowBit[i \div 2] /\ LowBit[i \div 2] \in Nat
          BY <2>1, <4>2, OddEven, LowBitDef
        <5> QED
          BY <3>1, <5>1
      <4> QED
        BY <2>3, <4>1, <4>2
    <3> QED
      BY <2>1, <2>2, <3>1, <3>2
  <2>5. CASE j % 2 = 0 /\ i % 2 = 1
    <3>1. LowBit[i] = 1 /\ i = 2 * (i \div 2) + 1 /\ i \div 2 \in Nat
      BY <2>1, <2>5, OddEven, Halves
    <3>2. /\ j \div 2 \in 1 .. MaxSeeds /\ j = 2 * (j \div 2)
          /\ LowBit[j] = 2 * LowBit[j \div 2] /\ LowBit[j \div 2] \in Nat
      BY <2>1, <2>5, OddEven, LowBitDef
    <3>3. j - LowBit[j] # i
      BY <3>1, <3>2
    <3> QED
      BY <2>1, <2>2, <3>1, <3>3
  <2>6. CASE j % 2 = 0 /\ i % 2 = 0
    <3> DEFINE a == i \div 2
               b == j \div 2
    <3>1. a \in 1 .. MaxSeeds /\ i = 2 * a /\ LowBit[i] = 2 * LowBit[a] /\ LowBit[a] \in Nat
      BY <2>1, <2>6, OddEven, LowBitDef
    <3>2. b \in 1 .. MaxSeeds /\ j = 2 * b /\ LowBit[j] = 2 * LowBit[b] /\ LowBit[b] \in Nat /\ b < j
      BY <2>1, <2>6, OddEven, LowBitDef
    <3> HIDE DEF a, b
    <3>3. b \in 0 .. MaxSeeds /\ a \in 1 .. b - 1
      BY <1>1, <2>1, <3>1, <3>2
    <3>4. P(a, b)
      BY <3>2, <3>3
    <3> QED
      BY <3>1, <3>2, <3>4
  <2> QED
    BY <2>3, <2>4, <2>5, <2>6
<1>3. \A j \in 0 .. MaxSeeds : j \in S
  <2> HIDE DEF S
  <2> QED
    BY <1>1, <1>2, Below, Zenon
<1>4. \A j \in 1 .. MaxSeeds : j \in 0 .. MaxSeeds
  BY <1>1
<1> QED
  BY <1>3, <1>4

\* A power of two is the lowest bit of its sum with a multiple of twice itself.
LEMMA SumBit ==
    \A s \in 1 .. MaxSeeds : \A x \in 0 .. MaxSeeds - s :
        LowBit[s] = s /\ (x = 0 \/ LowBit[x] >= 2 * s) => LowBit[x + s] = s
<1> DEFINE P(s, x) == LowBit[s] = s /\ (x = 0 \/ LowBit[x] >= 2 * s) => LowBit[x + s] = s
           S == {s \in 0 .. MaxSeeds : s > 0 => \A x \in 0 .. MaxSeeds - s : P(s, x)}
<1>1. MaxSeeds \in Nat
  BY SamplerAssumption
<1>2. \A s \in 0 .. MaxSeeds : (\A k \in 0 .. MaxSeeds : k < s => k \in S) => s \in S
  <2> SUFFICES ASSUME NEW s \in 0 .. MaxSeeds, \A k \in 0 .. MaxSeeds : k < s => k \in S,
                      s > 0, NEW x \in 0 .. MaxSeeds - s,
                      LowBit[s] = s, x = 0 \/ LowBit[x] >= 2 * s
               PROVE  LowBit[x + s] = s
    OBVIOUS
  <2>1. /\ s \in 1 .. MaxSeeds /\ x + s \in 1 .. MaxSeeds /\ s \in Nat /\ x \in Nat
        /\ x # 0 => x \in 1 .. MaxSeeds
    BY <1>1
  <2>2. CASE x = 0
    BY <2>2
  <2>3. CASE x # 0
    <3>1. x % 2 = 0
      <4>1. LowBit[x] # 1
        BY <2>1, <2>3, LowBitDef
      <4> QED
        BY <2>1, <2>3, <4>1, OddEven
    <3>2. x \div 2 \in 1 .. MaxSeeds /\ x = 2 * (x \div 2) /\ LowBit[x] = 2 * LowBit[x \div 2]
      BY <2>1, <2>3, <3>1, OddEven
    <3>3. CASE s % 2 = 1
      <4>1. s = 1
        BY <2>1, <3>3, OddEven
      <4>2. (x + s) % 2 = 1
        BY <3>2, <4>1
      <4> QED
        BY <2>1, <4>1, <4>2, OddEven
    <3>4. CASE s % 2 = 0
      <4> DEFINE a == s \div 2
                 y == x \div 2
      <4>1. a \in 1 .. MaxSeeds /\ s = 2 * a /\ LowBit[s] = 2 * LowBit[a] /\ a < s
        BY <2>1, <3>4, OddEven
      <4>2. y \in 1 .. MaxSeeds /\ x = 2 * y /\ LowBit[x] = 2 * LowBit[y]
        BY <3>2
      <4>3. LowBit[a] \in Nat /\ LowBit[y] \in Nat
        BY <4>1, <4>2, LowBitDef
      <4>4. (x + s) % 2 = 0 /\ (x + s) \div 2 = y + a
        <5> HIDE DEF a, y
        <5>1. x + s = 2 * (y + a)
          BY <4>1, <4>2
        <5> QED
          BY <4>1, <4>2, <5>1
      <4> HIDE DEF a, y
      <4>5. a \in 0 .. MaxSeeds /\ a > 0 /\ y \in 0 .. MaxSeeds - a
        BY <1>1, <2>1, <4>1, <4>2
      <4>6. LowBit[a] = a /\ LowBit[y] >= 2 * a
        BY <2>1, <2>3, <4>1, <4>2, <4>3
      <4>7. LowBit[y + a] = a
        BY <4>1, <4>5, <4>6
      <4>8. LowBit[x + s] = 2 * LowBit[y + a]
        BY <2>1, <4>4, OddEven
      <4> QED
        BY <4>1, <4>7, <4>8
    <3> QED
      BY <2>1, <3>3, <3>4
  <2> QED
    BY <2>2, <2>3
<1>3. \A s \in 0 .. MaxSeeds : s \in S
  <2> HIDE DEF S
  <2> QED
    BY <1>1, <1>2, Below, Zenon
<1>4. \A s \in 1 .. MaxSeeds : s \in 0 .. MaxSeeds /\ s > 0
  BY <1>1
<1> QED
  BY <1>3, <1>4

-----------------------------------------------------------------------------
(* Sampler: the climb and the sums.                                        *)

\* The nodes that cover seed i, of n.
Cover(i, n) == {j \in 1 .. n : j - LowBit[j] < i /\ i <= j}

\* The climb from i visits exactly the nodes that cover it.
LEMMA ClimbCovers ==
    ASSUME NEW n \in 1 .. MaxSeeds, NEW i0 \in 1 .. n
    PROVE  Climb(i0, n) = Cover(i0, n)
<1> DEFINE D == 1 .. n
           V == SUBSET D
           visit[j \in D] == {j} \cup IF j + LowBit[j] > n THEN {} ELSE visit[j + LowBit[j]]
           step == [f \in [D -> V] |-> [j \in D |-> {j} \cup IF j + LowBit[j] > n THEN {} ELSE f[j + LowBit[j]]]]
           rank == [j \in D |-> n - j]
<1>1. n \in Nat /\ \A j \in D : j \in Nat /\ j \in 1 .. MaxSeeds /\ LowBit[j] \in 1 .. j
  BY SamplerAssumption, LowBitDef
<1>2. \A j \in D : ~(j + LowBit[j] > n) => j + LowBit[j] \in D /\ n - (j + LowBit[j]) < n - j
  BY <1>1
<1>3. rank \in [D -> 0 .. n] /\ \A j \in D : rank[j] = n - j
  BY <1>1
<1>4. \A f \in [D -> V] : step[f] \in [D -> V]
  BY <1>2
<1>5. \A f \in [D -> V], j \in D :
         step[f][j] = {j} \cup IF j + LowBit[j] > n THEN {} ELSE f[j + LowBit[j]]
  OBVIOUS
<1>6. step \in [[D -> V] -> [D -> V]]
  BY <1>4
<1>7. Local(D, V, rank, step)
  <2>1. \A f, g \in [D -> V] : \A x \in D :
           (\A y \in D : rank[y] < rank[x] => f[y] = g[y]) => step[f][x] = step[g][x]
    <3> TAKE f, g \in [D -> V]
    <3> TAKE x \in D
    <3> HAVE \A y \in D : rank[y] < rank[x] => f[y] = g[y]
    <3>1. /\ step[f][x] = {x} \cup IF x + LowBit[x] > n THEN {} ELSE f[x + LowBit[x]]
          /\ step[g][x] = {x} \cup IF x + LowBit[x] > n THEN {} ELSE g[x + LowBit[x]]
      BY <1>5
    <3>2. ~(x + LowBit[x] > n) => f[x + LowBit[x]] = g[x + LowBit[x]]
      BY <1>2, <1>3
    <3> QED
      BY <3>1, <3>2
  <2> QED
    BY <2>1 DEF Local
<1>8. PICK h : Solves(h, D, V, step)
  <2>1. V # {}
    OBVIOUS
  <2> HIDE DEF D, V, rank, step
  <2> QED
    BY <1>1, <1>3, <1>6, <1>7, <2>1, Recursion
<1>9. h = [j \in D |-> {j} \cup IF j + LowBit[j] > n THEN {} ELSE h[j + LowBit[j]]]
  BY <1>8 DEF Solves
<1>10. visit = [j \in D |-> {j} \cup IF j + LowBit[j] > n THEN {} ELSE visit[j + LowBit[j]]]
  BY <1>9, Zenon
<1>11. Climb(i0, n) = visit[i0]
  BY DEF Climb
<1>12. \A j \in D : visit[j] = {j} \cup IF j + LowBit[j] > n THEN {} ELSE visit[j + LowBit[j]]
  BY <1>10
<1> HIDE DEF visit, step, rank, V
<1> DEFINE S == {m \in 0 .. n : n - m \in D => visit[n - m] = Cover(n - m, n)}
<1>13. \A m \in 0 .. n : (\A k \in 0 .. n : k < m => k \in S) => m \in S
  <2> SUFFICES ASSUME NEW m \in 0 .. n, \A k \in 0 .. n : k < m => k \in S, n - m \in D
               PROVE  visit[n - m] = Cover(n - m, n)
    OBVIOUS
  <2>1. PICK i \in D : i = n - m
    OBVIOUS
  <2>2. i \in Nat /\ LowBit[i] \in 1 .. i
    BY <1>1
  <2>3. i \in Cover(i, n) /\ \A j \in Cover(i, n) : j \in D /\ (j = i \/ i \in 1 .. j - 1)
    BY <1>1, <2>2 DEF Cover
  <2>4. CASE i + LowBit[i] > n
    <3>1. ASSUME NEW j \in Cover(i, n), j # i PROVE FALSE
      <4>1. i \in 1 .. j - 1 /\ j \in 1 .. MaxSeeds /\ j - LowBit[j] < i /\ j <= n
        BY <1>1, <2>3, <3>1 DEF Cover
      <4>2. i + LowBit[i] <= j
        BY <4>1, Nested
      <4> QED
        BY <1>1, <2>2, <2>4, <4>1, <4>2
    <3>2. visit[i] = {i}
      BY <1>12, <2>4
    <3> QED
      BY <2>1, <2>3, <3>1, <3>2
  <2>5. CASE ~(i + LowBit[i] > n)
    <3> DEFINE up == i + LowBit[i]
    <3>1. up \in D /\ up > i /\ up \in Nat
      BY <1>1, <1>2, <2>2, <2>5
    <3>2. visit[i] = {i} \cup visit[up]
      BY <1>12, <2>5
    <3>3. visit[up] = Cover(up, n)
      <4>1. n - up \in 0 .. n /\ n - up < m /\ n - (n - up) = up
        BY <1>1, <2>1, <3>1
      <4> QED
        BY <3>1, <4>1
    <3>4. ASSUME NEW j \in D PROVE j \in Cover(i, n) <=> j = i \/ j \in Cover(up, n)
      <4>1. CASE j < i
        BY <1>1, <2>2, <3>1, <4>1 DEF Cover
      <4>2. CASE j = i
        BY <2>3, <4>2
      <4>3. CASE j > i
        <5>1. i \in 1 .. j - 1 /\ j \in 1 .. MaxSeeds
          BY <1>1, <2>2, <4>3
        <5>2. j - LowBit[j] < i <=> up <= j /\ j - LowBit[j] < up
          BY <5>1, Nested
        <5> QED
          BY <1>1, <2>2, <3>1, <4>3, <5>2 DEF Cover
      <4> QED
        BY <1>1, <2>2, <4>1, <4>2, <4>3
    <3>5. Cover(i, n) = {i} \cup Cover(up, n)
      <4>1. Cover(i, n) \subseteq D /\ Cover(up, n) \subseteq D
        BY DEF Cover
      <4> QED
        BY <2>3, <3>4, <4>1
    <3> QED
      BY <2>1, <3>2, <3>3, <3>5
  <2> QED
    BY <2>4, <2>5
<1>14. \A m \in 0 .. n : m \in S
  <2> HIDE DEF S
  <2> QED
    BY <1>1, <1>13, Below, Zenon
<1>15. n - i0 \in 0 .. n /\ n - (n - i0) = i0
  BY <1>1
<1> QED
  BY <1>11, <1>14, <1>15

\* What a node holds and the sum below the seeds it covers.
LEMMA SumDef ==
    ASSUME NEW n \in 0 .. MaxSeeds, NEW t \in [1 .. n -> Int], Len(t) = n
    PROVE  /\ \A k \in 0 .. n : PrefixSum(t, k) \in Int
           /\ PrefixSum(t, 0) = 0
           /\ \A k \in 1 .. n : /\ k - LowBit[k] \in 0 .. k - 1
                               /\ PrefixSum(t, k) = t[k] + PrefixSum(t, k - LowBit[k])
<1> DEFINE D == 0 .. n
           sum[j \in D] == IF j = 0 THEN 0 ELSE t[j] + sum[j - LowBit[j]]
           step == [f \in [D -> Int] |-> [j \in D |-> IF j = 0 THEN 0 ELSE t[j] + f[j - LowBit[j]]]]
           rank == [j \in D |-> j]
<1>1. n \in Nat /\ \A j \in D : j # 0 => /\ j \in Nat /\ j \in 1 .. n /\ j - LowBit[j] \in D
                                         /\ j - LowBit[j] \in 0 .. j - 1 /\ t[j] \in Int
  <2>1. n \in Nat /\ \A j \in D : j # 0 => j \in 1 .. n /\ j \in 1 .. MaxSeeds
    BY SamplerAssumption
  <2> QED
    BY <2>1, LowBitDef
<1>3. rank \in [D -> 0 .. n] /\ \A j \in D : rank[j] = j
  BY <1>1
<1>4. \A f \in [D -> Int] : step[f] \in [D -> Int]
  BY <1>1
<1>5. \A f \in [D -> Int], j \in D : step[f][j] = IF j = 0 THEN 0 ELSE t[j] + f[j - LowBit[j]]
  OBVIOUS
<1>6. step \in [[D -> Int] -> [D -> Int]]
  BY <1>4
<1>7. Local(D, Int, rank, step)
  <2>1. \A f, g \in [D -> Int] : \A x \in D :
           (\A y \in D : rank[y] < rank[x] => f[y] = g[y]) => step[f][x] = step[g][x]
    <3> TAKE f, g \in [D -> Int]
    <3> TAKE x \in D
    <3> HAVE \A y \in D : rank[y] < rank[x] => f[y] = g[y]
    <3>1. /\ step[f][x] = IF x = 0 THEN 0 ELSE t[x] + f[x - LowBit[x]]
          /\ step[g][x] = IF x = 0 THEN 0 ELSE t[x] + g[x - LowBit[x]]
      BY <1>5
    <3>2. x # 0 => x - LowBit[x] \in D /\ x - LowBit[x] < x
      BY <1>1, SMTT(30)
    <3>3. x # 0 => f[x - LowBit[x]] = g[x - LowBit[x]]
      BY <1>3, <3>2
    <3> QED
      BY <3>1, <3>3
  <2> QED
    BY <2>1 DEF Local
<1>8. PICK h : Solves(h, D, Int, step)
  <2>1. Int # {}
    OBVIOUS
  <2> HIDE DEF D, rank, step
  <2> QED
    BY <1>1, <1>3, <1>6, <1>7, <2>1, Recursion
<1>9. h = [j \in D |-> IF j = 0 THEN 0 ELSE t[j] + h[j - LowBit[j]]]
  BY <1>8 DEF Solves
<1>10. sum = [j \in D |-> IF j = 0 THEN 0 ELSE t[j] + sum[j - LowBit[j]]]
  BY <1>9, Zenon
<1>11. \A k : PrefixSum(t, k) = sum[k]
  BY DEF PrefixSum
<1>12. \A j \in D : sum[j] = IF j = 0 THEN 0 ELSE t[j] + sum[j - LowBit[j]]
  BY <1>10
<1> HIDE DEF sum, step, rank
<1> DEFINE S == {j \in 0 .. n : sum[j] \in Int}
<1>13. \A j \in 0 .. n : (\A k \in 0 .. n : k < j => k \in S) => j \in S
  BY <1>1, <1>12
<1>14. \A j \in 0 .. n : j \in S
  <2> HIDE DEF S
  <2> QED
    BY <1>1, <1>13, Below, Zenon
<1>15. \A j \in D : sum[j] \in Int
  BY <1>14
<1>16. \A k \in 1 .. n : k \in D /\ k # 0
  BY <1>1
<1>17. \A k \in 1 .. n : k - LowBit[k] \in 0 .. k - 1 /\ sum[k] = t[k] + sum[k - LowBit[k]]
  BY <1>1, <1>12, <1>16
<1>18. sum[0] = 0 /\ 0 \in D
  BY <1>1, <1>12
<1> HIDE DEF S
<1> QED
  BY <1>11, <1>15, <1>17, <1>18

\* Adding to a seed adds to the sums from it on, and to no other.
LEMMA AddShifts ==
    ASSUME NEW n \in 1 .. MaxSeeds, NEW t \in [1 .. n -> Int], Len(t) = n,
           NEW i \in 1 .. n, NEW d \in Int
    PROVE  /\ Add(t, i, d) \in [1 .. n -> Int]
           /\ Len(Add(t, i, d)) = n
           /\ \A k \in 0 .. n :
                 PrefixSum(Add(t, i, d), k) = PrefixSum(t, k) + IF i <= k THEN d ELSE 0
<1>1. n \in Nat /\ n \in 0 .. MaxSeeds /\ DOMAIN t = 1 .. n
  BY SamplerAssumption
<1>2. PICK u : u = Add(t, i, d)
  OBVIOUS
<1>3. u = [j \in 1 .. n |-> IF j \in Cover(i, n) THEN t[j] + d ELSE t[j]]
  BY <1>1, <1>2, ClimbCovers DEF Add
<1>4. u \in [1 .. n -> Int] /\ u \in Seq(Int) /\ DOMAIN u = 1 .. n
  BY <1>1, <1>3
<1>5. Len(u) = n
  BY <1>1, <1>4
<1>8. /\ \A k \in 0 .. n : PrefixSum(t, k) \in Int
      /\ PrefixSum(t, 0) = 0
      /\ \A k \in 1 .. n : k - LowBit[k] \in 0 .. k - 1 /\ PrefixSum(t, k) = t[k] + PrefixSum(t, k - LowBit[k])
  BY <1>1, SumDef
<1>9. /\ PrefixSum(u, 0) = 0
      /\ \A k \in 1 .. n : PrefixSum(u, k) = u[k] + PrefixSum(u, k - LowBit[k])
  BY <1>1, <1>4, <1>5, SumDef
<1> DEFINE S == {k \in 0 .. n : PrefixSum(u, k) = PrefixSum(t, k) + IF i <= k THEN d ELSE 0}
<1>6. \A k \in 0 .. n : (\A j \in 0 .. n : j < k => j \in S) => k \in S
  <2> SUFFICES ASSUME NEW k \in 0 .. n, \A j \in 0 .. n : j < k => j \in S
               PROVE  PrefixSum(u, k) = PrefixSum(t, k) + IF i <= k THEN d ELSE 0
    OBVIOUS
  <2>1. CASE k = 0
    BY <1>1, <1>8, <1>9, <2>1
  <2>2. CASE k # 0
    <3>1. k \in 1 .. n /\ k \in Nat
      BY <1>1, <2>2
    <3> HIDE DEF S
    <3> DEFINE low == k - LowBit[k]
    <3>2. low \in 0 .. k - 1 /\ PrefixSum(u, k) = u[k] + PrefixSum(u, low)
      BY <1>8, <1>9, <3>1
    <3>3. PrefixSum(t, k) = t[k] + PrefixSum(t, low) /\ t[k] \in Int
      BY <1>8, <3>1
    <3>4. u[k] = IF low < i /\ i <= k THEN t[k] + d ELSE t[k]
      BY <1>3, <3>1 DEF Cover
    <3>5. low \in 0 .. n /\ low < k /\ PrefixSum(t, low) \in Int
      BY <1>8, <3>1, <3>2
    <3>6. PrefixSum(u, low) = PrefixSum(t, low) + IF i <= low THEN d ELSE 0
      BY <3>5 DEF S
    <3> HIDE DEF low
    <3> QED
      BY <1>1, <3>1, <3>2, <3>3, <3>4, <3>5, <3>6
  <2> QED
    BY <2>1, <2>2
<1>7. \A k \in 0 .. n : k \in S
  <2> HIDE DEF S
  <2> QED
    BY <1>1, <1>6, Below, Zenon
<1> QED
  BY <1>2, <1>4, <1>5, <1>7

\* The true sums.
LEMMA TrueSum ==
    ASSUME NEW n \in Nat, NEW ws \in [1 .. n -> Int], Len(ws) = n
    PROVE  /\ \A k \in 0 .. n : SumTo(ws, k) \in Int
           /\ SumTo(ws, 0) = 0
           /\ \A k \in 1 .. n : SumTo(ws, k) = SumTo(ws, k - 1) + ws[k]
<1> DEFINE D == 0 .. n
           sum[j \in D] == IF j = 0 THEN 0 ELSE sum[j - 1] + ws[j]
           step == [f \in [D -> Int] |-> [j \in D |-> IF j = 0 THEN 0 ELSE f[j - 1] + ws[j]]]
           rank == [j \in D |-> j]
<1>1. \A j \in D : j # 0 => j \in Nat /\ j - 1 \in D /\ j - 1 < j /\ ws[j] \in Int
  OBVIOUS
<1>3. rank \in [D -> 0 .. n] /\ \A j \in D : rank[j] = j
  OBVIOUS
<1>4. \A f \in [D -> Int] : step[f] \in [D -> Int]
  BY <1>1
<1>5. \A f \in [D -> Int], j \in D : step[f][j] = IF j = 0 THEN 0 ELSE f[j - 1] + ws[j]
  OBVIOUS
<1>6. step \in [[D -> Int] -> [D -> Int]]
  BY <1>4
<1>7. Local(D, Int, rank, step)
  <2>1. \A f, g \in [D -> Int] : \A x \in D :
           (\A y \in D : rank[y] < rank[x] => f[y] = g[y]) => step[f][x] = step[g][x]
    <3> TAKE f, g \in [D -> Int]
    <3> TAKE x \in D
    <3> HAVE \A y \in D : rank[y] < rank[x] => f[y] = g[y]
    <3>1. /\ step[f][x] = IF x = 0 THEN 0 ELSE f[x - 1] + ws[x]
          /\ step[g][x] = IF x = 0 THEN 0 ELSE g[x - 1] + ws[x]
      BY <1>5
    <3>2. x # 0 => f[x - 1] = g[x - 1]
      BY <1>1, <1>3
    <3> QED
      BY <3>1, <3>2
  <2> QED
    BY <2>1 DEF Local
<1>8. PICK h : Solves(h, D, Int, step)
  <2>1. Int # {}
    OBVIOUS
  <2> HIDE DEF D, rank, step
  <2> QED
    BY <1>3, <1>6, <1>7, <2>1, Recursion
<1>9. h = [j \in D |-> IF j = 0 THEN 0 ELSE h[j - 1] + ws[j]]
  BY <1>8 DEF Solves
<1>10. sum = [j \in D |-> IF j = 0 THEN 0 ELSE sum[j - 1] + ws[j]]
  BY <1>9, Zenon
<1>11. \A k : SumTo(ws, k) = sum[k]
  BY DEF SumTo
<1>12. \A j \in D : sum[j] = IF j = 0 THEN 0 ELSE sum[j - 1] + ws[j]
  BY <1>10
<1> HIDE DEF sum, step, rank
<1> DEFINE S == {j \in 0 .. n : sum[j] \in Int}
<1>13. \A j \in 0 .. n : (\A k \in 0 .. n : k < j => k \in S) => j \in S
  BY <1>1, <1>12, SMTT(30)
<1>14. \A j \in 0 .. n : j \in S
  <2> HIDE DEF S
  <2> QED
    BY <1>13, Below, Zenon
<1>15. \A j \in D : sum[j] \in Int
  BY <1>14
<1>16. \A k \in 1 .. n : sum[k] = sum[k - 1] + ws[k]
  BY <1>12
<1>17. sum[0] = 0 /\ 0 \in D
  BY <1>12
<1> HIDE DEF S
<1> QED
  BY <1>11, <1>15, <1>16, <1>17

\* The first step is the last power of two that is a node.
LEMMA FirstStepDef ==
    ASSUME NEW n \in 1 .. MaxSeeds, NEW t, Len(t) = n
    PROVE  FirstStep(t) \in 1 .. n /\ LowBit[FirstStep(t)] = FirstStep(t) /\ 2 * FirstStep(t) > n
<1> DEFINE P == {0} \cup {p \in 1 .. n : LowBit[p] = p}
<1>1. n \in Nat /\ \A p \in 1 .. n : p \in 1 .. MaxSeeds
  BY SamplerAssumption
<1>2. 1 \in P
  <2>1. 1 \in 1 .. n /\ 1 % 2 = 1
    BY <1>1
  <2> QED
    BY <1>1, <2>1, OddEven
<1>3. P \subseteq 0 .. n /\ \A p \in P : p # 0 => p \in 1 .. n /\ LowBit[p] = p
  BY <1>1
<1> HIDE DEF P
<1>4. \E x \in P : \A y \in P : x >= y
  <2> DEFINE T == {n - p : p \in P}
  <2>1. T \subseteq Nat /\ T # {}
    BY <1>1, <1>2, <1>3
  <2>2. PICK x \in T : \A y \in T : x <= y
    BY <2>1, Least
  <2>3. PICK p \in P : x = n - p
    BY <2>2
  <2>4. \A q \in P : n - p <= n - q
    BY <2>2, <2>3
  <2> QED
    BY <1>1, <1>3, <2>4
<1>5. FirstStep(t) = Max(P)
  BY DEF FirstStep, P
<1>6. Max(P) \in P /\ \A y \in P : Max(P) >= y
  BY <1>4 DEF Max
<1>7. PICK f \in 1 .. n : f = FirstStep(t) /\ f \in P /\ LowBit[f] = f /\ \A y \in P : f >= y
  <2>1. PICK f : f = FirstStep(t) /\ f \in P /\ \A y \in P : f >= y
    BY <1>5, <1>6
  <2>2. f \in 0 .. n /\ f >= 1
    BY <1>2, <1>3, <2>1
  <2>3. f \in 1 .. n /\ f # 0
    BY <1>1, <2>2
  <2> QED
    BY <1>3, <2>1, <2>3
<1>8. ASSUME 2 * f <= n PROVE FALSE
  <2>1. 2 * f \in 1 .. n /\ f \in Nat /\ f > 0
    BY <1>1, <1>8
  <2>2. (2 * f) % 2 = 0 /\ (2 * f) \div 2 = f
    BY <2>1
  <2>3. LowBit[2 * f] = 2 * f
    BY <1>1, <1>7, <2>1, <2>2, OddEven
  <2>4. 2 * f \in P
    BY <2>1, <2>3 DEF P
  <2> QED
    BY <1>7, <2>1, <2>4
<1> QED
  BY <1>1, <1>7, <1>8

-----------------------------------------------------------------------------
(* Sampler: the descent.                                                   *)

\* Where the descent of a tree of n nodes for a target may be after k rounds.  It has
\* passed over sums up to the target, the next boundary it could reach is past the
\* target or the end, and its steps fit the nodes.
Positions(n) == [step : 0 .. n, idx : 0 .. n, left : Int]
Ahead(at) == at.idx + (IF at.step = 0 THEN 1 ELSE 2 * at.step)
OnTheWay(t, n, target, at) ==
    /\ at.step # 0 => LowBit[at.step] = at.step
    /\ at.idx # 0 => LowBit[at.idx] >= 2 * at.step
    /\ at.left = target - PrefixSum(t, at.idx) /\ at.left >= 0
    /\ Ahead(at) > n \/ PrefixSum(t, Ahead(at)) > target

LEMMA RoundKeeps ==
    ASSUME NEW n \in 1 .. MaxSeeds, NEW t \in [1 .. n -> Int], Len(t) = n, NEW target \in Int,
           NEW at \in Positions(n), OnTheWay(t, n, target, at)
    PROVE  OnTheWay(t, n, target, Round(t, at))
<1>1. n \in Nat /\ n \in 0 .. MaxSeeds /\ MaxSeeds \in Nat /\ \A i \in 0 .. n : i # 0 => i \in 1 .. MaxSeeds
  BY SamplerAssumption
<1>2. PICK s \in 0 .. n, x \in 0 .. n, l \in Int : at = [step |-> s, idx |-> x, left |-> l]
  BY DEF Positions
<1>3. at.step = s /\ at.idx = x /\ at.left = l
  BY <1>2
<1>4. /\ s # 0 => LowBit[s] = s
      /\ x # 0 => LowBit[x] >= 2 * s
      /\ l = target - PrefixSum(t, x) /\ l >= 0
      /\ LET a == x + (IF s = 0 THEN 1 ELSE 2 * s) IN a > n \/ PrefixSum(t, a) > target
  BY <1>3 DEF OnTheWay, Ahead
<1>5. CASE s = 0
  <2>1. Round(t, at) = at
    <3>1. 0 \div 2 = 0
      OBVIOUS
    <3> QED
      BY <1>2, <1>3, <1>5, <3>1 DEF Round
  <2> QED
    BY <2>1
<1>6. CASE s # 0
  <2>1. s \in 1 .. n /\ s \in 1 .. MaxSeeds /\ s \in Nat
    BY <1>1, <1>6
  <2>2. PICK h \in Nat : /\ h = s \div 2 /\ 2 * h <= s /\ (h # 0 => LowBit[h] = h)
                        /\ s = IF h = 0 THEN 1 ELSE 2 * h
    <3>1. CASE s % 2 = 1
      <4>1. s = 1
        BY <1>4, <2>1, <3>1, OddEven
      <4>2. 1 \div 2 = 0
        OBVIOUS
      <4> QED
        BY <4>1, <4>2
    <3>2. CASE s % 2 = 0
      <4>1. PICK h : h = s \div 2
        OBVIOUS
      <4>2. h \in 1 .. MaxSeeds /\ s = 2 * h /\ LowBit[s] = 2 * LowBit[h]
        BY <2>1, <3>2, <4>1, OddEven
      <4>3. LowBit[h] \in Nat /\ LowBit[s] = s /\ h \in Nat /\ h # 0
        BY <1>4, <1>6, <1>1, <4>2, LowBitDef, SMTT(30)
      <4>4. LowBit[h] = h
        BY <4>2, <4>3
      <4> QED
        BY <4>1, <4>2, <4>3, <4>4
    <3> QED
      BY <2>1, <3>1, <3>2
  <2>3. PICK y \in Nat : y = x + s
    BY <2>1
  <2>4. y <= n => /\ y \in 1 .. n /\ LowBit[y] = s /\ t[y] \in Int
                  /\ PrefixSum(t, y) = t[y] + PrefixSum(t, x)
    <3> SUFFICES ASSUME y <= n
                 PROVE  /\ y \in 1 .. n /\ LowBit[y] = s /\ t[y] \in Int
                        /\ PrefixSum(t, y) = t[y] + PrefixSum(t, x)
      OBVIOUS
    <3>1. y \in 1 .. n /\ x \in 0 .. MaxSeeds - s /\ y - s = x
      BY <1>1, <2>1, <2>3
    <3>2. LowBit[y] = s
      BY <1>4, <1>6, <2>1, <2>3, <3>1, SumBit
    <3>3. PrefixSum(t, y) = t[y] + PrefixSum(t, y - LowBit[y])
      BY <1>1, <3>1, SumDef
    <3> QED
      BY <3>1, <3>2, <3>3
  <2>5. PrefixSum(t, x) \in Int
    BY <1>1, SumDef
  <2>6. CASE y <= n /\ t[y] <= l
    <3>1. Round(t, at) = [step |-> h, idx |-> y, left |-> l - t[y]]
      BY <1>3, <2>1, <2>2, <2>3, <2>6 DEF Round
    <3>2. l - t[y] = target - PrefixSum(t, y) /\ l - t[y] >= 0
      BY <1>4, <2>4, <2>5, <2>6
    <3>3. y + s = x + 2 * s
      BY <2>1, <2>3
    <3>4. y + s > n \/ PrefixSum(t, y + s) > target
      BY <1>4, <1>6, <3>3
    <3>5. y + (IF h = 0 THEN 1 ELSE 2 * h) = y + s
      BY <2>2
    <3>6. PICK a : a = Round(t, at)
      OBVIOUS
    <3>7. a.step = h /\ a.idx = y /\ a.left = l - t[y]
      BY <3>1, <3>6
    <3>8. Ahead(a) = y + s
      BY <3>5, <3>7 DEF Ahead
    <3>9. LowBit[y] >= 2 * h
      BY <2>1, <2>2, <2>4, <2>6
    <3>10. OnTheWay(t, n, target, a)
      BY <2>2, <3>2, <3>4, <3>7, <3>8, <3>9 DEF OnTheWay
    <3> QED
      BY <3>6, <3>10
  <2>7. CASE ~(y <= n /\ t[y] <= l)
    <3>1. Round(t, at) = [step |-> h, idx |-> x, left |-> l]
      BY <1>3, <2>1, <2>2, <2>3, <2>7 DEF Round
    <3>2. y > n \/ PrefixSum(t, y) > target
      BY <1>1, <1>4, <2>4, <2>5, <2>7
    <3>3. x + (IF h = 0 THEN 1 ELSE 2 * h) = y
      BY <2>2, <2>3
    <3>4. x # 0 => LowBit[x] >= 2 * h
      <4>1. x # 0 => LowBit[x] \in Nat
        BY <1>1, LowBitDef
      <4> QED
        BY <1>4, <2>1, <2>2, <4>1
    <3>6. PICK a : a = Round(t, at)
      OBVIOUS
    <3>7. a.step = h /\ a.idx = x /\ a.left = l
      BY <3>1, <3>6
    <3>8. Ahead(a) = y
      BY <3>3, <3>7 DEF Ahead
    <3>10. OnTheWay(t, n, target, a)
      BY <1>4, <2>2, <3>2, <3>4, <3>7, <3>8 DEF OnTheWay
    <3> QED
      BY <3>6, <3>10
  <2> QED
    BY <2>6, <2>7
<1> QED
  BY <1>5, <1>6

\* The descent passes over as many seeds as have their sum below the target or at it.
LEMMA DescentFinds ==
    ASSUME NEW n \in 1 .. MaxSeeds, NEW t \in [1 .. n -> Int], Len(t) = n, NEW target \in Nat
    PROVE  /\ Descent(t, target) \in 0 .. n
           /\ PrefixSum(t, Descent(t, target)) <= target
           /\ Descent(t, target) < n => PrefixSum(t, Descent(t, target) + 1) > target
<1> DEFINE D == 0 .. n
           V == Positions(n)
           first == [step |-> FirstStep(t), idx |-> 0, left |-> target]
           at[k \in D] == IF k = 0 THEN first ELSE Round(t, at[k - 1])
           step == [f \in [D -> V] |-> [k \in D |-> IF k = 0 THEN first ELSE Round(t, f[k - 1])]]
           rank == [k \in D |-> k]
<1>1. n \in Nat /\ n \in 0 .. MaxSeeds /\ target \in Int /\ \A k \in D : k # 0 => k - 1 \in D /\ k - 1 < k
  BY SamplerAssumption
<1>2. first \in V /\ OnTheWay(t, n, target, first) /\ first.step <= n
  <2>1. FirstStep(t) \in 1 .. n /\ LowBit[FirstStep(t)] = FirstStep(t) /\ 2 * FirstStep(t) > n
    BY FirstStepDef
  <2>2. PrefixSum(t, 0) = 0
    BY <1>1, SumDef
  <2>3. PICK f \in 1 .. n : f = FirstStep(t)
    BY <2>1
  <2>4. first.step = f /\ first.idx = 0 /\ first.left = target /\ first \in V
    BY <1>1, <2>3 DEF Positions
  <2> HIDE DEF first
  <2>5. Ahead(first) = 2 * f
    BY <1>1, <2>4 DEF Ahead
  <2> QED
    BY <1>1, <2>1, <2>2, <2>3, <2>4, <2>5 DEF OnTheWay
<1>3. ASSUME NEW p \in V
      PROVE  /\ Round(t, p) \in V
             /\ p.step = 0 => Round(t, p).step = 0
             /\ p.step # 0 => Round(t, p).step < p.step
  <2>1. p.step \in 0 .. n /\ p.idx \in 0 .. n /\ p.left \in Int
    BY DEF Positions
  <2>2. PICK h : h = p.step \div 2
    OBVIOUS
  <2>3. /\ h \in 0 .. n
        /\ p.step = 0 => h = 0
        /\ p.step # 0 => h < p.step
    BY <1>1, <2>1, <2>2
  <2>4. PICK y : y = p.idx + p.step
    OBVIOUS
  <2>5. p.step > 0 /\ y <= n => y \in 0 .. n /\ t[y] \in Int
    BY <1>1, <2>1, <2>4
  <2>6. Round(t, p) = IF p.step > 0 /\ y <= n /\ t[y] <= p.left
                      THEN [step |-> h, idx |-> y, left |-> p.left - t[y]]
                      ELSE [step |-> h, idx |-> p.idx, left |-> p.left]
    BY <2>2, <2>4 DEF Round
  <2> QED
    BY <2>1, <2>3, <2>5, <2>6 DEF Positions
<1> HIDE DEF first, V
<1>4. \A f \in [D -> V] : step[f] \in [D -> V]
  BY <1>1, <1>2, <1>3
<1>5. \A f \in [D -> V], k \in D : step[f][k] = IF k = 0 THEN first ELSE Round(t, f[k - 1])
  OBVIOUS
<1>6. step \in [[D -> V] -> [D -> V]] /\ rank \in [D -> 0 .. n] /\ \A k \in D : rank[k] = k
  BY <1>4
<1>7. Local(D, V, rank, step)
  <2>1. \A f, g \in [D -> V] : \A x \in D :
           (\A y \in D : rank[y] < rank[x] => f[y] = g[y]) => step[f][x] = step[g][x]
    <3> TAKE f, g \in [D -> V]
    <3> TAKE x \in D
    <3> HAVE \A y \in D : rank[y] < rank[x] => f[y] = g[y]
    <3>1. /\ step[f][x] = IF x = 0 THEN first ELSE Round(t, f[x - 1])
          /\ step[g][x] = IF x = 0 THEN first ELSE Round(t, g[x - 1])
      BY <1>5
    <3>2. x # 0 => f[x - 1] = g[x - 1]
      BY <1>1, <1>6
    <3> QED
      BY <3>1, <3>2
  <2> QED
    BY <2>1 DEF Local
<1>8. PICK h : Solves(h, D, V, step)
  <2>1. V # {}
    BY <1>2
  <2> HIDE DEF D, rank, step
  <2> QED
    BY <1>1, <1>6, <1>7, <2>1, Recursion
<1>9. h = [k \in D |-> IF k = 0 THEN first ELSE Round(t, h[k - 1])]
  BY <1>8 DEF Solves
<1>10. at = [k \in D |-> IF k = 0 THEN first ELSE Round(t, at[k - 1])]
  BY <1>9, Zenon
<1>11. Descent(t, target) = at[n].idx
  BY DEF Descent, first
<1>12. at[0] = first /\ \A k \in D : k # 0 => at[k] = Round(t, at[k - 1])
  <2>1. \A k \in D : at[k] = IF k = 0 THEN first ELSE Round(t, at[k - 1])
    BY <1>10
  <2>2. 0 \in D
    BY <1>1
  <2> HIDE DEF at
  <2> QED
    BY <2>1, <2>2
<1> HIDE DEF at, step, rank
<1> DEFINE S == {k \in 0 .. n : at[k] \in V /\ OnTheWay(t, n, target, at[k]) /\ at[k].step <= n - k}
<1>13. \A k \in 0 .. n : (\A j \in 0 .. n : j < k => j \in S) => k \in S
  <2> SUFFICES ASSUME NEW k \in 0 .. n, \A j \in 0 .. n : j < k => j \in S
               PROVE  at[k] \in V /\ OnTheWay(t, n, target, at[k]) /\ at[k].step <= n - k
    OBVIOUS
  <2>1. CASE k = 0
    BY <1>1, <1>2, <1>12, <2>1
  <2>2. CASE k # 0
    <3>1. PICK p : p = at[k - 1]
      OBVIOUS
    <3>2. p \in V /\ OnTheWay(t, n, target, p) /\ p.step <= n - (k - 1)
      BY <1>1, <2>2, <3>1
    <3>3. at[k] = Round(t, p)
      BY <1>12, <2>2, <3>1
    <3>4. OnTheWay(t, n, target, Round(t, p))
      BY <1>1, <3>2, RoundKeeps DEF V
    <3>5. Round(t, p).step \in 0 .. n /\ p.step \in 0 .. n
      BY <1>3, <3>2 DEF V, Positions
    <3>6. Round(t, p).step <= n - k
      BY <1>1, <1>3, <3>2, <3>5
    <3> QED
      BY <1>3, <3>2, <3>3, <3>4, <3>6
  <2> QED
    BY <2>1, <2>2
<1>14. \A k \in 0 .. n : k \in S
  <2> HIDE DEF S
  <2> QED
    BY <1>1, <1>13, Below, Zenon
<1>15. PICK p : p = at[n]
  OBVIOUS
<1>16. p \in V /\ OnTheWay(t, n, target, p) /\ p.step <= n - n
  BY <1>1, <1>14, <1>15
<1>17. p.step = 0 /\ p.idx \in 0 .. n /\ PrefixSum(t, p.idx) \in Int
  BY <1>1, <1>16, SumDef DEF V, Positions
<1>18. Ahead(p) = p.idx + 1
  BY <1>17 DEF Ahead
<1>19. PrefixSum(t, p.idx) <= target /\ (p.idx + 1 > n \/ PrefixSum(t, p.idx + 1) > target)
  BY <1>16, <1>17, <1>18 DEF OnTheWay
<1> QED
  BY <1>1, <1>11, <1>15, <1>17, <1>19

-----------------------------------------------------------------------------
(* Sampler: what holds in every history.                                   *)

\* The types; there is a node for every seed.
SInv ==
    \E n \in 0 .. MaxSeeds :
        /\ weights \in [1 .. n -> Nat] /\ Len(weights) = n
        /\ tree \in [1 .. n -> Int] /\ Len(tree) = n

\* A sequence of n is a function on 1 .. n.
LEMMA SeqFcn ==
    ASSUME NEW n \in Nat, NEW S, NEW s \in [1 .. n -> S]
    PROVE  s \in Seq(S) /\ Len(s) = n
<1>1. s \in Seq(S)
  OBVIOUS
<1> QED
  BY <1>1

\* The next number.
After(m, n) == m \in Nat /\ m = n + 1

LEMMA AppendFcn ==
    ASSUME NEW n \in Nat, NEW m \in Nat, After(m, n), NEW S, NEW s \in [1 .. n -> S], NEW x \in S
    PROVE  /\ Append(s, x) \in [1 .. m -> S] /\ Len(Append(s, x)) = m
           /\ Append(s, x)[m] = x /\ \A i \in 1 .. n : Append(s, x)[i] = s[i]
<1>1. s \in Seq(S) /\ Len(s) = n /\ m \in Nat /\ m = n + 1
  BY SeqFcn DEF After
<1>2. Append(s, x) \in Seq(S) /\ Len(Append(s, x)) = m
  BY <1>1
<1>3. Append(s, x)[m] = x /\ \A i \in 1 .. n : Append(s, x)[i] = s[i]
  BY <1>1
<1>4. Append(s, x) \in [1 .. m -> S]
  <2>1. \A q \in Seq(S) : q \in [1 .. Len(q) -> S]
    OBVIOUS
  <2> QED
    BY <1>2, <2>1
<1> QED
  BY <1>2, <1>3, <1>4

\* The sums of new are those of ws, shifted by d from i on.
Shifted(new, ws, n, i, d) == \A k \in 0 .. n : SumTo(new, k) = SumTo(ws, k) + IF i <= k THEN d ELSE 0

\* A seed's weight counts from it on.
LEMMA TrueShift ==
    ASSUME NEW n \in Nat, NEW ws \in [1 .. n -> Int], NEW i \in 1 .. n, NEW w \in Int,
           NEW new \in [1 .. n -> Int], new[i] = w, \A k \in 1 .. n : k # i => new[k] = ws[k]
    PROVE  Shifted(new, ws, n, i, w - ws[i])
<1>3. Len(ws) = n /\ Len(new) = n
  BY SeqFcn
<1>4. /\ \A k \in 0 .. n : SumTo(ws, k) \in Int
      /\ SumTo(ws, 0) = 0
      /\ \A k \in 1 .. n : SumTo(ws, k) = SumTo(ws, k - 1) + ws[k]
  BY <1>3, TrueSum
<1>5. SumTo(new, 0) = 0 /\ \A k \in 1 .. n : SumTo(new, k) = SumTo(new, k - 1) + new[k]
  BY <1>3, TrueSum
<1> DEFINE S == {k \in 0 .. n : SumTo(new, k) = SumTo(ws, k) + IF i <= k THEN w - ws[i] ELSE 0}
<1>6. \A k \in 0 .. n : (\A j \in 0 .. n : j < k => j \in S) => k \in S
  <2> SUFFICES ASSUME NEW k \in 0 .. n, \A j \in 0 .. n : j < k => j \in S
               PROVE  SumTo(new, k) = SumTo(ws, k) + IF i <= k THEN w - ws[i] ELSE 0
    OBVIOUS
  <2>1. CASE k = 0
    BY <1>4, <1>5, <2>1
  <2>2. CASE k # 0
    <3>1. k \in 1 .. n /\ k - 1 \in 0 .. n /\ k - 1 < k /\ ws[k] \in Int /\ ws[i] \in Int
      BY <2>2
    <3>2. SumTo(new, k - 1) = SumTo(ws, k - 1) + IF i <= k - 1 THEN w - ws[i] ELSE 0
      BY <3>1
    <3> HIDE DEF S
    <3>3. new[k] = IF k = i THEN w ELSE ws[k]
      BY <3>1
    <3>4. SumTo(new, k) = SumTo(new, k - 1) + new[k] /\ SumTo(ws, k) = SumTo(ws, k - 1) + ws[k]
      BY <1>4, <1>5, <3>1
    <3>5. SumTo(ws, k - 1) \in Int
      BY <1>4, <3>1
    <3> QED
      BY <3>1, <3>2, <3>3, <3>4, <3>5
  <2> QED
    BY <2>1, <2>2
<1>7. \A k \in 0 .. n : k \in S
  <2> HIDE DEF S
  <2> QED
    BY <1>6, Below, Zenon
<1> QED
  BY <1>7 DEF Shifted

LEMMA SetKeeps ==
    ASSUME NEW n \in 0 .. MaxSeeds, weights \in [1 .. n -> Nat], Len(weights) = n,
           tree \in [1 .. n -> Int], Len(tree) = n,
           NEW i \in 1 .. n, NEW w \in Nat, SetWeight(i, w)
    PROVE  /\ weights' \in [1 .. n -> Nat] /\ Len(weights') = n
           /\ tree' \in [1 .. n -> Int] /\ Len(tree') = n
           /\ \A k \in 0 .. n : Drift(tree', weights', k) = Drift(tree, weights, k)
<1>1. n \in Nat /\ n \in 1 .. MaxSeeds
  BY SamplerAssumption
<1>2. PICK ws : ws = weights
  OBVIOUS
<1>3. PICK new : new = weights'
  OBVIOUS
<1>4. ws \in [1 .. n -> Nat] /\ ws \in [1 .. n -> Int] /\ Len(ws) = n /\ ws[i] \in Int
  BY <1>2
<1>5. new = [ws EXCEPT ![i] = w]
  BY <1>2, <1>3 DEF SetWeight
<1>6. new \in [1 .. n -> Nat] /\ Len(new) = n
  BY <1>1, <1>4, <1>5, SeqFcn
<1>7. Shifted(new, ws, n, i, w - ws[i])
  <2>1. w \in Int /\ new \in [1 .. n -> Int] /\ new[i] = w /\ \A k \in 1 .. n : k # i => new[k] = ws[k]
    BY <1>4, <1>5
  <2> QED
    BY <1>1, <1>4, <2>1, TrueShift
<1>8. \A k \in 0 .. n : SumTo(ws, k) \in Int
  BY <1>1, <1>4, TrueSum
<1>9. PICK t : t = tree
  OBVIOUS
<1>10. t \in [1 .. n -> Int] /\ Len(t) = n
  BY <1>9
<1>11. \A k \in 0 .. n : PrefixSum(t, k) \in Int
  BY <1>10, SumDef
<1>12. CASE ws[i] = w
  <2>1. tree' = t /\ new = ws
    BY <1>2, <1>4, <1>5, <1>9, <1>12 DEF SetWeight
  <2> QED
    BY <1>2, <1>3, <1>9, <1>10, <1>6, <2>1
<1>13. CASE ws[i] # w
  <2>1. PICK u : u = tree'
    OBVIOUS
  <2>2. PICK d \in Int : d = w - ws[i]
    BY <1>4
  <2>3. u = Add(t, i, d)
    BY <1>2, <1>9, <1>13, <2>1, <2>2 DEF SetWeight
  <2>4. /\ u \in [1 .. n -> Int] /\ Len(u) = n
        /\ \A k \in 0 .. n : PrefixSum(u, k) = PrefixSum(t, k) + IF i <= k THEN d ELSE 0
    BY <1>1, <1>10, <2>3, AddShifts, ZenonT(40)
  <2>5. \A k \in 0 .. n : SumTo(new, k) = SumTo(ws, k) + IF i <= k THEN d ELSE 0
    BY <1>7, <2>2 DEF Shifted
  <2>6. \A k \in 0 .. n : Drift(u, new, k) = Drift(t, ws, k)
    <3> TAKE k \in 0 .. n
    <3>1. SumTo(ws, k) \in Int /\ PrefixSum(t, k) \in Int
      BY <1>8, <1>11
    <3>2. CASE i <= k
      <4>1. PrefixSum(u, k) = PrefixSum(t, k) + d /\ SumTo(new, k) = SumTo(ws, k) + d
        BY <2>4, <2>5, <3>2
      <4> QED
        BY <3>1, <4>1 DEF Drift
    <3>3. CASE ~(i <= k)
      <4>1. PrefixSum(u, k) = PrefixSum(t, k) + 0 /\ SumTo(new, k) = SumTo(ws, k) + 0
        BY <2>4, <2>5, <3>3
      <4> QED
        BY <3>1, <4>1 DEF Drift
    <3> QED
      BY <3>2, <3>3
  <2> QED
    BY <1>2, <1>3, <1>6, <1>9, <2>1, <2>4, <2>6
<1> QED
  BY <1>12, <1>13

\* The sums up to n do not depend on what comes after it.
LEMMA SamePrefix ==
    ASSUME NEW n \in Nat, NEW m \in 0 .. MaxSeeds, After(m, n),
           NEW t \in [1 .. n -> Int], NEW u \in [1 .. m -> Int], \A i \in 1 .. n : u[i] = t[i]
    PROVE  \A k \in 0 .. n : PrefixSum(u, k) = PrefixSum(t, k)
<1>1. MaxSeeds \in Nat /\ n \in 0 .. MaxSeeds /\ m \in Nat /\ m = n + 1
  BY SamplerAssumption DEF After
<1>2. Len(t) = n /\ Len(u) = m
  BY <1>1, SeqFcn
<1>3. /\ PrefixSum(t, 0) = 0
      /\ \A k \in 1 .. n : k - LowBit[k] \in 0 .. k - 1 /\ PrefixSum(t, k) = t[k] + PrefixSum(t, k - LowBit[k])
  BY <1>1, <1>2, SumDef
<1>4. /\ PrefixSum(u, 0) = 0
      /\ \A k \in 1 .. m : PrefixSum(u, k) = u[k] + PrefixSum(u, k - LowBit[k])
  BY <1>1, <1>2, SumDef
<1> DEFINE S == {k \in 0 .. n : PrefixSum(u, k) = PrefixSum(t, k)}
<1>5. \A k \in 0 .. n : (\A j \in 0 .. n : j < k => j \in S) => k \in S
  <2> SUFFICES ASSUME NEW k \in 0 .. n, \A j \in 0 .. n : j < k => j \in S
               PROVE  PrefixSum(u, k) = PrefixSum(t, k)
    OBVIOUS
  <2>1. CASE k = 0
    BY <1>3, <1>4, <2>1
  <2>2. CASE k # 0
    <3> DEFINE low == k - LowBit[k]
    <3>1. k \in 1 .. n /\ k \in 1 .. m
      BY <1>1, <2>2
    <3>2. low \in 0 .. k - 1
      BY <1>3, <3>1
    <3>3. low \in 0 .. n /\ low < k
      BY <3>2
    <3>4. PrefixSum(u, low) = PrefixSum(t, low)
      BY <3>3
    <3> QED
      BY <1>3, <1>4, <3>1, <3>4
  <2> QED
    BY <2>1, <2>2
<1>6. \A k \in 0 .. n : k \in S
  <2> HIDE DEF S
  <2> QED
    BY <1>5, Below, Zenon
<1> QED
  BY <1>6

LEMMA SameTrue ==
    ASSUME NEW n \in Nat, NEW m \in Nat, After(m, n),
           NEW t \in [1 .. n -> Int], NEW u \in [1 .. m -> Int], \A i \in 1 .. n : u[i] = t[i]
    PROVE  \A k \in 0 .. n : SumTo(u, k) = SumTo(t, k)
<1>1. m \in Nat /\ m = n + 1
  BY DEF After
<1>2. Len(t) = n /\ Len(u) = m
  BY <1>1, SeqFcn
<1>3. SumTo(t, 0) = 0 /\ \A k \in 1 .. n : SumTo(t, k) = SumTo(t, k - 1) + t[k]
  BY <1>2, TrueSum
<1>4. SumTo(u, 0) = 0 /\ \A k \in 1 .. m : SumTo(u, k) = SumTo(u, k - 1) + u[k]
  BY <1>1, <1>2, TrueSum
<1> DEFINE S == {k \in 0 .. n : SumTo(u, k) = SumTo(t, k)}
<1>5. \A k \in 0 .. n : (\A j \in 0 .. n : j < k => j \in S) => k \in S
  <2> SUFFICES ASSUME NEW k \in 0 .. n, \A j \in 0 .. n : j < k => j \in S
               PROVE  SumTo(u, k) = SumTo(t, k)
    OBVIOUS
  <2>1. CASE k = 0
    BY <1>3, <1>4, <2>1
  <2>2. CASE k # 0
    <3>1. k \in 1 .. n /\ k \in 1 .. m /\ k - 1 \in 0 .. n /\ k - 1 < k
      BY <1>1, <2>2
    <3>2. SumTo(u, k - 1) = SumTo(t, k - 1)
      BY <3>1
    <3> QED
      BY <1>3, <1>4, <3>1, <3>2
  <2> QED
    BY <2>1, <2>2
<1>6. \A k \in 0 .. n : k \in S
  <2> HIDE DEF S
  <2> QED
    BY <1>5, Below, Zenon
<1> QED
  BY <1>6

\* Sums of weights grow.
LEMMA SumsGrow ==
    ASSUME NEW n \in Nat, NEW ws \in [1 .. n -> Nat]
    PROVE  \A j, k \in 0 .. n : j <= k => SumTo(ws, j) <= SumTo(ws, k)
<1>1. ws \in [1 .. n -> Int] /\ Len(ws) = n
  BY SeqFcn
<1>2. /\ \A k \in 0 .. n : SumTo(ws, k) \in Int
      /\ \A k \in 1 .. n : SumTo(ws, k) = SumTo(ws, k - 1) + ws[k]
  BY <1>1, TrueSum
<1> SUFFICES ASSUME NEW j \in 0 .. n PROVE \A k \in 0 .. n : j <= k => SumTo(ws, j) <= SumTo(ws, k)
  OBVIOUS
<1> DEFINE S == {k \in 0 .. n : j <= k => SumTo(ws, j) <= SumTo(ws, k)}
<1>3. \A k \in 0 .. n : (\A i \in 0 .. n : i < k => i \in S) => k \in S
  <2> SUFFICES ASSUME NEW k \in 0 .. n, \A i \in 0 .. n : i < k => i \in S, j < k
               PROVE  SumTo(ws, j) <= SumTo(ws, k)
    BY <1>2
  <2>1. k \in 1 .. n /\ k - 1 \in 0 .. n /\ k - 1 < k /\ j <= k - 1 /\ ws[k] \in Nat
    OBVIOUS
  <2>2. SumTo(ws, j) <= SumTo(ws, k - 1)
    BY <2>1
  <2>3. SumTo(ws, k) = SumTo(ws, k - 1) + ws[k] /\ SumTo(ws, k - 1) \in Int /\ SumTo(ws, j) \in Int
    BY <1>2, <2>1
  <2> QED
    BY <2>1, <2>2, <2>3
<1>4. \A k \in 0 .. n : k \in S
  <2> HIDE DEF S
  <2> QED
    BY <1>3, Below, Zenon
<1> QED
  BY <1>4

\* new is ws and one more, w.
Longer(new, ws, n, w) == new[n + 1] = w /\ \A i \in 1 .. n : new[i] = ws[i]

\* What an append to ws and t of n makes of the sums of new and u.
OneBehind(new, u, ws, t, n) ==
    /\ \A k \in 0 .. n : Drift(u, new, k) = Drift(t, ws, k)
    /\ \E low \in 0 .. n :
          Drift(u, new, n + 1) = Drift(t, ws, low) + SumTo(ws, low) - SumTo(ws, n)

\* A new node starts from the sum below the nodes it covers: it is behind by the weights
\* it covers beside its own.
LEMMA Appended ==
    ASSUME NEW n \in Nat, NEW m \in 1 .. MaxSeeds, After(m, n),
           NEW ws \in [1 .. n -> Int], NEW t \in [1 .. n -> Int], NEW w \in Int,
           NEW new \in [1 .. m -> Int], Longer(new, ws, n, w),
           NEW z \in [1 .. m -> Int], Longer(z, t, n, 0)
    PROVE  /\ Add(z, m, w) \in [1 .. m -> Int] /\ Len(Add(z, m, w)) = m
           /\ OneBehind(new, Add(z, m, w), ws, t, n)
<1> DEFINE u == Add(z, m, w)
<1>1. m \in 0 .. MaxSeeds /\ m \in Nat /\ m \in 1 .. m /\ n \in 0 .. MaxSeeds
  BY SamplerAssumption DEF After
<1>3. Len(ws) = n /\ Len(t) = n /\ Len(new) = m /\ Len(z) = m
  BY <1>1, SeqFcn
<1>9. new[m] = w /\ \A i \in 1 .. n : new[i] = ws[i]
  BY <1>1 DEF Longer, After
<1>10. z[m] = 0 /\ \A i \in 1 .. n : z[i] = t[i]
  BY <1>1 DEF Longer, After
<1>11. /\ u \in [1 .. m -> Int] /\ Len(u) = m
       /\ \A k \in 0 .. m : PrefixSum(u, k) = PrefixSum(z, k) + IF m <= k THEN w ELSE 0
  BY <1>1, <1>3, AddShifts
<1> HIDE DEF u
<1>12. \A k \in 0 .. n : PrefixSum(z, k) = PrefixSum(t, k)
  BY <1>1, <1>10, SamePrefix, ZenonT(40)
<1>13. \A k \in 0 .. n : SumTo(new, k) = SumTo(ws, k)
  <2>1. \A i \in 1 .. n : new[i] = ws[i]
    BY <1>9
  <2> QED
    BY <1>1, <2>1, SameTrue
<1>14. \A k \in 0 .. n : PrefixSum(t, k) \in Int /\ SumTo(ws, k) \in Int
  BY <1>1, <1>3, SumDef, TrueSum
<1>15. \A k \in 0 .. n : Drift(u, new, k) = Drift(t, ws, k)
  <2> TAKE k \in 0 .. n
  <2>1. k \in 0 .. m /\ ~(m <= k)
    BY <1>1 DEF After
  <2>2. PrefixSum(u, k) = PrefixSum(z, k) + 0
    BY <1>11, <2>1
  <2>3. PrefixSum(u, k) = PrefixSum(t, k)
    BY <1>12, <1>14, <2>2
  <2> QED
    BY <1>13, <2>3 DEF Drift
<1>16. PICK low \in 0 .. n : PrefixSum(z, m) = PrefixSum(t, low)
  <2> DEFINE low == m - LowBit[m]
  <2>1. \A k \in 1 .. m : k - LowBit[k] \in 0 .. k - 1 /\ PrefixSum(z, k) = z[k] + PrefixSum(z, k - LowBit[k])
    BY <1>1, <1>3, SumDef
  <2>2. low \in 0 .. m - 1 /\ PrefixSum(z, m) = z[m] + PrefixSum(z, low)
    BY <1>1, <2>1
  <2>3. low \in 0 .. n
    BY <1>1, <2>2 DEF After
  <2> HIDE DEF low
  <2>4. PrefixSum(z, low) = PrefixSum(t, low) /\ PrefixSum(t, low) \in Int
    BY <1>12, <1>14, <2>3
  <2> QED
    BY <1>10, <2>2, <2>3, <2>4
<1>17. Drift(u, new, m) = Drift(t, ws, low) + SumTo(ws, low) - SumTo(ws, n)
  <2>1. PrefixSum(u, m) = PrefixSum(t, low) + w
    <3>1. m \in 0 .. m /\ m <= m
      BY <1>1
    <3>2. PrefixSum(u, m) = PrefixSum(z, m) + w
      BY <1>11, <3>1
    <3> QED
      BY <1>16, <3>2
  <2>2. \A k \in 1 .. m : SumTo(new, k) = SumTo(new, k - 1) + new[k]
    BY <1>1, <1>3, TrueSum
  <2>3. SumTo(new, m) = SumTo(new, n) + new[m]
    <3>1. m - 1 = n
      BY <1>1 DEF After
    <3> QED
      BY <1>1, <2>2, <3>1
  <2>4. n \in 0 .. n
    BY <1>1
  <2>5. SumTo(new, m) = SumTo(ws, n) + w
    BY <1>9, <1>13, <2>3, <2>4
  <2>6. PrefixSum(t, low) \in Int /\ SumTo(ws, low) \in Int /\ SumTo(ws, n) \in Int
    BY <1>14, <2>4
  <2> QED
    BY <1>1, <2>1, <2>5, <2>6 DEF Drift
<1> QED
  BY <1>11, <1>15, <1>17 DEF OneBehind, After, u

LEMMA AppendKeeps ==
    ASSUME NEW n \in 0 .. MaxSeeds, weights \in [1 .. n -> Nat], Len(weights) = n,
           tree \in [1 .. n -> Int], Len(tree) = n,
           NEW w \in Nat, AppendSeed(w), NEW m \in Nat, After(m, n)
    PROVE  /\ m \in 1 .. MaxSeeds
           /\ weights' \in [1 .. m -> Nat] /\ Len(weights') = m
           /\ tree' \in [1 .. m -> Int] /\ Len(tree') = m
           /\ \A k \in 0 .. n : Drift(tree', weights', k) = Drift(tree, weights, k)
           /\ \E low \in 0 .. n :
                 Drift(tree', weights', m)
                   = Drift(tree, weights, low) + SumTo(weights, low) - SumTo(weights, n)
<1>1. n \in Nat /\ m \in 1 .. MaxSeeds
  BY SamplerAssumption DEF AppendSeed, Size, After
<1>2. PICK ws \in [1 .. n -> Int] : ws = weights
  OBVIOUS
<1>3. PICK t \in [1 .. n -> Int] : t = tree
  OBVIOUS
<1>4. PICK v \in Int : v = w
  OBVIOUS
<1>5. PICK o \in Int : o = 0
  OBVIOUS
<1>6. PICK new \in [1 .. m -> Int] : new = Append(ws, v)
  <2>1. Append(ws, v) \in [1 .. m -> Int]
    BY <1>1, AppendFcn
  <2> QED
    BY <2>1
<1>7. PICK z \in [1 .. m -> Int] : z = Append(t, o)
  <2>1. Append(t, o) \in [1 .. m -> Int]
    BY <1>1, AppendFcn
  <2> QED
    BY <2>1
<1>8. PICK u : u = Add(z, m, v)
  OBVIOUS
<1>9. weights' = new /\ tree' = u
  BY <1>2, <1>3, <1>4, <1>5, <1>6, <1>7, <1>8 DEF AppendSeed, Size, After
<1>10. new \in [1 .. m -> Nat] /\ Len(new) = m
  <2>1. Len(new) = m /\ new[m] = v /\ \A i \in 1 .. n : new[i] = ws[i]
    BY <1>1, <1>6, AppendFcn
  <2>2. \A i \in 1 .. m : new[i] \in Nat
    <3> TAKE i \in 1 .. m
    <3>1. i \in 1 .. n \/ i = m
      BY <1>1 DEF After
    <3>2. \A j \in 1 .. n : ws[j] \in Nat
      BY <1>2
    <3> QED
      BY <1>4, <2>1, <3>1, <3>2
  <2> QED
    BY <2>1, <2>2
<1>11. u \in [1 .. m -> Int] /\ Len(u) = m /\ OneBehind(new, u, ws, t, n)
  <2>1. Longer(new, ws, n, v)
    BY <1>1, <1>6, AppendFcn DEF Longer, After
  <2>2. Longer(z, t, n, 0)
    BY <1>1, <1>5, <1>7, AppendFcn DEF Longer, After
  <2> QED
    <3>1. Add(z, m, v) \in [1 .. m -> Int] /\ Len(Add(z, m, v)) = m /\ OneBehind(new, Add(z, m, v), ws, t, n)
      BY <1>1, <2>1, <2>2, Appended
    <3> QED
      BY <1>8, <3>1
<1> QED
  BY <1>1, <1>2, <1>3, <1>9, <1>10, <1>11 DEF OneBehind, After

\* Seeds come and go with the tree in step with their number.
LEMMA SInvKept ==
    ASSUME SInv, [SamplerNext]_samplerVars
    PROVE  SInv'
<1>1. PICK n \in 0 .. MaxSeeds : /\ weights \in [1 .. n -> Nat] /\ Len(weights) = n
                                 /\ tree \in [1 .. n -> Int] /\ Len(tree) = n
  BY DEF SInv
<1>2. CASE \E w \in Weight \ {0} : AppendSeed(w)
  <2>1. PICK w \in Weight \ {0} : AppendSeed(w)
    BY <1>2
  <2>2. w \in Nat
    BY SamplerAssumption DEF Weight
  <2>3. PICK m \in Nat : After(m, n)
    BY SamplerAssumption, <1>1 DEF After
  <2> QED
    <3>1. /\ m \in 0 .. MaxSeeds
          /\ weights' \in [1 .. m -> Nat] /\ Len(weights') = m
          /\ tree' \in [1 .. m -> Int] /\ Len(tree') = m
      BY SamplerAssumption, <1>1, <2>1, <2>2, <2>3, AppendKeeps
    <3> QED
      BY <3>1 DEF SInv
<1>3. CASE \E i \in 1 .. Size, w \in Weight : SetWeight(i, w)
  <2>1. PICK i \in 1 .. n, w \in Nat : SetWeight(i, w)
    BY SamplerAssumption, <1>1, <1>3 DEF Weight, Size
  <2> QED
    BY <1>1, <2>1, SetKeeps DEF SInv
<1>4. CASE UNCHANGED samplerVars
  BY <1>1, <1>4 DEF SInv, samplerVars
<1> QED
  BY <1>2, <1>3, <1>4 DEF SamplerNext

LEMMA SInvAlways == SamplerSpec => []SInv
<1>1. SamplerInit => SInv
  <2> SUFFICES ASSUME SamplerInit PROVE SInv
    OBVIOUS
  <2>1. 0 \in 0 .. MaxSeeds
    BY SamplerAssumption
  <2>2. weights \in [1 .. 0 -> Nat] /\ Len(weights) = 0 /\ tree \in [1 .. 0 -> Int] /\ Len(tree) = 0
    BY DEF SamplerInit
  <2> QED
    BY <2>1, <2>2 DEF SInv
<1> QED
  BY <1>1, SInvKept, PTL DEF SamplerSpec

\* A change of a weight keeps every prefix sum as far from the true one as it was: the
\* climb of add reaches exactly the nodes whose seeds include the one whose weight changes.
THEOREM SetStaysExact == SamplerSpec => SetIsExact
<1> DEFINE Exactly == Len(weights') = Size =>
               \A k \in 0 .. Size : Drift(tree', weights', k) = Drift(tree, weights, k)
<1>1. ASSUME SInv, [SamplerNext]_samplerVars
      PROVE  [Exactly]_samplerVars
  <2>1. PICK n \in 0 .. MaxSeeds : /\ weights \in [1 .. n -> Nat] /\ Len(weights) = n
                                   /\ tree \in [1 .. n -> Int] /\ Len(tree) = n
    BY <1>1 DEF SInv
  <2>2. CASE \E w \in Weight \ {0} : AppendSeed(w)
    <3>1. PICK w \in Nat : AppendSeed(w)
      BY SamplerAssumption, <2>2 DEF Weight
    <3>2. PICK m \in Nat : After(m, n)
      BY SamplerAssumption, <2>1 DEF After
    <3>3. Len(weights') = m
      BY <2>1, <3>1, <3>2, AppendKeeps
    <3> QED
      BY <2>1, <3>2, <3>3 DEF Size, After
  <2>3. CASE \E i \in 1 .. Size, w \in Weight : SetWeight(i, w)
    <3>1. PICK i \in 1 .. n, w \in Nat : SetWeight(i, w)
      BY SamplerAssumption, <2>1, <2>3 DEF Weight, Size
    <3> QED
      BY <2>1, <3>1, SetKeeps DEF Size
  <2> QED
    BY <1>1, <2>2, <2>3 DEF SamplerNext
<1> QED
  BY <1>1, SInvAlways, PTL DEF SamplerSpec, SetIsExact

\* The targets that choose a seed are those from the sum before it up to its own.
LEMMA TargetsOfSeed ==
    ASSUME NEW n \in 1 .. MaxSeeds, NEW ws \in [1 .. n -> Nat], NEW t \in [1 .. n -> Int], Len(t) = n,
           \A k \in 0 .. n : PrefixSum(t, k) = SumTo(ws, k),
           NEW i \in 1 .. n, NEW target \in 0 .. PrefixSum(t, n) - 1
    PROVE  /\ Descent(t, target) < n
           /\ Descent(t, target) + 1 = i <=> target \in SumTo(ws, i - 1) .. SumTo(ws, i) - 1
<1>1. n \in Nat /\ target \in Nat /\ n \in 0 .. n /\ i - 1 \in 0 .. n /\ i \in 0 .. n
  BY SamplerAssumption
<1>2. PICK d \in 0 .. n : d = Descent(t, target)
  BY <1>1, DescentFinds
<1>3. PrefixSum(t, d) <= target /\ (d < n => PrefixSum(t, d + 1) > target)
  BY <1>1, <1>2, DescentFinds
<1>4. \A k \in 0 .. n : SumTo(ws, k) \in Int
  <2>1. ws \in [1 .. n -> Int] /\ Len(ws) = n
    BY <1>1, SeqFcn
  <2> QED
    BY <1>1, <2>1, TrueSum
<1>5. \A j, k \in 0 .. n : j <= k => SumTo(ws, j) <= SumTo(ws, k)
  BY <1>1, SumsGrow
<1>6. d < n
  BY <1>1, <1>3, <1>4
<1>7. d + 1 \in 0 .. n /\ SumTo(ws, d) <= target /\ SumTo(ws, d + 1) > target
  BY <1>1, <1>3, <1>6
<1>8. ASSUME d + 1 = i PROVE target \in SumTo(ws, i - 1) .. SumTo(ws, i) - 1
  <2>1. i - 1 = d
    BY <1>8
  <2>2. SumTo(ws, i - 1) <= target /\ SumTo(ws, i) > target
    BY <1>7, <1>8, <2>1
  <2> QED
    BY <1>1, <1>4, <2>2
<1>9. ASSUME target \in SumTo(ws, i - 1) .. SumTo(ws, i) - 1 PROVE d + 1 = i
  <2>1. SumTo(ws, i - 1) <= target /\ SumTo(ws, i) > target /\ SumTo(ws, i) \in Int /\ SumTo(ws, i - 1) \in Int
    BY <1>1, <1>4, <1>9
  <2>2. ~(d + 1 <= i - 1)
    <3> SUFFICES ASSUME d + 1 <= i - 1 PROVE FALSE
      OBVIOUS
    <3>1. SumTo(ws, d + 1) <= SumTo(ws, i - 1) /\ SumTo(ws, d + 1) \in Int
      BY <1>1, <1>4, <1>5, <1>7
    <3> QED
      BY <1>7, <2>1, <3>1
  <2>3. ~(i <= d)
    <3> SUFFICES ASSUME i <= d PROVE FALSE
      OBVIOUS
    <3>1. SumTo(ws, i) <= SumTo(ws, d) /\ SumTo(ws, d) \in Int
      BY <1>1, <1>4, <1>5
    <3> QED
      BY <1>7, <2>1, <3>1
  <2> QED
    BY <2>2, <2>3
<1> QED
  BY <1>2, <1>6, <1>8, <1>9

\* While the sums are the true ones, of the targets below the total each seed is chosen by
\* as many as its weight: Pick is the weighted choice.
THEOREM PicksAreExact == SamplerSpec => []ExactWhenInStep
<1>1. SInv => ExactWhenInStep
  <2> SUFFICES ASSUME SInv, \A k \in 0 .. Size : Drift(tree, weights, k) = 0, NEW i \in 1 .. Size
               PROVE  weights[i] = Cardinality({t \in Targets : Picked(t) = i})
    BY DEF ExactWhenInStep
  <2>1. PICK n \in 0 .. MaxSeeds : /\ weights \in [1 .. n -> Nat] /\ Len(weights) = n
                                   /\ tree \in [1 .. n -> Int] /\ Len(tree) = n
    BY DEF SInv
  <2>2. Size = n /\ n \in 1 .. MaxSeeds /\ n \in Nat /\ i \in 1 .. n /\ i - 1 \in 0 .. n /\ i \in 0 .. n /\ n \in 0 .. n /\ 0 \in 0 .. n
    BY SamplerAssumption, <2>1 DEF Size
  <2>3. PICK ws \in [1 .. n -> Nat] : ws = weights
    BY <2>1
  <2>4. PICK t \in [1 .. n -> Int] : t = tree
    BY <2>1
  <2>5. /\ \A k \in 0 .. n : SumTo(ws, k) \in Int
        /\ \A k \in 1 .. n : SumTo(ws, k) = SumTo(ws, k - 1) + ws[k]
        /\ SumTo(ws, 0) = 0
    <3>1. ws \in [1 .. n -> Int] /\ Len(ws) = n
      BY <2>1, <2>3
    <3> QED
      BY <2>2, <3>1, TrueSum
  <2>6. \A k \in 0 .. n : PrefixSum(t, k) = SumTo(ws, k)
    <3> TAKE k \in 0 .. n
    <3>1. PrefixSum(t, k) \in Int
      BY <2>1, <2>4, SumDef
    <3>2. PrefixSum(t, k) - SumTo(ws, k) = 0
      BY <2>2, <2>3, <2>4 DEF Drift
    <3> QED
      BY <2>5, <3>1, <3>2
  <2>7. \A j, k \in 0 .. n : j <= k => SumTo(ws, j) <= SumTo(ws, k)
    BY <2>2, SumsGrow
  <2> DEFINE low == SumTo(ws, i - 1)
             high == SumTo(ws, i)
  <2>8. low \in Int /\ high \in Int /\ high = low + ws[i] /\ ws[i] \in Nat /\ 0 <= low /\ high <= PrefixSum(t, n) /\ PrefixSum(t, n) \in Int
    <3>1. low \in Int /\ high \in Int /\ high = low + ws[i] /\ ws[i] \in Nat
      BY <2>2, <2>5
    <3>2. SumTo(ws, 0) <= low /\ high <= SumTo(ws, n)
      BY <2>2, <2>7
    <3> QED
      BY <2>2, <2>5, <2>6, <3>1, <3>2
  <2>9. Targets = 0 .. PrefixSum(t, n) - 1
    BY <2>1, <2>4 DEF Targets, Total
  <2>10. \A target \in Targets : Picked(target) = i <=> target \in low .. high - 1
    <3> SUFFICES ASSUME NEW target \in 0 .. PrefixSum(t, n) - 1
                 PROVE  Picked(target) = i <=> target \in low .. high - 1
      BY <2>9
    <3> HIDE DEF low, high
    <3>0. Len(t) = n
      BY <2>1, <2>4
    <3>1. /\ Descent(t, target) < n
          /\ Descent(t, target) + 1 = i <=> target \in low .. high - 1
      BY <2>2, <2>6, <3>0, TargetsOfSeed DEF low, high
    <3>2. Descent(t, target) \in 0 .. n
      <4>1. target \in Nat
        BY <2>8
      <4> QED
        BY <2>2, <3>0, <4>1, DescentFinds
    <3> QED
      BY <2>2, <2>4, <3>1, <3>2 DEF Picked
  <2> HIDE DEF low, high
  <2>11. {x \in Targets : Picked(x) = i} = low .. high - 1
    <3>1. low .. high - 1 \subseteq Targets
      BY <2>8, <2>9, SMTT(30)
    <3> QED
      BY <2>10, <3>1
  <2>12. Cardinality(low .. high - 1) = ws[i]
    <3>1. PICK a \in Int, b \in Int : a = low /\ b = high - 1
      BY <2>8
    <3>2. Cardinality(a .. b) = IF a > b THEN 0 ELSE b - a + 1
      BY FS_Interval
    <3>3. a = low /\ b = high - 1 /\ high = low + ws[i] /\ ws[i] \in Nat
      BY <2>8, <3>1
    <3>4. (IF a > b THEN 0 ELSE b - a + 1) = ws[i]
      BY <2>8, <3>3, SMTT(30)
    <3> QED
      BY <3>2, <3>3, <3>4
  <2> QED
    BY <2>3, <2>11, <2>12
<1> QED
  BY <1>1, SInvAlways, PTL

\* The sums of the tree are never above the true ones: what Append forgets is only ever
\* missing, so a seed may lose its share of the choice but none is chosen by a weight
\* that no seed has.
NeverAhead == \A k \in 0 .. Size : Drift(tree, weights, k) <= 0

LEMMA NeverAheadKept ==
    ASSUME SInv, NeverAhead, [SamplerNext]_samplerVars
    PROVE  NeverAhead'
<1>1. PICK n \in 0 .. MaxSeeds : /\ weights \in [1 .. n -> Nat] /\ Len(weights) = n
                                 /\ tree \in [1 .. n -> Int] /\ Len(tree) = n
  BY DEF SInv
<1>2. n \in Nat /\ \A k \in 0 .. n : Drift(tree, weights, k) <= 0
  BY SamplerAssumption, <1>1 DEF NeverAhead, Size
<1>3. CASE \E w \in Weight \ {0} : AppendSeed(w)
  <2>1. PICK w \in Nat : AppendSeed(w)
    BY SamplerAssumption, <1>3 DEF Weight
  <2>2. PICK m \in Nat : After(m, n)
    BY <1>2 DEF After
  <2>3. /\ Len(weights') = m
        /\ \A k \in 0 .. n : Drift(tree', weights', k) = Drift(tree, weights, k)
        /\ \E low \in 0 .. n :
              Drift(tree', weights', m) = Drift(tree, weights, low) + SumTo(weights, low) - SumTo(weights, n)
    BY <1>1, <2>1, <2>2, AppendKeeps
  <2>4. Drift(tree', weights', m) <= 0
    <3>1. PICK low \in 0 .. n :
              Drift(tree', weights', m) = Drift(tree, weights, low) + SumTo(weights, low) - SumTo(weights, n)
      BY <2>3
    <3>2. PICK ws \in [1 .. n -> Nat] : ws = weights
      BY <1>1
    <3>3. PICK t \in [1 .. n -> Int] : t = tree
      BY <1>1
    <3>4. n \in 0 .. n /\ low <= n
      BY <1>2
    <3>5. SumTo(ws, low) <= SumTo(ws, n)
      BY <1>2, <3>4, SumsGrow
    <3>6. \A k \in 0 .. n : SumTo(ws, k) \in Int
      <4>1. ws \in [1 .. n -> Int] /\ Len(ws) = n
        BY <1>1, <3>2
      <4> QED
        BY <1>2, <4>1, TrueSum
    <3>7. PrefixSum(t, low) \in Int
      BY <1>1, <3>3, SumDef
    <3>8. Drift(t, ws, low) \in Int /\ Drift(t, ws, low) <= 0
      BY <1>2, <3>2, <3>3, <3>6, <3>7 DEF Drift
    <3>9. Drift(tree', weights', m) = Drift(t, ws, low) + SumTo(ws, low) - SumTo(ws, n)
      BY <3>1, <3>2, <3>3
    <3> QED
      BY <3>4, <3>5, <3>6, <3>8, <3>9
  <2>5. \A k \in 0 .. m : Drift(tree', weights', k) <= 0
    <3> TAKE k \in 0 .. m
    <3>1. k \in 0 .. n \/ k = m
      BY <1>2, <2>2 DEF After
    <3> QED
      BY <1>2, <2>3, <2>4, <3>1
  <2> QED
    BY <2>3, <2>5 DEF NeverAhead, Size
<1>4. CASE \E i \in 1 .. Size, w \in Weight : SetWeight(i, w)
  <2>1. PICK i \in 1 .. n, w \in Nat : SetWeight(i, w)
    BY SamplerAssumption, <1>1, <1>4 DEF Weight, Size
  <2>2. /\ Len(weights') = n
        /\ \A k \in 0 .. n : Drift(tree', weights', k) = Drift(tree, weights, k)
    BY <1>1, <2>1, SetKeeps
  <2> QED
    BY <1>2, <2>2 DEF NeverAhead, Size
<1>5. CASE UNCHANGED samplerVars
  BY <1>5 DEF NeverAhead, Size, samplerVars
<1> QED
  BY <1>3, <1>4, <1>5 DEF SamplerNext

\* The tree is never ahead of the weights, in any history of appends and changes.
THEOREM SumsNeverAhead == SamplerSpec => []NeverAhead
<1>1. SamplerInit => NeverAhead
  <2> SUFFICES ASSUME SamplerInit PROVE NeverAhead
    OBVIOUS
  <2>1. weights \in [1 .. 0 -> Int] /\ Len(weights) = 0 /\ tree \in [1 .. 0 -> Int] /\ Len(tree) = 0 /\ Size = 0
    BY DEF SamplerInit, Size
  <2>2. PICK ws \in [1 .. 0 -> Int] : ws = weights
    BY <2>1
  <2>3. PICK t \in [1 .. 0 -> Int] : t = tree
    BY <2>1
  <2>4. PrefixSum(t, 0) = 0 /\ SumTo(ws, 0) = 0
    <3>1. 0 \in 0 .. MaxSeeds /\ 0 \in Nat
      BY SamplerAssumption
    <3>2. PrefixSum(t, 0) = 0
      BY <2>1, <2>3, <3>1, SumDef
    <3>3. SumTo(ws, 0) = 0
      BY <2>1, <2>2, <3>1, TrueSum
    <3> QED
      BY <3>2, <3>3
  <2>5. Drift(t, ws, 0) = 0
    BY <2>4 DEF Drift
  <2>6. \A k \in 0 .. 0 : k = 0
    OBVIOUS
  <2> QED
    BY <2>1, <2>2, <2>3, <2>5, <2>6 DEF NeverAhead
<1> QED
  BY <1>1, SInvAlways, NeverAheadKept, PTL DEF SamplerSpec
=============================================================================
