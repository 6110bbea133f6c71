-------------------------- MODULE Scheduler_proofs --------------------------
(* Replays stay within their budget, and nothing but a probe is sent to a   *)
(* blocked endpoint: for any templates, endpoints, budgets and queue sizes. *)
EXTENDS Scheduler, FiniteSetTheorems, FunctionTheorems, SequenceTheorems, WellFoundedInduction, TLAPS

\* A nonempty set of numbers has a least one: what SelectInSeq rests on.
LEMMA Least ==
    ASSUME NEW T, T \subseteq Nat, T # {}
    PROVE  \E x \in T : \A y \in T : x <= y
<1> DEFINE R == OpToRel(<, Nat)
<1>1. IsWellFoundedOn(R, Nat)
  BY NatLessThanWellFounded
<1>2. \A x, y \in Nat : x < y => <<x, y>> \in R
  BY DEF OpToRel
<1> HIDE DEF R
<1>3. PICK x \in T : \A y \in T : <<y, x>> \notin R
  BY <1>1, WFMin
<1>4. \A y \in T : ~(y < x)
  BY <1>2, <1>3
<1>5. \A y \in T : x <= y
  BY <1>4
<1> QED
  BY <1>5

\* Induction up to a bound.
LEMMA UpTo ==
    ASSUME NEW n \in Nat, NEW S, 0 \in S, \A i \in 0 .. n : i \in S /\ i < n => i + 1 \in S
    PROVE  n \in S
<1> SUFFICES ASSUME 0 .. n \ S # {} PROVE FALSE
  <2>1. n \in 0 .. n
    OBVIOUS
  <2> QED
    BY <2>1
<1>1. 0 .. n \ S \subseteq Nat
  OBVIOUS
<1>2. PICK x \in 0 .. n \ S : \A y \in 0 .. n \ S : x <= y
  BY <1>1, Least
<1>3. x # 0 /\ x - 1 \in 0 .. n /\ x - 1 \notin 0 .. n \ S
  BY <1>2
<1> QED
  BY <1>3

\* f starts with base and goes on by the steps.
Runs(f, n, S, base, step) ==
    /\ f \in [0 .. n -> S] /\ f[0] = base
    /\ \A i \in 1 .. n : f[i] = step[i][f[i - 1]]

\* A function defined step by step exists.
LEMMA Recursion ==
    ASSUME NEW n \in Nat, NEW S, NEW base \in S, NEW step \in [1 .. n -> [S -> S]]
    PROVE  \E f : Runs(f, n, S, base, step)
<1> DEFINE T == {m \in 0 .. n : \E f : Runs(f, m, S, base, step)}
<1>1. 0 \in T
  <2> DEFINE g == [i \in 0 .. 0 |-> base]
  <2>1. Runs(g, 0, S, base, step)
    BY DEF Runs
  <2> HIDE DEF g
  <2> QED
    BY <2>1
<1>2. ASSUME NEW m \in 0 .. n, m \in T, m < n PROVE m + 1 \in T
  <2>1. PICK f : Runs(f, m, S, base, step)
    BY <1>2
  <2> DEFINE x == step[m + 1][f[m]]
             g == [i \in 0 .. m + 1 |-> IF i = m + 1 THEN x ELSE f[i]]
  <2>2. x \in S
    <3>1. m + 1 \in 1 .. n /\ f[m] \in S
      BY <1>2, <2>1 DEF Runs
    <3> QED
      BY <3>1
  <2> HIDE DEF x
  <2>3. g \in [0 .. m + 1 -> S]
    BY <2>1, <2>2 DEF Runs
  <2>4. \A i \in 0 .. m : g[i] = f[i]
    BY <2>1 DEF Runs
  <2>5. g[m + 1] = x /\ 0 \in 0 .. m /\ m \in 0 .. m
    OBVIOUS
  <2> HIDE DEF g
  <2>6. g[m + 1] = step[m + 1][g[m]]
    BY <2>4, <2>5 DEF x
  <2>7. ASSUME NEW i \in 1 .. m PROVE g[i] = step[i][g[i - 1]]
    <3>1. i \in 0 .. m /\ i - 1 \in 0 .. m
      OBVIOUS
    <3> QED
      BY <2>1, <2>4, <3>1 DEF Runs
  <2>8. ASSUME NEW i \in 1 .. m + 1 PROVE g[i] = step[i][g[i - 1]]
    <3>1. i \in 1 .. m \/ (i = m + 1 /\ i - 1 = m)
      OBVIOUS
    <3> QED
      BY <2>6, <2>7, <3>1
  <2>9. Runs(g, m + 1, S, base, step)
    BY <2>1, <2>3, <2>4, <2>5, <2>8 DEF Runs
  <2>10. m + 1 \in 0 .. n
    BY <1>2
  <2> QED
    BY <2>9, <2>10
<1>3. n \in T
  <2> HIDE DEF T
  <2> QED
    BY <1>1, <1>2, UpTo, Zenon
<1> QED
  BY <1>3

\* What is left of a queue, if anything, starts with an endpoint that is not blocked;
\* and it is the queue from some position on.
LEMMA LiveHead ==
    ASSUME NEW q \in Seq(Templates), LiveFrom(q) # <<>>
    PROVE  \E m \in DOMAIN q : /\ LiveFrom(q) = SubSeq(q, m, Len(q))
                               /\ Head(LiveFrom(q)) = q[m] /\ ~Blocked(q[m])
                               /\ Tail(LiveFrom(q)) = SubSeq(q, m + 1, Len(q))
<1> DEFINE I == {i \in 1 .. Len(q) : ~Blocked(q[i])}
           m == SelectInSeq(q, LAMBDA t : ~Blocked(t))
<1>1. m = IF I # {} THEN Min(I) ELSE 0
  BY DEF SelectInSeq
<1>2. m # 0 /\ LiveFrom(q) = SubSeq(q, m, Len(q))
  BY DEF LiveFrom
<1>3. I # {} /\ m = Min(I)
  BY <1>1, <1>2
<1>4. I \subseteq Nat
  OBVIOUS
<1>5. PICK x \in I : \A y \in I : x <= y
  <2> HIDE DEF I
  <2> QED
    BY <1>3, <1>4, Least
<1>6. m \in I
  BY <1>3, <1>5 DEF Min
<1>7. m \in DOMAIN q /\ ~Blocked(q[m])
  BY <1>6
<1> HIDE DEF m
<1>8. m \in 1 .. Len(q) /\ Len(q) \in m .. Len(q)
  BY <1>7
<1>9. Head(SubSeq(q, m, Len(q))) = q[m] /\ Tail(SubSeq(q, m, Len(q))) = SubSeq(q, m + 1, Len(q))
  BY <1>8, HeadTailOfSubSeq
<1> QED
  BY <1>2, <1>7, <1>9

-----------------------------------------------------------------------------
(* What the queues hold.                                                   *)

LEMMA Parts ==
    ASSUME NEW q \in Seq(Templates), NEW m \in Nat \ {0}
    PROVE  SubSeq(q, m, Len(q)) \in Seq(Templates)
<1>1. \A i \in m .. Len(q) : q[i] \in Templates
  OBVIOUS
<1>2. m \in Int /\ Len(q) \in Int
  OBVIOUS
<1> QED
  BY <1>1, <1>2, SubSeqProperties

\* n copies of a template.
LEMMA Copies ==
    ASSUME NEW t \in Templates, NEW n \in Nat
    PROVE  /\ [k \in 1 .. n |-> t] \in Seq(Templates)
           /\ Len([k \in 1 .. n |-> t]) = n
<1>1. [k \in 1 .. n |-> t] \in [1 .. n -> Templates]
  OBVIOUS
<1>2. [k \in 1 .. n |-> t] \in Seq(Templates)
  BY <1>1, SeqDef
<1> QED
  BY <1>2, LenProperties

LEMMA PushType ==
    ASSUME NEW q \in Seq(Templates), NEW max \in Nat \ {0},
           NEW t \in Templates, NEW n \in Nat
    PROVE  Push(q, max, t, n) \in Seq(Templates)
<1> DEFINE all == q \o [k \in 1 .. n |-> t]
<1>1. all \in Seq(Templates)
  BY Copies, ConcatProperties
<1> HIDE DEF all
<1>2. ASSUME Len(all) > max
      PROVE  SubSeq(all, Len(all) - max + 1, Len(all)) \in Seq(Templates)
  BY <1>1, <1>2, Parts
<1>3. Len(all) \in Nat
  BY <1>1
<1>4. Push(q, max, t, n) =
        IF Len(all) <= max THEN all ELSE SubSeq(all, Len(all) - max + 1, Len(all))
  BY DEF Push, all
<1> QED
  BY <1>1, <1>2, <1>3, <1>4

LEMMA LiveType ==
    ASSUME NEW q \in Seq(Templates)
    PROVE  /\ LiveFrom(q) \in Seq(Templates) /\ Len(LiveFrom(q)) \in 0 .. Len(q)
           /\ LiveFrom(q) # <<>> => /\ Head(LiveFrom(q)) \in Templates
                                    /\ ~Blocked(Head(LiveFrom(q)))
                                    /\ Tail(LiveFrom(q)) \in Seq(Templates)
<1>1. CASE LiveFrom(q) = <<>>
  BY <1>1
<1>2. CASE LiveFrom(q) # <<>>
  <2>1. PICK m \in DOMAIN q :
                /\ LiveFrom(q) = SubSeq(q, m, Len(q))
                /\ Head(LiveFrom(q)) = q[m] /\ ~Blocked(q[m])
                /\ Tail(LiveFrom(q)) = SubSeq(q, m + 1, Len(q))
    BY <1>2, LiveHead
  <2>2. m \in Nat \ {0} /\ m <= Len(q) /\ q[m] \in Templates
    OBVIOUS
  <2>3. SubSeq(q, m, Len(q)) \in Seq(Templates) /\ SubSeq(q, m + 1, Len(q)) \in Seq(Templates)
    BY <2>2, Parts
  <2>4. Len(SubSeq(q, m, Len(q))) = Len(q) - m + 1
    BY <2>2, SubSeqProperties
  <2>5. LiveFrom(q) \in Seq(Templates) /\ Tail(LiveFrom(q)) \in Seq(Templates)
    BY <2>1, <2>3
  <2>6. Len(q) \in Nat /\ Len(q) - m + 1 \in 0 .. Len(q)
    BY <2>2
  <2>7. Len(LiveFrom(q)) \in 0 .. Len(q)
    BY <2>1, <2>4, <2>6
  <2>8. Head(LiveFrom(q)) \in Templates /\ ~Blocked(Head(LiveFrom(q)))
    BY <2>1, <2>2
  <2> QED
    BY <2>5, <2>7, <2>8
<1> QED
  BY <1>1, <1>2

LEMMA WithoutType ==
    ASSUME NEW q \in Seq(Templates), NEW e
    PROVE  Without(q, e) \in Seq(Templates)
<1>0. PICK N \in Nat : N = Len(q)
  OBVIOUS
<1> DEFINE Q == Seq(Templates)
           none == <<>>
           At(f, n) == IF n = 0 THEN none
                       ELSE IF EndpointOf[q[n]] = e THEN f[n - 1] ELSE Append(f[n - 1], q[n])
           kept == CHOOSE f : f = [n \in 0 .. N |-> At(f, n)]
           go == [n \in 1 .. N |-> [s \in Q |->
                     IF EndpointOf[q[n]] = e THEN s ELSE Append(s, q[n])]]
           Good == {m \in 0 .. N : kept[m] \in Q}
<1>1. Without(q, e) = kept[N]
  BY <1>0 DEF Without, none
<1>2. none \in Q
  OBVIOUS
<1>3. \A n \in 1 .. N, s \in Q : Append(s, q[n]) \in Q
  BY <1>0
<1>4. go \in [1 .. N -> [Q -> Q]]
  BY <1>3
<1>5. \A n \in 1 .. N, s \in Q :
         go[n][s] = IF EndpointOf[q[n]] = e THEN s ELSE Append(s, q[n])
  OBVIOUS
<1> HIDE DEF Q, none, go
<1>6. PICK f : Runs(f, N, Q, none, go)
  BY <1>2, <1>4, Recursion, Zenon
<1>7. \A n \in 0 .. N : f[n] = At(f, n)
  <2>1. \A n \in 1 .. N : n # 0 /\ n - 1 \in 0 .. N
    BY <1>2
  <2>2. ASSUME NEW n \in 1 .. N PROVE f[n] = At(f, n)
    BY <1>5, <1>6, <2>1 DEF Runs
  <2>3. \A n \in 0 .. N : n = 0 \/ n \in 1 .. N
    BY <1>2
  <2> QED
    BY <1>6, <2>2, <2>3 DEF Runs
<1> HIDE DEF At
<1>8. f = [n \in 0 .. N |-> At(f, n)]
  BY <1>6, <1>7 DEF Runs
<1>9. kept = [n \in 0 .. N |-> At(kept, n)]
  BY <1>8
<1> HIDE DEF kept
<1>10. \A n \in 0 .. N : kept[n] = At(kept, n)
  BY <1>9, Zenon
<1>11. 0 \in Good
  BY <1>2, <1>10 DEF At
<1>12. ASSUME NEW i \in 0 .. N, i \in Good, i < N PROVE i + 1 \in Good
  <2>1. i + 1 \in 1 .. N /\ i + 1 \in 0 .. N /\ i + 1 # 0 /\ (i + 1) - 1 = i
    BY <1>2, <1>12
  <2>2. kept[i + 1] = IF EndpointOf[q[i + 1]] = e THEN kept[i] ELSE Append(kept[i], q[i + 1])
    BY <1>10, <2>1 DEF At
  <2>3. kept[i] \in Q
    BY <1>12
  <2> QED
    BY <1>3, <2>1, <2>2, <2>3
<1>13. N \in Good
  <2> HIDE DEF Good
  <2> QED
    BY <1>2, <1>11, <1>12, UpTo, Zenon
<1> QED
  BY <1>1, <1>13 DEF Q, Good

-----------------------------------------------------------------------------
(* What buildWorkItem sends.                                               *)

\* What is sent takes a place of its own, and is allowed to be sent.
Sends(i) ==
    /\ i \in Item \ flight /\ flight' = flight \cup {i}
    /\ i.from # "probe" => ~Blocked(i.t)

NoReplaySent == UNCHANGED flight \/ \E i \in Item : Sends(i) /\ i.from # "replay"

LEMMA DispatchSends ==
    ASSUME NEW t \in Templates, NEW from \in Origins, Dispatch(t, from),
           from # "probe" => ~Blocked(t)
    PROVE  \E i \in Item : Sends(i) /\ i.t = t /\ i.from = from
<1>1. PICK w \in 1 .. MaxFlight :
           Free(w) /\ flight' = flight \cup {[t |-> t, from |-> from, slot |-> w]}
  BY DEF Dispatch
<1> DEFINE i == [t |-> t, from |-> from, slot |-> w]
<1>2. i \in Item /\ i.t = t /\ i.from = from /\ i.slot = w
  BY DEF Item
<1>3. i \notin flight
  BY <1>1, <1>2 DEF Free
<1> HIDE DEF i
<1>4. flight' = flight \cup {i}
  BY <1>1 DEF i
<1> QED
  BY <1>2, <1>3, <1>4 DEF Sends

CorpusOK == weighted \subseteq seeds /\ seeds \subseteq Templates
QueuesOK ==
    /\ replayQueue \in Seq(Templates) /\ raceQueue \in Seq(Templates)
    /\ oracleQueue \in Seq(Templates) /\ sequenceQueue \in Seq(Templates)

LEMMA RotationSends ==
    ASSUME TypeOK, FromRotation
    PROVE  NoReplaySent /\ CorpusOK'
<1>1. CASE active = {}
  BY <1>1 DEF FromRotation, NoReplaySent, CorpusOK, TypeOK, corpus
<1>2. CASE active # {}
  <2>1. PICK unweighted \in SUBSET {t \in weighted : Blocked(t)} :
               /\ weighted' = weighted \ unweighted
               /\ UNCHANGED seeds
               /\ \/ FromTemplates
                  \/ \E t \in IF weighted' = {} THEN seeds ELSE weighted' :
                         ~Blocked(t) /\ Dispatch(t, "other")
    BY <1>2 DEF FromRotation, FromCorpus
  <2>2. CorpusOK'
    BY <2>1 DEF CorpusOK, TypeOK
  <2>3. ASSUME NEW t \in Templates, ~Blocked(t), Dispatch(t, "other")
        PROVE  NoReplaySent
    BY <2>3, DispatchSends DEF Origins, NoReplaySent
  <2>4. CASE FromTemplates
    BY <2>2, <2>3, <2>4 DEF FromTemplates, NoReplaySent, TypeOK
  <2>5. ASSUME NEW t \in IF weighted' = {} THEN seeds ELSE weighted',
               ~Blocked(t), Dispatch(t, "other")
        PROVE  NoReplaySent
    <3>1. t \in Templates
      BY <2>2, <2>5 DEF CorpusOK, TypeOK
    <3> QED
      BY <3>1, <2>3, <2>5
  <2> QED
    BY <2>1, <2>2, <2>4, <2>5
<1> QED
  BY <1>1, <1>2

LEMMA SequencesSend ==
    ASSUME TypeOK, FromSequences
    PROVE  NoReplaySent /\ CorpusOK' /\ sequenceQueue' \in Seq(Templates)
<1> DEFINE live == LiveFrom(sequenceQueue)
<1>0. sequenceQueue \in Seq(Templates)
  BY DEF TypeOK
<1>1. live \in Seq(Templates) /\ Len(live) \in 0 .. Len(sequenceQueue)
      /\ (live # <<>> => Head(live) \in Templates /\ ~Blocked(Head(live)) /\ Tail(live) \in Seq(Templates))
  BY <1>0, LiveType
<1> HIDE DEF live
<1>2. CASE /\ live # <<>> /\ sequenceQueue' = Tail(live)
           /\ Dispatch(Head(live), "other") /\ UNCHANGED corpus
  BY <1>1, <1>2, DispatchSends DEF Origins, NoReplaySent, CorpusOK, TypeOK, corpus
<1>3. ASSUME NEW dropped \in 0 .. Len(sequenceQueue) - Len(live),
             sequenceQueue' = SubSeq(sequenceQueue, dropped + 1, Len(sequenceQueue)),
             FromRotation
      PROVE  NoReplaySent /\ CorpusOK' /\ sequenceQueue' \in Seq(Templates)
  <2>1. dropped + 1 \in Nat \ {0}
    BY <1>0, <1>1
  <2> QED
    BY <1>0, <1>3, <2>1, Parts, RotationSends
<1> QED
  BY <1>2, <1>3 DEF FromSequences, live

LEMMA ProbesSend ==
    ASSUME TypeOK, FromProbes
    PROVE  /\ NoReplaySent /\ CorpusOK'
           /\ oracleQueue' \in Seq(Templates) /\ sequenceQueue' \in Seq(Templates)
<1>0. oracleQueue \in Seq(Templates) /\ sequenceQueue \in Seq(Templates)
  BY DEF TypeOK
<1>1. CASE oracleQueue # <<>>
  <2>1. Head(oracleQueue) \in Templates /\ Tail(oracleQueue) \in Seq(Templates)
    BY <1>0, <1>1
  <2> QED
    BY <1>0, <1>1, <2>1, DispatchSends
       DEF FromProbes, Origins, NoReplaySent, CorpusOK, TypeOK, corpus
<1>2. CASE oracleQueue = <<>>
  BY <1>0, <1>2, SequencesSend DEF FromProbes
<1> QED
  BY <1>1, <1>2

LEMMA RaceSends ==
    ASSUME TypeOK, FromRace
    PROVE  /\ NoReplaySent /\ CorpusOK' /\ raceQueue' \in Seq(Templates)
           /\ oracleQueue' \in Seq(Templates) /\ sequenceQueue' \in Seq(Templates)
<1> DEFINE live == LiveFrom(raceQueue)
<1>1. live # <<>> => Head(live) \in Templates /\ ~Blocked(Head(live)) /\ Tail(live) \in Seq(Templates)
  BY LiveType DEF TypeOK
<1> HIDE DEF live
<1>2. CASE /\ live # <<>> /\ raceQueue' = Tail(live) /\ Dispatch(Head(live), "other")
           /\ UNCHANGED <<oracleQueue, sequenceQueue, corpus>>
  BY <1>1, <1>2, DispatchSends DEF Origins, NoReplaySent, CorpusOK, TypeOK, corpus
<1>3. CASE raceQueue' = <<>> /\ FromProbes
  BY <1>3, ProbesSend
<1> QED
  BY <1>2, <1>3 DEF FromRace, live

\* A replay taken from the queue: one that was queued, with all before it dropped.
ReplaySent ==
    \E m \in DOMAIN replayQueue, i \in Item :
        /\ Sends(i) /\ i.from = "replay" /\ i.t = replayQueue[m]
        /\ replayQueue' = SubSeq(replayQueue, m + 1, Len(replayQueue))

LEMMA BuildSends ==
    ASSUME TypeOK, BuildWorkItem
    PROVE  /\ CorpusOK' /\ QueuesOK'
           /\ \/ ReplaySent
              \/ NoReplaySent /\ replayQueue' \in {replayQueue, <<>>}
<1> DEFINE live == LiveFrom(replayQueue)
<1>0. replayQueue \in Seq(Templates) /\ QueuesOK /\ CorpusOK
  BY DEF TypeOK, QueuesOK, CorpusOK
<1>1. CASE /\ live # <<>> /\ replayQueue' = Tail(live) /\ Dispatch(Head(live), "replay")
           /\ UNCHANGED <<raceQueue, oracleQueue, sequenceQueue, corpus>>
  <2>1. PICK m \in DOMAIN replayQueue :
                /\ Head(live) = replayQueue[m] /\ ~Blocked(replayQueue[m])
                /\ Tail(live) = SubSeq(replayQueue, m + 1, Len(replayQueue))
    BY <1>0, <1>1, LiveHead
  <2>2. Head(live) \in Templates /\ Tail(live) \in Seq(Templates)
    BY <1>0, <1>1, LiveType
  <2> HIDE DEF live
  <2>3. PICK i \in Item : Sends(i) /\ i.t = Head(live) /\ i.from = "replay"
    BY <1>1, <2>1, <2>2, DispatchSends DEF Origins
  <2>4. ReplaySent
    BY <1>1, <2>1, <2>3 DEF ReplaySent
  <2> QED
    BY <1>0, <1>1, <2>2, <2>4 DEF QueuesOK, CorpusOK, corpus
<1>2. CASE replayQueue' = <<>> /\ FromRace
  BY <1>2, RaceSends DEF QueuesOK
<1>3. CASE FromRace /\ UNCHANGED replayQueue
  BY <1>0, <1>3, RaceSends DEF QueuesOK
<1> QED
  BY <1>1, <1>2, <1>3 DEF BuildWorkItem, FromReplays

-----------------------------------------------------------------------------
(* What a result does to the queues, the corpus and the budgets.           *)

LEMMA Constants ==
    /\ \A t \in Templates : EndpointOf[t] \in Endpoints
    /\ CrashReplayCount \in Nat /\ CrashReplayPerEndpoint \in Nat
    /\ CrashReplayQueueMax \in Nat \ {0} /\ SequenceQueueMax \in Nat \ {0}
    /\ RaceBurst \in Nat /\ RaceQueueMax \in Nat \ {0} /\ ProbeQueueMax \in Nat \ {0}
    /\ ProbesAtOnce \in Nat /\ MaxFlight \in Nat
BY SchedulerAssumption

LEMMA LearnedOK ==
    ASSUME CorpusOK, NEW t \in Templates, NEW c \in Learned(t)
    PROVE  c.weighted \subseteq c.seeds /\ c.seeds \subseteq Templates
<1>1. CASE c = [seeds |-> seeds, weighted |-> weighted]
  BY <1>1 DEF CorpusOK
<1>2. ASSUME NEW s \in Templates,
             c = [seeds |-> seeds \cup {t}, weighted |-> weighted \cup {t} \cup ({s} \cap seeds)]
      PROVE  c.weighted \subseteq c.seeds /\ c.seeds \subseteq Templates
  BY <1>2 DEF CorpusOK
<1>3. ASSUME NEW kept \in SUBSET (seeds \cup {t}), c = [seeds |-> kept, weighted |-> kept]
      PROVE  c.weighted \subseteq c.seeds /\ c.seeds \subseteq Templates
  BY <1>3 DEF CorpusOK
<1> QED
  BY <1>1, <1>2, <1>3 DEF Learned

\* A crash adds to the queue what it counts, within the endpoint's budget and the
\* queue's room.
Enqueued(t, add) ==
    LET e == EndpointOf[t] IN
    /\ replayQueue' = replayQueue \o [k \in 1 .. add |-> t]
    /\ replayByEndpoint' = [replayByEndpoint EXCEPT ![e] = @ + add]
    /\ Len(replayQueue) + add <= CrashReplayQueueMax
    /\ CrashReplayPerEndpoint > 0 => replayByEndpoint[e] + add <= CrashReplayPerEndpoint

\* The queue and the counts are within their limits.
Limits ==
    /\ Len(replayQueue) <= CrashReplayQueueMax
    /\ CrashReplayPerEndpoint > 0 =>
          \A e \in Endpoints : replayByEndpoint[e] <= CrashReplayPerEndpoint

LEMMA EnqueueWithin ==
    ASSUME TypeOK, Limits, NEW t \in Templates, EnqueueCrashReplay(t)
    PROVE  \E add \in Nat : Enqueued(t, add)
<1> DEFINE e    == EndpointOf[t]
           left == CrashReplayPerEndpoint - replayByEndpoint[e]
           n    == IF Blocked(t) THEN 0
                   ELSE IF CrashReplayPerEndpoint = 0 \/ CrashReplayCount <= left
                   THEN CrashReplayCount
                   ELSE left
           room == CrashReplayQueueMax - Len(replayQueue)
           add  == IF n <= room THEN n ELSE room
<1>1. e \in Endpoints /\ replayByEndpoint[e] \in Nat
  BY Constants DEF TypeOK
<1>2. left \in Int /\ (CrashReplayPerEndpoint > 0 => left >= 0)
  BY <1>1, Constants DEF Limits
<1>3. room \in Nat
  <2>1. Len(replayQueue) \in Nat
    BY DEF TypeOK
  <2> QED
    BY <2>1, Constants DEF Limits
<1>4. n \in Nat /\ (CrashReplayPerEndpoint > 0 => n <= left)
  <2> HIDE DEF left
  <2> QED
    BY <1>2, Constants
<1>5. add \in Nat /\ add <= room /\ add <= n
  <2> HIDE DEF n, room
  <2> QED
    BY <1>3, <1>4
<1>6. /\ replayQueue' = replayQueue \o [k \in 1 .. add |-> t]
      /\ replayByEndpoint' = [replayByEndpoint EXCEPT ![e] = @ + add]
  BY DEF EnqueueCrashReplay
<1>7. Len(replayQueue) \in Nat
  BY DEF TypeOK
<1>8. Len(replayQueue) + add <= CrashReplayQueueMax
  <2> HIDE DEF add
  <2> QED
    BY <1>5, <1>7, Constants
<1>9. CrashReplayPerEndpoint > 0 => replayByEndpoint[e] + add <= CrashReplayPerEndpoint
  <2> HIDE DEF add, n
  <2> QED
    BY <1>1, <1>4, <1>5, Constants
<1> HIDE DEF add
<1> QED
  BY <1>5, <1>6, <1>8, <1>9 DEF Enqueued

\* What a result changes: of the replays, only what a crash enqueues.
LEMMA ResultKeeps ==
    ASSUME TypeOK, Limits, NEW i \in flight, HandleResult(i)
    PROVE  /\ TypeOK' /\ flight' = flight \ {i}
           /\ \/ UNCHANGED <<replayQueue, replayByEndpoint>>
              \/ \E add \in Nat : Enqueued(i.t, add)
<1>0. /\ i \in Item /\ i.t \in Templates /\ EndpointOf[i.t] \in Endpoints
      /\ CorpusOK /\ QueuesOK
  BY Constants DEF TypeOK, Item, CorpusOK, QueuesOK
<1>1. flight' = flight \ {i}
  BY DEF HandleResult, HandleOther, HandleCrash, HandleSuccess, Leaves
<1>2. flight' \subseteq Item /\ IsFiniteSet(flight')
  BY <1>1, FS_RemoveElement DEF TypeOK
<1>3. ASSUME LearnSeed(i.t) PROVE CorpusOK'
  BY <1>0, <1>3, LearnedOK DEF LearnSeed, CorpusOK
<1>4. CASE HandleOther(i)
  <2>1. CorpusOK'
    BY <1>0, <1>3, <1>4 DEF HandleOther, CorpusOK, corpus
  <2> QED
    BY <1>1, <1>2, <1>4, <2>1
       DEF HandleOther, TypeOK, CorpusOK, rotation, queues, budgets
<1>5. CASE HandleCrash(i)
  <2>1. PICK is500 \in BOOLEAN, c \in Learned(i.t) :
          LET blocks == SkipEndpointOn500 /\ is500 /\ ~Blocked(i.t) IN
          /\ Retire(i.t, blocks)
          /\ seeds' = c.seeds
          /\ weighted' = IF blocks THEN c.weighted \ OfEndpoint(EndpointOf[i.t]) ELSE c.weighted
    BY <1>5 DEF HandleCrash
  <2>2. CorpusOK'
    BY <1>0, <2>1, LearnedOK DEF CorpusOK
  <2>3. active' \subseteq Templates /\ blocked' \subseteq Endpoints
    BY <1>0, <2>1 DEF Retire, TypeOK
  <2>4. sequenceQueue' \in Seq(Templates)
    BY <1>0, <2>1, WithoutType DEF Retire, QueuesOK
  <2>5. \/ UNCHANGED <<replayQueue, replayByEndpoint>>
        \/ \E add \in Nat : Enqueued(i.t, add)
    BY <1>0, <1>5, EnqueueWithin DEF HandleCrash
  <2>6. replayQueue' \in Seq(Templates) /\ replayByEndpoint' \in [Endpoints -> Nat]
    <3>1. ASSUME NEW add \in Nat, Enqueued(i.t, add)
          PROVE  replayQueue' \in Seq(Templates) /\ replayByEndpoint' \in [Endpoints -> Nat]
      <4>1. replayQueue' \in Seq(Templates)
        BY <1>0, <3>1, Copies, ConcatProperties DEF Enqueued, QueuesOK
      <4>2. replayByEndpoint' \in [Endpoints -> Nat]
        BY <1>0, <3>1 DEF Enqueued, TypeOK
      <4> QED
        BY <4>1, <4>2
    <3> QED
      BY <2>5, <3>1 DEF TypeOK
  <2>7. UNCHANGED <<raceQueue, oracleQueue, probeCount>>
    BY <1>5 DEF HandleCrash
  <2> QED
    BY <1>1, <1>2, <2>2, <2>3, <2>4, <2>5, <2>6, <2>7 DEF TypeOK, CorpusOK
<1>6. CASE HandleSuccess(i)
  <2>1. CorpusOK'
    BY <1>3, <1>6 DEF HandleSuccess
  <2>2. sequenceQueue' \in Seq(Templates)
    BY <1>0, <1>6, PushType, Constants DEF HandleSuccess, EnqueueFollowup, QueuesOK
  <2>3. raceQueue' \in Seq(Templates)
    BY <1>0, <1>6, PushType, Constants DEF HandleSuccess, EnqueueRaceBurst, QueuesOK
  <2>4. oracleQueue' \in Seq(Templates) /\ probeCount' \in [Endpoints -> Nat]
    <3>1. CASE UNCHANGED <<oracleQueue, probeCount>>
      BY <3>1 DEF TypeOK
    <3>2. ASSUME NEW n \in 1 .. ProbesAtOnce,
                 oracleQueue' = Push(oracleQueue, ProbeQueueMax, i.t, n),
                 probeCount' = [probeCount EXCEPT ![EndpointOf[i.t]] = @ + n]
          PROVE  oracleQueue' \in Seq(Templates) /\ probeCount' \in [Endpoints -> Nat]
      <4>1. n \in Nat
        BY Constants
      <4>2. oracleQueue' \in Seq(Templates)
        BY <1>0, <3>2, <4>1, PushType, Constants DEF QueuesOK
      <4>3. probeCount' \in [Endpoints -> Nat]
        BY <1>0, <3>2, <4>1 DEF TypeOK
      <4> QED
        BY <4>2, <4>3
    <3> QED
      BY <1>6, <3>1, <3>2 DEF HandleSuccess, EnqueueProbes
  <2>5. UNCHANGED <<rotation, replayQueue, replayByEndpoint>>
    BY <1>6 DEF HandleSuccess
  <2> QED
    BY <1>1, <1>2, <2>1, <2>2, <2>3, <2>4, <2>5 DEF TypeOK, CorpusOK, rotation
<1> QED
  BY <1>4, <1>5, <1>6 DEF HandleResult

-----------------------------------------------------------------------------
(* Counting the replays of an endpoint.                                    *)

Of(q, e) == {k \in DOMAIN q : EndpointOf[q[k]] = e}
InFlightOf(e) == {i \in flight : i.from = "replay" /\ EndpointOf[i.t] = e}
One(t, e) == IF EndpointOf[t] = e THEN 1 ELSE 0

LEMMA OfFinite ==
    ASSUME NEW q \in Seq(Templates), NEW e
    PROVE  IsFiniteSet(Of(q, e)) /\ Cardinality(Of(q, e)) \in Nat
<1>1. IsFiniteSet(1 .. Len(q))
  BY FS_Interval
<1>2. Of(q, e) \in SUBSET (1 .. Len(q))
  BY DEF Of
<1> QED
  BY <1>1, <1>2, FS_Subset, FS_CardinalityType

\* What follows position m has at least one element of m's endpoint less.
LEMMA CountRest ==
    ASSUME NEW q \in Seq(Templates), NEW m \in DOMAIN q, NEW e
    PROVE  Cardinality(Of(SubSeq(q, m + 1, Len(q)), e)) + One(q[m], e) <= Cardinality(Of(q, e))
<1> DEFINE rest == SubSeq(q, m + 1, Len(q))
           A == Of(rest, e)
           B == Of(q, e) \ {m}
           g == [k \in A |-> k + m]
<1>1. m \in Nat \ {0} /\ m <= Len(q) /\ Len(q) \in Nat
  OBVIOUS
<1>2. /\ rest \in Seq(Templates) /\ Len(rest) = Len(q) - m
      /\ \A k \in 1 .. Len(rest) : rest[k] = q[k + m]
  <2>1. \A i \in m + 1 .. Len(q) : q[i] \in Templates
    BY <1>1
  <2>2. m + 1 \in Int /\ Len(q) \in Int
    BY <1>1
  <2>3. /\ Len(rest) = IF m + 1 <= Len(q) THEN Len(q) - (m + 1) + 1 ELSE 0
        /\ \A k \in 1 .. Len(q) - (m + 1) + 1 : rest[k] = q[m + 1 + k - 1]
    BY <2>1, <2>2, SubSeqProperties
  <2>4. rest \in Seq(Templates)
    BY <1>1, Parts
  <2> HIDE DEF rest
  <2>5. Len(rest) = Len(q) - m
    BY <1>1, <2>3
  <2>6. ASSUME NEW k \in 1 .. Len(rest) PROVE rest[k] = q[k + m]
    <3>1. k \in 1 .. Len(q) - (m + 1) + 1 /\ m + 1 + k - 1 = k + m
      BY <1>1, <2>5
    <3> QED
      BY <2>3, <3>1
  <2> QED
    BY <2>4, <2>5, <2>6
<1> HIDE DEF rest
<1>3. \A k \in A : k \in Nat \ {0} /\ k + m \in B
  BY <1>1, <1>2 DEF Of
<1>4. IsFiniteSet(Of(q, e)) /\ IsFiniteSet(B)
  BY OfFinite, FS_RemoveElement
<1>5. IsFiniteSet(A) /\ Cardinality(A) \in Nat
  BY <1>2, OfFinite
<1>6. g \in [A -> B] /\ \A a, b \in A : g[a] = g[b] => a = b
  <2> HIDE DEF A, B
  <2> QED
    BY <1>1, <1>3
<1>7. Cardinality(A) <= Cardinality(B)
  <2> HIDE DEF A, B, g
  <2> QED
    BY <1>4, <1>6, Fun_IsInj, FS_Injection
<1>8. Cardinality(B) = IF m \in Of(q, e) THEN Cardinality(Of(q, e)) - 1 ELSE Cardinality(Of(q, e))
  BY <1>4, FS_RemoveElement
<1>9. One(q[m], e) = IF m \in Of(q, e) THEN 1 ELSE 0
  BY DEF One, Of
<1>10. Cardinality(Of(q, e)) \in Nat
  BY OfFinite
<1> HIDE DEF B
<1> QED
  BY <1>5, <1>7, <1>8, <1>9, <1>10 DEF rest

\* add more replays of one template.
LEMMA CountMore ==
    ASSUME NEW q \in Seq(Templates), NEW t \in Templates, NEW add \in Nat, NEW e
    PROVE  Cardinality(Of(q \o [k \in 1 .. add |-> t], e))
              <= Cardinality(Of(q, e)) + (IF EndpointOf[t] = e THEN add ELSE 0)
<1> DEFINE more == [k \in 1 .. add |-> t]
           all  == q \o more
           B    == IF EndpointOf[t] = e THEN Len(q) + 1 .. Len(q) + add ELSE {}
<1>1. more \in Seq(Templates) /\ Len(more) = add /\ \A k \in 1 .. add : more[k] = t
  BY Copies
<1> HIDE DEF more
<1>2. /\ all \in Seq(Templates) /\ Len(all) = Len(q) + add
      /\ \A k \in 1 .. Len(q) + add : all[k] = IF k <= Len(q) THEN q[k] ELSE more[k - Len(q)]
  BY <1>1, ConcatProperties
<1> HIDE DEF all
<1>3. Len(q) \in Nat /\ DOMAIN q = 1 .. Len(q) /\ DOMAIN all = 1 .. Len(q) + add
  BY <1>2
<1>4. ASSUME NEW k \in Of(all, e) PROVE k \in Of(q, e) \cup B
  <2>1. k \in 1 .. Len(q) + add /\ EndpointOf[all[k]] = e
    BY <1>3, <1>4 DEF Of
  <2>2. CASE k <= Len(q)
    BY <1>2, <1>3, <2>1, <2>2 DEF Of
  <2>3. CASE k > Len(q)
    <3>1. k - Len(q) \in 1 .. add /\ k \in Len(q) + 1 .. Len(q) + add
      BY <1>3, <2>1, <2>3
    <3>2. all[k] = t
      BY <1>1, <1>2, <1>3, <2>1, <2>3, <3>1
    <3> QED
      BY <2>1, <3>1, <3>2
  <2> QED
    BY <1>3, <2>1, <2>2, <2>3
<1>5. IsFiniteSet(B) /\ Cardinality(B) = IF EndpointOf[t] = e THEN add ELSE 0
  <2>1. /\ IsFiniteSet(Len(q) + 1 .. Len(q) + add)
        /\ Cardinality(Len(q) + 1 .. Len(q) + add) = add
    <3>1. Len(q) + 1 \in Int /\ Len(q) + add \in Int
      BY <1>3
    <3>2. /\ IsFiniteSet(Len(q) + 1 .. Len(q) + add)
          /\ Cardinality(Len(q) + 1 .. Len(q) + add) =
               IF Len(q) + 1 > Len(q) + add THEN 0 ELSE (Len(q) + add) - (Len(q) + 1) + 1
      BY <3>1, FS_Interval
    <3> QED
      BY <1>3, <3>2
  <2> QED
    BY <2>1, FS_EmptySet
<1> HIDE DEF B
<1>6. IsFiniteSet(Of(q, e)) /\ Cardinality(Of(q, e)) \in Nat
  BY OfFinite
<1>7. /\ IsFiniteSet(Of(q, e) \cup B) /\ Cardinality(Of(q, e) \cap B) \in Nat
      /\ Cardinality(Of(q, e) \cup B) = Cardinality(Of(q, e)) + Cardinality(B) - Cardinality(Of(q, e) \cap B)
  BY <1>5, <1>6, FS_Union, FS_Intersection, FS_CardinalityType
<1>8. Cardinality(Of(all, e)) <= Cardinality(Of(q, e) \cup B)
  BY <1>4, <1>7, FS_Subset
<1>9. Cardinality(Of(all, e)) \in Nat
  BY <1>2, OfFinite
<1> QED
  BY <1>5, <1>6, <1>7, <1>8, <1>9 DEF all, more

\* A request that is sent counts for its endpoint if it is a replay.
LEMMA FlightMore ==
    ASSUME TypeOK, NEW i \in Item, Sends(i), NEW e
    PROVE  Cardinality(InFlightOf(e)') =
              Cardinality(InFlightOf(e)) + (IF i.from = "replay" THEN One(i.t, e) ELSE 0)
<1>1. InFlightOf(e) \in SUBSET flight /\ i \notin InFlightOf(e)
  BY DEF InFlightOf, Sends
<1>2. IsFiniteSet(InFlightOf(e)) /\ Cardinality(InFlightOf(e)) \in Nat
  BY <1>1, FS_Subset, FS_CardinalityType DEF TypeOK
<1>3. CASE i.from = "replay" /\ EndpointOf[i.t] = e
  <2>1. InFlightOf(e)' = InFlightOf(e) \cup {i}
    BY <1>3 DEF InFlightOf, Sends
  <2> QED
    BY <1>1, <1>2, <1>3, <2>1, FS_AddElement DEF One
<1>4. CASE ~(i.from = "replay" /\ EndpointOf[i.t] = e)
  <2>1. InFlightOf(e)' = InFlightOf(e)
    BY <1>4 DEF InFlightOf, Sends
  <2> QED
    BY <1>2, <1>4, <2>1 DEF One
<1> QED
  BY <1>3, <1>4

LEMMA ReplaysCounted ==
    \A e : ReplaysOf(e) = Cardinality(Of(replayQueue, e)) + Cardinality(InFlightOf(e))
BY DEF ReplaysOf, Of, InFlightOf

-----------------------------------------------------------------------------
(* The theorems.                                                           *)

IInv == TypeOK /\ ReplaysBounded

LEMMA IInvLimits == ASSUME IInv PROVE Limits
BY DEF IInv, ReplaysBounded, Limits

LEMMA InitIInv == Init => IInv
<1> SUFFICES ASSUME Init PROVE IInv
  OBVIOUS
<1>1. TypeOK
  BY FS_EmptySet DEF Init, TypeOK
<1>2. ASSUME NEW e \in Endpoints PROVE ReplaysOf(e) = 0
  <2>1. Of(replayQueue, e) = {} /\ InFlightOf(e) = {}
    BY DEF Init, Of, InFlightOf
  <2> QED
    BY <2>1, ReplaysCounted, FS_EmptySet
<1>3. ReplaysBounded
  BY <1>2, Constants DEF Init, ReplaysBounded
<1> QED
  BY <1>1, <1>3 DEF IInv

LEMMA BuildKeeps == ASSUME IInv, BuildWorkItem PROVE IInv'
<1>0. TypeOK /\ ReplaysBounded /\ replayQueue \in Seq(Templates)
  BY DEF IInv, TypeOK
<1>1. /\ CorpusOK' /\ QueuesOK'
      /\ \/ ReplaySent
         \/ NoReplaySent /\ replayQueue' \in {replayQueue, <<>>}
  BY <1>0, BuildSends
<1>2. UNCHANGED <<rotation, budgets>>
  BY DEF BuildWorkItem
<1>3. flight' \subseteq Item /\ IsFiniteSet(flight')
  <2>1. UNCHANGED flight \/ \E i \in Item : flight' = flight \cup {i}
    BY <1>1 DEF ReplaySent, NoReplaySent, Sends
  <2> QED
    BY <1>0, <2>1, FS_AddElement DEF TypeOK
<1>4. TypeOK'
  BY <1>0, <1>1, <1>2, <1>3 DEF TypeOK, CorpusOK, QueuesOK, rotation, budgets
<1>5. ReplaysBounded'
  <2>1. UNCHANGED replayByEndpoint
    BY <1>2 DEF budgets
  <2>2. Len(replayQueue') <= CrashReplayQueueMax
    <3>1. Len(replayQueue) \in Nat /\ Len(replayQueue) <= CrashReplayQueueMax
      BY <1>0 DEF ReplaysBounded
    <3>2. ASSUME NEW m \in DOMAIN replayQueue,
                 replayQueue' = SubSeq(replayQueue, m + 1, Len(replayQueue))
          PROVE  Len(replayQueue') <= Len(replayQueue)
      <4>1. m \in Nat \ {0} /\ m <= Len(replayQueue)
            /\ \A i \in m + 1 .. Len(replayQueue) : replayQueue[i] \in Templates
        BY <1>0
      <4>2. Len(replayQueue') =
              IF m + 1 <= Len(replayQueue) THEN Len(replayQueue) - (m + 1) + 1 ELSE 0
        BY <3>1, <3>2, <4>1, SubSeqProperties
      <4> QED
        BY <3>1, <4>1, <4>2
    <3>3. Len(<<>>) = 0
      OBVIOUS
    <3>4. Len(replayQueue') <= Len(replayQueue)
      BY <1>1, <3>1, <3>2, <3>3 DEF ReplaySent
    <3>5. Len(replayQueue') \in Nat
      BY <1>1 DEF QueuesOK
    <3> QED
      BY <3>1, <3>4, <3>5, Constants
  <2>3. ASSUME NEW e \in Endpoints PROVE ReplaysOf(e)' <= ReplaysOf(e)
    <3>1. /\ Cardinality(Of(replayQueue, e)) \in Nat
          /\ Cardinality(InFlightOf(e)) \in Nat
          /\ Cardinality(Of(replayQueue', e)) \in Nat
      <4>1. InFlightOf(e) \in SUBSET flight /\ replayQueue' \in Seq(Templates)
        BY <1>1 DEF InFlightOf, QueuesOK
      <4> QED
        BY <1>0, <4>1, OfFinite, FS_Subset, FS_CardinalityType DEF TypeOK
    <3>2. ReplaysOf(e)' = Cardinality(Of(replayQueue', e)) + Cardinality(InFlightOf(e)')
      BY DEF ReplaysOf, Of, InFlightOf
    <3>3. CASE ReplaySent
      <4>1. PICK m \in DOMAIN replayQueue, i \in Item :
                   /\ Sends(i) /\ i.from = "replay" /\ i.t = replayQueue[m]
                   /\ replayQueue' = SubSeq(replayQueue, m + 1, Len(replayQueue))
        BY <3>3 DEF ReplaySent
      <4>2. Cardinality(Of(replayQueue', e)) + One(i.t, e) <= Cardinality(Of(replayQueue, e))
        BY <1>0, <4>1, CountRest
      <4>3. Cardinality(InFlightOf(e)') = Cardinality(InFlightOf(e)) + One(i.t, e)
        BY <1>0, <4>1, FlightMore
      <4>4. One(i.t, e) \in Nat
        BY DEF One
      <4> QED
        BY <3>1, <3>2, <4>2, <4>3, <4>4, ReplaysCounted
    <3>4. CASE NoReplaySent /\ replayQueue' \in {replayQueue, <<>>}
      <4>1. Cardinality(InFlightOf(e)') = Cardinality(InFlightOf(e))
        <5>1. CASE UNCHANGED flight
          BY <5>1 DEF InFlightOf
        <5>2. ASSUME NEW i \in Item, Sends(i), i.from # "replay"
              PROVE  Cardinality(InFlightOf(e)') = Cardinality(InFlightOf(e))
          BY <1>0, <3>1, <5>2, FlightMore
        <5> QED
          BY <3>4, <5>1, <5>2 DEF NoReplaySent
      <4>2. Cardinality(Of(replayQueue', e)) <= Cardinality(Of(replayQueue, e))
        <5>1. Of(<<>>, e) = {}
          BY DEF Of
        <5>2. CASE replayQueue' = replayQueue
          BY <3>1, <5>2
        <5>3. CASE replayQueue' = <<>>
          <6>1. Cardinality(Of(replayQueue', e)) = 0
            BY <5>1, <5>3, FS_EmptySet
          <6> QED
            BY <3>1, <6>1
        <5> QED
          BY <3>4, <5>2, <5>3
      <4> QED
        BY <3>1, <3>2, <4>1, <4>2, ReplaysCounted
    <3> QED
      BY <1>1, <3>3, <3>4
  <2>4. \A e \in Endpoints : ReplaysOf(e) \in Nat /\ ReplaysOf(e)' \in Nat /\ replayByEndpoint[e] \in Nat
    <3>1. ASSUME NEW e \in Endpoints PROVE ReplaysOf(e) \in Nat /\ ReplaysOf(e)' \in Nat
      <4>1. InFlightOf(e) \in SUBSET flight /\ InFlightOf(e)' \in SUBSET flight'
        BY DEF InFlightOf
      <4>2. Cardinality(InFlightOf(e)) \in Nat /\ Cardinality(InFlightOf(e)') \in Nat
        BY <1>0, <1>4, <4>1, FS_Subset, FS_CardinalityType DEF TypeOK
      <4>3. Cardinality(Of(replayQueue, e)) \in Nat /\ Cardinality(Of(replayQueue', e)) \in Nat
        BY <1>0, <1>4, OfFinite DEF TypeOK
      <4>4. ReplaysOf(e)' = Cardinality(Of(replayQueue', e)) + Cardinality(InFlightOf(e)')
        BY DEF ReplaysOf, Of, InFlightOf
      <4> QED
        BY <4>2, <4>3, <4>4, ReplaysCounted
    <3> QED
      BY <1>0, <3>1 DEF TypeOK
  <2>5. \A e \in Endpoints : ReplaysOf(e)' <= replayByEndpoint[e]
    BY <1>0, <2>3, <2>4 DEF ReplaysBounded
  <2> QED
    BY <1>0, <2>1, <2>2, <2>5 DEF ReplaysBounded
<1> QED
  BY <1>4, <1>5 DEF IInv

LEMMA ResultKeepsIInv == ASSUME IInv, NEW i \in flight, HandleResult(i) PROVE IInv'
<1>0. TypeOK /\ ReplaysBounded /\ replayQueue \in Seq(Templates) /\ i.t \in Templates
  BY DEF IInv, TypeOK, Item
<1>1. /\ TypeOK' /\ flight' = flight \ {i}
      /\ \/ UNCHANGED <<replayQueue, replayByEndpoint>>
         \/ \E add \in Nat : Enqueued(i.t, add)
  BY <1>0, IInvLimits, ResultKeeps
<1>2. ASSUME NEW e \in Endpoints
      PROVE  /\ Cardinality(InFlightOf(e)) \in Nat /\ Cardinality(InFlightOf(e)') \in Nat
             /\ Cardinality(InFlightOf(e)') <= Cardinality(InFlightOf(e))
             /\ Cardinality(Of(replayQueue, e)) \in Nat /\ Cardinality(Of(replayQueue', e)) \in Nat
             /\ ReplaysOf(e)' = Cardinality(Of(replayQueue', e)) + Cardinality(InFlightOf(e)')
             /\ ReplaysOf(e) = Cardinality(Of(replayQueue, e)) + Cardinality(InFlightOf(e))
  <2>1. InFlightOf(e) \in SUBSET flight /\ InFlightOf(e)' \in SUBSET InFlightOf(e)
    BY <1>1 DEF InFlightOf
  <2>2. IsFiniteSet(InFlightOf(e))
    BY <1>0, <2>1, FS_Subset DEF TypeOK
  <2>3. /\ Cardinality(InFlightOf(e)) \in Nat /\ Cardinality(InFlightOf(e)') \in Nat
        /\ Cardinality(InFlightOf(e)') <= Cardinality(InFlightOf(e))
    BY <2>1, <2>2, FS_Subset, FS_CardinalityType
  <2>4. ReplaysOf(e)' = Cardinality(Of(replayQueue', e)) + Cardinality(InFlightOf(e)')
    BY DEF ReplaysOf, Of, InFlightOf
  <2>5. Cardinality(Of(replayQueue, e)) \in Nat /\ Cardinality(Of(replayQueue', e)) \in Nat
    BY <1>0, <1>1, OfFinite DEF TypeOK
  <2> QED
    BY <2>3, <2>4, <2>5, ReplaysCounted
<1>3. CASE UNCHANGED <<replayQueue, replayByEndpoint>>
  <2>1. ASSUME NEW e \in Endpoints PROVE ReplaysOf(e)' <= replayByEndpoint[e]
    <3>1. replayByEndpoint[e] \in Nat /\ ReplaysOf(e) <= replayByEndpoint[e]
      BY <1>0 DEF TypeOK, ReplaysBounded
    <3>2. Of(replayQueue', e) = Of(replayQueue, e)
      BY <1>3
    <3> QED
      BY <1>2, <3>1, <3>2
  <2> QED
    BY <1>0, <1>1, <1>3, <2>1 DEF ReplaysBounded, IInv
<1>4. ASSUME NEW add \in Nat, Enqueued(i.t, add) PROVE ReplaysBounded'
  <2>1. EndpointOf[i.t] \in Endpoints
    BY <1>0, Constants
  <2>2. Len(replayQueue') <= CrashReplayQueueMax
    <3>1. Len(replayQueue') = Len(replayQueue) + add
      BY <1>0, <1>4, Copies, ConcatProperties DEF Enqueued
    <3> QED
      BY <1>4, <3>1 DEF Enqueued
  <2>3. ASSUME NEW e \in Endpoints
        PROVE  /\ ReplaysOf(e)' <= replayByEndpoint'[e]
               /\ CrashReplayPerEndpoint > 0 => replayByEndpoint'[e] <= CrashReplayPerEndpoint
    <3>1. /\ replayByEndpoint[e] \in Nat /\ ReplaysOf(e) <= replayByEndpoint[e]
          /\ CrashReplayPerEndpoint > 0 => replayByEndpoint[e] <= CrashReplayPerEndpoint
      BY <1>0 DEF TypeOK, ReplaysBounded
    <3>2. replayByEndpoint'[e] = replayByEndpoint[e] + (IF EndpointOf[i.t] = e THEN add ELSE 0)
      BY <1>0, <1>4, <2>1, <3>1 DEF Enqueued, TypeOK
    <3>3. Cardinality(Of(replayQueue', e))
             <= Cardinality(Of(replayQueue, e)) + (IF EndpointOf[i.t] = e THEN add ELSE 0)
      BY <1>0, <1>4, CountMore DEF Enqueued
    <3>4. ReplaysOf(e)' <= replayByEndpoint'[e]
      BY <1>2, <3>1, <3>2, <3>3
    <3>5. CrashReplayPerEndpoint > 0 => replayByEndpoint'[e] <= CrashReplayPerEndpoint
      BY <1>4, <3>1, <3>2 DEF Enqueued
    <3> QED
      BY <3>4, <3>5
  <2> QED
    BY <2>2, <2>3 DEF ReplaysBounded
<1> QED
  BY <1>1, <1>3, <1>4 DEF IInv

LEMMA StepIInv == IInv /\ [Next]_vars => IInv'
<1> SUFFICES ASSUME IInv, [Next]_vars PROVE IInv'
  OBVIOUS
<1>1. CASE BuildWorkItem
  BY <1>1, BuildKeeps
<1>2. ASSUME NEW i \in flight, HandleResult(i) PROVE IInv'
  BY <1>2, ResultKeepsIInv
<1>3. CASE UNCHANGED vars
  BY <1>3 DEF vars, rotation, corpus, queues, budgets, IInv, TypeOK, ReplaysBounded, ReplaysOf
<1> QED
  BY <1>1, <1>2, <1>3 DEF Next

LEMMA Inductive == Spec => []IInv
<1>1. IInv /\ [Next]_vars => IInv'
  BY StepIInv
<1> QED
  BY InitIInv, <1>1, PTL DEF Spec

\* Type correctness.
THEOREM TypeCorrect == Spec => []TypeOK
<1>1. IInv => TypeOK
  BY DEF IInv
<1> QED
  BY Inductive, <1>1, PTL

\* Whatever crashes and however often replays crash again, an endpoint's replays
\* stay within its budget and the queue within its size (enqueueCrashReplay).
THEOREM ReplaysStayBounded == Spec => []ReplaysBounded
<1>1. IInv => ReplaysBounded
  BY DEF IInv
<1> QED
  BY Inductive, <1>1, PTL

\* buildWorkItem sends nothing but a probe to an endpoint that has been blocked.
THEOREM BlockedStaysBlocked == Spec => BlockedIsFinal
<1>1. ASSUME IInv, [Next]_vars
      PROVE  [\A i \in Sent : i.from # "probe" => ~Blocked(i.t)]_vars
  <2>1. CASE BuildWorkItem
    <3>1. UNCHANGED flight \/ \E i \in Item : Sends(i)
      BY <1>1, <2>1, BuildSends DEF IInv, ReplaySent, NoReplaySent
    <3> QED
      BY <3>1 DEF Sends, Sent
  <2>2. ASSUME NEW i \in flight, HandleResult(i) PROVE Sent = {}
    <3>1. flight' = flight \ {i}
      BY <1>1, <2>2, IInvLimits, ResultKeeps DEF IInv
    <3> QED
      BY <3>1 DEF Sent
  <2>3. CASE UNCHANGED vars
    BY <2>3
  <2> QED
    BY <1>1, <2>1, <2>2, <2>3 DEF Next
<1> QED
  BY Inductive, <1>1, PTL DEF Spec, BlockedIsFinal
=============================================================================
