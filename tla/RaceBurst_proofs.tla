-------------------------- MODULE RaceBurst_proofs --------------------------
(* Proofs about RaceBurst, for any number and size of bursts and any caps.  *)
EXTENDS RaceBurst, FiniteSetTheorems, SequenceTheorems, TLAPS

USE DEF RaceAssumption

\* The part of the type invariant that the counting rests on.
Counts ==
    /\ success \in [Bursts -> Nat] /\ seen \in [Bursts -> Nat]
    /\ evaluated \subseteq Bursts
    /\ flight \subseteq Item
    /\ raceQueue \in Seq(Item) /\ oracleQueue \in Seq(Item)

IInv == Counts /\ Bookkeeping

-----------------------------------------------------------------------------
\* A queue of items stays one when an item is pushed and the oldest dropped.
LEMMA PushType ==
    ASSUME NEW q \in Seq(Item), NEW max \in Nat \ {0}, NEW it \in Item
    PROVE  Push(q, max, it) \in Seq(Item)
<1>1. CASE Len(q) >= max
  <2>1. q # <<>>
    BY <1>1
  <2>2. Tail(q) \in Seq(Item)
    BY <2>1
  <2> QED
    BY <1>1, <2>2 DEF Push
<1>2. CASE ~(Len(q) >= max)
  BY <1>2 DEF Push
<1> QED
  BY <1>1, <1>2

\* The race queue stays a queue of items when a burst is queued and the oldest
\* items are dropped.
LEMMA WithBurstType ==
    ASSUME NEW b \in Bursts, raceQueue \in Seq(Item)
    PROVE  WithBurst(b) \in Seq(Item)
<1> DEFINE mem == [m \in Members |-> [burst |-> b, member |-> m, probe |-> FALSE]]
           q   == raceQueue \o mem
           cut == Len(q) - (IF Len(q) > RaceQueueMax THEN RaceQueueMax ELSE Len(q)) + 1
<1>1. mem \in Seq(Item)
  <2>1. \A m \in Members : [burst |-> b, member |-> m, probe |-> FALSE] \in Item
    BY DEF Item
  <2>2. BurstSize \in Nat
    BY RaceAssumption
  <2> QED
    BY <2>1, <2>2, IsASeq DEF Members
<1>2. q \in Seq(Item)
  BY <1>1
<1>3. Len(q) \in Nat /\ RaceQueueMax \in Nat
  BY <1>2, RaceAssumption
<1>4. cut \in 1 .. Len(q) + 1
  <2> HIDE DEF q
  <2>1. CASE Len(q) > RaceQueueMax
    BY <1>3, <2>1
  <2>2. CASE ~(Len(q) > RaceQueueMax)
    BY <1>3, <2>2
  <2> QED
    BY <2>1, <2>2
<1>5. SubSeq(q, cut, Len(q)) \in Seq(Item)
  <2> HIDE DEF q, cut
  <2>1. \A i \in cut .. Len(q) : q[i] \in Item
    BY <1>2, <1>3, <1>4
  <2> QED
    BY <1>2, <1>3, <1>4, <2>1, SubSeqProperties
<1> QED
  BY <1>5 DEF WithBurst

\* Evicting one of a set that is at most one too large leaves it within the cap.
LEMMA EvictionBounds ==
    ASSUME NEW S, IsFiniteSet(S), NEW b, NEW K, Cardinality(S) <= TrackedMax,
           EvictOne(S \cup {b}, K)
    PROVE  K \subseteq S \cup {b} /\ Cardinality(K) <= TrackedMax
<1>0. TrackedMax \in Nat /\ Cardinality(S) \in Nat
  BY RaceAssumption, FS_CardinalityType
<1>1. IsFiniteSet(S \cup {b}) /\ Cardinality(S \cup {b}) <= Cardinality(S) + 1
  <2>1. CASE b \in S
    <3>1. S \cup {b} = S
      BY <2>1
    <3> QED
      BY <3>1, <1>0
  <2>2. CASE b \notin S
    BY <2>2, <1>0, FS_AddElement
  <2> QED
    BY <2>1, <2>2
<1>2. Cardinality(S \cup {b}) \in Nat
  BY <1>1, FS_CardinalityType
<1>3. CASE Cardinality(S \cup {b}) > TrackedMax
  <2>1. PICK x \in S \cup {b} : K = (S \cup {b}) \ {x}
    BY <1>3 DEF EvictOne
  <2>2. Cardinality(K) = Cardinality(S \cup {b}) - 1
    BY <2>1, <1>1, FS_RemoveElement
  <2> QED
    BY <2>1, <2>2, <1>0, <1>1, <1>2
<1>4. CASE ~(Cardinality(S \cup {b}) > TrackedMax)
  <2>1. K = S \cup {b}
    BY <1>4 DEF EvictOne
  <2> QED
    BY <2>1, <1>4, <1>0, <1>2
<1> QED
  BY <1>3, <1>4

-----------------------------------------------------------------------------
\* Counting a result keeps the maps of the oracle in agreement.
LEMMA RecordKeeps ==
    ASSUME Counts, Bookkeeping, NEW b \in Bursts, NEW ok \in BOOLEAN,
           RecordRaceBurstResult(b, ok)
    PROVE  /\ success' \in [Bursts -> Nat] /\ seen' \in [Bursts -> Nat]
           /\ evaluated' \subseteq Bursts
           /\ Bookkeeping'
<1> DEFINE n == seen[b] + 1
           k == IF ok THEN success[b] + 1 ELSE success[b]
<1>0. /\ success \in [Bursts -> Nat] /\ seen \in [Bursts -> Nat] /\ evaluated \subseteq Bursts
      /\ BurstSize \in Nat /\ BurstSize >= 2 /\ IsFiniteSet(Bursts) /\ TrackedMax \in Nat
  BY RaceAssumption DEF Counts
<1>1. n \in Nat /\ k \in Nat /\ k <= n /\ n > 0
  <2>1. success[b] \in Nat /\ seen[b] \in Nat /\ success[b] <= seen[b]
    BY <1>0 DEF Bookkeeping
  <2>2. CASE ok
    BY <2>1, <2>2
  <2>3. CASE ~ok
    BY <2>1, <2>3
  <2> QED
    BY <2>2, <2>3
<1>2. IsFiniteSet(Tracked) /\ IsFiniteSet(evaluated) /\ Tracked \subseteq Bursts
  BY <1>0, FS_Subset DEF Tracked
<1>3. \A x \in Bursts : success[x] \in Nat /\ seen[x] \in Nat /\ success[x] <= seen[x]
                        /\ seen[x] < BurstSize
  BY <1>0 DEF Bookkeeping
<1>4. CASE b \in evaluated
  <2>1. UNCHANGED <<success, seen, evaluated>>
    BY <1>4 DEF RecordRaceBurstResult, counts
  <2> QED
    BY <2>1, <1>0 DEF Bookkeeping, Tracked
<1>5. CASE b \notin evaluated /\ n < BurstSize
  <2>1. PICK kept \in SUBSET (Tracked \cup {b}) :
           /\ EvictOne(Tracked \cup {b}, kept)
           /\ seen' = [x \in Bursts |-> IF x \notin kept THEN 0 ELSE IF x = b THEN n ELSE seen[x]]
           /\ success' = [x \in Bursts |->
                             IF x \notin kept THEN 0 ELSE IF x = b THEN k ELSE success[x]]
           /\ evaluated' = evaluated
    BY <1>5 DEF RecordRaceBurstResult
  <2> HIDE DEF n, k
  <2>2. success' \in [Bursts -> Nat] /\ seen' \in [Bursts -> Nat]
    BY <2>1, <1>1, <1>3
  <2>3. \A x \in Bursts : success'[x] <= seen'[x] /\ seen'[x] < BurstSize
    BY <2>1, <1>0, <1>1, <1>3, <1>5
  <2>4. Tracked' = kept
    <3>1. \A x \in Bursts : x \in kept => seen'[x] > 0
      BY <2>1, <1>1, <1>3 DEF Tracked
    <3>2. \A x \in Bursts : x \notin kept => seen'[x] = 0
      BY <2>1
    <3>3. kept \subseteq Bursts
      BY <2>1, <1>2
    <3> QED
      BY <3>1, <3>2, <3>3 DEF Tracked
  <2>5. Cardinality(Tracked') <= TrackedMax
    BY <2>1, <2>4, <1>2, EvictionBounds DEF Bookkeeping
  <2>6. evaluated' \cap Tracked' = {}
    BY <2>1, <2>4, <1>5 DEF Bookkeeping
  <2>7. Cardinality(evaluated') <= TrackedMax
    BY <2>1 DEF Bookkeeping
  <2> QED
    BY <2>1, <2>2, <2>3, <2>5, <2>6, <2>7, <1>0 DEF Bookkeeping
<1>6. CASE b \notin evaluated /\ ~(n < BurstSize)
  <2>1. PICK done \in SUBSET (evaluated \cup {b}) :
           /\ EvictOne(evaluated \cup {b}, done)
           /\ evaluated' = done
           /\ seen' = [seen EXCEPT ![b] = 0]
           /\ success' = [success EXCEPT ![b] = 0]
    BY <1>6 DEF RecordRaceBurstResult
  <2>2. success' \in [Bursts -> Nat] /\ seen' \in [Bursts -> Nat] /\ evaluated' \subseteq Bursts
    BY <2>1, <1>0
  <2>3. \A x \in Bursts : success'[x] <= seen'[x] /\ seen'[x] < BurstSize
    BY <2>1, <1>0, <1>3
  <2>4. Tracked' = Tracked \ {b}
    BY <2>1, <1>0, <1>3 DEF Tracked
  <2>5. Cardinality(Tracked') <= TrackedMax
    <3>1. Cardinality(Tracked') <= Cardinality(Tracked)
      BY <2>4, <1>2, FS_Subset
    <3>2. Cardinality(Tracked') \in Nat /\ Cardinality(Tracked) \in Nat
      BY <2>4, <1>2, FS_Subset, FS_CardinalityType
    <3>3. Cardinality(Tracked) <= TrackedMax
      BY DEF Bookkeeping
    <3> QED
      BY <3>1, <3>2, <3>3, <1>0
  <2>6. evaluated' \cap Tracked' = {}
    BY <2>1, <2>4 DEF Bookkeeping
  <2>7. Cardinality(evaluated') <= TrackedMax
    BY <2>1, <1>2, EvictionBounds DEF Bookkeeping
  <2> QED
    BY <2>2, <2>3, <2>5, <2>6, <2>7 DEF Bookkeeping
<1> QED
  BY <1>4, <1>5, <1>6

-----------------------------------------------------------------------------
\* No burst is tracked and none evaluated at the start.
THEOREM InitIInv == Init => IInv
<1> SUFFICES ASSUME Init PROVE IInv
  OBVIOUS
<1>1. Counts
  BY DEF Init, Counts
<1>2. Tracked = {}
  BY DEF Init, Tracked
<1>3. Cardinality({}) = 0
  BY FS_EmptySet
<1>4. \A b \in Bursts : success[b] <= seen[b] /\ seen[b] < BurstSize
  BY RaceAssumption DEF Init
<1>5. TrackedMax \in Nat
  BY RaceAssumption
<1> QED
  BY <1>1, <1>2, <1>3, <1>4, <1>5 DEF IInv, Bookkeeping, Init

\* Queueing, sending, blocking and handling a result keep the maps in agreement.
THEOREM NextIInv == IInv /\ [Next]_vars => IInv'
<1> SUFFICES ASSUME IInv, [Next]_vars PROVE IInv'
  OBVIOUS
<1>0. Counts /\ Bookkeeping
  BY DEF IInv
<1>1. CASE OtherWriteSucceeds
  <2>1. UNCHANGED <<oracleQueue, flight, success, seen, evaluated>>
    BY <1>1 DEF OtherWriteSucceeds, counts
  <2>2. raceQueue' \in Seq(Item)
    BY <1>0, <1>1, WithBurstType, ZenonT(40) DEF OtherWriteSucceeds, MaybeEnqueueBurst, Counts
  <2> QED
    BY <1>0, <2>1, <2>2 DEF IInv, Counts, Bookkeeping, Tracked
<1>2. CASE Send
  <2>1. UNCHANGED <<success, seen, evaluated>>
    BY <1>2 DEF Send, counts
  <2>2. /\ flight' \subseteq Item /\ raceQueue' \in Seq(Item) /\ oracleQueue' \in Seq(Item)
    <3>1. CASE raceQueue # <<>> /\ raceQueue' = Tail(raceQueue)
               /\ flight' = flight \cup {Head(raceQueue)} /\ oracleQueue' = oracleQueue
      BY <1>0, <3>1 DEF Counts
    <3>2. CASE oracleQueue # <<>> /\ oracleQueue' = Tail(oracleQueue)
               /\ flight' = flight \cup {Head(oracleQueue)} /\ raceQueue' = <<>>
      BY <1>0, <3>2 DEF Counts
    <3> QED
      BY <1>2, <3>1, <3>2 DEF Send
  <2> QED
    BY <1>0, <2>1, <2>2 DEF IInv, Counts, Bookkeeping, Tracked
<1>3. CASE BlockEndpoint
  BY <1>0, <1>3 DEF BlockEndpoint, queues, counts, IInv, Counts, Bookkeeping, Tracked
<1>4. CASE OtherWork
  <2>1. UNCHANGED <<oracleQueue, flight, success, seen, evaluated>> /\ raceQueue' = <<>>
    BY <1>4 DEF OtherWork, counts
  <2> QED
    BY <1>0, <2>1 DEF IInv, Counts, Bookkeeping, Tracked
<1>5. ASSUME NEW it \in flight, NEW ok \in BOOLEAN, HandleResult(it, ok)
      PROVE  IInv'
  <2>1. it \in Item /\ it.burst \in Bursts
    BY <1>0 DEF Counts, Item
  <2>2. RecordRaceBurstResult(it.burst, ok)
    BY <1>5 DEF HandleResult
  <2>3. flight' \subseteq Item /\ raceQueue' = raceQueue
    BY <1>0, <1>5 DEF HandleResult, Counts
  <2>4. oracleQueue' \in Seq(Item)
    <3>1. [it EXCEPT !.probe = TRUE] \in Item
      BY <2>1 DEF Item
    <3>2. ProbeQueueMax \in Nat \ {0} /\ oracleQueue \in Seq(Item)
      BY <1>0, RaceAssumption DEF Counts
    <3>3. Push(oracleQueue, ProbeQueueMax, [it EXCEPT !.probe = TRUE]) \in Seq(Item)
      BY <3>1, <3>2, PushType
    <3>4. oracleQueue' \in {oracleQueue,
                            Push(oracleQueue, ProbeQueueMax, [it EXCEPT !.probe = TRUE])}
      BY <1>5, Zenon DEF HandleResult
    <3> QED
      BY <3>2, <3>3, <3>4
  <2>5. /\ success' \in [Bursts -> Nat] /\ seen' \in [Bursts -> Nat]
        /\ evaluated' \subseteq Bursts
        /\ Bookkeeping'
    BY <1>0, <2>1, <2>2, RecordKeeps
  <2> QED
    BY <1>0, <2>3, <2>4, <2>5 DEF IInv, Counts
<1>6. CASE UNCHANGED vars
  BY <1>0, <1>6 DEF vars, queues, counts, IInv, Counts, Bookkeeping, Tracked
<1> QED
  BY <1>1, <1>2, <1>3, <1>4, <1>5, <1>6 DEF Next

\* The invariant holds in every reachable state.
THEOREM Invariance == Spec => []IInv
  BY InitIInv, NextIInv, PTL DEF Spec

\* The maps of the race oracle agree and stay within their cap.
THEOREM BookkeepingHolds == Spec => []Bookkeeping
<1>1. IInv => Bookkeeping
  BY DEF IInv
<1> QED
  BY <1>1, Invariance, PTL

-----------------------------------------------------------------------------
(* What the counts say of the members of a burst, for any bursts, sizes,   *)
(* caps and order of results.                                              *)

\* A member waits, is in flight or has reported, one of them and once; only members
\* of probed bursts are ever probed.
Once ==
    /\ \A i \in DOMAIN raceQueue :
          /\ ~raceQueue[i].probe /\ raceQueue[i] \notin flight
          /\ raceQueue[i].member \notin reported[raceQueue[i].burst]
    /\ \A i, j \in DOMAIN raceQueue : raceQueue[i] = raceQueue[j] => i = j
    /\ \A it \in flight : IF it.probe THEN it.burst \in Probed
                          ELSE it.member \notin reported[it.burst]
    /\ \A i \in DOMAIN oracleQueue : oracleQueue[i].probe /\ oracleQueue[i].burst \in Probed

History ==
    /\ reported \in [Bursts -> SUBSET Members] /\ succeeded \in [Bursts -> SUBSET Members]
    /\ \A b \in Bursts : succeeded[b] \subseteq reported[b]
    /\ findings \subseteq Bursts

\* The counts of a burst never claim too much, and say all until something is lost
\* or the last member reports.
CountedOf(b) ==
    /\ success[b] <= Cardinality(succeeded[b])
    /\ b \notin lost /\ reported[b] # Members =>
          /\ seen[b] = Cardinality(reported[b])
          /\ success[b] = Cardinality(succeeded[b])
          /\ b \notin evaluated
    /\ b \in findings => Cardinality(succeeded[b]) > 1
    /\ b \notin lost /\ reported[b] = Members /\ Cardinality(succeeded[b]) > 1 => b \in findings

Counted == \A b \in Bursts \ Probed : CountedOf(b)

HInv == IInv /\ Once /\ History /\ Counted

-----------------------------------------------------------------------------
\* Sets of members are finite; all have reported when their number is the size.
LEMMA MemberSets ==
    ASSUME NEW S \in SUBSET Members
    PROVE  /\ IsFiniteSet(S) /\ Cardinality(S) \in Nat /\ Cardinality(S) <= BurstSize
           /\ Cardinality(S) = BurstSize <=> S = Members
<1>1. BurstSize \in Nat /\ BurstSize >= 2
  BY RaceAssumption
<1>2. IsFiniteSet(Members) /\ Cardinality(Members) = BurstSize
  BY <1>1, FS_Interval DEF Members
<1>3. /\ IsFiniteSet(S) /\ Cardinality(S) <= Cardinality(Members)
      /\ Cardinality(Members) = Cardinality(S) => Members = S
  BY <1>2, FS_Subset
<1>4. Cardinality(S) \in Nat
  BY <1>3, FS_CardinalityType
<1> QED
  BY <1>2, <1>3, <1>4

LEMMA OneMore ==
    ASSUME NEW S \in SUBSET Members, NEW m \in Members
    PROVE  Cardinality(S \cup {m}) = IF m \in S THEN Cardinality(S) ELSE Cardinality(S) + 1
BY MemberSets, FS_AddElement

-----------------------------------------------------------------------------
\* A result moves the counts of other bursts only by evicting them.
LEMMA OthersCounted ==
    ASSUME IInv, History, NEW it \in flight, NEW ok \in BOOLEAN, HandleResult(it, ok),
           NEW b \in Bursts, b # it.burst, CountedOf(b),
           reported'[b] = reported[b], succeeded'[b] = succeeded[b]
    PROVE  CountedOf(b)'
<1> DEFINE c == it.burst
           n == seen[c] + 1
           k == IF ok THEN success[c] + 1 ELSE success[c]
<1>1. /\ success \in [Bursts -> Nat] /\ seen \in [Bursts -> Nat]
      /\ success[b] <= seen[b] /\ c \in Bursts
  BY DEF IInv, Counts, Bookkeeping, Item
<1>2. RecordRaceBurstResult(c, ok)
  BY DEF HandleResult
<1>3. CASE c \in evaluated
  <2>1. UNCHANGED <<success, seen, evaluated, findings, lost>>
    BY <1>2, <1>3 DEF RecordRaceBurstResult, counts
  <2> QED
    BY <2>1 DEF CountedOf
<1>4. CASE c \notin evaluated /\ n < BurstSize
  <2>1. PICK kept \in SUBSET (Tracked \cup {c}) :
           /\ seen' = [x \in Bursts |-> IF x \notin kept THEN 0 ELSE IF x = c THEN n ELSE seen[x]]
           /\ success' = [x \in Bursts |->
                             IF x \notin kept THEN 0 ELSE IF x = c THEN k ELSE success[x]]
           /\ lost' = lost \cup ((Tracked \cup {c}) \ kept)
           /\ UNCHANGED <<evaluated, findings>>
    BY <1>2, <1>4 DEF RecordRaceBurstResult
  <2> HIDE DEF n, k
  <2>2. CASE b \in kept
    <3>1. seen'[b] = seen[b] /\ success'[b] = success[b] /\ (b \in lost' <=> b \in lost)
      BY <2>1, <2>2
    <3> QED
      BY <2>1, <3>1 DEF CountedOf
  <2>3. CASE b \notin kept /\ b \in Tracked
    <3>1. b \in lost' /\ success'[b] = 0
      BY <2>1, <2>3
    <3>2. success'[b] <= Cardinality(succeeded[b])
      BY <3>1, MemberSets DEF History
    <3> QED
      BY <2>1, <3>1, <3>2 DEF CountedOf
  <2>4. CASE b \notin kept /\ b \notin Tracked
    <3>1. seen[b] = 0 /\ success[b] = 0
      BY <1>1, <2>4 DEF Tracked
    <3>2. seen'[b] = seen[b] /\ success'[b] = success[b] /\ (b \in lost' <=> b \in lost)
      BY <2>1, <2>4, <3>1
    <3> QED
      BY <2>1, <3>2 DEF CountedOf
  <2> QED
    BY <2>2, <2>3, <2>4
<1>5. CASE c \notin evaluated /\ ~(n < BurstSize)
  <2>1. /\ evaluated' \subseteq evaluated \cup {c}
        /\ seen' = [seen EXCEPT ![c] = 0] /\ success' = [success EXCEPT ![c] = 0]
        /\ findings' \in {findings, findings \cup {c}}
        /\ lost' = lost
    BY <1>2, <1>5 DEF RecordRaceBurstResult
  <2>2. seen'[b] = seen[b] /\ success'[b] = success[b]
    BY <1>1, <2>1
  <2> QED
    BY <2>1, <2>2 DEF CountedOf
<1> QED
  BY <1>3, <1>4, <1>5

\* A result of an unprobed burst is a member that had not reported yet.
LEMMA OwnCounted ==
    ASSUME HInv, NEW it \in flight, NEW ok \in BOOLEAN, HandleResult(it, ok),
           NEW b, b = it.burst, b \notin Probed
    PROVE  CountedOf(b)'
<1> DEFINE m == it.member
           n == seen[b] + 1
           k == IF ok THEN success[b] + 1 ELSE success[b]
<1>1. b \in Bursts /\ m \in Members /\ it.probe \in BOOLEAN
  BY DEF HInv, IInv, Counts, Item
<1>2. ~it.probe /\ m \notin reported[b]
  BY DEF HInv, Once
<1>3. /\ success \in [Bursts -> Nat] /\ seen \in [Bursts -> Nat] /\ seen[b] < BurstSize
      /\ BurstSize \in Nat
  BY <1>1, RaceAssumption DEF HInv, IInv, Counts, Bookkeeping
<1>4. /\ reported[b] \in SUBSET Members /\ succeeded[b] \in SUBSET Members
      /\ succeeded[b] \subseteq reported[b]
  BY <1>1 DEF HInv, History
<1>5. /\ reported'[b] = reported[b] \cup {m}
      /\ succeeded'[b] = IF ok THEN succeeded[b] \cup {m} ELSE succeeded[b]
  BY <1>1, <1>2 DEF HandleResult, Note, HInv, History
<1>6. Cardinality(reported'[b]) = Cardinality(reported[b]) + 1
  BY <1>1, <1>2, <1>4, <1>5, OneMore
<1>7. /\ Cardinality(succeeded'[b]) =
           IF ok THEN Cardinality(succeeded[b]) + 1 ELSE Cardinality(succeeded[b])
      /\ Cardinality(succeeded[b]) \in Nat /\ Cardinality(reported[b]) \in Nat
  BY <1>1, <1>2, <1>4, <1>5, OneMore, MemberSets
<1>8. reported[b] # Members /\ (Cardinality(reported'[b]) = BurstSize <=> reported'[b] = Members)
  BY <1>1, <1>2, <1>4, <1>5, MemberSets
<1>9. CountedOf(b)
  BY <1>1 DEF HInv, Counted
<1>10. k <= Cardinality(succeeded'[b]) /\ n \in Nat /\ k \in Nat
  BY <1>1, <1>3, <1>7, <1>9 DEF CountedOf
<1>11. b \notin lost => n = Cardinality(reported'[b]) /\ k = Cardinality(succeeded'[b])
                        /\ b \notin evaluated
  BY <1>6, <1>7, <1>8, <1>9 DEF CountedOf
<1>12. b \in findings => Cardinality(succeeded'[b]) > 1
  BY <1>7, <1>9 DEF CountedOf
<1>13. RecordRaceBurstResult(b, ok)
  BY DEF HandleResult
<1>14. CASE b \in evaluated
  <2>1. UNCHANGED <<success, seen, evaluated, findings, lost>>
    BY <1>13, <1>14 DEF RecordRaceBurstResult, counts
  <2>2. success[b] <= Cardinality(succeeded'[b])
    BY <1>1, <1>3, <1>7, <1>9 DEF CountedOf
  <2> QED
    BY <1>11, <1>12, <1>14, <2>1, <2>2 DEF CountedOf
<1>15. CASE b \notin evaluated /\ n < BurstSize
  <2>1. PICK kept \in SUBSET (Tracked \cup {b}) :
           /\ seen' = [x \in Bursts |-> IF x \notin kept THEN 0 ELSE IF x = b THEN n ELSE seen[x]]
           /\ success' = [x \in Bursts |->
                             IF x \notin kept THEN 0 ELSE IF x = b THEN k ELSE success[x]]
           /\ lost' = lost \cup ((Tracked \cup {b}) \ kept)
           /\ UNCHANGED <<evaluated, findings>>
    BY <1>13, <1>15 DEF RecordRaceBurstResult
  <2>2. b \notin lost' => reported'[b] # Members
    <3>1. b \notin lost' => b \notin lost
      BY <2>1
    <3> QED
      BY <1>3, <1>8, <1>10, <1>11, <1>15, <3>1
  <2>3. CASE b \in kept
    <3>1. seen'[b] = n /\ success'[b] = k /\ (b \in lost' <=> b \in lost)
      BY <1>1, <2>1, <2>3
    <3> HIDE DEF n, k
    <3> QED
      BY <1>10, <1>11, <1>12, <1>15, <2>1, <2>2, <3>1 DEF CountedOf
  <2>4. CASE b \notin kept
    <3>1. success'[b] = 0 /\ b \in lost'
      BY <1>1, <2>1, <2>4
    <3> HIDE DEF n, k
    <3>2. success'[b] <= Cardinality(succeeded'[b])
      BY <1>7, <3>1
    <3> QED
      BY <1>12, <2>1, <3>1, <3>2 DEF CountedOf
  <2> QED
    BY <2>3, <2>4
<1>16. CASE b \notin evaluated /\ ~(n < BurstSize)
  <2>1. /\ seen' = [seen EXCEPT ![b] = 0] /\ success' = [success EXCEPT ![b] = 0]
        /\ findings' = IF k > 1 THEN findings \cup {b} ELSE findings
        /\ lost' = lost
    BY <1>13, <1>16 DEF RecordRaceBurstResult
  <2>2. success'[b] <= Cardinality(succeeded'[b])
    BY <1>1, <1>3, <1>7, <2>1
  <2>3. b \notin lost => reported'[b] = Members
    BY <1>1, <1>3, <1>8, <1>11, <1>16
  <2> HIDE DEF n, k
  <2>4. b \in findings' => Cardinality(succeeded'[b]) > 1
    BY <1>7, <1>10, <1>12, <2>1
  <2>5. b \notin lost' /\ Cardinality(succeeded'[b]) > 1 => b \in findings'
    BY <1>11, <2>1
  <2> QED
    BY <2>1, <2>2, <2>3, <2>4, <2>5 DEF CountedOf
<1> QED
  BY <1>14, <1>15, <1>16

-----------------------------------------------------------------------------
\* Queueing a burst leaves a suffix of the queue with its members behind.
LEMMA BurstIsSuffix ==
    ASSUME NEW b \in Bursts, raceQueue \in Seq(Item)
    PROVE  LET q == raceQueue \o [m \in Members |-> [burst |-> b, member |-> m, probe |-> FALSE]]
           IN \E d \in Nat : \A i \in DOMAIN WithBurst(b) :
                 i + d \in 1 .. Len(q) /\ WithBurst(b)[i] = q[i + d]
<1> DEFINE mem == [m \in Members |-> [burst |-> b, member |-> m, probe |-> FALSE]]
           q   == raceQueue \o mem
           d   == Len(q) - (IF Len(q) > RaceQueueMax THEN RaceQueueMax ELSE Len(q))
<1>1. mem \in Seq(Item)
  <2>1. \A m \in Members : [burst |-> b, member |-> m, probe |-> FALSE] \in Item
    BY DEF Item
  <2> QED
    BY <2>1, RaceAssumption, IsASeq DEF Members
<1>2. q \in Seq(Item) /\ Len(q) \in Nat /\ RaceQueueMax \in Nat
  BY <1>1, RaceAssumption
<1> HIDE DEF q
<1>3. d \in Nat /\ d <= Len(q)
  BY <1>2
<1>4. WithBurst(b) = SubSeq(q, d + 1, Len(q))
  BY DEF WithBurst, q
<1> HIDE DEF d
<1>5. \A i \in DOMAIN SubSeq(q, d + 1, Len(q)) :
         i + d \in 1 .. Len(q) /\ SubSeq(q, d + 1, Len(q))[i] = q[i + d]
  BY <1>2, <1>3
<1> QED
  BY <1>3, <1>4, <1>5 DEF q

\* A fresh burst brings new members.
LEMMA BurstOnce ==
    ASSUME IInv, Once, History, NEW b \in Bursts \ Started, raceQueue' = WithBurst(b),
           UNCHANGED <<flight, oracleQueue, reported>>
    PROVE  Once'
<1> DEFINE mem == [m \in Members |-> [burst |-> b, member |-> m, probe |-> FALSE]]
           q   == raceQueue \o mem
           len == Len(raceQueue)
<1>1. raceQueue \in Seq(Item) /\ len \in Nat /\ DOMAIN raceQueue = 1 .. len
  BY DEF IInv, Counts
<1>2. mem \in Seq(Item) /\ Len(mem) = BurstSize /\ BurstSize \in Nat
  <2>1. \A m \in Members : [burst |-> b, member |-> m, probe |-> FALSE] \in Item
    BY DEF Item
  <2> QED
    BY <2>1, RaceAssumption, IsASeq DEF Members
<1>3. Len(q) = len + BurstSize
  BY <1>1, <1>2
<1>4. \A j \in 1 .. Len(q) :
         /\ j <= len => q[j] = raceQueue[j] /\ j \in DOMAIN raceQueue
         /\ ~(j <= len) => j - len \in Members /\ q[j].burst = b
                            /\ q[j].member = j - len /\ q[j].probe = FALSE
  <2> TAKE j \in 1 .. Len(q)
  <2>1. CASE j <= len
    BY <1>1, <1>2, <1>3, <2>1
  <2>2. CASE ~(j <= len)
    <3>1. j - len \in Members
      BY <1>1, <1>2, <1>3, <2>2 DEF Members
    <3>2. q[j] = mem[j - len]
      BY <1>1, <1>2, <1>3, <2>2
    <3> QED
      BY <2>2, <3>1, <3>2
  <2> QED
    BY <2>1, <2>2
<1>5. /\ \A i \in 1 .. len : raceQueue[i].burst # b
      /\ \A it \in flight : it.burst # b
      /\ reported[b] = {}
  BY <1>1 DEF Started
<1>6. PICK d \in Nat : \A i \in DOMAIN WithBurst(b) :
         i + d \in 1 .. Len(q) /\ WithBurst(b)[i] = q[i + d]
  BY <1>1, BurstIsSuffix
<1> HIDE DEF mem, q
<1>7. \A j \in 1 .. Len(q) : /\ ~q[j].probe /\ q[j] \notin flight
                             /\ q[j].member \notin reported[q[j].burst]
  <2> TAKE j \in 1 .. Len(q)
  <2>1. CASE j <= len
    <3>1. j \in DOMAIN raceQueue /\ q[j] = raceQueue[j]
      BY <1>4, <2>1
    <3> QED
      BY <3>1 DEF Once
  <2>2. CASE ~(j <= len)
    BY <1>4, <1>5, <2>2
  <2> QED
    BY <2>1, <2>2
<1>8. \A i, j \in 1 .. Len(q) : q[i] = q[j] => i = j
  <2> SUFFICES ASSUME NEW i \in 1 .. Len(q), NEW j \in 1 .. Len(q), q[i] = q[j] PROVE i = j
    OBVIOUS
  <2>0. Len(q) \in Nat
    BY <1>1, <1>2, <1>3
  <2>1. CASE i <= len /\ j <= len
    <3>1. i \in DOMAIN raceQueue /\ j \in DOMAIN raceQueue /\ raceQueue[i] = raceQueue[j]
      BY <1>4, <2>1
    <3> QED
      BY <3>1 DEF Once
  <2>2. CASE i <= len /\ ~(j <= len)
    BY <1>1, <1>4, <1>5, <2>2
  <2>3. CASE ~(i <= len) /\ j <= len
    BY <1>1, <1>4, <1>5, <2>3
  <2>4. CASE ~(i <= len) /\ ~(j <= len)
    <3>1. q[i].member = i - len /\ q[j].member = j - len
      BY <1>4, <2>4
    <3> QED
      BY <1>1, <2>0, <3>1
  <2> QED
    BY <2>1, <2>2, <2>3, <2>4
<1>9. Len(WithBurst(b)) \in Nat /\ DOMAIN WithBurst(b) = 1 .. Len(WithBurst(b))
  <2>1. WithBurst(b) \in Seq(Item)
    BY <1>1, WithBurstType
  <2> QED
    BY <2>1
<1>10. \A i, j \in DOMAIN raceQueue' : raceQueue'[i] = raceQueue'[j] => i = j
  <2> SUFFICES ASSUME NEW i \in DOMAIN raceQueue', NEW j \in DOMAIN raceQueue',
                      raceQueue'[i] = raceQueue'[j]
               PROVE  i = j
    OBVIOUS
  <2>1. i + d = j + d
    BY <1>6, <1>8
  <2> QED
    BY <1>9, <2>1
<1>11. \A i \in DOMAIN raceQueue' :
          /\ ~raceQueue'[i].probe /\ raceQueue'[i] \notin flight'
          /\ raceQueue'[i].member \notin reported'[raceQueue'[i].burst]
  BY <1>6, <1>7
<1> QED
  BY <1>10, <1>11 DEF Once

-----------------------------------------------------------------------------
\* Sending moves a member or a probe from its queue into flight.
LEMMA SendOnce ==
    ASSUME IInv, Once, Send
    PROVE  Once'
<1>0. UNCHANGED reported
  BY DEF Send
<1>1. raceQueue \in Seq(Item) /\ oracleQueue \in Seq(Item)
  BY DEF IInv, Counts
<1>2. CASE /\ raceQueue # <<>> /\ raceQueue' = Tail(raceQueue)
           /\ flight' = flight \cup {Head(raceQueue)} /\ oracleQueue' = oracleQueue
  <2>1. /\ Len(raceQueue) \in Nat /\ 1 \in DOMAIN raceQueue /\ Head(raceQueue) = raceQueue[1]
        /\ \A i \in DOMAIN raceQueue' : i + 1 \in DOMAIN raceQueue /\ i + 1 # 1 /\ i \in Nat
                                        /\ raceQueue'[i] = raceQueue[i + 1]
    BY <1>1, <1>2
  <2>2. \A i \in DOMAIN raceQueue' : raceQueue'[i] # Head(raceQueue)
    BY <2>1 DEF Once
  <2>3. \A i, j \in DOMAIN raceQueue' : raceQueue'[i] = raceQueue'[j] => i = j
    <3> SUFFICES ASSUME NEW i \in DOMAIN raceQueue', NEW j \in DOMAIN raceQueue',
                        raceQueue'[i] = raceQueue'[j]
                 PROVE  i = j
      OBVIOUS
    <3>1. i + 1 = j + 1
      BY <2>1 DEF Once
    <3> QED
      BY <2>1, <3>1
  <2>4. \A i \in DOMAIN raceQueue' :
          /\ ~raceQueue'[i].probe /\ raceQueue'[i] \notin flight'
          /\ raceQueue'[i].member \notin reported'[raceQueue'[i].burst]
    BY <1>0, <1>2, <2>1, <2>2 DEF Once
  <2>5. \A it \in flight' : IF it.probe THEN it.burst \in Probed
                            ELSE it.member \notin reported'[it.burst]
    BY <1>0, <1>2, <2>1 DEF Once
  <2> QED
    BY <1>2, <2>3, <2>4, <2>5 DEF Once
<1>3. CASE /\ oracleQueue # <<>> /\ oracleQueue' = Tail(oracleQueue)
           /\ flight' = flight \cup {Head(oracleQueue)} /\ raceQueue' = <<>>
  <2>1. /\ 1 \in DOMAIN oracleQueue /\ Head(oracleQueue) = oracleQueue[1]
        /\ \A i \in DOMAIN oracleQueue' : i + 1 \in DOMAIN oracleQueue
                                          /\ oracleQueue'[i] = oracleQueue[i + 1]
    BY <1>1, <1>3
  <2> QED
    BY <1>0, <1>3, <2>1 DEF Once
<1> QED
  BY <1>2, <1>3 DEF Send

\* A result takes its item out of flight; a probe of it is one of a probed burst.
LEMMA HandleOnce ==
    ASSUME IInv, Once, History, NEW it \in flight, NEW ok \in BOOLEAN, HandleResult(it, ok)
    PROVE  Once' /\ History'
<1>1. it \in Item /\ it.burst \in Bursts /\ it.member \in Members /\ it.probe \in BOOLEAN
       /\ flight \subseteq Item /\ raceQueue \in Seq(Item) /\ oracleQueue \in Seq(Item)
  BY DEF IInv, Counts, Item
<1>2. raceQueue' = raceQueue /\ flight' = flight \ {it}
  BY DEF HandleResult
<1>3. \A other \in Item : other # it /\ ~other.probe /\ other.member \notin reported[other.burst]
          => other.member \notin reported'[other.burst]
  <2>1. CASE it.probe
    BY <2>1 DEF HandleResult, Note
  <2>2. CASE ~it.probe
    <3>1. reported' = [reported EXCEPT ![it.burst] = @ \cup {it.member}]
      BY <2>2 DEF HandleResult, Note
    <3>2. \A other \in Item : other.burst = it.burst /\ other.member = it.member
              /\ ~other.probe => other = it
      BY <1>1, <2>2 DEF Item
    <3> QED
      BY <1>1, <3>1, <3>2 DEF History, Item
  <2> QED
    BY <2>1, <2>2
<1>4. \A i \in DOMAIN raceQueue' :
          /\ ~raceQueue'[i].probe /\ raceQueue'[i] \notin flight'
          /\ raceQueue'[i].member \notin reported'[raceQueue'[i].burst]
  <2> TAKE i \in DOMAIN raceQueue'
  <2>1. raceQueue[i] \in Item /\ i \in DOMAIN raceQueue
    BY <1>1, <1>2
  <2>2. raceQueue[i] # it
    BY <2>1 DEF Once
  <2> QED
    BY <1>2, <1>3, <2>1, <2>2 DEF Once
<1>5. \A other \in flight' : IF other.probe THEN other.burst \in Probed
                             ELSE other.member \notin reported'[other.burst]
  BY <1>1, <1>2, <1>3 DEF Once
<1>6. \A i \in DOMAIN oracleQueue' : oracleQueue'[i].probe /\ oracleQueue'[i].burst \in Probed
  <2> DEFINE p == [it EXCEPT !.probe = TRUE]
  <2>1. oracleQueue' = oracleQueue
          \/ (it.burst \in Probed /\ oracleQueue' = Push(oracleQueue, ProbeQueueMax, p))
    BY Zenon DEF HandleResult
  <2>2. it.burst \in Probed => p.probe /\ p.burst \in Probed /\ p \in Item
    BY <1>1 DEF Item
  <2> HIDE DEF p
  <2>3. ASSUME it.burst \in Probed, oracleQueue' = Push(oracleQueue, ProbeQueueMax, p)
        PROVE  \A i \in DOMAIN oracleQueue' : oracleQueue'[i].probe /\ oracleQueue'[i].burst \in Probed
    <3> DEFINE S == {x \in Item : x.probe /\ x.burst \in Probed}
    <3>1. oracleQueue \in Seq(S)
      BY <1>1 DEF Once
    <3>2. p \in S
      BY <2>2, <2>3
    <3>3. oracleQueue' \in Seq(S)
      <4>1. CASE Len(oracleQueue) >= ProbeQueueMax
        <5>1. oracleQueue # <<>>
          BY <4>1, RaceAssumption
        <5> HIDE DEF S
        <5> QED
          BY <2>3, <3>1, <3>2, <4>1, <5>1 DEF Push
      <4>2. CASE ~(Len(oracleQueue) >= ProbeQueueMax)
        <5> HIDE DEF S
        <5> QED
          BY <2>3, <3>1, <3>2, <4>2 DEF Push
      <4> QED
        BY <4>1, <4>2
    <3> QED
      BY <3>3
  <2> QED
    BY <2>1, <2>3 DEF Once
<1>7. \A i, j \in DOMAIN raceQueue' : raceQueue'[i] = raceQueue'[j] => i = j
  BY <1>2 DEF Once
<1>8. Once'
  BY <1>4, <1>5, <1>6, <1>7 DEF Once
<1>9. findings' \subseteq Bursts
  <2>1. RecordRaceBurstResult(it.burst, ok)
    BY DEF HandleResult
  <2>2. findings' \subseteq findings \cup {it.burst}
    BY <2>1 DEF RecordRaceBurstResult, counts
  <2> QED
    BY <1>1, <2>2 DEF History
<1>10. History'
  <2>1. CASE it.probe
    BY <1>9, <2>1 DEF HandleResult, Note, History
  <2>2. CASE ~it.probe
    <3>1. /\ reported' = [reported EXCEPT ![it.burst] = @ \cup {it.member}]
          /\ succeeded' \in {succeeded, [succeeded EXCEPT ![it.burst] = @ \cup {it.member}]}
      BY <2>2, Zenon DEF HandleResult, Note
    <3>2. /\ reported' \in [Bursts -> SUBSET Members]
          /\ succeeded' \in [Bursts -> SUBSET Members]
      BY <1>1, <3>1 DEF History
    <3>3. \A b \in Bursts : succeeded'[b] \subseteq reported'[b]
      BY <1>1, <3>1 DEF History
    <3> QED
      BY <1>9, <3>2, <3>3 DEF History
  <2> QED
    BY <2>1, <2>2
<1> QED
  BY <1>8, <1>10

-----------------------------------------------------------------------------
LEMMA InitHInv == Init => HInv
<1> SUFFICES ASSUME Init PROVE HInv
  OBVIOUS
<1>1. IInv
  BY InitIInv
<1>2. Once /\ History
  BY DEF Init, Once, History
<1>3. Counted
  <2>1. Cardinality({}) = 0
    BY FS_EmptySet
  <2> QED
    BY <2>1 DEF Init, Counted, CountedOf
<1> QED
  BY <1>1, <1>2, <1>3 DEF HInv

LEMMA NextHInv == HInv /\ [Next]_vars => HInv'
<1> SUFFICES ASSUME HInv, [Next]_vars PROVE HInv'
  OBVIOUS
<1>0. IInv /\ Once /\ History /\ Counted
  BY DEF HInv
<1>1. IInv'
  BY <1>0, NextIInv
<1>2. ASSUME UNCHANGED <<counts, reported, succeeded>>, lost \subseteq lost'
      PROVE  History' /\ Counted'
  BY <1>0, <1>2 DEF History, Counted, CountedOf, counts
<1>3. CASE OtherWriteSucceeds
  <2>0. UNCHANGED <<counts, reported, succeeded, flight, oracleQueue>>
    BY <1>3 DEF OtherWriteSucceeds
  <2>1. CASE UNCHANGED <<raceQueue, lost>>
    <3>1. Once'
      BY <1>0, <2>0, <2>1 DEF Once
    <3> QED
      BY <1>1, <1>2, <2>0, <2>1, <3>1 DEF HInv
  <2>2. CASE ~UNCHANGED <<raceQueue, lost>>
    <3>1. PICK b \in Bursts \ Started : raceQueue' = WithBurst(b) /\ lost \subseteq lost'
      BY <1>3, <2>2 DEF OtherWriteSucceeds, MaybeEnqueueBurst
    <3>2. Once'
      BY <1>0, <2>0, <3>1, BurstOnce
    <3> QED
      BY <1>1, <1>2, <2>0, <3>1, <3>2 DEF HInv
  <2> QED
    BY <2>1, <2>2
<1>4. CASE Send
  <2>1. UNCHANGED <<counts, reported, succeeded>> /\ lost \subseteq lost'
    BY <1>4 DEF Send
  <2> QED
    BY <1>0, <1>1, <1>2, <1>4, <2>1, SendOnce DEF HInv
<1>5. CASE BlockEndpoint
  <2>1. UNCHANGED <<queues, flight, counts, history>>
    BY <1>5 DEF BlockEndpoint
  <2>2. Once'
    BY <1>0, <2>1 DEF queues, history, Once
  <2> QED
    BY <1>1, <1>2, <2>1, <2>2 DEF HInv, history
<1>6. CASE OtherWork
  <2>1. /\ raceQueue' = <<>> /\ lost \subseteq lost'
        /\ UNCHANGED <<oracleQueue, flight, counts, reported, succeeded>>
    BY <1>6 DEF OtherWork
  <2>2. Once'
    BY <1>0, <2>1 DEF Once
  <2> QED
    BY <1>1, <1>2, <2>1, <2>2 DEF HInv
<1>7. ASSUME NEW it \in flight, NEW ok \in BOOLEAN, HandleResult(it, ok)
      PROVE  HInv'
  <2>1. Once' /\ History'
    BY <1>0, <1>7, HandleOnce
  <2>2. ASSUME NEW b \in Bursts \ Probed PROVE CountedOf(b)'
    <3>1. CASE b = it.burst
      BY <1>7, <3>1, OwnCounted
    <3>2. CASE b # it.burst
      <4>1. reported'[b] = reported[b] /\ succeeded'[b] = succeeded[b]
        BY <1>0, <1>7, <3>2 DEF HandleResult, Note, History
      <4>2. CountedOf(b)
        BY <1>0 DEF Counted
      <4> QED
        BY <1>0, <1>7, <3>2, <4>1, <4>2, OthersCounted
    <3> QED
      BY <3>1, <3>2
  <2> QED
    BY <1>1, <2>1, <2>2 DEF HInv, Counted
<1>8. CASE UNCHANGED vars
  <2>1. Once' /\ lost' = lost /\ UNCHANGED <<counts, reported, succeeded>>
    BY <1>0, <1>8 DEF vars, queues, history, Once
  <2> QED
    BY <1>1, <1>2, <2>1 DEF HInv
<1> QED
  BY <1>3, <1>4, <1>5, <1>6, <1>7, <1>8 DEF Next

LEMMA HInvHolds == Spec => []HInv
  BY InitHInv, NextHInv, PTL DEF Spec

\* However members are dropped, counts evicted, marks forgotten and bursts mixed, a
\* race recorded of a burst that nobody probed had two successes
\* (recordRaceBurstResult).
THEOREM UnprobedFindingIsRealHolds == Spec => []UnprobedFindingIsReal
<1>1. HInv => UnprobedFindingIsReal
  <2> SUFFICES ASSUME HInv, NEW b \in findings \ Probed PROVE Cardinality(succeeded[b]) > 1
    BY DEF UnprobedFindingIsReal
  <2>1. b \in Bursts
    BY DEF HInv, History
  <2> QED
    BY <2>1 DEF HInv, Counted, CountedOf
<1> QED
  BY <1>1, HInvHolds, PTL

\* An unprobed burst of which nothing was lost is recorded once its last member has
\* reported, whatever else was tracked or evicted meanwhile (recordRaceBurstResult).
THEOREM RaceRecordedHolds == Spec => []RaceRecorded
<1>1. HInv => RaceRecorded
  BY DEF HInv, Counted, CountedOf, RaceRecorded
<1> QED
  BY <1>1, HInvHolds, PTL
=============================================================================
