--------------------------- MODULE Epochs_proofs ---------------------------
(* Proofs about Epochs, for any fractions and any bounds.                  *)
EXTENDS Epochs, TLAPS

\* The epoch that runs has begun: no later step moves its beginning past the
\* present, because only the end of a finished epoch moves, and only backwards.
Begun == last > 0 => now >= End(fraction, last - 1)

IInv == TypeOK /\ BudgetKept /\ Begun

-----------------------------------------------------------------------------
\* currentEpoch finds an epoch that has begun.
LEMMA EpochAtBegun ==
    ASSUME NEW f \in [Epoch -> Nat], NEW t \in Nat
    PROVE  /\ EpochAt(f, t) \in Epoch
           /\ \A j \in 1 .. EpochAt(f, t) - 1 : t >= End(f, j)
           /\ EpochAt(f, t) # 5 => t < End(f, EpochAt(f, t))
<1> DEFINE P(k) == (k = 5 \/ t < End(f, k)) /\ \A j \in 1 .. k - 1 : t >= End(f, j)
<1>1. \A k \in 1 .. 5 : End(f, k) \in Nat
  BY DEF End, Epoch
<1>2. \E k \in Epoch : P(k)
  <2> HIDE DEF P
  <2>1. CASE t < End(f, 1)
    <3>1. P(1)
      BY <2>1 DEF P
    <3> QED
      BY <3>1 DEF Epoch
  <2>2. CASE t >= End(f, 1) /\ t < End(f, 2)
    <3>1. P(2)
      BY <2>2 DEF P
    <3> QED
      BY <3>1 DEF Epoch
  <2>3. CASE t >= End(f, 1) /\ t >= End(f, 2) /\ t < End(f, 3)
    <3>1. \A j \in 1 .. 3 - 1 : j = 1 \/ j = 2
      OBVIOUS
    <3>2. P(3)
      BY <2>3, <3>1 DEF P
    <3> QED
      BY <3>2 DEF Epoch
  <2>4. CASE t >= End(f, 1) /\ t >= End(f, 2) /\ t >= End(f, 3) /\ t < End(f, 4)
    <3>1. \A j \in 1 .. 4 - 1 : j = 1 \/ j = 2 \/ j = 3
      OBVIOUS
    <3>2. P(4)
      BY <2>4, <3>1 DEF P
    <3> QED
      BY <3>2 DEF Epoch
  <2>5. CASE t >= End(f, 1) /\ t >= End(f, 2) /\ t >= End(f, 3) /\ t >= End(f, 4)
    <3>1. \A j \in 1 .. 5 - 1 : j = 1 \/ j = 2 \/ j = 3 \/ j = 4
      OBVIOUS
    <3>2. P(5)
      BY <2>5, <3>1 DEF P
    <3> QED
      BY <3>2 DEF Epoch
  <2> QED
    BY <1>1, <2>1, <2>2, <2>3, <2>4, <2>5
<1>3. EpochAt(f, t) \in Epoch /\ P(EpochAt(f, t))
  <2> HIDE DEF P
  <2>1. EpochAt(f, t) = CHOOSE k \in Epoch : P(k)
    BY DEF EpochAt, P
  <2> QED
    BY <1>2, <2>1
<1> QED
  BY <1>3

\* The fractions after x of epoch e's are moved to Havoc.
Moved(f, e, x) == [f EXCEPT ![e] = @ - x, ![Havoc] = @ + x]

\* Moving part of epoch e's fraction to Havoc keeps the end of Havoc and of the
\* run, and moves no end forwards.
LEMMA RebalanceMoves ==
    ASSUME NEW f \in [Epoch -> Nat], NEW e \in {2, 3, 5}, NEW x \in Nat, x <= f[e]
    PROVE  /\ Moved(f, e, x) \in [Epoch -> Nat]
           /\ \A k \in 0 .. 4 : e # 5 => End(Moved(f, e, x), k) <= End(f, k)
           /\ End(Moved(f, e, x), 5) = End(f, 5)
           /\ e # 5 => End(Moved(f, e, x), 4) = End(f, 4)
<1> DEFINE g == Moved(f, e, x)
<1>0. g = [f EXCEPT ![e] = @ - x, ![Havoc] = @ + x]
  BY DEF Moved
<1> HIDE DEF g
<1> SUFFICES /\ g \in [Epoch -> Nat]
             /\ \A k \in 0 .. 4 : e # 5 => End(g, k) <= End(f, k)
             /\ End(g, 5) = End(f, 5)
             /\ e # 5 => End(g, 4) = End(f, 4)
  BY DEF g
<1>1. \A k \in Epoch : f[k] \in Nat
  OBVIOUS
<1>2. f[1] \in Nat /\ f[2] \in Nat /\ f[3] \in Nat /\ f[4] \in Nat /\ f[5] \in Nat
  BY <1>1 DEF Epoch
<1>3. g \in [Epoch -> Nat]
  BY <1>0, <1>1 DEF Epoch, Havoc
<1>4. \A k \in 0 .. 4 : k = 0 \/ k = 1 \/ k = 2 \/ k = 3 \/ k = 4
  OBVIOUS
<1>5. CASE e = 2
  <2>1. g[1] = f[1] /\ g[2] = f[2] - x /\ g[3] = f[3] /\ g[4] = f[4] + x /\ g[5] = f[5]
    BY <1>0, <1>5 DEF Epoch, Havoc
  <2> QED
    BY <1>2, <1>3, <1>4, <1>5, <2>1 DEF End
<1>6. CASE e = 3
  <2>1. g[1] = f[1] /\ g[2] = f[2] /\ g[3] = f[3] - x /\ g[4] = f[4] + x /\ g[5] = f[5]
    BY <1>0, <1>6 DEF Epoch, Havoc
  <2> QED
    BY <1>2, <1>3, <1>4, <1>6, <2>1 DEF End
<1>7. CASE e = 5
  <2>1. g[1] = f[1] /\ g[2] = f[2] /\ g[3] = f[3] /\ g[4] = f[4] + x /\ g[5] = f[5] - x
    BY <1>0, <1>7 DEF Epoch, Havoc
  <2> QED
    BY <1>2, <1>3, <1>4, <1>7, <2>1 DEF End
<1> QED
  BY <1>5, <1>6, <1>7

-----------------------------------------------------------------------------
LEMMA TotalNat == Total \in Nat
<1>1. \A k \in Epoch : Fraction[k] \in Nat
  BY EpochsAssumption
<1>2. /\ Fraction[1] \in Nat /\ Fraction[2] \in Nat /\ Fraction[3] \in Nat
      /\ Fraction[4] \in Nat /\ Fraction[5] \in Nat
  BY <1>1 DEF Epoch
<1> QED
  BY <1>2 DEF Total, End

LEMMA InitIInv == Init => IInv
<1> SUFFICES ASSUME Init PROVE IInv
  OBVIOUS
<1>1. TypeOK
  BY TotalNat, EpochsAssumption DEF Init, TypeOK
<1>2. BudgetKept
  BY DEF Init, BudgetKept, Total
<1>3. Begun
  BY DEF Init, Begun
<1> QED
  BY <1>1, <1>2, <1>3 DEF IInv

\* The epoch found at any time is the running one or a later one.
LEMMA NoEarlierEpoch ==
    ASSUME IInv
    PROVE  EpochAt(fraction, now) >= last
<1>1. fraction \in [Epoch -> Nat] /\ now \in Nat /\ last \in Epoch \cup {0}
  BY TotalNat DEF IInv, TypeOK
<1>2. /\ EpochAt(fraction, now) \in Epoch
      /\ EpochAt(fraction, now) # 5 => now < End(fraction, EpochAt(fraction, now))
  BY <1>1, EpochAtBegun
<1>3. \A k \in Epoch : fraction[k] \in Nat
  BY <1>1
<1>4. /\ fraction[1] \in Nat /\ fraction[2] \in Nat /\ fraction[3] \in Nat
      /\ fraction[4] \in Nat /\ fraction[5] \in Nat
  BY <1>3 DEF Epoch
<1>5. \A j, k \in 0 .. 5 : j <= k => End(fraction, j) <= End(fraction, k)
  BY <1>4 DEF End
<1> DEFINE e == EpochAt(fraction, now)
<1>6. ASSUME e < last PROVE FALSE
  <2> HIDE DEF e
  <2>1. e \in Epoch /\ last \in Epoch /\ e <= last - 1 /\ e # 5
    BY <1>1, <1>2, <1>6 DEF e, Epoch
  <2>2. End(fraction, e) <= End(fraction, last - 1)
    BY <1>5, <2>1 DEF Epoch
  <2>3. now >= End(fraction, last - 1)
    BY <2>1 DEF IInv, Begun, Epoch
  <2>4. now < End(fraction, e)
    BY <1>2, <2>1 DEF e
  <2>5. End(fraction, e) \in Int /\ End(fraction, last - 1) \in Int
    <3>1. \A k \in 0 .. 5 : End(fraction, k) \in Int
      BY <1>4 DEF End
    <3>2. e \in 0 .. 5 /\ last - 1 \in 0 .. 5
      BY <2>1 DEF Epoch
    <3> QED
      BY <3>1, <3>2
  <2> QED
    BY <1>1, <2>2, <2>3, <2>4, <2>5
<1>7. e \in Int /\ last \in Int
  BY <1>1, <1>2 DEF Epoch
<1> HIDE DEF e
<1>8. e >= last
  BY <1>6, <1>7
<1> QED
  BY <1>8 DEF e

LEMMA EnterEpochKeeps ==
    ASSUME IInv, EnterEpoch
    PROVE  IInv' /\ last' >= last
<1>1. /\ fraction \in [Epoch -> Nat] /\ now \in Nat /\ last \in Epoch \cup {0}
      /\ now \in 0 .. Total
  BY TotalNat DEF IInv, TypeOK
<1>2. /\ last' \in Epoch
      /\ \A j \in 1 .. last' - 1 : now >= End(fraction, j)
  BY <1>1, EpochAtBegun DEF EnterEpoch
<1>3. last' >= last /\ last' # last
  BY NoEarlierEpoch DEF EnterEpoch
<1>4. last # 5
  BY <1>1, <1>2, <1>3 DEF Epoch
<1>5. /\ fraction' \in [Epoch -> Nat]
      /\ \A k \in 0 .. 4 : End(fraction', k) <= End(fraction, k)
      /\ End(fraction', 5) = End(fraction, 5)
      /\ End(fraction', 4) = End(fraction, 4)
  <2>1. CASE fraction' = fraction
    <3>1. \A k \in Epoch : fraction[k] \in Nat
      BY <1>1
    <3>2. /\ fraction[1] \in Nat /\ fraction[2] \in Nat /\ fraction[3] \in Nat
          /\ fraction[4] \in Nat /\ fraction[5] \in Nat
      BY <3>1 DEF Epoch
    <3>3. \A k \in 0 .. 4 : End(fraction, k) <= End(fraction, k)
      BY <3>2 DEF End
    <3> QED
      BY <1>1, <2>1, <3>3
  <2>2. CASE fraction' # fraction
    <3>1. /\ last # 0 /\ last # Baseline /\ last # Havoc
          /\ fraction' = [fraction EXCEPT ![last] = @ - Stolen, ![Havoc] = @ + Stolen]
      BY <2>2 DEF EnterEpoch, Rebalance
    <3>2. last \in {2, 3}
      BY <1>1, <1>4, <3>1 DEF Epoch, Baseline, Havoc
    <3>3. fraction[last] \in Nat
      BY <1>1, <3>2 DEF Epoch
    <3>4. Stolen \in Nat /\ Stolen <= fraction[last]
      BY <3>3 DEF Stolen
    <3> HIDE DEF Stolen
    <3>5. /\ fraction' \in [Epoch -> Nat]
          /\ \A k \in 0 .. 4 : last # 5 => End(fraction', k) <= End(fraction, k)
          /\ End(fraction', 5) = End(fraction, 5)
          /\ last # 5 => End(fraction', 4) = End(fraction, 4)
      <4>1. last \in {2, 3, 5}
        BY <3>2
      <4>2. /\ fraction \in [Epoch -> Nat]
            /\ Stolen \in Nat /\ Stolen <= fraction[last]
            /\ fraction' = Moved(fraction, last, Stolen)
        BY <1>1, <3>1, <3>4 DEF Moved
      <4> QED
        BY ONLY <4>1, <4>2, RebalanceMoves
    <3> QED
      BY <1>4, <3>5
  <2> QED
    BY <2>1, <2>2
<1>6. TypeOK'
  <2>1. ceiling' \in Nat
    BY DEF IInv, TypeOK, EnterEpoch
  <2> QED
    BY <1>2, <1>5, <2>1 DEF IInv, TypeOK, EnterEpoch
<1>7. BudgetKept'
  BY <1>5 DEF IInv, BudgetKept, Total
<1>8. Begun'
  <2>1. last' - 1 \in 0 .. 4 /\ now' = now
    BY <1>2 DEF Epoch, EnterEpoch
  <2>2. End(fraction', last' - 1) <= End(fraction, last' - 1)
    BY <1>5, <2>1
  <2>3. now >= End(fraction, last' - 1)
    <3>1. CASE last' - 1 = 0
      BY <1>1, <3>1 DEF End
    <3>2. CASE last' - 1 # 0
      BY <1>2, <2>1, <3>2
    <3> QED
      BY <3>1, <3>2
  <2>4. \A k \in 0 .. 4 : End(fraction, k) \in Int /\ End(fraction', k) \in Int
    <3>1. \A k \in Epoch : fraction[k] \in Nat /\ fraction'[k] \in Nat
      BY <1>1, <1>5
    <3>2. /\ fraction[1] \in Nat /\ fraction[2] \in Nat /\ fraction[3] \in Nat
          /\ fraction[4] \in Nat /\ fraction[5] \in Nat
          /\ fraction'[1] \in Nat /\ fraction'[2] \in Nat /\ fraction'[3] \in Nat
          /\ fraction'[4] \in Nat /\ fraction'[5] \in Nat
      BY <3>1 DEF Epoch
    <3> QED
      BY <3>2 DEF End
  <2>5. now >= End(fraction', last' - 1)
    <3>1. End(fraction, last' - 1) \in Int /\ End(fraction', last' - 1) \in Int
      BY <2>1, <2>4
    <3> QED
      BY <1>1, <2>2, <2>3, <3>1
  <2> QED
    BY <2>1, <2>5 DEF Begun
<1> QED
  BY <1>3, <1>6, <1>7, <1>8 DEF IInv

LEMMA NextIInv == IInv /\ [Next]_vars => IInv' /\ last' >= last
<1> SUFFICES ASSUME IInv, [Next]_vars PROVE IInv' /\ last' >= last
  OBVIOUS
<1>0. last \in Int
  BY DEF IInv, TypeOK, Epoch
<1>1. CASE EnterEpoch
  BY <1>1, EnterEpochKeeps
<1>2. CASE Tick
  <2>1. now' \in 0 .. Total /\ now' >= now /\ now \in Nat
    BY <1>2, TotalNat DEF Tick, IInv, TypeOK
  <2>2. TypeOK'
    BY <1>2, <2>1 DEF Tick, IInv, TypeOK, schedule
  <2>3. BudgetKept'
    BY <1>2 DEF Tick, IInv, BudgetKept, schedule, Total
  <2>4. Begun'
    <3>1. last > 0 => End(fraction, last - 1) \in Int
      <4>1. \A k \in Epoch : fraction[k] \in Nat
        BY DEF IInv, TypeOK
      <4>2. /\ fraction[1] \in Nat /\ fraction[2] \in Nat /\ fraction[3] \in Nat
            /\ fraction[4] \in Nat /\ fraction[5] \in Nat
        BY <4>1 DEF Epoch
      <4> QED
        BY <4>2 DEF End
    <3>2. last' = last /\ fraction' = fraction
      BY <1>2 DEF Tick, schedule
    <3> QED
      BY <2>1, <3>1, <3>2 DEF IInv, Begun
  <2> QED
    BY <1>0, <1>2, <2>2, <2>3, <2>4 DEF IInv, Tick, schedule
<1>3. CASE \E edge \in 0 .. 1 : Result(edge)
  BY <1>0, <1>3 DEF Result, IInv, TypeOK, BudgetKept, Begun, schedule, Total
<1>4. CASE ResetCoverage
  BY <1>0, <1>4 DEF ResetCoverage, IInv, TypeOK, BudgetKept, Begun, schedule, Total
<1>5. CASE UNCHANGED vars
  BY <1>0, <1>5 DEF vars, IInv, TypeOK, BudgetKept, Begun, schedule, Total
<1> QED
  BY <1>1, <1>2, <1>3, <1>4, <1>5 DEF Next

\* The inductive invariant holds in every reachable state.
THEOREM Invariance == Spec => []IInv
<1>1. IInv /\ [Next]_vars => IInv'
  BY NextIInv
<1> QED
  BY InitIInv, <1>1, PTL DEF Spec

\* Type correctness of the schedule, for any fractions.
THEOREM TypeCorrect == Spec => []TypeOK
<1>1. IInv => TypeOK
  BY DEF IInv
<1> QED
  BY Invariance, <1>1, PTL

\* Moving time to Havoc never changes the length of the run nor what is left for
\* Splicing at its end (the rebalancing at the head of mainLoop).
THEOREM BudgetKeptHolds == Spec => []BudgetKept
<1>1. IInv => BudgetKept
  BY DEF IInv
<1> QED
  BY Invariance, <1>1, PTL

\* mainLoop never goes back to an epoch it has left, although the ends of the
\* epochs move while it runs and however long an iteration takes.
THEOREM EpochsAdvanceHolds == Spec => EpochsAdvance
<1>1. IInv /\ [Next]_vars => [last' >= last]_vars
  BY NextIInv
<1> QED
  BY Invariance, <1>1, PTL DEF Spec, EpochsAdvance
=============================================================================
