------------------------------- MODULE Epochs -------------------------------
(***************************************************************************)
(* The schedule of the epochs in mainLoop (engine/worker.go): the time     *)
(* budget is cut into five epochs by fractions; whenever one ends, 30% of  *)
(* its fraction goes to Havoc if it found too few edges; the coverage      *)
(* bitmap is reset when it looks saturated.                                *)
(*                                                                         *)
(* Time is counted in units in which the fractions, and what is stolen     *)
(* from them, are whole.  A result that finds edges finds one.             *)
(***************************************************************************)
EXTENDS Integers

CONSTANTS
    Fraction,   \* the initial fractions, in units of time
    Sample,     \* an epoch is judged after more requests than this (200)
    PerEdge,    \* requests per edge of an unproductive epoch (1000)
    Capacity,   \* coverageCapacity
    ResultBound \* bound of the model: results of one run

\* The epochs by number: Baseline, Harvest, Deterministic, Havoc, Splicing.
Epoch    == 1 .. 5
Baseline == 1
Havoc    == 4

ASSUME EpochsAssumption ==
    /\ Fraction \in [Epoch -> Nat]
    /\ {Sample, PerEdge, Capacity, ResultBound} \subseteq Nat

VARIABLES
    now,         \* the time since startTime
    fraction,    \* epochs[i].Fraction
    last,        \* lastEpoch, 0 before the first
    edges,       \* currentEdges
    done,        \* totalDone
    edgesAtStart, doneAtStart, \* of the current epoch; older entries are never read
    ceiling      \* baselineEdgesCeiling

schedule == <<fraction, last, edgesAtStart, doneAtStart, ceiling>>
vars     == <<now, schedule, edges, done>>

\* When epoch k ends: the sum of the fractions up to its own.
End(f, k) ==
    (IF k >= 1 THEN f[1] ELSE 0) + (IF k >= 2 THEN f[2] ELSE 0) + (IF k >= 3 THEN f[3] ELSE 0)
        + (IF k >= 4 THEN f[4] ELSE 0) + (IF k >= 5 THEN f[5] ELSE 0)

Total == End(Fraction, 5)

\* currentEpoch: the first epoch that has not ended, or the last.
EpochAt(f, t) ==
    CHOOSE k \in Epoch : /\ k = 5 \/ t < End(f, k)
                         /\ \A j \in 1 .. k - 1 : t >= End(f, j)

Init ==
    /\ now = 0 /\ fraction = Fraction /\ last = 0
    /\ edges \in 0 .. 1            \* what the warm-up probes found
    /\ done = 0
    /\ edgesAtStart = 0 /\ doneAtStart = 0 /\ ceiling = 0

-----------------------------------------------------------------------------
\* edgeRate < 0.001 over more than 200 requests
Unproductive ==
    /\ done - doneAtStart > Sample
    /\ (edges - edgesAtStart) * PerEdge < done - doneAtStart

Stolen == (3 * fraction[last]) \div 10

\* Mutant of Rebalance: what is stolen is given to the epoch that has ended.
RebalanceSwapped ==
    fraction' = IF Unproductive /\ last # Baseline /\ last # Havoc
                THEN [fraction EXCEPT ![last] = @ + Stolen, ![Havoc] = @ - Stolen]
                ELSE fraction

\* Mutant of Rebalance: what is stolen is given to nobody.
RebalanceLost ==
    fraction' = IF Unproductive /\ last # Baseline
                THEN [fraction EXCEPT ![last] = @ - Stolen]
                ELSE fraction

\* The epoch that ends pays, unless it is Baseline or Havoc itself.
Rebalance ==
    fraction' = IF Unproductive /\ last # Baseline /\ last # Havoc
                THEN [fraction EXCEPT ![last] = @ - Stolen, ![Havoc] = @ + Stolen]
                ELSE fraction

\* The head of an iteration that finds another epoch than the one before.
EnterEpoch ==
    /\ now < Total
    /\ EpochAt(fraction, now) # last
    /\ IF last = 0 THEN fraction' = fraction ELSE Rebalance
    /\ last' = EpochAt(fraction, now)
    /\ edgesAtStart' = edges /\ doneAtStart' = done
    /\ ceiling' = IF last = Baseline /\ ceiling = 0 THEN edges ELSE ceiling
    /\ UNCHANGED <<now, edges, done>>

\* Time passes: a little, or a lot while the main loop triages a crash.
Tick ==
    /\ now < Total
    /\ now' \in now + 1 .. Total
    /\ UNCHANGED <<schedule, edges, done>>

\* handleResult counts a result and the edge it may have found.
Result(edge) ==
    /\ last # 0 /\ done < ResultBound
    /\ done' = done + 1
    /\ edges' = edges + edge
    /\ UNCHANGED <<now, schedule>>

\* coverageSaturationPct() > 85: of the ceiling once there is one.
Saturated ==
    LET all == IF ceiling > 0 THEN ceiling ELSE Capacity
    IN all > 0 /\ edges * 100 > 85 * all

\* shouldResetCoverageBitmap, when there has been no edge for a while.
ResetCoverage ==
    /\ last # 0 /\ Saturated /\ Capacity > 0
    /\ edges' = 0
    /\ UNCHANGED <<now, schedule, done>>

Next == EnterEpoch \/ Tick \/ (\E edge \in 0 .. 1 : Result(edge)) \/ ResetCoverage

Spec == Init /\ [][Next]_vars

-----------------------------------------------------------------------------
TypeOK ==
    /\ now \in 0 .. Total
    /\ fraction \in [Epoch -> Nat]
    /\ last \in Epoch \cup {0}
    /\ edges \in Nat /\ done \in Nat /\ ceiling \in Nat
    /\ edgesAtStart \in Nat /\ doneAtStart \in Nat

\* However often time is moved to Havoc, the epochs fill the time budget exactly,
\* and Splicing keeps the end of it to itself.
BudgetKept == End(fraction, 5) = Total /\ End(fraction, 4) = End(Fraction, 4)

\* Moving time moves the ends of epochs under the running schedule, and still the
\* run never goes back to an epoch it has left.
EpochsAdvance == [][last' >= last]_vars
=============================================================================
