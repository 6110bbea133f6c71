------------------------------ MODULE Sampler ------------------------------
(***************************************************************************)
(* FenwickSampler of engine/types.go: the weighted choice of a corpus seed.*)
(*                                                                         *)
(* The engine appends a weight for every new seed, changes weights as      *)
(* seeds are chosen, boosted or blocked, and picks by descending the tree  *)
(* with a random target.  Weights are floats in the code; here they are    *)
(* small integers, and so are the targets that matter: a node is compared  *)
(* with the target by <=, so a target and its floor choose the same seed.  *)
(***************************************************************************)
EXTENDS Integers, Sequences, FiniteSetsExt

CONSTANTS
    MaxSeeds,   \* bound of the model: seeds appended
    MaxWeight   \* bound of the model: the largest weight

ASSUME SamplerAssumption == MaxSeeds \in Nat \ {0} /\ MaxWeight \in Nat

VARIABLES
    weights,    \* the weight of every seed; seed i of the code is weights[i + 1]
    tree        \* the Fenwick tree; the code's unused tree[0] is left out

samplerVars == <<weights, tree>>

Weight == 0 .. MaxWeight
Size   == Len(weights)

\* i & -i, the largest power of two that divides i
LowBit[i \in 1 .. MaxSeeds] == IF i % 2 = 1 THEN 1 ELSE 2 * LowBit[i \div 2]

\* Mutant of Climb: the climb stops one node short of the last.
ClimbShort(i, n) ==
    LET visit[j \in 1 .. n] ==
            {j} \cup IF j + LowBit[j] >= n THEN {} ELSE visit[j + LowBit[j]]
    IN visit[i]

\* The nodes that  for i < len(f.tree) { ...; i += i & -i }  visits from i.
Climb(i, n) ==
    LET visit[j \in 1 .. n] ==
            {j} \cup IF j + LowBit[j] > n THEN {} ELSE visit[j + LowBit[j]]
    IN visit[i]

\* add(i, delta) on a tree t
Add(t, i, delta) ==
    [j \in DOMAIN t |-> IF j \in Climb(i, Len(t)) THEN t[j] + delta ELSE t[j]]

\* prefix(i) on a tree t: the nodes on the way down from i
PrefixSum(t, i) ==
    LET sum[j \in 0 .. Len(t)] == IF j = 0 THEN 0 ELSE t[j] + sum[j - LowBit[j]]
    IN sum[i]

Total(t) == PrefixSum(t, Len(t))

\* The first step of the descent: doubled from 1 until it is past the last node,
\* then halved, it is the last power of two that is a node.
FirstStep(t) == Max({0} \cup {p \in 1 .. Len(t) : LowBit[p] = p})

\* Mutant of Round: a node equal to the target is not passed over.
RoundStrict(t, at) ==
    LET next == at.idx + at.step
        passed == at.step > 0 /\ next <= Len(t) /\ t[next] < at.left
    IN [step |-> at.step \div 2,
        idx  |-> IF passed THEN next ELSE at.idx,
        left |-> IF passed THEN at.left - t[next] ELSE at.left]

\* One round of the loop of Pick; one with step 0 changes nothing.
Round(t, at) ==
    LET next == at.idx + at.step
        passed == at.step > 0 /\ next <= Len(t) /\ t[next] <= at.left
    IN [step |-> at.step \div 2,
        idx  |-> IF passed THEN next ELSE at.idx,
        left |-> IF passed THEN at.left - t[next] ELSE at.left]

\* The descent of Pick, as the number of seeds it passes over.  Steps are halved
\* down to 0, for which as many rounds as there are nodes are enough.
Descent(t, target) ==
    LET at[k \in 0 .. Len(t)] ==
            IF k = 0 THEN [step |-> FirstStep(t), idx |-> 0, left |-> target]
            ELSE Round(t, at[k - 1])
    IN at[Len(t)].idx

\* The seeds Pick may return: the one the descent finds for some target below
\* the total, or any seed when the total is not positive.
Targets == 0 .. Total(tree) - 1
Picked(target) == IF Descent(tree, target) >= Size THEN Size ELSE Descent(tree, target) + 1
Pickable ==
    IF Total(tree) <= 0 THEN 1 .. Size ELSE {Picked(t) : t \in Targets}

-----------------------------------------------------------------------------
SamplerInit == weights = <<>> /\ tree = <<>>

\* A new seed has energy max(1, ...) (addOrBoostSeed) or at least 0.01 (minimizeCorpus).
AppendSeed(w) ==
    /\ Size < MaxSeeds
    /\ weights' = Append(weights, w)
    /\ tree' = Add(Append(tree, 0), Size + 1, w)

SetWeight(i, w) ==
    /\ weights' = [weights EXCEPT ![i] = w]
    /\ tree' = IF weights[i] = w THEN tree ELSE Add(tree, i, w - weights[i])

SamplerNext ==
    \/ \E w \in Weight \ {0} : AppendSeed(w)
    \/ \E i \in 1 .. Size, w \in Weight : SetWeight(i, w)

SamplerSpec == SamplerInit /\ [][SamplerNext]_samplerVars

-----------------------------------------------------------------------------
SumTo(ws, k) ==
    LET sum[j \in 0 .. Len(ws)] == IF j = 0 THEN 0 ELSE sum[j - 1] + ws[j]
    IN sum[k]

\* How far the tree is from the weights, at every prefix.
Drift(t, ws, k) == PrefixSum(t, k) - SumTo(ws, k)

\* Set keeps every prefix sum as far from the true one as it was: the climb of
\* add reaches exactly the nodes that the descents of later reads go through.
SetIsExact ==
    [][Len(weights') = Size =>
         \A k \in 0 .. Size : Drift(tree', weights', k) = Drift(tree, weights, k)]_samplerVars

\* While no prefix sum is out of step with the weights, the pick is the exact
\* weighted choice: of the Total targets, each seed gets as many as its weight.
ExactWhenInStep ==
    (\A k \in 0 .. Size : Drift(tree, weights, k) = 0) =>
        \A i \in 1 .. Size :
            weights[i] = Cardinality({t \in Targets : Picked(t) = i})

\* Pick is the weighted choice by energy: every seed of positive weight can be
\* picked (docs/architecture/engine.md, "Fenwick tree weighted random by energy").
EverySeedPickable == \A i \in 1 .. Size : weights[i] > 0 => i \in Pickable
=============================================================================
