--------------------------- MODULE Feedback_proofs ---------------------------
(* What comes back from the target: the engine's count of edges never       *)
(* exceeds the target's (Coverage), what is learned from answers stays      *)
(* within its bounds and true to what was seen (Learning), every finding    *)
(* counts once in the cluster of its cause (Clusters), and what a finding   *)
(* is reported with crashes the server after minimization and is minimal    *)
(* (CrashLog, whose reports are those of Clusters).  Results is the last    *)
(* three together; Coverage shares no state with them.                      *)
EXTENDS Coverage, Results, FiniteSetTheorems, SequenceTheorems,
        WellFoundedInduction, TLAPS

-----------------------------------------------------------------------------
(* Coverage.                                                               *)

\* The requests whose coverage is counted.
Counted == Requests \ Probes

\* What has been counted, with a delta that is answered and not yet handled, is
\* covered by the classes the target has seen.
Covered ==
    /\ currentEdges <= Cardinality(virgin)
    /\ \A r \in Counted \cap (waiting \ running) :
          currentEdges + Delta(r) <= Cardinality(virgin)

CInv == TypeOK /\ (Cardinality(Counted) <= 1 => Covered)

Class == Edges \X (0 .. 128)

-----------------------------------------------------------------------------
\* The size of a set of classes is a number; it grows with the set, and by as much
\* as is new.
LEMMA ClassSets ==
    ASSUME NEW S \in SUBSET Class, NEW T \in SUBSET Class
    PROVE  /\ Cardinality(S) \in Nat /\ Cardinality({}) = 0
           /\ Cardinality(S \cup T) \in Nat /\ Cardinality(T \ S) \in Nat
           /\ Cardinality(S \cup T) = Cardinality(S) + Cardinality(T \ S)
           /\ Cardinality(S \cup T) >= Cardinality(S)
<1>1. IsFiniteSet(Class)
  <2>1. 0 \in Int /\ 128 \in Int
    OBVIOUS
  <2>2. IsFiniteSet(0 .. 128)
    BY <2>1, FS_Interval
  <2>3. IsFiniteSet(Edges)
    BY CoverageAssumption
  <2> QED
    BY <2>2, <2>3, FS_Product DEF Class
<1>2. IsFiniteSet(S) /\ IsFiniteSet(T \ S)
  BY <1>1, FS_Subset
<1>3. S \cup T = S \cup (T \ S) /\ S \cap (T \ S) = {}
  OBVIOUS
<1>4. /\ IsFiniteSet(S \cup T)
      /\ Cardinality(S \cup T) = Cardinality(S) + Cardinality(T \ S) - Cardinality({})
  <2> DEFINE N == T \ S
  <2>1. IsFiniteSet(N) /\ S \cup T = S \cup N /\ S \cap N = {}
    BY <1>2, <1>3
  <2>2. IsFiniteSet(S \cup N)
        /\ Cardinality(S \cup N) = Cardinality(S) + Cardinality(N) - Cardinality(S \cap N)
    <3> HIDE DEF N
    <3> QED
      BY <1>2, <2>1, FS_Union
  <2> HIDE DEF N
  <2>3. IsFiniteSet(S \cup T)
        /\ Cardinality(S \cup T) = Cardinality(S) + Cardinality(N) - Cardinality({})
    BY <2>1, <2>2
  <2> QED
    BY <2>3 DEF N
<1>5. /\ Cardinality({}) = 0 /\ Cardinality(S) \in Nat /\ Cardinality(T \ S) \in Nat
      /\ Cardinality(S \cup T) \in Nat
  BY <1>2, <1>4, FS_EmptySet, FS_CardinalityType
<1> QED
  BY <1>4, <1>5

LEMMA BucketBound == ASSUME NEW c \in Nat PROVE Bucket(c) \in 0 .. 128
BY DEF Bucket

\* The classes of a bitmap are classes.
LEMMA ClassesOfHits ==
    ASSUME NEW h \in [Edges -> 0 .. Width - 1]
    PROVE  Classes(h) \subseteq Class
BY BucketBound, CoverageAssumption DEF Classes, Class

\* At most one request is counted: whoever answers it or handles it is the only one.
LEMMA OnlyOne ==
    ASSUME Cardinality(Counted) <= 1, NEW r \in Counted, NEW q \in Counted
    PROVE  r = q
<1>1. IsFiniteSet(Counted)
  BY CoverageAssumption, FS_Subset DEF Counted
<1>2. {r, q} \subseteq Counted
  OBVIOUS
<1>3. Cardinality({r, q}) <= Cardinality(Counted)
  BY <1>1, <1>2, FS_Subset
<1> SUFFICES ASSUME r # q PROVE FALSE
  OBVIOUS
<1>4. Cardinality({r}) = 1 /\ IsFiniteSet({r})
  BY FS_Singleton
<1>5. Cardinality({r} \cup {q}) = Cardinality({r}) + 1
  BY <1>4, FS_AddElement
<1>6. {r} \cup {q} = {r, q} /\ Cardinality(Counted) \in Nat
  BY <1>1, FS_CardinalityType
<1> QED
  BY <1>3, <1>4, <1>5, <1>6

-----------------------------------------------------------------------------
LEMMA InitTyped == Init => TypeOK
<1> SUFFICES ASSUME Init PROVE TypeOK
  OBVIOUS
<1>1. hits \in [Edges -> 0 .. Width - 1]
  BY CoverageAssumption DEF Init
<1>2. virgin \subseteq Class
  BY <1>1, ClassesOfHits DEF Init
<1>3. currentEdges \in Nat
  BY <1>2, ClassSets DEF Init
<1> QED
  BY <1>1, <1>2, <1>3, CoverageAssumption DEF Init, TypeOK, Class, NoHits

\* What handling an answer may make of the engine's count and the target's classes.
LEMMA AccountsTyped ==
    ASSUME TypeOK, NEW r \in Requests, NEW a \in Accounts(r)
    PROVE  a.edges \in Nat /\ a.since \in 0 .. Interval /\ a.virgin \in SUBSET Class
<1>1. /\ virgin \in SUBSET Class /\ claimed[r] \in SUBSET Class /\ header[r] \in BOOLEAN
      /\ currentEdges \in Nat /\ completedSinceCV \in 0 .. Interval /\ Interval \in Nat
  BY CoverageAssumption DEF TypeOK, Class
<1>2. Classes(hits) \in SUBSET Class
  BY ClassesOfHits DEF TypeOK
<1>3. Cardinality(claimed[r]) \in Nat /\ Cardinality(virgin) \in Nat
  BY <1>1, ClassSets
<1>4. Delta(r) \in Nat /\ Later(Cardinality(virgin), currentEdges) \in Nat
  BY <1>1, <1>3 DEF Delta, Later
<1>5. \/ a = Account(currentEdges + Delta(r), 0, virgin)
      \/ \E v \in {virgin, virgin \cup Classes(hits)} :
            a = Account(Later(Cardinality(virgin), currentEdges), 0, v)
      \/ a = Account(currentEdges, 0, virgin)
      \/ a = Account(currentEdges, completedSinceCV + 1, virgin) /\ completedSinceCV + 1 < Interval
  <2>1. ~(completedSinceCV + 1 >= Interval) => completedSinceCV + 1 < Interval
    BY <1>1
  <2> QED
    BY <2>1 DEF Accounts, Polls
<1> QED
  BY <1>1, <1>2, <1>4, <1>5 DEF Account

LEMMA NextTyped == TypeOK /\ [Next]_vars => TypeOK'
<1> SUFFICES ASSUME TypeOK, [Next]_vars PROVE TypeOK'
  OBVIOUS
<1>0. Width \in Nat /\ Width >= 2 /\ Interval \in Nat /\ Interval >= 1 /\ PathBound \in Nat
  BY CoverageAssumption
<1>1. ASSUME NEW r \in Requests, Begin(r) PROVE TypeOK'
  BY <1>0, <1>1 DEF Begin, TypeOK, NoHits
<1>2. ASSUME NEW r \in Requests, NEW e \in Edges, Execute(r, e) PROVE TypeOK'
  <2>1. hits' \in [Edges -> 0 .. Width - 1]
    <3>1. (hits[e] + 1) % Width \in 0 .. Width - 1
      BY <1>0 DEF TypeOK
    <3> QED
      BY <1>2, <3>1 DEF Execute, TypeOK
  <2>2. own' \in [Requests -> [Edges -> 0 .. PathBound]]
    <3>1. own[r][e] + 1 \in 0 .. PathBound
      BY <1>0, <1>2 DEF Execute, TypeOK
    <3> QED
      BY <1>2, <3>1 DEF Execute, TypeOK
  <2> QED
    BY <1>2, <2>1, <2>2 DEF Execute, TypeOK, engine
<1>3. ASSUME NEW r \in Requests, Answer(r) PROVE TypeOK'
  <2>1. Classes(hits) \subseteq Class /\ Novel \subseteq Class
    BY ClassesOfHits DEF TypeOK, Novel
  <2>2. header' \in [Requests -> BOOLEAN]
    BY <1>3, CoverageAssumption DEF Answer, TypeOK
  <2>3. claimed' \in [Requests -> SUBSET Class]
    BY <1>3, <2>1 DEF Answer, TypeOK, Class
  <2> QED
    BY <1>3, <2>1, <2>2, <2>3 DEF Answer, TypeOK, Class, engine
<1>4. ASSUME NEW r \in Requests, Handle(r) PROVE TypeOK'
  <2>1. CASE r \in Probes
    BY <1>0, <1>4, <2>1 DEF Handle, TypeOK
  <2>2. CASE r \notin Probes
    <3>1. PICK a \in Accounts(r) : completedSinceCV' = a.since /\ (Settle(a) \/ ResetCoverage(a))
      BY <1>4, <2>2 DEF Handle
    <3>2. a.edges \in Nat /\ a.since \in 0 .. Interval /\ a.virgin \in SUBSET Class
      BY AccountsTyped
    <3>3. /\ hits' \in [Edges -> 0 .. Width - 1] /\ virgin' \subseteq Class
          /\ currentEdges' \in Nat /\ completedSinceCV' \in 0 .. Interval
      BY <1>0, <3>1, <3>2 DEF Settle, ResetCoverage, TypeOK, NoHits, Class
    <3> QED
      BY <1>4, <3>3 DEF Handle, TypeOK, Class
  <2> QED
    BY <2>1, <2>2
<1>5. ASSUME NEW r \in Requests, TimeOut(r) PROVE TypeOK'
  BY <1>5 DEF TimeOut, TypeOK, target
<1>6. CASE UNCHANGED vars
  BY <1>6 DEF vars, target, engine, TypeOK
<1> QED
  BY <1>1, <1>2, <1>3, <1>4, <1>5, <1>6 DEF Next

\* The state stays in its types: bytes wrap inside their width, and the engine's
\* count is a number, after any resets, failures and late answers.
THEOREM TypeCorrect == Spec => []TypeOK
  BY InitTyped, NextTyped, PTL DEF Spec

-----------------------------------------------------------------------------
LEMMA InitCovered == Init => Covered
BY InitTyped DEF Init, Covered, TypeOK

\* Whose delta is not yet handled, and what there is of it, is left alone.
LEMMA NothingCounted ==
    ASSUME TypeOK, Covered, UNCHANGED <<currentEdges, virgin, claimed, header>>,
           waiting' \ running' \subseteq waiting \ running
    PROVE  Covered'
BY DEF Covered, Delta

\* An answer adds to the target's classes what it claims.
LEMMA AnswerCovered ==
    ASSUME TypeOK, Cardinality(Counted) <= 1, Covered, NEW r \in Requests, Answer(r)
    PROVE  Covered'
<1>1. /\ virgin' = virgin \cup Classes(hits) /\ waiting' = waiting
      /\ running' = running \ {r} /\ currentEdges' = currentEdges
  BY DEF Answer, engine
<1>2. virgin \in SUBSET Class /\ Classes(hits) \in SUBSET Class /\ currentEdges \in Nat
  BY ClassesOfHits DEF TypeOK, Class
<1>3. /\ Cardinality(virgin) \in Nat /\ Cardinality(virgin') \in Nat /\ Cardinality(Novel) \in Nat
      /\ Cardinality(virgin') = Cardinality(virgin) + Cardinality(Novel)
      /\ Cardinality(virgin') >= Cardinality(virgin)
  BY <1>1, <1>2, ClassSets DEF Novel
<1>4. currentEdges' <= Cardinality(virgin')
  BY <1>1, <1>2, <1>3 DEF Covered
<1>5. ASSUME NEW q \in Counted \cap (waiting' \ running')
      PROVE  currentEdges' + Delta(q)' <= Cardinality(virgin')
  <2>1. CASE q = r
    <3>1. claimed'[r] = Novel
      BY <1>1, <1>5, <2>1 DEF Answer, TypeOK
    <3>2. Delta(r)' = Cardinality(Novel) \/ Delta(r)' = 0
      BY <3>1 DEF Delta
    <3> QED
      BY <1>1, <1>2, <1>3, <2>1, <3>2 DEF Covered
  <2>2. CASE q # r
    <3>1. q \in Counted \cap (waiting \ running) /\ q \in Requests
      BY <1>1, <1>5, <2>2 DEF Counted
    <3>2. claimed'[q] = claimed[q] /\ header'[q] = header[q]
      BY <2>2, <3>1 DEF Answer, TypeOK
    <3>3. Delta(q)' = Delta(q)
      BY <3>2 DEF Delta
    <3>4. Delta(q) \in Nat /\ currentEdges + Delta(q) <= Cardinality(virgin)
      BY <3>1, ClassSets DEF Covered, Delta, TypeOK, Class
    <3> QED
      BY <1>1, <1>2, <1>3, <3>3, <3>4
  <2> QED
    BY <2>1, <2>2
<1> QED
  BY <1>4, <1>5 DEF Covered

\* Handling an answer of the one request that is counted leaves none of whose delta
\* the engine does not know.
LEMMA HandleCovered ==
    ASSUME TypeOK, Cardinality(Counted) <= 1, Covered, NEW r \in Requests, Handle(r)
    PROVE  Covered'
<1>1. waiting' = waiting \ {r} /\ UNCHANGED <<running, claimed, header>> /\ r \in waiting \ running
  BY DEF Handle
<1>2. CASE r \in Probes
  BY <1>1, <1>2, NothingCounted DEF Handle
<1>3. CASE r \notin Probes
  <2>1. Counted \cap (waiting' \ running') = {}
    BY <1>1, <1>3, OnlyOne DEF Counted
  <2>2. PICK a \in Accounts(r) : Settle(a) \/ ResetCoverage(a)
    BY <1>3 DEF Handle
  <2>3. a.edges <= Cardinality(a.virgin)
    <3>1. /\ virgin \in SUBSET Class /\ Classes(hits) \in SUBSET Class
          /\ currentEdges \in Nat /\ Cardinality(virgin) \in Nat
      BY ClassesOfHits, ClassSets DEF TypeOK, Class
    <3>2. currentEdges <= Cardinality(virgin) /\ currentEdges + Delta(r) <= Cardinality(virgin)
      BY <1>1, <1>3 DEF Covered, Counted
    <3>3. CASE a = Account(currentEdges + Delta(r), 0, virgin)
      BY <3>2, <3>3 DEF Account
    <3>4. CASE \E s : a = Account(currentEdges, s, virgin)
      BY <3>2, <3>4 DEF Account
    <3>5. CASE \E v \in {virgin, virgin \cup Classes(hits)} :
                  a = Account(Later(Cardinality(virgin), currentEdges), 0, v)
      <4>1. Later(Cardinality(virgin), currentEdges) = Cardinality(virgin)
        BY <3>1, <3>2 DEF Later
      <4>2. /\ Cardinality(virgin \cup Classes(hits)) \in Nat
            /\ Cardinality(virgin) <= Cardinality(virgin \cup Classes(hits))
        BY <3>1, ClassSets
      <4> QED
        BY <3>1, <3>5, <4>1, <4>2 DEF Account
    <3> QED
      BY <3>3, <3>4, <3>5 DEF Accounts, Polls
  <2>4. CASE Settle(a)
    BY <2>1, <2>3, <2>4 DEF Settle, Covered
  <2>5. CASE ResetCoverage(a)
    <3>1. currentEdges' = 0 /\ Cardinality(virgin') = 0
      BY <2>5, FS_EmptySet DEF ResetCoverage
    <3> QED
      BY <2>1, <3>1 DEF Covered
  <2> QED
    BY <2>2, <2>4, <2>5
<1> QED
  BY <1>2, <1>3

LEMMA NextCovered ==
    ASSUME TypeOK, Cardinality(Counted) <= 1, Covered, [Next]_vars
    PROVE  Covered'
<1>1. ASSUME NEW r \in Requests, Begin(r) PROVE Covered'
  <2>1. /\ waiting' \ running' = waiting \ running
        /\ currentEdges' = currentEdges /\ virgin' = virgin
    BY <1>1 DEF Begin
  <2>2. \A q \in waiting \ running : q \in Requests => claimed'[q] = claimed[q] /\ header'[q] = header[q]
    BY <1>1 DEF Begin, TypeOK
  <2> QED
    BY <2>1, <2>2 DEF Covered, Delta, Counted
<1>2. ASSUME NEW r \in Requests, NEW e \in Edges, Execute(r, e) PROVE Covered'
  BY <1>2, NothingCounted DEF Execute, engine
<1>3. ASSUME NEW r \in Requests, TimeOut(r) PROVE Covered'
  BY <1>3, NothingCounted DEF TimeOut, target
<1>4. CASE UNCHANGED vars
  BY <1>4, NothingCounted DEF vars, target, engine
<1> QED
  BY <1>1, <1>2, <1>3, <1>4, AnswerCovered, HandleCovered DEF Next

\* While one request at a time has its delta counted, the engine's count of edges
\* never exceeds the classes the target has seen, through lost headers, late answers,
\* polls, timeouts and resets (handleResult, worker.go; RunWithCoverage).
THEOREM CountedOnceHolds == Spec => []CountedOnce
<1>1. Init => CInv
  BY InitTyped, InitCovered DEF CInv
<1>2. CInv /\ [Next]_vars => CInv'
  BY NextTyped, NextCovered DEF CInv, Counted
<1>3. CInv => CountedOnce
  BY DEF CInv, Covered, CountedOnce, Counted
<1> QED
  BY <1>1, <1>2, <1>3, PTL DEF Spec

-----------------------------------------------------------------------------
(* Learning: induction over numbers.                                       *)

\* A nonempty set of numbers has a least one.
LEMMA Least ==
    ASSUME NEW T, T \subseteq Nat, T # {}
    PROVE  \E x \in T : \A y \in T : x <= y
<1> DEFINE R == OpToRel(<, Nat)
<1>1. IsWellFoundedOn(R, Nat)
  BY NatLessThanWellFounded
<1>2. \A x, y \in Nat : x < y => <<x, y>> \in R
  BY DEF OpToRel
<1> HIDE DEF R
<1>3. PICK x \in T : \A y \in T : <<y, x>> \notin R
  BY <1>1, WFMin
<1>4. \A y \in T : ~(y < x)
  BY <1>2, <1>3
<1>5. \A y \in T : x <= y
  BY <1>4
<1> QED
  BY <1>5

\* Induction up to a bound.
LEMMA UpTo ==
    ASSUME NEW n \in Nat, NEW S, 0 \in S, \A i \in 0 .. n : i \in S /\ i < n => i + 1 \in S
    PROVE  n \in S
<1> SUFFICES ASSUME 0 .. n \ S # {} PROVE FALSE
  <2>1. n \in 0 .. n
    OBVIOUS
  <2> QED
    BY <2>1
<1>1. 0 .. n \ S \subseteq Nat
  OBVIOUS
<1>2. PICK x \in 0 .. n \ S : \A y \in 0 .. n \ S : x <= y
  BY <1>1, Least
<1>3. x # 0 /\ x - 1 \in 0 .. n /\ x - 1 \notin 0 .. n \ S
  BY <1>2
<1> QED
  BY <1>3

\* f starts with base and goes on by the steps.
Runs(f, n, S, base, step) ==
    /\ f \in [0 .. n -> S] /\ f[0] = base
    /\ \A i \in 1 .. n : f[i] = step[i][f[i - 1]]

\* A function defined step by step exists.
LEMMA Recursion ==
    ASSUME NEW n \in Nat, NEW S, NEW base \in S, NEW step \in [1 .. n -> [S -> S]]
    PROVE  \E f : Runs(f, n, S, base, step)
<1> DEFINE T == {m \in 0 .. n : \E f : Runs(f, m, S, base, step)}
<1>1. 0 \in T
  <2> DEFINE g == [i \in 0 .. 0 |-> base]
  <2>1. Runs(g, 0, S, base, step)
    BY DEF Runs
  <2> HIDE DEF g
  <2> QED
    BY <2>1
<1>2. ASSUME NEW m \in 0 .. n, m \in T, m < n PROVE m + 1 \in T
  <2>1. PICK f : Runs(f, m, S, base, step)
    BY <1>2
  <2> DEFINE x == step[m + 1][f[m]]
             g == [i \in 0 .. m + 1 |-> IF i = m + 1 THEN x ELSE f[i]]
  <2>2. x \in S
    <3>1. m + 1 \in 1 .. n /\ f[m] \in S
      BY <1>2, <2>1 DEF Runs
    <3> QED
      BY <3>1
  <2> HIDE DEF x
  <2>3. g \in [0 .. m + 1 -> S]
    BY <2>1, <2>2 DEF Runs
  <2>4. \A i \in 0 .. m : g[i] = f[i]
    BY <2>1 DEF Runs
  <2>5. g[m + 1] = x /\ 0 \in 0 .. m /\ m \in 0 .. m
    OBVIOUS
  <2> HIDE DEF g
  <2>6. g[m + 1] = step[m + 1][g[m]]
    BY <2>4, <2>5 DEF x
  <2>7. ASSUME NEW i \in 1 .. m PROVE g[i] = step[i][g[i - 1]]
    <3>1. i \in 0 .. m /\ i - 1 \in 0 .. m
      OBVIOUS
    <3> QED
      BY <2>1, <2>4, <3>1 DEF Runs
  <2>8. ASSUME NEW i \in 1 .. m + 1 PROVE g[i] = step[i][g[i - 1]]
    <3>1. i \in 1 .. m \/ (i = m + 1 /\ i - 1 = m)
      OBVIOUS
    <3> QED
      BY <2>6, <2>7, <3>1
  <2>9. Runs(g, m + 1, S, base, step)
    BY <2>1, <2>3, <2>4, <2>5, <2>8 DEF Runs
  <2>10. m + 1 \in 0 .. n
    BY <1>2
  <2> QED
    BY <2>9, <2>10
<1>3. n \in T
  <2> HIDE DEF T
  <2> QED
    BY <1>1, <1>2, UpTo, Zenon
<1> QED
  BY <1>3

\* What each step of a loop keeps holds in its end.
LEMMA Stays ==
    ASSUME NEW n \in Nat, NEW S, NEW f, f[0] \in S,
           \A i \in 1 .. n : f[i - 1] \in S => f[i] \in S
    PROVE  f[n] \in S
<1> DEFINE T == {i \in 0 .. n : f[i] \in S}
<1>1. 0 \in T
  OBVIOUS
<1>2. \A i \in 0 .. n : i \in T /\ i < n => i + 1 \in T
  <2> TAKE i \in 0 .. n
  <2>1. i < n => i + 1 \in 1 .. n /\ i + 1 \in 0 .. n /\ (i + 1) - 1 = i
    OBVIOUS
  <2> QED
    BY <2>1
<1>3. n \in T
  <2> HIDE DEF T
  <2> QED
    BY <1>1, <1>2, UpTo, Zenon
<1> QED
  BY <1>3

-----------------------------------------------------------------------------
(* The store.                                                              *)

\* Lists of bounded length with the set of what they hold.
Rings(S, max) == {r \in [list : Seq(S), seen : SUBSET S] : InStep(r.list, r.seen, max)}

LEMMA RingKeeps ==
    ASSUME NEW S, NEW max \in Nat \ {0}, NEW r \in Rings(S, max), NEW v \in S
    PROVE  Ring(r, v, max) \in Rings(S, max)
<1>1. PICK l \in Seq(S), N \in SUBSET S : /\ r = [list |-> l, seen |-> N] /\ Len(l) <= max
                                          /\ {l[i] : i \in 1 .. Len(l)} = N
                                          /\ \A i, j \in 1 .. Len(l) : l[i] = l[j] => i = j
  BY DEF Rings, InStep, ToSet, IsInjective
<1>2. PICK n \in Nat : n = Len(l)
  OBVIOUS
<1>3. CASE v \in N
  BY <1>1, <1>3 DEF Ring
<1>4. CASE v \notin N /\ n < max
  <2> DEFINE m == Append(l, v)
  <2>1. m \in Seq(S) /\ Len(m) = n + 1 /\ m[n + 1] = v /\ \A i \in 1 .. n : m[i] = l[i]
    BY <1>2
  <2> HIDE DEF m
  <2>2. DOMAIN m = 1 .. n + 1
    BY <2>1
  <2>3. \A i, j \in 1 .. n + 1 : m[i] = m[j] => i = j
    <3> SUFFICES ASSUME NEW i \in 1 .. n + 1, NEW j \in 1 .. n + 1, m[i] = m[j] PROVE i = j
      OBVIOUS
    <3>1. \A k \in 1 .. n : l[k] \in N
      BY <1>1, <1>2
    <3>2. CASE i \in 1 .. n /\ j \in 1 .. n
      BY <1>1, <1>2, <2>1, <3>2
    <3>3. CASE i = n + 1 /\ j \in 1 .. n
      BY <1>4, <2>1, <3>1, <3>3
    <3>4. CASE j = n + 1 /\ i \in 1 .. n
      BY <1>4, <2>1, <3>1, <3>4
    <3> QED
      BY <3>2, <3>3, <3>4
  <2>4. {m[i] : i \in 1 .. n + 1} = N \cup {v}
    <3>1. \A i \in 1 .. n + 1 : i \in 1 .. n \/ i = n + 1
      OBVIOUS
    <3>2. \A i \in 1 .. n : i \in 1 .. n + 1
      OBVIOUS
    <3>3. n + 1 \in 1 .. n + 1
      OBVIOUS
    <3> QED
      BY <1>1, <1>2, <2>1, <3>1, <3>2, <3>3
  <2>5. InStep(m, N \cup {v}, max)
    BY <1>4, <2>1, <2>2, <2>3, <2>4 DEF InStep, ToSet, IsInjective
  <2>6. Ring(r, v, max) = [list |-> m, seen |-> N \cup {v}]
    BY <1>1, <1>2, <1>4 DEF Ring, m
  <2>7. N \cup {v} \in SUBSET S
    OBVIOUS
  <2>8. [list |-> m, seen |-> N \cup {v}] \in Rings(S, max)
    BY <2>1, <2>5, <2>7 DEF Rings
  <2> QED
    BY <2>6, <2>8
<1>5. CASE v \notin N /\ n = max
  <2> DEFINE m == Append(Tail(l), v)
             M == (N \ {Head(l)}) \cup {v}
  <2>1. /\ l # <<>> /\ Head(l) = l[1] /\ Tail(l) \in Seq(S) /\ Len(Tail(l)) = n - 1
        /\ \A i \in 1 .. n - 1 : Tail(l)[i] = l[i + 1]
    <3>1. l # <<>> /\ n \in Nat \ {0}
      BY <1>2, <1>5
    <3> QED
      BY <1>2, <3>1, HeadTailProperties
  <2>2. m \in Seq(S) /\ Len(m) = n /\ m[n] = v /\ \A i \in 1 .. n - 1 : m[i] = l[i + 1]
    BY <1>5, <2>1
  <2> HIDE DEF m
  <2>3. DOMAIN m = 1 .. n
    BY <2>2
  <2>4. \A i \in 1 .. n - 1 : i + 1 \in 1 .. n /\ i \in 1 .. n
    OBVIOUS
  <2>5. \A i, j \in 1 .. n : m[i] = m[j] => i = j
    <3> SUFFICES ASSUME NEW i \in 1 .. n, NEW j \in 1 .. n, m[i] = m[j] PROVE i = j
      OBVIOUS
    <3>1. \A k \in 1 .. n : l[k] \in N
      BY <1>1, <1>2
    <3>2. CASE i \in 1 .. n - 1 /\ j \in 1 .. n - 1
      BY <1>1, <1>2, <2>2, <2>4, <3>2
    <3>3. CASE i = n /\ j \in 1 .. n - 1
      BY <1>5, <2>2, <2>4, <3>1, <3>3
    <3>4. CASE j = n /\ i \in 1 .. n - 1
      BY <1>5, <2>2, <2>4, <3>1, <3>4
    <3> QED
      BY <3>2, <3>3, <3>4
  <2>6. {m[i] : i \in 1 .. n} = M
    <3>1. \A i \in 1 .. n - 1 : m[i] \in M
      <4> TAKE i \in 1 .. n - 1
      <4>1. l[i + 1] \in N /\ l[i + 1] # l[1]
        BY <1>1, <1>2, <2>4
      <4> QED
        BY <2>1, <2>2, <4>1
    <3>2. m[n] \in M
      BY <2>2
    <3>3. \A i \in 1 .. n : i \in 1 .. n - 1 \/ i = n
      OBVIOUS
    <3>4. \A x \in N \ {Head(l)} : \E i \in 1 .. n : m[i] = x
      <4> TAKE x \in N \ {Head(l)}
      <4>1. PICK k \in 1 .. n : l[k] = x
        BY <1>1, <1>2
      <4>2. k # 1
        BY <2>1, <4>1
      <4>3. k - 1 \in 1 .. n - 1 /\ (k - 1) + 1 = k
        BY <4>2
      <4> QED
        BY <2>2, <2>4, <4>1, <4>3
    <3>5. n \in 1 .. n
      BY <1>5
    <3> HIDE DEF M
    <3>6. \A x \in {m[i] : i \in 1 .. n} : x \in M
      BY <3>1, <3>2, <3>3
    <3>7. \A x \in M : x \in {m[i] : i \in 1 .. n}
      BY <2>2, <3>4, <3>5 DEF M
    <3> QED
      BY <3>6, <3>7
  <2>7. M \in SUBSET S
    OBVIOUS
  <2>8. Ring(r, v, max) = [list |-> m, seen |-> M]
    <3>1. r.list = l /\ r.seen = N /\ ~(v \in N) /\ ~(Len(l) < max)
      BY <1>1, <1>2, <1>5
    <3>2. Ring(r, v, max) = [list |-> Append(Tail(r.list), v), seen |-> (r.seen \ {Head(r.list)}) \cup {v}]
      BY <3>1, Zenon DEF Ring
    <3> QED
      BY <3>1, <3>2, Zenon DEF m
  <2> HIDE DEF M
  <2>9. InStep(m, M, max)
    <3>1. ToSet(m) = M
      BY <2>3, <2>6 DEF ToSet
    <3>2. IsInjective(m)
      BY <2>3, <2>5 DEF IsInjective
    <3> QED
      BY <1>5, <2>2, <3>1, <3>2 DEF InStep
  <2>10. [list |-> m, seen |-> M] \in Rings(S, max)
    BY <2>2, <2>7, <2>9 DEF Rings
  <2> QED
    BY <2>8, <2>10
<1> QED
  BY <1>1, <1>2, <1>3, <1>4, <1>5

LEMMA RingAllKeeps ==
    ASSUME NEW S, NEW max \in Nat \ {0}, NEW r \in Rings(S, max), NEW vs \in Seq(S)
    PROVE  RingAll(r, vs, max) \in Rings(S, max)
<1> DEFINE R == Rings(S, max)
           n == Len(vs)
           step == [i \in 1 .. n |-> [x \in R |-> Ring(x, vs[i], max)]]
           At(f, i) == IF i = 0 THEN r ELSE Ring(f[i - 1], vs[i], max)
           after == CHOOSE f : f = [i \in 0 .. n |-> At(f, i)]
<1>1. n \in Nat /\ \A i \in 1 .. n : vs[i] \in S
  OBVIOUS
<1>2. RingAll(r, vs, max) = after[n]
  BY DEF RingAll
<1> HIDE DEF n
<1>3. \A i \in 1 .. n : \A x \in R : Ring(x, vs[i], max) \in R
  BY <1>1, RingKeeps
<1> HIDE DEF R
<1>4. r \in R /\ step \in [1 .. n -> [R -> R]]
  BY <1>3 DEF R
<1>5. \A i \in 1 .. n, x \in R : step[i][x] = Ring(x, vs[i], max)
  OBVIOUS
<1> HIDE DEF step
<1>6. PICK f : Runs(f, n, R, r, step)
  BY <1>1, <1>4, Recursion
<1>7. f = [i \in 0 .. n |-> At(f, i)]
  <2>1. \A i \in 1 .. n : f[i] = Ring(f[i - 1], vs[i], max)
    BY <1>1, <1>5, <1>6 DEF Runs
  <2>2. f = [i \in 0 .. n |-> f[i]] /\ f[0] = r
    BY <1>6 DEF Runs
  <2>3. \A i \in 0 .. n : i = 0 \/ i \in 1 .. n
    BY <1>1
  <2>4. \A i \in 0 .. n : f[i] = At(f, i)
    BY <2>1, <2>2, <2>3
  <2> HIDE DEF At
  <2> QED
    BY <2>2, <2>4
<1> HIDE DEF At
<1>8. after = [i \in 0 .. n |-> At(after, i)]
  BY <1>7
<1> HIDE DEF after
<1>9. after[0] = r /\ \A i \in 1 .. n : after[i] = Ring(after[i - 1], vs[i], max)
  <2>1. \A i \in 0 .. n : after[i] = At(after, i)
    BY <1>8
  <2>2. 0 \in 0 .. n /\ \A i \in 1 .. n : i \in 0 .. n /\ i # 0
    BY <1>1
  <2> QED
    BY <2>1, <2>2 DEF At
<1>10. after[n] \in R
  <2>1. after[0] \in R /\ \A i \in 1 .. n : after[i - 1] \in R => after[i] \in R
    BY <1>3, <1>4, <1>9
  <2> QED
    BY <1>1, <2>1, Stays, Zenon
<1> QED
  BY <1>2, <1>10 DEF R

\* What the store is, apart from the limits, and that its pairs are among those of O.
Ordered == {pk \in Keys \X Keys : Ascending(pk[1], pk[2])}
StoreTypes == [values : [Keys -> Seq(Values)], seen : [Keys -> SUBSET Values],
               relations : [Ordered -> Seq(Values \X Values)]]
Consistent(s) == \A k \in Keys : InStep(s.values[k], s.seen[k], MaxValues)
Met(rel, O) ==
    \A pk \in Ordered : \A n \in DOMAIN rel[pk] :
        {<<pk[1], rel[pk][n][1]>>, <<pk[2], rel[pk][n][2]>>} \in O
Stores(O) == {s \in StoreTypes : Consistent(s) /\ Met(s.relations, O)}

LEMMA AddValueKeeps ==
    ASSUME NEW O, NEW s \in Stores(O), NEW kv \in Keys \X Values
    PROVE  AddValue(s, kv) \in Stores(O)
<1>1. CASE Rejected(kv[2])
  BY <1>1 DEF AddValue
<1>2. CASE ~Rejected(kv[2])
  <2>1. PICK k \in Keys, v \in Values : kv = <<k, v>> /\ kv[1] = k /\ kv[2] = v
    OBVIOUS
  <2> DEFINE r0 == [list |-> s.values[k], seen |-> s.seen[k]]
             r == Ring(r0, v, MaxValues)
             t == [s EXCEPT !.values[k] = r.list, !.seen[k] = r.seen]
  <2>2. s \in StoreTypes /\ Consistent(s) /\ Met(s.relations, O)
    BY DEF Stores
  <2>3. r0 \in Rings(Values, MaxValues)
    BY <2>2 DEF Rings, StoreTypes, Consistent
  <2>4. MaxValues \in Nat \ {0}
    BY LearningAssumption
  <2> HIDE DEF r0
  <2>5. r \in Rings(Values, MaxValues)
    BY <2>3, <2>4, RingKeeps
  <2>6. AddValue(s, kv) = t
    BY <1>2, <2>1 DEF AddValue, r0
  <2> HIDE DEF r
  <2>7. r.list \in Seq(Values) /\ r.seen \in SUBSET Values /\ InStep(r.list, r.seen, MaxValues)
    BY <2>5 DEF Rings
  <2>8. t \in StoreTypes
    BY <2>2, <2>7 DEF StoreTypes
  <2>9. /\ t.relations = s.relations
        /\ \A j \in Keys : /\ t.values[j] = IF j = k THEN r.list ELSE s.values[j]
                           /\ t.seen[j] = IF j = k THEN r.seen ELSE s.seen[j]
    BY <2>2, <2>7 DEF StoreTypes
  <2> HIDE DEF t
  <2>10. Consistent(t)
    BY <2>2, <2>7, <2>9 DEF Consistent
  <2> QED
    BY <2>2, <2>6, <2>8, <2>9, <2>10 DEF Stores
<1> QED
  BY <1>1, <1>2

LEMMA AddValuesKeeps ==
    ASSUME NEW O, NEW s \in Stores(O), NEW kvs \in Seq(Keys \X Values)
    PROVE  AddValues(s, kvs) \in Stores(O)
<1> DEFINE R == Stores(O)
           n == Len(kvs)
           step == [i \in 1 .. n |-> [x \in R |-> AddValue(x, kvs[i])]]
           At(f, i) == IF i = 0 THEN s ELSE AddValue(f[i - 1], kvs[i])
           after == CHOOSE f : f = [i \in 0 .. n |-> At(f, i)]
<1>1. n \in Nat
  OBVIOUS
<1>2. AddValues(s, kvs) = after[n]
  BY DEF AddValues
<1>3. \A i \in 1 .. n : \A x \in R : AddValue(x, kvs[i]) \in R
  BY AddValueKeeps
<1> HIDE DEF n, R
<1>4. s \in R /\ step \in [1 .. n -> [R -> R]]
  BY <1>3 DEF R
<1>5. \A i \in 1 .. n, x \in R : step[i][x] = AddValue(x, kvs[i])
  OBVIOUS
<1> HIDE DEF step
<1>6. PICK f : Runs(f, n, R, s, step)
  BY <1>1, <1>4, Recursion
<1>7. f = [i \in 0 .. n |-> At(f, i)]
  <2>1. \A i \in 1 .. n : f[i] = AddValue(f[i - 1], kvs[i])
    BY <1>1, <1>5, <1>6 DEF Runs
  <2>2. f = [i \in 0 .. n |-> f[i]] /\ f[0] = s
    BY <1>6 DEF Runs
  <2>3. \A i \in 0 .. n : i = 0 \/ i \in 1 .. n
    BY <1>1
  <2>4. \A i \in 0 .. n : f[i] = At(f, i)
    BY <2>1, <2>2, <2>3
  <2> HIDE DEF At
  <2> QED
    BY <2>2, <2>4
<1> HIDE DEF At
<1>8. after = [i \in 0 .. n |-> At(after, i)]
  BY <1>7
<1> HIDE DEF after
<1>9. after[0] = s /\ \A i \in 1 .. n : after[i] = AddValue(after[i - 1], kvs[i])
  <2>1. \A i \in 0 .. n : after[i] = At(after, i)
    BY <1>8
  <2>2. 0 \in 0 .. n /\ \A i \in 1 .. n : i \in 0 .. n /\ i # 0
    BY <1>1
  <2> QED
    BY <2>1, <2>2 DEF At
<1>10. after[n] \in R
  <2>1. after[0] \in R /\ \A i \in 1 .. n : after[i - 1] \in R => after[i] \in R
    BY <1>3, <1>4, <1>9
  <2> QED
    BY <1>1, <2>1, Stays, Zenon
<1> QED
  BY <1>2, <1>10 DEF R

LEMMA AddRelationKeeps ==
    ASSUME NEW O, NEW s \in Stores(O), NEW a \in Keys \X Values, NEW b \in Keys \X Values, {a, b} \in O
    PROVE  AddRelation(s, a, b) \in Stores(O)
<1> DEFINE pk == PairKey(a[1], b[1])
           p == IF Ascending(a[1], b[1]) THEN <<a[2], b[2]>> ELSE <<b[2], a[2]>>
           old == s.relations[pk]
           new == Append(IF Len(old) < MaxRelations THEN old ELSE Tail(old), p)
           t == [s EXCEPT !.relations[pk] = new]
<1>1. s \in StoreTypes /\ Consistent(s) /\ Met(s.relations, O)
  BY DEF Stores
<1>2. CASE AddRelation(s, a, b) = s
  BY <1>2
<1>3. CASE AddRelation(s, a, b) = t /\ pk \in Ordered
  <2>1. p \in Values \X Values /\ {<<pk[1], p[1]>>, <<pk[2], p[2]>>} = {a, b}
    <3>1. a = <<a[1], a[2]>> /\ b = <<b[1], b[2]>>
      OBVIOUS
    <3> QED
      BY <3>1 DEF PairKey
  <2> HIDE DEF p, pk
  <2>2. old \in Seq(Values \X Values) /\ \A n \in DOMAIN old : {<<pk[1], old[n][1]>>, <<pk[2], old[n][2]>>} \in O
    BY <1>1, <1>3 DEF StoreTypes, Met
  <2> HIDE DEF old
  <2>3. MaxRelations \in Nat \ {0}
    BY LearningAssumption
  <2>4. PICK l \in Seq(Values \X Values) : /\ new = Append(l, p)
                                           /\ \A n \in DOMAIN l : \E m \in DOMAIN old : l[n] = old[m]
    <3>1. CASE Len(old) < MaxRelations
      BY <2>2, <3>1
    <3>2. CASE ~(Len(old) < MaxRelations)
      <4>1. old # <<>>
        BY <2>2, <2>3, <3>2
      <4>2. /\ Tail(old) \in Seq(Values \X Values) /\ Len(Tail(old)) = Len(old) - 1
            /\ \A n \in 1 .. Len(Tail(old)) : Tail(old)[n] = old[n + 1]
        BY <2>2, <4>1, HeadTailProperties
      <4>3. \A n \in DOMAIN Tail(old) : n + 1 \in DOMAIN old /\ Tail(old)[n] = old[n + 1]
        BY <2>2, <4>2
      <4> QED
        BY <3>2, <4>2, <4>3
    <3> QED
      BY <3>1, <3>2
  <2> HIDE DEF new
  <2>5. /\ new \in Seq(Values \X Values)
        /\ \A n \in DOMAIN new : new[n] = p \/ \E m \in DOMAIN old : new[n] = old[m]
    <3>1. new \in Seq(Values \X Values) /\ DOMAIN new = 1 .. Len(l) + 1
          /\ new[Len(l) + 1] = p /\ \A n \in 1 .. Len(l) : new[n] = l[n]
      BY <2>1, <2>4
    <3>2. \A n \in DOMAIN new : n = Len(l) + 1 \/ n \in DOMAIN l
      BY <2>4, <3>1
    <3>3. DOMAIN l = 1 .. Len(l)
      BY <2>4
    <3> QED
      BY <2>4, <3>1, <3>2, <3>3
  <2>6. \A n \in DOMAIN new : {<<pk[1], new[n][1]>>, <<pk[2], new[n][2]>>} \in O
    BY <2>1, <2>2, <2>5
  <2>7. t \in StoreTypes /\ t.values = s.values /\ t.seen = s.seen
        /\ \A q \in Ordered : t.relations[q] = IF q = pk THEN new ELSE s.relations[q]
    BY <1>1, <2>5 DEF StoreTypes
  <2> HIDE DEF t
  <2>8. Consistent(t) /\ Met(t.relations, O)
    BY <1>1, <2>6, <2>7 DEF Consistent, Met
  <2> QED
    BY <1>3, <2>7, <2>8 DEF Stores
<1>4. CASE AddRelation(s, a, b) = t /\ pk \notin Ordered
  <2>1. t = s
    BY <1>1, <1>4 DEF StoreTypes
  <2> QED
    BY <1>4, <2>1
<1>5. AddRelation(s, a, b) = s \/ AddRelation(s, a, b) = t
  BY DEF AddRelation
<1> QED
  BY <1>2, <1>3, <1>4, <1>5

LEMMA RelateKeeps ==
    ASSUME NEW O, NEW s \in Stores(O), NEW fact \in Seq(Keys \X Values), Pairs(fact) \subseteq O,
           NEW k \in 1 .. Len(fact)
    PROVE  Relate(s, fact, k) \in Stores(O)
<1> DEFINE R == Stores(O)
           n == Len(fact)
           step == [i \in 1 .. n |-> [x \in R |-> IF i <= k THEN x ELSE AddRelation(x, fact[k], fact[i])]]
           At(f, i) == IF i = 0 THEN s ELSE IF i <= k THEN f[i - 1] ELSE AddRelation(f[i - 1], fact[k], fact[i])
           after == CHOOSE f : f = [i \in 0 .. n |-> At(f, i)]
<1>1. n \in Nat
  OBVIOUS
<1>2. Relate(s, fact, k) = after[n]
  BY DEF Relate
<1>3. \A i \in 1 .. n : \A x \in R : (IF i <= k THEN x ELSE AddRelation(x, fact[k], fact[i])) \in R
  <2> SUFFICES ASSUME NEW i \in 1 .. n, NEW x \in R, ~(i <= k)
               PROVE  AddRelation(x, fact[k], fact[i]) \in R
    BY Zenon
  <2>1. k \in 1 .. n /\ fact[k] \in Keys \X Values /\ fact[i] \in Keys \X Values
    OBVIOUS
  <2>2. <<k, i>> \in {y \in (DOMAIN fact) \X (DOMAIN fact) : y[1] < y[2]}
    BY <2>1
  <2>3. {fact[k], fact[i]} \in Pairs(fact)
    BY <2>2 DEF Pairs
  <2> QED
    BY <2>1, <2>3, AddRelationKeeps
<1> HIDE DEF n, R
<1>4. s \in R /\ step \in [1 .. n -> [R -> R]]
  BY <1>3 DEF R
<1>5. \A i \in 1 .. n, x \in R : step[i][x] = IF i <= k THEN x ELSE AddRelation(x, fact[k], fact[i])
  OBVIOUS
<1> HIDE DEF step
<1>6. PICK f : Runs(f, n, R, s, step)
  BY <1>1, <1>4, Recursion
<1>7. f = [i \in 0 .. n |-> At(f, i)]
  <2>1. \A i \in 1 .. n : f[i] = IF i <= k THEN f[i - 1] ELSE AddRelation(f[i - 1], fact[k], fact[i])
    <3> TAKE i \in 1 .. n
    <3>1. f[i - 1] \in R
      <4>1. f \in [0 .. n -> R] /\ i - 1 \in 0 .. n
        BY <1>1, <1>6 DEF Runs
      <4> QED
        BY <4>1
    <3>2. f[i] = step[i][f[i - 1]]
      BY <1>6, Zenon DEF Runs
    <3> QED
      BY <1>5, <3>1, <3>2, Zenon
  <2>2. f = [i \in 0 .. n |-> f[i]] /\ f[0] = s
    BY <1>6 DEF Runs
  <2>3. \A i \in 0 .. n : i = 0 \/ i \in 1 .. n
    BY <1>1
  <2>4. \A i \in 0 .. n : f[i] = At(f, i)
    BY <2>1, <2>2, <2>3
  <2> HIDE DEF At
  <2> QED
    BY <2>2, <2>4
<1> HIDE DEF At
<1>8. after = [i \in 0 .. n |-> At(after, i)]
  BY <1>7
<1> HIDE DEF after
<1>9. after[0] = s /\ \A i \in 1 .. n : after[i] = IF i <= k THEN after[i - 1] ELSE AddRelation(after[i - 1], fact[k], fact[i])
  <2>1. \A i \in 0 .. n : after[i] = At(after, i)
    BY <1>8
  <2>2. 0 \in 0 .. n /\ \A i \in 1 .. n : i \in 0 .. n /\ i # 0
    BY <1>1
  <2> QED
    BY <2>1, <2>2 DEF At
<1>10. after[n] \in R
  <2>1. after[0] \in R /\ \A i \in 1 .. n : after[i - 1] \in R => after[i] \in R
    BY <1>3, <1>4, <1>9
  <2> QED
    BY <1>1, <2>1, Stays, Zenon
<1> QED
  BY <1>2, <1>10 DEF R

LEMMA AddRelationsKeep ==
    ASSUME NEW O, NEW s \in Stores(O), NEW fact \in Seq(Keys \X Values), Pairs(fact) \subseteq O
    PROVE  AddRelations(s, fact) \in Stores(O)
<1> DEFINE R == Stores(O)
           n == Len(fact)
           step == [i \in 1 .. n |-> [x \in R |-> Relate(x, fact, i)]]
           At(f, i) == IF i = 0 THEN s ELSE Relate(f[i - 1], fact, i)
           after == CHOOSE f : f = [i \in 0 .. n |-> At(f, i)]
<1>1. n \in Nat
  OBVIOUS
<1>2. AddRelations(s, fact) = after[n]
  BY DEF AddRelations
<1>3. \A i \in 1 .. n : \A x \in R : Relate(x, fact, i) \in R
  BY RelateKeeps
<1> HIDE DEF n, R
<1>4. s \in R /\ step \in [1 .. n -> [R -> R]]
  BY <1>3 DEF R
<1>5. \A i \in 1 .. n, x \in R : step[i][x] = Relate(x, fact, i)
  OBVIOUS
<1> HIDE DEF step
<1>6. PICK f : Runs(f, n, R, s, step)
  BY <1>1, <1>4, Recursion
<1>7. f = [i \in 0 .. n |-> At(f, i)]
  <2>1. \A i \in 1 .. n : f[i] = Relate(f[i - 1], fact, i)
    BY <1>1, <1>5, <1>6, SMTT(30) DEF Runs
  <2>2. f = [i \in 0 .. n |-> f[i]] /\ f[0] = s
    BY <1>6 DEF Runs
  <2>3. \A i \in 0 .. n : i = 0 \/ i \in 1 .. n
    BY <1>1
  <2>4. \A i \in 0 .. n : f[i] = At(f, i)
    BY <2>1, <2>2, <2>3
  <2> HIDE DEF At
  <2> QED
    BY <2>2, <2>4
<1> HIDE DEF At
<1>8. after = [i \in 0 .. n |-> At(after, i)]
  BY <1>7
<1> HIDE DEF after
<1>9. after[0] = s /\ \A i \in 1 .. n : after[i] = Relate(after[i - 1], fact, i)
  <2>1. \A i \in 0 .. n : after[i] = At(after, i)
    BY <1>8
  <2>2. 0 \in 0 .. n /\ \A i \in 1 .. n : i \in 0 .. n /\ i # 0
    BY <1>1
  <2> QED
    BY <2>1, <2>2 DEF At
<1>10. after[n] \in R
  <2>1. after[0] \in R /\ \A i \in 1 .. n : after[i - 1] \in R => after[i] \in R
    BY <1>3, <1>4, <1>9
  <2> QED
    BY <1>1, <2>1, Stays, Zenon
<1> QED
  BY <1>2, <1>10 DEF R

LEMMA LearnKeeps ==
    ASSUME NEW O, NEW s \in Stores(O), NEW fact \in Seq(Keys \X Values), Pairs(fact) \subseteq O
    PROVE  Learn(s, fact) \in Stores(O)
<1>1. AddValues(s, fact) \in Stores(O)
  BY AddValuesKeeps
<1> QED
  BY <1>1, AddRelationsKeep DEF Learn

\* A fact in another order is a fact.
LEMMA OrdersAreFacts ==
    ASSUME NEW given \in Facts, NEW fact \in Orders(given)
    PROVE  fact \in Seq(Keys \X Values)
<1>1. given \in Seq(Keys \X Values)
  BY LearningAssumption
<1>2. PICK n \in Nat : n = Len(given) /\ DOMAIN given = 1 .. n /\ \A i \in 1 .. n : given[i] \in Keys \X Values
  BY <1>1
<1>3. PICK q \in [1 .. n -> 1 .. n] : fact = [i \in 1 .. n |-> given[q[i]]]
  BY <1>2 DEF Orders
<1>4. fact \in [1 .. n -> Keys \X Values]
  BY <1>2, <1>3
<1> QED
  BY <1>4, SeqDef

-----------------------------------------------------------------------------
(* The pool of tokens.                                                     *)

Small(p) == IsFiniteSet(DOMAIN p) /\ Cardinality(DOMAIN p) <= MaxTokens
Pools == {p \in UNION {[T -> Nat] : T \in SUBSET Tokens} : Small(p)}
Stocks(O) == [pool : Pools, lastPrune : Int, store : Stores(O)]

LEMMA PoolMembers ==
    ASSUME NEW p
    PROVE  p \in Pools <=> /\ DOMAIN p \subseteq Tokens /\ p = [t \in DOMAIN p |-> p[t]]
                           /\ \A t \in DOMAIN p : p[t] \in Nat
                           /\ Small(p)
BY DEF Pools

\* Of a pool that is not empty some token is the oldest.
LEMMA OldestThere ==
    ASSUME NEW p \in Pools, DOMAIN p # {}
    PROVE  Oldest(p) \in DOMAIN p
<1> DEFINE T == {p[t] : t \in DOMAIN p}
<1>1. \A t \in DOMAIN p : p[t] \in Nat
  BY PoolMembers
<1>2. T \subseteq Nat /\ T # {}
  BY <1>1
<1>3. PICK x \in T : \A y \in T : x <= y
  <2> HIDE DEF T
  <2> QED
    BY <1>2, Least
<1>4. PICK t \in DOMAIN p : p[t] = x
  OBVIOUS
<1>5. \A u \in DOMAIN p : p[t] <= p[u]
  BY <1>3, <1>4
<1>6. \E v \in DOMAIN p : \A u \in DOMAIN p : p[v] <= p[u]
  BY <1>4, <1>5
<1> QED
  BY <1>6 DEF Oldest

LEMMA PruneKeeps ==
    ASSUME NEW O, NEW a \in Stocks(O), clock \in Nat
    PROVE  Prune(a) \in Stocks(O)
<1>1. PICK p \in Pools, l \in Int, s \in Stores(O) : a = [pool |-> p, lastPrune |-> l, store |-> s]
  BY DEF Stocks
<1> DEFINE T == {u \in DOMAIN p : clock - p[u] <= TokenTTL}
           q == [t \in T |-> p[t]]
<1>2. q \in Pools
  <2>1. DOMAIN q = T /\ T \subseteq DOMAIN p /\ \A t \in T : q[t] = p[t]
    OBVIOUS
  <2> HIDE DEF T
  <2>2. /\ DOMAIN p \subseteq Tokens /\ \A t \in DOMAIN p : p[t] \in Nat
        /\ IsFiniteSet(DOMAIN p) /\ Cardinality(DOMAIN p) <= MaxTokens
    BY PoolMembers DEF Small
  <2>3. IsFiniteSet(T) /\ Cardinality(T) <= Cardinality(DOMAIN p)
    BY <2>1, <2>2, FS_Subset
  <2>4. Cardinality(T) \in Nat /\ Cardinality(DOMAIN p) \in Nat /\ MaxTokens \in Nat
    BY <2>2, <2>3, FS_CardinalityType, LearningAssumption
  <2>5. Small(q)
    BY <2>1, <2>2, <2>3, <2>4 DEF Small
  <2>6. q = [t \in DOMAIN q |-> q[t]] /\ \A t \in DOMAIN q : q[t] \in Nat
    BY <2>1, <2>2
  <2>7. DOMAIN q \subseteq Tokens
    BY <2>1, <2>2
  <2> HIDE DEF q
  <2> QED
    BY <2>5, <2>6, <2>7, PoolMembers
<1>3. Unexpired(p) = q
  BY DEF Unexpired
<1> HIDE DEF q
<1>4. \/ Prune(a) = a
      \/ Prune(a) = [pool |-> p, lastPrune |-> clock, store |-> s]
      \/ Prune(a) = [pool |-> q, lastPrune |-> clock, store |-> s]
  <2>1. a.pool = p /\ a.store = s
    BY <1>1
  <2> QED
    BY <1>3, <2>1 DEF Prune
<1> QED
  BY <1>1, <1>2, <1>4 DEF Stocks

LEMMA RegisterKeeps ==
    ASSUME NEW O, NEW a \in Stocks(O), clock \in Nat, NEW t \in Tokens
    PROVE  Register(a, t) \in Stocks(O)
<1>1. PICK p \in Pools, l \in Int, s \in Stores(O) : Prune(a) = [pool |-> p, lastPrune |-> l, store |-> s]
  BY PruneKeeps DEF Stocks
<1>2. /\ DOMAIN p \subseteq Tokens /\ \A u \in DOMAIN p : p[u] \in Nat
      /\ p = [u \in DOMAIN p |-> p[u]]
      /\ IsFiniteSet(DOMAIN p) /\ Cardinality(DOMAIN p) <= MaxTokens
  BY PoolMembers DEF Small
<1>3. MaxTokens \in Nat \ {0} /\ Cardinality(DOMAIN p) \in Nat
  BY <1>2, FS_CardinalityType, LearningAssumption
<1>4. CASE t \in DOMAIN p
  <2> DEFINE q == [p EXCEPT ![t] = clock]
  <2>1. DOMAIN q = DOMAIN p /\ q = [u \in DOMAIN q |-> q[u]] /\ \A u \in DOMAIN q : q[u] \in Nat
    BY <1>2
  <2> HIDE DEF q
  <2>2. q \in Pools
    BY <1>2, <2>1, PoolMembers DEF Small
  <2>3. Register(a, t) = [Prune(a) EXCEPT !.pool[t] = clock]
    BY <1>1, <1>4 DEF Register
  <2>4. Register(a, t) = [pool |-> q, lastPrune |-> l, store |-> s]
    BY <1>1, <2>3 DEF q
  <2> QED
    BY <2>2, <2>4 DEF Stocks
<1>5. CASE t \notin DOMAIN p
  <2> DEFINE full == Cardinality(DOMAIN p) >= MaxTokens
             room == IF full THEN [u \in DOMAIN p \ {Oldest(p)} |-> p[u]] ELSE p
             q == [u \in DOMAIN room \cup {t} |-> IF u = t THEN clock ELSE room[u]]
             kvs == [i \in DOMAIN TokenKeys |-> <<TokenKeys[i], t>>]
  <2>1. /\ DOMAIN room \subseteq DOMAIN p /\ \A u \in DOMAIN room : room[u] = p[u]
        /\ IsFiniteSet(DOMAIN room) /\ Cardinality(DOMAIN room) < MaxTokens
    <3>1. CASE ~full
      BY <1>2, <1>3, <3>1
    <3>2. CASE full
      <4>1. DOMAIN p # {}
        BY <1>3, <3>2, FS_EmptySet
      <4>2. Oldest(p) \in DOMAIN p
        BY <4>1, OldestThere
      <4>3. IsFiniteSet(DOMAIN p \ {Oldest(p)}) /\ Cardinality(DOMAIN p \ {Oldest(p)}) = Cardinality(DOMAIN p) - 1
        BY <1>2, <4>2, FS_RemoveElement
      <4> QED
        BY <1>2, <1>3, <3>2, <4>3
    <3> QED
      BY <3>1, <3>2
  <2>2. DOMAIN q = {t} \cup DOMAIN room /\ q = [u \in DOMAIN q |-> q[u]]
        /\ q[t] = clock /\ \A u \in DOMAIN room : u # t => q[u] = room[u]
    OBVIOUS
  <2>3. Register(a, t) = [pool |-> q, lastPrune |-> l, store |-> AddValues(s, kvs)]
    BY <1>1, <1>5 DEF Register
  <2>4. AddValues(s, kvs) \in Stores(O)
    <3>1. kvs \in Seq(Keys \X Values)
      <4>1. PICK n \in Nat : DOMAIN TokenKeys = 1 .. n /\ \A i \in 1 .. n : TokenKeys[i] \in Keys
        BY LearningAssumption
      <4>2. t \in Values
        BY DEF Values
      <4>3. kvs \in [1 .. n -> Keys \X Values]
        BY <4>1, <4>2
      <4> QED
        BY <4>3, SeqDef
    <3> HIDE DEF kvs
    <3> QED
      BY <3>1, AddValuesKeeps
  <2> HIDE DEF q, room, kvs
  <2>5. Cardinality(DOMAIN q) <= MaxTokens /\ IsFiniteSet(DOMAIN q)
    <3>1. t \notin DOMAIN room
      BY <1>5, <2>1
    <3>2. /\ IsFiniteSet(DOMAIN room \cup {t})
          /\ Cardinality(DOMAIN room \cup {t}) = Cardinality(DOMAIN room) + 1
      BY <2>1, <3>1, FS_AddElement
    <3>3. DOMAIN q = DOMAIN room \cup {t} /\ Cardinality(DOMAIN room) \in Nat
      BY <2>1, <2>2, FS_CardinalityType
    <3> QED
      BY <1>3, <2>1, <3>2, <3>3
  <2>6. DOMAIN q \subseteq Tokens /\ \A u \in DOMAIN q : q[u] \in Nat
    BY <1>2, <2>1, <2>2
  <2>7. q \in Pools
    BY <2>2, <2>5, <2>6, PoolMembers DEF Small
  <2> QED
    BY <2>3, <2>4, <2>7 DEF Stocks
<1> QED
  BY <1>4, <1>5

LEMMA RegisterAllKeeps ==
    ASSUME NEW O, NEW a \in Stocks(O), clock \in Nat, NEW page \in Seq(Tokens)
    PROVE  RegisterAll(a, page) \in Stocks(O)
<1> DEFINE R == Stocks(O)
           n == Len(page)
           step == [i \in 1 .. n |-> [x \in R |-> Register(x, page[i])]]
           At(f, i) == IF i = 0 THEN a ELSE Register(f[i - 1], page[i])
           after == CHOOSE f : f = [i \in 0 .. n |-> At(f, i)]
<1>1. n \in Nat
  OBVIOUS
<1>2. RegisterAll(a, page) = after[n]
  BY DEF RegisterAll
<1>3. \A i \in 1 .. n : \A x \in R : Register(x, page[i]) \in R
  BY RegisterKeeps
<1> HIDE DEF n, R
<1>4. a \in R /\ step \in [1 .. n -> [R -> R]]
  BY <1>3 DEF R
<1>5. \A i \in 1 .. n, x \in R : step[i][x] = Register(x, page[i])
  OBVIOUS
<1> HIDE DEF step
<1>6. PICK f : Runs(f, n, R, a, step)
  BY <1>1, <1>4, Recursion
<1>7. f = [i \in 0 .. n |-> At(f, i)]
  <2>1. \A i \in 1 .. n : f[i] = Register(f[i - 1], page[i])
    BY <1>1, <1>5, <1>6 DEF Runs
  <2>2. f = [i \in 0 .. n |-> f[i]] /\ f[0] = a
    BY <1>6 DEF Runs
  <2>3. \A i \in 0 .. n : i = 0 \/ i \in 1 .. n
    BY <1>1
  <2>4. \A i \in 0 .. n : f[i] = At(f, i)
    BY <2>1, <2>2, <2>3
  <2> HIDE DEF At
  <2> QED
    BY <2>2, <2>4
<1> HIDE DEF At
<1>8. after = [i \in 0 .. n |-> At(after, i)]
  BY <1>7
<1> HIDE DEF after
<1>9. after[0] = a /\ \A i \in 1 .. n : after[i] = Register(after[i - 1], page[i])
  <2>1. \A i \in 0 .. n : after[i] = At(after, i)
    BY <1>8
  <2>2. 0 \in 0 .. n /\ \A i \in 1 .. n : i \in 0 .. n /\ i # 0
    BY <1>1
  <2> QED
    BY <2>1, <2>2 DEF At
<1>10. after[n] \in R
  <2>1. after[0] \in R /\ \A i \in 1 .. n : after[i - 1] \in R => after[i] \in R
    BY <1>3, <1>4, <1>9
  <2> QED
    BY <1>1, <2>1, Stays, Zenon
<1> QED
  BY <1>2, <1>10 DEF R

-----------------------------------------------------------------------------
(* The invariant.                                                          *)

\* A harvest began when its path was reserved last, or before.
Spaced ==
    /\ harvestAt \in [FormPaths -> Int]
    /\ \A h \in harvests : /\ h = [path |-> h.path, started |-> h.started, left |-> h.left]
                           /\ h.path \in FormPaths /\ h.started \in Nat
                           /\ h.started <= harvestAt[h.path]
    /\ \A g, h \in harvests :
          g.path = h.path /\ g # h => g.started - h.started >= Cooldown \/ h.started - g.started >= Cooldown

LInv ==
    /\ clock \in Nat /\ lastPrune \in Int
    /\ StoreNow \in Stores(observed)
    /\ operands \in Rings(Operands, MaxOperands)
    /\ pool \in Pools /\ Spaced

LEMMA StoresGrow ==
    ASSUME NEW O, NEW P, O \subseteq P
    PROVE  Stores(O) \subseteq Stores(P)
BY DEF Stores, Met

\* A store is its three maps.
LEMMA StoreParts ==
    ASSUME NEW O, NEW s \in Stores(O)
    PROVE  s = [values |-> s.values, seen |-> s.seen, relations |-> s.relations]
BY DEF Stores, StoreTypes

LEMMA InitLearned == LearnInit => LInv
<1> SUFFICES ASSUME LearnInit PROVE LInv
  OBVIOUS
<1>1. clock \in Nat /\ lastPrune \in Int
  BY DEF LearnInit, Never
<1>2. InStep(<<>>, {}, 0) /\ \A max \in Nat : InStep(<<>>, {}, max)
  BY DEF InStep, ToSet, IsInjective
<1>3. StoreNow \in Stores(observed)
  <2>1. /\ values = [k \in Keys |-> <<>>] /\ valueSeen = [k \in Keys |-> {}]
        /\ relations = [pk \in Ordered |-> <<>>]
    BY DEF LearnInit, Ordered
  <2>2. StoreNow \in StoreTypes
    BY <2>1 DEF StoreNow, StoreTypes
  <2>3. Consistent(StoreNow)
    BY <1>2, <2>1, LearningAssumption DEF StoreNow, Consistent
  <2>4. Met(StoreNow.relations, observed)
    BY <2>1 DEF StoreNow, Met
  <2> QED
    BY <2>2, <2>3, <2>4 DEF Stores
<1>4. operands \in Rings(Operands, MaxOperands)
  <2> DEFINE r == [list |-> <<>>, seen |-> {}]
  <2>1. r \in [list : Seq(Operands), seen : SUBSET Operands]
    OBVIOUS
  <2>2. r.list = <<>> /\ r.seen = {} /\ MaxOperands \in Nat
    BY LearningAssumption
  <2>3. operands = r
    BY DEF LearnInit
  <2> HIDE DEF r
  <2>4. InStep(r.list, r.seen, MaxOperands)
    BY <1>2, <2>2
  <2> QED
    BY <2>1, <2>3, <2>4 DEF Rings
<1>5. pool \in Pools
  <2>1. pool = <<>> /\ DOMAIN pool = {}
    BY DEF LearnInit
  <2>2. Small(pool)
    BY <2>1, FS_EmptySet, LearningAssumption DEF Small
  <2>3. pool = [t \in DOMAIN pool |-> pool[t]]
    BY <2>1
  <2> QED
    BY <2>1, <2>2, <2>3, PoolMembers
<1>6. Spaced
  BY DEF LearnInit, Spaced, Never
<1> QED
  BY <1>1, <1>3, <1>4, <1>5, <1>6 DEF LInv

LEMMA SuccessLearned ==
    ASSUME LInv, NEW given \in Facts, NEW fact \in Orders(given), LearnFromSuccess(fact)
    PROVE  LInv'
<1>1. fact \in Seq(Keys \X Values)
  BY OrdersAreFacts
<1> DEFINE O == observed \cup Pairs(fact)
           s == Learn(StoreNow, fact)
<1>2. StoreNow \in Stores(O) /\ Pairs(fact) \subseteq O
  <2>1. observed \subseteq O
    OBVIOUS
  <2> HIDE DEF O
  <2>2. StoreNow \in Stores(O)
    BY <2>1, StoresGrow DEF LInv
  <2> QED
    BY <2>2 DEF O
<1>3. /\ values' = s.values /\ valueSeen' = s.seen /\ relations' = s.relations
      /\ observed' = O
      /\ UNCHANGED <<operands, clock, pool, lastPrune, harvestAt, harvests>>
  BY DEF LearnFromSuccess, tokenVars
<1> HIDE DEF O
<1>4. s \in Stores(O)
  BY <1>1, <1>2, LearnKeeps
<1> HIDE DEF s
<1>5. StoreNow' = s
  BY <1>3, <1>4, StoreParts DEF StoreNow
<1>6. (StoreNow \in Stores(observed))'
  BY <1>3, <1>4, <1>5
<1>7. Spaced'
  BY <1>3 DEF LInv, Spaced
<1> QED
  BY <1>3, <1>6, <1>7 DEF LInv

LEMMA PollLearned ==
    ASSUME LInv, NEW answer \in {<<>>} \cup (Operands \X Operands), PollCmpLog(answer)
    PROVE  LInv'
<1>1. answer \in Seq(Operands)
  <2>1. CASE answer = <<>>
    BY <2>1
  <2>2. CASE answer \in Operands \X Operands
    <3>1. PICK v, w \in Operands : answer = <<v, w>>
      BY <2>2
    <3> QED
      BY <3>1
  <2> QED
    BY <2>1, <2>2
<1>2. /\ operands' = RingAll(operands, answer, MaxOperands)
      /\ UNCHANGED <<values, valueSeen, relations, observed, clock, pool, lastPrune, harvestAt, harvests>>
  BY DEF PollCmpLog, tokenVars
<1>3. MaxOperands \in Nat \ {0} /\ operands \in Rings(Operands, MaxOperands)
  BY LearningAssumption DEF LInv
<1>4. operands' \in Rings(Operands, MaxOperands)
  BY <1>1, <1>2, <1>3, RingAllKeeps
<1>5. StoreNow' = StoreNow
  BY <1>2 DEF StoreNow
<1>6. Spaced'
  BY <1>2 DEF LInv, Spaced
<1> QED
  BY <1>2, <1>4, <1>5, <1>6 DEF LInv

LEMMA PagesAreTokens ==
    ASSUME NEW page \in Pages
    PROVE  page \in Seq(Tokens)
<1>1. CASE page = <<>>
  BY <1>1
<1>2. CASE page \in {<<t>> : t \in Tokens}
  <2>1. PICK t \in Tokens : page = <<t>>
    BY <1>2
  <2> QED
    BY <2>1
<1>3. CASE page \in {<<x[1], x[2]>> : x \in {y \in Tokens \X Tokens : y[1] # y[2]}}
  <2>1. PICK t, u \in Tokens : page = <<t, u>>
    BY <1>3
  <2> QED
    BY <2>1
<1> QED
  BY <1>1, <1>2, <1>3 DEF Pages

LEMMA NowIsStock ==
    ASSUME LInv
    PROVE  PoolNow \in Stocks(observed) /\ clock \in Nat
BY DEF LInv, PoolNow, Stocks

\* What a page leaves keeps everything but the harvests.
LEMMA RegisteredKeeps ==
    ASSUME LInv, NEW a \in Stocks(observed), Registered(a)
    PROVE  /\ clock' = clock /\ lastPrune' \in Int /\ pool' \in Pools
           /\ (StoreNow \in Stores(observed))'
           /\ operands' \in Rings(Operands, MaxOperands)
<1>1. a.pool \in Pools /\ a.lastPrune \in Int /\ a.store \in Stores(observed)
  BY DEF Stocks
<1>2. /\ pool' = a.pool /\ lastPrune' = a.lastPrune
      /\ values' = a.store.values /\ valueSeen' = a.store.seen
      /\ UNCHANGED <<clock, relations, operands, observed>>
  BY DEF Registered
<1>3. (StoreNow \in Stores(observed))'
  <2> DEFINE s == [values |-> values', seen |-> valueSeen', relations |-> relations]
  <2>1. StoreNow' = s
    BY <1>2 DEF StoreNow
  <2>2. s.values = a.store.values /\ s.seen = a.store.seen /\ s.relations = StoreNow.relations
    BY <1>2 DEF StoreNow
  <2>3. /\ a.store \in StoreTypes /\ Consistent(a.store)
        /\ StoreNow \in StoreTypes /\ Met(StoreNow.relations, observed)
    BY <1>1 DEF Stores, LInv
  <2>4. s \in StoreTypes
    BY <1>2, <2>2, <2>3 DEF StoreTypes, StoreNow
  <2> HIDE DEF s
  <2>5. Consistent(s) /\ Met(s.relations, observed)
    BY <2>2, <2>3 DEF Consistent
  <2>6. s \in Stores(observed)
    BY <2>4, <2>5 DEF Stores
  <2> QED
    BY <1>2, <2>1, <2>6
<1> QED
  BY <1>1, <1>2, <1>3 DEF LInv

LEMMA PageLearned ==
    ASSUME LInv, NEW page \in Pages, LearnFromPage(page)
    PROVE  LInv'
<1> DEFINE pruned == Prune(PoolNow)
           a == IF Cardinality(DOMAIN pruned.pool) >= MaxTokens THEN pruned ELSE RegisterAll(pruned, page)
<1>1. Registered(a) /\ UNCHANGED <<harvestAt, harvests>>
  BY DEF LearnFromPage
<1>2. pruned \in Stocks(observed) /\ clock \in Nat
  BY NowIsStock, PruneKeeps
<1> HIDE DEF pruned
<1>3. a \in Stocks(observed)
  BY <1>2, PagesAreTokens, RegisterAllKeeps
<1> HIDE DEF a
<1>4. Spaced'
  BY <1>1 DEF LInv, Spaced
<1> QED
  BY <1>1, <1>3, <1>4, RegisteredKeeps DEF LInv

LEMMA RefusalLearned ==
    ASSUME LInv, NEW path \in FormPaths, HandleRefusedForm(path)
    PROVE  LInv'
<1> DEFINE new == [path |-> path, started |-> clock, left |-> HarvestPaths(path)]
<1>1. /\ Reserved(path) /\ harvestAt' = [harvestAt EXCEPT ![path] = clock]
      /\ harvests' = harvests \cup {new}
      /\ UNCHANGED <<clock, pool, lastPrune, values, valueSeen, relations, operands, observed>>
  BY DEF HandleRefusedForm, storeVars
<1>2. /\ clock \in Nat /\ Spaced /\ Cooldown \in Nat
  BY LearningAssumption DEF LInv
<1>3. new = [path |-> new.path, started |-> new.started, left |-> new.left]
      /\ new.path = path /\ new.started = clock
  OBVIOUS
<1> HIDE DEF new
<1>4. \A h \in harvests : h.path = path =>
          h.started \in Nat /\ h.started <= clock /\ clock - h.started >= Cooldown
  <2> SUFFICES ASSUME NEW h \in harvests, h.path = path
               PROVE  h.started \in Nat /\ h.started <= clock /\ clock - h.started >= Cooldown
    OBVIOUS
  <2>1. h.started \in Nat /\ harvestAt[path] \in Int /\ h.started <= harvestAt[path]
    BY <1>2 DEF Spaced
  <2>2. harvestAt[path] # Never
    BY <2>1 DEF Never
  <2>3. clock - harvestAt[path] >= Cooldown
    BY <1>1, <2>2 DEF Reserved
  <2> QED
    BY <1>2, <2>1, <2>3
<1>5. harvestAt' \in [FormPaths -> Int] /\ harvestAt'[path] = clock
      /\ \A p \in FormPaths \ {path} : harvestAt'[p] = harvestAt[p]
  BY <1>1, <1>2 DEF Spaced
<1>6. \A h \in harvests' : /\ h = [path |-> h.path, started |-> h.started, left |-> h.left]
                           /\ h.path \in FormPaths /\ h.started \in Nat
                           /\ h.started <= harvestAt'[h.path]
  <2> SUFFICES ASSUME NEW h \in harvests'
               PROVE  /\ h = [path |-> h.path, started |-> h.started, left |-> h.left]
                      /\ h.path \in FormPaths /\ h.started \in Nat
                      /\ h.started <= harvestAt'[h.path]
    OBVIOUS
  <2>1. CASE h = new
    BY <1>2, <1>3, <1>5, <2>1
  <2>2. CASE h \in harvests
    <3>1. /\ h = [path |-> h.path, started |-> h.started, left |-> h.left]
          /\ h.path \in FormPaths /\ h.started \in Nat /\ h.started <= harvestAt[h.path]
      BY <1>2, <2>2 DEF Spaced
    <3>2. CASE h.path = path
      BY <1>4, <1>5, <2>2, <3>1, <3>2
    <3>3. CASE h.path # path
      BY <1>5, <3>1, <3>3
    <3> QED
      BY <3>2, <3>3
  <2> QED
    BY <1>1, <2>1, <2>2
<1>7. \A g, h \in harvests' :
          g.path = h.path /\ g # h => g.started - h.started >= Cooldown \/ h.started - g.started >= Cooldown
  <2>1. \A h \in harvests : h.path = path => clock - h.started >= Cooldown
    BY <1>4
  <2>2. \A g, h \in harvests :
          g.path = h.path /\ g # h => g.started - h.started >= Cooldown \/ h.started - g.started >= Cooldown
    BY <1>2 DEF Spaced
  <2> QED
    BY <1>1, <1>3, <2>1, <2>2
<1>8. Spaced'
  BY <1>5, <1>6, <1>7 DEF Spaced
<1>9. StoreNow' = StoreNow
  BY <1>1 DEF StoreNow
<1> QED
  BY <1>1, <1>8, <1>9 DEF LInv

LEMMA HarvestLearned ==
    ASSUME LInv, NEW h \in harvests, NEW page \in Pages, Harvest(h, page)
    PROVE  LInv'
<1> DEFINE after == IF page = <<>> THEN {PoolNow, Prune(PoolNow)} ELSE {RegisterAll(PoolNow, page)}
<1>1. /\ \E a \in after : Registered(a)
      /\ harvestAt' = harvestAt
      /\ \E rest : harvests' = (harvests \ {h}) \cup (IF rest = <<>> THEN {} ELSE {[h EXCEPT !.left = rest]})
  BY DEF Harvest
<1>2. \E a \in Stocks(observed) : Registered(a)
  <2>1. PoolNow \in Stocks(observed) /\ Prune(PoolNow) \in Stocks(observed)
        /\ RegisterAll(PoolNow, page) \in Stocks(observed)
    BY NowIsStock, PagesAreTokens, PruneKeeps, RegisterAllKeeps
  <2> QED
    BY <1>1, <2>1
<1> HIDE DEF after
<1>3. PICK rest : harvests' \subseteq (harvests \ {h}) \cup {[h EXCEPT !.left = rest]}
  BY <1>1
<1> DEFINE new == [h EXCEPT !.left = rest]
<1>4. Spaced
  BY DEF LInv
<1>5. /\ new = [path |-> new.path, started |-> new.started, left |-> new.left]
      /\ new.path = h.path /\ new.started = h.started
  BY <1>4 DEF Spaced
<1>6. harvests' \subseteq (harvests \ {h}) \cup {new}
  BY <1>3
<1> HIDE DEF new
<1>7. \A g \in harvests' : /\ g = [path |-> g.path, started |-> g.started, left |-> g.left]
                           /\ g.path \in FormPaths /\ g.started \in Nat
                           /\ g.started <= harvestAt'[g.path]
  BY <1>1, <1>4, <1>5, <1>6 DEF Spaced
<1>8. \A g, k \in harvests' :
          g.path = k.path /\ g # k => g.started - k.started >= Cooldown \/ k.started - g.started >= Cooldown
  <2>1. \A g, k \in harvests :
          g.path = k.path /\ g # k => g.started - k.started >= Cooldown \/ k.started - g.started >= Cooldown
    BY <1>4 DEF Spaced
  <2> QED
    BY <1>5, <1>6, <2>1
<1>9. Spaced'
  BY <1>1, <1>4, <1>7, <1>8 DEF Spaced
<1> QED
  BY <1>1, <1>2, <1>9, RegisteredKeeps DEF LInv

LEMMA NextLearned == LInv /\ [LearnNext]_learnVars => LInv'
<1> SUFFICES ASSUME LInv, [LearnNext]_learnVars PROVE LInv'
  OBVIOUS
<1>1. CASE \E given \in Facts : \E fact \in Orders(given) : LearnFromSuccess(fact)
  BY <1>1, SuccessLearned
<1>2. CASE \E answer \in {<<>>} \cup (Operands \X Operands) : PollCmpLog(answer)
  BY <1>2, PollLearned
<1>3. CASE \E page \in Pages : LearnFromPage(page)
  BY <1>3, PageLearned
<1>4. CASE \E path \in FormPaths : HandleRefusedForm(path)
  BY <1>4, RefusalLearned
<1>5. CASE \E h \in harvests, page \in Pages : Harvest(h, page)
  BY <1>5, HarvestLearned
<1>6. ASSUME HandleAuthedResult \/ Expire \/ Tick \/ UNCHANGED learnVars PROVE LInv'
  <2>1. /\ UNCHANGED <<values, valueSeen, relations, operands, observed, pool, lastPrune, harvestAt, harvests>>
        /\ clock' = clock \/ clock' = clock + 1
    BY <1>6 DEF HandleAuthedResult, Expire, Tick, learnVars, storeVars, tokenVars
  <2>2. StoreNow' = StoreNow
    BY <2>1 DEF StoreNow
  <2>3. Spaced'
    BY <2>1 DEF LInv, Spaced
  <2> QED
    BY <2>1, <2>2, <2>3 DEF LInv
<1> QED
  BY <1>1, <1>2, <1>3, <1>4, <1>5, <1>6 DEF LearnNext

THEOREM StaysLearned == LearnSpec => []LInv
BY InitLearned, NextLearned, PTL DEF LearnSpec

-----------------------------------------------------------------------------
\* Each list of the runtime store and of the operands holds no value twice, no more
\* than fit, and exactly those that the set beside it says (store.go, cmplog.go).
THEOREM StoreStaysConsistent == LearnSpec => []StoreConsistent
<1>1. LInv => StoreConsistent
  <2> SUFFICES ASSUME LInv PROVE StoreConsistent
    OBVIOUS
  <2>1. Consistent(StoreNow)
    BY DEF LInv, Stores
  <2>2. \A k \in Keys : InStep(values[k], valueSeen[k], MaxValues)
    BY <2>1 DEF Consistent, StoreNow
  <2>3. InStep(operands.list, operands.seen, MaxOperands)
    BY DEF LInv, Rings
  <2> QED
    BY <2>2, <2>3 DEF StoreConsistent
<1> QED
  BY <1>1, StaysLearned, PTL

\* Values that a request takes together have been met together in one object or
\* request, each under its key (pickCorrelated, addRelation).
THEOREM PairsStayObserved == LearnSpec => []PairsObserved
<1>1. LInv => PairsObserved
  <2> SUFFICES ASSUME LInv, NEW x \in PickCorrelated(Keys) PROVE x \in observed
    BY DEF PairsObserved
  <2>1. /\ relations \in [Ordered -> Seq(Values \X Values)]
        /\ Met(relations, observed)
    BY DEF LInv, Stores, StoreNow, StoreTypes
  <2>2. PICK pk \in DOMAIN relations : \E p \in ToSet(relations[pk]) :
              x = {<<pk[1], p[1]>>, <<pk[2], p[2]>>}
    BY DEF PickCorrelated
  <2>3. PICK n \in DOMAIN relations[pk] :
              x = {<<pk[1], relations[pk][n][1]>>, <<pk[2], relations[pk][n][2]>>}
    BY <2>1, <2>2 DEF ToSet
  <2> QED
    BY <2>1, <2>2, <2>3 DEF Met
<1> QED
  BY <1>1, StaysLearned, PTL

\* The pool of anti-forgery tokens stays within its size whoever registers, and two
\* harvests under way for a path began a cooldown apart (auth.go).
THEOREM HarvestStaysBounded == LearnSpec => []HarvestBounded
<1>1. LInv => HarvestBounded
  BY PoolMembers DEF LInv, Spaced, Small, HarvestBounded
<1> QED
  BY <1>1, StaysLearned, PTL

-----------------------------------------------------------------------------
(* Clusters.                                                               *)

\* The findings of a cause.
Mine(key) == {i \in DOMAIN findings : findings[i].key = key}

\* What a cluster says of its findings.
Accounted(key) ==
    /\ IsFiniteSet(Mine(key)) /\ clusters[key].variants = Cardinality(Mine(key))
    /\ clusters[key].max \in Int
    /\ \A i \in Mine(key) : findings[i].severity <= clusters[key].max
    /\ \E i \in Mine(key) : findings[i].sig = clusters[key].rep /\ findings[i].severity = clusters[key].max

\* No signature is reported twice, and every finding's cluster accounts for it.
KInv ==
    /\ \E S : findings \in Seq(S)
    /\ \A i \in DOMAIN findings : findings[i].severity \in Int
    /\ \A i, j \in DOMAIN findings : findings[i].sig = findings[j].sig => i = j
    /\ \A i \in DOMAIN findings : findings[i].key \in DOMAIN clusters
    /\ \A key \in DOMAIN clusters : Accounted(key)

\* Nothing is reported yet.
LEMMA InitAccounts == ClustersInit => KInv
<1> SUFFICES ASSUME ClustersInit PROVE KInv
  OBVIOUS
<1>1. findings \in Seq({}) /\ DOMAIN findings = {} /\ DOMAIN clusters = {}
  BY DEF ClustersInit
<1> QED
  BY <1>1 DEF KInv

\* A new signature is one more finding of its cause and of no other.
LEMMA ReportAccounts ==
    ASSUME KInv, NEW f, f.severity \in Int, Report(f)
    PROVE  KInv'
<1>1. PICK S : findings \in Seq(S)
  BY DEF KInv
<1>2. PICK n \in Nat : n = Len(findings) /\ DOMAIN findings = 1 .. n
  BY <1>1
<1>3. PICK T : T = S \cup {f}
  OBVIOUS
<1>4. findings \in Seq(T) /\ f \in T
  <2>1. \A i \in 1 .. n : findings[i] \in S
    BY <1>1, <1>2
  <2>2. findings \in [1 .. n -> T]
    BY <1>1, <1>2, <1>3, <2>1
  <2> QED
    BY <1>3, <2>2, SeqDef
<1>5. /\ findings' \in Seq(T) /\ DOMAIN findings' = 1 .. n + 1 /\ findings'[n + 1] = f
      /\ \A i \in 1 .. n : findings'[i] = findings[i]
  BY <1>2, <1>4 DEF Report
<1>6. \A i \in 1 .. n + 1 : i \in 1 .. n \/ i = n + 1
  OBVIOUS
<1>7. \A i \in 1 .. n : findings[i].sig # f.sig
  BY <1>2 DEF Report, Known
<1> DEFINE old == clusters[f.key]
           new == IF f.key \in DOMAIN clusters THEN Folded(old, f.sig, f.severity)
                  ELSE NewCluster(f.sig, f.severity)
<1>8. /\ DOMAIN clusters' = DOMAIN clusters \cup {f.key}
      /\ \A k \in DOMAIN clusters : k # f.key => clusters'[k] = clusters[k]
      /\ clusters'[f.key] = new
  BY DEF Report, RecordCluster
<1> HIDE DEF new
<1>9. n + 1 \notin 1 .. n /\ n + 1 \in 1 .. n + 1 /\ \A i \in 1 .. n : i \in 1 .. n + 1
  OBVIOUS
<1>10. ASSUME NEW k
       PROVE  Mine(k)' = IF k = f.key THEN Mine(k) \cup {n + 1} ELSE Mine(k)
  <2>1. Mine(k)' = {i \in 1 .. n + 1 : findings'[i].key = k}
    BY <1>5 DEF Mine
  <2>2. Mine(k) = {i \in 1 .. n : findings[i].key = k}
    BY <1>2 DEF Mine
  <2>3. \A i \in 1 .. n : findings'[i].key = findings[i].key
    BY <1>5
  <2> QED
    BY <1>5, <1>6, <1>9, <2>1, <2>2, <2>3
<1>11. \A i \in DOMAIN findings' : findings'[i].severity \in Int
  BY <1>2, <1>5, <1>6 DEF KInv
<1>12. \A i, j \in DOMAIN findings' : findings'[i].sig = findings'[j].sig => i = j
  <2>1. \A i, j \in 1 .. n : findings[i].sig = findings[j].sig => i = j
    BY <1>2 DEF KInv
  <2> QED
    BY <1>5, <1>6, <1>7, <2>1
<1>13. \A i \in DOMAIN findings' : findings'[i].key \in DOMAIN clusters'
  <2>1. \A i \in 1 .. n : findings[i].key \in DOMAIN clusters
    BY <1>2 DEF KInv
  <2> QED
    BY <1>5, <1>6, <1>8, <2>1
<1>14. ASSUME NEW k \in DOMAIN clusters, k # f.key PROVE Accounted(k)'
  <2>1. Mine(k)' = Mine(k) /\ clusters'[k] = clusters[k]
    BY <1>8, <1>10, <1>14
  <2>2. Accounted(k)
    BY DEF KInv
  <2>3. \A i \in Mine(k) : findings'[i] = findings[i]
    BY <1>2, <1>5 DEF Mine
  <2> QED
    BY <2>1, <2>2, <2>3 DEF Accounted
<1>15. Accounted(f.key)'
  <2>1. Mine(f.key)' = Mine(f.key) \cup {n + 1} /\ n + 1 \notin Mine(f.key)
    BY <1>2, <1>9, <1>10 DEF Mine
  <2>2. \A i \in Mine(f.key) : findings'[i] = findings[i]
    BY <1>2, <1>5 DEF Mine
  <2>3. CASE f.key \in DOMAIN clusters
    <3>1. Accounted(f.key)
      BY <2>3 DEF KInv
    <3>2. /\ IsFiniteSet(Mine(f.key)')
          /\ Cardinality(Mine(f.key)') = Cardinality(Mine(f.key)) + 1
      BY <2>1, <3>1, FS_AddElement DEF Accounted
    <3>3. /\ IsFiniteSet(Mine(f.key)) /\ old.variants = Cardinality(Mine(f.key)) /\ old.max \in Int
          /\ \A i \in Mine(f.key) : findings[i].severity <= old.max
          /\ \E i \in Mine(f.key) : findings[i].sig = old.rep /\ findings[i].severity = old.max
      BY <3>1 DEF Accounted
    <3>4. new = Folded(old, f.sig, f.severity)
      BY <2>3 DEF new
    <3>5. \A i \in Mine(f.key) : findings[i].severity \in Int
      BY DEF KInv, Mine
    <3> HIDE DEF old
    <3>6. CASE f.severity > old.max
      <4>1. new = [variants |-> old.variants + 1, max |-> f.severity, rep |-> f.sig]
        BY <3>4, <3>6 DEF Folded
      <4>2. new.variants = Cardinality(Mine(f.key)') /\ new.max = f.severity /\ new.rep = f.sig
        BY <3>2, <3>3, <4>1
      <4>3. \A i \in Mine(f.key)' : findings'[i].severity <= new.max
        BY <1>5, <2>1, <2>2, <3>3, <3>5, <3>6, <4>2
      <4>4. \E i \in Mine(f.key)' : findings'[i].sig = new.rep /\ findings'[i].severity = new.max
        BY <1>5, <2>1, <4>2
      <4> QED
        BY <1>8, <3>2, <4>2, <4>3, <4>4 DEF Accounted
    <3>7. CASE ~(f.severity > old.max)
      <4>1. new = [variants |-> old.variants + 1, max |-> old.max, rep |-> old.rep]
        BY <3>4, <3>7 DEF Folded
      <4>2. new.variants = Cardinality(Mine(f.key)') /\ new.max = old.max /\ new.rep = old.rep
        BY <3>2, <3>3, <4>1
      <4>3. \A i \in Mine(f.key)' : findings'[i].severity <= new.max
        BY <1>5, <2>1, <2>2, <3>3, <3>5, <3>7, <4>2
      <4>4. \E i \in Mine(f.key)' : findings'[i].sig = new.rep /\ findings'[i].severity = new.max
        BY <2>1, <2>2, <3>3, <4>2
      <4> QED
        BY <1>8, <3>2, <3>3, <4>2, <4>3, <4>4 DEF Accounted
    <3> QED
      BY <3>6, <3>7
  <2>4. CASE f.key \notin DOMAIN clusters
    <3>1. Mine(f.key) = {}
      <4>1. \A i \in DOMAIN findings : findings[i].key \in DOMAIN clusters
        BY DEF KInv
      <4> QED
        BY <2>4, <4>1 DEF Mine
    <3>2. IsFiniteSet(Mine(f.key)') /\ Cardinality(Mine(f.key)') = 1
      <4>1. Mine(f.key)' = {n + 1}
        BY <2>1, <3>1
      <4> QED
        BY <4>1, FS_Singleton
    <3>3. new.variants = 1 /\ new.max = f.severity /\ new.rep = f.sig
      BY <2>4 DEF new, NewCluster
    <3>4. \A i \in Mine(f.key)' : findings'[i] = f
      BY <1>5, <2>1, <3>1
    <3>5. \E i \in Mine(f.key)' : TRUE
      BY <2>1
    <3>6. \A i \in Mine(f.key)' : findings'[i].severity <= new.max /\ findings'[i].sig = new.rep /\ findings'[i].severity = new.max
      BY <3>3, <3>4
    <3> QED
      BY <1>8, <3>2, <3>3, <3>5, <3>6 DEF Accounted
  <2> QED
    BY <2>3, <2>4
<1>16. \A k \in DOMAIN clusters' : Accounted(k)'
  BY <1>8, <1>14, <1>15
<1> QED
  BY <1>5, <1>11, <1>12, <1>13, <1>16 DEF KInv

\* Every finding counts once in the cluster of its cause, whose representative is
\* the worst of them, for any keys, signatures and severities in any order
\* (recordCrash, recordCluster).
THEOREM ClustersStayTrue == ClustersSpec => []ClustersAccount
<1>1. KInv /\ [ClustersNext]_<<findings, clusters>> => KInv'
  <2> SUFFICES ASSUME KInv, [ClustersNext]_<<findings, clusters>> PROVE KInv'
    OBVIOUS
  <2>1. CASE ClustersNext
    BY <2>1, ReportAccounts DEF ClustersNext
  <2>2. CASE UNCHANGED <<findings, clusters>>
    <3>1. findings' = findings /\ clusters' = clusters
      BY <2>2
    <3>2. \A k : Mine(k)' = Mine(k)
      BY <3>1 DEF Mine
    <3>3. \A k : Accounted(k)' <=> Accounted(k)
      BY <3>1, <3>2 DEF Accounted
    <3> QED
      BY <3>1, <3>3 DEF KInv
  <2> QED
    BY <2>1, <2>2
<1>2. KInv => ClustersAccount
  <2> SUFFICES ASSUME KInv, NEW key \in DOMAIN clusters \cup {findings[i].key : i \in DOMAIN findings}
               PROVE  /\ key \in DOMAIN clusters
                      /\ clusters[key].variants = Cardinality({findings[i].sig : i \in Mine(key)})
                      /\ Cardinality(Mine(key)) = clusters[key].variants
                      /\ clusters[key].max = Max({findings[i].severity : i \in Mine(key)})
                      /\ \E i \in Mine(key) : findings[i].sig = clusters[key].rep
                                              /\ findings[i].severity = clusters[key].max
    BY DEF ClustersAccount, Mine
  <2>1. key \in DOMAIN clusters /\ Accounted(key)
    BY DEF KInv
  <2>2. PICK M : M = Mine(key)
    OBVIOUS
  <2> DEFINE sigs == {findings[i].sig : i \in M}
             sev == {findings[i].severity : i \in M}
  <2>3. Cardinality(sigs) = Cardinality(M)
    <3> DEFINE g == [i \in M |-> findings[i].sig]
    <3>1. \A i, j \in M : findings[i].sig = findings[j].sig => i = j
      BY <2>2 DEF KInv, Mine
    <3>2. g \in Bijection(M, sigs)
      BY <3>1 DEF Bijection, Injection, Surjection, IsInjective
    <3>3. ExistsBijection(M, sigs)
      BY <3>2 DEF ExistsBijection
    <3> HIDE DEF sigs
    <3> QED
      BY <2>1, <2>2, <3>3, FS_Bijection DEF Accounted
  <2>4. clusters[key].max = Max(sev)
    <3>1. clusters[key].max \in sev /\ \A x \in sev : x \in Int /\ x <= clusters[key].max
      BY <2>1, <2>2 DEF Accounted, KInv, Mine
    <3> HIDE DEF sev
    <3>2. \E x \in sev : \A y \in sev : x >= y
      BY <3>1
    <3>3. Max(sev) \in sev /\ \A y \in sev : Max(sev) >= y
      BY <3>2 DEF Max
    <3> QED
      BY <2>1, <3>1, <3>3 DEF Accounted
  <2> QED
    BY <2>1, <2>2, <2>3, <2>4 DEF Accounted
<1> QED
  BY <1>1, <1>2, InitAccounts, PTL DEF ClustersSpec

-----------------------------------------------------------------------------
(* CrashLog: minimization.                                                 *)

Fields == {"tmpl", "mode", "label", "value", "query", "seg", "tree", "body", "enc", "history"}

\* A request of a template that crashes the server and whose text is its tree.
Reproduces(item, t) ==
    /\ DOMAIN item = Fields /\ item.tmpl = t
    /\ Crashes(item) # 0
    /\ t.typed => item.body = item.tree

\* What minimization keeps: the accepted request reproduces the crash, and the working
\* copy is its body.
Sound(m, t) == Reproduces(m.item, t) /\ (t.typed => m.root = m.item.tree)

\* A candidate takes the request's place only when it crashed.
LEMMA TryOutcome ==
    ASSUME NEW m, NEW cand, NEW lost
    PROVE  /\ Try(m, cand, lost).root = m.root
           /\ \/ Try(m, cand, lost).item = m.item
              \/ Try(m, cand, lost).item = cand /\ Crashes(cand) # 0
BY DEF Try

\* What an edit does to a request.
LEMMA EditIs ==
    ASSUME NEW item, DOMAIN item = Fields, NEW edit
    PROVE  LET e == Edited(item, edit)
           IN /\ DOMAIN e = Fields /\ e.tmpl = item.tmpl /\ e.tree = item.tree /\ e.enc = item.enc
              /\ e.query = IF edit.part = "query" THEN DropKey(item.query, edit.what) ELSE item.query
              /\ e.body = IF edit.part = "body" THEN DropField(item.body, edit.what) ELSE item.body
              /\ e.seg = IF edit.part = "segment" /\ item.seg = edit.what THEN edit.by ELSE item.seg
<1>1. ASSUME NEW q PROVE LET e == [item EXCEPT !.query = q]
                         IN /\ DOMAIN e = Fields /\ e.tmpl = item.tmpl /\ e.tree = item.tree /\ e.enc = item.enc
                            /\ e.query = q /\ e.body = item.body /\ e.seg = item.seg
  BY DEF Fields
<1>2. ASSUME NEW q PROVE LET e == [item EXCEPT !.body = q]
                         IN /\ DOMAIN e = Fields /\ e.tmpl = item.tmpl /\ e.tree = item.tree /\ e.enc = item.enc
                            /\ e.body = q /\ e.query = item.query /\ e.seg = item.seg
  BY DEF Fields
<1>3. ASSUME NEW q PROVE LET e == [item EXCEPT !.seg = q]
                         IN /\ DOMAIN e = Fields /\ e.tmpl = item.tmpl /\ e.tree = item.tree /\ e.enc = item.enc
                            /\ e.seg = q /\ e.query = item.query /\ e.body = item.body
  BY DEF Fields
<1>4. CASE edit.part = "query"
  <2>1. Edited(item, edit) = [item EXCEPT !.query = DropKey(@, edit.what)]
    BY <1>4, Zenon DEF Edited
  <2> QED
    BY <1>1, <1>4, <2>1
<1>5. CASE edit.part = "body"
  <2>1. edit.part # "query"
    BY <1>5
  <2>2. Edited(item, edit) = [item EXCEPT !.body = DropField(@, edit.what)]
    BY <1>5, <2>1, Zenon DEF Edited
  <2> QED
    BY <1>2, <1>5, <2>2
<1>6. CASE edit.part = "segment" /\ item.seg = edit.what
  <2>1. edit.part # "query" /\ edit.part # "body"
    BY <1>6
  <2>2. Edited(item, edit) = [item EXCEPT !.seg = edit.by]
    BY <1>6, <2>1, Zenon DEF Edited
  <2> QED
    BY <1>3, <1>6, <2>2
<1>7. CASE edit.part # "query" /\ edit.part # "body" /\ ~(edit.part = "segment" /\ item.seg = edit.what)
  <2>1. Edited(item, edit) = item
    BY <1>7, Zenon DEF Edited
  <2> QED
    BY <1>7, <2>1
<1> QED
  BY <1>4, <1>5, <1>6, <1>7

\* A crash takes no more of a request than what is sent.
LEMMA SameCrash ==
    ASSUME NEW p, NEW q, p.tmpl = q.tmpl, p.query = q.query, p.seg = q.seg,
           p.tree = q.tree, p.body = q.body, p.enc = q.enc
    PROVE  Crashes(p) = Crashes(q)
<1>1. ASSUME NEW enc, NEW tree PROVE Features(p, enc, tree) = Features(q, enc, tree)
  BY Zenon DEF Features
<1>2. ASSUME NEW enc, NEW tree PROVE FirstBug(p, enc, tree) = FirstBug(q, enc, tree)
  <2> DEFINE Hit(r) == {b \in DOMAIN server.bugs :
                         /\ server.bugs[b].tmpl = r.tmpl.name
                         /\ server.bugs[b].needs \subseteq Features(r, enc, tree)}
  <2>1. Hit(p) = Hit(q)
    BY <1>1
  <2>2. ASSUME NEW r PROVE FirstBug(r, enc, tree) =
                             IF Hit(r) = {} THEN 0 ELSE CHOOSE b \in Hit(r) : \A c \in Hit(r) : b <= c
    BY Zenon DEF FirstBug
  <2> HIDE DEF Hit
  <2> QED
    BY <2>1, <2>2
<1> QED
  BY <1>2, ZenonT(30) DEF Crashes

LEMMA EditKeeps ==
    ASSUME NEW m, NEW t, Sound(m, t), NEW lost, NEW edit, edit.part = "body" => ~t.typed
    PROVE  Sound(Try(m, Edited(m.item, edit), lost), t)
<1> DEFINE cand == Edited(m.item, edit)
           r == Try(m, cand, lost)
<1>1. DOMAIN m.item = Fields /\ m.item.tmpl = t
  BY DEF Sound, Reproduces
<1>2. /\ DOMAIN cand = Fields /\ cand.tmpl = t /\ cand.tree = m.item.tree
      /\ edit.part # "body" => cand.body = m.item.body
  BY <1>1, EditIs
<1> HIDE DEF cand
<1>3. /\ r.root = m.root
      /\ r.item = m.item \/ (r.item = cand /\ Crashes(cand) # 0)
  BY TryOutcome
<1> HIDE DEF r
<1>4. Sound(r, t)
  BY <1>2, <1>3 DEF Sound, Reproduces
<1> QED
  BY <1>4 DEF r, cand

\* f goes through a loop over edits.
Tried(f, m, edits, lost) ==
    /\ f[0] = m /\ f[Len(edits)] = TryAll(m, edits, lost)
    /\ \A k \in 1 .. Len(edits) : f[k] = Try(f[k - 1], Edited(f[k - 1].item, edits[k]), lost)

\* There is such a run of every loop, ...
LEMMA TryAllRuns ==
    ASSUME NEW m, NEW edits, Len(edits) \in Nat, NEW lost
    PROVE  \E f : Tried(f, m, edits, lost)
<1> DEFINE n == Len(edits)
           Then(x, k) == Try(x, Edited(x.item, edits[k]), lost)
           tried[k \in 0 .. n] == IF k = 0 THEN m ELSE Then(tried[k - 1], k)
           T == {j \in 0 .. n : \E f : f = [k \in 0 .. j |-> IF k = 0 THEN m ELSE Then(f[k - 1], k)]}
<1>1. TryAll(m, edits, lost) = tried[n]
  BY DEF TryAll
<1> HIDE DEF Then
<1>2. 0 \in T
  <2> DEFINE f == [k \in 0 .. 0 |-> m]
  <2>1. f = [k \in 0 .. 0 |-> IF k = 0 THEN m ELSE Then(f[k - 1], k)]
    OBVIOUS
  <2> HIDE DEF f
  <2> QED
    BY <2>1
<1>3. ASSUME NEW j \in 0 .. n, j \in T, j < n PROVE j + 1 \in T
  <2>1. PICK f : f = [k \in 0 .. j |-> IF k = 0 THEN m ELSE Then(f[k - 1], k)]
    BY <1>3
  <2> DEFINE x == Then(f[j], j + 1)
             g == [k \in 0 .. j + 1 |-> IF k = j + 1 THEN x ELSE f[k]]
  <2> HIDE DEF x
  <2>2. g[j + 1] = x /\ \A k \in 0 .. j : g[k] = f[k]
    OBVIOUS
  <2>3. g = [k \in 0 .. j + 1 |-> g[k]]
    OBVIOUS
  <2> HIDE DEF g
  <2>4. \A k \in 0 .. j : f[k] = IF k = 0 THEN m ELSE Then(f[k - 1], k)
    BY <2>1
  <2>5. \A k \in 0 .. j + 1 : g[k] = IF k = 0 THEN m ELSE Then(g[k - 1], k)
    <3> TAKE k \in 0 .. j + 1
    <3>1. CASE k = j + 1
      <4>1. k # 0 /\ k - 1 = j /\ j \in 0 .. j
        BY <3>1
      <4>2. g[k] = Then(g[k - 1], k)
        BY <2>2, <3>1, <4>1 DEF x
      <4> QED
        BY <4>1, <4>2
    <3>2. CASE k # j + 1
      <4>1. k \in 0 .. j /\ (k # 0 => k - 1 \in 0 .. j)
        BY <3>2
      <4>2. g[k] = f[k] /\ (k # 0 => g[k - 1] = f[k - 1])
        BY <2>2, <4>1
      <4>3. f[k] = IF k = 0 THEN m ELSE Then(f[k - 1], k)
        BY <2>4, <4>1
      <4> QED
        BY <4>2, <4>3
    <3> QED
      BY <3>1, <3>2
  <2>6. g = [k \in 0 .. j + 1 |-> IF k = 0 THEN m ELSE Then(g[k - 1], k)]
    BY <2>3, <2>5
  <2>7. j + 1 \in 0 .. n
    BY <1>3
  <2> QED
    BY <2>6, <2>7
<1>4. n \in T
  <2> HIDE DEF T, n
  <2>1. n \in Nat
    BY DEF n
  <2> QED
    BY <1>2, <1>3, <2>1, UpTo, Zenon
<1>5. tried = [k \in 0 .. n |-> IF k = 0 THEN m ELSE Then(tried[k - 1], k)]
  <2>1. \E f : f = [k \in 0 .. n |-> IF k = 0 THEN m ELSE Then(f[k - 1], k)]
    BY <1>4
  <2> QED
    BY <2>1, Zenon
<1> HIDE DEF tried
<1>6. \A k \in 0 .. n : tried[k] = IF k = 0 THEN m ELSE Then(tried[k - 1], k)
  BY <1>5
<1>7. tried[0] = m /\ \A k \in 1 .. n : tried[k] = Then(tried[k - 1], k)
  BY <1>6
<1>8. Tried(tried, m, edits, lost)
  BY <1>1, <1>7 DEF Then, Tried
<1> QED
  BY <1>8

\* ... and what it tries keeps the crash.
LEMMA TryAllKeeps ==
    ASSUME NEW m, NEW t, Sound(m, t), NEW lost, NEW edits, Len(edits) \in Nat,
           \A k \in 1 .. Len(edits) : edits[k].part = "body" => ~t.typed
    PROVE  Sound(TryAll(m, edits, lost), t)
<1>1. PICK n \in Nat : n = Len(edits)
  OBVIOUS
<1>2. PICK f : Tried(f, m, edits, lost)
  BY TryAllRuns
<1>20. /\ f[0] = m /\ f[n] = TryAll(m, edits, lost)
       /\ \A k \in 1 .. n : f[k] = Try(f[k - 1], Edited(f[k - 1].item, edits[k]), lost)
  BY <1>1, <1>2 DEF Tried
<1> DEFINE T == {k \in 0 .. n : Sound(f[k], t)}
<1>3. 0 \in T
  BY <1>20
<1>4. ASSUME NEW k \in 0 .. n, k \in T, k < n PROVE k + 1 \in T
  <2>1. k + 1 \in 1 .. n /\ k + 1 \in 0 .. n /\ (k + 1) - 1 = k
    BY <1>4
  <2>2. f[k + 1] = Try(f[k], Edited(f[k].item, edits[k + 1]), lost)
    BY <1>20, <2>1
  <2>3. edits[k + 1].part = "body" => ~t.typed
    BY <1>1, <2>1
  <2>4. Sound(f[k], t)
    BY <1>4
  <2>5. Sound(f[k + 1], t)
    BY <2>2, <2>3, <2>4, EditKeeps
  <2> QED
    BY <2>1, <2>5
<1>5. n \in T
  <2> HIDE DEF T
  <2> QED
    BY <1>3, <1>4, UpTo, Zenon
<1> QED
  BY <1>20, <1>5

\* A kid of the working copy is left out for good, or it is back where it was.
LEMMA KidKeeps ==
    ASSUME NEW w, NEW t, Sound(w.m, t), t.typed, NEW lost
    PROVE  Sound(TryKid(w, lost).m, t)
<1> DEFINE cut == Cut(w.m, Append(Head(w.todo), w.kid))
           cand == Candidate(cut)
           tried == Try(cut, cand, lost)
<1>1. DOMAIN w.m.item = Fields /\ w.m.item.tmpl = t
  BY DEF Sound, Reproduces
<1>2. cut.item = w.m.item
  BY DEF Cut
<1>3. DOMAIN cand = Fields /\ cand.tmpl = t /\ cand.tree = cut.root /\ cand.body = cut.root
  <2>1. ASSUME NEW r
        PROVE  LET c == [w.m.item EXCEPT !.tree = r, !.body = r, !.enc = "json"]
               IN DOMAIN c = Fields /\ c.tmpl = w.m.item.tmpl /\ c.tree = r /\ c.body = r
    BY <1>1, Zenon DEF Fields
  <2> QED
    BY <1>1, <1>2, <2>1, Zenon DEF Candidate
<1>4. TryKid(w, lost).m = IF tried.item # w.m.item THEN tried ELSE Restored(tried, w.m)
  BY DEF TryKid
<1> HIDE DEF cut, cand
<1>5. /\ tried.root = cut.root
      /\ tried.item = cut.item \/ (tried.item = cand /\ Crashes(cand) # 0)
  BY TryOutcome
<1> HIDE DEF tried
<1>6. CASE tried.item # w.m.item
  <2>1. TryKid(w, lost).m = tried
    BY <1>4, <1>6
  <2>2. tried.item = cand /\ Crashes(cand) # 0
    BY <1>2, <1>5, <1>6
  <2> QED
    BY <1>3, <1>5, <2>1, <2>2 DEF Sound, Reproduces
<1>7. CASE tried.item = w.m.item
  <2>1. TryKid(w, lost).m = Restored(tried, w.m)
    BY <1>4, <1>7
  <2>2. Restored(tried, w.m).item = w.m.item /\ Restored(tried, w.m).root = w.m.root
    BY <1>7 DEF Restored
  <2> QED
    BY <2>1, <2>2 DEF Sound, Reproduces
<1> QED
  BY <1>6, <1>7

LEMMA VisitKeeps ==
    ASSUME NEW w, NEW t, Sound(w.m, t), t.typed, NEW lost
    PROVE  Sound(Visit(w, lost).m, t)
<1>1. \/ Visit(w, lost) = w
      \/ Visit(w, lost) = TryKid(w, lost)
      \/ Visit(w, lost).m = w.m
  BY DEF Visit
<1> QED
  BY <1>1, KidKeeps

\* The accepted request holds the working copy.
WalkEnd(done, m) ==
    IF done.item = m.item THEN done
    ELSE [item |-> [done.item EXCEPT !.tree = done.root], root |-> done.root, probes |-> done.probes]

\* The walk over a body exists, ...
LEMMA WalkRuns ==
    ASSUME NEW m, NEW lost
    PROVE  \E f : /\ f[0] = [m |-> m, todo |-> <<<<>>>>, kid |-> 1]
                  /\ \A k \in 1 .. WalkSteps : f[k] = Visit(f[k - 1], lost)
                  /\ MinimizeTree(m, lost) = WalkEnd(f[WalkSteps].m, m)
<1> DEFINE n == WalkSteps
           first == [m |-> m, todo |-> <<<<>>>>, kid |-> 1]
           Then(x) == Visit(x, lost)
           walk[k \in 0 .. n] == IF k = 0 THEN first ELSE Then(walk[k - 1])
           T == {j \in 0 .. n : \E f : f = [k \in 0 .. j |-> IF k = 0 THEN first ELSE Then(f[k - 1])]}
<1>1. MinimizeTree(m, lost) = WalkEnd(walk[n].m, m)
  BY Zenon DEF MinimizeTree, WalkEnd
<1>3. n \in Nat
  BY CrashLogAssumption DEF WalkSteps
<1> HIDE DEF Then, first, n
<1>4. 0 \in T
  <2> DEFINE f == [k \in 0 .. 0 |-> first]
  <2>1. f = [k \in 0 .. 0 |-> IF k = 0 THEN first ELSE Then(f[k - 1])]
    OBVIOUS
  <2> HIDE DEF f
  <2> QED
    BY <1>3, <2>1
<1>5. ASSUME NEW j \in 0 .. n, j \in T, j < n PROVE j + 1 \in T
  <2>1. PICK f : f = [k \in 0 .. j |-> IF k = 0 THEN first ELSE Then(f[k - 1])]
    BY <1>5
  <2> DEFINE x == Then(f[j])
             g == [k \in 0 .. j + 1 |-> IF k = j + 1 THEN x ELSE f[k]]
  <2> HIDE DEF x
  <2>2. g[j + 1] = x /\ \A k \in 0 .. j : g[k] = f[k]
    OBVIOUS
  <2>3. g = [k \in 0 .. j + 1 |-> g[k]]
    OBVIOUS
  <2> HIDE DEF g
  <2>4. \A k \in 0 .. j : f[k] = IF k = 0 THEN first ELSE Then(f[k - 1])
    BY <2>1
  <2>5. \A k \in 0 .. j + 1 : g[k] = IF k = 0 THEN first ELSE Then(g[k - 1])
    <3> TAKE k \in 0 .. j + 1
    <3>1. CASE k = j + 1
      <4>1. k # 0 /\ k - 1 = j /\ j \in 0 .. j
        BY <3>1
      <4>2. g[k] = Then(g[k - 1])
        BY <2>2, <3>1, <4>1 DEF x
      <4> QED
        BY <4>1, <4>2
    <3>2. CASE k # j + 1
      <4>1. k \in 0 .. j /\ (k # 0 => k - 1 \in 0 .. j)
        BY <3>2
      <4>2. g[k] = f[k] /\ (k # 0 => g[k - 1] = f[k - 1])
        BY <2>2, <4>1
      <4>3. f[k] = IF k = 0 THEN first ELSE Then(f[k - 1])
        BY <2>4, <4>1
      <4> QED
        BY <4>2, <4>3
    <3> QED
      BY <3>1, <3>2
  <2>6. g = [k \in 0 .. j + 1 |-> IF k = 0 THEN first ELSE Then(g[k - 1])]
    BY <2>3, <2>5
  <2>7. j + 1 \in 0 .. n
    BY <1>3, <1>5
  <2> QED
    BY <2>6, <2>7
<1>6. n \in T
  <2> HIDE DEF T
  <2> QED
    BY <1>3, <1>4, <1>5, UpTo, Zenon
<1>7. walk = [k \in 0 .. n |-> IF k = 0 THEN first ELSE Then(walk[k - 1])]
  <2>1. \E f : f = [k \in 0 .. n |-> IF k = 0 THEN first ELSE Then(f[k - 1])]
    BY <1>6, Zenon
  <2> QED
    BY <2>1, Zenon
<1> HIDE DEF walk
<1>8. \A k \in 0 .. n : walk[k] = IF k = 0 THEN first ELSE Then(walk[k - 1])
  BY <1>7
<1>9. walk[0] = first /\ \A k \in 1 .. n : walk[k] = Then(walk[k - 1])
  BY <1>3, <1>8
<1>10. /\ walk[0] = [m |-> m, todo |-> <<<<>>>>, kid |-> 1]
       /\ \A k \in 1 .. WalkSteps : walk[k] = Visit(walk[k - 1], lost)
  BY <1>9 DEF first, Then, n
<1>11. MinimizeTree(m, lost) = WalkEnd(walk[WalkSteps].m, m)
  BY <1>1, Zenon DEF n
<1> QED
  BY <1>10, <1>11, Zenon

\* ... and leaves a request that crashes and whose text is its tree: the working copy that
\* the request ends up with is the body it was accepted with.
LEMMA TreeKeeps ==
    ASSUME NEW m, NEW t, Sound(m, t), t.typed, NEW lost
    PROVE  Sound(MinimizeTree(m, lost), t)
<1>1. PICK n \in Nat : n = WalkSteps
  BY CrashLogAssumption DEF WalkSteps
<1>2. PICK f : /\ f[0] = [m |-> m, todo |-> <<<<>>>>, kid |-> 1]
               /\ \A k \in 1 .. n : f[k] = Visit(f[k - 1], lost)
               /\ MinimizeTree(m, lost) = WalkEnd(f[n].m, m)
  BY <1>1, WalkRuns
<1> DEFINE T == {k \in 0 .. n : Sound(f[k].m, t)}
<1>3. 0 \in T
  BY <1>2
<1>4. ASSUME NEW k \in 0 .. n, k \in T, k < n PROVE k + 1 \in T
  <2>1. k + 1 \in 1 .. n /\ k + 1 \in 0 .. n /\ (k + 1) - 1 = k
    BY <1>4
  <2>2. f[k + 1] = Visit(f[k], lost)
    BY <1>2, <2>1
  <2>3. Sound(f[k].m, t)
    BY <1>4
  <2>4. Sound(f[k + 1].m, t)
    BY <2>2, <2>3, VisitKeeps
  <2> QED
    BY <2>1, <2>4
<1>5. n \in T
  <2> HIDE DEF T
  <2> QED
    BY <1>3, <1>4, UpTo, Zenon
<1>6. PICK done : done = f[n].m
  OBVIOUS
<1>7. Sound(done, t)
  BY <1>5, <1>6
<1>8. MinimizeTree(m, lost) = WalkEnd(done, m)
  BY <1>2, <1>6
<1>9. CASE done.item = m.item
  BY <1>7, <1>8, <1>9 DEF WalkEnd
<1>10. CASE done.item # m.item
  <2> DEFINE e == [done.item EXCEPT !.tree = done.root]
  <2>1. WalkEnd(done, m).item = e /\ WalkEnd(done, m).root = done.root
    BY <1>10, Zenon DEF WalkEnd
  <2>2. DOMAIN done.item = Fields /\ done.root = done.item.tree
    BY <1>7 DEF Sound, Reproduces
  <2>3. /\ DOMAIN e = Fields /\ e.tmpl = done.item.tmpl /\ e.query = done.item.query /\ e.seg = done.item.seg
        /\ e.tree = done.root /\ e.body = done.item.body /\ e.enc = done.item.enc
    BY <2>2, Zenon DEF Fields
  <2> HIDE DEF e
  <2>4. Crashes(e) = Crashes(done.item)
    BY <2>2, <2>3, SameCrash
  <2> QED
    BY <1>7, <1>8, <2>1, <2>2, <2>3, <2>4 DEF Sound, Reproduces
<1> QED
  BY <1>9, <1>10

\* A sequence of candidates is as long as what they are cut from.
LEMMA EditsLen ==
    ASSUME NEW n \in Nat, NEW e, e = [k \in 1 .. n |-> e[k]]
    PROVE  Len(e) = n
<1> DEFINE S == {e[k] : k \in 1 .. n}
<1>1. e \in [1 .. n -> S]
  OBVIOUS
<1> HIDE DEF S
<1>2. e \in Seq(S)
  BY <1>1
<1> QED
  BY <1>1, <1>2

\* The body is the same until its own keys are tried.
LEMMA TryAllLeavesBody ==
    ASSUME NEW m, DOMAIN m.item = Fields, NEW lost, NEW edits, Len(edits) \in Nat,
           \A k \in 1 .. Len(edits) : edits[k].part # "body"
    PROVE  TryAll(m, edits, lost).item.body = m.item.body
<1>1. PICK n \in Nat : n = Len(edits)
  OBVIOUS
<1>2. PICK f : Tried(f, m, edits, lost)
  BY TryAllRuns
<1>20. /\ f[0] = m /\ f[n] = TryAll(m, edits, lost)
       /\ \A k \in 1 .. n : f[k] = Try(f[k - 1], Edited(f[k - 1].item, edits[k]), lost)
  BY <1>1, <1>2 DEF Tried
<1> DEFINE T == {k \in 0 .. n : DOMAIN f[k].item = Fields /\ f[k].item.body = m.item.body}
<1>3. 0 \in T
  BY <1>20
<1>4. ASSUME NEW k \in 0 .. n, k \in T, k < n PROVE k + 1 \in T
  <2>1. k + 1 \in 1 .. n /\ k + 1 \in 0 .. n /\ (k + 1) - 1 = k
    BY <1>4
  <2>2. PICK cand : cand = Edited(f[k].item, edits[k + 1])
    OBVIOUS
  <2>3. f[k + 1] = Try(f[k], cand, lost)
    BY <1>20, <2>1, <2>2
  <2>4. DOMAIN f[k].item = Fields /\ f[k].item.body = m.item.body /\ edits[k + 1].part # "body"
    BY <1>1, <1>4, <2>1
  <2>5. DOMAIN cand = Fields /\ cand.body = m.item.body
    BY <2>2, <2>4, EditIs, ZenonT(30)
  <2>6. f[k + 1].item = f[k].item \/ f[k + 1].item = cand
    BY <2>3, TryOutcome
  <2> QED
    BY <2>1, <2>4, <2>5, <2>6
<1>5. n \in T
  <2> HIDE DEF T
  <2> QED
    BY <1>3, <1>4, UpTo, Zenon
<1> QED
  BY <1>20, <1>5

\* Minimization of a request that crashes gives a request that crashes.
LEMMA MinimizeKeeps ==
    ASSUME NEW item, Reproduces(item, item.tmpl), IsSequence(item.query),
           IsBody(item.body), NEW lost
    PROVE  Sound(MinimizeCrashCandidate(item, lost), item.tmpl)
<1>1. PICK t : t = item.tmpl
  OBVIOUS
<1>2. PICK start : start = [item |-> item, root |-> item.tree, probes |-> 0]
  OBVIOUS
<1>3. Sound(start, t) /\ start.item = item /\ DOMAIN start.item = Fields
  BY <1>1, <1>2 DEF Sound, Reproduces
<1>4. PICK query : query = MinimizeQuery(start, lost)
  OBVIOUS
<1>5. Sound(query, t) /\ query.item.body = item.body
  <2> DEFINE edits == [k \in 1 .. Len(item.query) |-> [part |-> "query", what |-> item.query[k]]]
  <2>1. query = TryAll(start, edits, lost)
    BY <1>3, <1>4, Zenon DEF MinimizeQuery
  <2>2. Len(edits) = Len(item.query) /\ Len(item.query) \in Nat
    BY EditsLen DEF IsSequence
  <2>3. \A k \in 1 .. Len(edits) : edits[k].part # "body"
    BY <2>2
  <2> HIDE DEF edits
  <2>4. Sound(query, t)
    BY <1>3, <2>1, <2>2, <2>3, TryAllKeeps
  <2>5. query.item.body = start.item.body
    BY <1>3, <2>1, <2>2, <2>3, TryAllLeavesBody
  <2> QED
    BY <1>3, <2>4, <2>5
<1>6. PICK body : body = IF t.typed THEN MinimizeTree(query, lost) ELSE MinimizeFlat(query, lost)
  OBVIOUS
<1>7. Sound(body, t)
  <2>1. CASE t.typed
    BY <1>5, <1>6, <2>1, TreeKeeps
  <2>2. CASE ~t.typed
    <3> DEFINE kids == item.body[<<>>].kids
               edits == [k \in 1 .. kids |-> [part |-> "body", what |-> item.body[<<k>>].key]]
    <3>1. body = TryAll(query, edits, lost)
      BY <1>5, <1>6, <2>2, Zenon DEF MinimizeFlat
    <3>2. Len(edits) = kids /\ kids \in Nat
      <4>1. kids \in Nat
        BY DEF IsBody
      <4> HIDE DEF kids
      <4> QED
        BY <4>1, EditsLen
    <3> HIDE DEF edits
    <3> QED
      BY <1>5, <2>2, <3>1, <3>2, TryAllKeeps
  <2> QED
    BY <2>1, <2>2
<1>8. Sound(MinimizeSegment(body, lost), t)
  <2> DEFINE edits == Replacing(body.item.seg)
  <2>1. Len(edits) = 4 /\ \A k \in 1 .. 4 : edits[k].part # "body"
    BY EditsLen DEF Replacing
  <2>2. MinimizeSegment(body, lost) = body \/ MinimizeSegment(body, lost) = TryAll(body, edits, lost)
    BY DEF MinimizeSegment
  <2> HIDE DEF edits
  <2>3. Sound(TryAll(body, edits, lost), t)
    BY <1>7, <2>1, TryAllKeeps
  <2> QED
    BY <1>7, <2>2, <2>3
<1>9. \/ MinimizeCrashCandidate(item, lost) = start
      \/ MinimizeCrashCandidate(item, lost) = MinimizeSegment(body, lost)
  BY <1>1, <1>2, <1>4, <1>6, Zenon DEF MinimizeCrashCandidate
<1> QED
  BY <1>1, <1>3, <1>8, <1>9

-----------------------------------------------------------------------------
(* CrashLog: what is left of a request is needed.                          *)

\* One function is another without some of what it holds.
Part(a, b) == DOMAIN a \subseteq DOMAIN b /\ \A x \in DOMAIN a : a[x] = b[x]

\* A request that shows the server nothing that another does not, except a segment
\* that no bug asks for.
Less(p, q) ==
    /\ p.tmpl = q.tmpl /\ Part(p.query, q.query) /\ (p.seg = q.seg \/ Unasked(p.seg))
    /\ p.tmpl.typed => Part(p.tree, q.tree)
    /\ ~p.tmpl.typed => Part(p.body, q.body) /\ p.enc = q.enc

\* What a server sees of a request when it is sent.
Shown(item) ==
    IF item.tmpl.typed THEN Features(item, item.tmpl.enc, item.tree)
    ELSE Features(item, item.enc, item.body)

\* A request crashes when some bug of its template needs no more than it shows.
LEMMA CrashMeans ==
    ASSUME server \in Servers, NEW x
    PROVE  Crashes(x) = 0 <=> \A b \in DOMAIN server.bugs :
                                 ~(server.bugs[b].tmpl = x.tmpl.name /\ server.bugs[b].needs \subseteq Shown(x))
<1>1. ASSUME NEW enc, NEW tree
      PROVE  FirstBug(x, enc, tree) = 0 <=>
                \A b \in DOMAIN server.bugs :
                   ~(server.bugs[b].tmpl = x.tmpl.name /\ server.bugs[b].needs \subseteq Features(x, enc, tree))
  <2> DEFINE Hit == {b \in DOMAIN server.bugs :
                      /\ server.bugs[b].tmpl = x.tmpl.name
                      /\ server.bugs[b].needs \subseteq Features(x, enc, tree)}
  <2>1. FirstBug(x, enc, tree) = IF Hit = {} THEN 0 ELSE CHOOSE b \in Hit : \A c \in Hit : b <= c
    BY Zenon DEF FirstBug
  <2>2. Hit \subseteq DOMAIN server.bugs
    OBVIOUS
  <2>3. Hit = {} <=> \A b \in DOMAIN server.bugs :
                   ~(server.bugs[b].tmpl = x.tmpl.name /\ server.bugs[b].needs \subseteq Features(x, enc, tree))
    OBVIOUS
  <2>4. DOMAIN server.bugs \subseteq Nat \ {0}
    BY CrashLogAssumption DEF IsSequence
  <2> HIDE DEF Hit
  <2>5. Hit # {} => \E b \in Hit : \A c \in Hit : b <= c
    BY <2>2, <2>4, Least
  <2> QED
    BY <2>1, <2>2, <2>3, <2>4, <2>5
<1> QED
  BY <1>1, Zenon DEF Crashes, Shown

\* What shows less crashes nothing that more does not.
LEMMA LessIsSafe ==
    ASSUME server \in Servers, NEW p, NEW q, Less(p, q), Crashes(q) = 0
    PROVE  Crashes(p) = 0
<1>1. ASSUME NEW enc, NEW a, NEW c, Part(a, c), NEW b \in DOMAIN server.bugs,
             server.bugs[b].needs \subseteq Features(p, enc, a)
      PROVE  server.bugs[b].needs \subseteq Features(q, enc, c)
  <2> SUFFICES ASSUME NEW x \in server.bugs[b].needs PROVE x \in Features(q, enc, c)
    OBVIOUS
  <2>1. \/ \E i \in DOMAIN p.query : x = <<<<"?">>, p.query[i]>>
        \/ x = <<<<"/">>, p.seg>>
        \/ enc = p.tmpl.enc /\ \E i \in DOMAIN a : x = a[i].mark
    BY <1>1, Zenon DEF Features
  <2>2. CASE \E i \in DOMAIN p.query : x = <<<<"?">>, p.query[i]>>
    <3>1. PICK i \in DOMAIN p.query : x = <<<<"?">>, p.query[i]>>
      BY <2>2
    <3>2. i \in DOMAIN q.query /\ p.query[i] = q.query[i]
      BY Zenon DEF Less, Part
    <3> QED
      BY <3>1, <3>2, Zenon DEF Features
  <2>3. CASE x = <<<<"/">>, p.seg>>
    <3>1. ~Unasked(p.seg)
      BY <2>3, Zenon DEF Unasked
    <3>2. p.seg = q.seg
      BY <3>1 DEF Less
    <3> QED
      BY <2>3, <3>2, Zenon DEF Features
  <2>4. CASE enc = p.tmpl.enc /\ \E i \in DOMAIN a : x = a[i].mark
    <3>1. PICK i \in DOMAIN a : x = a[i].mark
      BY <2>4
    <3>2. i \in DOMAIN c /\ a[i] = c[i] /\ enc = q.tmpl.enc
      BY <1>1, <2>4, Zenon DEF Less, Part
    <3>3. x \in {c[j].mark : j \in DOMAIN c}
      BY <3>1, <3>2, Zenon
    <3> QED
      BY <3>2, <3>3, Zenon DEF Features
  <2> QED
    BY <2>1, <2>2, <2>3, <2>4
<1>2. ASSUME NEW b \in DOMAIN server.bugs, server.bugs[b].tmpl = p.tmpl.name,
             server.bugs[b].needs \subseteq Shown(p)
      PROVE  server.bugs[b].tmpl = q.tmpl.name /\ server.bugs[b].needs \subseteq Shown(q)
  <2>1. p.tmpl = q.tmpl
    BY DEF Less
  <2>2. CASE p.tmpl.typed
    BY <1>1, <1>2, <2>1, <2>2, Zenon DEF Shown, Less
  <2>3. CASE ~p.tmpl.typed
    BY <1>1, <1>2, <2>1, <2>3, Zenon DEF Shown, Less
  <2> QED
    BY <2>2, <2>3
<1> QED
  BY <1>2, CrashMeans, Zenon

\* When every probe is answered and some are left, a candidate that is not taken was
\* the request itself or did not crash.
LEMMA TryTells ==
    ASSUME NEW m, m.probes \in Nat, NEW cand
    PROVE  LET r == Try(m, cand, {})
           IN /\ r.probes \in Nat /\ r.probes >= m.probes
              /\ r.probes < MaxProbes =>
                   \/ r = m /\ <<cand.query, cand.seg, cand.enc, cand.body>>
                                 = <<m.item.query, m.item.seg, m.item.enc, m.item.body>>
                   \/ r.probes = m.probes + 1 /\ r.item = cand /\ Crashes(cand) # 0
                   \/ r.probes = m.probes + 1 /\ r.item = m.item /\ Crashes(cand) = 0
BY DEF Try

\* The keys of a body that a probe may drop: each place lies in a field at the top.
Rooted(body) == <<>> \in DOMAIN body /\ \A p \in DOMAIN body \ {<<>>} : <<p[1]>> \in DOMAIN body

\* What an edit would drop is not there (any more).
Lacks(item, edit) ==
    /\ edit.part = "query" => \A i \in DOMAIN item.query : item.query[i] # edit.what
    /\ edit.part = "body" => \A p \in DOMAIN item.body \ {<<>>} : item.body[<<p[1]>>].key # edit.what

\* An edit drops: what it names is gone, the rest is there, and what is left of less is less.
LEMMA KeysDrop ==
    ASSUME NEW a, NEW c, Part(a, c), NEW key
    PROVE  /\ Part(DropKey(a, key), a) /\ \A i \in DOMAIN DropKey(a, key) : DropKey(a, key)[i] # key
           /\ Part(DropKey(a, key), DropKey(c, key))
           /\ DropKey(a, key) = a => \A i \in DOMAIN a : a[i] # key
BY DEF Part, DropKey

LEMMA FieldsDrop ==
    ASSUME NEW a, NEW c, Part(a, c), Rooted(a), NEW key
    PROVE  /\ Part(DropField(a, key), a) /\ Rooted(DropField(a, key))
           /\ \A p \in DOMAIN DropField(a, key) \ {<<>>} : DropField(a, key)[<<p[1]>>].key # key
           /\ Part(DropField(a, key), DropField(c, key))
           /\ DropField(a, key) = a => \A p \in DOMAIN a \ {<<>>} : a[<<p[1]>>].key # key
<1>1. /\ DOMAIN DropField(a, key) = {q \in DOMAIN a : q # <<>> => a[<<q[1]>>].key # key}
      /\ \A p \in DOMAIN DropField(a, key) : DropField(a, key)[p] = a[p]
      /\ DOMAIN DropField(c, key) = {q \in DOMAIN c : q # <<>> => c[<<q[1]>>].key # key}
      /\ \A p \in DOMAIN DropField(c, key) : DropField(c, key)[p] = c[p]
  BY DEF DropField
<1>2. PICK d : d = DropField(a, key)
  OBVIOUS
<1>3. PICK e : e = DropField(c, key)
  OBVIOUS
<1>4. Part(d, a)
  BY <1>1, <1>2 DEF Part
<1>5. ASSUME NEW p \in DOMAIN d \ {<<>>} PROVE <<p[1]>> \in DOMAIN d /\ d[<<p[1]>>].key # key
  <2>1. p \in DOMAIN a /\ <<p[1]>> \in DOMAIN a /\ a[<<p[1]>>].key # key
    BY <1>1, <1>2, <1>5 DEF Rooted
  <2>2. PICK r : r = <<p[1]>>
    OBVIOUS
  <2>3. r # <<>> /\ <<r[1]>> = r
    BY <2>2
  <2>4. r \in DOMAIN d
    BY <1>1, <1>2, <2>1, <2>2, <2>3
  <2> QED
    BY <1>1, <1>2, <2>1, <2>2, <2>4
<1>6. Rooted(d)
  BY <1>1, <1>2, <1>5 DEF Rooted
<1>7. ASSUME NEW p \in DOMAIN d PROVE p \in DOMAIN e /\ d[p] = e[p]
  <2>1. p \in DOMAIN a /\ p \in DOMAIN c /\ d[p] = a[p] /\ a[p] = c[p]
    BY <1>1, <1>2, <1>7 DEF Part
  <2>2. p # <<>> => c[<<p[1]>>].key # key
    <3> SUFFICES ASSUME p # <<>> PROVE c[<<p[1]>>].key # key
      OBVIOUS
    <3>1. <<p[1]>> \in DOMAIN a /\ a[<<p[1]>>].key # key
      BY <1>1, <1>2, <1>7, <2>1 DEF Rooted
    <3> QED
      BY <3>1 DEF Part
  <2> QED
    BY <1>1, <1>3, <2>1, <2>2
<1>8. d = a => \A p \in DOMAIN a \ {<<>>} : a[<<p[1]>>].key # key
  BY <1>5
<1> QED
  BY <1>2, <1>3, <1>4, <1>5, <1>6, <1>7, <1>8 DEF Part

\* A request, and one that was made from it by dropping keys of its query or fields of
\* its body.
Kept(item, x) ==
    /\ DOMAIN item = Fields /\ item.tmpl = x.tmpl /\ item.seg = x.seg /\ item.tree = x.tree /\ item.enc = x.enc
    /\ Part(item.query, x.query) /\ Part(item.body, x.body) /\ Rooted(item.body)

LEMMA EditDrops ==
    ASSUME NEW y, NEW x, Kept(y, x), Rooted(x.body), DOMAIN x = Fields, NEW edit, edit.part \in {"query", "body"}
    PROVE  /\ Kept(Edited(y, edit), y) /\ Kept(Edited(y, edit), x) /\ Kept(Edited(y, edit), Edited(x, edit))
           /\ Lacks(Edited(y, edit), edit)
           /\ Edited(y, edit).query = y.query /\ Edited(y, edit).body = y.body => Lacks(y, edit)
<1>1. PICK e : e = Edited(y, edit)
  OBVIOUS
<1>2. PICK d : d = Edited(x, edit)
  OBVIOUS
<1>3. DOMAIN y = Fields /\ Part(y.query, x.query) /\ Part(y.body, x.body) /\ Rooted(y.body)
  BY DEF Kept
<1>4. /\ DOMAIN e = Fields /\ e.tmpl = y.tmpl /\ e.tree = y.tree /\ e.enc = y.enc /\ e.seg = y.seg
      /\ e.query = IF edit.part = "query" THEN DropKey(y.query, edit.what) ELSE y.query
      /\ e.body = IF edit.part = "body" THEN DropField(y.body, edit.what) ELSE y.body
  BY <1>1, <1>3, EditIs, ZenonT(30)
<1>5. /\ DOMAIN d = Fields /\ d.tmpl = x.tmpl /\ d.tree = x.tree /\ d.enc = x.enc /\ d.seg = x.seg
      /\ d.query = IF edit.part = "query" THEN DropKey(x.query, edit.what) ELSE x.query
      /\ d.body = IF edit.part = "body" THEN DropField(x.body, edit.what) ELSE x.body
  BY <1>2, EditIs, ZenonT(30)
<1>6. /\ Part(e.query, y.query) /\ Part(e.query, x.query) /\ Part(e.query, d.query)
      /\ edit.part = "query" => \A i \in DOMAIN e.query : e.query[i] # edit.what
      /\ edit.part = "query" /\ e.query = y.query => \A i \in DOMAIN y.query : y.query[i] # edit.what
  <2>1. CASE edit.part = "query"
    <3>1. PICK b : b = DropKey(y.query, edit.what)
      OBVIOUS
    <3>2. /\ Part(b, y.query) /\ Part(b, DropKey(x.query, edit.what))
          /\ \A i \in DOMAIN b : b[i] # edit.what
          /\ b = y.query => \A i \in DOMAIN y.query : y.query[i] # edit.what
      BY <1>3, <3>1, KeysDrop
    <3>3. e.query = b /\ d.query = DropKey(x.query, edit.what)
      BY <1>4, <1>5, <2>1, <3>1
    <3>4. Part(b, x.query)
      BY <1>3, <3>2 DEF Part
    <3> QED
      BY <3>2, <3>3, <3>4
  <2>2. CASE edit.part # "query"
    BY <1>3, <1>4, <1>5, <2>2 DEF Part
  <2> QED
    BY <2>1, <2>2
<1>7. /\ Part(e.body, y.body) /\ Part(e.body, x.body) /\ Part(e.body, d.body) /\ Rooted(e.body)
      /\ edit.part = "body" => \A p \in DOMAIN e.body \ {<<>>} : e.body[<<p[1]>>].key # edit.what
      /\ edit.part = "body" /\ e.body = y.body =>
            \A p \in DOMAIN y.body \ {<<>>} : y.body[<<p[1]>>].key # edit.what
  <2>1. CASE edit.part = "body"
    <3>1. PICK b : b = DropField(y.body, edit.what)
      OBVIOUS
    <3>2. /\ Part(b, y.body) /\ Rooted(b) /\ Part(b, DropField(x.body, edit.what))
          /\ \A p \in DOMAIN b \ {<<>>} : b[<<p[1]>>].key # edit.what
          /\ b = y.body => \A p \in DOMAIN y.body \ {<<>>} : y.body[<<p[1]>>].key # edit.what
      BY <1>3, <3>1, FieldsDrop
    <3>3. e.body = b /\ d.body = DropField(x.body, edit.what)
      BY <1>4, <1>5, <2>1, <3>1
    <3>4. Part(b, x.body)
      BY <1>3, <3>2 DEF Part
    <3> QED
      BY <3>2, <3>3, <3>4
  <2>2. CASE edit.part # "body"
    BY <1>3, <1>4, <1>5, <2>2 DEF Part
  <2> QED
    BY <2>1, <2>2
<1> QED
  BY <1>1, <1>2, <1>4, <1>5, <1>6, <1>7 DEF Kept, Lacks

LEMMA KeptIsLess ==
    ASSUME NEW p, NEW q, Kept(p, q)
    PROVE  Less(p, q)
BY DEF Kept, Less, Part

\* Once every edit was tried with an answer, what each would drop is gone or needed.
LEMMA NothingToDrop ==
    ASSUME server \in Servers, NEW m, m.probes \in Nat, DOMAIN m.item = Fields, Rooted(m.item.body),
           NEW edits, Len(edits) \in Nat, \A k \in 1 .. Len(edits) : edits[k].part \in {"query", "body"}
    PROVE  LET r == TryAll(m, edits, {})
           IN /\ r.probes \in Nat /\ r.probes >= m.probes /\ r.root = m.root
              /\ Kept(r.item, m.item)
              /\ r.probes < MaxProbes => \A k \in 1 .. Len(edits) :
                    Lacks(r.item, edits[k]) \/ Crashes(Edited(r.item, edits[k])) = 0
<1>1. PICK n \in Nat : n = Len(edits)
  OBVIOUS
<1>2. PICK f : Tried(f, m, edits, {})
  BY TryAllRuns
<1>20. /\ f[0] = m /\ f[n] = TryAll(m, edits, {})
       /\ \A k \in 1 .. n : f[k] = Try(f[k - 1], Edited(f[k - 1].item, edits[k]), {})
  BY <1>1, <1>2 DEF Tried
<1> DEFINE Good(k) == /\ f[k].probes \in Nat /\ f[k].probes >= m.probes /\ f[k].root = m.root
                      /\ Kept(f[k].item, m.item)
                      /\ f[k].probes < MaxProbes => \A j \in 1 .. k :
                            Lacks(f[k].item, edits[j]) \/ Crashes(Edited(f[k].item, edits[j])) = 0
           T == {k \in 0 .. n : Good(k)}
<1>3. 0 \in T
  <2>1. Kept(m.item, m.item)
    BY DEF Kept, Part
  <2> QED
    BY <1>20, <2>1
<1>4. ASSUME NEW k \in 0 .. n, k \in T, k < n PROVE k + 1 \in T
  <2>1. k + 1 \in 1 .. n /\ k + 1 \in 0 .. n /\ (k + 1) - 1 = k
    BY <1>4
  <2>2. PICK x : x = f[k]
    OBVIOUS
  <2>3. PICK e : e = edits[k + 1]
    OBVIOUS
  <2>4. PICK cand : cand = Edited(x.item, e)
    OBVIOUS
  <2>5. PICK y : y = f[k + 1]
    OBVIOUS
  <2>6. y = Try(x, cand, {})
    BY <1>20, <2>1, <2>2, <2>3, <2>4, <2>5
  <2>7. Good(k)
    BY <1>4
  <2>8. e.part \in {"query", "body"}
    BY <1>1, <2>1, <2>3
  <2>9. Kept(x.item, m.item) /\ x.probes \in Nat /\ x.probes >= m.probes /\ x.root = m.root
    BY <2>2, <2>7
  <2>10. Kept(x.item, x.item) /\ DOMAIN x.item = Fields /\ Rooted(x.item.body)
    BY <2>9 DEF Kept, Part
  <2>11. /\ Kept(cand, x.item) /\ Kept(cand, m.item) /\ Lacks(cand, e)
         /\ cand.query = x.item.query /\ cand.body = x.item.body => Lacks(x.item, e)
    BY <2>4, <2>8, <2>9, <2>10, EditDrops
  <2>12. /\ y.root = x.root /\ y.probes \in Nat /\ y.probes >= x.probes
         /\ y.item = x.item \/ y.item = cand
    <3>1. y.root = x.root /\ (y.item = x.item \/ y.item = cand)
      BY <2>6, TryOutcome
    <3>2. y.probes \in Nat /\ y.probes >= x.probes
      BY <2>6, <2>9, TryTells
    <3> QED
      BY <3>1, <3>2
  <2>13. Kept(y.item, x.item) /\ Kept(y.item, m.item)
    BY <2>9, <2>10, <2>11, <2>12
  <2>14. ASSUME y.probes < MaxProbes, NEW j \in 1 .. k + 1
         PROVE  Lacks(y.item, edits[j]) \/ Crashes(Edited(y.item, edits[j])) = 0
    <3>1. CASE j = k + 1
      <4>1. \/ y = x /\ <<cand.query, cand.seg, cand.enc, cand.body>>
                          = <<x.item.query, x.item.seg, x.item.enc, x.item.body>>
            \/ y.item = cand
            \/ y.item = x.item /\ Crashes(cand) = 0
        BY <2>6, <2>9, <2>14, TryTells
      <4> QED
        BY <2>3, <2>4, <2>11, <3>1, <4>1
    <3>2. CASE j # k + 1
      <4>1. j \in 1 .. k /\ j \in 1 .. n
        BY <2>1, <3>2
      <4>2. x.probes < MaxProbes
        BY <2>9, <2>12, <2>14, CrashLogAssumption
      <4>3. Lacks(x.item, edits[j]) \/ Crashes(Edited(x.item, edits[j])) = 0
        BY <2>2, <2>7, <4>1, <4>2
      <4>4. edits[j].part \in {"query", "body"}
        BY <1>1, <4>1
      <4>5. CASE Lacks(x.item, edits[j])
        <5>1. Part(y.item.query, x.item.query) /\ Part(y.item.body, x.item.body) /\ Rooted(y.item.body)
          BY <2>13 DEF Kept
        <5>2. Lacks(y.item, edits[j])
          BY <4>5, <5>1 DEF Lacks, Part, Rooted
        <5> QED
          BY <5>2
      <4>6. CASE Crashes(Edited(x.item, edits[j])) = 0
        <5>1. Kept(Edited(y.item, edits[j]), Edited(x.item, edits[j]))
          BY <2>10, <2>13, <4>4, EditDrops
        <5> QED
          BY <4>6, <5>1, KeptIsLess, LessIsSafe
      <4> QED
        BY <4>3, <4>5, <4>6
    <3> QED
      BY <3>1, <3>2
  <2>15. y.probes >= m.probes /\ y.root = m.root
    BY <2>9, <2>12
  <2>16. Good(k + 1)
    BY <2>5, <2>12, <2>13, <2>14, <2>15
  <2> QED
    BY <2>1, <2>16
<1>5. n \in T
  <2> HIDE DEF T
  <2> QED
    BY <1>3, <1>4, UpTo, Zenon
<1>6. Good(n)
  BY <1>5
<1> QED
  BY <1>1, <1>20, <1>6

-----------------------------------------------------------------------------
(* CrashLog: the walk over a body.                                         *)

\* A place lies at another or below it.
Under(q, at) == Len(at) <= Len(q) /\ \A i \in 1 .. Len(at) : q[i] = at[i]

\* A body, or what is left of one: the places above each place are there.
IsPruned(body) ==
    /\ DOMAIN body \subseteq Seq(Nat) /\ <<>> \in DOMAIN body
    /\ \A p \in DOMAIN body : body[p].kids \in Nat
    /\ \A p \in DOMAIN body : \A k \in DOMAIN p :
         SubSeq(p, 1, k - 1) \in DOMAIN body /\ p[k] \in 1 .. body[SubSeq(p, 1, k - 1)].kids

LEMMA PrefixIs ==
    ASSUME NEW s \in Seq(Nat), NEW t \in Seq(Nat)
    PROVE  IsPrefix(s, t) <=> Under(t, s)
<1>1. CASE Len(s) <= Len(t)
  <2>1. /\ SubSeq(s, 1, Len(s)) = s /\ Len(SubSeq(t, 1, Len(s))) = Len(s) /\ SubSeq(t, 1, Len(s)) \in Seq(Nat)
        /\ \A i \in 1 .. Len(s) : SubSeq(t, 1, Len(s))[i] = t[i]
    BY <1>1
  <2>2. (SubSeq(t, 1, Len(s)) = s) <=> \A i \in 1 .. Len(s) : SubSeq(t, 1, Len(s))[i] = s[i]
    BY <2>1
  <2> QED
    BY <1>1, <2>1, <2>2 DEF IsPrefix, Under
<1>2. CASE ~(Len(s) <= Len(t))
  BY <1>2 DEF IsPrefix, Under
<1> QED
  BY <1>1, <1>2

\* What stands at a place and below goes, and nothing else.
LEMMA GoneIs ==
    ASSUME NEW body, IsPruned(body), NEW at \in Seq(Nat), at # <<>>
    PROVE  /\ DOMAIN Gone(body, at) = {q \in DOMAIN body : ~Under(q, at)}
           /\ Part(Gone(body, at), body) /\ IsPruned(Gone(body, at))
<1>1. PICK g : g = Gone(body, at)
  OBVIOUS
<1>2. DOMAIN g = {q \in DOMAIN body : ~Under(q, at)} /\ \A q \in DOMAIN g : g[q] = body[q]
  BY <1>1, PrefixIs DEF Gone, IsPruned
<1>3. Part(g, body)
  BY <1>2 DEF Part
<1>4. <<>> \in DOMAIN g
  <2>1. Len(at) \in Nat /\ Len(at) # 0 /\ Len(<<>>) = 0
    BY EmptySeq
  <2> QED
    BY <1>2, <2>1 DEF IsPruned, Under
<1>5. ASSUME NEW p \in DOMAIN g, NEW k \in DOMAIN p
      PROVE  SubSeq(p, 1, k - 1) \in DOMAIN g /\ p[k] \in 1 .. g[SubSeq(p, 1, k - 1)].kids
  <2>1. p \in DOMAIN body /\ p \in Seq(Nat) /\ ~Under(p, at) /\ k \in 1 .. Len(p)
    <3>1. p \in DOMAIN body /\ ~Under(p, at)
      BY <1>2
    <3>2. p \in Seq(Nat)
      BY <3>1 DEF IsPruned
    <3> QED
      BY <3>1, <3>2
  <2>2. PICK s : s = SubSeq(p, 1, k - 1)
    OBVIOUS
  <2>3. s \in DOMAIN body /\ p[k] \in 1 .. body[s].kids
    BY <2>1, <2>2 DEF IsPruned
  <2>4. Len(s) = k - 1 /\ \A i \in 1 .. k - 1 : s[i] = p[i]
    BY <2>1, <2>2, SMTT(30)
  <2>5. ~Under(s, at)
    <3> SUFFICES ASSUME Under(s, at) PROVE FALSE
      OBVIOUS
    <3>1. Len(at) \in Nat /\ Len(p) \in Nat /\ k \in Nat /\ k <= Len(p)
      BY <2>1
    <3>2. Len(at) <= k - 1 /\ \A i \in 1 .. Len(at) : s[i] = at[i]
      BY <2>4 DEF Under
    <3>3. Len(at) <= Len(p)
      BY <3>1, <3>2
    <3>4. ASSUME NEW i \in 1 .. Len(at) PROVE p[i] = at[i]
      <4>1. i \in 1 .. k - 1
        BY <3>1, <3>2
      <4> QED
        BY <2>4, <3>2, <4>1
    <3> QED
      BY <2>1, <3>3, <3>4 DEF Under
  <2> QED
    BY <1>2, <2>2, <2>3, <2>5
<1>6. IsPruned(g)
  BY <1>2, <1>4, <1>5 DEF IsPruned
<1> QED
  BY <1>1, <1>2, <1>3, <1>6

LEMMA GoneLess ==
    ASSUME NEW a, NEW c, IsPruned(a), IsPruned(c), Part(a, c), NEW at \in Seq(Nat), at # <<>>
    PROVE  Part(Gone(a, at), Gone(c, at))
<1>1. PICK g : g = Gone(a, at)
  OBVIOUS
<1>2. PICK h : h = Gone(c, at)
  OBVIOUS
<1>3. /\ DOMAIN g = {q \in DOMAIN a : ~Under(q, at)} /\ Part(g, a)
      /\ DOMAIN h = {q \in DOMAIN c : ~Under(q, at)} /\ Part(h, c)
  BY <1>1, <1>2, GoneIs
<1>4. Part(g, h)
  BY <1>3 DEF Part
<1> QED
  BY <1>1, <1>2, <1>4

\* A request with another body.
Bare(x, tree) == [x EXCEPT !.tree = tree]

LEMMA BareIs ==
    ASSUME NEW x, DOMAIN x = Fields, NEW tree
    PROVE  /\ DOMAIN Bare(x, tree) = Fields /\ Bare(x, tree).tmpl = x.tmpl /\ Bare(x, tree).query = x.query
           /\ Bare(x, tree).seg = x.seg /\ Bare(x, tree).tree = tree
BY DEF Bare, Fields

\* A typed request is sent as its tree, whatever its text.
LEMMA TypedLess ==
    ASSUME server \in Servers, NEW p, NEW q, p.tmpl = q.tmpl, p.tmpl.typed, p.query = q.query, p.seg = q.seg,
           Part(p.tree, q.tree), Crashes(q) = 0
    PROVE  Crashes(p) = 0
<1>1. Part(p.query, q.query)
  BY DEF Part
<1>2. Less(p, q)
  BY <1>1 DEF Less
<1> QED
  BY <1>2, LessIsSafe

\* A place that the walk has still to try, or to go through.
Pending(w, q) ==
    \E j \in 1 .. Len(w.todo) :
       /\ Under(q, w.todo[j]) /\ q # w.todo[j]
       /\ ~(j = 1 /\ Len(q) = Len(w.todo[1]) + 1 /\ q[Len(q)] < w.kid)

\* After so many steps of a walk over the body of x: what it has tried is needed, what it
\* has not is as it was, and it has used a probe for every kid.
Walking(w, x, k) ==
    /\ DOMAIN w.m.item = Fields /\ w.m.item.tmpl = x.tmpl /\ w.m.item.query = x.query /\ w.m.item.seg = x.seg
    /\ w.m.item.tree = w.m.root /\ w.m.item.body = w.m.root
    /\ IsPruned(w.m.root) /\ Part(w.m.root, x.tree)
    /\ w.todo \in Seq(Seq(Nat)) /\ w.kid \in Nat \ {0} /\ w.m.probes \in Nat
    /\ \A i, j \in 1 .. Len(w.todo) : Under(w.todo[j], w.todo[i]) => i = j
    /\ \A p \in DOMAIN w.m.root : \A j \in 1 .. Len(w.todo) : \A i \in 1 .. w.m.root[p].kids :
         Under(p, w.todo[j]) /\ (p = w.todo[1] => i >= w.kid) => Append(p, i) \in DOMAIN w.m.root
    /\ w.todo # <<>> => k + Len(w.todo) + w.kid <= 2 + 2 * w.m.probes
    /\ \A q \in DOMAIN w.m.root \ {<<>>} : Pending(w, q) \/ Crashes(Bare(x, Gone(w.m.root, q))) = 0

\* Trying a kid.
LEMMA KidTried ==
    ASSUME server \in Servers, NEW x, DOMAIN x = Fields, x.tmpl.typed, NEW k \in Nat,
           NEW w, Walking(w, x, k), w.todo # <<>>,
           Head(w.todo) \in DOMAIN w.m.root, w.kid <= w.m.root[Head(w.todo)].kids,
           TryKid(w, {}).m.probes < MaxProbes
    PROVE  Walking(TryKid(w, {}), x, k + 1)
<1>0. PICK root, head, at : root = w.m.root /\ head = Head(w.todo) /\ at = Append(head, w.kid)
  OBVIOUS
<1>1. /\ DOMAIN w.m.item = Fields /\ w.m.item.tmpl = x.tmpl /\ w.m.item.query = x.query /\ w.m.item.seg = x.seg
      /\ w.m.item.tree = root /\ w.m.item.body = root /\ IsPruned(root) /\ Part(root, x.tree)
      /\ w.todo \in Seq(Seq(Nat)) /\ w.kid \in Nat \ {0} /\ w.m.probes \in Nat
  BY <1>0 DEF Walking
<1>2. head = w.todo[1] /\ head \in Seq(Nat) /\ 1 \in 1 .. Len(w.todo)
  BY <1>0, <1>1
<1>3. /\ at \in Seq(Nat) /\ Len(at) = Len(head) + 1 /\ at[Len(at)] = w.kid /\ at # <<>>
      /\ \A i \in 1 .. Len(head) : at[i] = head[i]
  <2>1. PICK kid \in Nat : kid = w.kid
    BY <1>1
  <2>2. head \in Seq(Nat) /\ at = Append(head, kid)
    BY <1>0, <1>2, <2>1
  <2>3. /\ at \in Seq(Nat) /\ Len(at) = Len(head) + 1 /\ at[Len(at)] = kid
        /\ \A i \in 1 .. Len(head) : at[i] = head[i]
    BY <2>2
  <2>4. at # <<>>
    BY <2>2, <2>3, EmptySeq
  <2> QED
    BY <2>1, <2>3, <2>4
<1>4. at \in DOMAIN root
  <2>1. Under(head, w.todo[1])
    BY <1>2 DEF Under
  <2>2. w.kid \in 1 .. root[head].kids
    BY <1>0, <1>1 DEF IsPruned
  <2>3. \A p \in DOMAIN root : \A j \in 1 .. Len(w.todo) : \A i \in 1 .. root[p].kids :
           Under(p, w.todo[j]) /\ (p = w.todo[1] => i >= w.kid) => Append(p, i) \in DOMAIN root
    BY <1>0 DEF Walking
  <2>4. head \in DOMAIN root /\ w.kid >= w.kid
    BY <1>0, <1>1
  <2>5. Append(head, w.kid) \in DOMAIN root
    BY <1>2, <2>1, <2>2, <2>3, <2>4
  <2> QED
    BY <1>0, <2>5
<1>100. PICK cut, cand, tried : cut = Cut(w.m, at) /\ cand = Candidate(cut) /\ tried = Try(cut, cand, {})
  OBVIOUS
<1>5. cut.item = w.m.item /\ cut.root = Gone(root, at) /\ cut.probes = w.m.probes
  BY <1>0, <1>100, Zenon DEF Cut
<1>6. PICK less : less = Gone(root, at)
  OBVIOUS
<1>7. /\ DOMAIN less = {q \in DOMAIN root : ~Under(q, at)} /\ Part(less, root) /\ IsPruned(less)
  BY <1>1, <1>3, <1>6, GoneIs, ZenonT(30)
<1>8. less # root
  <2>1. Under(at, at)
    BY <1>3 DEF Under
  <2> QED
    BY <1>4, <1>7, <2>1
<1>9. /\ DOMAIN cand = Fields /\ cand.tmpl = x.tmpl /\ cand.query = x.query /\ cand.seg = x.seg
      /\ cand.tree = less /\ cand.body = less
  <2>1. ASSUME NEW r
        PROVE  LET c == [w.m.item EXCEPT !.tree = r, !.body = r, !.enc = "json"]
               IN /\ DOMAIN c = Fields /\ c.tmpl = w.m.item.tmpl /\ c.query = w.m.item.query
                  /\ c.seg = w.m.item.seg /\ c.tree = r /\ c.body = r
    BY <1>1, Zenon DEF Fields
  <2> QED
    <3>1. cand = [w.m.item EXCEPT !.tree = less, !.body = less, !.enc = "json"]
      BY <1>0, <1>5, <1>6, <1>100, Zenon DEF Candidate
    <3> QED
      BY <1>1, <2>1, <3>1
<1>10. /\ TryKid(w, {}).m = IF tried.item # w.m.item THEN tried ELSE Restored(tried, w.m)
       /\ TryKid(w, {}).todo = w.todo /\ TryKid(w, {}).kid = w.kid + 1
  BY <1>0, <1>100 DEF TryKid
<1>11. tried.root = less
  BY <1>5, <1>6, <1>100, TryOutcome
<1>12. Restored(tried, w.m).item = tried.item /\ Restored(tried, w.m).root = root
       /\ Restored(tried, w.m).probes = tried.probes
  BY <1>0 DEF Restored
<1>13. TryKid(w, {}).m.probes = tried.probes
  BY <1>10, <1>12
<1>14. /\ tried.probes = w.m.probes + 1
       /\ (tried.item = cand \/ (tried.item = w.m.item /\ Crashes(cand) = 0))
  <2>1. cut.probes \in Nat /\ tried.probes < MaxProbes
    BY <1>1, <1>5, <1>13
  <2>2. cand.body # cut.item.body
    BY <1>1, <1>5, <1>8, <1>9
  <2> QED
    <3>1. \/ tried = cut /\ <<cand.query, cand.seg, cand.enc, cand.body>>
                              = <<cut.item.query, cut.item.seg, cut.item.enc, cut.item.body>>
          \/ tried.probes = cut.probes + 1 /\ tried.item = cand
          \/ tried.probes = cut.probes + 1 /\ tried.item = cut.item /\ Crashes(cand) = 0
      BY <1>100, <2>1, TryTells, ZenonT(30)
    <3> QED
      BY <1>5, <2>2, <3>1
<1>15. PICK r : r = TryKid(w, {})
  OBVIOUS
<1>16. r.todo = w.todo /\ r.kid = w.kid + 1 /\ r.m.probes = w.m.probes + 1
  BY <1>10, <1>13, <1>14, <1>15
<1>17. r.kid \in Nat \ {0} /\ r.m.probes \in Nat
  BY <1>1, <1>16, SMTT(30)
<1>18. k + 1 + Len(r.todo) + r.kid <= 2 + 2 * r.m.probes
  <2>1. k + Len(w.todo) + w.kid <= 2 + 2 * w.m.probes
    BY DEF Walking
  <2>2. Len(w.todo) \in Nat /\ Len(r.todo) = Len(w.todo) /\ w.kid \in Nat /\ w.m.probes \in Nat
    BY <1>1, <1>16
  <2>3. r.kid = w.kid + 1 /\ r.m.probes = w.m.probes + 1
    BY <1>16
  <2>4. \A a, b, c \in Nat : k + a + b <= 2 + 2 * c => k + 1 + a + (b + 1) <= 2 + 2 * (c + 1)
    OBVIOUS
  <2> QED
    BY <2>1, <2>2, <2>3, <2>4
<1>19. \A i, j \in 1 .. Len(r.todo) : Under(r.todo[j], r.todo[i]) => i = j
  BY <1>16 DEF Walking
<1>20. ASSUME NEW q \in DOMAIN root, Pending(w, q), q # at
       PROVE  Pending(r, q)
  <2>1. PICK j \in 1 .. Len(w.todo) : /\ Under(q, w.todo[j]) /\ q # w.todo[j]
                                      /\ ~(j = 1 /\ Len(q) = Len(w.todo[1]) + 1 /\ q[Len(q)] < w.kid)
    BY <1>20 DEF Pending
  <2>2. q \in Seq(Nat)
    BY <1>1 DEF IsPruned
  <2>3. ~(j = 1 /\ Len(q) = Len(w.todo[1]) + 1 /\ q[Len(q)] < w.kid + 1)
    <3> SUFFICES ASSUME j = 1 /\ Len(q) = Len(head) + 1 /\ q[Len(q)] < w.kid + 1 PROVE FALSE
      BY <1>2
    <3>0. j = 1 /\ Len(q) = Len(head) + 1 /\ q[Len(q)] < w.kid + 1
      OBVIOUS
    <3>1. q[Len(q)] = w.kid
      <4>1. Len(q) \in 1 .. Len(q)
        BY <1>2, <2>2
      <4>2. q[Len(q)] \in Nat
        BY <2>2, <4>1
      <4> QED
        BY <1>1, <1>2, <2>1, <4>2
    <3>2. Len(q) = Len(at) /\ \A i \in 1 .. Len(at) : q[i] = at[i]
      <4>1. \A i \in 1 .. Len(head) : q[i] = head[i]
        BY <1>2, <2>1, <3>0 DEF Under
      <4>2. ASSUME NEW i \in 1 .. Len(at) PROVE q[i] = at[i]
        <5>1. i = Len(at) \/ i \in 1 .. Len(head)
          BY <1>2, <1>3
        <5> QED
          BY <1>3, <3>0, <3>1, <4>1, <5>1
      <4> QED
        BY <1>3, <3>0, <4>2
    <3>3. q = at
      BY <1>3, <2>2, <3>2
    <3> QED
      BY <1>20, <3>3
  <2> QED
    BY <1>16, <2>1, <2>3 DEF Pending
<1>21. CASE tried.item = cand
  <2>1. r.m = tried /\ r.m.item = cand /\ r.m.root = less
    BY <1>1, <1>8, <1>9, <1>10, <1>11, <1>15, <1>21
  <2>2. Part(less, x.tree)
    BY <1>1, <1>7 DEF Part
  <2>3. ASSUME NEW p \in DOMAIN less, NEW j \in 1 .. Len(r.todo), NEW i \in 1 .. less[p].kids,
               Under(p, r.todo[j]), p = r.todo[1] => i >= r.kid
        PROVE  Append(p, i) \in DOMAIN less
    <3>1. p \in DOMAIN root /\ less[p] = root[p] /\ p \in Seq(Nat) /\ ~Under(p, at)
      BY <1>1, <1>7 DEF Part, IsPruned
    <3>2. root[p].kids \in Nat /\ i \in Nat
      BY <1>1, <3>1 DEF IsPruned
    <3>3. p = w.todo[1] => i >= w.kid + 1
      BY <1>16, <2>3
    <3>4. Append(p, i) \in DOMAIN root
      BY <1>1, <1>16, <2>3, <3>1, <3>2, <3>3 DEF Walking
    <3>5. /\ Len(Append(p, i)) = Len(p) + 1 /\ Append(p, i)[Len(p) + 1] = i
          /\ \A l \in 1 .. Len(p) : Append(p, i)[l] = p[l]
      BY <3>1, <3>2
    <3>6. ~Under(Append(p, i), at)
      <4> SUFFICES ASSUME Under(Append(p, i), at) PROVE FALSE
        OBVIOUS
      <4>0. /\ Len(at) \in Nat /\ Len(p) \in Nat /\ Len(head) \in Nat
            /\ Len(at) <= Len(p) + 1 /\ \A l \in 1 .. Len(at) : Append(p, i)[l] = at[l]
        <5>1. Len(at) \in Nat /\ Len(p) \in Nat /\ Len(head) \in Nat
          BY <1>2, <1>3, <3>1
        <5>2. Len(at) <= Len(Append(p, i)) /\ \A l \in 1 .. Len(at) : Append(p, i)[l] = at[l]
          BY DEF Under
        <5> QED
          BY <3>5, <5>1, <5>2
      <4>1. Len(p) + 1 = Len(at)
        <5> SUFFICES ASSUME Len(at) <= Len(p) PROVE FALSE
          BY <4>0
        <5>1. \A l \in 1 .. Len(at) : p[l] = at[l]
          BY <3>5, <4>0
        <5> QED
          BY <3>1, <5>1 DEF Under
      <4>2. Len(p) = Len(head) /\ \A l \in 1 .. Len(head) : p[l] = head[l]
        BY <1>3, <3>5, <4>0, <4>1
      <4>3. p = head
        <5>1. p \in Seq(Nat) /\ head \in Seq(Nat)
          BY <1>2, <3>1
        <5>2. Len(p) = Len(head) /\ \A l \in 1 .. Len(p) : p[l] = head[l]
          BY <4>2
        <5> QED
          BY <5>1, <5>2, SeqEqual
      <4>4. i = w.kid
        <5>1. Len(at) \in 1 .. Len(at)
          BY <4>0, <4>1
        <5> QED
          BY <1>3, <3>5, <4>0, <4>1, <5>1
      <4> QED
        BY <1>1, <1>2, <3>3, <4>3, <4>4
    <3> QED
      BY <1>7, <3>4, <3>6
  <2>4. ASSUME NEW q \in DOMAIN less \ {<<>>}
        PROVE  Pending(r, q) \/ Crashes(Bare(x, Gone(less, q))) = 0
    <3>1. q \in DOMAIN root \ {<<>>} /\ q # at /\ q \in Seq(Nat)
      <4>1. q \in DOMAIN root \ {<<>>} /\ ~Under(q, at)
        BY <1>7
      <4>2. Under(at, at)
        BY <1>3 DEF Under
      <4> QED
        BY <1>1, <4>1, <4>2 DEF IsPruned
    <3>2. Pending(w, q) \/ Crashes(Bare(x, Gone(root, q))) = 0
      BY <1>0, <3>1, Zenon DEF Walking
    <3>3. CASE Pending(w, q)
      BY <1>20, <3>1, <3>3
    <3>4. CASE Crashes(Bare(x, Gone(root, q))) = 0
      <4>1. Part(Gone(less, q), Gone(root, q))
        BY <1>1, <1>7, <3>1, GoneLess
      <4>2. PICK a : a = Gone(less, q)
        OBVIOUS
      <4>3. PICK c : c = Gone(root, q)
        OBVIOUS
      <4>4. Crashes(Bare(x, a)) = 0
        BY <3>4, <4>1, <4>2, <4>3, BareIs, TypedLess
      <4> QED
        BY <4>2, <4>4
    <3> QED
      BY <3>2, <3>3, <3>4
  <2>5. Walking(r, x, k + 1)
    BY <1>1, <1>7, <1>9, <1>16, <1>17, <1>18, <1>19, <2>1, <2>2, <2>3, <2>4 DEF Walking
  <2> QED
    BY <1>15, <2>5
<1>22. CASE tried.item = w.m.item /\ Crashes(cand) = 0
  <2>1. r.m.item = w.m.item /\ r.m.root = root
    BY <1>10, <1>12, <1>15, <1>22
  <2>2. ASSUME NEW p \in DOMAIN root, NEW j \in 1 .. Len(r.todo), NEW i \in 1 .. root[p].kids,
               Under(p, r.todo[j]), p = r.todo[1] => i >= r.kid
        PROVE  Append(p, i) \in DOMAIN root
    <3>1. root[p].kids \in Nat /\ i \in Nat
      BY <1>1 DEF IsPruned
    <3>2. p = w.todo[1] => i >= w.kid
      BY <1>1, <1>16, <2>2, <3>1
    <3>3. \A j2 \in 1 .. Len(w.todo) : \A i2 \in 1 .. root[p].kids :
             Under(p, w.todo[j2]) /\ (p = w.todo[1] => i2 >= w.kid) => Append(p, i2) \in DOMAIN root
      BY <1>0 DEF Walking
    <3> QED
      BY <1>16, <2>2, <3>2, <3>3
  <2>3. ASSUME NEW q \in DOMAIN root \ {<<>>}
        PROVE  Pending(r, q) \/ Crashes(Bare(x, Gone(root, q))) = 0
    <3>1. CASE q = at
      <4>1. Part(less, less)
        BY DEF Part
      <4>2. Crashes(Bare(x, less)) = 0
        BY <1>9, <1>22, <4>1, BareIs, TypedLess
      <4> QED
        BY <1>6, <3>1, <4>2
    <3>2. CASE q # at
      <4>1. Pending(w, q) \/ Crashes(Bare(x, Gone(root, q))) = 0
        BY <1>0, Zenon DEF Walking
      <4> QED
        BY <1>20, <3>2, <4>1
    <3> QED
      BY <3>1, <3>2
  <2>4. Walking(r, x, k + 1)
    BY <1>1, <1>16, <1>17, <1>18, <1>19, <2>1, <2>2, <2>3 DEF Walking
  <2> QED
    BY <1>15, <2>4
<1> QED
  BY <1>14, <1>21, <1>22

\* Two kids of one place, and a place beside it.
LEMMA KidsApart ==
    ASSUME NEW h \in Seq(Nat), NEW i \in Nat, NEW t \in Seq(Nat)
    PROVE  /\ Append(h, i) \in Seq(Nat) /\ Len(Append(h, i)) = Len(h) + 1 /\ Append(h, i)[Len(h) + 1] = i
           /\ Under(Append(h, i), h)
           /\ Under(t, Append(h, i)) <=> Under(t, h) /\ Len(t) > Len(h) /\ t[Len(h) + 1] = i
           /\ Under(Append(h, i), t) => Under(h, t) \/ t = Append(h, i)
<1>1. PICK a : a = Append(h, i)
  OBVIOUS
<1>2. /\ a \in Seq(Nat) /\ Len(a) = Len(h) + 1 /\ a[Len(h) + 1] = i /\ \A l \in 1 .. Len(h) : a[l] = h[l]
      /\ Len(h) \in Nat /\ Len(t) \in Nat
  BY <1>1
<1>3. Under(a, h)
  BY <1>2 DEF Under
<1>4. ASSUME Under(t, a) PROVE Under(t, h) /\ Len(t) > Len(h) /\ t[Len(h) + 1] = i
  <2>1. Len(a) <= Len(t) /\ \A l \in 1 .. Len(a) : t[l] = a[l]
    BY <1>4 DEF Under
  <2>2. Len(h) + 1 <= Len(t) /\ Len(h) + 1 \in 1 .. Len(a)
    BY <1>2, <2>1
  <2>3. ASSUME NEW l \in 1 .. Len(h) PROVE t[l] = h[l]
    <3>1. l \in 1 .. Len(a)
      BY <1>2
    <3> QED
      BY <1>2, <2>1, <3>1
  <2> QED
    BY <1>2, <2>1, <2>2, <2>3 DEF Under
<1>5. ASSUME Under(t, h), Len(t) > Len(h), t[Len(h) + 1] = i PROVE Under(t, a)
  <2>1. \A l \in 1 .. Len(h) : t[l] = h[l]
    BY <1>5 DEF Under
  <2>2. ASSUME NEW l \in 1 .. Len(a) PROVE t[l] = a[l]
    <3>1. l = Len(h) + 1 \/ l \in 1 .. Len(h)
      BY <1>2
    <3> QED
      BY <1>2, <1>5, <2>1, <3>1
  <2>3. Len(a) <= Len(t)
    BY <1>2, <1>5
  <2> QED
    BY <2>2, <2>3 DEF Under
<1>6. ASSUME Under(a, t) PROVE Under(h, t) \/ t = a
  <2>1. Len(t) <= Len(a) /\ \A l \in 1 .. Len(t) : a[l] = t[l]
    BY <1>6 DEF Under
  <2>2. CASE Len(t) <= Len(h)
    <3>1. \A l \in 1 .. Len(t) : h[l] = t[l]
      BY <1>2, <2>1, <2>2
    <3> QED
      BY <2>2, <3>1 DEF Under
  <2>3. CASE ~(Len(t) <= Len(h))
    <3>1. Len(t) = Len(a) /\ \A l \in 1 .. Len(t) : t[l] = a[l]
      BY <1>2, <2>1, <2>3
    <3> QED
      BY <1>2, <3>1, SeqEqual
  <2> QED
    BY <2>2, <2>3
<1> QED
  BY <1>1, <1>2, <1>3, <1>4, <1>5, <1>6

\* The places to go to: the kids, then the others.
LEMMA KidsFirst ==
    ASSUME NEW todo \in Seq(Seq(Nat)), todo # <<>>, NEW n \in Nat
    PROVE  LET next == [i \in 1 .. n |-> Append(Head(todo), i)] \o Tail(todo)
           IN /\ next \in Seq(Seq(Nat)) /\ Len(next) = n + Len(todo) - 1
              /\ \A i \in 1 .. n : next[i] = Append(todo[1], i)
              /\ \A j \in 2 .. Len(todo) : next[n + j - 1] = todo[j]
<1>1. PICK kids : kids = [i \in 1 .. n |-> Append(Head(todo), i)]
  OBVIOUS
<1>2. Head(todo) = todo[1] /\ todo[1] \in Seq(Nat)
  OBVIOUS
<1>3. kids \in Seq(Seq(Nat)) /\ Len(kids) = n /\ \A i \in 1 .. n : kids[i] = Append(todo[1], i)
  <2>1. \A i \in 1 .. n : Append(todo[1], i) \in Seq(Nat)
    BY <1>2
  <2>2. kids \in [1 .. n -> Seq(Nat)] /\ \A i \in 1 .. n : kids[i] = Append(todo[1], i)
    BY <1>1, <1>2, <2>1
  <2> QED
    BY <2>2, SMTT(30)
<1>4. PICK rest : rest = Tail(todo)
  OBVIOUS
<1>5. rest \in Seq(Seq(Nat)) /\ Len(rest) = Len(todo) - 1 /\ \A j \in 1 .. Len(rest) : rest[j] = todo[j + 1]
  BY <1>4
<1>6. Len(todo) \in Nat
  OBVIOUS
<1>7. PICK next : next = kids \o rest
  OBVIOUS
<1>8. /\ next \in Seq(Seq(Nat)) /\ Len(next) = n + Len(rest)
      /\ \A i \in 1 .. n : next[i] = kids[i]
      /\ \A j \in 1 .. Len(rest) : next[n + j] = rest[j]
  <2>1. Len(next) = Len(kids) + Len(rest) /\ next \in Seq(Seq(Nat))
    BY <1>3, <1>5, <1>7, ConcatProperties
  <2>2. \A i \in 1 .. Len(kids) + Len(rest) :
           next[i] = IF i <= Len(kids) THEN kids[i] ELSE rest[i - Len(kids)]
    BY <1>3, <1>5, <1>7, ConcatProperties
  <2>3. n \in Nat /\ Len(rest) \in Nat /\ Len(kids) = n
    BY <1>3, <1>5
  <2>4. ASSUME NEW i \in 1 .. n PROVE next[i] = kids[i]
    BY <2>2, <2>3
  <2>5. ASSUME NEW j \in 1 .. Len(rest) PROVE next[n + j] = rest[j]
    <3>1. n + j \in 1 .. Len(kids) + Len(rest) /\ ~(n + j <= Len(kids)) /\ (n + j) - Len(kids) = j
      BY <2>3
    <3> QED
      BY <2>2, <3>1
  <2> QED
    BY <2>1, <2>3, <2>4, <2>5
<1>9. ASSUME NEW j \in 2 .. Len(todo) PROVE next[n + j - 1] = todo[j]
  <2>1. j - 1 \in 1 .. Len(rest) /\ (j - 1) + 1 = j /\ n + (j - 1) = n + j - 1
    BY <1>5, <1>6
  <2> QED
    BY <1>5, <1>8, <2>1
<1> QED
  BY <1>1, <1>3, <1>4, <1>5, <1>7, <1>8, <1>9

\* A place below another that is there lies in one of its kids.
LEMMA InSomeKid ==
    ASSUME NEW body, IsPruned(body), NEW q \in DOMAIN body, NEW h \in Seq(Nat), Under(q, h), q # h
    PROVE  /\ h \in DOMAIN body /\ Len(q) > Len(h)
           /\ q[Len(h) + 1] \in 1 .. body[h].kids
<1>1. q \in Seq(Nat) /\ Len(q) \in Nat /\ Len(h) \in Nat
  BY DEF IsPruned
<1>2. Len(h) <= Len(q) /\ \A l \in 1 .. Len(h) : q[l] = h[l]
  BY DEF Under
<1>3. Len(q) > Len(h)
  <2> SUFFICES ASSUME Len(q) = Len(h) PROVE FALSE
    BY <1>1, <1>2
  <2> QED
    BY <1>1, <1>2, SeqEqual
<1>4. PICK k : k = Len(h) + 1
  OBVIOUS
<1>5. k \in 1 .. Len(q) /\ k \in DOMAIN q /\ k - 1 = Len(h)
  BY <1>1, <1>3, <1>4
<1>6. SubSeq(q, 1, k - 1) \in DOMAIN body /\ q[k] \in 1 .. body[SubSeq(q, 1, k - 1)].kids
  BY <1>5 DEF IsPruned
<1>7. SubSeq(q, 1, k - 1) = h
  <2>1. PICK s : s = SubSeq(q, 1, k - 1)
    OBVIOUS
  <2>2. s \in Seq(Nat) /\ Len(s) = Len(h) /\ \A l \in 1 .. Len(s) : s[l] = q[l]
    BY <1>1, <1>5, <2>1, SMTT(30)
  <2>3. \A l \in 1 .. Len(s) : s[l] = h[l]
    BY <1>2, <2>2
  <2> QED
    BY <2>1, <2>2, <2>3, SeqEqual
<1> QED
  BY <1>3, <1>4, <1>6, <1>7

\* Going on to the kids that are left.
LEMMA KidsFollow ==
    ASSUME NEW x, NEW k \in Nat, NEW w, Walking(w, x, k), w.todo # <<>>, NEW n \in Nat,
           Head(w.todo) \in DOMAIN w.m.root => n = w.m.root[Head(w.todo)].kids,
           w.kid > n,
           NEW r, r = [m |-> w.m, kid |-> 1, todo |-> [i \in 1 .. n |-> Append(Head(w.todo), i)] \o Tail(w.todo)]
    PROVE  Walking(r, x, k + 1)
<1>1. PICK root, h, todo, next : root = w.m.root /\ h = Head(w.todo) /\ todo = w.todo /\ next = r.todo
  OBVIOUS
<1>2. /\ todo \in Seq(Seq(Nat)) /\ todo # <<>> /\ h = todo[1] /\ h \in Seq(Nat) /\ Len(todo) \in Nat
      /\ Len(todo) >= 1 /\ IsPruned(root) /\ w.kid \in Nat /\ w.m.probes \in Nat
  BY <1>1 DEF Walking
<1>3. /\ next \in Seq(Seq(Nat)) /\ Len(next) = n + Len(todo) - 1
      /\ \A i \in 1 .. n : next[i] = Append(h, i)
      /\ \A j \in 2 .. Len(todo) : next[n + j - 1] = todo[j]
  <2>1. next = [i \in 1 .. n |-> Append(Head(todo), i)] \o Tail(todo)
    BY <1>1
  <2> QED
    BY <1>2, <2>1, KidsFirst
<1>31. \A i \in 1 .. n : next[i] = Append(h, i) /\ i \in Nat
  <2>1. \A i \in 1 .. n : i \in Nat
    OBVIOUS
  <2> QED
    BY <1>3, <2>1, Zenon
<1>4. r.m = w.m /\ r.kid = 1 /\ r.todo = next
  BY <1>1
<1>5. \A i, j \in 1 .. Len(todo) : Under(todo[j], todo[i]) => i = j
  BY <1>1 DEF Walking
<1>6. ASSUME NEW j \in 1 .. Len(next)
      PROVE  \/ j \in 1 .. n /\ next[j] = Append(h, j)
             \/ j \notin 1 .. n /\ \E l \in 2 .. Len(todo) : j = n + l - 1 /\ next[j] = todo[l] /\ todo[l] \in Seq(Nat)
  <2>1. CASE j \in 1 .. n
    BY <1>3, <2>1
  <2>2. CASE j \notin 1 .. n
    <3>1. j - n + 1 \in 2 .. Len(todo) /\ n + (j - n + 1) - 1 = j
      BY <1>2, <1>3, <2>2
    <3>2. next[j] = todo[j - n + 1] /\ todo[j - n + 1] \in Seq(Nat)
      BY <1>2, <1>3, <3>1, SMTT(30)
    <3> QED
      BY <2>2, <3>1, <3>2
  <2> QED
    BY <2>1, <2>2
<1>7. ASSUME NEW i \in 1 .. Len(next), NEW j \in 1 .. Len(next), Under(next[j], next[i])
      PROVE  i = j
  <2>1. CASE i \in 1 .. n /\ j \in 1 .. n
    <3>1. next[i] = Append(h, i) /\ next[j] = Append(h, j) /\ i \in Nat /\ j \in Nat
      BY <1>31, <2>1
    <3>2. PICK t : t = Append(h, j)
      OBVIOUS
    <3>3. t \in Seq(Nat) /\ t[Len(h) + 1] = j
      BY <1>2, <3>1, <3>2, KidsApart
    <3>4. Under(t, Append(h, i))
      BY <1>7, <3>1, <3>2
    <3>5. t[Len(h) + 1] = i
      BY <1>2, <3>1, <3>3, <3>4, KidsApart
    <3> QED
      BY <3>3, <3>5
  <2>2. CASE i \in 1 .. n /\ j \notin 1 .. n
    <3>1. next[i] = Append(h, i) /\ i \in Nat
      BY <1>31, <2>2
    <3>2. PICK l \in 2 .. Len(todo) : next[j] = todo[l] /\ todo[l] \in Seq(Nat)
      BY <1>6, <2>2
    <3>3. Under(todo[l], todo[1])
      <4>1. Under(todo[l], Append(h, i))
        BY <1>7, <3>1, <3>2
      <4> QED
        BY <1>2, <3>1, <3>2, <4>1, KidsApart
    <3>4. 1 \in 1 .. Len(todo) /\ l \in 1 .. Len(todo) /\ l # 1
      BY <1>2
    <3> QED
      BY <1>5, <3>3, <3>4
  <2>3. CASE i \notin 1 .. n /\ j \in 1 .. n
    <3>1. next[j] = Append(h, j) /\ j \in Nat
      BY <1>31, <2>3
    <3>2. PICK l \in 2 .. Len(todo) : next[i] = todo[l] /\ todo[l] \in Seq(Nat)
      BY <1>6, <2>3
    <3>3. 1 \in 1 .. Len(todo) /\ l \in 1 .. Len(todo) /\ l # 1
      BY <1>2
    <3>4. Under(h, todo[l]) \/ todo[l] = Append(h, j)
      <4>1. Under(Append(h, j), todo[l])
        BY <1>7, <3>1, <3>2
      <4> QED
        BY <1>2, <3>1, <3>2, <4>1, KidsApart, SMTT(30)
    <3>5. todo[l] = Append(h, j) => Under(todo[l], h)
      BY <1>2, <3>1, KidsApart
    <3>6. Under(todo[1], todo[l]) \/ Under(todo[l], todo[1])
      BY <1>2, <3>4, <3>5
    <3> QED
      BY <1>5, <3>3, <3>6
  <2>4. CASE i \notin 1 .. n /\ j \notin 1 .. n
    <3>1. PICK l \in 2 .. Len(todo) : i = n + l - 1 /\ next[i] = todo[l]
      BY <1>6, <2>4
    <3>2. PICK o \in 2 .. Len(todo) : j = n + o - 1 /\ next[j] = todo[o]
      BY <1>6, <2>4
    <3>3. l \in 1 .. Len(todo) /\ o \in 1 .. Len(todo)
      BY <1>2
    <3>4. l = o
      BY <1>5, <1>7, <3>1, <3>2, <3>3
    <3> QED
      BY <3>1, <3>2, <3>4
  <2> QED
    BY <2>1, <2>2, <2>3, <2>4
<1>8. ASSUME NEW p \in DOMAIN root, NEW j \in 1 .. Len(next), NEW i \in 1 .. root[p].kids, Under(p, next[j])
      PROVE  Append(p, i) \in DOMAIN root
  <2>1. \A l \in 1 .. Len(todo) : \A o \in 1 .. root[p].kids :
           Under(p, todo[l]) /\ (p = todo[1] => o >= w.kid) => Append(p, o) \in DOMAIN root
    BY <1>1 DEF Walking
  <2>2. p \in Seq(Nat) /\ 1 \in 1 .. Len(todo)
    BY <1>2 DEF IsPruned
  <2>3. CASE j \in 1 .. n
    <3>1. next[j] = Append(h, j) /\ j \in Nat
      BY <1>31, <2>3
    <3>2. Under(p, h) /\ Len(p) > Len(h)
      BY <1>2, <1>8, <2>2, <3>1, KidsApart
    <3>3. p # h
      BY <1>2, <2>2, <3>2
    <3> QED
      BY <1>2, <2>1, <2>2, <3>2, <3>3
  <2>4. CASE j \notin 1 .. n
    <3>1. PICK l \in 2 .. Len(todo) : next[j] = todo[l]
      BY <1>6, <2>4
    <3>2. l \in 1 .. Len(todo) /\ l # 1
      BY <1>2
    <3>3. p # todo[1]
      BY <1>5, <1>8, <2>2, <3>1, <3>2
    <3> QED
      BY <1>8, <2>1, <3>1, <3>2, <3>3
  <2> QED
    BY <2>3, <2>4
<1>9. k + 1 + Len(next) + 1 <= 2 + 2 * w.m.probes
  <2>1. k + Len(todo) + w.kid <= 2 + 2 * w.m.probes
    BY <1>1 DEF Walking
  <2>2. \A a, b, c \in Nat : b > n /\ k + a + b <= 2 + 2 * c => k + 1 + (n + a - 1) + 1 <= 2 + 2 * c
    OBVIOUS
  <2> QED
    BY <1>2, <1>3, <2>1, <2>2
<1>10. ASSUME NEW q \in DOMAIN root \ {<<>>}, Pending(w, q) PROVE Pending(r, q)
  <2>1. PICK l \in 1 .. Len(todo) : /\ Under(q, todo[l]) /\ q # todo[l]
                                    /\ ~(l = 1 /\ Len(q) = Len(h) + 1 /\ q[Len(q)] < w.kid)
    BY <1>1, <1>2, <1>10 DEF Pending
  <2>2. q \in Seq(Nat) /\ todo[l] \in Seq(Nat) /\ Len(q) \in Nat
    <3>1. q \in DOMAIN root
      BY <1>10
    <3>2. q \in Seq(Nat)
      BY <1>2, <3>1 DEF IsPruned
    <3>3. todo[l] \in Seq(Nat)
      BY <1>2
    <3> QED
      BY <3>2, <3>3
  <2>3. Len(q) > Len(todo[l]) /\ q[Len(todo[l]) + 1] \in 1 .. root[todo[l]].kids /\ todo[l] \in DOMAIN root
    BY <1>2, <2>1, <2>2, InSomeKid
  <2>4. ~(q[Len(q)] < 1)
    <3>1. Len(q) \in DOMAIN q
      BY <2>2, <2>3
    <3>2. PICK s : s = SubSeq(q, 1, Len(q) - 1)
      OBVIOUS
    <3>3. s \in DOMAIN root /\ q[Len(q)] \in 1 .. root[s].kids /\ root[s].kids \in Nat
      BY <1>2, <3>1, <3>2 DEF IsPruned
    <3> QED
      BY <3>3
  <2>5. SUFFICES \E j \in 1 .. Len(next) : Under(q, next[j]) /\ q # next[j]
    BY <1>4, <2>4 DEF Pending
  <2>6. CASE l = 1
    <3>1. PICK i : i = q[Len(h) + 1]
      OBVIOUS
    <3>2. i \in 1 .. n /\ Len(q) > Len(h)
      BY <1>1, <1>2, <2>3, <2>6, <3>1
    <3>3. i \in 1 .. Len(next) /\ next[i] = Append(h, i) /\ i \in Nat
      <4>1. next[i] = Append(h, i) /\ i \in Nat
        BY <1>31, <3>2
      <4>2. Len(next) = n + Len(todo) - 1 /\ Len(todo) >= 1 /\ Len(todo) \in Nat
        BY <1>2, <1>3
      <4>3. i \in 1 .. Len(next)
        BY <3>2, <4>2
      <4> QED
        BY <4>1, <4>3
    <3>4. Under(q, Append(h, i))
      BY <1>2, <2>1, <2>2, <2>6, <3>1, <3>2, <3>3, KidsApart
    <3>5. q # Append(h, i)
      <4> SUFFICES ASSUME q = Append(h, i) PROVE FALSE
        OBVIOUS
      <4>1. Len(q) = Len(h) + 1 /\ q[Len(q)] = i
        BY <1>2, <3>3, KidsApart
      <4> QED
        BY <1>2, <2>1, <2>6, <3>2, <4>1
    <3> QED
      BY <3>3, <3>4, <3>5
  <2>7. CASE l # 1
    <3>1. l \in 2 .. Len(todo) /\ n + l - 1 \in 1 .. Len(next)
      BY <1>2, <1>3, <2>7
    <3> QED
      BY <1>3, <2>1, <3>1
  <2> QED
    BY <2>6, <2>7
<1>11. \A q \in DOMAIN root \ {<<>>} : Pending(r, q) \/ Crashes(Bare(x, Gone(root, q))) = 0
  <2>1. \A q \in DOMAIN root \ {<<>>} : Pending(w, q) \/ Crashes(Bare(x, Gone(root, q))) = 0
    BY <1>1, Zenon DEF Walking
  <2> QED
    BY <1>10, <2>1
<1>12. /\ DOMAIN r.m.item = Fields /\ r.m.item.tmpl = x.tmpl /\ r.m.item.query = x.query /\ r.m.item.seg = x.seg
       /\ r.m.item.tree = r.m.root /\ r.m.item.body = r.m.root
       /\ IsPruned(r.m.root) /\ Part(r.m.root, x.tree) /\ r.m.probes \in Nat
  BY <1>4 DEF Walking
<1> HIDE DEF Pending
<1>13. r.todo = next /\ r.m.root = root /\ r.m.probes = w.m.probes /\ r.kid \in Nat \ {0}
  BY <1>1, <1>4
<1>14. \A i, j \in 1 .. Len(r.todo) : Under(r.todo[j], r.todo[i]) => i = j
  BY <1>7, <1>13
<1>15. \A p \in DOMAIN r.m.root : \A j \in 1 .. Len(r.todo) : \A i \in 1 .. r.m.root[p].kids :
          Under(p, r.todo[j]) /\ (p = r.todo[1] => i >= r.kid) => Append(p, i) \in DOMAIN r.m.root
  BY <1>8, <1>13, ZenonT(30)
<1>16. r.todo # <<>> => k + 1 + Len(r.todo) + r.kid <= 2 + 2 * r.m.probes
  BY <1>4, <1>9
<1>17. r.todo \in Seq(Seq(Nat))
  BY <1>3, <1>13
<1>18. \A q \in DOMAIN r.m.root \ {<<>>} : Pending(r, q) \/ Crashes(Bare(x, Gone(r.m.root, q))) = 0
  BY <1>11, <1>13, Zenon
<1> QED
  BY <1>12, <1>13, <1>14, <1>15, <1>16, <1>17, <1>18, Zenon DEF Walking

\* The walk begins at the root, with everything still to try.
LEMMA WalkBegins ==
    ASSUME NEW m, DOMAIN m.item = Fields, m.item.tree = m.root, m.item.body = m.root, IsBody(m.root),
           m.probes \in Nat, NEW w, w = [m |-> m, todo |-> <<<<>>>>, kid |-> 1]
    PROVE  Walking(w, m.item, 0)
<1>1. w.m = m /\ w.kid = 1 /\ w.todo = <<<<>>>>
  OBVIOUS
<1>2. w.todo \in Seq(Seq(Nat)) /\ Len(w.todo) = 1 /\ w.todo[1] = <<>> /\ w.todo # <<>>
  BY <1>1
<1>3. PICK root : root = m.root
  OBVIOUS
<1>4. IsPruned(root) /\ \A p \in DOMAIN root : \A i \in 1 .. root[p].kids : Append(p, i) \in DOMAIN root
  BY <1>3 DEF IsBody, IsPruned
<1>5. Part(root, root)
  BY DEF Part
<1>6. ASSUME NEW q \in DOMAIN root \ {<<>>} PROVE Pending(w, q)
  <2>1. q \in Seq(Nat) /\ q # <<>>
    BY <1>4 DEF IsPruned
  <2>2. Len(q) \in Nat /\ Len(q) # 0 /\ 1 \in DOMAIN q
    BY <2>1
  <2>3. Under(q, <<>>)
    BY <2>2 DEF Under
  <2>4. ~(q[1] < 1)
    <3>1. PICK s : s = SubSeq(q, 1, 1 - 1)
      OBVIOUS
    <3>2. s \in DOMAIN root /\ q[1] \in 1 .. root[s].kids /\ root[s].kids \in Nat
      BY <1>4, <2>2, <3>1 DEF IsPruned
    <3> QED
      BY <3>2
  <2>5. ~(Len(q) = 1 /\ q[Len(q)] < 1)
    BY <2>4
  <2> QED
    BY <1>1, <1>2, <2>1, <2>3, <2>5 DEF Pending
<1>7. w.todo # <<>> => 0 + Len(w.todo) + w.kid <= 2 + 2 * w.m.probes
  BY <1>1, <1>2
<1>8. \A i, j \in 1 .. Len(w.todo) : Under(w.todo[j], w.todo[i]) => i = j
  BY <1>2
<1>9. \A p \in DOMAIN w.m.root : \A j \in 1 .. Len(w.todo) : \A i \in 1 .. w.m.root[p].kids :
         Under(p, w.todo[j]) /\ (p = w.todo[1] => i >= w.kid) => Append(p, i) \in DOMAIN w.m.root
  BY <1>1, <1>3, <1>4
<1>10. \A q \in DOMAIN w.m.root \ {<<>>} : Pending(w, q)
  BY <1>1, <1>3, <1>6
<1>11. w.m.root = root /\ w.m.item = m.item /\ m.item.tree = root /\ m.item.body = root
  BY <1>1, <1>3
<1>12. w.kid \in Nat \ {0} /\ w.m.probes \in Nat
  BY <1>1
<1> QED
  BY <1>2, <1>4, <1>5, <1>7, <1>8, <1>9, <1>10, <1>11, <1>12, Zenon DEF Walking

\* Every step of the walk keeps what it has found, ...
LEMMA VisitWalks ==
    ASSUME server \in Servers, NEW x, DOMAIN x = Fields, x.tmpl.typed, NEW k \in Nat,
           NEW w, Walking(w, x, k), Visit(w, {}).m.probes < MaxProbes
    PROVE  Walking(Visit(w, {}), x, k + 1)
<1>1. CASE w.todo = <<>>
  <2>1. Visit(w, {}) = w
    BY <1>1 DEF Visit
  <2>2. Walking(w, x, k + 1)
    BY <1>1, Zenon DEF Walking
  <2> QED
    BY <2>1, <2>2
<1>2. CASE w.todo # <<>>
  <2>1. PICK n : n = IF Head(w.todo) \in DOMAIN w.m.root THEN w.m.root[Head(w.todo)].kids ELSE 0
    OBVIOUS
  <2>2. /\ n \in Nat /\ w.kid \in Nat \ {0}
        /\ Head(w.todo) \in DOMAIN w.m.root => n = w.m.root[Head(w.todo)].kids
    BY <2>1 DEF Walking, IsPruned
  <2>3. CASE w.kid <= n
    <3>1. Head(w.todo) \in DOMAIN w.m.root /\ n = w.m.root[Head(w.todo)].kids
      BY <2>1, <2>2, <2>3
    <3>2. Visit(w, {}) = TryKid(w, {})
      BY <1>2, <2>1, <2>3, Zenon DEF Visit
    <3> QED
      BY <1>2, <2>3, <3>1, <3>2, KidTried
  <2>4. CASE ~(w.kid <= n)
    <3>1. PICK r : r = Visit(w, {})
      OBVIOUS
    <3>2. r = [m |-> w.m, kid |-> 1, todo |-> [i \in 1 .. n |-> Append(Head(w.todo), i)] \o Tail(w.todo)]
      BY <1>2, <2>1, <2>4, <3>1, Zenon DEF Visit
    <3>3. w.kid > n
      BY <2>2, <2>4
    <3>4. Walking(r, x, k + 1)
      BY <1>2, <2>2, <3>2, <3>3, KidsFollow
    <3> QED
      BY <3>1, <3>4
  <2> QED
    BY <2>3, <2>4
<1> QED
  BY <1>1, <1>2

\* ... and uses no probe but its own.
LEMMA VisitCounts ==
    ASSUME NEW w, w.m.probes \in Nat
    PROVE  Visit(w, {}).m.probes \in Nat /\ Visit(w, {}).m.probes >= w.m.probes
<1>1. PICK at : at = Append(Head(w.todo), w.kid)
  OBVIOUS
<1>2. PICK cut, tried : cut = Cut(w.m, at) /\ tried = Try(cut, Candidate(cut), {})
  OBVIOUS
<1>3. cut.probes = w.m.probes
  BY <1>2, Zenon DEF Cut
<1>4. tried.probes \in Nat /\ tried.probes >= w.m.probes
  BY <1>2, <1>3, TryTells
<1>5. TryKid(w, {}).m = IF tried.item # w.m.item THEN tried ELSE Restored(tried, w.m)
  BY <1>1, <1>2 DEF TryKid
<1>6. Restored(tried, w.m).probes = tried.probes
  BY DEF Restored
<1>7. TryKid(w, {}).m.probes = tried.probes
  BY <1>5, <1>6
<1>8. \/ Visit(w, {}) = w
      \/ Visit(w, {}) = TryKid(w, {})
      \/ Visit(w, {}).m = w.m
  BY DEF Visit
<1> QED
  BY <1>4, <1>7, <1>8

\* When the walk has probes left at its end, nothing can be left out of the body.
LEMMA TreeMinimal ==
    ASSUME server \in Servers, NEW m, DOMAIN m.item = Fields, m.item.tmpl.typed,
           m.item.tree = m.root, m.item.body = m.root, IsBody(m.root), m.probes \in Nat
    PROVE  LET r == MinimizeTree(m, {})
           IN /\ r.probes \in Nat /\ r.probes >= m.probes
              /\ r.probes < MaxProbes =>
                   /\ DOMAIN r.item = Fields /\ r.item.tmpl = m.item.tmpl
                   /\ r.item.query = m.item.query /\ r.item.seg = m.item.seg
                   /\ IsPruned(r.item.tree) /\ Part(r.item.tree, m.item.tree)
                   /\ \A at \in DOMAIN r.item.tree \ {<<>>} :
                         Crashes(Bare(r.item, Gone(r.item.tree, at))) = 0
<1>1. PICK n \in Nat : n = WalkSteps /\ n = 2 * MaxProbes + 1
  BY CrashLogAssumption DEF WalkSteps
<1>2. PICK f : /\ f[0] = [m |-> m, todo |-> <<<<>>>>, kid |-> 1]
               /\ \A k \in 1 .. n : f[k] = Visit(f[k - 1], {})
               /\ MinimizeTree(m, {}) = WalkEnd(f[n].m, m)
  <2>1. PICK lost : lost = {}
    OBVIOUS
  <2>2. \E f : /\ f[0] = [m |-> m, todo |-> <<<<>>>>, kid |-> 1]
               /\ \A k \in 1 .. WalkSteps : f[k] = Visit(f[k - 1], lost)
               /\ MinimizeTree(m, lost) = WalkEnd(f[WalkSteps].m, m)
    BY WalkRuns
  <2> QED
    BY <1>1, <2>1, <2>2
<1>3. PICK x : x = m.item
  OBVIOUS
<1> DEFINE Good(k) == /\ f[k].m.probes \in Nat /\ f[k].m.probes >= m.probes
                      /\ f[k].m.probes < MaxProbes => Walking(f[k], x, k)
           T == {k \in 0 .. n : Good(k)}
<1>4. 0 \in T
  <2>1. Walking(f[0], x, 0)
    BY <1>2, <1>3, WalkBegins
  <2>2. f[0].m = m
    BY <1>2
  <2> QED
    BY <2>1, <2>2
<1>5. ASSUME NEW k \in 0 .. n, k \in T, k < n PROVE k + 1 \in T
  <2>1. k + 1 \in 1 .. n /\ k + 1 \in 0 .. n /\ (k + 1) - 1 = k /\ k \in Nat
    BY <1>5
  <2>2. f[k + 1] = Visit(f[k], {})
    BY <1>2, <2>1
  <2>3. Good(k)
    BY <1>5
  <2>4. PICK w, v : w = f[k] /\ v = f[k + 1] /\ v = Visit(w, {})
    BY <2>2
  <2>5. v.m.probes \in Nat /\ v.m.probes >= w.m.probes
    BY <2>3, <2>4, VisitCounts
  <2>6. ASSUME v.m.probes < MaxProbes PROVE Walking(v, x, k + 1)
    <3>1. w.m.probes < MaxProbes
      BY <2>3, <2>4, <2>5, <2>6, CrashLogAssumption
    <3>2. Walking(w, x, k)
      BY <2>3, <2>4, <3>1
    <3> QED
      BY <1>3, <2>1, <2>4, <2>6, <3>2, VisitWalks
  <2>7. v.m.probes >= m.probes
    BY <2>3, <2>4, <2>5
  <2>8. Good(k + 1)
    BY <2>4, <2>5, <2>6, <2>7
  <2> QED
    BY <2>1, <2>8
<1>6. n \in T
  <2> HIDE DEF T
  <2> QED
    BY <1>4, <1>5, UpTo, Zenon
<1>7. Good(n)
  BY <1>6
<1>8. PICK w, done, r : w = f[n] /\ done = w.m /\ r = MinimizeTree(m, {})
  OBVIOUS
<1>9. r = WalkEnd(done, m)
  BY <1>2, <1>8
<1>10. r.probes = done.probes /\ (done.item = m.item => r = done)
  BY <1>9 DEF WalkEnd
<1>11. r.probes \in Nat /\ r.probes >= m.probes
  BY <1>7, <1>8, <1>10
<1>12. ASSUME r.probes < MaxProbes
       PROVE  /\ DOMAIN r.item = Fields /\ r.item.tmpl = x.tmpl
              /\ r.item.query = x.query /\ r.item.seg = x.seg
              /\ IsPruned(r.item.tree) /\ Part(r.item.tree, x.tree)
              /\ \A at \in DOMAIN r.item.tree \ {<<>>} :
                    Crashes(Bare(r.item, Gone(r.item.tree, at))) = 0
  <2>1. Walking(w, x, n)
    BY <1>7, <1>8, <1>10, <1>12
  <2>2. w.todo = <<>>
    <3> SUFFICES ASSUME w.todo # <<>> PROVE FALSE
      OBVIOUS
    <3>1. n + Len(w.todo) + w.kid <= 2 + 2 * w.m.probes
      BY <2>1 DEF Walking
    <3>2. Len(w.todo) \in Nat /\ w.kid \in Nat \ {0} /\ Len(w.todo) # 0
      BY <2>1 DEF Walking
    <3>3. w.m.probes \in Nat /\ w.m.probes < MaxProbes /\ MaxProbes \in Nat
      BY <1>8, <1>10, <1>11, <1>12, CrashLogAssumption
    <3>4. PICK a, b, c : a = Len(w.todo) /\ b = w.kid /\ c = w.m.probes
      OBVIOUS
    <3>5. /\ a \in Nat /\ a # 0 /\ b \in Nat \ {0} /\ c \in Nat /\ c < MaxProbes /\ MaxProbes \in Nat
          /\ 2 * MaxProbes + 1 + a + b <= 2 + 2 * c
      BY <1>1, <3>1, <3>2, <3>3, <3>4
    <3> QED
      BY <3>5
  <2>3. PICK root : root = done.root
    OBVIOUS
  <2>4. /\ DOMAIN done.item = Fields /\ done.item.tmpl = x.tmpl /\ done.item.query = x.query
        /\ done.item.seg = x.seg /\ done.item.tree = root /\ IsPruned(root) /\ Part(root, x.tree)
    BY <1>8, <2>1, <2>3 DEF Walking
  <2>5. \A at \in DOMAIN root \ {<<>>} : Crashes(Bare(x, Gone(root, at))) = 0
    <3>1. \A at \in DOMAIN root \ {<<>>} : Pending(w, at) \/ Crashes(Bare(x, Gone(root, at))) = 0
      BY <1>8, <2>1, <2>3, Zenon DEF Walking
    <3>2. \A at : ~Pending(w, at)
      BY <2>2 DEF Pending
    <3> QED
      BY <3>1, <3>2
  <2>6. /\ DOMAIN r.item = Fields /\ r.item.tmpl = x.tmpl /\ r.item.query = x.query
        /\ r.item.seg = x.seg /\ r.item.tree = root
    <3>1. CASE done.item = m.item
      BY <1>10, <2>4, <3>1
    <3>2. CASE done.item # m.item
      <4>1. r.item = [done.item EXCEPT !.tree = root]
        BY <1>9, <2>3, <3>2 DEF WalkEnd
      <4> QED
        BY <2>4, <4>1 DEF Fields
    <3> QED
      BY <3>1, <3>2
  <2>7. ASSUME NEW at \in DOMAIN root \ {<<>>} PROVE Crashes(Bare(r.item, Gone(root, at))) = 0
    <3>1. PICK g : g = Gone(root, at)
      OBVIOUS
    <3>2. Crashes(Bare(x, g)) = 0 /\ Part(g, g)
      BY <2>5, <3>1 DEF Part
    <3>3. Crashes(Bare(r.item, g)) = 0
      BY <1>3, <2>6, <3>2, BareIs, TypedLess
    <3> QED
      BY <3>1, <3>3
  <2> QED
    BY <2>4, <2>6, <2>7
<1> QED
  BY <1>3, <1>8, <1>11, <1>12

-----------------------------------------------------------------------------
(* CrashLog: a minimized request.                                          *)

\* A request, and one that was made from it by replacing segments.
Rerouted(item, x) ==
    /\ DOMAIN item = Fields /\ item.tmpl = x.tmpl /\ item.query = x.query
    /\ item.tree = x.tree /\ item.body = x.body /\ item.enc = x.enc
    /\ item.seg = x.seg \/ item.seg \in ToSet(Replacements)

LEMMA Reroutes ==
    ASSUME NEW m, m.probes \in Nat, NEW edits, Len(edits) \in Nat,
           \A k \in 1 .. Len(edits) : edits[k].part = "segment" /\ edits[k].by \in ToSet(Replacements)
    PROVE  LET r == TryAll(m, edits, {})
           IN /\ r.probes \in Nat /\ r.probes >= m.probes
              /\ DOMAIN m.item = Fields => Rerouted(r.item, m.item)
<1>1. PICK n \in Nat : n = Len(edits)
  OBVIOUS
<1>2. PICK f : Tried(f, m, edits, {})
  BY TryAllRuns
<1>20. /\ f[0] = m /\ f[n] = TryAll(m, edits, {})
       /\ \A k \in 1 .. n : f[k] = Try(f[k - 1], Edited(f[k - 1].item, edits[k]), {})
  BY <1>1, <1>2 DEF Tried
<1> DEFINE Good(r) == /\ r.probes \in Nat /\ r.probes >= m.probes
                      /\ DOMAIN m.item = Fields => Rerouted(r.item, m.item)
           T == {k \in 0 .. n : Good(f[k])}
<1>3. 0 \in T
  BY <1>20 DEF Rerouted
<1>4. ASSUME NEW k \in 0 .. n, k \in T, k < n PROVE k + 1 \in T
  <2>1. k + 1 \in 1 .. n /\ k + 1 \in 0 .. n /\ (k + 1) - 1 = k
    BY <1>4
  <2>2. PICK x, e, cand, y : /\ x = f[k] /\ e = edits[k + 1] /\ cand = Edited(x.item, e)
                             /\ y = Try(x, cand, {})
    OBVIOUS
  <2>3. y = f[k + 1]
    BY <1>20, <2>1, <2>2
  <2>4. Good(x)
    BY <1>4, <2>2
  <2>5. e.part = "segment" /\ e.by \in ToSet(Replacements)
    BY <1>1, <2>1, <2>2
  <2>6. e.part # "query" /\ e.part # "body"
    BY <2>5
  <2>7. ASSUME DOMAIN x.item = Fields
        PROVE  /\ DOMAIN cand = Fields /\ cand.tmpl = x.item.tmpl /\ cand.tree = x.item.tree
               /\ cand.enc = x.item.enc /\ cand.query = x.item.query /\ cand.body = x.item.body
               /\ cand.seg = x.item.seg \/ cand.seg = e.by
    <3>1. PICK z : z = x.item
      OBVIOUS
    <3>2. DOMAIN z = Fields /\ cand = Edited(z, e)
      BY <2>2, <2>7, <3>1
    <3>3. cand.seg = IF e.part = "segment" /\ z.seg = e.what THEN e.by ELSE z.seg
      BY <3>2, EditIs
    <3>4. DOMAIN cand = Fields /\ cand.tmpl = z.tmpl /\ cand.tree = z.tree /\ cand.enc = z.enc
      BY <3>2, EditIs
    <3>5. cand.query = z.query /\ cand.body = z.body
      BY <2>6, <3>2, EditIs
    <3> QED
      BY <3>1, <3>3, <3>4, <3>5
  <2>8. DOMAIN m.item = Fields => Rerouted(cand, m.item)
    BY <2>4, <2>5, <2>7 DEF Rerouted
  <2>9. y.probes \in Nat /\ y.probes >= x.probes
    BY <2>2, <2>4, TryTells
  <2>10. y.item = x.item \/ y.item = cand
    BY <2>2, TryOutcome
  <2>11. Good(y)
    BY <2>4, <2>8, <2>9, <2>10
  <2> QED
    BY <2>1, <2>3, <2>11
<1>5. n \in T
  <2> HIDE DEF T
  <2> QED
    BY <1>3, <1>4, UpTo, Zenon
<1> QED
  BY <1>20, <1>5

\* What replacing segments leaves alone.
LEMMA SegmentOnly ==
    ASSUME NEW m, m.probes \in Nat
    PROVE  LET r == MinimizeSegment(m, {})
           IN /\ r.probes \in Nat /\ r.probes >= m.probes
              /\ DOMAIN m.item = Fields => Rerouted(r.item, m.item)
<1>1. PICK edits : edits = Replacing(m.item.seg)
  OBVIOUS
<1>2. /\ Len(edits) = 4
      /\ \A k \in 1 .. 4 : edits[k].part = "segment" /\ edits[k].by \in ToSet(Replacements)
  <2>1. /\ Len(edits) = 4
        /\ \A k \in 1 .. 4 : edits[k].part = "segment" /\ edits[k].by = Replacements[k]
    BY <1>1, EditsLen DEF Replacing
  <2>2. \A k \in 1 .. 4 : Replacements[k] \in ToSet(Replacements)
    BY DEF ToSet, Replacements
  <2> QED
    BY <2>1, <2>2
<1>3. PICK r : r = TryAll(m, edits, {})
  OBVIOUS
<1>4. r.probes \in Nat /\ r.probes >= m.probes /\ (DOMAIN m.item = Fields => Rerouted(r.item, m.item))
  <2>1. Len(edits) \in Nat
    BY <1>2
  <2>2. \A k \in 1 .. Len(edits) : edits[k].part = "segment" /\ edits[k].by \in ToSet(Replacements)
    BY <1>2
  <2> QED
    BY <1>3, <2>1, <2>2, Reroutes
<1>5. MinimizeSegment(m, {}) = m \/ MinimizeSegment(m, {}) = r
  BY <1>1, <1>3, Zenon DEF MinimizeSegment
<1>6. DOMAIN m.item = Fields => Rerouted(m.item, m.item)
  BY DEF Rerouted
<1> QED
  BY <1>4, <1>5, <1>6

\* The places of a body lie in the fields at its top, which are as many as the root's kids.
LEMMA FieldsOfBody ==
    ASSUME NEW body, IsBody(body)
    PROVE  /\ Rooted(body) /\ body[<<>>].kids \in Nat
           /\ \A p \in DOMAIN body \ {<<>>} : p[1] \in 1 .. body[<<>>].kids
<1>1. DOMAIN body \subseteq Seq(Nat) /\ <<>> \in DOMAIN body /\ body[<<>>].kids \in Nat
  BY DEF IsBody
<1>2. ASSUME NEW p \in DOMAIN body \ {<<>>}
      PROVE  <<p[1]>> \in DOMAIN body /\ p[1] \in 1 .. body[<<>>].kids
  <2>1. p \in Seq(Nat) /\ Len(p) \in Nat /\ Len(p) # 0 /\ 1 \in DOMAIN p
    <3>1. p \in Seq(Nat) /\ p # <<>>
      BY <1>1
    <3> QED
      BY <3>1
  <2>2. SubSeq(p, 1, 1 - 1) = <<>>
    BY <2>1
  <2>3. p[1] \in 1 .. body[SubSeq(p, 1, 1 - 1)].kids
    BY <2>1 DEF IsBody
  <2>4. p[1] \in 1 .. body[<<>>].kids
    BY <2>2, <2>3
  <2>5. CASE Len(p) = 1
    <3>1. p = <<p[1]>>
      BY <2>1, <2>5
    <3> QED
      BY <2>4, <3>1
  <2>6. CASE Len(p) # 1
    <3>1. 2 \in DOMAIN p /\ Len(p) >= 2
      <4>1. PICK n \in Nat : n = Len(p) /\ n # 0 /\ n # 1
        BY <2>1, <2>6
      <4>2. n >= 2 /\ DOMAIN p = 1 .. n
        BY <2>1, <4>1
      <4> QED
        BY <4>1, <4>2
    <3>2. SubSeq(p, 1, 2 - 1) \in DOMAIN body
      BY <3>1 DEF IsBody
    <3>3. SubSeq(p, 1, 2 - 1) = <<p[1]>>
      <4>1. PICK s : s = SubSeq(p, 1, 1)
        OBVIOUS
      <4>2. s \in Seq(Nat) /\ Len(s) = 1 /\ s[1] = p[1]
        BY <2>1, <3>1, <4>1
      <4>3. PICK t : t = <<p[1]>>
        OBVIOUS
      <4>4. t \in Seq(Nat) /\ Len(t) = 1 /\ t[1] = p[1]
        BY <2>1, <4>3
      <4>5. Len(s) = Len(t) /\ \A i \in 1 .. Len(s) : s[i] = t[i]
        BY <4>2, <4>4
      <4>6. s = t
        BY <4>2, <4>4, <4>5, SeqEqual
      <4>7. 2 - 1 = 1
        OBVIOUS
      <4> QED
        BY <4>1, <4>3, <4>6, <4>7
    <3> QED
      BY <2>4, <3>2, <3>3
  <2> QED
    BY <2>5, <2>6
<1> QED
  BY <1>1, <1>2 DEF Rooted

\* A request keeps its fields when one is replaced.
LEMMA ReplacedIs ==
    ASSUME NEW x, DOMAIN x = Fields, NEW v
    PROVE  /\ LET e == [x EXCEPT !.query = v]
              IN e.tmpl = x.tmpl /\ e.query = v /\ e.seg = x.seg /\ e.tree = x.tree /\ e.body = x.body /\ e.enc = x.enc
           /\ LET e == [x EXCEPT !.tree = v]
              IN e.tmpl = x.tmpl /\ e.query = x.query /\ e.seg = x.seg /\ e.tree = v /\ e.body = x.body /\ e.enc = x.enc
           /\ LET e == [x EXCEPT !.body = v]
              IN e.tmpl = x.tmpl /\ e.query = x.query /\ e.seg = x.seg /\ e.tree = x.tree /\ e.body = v /\ e.enc = x.enc
BY DEF Fields

\* Each key is gone from the query of a request, or needed.
KeysTried(x, keys) ==
    \A k \in DOMAIN keys : \/ \A i \in DOMAIN x.query : x.query[i] # keys[k]
                           \/ Crashes([x EXCEPT !.query = DropKey(@, keys[k])]) = 0

\* What a request with its keys tried has to say of the one that is reported: no key can
\* be dropped from this either.
LEMMA QueryMinimal ==
    ASSUME server \in Servers, NEW x, DOMAIN x = Fields, NEW keys, Part(x.query, keys), KeysTried(x, keys),
           NEW poc, DOMAIN poc = Fields,
           poc.tmpl = x.tmpl, Part(poc.query, x.query), poc.seg = x.seg \/ Unasked(poc.seg),
           x.tmpl.typed => Part(poc.tree, x.tree),
           ~x.tmpl.typed => Part(poc.body, x.body) /\ poc.enc = x.enc
    PROVE  \A key \in ToSet(poc.query) : Crashes([poc EXCEPT !.query = DropKey(@, key)]) = 0
<1> SUFFICES ASSUME NEW key \in ToSet(poc.query) PROVE Crashes([poc EXCEPT !.query = DropKey(@, key)]) = 0
  OBVIOUS
<1>1. PICK i \in DOMAIN poc.query : poc.query[i] = key
  BY DEF ToSet
<1>2. i \in DOMAIN x.query /\ x.query[i] = key
  BY <1>1 DEF Part
<1>3. i \in DOMAIN keys /\ keys[i] = key
  BY <1>2 DEF Part
<1>4. Crashes([x EXCEPT !.query = DropKey(@, key)]) = 0
  BY <1>2, <1>3, Zenon DEF KeysTried
<1>5. PICK a, b : a = DropKey(poc.query, key) /\ b = DropKey(x.query, key)
  OBVIOUS
<1>6. Part(a, b)
  BY <1>5, KeysDrop
<1>7. PICK p, q : p = [poc EXCEPT !.query = a] /\ q = [x EXCEPT !.query = b]
  OBVIOUS
<1>8. /\ p.tmpl = poc.tmpl /\ p.query = a /\ p.seg = poc.seg /\ p.tree = poc.tree /\ p.body = poc.body /\ p.enc = poc.enc
      /\ q.tmpl = x.tmpl /\ q.query = b /\ q.seg = x.seg /\ q.tree = x.tree /\ q.body = x.body /\ q.enc = x.enc
  BY <1>7, ReplacedIs
<1>9. Less(p, q)
  BY <1>6, <1>8 DEF Less
<1>10. Crashes(q) = 0
  BY <1>4, <1>5, <1>7
<1>11. Crashes(p) = 0
  BY <1>9, <1>10, LessIsSafe
<1> QED
  BY <1>5, <1>7, <1>11

\* What minimizeQueryPart has tried, ...
LEMMA QueryTried ==
    ASSUME server \in Servers, NEW m, DOMAIN m.item = Fields, m.probes \in Nat, Rooted(m.item.body),
           IsSequence(m.item.query)
    PROVE  LET r == MinimizeQuery(m, {})
           IN /\ r.probes \in Nat /\ r.root = m.root /\ Kept(r.item, m.item) /\ r.item.body = m.item.body
              /\ r.probes < MaxProbes => KeysTried(r.item, m.item.query)
<1>1. PICK keys, n, r : keys = m.item.query /\ n = Len(keys) /\ r = MinimizeQuery(m, {})
  OBVIOUS
<1>2. n \in Nat /\ DOMAIN keys = 1 .. n
  BY <1>1 DEF IsSequence
<1>3. PICK edits : edits = [k \in 1 .. n |-> [part |-> "query", what |-> keys[k]]]
  OBVIOUS
<1>4. r = TryAll(m, edits, {})
  BY <1>1, <1>3, Zenon DEF MinimizeQuery
<1>5. Len(edits) = n /\ Len(edits) \in Nat
  BY <1>2, <1>3, EditsLen
<1>6. \A k \in 1 .. Len(edits) : edits[k].part = "query" /\ edits[k].what = keys[k]
  BY <1>3, <1>5
<1>7. r.item.body = m.item.body
  <2>1. \A k \in 1 .. Len(edits) : edits[k].part # "body"
    BY <1>6
  <2>2. PICK lost : lost = {}
    OBVIOUS
  <2>3. TryAll(m, edits, lost).item.body = m.item.body
    BY <1>5, <2>1, TryAllLeavesBody
  <2> QED
    BY <1>4, <2>2, <2>3
<1>8. /\ r.probes \in Nat /\ r.root = m.root /\ Kept(r.item, m.item)
      /\ r.probes < MaxProbes => \A k \in 1 .. Len(edits) :
            Lacks(r.item, edits[k]) \/ Crashes(Edited(r.item, edits[k])) = 0
  <2>1. \A k \in 1 .. Len(edits) : edits[k].part \in {"query", "body"}
    BY <1>6
  <2> QED
    BY <1>4, <1>5, <2>1, NothingToDrop
<1>9. ASSUME r.probes < MaxProbes, NEW k \in DOMAIN keys
      PROVE  \/ \A i \in DOMAIN r.item.query : r.item.query[i] # keys[k]
             \/ Crashes([r.item EXCEPT !.query = DropKey(@, keys[k])]) = 0
  <2>1. PICK e : e = edits[k] /\ e.part = "query" /\ e.what = keys[k]
    BY <1>2, <1>5, <1>6
  <2>2. Lacks(r.item, e) \/ Crashes(Edited(r.item, e)) = 0
    BY <1>2, <1>5, <1>8, <1>9, <2>1
  <2>3. Edited(r.item, e) = [r.item EXCEPT !.query = DropKey(@, keys[k])]
    BY <2>1, Zenon DEF Edited
  <2> QED
    BY <2>1, <2>2, <2>3, Zenon DEF Lacks
<1>10. r.probes < MaxProbes => KeysTried(r.item, keys)
  BY <1>9, Zenon DEF KeysTried
<1> QED
  BY <1>1, <1>7, <1>8, <1>10

\* ... and minimizeFlat, which goes through the fields at the top of the body.
LEMMA FlatTried ==
    ASSUME server \in Servers, NEW m, DOMAIN m.item = Fields, m.probes \in Nat, IsBody(m.item.body)
    PROVE  LET r == MinimizeFlat(m, {})
           IN /\ r.probes \in Nat /\ r.probes >= m.probes /\ Kept(r.item, m.item)
              /\ r.probes < MaxProbes => \A at \in DOMAIN r.item.body \ {<<>>} :
                    Crashes([r.item EXCEPT !.body = DropField(@, r.item.body[<<at[1]>>].key)]) = 0
<1>1. PICK body, n, r : body = m.item.body /\ n = body[<<>>].kids /\ r = MinimizeFlat(m, {})
  OBVIOUS
<1>2. Rooted(body) /\ n \in Nat /\ \A p \in DOMAIN body \ {<<>>} : p[1] \in 1 .. n
  BY <1>1, FieldsOfBody
<1>3. PICK edits : edits = [k \in 1 .. n |-> [part |-> "body", what |-> body[<<k>>].key]]
  OBVIOUS
<1>4. r = TryAll(m, edits, {})
  BY <1>1, <1>3, Zenon DEF MinimizeFlat
<1>5. Len(edits) = n /\ Len(edits) \in Nat
  BY <1>2, <1>3, EditsLen
<1>6. \A k \in 1 .. Len(edits) : edits[k].part = "body" /\ edits[k].what = body[<<k>>].key
  BY <1>3, <1>5
<1>7. /\ r.probes \in Nat /\ r.probes >= m.probes /\ Kept(r.item, m.item)
      /\ r.probes < MaxProbes => \A k \in 1 .. Len(edits) :
            Lacks(r.item, edits[k]) \/ Crashes(Edited(r.item, edits[k])) = 0
  <2>1. \A k \in 1 .. Len(edits) : edits[k].part \in {"query", "body"}
    BY <1>6
  <2> QED
    BY <1>1, <1>2, <1>4, <1>5, <2>1, NothingToDrop
<1>8. ASSUME r.probes < MaxProbes, NEW at \in DOMAIN r.item.body \ {<<>>}
      PROVE  Crashes([r.item EXCEPT !.body = DropField(@, r.item.body[<<at[1]>>].key)]) = 0
  <2>1. Part(r.item.body, body) /\ Rooted(r.item.body)
    BY <1>1, <1>7 DEF Kept
  <2>2. PICK k, key : k = at[1] /\ key = r.item.body[<<k>>].key
    OBVIOUS
  <2>3. <<k>> \in DOMAIN r.item.body /\ r.item.body[<<k>>] = body[<<k>>] /\ at \in DOMAIN body
    BY <2>1, <2>2 DEF Part, Rooted
  <2>4. k \in 1 .. Len(edits)
    BY <1>2, <1>5, <2>2, <2>3
  <2>5. PICK e : e = edits[k] /\ e.part = "body" /\ e.what = key
    BY <1>6, <2>2, <2>3, <2>4
  <2>6. ~Lacks(r.item, e)
    BY <2>2, <2>5, Zenon DEF Lacks
  <2>7. Crashes(Edited(r.item, e)) = 0
    BY <1>7, <1>8, <2>4, <2>5, <2>6
  <2>8. Edited(r.item, e) = [r.item EXCEPT !.body = DropField(@, key)]
    <3>1. e.part # "query"
      BY <2>5
    <3> QED
      BY <2>5, <3>1, Zenon DEF Edited
  <2> QED
    BY <2>2, <2>7, <2>8
<1> QED
  BY <1>1, <1>7, <1>8

\* Minimization with an answer to every probe and probes to spare leaves nothing to drop.
LEMMA MinimizeMinimal ==
    ASSUME server \in Servers, NEW item, DOMAIN item = Fields, item.body = item.tree,
           IsSequence(item.query), IsBody(item.body),
           NEW min, min = MinimizeCrashCandidate(item, {}), min.probes < MaxProbes,
           min.item.seg \in ToSet(Replacements) => Unasked(min.item.seg)
    PROVE  Minimal(min.item)
<1>1. PICK start, query, body, poc :
        /\ start = [item |-> item, root |-> item.tree, probes |-> 0]
        /\ query = MinimizeQuery(start, {})
        /\ body = (IF item.tmpl.typed THEN MinimizeTree(query, {}) ELSE MinimizeFlat(query, {}))
        /\ poc = min.item
  OBVIOUS
<1>2. start.item = item /\ start.root = item.tree /\ start.probes = 0 /\ Rooted(item.body)
  BY <1>1, FieldsOfBody
<1>3. min = IF MaxProbes = 0 THEN start ELSE MinimizeSegment(body, {})
  BY <1>1, Zenon DEF MinimizeCrashCandidate
<1>4. min = MinimizeSegment(body, {}) /\ MaxProbes \in Nat
  BY <1>2, <1>3, CrashLogAssumption
<1>5. /\ query.probes \in Nat /\ query.root = item.tree /\ query.item.body = item.body
      /\ Kept(query.item, item)
      /\ query.probes < MaxProbes => KeysTried(query.item, item.query)
  <2>1. PICK m : m = start
    OBVIOUS
  <2>2. DOMAIN m.item = Fields /\ m.probes \in Nat /\ Rooted(m.item.body) /\ IsSequence(m.item.query)
    BY <1>2, <2>1
  <2>3. /\ query.probes \in Nat /\ query.root = m.root /\ Kept(query.item, m.item) /\ query.item.body = m.item.body
        /\ query.probes < MaxProbes => KeysTried(query.item, m.item.query)
    BY <1>1, <2>1, <2>2, QueryTried
  <2> QED
    BY <1>2, <2>1, <2>3
<1>6. /\ DOMAIN query.item = Fields /\ query.item.tmpl = item.tmpl /\ query.item.seg = item.seg
      /\ query.item.tree = item.tree /\ query.item.enc = item.enc /\ Part(query.item.query, item.query)
  BY <1>5 DEF Kept
\* What is left of the body, whole or field by field.
<1>7. /\ body.probes \in Nat /\ body.probes >= query.probes
      /\ body.probes < MaxProbes =>
           /\ DOMAIN body.item = Fields /\ body.item.tmpl = item.tmpl /\ body.item.seg = item.seg
           /\ Part(body.item.query, query.item.query)
           /\ item.tmpl.typed =>
                /\ Part(body.item.tree, query.item.tree)
                /\ \A at \in DOMAIN body.item.tree \ {<<>>} :
                      Crashes(Bare(body.item, Gone(body.item.tree, at))) = 0
           /\ ~item.tmpl.typed =>
                /\ Part(body.item.body, query.item.body) /\ body.item.enc = query.item.enc
                /\ \A at \in DOMAIN body.item.body \ {<<>>} :
                      Crashes([body.item EXCEPT !.body = DropField(@, body.item.body[<<at[1]>>].key)]) = 0
  <2>1. CASE item.tmpl.typed
    <3>1. body = MinimizeTree(query, {})
      BY <1>1, <2>1
    <3>2. query.item.tree = query.root /\ query.item.body = query.root /\ IsBody(query.root)
          /\ query.item.tmpl.typed
      BY <1>5, <1>6, <2>1
    <3>3. /\ body.probes \in Nat /\ body.probes >= query.probes
          /\ body.probes < MaxProbes =>
               /\ DOMAIN body.item = Fields /\ body.item.tmpl = query.item.tmpl
               /\ body.item.query = query.item.query /\ body.item.seg = query.item.seg
               /\ Part(body.item.tree, query.item.tree)
               /\ \A at \in DOMAIN body.item.tree \ {<<>>} :
                     Crashes(Bare(body.item, Gone(body.item.tree, at))) = 0
      BY <1>5, <1>6, <3>1, <3>2, TreeMinimal
    <3>4. Part(query.item.query, query.item.query)
      BY DEF Part
    <3> QED
      BY <1>6, <2>1, <3>3, <3>4
  <2>2. CASE ~item.tmpl.typed
    <3>1. body = MinimizeFlat(query, {})
      BY <1>1, <2>2
    <3>2. /\ body.probes \in Nat /\ body.probes >= query.probes /\ Kept(body.item, query.item)
          /\ body.probes < MaxProbes => \A at \in DOMAIN body.item.body \ {<<>>} :
                Crashes([body.item EXCEPT !.body = DropField(@, body.item.body[<<at[1]>>].key)]) = 0
      BY <1>5, <1>6, <3>1, FlatTried
    <3> QED
      BY <1>6, <2>2, <3>2 DEF Kept
  <2> QED
    BY <2>1, <2>2
<1>8. Rerouted(poc, body.item) /\ body.probes < MaxProbes /\ query.probes < MaxProbes
  <2>1. /\ min.probes \in Nat /\ min.probes >= body.probes
        /\ DOMAIN body.item = Fields => Rerouted(min.item, body.item)
    BY <1>4, <1>7, SegmentOnly
  <2>2. body.probes < MaxProbes /\ query.probes < MaxProbes
    BY <1>4, <1>5, <1>7, <2>1
  <2> QED
    BY <1>1, <1>7, <2>1, <2>2
<1>9. /\ DOMAIN poc = Fields /\ poc.tmpl = item.tmpl /\ poc.query = body.item.query /\ poc.tree = body.item.tree
      /\ poc.body = body.item.body /\ poc.enc = body.item.enc
      /\ poc.seg = item.seg \/ Unasked(poc.seg)
  BY <1>1, <1>7, <1>8 DEF Rerouted
<1>10. \A key \in ToSet(poc.query) : Crashes([poc EXCEPT !.query = DropKey(@, key)]) = 0
  <2>1. PICK x, keys : x = query.item /\ keys = item.query
    OBVIOUS
  <2>2. DOMAIN x = Fields /\ Part(x.query, keys) /\ KeysTried(x, keys)
    BY <1>5, <1>6, <1>8, <2>1
  <2>3. /\ poc.tmpl = x.tmpl /\ Part(poc.query, x.query) /\ (poc.seg = x.seg \/ Unasked(poc.seg))
        /\ x.tmpl.typed => Part(poc.tree, x.tree)
        /\ ~x.tmpl.typed => Part(poc.body, x.body) /\ poc.enc = x.enc
    BY <1>6, <1>7, <1>8, <1>9, <2>1
  <2> QED
    BY <1>9, <2>2, <2>3, QueryMinimal
<1>11. ASSUME item.tmpl.typed, NEW at \in DOMAIN poc.tree \ {<<>>}
       PROVE  Crashes([poc EXCEPT !.tree = Gone(@, at)]) = 0
  <2>1. PICK g, p, q : g = Gone(poc.tree, at) /\ p = [poc EXCEPT !.tree = g] /\ q = Bare(body.item, g)
    OBVIOUS
  <2>2. Crashes(q) = 0
    BY <1>7, <1>8, <1>9, <1>11, <2>1
  <2>3. /\ p.tmpl = item.tmpl /\ p.query = poc.query /\ p.seg = poc.seg /\ p.tree = g
        /\ q.tmpl = item.tmpl /\ q.query = poc.query /\ q.seg = item.seg /\ q.tree = g
    <3>1. DOMAIN body.item = Fields /\ body.item.tmpl = item.tmpl /\ body.item.seg = item.seg
      BY <1>7, <1>8
    <3>2. q.tmpl = body.item.tmpl /\ q.query = body.item.query /\ q.seg = body.item.seg /\ q.tree = g
      BY <2>1, <3>1, BareIs
    <3>3. p.tmpl = poc.tmpl /\ p.query = poc.query /\ p.seg = poc.seg /\ p.tree = g
      BY <1>9, <2>1, ReplacedIs
    <3> QED
      BY <1>9, <3>1, <3>2, <3>3
  <2>4. Less(p, q)
    BY <1>9, <1>11, <2>3 DEF Less, Part
  <2>5. Crashes(p) = 0
    BY <2>2, <2>4, LessIsSafe
  <2> QED
    BY <2>1, <2>5
<1>12. ASSUME ~item.tmpl.typed, NEW at \in DOMAIN poc.body \ {<<>>}
       PROVE  Crashes([poc EXCEPT !.body = DropField(@, poc.body[<<at[1]>>].key)]) = 0
  <2>1. PICK d, p, q : /\ d = DropField(poc.body, poc.body[<<at[1]>>].key)
                       /\ p = [poc EXCEPT !.body = d] /\ q = [body.item EXCEPT !.body = d]
    OBVIOUS
  <2>2. Crashes(q) = 0
    BY <1>7, <1>8, <1>9, <1>12, <2>1
  <2>3. /\ p.tmpl = item.tmpl /\ p.query = poc.query /\ p.seg = poc.seg /\ p.body = d /\ p.enc = poc.enc
        /\ q.tmpl = item.tmpl /\ q.query = poc.query /\ q.seg = item.seg /\ q.body = d /\ q.enc = poc.enc
    <3>1. DOMAIN body.item = Fields /\ body.item.tmpl = item.tmpl /\ body.item.seg = item.seg
      BY <1>7, <1>8
    <3>2. /\ q.tmpl = body.item.tmpl /\ q.query = body.item.query /\ q.seg = body.item.seg /\ q.body = d
          /\ q.enc = body.item.enc
      BY <2>1, <3>1, ReplacedIs
    <3>3. p.tmpl = poc.tmpl /\ p.query = poc.query /\ p.seg = poc.seg /\ p.body = d /\ p.enc = poc.enc
      BY <1>9, <2>1, ReplacedIs
    <3> QED
      BY <1>9, <3>1, <3>2, <3>3
  <2>4. Less(p, q)
    BY <1>9, <1>12, <2>3 DEF Less, Part
  <2>5. Crashes(p) = 0
    BY <2>2, <2>4, LessIsSafe
  <2> QED
    BY <2>1, <2>5
<1>13. Minimal(poc)
  BY <1>9, <1>10, <1>11, <1>12 DEF Minimal
<1> QED
  BY <1>1, <1>13
-----------------------------------------------------------------------------
(* CrashLog: what holds in every run.                                      *)

\* The request under way is one of a template of the server's, as it was rendered.
Sent(r) ==
    /\ DOMAIN r = Fields /\ r.tmpl \in server.templates
    /\ r.body = r.tree /\ IsSequence(r.query) /\ IsBody(r.body)

\* What a finding promises: its request crashes the server and its text is its tree, and
\* if it was minimized with probes to spare nothing in it is idle.
Reported(f) ==
    /\ Crashes(f.poc) # 0 /\ (f.poc.tmpl.typed => f.poc.body = f.poc.tree)
    /\ f.thorough /\ (f.poc.seg \in ToSet(Replacements) => Unasked(f.poc.seg)) => Minimal(f.poc)

RInv ==
    /\ server \in Servers
    /\ \E S : findings \in Seq(S)
    /\ last # NoRequest => Sent(last)
    /\ \A i \in DOMAIN findings : Reported(findings[i])

\* Whether a request is minimal is a matter of what is sent.
LEMMA SameMinimal ==
    ASSUME NEW p, NEW q, DOMAIN p = Fields, DOMAIN q = Fields, p.tmpl = q.tmpl, p.query = q.query,
           p.seg = q.seg, p.tree = q.tree, p.body = q.body, p.enc = q.enc, Minimal(q)
    PROVE  Minimal(p)
<1>1. ASSUME NEW v PROVE Crashes([p EXCEPT !.query = v]) = Crashes([q EXCEPT !.query = v])
  <2>1. PICK a, b : a = [p EXCEPT !.query = v] /\ b = [q EXCEPT !.query = v]
    OBVIOUS
  <2>2. a.tmpl = b.tmpl /\ a.query = b.query /\ a.seg = b.seg /\ a.tree = b.tree /\ a.body = b.body /\ a.enc = b.enc
    BY <2>1, ReplacedIs
  <2>3. Crashes(a) = Crashes(b)
    BY <2>2, SameCrash
  <2> QED
    BY <2>1, <2>3
<1>2. ASSUME NEW v PROVE Crashes([p EXCEPT !.tree = v]) = Crashes([q EXCEPT !.tree = v])
  <2>1. PICK a, b : a = [p EXCEPT !.tree = v] /\ b = [q EXCEPT !.tree = v]
    OBVIOUS
  <2>2. a.tmpl = b.tmpl /\ a.query = b.query /\ a.seg = b.seg /\ a.tree = b.tree /\ a.body = b.body /\ a.enc = b.enc
    BY <2>1, ReplacedIs
  <2>3. Crashes(a) = Crashes(b)
    BY <2>2, SameCrash
  <2> QED
    BY <2>1, <2>3
<1>3. ASSUME NEW v PROVE Crashes([p EXCEPT !.body = v]) = Crashes([q EXCEPT !.body = v])
  <2>1. PICK a, b : a = [p EXCEPT !.body = v] /\ b = [q EXCEPT !.body = v]
    OBVIOUS
  <2>2. a.tmpl = b.tmpl /\ a.query = b.query /\ a.seg = b.seg /\ a.tree = b.tree /\ a.body = b.body /\ a.enc = b.enc
    BY <2>1, ReplacedIs
  <2>3. Crashes(a) = Crashes(b)
    BY <2>2, SameCrash
  <2> QED
    BY <2>1, <2>3
<1>4. ASSUME NEW k \in ToSet(p.query) PROVE Crashes([p EXCEPT !.query = DropKey(@, k)]) = 0
  <2>1. Crashes([q EXCEPT !.query = DropKey(@, k)]) = 0
    BY <1>4, Zenon DEF Minimal
  <2> QED
    BY <1>1, <2>1
<1>5. ASSUME p.tmpl.typed, NEW at \in DOMAIN p.tree \ {<<>>} PROVE Crashes([p EXCEPT !.tree = Gone(@, at)]) = 0
  <2>1. Crashes([q EXCEPT !.tree = Gone(@, at)]) = 0
    BY <1>5, Zenon DEF Minimal
  <2> QED
    BY <1>2, <2>1
<1>6. ASSUME ~p.tmpl.typed, NEW at \in DOMAIN p.body \ {<<>>}
      PROVE  Crashes([p EXCEPT !.body = DropField(@, p.body[<<at[1]>>].key)]) = 0
  <2>1. Crashes([q EXCEPT !.body = DropField(@, q.body[<<at[1]>>].key)]) = 0
    BY <1>6, Zenon DEF Minimal
  <2> QED
    BY <1>3, <2>1
<1> QED
  BY <1>4, <1>5, <1>6, Zenon DEF Minimal

\* What recordCrash reports reproduces the crash, shrunk or not.
LEMMA RecordKeeps ==
    ASSUME RInv, last # NoRequest, NEW lost, NEW bug, NEW severity, Crashes(last) # 0,
           RecordCrash(last, bug, severity, lost)
    PROVE  \/ UNCHANGED <<findings, clusters>>
           \/ \E finding : /\ Report(finding) /\ finding.severity = severity
                           /\ Reported(finding)
<1>1. Sent(last)
  BY DEF RInv
<1> DEFINE sig == Signature(last, bug)
           skipExpensive == spent > TriageBudget
           min == MinimizeCrashCandidate(last, lost)
           chain == MinimizeChain(last.history)
           poc == IF skipExpensive THEN last ELSE [min.item EXCEPT !.history = chain.steps]
           finding == [sig |-> sig, key |-> ClusterKey(last, bug), severity |-> severity, poc |-> poc,
                       thorough |-> ~skipExpensive /\ lost = {} /\ min.probes < MaxProbes]
<1>2. UNCHANGED <<findings, clusters, spent>> \/ Report(finding)
  BY Zenon DEF RecordCrash
<1>3. Reproduces(last, last.tmpl)
  BY <1>1 DEF Sent, Reproduces
<1>4. Sound(min, last.tmpl)
  BY <1>1, <1>3, MinimizeKeeps DEF Sent
<1>5. ASSUME ~skipExpensive
      PROVE  /\ DOMAIN poc = Fields /\ poc.tmpl = min.item.tmpl /\ poc.query = min.item.query
             /\ poc.seg = min.item.seg /\ poc.tree = min.item.tree /\ poc.body = min.item.body
             /\ poc.enc = min.item.enc
  <2>1. poc = [min.item EXCEPT !.history = chain.steps]
    BY <1>5
  <2>2. DOMAIN min.item = Fields
    BY <1>4 DEF Sound, Reproduces
  <2> HIDE DEF poc, min, chain
  <2> QED
    BY <2>1, <2>2, Zenon DEF Fields
<1>6. Crashes(poc) # 0 /\ (poc.tmpl.typed => poc.body = poc.tree)
  <2>1. CASE skipExpensive
    BY <1>3, <2>1 DEF Reproduces
  <2>2. CASE ~skipExpensive
    <3>1. Crashes(min.item) # 0 /\ (min.item.tmpl.typed => min.item.body = min.item.tree)
      BY <1>4 DEF Sound, Reproduces
    <3> HIDE DEF poc, min, chain
    <3>2. Crashes(poc) = Crashes(min.item)
      BY <1>5, <2>2, SameCrash
    <3> QED
      BY <1>5, <2>2, <3>1, <3>2
  <2> QED
    BY <2>1, <2>2
<1>7. ASSUME ~skipExpensive /\ lost = {} /\ min.probes < MaxProbes,
             poc.seg \in ToSet(Replacements) => Unasked(poc.seg)
      PROVE  Minimal(poc)
  <2>1. PICK i : i = last
    OBVIOUS
  <2>2. DOMAIN i = Fields /\ i.body = i.tree /\ IsSequence(i.query) /\ IsBody(i.body)
    BY <1>1, <2>1 DEF Sent
  <2>3. PICK m : m = min
    OBVIOUS
  <2>4. m = MinimizeCrashCandidate(i, {})
    BY <1>7, <2>1, <2>3
  <2>5. DOMAIN m.item = Fields
    BY <1>4, <2>3 DEF Sound, Reproduces
  <2> HIDE DEF poc, min, chain
  <2>6. m.probes < MaxProbes /\ (m.item.seg \in ToSet(Replacements) => Unasked(m.item.seg))
    BY <1>5, <1>7, <2>3
  <2>7. Minimal(m.item)
    BY <2>2, <2>4, <2>6, MinimizeMinimal DEF RInv
  <2> QED
    BY <1>5, <1>7, <2>3, <2>5, <2>7, SameMinimal
<1>8. /\ finding.poc = poc /\ finding.severity = severity
      /\ finding.thorough = (~skipExpensive /\ lost = {} /\ min.probes < MaxProbes)
  OBVIOUS
<1>9. finding.thorough => ~skipExpensive /\ lost = {} /\ min.probes < MaxProbes
  BY <1>8
<1> HIDE DEF finding, poc, min
<1>10. Reported(finding)
  BY <1>6, <1>7, <1>8, <1>9 DEF Reported
<1> QED
  BY <1>2, <1>8, <1>10

\* A server does not change: what crashes it once crashes it later.
LEMMA CrashesForGood ==
    ASSUME server' = server, NEW x
    PROVE  Crashes(x)' = Crashes(x)
<1>1. ASSUME NEW enc, NEW tree PROVE FirstBug(x, enc, tree)' = FirstBug(x, enc, tree)
  <2> DEFINE Hit(s) == {b \in DOMAIN s.bugs :
                         /\ s.bugs[b].tmpl = x.tmpl.name
                         /\ s.bugs[b].needs \subseteq Features(x, enc, tree)}
             First(s) == IF Hit(s) = {} THEN 0 ELSE CHOOSE b \in Hit(s) : \A c \in Hit(s) : b <= c
  <2>1. FirstBug(x, enc, tree) = First(server)
    BY Zenon DEF FirstBug
  <2>2. FirstBug(x, enc, tree)' = First(server')
    BY Zenon DEF FirstBug, Features
  <2> HIDE DEF First
  <2> QED
    BY <2>1, <2>2
<1> QED
  BY <1>1, Zenon DEF Crashes

\* So what a finding promises stays true.
LEMMA ReportedForGood ==
    ASSUME server' = server, NEW f, Reported(f)
    PROVE  Reported(f)'
<1>1. ASSUME NEW seg PROVE Unasked(seg)' = Unasked(seg)
  BY DEF Unasked
<1>2. PICK poc : poc = f.poc
  OBVIOUS
<1>3. Minimal(poc) => Minimal(poc)'
  <2> SUFFICES ASSUME Minimal(poc) PROVE Minimal(poc)'
    OBVIOUS
  <2>1. ASSUME NEW k \in ToSet(poc.query) PROVE Crashes([poc EXCEPT !.query = DropKey(@, k)])' = 0
    BY <2>1, CrashesForGood DEF Minimal
  <2>2. ASSUME poc.tmpl.typed, NEW at \in DOMAIN poc.tree \ {<<>>}
        PROVE  Crashes([poc EXCEPT !.tree = Gone(@, at)])' = 0
    BY <2>2, CrashesForGood DEF Minimal
  <2>3. ASSUME ~poc.tmpl.typed, NEW at \in DOMAIN poc.body \ {<<>>}
        PROVE  Crashes([poc EXCEPT !.body = DropField(@, poc.body[<<at[1]>>].key)])' = 0
    BY <2>3, CrashesForGood DEF Minimal
  <2> QED
    BY <2>1, <2>2, <2>3, Zenon DEF Minimal
<1>4. Crashes(poc)' = Crashes(poc)
  BY CrashesForGood
<1> QED
  BY <1>1, <1>2, <1>3, <1>4 DEF Reported

\* Nothing is reported yet.
LEMMA InitReproduces == CrashInit => RInv
<1> SUFFICES ASSUME CrashInit PROVE RInv
  OBVIOUS
<1>1. findings \in Seq({}) /\ DOMAIN findings = {} /\ last = NoRequest /\ server \in Servers
  BY DEF CrashInit, ClustersInit
<1> QED
  BY <1>1 DEF RInv

\* What was reported stays reported.
LEMMA ReportsStay ==
    ASSUME RInv, server' = server, findings' = findings
    PROVE  \A i \in DOMAIN findings' : Reported(findings[i])'
<1> SUFFICES ASSUME NEW i \in DOMAIN findings' PROVE Reported(findings[i])'
  OBVIOUS
<1>1. PICK f : f = findings[i] /\ Reported(f)
  BY DEF RInv
<1>2. Reported(f)'
  BY <1>1, ReportedForGood
<1> QED
  BY <1>1, <1>2

\* A request goes out as it was rendered.
LEMMA SendReproduces ==
    ASSUME RInv, NEW tmpl \in server.templates, NEW b \in BodiesOf(tmpl), NEW query \in tmpl.queries,
           NEW seg, NEW history, Send(tmpl, b, query, seg, history)
    PROVE  RInv'
<1>1. server' = server /\ findings' = findings /\ server \in Servers
  BY DEF Send, RInv
<1>2. IsSequence(query) /\ IsBody(b.places)
  BY <1>1, CrashLogAssumption
<1> DEFINE r == [tmpl |-> tmpl, mode |-> b.mode, label |-> b.label, value |-> b.value,
                 query |-> query, seg |-> seg, tree |-> b.places, body |-> b.places,
                 enc |-> tmpl.enc, history |-> history]
<1>3. last' = r
  BY DEF Send
<1>4. DOMAIN r = Fields /\ r.tmpl = tmpl /\ r.tree = b.places /\ r.body = b.places /\ r.query = query
  BY DEF Fields
<1> HIDE DEF r
<1>5. Sent(last)'
  BY <1>1, <1>2, <1>3, <1>4 DEF Sent
<1>6. \A i \in DOMAIN findings' : Reported(findings[i])'
  BY <1>1, ReportsStay
<1> QED
  BY <1>1, <1>5, <1>6 DEF RInv

\* A finding that keeps its promise is appended to findings that do.
LEMMA HandleReproduces ==
    ASSUME RInv, NEW lost, HandleResult(lost)
    PROVE  RInv'
<1>1. server' = server /\ last' = NoRequest /\ last # NoRequest /\ server \in Servers
  BY DEF HandleResult, RInv
<1>2. findings' = findings \/ \E finding : Report(finding) /\ Reported(finding)
  <2>1. PICK b : b = Crashes(last)
    OBVIOUS
  <2>2. CASE b = 0
    BY <2>1, <2>2 DEF HandleResult
  <2>3. CASE b # 0
    <3>1. PICK severity : RecordCrash(last, server.bugs[b], severity, lost)
      BY <2>1, <2>3, Zenon DEF HandleResult
    <3> QED
      BY <1>1, <2>1, <2>3, <3>1, RecordKeeps
  <2> QED
    BY <2>2, <2>3
<1>3. CASE findings' = findings
  BY <1>1, <1>3, ReportsStay DEF RInv
<1>4. ASSUME NEW f, Report(f), Reported(f)
      PROVE  RInv'
  <2>1. PICK S : findings \in Seq(S)
    BY DEF RInv
  <2>2. PICK n \in Nat : n = Len(findings) /\ DOMAIN findings = 1 .. n
    BY <2>1
  <2>3. PICK T : T = S \cup {f}
    OBVIOUS
  <2>4. findings \in Seq(T) /\ f \in T
    <3>1. \A i \in 1 .. n : findings[i] \in S
      BY <2>1, <2>2
    <3>2. findings \in [1 .. n -> T]
      BY <2>1, <2>2, <2>3, <3>1
    <3> QED
      BY <2>3, <3>2, SeqDef
  <2>5. /\ findings' \in Seq(T) /\ DOMAIN findings' = 1 .. n + 1 /\ findings'[n + 1] = f
        /\ \A i \in 1 .. n : findings'[i] = findings[i]
    BY <1>4, <2>2, <2>4 DEF Report
  <2>6. ASSUME NEW i \in 1 .. n + 1 PROVE Reported(findings[i])'
    <3>1. PICK g : g = findings'[i]
      OBVIOUS
    <3>2. Reported(g)
      <4>1. CASE i = n + 1
        BY <1>4, <2>5, <3>1, <4>1
      <4>2. CASE i # n + 1
        <5>1. i \in 1 .. n /\ i \in DOMAIN findings /\ findings[i] = g
          BY <2>2, <2>5, <3>1, <4>2
        <5> QED
          BY <5>1 DEF RInv
      <4> QED
        BY <4>1, <4>2
    <3>3. Reported(g)'
      BY <1>1, <3>2, ReportedForGood
    <3> QED
      BY <3>1, <3>3
  <2> QED
    BY <1>1, <2>5, <2>6 DEF RInv
<1> QED
  BY <1>2, <1>3, <1>4

LEMMA StaysReproducible == CrashSpec => []RInv
<1>1. RInv /\ [CrashNext]_crashVars => RInv'
  <2> SUFFICES ASSUME RInv, [CrashNext]_crashVars PROVE RInv'
    OBVIOUS
  <2>1. CASE UNCHANGED crashVars
    <3>1. server' = server /\ findings' = findings /\ last' = last
      BY <2>1 DEF crashVars
    <3> QED
      BY <3>1, ReportsStay DEF RInv, Sent
  <2>2. ASSUME NEW tmpl \in server.templates, NEW b \in BodiesOf(tmpl), NEW query \in tmpl.queries,
               NEW seg \in tmpl.segs, NEW history \in tmpl.histories, Send(tmpl, b, query, seg, history)
        PROVE  RInv'
    BY <2>2, SendReproduces
  <2>3. ASSUME NEW lost \in Losses, HandleResult(lost) PROVE RInv'
    BY <2>3, HandleReproduces
  <2> QED
    BY <2>1, <2>2, <2>3 DEF CrashNext
<1> QED
  BY <1>1, InitReproduces, PTL DEF CrashSpec

\* The request a finding is reported with, shrunk or not, crashes the server, and a
\* typed one's text is its tree (recordCrash, minimizeCrashCandidate).
THEOREM ReportedStillCrashes == CrashSpec => []PocIsWhatCrashed
<1>1. RInv => PocIsWhatCrashed
  BY Zenon DEF RInv, Reported, PocIsWhatCrashed
<1> QED
  BY <1>1, StaysReproducible, PTL

\* Nothing can be left out of a request that was minimized with an answer to every probe
\* and probes to spare, whatever the body and however deep (minimizeQueryPart,
\* minimizeBodyTree, minimizeJSONBody); replacing a segment undoes that only when some bug asks for the new one.
THEOREM PocsAreMinimal == CrashSpec => []PocMinimal
<1>1. RInv => PocMinimal
  BY Zenon DEF RInv, Reported, PocMinimal
<1> QED
  BY <1>1, StaysReproducible, PTL

\* The bug that a crash is put down to is one of the server's.
LEMMA FirstInList ==
    ASSUME NEW x, Crashes(x) # 0, server \in Servers
    PROVE  Crashes(x) \in DOMAIN server.bugs
<1>1. ASSUME NEW enc, NEW tree, FirstBug(x, enc, tree) # 0
      PROVE  FirstBug(x, enc, tree) \in DOMAIN server.bugs
  <2> DEFINE Hit == {b \in DOMAIN server.bugs :
                      /\ server.bugs[b].tmpl = x.tmpl.name
                      /\ server.bugs[b].needs \subseteq Features(x, enc, tree)}
  <2>1. FirstBug(x, enc, tree) = IF Hit = {} THEN 0 ELSE CHOOSE b \in Hit : \A c \in Hit : b <= c
    BY Zenon DEF FirstBug
  <2>2. Hit \subseteq DOMAIN server.bugs
    OBVIOUS
  <2>3. DOMAIN server.bugs \subseteq Nat
    BY CrashLogAssumption DEF IsSequence
  <2> HIDE DEF Hit
  <2>4. Hit # {}
    BY <1>1, <2>1
  <2>5. \E b \in Hit : \A c \in Hit : b <= c
    BY <2>2, <2>3, <2>4, Least
  <2> QED
    BY <2>1, <2>2, <2>4, <2>5
<1> QED
  BY <1>1, Zenon DEF Crashes

\* What recordCrash does to findings and clusters is to report.
LEMMA CrashReports ==
    ASSUME RInv, [CrashNext]_crashVars
    PROVE  [ClustersNext]_<<findings, clusters>>
<1>1. CASE UNCHANGED crashVars
  BY <1>1 DEF crashVars
<1>2. ASSUME NEW tmpl, NEW b, NEW query, NEW seg, NEW history, Send(tmpl, b, query, seg, history)
      PROVE  [ClustersNext]_<<findings, clusters>>
  BY <1>2 DEF Send
<1>3. ASSUME NEW lost, HandleResult(lost)
      PROVE  [ClustersNext]_<<findings, clusters>>
  <2>1. PICK b : b = Crashes(last)
    OBVIOUS
  <2>2. CASE b = 0
    BY <1>3, <2>1, <2>2 DEF HandleResult
  <2>3. CASE b # 0
    <3>1. PICK severity \in server.bugs[b].severities : RecordCrash(last, server.bugs[b], severity, lost)
      BY <1>3, <2>1, <2>3, Zenon DEF HandleResult
    <3>2. last # NoRequest
      BY <1>3 DEF HandleResult
    <3>3. severity \in Int
      <4>1. b \in DOMAIN server.bugs
        BY <2>1, <2>3, FirstInList DEF RInv
      <4> QED
        BY <4>1, CrashLogAssumption DEF RInv
    <3> QED
      BY <2>1, <2>3, <3>1, <3>2, <3>3, RecordKeeps DEF ClustersNext
  <2> QED
    BY <2>2, <2>3
<1> QED
  BY <1>1, <1>2, <1>3 DEF CrashNext

\* Crash recording is a report of findings and nothing else ...
THEOREM CrashesAreReports == CrashSpec => ClustersSpec
<1>1. CrashInit => ClustersInit
  BY DEF CrashInit
<1>2. RInv /\ [CrashNext]_crashVars => [ClustersNext]_<<findings, clusters>>
  BY CrashReports
<1> QED
  BY <1>1, <1>2, StaysReproducible, PTL DEF CrashSpec, ClustersSpec

\* ... so each counts once in the cluster of its cause, whatever the crashes and the
\* probes lost on the way (recordCrash, RecordCluster).
THEOREM CrashesKeepClusters == CrashSpec => []ClustersAccount
BY CrashesAreReports, ClustersStayTrue, PTL

-----------------------------------------------------------------------------
(* The main loop: crashes and lessons together.                            *)

\* Whatever the main loop does with results, its crashes are those of CrashLog and its
\* lessons those of Learning: neither disturbs the other (handleResult).
THEOREM ResultsAreBoth == ResultsSpec => CrashSpec /\ LearnSpec
<1>1. ResultsInit => CrashInit /\ LearnInit
  BY DEF ResultsInit
<1>2. [ResultsNext]_resultsVars => [CrashNext]_crashVars
  BY DEF ResultsNext, resultsVars
<1>3. [ResultsNext]_resultsVars => [LearnNext]_learnVars
  BY DEF ResultsNext, resultsVars
<1> QED
  BY <1>1, <1>2, <1>3, PTL DEF ResultsSpec, CrashSpec, LearnSpec

\* So what was shown of each holds of the main loop, with one exception: how bodies are
\* built, which CrashLog takes as it comes.
THEOREM ResultsHold ==
    ResultsSpec => [](/\ PocIsWhatCrashed /\ PocMinimal /\ ClustersAccount
                      /\ StoreConsistent /\ PairsObserved /\ HarvestBounded)
BY ResultsAreBoth, ReportedStillCrashes, PocsAreMinimal, CrashesKeepClusters,
   StoreStaysConsistent, PairsStayObserved, HarvestStaysBounded, PTL

=============================================================================
