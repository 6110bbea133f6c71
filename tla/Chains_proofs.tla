--------------------------- MODULE Chains_proofs ---------------------------
(***************************************************************************)
(* Proofs about Chains and ResourceGraph, for any server, grammar and      *)
(* bounds: the graph is consistent, and true to the server as long as no   *)
(* answer was misleading; a finding accuses what a DELETE named before;    *)
(* chains keep to their tenant and end; and workflow files have an owner.  *)
(*                                                                         *)
(* The graph stays true because objects only grow: what an answer tells of *)
(* is still there when it is handled, however late that is.                *)
(***************************************************************************)
EXTENDS Chains, WellFoundedInduction, SequenceTheorems, FiniteSetTheorems, TLAPS

-----------------------------------------------------------------------------
(* Induction over numbers.                                                 *)

\* A nonempty set of numbers has a least one: what SelectInSeq rests on.
LEMMA Least ==
    ASSUME NEW T, T \subseteq Nat, T # {}
    PROVE  \E x \in T : \A y \in T : x <= y
<1> DEFINE R == OpToRel(<, Nat)
<1>1. IsWellFoundedOn(R, Nat)
  BY NatLessThanWellFounded
<1>2. \A x, y \in Nat : x < y => <<x, y>> \in R
  BY DEF OpToRel
<1> HIDE DEF R
<1>3. PICK x \in T : \A y \in T : <<y, x>> \notin R
  BY <1>1, WFMin
<1>4. \A y \in T : ~(y < x)
  BY <1>2, <1>3
<1>5. \A y \in T : x <= y
  BY <1>4
<1> QED
  BY <1>5

\* Induction up to a bound.
LEMMA UpTo ==
    ASSUME NEW n \in Nat, NEW S, 0 \in S, \A i \in 0 .. n : i \in S /\ i < n => i + 1 \in S
    PROVE  n \in S
<1> SUFFICES ASSUME 0 .. n \ S # {} PROVE FALSE
  <2>1. n \in 0 .. n
    OBVIOUS
  <2> QED
    BY <2>1
<1>1. 0 .. n \ S \subseteq Nat
  OBVIOUS
<1>2. PICK x \in 0 .. n \ S : \A y \in 0 .. n \ S : x <= y
  BY <1>1, Least
<1>3. x # 0 /\ x - 1 \in 0 .. n /\ x - 1 \notin 0 .. n \ S
  BY <1>2
<1> QED
  BY <1>3

-----------------------------------------------------------------------------
(* Sequences without repetitions.                                          *)

\* Taking away an element of such a sequence, which is there at most once.
LEMMA RemoveOne ==
    ASSUME NEW S, NEW s \in Seq(S), IsInjective(s), NEW e
    PROVE  /\ RemoveFirst(s, e) \in Seq(S) /\ IsInjective(RemoveFirst(s, e))
           /\ Range(RemoveFirst(s, e)) = Range(s) \ {e}
           /\ Len(RemoveFirst(s, e)) \in Nat
           /\ Len(RemoveFirst(s, e)) = IF e \in Range(s) THEN Len(s) - 1 ELSE Len(s)
<1>1. CASE e \notin Range(s)
  <2>1. ~ \E i \in 1 .. Len(s) : s[i] = e
    BY <1>1 DEF Range
  <2>2. RemoveFirst(s, e) = s
    BY <2>1 DEF RemoveFirst
  <2> QED
    BY <1>1, <2>2
<1>2. CASE e \in Range(s)
  <2> DEFINE I == {i \in 1 .. Len(s) : s[i] = e}
             p == SelectInSeq(s, LAMBDA v : v = e)
             r == [i \in 1 .. Len(s) - 1 |-> IF i < p THEN s[i] ELSE s[i + 1]]
  <2>1. I # {} /\ I \subseteq Nat
    BY <1>2 DEF Range
  <2>2. p = Min(I)
    BY <2>1 DEF SelectInSeq
  <2>3. PICK x \in I : \A y \in I : x <= y
    <3> HIDE DEF I
    <3> QED
      BY <2>1, Least
  <2>4. p \in I
    BY <2>2, <2>3 DEF Min
  <2>5. p \in 1 .. Len(s) /\ s[p] = e
    BY <2>4
  <2> HIDE DEF p, I
  <2>6. RemoveFirst(s, e) = SubSeq(s, 1, p - 1) \o SubSeq(s, p + 1, Len(s))
    BY <2>5 DEF RemoveFirst, RemoveAt, p
  <2>7. PICK n \in Nat : n = Len(s)
    OBVIOUS
  <2>8. PICK A \in Seq(S) : /\ A = SubSeq(s, 1, p - 1) /\ Len(A) = p - 1
                            /\ \A i \in 1 .. p - 1 : A[i] = s[i]
    <3>1. 1 \in Int /\ p - 1 \in Int /\ \A i \in 1 .. p - 1 : s[i] \in S
      BY <2>5
    <3>2. SubSeq(s, 1, p - 1) \in Seq(S) /\ Len(SubSeq(s, 1, p - 1)) = p - 1
      BY <2>5
    <3>3. \A i \in 1 .. p - 1 : SubSeq(s, 1, p - 1)[i] = s[i]
      BY <2>5
    <3> QED
      BY <3>2, <3>3
  <2>9. PICK B \in Seq(S) : /\ B = SubSeq(s, p + 1, n) /\ Len(B) = n - p
                            /\ \A i \in 1 .. n - p : B[i] = s[p + i]
    <3>1. SubSeq(s, p + 1, n) \in Seq(S) /\ Len(SubSeq(s, p + 1, n)) = n - p
      BY <2>5, <2>7
    <3>2. \A i \in 1 .. n - p : SubSeq(s, p + 1, n)[i] = s[p + i]
      BY <2>5, <2>7
    <3> QED
      BY <3>1, <3>2
  <2>10. /\ A \o B \in Seq(S) /\ Len(A \o B) = n - 1
         /\ \A i \in 1 .. n - 1 : (A \o B)[i] = IF i <= p - 1 THEN A[i] ELSE B[i - (p - 1)]
    <3>1. p \in Int /\ n \in Int /\ (p - 1) + (n - p) = n - 1
      BY <2>5, <2>7
    <3>2. Len(A) + Len(B) = n - 1
      BY <2>8, <2>9, <3>1
    <3> QED
      BY <2>8, <2>9, <3>1, <3>2, ConcatProperties
  <2>11. \A i \in 1 .. n - 1 : RemoveFirst(s, e)[i] = IF i < p THEN s[i] ELSE s[i + 1]
    <3> SUFFICES ASSUME NEW i \in 1 .. n - 1
                 PROVE  (A \o B)[i] = IF i < p THEN s[i] ELSE s[i + 1]
      BY <2>6, <2>7, <2>8, <2>9
    <3>1. (A \o B)[i] = IF i < p THEN A[i] ELSE B[i - (p - 1)]
      BY <2>5, <2>10
    <3>2. CASE i < p
      BY <2>5, <2>7, <2>8, <3>1, <3>2
    <3>3. CASE ~(i < p)
      <4>1. i - (p - 1) \in 1 .. n - p /\ p + (i - (p - 1)) = i + 1
        BY <2>5, <2>7, <3>3
      <4> QED
        BY <2>9, <3>1, <3>3, <4>1
    <3> QED
      BY <3>2, <3>3
  <2> DEFINE q == RemoveFirst(s, e)
  <2> HIDE DEF q
  <2>12. q \in Seq(S) /\ Len(q) = n - 1
    BY <2>6, <2>7, <2>8, <2>9, <2>10 DEF q
  <2>13. IsInjective(q)
    <3>1. DOMAIN q = 1 .. n - 1
      BY <2>12
    <3> SUFFICES ASSUME NEW a \in 1 .. n - 1, NEW b \in 1 .. n - 1, q[a] = q[b] PROVE a = b
      BY <3>1 DEF IsInjective
    <3>2. PICK c \in 1 .. n : c = (IF a < p THEN a ELSE a + 1) /\ q[a] = s[c]
      BY <2>7, <2>11 DEF q
    <3>3. PICK d \in 1 .. n : d = (IF b < p THEN b ELSE b + 1) /\ q[b] = s[d]
      BY <2>7, <2>11 DEF q
    <3>4. c = d
      <4>1. DOMAIN s = 1 .. n
        BY <2>7
      <4> QED
        BY <3>2, <3>3, <4>1 DEF IsInjective
    <3> QED
      BY <2>5, <3>2, <3>3, <3>4
  <2>14. Range(q) = Range(s) \ {e}
    <3>1. DOMAIN q = 1 .. n - 1 /\ DOMAIN s = 1 .. n
      BY <2>7, <2>12
    <3>2. ASSUME NEW i \in 1 .. n - 1 PROVE q[i] \in Range(s) \ {e}
      <4>1. PICK c \in 1 .. n : c = (IF i < p THEN i ELSE i + 1) /\ q[i] = s[c]
        BY <2>7, <2>11 DEF q
      <4>2. c # p
        BY <2>5, <4>1
      <4>3. s[c] # s[p]
        BY <2>5, <3>1, <4>1, <4>2, <2>7 DEF IsInjective
      <4> QED
        BY <2>5, <3>1, <4>1, <4>3 DEF Range
    <3>3. ASSUME NEW c \in 1 .. n, s[c] # e PROVE \E i \in 1 .. n - 1 : q[i] = s[c]
      <4>1. c # p
        BY <2>5, <3>3
      <4>2. CASE c < p
        <5>1. c \in 1 .. n - 1
          BY <2>5, <2>7, <4>2
        <5> QED
          BY <2>11, <4>2, <5>1 DEF q
      <4>3. CASE c > p
        <5>1. c - 1 \in 1 .. n - 1 /\ ~(c - 1 < p) /\ (c - 1) + 1 = c
          BY <2>5, <2>7, <4>3
        <5> QED
          BY <2>11, <5>1 DEF q
      <4> QED
        BY <2>5, <4>1, <4>2, <4>3
    <3>4. Range(q) \subseteq Range(s) \ {e}
      BY <3>1, <3>2 DEF Range
    <3>5. Range(s) \ {e} \subseteq Range(q)
      BY <3>1, <3>3 DEF Range
    <3> QED
      BY <3>4, <3>5
  <2> QED
    BY <1>2, <2>7, <2>12, <2>13, <2>14 DEF q
<1> QED
  BY <1>1, <1>2

\* Adding an element that is not there yet.
LEMMA AppendOne ==
    ASSUME NEW S, NEW s \in Seq(S), NEW e \in S, IsInjective(s), e \notin Range(s)
    PROVE  /\ Append(s, e) \in Seq(S) /\ IsInjective(Append(s, e))
           /\ Range(Append(s, e)) = Range(s) \cup {e}
           /\ Len(Append(s, e)) = Len(s) + 1
<1>1. PICK n \in Nat : n = Len(s)
  OBVIOUS
<1> DEFINE q == Append(s, e)
<1>2. /\ q \in Seq(S) /\ Len(q) = n + 1 /\ DOMAIN q = 1 .. n + 1
      /\ \A i \in 1 .. n : q[i] = s[i]
      /\ q[n + 1] = e
  BY <1>1
<1>3. DOMAIN s = 1 .. n
  BY <1>1
<1> HIDE DEF q
<1>4. \A i \in 1 .. n : s[i] # e
  BY <1>3 DEF Range
<1>5. IsInjective(q)
  BY <1>2, <1>3, <1>4 DEF IsInjective
<1>6. Range(q) = Range(s) \cup {e}
  <2>1. \A i \in 1 .. n + 1 : i \in 1 .. n \/ i = n + 1
    OBVIOUS
  <2>2. \A i \in 1 .. n : i \in 1 .. n + 1
    OBVIOUS
  <2>3. n + 1 \in 1 .. n + 1
    OBVIOUS
  <2> QED
    BY <1>2, <1>3, <2>1, <2>2, <2>3 DEF Range
<1> QED
  BY <1>1, <1>2, <1>5, <1>6 DEF q

-----------------------------------------------------------------------------
(* The invariant.                                                          *)

\* The server's objects, none of which is ever taken away or moved.
ObjectsOK ==
    /\ target \in Targets
    /\ DOMAIN objects \subseteq Resources
    /\ objects \in [DOMAIN objects -> [parent : DOMAIN objects \cup {NoKey}, live : BOOLEAN]]

\* An answer to a request that reached its resource, and what it may say.
AnswerOK(resp) ==
    /\ resp.uris \in Seq(Uris)
    /\ resp.named \in Seq(Types \X Int)
    /\ resp.told \in Seq(Labels \X Int)

Ready(it, resp) ==
    /\ AnswerOK(resp)
    /\ Rooted(Keys(it.tmpl.path, it.ids), objects)
    /\ tidy => Tidy(it, resp, objects)

Travels(r) ==
    /\ r = [item |-> r.item, resp |-> r.resp]
    /\ r.item.tmpl \in target.grammar
    /\ r.resp = None \/ (r.resp.ok => Ready(r.item, r.resp))

Waits(it) ==
    /\ it.tmpl \in target.grammar
    /\ tidy => /\ it.pick \in DOMAIN objects \cup {NoKey}
               /\ it.pick # NoKey /\ it.chain.tenant # NoKey => Inside(it.pick, it.chain.tenant)

\* What the graph says of a resource: dead only if it is of D, the ones that a DELETE
\* named; and while answers are to be believed, what the server has.
Faithful(inst, k, D) ==
    /\ inst = [life |-> inst.life, parent |-> inst.parent, tenant |-> inst.tenant,
               op |-> inst.op, seq |-> inst.seq]
    /\ inst.life \in Dead => k \in D
    /\ tidy => /\ k \in DOMAIN objects
               /\ inst.parent \in {NoKey, objects[k].parent}
               /\ inst.tenant # NoKey => Inside(k, inst.tenant)

\* S holds whatever a graph may name.
GraphOK(g, S, D) ==
    /\ g = [inst |-> g.inst, byType |-> g.byType, recent |-> g.recent]
    /\ g.inst = [k \in DOMAIN g.inst |-> g.inst[k]]
    /\ g.byType \in [Types -> Seq(S)] /\ g.recent \in Seq(S)
    /\ IndexOK(g)
    /\ \A k \in DOMAIN g.inst : Faithful(g.inst[k], k, D)

Typed(S) == \A k \in S : k[1] \in Types
Sound(g, D) == \E S : Typed(S) /\ GraphOK(g, S, D)

Queue(q) == \E S : q \in Seq(S) /\ \A x \in S : Waits(x)
Flight(q) == \E S : q \in Seq(S) /\ \A r \in S : Travels(r)

IInv ==
    /\ ObjectsOK
    /\ Sound(graph, deletions)
    /\ Flight(flight)
    /\ Queue(sequenceQueue)

-----------------------------------------------------------------------------
(* What is known of resources.                                             *)

LEMMA Constants == MaxPerType \in Nat \ {0} /\ QueueMax \in Nat \ {0} /\ MaxObjects \in Nat
BY MaxPerTypeAssumption, ChainsAssumption

\* No resource is the absent key.
LEMMA NoKeyIsNone == NoKey \notin Resources /\ NoKey[1] = "none"
BY Constants DEF NoKey, Resources

\* Containment goes up one step at a time.
LEMMA InsideParent ==
    ASSUME ObjectsOK, NEW k \in DOMAIN objects, NEW c, Inside(k, c),
           NEW p, p \in DOMAIN objects, c \in DOMAIN objects, objects[c].parent = p
    PROVE  Inside(k, p)
<1> SUFFICES ASSUME NEW D \in SUBSET DOMAIN objects, Closed(D), k \in D PROVE p \in D
  BY DEF Inside
<1>1. c \in D
  BY DEF Inside
<1>2. p \in D \cup {NoKey}
  BY <1>1 DEF Closed
<1> QED
  BY <1>2, NoKeyIsNone DEF ObjectsOK

\* A graph may be seen against more resources and more deletions.
LEMMA GraphWider ==
    ASSUME NEW S, NEW D, NEW g, GraphOK(g, S, D),
           NEW S2, S \subseteq S2, NEW D2, D \subseteq D2
    PROVE  GraphOK(g, S2, D2)
<1>1. g.byType \in [Types -> Seq(S2)] /\ g.recent \in Seq(S2)
  <2>1. Seq(S) \subseteq Seq(S2)
    OBVIOUS
  <2> QED
    BY <2>1 DEF GraphOK
<1>2. \A k \in DOMAIN g.inst : Faithful(g.inst[k], k, D2)
  BY DEF GraphOK, Faithful
<1> QED
  BY <1>1, <1>2 DEF GraphOK

-----------------------------------------------------------------------------
(* The graph's operations.                                                 *)

\* Room is made by taking one resource out of all three indexes.
LEMMA EvictKeeps ==
    ASSUME NEW S, NEW D, NEW g, GraphOK(g, S, D), NEW type \in Types
    PROVE  LET h == EvictIfOverCap(g, type)
           IN /\ GraphOK(h, S, D) /\ Len(h.byType[type]) < MaxPerType
              /\ DOMAIN h.inst \subseteq DOMAIN g.inst
<1> DEFINE h == EvictIfOverCap(g, type)
           I == {i \in 1 .. Len(g.recent) : g.recent[i][1] = type}
           at == SelectInSeq(g.recent, LAMBDA k : k[1] = type)
           worst == g.recent[at]
<1>1. g.byType[type] \in Seq(S) /\ g.recent \in Seq(S)
  BY DEF GraphOK
<1>2. CASE Len(g.byType[type]) < MaxPerType
  <2>1. h = g
    BY <1>2 DEF EvictIfOverCap
  <2> QED
    BY <1>2, <2>1
<1>3. CASE ~(Len(g.byType[type]) < MaxPerType)
  <2>1. 1 \in DOMAIN g.byType[type]
    BY <1>1, <1>3, Constants
  <2>2. g.byType[type][1] \in {k \in DOMAIN g.inst : k[1] = type}
    BY <2>1 DEF GraphOK, IndexOK, Range
  <2>3. g.byType[type][1] \in Range(g.recent)
    BY <2>2 DEF GraphOK, IndexOK
  <2>4. I # {} /\ I \subseteq Nat
    <3>1. DOMAIN g.recent = 1 .. Len(g.recent)
      BY <1>1
    <3> QED
      BY <2>2, <2>3, <3>1 DEF Range
  <2>5. at = Min(I)
    BY <2>4 DEF SelectInSeq
  <2>6. PICK x \in I : \A y \in I : x <= y
    <3> HIDE DEF I
    <3> QED
      BY <2>4, Least
  <2>7. at \in I
    BY <2>5, <2>6 DEF Min
  <2>8. worst \in DOMAIN g.inst /\ worst[1] = type
    <3>1. at \in DOMAIN g.recent
      BY <1>1, <2>7
    <3> QED
      BY <2>7, <3>1 DEF GraphOK, IndexOK, Range
  <2>9. h = [g EXCEPT !.inst = Restrict(@, DOMAIN @ \ {worst}),
                      !.byType[type] = RemoveFirst(@, worst),
                      !.recent = RemoveFirst(@, worst)]
    BY <1>3 DEF EvictIfOverCap
  <2> HIDE DEF worst, h
  <2>10. /\ h = [inst |-> h.inst, byType |-> h.byType, recent |-> h.recent]
         /\ h.inst = [k \in DOMAIN g.inst \ {worst} |-> g.inst[k]]
         /\ h.byType = [g.byType EXCEPT ![type] = RemoveFirst(@, worst)]
         /\ h.recent = RemoveFirst(g.recent, worst)
    BY <2>9 DEF GraphOK, Restrict
  <2>11. /\ g.byType \in [Types -> Seq(S)]
         /\ IsInjective(g.recent) /\ Range(g.recent) = DOMAIN g.inst
         /\ \A k \in DOMAIN g.inst : Faithful(g.inst[k], k, D)
         /\ \A t \in Types : /\ Range(g.byType[t]) = {k \in DOMAIN g.inst : k[1] = t}
                             /\ IsInjective(g.byType[t])
                             /\ Len(g.byType[t]) <= MaxPerType
    BY DEF GraphOK, IndexOK
  <2>12. /\ h.recent \in Seq(S) /\ IsInjective(h.recent)
         /\ Range(h.recent) = DOMAIN h.inst
    <3>1. IsInjective(g.recent)
      BY <2>11
    <3>2. /\ RemoveFirst(g.recent, worst) \in Seq(S)
          /\ IsInjective(RemoveFirst(g.recent, worst))
          /\ Range(RemoveFirst(g.recent, worst)) = Range(g.recent) \ {worst}
      BY <1>1, <3>1, RemoveOne, Zenon
    <3> QED
      BY <2>10, <2>11, <3>2
  <2>13. /\ RemoveFirst(g.byType[type], worst) \in Seq(S)
         /\ IsInjective(RemoveFirst(g.byType[type], worst))
         /\ Range(RemoveFirst(g.byType[type], worst)) = Range(g.byType[type]) \ {worst}
         /\ Len(RemoveFirst(g.byType[type], worst)) = Len(g.byType[type]) - 1
    <3>1. IsInjective(g.byType[type]) /\ worst \in Range(g.byType[type])
      BY <2>8, <2>11
    <3> QED
      BY <1>1, <3>1, RemoveOne, Zenon
  <2>14. /\ h.byType \in [Types -> Seq(S)]
         /\ h.byType[type] = RemoveFirst(g.byType[type], worst)
         /\ \A t \in Types \ {type} : h.byType[t] = g.byType[t]
    BY <2>10, <2>11, <2>13
  <2>15. Len(h.byType[type]) < MaxPerType /\ Len(h.byType[type]) <= MaxPerType
    <3>1. Len(g.byType[type]) \in Nat
      BY <1>1
    <3> QED
      BY <2>11, <2>13, <2>14, <3>1, Constants
  <2>16. ASSUME NEW t \in Types
         PROVE  /\ Range(h.byType[t]) = {k \in DOMAIN h.inst : k[1] = t}
                /\ IsInjective(h.byType[t])
                /\ Len(h.byType[t]) <= MaxPerType
    <3>1. CASE t = type
      BY <2>10, <2>11, <2>13, <2>14, <2>15, <3>1
    <3>2. CASE t # type
      BY <2>8, <2>10, <2>11, <2>14, <3>2
    <3> QED
      BY <3>1, <3>2
  <2>17. IndexOK(h)
    BY <2>12, <2>16 DEF IndexOK
  <2>18. \A k \in DOMAIN h.inst : Faithful(h.inst[k], k, D)
    BY <2>10, <2>11
  <2>19. GraphOK(h, S, D)
    BY <2>10, <2>11, <2>12, <2>14, <2>17, <2>18 DEF GraphOK
  <2> QED
    BY <2>10, <2>15, <2>19 DEF h
<1> QED
  BY <1>2, <1>3

\* All of GraphOK, but that k may still be missing among the recent ones.
Placed(g, k, S, D) ==
    /\ g = [inst |-> g.inst, byType |-> g.byType, recent |-> g.recent]
    /\ g.inst = [x \in DOMAIN g.inst |-> g.inst[x]]
    /\ g.byType \in [Types -> Seq(S)] /\ g.recent \in Seq(S)
    /\ IsInjective(g.recent) /\ Range(g.recent) \cup {k} = DOMAIN g.inst
    /\ \A t \in Types : /\ Range(g.byType[t]) = {x \in DOMAIN g.inst : x[1] = t}
                        /\ IsInjective(g.byType[t])
                        /\ Len(g.byType[t]) <= MaxPerType
    /\ \A x \in DOMAIN g.inst : Faithful(g.inst[x], x, D)

\* Whatever was seen last goes to the end.
LEMMA TouchKeeps ==
    ASSUME NEW S, NEW k \in S, NEW D, NEW g, Placed(g, k, S, D)
    PROVE  GraphOK(Touch(g, k), S, D) /\ Touch(g, k).inst = g.inst
<1> DEFINE h == Touch(g, k)
           r == RemoveFirst(g.recent, k)
<1>0. h = [g EXCEPT !.recent = Append(r, k)]
  BY DEF Touch
<1> HIDE DEF h, r
<1>1. /\ h = [inst |-> h.inst, byType |-> h.byType, recent |-> h.recent]
      /\ h.inst = g.inst /\ h.byType = g.byType /\ h.recent = Append(r, k)
  BY <1>0 DEF Placed
<1>2. r \in Seq(S) /\ IsInjective(r) /\ Range(r) = Range(g.recent) \ {k}
  <2>1. g.recent \in Seq(S) /\ IsInjective(g.recent)
    BY DEF Placed
  <2> QED
    BY <2>1, RemoveOne, Zenon DEF r
<1>3. k \notin Range(r)
  BY <1>2
<1>4. /\ Append(r, k) \in Seq(S) /\ IsInjective(Append(r, k))
      /\ Range(Append(r, k)) = Range(r) \cup {k}
  BY <1>2, <1>3, AppendOne
<1>5. IndexOK(h)
  BY <1>1, <1>2, <1>4 DEF IndexOK, Placed
<1>6. GraphOK(h, S, D)
  BY <1>1, <1>4, <1>5 DEF GraphOK, Placed
<1> QED
  BY <1>1, <1>6 DEF h

\* A resource is recorded with the life it was seen in: a dead one if it is of D.
LEMMA RecordKeeps ==
    ASSUME NEW S, NEW D, NEW g, GraphOK(g, S, D), NEW k \in S, k[1] \in Types,
           tidy => k \in DOMAIN objects,
           NEW op, NEW seq, NEW life, life \in Dead => k \in D
    PROVE  LET h == RecordInstance(g, k, op, seq, life)
           IN GraphOK(h, S, D) /\ k \in DOMAIN h.inst
<1>0. k \in S /\ k[1] \in Types
  OBVIOUS
<1> DEFINE Parts(x) ==
             /\ x = [inst |-> x.inst, byType |-> x.byType, recent |-> x.recent]
             /\ x.inst = [y \in DOMAIN x.inst |-> x.inst[y]]
             /\ x.byType \in [Types -> Seq(S)] /\ x.recent \in Seq(S)
             /\ IsInjective(x.recent)
             /\ \A t \in Types : /\ Range(x.byType[t]) = {y \in DOMAIN x.inst : y[1] = t}
                                 /\ IsInjective(x.byType[t])
                                 /\ Len(x.byType[t]) <= MaxPerType
             /\ \A y \in DOMAIN x.inst : Faithful(x.inst[y], y, D)
<1>1. ASSUME NEW x, GraphOK(x, S, D) PROVE Parts(x) /\ Range(x.recent) = DOMAIN x.inst
  BY <1>1 DEF GraphOK, IndexOK
<1>2. ASSUME NEW x, Parts(x), Range(x.recent) \cup {k} = DOMAIN x.inst
      PROVE  GraphOK(Touch(x, k), S, D) /\ k \in DOMAIN Touch(x, k).inst
  <2>1. Placed(x, k, S, D)
    BY <1>2 DEF Placed
  <2>2. k \in DOMAIN x.inst
    BY <1>2
  <2> HIDE DEF Parts
  <2> QED
    BY <2>1, <2>2, TouchKeeps
<1>3. CASE Known(g, k)
  <2> DEFINE x == IF life = "UNKNOWN" THEN g ELSE [g EXCEPT !.inst[k].life = life]
  <2>1. RecordInstance(g, k, op, seq, life) = Touch(x, k)
    BY <1>3 DEF RecordInstance
  <2>2. k \in DOMAIN g.inst
    BY <1>3 DEF Known
  <2>3. CASE life = "UNKNOWN"
    <3>1. Range(g.recent) \cup {k} = DOMAIN g.inst
      BY <1>1, <2>2, ZenonT(40)
    <3>2. Parts(g) /\ x = g
      BY <1>1, <2>3
    <3> HIDE DEF Parts, x
    <3> QED
      BY <1>2, <2>1, <3>1, <3>2
  <2>4. CASE life # "UNKNOWN"
    <3>1. x = [g EXCEPT !.inst[k].life = life]
      BY <2>4
    <3> HIDE DEF x
    <3>2. Parts(g) /\ Range(g.recent) = DOMAIN g.inst
      BY <1>1
    <3>3. /\ x = [inst |-> x.inst, byType |-> x.byType, recent |-> x.recent]
          /\ x.byType = g.byType /\ x.recent = g.recent
          /\ x.inst = [y \in DOMAIN g.inst |-> IF y = k THEN [g.inst[k] EXCEPT !.life = life]
                                                        ELSE g.inst[y]]
      BY <2>2, <3>1, <3>2
    <3>4. Faithful([g.inst[k] EXCEPT !.life = life], k, D)
      BY <2>2, <3>2 DEF Faithful
    <3>5. DOMAIN x.inst = DOMAIN g.inst /\ \A y \in DOMAIN x.inst : Faithful(x.inst[y], y, D)
      BY <3>2, <3>3, <3>4
    <3>6. Parts(x)
      BY <3>2, <3>3, <3>5
    <3>7. Range(x.recent) \cup {k} = DOMAIN x.inst
      BY <2>2, <3>2, <3>3, <3>5
    <3> HIDE DEF Parts
    <3> QED
      BY <1>2, <2>1, <3>6, <3>7
  <2> QED
    BY <2>3, <2>4
<1>4. CASE ~Known(g, k)
  <2> DEFINE e == EvictIfOverCap(g, k[1])
             x == Insert(e, k, op, seq, life)
             new == [life |-> life, parent |-> NoKey, tenant |-> NoKey, op |-> op, seq |-> seq]
  <2>1. RecordInstance(g, k, op, seq, life) = Touch(x, k)
    BY <1>4 DEF RecordInstance
  <2>2. /\ GraphOK(e, S, D) /\ Len(e.byType[k[1]]) < MaxPerType
        /\ DOMAIN e.inst \subseteq DOMAIN g.inst
    BY <1>0, EvictKeeps
  <2>3. k \notin DOMAIN e.inst
    BY <1>4, <2>2 DEF Known
  <2> HIDE DEF e
  <2>4. Parts(e) /\ Range(e.recent) = DOMAIN e.inst
    BY <1>1, <2>2
  <2>0. x = [e EXCEPT !.inst = [y \in DOMAIN @ \cup {k} |-> IF y = k THEN new ELSE @[y]],
                      !.byType[k[1]] = Append(@, k)]
    BY DEF Insert
  <2> HIDE DEF x, new
  <2>5. /\ x = [inst |-> x.inst, byType |-> x.byType, recent |-> x.recent]
        /\ x.recent = e.recent
        /\ x.byType = [e.byType EXCEPT ![k[1]] = Append(@, k)]
        /\ x.inst = [y \in DOMAIN e.inst \cup {k} |-> IF y = k THEN new ELSE e.inst[y]]
    BY <2>0, <2>4
  <2>6. Faithful(new, k, D)
    BY DEF Faithful, new, Dead
  <2>7. DOMAIN x.inst = DOMAIN e.inst \cup {k} /\ \A y \in DOMAIN x.inst : Faithful(x.inst[y], y, D)
    BY <2>4, <2>5, <2>6
  <2>8. /\ e.byType[k[1]] \in Seq(S) /\ IsInjective(e.byType[k[1]])
        /\ k \notin Range(e.byType[k[1]])
    BY <1>0, <2>3, <2>4
  <2>9. /\ Append(e.byType[k[1]], k) \in Seq(S)
        /\ IsInjective(Append(e.byType[k[1]], k))
        /\ Range(Append(e.byType[k[1]], k)) = Range(e.byType[k[1]]) \cup {k}
        /\ Len(Append(e.byType[k[1]], k)) = Len(e.byType[k[1]]) + 1
    BY <1>0, <2>8, AppendOne
  <2>10. Len(e.byType[k[1]]) + 1 <= MaxPerType
    <3>1. Len(e.byType[k[1]]) \in Nat
      BY <2>8
    <3> QED
      BY <2>2, <3>1, Constants
  <2>11. /\ x.byType \in [Types -> Seq(S)]
         /\ x.byType[k[1]] = Append(e.byType[k[1]], k)
         /\ \A t \in Types \ {k[1]} : x.byType[t] = e.byType[t]
    BY <1>0, <2>4, <2>5, <2>9
  <2>12. ASSUME NEW t \in Types
         PROVE  /\ Range(x.byType[t]) = {y \in DOMAIN x.inst : y[1] = t}
                /\ IsInjective(x.byType[t])
                /\ Len(x.byType[t]) <= MaxPerType
    <3>1. CASE t = k[1]
      BY <2>4, <2>7, <2>9, <2>10, <2>11, <3>1
    <3>2. CASE t # k[1]
      BY <2>4, <2>7, <2>11, <3>2
    <3> QED
      BY <3>1, <3>2
  <2>14. Parts(x)
    <3>1. x.inst = [y \in DOMAIN x.inst |-> x.inst[y]]
      BY <2>5
    <3>2. x.recent \in Seq(S) /\ IsInjective(x.recent)
      BY <2>4, <2>5
    <3>3. x = [inst |-> x.inst, byType |-> x.byType, recent |-> x.recent]
      BY <2>5, Zenon
    <3> QED
      BY <2>7, <2>11, <2>12, <3>1, <3>2, <3>3, Zenon
  <2>15. Range(x.recent) \cup {k} = DOMAIN x.inst
    BY <2>4, <2>5, <2>7
  <2> HIDE DEF Parts
  <2> QED
    BY <1>2, <2>1, <2>14, <2>15
<1> QED
  BY <1>3, <1>4

\* An instance is replaced by another that is faithful too.
LEMMA UpdateKeeps ==
    ASSUME NEW S, NEW D, NEW g, GraphOK(g, S, D), NEW k \in DOMAIN g.inst, NEW new, Faithful(new, k, D),
           NEW h, h = [inst |-> h.inst, byType |-> g.byType, recent |-> g.recent],
           h.inst = [y \in DOMAIN g.inst |-> IF y = k THEN new ELSE g.inst[y]]
    PROVE  GraphOK(h, S, D)
<1>1. DOMAIN h.inst = DOMAIN g.inst /\ \A y \in DOMAIN h.inst : Faithful(h.inst[y], y, D)
  BY DEF GraphOK
<1>2. h.byType = g.byType /\ h.recent = g.recent /\ h.inst = [y \in DOMAIN h.inst |-> h.inst[y]]
  BY <1>1
<1>3. IndexOK(h)
  BY <1>1, <1>2 DEF GraphOK, IndexOK
<1> QED
  BY <1>1, <1>2, <1>3 DEF GraphOK

\* The walk to the tenant meets only what contains k: induction over its steps.
LEMMA ResolveInside ==
    ASSUME ObjectsOK, tidy, NEW S, NEW D, NEW g, GraphOK(g, S, D), NEW k \in DOMAIN g.inst,
           g.inst[k].parent # NoKey
    PROVE  Inside(k, ResolveTenantKey(g, k))
<1> DEFINE first == g.inst[k].parent
           Up(r) == IF Known(g, r) /\ g.inst[r].parent # NoKey THEN g.inst[r].parent ELSE r
           At(f, n) == IF n = 0 THEN first ELSE Up(f[n - 1])
           up == CHOOSE f : f = [n \in 0 .. WalkDepth |-> At(f, n)]
           T == {m \in 0 .. WalkDepth : \E f : f = [n \in 0 .. m |-> At(f, n)]}
           Good == {m \in 0 .. WalkDepth : up[m] \in DOMAIN objects /\ Inside(k, up[m])}
<1>0. WalkDepth \in Nat
  BY DEF WalkDepth
<1>1. ResolveTenantKey(g, k) = up[WalkDepth]
  BY DEF ResolveTenantKey
<1>2. ASSUME NEW r \in DOMAIN g.inst, g.inst[r].parent # NoKey
      PROVE  g.inst[r].parent \in DOMAIN objects /\ objects[r].parent = g.inst[r].parent
  <2>1. r \in DOMAIN objects /\ g.inst[r].parent = objects[r].parent
    BY <1>2 DEF GraphOK, Faithful
  <2> QED
    BY <1>2, <2>1 DEF ObjectsOK
<1>3. first \in DOMAIN objects /\ Inside(k, first)
  <2>1. k \in DOMAIN objects /\ Inside(k, k)
    BY DEF GraphOK, Faithful, Inside
  <2> QED
    BY <1>2, <2>1, InsideParent
<1>4. ASSUME NEW r \in DOMAIN objects, Inside(k, r)
      PROVE  Up(r) \in DOMAIN objects /\ Inside(k, Up(r))
  <2>1. CASE Known(g, r) /\ g.inst[r].parent # NoKey
    <3>1. Up(r) \in DOMAIN objects /\ objects[r].parent = Up(r)
      BY <1>2, <2>1 DEF Known
    <3>2. k \in DOMAIN objects
      BY DEF GraphOK, Faithful
    <3> QED
      BY <1>4, <3>1, <3>2, InsideParent
  <2>2. CASE ~(Known(g, r) /\ g.inst[r].parent # NoKey)
    BY <1>4, <2>2
  <2> QED
    BY <2>1, <2>2
<1> HIDE DEF first, Up
<1>5. 0 \in T
  <2> DEFINE f == [n \in 0 .. 0 |-> first]
  <2>1. f = [n \in 0 .. 0 |-> At(f, n)]
    OBVIOUS
  <2> HIDE DEF f
  <2> QED
    BY <1>0, <2>1
<1>6. ASSUME NEW m \in 0 .. WalkDepth, m \in T, m < WalkDepth PROVE m + 1 \in T
  <2>1. PICK f : f = [n \in 0 .. m |-> At(f, n)]
    BY <1>6
  <2> DEFINE h == [n \in 0 .. m + 1 |-> IF n = m + 1 THEN Up(f[m]) ELSE f[n]]
  <2>2. \A n \in 0 .. m : h[n] = f[n] /\ f[n] = At(f, n)
    BY <1>0, <2>1
  <2>3. h[m + 1] = Up(f[m])
    BY <1>0
  <2>4. DOMAIN h = 0 .. m + 1 /\ h = [n \in 0 .. m + 1 |-> h[n]]
    OBVIOUS
  <2> HIDE DEF h
  <2>5. ASSUME NEW n \in 0 .. m + 1 PROVE h[n] = At(h, n)
    <3>1. CASE n = 0
      BY <1>0, <2>2, <3>1
    <3>2. CASE n \in 1 .. m
      <4>1. n - 1 \in 0 .. m /\ n \in 0 .. m /\ n # 0
        BY <1>0, <3>2
      <4> QED
        BY <2>2, <4>1
    <3>3. CASE n = m + 1
      <4>1. m \in 0 .. m /\ n - 1 = m /\ n # 0
        BY <1>0, <3>3
      <4> QED
        BY <2>2, <2>3, <3>3, <4>1
    <3> QED
      BY <1>0, <3>1, <3>2, <3>3
  <2> HIDE DEF At
  <2>6. h = [n \in 0 .. m + 1 |-> At(h, n)]
    BY <2>4, <2>5
  <2>7. m + 1 \in 0 .. WalkDepth
    BY <1>0, <1>6
  <2> QED
    BY <2>6, <2>7
<1>7. WalkDepth \in T
  <2> HIDE DEF T
  <2> QED
    BY <1>0, <1>5, <1>6, UpTo, Zenon
<1> HIDE DEF At
<1>8. up = [n \in 0 .. WalkDepth |-> At(up, n)]
  BY <1>7
<1> HIDE DEF up
<1>9. \A n \in 0 .. WalkDepth : up[n] = At(up, n)
  BY <1>8, Zenon
<1>10. 0 \in Good
  BY <1>0, <1>3, <1>9 DEF At
<1>11. ASSUME NEW m \in 0 .. WalkDepth, m \in Good, m < WalkDepth PROVE m + 1 \in Good
  <2>1. m + 1 \in 0 .. WalkDepth /\ m + 1 # 0 /\ (m + 1) - 1 = m
    BY <1>0, <1>11
  <2>2. up[m + 1] = Up(up[m])
    BY <1>9, <2>1 DEF At
  <2> QED
    BY <1>4, <1>11, <2>1, <2>2
<1>12. WalkDepth \in Good
  <2> HIDE DEF Good
  <2> QED
    BY <1>0, <1>10, <1>11, UpTo, Zenon
<1> QED
  BY <1>1, <1>12

\* The links that a route gives are those of the server, and so is the tenant at
\* their end.
LEMMA LinkKeeps ==
    ASSUME ObjectsOK, NEW S, NEW D, NEW g, GraphOK(g, S, D), NEW k \in DOMAIN g.inst,
           NEW p, tidy => p \in DOMAIN objects /\ objects[k].parent = p
    PROVE  GraphOK(LinkParent(g, p, k), S, D)
<1> DEFINE h == IF g.inst[k].parent = NoKey THEN [g EXCEPT !.inst[k].parent = p] ELSE g
           i == [g.inst[k] EXCEPT !.parent = p]
           j == [h.inst[k] EXCEPT !.tenant = ResolveTenantKey(h, k)]
           l == [h EXCEPT !.inst[k].tenant = ResolveTenantKey(h, k)]
<1>1. LinkParent(g, p, k) = l
  BY DEF LinkParent
<1>2. Faithful(g.inst[k], k, D) /\ (tidy => k \in DOMAIN objects /\ p # NoKey)
  BY NoKeyIsNone DEF GraphOK, Faithful, ObjectsOK
<1>3. GraphOK(h, S, D) /\ k \in DOMAIN h.inst /\ (tidy => h.inst[k].parent # NoKey)
  <2>1. CASE g.inst[k].parent = NoKey
    <3>1. h = [g EXCEPT !.inst[k].parent = p]
      BY <2>1
    <3>2. Faithful(i, k, D) /\ i.parent = p
      BY <1>2 DEF Faithful
    <3> HIDE DEF h
    <3>3. g = [inst |-> g.inst, byType |-> g.byType, recent |-> g.recent]
          /\ g.inst = [y \in DOMAIN g.inst |-> g.inst[y]]
      BY DEF GraphOK
    <3>4. /\ h = [inst |-> h.inst, byType |-> g.byType, recent |-> g.recent]
          /\ h.inst = [y \in DOMAIN g.inst |-> IF y = k THEN i ELSE g.inst[y]]
      BY <3>1, <3>3
    <3> HIDE DEF i
    <3>5. GraphOK(h, S, D)
      BY <3>2, <3>4, UpdateKeeps
    <3>6. h.inst[k] = i /\ k \in DOMAIN h.inst
      BY <3>4
    <3> QED
      BY <1>2, <3>2, <3>5, <3>6
  <2>2. CASE g.inst[k].parent # NoKey
    BY <2>2
  <2> QED
    BY <2>1, <2>2
<1> HIDE DEF h
<1>4. tidy => Inside(k, ResolveTenantKey(h, k))
  <2> SUFFICES ASSUME tidy PROVE Inside(k, ResolveTenantKey(h, k))
    OBVIOUS
  <2>1. GraphOK(h, S, D) /\ k \in DOMAIN h.inst /\ h.inst[k].parent # NoKey
    BY <1>3
  <2> QED
    BY <2>1, ResolveInside, Zenon
<1>5. Faithful(j, k, D)
  <2>1. PICK r : r = ResolveTenantKey(h, k)
    OBVIOUS
  <2>2. Faithful(h.inst[k], k, D)
    BY <1>3 DEF GraphOK
  <2>3. /\ j = [life |-> j.life, parent |-> j.parent, tenant |-> j.tenant,
                op |-> j.op, seq |-> j.seq]
        /\ j.life = h.inst[k].life /\ j.parent = h.inst[k].parent /\ j.tenant = r
    BY <2>1, <2>2 DEF Faithful
  <2> HIDE DEF j
  <2> QED
    BY <1>4, <2>1, <2>2, <2>3 DEF Faithful
<1>6. h = [inst |-> h.inst, byType |-> h.byType, recent |-> h.recent]
      /\ h.inst = [y \in DOMAIN h.inst |-> h.inst[y]]
  BY <1>3 DEF GraphOK
<1> HIDE DEF l
<1>7. l = [h EXCEPT !.inst[k].tenant = ResolveTenantKey(h, k)]
  BY DEF l
<1>8. /\ l = [inst |-> l.inst, byType |-> h.byType, recent |-> h.recent]
      /\ l.inst = [y \in DOMAIN h.inst |-> IF y = k THEN j ELSE h.inst[y]]
  BY <1>6, <1>7
<1> HIDE DEF j
<1> QED
  BY <1>1, <1>3, <1>5, <1>8, UpdateKeeps

(* The candidates of an answer.                                            *)

\* What a request and its answer can name; only what is there, as long as no answer
\* was misleading.
Texts(it) == Int \cup {it.ids[i] : i \in DOMAIN it.tmpl.path}
                 \cup {it.query[i] : i \in DOMAIN it.tmpl.query}
Real(it) == {k \in Types \X Texts(it) : tidy => k \in DOMAIN objects}

Groups == Types \cup {None, "request_path", "Location", "Content-Location", "Link", "self",
                      "Set-Cookie"}
Found(it) == [key : Real(it), group : Groups]
Unrelated(it) == [key : Real(it), group : {None}]

\* Neighbours that are linked are so on the server, as long as no answer was misleading ...
Fit(c, d) ==
    tidy /\ d.group # None /\ c.group = d.group /\ c.key[1] # d.key[1] =>
        objects[d.key].parent = c.key
Adjacent(q) == \A i \in 1 .. Len(q) - 1 : Fit(q[i], q[i + 1])

\* ... or they are not linked at all.
Loose(c, d) == tidy /\ d.group # None /\ c.group = d.group => c.key[1] = d.key[1]

\* Where nothing is linked across, two lists of candidates make one.
LEMMA JoinAdjacent ==
    ASSUME NEW F, NEW a \in Seq(F), NEW b \in Seq(F), Adjacent(a), Adjacent(b),
           \A i \in DOMAIN a, j \in DOMAIN b : Loose(a[i], b[j])
    PROVE  a \o b \in Seq(F) /\ Adjacent(a \o b)
<1> DEFINE c == a \o b
<1>1. PICK m, n \in Nat : m = Len(a) /\ n = Len(b)
  OBVIOUS
<1>2. DOMAIN a = 1 .. m /\ DOMAIN b = 1 .. n
  BY <1>1
<1>3. /\ c \in Seq(F) /\ Len(c) = m + n
      /\ \A i \in 1 .. m + n : c[i] = IF i <= m THEN a[i] ELSE b[i - m]
  BY <1>1, ConcatProperties
<1> HIDE DEF c
<1>4. ASSUME NEW i \in 1 .. m + n - 1
      PROVE  Fit(c[i], c[i + 1])
  <2>1. CASE i + 1 <= m
    <3>1. i \in 1 .. Len(a) - 1 /\ i <= m /\ i \in 1 .. m + n /\ i + 1 \in 1 .. m + n
      BY <1>1, <2>1
    <3>2. c[i + 1] = a[i + 1] /\ c[i] = a[i]
      BY <1>3, <2>1, <3>1
    <3> QED
      BY <3>1, <3>2 DEF Adjacent
  <2>2. CASE i = m
    <3>1. i \in 1 .. m /\ 1 \in 1 .. n /\ i \in 1 .. m + n /\ i + 1 \in 1 .. m + n
          /\ ~(i + 1 <= m) /\ (i + 1) - m = 1
      BY <1>1, <2>2
    <3>2. c[i] = a[i] /\ c[i + 1] = b[1]
      BY <1>3, <2>2, <3>1
    <3> QED
      BY <1>2, <3>1, <3>2 DEF Loose, Fit
  <2>3. CASE i > m
    <3>1. /\ i - m \in 1 .. Len(b) - 1 /\ ~(i <= m) /\ ~(i + 1 <= m)
          /\ i \in 1 .. m + n /\ i + 1 \in 1 .. m + n /\ (i + 1) - m = (i - m) + 1
      BY <1>1, <2>3
    <3>2. c[i + 1] = b[(i - m) + 1] /\ c[i] = b[i - m]
      BY <1>3, <3>1
    <3> QED
      BY <3>1, <3>2 DEF Adjacent
  <2> QED
    BY <2>1, <2>2, <2>3
<1>5. Adjacent(c)
  BY <1>3, <1>4 DEF Adjacent
<1> QED
  BY <1>3, <1>5 DEF c

\* An element of a concatenation is one of either part.
LEMMA Concat2 ==
    ASSUME NEW S, NEW a \in Seq(S), NEW b \in Seq(S)
    PROVE  \A i \in DOMAIN (a \o b) : \/ i \in DOMAIN a /\ (a \o b)[i] = a[i]
                                      \/ \E j \in DOMAIN b : (a \o b)[i] = b[j]
<1>1. PICK m, n \in Nat : m = Len(a) /\ n = Len(b)
  OBVIOUS
<1>2. DOMAIN a = 1 .. m /\ DOMAIN b = 1 .. n /\ DOMAIN (a \o b) = 1 .. m + n
  BY <1>1
<1>3. \A i \in 1 .. m + n : (a \o b)[i] = IF i <= m THEN a[i] ELSE b[i - m]
  BY <1>1, ConcatProperties
<1>4. \A i \in 1 .. m + n : i \in 1 .. m \/ (~(i <= m) /\ i - m \in 1 .. n)
  OBVIOUS
<1> QED
  BY <1>2, <1>3, <1>4

LEMMA UnrelatedAdjacent ==
    ASSUME NEW it, NEW q \in Seq(Unrelated(it))
    PROVE  /\ q \in Seq(Found(it)) /\ Adjacent(q) /\ \A i \in DOMAIN q : q[i].group = None
<1>1. Unrelated(it) \subseteq Found(it)
  BY DEF Unrelated, Found, Groups
<1>2. \A i \in DOMAIN q : q[i].group = None
  <2>1. \A i \in DOMAIN q : q[i] \in Unrelated(it)
    OBVIOUS
  <2> QED
    BY <2>1 DEF Unrelated
<1>3. q \in Seq(Found(it))
  BY <1>1
<1>4. \A i \in 1 .. Len(q) - 1 : q[i + 1].group = None
  BY <1>2
<1> QED
  BY <1>2, <1>3, <1>4 DEF Adjacent, Fit

\* Whatever stands in a list stands in one of n others.
MadeOf(q, ss, n) ==
    \A x \in DOMAIN q : \E i \in 1 .. n : \E a \in DOMAIN ss[i] : q[x] = ss[i][a]

\* Lists one after the other: induction over them.
LEMMA FlattenAdjacent ==
    ASSUME NEW F, NEW n \in Nat, NEW ss \in [1 .. n -> Seq(F)],
           \A i \in 1 .. n : Adjacent(ss[i]),
           \A i, j \in 1 .. n : i < j =>
               \A a \in DOMAIN ss[i], b \in DOMAIN ss[j] : Loose(ss[i][a], ss[j][b])
    PROVE  FlattenSeq(ss) \in Seq(F) /\ Adjacent(FlattenSeq(ss)) /\ MadeOf(FlattenSeq(ss), ss, n)
<1> DEFINE Do(s, i) == s \o ss[i]
           At(f, i) == IF i = 1 THEN ss[i] ELSE Do(f[i - 1], i)
           flatten == CHOOSE f : f = [i \in 1 .. n |-> At(f, i)]
           T == {m \in 0 .. n : \E f : f = [i \in 1 .. m |-> At(f, i)]}
           Upto(q, m) == /\ q \in Seq(F) /\ Adjacent(q)
                         /\ \A x \in DOMAIN q :
                               \E i \in 1 .. m : \E a \in DOMAIN ss[i] : q[x] = ss[i][a]
           Good == {m \in 0 .. n : m # 0 => Upto(flatten[m], m)}
<1>1. Len(ss) = n
  OBVIOUS
<1>2. FlattenSeq(ss) = IF n = 0 THEN ss ELSE flatten[n]
  <2>1. FlattenSeq(ss) = IF Len(ss) = 0 THEN ss
                         ELSE (CHOOSE f : f = [i \in 1 .. Len(ss) |-> At(f, i)])[Len(ss)]
    BY DEF FlattenSeq
  <2> QED
    BY <1>1, <2>1
<1>3. CASE n = 0
  <2>1. ss = <<>>
    BY <1>3
  <2> QED
    BY <1>2, <1>3, <2>1 DEF Adjacent, MadeOf
<1>4. ASSUME NEW m \in 1 .. n, m < n, NEW q, Upto(q, m) PROVE Upto(Do(q, m + 1), m + 1)
  <2>1. m + 1 \in 1 .. n
    BY <1>4
  <2>2. PICK b \in Seq(F) : b = ss[m + 1] /\ Adjacent(b)
    BY <2>1
  <2>3. q \in Seq(F) /\ Adjacent(q)
        /\ \A x \in DOMAIN q : \E i \in 1 .. m : \E a \in DOMAIN ss[i] : q[x] = ss[i][a]
    BY <1>4
  <2>4. \A x \in DOMAIN q, y \in DOMAIN b : Loose(q[x], b[y])
    <3> SUFFICES ASSUME NEW x \in DOMAIN q, NEW y \in DOMAIN b PROVE Loose(q[x], b[y])
      OBVIOUS
    <3>1. PICK i \in 1 .. m : \E a \in DOMAIN ss[i] : q[x] = ss[i][a]
      BY <2>3
    <3>2. i \in 1 .. n /\ i < m + 1
      BY <1>4, <3>1
    <3> QED
      BY <2>1, <2>2, <3>1, <3>2
  <2>5. q \o b \in Seq(F) /\ Adjacent(q \o b)
    BY <2>2, <2>3, <2>4, JoinAdjacent
  <2>6. \A x \in DOMAIN (q \o b) : (x \in DOMAIN q /\ (q \o b)[x] = q[x])
                                   \/ \E y \in DOMAIN b : (q \o b)[x] = b[y]
    BY <2>2, <2>3, Concat2
  <2>7. ASSUME NEW x \in DOMAIN (q \o b)
        PROVE  \E i \in 1 .. (m + 1) : \E a \in DOMAIN ss[i] : (q \o b)[x] = ss[i][a]
    <3>1. CASE x \in DOMAIN q /\ (q \o b)[x] = q[x]
      <4>1. PICK i \in 1 .. m : \E a \in DOMAIN ss[i] : q[x] = ss[i][a]
        BY <2>3, <3>1
      <4>2. i \in 1 .. (m + 1)
        BY <4>1
      <4> QED
        BY <3>1, <4>1, <4>2
    <3>2. CASE \E y \in DOMAIN b : (q \o b)[x] = b[y]
      <4>1. m + 1 \in 1 .. (m + 1)
        OBVIOUS
      <4> QED
        BY <2>2, <3>2, <4>1
    <3> QED
      BY <2>6, <3>1, <3>2
  <2> QED
    BY <2>2, <2>5, <2>7
<1>5. n # 0 => Upto(ss[1], 1)
  OBVIOUS
<1> HIDE DEF Do, Upto
<1>6. 0 \in T
  <2> DEFINE f == [i \in 1 .. 0 |-> 0]
  <2>1. f = [i \in 1 .. 0 |-> At(f, i)]
    OBVIOUS
  <2> HIDE DEF f, At
  <2>2. 0 \in 0 .. n
    OBVIOUS
  <2> QED
    BY <2>1, <2>2
<1>7. ASSUME NEW m \in 0 .. n, m \in T, m < n PROVE m + 1 \in T
  <2>1. PICK f : f = [i \in 1 .. m |-> At(f, i)]
    BY <1>7
  <2> DEFINE h == [i \in 1 .. m + 1 |-> IF i = m + 1 THEN At(f, i) ELSE f[i]]
  <2>2. \A i \in 1 .. m : h[i] = f[i] /\ f[i] = At(f, i)
    <3>1. ASSUME NEW i \in 1 .. m PROVE h[i] = f[i]
      OBVIOUS
    <3> HIDE DEF At, h
    <3>2. \A i \in 1 .. m : f[i] = At(f, i)
      BY <2>1, Zenon
    <3> QED
      BY <3>1, <3>2
  <2>3. h[m + 1] = At(f, m + 1)
    OBVIOUS
  <2>4. DOMAIN h = 1 .. m + 1 /\ h = [i \in 1 .. m + 1 |-> h[i]]
    OBVIOUS
  <2> HIDE DEF h
  <2>5. ASSUME NEW i \in 1 .. m + 1 PROVE h[i] = At(h, i)
    <3>1. CASE i = m + 1
      <4>1. i = 1 \/ i - 1 \in 1 .. m
        BY <3>1
      <4> QED
        BY <2>2, <2>3, <3>1, <4>1
    <3>2. CASE i # m + 1
      <4>1. i \in 1 .. m /\ (i = 1 \/ i - 1 \in 1 .. m)
        BY <3>2
      <4> QED
        BY <2>2, <4>1
    <3> QED
      BY <3>1, <3>2
  <2> HIDE DEF At
  <2>6. h = [i \in 1 .. m + 1 |-> At(h, i)]
    BY <2>4, <2>5
  <2>7. m + 1 \in 0 .. n
    BY <1>7
  <2> QED
    BY <2>6, <2>7
<1>8. n \in T
  <2> HIDE DEF T
  <2> QED
    BY <1>6, <1>7, UpTo, Zenon
<1> HIDE DEF At
<1>9. flatten = [i \in 1 .. n |-> At(flatten, i)]
  BY <1>8
<1> HIDE DEF flatten
<1>10. \A i \in 1 .. n : flatten[i] = At(flatten, i)
  BY <1>9, Zenon
<1>11. 0 \in Good
  OBVIOUS
<1>12. ASSUME NEW m \in 0 .. n, m \in Good, m < n PROVE m + 1 \in Good
  <2>1. m + 1 \in 0 .. n /\ m + 1 \in 1 .. n /\ (m + 1) - 1 = m
    BY <1>12
  <2>2. CASE m = 0
    <3>1. flatten[1] = ss[1] /\ m + 1 = 1 /\ n # 0
      BY <1>10, <2>1, <2>2 DEF At
    <3> QED
      BY <1>5, <2>1, <3>1
  <2>3. CASE m # 0
    <3>1. m \in 1 .. n /\ m + 1 # 1
      BY <2>3
    <3>2. flatten[m + 1] = Do(flatten[m], m + 1)
      BY <1>10, <2>1, <3>1 DEF At
    <3>3. Upto(flatten[m], m)
      BY <1>12, <2>3
    <3>4. Upto(flatten[m + 1], m + 1)
      BY <1>4, <1>12, <3>1, <3>2, <3>3
    <3> QED
      BY <2>1, <3>4
  <2> QED
    BY <2>2, <2>3
<1>13. n \in Good
  <2> HIDE DEF Good
  <2> QED
    BY <1>11, <1>12, UpTo, Zenon
<1>14. CASE n # 0
  BY <1>2, <1>13, <1>14 DEF Upto, MadeOf
<1> QED
  BY <1>3, <1>14

LEMMA OwnTyped ==
    ASSUME ObjectsOK, NEW t \in target.grammar
    PROVE  OwnType(t) \in Types
<1>1. /\ t.path \in Seq(Types) /\ t.coll \in Types \cup {None}
      /\ t.coll = None => t.path # <<>>
  BY TargetsAssumption DEF ObjectsOK, Labels
<1>2. CASE t.coll # None
  BY <1>1, <1>2 DEF OwnType
<1>3. CASE t.coll = None
  <2>1. Len(t.path) \in DOMAIN t.path /\ OwnType(t) = t.path[Len(t.path)]
    BY <1>1, <1>3 DEF OwnType, Last
  <2> QED
    BY <1>1, <2>1
<1> QED
  BY <1>2, <1>3

\* Fields and parameters.
LEMMA LabelledFound ==
    ASSUME ObjectsOK, NEW it, it.tmpl \in target.grammar, NEW all, NEW n \in Nat,
           DOMAIN all = 1 .. n,
           \A i \in 1 .. n : all[i][1] \in Labels /\ all[i][2] \in Texts(it),
           tidy => \A said \in Range(all) : Sure(said) => Meant(it, said) \in DOMAIN objects
    PROVE  Labelled(it, all) \in Seq(Unrelated(it))
<1> DEFINE F == Unrelated(it)
           ss == [i \in DOMAIN all |-> IF Sure(all[i]) THEN <<Cand(Meant(it, all[i]), None)>>
                                       ELSE <<>>]
<1>1. ASSUME NEW i \in 1 .. n, Sure(all[i]) PROVE Cand(Meant(it, all[i]), None) \in F
  <2>1. OwnType(it.tmpl) \in Types
    BY OwnTyped
  <2>2. Meant(it, all[i]) \in Types \X Texts(it)
    <3>1. all[i][1] \in Labels /\ all[i][2] \in Texts(it)
      OBVIOUS
    <3> QED
      BY <2>1, <3>1 DEF Meant, Labels
  <2>3. tidy => Meant(it, all[i]) \in DOMAIN objects
    <3>1. all[i] \in Range(all)
      BY DEF Range
    <3> QED
      BY <1>1, <3>1
  <2>4. Meant(it, all[i]) \in Real(it)
    BY <2>2, <2>3 DEF Real
  <2> QED
    BY <2>4 DEF Cand, Unrelated
<1>2. ASSUME NEW i \in 1 .. n PROVE ss[i] \in Seq(F)
  <2>1. CASE Sure(all[i])
    <3>1. ss[i] = <<Cand(Meant(it, all[i]), None)>>
      BY <2>1
    <3> HIDE DEF F, ss
    <3> QED
      BY <1>1, <2>1, <3>1
  <2>2. CASE ~Sure(all[i])
    BY <2>2
  <2> QED
    BY <2>1, <2>2
<1>3. ss \in [1 .. n -> Seq(F)]
  <2>1. DOMAIN ss = 1 .. n /\ ss = [i \in 1 .. n |-> ss[i]]
    OBVIOUS
  <2> HIDE DEF F, ss
  <2> QED
    BY <1>2, <2>1
<1>4. Labelled(it, all) = FlattenSeq(ss)
  BY DEF Labelled
<1> HIDE DEF ss
<1>5. \A i \in 1 .. n : Adjacent(ss[i]) /\ \A a \in DOMAIN ss[i] : ss[i][a].group = None
  BY <1>3, UnrelatedAdjacent
<1>6. \A i, j \in 1 .. n : i < j =>
         \A a \in DOMAIN ss[i], b \in DOMAIN ss[j] : Loose(ss[i][a], ss[j][b])
  BY <1>5 DEF Loose
<1> HIDE DEF F
<1>7. FlattenSeq(ss) \in Seq(F)
  BY <1>3, <1>5, <1>6, FlattenAdjacent
<1> QED
  BY <1>4, <1>7 DEF F

\* A route, whose resources lie each in the one before.
LEMMA RoutedFound ==
    ASSUME ObjectsOK, NEW it, NEW ks \in Seq(Real(it)), tidy => Rooted(ks, objects),
           NEW group \in Groups
    PROVE  /\ Routed(ks, group) \in Seq(Found(it)) /\ Adjacent(Routed(ks, group))
           /\ \A i \in DOMAIN Routed(ks, group) :
                 i \in DOMAIN ks /\ Routed(ks, group)[i] = Cand(ks[i], group)
<1> DEFINE q == Routed(ks, group)
<1>1. PICK n \in Nat : n = Len(ks)
  OBVIOUS
<1>2. DOMAIN q = 1 .. n /\ DOMAIN ks = 1 .. n /\ q = [i \in 1 .. n |-> q[i]]
      /\ \A i \in 1 .. n : q[i] = Cand(ks[i], group) /\ ks[i] \in Real(it)
  BY <1>1 DEF Routed
<1> HIDE DEF q
<1>3. \A i \in 1 .. n : q[i] \in Found(it)
  BY <1>2 DEF Cand, Found
<1>4. q \in Seq(Found(it)) /\ Len(q) = n
  <2>1. q \in [1 .. n -> Found(it)]
    BY <1>2, <1>3
  <2> QED
    BY <1>2, <2>1, SeqDef
<1>5. Adjacent(q)
  <2> SUFFICES ASSUME NEW i \in 1 .. n - 1, tidy PROVE objects[q[i + 1].key].parent = q[i].key
    BY <1>4 DEF Adjacent, Fit
  <2>1. i \in 1 .. n /\ i + 1 \in 1 .. n /\ i + 1 # 1 /\ (i + 1) - 1 = i
    OBVIOUS
  <2>2. objects[ks[i + 1]].parent = ks[i]
    BY <1>2, <2>1 DEF Rooted
  <2> QED
    BY <1>2, <2>1, <2>2 DEF Cand
<1> QED
  BY <1>2, <1>4, <1>5 DEF q

\* How far a template follows a route: the largest of some numbers up to its length.
LEMMA MatchedRange ==
    ASSUME NEW n \in Nat, NEW route, DOMAIN route = 1 .. n
    PROVE  Matched(route) \in 0 .. n
<1> DEFINE M == {0} \cup {i \in DOMAIN route :
                    \E m \in target.grammar :
                        /\ m.coll = None /\ Len(m.path) = Len(route)
                        /\ \A j \in 1 .. i : m.path[j] = route[j][1]}
           T == {n - i : i \in M}
<1>1. M \subseteq 0 .. n /\ 0 \in M /\ Matched(route) = Max(M)
  BY DEF Matched
<1> HIDE DEF M
<1>2. T # {} /\ T \subseteq Nat
  BY <1>1
<1>3. PICK x \in T : \A y \in T : x <= y
  <2> HIDE DEF T
  <2> QED
    BY <1>2, Least
<1>4. PICK i \in M : x = n - i
  OBVIOUS
<1>5. \A j \in M : i >= j
  <2> SUFFICES ASSUME NEW j \in M PROVE i >= j
    OBVIOUS
  <2>1. x <= n - j
    BY <1>3
  <2> QED
    BY <1>1, <1>4, <2>1
<1>6. Max(M) \in M
  BY <1>5 DEF Max
<1> QED
  BY <1>1, <1>6

\* What Tidy says of one link.
Honest(it, u) ==
    /\ Rooted(u.route, objects) /\ (u.route # <<>> => u.rel \in {None, Last(u.route)[1]})
    /\ \A said \in Range(u.query) : Sure(said) => Meant(it, said) \in DOMAIN objects

\* A link: the resources of its route, then those of its query.
LEMMA FollowedFound ==
    ASSUME ObjectsOK, NEW it, it.tmpl \in target.grammar, NEW u \in Uris, tidy => Honest(it, u)
    PROVE  /\ Followed(it, u) \in Seq(Found(it)) /\ Adjacent(Followed(it, u))
           /\ \A i \in DOMAIN Followed(it, u) :
                 \/ Followed(it, u)[i].group = None
                 \/ /\ Followed(it, u)[i].group = u.group
                    /\ Followed(it, u)[i].key \in Range(u.route)
<1> DEFINE n == Matched(u.route)
           path == IF n # 0 THEN Routed(SubSeq(u.route, 1, n), u.group)
                   ELSE IF u.route = <<>> THEN <<>>
                   ELSE <<Cand(IF u.rel = None THEN Last(u.route)
                               ELSE <<u.rel, Last(u.route)[2]>>, None)>>
           said == Labelled(it, u.query)
           Of(c) == c.group = None \/ (c.group = u.group /\ c.key \in Range(u.route))
<1>1. /\ u.route \in Seq(Types \X Int) /\ u.query \in Seq(Labels \X Int) /\ u.rel \in Labels
      /\ u.group \in Groups
  BY DEF Uris, Groups
<1>2. PICK m \in Nat : m = Len(u.route) /\ DOMAIN u.route = 1 .. m
  BY <1>1
<1>3. \A i \in 1 .. m : u.route[i] \in Real(it)
  <2> SUFFICES ASSUME NEW i \in 1 .. m PROVE u.route[i] \in Real(it)
    OBVIOUS
  <2>1. u.route[i] \in Types \X Int
    BY <1>1, <1>2
  <2>2. tidy => u.route[i] \in DOMAIN objects
    BY <1>2 DEF Honest, Rooted
  <2> QED
    BY <2>1, <2>2 DEF Real, Texts
<1>4. said \in Seq(Found(it)) /\ Adjacent(said) /\ \A i \in DOMAIN said : said[i].group = None
  <2>1. PICK l \in Nat : DOMAIN u.query = 1 .. l /\ \A i \in 1 .. l : u.query[i] \in Labels \X Int
    BY <1>1
  <2>2. \A i \in 1 .. l : u.query[i][1] \in Labels /\ u.query[i][2] \in Texts(it)
    BY <2>1 DEF Texts
  <2>3. said \in Seq(Unrelated(it))
    <3> HIDE DEF said
    <3>1. tidy => \A w \in Range(u.query) : Sure(w) => Meant(it, w) \in DOMAIN objects
      BY DEF Honest
    <3> QED
      BY <2>1, <2>2, <3>1, LabelledFound DEF said
  <2> HIDE DEF said
  <2> QED
    BY <2>3, UnrelatedAdjacent
<1>5. path \in Seq(Found(it)) /\ Adjacent(path) /\ \A i \in DOMAIN path : Of(path[i])
  <2>1. n \in 0 .. m
    BY <1>2, MatchedRange
  <2>2. CASE n # 0
    <3>1. PICK ks : ks = SubSeq(u.route, 1, n)
      OBVIOUS
    <3>2. Len(ks) = n /\ DOMAIN ks = 1 .. n /\ ks = [i \in 1 .. n |-> u.route[i]]
      <4> HIDE DEF n
      <4>1. n \in Nat /\ n <= m
        BY <2>1
      <4> QED
        BY <1>1, <1>2, <3>1, <4>1
    <3> HIDE DEF n
    <3>3. \A i \in 1 .. n : i \in 1 .. m /\ ks[i] = u.route[i]
      BY <2>1, <3>2
    <3>4. ks \in Seq(Real(it))
      <4>1. n \in Nat /\ ks \in [1 .. n -> Real(it)]
        BY <1>3, <2>1, <3>2, <3>3
      <4> QED
        BY <4>1
    <3>5. tidy => Rooted(ks, objects)
      <4> SUFFICES ASSUME tidy, NEW i \in 1 .. n
                   PROVE  /\ ks[i] \in DOMAIN objects
                          /\ objects[ks[i]].parent = (IF i = 1 THEN NoKey ELSE ks[i - 1])
        BY <3>2 DEF Rooted
      <4>1. i = 1 \/ i - 1 \in 1 .. n
        BY <2>1
      <4>2. /\ u.route[i] \in DOMAIN objects
            /\ objects[u.route[i]].parent = (IF i = 1 THEN NoKey ELSE u.route[i - 1])
        BY <1>2, <3>3 DEF Honest, Rooted
      <4> QED
        BY <3>3, <4>1, <4>2
    <3>6. path = Routed(ks, u.group)
      BY <2>2, <3>1 DEF n
    <3>7. /\ path \in Seq(Found(it)) /\ Adjacent(path)
          /\ \A i \in DOMAIN path : i \in DOMAIN ks /\ path[i] = Cand(ks[i], u.group)
      <4> HIDE DEF path
      <4> QED
        BY <1>1, <3>4, <3>5, <3>6, RoutedFound
    <3>8. \A i \in DOMAIN ks : ks[i] \in Range(u.route)
      BY <1>2, <3>2, <3>3 DEF Range
    <3> HIDE DEF path
    <3> QED
      BY <3>7, <3>8 DEF Cand
  <2>3. CASE n = 0 /\ u.route = <<>>
    <3>1. path = <<>>
      BY <2>3
    <3> HIDE DEF path
    <3> QED
      BY <3>1 DEF Adjacent
  <2>4. CASE n = 0 /\ u.route # <<>>
    <3> DEFINE k == IF u.rel = None THEN Last(u.route) ELSE <<u.rel, Last(u.route)[2]>>
    <3>1. Last(u.route) = u.route[m] /\ m \in 1 .. m
      BY <1>1, <1>2, <2>4 DEF Last
    <3>2. Last(u.route) \in Types \X Int
      BY <1>1, <1>2, <3>1
    <3>3. k \in Types \X Int
      BY <1>1, <3>2 DEF Labels
    <3>4. tidy => k = Last(u.route)
      BY <2>4, <3>2 DEF Honest
    <3>5. k \in Real(it)
      BY <1>3, <3>1, <3>3, <3>4 DEF Real, Texts
    <3> HIDE DEF k
    <3>6. Cand(k, None) \in Unrelated(it)
      BY <3>5 DEF Cand, Unrelated
    <3>7. path = <<Cand(k, None)>>
      BY <2>4 DEF k
    <3>8. path \in Seq(Unrelated(it))
      <4> HIDE DEF path
      <4> QED
        BY <3>6, <3>7
    <3> HIDE DEF path
    <3> QED
      BY <3>8, UnrelatedAdjacent
  <2> QED
    BY <2>2, <2>3, <2>4
<1>6. Followed(it, u) = path \o said
  BY DEF Followed
<1> HIDE DEF path, said, n
<1>7. path \o said \in Seq(Found(it)) /\ Adjacent(path \o said)
  <2>1. \A i \in DOMAIN path, j \in DOMAIN said : Loose(path[i], said[j])
    BY <1>4 DEF Loose
  <2> QED
    BY <1>4, <1>5, <2>1, JoinAdjacent
<1>8. \A i \in DOMAIN (path \o said) : Of((path \o said)[i])
  <2>1. \A i \in DOMAIN (path \o said) : (i \in DOMAIN path /\ (path \o said)[i] = path[i])
                                         \/ \E j \in DOMAIN said : (path \o said)[i] = said[j]
    BY <1>4, <1>5, Concat2
  <2> QED
    BY <1>4, <1>5, <2>1
<1> QED
  BY <1>6, <1>7, <1>8

\* All links of an answer: between two of them nothing is linked that is not so.
LEMMA LinkedFound ==
    ASSUME ObjectsOK, NEW it, it.tmpl \in target.grammar, NEW resp, AnswerOK(resp),
           tidy => Tidy(it, resp, objects)
    PROVE  /\ Linked(it, resp) \in Seq(Found(it)) /\ Adjacent(Linked(it, resp))
           /\ \A i \in DOMAIN Linked(it, resp) :
                 Linked(it, resp)[i].group = None \/ Linked(it, resp)[i].group # "request_path"
<1> DEFINE uris == resp.uris
           ss == [i \in DOMAIN uris |-> Followed(it, uris[i])]
           q == FlattenSeq(ss)
<1>1. PICK n \in Nat : n = Len(uris) /\ DOMAIN uris = 1 .. n
  BY DEF AnswerOK
<1>2. \A i \in 1 .. n : uris[i] \in Uris
  BY <1>1 DEF AnswerOK
<1>3. ASSUME NEW i \in 1 .. n, tidy PROVE Honest(it, uris[i])
  <2>1. uris[i] \in Range(uris)
    BY <1>1 DEF Range
  <2> HIDE DEF uris
  <2> QED
    BY <1>3, <2>1 DEF Tidy, Honest, uris
<1>4. \A i \in 1 .. n : /\ ss[i] \in Seq(Found(it)) /\ Adjacent(ss[i])
                        /\ \A a \in DOMAIN ss[i] :
                              \/ ss[i][a].group = None
                              \/ /\ ss[i][a].group = uris[i].group
                                 /\ ss[i][a].key \in Range(uris[i].route)
  <2> SUFFICES ASSUME NEW i \in 1 .. n
               PROVE  /\ Followed(it, uris[i]) \in Seq(Found(it)) /\ Adjacent(Followed(it, uris[i]))
                      /\ \A a \in DOMAIN Followed(it, uris[i]) :
                            \/ Followed(it, uris[i])[a].group = None
                            \/ /\ Followed(it, uris[i])[a].group = uris[i].group
                               /\ Followed(it, uris[i])[a].key \in Range(uris[i].route)
    BY <1>1
  <2> QED
    BY <1>2, <1>3, FollowedFound
<1>5. ss \in [1 .. n -> Seq(Found(it))]
  <2>1. DOMAIN ss = 1 .. n /\ ss = [i \in 1 .. n |-> ss[i]]
    BY <1>1
  <2> HIDE DEF ss
  <2> QED
    BY <1>4, <2>1
<1>6. Linked(it, resp) = q
  BY DEF Linked
<1> HIDE DEF ss
<1>7. ASSUME NEW i \in 1 .. n, NEW j \in 1 .. n, i < j,
             NEW a \in DOMAIN ss[i], NEW b \in DOMAIN ss[j]
      PROVE  Loose(ss[i][a], ss[j][b])
  <2> SUFFICES ASSUME tidy, ss[j][b].group # None, ss[i][a].group = ss[j][b].group
               PROVE  ss[i][a].key[1] = ss[j][b].key[1]
    BY DEF Loose
  <2>1. /\ ss[j][b].group = uris[j].group /\ ss[j][b].key \in Range(uris[j].route)
        /\ ss[i][a].group = uris[i].group /\ ss[i][a].key \in Range(uris[i].route)
    BY <1>4
  <2>2. i \in DOMAIN uris /\ j \in DOMAIN uris /\ i # j /\ uris[i].group = uris[j].group
    BY <1>1, <1>7, <2>1
  <2>3. \A k \in Range(uris[i].route), l \in Range(uris[j].route) : k[1] = l[1]
    BY <2>2 DEF Tidy
  <2> QED
    BY <2>1, <2>3
<1>8. /\ q \in Seq(Found(it)) /\ Adjacent(q)
      /\ \A x \in DOMAIN q : \E i \in 1 .. n : \E a \in DOMAIN ss[i] : q[x] = ss[i][a]
  <2>1. \A i \in 1 .. n : Adjacent(ss[i])
    BY <1>4
  <2>2. \A i, j \in 1 .. n : i < j =>
            \A a \in DOMAIN ss[i], b \in DOMAIN ss[j] : Loose(ss[i][a], ss[j][b])
    BY <1>7
  <2>3. PICK F : F = Found(it)
    OBVIOUS
  <2>4. ss \in [1 .. n -> Seq(F)]
    BY <1>5, <2>3
  <2> HIDE DEF uris
  <2>5. FlattenSeq(ss) \in Seq(F) /\ Adjacent(FlattenSeq(ss)) /\ MadeOf(FlattenSeq(ss), ss, n)
    BY <2>1, <2>2, <2>4, FlattenAdjacent
  <2> QED
    BY <2>3, <2>5 DEF MadeOf
<1>9. \A i \in 1 .. n : uris[i].group # "request_path"
  <2>1. \A i \in 1 .. n : uris[i].group \in Types \cup {"Location", "Content-Location", "Link",
                                                         "self", "Set-Cookie"}
    BY <1>2 DEF Uris
  <2>2. "request_path" \notin Types
    BY ChainsAssumption
  <2> QED
    BY <2>1, <2>2
<1>10. ASSUME NEW x \in DOMAIN q PROVE q[x].group = None \/ q[x].group # "request_path"
  <2> HIDE DEF q, uris
  <2>1. PICK i \in 1 .. n : \E a \in DOMAIN ss[i] : q[x] = ss[i][a]
    BY <1>8
  <2> QED
    BY <1>4, <1>9, <2>1
<1> QED
  BY <1>6, <1>8, <1>10

LEMMA NamedFound ==
    ASSUME NEW it, NEW resp, AnswerOK(resp), tidy => \A k \in Range(resp.named) : k \in DOMAIN objects
    PROVE  Named(resp) \in Seq(Unrelated(it))
<1> DEFINE N == Named(resp)
<1>1. PICK n \in Nat : n = Len(resp.named) /\ DOMAIN resp.named = 1 .. n
  BY DEF AnswerOK
<1>2. \A i \in 1 .. n : resp.named[i] \in Types \X Int /\ resp.named[i] \in Range(resp.named)
  BY <1>1 DEF AnswerOK, Range
<1>3. DOMAIN N = 1 .. n /\ N = [i \in 1 .. n |-> N[i]]
      /\ \A i \in 1 .. n : N[i] = Cand(resp.named[i], None)
  BY <1>1 DEF Named
<1> HIDE DEF N
<1>4. \A i \in 1 .. n : resp.named[i] \in Real(it)
  BY <1>2 DEF Real, Texts
<1>5. \A i \in 1 .. n : N[i] \in Unrelated(it)
  BY <1>3, <1>4 DEF Cand, Unrelated
<1>6. N \in [1 .. n -> Unrelated(it)]
  BY <1>3, <1>5
<1> QED
  BY <1>6, SeqDef DEF N

\* The path of a request that was answered.
LEMMA KeysFound ==
    ASSUME ObjectsOK, NEW it, it.tmpl \in target.grammar, Rooted(Keys(it.tmpl.path, it.ids), objects)
    PROVE  Keys(it.tmpl.path, it.ids) \in Seq(Real(it))
<1> DEFINE ks == Keys(it.tmpl.path, it.ids)
<1>1. it.tmpl.path \in Seq(Types)
  BY TargetsAssumption DEF ObjectsOK
<1>2. PICK n \in Nat : n = Len(it.tmpl.path) /\ DOMAIN it.tmpl.path = 1 .. n
  BY <1>1
<1>3. DOMAIN ks = 1 .. n /\ ks = [i \in 1 .. n |-> ks[i]]
      /\ \A i \in 1 .. n : ks[i] = <<it.tmpl.path[i], it.ids[i]>>
  BY <1>2 DEF Keys
<1>4. \A i \in 1 .. n : ks[i] \in DOMAIN objects
  BY <1>3 DEF Rooted
<1> HIDE DEF ks
<1>5. \A i \in 1 .. n : it.tmpl.path[i] \in Types /\ it.ids[i] \in Texts(it)
  BY <1>1, <1>2 DEF Texts
<1>6. ASSUME NEW i \in 1 .. n PROVE ks[i] \in Real(it)
  <2>1. <<it.tmpl.path[i], it.ids[i]>> \in Types \X Texts(it)
    BY <1>5
  <2> QED
    BY <1>3, <1>4, <2>1 DEF Real
<1>7. ks \in [1 .. n -> Real(it)]
  BY <1>3, <1>6
<1> QED
  BY <1>7, SeqDef DEF ks

\* All candidates are such, and their neighbours fit.
LEMMA CandidatesFound ==
    ASSUME ObjectsOK, NEW it, NEW resp, it.tmpl \in target.grammar, Ready(it, resp)
    PROVE  Candidates(it, resp) \in Seq(Found(it)) /\ Adjacent(Candidates(it, resp))
<1> DEFINE ks == Keys(it.tmpl.path, it.ids)
           L == Linked(it, resp)
           N == Named(resp)
           H == Labelled(it, resp.told)
           R == Routed(ks, "request_path")
           Q == Labelled(it, Queried(it))
<1>1. AnswerOK(resp) /\ Rooted(ks, objects) /\ (tidy => Tidy(it, resp, objects))
  BY DEF Ready
<1>2. /\ L \in Seq(Found(it)) /\ Adjacent(L)
      /\ \A i \in DOMAIN L : L[i].group = None \/ L[i].group # "request_path"
  BY <1>1, LinkedFound
<1>3. N \in Seq(Unrelated(it))
  <2>1. tidy => \A k \in Range(resp.named) : k \in DOMAIN objects
    BY <1>1 DEF Tidy
  <2> QED
    BY <1>1, <2>1, NamedFound
<1>4. H \in Seq(Unrelated(it))
  <2>1. PICK n \in Nat : DOMAIN resp.told = 1 .. n /\ \A i \in 1 .. n : resp.told[i] \in Labels \X Int
    BY <1>1 DEF AnswerOK
  <2>2. \A i \in 1 .. n : resp.told[i][1] \in Labels /\ resp.told[i][2] \in Texts(it)
    BY <2>1 DEF Texts
  <2>3. tidy => \A w \in Range(resp.told) : Sure(w) => Meant(it, w) \in DOMAIN objects
    BY <1>1 DEF Tidy
  <2> QED
    BY <2>1, <2>2, <2>3, LabelledFound
<1>5. R \in Seq(Found(it)) /\ Adjacent(R) /\ \A i \in DOMAIN R : R[i].group = "request_path"
  <2>1. ks \in Seq(Real(it))
    BY <1>1, KeysFound
  <2>2. "request_path" \in Groups
    BY DEF Groups
  <2>3. /\ R \in Seq(Found(it)) /\ Adjacent(R)
        /\ \A i \in DOMAIN R : i \in DOMAIN ks /\ R[i] = Cand(ks[i], "request_path")
    <3> HIDE DEF ks
    <3> QED
      BY <1>1, <2>1, <2>2, RoutedFound
  <2> HIDE DEF R, ks
  <2> QED
    BY <2>3 DEF Cand
<1>6. Q \in Seq(Unrelated(it))
  <2> DEFINE all == Queried(it)
  <2>1. it.tmpl.query \in Seq(Labels)
    BY TargetsAssumption DEF ObjectsOK
  <2>2. PICK n \in Nat : n = Len(it.tmpl.query) /\ DOMAIN it.tmpl.query = 1 .. n
    BY <2>1
  <2>3. DOMAIN all = 1 .. n /\ \A i \in 1 .. n : all[i] = <<it.tmpl.query[i], it.query[i]>>
    BY <2>2 DEF Queried
  <2>4. \A i \in 1 .. n : it.tmpl.query[i] \in Labels /\ it.query[i] \in Texts(it)
    BY <2>1, <2>2 DEF Texts
  <2> HIDE DEF all
  <2>5. \A i \in 1 .. n : all[i][1] \in Labels /\ all[i][2] \in Texts(it)
    BY <2>3, <2>4
  <2>6. tidy => \A w \in Range(all) : Sure(w) => Meant(it, w) \in DOMAIN objects
    BY <1>1 DEF Tidy, all
  <2>7. Labelled(it, all) \in Seq(Unrelated(it))
    BY <2>3, <2>5, <2>6, LabelledFound
  <2> QED
    BY <2>7 DEF all
<1>7. Candidates(it, resp) = (((L \o N) \o H) \o R) \o Q
  BY DEF Candidates
<1> HIDE DEF L, N, H, R, Q, ks
<1>8. ASSUME NEW a \in Seq(Found(it)), Adjacent(a), NEW b \in Seq(Unrelated(it)),
             \A i \in DOMAIN a : a[i].group = None \/ a[i].group # "request_path"
      PROVE  /\ a \o b \in Seq(Found(it)) /\ Adjacent(a \o b)
             /\ \A i \in DOMAIN (a \o b) :
                   (a \o b)[i].group = None \/ (a \o b)[i].group # "request_path"
  <2>1. b \in Seq(Found(it)) /\ Adjacent(b) /\ \A i \in DOMAIN b : b[i].group = None
    BY UnrelatedAdjacent
  <2>2. \A i \in DOMAIN a, j \in DOMAIN b : Loose(a[i], b[j])
    BY <2>1 DEF Loose
  <2>3. a \o b \in Seq(Found(it)) /\ Adjacent(a \o b)
    BY <1>8, <2>1, <2>2, JoinAdjacent
  <2>4. \A i \in DOMAIN (a \o b) : (i \in DOMAIN a /\ (a \o b)[i] = a[i])
                                   \/ \E j \in DOMAIN b : (a \o b)[i] = b[j]
    BY <2>1, Concat2
  <2> QED
    BY <1>8, <2>1, <2>3, <2>4
<1>9. PICK M : M = (L \o N) \o H
  OBVIOUS
<1>10. /\ M \in Seq(Found(it)) /\ Adjacent(M)
       /\ \A i \in DOMAIN M : M[i].group = None \/ M[i].group # "request_path"
  <2>1. PICK P : P = L \o N
    OBVIOUS
  <2>2. /\ P \in Seq(Found(it)) /\ Adjacent(P)
        /\ \A i \in DOMAIN P : P[i].group = None \/ P[i].group # "request_path"
    BY <1>2, <1>3, <1>8, <2>1
  <2> QED
    BY <1>4, <1>8, <1>9, <2>1, <2>2
<1>11. M \o R \in Seq(Found(it)) /\ Adjacent(M \o R)
  <2>1. \A i \in DOMAIN M, j \in DOMAIN R : Loose(M[i], R[j])
    BY <1>5, <1>10 DEF Loose
  <2> QED
    BY <1>5, <1>10, <2>1, JoinAdjacent
<1>12. (M \o R) \o Q \in Seq(Found(it)) /\ Adjacent((M \o R) \o Q)
  <2>1. PICK P : P = M \o R
    OBVIOUS
  <2>2. Q \in Seq(Found(it)) /\ Adjacent(Q) /\ \A i \in DOMAIN Q : Q[i].group = None
    BY <1>6, UnrelatedAdjacent
  <2>3. \A i \in DOMAIN P, j \in DOMAIN Q : Loose(P[i], Q[j])
    BY <2>2 DEF Loose
  <2>4. P \o Q \in Seq(Found(it)) /\ Adjacent(P \o Q)
    BY <1>11, <2>1, <2>2, <2>3, JoinAdjacent
  <2> QED
    BY <2>1, <2>4
<1> QED
  BY <1>7, <1>9, <1>12

-----------------------------------------------------------------------------
(* A step of a chain in the graph.                                         *)

\* What DELETEs have named, this step's request included, if it is one.
Condemned(it, seen) == deletions \cup (IF it.tmpl.method = "DELETE" THEN seen ELSE {})

\* A step so far: the graph, and whom it accuses.
Recorded(it, S, s) ==
    GraphOK(s.graph, S, Condemned(it, s.seen)) /\ \A f \in s.faults : f.key \in deletions

\* If the next candidate is linked to the last, it is rightly so.
Fits(s, c) ==
    tidy /\ c.group # None /\ c.group = s.group /\ s.last[1] # c.key[1] =>
        s.last \in DOMAIN objects /\ objects[c.key].parent = s.last

Advanced(s, c, r) == r.seen = s.seen \cup {c.key} /\ r.group = c.group /\ r.last = c.key

\* The graph takes no harm from a candidate, and whoever is accused over it was named
\* by a DELETE before this step.
LEMMA CandidateKeeps ==
    ASSUME ObjectsOK, NEW it, it.tmpl.method \in {"POST", "GET", "PUT", "DELETE"}, NEW seq,
           NEW S, NEW s, Recorded(it, S, s), NEW c \in Found(it), c.key \in S, Fits(s, c)
    PROVE  LET r == RecordCandidate(it, seq, s, c)
           IN Recorded(it, S, r) /\ Advanced(s, c, r)
<1>0. GraphOK(s.graph, S, Condemned(it, s.seen)) /\ \A f \in s.faults : f.key \in deletions
  BY DEF Recorded
<1> DEFINE method == it.tmpl.method
           prior == Prior(s.graph, c.key)
           to == NextLife(method, prior)
           kind == Violation(method, prior)
           g1 == RecordInstance(s.graph, c.key, Op(it), seq, to)
           linked == c.group # None /\ c.group = s.group /\ s.last[1] # c.key[1]
           g2 == IF linked THEN LinkParent(g1, s.last, c.key) ELSE g1
           r == RecordCandidate(it, seq, s, c)
           fault == [tmpl |-> it.tmpl, kind |-> kind, key |-> c.key]
           E == Condemned(it, s.seen \cup {c.key})
<1>1. c.key[1] \in Types /\ (tidy => c.key \in DOMAIN objects)
  <2>1. c.key \in Real(it)
    BY DEF Found
  <2>2. c.key \in Types \X Texts(it)
    BY <2>1 DEF Real
  <2> QED
    BY <2>1, <2>2 DEF Real
<1>2. prior \in Dead => c.key \in Condemned(it, s.seen)
  <2>1. CASE Known(s.graph, c.key)
    BY <1>0, <2>1 DEF Prior, Known, GraphOK, Faithful
  <2>2. CASE ~Known(s.graph, c.key)
    BY <2>2 DEF Prior, Dead
  <2> QED
    BY <2>1, <2>2
<1>3. r.graph = g2 /\ r.group = c.group /\ r.last = c.key /\ r.seen = s.seen \cup {c.key}
      /\ r.faults \in {s.faults, s.faults \cup {fault}}
      /\ (kind = "none" \/ c.key \in s.seen => r.faults = s.faults)
  BY DEF RecordCandidate, Judged
<1> HIDE DEF r, g2, prior
<1>4. Condemned(it, s.seen) \subseteq E /\ (method = "DELETE" => c.key \in E)
  BY DEF Condemned
<1>5. to \in Dead => c.key \in E
  <2>1. CASE method = "DELETE"
    BY <1>4, <2>1
  <2>2. CASE method # "DELETE" /\ prior \in Dead
    BY <1>2, <1>4, <2>2
  <2>3. CASE method # "DELETE" /\ prior \notin Dead
    BY <2>3 DEF NextLife, Dead
  <2> QED
    BY <2>1, <2>2, <2>3
<1>6. kind # "none" => prior \in Dead
  <2> SUFFICES ASSUME prior \notin Dead PROVE kind = "none"
    OBVIOUS
  <2>1. to \notin {"STALE", "INVALIDATED"} /\ prior # "DELETED"
    BY DEF NextLife, Dead
  <2> HIDE DEF to
  <2> QED
    BY <2>1 DEF Violation, to
<1>7. kind # "none" /\ c.key \notin s.seen => c.key \in deletions
  BY <1>2, <1>6 DEF Condemned
<1> HIDE DEF to, kind, E
<1>8. GraphOK(g1, S, E) /\ c.key \in DOMAIN g1.inst
  <2>1. GraphOK(s.graph, S, E)
    BY <1>0, <1>4, GraphWider
  <2> QED
    BY <1>1, <1>5, <2>1, RecordKeeps
<1> HIDE DEF g1
<1>9. GraphOK(g2, S, E)
  <2>1. CASE linked
    <3>1. tidy => s.last \in DOMAIN objects /\ objects[c.key].parent = s.last
      BY <2>1 DEF Fits
    <3> QED
      BY <1>8, <2>1, <3>1, LinkKeeps DEF g2
  <2>2. CASE ~linked
    BY <1>8, <2>2 DEF g2
  <2> QED
    BY <2>1, <2>2
<1>10. \A f \in r.faults : f.key \in deletions
  <2>1. CASE kind = "none" \/ c.key \in s.seen
    BY <1>0, <1>3, <2>1
  <2>2. CASE ~(kind = "none" \/ c.key \in s.seen)
    <3>1. fault.key = c.key
      OBVIOUS
    <3> HIDE DEF fault
    <3> QED
      BY <1>0, <1>3, <1>7, <2>2, <3>1
  <2> QED
    BY <2>1, <2>2
<1> QED
  BY <1>3, <1>9, <1>10 DEF r, E, Recorded, Advanced

\* All candidates of an answer, one after the other: induction over them.
LEMMA StepKeeps ==
    ASSUME ObjectsOK, NEW S0, Typed(S0), GraphOK(graph, S0, deletions), NEW it, NEW resp, NEW seq,
           it.tmpl \in target.grammar, Ready(it, resp)
    PROVE  LET s == RecordStep(it, resp, seq)
           IN /\ \E S : /\ Typed(S)
                        /\ GraphOK(s.graph, S, Condemned(it, Mentions(it, resp)))
              /\ \A f \in s.faults : f.key \in deletions
<1> DEFINE cs == Candidates(it, resp)
           before == [graph |-> graph, group |-> None, last |-> NoKey, touched |-> <<>>,
                      seen |-> {}, faults |-> {}]
           S == S0 \cup Real(it)
           M == Mentions(it, resp)
<1>1. PICK N \in Nat : N = Len(cs)
  BY CandidatesFound
<1> DEFINE Do(s, n) == RecordCandidate(it, seq, s, cs[n])
           At(f, n) == IF n = 0 THEN before ELSE Do(f[n - 1], n)
           after == CHOOSE f : f = [n \in 0 .. N |-> At(f, n)]
           T == {m \in 0 .. N : \E f : f = [n \in 0 .. m |-> At(f, n)]}
           Follows(s, n) ==
             /\ Recorded(it, S, s) /\ s.seen \subseteq M
             /\ IF n = 0 THEN s.group = None
                ELSE s.group = cs[n].group /\ s.last = cs[n].key
           Good == {m \in 0 .. N : Follows(after[m], m)}
<1>2. RecordStep(it, resp, seq) = after[N]
  BY <1>1 DEF RecordStep
<1>3. \A i \in 1 .. N : cs[i] \in Found(it) /\ cs[i].key \in S /\ cs[i].key \in M
  <2>1. cs \in Seq(Found(it))
    BY CandidatesFound
  <2>2. \A i \in 1 .. N : cs[i] \in Found(it) /\ cs[i] \in Range(cs)
    <3> HIDE DEF cs
    <3> QED
      BY <1>1, <2>1 DEF Range
  <2>3. \A i \in 1 .. N : cs[i].key \in Real(it)
    BY <2>2 DEF Found
  <2>4. M = {d.key : d \in Range(cs)}
    BY DEF Mentions
  <2> HIDE DEF cs, M
  <2> QED
    BY <2>2, <2>3, <2>4
<1>4. it.tmpl.method \in {"POST", "GET", "PUT", "DELETE"}
  BY TargetsAssumption DEF ObjectsOK
<1>5. Typed(S)
  <2>1. \A k \in Real(it) : k[1] \in Types
    BY DEF Real
  <2> QED
    BY <2>1 DEF Typed
<1>6. ASSUME NEW i \in 1 .. N - 1, tidy, cs[i + 1].group # None, cs[i + 1].group = cs[i].group,
             cs[i].key[1] # cs[i + 1].key[1]
      PROVE  cs[i].key \in DOMAIN objects /\ objects[cs[i + 1].key].parent = cs[i].key
  <2>1. Adjacent(cs)
    BY CandidatesFound
  <2>2. i \in 1 .. N /\ i \in 1 .. Len(cs) - 1
    BY <1>1
  <2> HIDE DEF cs
  <2>3. Fit(cs[i], cs[i + 1])
    BY <2>1, <2>2 DEF Adjacent
  <2>4. cs[i].key \in DOMAIN objects
    <3>1. cs[i] \in Found(it)
      BY <1>3, <2>2
    <3> QED
      BY <1>6, <3>1 DEF Found, Real
  <2> QED
    BY <1>6, <2>3, <2>4 DEF Fit
<1> HIDE DEF cs, M
<1>7. Follows(before, 0)
  <2>1. Condemned(it, {}) = deletions
    BY DEF Condemned
  <2>2. GraphOK(graph, S, deletions)
    BY GraphWider
  <2> HIDE DEF S
  <2> QED
    BY <2>1, <2>2 DEF Recorded
<1> HIDE DEF S
<1>8. ASSUME NEW m \in 0 .. N, m < N, NEW s, Follows(s, m) PROVE Follows(Do(s, m + 1), m + 1)
  <2>1. m + 1 \in 1 .. N /\ m + 1 # 0
    BY <1>8
  <2>2. cs[m + 1] \in Found(it) /\ cs[m + 1].key \in S /\ cs[m + 1].key \in M
    BY <1>3, <2>1
  <2>3. Fits(s, cs[m + 1])
    <3>1. CASE m = 0
      BY <1>8, <3>1 DEF Fits
    <3>2. CASE m # 0
      <4>1. m \in 1 .. N - 1
        BY <1>8, <3>2
      <4> QED
        BY <1>6, <1>8, <3>2, <4>1 DEF Fits
    <3> QED
      BY <3>1, <3>2
  <2>5. Recorded(it, S, s)
    BY <1>8
  <2>6. PICK d \in Found(it) : d = cs[m + 1]
    BY <2>2
  <2>8. d.key \in S /\ d.key \in M /\ Fits(s, d)
    BY <2>2, <2>3, <2>6
  <2>9. PICK r : r = RecordCandidate(it, seq, s, d)
    OBVIOUS
  <2>10. Recorded(it, S, r) /\ Advanced(s, d, r)
    BY <1>4, <2>5, <2>8, <2>9, CandidateKeeps
  <2>11. Do(s, m + 1) = r
    BY <2>6, <2>9
  <2>7. s.seen \subseteq M
    BY <1>8
  <2> HIDE DEF Do
  <2> QED
    BY <2>1, <2>6, <2>7, <2>8, <2>10, <2>11 DEF Advanced
<1> HIDE DEF before, Do, Follows
<1>9. 0 \in T
  <2> DEFINE f == [n \in 0 .. 0 |-> before]
  <2>1. f = [n \in 0 .. 0 |-> At(f, n)]
    OBVIOUS
  <2> HIDE DEF f
  <2> QED
    BY <2>1
<1>10. ASSUME NEW m \in 0 .. N, m \in T, m < N PROVE m + 1 \in T
  <2>1. PICK f : f = [n \in 0 .. m |-> At(f, n)]
    BY <1>10
  <2> DEFINE h == [n \in 0 .. m + 1 |-> IF n = m + 1 THEN Do(f[m], m + 1) ELSE f[n]]
  <2>2. \A n \in 0 .. m : h[n] = f[n] /\ f[n] = At(f, n)
    BY <2>1
  <2>3. h[m + 1] = Do(f[m], m + 1)
    OBVIOUS
  <2>4. DOMAIN h = 0 .. m + 1 /\ h = [n \in 0 .. m + 1 |-> h[n]]
    OBVIOUS
  <2> HIDE DEF h
  <2>5. ASSUME NEW n \in 0 .. m + 1 PROVE h[n] = At(h, n)
    <3>1. CASE n = 0
      BY <2>2, <3>1
    <3>2. CASE n \in 1 .. m
      <4>1. n - 1 \in 0 .. m /\ n \in 0 .. m /\ n # 0
        BY <3>2
      <4> QED
        BY <2>2, <4>1
    <3>3. CASE n = m + 1
      <4>1. m \in 0 .. m /\ n - 1 = m /\ n # 0
        BY <3>3
      <4> QED
        BY <2>2, <2>3, <3>3, <4>1
    <3> QED
      BY <3>1, <3>2, <3>3
  <2> HIDE DEF At
  <2>6. h = [n \in 0 .. m + 1 |-> At(h, n)]
    BY <2>4, <2>5
  <2>7. m + 1 \in 0 .. N
    BY <1>10
  <2> QED
    BY <2>6, <2>7
<1>11. N \in T
  <2> HIDE DEF T
  <2> QED
    BY <1>9, <1>10, UpTo, Zenon
<1> HIDE DEF At
<1>12. after = [n \in 0 .. N |-> At(after, n)]
  BY <1>11
<1> HIDE DEF after
<1>13. \A n \in 0 .. N : after[n] = At(after, n)
  BY <1>12, Zenon
<1>14. 0 \in Good
  <2>1. after[0] = before
    BY <1>13 DEF At
  <2> QED
    BY <1>7, <2>1
<1>15. ASSUME NEW m \in 0 .. N, m \in Good, m < N PROVE m + 1 \in Good
  <2>1. m + 1 \in 0 .. N /\ m + 1 # 0 /\ (m + 1) - 1 = m
    BY <1>15
  <2>2. after[m + 1] = Do(after[m], m + 1)
    BY <1>13, <2>1 DEF At
  <2> QED
    BY <1>8, <1>15, <2>1, <2>2
<1>16. N \in Good
  <2> HIDE DEF Good
  <2> QED
    BY <1>14, <1>15, UpTo, Zenon
<1>17. /\ GraphOK(after[N].graph, S, Condemned(it, after[N].seen)) /\ after[N].seen \subseteq M
       /\ \A f \in after[N].faults : f.key \in deletions
  BY <1>16 DEF Follows, Recorded
<1>18. Condemned(it, after[N].seen) \subseteq Condemned(it, M)
  BY <1>17 DEF Condemned
<1>19. GraphOK(after[N].graph, S, Condemned(it, M))
  BY <1>17, <1>18, GraphWider
<1> QED
  BY <1>2, <1>5, <1>17, <1>19 DEF M

-----------------------------------------------------------------------------
(* The queue.                                                              *)

\* What the graph supplies is of the chain's tenant.
LEMMA BranchesWait ==
    ASSUME ObjectsOK, NEW S, NEW D, NEW g, GraphOK(g, S, D), NEW t \in target.grammar, NEW c, NEW ids,
           NEW item \in Branches(t, c, ids, g)
    PROVE  Waits(item)
<1> DEFINE own == OwnType(t)
           kin == FindCompatibleInTenant(g, own, c.tenant, Alive)
           stale == Newest(g, own, FindCompatibleResources(g, own, Dead))
           live == Newest(g, own, kin)
           first == IF ids = <<>> THEN Hole ELSE ids[1]
           Bound(raw, q) ==
               IF Hole \notin Range(raw) THEN {Item(t, raw, q, c.depth, c, NoKey)}
               ELSE {Item(t, FillHoles(raw, k[2]), q, c.depth, c, NoKey) : k \in stale}
                    \cup (IF live # {}
                          THEN {Item(t, FillHoles(raw, k[2]), q, c.depth, c, k) : k \in live}
                          ELSE {Item(t, FillHoles(raw, first), q, c.depth, c, NoKey)})
<1>1. own \in Types
  BY OwnTyped
<1>2. PICK raw, q : item \in Bound(raw, q)
  BY DEF Branches
<1> HIDE DEF stale, own
<1>3. live \subseteq kin
  BY DEF Newest
<1> HIDE DEF live
<1>4. \E k \in live \cup {NoKey} : \E filled : item = Item(t, filled, q, c.depth, c, k)
  BY <1>2
<1>5. PICK k \in live \cup {NoKey} : \E filled : item = Item(t, filled, q, c.depth, c, k)
  BY <1>4
<1>6. item.tmpl = t /\ item.pick = k /\ item.chain = c
  BY <1>5 DEF Item
<1>7. CASE k = NoKey
  BY <1>6, <1>7 DEF Waits
<1>8. CASE k \in live
  <2>1. /\ k \in Range(g.byType[own])
        /\ c.tenant = NoKey \/ g.inst[k].tenant = c.tenant \/ k = c.tenant
    BY <1>3, <1>8 DEF FindCompatibleInTenant, FindCompatibleResources
  <2>2. k \in DOMAIN g.inst /\ Faithful(g.inst[k], k, D)
    BY <1>1, <2>1 DEF GraphOK, IndexOK
  <2>3. tidy => k \in DOMAIN objects /\ (c.tenant # NoKey => Inside(k, c.tenant))
    BY <2>1, <2>2 DEF Faithful, Inside
  <2> QED
    BY <1>6, <2>2, <2>3 DEF Waits
<1> QED
  BY <1>7, <1>8

\* A full queue loses its head.
LEMMA EnqueueType ==
    ASSUME NEW S, NEW q \in Seq(S), NEW x \in S
    PROVE  Enqueue(q, x) \in Seq(S)
<1>1. CASE Len(q) >= QueueMax
  <2>1. q # <<>>
    BY <1>1, Constants
  <2>2. Tail(q) \in Seq(S)
    BY <2>1
  <2> QED
    BY <1>1, <2>2 DEF Enqueue
<1>2. CASE ~(Len(q) >= QueueMax)
  BY <1>2 DEF Enqueue
<1> QED
  BY <1>1, <1>2

\* Consumers are queued in some order, each at most once.
LEMMA RankingsType ==
    ASSUME NEW all, IsFiniteSet(all), NEW n, NEW order \in Rankings(all, n)
    PROVE  order \in Seq(all)
<1>1. PICK s \in SUBSET all : order \in SetToSeqs(s)
  BY DEF Rankings, SetToAllKPermutations
<1>2. Cardinality(s) \in Nat
  BY FS_Subset, FS_CardinalityType
<1>3. order \in [1 .. Cardinality(s) -> s]
  BY <1>1 DEF SetToSeqs
<1>4. order \in [1 .. Cardinality(s) -> all]
  BY <1>3
<1> QED
  BY <1>2, <1>4

\* The branches of all consumers in their order: induction over the order.
LEMMA QueuesWait ==
    ASSUME ObjectsOK, NEW Z, NEW D, NEW g, GraphOK(g, Z, D), NEW start, Queue(start),
           NEW order \in Seq(target.grammar), NEW c, NEW ids,
           NEW q \in QueuesFrom(start, order, c, ids, g)
    PROVE  Queue(q)
<1>1. PICK S : start \in Seq(S) /\ \A x \in S : Waits(x)
  BY DEF Queue
<1>2. PICK N \in Nat : N = Len(order)
  OBVIOUS
<1> DEFINE B == S \cup UNION {Branches(order[m], c, ids, g) : m \in 1 .. N}
           Do(qs, m) == {Enqueue(p, item) : p \in qs, item \in Branches(order[m], c, ids, g)}
           At(f, m) == IF m = 0 THEN {start} ELSE Do(f[m - 1], m)
           queues == CHOOSE f : f = [m \in 0 .. N |-> At(f, m)]
           T == {m \in 0 .. N : \E f : f = [n \in 0 .. m |-> At(f, n)]}
           Good == {m \in 0 .. N : queues[m] \subseteq Seq(B)}
<1>3. q \in queues[N]
  BY <1>2 DEF QueuesFrom
<1>4. \A x \in B : Waits(x)
  <2>1. \A m \in 1 .. N : order[m] \in target.grammar
    BY <1>2
  <2> QED
    BY <1>1, <2>1, BranchesWait
<1>5. start \in Seq(B)
  BY <1>1
<1>6. ASSUME NEW qs, qs \subseteq Seq(B), NEW m \in 1 .. N PROVE Do(qs, m) \subseteq Seq(B)
  <2>1. Branches(order[m], c, ids, g) \subseteq B
    OBVIOUS
  <2> HIDE DEF B
  <2> QED
    BY <1>6, <2>1, EnqueueType
<1> HIDE DEF B, Do
<1>7. 0 \in T
  <2> DEFINE f == [n \in 0 .. 0 |-> {start}]
  <2>1. f = [n \in 0 .. 0 |-> At(f, n)]
    OBVIOUS
  <2> HIDE DEF f
  <2> QED
    BY <2>1
<1>8. ASSUME NEW m \in 0 .. N, m \in T, m < N PROVE m + 1 \in T
  <2>1. PICK f : f = [n \in 0 .. m |-> At(f, n)]
    BY <1>8
  <2> DEFINE h == [n \in 0 .. m + 1 |-> IF n = m + 1 THEN Do(f[m], m + 1) ELSE f[n]]
  <2>2. \A n \in 0 .. m : h[n] = f[n] /\ f[n] = At(f, n)
    <3> HIDE DEF At
    <3> QED
      BY <2>1
  <2>3. h[m + 1] = Do(f[m], m + 1)
    OBVIOUS
  <2>4. DOMAIN h = 0 .. m + 1 /\ h = [n \in 0 .. m + 1 |-> h[n]]
    OBVIOUS
  <2> HIDE DEF h
  <2>5. ASSUME NEW n \in 0 .. m + 1 PROVE h[n] = At(h, n)
    <3>1. CASE n = 0
      BY <2>2, <3>1
    <3>2. CASE n \in 1 .. m
      <4>1. n - 1 \in 0 .. m /\ n \in 0 .. m /\ n # 0
        BY <3>2
      <4> QED
        BY <2>2, <4>1
    <3>3. CASE n = m + 1
      <4>1. m \in 0 .. m /\ n - 1 = m /\ n # 0
        BY <3>3
      <4> QED
        BY <2>2, <2>3, <3>3, <4>1
    <3> QED
      BY <3>1, <3>2, <3>3
  <2> HIDE DEF At
  <2>6. h = [n \in 0 .. m + 1 |-> At(h, n)]
    BY <2>4, <2>5
  <2>7. m + 1 \in 0 .. N
    BY <1>8
  <2> QED
    BY <2>6, <2>7
<1>9. N \in T
  <2> HIDE DEF T
  <2> QED
    BY <1>7, <1>8, UpTo, Zenon
<1> HIDE DEF At
<1>10. queues = [m \in 0 .. N |-> At(queues, m)]
  BY <1>9
<1> HIDE DEF queues
<1>11. \A m \in 0 .. N : queues[m] = At(queues, m)
  BY <1>10, Zenon
<1>12. 0 \in Good
  <2>1. queues[0] = {start}
    BY <1>11 DEF At
  <2> QED
    BY <1>5, <2>1
<1>13. ASSUME NEW m \in 0 .. N, m \in Good, m < N PROVE m + 1 \in Good
  <2>1. m + 1 \in 0 .. N /\ m + 1 \in 1 .. N /\ m + 1 # 0 /\ (m + 1) - 1 = m
    BY <1>13
  <2>2. queues[m + 1] = Do(queues[m], m + 1)
    BY <1>11, <2>1 DEF At
  <2> QED
    BY <1>6, <1>13, <2>1, <2>2
<1>14. N \in Good
  <2> HIDE DEF Good
  <2> QED
    BY <1>12, <1>13, UpTo, Zenon
<1>15. q \in Seq(B)
  BY <1>3, <1>14
<1> QED
  BY <1>4, <1>15 DEF Queue

\* All that QueueNext queues waits as it should.
LEMMA QueueKeeps ==
    ASSUME ObjectsOK, NEW Z, NEW D, NEW g, GraphOK(g, Z, D), Queue(sequenceQueue),
           NEW it, it.tmpl \in target.grammar, NEW resp, NEW c, QueueNext(it, resp, c, g)
    PROVE  Queue(sequenceQueue')
<1>1. Queue(WithPage(it, resp, c))
  <2> DEFINE next == Item(it.tmpl, it.ids, Turned(it, resp.cursor), c.depth + 1, NextChain(c), NoKey)
  <2>1. PICK S : sequenceQueue \in Seq(S) /\ \A x \in S : Waits(x)
    BY DEF Queue
  <2>2. Waits(next)
    BY DEF Waits, Item
  <2>3. WithPage(it, resp, c) \in {sequenceQueue, Enqueue(sequenceQueue, next)}
    BY DEF WithPage
  <2> HIDE DEF next
  <2>4. Enqueue(sequenceQueue, next) \in Seq(S \cup {next})
    <3>1. sequenceQueue \in Seq(S \cup {next})
      BY <2>1
    <3> QED
      BY <3>1, EnqueueType
  <2>5. \A x \in S \cup {next} : Waits(x)
    BY <2>1, <2>2
  <2> QED
    BY <2>1, <2>3, <2>4, <2>5 DEF Queue
<1> DEFINE heirs == Consumers(it, resp)
<1>2. CASE heirs = {}
  BY <1>1, <1>2 DEF QueueNext
<1>3. CASE heirs # {}
  <2>1. PICK n \in Fanout .. (Fanout + 2) : \E order \in Rankings(heirs, n) :
             sequenceQueue' \in QueuesFrom(WithPage(it, resp, c), order, NextChain(c), resp.ids, g)
    BY <1>3 DEF QueueNext
  <2>5. PICK order \in Rankings(heirs, n) :
             sequenceQueue' \in QueuesFrom(WithPage(it, resp, c), order, NextChain(c), resp.ids, g)
    BY <2>1
  <2>2. heirs \subseteq target.grammar
    BY DEF Consumers, Followups
  <2>3. IsFiniteSet(heirs)
    <3>1. IsFiniteSet(target.grammar)
      BY TargetsAssumption DEF ObjectsOK
    <3> HIDE DEF heirs
    <3> QED
      BY <2>2, <3>1, FS_Subset
  <2> HIDE DEF heirs
  <2>4. order \in Seq(target.grammar)
    BY <2>2, <2>3, RankingsType
  <2> QED
    BY <1>1, <2>4, <2>5, QueuesWait
<1> QED
  BY <1>2, <1>3

-----------------------------------------------------------------------------
(* The server: objects come, and are marked as deleted, but none goes; and an answer *)
(* that was misleading remains one.                                                  *)

Grows ==
    /\ ObjectsOK /\ ObjectsOK' /\ target' = target /\ (tidy' => tidy)
    /\ DOMAIN objects \subseteq DOMAIN objects'
    /\ \A k \in DOMAIN objects : objects'[k].parent = objects[k].parent

\* A set that is closed afterwards was closed before, as far as it existed.
LEMMA ClosedBefore ==
    ASSUME Grows, NEW D, Closed(D)'
    PROVE  Closed(D \cap DOMAIN objects)
<1> SUFFICES ASSUME NEW x \in D \cap DOMAIN objects
             PROVE  objects[x].parent \in (D \cap DOMAIN objects) \cup {NoKey}
  BY DEF Closed
<1>1. objects'[x].parent = objects[x].parent
  BY DEF Grows
<1>2. objects'[x].parent \in D \cup {NoKey}
  BY DEF Closed
<1>3. objects[x].parent \in DOMAIN objects \cup {NoKey}
  BY DEF Grows, ObjectsOK
<1> QED
  BY <1>1, <1>2, <1>3

\* What lay inside a resource stays there.
LEMMA InsideGrows ==
    ASSUME Grows, NEW k \in DOMAIN objects, NEW c, Inside(k, c)
    PROVE  Inside(k, c)'
<1> SUFFICES ASSUME NEW D \in SUBSET DOMAIN objects', Closed(D)', k \in D PROVE c \in D
  BY DEF Inside
<1>1. Closed(D \cap DOMAIN objects)
  BY ClosedBefore
<1> QED
  BY <1>1 DEF Inside

\* So the graph stays true while the server goes on.
LEMMA GraphGrows ==
    ASSUME Grows, NEW S, NEW D, NEW g, GraphOK(g, S, D)
    PROVE  GraphOK(g, S, D)'
<1>1. ASSUME NEW k \in DOMAIN g.inst PROVE Faithful(g.inst[k], k, D)'
  <2>1. Faithful(g.inst[k], k, D)
    BY DEF GraphOK
  <2>2. ASSUME tidy'
        PROVE  /\ k \in DOMAIN objects'
               /\ g.inst[k].parent \in {NoKey, objects'[k].parent}
               /\ g.inst[k].tenant # NoKey => Inside(k, g.inst[k].tenant)'
    <3>1. /\ k \in DOMAIN objects
          /\ g.inst[k].parent \in {NoKey, objects[k].parent}
          /\ g.inst[k].tenant # NoKey => Inside(k, g.inst[k].tenant)
      BY <2>1, <2>2 DEF Grows, Faithful
    <3>2. k \in DOMAIN objects' /\ objects'[k].parent = objects[k].parent
      BY <3>1 DEF Grows
    <3>3. g.inst[k].tenant # NoKey => Inside(k, g.inst[k].tenant)'
      BY <3>1, InsideGrows
    <3> QED
      BY <3>1, <3>2, <3>3
  <2> QED
    BY <2>1, <2>2 DEF Faithful
<1> QED
  BY <1>1 DEF GraphOK

LEMMA RootedGrows ==
    ASSUME Grows, NEW ks, Rooted(ks, objects)
    PROVE  Rooted(ks, objects')
BY DEF Grows, Rooted

\* What an answer tells of stays there until it is handled.
LEMMA TidyGrows ==
    ASSUME Grows, NEW it, NEW resp, Tidy(it, resp, objects)
    PROVE  Tidy(it, resp, objects)'
<1>1. \A k \in Range(resp.named) : k \in DOMAIN objects'
  BY DEF Grows, Tidy
<1>2. \A said : Sure(said)' = Sure(said)
  BY DEF Grows, Sure
<1>3. \A all \in {resp.told, Queried(it)} \cup {u.query : u \in Range(resp.uris)} :
          \A said \in Range(all) : Sure(said)' => Meant(it, said) \in DOMAIN objects'
  <2> SUFFICES ASSUME NEW all \in {resp.told, Queried(it)} \cup {u.query : u \in Range(resp.uris)},
                      NEW said \in Range(all), Sure(said)'
               PROVE  Meant(it, said) \in DOMAIN objects'
    OBVIOUS
  <2>1. Sure(said)
    BY <1>2
  <2>2. Meant(it, said) \in DOMAIN objects
    BY <2>1 DEF Tidy
  <2> QED
    BY <2>2 DEF Grows
<1>4. \A u \in Range(resp.uris) :
          Rooted(u.route, objects') /\ (u.route # <<>> => u.rel \in {None, Last(u.route)[1]})
  <2>1. \A u \in Range(resp.uris) :
          Rooted(u.route, objects) /\ (u.route # <<>> => u.rel \in {None, Last(u.route)[1]})
    BY DEF Tidy
  <2> QED
    BY <2>1, RootedGrows
<1>5. \A i, j \in DOMAIN resp.uris :
          i # j /\ resp.uris[i].group = resp.uris[j].group =>
              \A k \in Range(resp.uris[i].route), l \in Range(resp.uris[j].route) : k[1] = l[1]
  BY DEF Tidy
<1> QED
  BY <1>1, <1>3, <1>4, <1>5 DEF Tidy

\* A request's answer stays ready to be handled.
LEMMA ReadyGrows ==
    ASSUME Grows, NEW it, NEW resp, Ready(it, resp)
    PROVE  Ready(it, resp)'
<1>1. AnswerOK(resp)' /\ Rooted(Keys(it.tmpl.path, it.ids), objects')
  BY RootedGrows DEF Ready, AnswerOK
<1>2. tidy' => Tidy(it, resp, objects)'
  BY TidyGrows DEF Grows, Ready
<1> QED
  BY <1>1, <1>2 DEF Ready

LEMMA WaitsGrows ==
    ASSUME Grows, NEW it, Waits(it)
    PROVE  Waits(it)'
<1>1. it.tmpl \in target'.grammar
  BY DEF Waits, Grows
<1>2. ASSUME tidy'
      PROVE  /\ it.pick \in DOMAIN objects' \cup {NoKey}
             /\ it.pick # NoKey /\ it.chain.tenant # NoKey => Inside(it.pick, it.chain.tenant)'
  BY <1>2, InsideGrows DEF Waits, Grows
<1> QED
  BY <1>1, <1>2 DEF Waits

LEMMA TravelsGrows ==
    ASSUME Grows, NEW r, Travels(r)
    PROVE  Travels(r)'
<1>1. r.item.tmpl \in target.grammar /\ target' = target
  BY DEF Travels, Grows
<1>2. r.resp = None \/ (r.resp.ok => Ready(r.item, r.resp)')
  BY ReadyGrows DEF Travels
<1> QED
  BY <1>1, <1>2 DEF Travels

LEMMA QueueGrows ==
    ASSUME Grows, NEW q, Queue(q)
    PROVE  Queue(q)'
BY WaitsGrows DEF Queue

LEMMA FlightGrows ==
    ASSUME Grows, NEW q, Flight(q)
    PROVE  Flight(q)'
BY TravelsGrows DEF Flight

-----------------------------------------------------------------------------
(* The server's answers.                                                   *)

Fields == {"ok", "ids", "uris", "named", "told", "cursor"}
WellMade(r) == DOMAIN r = Fields /\ AnswerOK(r)

LEMMA Successes ==
    /\ DOMAIN Success = Fields
    /\ Success.uris = <<>> /\ Success.named = <<>> /\ Success.told = <<>>
BY DEF Success, Refused, Fields

LEMMA LinkOK ==
    ASSUME NEW group \in Types \cup {"Location", "Content-Location", "Link", "self", "Set-Cookie"},
           NEW rel \in Labels, NEW route \in Seq(Types \X Int)
    PROVE  Link(group, rel, route) \in Uris
<1>1. <<>> \in Seq(Labels \X Int)
  OBVIOUS
<1> QED
  BY <1>1 DEF Link, Uris

\* A route is its front and its last resource.
LEMMA FrontAndLast ==
    ASSUME NEW S, NEW s \in Seq(S), s # <<>>
    PROVE  Front(s) \in Seq(S) /\ Append(Front(s), Last(s)) = s
<1>1. PICK n \in Nat \ {0} : n = Len(s)
  OBVIOUS
<1>2. /\ Front(s) \in Seq(S) /\ Len(Front(s)) = n - 1
      /\ \A i \in 1 .. n - 1 : Front(s)[i] = s[i]
  BY <1>1 DEF Front
<1>3. Last(s) = s[n] /\ s[n] \in S
  BY <1>1 DEF Last
<1> DEFINE q == Append(Front(s), Last(s))
<1>4. q \in Seq(S) /\ Len(q) = n /\ \A i \in 1 .. n : q[i] = s[i]
  <2>1. q \in Seq(S) /\ Len(q) = n /\ q[n] = Last(s) /\ \A i \in 1 .. n - 1 : q[i] = Front(s)[i]
    BY <1>2, <1>3
  <2> HIDE DEF q
  <2>2. \A i \in 1 .. n : i = n \/ i \in 1 .. n - 1
    OBVIOUS
  <2> QED
    BY <1>2, <1>3, <2>1, <2>2
<1> HIDE DEF q
<1>5. q = s
  BY <1>1, <1>4
<1> QED
  BY <1>2, <1>5 DEF q

\* The styles in which a server may tell of a resource.
LEMMA ToldOK ==
    ASSUME ObjectsOK, NEW ks \in Seq(Types \X Int), NEW k \in Types \X Int
    PROVE  WellMade(Told(ks, k))
<1> DEFINE route == Append(ks, k)
           r == Told(ks, k)
           said == <<<<None, k[2]>>>>
<1>1. target.style \in {"echo", "location", "hal", "jsonapi"}
  BY TargetsAssumption DEF ObjectsOK
<1>2. route \in Seq(Types \X Int)
  OBVIOUS
<1>3. None \in Labels /\ k[2] \in Int
  BY DEF Labels
<1>4. /\ <<>> \in Seq(Uris) /\ <<>> \in Seq(Types \X Int) /\ <<>> \in Seq(Labels \X Int)
      /\ <<k>> \in Seq(Types \X Int)
  OBVIOUS
<1>5. said \in Seq(Labels \X Int)
  <2>1. <<None, k[2]>> \in Labels \X Int
    BY <1>3
  <2> QED
    BY <2>1
<1>6. <<Link("Location", None, route)>> \in Seq(Uris) /\ <<Link("self", None, route)>> \in Seq(Uris)
  <2>1. Link("Location", None, route) \in Uris /\ Link("self", None, route) \in Uris
    <3> HIDE DEF route
    <3> QED
      BY <1>2, <1>3, LinkOK
  <2> QED
    BY <2>1
<1>7. /\ DOMAIN r = Fields
      /\ r.uris \in {<<>>, <<Link("Location", None, route)>>, <<Link("self", None, route)>>}
      /\ r.named \in {<<>>, <<k>>} /\ r.told \in {<<>>, said}
  <2> HIDE DEF route, said
  <2>1. CASE target.style = "echo"
    BY <2>1, Successes DEF Told, Fields, said
  <2>2. CASE target.style = "location"
    BY <2>2, Successes DEF Told, Fields, route
  <2>3. CASE target.style = "hal"
    BY <2>3, Successes DEF Told, Fields, route
  <2>4. CASE target.style = "jsonapi"
    BY <2>4, Successes DEF Told, Fields, said
  <2> QED
    BY <1>1, <2>1, <2>2, <2>3, <2>4
<1> HIDE DEF r, route, said
<1> QED
  BY <1>4, <1>5, <1>6, <1>7 DEF r, WellMade, AnswerOK

\* A list, as one link to each item or as its ids.
LEMMA ListedOK ==
    ASSUME ObjectsOK, NEW ks \in Seq(Types \X Int), NEW type \in Types, NEW ids \in Seq(Int),
           NEW cursor \in Int \cup {None}
    PROVE  WellMade(Listed(ks, type, ids, cursor))
<1> DEFINE each == [i \in DOMAIN ids |-> <<type, ids[i]>>]
           next == IF cursor = None THEN <<>> ELSE <<<<None, cursor>>>>
           page == [Success EXCEPT !.cursor = cursor, !.told = next]
           links == [i \in DOMAIN ids |-> Link(type, type, Append(ks, each[i]))]
           said == [i \in DOMAIN ids |-> <<None, ids[i]>>]
           r == Listed(ks, type, ids, cursor)
<1>1. PICK n \in Nat : n = Len(ids) /\ DOMAIN ids = 1 .. n
  OBVIOUS
<1>2. \A i \in 1 .. n : ids[i] \in Int
  BY <1>1
<1>3. each \in Seq(Types \X Int)
  <2>1. each \in [1 .. n -> Types \X Int]
    BY <1>1, <1>2
  <2> QED
    BY <2>1
<1>4. next \in Seq(Labels \X Int)
  <2>1. CASE cursor = None
    BY <2>1
  <2>2. CASE cursor # None
    <3>1. <<None, cursor>> \in Labels \X Int
      BY <2>2 DEF Labels
    <3> QED
      BY <2>2, <3>1
  <2> QED
    BY <2>1, <2>2
<1>5. said \o next \in Seq(Labels \X Int)
  <2>1. said \in [1 .. n -> Labels \X Int]
    BY <1>1, <1>2 DEF Labels
  <2>2. said \in Seq(Labels \X Int)
    BY <2>1
  <2> HIDE DEF said, next
  <2> QED
    BY <1>4, <2>2
<1>6. links \in Seq(Uris)
  <2>1. ASSUME NEW i \in 1 .. n PROVE Link(type, type, Append(ks, each[i])) \in Uris
    <3>1. each[i] \in Types \X Int
      BY <1>1, <1>2
    <3>2. Append(ks, each[i]) \in Seq(Types \X Int)
      <4> HIDE DEF each
      <4> QED
        BY <3>1
    <3>3. type \in Labels
      BY DEF Labels
    <3> HIDE DEF each
    <3> QED
      BY <3>2, <3>3, LinkOK
  <2> HIDE DEF each
  <2>2. links \in [1 .. n -> Uris]
    BY <1>1, <2>1
  <2> QED
    BY <2>2
<1>7. /\ DOMAIN page = Fields /\ page.uris = <<>> /\ page.named = <<>> /\ page.told = next
  <2> HIDE DEF next
  <2> QED
    BY Successes DEF Fields
<1>8. r = IF target.style = "hal" THEN [page EXCEPT !.uris = links]
          ELSE [page EXCEPT !.ids = ids, !.told = said \o page.told,
                            !.named = IF target.style = "jsonapi" THEN each ELSE <<>>]
  <2>1. page = [Success EXCEPT !.cursor = cursor,
                  !.told = IF cursor = None THEN <<>> ELSE <<<<None, cursor>>>>]
    OBVIOUS
  <2> HIDE DEF page
  <2> QED
    BY <2>1 DEF Listed
<1> HIDE DEF page, links, said, next, each, r
<1>9. <<>> \in Seq(Uris) /\ <<>> \in Seq(Types \X Int)
  OBVIOUS
<1>10. CASE target.style = "hal"
  <2>1. DOMAIN r = Fields /\ r.uris = links /\ r.named = <<>> /\ r.told = next
    BY <1>7, <1>8, <1>10 DEF Fields
  <2> QED
    BY <1>4, <1>6, <1>9, <2>1 DEF r, WellMade, AnswerOK
<1>11. CASE target.style # "hal"
  <2>1. DOMAIN r = Fields /\ r.uris = <<>> /\ r.named \in {<<>>, each} /\ r.told = said \o next
    BY <1>7, <1>8, <1>11 DEF Fields
  <2> QED
    BY <1>3, <1>5, <1>9, <2>1 DEF r, WellMade, AnswerOK
<1> QED
  BY <1>10, <1>11

\* The ids of a list.
LEMMA AscendingInts ==
    ASSUME ObjectsOK, NEW type, NEW parent, NEW ids \in Ascending(Children(type, parent))
    PROVE  ids \in Seq(Int)
<1> DEFINE C == Children(type, parent)
<1>1. C \subseteq 1 .. MaxObjects
  BY DEF Children, ObjectsOK, Resources
<1>2. ids \in [1 .. Cardinality(C) -> C]
  BY DEF Ascending
<1> HIDE DEF C
<1>3. Cardinality(C) \in Nat
  <2>1. IsFiniteSet(1 .. MaxObjects)
    BY Constants, FS_Interval
  <2> QED
    BY <1>1, <2>1, FS_Subset, FS_CardinalityType
<1>4. PICK n \in Nat : n = Cardinality(C)
  BY <1>3
<1>5. C \subseteq Int
  BY <1>1, Constants
<1>6. ids \in [1 .. n -> Int]
  BY <1>2, <1>4, <1>5
<1> QED
  BY <1>6

\* What else is said is of the same kind.
LEMMA BesideOK ==
    ASSUME ObjectsOK, NEW r, WellMade(r), NEW a \in target.asides, NEW b \in Beside(r, a)
    PROVE  AnswerOK(b)
<1>1. PICK p \in {<<r, a>>, <<a, r>>} :
         b = [r EXCEPT !.uris = p[1].uris \o p[2].uris, !.named = p[1].named \o p[2].named,
                       !.told = p[1].told \o p[2].told]
  BY DEF Beside
<1>2. /\ b.uris = p[1].uris \o p[2].uris /\ b.named = p[1].named \o p[2].named
      /\ b.told = p[1].told \o p[2].told
  BY <1>1 DEF WellMade, Fields
<1>3. AnswerOK(r) /\ AnswerOK(a)
  BY TargetsAssumption DEF WellMade, AnswerOK, ObjectsOK
<1>4. AnswerOK(p[1]) /\ AnswerOK(p[2])
  BY <1>3
<1>5. PICK x, y : x = p[1] /\ y = p[2] /\ AnswerOK(x) /\ AnswerOK(y)
  BY <1>4
<1>6. /\ x.uris \o y.uris \in Seq(Uris) /\ x.named \o y.named \in Seq(Types \X Int)
      /\ x.told \o y.told \in Seq(Labels \X Int)
  BY <1>5 DEF AnswerOK
<1> QED
  BY <1>2, <1>5, <1>6 DEF AnswerOK

\* An answer is ready to be handled: its request was of what is there, and it is tidy,
\* unless one never was.
LEMMA OutcomesReady ==
    ASSUME ObjectsOK, NEW it, it.tmpl \in target.grammar, NEW o \in Outcomes(it),
           target' = target, objects' = o.objects,
           tidy' = (tidy /\ (o.resp.ok => Tidy(it, o.resp, o.objects)))
    PROVE  Grows /\ (o.resp.ok => Ready(it, o.resp)')
<1> DEFINE t == it.tmpl
           ks == Keys(t.path, it.ids)
           refused == \/ ~Reachable(ks)
                      \/ t.method = "POST" /\ Unused(t.coll) = {}
           Leaving(r, os) == {[resp |-> b, objects |-> os] :
                                 b \in UNION {Beside(r, a) : a \in target.asides}}
<1>0. /\ t.method \in {"POST", "GET", "PUT", "DELETE"}
      /\ t.path \in Seq(Types) /\ t.coll \in Labels
      /\ t.method = "POST" => t.coll # None
      /\ t.method \in {"PUT", "DELETE"} => t.coll = None
      /\ t.coll = None => t.path # <<>>
  BY TargetsAssumption DEF ObjectsOK
<1>00. tidy' => tidy /\ (o.resp.ok => Tidy(it, o.resp, o.objects))
  OBVIOUS
<1>1. ASSUME objects' = objects PROVE Grows
  BY <1>00, <1>1 DEF Grows, ObjectsOK
<1>2. CASE refused
  <2>1. o = [resp |-> Refused, objects |-> objects]
    BY <1>2 DEF Outcomes
  <2> QED
    BY <1>1, <2>1 DEF Refused
<1>3. CASE ~refused
  <2>1. Rooted(ks, objects)
    BY <1>3 DEF Reachable
  <2>2. /\ ks \in Seq(Types \X Int) /\ DOMAIN ks = DOMAIN t.path
        /\ \A i \in DOMAIN ks : ks[i] \in DOMAIN objects
    <3>1. PICK n \in Nat : DOMAIN t.path = 1 .. n
      BY <1>0
    <3>2. DOMAIN ks = 1 .. n /\ ks = [i \in 1 .. n |-> ks[i]]
      BY <3>1 DEF Keys
    <3>3. \A i \in 1 .. n : ks[i] \in DOMAIN objects
      BY <2>1, <3>2 DEF Rooted
    <3>4. \A i \in 1 .. n : ks[i] \in Types \X Int
      <4>1. DOMAIN objects \subseteq Types \X Int
        BY Constants DEF ObjectsOK, Resources
      <4> QED
        BY <3>3, <4>1
    <3> HIDE DEF ks
    <3>5. ks \in [1 .. n -> Types \X Int]
      BY <3>2, <3>4
    <3> QED
      BY <3>1, <3>2, <3>3, <3>5, SeqDef
  <2>3. ks # <<>> => Last(ks) \in DOMAIN objects /\ Last(ks) \in Types \X Int
    <3> HIDE DEF ks
    <3> SUFFICES ASSUME ks # <<>> PROVE Last(ks) \in DOMAIN objects /\ Last(ks) \in Types \X Int
      OBVIOUS
    <3>1. Len(ks) \in DOMAIN ks
      BY <2>2
    <3> QED
      BY <2>2, <3>1 DEF Last
  <2>30. t.coll = None => ks # <<>>
    <3>1. t.coll = None => Len(t.path) \in DOMAIN t.path
      BY <1>0
    <3> HIDE DEF ks
    <3> QED
      BY <2>2, <3>1
  <2> HIDE DEF ks
  <2>10. ASSUME NEW r, WellMade(r), NEW os, o \in Leaving(r, os)
         PROVE  o.objects = os /\ AnswerOK(o.resp)
    <3>1. PICK b \in UNION {Beside(r, a) : a \in target.asides} : o = [resp |-> b, objects |-> os]
      BY <2>10
    <3>2. PICK a \in target.asides : b \in Beside(r, a)
      BY <3>1
    <3>3. AnswerOK(b)
      BY <2>10, <3>2, BesideOK
    <3> QED
      BY <3>1, <3>3
  <2> HIDE DEF Leaving
  <2>11. ASSUME Grows, AnswerOK(o.resp) PROVE Ready(it, o.resp)'
         \/ ~o.resp.ok
    <3> SUFFICES ASSUME o.resp.ok PROVE Ready(it, o.resp)'
      OBVIOUS
    <3>1. Rooted(ks, objects')
      BY <2>1, <2>11, RootedGrows
    <3>2. PICK resp, os : resp = o.resp /\ os = o.objects
      OBVIOUS
    <3>3. tidy' => Tidy(it, resp, os)
      BY <1>00, <3>2
    <3>4. Tidy(it, resp, os) => Tidy(it, resp, objects')
      BY <3>2
    <3>5. \A said : Sure(said)' = Sure(said)
      BY DEF Sure
    <3>6. Tidy(it, resp, objects') => Tidy(it, resp, objects)'
      BY <3>5 DEF Tidy
    <3>7. AnswerOK(resp)'
      BY <2>11, <3>2 DEF AnswerOK
    <3>8. Ready(it, resp)'
      BY <3>1, <3>3, <3>4, <3>6, <3>7 DEF Ready, ks
    <3> QED
      BY <3>2, <3>8
  <2>4. CASE t.method = "POST"
    <3>1. PICK k \in {t.coll} \X Fresh(t.coll) :
             o \in Leaving(Told(ks, k), With(objects, k, [parent |-> Holder(ks), live |-> TRUE]))
      <4>1. Outcomes(it) = UNION {Leaving(Told(ks, k),
                                    With(objects, k, [parent |-> Holder(ks), live |-> TRUE])) :
                                    k \in {t.coll} \X Fresh(t.coll)}
        BY <1>3, <2>4 DEF Outcomes, ks, Leaving
      <4> QED
        BY <4>1, Zenon
    <3>20. o.objects = With(objects, k, [parent |-> Holder(ks), live |-> TRUE]) /\ AnswerOK(o.resp)
      <4>1. k \in Types \X Int
        BY <1>0, <2>4, <3>1, Constants DEF Fresh, Unused, Labels
      <4>2. WellMade(Told(ks, k))
        BY <2>2, <4>1, ToldOK
      <4> QED
        BY <2>10, <3>1, <4>2
    <3>2. k \in Resources /\ k \notin DOMAIN objects 
      BY <1>0, <2>4, <3>1 DEF Fresh, Unused, Resources, Labels
    <3>3. Holder(ks) \in DOMAIN objects \cup {NoKey}
      BY <2>2, <2>3 DEF Holder, Last
    <3>4. /\ DOMAIN objects' = DOMAIN objects \cup {k}
          /\ objects'[k] = [parent |-> Holder(ks), live |-> TRUE]
          /\ \A x \in DOMAIN objects : objects'[x] = objects[x]
          /\ objects' = [x \in DOMAIN objects' |-> objects'[x]]
      BY <3>2, <3>20 DEF With
    <3>5. ObjectsOK'
      <4>1. ASSUME NEW x \in DOMAIN objects'
            PROVE  objects'[x] \in [parent : DOMAIN objects' \cup {NoKey}, live : BOOLEAN]
        <5>1. CASE x = k
          <6>1. Holder(ks) \in DOMAIN objects'  \cup {NoKey}
            BY <3>3, <3>4
          <6>2. [parent |-> Holder(ks), live |-> TRUE]
                  \in [parent : DOMAIN objects' \cup {NoKey}, live : BOOLEAN]
            BY <6>1
          <6> QED
            BY <3>4, <5>1, <6>2
        <5>2. CASE x \in DOMAIN objects
          <6>1. objects[x] \in [parent : DOMAIN objects \cup {NoKey}, live : BOOLEAN]
            BY <5>2 DEF ObjectsOK
          <6> QED
            BY <3>4, <5>2, <6>1
        <5> QED
          BY <3>4, <5>1, <5>2
      <4> QED
        BY <3>2, <3>4, <4>1 DEF ObjectsOK
    <3>6. Grows
      BY <1>00, <3>4, <3>5 DEF Grows
    <3> QED
      BY <2>11, <3>6, <3>20
  <2>5. CASE t.method = "GET" /\ t.coll # None
    <3>1. PICK told \in Ascending(Children(t.coll, Holder(ks))), m \in target.paged :
             o \in Leaving(Listed(ks, t.coll, told, m), objects)
      <4>1. Outcomes(it) = UNION {Leaving(Listed(ks, t.coll, ids, m), objects) :
                             ids \in Ascending(Children(t.coll, Holder(ks))), m \in target.paged}
        BY <1>3, <2>5 DEF Outcomes, ks, Leaving
      <4>2. o \in UNION {Leaving(Listed(ks, t.coll, ids, m), objects) :
                             ids \in Ascending(Children(t.coll, Holder(ks))), m \in target.paged}
        BY <4>1
      <4> QED
        BY <4>2
    <3>2. told \in Seq(Int)
      BY <3>1, AscendingInts
    <3>3. t.coll \in Types /\ m \in Int \cup {None}
      BY <1>0, <2>5, TargetsAssumption DEF Labels, ObjectsOK
    <3>4. WellMade(Listed(ks, t.coll, told, m))
      BY <2>2, <3>2, <3>3, ListedOK
    <3>5. o.objects = objects /\ AnswerOK(o.resp)
      BY <2>10, <3>1, <3>4
    <3> QED
      BY <1>1, <2>11, <3>5
  <2>6. CASE t.method = "DELETE"
    <3>1. o \in Leaving(Success, [objects EXCEPT ![Last(ks)].live = FALSE])
      <4>1. Outcomes(it) = Leaving(Success, [objects EXCEPT ![Last(ks)].live = FALSE])
        BY <1>3, <2>6 DEF Outcomes, ks, Leaving
      <4> QED
        BY <4>1
    <3>2. t.coll = None
      BY <1>0, <2>6
    <3>20. WellMade(Success)
      <4>1. <<>> \in Seq(Uris) /\ <<>> \in Seq(Types \X Int) /\ <<>> \in Seq(Labels \X Int)
        OBVIOUS
      <4> QED
        BY <4>1, Successes DEF WellMade, AnswerOK
    <3>21. o.objects = [objects EXCEPT ![Last(ks)].live = FALSE] /\ AnswerOK(o.resp)
      BY <2>10, <3>1, <3>20
    <3>3. /\ DOMAIN objects' = DOMAIN objects
          /\ \A x \in DOMAIN objects : objects'[x].parent = objects[x].parent
          /\ objects' \in [DOMAIN objects -> [parent : DOMAIN objects \cup {NoKey}, live : BOOLEAN]]
      <4>1. objects \in [DOMAIN objects -> [parent : DOMAIN objects \cup {NoKey}, live : BOOLEAN]]
        BY DEF ObjectsOK
      <4>2. Last(ks) \in DOMAIN objects
        BY <2>3, <2>30, <3>2
      <4>3. PICK l \in DOMAIN objects : l = Last(ks)
        BY <4>2
      <4>4. objects' = [objects EXCEPT ![l].live = FALSE]
        BY <3>21, <4>3
      <4>5. [objects[l] EXCEPT !.live = FALSE] \in [parent : DOMAIN objects \cup {NoKey}, live : BOOLEAN]
            /\ [objects[l] EXCEPT !.live = FALSE].parent = objects[l].parent
        BY <4>1
      <4> QED
        BY <4>1, <4>4, <4>5
    <3>4. ObjectsOK'
      BY <3>3 DEF ObjectsOK
    <3>5. Grows
      BY <1>00, <3>3, <3>4 DEF Grows
    <3> QED
      BY <2>11, <3>5, <3>21
  <2>7. CASE t.method \in {"GET", "PUT"} /\ t.coll = None
    <3>1. o \in Leaving(IF target.style = "location" THEN Success
                        ELSE Told(Front(ks), Last(ks)), objects)
      BY <1>3, <2>7 DEF Outcomes, ks, Leaving
    <3>2. Front(ks) \in Seq(Types \X Int) /\ Last(ks) \in Types \X Int
      BY <2>2, <2>3, <2>30, <2>7, FrontAndLast
    <3>3. WellMade(Told(Front(ks), Last(ks))) /\ WellMade(Success)
      <4>1. <<>> \in Seq(Uris) /\ <<>> \in Seq(Types \X Int) /\ <<>> \in Seq(Labels \X Int)
        OBVIOUS
      <4> QED
        BY <3>2, <4>1, Successes, ToldOK DEF WellMade, AnswerOK
    <3>4. o.objects = objects /\ AnswerOK(o.resp)
      <4>1. PICK r : o \in Leaving(r, objects) /\ WellMade(r)
        BY <3>1, <3>3
      <4> QED
        BY <2>10, <4>1
    <3> QED
      BY <1>1, <2>11, <3>4
  <2> QED
    BY <1>0, <2>4, <2>5, <2>6, <2>7
<1> QED
  BY <1>2, <1>3

-----------------------------------------------------------------------------
(* The steps.                                                              *)

LEMMA FlightAppend ==
    ASSUME NEW q, Flight(q), NEW r, Travels(r)
    PROVE  Flight(Append(q, r))
<1>1. PICK S : q \in Seq(S) /\ \A x \in S : Travels(x)
  BY DEF Flight
<1>2. q \in Seq(S \cup {r}) /\ \A x \in S \cup {r} : Travels(x)
  BY <1>1
<1>3. Append(q, r) \in Seq(S \cup {r})
  BY <1>2
<1> QED
  BY <1>2, <1>3 DEF Flight

LEMMA FlightRemove ==
    ASSUME NEW q, Flight(q), NEW i \in DOMAIN q
    PROVE  Flight(RemoveAt(q, i))
<1>1. PICK S : q \in Seq(S) /\ \A x \in S : Travels(x)
  BY DEF Flight
<1>2. PICK n \in Nat : n = Len(q) /\ i \in 1 .. n
  BY <1>1
<1>3. SubSeq(q, 1, i - 1) \in Seq(S)
  BY <1>1, <1>2
<1>4. SubSeq(q, i + 1, n) \in Seq(S)
  BY <1>1, <1>2
<1>5. RemoveAt(q, i) \in Seq(S)
  BY <1>2, <1>3, <1>4 DEF RemoveAt
<1> QED
  BY <1>1, <1>5 DEF Flight

\* The graph of a new run.
LEMMA EmptyGraphOK == GraphOK(EmptyGraph, {}, {})
<1> DEFINE g == EmptyGraph
<1>1. /\ g = [inst |-> g.inst, byType |-> g.byType, recent |-> g.recent]
      /\ g.inst = <<>> /\ g.recent = <<>> /\ g.byType = [t \in Types |-> <<>>]
  BY DEF EmptyGraph
<1>2. /\ DOMAIN g.inst = {} /\ DOMAIN g.recent = {} /\ g.inst = [k \in DOMAIN g.inst |-> g.inst[k]]
      /\ g.recent \in Seq({}) /\ g.byType \in [Types -> Seq({})]
  BY <1>1
<1>3. IndexOK(g)
  <2>1. Range(g.recent) = DOMAIN g.inst /\ IsInjective(g.recent)
    BY <1>2 DEF Range, IsInjective
  <2>2. ASSUME NEW t \in Types
        PROVE  /\ Range(g.byType[t]) = {k \in DOMAIN g.inst : k[1] = t}
               /\ IsInjective(g.byType[t]) /\ Len(g.byType[t]) <= MaxPerType
    <3>1. g.byType[t] = <<>> /\ DOMAIN <<>> = {} /\ Len(<<>>) = 0
      BY <1>1
    <3>2. Range(<<>>) = {} /\ IsInjective(<<>>)
      BY DEF Range, IsInjective
    <3> QED
      BY <1>2, <3>1, <3>2, Constants
  <2> QED
    BY <2>1, <2>2 DEF IndexOK
<1> HIDE DEF g
<1>4. GraphOK(g, {}, {})
  BY <1>1, <1>2, <1>3 DEF GraphOK
<1> QED
  BY <1>4 DEF g

LEMMA InitIInv == Init => IInv
<1> SUFFICES ASSUME Init PROVE IInv
  OBVIOUS
<1>1. ObjectsOK
  <2>1. target.roots \subseteq Resources
    BY TargetsAssumption DEF Init
  <2>2. objects \in [target.roots -> [parent : target.roots \cup {NoKey}, live : BOOLEAN]]
    BY DEF Init
  <2> QED
    BY <2>1, <2>2 DEF Init, ObjectsOK
<1>2. Sound(graph, deletions)
  <2>1. Typed({})
    BY DEF Typed
  <2> QED
    BY <2>1, EmptyGraphOK DEF Init, Sound
<1>3. Flight(flight) /\ Queue(sequenceQueue)
  <2>1. <<>> \in Seq({})
    OBVIOUS
  <2>2. (\A r \in {} : Travels(r)) /\ (\A x \in {} : Waits(x))
    OBVIOUS
  <2>3. \A q : q \in Seq({}) => Flight(q) /\ Queue(q)
    <3> TAKE q
    <3> HAVE q \in Seq({})
    <3>1. Flight(q)
      <4> SUFFICES \E S : q \in Seq(S) /\ \A r \in S : Travels(r)
        BY DEF Flight
      <4> WITNESS {}
      <4> QED
        OBVIOUS
    <3>2. Queue(q)
      <4> SUFFICES \E S : q \in Seq(S) /\ \A x \in S : Waits(x)
        BY DEF Queue
      <4> WITNESS {}
      <4> QED
        OBVIOUS
    <3> QED
      BY <3>1, <3>2
  <2> QED
    BY <2>1, <2>3 DEF Init
<1> QED
  BY <1>1, <1>2, <1>3 DEF IInv

\* What a step of the fuzzer leaves is judged by the objects as they were.
LEMMA Stays ==
    ASSUME ObjectsOK, target' = target, objects' = objects, tidy' = tidy,
           Sound(graph', deletions'), Flight(flight'), Queue(sequenceQueue')
    PROVE  IInv'
<1>1. Grows
  BY DEF Grows, ObjectsOK
<1>2. PICK g, D, fl, q : g = graph' /\ D = deletions' /\ fl = flight' /\ q = sequenceQueue'
  OBVIOUS
<1>3. PICK S : Typed(S) /\ GraphOK(g, S, D)
  BY <1>2 DEF Sound
<1>4. GraphOK(g, S, D)' /\ Flight(fl)' /\ Queue(q)'
  BY <1>1, <1>2, <1>3, GraphGrows, FlightGrows, QueueGrows
<1>5. Sound(g, D)'
  BY <1>3, <1>4 DEF Sound, Typed
<1>6. Sound(graph, deletions)' /\ Flight(flight)' /\ Queue(sequenceQueue)'
  BY <1>2, <1>4, <1>5
<1> QED
  BY <1>1, <1>6 DEF IInv, Grows

LEMMA SendSeedKeeps ==
    ASSUME IInv, SendSeed
    PROVE  IInv'
<1>1. PICK t, ids, q : t \in target.grammar /\
         flight' = Append(flight, InFlight(Item(t, ids, q, 0, NoChain, NoKey)))
  BY DEF SendSeed
<1>2. Travels(InFlight(Item(t, ids, q, 0, NoChain, NoKey)))
  BY <1>1 DEF Travels, InFlight, Item
<1>3. Flight(flight')
  BY <1>1, <1>2, FlightAppend DEF IInv
<1> QED
  BY <1>3, Stays DEF IInv, SendSeed

LEMMA SendQueuedKeeps ==
    ASSUME IInv, SendQueued
    PROVE  IInv'
<1>1. PICK S : sequenceQueue \in Seq(S) /\ \A x \in S : Waits(x)
  BY DEF IInv, Queue
<1>2. /\ Head(sequenceQueue) \in S /\ Tail(sequenceQueue) \in Seq(S)
  BY <1>1 DEF SendQueued
<1>3. Travels(InFlight(Head(sequenceQueue)))
  BY <1>1, <1>2 DEF Waits, Travels, InFlight
<1>4. Flight(flight')
  BY <1>3, FlightAppend DEF IInv, SendQueued
<1>5. Queue(sequenceQueue')
  BY <1>1, <1>2 DEF Queue, SendQueued
<1> QED
  BY <1>4, <1>5, Stays DEF IInv, SendQueued

\* The server's step: objects grow under all that waits and travels.
LEMMA AnswerKeeps ==
    ASSUME IInv, Answer
    PROVE  IInv'
<1>1. PICK i, o : /\ i \in DOMAIN flight /\ o \in Outcomes(flight[i].item)
                  /\ flight' = [flight EXCEPT ![i].resp = o.resp] /\ objects' = o.objects
                  /\ tidy' = (tidy /\ (o.resp.ok => Tidy(flight[i].item, o.resp, o.objects)))
  BY DEF Answer
<1>2. PICK S : flight \in Seq(S) /\ \A r \in S : Travels(r)
  BY DEF IInv, Flight
<1>3. PICK it : it = flight[i].item
  OBVIOUS
<1>4. flight[i] \in S /\ flight[i] = [item |-> it, resp |-> flight[i].resp]
  BY <1>1, <1>2, <1>3 DEF Travels
<1>5. it.tmpl \in target.grammar
  BY <1>2, <1>3, <1>4 DEF Travels
<1>6. Grows /\ (o.resp.ok => Ready(it, o.resp)')
  BY <1>1, <1>3, <1>5, OutcomesReady DEF IInv, Answer
<1> DEFINE r == [item |-> it, resp |-> o.resp]
<1>7. Travels(r)'
  BY <1>5, <1>6 DEF Travels, Grows
<1>8. flight' \in Seq(S \cup {r})
  <2>1. [flight[i] EXCEPT !.resp = o.resp] = r
    BY <1>4
  <2>2. flight' = [flight EXCEPT ![i] = r]
    BY <1>1, <2>1
  <2> HIDE DEF r
  <2>3. flight \in Seq(S \cup {r}) /\ r \in S \cup {r}
    BY <1>2
  <2>4. PICK n \in Nat : n = Len(flight)
    BY <1>2
  <2>6. flight \in [1 .. n -> S \cup {r}] /\ n = Len(flight')
    BY <2>2, <2>3, <2>4
  <2>5. flight' \in [1 .. n -> S \cup {r}]
    BY <2>2, <2>3, <2>6
  <2> QED
    BY <2>5
<1>9. \A x \in S \cup {r} : Travels(x)'
  BY <1>2, <1>6, <1>7, TravelsGrows
<1>10. Flight(flight)'
  BY <1>8, <1>9 DEF Flight
<1>11. PICK g, D, q : g = graph /\ D = deletions /\ q = sequenceQueue
  OBVIOUS
<1>12. PICK S2 : Typed(S2) /\ GraphOK(g, S2, D)
  BY <1>11 DEF IInv, Sound
<1>13. GraphOK(g, S2, D)' /\ Queue(q)'
  BY <1>6, <1>11, <1>12, GraphGrows, QueueGrows DEF IInv
<1>14. g = graph' /\ D = deletions' /\ q = sequenceQueue'
  BY <1>11 DEF Answer
<1>15. Sound(g, D)'
  BY <1>12, <1>13 DEF Sound, Typed
<1>16. Sound(graph, deletions)' /\ Queue(sequenceQueue)'
  BY <1>13, <1>14, <1>15
<1> QED
  BY <1>6, <1>10, <1>16 DEF IInv, Grows

\* The findings that are kept were found.
LEMMA DedupFound ==
    ASSUME NEW old, NEW new, NEW f \in Dedup(old, new), f \notin old
    PROVE  f \in new
<1>1. PICK n \in new :
         f = CHOOSE x \in new : x.tmpl = n.tmpl /\ x.kind = n.kind /\ x.key[1] = n.key[1]
  BY DEF Dedup
<1> QED
  BY <1>1

\* A step of a chain: the graph grows by what the answer tells.
LEMMA ContinueKeeps ==
    ASSUME IInv, NEW it, NEW resp, it.tmpl \in target.grammar, Ready(it, resp), Continue(it, resp)
    PROVE  /\ Sound(graph', deletions') /\ Queue(sequenceQueue')
           /\ \A f \in findings' \ findings : f.key \in deletions
<1>1. \E seq, c : LET s == RecordStep(it, resp, seq)
                  IN /\ graph' = s.graph /\ findings' = Dedup(findings, s.faults)
                     /\ deletions' = (IF it.tmpl.method = "DELETE"
                                      THEN deletions \cup Mentions(it, resp) ELSE deletions)
                     /\ QueueNext(it, resp, c, s.graph)
  BY Zenon DEF Continue
<1>2. PICK S0 : Typed(S0) /\ GraphOK(graph, S0, deletions)
  BY DEF IInv, Sound
<1>3. PICK s, c : /\ \E S : /\ Typed(S)
                            /\ GraphOK(s.graph, S, Condemned(it, Mentions(it, resp)))
                  /\ \A f \in s.faults : f.key \in deletions
                  /\ graph' = s.graph /\ findings' = Dedup(findings, s.faults)
                  /\ deletions' = (IF it.tmpl.method = "DELETE"
                                   THEN deletions \cup Mentions(it, resp) ELSE deletions)
                  /\ QueueNext(it, resp, c, s.graph)
  BY <1>1, <1>2, StepKeeps DEF IInv
<1>4. deletions' = Condemned(it, Mentions(it, resp))
  BY <1>3 DEF Condemned
<1>5. PICK S : Typed(S) /\ GraphOK(s.graph, S, deletions')
  BY <1>3, <1>4
<1>6. Sound(graph', deletions')
  BY <1>3, <1>5 DEF Sound
<1>7. Queue(sequenceQueue')
  BY <1>3, <1>5, QueueKeeps DEF IInv
<1>8. \A f \in findings' \ findings : f.key \in deletions
  BY <1>3, DedupFound
<1> QED
  BY <1>6, <1>7, <1>8

\* What a request that is handled brings.
LEMMA HandleParts ==
    ASSUME IInv, Handle
    PROVE  /\ target' = target /\ objects' = objects /\ tidy' = tidy /\ Flight(flight')
           /\ \/ UNCHANGED <<graph, sequenceQueue, findings, deletions>>
              \/ \E it : AtDepthCap(it)
              \/ \E it, resp : /\ it.tmpl \in target.grammar /\ Ready(it, resp)
                               /\ Continue(it, resp)
<1>1. PICK i \in DOMAIN flight :
         /\ flight[i].resp # None
         /\ flight' = RemoveAt(flight, i)
         /\ \/ UNCHANGED <<graph, sequenceQueue, findings, deletions>>
            \/ flight[i].resp.ok /\ AtDepthCap(flight[i].item)
            \/ flight[i].resp.ok /\ Continue(flight[i].item, flight[i].resp)
  BY DEF Handle
<1>2. Flight(flight')
  BY <1>1, FlightRemove DEF IInv
<1>3. target' = target /\ objects' = objects /\ tidy' = tidy
  BY DEF Handle
<1>4. ASSUME flight[i].resp.ok
      PROVE  flight[i].item.tmpl \in target.grammar /\ Ready(flight[i].item, flight[i].resp)
  <2>1. PICK S : flight \in Seq(S) /\ \A r \in S : Travels(r)
    BY DEF IInv, Flight
  <2>2. Travels(flight[i])
    BY <2>1
  <2> QED
    BY <1>1, <1>4, <2>2 DEF Travels
<1> QED
  BY <1>1, <1>2, <1>3, <1>4

LEMMA HandleKeeps ==
    ASSUME IInv, Handle
    PROVE  IInv'
<1>1. /\ ObjectsOK /\ target' = target /\ objects' = objects /\ tidy' = tidy /\ Flight(flight')
  BY HandleParts DEF IInv
<1>2. CASE UNCHANGED <<graph, sequenceQueue, findings, deletions>>
  BY <1>1, <1>2, Stays DEF IInv
<1>3. CASE \E it : AtDepthCap(it)
  <2>1. UNCHANGED <<graph, sequenceQueue, deletions>>
    BY <1>3 DEF AtDepthCap
  <2> QED
    BY <1>1, <2>1, Stays DEF IInv
<1>4. CASE \E it, resp : /\ it.tmpl \in target.grammar /\ Ready(it, resp)
                         /\ Continue(it, resp)
  <2>1. Sound(graph', deletions') /\ Queue(sequenceQueue')
    BY <1>4, ContinueKeeps
  <2> QED
    BY <1>1, <2>1, Stays
<1> QED
  BY <1>2, <1>3, <1>4, HandleParts

LEMMA Inductive == IInv /\ [Next]_vars => IInv'
<1> SUFFICES ASSUME IInv, [Next]_vars PROVE IInv'
  OBVIOUS
<1>1. CASE SendSeed
  BY <1>1, SendSeedKeeps
<1>2. CASE SendQueued
  BY <1>2, SendQueuedKeeps
<1>3. CASE Answer
  BY <1>3, AnswerKeeps
<1>4. CASE Handle
  BY <1>4, HandleKeeps
<1>5. CASE UNCHANGED vars
  BY <1>5, Stays DEF IInv, vars
<1> QED
  BY <1>1, <1>2, <1>3, <1>4, <1>5 DEF Next

-----------------------------------------------------------------------------
(* Theorems.                                                               *)

\* The three indexes of the graph name the same resources, none twice, and no type
\* exceeds its cap, whatever is recorded, evicted and recorded again by however many
\* chains (recordInstance, evictIfOverCap).
THEOREM GraphConsistentHolds == Spec => []GraphConsistent
<1>1. IInv => GraphConsistent
  BY DEF IInv, Sound, GraphOK, GraphConsistent
<1> QED
  BY <1>1, InitIInv, Inductive, PTL DEF Spec

\* As long as no answer was misleading, what the graph holds the server has, and a
\* parent it names is the real one, although links are read off the text of paths and
\* headers of answers that come in any order (recordResourceGraphStep, LinkParent).
THEOREM GraphIsTrueHolds == Spec => []GraphIsTrue
<1>1. IInv => GraphIsTrue
  BY DEF IInv, Sound, GraphOK, Faithful, GraphIsTrue
<1> QED
  BY <1>1, InitIInv, Inductive, PTL DEF Spec

\* Whatever answers say, true or not, a finding names a resource that a DELETE before
\* its step named: only a DELETE makes a life dead, and within a step only the first
\* mention is judged (recordStaleObjectFinding, firstIdentityForValue).
THEOREM AccusedWasDeletedHolds == Spec => AccusedWasDeleted
<1>1. IInv /\ [Next]_vars => [\A f \in findings' \ findings : f.key \in deletions]_vars
  <2> SUFFICES ASSUME IInv, Next PROVE \A f \in findings' \ findings : f.key \in deletions
    OBVIOUS
  <2>1. ASSUME findings' = findings PROVE \A f \in findings' \ findings : f.key \in deletions
    BY <2>1
  <2>2. CASE SendSeed
    BY <2>1, <2>2 DEF SendSeed
  <2>3. CASE SendQueued
    BY <2>1, <2>3 DEF SendQueued
  <2>4. CASE Answer
    BY <2>1, <2>4 DEF Answer
  <2>5. CASE Handle
    <3>1. CASE UNCHANGED <<graph, sequenceQueue, findings, deletions>>
      BY <2>1, <3>1
    <3>2. CASE \E it : AtDepthCap(it)
      BY <2>1, <3>2 DEF AtDepthCap
    <3>3. CASE \E it, resp : /\ it.tmpl \in target.grammar /\ Ready(it, resp)
                             /\ Continue(it, resp)
      BY <3>3, ContinueKeeps
    <3> QED
      BY <2>5, <3>1, <3>2, <3>3, HandleParts
  <2> QED
    BY <2>2, <2>3, <2>4, <2>5 DEF Next
<1> QED
  BY <1>1, InitIInv, Inductive, PTL DEF Spec, AccusedWasDeleted

\* As long as no answer was misleading, a resource supplied to a chain of a tenant is
\* that tenant or lies inside it, at the depth the walk to the root can see
\* (pickFollowupPathValue, resolveTenantKey).
THEOREM PicksStayInTenantHolds == Spec => []PicksStayInTenant
<1>1. IInv => PicksStayInTenant
  <2> SUFFICES ASSUME IInv, NEW i \in DOMAIN sequenceQueue PROVE Waits(sequenceQueue[i])
    BY DEF PicksStayInTenant, Waits
  <2> QED
    BY DEF IInv, Queue
<1> QED
  BY <1>1, InitIInv, Inductive, PTL DEF Spec

-----------------------------------------------------------------------------
(* Persistence of workflows.                                               *)

\* Only maybePersistSequence touches the exemplars and the directory: a new
\* workflow adds one entry to both, an upgrade takes the old file away with the
\* old entry.
LEMMA PersistKeeps ==
    ASSUME NEW c, NEW g, NoOrphanFiles, MaybePersist(c, g)
    PROVE  NoOrphanFiles'
<1> DEFINE real == c.depth >= 1 /\ RealIdChain(c, g)
           shape == Shape(c)
           name == <<c.depth, c.id>>
           new == [seq |-> c.id, depth |-> c.depth, real |-> real]
           idle == c.id = 0 \/ ~c.hot \/ (c.depth < 2 /\ ~real)
           Owners == {<<exemplars[s].depth, exemplars[s].seq>> : s \in DOMAIN exemplars}
<1>0. new.depth = c.depth /\ new.seq = c.id
  OBVIOUS
<1> HIDE DEF real, shape, new
<1>1. \/ UNCHANGED <<exemplars, files>>
      \/ /\ shape \notin DOMAIN exemplars
         /\ exemplars' = With(exemplars, shape, new)
         /\ files' = With(files, name, shape)
      \/ /\ shape \in DOMAIN exemplars
         /\ exemplars' = [exemplars EXCEPT ![shape] = new]
         /\ files' = Replace(files, exemplars[shape], name, shape)
  BY DEF MaybePersist, real, shape, new
<1>2. CASE UNCHANGED <<exemplars, files>>
  BY <1>2 DEF NoOrphanFiles
<1>3. CASE /\ shape \notin DOMAIN exemplars
           /\ exemplars' = With(exemplars, shape, new)
           /\ files' = With(files, name, shape)
  <2>1. DOMAIN files' \subseteq DOMAIN files \cup {name}
    BY <1>3 DEF With
  <2>2. DOMAIN exemplars' = DOMAIN exemplars \cup {shape}
    BY <1>3 DEF With
  <2>3. exemplars'[shape] = new /\ \A s \in DOMAIN exemplars : exemplars'[s] = exemplars[s]
    BY <1>3 DEF With
  <2> QED
    BY <1>0, <2>1, <2>2, <2>3 DEF NoOrphanFiles
<1>4. CASE /\ shape \in DOMAIN exemplars
           /\ exemplars' = [exemplars EXCEPT ![shape] = new]
           /\ files' = Replace(files, exemplars[shape], name, shape)
  <2> DEFINE old == <<exemplars[shape].depth, exemplars[shape].seq>>
  <2>1. DOMAIN files' \subseteq (DOMAIN files \ {old}) \cup {name}
    BY <1>4 DEF Replace, Restrict, With
  <2>2. DOMAIN exemplars' = DOMAIN exemplars /\ exemplars'[shape] = new
    BY <1>4
  <2>3. \A s \in DOMAIN exemplars \ {shape} : exemplars'[s] = exemplars[s]
    BY <1>4
  <2> QED
    BY <1>0, <1>4, <2>1, <2>2, <2>3 DEF NoOrphanFiles
<1> QED
  BY <1>1, <1>2, <1>3, <1>4

\* However workflows of the same steps come and are upgraded, every file in the
\* directory is that of an exemplar still kept (maybePersistSequence,
\* replacePersistedWorkflow).
THEOREM NoOrphanFilesHolds == Spec => []NoOrphanFiles
<1>1. Init => NoOrphanFiles
  BY DEF Init, NoOrphanFiles
<1>2. NoOrphanFiles /\ [Next]_vars => NoOrphanFiles'
  <2> SUFFICES ASSUME NoOrphanFiles, [Next]_vars
               PROVE  NoOrphanFiles'
    OBVIOUS
  <2>1. CASE UNCHANGED <<exemplars, files>>
    BY <2>1 DEF NoOrphanFiles
  <2>2. CASE SendSeed
    BY <2>1, <2>2 DEF SendSeed
  <2>3. CASE SendQueued
    BY <2>1, <2>3 DEF SendQueued
  <2>4. CASE Answer
    BY <2>1, <2>4 DEF Answer
  <2>5. CASE Handle
    <3>1. ASSUME NEW it, AtDepthCap(it) PROVE NoOrphanFiles'
      BY <3>1, PersistKeeps DEF AtDepthCap
    <3>2. ASSUME NEW it, NEW resp, Continue(it, resp) PROVE NoOrphanFiles'
      <4>1. \E c, g : PersistLast(it, resp, c, g)
        BY <3>2, Zenon DEF Continue
      <4> QED
        BY <4>1, <2>1, PersistKeeps DEF PersistLast
    <3> QED
      BY <2>1, <2>5, <3>1, <3>2 DEF Handle
  <2>6. CASE UNCHANGED vars
    BY <2>1, <2>6 DEF vars
  <2> QED
    BY <2>2, <2>3, <2>4, <2>5, <2>6 DEF Next
<1> QED
  BY <1>1, <1>2, PTL DEF Spec

-----------------------------------------------------------------------------
(* Chains end: what there is left to do, counted.                          *)

\* Products, one factor at a time.
LEMMA OneMore ==
    ASSUME NEW m \in Nat, NEW w \in Nat
    PROVE  (m + 1) * w = m * w + w /\ m * w \in Nat
OBVIOUS

LEMMA NoMore ==
    ASSUME NEW m \in Nat, NEW n \in Nat, m <= n, NEW w \in Nat
    PROVE  m * w <= n * w
OBVIOUS

\* The sum of a list of numbers is what its prefixes sum up to.
LEMMA TotalRuns ==
    ASSUME NEW n \in Nat, NEW w \in [1 .. n -> Int]
    PROVE  \E f \in [0 .. n -> Int] :
               /\ f[0] = 0 /\ Total(w) = f[n]
               /\ \A k \in 1 .. n : f[k] = f[k - 1] + w[k]
<1> DEFINE At(f, k) == IF k = 0 THEN 0 ELSE f[k - 1] + w[k]
           sum == CHOOSE f : f = [k \in 0 .. n |-> At(f, k)]
           T == {j \in 0 .. n : \E f : f = [k \in 0 .. j |-> At(f, k)]}
           Good == {k \in 0 .. n : sum[k] \in Int}
<1>1. Len(w) = n
  OBVIOUS
<1>2. Total(w) = sum[n]
  BY <1>1, Zenon DEF Total
<1>3. 0 \in T
  <2> DEFINE f == [k \in 0 .. 0 |-> 0]
  <2>1. f = [k \in 0 .. 0 |-> At(f, k)]
    OBVIOUS
  <2> HIDE DEF f
  <2> QED
    BY <2>1
<1>4. ASSUME NEW j \in 0 .. n, j \in T, j < n PROVE j + 1 \in T
  <2>1. PICK f : f = [k \in 0 .. j |-> At(f, k)]
    BY <1>4
  <2> DEFINE x == f[j] + w[j + 1]
             g == [k \in 0 .. j + 1 |-> IF k = j + 1 THEN x ELSE f[k]]
  <2> HIDE DEF x
  <2>2. g[j + 1] = x /\ \A k \in 0 .. j : g[k] = f[k]
    OBVIOUS
  <2>3. g = [k \in 0 .. j + 1 |-> g[k]]
    OBVIOUS
  <2> HIDE DEF g
  <2>4. \A k \in 0 .. j : f[k] = At(f, k)
    <3> HIDE DEF At
    <3> QED
      BY <2>1
  <2>5. ASSUME NEW k \in 0 .. j + 1 PROVE g[k] = At(g, k)
    <3>1. CASE k = j + 1
      <4>1. k # 0 /\ k - 1 = j /\ j \in 0 .. j
        BY <3>1
      <4> QED
        BY <2>2, <3>1, <4>1 DEF x
    <3>2. CASE k # j + 1
      <4>1. k \in 0 .. j /\ (k # 0 => k - 1 \in 0 .. j)
        BY <3>2
      <4> QED
        BY <2>2, <2>4, <4>1
    <3> QED
      BY <3>1, <3>2
  <2>6. j + 1 \in 0 .. n
    BY <1>4
  <2> HIDE DEF At
  <2>7. g = [k \in 0 .. j + 1 |-> At(g, k)]
    BY <2>3, <2>5
  <2> QED
    BY <2>6, <2>7
<1>5. n \in T
  <2> HIDE DEF T
  <2> QED
    BY <1>3, <1>4, UpTo, Zenon
<1> HIDE DEF At
<1>6. sum = [k \in 0 .. n |-> At(sum, k)]
  BY <1>5
<1> HIDE DEF sum
<1>7. \A k \in 0 .. n : sum[k] = At(sum, k)
  BY <1>6, Zenon
<1>8. sum[0] = 0 /\ \A k \in 1 .. n : sum[k] = sum[k - 1] + w[k]
  BY <1>7 DEF At
<1>9. 0 \in Good
  BY <1>8
<1>10. ASSUME NEW k \in 0 .. n, k \in Good, k < n PROVE k + 1 \in Good
  <2>1. k + 1 \in 0 .. n /\ k + 1 \in 1 .. n /\ (k + 1) - 1 = k
    BY <1>10
  <2>2. sum[k + 1] = sum[k] + w[k + 1]
    BY <1>8, <2>1
  <2> QED
    BY <1>10, <2>1, <2>2
<1>11. ASSUME NEW m \in 0 .. n PROVE m \in Good
  <2>1. m \in Nat
    OBVIOUS
  <2>2. ASSUME NEW k \in 0 .. m, k \in Good, k < m PROVE k + 1 \in Good
    BY <1>10, <2>2
  <2> HIDE DEF Good
  <2> QED
    BY <1>9, <2>1, <2>2, UpTo, Zenon
<1>12. sum \in [0 .. n -> Int]
  <2>1. \A k \in 0 .. n : sum[k] \in Int
    BY <1>11
  <2>2. DOMAIN sum = 0 .. n /\ sum = [k \in 0 .. n |-> sum[k]]
    BY <1>6
  <2> QED
    BY <2>1, <2>2
<1> QED
  BY <1>2, <1>8, <1>12

\* r is w without its i-th number.
Removed(r, w, n, i) == \A k \in 1 .. n - 1 : r[k] = IF k < i THEN w[k] ELSE w[k + 1]

\* Taking one number out of a list takes as much out of its sum.
LEMMA TotalWithout ==
    ASSUME NEW n \in Nat, NEW w \in [1 .. n -> Int], NEW i \in 1 .. n,
           NEW r \in [1 .. n - 1 -> Int], Removed(r, w, n, i)
    PROVE  /\ Total(w) = Total(r) + w[i] /\ Total(w) \in Int /\ Total(r) \in Int
<1>1. PICK f \in [0 .. n -> Int] : /\ f[0] = 0 /\ Total(w) = f[n]
                                   /\ \A k \in 1 .. n : f[k] = f[k - 1] + w[k]
  BY TotalRuns
<1>2. PICK m \in Nat : m = n - 1
  OBVIOUS
<1>3. r \in [1 .. m -> Int]
  BY <1>2
<1>4. PICK g \in [0 .. m -> Int] : /\ g[0] = 0 /\ Total(r) = g[m]
                                   /\ \A k \in 1 .. m : g[k] = g[k - 1] + r[k]
  BY <1>3, TotalRuns
<1> DEFINE T == {k \in 0 .. m : g[k] = IF k < i THEN f[k] ELSE f[k + 1] - w[i]}
<1>5. 0 \in T
  BY <1>1, <1>4
<1>6. ASSUME NEW k \in 0 .. m, k \in T, k < m PROVE k + 1 \in T
  <2>1. /\ k + 1 \in 0 .. m /\ k + 1 \in 1 .. m /\ (k + 1) - 1 = k /\ k + 1 \in 1 .. n /\ k + 2 \in 1 .. n
        /\ (k + 2) - 1 = k + 1 /\ (k + 1) + 1 = k + 2
    BY <1>2, <1>6
  <2>2. g[k + 1] = g[k] + r[k + 1]
    BY <1>4, <2>1
  <2>3. r[k + 1] = IF k + 1 < i THEN w[k + 1] ELSE w[k + 2]
    BY <1>2, <2>1 DEF Removed
  <2>4. f[k + 1] = f[k] + w[k + 1] /\ f[k + 2] = f[k + 1] + w[k + 2]
    BY <1>1, <2>1
  <2>5. g[k] = IF k < i THEN f[k] ELSE f[k + 1] - w[i]
    BY <1>6
  <2>6. /\ f[k] \in Int /\ f[k + 1] \in Int /\ f[k + 2] \in Int /\ w[k + 1] \in Int
        /\ w[k + 2] \in Int /\ w[i] \in Int
    BY <1>2, <2>1, SMTT(30)
  <2>7. PICK a \in Int, b \in Int, c \in Int, x \in Int, y \in Int, z \in Int :
          a = f[k] /\ b = f[k + 1] /\ c = f[k + 2] /\ x = w[k + 1] /\ y = w[k + 2] /\ z = w[i]
    BY <2>6
  <2>8. b = a + x /\ c = b + y
    BY <2>4, <2>7
  <2>9. CASE k + 1 < i
    <3>1. k < i
      BY <2>9
    <3>2. g[k + 1] = a + x
      BY <2>2, <2>3, <2>5, <2>7, <2>9, <3>1
    <3> QED
      BY <2>1, <2>7, <2>8, <2>9, <3>2
  <2>10. CASE k + 1 = i
    <3>1. x = z
      BY <2>7, <2>10, Zenon
    <3>2. k < i /\ ~(k + 1 < i) /\ x = z
      BY <2>10, <3>1
    <3>3. g[k + 1] = a + y
      BY <2>2, <2>3, <2>5, <2>7, <3>2
    <3>4. g[k + 1] = c - z
      BY <2>8, <3>2, <3>3
    <3> QED
      BY <2>1, <2>7, <3>2, <3>4
  <2>11. CASE i < k + 1
    <3>1. ~(k < i) /\ ~(k + 1 < i)
      BY <2>11
    <3>2. g[k + 1] = (b - z) + y
      BY <2>2, <2>3, <2>5, <2>7, <3>1
    <3>3. g[k + 1] = c - z
      BY <2>8, <3>2
    <3> QED
      BY <2>1, <2>7, <3>1, <3>3
  <2> QED
    BY <2>9, <2>10, <2>11
<1>7. m \in T
  <2> HIDE DEF T
  <2> QED
    BY <1>5, <1>6, UpTo, Zenon
<1>8. g[m] = f[n] - w[i]
  <2>1. g[m] = IF m < i THEN f[m] ELSE f[m + 1] - w[i]
    BY <1>7
  <2>2. f[n] = f[m] + w[n] /\ m + 1 = n /\ n \in 1 .. n /\ f[m] \in Int /\ w[n] \in Int
    BY <1>1, <1>2
  <2>3. CASE m < i
    <3>1. i = n
      BY <1>2, <2>3
    <3> QED
      BY <2>1, <2>2, <2>3, <3>1
  <2>4. CASE ~(m < i)
    BY <2>1, <2>2, <2>4
  <2> QED
    BY <2>3, <2>4
<1>9. f[n] \in Int /\ g[m] \in Int /\ w[i] \in Int
  OBVIOUS
<1> QED
  BY <1>1, <1>4, <1>8, <1>9

\* A request that can still lead to others outweighs all that one answer leaves.
LEMMA WorthGrows ==
    /\ Worth \in [0 .. MaxDepth -> Nat \ {0}]
    /\ \A k \in 1 .. MaxDepth : Worth[k] = (Fanout + 4) * Worth[k - 1]
<1>1. PICK n \in Nat : n = MaxDepth
  BY ChainsAssumption
<1>2. PICK c \in Nat \ {0} : c = Fanout + 4
  BY ChainsAssumption
<1> DEFINE At(f, k) == IF k = 0 THEN 1 ELSE (Fanout + 4) * f[k - 1]
           T == {j \in 0 .. n : \E f : f = [k \in 0 .. j |-> At(f, k)]}
           Good == {k \in 0 .. n : Worth[k] \in Nat \ {0}}
<1>3. 0 \in T
  <2> DEFINE f == [k \in 0 .. 0 |-> 1]
  <2>1. f = [k \in 0 .. 0 |-> At(f, k)]
    OBVIOUS
  <2> HIDE DEF f
  <2> QED
    BY <2>1
<1>4. ASSUME NEW j \in 0 .. n, j \in T, j < n PROVE j + 1 \in T
  <2>1. PICK f : f = [k \in 0 .. j |-> At(f, k)]
    BY <1>4
  <2> DEFINE x == (Fanout + 4) * f[j]
             g == [k \in 0 .. j + 1 |-> IF k = j + 1 THEN x ELSE f[k]]
  <2> HIDE DEF x
  <2>2. g[j + 1] = x /\ \A k \in 0 .. j : g[k] = f[k]
    OBVIOUS
  <2>3. g = [k \in 0 .. j + 1 |-> g[k]]
    OBVIOUS
  <2> HIDE DEF g
  <2>4. \A k \in 0 .. j : f[k] = At(f, k)
    <3> HIDE DEF At
    <3> QED
      BY <2>1
  <2>5. ASSUME NEW k \in 0 .. j + 1 PROVE g[k] = At(g, k)
    <3>1. CASE k = j + 1
      <4>1. k # 0 /\ k - 1 = j /\ j \in 0 .. j
        BY <3>1
      <4>2. At(g, k) = (Fanout + 4) * g[j]
        BY <4>1
      <4> QED
        BY <2>2, <3>1, <4>1, <4>2 DEF x
    <3>2. CASE k # j + 1
      <4>1. k \in 0 .. j /\ (k # 0 => k - 1 \in 0 .. j)
        BY <3>2
      <4>2. g[k] = f[k] /\ (k # 0 => g[k - 1] = f[k - 1]) /\ f[k] = At(f, k)
        BY <2>2, <2>4, <4>1
      <4> QED
        BY <4>2
    <3> QED
      BY <3>1, <3>2
  <2>6. j + 1 \in 0 .. n
    BY <1>4
  <2> HIDE DEF At
  <2>7. g = [k \in 0 .. j + 1 |-> At(g, k)]
    BY <2>3, <2>5
  <2> QED
    BY <2>6, <2>7
<1>5. n \in T
  <2> HIDE DEF T
  <2> QED
    BY <1>3, <1>4, UpTo, Zenon
<1>6. Worth = [k \in 0 .. n |-> At(Worth, k)]
  <2> DEFINE F(f) == [k \in 0 .. n |-> At(f, k)]
  <2>1. \E f : f = F(f)
    BY <1>5
  <2>2. Worth = CHOOSE f : f = F(f)
    BY <1>1, Zenon DEF Worth
  <2> HIDE DEF F
  <2>3. Worth = F(Worth)
    BY <2>1, <2>2, Zenon
  <2> QED
    BY <2>3 DEF F
<1> HIDE DEF At
<1>7. \A k \in 0 .. n : Worth[k] = At(Worth, k)
  BY <1>6, Zenon
<1>8. Worth[0] = 1 /\ \A k \in 1 .. n : Worth[k] = (Fanout + 4) * Worth[k - 1]
  BY <1>7 DEF At
<1>9. 0 \in Good
  BY <1>8
<1>10. ASSUME NEW k \in 0 .. n, k \in Good, k < n PROVE k + 1 \in Good
  <2>1. k + 1 \in 0 .. n /\ k + 1 \in 1 .. n /\ (k + 1) - 1 = k
    BY <1>10
  <2>2. Worth[k + 1] = c * Worth[k]
    BY <1>2, <1>8, <2>1
  <2>3. PICK x \in Nat \ {0} : x = Worth[k]
    BY <1>10
  <2>4. c * x \in Nat \ {0}
    OBVIOUS
  <2> QED
    BY <2>1, <2>2, <2>3, <2>4
<1>11. ASSUME NEW m \in 0 .. n PROVE m \in Good
  <2>1. m \in Nat
    OBVIOUS
  <2>2. ASSUME NEW k \in 0 .. m, k \in Good, k < m PROVE k + 1 \in Good
    BY <1>10, <2>2
  <2> HIDE DEF Good
  <2> QED
    BY <1>9, <2>1, <2>2, UpTo, Zenon
<1>12. DOMAIN Worth = 0 .. n /\ Worth = [k \in 0 .. n |-> Worth[k]]
  BY <1>6
<1>13. \A k \in 0 .. n : Worth[k] \in Nat \ {0}
  BY <1>11
<1>14. Worth \in [0 .. n -> Nat \ {0}]
  BY <1>12, <1>13
<1> QED
  BY <1>1, <1>8, <1>14

\* A list with one number more.
LEMMA TotalAppend ==
    ASSUME NEW n \in Nat, NEW w \in [1 .. n -> Int], NEW x \in Int
    PROVE  /\ Total([k \in 1 .. n + 1 |-> IF k = n + 1 THEN x ELSE w[k]]) = Total(w) + x
           /\ Total(w) \in Int
<1> DEFINE v == [k \in 1 .. n + 1 |-> IF k = n + 1 THEN x ELSE w[k]]
<1>1. PICK m \in Nat : m = n + 1
  OBVIOUS
<1>2. v \in [1 .. m -> Int] /\ v[m] = x /\ m \in 1 .. m
  BY <1>1
<1>3. \A k \in 1 .. m - 1 : v[k] = w[k] /\ k < m
  BY <1>1
<1>4. w \in [1 .. m - 1 -> Int]
  BY <1>1
<1> HIDE DEF v
<1>5. Removed(w, v, m, m)
  BY <1>3 DEF Removed
<1>6. Total(v) = Total(w) + v[m] /\ Total(w) \in Int
  BY <1>2, <1>4, <1>5, TotalWithout
<1> QED
  BY <1>2, <1>6 DEF v

-----------------------------------------------------------------------------
(* What is left to do after an answer.                                     *)

\* A request of a chain knows how many steps the chain has; no request is past the cap.
Deep(it) ==
    /\ it.depth \in 0 .. MaxDepth
    /\ DOMAIN it.chain = DOMAIN NoChain /\ it.chain.depth = it.depth
    /\ it.chain.id = 0 => it.depth = 0

Pending(q) == \E S : q \in Seq(S) /\ \A x \in S : Deep(x)
Sent(q) == \E S : q \in Seq(S) /\ \A r \in S : Deep(r.item) /\ r = [item |-> r.item, resp |-> r.resp]

DInv == target \in Targets /\ chains \in Nat /\ Pending(sequenceQueue) /\ Sent(flight)

\* A request that is under way counts.
LEMMA DeepWeight ==
    ASSUME NEW it, Deep(it)
    PROVE  Weight(it) \in Nat \ {0}
<1>1. MaxDepth - it.depth \in 0 .. MaxDepth
  BY ChainsAssumption DEF Deep
<1> QED
  BY <1>1, WorthGrows DEF Weight

\* The weights of a queue.
LEMMA Weights ==
    ASSUME NEW S, NEW q \in Seq(S), \A x \in S : Deep(x)
    PROVE  [i \in 1 .. Len(q) |-> Weight(q[i])] \in [1 .. Len(q) -> Int]
<1>1. \A i \in 1 .. Len(q) : Weight(q[i]) \in Int
  BY DeepWeight
<1> QED
  BY <1>1

\* A request queued adds its weight, ...
LEMMA LoadAppend ==
    ASSUME NEW S, NEW q \in Seq(S), NEW x \in S, \A y \in S : Deep(y)
    PROVE  Load(Append(q, x)) = Load(q) + Weight(x) /\ Load(q) \in Int
<1>1. PICK n \in Nat : n = Len(q)
  OBVIOUS
<1>2. PICK a : a = Append(q, x)
  OBVIOUS
<1>3. Len(a) = n + 1 /\ a[n + 1] = x /\ \A i \in 1 .. n : a[i] = q[i]
  BY <1>1, <1>2
<1> DEFINE w == [i \in 1 .. n |-> Weight(q[i])]
           v == [k \in 1 .. n + 1 |-> IF k = n + 1 THEN Weight(x) ELSE w[k]]
<1>4. w \in [1 .. n -> Int]
  BY <1>1, Weights
<1>5. Weight(x) \in Int
  BY DeepWeight
<1>6. [i \in 1 .. n + 1 |-> Weight(a[i])] = v
  <2>1. ASSUME NEW i \in 1 .. n + 1 PROVE Weight(a[i]) = v[i]
    <3>1. CASE i = n + 1
      BY <1>3, <3>1
    <3>2. CASE i # n + 1
      <4>1. i \in 1 .. n
        BY <3>2
      <4> QED
        BY <1>3, <3>2, <4>1
    <3> QED
      BY <3>1, <3>2
  <2>2. v = [i \in 1 .. n + 1 |-> v[i]]
    OBVIOUS
  <2> HIDE DEF v
  <2> QED
    BY <2>1, <2>2
<1>7. Load(q) = Total(w) /\ Load(a) = Total(v)
  <2> HIDE DEF w, v
  <2>1. [i \in 1 .. Len(q) |-> Weight(q[i])] = w
    BY <1>1 DEF w
  <2>2. [i \in 1 .. Len(a) |-> Weight(a[i])] = v
    BY <1>3, <1>6
  <2> QED
    BY <2>1, <2>2, Zenon DEF Load
<1> HIDE DEF w
<1>8. Total(v) = Total(w) + Weight(x) /\ Total(w) \in Int
  <2>1. PICK y \in Int : y = Weight(x)
    BY <1>5
  <2> QED
    BY <1>4, <2>1, TotalAppend
<1> HIDE DEF v
<1> QED
  BY <1>2, <1>7, <1>8

\* q without its i-th item.
Lacks(r, q, i) ==
    /\ Len(r) = Len(q) - 1
    /\ \A k \in 1 .. Len(q) - 1 : r[k] = IF k < i THEN q[k] ELSE q[k + 1]

\* ... and one taken away takes it along.
LEMMA LoadWithout ==
    ASSUME NEW S, NEW q \in Seq(S), \A y \in S : Deep(y), NEW i \in 1 .. Len(q),
           NEW r \in Seq(S), Lacks(r, q, i)
    PROVE  Load(q) = Load(r) + Weight(q[i]) /\ Load(q) \in Int /\ Load(r) \in Int
<1>1. PICK n \in Nat : n = Len(q) /\ i \in 1 .. n
  OBVIOUS
<1>2. Len(r) = n - 1 /\ \A k \in 1 .. n - 1 : r[k] = IF k < i THEN q[k] ELSE q[k + 1]
  BY <1>1 DEF Lacks
<1> DEFINE w == [k \in 1 .. n |-> Weight(q[k])]
           v == [k \in 1 .. n - 1 |-> Weight(r[k])]
<1>3. w \in [1 .. n -> Int]
  BY <1>1, Weights
<1>4. v \in [1 .. n - 1 -> Int]
  <2>1. [k \in 1 .. Len(r) |-> Weight(r[k])] \in [1 .. Len(r) -> Int]
    BY Weights
  <2> QED
    BY <1>2, <2>1
<1>5. \A k \in 1 .. n : w[k] = Weight(q[k])
  OBVIOUS
<1>6. \A k \in 1 .. n - 1 : v[k] = Weight(r[k])
  OBVIOUS
<1>7. Load(q) = Total(w) /\ Load(r) = Total(v)
  BY <1>1, <1>2, Zenon DEF Load
<1> HIDE DEF w, v
<1>8. Removed(v, w, n, i)
  <2>1. ASSUME NEW k \in 1 .. n - 1 PROVE v[k] = IF k < i THEN w[k] ELSE w[k + 1]
    <3>1. k \in 1 .. n /\ k + 1 \in 1 .. n
      OBVIOUS
    <3> QED
      BY <1>2, <1>5, <1>6, <3>1
  <2> QED
    BY <2>1 DEF Removed
<1>9. Total(w) = Total(v) + w[i] /\ Total(w) \in Int /\ Total(v) \in Int
  BY <1>1, <1>3, <1>4, <1>8, TotalWithout
<1> QED
  BY <1>1, <1>5, <1>7, <1>9

\* Whatever the queue holds, it gets no heavier by more than what is queued: a full
\* one loses its head.
LEMMA EnqueueLoad ==
    ASSUME NEW S, NEW q \in Seq(S), NEW x \in S, \A y \in S : Deep(y)
    PROVE  /\ Enqueue(q, x) \in Seq(S)
           /\ Load(Enqueue(q, x)) \in Int /\ Load(q) \in Int
           /\ Load(Enqueue(q, x)) <= Load(q) + Weight(x)
<1>1. Weight(x) \in Nat
  BY DeepWeight
<1>2. CASE Len(q) >= QueueMax
  <2>1. q # <<>>
    BY <1>2, ChainsAssumption
  <2>2. Tail(q) \in Seq(S)
    BY <2>1
  <2>3. PICK t \in Seq(S) : t = Tail(q)
    BY <2>2, Zenon
  <2>4. 1 \in 1 .. Len(q) /\ Lacks(t, q, 1)
    BY <2>1, <2>3 DEF Lacks
  <2>5. Load(q) = Load(t) + Weight(q[1]) /\ Load(q) \in Int /\ Load(t) \in Int
    BY <2>4, LoadWithout
  <2>6. Weight(q[1]) \in Nat
    BY <2>1, DeepWeight
  <2>7. Enqueue(q, x) = Append(t, x)
    BY <1>2, <2>3 DEF Enqueue
  <2>8. Load(Append(t, x)) = Load(t) + Weight(x)
    BY LoadAppend
  <2> QED
    BY <1>1, <2>5, <2>6, <2>7, <2>8
<1>3. CASE ~(Len(q) >= QueueMax)
  <2>1. Enqueue(q, x) = Append(q, x)
    BY <1>3 DEF Enqueue
  <2>2. Load(Append(q, x)) = Load(q) + Weight(x) /\ Load(q) \in Int
    BY LoadAppend
  <2> QED
    BY <1>1, <2>1, <2>2
<1> QED
  BY <1>2, <1>3

-----------------------------------------------------------------------------
\* Every branch of a consumer is one step deeper than the chain was.
LEMMA BranchesDeep ==
    ASSUME NEW t, NEW c, NEW ids, NEW g, NEW item \in Branches(t, c, ids, g)
    PROVE  item.depth = c.depth /\ item.chain = c
<1> DEFINE own == OwnType(t)
           kin == FindCompatibleInTenant(g, own, c.tenant, Alive)
           stale == Newest(g, own, FindCompatibleResources(g, own, Dead))
           live == Newest(g, own, kin)
           first == IF ids = <<>> THEN Hole ELSE ids[1]
           Bound(raw, q) ==
               IF Hole \notin Range(raw) THEN {Item(t, raw, q, c.depth, c, NoKey)}
               ELSE {Item(t, FillHoles(raw, k[2]), q, c.depth, c, NoKey) : k \in stale}
                    \cup (IF live # {}
                          THEN {Item(t, FillHoles(raw, k[2]), q, c.depth, c, k) : k \in live}
                          ELSE {Item(t, FillHoles(raw, first), q, c.depth, c, NoKey)})
<1>1. \E raw, q : item \in Bound(raw, q)
  BY DEF Branches
<1> HIDE DEF stale, own, live
<1>2. \E k, filled, q : item = Item(t, filled, q, c.depth, c, k)
  BY <1>1
<1> QED
  BY <1>2 DEF Item

\* All orders of consumers are short.
LEMMA RankingsShort ==
    ASSUME NEW all, IsFiniteSet(all), NEW n \in Nat, NEW order \in Rankings(all, n)
    PROVE  order \in Seq(all) /\ Len(order) <= n
<1>1. PICK s \in SUBSET all : order \in SetToSeqs(s)
  BY DEF Rankings, SetToAllKPermutations
<1>2. Cardinality(s) \in Nat /\ Cardinality(all) \in Nat
  BY FS_Subset, FS_CardinalityType
<1>3. order \in [1 .. Cardinality(s) -> s]
  BY <1>1 DEF SetToSeqs
<1>4. order \in [1 .. Cardinality(s) -> all]
  BY <1>3
<1>5. Len(order) = IF n < Cardinality(all) THEN n ELSE Cardinality(all)
  BY DEF Rankings
<1> QED
  BY <1>2, <1>4, <1>5

\* A queue of some requests that weighs no more than b.
Heavy(q, S, b) == q \in Seq(S) /\ Load(q) \in Int /\ Load(q) <= b

\* Each consumer adds at most one request to the queue, of a step more: induction over
\* their order.
LEMMA QueuesLoad ==
    ASSUME NEW S, NEW start \in Seq(S), \A x \in S : Deep(x), Load(start) \in Int,
           NEW order, Len(order) \in Nat, NEW c, NEW ids, NEW g,
           \A t, item : item \in Branches(t, c, ids, g) => Deep(item),
           NEW w \in Nat, w = Worth[MaxDepth - c.depth],
           NEW q \in QueuesFrom(start, order, c, ids, g)
    PROVE  /\ Pending(q)
           /\ Load(q) \in Int /\ Load(q) <= Load(start) + Len(order) * w
<1>1. PICK N \in Nat : N = Len(order)
  OBVIOUS
<1>2. PICK b \in Int : b = Load(start)
  OBVIOUS
<1> DEFINE B == S \cup UNION {Branches(order[m], c, ids, g) : m \in 1 .. N}
           Do(qs, m) == {Enqueue(p, item) : p \in qs, item \in Branches(order[m], c, ids, g)}
           At(f, m) == IF m = 0 THEN {start} ELSE Do(f[m - 1], m)
           queues == CHOOSE f : f = [m \in 0 .. N |-> At(f, m)]
           T == {m \in 0 .. N : \E f : f = [n \in 0 .. m |-> At(f, n)]}
           Good == {m \in 0 .. N : \A p \in queues[m] : Heavy(p, B, b + m * w)}
<1>3. q \in queues[N]
  BY <1>1 DEF QueuesFrom
<1>4. \A x \in B : Deep(x)
  OBVIOUS
<1>5. start \in Seq(B)
  OBVIOUS
<1>6. ASSUME NEW qs, NEW m \in 1 .. N, NEW a \in Int, \A p \in qs : Heavy(p, B, a), NEW p \in Do(qs, m)
      PROVE  Heavy(p, B, a + w)
  <2>1. Branches(order[m], c, ids, g) \subseteq B
    OBVIOUS
  <2>2. PICK p0 \in qs, item \in Branches(order[m], c, ids, g) : p = Enqueue(p0, item)
    OBVIOUS
  <2>3. Weight(item) = w
    BY BranchesDeep DEF Weight
  <2> HIDE DEF B
  <2>4. p0 \in Seq(B) /\ item \in B /\ Load(p0) \in Int /\ Load(p0) <= a
    BY <1>6, <2>1, <2>2 DEF Heavy
  <2>5. p \in Seq(B) /\ Load(p) \in Int /\ Load(p) <= Load(p0) + w
    BY <1>4, <2>2, <2>3, <2>4, EnqueueLoad, SMTT(30)
  <2> QED
    BY <2>4, <2>5, SMTT(30) DEF Heavy
<1> HIDE DEF B, Do
<1>7. 0 \in T
  <2> DEFINE f == [n \in 0 .. 0 |-> {start}]
  <2>1. f = [n \in 0 .. 0 |-> At(f, n)]
    OBVIOUS
  <2> HIDE DEF f
  <2> QED
    BY <2>1
<1>8. ASSUME NEW m \in 0 .. N, m \in T, m < N PROVE m + 1 \in T
  <2>1. PICK f : f = [n \in 0 .. m |-> At(f, n)]
    BY <1>8
  <2> DEFINE h == [n \in 0 .. m + 1 |-> IF n = m + 1 THEN Do(f[m], m + 1) ELSE f[n]]
  <2>2. \A n \in 0 .. m : h[n] = f[n] /\ f[n] = At(f, n)
    <3>1. ASSUME NEW n \in 0 .. m PROVE h[n] = f[n]
      OBVIOUS
    <3> HIDE DEF At, h
    <3>2. \A n \in 0 .. m : f[n] = At(f, n)
      BY <2>1, Zenon
    <3> QED
      BY <3>1, <3>2
  <2>3. h[m + 1] = Do(f[m], m + 1)
    OBVIOUS
  <2>4. DOMAIN h = 0 .. m + 1 /\ h = [n \in 0 .. m + 1 |-> h[n]]
    OBVIOUS
  <2> HIDE DEF h
  <2>5. ASSUME NEW n \in 0 .. m + 1 PROVE h[n] = At(h, n)
    <3>1. CASE n = 0
      BY <2>2, <3>1
    <3>2. CASE n \in 1 .. m
      <4>1. n - 1 \in 0 .. m /\ n \in 0 .. m /\ n # 0
        BY <3>2
      <4> QED
        BY <2>2, <4>1
    <3>3. CASE n = m + 1
      <4>1. m \in 0 .. m /\ n - 1 = m /\ n # 0
        BY <3>3
      <4> QED
        BY <2>2, <2>3, <3>3, <4>1
    <3> QED
      BY <3>1, <3>2, <3>3
  <2> HIDE DEF At
  <2>6. h = [n \in 0 .. m + 1 |-> At(h, n)]
    BY <2>4, <2>5
  <2>7. m + 1 \in 0 .. N
    BY <1>8
  <2> QED
    BY <2>6, <2>7
<1>9. N \in T
  <2> HIDE DEF T
  <2> QED
    BY <1>7, <1>8, UpTo, Zenon
<1> HIDE DEF At
<1>10. queues = [m \in 0 .. N |-> At(queues, m)]
  BY <1>9
<1> HIDE DEF queues
<1>11. \A m \in 0 .. N : queues[m] = At(queues, m)
  BY <1>10, Zenon
<1>12. 0 \in Good
  <2>1. queues[0] = {start}
    BY <1>11 DEF At
  <2>2. 0 * w = 0
    OBVIOUS
  <2>3. Heavy(start, B, b + 0 * w)
    BY <1>2, <1>5, <2>2 DEF Heavy
  <2> QED
    BY <2>1, <2>3
<1>13. ASSUME NEW m \in 0 .. N, m \in Good, m < N PROVE m + 1 \in Good
  <2>1. m + 1 \in 0 .. N /\ m + 1 \in 1 .. N /\ m + 1 # 0 /\ (m + 1) - 1 = m
    BY <1>13
  <2>2. queues[m + 1] = Do(queues[m], m + 1)
    BY <1>11, <2>1 DEF At
  <2>3. PICK a \in Int : a = b + m * w
    <3>1. m \in Nat
      OBVIOUS
    <3> QED
      BY <3>1, OneMore
  <2>4. a + w = b + (m + 1) * w
    <3>1. m \in Nat
      OBVIOUS
    <3>2. (m + 1) * w = m * w + w
      BY <3>1, OneMore
    <3>3. m * w \in Int
      BY <3>1, OneMore
    <3>4. PICK y \in Int, z \in Int : y = m * w /\ z = (m + 1) * w
      BY <3>2, <3>3
    <3>5. a = b + y /\ z = y + w
      BY <2>3, <3>2, <3>4
    <3>6. a + w = b + z
      BY <3>5
    <3> QED
      BY <3>4, <3>6
  <2>5. PICK qs : qs = queues[m]
    OBVIOUS
  <2>6. \A p \in qs : Heavy(p, B, a)
    BY <1>13, <2>3, <2>5
  <2>7. PICK k \in 1 .. N : k = m + 1
    BY <2>1
  <2>8. \A p \in Do(qs, k) : Heavy(p, B, a + w)
    BY <1>6, <2>6
  <2>9. \A p \in queues[m + 1] : Heavy(p, B, b + (m + 1) * w)
    BY <2>2, <2>4, <2>5, <2>7, <2>8
  <2> QED
    BY <2>1, <2>9
<1>14. N \in Good
  <2> HIDE DEF Good
  <2> QED
    BY <1>12, <1>13, UpTo, Zenon
<1>15. Heavy(q, B, b + N * w)
  BY <1>3, <1>14
<1> QED
  BY <1>1, <1>2, <1>4, <1>15 DEF Heavy, Pending

\* A step deeper and of a chain that goes on.
LEMMA NextDeep ==
    ASSUME NEW d \in 0 .. MaxDepth, d < MaxDepth, NEW c, DOMAIN c = DOMAIN NoChain, c.depth = d, c.id # 0
    PROVE  /\ NextChain(c).depth = d + 1 /\ d + 1 \in 0 .. MaxDepth
           /\ \A it : it.depth = d + 1 /\ it.chain = NextChain(c) => Deep(it)
<1>1. MaxDepth \in Nat
  BY ChainsAssumption
<1>2. PICK n : n = NextChain(c)
  OBVIOUS
<1>3. DOMAIN n = DOMAIN NoChain /\ n.depth = d + 1 /\ n.id = c.id
  <2>1. DOMAIN c = {"id", "depth", "values", "history", "hot", "tenant"}
    BY DEF NoChain
  <2> QED
    BY <1>2, <2>1 DEF NextChain
<1>4. d + 1 \in 0 .. MaxDepth
  BY <1>1
<1>5. \A it : it.depth = d + 1 /\ it.chain = n => Deep(it)
  BY <1>3, <1>4 DEF Deep
<1> QED
  BY <1>2, <1>3, <1>4, <1>5

\* What an answer leaves weighs less than its request did.
LEMMA ContinueLess ==
    ASSUME DInv, NEW it, Deep(it), NEW resp, Continue(it, resp)
    PROVE  /\ Pending(sequenceQueue') /\ chains' \in Nat
           /\ Load(sequenceQueue') \in Int /\ Load(sequenceQueue) \in Int
           /\ Load(sequenceQueue') < Load(sequenceQueue) + Weight(it)
<1> DEFINE old == IF it.chain.id = 0 THEN [NoChain EXCEPT !.id = chains + 1] ELSE it.chain
<1>1. PICK d \in 0 .. MaxDepth : d = it.depth /\ d < MaxDepth
  BY DEF Continue, Deep
<1>2. DOMAIN old = DOMAIN NoChain /\ old.depth = d /\ old.id # 0
  <2>1. CASE it.chain.id = 0
    <3>1. chains + 1 # 0
      BY DEF DInv
    <3>2. d = 0
      BY <1>1, <2>1 DEF Deep
    <3> QED
      BY <2>1, <3>1, <3>2 DEF NoChain
  <2>2. CASE it.chain.id # 0
    BY <1>1, <2>2 DEF Deep
  <2> QED
    BY <2>1, <2>2
<1> HIDE DEF old
<1>3. \E c, g : /\ DOMAIN c = DOMAIN NoChain /\ c.depth = d /\ c.id # 0
                /\ QueueNext(it, resp, c, g)
  <2>1. PICK gain \in BOOLEAN :
          LET s == RecordStep(it, resp, old.id)
              c == [old EXCEPT !.history = Append(@, Op(it)),
                               !.hot = @ \/ gain,
                               !.tenant = Adopt(@, s.touched),
                               !.values = Bind(@, it, resp.ids)]
          IN QueueNext(it, resp, c, s.graph)
    BY Zenon DEF Continue, old
  <2> DEFINE s == RecordStep(it, resp, old.id)
             c == [old EXCEPT !.history = Append(@, Op(it)),
                              !.hot = @ \/ gain,
                              !.tenant = Adopt(@, s.touched),
                              !.values = Bind(@, it, resp.ids)]
  <2>2. QueueNext(it, resp, c, s.graph)
    BY <2>1
  <2>3. DOMAIN c = DOMAIN NoChain /\ c.depth = d /\ c.id # 0
    <3>1. DOMAIN old = {"id", "depth", "values", "history", "hot", "tenant"}
      BY <1>2 DEF NoChain
    <3>2. DOMAIN c = DOMAIN old /\ c.depth = old.depth /\ c.id = old.id
      BY <3>1, Zenon
    <3> HIDE DEF c
    <3> QED
      BY <1>2, <3>2
  <2> HIDE DEF c, s
  <2> QED
    BY <2>2, <2>3
<1>4. PICK c, g : /\ DOMAIN c = DOMAIN NoChain /\ c.depth = d /\ c.id # 0
                  /\ QueueNext(it, resp, c, g)
  BY <1>3
<1>5. PICK n : n = NextChain(c)
  OBVIOUS
<1>6. n.depth = d + 1 /\ d + 1 \in 0 .. MaxDepth /\ \A x : x.depth = d + 1 /\ x.chain = n => Deep(x)
  BY <1>1, <1>4, <1>5, NextDeep
<1>7. PICK w \in Nat \ {0} : w = Worth[MaxDepth - (d + 1)]
  <2>1. MaxDepth - (d + 1) \in 0 .. MaxDepth
    BY <1>6, ChainsAssumption
  <2> QED
    BY <2>1, WorthGrows
<1>8. Weight(it) = (Fanout + 4) * w
  <2>1. MaxDepth - d \in 1 .. MaxDepth /\ (MaxDepth - d) - 1 = MaxDepth - (d + 1)
    BY <1>1, ChainsAssumption
  <2> QED
    BY <1>1, <1>7, <2>1, WorthGrows DEF Weight
<1>9. PICK S : sequenceQueue \in Seq(S) /\ \A x \in S : Deep(x)
  BY DEF DInv, Pending
<1> DEFINE page == Item(it.tmpl, it.ids, Turned(it, resp.cursor), c.depth + 1, NextChain(c), NoKey)
           B == S \cup {page}
<1>10. Deep(page) /\ Weight(page) = w
  <2>1. page.depth = d + 1 /\ page.chain = n
    BY <1>4, <1>5 DEF Item
  <2> HIDE DEF page
  <2> QED
    BY <1>6, <1>7, <2>1 DEF Weight
<1>11. PICK paged : paged = WithPage(it, resp, c)
  OBVIOUS
<1>12. paged = sequenceQueue \/ paged = Enqueue(sequenceQueue, page)
  BY <1>11 DEF WithPage
<1> HIDE DEF page
<1>13. sequenceQueue \in Seq(B) /\ page \in B /\ \A x \in B : Deep(x)
  BY <1>9, <1>10
<1> HIDE DEF B
<1>14. PICK L \in Int : L = Load(sequenceQueue)
  BY <1>13, EnqueueLoad
<1>15. paged \in Seq(B) /\ Load(paged) \in Int /\ Load(paged) <= L + w
  BY <1>7, <1>10, <1>12, <1>13, <1>14, EnqueueLoad
<1>16. PICK F \in Nat : F = Fanout
  BY ChainsAssumption
<1>17. (F + 2) * w \in Nat /\ w + (F + 2) * w < (F + 4) * w /\ w < (F + 4) * w
  <2>1. (F + 3) * w = (F + 2) * w + w /\ (F + 4) * w = (F + 3) * w + w /\ (F + 2) * w \in Nat
    BY <1>7
  <2> QED
    BY <1>7, <2>1
<1>18. chains' \in Nat
  <2>1. chains' = chains + 1 \/ chains' = chains
    BY Zenon DEF Continue
  <2> QED
    BY <2>1 DEF DInv
<1> DEFINE heirs == Consumers(it, resp)
<1>19. CASE heirs = {}
  <2>1. sequenceQueue' = paged
    BY <1>4, <1>11, <1>19 DEF QueueNext
  <2>2. Load(paged) < L + (F + 4) * w
    BY <1>14, <1>15, <1>17
  <2> QED
    BY <1>8, <1>13, <1>14, <1>15, <1>16, <1>18, <2>1, <2>2 DEF Pending
<1>20. CASE heirs # {}
  <2>1. PICK k \in Fanout .. (Fanout + 2) : \E order \in Rankings(heirs, k) :
             sequenceQueue' \in QueuesFrom(WithPage(it, resp, c), order, NextChain(c), resp.ids, g)
    BY <1>4, <1>20 DEF QueueNext
  <2>2. PICK order \in Rankings(heirs, k) :
             sequenceQueue' \in QueuesFrom(paged, order, n, resp.ids, g)
    BY <1>5, <1>11, <2>1
  <2>3. IsFiniteSet(heirs)
    <3>1. IsFiniteSet(target.grammar)
      BY TargetsAssumption DEF DInv
    <3>2. heirs \subseteq target.grammar
      BY DEF Consumers, Followups
    <3> HIDE DEF heirs
    <3> QED
      BY <3>1, <3>2, FS_Subset
  <2> HIDE DEF heirs
  <2>4. k \in Nat /\ k <= F + 2
    BY <1>16, <2>1
  <2>5. order \in Seq(heirs) /\ Len(order) <= k
    BY <2>3, <2>4, RankingsShort
  <2>6. PICK m \in Nat : m = Len(order) /\ m <= F + 2
    BY <2>4, <2>5
  <2>7. \A t, item : item \in Branches(t, n, resp.ids, g) => Deep(item)
    BY <1>6, BranchesDeep
  <2>8. w = Worth[MaxDepth - n.depth]
    BY <1>6, <1>7
  <2>9. PICK q : q = sequenceQueue'
    OBVIOUS
  <2>10. q \in QueuesFrom(paged, order, n, resp.ids, g)
    BY <2>2, <2>9
  <2>11. /\ Pending(q)
         /\ Load(q) \in Int /\ Load(q) <= Load(paged) + Len(order) * w
    BY <1>7, <1>13, <1>15, <2>6, <2>7, <2>8, <2>10, QueuesLoad
  <2>12. m * w <= (F + 2) * w /\ m * w \in Nat
    BY <1>7, <1>16, <2>6, NoMore, OneMore
  <2>13. PICK a \in Int, b \in Int, x \in Int, y \in Int :
           a = Load(q) /\ b = Load(paged) /\ x = m * w /\ y = (F + 2) * w
    BY <1>15, <1>17, <2>11, <2>12
  <2>14. a <= b + x /\ b <= L + w /\ x <= y
    BY <1>15, <2>6, <2>11, <2>12, <2>13
  <2>15. PICK z \in Int : z = (F + 4) * w /\ w + y < z
    BY <1>17, <2>13
  <2>16. a < L + z
    BY <1>7, <2>14, <2>15
  <2> QED
    BY <1>8, <1>14, <1>16, <1>18, <2>9, <2>11, <2>13, <2>15, <2>16
<1> QED
  BY <1>19, <1>20

-----------------------------------------------------------------------------
\* The requests that answers are awaited to.
Items(q) == [i \in 1 .. Len(q) |-> q[i].item]

\* What an answer takes off the requests in flight.
LEMMA FlightLess ==
    ASSUME Sent(flight), NEW i \in DOMAIN flight, flight' = RemoveAt(flight, i)
    PROVE  /\ Sent(flight') /\ Deep(flight[i].item)
           /\ Load(Items(flight)) \in Int /\ Load(Items(flight')) \in Int
           /\ Load(Items(flight)) = Load(Items(flight')) + Weight(flight[i].item)
<1>1. PICK S : flight \in Seq(S) /\ \A r \in S : Deep(r.item) /\ r = [item |-> r.item, resp |-> r.resp]
  BY DEF Sent
<1>2. PICK n \in Nat : n = Len(flight) /\ i \in 1 .. n /\ DOMAIN flight = 1 .. n
  BY <1>1
<1>3. PICK A \in Seq(S) : /\ A = SubSeq(flight, 1, i - 1) /\ Len(A) = i - 1
                          /\ \A k \in 1 .. i - 1 : A[k] = flight[k]
  <2>1. SubSeq(flight, 1, i - 1) \in Seq(S) /\ Len(SubSeq(flight, 1, i - 1)) = i - 1
    BY <1>1, <1>2
  <2>2. \A k \in 1 .. i - 1 : SubSeq(flight, 1, i - 1)[k] = flight[k]
    BY <1>1, <1>2
  <2> QED
    BY <2>1, <2>2
<1>4. PICK B \in Seq(S) : /\ B = SubSeq(flight, i + 1, n) /\ Len(B) = n - i
                          /\ \A k \in 1 .. n - i : B[k] = flight[i + k]
  <2>1. SubSeq(flight, i + 1, n) \in Seq(S) /\ Len(SubSeq(flight, i + 1, n)) = n - i
    BY <1>1, <1>2
  <2>2. \A k \in 1 .. n - i : SubSeq(flight, i + 1, n)[k] = flight[i + k]
    BY <1>1, <1>2
  <2> QED
    BY <2>1, <2>2
<1>5. PICK r : r = flight'
  OBVIOUS
<1>6. r = A \o B
  BY <1>2, <1>3, <1>4, <1>5 DEF RemoveAt
<1>7. /\ A \o B \in Seq(S) /\ Len(A \o B) = n - 1
      /\ \A k \in 1 .. n - 1 : (A \o B)[k] = IF k <= i - 1 THEN A[k] ELSE B[k - (i - 1)]
  <2>1. i \in Int /\ n \in Int /\ (i - 1) + (n - i) = n - 1
    BY <1>2
  <2>2. Len(A) + Len(B) = n - 1
    BY <1>3, <1>4, <2>1
  <2> QED
    <3>1. PICK a \in Nat, b \in Nat : a = i - 1 /\ b = n - i /\ a = Len(A) /\ b = Len(B) /\ a + b = n - 1
      <4>1. PICK a \in Nat : a = Len(A)
        OBVIOUS
      <4>2. PICK b \in Nat : b = Len(B)
        OBVIOUS
      <4>3. a = i - 1 /\ b = n - i
        BY <1>3, <1>4, <4>1, <4>2
      <4> QED
        BY <2>1, <4>1, <4>2, <4>3
    <3>2. A \o B \in Seq(S) /\ Len(A \o B) = a + b
      <4>1. A \o B \in Seq(S) /\ Len(A \o B) = Len(A) + Len(B)
        BY ConcatProperties, Zenon
      <4> QED
        BY <3>1, <4>1, Zenon
    <3>3. \A k \in 1 .. a + b : (A \o B)[k] = IF k <= a THEN A[k] ELSE B[k - a]
      <4>1. \A k \in 1 .. Len(A) + Len(B) :
              (A \o B)[k] = IF k <= Len(A) THEN A[k] ELSE B[k - Len(A)]
        BY ConcatProperties, Zenon
      <4> QED
        BY <3>1, <4>1, Zenon
    <3> QED
      BY <3>1, <3>2, <3>3
<1>8. /\ r \in Seq(S) /\ Len(r) = n - 1
      /\ \A k \in 1 .. n - 1 : r[k] = IF k <= i - 1 THEN A[k] ELSE B[k - (i - 1)]
  BY <1>6, <1>7
<1>9. ASSUME NEW k \in 1 .. n - 1 PROVE r[k] = IF k < i THEN flight[k] ELSE flight[k + 1]
  <2>1. r[k] = IF k < i THEN A[k] ELSE B[k - (i - 1)]
    BY <1>2, <1>8
  <2>2. CASE k < i
    BY <1>2, <1>3, <2>1, <2>2
  <2>3. CASE ~(k < i)
    <3>1. k - (i - 1) \in 1 .. n - i /\ i + (k - (i - 1)) = k + 1
      BY <1>2, <2>3
    <3> QED
      BY <1>4, <2>1, <2>3, <3>1
  <2> QED
    BY <2>2, <2>3
<1> DEFINE T == {x.item : x \in S}
<1>10. \A x \in T : Deep(x)
  BY <1>1
<1>11. Items(flight) \in Seq(T) /\ Len(Items(flight)) = n /\ \A k \in 1 .. n : Items(flight)[k] = flight[k].item
  <2>1. Items(flight) = [k \in 1 .. n |-> flight[k].item]
    BY <1>2 DEF Items
  <2>2. \A k \in 1 .. n : flight[k].item \in T
    BY <1>1, <1>2
  <2> HIDE DEF T
  <2>3. Items(flight) \in [1 .. n -> T]
    BY <2>1, <2>2
  <2> QED
    BY <2>1, <2>3
<1>12. Items(r) \in Seq(T) /\ Len(Items(r)) = n - 1 /\ \A k \in 1 .. n - 1 : Items(r)[k] = r[k].item
  <2>1. PICK m \in Nat : m = n - 1
    BY <1>2
  <2>2. Items(r) = [k \in 1 .. m |-> r[k].item]
    BY <1>8, <2>1 DEF Items
  <2>3. \A k \in 1 .. m : r[k].item \in T
    BY <1>8, <2>1
  <2> HIDE DEF T
  <2>4. Items(r) \in [1 .. m -> T]
    BY <2>2, <2>3
  <2> QED
    BY <2>1, <2>2, <2>4
<1> HIDE DEF T
<1>13. Lacks(Items(r), Items(flight), i)
  <2>1. ASSUME NEW k \in 1 .. n - 1
        PROVE  Items(r)[k] = IF k < i THEN Items(flight)[k] ELSE Items(flight)[k + 1]
    <3>1. k \in 1 .. n /\ k + 1 \in 1 .. n
      BY <1>2
    <3> QED
      BY <1>9, <1>11, <1>12, <3>1
  <2> QED
    BY <1>11, <1>12, <2>1 DEF Lacks
<1>14. /\ Load(Items(flight)) = Load(Items(r)) + Weight(Items(flight)[i])
       /\ Load(Items(flight)) \in Int /\ Load(Items(r)) \in Int
  <2>1. i \in 1 .. Len(Items(flight))
    BY <1>2, <1>11
  <2> QED
    BY <1>10, <1>11, <1>12, <1>13, <2>1, LoadWithout
<1>15. Sent(r) /\ Deep(flight[i].item) /\ Items(flight)[i] = flight[i].item
  BY <1>1, <1>2, <1>8, <1>11 DEF Sent
<1> QED
  BY <1>5, <1>14, <1>15

\* Handling an answer takes its request off and leaves less.
LEMMA HandleLess ==
    ASSUME DInv, Handle
    PROVE  DInv' /\ Work' < Work
<1>1. PICK i \in DOMAIN flight :
         /\ flight' = RemoveAt(flight, i)
         /\ \/ UNCHANGED <<sequenceQueue, chains>>
            \/ Continue(flight[i].item, flight[i].resp)
  BY DEF Handle, AtDepthCap
<1>2. PICK it : it = flight[i].item
  OBVIOUS
<1>3. PICK L \in Int, M \in Int : L = Load(Items(flight)) /\ M = Load(Items(flight'))
  BY <1>1, FlightLess DEF DInv
<1>4. Sent(flight') /\ Deep(it) /\ L = M + Weight(it)
  BY <1>1, <1>2, <1>3, FlightLess DEF DInv
<1>5. PICK w \in Nat \ {0} : w = Weight(it)
  BY <1>4, DeepWeight
<1>6. /\ Pending(sequenceQueue') /\ chains' \in Nat
      /\ Load(sequenceQueue') \in Int /\ Load(sequenceQueue) \in Int
      /\ Load(sequenceQueue') < Load(sequenceQueue) + w
  <2>1. CASE UNCHANGED <<sequenceQueue, chains>>
    <3>1. PICK S : sequenceQueue \in Seq(S) /\ \A x \in S : Deep(x)
      BY DEF DInv, Pending
    <3>2. Load(sequenceQueue) \in Int
      <4>1. [k \in 1 .. Len(sequenceQueue) |-> Weight(sequenceQueue[k])] \in [1 .. Len(sequenceQueue) -> Int]
        BY <3>1, Weights
      <4>2. PICK n \in Nat : n = Len(sequenceQueue)
        BY <3>1
      <4>3. PICK v \in [1 .. n -> Int] : v = [k \in 1 .. Len(sequenceQueue) |-> Weight(sequenceQueue[k])]
        BY <4>1, <4>2
      <4>4. Load(sequenceQueue) = Total(v)
        BY <4>3, Zenon DEF Load
      <4>5. Total(v) \in Int
        BY TotalRuns
      <4> QED
        BY <4>4, <4>5
    <3>3. PICK q : q = sequenceQueue
      OBVIOUS
    <3>4. q = sequenceQueue' /\ chains' = chains
      BY <2>1, <3>3
    <3> QED
      BY <1>5, <3>2, <3>3, <3>4 DEF DInv
  <2>2. CASE Continue(flight[i].item, flight[i].resp)
    BY <1>2, <1>4, <1>5, <2>2, ContinueLess
  <2> QED
    BY <1>1, <2>1, <2>2
<1>7. Work = Load(sequenceQueue) + L
  BY <1>3, Zenon DEF Work, Items
<1>8. Work' = Load(sequenceQueue') + M
  BY <1>3, Zenon DEF Work, Items
<1>9. Work' < Work
  BY <1>4, <1>5, <1>6, <1>7, <1>8
<1>10. target' = target
  BY DEF Handle
<1> QED
  BY <1>4, <1>6, <1>9, <1>10 DEF DInv

\* Nothing is under way yet.
LEMMA InitDInv == Init => DInv
<1> SUFFICES ASSUME Init PROVE DInv
  OBVIOUS
<1>1. sequenceQueue \in Seq({}) /\ flight \in Seq({}) /\ chains = 0 /\ target \in Targets
  BY DEF Init
<1> QED
  BY <1>1 DEF DInv, Pending, Sent

\* Only an answer takes a request out of flight.
LEMMA DInductive ==
    ASSUME DInv, [Next]_vars
    PROVE  DInv' /\ (Len(flight') < Len(flight) => Work' < Work)
<1>1. PICK S : flight \in Seq(S) /\ \A r \in S : Deep(r.item) /\ r = [item |-> r.item, resp |-> r.resp]
  BY DEF DInv, Sent
<1>2. ASSUME NEW it, Deep(it), flight' = Append(flight, InFlight(it))
      PROVE  Sent(flight') /\ ~(Len(flight') < Len(flight))
  <2> DEFINE r == InFlight(it)
  <2>1. Deep(r.item) /\ r = [item |-> r.item, resp |-> r.resp]
    BY <1>2 DEF InFlight
  <2> HIDE DEF r
  <2>2. flight \in Seq(S \cup {r}) /\ \A x \in S \cup {r} : Deep(x.item) /\ x = [item |-> x.item, resp |-> x.resp]
    BY <1>1, <2>1
  <2>3. flight' = Append(flight, r)
    BY <1>2 DEF r
  <2>4. flight' \in Seq(S \cup {r}) /\ Len(flight') = Len(flight) + 1 /\ Len(flight) \in Nat
    BY <2>2, <2>3
  <2> QED
    BY <2>2, <2>4 DEF Sent
<1>3. CASE SendSeed
  <2>1. PICK t, ids, q : flight' = Append(flight, InFlight(Item(t, ids, q, 0, NoChain, NoKey)))
    BY <1>3 DEF SendSeed
  <2>2. Deep(Item(t, ids, q, 0, NoChain, NoKey))
    BY ChainsAssumption DEF Deep, Item, NoChain
  <2>3. Sent(flight') /\ ~(Len(flight') < Len(flight))
    BY <1>2, <2>1, <2>2
  <2> QED
    BY <1>3, <2>3 DEF SendSeed, DInv, Pending
<1>4. CASE SendQueued
  <2>1. PICK Q : sequenceQueue \in Seq(Q) /\ \A x \in Q : Deep(x)
    BY DEF DInv, Pending
  <2>2. sequenceQueue # <<>> /\ flight' = Append(flight, InFlight(Head(sequenceQueue)))
        /\ sequenceQueue' = Tail(sequenceQueue) /\ target' = target /\ chains' = chains
    BY <1>4 DEF SendQueued
  <2>3. Head(sequenceQueue) \in Q /\ Tail(sequenceQueue) \in Seq(Q)
    BY <2>1, <2>2
  <2>4. Sent(flight') /\ ~(Len(flight') < Len(flight))
    BY <1>2, <2>1, <2>2, <2>3
  <2> QED
    BY <2>1, <2>2, <2>3, <2>4 DEF DInv, Pending
<1>5. CASE Answer
  <2>1. PICK i, o : i \in DOMAIN flight /\ flight' = [flight EXCEPT ![i].resp = o.resp]
    BY <1>5 DEF Answer
  <2>2. PICK it : it = flight[i].item
    OBVIOUS
  <2> DEFINE r == [item |-> it, resp |-> o.resp]
  <2>3. flight[i] \in S /\ flight[i] = [item |-> it, resp |-> flight[i].resp] /\ Deep(it)
    BY <1>1, <2>1, <2>2
  <2>4. [flight[i] EXCEPT !.resp = o.resp] = r
    BY <2>3
  <2>5. flight' = [flight EXCEPT ![i] = r]
    BY <2>1, <2>4
  <2>6. Deep(r.item) /\ r = [item |-> r.item, resp |-> r.resp]
    BY <2>3
  <2> HIDE DEF r
  <2>7. flight \in Seq(S \cup {r}) /\ \A x \in S \cup {r} : Deep(x.item) /\ x = [item |-> x.item, resp |-> x.resp]
    BY <1>1, <2>6
  <2>8. PICK n \in Nat : n = Len(flight)
    BY <1>1
  <2>9. flight \in [1 .. n -> S \cup {r}] /\ n = Len(flight')
    BY <2>5, <2>7, <2>8
  <2>10. flight' \in [1 .. n -> S \cup {r}]
    BY <2>5, <2>7, <2>9
  <2>11. flight' \in Seq(S \cup {r}) /\ ~(Len(flight') < Len(flight))
    BY <2>8, <2>9, <2>10
  <2>12. Sent(flight')
    BY <2>7, <2>11 DEF Sent
  <2> QED
    BY <1>5, <2>11, <2>12 DEF Answer, DInv, Pending
<1>6. CASE Handle
  BY <1>6, HandleLess
<1>7. CASE UNCHANGED vars
  <2>1. flight' = flight /\ sequenceQueue' = sequenceQueue /\ chains' = chains /\ target' = target
    BY <1>7 DEF vars
  <2>2. Len(flight) \in Nat
    BY <1>1
  <2> QED
    BY <2>1, <2>2 DEF DInv, Pending, Sent
<1> QED
  BY <1>3, <1>4, <1>5, <1>6, <1>7 DEF Next

\* However an answer branches, into a next page and the followups of as many consumers
\* as the fan-out allows, what it leaves weighs less than its request did: once no seed
\* is sent, chains end (enqueueSequenceFollowups).
THEOREM ChainsEndHolds == Spec => ChainsEnd
<1> DEFINE A == Len(flight') < Len(flight) => Work' < Work
<1>1. DInv /\ [Next]_vars => DInv' /\ [A]_vars
  BY DInductive
<1>2. DInv /\ [Next]_vars => DInv'
  BY <1>1
<1>3. DInv /\ [Next]_vars => [A]_vars
  BY <1>1
<1> HIDE DEF A
<1>4. Spec => [][A]_vars
  BY <1>2, <1>3, InitDInv, PTL DEF Spec
<1> QED
  BY <1>4 DEF A, ChainsEnd
=============================================================================
