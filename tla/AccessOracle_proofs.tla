------------------------ MODULE AccessOracle_proofs ------------------------
(* Proofs about AccessOracle, for any identities, servers and bounds.      *)
EXTENDS AccessOracle, FiniteSetTheorems, SequenceTheorems, TLAPS

\* What a request in flight or in the queue may be, given what was learned of the
\* endpoint: its credentials fit its kind, and whoever is sent without any, or
\* by a trick, goes where somebody has been turned away.
Sound(it) ==
    /\ it.kind = None => it.id \in Names
    /\ it.kind \in {"authbypass", "differential"} =>
          it.noAuth /\ ~it.literal /\ strength >= 1
    /\ it.kind = "differential" => strength >= 2
    /\ it.kind = "bola" =>
          /\ ~it.noAuth /\ ~it.literal /\ it.id \in Names /\ it.origin \in Names
          /\ Session(it.id) # Session(it.origin)
    /\ it.kind = "idempotency" =>
          server.method = "POST" /\ (server.idempotent => it.proof = <<"id", it.body>>)

Good == {it \in Item : Sound(it)}

\* The endpoint's record of refusals is true.
Learned ==
    /\ strength \in 0..2
    /\ strength >= 1 => denied # {}
    /\ strength >= 2 => Anonymous \in denied

Work ==
    /\ server \in Servers
    /\ oracleQueue \in Seq(Good \cup {None})
    /\ flight \subseteq Good
    /\ count \in [Budgets -> Nat] /\ ProbesBounded

Found2 == BypassIsGrounded /\ ReplayFindingsAreReal

IInv == Learned /\ Work /\ Found2

\* A queue and its budgets, between two oracles.
States == {s \in [queue : Seq(Good \cup {None}), count : [Budgets -> Nat]] :
             \A b \in Budgets : s.count[b] <= Cap(b)}

-----------------------------------------------------------------------------
\* Pushing elements of a set onto a queue of that set keeps it one.
LEMMA PushAllType ==
    ASSUME NEW S, NEW q \in Seq(S), NEW its \in Seq(S)
    PROVE  PushAll(q, its) \in Seq(S)
<1> DEFINE all == q \o its
           lo == IF Len(all) > QueueMax THEN Len(all) - QueueMax + 1 ELSE 1
<1>1. all \in Seq(S) /\ Len(all) \in Nat
  OBVIOUS
<1>2. lo \in 1 .. Len(all) + 1
  BY <1>1, AccessAssumption
<1>3. SubSeq(all, lo, Len(all)) \in Seq(S)
  <2> HIDE DEF all, lo
  <2>1. CASE lo <= Len(all)
    BY <1>1, <1>2, <2>1, SubSeqProperties
  <2>2. CASE lo > Len(all)
    BY <1>1, <1>2, <2>2, SubSeqProperties
  <2> QED
    BY <1>1, <1>2, <2>1, <2>2
<1> QED
  BY <1>3 DEF PushAll

\* A foreign probe leaves the queue a queue, and so does taking its head.
LEMMA PushType ==
    ASSUME NEW S, NEW q \in Seq(S), NEW x \in S
    PROVE  Push(q, x) \in Seq(S)
<1>1. CASE Len(q) >= QueueMax
  <2>1. q # <<>>
    BY <1>1, AccessAssumption
  <2> QED
    BY <1>1, <2>1 DEF Push
<1>2. CASE ~(Len(q) >= QueueMax)
  BY <1>2 DEF Push
<1> QED
  BY <1>1, <1>2

\* Probes charged to a budget that has room keep the state bounded.
LEMMA ChargeKeeps ==
    ASSUME NEW s \in States, NEW b \in Budgets, NEW its \in Seq(Good), HasBudget(s, b),
           Len(its) <= Cap(b) - MaxPerEndpoint + 1
    PROVE  Charge(s, its, b) \in States
<1>1. PushAll(s.queue, its) \in Seq(Good \cup {None})
  <2>1. its \in Seq(Good \cup {None}) /\ s.queue \in Seq(Good \cup {None})
    BY DEF States
  <2> QED
    BY <2>1, PushAllType
<1>2. s.count \in [Budgets -> Nat] /\ s.count[b] < MaxPerEndpoint /\ Len(its) \in Nat
  BY DEF States, HasBudget
<1>3. MaxPerEndpoint \in Nat /\ \A c \in Budgets : s.count[c] <= Cap(c)
  BY AccessAssumption DEF States
<1>4. Cap(b) \in Nat
  BY <1>3 DEF Cap
<1>5. s.count[b] + Len(its) \in Nat /\ s.count[b] + Len(its) <= Cap(b)
  BY <1>2, <1>3, <1>4
<1> DEFINE n == [s.count EXCEPT ![b] = @ + Len(its)]
<1>6. n \in [Budgets -> Nat] /\ \A c \in Budgets : n[c] <= Cap(c)
  BY <1>2, <1>3, <1>5
<1> QED
  BY <1>1, <1>6 DEF Charge, States

LEMMA MayProbeKeeps ==
    ASSUME NEW s \in States, NEW b \in Budgets, NEW ok, NEW its,
           ok => its \in Seq(Good) /\ Len(its) <= Cap(b) - MaxPerEndpoint + 1,
           NEW t \in MayProbe(s, ok, its, b)
    PROVE  t \in States
BY ChargeKeeps DEF MayProbe

-----------------------------------------------------------------------------
Techs == {None, "verb", "content-type", "route-case", "param-location"}

\* What a probe keeps of the request it is made from.
MadeFrom(p, it, kind, shadow, noAuth, strip, proof) ==
    /\ p \in Item /\ p.kind = kind /\ p.id = shadow /\ p.noAuth = noAuth
    /\ strip => ~p.literal
    /\ p.origin = it.id /\ p.proof = proof /\ p.body = it.body

LEMMA ProbeFields ==
    ASSUME NEW it \in Item, NEW kind \in Kinds, NEW tech \in Techs,
           NEW shadow \in Names \cup {None}, NEW noAuth \in BOOLEAN, NEW strip \in BOOLEAN,
           NEW proof \in Proofs
    PROVE  MadeFrom(Probe(it, kind, tech, shadow, noAuth, strip, proof),
                    it, kind, shadow, noAuth, strip, proof)
<1> DEFINE lit == it.literal /\ ~strip
           q == [kind |-> kind, tech |-> tech, id |-> shadow, object |-> it.object,
                 body |-> it.body, noAuth |-> noAuth, literal |-> lit, origin |-> it.id,
                 proof |-> proof]
<1>1. lit \in BOOLEAN /\ (strip => ~lit)
  OBVIOUS
<1>2. Probe(it, kind, tech, shadow, noAuth, strip, proof) = q
  BY DEF Probe
<1> HIDE DEF lit
<1>3. it.object \in Objects /\ it.body \in {1, 2} /\ it.id \in Names \cup {None}
  BY DEF Item
<1>4. q \in Item
  BY <1>1, <1>3 DEF Item, Techs
<1> QED
  BY <1>1, <1>2, <1>4 DEF MadeFrom

\* What the body of a success says can be held in a probe.
LEMMA BodyIsProof ==
    ASSUME NEW it \in Item, it.id \in Names, server \in Servers
    PROVE  Body(it) \in Proofs
<1>1. Wire(it) \ {"literal"} \in SUBSET (UNION {Creds(i) : i \in Names})
  BY DEF Wire
<1>2. it.object \in Objects
  BY DEF Item
<1> QED
  BY <1>1, <1>2 DEF Body, Proofs

\* The oracles look at a success of a request that is no probe.
Organics == {it \in Item : it.kind = None /\ it.id \in Names}

LEMMA BolaProbesGood ==
    ASSUME NEW it \in Organics, server \in Servers, NEW p \in BolaShadows(it)
    PROVE  BolaProbes(it, p, TRUE) \in Seq(Good) /\ Len(BolaProbes(it, p, TRUE)) <= MaxPerEndpoint
<1> DEFINE card == Cardinality(Others(it))
           n == IF card < MaxPerEndpoint THEN card ELSE MaxPerEndpoint
<1>1. card \in Nat
  <2>1. Others(it) \subseteq 1 .. Len(Identities)
    BY AccessAssumption DEF Others
  <2>2. Len(Identities) \in Nat
    BY AccessAssumption
  <2>3. IsFiniteSet(1 .. Len(Identities))
    BY <2>2, FS_Interval
  <2>4. IsFiniteSet(Others(it))
    BY <2>1, <2>3, FS_Subset
  <2> QED
    BY <2>4, FS_CardinalityType
<1>2. n \in Nat /\ n <= MaxPerEndpoint
  BY <1>1, AccessAssumption
<1>3. p \in [1..n -> Others(it)]
  BY DEF BolaShadows
<1> HIDE DEF n
<1> DEFINE probe(i) == Probe(it, "bola", None, Identities[p[i]], FALSE, TRUE, Body(it))
<1>4. \A i \in 1..n : probe(i) \in Good
  <2> TAKE i \in 1..n
  <2>1. p[i] \in DOMAIN Identities /\ Session(Identities[p[i]]) # Session(it.id)
    BY <1>3 DEF Others, SameCredentials
  <2>2. Identities[p[i]] \in Names /\ it.id \in Names
    BY <2>1 DEF Names, Organics
  <2>3. "bola" \in Kinds /\ None \in Techs /\ Body(it) \in Proofs
    BY BodyIsProof DEF Kinds, Techs, Organics
  <2>4. /\ probe(i) \in Item /\ probe(i).kind = "bola" /\ probe(i).id = Identities[p[i]]
        /\ ~probe(i).noAuth /\ ~probe(i).literal /\ probe(i).origin = it.id
    <3>1. it \in Item
      BY DEF Organics
    <3>2. MadeFrom(probe(i), it, "bola", Identities[p[i]], FALSE, TRUE, Body(it))
      BY <2>2, <2>3, <3>1, ProbeFields
    <3> QED
      BY <3>2 DEF MadeFrom
  <2>5. probe(i).kind # None
    BY <2>4, AccessAssumption DEF Kinds
  <2> QED
    BY <2>1, <2>2, <2>4, <2>5 DEF Good, Sound
<1>5. [i \in 1..n |-> probe(i)] \in Seq(Good) /\ Len([i \in 1..n |-> probe(i)]) = n
  <2> HIDE DEF probe
  <2> QED
    BY <1>2, <1>4, IsASeq, LenProperties
<1>6. BolaProbes(it, p, TRUE) = [i \in 1..n |-> probe(i)]
  BY <1>3 DEF BolaProbes
<1> QED
  BY <1>2, <1>5, <1>6

-----------------------------------------------------------------------------
\* One oracle after the other leaves a sound queue and a bounded budget.
LEMMA AccessKeeps ==
    ASSUME NEW it \in Organics, server \in Servers, strength \in 0..2, NEW s \in States,
           NEW t \in MaybeAccess(it, s)
    PROVE  t \in States
<1>1. PICK p \in BolaShadows(it) :
         t \in MayProbe(s, Concrete(it) /\ IdentityIsAuthed(it.id) /\ ~Trivial,
                        BolaProbes(it, p, TRUE)
                          \o (IF strength >= 1 THEN BypassProbe(it, TRUE) ELSE <<>>), "access")
  BY DEF MaybeAccess, AccessProbes
<1> DEFINE bola == BolaProbes(it, p, TRUE)
           bypass == IF strength >= 1 THEN BypassProbe(it, TRUE) ELSE <<>>
<1>2. bola \in Seq(Good) /\ Len(bola) <= MaxPerEndpoint
  BY BolaProbesGood
<1>3. bypass \in Seq(Good) /\ Len(bypass) <= 1
  <2>1. CASE strength >= 1
    <3> DEFINE b == Probe(it, "authbypass", None, None, TRUE, TRUE, Body(it))
    <3>1. it \in Item /\ "authbypass" \in Kinds /\ None \in Techs /\ Body(it) \in Proofs
      BY BodyIsProof DEF Kinds, Techs, Organics
    <3>2. MadeFrom(b, it, "authbypass", None, TRUE, TRUE, Body(it))
      BY <3>1, ProbeFields
    <3>3. b.kind # None
      BY <3>1, <3>2, AccessAssumption DEF MadeFrom
    <3>4. b \in Good
      BY <2>1, <3>2, <3>3 DEF Good, Sound, MadeFrom
    <3>5. bypass = <<b>>
      BY <2>1 DEF BypassProbe
    <3> HIDE DEF b, bypass
    <3> QED
      BY <3>4, <3>5
  <2>2. CASE ~(strength >= 1)
    BY <2>2
  <2> QED
    BY <2>1, <2>2
<1> HIDE DEF bola, bypass
<1>4. bola \o bypass \in Seq(Good) /\ Len(bola \o bypass) <= MaxPerEndpoint + 1
  <2>1. Len(bola) \in Nat /\ Len(bypass) \in Nat /\ MaxPerEndpoint \in Nat
    BY <1>2, <1>3, LenProperties, AccessAssumption
  <2>2. bola \o bypass \in Seq(Good) /\ Len(bola \o bypass) = Len(bola) + Len(bypass)
    BY <1>2, <1>3, ConcatProperties
  <2> QED
    BY <1>2, <1>3, <2>1, <2>2
<1>5. Cap("access") - MaxPerEndpoint + 1 = MaxPerEndpoint + 1 /\ "access" \in Budgets
  BY AccessAssumption DEF Cap, Budgets
<1> QED
  BY <1>1, <1>4, <1>5, MayProbeKeeps DEF bola, bypass

\* A single sound probe may be charged to any budget.
LEMMA OneProbe ==
    ASSUME NEW pr \in Good, NEW b \in Budgets
    PROVE  <<pr>> \in Seq(Good) /\ Len(<<pr>>) <= Cap(b) - MaxPerEndpoint + 1
<1>1. Cap(b) \in Int /\ MaxPerEndpoint \in Int /\ Cap(b) >= MaxPerEndpoint
  BY AccessAssumption DEF Cap
<1> QED
  BY <1>1

LEMMA MassAssignKeeps ==
    ASSUME NEW it \in Organics, it.noAuth \in BOOLEAN, NEW s \in States,
           NEW t \in MaybeMassAssign(it, s)
    PROVE  t \in States
<1> DEFINE pr == Probe(it, "massassign", None, it.id, it.noAuth, FALSE, None)
<1>1. it \in Item /\ it.id \in Names \cup {None} /\ "massassign" \in Kinds /\ None \in Techs
       /\ None \in Proofs
  BY DEF Kinds, Techs, Organics, Proofs
<1>2. MadeFrom(pr, it, "massassign", it.id, it.noAuth, FALSE, None)
  BY <1>1, ProbeFields
<1>3. pr.kind # None
  BY <1>1, <1>2, AccessAssumption DEF MadeFrom
<1>4. pr \in Good
  BY <1>2, <1>3 DEF Good, Sound, MadeFrom
<1>5. PICK confirmed \in BOOLEAN :
         t \in MayProbe(s, server.method # "GET" /\ IdentityIsAuthed(it.id) /\ confirmed,
                        <<pr>>, "ma")
  BY DEF MaybeMassAssign
<1> HIDE DEF pr
<1> QED
  BY <1>4, <1>5, OneProbe, MayProbeKeeps DEF Budgets

\* Two techniques for every path with an object, and one each for a read and a body.
LEMMA TechniquesRange ==
    ASSUME server \in Servers
    PROVE  \E n \in 2..4 : DOMAIN Techniques = 1..n /\ \A i \in 1..n : Techniques[i] \in Techs
<1> DEFINE read == IF server.method = "GET" THEN <<"verb">> ELSE <<>>
           typed == IF server.json THEN <<"content-type">> ELSE <<>>
           rest == <<"route-case", "param-location">>
           Short(s) == s \in Seq(Techs) /\ Len(s) \in 0..1
<1>1. "verb" \in Techs /\ "content-type" \in Techs /\ "route-case" \in Techs
       /\ "param-location" \in Techs
  BY DEF Techs
<1>2. Short(<<"verb">>) /\ Short(<<"content-type">>) /\ Short(<<>>)
  BY <1>1
<1>3. Short(read)
  BY <1>2
<1>4. Short(typed)
  BY <1>2
<1>5. rest \in Seq(Techs) /\ Len(rest) = 2
  BY <1>1
<1>6. Techniques = (read \o typed) \o rest
  BY DEF Techniques
<1> HIDE DEF read, typed, rest
<1>7. read \o typed \in Seq(Techs) /\ Len(read \o typed) \in 0..2
  <2>1. read \o typed \in Seq(Techs) /\ Len(read \o typed) = Len(read) + Len(typed)
    BY <1>3, <1>4, ConcatProperties
  <2>2. Len(read) \in 0..1 /\ Len(typed) \in 0..1
    BY <1>3, <1>4
  <2> HIDE DEF Short
  <2>3. Len(read) + Len(typed) \in 0..2
    <3>1. ASSUME NEW m \in 0..1, NEW n \in 0..1 PROVE m + n \in 0..2
      OBVIOUS
    <3> QED
      BY <2>2, <3>1, Zenon
  <2> QED
    BY <2>1, <2>3
<1>8. Techniques \in Seq(Techs) /\ Len(Techniques) \in 2..4
  <2>1. Techniques \in Seq(Techs) /\ Len(Techniques) = Len(read \o typed) + Len(rest)
    BY <1>5, <1>6, <1>7, ConcatProperties
  <2>2. Len(read \o typed) + 2 \in 2..4
    <3>1. ASSUME NEW n \in 0..2 PROVE n + 2 \in 2..4
      OBVIOUS
    <3> QED
      BY <1>7, <3>1, Zenon
  <2> QED
    BY <1>5, <2>1, <2>2, Zenon
<1> QED
  BY <1>8, ElementOfSeq, LenProperties

LEMMA DifferentialKeeps ==
    ASSUME NEW it \in Organics, server \in Servers, strength \in 0..2, NEW s \in States,
           NEW t \in MaybeDifferential(it, s)
    PROVE  t \in States
<1> DEFINE ok == Concrete(it) /\ IdentityIsAuthed(it.id) /\ ~Trivial /\ strength >= 2
           pr(i) == Probe(it, "differential", Techniques[i], None, TRUE, TRUE, Body(it))
           its == [i \in DOMAIN Techniques |-> pr(i)]
<1>1. PICK n \in 2..4 : DOMAIN Techniques = 1..n /\ \A i \in 1..n : Techniques[i] \in Techs
  BY TechniquesRange
<1>2. ASSUME ok PROVE its \in Seq(Good) /\ Len(its) = n
  <2>1. ASSUME NEW i \in 1..n PROVE pr(i) \in Good
    <3>1. it \in Item /\ "differential" \in Kinds /\ Body(it) \in Proofs
      BY BodyIsProof DEF Kinds, Organics
    <3>2. MadeFrom(pr(i), it, "differential", None, TRUE, TRUE, Body(it))
      BY <1>1, <3>1, ProbeFields
    <3>3. pr(i).kind # None
      BY <3>1, <3>2, AccessAssumption DEF MadeFrom
    <3>4. strength >= 2 /\ strength >= 1
      BY <1>2
    <3> HIDE DEF pr, ok
    <3> QED
      BY <3>2, <3>3, <3>4 DEF Good, Sound, MadeFrom
  <2>2. its = [i \in 1..n |-> pr(i)]
    BY <1>1
  <2> HIDE DEF pr, its
  <2> QED
    BY <2>1, <2>2, IsASeq, LenProperties
<1>3. t \in MayProbe(s, ok, its, "diff")
  BY DEF MaybeDifferential
<1>4. n <= Cap("diff") - MaxPerEndpoint + 1 /\ "diff" \in Budgets
  BY AccessAssumption DEF Cap, Budgets
<1> HIDE DEF ok, its
<1>5. ok => its \in Seq(Good) /\ Len(its) <= Cap("diff") - MaxPerEndpoint + 1
  <2>1. ASSUME ok PROVE its \in Seq(Good) /\ Len(its) <= Cap("diff") - MaxPerEndpoint + 1
    <3>1. its \in Seq(Good) /\ Len(its) = n
      BY <1>2, <2>1
    <3> QED
      BY <1>4, <3>1
  <2> QED
    BY <2>1
<1> QED
  BY <1>3, <1>4, <1>5, MayProbeKeeps

LEMMA StaleETagKeeps ==
    ASSUME NEW it \in Organics, it.noAuth \in BOOLEAN, NEW s \in States,
           NEW t \in MaybeStaleETag(it, s)
    PROVE  t \in States
<1> DEFINE pr == Probe(it, "stale_etag", None, it.id, it.noAuth, FALSE, None)
<1>1. it \in Item /\ it.id \in Names \cup {None} /\ "stale_etag" \in Kinds /\ None \in Techs
       /\ None \in Proofs
  BY DEF Kinds, Techs, Organics, Proofs
<1>2. MadeFrom(pr, it, "stale_etag", it.id, it.noAuth, FALSE, None)
  BY <1>1, ProbeFields
<1>3. pr.kind # None
  BY <1>1, <1>2, AccessAssumption DEF MadeFrom
<1>4. pr \in Good
  BY <1>2, <1>3 DEF Good, Sound, MadeFrom
<1>5. t = s \/ (HasBudget(s, "etag") /\ t = Charge(s, <<pr>>, "etag"))
  BY DEF MaybeStaleETag
<1> HIDE DEF pr
<1> QED
  BY <1>4, <1>5, OneProbe, ChargeKeeps DEF Budgets

LEMMA IdempotencyKeeps ==
    ASSUME NEW it \in Organics, it.noAuth \in BOOLEAN, NEW id \in EntityIds(it),
           NEW s \in States, NEW t \in MaybeIdempotency(it, id, s)
    PROVE  t \in States
<1> DEFINE pr == Probe(it, "idempotency", None, it.id, it.noAuth, FALSE, <<"id", id>>)
           ok == server.method = "POST"
<1>1. it \in Item /\ it.body \in {1, 2} /\ it.id \in Names \cup {None}
       /\ "idempotency" \in Kinds /\ None \in Techs
  BY DEF Kinds, Techs, Organics, Item
<1>2. <<"id", id>> \in Proofs
  BY <1>1 DEF EntityIds, Proofs
<1>3. MadeFrom(pr, it, "idempotency", it.id, it.noAuth, FALSE, <<"id", id>>)
  BY <1>1, <1>2, ProbeFields
<1>4. pr.kind # None
  BY <1>1, <1>3, AccessAssumption DEF MadeFrom
<1>5. ASSUME ok PROVE pr \in Good
  <2>1. server.idempotent => id = it.body
    BY <1>5 DEF EntityIds
  <2> QED
    BY <1>3, <1>4, <1>5, <2>1 DEF Good, Sound, MadeFrom
<1>6. t \in MayProbe(s, ok, <<pr>>, "idem")
  BY DEF MaybeIdempotency
<1> HIDE DEF pr, ok
<1> QED
  BY <1>5, <1>6, OneProbe, MayProbeKeeps DEF Budgets

LEMMA AfterProbesKeeps ==
    ASSUME NEW it \in Organics, NEW id \in EntityIds(it), server \in Servers, strength \in 0..2,
           oracleQueue \in Seq(Good \cup {None}), count \in [Budgets -> Nat], ProbesBounded,
           NEW t \in AfterProbes(it, id)
    PROVE  t \in States
<1>0. it.noAuth \in BOOLEAN
  BY DEF Organics, Item
<1>1. [queue |-> oracleQueue, count |-> count] \in States
  BY DEF States, ProbesBounded
<1>2. PICK s1 \in MaybeAccess(it, [queue |-> oracleQueue, count |-> count]) :
      \E s2 \in MaybeMassAssign(it, s1) : \E s3 \in MaybeDifferential(it, s2) :
      \E s4 \in MaybeStaleETag(it, s3) : t \in MaybeIdempotency(it, id, s4)
  BY DEF AfterProbes
<1>3. s1 \in States
  BY <1>1, <1>2, AccessKeeps
<1>4. PICK s2 \in MaybeMassAssign(it, s1) : \E s3 \in MaybeDifferential(it, s2) :
      \E s4 \in MaybeStaleETag(it, s3) : t \in MaybeIdempotency(it, id, s4)
  BY <1>2
<1>5. s2 \in States
  BY <1>0, <1>3, <1>4, MassAssignKeeps
<1>6. PICK s3 \in MaybeDifferential(it, s2) :
      \E s4 \in MaybeStaleETag(it, s3) : t \in MaybeIdempotency(it, id, s4)
  BY <1>4
<1>7. s3 \in States
  BY <1>5, <1>6, DifferentialKeeps
<1>8. PICK s4 \in MaybeStaleETag(it, s3) : t \in MaybeIdempotency(it, id, s4)
  BY <1>6
<1>9. s4 \in States
  BY <1>0, <1>7, <1>8, StaleETagKeeps
<1> QED
  BY <1>0, <1>8, <1>9, IdempotencyKeeps

-----------------------------------------------------------------------------
\* What is learned only adds to what a probe may be.
LEMMA GoodGrows ==
    ASSUME server' = server, strength \in 0..2, strength' \in 0..2, strength <= strength'
    PROVE  Good \subseteq Good' /\ Seq(Good \cup {None}) \subseteq Seq((Good \cup {None})')
<1>1. Good \subseteq Good'
  BY DEF Good, Sound
<1> QED
  BY <1>1, SeqMonotonic

\* A finding that is new is of its probe's kind, and justified.
LEMMA NewFinding ==
    ASSUME NEW it \in Good, it.kind # None, Learned, "ok" \in Answers(it),
           NEW id \in EntityIds(it),
           NEW f \in HandleOracleResult(it, id), f \notin findings
    PROVE  /\ f.kind = it.kind
           /\ it.kind = "idempotency" => ~server.idempotent
           /\ it.kind = "stale_etag" => ~server.locks
           /\ it.kind \in {"authbypass", "differential"} => denied # {}
           /\ it.kind \in {"authbypass", "differential"} /\ f.class = "high"
                => Anonymous \in denied
<1>1. Sound(it) /\ it.kind \in Kinds
  BY DEF Good, Item
<1>2. CASE it.kind = "stale_etag"
  <2>1. ~server.locks
    BY <1>2 DEF Answers
  <2>2. f.kind = it.kind
    BY <1>2 DEF HandleOracleResult, JudgeReplay, RecordAdversarial
  <2> QED
    BY <1>2, <2>1, <2>2
<1>3. CASE it.kind = "idempotency"
  <2>1. f.kind = it.kind /\ <<"id", id>> # it.proof
    BY <1>3 DEF HandleOracleResult, JudgeReplay, RecordAdversarial
  <2>2. server.idempotent => id = it.body /\ it.proof = <<"id", it.body>>
    BY <1>1, <1>3 DEF Sound, EntityIds
  <2> QED
    BY <1>3, <2>1, <2>2
<1>4. CASE it.kind \in Kinds \ {"stale_etag", "idempotency"}
  <2>1. PICK class : f = Finding(it, class) /\
          (it.kind = "authbypass" => class = IF strength >= 2 THEN "high" ELSE "likely")
    BY <1>4 DEF HandleOracleResult, Record, Kinds
  <2>2. f.kind = it.kind /\ f.class = class
    BY <2>1 DEF Finding
  <2>3. it.kind \in {"authbypass", "differential"} => denied # {}
    BY <1>1 DEF Sound, Learned
  <2>4. it.kind = "differential" => Anonymous \in denied
    BY <1>1 DEF Sound, Learned
  <2>5. it.kind = "authbypass" /\ f.class = "high" => Anonymous \in denied
    BY <2>1, <2>2 DEF Learned
  <2> QED
    BY <1>4, <2>2, <2>3, <2>4, <2>5
<1> QED
  BY <1>1, <1>2, <1>3, <1>4

LEMMA SendRequestKeeps == IInv /\ SendRequest => IInv'
<1> SUFFICES ASSUME IInv, SendRequest PROVE IInv'
  OBVIOUS
<1>1. PICK id \in Names, o \in DOMAIN server.allows,
           b \in IF server.method = "POST" THEN {1, 2} ELSE {1} :
         flight' = flight \cup {Organic(id, o, server.literal, b)}
  BY DEF SendRequest
<1>2. server.literal \in BOOLEAN /\ o \in Objects /\ b \in {1, 2}
  BY AccessAssumption DEF IInv, Work, Objects
<1>3. Organic(id, o, server.literal, b) \in Good
  <2>1. Organic(id, o, server.literal, b) \in Item
    BY <1>2 DEF Organic, Item, Proofs
  <2>2. Organic(id, o, server.literal, b).kind = None
         /\ Organic(id, o, server.literal, b).id = id
    BY DEF Organic
  <2>3. None \notin Kinds
    BY AccessAssumption
  <2> QED
    BY <2>1, <2>2, <2>3 DEF Good, Sound, Kinds
<1>4. UNCHANGED <<server, oracleQueue, count, strength, findings, denied>>
  BY DEF SendRequest
<1>5. Good' = Good
  BY <1>4 DEF Good, Sound
<1>6. Work'
  BY <1>1, <1>3, <1>4, <1>5 DEF IInv, Work, ProbesBounded
<1>7. Learned' /\ Found2'
  BY <1>4 DEF IInv, Learned, Found2, BypassIsGrounded, ReplayFindingsAreReal, Found
<1> QED
  BY <1>6, <1>7 DEF IInv

LEMMA SendProbeKeeps == IInv /\ SendProbe => IInv'
<1> SUFFICES ASSUME IInv, SendProbe PROVE IInv'
  OBVIOUS
<1>1. UNCHANGED <<server, count, strength, findings, denied>>
  BY DEF SendProbe
<1>2. Good' = Good
  BY <1>1 DEF Good, Sound
<1>3. oracleQueue \in Seq(Good \cup {None}) /\ oracleQueue # <<>>
  BY DEF IInv, Work, SendProbe
<1>4. Head(oracleQueue) \in Good \cup {None} /\ Tail(oracleQueue) \in Seq(Good \cup {None})
  BY <1>3, HeadTailProperties
<1>5. flight' \subseteq Good /\ oracleQueue' \in Seq(Good \cup {None})
  BY <1>4 DEF SendProbe, IInv, Work
<1>6. Work'
  BY <1>1, <1>2, <1>5 DEF IInv, Work, ProbesBounded
<1>7. Learned' /\ Found2'
  BY <1>1 DEF IInv, Learned, Found2, BypassIsGrounded, ReplayFindingsAreReal, Found
<1> QED
  BY <1>6, <1>7 DEF IInv

LEMMA QueueForeignKeeps == IInv /\ QueueForeign => IInv'
<1> SUFFICES ASSUME IInv, QueueForeign PROVE IInv'
  OBVIOUS
<1>1. UNCHANGED <<server, flight, count, strength, findings, denied>>
  BY DEF QueueForeign
<1>2. Good' = Good
  BY <1>1 DEF Good, Sound
<1>3. oracleQueue' \in Seq(Good \cup {None})
  BY PushType DEF IInv, Work, QueueForeign
<1>4. Work'
  BY <1>1, <1>2, <1>3 DEF IInv, Work, ProbesBounded
<1>5. Learned' /\ Found2'
  BY <1>1 DEF IInv, Learned, Found2, BypassIsGrounded, ReplayFindingsAreReal, Found
<1> QED
  BY <1>4, <1>5 DEF IInv

\* The answer to a probe: at most a finding.
LEMMA HandleProbeKeeps ==
    ASSUME IInv, NEW it \in flight, it.kind # None, NEW a \in Answers(it),
           NEW id \in EntityIds(it), flight' = flight \ {it},
           findings' = IF a = "ok" THEN HandleOracleResult(it, id) ELSE findings,
           UNCHANGED <<server, oracleQueue, count, strength, denied>>
    PROVE  IInv'
<1>1. Good' = Good
  BY DEF Good, Sound
<1>2. Work'
  BY <1>1 DEF IInv, Work, ProbesBounded
<1>3. Learned'
  BY DEF IInv, Learned
<1>4. it \in Good /\ Learned
  BY DEF IInv, Work
<1>5. \A f \in findings' \ findings :
        /\ f.kind = it.kind
        /\ it.kind = "idempotency" => ~server.idempotent
        /\ it.kind = "stale_etag" => ~server.locks
        /\ it.kind \in {"authbypass", "differential"} => denied # {}
        /\ it.kind \in {"authbypass", "differential"} /\ f.class = "high"
             => Anonymous \in denied
  BY <1>4, NewFinding
<1>6. \A f \in findings' :
        /\ f.kind = "idempotency" => ~server.idempotent
        /\ f.kind = "stale_etag" => ~server.locks
        /\ f.kind \in {"authbypass", "differential"} => denied # {}
        /\ f.kind \in {"authbypass", "differential"} /\ f.class = "high" => Anonymous \in denied
  BY <1>5 DEF IInv, Found2, BypassIsGrounded, ReplayFindingsAreReal, Found
<1>7. Found2'
  BY <1>6 DEF Found2, BypassIsGrounded, ReplayFindingsAreReal, Found
<1> QED
  BY <1>2, <1>3, <1>7 DEF IInv

\* The answer to any other request: probes, or a refusal to learn from.
LEMMA HandleOrganicKeeps ==
    ASSUME IInv, NEW it \in flight, it.kind = None, NEW a \in Answers(it),
           NEW id \in EntityIds(it), flight' = flight \ {it},
           UNCHANGED <<findings, server>>,
           strength' = IF a = "denied" THEN MarkAuthRequired(it) ELSE strength,
           IF a = "ok" THEN HandleSuccess(it, id) ELSE UNCHANGED <<oracleQueue, count>>,
           denied' = IF a = "denied" THEN denied \cup {Creds(it.id)} ELSE denied
    PROVE  IInv'
<1>1. it \in Organics
  BY DEF IInv, Work, Good, Sound, Organics
<1>2. strength \in 0..2 /\ strength' \in 0..2 /\ strength <= strength'
  BY DEF IInv, Learned, MarkAuthRequired, Stronger
<1>3. Learned'
  <2>1. denied \subseteq denied'
    OBVIOUS
  <2>2. CASE a = "denied" /\ IdentityIsAuthed(it.id)
    BY <1>2, <2>1, <2>2 DEF IInv, Learned, MarkAuthRequired, Stronger
  <2>3. CASE a = "denied" /\ ~IdentityIsAuthed(it.id)
    <3>1. Anonymous \in denied'
      BY <2>3 DEF IdentityIsAuthed, Anonymous
    <3> QED
      BY <1>2, <3>1 DEF Learned
  <2>4. CASE a # "denied"
    BY <2>4 DEF IInv, Learned
  <2> QED
    BY <2>2, <2>3, <2>4
<1>4. oracleQueue' \in Seq(Good \cup {None}) /\ count' \in [Budgets -> Nat] /\ ProbesBounded'
  <2>1. CASE a = "ok"
    <3>1. PICK t \in AfterProbes(it, id) : oracleQueue' = t.queue /\ count' = t.count
      BY <2>1 DEF HandleSuccess
    <3>2. t \in States
      BY <1>1, <1>2, <3>1, AfterProbesKeeps DEF IInv, Work
    <3> QED
      BY <3>1, <3>2 DEF States, ProbesBounded
  <2>2. CASE a # "ok"
    BY <2>2 DEF IInv, Work, ProbesBounded
  <2> QED
    BY <2>1, <2>2
<1>5. Work'
  BY <1>2, <1>4, GoodGrows DEF IInv, Work
<1>6. Found2'
  BY DEF IInv, Found2, BypassIsGrounded, ReplayFindingsAreReal, Found
<1> QED
  BY <1>3, <1>5, <1>6 DEF IInv

LEMMA Inductive == Spec => []IInv
<1>1. Init => IInv
  <2> SUFFICES ASSUME Init PROVE IInv
    OBVIOUS
  <2>1. Work
    BY AccessAssumption DEF Init, Work, ProbesBounded, Cap
  <2>2. Learned /\ Found2
    BY DEF Init, Learned, Found2, BypassIsGrounded, ReplayFindingsAreReal, Found
  <2> QED
    BY <2>1, <2>2 DEF IInv
<1>2. IInv /\ [Next]_vars => IInv'
  <2> SUFFICES ASSUME IInv, [Next]_vars PROVE IInv'
    OBVIOUS
  <2>1. CASE HandleResult
    <3>1. PICK it \in flight : \E a \in Answers(it), id \in EntityIds(it) :
            /\ flight' = flight \ {it}
            /\ IF it.kind # None
               THEN /\ findings' = IF a = "ok" THEN HandleOracleResult(it, id) ELSE findings
                    /\ UNCHANGED <<oracleQueue, count, strength>>
               ELSE /\ UNCHANGED findings
                    /\ strength' = IF a = "denied" THEN MarkAuthRequired(it) ELSE strength
                    /\ IF a = "ok" THEN HandleSuccess(it, id)
                       ELSE UNCHANGED <<oracleQueue, count>>
            /\ denied' = IF a = "denied" /\ it.kind = None
                         THEN denied \cup {Creds(it.id)} ELSE denied
            /\ UNCHANGED server
      BY <2>1 DEF HandleResult
    <3> QED
      BY <3>1, HandleProbeKeeps, HandleOrganicKeeps
  <2>2. CASE UNCHANGED vars
    <3>1. Good' = Good
      BY <2>2 DEF vars, Good, Sound
    <3> QED
      BY <2>2, <3>1 DEF vars, IInv, Learned, Work, ProbesBounded, Found2, BypassIsGrounded,
                        ReplayFindingsAreReal, Found
  <2> QED
    BY <2>1, <2>2, SendRequestKeeps, SendProbeKeeps, QueueForeignKeeps DEF Next
<1> QED
  BY <1>1, <1>2, PTL DEF Spec

-----------------------------------------------------------------------------
\* For any number of identities and any cap, a budget is overrun at most by the
\* probes of one success (maybeEnqueueAccessProbes).
THEOREM ProbesBoundedHolds == Spec => []ProbesBounded
<1>1. IInv => ProbesBounded
  BY DEF IInv, Work
<1> QED
  BY <1>1, Inductive, PTL

\* Whatever the server's rules and the order of the answers, a finding of
\* unauthenticated access follows a refusal (markAuthRequired, handleOracleResult).
THEOREM BypassIsGroundedHolds == Spec => []BypassIsGrounded
<1>1. IInv => BypassIsGrounded
  BY DEF IInv, Found2
<1> QED
  BY <1>1, Inductive, PTL

\* Every probe is sent with the credentials of its principal alone (mkProbe,
\* stripAuthHeaders).
THEOREM ProbeCarriesShadowHolds == Spec => []ProbeCarriesShadow
<1>1. IInv => ProbeCarriesShadow
  <2> SUFFICES ASSUME IInv, NEW it \in flight
               PROVE  /\ it.kind \in {"authbypass", "differential"} => Wire(it) = {}
                      /\ it.kind = "bola" =>
                           Wire(it) = Creds(it.id) /\ Wire(it) # Creds(it.origin)
    BY DEF ProbeCarriesShadow
  <2>1. Sound(it)
    BY DEF IInv, Work, Good
  <2>2. CASE it.kind \in {"authbypass", "differential"}
    BY <2>1, <2>2 DEF Sound, Wire
  <2>3. CASE it.kind = "bola"
    <3>1. Wire(it) = Creds(it.id) /\ Session(it.id) # Session(it.origin)
           /\ it.id \in Names /\ it.origin \in Names
      BY <2>1, <2>3 DEF Sound, Wire
    <3>2. Creds(it.id) # Creds(it.origin)
      BY <3>1, AccessAssumption DEF Creds
    <3> QED
      BY <2>3, <3>1, <3>2
  <2> QED
    BY <2>2, <2>3
<1> QED
  BY <1>1, Inductive, PTL

\* No server that recognises a repeated request or compares versions is accused
\* of the contrary (handleIdempotencyReplayResult, handleOracleResult).
THEOREM ReplayFindingsAreRealHolds == Spec => []ReplayFindingsAreReal
<1>1. IInv => ReplayFindingsAreReal
  BY DEF IInv, Found2
<1> QED
  BY <1>1, Inductive, PTL
=============================================================================
