---------------------------- MODULE AccessOracle ----------------------------
(***************************************************************************)
(* The replaying oracles (engine/oracle.go, adversarial.go, idempotency.go)*)
(* of one endpoint: a request that succeeds gives rise to probes, copies   *)
(* of it under another identity, under none, or altered; handleOracleResult*)
(* turns an answer to a probe into a finding.  Requests and probes are in  *)
(* flight together and may be answered in any order.                       *)
(*                                                                         *)
(* endpointKey normalises object ids away, so an endpoint has several      *)
(* objects, each with its own access rule.                                 *)
(***************************************************************************)
EXTENDS Integers, Sequences, FiniteSets, SequencesExt

CONSTANTS
    Identities,    \* f.identities, a sequence of names
    Session(_),    \* the token or cookie of an identity, or None
    ApiKey(_),     \* its X-Api-Key header, or None
    None,
    Servers,       \* the servers a run may meet
    MaxPerEndpoint, QueueMax,   \* Config.AccessProbeMaxPerEndpoint, QueueMax
    MaxFlight      \* the dispatcher's target

Names == {Identities[i] : i \in DOMAIN Identities}
Kinds == {"bola", "authbypass", "differential", "massassign", "stale_etag", "idempotency"}
\* accessProbeCount[ep], [ep|diff], [ep|ma]; adversarialProbeCount[ep], [ep|idem]
Budgets == {"access", "diff", "ma", "etag", "idem"}

\* A session token travels in another header than an API key.
ASSUME AccessAssumption ==
    /\ Identities \in Seq(Names)
    /\ None \notin Kinds \cup Names
    /\ \A i, j \in Names : Session(i) = ApiKey(j) => Session(i) = None
    /\ \A s \in Servers : s.method \in {"GET", "PUT", "POST"} /\ s.literal \in BOOLEAN
                        /\ s.json \in BOOLEAN    \* its requests have a JSON body
    /\ MaxPerEndpoint \in Nat /\ QueueMax \in Nat \ {0}

VARIABLES
    server,      \* what the endpoint does; never changes
    oracleQueue, flight,
    count,       \* the probes charged to each budget
    strength,    \* authRequiredEndpoints: 0, 1 or 2
    findings,    \* what was recorded, by deduplication key, with its class
    denied       \* history: the credentials the endpoint answered 401 or 403 to

vars == <<server, oracleQueue, flight, count, strength, findings, denied>>

-----------------------------------------------------------------------------
(* Credentials.                                                            *)

Creds(id) == {Session(id), ApiKey(id)} \ {None}

IdentityIsAuthed(id) == Creds(id) # {}

\* Only the Authorization and Cookie headers and the token are compared.
SameCredentials(a, b) == Session(a) = Session(b)

\* What a request carries.  "literal" is a credential header that the grammar
\* declares as a parameter and that the template therefore renders.
Wire(it) == (IF it.noAuth THEN {} ELSE Creds(it.id))
              \cup (IF it.literal THEN {"literal"} ELSE {})

-----------------------------------------------------------------------------
(* The server: who may reach an object, whether a confusing variant of a    *)
(* request escapes the check, and what an answer holds.                     *)

Allowed(it) ==
    \/ Wire(it) \ {"literal"} \in server.allows[it.object]
    \/ it.tech # None /\ server.confused

\* "err" is a request that got no answer.
Answers(it) ==
    {"err"} \cup
    (IF ~Allowed(it) THEN {"denied"}
     ELSE IF it.kind = "stale_etag" /\ server.locks THEN {"conflict"}
     ELSE {"ok"})

\* The response body, as far as the oracles tell bodies apart.
Body(it) == IF server.body = "own" THEN <<"own", Wire(it) \ {"literal"}>>
                                   ELSE <<server.body, it.object>>

\* The first entity id of a response to a POST.  An idempotent create answers
\* a request that it has seen with the id it gave it.
EntityIds(it) == IF server.method # "POST" THEN {None}
                 ELSE IF server.idempotent THEN {it.body} ELSE {1, 2}

-----------------------------------------------------------------------------
(* Queueing.                                                               *)

\* oracleEnqueue
Push(q, it) == Append(IF Len(q) >= QueueMax THEN Tail(q) ELSE q, it)
PushAll(q, its) ==
    LET all == q \o its
    IN SubSeq(all, IF Len(all) > QueueMax THEN Len(all) - QueueMax + 1 ELSE 1, Len(all))

\* A probe and the budget it is charged to; chance may hold all of them back.
Charge(s, its, b) ==
    [queue |-> PushAll(s.queue, its), count |-> [s.count EXCEPT ![b] = @ + Len(its)]]

\* Mutant of HasBudget: off by one.
HasBudgetOrMet(s, b) == s.count[b] <= MaxPerEndpoint

HasBudget(s, b) == s.count[b] < MaxPerEndpoint

MayProbe(s, ok, its, b) ==
    IF ok /\ HasBudget(s, b) THEN {s, Charge(s, its, b)} ELSE {s}

Probe(it, kind, tech, shadow, noAuth, strip, origin) ==
    [kind |-> kind, tech |-> tech, id |-> shadow, object |-> it.object, body |-> it.body,
     noAuth |-> noAuth, literal |-> it.literal /\ ~strip, origin |-> it.id, proof |-> origin]

Concrete(it) == it.object # None     \* pathHasConcreteResourceID
Trivial == server.body = "trivial"   \* isTrivialBody

\* Those a BOLA probe is sent under, the first of the identities with other
\* credentials, never more than the cap: the one increasing choice of positions.
Others(it) ==
    {i \in DOMAIN Identities :
        Identities[i] # it.id /\ ~SameCredentials(Identities[i], it.id)}
BolaShadows(it) ==
    LET n == IF Cardinality(Others(it)) < MaxPerEndpoint
             THEN Cardinality(Others(it)) ELSE MaxPerEndpoint
    IN {p \in [1..n -> Others(it)] :
          /\ \A i, j \in 1..n : i < j => p[i] < p[j]
          /\ \A o \in Others(it), j \in 1..n : o < p[j] => \E i \in 1..n : p[i] = o}

BolaProbes(it, p, strip) ==
    [i \in DOMAIN p |-> Probe(it, "bola", None, Identities[p[i]], FALSE, strip, Body(it))]
BypassProbe(it, strip) == <<Probe(it, "authbypass", None, None, TRUE, strip, Body(it))>>

\* Mutant of AccessProbes: the authbypass probe no longer waits for a rejection,
AccessProbesUngated(it) ==
    {BolaProbes(it, p, TRUE) \o BypassProbe(it, TRUE) : p \in BolaShadows(it)}

\* and the template's own credential header stays in the copy.
AccessProbesUnstripped(it) ==
    {BolaProbes(it, p, FALSE) \o (IF strength >= 1 THEN BypassProbe(it, FALSE) ELSE <<>>)
       : p \in BolaShadows(it)}

\* The probes maybeEnqueueAccessProbes makes.  The cap is asked for before the first.
AccessProbes(it) ==
    {BolaProbes(it, p, TRUE) \o (IF strength >= 1 THEN BypassProbe(it, TRUE) ELSE <<>>)
       : p \in BolaShadows(it)}

MaybeAccess(it, s) ==
    UNION {MayProbe(s, Concrete(it) /\ IdentityIsAuthed(it.id) /\ ~Trivial, its, "access")
             : its \in AccessProbes(it)}

\* requestPathHasConfirmedContext is the resource graph's word, and JSON bodies
\* are those that mergePrivilegeFieldsJSON can add a field to.
MaybeMassAssign(it, s) ==
    UNION {MayProbe(s, server.method # "GET" /\ IdentityIsAuthed(it.id) /\ confirmed,
                    <<Probe(it, "massassign", None, it.id, it.noAuth, FALSE, None)>>, "ma")
             : confirmed \in BOOLEAN}

\* Verb confusion for reads, content-type confusion for whatever has a JSON body, a
\* read included; route case and parameter location for every path with an object.
Techniques == (IF server.method = "GET" THEN <<"verb">> ELSE <<>>)
                \o (IF server.json THEN <<"content-type">> ELSE <<>>)
                \o <<"route-case", "param-location">>

MaybeDifferential(it, s) ==
    MayProbe(s, Concrete(it) /\ IdentityIsAuthed(it.id) /\ ~Trivial /\ strength >= 2,
             [i \in DOMAIN Techniques |->
                Probe(it, "differential", Techniques[i], None, TRUE, TRUE, Body(it))], "diff")

\* Without chance: the instance's known version decides.
MaybeStaleETag(it, s) ==
    UNION {IF server.method = "PUT" /\ versioned /\ HasBudget(s, "etag")
           THEN {Charge(s, <<Probe(it, "stale_etag", None, it.id, it.noAuth, FALSE, None)>>, "etag")}
           ELSE {s} : versioned \in BOOLEAN}

MaybeIdempotency(it, id, s) ==
    MayProbe(s, server.method = "POST",
             <<Probe(it, "idempotency", None, it.id, it.noAuth, FALSE, <<"id", id>>)>>, "idem")

\* The queue and the budgets after the oracles, one after the other, have seen the
\* success of it.
AfterProbes(it, id) ==
    UNION {UNION {UNION {UNION {MaybeIdempotency(it, id, s4)
        : s4 \in MaybeStaleETag(it, s3)} : s3 \in MaybeDifferential(it, s2)}
        : s2 \in MaybeMassAssign(it, s1)}
        : s1 \in MaybeAccess(it, [queue |-> oracleQueue, count |-> count])}

-----------------------------------------------------------------------------
(* Findings.                                                               *)

\* recordAccessControlFinding: the first finding of a key is kept, whatever later
\* evidence says.  The key has the endpoint, not the object.
Finding(it, class) ==
    [kind |-> it.kind, origin |-> it.origin, shadow |-> it.id, tech |-> it.tech,
     ids |-> <<>>, class |-> class]
Record(it, class) ==
    IF \E f \in findings : f = [Finding(it, class) EXCEPT !.class = f.class]
    THEN findings
    ELSE findings \cup {Finding(it, class)}

\* recordAdversarialFinding: its key has the ids compared, and no identity.
RecordAdversarial(it, ids) ==
    findings \cup {[kind |-> it.kind, origin |-> None, shadow |-> None, tech |-> None,
                    ids |-> ids, class |-> "likely"]}

Granted(it) == server.body \notin {"error", "trivial"}
Identical(it) == Body(it) = it.proof

\* Mutant of JudgeReplay: an answer with any id counts as a second object.
JudgeAnyId(it, id) ==
    IF it.kind \in Kinds THEN RecordAdversarial(it, <<it.proof, id>>) ELSE findings

\* The oracles that judge before the body is looked at.
JudgeReplay(it, id) ==
    IF it.kind = "stale_etag" \/ <<"id", id>> # it.proof
    THEN RecordAdversarial(it, <<it.proof, id>>) ELSE findings

\* handleOracleResult, for an answer that is neither an error nor a refusal.
HandleOracleResult(it, id) ==
    IF it.kind \in {"stale_etag", "idempotency"} THEN JudgeReplay(it, id)
    ELSE IF ~Granted(it) THEN findings
    ELSE CASE it.kind = "massassign" ->
                IF server.overposts THEN Record(it, "likely") ELSE findings
           [] it.kind = "authbypass" ->
                Record(it, IF strength >= 2 THEN "high" ELSE "likely")
           [] it.kind = "differential" -> Record(it, "high")
           [] it.kind = "bola" -> Record(it, IF Identical(it) THEN "high" ELSE "likely")

-----------------------------------------------------------------------------
(* The run.                                                                *)

Init ==
    /\ server \in Servers
    /\ oracleQueue = <<>> /\ flight = {}
    /\ count = [b \in Budgets |-> 0]
    /\ strength = 0 /\ findings = {} /\ denied = {}

Organic(id, o, l, b) ==
    [kind |-> None, tech |-> None, id |-> id, object |-> o, noAuth |-> FALSE,
     literal |-> l, body |-> b, origin |-> None, proof |-> None]

\* The scheduler sends a request that is no probe.
SendRequest ==
    /\ Cardinality(flight) < MaxFlight
    /\ \E id \in Names, o \in DOMAIN server.allows,
          b \in IF server.method = "POST" THEN {1, 2} ELSE {1} :
         flight' = flight \cup {Organic(id, o, server.literal, b)}
    /\ UNCHANGED <<server, oracleQueue, count, strength, findings, denied>>

\* buildWorkItem takes the oldest probe.
SendProbe ==
    /\ oracleQueue # <<>> /\ Cardinality(flight) < MaxFlight
    /\ oracleQueue' = Tail(oracleQueue)
    /\ flight' = IF Head(oracleQueue) = None THEN flight
                                             ELSE flight \cup {Head(oracleQueue)}
    /\ UNCHANGED <<server, count, strength, findings, denied>>

\* A probe of another endpoint is queued; it may push one of this endpoint's out.
QueueForeign ==
    /\ oracleQueue' = Push(oracleQueue, None)
    /\ UNCHANGED <<server, flight, count, strength, findings, denied>>

Stronger(v) == IF v > strength THEN v ELSE strength

\* markAuthRequired
MarkAuthRequired(it) == Stronger(IF IdentityIsAuthed(it.id) THEN 1 ELSE 2)

HandleSuccess(it, id) ==
    \E s \in AfterProbes(it, id) : oracleQueue' = s.queue /\ count' = s.count

\* handleResult, as far as the oracles go.  A probe's answer goes to
\* handleOracleResult and nowhere else.
HandleResult ==
    \E it \in flight : \E a \in Answers(it), id \in EntityIds(it) :
      /\ flight' = flight \ {it}
      /\ IF it.kind # None
         THEN /\ findings' = IF a = "ok" THEN HandleOracleResult(it, id) ELSE findings
              /\ UNCHANGED <<oracleQueue, count, strength>>
         ELSE /\ UNCHANGED findings
              /\ strength' = IF a = "denied" THEN MarkAuthRequired(it) ELSE strength
              /\ IF a = "ok" THEN HandleSuccess(it, id) ELSE UNCHANGED <<oracleQueue, count>>
      /\ denied' = IF a = "denied" /\ it.kind = None
                   THEN denied \cup {Creds(it.id)} ELSE denied
      /\ UNCHANGED server

Next == SendRequest \/ SendProbe \/ QueueForeign \/ HandleResult

Spec == Init /\ [][Next]_vars

-----------------------------------------------------------------------------
(* Properties.                                                             *)

Objects == UNION {DOMAIN s.allows : s \in Servers}
Proofs  == {None} \cup ({"id"} \X {None, 1, 2}) \cup ({s.body : s \in Servers} \X Objects)
             \cup ({"own"} \X SUBSET (UNION {Creds(i) : i \in Names}))
Item    == [kind : Kinds \cup {None}, id : Names \cup {None}, object : Objects,
            tech : {None, "verb", "content-type", "route-case", "param-location"},
            noAuth : BOOLEAN, literal : BOOLEAN, body : {1, 2},
            origin : Names \cup {None}, proof : Proofs]

\* An element None of the queue is a probe of another endpoint.
TypeOK ==
    /\ server \in Servers /\ oracleQueue \in Seq(Item \cup {None}) /\ flight \subseteq Item
    /\ count \in [Budgets -> Nat] /\ strength \in 0..2

Found(kinds) == {f \in findings : f.kind \in kinds}
Anonymous == {}

Cap(b) == IF b = "access" THEN 2 * MaxPerEndpoint
          ELSE IF b = "diff" THEN MaxPerEndpoint + 3
          ELSE MaxPerEndpoint

\* A budget is overrun at most by the probes of one success: the cap is asked for
\* once, before the identities and the techniques are gone through.
ProbesBounded ==
    \A b \in Budgets : count[b] <= Cap(b)

\* A finding of unauthenticated access is about an endpoint that had turned somebody
\* away; a high one, or one by confusion, about an endpoint that had turned away a
\* caller without credentials.  So an endpoint that anyone may use never has one.
BypassIsGrounded ==
    /\ Found({"authbypass", "differential"}) # {} => denied # {}
    /\ \A f \in Found({"authbypass", "differential"}) : f.class = "high" => Anonymous \in denied

\* A probe reaches the server with the credentials of the principal it is about: none
\* for one sent without authentication, those of the shadow alone for BOLA.  And its
\* principal is another one than the origin's.
ProbeCarriesShadow ==
    \A it \in flight :
      /\ it.kind \in {"authbypass", "differential"} => Wire(it) = {}
      /\ it.kind = "bola" => Wire(it) = Creds(it.id) /\ Wire(it) # Creds(it.origin)

\* Replaying a request does not accuse a server that behaves: a duplicate is reported
\* only of a server that does not recognise the request, a stale write only of one
\* that does not compare versions.
ReplayFindingsAreReal ==
    /\ Found({"idempotency"}) # {} => ~server.idempotent
    /\ Found({"stale_etag"}) # {} => ~server.locks

\* What the help text of -probe-auth-bypass says: the probe "only fires on endpoints
\* that already returned 401/403 to unauth".
BypassAfterUnauthRejection ==
    \A i \in DOMAIN oracleQueue :
        oracleQueue[i] # None /\ oracleQueue[i].kind = "authbypass" => Anonymous \in denied
=============================================================================
