------------------------------ MODULE Learning ------------------------------
(***************************************************************************)
(* What the fuzzer learns from answers and feeds back into requests: the   *)
(* runtime store of values and of pairs seen together (engine/store.go,    *)
(* sequence.go), the operands the target compared (cmplog.go), anti-forgery*)
(* tokens harvested beside the main loop, and the token it authenticates   *)
(* with (auth.go, worker.go).                                              *)
(*                                                                         *)
(* Apart from the store, which takes tokens too, the parts share nothing   *)
(* that the properties are about: a behaviour is about one, its scene.     *)
(***************************************************************************)
EXTENDS Integers, SequencesExt

CONSTANTS
    Facts,            \* answers and requests: sequences of <<key, value>> in one object
    Rejected(_),      \* values that the store refuses but a pair takes ("{", "}", "$")
    KeyRank,          \* the alphabetical order of the keys
    TokenKeys,        \* the keys under which the store keeps anti-forgery tokens
    MaxValues, MaxRelations,         \* maxRuntimeValuesPerKey, maxRuntimeRelationsPerKV
    Operands, MaxOperands, PollGap,  \* what the target compares, maxCmpLogStrings, -cmplog-interval
    FormPaths, Tokens,               \* paths of forms, the tokens their pages may show
    MaxTokens, TokenTTL, Cooldown,   \* -antiforgery-max-tokens, -token-ttl, -cooldown
    MaxHarvests,                     \* bound: harvests at once
    ReauthAt, RefreshCooldown,       \* 9 and 30 seconds in the code
    MaxClock, MaxLessons             \* bounds: seconds, and answers of the scene "store"

Keys == ToSet(KeyRank)
Values == Tokens \cup UNION {{kv[2] : kv \in ToSet(fact)} : fact \in Facts}

ASSUME LearningAssumption ==
    /\ {MaxValues, MaxRelations, MaxOperands, MaxTokens, Cooldown, ReauthAt} \subseteq Nat \ {0}
    /\ {TokenTTL, RefreshCooldown, PollGap} \subseteq Nat
    /\ Facts \subseteq Seq(Keys \X Values) /\ TokenKeys \in Seq(Keys)

VARIABLES
    scene,        \* "store", "tokens", "login", or another module's; never changes
    values,       \* runtime.values: key -> sequence, oldest first
    valueSeen,    \* runtime.valueSeen: key -> set
    relations,    \* runtime.relations: <<low key, high key>> -> sequence of pairs
    operands,     \* cmplogPool: [list, seen]
    lastPoll,     \* f.lastCmpLogPoll
    observed,     \* history: pairs of <<key, value>> met in one object or request
    lessons,      \* answers taken in
    clock,
    pool,         \* antiForgeryTokens: token -> when it was last seen
    lastPrune,    \* antiForgeryLastPrune
    harvestAt,    \* antiForgeryHarvestAt: path -> time of the last reservation
    harvests,     \* the goroutines: [path, started, left: the pages to try]
    token,        \* f.token; 0 for none
    snapshot,     \* the token of the default identity, which every request names
    accepted,     \* the tokens the server takes
    issued,       \* how many it has issued
    blocked,      \* authBlocked: the count of refusals of an endpoint
    lastRefresh,  \* f.lastAuthRefresh
    announced     \* how often "token refreshed" has been reported

storeVars == <<values, valueSeen, relations, operands, lastPoll, observed, lessons>>
tokenVars == <<pool, lastPrune, harvestAt, harvests>>
loginVars == <<token, snapshot, accepted, issued, blocked, lastRefresh, announced>>
learnVars == <<scene, clock, storeVars, tokenVars, loginVars>>

Never == -100

-----------------------------------------------------------------------------
(* The runtime store.                                                      *)

\* Mutant of Ring: the evicted value stays in the set.
ForgetfulRing(r, v, max) ==
    IF v \in r.seen THEN r
    ELSE [list |-> Append(IF Len(r.list) < max THEN r.list ELSE Tail(r.list), v),
          seen |-> r.seen \cup {v}]

\* A list of at most max distinct values and the set of those it holds: the
\* oldest makes room, in both.
Ring(r, v, max) ==
    IF v \in r.seen THEN r
    ELSE IF Len(r.list) < max
         THEN [list |-> Append(r.list, v), seen |-> r.seen \cup {v}]
         ELSE [list |-> Append(Tail(r.list), v), seen |-> (r.seen \ {Head(r.list)}) \cup {v}]

RingAll(r, vs, max) ==
    LET after[i \in 0 .. Len(vs)] == IF i = 0 THEN r ELSE Ring(after[i - 1], vs[i], max)
    IN after[Len(vs)]

AddValue(s, kv) ==
    IF Rejected(kv[2]) THEN s
    ELSE LET r == Ring([list |-> s.values[kv[1]], seen |-> s.seen[kv[1]]], kv[2], MaxValues)
         IN [s EXCEPT !.values[kv[1]] = r.list, !.seen[kv[1]] = r.seen]

AddValues(s, kvs) ==
    LET after[i \in 0 .. Len(kvs)] == IF i = 0 THEN s ELSE AddValue(after[i - 1], kvs[i])
    IN after[Len(kvs)]

\* pairKey: the keys in order, and whether they were.
Rank(k) == CHOOSE i \in DOMAIN KeyRank : KeyRank[i] = k
Ascending(a, b) == Rank(a) < Rank(b)
PairKey(a, b) == IF Ascending(a, b) THEN <<a, b>> ELSE <<b, a>>

\* Mutant of AddRelation: the values stay in the order they came in, whatever their keys.
UnorderedRelation(s, a, b) ==
    LET pk == PairKey(a[1], b[1])
        p == <<a[2], b[2]>>
        old == s.relations[pk]
    IN IF a[1] = b[1] \/ p \in ToSet(old) THEN s
       ELSE [s EXCEPT !.relations[pk] =
                Append(IF Len(old) < MaxRelations THEN old ELSE Tail(old), p)]

AddRelation(s, a, b) ==
    LET pk == PairKey(a[1], b[1])
        p == IF Ascending(a[1], b[1]) THEN <<a[2], b[2]>> ELSE <<b[2], a[2]>>
        old == s.relations[pk]
    IN IF a[1] = b[1] \/ p \in ToSet(old) THEN s
       ELSE [s EXCEPT !.relations[pk] =
                Append(IF Len(old) < MaxRelations THEN old ELSE Tail(old), p)]

\* The i-th of a fact with each that follows it, and so each with each.
Relate(s, fact, i) ==
    LET after[j \in 0 .. Len(fact)] ==
          IF j = 0 THEN s
          ELSE IF j <= i THEN after[j - 1] ELSE AddRelation(after[j - 1], fact[i], fact[j])
    IN after[Len(fact)]

AddRelations(s, fact) ==
    LET after[i \in 0 .. Len(fact)] == IF i = 0 THEN s ELSE Relate(after[i - 1], fact, i)
    IN after[Len(fact)]

\* learnFromResponse, learnFromRequestContext: first the values, then the pairs of
\* one object or of a path and its body; Go walks an object in any order.
Learn(s, fact) == AddRelations(AddValues(s, fact), fact)

Orders(fact) == {[i \in DOMAIN fact |-> fact[p[i]]] : p \in {q \in [DOMAIN fact -> DOMAIN fact] : IsInjective(q)}}

Pairs(fact) == {{fact[ij[1]], fact[ij[2]]} : ij \in {x \in (DOMAIN fact) \X (DOMAIN fact) : x[1] < x[2]}}

StoreNow == [values |-> values, seen |-> valueSeen, relations |-> relations]

LearnFromSuccess(fact) ==
    /\ scene = "store" /\ lessons < MaxLessons
    /\ LET s == Learn(StoreNow, fact)
       IN values' = s.values /\ valueSeen' = s.seen /\ relations' = s.relations
    /\ observed' = observed \cup Pairs(fact)
    /\ lessons' = lessons + 1
    /\ UNCHANGED <<scene, operands, lastPoll, clock, tokenVars, loginVars>>

\* pickCorrelated: any pair of the fullest bucket of the wanted keys.
PickCorrelated(keys) ==
    LET buckets == {pk \in DOMAIN relations : pk[1] \in keys /\ pk[2] \in keys}
        fullest == {pk \in buckets : relations[pk] # <<>> /\ \A o \in buckets : Len(relations[o]) <= Len(relations[pk])}
    IN UNION {{{<<pk[1], p[1]>>, <<pk[2], p[2]>>} : p \in ToSet(relations[pk])} : pk \in fullest}

\* pollCmpLogIfDue: the target's answer, or none.
PollCmpLog(answer) ==
    /\ scene = "store" /\ clock - lastPoll >= PollGap
    /\ lastPoll' = clock
    /\ operands' = RingAll(operands, answer, MaxOperands)
    /\ UNCHANGED <<scene, values, valueSeen, relations, observed, lessons, clock, tokenVars, loginVars>>

-----------------------------------------------------------------------------
(* Anti-forgery tokens.  Registering takes the pool's lock token by token;  *)
(* the tokens of one page are one step here.                                *)

\* pruneAntiForgeryTokens, at most every two seconds.
Unexpired(p) == [t \in {u \in DOMAIN p : clock - p[u] <= TokenTTL} |-> p[t]]
Prune(a) ==
    IF a.lastPrune # Never /\ clock - a.lastPrune < 2 THEN a
    ELSE [pool |-> IF TokenTTL = 0 THEN a.pool ELSE Unexpired(a.pool),
          lastPrune |-> clock, store |-> a.store]

\* registerAntiForgeryToken: a known token is seen again, for a new one the oldest
\* makes room (of equally old ones any, which renaming tokens makes the same) and the
\* store learns it.
Oldest(p) == CHOOSE t \in DOMAIN p : \A u \in DOMAIN p : p[t] <= p[u]
Register(a, t) ==
    LET p == Prune(a)
        full == Cardinality(DOMAIN p.pool) >= MaxTokens
        room == IF full THEN [u \in DOMAIN p.pool \ {Oldest(p.pool)} |-> p.pool[u]] ELSE p.pool
    IN IF t \in DOMAIN p.pool THEN [p EXCEPT !.pool[t] = clock]
       ELSE [pool |-> [u \in DOMAIN room \cup {t} |-> IF u = t THEN clock ELSE room[u]],
             lastPrune |-> p.lastPrune, store |-> AddValues(p.store, [i \in DOMAIN TokenKeys |-> <<TokenKeys[i], t>>])]

RegisterAll(a, page) ==
    LET after[i \in 0 .. Len(page)] == IF i = 0 THEN a ELSE Register(after[i - 1], page[i])
    IN after[Len(page)]

PoolNow == [pool |-> pool, lastPrune |-> lastPrune, store |-> StoreNow]

\* The pool and the store as they are after registering.
Registered(a) ==
    /\ pool' = a.pool /\ lastPrune' = a.lastPrune
    /\ values' = a.store.values /\ valueSeen' = a.store.seen
    /\ UNCHANGED <<scene, clock, relations, operands, lastPoll, observed, lessons, loginVars>>

\* learnAntiForgeryFromResponse on a result of the main loop: not into a full pool.
LearnFromPage(page) ==
    /\ scene = "tokens"
    /\ LET pruned == Prune(PoolNow)
       IN Registered(IF Cardinality(DOMAIN pruned.pool) >= MaxTokens THEN pruned
                     ELSE RegisterAll(pruned, page))
    /\ UNCHANGED <<harvestAt, harvests>>

\* antiForgeryHarvestPaths: the page itself, two parents, the root.
HarvestPaths(path) ==
    LET n == Len(path) IN SetToSortSeq({n, n - 1, n - 2, 1} \cap (1..n), >)

\* Mutant of Reserved: a harvest is never refused.
AlwaysReserved(path) == clock >= harvestAt[path]

\* reserveAntiForgeryHarvest, under harvestMu.
Reserved(path) == harvestAt[path] = Never \/ clock - harvestAt[path] >= Cooldown

\* A form is refused for want of a token: a goroutine is sent for one.
HandleRefusedForm(path) ==
    /\ scene = "tokens" /\ Cardinality(harvests) < MaxHarvests
    /\ Reserved(path)
    /\ harvestAt' = [harvestAt EXCEPT ![path] = clock]
    /\ harvests' = harvests \cup {[path |-> path, started |-> clock, left |-> HarvestPaths(path)]}
    /\ UNCHANGED <<scene, clock, pool, lastPrune, storeVars, loginVars>>

\* It reads the next page, which may fail and may show tokens; a new one ends it.  A
\* page without any still prunes.
Harvest(h, page) ==
    /\ scene = "tokens" /\ h \in harvests
    /\ \E a \in IF page = <<>> THEN {PoolNow, Prune(PoolNow)} ELSE {RegisterAll(PoolNow, page)} : Registered(a)
    /\ LET known == DOMAIN Prune(PoolNow).pool
           rest == IF ToSet(page) \subseteq known THEN Tail(h.left) ELSE <<>>
       IN harvests' = (harvests \ {h}) \cup (IF rest = <<>> THEN {} ELSE {[h EXCEPT !.left = rest]})
    /\ UNCHANGED harvestAt

-----------------------------------------------------------------------------
(* The token.  authenticate logs in only while there is none: with one, or  *)
(* with configured headers, it returns at once and without an error.        *)

Authenticate ==
    \/ token # 0 /\ UNCHANGED <<token, accepted, issued>> /\ announced' = announced + 1
    \/ token = 0 /\ token' = issued + 1 /\ issued' = issued + 1
         /\ accepted' = accepted \cup {issued + 1} /\ announced' = announced + 1
    \/ token = 0 /\ UNCHANGED <<token, accepted, issued, announced>>

\* handleResult on a request that names the default identity: a refusal counts,
\* and the ReauthAt-th asks for a new token; a success forgets the count.
HandleAuthedResult ==
    /\ scene = "login" /\ blocked <= ReauthAt
    /\ LET refused == snapshot \notin accepted
           due == refused /\ blocked + 1 = ReauthAt /\ clock - lastRefresh > RefreshCooldown
       IN /\ blocked' = IF refused THEN blocked + 1 ELSE 0
          /\ lastRefresh' = IF due THEN clock ELSE lastRefresh
          /\ IF due THEN Authenticate ELSE UNCHANGED <<token, accepted, issued, announced>>
    /\ UNCHANGED <<scene, clock, snapshot, storeVars, tokenVars>>

\* A token expires, or the server forgets its sessions.
Expire ==
    /\ scene = "login" /\ accepted # {} /\ accepted' = {}
    /\ UNCHANGED <<scene, clock, token, snapshot, issued, blocked, lastRefresh, announced, storeVars, tokenVars>>

Tick ==
    /\ scene \in {"store", "tokens", "login"} /\ clock < MaxClock /\ clock' = clock + 1
    /\ UNCHANGED <<scene, storeVars, tokenVars, loginVars>>

-----------------------------------------------------------------------------

LearnInit ==
    /\ values = [k \in Keys |-> <<>>] /\ valueSeen = [k \in Keys |-> {}]
    /\ relations = [pk \in {x \in Keys \X Keys : Ascending(x[1], x[2])} |-> <<>>]
    /\ operands = [list |-> <<>>, seen |-> {}] /\ lastPoll = Never
    /\ observed = {} /\ lessons = 0 /\ clock = 0
    /\ pool = <<>> /\ lastPrune = Never /\ harvests = {}
    /\ harvestAt = [p \in FormPaths |-> Never]
    /\ token \in {0, 1} /\ snapshot = token /\ accepted = {token} \ {0} /\ issued = token
    /\ (scene # "login" => token = 0)
    /\ blocked = 0 /\ lastRefresh = Never /\ announced = 0

Pages == {<<>>} \cup {<<t>> : t \in Tokens} \cup {<<x[1], x[2]>> : x \in {y \in Tokens \X Tokens : y[1] # y[2]}}

LearnNext ==
    \/ \E given \in Facts : \E fact \in Orders(given) : LearnFromSuccess(fact)
    \/ \E answer \in {<<>>} \cup (Operands \X Operands) : PollCmpLog(answer)
    \/ \E page \in Pages : LearnFromPage(page)
    \/ \E path \in FormPaths : HandleRefusedForm(path)
    \/ \E h \in harvests, page \in Pages : Harvest(h, page)
    \/ HandleAuthedResult
    \/ Expire
    \/ Tick

LearnSpec == LearnInit /\ [][LearnNext]_learnVars

-----------------------------------------------------------------------------
(* Properties.                                                             *)

\* The sets that make additions cheap say exactly what the lists hold, no value
\* is held twice and none beyond the cap, however many have come and gone.
InStep(list, seen, max) == ToSet(list) = seen /\ IsInjective(list) /\ Len(list) <= max
StoreConsistent ==
    /\ \A k \in Keys : InStep(values[k], valueSeen[k], MaxValues)
    /\ InStep(operands.list, operands.seen, MaxOperands)

\* Values that a request takes together have been met together, each under its key.
PairsObserved == PickCorrelated(Keys) \subseteq observed

\* The pool stays within its size whoever fills it, and of two harvests under way
\* for one path the later has waited out the cooldown of the earlier.
HarvestBounded ==
    /\ Cardinality(DOMAIN pool) <= MaxTokens
    /\ \A g, h \in harvests :
          g.path = h.path /\ g # h => g.started - h.started >= Cooldown \/ h.started - g.started >= Cooldown

\* Once a refresh of the token has been reported ("token refreshed"), the client no
\* longer holds the token that was being refused.
RefreshRenews == announced > 0 => token # snapshot
=============================================================================
