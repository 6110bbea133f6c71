---------------------------- MODULE ResourceGraph ----------------------------
(***************************************************************************)
(* The resource graph (engine/resource_graph.go): what a run believes of   *)
(* the target's resources.  One goroutine owns it, so its methods are      *)
(* operators on a graph g:                                                 *)
(*                                                                         *)
(*   g.inst     instances: key -> [life, parent, tenant, op, seq]          *)
(*   g.byType   the index: type -> keys in the order they were inserted    *)
(*   g.recent   all keys, least recently seen first (LastSeenOrder)        *)
(*                                                                         *)
(* A key is a resource type and a value (graphKey); identity kinds,        *)
(* aliases, owners, attributes and versions are left out.                  *)
(***************************************************************************)
EXTENDS Integers, Sequences, FiniteSets, SequencesExt, Functions

CONSTANTS Types, MaxPerType   \* limits.MaxInstancesPerType

ASSUME MaxPerTypeAssumption == MaxPerType \in Nat \ {0}

NoKey == <<"none", 0>>
WalkDepth == 8     \* maxTenantWalkDepth

Alive == {"CREATED", "READABLE", "MODIFIED"}
Dead == {"DELETED", "INVALIDATED"}

EmptyGraph == [inst |-> <<>>, byType |-> [t \in Types |-> <<>>], recent |-> <<>>]

Known(g, k) == k \in DOMAIN g.inst

\* Mutant of Prior: values are compared across resource types.
PriorOfValue(g, k) ==
    LET same == {x \in DOMAIN g.inst : x[2] = k[2]}
    IN IF same = {} THEN "UNKNOWN"
       ELSE g.inst[CHOOSE x \in same : x[1] # k[1] \/ same = {k}].life

Prior(g, k) == IF Known(g, k) THEN g.inst[k].life ELSE "UNKNOWN"

Touch(g, k) == [g EXCEPT !.recent = Append(RemoveFirst(@, k), k)]

\* Mutant of EvictIfOverCap: the index keeps the key.
EvictKeepsIndex(g, type) ==
    IF Len(g.byType[type]) < MaxPerType THEN g
    ELSE LET worst == g.recent[SelectInSeq(g.recent, LAMBDA k : k[1] = type)]
         IN [g EXCEPT !.inst = Restrict(@, DOMAIN @ \ {worst}),
                      !.recent = RemoveFirst(@, worst)]

\* The least recently seen instance of the type makes room for the next.
EvictIfOverCap(g, type) ==
    IF Len(g.byType[type]) < MaxPerType THEN g
    ELSE LET worst == g.recent[SelectInSeq(g.recent, LAMBDA k : k[1] = type)]
         IN [g EXCEPT !.inst = Restrict(@, DOMAIN @ \ {worst}),
                      !.byType[type] = RemoveFirst(@, worst),
                      !.recent = RemoveFirst(@, worst)]

Insert(g, k, op, seq, life) ==
    [g EXCEPT !.inst = [x \in DOMAIN @ \cup {k} |->
                           IF x = k THEN [life |-> life, parent |-> NoKey, tenant |-> NoKey,
                                          op |-> op, seq |-> seq]
                           ELSE @[x]],
              !.byType[k[1]] = Append(@, k)]

RecordInstance(g, k, op, seq, life) ==
    Touch(IF Known(g, k)
          THEN IF life = "UNKNOWN" THEN g ELSE [g EXCEPT !.inst[k].life = life]
          ELSE Insert(EvictIfOverCap(g, k[1]), k, op, seq, life), k)

\* The root of k's ancestors, as far as the walk goes.
ResolveTenantKey(g, k) ==
    LET up[n \in 0..WalkDepth] ==
            IF n = 0 THEN g.inst[k].parent
            ELSE LET r == up[n - 1]
                 IN IF Known(g, r) /\ g.inst[r].parent # NoKey THEN g.inst[r].parent ELSE r
    IN up[WalkDepth]

\* Mutant of LinkParent: the link turned around.
LinkChild(g, parent, k) ==
    IF ~Known(g, parent) THEN g
    ELSE LET linked == IF g.inst[parent].parent = NoKey
                       THEN [g EXCEPT !.inst[parent].parent = k] ELSE g
         IN [linked EXCEPT !.inst[parent].tenant = ResolveTenantKey(linked, parent)]

\* A route names parent before k.  The first parent stays.
LinkParent(g, parent, k) ==
    LET linked == IF g.inst[k].parent = NoKey THEN [g EXCEPT !.inst[k].parent = parent] ELSE g
    IN [linked EXCEPT !.inst[k].tenant = ResolveTenantKey(linked, k)]

FindCompatibleResources(g, type, lives) ==
    {k \in Range(g.byType[type]) : g.inst[k].life \in lives}

\* Mutant of FindCompatibleInTenant: the scope is not applied.
FindCompatibleAnywhere(g, type, tenant, lives) == FindCompatibleResources(g, type, lives)

FindCompatibleInTenant(g, type, tenant, lives) ==
    {k \in FindCompatibleResources(g, type, lives) :
        tenant = NoKey \/ g.inst[k].tenant = tenant \/ k = tenant}

\* The one of them that was inserted last, if there is one.
Newest(g, type, ks) ==
    LET s == g.byType[type]
    IN {s[i] : i \in {j \in DOMAIN s : s[j] \in ks /\ \A h \in DOMAIN s : s[h] \in ks => h <= j}}

\* deriveLifecycleTransition for a success, which is all that reaches it.
NextLife(method, prior) ==
    CASE method = "POST"   -> "CREATED"
      [] method = "GET"    -> IF prior \in Dead THEN "STALE" ELSE "READABLE"
      [] method = "PUT"    -> IF prior \in Dead THEN "INVALIDATED" ELSE "MODIFIED"
      [] method = "DELETE" -> "DELETED"

\* The violation, if any, that recordStaleObjectFinding is called with.
Violation(method, prior) ==
    LET to == NextLife(method, prior)
    IN CASE to = "STALE" -> "stale_read"
         [] to = "INVALIDATED" -> "update_after_delete"
         [] to = "DELETED" /\ prior = "DELETED" -> "repeated_deletion"
         [] OTHER -> "none"

\* Every index names the same instances, none twice, and none exceeds the cap.
IndexOK(g) ==
    /\ Range(g.recent) = DOMAIN g.inst /\ IsInjective(g.recent)
    /\ \A t \in Types :
         /\ Range(g.byType[t]) = {k \in DOMAIN g.inst : k[1] = t}
         /\ IsInjective(g.byType[t])
         /\ Len(g.byType[t]) <= MaxPerType
=============================================================================
