# Verification of Upside

Upside is a coverage-guided fuzzer for .NET REST APIs.  A Python tool chain
instruments the target and compiles a grammar of request templates; the Go
engine `void` (`src/void/internal/engine`) sends requests, reads coverage and
status codes, and reports crashes and oracle findings.

This directory holds TLA+ models of the engine's control logic, the TLC
configurations that check them and TLAPS proofs of their main safety
properties.  Paths below are relative to the repository; `engine/` stands for
`src/void/internal/engine/`.  `PROJECT.json` lists, for every definition, the
lines it models, and for every hazard the property that covers it.

    tlc -workers 2 -config MCDispatch.cfg MCDispatch.tla
    tlapm Dispatch_proofs.tla

## 1. The system

The engine is one *main loop* (a goroutine), a fixed number of HTTP *workers*,
two buffered channels between them, a stdin listener, short-lived token-harvest
goroutines and an optional web server.  Nearly all state belongs to the main
loop: it builds every request (`buildWorkItem`) and handles every result
(`handleResult`).  What interleaves is therefore not the code of the handlers
but the order of results, the contents of queues that outlive the decision to
fill them, and the target's own concurrency.

| Component | Code | State | Operations | What makes it correct |
|---|---|---|---|---|
| Dispatcher | `engine/worker.go` mainLoop, drain | pending count, adaptive target, `workCh`, `resultCh`, stop flags | fill, wait, tune, drain, close; worker take, reply, exit | exact pending count; bounded flight; no lost stop; no leaked worker; a complete report |
| Scheduler | `engine/template.go` buildWorkItem, `worker.go` handleResult | active templates, blocked endpoints, four queues, replay and probe budgets | draw in priority order, enqueue, retire, block | blocked means blocked; budgets hold; no queue starves |
| Sampler | `engine/types.go` FenwickSampler | weights and tree | Append, Set, Total, Pick | choice proportional to weight |
| Corpus | `worker.go` addOrBoostSeed, minimizeCorpus | seeds, their energies, positions remembered by requests in flight | choose, boost, grow, prune, zero | in step with the sampler; bounded; finds kept; the right seed credited |
| Epochs | `worker.go` mainLoop head, `template.go` currentEpoch | fractions, edge and request counts | enter an epoch, rebalance, reset | the time budget is kept; epochs only advance |
| Coverage | `engine/coverage.go`, middleware generated by `tools/prep/fuzzprep/coverage_helper_gen.py` | hit-count bitmap, virgin map, header deltas, engine count | execute, merge, answer, handle, poll, reset | classes counted once; the engine catches up; deltas attributed to their request |
| Race oracle | `engine/race.go`, `identity.go` enqueueRaceBurst | three tracking maps, race queue | enqueue a burst, count a member, evaluate, evict | a finding is a real double success and none is missed |
| Checkpoint | `engine/checkpoint.go` | temporary file, checkpoint file | write, rename, load | never truncated; resume loses nothing saved |
| Access and other oracles | `engine/oracle.go`, `adversarial.go`, `idempotency.go`, `webhook.go` | probe queue, per-kind budgets, auth-required marks, dedup sets | enqueue, send, evaluate | budgets; whose credentials a probe carries; verdicts that follow from what was seen |
| Sequences | `engine/sequence.go`, `pagination.go`, `async.go`, `multipart_chain.go` | follow-up queue, chain state, bindings, workflow files | extend, bind, paginate, persist | every chain ends; values from their own tenant; one file per exemplar |
| Resource graph | `engine/resource_graph.go`, `resource_extraction.go`, `resource_scheduling.go` | typed instances, index, parents, tenants, caps | extract, record, link, evict, look up | indices agree; what it states is true of the target |
| Crash handling | `engine/crash.go`, `cluster.go`, `minimize.go`, `triage.go`, `poc.go` | signatures, clusters | record, reproduce, minimize, cluster | one report per signature; a minimized request still crashes and is minimal |
| Authentication | `engine/auth.go`, `identity.go`, `jwt_expiry.go` | tokens, identities, anti-forgery pool | login, refresh, harvest | a refresh renews; harvests are bounded |
| Value stores | `engine/store.go`, `cmplog.go`, `constants.go` | bounded rings and their sets, pairs seen together | add, evict, sample | ring and set agree; pairs are real pairs |
| Typed bodies | `engine/body_*.go` | a tree for one rendering | build, bind, mutate | valid bodies conform, adversarial ones break the schema once |
| Text mutation | `engine/mutation*.go` | operator weights | mutate, adapt | random by design |
| Reports and UI | `engine/report.go`, `sarif.go`, `poc.go`, `ui.go`, `webui.go` | subscribers | render, broadcast | a slow viewer never stops the engine |
| Tool chain | `cli/`, `tools/`, `bin/` | files, containers | compile, instrument, run | sequential translations |

Interactions: `mainLoop` calls `buildWorkItem` (Scheduler, Corpus, Sampler,
Epochs) and puts the item on `workCh`; a worker sends it to the target, whose
middleware does the coverage accounting; `handleResult` updates corpus, queues,
oracles, coverage and statistics, and `maybeSaveCheckpoint` writes to disk.

### What is hard

* results arrive in any order and name positions, endpoints and bursts that may
  have been pruned, blocked or evicted since their request was built;
* a stop, a signal, the clock and results are taken by three different selects;
* queues drop, maps evict, budgets are asked for in one place and spent in
  another;
* the target's bitmap is shared by all the requests it is executing, and the
  engine learns of it by two different ways that overlap;
* the process may be killed while it saves.

## 2. The modules

| Module | Theorems in | Composed by |
|---|---|---|
| `Dispatch`, abstract `RequestLedger` | `Dispatch_proofs` | `MCDispatch` (refinement) |
| `Scheduler` | `Scheduler_proofs` | `MCScheduler` |
| `Sampler`, `Corpus`, `Checkpoint` | `Corpus_proofs` | |
| `Coverage` | `Feedback_proofs` | |
| `Epochs`, `RaceBurst` | `Epochs_proofs`, `RaceBurst_proofs` | `MCEpochs` |
| `AccessOracle` | `AccessOracle_proofs` | `MCAccessOracle` |
| `ResourceGraph` (a data type) | `Chains_proofs` | `Chains` |
| `Chains` | `Chains_proofs` | `MCChains` |
| `Bodies` (operators on trees) | | `Rendering` |
| `Clusters` | `Feedback_proofs` | `CrashLog` |
| `CrashLog`, abstract `Clusters` | `Feedback_proofs` | `Results` |
| `Learning` | `Feedback_proofs` | `Results` |
| `Results` (CrashLog beside Learning) | `Feedback_proofs` | `Rendering` |
| `Rendering` (Results with the bodies of Bodies) | | `MCResults` |

Each module states its abstraction in its header.  Names are the source's where
TLA+ allows it.  A definition that begins "Mutant of X" is not part of the model:
it is X with a plausible bug, and the run that checks a property must find the
property violated when X is replaced by it.

**Dispatch** (`worker.go` 38-217, 869-914).  `pc` is the place in the
main loop: the loop head, the fill loop, the idle select, the blocking select,
the drain, the report, the end.  One action is one pass from one of these to the
next (`BeginIteration`, `Dispatch`, `EndFill`, `IdleRound`, `WaitRound`,
`LeaveLoop`, `DrainRound`, `EndDrain`, `CloseWorkCh`); `WorkerTake`,
`WorkerReply`, `WorkerExit` are the workers.  Stop, signal, epoch, time budget and
drain deadline are environment steps.  A request is a number; `tuneConcurrency`'s
error rate and latency are chance.  **RequestLedger** is the abstract
specification: a request is sent once, answered at most once, and the reported
number is the number of answers.  **MCDispatch** defines the refinement mapping.

**Scheduler** (`template.go` 111-205, 286-326; `worker.go` 355-565;
`sequence.go` enqueueCrashReplay; `identity.go` enqueueRaceBurst).
`BuildWorkItem` draws from the replay, race, probe and follow-up queues in the
code's order, then from corpus and rotation; `HandleResult` is a success, a crash
or neither, each with all the queues it fills and with the corpus changes that
follow.  Probabilities are nondeterminism.  The corpus is the set of templates
with a seed and those with a positive weight.  A request in flight has a slot of its
own, the lowest that is free, so that the flight is a set although two requests may
be alike.

**Sampler** (`types.go` 193-274) is the Fenwick tree itself, over small integers.
The low-bit climbs are recursive functions on positions.  The descent of `Pick` is an
iteration of `Round`, one pass of its loop; it runs for as many rounds as there are
nodes, more than the halved steps can use, and a round whose step is 0 changes nothing.
`FirstStep` is what the doubling loop and the first halving leave: the last power of
two that is a node.

**Corpus** (`template.go` 163-205; `worker.go` 451-458, 719-780) is the sequence
of seeds, the sampler's weights and the requests in flight with the position they
remember.  Energies are levels in tenths, a parameter: any set of them above the
floor of `template.go` 175.  `sort.Slice` may order equal energies anyhow, so
`MinimizeCorpus` is the set of possible outcomes.

**Epochs** (`worker.go` 25-134, 600-617, 702-717; `template.go` 646-659) is the
schedule: time, the fractions, the counts an epoch is judged by.

**Coverage** (`coverage_helper_gen.py` 194-235 and 398-474; `worker.go` 382-403,
600-617) models the target's bitmap with bytes that wrap, its virgin map, each
request's execution, merge and answer, and the engine's accounting.  A request
that timed out goes on executing in the target.

**RaceBurst** (`race.go`; `identity.go` 463-500; `oracle.go` 409-414) has the race
and the probe queue, the members in flight, the three maps and, as history that
the code does not keep, which members have really reported and succeeded.

**Checkpoint** (`checkpoint.go`; `fuzzer.go` 580-599) splits a save into
truncate, write, rename; `Kill` may happen at every step and `Start` is the next
run.

**AccessOracle** (`oracle.go`, `adversarial.go`, `idempotency.go`, `worker.go`
546-560) is one endpoint of one server, and the probe queue it shares with the
rest of the fuzzer (`QueueForeign` stands for that rest).  `HandleResult` is a
result: a denial teaches that authentication is required (`MarkAuthRequired`), a
success runs the oracles in the code's order (`AfterProbes`), each of which asks its
budget and copies the request (`Probe`), and a probe's answer is judged
(`HandleOracleResult`).  `Wire` is what a request carries when it is sent: the
session and key of its identity, or the literal header of the grammar.  The server
is one of `Servers`; `allows`, the credentials it accepts for each object, makes it
public, owner-only or anything between.

**ResourceGraph** is the graph as a data type, its methods operators.  **Chains**
(`sequence.go`, `pagination.go`, `resource_extraction.go`) runs it: `SendSeed` and
`SendQueued` send, `Answer` is the server, whose objects come and go, and `Handle`
is `enqueueSequenceFollowups` in full: extraction of candidates, graph, bindings,
scope, follow-ups and their branches, next page, depth cap, persistence.  A server
comes with its grammar, its manner of telling ids (in the body, by a `Location`
header, HAL links or JSON:API) and its `asides`, what else its answers may carry: any
number of links under any header or relation, with any path and query (a cookie is a
link without a path), any JSON:API resources, and any field whose text has, or has not,
the shape of an id.  `Candidates` is what the code takes out of all this: of a link the
ids of the path (`Matched`: as far as a template of its length follows it, complete or
not) or its last word, of a link's query, a cookie, a field and the request's own query every
text that is shaped like an id (`Sure`), typed by the field's name or, if that says
nothing, by the endpoint (`Meant`).  None of it need be true.  `RecordCandidate` links
neighbours under one relation, be they of one link or of two.  `Tidy` tells the answers
apart that were not misleading: what they say is there, and no two links under one
header or relation name resources of different types; `tidy` is the history of that.
Links that address a list are left out.  What the graph looks up (`FindCompatibleResources`)
is a set of which `Newest` is the last inserted, and an item records, for the
properties, which resource the graph gave it (`pick`).

**Bodies** (`body_schema.go`, `body_build.go`, `body_bind.go`, `body_mutate.go`) has
the schema tree, the value tree built from it with values bound from the stores,
and the structural operators in both modes.  `Breaches` counts the topmost places
where a value disagrees with its schema.

**Clusters** (`cluster.go`, the first half of `recordCrash`) keeps the findings and
the clusters of their causes: `Report` drops a signature that is `Known` and folds
another into its cluster.  It says nothing of where crashes come from, so that it can
be proved about; `ClustersSpec` reports anything at all, and is the specification
that `CrashSpec` implements.

**CrashLog** (`crash.go`, `cluster.go`, `minimize.go`) takes a server error:
`RecordCrash` computes signature and cause, reports what is new and minimizes
query, body tree, flat body, path and chain by sending smaller requests.  A server
is a sequence of bugs, each a set of features a request must have; `lost` are the
probes that got no answer.  The loops over keys and replacements are one operator,
`TryAll`.  A body is a function from places to what stands there: the name of the
field, a mark (what a server sees) and how many kids it was built with.  A place is
the positions of kids from the root down *as the body was rendered*, so that what is
left keeps its place when a sibling goes, and cutting a kid is taking the places under
it out of the domain (`Gone`).  The recursive walk of `minimizeBodyValueNode` is a list
of places still to go to (`Visit`): each kid costs a probe and each place but the root
was a kid, so the walk is over, or out of probes, after `WalkSteps`.  The code visits
the kids that are left when the kids are done; the list also holds those that were
dropped, which have no kids and change nothing.  Which bodies a template has is
left open (`BodiesOf`).

**Learning** (`store.go`, `cmplog.go`, `auth.go`, `worker.go` 490-535) has the runtime
store, the comparison operands, the anti-forgery pool with the goroutines that
harvest for it, and the token the engine authenticates with.  **Results** composes it
with CrashLog: both are what `handleResult` does beside scheduling and coverage.
They share no state that a property is about, so a behaviour is about one *scene*.
**Rendering** says what the bodies of Results are: those that Bodies builds and mutates,
each with the places and marks of its values (`PlacesOf`), or those a template was
captured with.
A token that is registered is a value the store learns, so the goroutines of
`harvestAntiForgeryForPathReserved` write the store beside the main loop.

## 3. The runs

Twelve runs; eleven pass, one finds a disagreement between the code and what it
reports of itself.

| Run | Checks | Instance, and why it is enough |
|---|---|---|
| `dispatch` | `Conservation` (pending count exact), `NoQueueing`, `CompleteReport`, `ImplementsLedger`; liveness `StopEndsRun`, `WorkersExit` | 2 workers, 3 requests, channels as small as the assumption allows: one more request than there are workers, a target that falls below the flight, a worker that is late at shutdown |
| `scheduler` | `ReplaysBounded`, `BlockedIsFinal`; liveness `ProbesAreSent` | 2 templates of an endpoint each, replay queue of 2, every other queue of 1, so that each overflows; replay count above the endpoint's budget |
| `sampler` | `ExactWhenInStep`, `SetIsExact` | up to 5 seeds of weight 0 to 2: passes two powers of two, with a partial last level |
| `corpus` | `SamplerAligned`, `FindsAreKept` | 2 templates, pruning above 2 seeds to 2, 2 requests in flight, 3 finds: every find prunes, with another request in flight |
| `epochs` | `BudgetKept`, `EpochsAdvance` | the code's percentages of 40 time units; 8 results are enough to judge two epochs either way |
| `coverage` | `CountedOnce`; liveness `CatchesUp` | a request and a probe, one edge, a byte that wraps at 4; timeouts, lost headers, failing polls, resets |
| `race_burst` | `UnprobedFindingIsReal`, `RaceRecorded`; liveness `TrackingEnds` | 3 bursts of 2, tracking cap 1, race queue of 3: eviction and dropping both happen in mid-burst |
| `checkpoint` | `NeverTruncated`, `ResumeLosesNothingSaved`, `SavesNeverRegress` | 4 finds over any number of runs, with and without `-resume` |
| `access` | `ProbesBounded`, `BypassIsGrounded`, `ProbeCarriesShadow`, `ReplayFindingsAreReal` | two users and a guest, 7 servers, 2 requests in flight, 2 probes per endpoint, a queue of 2 that another endpoint fills too: budgets are overrun, probes are dropped, and a denial arrives between a success and the answer to its probes |
| `chains` | `GraphConsistent`, `GraphIsTrue`, `AccusedWasDeleted`, `PicksStayInTenant`, `NoOrphanFiles`; progress `ChainsEnd` | 6 servers with grammars of 3 or 4 templates, 2 seeds, 2 in flight, chains of 3 requests, 2 instances of a type in the graph and 3 on the server: eviction, deletion behind the engine's back, pages, branches and upgrades of exemplars all occur.  The answers of one server also name a slug, the id of something else (a DELETE's included), and two resources of different types under one header |
| `results` | `BodiesAsAsked`, `PocIsWhatCrashed`, `PocMinimal`, `ClustersAccount`, `StoreConsistent`, `PairsObserved`, `HarvestBounded` | a nested and a form template in both modes, 6 bugs, 10 probes of which some are lost, a triage budget of 8; 2 values per key, 2 tokens, 2 harvests at once: each ring and the pool overflow, budgets end in the middle of a minimization |
| `reauth` | `RefreshRenews`, violated | re-authentication after 3 denials instead of 9 |

`access` (1.3 million states), `chains` and `results` take about a minute each, the
others seconds.  The type invariants and `BoundedFlight`, `WorkersNeverBlock`
and `Bookkeeping` are not in the cfgs: those of Dispatch, Epochs, RaceBurst,
Checkpoint, Corpus, Scheduler and Coverage are part of what is proved, the others
are documentation.
`epochs` has `CHECK_DEADLOCK FALSE` because its run ends when the
time is used up, and `chains` and `results` because their seeds and results do.

### Disagreements

`reauth` / `RefreshRenews`: after a stream of 401s the main loop calls
`authenticate` and reports "token refreshed" (`worker.go` 494-505), but
`authenticate` returns at once while a token is held (`auth.go` 42), so the refused
token stays; and requests of the default identity would keep their snapshot of it
even then (`identity.go` 387).  The count must be exactly nine for it to fire.

Six more are stated as definitions without a run in `PROJECT.json`.  Each is
violated by its module as it stands, with this configuration:

| Definition | Module and constants | What TLC finds |
|---|---|---|
| `EverySeedPickable` | `Sampler`: `MaxSeeds = 2`, `MaxWeight = 2` | `Append` gives a new Fenwick node its own weight only, not the sum of the nodes below it (`types.go` 207-214).  With two seeds of weight 1 the second can never be picked.  `sampler` shows what does hold: changing a weight shifts the right sums, and the choice is exact as long as the sums are |
| `BoostsOwnSeed` | `Corpus`: as `MCCorpus.cfg`, `PruneAt = 3`, `MaxChosenNoEdge = 1` | a result boosts the seed *at the position its request remembered* (`worker.go` 734); after a pruning that is another seed |
| `FindingIsReal` | `RaceBurst`: `Bursts = {b1}`, `Probed = {b1}`, `BurstSize = 2`, `RaceQueueMax = 3`, `ProbeQueueMax = 1`, `TrackedMax = 2`, `MaxFlight = 2` | access probes copy a burst member, its `BurstID` included (`oracle.go` 93), and are counted as members.  `UnprobedFindingIsReal` is what holds |
| `OwnEdges` | `Coverage`: `Requests = {r1, r2}`, `Probes = {}`, `Edges = {e1, e2}`, `Width = 4`, `PathBound = 2`, `Interval = 1`, `Resets`, `Streaming`, `Failures` all `FALSE` | `X-Coverage-Delta` is taken from the bitmap all requests share, so the first to end is credited with what the others have executed so far, which the comment at `coverage_helper_gen.py` 414 denies |
| `StaleFindingsAreReal` | `MCChains`: as `MCChains.cfg` | a DELETE marks every resource its path names (`sequence.go` 486), and answers are judged in the order they are handled: an honest server is accused of serving a deleted object.  `AccusedWasDeleted` is what holds |
| `LinksAreReal` | `MCChains`: as `MCChains.cfg` | the comment at `sequence.go` 519 has it that candidates of one header or relation come from one path; every entry of a `Link` header and every href of a HAL relation is matched under the same name (`resource_extraction.go` 526 and 577), so the last resource of one link becomes the parent, and the tenant, of the first of the next.  `GraphIsTrue` and `PicksStayInTenant` are therefore about runs without such answers |

Two more definitions are kept for a reader and are false in general:
`BypassAfterUnauthRejection` (AccessOracle: the help of `-probe-auth-bypass` speaks of
a rejection of an *unauthenticated* caller, but one of any caller raises the strength
to 1, `oracle.go` 125-127) and `ScriptReproduces` (CrashLog: the reproducer of a
minimized form body sends JSON text under a form content type, `minimize.go` 134-145).

Met while modelling, and described here without a run of their own:

* no seed is ever pruned as exhausted: the rule (`worker.go` 764) wants energy
  below 0.3, and `template.go` 175 keeps energies at 0.5 or more;
* a template removed by `-skip-on-crash` is still sent from the corpus and the
  queues, which only ask whether its *endpoint* is blocked (`template.go` 636);
* access probes queued before a 500 are sent to the endpoint that
  `-skip-endpoint-on-500` has blocked (`template.go` 137).  `BlockedIsFinal`
  therefore says "nothing but a probe";
* at `-race-prob 1` every successful member of a burst starts a burst
  (`identity.go` 463), and the probes behind the race queue are never sent.
  `ProbesAreSent` is stated under the assumption that bursts stop coming;
* members of a burst may be sent one after the other and count as simultaneous
  (`race.go` 58);
* a probe that reports after its burst's evaluated mark was evicted opens a count
  that only the cap removes; `TrackingEnds` is about unprobed bursts;
* rebalancing takes time from an epoch that is over, which moves the end of the
  running one (`worker.go` 103); an epoch in which the bitmap was reset is judged
  by a negative number of edges (`worker.go` 92); after the Baseline, "saturation"
  is relative to what the Baseline found (`worker.go` 708);
* a poll counts classes whose deltas are still in flight, and they are added
  again (`worker.go` 391).  `CountedOnce` is about a single accounted request;
* hit counts are not cleared between requests, so buckets are those of all requests
  so far; a reset through the bitmap file leaves the target's virgin map
  (`coverage.go` 399).

Of the oracles:

* two identities are the same by token, `Authorization` and `Cookie` only
  (`oracle.go` 721), so API keys do not tell them apart; the guest is a shadow
  too, and a public endpoint gives a "high" finding;
* the first finding of an endpoint and kind keeps its class (`oracle.go` 523);
* a budget is asked for once: an endpoint may get `2 * Max` access probes and
  `Max + 3` differential ones: a success at `Max - 1` queues up to four, two for the path
  and one each for a read and for a JSON body, which a GET may have both (`oracle.go`
  317 and 323).  `ProbesBounded` is about these bounds;
* the replay of a create fires on every POST that answers with another id, which the
  property allows only of servers that do create twice.

Of sequences and the graph:

* branches of a chain share its id and so the name of its workflow file (depth and
  id, `sequence.go` 744): they overwrite each other's files, and replacing one
  exemplar can delete a file another shape wrote.  `NoOrphanFiles` says that a file
  belongs to *some* exemplar;
* a chain that reaches the depth cap is persisted without its last step (163), and
  only successes reach the code that marks failed steps (158-161), which is dead;
* any text that looks like an id is recorded as a resource of the endpoint's type
  (`resource_extraction.go` 99-115 and 187-245), a slug or a token included, and a DELETE
  marks every one its answer holds as deleted: the next success that names such a text
  is a finding.  `AccusedWasDeleted` is about what a DELETE *named*, not what it deleted;
* a fill of a path puts one value into every hole;
* an opaque instance may exist before its alias is recorded; tier 1 of the body binding
  looks at no tenant; correlated pairs take values that single values refuse
  (`addRelation`, `store.go` 267), which is why `PairsObserved` says "met", not "valid";
* integer ids under a bare key have too little confidence (0.20) to be recorded.

Of crashes, bodies and credentials:

* chain minimization assumes that the history ends with the step that crashes, but
  only successes are appended to it (`sequence.go` 198), so the last success is
  replayed before the crash (`minimize.go` 365);
* minimization accepts any 500, which may be another bug's, makes one pass, and
  blocks the main loop, which the drain deadline pays for; `PocMinimal` is therefore
  about requests minimized with no probe lost and budget to spare.  The path comes last:
  a segment rewritten to `0`, `1`, `id` or `a` may be what *another* bug asks for, which
  then needs less of the query and the body, and nothing is tried again.  A proof of
  `PocMinimal` without that case fails for this reason, so the property excludes
  it (`Unasked`); no cut of query or body alone can have this effect, since whatever
  crashes with less crashes with more;
* a second crash of a signature is dropped even when it is worse;
  `ClusterInfo.CrashesTotal` is never set;
* valid bodies may still break their schema: `minItems` above 5, `maxItems` of 0,
  `uniqueItems`, integer enumerations, ids with bounds of their own.  `Honoured` in
  Rendering names the schemas `BodiesAsAsked` speaks of;
* a text that was observed under an id's name is bound into an id field of type integer
  as a string (`body_bind.go` 93-104).  `Breaches` counts it as the breach it is;
  `BodiesAsAsked` speaks of bodies to which this has not happened (`Misbound`), numbers
  bound into the same fields included;
* when no fresh token is left, `pickAntiForgeryToken` (`auth.go` 243) takes one
  from the runtime store, which has no expiry;
* copies of a request share one header map (`identity.go` 484), which worker
  goroutines write to (`template.go` 605); the models copy records by value.

## 4. Fairness

Fairness is put on the engine's own steps, never on the user, and on chance
nowhere.

* `Dispatch`: weak fairness of the main loop and of each worker (the goroutine
  scheduler runs what can run; an HTTP request ends, at the latest by its timeout)
  and of the drain deadline, a wall-clock time.  The time budget need not expire.
* `Scheduler`: weak fairness of building a request and of handling some result.
  `ProbesAreSent` is conditional on the race queue running dry for good.
* `RaceBurst`: weak fairness of sending, of the loop's other work and of results.
* `AccessOracle`, `Chains`, `Results` state no fairness.  `ChainsEnd` is a measure
  instead, checked and proved: handling an answer adds less work than it takes away,
  so that any run in which answers are handled ends.
* `Coverage`: every request is sent and answered (weak).  Strong fairness says that
  of a request that is sent again and again not every answer is too late, not
  every result stays unhandled and not every poll fails; without it a run of
  unbroken failures is a counterexample that says nothing of the code.

## 5. Proofs

Each theorem holds for every value of the constants that the module's assumption
admits.  The proof modules are laid out alike: an inductive invariant `IInv`,
`Init => IInv`, `IInv /\ [Next]_vars => IInv'` with a step for each action, then
one theorem per property.

* **Dispatch_proofs**: `TypeCorrect`, `ConservationHolds`, `BoundedFlightHolds`,
  `NoQueueingHolds`, `WorkersNeverBlockHolds`, `CompleteReportHolds`, for any finite
  set of workers and any channel capacity not below its size
  (`DispatchAssumption`, which `ParseFlags` and the `make` calls justify).  The
  invariant is `TypeOK`, `Conservation`, `BoundedFlight` and `ShutdownInv`.
  `BoundedFlight` is needed because the target may fall below the flight; it is
  kept since a request is only sent below a target that never exceeds the number of
  workers.  `NoQueueing` and `WorkersNeverBlock` are then arithmetic about
  `pending = Len(workCh) + busy + Len(resultCh)`, except after shutdown, where
  `ShutdownInv` says that a worker leaves only an empty channel behind.
  `CompleteReport` needs its other half: a report that was not cut short began
  with nothing pending.
  `LedgerImplemented`: Dispatch implements RequestLedger.  The
  strengthening `OnePlace` says that a request which was sent is in one place at most,
  on a channel or with a worker, once.  Sending adds a request not seen before,
  a worker's two steps move one, and taking a result removes it: for the ledger the
  first is `Send`, the second a stutter, the third `Answer`, and every other step of
  Dispatch leaves what the ledger sees alone.
* **Scheduler_proofs**: `TypeCorrect`, `ReplaysStayBounded`, `BlockedStaysBlocked`, for
  any templates, endpoints, budgets and queue sizes.  The invariant is `TypeOK` and
  `ReplaysBounded` itself, and the work is counting: the replays of an endpoint are
  the positions of the queue that hold one plus the items in flight that are one, a
  queue that pushes its oldest out never counts more than it was given
  (`CountMore`, `CountRest`), and what is sent moves from one count to the other
  (`FlightMore`).  `BlockedIsFinal` needs only that whatever `BuildWorkItem` sends
  was asked about: each of the five sources has a lemma, and that of the sequence
  queue (`LiveHead`) says that what is left after dropping the blocked head items
  begins with one that is not blocked.
* **Epochs_proofs**: `TypeCorrect`, `BudgetKeptHolds`, `EpochsAdvanceHolds`, for any
  fractions.  `Begun` (the running epoch has begun) is the strengthening: a
  rebalance moves the end of a finished epoch backwards only, so no epoch's
  beginning is moved past the present.
* **RaceBurst_proofs**: `BookkeepingHolds`, `UnprobedFindingIsRealHolds`,
  `RaceRecordedHolds`, for any bursts, sizes and caps.  Lemmas
  say that pushing to a bounded queue keeps it a queue of items and that evicting one
  entry restores the cap.  For the verdicts two facts join it.
  `Once`: a member waits, is in flight or has
  reported, one of them and once.  `CountedOf`: the counts of an unprobed burst never
  exceed the members that reported, and equal them until something of the burst is
  lost or its last member reports, which is when the verdict is taken.  Probed
  bursts are outside it: their counts are the disagreement of section 3.
* **Feedback_proofs**, for Coverage: `TypeCorrect`, `CountedOnceHolds`, for any edges, width,
  interval, failures and resets, and any requests of which at most one has its delta
  counted.  The strengthening `Covered` adds to the engine's count the delta of an
  answer that is not yet handled: an answer raises the target's classes by exactly
  what it claims (`ClassSets`), a poll raises the count to them, and handling the
  answer leaves no other delta outstanding (`OnlyOne`).  `CoverageAssumption` says
  that requests and edges are finitely many, which the number of workers and the
  size of the bitmap give.
  For Learning, of `LearnSpec`:
  `StoreStaysConsistent`, `PairsStayObserved`, `HarvestStaysBounded`, for any facts,
  keys, caps, times and number of harvests.  The invariant types the store and says of
  its pairs that they are in the history `observed` (`Stores`), of each list with its
  set that they are in step (`Rings`), of the pool that it is finite and small
  (`Pools`), and of the harvests that none began after its path was last reserved
  (`Spaced`), which is why a new one, a cooldown later, is a cooldown away from all.
  `RingKeeps` is the eviction: the value that leaves the list is in it once, so taking
  it out of the set takes out no other.  `OldestThere` says that a full pool has an
  oldest token to give up.  `AddValuesKeeps`, `RelateKeeps`, `RegisterAllKeeps` and
  their like take each loop of the code to its end.
  For Clusters, of `ClustersSpec`: `ClustersStayTrue`, for any causes, signatures and
  severities.  The invariant adds to the property that no two findings share a
  signature, without which counting signatures and counting findings would part, and
  bounds severities from above by the cluster's, which says that it is their maximum.
  For CrashLog, of `CrashSpec`: `ReportedStillCrashes`, for any bodies, bugs, budgets and
  lost probes, and any reading a server has of a body.  `Sound` is the invariant of
  minimization: the accepted request crashes the server, its text is its tree, and the
  working copy, which the loop cuts in place, is that tree.  `TryOutcome` says that a
  request is replaced only by one that crashed; `KidKeeps` that a kid is out of request
  and copy alike or back where it was; `TryAllKeeps`, `TreeKeeps` and `MinimizeKeeps` take
  that through the loops and the walk.  At the end the request is handed the copy
  itself: that changes nothing because the two are the same by then.  `SameCrash` is
  what lets labels and histories change.
  `PocsAreMinimal`: a finding that was minimized with an answer to every probe is
  minimal in query and body, whatever the body and however deep (the code's walk stops
  64 levels down, `maxSerializeDepth`; no body is built or wrapped to such a depth).
  It rests on one fact about the server, that a request with less in it does not crash when one with more does not
  (`LessIsSafe`): a cut that was refused stays refused, whatever is cut
  after it.  For the query and the flat body that is the whole argument
  (`QueryMinimal`, `FlatTried`).  For the tree it is the invariant `Walking`: what was
  tried and kept is needed, what is `Pending` is as it was rendered, every place is
  one or the other, and the walk has spent a probe for every kid it tried.  The last part bounds
  the length of the walk by the probes, so that after `WalkSteps` either nothing is
  pending or the probes are used up (`VisitCounts`, `TreeMinimal`).  `VisitWalks`
  rests on how places lie: the kids of a place are apart (`KidsApart`), and whatever is
  strictly below a place is at or below one of its kids (`InSomeKid`).  Replacing a
  segment changes no bug that does not ask for it (`Reroutes`).
  `CrashesAreReports` is the refinement, that
  handling a result reports one new signature or leaves findings and clusters alone,
  and `CrashesKeepClusters` carries `ClustersStayTrue` over.  `CrashLogAssumption`: the
  limits are numbers, queries and bugs are lists, severities are integers, and a body is
  one (`IsBody`): it has a root, the places above each place, and the kids it counts.
  For Results, of the whole `ResultsSpec`: `ResultsAreBoth`, that it implements `CrashSpec` and
  `LearnSpec`, since no step of one touches a variable of the other; hence
  `ResultsHold`, the six safety invariants of the run together.
* **Corpus_proofs**: `TypeCorrect`, `SamplerStaysAligned`, `CorpusStaysBounded`,
  `FindsStayKept`, for any templates, energies and limits.  The invariant is the types,
  the alignment and the bound.  `PruneKeepsStrongest` is the heart: as no energy falls
  below the floor, no seed is ever exhausted, so a corpus that has outgrown `PruneAt`
  is cut to the `MaxCorpus` strongest, and whoever is dropped is dropped for seeds
  that are no weaker.  `GrowKeeps` and `EdgeGrows` carry that through the boost which
  precedes it: a boost raises an energy or leaves the highest there is.
  For `Checkpoint`: `CheckpointTypeCorrect`, `NeverTruncatedHolds`,
  `ResumeLosesNothingHolds`, `SavesNeverRegressHolds`, over any history of saves,
  failures, kills and runs.  The strengthening says that the file is the last
  completed save and that between write and rename the temporary file equals the
  process's memory.
  For `Sampler`: `SetStaysExact`, `PicksAreExact` and `SumsNeverAhead`, for any number of
  seeds and any weights.  The argument is the arithmetic of a Fenwick tree.  By
  halving, the low bit of a position is a power of two that divides it (`LowBitDef`,
  `OddEven`, `Halves`), and the ranges `j - LowBit[j] + 1 .. j` that the nodes cover
  are nested or apart (`Nested`).  So the climb from `i` visits the nodes that cover
  `i` and no others (`ClimbCovers`), and on the way down to any `k` there is exactly
  one of them when `i <= k` and none otherwise (`AddShifts`): a change of a weight moves
  the sums it should and keeps every sum as far from the true one as it was
  (`SetKeeps`).  The descent has an invariant of its own, `OnTheWay`: the sum passed
  over is not above the target, the sum at the next boundary is, and the step fits
  the nodes (`RoundKeeps`, which rests on `SumBit`); its end is the seed whose range of
  sums the target is in (`DescentFinds`, `TargetsOfSeed`), and counting the targets of
  a seed gives its weight.  `AppendKeeps` says what an append does to all this: the new
  sum starts from that below the nodes the new one covers, so it falls short of the true
  one by the weights it covers and never exceeds it.  That is `SumsNeverAhead`, the part
  of the tree's meaning that survives the appends of the finding `EverySeedPickable`:
  no seed is ever picked by a weight the seeds do not have.  Its base, that these recursive
  functions exist and have the values of their equations, is `Recursion`: a function
  whose value at a point is made of its values at points of lower rank exists.
* **AccessOracle_proofs**: `ProbesBoundedHolds`, `BypassIsGroundedHolds`,
  `ProbeCarriesShadowHolds`, `ReplayFindingsAreRealHolds`, for any identities, servers
  and caps.  The invariant has three parts.  `Learned`: the strength of the
  endpoint's mark is backed by a denial that happened.  `Work`: every item in flight
  and in the queue is `Sound`, that is, its credentials fit its kind, and whoever is
  sent without any goes where somebody was denied; `Sound` is kept because the
  strength never falls (`GoodGrows`).  `Found2`: the findings.  A lemma per oracle says
  that a success leaves a sound queue and bounded budgets; two facts about
  `PushAll` and `Charge` carry them.  `AccessAssumption` says that sessions and API
  keys are different things and that the cap is at least one.
* **Chains_proofs**: `GraphConsistentHolds`, `GraphIsTrueHolds`,
  `AccusedWasDeletedHolds`, `PicksStayInTenantHolds`, `NoOrphanFilesHolds`,
  `ChainsEndHolds`, for any
  types, nesting, servers, answers, grammars, caps and depths.  None of the first four is
  inductive: what is recorded today was answered some time ago, and by then the server
  has gone on.  The invariant therefore follows an answer from its beginning.
  `Ready`: a request that was answered had reached its resource, and while no answer has
  misled, what this one says is `Tidy`; it stays so because objects only `Grow` (none
  goes, none moves).  `GraphOK`: the indexes agree and every instance is `Faithful`.  Of
  that one half holds whatever answers say: who is dead is of `deletions`, what DELETEs
  have named.  The other is conditional on `tidy`: the server has it, its parent is the
  real one and its tenant contains it (`Inside`).  `Waits`: what the graph gave to a
  queued item lies in the chain's tenant.  `Inside` quantifies over sets that are closed
  under containment, so that no path need be followed to its end, and the walk to the
  root, which the code cuts at eight steps, is right however far it gets
  (`ResolveInside`).  `EvictKeeps`, `RecordKeeps` and `LinkKeeps` are the graph's
  operations.  `CandidatesFound` says that of tidy answers every candidate is a resource
  of the server's and that neighbours under one relation are parent and child or of one
  type, within a link by its path and across two by the condition on types
  (`FlattenAdjacent`).  `StepKeeps` goes through the candidates of an answer; within a
  step the dead may also be those that a DELETE names in this very answer (`Condemned`),
  but only the first mention of each is judged, when it is not yet one of them, and
  that is why an accused resource was named before.  `OutcomesReady` goes through what
  a server may answer.  `TargetsAssumption` gives the shapes of grammars and answers and
  says that a POST addresses a collection, PUT and DELETE a resource; of what answers
  say it asks nothing.
  `NoOrphanFiles` is inductive as it stands: of all that `Handle` does only
  `MaybePersist` touches exemplars and files, and `PersistKeeps` goes through its
  three outcomes.
  `ChainsEndHolds` compares what is left to do before and after an answer.  A request
  is worth `Fanout + 4` of those one step deeper (`Worth`); what an answer leaves is at
  most its next page and the branches of `Fanout + 2` consumers, each a step deeper,
  which weigh `(Fanout + 3) * w < (Fanout + 4) * w` (`ContinueLess`).  That they are a
  step deeper rests on `DInv`: an item's depth is the depth of its chain (`Deep`), within
  the cap, and 0 for a request that belongs to no chain, so a full queue that drops an
  item only makes the sum smaller (`EnqueueLoad`, `QueuesLoad`).  `TotalAppend` and
  `TotalWithout` say what a sum over a queue or over what is in flight becomes when an
  item is added or taken out.  `ChainsAssumption` asks for a fan-out of at least one, as
  the configuration does (`flags.go` 259).

Steps that loop over a sequence are recursive functions on `0 .. Len(s)`.  That such
a function exists and what it keeps is proved by induction up to a bound (`UpTo`),
which is derived from the well-foundedness of `<` and stated with a set in place of a
predicate, since the provers take no lemma about operators.

Only model-checked: the liveness properties `StopEndsRun`, `WorkersExit`, `TrackingEnds`,
`ProbesAreSent` and `CatchesUp` (the prover has no `ENABLED`), and `BodiesAsAsked`: what
`Build` and the structural operators make of a schema is a recursion over trees
(`RECURSIVE` in Bodies), about which the prover has no induction.

## 6. Bounds and abstractions

Bounds named in the modules: `SendBound` (Dispatch), `MaxSeeds` and `MaxWeight`
(Sampler), `FlightBound` and `SeedBound` (Corpus), `ResultBound` (Epochs),
`PathBound` (Coverage), `Bursts` (RaceBurst), `FindBound` (Checkpoint), `MaxFlight`
(AccessOracle, Chains), `Seeds` and `MaxObjects` (Chains), `results` of a server
and `WalkSteps` (CrashLog; proved to be enough for a walk over any body),
`MaxHarvests`, `MaxClock` and `MaxLessons` (Learning).  All others
are configuration values of the code.  Names, paths, bodies and bytes are left
out; floats are small integers.  Atomicity: a handler of the main loop is one step,
since nothing else writes its state; the target's merge is one step because it
holds a lock (`covLock`), but executions interleave with everything.

`Dispatch` treats handling a result as one step although reproducing a crash
sends requests from the main loop; the drain deadline passing at any moment covers
the time that takes, not the requests themselves.

## 7. Not modelled, and what is left

Components with that status in `PROJECT.json`: reports, terminal and web
interface are output; the configuration's clamps are the assumptions on the
models' constants; grammar compiler, target preparation, analyzer and instrumentor
are translations without state between inputs; the command line, the campaign
script and the deployments call other programs one after the other.

Of the components modelled in part:

* Coverage: the bitmap file of `-direct-shm` and the health check.  A reset through
  that file leaves the target's virgin map, so that classes found again are not
  counted; the HTTP reset, which is modelled, clears both.
* Oracles: the webhook heuristic, injection and schema oracles (text matching).
* Extraction: links that address a list, confidence as a number, the limits of depth
  and of list length up to which bodies are read.
* Sequences: polling of asynchronous jobs, the upload chain, novelty scores (a free
  choice), race copies that share a chain's state, the failure of every branch to
  render.
* Resource graph: production and consumption counters, aliases and identity kinds,
  export and import with the checkpoint.
* Crash handling: the scoring table of `triage.go`.
* Authentication: the login dialogue, the choice of an identity, `jwt_expiry.go`.
* Stores: dictionaries, dependency values, what makes a value useful.
* Bodies: text mutation and operator weights.

Two hazards have no property because the code violates any that would cover them:
a Fenwick node appended without its children's sum (`types.go` 212) and a boost by a
stale position (`worker.go` 734).  Both are among the disagreements above.  Others are
known and not modelled: members of a burst that are sent one after the other,
seeds that outlive a template, the reset above, and a novelty key with
concrete paths in it (`resource_graph.go` 220).

Next: aliases and export/import in ResourceGraph; asynchronous polling and the upload
chain in Chains; a composition of AccessOracle and RaceBurst over the probe queue,
and of Dispatch and Scheduler over the item.
