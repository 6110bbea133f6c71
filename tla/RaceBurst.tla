----------------------------- MODULE RaceBurst -----------------------------
(***************************************************************************)
(* The race oracle: enqueueRaceBurst (engine/identity.go) queues several   *)
(* copies of a write that succeeded, buildWorkItem (engine/template.go)    *)
(* sends them ahead of everything else, and recordRaceBurstResult          *)
(* (engine/race.go), called by handleResult (engine/worker.go), counts how *)
(* many succeeded once all have reported.                                  *)
(*                                                                         *)
(* The access probes that a successful member gives rise to (engine/       *)
(* oracle.go) are copies of the member, its BurstID included.              *)
(***************************************************************************)
EXTENDS Integers, Sequences, FiniteSets

CONSTANTS
    Bursts,        \* the bursts of one run; a bound of the model
    BurstSize,     \* RaceBurst, clamped to 2 .. 64
    RaceQueueMax,  \* raceQueueMax
    ProbeQueueMax, \* Config.AccessProbeQueueMax
    TrackedMax,    \* maxTrackedRaceBursts
    MaxFlight,     \* the dispatcher's target
    Probed         \* the bursts of writes whose successes may be probed

ASSUME RaceAssumption ==
    /\ IsFiniteSet(Bursts)
    /\ BurstSize \in Nat /\ BurstSize >= 2
    /\ RaceQueueMax \in Nat \ {0} /\ ProbeQueueMax \in Nat \ {0}
    /\ TrackedMax \in Nat \ {0} /\ MaxFlight \in Nat \ {0}
    /\ Probed \subseteq Bursts

VARIABLES
    raceQueue, oracleQueue,
    flight,         \* the items being sent
    success, seen,  \* raceBurstSuccess and raceBurstSeen, 0 where there is no entry
    evaluated,      \* raceBurstEvaluated
    findings,       \* bursts recorded as a race
    blocked,        \* has the endpoint been blocked after a 500?
    \* what really happened, which the code does not record:
    reported,       \* the members of each burst that have reported
    succeeded,      \* those that succeeded
    lost            \* bursts that lost a member or their counts

queues  == <<raceQueue, oracleQueue>>
counts  == <<success, seen, evaluated, findings>>
history == <<reported, succeeded, lost>>
vars    == <<queues, flight, counts, blocked, history>>

Members == 1 .. BurstSize
Item    == [burst : Bursts, member : Members, probe : BOOLEAN]
Tracked == {b \in Bursts : seen[b] > 0}

\* A bounded queue that drops its oldest item to make room.
Push(q, max, it) == Append(IF Len(q) >= max THEN Tail(q) ELSE q, it)

Init ==
    /\ raceQueue = <<>> /\ oracleQueue = <<>> /\ flight = {}
    /\ success = [b \in Bursts |-> 0] /\ seen = [b \in Bursts |-> 0]
    /\ evaluated = {} /\ findings = {} /\ blocked = FALSE
    /\ reported = [b \in Bursts |-> {}] /\ succeeded = [b \in Bursts |-> {}]
    /\ lost = {}

-----------------------------------------------------------------------------
(* Queueing and sending.                                                   *)

Started == {b \in Bursts : \/ reported[b] # {} \/ b \in lost
                           \/ \E it \in flight : it.burst = b
                           \/ \E i \in DOMAIN raceQueue : raceQueue[i].burst = b}

\* The raceQueue after the members of b, one by one, have been queued.
WithBurst(b) ==
    LET q == raceQueue \o [m \in Members |-> [burst |-> b, member |-> m, probe |-> FALSE]]
    IN SubSeq(q, Len(q) - (IF Len(q) > RaceQueueMax THEN RaceQueueMax ELSE Len(q)) + 1, Len(q))

\* enqueueRaceBurst for a fresh BurstID, or not, as chance has it.
MaybeEnqueueBurst ==
    \/ UNCHANGED <<raceQueue, lost>>
    \/ \E b \in Bursts \ Started :
         LET q == WithBurst(b) IN
         /\ raceQueue' = q
         /\ lost' = lost \cup
              {x \in Bursts : \E it \in {raceQueue[i] : i \in DOMAIN raceQueue}
                                   \cup [burst : {b}, member : Members, probe : {FALSE}] :
                  it.burst = x /\ \A i \in DOMAIN q : q[i] # it}

\* A write that is no member of a burst succeeds.
OtherWriteSucceeds ==
    /\ MaybeEnqueueBurst
    /\ UNCHANGED <<oracleQueue, flight, counts, blocked, reported, succeeded>>

\* buildWorkItem: the race queue first; all of it is skipped once the endpoint is
\* blocked.  Then the probes, which are sent to a blocked endpoint too.
Send ==
    /\ Cardinality(flight) < MaxFlight
    /\ \/ /\ raceQueue # <<>> /\ ~blocked
          /\ raceQueue' = Tail(raceQueue)
          /\ flight' = flight \cup {Head(raceQueue)}
          /\ UNCHANGED <<oracleQueue, lost>>
       \/ /\ raceQueue = <<>> \/ blocked
          /\ oracleQueue # <<>>
          /\ raceQueue' = <<>>
          /\ lost' = lost \cup {raceQueue[i].burst : i \in DOMAIN raceQueue}
          /\ oracleQueue' = Tail(oracleQueue)
          /\ flight' = flight \cup {Head(oracleQueue)}
    /\ UNCHANGED <<counts, blocked, reported, succeeded>>

\* A 500 of the endpoint under SkipEndpointOn500.
BlockEndpoint ==
    /\ ~blocked /\ blocked' = TRUE
    /\ UNCHANGED <<queues, flight, counts, history>>

-----------------------------------------------------------------------------
(* Results.                                                                *)

\* One arbitrary entry goes when there are more than TrackedMax.
EvictOne(S, T) ==
    IF Cardinality(S) > TrackedMax THEN \E b \in S : T = S \ {b} ELSE T = S

\* Mutant of RecordRaceBurstResult: one member fewer is waited for.
RecordOneEarly(b, ok) ==
    LET n == seen[b] + 1
        k == IF ok THEN success[b] + 1 ELSE success[b]
    IN
    IF b \in evaluated
    THEN UNCHANGED <<counts, lost>>
    ELSE IF n < BurstSize - 1
    THEN /\ seen' = [seen EXCEPT ![b] = n]
         /\ success' = [success EXCEPT ![b] = k]
         /\ UNCHANGED <<evaluated, findings, lost>>
    ELSE /\ evaluated' = evaluated \cup {b}
         /\ seen' = [seen EXCEPT ![b] = 0]
         /\ success' = [success EXCEPT ![b] = 0]
         /\ findings' = IF k > 1 THEN findings \cup {b} ELSE findings
         /\ UNCHANGED lost

\* Mutant of RecordRaceBurstResult: every member counts as a success.
RecordEveryMember(b, ok) ==
    IF seen[b] + 1 < BurstSize
    THEN /\ seen' = [seen EXCEPT ![b] = @ + 1]
         /\ success' = [success EXCEPT ![b] = @ + 1]
         /\ UNCHANGED <<evaluated, findings, lost>>
    ELSE /\ seen' = [seen EXCEPT ![b] = 0]
         /\ success' = [success EXCEPT ![b] = 0]
         /\ findings' = findings \cup {b}
         /\ UNCHANGED <<evaluated, lost>>

\* recordRaceBurstResult.
RecordRaceBurstResult(b, ok) ==
    LET n == seen[b] + 1
        k == IF ok THEN success[b] + 1 ELSE success[b]
    IN
    IF b \in evaluated
    THEN UNCHANGED <<counts, lost>>
    ELSE IF n < BurstSize
    THEN \E kept \in SUBSET (Tracked \cup {b}) :
           /\ EvictOne(Tracked \cup {b}, kept)
           /\ seen' = [x \in Bursts |-> IF x \notin kept THEN 0 ELSE IF x = b THEN n ELSE seen[x]]
           /\ success' = [x \in Bursts |->
                             IF x \notin kept THEN 0 ELSE IF x = b THEN k ELSE success[x]]
           /\ lost' = lost \cup ((Tracked \cup {b}) \ kept)
           /\ UNCHANGED <<evaluated, findings>>
    ELSE \E done \in SUBSET (evaluated \cup {b}) :
           /\ EvictOne(evaluated \cup {b}, done)
           /\ evaluated' = done
           /\ seen' = [seen EXCEPT ![b] = 0]
           /\ success' = [success EXCEPT ![b] = 0]
           /\ findings' = IF k > 1 THEN findings \cup {b} ELSE findings
           /\ UNCHANGED lost

\* What the history knows of the result of item it.
Note(it, ok) ==
    IF it.probe
    THEN UNCHANGED <<reported, succeeded>>
    ELSE /\ reported' = [reported EXCEPT ![it.burst] = @ \cup {it.member}]
         /\ succeeded' = IF ok THEN [succeeded EXCEPT ![it.burst] = @ \cup {it.member}]
                         ELSE succeeded

\* Mutant of HandleResult: only a success is counted.
HandleOnlySuccess(it, ok) ==
    /\ it \in flight
    /\ flight' = flight \ {it}
    /\ IF ok THEN RecordRaceBurstResult(it.burst, ok) ELSE UNCHANGED <<counts, lost>>
    /\ Note(it, ok)
    /\ UNCHANGED <<queues, blocked>>

\* handleResult of an item with a BurstID.  The result is counted first, whatever
\* it is; an error, a failure and a probe go no further here; a successful member
\* may be probed.  (That it may start a burst of its own is OtherWriteSucceeds.)
HandleResult(it, ok) ==
    /\ it \in flight
    /\ flight' = flight \ {it}
    /\ RecordRaceBurstResult(it.burst, ok)
    /\ Note(it, ok)
    /\ oracleQueue' \in
         IF it.burst \in Probed /\ ok /\ ~it.probe
         THEN {oracleQueue, Push(oracleQueue, ProbeQueueMax, [it EXCEPT !.probe = TRUE])}
         ELSE {oracleQueue}
    /\ UNCHANGED <<raceQueue, blocked>>

\* Nothing of a burst is queued or in flight; the loop has other work.
OtherWork ==
    /\ raceQueue = <<>> \/ blocked
    /\ oracleQueue = <<>> /\ flight = {}
    /\ raceQueue' = <<>>
    /\ lost' = lost \cup {raceQueue[i].burst : i \in DOMAIN raceQueue}
    /\ UNCHANGED <<oracleQueue, flight, counts, blocked, reported, succeeded>>

Next ==
    \/ OtherWriteSucceeds \/ Send \/ BlockEndpoint \/ OtherWork
    \/ \E it \in flight, ok \in BOOLEAN : HandleResult(it, ok)

Spec == Init /\ [][Next]_vars

\* The main loop keeps sending and every request ends, if only by its timeout.
FairSpec ==
    /\ Spec
    /\ WF_vars(Send) /\ WF_vars(OtherWork)
    /\ WF_vars(\E it \in flight, ok \in BOOLEAN : HandleResult(it, ok))

-----------------------------------------------------------------------------
TypeOK ==
    /\ raceQueue \in Seq(Item) /\ oracleQueue \in Seq(Item) /\ flight \subseteq Item
    /\ success \in [Bursts -> Nat] /\ seen \in [Bursts -> Nat]
    /\ evaluated \subseteq Bursts /\ findings \subseteq Bursts /\ blocked \in BOOLEAN
    /\ reported \in [Bursts -> SUBSET Members] /\ succeeded \in [Bursts -> SUBSET Members]
    /\ lost \subseteq Bursts

\* The three maps agree: a count is never left at or past the burst size, there
\* are no more successes than results, an evaluated burst has no counts left, and
\* the eviction keeps both maps within their cap.
Bookkeeping ==
    /\ \A b \in Bursts : success[b] <= seen[b] /\ seen[b] < BurstSize
    /\ evaluated \cap Tracked = {}
    /\ Cardinality(Tracked) <= TrackedMax
    /\ Cardinality(evaluated) <= TrackedMax

\* "MORE THAN ONE of N simultaneous identical requests succeed" (race.go): a burst
\* is recorded as a race only if two of its members succeeded.
FindingIsReal == \A b \in findings : Cardinality(succeeded[b]) > 1

\* So it is for the bursts whose members are not probed, however the counts are
\* evicted, members dropped and bursts mixed.
UnprobedFindingIsReal ==
    \A b \in findings \ Probed : Cardinality(succeeded[b]) > 1

\* A burst of which two members succeeded is recorded once all have reported,
\* unless a member or its counts were dropped on the way or a probe was counted.
RaceRecorded ==
    \A b \in Bursts \ (lost \cup Probed) :
        reported[b] = Members /\ Cardinality(succeeded[b]) > 1 => b \in findings

\* Errored members do not keep a burst waiting: it leaves the tracking maps.  (A
\* probe that reports after its burst was evaluated and the mark evicted opens a
\* count that only the cap removes.)
TrackingEnds == \A b \in Bursts \ Probed : (seen[b] > 0) ~> (seen[b] = 0 \/ b \in lost)
=============================================================================
