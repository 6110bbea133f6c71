------------------------------ MODULE Dispatch ------------------------------
(***************************************************************************)
(* The dispatcher of the fuzzing engine: mainLoop of engine/worker.go.     *)
(*                                                                         *)
(* One goroutine (the main loop) builds requests and puts them on the      *)
(* buffered channel workCh; MaxConcurrency workers take them, send them    *)
(* over HTTP and put the outcome on the buffered channel resultCh; the     *)
(* main loop takes the results and handles them.  A typed command, an OS   *)
(* signal or the end of the time budget ends the loop; the results still   *)
(* in flight are drained until a deadline; closing workCh ends the         *)
(* workers.                                                                *)
(*                                                                         *)
(* A request is its sequence number.  What a request contains and what     *)
(* handling it does beyond the counters is the business of the other       *)
(* modules of this project.                                                *)
(***************************************************************************)
EXTENDS Integers, Sequences, FiniteSets

CONSTANTS
    Workers,            \* the worker goroutines, one per unit of MaxConcurrency
    MinConcurrency,     \* Config.MinConcurrency
    Concurrency,        \* Config.Concurrency, the initial target
    SequentialBaseline, \* Config.SequentialBaseline
    WorkCap,            \* capacity of workCh
    ResultCap,          \* capacity of resultCh
    SendBound           \* bound of the model: requests sent in one run

MaxConcurrency == Cardinality(Workers)

\* config.ParseFlags clamps 1 <= Min <= Concurrency <= Max; the channels are
\* made with capacities max(128, 4*Max) and max(512, 16*Max), of which only
\* "no smaller than Max" is used.
ASSUME DispatchAssumption ==
    /\ IsFiniteSet(Workers)
    /\ MinConcurrency \in Nat \ {0}
    /\ Concurrency \in MinConcurrency .. MaxConcurrency
    /\ SequentialBaseline \in BOOLEAN
    /\ WorkCap \in Nat /\ WorkCap >= MaxConcurrency
    /\ ResultCap \in Nat /\ ResultCap >= MaxConcurrency
    /\ SendBound \in Nat

VARIABLES
    pc,                 \* where the main loop is
    desired,            \* the target of this iteration
    currentConcurrency, \* the adaptive target
    pending,            \* requests sent and not yet handled, as mainLoop counts them
    totalSent, totalDone, totalErrors,
    workCh, resultCh,   \* the two channels
    worker,             \* the request each worker is sending, or Idle
    exited,             \* the workers whose range loop has ended
    stopCh, sigCh,      \* is there a value in the one-place channel?
    listening,          \* is the stdin listener still reading?
    stoppedByUser,
    baseline,           \* is the current epoch Baseline?
    timeLeft,           \* is there time budget left?
    deadlinePassed      \* has the drain deadline passed?

mainVars  == <<pc, desired, currentConcurrency, pending, totalSent, totalDone,
               totalErrors, stoppedByUser>>
chanVars  == <<workCh, resultCh, worker, exited>>
envVars   == <<stopCh, sigCh, listening, baseline, timeLeft, deadlinePassed>>
vars      == <<mainVars, chanVars, envVars>>

Idle    == 0
Request == 1 .. SendBound
Result  == [id : Request, err : BOOLEAN]

Busy == {w \in Workers : worker[w] # Idle}

AtLeast(a, b) == IF a >= b THEN a ELSE b
AtMost(a, b)  == IF a <= b THEN a ELSE b

Init ==
    /\ pc = "loop"
    /\ desired = Concurrency
    /\ currentConcurrency = Concurrency
    /\ pending = 0 /\ totalSent = 0 /\ totalDone = 0 /\ totalErrors = 0
    /\ workCh = <<>> /\ resultCh = <<>>
    /\ worker = [w \in Workers |-> Idle]
    /\ exited = {}
    /\ stopCh = FALSE /\ sigCh = FALSE
    /\ listening \in BOOLEAN          \* no listener when stdin is no terminal
    /\ stoppedByUser = FALSE
    /\ baseline = TRUE
    /\ timeLeft = TRUE /\ deadlinePassed = FALSE

-----------------------------------------------------------------------------
(* What the main loop's select statements take.                            *)

\* Mutant of TakeStop: a stop that arrives while the loop is idle is forgotten.
TakeStopUnlessIdle ==
    /\ \/ stopCh /\ stopCh' = FALSE /\ sigCh' = sigCh
       \/ sigCh /\ sigCh' = FALSE /\ stopCh' = stopCh
    /\ stoppedByUser' = (stoppedByUser \/ pc # "idle")

\* The case of stopCh or of sigCh: one value is taken and the run is marked.
TakeStop ==
    /\ \/ stopCh /\ stopCh' = FALSE /\ sigCh' = sigCh
       \/ sigCh /\ sigCh' = FALSE /\ stopCh' = stopCh
    /\ stoppedByUser' = TRUE

\* The case of the ticker, or of no case at all.
TakeNothing == UNCHANGED <<stopCh, sigCh, stoppedByUser>>

\* Mutant of TakeResult: an errored result returns before it leaves flight.
TakeResultKeepsErrors ==
    /\ resultCh # <<>>
    /\ resultCh' = Tail(resultCh)
    /\ IF Head(resultCh).err
       THEN totalErrors' = totalErrors + 1 /\ UNCHANGED <<totalDone, pending>>
       ELSE totalDone' = totalDone + 1 /\ pending' = pending - 1 /\ UNCHANGED totalErrors
    /\ TakeNothing

\* The case of resultCh: the result leaves flight and handleResult counts it.
TakeResult ==
    /\ resultCh # <<>>
    /\ resultCh' = Tail(resultCh)
    /\ pending' = pending - 1
    /\ IF Head(resultCh).err
       THEN totalErrors' = totalErrors + 1 /\ UNCHANGED totalDone
       ELSE totalDone' = totalDone + 1 /\ UNCHANGED totalErrors
    /\ TakeNothing

\* Error rate and latency, which are not modelled, decide among these.
TuneConcurrency ==
    currentConcurrency' \in
        {currentConcurrency,
         AtLeast(MinConcurrency, currentConcurrency - 2),
         AtLeast(MinConcurrency, currentConcurrency - 1),
         AtMost(MaxConcurrency, currentConcurrency + 1)}

-----------------------------------------------------------------------------
(* The main loop.                                                          *)

\* The head of the loop: the condition holds, a stop is taken if one is there
\* (and the iteration still runs to its end), the epoch gives the target.
BeginIteration ==
    /\ pc = "loop" /\ timeLeft /\ ~stoppedByUser
    /\ IF stopCh \/ sigCh THEN TakeStop ELSE TakeNothing
    /\ desired' = IF baseline /\ SequentialBaseline THEN 1 ELSE currentConcurrency
    /\ pc' = "fill"
    /\ UNCHANGED <<currentConcurrency, pending, totalSent, totalDone, totalErrors,
                   chanVars, listening, baseline, timeLeft, deadlinePassed>>

\* Mutant of Dispatch: the fill loop runs until workCh is full.
DispatchPastTarget ==
    /\ pc = "fill"
    /\ Len(workCh) < WorkCap
    /\ totalSent < SendBound
    /\ workCh' = Append(workCh, totalSent + 1)
    /\ pending' = pending + 1
    /\ totalSent' = totalSent + 1
    /\ UNCHANGED <<pc, desired, currentConcurrency, totalDone, totalErrors,
                   stoppedByUser, resultCh, worker, exited, envVars>>

\* One round of the fill loop that sends: buildWorkItem found a request.
Dispatch ==
    /\ pc = "fill"
    /\ pending < desired
    /\ Len(workCh) < WorkCap
    /\ totalSent < SendBound
    /\ workCh' = Append(workCh, totalSent + 1)
    /\ pending' = pending + 1
    /\ totalSent' = totalSent + 1
    /\ UNCHANGED <<pc, desired, currentConcurrency, totalDone, totalErrors,
                   stoppedByUser, resultCh, worker, exited, envVars>>

\* The fill loop ends: the target is met, workCh is full, or buildWorkItem has
\* nothing to send (no active template, a template that does not render).
EndFill ==
    /\ pc = "fill"
    /\ pc' = IF pending = 0 THEN "idle" ELSE "wait"
    /\ UNCHANGED <<desired, currentConcurrency, pending, totalSent, totalDone,
                   totalErrors, stoppedByUser, chanVars, envVars>>

\* Nothing is in flight: the loop sleeps or takes a stop, then starts over.
IdleRound ==
    /\ pc = "idle"
    /\ TakeStop \/ TakeNothing
    /\ TuneConcurrency
    /\ pc' = "loop"
    /\ UNCHANGED <<desired, pending, totalSent, totalDone, totalErrors, chanVars,
                   listening, baseline, timeLeft, deadlinePassed>>

\* The blocking select over stop, signal, result and tick.
WaitRound ==
    /\ pc = "wait"
    /\ \/ TakeResult
       \/ (TakeStop \/ TakeNothing)
          /\ UNCHANGED <<pending, totalDone, totalErrors, resultCh>>
    /\ TuneConcurrency
    /\ pc' = "loop"
    /\ UNCHANGED <<desired, totalSent, workCh, worker, exited,
                   listening, baseline, timeLeft, deadlinePassed>>

\* The loop condition fails: the drain deadline is set, the drain begins.
LeaveLoop ==
    /\ pc = "loop"
    /\ ~timeLeft \/ stoppedByUser
    /\ pc' = "drain"
    /\ UNCHANGED <<desired, currentConcurrency, pending, totalSent, totalDone,
                   totalErrors, stoppedByUser, chanVars, envVars>>

\* One round of the drain loop that is not a tick.
DrainRound ==
    /\ pc = "drain" /\ pending > 0 /\ ~deadlinePassed
    /\ \/ TakeResult
       \/ TakeStop /\ UNCHANGED <<pending, totalDone, totalErrors, resultCh>>
    /\ UNCHANGED <<pc, desired, currentConcurrency, totalSent, workCh, worker,
                   exited, listening, baseline, timeLeft, deadlinePassed>>

\* Mutant of EndDrain: the drain ends as soon as no result is waiting.
EndDrainWhenQuiet ==
    /\ pc = "drain"
    /\ resultCh = <<>> \/ deadlinePassed
    /\ pc' = "report"
    /\ UNCHANGED <<desired, currentConcurrency, pending, totalSent, totalDone,
                   totalErrors, stoppedByUser, chanVars, envVars>>

\* The drain ends, the writers are flushed and the report is printed.
EndDrain ==
    /\ pc = "drain"
    /\ pending = 0 \/ deadlinePassed
    /\ pc' = "report"
    /\ UNCHANGED <<desired, currentConcurrency, pending, totalSent, totalDone,
                   totalErrors, stoppedByUser, chanVars, envVars>>

\* mainLoop returns: the deferred close(workCh) runs.
CloseWorkCh ==
    /\ pc = "report"
    /\ pc' = "closed"
    /\ UNCHANGED <<desired, currentConcurrency, pending, totalSent, totalDone,
                   totalErrors, stoppedByUser, chanVars, envVars>>

MainStep ==
    \/ BeginIteration \/ Dispatch \/ EndFill \/ IdleRound \/ WaitRound
    \/ LeaveLoop \/ DrainRound \/ EndDrain \/ CloseWorkCh

-----------------------------------------------------------------------------
(* The workers:  for it := range workCh { resultCh <- sendOne(it) }        *)

WorkerTake(w) ==
    /\ w \notin exited
    /\ worker[w] = Idle
    /\ workCh # <<>>
    /\ worker' = [worker EXCEPT ![w] = Head(workCh)]
    /\ workCh' = Tail(workCh)
    /\ UNCHANGED <<mainVars, resultCh, exited, envVars>>

\* Mutant of WorkerReply: an errored request is reported and sent again.
WorkerReplyAndRetry(w) ==
    /\ worker[w] # Idle
    /\ Len(resultCh) < ResultCap
    /\ \E err \in BOOLEAN :
           /\ resultCh' = Append(resultCh, [id |-> worker[w], err |-> err])
           /\ worker' = [worker EXCEPT ![w] = IF err THEN @ ELSE Idle]
    /\ UNCHANGED <<mainVars, workCh, exited, envVars>>

\* sendOne has returned, with a response or with a transport error.
WorkerReply(w) ==
    /\ worker[w] # Idle
    /\ Len(resultCh) < ResultCap
    /\ \E err \in BOOLEAN :
           resultCh' = Append(resultCh, [id |-> worker[w], err |-> err])
    /\ worker' = [worker EXCEPT ![w] = Idle]
    /\ UNCHANGED <<mainVars, workCh, exited, envVars>>

\* Mutant of WorkerExit: the end is told to the workers by one value sent on the
\* channel instead of by closing it, so only one worker learns of it.
WorkerExitOnce(w) ==
    /\ pc = "closed" /\ exited = {}
    /\ worker[w] = Idle
    /\ workCh = <<>>
    /\ exited' = {w}
    /\ UNCHANGED <<mainVars, workCh, resultCh, worker, envVars>>

\* The range loop over a closed channel ends once the channel is empty.
WorkerExit(w) ==
    /\ pc = "closed"
    /\ worker[w] = Idle
    /\ workCh = <<>>
    /\ w \notin exited
    /\ exited' = exited \cup {w}
    /\ UNCHANGED <<mainVars, workCh, resultCh, worker, envVars>>

WorkerStep(w) == WorkerTake(w) \/ WorkerReply(w) \/ WorkerExit(w)

-----------------------------------------------------------------------------
(* The user, the operating system and the clock.                           *)

\* The stdin listener reads a stop command, sends it and returns.
TypeStop ==
    /\ listening
    /\ listening' = FALSE
    /\ stopCh' = TRUE
    /\ UNCHANGED <<mainVars, chanVars, sigCh, baseline, timeLeft, deadlinePassed>>

\* signal.Notify sends without blocking: a second signal is dropped.
Signal ==
    /\ pc # "closed"
    /\ sigCh' = TRUE
    /\ UNCHANGED <<mainVars, chanVars, stopCh, listening, baseline, timeLeft,
                   deadlinePassed>>

BaselineEnds ==
    /\ baseline
    /\ baseline' = FALSE
    /\ UNCHANGED <<mainVars, chanVars, stopCh, sigCh, listening, timeLeft,
                   deadlinePassed>>

BudgetExpires ==
    /\ timeLeft
    /\ timeLeft' = FALSE
    /\ UNCHANGED <<mainVars, chanVars, stopCh, sigCh, listening, baseline,
                   deadlinePassed>>

DrainDeadlinePasses ==
    /\ pc = "drain"
    /\ ~deadlinePassed
    /\ deadlinePassed' = TRUE
    /\ UNCHANGED <<mainVars, chanVars, stopCh, sigCh, listening, baseline, timeLeft>>

Environment == TypeStop \/ Signal \/ BaselineEnds \/ BudgetExpires \/ DrainDeadlinePasses

\* Everything has ended; the only state in which nothing need happen.
Finished ==
    /\ pc = "closed" /\ exited = Workers
    /\ UNCHANGED vars

Next ==
    \/ MainStep
    \/ \E w \in Workers : WorkerStep(w)
    \/ Environment
    \/ Finished

Spec == Init /\ [][Next]_vars

\* The goroutine scheduler runs a goroutine that can run; the drain deadline is
\* a wall-clock time and passes.  Nothing is assumed of the time budget: it may
\* be hours, and the properties below do not wait for it.
FairSpec ==
    /\ Spec
    /\ WF_vars(MainStep)
    /\ \A w \in Workers : WF_vars(WorkerStep(w))
    /\ WF_vars(DrainDeadlinePasses)

-----------------------------------------------------------------------------
TypeOK ==
    /\ pc \in {"loop", "fill", "idle", "wait", "drain", "report", "closed"}
    /\ desired \in 1 .. MaxConcurrency
    /\ currentConcurrency \in MinConcurrency .. MaxConcurrency
    /\ pending \in Int                   \* Conservation: never negative
    /\ totalSent \in 0 .. SendBound /\ totalDone \in Nat /\ totalErrors \in Nat
    /\ workCh \in Seq(Request) /\ resultCh \in Seq(Result)
    /\ worker \in [Workers -> Request \cup {Idle}]
    /\ exited \subseteq Workers
    /\ stopCh \in BOOLEAN /\ sigCh \in BOOLEAN /\ listening \in BOOLEAN
    /\ stoppedByUser \in BOOLEAN /\ baseline \in BOOLEAN
    /\ timeLeft \in BOOLEAN /\ deadlinePassed \in BOOLEAN

\* What mainLoop counts as pending is exactly what is on a channel or held by a
\* worker, and every request sent is pending or was counted once.  The drain and
\* the progress display rely on a count that is never compared with the channels.
Conservation ==
    /\ pending = Len(workCh) + Cardinality(Busy) + Len(resultCh)
    /\ totalSent = pending + totalDone + totalErrors

\* However the target moves while requests are in flight (it can drop below the
\* number in flight), no more requests are ever outstanding than there are workers.
BoundedFlight == pending <= MaxConcurrency

\* No request waits in workCh behind a busy worker: there is an idle worker for
\* each.  The drain deadline, one request timeout plus a margin, is long enough
\* only because of this: a queued request would need a second timeout.
NoQueueing ==
    Len(workCh) <= Cardinality({w \in Workers \ exited : worker[w] = Idle})

\* A worker never blocks on resultCh, not even after the main loop has stopped
\* reading it: no worker goroutine can leak at shutdown.
WorkersNeverBlock == Busy # {} => Len(resultCh) < ResultCap

\* Unless the drain deadline cut it short, the report is printed only when every
\* request sent has been counted as done or as an error.
CompleteReport ==
    pc \in {"report", "closed"} /\ ~deadlinePassed => totalSent = totalDone + totalErrors

\* A typed stop or a signal ends the run, whatever the time budget: a request to
\* stop is not lost between the three select statements that may take it.
StopEndsRun == (stopCh \/ sigCh) ~> (pc = "closed")

\* Once the run has ended every worker goroutine ends too.
WorkersExit == (pc = "closed") ~> (exited = Workers)
=============================================================================
